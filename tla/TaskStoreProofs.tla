-------------------------- MODULE TaskStoreProofs --------------------------
(***************************************************************************)
(* Theorems about TaskStore for any set of tasks and workers and any bound *)
(* on attempts and generations.                                            *)
(*                                                                         *)
(* The inductive invariant is StoreInv: the type invariant, the five       *)
(* safety invariants the model checker runs, and RowsWellFormed, which     *)
(* ties the two attempt numbers of a row to its existence (an invariant    *)
(* about attempt[t][task[t].cur] needs cur to be an attempt).  Every part  *)
(* of it speaks of one task at a time, so a step that writes one row and   *)
(* one attempt has only that task to consider.                             *)
(*                                                                         *)
(* The last part proves that the store implements the abstract life of a   *)
(* task (StoreLifecycle).                                                  *)
(***************************************************************************)
EXTENDS StoreLifecycle, TLAPS

\* A row that exists points at an attempt, and its run is that of an attempt; one
\* that does not has never been written.
WellFormed(r) ==
  IF r.state = "absent" THEN r = AbsentRow ELSE r.cur \in AttemptNo /\ r.run \in AttemptNo

RowsWellFormed == \A t \in Tasks : WellFormed(task[t])

StoreInv ==
  /\ StoreTypeOK
  /\ RowsWellFormed
  /\ OwnerIffActive
  /\ TerminalIffEnded
  /\ OneClaimPerGeneration
  /\ ClaimedIsFenced
  /\ AttemptLockstep

\* The store starts in its inductive invariant.
LEMMA StoreInvInit == StoreInit => StoreInv
<1> SUFFICES ASSUME StoreInit PROVE StoreInv
  OBVIOUS
<1> USE StoreAssumption
<1> USE DEF StoreInit, AbsentRow, AttemptNo
<1>1. StoreTypeOK
  BY DEF StoreTypeOK, TaskRow, TaskState, AttemptState
<1>2. RowsWellFormed /\ OwnerIffActive /\ TerminalIffEnded
  BY DEF RowsWellFormed, WellFormed, OwnerIffActive, TerminalIffEnded, OwnedState
<1>3. OneClaimPerGeneration /\ ClaimedIsFenced /\ AttemptLockstep
  BY DEF OneClaimPerGeneration, ClaimedIsFenced, AttemptLockstep, OwnedState
<1> QED
  BY <1>1, <1>2, <1>3 DEF StoreInv

\* The parts of the invariant other than the type, for one task: what a step
\* that writes the row of t and one attempt of t has to establish.
RowInv(t) ==
  /\ WellFormed(task[t])
  /\ task[t].owner # NoWorker <=> task[t].state \in OwnedState
  /\ task[t].lease # "none" => task[t].owner # NoWorker
  /\ task[t].terminal <=> task[t].state \in {"done", "failed", "cancelled", "blocked"}
  /\ task[t].state = "claimed" =>
       [task |-> t, att |-> task[t].cur, worker |-> task[t].owner, gen |-> task[t].gen]
         \in issued
  /\ task[t].state = "queued" => attempt[t][task[t].cur] = "pending"
  /\ task[t].state \in OwnedState \cup {"done", "cancelled"} =>
       attempt[t][task[t].cur] = task[t].state
  /\ task[t].state = "blocked" => attempt[t][task[t].cur] = "failed"

LEMMA StoreInvByRow ==
  StoreInv <=> StoreTypeOK /\ OneClaimPerGeneration /\ \A t \in Tasks : RowInv(t)
BY DEF StoreInv, RowInv, RowsWellFormed, OwnerIffActive, TerminalIffEnded,
       ClaimedIsFenced, AttemptLockstep

\* A step that leaves `issued` alone, writes one well-typed row, whose generation
\* does not go down, and one attempt of the same task preserves the invariant if
\* it establishes it for that task.
LEMMA OneRowStep ==
  ASSUME StoreInv, NEW t \in Tasks, NEW row \in TaskRow, NEW n \in AttemptNo,
         NEW s \in AttemptState, Write(t, row), WriteAttempt(t, n, s),
         UNCHANGED <<issued, cancelCmd>>, row.gen >= task[t].gen, RowInv(t)'
  PROVE  StoreInv'
<1>0. StoreTypeOK /\ OneClaimPerGeneration /\ \A u \in Tasks : RowInv(u)
  BY StoreInvByRow
<1>1. StoreTypeOK'
  BY <1>0 DEF StoreTypeOK, Write, WriteAttempt
<1>2. ASSUME NEW u \in Tasks, u # t PROVE task'[u] = task[u] /\ attempt'[u] = attempt[u]
  BY <1>0, <1>2 DEF StoreTypeOK, Write, WriteAttempt
<1>3. task'[t] = row
  BY <1>0 DEF StoreTypeOK, Write
<1>4. OneClaimPerGeneration'
  <2>1. ASSUME NEW c \in issued PROVE c.gen <= task'[c.task].gen
    <3>1. c \in Claim /\ c.task \in Tasks /\ c.gen \in Nat /\ c.gen <= task[c.task].gen
      BY <1>0 DEF StoreTypeOK, OneClaimPerGeneration, Claim
    <3>2. CASE c.task = t
      BY <1>0, <1>3, <3>1, <3>2 DEF StoreTypeOK, TaskRow
    <3>3. CASE c.task # t
      BY <1>2, <3>1, <3>3
    <3> QED BY <3>2, <3>3
  <2> QED
    BY <1>0, <2>1 DEF OneClaimPerGeneration
<1>5. ASSUME NEW u \in Tasks PROVE RowInv(u)'
  <2>1. CASE u = t
    BY <2>1
  <2>2. CASE u # t
    <3>1. RowInv(u) BY <1>0
    <3>2. task'[u] = task[u] /\ attempt'[u] = attempt[u] /\ issued' = issued
      BY <1>2, <2>2
    <3> QED BY <3>1, <3>2 DEF RowInv
  <2> QED BY <2>1, <2>2
<1> QED
  BY <1>1, <1>4, <1>5 DEF StoreInv, RowInv, RowsWellFormed, OwnerIffActive,
       TerminalIffEnded, ClaimedIsFenced, AttemptLockstep

-----------------------------------------------------------------------------
(* One lemma per group of operations.                                      *)

\* What the invariant says of one task, for the operations on that task.
LEMMA RowFacts ==
  ASSUME StoreInv, NEW t \in Tasks
  PROVE  task[t] \in TaskRow /\ attempt[t] \in [AttemptNo -> AttemptState] /\ RowInv(t)
BY StoreInvByRow DEF StoreTypeOK

\* The rewrites of a row keep it well typed and say which columns they set.
LEMMA RewrittenRows ==
  ASSUME NEW r \in TaskRow, NEW s \in TaskState
  PROVE  /\ Released(r, s) \in TaskRow
         /\ Released(r, s).state = s /\ Released(r, s).owner = NoWorker
         /\ Released(r, s).lease = "none" /\ Released(r, s).gen = r.gen
         /\ Released(r, s).cur = r.cur /\ Released(r, s).run = r.run
         /\ Released(r, s).terminal = r.terminal
BY DEF Released, TaskRow

LEMMA ClosedRow ==
  ASSUME NEW r \in TaskRow, NEW s \in TaskState
  PROVE  /\ Closed(r, s) \in TaskRow
         /\ Closed(r, s).state = s /\ Closed(r, s).owner = NoWorker
         /\ Closed(r, s).lease = "none" /\ Closed(r, s).gen = r.gen
         /\ Closed(r, s).cur = r.cur /\ Closed(r, s).run = r.run
         /\ Closed(r, s).terminal = TRUE
BY RewrittenRows DEF Closed, TaskRow

LEMMA RequeuedRow ==
  ASSUME NEW r \in TaskRow
  PROVE  /\ Requeued(r) \in TaskRow
         /\ Requeued(r).state = "queued" /\ Requeued(r).owner = NoWorker
         /\ Requeued(r).lease = "none" /\ Requeued(r).gen = r.gen + 1
         /\ Requeued(r).cur = r.cur /\ Requeued(r).run = r.run
         /\ Requeued(r).terminal = r.terminal
<1>1. "queued" \in TaskState
  BY DEF TaskState
<1> QED BY <1>1, RewrittenRows DEF Requeued, TaskRow

LEMMA ReopenedRow ==
  ASSUME NEW r \in TaskRow
  PROVE  /\ Reopened(r) \in TaskRow
         /\ Reopened(r).state = "queued" /\ Reopened(r).owner = NoWorker
         /\ Reopened(r).lease = "none" /\ Reopened(r).gen = r.gen
         /\ Reopened(r).cur = r.cur /\ Reopened(r).run = r.run
         /\ Reopened(r).terminal = FALSE
<1> DEFINE q == Released(r, "queued")
<1>1. /\ q \in TaskRow /\ q.state = "queued" /\ q.owner = NoWorker /\ q.lease = "none"
      /\ q.gen = r.gen /\ q.cur = r.cur /\ q.run = r.run
  BY RewrittenRows DEF TaskState
<1>2. Reopened(r) = [q EXCEPT !.cancelReq = FALSE, !.terminal = FALSE]
  BY DEF Reopened
<1> HIDE DEF q
<1> DEFINE z == [q EXCEPT !.cancelReq = FALSE, !.terminal = FALSE]
<1>3. z \in TaskRow
  BY <1>1 DEF TaskRow
<1>4. /\ z.state = q.state /\ z.owner = q.owner /\ z.lease = q.lease /\ z.gen = q.gen
      /\ z.cur = q.cur /\ z.run = q.run /\ z.terminal = FALSE
  BY <1>1 DEF TaskRow
<1> QED BY <1>1, <1>2, <1>3, <1>4

\* A row that exists is on an attempt.
LEMMA CurrentAttempt ==
  ASSUME StoreInv, NEW t \in Tasks, task[t].state # "absent"
  PROVE  task[t].cur \in AttemptNo /\ task[t].run \in AttemptNo
BY RowFacts DEF RowInv, WellFormed

\* Closing the current row of a task under its current attempt.
LEMMA CloseStep ==
  ASSUME StoreInv, NEW t \in Tasks, NEW n \in AttemptNo, NEW v \in TaskState, NEW s \in AttemptState,
         task[t].state # "absent",
         \/ v \in {"done", "cancelled"} /\ s = v /\ n = task[t].cur
         \/ v = "blocked" /\ s = "failed" /\ n = task[t].cur
         \/ v = "failed" /\ s = "failed",
         Write(t, Closed(task[t], v)), WriteAttempt(t, n, s), UNCHANGED <<issued, cancelCmd>>
  PROVE  StoreInv'
<1>0. task[t] \in TaskRow /\ RowInv(t) /\ StoreTypeOK
  BY RowFacts DEF StoreInv
<1> DEFINE row == Closed(task[t], v)
<1>1. /\ row \in TaskRow /\ row.state = v /\ row.owner = NoWorker /\ row.lease = "none"
      /\ row.gen = task[t].gen /\ row.cur = task[t].cur /\ row.run = task[t].run
      /\ row.terminal = TRUE
  BY <1>0, ClosedRow
<1>2. task'[t] = row
  BY <1>0 DEF Write, StoreTypeOK
<1>3. task[t].cur \in AttemptNo /\ task[t].run \in AttemptNo
  BY CurrentAttempt
<1>4. n = task[t].cur => attempt'[t][task[t].cur] = s
  BY <1>0, <1>3 DEF WriteAttempt, StoreTypeOK
<1>5. v \in {"done", "cancelled", "blocked", "failed"}
  OBVIOUS
<1> HIDE DEF row
<1>6. RowInv(t)'
  BY <1>1, <1>2, <1>3, <1>4, <1>5 DEF RowInv, WellFormed, OwnedState
<1>7. row.gen >= task[t].gen
  BY <1>0, <1>1 DEF TaskRow
<1> QED
  BY <1>1, <1>6, <1>7, OneRowStep DEF row

\* Returning a row to the queue under its attempt n, which becomes pending.
LEMMA QueueStep ==
  ASSUME StoreInv, NEW t \in Tasks, NEW row \in TaskRow, NEW n \in AttemptNo,
         row.state = "queued", row.owner = NoWorker, row.lease = "none",
         row.terminal = FALSE, row.cur = n, row.run \in AttemptNo,
         row.gen >= task[t].gen,
         Write(t, row), WriteAttempt(t, n, "pending"), UNCHANGED <<issued, cancelCmd>>
  PROVE  StoreInv'
<1>0. StoreTypeOK /\ "pending" \in AttemptState
  BY DEF StoreInv, AttemptState
<1>1. task'[t] = row /\ attempt'[t][n] = "pending"
  BY <1>0 DEF Write, WriteAttempt, StoreTypeOK
<1>2. RowInv(t)'
  BY <1>1 DEF RowInv, WellFormed, OwnedState
<1> QED
  BY <1>0, <1>2, OneRowStep

\* Enqueueing: a new task, or the adoption of a known run.
LEMMA EnqueueStep ==
  ASSUME StoreInv, NEW t \in Tasks, Enqueue(t) \/ Adopt(t)
  PROVE  StoreInv'
<1>0. task[t] \in TaskRow /\ RowInv(t)
  BY RowFacts
<1>1. CASE Enqueue(t)
  <2>1. task[t] = AbsentRow
    BY <1>0, <1>1 DEF Enqueue, RowInv, WellFormed
  <2> DEFINE row == [task[t] EXCEPT !.state = "queued", !.cur = 1, !.run = 1]
  <2>2. 1 \in AttemptNo /\ 1 \in 0 .. MaxAttempt
    BY StoreAssumption DEF AttemptNo
  <2>3. row \in TaskRow
    BY <1>0, <2>2 DEF TaskRow, TaskState
  <2>4. /\ row.state = "queued" /\ row.owner = task[t].owner /\ row.lease = task[t].lease
        /\ row.terminal = task[t].terminal /\ row.cur = 1 /\ row.run = 1
        /\ row.gen = task[t].gen
    BY <1>0 DEF TaskRow
  <2>5. task[t].owner = NoWorker /\ task[t].lease = "none" /\ task[t].terminal = FALSE
    BY <2>1 DEF AbsentRow
  <2>6. Write(t, row) /\ WriteAttempt(t, 1, "pending") /\ UNCHANGED <<issued, cancelCmd>>
    BY <1>1, <2>1 DEF Enqueue
  <2>7. row.gen >= task[t].gen
    BY <1>0, <2>4 DEF TaskRow
  <2> HIDE DEF row
  <2> QED
    BY <2>2, <2>3, <2>4, <2>5, <2>6, <2>7, QueueStep
<1>2. CASE Adopt(t)
  <2> DEFINE row == [Reopened(task[t]) EXCEPT !.cur = task[t].run]
  <2>1. task[t].run \in AttemptNo
    BY <1>2, CurrentAttempt DEF Adopt
  <2>2. /\ row \in TaskRow /\ row.state = "queued" /\ row.owner = NoWorker
        /\ row.lease = "none" /\ row.terminal = FALSE /\ row.cur = task[t].run
        /\ row.run = task[t].run /\ row.gen = task[t].gen
    BY <1>0, <2>1, ReopenedRow DEF TaskRow
  <2>3. row.gen >= task[t].gen
    BY <1>0, <2>2 DEF TaskRow
  <2>4. Write(t, row) /\ WriteAttempt(t, task[t].run, "pending") /\ UNCHANGED <<issued, cancelCmd>>
    BY <1>2 DEF Adopt
  <2> HIDE DEF row
  <2> QED
    BY <2>1, <2>2, <2>3, <2>4, QueueStep
<1> QED BY <1>1, <1>2

\* A retry opens the next attempt under the next generation.
LEMMA RetryStep ==
  ASSUME StoreInv, NEW t \in Tasks, Retry(t)
  PROVE  StoreInv'
<1>0. task[t] \in TaskRow
  BY RowFacts
<1>1. task[t].run \in AttemptNo /\ task[t].run + 1 \in AttemptNo
  <2>1. task[t].run \in AttemptNo
    BY CurrentAttempt DEF Retry
  <2> QED BY <2>1, StoreAssumption DEF Retry, AttemptNo
<1> DEFINE row == [Reopened(task[t]) EXCEPT !.gen = @ + 1, !.cur = task[t].run + 1,
                                            !.run = @ + 1]
<1>2. /\ row \in TaskRow /\ row.state = "queued" /\ row.owner = NoWorker
      /\ row.lease = "none" /\ row.terminal = FALSE /\ row.cur = task[t].run + 1
      /\ row.run = task[t].run + 1 /\ row.gen = task[t].gen + 1
  <2>1. task[t].run + 1 \in 0 .. MaxAttempt
    BY <1>1 DEF AttemptNo
  <2> DEFINE q == Reopened(task[t])
  <2>2. /\ q \in TaskRow /\ q.state = "queued" /\ q.owner = NoWorker /\ q.lease = "none"
        /\ q.terminal = FALSE /\ q.run = task[t].run /\ q.gen = task[t].gen
    BY <1>0, ReopenedRow
  <2>3. row = [q EXCEPT !.gen = @ + 1, !.cur = task[t].run + 1, !.run = @ + 1]
    OBVIOUS
  <2> HIDE DEF q, row
  <2>4. row \in TaskRow
    <3>1. q.gen + 1 \in Nat /\ q.run + 1 \in 0 .. MaxAttempt
      BY <2>1, <2>2 DEF TaskRow
    <3>2. row = [[[q EXCEPT !.gen = q.gen + 1] EXCEPT !.cur = task[t].run + 1]
                 EXCEPT !.run = q.run + 1]
      BY <2>3
    <3> QED BY <2>1, <2>2, <3>1, <3>2 DEF TaskRow
  <2>5. /\ row.state = q.state /\ row.owner = q.owner /\ row.lease = q.lease
        /\ row.terminal = q.terminal /\ row.cur = task[t].run + 1
        /\ row.run = q.run + 1 /\ row.gen = q.gen + 1
    BY <2>2, <2>3 DEF TaskRow
  <2> QED BY <2>2, <2>4, <2>5
<1>3. row.gen >= task[t].gen
  BY <1>0, <1>2 DEF TaskRow
<1>4. Write(t, row) /\ WriteAttempt(t, task[t].run + 1, "pending") /\ UNCHANGED <<issued, cancelCmd>>
  BY DEF Retry
<1> HIDE DEF row
<1> QED
  BY <1>1, <1>2, <1>3, <1>4, QueueStep

\* Renewing a lease, or its running out, touches the lease column alone.
LEMMA LeaseStep ==
  ASSUME StoreInv, NEW t \in Tasks, LeaseExpires(t) \/ \E w \in Workers : RenewClaim(w, t)
  PROVE  StoreInv'
<1>0. task[t] \in TaskRow /\ RowInv(t) /\ StoreTypeOK
  BY RowFacts DEF StoreInv
<1>1. PICK l \in {"live", "expired"} :
        /\ Write(t, [task[t] EXCEPT !.lease = l])
        /\ UNCHANGED <<attempt, issued, cancelCmd>>
  BY DEF LeaseExpires, RenewClaim
<1>2. task[t].owner # NoWorker
  BY <1>0 DEF LeaseExpires, RenewClaim, RowInv, StoreAssumption, OwnedState
<1> DEFINE row == [task[t] EXCEPT !.lease = l]
<1>3. /\ row \in TaskRow /\ row.state = task[t].state /\ row.owner = task[t].owner
      /\ row.gen = task[t].gen /\ row.cur = task[t].cur /\ row.run = task[t].run
      /\ row.terminal = task[t].terminal
  BY <1>0 DEF TaskRow
<1>4. task'[t] = row
  BY <1>0, <1>1 DEF Write, StoreTypeOK
<1>5. task[t].cur \in AttemptNo /\ task[t].run \in AttemptNo
  BY <1>0, <1>2, CurrentAttempt DEF RowInv, WellFormed, AbsentRow
<1>6. WriteAttempt(t, task[t].cur, attempt[t][task[t].cur])
  BY <1>0, <1>1, <1>5 DEF WriteAttempt, StoreTypeOK
<1>7. attempt[t][task[t].cur] \in AttemptState
  BY <1>5, RowFacts
<1> HIDE DEF row
<1>8. RowInv(t)'
  BY <1>0, <1>1, <1>2, <1>3, <1>4, <1>5 DEF RowInv, WellFormed, OwnedState, AbsentRow
<1>9. row.gen >= task[t].gen
  BY <1>0, <1>3 DEF TaskRow
<1> QED
  BY <1>1, <1>3, <1>5, <1>6, <1>7, <1>8, <1>9, OneRowStep DEF row

\* Flipping a task to running, under whichever claim its worker still holds.
LEMMA MarkRunningStep ==
  ASSUME StoreInv, NEW c \in issued, MarkRunning(c)
  PROVE  StoreInv'
<1> DEFINE t == c.task
<1>1. t \in Tasks /\ c.att \in AttemptNo /\ c.worker \in Workers
  BY DEF StoreInv, StoreTypeOK, Claim
<1>0. task[t] \in TaskRow /\ RowInv(t) /\ StoreTypeOK
  BY <1>1, RowFacts DEF StoreInv
<1> DEFINE row == [task[t] EXCEPT !.state = "running", !.owner = c.worker, !.cur = c.att]
<1>2. c.att \in 0 .. MaxAttempt
  BY <1>1 DEF AttemptNo
<1>3. /\ row \in TaskRow /\ row.state = "running" /\ row.owner = c.worker
      /\ row.lease = task[t].lease /\ row.gen = task[t].gen /\ row.cur = c.att
      /\ row.run = task[t].run /\ row.terminal = task[t].terminal
  BY <1>0, <1>1, <1>2 DEF TaskRow, TaskState
<1>4. Write(t, row) /\ WriteAttempt(t, c.att, "running") /\ UNCHANGED <<issued, cancelCmd>>
  BY DEF MarkRunning
<1>5. task[t].state \in {"claimed", "queued", "running"}
  BY DEF MarkRunning, MarkRunningMatches
<1> HIDE DEF row, t
<1>6. task'[t] = row /\ attempt'[t][c.att] = "running"
  BY <1>0, <1>1, <1>4 DEF Write, WriteAttempt, StoreTypeOK
<1>7. task[t].run \in AttemptNo /\ ~task[t].terminal
  BY <1>0, <1>1, <1>5, CurrentAttempt DEF RowInv
<1>8. RowInv(t)'
  BY <1>1, <1>3, <1>6, <1>7, StoreAssumption DEF RowInv, WellFormed, OwnedState
<1>9. row.gen >= task[t].gen
  BY <1>0, <1>3 DEF TaskRow
<1> QED
  BY <1>1, <1>3, <1>4, <1>8, <1>9, OneRowStep DEF AttemptState

\* Asking a worker to cancel leaves the claim in its hands.
LEMMA RequestCancelStep ==
  ASSUME StoreInv, NEW t \in Tasks, RequestCancelRunning(t)
  PROVE  StoreInv'
<1>0. task[t] \in TaskRow /\ RowInv(t) /\ StoreTypeOK
  BY RowFacts DEF StoreInv
<1> DEFINE row == [task[t] EXCEPT !.state = "cancel_requested", !.cancelReq = TRUE]
<1>1. task[t].state \in {"claimed", "running"}
  BY DEF RequestCancelRunning
<1>2. /\ row \in TaskRow /\ row.state = "cancel_requested" /\ row.owner = task[t].owner
      /\ row.lease = task[t].lease /\ row.gen = task[t].gen /\ row.cur = task[t].cur
      /\ row.run = task[t].run /\ row.terminal = task[t].terminal
  BY <1>0 DEF TaskRow, TaskState
<1>3. /\ Write(t, row) /\ WriteAttempt(t, task[t].cur, "cancel_requested")
      /\ UNCHANGED <<issued, cancelCmd>>
  BY DEF RequestCancelRunning
<1>4. task[t].cur \in AttemptNo /\ task[t].run \in AttemptNo
  BY <1>1, CurrentAttempt
<1>5. row.gen >= task[t].gen
  BY <1>0, <1>2 DEF TaskRow
<1> HIDE DEF row
<1>6. task'[t] = row /\ attempt'[t][task[t].cur] = "cancel_requested"
  BY <1>0, <1>3, <1>4 DEF Write, WriteAttempt, StoreTypeOK
<1>7. RowInv(t)'
  BY <1>0, <1>1, <1>2, <1>4, <1>6 DEF RowInv, WellFormed, OwnedState
<1> QED
  BY <1>2, <1>3, <1>4, <1>5, <1>7, OneRowStep DEF AttemptState

\* A worker gives its claim back.
LEMMA ReturnToQueuedStep ==
  ASSUME StoreInv, NEW c \in issued, ReturnToQueued(c)
  PROVE  StoreInv'
<1> DEFINE t == c.task
<1>1. t \in Tasks /\ c.att \in AttemptNo
  BY DEF StoreInv, StoreTypeOK, Claim
<1>0. task[t] \in TaskRow /\ RowInv(t)
  BY <1>1, RowFacts
<1>2. task[t].state \in {"claimed", "running"} /\ task[t].cur = c.att
  BY DEF ReturnToQueued, FenceHolds
<1>3. Repended(attempt[t][c.att]) = "pending"
  BY <1>0, <1>2 DEF Repended, RowInv, OwnedState
<1>4. /\ Write(t, Requeued(task[t])) /\ WriteAttempt(t, c.att, "pending")
      /\ UNCHANGED <<issued, cancelCmd>>
  BY <1>3 DEF ReturnToQueued
<1> HIDE DEF t
<1>5. task[t].run \in AttemptNo /\ task[t].terminal = FALSE
  <2>1. task[t].terminal = FALSE
    BY <1>0, <1>2 DEF RowInv, TaskRow
  <2> QED BY <1>1, <1>2, <2>1, CurrentAttempt
<1> DEFINE row == Requeued(task[t])
<1>6. /\ row \in TaskRow /\ row.state = "queued" /\ row.owner = NoWorker
      /\ row.lease = "none" /\ row.gen = task[t].gen + 1 /\ row.cur = task[t].cur
      /\ row.run = task[t].run /\ row.terminal = task[t].terminal
  BY <1>0, RequeuedRow
<1>7. row.gen >= task[t].gen
  BY <1>0, <1>6 DEF TaskRow
<1>8. Write(t, row)
  BY <1>4
<1> HIDE DEF row
<1> QED
  BY <1>1, <1>2, <1>4, <1>5, <1>6, <1>7, <1>8, QueueStep

\* The terminal writes, fenced and unfenced.
LEMMA FencedCloseStep ==
  ASSUME StoreInv, NEW c \in issued,
         MarkBlockedUncertain(c) \/ \E s \in Verdict : MarkTerminal(c, s)
  PROVE  StoreInv'
<1>1. c.task \in Tasks /\ c.att \in AttemptNo /\ c.worker \in Workers
  BY DEF StoreInv, StoreTypeOK, Claim
<1>2. task[c.task].cur = c.att /\ task[c.task].state # "absent"
  <2>1. FenceHolds(c)
    BY DEF MarkBlockedUncertain, MarkTerminal
  <2>2. RowInv(c.task)
    BY <1>1, RowFacts
  <2> QED
    BY <1>1, <2>1, <2>2, StoreAssumption DEF FenceHolds, RowInv, OwnedState
<1>3. CASE MarkBlockedUncertain(c)
  BY <1>1, <1>2, <1>3, CloseStep DEF MarkBlockedUncertain, TaskState, AttemptState
<1>4. ASSUME NEW s \in Verdict, MarkTerminal(c, s) PROVE StoreInv'
  <2>1. s \in TaskState /\ s \in AttemptState /\ (s = "failed" \/ s \in {"done", "cancelled"})
    BY DEF Verdict, TaskState, AttemptState
  <2> QED
    BY <1>1, <1>2, <1>4, <2>1, CloseStep DEF MarkTerminal
<1> QED BY <1>3, <1>4

LEMMA UnfencedCloseStep ==
  ASSUME StoreInv, NEW t \in Tasks, NEW n \in AttemptNo,
         NEW s \in {"failed", "cancelled"}, MarkTerminalUnfenced(t, n, s)
  PROVE  StoreInv'
<1>1. s \in TaskState /\ s \in AttemptState /\ (s = "failed" \/ s = "cancelled")
  BY DEF TaskState, AttemptState
<1> QED BY <1>1, CloseStep DEF MarkTerminalUnfenced

LEMMA RequestCancelIdleStep ==
  ASSUME StoreInv, NEW t \in Tasks, RequestCancelIdle(t)
  PROVE  StoreInv'
BY CurrentAttempt, UnfencedCloseStep DEF RequestCancelIdle

LEMMA FailIfActiveStep ==
  ASSUME StoreInv, NEW t \in Tasks, NEW n \in AttemptNo, FailIfActive(t, n)
  PROVE  StoreInv'
<1>1. "failed" \in TaskState /\ "failed" \in AttemptState
  BY DEF TaskState, AttemptState
<1> QED BY <1>1, CloseStep DEF FailIfActive

\* A claim is issued under a generation no earlier claim of the task has.
LEMMA ClaimNextStep ==
  ASSUME StoreInv, NEW w \in Workers, NEW t \in Tasks, ClaimNext(w, t)
  PROVE  StoreInv'
<1>0. task[t] \in TaskRow /\ RowInv(t) /\ StoreTypeOK /\ OneClaimPerGeneration
  BY RowFacts DEF StoreInv
<1>1. task[t].cur \in AttemptNo /\ task[t].run \in AttemptNo /\ ~task[t].terminal
  BY <1>0, CurrentAttempt DEF ClaimNext, RowInv
<1> DEFINE row == [task[t] EXCEPT !.state = "claimed", !.owner = w, !.lease = "live",
                                  !.gen = @ + 1]
           new == [task |-> t, att |-> task[t].cur, worker |-> w, gen |-> task[t].gen + 1]
<1>2. row \in TaskRow
  <2>1. task[t].gen + 1 \in Nat
    BY <1>0 DEF TaskRow
  <2>2. row = [[[[task[t] EXCEPT !.state = "claimed"] EXCEPT !.owner = w]
                EXCEPT !.lease = "live"] EXCEPT !.gen = task[t].gen + 1]
    OBVIOUS
  <2> HIDE DEF row
  <2> QED BY <1>0, <2>1, <2>2 DEF TaskRow, TaskState
<1>3. /\ row.state = "claimed" /\ row.owner = w /\ row.gen = task[t].gen + 1
      /\ row.cur = task[t].cur /\ row.run = task[t].run /\ row.terminal = task[t].terminal
  BY <1>0 DEF TaskRow
<1>4. /\ new \in Claim /\ new.task = t /\ new.att = task[t].cur /\ new.worker = w
      /\ new.gen = task[t].gen + 1
  BY <1>0, <1>1 DEF Claim, TaskRow
<1>5. /\ Write(t, row) /\ WriteAttempt(t, task[t].cur, "claimed")
      /\ issued' = issued \cup {new} /\ UNCHANGED cancelCmd
  BY DEF ClaimNext
<1> HIDE DEF row
<1>6. task'[t] = row /\ attempt'[t][task[t].cur] = "claimed"
  BY <1>0, <1>1, <1>5 DEF Write, WriteAttempt, StoreTypeOK
<1>7. ASSUME NEW u \in Tasks, u # t PROVE task'[u] = task[u] /\ attempt'[u] = attempt[u]
  BY <1>0, <1>5, <1>7 DEF StoreTypeOK, Write, WriteAttempt
<1>8. StoreTypeOK'
  BY <1>0, <1>2, <1>4, <1>5 DEF StoreTypeOK, Write, WriteAttempt, AttemptState
<1>9. OneClaimPerGeneration'
  <2>1. ASSUME NEW c \in issued PROVE c.gen <= task'[c.task].gen
    <3>1. c.task \in Tasks /\ c.gen \in Nat /\ c.gen <= task[c.task].gen
      BY <1>0 DEF StoreTypeOK, OneClaimPerGeneration, Claim
    <3>2. CASE c.task = t
      BY <1>0, <1>3, <1>6, <3>1, <3>2 DEF TaskRow
    <3>3. CASE c.task # t
      BY <1>7, <3>1, <3>3
    <3> QED BY <3>2, <3>3
  <2>2. new.gen <= task'[new.task].gen
    BY <1>0, <1>3, <1>4, <1>6 DEF TaskRow
  <2>3. ASSUME NEW c \in issued, c.task = t PROVE c.gen # new.gen
    BY <1>0, <1>4, <2>3 DEF OneClaimPerGeneration, TaskRow, StoreTypeOK, Claim
  <2> HIDE DEF new
  <2>4. ASSUME NEW c \in issued', NEW d \in issued', c.task = d.task, c.gen = d.gen
        PROVE  c = d
    BY <1>0, <1>4, <1>5, <2>3, <2>4 DEF OneClaimPerGeneration
  <2> QED
    BY <1>5, <2>1, <2>2, <2>4 DEF OneClaimPerGeneration
<1>10. ASSUME NEW u \in Tasks PROVE RowInv(u)'
  <2>1. CASE u = t
    <3>1. [task |-> t, att |-> row.cur, worker |-> row.owner, gen |-> row.gen] \in issued'
      BY <1>3, <1>5
    <3> HIDE DEF new
    <3> QED
      BY <1>1, <1>3, <1>6, <2>1, <3>1, StoreAssumption DEF RowInv, WellFormed, OwnedState
  <2>2. CASE u # t
    <3>1. RowInv(u) BY StoreInvByRow
    <3>2. task'[u] = task[u] /\ attempt'[u] = attempt[u] /\ issued \subseteq issued'
      BY <1>5, <1>7, <2>2
    <3> QED BY <3>1, <3>2 DEF RowInv
  <2> QED BY <2>1, <2>2
<1> QED
  BY <1>8, <1>9, <1>10 DEF StoreInv, RowInv, RowsWellFormed, OwnerIffActive,
       TerminalIffEnded, ClaimedIsFenced, AttemptLockstep

\* Recovery rewrites any number of rows at once: each orphan is re-queued or
\* takes the verdict its run already reached.
LEMMA RecoverStep ==
  ASSUME StoreInv, NEW alive \in SUBSET Workers,
         NEW seen \in [Tasks -> Verdict \cup {"none"}], RecoverOrphanedClaims(alive, seen)
  PROVE  StoreInv'
<1>0. StoreTypeOK /\ OneClaimPerGeneration /\ \A u \in Tasks : RowInv(u)
  BY StoreInvByRow
<1>1. ASSUME NEW t \in Tasks
      PROVE  task'[t] \in TaskRow /\ attempt'[t] \in [AttemptNo -> AttemptState]
             /\ task'[t].gen >= task[t].gen /\ RowInv(t)'
  <2>0. task[t] \in TaskRow /\ attempt[t] \in [AttemptNo -> AttemptState] /\ RowInv(t)
    BY RowFacts
  <2>1. CASE ~Orphaned(t, alive)
    <3>1. task'[t] = task[t] /\ attempt'[t] = attempt[t] /\ issued' = issued
      BY <2>0, <2>1 DEF RecoverOrphanedClaims
    <3> QED BY <2>0, <3>1 DEF RowInv, TaskRow
  <2>2. CASE Orphaned(t, alive)
    <3>1. task[t].state \in {"claimed", "running"} /\ ~task[t].terminal
          /\ task[t].cur \in AttemptNo /\ task[t].run \in AttemptNo
      BY <2>0, <2>2, CurrentAttempt DEF Orphaned, RowInv
    <3>2. attempt[t][task[t].cur] = task[t].state
      BY <2>0, <3>1 DEF RowInv, OwnedState
    <3>3. CASE seen[t] = "none"
      <4>1. /\ task'[t] = Requeued(task[t]) /\ issued' = issued
            /\ attempt'[t] = [n \in AttemptNo |->
                 IF n # task[t].cur THEN attempt[t][n] ELSE "pending"]
        BY <2>2, <3>1, <3>2, <3>3 DEF RecoverOrphanedClaims, Repended
      <4>2. attempt'[t] \in [AttemptNo -> AttemptState] /\ attempt'[t][task[t].cur] = "pending"
        BY <2>0, <3>1, <4>1 DEF AttemptState
      <4>3. /\ task'[t] \in TaskRow /\ task'[t].state = "queued" /\ task'[t].owner = NoWorker
            /\ task'[t].lease = "none" /\ task'[t].gen = task[t].gen + 1
            /\ task'[t].cur = task[t].cur /\ task'[t].run = task[t].run
            /\ task'[t].terminal = task[t].terminal
        BY <2>0, <4>1, RequeuedRow
      <4>4. task'[t].gen >= task[t].gen
        BY <2>0, <4>3 DEF TaskRow
      <4> QED
        BY <3>1, <4>2, <4>3, <4>4 DEF RowInv, WellFormed, OwnedState
    <3>4. CASE seen[t] # "none"
      <4>0. seen[t] \in Verdict
        BY <3>4
      <4>1. /\ task'[t] = Closed(task[t], seen[t]) /\ issued' = issued
            /\ attempt'[t] = [n \in AttemptNo |->
                 IF n # task[t].cur THEN attempt[t][n] ELSE seen[t]]
        BY <2>2, <3>4 DEF RecoverOrphanedClaims
      <4>2. attempt'[t] \in [AttemptNo -> AttemptState] /\ attempt'[t][task[t].cur] = seen[t]
        BY <2>0, <3>1, <4>0, <4>1 DEF AttemptState, Verdict
      <4>3. /\ task'[t] \in TaskRow /\ task'[t].state = seen[t] /\ task'[t].owner = NoWorker
            /\ task'[t].lease = "none" /\ task'[t].gen = task[t].gen
            /\ task'[t].cur = task[t].cur /\ task'[t].run = task[t].run
            /\ task'[t].terminal = TRUE
        <5>1. seen[t] \in TaskState
          BY <4>0 DEF Verdict, TaskState
        <5>2. /\ Closed(task[t], seen[t]) \in TaskRow
              /\ Closed(task[t], seen[t]).state = seen[t]
              /\ Closed(task[t], seen[t]).owner = NoWorker
              /\ Closed(task[t], seen[t]).lease = "none"
              /\ Closed(task[t], seen[t]).gen = task[t].gen
              /\ Closed(task[t], seen[t]).cur = task[t].cur
              /\ Closed(task[t], seen[t]).run = task[t].run
              /\ Closed(task[t], seen[t]).terminal = TRUE
          BY <2>0, <5>1, ClosedRow
        <5> QED BY <4>1, <5>2
      <4>4. task'[t].gen >= task[t].gen
        BY <2>0, <4>3 DEF TaskRow
      <4> QED
        BY <3>1, <4>0, <4>2, <4>3, <4>4 DEF RowInv, WellFormed, OwnedState, Verdict
    <3> QED BY <3>3, <3>4
  <2> QED BY <2>1, <2>2
<1>2. StoreTypeOK'
  <2>1. task' = [t \in Tasks |-> task'[t]] /\ attempt' = [t \in Tasks |-> attempt'[t]]
        /\ issued' = issued /\ cancelCmd' = cancelCmd
    BY DEF RecoverOrphanedClaims
  <2> QED BY <1>0, <1>1, <2>1 DEF StoreTypeOK
<1>3. OneClaimPerGeneration'
  <2>1. issued' = issued
    BY DEF RecoverOrphanedClaims
  <2>2. ASSUME NEW c \in issued PROVE c.gen <= task'[c.task].gen
    <3>1. c.task \in Tasks /\ c.gen \in Nat /\ c.gen <= task[c.task].gen
      BY <1>0 DEF StoreTypeOK, OneClaimPerGeneration, Claim
    <3>2. task[c.task].gen \in Nat /\ task'[c.task].gen \in Nat
          /\ task'[c.task].gen >= task[c.task].gen
      BY <1>1, <3>1, RowFacts DEF TaskRow
    <3> QED BY <3>1, <3>2
  <2> QED BY <1>0, <2>1, <2>2 DEF OneClaimPerGeneration
<1> QED
  BY <1>1, <1>2, <1>3 DEF StoreInv, RowInv, RowsWellFormed, OwnerIffActive,
       TerminalIffEnded, ClaimedIsFenced, AttemptLockstep

\* Nothing of a task depends on its worker commands.
LEMMA CancelCommandStep ==
  ASSUME StoreInv, NEW t \in Tasks, OpenCancelCommand(t) \/ CloseCancelCommand(t)
  PROVE  StoreInv'
BY DEF OpenCancelCommand, CloseCancelCommand, StoreInv, StoreTypeOK, RowsWellFormed,
       OwnerIffActive, TerminalIffEnded, OneClaimPerGeneration, ClaimedIsFenced,
       AttemptLockstep

-----------------------------------------------------------------------------
(* The theorems.                                                           *)

\* Every step of the store preserves the inductive invariant.
LEMMA StoreInvStep == StoreInv /\ [StoreNext]_storeVars => StoreInv'
<1> SUFFICES ASSUME StoreInv, [StoreNext]_storeVars PROVE StoreInv'
  OBVIOUS
<1>1. CASE UNCHANGED storeVars
  BY <1>1 DEF storeVars, StoreInv, StoreTypeOK, RowsWellFormed, OwnerIffActive,
       TerminalIffEnded, OneClaimPerGeneration, ClaimedIsFenced, AttemptLockstep
<1>2. ASSUME NEW t \in Tasks,
             \/ Enqueue(t) \/ Adopt(t) \/ LeaseExpires(t) \/ RequestCancelIdle(t)
             \/ RequestCancelRunning(t) \/ Retry(t) \/ OpenCancelCommand(t)
             \/ CloseCancelCommand(t)
      PROVE  StoreInv'
  BY <1>2, EnqueueStep, LeaseStep, RequestCancelIdleStep, RequestCancelStep, RetryStep,
     CancelCommandStep
<1>3. ASSUME NEW w \in Workers, NEW t \in Tasks, ClaimNext(w, t) \/ RenewClaim(w, t)
      PROVE  StoreInv'
  BY <1>3, ClaimNextStep, LeaseStep
<1>4. ASSUME NEW c \in issued,
             \/ MarkRunning(c) \/ ReturnToQueued(c) \/ MarkBlockedUncertain(c)
             \/ \E s \in Verdict : MarkTerminal(c, s)
      PROVE  StoreInv'
  BY <1>4, MarkRunningStep, ReturnToQueuedStep, FencedCloseStep
<1>5. ASSUME NEW t \in Tasks, NEW n \in AttemptNo,
             \/ FailIfActive(t, n)
             \/ \E s \in {"failed", "cancelled"} : MarkTerminalUnfenced(t, n, s)
      PROVE  StoreInv'
  BY <1>5, FailIfActiveStep, UnfencedCloseStep
<1>6. ASSUME NEW alive \in SUBSET Workers, NEW seen \in [Tasks -> Verdict \cup {"none"}],
             RecoverOrphanedClaims(alive, seen)
      PROVE  StoreInv'
  BY <1>6, RecoverStep
<1> QED
  BY <1>1, <1>2, <1>3, <1>4, <1>5, <1>6 DEF StoreNext

\* The store keeps its inductive invariant, whoever calls it and however late.
THEOREM StoreInvariance == StoreSpec => []StoreInv
<1> QED BY StoreInvInit, StoreInvStep, PTL DEF StoreSpec

\* A reader's view of the invariant: every part the model checker runs.
THEOREM StoreSafety ==
  StoreSpec => []( /\ StoreTypeOK /\ OwnerIffActive /\ TerminalIffEnded
                   /\ ClaimedIsFenced /\ AttemptLockstep )
<1>1. StoreInv => /\ StoreTypeOK /\ OwnerIffActive /\ TerminalIffEnded
                  /\ ClaimedIsFenced /\ AttemptLockstep
  BY DEF StoreInv
<1> QED BY <1>1, StoreInvariance, PTL

\* claim_generation is a lease: no generation of a task is ever handed out twice.
THEOREM ClaimsAreLeases == StoreSpec => []OneClaimPerGeneration
<1>1. StoreInv => OneClaimPerGeneration
  BY DEF StoreInv
<1> QED BY <1>1, StoreInvariance, PTL

\* The attempt row a task points at always says what the task's own row says ("keeping
\* the attempt + task in lockstep", terminal.ts), whoever wrote either and however late.
THEOREM AttemptsFollowTasks == StoreSpec => []AttemptLockstep
<1>1. StoreInv => AttemptLockstep
  BY DEF StoreInv
<1> QED BY <1>1, StoreInvariance, PTL

\* Of all the claims ever issued for a task, at most one passes the fence of the
\* lease-guarded writes: two workers can never both finish a task.
THEOREM AtMostOneFenced ==
  StoreSpec => [](\A c, d \in issued :
                    c.task = d.task /\ FenceHolds(c) /\ FenceHolds(d) => c = d)
<1>1. StoreInv => \A c, d \in issued :
                    c.task = d.task /\ FenceHolds(c) /\ FenceHolds(d) => c = d
  BY DEF StoreInv, OneClaimPerGeneration, FenceHolds
<1> QED BY <1>1, StoreInvariance, PTL

\* A step that rewrites one row leaves every other row alone.
LEMMA OtherRows ==
  ASSUME StoreTypeOK, NEW t \in Tasks, NEW u \in Tasks, NEW row, Write(t, row)
  PROVE  IF u = t THEN task'[u] = row ELSE task'[u] = task[u]
BY DEF StoreTypeOK, Write

\* From a state of the invariant, a step does to an ended task nothing but
\* reopen it.
LEMMA EndedStep ==
  ASSUME StoreInv, StoreNext, NEW u \in Tasks, task[u].terminal
  PROVE  \/ task'[u] = task[u]
         \/ task'[u].state = "queued" /\ ~task'[u].terminal /\ task'[u].owner = NoWorker
<1>0. task[u] \in TaskRow /\ RowInv(u) /\ StoreTypeOK
  BY RowFacts DEF StoreInv
<1>1. /\ task[u].state \in {"done", "failed", "cancelled", "blocked"}
      /\ task[u].owner = NoWorker /\ task[u].lease = "none"
  BY <1>0 DEF RowInv, OwnedState
<1> DEFINE Goal == \/ task'[u] = task[u]
                   \/ /\ task'[u].state = "queued" /\ ~task'[u].terminal
                      /\ task'[u].owner = NoWorker
<1>2. ASSUME NEW t \in Tasks, NEW row, Write(t, row), t # u \/ row = task[u]
      PROVE  Goal
  BY <1>0, <1>2, OtherRows
<1>3. ASSUME NEW t \in Tasks, NEW row, Write(t, row), row.state = "queued",
             ~row.terminal, row.owner = NoWorker
      PROVE  Goal
  BY <1>0, <1>3, OtherRows
<1> HIDE DEF Goal
<1>4. ASSUME NEW t \in Tasks, Enqueue(t) PROVE Goal
  BY <1>1, <1>2, <1>4 DEF Enqueue
<1>5. ASSUME NEW t \in Tasks, Adopt(t) PROVE Goal
  <2>1. task[t] \in TaskRow
    BY RowFacts
  <2> DEFINE q == Reopened(task[t])
             row == [q EXCEPT !.cur = task[t].run]
  <2>2. q \in TaskRow /\ q.state = "queued" /\ ~q.terminal /\ q.owner = NoWorker
    BY <2>1, ReopenedRow
  <2>3. Write(t, row)
    BY <1>5 DEF Adopt
  <2> HIDE DEF q
  <2>4. row.state = "queued" /\ ~row.terminal /\ row.owner = NoWorker
    BY <2>2 DEF TaskRow
  <2> QED BY <1>3, <2>3, <2>4
<1>6. ASSUME NEW t \in Tasks, Retry(t) PROVE Goal
  <2>1. task[t] \in TaskRow
    BY RowFacts
  <2> DEFINE q == Reopened(task[t])
             row == [q EXCEPT !.gen = @ + 1, !.cur = task[t].run + 1, !.run = @ + 1]
  <2>2. q \in TaskRow /\ q.state = "queued" /\ ~q.terminal /\ q.owner = NoWorker
    BY <2>1, ReopenedRow
  <2>3. Write(t, row)
    BY <1>6 DEF Retry
  <2> HIDE DEF q
  <2>4. row.state = "queued" /\ ~row.terminal /\ row.owner = NoWorker
    BY <2>2 DEF TaskRow
  <2> QED BY <1>3, <2>3, <2>4
<1>7. ASSUME NEW t \in Tasks, LeaseExpires(t) \/ \E w \in Workers : RenewClaim(w, t)
      PROVE  Goal
  BY <1>1, <1>2, <1>7, StoreAssumption DEF LeaseExpires, RenewClaim
<1>8. ASSUME NEW t \in Tasks, RequestCancelRunning(t) PROVE Goal
  BY <1>1, <1>2, <1>8 DEF RequestCancelRunning
<1>9. ASSUME NEW t \in Tasks, OpenCancelCommand(t) \/ CloseCancelCommand(t) PROVE Goal
  BY <1>9 DEF OpenCancelCommand, CloseCancelCommand, Goal
<1>10. ASSUME NEW w \in Workers, NEW t \in Tasks, ClaimNext(w, t) PROVE Goal
  BY <1>1, <1>2, <1>10 DEF ClaimNext
<1>11. ASSUME NEW c \in issued,
              \/ MarkRunning(c) \/ ReturnToQueued(c) \/ MarkBlockedUncertain(c)
              \/ \E s \in Verdict : MarkTerminal(c, s)
       PROVE  Goal
  <2>1. c.task \in Tasks
    BY <1>0 DEF StoreTypeOK, Claim
  <2>2. c.task # u
    BY <1>0, <1>1, <1>11 DEF MarkRunning, MarkRunningMatches, ReturnToQueued,
       MarkBlockedUncertain, MarkTerminal, FenceHolds
  <2> QED
    BY <1>2, <1>11, <2>1, <2>2 DEF MarkRunning, ReturnToQueued, MarkBlockedUncertain,
       MarkTerminal
<1>12. ASSUME NEW t \in Tasks, NEW n,
              \/ FailIfActive(t, n)
              \/ \E s \in {"failed", "cancelled"} : MarkTerminalUnfenced(t, n, s)
       PROVE  Goal
  BY <1>2, <1>12 DEF FailIfActive, MarkTerminalUnfenced
<1>13. ASSUME NEW t \in Tasks, RequestCancelIdle(t) PROVE Goal
  BY <1>12, <1>13 DEF RequestCancelIdle
<1>14. ASSUME NEW alive, NEW seen, RecoverOrphanedClaims(alive, seen) PROVE Goal
  <2>1. ~Orphaned(u, alive)
    BY <1>1 DEF Orphaned
  <2>2. task'[u] = task[u]
    BY <1>14, <2>1 DEF RecoverOrphanedClaims
  <2> QED BY <2>2 DEF Goal
<1>15. Goal
  BY <1>4, <1>5, <1>6, <1>7, <1>8, <1>9, <1>10, <1>11, <1>12, <1>13, <1>14 DEF StoreNext
<1> QED BY <1>15 DEF Goal

\* No late write revives or changes an ended task ("a terminal task must never be
\* resurrected", claim.ts).
THEOREM NeverResurrected == StoreSpec => TerminalIsSticky
<1>1. StoreInv /\ [StoreNext]_storeVars => [EndedStaysEnded]_storeVars
  BY EndedStep DEF EndedStaysEnded, storeVars
<1> QED BY <1>1, StoreInvariance, PTL DEF StoreSpec, TerminalIsSticky

-----------------------------------------------------------------------------
(* The refinement of StoreLifecycle: the store implements TaskLifecycle.   *)
(*                                                                         *)
(* Every operation rewrites rows one by one, so a step is followed for one *)
(* task u: six lemmas say which move of u's life a change of its columns   *)
(* is, and the main one finds the move of each operation.  They rest on    *)
(* the store's inductive invariant, which makes the columns agree.         *)

\* What the mapping shows of a task before and after a step.
LEMMA LifeView ==
  ASSUME NEW u \in Tasks
  PROVE  /\ phaseOf[u] = IF task[u].state = "absent" THEN "absent"
                         ELSE IF task[u].terminal THEN task[u].state
                         ELSE IF task[u].owner # NoWorker THEN "held" ELSE "open"
         /\ holderOf[u] = task[u].owner /\ epochOf[u] = task[u].gen
BY DEF phaseOf, holderOf, epochOf

LEMMA LifeNextView ==
  ASSUME NEW u \in Tasks
  PROVE  /\ phaseOf'[u] = IF task'[u].state = "absent" THEN "absent"
                          ELSE IF task'[u].terminal THEN task'[u].state
                          ELSE IF task'[u].owner # NoWorker THEN "held" ELSE "open"
         /\ holderOf'[u] = task'[u].owner /\ epochOf'[u] = task'[u].gen
BY DEF phaseOf, holderOf, epochOf

\* Only a claim grants anything.
LEMMA SameGrants ==
  ASSUME NEW u \in Tasks, issued' = issued
  PROVE  Lifecycle!NoGrant(u)
BY DEF Lifecycle!NoGrant, grantedOf

\* A task whose row is left alone, or only changes within its holder's hands.
LEMMA Unmoved ==
  ASSUME NEW u \in Tasks, issued' = issued, task'[u] = task[u]
  PROVE  Lifecycle!Stays(u)
BY LifeView, LifeNextView, SameGrants DEF Lifecycle!Stays, Lifecycle!Become

LEMMA Holding ==
  ASSUME NEW u \in Tasks, issued' = issued, task[u].owner # NoWorker,
         task[u].state # "absent", ~task[u].terminal,
         task'[u].state # "absent", ~task'[u].terminal,
         task'[u].owner = task[u].owner, task'[u].gen = task[u].gen
  PROVE  Lifecycle!Stays(u)
BY LifeView, LifeNextView, SameGrants DEF Lifecycle!Stays, Lifecycle!Become

\* A task that comes back to the queue in its epoch.
LEMMA Adopting ==
  ASSUME NEW u \in Tasks, issued' = issued, task[u].state # "absent",
         task'[u].state = "queued", ~task'[u].terminal, task'[u].owner = NoWorker,
         task'[u].gen = task[u].gen
  PROVE  Lifecycle!Step(u)
<1>1. phaseOf[u] # "absent" \/ task[u].state = "absent" \/ (task[u].terminal /\ task[u].state = "absent")
  BY LifeView
<1>2. Lifecycle!Adopt(u)
  BY <1>1, LifeView, LifeNextView, SameGrants DEF Lifecycle!Adopt, Lifecycle!Become
<1> QED BY <1>2 DEF Lifecycle!Step

\* A task that comes back to the queue in the next epoch: taken from its holder,
\* or retried without one.
LEMMA Requeueing ==
  ASSUME NEW u \in Tasks, issued' = issued, task[u].state # "absent",
         task[u].terminal => task[u].state \in {"done", "failed", "cancelled", "blocked"},
         task'[u].state = "queued", ~task'[u].terminal, task'[u].owner = NoWorker,
         task'[u].gen = task[u].gen + 1
  PROVE  Lifecycle!Step(u)
<1>1. CASE ~task[u].terminal /\ task[u].owner # NoWorker
  <2>1. Lifecycle!Release(u)
    BY <1>1, LifeView, LifeNextView, SameGrants DEF Lifecycle!Release, Lifecycle!Become
  <2> QED BY <2>1 DEF Lifecycle!Step
<1>2. CASE task[u].terminal \/ task[u].owner = NoWorker
  <2>1. phaseOf[u] \in Lifecycle!Ended \cup {"open"}
    BY <1>2, LifeView DEF Lifecycle!Ended
  <2>2. Lifecycle!Retry(u)
    BY <2>1, LifeView, LifeNextView, SameGrants DEF Lifecycle!Retry, Lifecycle!Become
  <2> QED BY <2>2 DEF Lifecycle!Step
<1> QED BY <1>1, <1>2

\* A task that ends, out of a holder's hands if it ends done or blocked.
LEMMA Ending ==
  ASSUME NEW u \in Tasks, NEW v \in {"done", "failed", "cancelled", "blocked"},
         issued' = issued, task[u].state # "absent", ~task[u].terminal,
         v \in {"done", "blocked"} => task[u].owner # NoWorker,
         task'[u].state = v, task'[u].terminal, task'[u].owner = NoWorker,
         task'[u].gen = task[u].gen
  PROVE  Lifecycle!Step(u)
<1>1. phaseOf[u] = "held" \/ (phaseOf[u] = "open" /\ v \in {"failed", "cancelled"})
  BY LifeView
<1>2. phaseOf'[u] = v /\ holderOf'[u] = NoWorker /\ epochOf'[u] = epochOf[u]
  BY LifeView, LifeNextView
<1>3. Lifecycle!End(u, v)
  BY <1>1, <1>2, SameGrants DEF Lifecycle!End, Lifecycle!Become
<1> QED BY <1>3 DEF Lifecycle!Step, Lifecycle!Ended

-----------------------------------------------------------------------------
(* The move of each operation.                                             *)

\* What the invariant says of the row of u, in the terms of the mapping.
LEMMA Columns ==
  ASSUME StoreInv, NEW u \in Tasks
  PROVE  /\ task[u] \in TaskRow
         /\ task[u].state = "absent" => task[u] = AbsentRow
         /\ task[u].owner # NoWorker <=> task[u].state \in OwnedState
         /\ task[u].terminal <=> task[u].state \in {"done", "failed", "cancelled", "blocked"}
BY RowFacts DEF RowInv, WellFormed

\* The row that is written, and the others.
LEMMA Written ==
  ASSUME StoreInv, NEW t \in Tasks, NEW u \in Tasks, NEW row, Write(t, row)
  PROVE  IF u = t THEN task'[u] = row ELSE task'[u] = task[u]
BY OtherRows DEF StoreInv

LEMMA EnqueueMove ==
  ASSUME StoreInv, NEW t \in Tasks, NEW u \in Tasks, Enqueue(t)
  PROVE  Lifecycle!Stays(u) \/ Lifecycle!Step(u)
<1> DEFINE row == [AbsentRow EXCEPT !.state = "queued", !.cur = 1, !.run = 1]
<1>1. Write(t, row) /\ issued' = issued /\ task[t].state = "absent"
  BY DEF Enqueue
<1>2. CASE u # t
  BY <1>1, <1>2, Written, Unmoved
<1>3. CASE u = t
  <2>1. row.state = "queued" /\ ~row.terminal /\ row.owner = NoWorker /\ row.gen = 0
    BY DEF AbsentRow
  <2>2. task'[u] = row
    BY <1>1, <1>3, Written
  <2> HIDE DEF row
  <2>3. Lifecycle!Create(u)
    BY <1>1, <1>3, <2>1, <2>2, LifeView, LifeNextView, SameGrants
       DEF Lifecycle!Create, Lifecycle!Become
  <2> QED BY <2>3 DEF Lifecycle!Step
<1> QED BY <1>2, <1>3

LEMMA ReopenMove ==
  ASSUME StoreInv, NEW t \in Tasks, NEW u \in Tasks, Adopt(t) \/ Retry(t)
  PROVE  Lifecycle!Stays(u) \/ Lifecycle!Step(u)
<1>0. task[t] \in TaskRow
  BY Columns
<1> DEFINE q == Reopened(task[t])
           adopted == [q EXCEPT !.cur = task[t].run]
           retried == [q EXCEPT !.gen = @ + 1, !.cur = task[t].run + 1, !.run = @ + 1]
<1>1. /\ q \in TaskRow /\ q.state = "queued" /\ ~q.terminal /\ q.owner = NoWorker
      /\ q.gen = task[t].gen
  BY <1>0, ReopenedRow
<1>2. /\ issued' = issued /\ task[t].state # "absent"
      /\ Write(t, adopted) \/ Write(t, retried)
  BY DEF Adopt, Retry
<1> HIDE DEF q
<1>3. /\ adopted.state = "queued" /\ ~adopted.terminal /\ adopted.owner = NoWorker
      /\ adopted.gen = task[t].gen
      /\ retried.state = "queued" /\ ~retried.terminal /\ retried.owner = NoWorker
      /\ retried.gen = task[t].gen + 1
  BY <1>1 DEF TaskRow
<1> HIDE DEF adopted, retried
<1>4. CASE u # t
  BY <1>2, <1>4, Written, Unmoved
<1>5. CASE u = t /\ Write(t, adopted)
  BY <1>2, <1>3, <1>5, Written, Adopting
<1>6. CASE u = t /\ Write(t, retried)
  BY <1>2, <1>3, <1>6, Written, Columns, Requeueing
<1> QED BY <1>2, <1>4, <1>5, <1>6

LEMMA LeaseMove ==
  ASSUME StoreInv, NEW t \in Tasks, NEW u \in Tasks,
         \/ LeaseExpires(t) \/ RequestCancelRunning(t)
         \/ \E w \in Workers : RenewClaim(w, t)
  PROVE  Lifecycle!Stays(u) \/ Lifecycle!Step(u)
<1>0. task[t] \in TaskRow /\ issued' = issued
  BY Columns DEF LeaseExpires, RequestCancelRunning, RenewClaim
<1>1. PICK row : /\ Write(t, row) /\ row.owner = task[t].owner /\ row.gen = task[t].gen
                 /\ row.terminal = task[t].terminal
                 /\ row.state = task[t].state \/ row.state = "cancel_requested"
  <2> DEFINE expired == [task[t] EXCEPT !.lease = "expired"]
             renewed == [task[t] EXCEPT !.lease = "live"]
             asked == [task[t] EXCEPT !.state = "cancel_requested", !.cancelReq = TRUE]
  <2>1. CASE LeaseExpires(t)
    <3>1. Write(t, expired)
      BY <2>1 DEF LeaseExpires
    <3> WITNESS expired
    <3> QED BY <1>0, <3>1 DEF TaskRow
  <2>2. CASE RequestCancelRunning(t)
    <3>1. Write(t, asked)
      BY <2>2 DEF RequestCancelRunning
    <3> WITNESS asked
    <3> QED BY <1>0, <3>1 DEF TaskRow
  <2>3. CASE \E w \in Workers : RenewClaim(w, t)
    <3>1. Write(t, renewed)
      BY <2>3 DEF RenewClaim
    <3> WITNESS renewed
    <3> QED BY <1>0, <3>1 DEF TaskRow
  <2> QED BY <2>1, <2>2, <2>3
<1>2. task[t].owner # NoWorker
  <2>1. task[t].lease # "none" => task[t].owner # NoWorker
    BY RowFacts DEF RowInv
  <2> QED
    BY <2>1, Columns, StoreAssumption DEF LeaseExpires, RequestCancelRunning, RenewClaim, OwnedState
<1>3. task[t].state \in OwnedState /\ ~task[t].terminal
  BY <1>2, Columns DEF OwnedState
<1>4. CASE u # t
  BY <1>0, <1>1, <1>4, Written, Unmoved
<1>5. CASE u = t
  BY <1>0, <1>1, <1>2, <1>3, <1>5, Written, Holding DEF OwnedState
<1> QED BY <1>4, <1>5

LEMMA ClaimMove ==
  ASSUME StoreInv, NEW w \in Workers, NEW t \in Tasks, NEW u \in Tasks, ClaimNext(w, t)
  PROVE  Lifecycle!Stays(u) \/ Lifecycle!Step(u)
<1> DEFINE row == [task[t] EXCEPT !.state = "claimed", !.owner = w, !.lease = "live",
                                  !.gen = @ + 1]
           c == [task |-> t, att |-> task[t].cur, worker |-> w, gen |-> task[t].gen + 1]
<1>0. task[t] \in TaskRow /\ task[t].owner = NoWorker /\ ~task[t].terminal
      /\ task[t].state = "queued"
  BY Columns DEF ClaimNext, OwnedState
<1>1. Write(t, row) /\ issued' = issued \cup {c}
  BY DEF ClaimNext
<1>2. c.task = t /\ c.worker = w
  OBVIOUS
<1>3. /\ row.state = "claimed" /\ row.owner = w /\ row.gen = task[t].gen + 1
      /\ row.terminal = task[t].terminal
  BY <1>0 DEF TaskRow
<1> HIDE DEF row, c
<1>4. CASE u # t
  <2>1. Lifecycle!NoGrant(u)
    BY <1>1, <1>2, <1>4 DEF Lifecycle!NoGrant, grantedOf
  <2>2. task'[u] = task[u]
    BY <1>1, <1>4, Written
  <2> QED
    BY <2>1, <2>2, LifeView, LifeNextView DEF Lifecycle!Stays, Lifecycle!Become
<1>5. CASE u = t
  <2>1. grantedOf'[t] = grantedOf[t] \cup {w}
    BY <1>1, <1>2 DEF grantedOf
  <2>2. task'[t] = row
    BY <1>1, Written
  <2>3. Lifecycle!Grant(t, w)
    BY <1>0, <1>3, <2>1, <2>2, LifeView, LifeNextView, StoreAssumption
       DEF Lifecycle!Grant, Lifecycle!Become
  <2> QED BY <1>5, <2>3 DEF Lifecycle!Step
<1> QED BY <1>4, <1>5

LEMMA RunningMove ==
  ASSUME StoreInv, NEW c \in issued, NEW u \in Tasks, MarkRunning(c)
  PROVE  Lifecycle!Stays(u) \/ Lifecycle!Step(u)
<1>0. c \in Claim /\ c.task \in Tasks /\ c.worker \in Workers
  BY DEF StoreInv, StoreTypeOK, Claim
<1> DEFINE t == c.task
           row == [task[t] EXCEPT !.state = "running", !.owner = c.worker, !.cur = c.att]
<1>1. /\ task[t] \in TaskRow /\ task[t].owner \in {NoWorker, c.worker}
      /\ task[t].state \in {"claimed", "queued", "running"}
      /\ ~task[t].terminal
      /\ Write(t, row) /\ issued' = issued
  BY <1>0, Columns DEF MarkRunning, MarkRunningMatches
<1>2. /\ row.state = "running" /\ row.owner = c.worker /\ row.gen = task[t].gen
      /\ row.terminal = task[t].terminal
  BY <1>1 DEF TaskRow
<1> HIDE DEF row
<1>3. CASE u # t
  BY <1>0, <1>1, <1>3, Written, Unmoved
<1>4. CASE u = t /\ task[t].owner # NoWorker
  BY <1>0, <1>1, <1>2, <1>4, Written, Holding
<1>5. CASE u = t /\ task[t].owner = NoWorker
  <2>1. c.worker \in grantedOf[t]
    BY <1>0 DEF grantedOf
  <2>2. task'[t] = row
    BY <1>0, <1>1, Written
  <2>3. Lifecycle!Resume(t, c.worker)
    BY <1>0, <1>1, <1>2, <1>5, <2>1, <2>2, LifeView, LifeNextView, SameGrants, StoreAssumption
       DEF Lifecycle!Resume, Lifecycle!Become
  <2> QED BY <1>0, <1>5, <2>3 DEF Lifecycle!Step
<1> QED BY <1>3, <1>4, <1>5

LEMMA ReturnMove ==
  ASSUME StoreInv, NEW c \in issued, NEW u \in Tasks, ReturnToQueued(c)
  PROVE  Lifecycle!Stays(u) \/ Lifecycle!Step(u)
<1>0. c.task \in Tasks
  BY DEF StoreInv, StoreTypeOK, Claim
<1> DEFINE t == c.task
           row == Requeued(task[t])
<1>1. /\ task[t] \in TaskRow /\ task[t].state \in {"claimed", "running"} /\ ~task[t].terminal
      /\ Write(t, row) /\ issued' = issued
  BY <1>0, Columns DEF ReturnToQueued, FenceHolds
<1>2. /\ row.state = "queued" /\ row.owner = NoWorker /\ row.gen = task[t].gen + 1
      /\ row.terminal = task[t].terminal
  BY <1>1, RequeuedRow
<1> HIDE DEF row
<1>3. CASE u # t
  BY <1>0, <1>1, <1>3, Written, Unmoved
<1>4. CASE u = t
  BY <1>0, <1>1, <1>2, <1>4, Written, Requeueing
<1> QED BY <1>3, <1>4

\* Every way of ending a task: by its holder, or by anybody if it fails or is
\* cancelled.
LEMMA CloseMove ==
  ASSUME StoreInv, NEW t \in Tasks, NEW u \in Tasks,
         NEW v \in {"done", "failed", "cancelled", "blocked"},
         Write(t, Closed(task[t], v)), issued' = issued,
         task[t].state # "absent", ~task[t].terminal,
         v \in {"done", "blocked"} => task[t].owner # NoWorker
  PROVE  Lifecycle!Stays(u) \/ Lifecycle!Step(u)
<1> DEFINE row == Closed(task[t], v)
<1>1. task[t] \in TaskRow /\ v \in TaskState
  BY Columns DEF TaskState
<1>2. row.state = v /\ row.owner = NoWorker /\ row.gen = task[t].gen /\ row.terminal = TRUE
  BY <1>1, ClosedRow
<1>3. Write(t, row)
  OBVIOUS
<1> HIDE DEF row
<1>4. CASE u # t
  BY <1>3, <1>4, Written, Unmoved
<1>5. CASE u = t
  BY <1>2, <1>3, <1>5, Written, Ending
<1> QED BY <1>4, <1>5

LEMMA HolderCloses ==
  ASSUME StoreInv, NEW c \in issued, NEW u \in Tasks,
         MarkBlockedUncertain(c) \/ \E s \in Verdict : MarkTerminal(c, s)
  PROVE  Lifecycle!Stays(u) \/ Lifecycle!Step(u)
<1>0. c.task \in Tasks /\ c.worker \in Workers
  BY DEF StoreInv, StoreTypeOK, Claim
<1>1. /\ task[c.task].owner # NoWorker /\ ~task[c.task].terminal /\ issued' = issued
  BY <1>0, StoreAssumption DEF MarkBlockedUncertain, MarkTerminal, FenceHolds
<1>2. task[c.task].state # "absent"
  BY <1>0, <1>1, Columns DEF OwnedState
<1>3. \E v \in {"done", "failed", "cancelled", "blocked"} :
        Write(c.task, Closed(task[c.task], v))
  BY DEF MarkBlockedUncertain, MarkTerminal, Verdict
<1> QED BY <1>0, <1>1, <1>2, <1>3, CloseMove

LEMMA OthersClose ==
  ASSUME StoreInv, NEW t \in Tasks, NEW u \in Tasks, NEW n,
         \/ FailIfActive(t, n)
         \/ \E s \in {"failed", "cancelled"} : MarkTerminalUnfenced(t, n, s)
  PROVE  Lifecycle!Stays(u) \/ Lifecycle!Step(u)
<1>1. /\ task[t].state # "absent" /\ ~task[t].terminal /\ issued' = issued
      /\ \E v \in {"failed", "cancelled"} : Write(t, Closed(task[t], v))
  BY DEF FailIfActive, MarkTerminalUnfenced
<1> QED BY <1>1, CloseMove

LEMMA RecoverMove ==
  ASSUME StoreInv, NEW u \in Tasks, NEW alive \in SUBSET Workers,
         NEW seen \in [Tasks -> Verdict \cup {"none"}], RecoverOrphanedClaims(alive, seen)
  PROVE  Lifecycle!Stays(u) \/ Lifecycle!Step(u)
<1>0. issued' = issued
  BY DEF RecoverOrphanedClaims
<1>1. CASE ~Orphaned(u, alive)
  <2>1. task'[u] = task[u]
    BY <1>1 DEF RecoverOrphanedClaims
  <2> QED BY <1>0, <2>1, Unmoved
<1>2. CASE Orphaned(u, alive)
  <2>1. /\ task[u] \in TaskRow /\ task[u].owner # NoWorker /\ ~task[u].terminal
        /\ task[u].state # "absent"
    BY <1>2, Columns DEF Orphaned
  <2>2. CASE seen[u] = "none"
    <3>1. task'[u] = Requeued(task[u])
      BY <1>2, <2>2 DEF RecoverOrphanedClaims
    <3>2. /\ task'[u].state = "queued" /\ task'[u].owner = NoWorker
          /\ task'[u].gen = task[u].gen + 1 /\ ~task'[u].terminal
      BY <2>1, <3>1, RequeuedRow
    <3> QED BY <1>0, <2>1, <3>2, Requeueing
  <2>3. CASE seen[u] # "none"
    <3>1. seen[u] \in Verdict
      BY <2>3
    <3>2. task'[u] = Closed(task[u], seen[u])
      BY <1>2, <2>3 DEF RecoverOrphanedClaims
    <3>3. /\ task'[u].state = seen[u] /\ task'[u].owner = NoWorker
          /\ task'[u].gen = task[u].gen /\ task'[u].terminal = TRUE
      <4>1. seen[u] \in TaskState
        BY <3>1 DEF Verdict, TaskState
      <4> DEFINE row == Closed(task[u], seen[u])
      <4>2. /\ row.state = seen[u] /\ row.owner = NoWorker /\ row.gen = task[u].gen
            /\ row.terminal = TRUE
        BY <2>1, <4>1, ClosedRow
      <4> QED BY <3>2, <4>2
    <3>4. seen[u] \in {"done", "failed", "cancelled", "blocked"}
      BY <3>1 DEF Verdict
    <3> QED BY <1>0, <2>1, <3>3, <3>4, Ending
  <2> QED BY <2>2, <2>3
<1> QED BY <1>1, <1>2

-----------------------------------------------------------------------------
(* The refinement.                                                         *)

LEMMA InitialLife == StoreInit => Lifecycle!Init
<1> SUFFICES ASSUME StoreInit PROVE Lifecycle!Init
  OBVIOUS
<1>1. ASSUME NEW u \in Tasks
      PROVE  phaseOf[u] = "absent" /\ holderOf[u] = NoWorker /\ epochOf[u] = 0
  BY LifeView DEF StoreInit, AbsentRow
<1>2. phaseOf = [t \in Tasks |-> "absent"] /\ holderOf = [t \in Tasks |-> NoWorker]
      /\ epochOf = [t \in Tasks |-> 0]
  BY <1>1 DEF phaseOf, holderOf, epochOf
<1>3. grantedOf = [t \in Tasks |-> {}]
  BY DEF grantedOf, StoreInit
<1> QED BY <1>2, <1>3 DEF Lifecycle!Init

\* Every step of the store is a move, or none, of the life of each task.
LEMMA LifeStep == StoreInv /\ StoreNext => Lifecycle!Next
<1> SUFFICES ASSUME StoreInv, StoreNext, NEW u \in Tasks
             PROVE  Lifecycle!Stays(u) \/ Lifecycle!Step(u)
  BY DEF Lifecycle!Next
<1> DEFINE Goal == Lifecycle!Stays(u) \/ Lifecycle!Step(u)
<1>1. ASSUME NEW t \in Tasks,
             \/ Enqueue(t) \/ Adopt(t) \/ LeaseExpires(t) \/ RequestCancelIdle(t)
             \/ RequestCancelRunning(t) \/ Retry(t) \/ OpenCancelCommand(t)
             \/ CloseCancelCommand(t)
      PROVE  Goal
  <2>1. CASE Enqueue(t)
    BY <2>1, EnqueueMove
  <2>2. CASE Adopt(t) \/ Retry(t)
    BY <2>2, ReopenMove
  <2>3. CASE LeaseExpires(t) \/ RequestCancelRunning(t)
    BY <2>3, LeaseMove
  <2>4. CASE RequestCancelIdle(t)
    BY <2>4, OthersClose DEF RequestCancelIdle
  <2>5. CASE OpenCancelCommand(t) \/ CloseCancelCommand(t)
    <3>1. task'[u] = task[u] /\ issued' = issued
      BY <2>5 DEF OpenCancelCommand, CloseCancelCommand
    <3> QED BY <3>1, Unmoved
  <2> QED BY <1>1, <2>1, <2>2, <2>3, <2>4, <2>5
<1>2. ASSUME NEW w \in Workers, NEW t \in Tasks, ClaimNext(w, t) \/ RenewClaim(w, t)
      PROVE  Goal
  BY <1>2, ClaimMove, LeaseMove
<1>3. ASSUME NEW c \in issued,
             \/ MarkRunning(c) \/ ReturnToQueued(c) \/ MarkBlockedUncertain(c)
             \/ \E s \in Verdict : MarkTerminal(c, s)
      PROVE  Goal
  BY <1>3, RunningMove, ReturnMove, HolderCloses
<1>4. ASSUME NEW t \in Tasks, NEW n \in AttemptNo,
             \/ FailIfActive(t, n)
             \/ \E s \in {"failed", "cancelled"} : MarkTerminalUnfenced(t, n, s)
      PROVE  Goal
  BY <1>4, OthersClose
<1>5. ASSUME NEW alive \in SUBSET Workers, NEW seen \in [Tasks -> Verdict \cup {"none"}],
             RecoverOrphanedClaims(alive, seen)
      PROVE  Goal
  BY <1>5, RecoverMove
<1> HIDE DEF Goal
<1>6. Goal
  BY <1>1, <1>2, <1>3, <1>4, <1>5 DEF StoreNext
<1> QED BY <1>6 DEF Goal

\* The task store implements the life of a task.
THEOREM StoreImplementsLifecycle == StoreSpec => ImplementsLifecycle
<1>1. StoreInv /\ [StoreNext]_storeVars => [Lifecycle!Next]_(Lifecycle!vars)
  <2>1. StoreInv /\ StoreNext => Lifecycle!Next
    BY LifeStep
  <2>2. UNCHANGED storeVars => UNCHANGED Lifecycle!vars
    BY DEF storeVars, Lifecycle!vars, phaseOf, holderOf, epochOf, grantedOf
  <2> QED BY <2>1, <2>2
<1> QED
  BY <1>1, InitialLife, StoreInvariance, PTL
     DEF StoreSpec, ImplementsLifecycle, Lifecycle!LifecycleSpec
=============================================================================
