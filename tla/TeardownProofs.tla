--------------------------- MODULE TeardownProofs ---------------------------
(***************************************************************************)
(* Theorems about Teardown for any tasks, workers and bounds.              *)
(*                                                                         *)
(* The invariant has three layers.  Desk is about the processes: what each *)
(* has in hand, what it has seen of its peers, and the list it sweeps.     *)
(* Hand relates what it has in hand to the store and to the rows shown.    *)
(* Kept says who looks after a task that is not over.  Each layer is kept  *)
(* by every step from the layers before it.                                *)
(***************************************************************************)
EXTENDS Teardown, TaskStoreProofs

InLoop == {"processing", "returned", "acting"}
InCleanup == {"cleanup", "inflight"}
Closing == {"closing", "closing2"}
Hands == InLoop \cup InCleanup \cup Closing \cup {"leaving"}
Listing == {"listed", "sweeping"}

-----------------------------------------------------------------------------
(* The first layer.                                                        *)

\* What the process p of w knows by itself, given the claims issued and the failure.
Local(w, p, claims, failure) ==
  /\ p.claim # NoClaim => p.claim \in claims /\ p.claim.worker = w /\ p.phase \in Hands
  /\ p.phase \in Hands \ {"cleanup", "leaving"} => p.claim # NoClaim
  /\ p.token => p.claim # NoClaim
  /\ p.phase = "processing" => ~p.token
  /\ p.phase = "returned" =>
       /\ p.verdict \in Verdict
       /\ p.verdict # "cancelled" /\ failure # "append" => p.token
       /\ p.verdict = "cancelled" => p.aborted
  /\ p.phase = "closing" => p.verdict \in {"failed", "cancelled"}
  /\ p.reassign => p.force
  /\ p.phase \in CleanupPhase /\ ~p.stopping => p.excused

\* A process that will claim, and one that Available selects for the work.
Serves(p) == p.phase \in LoopPhase \ {"launching"} /\ ~p.stopping
Goes(p) == p.phase \in LoopPhase \cup CleanupPhase /\ ~p.stopping

\* A process of w that decides on its peers has seen every one that serves, and one
\* that sweeps has seen that none of them will do the work.
View(w, p) ==
  p.phase \in Deciding =>
    /\ w \notin p.alive
    /\ \A x \in Workers \ {w} : Serves(proc[x]) => x \in p.alive
    /\ \A x \in p.alive : proc[x].phase # "off"
    /\ p.phase \in Listing => \A x \in p.alive : ~Goes(proc[x])

\* What is on the list of a sweep was queued, and has been in nobody's hands since.
Listable == {"queued", "failed", "cancelled"}
Listed(p, tasks) == p.phase \in Listing => \A t \in p.list : tasks[t].state \in Listable

\* Leases do not run out here, and no task waits for another.
Plain(t) ==
  /\ task[t].lease # "expired"
  /\ task[t].state \notin {"waiting_dependencies", "claimed"}
  /\ task[t].state = "blocked" => fault # "none"

Desk ==
  /\ TdTypeOK /\ StoreInv
  /\ \A t \in Tasks : Plain(t)
  /\ \A w \in Workers : Local(w, proc[w], issued, fault) /\ View(w, proc[w]) /\ Listed(proc[w], task)

-----------------------------------------------------------------------------
(* What the rewrites of a process keep.                                    *)

LEMMA ProcessTyped ==
  ASSUME TdTypeOK, NEW w \in Workers
  PROVE  proc[w] \in Process
BY DEF TdTypeOK

LEMMA FreshProcess == Fresh \in Process
BY DEF Fresh, Process, Phase

LEMMA LetGoProcess ==
  ASSUME NEW p \in Process
  PROVE  LET q == LetGo(p) IN
         /\ q \in Process /\ q.claim = NoClaim /\ q.token = FALSE /\ q.verdict = "none"
         /\ q.aborted = FALSE /\ q.alive = {} /\ q.handoff = {}
         /\ q.phase = p.phase /\ q.stopping = p.stopping /\ q.force = p.force
         /\ q.reassign = p.reassign /\ q.drain = p.drain /\ q.auth = p.auth
         /\ q.list = p.list /\ q.excused = p.excused
BY DEF LetGo, Process

LEMMA TurnProcess ==
  ASSUME NEW p \in Process
  PROVE  LET q == Turn(p) IN
         /\ q \in Process /\ q.claim = NoClaim /\ q.token = FALSE /\ q.verdict = "none"
         /\ q.phase = IF p.stopping THEN "cleanup" ELSE "idle"
         /\ q.stopping = p.stopping /\ q.force = p.force
         /\ q.reassign = p.reassign /\ q.excused = p.excused
<1> DEFINE l == LetGo(p)
           ph == IF p.stopping THEN "cleanup" ELSE "idle"
<1>1. /\ l \in Process /\ l.claim = NoClaim /\ l.token = FALSE /\ l.verdict = "none"
      /\ l.stopping = p.stopping /\ l.force = p.force
      /\ l.reassign = p.reassign /\ l.excused = p.excused
  BY LetGoProcess
<1>2. Turn(p) = [l EXCEPT !.phase = ph]
  BY DEF Turn
<1>3. ph \in Phase
  BY DEF Phase
<1> HIDE DEF l, ph
<1>4. [l EXCEPT !.phase = ph] \in Process
  BY <1>1, <1>3 DEF Process
<1> QED BY <1>1, <1>2, <1>4 DEF Process, ph

LEMMA SweptProcess ==
  ASSUME NEW p \in Process
  PROVE  LET q == Swept(p) IN
         /\ q \in Process /\ q.claim = NoClaim /\ q.token = FALSE /\ q.verdict = "none"
         /\ q.phase = "sweep" /\ q.alive = p.alive
         /\ q.stopping = p.stopping /\ q.force = p.force
         /\ q.reassign = p.reassign /\ q.excused = p.excused
<1> DEFINE l == LetGo(p)
<1>1. /\ l \in Process /\ l.claim = NoClaim /\ l.token = FALSE /\ l.verdict = "none"
      /\ l.stopping = p.stopping /\ l.force = p.force
      /\ l.reassign = p.reassign /\ l.excused = p.excused
  BY LetGoProcess
<1>2. Swept(p) = [l EXCEPT !.phase = "sweep", !.alive = p.alive]
  BY DEF Swept
<1>3. "sweep" \in Phase /\ p.alive \in SUBSET Workers
  BY DEF Phase, Process
<1> HIDE DEF l
<1>4. [l EXCEPT !.phase = "sweep", !.alive = p.alive] \in Process
  BY <1>1, <1>3 DEF Process
<1> QED BY <1>1, <1>2, <1>4 DEF Process

LEMMA ThrownProcess ==
  ASSUME NEW p \in Process
  PROVE  LET q == Thrown(p) IN
         /\ q \in Process /\ q.phase = "cleanup" /\ q.claim = p.claim
         /\ q.token = p.token /\ q.stopping = p.stopping /\ q.force = p.force
         /\ q.reassign = p.reassign /\ q.verdict = p.verdict /\ q.excused \in BOOLEAN
         /\ (~p.stopping => q.excused)
<1>1. (p.excused \/ ~p.stopping) \in BOOLEAN /\ "cleanup" \in Phase
  BY DEF Process, Phase
<1>2. Thrown(p) = [p EXCEPT !.phase = "cleanup", !.excused = p.excused \/ ~p.stopping]
  BY DEF Thrown
<1> DEFINE e == p.excused \/ ~p.stopping
<1>3. e \in BOOLEAN /\ (~p.stopping => e)
  BY <1>1
<1> HIDE DEF e
<1> DEFINE q == [p EXCEPT !.phase = "cleanup", !.excused = e]
<1>4. /\ q \in Process /\ q.phase = "cleanup" /\ q.claim = p.claim /\ q.token = p.token
      /\ q.stopping = p.stopping /\ q.force = p.force /\ q.reassign = p.reassign
      /\ q.verdict = p.verdict /\ q.excused = e
  BY <1>1, <1>3 DEF Process
<1>5. Thrown(p) = q
  BY <1>2 DEF e
<1> HIDE DEF q
<1> QED BY <1>3, <1>4, <1>5

\* When w becomes q nobody else changes.
LEMMA Others ==
  ASSUME TdTypeOK, NEW w \in Workers, NEW q \in Process, Put(w, q)
  PROVE  /\ proc' \in [Workers -> Process] /\ proc'[w] = q
         /\ \A x \in Workers \ {w} : proc'[x] = proc[x]
BY DEF TdTypeOK, Put

LEMMA EnterIsPut ==
  ASSUME TdTypeOK, NEW w \in Workers, NEW ph, Enter(w, ph)
  PROVE  Put(w, [proc[w] EXCEPT !.phase = ph])
BY DEF TdTypeOK, Enter, Put

-----------------------------------------------------------------------------
(* A step of one process, and what it has to establish for the others.     *)

\* w may become q: it does not begin to serve unseen, and once there it does not
\* come back to the work it was told to leave.
Follows(w, q) ==
  /\ Serves(q) => \/ Serves(proc[w])
                  \/ \A x \in Workers : proc[x].phase \in Deciding => w \in proc[x].alive
  /\ proc[w].phase # "off" => q.phase # "off" /\ (Goes(q) => Goes(proc[w]))

\* What the store does keeps the lists of the sweeps.
ListsHold ==
  \A x \in Workers : proc[x].phase \in Listing =>
    \A t \in proc[x].list : task'[t].state \in Listable

StoreMoves ==
  /\ StoreInv' /\ \A t \in Tasks : Plain(t)'
  /\ issued \subseteq issued'
  /\ ListsHold

\* No queued item is failed while somebody serves (PeersSpared).
Spares ==
  \A t \in Tasks :
    task[t].state = "queued" /\ task'[t].state = "failed" => \A p \in Workers : ~Serving(p)

\* The rest of a step is typed and there is at most one failure.
OtherVars ==
  /\ shown' \in [Tasks -> Row] /\ rows' \in [Tasks -> Nat]
  /\ fault' \in Fault /\ cutShort' \in BOOLEAN
  /\ fault' = fault \/ fault = "none"

LEMMA LocalStays ==
  ASSUME NEW w \in Workers, NEW p \in Process, Local(w, p, issued, fault), issued \subseteq issued',
         fault' = fault \/ fault = "none"
  PROVE  Local(w, p, issued', fault')
BY DEF Local

LEMMA DeskStep ==
  ASSUME Desk, StoreMoves, OtherVars, NEW w \in Workers, NEW q \in Process, Put(w, q),
         Local(w, q, issued', fault'), View(w, q), Listed(q, task'), Follows(w, q)
  PROVE  Desk'
<1>1. /\ proc' \in [Workers -> Process] /\ proc'[w] = q
      /\ \A x \in Workers \ {w} : proc'[x] = proc[x]
  BY Others DEF Desk
<1>2. TdTypeOK'
  BY <1>1 DEF StoreMoves, StoreInv, OtherVars, TdTypeOK
<1>3. ASSUME NEW x \in Workers PROVE Local(x, proc[x], issued, fault)'
  <2>1. CASE x = w
    BY <1>1, <2>1 DEF Local
  <2>2. CASE x # w
    <3>1. proc'[x] = proc[x] /\ proc[x] \in Process /\ Local(x, proc[x], issued, fault)
      BY <1>1, <2>2 DEF Desk, TdTypeOK
    <3>2. issued \subseteq issued' /\ (fault' = fault \/ fault = "none")
      BY DEF StoreMoves, OtherVars
    <3> QED BY <3>1, <3>2 DEF Local
  <2> QED BY <2>1, <2>2
<1>4. ASSUME NEW x \in Workers PROVE View(x, proc[x])'
  <2>1. CASE x = w
    <3>1. q.alive \subseteq Workers
      BY DEF Process
    <3> QED BY <1>1, <2>1, <3>1 DEF View
  <2>2. CASE x # w
    <3>1. SUFFICES ASSUME proc[x].phase \in Deciding PROVE View(x, proc[x])'
      BY <1>1, <2>2 DEF View
    <3>2. View(x, proc[x]) /\ proc[x].alive \subseteq Workers
      BY DEF Desk, TdTypeOK, Process
    <3>3. Serves(q) => w \in proc[x].alive
      BY <2>2, <3>1, <3>2 DEF Follows, View
    <3>4. w \in proc[x].alive => q.phase # "off"
      BY <3>1, <3>2 DEF Follows, View
    <3>5. w \in proc[x].alive /\ proc[x].phase \in Listing => ~Goes(q)
      BY <3>1, <3>2 DEF Follows, View
    <3> QED BY <1>1, <2>2, <3>1, <3>2, <3>3, <3>4, <3>5 DEF View
  <2> QED BY <2>1, <2>2
<1>5. ASSUME NEW x \in Workers PROVE Listed(proc[x], task)'
  BY <1>1 DEF StoreMoves, ListsHold, Listed
<1> QED BY <1>2, <1>3, <1>4, <1>5 DEF Desk, StoreMoves

\* A step that leaves the processes alone.
LEMMA DeskStill ==
  ASSUME Desk, StoreMoves, OtherVars, UNCHANGED proc
  PROVE  Desk'
<1>1. TdTypeOK'
  BY DEF StoreMoves, StoreInv, OtherVars, Desk, TdTypeOK
<1>2. ASSUME NEW x \in Workers
      PROVE  Local(x, proc[x], issued, fault)' /\ View(x, proc[x])' /\ Listed(proc[x], task)'
  <2>1. Local(x, proc[x], issued, fault)'
    BY DEF Desk, Local, StoreMoves, OtherVars
  <2>2. View(x, proc[x])'
    BY DEF Desk, View, TdTypeOK, Process
  <2>3. Listed(proc[x], task)'
    BY DEF StoreMoves, ListsHold, Listed
  <2> QED BY <2>1, <2>2, <2>3
<1> QED BY <1>1, <1>2 DEF Desk, StoreMoves

-----------------------------------------------------------------------------
(* What each operation of the store does to the layer.                     *)

LEMMA StoreStill ==
  ASSUME Desk, UNCHANGED storeVars, fault' = fault \/ fault = "none"
  PROVE  StoreMoves /\ Spares
<1>1. StoreInv'
  BY StoreInvStep DEF Desk
<1>2. \A t \in Tasks : Plain(t)'
  BY DEF Desk, Plain, storeVars
<1>3. ListsHold
  BY DEF Desk, Listed, ListsHold, storeVars
<1> QED BY <1>1, <1>2, <1>3 DEF StoreMoves, Spares, storeVars

\* A step that writes one row and no claim.
LEMMA RowMoves ==
  ASSUME Desk, StoreInv', NEW t \in Tasks, NEW row, Write(t, row), UNCHANGED issued,
         fault' = fault \/ fault = "none",
         row.lease # "expired", row.state \notin {"waiting_dependencies", "claimed"},
         row.state = "blocked" => fault' # "none",
         task[t].state \in Listable => row.state \in Listable
  PROVE  /\ StoreMoves
         /\ task[t].state # "queued" \/ row.state # "failed" => Spares
<1>1. ASSUME NEW u \in Tasks
      PROVE  IF u = t THEN task'[u] = row ELSE task'[u] = task[u]
  BY OtherRows DEF Desk, TdTypeOK
<1>2. \A u \in Tasks : Plain(u)'
  BY <1>1 DEF Desk, Plain
<1>3. \A u \in Tasks : task[u].state \in Listable => task'[u].state \in Listable
  BY <1>1
<1>4. ListsHold
  BY <1>3 DEF Desk, Listed, ListsHold, TdTypeOK, Process
<1>5. task[t].state # "queued" \/ row.state # "failed" => Spares
  BY <1>1 DEF Spares
<1> QED BY <1>2, <1>4, <1>5 DEF StoreMoves

LEMMA EnqueueMoves ==
  ASSUME Desk, NEW t \in Tasks, Enqueue(t), UNCHANGED fault
  PROVE  StoreMoves /\ Spares
<1> DEFINE row == [AbsentRow EXCEPT !.state = "queued", !.cur = 1, !.run = 1]
<1>1. StoreInv'
  BY EnqueueStep DEF Desk
<1>2. /\ Write(t, row) /\ UNCHANGED issued /\ row.lease = "none" /\ row.state = "queued"
  BY DEF Enqueue, AbsentRow
<1>3. task[t].state = "absent"
  BY DEF Enqueue
<1> HIDE DEF row
<1> QED BY <1>1, <1>2, <1>3, RowMoves DEF Listable

\* A claim in hand was issued, and one that passes the fence is on an owned row.
LEMMA FencedRow ==
  ASSUME Desk, NEW c \in issued, FenceHolds(c)
  PROVE  /\ c.task \in Tasks /\ task[c.task] \in TaskRow
         /\ task[c.task].state \in {"running", "cancel_requested"}
         /\ task[c.task].owner = c.worker /\ c.worker \in Workers
<1>1. c.task \in Tasks /\ c.worker \in Workers
  BY DEF Desk, StoreInv, StoreTypeOK, Claim
<1>2. task[c.task] \in TaskRow /\ RowInv(c.task) /\ Plain(c.task)
  BY <1>1, RowFacts DEF Desk
<1> QED BY <1>1, <1>2, StoreAssumption DEF FenceHolds, RowInv, OwnedState, Plain

LEMMA TerminalMoves ==
  ASSUME Desk, NEW c \in issued, NEW v \in Verdict, MarkTerminal(c, v), UNCHANGED fault
  PROVE  StoreMoves /\ Spares
<1>1. StoreInv'
  BY FencedCloseStep DEF Desk
<1>2. FenceHolds(c) /\ Write(c.task, Closed(task[c.task], v)) /\ UNCHANGED issued
  BY DEF MarkTerminal
<1>3. /\ c.task \in Tasks /\ task[c.task] \in TaskRow
      /\ task[c.task].state \in {"running", "cancel_requested"}
  BY <1>2, FencedRow
<1>4. v \in TaskState /\ v \notin {"waiting_dependencies", "claimed", "blocked"}
  BY DEF Verdict, TaskState
<1>5. Closed(task[c.task], v).state = v /\ Closed(task[c.task], v).lease = "none"
  BY <1>3, <1>4, ClosedRow
<1> QED BY <1>1, <1>2, <1>3, <1>4, <1>5, RowMoves DEF Listable

LEMMA BlockedMoves ==
  ASSUME Desk, NEW c \in issued, MarkBlockedUncertain(c), fault = "none", fault' # "none"
  PROVE  StoreMoves /\ Spares
<1>1. StoreInv'
  BY FencedCloseStep DEF Desk
<1>2. FenceHolds(c) /\ Write(c.task, Closed(task[c.task], "blocked")) /\ UNCHANGED issued
  BY DEF MarkBlockedUncertain
<1>3. /\ c.task \in Tasks /\ task[c.task] \in TaskRow
      /\ task[c.task].state \in {"running", "cancel_requested"}
  BY <1>2, FencedRow
<1>4. /\ Closed(task[c.task], "blocked").state = "blocked"
      /\ Closed(task[c.task], "blocked").lease = "none"
  BY <1>3, ClosedRow DEF TaskState
<1> QED BY <1>1, <1>2, <1>3, <1>4, RowMoves DEF Listable

LEMMA RequeueMoves ==
  ASSUME Desk, NEW c \in issued, ReturnToQueued(c), UNCHANGED fault
  PROVE  StoreMoves /\ Spares
<1>1. StoreInv'
  BY ReturnToQueuedStep DEF Desk
<1>2. FenceHolds(c) /\ Write(c.task, Requeued(task[c.task])) /\ UNCHANGED issued
  BY DEF ReturnToQueued
<1>3. /\ c.task \in Tasks /\ task[c.task] \in TaskRow
      /\ task[c.task].state \in {"running", "cancel_requested"}
  BY <1>2, FencedRow
<1>4. /\ Requeued(task[c.task]).state = "queued"
      /\ Requeued(task[c.task]).lease = "none"
  BY <1>3, RequeuedRow
<1> QED BY <1>1, <1>2, <1>3, <1>4, RowMoves DEF Listable

LEMMA RequestCancelMoves ==
  ASSUME Desk, NEW t \in Tasks, RequestCancelRunning(t), UNCHANGED fault
  PROVE  StoreMoves /\ Spares
<1> DEFINE row == [task[t] EXCEPT !.state = "cancel_requested", !.cancelReq = TRUE]
<1>1. StoreInv'
  BY RequestCancelStep DEF Desk
<1>2. task[t].state \in {"claimed", "running"} /\ Write(t, row) /\ UNCHANGED issued
  BY DEF RequestCancelRunning
<1>3. task[t] \in TaskRow /\ Plain(t)
  BY RowFacts DEF Desk
<1>4. row.state = "cancel_requested" /\ row.lease = task[t].lease
  BY <1>3 DEF TaskRow
<1> HIDE DEF row
<1> QED BY <1>1, <1>2, <1>3, <1>4, RowMoves DEF Listable, Plain

LEMMA CancelIdleMoves ==
  ASSUME Desk, NEW t \in Tasks, RequestCancelIdle(t), UNCHANGED fault
  PROVE  StoreMoves /\ Spares
<1>1. StoreInv'
  BY RequestCancelIdleStep DEF Desk
<1>2. Write(t, Closed(task[t], "cancelled")) /\ UNCHANGED issued
  BY DEF RequestCancelIdle, MarkTerminalUnfenced
<1>3. task[t] \in TaskRow
  BY RowFacts DEF Desk
<1>4. /\ Closed(task[t], "cancelled").state = "cancelled"
      /\ Closed(task[t], "cancelled").lease = "none"
  BY <1>3, ClosedRow DEF TaskState
<1> QED BY <1>1, <1>2, <1>3, <1>4, RowMoves DEF Listable

LEMMA FailActiveMoves ==
  ASSUME Desk, NEW t \in Tasks, FailIfActive(t, task[t].cur), UNCHANGED fault \/ fault = "none"
  PROVE  StoreMoves
<1>1. StoreInv'
  BY CurrentAttempt, FailIfActiveStep DEF Desk, FailIfActive
<1>2. Write(t, Closed(task[t], "failed")) /\ UNCHANGED issued
  BY DEF FailIfActive
<1>3. task[t] \in TaskRow
  BY RowFacts DEF Desk
<1>4. /\ Closed(task[t], "failed").state = "failed"
      /\ Closed(task[t], "failed").lease = "none"
  BY <1>3, ClosedRow DEF TaskState
<1> QED BY <1>1, <1>2, <1>3, <1>4, RowMoves DEF Listable

\* Recovery: the orphans are queued again or take the verdict shown of them.
LEMMA RecoverMoves ==
  ASSUME Desk, NEW alive \in SUBSET Workers, NEW seen \in [Tasks -> Verdict \cup {"none"}],
         RecoverOrphanedClaims(alive, seen), fault' = fault \/ fault = "none"
  PROVE  StoreMoves /\ Spares
<1>1. StoreInv'
  BY RecoverStep DEF Desk
<1>2. ASSUME NEW t \in Tasks
      PROVE  \/ task'[t] = task[t]
             \/ /\ task[t].state \in {"claimed", "running"}
                /\ task'[t].lease = "none"
                /\ task'[t].state \in {"queued"} \cup Verdict
  <2>1. task[t] \in TaskRow
    BY RowFacts DEF Desk
  <2>2. CASE ~Orphaned(t, alive)
    BY <2>2 DEF RecoverOrphanedClaims
  <2>3. CASE Orphaned(t, alive) /\ seen[t] = "none"
    <3>1. task'[t] = Requeued(task[t])
      BY <2>3 DEF RecoverOrphanedClaims
    <3> QED BY <2>1, <2>3, <3>1, RequeuedRow DEF Orphaned
  <2>4. CASE Orphaned(t, alive) /\ seen[t] # "none"
    <3>1. task'[t] = Closed(task[t], seen[t]) /\ seen[t] \in Verdict
      BY <2>4 DEF RecoverOrphanedClaims
    <3>2. seen[t] \in TaskState
      BY <3>1 DEF Verdict, TaskState
    <3>3. /\ Closed(task[t], seen[t]).state = seen[t]
          /\ Closed(task[t], seen[t]).lease = "none"
      BY <2>1, <3>2, ClosedRow
    <3> QED BY <2>4, <3>1, <3>3 DEF Orphaned
  <2> QED BY <2>2, <2>3, <2>4
<1>3. \A t \in Tasks : Plain(t)'
  BY <1>2 DEF Desk, Plain, Verdict
<1>4. ListsHold
  BY <1>2 DEF Desk, Listed, ListsHold, TdTypeOK, Process, Listable
<1>5. Spares
  BY <1>2 DEF Spares
<1> QED BY <1>1, <1>3, <1>4, <1>5 DEF StoreMoves, RecoverOrphanedClaims

\* What a claim writes: the row in the hands of w, and the claim that says so.
TakenRow(w, t) == [task[t] EXCEPT !.state = "running", !.owner = w, !.lease = "live",
                                  !.gen = @ + 1]
TakenClaim(w, t) == [task |-> t, att |-> task[t].cur, worker |-> w, gen |-> task[t].gen + 1]

LEMMA Taken ==
  ASSUME StoreInv, NEW w \in Workers, NEW t \in Tasks, task[t].state = "queued"
  PROVE  /\ TakenRow(w, t) \in TaskRow
         /\ TakenRow(w, t).state = "running" /\ TakenRow(w, t).owner = w
         /\ TakenRow(w, t).lease = "live" /\ TakenRow(w, t).gen = task[t].gen + 1
         /\ TakenRow(w, t).cur = task[t].cur /\ TakenRow(w, t).run = task[t].run
         /\ ~TakenRow(w, t).terminal
         /\ TakenClaim(w, t) \in Claim /\ TakenClaim(w, t).task = t
         /\ TakenClaim(w, t).att = task[t].cur /\ TakenClaim(w, t).worker = w
         /\ TakenClaim(w, t).gen = task[t].gen + 1
         /\ task[t].cur \in AttemptNo /\ task[t].run \in AttemptNo
<1>0. task[t] \in TaskRow /\ RowInv(t)
  BY RowFacts
<1>1. task[t].cur \in AttemptNo /\ task[t].run \in AttemptNo /\ ~task[t].terminal
  BY <1>0, CurrentAttempt DEF RowInv, TaskRow
<1>2. task[t].gen + 1 \in Nat
  BY <1>0 DEF TaskRow
<1> DEFINE row == [[[[task[t] EXCEPT !.state = "running"] EXCEPT !.owner = w]
                    EXCEPT !.lease = "live"] EXCEPT !.gen = task[t].gen + 1]
<1>3. row = TakenRow(w, t)
  BY DEF TakenRow
<1>4. row \in TaskRow
  BY <1>0, <1>2 DEF TaskRow, TaskState
<1>5. /\ row.state = "running" /\ row.owner = w /\ row.lease = "live"
      /\ row.gen = task[t].gen + 1 /\ row.cur = task[t].cur /\ row.run = task[t].run
      /\ row.terminal = task[t].terminal
  BY <1>0 DEF TaskRow
<1> HIDE DEF row
<1> QED BY <1>1, <1>2, <1>3, <1>4, <1>5 DEF TakenClaim, Claim

LEMMA TakeWrites ==
  ASSUME NEW w, NEW t, Take(w, t)
  PROVE  /\ task[t].state = "queued"
         /\ Write(t, TakenRow(w, t)) /\ WriteAttempt(t, task[t].cur, "running")
         /\ issued' = issued \cup {TakenClaim(w, t)} /\ UNCHANGED cancelCmd
BY DEF Take, TakenRow, TakenClaim

\* A claim is issued under a generation no earlier claim of the task has.
LEMMA TakeKeepsStore ==
  ASSUME StoreInv, NEW w \in Workers, NEW t \in Tasks, Take(w, t)
  PROVE  StoreInv'
<1> DEFINE row == TakenRow(w, t)
           new == TakenClaim(w, t)
<1>1. /\ task[t].state = "queued"
      /\ Write(t, row) /\ WriteAttempt(t, task[t].cur, "running")
      /\ issued' = issued \cup {new} /\ UNCHANGED cancelCmd
  BY TakeWrites
<1>2. /\ row \in TaskRow /\ row.state = "running" /\ row.owner = w
      /\ row.gen = task[t].gen + 1 /\ row.cur = task[t].cur /\ row.run = task[t].run
      /\ ~row.terminal
      /\ new \in Claim /\ new.task = t /\ new.gen = task[t].gen + 1
      /\ task[t].cur \in AttemptNo /\ task[t].run \in AttemptNo
  <2>1. task[t].state = "queued"
    BY <1>1
  <2> QED BY <2>1, Taken
<1> HIDE DEF row, new
<1>0. task[t] \in TaskRow /\ RowInv(t) /\ StoreTypeOK /\ OneClaimPerGeneration
  BY RowFacts DEF StoreInv
<1>3. task'[t] = row /\ attempt'[t][task[t].cur] = "running"
  BY <1>0, <1>1, <1>2 DEF Write, WriteAttempt, StoreTypeOK
<1>4. ASSUME NEW u \in Tasks, u # t PROVE task'[u] = task[u] /\ attempt'[u] = attempt[u]
  BY <1>0, <1>1, <1>4 DEF StoreTypeOK, Write, WriteAttempt
<1>5. StoreTypeOK'
  BY <1>0, <1>1, <1>2 DEF StoreTypeOK, Write, WriteAttempt, AttemptState
<1>6. OneClaimPerGeneration'
  <2>1. ASSUME NEW c \in issued PROVE c.gen <= task'[c.task].gen
    <3>1. c.task \in Tasks /\ c.gen \in Nat /\ c.gen <= task[c.task].gen
      BY <1>0 DEF StoreTypeOK, OneClaimPerGeneration, Claim
    <3>2. CASE c.task = t
      BY <1>0, <1>2, <1>3, <3>1, <3>2 DEF TaskRow
    <3>3. CASE c.task # t
      BY <1>4, <3>1, <3>3
    <3> QED BY <3>2, <3>3
  <2>2. new.gen <= task'[new.task].gen
    BY <1>0, <1>2, <1>3 DEF TaskRow
  <2>3. ASSUME NEW c \in issued, c.task = t PROVE c.gen # new.gen
    BY <1>0, <1>2, <2>3 DEF OneClaimPerGeneration, TaskRow, StoreTypeOK, Claim
  <2>4. ASSUME NEW c \in issued', NEW d \in issued', c.task = d.task, c.gen = d.gen
        PROVE  c = d
    BY <1>0, <1>1, <1>2, <2>3, <2>4 DEF OneClaimPerGeneration
  <2> QED
    BY <1>1, <2>1, <2>2, <2>4 DEF OneClaimPerGeneration
<1>7. ASSUME NEW u \in Tasks PROVE RowInv(u)'
  <2>1. CASE u = t
    BY <1>2, <1>3, <2>1, StoreAssumption DEF RowInv, WellFormed, OwnedState
  <2>2. CASE u # t
    <3>1. RowInv(u) BY StoreInvByRow
    <3>2. task'[u] = task[u] /\ attempt'[u] = attempt[u] /\ issued \subseteq issued'
      BY <1>1, <1>4, <2>2
    <3> QED BY <3>1, <3>2 DEF RowInv
  <2> QED BY <2>1, <2>2
<1> QED
  BY <1>5, <1>6, <1>7 DEF StoreInv, RowInv, RowsWellFormed, OwnerIffActive,
       TerminalIffEnded, ClaimedIsFenced, AttemptLockstep

\* No sweep has the task of a claim on its list: it saw the daemon that claims.
LEMMA TakeMoves ==
  ASSUME Desk, NEW w \in Workers, NEW t \in Tasks, Take(w, t)
  PROVE  StoreMoves /\ Spares
<1>1. StoreInv'
  BY TakeKeepsStore DEF Desk
<1>2. /\ Write(t, TakenRow(w, t)) /\ issued' = issued \cup {TakenClaim(w, t)}
      /\ TakenRow(w, t).state = "running" /\ TakenRow(w, t).lease = "live"
      /\ proc[w].phase = "idle" /\ ~proc[w].stopping /\ fault' = fault
  <2>1. StoreInv
    BY DEF Desk
  <2>2. proc[w].phase = "idle" /\ ~proc[w].stopping /\ fault' = fault
    BY DEF Take
  <2>3. /\ task[t].state = "queued" /\ Write(t, TakenRow(w, t))
        /\ issued' = issued \cup {TakenClaim(w, t)}
    BY TakeWrites
  <2> QED BY <2>1, <2>2, <2>3, Taken
<1>3. ASSUME NEW u \in Tasks
      PROVE  IF u = t THEN task'[u] = TakenRow(w, t) ELSE task'[u] = task[u]
  BY <1>2, OtherRows DEF Desk, TdTypeOK
<1>4. \A u \in Tasks : Plain(u)'
  BY <1>2, <1>3 DEF Desk, Plain
<1>5. ASSUME NEW x \in Workers, proc[x].phase \in Listing PROVE FALSE
  <2>1. x # w /\ proc[x].phase \in Deciding
    BY <1>2, <1>5 DEF Listing, Deciding
  <2>2. Serves(proc[w]) /\ Goes(proc[w])
    BY <1>2 DEF Serves, Goes, LoopPhase
  <2>3. View(x, proc[x])
    BY DEF Desk
  <2> QED BY <1>5, <2>1, <2>2, <2>3 DEF View
<1>6. Spares
  BY <1>2, <1>3 DEF Spares
<1> QED BY <1>1, <1>2, <1>4, <1>5, <1>6 DEF StoreMoves, ListsHold

-----------------------------------------------------------------------------
(* The steps that touch one process alone, and what it becomes.            *)

Alone(w, q) == Put(w, q) /\ UNCHANGED <<storeVars, shown, rows, fault, cutShort>>

\* What most steps leave as it was.
Keeps(p, q) ==
  /\ q.claim = p.claim /\ q.token = p.token /\ q.verdict = p.verdict
  /\ q.stopping = p.stopping /\ q.force = p.force /\ q.reassign = p.reassign

\* What holds of w before its step.
LEMMA DeskOf ==
  ASSUME Desk, NEW w \in Workers
  PROVE  /\ proc[w] \in Process /\ Local(w, proc[w], issued, fault) /\ View(w, proc[w])
         /\ Listed(proc[w], task)
         /\ proc[w].claim # NoClaim => proc[w].claim \in issued /\ proc[w].claim.task \in Tasks
BY DEF Desk, TdTypeOK, Local, StoreInv, StoreTypeOK, Claim

\* A daemon is told something, and does not forget what it was told.
Hears(p, q) ==
  /\ q.phase = p.phase /\ q.claim = p.claim /\ q.token = p.token
  /\ q.verdict = p.verdict /\ q.alive = p.alive /\ q.list = p.list
  /\ q.excused = p.excused
  /\ p.stopping => q.stopping
  /\ p.force => q.force
  /\ q.phase = "returned" /\ p.aborted => q.aborted
  /\ q.reassign => q.force

LEMMA StopShape ==
  ASSUME Desk, NEW w \in Workers, NEW r \in BOOLEAN, Stop(w, r)
  PROVE  \E q \in Process : Alone(w, q) /\ Hears(proc[w], q)
<1> DEFINE p == proc[w]
           q == [p EXCEPT !.stopping = TRUE, !.force = TRUE, !.drain = FALSE, !.reassign = r]
<1>1. p \in Process /\ Alone(w, q)
  BY DeskOf DEF Stop, Alone
<1>2. q \in Process /\ Hears(p, q)
  BY <1>1 DEF Process, Hears
<1> HIDE DEF q
<1> QED BY <1>1, <1>2

LEMMA SignalShape ==
  ASSUME Desk, NEW w \in Workers, Signal(w)
  PROVE  \E q \in Process : Alone(w, q) /\ Hears(proc[w], q)
<1> DEFINE p == proc[w]
           q == [p EXCEPT !.stopping = TRUE, !.force = TRUE, !.drain = FALSE]
<1>1. p \in Process /\ Alone(w, q)
  BY DeskOf DEF Signal, Alone
<1>2. q \in Process /\ Hears(p, q)
  BY <1>1 DEF Process, Hears
<1> HIDE DEF q
<1> QED BY <1>1, <1>2

LEMMA DrainShape ==
  ASSUME Desk, NEW w \in Workers, Drain(w)
  PROVE  \E q \in Process : Alone(w, q) /\ Hears(proc[w], q)
<1> DEFINE p == proc[w]
           q == [p EXCEPT !.stopping = TRUE, !.drain = TRUE]
<1>1. p \in Process /\ Alone(w, q) /\ (p.reassign => p.force)
  BY DeskOf DEF Drain, Alone, Local
<1>2. q \in Process /\ Hears(p, q)
  BY <1>1 DEF Process, Hears
<1> HIDE DEF q
<1> QED BY <1>1, <1>2

LEMMA BrowserLostShape ==
  ASSUME Desk, NEW w \in Workers, BrowserLost(w)
  PROVE  \E q \in Process : Alone(w, q) /\ Hears(proc[w], q)
<1> DEFINE p == proc[w]
<1>1. /\ p \in Process /\ (p.reassign => p.force)
      /\ p.phase = "returned" => p.claim # NoClaim
  BY DeskOf DEF Local, Hands, InLoop
<1>2. PICK b \in BOOLEAN : b = (p.claim # NoClaim)
  OBVIOUS
<1> DEFINE q == [p EXCEPT !.stopping = TRUE, !.aborted = b]
<1>3. Alone(w, q)
  BY <1>2 DEF BrowserLost, Alone
<1>4. q \in Process /\ Hears(p, q)
  BY <1>1, <1>2 DEF Process, Hears
<1> HIDE DEF q
<1> QED BY <1>3, <1>4

LEMMA AbortShape ==
  ASSUME Desk, NEW w \in Workers, Abort(w)
  PROVE  \E q \in Process : Alone(w, q) /\ Hears(proc[w], q)
<1> DEFINE p == proc[w]
           q == [p EXCEPT !.aborted = TRUE]
<1>1. p \in Process /\ Alone(w, q) /\ (p.reassign => p.force)
  BY DeskOf DEF Abort, Alone, Local
<1>2. q \in Process /\ Hears(p, q)
  BY <1>1 DEF Process, Hears
<1> HIDE DEF q
<1> QED BY <1>1, <1>2

LEMMA SpawnShape ==
  ASSUME Desk, NEW w \in Workers, Spawn(w)
  PROVE  \E q \in Process : /\ Alone(w, q) /\ Keeps(proc[w], q)
                            /\ proc[w].phase = "off" /\ q.phase = "launching"
<1> DEFINE p == proc[w]
           q == [p EXCEPT !.phase = "launching"]
<1>1. p \in Process /\ p.phase = "off" /\ Alone(w, q)
  BY DeskOf, EnterIsPut DEF Spawn, Desk, Alone
<1>2. q \in Process /\ q.phase = "launching" /\ Keeps(p, q)
  BY <1>1 DEF Process, Phase, Keeps
<1> HIDE DEF q
<1> QED BY <1>1, <1>2

LEMMA LaunchedShape ==
  ASSUME Desk, NEW w \in Workers, Launched(w)
  PROVE  \E q \in Process : /\ Alone(w, q) /\ Keeps(proc[w], q)
                            /\ proc[w].phase = "launching" /\ q.excused = proc[w].excused
                            /\ q.phase = IF proc[w].stopping THEN "cleanup" ELSE "idle"
<1> DEFINE p == proc[w]
<1>1. PICK ph \in Phase : ph = IF p.stopping THEN "cleanup" ELSE "idle"
  BY DEF Phase
<1> DEFINE q == [p EXCEPT !.phase = ph, !.auth = TRUE]
<1>2. p \in Process /\ p.phase = "launching" /\ Alone(w, q)
  BY <1>1, DeskOf DEF Launched, Alone
<1>3. q \in Process /\ q.phase = ph /\ q.excused = p.excused /\ Keeps(p, q)
  BY <1>2 DEF Process, Keeps
<1> HIDE DEF q
<1> QED BY <1>1, <1>2, <1>3

LEMMA WedgeShape ==
  ASSUME Desk, NEW w \in Workers, Wedge(w)
  PROVE  \E q \in Process : /\ Alone(w, q) /\ Keeps(proc[w], q)
                            /\ proc[w].phase = "idle" /\ q.phase = "wedged"
<1> DEFINE p == proc[w]
           q == [p EXCEPT !.phase = "wedged"]
<1>1. p \in Process /\ p.phase = "idle" /\ Alone(w, q)
  BY DeskOf, EnterIsPut DEF Wedge, Desk, Alone
<1>2. q \in Process /\ q.phase = "wedged" /\ Keeps(p, q)
  BY <1>1 DEF Process, Phase, Keeps
<1> HIDE DEF q
<1> QED BY <1>1, <1>2

\* What a daemon sees of its peers: every one that serves, none that was not started.
LEMMA AliveSeen ==
  ASSUME NEW w \in Workers, NEW S \in AliveViews(w)
  PROVE  /\ S \in SUBSET Workers /\ w \notin S
         /\ \A x \in Workers \ {w} : Serves(proc[x]) => x \in S
         /\ \A x \in S : proc[x].phase # "off"
BY DEF AliveViews, PidAlive, Serves, LoopPhase

LEMMA LookForPeersShape ==
  ASSUME Desk, NEW w \in Workers, LookForPeers(w)
  PROVE  \E q \in Process :
           /\ Alone(w, q) /\ Keeps(proc[w], q)
           /\ proc[w].phase = "returned" /\ q.phase = "acting" /\ q.alive \in AliveViews(w)
<1> DEFINE p == proc[w]
<1>1. PICK S \in AliveViews(w) :
        Put(w, [p EXCEPT !.phase = "acting", !.alive = S,
                         !.handoff = IF p.reassign THEN Available(S) ELSE {}])
  BY DEF LookForPeers
<1>2. S \in SUBSET Workers
  BY AliveSeen
<1>3. PICK h \in SUBSET Workers : h = IF p.reassign THEN Available(S) ELSE {}
  BY <1>2 DEF Available
<1> DEFINE q == [p EXCEPT !.phase = "acting", !.alive = S, !.handoff = h]
<1>4. p \in Process /\ p.phase = "returned" /\ Alone(w, q)
  BY <1>1, <1>3, DeskOf DEF LookForPeers, Alone
<1>5. q \in Process /\ q.phase = "acting" /\ q.alive = S /\ Keeps(p, q)
  BY <1>2, <1>4 DEF Process, Phase, Keeps
<1> HIDE DEF q
<1> QED BY <1>4, <1>5

LEMMA FindPeersShape ==
  ASSUME Desk, NEW w \in Workers, FindPeers(w)
  PROVE  \E q \in Process :
           /\ Alone(w, q) /\ proc[w].phase = "cleanup" /\ q.alive \in AliveViews(w)
           /\ q.stopping = proc[w].stopping /\ q.excused = proc[w].excused
           /\ q.reassign = proc[w].reassign /\ q.force = proc[w].force
           /\ \/ /\ q.phase = "sweep" /\ q.claim = NoClaim /\ ~q.token
                 /\ proc[w].claim = NoClaim \/ AlreadyShown(proc[w].claim)
              \/ /\ q.phase = "inflight" /\ Keeps(proc[w], q)
                 /\ proc[w].claim # NoClaim /\ ~AlreadyShown(proc[w].claim)
<1> DEFINE p == proc[w]
<1>1. PICK S \in AliveViews(w) :
        Put(w, IF p.claim = NoClaim \/ AlreadyShown(p.claim)
               THEN [LetGo(p) EXCEPT !.phase = "sweep", !.alive = S]
               ELSE [p EXCEPT !.phase = "inflight", !.alive = S,
                              !.handoff = IF p.reassign THEN Available(S) ELSE {}])
  BY DEF FindPeers
<1>2. /\ S \in SUBSET Workers /\ p \in Process /\ p.phase = "cleanup"
      /\ UNCHANGED <<storeVars, shown, rows, fault, cutShort>>
  BY AliveSeen, DeskOf DEF FindPeers
<1>3. CASE p.claim = NoClaim \/ AlreadyShown(p.claim)
  <2> DEFINE l == LetGo(p)
             q == [l EXCEPT !.phase = "sweep", !.alive = S]
  <2>1. /\ l \in Process /\ l.claim = NoClaim /\ l.token = FALSE
        /\ l.stopping = p.stopping /\ l.force = p.force
        /\ l.reassign = p.reassign /\ l.excused = p.excused
    BY <1>2, LetGoProcess
  <2>2. Alone(w, q)
    BY <1>1, <1>2, <1>3 DEF Alone
  <2> HIDE DEF l
  <2>3. /\ q \in Process /\ q.alive = S /\ q.stopping = p.stopping
        /\ q.excused = p.excused /\ q.reassign = p.reassign /\ q.force = p.force
        /\ q.phase = "sweep" /\ q.claim = NoClaim /\ ~q.token
    BY <1>2, <2>1 DEF Process, Phase
  <2> HIDE DEF q
  <2> QED BY <1>2, <1>3, <2>2, <2>3
<1>4. CASE ~(p.claim = NoClaim \/ AlreadyShown(p.claim))
  <2>1. PICK h \in SUBSET Workers : h = IF p.reassign THEN Available(S) ELSE {}
    BY <1>2 DEF Available
  <2> DEFINE q == [p EXCEPT !.phase = "inflight", !.alive = S, !.handoff = h]
  <2>2. Alone(w, q)
    BY <1>1, <1>2, <1>4, <2>1 DEF Alone
  <2>3. /\ q \in Process /\ q.alive = S /\ q.excused = p.excused
        /\ q.phase = "inflight" /\ Keeps(p, q)
    BY <1>2 DEF Process, Phase, Keeps
  <2> HIDE DEF q
  <2> QED BY <1>2, <1>4, <2>2, <2>3 DEF Keeps
<1> QED BY <1>3, <1>4

\* The last daemon lists what is queued; another leaves, with the excuse of a drain
\* or of a launch that never authenticated if it has one.
LEMMA ListQueueShape ==
  ASSUME Desk, NEW w \in Workers, ListQueue(w)
  PROVE  \E q \in Process :
           /\ Alone(w, q) /\ Keeps(proc[w], q) /\ proc[w].phase = "sweep"
           /\ \/ /\ q.phase = "listed" /\ q.alive = proc[w].alive /\ q.excused = proc[w].excused
                 /\ Available(proc[w].alive) = {}
                 /\ q.list = {t \in Tasks : task[t].state = "queued"}
              \/ /\ q.phase = "leaving" /\ (proc[w].excused => q.excused)
                 /\ q.excused \/ Available(proc[w].alive) # {}
<1> DEFINE p == proc[w]
           sweeps == Available(p.alive) = {} /\ ~p.drain /\ p.auth
<1>1. PICK l \in SUBSET Tasks : l = {t \in Tasks : task[t].state = "queued"}
  OBVIOUS
<1>2. PICK e \in BOOLEAN : e = (p.excused \/ p.drain \/ ~p.auth)
  OBVIOUS
<1>3. /\ p \in Process /\ p.phase = "sweep"
      /\ UNCHANGED <<storeVars, shown, rows, fault, cutShort>>
      /\ Put(w, IF sweeps THEN [p EXCEPT !.phase = "listed", !.list = l]
                ELSE [p EXCEPT !.phase = "leaving", !.alive = {}, !.excused = e])
  BY <1>1, <1>2, DeskOf DEF ListQueue
<1>4. CASE sweeps
  <2> DEFINE q == [p EXCEPT !.phase = "listed", !.list = l]
  <2>1. Alone(w, q)
    BY <1>3, <1>4 DEF Alone
  <2>2. /\ q \in Process /\ q.phase = "listed" /\ q.list = l /\ q.alive = p.alive
        /\ q.excused = p.excused /\ Keeps(p, q)
    BY <1>3 DEF Process, Phase, Keeps
  <2> HIDE DEF q
  <2> QED BY <1>1, <1>3, <1>4, <2>1, <2>2
<1>5. CASE ~sweeps
  <2> DEFINE q == [p EXCEPT !.phase = "leaving", !.alive = {}, !.excused = e]
  <2>1. Alone(w, q)
    BY <1>3, <1>5 DEF Alone
  <2>2. q \in Process /\ q.phase = "leaving" /\ q.excused = e /\ Keeps(p, q)
    BY <1>3 DEF Process, Phase, Keeps
  <2> HIDE DEF q
  <2> QED BY <1>2, <1>3, <1>5, <2>1, <2>2
<1> QED BY <1>4, <1>5

LEMMA ReadAgainShape ==
  ASSUME Desk, NEW w \in Workers, ReadAgain(w)
  PROVE  \E q \in Process :
           /\ Alone(w, q) /\ Keeps(proc[w], q) /\ proc[w].phase = "listed"
           /\ q.phase = "sweeping" /\ q.alive = proc[w].alive /\ q.excused = proc[w].excused
           /\ q.list = {t \in proc[w].list : task[t].state = "queued"}
<1> DEFINE p == proc[w]
<1>1. PICK l \in SUBSET p.list : l = {t \in p.list : task[t].state = "queued"}
  OBVIOUS
<1> DEFINE q == [p EXCEPT !.phase = "sweeping", !.list = l]
<1>2. p \in Process /\ p.phase = "listed" /\ Alone(w, q)
  BY <1>1, DeskOf DEF ReadAgain, Alone
<1>3. /\ q \in Process /\ q.phase = "sweeping" /\ q.list = l /\ q.alive = p.alive
      /\ q.excused = p.excused /\ Keeps(p, q)
  BY <1>2 DEF Process, Phase, Keeps
<1> HIDE DEF q
<1> QED BY <1>1, <1>2, <1>3

LEMMA ExitShape ==
  ASSUME Desk, NEW w \in Workers, Exit(w)
  PROVE  \E q \in Process :
           /\ Alone(w, q) /\ q.phase = "exited" /\ q.claim = NoClaim /\ ~q.token /\ ~q.reassign
           /\ q.excused = proc[w].excused
           /\ proc[w].phase = "leaving" \/ (proc[w].phase = "sweeping" /\ proc[w].list = {})
<1> DEFINE q == [Fresh EXCEPT !.phase = "exited", !.excused = proc[w].excused]
<1>1. /\ Alone(w, q)
      /\ proc[w].phase = "leaving" \/ (proc[w].phase = "sweeping" /\ proc[w].list = {})
  BY DEF Exit, Alone
<1>2. proc[w].excused \in BOOLEAN
  BY DeskOf DEF Process
<1>3. /\ q \in Process /\ q.phase = "exited" /\ q.claim = NoClaim /\ ~q.token /\ ~q.reassign
      /\ q.excused = proc[w].excused
  BY <1>2, FreshProcess DEF Fresh, Process, Phase
<1> HIDE DEF q
<1> QED BY <1>1, <1>3

-----------------------------------------------------------------------------
(* The steps of a process that leave the store alone.                      *)

LEMMA DeskQuiet ==
  ASSUME Desk, UNCHANGED storeVars, OtherVars, NEW w \in Workers, NEW q \in Process, Put(w, q),
         Local(w, q, issued', fault'), View(w, q), Listed(q, task'), Follows(w, q)
  PROVE  Desk' /\ Spares
<1>1. StoreMoves /\ Spares
  BY StoreStill DEF OtherVars
<1> QED BY <1>1, DeskStep

\* A step that touches the processes alone, or one that only moves flags.
LEMMA OtherVarsStay ==
  ASSUME Desk, UNCHANGED <<shown, rows, fault, cutShort>>
  PROVE  OtherVars
BY DEF Desk, TdTypeOK, OtherVars

\* A stop, a signal, a drain, a lost browser, an abort.
LEMMA HearsDesk ==
  ASSUME Desk, NEW w \in Workers, NEW q \in Process, Alone(w, q), Hears(proc[w], q)
  PROVE  Desk' /\ Spares
<1>1. proc[w] \in Process /\ Local(w, proc[w], issued, fault) /\ View(w, proc[w]) /\ Listed(proc[w], task)
  BY DeskOf
<1>2. issued' = issued /\ fault' = fault /\ task' = task /\ OtherVars
  BY OtherVarsStay DEF Alone, storeVars
<1>3. Local(w, q, issued', fault')
  BY <1>1, <1>2 DEF Local, Hears
<1>4. View(w, q)
  BY <1>1 DEF View, Hears
<1>5. Listed(q, task')
  BY <1>1, <1>2 DEF Listed, Hears
<1>6. Follows(w, q)
  BY DEF Follows, Serves, Goes, Hears
<1> QED BY <1>2, <1>3, <1>4, <1>5, <1>6, DeskQuiet DEF Alone

\* A process that is over, or gone, has nothing in hand.
LEMMA GoneStep ==
  ASSUME Desk, UNCHANGED storeVars, OtherVars, NEW w \in Workers, NEW q \in Process, Put(w, q),
         q.phase \in {"exited", "dead", "killed"}, q.claim = NoClaim, ~q.token, ~q.reassign
  PROVE  Desk' /\ Spares
<1>1. Local(w, q, issued', fault')
  BY DEF Local, Hands, InLoop, InCleanup, Closing, CleanupPhase
<1>2. View(w, q) /\ Listed(q, task') /\ Follows(w, q)
  BY DEF View, Listed, Listing, Deciding, Follows, Serves, Goes, LoopPhase, CleanupPhase
<1> QED BY <1>1, <1>2, DeskQuiet

LEMMA ShowTyped ==
  ASSUME TdTypeOK, NEW t, NEW v \in Row, ShowTerminal(t, v) \/ ShowPending(t) \/ ShowNothing
  PROVE  shown' \in [Tasks -> Row] /\ rows' \in [Tasks -> Nat]
<1>1. CASE ShowTerminal(t, v)
  <2>1. shown' \in [Tasks -> Row]
    BY <1>1 DEF TdTypeOK, ShowTerminal
  <2>2. \A u \in Tasks : rows[u] + 1 \in Nat
    BY DEF TdTypeOK
  <2>3. rows' \in [Tasks -> Nat]
    BY <1>1, <2>2 DEF TdTypeOK, ShowTerminal
  <2> QED BY <2>1, <2>3
<1>2. CASE ShowPending(t)
  BY <1>2 DEF TdTypeOK, ShowPending, Row
<1>3. CASE ShowNothing
  BY <1>3 DEF TdTypeOK, ShowNothing
<1> QED BY <1>1, <1>2, <1>3

LEMMA CrashDesk ==
  ASSUME Desk, NEW w \in Workers, Crash(w)
  PROVE  Desk' /\ Spares
<1> DEFINE q == [Fresh EXCEPT !.phase = "dead"]
<1>1. Put(w, q) /\ UNCHANGED storeVars
  BY DEF Crash
<1>2. OtherVars
  BY DEF Crash, Fails, Desk, TdTypeOK, OtherVars, Fault
<1>3. q \in Process /\ q.phase = "dead" /\ q.claim = NoClaim /\ ~q.token /\ ~q.reassign
  BY FreshProcess DEF Fresh, Process, Phase
<1> HIDE DEF q
<1> QED BY <1>1, <1>2, <1>3, GoneStep

LEMMA SignalMidRunDesk ==
  ASSUME Desk, NEW w \in Workers, SignalMidRun(w)
  PROVE  Desk' /\ Spares
<1> DEFINE q == [Fresh EXCEPT !.phase = "killed"]
<1>1. /\ Put(w, q) /\ UNCHANGED <<storeVars, fault, cutShort>>
      /\ ShowTerminal(proc[w].claim.task, "failed")
  BY DEF SignalMidRun
<1>2. OtherVars
  BY <1>1, ShowTyped DEF Desk, TdTypeOK, OtherVars, Row
<1>3. q \in Process /\ q.phase = "killed" /\ q.claim = NoClaim /\ ~q.token /\ ~q.reassign
  BY FreshProcess DEF Fresh, Process, Phase
<1> HIDE DEF q
<1> QED BY <1>1, <1>2, <1>3, GoneStep

LEMMA ExitDesk ==
  ASSUME Desk, NEW w \in Workers, Exit(w)
  PROVE  Desk' /\ Spares
BY ExitShape, GoneStep, OtherVarsStay DEF Alone

\* A process that enters a phase where it decides nothing about its peers.
LEMMA PlainPhaseStep ==
  ASSUME Desk, UNCHANGED storeVars, OtherVars, NEW w \in Workers, NEW q \in Process, Put(w, q),
         q.phase \notin Deciding, Local(w, q, issued', fault'), Follows(w, q)
  PROVE  Desk' /\ Spares
<1>1. View(w, q) /\ Listed(q, task')
  BY DEF View, Listed, Listing, Deciding
<1> QED BY <1>1, DeskQuiet

LEMMA SpawnDesk ==
  ASSUME Desk, NEW w \in Workers, Spawn(w)
  PROVE  Desk' /\ Spares
<1>1. PICK q \in Process : /\ Alone(w, q) /\ Keeps(proc[w], q)
                           /\ proc[w].phase = "off" /\ q.phase = "launching"
  BY SpawnShape
<1>2. Local(w, proc[w], issued, fault)
  BY DeskOf
<1>3. Local(w, q, issued', fault')
  BY <1>1, <1>2 DEF Local, Keeps, Hands, InLoop, InCleanup, Closing, CleanupPhase
<1>4. Follows(w, q) /\ q.phase \notin Deciding
  BY <1>1 DEF Follows, Serves, LoopPhase, Deciding
<1> QED BY <1>1, <1>3, <1>4, PlainPhaseStep, OtherVarsStay DEF Alone

LEMMA LaunchedDesk ==
  ASSUME Desk, NEW w \in Workers, Launched(w)
  PROVE  Desk' /\ Spares
<1>1. PICK q \in Process : /\ Alone(w, q) /\ Keeps(proc[w], q)
                           /\ proc[w].phase = "launching" /\ q.excused = proc[w].excused
                           /\ q.phase = IF proc[w].stopping THEN "cleanup" ELSE "idle"
  BY LaunchedShape
<1>2. Local(w, proc[w], issued, fault)
  BY DeskOf
<1>3. Local(w, q, issued', fault')
  BY <1>1, <1>2 DEF Local, Keeps, Hands, InLoop, InCleanup, Closing, CleanupPhase
<1>4. \A x \in Workers : proc[x].phase \in Deciding => w \in proc[x].alive
  BY DEF Launched
<1>5. Follows(w, q) /\ q.phase \notin Deciding
  BY <1>1, <1>4 DEF Follows, Keeps, Serves, Goes, LoopPhase, Deciding
<1> QED BY <1>1, <1>3, <1>5, PlainPhaseStep, OtherVarsStay DEF Alone

\* A throw of the loop or of the launch, whatever its reason.
LEMMA ThrownStep ==
  ASSUME Desk, UNCHANGED storeVars, OtherVars, NEW w \in Workers, Put(w, Thrown(proc[w])),
         proc[w].phase \in LoopPhase, proc[w].phase # "closing"
  PROVE  Desk' /\ Spares
<1> DEFINE p == proc[w]
           q == Thrown(p)
<1>1. p \in Process /\ Local(w, p, issued, fault)
  BY DeskOf
<1>2. /\ q \in Process /\ q.phase = "cleanup" /\ q.claim = p.claim
      /\ q.token = p.token /\ q.stopping = p.stopping /\ q.force = p.force
      /\ q.reassign = p.reassign /\ (~p.stopping => q.excused)
  BY <1>1, ThrownProcess
<1> HIDE DEF q
<1>3. Local(w, q, issued', fault')
  BY <1>1, <1>2 DEF Local, Hands, InLoop, InCleanup, Closing, CleanupPhase, storeVars
<1>4. Follows(w, q) /\ q.phase \notin Deciding
  BY <1>2 DEF Follows, Serves, Goes, LoopPhase, Deciding
<1> QED BY <1>2, <1>3, <1>4, PlainPhaseStep DEF q

LEMMA LaunchFailsDesk ==
  ASSUME Desk, NEW w \in Workers, LaunchFails(w)
  PROVE  Desk' /\ Spares
<1>1. /\ proc[w].phase = "launching" /\ Put(w, Thrown(proc[w]))
      /\ UNCHANGED <<storeVars, shown, rows, fault, cutShort>>
  BY DEF LaunchFails
<1> QED BY <1>1, ThrownStep, OtherVarsStay DEF LoopPhase

LEMMA HandlerRefusesDesk ==
  ASSUME Desk, NEW w \in Workers, HandlerRefuses(w)
  PROVE  Desk' /\ Spares
<1>1. /\ proc[w].phase = "processing" /\ Put(w, Thrown(proc[w]))
      /\ UNCHANGED <<storeVars, shown, rows, fault, cutShort>>
  BY DEF HandlerRefuses
<1> QED BY <1>1, ThrownStep, OtherVarsStay DEF LoopPhase

LEMMA WedgeDesk ==
  ASSUME Desk, NEW w \in Workers, Wedge(w)
  PROVE  Desk' /\ Spares
<1>1. PICK q \in Process : /\ Alone(w, q) /\ Keeps(proc[w], q)
                           /\ proc[w].phase = "idle" /\ q.phase = "wedged"
  BY WedgeShape
<1>2. Local(w, proc[w], issued, fault)
  BY DeskOf
<1>3. Local(w, q, issued', fault')
  BY <1>1, <1>2 DEF Local, Keeps, Hands, InLoop, InCleanup, Closing, CleanupPhase
<1>4. Follows(w, q) /\ q.phase \notin Deciding
  BY <1>1 DEF Follows, Serves, Goes, LoopPhase, CleanupPhase, Deciding
<1> QED BY <1>1, <1>3, <1>4, PlainPhaseStep, OtherVarsStay DEF Alone

-----------------------------------------------------------------------------
(* The handler, and what becomes of the item in flight.                    *)

LEMMA HandlerEndsDesk ==
  ASSUME Desk, NEW w \in Workers, NEW v \in Verdict, HandlerEnds(w, v)
  PROVE  Desk' /\ Spares
<1> DEFINE p == proc[w]
<1>1. /\ p \in Process /\ Local(w, p, issued, fault) /\ p.phase = "processing"
      /\ UNCHANGED storeVars /\ cutShort' = cutShort /\ v \in Row
  BY DeskOf DEF HandlerEnds, Verdict, Row
<1>2. ASSUME NEW b \in BOOLEAN, NEW u \in Verdict,
             Put(w, [p EXCEPT !.phase = "returned", !.verdict = u, !.token = b]),
             u # "cancelled" /\ fault' # "append" => b, u = "cancelled" => p.aborted,
             OtherVars
      PROVE  Desk' /\ Spares
  <2> DEFINE q == [p EXCEPT !.phase = "returned", !.verdict = u, !.token = b]
  <2>1. /\ q \in Process /\ q.phase = "returned" /\ q.verdict = u /\ q.token = b
        /\ q.claim = p.claim /\ q.reassign = p.reassign /\ q.force = p.force
        /\ q.stopping = p.stopping /\ q.aborted = p.aborted
    BY <1>1 DEF Process, Phase
  <2> HIDE DEF q
  <2>2. Local(w, q, issued', fault')
    BY <1>1, <1>2, <2>1 DEF Local, Hands, InLoop, InCleanup, Closing, CleanupPhase, storeVars
  <2>3. Follows(w, q) /\ q.phase \notin Deciding
    BY <1>1, <2>1 DEF Follows, Serves, Goes, LoopPhase, CleanupPhase, Deciding
  <2> QED BY <1>1, <1>2, <2>1, <2>2, <2>3, PlainPhaseStep DEF q
<1>3. ~p.token /\ p.token = FALSE
  BY <1>1 DEF Local, Process
<1>4. OtherVars
  <2>1. \E u \in Row : ShowTerminal(p.claim.task, u) \/ ShowNothing
    BY <1>1 DEF HandlerEnds, Row
  <2>2. shown' \in [Tasks -> Row] /\ rows' \in [Tasks -> Nat]
    BY <2>1, ShowTyped DEF Desk
  <2>3. fault' = fault \/ (fault = "none" /\ fault' = "append")
    BY DEF HandlerEnds, Works, Fails
  <2> QED BY <1>1, <2>2, <2>3 DEF OtherVars, Desk, TdTypeOK, Fault
<1>5. CASE v = "cancelled" /\ Put(w, [p EXCEPT !.phase = "returned", !.verdict = v])
           /\ p.aborted
  <2>1. [p EXCEPT !.phase = "returned", !.verdict = v]
          = [p EXCEPT !.phase = "returned", !.verdict = v, !.token = FALSE]
    BY <1>1, <1>3 DEF Process
  <2> QED BY <1>2, <1>4, <1>5, <2>1
<1>6. CASE v # "cancelled"
           /\ Put(w, [[p EXCEPT !.phase = "returned", !.verdict = v] EXCEPT !.token = TRUE])
  BY <1>2, <1>4, <1>6
<1>7. CASE v # "cancelled"
           /\ Put(w, [[p EXCEPT !.phase = "returned", !.verdict = v]
                        EXCEPT !.token = TRUE, !.verdict = "failed"])
  <2>1. [[p EXCEPT !.phase = "returned", !.verdict = v] EXCEPT !.token = TRUE, !.verdict = "failed"]
          = [p EXCEPT !.phase = "returned", !.verdict = "failed", !.token = TRUE]
    BY <1>1 DEF Process
  <2>2. "failed" \in Verdict
    BY DEF Verdict
  <2> QED BY <1>2, <1>4, <1>7, <2>1, <2>2
<1>8. CASE v = "failed" /\ fault' = "append"
           /\ Put(w, [p EXCEPT !.phase = "returned", !.verdict = v])
  <2>1. [p EXCEPT !.phase = "returned", !.verdict = v]
          = [p EXCEPT !.phase = "returned", !.verdict = v, !.token = FALSE]
    BY <1>1, <1>3 DEF Process
  <2> QED BY <1>2, <1>4, <1>8, <2>1
<1> QED BY <1>5, <1>6, <1>7, <1>8 DEF HandlerEnds, Fails

\* A run is let go: the loop turns.
LEMMA TurnStep ==
  ASSUME Desk, StoreMoves, OtherVars, NEW w \in Workers, Put(w, Turn(proc[w])),
         proc[w].phase \in LoopPhase \ {"launching"}
  PROVE  Desk'
<1> DEFINE p == proc[w]
           q == Turn(p)
<1>1. p \in Process /\ Local(w, p, issued, fault)
  BY DeskOf
<1>2. /\ q \in Process /\ q.claim = NoClaim /\ q.token = FALSE /\ q.verdict = "none"
      /\ q.phase = IF p.stopping THEN "cleanup" ELSE "idle"
      /\ q.stopping = p.stopping /\ q.force = p.force
      /\ q.reassign = p.reassign /\ q.excused = p.excused
  BY <1>1, TurnProcess
<1> HIDE DEF q
<1>3. Local(w, q, issued', fault')
  BY <1>1, <1>2 DEF Local, Hands, InLoop, InCleanup, Closing, CleanupPhase
<1>4. View(w, q) /\ Listed(q, task')
  BY <1>2 DEF View, Listed, Listing, Deciding
<1>5. Follows(w, q)
  BY <1>2 DEF Follows, Serves, Goes, LoopPhase, CleanupPhase
<1> QED BY <1>2, <1>3, <1>4, <1>5, DeskStep DEF q

LEMMA EndNormallyDesk ==
  ASSUME Desk, NEW w \in Workers, EndNormally(w)
  PROVE  Desk' /\ Spares
<1> DEFINE p == proc[w]
<1>1. /\ p.phase = "returned" /\ UNCHANGED <<shown, rows, fault, cutShort>>
      /\ Put(w, Turn(p))
      /\ MarkTerminal(p.claim, p.verdict) \/ UNCHANGED storeVars
  BY DEF EndNormally
<1>2. p.claim \in issued /\ p.verdict \in Verdict
  BY <1>1, DeskOf DEF Local, Hands, InLoop
<1>3. StoreMoves /\ Spares
  BY <1>1, <1>2, TerminalMoves, StoreStill
<1>4. OtherVars
  BY <1>1, OtherVarsStay
<1> QED BY <1>1, <1>3, <1>4, TurnStep DEF LoopPhase

LEMMA LookForPeersDesk ==
  ASSUME Desk, NEW w \in Workers, LookForPeers(w)
  PROVE  Desk' /\ Spares
<1>1. PICK q \in Process :
        /\ Alone(w, q) /\ Keeps(proc[w], q)
        /\ proc[w].phase = "returned" /\ q.phase = "acting" /\ q.alive \in AliveViews(w)
  BY LookForPeersShape
<1>2. Local(w, proc[w], issued, fault) /\ issued' = issued /\ fault' = fault
  BY <1>1, DeskOf DEF Alone, storeVars
<1>3. Local(w, q, issued', fault')
  BY <1>1, <1>2 DEF Local, Keeps, Hands, InLoop, InCleanup, Closing, CleanupPhase
<1>4. View(w, q) /\ Listed(q, task') /\ Follows(w, q)
  BY <1>1, AliveSeen DEF View, Keeps, Listed, Listing, Follows, Serves, Goes, LoopPhase
<1> QED BY <1>1, <1>3, <1>4, DeskQuiet, OtherVarsStay DEF Alone

LEMMA FindPeersDesk ==
  ASSUME Desk, NEW w \in Workers, FindPeers(w)
  PROVE  Desk' /\ Spares
<1>1. PICK q \in Process :
        /\ Alone(w, q) /\ proc[w].phase = "cleanup" /\ q.alive \in AliveViews(w)
        /\ q.stopping = proc[w].stopping /\ q.excused = proc[w].excused
        /\ q.reassign = proc[w].reassign /\ q.force = proc[w].force
        /\ \/ q.phase = "sweep" /\ q.claim = NoClaim /\ ~q.token
           \/ q.phase = "inflight" /\ proc[w].claim # NoClaim /\ Keeps(proc[w], q)
  BY FindPeersShape
<1>2. Local(w, proc[w], issued, fault) /\ issued' = issued /\ fault' = fault
  BY <1>1, DeskOf DEF Alone, storeVars
<1>3. Local(w, q, issued', fault')
  BY <1>1, <1>2 DEF Local, Keeps, Hands, InLoop, InCleanup, Closing, CleanupPhase
<1>4. View(w, q) /\ Listed(q, task') /\ Follows(w, q)
  BY <1>1, AliveSeen DEF View, Listed, Listing, Follows, Serves, Goes, LoopPhase, CleanupPhase
<1> QED BY <1>1, <1>3, <1>4, DeskQuiet, OtherVarsStay DEF Alone

\* The run of a cleanup is let go: the sweep comes next, with the peers it has.
LEMMA SweptStep ==
  ASSUME Desk, StoreMoves, OtherVars, NEW w \in Workers, Put(w, Swept(proc[w])),
         proc[w].phase \in {"inflight", "closing2"}
  PROVE  Desk'
<1> DEFINE p == proc[w]
           q == Swept(p)
<1>1. p \in Process /\ Local(w, p, issued, fault) /\ View(w, p)
  BY DeskOf
<1>2. /\ q \in Process /\ q.claim = NoClaim /\ q.token = FALSE /\ q.verdict = "none"
      /\ q.phase = "sweep" /\ q.alive = p.alive
      /\ q.stopping = p.stopping /\ q.force = p.force
      /\ q.reassign = p.reassign /\ q.excused = p.excused
  BY <1>1, SweptProcess
<1> HIDE DEF q
<1>3. Local(w, q, issued', fault')
  BY <1>1, <1>2 DEF Local, Hands, InLoop, InCleanup, Closing, CleanupPhase
<1>4. View(w, q) /\ Listed(q, task')
  BY <1>1, <1>2 DEF View, Listed, Listing, Deciding
<1>5. Follows(w, q)
  BY <1>2 DEF Follows, Serves, Goes, LoopPhase, CleanupPhase
<1> QED BY <1>2, <1>3, <1>4, <1>5, DeskStep DEF q

\* The phase of a run that is closed or given up moves on, its claim kept.
LEMMA ClosingStep ==
  ASSUME Desk, StoreMoves, OtherVars, NEW w \in Workers,
         NEW ph \in {"closing", "closing2", "leaving"}, NEW v \in Verdict \cup {"none"},
         Put(w, [proc[w] EXCEPT !.phase = ph, !.verdict = v]),
         IF ph = "closing" THEN ActsInLoop(proc[w]) ELSE proc[w].phase = "inflight",
         ph = "closing" => v \in {"failed", "cancelled"}
  PROVE  Desk'
<1> DEFINE p == proc[w]
           q == [p EXCEPT !.phase = ph, !.verdict = v]
<1>1. p \in Process /\ Local(w, p, issued, fault) /\ View(w, p)
  BY DeskOf
<1>2. /\ q \in Process /\ q.phase = ph /\ q.verdict = v /\ q.alive = p.alive
      /\ q.claim = p.claim /\ q.token = p.token /\ q.excused = p.excused
      /\ q.stopping = p.stopping /\ q.force = p.force /\ q.reassign = p.reassign
  BY <1>1 DEF Process, Phase
<1> HIDE DEF q
<1>3. Local(w, q, issued', fault')
  BY <1>1, <1>2 DEF Local, Hands, InLoop, InCleanup, Closing, CleanupPhase, ActsInLoop,
     StoreMoves
<1>4. View(w, q) /\ Listed(q, task')
  BY <1>1, <1>2 DEF View, Listed, Listing, Deciding
<1>5. Follows(w, q)
  BY <1>2 DEF Follows, Serves, Goes, LoopPhase, CleanupPhase, ActsInLoop
<1> QED BY <1>2, <1>3, <1>4, <1>5, DeskStep DEF q

\* A re-queue, or the throw of one: the process becomes q if it lands.
LEMMA HandBackMoves ==
  ASSUME Desk, NEW w \in Workers, NEW q, NEW threw, NEW cut \in BOOLEAN,
         proc[w].claim \in issued, HandBack(w, q, threw, cut)
  PROVE  /\ StoreMoves /\ Spares /\ OtherVars
         /\ \/ Put(w, q)
            \/ Put(w, threw) /\ UNCHANGED storeVars
<1> DEFINE c == proc[w].claim
<1>1. /\ (ReturnToQueued(c) /\ UNCHANGED fault) \/ UNCHANGED storeVars
      /\ fault' = fault \/ (fault = "none" /\ fault' = "store")
      /\ ShowPending(c.task) \/ ShowNothing
      /\ cutShort' \in {cutShort, cut}
      /\ Put(w, q) \/ (Put(w, threw) /\ UNCHANGED storeVars)
  BY DEF HandBack, Works, Fails
<1>2. StoreMoves /\ Spares
  BY <1>1, RequeueMoves, StoreStill
<1>3. shown' \in [Tasks -> Row] /\ rows' \in [Tasks -> Nat]
  BY <1>1, ShowTyped DEF Desk, Row
<1>4. OtherVars
  BY <1>1, <1>3 DEF OtherVars, Desk, TdTypeOK, Fault
<1> QED BY <1>1, <1>2, <1>4

LEMMA LoopReassignsDesk ==
  ASSUME Desk, NEW w \in Workers, LoopReassigns(w)
  PROVE  Desk' /\ Spares
<1>1. /\ proc[w].phase \in {"acting", "returned"} /\ cutShort \in BOOLEAN
      /\ HandBack(w, Turn(proc[w]), Thrown(proc[w]), cutShort)
  BY DEF LoopReassigns, ActsInLoop, Desk, TdTypeOK
<1>2. proc[w].claim \in issued
  BY <1>1, DeskOf DEF Local, Hands, InLoop
<1>3. /\ StoreMoves /\ Spares /\ OtherVars
      /\ \/ Put(w, Turn(proc[w]))
         \/ Put(w, Thrown(proc[w])) /\ UNCHANGED storeVars
  BY <1>1, <1>2, HandBackMoves
<1> QED BY <1>1, <1>3, TurnStep, ThrownStep DEF LoopPhase

LEMMA CleanupReassignsDesk ==
  ASSUME Desk, NEW w \in Workers, CleanupReassigns(w)
  PROVE  Desk' /\ Spares
<1> DEFINE p == proc[w]
           threw == [p EXCEPT !.phase = "leaving"]
<1>1. p.phase = "inflight" /\ HandBack(w, Swept(p), threw, TRUE)
  BY DEF CleanupReassigns
<1>2. p.claim \in issued /\ p \in Process
  BY <1>1, DeskOf DEF Local, Hands, InCleanup
<1>3. /\ StoreMoves /\ Spares /\ OtherVars
      /\ Put(w, Swept(p)) \/ Put(w, threw)
  <2> HIDE DEF threw
  <2> QED BY <1>1, <1>2, HandBackMoves
<1>4. threw = [p EXCEPT !.phase = "leaving", !.verdict = p.verdict] /\ p.verdict \in Verdict \cup {"none"}
  BY <1>2 DEF Process
<1> QED BY <1>1, <1>3, <1>4, SweptStep, ClosingStep

LEMMA LoopClosesDesk ==
  ASSUME Desk, NEW w \in Workers, LoopCloses(w)
  PROVE  Desk' /\ Spares
<1> DEFINE p == proc[w]
           v == IF Transition(p) = "fail" THEN "failed" ELSE "cancelled"
           c == p.claim
<1>1. /\ ActsInLoop(p) /\ UNCHANGED <<shown, rows, cutShort>>
      /\ \/ MarkTerminal(c, v) /\ Put(w, [p EXCEPT !.phase = "closing", !.verdict = v])
            /\ fault' = fault
         \/ UNCHANGED storeVars /\ Put(w, Turn(p)) /\ fault' = fault
         \/ UNCHANGED storeVars /\ Put(w, Thrown(p)) /\ fault' = fault
         \/ UNCHANGED storeVars /\ Put(w, Thrown(p)) /\ fault = "none" /\ fault' = "store"
  BY DEF LoopCloses, Works, Fails
<1>2. c \in issued /\ p.phase \in {"acting", "returned"}
  BY <1>1, DeskOf DEF Local, Hands, InLoop, ActsInLoop
<1>3. v \in {"failed", "cancelled"} /\ v \in Verdict
  BY DEF Verdict
<1> HIDE DEF v
<1>4. StoreMoves /\ Spares
  BY <1>1, <1>2, <1>3, TerminalMoves, StoreStill
<1>5. OtherVars
  BY <1>1 DEF OtherVars, Desk, TdTypeOK, Fault
<1> QED BY <1>1, <1>2, <1>3, <1>4, <1>5, TurnStep, ThrownStep, ClosingStep DEF LoopPhase

LEMMA CleanupClosesDesk ==
  ASSUME Desk, NEW w \in Workers, CleanupCloses(w)
  PROVE  Desk' /\ Spares
<1> DEFINE p == proc[w]
           v == IF Transition(p) = "fail" THEN "failed" ELSE "cancelled"
           c == p.claim
<1>1. /\ p.phase = "inflight" /\ UNCHANGED <<shown, rows, cutShort>>
      /\ \/ MarkTerminal(c, v) /\ fault' = fault
         \/ UNCHANGED storeVars /\ fault' = fault
         \/ UNCHANGED storeVars /\ fault = "none" /\ fault' = "store"
         \/ MarkBlockedUncertain(c) /\ fault = "none" /\ fault' = "store"
      /\ \/ Put(w, [p EXCEPT !.phase = "closing2", !.verdict = v])
         \/ Put(w, [p EXCEPT !.phase = "closing2", !.verdict = "none"])
         \/ Put(w, Swept(p))
  BY DEF CleanupCloses, Works, Fails
<1>2. c \in issued
  BY <1>1, DeskOf DEF Local, Hands, InCleanup
<1>3. v \in Verdict
  BY DEF Verdict
<1> HIDE DEF v
<1>4. StoreMoves /\ Spares
  BY <1>1, <1>2, <1>3, TerminalMoves, StoreStill, BlockedMoves
<1>5. OtherVars
  BY <1>1 DEF OtherVars, Desk, TdTypeOK, Fault
<1> QED BY <1>1, <1>3, <1>4, <1>5, SweptStep, ClosingStep

\* The row of a run, whether it is written, throws or is left to another.
LEMMA WriteRowVars ==
  ASSUME Desk, NEW w \in Workers, NEW v \in Row, NEW a, NEW b, NEW d, WriteRow(w, v, a, b, d),
         UNCHANGED cutShort
  PROVE  OtherVars /\ (Put(w, a) \/ Put(w, b) \/ Put(w, d))
<1>1. /\ Put(w, a) \/ Put(w, b) \/ Put(w, d)
      /\ ShowTerminal(proc[w].claim.task, v) \/ ShowNothing
      /\ fault' = fault \/ (fault = "none" /\ fault' = "append")
  BY DEF WriteRow, Works, Fails
<1>2. shown' \in [Tasks -> Row] /\ rows' \in [Tasks -> Nat]
  BY <1>1, ShowTyped DEF Desk
<1> QED BY <1>1, <1>2 DEF OtherVars, Desk, TdTypeOK, Fault

LEMMA LoopShowsDesk ==
  ASSUME Desk, NEW w \in Workers, LoopShows(w)
  PROVE  Desk' /\ Spares
<1> DEFINE p == proc[w]
           l == LetGo(p)
           t == Thrown(l)
<1>1. /\ p \in Process /\ Local(w, p, issued, fault) /\ p.phase = "closing"
      /\ UNCHANGED storeVars /\ UNCHANGED cutShort
      /\ WriteRow(w, p.verdict, Turn(p), t, Turn(p))
  BY DeskOf DEF LoopShows
<1>2. p.verdict \in Row
  BY <1>1 DEF Local, Row
<1>3. OtherVars /\ (Put(w, Turn(p)) \/ Put(w, t))
  <2> HIDE DEF t
  <2> QED BY <1>1, <1>2, WriteRowVars
<1>4. StoreMoves /\ Spares
  BY <1>1, <1>3, StoreStill DEF OtherVars
<1>5. /\ t \in Process /\ t.phase = "cleanup" /\ t.claim = NoClaim
      /\ t.token = FALSE /\ t.stopping = p.stopping /\ t.force = p.force
      /\ t.reassign = p.reassign /\ (~p.stopping => t.excused)
  <2>1. /\ l \in Process /\ l.claim = NoClaim /\ l.token = FALSE /\ l.stopping = p.stopping
        /\ l.force = p.force /\ l.reassign = p.reassign
    BY <1>1, LetGoProcess
  <2> HIDE DEF l
  <2> QED BY <2>1, ThrownProcess
<1>6. CASE Put(w, Turn(p))
  BY <1>1, <1>3, <1>4, <1>6, TurnStep DEF LoopPhase
<1>7. CASE Put(w, t)
  <2> HIDE DEF t
  <2>1. Local(w, t, issued', fault')
    BY <1>1, <1>5 DEF Local, Hands, InLoop, InCleanup, Closing, CleanupPhase
  <2>2. Follows(w, t) /\ t.phase \notin Deciding
    BY <1>1, <1>5 DEF Follows, Serves, Goes, LoopPhase, Deciding
  <2> QED BY <1>1, <1>3, <1>5, <1>7, <2>1, <2>2, PlainPhaseStep
<1> QED BY <1>3, <1>6, <1>7

LEMMA CleanupShowsDesk ==
  ASSUME Desk, NEW w \in Workers, CleanupShows(w)
  PROVE  Desk' /\ Spares
<1> DEFINE p == proc[w]
           s == Swept(p)
<1>1. /\ p \in Process /\ p.phase = "closing2" /\ UNCHANGED storeVars /\ UNCHANGED cutShort
      /\ IF p.verdict # "none" THEN WriteRow(w, p.verdict, s, s, s)
         ELSE ShowTerminal(p.claim.task, "failed") /\ Put(w, s) /\ Works
  BY DeskOf DEF CleanupShows
<1> HIDE DEF s
<1>2. OtherVars /\ Put(w, s)
  <2>1. CASE p.verdict # "none"
    <3>1. p.verdict \in Row
      BY <1>1, <2>1 DEF Process, Verdict, Row
    <3> QED BY <1>1, <2>1, <3>1, WriteRowVars
  <2>2. CASE p.verdict = "none"
    <3>1. shown' \in [Tasks -> Row] /\ rows' \in [Tasks -> Nat]
      BY <1>1, <2>2, ShowTyped DEF Desk, Row
    <3> QED BY <1>1, <2>2, <3>1 DEF OtherVars, Works, Desk, TdTypeOK
  <2> QED BY <2>1, <2>2
<1>3. StoreMoves /\ Spares
  BY <1>1, <1>2, StoreStill DEF OtherVars
<1> QED BY <1>1, <1>2, <1>3, SweptStep DEF s

-----------------------------------------------------------------------------
(* The sweep of the queue.                                                 *)

\* Only a daemon whose peers will do no more work lists the queue.
LEMMA ListQueueDesk ==
  ASSUME Desk, NEW w \in Workers, ListQueue(w)
  PROVE  Desk' /\ Spares
<1>1. PICK q \in Process :
        /\ Alone(w, q) /\ Keeps(proc[w], q) /\ proc[w].phase = "sweep"
        /\ \/ /\ q.phase = "listed" /\ q.alive = proc[w].alive /\ q.excused = proc[w].excused
              /\ Available(proc[w].alive) = {}
              /\ q.list = {t \in Tasks : task[t].state = "queued"}
           \/ q.phase = "leaving" /\ (proc[w].excused => q.excused)
  BY ListQueueShape
<1>2. /\ Local(w, proc[w], issued, fault) /\ View(w, proc[w])
      /\ issued' = issued /\ fault' = fault /\ task' = task
  BY <1>1, DeskOf DEF Alone, storeVars
<1>3. Local(w, q, issued', fault')
  BY <1>1, <1>2 DEF Local, Keeps, Hands, InLoop, InCleanup, Closing, CleanupPhase
<1>4. View(w, q)
  <2>1. Available(proc[w].alive) = {} => \A x \in proc[w].alive : ~Goes(proc[x])
    BY DEF Available, Goes
  <2> QED BY <1>1, <1>2, <2>1 DEF View, Deciding, Listing
<1>5. Listed(q, task') /\ Follows(w, q)
  BY <1>1, <1>2 DEF Keeps, Listed, Listable, Listing, Follows, Serves, Goes, LoopPhase, CleanupPhase
<1> QED BY <1>1, <1>3, <1>4, <1>5, DeskQuiet, OtherVarsStay DEF Alone

\* A sweep goes on with less of its list.
LEMMA SweepStep ==
  ASSUME Desk, StoreMoves, OtherVars, NEW w \in Workers, NEW q \in Process, Put(w, q),
         proc[w].phase \in Listing, q.phase \in Listing, q.list \subseteq proc[w].list,
         q.alive = proc[w].alive, q.claim = proc[w].claim, q.token = proc[w].token,
         q.excused = proc[w].excused, q.stopping = proc[w].stopping,
         q.force = proc[w].force, q.reassign = proc[w].reassign
  PROVE  Desk'
<1> DEFINE p == proc[w]
<1>1. p \in Process /\ Local(w, p, issued, fault) /\ View(w, p)
  BY DeskOf
<1>2. Local(w, q, issued', fault')
  BY <1>1 DEF Local, Hands, InLoop, InCleanup, Closing, CleanupPhase, Listing
<1>3. View(w, q) /\ Follows(w, q)
  BY <1>1 DEF View, Deciding, Listing, Follows, Serves, Goes, LoopPhase, CleanupPhase
<1>4. Listed(q, task')
  BY DEF Listed, StoreMoves, ListsHold
<1> QED BY <1>2, <1>3, <1>4, DeskStep

LEMMA ReadAgainDesk ==
  ASSUME Desk, NEW w \in Workers, ReadAgain(w)
  PROVE  Desk' /\ Spares
<1>1. PICK q \in Process :
        /\ Alone(w, q) /\ Keeps(proc[w], q) /\ proc[w].phase = "listed"
        /\ q.phase = "sweeping" /\ q.alive = proc[w].alive /\ q.excused = proc[w].excused
        /\ q.list \subseteq proc[w].list
  BY ReadAgainShape
<1>2. StoreMoves /\ Spares /\ OtherVars
  BY <1>1, StoreStill, OtherVarsStay DEF Alone
<1> QED BY <1>1, <1>2, SweepStep DEF Listing, Alone, Keeps

\* A sweep that fails a task has seen every daemon that serves, and none of them will.
LEMMA FailQueuedDesk ==
  ASSUME Desk, NEW w \in Workers, NEW t \in Tasks, FailQueued(w, t)
  PROVE  Desk' /\ Spares
<1> DEFINE p == proc[w]
<1>1. /\ p \in Process /\ p.phase = "sweeping" /\ View(w, p) /\ cutShort' = cutShort
      /\ \/ FailIfActive(t, task[t].cur) /\ ShowTerminal(t, "failed") /\ fault' = fault
         \/ FailIfActive(t, task[t].cur) /\ ShowNothing /\ fault = "none" /\ fault' = "append"
         \/ UNCHANGED storeVars /\ ShowNothing /\ fault' = fault
         \/ UNCHANGED storeVars /\ ShowNothing /\ fault = "none" /\ fault' = "store"
  BY DeskOf DEF FailQueued, Fails, Works
<1>2. PICK l \in SUBSET p.list : l = p.list \ {t}
  OBVIOUS
<1> DEFINE q == [p EXCEPT !.list = l]
<1>3. Put(w, q)
  BY <1>2 DEF FailQueued
<1>4. /\ q \in Process /\ q.phase = "sweeping" /\ q.list = l /\ q.alive = p.alive
      /\ q.claim = p.claim /\ q.token = p.token /\ q.excused = p.excused
      /\ q.stopping = p.stopping /\ q.force = p.force /\ q.reassign = p.reassign
  BY <1>1 DEF Process
<1> HIDE DEF q
<1>5. shown' \in [Tasks -> Row] /\ rows' \in [Tasks -> Nat]
  <2>1. ShowTerminal(t, "failed") \/ ShowNothing
    BY <1>1
  <2> QED BY <2>1, ShowTyped DEF Desk, Row
<1>6. OtherVars
  BY <1>1, <1>5 DEF OtherVars, Desk, TdTypeOK, Fault
<1>7. StoreMoves
  BY <1>1, FailActiveMoves, StoreStill
<1>8. Spares
  <2>1. ASSUME NEW x \in Workers, Serving(x) PROVE FALSE
    <3>1. Serves(proc[x]) /\ Goes(proc[x]) /\ x # w
      BY <1>1, <2>1 DEF Serving, Serves, Goes, LoopPhase
    <3>2. x \in p.alive /\ p.phase \in Listing
      BY <1>1, <3>1 DEF View, Deciding, Listing
    <3> QED BY <1>1, <3>1, <3>2 DEF View, Deciding
  <2> QED BY <2>1 DEF Spares
<1>9. Desk'
  BY <1>1, <1>2, <1>3, <1>4, <1>6, <1>7, SweepStep DEF Listing
<1> QED BY <1>8, <1>9

-----------------------------------------------------------------------------
(* The steps that leave the processes alone, and the claim.                *)

LEMMA SubmitDesk ==
  ASSUME Desk, NEW t \in Tasks, Submit(t)
  PROVE  Desk' /\ Spares
<1>1. Enqueue(t) /\ UNCHANGED <<proc, shown, rows, fault, cutShort>>
  BY DEF Submit, procVars
<1> QED BY <1>1, EnqueueMoves, DeskStill, OtherVarsStay

LEMMA CancelRunningDesk ==
  ASSUME Desk, NEW t \in Tasks, CancelRunning(t)
  PROVE  Desk' /\ Spares
<1>1. RequestCancelRunning(t) /\ UNCHANGED <<proc, shown, rows, fault, cutShort>>
  BY DEF CancelRunning, procVars
<1> QED BY <1>1, RequestCancelMoves, DeskStill, OtherVarsStay

LEMMA CancelQueuedDesk ==
  ASSUME Desk, NEW t \in Tasks, CancelQueued(t)
  PROVE  Desk' /\ Spares
<1>1. /\ RequestCancelIdle(t) /\ UNCHANGED <<proc, fault, cutShort>>
      /\ ShowTerminal(t, "cancelled")
  BY DEF CancelQueued
<1>2. OtherVars
  BY <1>1, ShowTyped DEF OtherVars, Desk, TdTypeOK, Row
<1> QED BY <1>1, <1>2, CancelIdleMoves, DeskStill

LEMMA RecoverDesk ==
  ASSUME Desk, NEW w \in Workers, NEW stale \in SUBSET Workers, Recover(w, stale)
  PROVE  Desk' /\ Spares
<1> DEFINE seen == [t \in Tasks |-> IF shown[t] = "pending" THEN "none" ELSE shown[t]]
<1>1. /\ RecoverOrphanedClaims(Running \ stale, seen) /\ UNCHANGED <<proc, shown, rows, cutShort>>
      /\ fault' = fault \/ (fault = "none" /\ fault' = "stall")
  BY DEF Recover, Fails, Works
<1>2. Running \ stale \in SUBSET Workers /\ seen \in [Tasks -> Verdict \cup {"none"}]
  BY DEF Running, Desk, TdTypeOK, Row, Verdict
<1>3. OtherVars
  BY <1>1 DEF OtherVars, Desk, TdTypeOK, Fault
<1> HIDE DEF seen
<1> QED BY <1>1, <1>2, <1>3, RecoverMoves, DeskStill

LEMMA TakeDesk ==
  ASSUME Desk, NEW w \in Workers, NEW t \in Tasks, Take(w, t)
  PROVE  Desk' /\ Spares
<1> DEFINE p == proc[w]
           c == TakenClaim(w, t)
           q == [p EXCEPT !.phase = "processing", !.claim = c]
<1>1. /\ p \in Process /\ Local(w, p, issued, fault) /\ p.phase = "idle" /\ ~p.stopping
      /\ Put(w, q) /\ UNCHANGED <<shown, rows, fault, cutShort>>
      /\ c \in issued'
  <2>1. c \in issued'
    BY TakeWrites
  <2> QED BY <2>1, DeskOf DEF Take, TakenClaim
<1>2. c \in Claim /\ c.worker = w
  <2>1. StoreInv /\ task[t].state = "queued"
    BY TakeWrites DEF Desk
  <2> QED BY <2>1, Taken
<1> HIDE DEF c
<1>3. /\ q \in Process /\ q.phase = "processing" /\ q.claim = c /\ q.token = p.token
      /\ q.stopping = p.stopping /\ q.force = p.force /\ q.reassign = p.reassign
  BY <1>1, <1>2 DEF Process, Phase
<1> HIDE DEF q
<1>4. Local(w, q, issued', fault')
  BY <1>1, <1>2, <1>3, TeardownAssumption DEF Local, Hands, InLoop, InCleanup, Closing, CleanupPhase
<1>5. View(w, q) /\ Listed(q, task') /\ Follows(w, q)
  BY <1>1, <1>3 DEF View, Listed, Listing, Deciding, Follows, Serves, Goes, LoopPhase
<1> QED BY <1>1, <1>3, <1>4, <1>5, TakeMoves, DeskStep, OtherVarsStay

-----------------------------------------------------------------------------
LEMMA DeskInit == TdInit => Desk
<1> SUFFICES ASSUME TdInit PROVE Desk
  OBVIOUS
<1>1. StoreInv
  BY StoreInvInit DEF TdInit
<1>2. TdTypeOK
  BY <1>1, FreshProcess DEF TdInit, TdTypeOK, StoreInv, Row, Fault
<1>3. ASSUME NEW w \in Workers
      PROVE  Local(w, proc[w], issued, fault) /\ View(w, proc[w]) /\ Listed(proc[w], task)
  <2>1. /\ proc[w].phase = "off" /\ proc[w].claim = NoClaim /\ ~proc[w].token
        /\ ~proc[w].reassign
    BY DEF TdInit, Fresh
  <2> QED BY <2>1 DEF Local, View, Listed, Listing, Deciding, Hands, InLoop, InCleanup, Closing,
          CleanupPhase
<1>4. ASSUME NEW t \in Tasks PROVE Plain(t)
  BY DEF TdInit, StoreInit, AbsentRow, Plain
<1> QED BY <1>1, <1>2, <1>3, <1>4 DEF Desk

LEMMA WorkDesk == Desk /\ WorkNext => Desk' /\ Spares
BY SubmitDesk, CancelRunningDesk, CancelQueuedDesk, SpawnDesk, LaunchedDesk, LaunchFailsDesk,
   RecoverDesk, TakeDesk, HandlerEndsDesk, HandlerRefusesDesk, EndNormallyDesk DEF WorkNext

LEMMA StopDeskStep == Desk /\ StopNext => Desk' /\ Spares
BY StopShape, SignalShape, DrainShape, BrowserLostShape, AbortShape, HearsDesk,
   SignalMidRunDesk, CrashDesk, WedgeDesk DEF StopNext

LEMMA TeardownDesk == Desk /\ TeardownNext => Desk' /\ Spares
BY LookForPeersDesk, LoopReassignsDesk, LoopClosesDesk, LoopShowsDesk, FindPeersDesk,
   CleanupReassignsDesk, CleanupClosesDesk, CleanupShowsDesk, ListQueueDesk, ReadAgainDesk,
   ExitDesk, FailQueuedDesk DEF TeardownNext

LEMMA DeskNext == Desk /\ [TdNext]_tdVars => Desk' /\ Spares
<1> SUFFICES ASSUME Desk, [TdNext]_tdVars PROVE Desk' /\ Spares
  OBVIOUS
<1>1. CASE UNCHANGED tdVars
  <2>1. UNCHANGED <<storeVars, proc, shown, rows, fault, cutShort>>
    BY <1>1 DEF tdVars, storeVars
  <2> QED BY <2>1, StoreStill, DeskStill, OtherVarsStay
<1> QED BY <1>1, WorkDesk, StopDeskStep, TeardownDesk DEF TdNext

\* Everything the processes and the store hold is of its type, whatever stops meet.
THEOREM TeardownTypeCorrect == TdSpec => []TdTypeOK
<1>1. Desk => TdTypeOK
  BY DEF Desk
<1> QED BY <1>1, DeskInit, DeskNext, PTL DEF TdSpec

\* The last daemon out fails queued work only when no daemon is there to claim it:
\* whoever serves was seen by every sweep, and stays seen until the sweep is over.
THEOREM QueueIsLeftToPeers == TdSpec => PeersSpared
<1>1. Desk /\ [TdNext]_tdVars =>
        [\A t \in Tasks :
           task[t].state = "queued" /\ task'[t].state = "failed"
           => \A p \in Workers : ~Serving(p)]_tdVars
  BY DeskNext DEF Spares
<1> QED BY <1>1, DeskInit, DeskNext, PTL DEF TdSpec, PeersSpared

-----------------------------------------------------------------------------
(* The second layer.                                                       *)

\* FenceHolds, of the claim c and the row r of its task.
Fits(c, r) == ~r.terminal /\ r.gen = c.gen /\ r.cur = c.att /\ r.owner = c.worker

\* A process with a run in hand, but for one whose cleanup was cut short.
Holds(p) == p.claim # NoClaim /\ p.phase # "leaving"

\* The grip of p on its run, whose row is r and whose tracker row is sh: the claim
\* passes the fence until the task is closed, and the token is taken exactly when the
\* row is there; but for a daemon that stalled.
Grip(p, r, sh, failure) ==
  /\ p.phase \in Closing => r.terminal
  /\ p.phase \in InLoop => Fits(p.claim, r)
  /\ p.phase \in InCleanup /\ failure # "stall" => Fits(p.claim, r)
  /\ p.token => sh # "pending" /\ (Fits(p.claim, r) \/ r.terminal)
  /\ failure # "stall" /\ ~p.token => sh = "pending"
  /\ p.phase \in InCleanup /\ p.token => failure # "none" \/ p.force
  /\ p.phase = "closing2" /\ p.verdict = "none" => ~p.token

Hold(w) ==
  LET p == proc[w] IN
  Holds(p) => Grip(p, task[p.claim.task], shown[p.claim.task], fault)

Apart ==
  fault # "stall" =>
    \A w, x \in Workers : Holds(proc[w]) /\ Holds(proc[x]) /\ w # x =>
      proc[w].claim.task # proc[x].claim.task

RowsFit(t) ==
  /\ rows[t] = 0 <=> shown[t] = "pending"
  /\ task[t].state \in {"absent", "queued"} => shown[t] = "pending"
  /\ fault # "stall" => rows[t] <= 1

\* The failures after which a row that is due is still to come.
Tolerated == {"none", "store", "stall"}

\* What is over and not shown is in the hands of a daemon about to show it.
ShownSoon(t) ==
  task[t].terminal /\ shown[t] = "pending" /\ fault \in Tolerated =>
    \E w \in Workers : proc[w].phase \in Closing /\ proc[w].claim.task = t

Hand ==
  /\ \A w \in Workers : Hold(w)
  /\ Apart
  /\ \A t \in Tasks : RowsFit(t) /\ ShownSoon(t)

LEMMA FenceFits ==
  ASSUME NEW c
  PROVE  FenceHolds(c) <=> Fits(c, task[c.task])
BY DEF FenceHolds, Fits

\* A process with a run in hand is in the loop, in the cleanup or closing the run,
\* and its claim is of a task.
LEMMA HoldsWhere ==
  ASSUME Desk, NEW w \in Workers, Holds(proc[w])
  PROVE  /\ proc[w].phase \in InLoop \cup InCleanup \cup Closing
         /\ proc[w].claim \in issued /\ proc[w].claim.task \in Tasks /\ proc[w].claim.worker = w
<1>1. Local(w, proc[w], issued, fault) /\ proc[w].claim.task \in Tasks
  BY DeskOf DEF Holds
<1> QED BY <1>1 DEF Local, Holds, Hands

\* What of a row and a failure the layer remembers of a task nobody touches.
Untouched(u) == task'[u] = task[u] /\ shown'[u] = shown[u] /\ rows'[u] = rows[u]
OneFailure == fault' = fault \/ fault = "none"

\* The grip of a process that stays on a task that stays.
LEMMA GripStays ==
  ASSUME NEW p, NEW r, NEW sh, Grip(p, r, sh, fault), OneFailure
  PROVE  Grip(p, r, sh, fault')
BY DEF Grip, OneFailure

\* A step of w that touches the tasks of T alone.
LEMMA HandStep ==
  ASSUME Desk, Hand, OneFailure, NEW w \in Workers, NEW q \in Process, Put(w, q),
         NEW T \in SUBSET Tasks, \A u \in Tasks \ T : Untouched(u),
         \A x \in Workers \ {w} : Holds(proc[x]) /\ proc[x].claim.task \in T =>
           Grip(proc[x], task'[proc[x].claim.task], shown'[proc[x].claim.task], fault'),
         Holds(q) => /\ Grip(q, task'[q.claim.task], shown'[q.claim.task], fault')
                     /\ \/ Holds(proc[w]) /\ q.claim = proc[w].claim
                        \/ fault' # "stall" =>
                             \A x \in Workers \ {w} :
                               Holds(proc[x]) => proc[x].claim.task # q.claim.task,
         proc[w].phase \in Closing =>
           \/ q.phase \in Closing /\ q.claim = proc[w].claim
           \/ proc[w].claim.task \in T
           \/ shown[proc[w].claim.task] # "pending"
           \/ fault' \notin Tolerated,
         \A t \in T : RowsFit(t)' /\ ShownSoon(t)'
  PROVE  Hand'
<1>1. /\ proc'[w] = q
      /\ \A x \in Workers \ {w} : proc'[x] = proc[x]
  BY Others DEF Desk
<1>2. ASSUME NEW x \in Workers PROVE Hold(x)'
  <2>1. CASE x = w
    BY <1>1, <2>1 DEF Hold
  <2>2. CASE x # w
    <3>1. proc'[x] = proc[x] /\ Hold(x)
      BY <1>1, <2>2 DEF Hand
    <3>2. SUFFICES ASSUME Holds(proc[x])
                   PROVE  Grip(proc[x], task'[proc[x].claim.task], shown'[proc[x].claim.task],
                               fault')
      BY <3>1 DEF Hold
    <3>3. proc[x].claim.task \in Tasks
      BY <3>2, HoldsWhere
    <3>4. CASE proc[x].claim.task \in T
      BY <2>2, <3>2, <3>4
    <3>5. CASE proc[x].claim.task \notin T
      <4>1. Untouched(proc[x].claim.task)
        BY <3>3, <3>5
      <4>2. Grip(proc[x], task[proc[x].claim.task], shown[proc[x].claim.task], fault)
        BY <3>1, <3>2 DEF Hold
      <4> QED BY <4>1, <4>2, GripStays DEF Untouched
    <3> QED BY <3>4, <3>5
  <2> QED BY <2>1, <2>2
<1>3. Apart'
  BY <1>1 DEF Hand, Apart, OneFailure
<1>4. ASSUME NEW u \in Tasks PROVE RowsFit(u)' /\ ShownSoon(u)'
  <2>1. CASE u \in T
    BY <2>1
  <2>2. CASE u \notin T
    <3>1. Untouched(u) /\ RowsFit(u) /\ ShownSoon(u)
      BY <2>2 DEF Hand
    <3>2. RowsFit(u)'
      BY <3>1 DEF Untouched, RowsFit, OneFailure
    <3>3. ShownSoon(u)'
      BY <1>1, <2>2, <3>1 DEF Untouched, ShownSoon, OneFailure, Tolerated
    <3> QED BY <3>2, <3>3
  <2> QED BY <2>1, <2>2
<1> QED BY <1>2, <1>3, <1>4 DEF Hand

\* A step that leaves the processes alone.
LEMMA HandStill ==
  ASSUME Desk, Hand, OneFailure, UNCHANGED proc,
         NEW T \in SUBSET Tasks, \A u \in Tasks \ T : Untouched(u),
         \A x \in Workers : Holds(proc[x]) /\ proc[x].claim.task \in T =>
           Grip(proc[x], task'[proc[x].claim.task], shown'[proc[x].claim.task], fault'),
         \A t \in T : RowsFit(t)' /\ ShownSoon(t)'
  PROVE  Hand'
<1>1. ASSUME NEW x \in Workers PROVE Hold(x)'
  <2>1. SUFFICES ASSUME Holds(proc[x])
                 PROVE  Grip(proc[x], task'[proc[x].claim.task], shown'[proc[x].claim.task],
                             fault')
    BY DEF Hold
  <2>2. proc[x].claim.task \in Tasks
    BY <2>1, HoldsWhere
  <2>3. CASE proc[x].claim.task \in T
    BY <2>1, <2>3
  <2>4. CASE proc[x].claim.task \notin T
    <3>1. Untouched(proc[x].claim.task)
      BY <2>2, <2>4
    <3>2. Grip(proc[x], task[proc[x].claim.task], shown[proc[x].claim.task], fault)
      BY <2>1 DEF Hand, Hold
    <3> QED BY <3>1, <3>2, GripStays DEF Untouched
  <2> QED BY <2>3, <2>4
<1>2. Apart'
  BY DEF Hand, Apart, OneFailure
<1>3. ASSUME NEW u \in Tasks PROVE RowsFit(u)' /\ ShownSoon(u)'
  <2>1. CASE u \in T
    BY <2>1
  <2>2. CASE u \notin T
    <3>1. Untouched(u) /\ RowsFit(u) /\ ShownSoon(u)
      BY <2>2 DEF Hand
    <3> QED BY <3>1 DEF Untouched, RowsFit, ShownSoon, OneFailure, Tolerated
  <2> QED BY <2>1, <2>2
<1> QED BY <1>1, <1>2, <1>3 DEF Hand

-----------------------------------------------------------------------------
(* The others that have a claim on a task.                                 *)

\* A process whose claim is no longer good, and whose task is not over, is in the
\* cleanup of a daemon that stalled, and writes no row.
LEMMA LooseGrip ==
  ASSUME Desk, Hand, OneFailure, NEW x \in Workers, Holds(proc[x]),
         ~Fits(proc[x].claim, task[proc[x].claim.task]), ~task[proc[x].claim.task].terminal
  PROVE  fault = "stall" /\ \A r, sh : Grip(proc[x], r, sh, fault')
<1>1. Grip(proc[x], task[proc[x].claim.task], shown[proc[x].claim.task], fault)
  BY DEF Hand, Hold
<1>2. proc[x].phase \in InLoop \cup InCleanup \cup Closing
  BY HoldsWhere
<1>3. proc[x].phase \in InCleanup /\ ~proc[x].token /\ fault = "stall"
  BY <1>1, <1>2 DEF Grip
<1> QED BY <1>3 DEF Grip, OneFailure, InCleanup, InLoop, Closing

\* Nobody has a good claim on a task that is not owned.
LEMMA NoneFits ==
  ASSUME Desk, NEW t \in Tasks, task[t].state \in {"absent", "queued"}
  PROVE  ~task[t].terminal /\ \A x \in Workers : \A c : c.worker = x => ~Fits(c, task[t])
<1>1. RowInv(t)
  BY RowFacts DEF Desk
<1> QED BY <1>1, StoreAssumption DEF RowInv, OwnedState, Fits

LEMMA LooseOnFree ==
  ASSUME Desk, Hand, OneFailure, NEW t \in Tasks, task[t].state \in {"absent", "queued"},
         NEW x \in Workers, Holds(proc[x]), proc[x].claim.task = t
  PROVE  fault = "stall" /\ \A r, sh : Grip(proc[x], r, sh, fault')
<1>1. proc[x].claim.worker = x
  BY HoldsWhere
<1>2. ~task[t].terminal /\ ~Fits(proc[x].claim, task[t])
  BY <1>1, NoneFits
<1> QED BY <1>2, LooseGrip

\* Only one process has a good claim on a task.
LEMMA LooseOnFenced ==
  ASSUME Desk, Hand, OneFailure, NEW w \in Workers, Holds(proc[w]),
         Fits(proc[w].claim, task[proc[w].claim.task]),
         NEW x \in Workers \ {w}, Holds(proc[x]), proc[x].claim.task = proc[w].claim.task
  PROVE  fault = "stall" /\ \A r, sh : Grip(proc[x], r, sh, fault')
<1>1. proc[x].claim.worker = x /\ proc[w].claim.worker = w
  BY HoldsWhere
<1>2. ~task[proc[x].claim.task].terminal /\ ~Fits(proc[x].claim, task[proc[x].claim.task])
  BY <1>1 DEF Fits
<1> QED BY <1>2, LooseGrip

\* A row shown by w is no news to another.
LEMMA GripOnShown ==
  ASSUME Desk, Hand, OneFailure, NEW w \in Workers, Holds(proc[w]),
         NEW x \in Workers \ {w}, Holds(proc[x]), proc[x].claim.task = proc[w].claim.task,
         NEW sh, sh # "pending"
  PROVE  Grip(proc[x], task[proc[x].claim.task], sh, fault')
<1>1. fault = "stall" /\ fault' = "stall"
  BY DEF Hand, Apart, OneFailure
<1>2. Grip(proc[x], task[proc[x].claim.task], shown[proc[x].claim.task], fault)
  BY DEF Hand, Hold
<1> QED BY <1>1, <1>2 DEF Grip

-----------------------------------------------------------------------------
(* The steps that move no row of the store or of the tracker.              *)

LEMMA HandMove ==
  ASSUME Desk, Hand, OneFailure, UNCHANGED <<task, shown, rows>>,
         NEW w \in Workers, NEW q \in Process, Put(w, q),
         Holds(q) => /\ Holds(proc[w]) /\ q.claim = proc[w].claim
                     /\ Grip(q, task[q.claim.task], shown[q.claim.task], fault'),
         proc[w].phase \in Closing =>
           \/ q.phase \in Closing /\ q.claim = proc[w].claim
           \/ shown[proc[w].claim.task] # "pending"
           \/ fault' \notin Tolerated
  PROVE  Hand'
<1>1. PICK T \in SUBSET Tasks : T = {}
  OBVIOUS
<1>2. \A u \in Tasks \ T : Untouched(u)
  BY DEF Untouched
<1>3. \A x \in Workers \ {w} : ~(Holds(proc[x]) /\ proc[x].claim.task \in T)
  BY <1>1
<1>4. \A t \in T : RowsFit(t)' /\ ShownSoon(t)'
  BY <1>1
<1>5. Holds(q) => /\ Grip(q, task'[q.claim.task], shown'[q.claim.task], fault')
                  /\ Holds(proc[w]) /\ q.claim = proc[w].claim
  OBVIOUS
<1> QED BY <1>2, <1>3, <1>4, <1>5, HandStep

\* Whoever holds nothing afterwards.
LEMMA HandLetGo ==
  ASSUME Desk, Hand, OneFailure, UNCHANGED <<task, shown, rows>>,
         NEW w \in Workers, NEW q \in Process, Put(w, q), ~Holds(q),
         proc[w].phase \in Closing =>
           shown[proc[w].claim.task] # "pending" \/ fault' \notin Tolerated
  PROVE  Hand'
BY HandMove

\* Whoever holds the same as before, in the loop or in the cleanup after it.
LEMMA HandSame ==
  ASSUME Desk, Hand, OneFailure, UNCHANGED <<task, shown, rows>>,
         NEW w \in Workers, NEW q \in Process, Put(w, q),
         q.claim = proc[w].claim, q.token = proc[w].token,
         q.phase = "leaving" => proc[w].phase = "leaving",
         q.phase \in Closing => q.phase = proc[w].phase /\ q.verdict = proc[w].verdict,
         q.phase \in InLoop => proc[w].phase \in InLoop,
         q.phase \in InCleanup => proc[w].phase \in InCleanup \cup InLoop,
         q.phase \in InCleanup /\ q.token => fault' # "none" \/ q.force,
         proc[w].phase \in Closing => q.phase = proc[w].phase,
         proc[w].phase = "leaving" => q.phase = "leaving"
  PROVE  Hand'
<1>1. SUFFICES ASSUME Holds(q)
               PROVE  /\ Holds(proc[w])
                      /\ Grip(q, task[q.claim.task], shown[q.claim.task], fault')
  BY HandMove
<1>2. Holds(proc[w])
  BY <1>1 DEF Holds
<1>3. Grip(proc[w], task[q.claim.task], shown[q.claim.task], fault')
  BY <1>2, GripStays DEF Hand, Hold
<1>4. Fits(q.claim, task[q.claim.task]) = Fits(proc[w].claim, task[q.claim.task])
  OBVIOUS
<1>5. Grip(q, task[q.claim.task], shown[q.claim.task], fault')
  <2>1. Grip(proc[w], task[q.claim.task], shown[q.claim.task], fault)
    BY <1>2 DEF Hand, Hold
  <2> QED BY <1>3, <1>4, <2>1 DEF Grip, OneFailure, Closing
<1> QED BY <1>2, <1>5

\* Who is told something keeps what it has in hand.
LEMMA HearsHand ==
  ASSUME Desk, Hand, NEW w \in Workers, NEW q \in Process, Alone(w, q), Hears(proc[w], q)
  PROVE  Hand'
<1>1. UNCHANGED <<task, shown, rows>> /\ OneFailure /\ fault' = fault /\ Put(w, q)
  BY DEF Alone, storeVars, OneFailure
<1>2. ASSUME q.phase \in InCleanup, q.token PROVE fault' # "none" \/ q.force
  <2>1. /\ Local(w, proc[w], issued, fault) /\ proc[w].phase \in InCleanup /\ proc[w].token
        /\ proc[w].force => q.force
    BY <1>2, DeskOf DEF Hears
  <2>2. Holds(proc[w])
    BY <2>1 DEF Local, Holds, InCleanup
  <2> QED BY <1>1, <2>1, <2>2 DEF Hand, Hold, Grip
<1> QED BY <1>1, <1>2, HandSame DEF Hears

\* Who had nothing in hand and claims nothing has nothing in hand.
LEMMA FreeHand ==
  ASSUME Desk, Hand, NEW w \in Workers, NEW q \in Process, Alone(w, q),
         proc[w].phase \notin Hands, q.claim = proc[w].claim
  PROVE  Hand'
<1>1. UNCHANGED <<task, shown, rows>> /\ OneFailure /\ Put(w, q)
  BY DEF Alone, storeVars, OneFailure
<1>2. ~Holds(q) /\ proc[w].phase \notin Closing
  BY DeskOf DEF Local, Holds, Hands
<1> QED BY <1>1, <1>2, HandLetGo

LEMMA SpawnHand == ASSUME Desk, Hand, NEW w \in Workers, Spawn(w) PROVE Hand'
BY SpawnShape, FreeHand DEF Keeps, Hands, InLoop, InCleanup, Closing

LEMMA LaunchedHand == ASSUME Desk, Hand, NEW w \in Workers, Launched(w) PROVE Hand'
BY LaunchedShape, FreeHand DEF Keeps, Hands, InLoop, InCleanup, Closing

LEMMA WedgeHand == ASSUME Desk, Hand, NEW w \in Workers, Wedge(w) PROVE Hand'
BY WedgeShape, FreeHand DEF Keeps, Hands, InLoop, InCleanup, Closing

LEMMA ListQueueHand == ASSUME Desk, Hand, NEW w \in Workers, ListQueue(w) PROVE Hand'
BY ListQueueShape, FreeHand DEF Keeps, Hands, InLoop, InCleanup, Closing

LEMMA ReadAgainHand == ASSUME Desk, Hand, NEW w \in Workers, ReadAgain(w) PROVE Hand'
BY ReadAgainShape, FreeHand DEF Keeps, Hands, InLoop, InCleanup, Closing

LEMMA ExitHand ==
  ASSUME Desk, Hand, NEW w \in Workers, Exit(w)
  PROVE  Hand'
<1>1. PICK q \in Process :
        /\ Alone(w, q) /\ q.claim = NoClaim
        /\ proc[w].phase = "leaving" \/ proc[w].phase = "sweeping"
  BY ExitShape
<1>2. UNCHANGED <<task, shown, rows>> /\ OneFailure /\ Put(w, q)
  BY <1>1 DEF Alone, storeVars, OneFailure
<1> QED BY <1>1, <1>2, HandLetGo DEF Holds, Closing

\* A crash forgets what was in hand, and is the failure after which a row may be
\* missing.
LEMMA CrashHand ==
  ASSUME Desk, Hand, NEW w \in Workers, Crash(w)
  PROVE  Hand'
<1> DEFINE q == [Fresh EXCEPT !.phase = "dead"]
<1>1. /\ Put(w, q) /\ UNCHANGED <<task, shown, rows>> /\ fault = "none" /\ fault' = "crash"
  BY DEF Crash, Fails, storeVars
<1>2. q \in Process /\ q.claim = NoClaim
  BY FreshProcess DEF Fresh, Process, Phase
<1> HIDE DEF q
<1>3. OneFailure /\ fault' \notin Tolerated /\ ~Holds(q)
  BY <1>1, <1>2 DEF OneFailure, Tolerated, Holds
<1> QED BY <1>1, <1>2, <1>3, HandLetGo

\* A throw takes its run along: if its token is taken the daemon was told to stop, or
\* something failed.
LEMMA ThrownHand ==
  ASSUME Desk, Hand, OneFailure, UNCHANGED <<task, shown, rows>>,
         NEW w \in Workers, Put(w, Thrown(proc[w])),
         proc[w].phase \in InLoop \cup {"launching"},
         proc[w].token => fault' # "none" \/ proc[w].force
  PROVE  Hand'
<1> DEFINE q == Thrown(proc[w])
<1>1. proc[w] \in Process
  BY DeskOf
<1>2. /\ q \in Process /\ q.phase = "cleanup" /\ q.claim = proc[w].claim
      /\ q.token = proc[w].token /\ q.force = proc[w].force
  BY <1>1, ThrownProcess
<1> HIDE DEF q
<1>3. Put(w, q)
  BY DEF q
<1>4. CASE proc[w].phase = "launching"
  <2>1. ~Holds(q)
    BY <1>2, <1>4, DeskOf DEF Local, Holds, Hands, InLoop, InCleanup, Closing
  <2> QED BY <1>2, <1>3, <1>4, <2>1, HandLetGo DEF Closing
<1>5. CASE proc[w].phase \in InLoop
  BY <1>2, <1>3, <1>5, HandSame DEF InLoop, InCleanup, Closing
<1> QED BY <1>4, <1>5

LEMMA LaunchFailsHand ==
  ASSUME Desk, Hand, NEW w \in Workers, LaunchFails(w)
  PROVE  Hand'
<1>1. /\ proc[w].phase = "launching" /\ Put(w, Thrown(proc[w])) /\ OneFailure
      /\ UNCHANGED <<task, shown, rows>>
  BY DEF LaunchFails, storeVars, OneFailure
<1>2. ~proc[w].token
  BY <1>1, DeskOf DEF Local, Hands, InLoop, InCleanup, Closing
<1> QED BY <1>1, <1>2, ThrownHand

LEMMA HandlerRefusesHand ==
  ASSUME Desk, Hand, NEW w \in Workers, HandlerRefuses(w)
  PROVE  Hand'
<1>1. /\ proc[w].phase = "processing" /\ Put(w, Thrown(proc[w])) /\ OneFailure
      /\ UNCHANGED <<task, shown, rows>>
  BY DEF HandlerRefuses, storeVars, OneFailure
<1>2. ~proc[w].token
  BY <1>1, DeskOf DEF Local
<1> QED BY <1>1, <1>2, ThrownHand DEF InLoop

LEMMA LookForPeersHand ==
  ASSUME Desk, Hand, NEW w \in Workers, LookForPeers(w)
  PROVE  Hand'
<1>1. PICK q \in Process :
        /\ Alone(w, q) /\ Keeps(proc[w], q)
        /\ proc[w].phase = "returned" /\ q.phase = "acting"
  BY LookForPeersShape
<1>2. UNCHANGED <<task, shown, rows>> /\ OneFailure /\ Put(w, q)
  BY <1>1 DEF Alone, storeVars, OneFailure
<1> QED BY <1>1, <1>2, HandSame DEF Keeps, InLoop, InCleanup, Closing

LEMMA FindPeersHand ==
  ASSUME Desk, Hand, NEW w \in Workers, FindPeers(w)
  PROVE  Hand'
<1>1. PICK q \in Process :
        /\ Alone(w, q) /\ proc[w].phase = "cleanup"
        /\ \/ q.phase = "sweep" /\ q.claim = NoClaim
           \/ q.phase = "inflight" /\ Keeps(proc[w], q) /\ proc[w].claim # NoClaim
  BY FindPeersShape
<1>2. UNCHANGED <<task, shown, rows>> /\ OneFailure /\ Put(w, q) /\ fault' = fault
  BY <1>1 DEF Alone, storeVars, OneFailure
<1>3. CASE q.claim = NoClaim
  BY <1>1, <1>2, <1>3, HandLetGo DEF Holds, Closing
<1>4. CASE q.phase = "inflight" /\ Keeps(proc[w], q) /\ proc[w].claim # NoClaim
  <2>1. Holds(proc[w])
    BY <1>1, <1>4 DEF Holds
  <2>2. q.token => fault' # "none" \/ q.force
    BY <1>1, <1>2, <1>4, <2>1 DEF Hand, Hold, Grip, Keeps, InCleanup
  <2> QED BY <1>1, <1>2, <1>4, <2>2, HandSame DEF Keeps, InLoop, InCleanup, Closing
<1> QED BY <1>1, <1>3, <1>4

-----------------------------------------------------------------------------
(* The steps that close a run.                                             *)

\* w closes the row of its run, and is about to show it or has shown it.
LEMMA HandCloses ==
  ASSUME Desk, Hand, OneFailure, UNCHANGED <<shown, rows>>,
         NEW w \in Workers, Holds(proc[w]), proc[w].phase \notin Closing,
         Fits(proc[w].claim, task[proc[w].claim.task]),
         NEW row, Write(proc[w].claim.task, row), row.terminal = TRUE,
         row.state \notin {"absent", "queued"},
         NEW q \in Process, Put(w, q),
         \/ /\ q.phase \in Closing /\ q.claim = proc[w].claim /\ q.token = proc[w].token
            /\ q.phase = "closing2" /\ q.verdict = "none" => ~q.token
         \/ ~Holds(q) /\ (shown[proc[w].claim.task] # "pending" \/ fault' \notin Tolerated)
  PROVE  Hand'
<1>1. PICK t \in Tasks : t = proc[w].claim.task
  BY HoldsWhere
<1>2. PICK T \in SUBSET Tasks : T = {t}
  OBVIOUS
<1>3. task'[t] = row /\ \A u \in Tasks \ T : Untouched(u)
  BY <1>1, <1>2, OtherRows DEF Desk, TdTypeOK, Untouched
<1>4. ASSUME NEW x \in Workers \ {w}, Holds(proc[x]), proc[x].claim.task \in T
      PROVE  Grip(proc[x], task'[proc[x].claim.task], shown'[proc[x].claim.task], fault')
  BY <1>1, <1>2, <1>4, LooseOnFenced
<1>5. Grip(proc[w], task[t], shown[t], fault)
  BY <1>1 DEF Hand, Hold
<1>6. Holds(q) => q.claim = proc[w].claim /\ Grip(q, row, shown'[t], fault')
  BY <1>5 DEF Grip, OneFailure, Closing, InLoop, InCleanup
<1>7. RowsFit(t)' /\ ShownSoon(t)'
  <2>1. RowsFit(t)'
    BY <1>3 DEF Hand, RowsFit, OneFailure
  <2>2. ShownSoon(t)'
    <3>1. proc'[w] = q
      BY Others DEF Desk
    <3> QED BY <1>1, <3>1 DEF ShownSoon
  <2> QED BY <2>1, <2>2
<1>8. \A u \in T : RowsFit(u)' /\ ShownSoon(u)'
  BY <1>2, <1>7
<1>9. Holds(q) => /\ Grip(q, task'[q.claim.task], shown'[q.claim.task], fault')
                  /\ q.claim = proc[w].claim
  BY <1>1, <1>3, <1>6
<1> QED BY <1>3, <1>4, <1>8, <1>9, HandStep

\* A terminal write of a claim in hand, under the fence.
LEMMA TerminalWrite ==
  ASSUME Desk, NEW c \in issued, NEW v \in Verdict, MarkTerminal(c, v)
  PROVE  /\ Fits(c, task[c.task]) /\ Write(c.task, Closed(task[c.task], v))
         /\ Closed(task[c.task], v).terminal = TRUE
         /\ Closed(task[c.task], v).state \notin {"absent", "queued"}
<1>1. FenceHolds(c) /\ Write(c.task, Closed(task[c.task], v))
  BY DEF MarkTerminal
<1>2. task[c.task] \in TaskRow
  BY <1>1, FencedRow
<1>3. v \in TaskState /\ v \notin {"absent", "queued"}
  BY DEF Verdict, TaskState
<1>4. Closed(task[c.task], v).terminal = TRUE /\ Closed(task[c.task], v).state = v
  BY <1>2, <1>3, ClosedRow
<1> QED BY <1>1, <1>3, <1>4 DEF FenceHolds, Fits

LEMMA BlockedWrite ==
  ASSUME Desk, NEW c \in issued, MarkBlockedUncertain(c)
  PROVE  /\ Fits(c, task[c.task]) /\ Write(c.task, Closed(task[c.task], "blocked"))
         /\ Closed(task[c.task], "blocked").terminal = TRUE
         /\ Closed(task[c.task], "blocked").state \notin {"absent", "queued"}
<1>1. FenceHolds(c) /\ Write(c.task, Closed(task[c.task], "blocked"))
  BY DEF MarkBlockedUncertain
<1>2. task[c.task] \in TaskRow
  BY <1>1, FencedRow
<1>3. "blocked" \in TaskState
  BY DEF TaskState
<1>4. /\ Closed(task[c.task], "blocked").terminal = TRUE
      /\ Closed(task[c.task], "blocked").state = "blocked"
  BY <1>2, <1>3, ClosedRow
<1> QED BY <1>1, <1>4 DEF FenceHolds, Fits

\* A normal end: the handler has shown the verdict, or its row failed to append.
LEMMA EndNormallyHand ==
  ASSUME Desk, Hand, NEW w \in Workers, EndNormally(w)
  PROVE  Hand'
<1> DEFINE p == proc[w]
<1>1. /\ p.phase = "returned" /\ ~p.aborted /\ UNCHANGED <<shown, rows, fault>> /\ OneFailure
      /\ Put(w, Turn(p))
      /\ MarkTerminal(p.claim, p.verdict) \/ UNCHANGED task
  BY DEF EndNormally, Cancelling, OneFailure, storeVars
<1>2. /\ p \in Process /\ p.claim \in issued /\ p.verdict \in Verdict /\ Holds(p)
      /\ p.token \/ fault = "append"
  BY <1>1, DeskOf DEF Local, Hands, InLoop, Holds
<1>3. PICK q \in Process : q = Turn(p) /\ q.claim = NoClaim
  BY <1>2, TurnProcess
<1>4. ~Holds(q) /\ p.phase \notin Closing
  BY <1>1, <1>3 DEF Holds, Closing
<1>5. CASE MarkTerminal(p.claim, p.verdict)
  <2>1. shown[p.claim.task] # "pending" \/ fault' \notin Tolerated
    BY <1>1, <1>2 DEF Hand, Hold, Grip, Tolerated
  <2> QED BY <1>1, <1>2, <1>3, <1>4, <1>5, <2>1, TerminalWrite, HandCloses
<1>6. CASE UNCHANGED task
  BY <1>1, <1>3, <1>4, <1>6, HandLetGo
<1> QED BY <1>1, <1>5, <1>6

LEMMA LoopClosesHand ==
  ASSUME Desk, Hand, NEW w \in Workers, LoopCloses(w)
  PROVE  Hand'
<1> DEFINE p == proc[w]
           v == IF Transition(p) = "fail" THEN "failed" ELSE "cancelled"
           c == p.claim
           q == [p EXCEPT !.phase = "closing", !.verdict = v]
<1>1. /\ ActsInLoop(p) /\ UNCHANGED <<shown, rows>> /\ OneFailure
      /\ \/ MarkTerminal(c, v) /\ Put(w, q)
         \/ ~FenceHolds(c)
         \/ UNCHANGED task /\ Put(w, Thrown(p)) /\ fault' # "none"
  BY DEF LoopCloses, Works, Fails, storeVars, OneFailure
<1>2. p \in Process /\ c \in issued /\ p.phase \in InLoop /\ Holds(p) /\ p.phase \notin Closing
  BY <1>1, DeskOf DEF Local, Hands, InLoop, Closing, ActsInLoop, Holds
<1>3. FenceHolds(c)
  BY <1>2 DEF Hand, Hold, Grip, FenceHolds, Fits
<1>4. v \in Verdict
  BY DEF Verdict
<1> HIDE DEF v
<1>5. CASE MarkTerminal(c, v) /\ Put(w, q)
  <2>1. q \in Process /\ q.phase = "closing" /\ q.claim = c /\ q.token = p.token
    BY <1>2, <1>4 DEF Process, Phase
  <2> HIDE DEF q
  <2>2. q.phase \in Closing
    BY <2>1 DEF Closing
  <2> QED BY <1>1, <1>2, <1>4, <1>5, <2>1, <2>2, TerminalWrite, HandCloses
<1>6. CASE UNCHANGED task /\ Put(w, Thrown(p)) /\ fault' # "none"
  BY <1>1, <1>2, <1>6, ThrownHand
<1> QED BY <1>1, <1>3, <1>5, <1>6

\* Who cancels was not forced, so its token is free unless something failed.
LEMMA CleanupClosesHand ==
  ASSUME Desk, Hand, NEW w \in Workers, CleanupCloses(w)
  PROVE  Hand'
<1> DEFINE p == proc[w]
           v == IF Transition(p) = "fail" THEN "failed" ELSE "cancelled"
           c == p.claim
           closed(u) == [p EXCEPT !.phase = "closing2", !.verdict = u]
<1>1. /\ p.phase = "inflight" /\ Transition(p) # "reassign"
      /\ UNCHANGED <<shown, rows>> /\ OneFailure
      /\ \/ MarkTerminal(c, v) /\ Put(w, closed(v))
         \/ /\ ~FenceHolds(c) /\ UNCHANGED task /\ fault' = fault
            /\ task[c.task].state = "cancelled" /\ Put(w, closed(v))
         \/ UNCHANGED task /\ Put(w, Swept(p))
         \/ /\ v = "cancelled" /\ MarkBlockedUncertain(c) /\ fault = "none"
            /\ Put(w, closed("none"))
  BY DEF CleanupCloses, Works, Fails, storeVars, OneFailure
<1>2. p \in Process /\ c \in issued /\ c.task \in Tasks /\ Holds(p) /\ p.phase \notin Closing
  BY <1>1, DeskOf DEF Local, Hands, InCleanup, Closing, Holds
<1>3. v \in Verdict /\ (v = "cancelled" => ~p.force)
  <2>1. p.force => Transition(p) \in {"reassign", "fail"}
    BY DEF Transition
  <2> QED BY <1>1, <2>1 DEF Verdict
<1> HIDE DEF v
<1>4. ASSUME NEW u \in Verdict \cup {"none"}
      PROVE  /\ closed(u) \in Process /\ closed(u).phase = "closing2" /\ closed(u).claim = c
             /\ closed(u).token = p.token /\ closed(u).verdict = u /\ closed(u).phase \in Closing
  BY <1>2 DEF Process, Phase, Closing
<1>5. v # "none"
  BY <1>3 DEF Verdict
<1> HIDE DEF closed
<1>6. Grip(p, task[c.task], shown[c.task], fault)
  BY <1>2 DEF Hand, Hold
<1>7. CASE MarkTerminal(c, v) /\ Put(w, closed(v))
  BY <1>1, <1>2, <1>3, <1>4, <1>5, <1>7, TerminalWrite, HandCloses
<1>8. CASE /\ ~FenceHolds(c) /\ UNCHANGED task /\ fault' = fault
           /\ task[c.task].state = "cancelled" /\ Put(w, closed(v))
  <2>1. task[c.task].terminal
    BY <1>2, <1>8, RowFacts DEF Desk, RowInv
  <2>2. fault = "stall"
    BY <1>1, <1>6, <1>8 DEF Grip, InCleanup, FenceHolds, Fits
  <2>3. Grip(closed(v), task[c.task], shown[c.task], fault')
    BY <1>3, <1>4, <1>5, <1>6, <1>8, <2>1, <2>2 DEF Grip, InLoop, InCleanup
  <2> QED BY <1>1, <1>2, <1>3, <1>4, <1>8, <2>3, HandMove
<1>9. CASE UNCHANGED task /\ Put(w, Swept(p))
  <2>1. PICK q \in Process : q = Swept(p) /\ q.claim = NoClaim
    BY <1>2, SweptProcess
  <2>2. ~Holds(q)
    BY <2>1 DEF Holds
  <2> QED BY <1>1, <1>2, <1>9, <2>1, <2>2, HandLetGo
<1>10. CASE v = "cancelled" /\ MarkBlockedUncertain(c) /\ fault = "none" /\ Put(w, closed("none"))
  <2>1. ~p.token
    BY <1>1, <1>3, <1>6, <1>10 DEF Grip, InCleanup
  <2> QED BY <1>1, <1>2, <1>4, <1>10, <2>1, BlockedWrite, HandCloses
<1> QED BY <1>1, <1>7, <1>8, <1>9, <1>10

-----------------------------------------------------------------------------
(* The steps that hand a run back.                                         *)

\* A re-queue lands, and shows the run as pending again.
LEMMA HandReturns ==
  ASSUME Desk, Hand, UNCHANGED fault, NEW w \in Workers, Holds(proc[w]),
         proc[w].phase \notin Closing,
         ReturnToQueued(proc[w].claim), ShowPending(proc[w].claim.task),
         NEW q \in Process, Put(w, q), ~Holds(q)
  PROVE  Hand'
<1> DEFINE c == proc[w].claim
<1>1. PICK t \in Tasks : t = c.task
  BY HoldsWhere
<1>2. PICK T \in SUBSET Tasks : T = {t}
  OBVIOUS
<1>3. FenceHolds(c) /\ Fits(c, task[t]) /\ Write(t, Requeued(task[t])) /\ OneFailure
  BY <1>1 DEF ReturnToQueued, FenceHolds, Fits, OneFailure
<1>4. /\ Requeued(task[t]).state = "queued"
      /\ ~Requeued(task[t]).terminal
  BY <1>3, RowFacts, RequeuedRow DEF Desk, Fits
<1>5. task'[t] = Requeued(task[t]) /\ \A u \in Tasks \ T : task'[u] = task[u]
  BY <1>2, <1>3, OtherRows DEF Desk, TdTypeOK
<1>6. /\ shown'[t] = "pending" /\ rows'[t] = 0
      /\ \A u \in Tasks \ T : shown'[u] = shown[u] /\ rows'[u] = rows[u]
  BY <1>1, <1>2 DEF ShowPending, Desk, TdTypeOK
<1>7. \A u \in Tasks \ T : Untouched(u)
  BY <1>5, <1>6 DEF Untouched
<1>8. ASSUME NEW x \in Workers \ {w}, Holds(proc[x]), proc[x].claim.task \in T
      PROVE  Grip(proc[x], task'[proc[x].claim.task], shown'[proc[x].claim.task], fault')
  BY <1>1, <1>2, <1>3, <1>8, LooseOnFenced
<1>9. \A u \in T : RowsFit(u)' /\ ShownSoon(u)'
  BY <1>2, <1>4, <1>5, <1>6 DEF RowsFit, ShownSoon
<1> QED BY <1>3, <1>7, <1>8, <1>9, HandStep

LEMMA HandBackHand ==
  ASSUME Desk, Hand, NEW w \in Workers, NEW q \in Process, NEW threw, NEW cut,
         Holds(proc[w]), proc[w].phase \notin Closing, ~Holds(q), HandBack(w, q, threw, cut),
         Put(w, threw) /\ OneFailure /\ UNCHANGED <<task, shown, rows>> => Hand'
  PROVE  Hand'
<1>1. \/ ReturnToQueued(proc[w].claim) /\ ShowPending(proc[w].claim.task) /\ Put(w, q) /\ Works
      \/ Put(w, q) /\ Works /\ UNCHANGED storeVars /\ ShowNothing
      \/ Put(w, threw) /\ (Works \/ Fails("store")) /\ UNCHANGED storeVars /\ ShowNothing
  BY DEF HandBack
<1>2. CASE ReturnToQueued(proc[w].claim) /\ ShowPending(proc[w].claim.task) /\ Put(w, q) /\ Works
  BY <1>2, HandReturns DEF Works
<1>3. CASE Put(w, q) /\ Works /\ UNCHANGED storeVars /\ ShowNothing
  <2>1. UNCHANGED <<task, shown, rows>> /\ OneFailure
    BY <1>3 DEF storeVars, ShowNothing, Works, OneFailure
  <2> QED BY <1>3, <2>1, HandLetGo
<1>4. CASE Put(w, threw) /\ (Works \/ Fails("store")) /\ UNCHANGED storeVars /\ ShowNothing
  BY <1>4 DEF storeVars, ShowNothing, Works, Fails, OneFailure
<1> QED BY <1>1, <1>2, <1>3, <1>4

LEMMA LoopReassignsHand ==
  ASSUME Desk, Hand, NEW w \in Workers, LoopReassigns(w)
  PROVE  Hand'
<1> DEFINE p == proc[w]
<1>1. /\ ActsInLoop(p) /\ p.reassign
      /\ HandBack(w, Turn(p), Thrown(p), cutShort)
  BY DEF LoopReassigns, Transition
<1>2. p \in Process /\ p.phase \in InLoop /\ Holds(p) /\ p.phase \notin Closing /\ p.force
  BY <1>1, DeskOf DEF Local, Hands, InLoop, Closing, ActsInLoop, Holds
<1>3. PICK q \in Process : q = Turn(p) /\ q.claim = NoClaim
  BY <1>2, TurnProcess
<1>4. ~Holds(q)
  BY <1>3 DEF Holds
<1>5. Put(w, Thrown(p)) /\ OneFailure /\ UNCHANGED <<task, shown, rows>> => Hand'
  BY <1>2, ThrownHand
<1> QED BY <1>1, <1>2, <1>3, <1>4, <1>5, HandBackHand

LEMMA CleanupReassignsHand ==
  ASSUME Desk, Hand, NEW w \in Workers, CleanupReassigns(w)
  PROVE  Hand'
<1> DEFINE p == proc[w]
           threw == [p EXCEPT !.phase = "leaving"]
<1>1. p.phase = "inflight" /\ HandBack(w, Swept(p), threw, TRUE)
  BY DEF CleanupReassigns
<1>2. p \in Process /\ Holds(p) /\ p.phase \notin Closing
  BY <1>1, DeskOf DEF Local, Hands, InCleanup, Closing, Holds
<1>3. PICK q \in Process : q = Swept(p) /\ q.claim = NoClaim
  BY <1>2, SweptProcess
<1>4. ~Holds(q)
  BY <1>3 DEF Holds
<1>5. threw \in Process /\ ~Holds(threw)
  BY <1>2 DEF Process, Phase, Holds
<1> HIDE DEF threw
<1>6. Put(w, threw) /\ OneFailure /\ UNCHANGED <<task, shown, rows>> => Hand'
  BY <1>2, <1>5, HandLetGo
<1> QED BY <1>1, <1>2, <1>3, <1>4, <1>6, HandBackHand

-----------------------------------------------------------------------------
(* The steps that show a run.                                              *)

\* w shows the verdict of its run, which nobody has shown, and lets it go or stays in
\* the loop with the token taken.
LEMMA HandShows ==
  ASSUME Desk, Hand, UNCHANGED task, OneFailure, NEW w \in Workers,
         Holds(proc[w]), NEW v \in Row \ {"pending"}, ShowTerminal(proc[w].claim.task, v),
         task[proc[w].claim.task].state \notin {"absent", "queued"},
         fault # "stall" => shown[proc[w].claim.task] = "pending",
         NEW q \in Process, Put(w, q),
         Holds(q) => /\ q.claim = proc[w].claim /\ q.token
                     /\ proc[w].phase \in InLoop /\ q.phase \in InLoop
  PROVE  Hand'
<1> DEFINE c == proc[w].claim
<1>1. PICK t \in Tasks : t = c.task
  BY HoldsWhere
<1>2. PICK T \in SUBSET Tasks : T = {t}
  OBVIOUS
<1>3. proc[w].claim.task \in T
  BY <1>1, <1>2
<1>4. /\ shown'[t] = v /\ rows'[t] = rows[t] + 1
      /\ \A u \in Tasks \ T : shown'[u] = shown[u] /\ rows'[u] = rows[u]
  BY <1>1, <1>2 DEF ShowTerminal, Desk, TdTypeOK
<1>5. \A u \in Tasks \ T : Untouched(u)
  BY <1>4 DEF Untouched
<1>6. ASSUME NEW x \in Workers \ {w}, Holds(proc[x]), proc[x].claim.task \in T
      PROVE  Grip(proc[x], task'[proc[x].claim.task], shown'[proc[x].claim.task], fault')
  BY <1>1, <1>2, <1>4, <1>6, GripOnShown
<1>7. ASSUME Holds(q) PROVE Grip(q, task'[q.claim.task], shown'[q.claim.task], fault')
  <2>1. Fits(q.claim, task'[t])
    BY <1>1, <1>7 DEF Hand, Hold, Grip
  <2> QED BY <1>1, <1>4, <1>7, <2>1 DEF Grip, InLoop, InCleanup, Closing
<1>8. RowsFit(t)' /\ ShownSoon(t)'
  <2>1. rows[t] \in Nat /\ (shown[t] = "pending" => rows[t] = 0)
    BY DEF Desk, TdTypeOK, Hand, RowsFit
  <2>2. RowsFit(t)'
    BY <1>1, <1>4, <2>1 DEF RowsFit, OneFailure
  <2> QED BY <1>4, <2>2 DEF ShownSoon
<1>9. \A u \in T : RowsFit(u)' /\ ShownSoon(u)'
  BY <1>2, <1>8
<1>10. Holds(q) => Holds(proc[w]) /\ q.claim = proc[w].claim
  OBVIOUS
<1> QED BY <1>3, <1>5, <1>6, <1>7, <1>9, <1>10, HandStep

\* A run under the fence, or over, is neither absent nor queued.
LEMMA HeldState ==
  ASSUME Desk, NEW c \in issued, Fits(c, task[c.task]) \/ task[c.task].terminal
  PROVE  task[c.task].state \notin {"absent", "queued"}
<1>1. c.task \in Tasks /\ c.worker \in Workers
  BY DEF Desk, StoreInv, StoreTypeOK, Claim
<1>2. RowInv(c.task)
  BY <1>1, RowFacts DEF Desk
<1> QED BY <1>1, <1>2, NoneFits DEF RowInv

LEMMA HandlerEndsHand ==
  ASSUME Desk, Hand, NEW w \in Workers, NEW v \in Verdict, HandlerEnds(w, v)
  PROVE  Hand'
<1> DEFINE p == proc[w]
           c == p.claim
<1>1. /\ p \in Process /\ p.phase = "processing" /\ UNCHANGED task /\ OneFailure
      /\ ~p.token /\ p.token = FALSE /\ Holds(p) /\ c \in issued /\ p.phase \in InLoop
  BY DeskOf DEF HandlerEnds, Works, Fails, OneFailure, storeVars, Local, Hands, InLoop, Holds, Process
<1>2. Grip(p, task[c.task], shown[c.task], fault)
  BY <1>1 DEF Hand, Hold
<1>3. task[c.task].state \notin {"absent", "queued"} /\ (fault # "stall" => shown[c.task] = "pending")
  BY <1>1, <1>2, HeldState DEF Grip
<1>4. ASSUME NEW b \in BOOLEAN, NEW u \in Verdict
      PROVE  LET q == [p EXCEPT !.phase = "returned", !.verdict = u, !.token = b] IN
             /\ q \in Process /\ q.phase = "returned" /\ q.claim = c /\ q.token = b
  BY <1>1 DEF Process, Phase
<1>5. ASSUME NEW u \in Verdict, u # "cancelled", ShowTerminal(c.task, u),
             Put(w, [p EXCEPT !.phase = "returned", !.verdict = u, !.token = TRUE])
      PROVE  Hand'
  <2> DEFINE q == [p EXCEPT !.phase = "returned", !.verdict = u, !.token = TRUE]
  <2>1. q \in Process /\ q.phase \in InLoop /\ q.claim = c /\ q.token
    BY <1>4 DEF InLoop
  <2>2. u \in Row \ {"pending"} /\ Put(w, q)
    BY <1>5 DEF Verdict, Row
  <2> HIDE DEF q
  <2> QED BY <1>1, <1>3, <1>5, <2>1, <2>2, HandShows
<1>6. ASSUME ShowNothing, Put(w, [p EXCEPT !.phase = "returned", !.verdict = v])
      PROVE  Hand'
  <2> DEFINE q == [p EXCEPT !.phase = "returned", !.verdict = v]
  <2>1. q \in Process /\ q.phase = "returned" /\ q.claim = c /\ q.token = p.token
    BY <1>1 DEF Process, Phase
  <2>2. UNCHANGED <<task, shown, rows>> /\ Put(w, q)
    BY <1>1, <1>6 DEF ShowNothing
  <2> HIDE DEF q
  <2> QED BY <1>1, <2>1, <2>2, HandSame DEF InLoop, InCleanup, Closing
<1>7. CASE v # "cancelled" /\ ShowTerminal(c.task, v)
           /\ Put(w, [[p EXCEPT !.phase = "returned", !.verdict = v] EXCEPT !.token = TRUE])
  BY <1>5, <1>7
<1>8. CASE ShowTerminal(c.task, "failed")
           /\ Put(w, [[p EXCEPT !.phase = "returned", !.verdict = v]
                        EXCEPT !.token = TRUE, !.verdict = "failed"])
  <2>1. [[p EXCEPT !.phase = "returned", !.verdict = v] EXCEPT !.token = TRUE, !.verdict = "failed"]
          = [p EXCEPT !.phase = "returned", !.verdict = "failed", !.token = TRUE]
    BY <1>1 DEF Process
  <2>2. "failed" \in Verdict
    BY DEF Verdict
  <2> QED BY <1>5, <1>8, <2>1, <2>2
<1>9. CASE ShowNothing /\ Put(w, [p EXCEPT !.phase = "returned", !.verdict = v])
  BY <1>6, <1>9
<1> QED BY <1>7, <1>8, <1>9 DEF HandlerEnds

\* The listener of a signal shows a failure; the task stays with a daemon that is gone.
LEMMA SignalMidRunHand ==
  ASSUME Desk, Hand, NEW w \in Workers, SignalMidRun(w)
  PROVE  Hand'
<1> DEFINE p == proc[w]
           c == p.claim
           q == [Fresh EXCEPT !.phase = "killed"]
<1>1. /\ p.phase = "processing" /\ UNCHANGED <<task, fault>> /\ Put(w, q)
      /\ ShowTerminal(c.task, "failed")
  BY DEF SignalMidRun, storeVars
<1>2. ~p.token /\ Holds(p) /\ c \in issued /\ p.phase \in InLoop
  BY <1>1, DeskOf DEF Local, Hands, InLoop, Holds
<1>3. Grip(p, task[c.task], shown[c.task], fault)
  BY <1>2 DEF Hand, Hold
<1>4. task[c.task].state \notin {"absent", "queued"} /\ (fault # "stall" => shown[c.task] = "pending")
  BY <1>2, <1>3, HeldState DEF Grip
<1>5. q \in Process /\ ~Holds(q)
  BY FreshProcess DEF Fresh, Process, Phase, Holds
<1> HIDE DEF q
<1>6. "failed" \in Row \ {"pending"} /\ OneFailure
  BY <1>1 DEF Row, OneFailure
<1> QED BY <1>1, <1>2, <1>4, <1>5, <1>6, HandShows

\* The row after the store: written while its token is free, left alone if it is there.
LEMMA WriteRowHand ==
  ASSUME Desk, Hand, UNCHANGED task, NEW w \in Workers, proc[w].phase \in Closing,
         NEW v \in Row \ {"pending"}, NEW a \in Process, NEW b \in Process,
         ~Holds(a), ~Holds(b), WriteRow(w, v, a, b, a)
  PROVE  Hand'
<1> DEFINE p == proc[w]
           c == p.claim
<1>1. Holds(p) /\ c \in issued
  BY DeskOf DEF Local, Hands, Holds, Closing
<1>2. Grip(p, task[c.task], shown[c.task], fault)
  BY <1>1 DEF Hand, Hold
<1>3. task[c.task].state \notin {"absent", "queued"}
  BY <1>1, <1>2, HeldState DEF Grip
<1>4. CASE TokenFree(w) /\ ShowTerminal(c.task, v) /\ Put(w, a) /\ Works
  <2>0. OneFailure
    BY <1>4 DEF Works, OneFailure
  <2>1. fault # "stall" => shown[c.task] = "pending"
    BY <1>2, <1>4 DEF Grip, TokenFree
  <2> QED BY <1>1, <1>3, <1>4, <2>0, <2>1, HandShows
<1>5. CASE ShowNothing /\ Put(w, b) /\ Fails("append")
  <2>1. UNCHANGED <<task, shown, rows>> /\ OneFailure /\ fault' \notin Tolerated
    BY <1>5 DEF ShowNothing, Fails, OneFailure, Tolerated
  <2> QED BY <1>5, <2>1, HandLetGo
<1>6. CASE ~TokenFree(w) /\ ShowNothing /\ Put(w, a) /\ Works
  <2>1. UNCHANGED <<task, shown, rows>> /\ OneFailure
    BY <1>6 DEF ShowNothing, Works, OneFailure
  <2>2. shown[c.task] # "pending"
    BY <1>2, <1>6 DEF Grip, TokenFree
  <2> QED BY <1>6, <2>1, <2>2, HandLetGo
<1> QED BY <1>4, <1>5, <1>6 DEF WriteRow

LEMMA LoopShowsHand ==
  ASSUME Desk, Hand, NEW w \in Workers, LoopShows(w)
  PROVE  Hand'
<1> DEFINE p == proc[w]
           l == LetGo(p)
<1>1. /\ p \in Process /\ p.phase \in Closing /\ UNCHANGED task
      /\ WriteRow(w, p.verdict, Turn(p), Thrown(l), Turn(p))
      /\ p.verdict \in Row \ {"pending"}
  BY DeskOf DEF LoopShows, Closing, storeVars, Local, Row
<1>2. PICK a \in Process : a = Turn(p) /\ a.claim = NoClaim
  BY <1>1, TurnProcess
<1>3. l \in Process /\ l.claim = NoClaim
  BY <1>1, LetGoProcess
<1> HIDE DEF l
<1>4. PICK b \in Process : b = Thrown(l) /\ b.claim = NoClaim
  BY <1>3, ThrownProcess
<1>5. ~Holds(a) /\ ~Holds(b)
  BY <1>2, <1>4 DEF Holds
<1>6. WriteRow(w, p.verdict, a, b, a)
  BY <1>1, <1>2, <1>4
<1> QED BY <1>1, <1>5, <1>6, WriteRowHand

\* The corrective row is the first of its run: whoever closed it as uncertain had
\* shown nothing.
LEMMA CleanupShowsHand ==
  ASSUME Desk, Hand, NEW w \in Workers, CleanupShows(w)
  PROVE  Hand'
<1> DEFINE p == proc[w]
           c == p.claim
<1>1. /\ p \in Process /\ p.phase = "closing2" /\ p.phase \in Closing /\ UNCHANGED task
      /\ IF p.verdict # "none" THEN WriteRow(w, p.verdict, Swept(p), Swept(p), Swept(p))
         ELSE ShowTerminal(c.task, "failed") /\ Put(w, Swept(p)) /\ Works
  BY DeskOf DEF CleanupShows, Closing, storeVars
<1>2. PICK q \in Process : q = Swept(p) /\ q.claim = NoClaim
  BY <1>1, SweptProcess
<1>3. ~Holds(q)
  BY <1>2 DEF Holds
<1>4. CASE p.verdict # "none"
  <2>1. p.verdict \in Row \ {"pending"}
    BY <1>1, <1>4 DEF Process, Verdict, Row
  <2> QED BY <1>1, <1>2, <1>3, <1>4, <2>1, WriteRowHand
<1>5. CASE p.verdict = "none"
  <2>1. Holds(p) /\ c \in issued
    BY <1>1, DeskOf DEF Local, Hands, Holds, Closing
  <2>2. Grip(p, task[c.task], shown[c.task], fault)
    BY <2>1 DEF Hand, Hold
  <2>3. /\ task[c.task].state \notin {"absent", "queued"}
        /\ fault # "stall" => shown[c.task] = "pending"
    BY <1>1, <1>5, <2>1, <2>2, HeldState DEF Grip
  <2>4. "failed" \in Row \ {"pending"}
    BY DEF Row
  <2>5. OneFailure
    BY <1>1, <1>5 DEF Works, OneFailure
  <2> QED BY <1>1, <1>2, <1>3, <1>5, <2>1, <2>3, <2>4, <2>5, HandShows
<1> QED BY <1>4, <1>5

-----------------------------------------------------------------------------
(* The steps on a task that is in nobody's hands, and the claim.           *)

\* A step that writes one row and its tracker row, of a task that is not owned.
LEMMA FreeTask ==
  ASSUME Desk, Hand, OneFailure, UNCHANGED proc, NEW t \in Tasks,
         task[t].state \in {"absent", "queued"}, NEW row, Write(t, row),
         \A u \in Tasks \ {t} : shown'[u] = shown[u] /\ rows'[u] = rows[u],
         RowsFit(t)', ShownSoon(t)'
  PROVE  Hand'
<1>1. PICK T \in SUBSET Tasks : T = {t}
  OBVIOUS
<1>2. \A u \in Tasks \ T : Untouched(u)
  BY <1>1, OtherRows DEF Desk, TdTypeOK, Untouched
<1>3. ASSUME NEW x \in Workers, Holds(proc[x]), proc[x].claim.task \in T
      PROVE  Grip(proc[x], task'[proc[x].claim.task], shown'[proc[x].claim.task], fault')
  BY <1>1, <1>3, LooseOnFree
<1> QED BY <1>1, <1>2, <1>3, HandStill

LEMMA SubmitHand ==
  ASSUME Desk, Hand, NEW t \in Tasks, Submit(t)
  PROVE  Hand'
<1> DEFINE row == [AbsentRow EXCEPT !.state = "queued", !.cur = 1, !.run = 1]
<1>1. /\ task[t].state = "absent" /\ Write(t, row) /\ UNCHANGED <<proc, shown, rows>> /\ OneFailure
      /\ row.state = "queued" /\ ~row.terminal
  BY DEF Submit, Enqueue, procVars, OneFailure, AbsentRow
<1> HIDE DEF row
<1>2. task'[t] = row
  BY <1>1, OtherRows DEF Desk, TdTypeOK
<1>3. RowsFit(t)' /\ ShownSoon(t)'
  BY <1>1, <1>2 DEF Hand, RowsFit, ShownSoon, OneFailure
<1> QED BY <1>1, <1>3, FreeTask

\* What a row of the tracker says once it is shown.
LEMMA ShownRow ==
  ASSUME Desk, NEW t \in Tasks, NEW v, ShowTerminal(t, v)
  PROVE  /\ shown'[t] = v /\ rows'[t] = rows[t] + 1
         /\ \A u \in Tasks \ {t} : shown'[u] = shown[u] /\ rows'[u] = rows[u]
BY DEF ShowTerminal, Desk, TdTypeOK

\* A queued task is shown as pending, so its end is its first terminal row.
LEMMA FirstRow ==
  ASSUME Desk, Hand, NEW t \in Tasks, task[t].state = "queued", NEW v, v # "pending",
         ShowTerminal(t, v), task'[t].state \notin {"absent", "queued"}
  PROVE  RowsFit(t)' /\ ShownSoon(t)'
<1>1. rows[t] = 0
  BY DEF Hand, RowsFit
<1>2. shown'[t] = v /\ rows'[t] = 1
  BY <1>1, ShownRow
<1> QED BY <1>2 DEF RowsFit, ShownSoon

LEMMA CancelQueuedHand ==
  ASSUME Desk, Hand, NEW t \in Tasks, CancelQueued(t)
  PROVE  Hand'
<1>1. /\ task[t].state = "queued" /\ Write(t, Closed(task[t], "cancelled"))
      /\ ShowTerminal(t, "cancelled") /\ UNCHANGED proc /\ OneFailure
  BY DEF CancelQueued, RequestCancelIdle, MarkTerminalUnfenced, OneFailure
<1>2. Closed(task[t], "cancelled").state = "cancelled"
  BY RowFacts, ClosedRow DEF Desk, TaskState
<1>3. task'[t].state = "cancelled"
  BY <1>1, <1>2, OtherRows DEF Desk, TdTypeOK
<1>4. RowsFit(t)' /\ ShownSoon(t)'
  BY <1>1, <1>3, FirstRow
<1> QED BY <1>1, <1>4, ShownRow, FreeTask

\* A request to cancel leaves the claim of the run good.
LEMMA CancelRunningHand ==
  ASSUME Desk, Hand, NEW t \in Tasks, CancelRunning(t)
  PROVE  Hand'
<1> DEFINE row == [task[t] EXCEPT !.state = "cancel_requested", !.cancelReq = TRUE]
<1>1. /\ task[t].state \in {"claimed", "running"} /\ Write(t, row) /\ OneFailure
      /\ UNCHANGED <<proc, shown, rows, fault>>
  BY DEF CancelRunning, RequestCancelRunning, procVars, OneFailure
<1>2. task[t] \in TaskRow /\ RowInv(t)
  BY RowFacts DEF Desk
<1>3. /\ row.state = "cancel_requested" /\ row.terminal = task[t].terminal
      /\ row.gen = task[t].gen /\ row.cur = task[t].cur /\ row.owner = task[t].owner
  BY <1>2 DEF TaskRow
<1> HIDE DEF row
<1>4. PICK T \in SUBSET Tasks : T = {t}
  OBVIOUS
<1>5. task'[t] = row /\ \A u \in Tasks \ T : Untouched(u)
  BY <1>1, <1>4, OtherRows DEF Desk, TdTypeOK, Untouched
<1>6. ASSUME NEW x \in Workers, Holds(proc[x]), proc[x].claim.task \in T
      PROVE  Grip(proc[x], task'[proc[x].claim.task], shown'[proc[x].claim.task], fault')
  <2>1. Grip(proc[x], task[t], shown[t], fault)
    BY <1>4, <1>6 DEF Hand, Hold
  <2>2. Fits(proc[x].claim, row) = Fits(proc[x].claim, task[t])
    BY <1>3 DEF Fits
  <2>3. Grip(proc[x], row, shown[t], fault)
    BY <1>3, <2>1, <2>2 DEF Grip
  <2> QED BY <1>1, <1>4, <1>5, <1>6, <2>3
<1>7. RowsFit(t)' /\ ShownSoon(t)'
  <2>1. ~task[t].terminal
    BY <1>1, <1>2 DEF RowInv
  <2> QED BY <1>1, <1>3, <1>5, <2>1 DEF Hand, RowsFit, ShownSoon
<1> QED BY <1>1, <1>4, <1>5, <1>6, <1>7, HandStill

\* The sweep fails what is still queued; what somebody has ended is left alone.
LEMMA FailQueuedHand ==
  ASSUME Desk, Hand, NEW w \in Workers, NEW t \in Tasks, FailQueued(w, t)
  PROVE  Hand'
<1> DEFINE p == proc[w]
<1>1. /\ p \in Process /\ p.phase = "sweeping" /\ t \in p.list /\ p.claim = NoClaim
      /\ task[t].state \in Listable
      /\ \/ FailIfActive(t, task[t].cur) /\ ShowTerminal(t, "failed") /\ fault' = fault
         \/ FailIfActive(t, task[t].cur) /\ ShowNothing /\ fault = "none" /\ fault' = "append"
         \/ UNCHANGED <<task, shown, rows>> /\ OneFailure
  BY DeskOf DEF FailQueued, Fails, Works, ShowNothing, OneFailure, storeVars, Local, Hands,
     InLoop, InCleanup, Closing, Listed, Listing
<1>2. PICK l \in SUBSET p.list : l = p.list \ {t}
  OBVIOUS
<1> DEFINE q == [p EXCEPT !.list = l]
<1>3. Put(w, q)
  BY <1>2 DEF FailQueued
<1>4. q \in Process /\ q.claim = NoClaim
  BY <1>1 DEF Process
<1> HIDE DEF q
<1>5. ~Holds(q) /\ p.phase \notin Closing
  BY <1>1, <1>4 DEF Holds, Closing
<1>6. CASE UNCHANGED <<task, shown, rows>> /\ OneFailure
  BY <1>3, <1>4, <1>5, <1>6, HandLetGo
<1>7. ASSUME FailIfActive(t, task[t].cur), OneFailure,
             \A u \in Tasks \ {t} : shown'[u] = shown[u] /\ rows'[u] = rows[u],
             \/ ShowTerminal(t, "failed")
             \/ ShowNothing /\ fault' = "append"
      PROVE  Hand'
  <2>1. task[t] \in TaskRow /\ RowInv(t)
    BY RowFacts DEF Desk
  <2>2. Write(t, Closed(task[t], "failed")) /\ task[t].state = "queued"
    BY <1>1, <1>7, <2>1 DEF FailIfActive, RowInv, Listable
  <2>3. Closed(task[t], "failed").state = "failed"
    BY <2>1, ClosedRow DEF TaskState
  <2>4. PICK T \in SUBSET Tasks : T = {t}
    OBVIOUS
  <2>5. task'[t].state = "failed" /\ \A u \in Tasks \ T : Untouched(u)
    BY <1>7, <2>2, <2>3, <2>4, OtherRows DEF Desk, TdTypeOK, Untouched
  <2>6. ASSUME NEW x \in Workers \ {w}, Holds(proc[x]), proc[x].claim.task \in T
        PROVE  Grip(proc[x], task'[proc[x].claim.task], shown'[proc[x].claim.task], fault')
    BY <1>7, <2>2, <2>4, <2>6, LooseOnFree
  <2>7. RowsFit(t)' /\ ShownSoon(t)'
    <3>1. CASE ShowTerminal(t, "failed")
      BY <2>2, <2>5, <3>1, FirstRow
    <3>2. CASE ShowNothing /\ fault' = "append"
      BY <1>7, <2>2, <2>5, <3>2 DEF Hand, RowsFit, ShownSoon, ShowNothing, Tolerated, OneFailure
    <3> QED BY <1>7, <3>1, <3>2
  <2>8. \A u \in T : RowsFit(u)' /\ ShownSoon(u)'
    BY <2>4, <2>7
  <2> QED BY <1>3, <1>4, <1>5, <1>7, <2>5, <2>6, <2>8, HandStep
<1>8. CASE FailIfActive(t, task[t].cur) /\ ShowTerminal(t, "failed") /\ fault' = fault
  BY <1>7, <1>8, ShownRow DEF OneFailure
<1>9. CASE FailIfActive(t, task[t].cur) /\ ShowNothing /\ fault = "none" /\ fault' = "append"
  BY <1>7, <1>9 DEF OneFailure, ShowNothing
<1> QED BY <1>1, <1>6, <1>8, <1>9

\* A claim: nobody but a daemon that stalled has one on the task.
LEMMA TakeHand ==
  ASSUME Desk, Hand, NEW w \in Workers, NEW t \in Tasks, Take(w, t)
  PROVE  Hand'
<1> DEFINE p == proc[w]
           c == TakenClaim(w, t)
           r == TakenRow(w, t)
           q == [p EXCEPT !.phase = "processing", !.claim = c]
<1>1. /\ p \in Process /\ p.phase = "idle" /\ p.claim = NoClaim /\ ~p.token
      /\ Put(w, q) /\ UNCHANGED <<shown, rows>> /\ OneFailure
      /\ task[t].state = "queued" /\ Write(t, r)
  <2>1. task[t].state = "queued" /\ Write(t, r)
    BY TakeWrites
  <2> QED BY <2>1, DeskOf DEF Take, TakenClaim, OneFailure, Local, Hands, InLoop, InCleanup, Closing
<1>2. c \in Claim /\ c.task = t /\ Fits(c, r) /\ r.state = "running" /\ ~r.terminal
  <2>1. StoreInv
    BY DEF Desk
  <2> QED BY <1>1, <2>1, Taken DEF Fits
<1> HIDE DEF c, r
<1>3. q \in Process /\ q.phase = "processing" /\ q.claim = c /\ ~q.token
  BY <1>1, <1>2 DEF Process, Phase
<1> HIDE DEF q
<1>4. PICK T \in SUBSET Tasks : T = {t}
  OBVIOUS
<1>5. task'[t] = r /\ \A u \in Tasks \ T : Untouched(u)
  BY <1>1, <1>4, OtherRows DEF Desk, TdTypeOK, Untouched
<1>6. ASSUME NEW x \in Workers \ {w}, Holds(proc[x]), proc[x].claim.task \in T
      PROVE  /\ fault = "stall"
             /\ Grip(proc[x], task'[proc[x].claim.task], shown'[proc[x].claim.task], fault')
  BY <1>1, <1>4, <1>6, LooseOnFree
<1>7. Grip(q, task'[q.claim.task], shown'[q.claim.task], fault')
  <2>1. shown'[t] = "pending"
    BY <1>1 DEF Hand, RowsFit
  <2> QED BY <1>2, <1>3, <1>5, <2>1 DEF Grip, InLoop, InCleanup, Closing
<1>8. fault' # "stall" => \A x \in Workers \ {w} : Holds(proc[x]) => proc[x].claim.task # q.claim.task
  BY <1>1, <1>2, <1>3, <1>4, <1>6 DEF OneFailure
<1>9. \A u \in T : RowsFit(u)' /\ ShownSoon(u)'
  BY <1>1, <1>2, <1>4, <1>5 DEF Hand, RowsFit, ShownSoon, OneFailure
<1> QED BY <1>1, <1>3, <1>5, <1>6, <1>7, <1>8, <1>9, HandStep DEF Closing

-----------------------------------------------------------------------------
(* Recovery.                                                               *)

\* An orphan in somebody's hands is in those of a daemon that stalled in its cleanup,
\* or its claim was lost to one before.
LEMMA OrphanHeld ==
  ASSUME Desk, Hand, NEW stale \in SUBSET Workers,
         \A x \in stale : proc[x].phase \in CleanupPhase,
         NEW x \in Workers, Holds(proc[x]), Orphaned(proc[x].claim.task, Running \ stale)
  PROVE  \/ ~Fits(proc[x].claim, task[proc[x].claim.task])
         \/ proc[x].phase \in InCleanup /\ stale # {}
<1> DEFINE t == proc[x].claim.task
<1>1. t \in Tasks /\ proc[x].claim.worker = x /\ proc[x].phase \in InLoop \cup InCleanup \cup Closing
  BY HoldsWhere
<1>2. SUFFICES ASSUME Fits(proc[x].claim, task[t]) PROVE proc[x].phase \in InCleanup /\ stale # {}
  OBVIOUS
<1>3. task[t].owner = x /\ ~task[t].terminal
  BY <1>1, <1>2 DEF Fits
<1>4. x \in Running
  BY <1>1 DEF Running, LoopPhase, CleanupPhase, InLoop, InCleanup, Closing
<1>5. x \in stale
  BY <1>1, <1>3, <1>4 DEF Orphaned, Desk, Plain
<1>6. proc[x].phase \notin Closing
  BY <1>1, <1>3 DEF Hand, Hold, Grip
<1> QED BY <1>1, <1>5, <1>6 DEF InLoop, CleanupPhase

\* An orphan that is shown as over is closed with the verdict shown, any other is
\* queued again.
LEMMA OrphanRow ==
  ASSUME Desk, NEW t \in Tasks, NEW alive, NEW seen, Orphaned(t, alive),
         RecoverOrphanedClaims(alive, seen),
         seen[t] = IF shown[t] = "pending" THEN "none" ELSE shown[t]
  PROVE  IF shown[t] = "pending" THEN ~task'[t].terminal /\ task'[t].state = "queued"
         ELSE task'[t].terminal = TRUE /\ task'[t].state = shown[t]
<1>1. task[t] \in TaskRow /\ RowInv(t) /\ shown[t] \in Row
  BY RowFacts DEF Desk, TdTypeOK
<1>2. CASE shown[t] = "pending"
  <2>1. task'[t] = Requeued(task[t])
    BY <1>2 DEF RecoverOrphanedClaims
  <2> QED BY <1>1, <1>2, <2>1, RequeuedRow DEF Orphaned, RowInv
<1>3. CASE shown[t] # "pending"
  <2>1. seen[t] = shown[t] /\ seen[t] # "none" /\ seen[t] \in TaskState
    BY <1>1, <1>3 DEF Row, TaskState
  <2>2. task'[t] = Closed(task[t], seen[t])
    BY <2>1 DEF RecoverOrphanedClaims
  <2>3. /\ Closed(task[t], seen[t]).state = seen[t]
        /\ Closed(task[t], seen[t]).terminal = TRUE
    BY <1>1, <2>1, ClosedRow
  <2> QED BY <1>3, <2>1, <2>2, <2>3
<1> QED BY <1>2, <1>3

LEMMA RecoverHand ==
  ASSUME Desk, Hand, NEW w \in Workers, NEW stale \in SUBSET Workers, Recover(w, stale)
  PROVE  Hand'
<1> DEFINE view == [t \in Tasks |-> IF shown[t] = "pending" THEN "none" ELSE shown[t]]
<1>1. PICK seen : seen = view
  OBVIOUS
<1>2. PICK alive \in SUBSET Workers : alive = Running \ stale
  BY DEF Running
<1>3. /\ RecoverOrphanedClaims(alive, seen) /\ UNCHANGED <<proc, shown, rows>> /\ OneFailure
      /\ \A x \in stale : proc[x].phase \in CleanupPhase
      /\ stale # {} => fault' = "stall"
  BY <1>1, <1>2 DEF Recover, Works, Fails, OneFailure
<1>4. \A t \in Tasks : seen[t] = IF shown[t] = "pending" THEN "none" ELSE shown[t]
  BY <1>1
<1> HIDE DEF view
<1>5. PICK T \in SUBSET Tasks : T = {t \in Tasks : Orphaned(t, alive)}
  OBVIOUS
<1>6. \A u \in Tasks \ T : Untouched(u)
  BY <1>3, <1>5 DEF Untouched, RecoverOrphanedClaims
<1>7. \A u \in T : IF shown[u] = "pending" THEN ~task'[u].terminal /\ task'[u].state = "queued"
                   ELSE task'[u].terminal = TRUE /\ task'[u].state = shown[u]
  BY <1>3, <1>4, <1>5, OrphanRow
<1>8. ASSUME NEW x \in Workers, Holds(proc[x]), proc[x].claim.task \in T
      PROVE  Grip(proc[x], task'[proc[x].claim.task], shown'[proc[x].claim.task], fault')
  <2> DEFINE t == proc[x].claim.task
  <2>1. Orphaned(t, alive) /\ ~task[t].terminal
    BY <1>5, <1>8, RowFacts DEF Orphaned, Desk, RowInv
  <2>2. CASE ~Fits(proc[x].claim, task[t])
    BY <1>3, <1>8, <2>1, <2>2, LooseGrip
  <2>3. CASE proc[x].phase \in InCleanup /\ stale # {}
    <3>1. fault' = "stall"
      BY <1>3, <2>3
    <3>2. proc[x].token => shown[t] # "pending"
      BY <1>8 DEF Hand, Hold, Grip
    <3> QED BY <1>3, <1>7, <1>8, <2>3, <3>1, <3>2 DEF Grip, InLoop, InCleanup, Closing
  <2> QED BY <1>2, <1>3, <1>8, <2>1, <2>2, <2>3, OrphanHeld
<1>9. ASSUME NEW u \in T PROVE RowsFit(u)' /\ ShownSoon(u)'
  <2>1. /\ u \in Tasks /\ RowsFit(u) /\ shown[u] \in Row
    BY <1>5, <1>9 DEF Hand, Desk, TdTypeOK
  <2>2. IF shown[u] = "pending" THEN ~task'[u].terminal /\ task'[u].state = "queued"
        ELSE task'[u].terminal = TRUE /\ task'[u].state = shown[u]
    BY <1>7, <1>9
  <2>3. RowsFit(u)'
    BY <1>3, <2>1, <2>2 DEF RowsFit, OneFailure, Row
  <2>4. ShownSoon(u)'
    BY <1>3, <2>2 DEF ShownSoon
  <2> QED BY <2>3, <2>4
<1> QED BY <1>3, <1>6, <1>8, <1>9, HandStill

-----------------------------------------------------------------------------
LEMMA HandInit == TdInit => Hand
<1> SUFFICES ASSUME TdInit PROVE Hand
  OBVIOUS
<1>1. ASSUME NEW w \in Workers PROVE ~Holds(proc[w])
  BY DEF TdInit, Fresh, Holds
<1>2. ASSUME NEW t \in Tasks PROVE RowsFit(t) /\ ShownSoon(t)
  BY DEF TdInit, StoreInit, AbsentRow, RowsFit, ShownSoon
<1> QED BY <1>1, <1>2 DEF Hand, Hold, Apart

LEMMA WorkHand == Desk /\ Hand /\ WorkNext => Hand'
BY SubmitHand, CancelRunningHand, CancelQueuedHand, SpawnHand, LaunchedHand, LaunchFailsHand,
   RecoverHand, TakeHand, HandlerEndsHand, HandlerRefusesHand, EndNormallyHand DEF WorkNext

LEMMA StopHandStep == Desk /\ Hand /\ StopNext => Hand'
BY StopShape, SignalShape, DrainShape, BrowserLostShape, AbortShape, HearsHand,
   SignalMidRunHand, CrashHand, WedgeHand DEF StopNext

LEMMA TeardownHand == Desk /\ Hand /\ TeardownNext => Hand'
BY LookForPeersHand, LoopReassignsHand, LoopClosesHand, LoopShowsHand, FindPeersHand,
   CleanupReassignsHand, CleanupClosesHand, CleanupShowsHand, ListQueueHand, ReadAgainHand,
   ExitHand, FailQueuedHand DEF TeardownNext

LEMMA HandNext == Desk /\ Hand /\ [TdNext]_tdVars => Hand'
<1> SUFFICES ASSUME Desk, Hand, [TdNext]_tdVars PROVE Hand'
  OBVIOUS
<1>1. CASE UNCHANGED tdVars
  <2>1. UNCHANGED <<task, proc, shown, rows, fault>>
    BY <1>1 DEF tdVars
  <2> QED BY <2>1 DEF Hand, Hold, Apart, RowsFit, ShownSoon
<1> QED BY <1>1, WorkHand, StopHandStep, TeardownHand DEF TdNext

\* However stops, signals, sweeps and the end of a handler meet, and whichever daemon
\* closes a run, it gets one terminal row, unless a heartbeat was late.
THEOREM OneRowPerRun == TdSpec => []OneTerminalRow
<1>1. Hand => OneTerminalRow
  BY DEF Hand, RowsFit, OneTerminalRow
<1> QED BY <1>1, DeskInit, HandInit, DeskNext, HandNext, PTL DEF TdSpec

\* What is over is shown as over, what is queued as pending, once no daemon is left
\* between its write to the store and its row.
THEOREM TrackerAgrees == TdSpec => []RowsMatchStore
<1>1. Hand => RowsMatchStore
  BY DEF Hand, RowsFit, ShownSoon, RowsMatchStore, AtRest, Closing, Tolerated
<1> QED BY <1>1, DeskInit, HandInit, DeskNext, HandNext, PTL DEF TdSpec

-----------------------------------------------------------------------------
(* The third layer.                                                        *)

Calm == fault = "none" /\ ~cutShort

\* p has the run of t in hand, or was killed with whatever it had.
InHandOf(p, t) ==
  \/ p.phase = "killed"
  \/ Holds(p) /\ p.phase \in InLoop \cup InCleanup /\ p.claim.task = t

\* A task that is owned is in its owner's hands.
Owned(t) == task[t].state \in OwnedState => InHandOf(proc[task[t].owner], t)

\* p is still to claim or to sweep a queued t, or has an excuse for leaving it.
Bearing == LoopPhase \cup InCleanup \cup {"closing2", "sweep", "killed"}
Carries(p, t) ==
  \/ p.phase \in Bearing
  \/ p.phase \in Listing /\ t \in p.list
  \/ p.phase \in CleanupPhase \cup {"exited"} /\ p.excused

\* Somebody carries a queued task, unless every daemon is wedged.
Carried(t) ==
  task[t].state = "queued" =>
    \/ \E w \in Workers : Carries(proc[w], t)
    \/ \A w \in Workers : proc[w].phase = "wedged"

Kept == Calm => \A t \in Tasks : Owned(t) /\ Carried(t)
\* The owned tasks a step of w leaves in good hands when w becomes q ...
StaysOwned(w, q, t) ==
  task'[t].state \in OwnedState =>
    \/ task'[t].owner = w /\ InHandOf(q, t)
    \/ /\ task[t].state \in OwnedState /\ task'[t].owner = task[t].owner
       /\ task[t].owner = w /\ InHandOf(proc[w], t) => InHandOf(q, t)

\* ... and the queued ones.
StaysCarried(w, q, t) ==
  task'[t].state = "queued" =>
    \/ Carries(q, t)
    \/ \E x \in Workers \ {w} : Carries(proc[x], t)
    \/ task[t].state = "queued" /\ ~Carries(proc[w], t)
    \/ q.phase = "wedged" /\ Workers = {w}

LEMMA KeptStep ==
  ASSUME Desk, Kept, NEW w \in Workers, NEW q \in Process, Put(w, q),
         proc[w].phase # "wedged",
         Calm' => Calm /\ \A t \in Tasks : StaysOwned(w, q, t) /\ StaysCarried(w, q, t)
  PROVE  Kept'
<1>1. proc'[w] = q /\ \A x \in Workers \ {w} : proc'[x] = proc[x]
  BY Others DEF Desk
<1>2. SUFFICES ASSUME Calm', NEW t \in Tasks PROVE Owned(t)' /\ Carried(t)'
  BY DEF Kept
<1>3. Owned(t) /\ Carried(t) /\ StaysOwned(w, q, t) /\ StaysCarried(w, q, t)
  BY <1>2 DEF Kept
<1>4. Owned(t)'
  <2>1. SUFFICES ASSUME task'[t].state \in OwnedState
                 PROVE  InHandOf(proc'[task'[t].owner], t)
    BY DEF Owned, InHandOf, Holds
  <2>2. CASE task'[t].owner = w /\ InHandOf(q, t)
    BY <1>1, <2>2
  <2>3. CASE /\ task[t].state \in OwnedState /\ task'[t].owner = task[t].owner
             /\ task[t].owner = w /\ InHandOf(proc[w], t) => InHandOf(q, t)
    <3>1. task[t].owner \in Workers /\ InHandOf(proc[task[t].owner], t)
      BY <1>3, <2>3, RowFacts DEF Owned, Desk, RowInv, TaskRow
    <3> QED BY <1>1, <2>3, <3>1
  <2> QED BY <1>3, <2>1, <2>2, <2>3 DEF StaysOwned
<1>5. Carried(t)'
  <2>1. SUFFICES ASSUME task'[t].state = "queued"
                 PROVE  \/ \E x \in Workers : Carries(proc'[x], t)
                        \/ \A x \in Workers : proc'[x].phase = "wedged"
    BY DEF Carried, Carries
  <2>2. CASE Carries(q, t)
    BY <1>1, <2>2
  <2>3. CASE \E x \in Workers \ {w} : Carries(proc[x], t)
    BY <1>1, <2>3
  <2>4. CASE task[t].state = "queued" /\ ~Carries(proc[w], t)
    BY <1>1, <1>3, <2>4 DEF Carried
  <2>5. CASE q.phase = "wedged" /\ Workers = {w}
    BY <1>1, <2>5
  <2> QED BY <1>3, <2>1, <2>2, <2>3, <2>4, <2>5 DEF StaysCarried
<1> QED BY <1>4, <1>5

\* A step that leaves the processes alone.
LEMMA KeptStill ==
  ASSUME Desk, Kept, UNCHANGED proc,
         Calm' => /\ Calm
                  /\ \A t \in Tasks :
                       /\ task'[t].state \in OwnedState =>
                            task[t].state \in OwnedState /\ task'[t].owner = task[t].owner
                       /\ task'[t].state = "queued" =>
                            task[t].state = "queued" \/ \E x \in Workers : Carries(proc[x], t)
  PROVE  Kept'
BY DEF Kept, Owned, Carried, Carries, InHandOf, Holds

\* A step of the processes alone.
LEMMA KeptQuiet ==
  ASSUME Desk, Kept, NEW w \in Workers, NEW q \in Process, Put(w, q), UNCHANGED task,
         proc[w].phase # "wedged", Calm' => Calm,
         \A t \in Tasks :
           /\ task[t].state \in OwnedState /\ InHandOf(proc[w], t) => InHandOf(q, t)
           /\ task[t].state = "queued" /\ Carries(proc[w], t) =>
                \/ Carries(q, t)
                \/ \E x \in Workers \ {w} : Carries(proc[x], t)
                \/ q.phase = "wedged" /\ Workers = {w}
  PROVE  Kept'
<1>1. ASSUME NEW t \in Tasks PROVE StaysOwned(w, q, t) /\ StaysCarried(w, q, t)
  BY DEF StaysOwned, StaysCarried
<1> QED BY <1>1, KeptStep

LEMMA AloneCalm ==
  ASSUME NEW w, NEW q, Alone(w, q)
  PROVE  Put(w, q) /\ UNCHANGED task /\ (Calm' => Calm)
BY DEF Alone, storeVars, Calm

\* A process in a bearing phase, nobody's run given up.
LEMMA KeptBearing ==
  ASSUME Desk, Kept, NEW w \in Workers, NEW q \in Process, Put(w, q), UNCHANGED task,
         proc[w].phase # "wedged", Calm' => Calm, q.phase \in Bearing,
         \A t \in Tasks :
           task[t].state \in OwnedState /\ InHandOf(proc[w], t) => InHandOf(q, t)
  PROVE  Kept'
BY KeptQuiet DEF Carries

LEMMA HearsKept ==
  ASSUME Desk, Kept, NEW w \in Workers, NEW q \in Process, Alone(w, q), Hears(proc[w], q),
         proc[w].phase # "wedged"
  PROVE  Kept'
<1>1. Put(w, q) /\ UNCHANGED task /\ (Calm' => Calm)
  BY AloneCalm
<1>2. \A t \in Tasks : InHandOf(proc[w], t) => InHandOf(q, t)
  BY DEF Hears, InHandOf, Holds
<1>3. \A t \in Tasks : Carries(proc[w], t) => Carries(q, t)
  BY DEF Hears, Carries
<1> QED BY <1>1, <1>2, <1>3, KeptQuiet

LEMMA StopKept ==
  ASSUME Desk, Kept, NEW w \in Workers,
         \/ \E r \in BOOLEAN : Stop(w, r)
         \/ Signal(w) \/ Drain(w) \/ BrowserLost(w) \/ Abort(w)
  PROVE  Kept'
<1>1. proc[w].phase # "wedged"
  BY DEF Stop, Signal, Drain, BrowserLost, Abort, Told, LoopPhase, CleanupPhase
<1> QED BY <1>1, StopShape, SignalShape, DrainShape, BrowserLostShape, AbortShape, HearsKept

LEMMA SpawnKept ==
  ASSUME Desk, Kept, NEW w \in Workers, Spawn(w)
  PROVE  Kept'
<1>1. PICK q \in Process : /\ Alone(w, q) /\ Keeps(proc[w], q)
                           /\ proc[w].phase = "off" /\ q.phase = "launching"
  BY SpawnShape
<1>2. q.phase \in Bearing /\ \A t \in Tasks : ~InHandOf(proc[w], t)
  BY <1>1 DEF Bearing, LoopPhase, InHandOf, InLoop, InCleanup
<1> QED BY <1>1, <1>2, AloneCalm, KeptBearing

LEMMA LaunchedKept ==
  ASSUME Desk, Kept, NEW w \in Workers, Launched(w)
  PROVE  Kept'
<1>1. PICK q \in Process : /\ Alone(w, q) /\ Keeps(proc[w], q)
                           /\ proc[w].phase = "launching"
                           /\ q.phase = IF proc[w].stopping THEN "cleanup" ELSE "idle"
  BY LaunchedShape
<1>2. q.phase \in Bearing /\ \A t \in Tasks : ~InHandOf(proc[w], t)
  BY <1>1 DEF Bearing, LoopPhase, InHandOf, InLoop, InCleanup
<1> QED BY <1>1, <1>2, AloneCalm, KeptBearing

\* A throw takes the run along into the cleanup.
LEMMA ThrownKept ==
  ASSUME Desk, Kept, NEW w \in Workers, Put(w, Thrown(proc[w])), UNCHANGED task,
         proc[w].phase \in LoopPhase, Calm' => Calm
  PROVE  Kept'
<1> DEFINE q == Thrown(proc[w])
<1>1. proc[w] \in Process
  BY DeskOf
<1>2. q \in Process /\ q.phase = "cleanup" /\ q.claim = proc[w].claim
  BY <1>1, ThrownProcess
<1> HIDE DEF q
<1>3. q.phase \in Bearing /\ proc[w].phase \notin {"wedged", "killed"}
  BY <1>2 DEF Bearing, InCleanup, LoopPhase
<1>4. \A t \in Tasks : InHandOf(proc[w], t) => InHandOf(q, t)
  BY <1>2, <1>3 DEF InHandOf, Holds, InCleanup
<1>5. Put(w, q)
  BY DEF q
<1> QED BY <1>2, <1>3, <1>4, <1>5, KeptBearing

LEMMA LaunchFailsKept ==
  ASSUME Desk, Kept, NEW w \in Workers, LaunchFails(w) \/ HandlerRefuses(w)
  PROVE  Kept'
<1>1. Put(w, Thrown(proc[w])) /\ UNCHANGED task /\ proc[w].phase \in LoopPhase /\ (Calm' => Calm)
  BY DEF LaunchFails, HandlerRefuses, storeVars, LoopPhase, Calm
<1> QED BY <1>1, ThrownKept

\* The last daemon that is not wedged stays.
LEMMA WedgeKept ==
  ASSUME Desk, Kept, NEW w \in Workers, Wedge(w)
  PROVE  Kept'
<1>1. PICK q \in Process : /\ Alone(w, q) /\ Keeps(proc[w], q)
                           /\ proc[w].phase = "idle" /\ q.phase = "wedged"
  BY WedgeShape
<1>2. \A t \in Tasks : ~InHandOf(proc[w], t)
  BY <1>1 DEF InHandOf, InLoop, InCleanup
<1>3. ASSUME NEW x \in Workers \ {w} PROVE \A t \in Tasks : Carries(proc[x], t)
  BY <1>3 DEF Wedge, Serving, Carries, Bearing
<1>4. Workers = {w} \/ \E x \in Workers : x \in Workers \ {w}
  OBVIOUS
<1> QED BY <1>1, <1>2, <1>3, <1>4, AloneCalm, KeptQuiet

LEMMA CrashKept ==
  ASSUME Desk, Kept, NEW w \in Workers, Crash(w)
  PROVE  Kept'
BY DEF Crash, Fails, Kept, Calm

LEMMA LookForPeersKept ==
  ASSUME Desk, Kept, NEW w \in Workers, LookForPeers(w)
  PROVE  Kept'
<1>1. PICK q \in Process :
        /\ Alone(w, q) /\ Keeps(proc[w], q)
        /\ proc[w].phase = "returned" /\ q.phase = "acting"
  BY LookForPeersShape
<1>2. q.phase \in Bearing /\ \A t \in Tasks : InHandOf(proc[w], t) => InHandOf(q, t)
  BY <1>1 DEF Bearing, LoopPhase, Keeps, InHandOf, Holds, InLoop
<1> QED BY <1>1, <1>2, AloneCalm, KeptBearing

\* A run that is over is let go.
LEMMA FindPeersKept ==
  ASSUME Desk, Kept, NEW w \in Workers, FindPeers(w)
  PROVE  Kept'
<1>1. PICK q \in Process :
        /\ Alone(w, q) /\ proc[w].phase = "cleanup"
        /\ \/ q.phase = "sweep" /\ (proc[w].claim = NoClaim \/ AlreadyShown(proc[w].claim))
           \/ q.phase = "inflight" /\ Keeps(proc[w], q)
  BY FindPeersShape
<1>2. q.phase \in Bearing
  BY <1>1 DEF Bearing, InCleanup
<1>3. ASSUME NEW t \in Tasks, task[t].state \in OwnedState, InHandOf(proc[w], t)
      PROVE  InHandOf(q, t)
  <2>1. proc[w].claim # NoClaim /\ proc[w].claim.task = t
    BY <1>1, <1>3 DEF InHandOf, Holds
  <2>2. ~AlreadyShown(proc[w].claim)
    BY <1>3, <2>1 DEF AlreadyShown, OwnedState
  <2> QED BY <1>1, <2>1, <2>2 DEF InHandOf, Holds, Keeps, InCleanup
<1> QED BY <1>1, <1>2, <1>3, AloneCalm, KeptBearing

\* A sweep lists every task that is queued; who leaves without one has an excuse, or
\* has seen a peer that will do the work or has an excuse of its own.
LEMMA ListQueueKept ==
  ASSUME Desk, Kept, NEW w \in Workers, ListQueue(w)
  PROVE  Kept'
<1>1. PICK q \in Process :
        /\ Alone(w, q) /\ proc[w].phase = "sweep"
        /\ \/ q.phase = "listed" /\ q.list = {t \in Tasks : task[t].state = "queued"}
           \/ q.phase = "leaving" /\ (q.excused \/ Available(proc[w].alive) # {})
  BY ListQueueShape
<1>2. \A t \in Tasks : ~InHandOf(proc[w], t)
  BY <1>1 DEF InHandOf, InLoop, InCleanup
<1>3. ASSUME NEW x \in Available(proc[w].alive)
      PROVE  x \in Workers \ {w} /\ \A t \in Tasks : Carries(proc[x], t)
  <2>1. View(w, proc[w]) /\ proc[w].alive \subseteq Workers /\ x \in proc[w].alive
    BY <1>3, DeskOf DEF Process, Available
  <2>2. x \in Workers \ {w}
    BY <1>1, <2>1 DEF View, Deciding
  <2>3. Local(x, proc[x], issued, fault)
    BY <2>2, DeskOf
  <2> QED BY <1>3, <2>2, <2>3 DEF Available, Local, Carries, Bearing
<1>4. ASSUME NEW t \in Tasks, task[t].state = "queued"
      PROVE  Carries(q, t) \/ \E x \in Workers \ {w} : Carries(proc[x], t)
  BY <1>1, <1>3, <1>4 DEF Carries, Listing, CleanupPhase
<1> QED BY <1>1, <1>2, <1>4, AloneCalm, KeptQuiet

LEMMA ReadAgainKept ==
  ASSUME Desk, Kept, NEW w \in Workers, ReadAgain(w)
  PROVE  Kept'
<1>1. PICK q \in Process :
        /\ Alone(w, q) /\ proc[w].phase = "listed" /\ q.phase = "sweeping"
        /\ q.excused = proc[w].excused
        /\ q.list = {t \in proc[w].list : task[t].state = "queued"}
  BY ReadAgainShape
<1>2. \A t \in Tasks : ~InHandOf(proc[w], t)
  BY <1>1 DEF InHandOf, InLoop, InCleanup
<1>3. ASSUME NEW t \in Tasks, task[t].state = "queued", Carries(proc[w], t)
      PROVE  Carries(q, t)
  BY <1>1, <1>3 DEF Carries, Listing, CleanupPhase, Bearing, LoopPhase, InCleanup
<1> QED BY <1>1, <1>2, <1>3, AloneCalm, KeptQuiet

LEMMA ExitKept ==
  ASSUME Desk, Kept, NEW w \in Workers, Exit(w)
  PROVE  Kept'
<1>1. PICK q \in Process :
        /\ Alone(w, q) /\ q.phase = "exited" /\ q.excused = proc[w].excused
        /\ proc[w].phase = "leaving" \/ (proc[w].phase = "sweeping" /\ proc[w].list = {})
  BY ExitShape
<1>2. \A t \in Tasks : ~InHandOf(proc[w], t)
  BY <1>1 DEF InHandOf, InLoop, InCleanup
<1>3. ASSUME NEW t \in Tasks, Carries(proc[w], t)
      PROVE  Carries(q, t)
  BY <1>1, <1>3 DEF Carries, Listing, Bearing, LoopPhase, InCleanup
<1>4. proc[w].phase # "wedged"
  BY <1>1
<1> QED BY <1>1, <1>2, <1>3, <1>4, AloneCalm, KeptQuiet

-----------------------------------------------------------------------------
(* The steps of the handler and of the item in flight.                     *)

\* The phase of a process that turns, or whose cleanup goes on to sweep.
LEMMA TurnBears ==
  ASSUME NEW p \in Process
  PROVE  /\ Turn(p) \in Process /\ Turn(p).phase \in Bearing
         /\ Swept(p) \in Process /\ Swept(p).phase \in Bearing
BY TurnProcess, SweptProcess DEF Bearing, LoopPhase, InCleanup

\* w writes one row, of its run, that is then in nobody's hands.
LEMMA KeptWrites ==
  ASSUME Desk, Kept, NEW w \in Workers, Holds(proc[w]), NEW q \in Process, Put(w, q),
         q.phase \in Bearing, NEW row, Write(proc[w].claim.task, row),
         row.state \notin OwnedState, Calm' => Calm
  PROVE  Kept'
<1>1. PICK t \in Tasks : t = proc[w].claim.task
  BY HoldsWhere
<1>2. proc[w].phase \notin {"wedged", "killed"}
  BY HoldsWhere DEF InLoop, InCleanup, Closing
<1>3. ASSUME NEW u \in Tasks PROVE StaysOwned(w, q, u) /\ StaysCarried(w, q, u)
  <2>1. IF u = t THEN task'[u] = row ELSE task'[u] = task[u]
    BY <1>1, OtherRows DEF Desk, TdTypeOK
  <2>2. u # t => ~InHandOf(proc[w], u)
    BY <1>1, <1>2 DEF InHandOf
  <2>3. StaysOwned(w, q, u)
    BY <2>1, <2>2 DEF StaysOwned
  <2> QED BY <2>3 DEF StaysCarried, Carries
<1> QED BY <1>2, <1>3, KeptStep

\* What a terminal write or a re-queue makes of the row.
LEMMA ClosedIsFree ==
  ASSUME Desk, NEW c \in issued, NEW v \in Verdict, MarkTerminal(c, v)
  PROVE  Write(c.task, Closed(task[c.task], v)) /\ Closed(task[c.task], v).state \notin OwnedState
<1>1. FenceHolds(c) /\ Write(c.task, Closed(task[c.task], v))
  BY DEF MarkTerminal
<1>2. task[c.task] \in TaskRow
  BY <1>1, FencedRow
<1>3. v \in TaskState /\ v \notin OwnedState
  BY DEF Verdict, TaskState, OwnedState
<1>4. Closed(task[c.task], v).state = v
  BY <1>2, <1>3, ClosedRow
<1> QED BY <1>1, <1>3, <1>4

LEMMA HandlerEndsKept ==
  ASSUME Desk, Kept, NEW w \in Workers, NEW v \in Verdict, HandlerEnds(w, v)
  PROVE  Kept'
<1> DEFINE p == proc[w]
<1>1. /\ p \in Process /\ p.phase = "processing" /\ UNCHANGED task
      /\ cutShort' = cutShort /\ (fault' = fault \/ (fault = "none" /\ fault' = "append"))
  BY DeskOf DEF HandlerEnds, Works, Fails, storeVars
<1>2. Calm' => Calm
  BY <1>1 DEF Calm
<1>3. ASSUME NEW q \in Process, Put(w, q), q.phase = "returned", q.claim = p.claim
      PROVE  Kept'
  <2>1. q.phase \in Bearing /\ \A t \in Tasks : InHandOf(p, t) => InHandOf(q, t)
    BY <1>1, <1>3 DEF Bearing, LoopPhase, InHandOf, Holds, InLoop
  <2> QED BY <1>1, <1>2, <1>3, <2>1, KeptBearing
<1>4. ASSUME NEW b \in BOOLEAN, NEW u \in Verdict
      PROVE  LET q == [p EXCEPT !.phase = "returned", !.verdict = u, !.token = b] IN
             q \in Process /\ q.phase = "returned" /\ q.claim = p.claim
  BY <1>1 DEF Process, Phase
<1>5. CASE Put(w, [p EXCEPT !.phase = "returned", !.verdict = v])
  <2> DEFINE q == [p EXCEPT !.phase = "returned", !.verdict = v]
  <2>1. q \in Process /\ q.phase = "returned" /\ q.claim = p.claim
    BY <1>1 DEF Process, Phase
  <2>2. Put(w, q)
    BY <1>5
  <2> HIDE DEF q
  <2> QED BY <1>3, <2>1, <2>2
<1>6. ASSUME NEW u \in Verdict, Put(w, [p EXCEPT !.phase = "returned", !.verdict = u, !.token = TRUE])
      PROVE  Kept'
  <2> DEFINE q == [p EXCEPT !.phase = "returned", !.verdict = u, !.token = TRUE]
  <2>1. q \in Process /\ q.phase = "returned" /\ q.claim = p.claim
    BY <1>4
  <2>2. Put(w, q)
    BY <1>6
  <2> HIDE DEF q
  <2> QED BY <1>3, <2>1, <2>2
<1>7. CASE Put(w, [[p EXCEPT !.phase = "returned", !.verdict = v] EXCEPT !.token = TRUE])
  BY <1>6, <1>7
<1>8. CASE Put(w, [[p EXCEPT !.phase = "returned", !.verdict = v]
                      EXCEPT !.token = TRUE, !.verdict = "failed"])
  <2>1. [[p EXCEPT !.phase = "returned", !.verdict = v] EXCEPT !.token = TRUE, !.verdict = "failed"]
          = [p EXCEPT !.phase = "returned", !.verdict = "failed", !.token = TRUE]
    BY <1>1 DEF Process
  <2>2. "failed" \in Verdict
    BY DEF Verdict
  <2> QED BY <1>6, <1>8, <2>1, <2>2
<1> QED BY <1>5, <1>7, <1>8 DEF HandlerEnds

\* A signal takes the run of the daemon it kills along.
LEMMA SignalMidRunKept ==
  ASSUME Desk, Kept, NEW w \in Workers, SignalMidRun(w)
  PROVE  Kept'
<1> DEFINE q == [Fresh EXCEPT !.phase = "killed"]
<1>1. /\ proc[w].phase = "processing" /\ UNCHANGED task /\ Put(w, q) /\ (Calm' => Calm)
  BY DEF SignalMidRun, storeVars, Calm
<1>2. q \in Process /\ q.phase = "killed"
  BY FreshProcess DEF Fresh, Process, Phase
<1> HIDE DEF q
<1>3. q.phase \in Bearing /\ \A t \in Tasks : InHandOf(q, t)
  BY <1>2 DEF Bearing, InHandOf
<1> QED BY <1>1, <1>2, <1>3, KeptBearing

LEMMA EndNormallyKept ==
  ASSUME Desk, Hand, Kept, NEW w \in Workers, EndNormally(w)
  PROVE  Kept'
<1> DEFINE p == proc[w]
<1>1. /\ p.phase = "returned" /\ Put(w, Turn(p)) /\ (Calm' => Calm)
      /\ MarkTerminal(p.claim, p.verdict) \/ ~FenceHolds(p.claim)
  BY DEF EndNormally, Calm
<1>2. p \in Process /\ p.claim \in issued /\ p.verdict \in Verdict /\ Holds(p) /\ p.phase \in InLoop
  BY <1>1, DeskOf DEF Local, Hands, InLoop, Holds
<1>3. FenceHolds(p.claim)
  BY <1>2 DEF Hand, Hold, Grip, FenceHolds, Fits
<1>4. PICK q \in Process : q = Turn(p) /\ q.phase \in Bearing
  BY <1>2, TurnBears
<1> QED BY <1>1, <1>2, <1>3, <1>4, ClosedIsFree, KeptWrites

LEMMA LoopClosesKept ==
  ASSUME Desk, Hand, Kept, NEW w \in Workers, LoopCloses(w)
  PROVE  Kept'
<1> DEFINE p == proc[w]
           v == IF Transition(p) = "fail" THEN "failed" ELSE "cancelled"
           q == [p EXCEPT !.phase = "closing", !.verdict = v]
<1>1. /\ ActsInLoop(p)
      /\ \/ MarkTerminal(p.claim, v) /\ Put(w, q) /\ (Calm' => Calm)
         \/ ~FenceHolds(p.claim)
         \/ fault' = "store"
  BY DEF LoopCloses, Works, Fails, Calm
<1>2. p \in Process /\ p.claim \in issued /\ p.phase \in InLoop /\ Holds(p)
  BY <1>1, DeskOf DEF Local, Hands, InLoop, ActsInLoop, Holds
<1>3. FenceHolds(p.claim)
  BY <1>2 DEF Hand, Hold, Grip, FenceHolds, Fits
<1>4. v \in Verdict
  BY DEF Verdict
<1> HIDE DEF v
<1>5. q \in Process /\ q.phase \in Bearing
  BY <1>2, <1>4 DEF Process, Phase, Bearing, LoopPhase
<1> HIDE DEF q
<1>6. CASE MarkTerminal(p.claim, v) /\ Put(w, q) /\ (Calm' => Calm)
  BY <1>2, <1>4, <1>5, <1>6, ClosedIsFree, KeptWrites
<1>7. CASE fault' = "store"
  BY <1>7 DEF Kept, Calm
<1> QED BY <1>1, <1>3, <1>6, <1>7

LEMMA CleanupClosesKept ==
  ASSUME Desk, Hand, Kept, NEW w \in Workers, CleanupCloses(w)
  PROVE  Kept'
<1> DEFINE p == proc[w]
           v == IF Transition(p) = "fail" THEN "failed" ELSE "cancelled"
           q == [p EXCEPT !.phase = "closing2", !.verdict = v]
<1>1. /\ p.phase = "inflight"
      /\ \/ MarkTerminal(p.claim, v) /\ Put(w, q) /\ (Calm' => Calm)
         \/ ~FenceHolds(p.claim) /\ fault' = fault
         \/ fault' = "store"
  BY DEF CleanupCloses, Works, Fails, Calm
<1>2. p \in Process /\ p.claim \in issued /\ p.phase \in InCleanup /\ Holds(p)
  BY <1>1, DeskOf DEF Local, Hands, InCleanup, Holds
<1>3. fault # "stall" => FenceHolds(p.claim)
  BY <1>2 DEF Hand, Hold, Grip, FenceHolds, Fits
<1>4. v \in Verdict
  BY DEF Verdict
<1> HIDE DEF v
<1>5. q \in Process /\ q.phase \in Bearing
  BY <1>2, <1>4 DEF Process, Phase, Bearing
<1> HIDE DEF q
<1>6. CASE MarkTerminal(p.claim, v) /\ Put(w, q) /\ (Calm' => Calm)
  BY <1>2, <1>4, <1>5, <1>6, ClosedIsFree, KeptWrites
<1>7. CASE fault' = "store" \/ fault' = "stall"
  BY <1>7 DEF Kept, Calm
<1> QED BY <1>1, <1>3, <1>6, <1>7

LEMMA RequeueKept ==
  ASSUME Desk, Kept, NEW w \in Workers, Holds(proc[w]), ReturnToQueued(proc[w].claim),
         NEW q \in Process, Put(w, q), q.phase \in Bearing, Calm' => Calm
  PROVE  Kept'
<1> DEFINE c == proc[w].claim
<1>1. c \in issued /\ FenceHolds(c) /\ Write(c.task, Requeued(task[c.task]))
  BY HoldsWhere DEF ReturnToQueued
<1>2. task[c.task] \in TaskRow
  BY <1>1, FencedRow
<1>3. Requeued(task[c.task]).state \notin OwnedState
  BY <1>2, RequeuedRow DEF OwnedState
<1> QED BY <1>1, <1>3, KeptWrites

\* A claim that is good is not handed off: if the re-queue does not land, it throws.
LEMMA HandBackCases ==
  ASSUME Desk, Hand, NEW w \in Workers, Holds(proc[w]), FenceHolds(proc[w].claim),
         NEW q, NEW threw, NEW cut, HandBack(w, q, threw, cut)
  PROVE  \/ ReturnToQueued(proc[w].claim) /\ Put(w, q) /\ UNCHANGED <<fault, cutShort>>
         \/ UNCHANGED task /\ Put(w, threw) /\ cutShort' = cut /\ fault' = fault
         \/ fault' = "store"
<1> DEFINE c == proc[w].claim
<1>1. c \in issued /\ c.worker \in Workers /\ task[c.task].owner = c.worker
      /\ task[c.task].state \in {"running", "cancel_requested"}
  BY HoldsWhere, FencedRow
<1>2. ~HandedOff(c)
  BY <1>1, StoreAssumption DEF HandedOff
<1> QED BY <1>2 DEF HandBack, Works, Fails, storeVars

LEMMA LoopReassignsKept ==
  ASSUME Desk, Hand, Kept, NEW w \in Workers, LoopReassigns(w)
  PROVE  Kept'
<1> DEFINE p == proc[w]
<1>1. ActsInLoop(p) /\ HandBack(w, Turn(p), Thrown(p), cutShort)
  BY DEF LoopReassigns
<1>2. p \in Process /\ p.phase \in InLoop /\ Holds(p) /\ p.phase \in LoopPhase
  BY <1>1, DeskOf DEF Local, Hands, InLoop, ActsInLoop, Holds, LoopPhase
<1>3. FenceHolds(p.claim)
  BY <1>2 DEF Hand, Hold, Grip, FenceHolds, Fits
<1>4. PICK q \in Process : q = Turn(p) /\ q.phase \in Bearing
  BY <1>2, TurnBears
<1>5. \/ ReturnToQueued(p.claim) /\ Put(w, q) /\ UNCHANGED <<fault, cutShort>>
      \/ UNCHANGED task /\ Put(w, Thrown(p)) /\ cutShort' = cutShort /\ fault' = fault
      \/ fault' = "store"
  BY <1>1, <1>2, <1>3, <1>4, HandBackCases
<1>6. CASE ReturnToQueued(p.claim) /\ Put(w, q) /\ UNCHANGED <<fault, cutShort>>
  BY <1>2, <1>4, <1>6, RequeueKept DEF Calm
<1>7. CASE UNCHANGED task /\ Put(w, Thrown(p)) /\ cutShort' = cutShort /\ fault' = fault
  BY <1>2, <1>7, ThrownKept DEF Calm
<1>8. CASE fault' = "store"
  BY <1>8 DEF Kept, Calm
<1> QED BY <1>5, <1>6, <1>7, <1>8

LEMMA CleanupReassignsKept ==
  ASSUME Desk, Hand, Kept, NEW w \in Workers, CleanupReassigns(w)
  PROVE  Kept'
<1> DEFINE p == proc[w]
<1>1. p.phase = "inflight" /\ HandBack(w, Swept(p), [p EXCEPT !.phase = "leaving"], TRUE)
  BY DEF CleanupReassigns
<1>2. p \in Process /\ p.phase \in InCleanup /\ Holds(p)
  BY <1>1, DeskOf DEF Local, Hands, InCleanup, Holds
<1>3. CASE fault = "stall"
  BY <1>1, <1>3 DEF Kept, Calm, HandBack, Works, Fails
<1>4. CASE fault # "stall"
  <2>1. FenceHolds(p.claim)
    BY <1>2, <1>4 DEF Hand, Hold, Grip, FenceHolds, Fits
  <2>2. PICK q \in Process : q = Swept(p) /\ q.phase \in Bearing
    BY <1>2, TurnBears
  <2>3. \/ ReturnToQueued(p.claim) /\ Put(w, q) /\ UNCHANGED <<fault, cutShort>>
        \/ cutShort' = TRUE
        \/ fault' = "store"
    BY <1>1, <1>2, <2>1, <2>2, HandBackCases
  <2>4. CASE ReturnToQueued(p.claim) /\ Put(w, q) /\ UNCHANGED <<fault, cutShort>>
    BY <1>2, <2>2, <2>4, RequeueKept DEF Calm
  <2>5. CASE cutShort' = TRUE \/ fault' = "store"
    BY <2>5 DEF Kept, Calm
  <2> QED BY <2>3, <2>4, <2>5
<1> QED BY <1>3, <1>4

\* The rows come after the store: nothing is in hand by then.
LEMMA WriteRowKept ==
  ASSUME Desk, Kept, NEW w \in Workers, proc[w].phase \in Closing, UNCHANGED <<task, cutShort>>,
         NEW v, NEW a \in Process, NEW b \in Process, a.phase \in Bearing,
         WriteRow(w, v, a, b, a) \/ (Put(w, a) /\ Works)
  PROVE  Kept'
<1>1. CASE Put(w, a) /\ Works
  <2>1. \A t \in Tasks : ~InHandOf(proc[w], t)
    BY DEF InHandOf, Closing, InLoop, InCleanup
  <2>2. proc[w].phase # "wedged" /\ (Calm' => Calm)
    BY <1>1 DEF Closing, Calm, Works
  <2> QED BY <1>1, <2>1, <2>2, KeptBearing
<1>2. CASE fault' = "append"
  BY <1>2 DEF Kept, Calm
<1> QED BY <1>1, <1>2 DEF WriteRow, Fails

LEMMA LoopShowsKept ==
  ASSUME Desk, Kept, NEW w \in Workers, LoopShows(w)
  PROVE  Kept'
<1> DEFINE p == proc[w]
           l == LetGo(p)
<1>1. /\ p \in Process /\ p.phase \in Closing /\ UNCHANGED <<task, cutShort>>
      /\ WriteRow(w, p.verdict, Turn(p), Thrown(l), Turn(p))
  BY DeskOf DEF LoopShows, Closing, storeVars
<1>2. PICK a \in Process : a = Turn(p) /\ a.phase \in Bearing
  BY <1>1, TurnBears
<1>3. l \in Process
  BY <1>1, LetGoProcess
<1> HIDE DEF l
<1>4. PICK b \in Process : b = Thrown(l)
  BY <1>3, ThrownProcess
<1> QED BY <1>1, <1>2, <1>4, WriteRowKept

LEMMA CleanupShowsKept ==
  ASSUME Desk, Kept, NEW w \in Workers, CleanupShows(w)
  PROVE  Kept'
<1> DEFINE p == proc[w]
<1>1. /\ p \in Process /\ p.phase \in Closing /\ UNCHANGED <<task, cutShort>>
      /\ \/ WriteRow(w, p.verdict, Swept(p), Swept(p), Swept(p))
         \/ Put(w, Swept(p)) /\ Works
  BY DeskOf DEF CleanupShows, Closing, storeVars
<1>2. PICK a \in Process : a = Swept(p) /\ a.phase \in Bearing
  BY <1>1, TurnBears
<1> QED BY <1>1, <1>2, WriteRowKept

-----------------------------------------------------------------------------
(* The steps on the queue.                                                 *)

\* Whoever submits saw a daemon that works.
LEMMA SubmitKept ==
  ASSUME Desk, Kept, NEW t \in Tasks, Submit(t)
  PROVE  Kept'
<1> DEFINE row == [AbsentRow EXCEPT !.state = "queued", !.cur = 1, !.run = 1]
<1>1. /\ Write(t, row) /\ UNCHANGED <<proc, fault, cutShort>> /\ row.state = "queued"
      /\ \E w \in Workers : proc[w].phase \in LoopPhase
  BY DEF Submit, Enqueue, procVars, AbsentRow
<1> HIDE DEF row
<1>2. ASSUME NEW u \in Tasks
      PROVE  IF u = t THEN task'[u] = row ELSE task'[u] = task[u]
  BY <1>1, OtherRows DEF Desk, TdTypeOK
<1>3. \A u \in Tasks : \E w \in Workers : Carries(proc[w], u)
  BY <1>1 DEF Carries, Bearing
<1> QED BY <1>1, <1>2, <1>3, KeptStill DEF OwnedState, Calm

LEMMA CancelQueuedKept ==
  ASSUME Desk, Kept, NEW t \in Tasks, CancelQueued(t)
  PROVE  Kept'
<1>1. /\ Write(t, Closed(task[t], "cancelled")) /\ UNCHANGED <<proc, fault, cutShort>>
  BY DEF CancelQueued, RequestCancelIdle, MarkTerminalUnfenced
<1>2. Closed(task[t], "cancelled").state = "cancelled"
  BY RowFacts, ClosedRow DEF Desk, TaskState
<1>3. ASSUME NEW u \in Tasks
      PROVE  IF u = t THEN task'[u] = Closed(task[t], "cancelled") ELSE task'[u] = task[u]
  BY <1>1, OtherRows DEF Desk, TdTypeOK
<1> QED BY <1>1, <1>2, <1>3, KeptStill DEF OwnedState, Calm

LEMMA CancelRunningKept ==
  ASSUME Desk, Kept, NEW t \in Tasks, CancelRunning(t)
  PROVE  Kept'
<1> DEFINE row == [task[t] EXCEPT !.state = "cancel_requested", !.cancelReq = TRUE]
<1>1. /\ task[t].state \in {"claimed", "running"} /\ Write(t, row)
      /\ UNCHANGED <<proc, fault, cutShort>>
  BY DEF CancelRunning, RequestCancelRunning, procVars
<1>2. task[t] \in TaskRow
  BY RowFacts DEF Desk
<1>3. row.state = "cancel_requested" /\ row.owner = task[t].owner
  BY <1>2 DEF TaskRow
<1> HIDE DEF row
<1>4. ASSUME NEW u \in Tasks
      PROVE  IF u = t THEN task'[u] = row ELSE task'[u] = task[u]
  BY <1>1, OtherRows DEF Desk, TdTypeOK
<1> QED BY <1>1, <1>3, <1>4, KeptStill DEF OwnedState, Calm

\* What recovery queues again, the daemon that recovers will claim.
LEMMA RecoverKept ==
  ASSUME Desk, Kept, NEW w \in Workers, NEW stale \in SUBSET Workers, Recover(w, stale)
  PROVE  Kept'
<1> DEFINE view == [t \in Tasks |-> IF shown[t] = "pending" THEN "none" ELSE shown[t]]
<1>1. PICK seen : seen = view
  OBVIOUS
<1>2. PICK alive : alive = Running \ stale
  OBVIOUS
<1>3. /\ RecoverOrphanedClaims(alive, seen) /\ UNCHANGED <<proc, cutShort>>
      /\ fault' = fault \/ fault' = "stall"
      /\ proc[w].phase = "idle"
  BY <1>1, <1>2 DEF Recover, Works, Fails
<1>4. \A t \in Tasks : seen[t] = IF shown[t] = "pending" THEN "none" ELSE shown[t]
  BY <1>1
<1> HIDE DEF view
<1>5. ASSUME NEW t \in Tasks
      PROVE  task'[t] = task[t] \/ task'[t].state \notin OwnedState
  <2>1. CASE ~Orphaned(t, alive)
    BY <1>3, <2>1 DEF RecoverOrphanedClaims
  <2>2. CASE Orphaned(t, alive)
    <3>1. shown[t] \in Row
      BY DEF Desk, TdTypeOK
    <3>2. task'[t].state = "queued" \/ task'[t].state = shown[t]
      BY <1>3, <1>4, <2>2, OrphanRow
    <3> QED BY <3>1, <3>2 DEF Row, OwnedState
  <2> QED BY <2>1, <2>2
<1>6. \A t \in Tasks : Carries(proc[w], t)
  BY <1>3 DEF Carries, Bearing, LoopPhase
<1> QED BY <1>3, <1>5, <1>6, KeptStill DEF Calm

LEMMA TakeKept ==
  ASSUME Desk, Kept, NEW w \in Workers, NEW t \in Tasks, Take(w, t)
  PROVE  Kept'
<1> DEFINE p == proc[w]
           c == TakenClaim(w, t)
           r == TakenRow(w, t)
           q == [p EXCEPT !.phase = "processing", !.claim = c]
<1>1. /\ p \in Process /\ p.phase = "idle" /\ Put(w, q) /\ (Calm' => Calm)
      /\ task[t].state = "queued" /\ Write(t, r)
  <2>1. task[t].state = "queued" /\ Write(t, r)
    BY TakeWrites
  <2> QED BY <2>1, DeskOf DEF Take, TakenClaim, Calm
<1>2. c \in Claim /\ c.task = t /\ r.owner = w
  <2>1. StoreInv
    BY DEF Desk
  <2> QED BY <1>1, <2>1, Taken
<1> HIDE DEF c, r
<1>3. q \in Process /\ q.phase = "processing" /\ q.claim = c
  BY <1>1, <1>2 DEF Process, Phase
<1> HIDE DEF q
<1>4. InHandOf(q, t) /\ q.phase \in Bearing
  BY <1>2, <1>3, TeardownAssumption DEF InHandOf, Holds, InLoop, Bearing, LoopPhase
<1>5. \A u \in Tasks : ~InHandOf(p, u)
  BY <1>1 DEF InHandOf, InLoop, InCleanup
<1>6. ASSUME NEW u \in Tasks PROVE StaysOwned(w, q, u) /\ StaysCarried(w, q, u)
  <2>1. IF u = t THEN task'[u] = r ELSE task'[u] = task[u]
    BY <1>1, OtherRows DEF Desk, TdTypeOK
  <2>2. StaysOwned(w, q, u)
    BY <1>2, <1>4, <1>5, <2>1 DEF StaysOwned
  <2> QED BY <1>4, <2>2 DEF StaysCarried, Carries
<1> QED BY <1>1, <1>3, <1>6, KeptStep

LEMMA FailQueuedKept ==
  ASSUME Desk, Kept, NEW w \in Workers, NEW t \in Tasks, FailQueued(w, t)
  PROVE  Kept'
<1> DEFINE p == proc[w]
<1>1. /\ p \in Process /\ p.phase = "sweeping" /\ cutShort' = cutShort
      /\ \/ Write(t, Closed(task[t], "failed")) /\ fault' = fault
         \/ task[t].terminal /\ UNCHANGED task /\ fault' = fault
         \/ fault' \in {"append", "store"}
  BY DeskOf DEF FailQueued, FailIfActive, Fails, Works, storeVars
<1>2. PICK l \in SUBSET p.list : l = p.list \ {t}
  OBVIOUS
<1> DEFINE q == [p EXCEPT !.list = l]
<1>3. Put(w, q)
  BY <1>2 DEF FailQueued
<1>4. q \in Process /\ q.phase = "sweeping" /\ q.list = l /\ q.excused = p.excused
  BY <1>1 DEF Process
<1> HIDE DEF q
<1>5. \A u \in Tasks : ~InHandOf(p, u)
  BY <1>1 DEF InHandOf, InLoop, InCleanup
<1>6. \A u \in Tasks \ {t} : Carries(p, u) => Carries(q, u)
  BY <1>1, <1>2, <1>4 DEF Carries
<1>7. CASE Write(t, Closed(task[t], "failed")) /\ fault' = fault
  <2>1. Closed(task[t], "failed").state = "failed"
    BY RowFacts, ClosedRow DEF Desk, TaskState
  <2>2. ASSUME NEW u \in Tasks PROVE StaysOwned(w, q, u) /\ StaysCarried(w, q, u)
    <3>1. IF u = t THEN task'[u] = Closed(task[t], "failed") ELSE task'[u] = task[u]
      BY <1>7, OtherRows DEF Desk, TdTypeOK
    <3>2. StaysOwned(w, q, u)
      BY <1>5, <2>1, <3>1 DEF StaysOwned, OwnedState
    <3>3. StaysCarried(w, q, u)
      BY <1>6, <2>1, <3>1 DEF StaysCarried
    <3> QED BY <3>2, <3>3
  <2> QED BY <1>1, <1>3, <1>4, <1>7, <2>2, KeptStep DEF Calm
<1>8. CASE task[t].terminal /\ UNCHANGED task /\ fault' = fault
  <2>1. task[t].state # "queued"
    BY <1>8, RowFacts DEF Desk, RowInv
  <2> QED BY <1>1, <1>3, <1>4, <1>5, <1>6, <1>8, <2>1, KeptQuiet DEF Calm
<1>9. CASE fault' \in {"append", "store"}
  BY <1>9 DEF Kept, Calm
<1> QED BY <1>1, <1>7, <1>8, <1>9

-----------------------------------------------------------------------------
LEMMA KeptInit == TdInit => Kept
BY DEF TdInit, StoreInit, AbsentRow, Kept, Owned, Carried, OwnedState

LEMMA WorkKept == Desk /\ Hand /\ Kept /\ WorkNext => Kept'
BY SubmitKept, CancelRunningKept, CancelQueuedKept, SpawnKept, LaunchedKept, LaunchFailsKept,
   RecoverKept, TakeKept, HandlerEndsKept, EndNormallyKept DEF WorkNext

LEMMA StopKeptStep == Desk /\ Kept /\ StopNext => Kept'
BY StopKept, SignalMidRunKept, CrashKept, WedgeKept DEF StopNext

LEMMA TeardownKept == Desk /\ Hand /\ Kept /\ TeardownNext => Kept'
BY LookForPeersKept, LoopReassignsKept, LoopClosesKept, LoopShowsKept, FindPeersKept,
   CleanupReassignsKept, CleanupClosesKept, CleanupShowsKept, ListQueueKept, ReadAgainKept,
   ExitKept, FailQueuedKept DEF TeardownNext

LEMMA KeptNext == Desk /\ Hand /\ Kept /\ [TdNext]_tdVars => Kept'
<1> SUFFICES ASSUME Desk, Hand, Kept, [TdNext]_tdVars PROVE Kept'
  OBVIOUS
<1>1. CASE UNCHANGED tdVars
  <2>1. UNCHANGED <<task, proc, fault, cutShort>>
    BY <1>1 DEF tdVars
  <2> QED BY <2>1 DEF Kept, Calm, Owned, Carried, Carries, InHandOf, Holds
<1> QED BY <1>1, WorkKept, StopKeptStep, TeardownKept DEF TdNext

LEMMA NothingLeft == Desk /\ Kept => NothingStranded
<1> SUFFICES ASSUME Desk, Kept, fault = "none" /\ ~cutShort, NEW y \in Workers, Stopped(y),
                    \A w \in Workers : Stopped(w) \/ proc[w].phase \in {"off", "wedged"},
                    NEW t \in Tasks
             PROVE  task[t].state \in {"absent", "done", "failed", "cancelled"}
  BY DEF NothingStranded, NoWorkLeft
<1>1. task[t] \in TaskRow /\ RowInv(t) /\ Plain(t) /\ Owned(t) /\ Carried(t)
  BY RowFacts DEF Desk, Kept, Calm
<1>2. \A w \in Workers : proc[w].phase \in {"exited", "off", "wedged"}
  BY DEF Stopped
<1>3. task[t].state \notin OwnedState
  <2>1. SUFFICES ASSUME task[t].state \in OwnedState PROVE FALSE
    OBVIOUS
  <2>2. task[t].owner \in Workers /\ InHandOf(proc[task[t].owner], t)
    BY <1>1, <2>1 DEF Owned, RowInv, TaskRow
  <2> QED BY <1>2, <2>2 DEF InHandOf, InLoop, InCleanup
<1>4. \A w \in Workers : ~Carries(proc[w], t)
  BY <1>2 DEF Stopped, Carries, Bearing, LoopPhase, InCleanup, Listing, CleanupPhase
<1>5. task[t].state # "queued"
  BY <1>1, <1>4 DEF Carried, Stopped
<1> QED BY <1>1, <1>3, <1>5 DEF TaskRow, TaskState, OwnedState, Plain

\* When the last daemon is gone without an excuse, nothing is queued and nothing is in
\* flight: every stop left the work to a peer that went on, or failed it.
THEOREM StopsStrandNothing == TdSpec => []NothingStranded
<1> QED
  BY DeskInit, HandInit, KeptInit, DeskNext, HandNext, KeptNext, NothingLeft, PTL DEF TdSpec
=============================================================================
