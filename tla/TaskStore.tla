----------------------------- MODULE TaskStore -----------------------------
(***************************************************************************)
(* The SQLite task control plane of src/src/core/task-store: the rows of   *)
(* `tasks` and `task_attempts` of one workflow, and every store operation  *)
(* that writes them.  Each operation is one BEGIN IMMEDIATE transaction in *)
(* the code and so one action here.                                        *)
(*                                                                         *)
(* The callers are other processes (daemons, the dashboard) that may stall *)
(* between reading a row and writing it.  The specification is therefore   *)
(* the store under its most general client: `issued` keeps every claim     *)
(* ClaimNext ever returned, and any of them may be used again at any later *)
(* moment, by a worker that is late, was declared dead, or never stopped.  *)
(* Module Daemon supplies the real callers.                                *)
(*                                                                         *)
(* Abstractions: a row's payload, timestamps and error text are dropped;   *)
(* claim_expires_at is "none" (NULL), "live" or "expired"; terminal_at and *)
(* cancel_requested_at are the Booleans "is not NULL"; attempt n of a task *)
(* stands for its attempt row and its run id; the order in which the queue *)
(* serves queued rows is any order.                                        *)
(***************************************************************************)
EXTENDS Naturals, FiniteSets

CONSTANTS
  Tasks,        \* task rows the workflow may hold
  Workers,      \* daemon instance ids (claimed_by_worker_id)
  NoWorker,     \* claimed_by_worker_id IS NULL
  MaxAttempt,   \* bound: attempts per task (one per retry)
  MaxGen        \* bound: claim_generation

ASSUME StoreAssumption ==
  /\ NoWorker \notin Workers
  /\ MaxAttempt \in Nat \ {0}
  /\ MaxGen \in Nat

VARIABLES
  task,       \* the tasks table
  attempt,    \* control_state of each attempt row
  issued,     \* every claim ClaimNext has returned so far
  cancelCmd   \* tasks with an unfinished cancel_task worker command

storeVars == <<task, attempt, issued, cancelCmd>>

-----------------------------------------------------------------------------
(* Types.                                                                  *)

AttemptNo == 1 .. MaxAttempt

TaskState == {"absent", "queued", "waiting_dependencies", "claimed", "running",
              "cancel_requested", "cancelled", "done", "failed", "blocked"}

AttemptState == {"absent", "pending", "claimed", "running", "cancel_requested",
                 "cancelled", "done", "failed"}

\* The states markTerminal writes.
Verdict == {"done", "failed", "cancelled"}

\* The states a row is in while a worker owns it.
OwnedState == {"claimed", "running", "cancel_requested"}

\* The states retry refuses (control/ops/retry.ts); `cancelling` is never
\* written on a path the program uses.
ActiveStatesBlockingRetry == OwnedState

TaskRow == [state : TaskState, owner : Workers \cup {NoWorker},
            lease : {"none", "live", "expired"}, gen : Nat,
            cur : 0 .. MaxAttempt,      \* current_attempt_id
            run : 0 .. MaxAttempt,      \* run_id: the run of the latest attempt
            cancelReq : BOOLEAN, terminal : BOOLEAN]

Claim == [task : Tasks, att : AttemptNo, worker : Workers, gen : Nat]

AbsentRow == [state |-> "absent", owner |-> NoWorker, lease |-> "none", gen |-> 0,
              cur |-> 0, run |-> 0, cancelReq |-> FALSE, terminal |-> FALSE]

StoreTypeOK ==
  /\ task \in [Tasks -> TaskRow]
  /\ attempt \in [Tasks -> [AttemptNo -> AttemptState]]
  /\ issued \subseteq Claim
  /\ cancelCmd \subseteq Tasks

StoreInit ==
  /\ task = [t \in Tasks |-> AbsentRow]
  /\ attempt = [t \in Tasks |-> [n \in AttemptNo |-> "absent"]]
  /\ issued = {}
  /\ cancelCmd = {}

-----------------------------------------------------------------------------
(* Mutated row rewrites, to test that the properties can fail.             *)

(* Row rewrites shared by the UPDATE statements.                           *)

\* The row in state s with its claim columns cleared.
Released(r, s) == [r EXCEPT !.state = s, !.owner = NoWorker, !.lease = "none"]

\* The row in state s with terminal_at stamped.
Closed(r, s) == [Released(r, s) EXCEPT !.terminal = TRUE]

\* Back to the queue under the next generation, the attempt kept.
Requeued(r) == [Released(r, "queued") EXCEPT !.gen = @ + 1]

ReopenedKeepingTerminal(r) == [Released(r, "queued") EXCEPT !.cancelReq = FALSE]

\* Back to the queue as if never run: cancel and terminal columns cleared too.
Reopened(r) == [Released(r, "queued") EXCEPT !.cancelReq = FALSE, !.terminal = FALSE]

Write(t, row) == task' = [task EXCEPT ![t] = row]
WriteAttempt(t, n, s) == attempt' = [attempt EXCEPT ![t][n] = s]

\* The mutated forms of the operations below.
FenceIgnoringWorker(c) ==
  /\ ~task[c.task].terminal
  /\ task[c.task].gen = c.gen
  /\ task[c.task].cur = c.att
ClaimNextSameGeneration(w, t) ==
  /\ task[t].state = "queued"
  /\ Write(t, [task[t] EXCEPT !.state = "claimed", !.owner = w, !.lease = "live"])
  /\ WriteAttempt(t, task[t].cur, "claimed")
  /\ issued' = issued \cup
       {[task |-> t, att |-> task[t].cur, worker |-> w, gen |-> task[t].gen]}
  /\ UNCHANGED cancelCmd
MarkRunningMatchesAnyState(c) == task[c.task].owner \in {NoWorker, c.worker}
RequestCancelRunningTaskOnly(t) ==
  /\ task[t].state \in {"claimed", "running"}
  /\ Write(t, [task[t] EXCEPT !.state = "cancel_requested", !.cancelReq = TRUE])
  /\ UNCHANGED <<attempt, issued, cancelCmd>>

\* The WHERE clause of a lease-guarded write: the row is not terminal and still
\* carries the attempt, the worker and the generation the claim was issued with.
FenceHolds(c) ==
  /\ ~task[c.task].terminal
  /\ task[c.task].gen = c.gen
  /\ task[c.task].cur = c.att
  /\ task[c.task].owner = c.worker

-----------------------------------------------------------------------------
(* Enqueue (enqueue.ts).                                                   *)

\* enqueueTasks for a run the store does not know: task and first attempt.
Enqueue(t) ==
  /\ task[t].state = "absent"
  /\ Write(t, [AbsentRow EXCEPT !.state = "queued", !.cur = 1, !.run = 1])
  /\ WriteAttempt(t, 1, "pending")
  /\ UNCHANGED <<issued, cancelCmd>>

\* enqueueTasks under policy 'adopt' for a run it knows: the row is reopened
\* from whatever state it is in, with the attempt of its run; the generation
\* stays.  (Policy 'idempotent' writes nothing.)
Adopt(t) ==
  /\ task[t].state # "absent"
  /\ Write(t, [Reopened(task[t]) EXCEPT !.cur = task[t].run])
  /\ WriteAttempt(t, task[t].run, "pending")
  /\ UNCHANGED <<issued, cancelCmd>>

-----------------------------------------------------------------------------
(* Claims (claim.ts).                                                      *)

ClaimNext(w, t) ==
  /\ task[t].state = "queued"
  /\ task[t].gen < MaxGen
  /\ Write(t, [task[t] EXCEPT !.state = "claimed", !.owner = w, !.lease = "live",
                              !.gen = @ + 1])
  /\ WriteAttempt(t, task[t].cur, "claimed")
  /\ issued' = issued \cup
       {[task |-> t, att |-> task[t].cur, worker |-> w, gen |-> task[t].gen + 1]}
  /\ UNCHANGED cancelCmd

RenewClaim(w, t) ==
  /\ task[t].owner = w
  /\ task[t].state \in {"claimed", "running"}
  /\ Write(t, [task[t] EXCEPT !.lease = "live"])
  /\ UNCHANGED <<attempt, issued, cancelCmd>>

\* The clock passes claim_expires_at.
LeaseExpires(t) ==
  /\ task[t].lease = "live"
  /\ Write(t, [task[t] EXCEPT !.lease = "expired"])
  /\ UNCHANGED <<attempt, issued, cancelCmd>>

\* The WHERE clause compares owner and state, not the generation.
MarkRunningMatches(c) ==
  /\ task[c.task].owner \in {NoWorker, c.worker}
  /\ task[c.task].state \in {"claimed", "queued", "running"}

MarkRunning(c) ==
  /\ MarkRunningMatches(c)
  /\ Write(c.task, [task[c.task] EXCEPT !.state = "running", !.owner = c.worker,
                                        !.cur = c.att])
  /\ WriteAttempt(c.task, c.att, "running")
  /\ UNCHANGED <<issued, cancelCmd>>

\* The attempt row of a re-queued task.
Repended(s) == IF s \in {"claimed", "running"} THEN "pending" ELSE s

ReturnToQueued(c) ==
  /\ FenceHolds(c)
  /\ task[c.task].state \in {"claimed", "running"}
  /\ task[c.task].gen < MaxGen
  /\ Write(c.task, Requeued(task[c.task]))
  /\ WriteAttempt(c.task, c.att, Repended(attempt[c.task][c.att]))
  /\ UNCHANGED <<issued, cancelCmd>>

OrphanedEvenCancelling(t, alive) ==
  /\ task[t].state \in OwnedState
  /\ task[t].owner # NoWorker
  /\ task[t].lease = "expired" \/ task[t].owner \notin alive

\* A claim of a worker outside `alive`, or whose lease has run out, with no
\* cancellation pending.
Orphaned(t, alive) ==
  /\ task[t].state \in {"claimed", "running"}
  /\ task[t].owner # NoWorker
  /\ ~task[t].cancelReq
  /\ t \notin cancelCmd
  /\ task[t].lease = "expired" \/ task[t].owner \notin alive

RecoverRequeuingAll(alive, seen) ==
  /\ \E t \in Tasks : Orphaned(t, alive)
  /\ \A t \in Tasks : Orphaned(t, alive) => task[t].gen < MaxGen
  /\ task' = [t \in Tasks |->
       IF Orphaned(t, alive) THEN Requeued(task[t]) ELSE task[t]]
  /\ attempt' = [t \in Tasks |-> [n \in AttemptNo |->
       IF ~Orphaned(t, alive) \/ n # task[t].cur THEN attempt[t][n]
       ELSE Repended(attempt[t][n])]]
  /\ UNCHANGED <<issued, cancelCmd>>

\* recoverOrphanedClaims: one transaction over every row.  An orphan whose run
\* already has a terminal tracker row (`seen`) takes that verdict; any other is
\* re-queued by recoverClaimsForDeadWorkers.
RecoverOrphanedClaims(alive, seen) ==
  /\ \E t \in Tasks : Orphaned(t, alive)
  /\ \A t \in Tasks : Orphaned(t, alive) => task[t].gen < MaxGen
  /\ task' = [t \in Tasks |->
       IF ~Orphaned(t, alive) THEN task[t]
       ELSE IF seen[t] = "none" THEN Requeued(task[t]) ELSE Closed(task[t], seen[t])]
  /\ attempt' = [t \in Tasks |-> [n \in AttemptNo |->
       IF ~Orphaned(t, alive) \/ n # task[t].cur THEN attempt[t][n]
       ELSE IF seen[t] = "none" THEN Repended(attempt[t][n]) ELSE seen[t]]]
  /\ UNCHANGED <<issued, cancelCmd>>

-----------------------------------------------------------------------------
(* Terminal writes (terminal.ts).                                          *)

\* markTerminal with the full fence: markItemDone, markItemFailed and
\* markItemCancelled of a daemon that holds a claim.
MarkTerminal(c, s) ==
  /\ FenceHolds(c)
  /\ Write(c.task, Closed(task[c.task], s))
  /\ WriteAttempt(c.task, c.att, s)
  /\ UNCHANGED <<issued, cancelCmd>>

\* markTerminal with the attempt guard only: dashboard cancel of a queued item,
\* the orphan sweep, the direct-kill cleanup.
MarkTerminalUnfenced(t, n, s) ==
  /\ task[t].state # "absent"
  /\ ~task[t].terminal
  /\ task[t].cur = n
  /\ Write(t, Closed(task[t], s))
  /\ WriteAttempt(t, n, s)
  /\ UNCHANGED <<issued, cancelCmd>>

MarkBlockedUncertain(c) ==
  /\ FenceHolds(c)
  /\ task[c.task].state \in {"claimed", "running"}
  /\ Write(c.task, Closed(task[c.task], "blocked"))
  /\ WriteAttempt(c.task, c.att, "failed")
  /\ UNCHANGED <<issued, cancelCmd>>

\* markTaskFailedIfActive: guarded by terminal_at alone; n is the attempt the
\* caller read before the transaction.
FailIfActive(t, n) ==
  /\ task[t].state # "absent"
  /\ attempt[t][n] # "absent"
  /\ ~task[t].terminal
  /\ Write(t, Closed(task[t], "failed"))
  /\ WriteAttempt(t, n, "failed")
  /\ UNCHANGED <<issued, cancelCmd>>

\* requestCancelTask for a task no worker has started: markTaskCancelled, whose
\* outcome is ignored.
RequestCancelIdle(t) ==
  /\ task[t].state \in {"queued", "waiting_dependencies", "blocked"}
  /\ MarkTerminalUnfenced(t, task[t].cur, "cancelled")

\* requestCancelTask for a claimed or running task.
RequestCancelRunning(t) ==
  /\ task[t].state \in {"claimed", "running"}
  /\ Write(t, [task[t] EXCEPT !.state = "cancel_requested", !.cancelReq = TRUE])
  /\ WriteAttempt(t, task[t].cur, "cancel_requested")
  /\ UNCHANGED <<issued, cancelCmd>>

\* retryTaskFromAttempt, with the states the control layer refuses.
Retry(t) ==
  /\ task[t].state \notin ActiveStatesBlockingRetry \cup {"absent"}
  /\ task[t].run < MaxAttempt
  /\ task[t].gen < MaxGen
  /\ Write(t, [Reopened(task[t]) EXCEPT !.gen = @ + 1, !.cur = task[t].run + 1,
                                        !.run = @ + 1])
  /\ WriteAttempt(t, task[t].run + 1, "pending")
  /\ UNCHANGED <<issued, cancelCmd>>

\* A cancel_task command row for the task is queued, and later completed or
\* failed by the worker it targets; recovery leaves the task alone meanwhile.
OpenCancelCommand(t) ==
  /\ cancelCmd' = cancelCmd \cup {t}
  /\ UNCHANGED <<task, attempt, issued>>

CloseCancelCommand(t) ==
  /\ t \in cancelCmd
  /\ cancelCmd' = cancelCmd \ {t}
  /\ UNCHANGED <<task, attempt, issued>>

-----------------------------------------------------------------------------
StoreNext ==
  \/ \E t \in Tasks :
       \/ Enqueue(t)
       \/ Adopt(t)
       \/ LeaseExpires(t)
       \/ RequestCancelIdle(t)
       \/ RequestCancelRunning(t)
       \/ Retry(t)
       \/ OpenCancelCommand(t)
       \/ CloseCancelCommand(t)
  \/ \E w \in Workers, t \in Tasks : ClaimNext(w, t) \/ RenewClaim(w, t)
  \/ \E c \in issued :
       \/ MarkRunning(c)
       \/ ReturnToQueued(c)
       \/ MarkBlockedUncertain(c)
       \/ \E s \in Verdict : MarkTerminal(c, s)
  \/ \E t \in Tasks, n \in AttemptNo :
       \/ FailIfActive(t, n)
       \/ \E s \in {"failed", "cancelled"} : MarkTerminalUnfenced(t, n, s)
  \/ \E alive \in SUBSET Workers, seen \in [Tasks -> Verdict \cup {"none"}] :
       RecoverOrphanedClaims(alive, seen)

StoreSpec == StoreInit /\ [][StoreNext]_storeVars

-----------------------------------------------------------------------------
(* Properties.                                                             *)

\* A task has an owner exactly while it is claimed, running or being cancelled:
\* no path out of a worker's hands forgets claimed_by_worker_id, and no path
\* into them forgets to set it (recovery selects on the column).
OwnerIffActive ==
  \A t \in Tasks :
    /\ task[t].owner # NoWorker <=> task[t].state \in OwnedState
    /\ task[t].lease # "none" => task[t].owner # NoWorker

\* terminal_at is stamped exactly in the four end states: markTaskFailedIfActive,
\* the lease-guarded writes and the retry and adopt resets agree about what has
\* ended, although only terminal_at is tested by most WHERE clauses and only
\* control_state by the others.
TerminalIffEnded ==
  \A t \in Tasks :
    task[t].terminal <=> task[t].state \in {"done", "failed", "cancelled", "blocked"}

\* claim_generation is a lease (claim.ts, ISS-005): no two claims of a task are
\* ever issued under one generation, and none is ahead of the row.
OneClaimPerGeneration ==
  /\ \A c \in issued : c.gen <= task[c.task].gen
  /\ \A c, d \in issued : c.task = d.task /\ c.gen = d.gen => c = d

\* While a task is claimed, the claim its worker was handed still passes the
\* fence: the worker can always finish what it was given.
ClaimedIsFenced ==
  \A t \in Tasks : task[t].state = "claimed" =>
    [task |-> t, att |-> task[t].cur, worker |-> task[t].owner,
     gen |-> task[t].gen] \in issued

\* The attempt row the task points at moves in lockstep with it ("keeping the
\* attempt + task in lockstep", terminal.ts).  A failed task is left out:
\* markTaskFailedIfActive stamps the attempt its caller read earlier.
AttemptLockstep ==
  \A t \in Tasks :
    LET s == task[t].state
        a == attempt[t][task[t].cur]
    IN  /\ s = "queued" => a = "pending"
        /\ s \in OwnedState \cup {"done", "cancelled"} => a = s
        /\ s = "blocked" => a = "failed"

\* An ended task stays as it ended until a retry or an adopting enqueue returns
\* it to the queue unowned: no late write of a worker that lost its claim
\* revives or changes it ("a terminal task must never be resurrected").
EndedStaysEnded ==
  \A t \in Tasks : task[t].terminal =>
    \/ task'[t] = task[t]
    \/ task'[t].state = "queued" /\ ~task'[t].terminal /\ task'[t].owner = NoWorker

TerminalIsSticky == [][EndedStaysEnded]_storeVars
=============================================================================
