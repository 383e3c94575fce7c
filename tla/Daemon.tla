------------------------------- MODULE Daemon -------------------------------
(***************************************************************************)
(* The daemons of one workflow and the dashboard, over the task store.     *)
(*                                                                         *)
(* A daemon (core/daemon/daemon.ts) is a process with one claim loop: it   *)
(* claims a task, marks it running, runs the handler, and writes what came *)
(* of it, re-reading the store at each turn; meanwhile its heartbeat       *)
(* renews the claim.  The dashboard (control/ops, tracker/dashboard) is    *)
(* one process whose requests read a task and write it later.  Every step  *)
(* below is what one of them does between two points where another process *)
(* can write: a store transaction, or the code between two of them.        *)
(*                                                                         *)
(* The tracker is abstracted to `shown`, the latest terminal row of each   *)
(* run (rows are append-only and recovery looks for the latest terminal    *)
(* one).  MayStall says whether a process may stop for longer than its     *)
(* lease lasts (60 s; a sleeping laptop, a blocked event loop) between any *)
(* two of its steps.  Stopping a daemon (teardown) is not in this module.  *)
(***************************************************************************)
EXTENDS TaskStore

CONSTANTS
  NoClaim,      \* no item in hand
  NoRequest,    \* no dashboard request being served
  NoCommand,    \* no cancel_task command for the task
  MayStall      \* whether a live process may outlast its lease

ASSUME DaemonAssumption == MayStall \in BOOLEAN /\ NoClaim \notin Claim

VARIABLES
  hand,     \* claim loop of each daemon: its phase and the item it holds
  shown,    \* latest terminal tracker row of each run
  command,  \* cancel_task command of each task
  request   \* the dashboard request between its read and its last write

daemonVars == <<hand, shown, command, request>>
vars == <<storeVars, daemonVars>>

\* "off": not started; "returned": the handler is over; "terminalizing": the
\* outcome is decided; "settling": it is written to SQLite.
Phase == {"off", "starting", "idle", "claimed", "processing", "returned",
          "terminalizing", "settling", "exited"}

\* The phases with state.activeRun set.
InFlight == {"processing", "returned", "terminalizing", "settling"}

\* abort: the run's AbortController was aborted by the heartbeat ("lease") or
\* through runRegistry.cancel ("cancel").  token: the kernel emitted the run's
\* terminal row (claimTerminalWrite).
Hand == [phase : Phase, claim : Claim \cup {NoClaim}, verdict : Verdict \cup {"none"},
         abort : {"no", "lease", "cancel"}, token : BOOLEAN]

Empty(p) == [phase |-> p, claim |-> NoClaim, verdict |-> "none", abort |-> "no",
             token |-> FALSE]

Request == [op : {"cancel-queued", "cancel-running", "sweep"}, task : Tasks,
            att : AttemptNo, worker : Workers \cup {NoWorker},
            step : {"read", "probed", "marked"}]

DaemonTypeOK ==
  /\ StoreTypeOK
  /\ hand \in [Workers -> Hand]
  /\ shown \in [Tasks -> [AttemptNo -> Verdict \cup {"none"}]]
  /\ command \in [Tasks -> [worker : Workers, att : AttemptNo] \cup {NoCommand}]
  /\ request \in Request \cup {NoRequest}

DaemonInit ==
  /\ StoreInit
  /\ hand = [w \in Workers |-> Empty("off")]
  /\ shown = [t \in Tasks |-> [n \in AttemptNo |-> "none"]]
  /\ command = [t \in Tasks |-> NoCommand]
  /\ request = NoRequest

Up == {w \in Workers : hand[w].phase \notin {"off", "exited"}}

Ended == {"done", "failed", "cancelled", "blocked"}

\* What a step does to a process and to the tracker.  The operators named after a
\* bug are mutated forms, to test that the properties can fail.
Enter(w, p) == hand' = [hand EXCEPT ![w].phase = p]
Put(w, h) == hand' = [hand EXCEPT ![w] = h]
Show(c, v) == shown' = [shown EXCEPT ![c.task][c.att] = v]

\* A request is opened by an operator or a timer, which takes longer than a
\* daemon needs from its claim to markTaskRunning unless that daemon stalls.
OperatorTime == MayStall \/ \A w \in Workers : hand[w].phase # "claimed"

\* A handler, minutes of work in a browser, outlasts a request unless the
\* dashboard stalls.
HandlerTime == MayStall \/ request = NoRequest

-----------------------------------------------------------------------------
(* The claim loop of daemon w.                                             *)

\* The task is visibly out of the hands of the claim's worker: what the loop
\* asks before it lets go of an item (positivelyHandedOff, transitionConfirmed).
HandedOff(c) ==
  \/ task[c.task].state \in Ended \cup {"queued"}
  \/ task[c.task].owner \notin {NoWorker, c.worker}

\* The per-item `finally`: back to idle, or, when the transition is not visible,
\* a throw that ends the daemon.
Conclude(w) ==
  Put(w, Empty(IF HandedOff(hand[w].claim) THEN "idle" ELSE "exited"))

\* The WHERE clause of markTaskTerminal (queue.ts) for a daemon's item: the lease
\* alone, since the attempt it passes is looked up from the row itself.
LeaseIgnoringGeneration(c) ==
  /\ ~task[c.task].terminal
  /\ task[c.task].owner = c.worker

LeaseHolds(c) ==
  /\ ~task[c.task].terminal
  /\ task[c.task].gen = c.gen
  /\ task[c.task].owner = c.worker

MarkItem(c, s) ==
  /\ LeaseHolds(c)
  /\ Write(c.task, Closed(task[c.task], s))
  /\ WriteAttempt(c.task, task[c.task].cur, s)
  /\ UNCHANGED <<issued, cancelCmd>>

Spawn(w) ==
  /\ hand[w].phase = "off"
  /\ Enter(w, "starting")
  /\ UNCHANGED <<storeVars, shown, command, request>>

\* The terminal row recoverOrphanedClaims finds for the run of each task.
TerminalRow == [t \in Tasks |-> IF task[t].cur = 0 THEN "none" ELSE shown[t][task[t].cur]]

RecoverAtStartupOnly(w, alive) ==
  /\ hand[w].phase = "starting"
  /\ \/ RecoverOrphanedClaims(alive, TerminalRow)
     \/ /\ \A t \in Tasks : ~Orphaned(t, alive)
        /\ UNCHANGED storeVars
  /\ Enter(w, "idle")
  /\ UNCHANGED <<shown, command, request>>

\* recoverClaimsFromDeadOrStaleWorkers, at startup and on the idle keepalive:
\* `alive` is the set of daemons believed alive, always with w itself.
Recover(w, alive) ==
  /\ hand[w].phase \in {"starting", "idle"}
  /\ \/ RecoverOrphanedClaims(alive, TerminalRow)
     \/ /\ hand[w].phase = "starting"
        /\ \A t \in Tasks : ~Orphaned(t, alive)
        /\ UNCHANGED storeVars
  /\ Enter(w, "idle")
  /\ UNCHANGED <<shown, command, request>>

Take(w, t) ==
  /\ hand[w].phase = "idle"
  /\ ClaimNext(w, t)
  /\ Put(w, [Empty("claimed") EXCEPT
       !.claim = [task |-> t, att |-> task[t].cur, worker |-> w, gen |-> task[t].gen + 1]])
  /\ UNCHANGED <<shown, command, request>>

\* markTaskRunning: a row it does not match is left alone and the run goes on,
\* but for an ended task it throws, which ends the daemon.
Start(w) ==
  LET c == hand[w].claim IN
  /\ hand[w].phase = "claimed"
  /\ \/ MarkRunning(c) /\ Enter(w, "processing")
     \/ /\ ~MarkRunningMatches(c)
        /\ UNCHANGED storeVars
        /\ IF task[c.task].state \in Verdict THEN Put(w, Empty("exited"))
                                           ELSE Enter(w, "processing")
  /\ UNCHANGED <<shown, command, request>>

FinishWithoutRow(w, v) ==
  /\ hand[w].phase = "processing"
  /\ HandlerTime
  /\ v = "done" \/ (v = "failed" /\ hand[w].abort = "no")
  /\ Put(w, [hand[w] EXCEPT !.phase = "returned", !.verdict = v, !.token = TRUE])
  /\ UNCHANGED <<storeVars, shown, command, request>>

\* The handler returns or throws; the kernel emits the run's terminal row.  A
\* failure of an aborted run is classified as a cancellation (Unwind).
Finish(w, v) ==
  /\ hand[w].phase = "processing"
  /\ HandlerTime
  /\ v = "done" \/ (v = "failed" /\ hand[w].abort = "no")
  /\ Put(w, [hand[w] EXCEPT !.phase = "returned", !.verdict = v, !.token = TRUE])
  /\ Show(hand[w].claim, v)
  /\ UNCHANGED <<storeVars, command, request>>

\* The handler of an aborted run unwinds with a CancelledError.  The kernel leaves
\* the row to the daemon when cancelOrigin is set, which only
\* runRegistry.cancel does.  A handler's own CancelledError, in a run nobody
\* aborted, is left out.
Unwind(w) ==
  /\ hand[w].phase = "processing"
  /\ hand[w].abort # "no"
  /\ Put(w, [hand[w] EXCEPT !.phase = "returned", !.verdict = "cancelled",
                            !.token = hand[w].abort = "lease"])
  /\ IF hand[w].abort = "lease" THEN Show(hand[w].claim, "cancelled")
                                ELSE UNCHANGED shown
  /\ UNCHANGED <<storeVars, command, request>>

\* The cancellation check after the run reads the controller and the task.
Decide(w) ==
  LET h == hand[w]
      cancel == h.abort # "no" \/ task[h.claim.task].state \in {"cancelled", "cancel_requested"}
  IN
  /\ h.phase = "returned"
  /\ Put(w, [h EXCEPT !.phase = "terminalizing",
                      !.verdict = IF cancel THEN "cancelled" ELSE @])
  /\ UNCHANGED <<storeVars, shown, command, request>>

\* markItemDone, markItemFailed (terminalizeNormalOutcome) or markItemCancelled.
\* A refused done or failed write is over when the store already says the same
\* or the task is visibly elsewhere, and is retried forever otherwise; a refused
\* cancel is dropped.
Terminalize(w) ==
  LET c == hand[w].claim
      v == hand[w].verdict
  IN
  /\ hand[w].phase = "terminalizing"
  /\ \/ MarkItem(c, v) /\ Enter(w, "settling")
     \/ /\ ~LeaseHolds(c)
        /\ IF v # "cancelled" /\ task[c.task].state = v THEN Enter(w, "settling")
           ELSE (v = "cancelled" \/ HandedOff(c)) /\ Conclude(w)
        /\ UNCHANGED storeVars
  /\ UNCHANGED <<shown, command, request>>

\* Every retry of the write threw: the claim is parked as blocked.
TerminalizeUncertain(w) ==
  /\ hand[w].phase = "terminalizing"
  /\ hand[w].verdict # "cancelled"
  /\ MarkBlockedUncertain(hand[w].claim)
  /\ Put(w, [hand[w] EXCEPT !.phase = "settling", !.verdict = "none"])
  /\ UNCHANGED <<shown, command, request>>

\* What follows the store write and, for the dependencies of the task, their
\* settlement (module Dependencies): the corrective failed row of an uncertain one,
\* or the cancelled row unless the kernel took the run's terminal token.
CloseItem(w) ==
  LET h == hand[w] IN
  /\ h.phase = "settling"
  /\ CASE h.verdict = "none" -> Show(h.claim, "failed")
       [] h.verdict = "cancelled" /\ ~h.token -> Show(h.claim, "cancelled")
       [] OTHER -> UNCHANGED shown
  /\ Conclude(w)
  /\ UNCHANGED <<command, request>>

Settle(w) == CloseItem(w) /\ UNCHANGED storeVars

Crash(w) ==
  /\ w \in Up
  /\ Put(w, Empty("exited"))
  /\ UNCHANGED <<storeVars, shown, command, request>>

-----------------------------------------------------------------------------
(* The heartbeat and the command poll of daemon w.                         *)

\* A heartbeat that cannot renew the claim aborts the run.
Heartbeat(w) ==
  LET c == hand[w].claim IN
  /\ hand[w].phase \in InFlight
  /\ \/ RenewClaim(w, c.task) /\ UNCHANGED hand
     \/ /\ ~(task[c.task].owner = w /\ task[c.task].state \in {"claimed", "running"})
        /\ hand[w].phase \in {"processing", "returned"}
        /\ hand[w].abort = "no"
        /\ hand' = [hand EXCEPT ![w].abort = "lease"]
        /\ UNCHANGED storeVars
  /\ UNCHANGED <<shown, command, request>>

\* A cancel_task command aborts the run it names; for any other it is failed.
ConsumeCancel(w, t) ==
  LET m == command[t] IN
  /\ m # NoCommand
  /\ m.worker = w
  /\ w \in Up
  /\ IF /\ hand[w].phase \in {"processing", "returned"}
        /\ hand[w].claim.task = t
        /\ hand[w].claim.att = m.att
     THEN hand' = [hand EXCEPT ![w].abort = "cancel"]
     ELSE UNCHANGED hand
  /\ command' = [command EXCEPT ![t] = NoCommand]
  /\ CloseCancelCommand(t)
  /\ UNCHANGED <<shown, request>>

-----------------------------------------------------------------------------
(* The dashboard: one event loop, so that a request that does not await     *)
(* (cancel) excludes the others.  While the sweep awaits its probe, tasks   *)
(* are enqueued and retried; a cancel in that time is left out.             *)

Free == request # NoRequest => request.op = "sweep"

NewTask(t) ==
  /\ Free
  /\ Enqueue(t)
  /\ UNCHANGED daemonVars

RetryTask(t) ==
  /\ Free
  /\ OperatorTime
  /\ Retry(t)
  /\ UNCHANGED daemonVars

\* What a request reads of its task.
Read(op, t) ==
  /\ request = NoRequest
  /\ OperatorTime
  /\ request' = [op |-> op, task |-> t, att |-> task[t].cur, worker |-> task[t].owner,
                 step |-> "read"]
  /\ UNCHANGED <<storeVars, hand, shown, command>>

AskCancelQueued(t) == task[t].state = "queued" /\ Read("cancel-queued", t)
AskCancelRunning(t) == task[t].state \in OwnedState /\ Read("cancel-running", t)

\* readQueueState lists a task that waits for its dependencies as queued.
AskSweep(t) == task[t].state \in {"queued", "waiting_dependencies"} /\ Read("sweep", t)

Serving(op, step) == request # NoRequest /\ request.op = op /\ request.step = step
Mark == request' = [request EXCEPT !.step = "marked"]

\* markTaskCancelled with the attempt that was read; its outcome is ignored.
CancelQueued ==
  LET t == request.task IN
  /\ Serving("cancel-queued", "read")
  /\ IF ~task[t].terminal /\ task[t].cur = request.att
     THEN MarkTerminalUnfenced(t, request.att, "cancelled")
     ELSE UNCHANGED storeVars
  /\ Mark
  /\ UNCHANGED <<hand, shown, command>>

\* requestCancelTask: the state it finds in its transaction decides.
CancelRunning ==
  LET t == request.task IN
  /\ Serving("cancel-running", "read")
  /\ \/ RequestCancelRunning(t) /\ Mark
     \/ task[t].state = "cancel_requested" /\ Mark /\ UNCHANGED storeVars
     \/ RequestCancelIdle(t) /\ request' = NoRequest
     \/ task[t].state \in Ended /\ request' = NoRequest /\ UNCHANGED storeVars
  /\ UNCHANGED <<hand, shown, command>>

\* The cancel_task command, to the worker and attempt that were read.
SendCancel ==
  /\ Serving("cancel-running", "marked")
  /\ OpenCancelCommand(request.task)
  /\ command' = [command EXCEPT ![request.task] =
                   [worker |-> request.worker, att |-> request.att]]
  /\ request' = NoRequest
  /\ UNCHANGED <<hand, shown>>

\* The orphan sweep (scanOrphanedQueueItems) looks for daemons that can claim.
ProbeDaemons(claimable) ==
  /\ Serving("sweep", "read")
  /\ request' = IF claimable = {} THEN [request EXCEPT !.step = "probed"] ELSE NoRequest
  /\ UNCHANGED <<storeVars, hand, shown, command>>

\* markItemFailed without a lease: the attempt is looked up again.
SweepFail ==
  LET t == request.task IN
  /\ Serving("sweep", "probed")
  /\ IF ~task[t].terminal
     THEN MarkTerminalUnfenced(t, task[t].cur, "failed")
     ELSE UNCHANGED storeVars
  /\ Mark
  /\ UNCHANGED <<hand, shown, command>>

\* The row of a request, for the run that was read, whatever came of the write.
CloseRequest ==
  /\ Serving("cancel-queued", "marked") \/ Serving("sweep", "marked")
  /\ shown' = [shown EXCEPT ![request.task][request.att] =
                 IF request.op = "sweep" THEN "failed" ELSE "cancelled"]
  /\ request' = NoRequest
  /\ UNCHANGED <<hand, command>>

EmitRequestRow == CloseRequest /\ UNCHANGED storeVars

\* A stalled process outlasts its lease; a dead one always does.
LeaseRunsOut(t) ==
  /\ MayStall \/ task[t].owner \notin Up
  /\ LeaseExpires(t)
  /\ UNCHANGED daemonVars

-----------------------------------------------------------------------------
ClaimLoop(w) ==
  \/ \E t \in Tasks : Take(w, t)
  \/ Start(w)
  \/ \E v \in {"done", "failed"} : Finish(w, v)
  \/ Unwind(w)
  \/ Decide(w)
  \/ Terminalize(w)
  \/ TerminalizeUncertain(w)
  \/ Settle(w)

BelievedSelfOnly(w) == {{w}}

\* The daemons a recovering daemon may believe alive: a stalled one looks stale.
Believed(w) ==
  {alive \in SUBSET Up : w \in alive /\ (MayStall \/ alive = Up)}

Background(w) ==
  \/ \E alive \in Believed(w) : Recover(w, alive)
  \/ Heartbeat(w)
  \/ \E t \in Tasks : ConsumeCancel(w, t)

Serve ==
  \/ CancelQueued
  \/ CancelRunning
  \/ SendCancel
  \/ ProbeDaemons(Up)
  \/ SweepFail
  \/ EmitRequestRow

DaemonNext ==
  \/ \E w \in Workers : Spawn(w) \/ Crash(w) \/ ClaimLoop(w) \/ Background(w)
  \/ \E t \in Tasks :
       \/ NewTask(t)
       \/ RetryTask(t)
       \/ AskCancelQueued(t)
       \/ AskCancelRunning(t)
       \/ AskSweep(t)
       \/ LeaseRunsOut(t)
  \/ Serve

DaemonSpec == DaemonInit /\ [][DaemonNext]_vars

\* A live daemon keeps running its loop and its timers, the dashboard finishes
\* what it serves, handlers end, and the clock passes a dead worker's lease.
Fairness ==
  /\ \A w \in Workers : WF_vars(ClaimLoop(w)) /\ WF_vars(Background(w))
  /\ WF_vars(Serve)
  /\ \A t \in Tasks : WF_vars(LeaseRunsOut(t))

FairDaemonSpec == DaemonSpec /\ Fairness

-----------------------------------------------------------------------------
(* Properties.                                                             *)

Works(w, t) == hand[w].phase = "processing" /\ hand[w].claim.task = t

\* A cancellation the store accepted is never undone by handing the task out again.
CancelNeverRequeued ==
  [][\A t \in Tasks : task[t].state = "cancel_requested"
       => task'[t].state \notin {"queued", "claimed", "running"}]_vars

\* A run whose completion is on record is not run again: a crash between the
\* `done` row and its transition is reconciled, not re-queued (queue.ts,
\* "requeueing it would rerun an HR action").
NoRerunAfterDone ==
  [][\A w \in Workers : Start(w) /\ hand'[w].phase = "processing"
       => shown[hand[w].claim.task][hand[w].claim.att] # "done"]_vars

\* Two daemons never work on the same run at once.
OneDaemonPerRun ==
  \A w, u \in Workers, t \in Tasks :
    Works(w, t) /\ Works(u, t) /\ hand[w].claim.att = hand[u].claim.att => w = u

\* A running task has a daemon that can end it: if its owner is alive, the owner
\* holds the item under a lease that passes the fence.
RunningIsFenced ==
  \A t \in Tasks : task[t].state = "running" /\ task[t].owner \in Up =>
    LET c == hand[task[t].owner].claim IN
    c # NoClaim /\ c.task = t /\ FenceHolds(c)

\* A task done in the store is done on the dashboard.
DoneIsShown ==
  \A t \in Tasks : task[t].state = "done" => shown[t][task[t].cur] = "done"

\* With a daemon that stays up, a task that is queued, claimed or running ends or
\* has its cancellation requested, whichever daemons died on the way.  A command
\* that a dead daemon left unread counts as a request, though it may be for an
\* earlier attempt: recovery leaves the task alone as long as it is open.
WorkEnds ==
  <>[](Up # {}) =>
    \A t \in Tasks : task[t].state \in {"queued", "claimed", "running"}
      ~> \/ task[t].state \in Ended \cup {"cancel_requested"}
         \/ t \in cancelCmd

-----------------------------------------------------------------------------
(* What the code's comments say and the model refutes.                     *)

\* retry.ts: retry refuses an item a daemon is working on, since it would yield "two
\* concurrent attempts".
NoConcurrentAttempts ==
  \A w, u \in Workers, t \in Tasks : Works(w, t) /\ Works(u, t) => w = u

\* daemon.ts: the cancelled row the loop writes after a cancellation "overwrites a
\* racing `done` row ... so the badge shows Cancelled".
CancelOverwritesDone ==
  [][\A w \in Workers : Settle(w) /\ hand[w].verdict = "cancelled"
       => shown'[hand[w].claim.task][hand[w].claim.att] # "done"]_vars

\* retry.ts: "Cancel the running attempt first and retry once it terminates": with
\* a daemon that stays up, a cancellation that was accepted comes to an end.
CancelCompletes ==
  <>[](Up # {}) =>
    \A t \in Tasks : task[t].state = "cancel_requested" ~> task[t].state \in Ended
=============================================================================
