---------------------------- MODULE Dependencies ----------------------------
(***************************************************************************)
(* A parent task that waits for its children: the `task_dependencies` rows *)
(* of core/task-store/child-state.ts, the settlements daemons and the      *)
(* dashboard make of them, and the dependency scheduler of the dashboard   *)
(* (tracker/tasks/scheduler.ts), over the daemons of module Daemon.        *)
(*                                                                         *)
(* The case is the only one the program creates: an oath-upload ticket and *)
(* the oath-signature rows of an approved OCR prep (createApprovalDepen-   *)
(* dencyRows), kind 'control', policy block_parent, replayed idempotently. *)
(* The parent and its children belong to two workflows, each with its own  *)
(* daemons.  A lease matters only through the death of its worker and      *)
(* never expires, which is so while no process stalls: the properties are  *)
(* checked and proved for MayStall = FALSE.                                *)
(***************************************************************************)
EXTENDS Daemon

CONSTANTS
  Parent,         \* the waiting task; the others are its children
  ParentWorkers,  \* the daemons of the parent's workflow
  NoTick,         \* the scheduler is between two dependencies
  Operated,       \* bound: the tasks that are cancelled, swept and retried
  Mortal          \* bound: the daemons that may crash

ASSUME DependencyAssumption ==
  /\ Parent \in Tasks
  /\ ParentWorkers \subseteq Workers
  /\ Operated \subseteq Tasks
  /\ Mortal \subseteq Workers

VARIABLES
  dep,    \* status of the dependency on each child
  tick    \* the dependency a tick of the scheduler has read, and its verdict

depVars == <<vars, dep, tick>>

Children == Tasks \ {Parent}
DepStatus == {"none", "pending", "satisfied", "failed", "cancelled"}

Serves(w, t) == w \in ParentWorkers <=> t = Parent

DepTypeOK ==
  /\ DaemonTypeOK
  /\ dep \in [Children -> DepStatus]
  /\ tick \in [child : Children, verdict : {"done", "failed"}] \cup {NoTick}

DepInit == DaemonInit /\ dep = [c \in Children |-> "none"] /\ tick = NoTick

\* The dashboard takes up nothing else before a tick has written what it read.
DashboardFree == Free /\ tick = NoTick

\* A dependency that no longer holds its parent back, or does not exist.
Good == {"none", "satisfied", "cancelled"}

-----------------------------------------------------------------------------
\* createDependency: an existing row is left alone (existingPolicy 'idempotent'),
\* and a parent that is already claimed or over is not held back.
CreateDependency(c) ==
  /\ DashboardFree
  /\ task[c].state # "absent" /\ task[Parent].state # "absent"
  /\ dep[c] = "none"
  /\ dep' = [dep EXCEPT ![c] = "pending"]
  /\ IF task[Parent].state = "queued"
     THEN Write(Parent, [task[Parent] EXCEPT !.state = "waiting_dependencies"])
     ELSE UNCHANGED task
  /\ UNCHANGED <<attempt, issued, cancelCmd, daemonVars, tick>>

OutcomeAllowPartial(v) == CASE v = "done" -> "satisfied"
                            [] v = "cancelled" -> "cancelled"
                            [] v = "failed" -> "satisfied"

Outcome(v) == CASE v = "done" -> "satisfied"
                [] v = "cancelled" -> "cancelled"
                [] v = "failed" -> "failed"

\* markDependencyFromChildTerminal: a pending dependency takes the child's verdict;
\* a failure blocks the parent in whatever state it is, anything else releases a
\* waiting parent whose dependencies are all good.
SettleChildBlockingAlways(c, v) ==
  LET settled == IF dep[c] = "pending" THEN [dep EXCEPT ![c] = Outcome(v)] ELSE dep IN
  /\ dep' = settled
  /\ task' = [task EXCEPT ![Parent].state =
       IF v # "done" THEN "blocked"
       ELSE IF @ = "waiting_dependencies" /\ \A d \in Children : settled[d] \in Good
            THEN "queued" ELSE @]
  /\ UNCHANGED <<attempt, issued, cancelCmd>>

SettleChild(c, v) ==
  LET settled == IF dep[c] = "pending" THEN [dep EXCEPT ![c] = Outcome(v)] ELSE dep
      blocks == dep[c] = "pending" /\ v = "failed"
  IN
  /\ dep' = settled
  /\ task' = [task EXCEPT ![Parent].state =
       IF blocks THEN "blocked"
       ELSE IF /\ @ = "waiting_dependencies"
               /\ dep[c] # "none"
               /\ \A d \in Children : settled[d] \in Good
            THEN "queued" ELSE @]
  /\ UNCHANGED <<attempt, issued, cancelCmd>>

NothingToSettle == UNCHANGED <<storeVars, dep>>

\* The loop settles after a cancellation the store took, and after a done or
\* failed write if the task still says so.
SettleItem(w) ==
  LET t == hand[w].claim.task
      v == hand[w].verdict
  IN
  /\ CloseItem(w)
  /\ IF t \in Children /\ (v = "cancelled" \/ task[t].state = v)
     THEN SettleChild(t, v) ELSE NothingToSettle

\* The cancel and sweep requests settle whatever came of their write.
SettleRequest ==
  LET t == request.task IN
  /\ CloseRequest
  /\ IF t \in Children
     THEN SettleChild(t, IF request.op = "sweep" THEN "failed" ELSE "cancelled")
     ELSE NothingToSettle

\* One dependency of a tick of the scheduler, in two steps between which a daemon
\* may write: it reads a pending dependency (the code lists those of a tick at its
\* start) and the terminal row of the child's run,
SchedulerRead(c) ==
  LET row == IF task[c].run = 0 THEN "none" ELSE shown[c][task[c].run] IN
  /\ DashboardFree
  /\ dep[c] = "pending"
  /\ row # "none"
  /\ tick' = [child |-> c, verdict |-> IF row = "done" THEN "done" ELSE "failed"]
  /\ UNCHANGED <<vars, dep>>

\* then writes dependency, task and attempt without a guard, and neither blocks nor
\* releases the parent.
SchedulerWrite ==
  LET c == tick.child
      v == tick.verdict
  IN
  /\ tick # NoTick
  /\ dep' = [dep EXCEPT ![c] = IF v = "done" THEN "satisfied" ELSE "failed"]
  /\ task' = [task EXCEPT ![c].state = v, ![c].terminal = TRUE]
  /\ WriteAttempt(c, task[c].run, v)
  /\ tick' = NoTick
  /\ UNCHANGED <<issued, cancelCmd, daemonVars>>

ClaimableUnlessPending(t) == t = Parent => \A c \in Children : dep[c] # "pending"

\* The claim query passes over a task with an unsettled or failed dependency.
Claimable(t) == t = Parent => \A c \in Children : dep[c] \in Good

\* findAliveDaemons and the recovery sweep look at one workflow.
Colleagues(w) == {u \in Workers : u \in ParentWorkers <=> w \in ParentWorkers}

-----------------------------------------------------------------------------
DepClaimLoop(w) ==
  \/ SettleItem(w)
  \/ /\ \/ \E t \in Tasks : Serves(w, t) /\ Claimable(t) /\ Take(w, t)
        \/ Start(w)
        \/ \E v \in {"done", "failed"} : Finish(w, v)
        \/ Unwind(w)
        \/ Decide(w)
        \/ Terminalize(w)
        \/ TerminalizeUncertain(w)
     /\ UNCHANGED dep

DepBackground(w) ==
  \/ Recover(w, Up \cup (Workers \ Colleagues(w)))
  \/ Heartbeat(w)
  \/ \E t \in Tasks : ConsumeCancel(w, t)

DepServe ==
  \/ SettleRequest
  \/ /\ \/ CancelQueued
        \/ CancelRunning
        \/ SendCancel
        \/ ProbeDaemons({w \in Up : Serves(w, request.task)})
        \/ SweepFail
     /\ UNCHANGED dep

Ask(t) == RetryTask(t) \/ AskCancelQueued(t) \/ AskCancelRunning(t) \/ AskSweep(t)

DepNext ==
  \/ \E w \in Workers : DepClaimLoop(w) /\ UNCHANGED tick
  \/ \E w \in Workers :
       /\ DepBackground(w) \/ Spawn(w) \/ (w \in Mortal /\ Crash(w))
       /\ UNCHANGED <<dep, tick>>
  \/ tick = NoTick /\ DepServe /\ UNCHANGED tick
  \/ /\ tick = NoTick
     /\ (\E t \in Tasks : NewTask(t)) \/ (\E t \in Operated : Ask(t))
     /\ UNCHANGED <<dep, tick>>
  \/ \E c \in Children : CreateDependency(c) \/ SchedulerRead(c)
  \/ SchedulerWrite

DepSpec == DepInit /\ [][DepNext]_depVars

-----------------------------------------------------------------------------
(* Properties.                                                             *)

\* No daemon or request is between a child's terminal write and its settlement.
Quiet ==
  /\ request = NoRequest
  /\ \A w \in Workers : hand[w].phase \notin {"returned", "terminalizing", "settling"}

\* A dependency is satisfied, failed or cancelled only by an attempt of the child
\* that ended that way, whichever of the daemon, the dashboard and the scheduler
\* settles it first.
SettledForAReason ==
  \A c \in Children :
    /\ dep[c] = "satisfied" => \E n \in AttemptNo : attempt[c][n] = "done"
    /\ dep[c] = "failed" => \E n \in AttemptNo : attempt[c][n] = "failed"
    /\ dep[c] = "cancelled" => \E n \in AttemptNo : attempt[c][n] = "cancelled"

\* The parent is handed to a daemon only when every child it waits for has an
\* attempt that is done or cancelled, however it came back to the queue.
ParentWaitsForChildren ==
  [][task[Parent].state = "queued" /\ task'[Parent].state = "claimed" =>
       \A c \in Children : dep[c] = "none"
         \/ \E n \in AttemptNo : attempt[c][n] \in {"done", "cancelled"}]_depVars

\* A parent is blocked only while some dependency is failed, or because its own end
\* could not be written.
BlockedOnFailure ==
  task[Parent].state = "blocked" =>
    task[Parent].terminal \/ \E c \in Children : dep[c] = "failed"

-----------------------------------------------------------------------------
(* What the docs say and the model refutes.                                *)

\* docs/workflow/README.md: "retry can let a blocked/waiting parent resume after
\* the child reaches a good terminal state".
RetriedChildUnblocks ==
  ~ /\ Quiet
    /\ task[Parent].state = "blocked" /\ ~task[Parent].terminal
    /\ \A c \in Children : dep[c] # "none" => task[c].state = "done"

\* docs/workflow/README.md: "Child is cancelled: Dependency is marked `cancelled`,
\* not `failed`."
CancelledChildNotFailed ==
  [][\A c \in Children : dep[c] = "pending" /\ task[c].state = "cancelled"
       => dep'[c] # "failed"]_depVars

\* docs/workflow/README.md: "if every dependency is either satisfied or cancelled,
\* the parent can release".
SettledParentReleased ==
  ~ /\ Quiet
    /\ task[Parent].state = "waiting_dependencies"
    /\ \E c \in Children : dep[c] # "none"
    /\ \A c \in Children : dep[c] \in Good
=============================================================================
