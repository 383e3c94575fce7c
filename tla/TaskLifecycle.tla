---------------------------- MODULE TaskLifecycle ----------------------------
(***************************************************************************)
(* What the task store promises, whatever its columns and its callers: a   *)
(* task is a lease.  One worker at a time holds it; whoever it is taken    *)
(* from by a re-queue is left behind by its epoch; what has ended ended    *)
(* out of the right hands and comes back only by being reopened.  The      *)
(* detail is in TaskStore, which StoreLifecycle shows to implement this.   *)
(***************************************************************************)
EXTENDS Naturals

CONSTANTS
  Tasks,
  Workers,
  NoWorker

VARIABLES
  phase,    \* phase[t]: "absent", "open", "held", or how the task ended
  holder,   \* the worker that holds the task, NoWorker in every other phase
  epoch,    \* claim_generation
  granted   \* granted[t]: the workers the task was ever granted to

vars == <<phase, holder, epoch, granted>>

Ended == {"done", "failed", "cancelled", "blocked"}

Init ==
  /\ phase = [t \in Tasks |-> "absent"]
  /\ holder = [t \in Tasks |-> NoWorker]
  /\ epoch = [t \in Tasks |-> 0]
  /\ granted = [t \in Tasks |-> {}]

Become(t, p, w, e) == phase'[t] = p /\ holder'[t] = w /\ epoch'[t] = e
NoGrant(t) == granted'[t] = granted[t]

Create(t) == phase[t] = "absent" /\ Become(t, "open", NoWorker, 0) /\ NoGrant(t)

\* A claim: the open task goes to w under an epoch of its own.
Grant(t, w) ==
  /\ phase[t] = "open"
  /\ Become(t, "held", w, epoch[t] + 1)
  /\ granted'[t] = granted[t] \cup {w}

\* A worker the task was once granted to takes it up late, without an epoch.
Resume(t, w) ==
  /\ phase[t] = "open" /\ w \in granted[t]
  /\ Become(t, "held", w, epoch[t])
  /\ NoGrant(t)

\* Re-queued or handed on: the former holder is an epoch behind.
Release(t) ==
  /\ phase[t] = "held"
  /\ Become(t, "open", NoWorker, epoch[t] + 1)
  /\ NoGrant(t)

\* Only a task that is held ends done or blocked.
End(t, v) ==
  /\ phase[t] = "held" \/ (phase[t] = "open" /\ v \in {"failed", "cancelled"})
  /\ Become(t, v, NoWorker, epoch[t])
  /\ NoGrant(t)

\* A retry starts a new epoch, and is refused while a worker holds the task.
Retry(t) ==
  /\ phase[t] \in Ended \cup {"open"}
  /\ Become(t, "open", NoWorker, epoch[t] + 1)
  /\ NoGrant(t)

\* An adopting enqueue reopens the task in any phase, in the same epoch.
Adopt(t) ==
  /\ phase[t] # "absent"
  /\ Become(t, "open", NoWorker, epoch[t])
  /\ NoGrant(t)

Step(t) ==
  \/ Create(t) \/ Release(t) \/ Retry(t) \/ Adopt(t)
  \/ \E w \in Workers : Grant(t, w) \/ Resume(t, w)
  \/ \E v \in Ended : End(t, v)

Stays(t) == Become(t, phase[t], holder[t], epoch[t]) /\ NoGrant(t)

\* One transaction, which may move several tasks: recovery does.
Next == \A t \in Tasks : Stays(t) \/ Step(t)

LifecycleSpec == Init /\ [][Next]_vars
=============================================================================
