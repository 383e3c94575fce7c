---------------------------- MODULE StoreLifecycle ----------------------------
(***************************************************************************)
(* The task store implements TaskLifecycle: the refinement mapping reads   *)
(* the phase of a task off the columns the code tests.  A row is over when *)
(* terminal_at is set, held while it has an owner, open otherwise; so the  *)
(* three columns that record a task's state must always agree.             *)
(***************************************************************************)
EXTENDS TaskStore

phaseOf == [t \in Tasks |->
  IF task[t].state = "absent" THEN "absent"
  ELSE IF task[t].terminal THEN task[t].state
  ELSE IF task[t].owner # NoWorker THEN "held" ELSE "open"]

holderOf == [t \in Tasks |-> task[t].owner]
epochOf == [t \in Tasks |-> task[t].gen]
grantedOf == [t \in Tasks |-> { w \in Workers :
                \E c \in issued : c.task = t /\ c.worker = w }]

Lifecycle == INSTANCE TaskLifecycle
  WITH phase <- phaseOf, holder <- holderOf, epoch <- epochOf, granted <- grantedOf

\* Whoever calls the store and however late, it does to a task only what the
\* life of a task allows: one holder at a time, who was granted the task; every
\* claim under an epoch of its own; nothing ends done or blocked out of the
\* queue; a retry never takes a task from its holder; and what has ended moves
\* only when it is reopened.
ImplementsLifecycle == Lifecycle!LifecycleSpec
=============================================================================
