------------------------------ MODULE BatchPool ------------------------------
(***************************************************************************)
(* Batches run in one process, without a daemon: runWorkflowBatch in its   *)
(* three modes (workflow.ts, pool.ts, shared-context-pool.ts), the lanes   *)
(* that share one queue (pool-core.ts), and the lifecycle around them that *)
(* owes every item a terminal row (batch-lifecycle.ts).                    *)
(*                                                                         *)
(* A sequential batch and a shared-context batch have one browser session  *)
(* for all lanes; in a pool each lane launches its own.  What runs between *)
(* two awaits is one step.  Abstractions: the order of the queue, steps    *)
(* and data of the rows, session events, the reset of systems between two  *)
(* items (its throw is a failure of the item).                             *)
(*                                                                         *)
(* Bound: at most one append of a row throws (`fault`).                    *)
(***************************************************************************)
EXTENDS Naturals, FiniteSets

CONSTANTS
  Items,    \* the items of the batch
  Lanes,    \* Math.min(poolSize, items.length) workers
  First,    \* the only lane of a sequential batch
  None

ASSUME BatchAssumption == First \in Lanes /\ None \notin Items

VARIABLES
  mode,        \* batch.mode, and whether the caller emits the pending rows
  phase,       \* of the batch
  lane,        \* each worker: where it is, the item it works on, whether its
               \* session is open and whether it is unwinding from a throw
  parent,      \* the session shared by all lanes is open
  queue,       \* items nobody has taken
  terminated,  \* runs the lifecycle knows to be over
  row,         \* the last row of each item
  ends,        \* how many terminal rows each has
  tally,       \* the items counted as succeeded or failed
  fault        \* an append has thrown

vars == <<mode, phase, lane, parent, queue, terminated, row, ends, tally, fault>>

Modes == [kind : {"sequential", "pool", "shared"}, preEmits : BOOLEAN]
Phase == {"preparing", "opening", "running", "closing", "returned", "threw",
          "interrupted", "terminated"}
Lane == [at : {"off", "acquiring", "ready", "busy", "releasing", "ended"},
         item : Items \cup {None}, open : BOOLEAN, threw : BOOLEAN]

Used == IF mode.kind = "sequential" THEN {First} ELSE Lanes
Alive == phase \notin {"interrupted", "terminated"}

Init ==
  /\ mode \in Modes
  /\ phase = "preparing"
  /\ lane = [l \in Lanes |-> [at |-> "off", item |-> None, open |-> FALSE, threw |-> FALSE]]
  /\ parent = FALSE
  /\ queue = Items /\ terminated = {} /\ tally = {}
  /\ row = [i \in Items |-> "none"]
  /\ ends = [i \in Items |-> 0]
  /\ fault = FALSE

\* Terminal rows v for the items in S, in one go.
Show(S, v) ==
  /\ row' = [i \in Items |-> IF i \in S THEN v ELSE row[i]]
  /\ ends' = [i \in Items |-> IF i \in S THEN ends[i] + 1 ELSE ends[i]]
ShowNothing == UNCHANGED <<row, ends>>

\* A plausible bug: every item of the batch is failed, finished or not.
UnfinishedOrNot == Items
\* fanoutFailed: a failed row for every run that is not known to be over.  It marks
\* each before its append, and stops at one that throws.
Unfinished == Items \ terminated
Fanout ==
  \/ /\ Show(Unfinished, "failed") /\ terminated' = Items /\ UNCHANGED fault
  \/ /\ ~fault /\ fault' = TRUE
     /\ \E i \in Unfinished : \E S \in SUBSET (Unfinished \ {i}) :
          Show(S, "failed") /\ terminated' = terminated \cup S \cup {i}

-----------------------------------------------------------------------------
\* validateAndPrepareItems: the caller's pending rows come before the lifecycle, so
\* that nothing is fanned out when one of them throws.
Prepare ==
  /\ phase = "preparing"
  /\ \/ ~mode.preEmits /\ phase' = "opening" /\ UNCHANGED <<row, fault>>
     \/ /\ mode.preEmits /\ phase' = "opening" /\ UNCHANGED fault
        /\ row' = [i \in Items |-> "pending"]
     \/ /\ mode.preEmits /\ ~fault /\ fault' = TRUE /\ phase' = "threw"
        /\ \E S \in SUBSET Items : S # Items /\
             row' = [i \in Items |-> IF i \in S THEN "pending" ELSE "none"]
  /\ UNCHANGED <<mode, lane, parent, queue, terminated, ends, tally>>

\* The session all lanes share, or none.  Where its launch or every login fails it
\* is closed, and the batch throws before a lane has started.
Open ==
  /\ phase = "opening"
  /\ phase' = "running"
  /\ parent' = (mode.kind # "pool")
  /\ lane' = [l \in Lanes |->
                IF l \in Used
                  THEN [lane[l] EXCEPT !.at = IF mode.kind = "sequential" THEN "ready"
                                                                         ELSE "acquiring"]
                  ELSE lane[l]]
  /\ UNCHANGED <<mode, queue, terminated, row, ends, tally, fault>>

OpenFails ==
  /\ phase = "opening" /\ mode.kind # "pool"
  /\ phase' = "threw"
  /\ Fanout
  /\ UNCHANGED <<mode, lane, parent, queue, tally>>

\* strategy.acquire: a session, or a tab of the shared one.
Acquire(l) ==
  /\ Alive /\ lane[l].at = "acquiring"
  /\ lane' = [lane EXCEPT ![l].at = "ready", ![l].open = TRUE]
  /\ UNCHANGED <<mode, phase, parent, queue, terminated, row, ends, tally, fault>>

\* A plausible bug: the browser of a lane that could not log in is not closed.
AcquireFailsLeaking(l) ==
  /\ Alive /\ lane[l].at = "acquiring" /\ mode.kind = "pool"
  /\ lane' = [lane EXCEPT ![l].at = "ended", ![l].threw = TRUE, ![l].open = TRUE]
  /\ UNCHANGED <<mode, phase, parent, queue, terminated, row, ends, tally, fault>>
\* A lane of a pool cannot launch or log in: it closes what it launched and dies.
AcquireFails(l) ==
  /\ Alive /\ lane[l].at = "acquiring" /\ mode.kind = "pool"
  /\ lane' = [lane EXCEPT ![l].at = "ended", ![l].threw = TRUE]
  /\ UNCHANGED <<mode, phase, parent, queue, terminated, row, ends, tally, fault>>

\* queue.shift() and the rows runOneItem writes before it runs the handler.  A throw
\* of theirs is not caught there: it ends the lane.
TakeItem(l, i) ==
  /\ Alive /\ lane[l].at = "ready" /\ i \in queue
  /\ queue' = queue \ {i}
  /\ \/ /\ lane' = [lane EXCEPT ![l].at = "busy", ![l].item = i]
        /\ row' = [row EXCEPT ![i] = "pending"]
        /\ UNCHANGED fault
     \/ /\ ~fault /\ fault' = TRUE
        /\ lane' = [lane EXCEPT ![l].at = "releasing", ![l].threw = TRUE]
        /\ UNCHANGED row
  /\ UNCHANGED <<mode, phase, parent, terminated, ends, tally>>

\* The handler ends, its terminal row, markTerminated and the count.  A done row that
\* throws is followed by a failed one, a failed one by nothing.
EndItem(l, v) ==
  LET i == lane[l].item IN
  /\ Alive /\ lane[l].at = "busy"
  /\ lane' = [lane EXCEPT ![l].at = "ready", ![l].item = None]
  /\ terminated' = terminated \cup {i}
  /\ tally' = tally \cup {i}
  /\ \/ Show({i}, v) /\ UNCHANGED fault
     \/ /\ ~fault /\ fault' = TRUE
        /\ IF v = "done" THEN Show({i}, "failed") ELSE ShowNothing
  /\ UNCHANGED <<mode, phase, parent, queue>>

\* A plausible bug: a lane stops when it learns that another has died.
DrainedOrBereft(l) ==
  /\ Alive /\ lane[l].at = "ready" /\ (queue = {} \/ \E k \in Lanes : lane[k].threw)
  /\ lane' = [lane EXCEPT ![l].at = "releasing"]
  /\ UNCHANGED <<mode, phase, parent, queue, terminated, row, ends, tally, fault>>
\* The queue is empty.
Drained(l) ==
  /\ Alive /\ lane[l].at = "ready" /\ queue = {}
  /\ lane' = [lane EXCEPT ![l].at = "releasing"]
  /\ UNCHANGED <<mode, phase, parent, queue, terminated, row, ends, tally, fault>>

\* strategy.release, in a finally; its own failure is only logged.
Release(l) ==
  /\ Alive /\ lane[l].at = "releasing"
  /\ lane' = [lane EXCEPT ![l].at = "ended", ![l].open = FALSE]
  /\ UNCHANGED <<mode, phase, parent, queue, terminated, row, ends, tally, fault>>

-----------------------------------------------------------------------------
AllOver == \A l \in Used : lane[l].at = "ended"
AllThrew == \A l \in Used : lane[l].threw

\* A plausible bug: Promise.all, which rejects with the first lane that does.
SettledEarly == AllOver \/ \E l \in Used : lane[l].at = "ended" /\ lane[l].threw
Settled == AllOver

\* Promise.allSettled is through; the shared session is closed.
Close ==
  /\ phase = "running" /\ Settled
  /\ phase' = "closing"
  /\ parent' = FALSE
  /\ UNCHANGED <<mode, lane, queue, terminated, row, ends, tally, fault>>

\* Only a batch of which every lane died throws.
Failed == AllThrew

Finish ==
  /\ phase = "closing"
  /\ \/ ~Failed /\ phase' = "returned" /\ UNCHANGED <<terminated, row, ends, fault>>
     \/ Failed /\ phase' = "threw" /\ Fanout
  /\ UNCHANGED <<mode, lane, parent, queue, tally>>

Listening == phase \in {"opening", "running", "closing"}

\* SIGINT: the lifecycle's listener is the first, fans out and exits.
Interrupt ==
  /\ Listening
  /\ phase' = "interrupted"
  /\ Fanout
  /\ UNCHANGED <<mode, lane, parent, queue, tally>>

\* SIGTERM: the lifecycle does not listen.  The listener of the run that started
\* first writes the row of that run and exits; without a run the process just ends.
Terminate ==
  /\ Listening
  /\ phase' = "terminated"
  /\ \/ \E l \in Used : lane[l].at = "busy" /\ Show({lane[l].item}, "failed")
     \/ (\A l \in Used : lane[l].at # "busy") /\ ShowNothing
  /\ UNCHANGED <<mode, lane, parent, queue, terminated, tally, fault>>

LaneStep(l) ==
  \/ Acquire(l) \/ AcquireFails(l)
  \/ \E i \in Items : TakeItem(l, i)
  \/ \E v \in {"done", "failed"} : EndItem(l, v)
  \/ Drained(l) \/ Release(l)

BatchStep == Prepare \/ Open \/ OpenFails \/ Close \/ Finish

Next ==
  \/ BatchStep
  \/ \E l \in Lanes : LaneStep(l)
  \/ Interrupt \/ Terminate

BatchSpec == Init /\ [][Next]_vars

-----------------------------------------------------------------------------
\* The variables have their types.
BatchTypeOK ==
  /\ mode \in Modes /\ phase \in Phase
  /\ lane \in [Lanes -> Lane] /\ parent \in BOOLEAN
  /\ queue \subseteq Items /\ terminated \subseteq Items /\ tally \subseteq Items
  /\ row \in [Items -> {"none", "pending", "done", "failed"}]
  /\ ends \in [Items -> Nat] /\ fault \in BOOLEAN

\* However a batch ends, by itself, by a throw of any of its parts or by SIGINT,
\* every item has a terminal row (batch-lifecycle.ts:338: "or the dashboard leaves
\* them hanging").  An append that throws, and SIGTERM, may leave one without.
NobodyLeftHanging ==
  phase \in {"returned", "threw", "interrupted"} /\ ~fault
    => \A i \in Items : row[i] \in {"done", "failed"}

\* No item gets two terminal rows: the fan-out meets no run that has ended and none
\* that is still going to, though lanes die while others are at work.
OneOutcomePerItem == \A i \in Items : ends[i] <= 1

\* Survivors work off what dead lanes left: a batch that returns has counted every
\* item, except the one whose own rows could not be written.
SurvivorsDrainQueue ==
  phase = "returned" =>
    /\ queue = {}
    /\ ~fault => tally = Items
    /\ Cardinality(Items \ tally) <= 1

\* A batch that is over leaves no browser open, whichever lane died where.
BrowsersClosed ==
  phase \in {"returned", "threw"} =>
    ~parent /\ \A l \in Lanes : ~lane[l].open
=============================================================================
