-------------------------- MODULE BatchPoolProofs --------------------------
(***************************************************************************)
(* Theorems about BatchPool for any items and lanes.                       *)
(*                                                                         *)
(* The inductive invariant says where every item is: in the queue, in the  *)
(* hands of one lane, over, or lost to the one append that may throw; and  *)
(* where the lanes can be in each phase of the batch.                      *)
(***************************************************************************)
EXTENDS BatchPool, FiniteSetTheorems, TLAPS

\* Phases without a fan-out behind them, and those in which no lane works.
Undecided == {"preparing", "opening", "running", "closing", "returned"}
Still == {"closing", "returned", "threw"}

Busy(l) == lane[l].at = "busy"

\* An item is in the hands of one lane at most, and then nowhere else.
Ownership ==
  Alive =>
    /\ \A l \in Lanes : Busy(l) => /\ lane[l].item \in Items
                                   /\ lane[l].item \notin queue \cup terminated
    /\ \A l, k \in Lanes : Busy(l) /\ Busy(k) /\ lane[l].item = lane[k].item => l = k

\* Without a fan-out, what is over was counted, and nothing else has a row.
Bookkeeping ==
  /\ phase \in Undecided =>
       /\ queue \cap terminated = {}
       /\ tally = terminated
       /\ \A i \in Items \ terminated : ends[i] = 0
  /\ phase = "preparing" => terminated = {}

Found(i) ==
  \/ i \in queue \cup terminated
  \/ \E l \in Lanes : Busy(l) /\ lane[l].item = i
\* No item goes missing, but one if an append has thrown.
Accounted ==
  phase \in Undecided =>
    \E x \in Items \cup {None} :
      /\ x # None => fault
      /\ \A i \in Items : i = x \/ Found(i)

Shown == ~fault => \A i \in terminated : row[i] \in {"done", "failed"}

\* A lane that has left of itself found the queue empty.
Left == \A l \in Lanes : lane[l].at \in {"releasing", "ended"} /\ ~lane[l].threw => queue = {}

\* Where lanes and the shared session can be in each phase.
LanesFit ==
  /\ \A l \in Lanes : lane[l].at \in {"off", "acquiring", "ended"} => ~lane[l].open
  /\ phase \in {"preparing", "opening"} => \A l \in Lanes : lane[l].at = "off"
  /\ phase = "running" => \A l \in Lanes \ Used : lane[l].at = "off"
  /\ phase \in Still => \A l \in Lanes : lane[l].at \in {"off", "ended"}
  /\ phase \in {"closing", "returned"} => AllOver
  /\ phase \in Still \cup {"preparing", "opening"} => ~parent
  /\ phase = "returned" => ~Failed

BatchInv ==
  /\ BatchTypeOK
  /\ Ownership
  /\ Bookkeeping
  /\ Accounted
  /\ Shown
  /\ Left
  /\ LanesFit
  /\ OneOutcomePerItem
  /\ phase \in {"threw", "interrupted"} /\ ~fault => terminated = Items

-----------------------------------------------------------------------------
LEMMA InitKeeps == Init => BatchInv
<1> SUFFICES ASSUME Init PROVE BatchInv
  OBVIOUS
<1>1. BatchTypeOK
  BY BatchAssumption DEF Init, BatchTypeOK, Phase, Lane
<1>2. Ownership /\ Bookkeeping /\ Shown /\ Left /\ LanesFit /\ OneOutcomePerItem
  BY BatchAssumption DEF Init, Ownership, Bookkeeping, Shown, Left, LanesFit, Busy, Still,
     Undecided, OneOutcomePerItem, Used
<1>3. Accounted
  BY BatchAssumption DEF Init, Accounted, Found
<1> QED BY <1>1, <1>2, <1>3 DEF BatchInv, Init

\* While the process lives, only a running batch has a lane at work.
LEMMA AtWorkMeansRunning ==
  ASSUME BatchInv, Alive, NEW l \in Lanes, lane[l].at \notin {"off", "ended"}
  PROVE  phase = "running" /\ l \in Used
BY DEF BatchInv, BatchTypeOK, LanesFit, Alive, Phase, Still, Used

\* An account that names the same lost item goes on, as long as no item is let go.
LEMMA AccountStays ==
  ASSUME Accounted, phase \in Undecided, fault => fault',
         \A i \in Items : Found(i) => Found(i)'
  PROVE  Accounted'
<1>1. PICK x \in Items \cup {None} : /\ x # None => fault
                                     /\ \A i \in Items : i = x \/ Found(i)
  BY DEF Accounted
<1>2. /\ x # None => fault'
      /\ \A i \in Items : i = x \/ Found(i)'
  BY <1>1
<1> QED BY <1>2 DEF Accounted

\* A lane that has no item in hand moves on, and nothing else does.
LEMMA LaneMoves ==
  ASSUME BatchInv, Alive, NEW l \in Lanes, lane[l].at \in {"acquiring", "ready", "releasing"},
         NEW r \in Lane, r.at \in {"ready", "releasing", "ended"},
         r.at = "ended" => ~r.open,
         r.at # "ready" /\ ~r.threw => queue = {},
         lane' = [lane EXCEPT ![l] = r],
         UNCHANGED <<mode, phase, parent, queue, terminated, row, ends, tally, fault>>
  PROVE  BatchInv'
<1>1. phase = "running" /\ l \in Used
  BY AtWorkMeansRunning
<1>2. lane'[l] = r /\ \A k \in Lanes \ {l} : lane'[k] = lane[k]
  BY DEF BatchInv, BatchTypeOK
<1>3. BatchTypeOK'
  BY DEF BatchInv, BatchTypeOK
<1>4. \A k \in Lanes : (Busy(k)' <=> Busy(k)) /\ (Busy(k) => lane'[k] = lane[k])
  BY <1>2 DEF Busy
<1>5. Ownership'
  BY <1>4 DEF BatchInv, Ownership, Alive, Busy
<1>6. Accounted'
  <2>1. \A i \in Items : Found(i) => Found(i)'
    BY <1>4 DEF Found
  <2> QED BY <1>1, <2>1, AccountStays DEF BatchInv, Undecided
<1>7. Bookkeeping' /\ Shown' /\ Left'
  BY <1>2 DEF BatchInv, Bookkeeping, Shown, Left, Undecided
<1>8. LanesFit'
  BY <1>1, <1>2 DEF BatchInv, LanesFit, Used, Still
<1> QED BY <1>1, <1>3, <1>5, <1>6, <1>7, <1>8 DEF BatchInv, OneOutcomePerItem

LEMMA AcquireKeeps ==
  ASSUME BatchInv, NEW l \in Lanes, Acquire(l)
  PROVE  BatchInv'
<1> DEFINE r == [lane[l] EXCEPT !.at = "ready", !.open = TRUE]
<1>1. r \in Lane /\ r.at = "ready" /\ lane' = [lane EXCEPT ![l] = r]
  BY DEF Acquire, BatchInv, BatchTypeOK, Lane
<1> QED BY <1>1, LaneMoves DEF Acquire

LEMMA AcquireFailsKeeps ==
  ASSUME BatchInv, NEW l \in Lanes, AcquireFails(l)
  PROVE  BatchInv'
<1> DEFINE r == [lane[l] EXCEPT !.at = "ended", !.threw = TRUE]
<1>1. r \in Lane /\ r.at = "ended" /\ r.threw /\ lane' = [lane EXCEPT ![l] = r]
  BY DEF AcquireFails, BatchInv, BatchTypeOK, Lane
<1>2. ~r.open
  BY DEF AcquireFails, BatchInv, BatchTypeOK, Lane, LanesFit
<1> QED BY <1>1, <1>2, LaneMoves DEF AcquireFails

LEMMA DrainedKeeps ==
  ASSUME BatchInv, NEW l \in Lanes, Drained(l)
  PROVE  BatchInv'
<1> DEFINE r == [lane[l] EXCEPT !.at = "releasing"]
<1>1. r \in Lane /\ r.at = "releasing" /\ lane' = [lane EXCEPT ![l] = r]
  BY DEF Drained, BatchInv, BatchTypeOK, Lane
<1> QED BY <1>1, LaneMoves DEF Drained

LEMMA ReleaseKeeps ==
  ASSUME BatchInv, NEW l \in Lanes, Release(l)
  PROVE  BatchInv'
<1> DEFINE r == [lane[l] EXCEPT !.at = "ended", !.open = FALSE]
<1>1. /\ r \in Lane /\ r.at = "ended" /\ ~r.open /\ r.threw = lane[l].threw
      /\ lane' = [lane EXCEPT ![l] = r]
  BY DEF Release, BatchInv, BatchTypeOK, Lane
<1>2. ~r.threw => queue = {}
  BY <1>1 DEF Release, BatchInv, Left
<1> QED BY <1>1, <1>2, LaneMoves DEF Release

\* A lane takes an item, which is lost where the append of its row throws.
LEMMA TakeItemKeeps ==
  ASSUME BatchInv, NEW l \in Lanes, NEW i \in Items, TakeItem(l, i)
  PROVE  BatchInv'
<1>1. /\ Alive /\ lane[l].at = "ready" /\ i \in queue /\ queue' = queue \ {i}
      /\ UNCHANGED <<mode, phase, parent, terminated, ends, tally>>
  BY DEF TakeItem
<1>2. phase = "running" /\ l \in Used
  BY <1>1, AtWorkMeansRunning
<1>3. i \notin terminated
  BY <1>1, <1>2 DEF BatchInv, Bookkeeping, Undecided
<1>4. CASE /\ lane' = [lane EXCEPT ![l].at = "busy", ![l].item = i]
           /\ row' = [row EXCEPT ![i] = "pending"] /\ UNCHANGED fault
  <2> DEFINE r == [lane[l] EXCEPT !.at = "busy", !.item = i]
  <2>1. r \in Lane /\ r.at = "busy" /\ r.item = i /\ lane' = [lane EXCEPT ![l] = r]
    BY <1>4 DEF BatchInv, BatchTypeOK, Lane
  <2>2. lane'[l] = r /\ \A k \in Lanes \ {l} : lane'[k] = lane[k]
    BY <2>1 DEF BatchInv, BatchTypeOK
  <2> HIDE DEF r
  <2>3. BatchTypeOK'
    BY <1>1, <1>4, <2>1 DEF BatchInv, BatchTypeOK
  <2>4. Busy(l)' /\ \A k \in Lanes \ {l} : Busy(k)' <=> Busy(k)
    BY <2>1, <2>2 DEF Busy
  <2>5. \A k \in Lanes \ {l} : Busy(k) => lane[k].item # i
    BY <1>1 DEF BatchInv, Ownership
  <2>6. Ownership'
    <3>1. \A k \in Lanes : Busy(k)' => /\ lane'[k].item \in Items
                                       /\ lane'[k].item \notin queue' \cup terminated'
      BY <1>1, <1>3, <2>1, <2>2, <2>4 DEF BatchInv, Ownership
    <3>2. \A j, k \in Lanes : Busy(j)' /\ Busy(k)' /\ lane'[j].item = lane'[k].item => j = k
      BY <1>1, <2>1, <2>2, <2>4, <2>5 DEF BatchInv, Ownership
    <3> QED BY <3>1, <3>2 DEF Ownership, Busy
  <2>7. Accounted'
    <3>1. ~Busy(l)
      BY <1>1 DEF Busy
    <3>2. \A j \in Items : Found(j) => Found(j)'
      BY <1>1, <2>1, <2>2, <2>4, <3>1 DEF Found
    <3> QED BY <1>2, <1>4, <3>2, AccountStays DEF BatchInv, Undecided
  <2>8. Bookkeeping' /\ Shown'
    BY <1>1, <1>3, <1>4 DEF BatchInv, BatchTypeOK, Bookkeeping, Shown, Undecided
  <2>9. Left'
    BY <1>1, <2>1, <2>2 DEF BatchInv, Left
  <2>10. LanesFit'
    BY <1>1, <1>2, <2>1, <2>2 DEF BatchInv, LanesFit, Used, Still
  <2> QED BY <1>1, <1>2, <2>3, <2>6, <2>7, <2>8, <2>9, <2>10 DEF BatchInv, OneOutcomePerItem
<1>5. CASE /\ ~fault /\ fault' = TRUE
           /\ lane' = [lane EXCEPT ![l].at = "releasing", ![l].threw = TRUE] /\ UNCHANGED row
  <2> DEFINE r == [lane[l] EXCEPT !.at = "releasing", !.threw = TRUE]
  <2>1. r \in Lane /\ r.at = "releasing" /\ r.threw /\ lane' = [lane EXCEPT ![l] = r]
    BY <1>5 DEF BatchInv, BatchTypeOK, Lane
  <2>2. lane'[l] = r /\ \A k \in Lanes \ {l} : lane'[k] = lane[k]
    BY <2>1 DEF BatchInv, BatchTypeOK
  <2> HIDE DEF r
  <2>3. BatchTypeOK'
    BY <1>1, <1>5, <2>1 DEF BatchInv, BatchTypeOK
  <2>4. \A k \in Lanes : (Busy(k)' <=> Busy(k)) /\ (Busy(k) => lane'[k] = lane[k])
    BY <1>1, <2>1, <2>2 DEF Busy
  <2>5. Ownership'
    BY <1>1, <2>4 DEF BatchInv, Ownership, Alive, Busy
  <2>6. Accounted'
    <3>1. \A j \in Items : Found(j)
      BY <1>2, <1>5, BatchAssumption DEF BatchInv, Accounted, Undecided
    <3>2. \A j \in Items \ {i} : Found(j)'
      BY <1>1, <2>4, <3>1 DEF Found
    <3> QED BY <1>5, <3>2 DEF Accounted
  <2>7. Bookkeeping' /\ Shown'
    BY <1>1, <1>5 DEF BatchInv, Bookkeeping, Shown, Undecided
  <2>8. Left'
    BY <1>1, <2>1, <2>2 DEF BatchInv, Left
  <2>9. LanesFit'
    BY <1>1, <1>2, <2>1, <2>2 DEF BatchInv, LanesFit, Used, Still
  <2> QED BY <1>1, <1>2, <2>3, <2>5, <2>6, <2>7, <2>8, <2>9 DEF BatchInv, OneOutcomePerItem
<1> QED BY <1>4, <1>5 DEF TakeItem

\* A lane ends its item, with or without the terminal row it asked for.
LEMMA EndItemKeeps ==
  ASSUME BatchInv, NEW l \in Lanes, NEW v \in {"done", "failed"}, EndItem(l, v)
  PROVE  BatchInv'
<1> DEFINE i == lane[l].item
           r == [lane[l] EXCEPT !.at = "ready", !.item = None]
<1>1. /\ Alive /\ Busy(l) /\ terminated' = terminated \cup {i} /\ tally' = tally \cup {i}
      /\ UNCHANGED <<mode, phase, parent, queue>>
  BY DEF EndItem, Busy
<1>2. phase = "running" /\ l \in Used
  BY <1>1, AtWorkMeansRunning DEF Busy
<1>3. i \in Items /\ i \notin queue \cup terminated
  BY <1>1 DEF BatchInv, Ownership
<1>4. /\ r \in Lane /\ r.at = "ready" /\ r.open = lane[l].open
      /\ lane' = [lane EXCEPT ![l] = r]
  BY DEF EndItem, BatchInv, BatchTypeOK, Lane
<1>5. lane'[l] = r /\ \A k \in Lanes \ {l} : lane'[k] = lane[k]
  BY <1>4 DEF BatchInv, BatchTypeOK
<1>6. \/ Show({i}, v) /\ UNCHANGED fault
      \/ ~fault /\ fault' = TRUE /\ (Show({i}, "failed") \/ ShowNothing)
  BY DEF EndItem
<1> HIDE DEF r, i
<1>7. /\ row' \in [Items -> {"none", "pending", "done", "failed"}] /\ ends' \in [Items -> Nat]
      /\ \A j \in Items \ {i} : row'[j] = row[j] /\ ends'[j] = ends[j]
      /\ ends'[i] <= ends[i] + 1 /\ fault' \in BOOLEAN /\ (fault => fault')
      /\ ~fault' => row'[i] \in {"done", "failed"}
  <2>1. /\ row \in [Items -> {"none", "pending", "done", "failed"}] /\ ends \in [Items -> Nat]
        /\ fault \in BOOLEAN
    BY DEF BatchInv, BatchTypeOK
  <2>2. ASSUME NEW w \in {"done", "failed"}, Show({i}, w)
        PROVE  /\ row' \in [Items -> {"none", "pending", "done", "failed"}]
               /\ ends' \in [Items -> Nat]
               /\ \A j \in Items \ {i} : row'[j] = row[j] /\ ends'[j] = ends[j]
               /\ ends'[i] <= ends[i] + 1 /\ row'[i] \in {"done", "failed"}
    BY <1>3, <2>1, <2>2 DEF Show
  <2>3. CASE Show({i}, v) /\ UNCHANGED fault
    BY <2>1, <2>2, <2>3
  <2>4. CASE ~fault /\ fault' = TRUE /\ Show({i}, "failed")
    BY <2>2, <2>4
  <2>5. CASE ~fault /\ fault' = TRUE /\ ShowNothing
    BY <1>3, <2>1, <2>5 DEF ShowNothing
  <2> QED BY <1>6, <2>3, <2>4, <2>5
<1>8. BatchTypeOK'
  BY <1>1, <1>3, <1>4, <1>7 DEF BatchInv, BatchTypeOK
<1>9. \A k \in Lanes : Busy(k)' => k # l /\ Busy(k) /\ lane'[k] = lane[k]
  BY <1>4, <1>5 DEF Busy
<1>10. \A k \in Lanes : Busy(k)' => lane[k].item # i
  BY <1>1, <1>9 DEF BatchInv, Ownership, i
<1>11. Ownership'
  <2>1. \A k \in Lanes : Busy(k)' => /\ lane'[k].item \in Items
                                     /\ lane'[k].item \notin queue' \cup terminated'
    BY <1>1, <1>9, <1>10 DEF BatchInv, Ownership
  <2>2. \A j, k \in Lanes : Busy(j)' /\ Busy(k)' /\ lane'[j].item = lane'[k].item => j = k
    BY <1>1, <1>9 DEF BatchInv, Ownership
  <2> QED BY <2>1, <2>2 DEF Ownership, Busy
<1>12. Accounted'
  <2>1. \A k \in Lanes : Busy(k) => k = l \/ (Busy(k)' /\ lane'[k] = lane[k])
    BY <1>5 DEF Busy
  <2>2. \A j \in Items : Found(j) => Found(j)'
    BY <1>1, <2>1 DEF Found, i
  <2> QED BY <1>2, <1>7, <2>2, AccountStays DEF BatchInv, Undecided
<1>13. Bookkeeping' /\ Shown'
  <2>1. Bookkeeping'
    BY <1>1, <1>2, <1>3, <1>7 DEF BatchInv, Bookkeeping, Undecided
  <2>2. Shown'
    BY <1>1, <1>7 DEF BatchInv, BatchTypeOK, Shown
  <2> QED BY <2>1, <2>2
<1>14. Left'
  BY <1>1, <1>4, <1>5 DEF BatchInv, Left
<1>15. LanesFit'
  BY <1>1, <1>2, <1>4, <1>5 DEF BatchInv, LanesFit, Used, Still
<1>16. OneOutcomePerItem'
  <2>1. ends[i] = 0
    BY <1>2, <1>3 DEF BatchInv, Bookkeeping, Undecided
  <2>2. \A j \in Items : ends[j] <= 1
    BY DEF BatchInv, OneOutcomePerItem
  <2>3. ends'[i] <= 1
    BY <1>3, <1>7, <2>1
  <2> QED BY <1>7, <2>2, <2>3 DEF OneOutcomePerItem
<1> QED BY <1>1, <1>2, <1>8, <1>11, <1>12, <1>13, <1>14, <1>15, <1>16 DEF BatchInv

-----------------------------------------------------------------------------
\* A fan-out gives no second row, and covers everything unless an append throws.
LEMMA FanoutShows ==
  ASSUME BatchInv, phase \in Undecided, Fanout
  PROVE  /\ row' \in [Items -> {"none", "pending", "done", "failed"}] /\ ends' \in [Items -> Nat]
         /\ terminated' \subseteq Items /\ fault' \in BOOLEAN
         /\ terminated \subseteq terminated'
         /\ OneOutcomePerItem' /\ Shown'
         /\ ~fault' => terminated' = Items
<1>1. \A i \in Unfinished : ends[i] = 0
  BY DEF BatchInv, Bookkeeping, Unfinished
<1>2. \A i \in Items : ends[i] <= 1
  BY DEF BatchInv, OneOutcomePerItem
<1>3. CASE Show(Unfinished, "failed") /\ terminated' = Items /\ UNCHANGED fault
  BY <1>1, <1>2, <1>3 DEF Show, BatchInv, BatchTypeOK, OneOutcomePerItem, Shown, Unfinished
<1>4. ASSUME fault' = TRUE, NEW i \in Unfinished, NEW S \in SUBSET (Unfinished \ {i}),
             Show(S, "failed"), terminated' = terminated \cup S \cup {i}
      PROVE  /\ row' \in [Items -> {"none", "pending", "done", "failed"}]
             /\ ends' \in [Items -> Nat]
             /\ terminated' \subseteq Items /\ OneOutcomePerItem'
  <2>1. S \subseteq Unfinished /\ i \in Items
    BY <1>4 DEF Unfinished
  <2>2. row' \in [Items -> {"none", "pending", "done", "failed"}] /\ ends' \in [Items -> Nat]
    BY <1>4 DEF Show, BatchInv, BatchTypeOK
  <2>3. OneOutcomePerItem'
    BY <1>1, <1>2, <1>4, <2>1 DEF Show, BatchInv, BatchTypeOK, OneOutcomePerItem
  <2> QED BY <1>4, <2>1, <2>2, <2>3 DEF BatchInv, BatchTypeOK, Unfinished
<1> QED BY <1>3, <1>4 DEF Fanout, Shown

\* While a batch is opening or running its lanes need not be idle, but a fan-out
\* that ends the process leaves nothing to keep; one that throws leaves only lanes
\* that are through.
LEMMA FanoutEnds ==
  ASSUME BatchInv, phase \in Undecided, Fanout, phase' \in {"threw", "interrupted"},
         phase' = "threw" => ~parent /\ \A l \in Lanes : lane[l].at \in {"off", "ended"},
         UNCHANGED <<mode, lane, parent, queue, tally>>
  PROVE  BatchInv'
<1>1. BatchTypeOK'
  BY FanoutShows DEF BatchInv, BatchTypeOK, Phase
<1>2. Ownership'
  BY DEF BatchInv, Ownership, Alive, Busy
<1>3. Bookkeeping' /\ Accounted'
  BY DEF Bookkeeping, Accounted, Undecided
<1>4. Left' /\ LanesFit'
  BY DEF BatchInv, Left, LanesFit, Used, Still
<1> QED BY <1>1, <1>2, <1>3, <1>4, FanoutShows DEF BatchInv

LEMMA PrepareKeeps == BatchInv /\ Prepare => BatchInv'
<1> SUFFICES ASSUME BatchInv, Prepare PROVE BatchInv'
  OBVIOUS
<1>1. /\ phase = "preparing" /\ phase' \in {"opening", "threw"}
      /\ UNCHANGED <<mode, lane, parent, queue, terminated, ends, tally>>
      /\ phase' = "threw" => fault'
      /\ fault => fault'
  BY DEF Prepare
<1>2. row' \in [Items -> {"none", "pending", "done", "failed"}] /\ fault' \in BOOLEAN
  BY DEF Prepare, BatchInv, BatchTypeOK
<1>3. BatchTypeOK'
  BY <1>1, <1>2 DEF BatchInv, BatchTypeOK, Phase
<1>4. terminated = {}
  BY <1>1 DEF BatchInv, Bookkeeping
<1>5. Ownership' /\ Bookkeeping' /\ Shown' /\ Left'
  BY <1>1, <1>4 DEF BatchInv, Ownership, Alive, Busy, Bookkeeping, Undecided, Shown, Left
<1>6. Accounted'
  <2>1. \A i \in Items : Found(i) => Found(i)'
    BY <1>1 DEF Found, Busy
  <2> QED BY <1>1, <2>1, AccountStays DEF BatchInv, Undecided
<1>7. LanesFit'
  BY <1>1 DEF BatchInv, LanesFit, Used, Still
<1> QED BY <1>1, <1>3, <1>5, <1>6, <1>7 DEF BatchInv, OneOutcomePerItem

LEMMA OpenKeeps == BatchInv /\ Open => BatchInv'
<1> SUFFICES ASSUME BatchInv, Open PROVE BatchInv'
  OBVIOUS
<1>1. /\ phase = "opening" /\ phase' = "running" /\ parent' \in BOOLEAN
      /\ UNCHANGED <<mode, queue, terminated, row, ends, tally, fault>>
  BY DEF Open
<1>2. \A l \in Lanes : lane[l].at = "off" /\ lane[l] \in Lane /\ ~lane[l].open
  BY <1>1 DEF BatchInv, BatchTypeOK, LanesFit
<1>3. \A l \in Lanes :
        /\ lane'[l] \in Lane /\ ~lane'[l].open
        /\ lane'[l].at \in {"off", "acquiring", "ready"}
        /\ l \notin Used => lane'[l].at = "off"
  BY <1>2 DEF Open, Lane
<1>4. BatchTypeOK'
  <2>1. lane' \in [Lanes -> Lane]
    BY <1>3 DEF Open
  <2> QED BY <1>1, <2>1 DEF BatchInv, BatchTypeOK, Phase
<1>5. \A l \in Lanes : ~Busy(l)' /\ ~Busy(l)
  BY <1>2, <1>3 DEF Busy
<1>6. Ownership' /\ Bookkeeping' /\ Shown' /\ Left'
  BY <1>1, <1>3, <1>5 DEF BatchInv, Ownership, Busy, Bookkeeping, Undecided, Shown, Left
<1>7. Accounted'
  <2>1. \A i \in Items : Found(i) => Found(i)'
    BY <1>1, <1>5 DEF Found
  <2> QED BY <1>1, <2>1, AccountStays DEF BatchInv, Undecided
<1>8. LanesFit'
  BY <1>1, <1>3 DEF LanesFit, Used, Still
<1> QED BY <1>1, <1>4, <1>6, <1>7, <1>8 DEF BatchInv, OneOutcomePerItem

LEMMA OpenFailsKeeps == BatchInv /\ OpenFails => BatchInv'
BY FanoutEnds DEF OpenFails, BatchInv, LanesFit, Still, Undecided

LEMMA InterruptKeeps == BatchInv /\ Interrupt => BatchInv'
BY FanoutEnds DEF Interrupt, Listening, Undecided

\* Every lane is through: none that was not used is anything but off.
LEMMA CloseKeeps == BatchInv /\ Close => BatchInv'
<1> SUFFICES ASSUME BatchInv, Close PROVE BatchInv'
  OBVIOUS
<1>1. /\ phase = "running" /\ AllOver /\ phase' = "closing" /\ parent' = FALSE
      /\ UNCHANGED <<mode, lane, queue, terminated, row, ends, tally, fault>>
  BY DEF Close, Settled
<1>2. BatchTypeOK' /\ LanesFit'
  BY <1>1 DEF BatchInv, BatchTypeOK, Phase, LanesFit, Still, Used, AllOver
<1>3. Ownership' /\ Bookkeeping' /\ Shown' /\ Left'
  BY <1>1 DEF BatchInv, Ownership, Alive, Busy, Bookkeeping, Undecided, Shown, Left
<1>4. Accounted'
  <2>1. \A i \in Items : Found(i) => Found(i)'
    BY <1>1 DEF Found, Busy
  <2> QED BY <1>1, <2>1, AccountStays DEF BatchInv, Undecided
<1> QED BY <1>1, <1>2, <1>3, <1>4 DEF BatchInv, OneOutcomePerItem

LEMMA FinishKeeps == BatchInv /\ Finish => BatchInv'
<1> SUFFICES ASSUME BatchInv, Finish PROVE BatchInv'
  OBVIOUS
<1>1. phase = "closing" /\ UNCHANGED <<mode, lane, parent, queue, tally>>
  BY DEF Finish
<1>2. CASE ~Failed /\ phase' = "returned" /\ UNCHANGED <<terminated, row, ends, fault>>
  <2>1. BatchTypeOK'
    BY <1>1, <1>2 DEF BatchInv, BatchTypeOK, Phase
  <2>2. LanesFit'
    BY <1>1, <1>2 DEF BatchInv, LanesFit, Still, Used, AllOver, Failed, AllThrew
  <2>3. Ownership' /\ Bookkeeping' /\ Shown' /\ Left'
    BY <1>1, <1>2 DEF BatchInv, Ownership, Alive, Busy, Bookkeeping, Undecided, Shown, Left
  <2>4. Accounted'
    <3>1. \A i \in Items : Found(i) => Found(i)'
      BY <1>1, <1>2 DEF Found, Busy
    <3> QED BY <1>1, <1>2, <3>1, AccountStays DEF BatchInv, Undecided
  <2> QED BY <1>1, <1>2, <2>1, <2>2, <2>3, <2>4 DEF BatchInv, OneOutcomePerItem
<1>3. CASE phase' = "threw" /\ Fanout
  BY <1>1, <1>3, FanoutEnds DEF BatchInv, LanesFit, Still, Undecided
<1> QED BY <1>2, <1>3 DEF Finish

\* The process is gone: only the rows are left.
LEMMA TerminateKeeps == BatchInv /\ Terminate => BatchInv'
<1> SUFFICES ASSUME BatchInv, Terminate PROVE BatchInv'
  OBVIOUS
<1>1. /\ phase \in {"opening", "running", "closing"} /\ phase' = "terminated"
      /\ UNCHANGED <<mode, lane, parent, queue, terminated, tally, fault>>
  BY DEF Terminate, Listening
<1>2. \A l \in Lanes : Busy(l) => lane[l].item \in Items \ terminated
  BY <1>1 DEF BatchInv, Ownership, Alive
<1>3. \A l \in Lanes : Busy(l) => ends[lane[l].item] = 0
  BY <1>1, <1>2 DEF BatchInv, Bookkeeping, Undecided
<1>4. \/ \E l \in Used : Busy(l) /\ Show({lane[l].item}, "failed")
      \/ ShowNothing
  BY DEF Terminate, Busy
<1>5. Used \subseteq Lanes
  BY BatchAssumption DEF Used
<1>6. /\ row' \in [Items -> {"none", "pending", "done", "failed"}] /\ ends' \in [Items -> Nat]
      /\ \A i \in Items : ends'[i] <= 1
      /\ \A i \in terminated : row'[i] = row[i]
  <2>1. /\ row \in [Items -> {"none", "pending", "done", "failed"}] /\ ends \in [Items -> Nat]
        /\ terminated \subseteq Items /\ \A i \in Items : ends[i] <= 1
    BY DEF BatchInv, BatchTypeOK, OneOutcomePerItem
  <2>2. CASE ShowNothing
    BY <2>1, <2>2 DEF ShowNothing
  <2>3. ASSUME NEW l \in Lanes, Busy(l), Show({lane[l].item}, "failed")
        PROVE  /\ row' \in [Items -> {"none", "pending", "done", "failed"}]
               /\ ends' \in [Items -> Nat]
               /\ \A i \in Items : ends'[i] <= 1
               /\ \A i \in terminated : row'[i] = row[i]
    BY <1>2, <1>3, <2>1, <2>3 DEF Show
  <2> QED BY <1>4, <1>5, <2>2, <2>3
<1>7. BatchTypeOK' /\ OneOutcomePerItem'
  BY <1>1, <1>6 DEF BatchInv, BatchTypeOK, Phase, OneOutcomePerItem
<1>8. Ownership' /\ Bookkeeping' /\ Accounted' /\ Left' /\ LanesFit'
  BY <1>1 DEF BatchInv, Ownership, Alive, Bookkeeping, Accounted, Undecided, Left, LanesFit, Still
<1>9. Shown'
  BY <1>1, <1>6 DEF BatchInv, Shown
<1> QED BY <1>1, <1>7, <1>8, <1>9 DEF BatchInv

LEMMA StutterKeeps == BatchInv /\ UNCHANGED vars => BatchInv'
BY DEF vars, BatchInv, BatchTypeOK, Ownership, Bookkeeping, Accounted, Shown, Left, LanesFit,
   OneOutcomePerItem, Alive, Busy, Found, Undecided, Still, Used, AllOver, Failed, AllThrew

-----------------------------------------------------------------------------
\* The invariant holds of every batch, of any items, in any number of lanes.
THEOREM BatchInvariance == BatchSpec => []BatchInv
<1>1. BatchInv /\ [Next]_vars => BatchInv'
  <2> SUFFICES ASSUME BatchInv, [Next]_vars PROVE BatchInv'
    OBVIOUS
  <2>1. CASE BatchStep
    BY <2>1, PrepareKeeps, OpenKeeps, OpenFailsKeeps, CloseKeeps, FinishKeeps DEF BatchStep
  <2>2. ASSUME NEW l \in Lanes, LaneStep(l) PROVE BatchInv'
    BY <2>2, AcquireKeeps, AcquireFailsKeeps, TakeItemKeeps, EndItemKeeps, DrainedKeeps,
       ReleaseKeeps DEF LaneStep
  <2>3. CASE Interrupt \/ Terminate
    BY <2>3, InterruptKeeps, TerminateKeeps
  <2>4. CASE UNCHANGED vars
    BY <2>4, StutterKeeps
  <2> QED BY <2>1, <2>2, <2>3, <2>4 DEF Next
<1> QED BY InitKeeps, <1>1, PTL DEF BatchSpec

\* However a batch ends, but for SIGTERM and an append that throws, every item has a
\* terminal row, whatever died in which order.
THEOREM NobodyLeftHangingHolds == BatchSpec => []NobodyLeftHanging
<1>1. BatchInv => NobodyLeftHanging
  <2> SUFFICES ASSUME BatchInv, phase \in {"returned", "threw", "interrupted"}, ~fault
               PROVE  \A i \in Items : row[i] \in {"done", "failed"}
    BY DEF NobodyLeftHanging
  <2>1. Items \subseteq terminated
    <3>1. CASE phase = "returned"
      <4>1. \A i \in Items : Found(i)
        BY <3>1, BatchAssumption DEF BatchInv, Accounted, Undecided
      <4>2. \A l \in Lanes : ~Busy(l)
        BY <3>1 DEF BatchInv, LanesFit, Still, Busy
      <4>3. PICK l \in Used : ~lane[l].threw
        BY <3>1 DEF BatchInv, LanesFit, Failed, AllThrew
      <4>4. queue = {}
        BY <3>1, <4>3, BatchAssumption DEF BatchInv, LanesFit, AllOver, Left, Used
      <4> QED BY <4>1, <4>2, <4>4 DEF Found
    <3> QED BY <3>1 DEF BatchInv
  <2> QED BY <2>1 DEF BatchInv, Shown
<1> QED BY <1>1, BatchInvariance, PTL

\* No item gets two terminal rows.
THEOREM OneOutcomePerItemHolds == BatchSpec => []OneOutcomePerItem
<1>1. BatchInv => OneOutcomePerItem
  BY DEF BatchInv
<1> QED BY <1>1, BatchInvariance, PTL

\* A batch that returns has counted every item, but for one whose rows it could not
\* write.
THEOREM SurvivorsDrainQueueHolds == BatchSpec => []SurvivorsDrainQueue
<1>1. BatchInv => SurvivorsDrainQueue
  <2> SUFFICES ASSUME BatchInv, phase = "returned"
               PROVE  /\ queue = {} /\ (~fault => tally = Items)
                      /\ Cardinality(Items \ tally) <= 1
    BY DEF SurvivorsDrainQueue
  <2>1. \A l \in Lanes : ~Busy(l)
    BY DEF BatchInv, LanesFit, Still, Busy
  <2>2. PICK l \in Used : ~lane[l].threw
    BY DEF BatchInv, LanesFit, Failed, AllThrew
  <2>3. queue = {}
    BY <2>2, BatchAssumption DEF BatchInv, LanesFit, AllOver, Left, Used
  <2>4. tally = terminated /\ tally \subseteq Items
    BY DEF BatchInv, BatchTypeOK, Bookkeeping, Undecided
  <2>5. PICK x \in Items \cup {None} : /\ x # None => fault
                                       /\ \A i \in Items : i = x \/ Found(i)
    BY DEF BatchInv, Accounted, Undecided
  <2>6. Items \ tally \subseteq {x}
    BY <2>1, <2>3, <2>4, <2>5 DEF Found
  <2>7. Cardinality(Items \ tally) <= 1
    <3>1. Items \ tally = {} \/ Items \ tally = {x}
      BY <2>6
    <3> QED BY <3>1, FS_EmptySet, FS_Singleton
  <2>8. ~fault => tally = Items
    BY <2>4, <2>5, <2>6, BatchAssumption
  <2> QED BY <2>3, <2>7, <2>8
<1> QED BY <1>1, BatchInvariance, PTL

\* A batch that is over leaves no browser open.
THEOREM BrowsersClosedHolds == BatchSpec => []BrowsersClosed
<1>1. BatchInv => BrowsersClosed
  BY DEF BatchInv, LanesFit, Still, BrowsersClosed
<1> QED BY <1>1, BatchInvariance, PTL
=============================================================================
