---------------------------- MODULE DaemonProofs ----------------------------
(***************************************************************************)
(* The daemons and the dashboard are a client of the store: every behaviour*)
(* of Daemon, with or without stalls, for any tasks, daemons and bounds, is*)
(* a behaviour of StoreSpec.  What the proofs of TaskStore say of every    *)
(* client then holds of this one.                                          *)
(*                                                                         *)
(* The step that needs an invariant is the daemon's terminal write.  The   *)
(* store fences it with the attempt, the worker and the generation of a    *)
(* claim, but queue.ts looks the attempt up from the row just before, so   *)
(* that it checks nothing: LeaseHolds compares worker and generation only. *)
(* They imply the attempt because a row that still carries a daemon's      *)
(* worker id and generation is on the attempt it was claimed with          *)
(* (LeaseNamesAttempt below): only a claim and markTaskRunning give a row  *)
(* an owner, and both set the attempt with it.                             *)
(*                                                                         *)
(* The second part is about daemons that do not stall: what else their     *)
(* hands, the store and the tracker then agree about (PromptInv).          *)
(*                                                                         *)
(* The third part is about Dependencies, the same daemons with a parent    *)
(* that waits for its children.  It uses nothing of the store's invariant, *)
(* which the scheduler and the blocked parent break, but an invariant of   *)
(* its own about one child at a time (ChildFits).                          *)
(***************************************************************************)
EXTENDS Dependencies, TaskStoreProofs

\* A row that carries the worker and the generation of a claim is on its attempt.
LeaseNamesAttempt(c) ==
  task[c.task].gen = c.gen /\ task[c.task].owner = c.worker => task[c.task].cur = c.att

\* What a daemon holds was issued to it, and names the attempt its lease protects.
HandOK(w) ==
  /\ hand[w] \in Hand
  /\ hand[w].claim # NoClaim =>
       /\ hand[w].claim \in issued
       /\ hand[w].claim.worker = w
       /\ LeaseNamesAttempt(hand[w].claim)
  /\ hand[w].phase \in {"claimed"} \cup InFlight => hand[w].claim # NoClaim
  /\ hand[w].phase \in {"returned", "terminalizing"} => hand[w].verdict # "none"

ShownOK == shown \in [Tasks -> [AttemptNo -> Verdict \cup {"none"}]]

CommandOK == command \in [Tasks -> [worker : Workers, att : AttemptNo] \cup {NoCommand}]

RequestOK ==
  request # NoRequest =>
    request \in Request /\ (request.op = "cancel-running" => request.worker \in Workers)

DaemonInv ==
  /\ StoreInv
  /\ hand \in [Workers -> Hand]
  /\ \A w \in Workers : HandOK(w)
  /\ ShownOK
  /\ CommandOK
  /\ RequestOK

LEMMA DaemonInvInit == DaemonInit => DaemonInv
<1> SUFFICES ASSUME DaemonInit PROVE DaemonInv
  OBVIOUS
<1>1. StoreInv
  BY StoreInvInit DEF DaemonInit
<1>2. Empty("off") \in Hand /\ Empty("off").claim = NoClaim /\ Empty("off").phase = "off"
  BY DEF Empty, Hand, Phase
<1>3. hand = [w \in Workers |-> Empty("off")]
  BY DEF DaemonInit
<1>4. hand \in [Workers -> Hand] /\ \A w \in Workers : HandOK(w)
  BY <1>2, <1>3 DEF HandOK, InFlight
<1>5. ShownOK /\ CommandOK /\ RequestOK
  BY DEF DaemonInit, ShownOK, CommandOK, RequestOK
<1> QED
  BY <1>1, <1>4, <1>5 DEF DaemonInv

-----------------------------------------------------------------------------
(* What the daemons and the dashboard do to the store.                     *)

\* The store operations that give no row an owner.
DisownStep ==
  \/ \E t \in Tasks :
       \/ Enqueue(t) \/ LeaseExpires(t) \/ RequestCancelIdle(t) \/ RequestCancelRunning(t)
       \/ Retry(t) \/ OpenCancelCommand(t) \/ CloseCancelCommand(t)
  \/ \E w \in Workers, t \in Tasks : RenewClaim(w, t)
  \/ \E c \in issued : MarkBlockedUncertain(c) \/ \E s \in Verdict : MarkTerminal(c, s)
  \/ \E t \in Tasks, n \in AttemptNo :
       \E s \in {"failed", "cancelled"} : MarkTerminalUnfenced(t, n, s)
  \/ \E alive \in SUBSET Workers, seen \in [Tasks -> Verdict \cup {"none"}] :
       RecoverOrphanedClaims(alive, seen)

\* The store operations daemons and dashboard use.
ClientStep ==
  \/ UNCHANGED storeVars
  \/ DisownStep
  \/ \E w \in Workers, t \in Tasks : Take(w, t)
  \/ \E w \in Workers : Start(w) /\ MarkRunning(hand[w].claim)

\* A daemon holds a claim of a task while it works.
LEMMA HeldClaim ==
  ASSUME DaemonInv, NEW w \in Workers, hand[w].phase \in {"claimed"} \cup InFlight
  PROVE  /\ hand[w].claim \in issued /\ hand[w].claim \in Claim
         /\ hand[w].claim.task \in Tasks /\ hand[w].claim.att \in AttemptNo
         /\ hand[w].claim.worker = w /\ LeaseNamesAttempt(hand[w].claim)
BY DEF DaemonInv, HandOK, StoreInv, StoreTypeOK, Claim

\* The terminal write of a daemon is the fully fenced one.
LEMMA MarkItemIsFenced ==
  ASSUME DaemonInv, NEW w \in Workers, hand[w].phase \in InFlight, NEW s,
         MarkItem(hand[w].claim, s)
  PROVE  MarkTerminal(hand[w].claim, s)
<1> DEFINE c == hand[w].claim
<1>1. c.worker = w /\ LeaseNamesAttempt(c)
  BY HeldClaim
<1> HIDE DEF c
<1>2. MarkItem(c, s)
  BY DEF c
<1>3. MarkTerminal(c, s)
  BY <1>1, <1>2 DEF MarkItem, LeaseHolds, LeaseNamesAttempt, MarkTerminal, FenceHolds
<1> QED BY <1>3 DEF c

\* The claim loop of a daemon.
LEMMA ClaimLoopClient ==
  ASSUME DaemonInv, NEW w \in Workers, ClaimLoop(w)
  PROVE  ClientStep
<1>1. ASSUME NEW t \in Tasks, Take(w, t) PROVE ClientStep
  BY <1>1 DEF ClientStep
<1>2. ASSUME Start(w) PROVE ClientStep
  BY <1>2 DEF Start, ClientStep
<1>3. ASSUME Finish(w, "done") \/ Finish(w, "failed") \/ Unwind(w) \/ Decide(w) \/ Settle(w)
      PROVE  ClientStep
  BY <1>3 DEF Finish, Unwind, Decide, Settle, ClientStep
<1>4. ASSUME Terminalize(w) PROVE ClientStep
  <2>1. hand[w].phase = "terminalizing" /\ hand[w].phase \in InFlight
    BY <1>4 DEF Terminalize, InFlight
  <2>2. hand[w].claim \in issued /\ hand[w].verdict \in Verdict
    BY <2>1, HeldClaim DEF DaemonInv, HandOK, Hand
  <2>3. MarkItem(hand[w].claim, hand[w].verdict) \/ UNCHANGED storeVars
    BY <1>4 DEF Terminalize
  <2> QED
    BY <2>1, <2>2, <2>3, MarkItemIsFenced DEF ClientStep, DisownStep
<1>5. ASSUME TerminalizeUncertain(w) PROVE ClientStep
  <2>1. hand[w].claim \in issued
    BY <1>5, HeldClaim DEF TerminalizeUncertain, InFlight
  <2> QED
    BY <1>5, <2>1 DEF TerminalizeUncertain, ClientStep, DisownStep
<1> QED
  BY <1>1, <1>2, <1>3, <1>4, <1>5 DEF ClaimLoop

\* What the tracker says of each run is a verdict or nothing.
LEMMA TerminalRowType ==
  ASSUME DaemonInv PROVE TerminalRow \in [Tasks -> Verdict \cup {"none"}]
<1>1. ASSUME NEW t \in Tasks PROVE task[t].cur = 0 \/ task[t].cur \in AttemptNo
  BY StoreAssumption DEF DaemonInv, StoreInv, StoreTypeOK, TaskRow, AttemptNo
<1> QED
  BY <1>1 DEF DaemonInv, ShownOK, TerminalRow

\* The timers of a daemon, its start and its death.
LEMMA BackgroundClient ==
  ASSUME DaemonInv, NEW w \in Workers, Spawn(w) \/ Crash(w) \/ Background(w)
  PROVE  ClientStep
<1>1. ASSUME Spawn(w) \/ Crash(w) PROVE ClientStep
  BY <1>1 DEF Spawn, Crash, ClientStep
<1>2. ASSUME NEW alive \in Believed(w), Recover(w, alive) PROVE ClientStep
  <2>1. alive \in SUBSET Workers
    BY DEF Believed, Up
  <2> QED
    BY <1>2, <2>1, TerminalRowType DEF Recover, ClientStep, DisownStep
<1>3. ASSUME Heartbeat(w) PROVE ClientStep
  <2>1. hand[w].claim.task \in Tasks
    BY <1>3, HeldClaim DEF Heartbeat
  <2> QED
    BY <1>3, <2>1 DEF Heartbeat, ClientStep, DisownStep
<1>4. ASSUME NEW t \in Tasks, ConsumeCancel(w, t) PROVE ClientStep
  BY <1>4 DEF ConsumeCancel, ClientStep, DisownStep
<1> QED
  BY <1>1, <1>2, <1>3, <1>4 DEF Background

\* The dashboard's requests and the clock.
LEMMA DashboardClient ==
  ASSUME DaemonInv,
         \/ \E t \in Tasks : \/ NewTask(t) \/ RetryTask(t) \/ AskCancelQueued(t)
                             \/ AskCancelRunning(t) \/ AskSweep(t) \/ LeaseRunsOut(t)
         \/ Serve
  PROVE  ClientStep
<1>1. ASSUME NEW t \in Tasks,
             \/ NewTask(t) \/ RetryTask(t) \/ AskCancelQueued(t)
             \/ AskCancelRunning(t) \/ AskSweep(t) \/ LeaseRunsOut(t)
      PROVE  ClientStep
  BY <1>1 DEF NewTask, RetryTask, AskCancelQueued, AskCancelRunning, AskSweep, Read,
     LeaseRunsOut, ClientStep, DisownStep
<1>2. ASSUME Serve PROVE ClientStep
  <2>1. request # NoRequest
    BY <1>2 DEF Serve, CancelQueued, CancelRunning, SendCancel, ProbeDaemons, SweepFail,
       EmitRequestRow, CloseRequest, Serving
  <2>2. request.task \in Tasks /\ request.att \in AttemptNo
    BY <2>1 DEF DaemonInv, RequestOK, Request
  <2>3. ASSUME CancelQueued PROVE ClientStep
    BY <2>2, <2>3 DEF CancelQueued, ClientStep, DisownStep
  <2>4. ASSUME CancelRunning PROVE ClientStep
    BY <2>2, <2>4 DEF CancelRunning, ClientStep, DisownStep
  <2>5. ASSUME SendCancel PROVE ClientStep
    BY <2>2, <2>5 DEF SendCancel, ClientStep, DisownStep
  <2>6. ASSUME SweepFail PROVE ClientStep
    <3>1. MarkTerminalUnfenced(request.task, task[request.task].cur, "failed")
          \/ UNCHANGED storeVars
      BY <2>6 DEF SweepFail
    <3>2. ASSUME MarkTerminalUnfenced(request.task, task[request.task].cur, "failed")
          PROVE  ClientStep
      <4>1. task[request.task].cur \in AttemptNo
        BY <2>2, <3>2, CurrentAttempt DEF MarkTerminalUnfenced, DaemonInv
      <4> QED BY <2>2, <3>2, <4>1 DEF ClientStep, DisownStep
    <3> QED BY <3>1, <3>2 DEF ClientStep
  <2>7. ASSUME ProbeDaemons(Up) \/ EmitRequestRow PROVE ClientStep
    BY <2>7 DEF ProbeDaemons, EmitRequestRow, ClientStep
  <2> QED BY <1>2, <2>3, <2>4, <2>5, <2>6, <2>7 DEF Serve
<1> QED BY <1>1, <1>2

\* Every step of the daemons and the dashboard uses the store so.
LEMMA EveryStepIsClient ==
  ASSUME DaemonInv, [DaemonNext]_vars
  PROVE  ClientStep
<1>1. CASE UNCHANGED vars
  BY <1>1 DEF vars, ClientStep
<1>2. CASE DaemonNext
  BY <1>2, ClaimLoopClient, BackgroundClient, DashboardClient DEF DaemonNext
<1> QED BY <1>1, <1>2

\* A daemon's use of the store is one the store's specification allows.
LEMMA ClientIsStoreStep ==
  ASSUME DaemonInv, ClientStep
  PROVE  [StoreNext]_storeVars
<1>1. ASSUME DisownStep PROVE StoreNext
  BY <1>1 DEF DisownStep, StoreNext
<1>2. ASSUME NEW w \in Workers, NEW t \in Tasks, Take(w, t) PROVE StoreNext
  BY <1>2 DEF Take, StoreNext
<1>3. ASSUME NEW w \in Workers, Start(w), MarkRunning(hand[w].claim) PROVE StoreNext
  <2>1. hand[w].claim \in issued
    BY <1>3, HeldClaim DEF Start
  <2> QED BY <1>3, <2>1 DEF StoreNext
<1> QED BY <1>1, <1>2, <1>3 DEF ClientStep

-----------------------------------------------------------------------------
(* The store's part of the step, as the daemons' hands see it.             *)

\* No row was given an owner, or moved between attempts or generations under one.
RowLeaseKept(t) ==
  \/ task'[t].owner = NoWorker
  \/ /\ task'[t].owner = task[t].owner
     /\ task'[t].gen = task[t].gen
     /\ task'[t].cur = task[t].cur

\* A step that writes one row keeps the leases of all rows if it keeps that one's.
LEMMA OneRowLeaseKept ==
  ASSUME StoreTypeOK, NEW t \in Tasks, NEW row, Write(t, row),
         \/ row.owner = NoWorker
         \/ row.owner = task[t].owner /\ row.gen = task[t].gen /\ row.cur = task[t].cur
  PROVE  \A u \in Tasks : RowLeaseKept(u)
BY OtherRows DEF RowLeaseKept

\* The store operations that give no row an owner keep every lease.
LEMMA DisownKeepsLeases ==
  ASSUME StoreInv, DisownStep
  PROVE  (\A u \in Tasks : RowLeaseKept(u)) /\ issued' = issued
<1>0. StoreTypeOK
  BY DEF StoreInv
<1>1. ASSUME NEW t \in Tasks, Enqueue(t)
      PROVE (\A u \in Tasks : RowLeaseKept(u)) /\ issued' = issued
  <2> DEFINE row == [AbsentRow EXCEPT !.state = "queued", !.cur = 1, !.run = 1]
  <2>1. Write(t, row) /\ issued' = issued
    BY <1>1 DEF Enqueue
  <2>2. row.owner = NoWorker
    BY DEF AbsentRow
  <2> QED BY <1>0, <2>1, <2>2, OneRowLeaseKept
<1>2. ASSUME NEW t \in Tasks,
             \/ LeaseExpires(t) \/ RequestCancelRunning(t)
             \/ \E w \in Workers : RenewClaim(w, t)
      PROVE (\A u \in Tasks : RowLeaseKept(u)) /\ issued' = issued
  <2>1. task[t] \in TaskRow
    BY RowFacts
  <2>2. PICK row \in { [task[t] EXCEPT !.lease = "expired"], [task[t] EXCEPT !.lease = "live"],
                       [task[t] EXCEPT !.state = "cancel_requested", !.cancelReq = TRUE] } :
            Write(t, row) /\ issued' = issued
    BY <1>2 DEF LeaseExpires, RequestCancelRunning, RenewClaim
  <2>3. row.owner = task[t].owner /\ row.gen = task[t].gen /\ row.cur = task[t].cur
    BY <2>1 DEF TaskRow
  <2> QED BY <1>0, <2>2, <2>3, OneRowLeaseKept
<1>3. ASSUME NEW t \in Tasks, NEW s \in TaskState, Write(t, Closed(task[t], s)), issued' = issued
      PROVE (\A u \in Tasks : RowLeaseKept(u)) /\ issued' = issued
  <2>1. Closed(task[t], s).owner = NoWorker
    BY RowFacts, ClosedRow
  <2> QED BY <1>0, <1>3, <2>1, OneRowLeaseKept
<1>4. ASSUME NEW t \in Tasks, RequestCancelIdle(t)
      PROVE (\A u \in Tasks : RowLeaseKept(u)) /\ issued' = issued
  BY <1>3, <1>4 DEF RequestCancelIdle, MarkTerminalUnfenced, TaskState
<1>5. ASSUME NEW t \in Tasks, Retry(t)
      PROVE (\A u \in Tasks : RowLeaseKept(u)) /\ issued' = issued
  <2> DEFINE q == Reopened(task[t])
             row == [q EXCEPT !.gen = @ + 1, !.cur = task[t].run + 1, !.run = @ + 1]
  <2>1. q \in TaskRow /\ q.owner = NoWorker
    BY RowFacts, ReopenedRow
  <2>2. Write(t, row) /\ issued' = issued
    BY <1>5 DEF Retry
  <2> HIDE DEF q
  <2>3. row.owner = NoWorker
    BY <2>1 DEF TaskRow
  <2> QED BY <1>0, <2>2, <2>3, OneRowLeaseKept
<1>6. ASSUME NEW t \in Tasks, OpenCancelCommand(t) \/ CloseCancelCommand(t)
      PROVE (\A u \in Tasks : RowLeaseKept(u)) /\ issued' = issued
  BY <1>6 DEF OpenCancelCommand, CloseCancelCommand, RowLeaseKept
<1>7. ASSUME NEW c \in issued,
             MarkBlockedUncertain(c) \/ \E s \in Verdict : MarkTerminal(c, s)
      PROVE (\A u \in Tasks : RowLeaseKept(u)) /\ issued' = issued
  <2>1. c.task \in Tasks
    BY <1>0 DEF StoreTypeOK, Claim
  <2> QED
    BY <1>3, <1>7, <2>1 DEF MarkBlockedUncertain, MarkTerminal, Verdict, TaskState
<1>8. ASSUME NEW t \in Tasks, NEW n \in AttemptNo, NEW s \in {"failed", "cancelled"},
             MarkTerminalUnfenced(t, n, s)
      PROVE (\A u \in Tasks : RowLeaseKept(u)) /\ issued' = issued
  BY <1>3, <1>8 DEF MarkTerminalUnfenced, TaskState
<1>9. ASSUME NEW alive \in SUBSET Workers, NEW seen \in [Tasks -> Verdict \cup {"none"}],
             RecoverOrphanedClaims(alive, seen)
      PROVE (\A u \in Tasks : RowLeaseKept(u)) /\ issued' = issued
  <2>1. ASSUME NEW u \in Tasks PROVE RowLeaseKept(u)
    <3>1. task[u] \in TaskRow
      BY RowFacts
    <3>2. CASE ~Orphaned(u, alive)
      BY <1>9, <3>2 DEF RecoverOrphanedClaims, RowLeaseKept
    <3>3. CASE Orphaned(u, alive) /\ seen[u] = "none"
      <4>1. task'[u] = Requeued(task[u])
        BY <1>9, <3>3 DEF RecoverOrphanedClaims
      <4> QED BY <3>1, <4>1, RequeuedRow DEF RowLeaseKept
    <3>4. CASE Orphaned(u, alive) /\ seen[u] # "none"
      <4>1. task'[u] = Closed(task[u], seen[u])
        BY <1>9, <3>4 DEF RecoverOrphanedClaims
      <4>2. seen[u] \in TaskState
        BY <3>4 DEF Verdict, TaskState
      <4>3. Closed(task[u], seen[u]).owner = NoWorker
        BY <3>1, <4>2, ClosedRow
      <4> QED BY <4>1, <4>3 DEF RowLeaseKept
    <3> QED BY <3>2, <3>3, <3>4
  <2> QED BY <1>9, <2>1 DEF RecoverOrphanedClaims
<1> QED
  BY <1>1, <1>2, <1>4, <1>5, <1>6, <1>7, <1>8, <1>9 DEF DisownStep

-----------------------------------------------------------------------------
(* The hands.                                                              *)

\* While leases are kept, a daemon that holds what it held still holds it rightly.
LEMMA HandStays ==
  ASSUME DaemonInv, NEW w \in Workers, hand'[w] = hand[w], issued' = issued,
         \A t \in Tasks : RowLeaseKept(t)
  PROVE  HandOK(w)'
<1>1. HandOK(w)
  BY DEF DaemonInv
<1>2. ASSUME hand[w].claim # NoClaim PROVE LeaseNamesAttempt(hand[w].claim)'
  <2>1. /\ hand[w].claim \in Claim /\ LeaseNamesAttempt(hand[w].claim)
        /\ hand[w].claim.task \in Tasks /\ hand[w].claim.worker \in Workers
    BY <1>1, <1>2 DEF HandOK, DaemonInv, StoreInv, StoreTypeOK, Claim
  <2>2. RowLeaseKept(hand[w].claim.task)
    BY <2>1
  <2> QED
    BY <2>1, <2>2, StoreAssumption DEF LeaseNamesAttempt, RowLeaseKept
<1> QED BY <1>1, <1>2 DEF HandOK

\* A daemon's own step that leaves the leases alone: it keeps its claim or drops it.
LEMMA HandMoves ==
  ASSUME DaemonInv, NEW w \in Workers, NEW h \in Hand, Put(w, h), issued' = issued,
         \A t \in Tasks : RowLeaseKept(t),
         h.claim = NoClaim \/ h.claim = hand[w].claim,
         h.phase \in {"claimed"} \cup InFlight => h.claim # NoClaim,
         h.phase \in {"returned", "terminalizing"} => h.verdict # "none"
  PROVE  hand' \in [Workers -> Hand] /\ \A u \in Workers : HandOK(u)'
<1>0. hand \in [Workers -> Hand]
  BY DEF DaemonInv
<1>1. hand' \in [Workers -> Hand] /\ hand'[w] = h
  BY <1>0 DEF Put
<1>2. ASSUME NEW u \in Workers, u # w PROVE HandOK(u)'
  <2>1. hand'[u] = hand[u]
    BY <1>0, <1>2 DEF Put
  <2> QED BY <2>1, HandStays
<1>3. HandOK(w)'
  <2>1. ASSUME h.claim # NoClaim
        PROVE  h.claim \in issued /\ h.claim.worker = w /\ LeaseNamesAttempt(h.claim)'
    <3>1. /\ h.claim = hand[w].claim /\ h.claim \in issued /\ h.claim.worker = w
          /\ LeaseNamesAttempt(h.claim)
      BY <2>1 DEF DaemonInv, HandOK
    <3>2. h.claim.task \in Tasks /\ h.claim.worker \in Workers
      BY <3>1 DEF DaemonInv, StoreInv, StoreTypeOK, Claim
    <3> QED
      BY <3>1, <3>2, StoreAssumption DEF LeaseNamesAttempt, RowLeaseKept
  <2> QED BY <1>1, <2>1 DEF HandOK
<1> QED BY <1>1, <1>2, <1>3

\* A step of the daemon w that keeps its claim or drops it.
HandMove(w, h) ==
  /\ h \in Hand
  /\ Put(w, h)
  /\ h.claim = NoClaim \/ h.claim = hand[w].claim
  /\ h.phase \in {"claimed"} \cup InFlight => h.claim # NoClaim
  /\ h.phase \in {"returned", "terminalizing"} => h.verdict # "none"

\* An empty hand.
LEMMA EmptyHand ==
  ASSUME NEW p \in Phase
  PROVE  Empty(p) \in Hand /\ Empty(p).claim = NoClaim /\ Empty(p).phase = p
BY DEF Empty, Hand

\* Entering a phase is a move, where the phase needs nothing new.
LEMMA EnterMoves ==
  ASSUME DaemonInv, NEW w \in Workers, NEW p \in Phase, Enter(w, p),
         \/ p \in {"starting", "idle", "exited"}
         \/ p \in {"processing", "settling"} /\ hand[w].phase \in {"claimed"} \cup InFlight
  PROVE  \E h \in Hand : HandMove(w, h)
<1> DEFINE h == [hand[w] EXCEPT !.phase = p]
<1>0. hand \in [Workers -> Hand] /\ hand[w] \in Hand /\ HandOK(w)
  BY DEF DaemonInv, HandOK
<1>1. h \in Hand /\ h.claim = hand[w].claim /\ h.phase = p
  BY <1>0 DEF Hand
<1>2. Put(w, h)
  BY <1>0 DEF Enter, Put
<1> HIDE DEF h
<1>3. HandMove(w, h)
  BY <1>0, <1>1, <1>2 DEF HandMove, HandOK, InFlight
<1> QED BY <1>1, <1>3

\* Dropping the item is a move.
LEMMA DropMoves ==
  ASSUME NEW w \in Workers, NEW p \in {"idle", "exited"}, Put(w, Empty(p))
  PROVE  \E h \in Hand : HandMove(w, h)
<1>1. Empty(p) \in Hand /\ Empty(p).claim = NoClaim /\ Empty(p).phase = p
  BY EmptyHand DEF Phase
<1> QED BY <1>1 DEF HandMove, InFlight

\* The claim loop moves its daemon's hand so, but for a claim.
LEMMA ClaimLoopHand ==
  ASSUME DaemonInv, NEW w \in Workers, ClaimLoop(w)
  PROVE  (\E h \in Hand : HandMove(w, h)) \/ \E t \in Tasks : Take(w, t)
<1>0. hand[w] \in Hand /\ HandOK(w)
  BY DEF DaemonInv, HandOK
<1>1. ASSUME Start(w) PROVE \E h \in Hand : HandMove(w, h)
  <2>1. hand[w].phase = "claimed" /\ (Enter(w, "processing") \/ Put(w, Empty("exited")))
    BY <1>1 DEF Start
  <2> QED BY <2>1, EnterMoves, DropMoves DEF Phase
<1>2. ASSUME NEW v \in {"done", "failed"}, Finish(w, v) PROVE \E h \in Hand : HandMove(w, h)
  <2> DEFINE g == [hand[w] EXCEPT !.phase = "returned", !.verdict = v, !.token = TRUE]
  <2>1. g \in Hand /\ g.claim = hand[w].claim /\ g.phase = "returned" /\ g.verdict = v
    BY <1>0 DEF Hand, Phase, Verdict
  <2>2. Put(w, g) /\ hand[w].phase = "processing"
    BY <1>2 DEF Finish
  <2> HIDE DEF g
  <2>3. HandMove(w, g)
    BY <1>0, <2>1, <2>2 DEF HandMove, HandOK, InFlight
  <2> QED BY <2>1, <2>3
<1>3. ASSUME Unwind(w) PROVE \E h \in Hand : HandMove(w, h)
  <2> DEFINE k == hand[w].abort = "lease"
             g == [hand[w] EXCEPT !.phase = "returned", !.verdict = "cancelled", !.token = k]
  <2>0. k \in BOOLEAN
    OBVIOUS
  <2>2. Put(w, g) /\ hand[w].phase = "processing"
    BY <1>3 DEF Unwind
  <2> HIDE DEF k
  <2>1. g \in Hand /\ g.claim = hand[w].claim /\ g.phase = "returned" /\ g.verdict = "cancelled"
    BY <1>0, <2>0 DEF Hand, Phase, Verdict
  <2> HIDE DEF g
  <2>3. HandMove(w, g)
    BY <1>0, <2>1, <2>2 DEF HandMove, HandOK, InFlight
  <2> QED BY <2>1, <2>3
<1>4. ASSUME Decide(w) PROVE \E h \in Hand : HandMove(w, h)
  <2>0. hand[w].phase = "returned" /\ hand[w].verdict \in Verdict
    BY <1>0, <1>4 DEF Decide, HandOK, Hand
  <2>1. PICK v \in Verdict :
          Put(w, [hand[w] EXCEPT !.phase = "terminalizing", !.verdict = v])
    BY <1>4, <2>0 DEF Decide, Verdict
  <2> DEFINE g == [hand[w] EXCEPT !.phase = "terminalizing", !.verdict = v]
  <2>2. g \in Hand /\ g.claim = hand[w].claim /\ g.phase = "terminalizing" /\ g.verdict = v
    BY <1>0 DEF Hand, Phase
  <2>3. Put(w, g)
    BY <2>1
  <2> HIDE DEF g
  <2>4. HandMove(w, g)
    BY <1>0, <2>0, <2>2, <2>3 DEF HandMove, HandOK, InFlight, Verdict
  <2> QED BY <2>2, <2>4
<1>5. ASSUME Terminalize(w) PROVE \E h \in Hand : HandMove(w, h)
  <2>1. /\ hand[w].phase = "terminalizing"
        /\ Enter(w, "settling") \/ Put(w, Empty("idle")) \/ Put(w, Empty("exited"))
    BY <1>5 DEF Terminalize, Conclude
  <2> QED BY <2>1, EnterMoves, DropMoves DEF Phase, InFlight
<1>6. ASSUME TerminalizeUncertain(w) PROVE \E h \in Hand : HandMove(w, h)
  <2> DEFINE g == [hand[w] EXCEPT !.phase = "settling", !.verdict = "none"]
  <2>1. g \in Hand /\ g.claim = hand[w].claim /\ g.phase = "settling"
    BY <1>0 DEF Hand, Phase
  <2>2. Put(w, g) /\ hand[w].phase = "terminalizing"
    BY <1>6 DEF TerminalizeUncertain
  <2> HIDE DEF g
  <2>3. HandMove(w, g)
    BY <1>0, <2>1, <2>2 DEF HandMove, HandOK, InFlight
  <2> QED BY <2>1, <2>3
<1>7. ASSUME Settle(w) PROVE \E h \in Hand : HandMove(w, h)
  <2>1. Put(w, Empty("idle")) \/ Put(w, Empty("exited"))
    BY <1>7 DEF Settle, CloseItem, Conclude
  <2> QED BY <2>1, DropMoves
<1> QED
  BY <1>1, <1>2, <1>3, <1>4, <1>5, <1>6, <1>7 DEF ClaimLoop

\* So do a daemon's timers, its start and its death, or they leave the hand alone.
LEMMA BackgroundHand ==
  ASSUME DaemonInv, NEW w \in Workers, Spawn(w) \/ Crash(w) \/ Background(w)
  PROVE  hand' = hand \/ \E h \in Hand : HandMove(w, h)
<1>0. hand \in [Workers -> Hand] /\ hand[w] \in Hand /\ HandOK(w)
  BY DEF DaemonInv, HandOK
<1>1. ASSUME Spawn(w) PROVE \E h \in Hand : HandMove(w, h)
  BY <1>1, EnterMoves DEF Spawn, Phase
<1>2. ASSUME Crash(w) PROVE \E h \in Hand : HandMove(w, h)
  BY <1>2, DropMoves DEF Crash
<1>3. ASSUME NEW alive, Recover(w, alive) PROVE \E h \in Hand : HandMove(w, h)
  BY <1>3, EnterMoves DEF Recover, Phase
<1>4. ASSUME NEW a \in {"lease", "cancel"}, hand' = [hand EXCEPT ![w].abort = a]
      PROVE  \E h \in Hand : HandMove(w, h)
  <2> DEFINE g == [hand[w] EXCEPT !.abort = a]
  <2>1. g \in Hand /\ g.claim = hand[w].claim /\ g.phase = hand[w].phase
        /\ g.verdict = hand[w].verdict
    BY <1>0 DEF Hand
  <2>2. Put(w, g)
    BY <1>0, <1>4 DEF Put
  <2> HIDE DEF g
  <2>3. HandMove(w, g)
    BY <1>0, <2>1, <2>2 DEF HandMove, HandOK
  <2> QED BY <2>1, <2>3
<1>5. ASSUME Heartbeat(w) PROVE hand' = hand \/ \E h \in Hand : HandMove(w, h)
  <2>1. hand' = hand \/ hand' = [hand EXCEPT ![w].abort = "lease"]
    BY <1>5 DEF Heartbeat
  <2> QED BY <1>4, <2>1
<1>6. ASSUME NEW t \in Tasks, ConsumeCancel(w, t)
      PROVE  hand' = hand \/ \E h \in Hand : HandMove(w, h)
  <2>1. hand' = hand \/ hand' = [hand EXCEPT ![w].abort = "cancel"]
    BY <1>6 DEF ConsumeCancel
  <2> QED BY <1>4, <2>1
<1> QED
  BY <1>1, <1>2, <1>3, <1>5, <1>6 DEF Background

\* The same of the next state, for a claim that is known now.
NamesAttemptNext(c) ==
  task'[c.task].gen = c.gen /\ task'[c.task].owner = c.worker => task'[c.task].cur = c.att

\* A claim: the new owner has a generation nobody else's claim carries as owner.
LEMMA TakeHands ==
  ASSUME DaemonInv, NEW w \in Workers, NEW t \in Tasks, Take(w, t)
  PROVE  hand' \in [Workers -> Hand] /\ \A u \in Workers : HandOK(u)'
<1> DEFINE c == [task |-> t, att |-> task[t].cur, worker |-> w, gen |-> task[t].gen + 1]
           h == [Empty("claimed") EXCEPT !.claim = c]
           row == [task[t] EXCEPT !.state = "claimed", !.owner = w, !.lease = "live",
                                  !.gen = @ + 1]
<1>0. /\ hand \in [Workers -> Hand] /\ StoreInv /\ StoreTypeOK /\ task[t] \in TaskRow
      /\ task[t].cur \in AttemptNo
  BY CurrentAttempt, RowFacts DEF DaemonInv, StoreInv, Take, ClaimNext
<1>1. /\ c \in Claim /\ c.task = t /\ c.worker = w /\ c.att = task[t].cur
      /\ c.gen = task[t].gen + 1
  BY <1>0 DEF Claim, TaskRow
<1>2. Put(w, h) /\ issued' = issued \cup {c} /\ Write(t, row)
  BY DEF Take, ClaimNext
<1>3. row.owner = w /\ row.gen = task[t].gen + 1 /\ row.cur = task[t].cur
  BY <1>0 DEF TaskRow
<1> HIDE DEF c, row
<1>4. h \in Hand /\ h.claim = c /\ h.phase = "claimed" /\ c # NoClaim
  BY <1>1, DaemonAssumption DEF Empty, Hand, Phase
<1> HIDE DEF h
<1>5. hand' \in [Workers -> Hand] /\ hand'[w] = h
  BY <1>0, <1>2, <1>4 DEF Put
<1>6. HandOK(w)'
  <2>1. task'[t] = row
    BY <1>0, <1>2 DEF Write, StoreTypeOK
  <2>2. NamesAttemptNext(c)
    BY <1>1, <1>3, <2>1 DEF LeaseNamesAttempt, NamesAttemptNext
  <2> QED BY <1>1, <1>2, <1>4, <1>5, <2>2 DEF HandOK, LeaseNamesAttempt, NamesAttemptNext
<1>7. ASSUME NEW u \in Workers, u # w PROVE HandOK(u)'
  <2>0. hand'[u] = hand[u] /\ HandOK(u) /\ issued \subseteq issued'
    BY <1>0, <1>2, <1>7 DEF Put, DaemonInv
  <2>1. ASSUME hand[u].claim # NoClaim PROVE NamesAttemptNext(hand[u].claim)
    <3>1. /\ LeaseNamesAttempt(hand[u].claim) /\ hand[u].claim.task \in Tasks
          /\ hand[u].claim.worker = u
      BY <1>0, <2>0, <2>1 DEF HandOK, StoreTypeOK, Claim
    <3>2. CASE hand[u].claim.task = t
      <4>1. task'[t].owner = w
        BY <1>0, <1>2, <1>3 DEF Write, StoreTypeOK
      <4> QED BY <1>7, <3>1, <3>2, <4>1 DEF LeaseNamesAttempt, NamesAttemptNext
    <3>3. CASE hand[u].claim.task # t
      <4>1. task'[hand[u].claim.task] = task[hand[u].claim.task]
        BY <1>0, <1>2, <3>1, <3>3, OtherRows
      <4> QED BY <3>1, <4>1 DEF LeaseNamesAttempt, NamesAttemptNext
    <3> QED BY <3>2, <3>3
  <2> QED BY <2>0, <2>1 DEF HandOK, LeaseNamesAttempt, NamesAttemptNext
<1> QED BY <1>5, <1>6, <1>7

\* markTaskRunning sets worker and attempt together, from one claim.
LEMMA StartHands ==
  ASSUME DaemonInv, NEW w \in Workers, Start(w), MarkRunning(hand[w].claim)
  PROVE  hand' \in [Workers -> Hand] /\ \A u \in Workers : HandOK(u)'
<1> DEFINE c == hand[w].claim
           row == [task[c.task] EXCEPT !.state = "running", !.owner = c.worker, !.cur = c.att]
<1>0. /\ hand \in [Workers -> Hand] /\ hand[w] \in Hand /\ HandOK(w) /\ StoreTypeOK
      /\ hand[w].phase = "claimed"
  BY DEF DaemonInv, HandOK, StoreInv, Start
<1>1. c \in issued /\ c.task \in Tasks /\ c.worker = w /\ c # NoClaim
  BY <1>0, HeldClaim DEF HandOK
<1>2. Write(c.task, row) /\ issued' = issued
  BY DEF MarkRunning
<1>3. task[c.task] \in TaskRow
  BY <1>0, <1>1 DEF StoreTypeOK
<1> HIDE DEF c
<1>4. row.owner = w /\ row.cur = c.att
  BY <1>1, <1>3 DEF TaskRow
<1> HIDE DEF row
<1>5. PICK h \in Hand : HandMove(w, h)
  <2>1. Enter(w, "processing") \/ Put(w, Empty("exited"))
    BY DEF Start
  <2> QED BY <1>0, <2>1, EnterMoves, DropMoves DEF Phase
<1>6. hand' \in [Workers -> Hand] /\ hand'[w] = h
  BY <1>0, <1>5 DEF HandMove, Put
<1>7. HandOK(w)'
  <2>1. task'[c.task] = row
    BY <1>0, <1>1, <1>2 DEF Write, StoreTypeOK
  <2>2. NamesAttemptNext(c)
    BY <1>4, <2>1 DEF LeaseNamesAttempt, NamesAttemptNext
  <2>3. h.claim = NoClaim \/ h.claim = c
    BY <1>5 DEF HandMove, c
  <2> QED BY <1>1, <1>2, <1>5, <1>6, <2>2, <2>3
        DEF HandOK, HandMove, LeaseNamesAttempt, NamesAttemptNext
<1>8. ASSUME NEW u \in Workers, u # w PROVE HandOK(u)'
  <2>0. hand'[u] = hand[u] /\ HandOK(u)
    BY <1>0, <1>5, <1>8 DEF HandMove, Put, DaemonInv
  <2>1. ASSUME hand[u].claim # NoClaim PROVE NamesAttemptNext(hand[u].claim)
    <3>1. /\ LeaseNamesAttempt(hand[u].claim) /\ hand[u].claim.task \in Tasks
          /\ hand[u].claim.worker = u
      BY <1>0, <2>0, <2>1 DEF HandOK, StoreTypeOK, Claim
    <3>2. CASE hand[u].claim.task = c.task
      <4>1. task'[c.task].owner = w
        BY <1>0, <1>1, <1>2, <1>4 DEF Write, StoreTypeOK
      <4> QED BY <1>8, <3>1, <3>2, <4>1 DEF LeaseNamesAttempt, NamesAttemptNext
    <3>3. CASE hand[u].claim.task # c.task
      <4>1. task'[hand[u].claim.task] = task[hand[u].claim.task]
        BY <1>0, <1>1, <1>2, <3>1, <3>3, OtherRows
      <4> QED BY <3>1, <4>1 DEF LeaseNamesAttempt, NamesAttemptNext
    <3> QED BY <3>2, <3>3
  <2> QED BY <1>2, <2>0, <2>1 DEF HandOK, LeaseNamesAttempt, NamesAttemptNext
<1> QED BY <1>6, <1>7, <1>8

\* The dashboard and the clock touch no hand.
LEMMA DashboardHand ==
  ASSUME \/ \E t \in Tasks : \/ NewTask(t) \/ RetryTask(t) \/ AskCancelQueued(t)
                             \/ AskCancelRunning(t) \/ AskSweep(t) \/ LeaseRunsOut(t)
         \/ Serve
  PROVE  hand' = hand
BY DEF NewTask, RetryTask, AskCancelQueued, AskCancelRunning, AskSweep, Read, LeaseRunsOut,
       Serve, CancelQueued, CancelRunning, SendCancel, ProbeDaemons, SweepFail,
       EmitRequestRow, CloseRequest, daemonVars

\* Every step leaves every daemon with a hand that is in order.
LEMMA HandsStep ==
  ASSUME DaemonInv, [DaemonNext]_vars
  PROVE  hand' \in [Workers -> Hand] /\ \A u \in Workers : HandOK(u)'
<1>1. ASSUME NEW w \in Workers, NEW t \in Tasks, Take(w, t)
      PROVE  hand' \in [Workers -> Hand] /\ \A u \in Workers : HandOK(u)'
  BY <1>1, TakeHands
<1>2. ASSUME NEW w \in Workers, Start(w), MarkRunning(hand[w].claim)
      PROVE  hand' \in [Workers -> Hand] /\ \A u \in Workers : HandOK(u)'
  BY <1>2, StartHands
<1>3. ASSUME UNCHANGED storeVars \/ DisownStep
      PROVE  hand' \in [Workers -> Hand] /\ \A u \in Workers : HandOK(u)'
  <2>1. issued' = issued /\ \A t \in Tasks : RowLeaseKept(t)
    BY <1>3, DisownKeepsLeases DEF DaemonInv, storeVars, RowLeaseKept
  <2>2. \/ hand' = hand
        \/ \E w \in Workers : \E h \in Hand : HandMove(w, h)
        \/ \E w \in Workers : \E t \in Tasks : Take(w, t)
    BY ClaimLoopHand, BackgroundHand, DashboardHand DEF DaemonNext, vars, daemonVars
  <2>3. CASE hand' = hand
    BY <2>1, <2>3, HandStays DEF DaemonInv
  <2>4. ASSUME NEW w \in Workers, NEW h \in Hand, HandMove(w, h)
        PROVE  hand' \in [Workers -> Hand] /\ \A u \in Workers : HandOK(u)'
    BY <2>1, <2>4, HandMoves DEF HandMove
  <2> QED BY <1>1, <2>2, <2>3, <2>4
<1> QED
  BY <1>1, <1>2, <1>3, EveryStepIsClient DEF ClientStep

-----------------------------------------------------------------------------
(* The tracker rows, the commands and the request.                         *)

\* A row written for the claim in hand is a row of some run.
LEMMA ShowTyped ==
  ASSUME DaemonInv, NEW t \in Tasks, NEW n \in AttemptNo, NEW v \in Verdict,
         shown' = [shown EXCEPT ![t][n] = v]
  PROVE  ShownOK'
BY DEF DaemonInv, ShownOK

\* Every step leaves the tracker with verdicts only.
LEMMA ShownStep ==
  ASSUME DaemonInv, [DaemonNext]_vars
  PROVE  ShownOK'
<1>1. ASSUME UNCHANGED shown PROVE ShownOK'
  BY <1>1 DEF DaemonInv, ShownOK
<1>2. ASSUME NEW w \in Workers, hand[w].phase \in InFlight, NEW v \in Verdict,
             Show(hand[w].claim, v)
      PROVE  ShownOK'
  BY <1>2, HeldClaim, ShowTyped DEF Show
<1>3. ASSUME NEW w \in Workers, Finish(w, "done") \/ Finish(w, "failed") \/ Unwind(w) \/ Settle(w)
      PROVE  ShownOK'
  <2>1. hand[w].phase \in InFlight
    BY <1>3 DEF Finish, Unwind, Settle, CloseItem, InFlight
  <2>2. UNCHANGED shown \/ \E v \in Verdict : Show(hand[w].claim, v)
    BY <1>3 DEF Finish, Unwind, Settle, CloseItem, Verdict
  <2> QED BY <1>1, <1>2, <2>1, <2>2
<1>4. ASSUME EmitRequestRow PROVE ShownOK'
  <2>1. request # NoRequest
    BY <1>4 DEF EmitRequestRow, CloseRequest, Serving
  <2>2. request.task \in Tasks /\ request.att \in AttemptNo
    BY <2>1 DEF DaemonInv, RequestOK, Request
  <2>3. PICK v \in Verdict : shown' = [shown EXCEPT ![request.task][request.att] = v]
    BY <1>4 DEF EmitRequestRow, CloseRequest, Verdict
  <2> QED BY <2>2, <2>3, ShowTyped
<1>5. ASSUME NEW w \in Workers, ClaimLoop(w) PROVE ShownOK'
  BY <1>1, <1>3, <1>5 DEF ClaimLoop, Take, Start, Decide, Terminalize, TerminalizeUncertain
<1>6. ASSUME NEW w \in Workers, Spawn(w) \/ Crash(w) \/ Background(w) PROVE ShownOK'
  BY <1>1, <1>6 DEF Spawn, Crash, Background, Recover, Heartbeat, ConsumeCancel
<1>7. ASSUME NEW t \in Tasks,
             \/ NewTask(t) \/ RetryTask(t) \/ AskCancelQueued(t)
             \/ AskCancelRunning(t) \/ AskSweep(t) \/ LeaseRunsOut(t)
      PROVE  ShownOK'
  BY <1>1, <1>7 DEF NewTask, RetryTask, AskCancelQueued, AskCancelRunning, AskSweep, Read,
     LeaseRunsOut, daemonVars
<1>8. ASSUME Serve PROVE ShownOK'
  BY <1>1, <1>4, <1>8 DEF Serve, CancelQueued, CancelRunning, SendCancel, ProbeDaemons, SweepFail
<1>9. CASE UNCHANGED vars
  BY <1>1, <1>9 DEF vars, daemonVars
<1> QED
  BY <1>5, <1>6, <1>7, <1>8, <1>9 DEF DaemonNext

\* A cancel_task command names a worker and an attempt.
LEMMA CommandStep ==
  ASSUME DaemonInv, [DaemonNext]_vars
  PROVE  CommandOK'
<1>1. ASSUME UNCHANGED command PROVE CommandOK'
  BY <1>1 DEF DaemonInv, CommandOK
<1>2. ASSUME NEW w \in Workers, ClaimLoop(w) PROVE CommandOK'
  BY <1>1, <1>2 DEF ClaimLoop, Take, Start, Finish, Unwind, Decide, Terminalize,
     TerminalizeUncertain, Settle, CloseItem
<1>3. ASSUME NEW w \in Workers, NEW t \in Tasks, ConsumeCancel(w, t) PROVE CommandOK'
  BY <1>3 DEF ConsumeCancel, DaemonInv, CommandOK
<1>4. ASSUME NEW w \in Workers, Spawn(w) \/ Crash(w) \/ Background(w) PROVE CommandOK'
  BY <1>1, <1>3, <1>4 DEF Spawn, Crash, Background, Recover, Heartbeat
<1>5. ASSUME NEW t \in Tasks,
             \/ NewTask(t) \/ RetryTask(t) \/ AskCancelQueued(t)
             \/ AskCancelRunning(t) \/ AskSweep(t) \/ LeaseRunsOut(t)
      PROVE  CommandOK'
  BY <1>1, <1>5 DEF NewTask, RetryTask, AskCancelQueued, AskCancelRunning, AskSweep, Read,
     LeaseRunsOut, daemonVars
<1>6. ASSUME SendCancel PROVE CommandOK'
  <2>1. request # NoRequest /\ request.op = "cancel-running"
    BY <1>6 DEF SendCancel, Serving
  <2>2. request.worker \in Workers /\ request.att \in AttemptNo
    BY <2>1 DEF DaemonInv, RequestOK, Request
  <2> DEFINE m == [worker |-> request.worker, att |-> request.att]
  <2>3. m \in [worker : Workers, att : AttemptNo]
    BY <2>2
  <2>4. command' = [command EXCEPT ![request.task] = m]
    BY <1>6 DEF SendCancel
  <2> HIDE DEF m
  <2> QED BY <2>3, <2>4 DEF DaemonInv, CommandOK
<1>7. ASSUME Serve PROVE CommandOK'
  BY <1>1, <1>6, <1>7 DEF Serve, CancelQueued, CancelRunning, ProbeDaemons, SweepFail,
     EmitRequestRow, CloseRequest
<1>8. CASE UNCHANGED vars
  BY <1>1, <1>8 DEF vars, daemonVars
<1> QED
  BY <1>2, <1>4, <1>5, <1>7, <1>8 DEF DaemonNext

\* A request names a task, an attempt of it and, to cancel a running item, its worker.
LEMMA RequestStep ==
  ASSUME DaemonInv, [DaemonNext]_vars
  PROVE  RequestOK'
<1>1. ASSUME UNCHANGED request PROVE RequestOK'
  BY <1>1 DEF DaemonInv, RequestOK
<1>2. ASSUME NEW w \in Workers, ClaimLoop(w) PROVE RequestOK'
  BY <1>1, <1>2 DEF ClaimLoop, Take, Start, Finish, Unwind, Decide, Terminalize,
     TerminalizeUncertain, Settle, CloseItem
<1>3. ASSUME NEW w \in Workers, Spawn(w) \/ Crash(w) \/ Background(w) PROVE RequestOK'
  BY <1>1, <1>3 DEF Spawn, Crash, Background, Recover, Heartbeat, ConsumeCancel
<1>4. ASSUME NEW t \in Tasks, NEW op \in {"cancel-queued", "cancel-running", "sweep"},
             Read(op, t), task[t].state # "absent",
             op = "cancel-running" => task[t].state \in OwnedState
      PROVE  RequestOK'
  <2>1. task[t].cur \in AttemptNo /\ task[t] \in TaskRow /\ RowInv(t)
    BY <1>4, CurrentAttempt, RowFacts DEF DaemonInv
  <2>2. task[t].owner \in Workers \cup {NoWorker}
        /\ (op = "cancel-running" => task[t].owner \in Workers)
    BY <1>4, <2>1 DEF RowInv, TaskRow
  <2> DEFINE r == [op |-> op, task |-> t, att |-> task[t].cur, worker |-> task[t].owner,
                   step |-> "read"]
  <2>3. r \in Request /\ r.op = op /\ r.worker = task[t].owner
    BY <2>1, <2>2 DEF Request
  <2>4. request' = r
    BY <1>4 DEF Read
  <2> HIDE DEF r
  <2> QED BY <2>2, <2>3, <2>4 DEF RequestOK
<1>5. ASSUME NEW t \in Tasks,
             \/ NewTask(t) \/ RetryTask(t) \/ AskCancelQueued(t)
             \/ AskCancelRunning(t) \/ AskSweep(t) \/ LeaseRunsOut(t)
      PROVE  RequestOK'
  <2>1. ASSUME NewTask(t) \/ RetryTask(t) \/ LeaseRunsOut(t) PROVE RequestOK'
    BY <1>1, <2>1 DEF NewTask, RetryTask, LeaseRunsOut, daemonVars
  <2>2. ASSUME AskCancelQueued(t) \/ AskCancelRunning(t) \/ AskSweep(t) PROVE RequestOK'
    BY <1>4, <2>2 DEF AskCancelQueued, AskCancelRunning, AskSweep, OwnedState
  <2> QED BY <1>5, <2>1, <2>2
<1>6. ASSUME Serve PROVE RequestOK'
  <2>1. request # NoRequest
    BY <1>6 DEF Serve, CancelQueued, CancelRunning, SendCancel, ProbeDaemons, SweepFail,
       EmitRequestRow, CloseRequest, Serving
  <2>2. request \in Request /\ (request.op = "cancel-running" => request.worker \in Workers)
    BY <2>1 DEF DaemonInv, RequestOK
  <2>3. \/ request' = NoRequest
        \/ \E st \in {"probed", "marked"} : request' = [request EXCEPT !.step = st]
    BY <1>6 DEF Serve, CancelQueued, CancelRunning, SendCancel, ProbeDaemons, SweepFail,
       EmitRequestRow, CloseRequest, Mark
  <2>4. ASSUME NEW st \in {"probed", "marked"}, request' = [request EXCEPT !.step = st]
        PROVE  RequestOK'
    BY <2>2, <2>4 DEF RequestOK, Request
  <2> QED BY <2>3, <2>4 DEF RequestOK
<1>7. CASE UNCHANGED vars
  BY <1>1, <1>7 DEF vars, daemonVars
<1> QED
  BY <1>2, <1>3, <1>5, <1>6, <1>7 DEF DaemonNext

-----------------------------------------------------------------------------
(* The theorems.                                                           *)

\* Every step preserves the invariant, and is a step of the store or none.
LEMMA DaemonInvStep ==
  DaemonInv /\ [DaemonNext]_vars => DaemonInv' /\ [StoreNext]_storeVars
<1> SUFFICES ASSUME DaemonInv, [DaemonNext]_vars PROVE DaemonInv' /\ [StoreNext]_storeVars
  OBVIOUS
<1>1. [StoreNext]_storeVars
  BY EveryStepIsClient, ClientIsStoreStep
<1>2. StoreInv'
  BY <1>1, StoreInvStep DEF DaemonInv
<1> QED
  BY <1>1, <1>2, HandsStep, ShownStep, CommandStep, RequestStep DEF DaemonInv

\* The inductive invariant of the daemons.
THEOREM DaemonInvariance == DaemonSpec => []DaemonInv
<1> QED BY DaemonInvInit, DaemonInvStep, PTL DEF DaemonSpec

\* The daemons and the dashboard, stalls and crashes included, implement the store's
\* specification: they are one of the clients it allows.
THEOREM DaemonsImplementStore == DaemonSpec => StoreSpec
<1>1. DaemonInit => StoreInit
  BY DEF DaemonInit
<1> QED BY <1>1, DaemonInvInit, DaemonInvStep, PTL DEF DaemonSpec, StoreSpec

\* Daemons that stall, die and recover, and a dashboard that writes in between, do to a
\* task only what its abstract life allows.
THEOREM DaemonsImplementLifecycle == DaemonSpec => ImplementsLifecycle
<1> QED BY DaemonsImplementStore, StoreImplementsLifecycle

\* Type correctness of the daemons' module.
THEOREM DaemonTypes == DaemonSpec => []DaemonTypeOK
<1>1. DaemonInv => DaemonTypeOK
  BY DEF DaemonInv, DaemonTypeOK, StoreInv, ShownOK, CommandOK, RequestOK
<1> QED BY <1>1, DaemonInvariance, PTL

\* Whatever a daemon holds, it may still end its item exactly when the row carries its
\* worker id and generation: the attempt queue.ts does not check is implied.
THEOREM LeaseIsWholeFence ==
  DaemonSpec => [](\A w \in Workers : hand[w].claim # NoClaim =>
                     (LeaseHolds(hand[w].claim) <=> FenceHolds(hand[w].claim)))
<1>1. ASSUME DaemonInv, NEW w \in Workers, hand[w].claim # NoClaim
      PROVE  LeaseHolds(hand[w].claim) <=> FenceHolds(hand[w].claim)
  BY <1>1 DEF DaemonInv, HandOK, LeaseNamesAttempt, LeaseHolds, FenceHolds
<1>2. DaemonInv => \A w \in Workers : hand[w].claim # NoClaim =>
                     (LeaseHolds(hand[w].claim) <=> FenceHolds(hand[w].claim))
  BY <1>1
<1> QED BY <1>2, DaemonInvariance, PTL

\* No daemon, however late, revives or changes an ended task.
THEOREM DaemonsNeverResurrect == DaemonSpec => TerminalIsSticky
<1> QED BY DaemonsImplementStore, NeverResurrected, PTL

-----------------------------------------------------------------------------
(* An accepted cancellation.                                               *)

\* A task being cancelled does not go back to work in this step.
CancelKept(u) ==
  task[u].state = "cancel_requested" => task'[u].state \notin {"queued", "claimed", "running"}

\* A step that writes one row keeps every cancellation if that task was not being
\* cancelled, or its new state is none of these.
LEMMA OneRowCancelKept ==
  ASSUME StoreTypeOK, NEW t \in Tasks, NEW row, Write(t, row),
         \/ task[t].state # "cancel_requested"
         \/ row.state \notin {"queued", "claimed", "running"}
  PROVE  \A u \in Tasks : CancelKept(u)
BY OtherRows DEF CancelKept

\* No operation the daemons or the dashboard use re-queues a task being cancelled.
LEMMA ClientKeepsCancel ==
  ASSUME DaemonInv, ClientStep
  PROVE  \A u \in Tasks : CancelKept(u)
<1>0. StoreTypeOK /\ StoreInv
  BY DEF DaemonInv, StoreInv
<1>1. ASSUME UNCHANGED task PROVE \A u \in Tasks : CancelKept(u)
  BY <1>1 DEF CancelKept
<1>2. ASSUME NEW t \in Tasks, Enqueue(t) \/ Retry(t) \/ \E w \in Workers : ClaimNext(w, t)
      PROVE  \A u \in Tasks : CancelKept(u)
  <2>1. task[t].state # "cancel_requested" /\ \E row : Write(t, row)
    BY <1>2 DEF Enqueue, Retry, ClaimNext, ActiveStatesBlockingRetry, OwnedState
  <2> QED BY <1>0, <2>1, OneRowCancelKept
<1>3. ASSUME NEW t \in Tasks, LeaseExpires(t) \/ \E w \in Workers : RenewClaim(w, t)
      PROVE  \A u \in Tasks : CancelKept(u)
  <2>1. task[t] \in TaskRow
    BY <1>0, RowFacts
  <2>2. PICK row \in {[task[t] EXCEPT !.lease = "expired"], [task[t] EXCEPT !.lease = "live"]} :
            Write(t, row)
    BY <1>3 DEF LeaseExpires, RenewClaim
  <2>3. row.state = task[t].state
    BY <2>1 DEF TaskRow
  <2> QED BY <1>0, <2>2, <2>3, OneRowCancelKept
<1>4. ASSUME NEW t \in Tasks, RequestCancelRunning(t) PROVE \A u \in Tasks : CancelKept(u)
  <2>1. task[t].state # "cancel_requested" /\ \E row : Write(t, row)
    BY <1>4 DEF RequestCancelRunning
  <2> QED BY <1>0, <2>1, OneRowCancelKept
<1>5. ASSUME NEW t \in Tasks, NEW s \in {"done", "failed", "cancelled", "blocked"},
             Write(t, Closed(task[t], s))
      PROVE  \A u \in Tasks : CancelKept(u)
  <2>1. s \in TaskState
    BY DEF TaskState
  <2>2. Closed(task[t], s).state = s
    BY <1>0, <2>1, RowFacts, ClosedRow
  <2> QED BY <1>0, <1>5, <2>2, OneRowCancelKept
<1>6. ASSUME NEW t \in Tasks,
             \/ RequestCancelIdle(t)
             \/ \E n \in AttemptNo : \E s \in {"failed", "cancelled"} : MarkTerminalUnfenced(t, n, s)
      PROVE  \A u \in Tasks : CancelKept(u)
  BY <1>5, <1>6 DEF RequestCancelIdle, MarkTerminalUnfenced
<1>7. ASSUME NEW c \in issued,
             \/ MarkBlockedUncertain(c) \/ \E s \in Verdict : MarkTerminal(c, s)
             \/ MarkRunning(c)
      PROVE  \A u \in Tasks : CancelKept(u)
  <2>1. c.task \in Tasks
    BY <1>0 DEF StoreTypeOK, Claim
  <2>2. ASSUME MarkRunning(c) PROVE \A u \in Tasks : CancelKept(u)
    <3>1. task[c.task].state # "cancel_requested" /\ \E row : Write(c.task, row)
      BY <2>2 DEF MarkRunning, MarkRunningMatches
    <3> QED BY <1>0, <2>1, <3>1, OneRowCancelKept
  <2> QED
    BY <1>5, <1>7, <2>1, <2>2 DEF MarkBlockedUncertain, MarkTerminal, Verdict
<1>8. ASSUME NEW alive, NEW seen, RecoverOrphanedClaims(alive, seen)
      PROVE  \A u \in Tasks : CancelKept(u)
  BY <1>8 DEF RecoverOrphanedClaims, Orphaned, CancelKept
<1>9. ASSUME NEW t \in Tasks, OpenCancelCommand(t) \/ CloseCancelCommand(t)
      PROVE  \A u \in Tasks : CancelKept(u)
  BY <1>1, <1>9 DEF OpenCancelCommand, CloseCancelCommand
<1>10. CASE DisownStep
  BY <1>2, <1>3, <1>4, <1>6, <1>7, <1>8, <1>9, <1>10 DEF DisownStep
<1>11. CASE \E w \in Workers, t \in Tasks : Take(w, t)
  BY <1>2, <1>11 DEF Take
<1>12. CASE \E w \in Workers : Start(w) /\ MarkRunning(hand[w].claim)
  BY <1>7, <1>12, HeldClaim DEF Start
<1>13. CASE UNCHANGED storeVars
  BY <1>1, <1>13 DEF storeVars
<1> QED BY <1>10, <1>11, <1>12, <1>13 DEF ClientStep

\* A cancellation the store accepted is never undone by handing the task out again,
\* with or without stalls.
THEOREM CancellationsStand == DaemonSpec => CancelNeverRequeued
<1>1. DaemonInv /\ [DaemonNext]_vars =>
        [\A t \in Tasks : task[t].state = "cancel_requested"
           => task'[t].state \notin {"queued", "claimed", "running"}]_vars
  BY EveryStepIsClient, ClientKeepsCancel DEF CancelKept
<1> QED BY <1>1, DaemonInvariance, PTL DEF DaemonSpec, CancelNeverRequeued

-----------------------------------------------------------------------------
(* Daemons that do not stall.                                              *)
(*                                                                         *)
(* Where no live process outlasts its lease (~MayStall), a daemon that     *)
(* holds an item either still owns its row, under the generation of its    *)
(* claim, or has lost it for good: the attempt has ended, or the task is   *)
(* on a later one.  Nobody else can then be handed the same attempt.  The  *)
(* rest ties the rows of the tracker to it: the `done` row of a run is     *)
(* there from the end of its handler on, and not before.                   *)

\* A hand with an item in it.
Active(h) == h.phase \in {"claimed"} \cup InFlight

\* The row still carries the lease of the claim.
Keeps(c, w) == task[c.task].owner = w /\ task[c.task].gen = c.gen

\* The attempt of the claim is over.
Passed(c) ==
  \/ task[c.task].cur = c.att /\ task[c.task].terminal
  \/ task[c.task].cur > c.att

\* The attempt of the claim did not end done.
NotDone(c) == task[c.task].cur = c.att => task[c.task].state # "done"

ShownDone(c) == shown[c.task][c.att] = "done"

\* The hand h of w agrees with the store and the tracker.
Fit(w, h) ==
  /\ ~Active(h) => h.claim = NoClaim
  /\ Active(h) =>
       /\ Keeps(h.claim, w) \/ Passed(h.claim)
       /\ h.phase = "claimed" => task[h.claim.task].cur = h.claim.att
       /\ h.phase \in {"claimed", "processing"} => ~ShownDone(h.claim)
       /\ h.phase \in {"returned", "terminalizing", "settling"} /\ h.verdict = "done"
            => ShownDone(h.claim)
       /\ h.phase = "settling" /\ h.verdict \in {"none", "cancelled"}
            => Passed(h.claim) /\ NotDone(h.claim)

\* A row that names a daemon is in its hand, unless that daemon is gone; only the
\* lease of one that is gone runs out.
OwnersHold(t) ==
  /\ \A w \in Workers : task[t].owner = w =>
       \/ hand[w].phase = "exited"
       \/ Active(hand[w]) /\ hand[w].claim.task = t /\ hand[w].claim.gen = task[t].gen
  /\ task[t].lease = "expired" => task[t].owner \notin Up

\* What the tracker shows of the attempts of a task.
RowsTell(t) ==
  /\ task[t].run = task[t].cur
  /\ task[t].state \in {"queued", "waiting_dependencies"} => shown[t][task[t].cur] # "done"
  /\ task[t].state = "done" => shown[t][task[t].cur] = "done"
  /\ \A n \in AttemptNo : n > task[t].run => shown[t][n] = "none"

\* No two daemons hold the same attempt.
HeldApart ==
  \A w, u \in Workers :
    /\ Active(hand[w]) /\ Active(hand[u])
    /\ hand[w].claim.task = hand[u].claim.task
    /\ hand[w].claim.att = hand[u].claim.att
    => w = u

\* A request is about an attempt that exists and, when it will write a row for it,
\* one that is not shown done.
Asked ==
  request # NoRequest =>
    /\ request.att <= task[request.task].run
    /\ request.op # "cancel-running" => shown[request.task][request.att] # "done"

PromptInv ==
  /\ \A w \in Workers : Fit(w, hand[w])
  /\ \A t \in Tasks : OwnersHold(t) /\ RowsTell(t)
  /\ HeldApart
  /\ Asked

\* The daemons start so.
LEMMA PromptInit == DaemonInit => PromptInv
<1> SUFFICES ASSUME DaemonInit PROVE PromptInv
  OBVIOUS
<1>1. hand = [w \in Workers |-> Empty("off")] /\ Empty("off").phase = "off"
      /\ Empty("off").claim = NoClaim /\ ~Active(Empty("off"))
  BY DEF DaemonInit, Empty, Active, InFlight
<1>2. task = [t \in Tasks |-> AbsentRow] /\ shown = [t \in Tasks |-> [n \in AttemptNo |-> "none"]]
  BY DEF DaemonInit, StoreInit
<1>3. \A w \in Workers : Fit(w, hand[w])
  BY <1>1 DEF Fit
<1>4. \A t \in Tasks : OwnersHold(t) /\ RowsTell(t)
  BY <1>2, StoreAssumption DEF OwnersHold, RowsTell, AbsentRow
<1>5. HeldApart /\ Asked
  BY <1>1 DEF HeldApart, DaemonInit, Asked
<1> QED
  BY <1>3, <1>4, <1>5 DEF PromptInv

-----------------------------------------------------------------------------
(* What a step does to a row.                                              *)

RowStays(t) == task'[t] = task[t]

\* It stays in the hands of its owner.
RowHeld(t) ==
  /\ task[t].owner # NoWorker
  /\ task[t].state \in OwnedState /\ task'[t].state \in OwnedState
  /\ task'[t].owner = task[t].owner /\ task'[t].gen = task[t].gen
  /\ task'[t].cur = task[t].cur /\ task'[t].run = task[t].run
  /\ task'[t].lease = "expired" => task[t].lease = "expired" \/ task[t].owner \notin Up

\* It ends; done, only where the tracker shows it.
RowEnds(t) ==
  /\ ~task[t].terminal /\ task'[t].terminal
  /\ task'[t].state \in Ended
  /\ task'[t].owner = NoWorker /\ task'[t].lease = "none"
  /\ task'[t].cur = task[t].cur /\ task'[t].run = task[t].run
  /\ task'[t].state = "done" => shown[t][task[t].cur] = "done"

\* It returns to the queue from a daemon that is gone, its run not shown done.
RowReturns(t) ==
  /\ task[t].owner \in Workers \ Up
  /\ task'[t].state = "queued"
  /\ task'[t].owner = NoWorker /\ task'[t].lease = "none"
  /\ task'[t].cur = task[t].cur /\ task'[t].run = task[t].run
  /\ shown[t][task[t].cur] # "done"

\* It gets a new attempt; no daemon is about to start the old one.
RowRenewed(t) ==
  /\ task[t].owner = NoWorker
  /\ task'[t].state = "queued"
  /\ task'[t].owner = NoWorker /\ task'[t].lease = "none"
  /\ task[t].run + 1 \in AttemptNo
  /\ task'[t].cur = task[t].run + 1 /\ task'[t].run = task[t].run + 1
  /\ \A w \in Workers : hand[w].phase = "claimed" => hand[w].claim.task # t

\* A daemon is handed it.
RowTaken(t) ==
  /\ task[t].state = "queued" /\ task'[t].state = "claimed"
  /\ task'[t].lease = "live"
  /\ task'[t].cur = task[t].cur /\ task'[t].run = task[t].run
  /\ \E w \in Workers :
       /\ task'[t].owner = w
       /\ Active(hand'[w])
       /\ hand'[w].claim.task = t /\ hand'[w].claim.gen = task'[t].gen

RowMove(t) ==
  RowStays(t) \/ RowHeld(t) \/ RowEnds(t) \/ RowReturns(t) \/ RowRenewed(t) \/ RowTaken(t)

\* A step that writes one row moves the others by leaving them alone.
LEMMA OneRowMoves ==
  ASSUME StoreTypeOK, NEW t \in Tasks, NEW row, Write(t, row), RowMove(t)
  PROVE  \A u \in Tasks : RowMove(u)
BY OtherRows DEF RowMove, RowStays

\* Closing a row that has not ended ends it.
LEMMA CloseMoves ==
  ASSUME StoreInv, NEW t \in Tasks, NEW s \in Ended, Write(t, Closed(task[t], s)),
         ~task[t].terminal, s = "done" => shown[t][task[t].cur] = "done"
  PROVE  \A u \in Tasks : RowMove(u)
<1>1. task[t] \in TaskRow /\ StoreTypeOK
  BY RowFacts DEF StoreInv
<1>2. s \in TaskState
  BY DEF Ended, TaskState
<1>3. task'[t] = Closed(task[t], s)
  BY <1>1, OtherRows
<1> DEFINE row == Closed(task[t], s)
<1>4. /\ row.state = s /\ row.owner = NoWorker /\ row.lease = "none"
      /\ row.cur = task[t].cur /\ row.run = task[t].run /\ row.terminal
  BY <1>1, <1>2, ClosedRow
<1> HIDE DEF row
<1>5. task'[t] = row
  BY <1>3 DEF row
<1>6. RowEnds(t)
  BY <1>4, <1>5 DEF RowEnds
<1> QED BY <1>1, <1>6, OneRowMoves DEF RowMove, row

\* Setting the lease or the state of a row in somebody's hands leaves it there.
LEMMA HeldMoves ==
  ASSUME StoreInv, NEW t \in Tasks, NEW row, Write(t, row), task[t].state \in OwnedState,
         row.state \in OwnedState, row.owner = task[t].owner, row.gen = task[t].gen,
         row.cur = task[t].cur, row.run = task[t].run,
         row.lease = "expired" => task[t].lease = "expired" \/ task[t].owner \notin Up
  PROVE  \A u \in Tasks : RowMove(u)
<1>1. StoreTypeOK /\ RowInv(t)
  BY RowFacts DEF StoreInv
<1>2. task'[t] = row
  BY <1>1, OtherRows
<1>3. RowHeld(t)
  BY <1>1, <1>2 DEF RowHeld, RowInv
<1> QED BY <1>1, <1>3, OneRowMoves DEF RowMove

\* The dashboard's requests and the clock.
LEMMA DashboardMoves ==
  ASSUME ~MayStall, DaemonInv, PromptInv,
         \/ \E t \in Tasks : \/ NewTask(t) \/ RetryTask(t) \/ AskCancelQueued(t)
                             \/ AskCancelRunning(t) \/ AskSweep(t) \/ LeaseRunsOut(t)
         \/ Serve
  PROVE  \A u \in Tasks : RowMove(u)
<1>0. StoreInv /\ StoreTypeOK
  BY DEF DaemonInv, StoreInv
<1>1. ASSUME UNCHANGED task PROVE \A u \in Tasks : RowMove(u)
  BY <1>1 DEF RowMove, RowStays
<1>2. ASSUME NEW t \in Tasks, NewTask(t) PROVE \A u \in Tasks : RowMove(u)
  <2> DEFINE row == [AbsentRow EXCEPT !.state = "queued", !.cur = 1, !.run = 1]
  <2>1. Write(t, row) /\ task[t] = AbsentRow
    BY <1>0, <1>2, RowFacts DEF NewTask, Enqueue, RowInv, WellFormed
  <2>2. /\ row.state = "queued" /\ row.owner = NoWorker /\ row.lease = "none"
        /\ row.cur = 1 /\ row.run = 1 /\ task'[t] = row
    BY <1>0, <2>1, OtherRows DEF AbsentRow
  <2>3. task[t].owner = NoWorker /\ task[t].run = 0 /\ task[t].cur = 0 /\ 1 \in AttemptNo
    BY <2>1, StoreAssumption DEF AbsentRow, AttemptNo
  <2>4. ASSUME NEW w \in Workers, hand[w].phase = "claimed" PROVE hand[w].claim.task # t
    <3>1. hand[w].claim.att \in AttemptNo
      BY <2>4, HeldClaim
    <3>2. task[hand[w].claim.task].cur = hand[w].claim.att
      BY <2>4 DEF PromptInv, Fit, Active
    <3> QED BY <2>3, <3>1, <3>2 DEF AttemptNo
  <2> HIDE DEF row
  <2>5. RowRenewed(t)
    BY <2>2, <2>3, <2>4 DEF RowRenewed
  <2> QED BY <1>0, <2>1, <2>5, OneRowMoves DEF RowMove
<1>3. ASSUME NEW t \in Tasks, RetryTask(t) PROVE \A u \in Tasks : RowMove(u)
  <2>1. task[t] \in TaskRow /\ RowInv(t)
    BY <1>0, RowFacts
  <2> DEFINE q == Reopened(task[t])
             row == [q EXCEPT !.gen = @ + 1, !.cur = task[t].run + 1, !.run = @ + 1]
  <2>2. q \in TaskRow /\ q.state = "queued" /\ q.owner = NoWorker /\ q.lease = "none"
        /\ q.run = task[t].run
    BY <2>1, ReopenedRow
  <2>3. /\ Write(t, row) /\ task[t].run < MaxAttempt
        /\ task[t].state \notin OwnedState
    BY <1>3 DEF RetryTask, Retry, ActiveStatesBlockingRetry
  <2> HIDE DEF q
  <2>4. /\ row.state = "queued" /\ row.owner = NoWorker /\ row.lease = "none"
        /\ row.cur = task[t].run + 1 /\ row.run = task[t].run + 1
    BY <2>2 DEF TaskRow
  <2> HIDE DEF row
  <2>5. task'[t] = row
    BY <1>0, <2>3, OtherRows
  <2>6. task[t].run + 1 \in AttemptNo /\ task[t].owner = NoWorker
    BY <2>1, <2>3, StoreAssumption DEF TaskRow, RowInv, AttemptNo
  <2>7. \A w \in Workers : hand[w].phase # "claimed"
    BY <1>3 DEF RetryTask, OperatorTime
  <2>8. RowRenewed(t)
    BY <2>4, <2>5, <2>6, <2>7 DEF RowRenewed
  <2> QED BY <1>0, <2>3, <2>8, OneRowMoves DEF RowMove
<1>4. ASSUME NEW t \in Tasks, LeaseRunsOut(t) PROVE \A u \in Tasks : RowMove(u)
  <2>1. task[t] \in TaskRow /\ RowInv(t)
    BY <1>0, RowFacts
  <2> DEFINE row == [task[t] EXCEPT !.lease = "expired"]
  <2>2. Write(t, row) /\ task[t].lease = "live" /\ task[t].owner \notin Up
    BY <1>4 DEF LeaseRunsOut, LeaseExpires
  <2>3. task[t].state \in OwnedState
    BY <2>1, <2>2 DEF RowInv
  <2>4. /\ row.state = task[t].state /\ row.owner = task[t].owner /\ row.gen = task[t].gen
        /\ row.cur = task[t].cur /\ row.run = task[t].run
    BY <2>1 DEF TaskRow
  <2> HIDE DEF row
  <2> QED BY <1>0, <2>2, <2>3, <2>4, HeldMoves
<1>5. ASSUME NEW t \in Tasks, NEW n, NEW s \in {"failed", "cancelled"},
             MarkTerminalUnfenced(t, n, s)
      PROVE  \A u \in Tasks : RowMove(u)
  BY <1>0, <1>5, CloseMoves DEF MarkTerminalUnfenced, Ended
<1>6. ASSUME Serve PROVE \A u \in Tasks : RowMove(u)
  <2>1. request # NoRequest
    BY <1>6 DEF Serve, CancelQueued, CancelRunning, SendCancel, ProbeDaemons, SweepFail,
       EmitRequestRow, CloseRequest, Serving
  <2>2. request.task \in Tasks
    BY <2>1 DEF DaemonInv, RequestOK, Request
  <2>3. ASSUME CancelQueued \/ SweepFail PROVE \A u \in Tasks : RowMove(u)
    <3>1. \/ UNCHANGED storeVars
          \/ MarkTerminalUnfenced(request.task, request.att, "cancelled")
          \/ MarkTerminalUnfenced(request.task, task[request.task].cur, "failed")
      BY <2>3 DEF CancelQueued, SweepFail
    <3> QED BY <1>1, <1>5, <2>2, <3>1 DEF storeVars
  <2>4. ASSUME NEW t \in Tasks, RequestCancelRunning(t) PROVE \A u \in Tasks : RowMove(u)
    <3>1. task[t] \in TaskRow
      BY <1>0, RowFacts
    <3> DEFINE row == [task[t] EXCEPT !.state = "cancel_requested", !.cancelReq = TRUE]
    <3>2. Write(t, row) /\ task[t].state \in OwnedState
      BY <2>4 DEF RequestCancelRunning, OwnedState
    <3>3. /\ row.state = "cancel_requested" /\ row.owner = task[t].owner
          /\ row.gen = task[t].gen /\ row.cur = task[t].cur /\ row.run = task[t].run
          /\ row.lease = task[t].lease
      BY <3>1 DEF TaskRow
    <3> HIDE DEF row
    <3>4. row.state \in OwnedState
      BY <3>3 DEF OwnedState
    <3> QED BY <1>0, <3>2, <3>3, <3>4, HeldMoves
  <2>5. ASSUME CancelRunning PROVE \A u \in Tasks : RowMove(u)
    <3>1. \/ RequestCancelRunning(request.task)
          \/ RequestCancelIdle(request.task)
          \/ UNCHANGED storeVars
      BY <2>5 DEF CancelRunning
    <3> QED BY <1>1, <1>5, <2>2, <2>4, <3>1 DEF storeVars, RequestCancelIdle
  <2>6. ASSUME SendCancel \/ ProbeDaemons(Up) \/ EmitRequestRow
        PROVE  \A u \in Tasks : RowMove(u)
    BY <1>1, <2>6 DEF SendCancel, OpenCancelCommand, ProbeDaemons, EmitRequestRow, storeVars
  <2> QED BY <1>6, <2>3, <2>5, <2>6 DEF Serve
<1>7. ASSUME NEW t \in Tasks, AskCancelQueued(t) \/ AskCancelRunning(t) \/ AskSweep(t)
      PROVE  \A u \in Tasks : RowMove(u)
  BY <1>1, <1>7 DEF AskCancelQueued, AskCancelRunning, AskSweep, Read, storeVars
<1> QED BY <1>2, <1>3, <1>4, <1>6, <1>7

\* What is known of an item in a hand.
LEMMA ActiveFacts ==
  ASSUME DaemonInv, PromptInv, NEW w \in Workers, Active(hand[w])
  PROVE  /\ hand[w].claim \in Claim /\ hand[w].claim.worker = w
         /\ hand[w].claim.task \in Tasks /\ hand[w].claim.att \in AttemptNo
         /\ w \in Up
         /\ Keeps(hand[w].claim, w) \/ Passed(hand[w].claim)
         /\ Keeps(hand[w].claim, w) => task[hand[w].claim.task].cur = hand[w].claim.att
         /\ task[hand[w].claim.task].cur \in 0 .. MaxAttempt
         /\ task[hand[w].claim.task].run = task[hand[w].claim.task].cur
<1> DEFINE c == hand[w].claim
<1>1. c \in Claim /\ c.worker = w /\ c.task \in Tasks /\ c.att \in AttemptNo /\ LeaseNamesAttempt(c)
  BY HeldClaim DEF Active
<1>2. w \in Up
  BY DEF Up, Active, InFlight
<1>3. Keeps(c, w) \/ Passed(c)
  BY DEF PromptInv, Fit
<1>4. Keeps(c, w) => task[c.task].cur = c.att
  BY <1>1 DEF Keeps, LeaseNamesAttempt
<1>5. task[c.task].cur \in 0 .. MaxAttempt
  BY <1>1 DEF DaemonInv, StoreInv, StoreTypeOK, TaskRow
<1>6. task[c.task].run = task[c.task].cur
  BY <1>1 DEF PromptInv, RowsTell
<1> QED BY <1>1, <1>2, <1>3, <1>4, <1>5, <1>6

\* markTaskRunning only ever matches the row of the claim itself.
LEMMA StartsItsOwn ==
  ASSUME DaemonInv, PromptInv, NEW w \in Workers, hand[w].phase = "claimed",
         MarkRunningMatches(hand[w].claim)
  PROVE  Keeps(hand[w].claim, w) /\ task[hand[w].claim.task].state \in OwnedState
<1> DEFINE c == hand[w].claim
           t == hand[w].claim.task
<1>1. Active(hand[w])
  BY DEF Active
<1>2. t \in Tasks /\ (Keeps(c, w) \/ Passed(c))
  BY <1>1, ActiveFacts
<1>3. RowInv(t) /\ task[t] \in TaskRow
  BY <1>2, RowFacts DEF DaemonInv
<1>4. task[t].cur = c.att
  BY <1>1 DEF PromptInv, Fit
<1>5. task[t].state \in {"claimed", "queued", "running"}
  BY DEF MarkRunningMatches
<1>6. ~Passed(c)
  BY <1>3, <1>4, <1>5 DEF Passed, RowInv, TaskRow
<1>7. task[t].owner = w
  BY <1>2, <1>6 DEF Keeps
<1> QED BY <1>2, <1>3, <1>6, <1>7, StoreAssumption DEF RowInv

\* The claim loop.
LEMMA ClaimLoopMoves ==
  ASSUME ~MayStall, DaemonInv, PromptInv, NEW w \in Workers, ClaimLoop(w)
  PROVE  \A u \in Tasks : RowMove(u)
<1>0. StoreInv /\ StoreTypeOK /\ hand \in [Workers -> Hand]
  BY DEF DaemonInv, StoreInv
<1>1. ASSUME UNCHANGED task PROVE \A u \in Tasks : RowMove(u)
  BY <1>1 DEF RowMove, RowStays
<1>2. ASSUME NEW t \in Tasks, Take(w, t) PROVE \A u \in Tasks : RowMove(u)
  <2> DEFINE row == [task[t] EXCEPT !.state = "claimed", !.owner = w, !.lease = "live",
                                    !.gen = @ + 1]
             c == [task |-> t, att |-> task[t].cur, worker |-> w, gen |-> task[t].gen + 1]
             h == [Empty("claimed") EXCEPT !.claim = c]
  <2>1. task[t] \in TaskRow
    BY <1>0, RowFacts
  <2>2. Write(t, row) /\ Put(w, h) /\ task[t].state = "queued"
    BY <1>2 DEF Take, ClaimNext
  <2>3. /\ row.state = "claimed" /\ row.owner = w /\ row.lease = "live"
        /\ row.gen = task[t].gen + 1 /\ row.cur = task[t].cur /\ row.run = task[t].run
    BY <2>1 DEF TaskRow
  <2>4. c.task = t /\ c.gen = task[t].gen + 1
    OBVIOUS
  <2> HIDE DEF c, row
  <2>5. h.phase = "claimed" /\ h.claim = c
    BY DEF Empty
  <2> HIDE DEF h
  <2>6. hand'[w] = h /\ task'[t] = row
    BY <1>0, <2>2, OtherRows DEF Put
  <2>7. RowTaken(t)
    BY <2>2, <2>3, <2>4, <2>5, <2>6 DEF RowTaken, Active
  <2> QED BY <1>0, <2>2, <2>7, OneRowMoves DEF RowMove
<1>3. ASSUME Start(w) PROVE \A u \in Tasks : RowMove(u)
  <2> DEFINE c == hand[w].claim
             row == [task[c.task] EXCEPT !.state = "running", !.owner = c.worker, !.cur = c.att]
  <2>1. CASE UNCHANGED storeVars
    BY <1>1, <2>1 DEF storeVars
  <2>2. CASE MarkRunning(hand[w].claim)
    <3>1. hand[w].phase = "claimed" /\ Active(hand[w])
      BY <1>3 DEF Start, Active
    <3>2. /\ c.task \in Tasks /\ c.worker = w /\ Keeps(c, w) /\ task[c.task].cur = c.att
          /\ task[c.task].state \in OwnedState
      BY <2>2, <3>1, ActiveFacts, StartsItsOwn DEF MarkRunning
    <3>3. Write(c.task, row) /\ task[c.task] \in TaskRow
      BY <1>0, <2>2, <3>2, RowFacts DEF MarkRunning
    <3> HIDE DEF c
    <3>4. /\ row.state = "running" /\ row.owner = task[c.task].owner
          /\ row.gen = task[c.task].gen /\ row.cur = task[c.task].cur
          /\ row.run = task[c.task].run /\ row.lease = task[c.task].lease
      BY <3>2, <3>3 DEF TaskRow, Keeps
    <3> HIDE DEF row
    <3>5. row.state \in OwnedState
      BY <3>4 DEF OwnedState
    <3> QED BY <1>0, <3>2, <3>3, <3>4, <3>5, HeldMoves
  <2> QED BY <1>3, <2>1, <2>2 DEF Start
<1>4. ASSUME \/ Finish(w, "done") \/ Finish(w, "failed") \/ Unwind(w) \/ Decide(w) \/ Settle(w)
      PROVE  \A u \in Tasks : RowMove(u)
  BY <1>1, <1>4 DEF Finish, Unwind, Decide, Settle, storeVars
<1>5. ASSUME hand[w].phase = "terminalizing", NEW s \in Ended,
             Write(hand[w].claim.task, Closed(task[hand[w].claim.task], s)),
             LeaseHolds(hand[w].claim), s = "done" => hand[w].verdict = "done"
      PROVE  \A u \in Tasks : RowMove(u)
  <2> DEFINE c == hand[w].claim
  <2>1. Active(hand[w])
    BY <1>5 DEF Active, InFlight
  <2>2. c.task \in Tasks /\ c.worker = w /\ (Keeps(c, w) => task[c.task].cur = c.att)
    BY <2>1, ActiveFacts
  <2>3. Keeps(c, w) /\ ~task[c.task].terminal
    BY <1>5, <2>2 DEF LeaseHolds, Keeps
  <2>4. s = "done" => shown[c.task][task[c.task].cur] = "done"
    BY <1>5, <2>1, <2>2, <2>3 DEF PromptInv, Fit, ShownDone
  <2> QED BY <1>0, <1>5, <2>2, <2>3, <2>4, CloseMoves
<1>6. ASSUME Terminalize(w) PROVE \A u \in Tasks : RowMove(u)
  <2>1. hand[w].phase = "terminalizing"
    BY <1>6 DEF Terminalize
  <2>2. hand[w].verdict \in Ended
    BY <1>0, <2>1 DEF DaemonInv, HandOK, Hand, Verdict, Ended
  <2>3. CASE UNCHANGED storeVars
    BY <1>1, <2>3 DEF storeVars
  <2>4. CASE MarkItem(hand[w].claim, hand[w].verdict)
    BY <1>5, <2>1, <2>2, <2>4 DEF MarkItem
  <2> QED BY <1>6, <2>3, <2>4 DEF Terminalize
<1>7. ASSUME TerminalizeUncertain(w) PROVE \A u \in Tasks : RowMove(u)
  BY <1>5, <1>7 DEF TerminalizeUncertain, MarkBlockedUncertain, FenceHolds, LeaseHolds, Ended
<1> QED BY <1>2, <1>3, <1>4, <1>6, <1>7 DEF ClaimLoop

\* The timers of a daemon, its start and its death.
LEMMA BackgroundMoves ==
  ASSUME ~MayStall, DaemonInv, PromptInv, NEW w \in Workers,
         Spawn(w) \/ Crash(w) \/ Background(w)
  PROVE  \A u \in Tasks : RowMove(u)
<1>0. StoreInv /\ StoreTypeOK
  BY DEF DaemonInv, StoreInv
<1>1. ASSUME UNCHANGED task PROVE \A u \in Tasks : RowMove(u)
  BY <1>1 DEF RowMove, RowStays
<1>2. ASSUME NEW u \in Tasks, RecoverOrphanedClaims(Up, TerminalRow) PROVE RowMove(u)
  <2>1. task[u] \in TaskRow /\ RowInv(u)
    BY <1>0, RowFacts
  <2>2. CASE ~Orphaned(u, Up)
    BY <1>2, <2>2 DEF RecoverOrphanedClaims, RowMove, RowStays
  <2>3. CASE Orphaned(u, Up)
    <3>1. task[u].owner \in Workers \ Up /\ task[u].state \in {"claimed", "running"}
      BY <2>1, <2>3 DEF Orphaned, TaskRow, PromptInv, OwnersHold
    <3>2. task[u].cur \in AttemptNo
      BY <1>0, <3>1, CurrentAttempt
    <3>3. TerminalRow[u] = shown[u][task[u].cur] /\ TerminalRow[u] \in Verdict \cup {"none"}
      BY <3>2, TerminalRowType DEF TerminalRow, AttemptNo
    <3>4. CASE TerminalRow[u] = "none"
      <4> DEFINE row == Requeued(task[u])
      <4>1. task'[u] = row
        BY <1>2, <2>3, <3>4 DEF RecoverOrphanedClaims
      <4>2. /\ row.state = "queued" /\ row.owner = NoWorker /\ row.lease = "none"
            /\ row.cur = task[u].cur /\ row.run = task[u].run
        BY <2>1, RequeuedRow
      <4> HIDE DEF row
      <4>3. RowReturns(u)
        BY <3>1, <3>3, <3>4, <4>1, <4>2 DEF RowReturns
      <4> QED BY <4>3 DEF RowMove
    <3>5. CASE TerminalRow[u] # "none"
      <4> DEFINE row == Closed(task[u], TerminalRow[u])
      <4>1. task'[u] = row
        BY <1>2, <2>3, <3>5 DEF RecoverOrphanedClaims
      <4>2. TerminalRow[u] \in Ended /\ TerminalRow[u] \in TaskState
        BY <3>3, <3>5 DEF Verdict, Ended, TaskState
      <4>3. /\ row.state = TerminalRow[u] /\ row.owner = NoWorker /\ row.lease = "none"
            /\ row.cur = task[u].cur /\ row.run = task[u].run /\ row.terminal
        BY <2>1, <4>2, ClosedRow
      <4>4. ~task[u].terminal
        BY <2>1, <3>1 DEF RowInv
      <4> HIDE DEF row
      <4>5. RowEnds(u)
        BY <3>3, <4>1, <4>2, <4>3, <4>4 DEF RowEnds
      <4> QED BY <4>5 DEF RowMove
    <3> QED BY <3>4, <3>5
  <2> QED BY <2>2, <2>3
<1>3. ASSUME NEW alive \in Believed(w), Recover(w, alive) PROVE \A u \in Tasks : RowMove(u)
  <2>1. alive = Up
    BY DEF Believed
  <2> QED BY <1>1, <1>2, <1>3, <2>1 DEF Recover, storeVars
<1>4. ASSUME NEW t \in Tasks, RenewClaim(w, t) PROVE \A u \in Tasks : RowMove(u)
  <2> DEFINE row == [task[t] EXCEPT !.lease = "live"]
  <2>1. Write(t, row) /\ task[t].state \in OwnedState /\ task[t] \in TaskRow
    BY <1>0, <1>4, RowFacts DEF RenewClaim, OwnedState
  <2>2. /\ row.state = task[t].state /\ row.owner = task[t].owner /\ row.gen = task[t].gen
        /\ row.cur = task[t].cur /\ row.run = task[t].run /\ row.lease = "live"
    BY <2>1 DEF TaskRow
  <2> HIDE DEF row
  <2> QED BY <1>0, <2>1, <2>2, HeldMoves
<1>5. ASSUME Heartbeat(w) PROVE \A u \in Tasks : RowMove(u)
  <2>1. hand[w].claim.task \in Tasks
    BY <1>5, HeldClaim DEF Heartbeat
  <2> QED BY <1>1, <1>4, <1>5, <2>1 DEF Heartbeat, storeVars
<1>6. ASSUME NEW t \in Tasks, ConsumeCancel(w, t) PROVE \A u \in Tasks : RowMove(u)
  BY <1>1, <1>6 DEF ConsumeCancel, CloseCancelCommand
<1>7. ASSUME Spawn(w) \/ Crash(w) PROVE \A u \in Tasks : RowMove(u)
  BY <1>1, <1>7 DEF Spawn, Crash, storeVars
<1> QED BY <1>3, <1>5, <1>6, <1>7 DEF Background

\* Every step moves every row in one of these ways.
LEMMA RowsMove ==
  ASSUME ~MayStall, DaemonInv, PromptInv, [DaemonNext]_vars
  PROVE  \A u \in Tasks : RowMove(u)
<1>1. CASE UNCHANGED vars
  BY <1>1 DEF vars, storeVars, RowMove, RowStays
<1>2. CASE DaemonNext
  BY <1>2, ClaimLoopMoves, BackgroundMoves, DashboardMoves DEF DaemonNext
<1> QED BY <1>1, <1>2

-----------------------------------------------------------------------------
(* What a step does to the hands.                                          *)

\* A claim that is kept or passed stays so, and one that is passed stays passed.
LEMMA ClaimKept ==
  ASSUME StoreInv, NEW w \in Up, NEW c \in Claim, RowsTell(c.task), RowMove(c.task),
         Keeps(c, w) => task[c.task].cur = c.att
  PROVE  /\ Keeps(c, w) \/ Passed(c) => Keeps(c, w)' \/ Passed(c)'
         /\ Passed(c) => Passed(c)'
         /\ Passed(c) /\ NotDone(c) => NotDone(c)'
<1> DEFINE t == c.task
<1>1. t \in Tasks /\ c.att \in Nat /\ w \in Workers
  BY StoreAssumption DEF Claim, AttemptNo, Up
<1>2. /\ task[t] \in TaskRow /\ RowInv(t) /\ task[t].cur \in Nat /\ task[t].run = task[t].cur
  BY <1>1, RowFacts, StoreAssumption DEF TaskRow, RowsTell
<1>3. w # NoWorker
  BY <1>1, StoreAssumption
<1>4. CASE RowStays(t)
  BY <1>4 DEF RowStays, Keeps, Passed, NotDone
<1>5. CASE RowHeld(t)
  BY <1>2, <1>5 DEF RowHeld, RowInv, OwnedState, Keeps, Passed, NotDone
<1>6. CASE RowEnds(t)
  BY <1>2, <1>3, <1>6 DEF RowEnds, Keeps, Passed, NotDone
<1>7. CASE RowReturns(t)
  BY <1>2, <1>7, StoreAssumption DEF RowReturns, RowInv, OwnedState, Keeps, Passed, NotDone
<1>8. CASE RowRenewed(t)
  <2>1. ~Keeps(c, w)
    BY <1>3, <1>8 DEF RowRenewed, Keeps
  <2>2. task'[t].cur = task[t].cur + 1
    BY <1>2, <1>8 DEF RowRenewed
  <2>3. Passed(c) => task'[t].cur > c.att
    BY <1>1, <1>2, <2>2 DEF Passed
  <2>4. task'[t].cur > c.att => Passed(c)' /\ NotDone(c)'
    BY <1>1, <1>2, <2>2 DEF Passed, NotDone
  <2> QED BY <2>1, <2>3, <2>4
<1>9. CASE RowTaken(t)
  <2>1. ~Keeps(c, w) /\ ~task[t].terminal
    BY <1>2, <1>3, <1>9 DEF RowTaken, RowInv, OwnedState, Keeps
  <2> QED BY <1>1, <1>2, <1>9, <2>1 DEF RowTaken, Passed, NotDone
<1> QED BY <1>4, <1>5, <1>6, <1>7, <1>8, <1>9 DEF RowMove

\* A hand that keeps its item still fits, if it moves to a phase that does.
LEMMA FitMoves ==
  ASSUME DaemonInv, PromptInv, NEW w \in Workers, Active(hand[w]), NEW h, Active(h),
         h.claim = hand[w].claim, \A t \in Tasks : RowMove(t),
         h.phase = "claimed" => hand[w].phase = "claimed",
         h.phase \in {"claimed", "processing"} => ~ShownDone(h.claim)',
         h.phase \in {"returned", "terminalizing", "settling"} /\ h.verdict = "done"
           => ShownDone(h.claim)',
         h.phase = "settling" /\ h.verdict \in {"none", "cancelled"}
           => Passed(h.claim)' /\ NotDone(h.claim)'
  PROVE  Fit(w, h)'
<1>1. PICK c : c = h.claim
  OBVIOUS
<1>2. /\ c \in Claim /\ c.task \in Tasks /\ w \in Up /\ c.att \in AttemptNo
      /\ Keeps(c, w) \/ Passed(c)
      /\ Keeps(c, w) => task[c.task].cur = c.att
  BY <1>1, ActiveFacts
<1>3. RowsTell(c.task) /\ RowMove(c.task) /\ StoreInv
  BY <1>2 DEF PromptInv, DaemonInv
<1>4. Keeps(c, w)' \/ Passed(c)'
  BY <1>2, <1>3, ClaimKept
<1>5. ASSUME h.phase = "claimed" PROVE task'[c.task].cur = c.att
  <2>1. hand[w].phase = "claimed" /\ hand[w].claim.task = c.task
    BY <1>1, <1>5
  <2>2. task[c.task].cur = c.att
    BY <1>1, <2>1 DEF PromptInv, Fit, Active
  <2>3. ~RowRenewed(c.task)
    BY <2>1 DEF RowRenewed
  <2> QED
    BY <1>3, <2>2, <2>3 DEF RowMove, RowStays, RowHeld, RowEnds, RowReturns, RowTaken
<1> QED
  BY <1>1, <1>4, <1>5 DEF Fit, Active

\* A hand that nobody moved still fits, if the tracker shows its run as before.
LEMMA FitStays ==
  ASSUME DaemonInv, PromptInv, NEW w \in Workers, hand'[w] = hand[w],
         \A t \in Tasks : RowMove(t),
         Active(hand[w]) =>
           (shown'[hand[w].claim.task][hand[w].claim.att] = "done"
              <=> shown[hand[w].claim.task][hand[w].claim.att] = "done")
  PROVE  Fit(w, hand[w])'
<1>1. PICK h : h = hand[w]
  OBVIOUS
<1>2. Fit(w, h)
  BY <1>1 DEF PromptInv
<1>3. CASE ~Active(h)
  BY <1>1, <1>2, <1>3 DEF Fit, Active
<1>4. CASE Active(h)
  <2>1. PICK c : c = h.claim
    OBVIOUS
  <2>2. /\ c \in Claim /\ c.task \in Tasks /\ w \in Up
        /\ Keeps(c, w) => task[c.task].cur = c.att
    BY <1>1, <1>4, <2>1, ActiveFacts
  <2>3. RowsTell(c.task) /\ RowMove(c.task) /\ StoreInv
    BY <2>2 DEF PromptInv, DaemonInv
  <2>4. Passed(c) /\ NotDone(c) => Passed(c)' /\ NotDone(c)'
    BY <2>2, <2>3, ClaimKept
  <2>5. ShownDone(c)' <=> ShownDone(c)
    BY <1>1, <1>4, <2>1 DEF ShownDone
  <2>6. Fit(w, h)'
    <3>1. h.phase \in {"claimed", "processing"} => ~ShownDone(h.claim)'
      BY <1>2, <1>4, <2>1, <2>5 DEF Fit, ShownDone
    <3>2. h.phase \in {"returned", "terminalizing", "settling"} /\ h.verdict = "done"
            => ShownDone(h.claim)'
      BY <1>2, <1>4, <2>1, <2>5 DEF Fit, ShownDone
    <3>3. h.phase = "settling" /\ h.verdict \in {"none", "cancelled"}
            => Passed(h.claim)' /\ NotDone(h.claim)'
      BY <1>2, <1>4, <2>1, <2>4 DEF Fit, Passed, NotDone
    <3> QED BY <1>1, <1>4, <3>1, <3>2, <3>3, FitMoves
  <2> QED BY <1>1, <2>6 DEF Fit, Active, Keeps, Passed, NotDone, ShownDone
<1> QED BY <1>3, <1>4

\* A daemon without an item that is not gone owns no row.
LEMMA OwnsNothing ==
  ASSUME PromptInv, NEW w \in Workers, hand[w].phase # "exited", ~Active(hand[w])
  PROVE  \A t \in Tasks : task[t].owner # w
BY DEF PromptInv, OwnersHold

\* What a step does to a hand: nothing, a move with the same item, death, a move
\* without an item by a daemon that owns no row, or a claim.
HandGoes(w) ==
  \/ hand'[w] = hand[w]
  \/ Active(hand[w]) /\ Active(hand'[w]) /\ hand'[w].claim = hand[w].claim
  \/ hand'[w] = Empty("exited")
  \/ /\ hand[w].phase # "exited" /\ \A t \in Tasks : task[t].owner # w
     /\ ~Active(hand'[w]) /\ hand'[w].claim = NoClaim
  \/ \E t \in Tasks : Take(w, t)

\* What a step does to the tracker: nothing, the row of an item in hand, or that of
\* a request.
DaemonRow(w, v) ==
  /\ Active(hand[w]) /\ hand'[w] # hand[w]
  /\ shown' = [shown EXCEPT ![hand[w].claim.task][hand[w].claim.att] = v]
  /\ UNCHANGED <<task, request>>
  /\ v = "done" => request = NoRequest /\ hand[w].phase = "processing"
  /\ \/ hand[w].phase = "processing"
     \/ Passed(hand[w].claim) /\ NotDone(hand[w].claim)

ShownMove ==
  \/ shown' = shown
  \/ \E w \in Workers, v \in Verdict : DaemonRow(w, v)
  \/ EmitRequestRow

\* The move of daemon w: its hand goes on and fits, the others stay, and the tracker
\* gets no row but of its item.
Moves(w) ==
  /\ HandGoes(w)
  /\ Fit(w, hand[w])'
  /\ \A u \in Workers : u # w => hand'[u] = hand[u]
  /\ UNCHANGED request
  /\ shown' = shown \/ \E v \in Verdict : DaemonRow(w, v)

\* Putting an item down, or dying with it.
LEMMA PutsDown ==
  ASSUME DaemonInv, NEW w \in Workers, NEW p \in {"starting", "idle", "exited"}, Put(w, Empty(p)),
         p = "exited" \/ (hand[w].phase # "exited" /\ \A t \in Tasks : task[t].owner # w)
  PROVE  HandGoes(w) /\ Fit(w, hand[w])' /\ \A u \in Workers : u # w => hand'[u] = hand[u]
<1>1. hand'[w] = Empty(p) /\ \A u \in Workers : u # w => hand'[u] = hand[u]
  BY DEF DaemonInv, Put
<1>2. Empty(p).phase = p /\ Empty(p).claim = NoClaim
  BY DEF Empty
<1>3. ~Active(Empty(p))
  BY <1>2 DEF Active, InFlight
<1>4. PICK h : h = Empty(p)
  OBVIOUS
<1>5. Fit(w, hand[w])'
  BY <1>1, <1>2, <1>3, <1>4 DEF Fit, Active
<1>6. HandGoes(w)
  BY <1>1, <1>2, <1>3 DEF HandGoes
<1> QED BY <1>1, <1>5, <1>6

\* A move of the hand with the item in it.
LEMMA Carries ==
  ASSUME DaemonInv, PromptInv, NEW w \in Workers, NEW h, Put(w, h), Active(hand[w]), Active(h),
         h.claim = hand[w].claim, \A t \in Tasks : RowMove(t),
         h.phase = "claimed" => hand[w].phase = "claimed",
         h.phase \in {"claimed", "processing"} => ~ShownDone(h.claim)',
         h.phase \in {"returned", "terminalizing", "settling"} /\ h.verdict = "done"
           => ShownDone(h.claim)',
         h.phase = "settling" /\ h.verdict \in {"none", "cancelled"}
           => Passed(h.claim)' /\ NotDone(h.claim)'
  PROVE  HandGoes(w) /\ Fit(w, hand[w])' /\ \A u \in Workers : u # w => hand'[u] = hand[u]
<1>1. hand'[w] = h /\ \A u \in Workers : u # w => hand'[u] = hand[u]
  BY DEF DaemonInv, Put
<1>2. Fit(w, h)'
  BY FitMoves
<1>3. Fit(w, hand[w])'
  BY <1>1, <1>2 DEF Fit, Active, Keeps, Passed, NotDone, ShownDone
<1>4. HandGoes(w)
  BY <1>1 DEF HandGoes
<1> QED BY <1>1, <1>3, <1>4

\* The claim loop, but for a claim.
LEMMA StartGoes ==
  ASSUME DaemonInv, PromptInv, NEW w \in Workers, Start(w), \A t \in Tasks : RowMove(t)
  PROVE  Moves(w)
<1>0. hand \in [Workers -> Hand] /\ hand[w] \in Hand /\ hand[w].phase = "claimed"
      /\ shown' = shown /\ request' = request
  BY DEF DaemonInv, HandOK, Start
<1>1. CASE Put(w, Empty("exited"))
  BY <1>0, <1>1, PutsDown DEF Moves
<1>2. CASE Enter(w, "processing")
  <2> DEFINE h == [hand[w] EXCEPT !.phase = "processing"]
  <2>1. h.phase = "processing" /\ h.claim = hand[w].claim
    BY <1>0 DEF Hand
  <2>2. Put(w, h)
    BY <1>0, <1>2 DEF Enter, Put
  <2>3. PICK g : g = h
    OBVIOUS
  <2> HIDE DEF h
  <2>4. PICK c : c = hand[w].claim
    OBVIOUS
  <2>5. Active(hand[w]) /\ Active(g)
    BY <1>0, <2>1, <2>3 DEF Active, InFlight
  <2>6. ~ShownDone(c)
    BY <1>0, <2>4, <2>5 DEF PromptInv, Fit
  <2>7. ~ShownDone(g.claim)'
    BY <1>0, <2>1, <2>3, <2>4, <2>6 DEF ShownDone
  <2> QED BY <1>0, <2>1, <2>2, <2>3, <2>5, <2>7, Carries DEF Moves
<1> QED BY <1>1, <1>2 DEF Start

LEMMA FinishGoes ==
  ASSUME ~MayStall, DaemonInv, PromptInv, NEW w \in Workers, NEW v \in {"done", "failed"},
         Finish(w, v), \A t \in Tasks : RowMove(t)
  PROVE  Moves(w)
<1> DEFINE h == [hand[w] EXCEPT !.phase = "returned", !.verdict = v, !.token = TRUE]
<1>0. hand \in [Workers -> Hand] /\ hand[w] \in Hand /\ hand[w].phase = "processing"
      /\ UNCHANGED <<task, request>> /\ request = NoRequest /\ Active(hand[w])
  BY DEF DaemonInv, HandOK, Finish, HandlerTime, storeVars, Active, InFlight
<1>1. h.phase = "returned" /\ h.claim = hand[w].claim /\ h.verdict = v
  BY <1>0 DEF Hand
<1>2. Put(w, h) /\ Show(hand[w].claim, v)
  BY DEF Finish
<1>3. PICK g : g = h
  OBVIOUS
<1> HIDE DEF h
<1>4. PICK c : c = hand[w].claim
  OBVIOUS
<1>5. c.task \in Tasks /\ c.att \in AttemptNo /\ Active(g)
  BY <1>0, <1>1, <1>3, <1>4, ActiveFacts DEF Active, InFlight
<1>6. shown' = [shown EXCEPT ![c.task][c.att] = v]
  BY <1>2, <1>4 DEF Show
<1>7. shown'[c.task][c.att] = v
  BY <1>5, <1>6 DEF DaemonInv, ShownOK
<1>8. g.verdict = "done" => ShownDone(g.claim)'
  BY <1>1, <1>3, <1>4, <1>7 DEF ShownDone
<1>9. HandGoes(w) /\ Fit(w, hand[w])' /\ \A u \in Workers : u # w => hand'[u] = hand[u]
  BY <1>0, <1>1, <1>2, <1>3, <1>5, <1>8, Carries
<1>10. hand'[w] # hand[w]
  BY <1>0, <1>1, <1>2 DEF Put
<1>11. v \in Verdict /\ DaemonRow(w, v)
  BY <1>0, <1>4, <1>6, <1>10 DEF DaemonRow, Verdict
<1> QED BY <1>0, <1>9, <1>11 DEF Moves

LEMMA UnwindGoes ==
  ASSUME DaemonInv, PromptInv, NEW w \in Workers, Unwind(w), \A t \in Tasks : RowMove(t)
  PROVE  Moves(w)
<1> DEFINE k == hand[w].abort = "lease"
           h == [hand[w] EXCEPT !.phase = "returned", !.verdict = "cancelled", !.token = k]
<1>0. hand \in [Workers -> Hand] /\ hand[w] \in Hand /\ hand[w].phase = "processing"
      /\ UNCHANGED <<task, request>> /\ Active(hand[w])
  BY DEF DaemonInv, HandOK, Unwind, storeVars, Active, InFlight
<1>1. Put(w, h) /\ (Show(hand[w].claim, "cancelled") \/ shown' = shown)
  BY DEF Unwind
<1> HIDE DEF k
<1>2. h.phase = "returned" /\ h.claim = hand[w].claim /\ h.verdict = "cancelled"
  BY <1>0 DEF Hand
<1> HIDE DEF h
<1>3. PICK g : g = h
  OBVIOUS
<1>4. Active(g)
  BY <1>2, <1>3 DEF Active, InFlight
<1>5. HandGoes(w) /\ Fit(w, hand[w])' /\ \A u \in Workers : u # w => hand'[u] = hand[u]
  BY <1>0, <1>1, <1>2, <1>3, <1>4, Carries
<1>6. hand'[w] # hand[w]
  BY <1>0, <1>1, <1>2 DEF Put
<1>7. shown' = shown \/ DaemonRow(w, "cancelled")
  BY <1>0, <1>1, <1>6 DEF DaemonRow, Show
<1> QED BY <1>0, <1>5, <1>7 DEF Moves, Verdict

LEMMA DecideGoes ==
  ASSUME DaemonInv, PromptInv, NEW w \in Workers, Decide(w), \A t \in Tasks : RowMove(t)
  PROVE  Moves(w)
<1>0. hand \in [Workers -> Hand] /\ hand[w] \in Hand /\ hand[w].phase = "returned"
      /\ shown' = shown /\ UNCHANGED <<task, request>> /\ Active(hand[w])
  BY DEF DaemonInv, HandOK, Decide, storeVars, Active, InFlight
<1>1. PICK v : /\ Put(w, [hand[w] EXCEPT !.phase = "terminalizing", !.verdict = v])
               /\ v = "cancelled" \/ v = hand[w].verdict
  BY <1>0 DEF Decide
<1> DEFINE h == [hand[w] EXCEPT !.phase = "terminalizing", !.verdict = v]
<1>2. h.phase = "terminalizing" /\ h.claim = hand[w].claim /\ h.verdict = v
  BY <1>0 DEF Hand
<1>3. Put(w, h)
  BY <1>1
<1> HIDE DEF h
<1>4. PICK g : g = h
  OBVIOUS
<1>5. PICK c : c = hand[w].claim
  OBVIOUS
<1>6. Active(g)
  BY <1>2, <1>4 DEF Active, InFlight
<1>7. v = "done" => ShownDone(c)
  BY <1>0, <1>1, <1>5 DEF PromptInv, Fit
<1>8. g.verdict = "done" => ShownDone(g.claim)'
  BY <1>0, <1>2, <1>4, <1>5, <1>7 DEF ShownDone
<1> QED BY <1>0, <1>2, <1>3, <1>4, <1>6, <1>8, Carries DEF Moves

\* An item that has been let go is not the row of its daemon any more, so that the
\* daemon owns nothing.
LEMMA ConcludeGoes ==
  ASSUME DaemonInv, PromptInv, NEW w \in Workers, Active(hand[w]), Conclude(w)
  PROVE  HandGoes(w) /\ Fit(w, hand[w])' /\ \A u \in Workers : u # w => hand'[u] = hand[u]
<1>1. hand[w].phase # "exited" /\ hand[w].claim.worker = w /\ hand[w].claim.task \in Tasks
  BY ActiveFacts DEF Active, InFlight
<1>2. CASE ~HandedOff(hand[w].claim)
  BY <1>2, PutsDown DEF Conclude
<1>3. CASE HandedOff(hand[w].claim)
  <2>1. task[hand[w].claim.task].owner # w
    <3>1. RowInv(hand[w].claim.task)
      BY <1>1, RowFacts DEF DaemonInv
    <3> QED
      BY <1>1, <1>3, <3>1, StoreAssumption DEF HandedOff, RowInv, OwnedState, Ended
  <2>2. \A t \in Tasks : task[t].owner # w
    BY <1>1, <2>1 DEF PromptInv, OwnersHold
  <2> QED BY <1>1, <1>3, <2>2, PutsDown DEF Conclude
<1> QED BY <1>2, <1>3

LEMMA TerminalizeGoes ==
  ASSUME DaemonInv, PromptInv, NEW w \in Workers, Terminalize(w), \A t \in Tasks : RowMove(t)
  PROVE  Moves(w)
<1>0. hand \in [Workers -> Hand] /\ hand[w] \in Hand /\ hand[w].phase = "terminalizing"
      /\ shown' = shown /\ UNCHANGED request /\ Active(hand[w])
  BY DEF DaemonInv, HandOK, Terminalize, Active, InFlight
<1>1. CASE Conclude(w)
  BY <1>0, <1>1, ConcludeGoes DEF Moves
<1>2. CASE /\ Enter(w, "settling")
           /\ \/ MarkItem(hand[w].claim, hand[w].verdict)
              \/ hand[w].verdict # "cancelled"
  <2> DEFINE h == [hand[w] EXCEPT !.phase = "settling"]
  <2>1. h.phase = "settling" /\ h.claim = hand[w].claim /\ h.verdict = hand[w].verdict
    BY <1>0 DEF Hand
  <2>2. Put(w, h)
    BY <1>0, <1>2 DEF Enter, Put
  <2> HIDE DEF h
  <2>3. PICK g : g = h
    OBVIOUS
  <2>4. PICK c : c = hand[w].claim
    OBVIOUS
  <2>5. /\ c.task \in Tasks /\ c.worker = w /\ Active(g)
        /\ Keeps(c, w) => task[c.task].cur = c.att
    BY <1>0, <2>1, <2>3, <2>4, ActiveFacts DEF Active, InFlight
  <2>6. g.verdict = "done" => ShownDone(g.claim)'
    <3>1. hand[w].verdict = "done" => ShownDone(c)
      BY <1>0, <2>4 DEF PromptInv, Fit
    <3> QED BY <1>0, <2>1, <2>3, <2>4, <3>1 DEF ShownDone
  <2>7. g.verdict # "none"
    BY <1>0, <2>1, <2>3 DEF DaemonInv, HandOK
  <2>8. ASSUME g.verdict = "cancelled" PROVE Passed(c)' /\ NotDone(c)'
    <3>1. MarkItem(c, "cancelled")
      BY <1>2, <2>1, <2>3, <2>4, <2>8
    <3>2. task[c.task].cur = c.att
      BY <2>5, <3>1 DEF MarkItem, LeaseHolds, Keeps
    <3> DEFINE row == Closed(task[c.task], "cancelled")
    <3>3. task[c.task] \in TaskRow /\ StoreTypeOK
      BY <2>5, RowFacts DEF DaemonInv, StoreInv
    <3>4. row.state = "cancelled" /\ row.terminal /\ row.cur = task[c.task].cur
      BY <3>3, ClosedRow DEF TaskState
    <3>5. Write(c.task, row)
      BY <3>1 DEF MarkItem
    <3> HIDE DEF row
    <3>6. task'[c.task] = row
      BY <2>5, <3>3, <3>5, OtherRows
    <3> QED BY <3>2, <3>4, <3>6 DEF Passed, NotDone
  <2>9. g.verdict = "cancelled" => Passed(g.claim)' /\ NotDone(g.claim)'
    BY <2>1, <2>3, <2>4, <2>8 DEF Passed, NotDone
  <2> QED BY <1>0, <2>1, <2>2, <2>3, <2>5, <2>6, <2>7, <2>9, Carries DEF Moves
<1> QED BY <1>1, <1>2 DEF Terminalize

LEMMA UncertainGoes ==
  ASSUME DaemonInv, PromptInv, NEW w \in Workers, TerminalizeUncertain(w),
         \A t \in Tasks : RowMove(t)
  PROVE  Moves(w)
<1>0. hand \in [Workers -> Hand] /\ hand[w] \in Hand /\ hand[w].phase = "terminalizing"
      /\ shown' = shown /\ UNCHANGED request /\ Active(hand[w])
  BY DEF DaemonInv, HandOK, TerminalizeUncertain, Active, InFlight
<1> DEFINE h == [hand[w] EXCEPT !.phase = "settling", !.verdict = "none"]
<1>1. h.phase = "settling" /\ h.claim = hand[w].claim /\ h.verdict = "none"
  BY <1>0 DEF Hand
<1>2. Put(w, h)
  BY DEF TerminalizeUncertain
<1> HIDE DEF h
<1>3. PICK g : g = h
  OBVIOUS
<1>4. PICK c : c = hand[w].claim
  OBVIOUS
<1>5. Active(g) /\ c.task \in Tasks
  BY <1>0, <1>1, <1>3, <1>4, ActiveFacts DEF Active, InFlight
<1>6. MarkBlockedUncertain(c)
  BY <1>4 DEF TerminalizeUncertain
<1>7. Passed(c)' /\ NotDone(c)'
  <2> DEFINE row == Closed(task[c.task], "blocked")
  <2>1. task[c.task] \in TaskRow /\ StoreTypeOK
    BY <1>5, RowFacts DEF DaemonInv, StoreInv
  <2>2. row.state = "blocked" /\ row.terminal /\ row.cur = task[c.task].cur
    BY <2>1, ClosedRow DEF TaskState
  <2>3. Write(c.task, row) /\ task[c.task].cur = c.att
    BY <1>6 DEF MarkBlockedUncertain, FenceHolds
  <2> HIDE DEF row
  <2>4. task'[c.task] = row
    BY <1>5, <2>1, <2>3, OtherRows
  <2> QED BY <2>2, <2>3, <2>4 DEF Passed, NotDone
<1>8. Passed(g.claim)' /\ NotDone(g.claim)'
  BY <1>1, <1>3, <1>4, <1>7 DEF Passed, NotDone
<1> QED BY <1>0, <1>1, <1>2, <1>3, <1>5, <1>8, Carries DEF Moves

LEMMA SettleGoes ==
  ASSUME DaemonInv, PromptInv, NEW w \in Workers, Settle(w), \A t \in Tasks : RowMove(t)
  PROVE  Moves(w)
<1>0. hand \in [Workers -> Hand] /\ hand[w] \in Hand /\ hand[w].phase = "settling"
      /\ UNCHANGED <<task, request>> /\ Active(hand[w]) /\ Conclude(w)
  BY DEF DaemonInv, HandOK, Settle, CloseItem, storeVars, Active, InFlight
<1>1. HandGoes(w) /\ Fit(w, hand[w])' /\ \A u \in Workers : u # w => hand'[u] = hand[u]
  BY <1>0, ConcludeGoes
<1>2. hand'[w] # hand[w]
  BY <1>0 DEF Conclude, Put, Empty
<1>3. ASSUME NEW v \in {"failed", "cancelled"}, Show(hand[w].claim, v),
             hand[w].verdict \in {"none", "cancelled"}
      PROVE  DaemonRow(w, v)
  <2>1. Passed(hand[w].claim) /\ NotDone(hand[w].claim)
    BY <1>0, <1>3 DEF PromptInv, Fit
  <2> QED BY <1>0, <1>2, <1>3, <2>1 DEF DaemonRow, Show
<1>4. shown' = shown \/ \E v \in {"failed", "cancelled"} : DaemonRow(w, v)
  BY <1>3 DEF Settle, CloseItem
<1> QED BY <1>0, <1>1, <1>4 DEF Moves, Verdict

\* A claim: the row was queued, so its run is not shown done.
LEMMA TakeGoes ==
  ASSUME DaemonInv, PromptInv, NEW w \in Workers, NEW t \in Tasks, Take(w, t)
  PROVE  Moves(w)
<1> DEFINE d == [task |-> t, att |-> task[t].cur, worker |-> w, gen |-> task[t].gen + 1]
           row == [task[t] EXCEPT !.state = "claimed", !.owner = w, !.lease = "live",
                                  !.gen = @ + 1]
           h == [Empty("claimed") EXCEPT !.claim = d]
<1>0. /\ hand \in [Workers -> Hand] /\ StoreTypeOK /\ task[t] \in TaskRow
      /\ shown' = shown /\ UNCHANGED request /\ task[t].state = "queued"
  BY RowFacts DEF DaemonInv, StoreInv, Take, ClaimNext
<1>1. Put(w, h) /\ Write(t, row)
  BY DEF Take, ClaimNext
<1>2. /\ row.owner = w /\ row.gen = task[t].gen + 1 /\ row.cur = task[t].cur
  BY <1>0 DEF TaskRow
<1>3. PICK c : c = d
  OBVIOUS
<1>4. c.task = t /\ c.att = task[t].cur /\ c.gen = task[t].gen + 1
  BY <1>3
<1> HIDE DEF d, row
<1>5. h.phase = "claimed" /\ h.claim = c
  BY <1>3 DEF Empty
<1> HIDE DEF h
<1>6. PICK g : g = h
  OBVIOUS
<1>7. hand'[w] = g /\ \A u \in Workers : u # w => hand'[u] = hand[u]
  BY <1>0, <1>1, <1>6 DEF Put
<1>8. task'[t] = row
  BY <1>0, <1>1, OtherRows
<1>9. Keeps(c, w)' /\ task'[c.task].cur = c.att
  BY <1>2, <1>4, <1>8 DEF Keeps
<1>10. ~ShownDone(c)'
  BY <1>0, <1>4 DEF ShownDone, PromptInv, RowsTell
<1>11. Fit(w, hand[w])'
  BY <1>5, <1>6, <1>7, <1>9, <1>10 DEF Fit, Active, Keeps, Passed, NotDone, ShownDone
<1> QED BY <1>0, <1>7, <1>11 DEF Moves, HandGoes

LEMMA ClaimLoopGoes ==
  ASSUME ~MayStall, DaemonInv, PromptInv, NEW w \in Workers, ClaimLoop(w),
         \A t \in Tasks : RowMove(t)
  PROVE  Moves(w)
BY TakeGoes, StartGoes, FinishGoes, UnwindGoes, DecideGoes, TerminalizeGoes, UncertainGoes,
   SettleGoes DEF ClaimLoop

\* Aborting the run in hand.
LEMMA AbortGoes ==
  ASSUME DaemonInv, PromptInv, NEW w \in Workers, NEW a \in {"lease", "cancel"},
         hand[w].phase \in {"processing", "returned"}, hand' = [hand EXCEPT ![w].abort = a],
         UNCHANGED <<shown, request>>, \A t \in Tasks : RowMove(t)
  PROVE  Moves(w)
<1> DEFINE h == [hand[w] EXCEPT !.abort = a]
<1>0. hand \in [Workers -> Hand] /\ hand[w] \in Hand
  BY DEF DaemonInv, HandOK
<1>1. h.phase = hand[w].phase /\ h.claim = hand[w].claim /\ h.verdict = hand[w].verdict
  BY <1>0 DEF Hand
<1>2. Put(w, h)
  BY <1>0 DEF Put
<1> HIDE DEF h
<1>3. PICK g : g = h
  OBVIOUS
<1>4. PICK c : c = hand[w].claim
  OBVIOUS
<1>5. Active(hand[w]) /\ Active(g)
  BY <1>1, <1>3 DEF Active, InFlight
<1>6. /\ hand[w].phase = "processing" => ~ShownDone(c)
      /\ hand[w].phase = "returned" /\ hand[w].verdict = "done" => ShownDone(c)
  BY <1>4, <1>5 DEF PromptInv, Fit
<1>7. /\ g.phase = "processing" => ~ShownDone(g.claim)'
      /\ g.phase = "returned" /\ g.verdict = "done" => ShownDone(g.claim)'
  BY <1>1, <1>3, <1>4, <1>6 DEF ShownDone
<1> QED BY <1>1, <1>2, <1>3, <1>5, <1>7, Carries DEF Moves

\* A hand that stays, where the tracker does too.
LEMMA RestGoes ==
  ASSUME DaemonInv, PromptInv, NEW w \in Workers, hand' = hand,
         UNCHANGED <<shown, request>>, \A t \in Tasks : RowMove(t)
  PROVE  Moves(w)
<1>1. Fit(w, hand[w])'
  BY FitStays
<1> QED BY <1>1 DEF Moves, HandGoes

\* Entering a phase without an item.
LEMMA EntersIdle ==
  ASSUME DaemonInv, PromptInv, NEW w \in Workers, hand[w].phase \in {"off", "starting", "idle"},
         NEW p \in {"starting", "idle"}, Enter(w, p), UNCHANGED <<shown, request>>
  PROVE  Moves(w)
<1> DEFINE h == [hand[w] EXCEPT !.phase = p]
<1>0. hand \in [Workers -> Hand] /\ hand[w] \in Hand
  BY DEF DaemonInv, HandOK
<1>1. h.phase = p /\ h.claim = hand[w].claim
  BY <1>0 DEF Hand
<1>2. hand'[w] = h /\ \A u \in Workers : u # w => hand'[u] = hand[u]
  BY <1>0 DEF Enter
<1> HIDE DEF h
<1>3. ~Active(hand[w]) /\ ~Active(h)
  BY <1>1 DEF Active, InFlight
<1>4. hand[w].claim = NoClaim
  BY <1>3 DEF PromptInv, Fit
<1>5. \A t \in Tasks : task[t].owner # w
  BY <1>3, OwnsNothing
<1>6. HandGoes(w)
  BY <1>1, <1>2, <1>3, <1>4, <1>5 DEF HandGoes
<1>7. PICK g : g = h
  OBVIOUS
<1>8. Fit(w, hand[w])'
  BY <1>1, <1>2, <1>3, <1>4, <1>7 DEF Fit, Active
<1> QED BY <1>2, <1>6, <1>8 DEF Moves

LEMMA BackgroundGoes ==
  ASSUME DaemonInv, PromptInv, NEW w \in Workers, Spawn(w) \/ Crash(w) \/ Background(w),
         \A t \in Tasks : RowMove(t)
  PROVE  Moves(w)
<1>1. ASSUME Spawn(w) PROVE Moves(w)
  BY <1>1, EntersIdle DEF Spawn
<1>2. ASSUME Crash(w) PROVE Moves(w)
  BY <1>2, PutsDown DEF Crash, Moves
<1>3. ASSUME NEW alive, Recover(w, alive) PROVE Moves(w)
  BY <1>3, EntersIdle DEF Recover
<1>4. ASSUME Heartbeat(w) PROVE Moves(w)
  <2>1. UNCHANGED <<shown, request>>
    BY <1>4 DEF Heartbeat
  <2>2. \/ hand' = hand
        \/ /\ hand[w].phase \in {"processing", "returned"}
           /\ hand' = [hand EXCEPT ![w].abort = "lease"]
    BY <1>4 DEF Heartbeat
  <2> QED BY <2>1, <2>2, AbortGoes, RestGoes
<1>5. ASSUME NEW t \in Tasks, ConsumeCancel(w, t) PROVE Moves(w)
  <2>1. UNCHANGED <<shown, request>>
    BY <1>5 DEF ConsumeCancel
  <2>2. \/ hand' = hand
        \/ /\ hand[w].phase \in {"processing", "returned"}
           /\ hand' = [hand EXCEPT ![w].abort = "cancel"]
    BY <1>5 DEF ConsumeCancel
  <2> QED BY <2>1, <2>2, AbortGoes, RestGoes
<1> QED BY <1>1, <1>2, <1>3, <1>4, <1>5 DEF Background

\* In every step one daemon moves, or none does.
LEMMA StepMoves ==
  ASSUME ~MayStall, DaemonInv, PromptInv, [DaemonNext]_vars, \A t \in Tasks : RowMove(t)
  PROVE  \/ \E w \in Workers : Moves(w)
         \/ UNCHANGED <<hand, shown, request>>
         \/ hand' = hand /\ EmitRequestRow
         \/ /\ UNCHANGED <<hand, shown>>
            /\ \/ \E t \in Tasks : AskCancelQueued(t) \/ AskCancelRunning(t) \/ AskSweep(t)
               \/ request # NoRequest /\ request' = NoRequest
               \/ request # NoRequest /\ \E s \in {"probed", "marked"} :
                                           request' = [request EXCEPT !.step = s]
<1>1. CASE UNCHANGED vars
  BY <1>1 DEF vars, daemonVars
<1>2. ASSUME NEW w \in Workers, Spawn(w) \/ Crash(w) \/ ClaimLoop(w) \/ Background(w)
      PROVE  Moves(w)
  BY <1>2, ClaimLoopGoes, BackgroundGoes
<1>3. ASSUME NEW t \in Tasks, NewTask(t) \/ RetryTask(t) \/ LeaseRunsOut(t)
      PROVE  UNCHANGED <<hand, shown, request>>
  BY <1>3 DEF NewTask, RetryTask, LeaseRunsOut, daemonVars
<1>4. ASSUME NEW t \in Tasks, AskCancelQueued(t) \/ AskCancelRunning(t) \/ AskSweep(t)
      PROVE  UNCHANGED <<hand, shown>>
  BY <1>4 DEF AskCancelQueued, AskCancelRunning, AskSweep, Read
<1>5. ASSUME CancelQueued \/ CancelRunning \/ SendCancel \/ ProbeDaemons(Up) \/ SweepFail
      PROVE  /\ UNCHANGED <<hand, shown>>
             /\ request # NoRequest
             /\ \/ request' = NoRequest
                \/ \E s \in {"probed", "marked"} : request' = [request EXCEPT !.step = s]
  <2>1. UNCHANGED <<hand, shown>> /\ request # NoRequest
    BY <1>5 DEF CancelQueued, CancelRunning, SendCancel, ProbeDaemons, SweepFail, Serving
  <2>2. \/ request' = NoRequest
        \/ \E s \in {"probed", "marked"} : request' = [request EXCEPT !.step = s]
    BY <1>5 DEF CancelQueued, CancelRunning, SendCancel, ProbeDaemons, SweepFail, Mark
  <2> QED BY <2>1, <2>2
<1>6. ASSUME EmitRequestRow PROVE hand' = hand
  BY <1>6 DEF EmitRequestRow, CloseRequest
<1> QED BY <1>1, <1>2, <1>3, <1>4, <1>5, <1>6 DEF DaemonNext, Serve

-----------------------------------------------------------------------------
(* The invariant is preserved.                                             *)

\* A row of the tracker for the item of one daemon is none of another's.
LEMMA OthersShown ==
  ASSUME DaemonInv, PromptInv, NEW w \in Workers, NEW u \in Workers, NEW v \in Verdict,
         u # w, Active(hand[u]), DaemonRow(w, v)
  PROVE  shown'[hand[u].claim.task][hand[u].claim.att]
           = shown[hand[u].claim.task][hand[u].claim.att]
<1> DEFINE c == hand[u].claim
           d == hand[w].claim
<1>1. Active(hand[w])
  BY DEF DaemonRow
<1>2. c.task \in Tasks /\ c.att \in AttemptNo /\ d.task \in Tasks /\ d.att \in AttemptNo
  BY <1>1, ActiveFacts
<1>3. c.task # d.task \/ c.att # d.att
  BY <1>1 DEF PromptInv, HeldApart
<1>4. shown' = [shown EXCEPT ![d.task][d.att] = v]
  BY DEF DaemonRow
<1> HIDE DEF c, d
<1>5. shown'[c.task][c.att] = shown[c.task][c.att]
  BY <1>2, <1>3, <1>4 DEF DaemonInv, ShownOK
<1> QED BY <1>5 DEF c

\* The row a request writes is not the row of a finished run.
LEMMA RequestShown ==
  ASSUME DaemonInv, PromptInv, EmitRequestRow, NEW t \in Tasks, NEW n \in AttemptNo
  PROVE  /\ shown'[t][n] = "done" <=> shown[t][n] = "done"
         /\ shown'[t][n] # shown[t][n] => n <= task[t].run
<1>1. request # NoRequest /\ request.op # "cancel-running"
  BY DEF EmitRequestRow, CloseRequest, Serving
<1>2. /\ request.task \in Tasks /\ request.att \in AttemptNo
      /\ request.att <= task[request.task].run
      /\ shown[request.task][request.att] # "done"
  BY <1>1 DEF DaemonInv, RequestOK, Request, PromptInv, Asked
<1>3. PICK v \in {"failed", "cancelled"} : shown' = [shown EXCEPT ![request.task][request.att] = v]
  BY DEF EmitRequestRow, CloseRequest
<1> QED BY <1>2, <1>3 DEF DaemonInv, ShownOK

\* The hands fit after the step.
LEMMA HandsFit ==
  ASSUME ~MayStall, DaemonInv, PromptInv, [DaemonNext]_vars
  PROVE  \A u \in Workers : Fit(u, hand[u])' /\ HandGoes(u)
<1>0. \A t \in Tasks : RowMove(t)
  BY RowsMove
<1>1. ASSUME NEW w \in Workers, Moves(w), NEW u \in Workers
      PROVE  Fit(u, hand[u])' /\ HandGoes(u)
  <2>1. CASE u = w
    BY <1>1, <2>1 DEF Moves
  <2>2. CASE u # w
    <3>1. hand'[u] = hand[u] /\ (shown' = shown \/ \E v \in Verdict : DaemonRow(w, v))
      BY <1>1, <2>2 DEF Moves
    <3>2. Active(hand[u]) => shown'[hand[u].claim.task][hand[u].claim.att]
                               = shown[hand[u].claim.task][hand[u].claim.att]
      BY <2>2, <3>1, OthersShown
    <3> QED BY <1>0, <3>1, <3>2, FitStays DEF HandGoes
  <2> QED BY <2>1, <2>2
<1>2. ASSUME hand' = hand, shown' = shown, NEW u \in Workers
      PROVE  Fit(u, hand[u])' /\ HandGoes(u)
  BY <1>0, <1>2, FitStays DEF HandGoes
<1>3. ASSUME hand' = hand, EmitRequestRow, NEW u \in Workers
      PROVE  Fit(u, hand[u])' /\ HandGoes(u)
  <2>1. Active(hand[u]) => hand[u].claim.task \in Tasks /\ hand[u].claim.att \in AttemptNo
    BY ActiveFacts
  <2>2. Active(hand[u]) =>
           (shown'[hand[u].claim.task][hand[u].claim.att] = "done"
              <=> shown[hand[u].claim.task][hand[u].claim.att] = "done")
    BY <1>3, <2>1, RequestShown
  <2> QED BY <1>0, <1>3, <2>2, FitStays DEF HandGoes
<1> QED BY <1>0, <1>1, <1>2, <1>3, StepMoves

\* The tracker's rows are those of an item in hand, or of a request.
LEMMA ShownMoves ==
  ASSUME ~MayStall, DaemonInv, PromptInv, [DaemonNext]_vars
  PROVE  ShownMove
<1>1. \A t \in Tasks : RowMove(t)
  BY RowsMove
<1> QED BY <1>1, StepMoves DEF ShownMove, Moves

\* Owners keep holding what they own.
LEMMA OwnersStep ==
  ASSUME ~MayStall, DaemonInv, PromptInv, [DaemonNext]_vars, NEW t \in Tasks
  PROVE  OwnersHold(t)'
<1>0. RowMove(t) /\ RowInv(t) /\ task[t] \in TaskRow /\ OwnersHold(t)
      /\ \A w \in Workers : HandGoes(w)
  BY RowsMove, HandsFit, RowFacts DEF DaemonInv, PromptInv
<1>1. ASSUME NEW w \in Workers, task'[t].owner = w, ~RowTaken(t)
      PROVE  /\ task[t].owner = w /\ task'[t].gen = task[t].gen
             /\ task'[t].lease = "expired" => task[t].lease = "expired" \/ task[t].owner \notin Up
  BY <1>0, <1>1, StoreAssumption DEF RowMove, RowStays, RowHeld, RowEnds, RowReturns, RowRenewed
<1>2. ASSUME NEW w \in Workers, task[t].owner = w,
             hand[w].phase = "exited" \/
               (Active(hand[w]) /\ hand[w].claim.task = t /\ hand[w].claim.gen = task[t].gen)
      PROVE  hand'[w].phase = "exited" \/
               (Active(hand'[w]) /\ hand'[w].claim.task = t /\ hand'[w].claim.gen = task[t].gen)
  <2>1. ~\E s \in Tasks : Take(w, s)
    BY <1>2 DEF Take, Active, InFlight
  <2>2. Empty("exited").phase = "exited"
    BY DEF Empty
  <2>3. CASE hand[w].phase = "exited"
    BY <1>0, <1>2, <2>1, <2>2, <2>3 DEF HandGoes, Active, InFlight
  <2>4. CASE Active(hand[w])
    BY <1>0, <1>2, <2>1, <2>2, <2>4 DEF HandGoes, Active, InFlight
  <2> QED BY <1>2, <2>3, <2>4
<1>3. ASSUME NEW w \in Workers, task'[t].owner = w
      PROVE  \/ hand'[w].phase = "exited"
             \/ /\ Active(hand'[w]) /\ hand'[w].claim.task = t
                /\ hand'[w].claim.gen = task'[t].gen
  <2>1. CASE RowTaken(t)
    BY <1>3, <2>1 DEF RowTaken
  <2>2. CASE ~RowTaken(t)
    BY <1>0, <1>1, <1>2, <1>3, <2>2 DEF OwnersHold
  <2> QED BY <2>1, <2>2
<1>4. ASSUME task'[t].lease = "expired" PROVE task'[t].owner \notin Up'
  <2> SUFFICES ASSUME NEW w \in Workers, task'[t].owner = w, hand'[w].phase \notin {"off", "exited"}
               PROVE  FALSE
    BY DEF Up
  <2>1. ~RowTaken(t)
    BY <1>4 DEF RowTaken
  <2>2. task[t].owner = w /\ w \notin Up
    BY <1>0, <1>1, <1>4, <2>1 DEF OwnersHold
  <2>3. hand[w].phase = "exited"
    BY <1>0, <2>2 DEF OwnersHold, Up, Active, InFlight
  <2>4. ~Active(hand[w]) /\ ~\E s \in Tasks : Take(w, s)
    BY <2>3 DEF Active, InFlight, Take
  <2>5. hand'[w] = hand[w] \/ hand'[w] = Empty("exited")
    BY <1>0, <2>3, <2>4 DEF HandGoes
  <2> QED BY <2>3, <2>5 DEF Empty
<1> QED BY <1>3, <1>4 DEF OwnersHold, Active

\* The tracker keeps telling of the attempts what the store does.
LEMMA RowsTellStep ==
  ASSUME ~MayStall, DaemonInv, PromptInv, [DaemonNext]_vars, NEW t \in Tasks
  PROVE  RowsTell(t)'
<1>0. /\ RowMove(t) /\ RowInv(t) /\ task[t] \in TaskRow /\ RowsTell(t) /\ ShownMove
      /\ task[t].cur \in Nat /\ MaxAttempt \in Nat
  BY RowsMove, ShownMoves, RowFacts, StoreAssumption DEF DaemonInv, PromptInv, TaskRow
<1>1. CASE shown' = shown
  <2>1. CASE RowStays(t)
    BY <1>0, <1>1, <2>1 DEF RowStays, RowsTell
  <2>2. CASE RowHeld(t) \/ RowTaken(t)
    BY <1>0, <1>1, <2>2 DEF RowHeld, RowTaken, RowsTell, OwnedState
  <2>3. CASE RowEnds(t)
    BY <1>0, <1>1, <2>3 DEF RowEnds, RowsTell, Ended
  <2>4. CASE RowReturns(t)
    BY <1>0, <1>1, <2>4 DEF RowReturns, RowsTell
  <2>5. CASE RowRenewed(t)
    <3>1. /\ task'[t].run = task'[t].cur /\ task'[t].state = "queued"
          /\ task'[t].cur \in AttemptNo /\ task'[t].cur = task[t].run + 1
      BY <2>5 DEF RowRenewed
    <3>2. \A n \in AttemptNo : n > task[t].run => shown'[t][n] = "none"
      BY <1>0, <1>1 DEF RowsTell
    <3>3. task[t].run \in Nat /\ \A n \in AttemptNo : n \in Nat
      BY <1>0 DEF RowsTell, AttemptNo
    <3>4. shown'[t][task'[t].cur] = "none"
      BY <3>1, <3>2, <3>3
    <3>5. \A n \in AttemptNo : n > task'[t].run => shown'[t][n] = "none"
      BY <3>1, <3>2, <3>3
    <3> QED BY <3>1, <3>4, <3>5 DEF RowsTell
  <2> QED BY <1>0, <2>1, <2>2, <2>3, <2>4, <2>5 DEF RowMove
<1>2. ASSUME task'[t] = task[t],
             \A n \in AttemptNo : n > task[t].run => shown'[t][n] = "none",
             task[t].state \in {"queued", "waiting_dependencies"} => shown'[t][task[t].cur] # "done",
             task[t].state = "done" => shown'[t][task[t].cur] = "done"
      PROVE  RowsTell(t)'
  BY <1>0, <1>2 DEF RowsTell
<1>3. ASSUME NEW w \in Workers, NEW v \in Verdict, DaemonRow(w, v) PROVE RowsTell(t)'
  <2>1. PICK c : c = hand[w].claim
    OBVIOUS
  <2>2. /\ Active(hand[w]) /\ c.task \in Tasks /\ c.att \in AttemptNo
        /\ Keeps(c, w) \/ Passed(c)
        /\ Keeps(c, w) => task[c.task].cur = c.att
        /\ task[c.task].run = task[c.task].cur
    BY <1>3, <2>1, ActiveFacts DEF DaemonRow
  <2>3. /\ shown' = [shown EXCEPT ![c.task][c.att] = v] /\ task'[t] = task[t]
        /\ shown \in [Tasks -> [AttemptNo -> Verdict \cup {"none"}]]
    BY <1>3, <2>1 DEF DaemonRow, DaemonInv, ShownOK
  <2>4. CASE c.task # t
    BY <1>0, <1>2, <2>2, <2>3, <2>4 DEF RowsTell
  <2>5. CASE c.task = t
    <3>1. c.att <= task[t].cur /\ c.att \in Nat
      BY <1>0, <2>2, <2>5 DEF Passed, AttemptNo
    <3>2. \A n \in AttemptNo : n # c.att => shown'[t][n] = shown[t][n]
      BY <2>2, <2>3, <2>5
    <3>3. shown'[t][c.att] = v
      BY <2>2, <2>3, <2>5
    <3>4. \A n \in AttemptNo : n > task[t].run => shown'[t][n] = "none"
      BY <1>0, <3>1, <3>2 DEF RowsTell, AttemptNo
    <3>5. ASSUME task[t].state # "absent", task[t].cur # c.att
          PROVE  shown'[t][task[t].cur] = shown[t][task[t].cur]
      BY <1>0, <3>2, <3>5 DEF RowInv, WellFormed
    <3>6. ASSUME task[t].state \in {"queued", "waiting_dependencies"}
          PROVE  shown'[t][task[t].cur] # "done"
      <4>1. task[t].owner # w /\ ~task[t].terminal
        BY <1>0, <3>6, StoreAssumption DEF RowInv, OwnedState
      <4>2. task[t].cur # c.att
        BY <2>2, <2>5, <3>1, <4>1, <1>0 DEF Keeps, Passed
      <4> QED BY <1>0, <3>5, <3>6, <4>2 DEF RowsTell
    <3>7. ASSUME task[t].state = "done" PROVE shown'[t][task[t].cur] = "done"
      <4>1. task[t].cur # c.att
        <5>1. hand[w].phase = "processing" => ~ShownDone(c)
          BY <2>1, <2>2 DEF PromptInv, Fit
        <5>2. hand[w].phase = "processing" \/ NotDone(c)
          BY <1>3, <2>1 DEF DaemonRow
        <5> QED BY <1>0, <2>5, <3>7, <5>1, <5>2 DEF RowsTell, ShownDone, NotDone
      <4> QED BY <1>0, <3>5, <3>7, <4>1 DEF RowsTell
    <3> QED BY <1>2, <2>3, <3>4, <3>6, <3>7
  <2> QED BY <2>4, <2>5
<1>4. ASSUME EmitRequestRow PROVE RowsTell(t)'
  <2>1. /\ \A n \in AttemptNo : shown'[t][n] = "done" <=> shown[t][n] = "done"
        /\ \A n \in AttemptNo : shown'[t][n] # shown[t][n] => n <= task[t].run
    BY <1>4, RequestShown
  <2>2. task'[t] = task[t]
    BY <1>4 DEF EmitRequestRow, storeVars
  <2>3. task[t].state # "absent" => task[t].cur \in AttemptNo
    BY <1>0 DEF RowInv, WellFormed
  <2>4. \A n \in AttemptNo : n > task[t].run => shown'[t][n] = "none"
    BY <1>0, <2>1 DEF RowsTell, AttemptNo
  <2> QED BY <1>0, <1>2, <2>1, <2>2, <2>3, <2>4 DEF RowsTell
<1> QED BY <1>0, <1>1, <1>3, <1>4 DEF ShownMove

\* An attempt that is handed out is in no other hand: its row was queued, so that
\* whoever held the attempt would still own the row, or it would have ended.
LEMMA TakenApart ==
  ASSUME DaemonInv, PromptInv, NEW w \in Workers, NEW t \in Tasks, Take(w, t),
         NEW u \in Workers, Active(hand[u]), hand[u].claim.task = t
  PROVE  hand[u].claim.att # task[t].cur
<1>1. task[t].state = "queued" /\ RowInv(t) /\ task[t] \in TaskRow
  BY RowFacts DEF Take, ClaimNext, DaemonInv
<1>2. task[t].owner # u /\ ~task[t].terminal
  BY <1>1, StoreAssumption DEF RowInv, OwnedState
<1>3. Keeps(hand[u].claim, u) \/ Passed(hand[u].claim)
  BY ActiveFacts
<1>4. hand[u].claim.att \in AttemptNo /\ task[t].cur \in 0 .. MaxAttempt
  BY ActiveFacts
<1> QED BY <1>2, <1>3, <1>4, StoreAssumption DEF Keeps, Passed, AttemptNo

LEMMA HeldApartStep ==
  ASSUME ~MayStall, DaemonInv, PromptInv, [DaemonNext]_vars
  PROVE  HeldApart'
<1> SUFFICES ASSUME NEW w \in Workers, NEW u \in Workers,
                    Active(hand'[w]), Active(hand'[u]),
                    hand'[w].claim.task = hand'[u].claim.task,
                    hand'[w].claim.att = hand'[u].claim.att
             PROVE  w = u
  BY DEF HeldApart, Active
<1>1. ASSUME NEW x \in Workers, Active(hand'[x]), ~\E t \in Tasks : Take(x, t)
      PROVE  Active(hand[x]) /\ hand'[x].claim = hand[x].claim
  <2>1. HandGoes(x)
    BY HandsFit
  <2>2. ~Active(Empty("exited"))
    BY DEF Active, InFlight, Empty
  <2> QED BY <1>1, <2>1, <2>2 DEF HandGoes
<1>2. ASSUME NEW x \in Workers, NEW t \in Tasks, Take(x, t)
      PROVE  /\ hand'[x].claim.task = t /\ hand'[x].claim.att = task[t].cur
             /\ \A y \in Workers : y # x => hand'[y] = hand[y] /\ ~\E s \in Tasks : Take(y, s)
  <2> DEFINE d == [task |-> t, att |-> task[t].cur, worker |-> x, gen |-> task[t].gen + 1]
             h == [Empty("claimed") EXCEPT !.claim = d]
  <2>1. hand \in [Workers -> Hand] /\ Put(x, h)
    BY <1>2 DEF DaemonInv, Take
  <2>2. d.task = t /\ d.att = task[t].cur
    OBVIOUS
  <2> HIDE DEF d
  <2>3. h.claim = d /\ h.phase = "claimed"
    BY DEF Empty
  <2> HIDE DEF h
  <2>4. hand'[x] = h /\ \A y \in Workers : y # x => hand'[y] = hand[y]
    BY <2>1 DEF Put
  <2>5. ASSUME NEW y \in Workers, y # x, NEW s \in Tasks, Take(y, s) PROVE FALSE
    <3> DEFINE e == [task |-> s, att |-> task[s].cur, worker |-> y, gen |-> task[s].gen + 1]
               g == [Empty("claimed") EXCEPT !.claim = e]
    <3>1. hand[y].phase = "idle" /\ Put(y, g)
      BY <2>5 DEF Take
    <3> HIDE DEF e
    <3>2. g.phase = "claimed"
      BY DEF Empty
    <3> HIDE DEF g
    <3>3. hand'[y].phase = "claimed"
      BY <2>1, <3>1, <3>2 DEF Put
    <3> QED BY <2>4, <2>5, <3>1, <3>3
  <2> QED BY <2>2, <2>3, <2>4, <2>5
<1>3. ASSUME NEW x \in Workers, NEW y \in Workers, x # y, NEW t \in Tasks, Take(x, t),
             Active(hand'[y]), hand'[x].claim.task = hand'[y].claim.task
      PROVE  hand'[x].claim.att # hand'[y].claim.att
  <2>1. Active(hand[y]) /\ hand'[y].claim = hand[y].claim
    BY <1>1, <1>2, <1>3
  <2> QED BY <1>2, <1>3, <2>1, TakenApart
<1>4. CASE \E t \in Tasks : Take(w, t) \/ Take(u, t)
  BY <1>3, <1>4
<1>5. CASE ~\E t \in Tasks : Take(w, t) \/ Take(u, t)
  BY <1>1, <1>5 DEF PromptInv, HeldApart
<1> QED BY <1>4, <1>5

\* A request stays about an attempt that exists and is not shown done.
LEMMA AskedStep ==
  ASSUME ~MayStall, DaemonInv, PromptInv, [DaemonNext]_vars
  PROVE  Asked'
<1>0. \A t \in Tasks : RowMove(t)
  BY RowsMove
<1>1. ASSUME NEW t \in Tasks, NEW n \in AttemptNo, n <= task[t].run PROVE n <= task'[t].run
  <2>1. RowMove(t) /\ task[t] \in TaskRow
    BY <1>0, RowFacts DEF DaemonInv
  <2>2. task[t].run \in Nat /\ n \in Nat
    BY <2>1, StoreAssumption DEF TaskRow, AttemptNo
  <2>3. task'[t].run = task[t].run \/ task'[t].run = task[t].run + 1
    BY <2>1 DEF RowMove, RowStays, RowHeld, RowEnds, RowReturns, RowRenewed, RowTaken
  <2> QED BY <1>1, <2>2, <2>3
<1>2. ASSUME request' # NoRequest, request # NoRequest, request'.op = request.op,
             request'.task = request.task, request'.att = request.att,
             request.op # "cancel-running" =>
               (shown'[request.task][request.att] = "done" => shown[request.task][request.att] = "done")
      PROVE  Asked'
  <2>1. request.task \in Tasks /\ request.att \in AttemptNo
    BY <1>2 DEF DaemonInv, RequestOK, Request
  <2>2. request.att <= task'[request.task].run
    BY <1>1, <1>2, <2>1 DEF PromptInv, Asked
  <2> QED BY <1>2, <2>2 DEF PromptInv, Asked
<1>3. CASE request' = NoRequest
  BY <1>3 DEF Asked
<1>4. CASE request' = request /\ shown' = shown
  BY <1>2, <1>3, <1>4
<1>5. ASSUME NEW w \in Workers, Moves(w) PROVE Asked'
  <2>1. request' = request /\ (shown' = shown \/ \E v \in Verdict : DaemonRow(w, v))
    BY <1>5 DEF Moves
  <2>2. ASSUME NEW v \in Verdict, DaemonRow(w, v), request # NoRequest PROVE Asked'
    <3>1. v # "done" /\ Active(hand[w])
      BY <2>2 DEF DaemonRow
    <3>2. PICK c : c = hand[w].claim
      OBVIOUS
    <3>3. c.task \in Tasks /\ c.att \in AttemptNo
      BY <3>1, <3>2, ActiveFacts
    <3>4. shown' = [shown EXCEPT ![c.task][c.att] = v]
      BY <2>2, <3>2 DEF DaemonRow
    <3>5. request.task \in Tasks /\ request.att \in AttemptNo
      BY <2>2 DEF DaemonInv, RequestOK, Request
    <3>6. shown'[request.task][request.att] = "done" => shown[request.task][request.att] = "done"
      BY <3>1, <3>3, <3>4, <3>5 DEF DaemonInv, ShownOK
    <3> QED BY <1>2, <2>1, <2>2, <3>6
  <2> QED BY <1>3, <1>4, <2>1, <2>2
<1>6. ASSUME EmitRequestRow PROVE Asked'
  BY <1>6 DEF EmitRequestRow, CloseRequest, Asked
<1>7. ASSUME NEW t \in Tasks, NEW op \in {"cancel-queued", "cancel-running", "sweep"},
             Read(op, t), shown' = shown,
             op # "cancel-running" => task[t].state \in {"queued", "waiting_dependencies"}
      PROVE  Asked'
  <2> DEFINE r == [op |-> op, task |-> t, att |-> task[t].cur, worker |-> task[t].owner,
                   step |-> "read"]
  <2>1. request' = r /\ task' = task
    BY <1>7 DEF Read, storeVars
  <2>2. r.op = op /\ r.task = t /\ r.att = task[t].cur
    OBVIOUS
  <2> HIDE DEF r
  <2>3. task[t].cur <= task[t].run
    BY StoreAssumption, RowFacts DEF DaemonInv, PromptInv, RowsTell, TaskRow
  <2>4. op # "cancel-running" => shown[t][task[t].cur] # "done"
    BY <1>7 DEF PromptInv, RowsTell
  <2> QED BY <1>7, <2>1, <2>2, <2>3, <2>4 DEF Asked
<1>8. ASSUME NEW t \in Tasks, AskCancelQueued(t) \/ AskCancelRunning(t) \/ AskSweep(t),
             shown' = shown
      PROVE  Asked'
  BY <1>7, <1>8 DEF AskCancelQueued, AskCancelRunning, AskSweep
<1>9. ASSUME request # NoRequest, shown' = shown, NEW s \in {"probed", "marked"},
             request' = [request EXCEPT !.step = s]
      PROVE  Asked'
  <2>1. request \in Request
    BY <1>9 DEF DaemonInv, RequestOK
  <2>2. request'.op = request.op /\ request'.task = request.task /\ request'.att = request.att
    BY <1>9, <2>1 DEF Request
  <2> QED BY <1>2, <1>3, <1>9, <2>2
<1>10. \/ \E w \in Workers : Moves(w)
       \/ UNCHANGED <<hand, shown, request>>
       \/ hand' = hand /\ EmitRequestRow
       \/ /\ UNCHANGED <<hand, shown>>
          /\ \/ \E t \in Tasks : AskCancelQueued(t) \/ AskCancelRunning(t) \/ AskSweep(t)
             \/ request # NoRequest /\ request' = NoRequest
             \/ request # NoRequest /\ \E s \in {"probed", "marked"} :
                                         request' = [request EXCEPT !.step = s]
  BY <1>0, StepMoves
<1> QED BY <1>3, <1>4, <1>5, <1>6, <1>8, <1>9, <1>10

\* Without stalls, every step preserves both invariants.
LEMMA PromptStep ==
  ~MayStall /\ DaemonInv /\ PromptInv /\ [DaemonNext]_vars => PromptInv'
<1> SUFFICES ASSUME ~MayStall, DaemonInv, PromptInv, [DaemonNext]_vars PROVE PromptInv'
  OBVIOUS
<1>1. \A w \in Workers : Fit(w, hand[w])'
  BY HandsFit
<1>2. \A t \in Tasks : OwnersHold(t)' /\ RowsTell(t)'
  BY OwnersStep, RowsTellStep
<1> QED
  BY <1>1, <1>2, HeldApartStep, AskedStep DEF PromptInv

\* The inductive invariant of daemons that do not stall.
THEOREM PromptInvariance == DaemonSpec => [](~MayStall => DaemonInv /\ PromptInv)
<1>1. DaemonInit => (~MayStall => DaemonInv /\ PromptInv)
  BY DaemonInvInit, PromptInit
<1>2. (~MayStall => DaemonInv /\ PromptInv) /\ [DaemonNext]_vars
        => (~MayStall => DaemonInv /\ PromptInv)'
  BY DaemonInvStep, PromptStep
<1> QED BY <1>1, <1>2, PTL DEF DaemonSpec

\* While no process outlasts its lease, two daemons never work on the same run.
THEOREM RunsAreExclusive == ~MayStall => (DaemonSpec => []OneDaemonPerRun)
<1> SUFFICES ASSUME ~MayStall PROVE DaemonSpec => []OneDaemonPerRun
  OBVIOUS
<1>1. PromptInv => OneDaemonPerRun
  <2> SUFFICES ASSUME PromptInv, NEW w \in Workers, NEW u \in Workers, NEW t \in Tasks,
                      Works(w, t), Works(u, t), hand[w].claim.att = hand[u].claim.att
               PROVE  w = u
    BY DEF OneDaemonPerRun
  <2>1. Active(hand[w]) /\ Active(hand[u]) /\ hand[w].claim.task = hand[u].claim.task
    BY DEF Works, Active, InFlight
  <2> QED BY <2>1 DEF PromptInv, HeldApart
<1>2. (~MayStall => DaemonInv /\ PromptInv) => OneDaemonPerRun
  BY <1>1
<1> QED BY <1>2, PromptInvariance, PTL

\* While no process outlasts its lease, a running task whose owner is alive is in that
\* owner's hand under a claim that passes the fence: the owner can end it.
THEOREM RunningCanEnd == ~MayStall => (DaemonSpec => []RunningIsFenced)
<1> SUFFICES ASSUME ~MayStall PROVE DaemonSpec => []RunningIsFenced
  OBVIOUS
<1>1. ASSUME DaemonInv, PromptInv, NEW t \in Tasks, task[t].state = "running",
             task[t].owner \in Up
      PROVE  /\ hand[task[t].owner].claim # NoClaim /\ hand[task[t].owner].claim.task = t
             /\ FenceHolds(hand[task[t].owner].claim)
  <2>1. PICK w \in Workers : w = task[t].owner
    BY <1>1 DEF Up
  <2>2. hand[w].phase # "exited"
    BY <1>1, <2>1 DEF Up
  <2>3. Active(hand[w]) /\ hand[w].claim.task = t /\ hand[w].claim.gen = task[t].gen
    BY <1>1, <2>1, <2>2 DEF PromptInv, OwnersHold
  <2>4. hand[w].claim \in Claim /\ hand[w].claim.worker = w
        /\ task[t].cur = hand[w].claim.att
    BY <1>1, <2>1, <2>3, ActiveFacts DEF Keeps
  <2>5. ~task[t].terminal
    BY <1>1, RowFacts DEF DaemonInv, RowInv
  <2>6. hand[w].claim # NoClaim
    BY <2>4, DaemonAssumption
  <2> QED BY <2>1, <2>3, <2>4, <2>5, <2>6 DEF FenceHolds
<1>2. DaemonInv /\ PromptInv => RunningIsFenced
  BY <1>1 DEF RunningIsFenced
<1>3. (~MayStall => DaemonInv /\ PromptInv) => RunningIsFenced
  BY <1>2
<1> QED BY <1>3, PromptInvariance, PTL

\* While no process outlasts its lease, a task done in the store is done on the
\* dashboard.
THEOREM DoneIsVisible == ~MayStall => (DaemonSpec => []DoneIsShown)
<1> SUFFICES ASSUME ~MayStall PROVE DaemonSpec => []DoneIsShown
  OBVIOUS
<1>1. (~MayStall => DaemonInv /\ PromptInv) => DoneIsShown
  BY DEF PromptInv, RowsTell, DoneIsShown
<1> QED BY <1>1, PromptInvariance, PTL

\* While no process outlasts its lease, no run is started whose completion is on record.
THEOREM NoRerun == ~MayStall => (DaemonSpec => NoRerunAfterDone)
<1> SUFFICES ASSUME ~MayStall PROVE DaemonSpec => NoRerunAfterDone
  OBVIOUS
<1>1. ASSUME PromptInv, NEW w \in Workers, Start(w)
      PROVE  shown[hand[w].claim.task][hand[w].claim.att] # "done"
  <2>1. hand[w].phase = "claimed" /\ Active(hand[w])
    BY <1>1 DEF Start, Active
  <2> QED BY <1>1, <2>1 DEF PromptInv, Fit, ShownDone
<1>2. (~MayStall => DaemonInv /\ PromptInv) /\ [DaemonNext]_vars
        => [\A w \in Workers : Start(w) /\ hand'[w].phase = "processing"
              => shown[hand[w].claim.task][hand[w].claim.att] # "done"]_vars
  BY <1>1
<1> QED BY <1>2, PromptInvariance, PTL DEF DaemonSpec, NoRerunAfterDone

-----------------------------------------------------------------------------
(* Dependencies: parents and children.                                     *)
(*                                                                         *)
(* The scheduler ends a child without taking it from its owner, and a      *)
(* failed child blocks its parent in whatever state it is, so that         *)
(* StoreInv does not hold here.  The properties rest on an invariant of    *)
(* their own, about one child at a time: DepTyped has the types, and       *)
(* ChildFits relates the row of a child, the tracker, the dependency, the  *)
(* daemons that hold it, and the request, the tick and the command that    *)
(* are about it.                                                           *)

\* A row that exists is on an attempt, and is owned by a daemon where it has to be.
Numbered(r) ==
  /\ r.state = "absent" => r.cur = 0 /\ r.run = 0 /\ r.owner = NoWorker
  /\ r.state # "absent" => r.cur \in AttemptNo /\ r.run \in AttemptNo
  /\ r.state \in OwnedState => r.owner \in Workers

\* A daemon at work holds a claim of its own, for a task of its workflow.
HandSound(w, h) ==
  /\ Active(h) <=> h.claim # NoClaim
  /\ h.claim # NoClaim => h.claim.worker = w /\ Serves(w, h.claim.task)
  /\ h.phase \in {"claimed", "processing"} => h.verdict = "none"
  /\ h.phase \in {"returned", "terminalizing"} => h.verdict \in Verdict

RowsSound == StoreTypeOK /\ \A t \in Tasks : Numbered(task[t])
\* No row is taken away.
RowsLive == \A t \in Tasks : task[t].state # "absent" => task'[t].state # "absent"

DepsSound ==
  /\ dep \in [Children -> DepStatus]
  /\ \A c \in Children : dep[c] # "none" => task[Parent].state # "absent"

TickSound ==
  tick # NoTick =>
    /\ tick \in [child : Children, verdict : {"done", "failed"}]
    /\ task[tick.child].state # "absent" /\ task[Parent].state # "absent"

HandsSound == hand \in [Workers -> Hand] /\ \A w \in Workers : HandSound(w, hand[w])

DepTyped ==
  /\ RowsSound /\ HandsSound
  /\ ShownOK /\ CommandOK /\ RequestOK
  /\ DepsSound
  /\ TickSound

\* What a daemon holds.
LEMMA HeldSound ==
  ASSUME DepTyped, NEW w \in Workers, Active(hand[w])
  PROVE  /\ hand[w] \in Hand /\ hand[w].claim \in Claim
         /\ hand[w].claim.task \in Tasks /\ hand[w].claim.att \in AttemptNo
         /\ hand[w].claim.gen \in Nat /\ hand[w].claim.worker = w
<1>1. hand[w] \in Hand /\ HandSound(w, hand[w])
  BY DEF DepTyped, HandsSound
<1>2. hand[w].claim \in Claim /\ hand[w].claim.worker = w
  BY <1>1 DEF HandSound, Hand
<1> QED BY <1>1, <1>2 DEF Claim

LEMMA AttemptsAreNumbers == AttemptNo \subseteq Nat \ {0} /\ 1 \in AttemptNo
BY StoreAssumption DEF AttemptNo

\* A step that writes one row and leaves the rest of the store typed.
LEMMA RowWritten ==
  ASSUME RowsSound, NEW t \in Tasks, NEW row \in TaskRow, Write(t, row), Numbered(row),
         row.state # "absent",
         attempt' \in [Tasks -> [AttemptNo -> AttemptState]], issued' \subseteq Claim,
         cancelCmd' \subseteq Tasks
  PROVE  RowsSound' /\ RowsLive
BY DEF RowsSound, StoreTypeOK, Write, RowsLive

LEMMA AttemptWritten ==
  ASSUME RowsSound, NEW t \in Tasks, NEW n, NEW s \in AttemptState, WriteAttempt(t, n, s)
  PROVE  attempt' \in [Tasks -> [AttemptNo -> AttemptState]]
BY DEF RowsSound, StoreTypeOK, WriteAttempt

LEMMA RowFields ==
  ASSUME RowsSound, NEW t \in Tasks
  PROVE  /\ task[t] \in TaskRow /\ Numbered(task[t])
         /\ task[t].gen \in Nat /\ task[t].cur \in 0 .. MaxAttempt
         /\ task[t].run \in 0 .. MaxAttempt
         /\ task[t].owner \in Workers \cup {NoWorker} /\ task[t].terminal \in BOOLEAN
         /\ attempt[t] \in [AttemptNo -> AttemptState]
BY DEF RowsSound, StoreTypeOK, TaskRow

\* A row that is over is numbered if it was.
LEMMA CloseSound ==
  ASSUME RowsSound, NEW t \in Tasks, task[t].state # "absent",
         NEW v \in {"done", "failed", "cancelled", "blocked"}, Write(t, Closed(task[t], v)),
         NEW n, NEW s \in AttemptState, WriteAttempt(t, n, s), UNCHANGED <<issued, cancelCmd>>
  PROVE  RowsSound' /\ RowsLive
<1>1. v \in TaskState /\ v \notin OwnedState
  BY DEF TaskState, OwnedState
<1>2. /\ Closed(task[t], v) \in TaskRow /\ Closed(task[t], v).state = v
      /\ Closed(task[t], v).cur = task[t].cur /\ Closed(task[t], v).run = task[t].run
  BY <1>1, RowFields, ClosedRow
<1>3. Numbered(Closed(task[t], v))
  BY <1>1, <1>2, RowFields DEF Numbered
<1>4. issued' \subseteq Claim /\ cancelCmd' \subseteq Tasks
  BY DEF RowsSound, StoreTypeOK
<1> HIDE DEF Closed
<1> QED BY <1>2, <1>3, <1>4, AttemptWritten, RowWritten

\* The store operations of the daemons and the dashboard keep the rows typed.
LEMMA EnqueueSound ==
  ASSUME RowsSound, NEW t \in Tasks, Enqueue(t)
  PROVE  RowsSound' /\ RowsLive
<1> DEFINE q == AbsentRow
           row == [q EXCEPT !.state = "queued", !.cur = 1, !.run = 1]
<1>0. 1 \in 0 .. MaxAttempt /\ 0 \in 0 .. MaxAttempt /\ 0 \in Nat
  BY StoreAssumption
<1>a. q \in TaskRow
  BY <1>0 DEF AbsentRow, TaskRow, TaskState
<1>b. Write(t, row)
  BY DEF Enqueue
<1> HIDE DEF q
<1>1. /\ row \in TaskRow /\ row.state = "queued" /\ row.cur = 1 /\ row.run = 1
  BY <1>0, <1>a DEF TaskRow, TaskState
<1>2. Write(t, row) /\ WriteAttempt(t, 1, "pending") /\ UNCHANGED <<issued, cancelCmd>>
  BY <1>b DEF Enqueue
<1> HIDE DEF row
<1>3. Numbered(row)
  BY <1>1, AttemptsAreNumbers DEF Numbered, OwnedState
<1>4. issued' \subseteq Claim /\ cancelCmd' \subseteq Tasks
  BY <1>2 DEF RowsSound, StoreTypeOK
<1>5. "pending" \in AttemptState
  BY DEF AttemptState
<1> QED BY <1>1, <1>2, <1>3, <1>4, <1>5, AttemptWritten, RowWritten

LEMMA ClaimSound ==
  ASSUME RowsSound, NEW w \in Workers, NEW t \in Tasks, ClaimNext(w, t)
  PROVE  /\ RowsSound' /\ RowsLive
         /\ [task |-> t, att |-> task[t].cur, worker |-> w, gen |-> task[t].gen + 1] \in Claim
<1> DEFINE g == task[t].gen + 1
           row == [task[t] EXCEPT !.state = "claimed", !.owner = w, !.lease = "live",
                                  !.gen = g]
           c == [task |-> t, att |-> task[t].cur, worker |-> w, gen |-> task[t].gen + 1]
<1>0. task[t] \in TaskRow /\ Numbered(task[t]) /\ task[t].state = "queued"
  BY RowFields DEF ClaimNext
<1>2. /\ Write(t, row) /\ WriteAttempt(t, task[t].cur, "claimed") /\ cancelCmd' = cancelCmd
      /\ issued' = issued \cup {c}
  BY <1>0 DEF ClaimNext, TaskRow
<1>a. g \in Nat
  BY RowFields
<1> HIDE DEF g
<1>1. /\ row \in TaskRow /\ row.state = "claimed" /\ row.cur = task[t].cur
      /\ row.run = task[t].run /\ row.owner = w
  BY <1>0, <1>a DEF TaskRow, TaskState
<1>3. task[t].cur \in AttemptNo /\ task[t].gen + 1 \in Nat
  BY <1>0, RowFields DEF Numbered
<1>4. c \in Claim
  BY <1>3 DEF Claim
<1> HIDE DEF row, c
<1>5. Numbered(row)
  BY <1>0, <1>1 DEF Numbered
<1>6. issued' \subseteq Claim /\ cancelCmd' \subseteq Tasks
  BY <1>2, <1>4 DEF RowsSound, StoreTypeOK
<1>7. "claimed" \in AttemptState
  BY DEF AttemptState
<1>8. RowsSound' /\ RowsLive
  BY <1>1, <1>2, <1>5, <1>6, <1>7, AttemptWritten, RowWritten
<1> QED BY <1>4, <1>8 DEF c

LEMMA RenewSound ==
  ASSUME RowsSound, NEW w \in Workers, NEW t \in Tasks, RenewClaim(w, t)
  PROVE  RowsSound' /\ RowsLive
<1> DEFINE row == [task[t] EXCEPT !.lease = "live"]
<1>1. /\ row \in TaskRow /\ row.state = task[t].state /\ row.cur = task[t].cur
      /\ row.run = task[t].run /\ row.owner = task[t].owner
  BY RowFields DEF TaskRow
<1>2. Write(t, row) /\ UNCHANGED <<attempt, issued, cancelCmd>>
  BY DEF RenewClaim
<1> HIDE DEF row
<1>3. Numbered(row) /\ row.state # "absent"
  BY <1>1, RowFields DEF Numbered, RenewClaim
<1>4. /\ attempt' \in [Tasks -> [AttemptNo -> AttemptState]]
      /\ issued' \subseteq Claim /\ cancelCmd' \subseteq Tasks
  BY <1>2 DEF RowsSound, StoreTypeOK
<1> QED BY <1>1, <1>2, <1>3, <1>4, RowWritten

LEMMA RunningSound ==
  ASSUME RowsSound, NEW c \in Claim, MarkRunning(c)
  PROVE  RowsSound' /\ RowsLive
<1> DEFINE t == c.task
           row == [task[t] EXCEPT !.state = "running", !.owner = c.worker, !.cur = c.att]
<1>0. t \in Tasks /\ c.att \in AttemptNo /\ c.att \in 0 .. MaxAttempt /\ c.worker \in Workers
  BY StoreAssumption DEF Claim, AttemptNo
<1>1. task[t] \in TaskRow /\ Numbered(task[t]) /\ task[t].state # "absent"
  BY <1>0, RowFields DEF MarkRunning, MarkRunningMatches
<1>2. /\ row \in TaskRow /\ row.state = "running" /\ row.cur = c.att
      /\ row.run = task[t].run /\ row.owner = c.worker
  BY <1>0, <1>1 DEF TaskRow, TaskState
<1>3. Write(t, row) /\ WriteAttempt(t, c.att, "running") /\ UNCHANGED <<issued, cancelCmd>>
  BY DEF MarkRunning
<1> HIDE DEF row, t
<1>4. Numbered(row)
  BY <1>0, <1>1, <1>2 DEF Numbered
<1>5. issued' \subseteq Claim /\ cancelCmd' \subseteq Tasks
  BY <1>3 DEF RowsSound, StoreTypeOK
<1>6. "running" \in AttemptState
  BY DEF AttemptState
<1> QED BY <1>0, <1>2, <1>3, <1>4, <1>5, <1>6, AttemptWritten, RowWritten

LEMMA CancelSound ==
  ASSUME RowsSound, NEW t \in Tasks, RequestCancelRunning(t)
  PROVE  RowsSound' /\ RowsLive
<1> DEFINE row == [task[t] EXCEPT !.state = "cancel_requested", !.cancelReq = TRUE]
<1>0. task[t] \in TaskRow /\ Numbered(task[t]) /\ task[t].state \in {"claimed", "running"}
  BY RowFields DEF RequestCancelRunning
<1>1. /\ row \in TaskRow /\ row.state = "cancel_requested" /\ row.cur = task[t].cur
      /\ row.run = task[t].run /\ row.owner = task[t].owner
  BY <1>0 DEF TaskRow, TaskState
<1>2. /\ Write(t, row) /\ WriteAttempt(t, task[t].cur, "cancel_requested")
      /\ UNCHANGED <<issued, cancelCmd>>
  BY DEF RequestCancelRunning
<1> HIDE DEF row
<1>3. Numbered(row)
  BY <1>0, <1>1 DEF Numbered, OwnedState
<1>4. issued' \subseteq Claim /\ cancelCmd' \subseteq Tasks
  BY <1>2 DEF RowsSound, StoreTypeOK
<1>5. "cancel_requested" \in AttemptState
  BY DEF AttemptState
<1> QED BY <1>1, <1>2, <1>3, <1>4, <1>5, AttemptWritten, RowWritten

LEMMA RetrySound ==
  ASSUME RowsSound, NEW t \in Tasks, Retry(t)
  PROVE  RowsSound' /\ RowsLive
<1> DEFINE n == task[t].run + 1
           q == Reopened(task[t])
           row == [q EXCEPT !.gen = @ + 1, !.cur = n, !.run = n]
<1>0. task[t].run \in 0 .. MaxAttempt /\ task[t].run < MaxAttempt /\ task[t] \in TaskRow
  BY RowFields DEF Retry
<1>1. n \in AttemptNo /\ n \in 0 .. MaxAttempt
  BY <1>0, StoreAssumption DEF AttemptNo
<1>2. q \in TaskRow /\ q.state = "queued"
  BY <1>0, ReopenedRow
<1>3. row = [q EXCEPT !.gen = q.gen + 1, !.cur = n, !.run = n]
  BY <1>0, <1>2 DEF TaskRow
<1>4. /\ Write(t, [q EXCEPT !.gen = @ + 1, !.cur = n, !.run = @ + 1])
      /\ WriteAttempt(t, n, "pending") /\ UNCHANGED <<issued, cancelCmd>>
      /\ q.run = task[t].run
  BY <1>0, ReopenedRow DEF Retry
<1>5. Write(t, row)
  BY <1>2, <1>4 DEF TaskRow
<1>a. q.gen + 1 \in Nat
  BY <1>2 DEF TaskRow
<1> HIDE DEF q, n
<1>6. row \in TaskRow /\ row.state = "queued" /\ row.cur = n /\ row.run = n
  BY <1>1, <1>2, <1>a DEF TaskRow
<1> HIDE DEF row
<1>7. Numbered(row)
  BY <1>1, <1>6 DEF Numbered, OwnedState
<1>8. issued' \subseteq Claim /\ cancelCmd' \subseteq Tasks
  BY <1>4 DEF RowsSound, StoreTypeOK
<1>9. "pending" \in AttemptState
  BY DEF AttemptState
<1> QED BY <1>1, <1>4, <1>5, <1>6, <1>7, <1>8, <1>9, AttemptWritten, RowWritten

LEMMA RecoverSound ==
  ASSUME RowsSound, NEW alive, NEW seen \in [Tasks -> Verdict \cup {"none"}],
         RecoverOrphanedClaims(alive, seen)
  PROVE  RowsSound' /\ RowsLive
<1>1. ASSUME NEW t \in Tasks
      PROVE  /\ task'[t] \in TaskRow /\ Numbered(task'[t])
             /\ task[t].state # "absent" => task'[t].state # "absent"
  <2>1. task[t] \in TaskRow /\ Numbered(task[t])
    BY RowFields
  <2>2. CASE ~Orphaned(t, alive)
    BY <2>1, <2>2 DEF RecoverOrphanedClaims
  <2>3. CASE Orphaned(t, alive) /\ seen[t] = "none"
    <3>1. task'[t] = Requeued(task[t]) /\ task[t].state # "absent"
      BY <2>3 DEF RecoverOrphanedClaims, Orphaned
    <3> QED BY <2>1, <3>1, RequeuedRow DEF Numbered, OwnedState
  <2>4. CASE Orphaned(t, alive) /\ seen[t] # "none"
    <3>1. task'[t] = Closed(task[t], seen[t]) /\ task[t].state # "absent"
      BY <2>4 DEF RecoverOrphanedClaims, Orphaned
    <3>2. seen[t] \in TaskState /\ seen[t] \notin OwnedState /\ seen[t] # "absent"
      BY <2>4 DEF Verdict, TaskState, OwnedState
    <3> DEFINE q == Closed(task[t], seen[t])
    <3>3. /\ q \in TaskRow /\ q.state = seen[t] /\ q.cur = task[t].cur /\ q.run = task[t].run
      BY <2>1, <3>2, ClosedRow
    <3> HIDE DEF q
    <3>4. task'[t] = q
      BY <3>1 DEF q
    <3> QED BY <2>1, <3>1, <3>2, <3>3, <3>4 DEF Numbered
  <2> QED BY <2>2, <2>3, <2>4
<1>2. ASSUME NEW t \in Tasks, NEW n \in AttemptNo PROVE attempt'[t][n] \in AttemptState
  <2>1. attempt[t][n] \in AttemptState
    BY RowFields
  <2>2. Repended(attempt[t][n]) \in AttemptState /\ Verdict \subseteq AttemptState
    BY <2>1 DEF Repended, AttemptState, Verdict
  <2> QED BY <2>1, <2>2 DEF RecoverOrphanedClaims
<1>3. task' \in [Tasks -> TaskRow] /\ attempt' \in [Tasks -> [AttemptNo -> AttemptState]]
  BY <1>1, <1>2 DEF RecoverOrphanedClaims
<1> QED BY <1>1, <1>3 DEF RowsSound, StoreTypeOK, RecoverOrphanedClaims, RowsLive
\* What a settlement makes of the parent's row.
LEMMA SettleSound ==
  ASSUME RowsSound, DepsSound, NEW c \in Children, NEW v \in Verdict, SettleChild(c, v)
  PROVE  RowsSound' /\ RowsLive /\ DepsSound'
<1> DEFINE p == task[Parent].state
           settled == IF dep[c] = "pending" THEN [dep EXCEPT ![c] = Outcome(v)] ELSE dep
<1>0. Parent \in Tasks /\ task[Parent] \in TaskRow /\ Numbered(task[Parent])
  BY DependencyAssumption, RowFields
<1>1. PICK r \in TaskState :
        /\ task' = [task EXCEPT ![Parent].state = r]
        /\ r \in {"blocked", p} \/ (r = "queued" /\ p = "waiting_dependencies")
        /\ r = p \/ dep[c] # "none"
  <2> DEFINE good == \A d \in Children : settled[d] \in Good
  <2>1. task' = [task EXCEPT ![Parent].state =
          IF dep[c] = "pending" /\ v = "failed" THEN "blocked"
          ELSE IF p = "waiting_dependencies" /\ dep[c] # "none" /\ good THEN "queued" ELSE p]
    BY <1>0 DEF SettleChild, RowsSound, StoreTypeOK
  <2>2. p \in TaskState
    BY <1>0 DEF TaskRow
  <2> HIDE DEF good, p
  <2> QED BY <2>1, <2>2 DEF TaskState
<1>2. r = p \/ (p # "absent" /\ r \notin OwnedState \cup {"absent"})
  BY <1>1 DEF OwnedState, DepsSound
<1> DEFINE row == [task[Parent] EXCEPT !.state = r]
<1>3. /\ row \in TaskRow /\ row.state = r /\ row.cur = task[Parent].cur
      /\ row.run = task[Parent].run /\ row.owner = task[Parent].owner
  BY <1>0 DEF TaskRow
<1>4. task' = [task EXCEPT ![Parent] = row] /\ UNCHANGED <<attempt, issued, cancelCmd>>
  BY <1>1 DEF SettleChild
<1> HIDE DEF row
<1>5. Numbered(row)
  BY <1>0, <1>2, <1>3 DEF Numbered
<1>6. RowsSound' /\ RowsLive
  BY <1>0, <1>2, <1>3, <1>4, <1>5 DEF RowsSound, StoreTypeOK, RowsLive
<1>7. dep' \in [Children -> DepStatus]
  <2>1. Outcome(v) \in DepStatus
    BY DEF Outcome, Verdict, DepStatus
  <2> QED BY <2>1 DEF SettleChild, DepsSound
<1>8. ASSUME NEW d \in Children, dep'[d] # "none" PROVE task'[Parent].state # "absent"
  <2>1. dep[d] # "none"
    BY <1>8 DEF SettleChild, DepsSound
  <2> QED BY <1>0, <1>6, <2>1 DEF DepsSound, RowsLive
<1> QED BY <1>6, <1>7, <1>8 DEF DepsSound

LEMMA CreateSound ==
  ASSUME RowsSound, DepsSound, NEW c \in Children, CreateDependency(c)
  PROVE  RowsSound' /\ RowsLive /\ DepsSound'
<1>0. Parent \in Tasks /\ task[Parent] \in TaskRow /\ Numbered(task[Parent])
  BY DependencyAssumption, RowFields
<1>1. RowsSound' /\ RowsLive
  <2>1. CASE task[Parent].state = "queued"
    <3> DEFINE row == [task[Parent] EXCEPT !.state = "waiting_dependencies"]
    <3>1. /\ row \in TaskRow /\ row.state = "waiting_dependencies"
          /\ row.cur = task[Parent].cur /\ row.run = task[Parent].run
      BY <1>0 DEF TaskRow, TaskState
    <3>2. Write(Parent, row) /\ UNCHANGED <<attempt, issued, cancelCmd>>
      BY <2>1 DEF CreateDependency
    <3> HIDE DEF row
    <3>3. Numbered(row)
      BY <1>0, <2>1, <3>1 DEF Numbered, OwnedState
    <3>4. /\ attempt' \in [Tasks -> [AttemptNo -> AttemptState]]
          /\ issued' \subseteq Claim /\ cancelCmd' \subseteq Tasks
      BY <3>2 DEF RowsSound, StoreTypeOK
    <3> QED BY <1>0, <3>1, <3>2, <3>3, <3>4, RowWritten
  <2>2. CASE task[Parent].state # "queued"
    BY <2>2 DEF CreateDependency, RowsSound, StoreTypeOK, RowsLive
  <2> QED BY <2>1, <2>2
<1>2. dep' \in [Children -> DepStatus]
  BY DEF CreateDependency, DepsSound, DepStatus
<1>3. task'[Parent].state # "absent"
  BY <1>0, <1>1 DEF RowsLive, CreateDependency
<1> QED BY <1>1, <1>2, <1>3 DEF DepsSound

LEMMA SchedulerSound ==
  ASSUME DepTyped, SchedulerWrite
  PROVE  RowsSound' /\ RowsLive /\ dep' \in [Children -> DepStatus]
<1> DEFINE c == tick.child
           v == tick.verdict
           row == [task[c] EXCEPT !.state = v, !.terminal = TRUE]
<1>0. /\ tick \in [child : Children, verdict : {"done", "failed"}]
      /\ c \in Children /\ v \in {"done", "failed"} /\ c \in Tasks /\ RowsSound
      /\ task[c].state # "absent"
  BY DEF DepTyped, TickSound, SchedulerWrite, Children
<1>1. /\ task' = [task EXCEPT ![c].state = v, ![c].terminal = TRUE]
      /\ WriteAttempt(c, task[c].run, v) /\ UNCHANGED <<issued, cancelCmd>>
      /\ dep' = [dep EXCEPT ![c] = IF v = "done" THEN "satisfied" ELSE "failed"]
  BY DEF SchedulerWrite
<1> HIDE DEF c, v
<1>2. task[c] \in TaskRow /\ Numbered(task[c])
  BY <1>0, RowFields
<1>3. /\ row \in TaskRow /\ row.state = v /\ row.cur = task[c].cur /\ row.run = task[c].run
  BY <1>0, <1>2 DEF TaskRow, TaskState
<1>4. Write(c, row)
  BY <1>0, <1>1 DEF Write, RowsSound, StoreTypeOK
<1> HIDE DEF row
<1>5. Numbered(row) /\ row.state # "absent"
  BY <1>0, <1>2, <1>3 DEF Numbered, OwnedState
<1>6. v \in AttemptState
  BY <1>0 DEF AttemptState
<1>7. issued' \subseteq Claim /\ cancelCmd' \subseteq Tasks
  BY <1>0, <1>1 DEF RowsSound, StoreTypeOK
<1>8. dep' \in [Children -> DepStatus]
  BY <1>0, <1>1 DEF DepTyped, DepsSound, DepStatus
<1> QED BY <1>0, <1>1, <1>3, <1>4, <1>5, <1>6, <1>7, <1>8, AttemptWritten, RowWritten
-----------------------------------------------------------------------------
(* What the steps of a daemon make of its hand.                            *)

Turns(w, h) == h \in Hand /\ Put(w, h)

\* The hand h is g with another phase.
Rephased(h, g, p) ==
  /\ h.phase = p /\ h.claim = g.claim /\ h.verdict = g.verdict
  /\ h.abort = g.abort /\ h.token = g.token

LEMMA Turned ==
  ASSUME HandsSound, NEW w \in Workers, NEW h, Turns(w, h)
  PROVE  /\ hand' \in [Workers -> Hand] /\ hand'[w] = h
         /\ \A u \in Workers \ {w} : hand'[u] = hand[u]
BY DEF HandsSound, Turns, Put

LEMMA TurnSound ==
  ASSUME HandsSound, NEW w \in Workers, NEW h, Turns(w, h), HandSound(w, h)
  PROVE  HandsSound'
BY Turned DEF HandsSound

LEMMA DropTurns ==
  ASSUME NEW w \in Workers, NEW p \in {"starting", "idle", "exited"}, Put(w, Empty(p))
  PROVE  /\ Turns(w, Empty(p)) /\ HandSound(w, Empty(p)) /\ ~Active(Empty(p))
         /\ Empty(p).claim = NoClaim
<1>1. p \in Phase
  BY DEF Phase
<1>2. Empty(p) \in Hand /\ Empty(p).claim = NoClaim /\ Empty(p).phase = p
  BY <1>1, EmptyHand
<1> HIDE DEF Empty
<1> QED BY <1>2 DEF Turns, HandSound, Active, InFlight

LEMMA EnterTurns ==
  ASSUME HandsSound, NEW w \in Workers, NEW p \in Phase, Enter(w, p)
  PROVE  \E h : Turns(w, h) /\ Rephased(h, hand[w], p)
<1> DEFINE h == [hand[w] EXCEPT !.phase = p]
<1>1. hand[w] \in Hand
  BY DEF HandsSound
<1>2. h \in Hand /\ Rephased(h, hand[w], p)
  BY <1>1 DEF Hand, Rephased
<1>3. Put(w, h)
  BY <1>1 DEF Enter, Put, HandsSound
<1> HIDE DEF h
<1> QED BY <1>2, <1>3 DEF Turns

LEMMA ConcludeTurns ==
  ASSUME NEW w \in Workers, Conclude(w)
  PROVE  \E h : Turns(w, h) /\ HandSound(w, h) /\ ~Active(h) /\ h.claim = NoClaim
<1>1. PICK p \in {"idle", "exited"} : Put(w, Empty(p))
  BY DEF Conclude
<1> QED BY <1>1, DropTurns

LEMMA TakeTurns ==
  ASSUME DepTyped, NEW w \in Workers, NEW t \in Tasks, Take(w, t)
  PROVE  \E h : /\ Turns(w, h)
                /\ h.claim = [task |-> t, att |-> task[t].cur, worker |-> w,
                              gen |-> task[t].gen + 1]
                /\ h.claim # NoClaim
                /\ h.phase = "claimed" /\ h.verdict = "none" /\ h.abort = "no"
<1> DEFINE c == [task |-> t, att |-> task[t].cur, worker |-> w, gen |-> task[t].gen + 1]
           e == Empty("claimed")
           h == [e EXCEPT !.claim = c]
<1>1. ClaimNext(w, t) /\ Put(w, h)
  BY DEF Take
<1>2. c \in Claim /\ c # NoClaim
  BY <1>1, ClaimSound, DaemonAssumption DEF DepTyped
<1>3. e \in Hand /\ e.phase = "claimed" /\ e.verdict = "none" /\ e.abort = "no"
  BY EmptyHand DEF Phase, Empty
<1> HIDE DEF c, e
<1>4. h \in Hand /\ h.claim = c /\ h.phase = "claimed" /\ h.verdict = "none" /\ h.abort = "no"
  BY <1>2, <1>3 DEF Hand
<1> HIDE DEF h
<1> QED BY <1>1, <1>2, <1>4 DEF Turns, c

LEMMA FinishTurns ==
  ASSUME HandsSound, NEW w \in Workers, NEW v \in {"done", "failed"}, Finish(w, v)
  PROVE  \E h : /\ Turns(w, h) /\ h.phase = "returned" /\ h.claim = hand[w].claim
                /\ h.verdict = v /\ h.abort = hand[w].abort
<1> DEFINE h == [hand[w] EXCEPT !.phase = "returned", !.verdict = v, !.token = TRUE]
<1>1. hand[w] \in Hand
  BY DEF HandsSound
<1>2. /\ h \in Hand /\ h.phase = "returned" /\ h.claim = hand[w].claim /\ h.verdict = v
      /\ h.abort = hand[w].abort
  BY <1>1 DEF Hand, Phase, Verdict
<1>3. Put(w, h)
  BY DEF Finish
<1> HIDE DEF h
<1> QED BY <1>2, <1>3 DEF Turns

LEMMA UnwindTurns ==
  ASSUME HandsSound, NEW w \in Workers, Unwind(w)
  PROVE  \E h : /\ Turns(w, h) /\ h.phase = "returned" /\ h.claim = hand[w].claim
                /\ h.verdict = "cancelled" /\ h.abort = hand[w].abort
<1> DEFINE k == hand[w].abort = "lease"
           h == [hand[w] EXCEPT !.phase = "returned", !.verdict = "cancelled", !.token = k]
<1>1. hand[w] \in Hand /\ k \in BOOLEAN
  BY DEF HandsSound
<1>2. Put(w, h)
  BY DEF Unwind
<1> HIDE DEF k
<1>3. /\ h \in Hand /\ h.phase = "returned" /\ h.claim = hand[w].claim
      /\ h.verdict = "cancelled" /\ h.abort = hand[w].abort
  BY <1>1 DEF Hand, Phase, Verdict
<1> HIDE DEF h
<1> QED BY <1>2, <1>3 DEF Turns

LEMMA DecideTurns ==
  ASSUME HandsSound, NEW w \in Workers, Decide(w)
  PROVE  \E h : /\ Turns(w, h) /\ h.phase = "terminalizing" /\ h.claim = hand[w].claim
                /\ h.verdict \in {hand[w].verdict, "cancelled"} /\ h.abort = hand[w].abort
<1>1. hand[w] \in Hand
  BY DEF HandsSound
<1>2. PICK v \in {hand[w].verdict, "cancelled"} :
        Put(w, [hand[w] EXCEPT !.phase = "terminalizing", !.verdict = v])
  BY <1>1 DEF Decide, Hand
<1> DEFINE h == [hand[w] EXCEPT !.phase = "terminalizing", !.verdict = v]
<1>3. v \in Verdict \cup {"none"}
  BY <1>1 DEF Hand, Verdict
<1>4. /\ h \in Hand /\ h.phase = "terminalizing" /\ h.claim = hand[w].claim /\ h.verdict = v
      /\ h.abort = hand[w].abort
  BY <1>1, <1>3 DEF Hand, Phase
<1>5. Put(w, h)
  BY <1>2
<1> HIDE DEF h
<1> QED BY <1>4, <1>5 DEF Turns

LEMMA UncertainTurns ==
  ASSUME HandsSound, NEW w \in Workers, TerminalizeUncertain(w)
  PROVE  \E h : /\ Turns(w, h) /\ h.phase = "settling" /\ h.claim = hand[w].claim
                /\ h.verdict = "none" /\ h.abort = hand[w].abort
<1> DEFINE h == [hand[w] EXCEPT !.phase = "settling", !.verdict = "none"]
<1>1. hand[w] \in Hand
  BY DEF HandsSound
<1>2. /\ h \in Hand /\ h.phase = "settling" /\ h.claim = hand[w].claim /\ h.verdict = "none"
      /\ h.abort = hand[w].abort
  BY <1>1 DEF Hand, Phase
<1>3. Put(w, h)
  BY DEF TerminalizeUncertain
<1> HIDE DEF h
<1> QED BY <1>2, <1>3 DEF Turns

LEMMA AbortTurns ==
  ASSUME HandsSound, NEW w \in Workers, NEW a \in {"lease", "cancel"},
         hand' = [hand EXCEPT ![w].abort = a]
  PROVE  \E h : /\ Turns(w, h) /\ h.phase = hand[w].phase /\ h.claim = hand[w].claim
                /\ h.verdict = hand[w].verdict
<1> DEFINE h == [hand[w] EXCEPT !.abort = a]
<1>1. hand[w] \in Hand
  BY DEF HandsSound
<1>2. h \in Hand /\ h.phase = hand[w].phase /\ h.claim = hand[w].claim /\ h.verdict = hand[w].verdict
  BY <1>1 DEF Hand
<1>3. Put(w, h)
  BY <1>1 DEF Put, HandsSound
<1> HIDE DEF h
<1> QED BY <1>2, <1>3 DEF Turns
-----------------------------------------------------------------------------
(* The types are kept.                                                     *)

\* What a step does not touch stays typed.
LEMMA StaysTyped ==
  ASSUME DepTyped
  PROVE  /\ UNCHANGED storeVars => RowsSound' /\ RowsLive
         /\ UNCHANGED hand => HandsSound'
         /\ UNCHANGED shown => ShownOK'
         /\ UNCHANGED command => CommandOK'
         /\ UNCHANGED request => RequestOK'
         /\ RowsLive /\ UNCHANGED dep => DepsSound'
         /\ RowsLive /\ UNCHANGED tick => TickSound'
<1>1. UNCHANGED storeVars => RowsSound' /\ RowsLive
  BY DEF DepTyped, storeVars, RowsSound, StoreTypeOK, RowsLive
<1>2. UNCHANGED hand => HandsSound'
  BY DEF DepTyped, HandsSound
<1>3. /\ UNCHANGED shown => ShownOK'
      /\ UNCHANGED command => CommandOK'
      /\ UNCHANGED request => RequestOK'
  BY DEF DepTyped, ShownOK, CommandOK, RequestOK
<1>4. RowsLive /\ UNCHANGED dep => DepsSound'
  BY DependencyAssumption DEF DepTyped, RowsLive, DepsSound
<1>5. RowsLive /\ UNCHANGED tick => TickSound'
  BY DependencyAssumption DEF DepTyped, RowsLive, TickSound, Children
<1> QED BY <1>1, <1>2, <1>3, <1>4, <1>5

\* The same for the hand alone.
LEMMA RephasedSound ==
  ASSUME HandsSound, NEW w \in Workers, NEW h, NEW p, Rephased(h, hand[w], p), Turns(w, h),
         \/ hand[w].phase = "claimed" /\ p = "processing"
         \/ hand[w].phase \in InFlight /\ p = "settling"
         \/ ~Active(hand[w]) /\ p \in {"starting", "idle"}
  PROVE  HandsSound'
<1>1. HandSound(w, hand[w])
  BY DEF HandsSound
<1>2. HandSound(w, h)
  BY <1>1 DEF Rephased, HandSound, Active, InFlight
<1> QED BY <1>2, TurnSound

LEMMA ClaimLoopHands ==
  ASSUME DepTyped, NEW w \in Workers, DepClaimLoop(w)
  PROVE  HandsSound'
<1>0. HandsSound /\ hand[w] \in Hand /\ HandSound(w, hand[w])
  BY DEF DepTyped, HandsSound
<1>1. ASSUME NEW t \in Tasks, Serves(w, t), Take(w, t) PROVE HandsSound'
  <2>1. PICK h : /\ Turns(w, h) /\ h.claim # NoClaim
                 /\ h.claim = [task |-> t, att |-> task[t].cur, worker |-> w,
                               gen |-> task[t].gen + 1]
                 /\ h.phase = "claimed" /\ h.verdict = "none"
    BY <1>1, TakeTurns
  <2>2. h.claim.worker = w /\ h.claim.task = t
    BY <2>1
  <2>3. HandSound(w, h)
    BY <1>1, <2>1, <2>2 DEF HandSound, Active
  <2> QED BY <1>0, <2>1, <2>3, TurnSound
<1>2. ASSUME Start(w) PROVE HandsSound'
  <2>1. hand[w].phase = "claimed" /\ (Enter(w, "processing") \/ Put(w, Empty("exited")))
    BY <1>2 DEF Start
  <2>2. ASSUME Enter(w, "processing") PROVE HandsSound'
    BY <1>0, <2>1, <2>2, EnterTurns, RephasedSound DEF Phase
  <2>3. ASSUME Put(w, Empty("exited")) PROVE HandsSound'
    BY <1>0, <2>3, DropTurns, TurnSound
  <2> QED BY <2>1, <2>2, <2>3
<1>3. ASSUME NEW v \in {"done", "failed"}, Finish(w, v) PROVE HandsSound'
  <2>1. PICK h : /\ Turns(w, h) /\ h.phase = "returned" /\ h.claim = hand[w].claim
                 /\ h.verdict = v
    BY <1>0, <1>3, FinishTurns
  <2>2. hand[w].phase = "processing"
    BY <1>3 DEF Finish
  <2>3. HandSound(w, h)
    BY <1>0, <2>1, <2>2 DEF HandSound, Active, InFlight, Verdict
  <2> QED BY <1>0, <2>1, <2>3, TurnSound
<1>4. ASSUME Unwind(w) PROVE HandsSound'
  <2>1. PICK h : /\ Turns(w, h) /\ h.phase = "returned" /\ h.claim = hand[w].claim
                 /\ h.verdict = "cancelled"
    BY <1>0, <1>4, UnwindTurns
  <2>2. hand[w].phase = "processing"
    BY <1>4 DEF Unwind
  <2>3. HandSound(w, h)
    BY <1>0, <2>1, <2>2 DEF HandSound, Active, InFlight, Verdict
  <2> QED BY <1>0, <2>1, <2>3, TurnSound
<1>5. ASSUME Decide(w) PROVE HandsSound'
  <2>1. PICK h : /\ Turns(w, h) /\ h.phase = "terminalizing" /\ h.claim = hand[w].claim
                 /\ h.verdict \in {hand[w].verdict, "cancelled"}
    BY <1>0, <1>5, DecideTurns
  <2>2. hand[w].phase = "returned"
    BY <1>5 DEF Decide
  <2>3. HandSound(w, h)
    BY <1>0, <2>1, <2>2 DEF HandSound, Active, InFlight, Verdict
  <2> QED BY <1>0, <2>1, <2>3, TurnSound
<1>6. ASSUME Terminalize(w) PROVE HandsSound'
  <2>1. hand[w].phase = "terminalizing" /\ (Enter(w, "settling") \/ Conclude(w))
    BY <1>6 DEF Terminalize
  <2>2. ASSUME Enter(w, "settling") PROVE HandsSound'
    BY <1>0, <2>1, <2>2, EnterTurns, RephasedSound DEF Phase, InFlight
  <2>3. ASSUME Conclude(w) PROVE HandsSound'
    BY <1>0, <2>3, ConcludeTurns, TurnSound
  <2> QED BY <2>1, <2>2, <2>3
<1>7. ASSUME TerminalizeUncertain(w) PROVE HandsSound'
  <2>1. PICK h : /\ Turns(w, h) /\ h.phase = "settling" /\ h.claim = hand[w].claim
    BY <1>0, <1>7, UncertainTurns
  <2>2. hand[w].phase = "terminalizing"
    BY <1>7 DEF TerminalizeUncertain
  <2>3. HandSound(w, h)
    BY <1>0, <2>1, <2>2 DEF HandSound, Active, InFlight
  <2> QED BY <1>0, <2>1, <2>3, TurnSound
<1>8. ASSUME SettleItem(w) PROVE HandsSound'
  BY <1>0, <1>8, ConcludeTurns, TurnSound DEF SettleItem, CloseItem
<1> QED BY <1>1, <1>2, <1>3, <1>4, <1>5, <1>6, <1>7, <1>8 DEF DepClaimLoop

LEMMA BackgroundHands ==
  ASSUME DepTyped, NEW w \in Workers, DepBackground(w) \/ Spawn(w) \/ Crash(w)
  PROVE  HandsSound'
<1>0. HandsSound /\ hand[w] \in Hand /\ HandSound(w, hand[w])
  BY DEF DepTyped, HandsSound
<1>1. ASSUME NEW p \in {"starting", "idle"}, Enter(w, p), ~Active(hand[w]) PROVE HandsSound'
  BY <1>0, <1>1, EnterTurns, RephasedSound DEF Phase
<1>2. ASSUME Spawn(w) PROVE HandsSound'
  BY <1>1, <1>2 DEF Spawn, Active, InFlight
<1>3. ASSUME Crash(w) PROVE HandsSound'
  BY <1>0, <1>3, DropTurns, TurnSound DEF Crash
<1>4. ASSUME NEW alive, Recover(w, alive) PROVE HandsSound'
  BY <1>1, <1>4 DEF Recover, Active, InFlight
<1>5. ASSUME NEW a \in {"lease", "cancel"}, hand' = [hand EXCEPT ![w].abort = a]
      PROVE  HandsSound'
  <2>1. PICK h : /\ Turns(w, h) /\ h.phase = hand[w].phase /\ h.claim = hand[w].claim
                 /\ h.verdict = hand[w].verdict
    BY <1>0, <1>5, AbortTurns
  <2>2. HandSound(w, h)
    BY <1>0, <2>1 DEF HandSound, Active
  <2> QED BY <1>0, <2>1, <2>2, TurnSound
<1>6. ASSUME Heartbeat(w) PROVE HandsSound'
  BY <1>5, <1>6, StaysTyped DEF Heartbeat
<1>7. ASSUME NEW t \in Tasks, ConsumeCancel(w, t) PROVE HandsSound'
  <2>1. hand' = [hand EXCEPT ![w].abort = "cancel"] \/ UNCHANGED hand
    BY <1>7 DEF ConsumeCancel
  <2> QED BY <1>5, <2>1, StaysTyped
<1> QED BY <1>2, <1>3, <1>4, <1>6, <1>7 DEF DepBackground

\* The rows.
LEMMA ClaimLoopRows ==
  ASSUME DepTyped, NEW w \in Workers, DepClaimLoop(w)
  PROVE  RowsSound' /\ RowsLive /\ DepsSound'
<1>0. RowsSound /\ DepsSound
  BY DEF DepTyped
<1>1. ASSUME UNCHANGED dep, RowsLive PROVE DepsSound'
  BY <1>1, StaysTyped
<1>2. ASSUME NEW t \in Tasks, Take(w, t), UNCHANGED dep PROVE RowsSound' /\ RowsLive /\ DepsSound'
  BY <1>0, <1>1, <1>2, ClaimSound DEF Take
<1>3. ASSUME Start(w), UNCHANGED dep PROVE RowsSound' /\ RowsLive /\ DepsSound'
  <2>1. hand[w].claim \in Claim
    BY <1>3, HeldSound DEF Start, Active
  <2> QED BY <1>0, <1>1, <1>3, <2>1, RunningSound, StaysTyped DEF Start
<1>4. ASSUME \/ Finish(w, "done") \/ Finish(w, "failed") \/ Unwind(w) \/ Decide(w),
             UNCHANGED dep
      PROVE  RowsSound' /\ RowsLive /\ DepsSound'
  <2>1. UNCHANGED storeVars
    BY <1>4 DEF Finish, Unwind, Decide
  <2> QED BY <1>1, <1>4, <2>1, StaysTyped
<1>5. ASSUME Terminalize(w), UNCHANGED dep PROVE RowsSound' /\ RowsLive /\ DepsSound'
  <2>1. /\ hand[w].phase = "terminalizing"
        /\ MarkItem(hand[w].claim, hand[w].verdict) \/ UNCHANGED storeVars
    BY <1>5 DEF Terminalize
  <2>2. ASSUME MarkItem(hand[w].claim, hand[w].verdict) PROVE RowsSound' /\ RowsLive
    <3> DEFINE t == hand[w].claim.task
               v == hand[w].verdict
    <3>1. v \in Verdict /\ Active(hand[w])
      BY <2>1 DEF DepTyped, HandsSound, HandSound, Active, InFlight
    <3>2. t \in Tasks /\ hand[w].claim.worker = w
      BY <3>1, HeldSound
    <3>3. /\ ~task[t].terminal /\ task[t].owner = w
          /\ Write(t, Closed(task[t], v)) /\ WriteAttempt(t, task[t].cur, v)
          /\ UNCHANGED <<issued, cancelCmd>>
      BY <2>2, <3>2 DEF MarkItem, LeaseHolds
    <3>4. v \in {"done", "failed", "cancelled", "blocked"} /\ v \in AttemptState
      BY <3>1 DEF Verdict, AttemptState
    <3> HIDE DEF t, v
    <3>5. task[t].state # "absent"
      BY <1>0, <3>2, <3>3, RowFields, StoreAssumption DEF Numbered
    <3> QED BY <1>0, <3>2, <3>3, <3>4, <3>5, CloseSound
  <2> QED BY <1>1, <1>5, <2>1, <2>2, StaysTyped
<1>6. ASSUME TerminalizeUncertain(w), UNCHANGED dep PROVE RowsSound' /\ RowsLive /\ DepsSound'
  <2> DEFINE c == hand[w].claim
  <2>1. c.task \in Tasks
    BY <1>6, HeldSound DEF TerminalizeUncertain, Active, InFlight
  <2>2. MarkBlockedUncertain(c)
    BY <1>6 DEF TerminalizeUncertain
  <2> HIDE DEF c
  <2>3. "failed" \in AttemptState
    BY DEF AttemptState
  <2>4. RowsSound' /\ RowsLive
    BY <1>0, <2>1, <2>2, <2>3, CloseSound DEF MarkBlockedUncertain
  <2> QED BY <1>1, <1>6, <2>4
<1>7. ASSUME SettleItem(w) PROVE RowsSound' /\ RowsLive /\ DepsSound'
  <2> DEFINE t == hand[w].claim.task
             v == hand[w].verdict
  <2>1. \/ t \in Children /\ (v = "cancelled" \/ task[t].state = v) /\ SettleChild(t, v)
        \/ UNCHANGED <<storeVars, dep>>
    BY <1>7 DEF SettleItem, NothingToSettle
  <2>2. CASE UNCHANGED <<storeVars, dep>>
    BY <1>1, <2>2, StaysTyped
  <2>3. CASE t \in Children /\ (v = "cancelled" \/ task[t].state = v) /\ SettleChild(t, v)
    <3>1. v \in Verdict \cup {"none"} /\ t \in Tasks /\ task[t].state \in TaskState
      BY <1>0, <2>3, RowFields DEF DepTyped, HandsSound, Hand, Children, TaskRow
    <3>2. v \in Verdict
      BY <2>3, <3>1 DEF TaskState
    <3> HIDE DEF t, v
    <3> QED BY <1>0, <2>3, <3>2, SettleSound
  <2> QED BY <2>1, <2>2, <2>3
<1> QED BY <1>2, <1>3, <1>4, <1>5, <1>6, <1>7 DEF DepClaimLoop

LEMMA BackgroundRows ==
  ASSUME DepTyped, NEW w \in Workers, DepBackground(w) \/ Spawn(w) \/ Crash(w)
  PROVE  RowsSound' /\ RowsLive
<1>0. RowsSound
  BY DEF DepTyped
<1>1. ASSUME NEW alive, Recover(w, alive) PROVE RowsSound' /\ RowsLive
  <2>1. TerminalRow \in [Tasks -> Verdict \cup {"none"}]
    <3>1. ASSUME NEW t \in Tasks PROVE task[t].cur = 0 \/ task[t].cur \in AttemptNo
      BY <1>0, RowFields, StoreAssumption DEF AttemptNo
    <3> QED BY <3>1 DEF DepTyped, ShownOK, TerminalRow
  <2> HIDE DEF TerminalRow
  <2> QED BY <1>0, <1>1, <2>1, RecoverSound, StaysTyped DEF Recover
<1>2. ASSUME Heartbeat(w) PROVE RowsSound' /\ RowsLive
  <2>1. hand[w].claim.task \in Tasks
    BY <1>2, HeldSound DEF Heartbeat, Active
  <2> QED BY <1>0, <1>2, <2>1, RenewSound, StaysTyped DEF Heartbeat
<1>3. ASSUME NEW t \in Tasks, ConsumeCancel(w, t) PROVE RowsSound' /\ RowsLive
  BY <1>0, <1>3 DEF ConsumeCancel, CloseCancelCommand, RowsSound, StoreTypeOK, RowsLive
<1>4. ASSUME Spawn(w) \/ Crash(w) PROVE RowsSound' /\ RowsLive
  BY <1>4, StaysTyped DEF Spawn, Crash
<1> QED BY <1>1, <1>2, <1>3, <1>4 DEF DepBackground

LEMMA AskRows ==
  ASSUME DepTyped, NEW t \in Tasks, NewTask(t) \/ Ask(t)
  PROVE  RowsSound' /\ RowsLive
<1>0. RowsSound
  BY DEF DepTyped
<1>1. CASE NewTask(t)
  BY <1>0, <1>1, EnqueueSound DEF NewTask
<1>2. CASE RetryTask(t)
  BY <1>0, <1>2, RetrySound DEF RetryTask
<1>3. CASE AskCancelQueued(t) \/ AskCancelRunning(t) \/ AskSweep(t)
  BY <1>3, StaysTyped DEF AskCancelQueued, AskCancelRunning, AskSweep, Read
<1> QED BY <1>1, <1>2, <1>3 DEF Ask

\* What the request being served is about.
LEMMA ServedSound ==
  ASSUME DepTyped, NEW op, NEW step, Serving(op, step)
  PROVE  /\ request # NoRequest /\ request \in Request /\ request.task \in Tasks
         /\ request.att \in AttemptNo
         /\ request.op = op /\ request.step = step
         /\ op = "cancel-running" => request.worker \in Workers
BY DEF DepTyped, RequestOK, Request, Serving

LEMMA UnfencedSound ==
  ASSUME RowsSound, NEW t \in Tasks, NEW n, NEW v \in {"failed", "cancelled"},
         MarkTerminalUnfenced(t, n, v)
  PROVE  RowsSound' /\ RowsLive
<1>1. v \in {"done", "failed", "cancelled", "blocked"} /\ v \in AttemptState
  BY DEF AttemptState
<1> QED BY <1>1, CloseSound DEF MarkTerminalUnfenced

LEMMA ServeRows ==
  ASSUME DepTyped, DepServe
  PROVE  RowsSound' /\ RowsLive /\ DepsSound'
<1>0. RowsSound /\ DepsSound
  BY DEF DepTyped
<1> DEFINE t == request.task
<1>1. ASSUME CancelQueued PROVE RowsSound' /\ RowsLive
  <2>1. t \in Tasks
    BY <1>1, ServedSound DEF CancelQueued
  <2> QED BY <1>0, <1>1, <2>1, UnfencedSound, StaysTyped DEF CancelQueued
<1>2. ASSUME CancelRunning PROVE RowsSound' /\ RowsLive
  <2>1. t \in Tasks
    BY <1>2, ServedSound DEF CancelRunning
  <2>2. RequestCancelRunning(t) \/ RequestCancelIdle(t) \/ UNCHANGED storeVars
    BY <1>2 DEF CancelRunning
  <2> QED BY <1>0, <2>1, <2>2, UnfencedSound, CancelSound, StaysTyped DEF RequestCancelIdle
<1>3. ASSUME SendCancel PROVE RowsSound' /\ RowsLive
  <2>1. t \in Tasks
    BY <1>3, ServedSound DEF SendCancel
  <2> QED
    BY <1>0, <1>3, <2>1 DEF SendCancel, OpenCancelCommand, RowsSound, StoreTypeOK, RowsLive
<1>4. ASSUME SweepFail PROVE RowsSound' /\ RowsLive
  <2>1. t \in Tasks
    BY <1>4, ServedSound DEF SweepFail
  <2> QED BY <1>0, <1>4, <2>1, UnfencedSound, StaysTyped DEF SweepFail
<1>5. ASSUME NEW up, ProbeDaemons(up) PROVE RowsSound' /\ RowsLive
  BY <1>5, StaysTyped DEF ProbeDaemons
<1>6. ASSUME SettleRequest PROVE RowsSound' /\ RowsLive /\ DepsSound'
  <2>1. \/ \E v \in {"failed", "cancelled"} : t \in Children /\ SettleChild(t, v)
        \/ UNCHANGED <<storeVars, dep>>
    BY <1>6 DEF SettleRequest, NothingToSettle
  <2> QED BY <1>0, <2>1, SettleSound, StaysTyped DEF Verdict
<1> QED BY <1>1, <1>2, <1>3, <1>4, <1>5, <1>6, StaysTyped DEF DepServe

\* The tracker, the commands and the request.
LEMMA ShowSound ==
  ASSUME DepTyped, NEW w \in Workers, Active(hand[w]), NEW v \in Verdict,
         Show(hand[w].claim, v)
  PROVE  ShownOK'
<1>1. hand[w].claim.task \in Tasks /\ hand[w].claim.att \in AttemptNo
  BY HeldSound
<1> QED BY <1>1 DEF Show, DepTyped, ShownOK

LEMMA ClaimLoopRest ==
  ASSUME DepTyped, NEW w \in Workers, DepClaimLoop(w)
  PROVE  ShownOK' /\ UNCHANGED <<command, request>>
<1>1. UNCHANGED <<command, request>>
  BY DEF DepClaimLoop, SettleItem, CloseItem, Take, Start, Finish, Unwind, Decide, Terminalize,
     TerminalizeUncertain
<1>2. UNCHANGED shown => ShownOK'
  BY StaysTyped
<1>3. ASSUME \/ Finish(w, "done") \/ Finish(w, "failed") \/ Unwind(w) \/ SettleItem(w)
      PROVE  ShownOK'
  <2>1. Active(hand[w])
    BY <1>3 DEF Finish, Unwind, SettleItem, CloseItem, Active, InFlight
  <2>2. UNCHANGED shown \/ \E v \in Verdict : Show(hand[w].claim, v)
    BY <1>3 DEF Finish, Unwind, SettleItem, CloseItem, Verdict
  <2> QED BY <1>2, <2>1, <2>2, ShowSound
<1>4. ShownOK'
  BY <1>2, <1>3 DEF DepClaimLoop, Take, Start, Decide, Terminalize, TerminalizeUncertain
<1> QED BY <1>1, <1>4

LEMMA BackgroundRest ==
  ASSUME DepTyped, NEW w \in Workers, DepBackground(w) \/ Spawn(w) \/ Crash(w)
  PROVE  CommandOK' /\ UNCHANGED <<shown, request>>
<1>1. UNCHANGED <<shown, request>>
  BY DEF DepBackground, Recover, Heartbeat, ConsumeCancel, Spawn, Crash
<1>2. ASSUME NEW t \in Tasks, ConsumeCancel(w, t) PROVE CommandOK'
  BY <1>2 DEF ConsumeCancel, DepTyped, CommandOK
<1>3. CommandOK'
  BY <1>2, StaysTyped DEF DepBackground, Recover, Heartbeat, Spawn, Crash
<1> QED BY <1>1, <1>3

LEMMA AskRest ==
  ASSUME DepTyped, NEW t \in Tasks, NewTask(t) \/ Ask(t)
  PROVE  RequestOK' /\ UNCHANGED <<hand, shown, command>>
<1>1. UNCHANGED <<hand, shown, command>>
  BY DEF NewTask, Ask, RetryTask, AskCancelQueued, AskCancelRunning, AskSweep, Read, daemonVars
<1>2. ASSUME NEW op \in {"cancel-queued", "cancel-running", "sweep"},
             Read(op, t), task[t].state # "absent",
             op = "cancel-running" => task[t].state \in OwnedState
      PROVE  RequestOK'
  <2>1. /\ task[t].cur \in AttemptNo /\ task[t].owner \in Workers \cup {NoWorker}
        /\ (op = "cancel-running" => task[t].owner \in Workers)
    BY <1>2, RowFields DEF DepTyped, Numbered
  <2> DEFINE r == [op |-> op, task |-> t, att |-> task[t].cur, worker |-> task[t].owner,
                   step |-> "read"]
  <2>2. r \in Request /\ r.op = op /\ r.worker = task[t].owner
    BY <2>1 DEF Request
  <2>3. request' = r
    BY <1>2 DEF Read
  <2> HIDE DEF r
  <2> QED BY <2>1, <2>2, <2>3 DEF RequestOK
<1>3. ASSUME NewTask(t) \/ RetryTask(t) PROVE RequestOK'
  BY <1>3, StaysTyped DEF NewTask, RetryTask, daemonVars
<1>4. ASSUME AskCancelQueued(t) \/ AskCancelRunning(t) \/ AskSweep(t) PROVE RequestOK'
  BY <1>2, <1>4 DEF AskCancelQueued, AskCancelRunning, AskSweep, OwnedState
<1> QED BY <1>1, <1>3, <1>4 DEF Ask

LEMMA ServeRest ==
  ASSUME DepTyped, DepServe
  PROVE  ShownOK' /\ CommandOK' /\ RequestOK' /\ UNCHANGED hand
<1>0. /\ request # NoRequest /\ request \in Request
      /\ request.op = "cancel-running" => request.worker \in Workers
  BY DEF DepTyped, RequestOK, DepServe, CancelQueued, CancelRunning, SendCancel, ProbeDaemons,
     SweepFail, SettleRequest, CloseRequest, Serving
<1>1. UNCHANGED hand
  BY DEF DepServe, CancelQueued, CancelRunning, SendCancel, ProbeDaemons, SweepFail,
     SettleRequest, CloseRequest
<1>2. ShownOK'
  <2>1. CASE UNCHANGED shown
    BY <2>1, StaysTyped
  <2>2. ASSUME SettleRequest PROVE ShownOK'
    <3>1. PICK v \in Verdict : shown' = [shown EXCEPT ![request.task][request.att] = v]
      BY <2>2 DEF SettleRequest, CloseRequest, Verdict
    <3>2. request.task \in Tasks /\ request.att \in AttemptNo
      BY <1>0 DEF Request
    <3> QED BY <3>1, <3>2 DEF DepTyped, ShownOK
  <2> QED
    BY <2>1, <2>2 DEF DepServe, CancelQueued, CancelRunning, SendCancel, ProbeDaemons, SweepFail
<1>3. CommandOK'
  <2>1. ASSUME SendCancel PROVE CommandOK'
    <3> DEFINE m == [worker |-> request.worker, att |-> request.att]
    <3>1. m \in [worker : Workers, att : AttemptNo]
      BY <1>0, <2>1 DEF SendCancel, Serving, Request
    <3>2. command' = [command EXCEPT ![request.task] = m]
      BY <2>1 DEF SendCancel
    <3> HIDE DEF m
    <3> QED BY <3>1, <3>2 DEF DepTyped, CommandOK
  <2> QED
    BY <2>1, StaysTyped DEF DepServe, CancelQueued, CancelRunning, ProbeDaemons, SweepFail,
       SettleRequest, CloseRequest
<1>4. RequestOK'
  <2>1. \/ request' = NoRequest
        \/ \E st \in {"probed", "marked"} : request' = [request EXCEPT !.step = st]
    BY DEF DepServe, CancelQueued, CancelRunning, SendCancel, ProbeDaemons, SweepFail,
       SettleRequest, CloseRequest, Mark
  <2>2. ASSUME NEW st \in {"probed", "marked"}, request' = [request EXCEPT !.step = st]
        PROVE  RequestOK'
    BY <1>0, <2>2 DEF RequestOK, Request
  <2> QED BY <2>1, <2>2 DEF RequestOK
<1> QED BY <1>1, <1>2, <1>3, <1>4

\* What the steps of the scheduler and the creation of a dependency leave alone.
LEMMA SchedulerRest ==
  ASSUME DepTyped, NEW c \in Children, CreateDependency(c) \/ SchedulerRead(c) \/ SchedulerWrite
  PROVE  UNCHANGED <<hand, shown, command, request>>
BY DEF CreateDependency, SchedulerRead, SchedulerWrite, vars, daemonVars

LEMMA DepTypedStep ==
  ASSUME DepTyped, [DepNext]_depVars
  PROVE  DepTyped' /\ RowsLive
<1>1. ASSUME NEW w \in Workers, DepClaimLoop(w), UNCHANGED tick PROVE DepTyped' /\ RowsLive
  BY <1>1, ClaimLoopHands, ClaimLoopRows, ClaimLoopRest, StaysTyped DEF DepTyped
<1>2. ASSUME NEW w \in Workers, DepBackground(w) \/ Spawn(w) \/ Crash(w), UNCHANGED <<dep, tick>>
      PROVE  DepTyped' /\ RowsLive
  BY <1>2, BackgroundHands, BackgroundRows, BackgroundRest, StaysTyped DEF DepTyped
<1>3. ASSUME DepServe, UNCHANGED tick PROVE DepTyped' /\ RowsLive
  BY <1>3, ServeRows, ServeRest, StaysTyped DEF DepTyped
<1>4. ASSUME NEW t \in Tasks, NewTask(t) \/ Ask(t), UNCHANGED <<dep, tick>>
      PROVE  DepTyped' /\ RowsLive
  BY <1>4, AskRows, AskRest, StaysTyped DEF DepTyped
<1>5. ASSUME NEW c \in Children, CreateDependency(c) PROVE DepTyped' /\ RowsLive
  <2>1. UNCHANGED tick
    BY <1>5 DEF CreateDependency
  <2>2. RowsSound' /\ RowsLive /\ DepsSound'
    BY <1>5, CreateSound DEF DepTyped
  <2> QED BY <1>5, <2>1, <2>2, SchedulerRest, StaysTyped DEF DepTyped
<1>6. ASSUME NEW c \in Children, SchedulerRead(c) PROVE DepTyped' /\ RowsLive
  <2>1. UNCHANGED storeVars /\ UNCHANGED dep
    BY <1>6 DEF SchedulerRead, vars
  <2>2. TickSound'
    <3>1. /\ task[c].run # 0
          /\ \E v \in {"done", "failed"} : tick' = [child |-> c, verdict |-> v]
      BY <1>6 DEF SchedulerRead
    <3>2. c \in Tasks /\ UNCHANGED task
      BY <2>1 DEF storeVars, Children
    <3>3. task[c].state # "absent" /\ task[Parent].state # "absent"
      BY <1>6, <3>1, <3>2, RowFields DEF DepTyped, DepsSound, SchedulerRead, Numbered
    <3> HIDE DEF Children
    <3> QED BY <3>1, <3>2, <3>3 DEF TickSound
  <2> QED BY <1>6, <2>1, <2>2, SchedulerRest, StaysTyped DEF DepTyped
<1>7. ASSUME SchedulerWrite PROVE DepTyped' /\ RowsLive
  <2>1. RowsSound' /\ RowsLive /\ dep' \in [Children -> DepStatus]
    BY <1>7, SchedulerSound
  <2>2. ASSUME NEW d \in Children, dep'[d] # "none" PROVE task'[Parent].state # "absent"
    <3>1. task[Parent].state # "absent"
      BY <1>7 DEF SchedulerWrite, DepTyped, TickSound
    <3> QED BY <2>1, <3>1, DependencyAssumption DEF RowsLive
  <2>3. tick' = NoTick
    BY <1>7 DEF SchedulerWrite
  <2>4. UNCHANGED <<hand, shown, command, request>>
    BY <1>7 DEF SchedulerWrite, daemonVars
  <2> QED BY <2>1, <2>2, <2>3, <2>4, StaysTyped DEF DepTyped, DepsSound, TickSound
<1>8. CASE UNCHANGED depVars
  BY <1>8, StaysTyped DEF DepTyped, depVars, vars, daemonVars
<1> QED BY <1>1, <1>2, <1>3, <1>4, <1>5, <1>6, <1>7, <1>8, DependencyAssumption DEF DepNext

LEMMA DepTypedInit == DepInit => DepTyped
<1> SUFFICES ASSUME DepInit PROVE DepTyped
  OBVIOUS
<1>1. \A t \in Tasks : task[t] = AbsentRow
  BY DEF DepInit, DaemonInit, StoreInit
<1>2. RowsSound
  <2>1. StoreTypeOK
    BY StoreInvInit DEF DepInit, DaemonInit, StoreInv
  <2>2. Numbered(AbsentRow)
    BY DEF Numbered, AbsentRow, OwnedState
  <2> QED BY <1>1, <2>1, <2>2 DEF RowsSound
<1>3. HandsSound
  <2>1. Empty("off") \in Hand /\ Empty("off").claim = NoClaim /\ Empty("off").phase = "off"
    BY EmptyHand DEF Phase
  <2>2. hand = [w \in Workers |-> Empty("off")]
    BY DEF DepInit, DaemonInit
  <2> HIDE DEF Empty
  <2> QED BY <2>1, <2>2 DEF HandsSound, HandSound, Active, InFlight
<1>4. ShownOK /\ CommandOK /\ RequestOK
  BY DEF DepInit, DaemonInit, ShownOK, CommandOK, RequestOK
<1> QED BY <1>2, <1>3, <1>4 DEF DepTyped, DepInit, DepsSound, TickSound, DepStatus

\* Type correctness of the dependencies' module.
THEOREM DependencyTypes == DepSpec => []DepTypeOK
<1>1. DepTyped => DepTypeOK
  BY DEF DepTyped, DepTypeOK, DaemonTypeOK, RowsSound, HandsSound, ShownOK, CommandOK,
     RequestOK, DepsSound, TickSound
<1>2. DepTyped /\ [DepNext]_depVars => DepTyped'
  BY DepTypedStep
<1> QED BY <1>1, <1>2, DepTypedInit, PTL DEF DepSpec

-----------------------------------------------------------------------------
(* One child.                                                              *)

\* Attempt n of c is over.
Over(c, n) == n < task[c].cur \/ (n = task[c].cur /\ task[c].terminal)

EndedAs(c, v) == \E n \in AttemptNo : attempt[c][n] = v
Unsettled(c) == dep[c] \in {"none", "pending"}
Answered(c, v) == EndedAs(c, v) \/ ~Unsettled(c)

\* A tick of the scheduler is about c; one that read its `done` row.
Ticked(c) == tick # NoTick /\ tick.child = c
ReadDone(c) == Ticked(c) /\ tick.verdict = "done"

\* The daemon w holds an item of c; the row of c still carries the lease of that item.
On(w, c) == Active(hand[w]) /\ hand[w].claim.task = c
Att(w) == hand[w].claim.att
Has(w, c) == task[c].owner = w /\ task[c].gen = hand[w].claim.gen

\* The row of a child and the verdicts of its attempts.
RowFits(c) ==
  /\ task[c].run = task[c].cur /\ task[c].lease # "expired"
  /\ task[c].state # "waiting_dependencies"
  /\ task[c].state = "absent" => Unsettled(c)
  /\ task[c].terminal <=> task[c].state \in Ended
  /\ \A n \in AttemptNo : n > task[c].cur => attempt[c][n] = "absent" /\ shown[c][n] = "none"
  /\ task[c].state \in Verdict => attempt[c][task[c].cur] = task[c].state
  /\ task[c].state \notin Ended \cup {"absent"} => attempt[c][task[c].cur] \notin Verdict
  /\ task[c].state = "queued" =>
       task[c].owner = NoWorker /\ shown[c][task[c].cur] = "none"

\* A daemon that holds an item of c has its lease, or the attempt is over.  One whose
\* run has not returned knows of no `done`; one that failed has shown it, unless that
\* is over too; and what is left to settle after a cancellation or an uncertain write
\* has ended.
HandFits(w, c) ==
  /\ Has(w, c) \/ Over(c, Att(w))
  /\ Has(w, c) => task[c].cur = Att(w)
  /\ hand[w].phase = "claimed" => task[c].cur = Att(w)
  /\ hand[w].phase \in {"claimed", "processing"} /\ task[c].cur = Att(w) =>
       shown[c][Att(w)] # "done" /\ ~ReadDone(c)
  /\ hand[w].verdict = "failed" /\ ~Over(c, Att(w)) =>
       shown[c][Att(w)] = "failed" /\ ~ReadDone(c)
  /\ hand[w].phase = "settling" /\ hand[w].verdict \in {"none", "cancelled"} =>
       Over(c, Att(w))
  /\ hand[w].phase = "settling" /\ hand[w].verdict = "cancelled" => Answered(c, "cancelled")

\* Two daemons never hold the same attempt.
ApartOn(c) == \A w, u \in Workers : On(w, c) /\ On(u, c) /\ Att(w) = Att(u) => w = u

\* A child that failed, and whose dependency nobody has settled, will not be taken for
\* done by the scheduler while some daemon may still settle it as failed.
FailedFits(c) ==
  Unsettled(c) /\ task[c].state = "failed" =>
    /\ shown[c][task[c].cur] = "done" \/ ReadDone(c) =>
         \A w \in Workers : On(w, c) => Att(w) = task[c].cur /\ hand[w].verdict # "failed"
    /\ \A w \in Workers :
         On(w, c) /\ hand[w].phase = "processing" /\ Att(w) = task[c].cur =>
           \A u \in Workers : On(u, c) => u = w

TickFits(c) ==
  ReadDone(c) =>
    /\ dep[c] # "failed"
    /\ ~task[c].terminal => shown[c][task[c].cur] = "done"

\* A request to cancel or sweep a queued child that has yet to write it.
Pending(c) ==
  /\ request # NoRequest /\ request.task = c
  /\ request.op # "cancel-running" /\ request.step # "marked"

\* It finds the child as it read it, but for a claim; nobody has shown a verdict.
PendingFits(c) ==
  Pending(c) =>
    /\ task[c].state \in {"queued", "claimed", "running"}
    /\ shown[c][task[c].cur] = "none" /\ ~Ticked(c)
    /\ request.op = "cancel-queued" => request.att = task[c].cur
    /\ \A w \in Workers : On(w, c) /\ ~Over(c, Att(w)) =>
         hand[w].phase \in {"claimed", "processing"} /\ hand[w].abort = "no"
    /\ request.step = "probed" => \A w \in Workers : On(w, c) => ~Over(c, Att(w))

\* A request that wrote: its attempt ended as it settles it, or is being cancelled.
MarkedFits(c) ==
  request # NoRequest /\ request.task = c =>
    /\ request.att <= task[c].cur
    /\ request.step = "marked" =>
         IF request.op = "cancel-running"
         THEN Over(c, request.att) \/ task[c].state = "cancel_requested"
         ELSE /\ Over(c, request.att)
              /\ Answered(c, IF request.op = "sweep" THEN "failed" ELSE "cancelled")

CommandFits(c) ==
  command[c] # NoCommand =>
    /\ command[c].att <= task[c].cur
    /\ Over(c, command[c].att) \/ task[c].state = "cancel_requested"

ReasonFor(c) ==
  /\ dep[c] = "satisfied" => EndedAs(c, "done")
  /\ dep[c] = "failed" => EndedAs(c, "failed")
  /\ dep[c] = "cancelled" => EndedAs(c, "cancelled")

ChildFits(c) ==
  /\ RowFits(c)
  /\ \A w \in Workers : On(w, c) => HandFits(w, c)
  /\ ApartOn(c)
  /\ FailedFits(c) /\ TickFits(c)
  /\ PendingFits(c) /\ MarkedFits(c) /\ CommandFits(c)
  /\ ReasonFor(c)

\* The row of c, and what is recorded of its attempts, are left alone.
SameRow(c) == task'[c] = task[c] /\ attempt'[c] = attempt[c]

\* What the others hold or ask of c is left alone, or let go.
HandsLeave(c) == \A w \in Workers : On(w, c)' => On(w, c) /\ hand'[w] = hand[w]
AskedLess(c) == request' # NoRequest /\ request'.task = c => request' = request
TickedLess(c) == Ticked(c)' => tick' = tick
CommandLess(c) == command'[c] \in {command[c], NoCommand}

\* A step that leaves the record of c alone and only lets go of it keeps it fit.
LEMMA Loosened ==
  ASSUME NEW c \in Children, ChildFits(c), SameRow(c), shown'[c] = shown[c],
         dep'[c] = dep[c] \/ (dep[c] = "none" /\ dep'[c] = "pending"),
         HandsLeave(c), AskedLess(c), TickedLess(c), CommandLess(c)
  PROVE  ChildFits(c)'
<1>1. (Unsettled(c)' <=> Unsettled(c)) /\ (\A v : Answered(c, v)' <=> Answered(c, v))
  BY DEF SameRow, Unsettled, Answered, EndedAs
<1>2. (ReadDone(c)' => ReadDone(c)) /\ (Ticked(c)' => Ticked(c))
  BY DEF TickedLess, ReadDone, Ticked
<1>3. \A n : Over(c, n)' <=> Over(c, n)
  BY DEF SameRow, Over
<1>4. RowFits(c)'
  BY <1>1 DEF ChildFits, RowFits, SameRow
<1>5. ASSUME NEW w \in Workers, On(w, c)' PROVE HandFits(w, c)'
  <2>1. HandFits(w, c) /\ hand'[w] = hand[w]
    BY <1>5 DEF ChildFits, HandsLeave
  <2> QED BY <1>1, <1>2, <1>3, <2>1 DEF HandFits, Has, Att, SameRow
<1>6. ApartOn(c)'
  BY DEF ChildFits, ApartOn, HandsLeave, Att
<1>7. FailedFits(c)'
  BY <1>1, <1>2 DEF ChildFits, FailedFits, HandsLeave, Att, SameRow
<1>8. TickFits(c)'
  BY <1>1, <1>2 DEF ChildFits, TickFits, SameRow
<1>9. PendingFits(c)'
  BY <1>2, <1>3 DEF ChildFits, PendingFits, Pending, AskedLess, HandsLeave, Att, SameRow
<1>10. MarkedFits(c)'
  BY <1>1, <1>3 DEF ChildFits, MarkedFits, AskedLess, SameRow
<1>11. CommandFits(c)'
  BY <1>3 DEF ChildFits, CommandFits, CommandLess, SameRow
<1>12. ReasonFor(c)'
  BY DEF ChildFits, ReasonFor, SameRow, EndedAs
<1> QED BY <1>4, <1>5, <1>6, <1>7, <1>8, <1>9, <1>10, <1>11, <1>12 DEF ChildFits

\* The daemon w turns the item of c that it holds.
TurnsOn(w, c, h) ==
  /\ On(w, c) /\ h.claim = hand[w].claim
  /\ hand'[w] = h /\ \A u \in Workers \ {w} : hand'[u] = hand[u]
  /\ SameRow(c) /\ UNCHANGED <<dep, tick, request>>

\* It has shown nothing.
LEMMA HandTurned ==
  ASSUME NEW c \in Children, ChildFits(c), NEW w \in Workers, NEW h, TurnsOn(w, c, h),
         shown'[c] = shown[c], CommandLess(c), HandFits(w, c)',
         h.verdict = hand[w].verdict \/ h.verdict # "failed",
         h.phase = "processing" => hand[w].phase = "processing" \/ task[c].state # "failed",
         Pending(c) /\ ~Over(c, Att(w)) =>
           h.phase \in {"claimed", "processing"} /\ h.abort = "no"
  PROVE  ChildFits(c)'
<1>0. \A u \in Workers : /\ On(u, c)' => On(u, c)
                         /\ Att(u)' = Att(u)
                         /\ u # w => hand'[u] = hand[u]
  BY DEF TurnsOn, On, Att
<1>1. (Unsettled(c)' <=> Unsettled(c)) /\ (\A v : Answered(c, v)' <=> Answered(c, v))
  BY DEF TurnsOn, SameRow, Unsettled, Answered, EndedAs
<1>2. (ReadDone(c)' <=> ReadDone(c)) /\ (Ticked(c)' <=> Ticked(c))
  BY DEF TurnsOn, ReadDone, Ticked
<1>3. \A n : Over(c, n)' <=> Over(c, n)
  BY DEF TurnsOn, SameRow, Over
<1>4. RowFits(c)'
  BY <1>1 DEF ChildFits, RowFits, TurnsOn, SameRow
<1>5. ASSUME NEW u \in Workers, On(u, c)' PROVE HandFits(u, c)'
  <2>1. CASE u = w
    BY <2>1
  <2>2. CASE u # w
    BY <1>0, <1>1, <1>2, <1>3, <1>5, <2>2 DEF ChildFits, HandFits, Has, TurnsOn, SameRow
  <2> QED BY <2>1, <2>2
<1>6. ApartOn(c)'
  BY <1>0 DEF ChildFits, ApartOn
<1>7. FailedFits(c)'
  <2> SUFFICES ASSUME Unsettled(c)', task'[c].state = "failed" PROVE FailedFits(c)'
    BY DEF FailedFits
  <2>1. Unsettled(c) /\ task[c].state = "failed" /\ task'[c] = task[c]
    BY <1>1 DEF TurnsOn, SameRow
  <2>2. ASSUME shown'[c][task'[c].cur] = "done" \/ ReadDone(c)', NEW u \in Workers, On(u, c)'
        PROVE  Att(u)' = task'[c].cur /\ hand'[u].verdict # "failed"
    <3>1. On(u, c) /\ Att(u) = task[c].cur /\ hand[u].verdict # "failed"
      BY <1>0, <1>2, <2>1, <2>2 DEF ChildFits, FailedFits
    <3> QED BY <1>0, <2>1, <3>1 DEF TurnsOn
  <2>3. ASSUME NEW u \in Workers, On(u, c)', hand'[u].phase = "processing",
               Att(u)' = task'[c].cur, NEW x \in Workers, On(x, c)'
        PROVE  x = u
    <3>1. hand[u].phase = "processing"
      BY <1>0, <2>1, <2>3 DEF TurnsOn
    <3> QED BY <1>0, <2>1, <2>3, <3>1 DEF ChildFits, FailedFits
  <2> QED BY <2>2, <2>3 DEF FailedFits
<1>8. TickFits(c)'
  BY <1>1, <1>2 DEF ChildFits, TickFits, TurnsOn, SameRow
<1>9. PendingFits(c)'
  <2> SUFFICES ASSUME Pending(c)' PROVE PendingFits(c)'
    BY DEF PendingFits
  <2>1. Pending(c) /\ task'[c] = task[c] /\ request' = request
    BY DEF Pending, TurnsOn, SameRow
  <2>2. ASSUME NEW u \in Workers, On(u, c)', ~Over(c, Att(u))'
        PROVE  hand'[u].phase \in {"claimed", "processing"} /\ hand'[u].abort = "no"
    <3>1. On(u, c) /\ ~Over(c, Att(u))
      BY <1>0, <1>3, <2>2
    <3> QED BY <1>0, <2>1, <3>1 DEF ChildFits, PendingFits, TurnsOn
  <2>3. \A u \in Workers : On(u, c)' /\ Over(c, Att(u))' => On(u, c) /\ Over(c, Att(u))
    BY <1>0, <1>3
  <2> QED BY <1>2, <2>1, <2>2, <2>3 DEF ChildFits, PendingFits, TurnsOn
<1>10. MarkedFits(c)'
  BY <1>1, <1>3 DEF ChildFits, MarkedFits, TurnsOn, SameRow
<1>11. CommandFits(c)'
  BY <1>3 DEF ChildFits, CommandFits, CommandLess, TurnsOn, SameRow
<1>12. ReasonFor(c)'
  BY DEF ChildFits, ReasonFor, TurnsOn, SameRow, EndedAs
<1> QED BY <1>4, <1>5, <1>6, <1>7, <1>8, <1>9, <1>10, <1>11, <1>12 DEF ChildFits

\* The attempt a daemon holds is one of the child's.
LEMMA HeldNumbers ==
  ASSUME DepTyped, NEW c \in Children, ChildFits(c), NEW w \in Workers, On(w, c)
  PROVE  /\ HandFits(w, c) /\ HandSound(w, hand[w]) /\ Serves(w, c)
         /\ Att(w) \in AttemptNo /\ task[c].cur \in AttemptNo /\ Att(w) <= task[c].cur
         /\ Att(w) \in Nat /\ task[c].cur \in Nat
         /\ task[c].state = "queued" => Att(w) < task[c].cur
<1>1. HandFits(w, c) /\ RowFits(c) /\ HandSound(w, hand[w]) /\ Serves(w, c)
  BY DEF ChildFits, DepTyped, HandsSound, HandSound, On
<1>2. Att(w) \in AttemptNo /\ c \in Tasks
  BY HeldSound DEF On, Att, Children
<1>3. task[c].cur \in 0 .. MaxAttempt
  BY <1>2, RowFields DEF DepTyped
<1>4. Att(w) \in Nat /\ task[c].cur \in Nat /\ Att(w) <= task[c].cur
  BY <1>1, <1>2, <1>3, StoreAssumption DEF AttemptNo, HandFits, Over
<1>5. task[c].cur \in AttemptNo
  BY <1>2, <1>3, <1>4, StoreAssumption DEF AttemptNo
<1>6. ASSUME task[c].state = "queued" PROVE Att(w) < task[c].cur
  <2>1. ~task[c].terminal /\ ~Has(w, c)
    BY <1>1, <1>6, StoreAssumption DEF RowFits, Has, Ended
  <2> QED BY <1>1, <2>1 DEF HandFits, Over
<1> QED BY <1>1, <1>2, <1>4, <1>5, <1>6

\* It has returned, and shown the verdict v.
LEMMA HandShown ==
  ASSUME DepTyped, NEW c \in Children, ChildFits(c), NEW w \in Workers, NEW h,
         TurnsOn(w, c, h), NEW v \in Verdict, Show(hand[w].claim, v), UNCHANGED command,
         hand[w].phase = "processing", h.phase = "returned", h.verdict = v,
         Pending(c) => Over(c, Att(w))
  PROVE  ChildFits(c)'
<1> DEFINE n == Att(w)
           cur == task[c].cur
<1>0. \A u \in Workers : /\ On(u, c)' => On(u, c)
                         /\ Att(u)' = Att(u)
                         /\ u # w => hand'[u] = hand[u]
  BY DEF TurnsOn, On, Att
<1>1. (Unsettled(c)' <=> Unsettled(c)) /\ (\A x : Answered(c, x)' <=> Answered(c, x))
  BY DEF TurnsOn, SameRow, Unsettled, Answered, EndedAs
<1>2. (ReadDone(c)' <=> ReadDone(c)) /\ (Ticked(c)' <=> Ticked(c))
  BY DEF TurnsOn, ReadDone, Ticked
<1>3. \A m : Over(c, m)' <=> Over(c, m)
  BY DEF TurnsOn, SameRow, Over
<1>a. /\ HandFits(w, c) /\ On(w, c) /\ c \in Tasks
      /\ n \in AttemptNo /\ cur \in AttemptNo /\ n <= cur /\ n \in Nat /\ cur \in Nat
      /\ task[c].state = "queued" => n < cur
  BY HeldNumbers DEF TurnsOn, Children
<1>b. \A m \in AttemptNo : shown'[c][m] = IF m = n THEN v ELSE shown[c][m]
  BY <1>a DEF Show, Att, On, DepTyped, ShownOK
<1>c. task'[c] = task[c] /\ hand'[w] = h
  BY DEF TurnsOn, SameRow
<1>d. \A u \in Workers : On(u, c) /\ Att(u) = n => u = w
  BY <1>a DEF ChildFits, ApartOn
<1>e. n = cur => shown[c][cur] # "done" /\ ~ReadDone(c)
  BY <1>a DEF HandFits
<1> HIDE DEF n, cur
<1>4. RowFits(c)'
  <2>1. \A m \in AttemptNo : m > cur => m # n
    BY <1>a DEF AttemptNo
  <2>2. task[c].state = "queued" => shown'[c][cur] = "none"
    BY <1>a, <1>b DEF ChildFits, RowFits, cur
  <2>3. \A m \in AttemptNo : m > cur => shown'[c][m] = "none"
    BY <1>b, <2>1 DEF ChildFits, RowFits, cur
  <2> QED BY <1>1, <2>2, <2>3 DEF ChildFits, RowFits, TurnsOn, SameRow, cur
<1>5. ASSUME NEW u \in Workers, On(u, c)' PROVE HandFits(u, c)'
  <2>1. CASE u = w
    <3>1. ASSUME ~Over(c, n) PROVE n = cur
      BY <1>a, <3>1 DEF HandFits, n, cur
    <3>2. v = "failed" /\ ~Over(c, n) => shown'[c][n] = "failed" /\ ~ReadDone(c)'
      BY <1>2, <1>a, <1>b, <1>e, <3>1
    <3>3. Has(w, c)' <=> Has(w, c)
      BY <1>c DEF Has, TurnsOn
    <3> QED BY <1>0, <1>3, <1>a, <1>c, <2>1, <3>2, <3>3 DEF HandFits, n
  <2>2. CASE u # w
    <3>1. On(u, c) /\ Att(u) # n /\ Att(u) \in AttemptNo /\ HandFits(u, c)
      BY <1>0, <1>5, <1>d, <2>2, HeldNumbers
    <3>2. shown'[c][Att(u)] = shown[c][Att(u)]
      BY <1>b, <3>1
    <3> QED BY <1>0, <1>1, <1>2, <1>3, <1>c, <2>2, <3>1, <3>2 DEF HandFits, Has
  <2> QED BY <2>1, <2>2
<1>6. ApartOn(c)'
  BY <1>0 DEF ChildFits, ApartOn
<1>7. FailedFits(c)'
  <2> SUFFICES ASSUME Unsettled(c)', task'[c].state = "failed" PROVE FailedFits(c)'
    BY DEF FailedFits
  <2>0. Unsettled(c) /\ task[c].state = "failed"
    BY <1>1, <1>c
  <2>1. /\ shown[c][cur] = "done" \/ ReadDone(c) =>
             \A u \in Workers : On(u, c) => Att(u) = cur /\ hand[u].verdict # "failed"
        /\ n = cur => \A u \in Workers : On(u, c) => u = w
    BY <2>0, <1>a DEF ChildFits, FailedFits, n, cur
  <2>2. ASSUME shown'[c][cur] = "done" \/ ReadDone(c)', NEW u \in Workers, On(u, c)'
        PROVE  Att(u)' = cur /\ hand'[u].verdict # "failed"
    <3>1. CASE n = cur
      <4>1. u = w /\ v = "done"
        BY <1>0, <1>2, <1>a, <1>b, <1>e, <2>1, <2>2, <3>1
      <4> QED BY <1>0, <1>c, <3>1, <4>1 DEF n
    <3>2. CASE n # cur
      BY <1>2, <1>a, <1>b, <2>1, <2>2, <3>2 DEF n
    <3> QED BY <3>1, <3>2
  <2>3. ASSUME NEW u \in Workers, On(u, c)', hand'[u].phase = "processing",
               Att(u)' = cur, NEW x \in Workers, On(x, c)'
        PROVE  x = u
    <3>1. u # w /\ hand[u].phase = "processing"
      BY <1>0, <1>c, <2>3
    <3> QED BY <1>0, <2>0, <2>3, <3>1 DEF ChildFits, FailedFits, cur
  <2> QED BY <1>c, <2>2, <2>3 DEF FailedFits, cur
<1>8. TickFits(c)'
  <2>1. ReadDone(c)' => n # cur
    BY <1>2, <1>e
  <2> QED BY <1>2, <1>a, <1>b, <1>c, <2>1 DEF ChildFits, TickFits, TurnsOn, cur
<1>9. PendingFits(c)'
  <2> SUFFICES ASSUME Pending(c)' PROVE PendingFits(c)'
    BY DEF PendingFits
  <2>1. Pending(c) /\ request' = request
    BY DEF Pending, TurnsOn
  <2>2. Over(c, n) /\ PendingFits(c)
    BY <2>1 DEF n, ChildFits
  <2>3. n # cur
    BY <1>a, <2>1, <2>2 DEF Over, PendingFits, ChildFits, RowFits, Ended, cur
  <2>4. shown'[c][cur] = shown[c][cur]
    BY <1>a, <1>b, <2>3
  <2>5. \A u \in Workers : On(u, c)' /\ ~Over(c, Att(u))' => u # w
    BY <1>0, <1>3, <2>2 DEF n
  <2> QED BY <1>0, <1>2, <1>3, <1>c, <2>1, <2>2, <2>4, <2>5 DEF PendingFits, cur
<1>10. MarkedFits(c)'
  BY <1>1, <1>3, <1>c DEF ChildFits, MarkedFits, TurnsOn
<1>11. CommandFits(c)'
  BY <1>3, <1>c DEF ChildFits, CommandFits
<1>12. ReasonFor(c)'
  BY DEF ChildFits, ReasonFor, TurnsOn, SameRow, EndedAs
<1> QED BY <1>4, <1>5, <1>6, <1>7, <1>8, <1>9, <1>10, <1>11, <1>12 DEF ChildFits

-----------------------------------------------------------------------------
(* A child's row moves.                                                    *)

\* Attempts that are over stay over, and what they ended as stays on record.
Onward(c) ==
  /\ task'[c].cur \in AttemptNo /\ task[c].cur <= task'[c].cur
  /\ task'[c].cur = task[c].cur /\ task[c].terminal => task'[c].terminal
  /\ Unsettled(c)' => Unsettled(c)
  /\ \A n \in AttemptNo :
       attempt[c][n] \in Verdict => attempt'[c][n] = attempt[c][n] \/ ~Unsettled(c)'

LEMMA OnwardKeeps ==
  ASSUME RowsSound, NEW c \in Children, Onward(c)
  PROVE  /\ \A n \in AttemptNo : Over(c, n) => Over(c, n)'
         /\ \A v \in Verdict : Answered(c, v) => Answered(c, v)'
         /\ task[c].cur \in Nat /\ task'[c].cur \in Nat
<1>1. task[c].cur \in Nat /\ task'[c].cur \in Nat /\ AttemptNo \subseteq Nat
  <2>1. task[c].cur \in 0 .. MaxAttempt
    BY RowFields DEF Children
  <2>2. task'[c].cur \in 1 .. MaxAttempt
    BY DEF Onward, AttemptNo
  <2> QED BY <2>1, <2>2, StoreAssumption DEF AttemptNo
<1>2. \A n \in AttemptNo : Over(c, n) => Over(c, n)'
  BY <1>1 DEF Onward, Over
<1>3. ASSUME NEW v \in Verdict, Answered(c, v) PROVE Answered(c, v)'
  BY <1>3 DEF Onward, Answered, EndedAs
<1> QED BY <1>1, <1>2, <1>3

\* A daemon that keeps its item fits the row it moved to.
LEMMA HolderFits ==
  ASSUME DepTyped, NEW c \in Children, ChildFits(c), Onward(c), shown'[c] = shown[c],
         TickedLess(c), NEW w \in Workers, On(w, c), hand'[w] = hand[w],
         Has(w, c)' \/ Over(c, Att(w))',
         Has(w, c)' => Has(w, c) /\ task'[c].cur = task[c].cur,
         hand[w].phase = "claimed" => task'[c].cur = task[c].cur
  PROVE  HandFits(w, c)'
<1>1. /\ HandFits(w, c) /\ Att(w) \in AttemptNo /\ Att(w) <= task[c].cur
      /\ task[c].cur \in Nat /\ Att(w) \in Nat /\ task'[c].cur \in Nat
  BY HeldNumbers, AttemptsAreNumbers DEF Onward
<1>2. Att(w)' = Att(w)
  BY DEF Att
<1>3. ReadDone(c)' => ReadDone(c)
  BY DEF TickedLess, ReadDone, Ticked
<1>4. /\ Over(c, Att(w)) => Over(c, Att(w))'
      /\ Answered(c, "cancelled") => Answered(c, "cancelled")'
  BY <1>1, <1>2, OnwardKeeps DEF DepTyped, Verdict
<1>5. task'[c].cur = Att(w) => task[c].cur = Att(w)
  BY <1>1 DEF Onward
<1> QED BY <1>1, <1>2, <1>3, <1>4, <1>5 DEF HandFits

\* The row of c ends in state s, and its attempt as a.
Ends(c, s, a) ==
  /\ task[c].state # "absent" /\ ~task[c].terminal
  /\ s \in Ended /\ a \in Verdict /\ (s \in Verdict => a = s)
  /\ task'[c] = Closed(task[c], s)
  /\ attempt'[c] = [attempt[c] EXCEPT ![task[c].cur] = a]
  /\ UNCHANGED <<shown, dep, tick, command>>

\* The daemons that hold an item of c keep it as it is, or are left to settle it.
HandsEnd(c, a) ==
  \A w \in Workers : On(w, c)' =>
    /\ On(w, c) /\ hand'[w].claim = hand[w].claim
    /\ \/ hand'[w] = hand[w]
       \/ hand'[w].phase = "settling" /\ (hand'[w].verdict = "cancelled" => a = "cancelled")

LEMMA EndedRow ==
  ASSUME DepTyped, NEW c \in Children, ChildFits(c), NEW s, NEW a, Ends(c, s, a)
  PROVE  /\ task'[c].state = s /\ task'[c].owner = NoWorker /\ task'[c].lease = "none"
         /\ task'[c].cur = task[c].cur /\ task'[c].run = task[c].run /\ task'[c].terminal
         /\ task[c].cur \in AttemptNo /\ Onward(c) /\ RowFits(c)' /\ EndedAs(c, a)'
<1>0. task[c] \in TaskRow /\ Numbered(task[c]) /\ c \in Tasks
  BY RowFields DEF DepTyped, Children
<1>1. /\ task'[c].state = s /\ task'[c].owner = NoWorker /\ task'[c].lease = "none"
      /\ task'[c].cur = task[c].cur /\ task'[c].run = task[c].run /\ task'[c].terminal = TRUE
  <2>1. s \in TaskState /\ task'[c] = Closed(task[c], s)
    BY DEF Ends, Ended, TaskState
  <2> DEFINE q == Closed(task[c], s)
  <2>2. /\ q.state = s /\ q.owner = NoWorker /\ q.lease = "none" /\ q.cur = task[c].cur
        /\ q.run = task[c].run /\ q.terminal = TRUE
    BY <1>0, <2>1, ClosedRow
  <2>3. task'[c] = q
    BY <2>1
  <2> HIDE DEF q
  <2> QED BY <2>2, <2>3
<1>2. task[c].cur \in AttemptNo /\ task[c].cur \in Nat
  BY <1>0, AttemptsAreNumbers DEF Ends, Numbered
<1>3. attempt[c] \in [AttemptNo -> AttemptState]
  BY <1>0, RowFields DEF DepTyped
<1>4. RowFits(c)
  BY DEF ChildFits
<1>5. attempt[c][task[c].cur] \notin Verdict
  BY <1>4 DEF RowFits, Ends
<1>6. EndedAs(c, a)' /\ attempt'[c][task[c].cur] = a
  BY <1>2, <1>3 DEF EndedAs, Ends
<1>7. Unsettled(c)' <=> Unsettled(c)
  BY DEF Ends, Unsettled
<1>8. Onward(c)
  BY <1>1, <1>2, <1>3, <1>5, <1>7 DEF Onward, Ends
<1>9. \A n \in AttemptNo : n > task[c].cur => attempt'[c][n] = attempt[c][n]
  BY <1>2, <1>3 DEF Ends, AttemptNo
<1>10. RowFits(c)'
  BY <1>1, <1>4, <1>6, <1>9 DEF RowFits, Ends, Ended
<1> QED BY <1>1, <1>2, <1>6, <1>8, <1>10

LEMMA EndFits ==
  ASSUME DepTyped, NEW c \in Children, ChildFits(c), NEW s, NEW a, Ends(c, s, a),
         HandsEnd(c, a), ~Pending(c)', MarkedFits(c)',
         s = "failed" /\ Unsettled(c) =>
           /\ shown[c][task[c].cur] # "done" /\ ~ReadDone(c)
           /\ \A w, u \in Workers :
                On(w, c)' /\ On(u, c)' /\ hand'[w].phase = "processing"
                /\ Att(w) = task[c].cur => u = w
  PROVE  ChildFits(c)'
<1>0. /\ task'[c].state = s /\ task'[c].owner = NoWorker /\ task'[c].cur = task[c].cur
      /\ task'[c].terminal /\ Onward(c) /\ RowFits(c)' /\ EndedAs(c, a)'
  BY EndedRow
<1>1. /\ \A n \in AttemptNo : Over(c, n) => Over(c, n)'
      /\ \A v \in Verdict : Answered(c, v) => Answered(c, v)'
  BY <1>0, OnwardKeeps DEF DepTyped
<1>2. (ReadDone(c)' <=> ReadDone(c)) /\ (Unsettled(c)' <=> Unsettled(c))
  BY DEF Ends, ReadDone, Ticked, Unsettled
<1>3. \A w \in Workers : On(w, c)' => On(w, c) /\ Att(w)' = Att(w)
  BY DEF HandsEnd, Att
<1>5. ASSUME NEW w \in Workers, On(w, c)' PROVE HandFits(w, c)'
  <2>1. /\ On(w, c) /\ Att(w)' = Att(w) /\ Att(w) \in AttemptNo
        /\ Att(w) <= task[c].cur /\ Att(w) \in Nat /\ task[c].cur \in Nat
    BY <1>3, <1>5, HeldNumbers
  <2>2. Over(c, Att(w))' /\ ~Has(w, c)'
    BY <1>0, <2>1, StoreAssumption DEF Over, Has
  <2>3. CASE hand'[w] = hand[w]
    BY <1>0, <2>1, <2>2, <2>3, HolderFits DEF Ends, TickedLess
  <2>4. CASE hand'[w].phase = "settling" /\ (hand'[w].verdict = "cancelled" => a = "cancelled")
    BY <1>0, <2>2, <2>4 DEF HandFits, Answered
  <2> QED BY <1>5, <2>3, <2>4 DEF HandsEnd
<1>6. ApartOn(c)'
  BY <1>3 DEF ChildFits, ApartOn
<1>7. FailedFits(c)'
  BY <1>0, <1>2, <1>3 DEF FailedFits, Ends
<1>8. TickFits(c)'
  BY <1>0, <1>2 DEF ChildFits, TickFits, Ends
<1>9. PendingFits(c)'
  BY DEF PendingFits
<1>11. CommandFits(c)'
  <2> SUFFICES ASSUME command[c] # NoCommand PROVE CommandFits(c)'
    BY DEF CommandFits, Ends
  <2>1. command[c].att \in AttemptNo /\ command[c].att <= task[c].cur /\ task[c].cur \in AttemptNo
    BY EndedRow DEF ChildFits, CommandFits, DepTyped, CommandOK, Children
  <2>a. command[c].att \in Nat /\ task[c].cur \in Nat
    BY <2>1, AttemptsAreNumbers
  <2>2. command[c].att = task[c].cur \/ command[c].att < task[c].cur
    BY <2>1, <2>a
  <2> QED BY <1>0, <2>1, <2>2 DEF CommandFits, Over, Ends
<1>12. ReasonFor(c)'
  <2>1. \A v \in Verdict : dep[c] \in {"satisfied", "failed", "cancelled"} /\ EndedAs(c, v) => EndedAs(c, v)'
    <3>1. attempt[c][task[c].cur] \notin Verdict
      BY DEF ChildFits, RowFits, Ends
    <3>2. attempt[c] \in [AttemptNo -> AttemptState]
      BY RowFields DEF DepTyped, Children
    <3> QED BY <3>1, <3>2 DEF EndedAs, Ends
  <2> QED BY <2>1 DEF ChildFits, ReasonFor, Ends, Verdict
<1> QED BY <1>0, <1>5, <1>6, <1>7, <1>8, <1>9, <1>11, <1>12 DEF ChildFits

\* The row of c moves without ending: verdicts stay on record, and a task being
\* cancelled is not moved.
MovesOn(c) ==
  /\ Onward(c) /\ RowFits(c)'
  /\ \A n \in AttemptNo : attempt[c][n] \in Verdict => attempt'[c][n] = attempt[c][n]
  /\ task[c].state = "cancel_requested" => task'[c].state = "cancel_requested"
  /\ task'[c].state # "failed"
  /\ UNCHANGED <<shown, dep, tick>>

LEMMA AskedStillFits ==
  ASSUME DepTyped, NEW c \in Children, ChildFits(c), Onward(c),
         task[c].state = "cancel_requested" => task'[c].state = "cancel_requested"
  PROVE  /\ AskedLess(c) => MarkedFits(c)'
         /\ CommandLess(c) => CommandFits(c)'
<1>0. /\ task[c].cur \in Nat /\ task'[c].cur \in Nat /\ task[c].cur <= task'[c].cur
  BY OnwardKeeps DEF DepTyped, Onward
<1>1. /\ \A n \in AttemptNo : Over(c, n) => Over(c, n)'
      /\ \A v \in Verdict : Answered(c, v) => Answered(c, v)'
  BY OnwardKeeps DEF DepTyped
<1>2. ASSUME AskedLess(c) PROVE MarkedFits(c)'
  <2> SUFFICES ASSUME request' # NoRequest, request'.task = c PROVE MarkedFits(c)'
    BY DEF MarkedFits
  <2>1. request' = request /\ request.att \in AttemptNo /\ MarkedFits(c)
    BY <1>2 DEF AskedLess, ChildFits, DepTyped, RequestOK, Request
  <2>a. request.att \in Nat
    BY <2>1, AttemptsAreNumbers
  <2>2. request.att <= task'[c].cur
    BY <1>0, <2>1, <2>a DEF MarkedFits
  <2> QED BY <1>1, <2>1, <2>2 DEF MarkedFits, Verdict
<1>3. ASSUME CommandLess(c) PROVE CommandFits(c)'
  <2> SUFFICES ASSUME command'[c] # NoCommand PROVE CommandFits(c)'
    BY DEF CommandFits
  <2>1. command'[c] = command[c] /\ command[c].att \in AttemptNo /\ CommandFits(c)
    BY <1>3 DEF CommandLess, ChildFits, DepTyped, CommandOK, Children
  <2>a. command[c].att \in Nat
    BY <2>1, AttemptsAreNumbers
  <2>2. command[c].att <= task'[c].cur
    BY <1>0, <2>1, <2>a DEF CommandFits
  <2> QED BY <1>1, <2>1, <2>2 DEF CommandFits
<1> QED BY <1>2, <1>3

LEMMA MoveFits ==
  ASSUME DepTyped, NEW c \in Children, ChildFits(c), MovesOn(c), CommandLess(c),
         \A w \in Workers : On(w, c)' => HandFits(w, c)',
         ApartOn(c)', PendingFits(c)', AskedLess(c) \/ MarkedFits(c)',
         ReadDone(c) /\ ~task'[c].terminal => shown[c][task'[c].cur] = "done"
  PROVE  ChildFits(c)'
<1>1. MarkedFits(c)' /\ CommandFits(c)'
  BY AskedStillFits DEF MovesOn
<1>2. FailedFits(c)'
  BY DEF FailedFits, MovesOn
<1>3. TickFits(c)'
  BY DEF ChildFits, TickFits, MovesOn, ReadDone, Ticked
<1>4. ReasonFor(c)'
  <2>1. \A v \in Verdict : EndedAs(c, v) => EndedAs(c, v)'
    BY DEF MovesOn, EndedAs
  <2> QED BY <2>1 DEF ChildFits, ReasonFor, MovesOn, Verdict
<1> QED BY <1>1, <1>2, <1>3, <1>4 DEF ChildFits, MovesOn

\* The daemons keep what they hold.
LEMMA HeldMoveFits ==
  ASSUME DepTyped, NEW c \in Children, ChildFits(c), MovesOn(c), CommandLess(c), HandsLeave(c),
         PendingFits(c)', AskedLess(c) \/ MarkedFits(c)',
         ReadDone(c) /\ ~task'[c].terminal => shown[c][task'[c].cur] = "done",
         \A w \in Workers : On(w, c) /\ On(w, c)' =>
           /\ Has(w, c)' \/ Over(c, Att(w))'
           /\ Has(w, c)' => Has(w, c) /\ task'[c].cur = task[c].cur
           /\ hand[w].phase = "claimed" => task'[c].cur = task[c].cur
  PROVE  ChildFits(c)'
<1>1. \A w \in Workers : On(w, c)' => HandFits(w, c)'
  BY HolderFits DEF MovesOn, HandsLeave, TickedLess
<1>2. ApartOn(c)'
  BY DEF ChildFits, ApartOn, HandsLeave, Att
<1> QED BY <1>1, <1>2, MoveFits

\* A claim.
LEMMA ClaimedRow ==
  ASSUME RowsSound, NEW w \in Workers, NEW t \in Tasks, ClaimNext(w, t)
  PROVE  /\ task[t].state = "queued" /\ task[t].cur \in AttemptNo
         /\ task'[t].state = "claimed" /\ task'[t].owner = w /\ task'[t].lease = "live"
         /\ task'[t].cur = task[t].cur /\ task'[t].run = task[t].run
         /\ task'[t].terminal = task[t].terminal /\ task'[t].gen = task[t].gen + 1
         /\ attempt'[t] = [attempt[t] EXCEPT ![task[t].cur] = "claimed"]
         /\ \A u \in Tasks \ {t} : task'[u] = task[u] /\ attempt'[u] = attempt[u]
<1> DEFINE g == task[t].gen + 1
           row == [task[t] EXCEPT !.state = "claimed", !.owner = w, !.lease = "live",
                                  !.gen = g]
<1>0. task[t] \in TaskRow /\ Numbered(task[t]) /\ task[t].state = "queued"
  BY RowFields DEF ClaimNext
<1>2. Write(t, row) /\ WriteAttempt(t, task[t].cur, "claimed")
  BY <1>0 DEF ClaimNext, TaskRow
<1> HIDE DEF g
<1>1. /\ row.state = "claimed" /\ row.cur = task[t].cur /\ row.lease = "live" /\ row.gen = g
      /\ row.run = task[t].run /\ row.owner = w /\ row.terminal = task[t].terminal
  BY <1>0 DEF TaskRow
<1> HIDE DEF row
<1>3. task \in [Tasks -> TaskRow] /\ attempt \in [Tasks -> [AttemptNo -> AttemptState]]
  BY DEF RowsSound, StoreTypeOK
<1> QED BY <1>0, <1>1, <1>2, <1>3 DEF Write, WriteAttempt, Numbered, g

LEMMA TakeFits ==
  ASSUME DepTyped, NEW c \in Children, ChildFits(c), NEW w \in Workers, NEW t \in Tasks,
         Take(w, t), UNCHANGED <<dep, tick>>
  PROVE  ChildFits(c)'
<1>0. PICK h : /\ Turns(w, h)
               /\ h.claim = [task |-> t, att |-> task[t].cur, worker |-> w,
                             gen |-> task[t].gen + 1]
               /\ h.phase = "claimed" /\ h.verdict = "none" /\ h.abort = "no"
  BY TakeTurns
<1>1. /\ hand'[w] = h /\ (\A u \in Workers \ {w} : hand'[u] = hand[u])
      /\ Att(w)' = task[t].cur /\ h.claim.gen = task[t].gen + 1 /\ h.claim.task = t
      /\ Active(h)
  BY <1>0, Turned DEF DepTyped, Att, Active
<1>2. ClaimNext(w, t) /\ UNCHANGED <<shown, command, request>> /\ hand[w].phase = "idle"
  BY DEF Take
<1>3. /\ task[t].state = "queued" /\ task[t].cur \in AttemptNo
      /\ task'[t].state = "claimed" /\ task'[t].owner = w /\ task'[t].lease = "live"
      /\ task'[t].cur = task[t].cur /\ task'[t].run = task[t].run
      /\ task'[t].terminal = task[t].terminal /\ task'[t].gen = task[t].gen + 1
      /\ attempt'[t] = [attempt[t] EXCEPT ![task[t].cur] = "claimed"]
      /\ \A u \in Tasks \ {t} : task'[u] = task[u] /\ attempt'[u] = attempt[u]
  BY <1>2, ClaimedRow DEF DepTyped
<1>4. CASE c # t
  <2>1. SameRow(c) /\ HandsLeave(c)
    BY <1>1, <1>3, <1>4 DEF SameRow, HandsLeave, On, Children
  <2> QED BY <1>2, <2>1, Loosened DEF AskedLess, TickedLess, CommandLess
<1>5. CASE c = t
  <2>0. /\ RowFits(c) /\ TickFits(c) /\ PendingFits(c) /\ ApartOn(c)
        /\ attempt[c] \in [AttemptNo -> AttemptState] /\ task[c].cur \in Nat
        /\ AttemptNo \subseteq Nat
    BY <1>3, <1>5, RowFields, AttemptsAreNumbers DEF ChildFits, DepTyped
  <2>1. ~task[c].terminal /\ shown[c][task[c].cur] = "none" /\ ~ReadDone(c)
    BY <1>3, <1>5, <2>0 DEF RowFits, TickFits, Ended
  <2>2. attempt[c][task[c].cur] \notin Verdict
    BY <1>3, <1>5, <2>0 DEF RowFits, Ended
  <2>3. RowFits(c)'
    <3>1. \A n \in AttemptNo : n > task[c].cur => attempt'[c][n] = attempt[c][n]
      BY <1>3, <1>5, <2>0
    <3>2. attempt'[c][task[c].cur] = "claimed"
      BY <1>3, <1>5, <2>0
    <3> QED BY <1>2, <1>3, <1>5, <2>0, <2>1, <3>1, <3>2 DEF RowFits, Ended, Verdict
  <2>4. MovesOn(c)
    BY <1>2, <1>3, <1>5, <2>0, <2>1, <2>2, <2>3 DEF MovesOn, Onward, Unsettled
  <2>5. ASSUME NEW u \in Workers, On(u, c), u # w
        PROVE  Att(u)' = Att(u) /\ Att(u) < task[c].cur /\ Over(c, Att(u)) /\ HandFits(u, c)'
    <3>1. Att(u) < task[c].cur /\ Over(c, Att(u)) /\ Att(u)' = Att(u) /\ hand'[u] = hand[u]
      BY <1>1, <1>3, <1>5, <2>5, HeldNumbers DEF Over, Att
    <3>2. Over(c, Att(u))' /\ ~Has(u, c)' /\ task'[c].cur = task[c].cur
      BY <1>3, <1>5, <2>5, <3>1 DEF Over, Has
    <3> QED BY <1>2, <2>4, <2>5, <3>1, <3>2, HolderFits DEF MovesOn, TickedLess
  <2>6. HandFits(w, c)'
    <3>1. Has(w, c)' /\ Att(w)' = task'[c].cur
      BY <1>1, <1>3, <1>5 DEF Has
    <3>2. ~ReadDone(c)'
      BY <2>1 DEF ReadDone, Ticked
    <3> QED BY <1>0, <1>1, <1>2, <1>3, <1>5, <2>1, <3>1, <3>2 DEF HandFits
  <2>7. \A u \in Workers : On(u, c)' => u = w \/ On(u, c)
    BY <1>1 DEF On
  <2>8. ApartOn(c)'
    BY <1>1, <1>3, <1>5, <2>0, <2>5, <2>7 DEF ApartOn
  <2>9. PendingFits(c)'
    <3>1. ~Over(c, Att(w))'
      BY <1>1, <1>3, <1>5, <2>0, <2>1 DEF Over
    <3>2. \A u \in Workers : On(u, c)' /\ u # w => Over(c, Att(u)) /\ Over(c, Att(u))'
      BY <1>3, <1>5, <2>5, <2>7 DEF Over
    <3>3. \A u \in Workers : On(u, c)' /\ u # w => On(u, c)
      BY <2>7
    <3> QED BY <1>0, <1>1, <1>2, <1>3, <1>5, <2>0, <3>1, <3>2, <3>3 DEF PendingFits, Pending, Ticked
  <2> QED
    BY <1>2, <1>3, <1>5, <2>1, <2>4, <2>5, <2>6, <2>7, <2>8, <2>9, MoveFits DEF CommandLess, AskedLess
<1> QED BY <1>4, <1>5

-----------------------------------------------------------------------------
(* The claim loop.                                                         *)

\* A daemon that holds no item of c, or drops it, leaves the record of c alone.
LEMMA LetGo ==
  ASSUME NEW c \in Children, ChildFits(c), NEW w \in Workers, ~On(w, c)',
         \A u \in Workers \ {w} : hand'[u] = hand[u],
         SameRow(c), shown'[c] = shown[c], UNCHANGED <<dep, tick, request>>, CommandLess(c)
  PROVE  ChildFits(c)'
<1>1. HandsLeave(c)
  BY DEF HandsLeave, On
<1> QED BY <1>1, Loosened DEF AskedLess, TickedLess

\* A phase alone.
LEMMA EnterFits ==
  ASSUME DepTyped, NEW c \in Children, ChildFits(c), NEW w \in Workers, NEW p \in Phase,
         Enter(w, p), SameRow(c), UNCHANGED <<shown, dep, tick, request, command>>,
         \/ hand[w].phase = "claimed" /\ p = "processing" /\ (On(w, c) => task[c].state # "failed")
         \/ hand[w].phase = "terminalizing" /\ p = "settling" /\ hand[w].verdict # "cancelled"
         \/ ~Active(hand[w]) /\ p \in {"starting", "idle"}
  PROVE  ChildFits(c)'
<1>0. HandsSound /\ HandSound(w, hand[w])
  BY DEF DepTyped, HandsSound
<1>1. PICK h : Turns(w, h) /\ Rephased(h, hand[w], p)
  BY <1>0, EnterTurns
<1>2. hand'[w] = h /\ \A u \in Workers \ {w} : hand'[u] = hand[u]
  BY <1>0, <1>1, Turned
<1>3. On(w, c)' => On(w, c)
  BY <1>1, <1>2 DEF On, Rephased, Active, InFlight
<1>4. CASE ~On(w, c)
  BY <1>2, <1>3, <1>4, LetGo DEF CommandLess
<1>5. CASE On(w, c)
  <2>1. TurnsOn(w, c, h)
    BY <1>1, <1>2, <1>5 DEF TurnsOn, Rephased
  <2>2. HandFits(w, c)'
    <3>1. HandFits(w, c) /\ hand[w].phase \in {"claimed", "terminalizing"}
      BY <1>5 DEF ChildFits, On
    <3>2. /\ Has(w, c)' <=> Has(w, c)
          /\ Att(w)' = Att(w) /\ hand'[w].verdict = hand[w].verdict /\ hand'[w].phase = p
      BY <1>1, <1>2 DEF Has, Att, Rephased, SameRow
    <3>3. /\ (ReadDone(c)' <=> ReadDone(c)) /\ (Over(c, Att(w))' <=> Over(c, Att(w)))
          /\ task'[c] = task[c]
      BY <3>2 DEF ReadDone, Ticked, Over, SameRow
    <3>4. hand[w].phase = "terminalizing" => hand[w].verdict \in Verdict
      BY <1>0 DEF HandSound
    <3> QED BY <1>5, <3>1, <3>2, <3>3, <3>4 DEF HandFits, On, Verdict
  <2>3. Pending(c) /\ ~Over(c, Att(w)) => h.phase \in {"claimed", "processing"} /\ h.abort = "no"
    BY <1>1, <1>5 DEF ChildFits, PendingFits, Rephased, On
  <2>4. h.verdict = hand[w].verdict /\ (h.phase = "processing" => task[c].state # "failed")
    BY <1>1, <1>5 DEF Rephased, On
  <2> QED BY <2>1, <2>2, <2>3, <2>4, HandTurned DEF CommandLess
<1> QED BY <1>4, <1>5

LEMMA DropFits ==
  ASSUME DepTyped, NEW c \in Children, ChildFits(c), NEW w \in Workers,
         NEW p \in {"starting", "idle", "exited"}, Put(w, Empty(p)),
         SameRow(c), UNCHANGED <<shown, dep, tick, request, command>>
  PROVE  ChildFits(c)'
<1>1. HandsSound /\ Turns(w, Empty(p)) /\ ~Active(Empty(p))
  BY DropTurns DEF DepTyped
<1> HIDE DEF Empty
<1>2. ~On(w, c)' /\ \A u \in Workers \ {w} : hand'[u] = hand[u]
  BY <1>1, Turned DEF On
<1> QED BY <1>2, LetGo DEF CommandLess

\* markTaskRunning.
LEMMA RunningRow ==
  ASSUME RowsSound, NEW cl \in Claim, MarkRunning(cl)
  PROVE  /\ task[cl.task].state \in {"claimed", "queued", "running"}
         /\ task'[cl.task].state = "running" /\ task'[cl.task].owner = cl.worker
         /\ task'[cl.task].cur = cl.att /\ task'[cl.task].run = task[cl.task].run
         /\ task'[cl.task].terminal = task[cl.task].terminal
         /\ task'[cl.task].gen = task[cl.task].gen /\ task'[cl.task].lease = task[cl.task].lease
         /\ attempt'[cl.task] = [attempt[cl.task] EXCEPT ![cl.att] = "running"]
         /\ \A u \in Tasks \ {cl.task} : task'[u] = task[u] /\ attempt'[u] = attempt[u]
<1> DEFINE t == cl.task
           row == [task[t] EXCEPT !.state = "running", !.owner = cl.worker, !.cur = cl.att]
<1>0. t \in Tasks /\ task[t] \in TaskRow
  BY RowFields DEF Claim
<1>1. /\ row.state = "running" /\ row.cur = cl.att /\ row.lease = task[t].lease
      /\ row.gen = task[t].gen /\ row.run = task[t].run /\ row.owner = cl.worker
      /\ row.terminal = task[t].terminal
  BY <1>0 DEF TaskRow
<1>2. /\ Write(t, row) /\ WriteAttempt(t, cl.att, "running")
      /\ task[t].state \in {"claimed", "queued", "running"}
  BY DEF MarkRunning, MarkRunningMatches
<1> HIDE DEF row, t
<1>3. task \in [Tasks -> TaskRow] /\ attempt \in [Tasks -> [AttemptNo -> AttemptState]]
  BY DEF RowsSound, StoreTypeOK
<1>4. /\ task'[t].state = "running" /\ task'[t].owner = cl.worker
      /\ task'[t].cur = cl.att /\ task'[t].run = task[t].run
      /\ task'[t].terminal = task[t].terminal
      /\ task'[t].gen = task[t].gen /\ task'[t].lease = task[t].lease
      /\ attempt'[t] = [attempt[t] EXCEPT ![cl.att] = "running"]
      /\ \A u \in Tasks \ {t} : task'[u] = task[u] /\ attempt'[u] = attempt[u]
  BY <1>0, <1>1, <1>2, <1>3 DEF Write, WriteAttempt
<1> QED BY <1>2, <1>4 DEF t

LEMMA MarkRunningFits ==
  ASSUME DepTyped, NEW c \in Children, ChildFits(c), NEW w \in Workers,
         hand[w].phase = "claimed", MarkRunning(hand[w].claim), Enter(w, "processing"),
         UNCHANGED <<shown, dep, tick, request, command>>
  PROVE  ChildFits(c)'
<1> DEFINE cl == hand[w].claim
           t == hand[w].claim.task
<1>0. HandsSound /\ Active(hand[w]) /\ cl \in Claim /\ cl.worker = w /\ t \in Tasks
  BY HeldSound DEF Active, DepTyped
<1>1. PICK h : Turns(w, h) /\ Rephased(h, hand[w], "processing")
  BY <1>0, EnterTurns DEF Phase
<1>2. hand'[w] = h /\ \A u \in Workers \ {w} : hand'[u] = hand[u]
  BY <1>0, <1>1, Turned
<1>3. /\ task[t].state \in {"claimed", "queued", "running"}
      /\ task'[t].state = "running" /\ task'[t].owner = w
      /\ task'[t].cur = Att(w) /\ task'[t].run = task[t].run
      /\ task'[t].terminal = task[t].terminal
      /\ task'[t].gen = task[t].gen /\ task'[t].lease = task[t].lease
      /\ attempt'[t] = [attempt[t] EXCEPT ![Att(w)] = "running"]
      /\ \A u \in Tasks \ {t} : task'[u] = task[u] /\ attempt'[u] = attempt[u]
  BY <1>0, RunningRow DEF DepTyped, Att
<1> HIDE DEF cl, t
<1>4. CASE c # t
  <2>1. SameRow(c) /\ ~On(w, c)'
    BY <1>1, <1>2, <1>3, <1>4 DEF SameRow, On, Children, Rephased, t
  <2> QED BY <1>2, <2>1, LetGo DEF CommandLess
<1>5. CASE c = t
  <2>0. /\ On(w, c) /\ HandFits(w, c) /\ RowFits(c) /\ TickFits(c) /\ PendingFits(c) /\ ApartOn(c)
        /\ task[c].cur \in AttemptNo /\ task[c].cur \in Nat /\ AttemptNo \subseteq Nat
        /\ attempt[c] \in [AttemptNo -> AttemptState]
    BY <1>0, <1>5, HeldNumbers, RowFields, AttemptsAreNumbers DEF ChildFits, On, DepTyped, t
  <2>1. ~task[c].terminal /\ Att(w) = task[c].cur /\ Has(w, c)
    BY <1>3, <1>5, <2>0 DEF RowFits, HandFits, Over, Ended
  <2>2. attempt[c][task[c].cur] \notin Verdict
    BY <1>3, <1>5, <2>0 DEF RowFits, Ended
  <2>3. RowFits(c)'
    <3>1. \A n \in AttemptNo : n > task[c].cur => attempt'[c][n] = attempt[c][n]
      BY <1>3, <1>5, <2>0, <2>1
    <3>2. attempt'[c][task[c].cur] = "running"
      BY <1>3, <1>5, <2>0, <2>1
    <3> QED BY <1>3, <1>5, <2>0, <2>1, <3>1, <3>2 DEF RowFits, Ended, Verdict
  <2>4. MovesOn(c)
    BY <1>3, <1>5, <2>0, <2>1, <2>2, <2>3 DEF MovesOn, Onward, Unsettled
  <2>5. \A u \in Workers : /\ On(u, c)' => On(u, c)
                           /\ Att(u)' = Att(u)
                           /\ Has(u, c)' <=> Has(u, c)
                           /\ Over(c, Att(u))' <=> Over(c, Att(u))
    <3>1. hand'[w].claim = hand[w].claim /\ task[c].owner = w
      BY <1>1, <1>2, <2>1 DEF Rephased, Has
    <3>2. \A u \in Workers : hand'[u].claim = hand[u].claim
      BY <1>2, <3>1
    <3>3. \A u \in Workers : On(u, c)' => On(u, c)
      BY <1>2, <2>0, <3>2 DEF On
    <3> QED BY <1>3, <1>5, <2>1, <3>1, <3>2, <3>3 DEF Att, Has, Over
  <2>6. ASSUME NEW u \in Workers, On(u, c)' PROVE HandFits(u, c)'
    <3>1. CASE u = w
      <4>1. hand'[w].phase = "processing" /\ hand'[w].verdict = hand[w].verdict
        BY <1>1, <1>2 DEF Rephased
      <4>2. hand[w].verdict # "failed"
        BY <2>0, HeldNumbers DEF HandSound
      <4>3. ReadDone(c)' <=> ReadDone(c)
        BY DEF ReadDone, Ticked
      <4> QED BY <1>3, <1>5, <2>0, <2>1, <2>5, <3>1, <4>1, <4>2, <4>3 DEF HandFits
    <3>2. CASE u # w
      <4>1. On(u, c) /\ HandFits(u, c) /\ hand'[u] = hand[u]
        BY <1>2, <2>5, <2>6, <3>2 DEF ChildFits
      <4>2. Has(u, c)' \/ Over(c, Att(u))'
        BY <2>5, <4>1 DEF HandFits
      <4>3. task'[c].cur = task[c].cur
        BY <1>3, <1>5, <2>1
      <4> QED BY <2>4, <2>5, <4>1, <4>2, <4>3, HolderFits DEF MovesOn, TickedLess
    <3> QED BY <3>1, <3>2
  <2>7. ApartOn(c)'
    BY <2>0, <2>5 DEF ApartOn
  <2>8. PendingFits(c)'
    <3> SUFFICES ASSUME Pending(c)' PROVE PendingFits(c)'
      BY DEF PendingFits
    <3>1. Pending(c) /\ task'[c].cur = task[c].cur /\ (Ticked(c)' <=> Ticked(c))
      BY <1>3, <1>5, <2>1 DEF Pending, Ticked
    <3>2. ASSUME NEW u \in Workers, On(u, c)', ~Over(c, Att(u))'
          PROVE  hand'[u].phase \in {"claimed", "processing"} /\ hand'[u].abort = "no"
      <4>1. hand[u].phase \in {"claimed", "processing"} /\ hand[u].abort = "no"
        BY <2>0, <2>5, <3>1, <3>2 DEF PendingFits
      <4> QED BY <1>1, <1>2, <4>1 DEF Rephased
    <3> QED BY <1>3, <1>5, <2>0, <2>5, <3>1, <3>2 DEF PendingFits
  <2> QED
    BY <1>3, <1>5, <2>0, <2>1, <2>4, <2>6, <2>7, <2>8, MoveFits DEF CommandLess, AskedLess, TickFits
<1> QED BY <1>4, <1>5

LEMMA StartFits ==
  ASSUME DepTyped, NEW c \in Children, ChildFits(c), NEW w \in Workers, Start(w),
         UNCHANGED <<dep, tick>>
  PROVE  ChildFits(c)'
<1>0. /\ hand[w].phase = "claimed" /\ UNCHANGED <<shown, command, request>>
  BY DEF Start
<1>1. CASE MarkRunning(hand[w].claim) /\ Enter(w, "processing")
  BY <1>0, <1>1, MarkRunningFits
<1>2. CASE UNCHANGED storeVars
  <2>1. SameRow(c)
    BY <1>2 DEF storeVars, SameRow
  <2>2. \/ Put(w, Empty("exited"))
        \/ Enter(w, "processing") /\ task[hand[w].claim.task].state \notin Verdict
        \/ MarkRunning(hand[w].claim) /\ Enter(w, "processing")
    BY DEF Start
  <2>3. CASE Put(w, Empty("exited"))
    BY <1>0, <2>1, <2>3, DropFits
  <2>4. CASE Enter(w, "processing") /\ task[hand[w].claim.task].state \notin Verdict
    <3>1. On(w, c) => task[c].state # "failed"
      BY <2>4 DEF On, Verdict
    <3>2. "processing" \in Phase
      BY DEF Phase
    <3> QED BY <1>0, <2>1, <2>4, <3>1, <3>2, EnterFits
  <2> QED BY <1>1, <2>2, <2>3, <2>4
<1> QED BY <1>1, <1>2 DEF Start

\* A verdict shown for another task.
LEMMA ShownElsewhere ==
  ASSUME DepTyped, NEW c \in Children, NEW w \in Workers, Active(hand[w]), ~On(w, c),
         NEW v, Show(hand[w].claim, v)
  PROVE  shown'[c] = shown[c]
<1>1. hand[w].claim.task # c /\ c \in Tasks
  BY DEF On, Children
<1> QED BY <1>1 DEF Show, DepTyped, ShownOK

LEMMA FinishFits ==
  ASSUME ~MayStall, DepTyped, NEW c \in Children, ChildFits(c), NEW w \in Workers,
         NEW v \in {"done", "failed"}, Finish(w, v), UNCHANGED <<dep, tick>>
  PROVE  ChildFits(c)'
<1>0. PICK h : /\ Turns(w, h) /\ h.phase = "returned" /\ h.claim = hand[w].claim
               /\ h.verdict = v
  BY FinishTurns DEF DepTyped
<1>1. hand'[w] = h /\ \A u \in Workers \ {w} : hand'[u] = hand[u]
  BY <1>0, Turned DEF DepTyped
<1>2. /\ request = NoRequest /\ UNCHANGED <<request, command>> /\ hand[w].phase = "processing"
      /\ Show(hand[w].claim, v) /\ SameRow(c) /\ v \in Verdict /\ Active(hand[w])
  BY DEF Finish, HandlerTime, storeVars, SameRow, Verdict, Active, InFlight
<1>3. CASE ~On(w, c)
  <2>1. ~On(w, c)'
    BY <1>0, <1>1, <1>2, <1>3 DEF On
  <2> QED BY <1>1, <1>2, <1>3, <2>1, ShownElsewhere, LetGo DEF CommandLess
<1>4. CASE On(w, c)
  <2>1. TurnsOn(w, c, h) /\ ~Pending(c)
    BY <1>0, <1>1, <1>2, <1>4 DEF TurnsOn, Pending
  <2> QED BY <1>0, <1>2, <2>1, HandShown
<1> QED BY <1>3, <1>4

LEMMA UnwindFits ==
  ASSUME DepTyped, NEW c \in Children, ChildFits(c), NEW w \in Workers, Unwind(w),
         UNCHANGED <<dep, tick>>
  PROVE  ChildFits(c)'
<1>0. PICK h : /\ Turns(w, h) /\ h.phase = "returned" /\ h.claim = hand[w].claim
               /\ h.verdict = "cancelled"
  BY UnwindTurns DEF DepTyped
<1>1. hand'[w] = h /\ \A u \in Workers \ {w} : hand'[u] = hand[u]
  BY <1>0, Turned DEF DepTyped
<1>2. /\ UNCHANGED <<request, command>> /\ hand[w].phase = "processing"
      /\ hand[w].abort # "no" /\ SameRow(c) /\ Active(hand[w])
      /\ Show(hand[w].claim, "cancelled") \/ UNCHANGED shown
  BY DEF Unwind, storeVars, SameRow, Active, InFlight
<1>3. CASE ~On(w, c)
  <2>1. ~On(w, c)' /\ shown'[c] = shown[c]
    BY <1>0, <1>1, <1>2, <1>3, ShownElsewhere DEF On
  <2> QED BY <1>1, <1>2, <2>1, LetGo DEF CommandLess
<1>4. CASE On(w, c)
  <2>1. TurnsOn(w, c, h)
    BY <1>0, <1>1, <1>2, <1>4 DEF TurnsOn
  <2>2. Pending(c) => Over(c, Att(w))
    BY <1>2, <1>4 DEF ChildFits, PendingFits
  <2>3. CASE Show(hand[w].claim, "cancelled")
    BY <1>0, <1>2, <2>1, <2>2, <2>3, HandShown DEF Verdict
  <2>4. CASE UNCHANGED shown
    <3>1. HandFits(w, c)'
      <4>1. HandFits(w, c)
        BY <1>4 DEF ChildFits
      <4> QED BY <1>0, <1>1, <1>2, <4>1 DEF HandFits, Has, Over, Att, SameRow
    <3> QED BY <1>0, <1>2, <2>1, <2>2, <2>4, <3>1, HandTurned DEF CommandLess
  <2> QED BY <1>2, <2>3, <2>4
<1> QED BY <1>3, <1>4

LEMMA DecideFits ==
  ASSUME DepTyped, NEW c \in Children, ChildFits(c), NEW w \in Workers, Decide(w),
         UNCHANGED <<dep, tick>>
  PROVE  ChildFits(c)'
<1>0. PICK h : /\ Turns(w, h) /\ h.phase = "terminalizing" /\ h.claim = hand[w].claim
               /\ h.verdict \in {hand[w].verdict, "cancelled"}
  BY DecideTurns DEF DepTyped
<1>1. hand'[w] = h /\ \A u \in Workers \ {w} : hand'[u] = hand[u]
  BY <1>0, Turned DEF DepTyped
<1>2. /\ UNCHANGED <<shown, request, command>> /\ hand[w].phase = "returned" /\ SameRow(c)
      /\ Active(hand[w])
  BY DEF Decide, storeVars, SameRow, Active, InFlight
<1>3. CASE ~On(w, c)
  <2>1. ~On(w, c)'
    BY <1>0, <1>1, <1>2, <1>3 DEF On
  <2> QED BY <1>1, <1>2, <2>1, LetGo DEF CommandLess
<1>4. CASE On(w, c)
  <2>1. TurnsOn(w, c, h)
    BY <1>0, <1>1, <1>2, <1>4 DEF TurnsOn
  <2>2. Pending(c) => Over(c, Att(w))
    BY <1>2, <1>4 DEF ChildFits, PendingFits
  <2>3. HandFits(w, c)'
    <3>1. HandFits(w, c)
      BY <1>4 DEF ChildFits
    <3>2. /\ Has(w, c)' <=> Has(w, c)
          /\ Att(w)' = Att(w) /\ (ReadDone(c)' <=> ReadDone(c))
          /\ Over(c, Att(w))' <=> Over(c, Att(w))
      BY <1>0, <1>1, <1>2 DEF Has, Att, ReadDone, Ticked, Over, SameRow
    <3> QED BY <1>0, <1>1, <1>2, <3>1, <3>2 DEF HandFits, SameRow
  <2> QED BY <1>0, <1>2, <2>1, <2>2, <2>3, HandTurned DEF CommandLess
<1> QED BY <1>3, <1>4

\* A row that ends under its daemon.
LEMMA WrittenElsewhere ==
  ASSUME RowsSound, NEW c \in Children, NEW t \in Tasks, t # c, NEW row, Write(t, row),
         NEW n, NEW a, WriteAttempt(t, n, a)
  PROVE  SameRow(c)
BY DEF RowsSound, StoreTypeOK, Write, WriteAttempt, SameRow, Children

LEMMA EndWritten ==
  ASSUME RowsSound, NEW c \in Children, task[c].state # "absent", ~task[c].terminal,
         NEW s \in Ended, NEW a \in Verdict, s \in Verdict => a = s,
         Write(c, Closed(task[c], s)), WriteAttempt(c, task[c].cur, a),
         UNCHANGED <<shown, dep, tick, command>>
  PROVE  Ends(c, s, a)
<1>1. c \in Tasks /\ task \in [Tasks -> TaskRow] /\ attempt \in [Tasks -> [AttemptNo -> AttemptState]]
  BY DEF RowsSound, StoreTypeOK, Children
<1> QED BY <1>1 DEF Write, WriteAttempt, Ends

LEMMA EndedAskedFits ==
  ASSUME DepTyped, NEW c \in Children, ChildFits(c), NEW s, NEW a, Ends(c, s, a), AskedLess(c)
  PROVE  MarkedFits(c)'
<1>0. /\ task'[c].cur = task[c].cur /\ task'[c].terminal /\ Onward(c) /\ task[c].cur \in Nat
  BY EndedRow, OnwardKeeps DEF DepTyped
<1>1. \A v \in Verdict : Answered(c, v) => Answered(c, v)'
  BY <1>0, OnwardKeeps DEF DepTyped
<1> SUFFICES ASSUME request' # NoRequest, request'.task = c PROVE MarkedFits(c)'
  BY DEF MarkedFits
<1>2. request' = request /\ request.att \in AttemptNo /\ MarkedFits(c)
  BY DEF AskedLess, ChildFits, DepTyped, RequestOK, Request
<1>3. request.att \in Nat
  BY <1>2, AttemptsAreNumbers
<1>4. request.att <= task[c].cur /\ Over(c, request.att)'
  BY <1>0, <1>2, <1>3 DEF MarkedFits, Over
<1> QED BY <1>0, <1>1, <1>2, <1>4 DEF MarkedFits, Verdict

LEMMA ItemEnds ==
  ASSUME DepTyped, NEW c \in Children, ChildFits(c), NEW w \in Workers, On(w, c),
         hand[w].phase = "terminalizing", Has(w, c), NEW s, NEW a, Ends(c, s, a),
         NEW h, Turns(w, h), h.claim = hand[w].claim, h.phase = "settling",
         h.verdict = "cancelled" => a = "cancelled", s = "failed" => hand[w].verdict = "failed",
         UNCHANGED request
  PROVE  ChildFits(c)'
<1>0. hand'[w] = h /\ \A u \in Workers \ {w} : hand'[u] = hand[u]
  BY Turned DEF DepTyped
<1>1. HandFits(w, c) /\ ~Over(c, Att(w)) /\ Att(w) = task[c].cur
  <2>1. HandFits(w, c) /\ Att(w) = task[c].cur
    BY DEF ChildFits, HandFits
  <2>2. task[c].cur \in Nat
    BY HeldNumbers
  <2> QED BY <2>1, <2>2 DEF Over, Ends
<1>2. HandsEnd(c, a)
  BY <1>0 DEF HandsEnd, On
<1>3. ~Pending(c)'
  BY <1>1 DEF ChildFits, PendingFits, Pending
<1>4. MarkedFits(c)'
  BY EndedAskedFits DEF AskedLess
<1>5. ASSUME s = "failed" PROVE shown[c][task[c].cur] # "done" /\ ~ReadDone(c)
  BY <1>1, <1>5 DEF HandFits
<1>6. ASSUME NEW u \in Workers, On(u, c)', hand'[u].phase = "processing", Att(u) = task[c].cur
      PROVE  FALSE
  <2>1. u # w /\ On(u, c)
    BY <1>0, <1>6 DEF On
  <2> QED BY <1>1, <1>6, <2>1 DEF ChildFits, ApartOn
<1> QED BY <1>2, <1>3, <1>4, <1>5, <1>6, EndFits

LEMMA TerminalizeFits ==
  ASSUME DepTyped, NEW c \in Children, ChildFits(c), NEW w \in Workers, Terminalize(w),
         UNCHANGED <<dep, tick>>
  PROVE  ChildFits(c)'
<1> DEFINE cl == hand[w].claim
           t == hand[w].claim.task
           v == hand[w].verdict
<1>0. /\ hand[w].phase = "terminalizing" /\ UNCHANGED <<shown, request, command>>
      /\ Active(hand[w]) /\ HandsSound /\ RowsSound
  BY DEF Terminalize, Active, InFlight, DepTyped
<1>1. v \in Verdict /\ t \in Tasks /\ cl.worker = w
  BY <1>0, HeldSound DEF HandsSound, HandSound
<1>2. CASE MarkItem(cl, v) /\ Enter(w, "settling")
  <2>1. PICK h : Turns(w, h) /\ Rephased(h, hand[w], "settling")
    BY <1>0, <1>2, EnterTurns DEF Phase
  <2>2. hand'[w] = h /\ \A u \in Workers \ {w} : hand'[u] = hand[u]
    BY <1>0, <2>1, Turned
  <2>3. /\ ~task[t].terminal /\ task[t].gen = cl.gen /\ task[t].owner = w
        /\ Write(t, Closed(task[t], v)) /\ WriteAttempt(t, task[t].cur, v)
    BY <1>1, <1>2 DEF MarkItem, LeaseHolds
  <2>4. CASE c # t
    <3>1. SameRow(c)
      BY <1>0, <1>1, <2>3, <2>4, WrittenElsewhere
    <3>2. ~On(w, c)'
      BY <2>1, <2>2, <2>4 DEF Rephased, On
    <3> QED BY <1>0, <2>2, <3>1, <3>2, LetGo DEF CommandLess
  <2>5. CASE c = t
    <3>1. On(w, c) /\ Has(w, c)
      BY <1>0, <2>3, <2>5 DEF On, Has
    <3>2. task[c].state # "absent"
      BY <1>0, <1>1, <2>3, <2>5, RowFields, StoreAssumption DEF Numbered
    <3>3. v \in Ended
      BY <1>1 DEF Verdict, Ended
    <3> HIDE DEF v, t, cl
    <3>4. Ends(c, v, v)
      BY <1>0, <1>1, <2>3, <2>5, <3>2, <3>3, EndWritten
    <3>5. h.claim = hand[w].claim /\ h.phase = "settling" /\ h.verdict = v
      BY <2>1 DEF Rephased, v
    <3>6. v = "failed" => hand[w].verdict = "failed"
      BY DEF v
    <3> QED BY <1>0, <2>1, <3>1, <3>4, <3>5, <3>6, ItemEnds
  <2> QED BY <2>4, <2>5
<1>3. CASE UNCHANGED storeVars
  <2>1. SameRow(c)
    BY <1>3 DEF storeVars, SameRow
  <2>2. \/ Enter(w, "settling") /\ v # "cancelled"
        \/ Conclude(w)
        \/ MarkItem(cl, v) /\ Enter(w, "settling")
    BY DEF Terminalize
  <2>3. CASE Enter(w, "settling") /\ v # "cancelled"
    BY <1>0, <2>1, <2>3, EnterFits DEF Phase
  <2>4. CASE Conclude(w)
    BY <1>0, <2>1, <2>4, DropFits DEF Conclude
  <2> QED BY <1>2, <2>2, <2>3, <2>4
<1> QED BY <1>2, <1>3 DEF Terminalize

LEMMA UncertainFits ==
  ASSUME DepTyped, NEW c \in Children, ChildFits(c), NEW w \in Workers,
         TerminalizeUncertain(w), UNCHANGED <<dep, tick>>
  PROVE  ChildFits(c)'
<1> DEFINE t == hand[w].claim.task
<1>0. /\ hand[w].phase = "terminalizing" /\ UNCHANGED <<shown, request, command>>
      /\ Active(hand[w]) /\ HandsSound /\ RowsSound
  BY DEF TerminalizeUncertain, Active, InFlight, DepTyped
<1>1. t \in Tasks /\ hand[w].claim.worker = w
  BY <1>0, HeldSound
<1>2. PICK h : /\ Turns(w, h) /\ h.phase = "settling" /\ h.claim = hand[w].claim
               /\ h.verdict = "none"
  BY <1>0, UncertainTurns
<1>3. hand'[w] = h /\ \A u \in Workers \ {w} : hand'[u] = hand[u]
  BY <1>0, <1>2, Turned
<1>4. /\ ~task[t].terminal /\ task[t].gen = hand[w].claim.gen /\ task[t].owner = w
      /\ task[t].cur = hand[w].claim.att /\ task[t].state \in {"claimed", "running"}
      /\ Write(t, Closed(task[t], "blocked")) /\ WriteAttempt(t, hand[w].claim.att, "failed")
  BY <1>1 DEF TerminalizeUncertain, MarkBlockedUncertain, FenceHolds
<1>5. CASE c # t
  <2>1. SameRow(c)
    BY <1>0, <1>1, <1>4, <1>5, WrittenElsewhere
  <2>2. ~On(w, c)'
    BY <1>2, <1>3, <1>5 DEF On
  <2> QED BY <1>0, <1>3, <2>1, <2>2, LetGo DEF CommandLess
<1>6. CASE c = t
  <2>1. On(w, c) /\ Has(w, c)
    BY <1>0, <1>4, <1>6 DEF On, Has
  <2>2. "blocked" \in Ended /\ "failed" \in Verdict /\ "blocked" \notin Verdict
    BY DEF Verdict, Ended
  <2>3. /\ task[c].state # "absent" /\ ~task[c].terminal
        /\ Write(c, Closed(task[c], "blocked")) /\ WriteAttempt(c, task[c].cur, "failed")
    BY <1>4, <1>6
  <2>4. Ends(c, "blocked", "failed")
    BY <1>0, <2>2, <2>3, EndWritten
  <2> QED BY <1>0, <1>2, <2>1, <2>4, ItemEnds
<1> QED BY <1>5, <1>6

\* What a settlement changes: the dependency of its child, and the parent's row.
LEMMA SettleLeaves ==
  ASSUME RowsSound, DepsSound, NEW d \in Children, NEW v, SettleChild(d, v), NEW c \in Children
  PROVE  /\ SameRow(c)
         /\ c # d => dep'[c] = dep[c]
         /\ dep'[d] = dep[d] \/ (dep[d] = "pending" /\ dep'[d] = Outcome(v))
<1>1. c \in Tasks /\ c # Parent /\ task \in [Tasks -> TaskRow] /\ dep \in [Children -> DepStatus]
  BY DEF RowsSound, StoreTypeOK, DepsSound, Children
<1>2. SameRow(c)
  BY <1>1 DEF SettleChild, SameRow
<1>3. dep' = IF dep[d] = "pending" THEN [dep EXCEPT ![d] = Outcome(v)] ELSE dep
  BY DEF SettleChild
<1> HIDE DEF Outcome
<1> QED BY <1>1, <1>2, <1>3

\* A row shown for an attempt that is over, and the settlement that goes with it.
SettledFor(c, v) ==
  /\ dep[c] = "pending" /\ v \in Verdict /\ dep'[c] = Outcome(v)
  /\ EndedAs(c, v)
  /\ v = "failed" => ~ReadDone(c)

LEMMA SettlementFits ==
  ASSUME DepTyped, NEW c \in Children, ChildFits(c), SameRow(c), HandsLeave(c), AskedLess(c),
         UNCHANGED <<tick, command>>,
         \/ shown'[c] = shown[c]
         \/ \E n \in AttemptNo, x \in {"failed", "cancelled"} :
              Over(c, n) /\ shown'[c] = [shown[c] EXCEPT ![n] = x],
         dep'[c] = dep[c] \/ \E v \in Verdict : SettledFor(c, v)
  PROVE  ChildFits(c)'
<1>1. /\ Unsettled(c)' => Unsettled(c)
      /\ \A v \in Verdict : Answered(c, v) => Answered(c, v)'
  <2>1. \A v \in Verdict : Outcome(v) \notin {"none", "pending"}
    BY DEF Outcome, Verdict
  <2>2. \A v \in Verdict : EndedAs(c, v)' <=> EndedAs(c, v)
    BY DEF EndedAs, SameRow
  <2>3. Unsettled(c)' => Unsettled(c)
    BY <2>1 DEF Unsettled, SettledFor
  <2> QED BY <2>2, <2>3 DEF Answered
<1>2. (ReadDone(c)' <=> ReadDone(c)) /\ (Ticked(c)' <=> Ticked(c))
  BY DEF ReadDone, Ticked
<1>3. (\A n : Over(c, n)' <=> Over(c, n)) /\ task'[c] = task[c]
  BY DEF SameRow, Over
<1>a. PICK n \in AttemptNo :
        /\ \A m \in AttemptNo : m # n => shown'[c][m] = shown[c][m]
        /\ \/ shown'[c][n] = shown[c][n]
           \/ Over(c, n) /\ shown'[c][n] \in {"failed", "cancelled"}
  <2>1. c \in Tasks /\ shown[c] \in [AttemptNo -> Verdict \cup {"none"}] /\ 1 \in AttemptNo
    BY AttemptsAreNumbers DEF DepTyped, ShownOK, Children
  <2> QED BY <2>1
<1>b. \A m \in AttemptNo : ~Over(c, m) => shown'[c][m] = shown[c][m]
  BY <1>a
<1>c. \A m \in AttemptNo : shown'[c][m] = "done" => shown[c][m] = "done"
  BY <1>a
<1>d. task[c].state # "absent" => task[c].cur \in AttemptNo
  BY RowFields DEF DepTyped, Numbered, Children
<1>e. /\ RowFits(c) /\ TickFits(c) /\ PendingFits(c) /\ FailedFits(c) /\ ReasonFor(c)
  BY DEF ChildFits
<1>f. ASSUME task[c].state \in Ended \cup {"absent"} => FALSE
      PROVE  /\ ~Over(c, task[c].cur)
             /\ shown'[c][task[c].cur] = shown[c][task[c].cur]
  <2>1. ~task[c].terminal /\ task[c].cur \in AttemptNo
    BY <1>d, <1>e, <1>f DEF RowFits
  <2>2. ~Over(c, task[c].cur)
    BY <2>1, AttemptsAreNumbers DEF Over
  <2> QED BY <1>b, <2>1, <2>2
<1>4. RowFits(c)'
  <2>1. \A m \in AttemptNo : m > task[c].cur => ~Over(c, m)
    <3>1. task[c].cur \in 0 .. MaxAttempt
      BY RowFields DEF DepTyped, Children
    <3> QED BY <3>1, StoreAssumption DEF Over, AttemptNo
  <2>2. task[c].state = "queued" => shown'[c][task[c].cur] = "none"
    BY <1>e, <1>f DEF RowFits, Ended
  <2>3. \A m \in AttemptNo : m > task[c].cur => shown'[c][m] = shown[c][m]
    BY <1>b, <2>1
  <2>4. task[c].state = "absent" => Unsettled(c)'
    <3>1. ASSUME task[c].state = "absent" PROVE ~\E v \in Verdict : EndedAs(c, v)
      <4>1. \A m \in AttemptNo : attempt[c][m] = "absent"
        BY <1>e, <3>1, RowFields, AttemptsAreNumbers DEF RowFits, DepTyped, Numbered, Children
      <4> QED BY <4>1 DEF EndedAs, Verdict
    <3> QED BY <1>e, <3>1 DEF RowFits, SettledFor, Unsettled
  <2> QED BY <1>3, <1>e, <2>2, <2>3, <2>4 DEF RowFits, SameRow
<1>5. ASSUME NEW w \in Workers, On(w, c)' PROVE HandFits(w, c)'
  <2>1. HandFits(w, c) /\ hand'[w] = hand[w] /\ Att(w) \in AttemptNo
    BY <1>5, HeldNumbers DEF HandsLeave
  <2>2. /\ Att(w)' = Att(w)
        /\ Has(w, c)' <=> Has(w, c)
    BY <1>3, <2>1 DEF Att, Has
  <2>3. /\ shown'[c][Att(w)] = "done" => shown[c][Att(w)] = "done"
        /\ ~Over(c, Att(w)) => shown'[c][Att(w)] = shown[c][Att(w)]
        /\ Answered(c, "cancelled") => Answered(c, "cancelled")'
    BY <1>1, <1>b, <1>c, <2>1 DEF Verdict
  <2> QED BY <1>2, <1>3, <2>1, <2>2, <2>3 DEF HandFits
<1>6. ApartOn(c)'
  BY DEF ChildFits, ApartOn, HandsLeave, Att
<1>7. FailedFits(c)'
  <2>1. task[c].state = "failed" => task[c].cur \in AttemptNo
    BY <1>d
  <2> QED BY <1>1, <1>2, <1>3, <1>c, <1>e, <2>1 DEF FailedFits, HandsLeave, Att
<1>8. TickFits(c)'
  <2> SUFFICES ASSUME ReadDone(c)' PROVE TickFits(c)'
    BY DEF TickFits
  <2>1. dep'[c] # "failed"
    <3>1. \A v \in Verdict : Outcome(v) = "failed" => v = "failed"
      BY DEF Outcome, Verdict
    <3> QED BY <1>2, <1>e, <3>1 DEF TickFits, SettledFor
  <2>2. task[c].state # "absent"
    BY <1>2 DEF DepTyped, TickSound, ReadDone, Ticked
  <2>3. ~task[c].terminal => shown'[c][task[c].cur] = shown[c][task[c].cur]
    BY <1>e, <1>f, <2>2 DEF RowFits
  <2> QED BY <1>2, <1>3, <1>e, <2>1, <2>3 DEF TickFits
<1>9. PendingFits(c)'
  <2>1. task[c].state \in {"queued", "claimed", "running"} =>
          shown'[c][task[c].cur] = shown[c][task[c].cur]
    BY <1>f DEF Ended
  <2> QED BY <1>2, <1>3, <1>e, <2>1 DEF PendingFits, Pending, AskedLess, HandsLeave, Att
<1>10. MarkedFits(c)'
  BY <1>1, <1>3 DEF ChildFits, MarkedFits, AskedLess, Verdict
<1>11. CommandFits(c)'
  BY <1>3 DEF ChildFits, CommandFits
<1>12. ReasonFor(c)'
  <2>1. \A v \in Verdict : EndedAs(c, v)' <=> EndedAs(c, v)
    BY DEF EndedAs, SameRow
  <2>2. CASE dep'[c] = dep[c]
    BY <1>e, <2>1, <2>2 DEF ReasonFor, Verdict
  <2>3. ASSUME NEW v \in Verdict, SettledFor(c, v) PROVE ReasonFor(c)'
    BY <2>1, <2>3 DEF ReasonFor, SettledFor, Outcome, Verdict
  <2> QED BY <2>2, <2>3
<1> QED BY <1>4, <1>5, <1>6, <1>7, <1>8, <1>9, <1>10, <1>11, <1>12 DEF ChildFits

LEMMA SettleItemFits ==
  ASSUME DepTyped, NEW c \in Children, ChildFits(c), NEW w \in Workers, SettleItem(w),
         UNCHANGED tick
  PROVE  ChildFits(c)'
<1> DEFINE t == hand[w].claim.task
           v == hand[w].verdict
<1>0. /\ hand[w].phase = "settling" /\ Conclude(w) /\ UNCHANGED <<request, command>>
      /\ \/ v = "none" /\ Show(hand[w].claim, "failed")
         \/ v = "cancelled" /\ Show(hand[w].claim, "cancelled")
         \/ UNCHANGED shown
      /\ \/ t \in Children /\ (v = "cancelled" \/ task[t].state = v) /\ SettleChild(t, v)
         \/ UNCHANGED <<storeVars, dep>>
  BY DEF SettleItem, CloseItem, NothingToSettle
<1>1. /\ RowsSound /\ DepsSound /\ HandsSound /\ Active(hand[w])
      /\ hand[w] \in Hand /\ c \in Tasks
  BY <1>0 DEF DepTyped, HandsSound, Active, InFlight, Children
<1>2. HandsLeave(c)
  <2>1. PICK h : Turns(w, h) /\ ~Active(h)
    BY <1>0, ConcludeTurns
  <2> QED BY <1>1, <2>1, Turned DEF HandsLeave, On
<1>3. /\ SameRow(c)
      /\ \/ dep'[c] = dep[c]
         \/ /\ c = t /\ dep[c] = "pending" /\ dep'[c] = Outcome(v)
            /\ v = "cancelled" \/ task[c].state = v
  <2>1. CASE UNCHANGED <<storeVars, dep>>
    BY <2>1 DEF storeVars, SameRow
  <2>2. CASE t \in Children /\ (v = "cancelled" \/ task[t].state = v) /\ SettleChild(t, v)
    BY <1>1, <2>2, SettleLeaves
  <2> QED BY <1>0, <2>1, <2>2
<1>4. \/ shown'[c] = shown[c]
      \/ \E n \in AttemptNo, x \in {"failed", "cancelled"} :
           Over(c, n) /\ shown'[c] = [shown[c] EXCEPT ![n] = x]
  <2>1. CASE ~On(w, c)
    BY <1>0, <1>1, <2>1, ShownElsewhere
  <2>2. CASE On(w, c)
    <3>1. Att(w) \in AttemptNo /\ HandFits(w, c) /\ c = hand[w].claim.task
      BY <2>2, HeldNumbers DEF On
    <3>2. CASE UNCHANGED shown
      BY <3>2
    <3>3. ASSUME NEW x \in {"failed", "cancelled"}, Show(hand[w].claim, x), v \in {"none", "cancelled"}
          PROVE  Over(c, Att(w)) /\ shown'[c] = [shown[c] EXCEPT ![Att(w)] = x]
      BY <1>0, <1>1, <3>1, <3>3 DEF HandFits, Show, Att, DepTyped, ShownOK
    <3> QED BY <1>0, <3>1, <3>2, <3>3
  <2> QED BY <2>1, <2>2
<1>5. dep'[c] = dep[c] \/ \E x \in Verdict : SettledFor(c, x)
  <2> SUFFICES ASSUME dep'[c] # dep[c] PROVE SettledFor(c, v) /\ v \in Verdict
    OBVIOUS
  <2>1. /\ On(w, c) /\ dep[c] = "pending" /\ dep'[c] = Outcome(v)
        /\ v = "cancelled" \/ task[c].state = v
    BY <1>1, <1>3 DEF On
  <2>2. /\ HandFits(w, c) /\ RowFits(c) /\ FailedFits(c)
        /\ task[c].cur \in AttemptNo /\ task[c].state \in TaskState
    BY <1>1, <2>1, HeldNumbers, RowFields DEF ChildFits, TaskRow
  <2>3. v \in Verdict
    BY <1>1, <2>1, <2>2 DEF Hand, TaskState, Verdict
  <2>4. EndedAs(c, v)
    <3>1. CASE v = "cancelled"
      BY <1>0, <2>1, <2>2, <3>1 DEF HandFits, Answered, Unsettled
    <3>2. CASE task[c].state = v
      BY <2>2, <2>3, <3>2 DEF RowFits, EndedAs
    <3> QED BY <2>1, <3>1, <3>2
  <2>5. ASSUME v = "failed" PROVE ~ReadDone(c)
    BY <2>1, <2>2, <2>5 DEF FailedFits, Unsettled
  <2> QED BY <2>1, <2>3, <2>4, <2>5 DEF SettledFor
<1> QED BY <1>0, <1>2, <1>3, <1>4, <1>5, SettlementFits DEF AskedLess

LEMMA ClaimLoopFits ==
  ASSUME ~MayStall, DepTyped, NEW c \in Children, ChildFits(c), NEW w \in Workers,
         DepClaimLoop(w), UNCHANGED tick
  PROVE  ChildFits(c)'
BY TakeFits, StartFits, FinishFits, UnwindFits, DecideFits, TerminalizeFits, UncertainFits,
   SettleItemFits DEF DepClaimLoop

-----------------------------------------------------------------------------
(* The heartbeat, the command poll and recovery.                           *)

LEMMA AbortFits ==
  ASSUME DepTyped, NEW c \in Children, ChildFits(c), NEW w \in Workers, Active(hand[w]),
         NEW a \in {"lease", "cancel"}, hand' = [hand EXCEPT ![w].abort = a],
         SameRow(c), UNCHANGED <<shown, dep, tick, request>>, CommandLess(c),
         On(w, c) /\ Pending(c) => Over(c, Att(w))
  PROVE  ChildFits(c)'
<1>0. PICK h : /\ Turns(w, h) /\ h.phase = hand[w].phase /\ h.claim = hand[w].claim
               /\ h.verdict = hand[w].verdict
  BY AbortTurns DEF DepTyped
<1>1. hand'[w] = h /\ \A u \in Workers \ {w} : hand'[u] = hand[u]
  BY <1>0, Turned DEF DepTyped
<1>3. CASE ~On(w, c)
  <2>1. ~On(w, c)'
    BY <1>0, <1>1, <1>3 DEF On, Active
  <2> QED BY <1>1, <2>1, LetGo
<1>4. CASE On(w, c)
  <2>1. TurnsOn(w, c, h)
    BY <1>0, <1>1, <1>4 DEF TurnsOn
  <2>3. HandFits(w, c)'
    <3>1. HandFits(w, c)
      BY <1>4 DEF ChildFits
    <3>2. /\ Has(w, c)' <=> Has(w, c)
          /\ Att(w)' = Att(w) /\ (ReadDone(c)' <=> ReadDone(c))
          /\ Over(c, Att(w))' <=> Over(c, Att(w))
          /\ Answered(c, "cancelled")' <=> Answered(c, "cancelled")
      BY <1>0, <1>1 DEF Has, Att, ReadDone, Ticked, Over, SameRow, Answered, EndedAs, Unsettled
    <3> QED BY <1>0, <1>1, <3>1, <3>2 DEF HandFits, SameRow
  <2> QED BY <1>0, <1>4, <2>1, <2>3, HandTurned
<1> QED BY <1>3, <1>4

LEMMA RenewedRow ==
  ASSUME RowsSound, NEW w \in Workers, NEW t \in Tasks, RenewClaim(w, t)
  PROVE  /\ task[t].state \in {"claimed", "running"} /\ task'[t].state = task[t].state
         /\ task'[t].owner = task[t].owner /\ task'[t].lease = "live"
         /\ task'[t].gen = task[t].gen /\ task'[t].cur = task[t].cur
         /\ task'[t].run = task[t].run /\ task'[t].terminal = task[t].terminal
         /\ attempt' = attempt /\ \A u \in Tasks \ {t} : task'[u] = task[u]
<1>0. task[t] \in TaskRow /\ task \in [Tasks -> TaskRow]
  BY RowFields DEF RowsSound, StoreTypeOK
<1> QED BY <1>0 DEF RenewClaim, Write, TaskRow

LEMMA HeartbeatFits ==
  ASSUME DepTyped, NEW c \in Children, ChildFits(c), NEW w \in Workers, Heartbeat(w),
         UNCHANGED <<dep, tick>>
  PROVE  ChildFits(c)'
<1> DEFINE t == hand[w].claim.task
<1>0. /\ Active(hand[w]) /\ UNCHANGED <<shown, command, request>> /\ RowsSound
      /\ c \in Tasks
  BY DEF Heartbeat, Active, DepTyped, Children
<1>1. t \in Tasks
  BY <1>0, HeldSound
<1>2. CASE RenewClaim(w, t) /\ UNCHANGED hand
  <2>0. /\ task[t].state \in {"claimed", "running"} /\ task'[t].state = task[t].state
        /\ task'[t].owner = task[t].owner /\ task'[t].lease = "live"
        /\ task'[t].gen = task[t].gen /\ task'[t].cur = task[t].cur
        /\ task'[t].run = task[t].run /\ task'[t].terminal = task[t].terminal
        /\ attempt' = attempt /\ \A u \in Tasks \ {t} : task'[u] = task[u]
    BY <1>0, <1>1, <1>2, RenewedRow
  <2>1. HandsLeave(c)
    BY <1>2 DEF HandsLeave, On
  <2>2. CASE c # t
    <3>1. SameRow(c)
      BY <1>0, <2>0, <2>2 DEF SameRow
    <3> QED BY <1>0, <2>1, <3>1, Loosened DEF AskedLess, TickedLess, CommandLess
  <2>3. CASE c = t
    <3>0. task[c].cur \in AttemptNo /\ task[c].cur \in Nat
      BY <1>0, <2>0, <2>3, RowFields, AttemptsAreNumbers DEF Numbered
    <3>a. /\ task[c].state \in {"claimed", "running"} /\ task'[c].state = task[c].state
          /\ task'[c].lease = "live" /\ task'[c].cur = task[c].cur
          /\ task'[c].run = task[c].run /\ task'[c].terminal = task[c].terminal
          /\ attempt' = attempt /\ shown' = shown
      BY <1>0, <2>0, <2>3
    <3>1. RowFits(c)'
      <4>1. RowFits(c)
        BY DEF ChildFits
      <4> QED BY <3>a, <4>1 DEF RowFits
    <3>2. MovesOn(c)
      BY <1>0, <2>0, <2>3, <3>0, <3>1 DEF MovesOn, Onward, Unsettled
    <3>3. \A u \in Workers : /\ Has(u, c)' <=> Has(u, c)
                             /\ Over(c, Att(u))' <=> Over(c, Att(u))
      BY <1>2, <2>0, <2>3 DEF Has, Over, Att
    <3>4. PendingFits(c)'
      <4>1. PendingFits(c) /\ (Pending(c)' <=> Pending(c)) /\ (Ticked(c)' <=> Ticked(c))
        BY <1>0 DEF ChildFits, Pending, Ticked
      <4>2. \A u \in Workers : /\ On(u, c)' <=> On(u, c)
                               /\ Att(u)' = Att(u) /\ hand'[u] = hand[u]
        BY <1>2 DEF On, Att
      <4>3. request' = request
        BY <1>0
      <4> QED BY <3>3, <3>a, <4>1, <4>2, <4>3 DEF PendingFits
    <3>5. \A u \in Workers : On(u, c) => Has(u, c) \/ Over(c, Att(u))
      BY DEF ChildFits, HandFits
    <3>6. ReadDone(c) /\ ~task'[c].terminal => shown[c][task'[c].cur] = "done"
      BY <2>0, <2>3 DEF ChildFits, TickFits
    <3> QED
      BY <1>0, <2>0, <2>1, <2>3, <3>2, <3>3, <3>4, <3>5, <3>6, HeldMoveFits DEF AskedLess, CommandLess
  <2> QED BY <2>2, <2>3
<1>3. CASE /\ ~(task[t].owner = w /\ task[t].state \in {"claimed", "running"})
           /\ hand' = [hand EXCEPT ![w].abort = "lease"] /\ UNCHANGED storeVars
  <2>1. SameRow(c)
    BY <1>3 DEF SameRow, storeVars
  <2>2. ASSUME On(w, c), Pending(c) PROVE Over(c, Att(w))
    <3>1. /\ task[c].state \in {"queued", "claimed", "running"}
          /\ task[c].state = "queued" => task[c].owner = NoWorker
          /\ Has(w, c) \/ Over(c, Att(w))
      BY <2>2 DEF ChildFits, PendingFits, RowFits, HandFits
    <3> QED BY <1>3, <2>2, <3>1, StoreAssumption DEF Has, On
  <2> QED BY <1>0, <1>3, <2>1, <2>2, AbortFits DEF CommandLess
<1> QED BY <1>2, <1>3 DEF Heartbeat

LEMMA ConsumeCancelFits ==
  ASSUME DepTyped, NEW c \in Children, ChildFits(c), NEW w \in Workers, NEW t \in Tasks,
         ConsumeCancel(w, t), UNCHANGED <<dep, tick>>
  PROVE  ChildFits(c)'
<1>0. /\ SameRow(c) /\ UNCHANGED <<shown, request>> /\ CommandLess(c) /\ command[t] # NoCommand
  BY DEF ConsumeCancel, CloseCancelCommand, SameRow, CommandLess, DepTyped, CommandOK, Children
<1>1. CASE UNCHANGED hand
  <2>1. HandsLeave(c)
    BY <1>1 DEF HandsLeave, On
  <2> QED BY <1>0, <2>1, Loosened DEF AskedLess, TickedLess
<1>2. CASE /\ hand[w].phase \in {"processing", "returned"}
           /\ hand[w].claim.task = t /\ hand[w].claim.att = command[t].att
           /\ hand' = [hand EXCEPT ![w].abort = "cancel"]
  <2>1. ASSUME On(w, c), Pending(c) PROVE Over(c, Att(w))
    BY <1>0, <1>2, <2>1 DEF ChildFits, CommandFits, PendingFits, On, Att
  <2>2. Active(hand[w])
    BY <1>2 DEF Active, InFlight
  <2> QED BY <1>0, <1>2, <2>1, <2>2, AbortFits
<1> QED BY <1>1, <1>2 DEF ConsumeCancel

\* Nobody at work has the lease of an orphaned child.
LEMMA OrphanedAlone ==
  ASSUME DepTyped, NEW c \in Children, ChildFits(c), NEW others,
         Orphaned(c, Up \cup others), NEW u \in Workers, On(u, c)
  PROVE  ~Has(u, c) /\ Over(c, Att(u)) /\ Att(u) < task[c].cur
<1>1. task[c].lease # "expired" /\ task[c].owner \notin Up
      /\ task[c].state \in {"claimed", "running"}
  BY DEF ChildFits, RowFits, Orphaned
<1>2. u \in Up
  BY DEF On, Active, InFlight, Up
<1>3. ~Has(u, c)
  BY <1>1, <1>2 DEF Has
<1>4. HandFits(u, c) /\ RowFits(c)
  BY DEF ChildFits
<1> QED BY <1>1, <1>3, <1>4 DEF HandFits, RowFits, Over, Ended

LEMMA RequeuedFits ==
  ASSUME DepTyped, NEW c \in Children, ChildFits(c), NEW others,
         Orphaned(c, Up \cup others), shown[c][task[c].cur] = "none",
         task'[c] = Requeued(task[c]),
         \A n \in AttemptNo :
           attempt'[c][n] = IF n = task[c].cur THEN Repended(attempt[c][n]) ELSE attempt[c][n],
         HandsLeave(c), UNCHANGED <<shown, dep, tick, request, command>>
  PROVE  ChildFits(c)'
<1>0. /\ RowFits(c) /\ TickFits(c) /\ PendingFits(c)
      /\ task[c] \in TaskRow /\ Numbered(task[c])
      /\ task[c].state \in {"claimed", "running"}
  BY RowFields DEF ChildFits, DepTyped, Children, Orphaned
<1>1. /\ task'[c].state = "queued" /\ task'[c].owner = NoWorker /\ task'[c].lease = "none"
      /\ task'[c].cur = task[c].cur /\ task'[c].run = task[c].run
      /\ task'[c].terminal = task[c].terminal
  <2> DEFINE q == Requeued(task[c])
  <2>1. /\ q.state = "queued" /\ q.owner = NoWorker /\ q.lease = "none"
        /\ q.cur = task[c].cur /\ q.run = task[c].run /\ q.terminal = task[c].terminal
    BY <1>0, RequeuedRow
  <2>2. task'[c] = q
    OBVIOUS
  <2> HIDE DEF q
  <2> QED BY <2>1, <2>2
<1>2. /\ task[c].cur \in AttemptNo /\ task[c].cur \in Nat
  BY <1>0, AttemptsAreNumbers DEF Numbered
<1>3. ~task[c].terminal /\ attempt[c][task[c].cur] \notin Verdict
  BY <1>0 DEF RowFits, Ended
<1>4. /\ attempt'[c][task[c].cur] \notin Verdict
      /\ \A n \in AttemptNo : n # task[c].cur => attempt'[c][n] = attempt[c][n]
  BY <1>2, <1>3 DEF Repended, Verdict
<1>5. RowFits(c)'
  <2>1. \A n \in AttemptNo : n > task[c].cur => n # task[c].cur
    BY <1>2 DEF AttemptNo
  <2> QED BY <1>0, <1>1, <1>3, <1>4, <2>1 DEF RowFits, Ended, Verdict
<1>6. MovesOn(c)
  <2>1. \A n \in AttemptNo : attempt[c][n] \in Verdict => attempt'[c][n] = attempt[c][n]
    BY <1>3, <1>4
  <2>2. task[c].cur <= task'[c].cur /\ task'[c].cur \in AttemptNo
    BY <1>1, <1>2
  <2> QED BY <1>0, <1>1, <1>3, <1>5, <2>1, <2>2 DEF MovesOn, Onward, Unsettled
<1>7. \A u \in Workers : On(u, c) /\ On(u, c)' => Over(c, Att(u))' /\ ~Has(u, c)'
  <2>1. \A u \in Workers : On(u, c) => Att(u) < task[c].cur
    BY OrphanedAlone
  <2>2. \A u \in Workers : On(u, c)' => Att(u)' = Att(u)
    BY DEF HandsLeave, Att
  <2> QED BY <1>1, <2>1, <2>2, StoreAssumption DEF Over, Has
<1>8. PendingFits(c)'
  <2> SUFFICES ASSUME Pending(c)' PROVE PendingFits(c)'
    BY DEF PendingFits
  <2>1. Pending(c) /\ (Ticked(c)' <=> Ticked(c))
    BY DEF Pending, Ticked
  <2>2. \A u \in Workers : On(u, c)' => On(u, c) /\ Over(c, Att(u)) /\ Over(c, Att(u))'
    BY <1>7, OrphanedAlone DEF HandsLeave
  <2> QED BY <1>0, <1>1, <2>1, <2>2 DEF PendingFits
<1>9. ReadDone(c) /\ ~task'[c].terminal => shown[c][task'[c].cur] = "done"
  BY <1>0, <1>1 DEF TickFits
<1> QED
  BY <1>1, <1>6, <1>7, <1>8, <1>9, HeldMoveFits DEF CommandLess, AskedLess

LEMMA ReconciledFits ==
  ASSUME DepTyped, NEW c \in Children, ChildFits(c), NEW others,
         Orphaned(c, Up \cup others), NEW v \in Verdict, shown[c][task[c].cur] = v,
         task'[c] = Closed(task[c], v),
         attempt'[c] = [attempt[c] EXCEPT ![task[c].cur] = v],
         HandsLeave(c), UNCHANGED <<shown, dep, tick, request, command>>
  PROVE  ChildFits(c)'
<1>0. RowFits(c) /\ TickFits(c) /\ PendingFits(c) /\ task[c].state \in {"claimed", "running"}
  BY DEF ChildFits, Orphaned
<1>1. ~task[c].terminal /\ v \in Ended
  BY <1>0 DEF RowFits, Ended, Verdict
<1>2. Ends(c, v, v)
  BY <1>0, <1>1 DEF Ends
<1>3. HandsEnd(c, v)
  BY DEF HandsEnd, HandsLeave
<1>4. ~Pending(c)'
  BY <1>0 DEF PendingFits, Pending, Verdict
<1>5. MarkedFits(c)'
  BY <1>2, EndedAskedFits DEF AskedLess
<1>6. v = "failed" => shown[c][task[c].cur] # "done" /\ ~ReadDone(c)
  BY <1>0, <1>1 DEF TickFits
<1>7. ASSUME NEW u \in Workers, On(u, c)', Att(u) = task[c].cur PROVE FALSE
  <2>1. On(u, c) /\ Att(u) < task[c].cur /\ task[c].cur \in Nat
    BY <1>7, OrphanedAlone, HeldNumbers DEF HandsLeave
  <2> QED BY <1>7, <2>1
<1> QED BY <1>2, <1>3, <1>4, <1>5, <1>6, <1>7, EndFits

LEMMA RecoverFits ==
  ASSUME DepTyped, NEW c \in Children, ChildFits(c), NEW w \in Workers, NEW others,
         Recover(w, Up \cup others), UNCHANGED <<dep, tick>>
  PROVE  ChildFits(c)'
<1> DEFINE alive == Up \cup others
<1>0. /\ UNCHANGED <<shown, command, request>> /\ c \in Tasks /\ HandsSound /\ RowsSound
      /\ hand[w].phase \in {"starting", "idle"} /\ Enter(w, "idle")
  BY DEF Recover, Children, DepTyped
<1>1. HandsLeave(c)
  <2>1. PICK h : Turns(w, h) /\ Rephased(h, hand[w], "idle")
    BY <1>0, EnterTurns DEF Phase
  <2>2. ~Active(h)
    BY <2>1 DEF Rephased, Active, InFlight
  <2> QED BY <1>0, <2>1, <2>2, Turned DEF HandsLeave, On
<1>2. CASE SameRow(c)
  BY <1>0, <1>1, <1>2, Loosened DEF AskedLess, TickedLess, CommandLess
<1>3. CASE RecoverOrphanedClaims(alive, TerminalRow)
  <2>0. /\ attempt[c] \in [AttemptNo -> AttemptState]
        /\ attempt' = [t \in Tasks |-> [n \in AttemptNo |->
             IF ~Orphaned(t, alive) \/ n # task[t].cur THEN attempt[t][n]
             ELSE IF TerminalRow[t] = "none" THEN Repended(attempt[t][n]) ELSE TerminalRow[t]]]
    BY <1>0, <1>3, RowFields DEF RecoverOrphanedClaims
  <2>1. CASE ~Orphaned(c, alive)
    <3>1. task'[c] = task[c]
      BY <1>0, <1>3, <2>1 DEF RecoverOrphanedClaims
    <3>2. attempt'[c] = [n \in AttemptNo |-> attempt[c][n]]
      BY <1>0, <2>0, <2>1
    <3> QED BY <1>2, <2>0, <3>1, <3>2 DEF SameRow
  <2>2. CASE Orphaned(c, alive)
    <3>0. task[c].cur \in AttemptNo /\ task[c].cur # 0
      BY <1>0, <2>2, RowFields, AttemptsAreNumbers DEF Orphaned, Numbered
    <3>1. TerminalRow[c] = shown[c][task[c].cur] /\ TerminalRow[c] \in Verdict \cup {"none"}
      BY <1>0, <3>0 DEF TerminalRow, DepTyped, ShownOK
    <3>2. CASE TerminalRow[c] = "none"
      <4>1. task'[c] = Requeued(task[c])
        BY <1>0, <1>3, <2>2, <3>2 DEF RecoverOrphanedClaims
      <4>2. \A n \in AttemptNo :
              attempt'[c][n] = IF n = task[c].cur THEN Repended(attempt[c][n]) ELSE attempt[c][n]
        BY <1>0, <2>0, <2>2, <3>2
      <4> QED BY <1>0, <1>1, <2>2, <3>1, <3>2, <4>1, <4>2, RequeuedFits
    <3>3. CASE TerminalRow[c] # "none"
      <4>1. task'[c] = Closed(task[c], TerminalRow[c])
        BY <1>0, <1>3, <2>2, <3>3 DEF RecoverOrphanedClaims
      <4>2. attempt'[c] = [n \in AttemptNo |->
              IF n # task[c].cur THEN attempt[c][n] ELSE TerminalRow[c]]
        BY <1>0, <2>0, <2>2, <3>3
      <4>3. attempt'[c] = [attempt[c] EXCEPT ![task[c].cur] = TerminalRow[c]]
        BY <2>0, <3>0, <4>2
      <4>4. TerminalRow[c] \in Verdict
        BY <3>1, <3>3
      <4> QED BY <1>0, <1>1, <2>2, <3>1, <4>1, <4>3, <4>4, ReconciledFits
    <3> QED BY <3>2, <3>3
  <2> QED BY <2>1, <2>2
<1>4. CASE UNCHANGED storeVars
  BY <1>2, <1>4 DEF storeVars, SameRow
<1> QED BY <1>3, <1>4 DEF Recover

LEMMA BackgroundFits ==
  ASSUME DepTyped, NEW c \in Children, ChildFits(c), NEW w \in Workers,
         DepBackground(w) \/ Spawn(w) \/ Crash(w), UNCHANGED <<dep, tick>>
  PROVE  ChildFits(c)'
<1>1. CASE Spawn(w)
  BY <1>1, EnterFits DEF Spawn, Phase, Active, InFlight, storeVars, SameRow
<1>2. CASE Crash(w)
  BY <1>2, DropFits DEF Crash, storeVars, SameRow
<1> QED BY <1>1, <1>2, RecoverFits, HeartbeatFits, ConsumeCancelFits DEF DepBackground

-----------------------------------------------------------------------------
(* The dashboard takes up a request.                                       *)

\* The hands and the record of c stay as they are.
LEMMA AskFits ==
  ASSUME NEW c \in Children, ChildFits(c), SameRow(c), UNCHANGED <<hand, shown, dep, tick>>,
         PendingFits(c)', MarkedFits(c)', CommandFits(c)'
  PROVE  ChildFits(c)'
<1>1. (Unsettled(c)' <=> Unsettled(c)) /\ (\A v : Answered(c, v)' <=> Answered(c, v))
  BY DEF SameRow, Unsettled, Answered, EndedAs
<1>2. ReadDone(c)' <=> ReadDone(c)
  BY DEF ReadDone, Ticked
<1>3. \A n : Over(c, n)' <=> Over(c, n)
  BY DEF SameRow, Over
<1>4. \A w \in Workers : (On(w, c)' <=> On(w, c)) /\ Att(w)' = Att(w)
  BY DEF On, Att
<1>5. ASSUME NEW w \in Workers, On(w, c)' PROVE HandFits(w, c)'
  <2>1. HandFits(w, c)
    BY <1>4, <1>5 DEF ChildFits
  <2> QED BY <1>1, <1>2, <1>3, <1>4, <2>1 DEF HandFits, Has, SameRow
<1>6. RowFits(c)' /\ TickFits(c)'
  BY <1>1, <1>2 DEF ChildFits, RowFits, TickFits, SameRow
<1>7. ApartOn(c)'
  BY <1>4 DEF ChildFits, ApartOn
<1>8. FailedFits(c)'
  BY <1>1, <1>2, <1>4 DEF ChildFits, FailedFits, SameRow
<1>9. ReasonFor(c)'
  BY DEF ChildFits, ReasonFor, SameRow, EndedAs
<1> QED BY <1>5, <1>6, <1>7, <1>8, <1>9 DEF ChildFits

LEMMA EnqueuedRow ==
  ASSUME RowsSound, NEW t \in Tasks, Enqueue(t)
  PROVE  /\ task[t].state = "absent" /\ task[t].cur = 0
         /\ task'[t].state = "queued" /\ task'[t].owner = NoWorker /\ task'[t].lease = "none"
         /\ task'[t].cur = 1 /\ task'[t].run = 1 /\ task'[t].terminal = FALSE
         /\ attempt'[t] = [attempt[t] EXCEPT ![1] = "pending"]
         /\ \A u \in Tasks \ {t} : task'[u] = task[u] /\ attempt'[u] = attempt[u]
<1> DEFINE q == AbsentRow
           row == [q EXCEPT !.state = "queued", !.cur = 1, !.run = 1]
<1>1. Write(t, row) /\ WriteAttempt(t, 1, "pending") /\ task[t].state = "absent"
  BY DEF Enqueue
<1>2. /\ row.state = "queued" /\ row.owner = NoWorker /\ row.lease = "none"
      /\ row.cur = 1 /\ row.run = 1 /\ row.terminal = FALSE
  BY DEF AbsentRow
<1>3. task[t].cur = 0
  BY <1>1, RowFields DEF Numbered
<1> HIDE DEF row, q
<1> QED BY <1>1, <1>2, <1>3 DEF Write, WriteAttempt, RowsSound, StoreTypeOK

LEMMA RetriedRow ==
  ASSUME RowsSound, NEW t \in Tasks, Retry(t)
  PROVE  /\ task[t].state \notin OwnedState \cup {"absent"} /\ task[t].run + 1 \in AttemptNo
         /\ task'[t].state = "queued" /\ task'[t].owner = NoWorker /\ task'[t].lease = "none"
         /\ task'[t].cur = task[t].run + 1 /\ task'[t].run = task[t].run + 1
         /\ task'[t].terminal = FALSE
         /\ attempt'[t] = [attempt[t] EXCEPT ![task[t].run + 1] = "pending"]
         /\ \A u \in Tasks \ {t} : task'[u] = task[u] /\ attempt'[u] = attempt[u]
<1> DEFINE n == task[t].run + 1
           q == Reopened(task[t])
           g == q.gen + 1
           row == [q EXCEPT !.gen = g, !.cur = n, !.run = n]
<1>0. task[t].run \in 0 .. MaxAttempt /\ task[t].run < MaxAttempt /\ task[t] \in TaskRow
  BY RowFields DEF Retry
<1>1. n \in AttemptNo
  BY <1>0, StoreAssumption DEF AttemptNo
<1>2. /\ q \in TaskRow /\ q.state = "queued" /\ q.run = task[t].run
      /\ q.owner = NoWorker /\ q.lease = "none" /\ q.terminal = FALSE
  BY <1>0, ReopenedRow
<1>4. /\ Write(t, [q EXCEPT !.gen = @ + 1, !.cur = n, !.run = @ + 1])
      /\ WriteAttempt(t, n, "pending")
      /\ task[t].state \notin OwnedState \cup {"absent"}
  BY <1>0 DEF Retry, ActiveStatesBlockingRetry
<1>5. Write(t, row)
  BY <1>2, <1>4 DEF TaskRow
<1> HIDE DEF q, n, g
<1>6. /\ row.state = "queued" /\ row.cur = n /\ row.run = n
      /\ row.owner = NoWorker /\ row.lease = "none" /\ row.terminal = FALSE
  BY <1>2 DEF TaskRow
<1> HIDE DEF row
<1>7. task \in [Tasks -> TaskRow] /\ attempt \in [Tasks -> [AttemptNo -> AttemptState]]
  BY DEF RowsSound, StoreTypeOK
<1> QED BY <1>1, <1>4, <1>5, <1>6, <1>7 DEF Write, WriteAttempt, n

LEMMA NewTaskFits ==
  ASSUME DepTyped, NEW c \in Children, ChildFits(c), NEW t \in Tasks, NewTask(t),
         tick = NoTick, UNCHANGED <<dep, tick>>
  PROVE  ChildFits(c)'
<1>0. /\ UNCHANGED <<hand, shown, command, request>> /\ RowsSound /\ c \in Tasks
      /\ HandsLeave(c) /\ AskedLess(c) /\ TickedLess(c) /\ CommandLess(c)
  BY DEF NewTask, daemonVars, DepTyped, Children, HandsLeave, On, AskedLess, TickedLess, CommandLess
<1>1. /\ task[t].state = "absent" /\ task[t].cur = 0
      /\ task'[t].state = "queued" /\ task'[t].owner = NoWorker /\ task'[t].lease = "none"
      /\ task'[t].cur = 1 /\ task'[t].run = 1 /\ task'[t].terminal = FALSE
      /\ attempt'[t] = [attempt[t] EXCEPT ![1] = "pending"]
      /\ \A u \in Tasks \ {t} : task'[u] = task[u] /\ attempt'[u] = attempt[u]
  BY <1>0, EnqueuedRow DEF NewTask
<1>2. CASE c # t
  <2>1. SameRow(c)
    BY <1>0, <1>1, <1>2 DEF SameRow
  <2> QED BY <1>0, <2>1, Loosened
<1>3. CASE c = t
  <2>0. /\ RowFits(c) /\ PendingFits(c) /\ attempt[c] \in [AttemptNo -> AttemptState]
        /\ 1 \in AttemptNo /\ AttemptNo \subseteq Nat \ {0} /\ task[c].cur = 0
    BY <1>0, <1>1, <1>3, RowFields, AttemptsAreNumbers DEF ChildFits
  <2>a. /\ task[c].state = "absent" /\ task'[c].state = "queued" /\ task'[c].owner = NoWorker
        /\ task'[c].lease = "none" /\ task'[c].cur = 1 /\ task'[c].run = 1
        /\ task'[c].terminal = FALSE /\ attempt'[c] = [attempt[c] EXCEPT ![1] = "pending"]
    BY <1>1, <1>3
  <2>b. \A n \in AttemptNo : n > 0 /\ n > task[c].cur
    BY <2>0
  <2>1. \A n \in AttemptNo : n > 0 /\ attempt[c][n] = "absent" /\ shown[c][n] = "none"
    BY <2>0, <2>b DEF RowFits
  <2>2. /\ attempt'[c][1] = "pending"
        /\ \A n \in AttemptNo : n > 1 => attempt'[c][n] = "absent"
    BY <2>0, <2>a, <2>1
  <2>3. RowFits(c)'
    BY <1>0, <2>0, <2>a, <2>1, <2>2 DEF RowFits, Ended, Verdict
  <2>4. MovesOn(c)
    BY <1>0, <2>0, <2>a, <2>1, <2>3 DEF MovesOn, Onward, Unsettled, Verdict
  <2>5. \A w \in Workers : ~On(w, c)
    BY <2>0, HeldNumbers
  <2>6. PendingFits(c)'
    BY <1>0, <2>0, <2>a DEF PendingFits, Pending
  <2>7. ~ReadDone(c)
    BY DEF ReadDone, Ticked
  <2> QED BY <1>0, <2>4, <2>5, <2>6, <2>7, HeldMoveFits
<1> QED BY <1>2, <1>3

\* A retry: nobody is about to start the attempt it leaves behind.
LEMMA RetryFits ==
  ASSUME ~MayStall, DepTyped, NEW c \in Children, ChildFits(c), NEW t \in Tasks, RetryTask(t),
         tick = NoTick, UNCHANGED <<dep, tick>>
  PROVE  ChildFits(c)'
<1>0. /\ UNCHANGED <<hand, shown, command, request>> /\ RowsSound /\ c \in Tasks
      /\ HandsLeave(c) /\ AskedLess(c) /\ TickedLess(c) /\ CommandLess(c)
      /\ \A w \in Workers : hand[w].phase # "claimed"
      /\ request # NoRequest => request.op = "sweep"
  BY DEF RetryTask, daemonVars, DepTyped, Children, HandsLeave, On, AskedLess, TickedLess,
     CommandLess, OperatorTime, Free
<1>1. /\ task[t].state \notin OwnedState \cup {"absent"} /\ task[t].run + 1 \in AttemptNo
      /\ task'[t].state = "queued" /\ task'[t].owner = NoWorker /\ task'[t].lease = "none"
      /\ task'[t].cur = task[t].run + 1 /\ task'[t].run = task[t].run + 1
      /\ task'[t].terminal = FALSE
      /\ attempt'[t] = [attempt[t] EXCEPT ![task[t].run + 1] = "pending"]
      /\ \A u \in Tasks \ {t} : task'[u] = task[u] /\ attempt'[u] = attempt[u]
  BY <1>0, RetriedRow DEF RetryTask
<1>2. CASE c # t
  <2>1. SameRow(c)
    BY <1>0, <1>1, <1>2 DEF SameRow
  <2> QED BY <1>0, <2>1, Loosened
<1>3. CASE c = t
  <2> DEFINE n == task[c].cur + 1
  <2>0. /\ RowFits(c) /\ PendingFits(c) /\ attempt[c] \in [AttemptNo -> AttemptState]
        /\ task[c].cur \in AttemptNo /\ AttemptNo \subseteq Nat \ {0} /\ task[c].run = task[c].cur
    BY <1>0, <1>1, <1>3, RowFields, AttemptsAreNumbers DEF ChildFits, Numbered, RowFits
  <2>a. /\ task[c].state \notin OwnedState \cup {"absent"} /\ n \in AttemptNo
        /\ task'[c].state = "queued" /\ task'[c].owner = NoWorker /\ task'[c].lease = "none"
        /\ task'[c].cur = n /\ task'[c].run = n /\ task'[c].terminal = FALSE
        /\ attempt'[c] = [attempt[c] EXCEPT ![n] = "pending"]
    BY <1>1, <1>3, <2>0
  <2>b. n > task[c].cur /\ n # task[c].cur /\ n \in Nat /\ task[c].cur \in Nat
    <3>1. task[c].cur \in Nat
      BY <2>0
    <3> QED BY <3>1
  <2>c. \A m \in AttemptNo : m > n => m > task[c].cur /\ m # n
    BY <2>0, <2>b
  <2> HIDE DEF n
  <2>1. attempt[c][n] = "absent" /\ shown[c][n] = "none"
    BY <2>0, <2>a, <2>b DEF RowFits
  <2>2. /\ attempt'[c][n] = "pending"
        /\ \A m \in AttemptNo : m # n => attempt'[c][m] = attempt[c][m]
    BY <2>0, <2>a
  <2>3. RowFits(c)'
    BY <1>0, <2>0, <2>a, <2>c, <2>1, <2>2 DEF RowFits, Ended, Verdict
  <2>4. MovesOn(c)
    <3>1. \A m \in AttemptNo : attempt[c][m] \in Verdict => attempt'[c][m] = attempt[c][m]
      BY <2>1, <2>2 DEF Verdict
    <3>2. Onward(c)
      BY <1>0, <2>a, <2>b, <3>1 DEF Onward, Unsettled
    <3> QED BY <1>0, <2>a, <2>3, <3>1, <3>2 DEF MovesOn, OwnedState
  <2>5. ASSUME NEW w \in Workers, On(w, c) PROVE Over(c, Att(w))' /\ ~Has(w, c)'
    <3>1. Att(w) < n /\ Att(w)' = Att(w)
      BY <1>0, <2>b, <2>5, HeldNumbers DEF Att
    <3> QED BY <2>a, <3>1, StoreAssumption DEF Over, Has
  <2>6. PendingFits(c)'
    <3> SUFFICES ASSUME Pending(c)' PROVE PendingFits(c)'
      BY DEF PendingFits
    <3>1. Pending(c) /\ task[c].state = "queued" /\ ~Ticked(c)'
      BY <1>0, <2>0, <2>a DEF Pending, PendingFits, OwnedState, Ticked
    <3>2. request.op = "sweep"
      BY <1>0, <3>1 DEF Pending
    <3>3. \A w \in Workers : On(w, c) => Over(c, Att(w))
      BY <3>1, HeldNumbers DEF Over
    <3>4. request.step = "probed" => \A w \in Workers : ~On(w, c)
      BY <2>0, <3>1, <3>3 DEF PendingFits
    <3>5. \A w \in Workers : On(w, c)' <=> On(w, c)
      BY <1>0 DEF On
    <3> QED BY <1>0, <2>a, <2>1, <2>5, <3>1, <3>2, <3>4, <3>5 DEF PendingFits
  <2>7. ~ReadDone(c)
    BY DEF ReadDone, Ticked
  <2> QED BY <1>0, <2>4, <2>5, <2>6, <2>7, HeldMoveFits
<1> QED BY <1>2, <1>3

LEMMA ReadFits ==
  ASSUME DepTyped, NEW c \in Children, ChildFits(c), NEW t \in Tasks,
         AskCancelQueued(t) \/ AskCancelRunning(t) \/ AskSweep(t),
         tick = NoTick, UNCHANGED <<dep, tick>>
  PROVE  ChildFits(c)'
<1>0. PICK op \in {"cancel-queued", "cancel-running", "sweep"} :
        /\ Read(op, t)
        /\ op # "cancel-running" => task[t].state \in {"queued", "waiting_dependencies"}
        /\ task[t].state # "absent"
  BY DEF AskCancelQueued, AskCancelRunning, AskSweep, OwnedState
<1>1. /\ SameRow(c) /\ HandsLeave(c) /\ TickedLess(c) /\ CommandLess(c)
      /\ UNCHANGED <<hand, shown, command>> /\ request = NoRequest
      /\ request' = [op |-> op, task |-> t, att |-> task[t].cur, worker |-> task[t].owner,
                     step |-> "read"]
  BY <1>0 DEF Read, storeVars, SameRow, HandsLeave, On, TickedLess, CommandLess
<1>2. CASE c # t
  <2>1. AskedLess(c)
    BY <1>1, <1>2 DEF AskedLess
  <2> QED BY <1>1, <2>1, Loosened
<1>3. CASE c = t
  <2>0. /\ RowFits(c) /\ CommandFits(c) /\ task[c].cur \in Nat
    BY <1>0, <1>3, RowFields, AttemptsAreNumbers DEF ChildFits, DepTyped, Numbered
  <2>a. /\ request'.op = op /\ request'.task = c /\ request'.att = task[c].cur
        /\ request'.step = "read"
    BY <1>1, <1>3
  <2>1. MarkedFits(c)'
    BY <1>1, <2>0, <2>a DEF MarkedFits, SameRow
  <2>2. CommandFits(c)'
    BY <1>1, <2>0 DEF CommandFits, SameRow, Over
  <2>3. PendingFits(c)'
    <3> SUFFICES ASSUME Pending(c)' PROVE PendingFits(c)'
      BY DEF PendingFits
    <3>1. task[c].state = "queued" /\ shown[c][task[c].cur] = "none"
      BY <1>0, <1>3, <2>0, <2>a DEF Pending, RowFits
    <3>2. \A w \in Workers : On(w, c)' => Over(c, Att(w))'
      BY <1>1, <3>1, HeldNumbers DEF Over, SameRow, On, Att
    <3> QED BY <1>1, <2>a, <3>1, <3>2 DEF PendingFits, SameRow, Ticked
  <2> QED BY <1>1, <2>1, <2>2, <2>3, AskFits
<1> QED BY <1>2, <1>3

-----------------------------------------------------------------------------
(* The dashboard serves its request.                                       *)

LEMMA UnfencedEnds ==
  ASSUME DepTyped, NEW c \in Children, NEW n, NEW v \in {"failed", "cancelled"},
         MarkTerminalUnfenced(c, n, v), UNCHANGED <<shown, dep, tick, command>>
  PROVE  Ends(c, v, v) /\ n = task[c].cur
<1>1. v \in Ended /\ v \in Verdict /\ RowsSound
  BY DEF Ended, Verdict, DepTyped
<1> QED BY <1>1, EndWritten DEF MarkTerminalUnfenced

LEMMA UnfencedElsewhere ==
  ASSUME DepTyped, NEW c \in Children, NEW t \in Tasks, t # c, NEW n, NEW v,
         MarkTerminalUnfenced(t, n, v) \/ UNCHANGED storeVars
  PROVE  SameRow(c)
<1>1. CASE MarkTerminalUnfenced(t, n, v)
  BY <1>1, WrittenElsewhere DEF MarkTerminalUnfenced, DepTyped
<1>2. CASE UNCHANGED storeVars
  BY <1>2 DEF storeVars, SameRow
<1> QED BY <1>1, <1>2

\* The request goes to its next step.
LEMMA Marked ==
  ASSUME DepTyped, request # NoRequest, Mark
  PROVE  /\ request'.step = "marked" /\ request'.op = request.op
         /\ request'.task = request.task /\ request'.att = request.att
BY DEF Mark, DepTyped, RequestOK, Request

LEMMA CancelQueuedFits ==
  ASSUME DepTyped, NEW c \in Children, ChildFits(c), CancelQueued, UNCHANGED <<dep, tick>>
  PROVE  ChildFits(c)'
<1> DEFINE t == request.task
           n == request.att
<1>0. /\ request # NoRequest /\ t \in Tasks /\ n \in AttemptNo
      /\ request.op = "cancel-queued" /\ request.step = "read"
      /\ UNCHANGED <<hand, shown, command>> /\ Mark
      /\ IF ~task[t].terminal /\ task[t].cur = n
         THEN MarkTerminalUnfenced(t, n, "cancelled") ELSE UNCHANGED storeVars
      /\ HandsLeave(c) /\ TickedLess(c) /\ CommandLess(c)
  BY ServedSound DEF CancelQueued, HandsLeave, On, TickedLess, CommandLess
<1>1. /\ request'.step = "marked" /\ request'.op = "cancel-queued"
      /\ request'.task = t /\ request'.att = n
  BY <1>0, Marked
<1>2. CASE c # t
  <2>1. SameRow(c)
    BY <1>0, <1>2, UnfencedElsewhere
  <2>2. AskedLess(c)
    BY <1>1, <1>2 DEF AskedLess
  <2> QED BY <1>0, <2>1, <2>2, Loosened
<1>3. CASE c = t
  <2>0. /\ ~task[c].terminal /\ task[c].cur = n
    BY <1>0, <1>3 DEF ChildFits, PendingFits, Pending, RowFits, Ended
  <2>1. MarkTerminalUnfenced(c, n, "cancelled")
    BY <1>0, <1>3, <2>0
  <2>2. Ends(c, "cancelled", "cancelled")
    BY <1>0, <2>1, UnfencedEnds
  <2>3. task'[c].cur = task[c].cur /\ task'[c].terminal /\ EndedAs(c, "cancelled")'
    BY <2>2, EndedRow
  <2>4. n \in Nat
    BY <1>0, AttemptsAreNumbers
  <2> HIDE DEF n, t
  <2>5. MarkedFits(c)'
    BY <1>1, <1>3, <2>0, <2>3, <2>4 DEF MarkedFits, Over, Answered
  <2>6. ~Pending(c)'
    BY <1>1 DEF Pending
  <2>7. HandsEnd(c, "cancelled")
    BY <1>0 DEF HandsEnd, HandsLeave
  <2> QED BY <2>2, <2>5, <2>6, <2>7, EndFits
<1> QED BY <1>2, <1>3

LEMMA CancelledRow ==
  ASSUME RowsSound, NEW t \in Tasks, RequestCancelRunning(t)
  PROVE  /\ task[t].state \in {"claimed", "running"} /\ task[t].cur \in AttemptNo
         /\ task'[t].state = "cancel_requested" /\ task'[t].owner = task[t].owner
         /\ task'[t].lease = task[t].lease /\ task'[t].gen = task[t].gen
         /\ task'[t].cur = task[t].cur /\ task'[t].run = task[t].run
         /\ task'[t].terminal = task[t].terminal
         /\ attempt'[t] = [attempt[t] EXCEPT ![task[t].cur] = "cancel_requested"]
         /\ \A u \in Tasks \ {t} : task'[u] = task[u] /\ attempt'[u] = attempt[u]
<1> DEFINE row == [task[t] EXCEPT !.state = "cancel_requested", !.cancelReq = TRUE]
<1>0. task[t] \in TaskRow /\ Numbered(task[t]) /\ task[t].state \in {"claimed", "running"}
  BY RowFields DEF RequestCancelRunning
<1>1. /\ row.state = "cancel_requested" /\ row.cur = task[t].cur /\ row.lease = task[t].lease
      /\ row.run = task[t].run /\ row.owner = task[t].owner /\ row.gen = task[t].gen
      /\ row.terminal = task[t].terminal
  BY <1>0 DEF TaskRow
<1>2. Write(t, row) /\ WriteAttempt(t, task[t].cur, "cancel_requested")
  BY DEF RequestCancelRunning
<1> HIDE DEF row
<1>3. task \in [Tasks -> TaskRow] /\ attempt \in [Tasks -> [AttemptNo -> AttemptState]]
  BY DEF RowsSound, StoreTypeOK
<1> QED BY <1>0, <1>1, <1>2, <1>3 DEF Write, WriteAttempt, Numbered

\* A claimed or running child is asked to stop.
LEMMA StoppedFits ==
  ASSUME DepTyped, NEW c \in Children, ChildFits(c), RequestCancelRunning(c), Mark,
         Serving("cancel-running", "read"), UNCHANGED <<hand, shown, command, dep, tick>>
  PROVE  ChildFits(c)'
<1>0. /\ request # NoRequest /\ request.op = "cancel-running" /\ RowsSound /\ c \in Tasks
      /\ HandsLeave(c) /\ CommandLess(c) /\ RowFits(c)
      /\ attempt[c] \in [AttemptNo -> AttemptState]
  BY RowFields DEF Serving, DepTyped, Children, HandsLeave, On, CommandLess, ChildFits
<1>1. /\ request'.step = "marked" /\ request'.op = "cancel-running"
      /\ request'.task = request.task /\ request'.att = request.att
  BY <1>0, Marked
<1>2. /\ task[c].state \in {"claimed", "running"} /\ task[c].cur \in AttemptNo
      /\ task'[c].state = "cancel_requested" /\ task'[c].owner = task[c].owner
      /\ task'[c].lease = task[c].lease /\ task'[c].gen = task[c].gen
      /\ task'[c].cur = task[c].cur /\ task'[c].run = task[c].run
      /\ task'[c].terminal = task[c].terminal
      /\ attempt'[c] = [attempt[c] EXCEPT ![task[c].cur] = "cancel_requested"]
  BY <1>0, CancelledRow
<1>3. attempt[c][task[c].cur] \notin Verdict
  BY <1>0, <1>2 DEF RowFits, Ended
<1>4. /\ attempt'[c][task[c].cur] = "cancel_requested"
      /\ \A n \in AttemptNo : n # task[c].cur => attempt'[c][n] = attempt[c][n]
  BY <1>0, <1>2
<1>a. task[c].cur \in Nat /\ \A n \in AttemptNo : n > task[c].cur => n # task[c].cur
  <2>1. task[c].cur \in Nat /\ AttemptNo \subseteq Nat
    BY <1>2, AttemptsAreNumbers
  <2> QED BY <2>1
<1>5. RowFits(c)'
  BY <1>0, <1>2, <1>4, <1>a DEF RowFits, Ended, Verdict
<1>6. MovesOn(c)
  <2>1. \A n \in AttemptNo : attempt[c][n] \in Verdict => attempt'[c][n] = attempt[c][n]
    BY <1>3, <1>4
  <2>2. Onward(c)
    BY <1>2, <1>a, <2>1 DEF Onward, Unsettled
  <2> QED BY <1>2, <1>5, <2>1, <2>2 DEF MovesOn
<1>7. \A w \in Workers : On(w, c) => /\ Has(w, c)' \/ Over(c, Att(w))'
                                     /\ Has(w, c)' => Has(w, c)
  BY <1>2 DEF ChildFits, HandFits, Has, Over, Att
<1>8. PendingFits(c)'
  BY <1>1 DEF PendingFits, Pending
<1>9. MarkedFits(c)'
  BY <1>0, <1>1, <1>2 DEF ChildFits, MarkedFits
<1>10. ReadDone(c) /\ ~task'[c].terminal => shown[c][task'[c].cur] = "done"
  BY <1>2 DEF ChildFits, TickFits
<1> QED BY <1>0, <1>2, <1>6, <1>7, <1>8, <1>9, <1>10, HeldMoveFits

LEMMA CancelRunningFits ==
  ASSUME DepTyped, NEW c \in Children, ChildFits(c), CancelRunning, UNCHANGED <<dep, tick>>
  PROVE  ChildFits(c)'
<1> DEFINE t == request.task
<1>0. /\ request # NoRequest /\ t \in Tasks /\ Serving("cancel-running", "read")
      /\ request.op = "cancel-running" /\ request.step = "read"
      /\ UNCHANGED <<hand, shown, command>>
      /\ HandsLeave(c) /\ TickedLess(c) /\ CommandLess(c)
      /\ \/ RequestCancelRunning(t) /\ Mark
         \/ task[t].state = "cancel_requested" /\ Mark /\ UNCHANGED storeVars
         \/ RequestCancelIdle(t) /\ request' = NoRequest
         \/ task[t].state \in Ended /\ request' = NoRequest /\ UNCHANGED storeVars
  BY ServedSound DEF CancelRunning, HandsLeave, On, TickedLess, CommandLess
<1>1. Mark => /\ request'.step = "marked" /\ request'.op = "cancel-running"
              /\ request'.task = t /\ request'.att = request.att
  BY <1>0, Marked
<1>2. CASE c # t
  <2>1. SameRow(c)
    BY <1>0, <1>2, UnfencedElsewhere, WrittenElsewhere
       DEF RequestCancelIdle, RequestCancelRunning, DepTyped
  <2>2. AskedLess(c)
    BY <1>0, <1>1, <1>2 DEF AskedLess
  <2> QED BY <1>0, <2>1, <2>2, Loosened
<1>3. CASE c = t
  <2>1. CASE RequestCancelRunning(t) /\ Mark
    BY <1>0, <1>3, <2>1, StoppedFits
  <2>2. ASSUME SameRow(c), ~Pending(c)', MarkedFits(c)' PROVE ChildFits(c)'
    <3>1. PendingFits(c)' /\ CommandFits(c)'
      BY <1>0, <2>2 DEF PendingFits, ChildFits, CommandFits, SameRow, Over
    <3> QED BY <1>0, <2>2, <3>1, AskFits
  <2>3. CASE task[t].state = "cancel_requested" /\ Mark /\ UNCHANGED storeVars
    <3>1. MarkedFits(c)'
      BY <1>0, <1>1, <1>3, <2>3 DEF ChildFits, MarkedFits, storeVars
    <3>2. ~Pending(c)' /\ SameRow(c)
      BY <1>1, <2>3 DEF Pending, storeVars, SameRow
    <3> QED BY <2>2, <3>1, <3>2
  <2>4. CASE request' = NoRequest
    <3>1. MarkedFits(c)' /\ ~Pending(c)'
      BY <2>4 DEF MarkedFits, Pending
    <3>2. CASE UNCHANGED storeVars
      BY <2>2, <3>1, <3>2 DEF storeVars, SameRow
    <3>3. CASE RequestCancelIdle(t)
      <4>1. MarkTerminalUnfenced(c, task[c].cur, "cancelled")
        BY <1>3, <3>3 DEF RequestCancelIdle
      <4>2. Ends(c, "cancelled", "cancelled")
        BY <1>0, <4>1, UnfencedEnds
      <4>3. HandsEnd(c, "cancelled")
        BY <1>0 DEF HandsEnd, HandsLeave
      <4> QED BY <3>1, <4>2, <4>3, EndFits
    <3> QED
      BY <1>0, <1>3, <2>1, <3>2, <3>3
  <2> QED BY <1>0, <2>1, <2>3, <2>4
<1> QED BY <1>2, <1>3

LEMMA SendCancelFits ==
  ASSUME DepTyped, NEW c \in Children, ChildFits(c), SendCancel, UNCHANGED <<dep, tick>>
  PROVE  ChildFits(c)'
<1> DEFINE t == request.task
<1>0. /\ request # NoRequest /\ t \in Tasks /\ request.op = "cancel-running"
      /\ request.step = "marked" /\ UNCHANGED <<hand, shown>> /\ request' = NoRequest
      /\ command' = [command EXCEPT ![t] = [worker |-> request.worker, att |-> request.att]]
      /\ SameRow(c) /\ HandsLeave(c) /\ TickedLess(c) /\ AskedLess(c) /\ c \in Tasks
  BY ServedSound DEF SendCancel, OpenCancelCommand, HandsLeave, On, TickedLess, AskedLess,
     SameRow, Children
<1>1. /\ c # t => command'[c] = command[c]
      /\ c = t => command'[c].att = request.att
  BY <1>0 DEF DepTyped, CommandOK
<1>2. CASE c # t
  BY <1>0, <1>1, <1>2, Loosened DEF CommandLess
<1>3. CASE c = t
  <2>1. CommandFits(c)'
    BY <1>0, <1>1, <1>3 DEF ChildFits, MarkedFits, CommandFits, SameRow, Over
  <2>2. PendingFits(c)' /\ MarkedFits(c)'
    BY <1>0 DEF PendingFits, Pending, MarkedFits
  <2> QED BY <1>0, <2>1, <2>2, AskFits
<1> QED BY <1>2, <1>3

\* The sweep looks for the daemons of the task's workflow.
LEMMA ProbeFits ==
  ASSUME DepTyped, NEW c \in Children, ChildFits(c),
         ProbeDaemons({w \in Up : Serves(w, request.task)}), UNCHANGED <<dep, tick>>
  PROVE  ChildFits(c)'
<1> DEFINE t == request.task
           up == {w \in Up : Serves(w, t)}
<1>0. /\ request # NoRequest /\ request \in Request /\ request.op = "sweep"
      /\ request.step = "read"
      /\ UNCHANGED <<storeVars, hand, shown, command>>
      /\ request' = IF up = {} THEN [request EXCEPT !.step = "probed"] ELSE NoRequest
  BY ServedSound DEF ProbeDaemons
<1>1. SameRow(c) /\ HandsLeave(c) /\ TickedLess(c) /\ CommandLess(c)
  BY <1>0 DEF storeVars, SameRow, HandsLeave, On, TickedLess, CommandLess
<1>2. CASE c # t \/ up # {}
  <2>1. AskedLess(c)
    BY <1>0, <1>2 DEF AskedLess, Request
  <2> QED BY <1>0, <1>1, <2>1, Loosened
<1>3. CASE c = t /\ up = {}
  <2>1. /\ request'.op = "sweep" /\ request'.task = c /\ request'.att = request.att
        /\ request'.step = "probed"
    BY <1>0, <1>3 DEF Request
  <2>2. \A w \in Workers : ~On(w, c)
    <3> SUFFICES ASSUME NEW w \in Workers, On(w, c) PROVE FALSE
      OBVIOUS
    <3>1. Serves(w, c) /\ w \in Up
      BY HeldNumbers DEF On, Active, InFlight, Up
    <3> QED BY <1>3, <3>1
  <2>3. PendingFits(c)'
    <3>1. PendingFits(c) /\ Pending(c)
      BY <1>0, <1>3 DEF ChildFits, Pending
    <3>2. \A w \in Workers : ~On(w, c)'
      BY <1>0, <2>2 DEF On
    <3>3. Ticked(c)' <=> Ticked(c)
      BY DEF Ticked
    <3> QED BY <1>0, <1>1, <2>1, <3>1, <3>2, <3>3 DEF PendingFits, SameRow
  <2>4. MarkedFits(c)'
    BY <1>0, <1>1, <1>3, <2>1 DEF ChildFits, MarkedFits, SameRow
  <2>5. CommandFits(c)'
    BY <1>0, <1>1 DEF ChildFits, CommandFits, SameRow, Over
  <2> QED BY <1>0, <1>1, <2>3, <2>4, <2>5, AskFits
<1> QED BY <1>2, <1>3

LEMMA SweepFailFits ==
  ASSUME DepTyped, NEW c \in Children, ChildFits(c), SweepFail, UNCHANGED <<dep, tick>>
  PROVE  ChildFits(c)'
<1> DEFINE t == request.task
<1>0. /\ request # NoRequest /\ t \in Tasks /\ request.att \in AttemptNo
      /\ request.op = "sweep" /\ request.step = "probed"
      /\ UNCHANGED <<hand, shown, command>> /\ Mark
      /\ IF ~task[t].terminal
         THEN MarkTerminalUnfenced(t, task[t].cur, "failed") ELSE UNCHANGED storeVars
      /\ HandsLeave(c) /\ TickedLess(c) /\ CommandLess(c)
  BY ServedSound DEF SweepFail, HandsLeave, On, TickedLess, CommandLess
<1>1. /\ request'.step = "marked" /\ request'.op = "sweep"
      /\ request'.task = t /\ request'.att = request.att
  BY <1>0, Marked
<1>2. CASE c # t
  <2>1. SameRow(c)
    BY <1>0, <1>2, UnfencedElsewhere
  <2>2. AskedLess(c)
    BY <1>1, <1>2 DEF AskedLess
  <2> QED BY <1>0, <2>1, <2>2, Loosened
<1>3. CASE c = t
  <2>a. PendingFits(c) /\ Pending(c) /\ RowFits(c)
    BY <1>0, <1>3 DEF ChildFits, Pending
  <2>0. /\ ~task[c].terminal /\ shown[c][task[c].cur] = "none" /\ ~Ticked(c)
        /\ \A w \in Workers : On(w, c) => ~Over(c, Att(w))
        /\ request.att <= task[c].cur
    BY <1>0, <1>3, <2>a DEF ChildFits, PendingFits, RowFits, Ended, MarkedFits
  <2>1. MarkTerminalUnfenced(c, task[c].cur, "failed")
    BY <1>0, <1>3, <2>0
  <2>2. Ends(c, "failed", "failed")
    BY <1>0, <2>1, UnfencedEnds
  <2>3. /\ task'[c].cur = task[c].cur /\ task'[c].terminal /\ EndedAs(c, "failed")'
        /\ task[c].cur \in AttemptNo
    BY <2>2, EndedRow
  <2>4. request.att \in Nat /\ task[c].cur \in Nat
    BY <1>0, <2>3, AttemptsAreNumbers
  <2> HIDE DEF t
  <2>5. MarkedFits(c)'
    BY <1>1, <1>3, <2>0, <2>3, <2>4 DEF MarkedFits, Over, Answered
  <2>6. ~Pending(c)'
    BY <1>1 DEF Pending
  <2>7. HandsEnd(c, "failed")
    BY <1>0 DEF HandsEnd, HandsLeave
  <2>8. ASSUME NEW w \in Workers, NEW u \in Workers, On(w, c)', On(u, c)' PROVE u = w
    <3>1. On(w, c) /\ On(u, c)
      BY <1>0, <2>8 DEF HandsLeave
    <3>2. Has(w, c) /\ Has(u, c)
      BY <2>0, <3>1 DEF ChildFits, HandFits
    <3> QED BY <3>2 DEF Has
  <2>9. ~ReadDone(c)
    BY <2>0 DEF ReadDone
  <2> QED BY <2>0, <2>2, <2>5, <2>6, <2>7, <2>8, <2>9, EndFits
<1> QED BY <1>2, <1>3

LEMMA SettleRequestFits ==
  ASSUME DepTyped, NEW c \in Children, ChildFits(c), SettleRequest, tick = NoTick, UNCHANGED tick
  PROVE  ChildFits(c)'
<1> DEFINE t == request.task
           n == request.att
           v == IF request.op = "sweep" THEN "failed" ELSE "cancelled"
<1>0. /\ request # NoRequest /\ t \in Tasks /\ n \in AttemptNo /\ v \in {"failed", "cancelled"}
      /\ request.op \in {"cancel-queued", "sweep"} /\ request.step = "marked"
      /\ shown' = [shown EXCEPT ![t][n] = v]
      /\ request' = NoRequest /\ UNCHANGED <<hand, command>>
      /\ (t \in Children /\ SettleChild(t, v)) \/ UNCHANGED <<storeVars, dep>>
  BY ServedSound DEF SettleRequest, CloseRequest, NothingToSettle
<1>1. HandsLeave(c) /\ AskedLess(c) /\ RowsSound /\ DepsSound /\ c \in Tasks
  BY <1>0 DEF HandsLeave, On, AskedLess, DepTyped, Children
<1>2. c = t => Over(c, n) /\ Answered(c, v)
  BY <1>0 DEF ChildFits, MarkedFits
<1> HIDE DEF v, n, t
<1>3. /\ SameRow(c)
      /\ dep'[c] = dep[c] \/ (c = t /\ dep[c] = "pending" /\ dep'[c] = Outcome(v))
  <2>1. CASE UNCHANGED <<storeVars, dep>>
    BY <2>1 DEF storeVars, SameRow
  <2>2. CASE t \in Children /\ SettleChild(t, v)
    BY <1>1, <2>2, SettleLeaves
  <2> QED BY <1>0, <2>1, <2>2
<1>4. \/ shown'[c] = shown[c]
      \/ \E m \in AttemptNo, x \in {"failed", "cancelled"} :
           Over(c, m) /\ shown'[c] = [shown[c] EXCEPT ![m] = x]
  <2>1. CASE c # t
    BY <1>0, <1>1, <2>1 DEF DepTyped, ShownOK
  <2>2. CASE c = t
    <3>1. shown'[c] = [shown[c] EXCEPT ![n] = v]
      BY <1>0, <1>1, <2>2 DEF DepTyped, ShownOK
    <3> QED BY <1>0, <1>2, <2>2, <3>1
  <2> QED BY <2>1, <2>2
<1>5. dep'[c] = dep[c] \/ \E x \in Verdict : SettledFor(c, x)
  <2> SUFFICES ASSUME dep'[c] # dep[c] PROVE SettledFor(c, v) /\ v \in Verdict
    OBVIOUS
  <2>1. v \in Verdict /\ EndedAs(c, v) /\ ~ReadDone(c)
    BY <1>0, <1>2, <1>3 DEF Verdict, Answered, Unsettled, ReadDone, Ticked
  <2> QED BY <1>3, <2>1 DEF SettledFor
<1> QED BY <1>0, <1>1, <1>3, <1>4, <1>5, SettlementFits

LEMMA ServeFits ==
  ASSUME DepTyped, NEW c \in Children, ChildFits(c), DepServe, tick = NoTick, UNCHANGED tick
  PROVE  ChildFits(c)'
BY CancelQueuedFits, CancelRunningFits, SendCancelFits, ProbeFits, SweepFailFits,
   SettleRequestFits DEF DepServe

-----------------------------------------------------------------------------
(* The scheduler, and the invariant as a whole.                            *)

LEMMA CreateFits ==
  ASSUME DepTyped, NEW c \in Children, ChildFits(c), NEW d \in Children, CreateDependency(d)
  PROVE  ChildFits(c)'
<1>1. /\ UNCHANGED <<attempt, hand, shown, command, request, tick>> /\ dep \in [Children -> DepStatus]
      /\ dep[d] = "none" /\ dep' = [dep EXCEPT ![d] = "pending"]
      /\ c \in Tasks /\ c # Parent /\ task \in [Tasks -> TaskRow]
  BY DEF CreateDependency, daemonVars, DepTyped, DepsSound, RowsSound, StoreTypeOK, Children
<1>2. SameRow(c)
  BY <1>1 DEF CreateDependency, Write, SameRow
<1>3. dep'[c] = dep[c] \/ (dep[c] = "none" /\ dep'[c] = "pending")
  BY <1>1
<1> QED BY <1>1, <1>2, <1>3, Loosened DEF HandsLeave, On, AskedLess, TickedLess, CommandLess

\* The scheduler reads the terminal row of the child's run.
LEMMA SchedulerReadFits ==
  ASSUME DepTyped, NEW c \in Children, ChildFits(c), NEW d \in Children, SchedulerRead(d)
  PROVE  ChildFits(c)'
<1> DEFINE v == IF shown[d][task[d].run] = "done" THEN "done" ELSE "failed"
<1>1. /\ SameRow(c) /\ UNCHANGED <<hand, shown, command, request, dep>>
      /\ dep[d] = "pending" /\ task[d].run # 0 /\ shown[d][task[d].run] # "none"
      /\ tick = NoTick /\ tick' = [child |-> d, verdict |-> v]
  BY DEF SchedulerRead, DashboardFree, vars, storeVars, daemonVars, SameRow
<1>2. tick'.child = d /\ tick'.verdict = v
  BY <1>1
<1>3. CASE c # d
  BY <1>1, <1>2, <1>3, Loosened DEF HandsLeave, On, AskedLess, TickedLess, Ticked, CommandLess
<1>4. CASE c = d
  <2>0. RowFits(c) /\ task'[c] = task[c] /\ task[c].run = task[c].cur
    BY <1>1 DEF ChildFits, RowFits, SameRow
  <2>1. /\ shown[c][task[c].cur] # "none" /\ dep[c] = "pending"
        /\ ReadDone(c)' => shown[c][task[c].cur] = "done"
    BY <1>1, <1>2, <1>4, <2>0 DEF ReadDone
  <2>2. (Unsettled(c)' <=> Unsettled(c)) /\ (\A x : Answered(c, x)' <=> Answered(c, x))
    BY <1>1 DEF SameRow, Unsettled, Answered, EndedAs
  <2>3. \A n : Over(c, n)' <=> Over(c, n)
    BY <2>0 DEF Over
  <2>4. \A w \in Workers : (On(w, c)' <=> On(w, c)) /\ Att(w)' = Att(w) /\ (Has(w, c)' <=> Has(w, c))
    BY <1>1, <2>0 DEF On, Att, Has
  <2>5. ASSUME NEW w \in Workers, On(w, c)' PROVE HandFits(w, c)'
    <3>1. HandFits(w, c)
      BY <2>4, <2>5 DEF ChildFits
    <3>2. hand[w].phase \in {"claimed", "processing"} /\ task[c].cur = Att(w) => ~ReadDone(c)'
      BY <2>1, <3>1 DEF HandFits
    <3>3. hand[w].verdict = "failed" /\ ~Over(c, Att(w)) => ~ReadDone(c)'
      BY <2>1, <3>1 DEF HandFits
    <3> QED BY <1>1, <2>0, <2>2, <2>3, <2>4, <3>1, <3>2, <3>3 DEF HandFits
  <2>6. RowFits(c)' /\ ReasonFor(c)'
    BY <1>1, <2>0, <2>2 DEF ChildFits, RowFits, ReasonFor, SameRow, EndedAs
  <2>7. ApartOn(c)'
    BY <2>4 DEF ChildFits, ApartOn
  <2>8. FailedFits(c)'
    BY <1>1, <2>0, <2>1, <2>2, <2>4 DEF ChildFits, FailedFits
  <2>9. TickFits(c)'
    BY <1>1, <2>0, <2>1 DEF TickFits
  <2>10. PendingFits(c)'
    BY <1>1, <2>1 DEF ChildFits, PendingFits, Pending
  <2>11. MarkedFits(c)' /\ CommandFits(c)'
    BY <1>1, <2>0, <2>2, <2>3 DEF ChildFits, MarkedFits, CommandFits
  <2> QED BY <2>5, <2>6, <2>7, <2>8, <2>9, <2>10, <2>11 DEF ChildFits
<1> QED BY <1>3, <1>4

\* It writes what it read, whatever the row of the child has become.
LEMMA SchedulerWriteFits ==
  ASSUME DepTyped, NEW c \in Children, ChildFits(c), SchedulerWrite
  PROVE  ChildFits(c)'
<1> DEFINE d == tick.child
           v == tick.verdict
<1>0. /\ tick # NoTick /\ d \in Children /\ v \in {"done", "failed"}
      /\ task[d].state # "absent" /\ d \in Tasks /\ c \in Tasks
      /\ task \in [Tasks -> TaskRow] /\ attempt \in [Tasks -> [AttemptNo -> AttemptState]]
      /\ dep \in [Children -> DepStatus] /\ RowsSound
  BY DEF SchedulerWrite, DepTyped, TickSound, Children, RowsSound, StoreTypeOK, DepsSound
<1>1. /\ UNCHANGED <<hand, shown, command, request>> /\ tick' = NoTick
      /\ dep' = [dep EXCEPT ![d] = IF v = "done" THEN "satisfied" ELSE "failed"]
      /\ task' = [task EXCEPT ![d].state = v, ![d].terminal = TRUE]
      /\ WriteAttempt(d, task[d].run, v)
  BY DEF SchedulerWrite, daemonVars
<1> HIDE DEF d, v
<1>2. CASE c # d
  <2>1. SameRow(c) /\ dep'[c] = dep[c]
    BY <1>0, <1>1, <1>2 DEF SameRow, WriteAttempt
  <2> QED BY <1>1, <2>1, Loosened DEF HandsLeave, On, AskedLess, TickedLess, Ticked, CommandLess
<1>3. CASE c = d
  <2>0. /\ RowFits(c) /\ task[c].run = task[c].cur /\ task[c].cur \in AttemptNo
        /\ task[c].cur \in Nat /\ AttemptNo \subseteq Nat /\ Ticked(c)
    BY <1>0, <1>3, RowFields, AttemptsAreNumbers DEF ChildFits, RowFits, Numbered, Ticked, d
  <2>1. /\ task'[c].state = v /\ task'[c].terminal = TRUE /\ task'[c].owner = task[c].owner
        /\ task'[c].gen = task[c].gen /\ task'[c].cur = task[c].cur
        /\ task'[c].run = task[c].run /\ task'[c].lease = task[c].lease
    BY <1>0, <1>1, <1>3 DEF TaskRow
  <2>2. /\ attempt'[c][task[c].cur] = v
        /\ \A n \in AttemptNo : n # task[c].cur => attempt'[c][n] = attempt[c][n]
    BY <1>0, <1>1, <1>3, <2>0 DEF WriteAttempt
  <2>3. dep'[c] = IF v = "done" THEN "satisfied" ELSE "failed"
    BY <1>0, <1>1, <1>3
  <2>4. ~Unsettled(c)' /\ ~ReadDone(c)' /\ ~Ticked(c)'
    BY <1>1, <2>3 DEF Unsettled, ReadDone, Ticked
  <2>5. \A n \in Nat : n <= task[c].cur => Over(c, n)'
    BY <2>0, <2>1 DEF Over
  <2>6. RowFits(c)'
    <3>1. \A n \in AttemptNo : n > task[c].cur => n # task[c].cur
      BY <2>0
    <3> QED BY <1>0, <1>1, <2>0, <2>1, <2>2, <3>1 DEF RowFits, Ended, Verdict
  <2>7. ASSUME NEW w \in Workers, On(w, c)' PROVE HandFits(w, c)'
    <3>1. HandFits(w, c) /\ Att(w) <= task[c].cur /\ Att(w) \in Nat /\ Att(w)' = Att(w)
      BY <1>1, <2>7, HeldNumbers DEF On, Att
    <3>2. Over(c, Att(w))' /\ (Has(w, c)' => task'[c].cur = Att(w))
      BY <1>1, <2>1, <2>5, <3>1 DEF HandFits, Has
    <3> QED BY <1>1, <2>1, <2>4, <3>1, <3>2 DEF HandFits, Answered
  <2>8. ApartOn(c)'
    BY <1>1 DEF ChildFits, ApartOn, On, Att
  <2>9. FailedFits(c)' /\ TickFits(c)'
    BY <2>4 DEF FailedFits, TickFits
  <2>10. PendingFits(c)'
    BY <1>1, <2>0 DEF ChildFits, PendingFits, Pending
  <2>11. MarkedFits(c)'
    <3> SUFFICES ASSUME request' # NoRequest, request'.task = c PROVE MarkedFits(c)'
      BY DEF MarkedFits
    <3>1. request.att <= task[c].cur /\ request.att \in Nat
      BY <1>1, <2>0 DEF ChildFits, MarkedFits, DepTyped, RequestOK, Request
    <3>2. Over(c, request.att)'
      BY <1>1, <2>0, <2>1, <3>1 DEF Over
    <3> QED BY <1>1, <2>1, <2>4, <3>1, <3>2 DEF MarkedFits, Answered
  <2>12. CommandFits(c)'
    <3> SUFFICES ASSUME command'[c] # NoCommand PROVE CommandFits(c)'
      BY DEF CommandFits
    <3>1. command[c].att <= task[c].cur /\ command[c].att \in Nat
      BY <1>0, <1>1, <2>0 DEF ChildFits, CommandFits, DepTyped, CommandOK
    <3> QED BY <1>1, <2>0, <2>1, <3>1 DEF CommandFits, Over
  <2>13. ReasonFor(c)'
    BY <1>0, <2>0, <2>2, <2>3 DEF ReasonFor, EndedAs
  <2> QED BY <2>6, <2>7, <2>8, <2>9, <2>10, <2>11, <2>12, <2>13 DEF ChildFits
<1> QED BY <1>2, <1>3

ChildrenFit == \A c \in Children : ChildFits(c)

LEMMA ChildrenFitInit == DepInit => ChildrenFit
<1> SUFFICES ASSUME DepInit, NEW c \in Children PROVE ChildFits(c)
  BY DEF ChildrenFit
<1>1. /\ task[c] = AbsentRow /\ \A n \in AttemptNo : attempt[c][n] = "absent" /\ shown[c][n] = "none"
      /\ dep[c] = "none" /\ tick = NoTick /\ request = NoRequest /\ command[c] = NoCommand
      /\ \A w \in Workers : ~On(w, c)
  BY DEF DepInit, DaemonInit, StoreInit, On, Active, InFlight, Empty, Children
<1>2. /\ task[c].state = "absent" /\ task[c].run = task[c].cur /\ task[c].lease = "none"
      /\ task[c].terminal = FALSE /\ task[c].cur = 0
  BY <1>1 DEF AbsentRow
<1>3. RowFits(c)
  BY <1>1, <1>2 DEF RowFits, Unsettled, Ended, Verdict
<1> QED BY <1>1, <1>2, <1>3 DEF ChildFits, ApartOn, FailedFits, TickFits, ReadDone, Ticked,
       PendingFits, Pending, MarkedFits, CommandFits, ReasonFor

LEMMA ChildrenFitStep ==
  ASSUME ~MayStall, DepTyped, ChildrenFit, [DepNext]_depVars
  PROVE  ChildrenFit'
<1> SUFFICES ASSUME NEW c \in Children PROVE ChildFits(c)'
  BY DEF ChildrenFit
<1>0. ChildFits(c)
  BY DEF ChildrenFit
<1>1. CASE UNCHANGED depVars
  BY <1>0, <1>1, Loosened DEF depVars, vars, storeVars, daemonVars, SameRow, HandsLeave, On,
     AskedLess, TickedLess, CommandLess
<1>2. ASSUME NEW w \in Workers, DepClaimLoop(w), UNCHANGED tick PROVE ChildFits(c)'
  BY <1>0, <1>2, ClaimLoopFits
<1>3. ASSUME NEW w \in Workers, DepBackground(w) \/ Spawn(w) \/ Crash(w), UNCHANGED <<dep, tick>>
      PROVE  ChildFits(c)'
  BY <1>0, <1>3, BackgroundFits
<1>4. ASSUME tick = NoTick, DepServe, UNCHANGED tick PROVE ChildFits(c)'
  BY <1>0, <1>4, ServeFits
<1>5. ASSUME tick = NoTick, NEW t \in Tasks, NewTask(t) \/ Ask(t), UNCHANGED <<dep, tick>>
      PROVE  ChildFits(c)'
  BY <1>0, <1>5, NewTaskFits, RetryFits, ReadFits DEF Ask
<1>6. ASSUME NEW d \in Children, CreateDependency(d) \/ SchedulerRead(d) PROVE ChildFits(c)'
  BY <1>0, <1>6, CreateFits, SchedulerReadFits
<1>7. ASSUME SchedulerWrite PROVE ChildFits(c)'
  BY <1>0, <1>7, SchedulerWriteFits
<1> QED BY <1>1, <1>2, <1>3, <1>4, <1>5, <1>6, <1>7, DependencyAssumption DEF DepNext

\* Without stalls the invariant holds in every behaviour: each child's row, attempts,
\* dependency, hand, request and tick agree.
THEOREM DependencyInvariance == ~MayStall => (DepSpec => [](DepTyped /\ ChildrenFit))
<1> SUFFICES ASSUME ~MayStall PROVE DepSpec => [](DepTyped /\ ChildrenFit)
  OBVIOUS
<1>1. DepTyped /\ ChildrenFit /\ [DepNext]_depVars => DepTyped' /\ ChildrenFit'
  BY DepTypedStep, ChildrenFitStep
<1> QED BY <1>1, DepTypedInit, ChildrenFitInit, PTL DEF DepSpec

\* A dependency is settled for a reason (markDependencyFromChildTerminal, the
\* settlements of daemon and dashboard, the scheduler's unguarded write): some
\* attempt of the child ended that way.
THEOREM DependenciesSettledForAReason == ~MayStall => (DepSpec => []SettledForAReason)
<1> SUFFICES ASSUME ~MayStall PROVE DepSpec => []SettledForAReason
  OBVIOUS
<1>1. ChildrenFit => SettledForAReason
  BY DEF ChildrenFit, ChildFits, ReasonFor, EndedAs, SettledForAReason
<1> QED BY <1>1, DependencyInvariance, PTL

-----------------------------------------------------------------------------
(* The parent.                                                             *)

\* What a step may make of the parent's row: it is claimed only when no dependency
\* holds it back, and blocked only by a failed dependency or by its own end.
ParentMoves ==
  \/ /\ task'[Parent].state = task[Parent].state
     /\ task'[Parent].terminal = task[Parent].terminal
  \/ task'[Parent].state \notin {"claimed", "blocked"}
  \/ task'[Parent].state = "blocked" /\ task'[Parent].terminal
  \/ task'[Parent].state = "blocked" /\ \E c \in Children : dep'[c] = "failed"
  \/ task'[Parent].state = "claimed" /\ \A c \in Children : dep[c] \in Good

LEMMA ParentStays ==
  ASSUME UNCHANGED task \/ task'[Parent] = task[Parent]
  PROVE  ParentMoves
BY DEF ParentMoves

LEMMA ParentClosed ==
  ASSUME RowsSound, NEW t \in Tasks, NEW s \in Ended, Write(t, Closed(task[t], s))
  PROVE  ParentMoves
<1>1. task \in [Tasks -> TaskRow] /\ Parent \in Tasks /\ s \in TaskState
  BY DependencyAssumption DEF RowsSound, StoreTypeOK, Ended, TaskState
<1>2. CASE t = Parent
  <2> DEFINE q == Closed(task[t], s)
  <2>1. q.state = s /\ q.terminal = TRUE
    BY <1>1, ClosedRow
  <2>2. task'[Parent] = q
    BY <1>1, <1>2 DEF Write
  <2> HIDE DEF q
  <2> QED BY <2>1, <2>2 DEF ParentMoves, Ended
<1>3. CASE t # Parent
  BY <1>1, <1>3, ParentStays DEF Write
<1> QED BY <1>2, <1>3

LEMMA ParentSettled ==
  ASSUME RowsSound, DepsSound, NEW d \in Children, NEW v, SettleChild(d, v)
  PROVE  ParentMoves
<1> DEFINE p == task[Parent].state
           settled == IF dep[d] = "pending" THEN [dep EXCEPT ![d] = Outcome(v)] ELSE dep
           good == \A c \in Children : settled[c] \in Good
           s == IF dep[d] = "pending" /\ v = "failed" THEN "blocked"
                ELSE IF p = "waiting_dependencies" /\ dep[d] # "none" /\ good THEN "queued"
                ELSE p
<1>0. task[Parent] \in TaskRow /\ Parent \in Tasks /\ dep \in [Children -> DepStatus]
  BY DependencyAssumption, RowFields DEF DepsSound
<1>1. task' = [task EXCEPT ![Parent].state = s] /\ dep' = settled
  BY <1>0 DEF SettleChild, RowsSound, StoreTypeOK
<1>2. s = "blocked" /\ s # p => dep'[d] = "failed"
  BY <1>0, <1>1 DEF Outcome
<1>3. s \in {"queued", "blocked", p}
  <2> HIDE DEF good, p
  <2> QED OBVIOUS
<1> HIDE DEF s, settled, good
<1>4. task'[Parent].state = s /\ task'[Parent].terminal = task[Parent].terminal
  BY <1>0, <1>1 DEF TaskRow, RowsSound, StoreTypeOK
<1> QED BY <1>2, <1>3, <1>4 DEF ParentMoves

LEMMA ParentLoop ==
  ASSUME DepTyped, NEW w \in Workers, DepClaimLoop(w)
  PROVE  ParentMoves
<1>0. RowsSound /\ DepsSound /\ Parent \in Tasks
  BY DependencyAssumption DEF DepTyped
<1>1. ASSUME NEW t \in Tasks, Claimable(t), Take(w, t) PROVE ParentMoves
  <2>0. ClaimNext(w, t)
    BY <1>1 DEF Take
  <2>1. task'[t].state = "claimed"
    BY <1>0, <2>0, ClaimedRow
  <2>2. \A u \in Tasks \ {t} : task'[u] = task[u]
    BY <1>0, <2>0 DEF ClaimNext, Write, RowsSound, StoreTypeOK
  <2> QED BY <1>0, <1>1, <2>1, <2>2 DEF Claimable, ParentMoves
<1>2. ASSUME Start(w) PROVE ParentMoves
  <2>1. CASE UNCHANGED storeVars
    BY <2>1, ParentStays DEF storeVars
  <2>2. CASE MarkRunning(hand[w].claim)
    <3> DEFINE cl == hand[w].claim
    <3>1. cl \in Claim
      BY <1>2, HeldSound DEF Start, Active
    <3>2. cl.task \in Tasks
      BY <3>1 DEF Claim
    <3>3. task'[cl.task].state = "running"
      BY <1>0, <2>2, <3>1, RunningRow
    <3>4. \A u \in Tasks \ {cl.task} : task'[u] = task[u]
      BY <1>0, <2>2 DEF MarkRunning, Write, RowsSound, StoreTypeOK
    <3> HIDE DEF cl
    <3> QED BY <1>0, <3>2, <3>3, <3>4 DEF ParentMoves
  <2> QED BY <1>2, <2>1, <2>2 DEF Start
<1>3. ASSUME \/ Finish(w, "done") \/ Finish(w, "failed") \/ Unwind(w) \/ Decide(w)
      PROVE  ParentMoves
  BY <1>3, ParentStays DEF Finish, Unwind, Decide, storeVars
<1>4. ASSUME Terminalize(w) PROVE ParentMoves
  <2> DEFINE t == hand[w].claim.task
             v == hand[w].verdict
  <2>1. /\ hand[w].phase = "terminalizing"
        /\ MarkItem(hand[w].claim, v) \/ UNCHANGED storeVars
    BY <1>4 DEF Terminalize
  <2>2. CASE MarkItem(hand[w].claim, v)
    <3>1. v \in Verdict /\ Active(hand[w])
      BY <2>1 DEF DepTyped, HandsSound, HandSound, Active, InFlight
    <3>2. t \in Tasks /\ v \in Ended
      BY <3>1, HeldSound DEF Verdict, Ended
    <3>3. Write(t, Closed(task[t], v))
      BY <2>2 DEF MarkItem
    <3> HIDE DEF t, v
    <3> QED BY <1>0, <3>2, <3>3, ParentClosed
  <2>3. CASE UNCHANGED storeVars
    BY <2>3, ParentStays DEF storeVars
  <2> QED BY <2>1, <2>2, <2>3
<1>5. ASSUME TerminalizeUncertain(w) PROVE ParentMoves
  <2> DEFINE t == hand[w].claim.task
  <2>1. t \in Tasks
    BY <1>5, HeldSound DEF TerminalizeUncertain, Active, InFlight
  <2>2. Write(t, Closed(task[t], "blocked")) /\ "blocked" \in Ended
    BY <1>5 DEF TerminalizeUncertain, MarkBlockedUncertain, Ended
  <2> HIDE DEF t
  <2> QED BY <1>0, <2>1, <2>2, ParentClosed
<1>6. ASSUME SettleItem(w) PROVE ParentMoves
  <2>1. \/ hand[w].claim.task \in Children /\ SettleChild(hand[w].claim.task, hand[w].verdict)
        \/ UNCHANGED storeVars
    BY <1>6 DEF SettleItem, NothingToSettle
  <2> QED BY <1>0, <2>1, ParentSettled, ParentStays DEF storeVars
<1> QED BY <1>1, <1>2, <1>3, <1>4, <1>5, <1>6 DEF DepClaimLoop

LEMMA ParentBackground ==
  ASSUME DepTyped, NEW w \in Workers, DepBackground(w) \/ Spawn(w) \/ Crash(w)
  PROVE  ParentMoves
<1>0. RowsSound /\ Parent \in Tasks
  BY DependencyAssumption DEF DepTyped
<1>1. ASSUME NEW alive, RecoverOrphanedClaims(alive, TerminalRow) PROVE ParentMoves
  <2> DEFINE v == TerminalRow[Parent]
  <2>1. task[Parent] \in TaskRow
    BY <1>0, RowFields
  <2>2. CASE ~Orphaned(Parent, alive)
    BY <1>0, <1>1, <2>2, ParentStays DEF RecoverOrphanedClaims
  <2>3. CASE Orphaned(Parent, alive) /\ v = "none"
    <3>1. task'[Parent] = Requeued(task[Parent])
      BY <1>0, <1>1, <2>3 DEF RecoverOrphanedClaims
    <3> QED BY <2>1, <3>1, RequeuedRow DEF ParentMoves
  <2>4. CASE Orphaned(Parent, alive) /\ v # "none"
    <3>1. task'[Parent] = Closed(task[Parent], v)
      BY <1>0, <1>1, <2>4 DEF RecoverOrphanedClaims
    <3>2. v \in Verdict
      <4>1. task[Parent].cur = 0 \/ task[Parent].cur \in AttemptNo
        BY <1>0, RowFields, StoreAssumption DEF AttemptNo
      <4> QED BY <1>0, <2>4, <4>1 DEF TerminalRow, DepTyped, ShownOK
    <3>3. v \in TaskState /\ v \notin {"claimed", "blocked"}
      BY <3>2 DEF Verdict, TaskState
    <3> HIDE DEF v
    <3> DEFINE q == Closed(task[Parent], v)
    <3>4. q.state = v
      BY <2>1, <3>3, ClosedRow
    <3>5. task'[Parent] = q
      BY <3>1
    <3> HIDE DEF q
    <3> QED BY <3>3, <3>4, <3>5 DEF ParentMoves
  <2> QED BY <2>2, <2>3, <2>4
<1>2. ASSUME Heartbeat(w) PROVE ParentMoves
  <2> DEFINE t == hand[w].claim.task
  <2>1. t \in Tasks
    BY <1>2, HeldSound DEF Heartbeat, Active
  <2>2. RenewClaim(w, t) \/ UNCHANGED storeVars
    BY <1>2 DEF Heartbeat
  <2> HIDE DEF t
  <2>3. CASE RenewClaim(w, t)
    <3>1. /\ task'[t].state = task[t].state /\ task'[t].terminal = task[t].terminal
          /\ \A u \in Tasks \ {t} : task'[u] = task[u]
      BY <1>0, <2>1, <2>3, RenewedRow
    <3> QED BY <1>0, <3>1 DEF ParentMoves
  <2> QED BY <2>2, <2>3, ParentStays DEF storeVars
<1>3. ASSUME NEW t \in Tasks, ConsumeCancel(w, t) PROVE ParentMoves
  BY <1>3, ParentStays DEF ConsumeCancel, CloseCancelCommand
<1> QED BY <1>1, <1>2, <1>3, ParentStays DEF DepBackground, Recover, Spawn, Crash, storeVars

LEMMA ParentServed ==
  ASSUME DepTyped, DepServe
  PROVE  ParentMoves
<1>0. RowsSound /\ DepsSound /\ Parent \in Tasks
  BY DependencyAssumption DEF DepTyped
<1> DEFINE t == request.task
<1>a. CancelQueued \/ CancelRunning \/ SweepFail \/ SendCancel => t \in Tasks
  BY ServedSound DEF CancelQueued, CancelRunning, SweepFail, SendCancel
<1>b. ASSUME t \in Tasks, NEW n, NEW v \in {"failed", "cancelled"}, MarkTerminalUnfenced(t, n, v)
      PROVE  ParentMoves
  <2>1. v \in Ended
    BY DEF Ended
  <2> QED BY <1>0, <1>b, <2>1, ParentClosed DEF MarkTerminalUnfenced
<1>c. ASSUME UNCHANGED task PROVE ParentMoves
  BY <1>c, ParentStays
<1>1. ASSUME CancelQueued PROVE ParentMoves
  BY <1>1, <1>a, <1>b, <1>c DEF CancelQueued, storeVars
<1>2. ASSUME CancelRunning PROVE ParentMoves
  <2>1. CASE RequestCancelRunning(t)
    <3>1. /\ task'[t].state = "cancel_requested" /\ \A u \in Tasks \ {t} : task'[u] = task[u]
      BY <1>0, <1>2, <1>a, <2>1, CancelledRow
    <3> QED BY <1>0, <3>1 DEF ParentMoves
  <2>2. CASE RequestCancelIdle(t)
    BY <1>2, <1>a, <1>b, <2>2 DEF RequestCancelIdle
  <2> QED BY <1>2, <1>c, <2>1, <2>2 DEF CancelRunning, storeVars
<1>3. ASSUME SweepFail PROVE ParentMoves
  BY <1>3, <1>a, <1>b, <1>c DEF SweepFail, storeVars
<1>4. ASSUME SettleRequest PROVE ParentMoves
  <2>1. \/ \E v : t \in Children /\ SettleChild(t, v)
        \/ UNCHANGED storeVars
    BY <1>4 DEF SettleRequest, NothingToSettle
  <2> QED BY <1>0, <1>c, <2>1, ParentSettled DEF storeVars
<1> QED BY <1>1, <1>2, <1>3, <1>4, <1>c DEF DepServe, SendCancel, OpenCancelCommand, ProbeDaemons, storeVars

LEMMA ParentAsked ==
  ASSUME DepTyped, NEW t \in Tasks, NewTask(t) \/ Ask(t)
  PROVE  ParentMoves
<1>0. RowsSound /\ Parent \in Tasks
  BY DependencyAssumption DEF DepTyped
<1>1. CASE Enqueue(t) \/ Retry(t)
  <2>1. task'[t].state = "queued" /\ \A u \in Tasks \ {t} : task'[u] = task[u]
    BY <1>0, <1>1, EnqueuedRow, RetriedRow
  <2> QED BY <1>0, <2>1 DEF ParentMoves
<1>2. CASE UNCHANGED storeVars
  BY <1>2, ParentStays DEF storeVars
<1> QED
  BY <1>1, <1>2 DEF NewTask, Ask, RetryTask, AskCancelQueued, AskCancelRunning, AskSweep, Read

LEMMA ParentScheduled ==
  ASSUME DepTyped, NEW d \in Children, CreateDependency(d) \/ SchedulerRead(d) \/ SchedulerWrite
  PROVE  ParentMoves
<1>0. RowsSound /\ Parent \in Tasks /\ task[Parent] \in TaskRow /\ task \in [Tasks -> TaskRow]
  BY DependencyAssumption, RowFields DEF DepTyped, RowsSound, StoreTypeOK
<1>1. ASSUME CreateDependency(d) PROVE ParentMoves
  <2>1. CASE task[Parent].state = "queued"
    <3>1. task'[Parent].state = "waiting_dependencies"
      BY <1>0, <1>1, <2>1 DEF CreateDependency, Write, TaskRow
    <3> QED BY <3>1 DEF ParentMoves
  <2>2. CASE task[Parent].state # "queued"
    BY <1>1, <2>2, ParentStays DEF CreateDependency
  <2> QED BY <2>1, <2>2
<1>2. ASSUME SchedulerRead(d) PROVE ParentMoves
  BY <1>2, ParentStays DEF SchedulerRead, vars, storeVars
<1>3. ASSUME SchedulerWrite PROVE ParentMoves
  <2>1. tick.child # Parent /\ tick.child \in Tasks
    BY <1>3 DEF SchedulerWrite, DepTyped, TickSound, Children
  <2> QED BY <1>0, <1>3, <2>1, ParentStays DEF SchedulerWrite
<1> QED BY <1>1, <1>2, <1>3

LEMMA ParentStep ==
  ASSUME DepTyped, [DepNext]_depVars
  PROVE  ParentMoves
<1>1. CASE UNCHANGED depVars
  BY <1>1, ParentStays DEF depVars, vars, storeVars
<1>2. CASE \E d \in Children : CreateDependency(d) \/ SchedulerRead(d)
  BY <1>2, ParentScheduled
<1>3. CASE SchedulerWrite
  <2>1. tick.child \in Children
    BY <1>3 DEF SchedulerWrite, DepTyped, TickSound
  <2> QED BY <1>3, <2>1, ParentScheduled
<1> QED
  BY <1>1, <1>2, <1>3, ParentLoop, ParentBackground, ParentServed, ParentAsked,
     DependencyAssumption DEF DepNext

\* The parent is claimed only when every child it waits for is done or cancelled: the
\* claim query, the settlements and the scheduler agree, whoever releases it.
THEOREM DependencyParentWaits ==
  ~MayStall => (DepSpec => ParentWaitsForChildren)
<1> SUFFICES ASSUME ~MayStall PROVE DepSpec => ParentWaitsForChildren
  OBVIOUS
<1>1. ASSUME DepTyped, ChildrenFit, [DepNext]_depVars
      PROVE  [task[Parent].state = "queued" /\ task'[Parent].state = "claimed" =>
                \A c \in Children : dep[c] = "none"
                  \/ \E n \in AttemptNo : attempt[c][n] \in {"done", "cancelled"}]_depVars
  <2> SUFFICES ASSUME task[Parent].state = "queued", task'[Parent].state = "claimed",
                      NEW c \in Children, dep[c] # "none"
               PROVE  \E n \in AttemptNo : attempt[c][n] \in {"done", "cancelled"}
    OBVIOUS
  <2>1. dep[c] \in {"satisfied", "cancelled"}
    BY <1>1, ParentStep DEF ParentMoves, Good
  <2> QED BY <1>1, <2>1 DEF ChildrenFit, ChildFits, ReasonFor, EndedAs
<1>2. DepTyped /\ ChildrenFit /\ [DepNext]_depVars => DepTyped' /\ ChildrenFit'
  BY DepTypedStep, ChildrenFitStep
<1> QED BY <1>1, <1>2, DepTypedInit, ChildrenFitInit, PTL DEF DepSpec, ParentWaitsForChildren

\* A failed dependency stays failed: the scheduler, which writes without a guard, has
\* read no `done` of a child that somebody settled as failed.
LEMMA FailureStands ==
  ASSUME DepTyped, ChildrenFit, [DepNext]_depVars, NEW c \in Children, dep[c] = "failed"
  PROVE  dep'[c] = "failed"
<1>0. RowsSound /\ DepsSound
  BY DEF DepTyped
<1>1. ASSUME UNCHANGED dep PROVE dep'[c] = "failed"
  BY <1>1
<1>2. ASSUME NEW d \in Children, NEW v, SettleChild(d, v) PROVE dep'[c] = "failed"
  BY <1>0, <1>2, SettleLeaves
<1>3. ASSUME NEW w \in Workers, DepClaimLoop(w) PROVE dep'[c] = "failed"
  BY <1>1, <1>2, <1>3 DEF DepClaimLoop, SettleItem, NothingToSettle
<1>4. ASSUME DepServe PROVE dep'[c] = "failed"
  BY <1>1, <1>2, <1>4 DEF DepServe, SettleRequest, NothingToSettle
<1>5. ASSUME NEW d \in Children, CreateDependency(d) PROVE dep'[c] = "failed"
  BY <1>0, <1>5 DEF CreateDependency, DepsSound
<1>6. ASSUME SchedulerWrite PROVE dep'[c] = "failed"
  <2>1. /\ tick # NoTick /\ tick.child \in Children /\ tick.verdict \in {"done", "failed"}
        /\ dep' = [dep EXCEPT ![tick.child] = IF tick.verdict = "done" THEN "satisfied" ELSE "failed"]
    BY <1>6 DEF SchedulerWrite, DepTyped, TickSound
  <2>2. tick.child = c => tick.verdict = "failed"
    BY <2>1 DEF ChildrenFit, ChildFits, TickFits, ReadDone, Ticked
  <2> QED BY <1>0, <2>1, <2>2 DEF DepsSound
<1> QED BY <1>1, <1>3, <1>4, <1>5, <1>6 DEF DepNext, depVars, SchedulerRead

\* A blocked parent is explained by a failed dependency, whoever settled it and whatever
\* came after, or by its own uncertain end.
THEOREM DependencyBlockedOnFailure == ~MayStall => (DepSpec => []BlockedOnFailure)
<1> SUFFICES ASSUME ~MayStall PROVE DepSpec => []BlockedOnFailure
  OBVIOUS
<1>1. DepInit => BlockedOnFailure
  BY DependencyAssumption DEF DepInit, DaemonInit, StoreInit, AbsentRow, BlockedOnFailure
<1>2. ASSUME DepTyped, ChildrenFit, BlockedOnFailure, [DepNext]_depVars
      PROVE  DepTyped' /\ ChildrenFit' /\ BlockedOnFailure'
  <2>1. ParentMoves
    BY <1>2, ParentStep
  <2>2. \A c \in Children : dep[c] = "failed" => dep'[c] = "failed"
    BY <1>2, FailureStands
  <2>3. BlockedOnFailure'
    BY <1>2, <2>1, <2>2 DEF ParentMoves, BlockedOnFailure
  <2> QED BY <1>2, <2>3, DepTypedStep, ChildrenFitStep
<1> QED BY <1>1, <1>2, DepTypedInit, ChildrenFitInit, PTL DEF DepSpec

=============================================================================
