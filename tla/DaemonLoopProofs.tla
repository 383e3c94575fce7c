-------------------------- MODULE DaemonLoopProofs --------------------------
(***************************************************************************)
(* Theorems about DaemonLoop for any items, commands and overlapping       *)
(* ticks.                                                                  *)
(*                                                                         *)
(* The safety properties are inductive together with the types and one     *)
(* more fact: the only command a poll waits for is a refresh, so the       *)
(* answer it writes at last, however late, is never a cancel's.            *)
(***************************************************************************)
EXTENDS DaemonLoop, TLAPS

\* What a poll waits for is the browser.
WaitsForBrowserOnly ==
  \A p \in Pollers : poll[p].on # None => Kind[poll[p].on] = "refresh_browser"

LoopInv ==
  /\ LoopTypeOK
  /\ ArmedParkMissesNothing
  /\ CancelsHitTheirTarget
  /\ WaitsForBrowserOnly

\* The claim loop is the first of the pollers, and a poll of nothing is one.
LEMMA PollerFacts ==
  /\ "loop" \in Pollers
  /\ Free \in [rest : SUBSET Commands, on : Commands \cup {None}]
  /\ Listed \subseteq Commands
BY DEF Pollers, Free, Listed

\* What a poll has listed and waits for stays within the commands.
LEMMA PollTyped ==
  ASSUME LoopInv, NEW p \in Pollers
  PROVE  /\ poll \in [Pollers -> [rest : SUBSET Commands, on : Commands \cup {None}]]
         /\ poll[p].rest \subseteq Commands
         /\ poll[p].on \in Commands \cup {None}
BY DEF LoopInv, LoopTypeOK

-----------------------------------------------------------------------------
\* No answer to a cancel has been written, and no run aborted.
LEMMA AnswersStay ==
  ASSUME CancelsHitTheirTarget, UNCHANGED <<aborted, cmd>>, killed => killed'
  PROVE  CancelsHitTheirTarget'
BY DEF CancelsHitTheirTarget

LEMMA InitKeeps == Init => LoopInv
<1> SUFFICES ASSUME Init PROVE LoopInv
  OBVIOUS
<1>1. LoopTypeOK
  <2>1. poll \in [Pollers -> [rest : SUBSET Commands, on : Commands \cup {None}]]
    BY PollerFacts DEF Init
  <2>2. timers \in 0 .. MaxTimers
    BY LoopAssumption DEF Init
  <2> QED BY <2>1, <2>2 DEF Init, LoopTypeOK
<1>2. ArmedParkMissesNothing /\ CancelsHitTheirTarget
  BY DEF Init, ArmedParkMissesNothing, CancelsHitTheirTarget
<1>3. WaitsForBrowserOnly
  BY DEF Init, WaitsForBrowserOnly, Free
<1> QED BY <1>1, <1>2, <1>3 DEF LoopInv

\* A step of the loop: it parks only with nothing latched and no stop, and
\* leaves commands and aborts alone.
LEMMA LoopStepKeeps ==
  ASSUME LoopInv, LoopStep
  PROVE  LoopInv'
<1> USE PollerFacts
<1>1. UNCHANGED <<aborted, stopping, killed, cmd>>
  BY DEF LoopStep, Top, Woken, PollOrEnd, Repolled, Claim, ClaimThrows, Retry, NoClaim,
     ParkSkipped, Park, LoopUnchanged, downs
<1>2. CancelsHitTheirTarget'
  BY <1>1, AnswersStay DEF LoopInv
<1>3. CASE Top \/ Woken
  <2>1. armed' = armed /\ latch' = latch /\ timers' = timers /\ item' = item /\ active' = active
    BY <1>3 DEF Top, Woken, PollOrEnd, Parks
  <2>2. poll' = poll \/ poll' = [poll EXCEPT !["loop"].rest = Listed]
    BY <1>3 DEF Top, Woken, PollOrEnd
  <2>3. /\ poll' \in [Pollers -> [rest : SUBSET Commands, on : Commands \cup {None}]]
        /\ \A p \in Pollers : poll'[p].on = poll[p].on
    BY <2>2 DEF LoopInv, LoopTypeOK
  <2>4. loop' \in {"polling", "repolling", "ended"} /\ loop \in {"top", "woken"}
    BY <1>3 DEF Top, Woken, PollOrEnd
  <2>5. LoopTypeOK'
    BY <1>1, <2>1, <2>3, <2>4 DEF LoopInv, LoopTypeOK
  <2>6. ArmedParkMissesNothing' /\ WaitsForBrowserOnly'
    BY <1>1, <2>1, <2>3 DEF LoopInv, ArmedParkMissesNothing, WaitsForBrowserOnly
  <2> QED BY <1>2, <2>5, <2>6 DEF LoopInv
<1>4. CASE Repolled \/ ClaimThrows \/ Retry \/ NoClaim
  <2>1. LoopTypeOK'
    BY <1>1, <1>4 DEF LoopInv, LoopTypeOK, Repolled, ClaimThrows, Retry, NoClaim, Parks
  <2>2. ArmedParkMissesNothing' /\ WaitsForBrowserOnly'
    BY <1>1, <1>4 DEF LoopInv, ArmedParkMissesNothing, WaitsForBrowserOnly, Repolled,
       ClaimThrows, Retry, NoClaim, Parks
  <2> QED BY <1>2, <2>1, <2>2 DEF LoopInv
<1>5. CASE \E i \in Items : Claim(i)
  <2>1. PICK i \in Items : Claim(i)
    BY <1>5
  <2>2. LoopTypeOK'
    BY <1>1, <2>1, LoopAssumption DEF LoopInv, LoopTypeOK, Claim, Parks
  <2>3. ArmedParkMissesNothing' /\ WaitsForBrowserOnly'
    BY <1>1, <2>1 DEF LoopInv, ArmedParkMissesNothing, WaitsForBrowserOnly, Claim, Parks
  <2> QED BY <1>2, <2>2, <2>3 DEF LoopInv
<1>6. CASE ParkSkipped \/ Park
  <2>1. timers' \in 0 .. MaxTimers
    BY <1>6, LoopAssumption DEF ParkSkipped, Park, LoopInv, LoopTypeOK
  <2>2. /\ loop = "parking" /\ UNCHANGED <<item, active, poll>>
        /\ \/ loop' = "parked" /\ armed'
           \/ loop' = "woken" /\ armed' = armed
        /\ latch' \in BOOLEAN /\ armed' \in BOOLEAN
    BY <1>6 DEF LoopInv, LoopTypeOK, ParkSkipped, Park
  <2>3. LoopTypeOK'
    BY <1>1, <2>1, <2>2 DEF LoopInv, LoopTypeOK
  <2>4. ArmedParkMissesNothing' /\ WaitsForBrowserOnly'
    BY <1>1, <1>6 DEF LoopInv, LoopTypeOK, ArmedParkMissesNothing, WaitsForBrowserOnly,
       ParkSkipped, Park
  <2> QED BY <1>2, <2>3, <2>4 DEF LoopInv
<1> QED BY <1>3, <1>4, <1>5, <1>6 DEF LoopStep

\* The handler ends: the loop was waiting for it.
LEMMA RunEndsKeeps ==
  ASSUME LoopInv, RunEnds
  PROVE  LoopInv'
<1>1. LoopTypeOK'
  BY DEF RunEnds, LoopInv, LoopTypeOK, Parks, LoopUnchanged, downs
<1>2. CancelsHitTheirTarget'
  BY AnswersStay DEF RunEnds, LoopInv, LoopUnchanged, downs
<1>3. ArmedParkMissesNothing' /\ WaitsForBrowserOnly'
  BY DEF RunEnds, LoopInv, ArmedParkMissesNothing, WaitsForBrowserOnly, Parks, LoopUnchanged, downs
<1> QED BY <1>1, <1>2, <1>3 DEF LoopInv

-----------------------------------------------------------------------------
\* A command that p has listed is handled: a cancel aborts the run it names or
\* none, a drain or a stop disarms the park, a refresh leaves all that alone.
LEMMA HandleNextKeeps ==
  ASSUME LoopInv, NEW p \in Pollers, HandleNext(p)
  PROVE  LoopInv'
<1>1. PICK c \in poll[p].rest :
        /\ Cancel(c) \/ DrainOrStop(c) \/ Refresh(c)
        /\ poll' = [poll EXCEPT ![p] =
             [rest |-> @.rest \ {c}, on |-> IF Kind[c] = "refresh_browser" THEN c ELSE None]]
  BY DEF HandleNext
<1>2. c \in Commands
  BY <1>1, PollTyped
<1>3. UNCHANGED <<item, active, latch, timers>>
  BY DEF HandleNext
<1>4. /\ poll' \in [Pollers -> [rest : SUBSET Commands, on : Commands \cup {None}]]
      /\ poll'[p].on # None => Kind[poll'[p].on] = "refresh_browser"
      /\ \A q \in Pollers \ {p} : poll'[q] = poll[q]
  BY <1>1, <1>2, PollTyped
<1>5. WaitsForBrowserOnly'
  BY <1>4 DEF LoopInv, WaitsForBrowserOnly
<1>6. CASE Cancel(c)
  <2>1. LoopTypeOK'
    BY <1>2, <1>3, <1>4, <1>6 DEF Cancel, InFlight, LoopInv, LoopTypeOK, downs
  <2>2. ArmedParkMissesNothing'
    BY <1>3, <1>6 DEF Cancel, LoopInv, ArmedParkMissesNothing, downs
  <2>3. aborted \subseteq aborted' /\ killed' = killed
    BY <1>6 DEF Cancel, downs
  <2>4. /\ \A d \in Commands \ {c} : cmd'[d] = cmd[d]
        /\ cmd'[c] \in {"completed", "failed"}
        /\ cmd'[c] = "completed" => Target[c] \in aborted'
        /\ \A i \in aborted' \ aborted : Kind[c] = "cancel_task" /\ Target[c] = i
    BY <1>2, <1>6 DEF Cancel, InFlight, LoopInv, LoopTypeOK
  <2>5. CancelsHitTheirTarget'
    BY <1>2, <2>3, <2>4 DEF LoopInv, CancelsHitTheirTarget
  <2> QED BY <1>5, <2>1, <2>2, <2>5 DEF LoopInv
<1>7. CASE DrainOrStop(c)
  <2>1. LoopTypeOK'
    BY <1>2, <1>3, <1>4, <1>7 DEF DrainOrStop, Unpark, LoopInv, LoopTypeOK
  <2>2. ArmedParkMissesNothing'
    BY <1>7 DEF DrainOrStop, Unpark, ArmedParkMissesNothing
  <2>3. /\ \A d \in Commands : Kind[d] = "cancel_task" => cmd'[d] = cmd[d]
        /\ aborted' = aborted /\ (killed => killed')
    BY <1>2, <1>7 DEF DrainOrStop, LoopInv, LoopTypeOK
  <2>4. CancelsHitTheirTarget'
    BY <2>3 DEF LoopInv, CancelsHitTheirTarget
  <2> QED BY <1>5, <2>1, <2>2, <2>4 DEF LoopInv
<1>8. CASE Refresh(c)
  <2>1. LoopTypeOK'
    BY <1>2, <1>3, <1>4, <1>8 DEF Refresh, LoopInv, LoopTypeOK, downs
  <2>2. ArmedParkMissesNothing'
    BY <1>3, <1>8 DEF Refresh, LoopInv, ArmedParkMissesNothing, downs
  <2>3. /\ \A d \in Commands : Kind[d] = "cancel_task" => cmd'[d] = cmd[d]
        /\ aborted' = aborted /\ killed' = killed
    BY <1>2, <1>8 DEF Refresh, LoopInv, LoopTypeOK, downs
  <2>4. CancelsHitTheirTarget'
    BY <2>3 DEF LoopInv, CancelsHitTheirTarget
  <2> QED BY <1>5, <2>1, <2>2, <2>4 DEF LoopInv
<1> QED BY <1>1, <1>6, <1>7, <1>8

\* The browser answers: the row is a refresh, never a cancel.
LEMMA RefreshedKeeps ==
  ASSUME LoopInv, NEW p \in Pollers, Refreshed(p)
  PROVE  LoopInv'
<1>1. PICK answer \in {"completed", "failed"} : cmd' = [cmd EXCEPT ![poll[p].on] = answer]
  BY DEF Refreshed
<1>2. poll[p].on \in Commands /\ Kind[poll[p].on] = "refresh_browser"
  BY PollTyped DEF Refreshed, LoopInv, WaitsForBrowserOnly
<1>3. UNCHANGED <<item, active, aborted, loop, stopping, killed, latch, armed, timers>>
  BY DEF Refreshed, runs, downs
<1>4. /\ poll' \in [Pollers -> [rest : SUBSET Commands, on : Commands \cup {None}]]
      /\ poll'[p].on = None
      /\ \A q \in Pollers \ {p} : poll'[q] = poll[q]
  BY PollTyped DEF Refreshed
<1>5. LoopTypeOK'
  BY <1>1, <1>2, <1>3, <1>4 DEF LoopInv, LoopTypeOK
<1>6. \A d \in Commands : Kind[d] = "cancel_task" => cmd'[d] = cmd[d]
  BY <1>1, <1>2 DEF LoopInv, LoopTypeOK
<1>7. CancelsHitTheirTarget'
  BY <1>3, <1>6 DEF LoopInv, CancelsHitTheirTarget
<1>8. ArmedParkMissesNothing' /\ WaitsForBrowserOnly'
  BY <1>3, <1>4 DEF LoopInv, ArmedParkMissesNothing, WaitsForBrowserOnly
<1> QED BY <1>5, <1>7, <1>8 DEF LoopInv

\* A tick's poll lists rows and does nothing yet.
LEMMA TickKeeps ==
  ASSUME LoopInv, NEW k \in Ticks, Tick(k)
  PROVE  LoopInv'
<1>1. k \in Pollers
  BY DEF Pollers
<1>2. UNCHANGED <<item, active, aborted, loop, stopping, killed, latch, armed, timers, cmd>>
  BY DEF Tick, runs, downs
<1>3. /\ poll' \in [Pollers -> [rest : SUBSET Commands, on : Commands \cup {None}]]
      /\ \A q \in Pollers : poll'[q].on = poll[q].on
  BY <1>1, PollTyped, PollerFacts DEF Tick
<1>4. LoopTypeOK' /\ ArmedParkMissesNothing' /\ WaitsForBrowserOnly'
  BY <1>2, <1>3 DEF LoopInv, LoopTypeOK, ArmedParkMissesNothing, WaitsForBrowserOnly
<1>5. CancelsHitTheirTarget'
  BY <1>2, AnswersStay DEF LoopInv
<1> QED BY <1>4, <1>5 DEF LoopInv

-----------------------------------------------------------------------------
\* A park timer rings: no waiter is armed after it.
LEMMA TimerRingsKeeps ==
  ASSUME LoopInv, TimerRings
  PROVE  LoopInv'
<1>1. timers' \in 0 .. MaxTimers
  BY LoopAssumption DEF TimerRings, LoopInv, LoopTypeOK
<1>2. LoopTypeOK' /\ ArmedParkMissesNothing' /\ WaitsForBrowserOnly'
  BY <1>1 DEF TimerRings, LoopInv, LoopTypeOK, ArmedParkMissesNothing, WaitsForBrowserOnly,
     runs, downs
<1>3. CancelsHitTheirTarget'
  BY AnswersStay DEF TimerRings, LoopInv, runs, downs
<1> QED BY <1>2, <1>3 DEF LoopInv

\* A wake or a stop over HTTP takes the waiters it finds.
LEMMA WakeOrStopKeeps ==
  ASSUME LoopInv, Wake \/ HttpStop
  PROVE  LoopInv'
<1>1. /\ UNCHANGED <<item, active, aborted, timers, cmd, poll>>
      /\ armed' = FALSE /\ latch' \in BOOLEAN
      /\ loop' = IF armed THEN "woken" ELSE loop
      /\ \/ UNCHANGED <<stopping, killed>>
         \/ stopping' = TRUE /\ killed' = TRUE
  BY DEF Wake, HttpStop, ResolveWake, Unpark, EnvUnchanged, LoopInv, LoopTypeOK, downs
<1>2. LoopTypeOK'
  <2>1. stopping' \in BOOLEAN /\ killed' \in BOOLEAN /\ (killed' => stopping')
    <3>1. CASE UNCHANGED <<stopping, killed>>
      BY <3>1 DEF LoopInv, LoopTypeOK
    <3>2. CASE stopping' = TRUE /\ killed' = TRUE
      BY <3>2
    <3> QED BY <1>1, <3>1, <3>2
  <2>2. \/ loop' = loop
        \/ loop = "parked" /\ loop' = "woken"
    BY <1>1 DEF LoopInv, LoopTypeOK
  <2>3. {stopping', killed', latch', armed'} \subseteq BOOLEAN
    BY <1>1, <2>1
  <2> QED BY <1>1, <2>1, <2>2, <2>3 DEF LoopInv, LoopTypeOK
<1>3. ArmedParkMissesNothing' /\ WaitsForBrowserOnly'
  BY <1>1 DEF LoopInv, ArmedParkMissesNothing, WaitsForBrowserOnly
<1>4. CancelsHitTheirTarget'
  BY <1>1, AnswersStay DEF LoopInv
<1> QED BY <1>2, <1>3, <1>4 DEF LoopInv

\* A browser dies: the run in flight is aborted without a cancel, and killed
\* says why.
LEMMA DisconnectKeeps ==
  ASSUME LoopInv, Disconnect
  PROVE  LoopInv'
<1>1. LoopTypeOK' /\ ArmedParkMissesNothing' /\ WaitsForBrowserOnly'
  BY DEF Disconnect, Unpark, EnvUnchanged, LoopInv, LoopTypeOK, ArmedParkMissesNothing,
     WaitsForBrowserOnly
<1>2. CancelsHitTheirTarget'
  BY DEF Disconnect, LoopInv, CancelsHitTheirTarget
<1> QED BY <1>1, <1>2 DEF LoopInv

LEMMA EnqueueKeeps ==
  ASSUME LoopInv, NEW i \in Items, Enqueue(i)
  PROVE  LoopInv'
<1>1. LoopTypeOK' /\ ArmedParkMissesNothing' /\ WaitsForBrowserOnly'
  BY DEF Enqueue, EnvUnchanged, LoopInv, LoopTypeOK, ArmedParkMissesNothing,
     WaitsForBrowserOnly, downs
<1>2. CancelsHitTheirTarget'
  BY AnswersStay DEF Enqueue, LoopInv, downs
<1> QED BY <1>1, <1>2 DEF LoopInv

LEMMA SendKeeps ==
  ASSUME LoopInv, NEW c \in Commands, Send(c)
  PROVE  LoopInv'
<1>1. LoopTypeOK' /\ ArmedParkMissesNothing' /\ WaitsForBrowserOnly'
  BY DEF Send, EnvUnchanged, LoopInv, LoopTypeOK, ArmedParkMissesNothing,
     WaitsForBrowserOnly, downs
<1>2. /\ \A d \in Commands \ {c} : cmd'[d] = cmd[d]
      /\ cmd[c] = "unsent" /\ cmd'[c] = "queued"
      /\ aborted' = aborted /\ killed' = killed
  BY DEF Send, LoopInv, LoopTypeOK, downs
<1>3. CancelsHitTheirTarget'
  BY <1>2 DEF LoopInv, CancelsHitTheirTarget
<1> QED BY <1>1, <1>3 DEF LoopInv

LEMMA StutterKeeps == LoopInv /\ UNCHANGED vars => LoopInv'
BY DEF LoopInv, vars, LoopTypeOK, ArmedParkMissesNothing, CancelsHitTheirTarget,
   WaitsForBrowserOnly

LEMMA StepKeeps == LoopInv /\ [Next]_vars => LoopInv'
<1> SUFFICES ASSUME LoopInv, Next PROVE LoopInv'
  BY StutterKeeps
<1>1. CASE LoopStep
  BY <1>1, LoopStepKeeps
<1>2. CASE RunEnds
  BY <1>2, RunEndsKeeps
<1>3. CASE Beside
  BY <1>3, TimerRingsKeeps, WakeOrStopKeeps, DisconnectKeeps, EnqueueKeeps, SendKeeps,
     HandleNextKeeps, RefreshedKeeps, TickKeeps DEF Beside, Serve
<1> QED BY <1>1, <1>2, <1>3 DEF Next

LEMMA LoopInvariant == LoopSpec => []LoopInv
BY InitKeeps, StepKeeps, PTL DEF LoopSpec

-----------------------------------------------------------------------------
\* The types, and where the loop is while a run is in flight or waiters are
\* armed (daemon.ts 553-1115).
THEOREM LoopTypeCorrect == LoopSpec => []LoopTypeOK
<1>1. LoopInv => LoopTypeOK
  BY DEF LoopInv
<1> QED BY <1>1, LoopInvariant, PTL

\* No wake and no stop is slept over while the park has its waiters (the check
\* before the park and resolveWake's latch, daemon.ts 274-330), whatever the
\* number of ticks, commands and park timers that race with it.
THEOREM ParkMissesNothing == LoopSpec => []ArmedParkMissesNothing
<1>1. LoopInv => ArmedParkMissesNothing
  BY DEF LoopInv
<1> QED BY <1>1, LoopInvariant, PTL

\* A cancel reaches the run it names or none, for any number of polls that hold
\* the same command at once (worker-commands.ts).
THEOREM CancelsAreExact == LoopSpec => []CancelsHitTheirTarget
<1>1. LoopInv => CancelsHitTheirTarget
  BY DEF LoopInv
<1> QED BY <1>1, LoopInvariant, PTL

\* A daemon that was told to stop claims nothing more.
THEOREM StopEndsClaiming == LoopSpec => NoClaimAfterStop
<1>1. LoopInv /\ [Next]_vars => [stopping /\ active = None => active' = None]_vars
  <2> SUFFICES ASSUME Next, stopping, active = None PROVE active' = None
    BY DEF vars
  <2>1. CASE LoopStep
    BY <2>1 DEF LoopStep, Top, Woken, PollOrEnd, Repolled, Claim, ClaimThrows, Retry, NoClaim,
       ParkSkipped, Park
  <2>2. CASE RunEnds
    BY <2>2 DEF RunEnds
  <2>3. CASE Beside
    BY <2>3 DEF Beside, TimerRings, Wake, HttpStop, Disconnect, Enqueue, Send, Serve,
       HandleNext, Refreshed, Tick, EnvUnchanged, runs
  <2> QED BY <2>1, <2>2, <2>3 DEF Next
<1> QED BY <1>1, LoopInvariant, PTL DEF LoopSpec, NoClaimAfterStop
=============================================================================
