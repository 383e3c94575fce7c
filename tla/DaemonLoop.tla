----------------------------- MODULE DaemonLoop -----------------------------
(***************************************************************************)
(* One daemon's event loop: src/src/core/daemon/daemon.ts 553-1115, with   *)
(* its timers, its command poll (worker-commands.ts) and its HTTP server   *)
(* (http.ts).                                                              *)
(*                                                                         *)
(* The process is single threaded, so what runs between two awaits is one  *)
(* step, and every await is a point where the 5 s tick, an HTTP request, a *)
(* park timer or a browser's disconnect may come in.  The loop polls its   *)
(* commands, claims, works, and parks when the queue is empty; it leaves   *)
(* the park on /wake, on a stop, or when the park's own timer rings.       *)
(* A park's timer is never cleared: it rings although the park is over,    *)
(* and takes the waiters of whichever park it finds.                       *)
(*                                                                         *)
(* Claims, terminal writes and the clean-up that follows the loop are in   *)
(* Daemon and Teardown: here an item is queued, in flight, and gone.  The  *)
(* keepalive that a long idle time adds after a park is Daemon's Recover.  *)
(***************************************************************************)
EXTENDS Naturals

CONSTANTS
  Items,      \* the items enqueued for this daemon's workflow
  Ticks,      \* the tick polls that may overlap one another
  Commands,   \* the worker commands sent to it, one row each
  Kind,       \* Kind[c]: command_type
  Target,     \* Target[c]: target_task_id of a cancel_task
  None,       \* no item, no command
  MaxTimers   \* bound on the park timers that are running at once

ASSUME LoopAssumption ==
  /\ None \notin Items \cup Commands
  /\ "loop" \notin Ticks
  /\ Kind \in [Commands -> {"cancel_task", "drain_worker", "stop_worker", "refresh_browser"}]
  /\ Target \in [Commands -> Items \cup {None}]
  /\ MaxTimers \in Nat \ {0}

VARIABLES
  item,      \* item[i]: "new", "queued" or "taken"
  loop,      \* where the claim loop is
  active,    \* state.activeRun
  aborted,   \* the items whose run's controller is aborted
  stopping,  \* state.shuttingDown
  killed,    \* the browsers are dead: abortLaunchAndKillSession, or by themselves
  latch,     \* state.wakePending
  armed,     \* wakeResolve and shutdownResolve of the park are set
  timers,    \* how many park timers have not rung, the current park's included
  cmd,       \* cmd[c]: state of the row, "unsent" before it is inserted
  poll       \* poll[p]: the commands p listed and has still to handle, and the
             \* one it waits for

vars == <<item, loop, active, aborted, stopping, killed, latch, armed, timers,
          cmd, poll>>
runs == <<item, active, aborted>>
downs == <<stopping, killed>>

Pollers == {"loop"} \cup Ticks
Free == [rest |-> {}, on |-> None]
Up == loop # "ended"

Init ==
  /\ item = [i \in Items |-> "new"]
  /\ loop = "top"
  /\ active = None
  /\ aborted = {}
  /\ stopping = FALSE /\ killed = FALSE
  /\ latch = FALSE /\ armed = FALSE
  /\ timers = 0
  /\ cmd = [c \in Commands |-> "unsent"]
  /\ poll = [p \in Pollers |-> Free]

----------------------------------------------------------------------------
\* The waiters.  Both resolve the same promise, so an armed park ends with
\* whichever comes first; a call that finds no waiter does nothing.

Unpark ==
  /\ armed' = FALSE
  /\ loop' = IF armed THEN "woken" ELSE loop

\* resolveWake, of /wake and /stop: latched when no waiter is armed.
ResolveWake == Unpark /\ latch' = (latch \/ ~armed)

\* The end of a park, whoever's: its timer drops the waiters it finds.  They
\* are its own only if no older timer is still to ring.
TimerRings ==
  /\ timers > 0
  /\ timers' = timers - 1
  /\ armed' = FALSE
  /\ loop' = IF loop = "parked" /\ timers = 1 THEN "woken" ELSE loop
  /\ UNCHANGED <<runs, downs, latch, cmd, poll>>

----------------------------------------------------------------------------
\* The commands.

\* The rows of one poll.  It handles them by requested_at, here in any order.
Listed == { c \in Commands : cmd[c] = "queued" }

\* A plausible bug: any cancel aborts whatever is in flight.
InFlightAny(c) == active # None
\* A cancel is for the item in flight or for nobody.
InFlight(c) == active # None /\ Target[c] = active

\* handleWorkerCommand, up to its first await: what it does to the run, the
\* browsers, the park, and the row.
Cancel(c) ==
  /\ Kind[c] = "cancel_task"
  /\ aborted' = IF InFlight(c) THEN aborted \cup {active} ELSE aborted
  /\ cmd' = [cmd EXCEPT ![c] = IF InFlight(c) THEN "completed" ELSE "failed"]
  /\ UNCHANGED <<downs, loop, armed>>
\* Only a stop kills the browsers; a drain lets the run in flight end.
DrainOrStop(c) ==
  /\ Kind[c] \in {"drain_worker", "stop_worker"}
  /\ stopping' = TRUE
  /\ killed' = (killed \/ Kind[c] = "stop_worker")
  /\ cmd' = [cmd EXCEPT ![c] = "completed"]
  /\ Unpark
  /\ UNCHANGED aborted
\* acknowledgeCommand leaves a row alone that another poll has answered.
Refresh(c) ==
  /\ Kind[c] = "refresh_browser"
  /\ cmd' = [cmd EXCEPT ![c] = IF @ = "queued" THEN "acknowledged" ELSE @]
  /\ UNCHANGED <<downs, aborted, loop, armed>>

\* The next command of p's list; `await handleCommand` gives way after it, and
\* within it for as long as the browser needs.
HandleNext(p) ==
  /\ poll[p].on = None
  /\ \E c \in poll[p].rest :
       /\ Cancel(c) \/ DrainOrStop(c) \/ Refresh(c)
       /\ poll' = [poll EXCEPT ![p] =
            [rest |-> @.rest \ {c}, on |-> IF Kind[c] = "refresh_browser" THEN c ELSE None]]
  /\ UNCHANGED <<item, active, latch, timers>>
Refreshed(p) ==
  /\ poll[p].on # None
  /\ \E answer \in {"completed", "failed"} : cmd' = [cmd EXCEPT ![poll[p].on] = answer]
  /\ poll' = [poll EXCEPT ![p].on = None]
  /\ UNCHANGED <<runs, loop, downs, latch, armed, timers>>
Serve(p) == HandleNext(p) \/ Refreshed(p)

\* A plausible bug: the interval only sends the heartbeat.
TickIdle(k) == FALSE /\ UNCHANGED vars
\* The 5 s interval: a poll beside the loop's own, also while an item runs.
Tick(k) ==
  /\ poll[k] = Free /\ Listed # {}
  /\ poll' = [poll EXCEPT ![k].rest = Listed]
  /\ UNCHANGED <<runs, loop, downs, latch, armed, timers, cmd>>

----------------------------------------------------------------------------
\* The loop.

Parks == <<latch, armed, timers>>
LoopUnchanged == UNCHANGED <<aborted, downs, cmd>>

\* The poll at the top of the loop and after a park, unless it is to end.
PollOrEnd(next) ==
  /\ IF stopping
       THEN loop' = "ended" /\ UNCHANGED poll
       ELSE loop' = next /\ poll' = [poll EXCEPT !["loop"].rest = Listed]
  /\ UNCHANGED <<item, active, Parks>> /\ LoopUnchanged
Top == loop = "top" /\ PollOrEnd("polling")
Woken == loop = "woken" /\ PollOrEnd("repolling")

Polled == poll["loop"] = Free
Repolled ==
  /\ loop = "repolling" /\ Polled
  /\ loop' = "top"
  /\ UNCHANGED <<item, active, Parks, poll>> /\ LoopUnchanged

\* A plausible bug: the stop that came with the poll is not seen.
ClaimWithoutLooking(i) ==
  /\ loop = "polling" /\ Polled
  /\ item[i] = "queued"
  /\ item' = [item EXCEPT ![i] = "taken"]
  /\ active' = i
  /\ loop' = "running"
  /\ UNCHANGED <<Parks, poll>> /\ LoopUnchanged
\* claimNextItem hands an item over: it is in flight at once.
Claim(i) ==
  /\ loop = "polling" /\ Polled
  /\ ~stopping /\ item[i] = "queued"
  /\ item' = [item EXCEPT ![i] = "taken"]
  /\ active' = i
  /\ loop' = "running"
  /\ UNCHANGED <<Parks, poll>> /\ LoopUnchanged
\* It throws: the loop comes back after CLAIM_ERROR_RETRY_MS, without a park.
ClaimThrows ==
  /\ loop = "polling" /\ Polled /\ ~stopping
  /\ loop' = "retrying"
  /\ UNCHANGED <<item, active, Parks, poll>> /\ LoopUnchanged
Retry ==
  /\ loop = "retrying"
  /\ loop' = "top"
  /\ UNCHANGED <<item, active, Parks, poll>> /\ LoopUnchanged
\* The queue is empty, the daemon is stopping, or the operator settings file,
\* read at every turn, is in fault just now.
NoClaim ==
  /\ loop = "polling" /\ Polled
  /\ loop' = "parking"
  /\ UNCHANGED <<item, active, Parks, poll>> /\ LoopUnchanged

\* The handler ends and its outcome is written.
RunEnds ==
  /\ loop = "running"
  /\ active' = None
  /\ loop' = "top"
  /\ UNCHANGED <<item, Parks, poll>> /\ LoopUnchanged
\* A plausible bug: the death of its browsers does not unwind the handler.
RunMustEndIfAborted == loop = "running" /\ active \in aborted
\* Aborted, or without its browsers, the handler throws; otherwise it may take
\* for ever.
RunMustEnd == loop = "running" /\ (active \in aborted \/ killed)

\* A plausible bug (ISS-006): no check, the loop parks whatever has come.
ParkUnchecked ==
  /\ loop = "parking" /\ timers < MaxTimers
  /\ armed' = TRUE
  /\ timers' = timers + 1
  /\ loop' = "parked"
  /\ UNCHANGED <<item, active, latch, poll>> /\ LoopUnchanged
\* A plausible bug (ISS-008): a park ends with a wake or a stop only.
ParkUntimed ==
  /\ loop = "parking"
  /\ loop' = IF stopping \/ latch THEN "woken" ELSE "parked"
  /\ armed' = (loop' = "parked")
  /\ latch' = (latch /\ stopping)
  /\ UNCHANGED <<item, active, timers, poll>> /\ LoopUnchanged
\* A stop or a latched wake came first: the loop does not park.
ParkSkipped ==
  /\ loop = "parking" /\ (stopping \/ latch)
  /\ latch' = (latch /\ stopping)
  /\ loop' = "woken"
  /\ UNCHANGED <<item, active, armed, timers, poll>> /\ LoopUnchanged
\* Nothing came before the waiters are armed: the loop parks.
Park ==
  /\ loop = "parking" /\ ~stopping /\ ~latch
  /\ timers < MaxTimers
  /\ armed' = TRUE
  /\ timers' = timers + 1
  /\ loop' = "parked"
  /\ UNCHANGED <<item, active, latch, poll>> /\ LoopUnchanged

LoopStep ==
  \/ Top \/ Woken \/ Repolled \/ (\E i \in Items : Claim(i)) \/ ClaimThrows
  \/ Retry \/ NoClaim \/ ParkSkipped \/ Park

----------------------------------------------------------------------------
\* The daemon's surroundings.

EnvUnchanged == UNCHANGED <<active, timers, poll>>

\* A row is queued; its enqueuer will POST /wake.
Enqueue(i) ==
  /\ item[i] = "new"
  /\ item' = [item EXCEPT ![i] = "queued"]
  /\ UNCHANGED <<loop, aborted, downs, latch, armed, cmd>> /\ EnvUnchanged
\* POST /wake: late, of any enqueuer, or never, for it is best effort.
Wake ==
  /\ ResolveWake
  /\ UNCHANGED <<item, aborted, downs, cmd>> /\ EnvUnchanged

\* POST /stop.  The 50 ms before the browsers are killed are left out, and so
\* is a second one, which finds everything done.
HttpStop ==
  /\ ~killed
  /\ stopping' = TRUE /\ killed' = TRUE
  /\ ResolveWake
  /\ UNCHANGED <<item, aborted, cmd>> /\ EnvUnchanged

\* A window is closed or a browser crashes.
Disconnect ==
  /\ ~stopping
  /\ stopping' = TRUE /\ killed' = TRUE
  /\ aborted' = IF active = None THEN aborted ELSE aborted \cup {active}
  /\ Unpark
  /\ UNCHANGED <<item, latch, cmd>> /\ EnvUnchanged

Send(c) ==
  /\ cmd[c] = "unsent"
  /\ cmd' = [cmd EXCEPT ![c] = "queued"]
  /\ UNCHANGED <<item, loop, aborted, downs, latch, armed>> /\ EnvUnchanged

Beside ==
  \/ TimerRings \/ Wake \/ HttpStop \/ Disconnect
  \/ \E i \in Items : Enqueue(i)
  \/ \E c \in Commands : Send(c)
  \/ \E p \in Pollers : Serve(p)
  \/ \E k \in Ticks : Tick(k)

Next == Up /\ (LoopStep \/ RunEnds \/ Beside)

\* The event loop serves whatever is due.  A claim does not throw for ever and
\* the settings do not stay in fault: often enough the loop may claim, it does.
\* A run that nobody aborts owes no end.
Fairness ==
  /\ WF_vars(Up /\ (LoopStep \/ Serve("loop") \/ (RunMustEnd /\ RunEnds)))
  /\ SF_vars(Up /\ \E i \in Items : Claim(i))
  /\ WF_vars(Up /\ TimerRings)
  /\ \A k \in Ticks : WF_vars(Up /\ (Tick(k) \/ Serve(k)))

LoopSpec == Init /\ [][Next]_vars
FairLoopSpec == LoopSpec /\ Fairness

----------------------------------------------------------------------------
\* The variables have their types; a run is in flight exactly while the loop
\* waits for it, and waiters are armed only in a park.
LoopTypeOK ==
  /\ item \in [Items -> {"new", "queued", "taken"}]
  /\ aborted \subseteq Items
  /\ loop \in {"top", "polling", "retrying", "running", "parking", "parked", "woken",
               "repolling", "ended"}
  /\ active \in Items \cup {None}
  /\ {stopping, killed, latch, armed} \subseteq BOOLEAN
  /\ timers \in 0 .. MaxTimers
  /\ cmd \in [Commands -> {"unsent", "queued", "acknowledged", "completed", "failed"}]
  /\ poll \in [Pollers -> [rest : SUBSET Commands, on : Commands \cup {None}]]
  /\ active # None <=> loop = "running"
  /\ armed => loop = "parked"
  /\ killed => stopping

\* No wake and no stop is slept over while the park has its waiters, whatever
\* it raced with on the way there: a poll, a claim, another park's end.
ArmedParkMissesNothing == armed => ~latch /\ ~stopping

\* What daemon.ts:274-279 says of the wake that is latched: it lands "while the
\* claim loop is NOT parked", and "the check-before-park guard consumes the
\* latch and re-claims immediately".  A park whose waiters an older timer took
\* sleeps over it.
WakeNeverSleptOver == ~(loop = "parked" /\ latch)

\* A daemon that was told to stop claims nothing more, although the word may
\* come while the loop waits for its poll, between `while` and the claim.
NoClaimAfterStop ==
  [][stopping /\ active = None => active' = None]_vars

\* A cancel reaches the run it names or none: an answer that says completed
\* has aborted it, and nothing else but a disconnect aborts a run, however
\* old the poll's list is and whichever poll handles it.
CancelsHitTheirTarget ==
  /\ \A c \in Commands :
       Kind[c] = "cancel_task" /\ cmd[c] = "completed" => Target[c] \in aborted
  /\ \A i \in aborted :
       killed \/ \E c \in Commands :
         Kind[c] = "cancel_task" /\ Target[c] = i /\ cmd[c] \in {"completed", "failed"}

\* Queued items do not go on lying beside an idle daemon: one is claimed, or
\* the daemon is stopping; also when the wake is lost, or comes while nobody
\* waits for it, or a claim throws.
QueuedGetsClaimed ==
  []<>(stopping \/ active # None \/ \A i \in Items : item[i] # "queued")

\* A stop ends the loop, whatever the run in flight waits for.
StopEndsLoop == []<>(killed => ~Up)

\* The commands sent are answered while the loop lives, behind a run of any
\* length and behind a browser command that takes its time.
CommandsAnswered ==
  []<>(~Up \/ \A c \in Commands : cmd[c] \notin {"queued", "acknowledged"})
=============================================================================
