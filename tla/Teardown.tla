------------------------------ MODULE Teardown ------------------------------
(***************************************************************************)
(* How the daemons of one workflow stop: the intents a stop carries        *)
(* (http.ts, shutdown.ts), what becomes of the item in flight              *)
(* (teardown-transition.ts, in-flight-shutdown.ts, the cancel branch of    *)
(* daemon.ts), the sweep of the queue by the last daemon, and the token    *)
(* that keeps a run to one terminal row (run-registry.ts).                 *)
(*                                                                         *)
(* The store is module TaskStore, one transaction per action.  Probes of   *)
(* peers are steps of their own, so that what they saw may be stale when   *)
(* it is used.  Abstractions: claiming and markTaskRunning are one step    *)
(* (module Daemon splits them); settlement of dependencies is module       *)
(* Dependencies; a re-queue and its pending row are one step.              *)
(*                                                                         *)
(* Bounds: a behaviour has at most one failure (a crash, a wedge, a throw  *)
(* of the store or of a row append, a stalled heartbeat), recorded in      *)
(* `fault`.  A daemon's launch, a browser and a Duo prompt, outlasts the   *)
(* sweep of a peer that did not see it.                                    *)
(***************************************************************************)
EXTENDS TaskStore

CONSTANT NoClaim

ASSUME TeardownAssumption == NoClaim \notin Claim

VARIABLES
  proc,     \* each daemon process
  shown,    \* the last row of each run in the tracker
  rows,     \* terminal rows of each run since it was last pending
  fault,    \* something failed
  cutShort  \* a cleanup was abandoned because its re-queue threw

tdVars == <<task, attempt, issued, cancelCmd, proc, shown, rows, fault, cutShort>>
procVars == <<proc, shown, rows, fault, cutShort>>

\* The one failure of a behaviour: a process dies, the store throws, the append of
\* a row throws, a heartbeat is late.
Fault == {"none", "crash", "store", "append", "stall"}

Row == {"pending", "done", "failed", "cancelled"}

\* The loop: off, launching, idle, processing, returned, acting (peers known),
\* closing (store written).  The cleanup: cleanup, inflight, closing2, sweep,
\* listed, sweeping, leaving.  The end: exited, dead, killed (by a signal), wedged.
Phase == {"off", "launching", "idle", "processing", "returned", "acting", "closing",
          "cleanup", "inflight", "closing2", "sweep", "listed", "sweeping",
          "leaving", "exited", "dead", "killed", "wedged"}

Process == [phase : Phase,
            stopping : BOOLEAN,   \* shuttingDown
            force : BOOLEAN,      \* forceShutdown
            reassign : BOOLEAN,   \* reassignInFlight
            drain : BOOLEAN,      \* drainOnlyShutdown
            auth : BOOLEAN,       \* authCompleted
            claim : Claim \cup {NoClaim},    \* activeRun
            aborted : BOOLEAN,    \* its controller
            verdict : Verdict \cup {"none"}, \* of the handler, then of the loop
            token : BOOLEAN,      \* terminalWrites holds its run
            alive : SUBSET Workers,  \* otherAlive, peers
            handoff : SUBSET Workers,  \* peers available for hand-off
            list : SUBSET Tasks,  \* queued items left to sweep
            excused : BOOLEAN]    \* (history) no stop: a throw, a drain, no login

Fresh == [phase |-> "off", stopping |-> FALSE, force |-> FALSE, reassign |-> FALSE,
          drain |-> FALSE, auth |-> FALSE, claim |-> NoClaim, aborted |-> FALSE,
          verdict |-> "none", token |-> FALSE, alive |-> {}, handoff |-> {}, list |-> {},
          excused |-> FALSE]

TdTypeOK ==
  /\ StoreTypeOK
  /\ proc \in [Workers -> Process]
  /\ shown \in [Tasks -> Row]
  /\ rows \in [Tasks -> Nat]
  /\ fault \in Fault /\ cutShort \in BOOLEAN

TdInit ==
  /\ StoreInit
  /\ proc = [w \in Workers |-> Fresh]
  /\ shown = [t \in Tasks |-> "pending"]
  /\ rows = [t \in Tasks |-> 0]
  /\ fault = "none"
  /\ cutShort = FALSE

-----------------------------------------------------------------------------
LoopPhase == {"launching", "idle", "processing", "returned", "acting", "closing"}
CleanupPhase == {"cleanup", "inflight", "closing2", "sweep", "listed", "sweeping",
                 "leaving"}
Running == {w \in Workers : proc[w].phase \in LoopPhase \cup CleanupPhase}

\* A daemon that will claim work: launched, not told to stop, its loop turning.
Serving(w) == proc[w].phase \in LoopPhase \ {"launching"} /\ ~proc[w].stopping

Put(w, p) == proc' = [proc EXCEPT ![w] = p]
Enter(w, ph) == proc' = [proc EXCEPT ![w].phase = ph]

ShowTerminal(t, v) ==
  /\ shown' = [shown EXCEPT ![t] = v]
  /\ rows' = [rows EXCEPT ![t] = @ + 1]
ShowPending(t) ==
  /\ shown' = [shown EXCEPT ![t] = "pending"]
  /\ rows' = [rows EXCEPT ![t] = 0]
ShowNothing == UNCHANGED <<shown, rows>>

Fails(f) == fault = "none" /\ fault' = f
Works == UNCHANGED fault

\* A plausible bug: nobody asks whether the row is written already.
TokenNeverTaken(w) == TRUE
\* The terminal-write token of the run in w's hands (run-registry.ts): whoever
\* claims it first writes the row; a throwing append gives it back.
TokenFree(w) == ~proc[w].token

\* The row v of w's run, if its token is free; the process that follows when it is
\* written, when the append throws, and when the row is left to whoever wrote it.
WriteRow(w, v, written, threw, deferred) ==
  \/ /\ TokenFree(w)
     /\ ShowTerminal(proc[w].claim.task, v)
     /\ Put(w, written) /\ Works
  \/ /\ TokenFree(w)
     /\ ShowNothing
     /\ Put(w, threw) /\ Fails("append")
  \/ /\ ~TokenFree(w)
     /\ ShowNothing
     /\ Put(w, deferred) /\ Works

\* The task is visibly out of the hands of the claim's worker.
HandedOff(c) ==
  \/ task[c.task].state \in {"queued", "done", "failed", "cancelled", "blocked"}
  \/ task[c.task].owner \notin {NoWorker, c.worker}

\* A process that lets go of its run, one whose loop goes on (or ends, told to
\* stop), and one whose loop throws.
LetGo(p) == [p EXCEPT !.claim = NoClaim, !.aborted = FALSE, !.verdict = "none",
                      !.token = FALSE, !.alive = {}, !.handoff = {}]
Thrown(p) == [p EXCEPT !.phase = "cleanup", !.excused = @ \/ ~p.stopping]
Turn(p) == [LetGo(p) EXCEPT !.phase = IF p.stopping THEN "cleanup" ELSE "idle"]
Swept(p) == [LetGo(p) EXCEPT !.phase = "sweep", !.alive = p.alive]

-----------------------------------------------------------------------------
(* Work, and the ends of it that are not a teardown.                       *)

Submit(t) ==
  /\ \E w \in Workers : proc[w].phase \in LoopPhase /\ ~proc[w].stopping
  /\ Enqueue(t)
  /\ UNCHANGED procVars

Spawn(w) ==
  /\ proc[w].phase = "off"
  /\ Enter(w, "launching")
  /\ UNCHANGED <<storeVars, shown, rows, fault, cutShort>>

\* A process that decides on what it saw of its peers.
Deciding == {"acting", "inflight", "closing2", "sweep", "listed", "sweeping"}

Launched(w) ==
  /\ proc[w].phase = "launching"
  /\ \A p \in Workers : proc[p].phase \in Deciding => w \in proc[p].alive
  /\ Put(w, [proc[w] EXCEPT !.phase = IF proc[w].stopping THEN "cleanup" ELSE "idle",
                            !.auth = TRUE])
  /\ UNCHANGED <<storeVars, shown, rows, fault, cutShort>>

\* Session.launch throws: aborted by a stop, or of itself.
LaunchFails(w) ==
  /\ proc[w].phase = "launching"
  /\ Put(w, Thrown(proc[w]))
  /\ UNCHANGED <<storeVars, shown, rows, fault, cutShort>>

\* Recovery at startup and on the keepalive; a daemon that stalled, and whose
\* heartbeat is old, counts as dead.  Here it stalls in its cleanup; module Daemon
\* has those that stall in a run.
Recover(w, stale) ==
  /\ proc[w].phase = "idle" /\ ~proc[w].stopping
  /\ stale \subseteq {p \in Workers \ {w} : proc[p].phase \in CleanupPhase}
  /\ RecoverOrphanedClaims(Running \ stale,
       [t \in Tasks |-> IF shown[t] = "pending" THEN "none" ELSE shown[t]])
  /\ IF stale = {} THEN Works ELSE Fails("stall")
  /\ UNCHANGED <<proc, shown, rows, cutShort>>

Take(w, t) ==
  LET c == [task |-> t, att |-> task[t].cur, worker |-> w, gen |-> task[t].gen + 1] IN
  /\ proc[w].phase = "idle" /\ ~proc[w].stopping
  /\ task[t].state = "queued"
  /\ task[t].gen < MaxGen
  /\ Write(t, [task[t] EXCEPT !.state = "running", !.owner = w, !.lease = "live",
                              !.gen = @ + 1])
  /\ WriteAttempt(t, c.att, "running")
  /\ issued' = issued \cup {c}
  /\ Put(w, [proc[w] EXCEPT !.phase = "processing", !.claim = c])
  /\ UNCHANGED <<cancelCmd, shown, rows, fault, cutShort>>

\* A plausible bug: the kernel takes the token of a cancelled run it shows no row for.
HandlerEndsStealingToken(w, v) ==
  LET p == [proc[w] EXCEPT !.phase = "returned", !.verdict = v, !.token = TRUE] IN
  /\ proc[w].phase = "processing"
  /\ v = "failed" => ~proc[w].aborted
  /\ v = "cancelled" => proc[w].aborted
  /\ IF v = "cancelled" THEN ShowNothing ELSE ShowTerminal(proc[w].claim.task, v)
  /\ Put(w, p)
  /\ UNCHANGED <<storeVars, fault, cutShort>>

\* The handler ends and the kernel, first to ask for the token, writes the terminal
\* row; a failure of an aborted run is a cancellation, whose row the kernel leaves
\* to the daemon.  A done row whose append throws makes the run a failed one.
HandlerEnds(w, v) ==
  LET p == [proc[w] EXCEPT !.phase = "returned", !.verdict = v]
      t == proc[w].claim.task
  IN
  /\ proc[w].phase = "processing"
  /\ v = "failed" => ~proc[w].aborted
  /\ v = "cancelled" => proc[w].aborted
  /\ \/ v = "cancelled" /\ Put(w, p) /\ ShowNothing /\ Works
     \/ v # "cancelled" /\ Put(w, [p EXCEPT !.token = TRUE]) /\ ShowTerminal(t, v) /\ Works
     \/ /\ v = "done" /\ Fails("append")
        /\ Put(w, [p EXCEPT !.token = TRUE, !.verdict = "failed"])
        /\ ShowTerminal(t, "failed")
     \/ v = "failed" /\ Fails("append") /\ Put(w, p) /\ ShowNothing
  /\ UNCHANGED <<storeVars, cutShort>>

\* runOneItem throws before it runs the handler: the loop ends with its run.
HandlerRefuses(w) ==
  /\ proc[w].phase = "processing"
  /\ Put(w, Thrown(proc[w]))
  /\ UNCHANGED <<storeVars, shown, rows, fault, cutShort>>

Cancelling(p) ==
  p.aborted \/ task[p.claim.task].state \in {"cancelled", "cancel_requested"}

\* terminalizeNormalOutcome, retried until it lands or the task is elsewhere.
EndNormally(w) ==
  LET p == proc[w] IN
  /\ p.phase = "returned"
  /\ ~Cancelling(p)
  /\ \/ MarkTerminal(p.claim, p.verdict)
     \/ ~FenceHolds(p.claim) /\ HandedOff(p.claim) /\ UNCHANGED storeVars
  /\ Put(w, Turn(p))
  /\ UNCHANGED <<shown, rows, fault, cutShort>>

-----------------------------------------------------------------------------
(* What tells a daemon to stop, and the dashboard's cancellations.         *)

Told(w) == proc[w].phase \in LoopPhase \cup CleanupPhase

\* POST /stop: with `reassign` from a session card, without from stop-all.
Stop(w, reassign) ==
  /\ Told(w)
  /\ Put(w, [proc[w] EXCEPT !.stopping = TRUE, !.force = TRUE, !.drain = FALSE,
                            !.reassign = reassign])
  /\ UNCHANGED <<storeVars, shown, rows, fault, cutShort>>

\* SIGHUP or the stop_worker command, or any signal between two items.  A signal
\* during the clean-up is left out.
Signal(w) ==
  /\ proc[w].phase \in LoopPhase
  /\ Put(w, [proc[w] EXCEPT !.stopping = TRUE, !.force = TRUE, !.drain = FALSE])
  /\ UNCHANGED <<storeVars, shown, rows, fault, cutShort>>

\* SIGINT or SIGTERM while an item is processed: withTrackedWorkflow has a listener
\* of its own (tracked-workflow.ts:355), which appends a failed row, asking for no
\* token, and exits before the daemon's has done more than set its flags.
SignalMidRun(w) ==
  /\ proc[w].phase = "processing"
  /\ ShowTerminal(proc[w].claim.task, "failed")
  /\ Put(w, [Fresh EXCEPT !.phase = "killed"])
  /\ UNCHANGED <<storeVars, fault, cutShort>>

Drain(w) ==
  /\ proc[w].phase \in LoopPhase
  /\ Put(w, [proc[w] EXCEPT !.stopping = TRUE, !.drain = TRUE])
  /\ UNCHANGED <<storeVars, shown, rows, fault, cutShort>>

BrowserLost(w) ==
  /\ proc[w].phase \in {"idle", "processing", "returned"}
  /\ ~proc[w].stopping
  /\ Put(w, [proc[w] EXCEPT !.stopping = TRUE, !.aborted = proc[w].claim # NoClaim])
  /\ UNCHANGED <<storeVars, shown, rows, fault, cutShort>>

\* abortLaunchAndKillSession, 50 ms after /stop answered; the cancel_task command.
Abort(w) ==
  /\ proc[w].phase \in {"processing", "returned"}
  /\ proc[w].force \/ task[proc[w].claim.task].state = "cancel_requested"
  /\ ~proc[w].aborted
  /\ Put(w, [proc[w] EXCEPT !.aborted = TRUE])
  /\ UNCHANGED <<storeVars, shown, rows, fault, cutShort>>

CancelRunning(t) == RequestCancelRunning(t) /\ UNCHANGED procVars

CancelQueued(t) ==
  /\ task[t].state = "queued"
  /\ RequestCancelIdle(t)
  /\ ShowTerminal(t, "cancelled")
  /\ UNCHANGED <<proc, fault, cutShort>>

Crash(w) ==
  /\ Told(w) /\ Fails("crash")
  /\ Put(w, [Fresh EXCEPT !.phase = "dead"])
  /\ UNCHANGED <<storeVars, shown, rows, cutShort>>

\* The loop hangs: the pid and the lockfile stay, /whoami is not answered.
\* It is left out while another daemon starts, stops or has failed.
Wedge(w) ==
  /\ proc[w].phase = "idle"
  /\ \A p \in Workers \ {w} : Serving(p)
  /\ Enter(w, "wedged")
  /\ UNCHANGED <<storeVars, shown, rows, fault, cutShort>>

-----------------------------------------------------------------------------
(* The item in flight.                                                     *)

\* findAliveDaemons without w: it trusts a pid, and may be too old to know a
\* daemon that has just been spawned.
PidAlive(w) == {p \in Workers \ {w} : proc[p].phase \notin {"off", "exited", "dead", "killed"}}
AliveViews(w) == {S \in SUBSET PidAlive(w) :
                    PidAlive(w) \ S \subseteq {p \in Workers : proc[p].phase = "launching"}}

\* filterPeersAvailableForHandoff: /whoami answers, and not with shuttingDown.
\* A plausible bug: a peer with a pid counts as one that will do the work.
AvailableTrustingPid(S) == S
Available(S) == {p \in S : proc[p].phase \in LoopPhase \cup CleanupPhase /\ ~proc[p].stopping}

\* The claim loop looks at its peers if a stop is in play.
LookForPeers(w) ==
  LET p == proc[w] IN
  /\ p.phase = "returned"
  /\ Cancelling(p)
  /\ p.reassign \/ p.force
  /\ \E S \in AliveViews(w) :
       Put(w, [p EXCEPT !.phase = "acting", !.alive = S,
                        !.handoff = IF p.reassign THEN Available(S) ELSE {}])
  /\ UNCHANGED <<storeVars, shown, rows, fault, cutShort>>

\* resolveTeardownTransition
Transition(p) ==
  CASE p.reassign /\ p.handoff # {} -> "reassign"
    [] p.reassign /\ p.alive # {} -> "fail"
    [] OTHER -> IF p.force THEN "fail" ELSE "cancel"

\* Ready to act in the claim loop: at once when no stop is in play.
ActsInLoop(p) ==
  \/ p.phase = "acting"
  \/ p.phase = "returned" /\ Cancelling(p) /\ ~p.reassign /\ ~p.force

\* returnTaskToQueued of the run in flight, and its pending row; p if it landed or
\* the task is elsewhere, and a throw otherwise.
HandBack(w, p, threw, cut) ==
  LET c == proc[w].claim IN
  \/ /\ ReturnToQueued(c)
     /\ ShowPending(c.task)
     /\ Put(w, p) /\ UNCHANGED cutShort /\ Works
  \/ /\ ~(FenceHolds(c) /\ task[c.task].state \in {"claimed", "running"})
     /\ UNCHANGED storeVars /\ ShowNothing
     /\ Put(w, IF HandedOff(c) THEN p ELSE threw)
     /\ cutShort' = IF HandedOff(c) THEN cutShort ELSE cut
     /\ Works
  \/ /\ UNCHANGED storeVars /\ ShowNothing
     /\ Put(w, threw) /\ cutShort' = cut /\ Fails("store")

LoopReassigns(w) ==
  /\ ActsInLoop(proc[w]) /\ Transition(proc[w]) = "reassign"
  /\ HandBack(w, Turn(proc[w]), Thrown(proc[w]), cutShort)

\* failInFlightItem, or the cancel of one item: the store first.  A refused write
\* of a task that is elsewhere is let go.
LoopCloses(w) ==
  LET p == proc[w]
      v == IF Transition(p) = "fail" THEN "failed" ELSE "cancelled"
      c == p.claim
  IN
  /\ ActsInLoop(p) /\ Transition(p) # "reassign"
  /\ \/ /\ MarkTerminal(c, v)
        /\ Put(w, [p EXCEPT !.phase = "closing", !.verdict = v]) /\ Works
     \/ /\ ~FenceHolds(c) /\ UNCHANGED storeVars
        /\ Put(w, IF HandedOff(c) THEN Turn(p) ELSE Thrown(p)) /\ Works
     \/ /\ UNCHANGED storeVars
        /\ Put(w, Thrown(p)) /\ Fails("store")
  /\ UNCHANGED <<shown, rows, cutShort>>

\* ... and the row after it.
LoopShows(w) ==
  LET p == proc[w] IN
  /\ p.phase = "closing"
  /\ WriteRow(w, p.verdict, Turn(p), Thrown(LetGo(p)), Turn(p))
  /\ UNCHANGED <<storeVars, cutShort>>

-----------------------------------------------------------------------------
(* runDaemonShutdownCleanup.                                               *)

\* A run that has ended, with a row that says so, is left alone.
AlreadyShown(c) ==
  \/ task[c.task].state \in {"done", "blocked"}
  \/ task[c.task].state \in {"cancelled", "failed"} /\ shown[c.task] # "pending"

FindPeers(w) ==
  LET p == proc[w] IN
  /\ p.phase = "cleanup"
  /\ \E S \in AliveViews(w) :
       Put(w, IF p.claim = NoClaim \/ AlreadyShown(p.claim)
              THEN [LetGo(p) EXCEPT !.phase = "sweep", !.alive = S]
              ELSE [p EXCEPT !.phase = "inflight", !.alive = S,
                             !.handoff = IF p.reassign THEN Available(S) ELSE {}])
  /\ UNCHANGED <<storeVars, shown, rows, fault, cutShort>>

\* A throw of the re-queue abandons the rest of the cleanup.
CleanupReassigns(w) ==
  LET p == proc[w] IN
  /\ p.phase = "inflight"
  /\ Transition(p) = "reassign"
  /\ HandBack(w, Swept(p), [p EXCEPT !.phase = "leaving"], TRUE)

CleanupCloses(w) ==
  LET p == proc[w]
      v == IF Transition(p) = "fail" THEN "failed" ELSE "cancelled"
      c == p.claim
  IN
  /\ p.phase = "inflight"
  /\ Transition(p) # "reassign"
  /\ \/ /\ MarkTerminal(c, v)
        /\ Put(w, [p EXCEPT !.phase = "closing2", !.verdict = v]) /\ Works
     \/ /\ ~FenceHolds(c) /\ UNCHANGED storeVars
        /\ Put(w, IF v = "cancelled" /\ task[c.task].state = v
                  THEN [p EXCEPT !.phase = "closing2", !.verdict = v] ELSE Swept(p))
        /\ Works
     \/ /\ UNCHANGED storeVars
        /\ Put(w, Swept(p)) /\ Fails("store")
     \/ /\ v = "cancelled" /\ MarkBlockedUncertain(c)
        /\ Put(w, [p EXCEPT !.phase = "closing2", !.verdict = "none"]) /\ Fails("store")
  /\ UNCHANGED <<shown, rows, cutShort>>

\* The corrective row of a blocked claim asks for no token.
CleanupShows(w) ==
  LET p == proc[w] IN
  /\ p.phase = "closing2"
  /\ IF p.verdict # "none" THEN WriteRow(w, p.verdict, Swept(p), Swept(p), Swept(p))
     ELSE ShowTerminal(p.claim.task, "failed") /\ Put(w, Swept(p)) /\ Works
  /\ UNCHANGED <<storeVars, cutShort>>

\* A plausible bug: every stopping daemon sweeps the queue.
ListQueueAsLast(w) ==
  LET p == proc[w] IN
  /\ p.phase = "sweep"
  /\ Put(w, [p EXCEPT !.phase = "listed",
                      !.list = {t \in Tasks : task[t].state = "queued"}])
  /\ UNCHANGED <<storeVars, shown, rows, fault, cutShort>>

\* The queue is read unless a peer will serve it or this is a drain, and is left
\* alone by a daemon that never authenticated (shouldFailQueuedItemsOnLastDaemonExit).
ListQueue(w) ==
  LET p == proc[w] IN
  /\ p.phase = "sweep"
  /\ Put(w, IF Available(p.alive) = {} /\ ~p.drain /\ p.auth
            THEN [p EXCEPT !.phase = "listed",
                           !.list = {t \in Tasks : task[t].state = "queued"}]
            ELSE [p EXCEPT !.phase = "leaving", !.alive = {}, !.excused = @ \/ p.drain \/ ~p.auth])
  /\ UNCHANGED <<storeVars, shown, rows, fault, cutShort>>

\* The second reading drops what was cancelled meanwhile.
ReadAgain(w) ==
  /\ proc[w].phase = "listed"
  /\ Put(w, [proc[w] EXCEPT !.phase = "sweeping",
                            !.list = {t \in @ : task[t].state = "queued"}])
  /\ UNCHANGED <<storeVars, shown, rows, fault, cutShort>>

\* markItemFailedIfActive: only the daemon that wins it shows the failure.
FailQueued(w, t) ==
  LET rest == [proc[w] EXCEPT !.list = @ \ {t}] IN
  /\ proc[w].phase = "sweeping"
  /\ t \in proc[w].list
  /\ \/ FailIfActive(t, task[t].cur) /\ ShowTerminal(t, "failed") /\ Works
     \/ FailIfActive(t, task[t].cur) /\ Fails("append") /\ ShowNothing
     \/ task[t].terminal /\ UNCHANGED <<storeVars, fault>> /\ ShowNothing
     \/ UNCHANGED storeVars /\ Fails("store") /\ ShowNothing
  /\ Put(w, rest)
  /\ UNCHANGED cutShort

Exit(w) ==
  LET p == proc[w] IN
  /\ p.phase = "leaving" \/ (p.phase = "sweeping" /\ p.list = {})
  /\ Put(w, [Fresh EXCEPT !.phase = "exited", !.excused = p.excused])
  /\ UNCHANGED <<storeVars, shown, rows, fault, cutShort>>

-----------------------------------------------------------------------------
WorkNext ==
  \/ \E t \in Tasks : Submit(t) \/ CancelRunning(t) \/ CancelQueued(t)
  \/ \E w \in Workers :
       \/ Spawn(w) \/ Launched(w) \/ LaunchFails(w)
       \/ \E stale \in SUBSET Workers : Recover(w, stale)
       \/ \E t \in Tasks : Take(w, t)
       \/ \E v \in Verdict : HandlerEnds(w, v)
       \/ HandlerRefuses(w) \/ EndNormally(w)

StopNext ==
  \E w \in Workers :
    \/ \E r \in BOOLEAN : Stop(w, r)
    \/ Signal(w) \/ SignalMidRun(w) \/ Drain(w) \/ BrowserLost(w) \/ Abort(w) \/ Crash(w) \/ Wedge(w)

TeardownNext ==
  \E w \in Workers :
    \/ LookForPeers(w) \/ LoopReassigns(w) \/ LoopCloses(w) \/ LoopShows(w)
    \/ FindPeers(w) \/ CleanupReassigns(w) \/ CleanupCloses(w)
    \/ CleanupShows(w) \/ ListQueue(w) \/ ReadAgain(w) \/ Exit(w)
    \/ \E t \in Tasks : FailQueued(w, t)

TdNext == WorkNext \/ StopNext \/ TeardownNext

TdSpec == TdInit /\ [][TdNext]_tdVars

-----------------------------------------------------------------------------
(* Properties.                                                             *)

\* A run gets one terminal row, however many daemons sweep at once and wherever a
\* stop meets the end of its handler ("exactly ONE terminal row", shutdown.ts:572).
OneTerminalRow == fault # "stall" => \A t \in Tasks : rows[t] <= 1

\* What has ended is shown as ended and what is queued as pending, once no daemon
\* is left between its store write and its row.
AtRest == \A w \in Workers : proc[w].phase \notin {"closing", "closing2"}
RowsMatchStore ==
  AtRest /\ fault \in {"none", "store", "stall"} =>
    \A t \in Tasks :
      /\ task[t].terminal => shown[t] # "pending"
      /\ task[t].state = "queued" => shown[t] = "pending"

\* When the last daemon is gone, or only wedged ones are left, nothing is queued
\* and nothing is in flight: every stop found a peer that went on or failed the
\* work (E2E-105).  Not promised after a failure, a drain or a launch that did not
\* authenticate, nor after a loop that threw (LeftToTheLiving).
Stopped(w) == proc[w].phase = "exited" /\ ~proc[w].excused
NoWorkLeft == \A t \in Tasks : task[t].state \in {"absent", "done", "failed", "cancelled"}
NothingStranded ==
  /\ fault = "none" /\ ~cutShort
  /\ \E w \in Workers : Stopped(w)
  /\ \A w \in Workers : Stopped(w) \/ proc[w].phase \in {"off", "wedged"}
  => NoWorkLeft

\* daemon.ts:130: "SIGINT/SIGTERM handlers fail the in-flight item", and queued
\* items are "failed by the last daemon's outer-finally cleanup".
SignalStrandsNothing ==
  /\ fault = "none"
  /\ \E w \in Workers : proc[w].phase = "killed"
  /\ \A w \in Workers : proc[w].phase \in {"killed", "off"}
  => NoWorkLeft

\* No queued item is failed by a stopping daemon while a peer that would claim it
\* is there, whatever that daemon saw of it earlier.
PeersSpared ==
  [][\A t \in Tasks :
       task[t].state = "queued" /\ task'[t].state = "failed"
       => \A p \in Workers : ~Serving(p)]_tdVars

\* http.ts:72: a peer deciding whether to leave work for a daemon "must not pick
\* one that is ALSO tearing down".
LeftToTheLiving ==
  [][\A w, p \in Workers :
       proc[w].phase = "sweep" /\ proc'[w].phase = "leaving" /\ ~proc[w].drain /\ proc[w].auth
       => \E q \in proc[w].alive : proc[q].phase \notin CleanupPhase]_tdVars

\* shutdown.ts:340: if the re-queue throws, the item stays claimed and a peer's
\* dead-worker recovery sweep re-queues it.
ThrownRequeueRecoverable ==
  \A t \in Tasks :
    cutShort /\ task[t].owner # NoWorker /\ proc[task[t].owner].phase = "exited"
    => Orphaned(t, Running)
=============================================================================
