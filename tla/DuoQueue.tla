------------------------------ MODULE DuoQueue ------------------------------
(***************************************************************************)
(* The serial Duo queue, src/src/tracker/sessions/duo-queue.ts.            *)
(*                                                                         *)
(* Daemons that log in at the same time share one phone, so each appends a *)
(* duo_request event to the session log and polls the log until its own is *)
(* the first request nothing has resolved.  There is no coordinator: every *)
(* waiter reads the log for itself and, when the request at the head looks *)
(* dead or stale, appends the duo_timeout that lets the queue advance.     *)
(*                                                                         *)
(* log[i] is the i-th duo_request: who asked, how long ago (Tick; ages     *)
(* saturate at MaxWait, past which nothing tells them apart) and what      *)
(* resolved it.  A poll reads the log and appends at most one event.  It   *)
(* is one step: requests are only appended, a resolution is never taken    *)
(* back, a dead process stays dead and ages only grow, so a poll that acts *)
(* on an older reading appends what it would append on the current one.    *)
(* What is behind the prompt (the phone, the browser, WebAuthn) is the     *)
(* time a prompt takes.                                                    *)
(***************************************************************************)
EXTENDS Naturals, Sequences

CONSTANTS
  Procs,        \* the processes that log in, one login at a time each
  StaleAge,     \* DUO_QUEUE_STALE_REQUEST_MS, in ticks
  MaxWait,      \* DUO_QUEUE_MAX_WAIT_MS, in ticks
  PromptMax,    \* the longest manual Duo timeout, in ticks
  MaxRequests   \* bound on the requests in the log

ASSUME DuoAssumption ==
  /\ StaleAge \in Nat /\ MaxWait \in Nat /\ PromptMax \in Nat
  /\ MaxRequests \in Nat \ {0}
  /\ 0 < PromptMax /\ PromptMax < StaleAge /\ StaleAge < MaxWait

VARIABLES
  log,     \* the requests, in the order they were appended
  turn,    \* turn[p]: what p's login is doing
  spent,   \* spent[p]: how long p's prompt has been up
  timely   \* chosen once: no prompt outlasts PromptMax and no poll is late

vars == <<log, turn, spent, timely>>

Requests == 1 .. Len(log)
Owns(p, i) == log[i].owner = p /\ \A j \in i + 1 .. Len(log) : log[j].owner # p
Current(p) == CHOOSE i \in Requests : Owns(p, i)

----------------------------------------------------------------------------
\* The queue as every poll computes it from the log.

\* A plausible bug: a request that has started counts as resolved.
UnresolvedNotStarted ==
  { i \in Requests : log[i].outcome = "open" /\ turn[log[i].owner] # "prompting" }
Unresolved == { i \in Requests : log[i].outcome = "open" }
\* A plausible bug: the newest unresolved request is served first.
HeadNewest(i) == i \in Unresolved /\ \A j \in Unresolved : j <= i
Heads(i) == i \in Unresolved /\ \A j \in Unresolved : i <= j

Dead(p) == turn[p] = "dead"
Stale(i) == log[i].age >= StaleAge
\* A plausible bug: only the process-is-dead path advances the queue.
OverdueDeadOnly(i) == Dead(log[i].owner)
\* The head may be passed over: its process is gone, or it asked long ago.
Overdue(i) == Dead(log[i].owner) \/ Stale(i)

Resolve(i, how) ==
  IF log[i].outcome = "open" THEN [log EXCEPT ![i].outcome = how] ELSE log

----------------------------------------------------------------------------
Init ==
  /\ log = <<>>
  /\ turn = [p \in Procs |-> "idle"]
  /\ spent = [p \in Procs |-> 0]
  /\ timely \in BOOLEAN

\* requestDuoApproval: the duo_request event, then waitForDuoTurn.
Request(p) ==
  /\ turn[p] = "idle"
  /\ Len(log) < MaxRequests
  /\ log' = Append(log, [owner |-> p, age |-> 0, outcome |-> "open"])
  /\ turn' = [turn EXCEPT ![p] = "waiting"]
  /\ UNCHANGED <<spent, timely>>

\* The wait throws: it has lasted MaxWait, or the daemon is being stopped.
\* The login fails and may be retried; nothing resolves the request.
WaitedTooLong(p) == log[Current(p)].age >= MaxWait
Leave(p) ==
  /\ turn' = [turn EXCEPT ![p] = "idle"]
  /\ UNCHANGED <<log, spent, timely>>
\* A plausible bug: no cap on the wait.
GiveUpNever(p) == FALSE /\ Leave(p)
GiveUp(p) == turn[p] = "waiting" /\ WaitedTooLong(p) /\ Leave(p)
Abort(p) == turn[p] = "waiting" /\ Leave(p)

\* The poll finds the own request at the head: duo_start, the prompt is up.
Start(p) ==
  /\ turn[p] = "waiting"
  /\ ~WaitedTooLong(p)
  /\ Heads(Current(p))
  /\ turn' = [turn EXCEPT ![p] = "prompting"]
  /\ spent' = [spent EXCEPT ![p] = 0]
  /\ UNCHANGED <<log, timely>>

\* The poll finds a dead or stale request at the head: duo_timeout.
Advance(p) ==
  /\ turn[p] = "waiting"
  /\ ~WaitedTooLong(p)
  /\ \E i \in Requests :
       /\ Heads(i) /\ i # Current(p) /\ Overdue(i)
       /\ log' = Resolve(i, "timeout")
  /\ UNCHANGED <<turn, spent, timely>>

\* pollDuoApproval returns or throws, approved or not: duo_complete.
Complete(p) ==
  /\ turn[p] = "prompting"
  /\ log' = Resolve(Current(p), "complete")
  /\ turn' = [turn EXCEPT ![p] = "idle"]
  /\ spent' = [spent EXCEPT ![p] = 0]
  /\ UNCHANGED timely

\* The process dies, without a word in the log.
Die(p) ==
  /\ turn[p] # "dead"
  /\ turn' = [turn EXCEPT ![p] = "dead"]
  /\ spent' = [spent EXCEPT ![p] = 0]
  /\ UNCHANGED <<log, timely>>

\* Time passes.  In a timely run a prompt ends within PromptMax and
\* a waiter with something to do polls (every 500 ms) before the next tick.
Older(n) == IF n < MaxWait THEN n + 1 ELSE n
Poll(p) == Start(p) \/ Advance(p) \/ GiveUp(p)
PollDue(p) ==
  /\ turn[p] = "waiting"
  /\ \/ WaitedTooLong(p)
     \/ \E i \in Requests : Heads(i) /\ (i = Current(p) \/ Overdue(i))
OnTime(p) ==
  /\ ~PollDue(p)
  /\ turn[p] = "prompting" => spent[p] < PromptMax
Tick ==
  /\ timely => \A p \in Procs : OnTime(p)
  /\ log' = [i \in Requests |-> [log[i] EXCEPT !.age = Older(@)]]
  /\ spent' = [p \in Procs |->
       IF turn[p] = "prompting" /\ spent[p] <= PromptMax THEN spent[p] + 1 ELSE spent[p]]
  /\ UNCHANGED <<turn, timely>>

Next ==
  \/ \E p \in Procs : Request(p) \/ Poll(p) \/ Abort(p) \/ Complete(p) \/ Die(p)
  \/ Tick

\* A waiter polls every 500 ms and time passes.  Outside a timely run a prompt
\* owes nothing: a wedged one never completes.
Fairness ==
  /\ WF_vars(Tick)
  /\ \A p \in Procs : WF_vars(Poll(p)) /\ WF_vars(timely /\ Complete(p))

DuoSpec == Init /\ [][Next]_vars
FairDuoSpec == DuoSpec /\ Fairness

----------------------------------------------------------------------------
\* The variables have their types, and a login in the queue has its request.
DuoTypeOK ==
  /\ log \in Seq([owner : Procs, age : 0 .. MaxWait,
                  outcome : {"open", "complete", "timeout"}])
  /\ Len(log) <= MaxRequests
  /\ turn \in [Procs -> {"idle", "waiting", "prompting", "dead"}]
  /\ spent \in [Procs -> 0 .. PromptMax + 1]
  /\ timely \in BOOLEAN
  /\ \A p \in Procs : turn[p] \in {"waiting", "prompting"} =>
       \E i \in Requests : Owns(p, i)

\* The phone shows one prompt at a time: when two are up at once, the one
\* that asked first has been timed out by a waiter (or its process died).
OnePromptUnlessTimedOut ==
  \A p, q \in Procs :
    /\ turn[p] = "prompting" /\ turn[q] = "prompting"
    /\ Current(p) < Current(q)
    => log[Current(p)].outcome = "timeout"

\* Nobody is overtaken while the request is good: whoever is prompting, every
\* process that is still waiting and asked before was passed over as stale.
FirstComeFirstServed ==
  \A p, q \in Procs :
    /\ turn[p] = "prompting" /\ turn[q] = "waiting"
    /\ Current(q) < Current(p)
    => log[Current(q)].outcome = "timeout" /\ Stale(Current(q))

\* Nothing at the head blocks the queue for good: a waiter with a request
\* ahead of it gets past it (or leaves) whether that process dies, hangs
\* in its prompt, or left without resolving its request.
NobodyWaitsForever ==
  \A p \in Procs : (turn[p] = "waiting") ~> (turn[p] # "waiting")

\* In a timely run every request is resolved or has its turn within the stale
\* age of asking, whatever is ahead of it; so the only process that waits on,
\* and fails at MaxWait, is one whose request another waiter passed over.
TurnWithinStaleAge ==
  timely => \A p \in Procs :
              turn[p] = "waiting" /\ log[Current(p)].age > StaleAge =>
                log[Current(p)].outcome = "timeout"

\* What duo-queue.ts:85-86 says of the stale age: "a normally-progressing
\* prompt is never preempted — only a wedged one".
HealthyPromptKeepsTurn ==
  timely => \A p \in Procs :
    turn[p] = "prompting" =>
      log[Current(p)].outcome # "timeout"
=============================================================================
