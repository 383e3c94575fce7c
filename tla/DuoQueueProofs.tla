--------------------------- MODULE DuoQueueProofs ---------------------------
(***************************************************************************)
(* Theorems about DuoQueue for any processes and any bounds on the waits.  *)
(*                                                                         *)
(* Two facts carry the safety properties: whoever prompts has nothing      *)
(* unresolved ahead of it, and requests are appended, so an earlier one is *)
(* at least as old: a waiter that is stale has a stale head to advance.    *)
(***************************************************************************)
EXTENDS DuoQueue, SequenceTheorems, WellFoundedInduction, TLAPS

Entry == [owner : Procs, age : 0 .. MaxWait, outcome : {"open", "complete", "timeout"}]
Queued(p) == turn[p] \in {"waiting", "prompting"}

\* The earlier a request, the older.
OldestFirst == \A i, j \in Requests : i < j => log[j].age <= log[i].age

\* What a process in the queue knows of its request i: it is not answered, it
\* is timed out only when stale, nothing is open ahead of a prompt, and in a
\* timely run it is open beyond the stale age only in its prompt.
Fit(p, i) ==
  /\ log[i].outcome # "complete"
  /\ log[i].outcome = "timeout" => Stale(i)
  /\ turn[p] = "prompting" => \A j \in Requests : j < i => log[j].outcome # "open"
  /\ timely /\ turn[p] = "waiting" /\ log[i].age > StaleAge => log[i].outcome = "timeout"

RequestsFit ==
  \A p \in Procs, i \in Requests : Queued(p) /\ Owns(p, i) => Fit(p, i)

DuoInv == DuoTypeOK /\ OldestFirst /\ RequestsFit

-----------------------------------------------------------------------------
\* A nonempty set of natural numbers has a least one.
LEMMA LeastNumber ==
  ASSUME NEW S, S \subseteq Nat, S # {}
  PROVE  \E m \in S : \A k \in S : m <= k
<1>1. PICK m \in S : \A k \in S : <<k, m>> \notin OpToRel(<, Nat)
  BY NatLessThanWellFounded, WFMin
<1>2. \A k \in S : ~ (k < m)
  BY <1>1 DEF OpToRel
<1> QED BY <1>2

\* An entry of the log has the type of its fields.
LEMMA EntryTyped ==
  ASSUME DuoTypeOK, NEW i \in Requests
  PROVE  /\ log[i] \in Entry
         /\ log[i].owner \in Procs /\ log[i].age \in 0 .. MaxWait
         /\ log[i].outcome \in {"open", "complete", "timeout"}
         /\ i \in Nat \ {0}
<1>1. log[i] \in Entry
  BY ElementOfSeq DEF DuoTypeOK, Requests, Entry
<1> QED BY <1>1 DEF Entry, Requests, DuoTypeOK

\* A process owns one request, the last it made, and Current finds it.
LEMMA OwnsOne ==
  ASSUME DuoTypeOK, NEW p \in Procs, NEW i \in Requests, NEW j \in Requests,
         Owns(p, i), Owns(p, j)
  PROVE  i = j
<1>1. Len(log) \in Nat
  BY LenProperties DEF DuoTypeOK
<1> QED BY <1>1 DEF Owns, Requests

LEMMA CurrentIs ==
  ASSUME DuoTypeOK, NEW p \in Procs, NEW i \in Requests, Owns(p, i)
  PROVE  Current(p) = i
<1>1. Current(p) \in Requests /\ Owns(p, Current(p))
  BY DEF Current
<1> QED BY <1>1, OwnsOne

LEMMA CurrentOwned ==
  ASSUME DuoTypeOK, NEW p \in Procs, Queued(p)
  PROVE  Current(p) \in Requests /\ Owns(p, Current(p))
BY DEF DuoTypeOK, Queued, Current

\* If anything is open, something is at the head, no later than it.
LEMMA HeadExists ==
  ASSUME DuoTypeOK, NEW i \in Requests, log[i].outcome = "open"
  PROVE  \E h \in Requests : Heads(h) /\ h <= i
<1>1. Unresolved \subseteq Nat /\ i \in Unresolved
  BY EntryTyped DEF Unresolved
<1>2. PICK h \in Unresolved : \A k \in Unresolved : h <= k
  BY <1>1, LeastNumber
<1> QED BY <1>1, <1>2 DEF Heads, Unresolved

-----------------------------------------------------------------------------
LEMMA InitKeeps == Init => DuoInv
<1> SUFFICES ASSUME Init PROVE DuoInv
  OBVIOUS
<1>1. log = <<>> /\ Len(log) = 0 /\ Requests = {}
  BY DEF Init, Requests
<1>2. DuoTypeOK
  BY <1>1, DuoAssumption DEF Init, DuoTypeOK
<1>3. OldestFirst /\ RequestsFit
  BY <1>1 DEF OldestFirst, RequestsFit
<1> QED BY <1>2, <1>3 DEF DuoInv

\* A login leaves the queue, ends its prompt or dies; the log stays.
LEMMA LeavesKeeps ==
  ASSUME DuoInv, NEW p \in Procs, NEW x \in {"idle", "dead"}, UNCHANGED <<log, timely>>,
         turn' = [turn EXCEPT ![p] = x],
         spent' \in [Procs -> 0 .. PromptMax + 1]
  PROVE  DuoInv'
<1>1. /\ turn' \in [Procs -> {"idle", "waiting", "prompting", "dead"}]
      /\ ~Queued(p)'
      /\ \A q \in Procs \ {p} : turn'[q] = turn[q]
  BY DEF DuoInv, DuoTypeOK, Queued
<1>2. \A q \in Procs, i \in Requests : Owns(q, i)' <=> Owns(q, i)
  BY DEF Owns
<1>3. Requests' = Requests
  BY DEF Requests
<1>4. DuoTypeOK'
  BY <1>1, <1>2, <1>3 DEF DuoInv, DuoTypeOK, Queued
<1>5. OldestFirst'
  BY <1>3 DEF DuoInv, OldestFirst
<1>6. RequestsFit'
  <2> SUFFICES ASSUME NEW q \in Procs, NEW i \in Requests, Queued(q)', Owns(q, i)
               PROVE  Fit(q, i)'
    BY <1>2, <1>3 DEF RequestsFit
  <2>1. q # p /\ turn'[q] = turn[q]
    BY <1>1
  <2>2. Fit(q, i)
    BY <2>1 DEF DuoInv, RequestsFit, Queued
  <2> QED BY <2>1, <2>2, <1>3 DEF Fit, Stale
<1> QED BY <1>4, <1>5, <1>6 DEF DuoInv

\* A prompt goes up: its request is the first open one.
LEMMA StartKeeps ==
  ASSUME DuoInv, NEW p \in Procs, Start(p)
  PROVE  DuoInv'
<1>1. /\ turn' \in [Procs -> {"idle", "waiting", "prompting", "dead"}]
      /\ turn[p] = "waiting" /\ turn'[p] = "prompting"
      /\ \A q \in Procs \ {p} : turn'[q] = turn[q]
  BY DEF DuoInv, DuoTypeOK, Start
<1>2. UNCHANGED <<log, timely>> /\ spent' \in [Procs -> 0 .. PromptMax + 1]
  BY DuoAssumption DEF DuoInv, DuoTypeOK, Start
<1>3. \A q \in Procs, i \in Requests : Owns(q, i)' <=> Owns(q, i)
  BY <1>2 DEF Owns
<1>4. Requests' = Requests
  BY <1>2 DEF Requests
<1>5. DuoTypeOK'
  BY <1>1, <1>2, <1>3, <1>4 DEF DuoInv, DuoTypeOK
<1>6. OldestFirst'
  BY <1>2, <1>4 DEF DuoInv, OldestFirst
<1>7. RequestsFit'
  <2> SUFFICES ASSUME NEW q \in Procs, NEW i \in Requests, Queued(q)', Owns(q, i)
               PROVE  Fit(q, i)'
    BY <1>3, <1>4 DEF RequestsFit
  <2>1. Fit(q, i)
    BY <1>1 DEF DuoInv, RequestsFit, Queued
  <2>2. CASE q = p
    <3>1. Heads(i)
      BY <2>2, CurrentIs DEF Start, DuoInv
    <3>2. \A j \in Requests : j < i => log[j].outcome # "open"
      BY <3>1, EntryTyped DEF Heads, Unresolved, DuoInv
    <3> QED BY <1>1, <1>2, <1>4, <2>1, <2>2, <3>2 DEF Fit, Stale
  <2>3. CASE q # p
    BY <1>1, <1>2, <1>4, <2>1, <2>3 DEF Fit, Stale
  <2> QED BY <2>2, <2>3
<1> QED BY <1>5, <1>6, <1>7 DEF DuoInv

-----------------------------------------------------------------------------
\* A new request is the last in the log, and the youngest.
LEMMA RequestKeeps ==
  ASSUME DuoInv, NEW p \in Procs, Request(p)
  PROVE  DuoInv'
<1> DEFINE e == [owner |-> p, age |-> 0, outcome |-> "open"]
<1>0. PICK n \in Nat : n = Len(log)
  BY LenProperties DEF DuoInv, DuoTypeOK
<1>1. e \in Entry
  BY DuoAssumption DEF Entry
<1>2. /\ log' \in Seq(Entry) /\ Len(log') = n + 1 /\ n \in Nat
      /\ log'[n + 1] = e
      /\ \A i \in Requests : log'[i] = log[i]
  BY <1>0, <1>1, AppendProperties DEF Request, DuoInv, DuoTypeOK, Entry, Requests
<1>3. Requests' = Requests \cup {n + 1} /\ n + 1 \notin Requests
  BY <1>0, <1>2 DEF Requests
<1>4. /\ turn' \in [Procs -> {"idle", "waiting", "prompting", "dead"}]
      /\ turn[p] = "idle" /\ turn'[p] = "waiting"
      /\ \A q \in Procs \ {p} : turn'[q] = turn[q]
      /\ UNCHANGED <<spent, timely>>
  BY DEF DuoInv, DuoTypeOK, Request
<1>5. Owns(p, n + 1)' /\ \A i \in Requests : ~Owns(p, i)'
  BY <1>0, <1>2 DEF Owns, Requests
<1>6. \A q \in Procs \ {p}, i \in Requests : Owns(q, i)' <=> Owns(q, i)
  <2> SUFFICES ASSUME NEW q \in Procs \ {p}, NEW i \in Requests
               PROVE  Owns(q, i)' <=> Owns(q, i)
    OBVIOUS
  <2>1. \A j \in i + 1 .. n : j \in Requests /\ log'[j] = log[j]
    BY <1>0, <1>2 DEF Requests
  <2>2. \A j \in i + 1 .. n + 1 : j \in i + 1 .. n \/ j = n + 1
    BY <1>2
  <2>3. log'[n + 1].owner = p
    BY <1>2
  <2> QED BY <1>0, <1>2, <2>1, <2>2, <2>3 DEF Owns, Requests
<1>7. \A q \in Procs \ {p} : ~Owns(q, n + 1)'
  BY <1>2 DEF Owns
<1>8. DuoTypeOK'
  <2>1. Len(log') <= MaxRequests
    BY <1>0, <1>2, DuoAssumption DEF Request
  <2>2. \A q \in Procs : Queued(q)' => \E i \in Requests' : Owns(q, i)'
    BY <1>3, <1>4, <1>5, <1>6 DEF DuoInv, DuoTypeOK, Queued
  <2> QED BY <1>2, <1>4, <2>1, <2>2 DEF DuoInv, DuoTypeOK, Queued, Entry
<1>9. OldestFirst'
  <2> SUFFICES ASSUME NEW i \in Requests', NEW j \in Requests', i < j
               PROVE  log'[j].age <= log'[i].age
    BY DEF OldestFirst
  <2>1. i \in Requests
    BY <1>0, <1>2, <1>3 DEF Requests
  <2>2. CASE j \in Requests
    BY <1>2, <2>1, <2>2 DEF DuoInv, OldestFirst
  <2>3. CASE j = n + 1
    <3>1. log'[j].age = 0 /\ log'[i] = log[i]
      BY <1>2, <2>1, <2>3
    <3>2. log[i].age \in Nat
      BY <2>1, EntryTyped, DuoAssumption DEF DuoInv
    <3> QED BY <3>1, <3>2
  <2> QED BY <1>3, <2>2, <2>3
<1>10. RequestsFit'
  <2> SUFFICES ASSUME NEW q \in Procs, NEW i \in Requests', Queued(q)', Owns(q, i)'
               PROVE  Fit(q, i)'
    BY DEF RequestsFit
  <2>1. CASE i = n + 1
    <3>1. q = p /\ turn'[q] = "waiting"
      BY <1>4, <1>7, <2>1
    <3>2. log'[i].outcome = "open" /\ log'[i].age = 0
      BY <1>2, <2>1
    <3> QED BY <3>1, <3>2, DuoAssumption DEF Fit
  <2>2. CASE i \in Requests
    <3>1. q # p /\ Owns(q, i) /\ Queued(q) /\ turn'[q] = turn[q]
      BY <1>4, <1>5, <1>6, <2>2 DEF Queued
    <3>2. Fit(q, i)
      BY <2>2, <3>1 DEF DuoInv, RequestsFit
    <3>3. \A j \in Requests' : j < i => j \in Requests
      BY <1>0, <1>2, <1>3, <2>2 DEF Requests
    <3> QED BY <1>2, <1>4, <2>2, <3>1, <3>2, <3>3 DEF Fit, Stale
  <2> QED BY <1>3, <2>1, <2>2
<1> QED BY <1>8, <1>9, <1>10 DEF DuoInv

\* A resolution changes the outcome of an open request and nothing else.
LEMMA ResolveSays ==
  ASSUME DuoInv, NEW i \in Requests, NEW how \in {"complete", "timeout"},
         log' = Resolve(i, how)
  PROVE  /\ log' \in Seq(Entry) /\ Len(log') = Len(log) /\ Requests' = Requests
         /\ \A j \in Requests : log'[j].owner = log[j].owner /\ log'[j].age = log[j].age
         /\ \A j \in Requests \ {i} : log'[j] = log[j]
         /\ log'[i].outcome = IF log[i].outcome = "open" THEN how ELSE log[i].outcome
         /\ \A q \in Procs, j \in Requests : Owns(q, j)' <=> Owns(q, j)
<1>1. log \in Seq(Entry) /\ log[i] \in Entry /\ Len(log) \in Nat
  BY EntryTyped, LenProperties DEF DuoInv, DuoTypeOK, Entry
<1>2. [log[i] EXCEPT !.outcome = how] \in Entry
  BY <1>1 DEF Entry
<1>3. log' = log \/ log' = [log EXCEPT ![i] = [log[i] EXCEPT !.outcome = how]]
  BY DEF Resolve
<1>4. log' \in Seq(Entry) /\ Len(log') = Len(log)
  BY <1>1, <1>2, <1>3, ExceptSeq DEF Requests
<1>5. Requests' = Requests
  BY <1>4 DEF Requests
<1>6. \A j \in Requests \ {i} : log'[j] = log[j]
  BY <1>1, <1>3, ExceptSeq DEF Requests
<1>7. /\ log'[i].owner = log[i].owner /\ log'[i].age = log[i].age
      /\ log'[i].outcome = IF log[i].outcome = "open" THEN how ELSE log[i].outcome
  <2>1. CASE log[i].outcome = "open"
    <3>1. log'[i] = [log[i] EXCEPT !.outcome = how]
      BY <1>1, <1>2, <2>1, ExceptSeq DEF Resolve, Requests
    <3> QED BY <1>1, <2>1, <3>1 DEF Entry
  <2>2. CASE log[i].outcome # "open"
    BY <2>2 DEF Resolve
  <2> QED BY <2>1, <2>2
<1>8. \A j \in Requests : log'[j].owner = log[j].owner /\ log'[j].age = log[j].age
  BY <1>6, <1>7
<1>9. \A q \in Procs, j \in Requests : Owns(q, j)' <=> Owns(q, j)
  <2> SUFFICES ASSUME NEW q \in Procs, NEW j \in Requests
               PROVE  Owns(q, j)' <=> Owns(q, j)
    OBVIOUS
  <2>1. \A k \in j + 1 .. Len(log) : k \in Requests
    BY <1>1 DEF Requests
  <2> QED BY <1>4, <1>8, <2>1 DEF Owns
<1> QED BY <1>4, <1>5, <1>6, <1>7, <1>8, <1>9

\* A waiter passes over the head: its process is dead, so nobody waits for it,
\* or it is stale.
LEMMA AdvanceKeeps ==
  ASSUME DuoInv, NEW p \in Procs, Advance(p)
  PROVE  DuoInv'
<1>1. PICK i \in Requests : Heads(i) /\ Overdue(i) /\ log' = Resolve(i, "timeout")
  BY DEF Advance
<1>2. UNCHANGED <<turn, spent, timely>>
  BY DEF Advance
<1>3. /\ log' \in Seq(Entry) /\ Len(log') = Len(log) /\ Requests' = Requests
      /\ \A j \in Requests : log'[j].owner = log[j].owner /\ log'[j].age = log[j].age
      /\ \A j \in Requests \ {i} : log'[j] = log[j]
      /\ log'[i].outcome = IF log[i].outcome = "open" THEN "timeout" ELSE log[i].outcome
      /\ \A q \in Procs, j \in Requests : Owns(q, j)' <=> Owns(q, j)
  BY <1>1, ResolveSays
<1>4. log'[i].outcome = "timeout"
  BY <1>1, <1>3 DEF Heads, Unresolved
<1>5. DuoTypeOK'
  BY <1>2, <1>3 DEF DuoInv, DuoTypeOK, Entry
<1>6. OldestFirst'
  BY <1>3 DEF DuoInv, OldestFirst
<1>7. RequestsFit'
  <2> SUFFICES ASSUME NEW q \in Procs, NEW j \in Requests, Queued(q), Owns(q, j)
               PROVE  Fit(q, j)'
    BY <1>2, <1>3 DEF RequestsFit, Queued
  <2>1. Fit(q, j)
    BY DEF DuoInv, RequestsFit
  <2>2. \A k \in Requests : log[k].outcome # "open" => log'[k].outcome # "open"
    BY <1>3, <1>4
  <2>3. CASE j # i
    BY <1>2, <1>3, <2>1, <2>2, <2>3 DEF Fit, Stale
  <2>4. CASE j = i
    <3>1. Stale(i)
      BY <1>1, <2>4 DEF Overdue, Dead, Owns, Queued
    <3> QED BY <1>2, <1>3, <1>4, <2>1, <2>2, <2>4, <3>1 DEF Fit, Stale
  <2> QED BY <2>3, <2>4
<1> QED BY <1>5, <1>6, <1>7 DEF DuoInv

\* A prompt ends: only its own request is answered, and its process leaves.
LEMMA CompleteKeeps ==
  ASSUME DuoInv, NEW p \in Procs, Complete(p)
  PROVE  DuoInv'
<1> DEFINE i == Current(p)
<1>1. i \in Requests /\ Owns(p, i)
  BY CurrentOwned DEF Complete, DuoInv, Queued
<1>2. /\ log' \in Seq(Entry) /\ Len(log') = Len(log) /\ Requests' = Requests
      /\ \A j \in Requests : log'[j].owner = log[j].owner /\ log'[j].age = log[j].age
      /\ \A j \in Requests \ {i} : log'[j] = log[j]
      /\ log'[i].outcome = IF log[i].outcome = "open" THEN "complete" ELSE log[i].outcome
      /\ \A q \in Procs, j \in Requests : Owns(q, j)' <=> Owns(q, j)
  BY <1>1, ResolveSays DEF Complete
<1> HIDE DEF i
<1>3. /\ turn' \in [Procs -> {"idle", "waiting", "prompting", "dead"}]
      /\ ~Queued(p)'
      /\ \A q \in Procs \ {p} : turn'[q] = turn[q]
      /\ timely' = timely
  BY DEF Complete, DuoInv, DuoTypeOK, Queued
<1>4. spent' \in [Procs -> 0 .. PromptMax + 1]
  BY DuoAssumption DEF Complete, DuoInv, DuoTypeOK
<1>5. DuoTypeOK'
  BY <1>2, <1>3, <1>4 DEF DuoInv, DuoTypeOK, Entry, Queued
<1>6. OldestFirst'
  BY <1>2 DEF DuoInv, OldestFirst
<1>7. RequestsFit'
  <2> SUFFICES ASSUME NEW q \in Procs, NEW j \in Requests, Queued(q)', Owns(q, j)
               PROVE  Fit(q, j)'
    BY <1>2 DEF RequestsFit
  <2>1. q # p /\ turn'[q] = turn[q] /\ Queued(q)
    BY <1>3 DEF Queued
  <2>2. Fit(q, j)
    BY <2>1 DEF DuoInv, RequestsFit
  <2>3. j # i
    BY <1>1, <2>1 DEF Owns
  <2>4. \A k \in Requests : log[k].outcome # "open" => log'[k].outcome # "open"
    BY <1>2
  <2> QED BY <1>2, <1>3, <2>1, <2>2, <2>3, <2>4 DEF Fit, Stale
<1> QED BY <1>5, <1>6, <1>7 DEF DuoInv

-----------------------------------------------------------------------------
\* What a tick does to an age, and that it keeps their order.
LEMMA OlderFacts ==
  ASSUME NEW a \in 0 .. MaxWait, NEW b \in 0 .. MaxWait, a <= b
  PROVE  /\ Older(a) \in 0 .. MaxWait
         /\ a <= Older(a)
         /\ Older(a) <= a + 1
         /\ Older(a) <= Older(b)
BY DuoAssumption DEF Older

\* In a timely run nobody waits with an open request of the stale age when a
\* tick comes: the head is at least as old, so a poll would pass it over.
LEMMA NoneOpenAtStaleAge ==
  ASSUME DuoInv, \A p \in Procs : OnTime(p),
         NEW p \in Procs, NEW i \in Requests, turn[p] = "waiting", Owns(p, i),
         log[i].outcome = "open"
  PROVE  log[i].age < StaleAge
<1> SUFFICES ASSUME log[i].age >= StaleAge PROVE FALSE
  BY EntryTyped, DuoAssumption DEF DuoInv
<1>1. PICK h \in Requests : Heads(h) /\ h <= i
  BY HeadExists DEF DuoInv
<1>2. Current(p) = i
  BY CurrentIs DEF DuoInv
<1>3. Stale(h)
  <2>1. h = i \/ h < i
    BY <1>1, EntryTyped DEF DuoInv
  <2>2. log[h].age >= log[i].age
    BY <2>1, EntryTyped, DuoAssumption DEF DuoInv, OldestFirst
  <2>3. log[h].age \in Int /\ log[i].age \in Int /\ StaleAge \in Int
    BY EntryTyped, DuoAssumption DEF DuoInv
  <2> QED BY <2>2, <2>3 DEF Stale
<1>4. PollDue(p)
  BY <1>1, <1>3 DEF PollDue, Overdue
<1> QED BY <1>4 DEF OnTime

\* Time passes: ages grow together.
LEMMA TickKeeps ==
  ASSUME DuoInv, Tick
  PROVE  DuoInv'
<1>1. log \in Seq(Entry) /\ Len(log) \in Nat /\ UNCHANGED <<turn, timely>>
  BY LenProperties DEF DuoInv, DuoTypeOK, Entry, Tick
<1>2. \A i \in Requests : [log[i] EXCEPT !.age = Older(@)] \in Entry
  BY EntryTyped, OlderFacts DEF DuoInv, Entry
<1>3. log' = [i \in 1 .. Len(log) |-> [log[i] EXCEPT !.age = Older(@)]]
  BY DEF Tick, Requests
<1>4. log' \in Seq(Entry) /\ Len(log') = Len(log)
  BY <1>1, <1>2, <1>3, IsASeq, LenProperties DEF Requests
<1>5. Requests' = Requests
  BY <1>4 DEF Requests
<1>6. \A i \in Requests : /\ log'[i].owner = log[i].owner
                          /\ log'[i].outcome = log[i].outcome
                          /\ log'[i].age = Older(log[i].age)
  BY <1>3, EntryTyped DEF Requests, DuoInv, Entry
<1>7. \A q \in Procs, j \in Requests : Owns(q, j)' <=> Owns(q, j)
  <2> SUFFICES ASSUME NEW q \in Procs, NEW j \in Requests
               PROVE  Owns(q, j)' <=> Owns(q, j)
    OBVIOUS
  <2>1. \A k \in j + 1 .. Len(log) : k \in Requests
    BY <1>1 DEF Requests
  <2> QED BY <1>4, <1>6, <2>1 DEF Owns
<1>8. spent' \in [Procs -> 0 .. PromptMax + 1]
  BY DuoAssumption DEF Tick, DuoInv, DuoTypeOK
<1>9. DuoTypeOK'
  BY <1>1, <1>4, <1>5, <1>7, <1>8 DEF DuoInv, DuoTypeOK, Entry
<1>10. OldestFirst'
  <2> SUFFICES ASSUME NEW i \in Requests, NEW j \in Requests, i < j
               PROVE  log'[j].age <= log'[i].age
    BY <1>5 DEF OldestFirst
  <2>1. log[j].age <= log[i].age
    BY DEF DuoInv, OldestFirst
  <2> QED BY <1>6, <2>1, EntryTyped, OlderFacts DEF DuoInv
<1>11. RequestsFit'
  <2> SUFFICES ASSUME NEW q \in Procs, NEW i \in Requests, Queued(q), Owns(q, i)
               PROVE  Fit(q, i)'
    BY <1>1, <1>5, <1>7 DEF RequestsFit, Queued
  <2>1. Fit(q, i)
    BY DEF DuoInv, RequestsFit
  <2>2. /\ log[i].age \in 0 .. MaxWait /\ log'[i].age \in 0 .. MaxWait
        /\ log[i].age <= log'[i].age /\ log'[i].age <= log[i].age + 1
        /\ log'[i].outcome = log[i].outcome
    BY <1>6, EntryTyped, OlderFacts DEF DuoInv
  <2>3. Stale(i) => Stale(i)'
    BY <2>2, DuoAssumption DEF Stale
  <2>4. timely /\ turn[q] = "waiting" /\ log'[i].age > StaleAge => log[i].outcome = "timeout"
    <3> SUFFICES ASSUME timely, turn[q] = "waiting", log'[i].age > StaleAge,
                        log[i].outcome = "open"
                 PROVE  FALSE
      BY <2>1, EntryTyped DEF DuoInv, Fit
    <3>1. log[i].age < StaleAge
      BY NoneOpenAtStaleAge DEF Tick
    <3> QED BY <2>2, <3>1, DuoAssumption
  <2> QED BY <1>1, <1>5, <1>6, <2>1, <2>2, <2>3, <2>4 DEF Fit
<1> QED BY <1>9, <1>10, <1>11 DEF DuoInv

LEMMA StutterKeeps == DuoInv /\ UNCHANGED vars => DuoInv'
<1> SUFFICES ASSUME DuoInv, UNCHANGED vars PROVE DuoInv'
  OBVIOUS
<1>1. Requests' = Requests /\ \A q \in Procs, i \in Requests : Owns(q, i)' <=> Owns(q, i)
  BY DEF vars, Requests, Owns
<1>2. \A q \in Procs, i \in Requests : Fit(q, i) => Fit(q, i)'
  BY <1>1 DEF vars, Fit, Stale
<1>3. DuoTypeOK' /\ OldestFirst' /\ RequestsFit'
  BY <1>1, <1>2 DEF DuoInv, vars, DuoTypeOK, OldestFirst, RequestsFit, Queued
<1> QED BY <1>3 DEF DuoInv

LEMMA StepKeeps == DuoInv /\ [Next]_vars => DuoInv'
<1> SUFFICES ASSUME DuoInv, Next PROVE DuoInv'
  BY StutterKeeps
<1>1. ASSUME NEW p \in Procs, GiveUp(p) \/ Abort(p) \/ Die(p)
      PROVE  DuoInv'
  <2>1. PICK x \in {"idle", "dead"} : turn' = [turn EXCEPT ![p] = x]
    BY <1>1 DEF GiveUp, Abort, Die, Leave
  <2>2. UNCHANGED <<log, timely>>
    BY <1>1 DEF GiveUp, Abort, Die, Leave
  <2>3. spent' \in [Procs -> 0 .. PromptMax + 1]
    BY <1>1, DuoAssumption DEF GiveUp, Abort, Die, Leave, DuoInv, DuoTypeOK
  <2> QED BY <2>1, <2>2, <2>3, LeavesKeeps
<1> QED BY <1>1, RequestKeeps, StartKeeps, AdvanceKeeps, CompleteKeeps, TickKeeps
        DEF Next, Poll

LEMMA DuoInvariant == DuoSpec => []DuoInv
BY InitKeeps, StepKeeps, PTL DEF DuoSpec

-----------------------------------------------------------------------------
\* The types, and that a login in the queue has its request in the log.
THEOREM DuoTypeCorrect == DuoSpec => []DuoTypeOK
<1>1. DuoInv => DuoTypeOK
  BY DEF DuoInv
<1> QED BY <1>1, DuoInvariant, PTL

\* The phone shows one prompt, or the earlier was timed out by a waiter
\* (waitForDuoTurn, duo-queue.ts).
THEOREM OnePrompt == DuoSpec => []OnePromptUnlessTimedOut
<1>1. DuoInv => OnePromptUnlessTimedOut
  <2> SUFFICES ASSUME DuoInv, NEW p \in Procs, NEW q \in Procs,
                      turn[p] = "prompting", turn[q] = "prompting", Current(p) < Current(q)
               PROVE  log[Current(p)].outcome = "timeout"
    BY DEF OnePromptUnlessTimedOut
  <2>1. /\ Current(p) \in Requests /\ Owns(p, Current(p))
        /\ Current(q) \in Requests /\ Owns(q, Current(q))
    BY CurrentOwned DEF DuoInv, Queued
  <2>2. Fit(p, Current(p)) /\ Fit(q, Current(q))
    BY <2>1 DEF DuoInv, RequestsFit, Queued
  <2>3. log[Current(p)].outcome \in {"open", "complete", "timeout"}
    BY <2>1, EntryTyped DEF DuoInv
  <2> QED BY <2>1, <2>2, <2>3 DEF Fit
<1> QED BY <1>1, DuoInvariant, PTL

\* Nobody is overtaken while its request is good: it was passed over as stale.
THEOREM InOrder == DuoSpec => []FirstComeFirstServed
<1>1. DuoInv => FirstComeFirstServed
  <2> SUFFICES ASSUME DuoInv, NEW p \in Procs, NEW q \in Procs,
                      turn[p] = "prompting", turn[q] = "waiting", Current(q) < Current(p)
               PROVE  log[Current(q)].outcome = "timeout" /\ Stale(Current(q))
    BY DEF FirstComeFirstServed
  <2>1. /\ Current(p) \in Requests /\ Owns(p, Current(p))
        /\ Current(q) \in Requests /\ Owns(q, Current(q))
    BY CurrentOwned DEF DuoInv, Queued
  <2>2. Fit(p, Current(p)) /\ Fit(q, Current(q))
    BY <2>1 DEF DuoInv, RequestsFit, Queued
  <2>3. log[Current(q)].outcome \in {"open", "complete", "timeout"}
    BY <2>1, EntryTyped DEF DuoInv
  <2> QED BY <2>1, <2>2, <2>3 DEF Fit
<1> QED BY <1>1, DuoInvariant, PTL

\* In a timely run a request is resolved or has its turn within the stale age,
\* however many are ahead of it.
THEOREM TurnInTime == DuoSpec => []TurnWithinStaleAge
<1>1. DuoInv => TurnWithinStaleAge
  <2> SUFFICES ASSUME DuoInv, timely, NEW p \in Procs, turn[p] = "waiting",
                      log[Current(p)].age > StaleAge
               PROVE  log[Current(p)].outcome = "timeout"
    BY DEF TurnWithinStaleAge
  <2>1. Current(p) \in Requests /\ Owns(p, Current(p))
    BY CurrentOwned DEF DuoInv, Queued
  <2> QED BY <2>1 DEF DuoInv, RequestsFit, Queued, Fit
<1> QED BY <1>1, DuoInvariant, PTL
=============================================================================
