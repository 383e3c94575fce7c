------------------------------ MODULE JsonlLock ------------------------------
(***************************************************************************)
(* withExclusiveFileLock, src/src/tracker/jsonl-lock.ts: the lock file     *)
(* beside every JSONL file that daemons and dashboard append to.           *)
(*                                                                         *)
(* The lock is held by whoever created the file (open with 'wx'); its pid  *)
(* is written into it in a second system call and the holder unlinks the   *)
(* path when it is done.  A process that finds the file there looks at it, *)
(* unlinks it if its owner is dead (or if it has had no pid for ten        *)
(* seconds), and tries again until its deadline.                           *)
(*                                                                         *)
(* Each system call is a step, since other processes run between two of    *)
(* them: create, write the pid, stat, read, unlink.  A process is          *)
(* synchronous throughout.  The body, clocks and the ten milliseconds      *)
(* between two tries are abstracted; the deadline is a choice (TimeOut).   *)
(***************************************************************************)
EXTENDS Naturals, FiniteSets

CONSTANTS
  Procs,     \* the processes that append to the file
  Mortal,    \* those that may die
  NoFile     \* no lock file at the path

ASSUME LockAssumption ==
  /\ Mortal \subseteq Procs
  /\ NoFile \notin [by : Procs, signed : BOOLEAN, old : BOOLEAN]

VARIABLES
  file,      \* the lock file: who created it, whether its pid is in it, and
             \* whether it is older than STALE_LOCK_MS
  pc,        \* pc[p]: the next system call of p
  sawOld,    \* sawOld[p]: what p's stat said of the file's age
  smooth     \* history: so far no process has died holding the lock, and
             \* none has held it for STALE_LOCK_MS

vars == <<file, pc, sawOld, smooth>>

LockFile == [by : Procs, signed : BOOLEAN, old : BOOLEAN]
Steps == {"idle", "create", "sign", "body", "release", "stat", "read",
          "unlink", "dead"}
Holding == {"sign", "body", "release"}   \* between create and the own unlink

Goto(p, step) == pc' = [pc EXCEPT ![p] = step]

----------------------------------------------------------------------------
Init ==
  /\ file = NoFile
  /\ pc = [p \in Procs |-> "idle"]
  /\ sawOld = [p \in Procs |-> FALSE]
  /\ smooth = TRUE

\* withExclusiveFileLock is called.
Begin(p) ==
  /\ pc[p] = "idle"
  /\ Goto(p, "create")
  /\ UNCHANGED <<file, sawOld, smooth>>

\* A plausible bug: open with 'w', which takes over an existing file.
CreateOrTakeOver(p) ==
  /\ pc[p] = "create"
  /\ file' = [by |-> p, signed |-> FALSE, old |-> FALSE]
  /\ Goto(p, "sign")
  /\ UNCHANGED <<sawOld, smooth>>
\* openSync(lockPath, "wx"): creates the file, or fails with EEXIST.
Create(p) ==
  /\ pc[p] = "create"
  /\ IF file = NoFile
       THEN /\ file' = [by |-> p, signed |-> FALSE, old |-> FALSE]
            /\ Goto(p, "sign")
       ELSE Goto(p, "stat") /\ UNCHANGED file
  /\ UNCHANGED <<sawOld, smooth>>

\* writeSync(fd, pid): into the file p created, if the path still names it.
Sign(p) ==
  /\ pc[p] = "sign"
  /\ file' = IF file # NoFile /\ file.by = p
               THEN [file EXCEPT !.signed = TRUE] ELSE file
  /\ Goto(p, "body")
  /\ UNCHANGED <<sawOld, smooth>>

\* The body returns or throws; the lock is released either way.
Body(p) ==
  /\ pc[p] = "body"
  /\ Goto(p, "release")
  /\ UNCHANGED <<file, sawOld, smooth>>

\* unlinkSync(lockPath): whatever file is at the path, ENOENT ignored.
Release(p) ==
  /\ pc[p] = "release"
  /\ file' = NoFile
  /\ Goto(p, "idle")
  /\ UNCHANGED <<sawOld, smooth>>

\* removeDeadOrStaleLock: statSync, then readFileSync and the pid check, then
\* unlinkSync.  ENOENT in any of them means: try to create again.
Stat(p) ==
  /\ pc[p] = "stat"
  /\ IF file = NoFile THEN Goto(p, "create") /\ UNCHANGED sawOld
     ELSE Goto(p, "read") /\ sawOld' = [sawOld EXCEPT ![p] = file.old]
  /\ UNCHANGED <<file, smooth>>

\* A plausible bug: a lock whose pid is not there yet counts as dead.
ReclaimableUnsigned(p) == ~file.signed \/ pc[file.by] = "dead"
\* A plausible bug: a lock without a pid is never reclaimed.
ReclaimableSignedOnly(p) == file.signed /\ pc[file.by] = "dead"
Reclaimable(p) ==
  \/ file.signed /\ pc[file.by] = "dead"
  \/ ~file.signed /\ sawOld[p]

Read(p) ==
  /\ pc[p] = "read"
  /\ Goto(p, IF file # NoFile /\ Reclaimable(p) THEN "unlink" ELSE "create")
  /\ UNCHANGED <<file, sawOld, smooth>>

Unlink(p) ==
  /\ pc[p] = "unlink"
  /\ file' = NoFile
  /\ Goto(p, "create")
  /\ UNCHANGED <<sawOld, smooth>>

\* The deadline passes: "Timed out waiting for ...", nothing is appended.  It is
\* looked at only after a file that is not to be removed was found in place.
TimeOut(p) ==
  /\ pc[p] = "read"
  /\ file # NoFile /\ ~Reclaimable(p)
  /\ Goto(p, "idle")
  /\ UNCHANGED <<file, sawOld, smooth>>

\* A process is killed between two system calls.
Die(p) ==
  /\ p \in Mortal /\ pc[p] # "dead"
  /\ Goto(p, "dead")
  /\ smooth' = (smooth /\ pc[p] \notin Holding)
  /\ UNCHANGED <<file, sawOld>>

\* Ten seconds pass.  A live process writes its pid sooner than that.
GrowOld ==
  /\ file # NoFile
  /\ file.signed \/ pc[file.by] # "sign"
  /\ file' = [file EXCEPT !.old = TRUE]
  /\ smooth' = FALSE
  /\ UNCHANGED <<pc, sawOld>>

Step(p) ==
  \/ Create(p) \/ Sign(p) \/ Body(p) \/ Release(p)
  \/ Stat(p) \/ Read(p) \/ Unlink(p)

Next ==
  \/ \E p \in Procs : Begin(p) \/ Step(p) \/ TimeOut(p) \/ Die(p)
  \/ GrowOld

\* Processes that are alive run and keep appending; time passes.
Fairness ==
  /\ \A p \in Procs : WF_vars(Begin(p)) /\ WF_vars(Step(p))
  /\ WF_vars(GrowOld)

LockSpec == Init /\ [][Next]_vars
FairLockSpec == LockSpec /\ Fairness

----------------------------------------------------------------------------
\* The variables have their types, and a lock file without a pid is one whose
\* creator is about to write it or died before it could.
LockTypeOK ==
  /\ file \in LockFile \cup {NoFile}
  /\ pc \in [Procs -> Steps]
  /\ sawOld \in [Procs -> BOOLEAN]
  /\ smooth \in BOOLEAN
  /\ file # NoFile /\ ~file.signed => pc[file.by] \in {"sign", "dead"}

\* The bodies of two processes never overlap, and nobody takes a file from
\* under its holder, as long as no process has died between creating its lock
\* and removing it, or has taken ten seconds from the one to the other.
Excludes ==
  smooth => \A p, q \in Procs :
                 pc[p] \in Holding /\ pc[q] \in Holding => p = q
\* A lock file is only ever removed by its holder while its holder lives.
HolderKeepsFile ==
  smooth => \A p \in Procs :
                 pc[p] \in Holding => file # NoFile /\ file.by = p

\* A dead owner's lock is reclaimed while anybody still appends, whether the
\* owner died before or after writing its pid.
DeadOwnerReclaimed ==
  \A p \in Mortal :
    (pc[p] = "dead" /\ file # NoFile /\ file.by = p)
      ~> (file = NoFile \/ file.by # p)

\* What jsonl-lock.ts:47 calls it: a "Cross-process critical section".
CriticalSection ==
  \A p, q \in Procs : pc[p] = "body" /\ pc[q] = "body" => p = q
=============================================================================
