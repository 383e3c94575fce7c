--------------------------- MODULE JsonlLockProofs ---------------------------
(***************************************************************************)
(* Theorems about JsonlLock for any processes, any of which may die.       *)
(*                                                                         *)
(* The inductive invariant adds to what is claimed the reason why nobody   *)
(* reclaims a lock in a smooth run: the file belongs to a process that is  *)
(* alive, it is not old, nobody has seen an old one, and so nobody is      *)
(* about to unlink another's.                                              *)
(***************************************************************************)
EXTENDS JsonlLock, TLAPS

\* The file of a smooth run is that of the process inside.
Undisturbed ==
  /\ file # NoFile => pc[file.by] \in Holding /\ ~file.old
  /\ \A p \in Procs : /\ pc[p] \in Holding => file # NoFile /\ file.by = p
                      /\ pc[p] # "unlink"
                      /\ ~sawOld[p]

LockInv == LockTypeOK /\ (smooth => Undisturbed)

\* The lock file is a record or nothing.
LEMMA FileTypes ==
  ASSUME LockTypeOK
  PROVE  /\ file # NoFile => file \in LockFile /\ file.by \in Procs
         /\ pc \in [Procs -> Steps] /\ sawOld \in [Procs -> BOOLEAN]
         /\ NoFile \notin LockFile
BY LockAssumption DEF LockTypeOK, LockFile

LEMMA LockInvInit == Init => LockInv
BY DEF Init, LockInv, LockTypeOK, Undisturbed, Steps, Holding

\* A step of p that leaves the file and the ages seen alone and takes p from one
\* place outside the lock to another, or from one inside to the next.
LEMMA MoveOn ==
  ASSUME LockInv, NEW p \in Procs, NEW step \in Steps, Goto(p, step),
         UNCHANGED <<file, sawOld, smooth>>, pc[p] # "dead", step # "unlink",
         pc[p] \in Holding <=> step \in Holding, pc[p] # "sign"
  PROVE  LockInv'
<1>1. pc' \in [Procs -> Steps] /\ pc'[p] = step
      /\ \A q \in Procs \ {p} : pc'[q] = pc[q]
  BY FileTypes DEF LockInv, Goto
<1>2. LockTypeOK'
  BY <1>1, FileTypes DEF LockInv, LockTypeOK
<1>3. \A q \in Procs : pc'[q] \in Holding <=> pc[q] \in Holding
  BY <1>1
<1>4. ASSUME smooth PROVE Undisturbed'
  <2>1. Undisturbed
    BY <1>4 DEF LockInv
  <2>2. file # NoFile => pc'[file.by] \in Holding /\ ~file.old
    BY <1>3, <2>1, FileTypes DEF LockInv, Undisturbed
  <2>3. \A q \in Procs : pc'[q] # "unlink" /\ ~sawOld[q]
    BY <1>1, <2>1 DEF Undisturbed
  <2> QED BY <1>3, <2>1, <2>2, <2>3 DEF Undisturbed
<1> QED BY <1>2, <1>4 DEF LockInv

LEMMA CreateKeeps ==
  ASSUME LockInv, NEW p \in Procs, Create(p)
  PROVE  LockInv'
<1>1. CASE file # NoFile
  <2>1. Goto(p, "stat") /\ UNCHANGED <<file, sawOld, smooth>> /\ pc[p] = "create"
    BY <1>1 DEF Create
  <2> QED BY <2>1, MoveOn DEF Steps, Holding
<1>2. CASE file = NoFile
  <2> DEFINE mine == [by |-> p, signed |-> FALSE, old |-> FALSE]
  <2>1. mine \in LockFile /\ mine.by = p /\ ~mine.old /\ mine # NoFile
    <3>1. mine \in LockFile /\ mine.by = p /\ ~mine.old
      BY DEF LockFile
    <3>2. mine # NoFile
      BY <3>1, LockAssumption DEF LockFile
    <3> QED BY <3>1, <3>2
  <2>2. /\ file' = mine /\ sawOld' = sawOld /\ smooth' = smooth
        /\ pc' = [pc EXCEPT ![p] = "sign"]
    BY <1>2 DEF Create, Goto
  <2> HIDE DEF mine
  <2>3. pc' \in [Procs -> Steps] /\ pc'[p] = "sign" /\ \A q \in Procs \ {p} : pc'[q] = pc[q]
    BY <2>2, FileTypes DEF LockInv, Steps
  <2>4. LockTypeOK'
    BY <2>1, <2>2, <2>3 DEF LockInv, LockTypeOK
  <2>5. smooth' => Undisturbed'
    BY <1>2, <2>1, <2>2, <2>3 DEF LockInv, Undisturbed, Holding
  <2> QED BY <2>4, <2>5 DEF LockInv
<1> QED BY <1>1, <1>2

LEMMA SignKeeps ==
  ASSUME LockInv, NEW p \in Procs, Sign(p)
  PROVE  LockInv'
<1>1. /\ pc[p] = "sign" /\ pc' = [pc EXCEPT ![p] = "body"] /\ sawOld' = sawOld
      /\ smooth' = smooth
  BY DEF Sign, Goto
<1>2. pc' \in [Procs -> Steps] /\ pc'[p] = "body" /\ \A q \in Procs \ {p} : pc'[q] = pc[q]
  BY <1>1, FileTypes DEF LockInv, Steps
<1>3. CASE file # NoFile /\ file.by = p
  <2>1. /\ file' \in LockFile /\ file'.by = p /\ file'.signed /\ file'.old = file.old
        /\ file' # NoFile
    <3>1. file' = [file EXCEPT !.signed = TRUE] /\ file \in LockFile
      BY <1>3, FileTypes DEF Sign, LockInv
    <3> QED BY <1>3, <3>1, LockAssumption DEF LockFile
  <2>2. LockTypeOK'
    BY <1>1, <1>2, <2>1 DEF LockInv, LockTypeOK
  <2>3. smooth' => Undisturbed'
    BY <1>1, <1>2, <1>3, <2>1 DEF LockInv, Undisturbed, Holding
  <2> QED BY <2>2, <2>3 DEF LockInv
<1>4. CASE ~(file # NoFile /\ file.by = p)
  <2>1. file' = file
    BY <1>4 DEF Sign
  <2>2. LockTypeOK'
    BY <1>1, <1>2, <1>4, <2>1, FileTypes DEF LockInv, LockTypeOK
  <2>3. smooth' => Undisturbed'
    BY <1>1, <1>2, <1>4, <2>1, FileTypes DEF LockInv, Undisturbed, Holding
  <2> QED BY <2>2, <2>3 DEF LockInv
<1> QED BY <1>3, <1>4

\* The holder's own unlink.  Outside a smooth run it may hit another's file, as
\* may the unlink of a process that decided to reclaim.
LEMMA RemoveKeeps ==
  ASSUME LockInv, NEW p \in Procs, Release(p) \/ Unlink(p)
  PROVE  LockInv'
<1>1. PICK step \in {"idle", "create"} : pc' = [pc EXCEPT ![p] = step]
  BY DEF Release, Unlink, Goto
<1>2. /\ file' = NoFile /\ sawOld' = sawOld /\ smooth' = smooth
      /\ pc[p] \in {"release", "unlink"}
  BY DEF Release, Unlink
<1>3. pc' \in [Procs -> Steps] /\ pc'[p] = step /\ \A q \in Procs \ {p} : pc'[q] = pc[q]
  BY <1>1, FileTypes DEF LockInv, Steps
<1>4. LockTypeOK'
  BY <1>2, <1>3 DEF LockInv, LockTypeOK
<1>5. smooth' => Undisturbed'
  <2>1. ASSUME smooth, NEW q \in Procs \ {p} PROVE pc[q] \notin Holding
    BY <1>2, <2>1 DEF LockInv, Undisturbed, Holding
  <2> QED
    BY <1>2, <1>3, <2>1 DEF LockInv, Undisturbed, Holding
<1> QED BY <1>4, <1>5 DEF LockInv

LEMMA StatKeeps ==
  ASSUME LockInv, NEW p \in Procs, Stat(p)
  PROVE  LockInv'
<1>1. CASE file = NoFile
  <2>1. Goto(p, "create") /\ UNCHANGED <<file, sawOld, smooth>> /\ pc[p] = "stat"
    BY <1>1 DEF Stat
  <2> QED BY <2>1, MoveOn DEF Steps, Holding
<1>2. CASE file # NoFile
  <2>1. /\ pc' = [pc EXCEPT ![p] = "read"] /\ sawOld' = [sawOld EXCEPT ![p] = file.old]
        /\ file' = file /\ smooth' = smooth /\ pc[p] = "stat"
    BY <1>2 DEF Stat, Goto
  <2>2. pc' \in [Procs -> Steps] /\ pc'[p] = "read" /\ \A q \in Procs \ {p} : pc'[q] = pc[q]
    BY <2>1, FileTypes DEF LockInv, Steps
  <2>3. file.old \in BOOLEAN /\ file.by \in Procs
    BY <1>2, FileTypes DEF LockInv, LockFile
  <2>4. sawOld' \in [Procs -> BOOLEAN] /\ (smooth => \A q \in Procs : ~sawOld'[q])
    BY <1>2, <2>1, <2>3, FileTypes DEF LockInv, Undisturbed
  <2>5. LockTypeOK'
    BY <2>1, <2>2, <2>3, <2>4 DEF LockInv, LockTypeOK
  <2>6. smooth' => Undisturbed'
    BY <2>1, <2>2, <2>3, <2>4 DEF LockInv, Undisturbed, Holding
  <2> QED BY <2>5, <2>6 DEF LockInv
<1> QED BY <1>1, <1>2

LEMMA ReadKeeps ==
  ASSUME LockInv, NEW p \in Procs, Read(p)
  PROVE  LockInv'
<1>0. pc[p] = "read" /\ UNCHANGED <<file, sawOld, smooth>>
  BY DEF Read
<1>1. CASE file # NoFile /\ Reclaimable(p)
  <2>1. ~smooth
    BY <1>1, FileTypes DEF LockInv, Undisturbed, Reclaimable, Holding
  <2>2. pc' = [pc EXCEPT ![p] = "unlink"]
    BY <1>1 DEF Read, Goto
  <2>3. pc' \in [Procs -> Steps] /\ \A q \in Procs \ {p} : pc'[q] = pc[q]
    BY <2>2, FileTypes DEF LockInv, Steps
  <2>4. LockTypeOK'
    BY <1>0, <2>3, FileTypes DEF LockInv, LockTypeOK
  <2> QED BY <1>0, <2>1, <2>4 DEF LockInv
<1>2. CASE ~(file # NoFile /\ Reclaimable(p))
  <2>1. Goto(p, "create")
    BY <1>2 DEF Read
  <2> QED BY <1>0, <2>1, MoveOn DEF Steps, Holding
<1> QED BY <1>1, <1>2

\* Whoever dies outside the lock leaves nothing behind.
LEMMA DieKeeps ==
  ASSUME LockInv, NEW p \in Procs, Die(p)
  PROVE  LockInv'
<1>1. /\ pc' = [pc EXCEPT ![p] = "dead"] /\ file' = file /\ sawOld' = sawOld
      /\ smooth' = (smooth /\ pc[p] \notin Holding)
  BY DEF Die, Goto
<1>2. pc' \in [Procs -> Steps] /\ pc'[p] = "dead" /\ \A q \in Procs \ {p} : pc'[q] = pc[q]
  BY <1>1, FileTypes DEF LockInv, Steps
<1>3. LockTypeOK'
  BY <1>1, <1>2, FileTypes DEF LockInv, LockTypeOK
<1>4. smooth' => Undisturbed'
  BY <1>1, <1>2, FileTypes DEF LockInv, Undisturbed, Holding
<1> QED BY <1>3, <1>4 DEF LockInv

LEMMA GrowOldKeeps ==
  ASSUME LockInv, GrowOld
  PROVE  LockInv'
<1>1. /\ file' \in LockFile /\ file'.by = file.by /\ file'.signed = file.signed
      /\ pc' = pc /\ sawOld' = sawOld /\ smooth' = FALSE
  <2>1. file' = [file EXCEPT !.old = TRUE] /\ file \in LockFile
    BY FileTypes DEF GrowOld, LockInv
  <2> QED BY <2>1 DEF GrowOld, LockFile
<1>2. LockTypeOK'
  BY <1>1, FileTypes DEF GrowOld, LockInv, LockTypeOK
<1> QED BY <1>1, <1>2 DEF LockInv

-----------------------------------------------------------------------------
LEMMA LockInvStep == LockInv /\ [Next]_vars => LockInv'
<1> SUFFICES ASSUME LockInv, [Next]_vars PROVE LockInv'
  OBVIOUS
<1>1. ASSUME NEW p \in Procs, Begin(p) \/ Body(p) \/ TimeOut(p) PROVE LockInv'
  BY <1>1, MoveOn DEF Begin, Body, TimeOut, Steps, Holding
<1>2. ASSUME NEW p \in Procs, Step(p) PROVE LockInv'
  <2>1. CASE Body(p)
    BY <1>1, <2>1
  <2> QED
    BY <1>2, <2>1, CreateKeeps, SignKeeps, RemoveKeeps, StatKeeps, ReadKeeps DEF Step
<1>3. ASSUME NEW p \in Procs, Die(p) PROVE LockInv'
  BY <1>3, DieKeeps
<1>4. CASE GrowOld
  BY <1>4, GrowOldKeeps
<1>5. CASE UNCHANGED vars
  BY <1>5 DEF vars, LockInv, LockTypeOK, Undisturbed
<1> QED BY <1>1, <1>2, <1>3, <1>4, <1>5 DEF Next

\* The lock keeps its inductive invariant, for any processes.
THEOREM LockInvariance == LockSpec => []LockInv
<1> QED BY LockInvInit, LockInvStep, PTL DEF LockSpec

\* In a smooth run nobody unlinks the file of a process that is inside.
THEOREM HolderKeeps == LockSpec => []HolderKeepsFile
<1>1. LockInv => HolderKeepsFile
  BY DEF LockInv, Undisturbed, HolderKeepsFile
<1> QED BY <1>1, LockInvariance, PTL

\* In a smooth run two processes are never inside at once, however many append.
THEOREM MutualExclusion == LockSpec => []Excludes
<1>1. LockInv => Excludes
  BY DEF LockInv, Undisturbed, Excludes
<1> QED BY <1>1, LockInvariance, PTL

\* Types, and: a lock file without a pid has a creator that is about to write it
\* or died before it could, in every run, smooth or not.
THEOREM LockTypes == LockSpec => []LockTypeOK
<1>1. LockInv => LockTypeOK
  BY DEF LockInv
<1> QED BY <1>1, LockInvariance, PTL
=============================================================================
