------------------------------- MODULE RowLog -------------------------------
(***************************************************************************)
(* One JSONL row file of the tracker, its SQLite projection, deletion and  *)
(* compaction: src/src/tracker/state/{jsonl-source,apply,rebuild,runtime}, *)
(* jsonl-recovery.ts, deletions/store.ts, compaction.ts, and the signal    *)
(* handler of tracked-workflow.ts.                                         *)
(*                                                                         *)
(* The file is the truth.  A writer takes the append lock, repairs the     *)
(* tail and notes where the file ends, appends its row there and then, in  *)
(* a step that may fail or never come, applies it to the projection.  A    *)
(* crash in the middle of an append leaves a torn tail.  The handler of    *)
(* SIGINT and SIGTERM appends its row without the lock and without a       *)
(* repair, and rebuilds.  A rebuild applies the rows behind its            *)
(* checkpoint.  A deletion is a durable tombstone, then an update of the   *)
(* projection.  Compaction rewrites the file without the rows of deleted   *)
(* runs: each durable write of it is a step, and it may crash after any.   *)
(*                                                                         *)
(* A row is the number it was emitted with, which is also its timestamp;   *)
(* rows have unit length, so a row's byte offset is its place in the file. *)
(* A row appended to a torn tail makes one line with it that no reader can *)
(* parse: that line has the row's number and is garbled.  The death of a   *)
(* holder frees the append lock (JsonlLock is the lock itself).  A hash of *)
(* a file is its content.                                                  *)
(***************************************************************************)
EXTENDS Naturals, Sequences, FiniteSets, SequencesExt

CONSTANTS
  Writers,   \* the daemons and dashboards that emit rows
  Runs,      \* the runs the rows belong to
  MaxRow,    \* bound on the rows emitted
  MaxGen,    \* bound on the generations of the file
  None       \* no such file, no row in hand

Files == UNION { [1 .. k -> 1 .. MaxRow] : k \in 0 .. MaxRow }
Journals ==
  [original : Files, compacted : Files, gen : 1 .. MaxGen, replaced : BOOLEAN]

ASSUME RowLogAssumption ==
  /\ MaxRow \in Nat /\ MaxGen \in Nat \ {0}
  /\ None \notin Nat /\ None \notin Files /\ None \notin Journals

VARIABLES
  emitted,   \* emitted[n]: the run of the n-th row
  file,      \* the complete lines of the file
  tail,      \* what follows the last newline
  garbled,   \* the lines that do not parse
  tombs,     \* the runs named by a deletion manifest
  hand,      \* hand[w]: what writer w is about to do
  acked,     \* history: rows whose append has returned
  exposed,   \* history: rows appended while nothing protected them
  db,        \* the projection
  disk,      \* the compactor's files: archives, pending, journal
  comp,      \* the compactor: where it is, the tombstones and rows it has read
  offline,   \* chosen once: whether compaction runs with no writer active
  strayed    \* history: rows were appended to a file that an interrupted
             \* compaction had archived and not yet replaced

vars == <<emitted, file, tail, garbled, tombs, hand, acked, exposed, db, disk, comp,
          offline, strayed>>
logVars == <<emitted, file, tail, garbled, acked, exposed, strayed>>

Rows == 1 .. Len(emitted)
RunOf(n) == emitted[n]
Offsets == 0 .. MaxRow

----------------------------------------------------------------------------
\* The file.

Fragment == 0   \* a tail that is part of a row
\* truncateToLastNewline: a tail that is a whole row only lacks its newline.
Repaired == IF tail \in Rows THEN Append(file, tail) ELSE file

\* A line that ends with row n: it garbles what it is appended to.
PutLine(n) ==
  /\ file' = Append(file, n) /\ tail' = None
  /\ garbled' = IF tail = None THEN garbled ELSE garbled \cup {n}
\* The writer dies while it appends: some of the row, or all but the newline.
PutPart(n) ==
  /\ tail' \in IF tail = None THEN {Fragment, n} ELSE {Fragment}
  /\ UNCHANGED <<file, garbled>>

\* The rows of f without those of the runs, in the order of f.
Without(f, runs) ==
  LET kept == { n \in ToSet(f) : RunOf(n) \notin runs } IN
  CHOOSE g \in UNION { [1 .. k -> kept] : k \in 0 .. Len(f) } :
    /\ ToSet(g) = kept
    /\ \A i, j \in DOMAIN g : i < j =>
         \E a, b \in DOMAIN f : a < b /\ g[i] = f[a] /\ g[j] = f[b]

----------------------------------------------------------------------------
\* The projection.  events: the rows of run_events by generation and offset;
\* latest[r]: the newest row applied for a run; hidden: runs marked deleted;
\* gen: source_generations; checkpoint[g]: projection_sources.byte_offset.

EmptyDb(g) ==
  [events |-> {}, latest |-> [r \in Runs |-> 0], hidden |-> {}, gen |-> g,
   checkpoint |-> [k \in 1 .. MaxGen |-> 0]]

Filed(d, off) == \E e \in d.events : e.gen = d.gen /\ e.off = off

\* applyTrackerEntry: INSERT OR IGNORE of the event, upsert of the run.
Newest(a, b) == IF b > a THEN b ELSE a
Applied(d, n, off) ==
  [d EXCEPT
     !.events = IF Filed(d, off) THEN @
                ELSE @ \cup {[gen |-> d.gen, off |-> off, row |-> n]},
     !.latest[RunOf(n)] = Newest(@, n)]

\* applyDeletionManifest updates the run's row, if there is one.
Hidden(d, runs) ==
  [d EXCEPT !.hidden = @ \cup { r \in runs : d.latest[r] # 0 }]

\* parseJsonlFrom: behind the checkpoint, or from 0 if the file has shrunk.
StartOf(d) == IF Len(file) < d.checkpoint[d.gen] THEN 0 ELSE d.checkpoint[d.gen]

\* rebuildProjectionForDate, one transaction: applyTrackerEntry of every line from
\* there on that parses, each at a place of its own; then the checkpoint.
ReadOn(d) ==
  LET read == { i \in StartOf(d) + 1 .. Len(file) : file[i] \notin garbled }
      rowsOf(r) == { n \in { file[i] : i \in read } : RunOf(n) = r }
  IN [d EXCEPT
       !.events = @ \cup { [gen |-> d.gen, off |-> i - 1, row |-> file[i]] :
                            i \in { j \in read : ~Filed(d, j - 1) } },
       !.latest = [r \in Runs |-> Max({d.latest[r]} \cup rowsOf(r))],
       !.checkpoint[d.gen] = Len(file)]
\* A plausible bug: the rebuild does not replay the deletion manifests.
RebuiltVisible(d) == ReadOn(d)
Rebuilt(d) == Hidden(ReadOn(d), tombs)

----------------------------------------------------------------------------
Init ==
  /\ emitted = <<>> /\ file = <<>> /\ tail = None /\ garbled = {}
  /\ tombs = {} /\ acked = {} /\ exposed = {}
  /\ hand = [w \in Writers |-> None]
  /\ db = EmptyDb(1)
  /\ disk = [archive |-> [g \in 1 .. MaxGen |-> None], pending |-> None, journal |-> None]
  /\ comp = [at |-> "off", deleted |-> {}, resume |-> FALSE, read |-> <<>>]
  /\ offline \in BOOLEAN
  /\ strayed = FALSE

Compacting == comp.at # "off"
\* The compactor holds the append lock from reading the file to replacing it,
\* and from the test for a replacement in a recovery to the generation's update.
LockHeld ==
  comp.at \in {"archive", "pending", "prepare", "replace", "mark", "overwrite", "generation"}
\* It has read the file, and will replace it by what it keeps of what it read.
Replacing == comp.at \in {"archive", "pending", "prepare", "replace", "overwrite"}
MayWrite == offline => ~Compacting

Has(w, op) == hand[w] # None /\ hand[w].op = op
Locker == { w \in Writers : Has(w, "locked") }
Unlocked == ~LockHeld /\ Locker = {}

\* emitTrackerRow, or the signal handler between two ticks of the event loop,
\* makes the row, timestamp first.
Emit(w, r) ==
  /\ MayWrite /\ hand[w] = None /\ Len(emitted) < MaxRow
  /\ emitted' = Append(emitted, r)
  /\ \E op \in {"append", "signal"} :
       hand' = [hand EXCEPT ![w] = [op |-> op, row |-> Len(emitted) + 1]]
  /\ UNCHANGED <<file, tail, garbled, tombs, acked, exposed, db, disk, comp, offline, strayed>>

\* A plausible bug: the offset is noted before the tail is repaired.
LockAppendOffsetFirst(w) ==
  /\ Has(w, "append") /\ Unlocked
  /\ file' = Repaired /\ tail' = None
  /\ hand' = [hand EXCEPT ![w] = [op |-> "locked", row |-> @.row, off |-> Len(file)]]
  /\ UNCHANGED <<emitted, garbled, tombs, acked, exposed, db, disk, comp, offline, strayed>>
\* appendJsonlLineLocked takes the lock, repairs the tail and notes the offset.
LockAppend(w) ==
  /\ Has(w, "append") /\ Unlocked
  /\ file' = Repaired /\ tail' = None
  /\ hand' = [hand EXCEPT ![w] = [op |-> "locked", row |-> @.row, off |-> Len(Repaired)]]
  /\ UNCHANGED <<emitted, garbled, tombs, acked, exposed, db, disk, comp, offline, strayed>>

\* The file is no longer what the compactor has archived, or is about to.
Strays == strayed' = (strayed \/ file = disk.archive[db.gen] \/ comp.at = "archive")

\* It appends, syncs and lets go of the lock.
AppendRow(w) ==
  /\ Has(w, "locked")
  /\ PutLine(hand[w].row)
  /\ acked' = acked \cup {hand[w].row}
  /\ hand' = [hand EXCEPT ![w] = [op |-> "apply", row |-> @.row, off |-> @.off]]
  /\ Strays
  /\ UNCHANGED <<emitted, tombs, exposed, db, disk, comp, offline>>

TornAppend(w) ==
  /\ Has(w, "locked")
  /\ PutPart(hand[w].row)
  /\ hand' = [hand EXCEPT ![w] = None]
  /\ Strays
  /\ UNCHANGED <<emitted, tombs, acked, exposed, db, disk, comp, offline>>

\* An unlocked append exposes the row whose append it comes into.
ExposesLocked == { hand[w].row : w \in Locker }

\* The appendFileSync of onSignal.  Its own row is exposed to a torn tail and to a
\* compactor that has read the file.
SignalAppend(w) ==
  /\ Has(w, "signal")
  /\ PutLine(hand[w].row)
  /\ acked' = acked \cup {hand[w].row}
  /\ exposed' = exposed \cup ExposesLocked
       \cup (IF tail # None \/ Replacing THEN {hand[w].row} ELSE {})
  /\ hand' = [hand EXCEPT ![w] = None]
  /\ Strays
  /\ UNCHANGED <<emitted, tombs, db, disk, comp, offline>>

TornSignal(w) ==
  /\ Has(w, "signal")
  /\ PutPart(hand[w].row)
  /\ exposed' = exposed \cup ExposesLocked
  /\ hand' = [hand EXCEPT ![w] = None]
  /\ Strays
  /\ UNCHANGED <<emitted, tombs, acked, db, disk, comp, offline>>

\* applyTrackerEntryLive, with the generation of the moment it runs.
ApplyLive(w) ==
  /\ Has(w, "apply")
  /\ db' = Applied(db, hand[w].row, hand[w].off)
  /\ hand' = [hand EXCEPT ![w] = None]
  /\ UNCHANGED <<tombs, disk, comp, offline>> /\ UNCHANGED logVars

\* The second step never comes: it throws (and is swallowed), or the writer
\* dies before it.
Forget(w) ==
  /\ hand[w] # None
  /\ hand' = [hand EXCEPT ![w] = None]
  /\ UNCHANGED <<tombs, db, disk, comp, offline>> /\ UNCHANGED logVars

\* At the start of a dashboard, after three failed applies, and behind the row of
\* a signal handler.
Rebuild ==
  /\ MayWrite
  /\ db' = Rebuilt(db)
  /\ UNCHANGED <<tombs, hand, disk, comp, offline>> /\ UNCHANGED logVars

\* persistDeletionManifest: the manifest is durable before SQLite hears of it.
Delete(w, r) ==
  /\ MayWrite /\ hand[w] = None /\ r \notin tombs
  /\ tombs' = tombs \cup {r}
  /\ hand' = [hand EXCEPT ![w] = [op |-> "hide", run |-> r]]
  /\ UNCHANGED <<db, disk, comp, offline>> /\ UNCHANGED logVars

Hide(w) ==
  /\ Has(w, "hide")
  /\ db' = Hidden(db, {hand[w].run})
  /\ hand' = [hand EXCEPT ![w] = None]
  /\ UNCHANGED <<tombs, disk, comp, offline>> /\ UNCHANGED logVars

----------------------------------------------------------------------------
\* Compaction.

At(here) == comp.at = here
\* The rows read are a local variable, dead once the journal has them.
CompGoes(there) ==
  comp' = [comp EXCEPT !.at = there,
                       !.read = IF there \in {"pending", "prepare"} THEN @ ELSE <<>>]
otherVars == <<emitted, garbled, tombs, hand, acked, exposed, offline, strayed>>

\* compactTracker takes its lock; an interrupted compaction is resumed first.
CompactStart ==
  /\ At("off")
  /\ offline => \A w \in Writers : hand[w] = None
  /\ comp' = [comp EXCEPT !.at = IF disk.journal = None THEN "scan" ELSE "finish",
                          !.resume = disk.journal # None]
  /\ UNCHANGED <<file, tail, db, disk>> /\ UNCHANGED otherVars

\* compactFile repairs the tail and reads what is left of the file without the
\* deleted runs; nothing to drop, nothing to do.  It throws at a line that does not
\* parse.  MaxGen bounds the generations.
CompactScan ==
  /\ At("scan") /\ Locker = {}
  /\ file' = Repaired /\ tail' = None
  /\ IF ToSet(file) \cap garbled # {} \/ Without(Repaired, tombs) = Repaired
           \/ db.gen = MaxGen
     THEN CompGoes("off")
     ELSE comp' = [comp EXCEPT !.at = "archive", !.deleted = tombs, !.read = Repaired]
  /\ UNCHANGED <<db, disk>> /\ UNCHANGED otherVars

\* The archive of a generation is written once.
ArchiveDiffers == disk.archive[db.gen] \notin {None, comp.read}
CompactArchive ==
  /\ At("archive")
  /\ IF ArchiveDiffers THEN CompGoes("off") /\ UNCHANGED disk
     ELSE /\ disk' = [disk EXCEPT !.archive[db.gen] = comp.read]
          /\ CompGoes("pending")
  /\ UNCHANGED <<file, tail, db>> /\ UNCHANGED otherVars

CompactPending ==
  /\ At("pending")
  /\ disk' = [disk EXCEPT !.pending = Without(comp.read, comp.deleted)]
  /\ CompGoes("prepare")
  /\ UNCHANGED <<file, tail, db>> /\ UNCHANGED otherVars

CompactPrepare ==
  /\ At("prepare")
  /\ disk' = [disk EXCEPT !.journal =
       [original |-> comp.read, compacted |-> disk.pending, gen |-> db.gen + 1, replaced |-> FALSE]]
  /\ CompGoes("replace")
  /\ UNCHANGED <<file, tail, db>> /\ UNCHANGED otherVars

\* The rename drops whatever was appended since the file was read.
CompactReplace ==
  /\ At("replace")
  /\ file' = disk.pending /\ tail' = None
  /\ CompGoes("mark")
  /\ UNCHANGED <<db, disk>> /\ UNCHANGED otherVars

\* The journal says "replaced"; the append lock is released.
CompactMark ==
  /\ At("mark")
  /\ disk' = [disk EXCEPT !.journal.replaced = TRUE]
  /\ CompGoes("finish")
  /\ UNCHANGED <<file, tail, db>> /\ UNCHANGED otherVars

\* finishJournal.  It throws unless the archive and what is to become of the
\* source are as the journal says, and never overwrites a source it does not
\* know.  AlreadyReplaced is the code's test: the source starts with the
\* compacted rows (or, if none is left, does not start with the original's).
Source == IF tail = None THEN file ELSE Append(file, tail)
PendingRows(j) ==
  IF disk.pending = None /\ j.replaced THEN Source ELSE disk.pending
\* A plausible bug: rows appended after the replacement are not thought of.
AlreadyReplacedExactly(j) == file = j.compacted
AlreadyReplaced(j) ==
  IF j.compacted # <<>> THEN IsPrefix(j.compacted, file)
                        ELSE ~IsPrefix(j.original, file)
Refuses(j) ==
  \/ disk.archive[j.gen - 1] # j.original
  \/ PendingRows(j) # j.compacted
  \/ ~AlreadyReplaced(j) /\ Source # j.original
  \/ db.gen \notin {j.gen, j.gen - 1}

\* A plausible bug: a resumed compaction writes the compacted rows again.
FinishReplaceAgain ==
  /\ At("finish") /\ Locker = {}
  /\ CompGoes(IF Refuses(disk.journal) THEN "off" ELSE "overwrite")
  /\ UNCHANGED <<file, tail, db, disk>> /\ UNCHANGED otherVars
FinishReplace ==
  /\ At("finish") /\ Locker = {}
  /\ CompGoes(IF Refuses(disk.journal) THEN "off"
              ELSE IF AlreadyReplaced(disk.journal) THEN "generation" ELSE "overwrite")
  /\ UNCHANGED <<file, tail, db, disk>> /\ UNCHANGED otherVars

FinishOverwrite ==
  /\ At("overwrite")
  /\ file' = disk.journal.compacted /\ tail' = None
  /\ CompGoes("generation")
  /\ UNCHANGED <<db, disk>> /\ UNCHANGED otherVars

\* The generation's transaction; then the append lock is released.
FinishGeneration ==
  /\ At("generation")
  /\ db' = [db EXCEPT !.gen = disk.journal.gen]
  /\ CompGoes("reset")
  /\ UNCHANGED <<file, tail, disk>> /\ UNCHANGED otherVars

FinishReset ==
  /\ At("reset")
  /\ db' = EmptyDb(db.gen)
  /\ CompGoes("rebuild")
  /\ UNCHANGED <<file, tail, disk>> /\ UNCHANGED otherVars

FinishRebuild ==
  /\ At("rebuild")
  /\ db' = Rebuilt(db)
  /\ CompGoes("unlink")
  /\ UNCHANGED <<file, tail, disk>> /\ UNCHANGED otherVars

\* The journal goes first, then the pending file; a compaction that has only
\* resumed an earlier one now scans the file itself.
FinishUnlink ==
  /\ At("unlink")
  /\ disk' = [disk EXCEPT !.journal = None]
  /\ CompGoes("clean")
  /\ UNCHANGED <<file, tail, db>> /\ UNCHANGED otherVars

FinishClean ==
  /\ At("clean")
  /\ disk' = [disk EXCEPT !.pending = None]
  /\ comp' = [comp EXCEPT !.at = IF comp.resume THEN "scan" ELSE "off", !.resume = FALSE]
  /\ UNCHANGED <<file, tail, db>> /\ UNCHANGED otherVars

\* The compactor dies; its locks are reclaimed.
CompactCrash ==
  /\ Compacting
  /\ CompGoes("off")
  /\ UNCHANGED <<file, tail, db, disk>> /\ UNCHANGED otherVars

Compact ==
  \/ CompactScan \/ CompactArchive \/ CompactPending \/ CompactPrepare
  \/ CompactReplace \/ CompactMark \/ FinishReplace \/ FinishOverwrite
  \/ FinishGeneration \/ FinishReset \/ FinishRebuild \/ FinishUnlink \/ FinishClean

Write(w) ==
  \/ \E r \in Runs : Emit(w, r) \/ Delete(w, r)
  \/ LockAppend(w) \/ AppendRow(w) \/ TornAppend(w) \/ SignalAppend(w) \/ TornSignal(w)
  \/ ApplyLive(w) \/ Hide(w) \/ Forget(w)

Next ==
  \/ \E w \in Writers : Write(w)
  \/ Rebuild \/ CompactStart \/ Compact \/ CompactCrash

RowLogSpec == Init /\ [][Next]_vars

----------------------------------------------------------------------------
InHand ==
  {None} \cup [op : {"append", "signal"}, row : 1 .. MaxRow]
  \cup [op : {"locked", "apply"}, row : 1 .. MaxRow, off : Offsets] \cup [op : {"hide"}, run : Runs]
Projection ==
  [events : SUBSET [gen : 1 .. MaxGen, off : Offsets, row : 1 .. MaxRow],
   latest : [Runs -> 0 .. MaxRow], hidden : SUBSET Runs, gen : 1 .. MaxGen,
   checkpoint : [1 .. MaxGen -> Offsets]]
Disk ==
  [archive : [1 .. MaxGen -> Files \cup {None}], pending : Files \cup {None},
   journal : Journals \cup {None}]
Stage ==
  {"off", "scan", "archive", "pending", "prepare", "replace", "mark", "finish",
   "overwrite", "generation", "reset", "rebuild", "unlink", "clean"}
\* The variables have their types; no row is twice in the file.
RowLogTypeOK ==
  /\ emitted \in Seq(Runs) /\ Len(emitted) <= MaxRow
  /\ file \in Files /\ ToSet(file) \subseteq Rows /\ IsInjective(file)
  /\ tail \in {None, Fragment} \cup (Rows \ ToSet(file))
  /\ tombs \subseteq Runs
  /\ acked \subseteq Rows /\ garbled \subseteq Rows /\ exposed \subseteq Rows
  /\ hand \in [Writers -> InHand]
  /\ db \in Projection /\ disk \in Disk
  /\ comp \in [at : Stage, deleted : SUBSET Runs, resume : BOOLEAN, read : Files]
  /\ offline \in BOOLEAN /\ strayed \in BOOLEAN

\* A row whose append has returned is in the file, and readable, until its run is
\* deleted: whoever dies while appending, and wherever a compaction is interrupted,
\* resumed or repeated.  What is exposed is a signal handler's row that met a torn
\* tail or a compactor which had read the file, and a row under the lock into whose
\* append a signal handler's came.
Readable == ToSet(file) \ garbled
RowsSurvive == \A n \in acked \ exposed : n \in Readable \/ RunOf(n) \in tombs

\* jsonl-recovery.ts:28-30: the live writer repairs the tail immediately before every
\* append, under the append lock.  If every writer did, all acknowledged rows would
\* survive.
EveryRowSurvives == \A n \in acked : n \in Readable \/ RunOf(n) \in tombs

\* A compaction can always be resumed and repeated, unless rows were appended
\* after it had archived the file and died before it replaced it.
RefusesOnlyIfStrayed ==
  \/ strayed
  \/ /\ disk.journal # None /\ ~LockHeld => ~Refuses(disk.journal)
     /\ At("archive") => ~ArchiveDiffers

\* When no compaction is under way or half done, and compactions ran offline,
\* the history in run_events names each row at the place where the file has it,
\* but for a row into whose append a signal handler's came.
EventsMatchFile ==
  offline /\ ~Compacting /\ disk.journal = None =>
    \A e \in db.events : e.gen = db.gen /\ e.row \notin exposed =>
      e.off < Len(file) /\ file[e.off + 1] = e.row

\* A rebuild catches up with everything its writers failed to apply: the
\* newest row of every run, the whole history (again but for the place that such a
\* row took), and the runs that are deleted.
Newests(r) == { n \in Readable : RunOf(n) = r }
InHistory(i) ==
  \E e \in db.events :
    e.gen = db.gen /\ e.off = i - 1 /\ (e.row = file[i] \/ e.row \in exposed)
CaughtUp ==
  /\ \A r \in Runs \ tombs : \A n \in Newests(r) : db.latest[r] >= n
  /\ \A r \in tombs : db.latest[r] # 0 => r \in db.hidden
  /\ offline => \A i \in DOMAIN file : file[i] \in Readable => InHistory(i)
RebuildCatchesUp == [][Rebuild /\ disk.journal = None => CaughtUp']_vars
=============================================================================
