---------------------------- MODULE RowLogProofs ----------------------------
(***************************************************************************)
(* Theorems about RowLog for any writers, runs, rows and generations.      *)
(*                                                                         *)
(* The invariant has five parts.  Typed has the types, and that a row a    *)
(* writer is about to append is nowhere yet.  Locks is about the append    *)
(* lock: who holds it, and what a writer that holds it can rely on.  Half  *)
(* is about a compaction, under way or half done: what it has read, and    *)
(* what its journal says of the file.  RowsSurvive is about the rows       *)
(* acknowledged.  Synced is about the projection: what its checkpoint      *)
(* promises to have been read, and where its history has the rows.         *)
(***************************************************************************)
EXTENDS RowLog, SequenceTheorems, FiniteSetTheorems, WellFoundedInduction, TLAPS

Journal == disk.journal
Resumable == Journal # None

\* The row that w is about to append has just been emitted and is nowhere else.
Carries(w) == Has(w, "append") \/ Has(w, "signal") \/ Has(w, "locked")
Unwritten(w) ==
  Carries(w) =>
    /\ hand[w].row \in Rows \ ToSet(file)
    /\ hand[w].row # tail
    /\ Resumable => hand[w].row \notin ToSet(Journal.original)
    /\ \A v \in Writers \ {w} : Carries(v) => hand[v].row # hand[w].row

Typed == RowLogTypeOK /\ \A w \in Writers : Unwritten(w)

\* One writer holds the append lock, or the compactor.  The file still ends where
\* the writer has noted it, unless a signal handler came in between; nothing else
\* makes a line that does not parse.
Sure(w) == hand[w].row \notin exposed => tail = None /\ hand[w].off = Len(file)
Locks ==
  /\ \A v, w \in Locker : v = w
  /\ LockHeld => Locker = {}
  /\ \A w \in Locker : Sure(w)
  /\ garbled \subseteq exposed

-----------------------------------------------------------------------------
(* A compaction.                                                           *)

\* Nothing but the rows of deleted runs is missing from g.
Keeps(f, g) ==
  /\ ToSet(g) \subseteq ToSet(f) /\ IsInjective(g)
  /\ \A n \in ToSet(f) : n \in ToSet(g) \/ RunOf(n) \in tombs

\* Every row that has a right to be in the file is in f.
Saves(f) == \A n \in acked \ exposed : n \in ToSet(f) \/ RunOf(n) \in tombs

\* The file is as the compactor read it.
Untouched == file = Journal.original /\ tail = None

\* The file is what the compactor wrote, with what came later.
Replaced ==
  /\ IsPrefix(Journal.compacted, file)
  /\ Journal.compacted = <<>> => ToSet(Journal.original) \cap (ToSet(file) \cup {tail}) = {}

\* What a journal says of the archive, the pending file and the file.
JournalFits ==
  LET j == Journal IN
  /\ j.gen > 1
  /\ disk.archive[j.gen - 1] = j.original
  /\ disk.pending = j.compacted
  /\ j.original # <<>> /\ ToSet(j.original) \subseteq Rows
  /\ Keeps(j.original, j.compacted)
  /\ db.gen \in {j.gen, j.gen - 1}
  /\ db.gen = j.gen \/ At("generation") => Replaced
  /\ db.gen # j.gen => Replaced \/ IsPrefix(j.original, file)
  /\ db.gen # j.gen /\ ~strayed => Replaced \/ Untouched

\* A generation is archived before its journal is written, and not beyond.
ArchivesFit ==
  /\ \A g \in 1 .. MaxGen : disk.archive[g] # None =>
       g <= db.gen /\ (Resumable => g < Journal.gen)
  /\ disk.archive[db.gen] # None /\ ~Resumable /\ ~strayed =>
       file = disk.archive[db.gen] /\ tail = None

\* What the compactor has read is still how the file begins, and all of it if
\* nothing strayed.
Read == comp.at \in {"archive", "pending", "prepare"}
ReadFits ==
  /\ ~Resumable /\ db.gen < MaxGen
  /\ comp.read # <<>> /\ IsInjective(comp.read) /\ ToSet(comp.read) \subseteq Rows
  /\ IsPrefix(comp.read, file)
  /\ ~strayed => file = comp.read /\ tail = None
  /\ Saves(comp.read)
  /\ ~At("archive") => disk.archive[db.gen] = comp.read
  /\ At("prepare") => disk.pending # None /\ Keeps(comp.read, disk.pending)

\* Where the compactor is.
Rewrites == comp.at \in {"replace", "overwrite"}
StageFits ==
  /\ comp.deleted \subseteq tombs
  /\ comp.at \in {"scan", "clean"} => ~Resumable
  /\ Read => ReadFits
  /\ comp.at \in {"replace", "mark", "finish", "overwrite", "generation", "reset", "rebuild",
                  "unlink"} => Resumable
  /\ Rewrites => IsPrefix(Journal.original, file) /\ Saves(Journal.original)
  /\ At("mark") => Replaced
  /\ comp.at \in {"replace", "mark", "overwrite"} => db.gen # Journal.gen
  /\ comp.at \in {"reset", "rebuild", "unlink"} => db.gen = Journal.gen

Half == (Resumable => JournalFits) /\ ArchivesFit /\ StageFits

-----------------------------------------------------------------------------
(* The projection.                                                         *)

\* No compaction stands between the file and the generation of the projection.
Settled == ~Resumable \/ db.gen = Journal.gen

\* The file has row n at offset off, or n is exposed.
Lies(n, off) == n \in exposed \/ (off < Len(file) /\ file[off + 1] = n)

\* The history of the current generation names rows where the file has them, if
\* writers and compactor kept out of each other's way; so does an apply to come.
EventsLie == offline /\ Settled => \A e \in db.events : e.gen = db.gen => Lies(e.row, e.off)
AppliesLie == offline => \A w \in Writers : Has(w, "apply") => Lies(hand[w].row, hand[w].off)
KeptApart == offline /\ Compacting => \A w \in Writers : hand[w] = None

\* Nothing is filed or read under a generation to come.
NotAhead ==
  /\ \A e \in db.events : e.gen <= db.gen
  /\ \A g \in 1 .. MaxGen : g > db.gen => db.checkpoint[g] = 0

\* What lies before the checkpoint, and parses, has been applied.
ReadSoFar ==
  Settled =>
    /\ db.checkpoint[db.gen] <= Len(file)
    /\ \A i \in 1 .. db.checkpoint[db.gen] : file[i] \notin garbled =>
         /\ db.latest[RunOf(file[i])] >= file[i]
         /\ offline => InHistory(i)

Synced == EventsLie /\ AppliesLie /\ KeptApart /\ NotAhead /\ ReadSoFar

LogInv == Typed /\ Locks /\ Half /\ RowsSurvive /\ Synced

-----------------------------------------------------------------------------
(* Files and their rows.                                                   *)

Row == 1 .. MaxRow

LEMMA FileFacts ==
  ASSUME NEW f \in Files
  PROVE  /\ f \in Seq(Row) /\ Len(f) \in 0 .. MaxRow /\ DOMAIN f = 1 .. Len(f)
         /\ f \in [1 .. Len(f) -> Row]
         /\ \A i \in 1 .. Len(f) : f[i] \in Row
         /\ ToSet(f) = { f[i] : i \in 1 .. Len(f) } /\ ToSet(f) \subseteq Row
<1>1. PICK k \in 0 .. MaxRow : f \in [1 .. k -> Row]
  BY DEF Files, Row
<1>2. k \in Nat
  BY <1>1, RowLogAssumption
<1>3. f \in Seq(Row)
  BY <1>1, <1>2, SeqDef
<1>4. Len(f) = k /\ DOMAIN f = 1 .. k
  BY <1>1, <1>2, <1>3, LenProperties
<1> QED BY <1>1, <1>3, <1>4 DEF ToSet

\* A file without a row twice has no more rows than were emitted.
LEMMA ShortEnough ==
  ASSUME NEW f \in Seq(Row), IsInjective(f)
  PROVE  f \in Files
<1>1. Len(f) \in Nat /\ f \in [1 .. Len(f) -> Row] /\ DOMAIN f = 1 .. Len(f)
  BY LenProperties
<1>2. MaxRow \in Nat
  BY RowLogAssumption
<1>3. f \in Injection(1 .. Len(f), Row)
  BY <1>1 DEF Injection, IsInjective
<1>4. IsFiniteSet(Row) /\ Cardinality(Row) = MaxRow
  BY <1>2, FS_Interval DEF Row
<1>5. Cardinality(1 .. Len(f)) = Len(f)
  BY <1>1, FS_Interval
<1>6. Cardinality(1 .. Len(f)) <= Cardinality(Row)
  BY <1>3, <1>4, FS_Injection
<1>7. Len(f) <= MaxRow
  BY <1>4, <1>5, <1>6
<1>8. Len(f) \in 0 .. MaxRow
  BY <1>1, <1>2, <1>7
<1> QED BY <1>1, <1>8 DEF Files, Row

LEMMA AppendFits ==
  ASSUME NEW f \in Files, IsInjective(f), NEW n \in Row \ ToSet(f)
  PROVE  /\ Append(f, n) \in Files /\ IsInjective(Append(f, n))
         /\ ToSet(Append(f, n)) = ToSet(f) \cup {n}
         /\ Len(Append(f, n)) = Len(f) + 1
         /\ \A i \in 1 .. Len(f) : Append(f, n)[i] = f[i]
         /\ Append(f, n)[Len(f) + 1] = n
<1> DEFINE g == Append(f, n)
<1>1. /\ f \in Seq(Row) /\ Len(f) \in Nat /\ DOMAIN f = 1 .. Len(f)
      /\ ToSet(f) = { f[i] : i \in 1 .. Len(f) }
  BY FileFacts, RowLogAssumption
<1>2. /\ g \in Seq(Row) /\ Len(g) = Len(f) + 1
      /\ \A i \in 1 .. Len(f) : g[i] = f[i]
      /\ g[Len(f) + 1] = n
  BY <1>1, AppendProperties
<1>3. DOMAIN g = 1 .. Len(f) + 1
  BY <1>2, LenProperties
<1> HIDE DEF g
<1>4. IsInjective(g)
  <2>1. SUFFICES ASSUME NEW a \in DOMAIN g, NEW b \in DOMAIN g, g[a] = g[b]
                 PROVE  a = b
    BY DEF IsInjective
  <2>2. CASE a \in 1 .. Len(f) /\ b \in 1 .. Len(f)
    BY <2>1, <2>2, <1>1, <1>2 DEF IsInjective
  <2>3. CASE a = Len(f) + 1 /\ b \in 1 .. Len(f)
    BY <2>1, <2>3, <1>1, <1>2
  <2>4. CASE b = Len(f) + 1 /\ a \in 1 .. Len(f)
    BY <2>1, <2>4, <1>1, <1>2
  <2> QED BY <2>2, <2>3, <2>4, <1>1, <1>3
<1>5. ToSet(g) = ToSet(f) \cup {n}
  BY <1>1, <1>2, <1>3 DEF ToSet
<1>6. g \in Files
  BY <1>2, <1>4, ShortEnough
<1> QED BY <1>2, <1>4, <1>5, <1>6 DEF g

LEMMA PrefixIs ==
  ASSUME NEW f \in Files, NEW g \in Files
  PROVE  IsPrefix(f, g) <=> Len(f) <= Len(g) /\ \A i \in 1 .. Len(f) : f[i] = g[i]
<1>1. /\ f \in Seq(Row) /\ Len(f) \in Nat /\ \A i \in 1 .. Len(f) : f[i] \in Row
      /\ g \in Seq(Row) /\ Len(g) \in Nat /\ \A i \in 1 .. Len(g) : g[i] \in Row
  BY FileFacts, RowLogAssumption
<1> DEFINE F == SubSeq(f, 1, Len(f))
           G == SubSeq(g, 1, Len(f))
<1>2. CASE Len(f) <= Len(g)
  <2>1. /\ F \in Seq(Row) /\ Len(F) = Len(f) /\ \A i \in 1 .. Len(f) : F[i] = f[i]
    BY <1>1, SubSeqFull
  <2>2. \A i \in 1 .. Len(f) : g[i] \in Row
    BY <1>1, <1>2
  <2>3. /\ G \in Seq(Row)
        /\ Len(G) = IF 1 <= Len(f) THEN Len(f) - 1 + 1 ELSE 0
        /\ \A i \in 1 .. Len(f) - 1 + 1 : G[i] = g[1 + i - 1]
    BY <2>2, <1>1, SubSeqProperties
  <2> HIDE DEF F, G
  <2>4. Len(G) = Len(f) /\ \A i \in 1 .. Len(f) : G[i] = g[i]
    BY <2>3, <1>1
  <2>5. F = G <=> \A i \in 1 .. Len(f) : f[i] = g[i]
    BY <2>1, <2>3, <2>4, SeqEqual
  <2> QED BY <2>5, <1>2 DEF IsPrefix, F, G
<1>3. CASE ~ (Len(f) <= Len(g))
  BY <1>3 DEF IsPrefix
<1> QED BY <1>2, <1>3

LEMMA LeastNumber ==
  ASSUME NEW S, S \subseteq Nat, S # {}
  PROVE  \E m \in S : \A k \in S : m <= k
<1>1. PICK m \in S : \A k \in S : <<k, m>> \notin OpToRel(<, Nat)
  BY NatLessThanWellFounded, WFMin
<1>2. \A k \in S : ~ (k < m)
  BY <1>1 DEF OpToRel
<1> QED BY <1>2

LEMMA MaxIs ==
  ASSUME NEW S, S # {}, S \subseteq 0 .. MaxRow
  PROVE  Max(S) \in S /\ \A x \in S : Max(S) >= x
<1>1. MaxRow \in Nat
  BY RowLogAssumption
<1> DEFINE T == { MaxRow - x : x \in S }
<1>2. T # {} /\ T \subseteq Nat
  <2>1. \A x \in S : MaxRow - x \in Nat
    BY <1>1
  <2> QED BY <2>1
<1>3. PICK m \in T : \A k \in T : m <= k
  BY <1>2, LeastNumber
<1>4. PICK x \in S : m = MaxRow - x
  BY <1>3
<1>5. \A y \in S : x >= y
  BY <1>1, <1>3, <1>4
<1> QED BY <1>4, <1>5 DEF Max

\* What Without chooses from.
Kept(f, runs) == { n \in ToSet(f) : RunOf(n) \notin runs }
Lists(f, kept) ==
  { g \in UNION { [1 .. k -> kept] : k \in 0 .. Len(f) } :
      /\ ToSet(g) = kept
      /\ \A i, j \in DOMAIN g : i < j =>
           \E a, b \in DOMAIN f : a < b /\ g[i] = f[a] /\ g[j] = f[b] }

LEMMA ListFacts ==
  ASSUME NEW f \in Seq(Row), NEW kept, NEW g \in Lists(f, kept)
  PROVE  /\ g \in Seq(kept) /\ Len(g) \in 0 .. Len(f) /\ DOMAIN g = 1 .. Len(g)
         /\ ToSet(g) = kept
         /\ \A i, j \in DOMAIN g : i < j =>
              \E a, b \in DOMAIN f : a < b /\ g[i] = f[a] /\ g[j] = f[b]
<1>1. PICK k \in 0 .. Len(f) : g \in [1 .. k -> kept]
  BY DEF Lists
<1>2. k \in Nat
  BY <1>1, LenProperties
<1>3. g \in Seq(kept)
  BY <1>1, <1>2, SeqDef
<1>4. Len(g) = k /\ DOMAIN g = 1 .. k
  BY <1>1, <1>2, <1>3, LenProperties
<1> QED BY <1>1, <1>3, <1>4 DEF Lists

\* A list of what is kept of h is lengthened by a row, or not, with h.
LEMMA Lengthened ==
  ASSUME NEW h \in Seq(Row), NEW x \in Row, NEW runs,
         NEW g \in Lists(h, Kept(h, runs))
  PROVE  \E l : l \in Lists(Append(h, x), Kept(Append(h, x), runs))
<1> DEFINE f == Append(h, x)
<1>1. /\ Len(h) \in Nat /\ DOMAIN h = 1 .. Len(h)
      /\ f \in Seq(Row) /\ Len(f) = Len(h) + 1
      /\ \A i \in 1 .. Len(h) : f[i] = h[i]
      /\ f[Len(h) + 1] = x
  BY AppendProperties, LenProperties
<1>2. DOMAIN f = 1 .. Len(h) + 1
  BY <1>1, LenProperties
<1>3. ToSet(f) = ToSet(h) \cup {x}
  BY <1>1, <1>2 DEF ToSet
<1>4. /\ g \in Seq(Kept(h, runs)) /\ Len(g) \in 0 .. Len(h) /\ DOMAIN g = 1 .. Len(g)
      /\ ToSet(g) = Kept(h, runs)
      /\ \A i, j \in DOMAIN g : i < j =>
           \E a, b \in DOMAIN h : a < b /\ g[i] = h[a] /\ g[j] = h[b]
  BY ListFacts
<1> HIDE DEF f
<1>5. CASE RunOf(x) \in runs
  <2>1. Kept(f, runs) = Kept(h, runs)
    BY <1>3, <1>5 DEF Kept
  <2>2. g \in [1 .. Len(g) -> Kept(h, runs)] /\ Len(g) \in 0 .. Len(f)
    BY <1>1, <1>4, LenProperties
  <2>3. ASSUME NEW i \in DOMAIN g, NEW j \in DOMAIN g, i < j
        PROVE  \E a, b \in DOMAIN f : a < b /\ g[i] = f[a] /\ g[j] = f[b]
    <3>1. PICK a \in DOMAIN h, b \in DOMAIN h : a < b /\ g[i] = h[a] /\ g[j] = h[b]
      BY <1>4, <2>3
    <3> QED BY <3>1, <1>1, <1>2
  <2>4. g \in Lists(f, Kept(f, runs))
    BY <1>4, <2>1, <2>2, <2>3 DEF Lists
  <2> QED BY <2>4 DEF f
<1>6. CASE RunOf(x) \notin runs
  <2> DEFINE K == Kept(h, runs) \cup {x}
             l == Append(g, x)
  <2>1. Kept(f, runs) = K
    BY <1>3, <1>6 DEF Kept
  <2>2. g \in Seq(K)
    BY <1>4, SeqMonotonic
  <2>3. /\ l \in Seq(K) /\ Len(l) = Len(g) + 1
        /\ \A i \in 1 .. Len(g) : l[i] = g[i]
        /\ l[Len(g) + 1] = x
    BY <2>2, AppendProperties
  <2>4. l \in [1 .. Len(l) -> K] /\ DOMAIN l = 1 .. Len(g) + 1
    BY <2>3, LenProperties
  <2> HIDE DEF l
  <2>5. Len(l) \in 0 .. Len(f)
    BY <1>1, <1>4, <2>3
  <2>6. ToSet(l) = K
    BY <2>3, <2>4, <1>4 DEF ToSet
  <2>7. ASSUME NEW i \in DOMAIN l, NEW j \in DOMAIN l, i < j
        PROVE  \E a, b \in DOMAIN f : a < b /\ l[i] = f[a] /\ l[j] = f[b]
    <3>1. i \in DOMAIN g /\ i \in 1 .. Len(g) /\ l[i] = g[i] /\ g[i] \in ToSet(g)
      BY <2>7, <2>3, <2>4, <1>4 DEF ToSet
    <3>2. CASE j \in DOMAIN g
      <4>1. PICK a \in DOMAIN h, b \in DOMAIN h : a < b /\ g[i] = h[a] /\ g[j] = h[b]
        BY <1>4, <2>7, <3>1, <3>2
      <4> QED BY <4>1, <3>1, <3>2, <1>1, <1>2, <1>4, <2>3
    <3>3. CASE j = Len(g) + 1
      <4>1. g[i] \in ToSet(h)
        BY <3>1, <1>4 DEF Kept
      <4>2. PICK a \in DOMAIN h : g[i] = h[a]
        BY <4>1 DEF ToSet
      <4> QED BY <4>2, <3>1, <3>3, <1>1, <1>2, <2>3
    <3> QED BY <3>2, <3>3, <2>7, <2>4, <1>4
  <2>8. l \in Lists(f, Kept(f, runs))
    BY <2>1, <2>4, <2>5, <2>6, <2>7 DEF Lists
  <2> QED BY <2>8 DEF f
<1> QED BY <1>5, <1>6

LEMMA NothingListed ==
  ASSUME NEW runs
  PROVE  /\ <<>> \in Lists(<<>>, Kept(<<>>, runs))
         /\ ToSet(<<>>) = {}
<1>1. <<>> \in Seq({}) /\ Len(<<>>) = 0 /\ DOMAIN <<>> = 1 .. 0 /\ <<>> \in [1 .. 0 -> {}]
  BY EmptySeq, LenProperties
<1>2. ToSet(<<>>) = {}
  BY <1>1 DEF ToSet
<1>3. Kept(<<>>, runs) = {}
  BY <1>2 DEF Kept
<1> QED BY <1>1, <1>2, <1>3 DEF Lists

\* There is always one: by induction on the length of the file.
LEMMA Listable ==
  ASSUME NEW f \in Seq(Row), NEW runs
  PROVE  \E g : g \in Lists(f, Kept(f, runs))
<1> DEFINE Without_(h) == \E g : g \in Lists(h, Kept(h, runs))
           S == { n \in Nat : \E h \in Seq(Row) : Len(h) = n /\ ~Without_(h) }
<1>1. S = {}
  <2>1. SUFFICES ASSUME S # {} PROVE FALSE
    OBVIOUS
  <2>2. PICK m \in S : \A k \in S : m <= k
    BY <2>1, LeastNumber
  <2>3. PICK h \in Seq(Row) : Len(h) = m /\ ~Without_(h)
    BY <2>2
  <2>4. h # <<>>
    BY <2>3, NothingListed
  <2>5. PICK b \in Seq(Row), x \in Row : h = Append(b, x)
    BY <2>4, SequenceEmptyOrAppend
  <2>6. Len(b) \in Nat /\ m = Len(b) + 1
    BY <2>3, <2>5, AppendProperties, LenProperties
  <2>7. Len(b) \notin S
    BY <2>2, <2>6
  <2>8. Without_(b)
    BY <2>6, <2>7
  <2>9. Without_(h)
    BY <2>5, <2>8, Lengthened
  <2> QED BY <2>3, <2>9
<1>2. Len(f) \in Nat
  BY LenProperties
<1> QED BY <1>1, <1>2

\* What a compaction keeps of a file: the rows of other runs, each once.
LEMMA WithoutKeeps ==
  ASSUME NEW f \in Files, IsInjective(f), NEW runs
  PROVE  /\ Without(f, runs) \in Files /\ IsInjective(Without(f, runs))
         /\ ToSet(Without(f, runs)) = { n \in ToSet(f) : RunOf(n) \notin runs }
         /\ f = <<>> => Without(f, runs) = <<>>
<1> DEFINE g == Without(f, runs)
<1>1. /\ f \in Seq(Row) /\ Len(f) \in Nat /\ DOMAIN f = 1 .. Len(f)
      /\ ToSet(f) \subseteq Row
  BY FileFacts, RowLogAssumption
<1>2. g \in Lists(f, Kept(f, runs))
  <2>1. PICK l : l \in Lists(f, Kept(f, runs))
    BY <1>1, Listable
  <2>2. g = CHOOSE h \in UNION { [1 .. k -> Kept(f, runs)] : k \in 0 .. Len(f) } :
              /\ ToSet(h) = Kept(f, runs)
              /\ \A i, j \in DOMAIN h : i < j =>
                   \E a, b \in DOMAIN f : a < b /\ h[i] = f[a] /\ h[j] = f[b]
    BY DEF Without, Kept
  <2> DEFINE U == UNION { [1 .. k -> Kept(f, runs)] : k \in 0 .. Len(f) }
             Fits(h) == /\ ToSet(h) = Kept(f, runs)
                        /\ \A i, j \in DOMAIN h : i < j =>
                             \E a, b \in DOMAIN f : a < b /\ h[i] = f[a] /\ h[j] = f[b]
  <2>3. l \in U /\ Fits(l)
    BY <2>1 DEF Lists
  <2>4. g = CHOOSE h \in U : Fits(h)
    BY <2>2
  <2>5. (g \in U /\ Fits(g)) => g \in Lists(f, Kept(f, runs))
    BY DEF Lists
  <2> HIDE DEF U, Fits, g
  <2>6. g \in U /\ Fits(g)
    BY <2>3, <2>4
  <2> QED BY <2>5, <2>6
<1> HIDE DEF g
<1>3. /\ g \in Seq(Kept(f, runs)) /\ Len(g) \in 0 .. Len(f) /\ DOMAIN g = 1 .. Len(g)
      /\ ToSet(g) = Kept(f, runs)
      /\ \A i, j \in DOMAIN g : i < j =>
           \E a, b \in DOMAIN f : a < b /\ g[i] = f[a] /\ g[j] = f[b]
  <2>1. f \in Seq(Row)
    BY <1>1
  <2> QED BY <2>1, <1>2, ListFacts
<1>4. g \in Seq(Row)
  BY <1>1, <1>3, SeqMonotonic DEF Kept
<1>5. IsInjective(g)
  <2>1. ASSUME NEW i \in DOMAIN g, NEW j \in DOMAIN g, i < j
        PROVE  g[i] # g[j]
    <3>1. PICK a \in DOMAIN f, b \in DOMAIN f : a < b /\ g[i] = f[a] /\ g[j] = f[b]
      BY <1>3, <2>1
    <3> QED BY <3>1, <1>1 DEF IsInjective
  <2>2. \A i, j \in DOMAIN g : i # j => i < j \/ j < i
    BY <1>1, <1>3
  <2> QED BY <2>1, <2>2 DEF IsInjective
<1>6. f = <<>> => g = <<>>
  BY <1>3, <1>4, EmptySeq
<1> QED BY <1>3, <1>4, <1>5, <1>6, ShortEnough DEF g, Kept
-----------------------------------------------------------------------------
(* What the types say of the fields.                                       *)

CompTyped == [at : Stage, deleted : SUBSET Runs, resume : BOOLEAN, read : Files]

LEMMA FileTyped ==
  ASSUME Typed
  PROVE  /\ file \in Files /\ IsInjective(file) /\ file \in Seq(Row)
         /\ Len(file) \in 0 .. MaxRow /\ DOMAIN file = 1 .. Len(file)
         /\ ToSet(file) = { file[i] : i \in 1 .. Len(file) } /\ ToSet(file) \subseteq Rows
         /\ \A i \in 1 .. Len(file) : file[i] \in Rows
         /\ Len(emitted) \in 0 .. MaxRow /\ Rows \subseteq Row /\ None \notin Row
         /\ Fragment \notin Row
         /\ \A n \in Rows : RunOf(n) \in Runs
<1>1. file \in Files /\ IsInjective(file) /\ ToSet(file) \subseteq Rows
  BY DEF Typed, RowLogTypeOK
<1>2. /\ file \in Seq(Row) /\ Len(file) \in 0 .. MaxRow /\ DOMAIN file = 1 .. Len(file)
      /\ ToSet(file) = { file[i] : i \in 1 .. Len(file) }
  BY <1>1, FileFacts
<1>3. emitted \in Seq(Runs) /\ Len(emitted) <= MaxRow
  BY DEF Typed, RowLogTypeOK
<1>4. Len(emitted) \in Nat /\ \A n \in 1 .. Len(emitted) : emitted[n] \in Runs
  BY <1>3, LenProperties, ElementOfSeq
<1>5. Rows \subseteq Row /\ None \notin Row /\ Fragment \notin Row
  BY <1>3, <1>4, RowLogAssumption DEF Rows, Row, Fragment
<1> QED BY <1>1, <1>2, <1>3, <1>4, <1>5, RowLogAssumption DEF Rows, RunOf

LEMMA DbTyped ==
  ASSUME Typed
  PROVE  /\ db \in Projection /\ db.gen \in 1 .. MaxGen /\ db.gen \in Nat
         /\ db.latest \in [Runs -> 0 .. MaxRow] /\ db.hidden \subseteq Runs
         /\ db.checkpoint \in [1 .. MaxGen -> Offsets]
         /\ db.events \subseteq [gen : 1 .. MaxGen, off : Offsets, row : 1 .. MaxRow]
BY RowLogAssumption DEF Typed, RowLogTypeOK, Projection

LEMMA DiskTyped ==
  ASSUME Typed
  PROVE  /\ disk \in Disk /\ disk.archive \in [1 .. MaxGen -> Files \cup {None}]
         /\ disk.pending \in Files \cup {None}
         /\ disk.journal \in Journals \cup {None}
         /\ Resumable => /\ Journal.original \in Files /\ Journal.compacted \in Files
                         /\ Journal.gen \in 1 .. MaxGen /\ Journal.gen \in Nat
         /\ comp \in CompTyped /\ comp.read \in Files
<1>1. /\ disk \in Disk /\ disk.archive \in [1 .. MaxGen -> Files \cup {None}]
      /\ disk.pending \in Files \cup {None}
      /\ disk.journal \in Journals \cup {None}
      /\ comp \in CompTyped /\ comp.read \in Files
  BY DEF Typed, RowLogTypeOK, Disk, CompTyped
<1>2. Resumable => Journal \in Journals
  BY <1>1 DEF Resumable, Journal
<1>3. Journal \in Journals =>
        /\ Journal.original \in Files /\ Journal.compacted \in Files
        /\ Journal.gen \in 1 .. MaxGen /\ Journal.gen \in Nat
  BY RowLogAssumption DEF Journals
<1> QED BY <1>1, <1>2, <1>3

\* The file after a repair of its tail.
LEMMA RepairedFits ==
  ASSUME Typed
  PROVE  /\ Repaired \in Files /\ IsInjective(Repaired)
         /\ ToSet(Repaired) = ToSet(file) \cup ({tail} \cap Rows)
         /\ ToSet(Repaired) \subseteq Rows
         /\ tail \notin Rows => Repaired = file
         /\ Len(file) <= Len(Repaired)
         /\ \A i \in 1 .. Len(file) : Repaired[i] = file[i]
<1>1. tail \in Rows => tail \in Row \ ToSet(file)
  BY FileTyped, RowLogAssumption DEF Typed, RowLogTypeOK, Fragment, Row
<1>2. file \in Files /\ IsInjective(file) /\ Len(file) \in Nat /\ ToSet(file) \subseteq Rows
  BY FileTyped, RowLogAssumption
<1>3. CASE tail \in Rows
  BY <1>1, <1>2, <1>3, AppendFits DEF Repaired
<1>4. CASE tail \notin Rows
  BY <1>2, <1>4 DEF Repaired
<1> QED BY <1>3, <1>4

LEMMA EmptyFile == <<>> \in Files
<1>1. <<>> \in Seq(Row) /\ DOMAIN <<>> = {}
  BY EmptySeq, LenProperties
<1>2. IsInjective(<<>>)
  BY <1>1 DEF IsInjective
<1> QED BY <1>1, <1>2, ShortEnough

-----------------------------------------------------------------------------
(* Steps that leave a part alone.                                          *)

\* The rows emitted so far keep their runs.
SameRuns == Rows \subseteq Rows' /\ \A n \in Rows : emitted'[n] = emitted[n]

LEMMA KeepsStays ==
  ASSUME NEW f, NEW g, Keeps(f, g), ToSet(f) \subseteq Rows, SameRuns, tombs \subseteq tombs'
  PROVE  /\ ToSet(g) \subseteq ToSet(f) /\ IsInjective(g)
         /\ \A n \in ToSet(f) : n \in ToSet(g) \/ emitted'[n] \in tombs'
BY DEF Keeps, SameRuns, RunOf

LEMMA SavesStays ==
  ASSUME Typed, NEW f, Saves(f), SameRuns, tombs \subseteq tombs',
         acked' \ exposed' \subseteq acked \ exposed
  PROVE  \A n \in acked' \ exposed' : n \in ToSet(f) \/ emitted'[n] \in tombs'
<1>1. acked \subseteq Rows
  BY DEF Typed, RowLogTypeOK
<1> QED BY <1>1 DEF Saves, SameRuns, RunOf

LEMMA HalfStays ==
  ASSUME Typed, Half, SameRuns, tombs \subseteq tombs', db'.gen = db.gen,
         UNCHANGED <<file, tail, acked, exposed, disk, comp, strayed>>
  PROVE  Half'
<1>1. Journal' = Journal /\ Resumable' = Resumable
  BY DEF Journal, Resumable
<1>2. Replaced' = Replaced /\ Untouched' = Untouched
  BY <1>1 DEF Replaced, Untouched
<1>3. (Resumable => JournalFits)'
  <2>1. SUFFICES ASSUME Resumable PROVE JournalFits'
    BY <1>1
  <2>2. JournalFits
    BY <2>1 DEF Half
  <2>3. Keeps(Journal.original, Journal.compacted)'
    BY <2>2, <1>1, KeepsStays DEF JournalFits, Keeps, RunOf
  <2>4. ToSet(Journal.original) \subseteq Rows'
    BY <2>2 DEF JournalFits, SameRuns
  <2> QED BY <2>2, <2>3, <2>4, <1>1, <1>2 DEF JournalFits, At
<1>4. ArchivesFit'
  BY <1>1 DEF Half, ArchivesFit
<1>5. StageFits'
  <2>1. Read => ReadFits'
    <3>1. SUFFICES ASSUME Read PROVE ReadFits'
      OBVIOUS
    <3>2. ReadFits
      BY <3>1 DEF Half, StageFits
    <3>3. Saves(comp.read)'
      BY <3>2, SavesStays DEF ReadFits, Saves, RunOf
    <3>4. At("prepare") => Keeps(comp.read, disk.pending)'
      BY <3>2, KeepsStays DEF ReadFits, Keeps, RunOf
    <3> QED BY <1>1, <3>2, <3>3, <3>4 DEF ReadFits, SameRuns, At
  <2>2. Rewrites => Saves(Journal.original)'
    BY <1>1, SavesStays DEF Half, StageFits, Saves, RunOf
  <2> QED BY <1>1, <1>2, <2>1, <2>2 DEF Half, StageFits, Rewrites, Read, At
<1> QED BY <1>3, <1>4, <1>5 DEF Half

LEMMA SafeStays ==
  ASSUME Typed, RowsSurvive, SameRuns, tombs \subseteq tombs',
         UNCHANGED <<file, garbled, acked, exposed>>
  PROVE  RowsSurvive'
<1>1. acked \subseteq Rows
  BY DEF Typed, RowLogTypeOK
<1> QED BY <1>1 DEF RowsSurvive, Readable, SameRuns, RunOf

\* The rows acknowledged are in the file; what is garbled is exposed.
LEMMA SafeHere ==
  ASSUME Locks, RowsSurvive
  PROVE  Saves(file)
BY DEF RowsSurvive, Readable, Saves
LEMMA SafeThere ==
  ASSUME Locks', Saves(file)'
  PROVE  RowsSurvive'
BY DEF Locks, RowsSurvive, Readable, Saves

\* No writer takes the append lock, nor the compactor from one.
LEMMA LocksStay ==
  ASSUME Locks, UNCHANGED <<file, tail, garbled, exposed>>,
         LockHeld' => LockHeld \/ Locker = {},
         \A w \in Writers : Has(w, "locked")' => hand'[w] = hand[w]
  PROVE  Locks'
<1>1. \A w \in Writers : Has(w, "locked")' => Has(w, "locked")
  BY DEF Has
<1>2. Locker' \subseteq Locker
  BY <1>1 DEF Locker
<1>3. \A w \in Locker' : Sure(w)'
  BY <1>2 DEF Locks, Sure, Locker
<1> QED BY <1>2, <1>3 DEF Locks

LEMMA LocksFree ==
  ASSUME Locker' = {}, (garbled \subseteq exposed)'
  PROVE  Locks'
BY DEF Locks

\* The projection and the file are left alone, and a hand that changes is not
\* about to apply.
LEMMA SyncedStays ==
  ASSUME Typed, Synced, SameRuns, UNCHANGED <<file, garbled, exposed, db, disk, offline>>,
         \A w \in Writers : hand'[w] = hand[w] \/ ~Has(w, "apply")',
         KeptApart'
  PROVE  Synced'
<1>1. Settled' = Settled
  BY DEF Settled, Resumable, Journal
<1>2. EventsLie'
  BY <1>1 DEF Synced, EventsLie, Lies
<1>3. AppliesLie'
  BY DEF Synced, AppliesLie, Lies, Has
<1>4. NotAhead'
  BY DEF Synced, NotAhead
<1>5. ReadSoFar'
  <2>1. SUFFICES ASSUME Settled PROVE ReadSoFar'
    BY <1>1 DEF ReadSoFar
  <2>2. db.checkpoint[db.gen] <= Len(file) /\ db.checkpoint[db.gen] \in Nat /\ Len(file) \in Nat
    BY <2>1, DbTyped, FileTyped, RowLogAssumption DEF Synced, ReadSoFar, Offsets
  <2>3. ASSUME NEW i \in 1 .. db.checkpoint[db.gen], file[i] \notin garbled
        PROVE  /\ db.latest[emitted'[file[i]]] >= file[i]
               /\ offline => InHistory(i)
    <3>1. file[i] \in Rows
      BY <2>2, FileTyped
    <3>2. emitted'[file[i]] = RunOf(file[i])
      BY <3>1 DEF SameRuns, RunOf
    <3> QED BY <2>1, <2>3, <3>2 DEF Synced, ReadSoFar
  <2> QED BY <2>2, <2>3 DEF ReadSoFar, RunOf, InHistory
<1> QED BY <1>2, <1>3, <1>4, <1>5 DEF Synced
-----------------------------------------------------------------------------
(* Writers.                                                                *)

LEMMA HandTyped ==
  ASSUME Typed, NEW w \in Writers
  PROVE  /\ hand \in [Writers -> InHand]
         /\ Carries(w) => hand[w].row \in Row
         /\ Has(w, "locked") => hand[w].off \in Offsets
         /\ Has(w, "apply") => hand[w].row \in Row /\ hand[w].off \in Offsets
         /\ Has(w, "hide") => hand[w].run \in Runs
<1>1. hand \in [Writers -> InHand] /\ hand[w] \in InHand
  BY DEF Typed, RowLogTypeOK
<1> QED BY <1>1 DEF InHand, Has, Carries, Row

LEMMA SameRunsStay == UNCHANGED emitted => SameRuns
BY DEF SameRuns, Rows

\* What another writer has in hand is its own.
LEMMA OthersKeep ==
  ASSUME NEW v \in Writers, hand'[v] = hand[v]
  PROVE  /\ Carries(v)' = Carries(v)
         /\ Has(v, "apply")' = Has(v, "apply") /\ Has(v, "locked")' = Has(v, "locked")
BY DEF Has, Carries

\* The rows about to be appended stay out of what is new in the file.
LEMMA UnwrittenStays ==
  ASSUME Typed, SameRuns, NEW w \in Writers,
         \A v \in Writers \ {w} : hand'[v] = hand[v],
         Carries(w)' => Carries(w) /\ hand'[w].row = hand[w].row,
         \A v \in Writers : Carries(v)' =>
           /\ hand[v].row \notin ToSet(file') /\ hand[v].row # tail'
           /\ Resumable' => hand[v].row \notin ToSet(Journal'.original)
  PROVE  \A v \in Writers : Unwritten(v)'
<1>1. \A v \in Writers : Carries(v)' => Carries(v) /\ hand'[v].row = hand[v].row
  BY OthersKeep
<1>2. SUFFICES ASSUME NEW v \in Writers, Carries(v)' PROVE Unwritten(v)'
  BY DEF Unwritten
<1>3. hand[v].row \in Rows' /\ hand'[v].row = hand[v].row
  BY <1>1, <1>2 DEF Typed, Unwritten, SameRuns
<1>4. \A u \in Writers \ {v} : Carries(u)' => hand'[u].row # hand'[v].row
  BY <1>1, <1>2 DEF Typed, Unwritten
<1> QED BY <1>2, <1>3, <1>4 DEF Unwritten

\* The hand of w takes up a thing that is no append.
LEMMA HandPuts ==
  ASSUME Typed, NEW w \in Writers, NEW h \in InHand,
         h # None => h.op \in {"apply", "hide"},
         hand' = [hand EXCEPT ![w] = h], SameRuns, UNCHANGED <<file, tail, disk>>
  PROVE  /\ hand' \in [Writers -> InHand]
         /\ \A v \in Writers : Unwritten(v)'
         /\ \A v \in Writers : Has(v, "locked")' => hand'[v] = hand[v]
<1>1. hand' \in [Writers -> InHand] /\ hand'[w] = h /\ \A v \in Writers \ {w} : hand'[v] = hand[v]
  BY HandTyped
<1>2. ~Carries(w)' /\ ~Has(w, "locked")'
  BY <1>1 DEF Carries, Has
<1>3. Journal' = Journal /\ Resumable' = Resumable
  BY DEF Journal, Resumable
<1>4. ASSUME NEW v \in Writers, Carries(v)'
      PROVE  /\ hand[v].row \notin ToSet(file') /\ hand[v].row # tail'
             /\ Resumable' => hand[v].row \notin ToSet(Journal'.original)
  BY <1>1, <1>2, <1>3, <1>4, OthersKeep DEF Typed, Unwritten
<1>5. \A v \in Writers : Unwritten(v)'
  BY <1>1, <1>2, <1>4, UnwrittenStays
<1>6. \A v \in Writers : Has(v, "locked")' => hand'[v] = hand[v]
  BY <1>1, <1>2
<1> QED BY <1>1, <1>5, <1>6

LEMMA EmitKeeps ==
  ASSUME LogInv, NEW w \in Writers, NEW r \in Runs, Emit(w, r)
  PROVE  LogInv'
<1> DEFINE n == Len(emitted) + 1
<1>1. /\ Typed /\ Locks /\ Half /\ RowsSurvive /\ Synced
  BY DEF LogInv
<1>2. PICK op \in {"append", "signal"} : hand' = [hand EXCEPT ![w] = [op |-> op, row |-> n]]
  BY DEF Emit
<1>3. /\ emitted' = Append(emitted, r) /\ Len(emitted) < MaxRow /\ hand[w] = None
      /\ UNCHANGED <<file, tail, garbled, tombs, acked, exposed, db, disk, comp, offline,
                     strayed>>
      /\ offline => ~Compacting
  BY DEF Emit, MayWrite
<1>4. emitted \in Seq(Runs) /\ Len(emitted) \in Nat
  BY <1>1, FileTyped, RowLogAssumption DEF Typed, RowLogTypeOK
<1>5. /\ emitted' \in Seq(Runs) /\ Len(emitted') = n
      /\ \A i \in 1 .. Len(emitted) : emitted'[i] = emitted[i]
  BY <1>3, <1>4, AppendProperties
<1>6. /\ SameRuns /\ n \in Rows' /\ n \notin Rows /\ n \in Row /\ n # None /\ n # Fragment
  BY <1>3, <1>4, <1>5, RowLogAssumption DEF SameRuns, Rows, Row, Fragment
<1> HIDE DEF n
<1>7. /\ hand'[w] = [op |-> op, row |-> n] /\ hand' \in [Writers -> InHand]
      /\ \A v \in Writers \ {w} : hand'[v] = hand[v]
  BY <1>1, <1>2, <1>6, HandTyped DEF InHand, Row
<1>8. RowLogTypeOK'
  <2>1. Len(emitted') <= MaxRow
    BY <1>3, <1>4, <1>5, RowLogAssumption DEF n
  <2>2. /\ ToSet(file) \subseteq Rows' /\ tail \in {None, Fragment} \cup (Rows' \ ToSet(file))
        /\ acked \subseteq Rows' /\ garbled \subseteq Rows' /\ exposed \subseteq Rows'
    BY <1>1, <1>6 DEF Typed, RowLogTypeOK, SameRuns
  <2> QED BY <1>1, <1>3, <1>5, <1>7, <2>1, <2>2 DEF Typed, RowLogTypeOK
<1>9. ASSUME NEW v \in Writers PROVE Unwritten(v)'
  <2>1. Journal' = Journal /\ Resumable' = Resumable
    BY <1>3 DEF Journal, Resumable
  <2>2. \A u \in Writers \ {w} : Carries(u)' => Carries(u) /\ hand'[u] = hand[u]
    BY <1>7, OthersKeep
  <2>3. \A u \in Writers \ {w} : Carries(u) => hand[u].row \in Rows
    BY <1>1 DEF Typed, Unwritten
  <2>4. tail # n /\ n \notin ToSet(file) /\ (Resumable => n \notin ToSet(Journal.original))
    BY <1>1, <1>6 DEF Typed, RowLogTypeOK, Half, JournalFits
  <2>5. CASE v = w
    BY <2>1, <2>2, <2>3, <2>4, <2>5, <1>3, <1>6, <1>7 DEF Unwritten
  <2>6. CASE v # w
    <3>1. SUFFICES ASSUME Carries(v), hand'[v] = hand[v] PROVE Unwritten(v)'
      BY <1>7, <2>2, <2>6 DEF Unwritten
    <3>2. /\ hand[v].row \in Rows \ ToSet(file)
          /\ hand[v].row # tail
          /\ Resumable => hand[v].row \notin ToSet(Journal.original)
          /\ \A u \in Writers \ {v} : Carries(u) => hand[u].row # hand[v].row
      BY <1>1, <3>1 DEF Typed, Unwritten
    <3>3. \A u \in Writers \ {v} : Carries(u)' => hand'[u].row # hand'[v].row
      BY <3>1, <3>2, <2>2, <2>6, <1>6, <1>7
    <3> QED BY <3>1, <3>2, <3>3, <2>1, <1>3, <1>6 DEF Unwritten, SameRuns
  <2> QED BY <2>5, <2>6
<1>10. Half' /\ RowsSurvive'
  BY <1>1, <1>3, <1>6, HalfStays, SafeStays
<1>11. ~Has(w, "locked")' /\ ~Has(w, "apply")'
  BY <1>7 DEF Has
<1>12. Locks'
  BY <1>1, <1>3, <1>7, <1>11, LocksStay DEF LockHeld
<1>13. Synced'
  <2>1. KeptApart'
    BY <1>3 DEF KeptApart, Compacting
  <2> QED BY <1>1, <1>3, <1>6, <1>7, <1>11, <2>1, SyncedStays
<1> QED BY <1>8, <1>9, <1>10, <1>12, <1>13 DEF LogInv, Typed

\* The file is longer than it was.
Longer ==
  /\ file' \in Files /\ Len(file) <= Len(file')
  /\ \A i \in 1 .. Len(file) : file'[i] = file[i]

LEMMA LongerHas ==
  ASSUME Typed, Longer
  PROVE  ToSet(file) \subseteq ToSet(file')
<1>1. /\ ToSet(file) = { file[i] : i \in 1 .. Len(file) } /\ Len(file) \in Nat
      /\ ToSet(file') = { file'[i] : i \in 1 .. Len(file') } /\ Len(file') \in Nat
  BY FileTyped, FileFacts, RowLogAssumption DEF Longer
<1> QED BY <1>1 DEF Longer

LEMMA PrefixStays ==
  ASSUME Typed, Longer, NEW f \in Files, IsPrefix(f, file)
  PROVE  IsPrefix(f, file')
<1>1. /\ file \in Files /\ Len(file) \in Nat /\ file' \in Files /\ Len(file') \in Nat
      /\ Len(f) \in Nat
  BY FileTyped, FileFacts, RowLogAssumption DEF Longer
<1>2. Len(f) <= Len(file) /\ \A i \in 1 .. Len(f) : f[i] = file[i]
  BY <1>1, PrefixIs
<1>3. Len(f) <= Len(file') /\ \A i \in 1 .. Len(f) : f[i] = file'[i]
  BY <1>1, <1>2 DEF Longer
<1> QED BY <1>1, <1>3, PrefixIs

LEMMA SyncedGrows ==
  ASSUME Typed, Synced, Longer, garbled \subseteq garbled', exposed \subseteq exposed',
         UNCHANGED <<emitted, db, disk, offline>>,
         offline => \A w \in Writers : Has(w, "apply")' =>
           hand'[w] = hand[w] \/ Lies(hand[w].row, hand[w].off)',
         KeptApart'
  PROVE  Synced'
<1>1. Settled' = Settled
  BY DEF Settled, Resumable, Journal
<1>2. Len(file) \in Nat /\ Len(file') \in Nat
  BY FileTyped, FileFacts, RowLogAssumption DEF Longer
<1>3. ASSUME NEW n, NEW off \in Nat, Lies(n, off)
      PROVE  Lies(n, off)'
  BY <1>2, <1>3 DEF Lies, Longer
<1>4. Offsets \subseteq Nat
  BY RowLogAssumption DEF Offsets
<1>5. EventsLie'
  <2>1. SUFFICES ASSUME offline, Settled, NEW e \in db.events, e.gen = db.gen
                 PROVE  Lies(e.row, e.off)'
    BY <1>1 DEF EventsLie, Lies
  <2>2. e.off \in Nat
    BY <1>4, DbTyped
  <2> QED BY <2>1, <2>2, <1>3 DEF Synced, EventsLie
<1>6. AppliesLie'
  <2>1. SUFFICES ASSUME offline, NEW w \in Writers, Has(w, "apply")', hand'[w] = hand[w]
                 PROVE  Lies(hand[w].row, hand[w].off)'
    BY DEF AppliesLie, Lies
  <2>2. Has(w, "apply") /\ hand[w].off \in Nat
    BY <1>4, <2>1, HandTyped DEF Has
  <2> QED BY <2>1, <2>2, <1>3 DEF Synced, AppliesLie
<1>7. NotAhead'
  BY DEF Synced, NotAhead
<1>8. ReadSoFar'
  <2>1. SUFFICES ASSUME Settled PROVE ReadSoFar'
    BY <1>1 DEF ReadSoFar
  <2>2. db.checkpoint[db.gen] <= Len(file) /\ db.checkpoint[db.gen] \in Nat
    BY <2>1, <1>4, DbTyped DEF Synced, ReadSoFar
  <2>3. \A i \in 1 .. db.checkpoint[db.gen] : file'[i] = file[i]
    BY <1>2, <2>2 DEF Longer
  <2>4. db.checkpoint[db.gen] <= Len(file')
    BY <1>2, <2>2 DEF Longer
  <2>5. ASSUME NEW i \in 1 .. db.checkpoint[db.gen], file'[i] \notin garbled'
        PROVE  /\ db.latest[RunOf(file[i])] >= file[i]
               /\ offline => InHistory(i)'
    <3>1. /\ db.latest[RunOf(file[i])] >= file[i]
          /\ offline => InHistory(i)
      BY <2>1, <2>3, <2>5 DEF Synced, ReadSoFar
    <3> QED BY <2>3, <3>1 DEF InHistory
  <2> QED BY <2>3, <2>4, <2>5 DEF ReadSoFar, RunOf
<1> QED BY <1>5, <1>6, <1>7, <1>8 DEF Synced
-----------------------------------------------------------------------------
(* Appends.                                                                *)

\* What writing row n, whole or torn, does to a compaction, under way or half done.
LEMMA HalfGrows ==
  ASSUME Typed, Half, Longer, NEW n \in Rows,
         Resumable => n \notin ToSet(Journal.original),
         ToSet(file') \subseteq ToSet(file) \cup {n}, tail' \in {None, Fragment, n},
         Strays, Replacing => acked' \ exposed' \subseteq acked \ exposed,
         UNCHANGED <<emitted, tombs, db, disk, comp>>
  PROVE  Half'
<1>1. Journal' = Journal /\ Resumable' = Resumable /\ SameRuns
  BY SameRunsStay DEF Journal, Resumable
<1>2. strayed' = (strayed \/ file = disk.archive[db.gen] \/ comp.at = "archive")
  BY DEF Strays
<1>3. Resumable => /\ JournalFits /\ Journal.original \in Files /\ Journal.compacted \in Files
                   /\ Journal.gen \in Nat /\ db.gen \in Nat
  BY DiskTyped, DbTyped DEF Half
<1>4. Resumable /\ Replaced => Replaced'
  <2>1. SUFFICES ASSUME Resumable, Replaced PROVE Replaced'
    OBVIOUS
  <2>2. IsPrefix(Journal.compacted, file')
    BY <1>3, <2>1, PrefixStays DEF Replaced
  <2>3. ASSUME Journal.compacted = <<>>
        PROVE  ToSet(Journal.original) \cap (ToSet(file') \cup {tail'}) = {}
    <3>1. ToSet(Journal.original) \cap (ToSet(file) \cup {tail}) = {}
      BY <2>1, <2>3 DEF Replaced
    <3>2. None \notin ToSet(Journal.original) /\ Fragment \notin ToSet(Journal.original)
      BY <1>3, <2>1, FileTyped DEF JournalFits
    <3> QED BY <2>1, <3>1, <3>2
  <2> QED BY <2>2, <2>3, <1>1 DEF Replaced
<1>5. Resumable /\ IsPrefix(Journal.original, file) => IsPrefix(Journal.original, file')
  BY <1>3, PrefixStays
<1>6. (Resumable => JournalFits)'
  <2>1. SUFFICES ASSUME Resumable PROVE JournalFits'
    BY <1>1
  <2>2. db.gen # Journal.gen /\ ~strayed' => Replaced
    BY <1>2, <1>3, <2>1 DEF JournalFits, Untouched
  <2> QED BY <1>1, <1>3, <1>4, <1>5, <2>1, <2>2 DEF JournalFits, At, Keeps, RunOf, Rows
<1>7. ArchivesFit'
  BY <1>1, <1>2 DEF Half, ArchivesFit
<1>8. StageFits'
  <2>1. Read => ReadFits'
    <3>1. SUFFICES ASSUME Read PROVE ReadFits'
      OBVIOUS
    <3>2. ReadFits
      BY <3>1 DEF Half, StageFits
    <3>3. IsPrefix(comp.read, file')
      BY <3>2, DiskTyped, PrefixStays DEF ReadFits
    <3>4. strayed'
      BY <1>2, <3>1, <3>2 DEF ReadFits, Read, At
    <3>5. Saves(comp.read)'
      BY <1>1, <3>1, <3>2, SavesStays DEF ReadFits, Read, Replacing, Saves, RunOf
    <3> QED BY <1>1, <3>2, <3>3, <3>4, <3>5 DEF ReadFits, At, Keeps, RunOf, Rows
  <2>2. Rewrites => (IsPrefix(Journal.original, file) /\ Saves(Journal.original))'
    <3>1. SUFFICES ASSUME Rewrites PROVE (IsPrefix(Journal.original, file) /\ Saves(Journal.original))'
      OBVIOUS
    <3>2. Resumable /\ IsPrefix(Journal.original, file) /\ Saves(Journal.original)
      BY <3>1 DEF Half, StageFits, Rewrites
    <3>3. Saves(Journal.original)'
      BY <1>1, <3>1, <3>2, SavesStays DEF Rewrites, Replacing, Saves, RunOf
    <3> QED BY <1>1, <1>5, <3>2, <3>3
  <2> QED BY <1>1, <1>4, <2>1, <2>2 DEF Half, StageFits, Rewrites, Read, At
<1> QED BY <1>6, <1>7, <1>8 DEF Half

\* What a repair of the tail does to a compaction that died half done.
LEMMA HalfRepaired ==
  ASSUME Typed, Half, ~LockHeld, file' = Repaired, tail' = None,
         UNCHANGED <<emitted, tombs, db, disk, comp, strayed>>
  PROVE  Half'
<1>1. Journal' = Journal /\ Resumable' = Resumable
  BY DEF Journal, Resumable
<1>2. /\ Longer /\ ToSet(file') \subseteq ToSet(file) \cup {tail} /\ None \notin Rows
      /\ tail = None => file' = file
  BY RepairedFits, FileTyped DEF Longer
<1>3. Resumable => /\ JournalFits /\ Journal.original \in Files /\ Journal.compacted \in Files
  BY DiskTyped DEF Half
<1>4. Resumable /\ Replaced => Replaced'
  <2>1. SUFFICES ASSUME Resumable, Replaced PROVE Replaced'
    OBVIOUS
  <2>2. IsPrefix(Journal.compacted, file')
    BY <1>2, <1>3, <2>1, PrefixStays DEF Replaced
  <2>3. ASSUME Journal.compacted = <<>>
        PROVE  ToSet(Journal.original) \cap (ToSet(file') \cup {tail'}) = {}
    <3>1. ToSet(Journal.original) \cap (ToSet(file) \cup {tail}) = {}
      BY <2>1, <2>3 DEF Replaced
    <3>2. None \notin ToSet(Journal.original)
      BY <1>2, <1>3, <2>1 DEF JournalFits
    <3> QED BY <1>2, <3>1, <3>2
  <2> QED BY <2>2, <2>3, <1>1 DEF Replaced
<1>5. Resumable /\ IsPrefix(Journal.original, file) => IsPrefix(Journal.original, file')
  BY <1>2, <1>3, PrefixStays
<1>6. Untouched => Untouched'
  BY <1>1, <1>2 DEF Untouched
<1>7. (Resumable => JournalFits)'
  BY <1>1, <1>3, <1>4, <1>5, <1>6 DEF JournalFits, At, Keeps, RunOf, Rows
<1>8. ArchivesFit'
  BY <1>1, <1>2 DEF Half, ArchivesFit
<1>9. StageFits'
  BY <1>1 DEF Half, StageFits, At, LockHeld, Read, Rewrites
<1> QED BY <1>7, <1>8, <1>9 DEF Half

LEMMA LockAppendKeeps ==
  ASSUME LogInv, NEW w \in Writers, LockAppend(w)
  PROVE  LogInv'
<1>1. /\ Typed /\ Locks /\ Half /\ RowsSurvive /\ Synced
  BY DEF LogInv
<1> DEFINE h == [op |-> "locked", row |-> hand[w].row, off |-> Len(Repaired)]
<1>2. /\ Has(w, "append") /\ ~LockHeld /\ Locker = {}
      /\ file' = Repaired /\ tail' = None /\ hand' = [hand EXCEPT ![w] = h]
      /\ UNCHANGED <<emitted, garbled, tombs, acked, exposed, db, disk, comp, offline, strayed>>
  BY DEF LockAppend, Unlocked
<1>3. /\ file' \in Files /\ IsInjective(file') /\ Longer /\ Len(file') \in Offsets
      /\ ToSet(file') \subseteq ToSet(file) \cup {tail} /\ ToSet(file') \subseteq Rows
  BY <1>1, <1>2, RepairedFits, FileFacts DEF Longer, Offsets
<1>4. /\ hand'[w] = h /\ \A v \in Writers \ {w} : hand'[v] = hand[v]
      /\ h \in InHand /\ hand' \in [Writers -> InHand]
  BY <1>1, <1>2, <1>3, HandTyped DEF InHand, Row, Carries
<1>5. /\ ~Has(w, "apply")' /\ Carries(w) /\ SameRuns
      /\ hand'[w].row = hand[w].row /\ hand'[w].off = Len(file')
  BY <1>2, <1>4, SameRunsStay DEF Has, Carries
<1> HIDE DEF h
<1>6. RowLogTypeOK'
  BY <1>1, <1>2, <1>3, <1>4 DEF Typed, RowLogTypeOK, Rows
<1>7. \A v \in Writers : Unwritten(v)'
  <2>1. Journal' = Journal /\ Resumable' = Resumable
    BY <1>2 DEF Journal, Resumable
  <2>2. None \notin Rows
    BY <1>1, FileTyped
  <2>3. ASSUME NEW v \in Writers, Carries(v)'
        PROVE  /\ hand[v].row \notin ToSet(file') /\ hand[v].row # tail'
               /\ Resumable' => hand[v].row \notin ToSet(Journal'.original)
    <3>1. Carries(v)
      BY <1>4, <1>5, <2>3, OthersKeep
    <3> QED BY <1>1, <1>2, <1>3, <2>1, <2>2, <3>1 DEF Typed, Unwritten
  <2> QED BY <1>1, <1>4, <1>5, <2>3, UnwrittenStays
<1>8. Locks'
  <2>1. \A v \in Writers \ {w} : ~Has(v, "locked")'
    BY <1>2, <1>4, OthersKeep DEF Locker
  <2>2. Locker' \subseteq {w}
    BY <2>1 DEF Locker
  <2>3. Sure(w)'
    BY <1>2, <1>5 DEF Sure
  <2> QED BY <1>1, <1>2, <2>2, <2>3 DEF Locks, LockHeld
<1>9. Half'
  <2>1. strayed' = strayed /\ acked' = acked /\ exposed' = exposed
    BY <1>2
  <2> QED BY <1>1, <1>2, <2>1, HalfRepaired
<1>10. RowsSurvive'
  <2>1. Saves(file)'
    BY <1>1, <1>2, <1>3, LongerHas, SafeHere DEF Saves, RunOf
  <2> QED BY <1>8, <2>1, SafeThere
<1>11. Synced'
  <2>1. KeptApart'
    BY <1>1, <1>2 DEF Synced, KeptApart, Compacting, Has
  <2> QED BY <1>1, <1>2, <1>3, <1>4, <1>5, <2>1, SyncedGrows
<1> QED BY <1>6, <1>7, <1>8, <1>9, <1>10, <1>11 DEF LogInv, Typed

\* Writing a row, as a line or as part of one.
Puts(n) == PutLine(n) \/ PutPart(n)
LEMMA PutFacts ==
  ASSUME Typed, NEW w \in Writers, Carries(w), Puts(hand[w].row), UNCHANGED emitted
  PROVE  /\ hand[w].row \in Rows \ ToSet(file)
         /\ Resumable => hand[w].row \notin ToSet(Journal.original)
         /\ Longer /\ IsInjective(file') /\ ToSet(file') \subseteq Rows
         /\ ToSet(file') \subseteq ToSet(file) \cup {hand[w].row}
         /\ tail' \in {None, Fragment, hand[w].row}
         /\ tail' \in {None, Fragment} \cup (Rows \ ToSet(file'))
         /\ garbled \subseteq garbled' /\ garbled' \subseteq garbled \cup {hand[w].row}
         /\ tail = None => garbled' = garbled
         /\ \A v \in Writers \ {w} : Carries(v) =>
              hand[v].row \notin ToSet(file') /\ hand[v].row # tail'
<1> DEFINE n == hand[w].row
<1>1. /\ n \in Rows \ ToSet(file) /\ n # tail
      /\ Resumable => n \notin ToSet(Journal.original)
      /\ \A v \in Writers \ {w} : Carries(v) =>
           hand[v].row # n /\ hand[v].row \in Rows \ ToSet(file)
  BY DEF Typed, Unwritten
<1>2. n \in Row /\ None \notin Rows /\ Fragment \notin Rows
  BY <1>1, FileTyped
<1> HIDE DEF n
<1>3. CASE PutLine(n)
  <2>1. file' = Append(file, n) /\ tail' = None
        /\ garbled' = IF tail = None THEN garbled ELSE garbled \cup {n}
    BY <1>3 DEF PutLine
  <2>2. /\ file' \in Files /\ IsInjective(file') /\ ToSet(file') = ToSet(file) \cup {n}
        /\ Len(file') = Len(file) + 1 /\ \A i \in 1 .. Len(file) : file'[i] = file[i]
    BY <1>1, <1>2, <2>1, FileTyped, AppendFits
  <2>3. Longer
    BY <2>2, FileTyped, RowLogAssumption DEF Longer
  <2> QED BY <1>1, <1>2, <2>1, <2>2, <2>3, FileTyped DEF n
<1>4. CASE PutPart(n)
  <2>1. tail' \in {Fragment, n} /\ file' = file /\ garbled' = garbled
    BY <1>4 DEF PutPart
  <2>2. Longer
    BY <2>1, FileTyped, RowLogAssumption DEF Longer
  <2> QED BY <1>1, <1>2, <2>1, <2>2, FileTyped DEF n
<1> QED BY <1>3, <1>4 DEF Puts, n

\* A step that writes the row in hand, and lets go of it.
LEMMA PutKeeps ==
  ASSUME Typed, Locks, Half, RowsSurvive, Synced,
         NEW w \in Writers, Carries(w), Puts(hand[w].row),
         NEW h \in InHand, h # None => h.op = "apply", hand' = [hand EXCEPT ![w] = h],
         Strays, Locks', acked' \subseteq Rows, exposed' \subseteq Rows, exposed \subseteq exposed',
         Replacing => acked' \ exposed' \subseteq acked \ exposed,
         \A m \in acked' \ exposed' : m \in acked \/ m \in ToSet(file'),
         h # None => h.row \in exposed' \/ (file'[h.off + 1] = h.row /\ h.off < Len(file')),
         UNCHANGED <<emitted, tombs, db, disk, comp, offline>>
  PROVE  LogInv'
<1>1. /\ hand[w].row \in Rows /\ (Resumable => hand[w].row \notin ToSet(Journal.original))
      /\ Longer /\ IsInjective(file') /\ ToSet(file') \subseteq Rows
      /\ ToSet(file') \subseteq ToSet(file) \cup {hand[w].row}
      /\ tail' \in {None, Fragment, hand[w].row}
      /\ tail' \in {None, Fragment} \cup (Rows \ ToSet(file'))
      /\ garbled \subseteq garbled' /\ garbled' \subseteq garbled \cup {hand[w].row}
      /\ \A v \in Writers \ {w} : Carries(v) =>
           hand[v].row \notin ToSet(file') /\ hand[v].row # tail'
  BY PutFacts
<1>2. hand'[w] = h /\ \A v \in Writers \ {w} : hand'[v] = hand[v]
  BY HandTyped
<1>3. hand' \in [Writers -> InHand]
  BY HandTyped
<1>4. ~Carries(w)' /\ SameRuns
  <2>1. ~Carries(w)'
    BY <1>2 DEF Has, Carries
  <2>2. SameRuns
    BY SameRunsStay
  <2> QED BY <2>1, <2>2
<1>5. RowLogTypeOK'
  <2>1. strayed' \in BOOLEAN
    BY DEF Strays, Typed, RowLogTypeOK
  <2> QED BY <1>1, <1>3, <2>1 DEF Typed, RowLogTypeOK, Rows, Longer
<1>6. \A v \in Writers : Unwritten(v)'
  <2>1. Journal' = Journal /\ Resumable' = Resumable
    BY DEF Journal, Resumable
  <2>2. ASSUME NEW v \in Writers, Carries(v)'
        PROVE  /\ hand[v].row \notin ToSet(file') /\ hand[v].row # tail'
               /\ Resumable' => hand[v].row \notin ToSet(Journal'.original)
    BY <1>1, <1>2, <1>4, <2>1, <2>2, OthersKeep DEF Typed, Unwritten
  <2> QED BY <1>2, <1>4, <2>2, UnwrittenStays
<1>7. Half'
  BY <1>1, HalfGrows
<1>8. RowsSurvive'
  <2>1. Saves(file)'
    BY <1>1, LongerHas, SafeHere DEF Saves, RunOf
  <2> QED BY <2>1, SafeThere
<1>9. Synced'
  <2>1. KeptApart'
    BY DEF Synced, KeptApart, Compacting, Has, Carries
  <2>2. Has(w, "apply")' => Lies(hand[w].row, hand[w].off)'
    BY <1>2 DEF Has, Lies
  <2> QED BY <1>1, <1>2, <2>1, <2>2, SyncedGrows
<1> QED BY <1>5, <1>6, <1>7, <1>8, <1>9 DEF LogInv, Typed

LEMMA NothingLocked ==
  ASSUME Typed, Locks, NEW w \in Writers, Has(w, "locked"), NEW h, h # None => h.op # "locked",
         hand' = [hand EXCEPT ![w] = h]
  PROVE  Locker' = {} /\ ~LockHeld /\ Sure(w)
<1>1. hand'[w] = h /\ \A v \in Writers \ {w} : hand'[v] = hand[v]
  BY HandTyped
<1>2. \A v \in Writers \ {w} : ~Has(v, "locked")'
  BY <1>1, OthersKeep DEF Locks, Locker
<1>3. ~Has(w, "locked")'
  BY <1>1 DEF Has
<1> QED BY <1>2, <1>3 DEF Locks, Locker

LEMMA AppendRowKeeps ==
  ASSUME LogInv, NEW w \in Writers, AppendRow(w)
  PROVE  LogInv'
<1> DEFINE n == hand[w].row
           h == [op |-> "apply", row |-> n, off |-> hand[w].off]
<1>1. /\ Typed /\ Locks /\ Half /\ RowsSurvive /\ Synced
  BY DEF LogInv
<1>2. /\ Has(w, "locked") /\ Carries(w) /\ PutLine(n) /\ Puts(n)
      /\ acked' = acked \cup {n} /\ hand' = [hand EXCEPT ![w] = h] /\ Strays
      /\ UNCHANGED <<emitted, tombs, exposed, db, disk, comp, offline>>
  BY DEF AppendRow, Carries, Puts
<1>3. h \in InHand /\ h.op = "apply" /\ h.row = n /\ h.off = hand[w].off
  BY <1>1, <1>2, HandTyped DEF InHand, Row, Has
<1>4. n \in Rows \ ToSet(file) /\ n \in Row /\ garbled' \subseteq garbled \cup {n}
      /\ (tail = None => garbled' = garbled)
  BY <1>1, <1>2, PutFacts, FileTyped
<1>5. /\ file' = Append(file, n) /\ ToSet(file') = ToSet(file) \cup {n}
      /\ Len(file') = Len(file) + 1 /\ file'[Len(file) + 1] = n
  BY <1>1, <1>2, <1>4, FileTyped, AppendFits DEF PutLine
<1> HIDE DEF h
<1>6. Locker' = {} /\ ~LockHeld /\ Sure(w)
  BY <1>1, <1>2, <1>3, NothingLocked
<1>7. Locks'
  BY <1>1, <1>2, <1>4, <1>6, LocksFree DEF Locks, Sure
<1>8. h.row \in exposed' \/ (file'[h.off + 1] = h.row /\ h.off < Len(file'))
  <2>1. Len(file) \in Nat
    BY <1>1, FileTyped, RowLogAssumption
  <2> QED BY <1>2, <1>3, <1>5, <1>6, <2>1 DEF Sure
<1>9. acked' \subseteq Rows /\ exposed' \subseteq Rows
  BY <1>1, <1>2, <1>4 DEF Typed, RowLogTypeOK
<1>10. ~Replacing
  BY <1>6 DEF Replacing, LockHeld
<1>11. \A m \in acked' \ exposed' : m \in acked \/ m \in ToSet(file')
  BY <1>2, <1>5
<1> HIDE DEF n
<1>12. Puts(hand[w].row)
  BY <1>2 DEF n
<1>13. h # None => h.op = "apply"
  BY <1>3
<1> QED BY <1>1, <1>2, <1>3, <1>7, <1>8, <1>9, <1>10, <1>11, <1>12, <1>13, PutKeeps

LEMMA TornAppendKeeps ==
  ASSUME LogInv, NEW w \in Writers, TornAppend(w)
  PROVE  LogInv'
<1>1. /\ Typed /\ Locks /\ Half /\ RowsSurvive /\ Synced
  BY DEF LogInv
<1>2. /\ Has(w, "locked") /\ Carries(w) /\ Puts(hand[w].row) /\ garbled' = garbled
      /\ hand' = [hand EXCEPT ![w] = None] /\ Strays
      /\ UNCHANGED <<emitted, tombs, acked, exposed, db, disk, comp, offline>>
  BY DEF TornAppend, Carries, Puts, PutPart
<1>3. Locker' = {}
  BY <1>1, <1>2, NothingLocked
<1>4. Locks'
  BY <1>1, <1>2, <1>3, LocksFree DEF Locks
<1>5. None \in InHand /\ acked' \subseteq Rows /\ exposed' \subseteq Rows
  BY <1>1, <1>2 DEF InHand, Typed, RowLogTypeOK
<1> QED BY <1>1, <1>2, <1>4, <1>5, PutKeeps

\* A signal handler's append leaves the lock alone, and who holds it exposed.
LEMMA LocksExposed ==
  ASSUME Typed, Locks, NEW w \in Writers, Has(w, "signal"), hand' = [hand EXCEPT ![w] = None],
         ExposesLocked \subseteq exposed', (garbled \subseteq exposed)', UNCHANGED comp
  PROVE  Locks' /\ ExposesLocked \subseteq Rows
<1>1. hand'[w] = None /\ \A v \in Writers \ {w} : hand'[v] = hand[v]
  BY HandTyped
<1>2. ~Has(w, "locked") /\ ~Has(w, "locked")'
  BY <1>1 DEF Has
<1>3. Locker' = Locker /\ \A v \in Locker : hand'[v] = hand[v]
  BY <1>1, <1>2, OthersKeep DEF Locker
<1>4. \A v \in Locker' : Sure(v)'
  BY <1>3 DEF Sure, ExposesLocked
<1>5. ExposesLocked \subseteq Rows
  BY DEF ExposesLocked, Locker, Typed, Unwritten, Carries
<1> QED BY <1>3, <1>4, <1>5 DEF Locks, LockHeld

LEMMA SignalAppendKeeps ==
  ASSUME LogInv, NEW w \in Writers, SignalAppend(w)
  PROVE  LogInv'
<1> DEFINE n == hand[w].row
<1>1. /\ Typed /\ Locks /\ Half /\ RowsSurvive /\ Synced
  BY DEF LogInv
<1>2. /\ Has(w, "signal") /\ Carries(w) /\ PutLine(n) /\ Puts(n)
      /\ acked' = acked \cup {n} /\ hand' = [hand EXCEPT ![w] = None] /\ Strays
      /\ exposed' = exposed \cup ExposesLocked
                    \cup (IF tail # None \/ Replacing THEN {n} ELSE {})
      /\ UNCHANGED <<emitted, tombs, db, disk, comp, offline>>
  BY DEF SignalAppend, Carries, Puts
<1>3. n \in Rows \ ToSet(file) /\ n \in Row /\ garbled' \subseteq garbled \cup {n}
      /\ (tail = None => garbled' = garbled)
  BY <1>1, <1>2, PutFacts, FileTyped
<1>4. ToSet(file') = ToSet(file) \cup {n}
  BY <1>1, <1>2, <1>3, FileTyped, AppendFits DEF PutLine
<1> HIDE DEF n
<1>5. (garbled \subseteq exposed)' /\ exposed \subseteq exposed'
  BY <1>1, <1>2, <1>3 DEF Locks
<1>6. Locks' /\ ExposesLocked \subseteq Rows
  BY <1>1, <1>2, <1>5, LocksExposed
<1>7. acked' \subseteq Rows /\ exposed' \subseteq Rows
  BY <1>1, <1>2, <1>3, <1>6 DEF Typed, RowLogTypeOK
<1>8. Replacing => acked' \ exposed' \subseteq acked \ exposed
  BY <1>2
<1>9. \A m \in acked' \ exposed' : m \in acked \/ m \in ToSet(file')
  BY <1>2, <1>4
<1>10. None \in InHand /\ Puts(hand[w].row)
  BY <1>2 DEF InHand, n
<1> QED BY <1>1, <1>2, <1>5, <1>6, <1>7, <1>8, <1>9, <1>10, PutKeeps

LEMMA TornSignalKeeps ==
  ASSUME LogInv, NEW w \in Writers, TornSignal(w)
  PROVE  LogInv'
<1>1. /\ Typed /\ Locks /\ Half /\ RowsSurvive /\ Synced
  BY DEF LogInv
<1>2. /\ Has(w, "signal") /\ Carries(w) /\ Puts(hand[w].row) /\ garbled' = garbled
      /\ hand' = [hand EXCEPT ![w] = None] /\ Strays
      /\ exposed' = exposed \cup ExposesLocked
      /\ UNCHANGED <<emitted, tombs, acked, db, disk, comp, offline>>
  BY DEF TornSignal, Carries, Puts, PutPart
<1>3. (garbled \subseteq exposed)' /\ exposed \subseteq exposed'
  BY <1>1, <1>2 DEF Locks
<1>4. Locks' /\ ExposesLocked \subseteq Rows
  BY <1>1, <1>2, <1>3, LocksExposed
<1>5. None \in InHand /\ acked' \subseteq Rows /\ exposed' \subseteq Rows
  BY <1>1, <1>2, <1>4 DEF InHand, Typed, RowLogTypeOK
<1>6. acked' \ exposed' \subseteq acked \ exposed
  BY <1>2, <1>3
<1> QED BY <1>1, <1>2, <1>3, <1>4, <1>5, <1>6, PutKeeps
LEMMA ForgetKeeps ==
  ASSUME LogInv, NEW w \in Writers, Forget(w)
  PROVE  LogInv'
<1>1. /\ Typed /\ Locks /\ Half /\ RowsSurvive /\ Synced
  BY DEF LogInv
<1>2. /\ hand' = [hand EXCEPT ![w] = None]
      /\ UNCHANGED <<emitted, file, tail, garbled, acked, exposed, strayed, tombs, db, disk,
                     comp, offline>>
  BY DEF Forget, logVars
<1>3. SameRuns /\ None \in InHand
  BY <1>2, SameRunsStay DEF InHand
<1>4. /\ hand' \in [Writers -> InHand] /\ \A v \in Writers : Unwritten(v)'
      /\ \A v \in Writers : Has(v, "locked")' => hand'[v] = hand[v]
  BY <1>1, <1>2, <1>3, HandPuts
<1>5. RowLogTypeOK'
  BY <1>1, <1>2, <1>4 DEF Typed, RowLogTypeOK, Rows
<1>6. Half' /\ RowsSurvive' /\ Locks'
  <2>1. Half' /\ RowsSurvive'
    BY <1>1, <1>2, <1>3, HalfStays, SafeStays
  <2>2. Locks'
    BY <1>1, <1>2, <1>4, LocksStay DEF LockHeld
  <2> QED BY <2>1, <2>2
<1>7. Synced'
  <2>1. KeptApart'
    BY <1>1, <1>2, HandTyped DEF Synced, KeptApart, Compacting
  <2>2. \A u \in Writers : hand'[u] = hand[u] \/ ~Has(u, "apply")'
    BY <1>1, <1>2, HandTyped DEF Has
  <2> QED BY <1>1, <1>2, <1>3, <2>1, <2>2, SyncedStays
<1> QED BY <1>4, <1>5, <1>6, <1>7 DEF LogInv, Typed

LEMMA DeleteKeeps ==
  ASSUME LogInv, NEW w \in Writers, NEW r \in Runs, Delete(w, r)
  PROVE  LogInv'
<1>1. /\ Typed /\ Locks /\ Half /\ RowsSurvive /\ Synced
  BY DEF LogInv
<1> DEFINE h == [op |-> "hide", run |-> r]
<1>2. /\ hand' = [hand EXCEPT ![w] = h] /\ tombs' = tombs \cup {r}
      /\ offline => ~Compacting
      /\ UNCHANGED <<emitted, file, tail, garbled, acked, exposed, strayed, db, disk, comp,
                     offline>>
  BY DEF Delete, logVars, MayWrite
<1>3. SameRuns /\ h \in InHand /\ h.op = "hide"
  BY <1>2, SameRunsStay DEF InHand
<1>4. /\ hand' \in [Writers -> InHand] /\ \A v \in Writers : Unwritten(v)'
      /\ \A v \in Writers : Has(v, "locked")' => hand'[v] = hand[v]
  <2> HIDE DEF h
  <2> QED BY <1>1, <1>2, <1>3, HandPuts
<1>5. RowLogTypeOK'
  BY <1>1, <1>2, <1>4 DEF Typed, RowLogTypeOK, Rows
<1>6. Half' /\ RowsSurvive' /\ Locks'
  <2>1. Half' /\ RowsSurvive'
    BY <1>1, <1>2, <1>3, HalfStays, SafeStays
  <2>2. Locks'
    BY <1>1, <1>2, <1>4, LocksStay DEF LockHeld
  <2> QED BY <2>1, <2>2
<1>7. Synced'
  <2>1. KeptApart'
    BY <1>2 DEF KeptApart, Compacting
  <2>2. \A u \in Writers : hand'[u] = hand[u] \/ ~Has(u, "apply")'
    BY <1>1, <1>2, <1>3, HandTyped DEF Has
  <2> QED BY <1>1, <1>2, <1>3, <2>1, <2>2, SyncedStays
<1> QED BY <1>4, <1>5, <1>6, <1>7 DEF LogInv, Typed
-----------------------------------------------------------------------------
(* The projection.                                                         *)

\* Applying a row, which is where the file has it if compactions kept apart.
LEMMA SyncedApplies ==
  ASSUME Typed, Synced, UNCHANGED <<emitted, file, garbled, exposed, disk, offline>>,
         db'.gen = db.gen, db'.checkpoint = db.checkpoint, db.events \subseteq db'.events,
         \A e \in db'.events \ db.events :
           e.gen = db.gen /\ (offline => Lies(e.row, e.off)),
         \A r \in Runs : db'.latest[r] \in Nat /\ db'.latest[r] >= db.latest[r],
         \A w \in Writers : hand'[w] = hand[w] \/ ~Has(w, "apply")',
         KeptApart'
  PROVE  Synced'
<1>1. Settled' = Settled
  BY DEF Settled, Resumable, Journal
<1>2. EventsLie'
  BY <1>1 DEF Synced, EventsLie, Lies
<1>3. AppliesLie'
  BY DEF Synced, AppliesLie, Lies, Has
<1>4. NotAhead'
  BY DbTyped DEF Synced, NotAhead
<1>5. ReadSoFar'
  <2>1. SUFFICES ASSUME Settled PROVE ReadSoFar'
    BY <1>1 DEF ReadSoFar
  <2>2. db.checkpoint[db.gen] <= Len(file) /\ db.checkpoint[db.gen] \in Nat /\ Len(file) \in Nat
    BY <2>1, DbTyped, FileTyped, RowLogAssumption DEF Synced, ReadSoFar, Offsets
  <2>3. ASSUME NEW i \in 1 .. db.checkpoint[db.gen], file[i] \notin garbled
        PROVE  /\ db'.latest[RunOf(file[i])] >= file[i]
               /\ offline => InHistory(i)'
    <3>1. file[i] \in Rows /\ file[i] \in Nat /\ RunOf(file[i]) \in Runs
      BY <2>2, FileTyped DEF Rows
    <3>2. /\ db.latest[RunOf(file[i])] >= file[i] /\ db.latest[RunOf(file[i])] \in Nat
          /\ offline => InHistory(i)
      BY <2>1, <2>3, <3>1, DbTyped, RowLogAssumption DEF Synced, ReadSoFar
    <3>3. db'.latest[RunOf(file[i])] >= db.latest[RunOf(file[i])]
          /\ db'.latest[RunOf(file[i])] \in Nat
      BY <3>1
    <3> QED BY <3>1, <3>2, <3>3 DEF InHistory
  <2> QED BY <2>2, <2>3 DEF ReadSoFar, RunOf
<1> QED BY <1>2, <1>3, <1>4, <1>5 DEF Synced

LEMMA AppliedFacts ==
  ASSUME Typed, NEW n \in Row, NEW off \in Offsets
  PROVE  LET d == Applied(db, n, off) IN
         /\ d \in Projection /\ d.gen = db.gen /\ d.checkpoint = db.checkpoint
         /\ db.events \subseteq d.events
         /\ \A e \in d.events \ db.events : e.gen = db.gen /\ e.off = off /\ e.row = n
         /\ \A r \in Runs : d.latest[r] \in Nat /\ d.latest[r] >= db.latest[r]
<1> DEFINE E == IF Filed(db, off) THEN db.events
                ELSE db.events \cup {[gen |-> db.gen, off |-> off, row |-> n]}
           L == [db.latest EXCEPT ![RunOf(n)] = Newest(@, n)]
           d == Applied(db, n, off)
<1>1. /\ db \in Projection /\ db.gen \in 1 .. MaxGen
      /\ db.latest \in [Runs -> 0 .. MaxRow] /\ db.hidden \subseteq Runs
      /\ db.checkpoint \in [1 .. MaxGen -> Offsets]
      /\ db.events \subseteq [gen : 1 .. MaxGen, off : Offsets, row : 1 .. MaxRow]
  BY DbTyped
<1>2. d = [db EXCEPT !.events = E, !.latest = L]
  BY <1>1 DEF Applied, Projection
<1>3. /\ d.events = E /\ d.latest = L
      /\ d.hidden = db.hidden /\ d.gen = db.gen /\ d.checkpoint = db.checkpoint
  <2> HIDE DEF E, L, d
  <2> QED BY <1>1, <1>2 DEF Projection
<1>4. E \subseteq [gen : 1 .. MaxGen, off : Offsets, row : 1 .. MaxRow] /\ db.events \subseteq E
  BY <1>1 DEF Row
<1>5. \A e \in E \ db.events : e.gen = db.gen /\ e.off = off /\ e.row = n
  OBVIOUS
<1>6. L \in [Runs -> 0 .. MaxRow] /\ \A r \in Runs : L[r] \in Nat /\ L[r] >= db.latest[r]
  <2>1. n \in 0 .. MaxRow /\ 0 .. MaxRow \subseteq Nat
    BY RowLogAssumption DEF Row
  <2>2. \A r \in Runs : L[r] = db.latest[r] \/ L[r] = Newest(db.latest[r], n)
    BY <1>1
  <2>3. \A r \in Runs : /\ Newest(db.latest[r], n) \in 0 .. MaxRow
                        /\ Newest(db.latest[r], n) >= db.latest[r]
    BY <1>1, <2>1 DEF Newest
  <2>4. L = [r \in Runs |-> L[r]]
    BY <1>1
  <2> HIDE DEF L
  <2> QED BY <1>1, <2>1, <2>2, <2>3, <2>4
<1> HIDE DEF E, L, d
<1>7. d \in Projection
  BY <1>1, <1>2, <1>4, <1>6 DEF Projection
<1> QED BY <1>3, <1>4, <1>5, <1>6, <1>7 DEF d

LEMMA ApplyLiveKeeps ==
  ASSUME LogInv, NEW w \in Writers, ApplyLive(w)
  PROVE  LogInv'
<1>1. /\ Typed /\ Locks /\ Half /\ RowsSurvive /\ Synced
  BY DEF LogInv
<1>2. /\ Has(w, "apply") /\ db' = Applied(db, hand[w].row, hand[w].off)
      /\ hand' = [hand EXCEPT ![w] = None]
      /\ UNCHANGED <<emitted, file, tail, garbled, acked, exposed, strayed, tombs, disk, comp,
                     offline>>
  BY DEF ApplyLive, logVars
<1>3. SameRuns /\ None \in InHand
  BY <1>2, SameRunsStay DEF InHand
<1>4. /\ hand' \in [Writers -> InHand] /\ \A v \in Writers : Unwritten(v)'
      /\ \A v \in Writers : Has(v, "locked")' => hand'[v] = hand[v]
  BY <1>1, <1>2, <1>3, HandPuts
<1>5. /\ db' \in Projection /\ db'.gen = db.gen /\ db'.checkpoint = db.checkpoint
      /\ db.events \subseteq db'.events
      /\ \A e \in db'.events \ db.events :
           e.gen = db.gen /\ e.off = hand[w].off /\ e.row = hand[w].row
      /\ \A r \in Runs : db'.latest[r] \in Nat /\ db'.latest[r] >= db.latest[r]
  BY <1>1, <1>2, HandTyped, AppliedFacts
<1>6. RowLogTypeOK'
  BY <1>1, <1>2, <1>4, <1>5 DEF Typed, RowLogTypeOK, Rows
<1>7. Half' /\ RowsSurvive' /\ Locks'
  <2>1. Half' /\ RowsSurvive'
    BY <1>1, <1>2, <1>3, <1>5, HalfStays, SafeStays
  <2>2. Locks'
    BY <1>1, <1>2, <1>4, LocksStay DEF LockHeld
  <2> QED BY <2>1, <2>2
<1>8. Synced'
  <2>1. KeptApart'
    BY <1>1, <1>2, HandTyped DEF Synced, KeptApart, Compacting
  <2>2. \A u \in Writers : hand'[u] = hand[u] \/ ~Has(u, "apply")'
    BY <1>1, <1>2, HandTyped DEF Has
  <2>3. offline => Lies(hand[w].row, hand[w].off)
    BY <1>1, <1>2 DEF Synced, AppliesLie
  <2> QED BY <1>1, <1>2, <1>5, <2>1, <2>2, <2>3, SyncedApplies
<1> QED BY <1>4, <1>6, <1>7, <1>8 DEF LogInv, Typed

LEMMA HiddenFacts ==
  ASSUME NEW d \in Projection, NEW runs, runs \subseteq Runs
  PROVE  /\ Hidden(d, runs) \in Projection
         /\ Hidden(d, runs).gen = d.gen /\ Hidden(d, runs).checkpoint = d.checkpoint
         /\ Hidden(d, runs).events = d.events /\ Hidden(d, runs).latest = d.latest
         /\ Hidden(d, runs).hidden = d.hidden \cup { r \in runs : d.latest[r] # 0 }
BY DEF Hidden, Projection

LEMMA HideKeeps ==
  ASSUME LogInv, NEW w \in Writers, Hide(w)
  PROVE  LogInv'
<1>1. /\ Typed /\ Locks /\ Half /\ RowsSurvive /\ Synced
  BY DEF LogInv
<1>2. /\ Has(w, "hide") /\ db' = Hidden(db, {hand[w].run})
      /\ hand' = [hand EXCEPT ![w] = None]
      /\ UNCHANGED <<emitted, file, tail, garbled, acked, exposed, strayed, tombs, disk, comp,
                     offline>>
  BY DEF Hide, logVars
<1>3. SameRuns /\ None \in InHand
  BY <1>2, SameRunsStay DEF InHand
<1>4. /\ hand' \in [Writers -> InHand] /\ \A v \in Writers : Unwritten(v)'
      /\ \A v \in Writers : Has(v, "locked")' => hand'[v] = hand[v]
  BY <1>1, <1>2, <1>3, HandPuts
<1>5. /\ db' \in Projection /\ db'.gen = db.gen /\ db'.checkpoint = db.checkpoint
      /\ db'.events = db.events /\ db'.latest = db.latest
  BY <1>1, <1>2, HandTyped, DbTyped, HiddenFacts
<1>6. RowLogTypeOK'
  BY <1>1, <1>2, <1>4, <1>5 DEF Typed, RowLogTypeOK, Rows
<1>7. Half' /\ RowsSurvive' /\ Locks'
  <2>1. Half' /\ RowsSurvive'
    BY <1>1, <1>2, <1>3, <1>5, HalfStays, SafeStays
  <2>2. Locks'
    BY <1>1, <1>2, <1>4, LocksStay DEF LockHeld
  <2> QED BY <2>1, <2>2
<1>8. Synced'
  <2>1. KeptApart'
    BY <1>1, <1>2, HandTyped DEF Synced, KeptApart, Compacting
  <2>2. \A u \in Writers : hand'[u] = hand[u] \/ ~Has(u, "apply")'
    BY <1>1, <1>2, HandTyped DEF Has
  <2>3. \A r \in Runs : db'.latest[r] \in Nat /\ db'.latest[r] >= db.latest[r]
    BY <1>1, <1>5, DbTyped, RowLogAssumption
  <2> QED BY <1>1, <1>2, <1>5, <2>1, <2>2, <2>3, SyncedApplies
<1> QED BY <1>4, <1>6, <1>7, <1>8 DEF LogInv, Typed

\* What a rebuild reads and files.
LEMMA RebuiltFacts ==
  ASSUME Typed
  PROVE  LET d == Rebuilt(db)
             from == StartOf(db)
             read == { i \in from + 1 .. Len(file) : file[i] \notin garbled }
         IN
         /\ d \in Projection /\ d.gen = db.gen
         /\ from \in Nat /\ (db.checkpoint[db.gen] <= Len(file) => from = db.checkpoint[db.gen])
         /\ d.checkpoint = [db.checkpoint EXCEPT ![db.gen] = Len(file)]
         /\ db.events \subseteq d.events
         /\ \A e \in d.events \ db.events :
              \E i \in read : e = [gen |-> db.gen, off |-> i - 1, row |-> file[i]]
         /\ \A i \in read :
              \/ Filed(db, i - 1)
              \/ [gen |-> db.gen, off |-> i - 1, row |-> file[i]] \in d.events
         /\ \A r \in Runs : d.latest[r] \in Nat /\ d.latest[r] >= db.latest[r]
         /\ \A i \in read : d.latest[RunOf(file[i])] >= file[i]
         /\ \A r \in tombs : d.latest[r] # 0 => r \in d.hidden
<1> DEFINE from == StartOf(db)
           read == { i \in from + 1 .. Len(file) : file[i] \notin garbled }
           rowsOf(r) == { n \in { file[i] : i \in read } : RunOf(n) = r }
           E == db.events \cup { [gen |-> db.gen, off |-> i - 1, row |-> file[i]] :
                                 i \in { j \in read : ~Filed(db, j - 1) } }
           L == [r \in Runs |-> Max({db.latest[r]} \cup rowsOf(r))]
           C == [db.checkpoint EXCEPT ![db.gen] = Len(file)]
           m == ReadOn(db)
           d == Rebuilt(db)
<1>1. /\ db \in Projection /\ db.gen \in 1 .. MaxGen
      /\ db.latest \in [Runs -> 0 .. MaxRow] /\ db.hidden \subseteq Runs
      /\ db.checkpoint \in [1 .. MaxGen -> Offsets] /\ Offsets = 0 .. MaxRow
      /\ db.events \subseteq [gen : 1 .. MaxGen, off : Offsets, row : 1 .. MaxRow]
      /\ MaxRow \in Nat
  BY DbTyped, RowLogAssumption DEF Offsets
<1>2. /\ Len(file) \in 0 .. MaxRow /\ Len(file) \in Nat
      /\ \A i \in 1 .. Len(file) : file[i] \in Rows /\ file[i] \in 1 .. MaxRow
                                   /\ RunOf(file[i]) \in Runs
  BY FileTyped, RowLogAssumption DEF Row
<1>3. from \in Nat /\ (db.checkpoint[db.gen] <= Len(file) => from = db.checkpoint[db.gen])
  <2>1. db.checkpoint[db.gen] \in Nat
    <3>1. db.checkpoint[db.gen] \in 0 .. MaxRow
      BY DbTyped DEF Offsets
    <3> QED BY <3>1, RowLogAssumption
  <2>2. from = IF Len(file) < db.checkpoint[db.gen] THEN 0 ELSE db.checkpoint[db.gen]
    BY DEF StartOf
  <2> HIDE DEF from
  <2> QED BY <1>2, <2>1, <2>2
<1>4. \A i \in read : i \in 1 .. Len(file) /\ i - 1 \in Offsets
  <2> HIDE DEF from
  <2> QED BY <1>1, <1>2, <1>3
<1> HIDE DEF from
<1>5. E \subseteq [gen : 1 .. MaxGen, off : Offsets, row : 1 .. MaxRow]
  BY <1>1, <1>2, <1>4
<1>6. ASSUME NEW r \in Runs
      PROVE  /\ L[r] \in 0 .. MaxRow /\ L[r] \in Nat /\ L[r] >= db.latest[r]
             /\ \A n \in rowsOf(r) : L[r] >= n
  <2> DEFINE S == {db.latest[r]} \cup rowsOf(r)
  <2>1. S # {} /\ S \subseteq 0 .. MaxRow
    BY <1>1, <1>2, <1>4
  <2>2. Max(S) \in S /\ \A x \in S : Max(S) >= x
    <3> HIDE DEF S
    <3> QED BY <2>1, MaxIs
  <2>3. L[r] = Max(S)
    OBVIOUS
  <2> QED BY <1>1, <2>1, <2>2, <2>3
<1>7. L \in [Runs -> 0 .. MaxRow]
  <2>1. L = [r \in Runs |-> L[r]]
    OBVIOUS
  <2> HIDE DEF L
  <2> QED BY <1>6, <2>1
<1>8. C \in [1 .. MaxGen -> Offsets]
  BY <1>1, <1>2
<1>9. m = [db EXCEPT !.events = E, !.latest = L, !.checkpoint = C]
  BY <1>1 DEF ReadOn, Projection, from
<1>10. /\ m \in Projection /\ m.gen = db.gen /\ m.events = E /\ m.latest = L /\ m.checkpoint = C
  <2> HIDE DEF E, L, C, m
  <2> QED BY <1>1, <1>5, <1>7, <1>8, <1>9 DEF Projection
<1>11. /\ d \in Projection /\ d.gen = m.gen /\ d.checkpoint = m.checkpoint
       /\ d.events = m.events /\ d.latest = m.latest
       /\ d.hidden = m.hidden \cup { r \in tombs : m.latest[r] # 0 }
  <2>1. tombs \subseteq Runs
    BY DEF Typed, RowLogTypeOK
  <2>2. d = Hidden(m, tombs)
    BY DEF Rebuilt
  <2> HIDE DEF m, d
  <2> QED BY <1>10, <2>1, <2>2, HiddenFacts
<1>12. ASSUME NEW i \in read PROVE L[RunOf(file[i])] >= file[i]
  <2>1. RunOf(file[i]) \in Runs /\ file[i] \in rowsOf(RunOf(file[i]))
    BY <1>2, <1>4
  <2> HIDE DEF L, rowsOf
  <2> QED BY <1>6, <2>1
<1>13. \A r \in tombs : d.latest[r] # 0 => r \in d.hidden
  BY <1>11
<1>14. /\ db.events \subseteq E
       /\ \A e \in E \ db.events : \E i \in read :
            e = [gen |-> db.gen, off |-> i - 1, row |-> file[i]]
       /\ \A i \in read : \/ Filed(db, i - 1)
                          \/ [gen |-> db.gen, off |-> i - 1, row |-> file[i]] \in E
  OBVIOUS
<1> HIDE DEF E, L, C, m, d
<1> QED BY <1>3, <1>6, <1>10, <1>11, <1>12, <1>13, <1>14 DEF from, C, d

LEMMA SyncedReads ==
  ASSUME Typed, Synced, UNCHANGED <<emitted, file, garbled, exposed, disk, offline>>, db' = Rebuilt(db),
         \A w \in Writers : hand'[w] = hand[w] \/ ~Has(w, "apply")',
         KeptApart'
  PROVE  Synced'
<1>1. Settled' = Settled /\ db'.gen = db.gen
  BY RebuiltFacts DEF Settled, Resumable, Journal
<1>2. AppliesLie'
  BY DEF Synced, AppliesLie, Lies, Has
<1>3. /\ Len(file) \in Nat /\ db.gen \in 1 .. MaxGen /\ db.gen \in Nat
      /\ db.checkpoint \in [1 .. MaxGen -> Offsets] /\ Offsets \subseteq Nat
      /\ db.latest \in [Runs -> 0 .. MaxRow]
      /\ \A i \in 1 .. Len(file) : file[i] \in Nat /\ RunOf(file[i]) \in Runs
  BY FileTyped, DbTyped, RowLogAssumption DEF Offsets, Rows
<1>4. PICK from \in Nat :
         /\ db.checkpoint[db.gen] <= Len(file) => from = db.checkpoint[db.gen]
         /\ db'.checkpoint = [db.checkpoint EXCEPT ![db.gen] = Len(file)]
         /\ db.events \subseteq db'.events
         /\ \A e \in db'.events \ db.events :
              \E i \in from + 1 .. Len(file) :
                e = [gen |-> db.gen, off |-> i - 1, row |-> file[i]]
         /\ \A i \in from + 1 .. Len(file) : file[i] \notin garbled =>
              \/ Filed(db, i - 1)
              \/ [gen |-> db.gen, off |-> i - 1, row |-> file[i]] \in db'.events
         /\ \A r \in Runs : db'.latest[r] \in Nat /\ db'.latest[r] >= db.latest[r]
         /\ \A i \in from + 1 .. Len(file) : file[i] \notin garbled =>
              db'.latest[RunOf(file[i])] >= file[i]
  BY RebuiltFacts
<1>5. ASSUME NEW e \in db'.events \ db.events
      PROVE  Lies(e.row, e.off) /\ e.gen = db.gen
  BY <1>3, <1>4 DEF Lies
<1>6. EventsLie'
  BY <1>1, <1>5 DEF Synced, EventsLie, Lies
<1>7. NotAhead'
  <2>1. \A g \in 1 .. MaxGen : g > db.gen => db'.checkpoint[g] = 0
    BY <1>3, <1>4 DEF Synced, NotAhead
  <2> QED BY <1>1, <1>3, <1>5, <2>1 DEF Synced, NotAhead
<1>8. ReadSoFar'
  <2>1. SUFFICES ASSUME Settled PROVE ReadSoFar'
    BY <1>1 DEF ReadSoFar
  <2>2. db.checkpoint[db.gen] <= Len(file) /\ from = db.checkpoint[db.gen]
    BY <1>4, <2>1 DEF Synced, ReadSoFar
  <2>3. db'.checkpoint[db.gen] = Len(file)
    BY <1>3, <1>4
  <2>4. ASSUME NEW i \in 1 .. Len(file), file[i] \notin garbled
        PROVE  /\ db'.latest[RunOf(file[i])] >= file[i]
               /\ offline => InHistory(i)'
    <3>1. CASE i <= from
      <4>1. i \in 1 .. db.checkpoint[db.gen]
        BY <1>3, <2>2, <3>1
      <4>2. /\ db.latest[RunOf(file[i])] >= file[i]
            /\ offline => InHistory(i)
        BY <2>1, <2>4, <4>1 DEF Synced, ReadSoFar
      <4>3. /\ RunOf(file[i]) \in Runs /\ file[i] \in Nat
            /\ db.latest[RunOf(file[i])] \in Nat
        BY <1>3, RowLogAssumption
      <4>4. db'.latest[RunOf(file[i])] >= file[i]
        <5>1. /\ db'.latest[RunOf(file[i])] \in Nat
              /\ db'.latest[RunOf(file[i])] >= db.latest[RunOf(file[i])]
          BY <1>4, <4>3
        <5> QED BY <4>2, <4>3, <5>1
      <4> QED BY <4>2, <4>4, <1>1, <1>4 DEF InHistory
    <3>2. CASE i > from
      <4>1. i \in from + 1 .. Len(file)
        BY <1>3, <3>2
      <4>2. ASSUME offline, Filed(db, i - 1)
            PROVE  InHistory(i)'
        <5>1. PICK e \in db.events : e.gen = db.gen /\ e.off = i - 1
          BY <4>2 DEF Filed
        <5>2. e.row = file[i] \/ e.row \in exposed
          <6>1. Lies(e.row, e.off)
            BY <2>1, <4>2, <5>1 DEF Synced, EventsLie
          <6>2. i - 1 + 1 = i
            OBVIOUS
          <6> QED BY <5>1, <6>1, <6>2 DEF Lies
        <5>3. e \in db'.events
          BY <1>4
        <5> QED BY <1>1, <5>1, <5>2, <5>3 DEF InHistory
      <4>3. CASE Filed(db, i - 1)
        BY <4>1, <4>2, <4>3, <2>4, <1>4
      <4>4. CASE ~Filed(db, i - 1)
        <5>1. [gen |-> db.gen, off |-> i - 1, row |-> file[i]] \in db'.events
          BY <4>1, <4>4, <2>4, <1>4
        <5>2. InHistory(i)'
          BY <1>1, <5>1 DEF InHistory
        <5> QED BY <4>1, <5>2, <2>4, <1>4
      <4> QED BY <4>3, <4>4
    <3> QED BY <3>1, <3>2, <1>3
  <2> QED BY <1>1, <1>3, <2>3, <2>4 DEF ReadSoFar, RunOf
<1> QED BY <1>2, <1>6, <1>7, <1>8 DEF Synced

LEMMA RebuildKeeps ==
  ASSUME LogInv, Rebuild
  PROVE  LogInv'
<1>1. /\ Typed /\ Locks /\ Half /\ RowsSurvive /\ Synced
  BY DEF LogInv
<1>2. /\ db' = Rebuilt(db)
      /\ UNCHANGED <<emitted, file, tail, garbled, acked, exposed, strayed, tombs, hand, disk,
                     comp, offline>>
  BY DEF Rebuild, logVars
<1>3. SameRuns
  BY <1>2, SameRunsStay
<1>4. db' \in Projection /\ db'.gen = db.gen
  BY <1>1, <1>2, RebuiltFacts
<1>5. Typed'
  BY <1>1, <1>2, <1>4 DEF Typed, RowLogTypeOK, Rows, Unwritten, Carries, Has, Resumable, Journal
<1>6. Half' /\ RowsSurvive' /\ Locks'
  <2>1. Half' /\ RowsSurvive'
    BY <1>1, <1>2, <1>3, <1>4, HalfStays, SafeStays
  <2>2. Locks'
    BY <1>1, <1>2, <1>4, LocksStay DEF LockHeld
  <2> QED BY <2>1, <2>2
<1>7. Synced'
  <2>1. KeptApart'
    BY <1>1, <1>2 DEF Synced, KeptApart, Compacting
  <2> QED BY <1>1, <1>2, <2>1, SyncedReads
<1> QED BY <1>5, <1>6, <1>7 DEF LogInv
-----------------------------------------------------------------------------
(* The compactor.                                                          *)

LEMMA CompMoves ==
  ASSUME Typed, NEW there \in Stage, CompGoes(there)
  PROVE  /\ comp' \in CompTyped /\ comp'.at = there /\ comp'.deleted = comp.deleted
         /\ there \in {"pending", "prepare"} => comp'.read = comp.read
BY DiskTyped, EmptyFile DEF CompGoes, CompTyped

\* A step that writes neither the file nor the projection.
LEMMA QuietTyped ==
  ASSUME Typed, Locks, RowsSurvive, UNCHANGED <<file, tail, db>>, UNCHANGED otherVars,
         disk' \in Disk, comp' \in CompTyped, LockHeld' => LockHeld \/ Locker = {},
         Resumable' => \/ Resumable /\ Journal'.original = Journal.original
                       \/ ToSet(Journal'.original) \subseteq ToSet(file)
  PROVE  Typed' /\ Locks' /\ RowsSurvive'
<1>1. RowLogTypeOK'
  BY DEF Typed, RowLogTypeOK, CompTyped, otherVars, Rows
<1>2. ASSUME NEW w \in Writers PROVE Unwritten(w)'
  BY DEF Typed, Unwritten, Carries, otherVars, Has, Rows
<1>3. RowsSurvive'
  BY DEF RowsSurvive, Readable, otherVars, RunOf
<1>4. Locks'
  BY LocksStay DEF otherVars
<1> QED BY <1>1, <1>2, <1>3, <1>4 DEF Typed

LEMMA QuietSynced ==
  ASSUME Typed, Synced, UNCHANGED <<file, db>>, UNCHANGED otherVars, Settled' => Settled,
         Compacting \/ (offline => \A w \in Writers : hand[w] = None)
  PROVE  Synced'
<1>1. EventsLie' /\ ReadSoFar'
  BY DEF Synced, EventsLie, ReadSoFar, Lies, InHistory, otherVars, RunOf
<1>2. AppliesLie' /\ NotAhead'
  BY DEF Synced, AppliesLie, NotAhead, Lies, otherVars, Has
<1>3. KeptApart'
  BY DEF Synced, KeptApart, otherVars
<1> QED BY <1>1, <1>2, <1>3 DEF Synced

\* A step of the compactor that only moves it.
LEMMA HalfMoves ==
  ASSUME Typed, Half, UNCHANGED <<file, tail, disk>>, UNCHANGED otherVars, db'.gen = db.gen,
         StageFits', At("generation")' => Replaced
  PROVE  Half'
<1>1. Journal' = Journal /\ Resumable' = Resumable /\ Replaced' = Replaced /\ Untouched' = Untouched
  BY DEF Journal, Resumable, Replaced, Untouched
<1>2. (Resumable => JournalFits)'
  BY <1>1 DEF Half, JournalFits, otherVars, Keeps, RunOf, Rows
<1>3. ArchivesFit'
  BY <1>1 DEF Half, ArchivesFit, otherVars
<1> QED BY <1>2, <1>3 DEF Half

LEMMA OffFits ==
  ASSUME comp'.at = "off", comp'.deleted \subseteq tombs'
  PROVE  StageFits'
BY DEF StageFits, Read, Rewrites, At

\* It gives up or dies: what is on the disk stays.
LEMMA OffKeeps ==
  ASSUME LogInv, Compacting, CompGoes("off"), UNCHANGED <<file, tail, db, disk>>,
         UNCHANGED otherVars
  PROVE  LogInv'
<1>1. /\ Typed /\ Locks /\ Half /\ RowsSurvive /\ Synced
  BY DEF LogInv
<1>2. comp' \in CompTyped /\ comp'.at = "off" /\ comp'.deleted = comp.deleted
  BY <1>1, CompMoves DEF Stage
<1>3. Journal' = Journal /\ Resumable' = Resumable /\ Settled' = Settled /\ ~LockHeld'
  BY <1>2 DEF Journal, Resumable, Settled, LockHeld
<1>4. Typed' /\ Locks' /\ RowsSurvive'
  BY <1>1, <1>2, <1>3, QuietTyped, DiskTyped
<1>5. StageFits'
  BY <1>1, <1>2, OffFits DEF Half, StageFits, otherVars
<1>6. Half'
  BY <1>1, <1>2, <1>5, HalfMoves DEF At
<1>7. Synced'
  BY <1>1, <1>3, QuietSynced
<1> QED BY <1>4, <1>6, <1>7 DEF LogInv

LEMMA CompactCrashKeeps ==
  ASSUME LogInv, CompactCrash
  PROVE  LogInv'
BY OffKeeps DEF CompactCrash

LEMMA CompactStartKeeps ==
  ASSUME LogInv, CompactStart
  PROVE  LogInv'
<1>1. /\ Typed /\ Locks /\ Half /\ RowsSurvive /\ Synced
  BY DEF LogInv
<1>2. /\ At("off")
      /\ offline => \A w \in Writers : hand[w] = None
  BY DEF CompactStart
<1>3. /\ UNCHANGED <<file, tail, db, disk>> /\ UNCHANGED otherVars
      /\ comp' = [comp EXCEPT !.at = IF disk.journal = None THEN "scan" ELSE "finish",
                              !.resume = disk.journal # None]
  BY DEF CompactStart
<1>4. /\ comp' \in CompTyped /\ comp'.deleted = comp.deleted
      /\ comp'.at = IF Resumable THEN "finish" ELSE "scan"
  BY <1>1, <1>3, DiskTyped DEF CompTyped, Resumable, Journal, Stage
<1>5. Journal' = Journal /\ Resumable' = Resumable /\ Settled' = Settled /\ ~LockHeld'
  BY <1>3, <1>4 DEF Journal, Resumable, Settled, LockHeld
<1>6. Typed' /\ Locks' /\ RowsSurvive'
  BY <1>1, <1>3, <1>4, <1>5, QuietTyped, DiskTyped
<1>7. StageFits'
  BY <1>1, <1>3, <1>4, <1>5 DEF Half, StageFits, Read, Rewrites, At, otherVars
<1>8. Half'
  BY <1>1, <1>3, <1>4, <1>7, HalfMoves DEF At
<1>9. Synced'
  BY <1>1, <1>2, <1>3, <1>5, QuietSynced
<1> QED BY <1>6, <1>8, <1>9 DEF LogInv

LEMMA CompactScanKeeps ==
  ASSUME LogInv, CompactScan
  PROVE  LogInv'
<1>1. /\ Typed /\ Locks /\ Half /\ RowsSurvive /\ Synced
  BY DEF LogInv
<1>2. /\ At("scan") /\ Locker = {} /\ file' = Repaired /\ tail' = None
      /\ UNCHANGED <<db, disk>> /\ UNCHANGED otherVars
      /\ \/ CompGoes("off")
         \/ /\ Without(Repaired, tombs) # Repaired /\ db.gen # MaxGen
            /\ comp' = [comp EXCEPT !.at = "archive", !.deleted = tombs, !.read = Repaired]
  BY DEF CompactScan
<1>3. /\ file' \in Files /\ IsInjective(file') /\ Longer
      /\ ToSet(file') = ToSet(file) \cup ({tail} \cap Rows) /\ ToSet(file') \subseteq Rows
      /\ tail \notin Rows => file' = file
  BY <1>1, <1>2, RepairedFits DEF Longer
<1>4. Journal' = Journal /\ Resumable' = Resumable /\ ~Resumable
  BY <1>1, <1>2 DEF Journal, Resumable, Half, StageFits, At
<1>5. /\ comp' \in CompTyped /\ comp'.deleted \subseteq tombs /\ comp'.at \in {"off", "archive"}
      /\ comp'.at = "archive" =>
           Without(Repaired, tombs) # Repaired /\ db.gen # MaxGen /\ comp'.read = file'
  <2>1. tombs \subseteq Runs /\ comp.deleted \subseteq tombs
    BY <1>1 DEF Typed, RowLogTypeOK, Half, StageFits
  <2>2. CASE CompGoes("off")
    BY <1>1, <2>1, <2>2, CompMoves DEF Stage
  <2>3. CASE /\ Without(Repaired, tombs) # Repaired /\ db.gen # MaxGen
             /\ comp' = [comp EXCEPT !.at = "archive", !.deleted = tombs, !.read = Repaired]
    BY <1>1, <1>2, <1>3, <2>1, <2>3, DiskTyped DEF CompTyped, Stage
  <2> QED BY <1>2, <2>2, <2>3
<1>6. RowLogTypeOK'
  BY <1>1, <1>2, <1>3, <1>5 DEF Typed, RowLogTypeOK, CompTyped, otherVars, Rows
<1>7. ASSUME NEW w \in Writers PROVE Unwritten(w)'
  BY <1>1, <1>2, <1>3, <1>4, FileTyped DEF Typed, Unwritten, Carries, otherVars, Has, Rows
<1>8. Locks'
  <2>1. Locker' = {} /\ (garbled \subseteq exposed)'
    BY <1>1, <1>2 DEF Locks, Locker, Has, otherVars
  <2> QED BY <2>1, LocksFree
<1>9. Saves(file)'
  BY <1>1, <1>2, <1>3, SafeHere DEF Saves, otherVars, RunOf
<1>10. RowsSurvive'
  BY <1>8, <1>9, SafeThere
<1>11. Half'
  <2>1. ArchivesFit'
    BY <1>1, <1>2, <1>3, <1>4, FileTyped DEF Half, ArchivesFit, otherVars, Rows
  <2>2. comp'.at = "archive" => file' # <<>> /\ db.gen < MaxGen
    BY <1>1, <1>2, <1>3, <1>5, WithoutKeeps, DbTyped, RowLogAssumption
  <2>3. comp'.at = "archive" => ReadFits'
    <3>1. SUFFICES ASSUME comp'.at = "archive" PROVE ReadFits'
      OBVIOUS
    <3>2. IsPrefix(file', file')
      BY <1>3, PrefixIs, FileFacts
    <3>3. Saves(comp.read)'
      BY <1>5, <1>9, <3>1 DEF Saves
    <3>4. comp'.read = file' /\ ~Resumable' /\ db'.gen < MaxGen /\ file' # <<>>
      BY <1>2, <1>4, <1>5, <2>2, <3>1
    <3>5. Rows' = Rows
      BY <1>2 DEF otherVars, Rows
    <3>6. ~At("archive")' => FALSE
      BY <3>1 DEF At
    <3>7. ~At("prepare")'
      BY <3>1 DEF At
    <3> HIDE DEF Rows
    <3> QED BY <1>2, <1>3, <3>2, <3>3, <3>4, <3>5, <3>6, <3>7 DEF ReadFits
  <2>4. StageFits'
    BY <1>2, <1>4, <1>5, <2>3 DEF StageFits, Read, Rewrites, At, otherVars
  <2> QED BY <1>4, <2>1, <2>4 DEF Half
<1>12. Synced'
  <2>1. KeptApart'
    BY <1>1, <1>2 DEF Synced, KeptApart, Compacting, At, otherVars
  <2> QED BY <1>1, <1>2, <1>3, <2>1, SyncedGrows DEF otherVars
<1> QED BY <1>6, <1>7, <1>8, <1>10, <1>11, <1>12 DEF LogInv, Typed

\* The compactor has read the file, and moves to its next durable write.
LEMMA ReadMoves ==
  ASSUME Typed, Half, UNCHANGED <<file, tail, db>>, UNCHANGED otherVars, ~Resumable',
         Read, comp' \in CompTyped, comp'.at \in {"pending", "prepare"},
         comp'.deleted = comp.deleted, comp'.read = comp.read,
         disk'.archive[db.gen] = comp.read,
         comp'.at = "prepare" => disk'.pending # None /\ Keeps(comp.read, disk'.pending)
  PROVE  StageFits'
<1>1. ReadFits /\ comp.deleted \subseteq tombs
  BY DEF Half, StageFits
<1>2. Saves(comp.read)'
  BY <1>1 DEF ReadFits, Saves, otherVars, RunOf
<1>3. comp'.at = "prepare" => Keeps(comp.read, disk.pending)'
  BY DEF Keeps, otherVars, RunOf
<1>4. ReadFits'
  BY <1>1, <1>2, <1>3 DEF ReadFits, At, otherVars, Rows
<1> QED BY <1>1, <1>4 DEF StageFits, Read, Rewrites, At, otherVars

LEMMA CompactArchiveKeeps ==
  ASSUME LogInv, CompactArchive
  PROVE  LogInv'
<1>1. /\ Typed /\ Locks /\ Half /\ RowsSurvive /\ Synced
  BY DEF LogInv
<1>2. /\ At("archive") /\ UNCHANGED <<file, tail, db>> /\ UNCHANGED otherVars
      /\ Compacting /\ LockHeld /\ Read
  BY DEF CompactArchive, At, Compacting, LockHeld, Read
<1>3. ~Resumable /\ ReadFits
  BY <1>1, <1>2 DEF Half, StageFits, ReadFits
<1>4. CASE CompGoes("off") /\ UNCHANGED disk
  BY <1>2, <1>4, OffKeeps
<1>5. CASE CompGoes("pending") /\ disk' = [disk EXCEPT !.archive[db.gen] = comp.read]
  <2>1. /\ comp' \in CompTyped /\ comp'.at = "pending" /\ comp'.deleted = comp.deleted
        /\ comp'.read = comp.read
    BY <1>1, <1>5, CompMoves DEF Stage
  <2>2. /\ disk' \in Disk /\ disk'.journal = disk.journal /\ disk'.pending = disk.pending
        /\ disk'.archive = [disk.archive EXCEPT ![db.gen] = comp.read]
    BY <1>1, <1>5, DiskTyped, DbTyped DEF Disk
  <2>3. ~Resumable' /\ Settled
    BY <1>3, <2>2 DEF Journal, Resumable, Settled
  <2>4. Typed' /\ Locks' /\ RowsSurvive'
    BY <1>1, <1>2, <2>1, <2>2, <2>3, QuietTyped
  <2>5. disk'.archive[db.gen] = comp.read
    BY <1>1, <2>2, DiskTyped, DbTyped
  <2>6. StageFits'
    BY <1>1, <1>2, <2>1, <2>3, <2>5, ReadMoves
  <2>7. ArchivesFit'
    <3>1. ASSUME NEW g \in 1 .. MaxGen, disk'.archive[g] # None PROVE g <= db.gen
      BY <1>1, <2>2, <3>1, DiskTyped, DbTyped DEF Half, ArchivesFit
    <3> QED BY <1>2, <1>3, <2>3, <2>5, <3>1 DEF ReadFits, ArchivesFit, otherVars
  <2>8. Synced'
    BY <1>1, <1>2, <2>3, QuietSynced
  <2> QED BY <2>3, <2>4, <2>6, <2>7, <2>8 DEF LogInv, Half
<1> QED BY <1>4, <1>5 DEF CompactArchive

LEMMA CompactPendingKeeps ==
  ASSUME LogInv, CompactPending
  PROVE  LogInv'
<1>1. /\ Typed /\ Locks /\ Half /\ RowsSurvive /\ Synced
  BY DEF LogInv
<1>2. /\ At("pending") /\ CompGoes("prepare")
      /\ disk' = [disk EXCEPT !.pending = Without(comp.read, comp.deleted)]
      /\ UNCHANGED <<file, tail, db>> /\ UNCHANGED otherVars
      /\ Compacting /\ LockHeld /\ Read
  BY DEF CompactPending, At, Compacting, LockHeld, Read
<1>3. ~Resumable /\ ReadFits /\ comp.deleted \subseteq tombs /\ disk.archive[db.gen] = comp.read
  BY <1>1, <1>2 DEF Half, StageFits, ReadFits, At
<1>4. /\ comp' \in CompTyped /\ comp'.at = "prepare" /\ comp'.deleted = comp.deleted
      /\ comp'.read = comp.read
  BY <1>1, <1>2, CompMoves DEF Stage
<1> DEFINE kept == Without(comp.read, comp.deleted)
<1>5. /\ kept \in Files /\ IsInjective(kept)
      /\ ToSet(kept) = { n \in ToSet(comp.read) : RunOf(n) \notin comp.deleted }
  BY <1>1, <1>3, DiskTyped, WithoutKeeps DEF ReadFits
<1>6. kept # None
  BY <1>5, RowLogAssumption
<1> HIDE DEF kept
<1>7. /\ disk' \in Disk /\ disk'.journal = disk.journal /\ disk'.pending = kept
      /\ disk'.archive = disk.archive
  BY <1>1, <1>2, <1>5, DiskTyped DEF Disk, kept
<1>8. Keeps(comp.read, kept)
  BY <1>3, <1>5 DEF Keeps
<1>9. ~Resumable' /\ Settled
  BY <1>3, <1>7 DEF Journal, Resumable, Settled
<1>10. Typed' /\ Locks' /\ RowsSurvive'
  BY <1>1, <1>2, <1>4, <1>7, <1>9, QuietTyped
<1>11. StageFits'
  BY <1>1, <1>2, <1>3, <1>4, <1>6, <1>7, <1>8, <1>9, ReadMoves
<1>12. ArchivesFit'
  BY <1>1, <1>2, <1>3, <1>7, <1>9 DEF Half, ArchivesFit, otherVars
<1>13. Synced'
  BY <1>1, <1>2, <1>9, QuietSynced
<1> QED BY <1>9, <1>10, <1>11, <1>12, <1>13 DEF LogInv, Half

LEMMA CompactPrepareKeeps ==
  ASSUME LogInv, CompactPrepare
  PROVE  LogInv'
<1> DEFINE j == [original |-> comp.read, compacted |-> disk.pending, gen |-> db.gen + 1,
                 replaced |-> FALSE]
<1>1. /\ Typed /\ Locks /\ Half /\ RowsSurvive /\ Synced
  BY DEF LogInv
<1>2. /\ At("prepare") /\ CompGoes("replace") /\ disk' = [disk EXCEPT !.journal = j]
      /\ UNCHANGED <<file, tail, db>> /\ UNCHANGED otherVars
      /\ Compacting /\ LockHeld /\ Read
  BY DEF CompactPrepare, At, Compacting, LockHeld, Read
<1>3. /\ ~Resumable /\ ReadFits /\ comp.deleted \subseteq tombs
      /\ disk.archive[db.gen] = comp.read /\ comp.read \in Files
      /\ disk.pending # None /\ Keeps(comp.read, disk.pending)
  BY <1>1, <1>2, DiskTyped DEF Half, StageFits, ReadFits, At
<1>4. comp' \in CompTyped /\ comp'.at = "replace" /\ comp'.deleted = comp.deleted
  BY <1>1, <1>2, CompMoves DEF Stage
<1>5. db.gen \in 1 .. MaxGen /\ db.gen \in Nat /\ db.gen + 1 \in 1 .. MaxGen
  BY <1>1, <1>3, DbTyped, RowLogAssumption DEF ReadFits
<1>6. j \in Journals
  BY <1>1, <1>3, <1>5, DiskTyped DEF Journals
<1>7. /\ disk' \in Disk /\ disk'.journal = j /\ disk'.pending = disk.pending
      /\ disk'.archive = disk.archive
  <2> HIDE DEF j
  <2> QED BY <1>1, <1>2, <1>6, DiskTyped DEF Disk
<1>8. /\ Journal'.original = comp.read /\ Journal'.compacted = disk.pending
      /\ Journal'.gen = db.gen + 1
  BY <1>7 DEF Journal
<1>9. Resumable'
  BY <1>6, <1>7, RowLogAssumption DEF Resumable, Journal
<1>10. Settled
  BY <1>3 DEF Settled
<1> HIDE DEF j
<1>11. Typed' /\ Locks' /\ RowsSurvive'
  <2>1. ToSet(comp.read) \subseteq ToSet(file)
    <3>1. /\ Len(comp.read) \in Nat /\ Len(file) \in Nat /\ Len(comp.read) <= Len(file)
          /\ \A i \in 1 .. Len(comp.read) : comp.read[i] = file[i]
      BY <1>1, <1>3, FileTyped, FileFacts, PrefixIs, RowLogAssumption DEF ReadFits
    <3>2. /\ ToSet(comp.read) = { comp.read[i] : i \in 1 .. Len(comp.read) }
          /\ ToSet(file) = { file[i] : i \in 1 .. Len(file) }
      BY <1>1, <1>3, FileTyped, FileFacts
    <3> QED BY <3>1, <3>2
  <2> QED BY <1>1, <1>2, <1>4, <1>7, <1>8, <2>1, QuietTyped
<1>12. ~strayed => Untouched'
  BY <1>2, <1>3, <1>8 DEF ReadFits, Untouched
<1>13. StageFits'
  <2>1. Saves(Journal.original)'
    BY <1>2, <1>3, <1>8 DEF ReadFits, Saves, otherVars, RunOf
  <2>2. IsPrefix(Journal.original, file)'
    BY <1>2, <1>3, <1>8 DEF ReadFits
  <2>3. db'.gen # Journal'.gen
    BY <1>2, <1>5, <1>8
  <2> QED BY <1>2, <1>3, <1>4, <1>9, <2>1, <2>2, <2>3
          DEF StageFits, Read, Rewrites, At, otherVars
<1>14. ArchivesFit'
  BY <1>1, <1>2, <1>5, <1>7, <1>8, <1>9 DEF Half, ArchivesFit
<1>15. JournalFits'
  <2>1. Keeps(Journal.original, Journal.compacted)'
    BY <1>2, <1>3, <1>8 DEF Keeps, otherVars, RunOf
  <2>2. db'.gen = Journal'.gen - 1 /\ db'.gen # Journal'.gen /\ Journal'.gen > 1
    BY <1>2, <1>5, <1>8
  <2>3. disk'.archive[Journal'.gen - 1] = Journal'.original
    <3>1. Journal'.gen - 1 = db.gen
      BY <1>5, <1>8
    <3> QED BY <1>3, <1>7, <1>8, <3>1
  <2>4. /\ ToSet(Journal'.original) \subseteq Rows' /\ IsPrefix(Journal'.original, file')
        /\ Journal'.original # <<>> /\ disk'.pending = Journal'.compacted
    BY <1>2, <1>3, <1>7, <1>8 DEF ReadFits, otherVars, Rows
  <2>5. ~At("generation")' /\ strayed' = strayed
    BY <1>2, <1>4 DEF At, otherVars
  <2> QED BY <1>12, <2>1, <2>2, <2>3, <2>4, <2>5 DEF JournalFits
<1>16. Synced'
  BY <1>1, <1>2, <1>10, QuietSynced
<1> QED BY <1>11, <1>13, <1>14, <1>15, <1>16 DEF LogInv, Half

\* While the generation of the projection is behind the journal's, a step that
\* writes the file disturbs nothing the projection promises.
LEMMA SyncedReplaces ==
  ASSUME Typed, Synced, Compacting, UNCHANGED db, UNCHANGED otherVars, ~Settled'
  PROVE  Synced'
<1>1. EventsLie' /\ ReadSoFar'
  BY DEF EventsLie, ReadSoFar
<1>2. offline => \A w \in Writers : hand[w] = None
  BY DEF Synced, KeptApart
<1>3. AppliesLie' /\ KeptApart'
  BY <1>2 DEF AppliesLie, KeptApart, otherVars, Has
<1>4. NotAhead'
  BY DEF Synced, NotAhead
<1> QED BY <1>1, <1>3, <1>4 DEF Synced

\* The file becomes what the compactor kept of what it had read.
LEMMA ReplacingKeeps ==
  ASSUME Typed, Locks, LockHeld, Resumable, JournalFits, Saves(Journal.original),
         file' = Journal.compacted, tail' = None, comp' \in CompTyped,
         UNCHANGED <<disk, db>>, UNCHANGED otherVars
  PROVE  Typed' /\ Locks' /\ RowsSurvive' /\ Replaced' /\ JournalFits'
<1>1. /\ Journal.compacted \in Files /\ Journal.original \in Files
      /\ Journal.gen \in Nat /\ db.gen \in Nat
  BY DiskTyped, DbTyped
<1>2. /\ ToSet(Journal.original) \subseteq Rows
      /\ ToSet(Journal.compacted) \subseteq ToSet(Journal.original)
      /\ IsInjective(Journal.compacted)
      /\ \A n \in ToSet(Journal.original) : n \in ToSet(Journal.compacted) \/ RunOf(n) \in tombs
  BY DEF JournalFits, Keeps
<1>3. Journal' = Journal /\ Resumable'
  BY DEF Journal, Resumable
<1>4. RowLogTypeOK'
  BY <1>1, <1>2 DEF Typed, RowLogTypeOK, CompTyped, otherVars, Rows
<1>5. None \notin Rows
  BY FileTyped
<1>6. ASSUME NEW w \in Writers PROVE Unwritten(w)'
  BY <1>2, <1>3, <1>5 DEF Typed, Unwritten, Carries, otherVars, Has, Rows
<1>7. Locks'
  <2>1. Locker' = {} /\ (garbled \subseteq exposed)'
    BY DEF Locks, Locker, Has, otherVars
  <2> QED BY <2>1, LocksFree
<1>8. RowsSurvive'
  <2>1. Saves(file)'
    BY <1>2 DEF Saves, otherVars, RunOf
  <2> QED BY <1>7, <2>1, SafeThere
<1>9. Replaced'
  <2>1. IsPrefix(Journal.compacted, Journal.compacted)
    BY <1>1, PrefixIs, FileFacts
  <2>2. ASSUME Journal.compacted = <<>>
        PROVE  ToSet(Journal.original) \cap (ToSet(Journal.compacted) \cup {None}) = {}
    BY <1>2, <1>5, <2>2, NothingListed
  <2> QED BY <1>3, <2>1, <2>2 DEF Replaced
<1>10. JournalFits'
  <2>1. Keeps(Journal.original, Journal.compacted)'
    BY <1>3 DEF JournalFits, Keeps, otherVars, RunOf
  <2> QED BY <1>3, <1>9, <2>1 DEF JournalFits, otherVars, Rows
<1> QED BY <1>4, <1>6, <1>7, <1>8, <1>9, <1>10 DEF Typed

LEMMA CompactReplaceKeeps ==
  ASSUME LogInv, CompactReplace
  PROVE  LogInv'
<1>1. /\ Typed /\ Locks /\ Half /\ RowsSurvive /\ Synced
  BY DEF LogInv
<1>2. /\ At("replace") /\ CompGoes("mark") /\ file' = disk.pending /\ tail' = None
      /\ UNCHANGED <<db, disk>> /\ UNCHANGED otherVars /\ LockHeld /\ Compacting
  BY DEF CompactReplace, At, LockHeld, Compacting
<1>3. /\ Resumable /\ Saves(Journal.original) /\ db.gen # Journal.gen /\ comp.deleted \subseteq tombs
  BY <1>1, <1>2 DEF Half, StageFits, Rewrites, At
<1>4. JournalFits /\ disk.pending = Journal.compacted
  BY <1>1, <1>3 DEF Half, JournalFits
<1>5. comp' \in CompTyped /\ comp'.at = "mark" /\ comp'.deleted = comp.deleted
  BY <1>1, <1>2, CompMoves DEF Stage
<1>6. Journal' = Journal /\ Resumable' = Resumable /\ ~Settled'
  BY <1>2, <1>3 DEF Journal, Resumable, Settled
<1>7. Typed' /\ Locks' /\ RowsSurvive' /\ Replaced' /\ JournalFits'
  BY <1>1, <1>2, <1>3, <1>4, <1>5, ReplacingKeeps
<1>8. StageFits'
  BY <1>2, <1>3, <1>5, <1>6, <1>7 DEF StageFits, Read, Rewrites, At, otherVars
<1>9. ArchivesFit'
  BY <1>1, <1>2, <1>3, <1>6 DEF Half, ArchivesFit
<1>10. Synced'
  BY <1>1, <1>2, <1>6, SyncedReplaces
<1> QED BY <1>7, <1>8, <1>9, <1>10 DEF LogInv, Half

LEMMA CompactMarkKeeps ==
  ASSUME LogInv, CompactMark
  PROVE  LogInv'
<1>1. /\ Typed /\ Locks /\ Half /\ RowsSurvive /\ Synced
  BY DEF LogInv
<1>2. /\ At("mark") /\ CompGoes("finish")
      /\ disk' = [disk EXCEPT !.journal.replaced = TRUE]
      /\ UNCHANGED <<file, tail, db>> /\ UNCHANGED otherVars /\ Compacting
  BY DEF CompactMark, At, Compacting
<1>3. /\ Resumable /\ Replaced /\ db.gen # Journal.gen /\ comp.deleted \subseteq tombs
  BY <1>1, <1>2 DEF Half, StageFits, At
<1>4. comp' \in CompTyped /\ comp'.at = "finish" /\ comp'.deleted = comp.deleted /\ ~LockHeld'
  BY <1>1, <1>2, CompMoves DEF Stage, LockHeld
<1> DEFINE j == [Journal EXCEPT !.replaced = TRUE]
<1>5. Journal \in Journals
  BY <1>1, <1>3, DiskTyped DEF Resumable, Journal
<1>6. /\ j \in Journals /\ j.original = Journal.original /\ j.compacted = Journal.compacted
      /\ j.gen = Journal.gen
  BY <1>5 DEF Journals
<1>7. /\ disk' \in Disk /\ disk'.journal = j /\ disk'.pending = disk.pending
      /\ disk'.archive = disk.archive
  <2>1. disk' = [disk EXCEPT !.journal = j]
    BY <1>2 DEF Journal
  <2> HIDE DEF j
  <2> QED BY <1>1, <1>6, <2>1, DiskTyped DEF Disk
<1>8. /\ Journal'.original = Journal.original /\ Journal'.compacted = Journal.compacted
      /\ Journal'.gen = Journal.gen
  BY <1>6, <1>7 DEF Journal
<1>9. Resumable'
  BY <1>6, <1>7, RowLogAssumption DEF Resumable, Journal
<1> HIDE DEF j
<1>10. Replaced' /\ ~Settled /\ ~Settled'
  BY <1>2, <1>3, <1>8, <1>9 DEF Replaced, Settled
<1>11. Typed' /\ Locks' /\ RowsSurvive'
  BY <1>1, <1>2, <1>3, <1>4, <1>7, <1>8, QuietTyped
<1>12. StageFits'
  BY <1>2, <1>3, <1>4, <1>9 DEF StageFits, Read, Rewrites, At, otherVars
<1>13. ArchivesFit'
  BY <1>1, <1>2, <1>3, <1>7, <1>8, <1>9 DEF Half, ArchivesFit
<1>14. JournalFits'
  <2>1. JournalFits
    BY <1>1, <1>3 DEF Half
  <2>2. Keeps(Journal.original, Journal.compacted)'
    BY <2>1, <1>2, <1>8 DEF JournalFits, Keeps, otherVars, RunOf
  <2> QED BY <2>1, <2>2, <1>2, <1>7, <1>8, <1>10 DEF JournalFits, otherVars, Rows
<1>15. Synced'
  BY <1>1, <1>2, <1>10, SyncedReplaces
<1> QED BY <1>11, <1>12, <1>13, <1>14, <1>15 DEF LogInv, Half

-----------------------------------------------------------------------------
(* Finishing a compaction.                                                 *)

\* The code's test is right about any file a journal can meet.
LEMMA TestIsRight ==
  ASSUME Typed, Resumable, JournalFits
  PROVE  AlreadyReplaced(Journal) <=> Replaced
<1>1. /\ Journal.compacted \in Files /\ Journal.original \in Files /\ file \in Files
      /\ Journal.original # <<>>
      /\ Len(file) \in Nat
  BY DiskTyped, FileTyped, RowLogAssumption DEF JournalFits
<1>2. /\ Journal.original \in Seq(Row) /\ Len(Journal.original) \in Nat
      /\ ToSet(Journal.original) = { Journal.original[i] : i \in 1 .. Len(Journal.original) }
  BY <1>1, FileFacts, RowLogAssumption
<1>3. CASE Journal.compacted # <<>>
  BY <1>3 DEF AlreadyReplaced, Replaced
<1>4. CASE Journal.compacted = <<>>
  <2>1. IsPrefix(Journal.compacted, file)
    <3>1. Len(Journal.compacted) = 0
      BY <1>4, EmptySeq
    <3> QED BY <1>1, <3>1, PrefixIs
  <2>2. ASSUME Replaced, IsPrefix(Journal.original, file) PROVE FALSE
    <3>1. Len(Journal.original) # 0
      BY <1>1, <1>2, EmptySeq
    <3>2. Journal.original[1] \in ToSet(Journal.original)
      BY <1>2, <3>1
    <3>3. 1 \in 1 .. Len(file) /\ Journal.original[1] = file[1]
      BY <1>1, <1>2, <2>2, <3>1, PrefixIs
    <3>4. file[1] \in ToSet(file)
      BY <3>3, FileTyped
    <3> QED BY <3>2, <3>3, <3>4, <2>2, <1>4 DEF Replaced
  <2>3. Replaced \/ IsPrefix(Journal.original, file)
    BY DEF JournalFits
  <2> QED BY <1>4, <2>2, <2>3 DEF AlreadyReplaced
<1> QED BY <1>3, <1>4

\* A file that begins with the rows archived, and is the archive with its tail,
\* is the archive.
LEMMA SourceIsFile ==
  ASSUME Typed, NEW f \in Files, IsPrefix(f, file), Source = f
  PROVE  file = f /\ tail = None
<1>1. CASE tail = None
  BY <1>1 DEF Source
<1>2. CASE tail # None
  <2>1. Source = Append(file, tail)
    BY <1>2 DEF Source
  <2>2. file \in Seq(Nat) /\ tail \in Nat /\ Len(file) \in Nat
    <3>1. tail \in Nat
      BY <1>2, FileTyped, RowLogAssumption DEF Typed, RowLogTypeOK, Fragment, Row
    <3>2. Row \subseteq Nat
      BY RowLogAssumption DEF Row
    <3>3. file \in Seq(Row) /\ Len(file) \in Nat
      BY FileTyped, RowLogAssumption
    <3>4. file \in Seq(Nat)
      BY <3>2, <3>3, SeqMonotonic
    <3> QED BY <3>1, <3>3, <3>4
  <2>3. Len(f) = Len(file) + 1
    BY <2>1, <2>2, AppendProperties
  <2>4. Len(f) <= Len(file)
    BY FileTyped, PrefixIs
  <2> QED BY <2>2, <2>3, <2>4
<1> QED BY <1>1, <1>2

LEMMA FinishReplaceKeeps ==
  ASSUME LogInv, FinishReplace
  PROVE  LogInv'
<1>1. /\ Typed /\ Locks /\ Half /\ RowsSurvive /\ Synced
  BY DEF LogInv
<1>2. /\ At("finish") /\ Locker = {} /\ UNCHANGED <<file, tail, db, disk>> /\ UNCHANGED otherVars
      /\ \/ CompGoes("off")
         \/ AlreadyReplaced(Journal) /\ CompGoes("generation")
         \/ ~Refuses(Journal) /\ ~AlreadyReplaced(Journal) /\ CompGoes("overwrite")
  BY DEF FinishReplace, Journal
<1>3. /\ Resumable /\ JournalFits /\ comp.deleted \subseteq tombs /\ Compacting
  BY <1>1, <1>2 DEF Half, StageFits, At, Compacting
<1>4. Journal' = Journal /\ Resumable' = Resumable /\ Settled' = Settled
  BY <1>2 DEF Journal, Resumable, Settled
<1>5. CASE CompGoes("off")
  BY <1>2, <1>3, <1>5, OffKeeps
<1>6. ASSUME comp' \in CompTyped, StageFits', At("generation")' => Replaced PROVE LogInv'
  <2>1. Typed' /\ Locks' /\ RowsSurvive'
    BY <1>1, <1>2, <1>4, <1>6, QuietTyped, DiskTyped
  <2>2. Half'
    BY <1>1, <1>2, <1>6, HalfMoves
  <2>3. Synced'
    BY <1>1, <1>2, <1>3, <1>4, QuietSynced
  <2> QED BY <2>1, <2>2, <2>3 DEF LogInv
<1>7. CASE AlreadyReplaced(Journal) /\ CompGoes("generation")
  <2>1. comp' \in CompTyped /\ comp'.at = "generation" /\ comp'.deleted = comp.deleted
    BY <1>1, <1>7, CompMoves DEF Stage
  <2>2. StageFits'
    BY <1>2, <1>3, <1>4, <2>1 DEF StageFits, Read, Rewrites, At, otherVars
  <2>3. Replaced
    BY <1>1, <1>3, <1>7, TestIsRight
  <2> QED BY <1>6, <2>1, <2>2, <2>3
<1>8. CASE ~Refuses(Journal) /\ ~AlreadyReplaced(Journal) /\ CompGoes("overwrite")
  <2>1. comp' \in CompTyped /\ comp'.at = "overwrite" /\ comp'.deleted = comp.deleted
    BY <1>1, <1>8, CompMoves DEF Stage
  <2>2. IsPrefix(Journal.original, file) /\ db.gen # Journal.gen
    BY <1>1, <1>3, <1>8, TestIsRight DEF JournalFits
  <2>3. Source = Journal.original
    BY <1>8 DEF Refuses
  <2>4. file = Journal.original
    BY <1>1, <1>3, <2>2, <2>3, SourceIsFile, DiskTyped
  <2>5. Saves(Journal.original)'
    BY <1>1, <1>2, <1>4, <2>4, SafeHere DEF Saves, otherVars, RunOf
  <2>6. StageFits'
    BY <1>2, <1>3, <1>4, <2>1, <2>2, <2>5 DEF StageFits, Read, Rewrites, At, otherVars
  <2> QED BY <1>6, <2>1, <2>6 DEF At
<1> QED BY <1>2, <1>5, <1>7, <1>8

LEMMA FinishOverwriteKeeps ==
  ASSUME LogInv, FinishOverwrite
  PROVE  LogInv'
<1>1. /\ Typed /\ Locks /\ Half /\ RowsSurvive /\ Synced
  BY DEF LogInv
<1>2. /\ At("overwrite") /\ CompGoes("generation") /\ file' = Journal.compacted /\ tail' = None
      /\ UNCHANGED <<db, disk>> /\ UNCHANGED otherVars /\ LockHeld /\ Compacting
  BY DEF FinishOverwrite, At, LockHeld, Compacting, Journal
<1>3. /\ Resumable /\ Saves(Journal.original) /\ db.gen # Journal.gen /\ comp.deleted \subseteq tombs
  BY <1>1, <1>2 DEF Half, StageFits, Rewrites, At
<1>4. JournalFits
  BY <1>1, <1>3 DEF Half
<1>5. comp' \in CompTyped /\ comp'.at = "generation" /\ comp'.deleted = comp.deleted
  BY <1>1, <1>2, CompMoves DEF Stage
<1>6. Journal' = Journal /\ Resumable' = Resumable /\ ~Settled'
  BY <1>2, <1>3 DEF Journal, Resumable, Settled
<1>7. Typed' /\ Locks' /\ RowsSurvive' /\ Replaced' /\ JournalFits'
  BY <1>1, <1>2, <1>3, <1>4, <1>5, ReplacingKeeps
<1>8. StageFits'
  BY <1>2, <1>3, <1>5, <1>6 DEF StageFits, Read, Rewrites, At, otherVars
<1>9. ArchivesFit'
  BY <1>1, <1>2, <1>3, <1>6 DEF Half, ArchivesFit
<1>10. Synced'
  BY <1>1, <1>2, <1>6, SyncedReplaces
<1> QED BY <1>7, <1>8, <1>9, <1>10 DEF LogInv, Half

\* A step that writes only the projection, and moves the compactor.
LEMMA ProjectTyped ==
  ASSUME Typed, Locks, RowsSurvive, UNCHANGED <<file, tail, disk>>, UNCHANGED otherVars,
         db' \in Projection, comp' \in CompTyped, ~LockHeld'
  PROVE  Typed' /\ Locks' /\ RowsSurvive'
<1>1. RowLogTypeOK'
  BY DEF Typed, RowLogTypeOK, CompTyped, otherVars, Rows
<1>2. ASSUME NEW w \in Writers PROVE Unwritten(w)'
  BY DEF Typed, Unwritten, Carries, otherVars, Has, Rows, Resumable, Journal
<1>3. RowsSurvive'
  BY DEF RowsSurvive, Readable, otherVars, RunOf
<1>4. Locks'
  BY LocksStay DEF otherVars
<1> QED BY <1>1, <1>2, <1>3, <1>4 DEF Typed

LEMMA FinishGenerationKeeps ==
  ASSUME LogInv, FinishGeneration
  PROVE  LogInv'
<1>1. /\ Typed /\ Locks /\ Half /\ RowsSurvive /\ Synced
  BY DEF LogInv
<1>2. /\ At("generation") /\ CompGoes("reset") /\ db' = [db EXCEPT !.gen = disk.journal.gen]
      /\ UNCHANGED <<file, tail, disk>> /\ UNCHANGED otherVars
  BY DEF FinishGeneration
<1>3. /\ Resumable /\ JournalFits /\ comp.deleted \subseteq tombs /\ Compacting
  BY <1>1, <1>2 DEF Half, StageFits, At, Compacting
<1>4. /\ Journal.gen \in 1 .. MaxGen /\ Journal.gen \in Nat /\ db.gen \in Nat
      /\ db.gen \in {Journal.gen, Journal.gen - 1} /\ Replaced
  BY <1>1, <1>2, <1>3, DiskTyped, DbTyped DEF JournalFits
<1>5. /\ comp' \in CompTyped /\ comp'.at = "reset" /\ comp'.deleted = comp.deleted
      /\ ~LockHeld'
  BY <1>1, <1>2, CompMoves DEF Stage, LockHeld
<1>6. Journal' = Journal /\ Resumable' /\ Replaced' = Replaced
  BY <1>2, <1>3 DEF Journal, Resumable, Replaced
<1>7. /\ db' \in Projection /\ db'.gen = Journal.gen /\ db'.events = db.events
      /\ db'.latest = db.latest /\ db'.checkpoint = db.checkpoint
  BY <1>1, <1>2, <1>4, DbTyped DEF Projection, Journal
<1>8. Typed' /\ Locks' /\ RowsSurvive'
  BY <1>1, <1>2, <1>5, <1>7, ProjectTyped
<1>9. StageFits'
  BY <1>2, <1>3, <1>5, <1>6, <1>7 DEF StageFits, Read, Rewrites, At, otherVars
<1>10. JournalFits'
  <2>1. Keeps(Journal.original, Journal.compacted)'
    BY <1>2, <1>3, <1>6 DEF JournalFits, Keeps, otherVars, RunOf
  <2> QED BY <1>2, <1>3, <1>4, <1>6, <1>7, <2>1 DEF JournalFits, otherVars, Rows
<1>11. ArchivesFit'
  <2>1. ASSUME NEW g \in 1 .. MaxGen, disk.archive[g] # None PROVE g <= Journal.gen /\ g < Journal.gen
    BY <1>1, <1>3, <1>4, <2>1, RowLogAssumption DEF Half, ArchivesFit
  <2> QED BY <1>2, <1>6, <1>7, <2>1 DEF ArchivesFit
<1>12. Synced'
  <2>1. offline => \A w \in Writers : hand[w] = None
    BY <1>1, <1>3 DEF Synced, KeptApart
  <2>2. AppliesLie' /\ KeptApart'
    BY <1>2, <2>1 DEF AppliesLie, KeptApart, otherVars, Has
  <2>3. NotAhead'
    <3>1. \A e \in db.events : e.gen \in 1 .. MaxGen /\ e.gen <= db.gen
      BY <1>1, DbTyped DEF Synced, NotAhead
    <3>2. \A g \in 1 .. MaxGen : g > db.gen => db.checkpoint[g] = 0
      BY <1>1 DEF Synced, NotAhead
    <3> QED BY <1>4, <1>7, <3>1, <3>2, RowLogAssumption DEF NotAhead
  <2>4. CASE db.gen = Journal.gen
    BY <1>1, <1>2, <1>6, <1>7, <2>2, <2>3, <2>4
       DEF Synced, EventsLie, ReadSoFar, Settled, Lies, InHistory, otherVars, RunOf
  <2>5. CASE db.gen = Journal.gen - 1
    <3>1. \A e \in db.events : e.gen # Journal.gen
      BY <1>1, <1>4, <2>5, DbTyped, RowLogAssumption DEF Synced, NotAhead
    <3>2. db.checkpoint[Journal.gen] = 0
      BY <1>1, <1>4, <2>5 DEF Synced, NotAhead
    <3>3. EventsLie'
      BY <1>7, <3>1 DEF EventsLie
    <3>4. ReadSoFar'
      <4>1. Len(file) \in Nat
        BY <1>1, FileTyped, RowLogAssumption
      <4> QED BY <1>2, <1>7, <3>2, <4>1 DEF ReadSoFar
    <3> QED BY <2>2, <2>3, <3>3, <3>4 DEF Synced
  <2> QED BY <1>4, <2>4, <2>5
<1> QED BY <1>6, <1>8, <1>9, <1>10, <1>11, <1>12 DEF LogInv, Half

LEMMA FinishResetKeeps ==
  ASSUME LogInv, FinishReset
  PROVE  LogInv'
<1>1. /\ Typed /\ Locks /\ Half /\ RowsSurvive /\ Synced
  BY DEF LogInv
<1>2. /\ At("reset") /\ CompGoes("rebuild") /\ db' = EmptyDb(db.gen)
      /\ UNCHANGED <<file, tail, disk>> /\ UNCHANGED otherVars
  BY DEF FinishReset
<1>3. /\ Resumable /\ db.gen = Journal.gen /\ comp.deleted \subseteq tombs /\ Compacting
  BY <1>1, <1>2 DEF Half, StageFits, At, Compacting
<1>4. /\ comp' \in CompTyped /\ comp'.at = "rebuild" /\ comp'.deleted = comp.deleted
      /\ ~LockHeld'
  BY <1>1, <1>2, CompMoves DEF Stage, LockHeld
<1>5. Journal' = Journal /\ Resumable'
  BY <1>2, <1>3 DEF Journal, Resumable
<1>6. /\ db' \in Projection /\ db'.gen = db.gen /\ db'.events = {}
      /\ db'.checkpoint = [k \in 1 .. MaxGen |-> 0]
  <2>1. 0 \in 0 .. MaxRow /\ 0 \in Offsets
    BY RowLogAssumption DEF Offsets
  <2> QED BY <1>1, <1>2, <2>1, DbTyped DEF EmptyDb, Projection
<1>7. Typed' /\ Locks' /\ RowsSurvive'
  BY <1>1, <1>2, <1>4, <1>6, ProjectTyped
<1>8. StageFits'
  BY <1>2, <1>3, <1>4, <1>5, <1>6 DEF StageFits, Read, Rewrites, At, otherVars
<1>9. Half'
  BY <1>1, <1>2, <1>4, <1>6, <1>8, HalfMoves DEF At
<1>10. Synced'
  <2>1. Len(file) \in Nat /\ db.gen \in 1 .. MaxGen
    BY <1>1, FileTyped, DbTyped, RowLogAssumption
  <2>2. offline => \A w \in Writers : hand[w] = None
    BY <1>1, <1>3 DEF Synced, KeptApart
  <2>3. AppliesLie' /\ KeptApart'
    BY <1>2, <2>2 DEF AppliesLie, KeptApart, otherVars, Has
  <2>4. EventsLie' /\ NotAhead'
    BY <1>6 DEF EventsLie, NotAhead
  <2>5. ReadSoFar'
    BY <1>2, <1>6, <2>1 DEF ReadSoFar
  <2> QED BY <2>3, <2>4, <2>5 DEF Synced
<1> QED BY <1>7, <1>9, <1>10 DEF LogInv

LEMMA FinishRebuildKeeps ==
  ASSUME LogInv, FinishRebuild
  PROVE  LogInv'
<1>1. /\ Typed /\ Locks /\ Half /\ RowsSurvive /\ Synced
  BY DEF LogInv
<1>2. /\ At("rebuild") /\ CompGoes("unlink") /\ db' = Rebuilt(db)
      /\ UNCHANGED <<file, tail, disk>> /\ UNCHANGED otherVars
  BY DEF FinishRebuild
<1>3. /\ Resumable /\ db.gen = Journal.gen /\ comp.deleted \subseteq tombs /\ Compacting
  BY <1>1, <1>2 DEF Half, StageFits, At, Compacting
<1>4. /\ comp' \in CompTyped /\ comp'.at = "unlink" /\ comp'.deleted = comp.deleted
      /\ ~LockHeld'
  BY <1>1, <1>2, CompMoves DEF Stage, LockHeld
<1>5. Journal' = Journal /\ Resumable'
  BY <1>2, <1>3 DEF Journal, Resumable
<1>6. db' \in Projection /\ db'.gen = db.gen
  BY <1>1, <1>2, RebuiltFacts
<1>7. Typed' /\ Locks' /\ RowsSurvive'
  BY <1>1, <1>2, <1>4, <1>6, ProjectTyped
<1>8. StageFits'
  BY <1>2, <1>3, <1>4, <1>5, <1>6 DEF StageFits, Read, Rewrites, At, otherVars
<1>9. Half'
  BY <1>1, <1>2, <1>4, <1>6, <1>8, HalfMoves DEF At
<1>10. Synced'
  <2>1. KeptApart'
    BY <1>1, <1>2, <1>3 DEF Synced, KeptApart, otherVars
  <2> QED BY <1>1, <1>2, <2>1, SyncedReads DEF otherVars
<1> QED BY <1>7, <1>9, <1>10 DEF LogInv

LEMMA FinishUnlinkKeeps ==
  ASSUME LogInv, FinishUnlink
  PROVE  LogInv'
<1>1. /\ Typed /\ Locks /\ Half /\ RowsSurvive /\ Synced
  BY DEF LogInv
<1>2. /\ At("unlink") /\ CompGoes("clean") /\ disk' = [disk EXCEPT !.journal = None]
      /\ UNCHANGED <<file, tail, db>> /\ UNCHANGED otherVars
  BY DEF FinishUnlink
<1>3. /\ Resumable /\ db.gen = Journal.gen /\ comp.deleted \subseteq tombs
  BY <1>1, <1>2 DEF Half, StageFits, At
<1>4. /\ comp' \in CompTyped /\ comp'.at = "clean" /\ comp'.deleted = comp.deleted
      /\ ~LockHeld'
  BY <1>1, <1>2, CompMoves DEF Stage, LockHeld
<1>5. /\ disk' \in Disk /\ disk'.journal = None /\ disk'.pending = disk.pending
      /\ disk'.archive = disk.archive
  BY <1>1, <1>2, DiskTyped DEF Disk
<1>6. ~Resumable' /\ Settled
  BY <1>3, <1>5 DEF Journal, Resumable, Settled
<1>7. Typed' /\ Locks' /\ RowsSurvive'
  BY <1>1, <1>2, <1>4, <1>5, <1>6, QuietTyped
<1>8. StageFits'
  BY <1>2, <1>3, <1>4, <1>6 DEF StageFits, Read, Rewrites, At, otherVars
<1>9. ArchivesFit'
  <2>1. disk.archive[db.gen] = None
    BY <1>1, <1>3, DbTyped DEF Half, ArchivesFit
  <2> QED BY <1>1, <1>2, <1>5, <1>6, <2>1 DEF Half, ArchivesFit
<1>10. Synced'
  BY <1>1, <1>2, <1>6, QuietSynced DEF Compacting, At
<1> QED BY <1>6, <1>7, <1>8, <1>9, <1>10 DEF LogInv, Half

LEMMA FinishCleanKeeps ==
  ASSUME LogInv, FinishClean
  PROVE  LogInv'
<1>1. /\ Typed /\ Locks /\ Half /\ RowsSurvive /\ Synced
  BY DEF LogInv
<1>2. /\ At("clean") /\ disk' = [disk EXCEPT !.pending = None]
      /\ comp' = [comp EXCEPT !.at = IF comp.resume THEN "scan" ELSE "off", !.resume = FALSE]
      /\ UNCHANGED <<file, tail, db>> /\ UNCHANGED otherVars
  BY DEF FinishClean
<1>3. ~Resumable /\ comp.deleted \subseteq tombs
  BY <1>1, <1>2 DEF Half, StageFits, At
<1>4. /\ comp' \in CompTyped /\ comp'.at \in {"scan", "off"} /\ comp'.deleted = comp.deleted
      /\ ~LockHeld'
  BY <1>1, <1>2, DiskTyped DEF CompTyped, Stage, LockHeld
<1>5. /\ disk' \in Disk /\ disk'.journal = disk.journal /\ disk'.archive = disk.archive
  BY <1>1, <1>2, DiskTyped DEF Disk
<1>6. ~Resumable' /\ Settled
  BY <1>3, <1>5 DEF Journal, Resumable, Settled
<1>7. Typed' /\ Locks' /\ RowsSurvive'
  BY <1>1, <1>2, <1>4, <1>5, <1>6, QuietTyped
<1>8. StageFits'
  BY <1>2, <1>3, <1>4, <1>6 DEF StageFits, Read, Rewrites, At, otherVars
<1>9. ArchivesFit'
  BY <1>1, <1>2, <1>3, <1>5, <1>6 DEF Half, ArchivesFit, otherVars
<1>10. Synced'
  BY <1>1, <1>2, <1>6, QuietSynced DEF Compacting, At
<1> QED BY <1>6, <1>7, <1>8, <1>9, <1>10 DEF LogInv, Half

-----------------------------------------------------------------------------
(* The specification.                                                      *)

LEMMA InitFits == Init => LogInv
<1> SUFFICES ASSUME Init PROVE LogInv
  OBVIOUS
<1>1. /\ emitted = <<>> /\ file = <<>> /\ tail = None /\ garbled = {}
      /\ tombs = {} /\ acked = {} /\ exposed = {}
      /\ hand = [w \in Writers |-> None] /\ db = EmptyDb(1)
      /\ disk = [archive |-> [g \in 1 .. MaxGen |-> None], pending |-> None, journal |-> None]
      /\ comp = [at |-> "off", deleted |-> {}, resume |-> FALSE, read |-> <<>>]
      /\ offline \in BOOLEAN /\ strayed = FALSE
  BY DEF Init
<1>2. /\ MaxRow \in Nat /\ MaxGen \in Nat /\ 1 \in 1 .. MaxGen /\ 0 \in Offsets
      /\ 0 \in 0 .. MaxRow
  BY RowLogAssumption DEF Offsets
<1>3. /\ <<>> \in Seq(Row) /\ <<>> \in Seq(Runs) /\ Len(<<>>) = 0 /\ DOMAIN <<>> = {}
      /\ ToSet(<<>>) = {}
  BY EmptySeq, NothingListed, LenProperties
<1>4. IsInjective(<<>>)
  BY <1>3 DEF IsInjective
<1>5. file \in Files
  BY <1>1, EmptyFile
<1>6. /\ db \in Projection /\ db.gen = 1 /\ db.events = {}
      /\ db.checkpoint = [k \in 1 .. MaxGen |-> 0]
  BY <1>1, <1>2 DEF EmptyDb, Projection
<1>7. disk \in Disk /\ disk.archive = [g \in 1 .. MaxGen |-> None] /\ ~Resumable
  BY <1>1 DEF Disk, Resumable, Journal
<1>8. comp \in CompTyped /\ comp.at = "off" /\ comp.deleted = {}
  BY <1>1, EmptyFile DEF CompTyped, Stage
<1>9. hand \in [Writers -> InHand] /\ \A w \in Writers : hand[w] = None
  BY <1>1 DEF InHand
<1>10. Typed
  <2>1. emitted \in Seq(Runs) /\ Len(emitted) <= MaxRow
    BY <1>1, <1>2, <1>3
  <2>2. ToSet(file) \subseteq Rows /\ IsInjective(file)
    BY <1>1, <1>3, <1>4
  <2>3. RowLogTypeOK
    BY <1>1, <1>5, <1>6, <1>7, <1>8, <1>9, <2>1, <2>2 DEF RowLogTypeOK, CompTyped
  <2>4. \A w \in Writers : Unwritten(w)
    BY <1>9 DEF Unwritten, Carries, Has
  <2> QED BY <2>3, <2>4 DEF Typed
<1>11. Half
  BY <1>2, <1>6, <1>7, <1>8 DEF Half, ArchivesFit, StageFits, Read, Rewrites, At
<1>12. RowsSurvive
  BY <1>1 DEF RowsSurvive
<1>13. Synced
  BY <1>1, <1>2, <1>3, <1>6, <1>9
     DEF Synced, EventsLie, AppliesLie, KeptApart, NotAhead, ReadSoFar, Has
<1>14. Locks
  BY <1>1, <1>9 DEF Locks, Locker, Has
<1> QED BY <1>10, <1>11, <1>12, <1>13, <1>14 DEF LogInv

LEMMA StutterKeeps ==
  ASSUME LogInv, UNCHANGED vars
  PROVE  LogInv'
<1>1. /\ Typed /\ Locks /\ Half /\ RowsSurvive /\ Synced
  BY DEF LogInv
<1>2. UNCHANGED <<emitted, file, tail, garbled, tombs, hand, acked, exposed, db, disk, comp,
                offline, strayed>>
  BY DEF vars
<1>3. SameRuns
  BY <1>2, SameRunsStay
<1>4. Typed'
  BY <1>1, <1>2 DEF Typed, RowLogTypeOK, Unwritten, Carries, Has, Rows, Resumable, Journal
<1>5. Half' /\ RowsSurvive'
  BY <1>1, <1>2, <1>3, HalfStays, SafeStays
<1>6. Synced'
  <2>1. KeptApart'
    BY <1>1, <1>2 DEF Synced, KeptApart, Compacting
  <2> QED BY <1>1, <1>2, <1>3, <2>1, SyncedStays
<1>7. Locks'
  BY <1>1, <1>2, LocksStay DEF LockHeld, Has
<1> QED BY <1>4, <1>5, <1>6, <1>7 DEF LogInv

LEMMA StepKeeps == LogInv /\ [Next]_vars => LogInv'
<1> SUFFICES ASSUME LogInv, [Next]_vars PROVE LogInv'
  OBVIOUS
<1>1. CASE \E w \in Writers : Write(w)
  <2>1. PICK w \in Writers : Write(w)
    BY <1>1
  <2>2. CASE \E r \in Runs : Emit(w, r) \/ Delete(w, r)
    BY <2>2, EmitKeeps, DeleteKeeps
  <2>3. CASE AppendRow(w)
    BY <2>3, AppendRowKeeps
  <2>4. CASE TornAppend(w)
    BY <2>4, TornAppendKeeps
  <2>5. CASE ApplyLive(w)
    BY <2>5, ApplyLiveKeeps
  <2>6. CASE Hide(w)
    BY <2>6, HideKeeps
  <2>7. CASE Forget(w)
    BY <2>7, ForgetKeeps
  <2>8. CASE LockAppend(w)
    BY <2>8, LockAppendKeeps
  <2>9. CASE SignalAppend(w)
    BY <2>9, SignalAppendKeeps
  <2>10. CASE TornSignal(w)
    BY <2>10, TornSignalKeeps
  <2> QED BY <2>1, <2>2, <2>3, <2>4, <2>5, <2>6, <2>7, <2>8, <2>9, <2>10 DEF Write
<1>2. CASE Rebuild
  BY <1>2, RebuildKeeps
<1>3. CASE CompactStart
  BY <1>3, CompactStartKeeps
<1>4. CASE Compact
  <2>1. CASE CompactScan
    BY <2>1, CompactScanKeeps
  <2>2. CASE CompactArchive
    BY <2>2, CompactArchiveKeeps
  <2>3. CASE CompactPending
    BY <2>3, CompactPendingKeeps
  <2>4. CASE CompactPrepare
    BY <2>4, CompactPrepareKeeps
  <2>5. CASE CompactReplace
    BY <2>5, CompactReplaceKeeps
  <2>6. CASE CompactMark
    BY <2>6, CompactMarkKeeps
  <2>7. CASE FinishReplace
    BY <2>7, FinishReplaceKeeps
  <2>8. CASE FinishGeneration
    BY <2>8, FinishGenerationKeeps
  <2>9. CASE FinishReset
    BY <2>9, FinishResetKeeps
  <2>10. CASE FinishRebuild
    BY <2>10, FinishRebuildKeeps
  <2>11. CASE FinishUnlink
    BY <2>11, FinishUnlinkKeeps
  <2>12. CASE FinishClean
    BY <2>12, FinishCleanKeeps
  <2>13. CASE FinishOverwrite
    BY <2>13, FinishOverwriteKeeps
  <2> QED BY <1>4, <2>1, <2>2, <2>3, <2>4, <2>5, <2>6, <2>7, <2>8, <2>9, <2>10, <2>11, <2>12,
             <2>13 DEF Compact
<1>5. CASE CompactCrash
  BY <1>5, CompactCrashKeeps
<1>6. CASE UNCHANGED vars
  BY <1>6, StutterKeeps
<1> QED BY <1>1, <1>2, <1>3, <1>4, <1>5, <1>6 DEF Next

\* The variables have their types, no row is twice in the file, and a row that a
\* writer is about to append is nowhere yet: together with what a half done
\* compaction has left, and what the projection has read, at every step.
THEOREM LogIsConsistent == RowLogSpec => []LogInv
<1> QED BY InitFits, StepKeeps, PTL DEF RowLogSpec

THEOREM RowLogTypeCorrect == RowLogSpec => []RowLogTypeOK
<1>1. LogInv => RowLogTypeOK
  BY DEF LogInv, Typed
<1> QED BY <1>1, LogIsConsistent, PTL

\* Whoever dies while appending, and wherever a compaction is interrupted,
\* resumed or repeated: the rows that any writer's append has returned for, the
\* signal handler's appendFileSync included, stay in the file as lines of their own
\* until a deletion names their run.  Excepted are the rows exposed: a signal
\* handler's that met a torn tail or a compactor which had read the file, and a
\* locked one into whose append a signal handler's came.
THEOREM AcknowledgedSurvive == RowLogSpec => []RowsSurvive
<1>1. LogInv => RowsSurvive
  BY DEF LogInv
<1> QED BY <1>1, LogIsConsistent, PTL

LEMMA NotRefused ==
  ASSUME LogInv, ~strayed, Resumable
  PROVE  ~Refuses(Journal)
<1>1. Typed /\ JournalFits
  BY DEF LogInv, Half
<1>2. PendingRows(Journal) = Journal.compacted
  <2>1. disk.pending = Journal.compacted /\ disk.pending # None
    BY <1>1, DiskTyped, RowLogAssumption DEF JournalFits
  <2> QED BY <2>1 DEF PendingRows
<1>3. ~AlreadyReplaced(Journal) => Source = Journal.original
  BY <1>1, TestIsRight DEF JournalFits, Untouched, Source
<1> QED BY <1>1, <1>2, <1>3 DEF Refuses, JournalFits

\* finishJournal and writeArchive throw for good, and the tracker's file can never
\* be compacted again, only if a writer got in between the archive of a compaction
\* that died and its replacement of the file.
THEOREM ResumableUnlessStrayed == RowLogSpec => []RefusesOnlyIfStrayed
<1>1. LogInv => RefusesOnlyIfStrayed
  <2> SUFFICES ASSUME LogInv, ~strayed PROVE RefusesOnlyIfStrayed
    BY DEF RefusesOnlyIfStrayed
  <2>1. disk.journal # None => ~Refuses(disk.journal)
    BY NotRefused DEF Resumable, Journal
  <2>2. At("archive") => ~ArchiveDiffers
    BY DEF LogInv, Half, StageFits, ArchivesFit, Read, ReadFits, At, ArchiveDiffers
  <2> QED BY <2>1, <2>2 DEF RefusesOnlyIfStrayed
<1> QED BY <1>1, LogIsConsistent, PTL

\* The history that applyTrackerEntry and rebuildProjectionForDate file under a
\* byte offset has every row where the file has it, compactions or not, provided
\* no writer was active beside them.
THEOREM HistoryNamesPlaces == RowLogSpec => []EventsMatchFile
<1>1. LogInv => EventsMatchFile
  BY DEF LogInv, Synced, EventsLie, Settled, Resumable, Journal, Lies, EventsMatchFile
<1> QED BY <1>1, LogIsConsistent, PTL

LEMMA RebuildReads ==
  ASSUME LogInv, Rebuild, ~Resumable
  PROVE  CaughtUp'
<1>1. Typed /\ LogInv' /\ Typed'
  BY RebuildKeeps DEF LogInv
<1>2. /\ db' = Rebuilt(db)
      /\ UNCHANGED <<emitted, file, garbled, exposed, tombs, disk, offline>>
  BY DEF Rebuild, logVars
<1>3. Settled'
  BY <1>2 DEF Settled, Resumable, Journal
<1>4. /\ Len(file) \in Nat /\ DOMAIN file = 1 .. Len(file)
      /\ ToSet(file) = { file[i] : i \in 1 .. Len(file) }
  BY <1>1, FileTyped, RowLogAssumption
<1>5. db'.checkpoint[db'.gen] = Len(file)
  BY <1>1, <1>2, RebuiltFacts, DbTyped
<1>6. \A i \in 1 .. Len(file) : file[i] \notin garbled =>
        /\ db'.latest[RunOf(file[i])] >= file[i]
        /\ offline => InHistory(i)'
  BY <1>1, <1>2, <1>3, <1>5 DEF LogInv, Synced, ReadSoFar, RunOf, InHistory
<1>7. \A r \in tombs : db'.latest[r] # 0 => r \in db'.hidden
  BY <1>1, <1>2, RebuiltFacts
<1>8. ASSUME NEW r \in Runs, NEW n \in Newests(r)
      PROVE  db'.latest[r] >= n
  BY <1>4, <1>6 DEF Newests, Readable
<1>9. offline => \A i \in DOMAIN file : file[i] \in Readable => InHistory(i)'
  BY <1>4, <1>6 DEF Readable
<1> QED BY <1>2, <1>7, <1>8, <1>9 DEF CaughtUp, Newests, Readable, RunOf

\* rebuildProjectionForDate from its checkpoint, over rows some of which were
\* applied live and some never, leaves nothing behind that the file has.
THEOREM RebuildCatches == RowLogSpec => RebuildCatchesUp
<1>1. LogInv /\ Rebuild /\ disk.journal = None => CaughtUp'
  BY RebuildReads DEF Resumable, Journal
<1>2. LogInv /\ [Next]_vars => [Rebuild /\ disk.journal = None => CaughtUp']_vars
  BY <1>1
<1> QED BY <1>2, LogIsConsistent, PTL DEF RowLogSpec, RebuildCatchesUp
=============================================================================
