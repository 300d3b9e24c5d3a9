------------------------------ MODULE FilesProofs ------------------------------
(***************************************************************************)
(* Proofs about Files: however files are renamed, dropped and taken back,  *)
(* a listing that nothing interrupts is stored as it is.  The lemmas about *)
(* sums and natural numbers are those of ScoringProofs.                    *)
(***************************************************************************)
EXTENDS Files, ScoringProofs, SequenceTheorems

-----------------------------------------------------------------------------
(* Files in order                                                          *)

(* A diff has one order by name, in which every file has its place.        *)
LEMMA InOrderLists ==
  ASSUME NEW files, Diff(files)
  PROVE  LET all == InOrder(files)
         IN /\ Cardinality(files) \in Nat
            /\ all \in Seq(files) /\ Len(all) = Cardinality(files)
            /\ all \in Seq(Changed)
            /\ \A i, j \in 1..Len(all) : all[i].name = all[j].name => i = j
            /\ \A f \in files : \E i \in 1..Len(all) : all[i] = f
PROOF
<1> DEFINE n == Cardinality(files)
           Below(f) == {g \in files : g.name <= f.name}
           rank == [f \in files |-> Cardinality(Below(f))]
<1>1. /\ IsFiniteSet(files) /\ n \in Nat /\ files \subseteq Changed
      /\ \A f \in files : f.name \in Nat
      /\ \A f, g \in files : f.name = g.name => f = g
  BY FS_CardinalityType DEF Diff, Changed
<1>2. \A f \in files : IsFiniteSet(Below(f)) /\ rank[f] \in 1..n
  <2> SUFFICES ASSUME NEW f \in files
               PROVE  IsFiniteSet(Below(f)) /\ Cardinality(Below(f)) \in 1..n
    OBVIOUS
  <2>1. Below(f) \in SUBSET files /\ f \in Below(f)
    BY <1>1
  <2> HIDE DEF Below
  <2>2. /\ IsFiniteSet(Below(f)) /\ Cardinality(Below(f)) <= n
    BY <1>1, <2>1, FS_Subset
  <2>3. Cardinality(Below(f)) \in Nat /\ Cardinality(Below(f)) # 0
    BY <2>1, <2>2, FS_CardinalityType, FS_EmptySet
  <2> QED BY <1>1, <2>2, <2>3
<1>3. \A f, g \in files : f.name < g.name => rank[f] < rank[g]
  <2> SUFFICES ASSUME NEW f \in files, NEW g \in files, f.name < g.name
               PROVE  Cardinality(Below(f)) < Cardinality(Below(g))
    OBVIOUS
  <2>1. Below(f) \in SUBSET Below(g) /\ g \in Below(g) /\ g \notin Below(f)
    BY <1>1
  <2>2. IsFiniteSet(Below(g)) /\ Cardinality(Below(f)) \in Nat /\ Cardinality(Below(g)) \in Nat
    BY <1>2
  <2> HIDE DEF Below
  <2>3. /\ Cardinality(Below(f)) <= Cardinality(Below(g))
        /\ Cardinality(Below(g)) = Cardinality(Below(f)) => Below(g) = Below(f)
    BY <2>1, <2>2, FS_Subset
  <2> QED BY <2>1, <2>2, <2>3
<1>4. rank \in Injection(files, 1..n)
  <2>1. rank \in [files -> 1..n]
    BY <1>2
  <2>2. \A f, g \in files : rank[f] = rank[g] => f = g
    <3> HIDE DEF rank
    <3>1. \A f \in files : rank[f] \in Int
      BY <2>1
    <3> QED BY <1>1, <1>3, <3>1
  <2> HIDE DEF rank
  <2> QED BY <2>1, <2>2 DEF Injection, IsInjective
<1>5. rank \in Surjection(files, 1..n)
  <2>1. IsFiniteSet(1..n) /\ Cardinality(1..n) = n
    BY <1>1, FS_Interval
  <2> HIDE DEF rank
  <2> QED BY <1>1, <1>4, <2>1, FS_Injection
<1> DEFINE s == [i \in 1..n |-> CHOOSE f \in files : rank[f] = i]
<1>6. \A i \in 1..n : s[i] \in files /\ rank[s[i]] = i
  <2>1. \A i \in 1..n : \E f \in files : rank[f] = i
    <3> HIDE DEF rank
    <3> QED BY <1>5 DEF Surjection
  <2> HIDE DEF rank
  <2> QED BY <2>1
<1>7. /\ s \in SetToSeqs(files)
      /\ \A i, j \in DOMAIN s : i < j => s[i].name < s[j].name
  <2> HIDE DEF rank
  <2>1. s \in [1..n -> files]
    BY <1>6
  <2>2. ASSUME NEW i \in 1..n, NEW j \in 1..n, i < j
        PROVE  s[i].name < s[j].name
    <3>1. s[i] \in files /\ s[j] \in files /\ rank[s[i]] = i /\ rank[s[j]] = j
      BY <1>6
    <3> HIDE DEF s
    <3>2. s[i].name \in Nat /\ s[j].name \in Nat
      BY <1>1, <3>1
    <3>3. s[j].name # s[i].name
      BY <1>1, <2>2, <3>1
    <3>4. ~ (s[j].name < s[i].name)
      BY <1>3, <2>2, <3>1
    <3> QED BY <3>2, <3>3, <3>4
  <2>3. \A i, j \in 1..n : i # j => s[i] # s[j]
    <3> HIDE DEF s
    <3> QED BY <1>6
  <2>4. DOMAIN s = 1..n
    OBVIOUS
  <2> HIDE DEF s
  <2> QED BY <2>1, <2>2, <2>3, <2>4 DEF SetToSeqs
<1> HIDE DEF s, rank, Below
<1> DEFINE all == InOrder(files)
<1>8. /\ all \in SetToSeqs(files)
      /\ \A i, j \in DOMAIN all : i < j => all[i].name < all[j].name
  BY <1>7 DEF InOrder
<1> HIDE DEF all
<1>9. all \in [1..n -> files] /\ \A i, j \in 1..n : i # j => all[i] # all[j]
  BY <1>8 DEF SetToSeqs
<1>10. all \in Seq(files) /\ all \in Seq(Changed) /\ Len(all) = n /\ DOMAIN all = 1..n
  BY <1>1, <1>9
<1>11. \A i, j \in 1..n : all[i].name = all[j].name => i = j
  <2>1. \A i \in 1..n : all[i] \in files
    BY <1>9
  <2> QED BY <1>1, <1>9, <2>1
<1>12. \A f \in files : \E i \in 1..n : all[i] = f
  <2>1. all \in Injection(1..n, files)
    BY <1>9 DEF Injection, IsInjective
  <2>2. IsFiniteSet(1..n) /\ Cardinality(1..n) = n
    BY <1>1, FS_Interval
  <2>3. all \in Surjection(1..n, files)
    BY <1>1, <2>1, <2>2, FS_Injection
  <2> QED BY <2>3 DEF Surjection
<1> QED BY <1>1, <1>10, <1>11, <1>12 DEF all

-----------------------------------------------------------------------------
(* Writing one file after another                                          *)

WritingBy(base, items, w, s) ==
  IF s = {} THEN base ELSE WriteFile(w[s \ {Max(s)}], items[Max(s)])

(* The fold over a listing has a solution.                                 *)
LEMMA WritingDefined ==
  ASSUME NEW base, NEW items, NEW n \in Nat
  PROVE  \E w : w = [s \in SUBSET (1..n) |-> WritingBy(base, items, w, s)]
PROOF
<1> DEFINE Small(m) == {s \in SUBSET (1..n) : Cardinality(s) <= m}
           Solved == {m \in Nat :
                        \E w : w = [s \in Small(m) |-> WritingBy(base, items, w, s)]}
<1>0. IsFiniteSet(1..n) /\ Cardinality(1..n) = n
  BY FS_Interval
<1>1. \A s \in SUBSET (1..n) : IsFiniteSet(s) /\ Cardinality(s) \in Nat /\ Cardinality(s) <= n
  BY <1>0, FS_Subset, FS_CardinalityType
<1>2. ASSUME NEW m \in Solved, NEW k \in Nat, k = m + 1
      PROVE  k \in Solved
  <2>1. PICK w : w = [s \in Small(m) |-> WritingBy(base, items, w, s)]
    BY <1>2
  <2> DEFINE h == [s \in Small(k) |-> WritingBy(base, items, w, s)]
  <2>2. \A s \in Small(m) : s \in Small(k) /\ h[s] = w[s]
    <3> SUFFICES ASSUME NEW s \in Small(m) PROVE s \in Small(k) /\ h[s] = w[s]
      OBVIOUS
    <3>1. s \in Small(k)
      BY <1>1, <1>2
    <3>2. w[s] = WritingBy(base, items, w, s)
      BY <2>1
    <3> QED BY <3>1, <3>2
  <2>3. \A s \in Small(k) : WritingBy(base, items, w, s) = WritingBy(base, items, h, s)
    <3> SUFFICES ASSUME NEW s \in Small(k), s # {}
                 PROVE  w[s \ {Max(s)}] = h[s \ {Max(s)}]
      BY DEF WritingBy
    <3>1. Max(s) \in s
      <4>1. s \in SUBSET (0..n)
        OBVIOUS
      <4> QED BY <4>1, MinMax
    <3>2. Cardinality(s \ {Max(s)}) = Cardinality(s) - 1
      BY <1>1, <3>1, FS_RemoveElement
    <3>3. s \ {Max(s)} \in Small(m)
      <4>1. s \ {Max(s)} \in SUBSET (1..n)
        OBVIOUS
      <4>2. Cardinality(s) \in Nat /\ Cardinality(s) <= k /\ m \in Nat
        BY <1>1
      <4>3. Cardinality(s \ {Max(s)}) <= m
        BY <1>2, <3>2, <4>2
      <4> QED BY <4>1, <4>3
    <3> QED BY <2>2, <3>3
  <2>4. h = [s \in Small(k) |-> WritingBy(base, items, h, s)]
    BY <2>3
  <2> QED BY <2>4
<1>3. 0 \in Solved
  <2> DEFINE h == [s \in Small(0) |-> base]
  <2>1. \A s \in Small(0) : s = {}
    BY <1>1, FS_EmptySet
  <2>2. h = [s \in Small(0) |-> WritingBy(base, items, h, s)]
    BY <2>1 DEF WritingBy
  <2> QED BY <2>2
<1>4. n \in Solved
  <2>1. Solved \in SUBSET Nat
    OBVIOUS
  <2> HIDE DEF Solved
  <2>2. \A m \in Solved : m + 1 \in Solved
    BY <1>2, <2>1
  <2>3. Solved = Nat
    BY <1>3, <2>1, <2>2, AllNaturals
  <2> QED BY <2>3
<1>5. Small(n) = SUBSET (1..n)
  BY <1>1
<1> HIDE DEF Small
<1> QED BY <1>4, <1>5

(* Writing a listing is writing each of its files into what the ones       *)
(* before it left.                                                         *)
LEMMA WritingFiles ==
  ASSUME NEW rows, NEW items \in Seq(Changed)
  PROVE  \E w : /\ w[0] = ToWrite(rows)
                /\ \A k \in 1..Len(items) : w[k] = WriteFile(w[k - 1], items[k])
                /\ WriteFiles(rows, items) = w[Len(items)]
PROOF
<1> DEFINE n == Len(items)
           base == ToWrite(rows)
           Writes == CHOOSE w : w = [s \in SUBSET (1..n) |-> WritingBy(base, items, w, s)]
<1>1. n \in Nat /\ DOMAIN items = 1..n
  BY LenProperties
<1>2. WriteFiles(rows, items) = Writes[1..n]
  BY <1>1 DEF WriteFiles, FoldLeft, MapThenFoldSet, WritingBy
<1>3. \E w : w = [s \in SUBSET (1..n) |-> WritingBy(base, items, w, s)]
  <2> HIDE DEF n, base
  <2> QED BY <1>1, WritingDefined
<1>4. Writes = [s \in SUBSET (1..n) |-> WritingBy(base, items, Writes, s)]
  BY <1>3
<1> HIDE DEF Writes, base
<1>5. Writes[{}] = base
  BY <1>4 DEF WritingBy
<1>6. ASSUME NEW k \in 1..n
      PROVE  Writes[1..k] = WriteFile(Writes[1..(k - 1)], items[k])
  <2> DEFINE s == 1..k
  <2>1. s \in SUBSET (1..n) /\ s \in SUBSET (0..n) /\ s # {} /\ k \in s
    <3>1. k \in Nat /\ 1 <= k /\ k <= n /\ n \in Nat
      BY <1>1
    <3>2. \A i \in s : i \in 1..n /\ i \in 0..n
      BY <3>1
    <3>3. k \in s
      BY <3>1
    <3> QED BY <3>2, <3>3
  <2>2. Max(s) \in s /\ \A i \in s : i <= Max(s)
    <3> HIDE DEF s
    <3> QED BY <1>1, <2>1, MinMax
  <2>3. Max(s) = k
    <3>1. k <= Max(s) /\ Max(s) \in 1..k
      BY <2>1, <2>2
    <3> QED BY <1>1, <3>1
  <2>4. s \ {k} = 1..(k - 1)
    BY <1>1
  <2>5. Writes[s] = WritingBy(base, items, Writes, s)
    <3> HIDE DEF s
    <3> QED BY <1>4, <2>1
  <2> HIDE DEF s
  <2>6. Writes[s] = WriteFile(Writes[s \ {k}], items[k])
    BY <2>1, <2>3, <2>5 DEF WritingBy
  <2> QED BY <2>4, <2>6 DEF s
<1> DEFINE w == [k \in 0..n |-> Writes[1..k]]
<1>7. w[0] = base
  <2>1. 1..0 = {}
    OBVIOUS
  <2> QED BY <1>1, <1>5, <2>1
<1>8. ASSUME NEW k \in 1..n PROVE w[k] = WriteFile(w[k - 1], items[k])
  <2>1. k \in 0..n /\ k - 1 \in 0..n
    BY <1>1
  <2> QED BY <1>6, <2>1
<1>9. WriteFiles(rows, items) = w[n]
  BY <1>1, <1>2
<1> HIDE DEF w
<1> QED BY <1>7, <1>8, <1>9 DEF base

NamedOnce(rows) ==
  \A i, j \in DOMAIN rows : rows[i].file.name = rows[j].file.name => i = j

(* A file is written to a new row if none has its name or its old name, or *)
(* else to one of these rows.                                              *)
Inserts(st, f, w) ==
  /\ \A i \in DOMAIN st.rows : st.rows[i].file.name # f.name
  /\ Len(w.rows) = Len(st.rows) + 1
  /\ \A i \in DOMAIN st.rows : w.rows[i] = st.rows[i]
  /\ w.rows[Len(st.rows) + 1] = [file |-> f, current |-> TRUE]
  /\ w.flushed = Names(w.rows)
  /\ w.seen = st.seen \cup {Len(st.rows) + 1}
  /\ w.ok = (st.ok /\ f.name \notin st.names /\ ~Collide(st.rows, st.flushed))
Updates(st, f, w, id) ==
  /\ \/ st.rows[id].file.name = f.name
     \/ /\ st.rows[id].file.name = f.previous
        /\ \A i \in DOMAIN st.rows : st.rows[i].file.name # f.name
  /\ Len(w.rows) = Len(st.rows)
  /\ \A i \in DOMAIN st.rows :
       w.rows[i] = IF i = id THEN [file |-> f, current |-> TRUE] ELSE st.rows[i]
  /\ w.flushed = st.flushed
  /\ w.seen = st.seen \cup {id}
  /\ w.ok = (st.ok /\ f.name \notin st.names)

(* What writing one file does, in these words.                             *)
LEMMA WriteFileDoes ==
  ASSUME NEW st, st.rows \in Seq(FileRow), NEW f \in Changed,
         NEW w, w = WriteFile(st, f)
  PROVE  /\ w.rows \in Seq(FileRow)
         /\ w.names = st.names \cup {f.name}
         /\ Inserts(st, f, w) \/ \E id \in DOMAIN st.rows : Updates(st, f, w, id)
PROOF
<1> DEFINE row == [file |-> f, current |-> TRUE]
           found == RowsOf(st.rows, f)
           id == CHOOSE i \in found : TRUE
<1>1. row \in FileRow
  BY DEF FileRow
<1>2. DOMAIN st.rows = 1..Len(st.rows) /\ Len(st.rows) \in Nat
  BY LenProperties
<1>3. CASE found = {}
  <2> DEFINE inserted == Append(st.rows, row)
  <2>1. /\ inserted \in Seq(FileRow) /\ Len(inserted) = Len(st.rows) + 1
        /\ \A i \in 1..Len(st.rows) : inserted[i] = st.rows[i]
        /\ inserted[Len(st.rows) + 1] = row
    <3> HIDE DEF row
    <3> QED BY <1>1, AppendProperties
  <2> HIDE DEF inserted
  <2>2. /\ w.rows = inserted /\ w.flushed = Names(inserted)
        /\ w.seen = st.seen \cup {Len(inserted)} /\ w.names = st.names \cup {f.name}
        /\ w.ok = (/\ st.ok /\ f.name \notin st.names
                   /\ RowsNamed(st.rows, f.name) = {}
                   /\ ~Collide(st.rows, st.flushed))
    BY <1>3 DEF WriteFile, inserted
  <2>3. RowsNamed(st.rows, f.name) = {}
    BY <1>3 DEF RowsOf
  <2>4. \A i \in DOMAIN st.rows : st.rows[i].file.name # f.name
    BY <2>3 DEF RowsNamed
  <2>5. Inserts(st, f, w)
    BY <1>2, <2>1, <2>2, <2>3, <2>4 DEF Inserts
  <2> QED BY <2>1, <2>2, <2>5
<1>4. CASE found # {}
  <2>1. id \in found
    BY <1>4
  <2>2. /\ id \in DOMAIN st.rows
        /\ \/ st.rows[id].file.name = f.name
           \/ /\ st.rows[id].file.name = f.previous
              /\ \A i \in DOMAIN st.rows : st.rows[i].file.name # f.name
    <3> HIDE DEF id
    <3> QED BY <2>1 DEF RowsOf, RowsNamed
  <2>3. /\ w.rows = [st.rows EXCEPT ![id] = row] /\ w.flushed = st.flushed
        /\ w.seen = st.seen \cup {id} /\ w.names = st.names \cup {f.name}
        /\ w.ok = (st.ok /\ f.name \notin st.names)
    BY <1>4 DEF WriteFile
  <2> HIDE DEF id, found
  <2>4. /\ [st.rows EXCEPT ![id] = row] \in Seq(FileRow)
        /\ Len([st.rows EXCEPT ![id] = row]) = Len(st.rows)
        /\ \A i \in 1..Len(st.rows) :
             [st.rows EXCEPT ![id] = row][i] = IF i = id THEN row ELSE st.rows[i]
    <3> HIDE DEF row
    <3> QED BY <1>1, <1>2, <2>2, ExceptSeq
  <2>5. Updates(st, f, w, id)
    BY <1>2, <2>2, <2>3, <2>4 DEF Updates
  <2> QED BY <2>2, <2>3, <2>4, <2>5
<1> QED BY <1>3, <1>4

(* No file gives two rows one name (uq_pull_request_files_path).           *)
LEMMA WriteFileNamesOnce ==
  ASSUME NEW st, st.rows \in Seq(FileRow), NamedOnce(st.rows), NEW f \in Changed,
         NEW w, w = WriteFile(st, f)
  PROVE  w.rows \in Seq(FileRow) /\ NamedOnce(w.rows)
PROOF
<1>1. /\ w.rows \in Seq(FileRow)
      /\ Inserts(st, f, w) \/ \E id \in DOMAIN st.rows : Updates(st, f, w, id)
  BY WriteFileDoes
<1>2. /\ DOMAIN st.rows = 1..Len(st.rows) /\ Len(st.rows) \in Nat
      /\ DOMAIN w.rows = 1..Len(w.rows)
  BY <1>1, LenProperties
<1>3. CASE Inserts(st, f, w)
  <2> DEFINE new == Len(st.rows) + 1
  <2>1. /\ DOMAIN w.rows = DOMAIN st.rows \cup {new}
        /\ \A i \in DOMAIN st.rows : w.rows[i] = st.rows[i] /\ st.rows[i].file.name # f.name
        /\ w.rows[new] = [file |-> f, current |-> TRUE]
    BY <1>2, <1>3 DEF Inserts
  <2>2. w.rows[new].file.name = f.name
    BY <2>1
  <2> HIDE DEF new
  <2> QED BY <1>1, <2>1, <2>2 DEF NamedOnce
<1>4. ASSUME NEW id \in DOMAIN st.rows, Updates(st, f, w, id)
      PROVE  NamedOnce(w.rows)
  <2>1. /\ DOMAIN w.rows = DOMAIN st.rows
        /\ \A i \in DOMAIN st.rows : i # id => w.rows[i] = st.rows[i]
        /\ w.rows[id] = [file |-> f, current |-> TRUE]
    BY <1>2, <1>4 DEF Updates
  <2>2. w.rows[id].file.name = f.name
    BY <2>1
  <2>3. \A i \in DOMAIN st.rows : i # id => st.rows[i].file.name # f.name
    BY <1>4 DEF Updates, NamedOnce
  <2> QED BY <2>1, <2>2, <2>3 DEF NamedOnce
<1> QED BY <1>1, <1>3, <1>4

(* Nor does a listing, whatever pages it was put together from.            *)
LEMMA WritingNamesOnce ==
  ASSUME NEW rows \in Seq(FileRow), NamedOnce(rows), NEW items \in Seq(Changed)
  PROVE  /\ WriteFiles(rows, items).rows \in Seq(FileRow)
         /\ NamedOnce(WriteFiles(rows, items).rows)
PROOF
<1> DEFINE n == Len(items)
<1>1. PICK w : /\ w[0] = ToWrite(rows)
               /\ \A k \in 1..n : w[k] = WriteFile(w[k - 1], items[k])
               /\ WriteFiles(rows, items) = w[n]
  BY WritingFiles
<1>2. n \in Nat /\ \A k \in 1..n : items[k] \in Changed
  BY LenProperties
<1> HIDE DEF n
<1> DEFINE Good(k) == w[k].rows \in Seq(FileRow) /\ NamedOnce(w[k].rows)
           Done == {k \in Nat : k <= n => Good(k)}
<1>3. 0 \in Done
  BY <1>1 DEF ToWrite
<1>4. ASSUME NEW k \in Done PROVE k + 1 \in Done
  <2> SUFFICES ASSUME k + 1 <= n PROVE Good(k + 1)
    OBVIOUS
  <2>1. Good(k) /\ k + 1 \in 1..n /\ (k + 1) - 1 = k
    BY <1>2
  <2>2. w[k + 1] = WriteFile(w[k], items[k + 1]) /\ items[k + 1] \in Changed
    BY <1>1, <1>2, <2>1
  <2> QED BY <2>1, <2>2, WriteFileNamesOnce
<1>5. Done = Nat
  <2>1. Done \in SUBSET Nat
    OBVIOUS
  <2> HIDE DEF Done
  <2> QED BY <1>3, <1>4, <2>1, AllNaturals
<1>6. Good(n)
  <2>1. n \in Done
    BY <1>2, <1>5
  <2> QED BY <1>2, <2>1
<1> QED BY <1>1, <1>6

-----------------------------------------------------------------------------
(* A listing of one diff                                                   *)

(* What has been written of the files of one diff.  A row has its new name *)
(* in memory before the database has it: then the old name is none of the  *)
(* diff's, and no row the database knows has the new one.                  *)
WrittenOf(files, items, k, st) ==
  /\ st.rows \in Seq(FileRow) /\ NamedOnce(st.rows)
  /\ st.ok
  /\ \A f \in Changed : f.name \in st.names => \E m \in 1..k : items[m].name = f.name
  /\ st.seen \subseteq DOMAIN st.rows
  /\ \A i \in st.seen : \E m \in 1..k : st.rows[i] = [file |-> items[m], current |-> TRUE]
  /\ \A m \in 1..k : \E i \in st.seen : st.rows[i].file = items[m]
  /\ DOMAIN st.flushed = DOMAIN st.rows
  /\ \A i, j \in DOMAIN st.rows : st.flushed[i] = st.flushed[j] => i = j
  /\ \A i \in DOMAIN st.rows : st.rows[i].file.name # st.flushed[i] =>
       /\ i \in st.seen
       /\ \A f \in files : f.name # st.flushed[i]
       /\ \A j \in DOMAIN st.rows : st.flushed[j] # st.rows[i].file.name

(* So the database never sees two rows with one name.                      *)
LEMMA NeverCollide ==
  ASSUME NEW files, NEW items, NEW k, NEW st, WrittenOf(files, items, k, st)
  PROVE  ~Collide(st.rows, st.flushed)
PROOF
<1>1. DOMAIN st.rows = 1..Len(st.rows) /\ Len(st.rows) \in Nat
  BY LenProperties DEF WrittenOf
<1>2. DOMAIN st.flushed = DOMAIN st.rows
  BY DEF WrittenOf
<1> SUFFICES ASSUME NEW i \in DOMAIN st.rows, NEW j \in DOMAIN st.rows, i # j,
                    st.rows[i].file.name = st.flushed[j]
             PROVE  FALSE
  BY <1>1, <1>2 DEF Collide
<1>3. st.rows[i].file.name # st.flushed[i]
  BY DEF WrittenOf
<1> QED BY <1>3 DEF WrittenOf

(* Writing the next file keeps it so: it cannot be refused.                *)
LEMMA WriteNext ==
  ASSUME NEW files, Diff(files), NEW items \in Seq(files), NEW k \in Nat, k < Len(items),
         \A i, j \in 1..Len(items) : items[i].name = items[j].name => i = j,
         NEW st, WrittenOf(files, items, k, st),
         NEW w, w = WriteFile(st, items[k + 1])
  PROVE  WrittenOf(files, items, k + 1, w)
PROOF
<1> DEFINE f == items[k + 1]
<1>1. /\ Len(items) \in Nat /\ k + 1 \in 1..Len(items)
      /\ \A m \in 1..Len(items) : items[m] \in files
      /\ files \subseteq Changed
  BY LenProperties DEF Diff
<1>2. f \in files /\ f \in Changed
  BY <1>1
<1>3. ASSUME NEW m \in 1..k PROVE m \in 1..Len(items) /\ items[m] \in files /\ items[m].name # f.name
  BY <1>1
<1>4. \A g \in files : f.previous # g.name
  BY <1>2 DEF Diff
<1>5. w = WriteFile(st, f)
  OBVIOUS
<1> HIDE DEF f
<1>6. st.rows \in Seq(FileRow) /\ NamedOnce(st.rows)
  BY DEF WrittenOf
<1>7. /\ w.rows \in Seq(FileRow) /\ w.names = st.names \cup {f.name}
      /\ Inserts(st, f, w) \/ \E id \in DOMAIN st.rows : Updates(st, f, w, id)
  BY <1>2, <1>5, <1>6, WriteFileDoes
<1>8. NamedOnce(w.rows)
  BY <1>2, <1>5, <1>6, WriteFileNamesOnce
<1>9. /\ DOMAIN st.rows = 1..Len(st.rows) /\ Len(st.rows) \in Nat
      /\ DOMAIN w.rows = 1..Len(w.rows)
  BY <1>6, <1>7, LenProperties
<1>10. f.name \notin st.names
  BY <1>2, <1>3 DEF WrittenOf
<1>11. 1..(k + 1) = (1..k) \cup {k + 1}
  OBVIOUS
<1>12. \A g \in Changed : g.name \in w.names => \E m \in 1..(k + 1) : items[m].name = g.name
  <2> SUFFICES ASSUME NEW g \in Changed, g.name \in w.names
               PROVE  \E m \in 1..(k + 1) : items[m].name = g.name
    OBVIOUS
  <2>1. CASE g.name = f.name
    BY <1>11, <2>1 DEF f
  <2>2. CASE g.name \in st.names
    BY <1>11, <2>2 DEF WrittenOf
  <2> QED BY <1>7, <2>1, <2>2
<1>15. ~Collide(st.rows, st.flushed)
  BY NeverCollide
<1>13. CASE Inserts(st, f, w)
  <2> DEFINE new == Len(st.rows) + 1
  <2>1. /\ DOMAIN w.rows = DOMAIN st.rows \cup {new} /\ new \notin DOMAIN st.rows
        /\ \A i \in DOMAIN st.rows : w.rows[i] = st.rows[i]
        /\ w.rows[new] = [file |-> f, current |-> TRUE]
        /\ w.seen = st.seen \cup {new}
        /\ w.flushed = Names(w.rows)
    BY <1>9, <1>13 DEF Inserts
  <2>2. w.ok
    BY <1>10, <1>15, <1>13 DEF Inserts, WrittenOf
  <2> HIDE DEF new
  <2>3. w.seen \subseteq DOMAIN w.rows
    BY <2>1 DEF WrittenOf
  <2>4. \A i \in w.seen : \E m \in 1..(k + 1) : w.rows[i] = [file |-> items[m], current |-> TRUE]
    <3> SUFFICES ASSUME NEW i \in w.seen
                 PROVE  \E m \in 1..(k + 1) : w.rows[i] = [file |-> items[m], current |-> TRUE]
      OBVIOUS
    <3>1. CASE i = new
      BY <1>11, <2>1, <3>1 DEF f
    <3>2. CASE i \in st.seen
      <4>1. i \in DOMAIN st.rows
        BY <3>2 DEF WrittenOf
      <4>2. PICK m \in 1..k : st.rows[i] = [file |-> items[m], current |-> TRUE]
        BY <3>2 DEF WrittenOf
      <4>3. m \in 1..(k + 1) /\ w.rows[i] = st.rows[i]
        BY <1>11, <2>1, <4>1
      <4> QED BY <4>2, <4>3
    <3> QED BY <2>1, <3>1, <3>2
  <2>5. \A m \in 1..(k + 1) : \E i \in w.seen : w.rows[i].file = items[m]
    <3> SUFFICES ASSUME NEW m \in 1..(k + 1)
                 PROVE  \E i \in w.seen : w.rows[i].file = items[m]
      OBVIOUS
    <3>1. CASE m = k + 1
      BY <2>1, <3>1 DEF f
    <3>2. CASE m \in 1..k
      BY <2>1, <3>2 DEF WrittenOf
    <3> QED BY <1>11, <3>1, <3>2
  <2>6. /\ DOMAIN w.flushed = DOMAIN w.rows
        /\ \A i \in DOMAIN w.rows : w.flushed[i] = w.rows[i].file.name
    BY <2>1 DEF Names
  <2>7. \A i, j \in DOMAIN w.rows : w.flushed[i] = w.flushed[j] => i = j
    BY <1>8, <2>6 DEF NamedOnce
  <2> QED BY <1>7, <1>8, <1>12, <2>2, <2>3, <2>4, <2>5, <2>6, <2>7 DEF WrittenOf
<1>14. ASSUME NEW id \in DOMAIN st.rows, Updates(st, f, w, id)
       PROVE  WrittenOf(files, items, k + 1, w)
  <2>1. /\ DOMAIN w.rows = DOMAIN st.rows
        /\ \A i \in DOMAIN st.rows : i # id => w.rows[i] = st.rows[i]
        /\ w.rows[id] = [file |-> f, current |-> TRUE]
        /\ w.seen = st.seen \cup {id}
        /\ w.flushed = st.flushed
    BY <1>9, <1>14 DEF Updates
  <2>2. w.ok
    BY <1>10, <1>14 DEF Updates, WrittenOf
  <2>3. st.rows[id].file.name = f.name \/
          /\ st.rows[id].file.name = f.previous
          /\ \A i \in DOMAIN st.rows : st.rows[i].file.name # f.name
    BY <1>14 DEF Updates
  <2>4. id \notin st.seen
    <3> SUFFICES ASSUME id \in st.seen PROVE FALSE
      OBVIOUS
    <3>1. PICK m \in 1..k : st.rows[id] = [file |-> items[m], current |-> TRUE]
      BY DEF WrittenOf
    <3>2. st.rows[id].file = items[m]
      BY <3>1
    <3> QED BY <1>3, <1>4, <2>3, <3>2
  <2>5. w.seen \subseteq DOMAIN w.rows
    BY <2>1 DEF WrittenOf
  <2>6. \A i \in w.seen : \E m \in 1..(k + 1) : w.rows[i] = [file |-> items[m], current |-> TRUE]
    <3> SUFFICES ASSUME NEW i \in w.seen
                 PROVE  \E m \in 1..(k + 1) : w.rows[i] = [file |-> items[m], current |-> TRUE]
      OBVIOUS
    <3>1. CASE i = id
      BY <1>11, <2>1, <3>1 DEF f
    <3>2. CASE i \in st.seen
      <4>1. i # id /\ i \in DOMAIN st.rows
        BY <2>4, <3>2 DEF WrittenOf
      <4>2. PICK m \in 1..k : st.rows[i] = [file |-> items[m], current |-> TRUE]
        BY <3>2 DEF WrittenOf
      <4>3. m \in 1..(k + 1) /\ w.rows[i] = st.rows[i]
        BY <1>11, <2>1, <4>1
      <4> QED BY <4>2, <4>3
    <3> QED BY <2>1, <3>1, <3>2
  <2>7. \A m \in 1..(k + 1) : \E i \in w.seen : w.rows[i].file = items[m]
    <3> SUFFICES ASSUME NEW m \in 1..(k + 1)
                 PROVE  \E i \in w.seen : w.rows[i].file = items[m]
      OBVIOUS
    <3>1. CASE m = k + 1
      BY <2>1, <3>1 DEF f
    <3>2. CASE m \in 1..k
      <4>1. PICK i \in st.seen : st.rows[i].file = items[m]
        BY <3>2 DEF WrittenOf
      <4>2. i # id /\ i \in DOMAIN st.rows
        BY <2>4 DEF WrittenOf
      <4> QED BY <2>1, <4>1, <4>2
    <3> QED BY <1>11, <3>1, <3>2
  <2>8. /\ DOMAIN w.flushed = DOMAIN w.rows
        /\ \A i, j \in DOMAIN w.rows : w.flushed[i] = w.flushed[j] => i = j
    BY <2>1 DEF WrittenOf
  <2>9. ASSUME NEW i \in DOMAIN w.rows, w.rows[i].file.name # w.flushed[i]
        PROVE  /\ i \in w.seen
               /\ \A g \in files : g.name # w.flushed[i]
               /\ \A j \in DOMAIN w.rows : w.flushed[j] # w.rows[i].file.name
    <3>1. CASE i # id
      <4>1. w.rows[i] = st.rows[i] /\ w.flushed = st.flushed /\ i \in DOMAIN st.rows
        BY <2>1, <3>1
      <4> QED BY <2>1, <2>9, <4>1 DEF WrittenOf
    <3>2. CASE i = id
      <4>1. w.rows[id].file.name = f.name /\ id \in w.seen
        BY <2>1
      <4>2. st.rows[id].file.name = st.flushed[id]
        BY <2>4 DEF WrittenOf
      <4>3. /\ st.flushed[id] = f.previous
            /\ \A j \in DOMAIN st.rows : st.rows[j].file.name # f.name
        BY <2>1, <2>3, <2>9, <3>2, <4>1, <4>2
      <4>4. ASSUME NEW j \in DOMAIN st.rows, st.flushed[j] = f.name PROVE FALSE
        <5>1. st.rows[j].file.name # st.flushed[j]
          BY <4>3, <4>4
        <5>2. f.name # st.flushed[j]
          BY <1>2, <5>1 DEF WrittenOf
        <5> QED BY <4>4, <5>2
      <4> QED BY <1>4, <2>1, <3>2, <4>1, <4>3, <4>4
    <3> QED BY <3>1, <3>2
  <2> QED BY <1>7, <1>8, <1>12, <2>2, <2>5, <2>6, <2>7, <2>8, <2>9 DEF WrittenOf
<1> QED BY <1>7, <1>13, <1>14

(* The files of one diff in order are written without refusal, and marked, *)
(* are the current rows.                                                   *)
LEMMA WritingOneDiff ==
  ASSUME NEW files, Diff(files), NEW rows \in Seq(FileRow), NamedOnce(rows),
         NEW written, written = WriteFiles(rows, InOrder(files))
  PROVE  LET marked == Marked(written.rows, written.seen)
         IN /\ written.ok /\ ~Collide(marked, written.flushed)
            /\ CurrentFiles(marked) = files
PROOF
<1> DEFINE items == InOrder(files)
           n == Len(items)
<1>1. /\ items \in Seq(files) /\ items \in Seq(Changed) /\ n \in Nat
      /\ \A i, j \in 1..n : items[i].name = items[j].name => i = j
      /\ \A f \in files : \E i \in 1..n : items[i] = f
      /\ \A i \in 1..n : items[i] \in files
  BY InOrderLists, LenProperties
<1>2. written = WriteFiles(rows, items)
  OBVIOUS
<1> HIDE DEF items
<1>3. PICK w : /\ w[0] = ToWrite(rows)
               /\ \A k \in 1..n : w[k] = WriteFile(w[k - 1], items[k])
               /\ written = w[n]
  <2>1. \E w : /\ w[0] = ToWrite(rows)
               /\ \A k \in 1..Len(items) : w[k] = WriteFile(w[k - 1], items[k])
               /\ WriteFiles(rows, items) = w[Len(items)]
    <3>1. items \in Seq(Changed)
      BY <1>1
    <3> QED BY <3>1, WritingFiles
  <2> QED BY <1>2, <2>1, Zenon
<1> HIDE DEF n
<1> DEFINE Done == {k \in Nat : k <= n => WrittenOf(files, items, k, w[k])}
<1>4. 0 \in Done
  <2> SUFFICES WrittenOf(files, items, 0, ToWrite(rows))
    BY <1>3
  <2>1. 1..0 = {}
    OBVIOUS
  <2>2. DOMAIN Names(rows) = DOMAIN rows /\ \A i \in DOMAIN rows : Names(rows)[i] = rows[i].file.name
    BY DEF Names
  <2> QED BY <2>1, <2>2 DEF WrittenOf, ToWrite, NamedOnce
<1>5. ASSUME NEW k \in Done PROVE k + 1 \in Done
  <2> SUFFICES ASSUME k + 1 <= n PROVE WrittenOf(files, items, k + 1, w[k + 1])
    OBVIOUS
  <2>1. /\ WrittenOf(files, items, k, w[k])
        /\ k \in Nat /\ k + 1 \in 1..n /\ (k + 1) - 1 = k /\ k < n
    BY <1>1
  <2>2. w[k + 1] = WriteFile(w[k], items[k + 1])
    BY <1>3, <2>1
  <2>3. /\ items \in Seq(files) /\ k < Len(items)
        /\ \A i, j \in 1..Len(items) : items[i].name = items[j].name => i = j
    BY <1>1, <2>1 DEF n
  <2> HIDE DEF Done
  <2> QED BY <2>1, <2>2, <2>3, WriteNext
<1>6. WrittenOf(files, items, n, written)
  <2>1. Done \in SUBSET Nat
    OBVIOUS
  <2>2. Done = Nat
    <3> HIDE DEF Done
    <3> QED BY <1>4, <1>5, <2>1, AllNaturals
  <2>3. n \in Done /\ n <= n
    BY <1>1, <2>2
  <2>4. WrittenOf(files, items, n, w[n])
    BY <2>3
  <2> QED BY <1>3, <2>4
<1>7. written.ok /\ ~Collide(written.rows, written.flushed)
  <2>1. ~Collide(written.rows, written.flushed)
    BY <1>6, NeverCollide
  <2> QED BY <1>6, <2>1 DEF WrittenOf
<1> DEFINE marked == Marked(written.rows, written.seen)
<1>8. /\ DOMAIN marked = DOMAIN written.rows
      /\ \A i \in DOMAIN marked :
           /\ marked[i].file = written.rows[i].file
           /\ marked[i].current = (written.rows[i].current /\ i \in written.seen)
  <2>1. \A i \in DOMAIN written.rows : written.rows[i] \in FileRow
    BY <1>6, LenProperties DEF WrittenOf
  <2>2. DOMAIN marked = DOMAIN written.rows
    BY DEF Marked
  <2>3. ASSUME NEW i \in DOMAIN written.rows
        PROVE  /\ marked[i].file = written.rows[i].file
               /\ marked[i].current = (written.rows[i].current /\ i \in written.seen)
    <3>1. marked[i] = [written.rows[i] EXCEPT
                         !.current = written.rows[i].current /\ i \in written.seen]
      BY DEF Marked, Current
    <3>2. written.rows[i] \in [file : Changed, current : BOOLEAN]
      BY <2>1 DEF FileRow
    <3> HIDE DEF marked
    <3> QED BY <3>1, <3>2
  <2> QED BY <2>2, <2>3
<1> HIDE DEF marked
<1>9. ASSUME NEW i \in written.seen
      PROVE  i \in DOMAIN marked /\ marked[i].current /\ marked[i].file \in files
  <2>1. i \in DOMAIN written.rows
    BY <1>6 DEF WrittenOf
  <2>2. PICK m \in 1..n : written.rows[i] = [file |-> items[m], current |-> TRUE]
    BY <1>6 DEF WrittenOf
  <2>3. items[m] \in files
    BY <1>1
  <2>4. written.rows[i].file = items[m] /\ written.rows[i].current
    BY <2>2
  <2> QED BY <1>8, <2>1, <2>3, <2>4
<1>10. CurrentFiles(marked) = files
  <2>1. ASSUME NEW f \in CurrentFiles(marked) PROVE f \in files
    <3>1. PICK i \in DOMAIN marked : marked[i].current /\ marked[i].file = f
      BY DEF CurrentFiles
    <3>2. i \in written.seen
      BY <1>8, <3>1
    <3> QED BY <1>9, <3>1, <3>2
  <2>2. ASSUME NEW f \in files PROVE f \in CurrentFiles(marked)
    <3>1. PICK m \in 1..n : items[m] = f
      BY <1>1
    <3>2. PICK i \in written.seen : written.rows[i].file = f
      BY <1>6, <3>1 DEF WrittenOf
    <3>3. i \in DOMAIN marked /\ marked[i].current /\ marked[i].file = f
      BY <1>8, <1>9, <3>2
    <3> QED BY <3>3 DEF CurrentFiles
  <2> QED BY <2>1, <2>2
<1>11. ~Collide(marked, written.flushed)
  <2>1. DOMAIN written.flushed = DOMAIN marked
    BY <1>6, <1>8 DEF WrittenOf
  <2> QED BY <1>7, <1>8, <2>1 DEF Collide
<1> QED BY <1>7, <1>10, <1>11 DEF marked

-----------------------------------------------------------------------------
(* What is counted                                                         *)

(* The metrics of the current rows are numbers.                            *)
LEMMA MetricsTyped ==
  ASSUME NEW rows \in Seq(FileRow)
  PROVE  MetricsOf(CurrentFiles(rows)) \in [files : Nat, additions : Nat]
PROOF
<1> DEFINE files == CurrentFiles(rows)
           at == {j \in DOMAIN rows : rows[j].current}
           fileAt == [i \in at |-> rows[i].file]
           additions == [f \in files |-> f.additions]
<1>1. /\ DOMAIN rows = 1..Len(rows) /\ Len(rows) \in Nat
      /\ \A i \in DOMAIN rows : rows[i] \in FileRow
  BY LenProperties
<1>2. IsFiniteSet(at)
  <2>1. at \in SUBSET (1..Len(rows)) /\ IsFiniteSet(1..Len(rows))
    BY <1>1, FS_Interval
  <2> HIDE DEF at
  <2> QED BY <2>1, FS_Subset
<1>3. fileAt \in Surjection(at, files)
  <2>1. fileAt \in [at -> files] /\ \A f \in files : \E i \in at : fileAt[i] = f
    BY DEF CurrentFiles
  <2> HIDE DEF fileAt, at, files
  <2> QED BY <2>1 DEF Surjection
<1>4. IsFiniteSet(files) /\ Cardinality(files) \in Nat
  <2> HIDE DEF fileAt, at, files
  <2> QED BY <1>2, <1>3, FS_Surjection, FS_CardinalityType
<1>5. \A f \in files : additions[f] \in Nat
  BY <1>1 DEF CurrentFiles, FileRow, Changed
<1>6. DOMAIN additions = files
  OBVIOUS
<1> HIDE DEF additions, files
<1>7. SumFunction(additions) \in Nat
  BY <1>4, <1>5, <1>6, WeightAddsUp DEF SumFunction, WeightOf
<1> QED BY <1>4, <1>7 DEF MetricsOf, additions, files

-----------------------------------------------------------------------------
(* The invariant                                                           *)

(* While nothing is pushed, the pages are the beginning of the files in    *)
(* order, and a listing that ends is all of them.                          *)
Begins(items, all) ==
  Len(items) <= Len(all) /\ \A i \in 1..Len(items) : items[i] = all[i]

ListingInv ==
  /\ listing.state = "fetching" =>
       /\ listing.page >= 1
       /\ Len(listing.items) = (listing.page - 1) * PageSize
       /\ Len(listing.items) < FileLimit
       /\ listing.quiet => listing.of = diff /\ Begins(listing.items, InOrder(diff))
  /\ listing.state = "listed" /\ listing.quiet =>
       listing.of \in Diffs /\ listing.items = InOrder(listing.of)

ListingRows == [page : Nat, items : Seq(Changed), of : Diffs \cup {{}}, quiet : BOOLEAN,
                state : {"none", "fetching", "limit", "listed", "refused"}]

FilesInv == /\ FilesTypeOK /\ listing \in ListingRows /\ ListingInv
            /\ StoredAsListed /\ RefusedOnlyIfMixed

(* One more page, of whatever GitHub has now: a page is full if another    *)
(* one follows, and what is left of an unchanged diff ends its listing.    *)
LEMMA PageListed ==
  ASSUME NEW files, Diff(files), NEW page \in Nat \ {0}
  PROVE  LET result == PageOf(files, page)
             all == InOrder(files)
             before == (page - 1) * PageSize
         IN /\ result \in Seq(Changed) /\ Len(result) <= PageSize
            /\ page * PageSize < Cardinality(files) => Len(result) = PageSize
            /\ before <= Len(all) =>
                 /\ before + Len(result) <= Len(all)
                 /\ \A i \in 1..Len(result) : result[i] = all[before + i]
                 /\ Len(result) # PageSize => before + Len(result) = Len(all)
PROOF
<1> DEFINE result == PageOf(files, page)
           all == InOrder(files)
           before == (page - 1) * PageSize
           last == IF page * PageSize <= Cardinality(files) THEN page * PageSize
                   ELSE Cardinality(files)
<1>1. /\ all \in Seq(Changed) /\ Len(all) = Cardinality(files) /\ Cardinality(files) \in Nat
  BY InOrderLists
<1>2. PageSize \in Nat /\ before \in Nat /\ page * PageSize = before + PageSize
  <2>1. PageSize \in Nat
    BY PagesAssumption
  <2>2. page - 1 \in Nat /\ page \in Nat
    OBVIOUS
  <2>3. (page - 1) * PageSize \in Nat
    BY <2>1, <2>2
  <2>4. page * PageSize = (page - 1) * PageSize + PageSize
    BY <2>1, <2>2
  <2> QED BY <2>1, <2>3, <2>4
<1>3. result = SubSeq(all, before + 1, last)
  BY DEF PageOf
<1> HIDE DEF before, all, result
<1>4. last \in Nat /\ last <= Len(all) /\ last <= before + PageSize
  BY <1>1, <1>2
<1>5. \A i \in (before + 1)..last : all[i] \in Changed
  <2>1. \A i \in (before + 1)..last : i \in 1..Len(all)
    <3> HIDE DEF last
    <3> QED BY <1>1, <1>2, <1>4
  <2> QED BY <1>1, <2>1, ElementOfSeq
<1>6. last = IF before + PageSize <= Len(all) THEN before + PageSize ELSE Len(all)
  BY <1>1, <1>2
<1> HIDE DEF last
<1>7. /\ result \in Seq(Changed)
      /\ Len(result) = IF before + 1 <= last THEN last - (before + 1) + 1 ELSE 0
      /\ \A i \in 1..(last - (before + 1) + 1) : result[i] = all[before + 1 + i - 1]
  BY <1>2, <1>3, <1>4, <1>5, SubSeqProperties
<1>8. Len(result) = (IF before <= last THEN last - before ELSE 0) /\ Len(result) \in Nat
  BY <1>2, <1>4, <1>7
<1>9. \A i \in 1..Len(result) : result[i] = all[before + i]
  BY <1>2, <1>4, <1>7, <1>8
<1>10. Len(all) \in Nat
  BY <1>1
<1>11. Len(result) <= PageSize /\ (before + PageSize < Len(all) => Len(result) = PageSize)
  BY <1>2, <1>4, <1>6, <1>8, <1>10
<1>12. before <= Len(all) =>
         /\ before + Len(result) <= Len(all)
         /\ Len(result) # PageSize => before + Len(result) = Len(all)
  BY <1>2, <1>4, <1>6, <1>8, <1>10
<1> QED BY <1>1, <1>2, <1>7, <1>9, <1>11, <1>12 DEF before, all, result

(* The limit is reached after whole pages.                                 *)
LEMMA PagesLimit ==
  /\ PageSize \in Nat \ {0} /\ FileLimit \in Nat \ {0} /\ FileLimit \div PageSize \in Nat
  /\ \A page \in Nat \ {0} :
       (page - 1) * PageSize < FileLimit => page <= FileLimit \div PageSize
PROOF
<1> DEFINE pages == FileLimit \div PageSize
<1>1. /\ PageSize \in Nat \ {0} /\ FileLimit \in Nat \ {0}
      /\ FileLimit = pages * PageSize
  BY PagesAssumption
<1>2. pages \in Int /\ FileLimit < PageSize * pages + PageSize
  BY <1>1, Division
<1> HIDE DEF pages
<1>3. pages \in Nat
  <2> SUFFICES ASSUME pages + 1 <= 0 PROVE FALSE
    BY <1>2
  <2>1. (pages + 1) * PageSize <= 0 * PageSize
    BY <1>1, <1>2, TimesMonotone
  <2>2. (pages + 1) * PageSize = PageSize * pages + PageSize /\ PageSize * pages \in Int
    BY <1>1, <1>2
  <2> QED BY <1>1, <1>2, <2>1, <2>2
<1>4. ASSUME NEW page \in Nat \ {0}, (page - 1) * PageSize < FileLimit
      PROVE  page <= pages
  <2> SUFFICES ASSUME pages <= page - 1 PROVE FALSE
    BY <1>3
  <2>1. pages * PageSize <= (page - 1) * PageSize
    BY <1>1, <1>3, TimesMonotone
  <2>2. (page - 1) * PageSize \in Int
    BY <1>1
  <2> QED BY <1>1, <1>4, <2>1, <2>2
<1> QED BY <1>1, <1>3, <1>4 DEF pages

(* Nothing is listed, stored or counted at first.                          *)
LEMMA FilesStart == FilesInit => FilesInv
PROOF
<1> SUFFICES ASSUME FilesInit PROVE FilesInv
  OBVIOUS
<1>1. /\ listing = NoListing /\ fileRow = <<>> /\ metrics = {}
      /\ diff \in Diffs /\ pushes = 0 /\ applied.of = {}
  BY DEF FilesInit
<1>2. NoListing \in ListingRows /\ NoListing.state = "none" /\ NoListing.page = 0
  BY DEF NoListing, ListingRows
<1>3. FilesTypeOK
  <2>1. 0 \in 0..(FileLimit \div PageSize + 1) /\ 0 \in 0..MaxPushes
    BY PagesLimit, PagesAssumption
  <2>2. <<>> \in Seq(FileRow) /\ DOMAIN fileRow = {}
    BY <1>1
  <2> QED BY <1>1, <1>2, <2>1, <2>2 DEF FilesTypeOK, ListingRows
<1>4. CurrentFiles(fileRow) = {}
  BY <1>1 DEF CurrentFiles
<1> QED BY <1>1, <1>2, <1>3, <1>4 DEF FilesInv, ListingInv, StoredAsListed, RefusedOnlyIfMixed

(* A push, a new listing, a listing that fails and one that is too long    *)
(* leave the rows as they are.                                             *)
LEMMA ListingsMove ==
  ASSUME FilesInv,
         \/ \E files \in Diffs : PushFiles(files)
         \/ StartListing \/ ListingFails \/ KeepFiles \/ UNCHANGED filesVars
  PROVE  FilesInv'
PROOF
<1>1. CASE \E files \in Diffs : PushFiles(files)
  <2>1. PICK files \in Diffs : PushFiles(files)
    BY <1>1
  <2>2. /\ listing' = [listing EXCEPT !.quiet = FALSE] /\ listing \in ListingRows
        /\ diff' \in Diffs /\ pushes' = pushes + 1 /\ pushes < MaxPushes
        /\ UNCHANGED <<fileRow, metrics, applied>>
    BY <2>1 DEF PushFiles, FilesInv
  <2>3. /\ listing' \in ListingRows /\ ~listing'.quiet
        /\ listing'.page = listing.page /\ listing'.items = listing.items
        /\ listing'.of = listing.of /\ listing'.state = listing.state
    BY <2>2 DEF ListingRows
  <2>4. pushes' \in 0..MaxPushes
    BY <2>2, PagesAssumption DEF FilesInv, FilesTypeOK
  <2>5. FilesTypeOK'
    BY <2>2, <2>3, <2>4 DEF FilesInv, FilesTypeOK
  <2>6. ListingInv'
    BY <2>3 DEF FilesInv, ListingInv
  <2>7. StoredAsListed'
    BY <2>2 DEF FilesInv, StoredAsListed
  <2> QED BY <2>3, <2>5, <2>6, <2>7 DEF FilesInv, RefusedOnlyIfMixed
<1>2. CASE StartListing
  <2>1. /\ listing' = [page |-> 1, items |-> <<>>, of |-> diff, quiet |-> TRUE,
                       state |-> "fetching"]
        /\ UNCHANGED <<diff, pushes, fileRow, metrics, applied>>
    BY <1>2 DEF StartListing
  <2>2. <<>> \in Seq(Changed) /\ Len(<<>>) = 0 /\ diff \in Diffs
    BY DEF FilesInv, FilesTypeOK
  <2>3. /\ listing' \in ListingRows
        /\ listing'.page = 1 /\ listing'.items = <<>> /\ listing'.of = diff
        /\ listing'.quiet /\ listing'.state = "fetching"
    BY <2>1, <2>2 DEF ListingRows
  <2>4. 1 \in 0..(FileLimit \div PageSize + 1) /\ (1 - 1) * PageSize = 0 /\ 0 < FileLimit
    BY PagesLimit
  <2>5. FilesTypeOK'
    BY <2>1, <2>3, <2>4 DEF FilesInv, FilesTypeOK, ListingRows
  <2>6. Begins(<<>>, InOrder(diff))
    <3>1. Len(InOrder(diff)) \in Nat
      BY <2>2, DiffsAssumption, InOrderLists
    <3> QED BY <2>2, <3>1 DEF Begins
  <2>7. ListingInv'
    BY <2>1, <2>2, <2>3, <2>4, <2>6 DEF ListingInv
  <2>8. StoredAsListed'
    BY <2>1 DEF FilesInv, StoredAsListed
  <2> QED BY <2>3, <2>5, <2>7, <2>8 DEF FilesInv, RefusedOnlyIfMixed
<1>3. CASE ListingFails \/ KeepFiles
  <2>1. /\ listing' = NoListing /\ (metrics' = metrics \/ metrics' = {})
        /\ UNCHANGED <<diff, pushes, fileRow, applied>>
    BY <1>3 DEF ListingFails, KeepFiles
  <2>2. /\ NoListing \in ListingRows /\ NoListing.state = "none" /\ NoListing.page = 0
        /\ NoListing.items = <<>> /\ NoListing.of = {}
    BY DEF NoListing, ListingRows
  <2>3. 0 \in 0..(FileLimit \div PageSize + 1)
    BY PagesLimit
  <2>4. FilesTypeOK'
    BY <2>1, <2>2, <2>3 DEF FilesInv, FilesTypeOK
  <2>5. StoredAsListed'
    BY <2>1 DEF FilesInv, StoredAsListed
  <2> QED BY <2>1, <2>2, <2>4, <2>5 DEF FilesInv, ListingInv, RefusedOnlyIfMixed
<1>4. CASE UNCHANGED filesVars
  BY <1>4 DEF filesVars, FilesInv, FilesTypeOK, ListingInv, StoredAsListed, RefusedOnlyIfMixed
<1> QED BY <1>1, <1>2, <1>3, <1>4

(* A page keeps the listing in order and within its limit.                 *)
LEMMA FetchPageKeeps ==
  ASSUME FilesInv, NEW stripped \in BOOLEAN, FetchPage(stripped)
  PROVE  FilesInv'
PROOF
<1> DEFINE page == listing.page
           result == PageOf(diff, page)
           items == listing.items \o result
           link == ~stripped /\ page * PageSize < Cardinality(diff)
           state == IF Len(items) >= FileLimit THEN "limit"
                    ELSE IF Another(result, link) THEN "fetching" ELSE "listed"
           all == InOrder(diff)
<1>1. /\ listing \in ListingRows /\ listing.state = "fetching" /\ diff \in Diffs /\ Diff(diff)
      /\ UNCHANGED <<diff, pushes, fileRow, metrics, applied>>
  BY DiffsAssumption DEF FilesInv, FilesTypeOK, FetchPage
<1>2. listing' = [listing EXCEPT !.page = page + 1, !.items = items, !.state = state]
  BY DEF FetchPage
<1>3. /\ page \in Nat \ {0} /\ Len(listing.items) = (page - 1) * PageSize
      /\ Len(listing.items) < FileLimit
      /\ listing.quiet => listing.of = diff /\ Begins(listing.items, all)
  BY <1>1 DEF FilesInv, ListingInv, ListingRows
<1>4. /\ result \in Seq(Changed) /\ Len(result) <= PageSize
      /\ page * PageSize < Cardinality(diff) => Len(result) = PageSize
      /\ Len(listing.items) <= Len(all) =>
           /\ Len(listing.items) + Len(result) <= Len(all)
           /\ \A i \in 1..Len(result) : result[i] = all[Len(listing.items) + i]
           /\ Len(result) # PageSize => Len(listing.items) + Len(result) = Len(all)
  <2> DEFINE before == (page - 1) * PageSize
  <2>1. /\ result \in Seq(Changed) /\ Len(result) <= PageSize
        /\ page * PageSize < Cardinality(diff) => Len(result) = PageSize
        /\ before <= Len(all) =>
             /\ before + Len(result) <= Len(all)
             /\ \A i \in 1..Len(result) : result[i] = all[before + i]
             /\ Len(result) # PageSize => before + Len(result) = Len(all)
    <3> HIDE DEF page
    <3> QED BY <1>1, <1>3, PageListed, Zenon
  <2>2. before = Len(listing.items)
    BY <1>3
  <2> HIDE DEF before, result, all
  <2> QED BY <2>1, <2>2
<1>5. listing.items \in Seq(Changed)
  BY <1>1 DEF ListingRows
<1> HIDE DEF result
<1>6. /\ items \in Seq(Changed) /\ Len(items) = Len(listing.items) + Len(result)
      /\ Len(items) \in Nat /\ Len(listing.items) \in Nat /\ Len(result) \in Nat
      /\ \A i \in 1..Len(listing.items) : items[i] = listing.items[i]
      /\ \A i \in 1..Len(result) : items[Len(listing.items) + i] = result[i]
  BY <1>4, <1>5, ConcatProperties, LenProperties
<1> HIDE DEF items
<1>7. listing.quiet => Begins(items, all)
  <2> SUFFICES ASSUME listing.quiet PROVE Begins(items, all)
    OBVIOUS
  <2>1. Len(listing.items) <= Len(all) /\ \A i \in 1..Len(listing.items) : listing.items[i] = all[i]
    BY <1>3 DEF Begins
  <2>2. ASSUME NEW i \in 1..Len(items) PROVE items[i] = all[i]
    <3>1. CASE i \in 1..Len(listing.items)
      BY <1>6, <2>1, <3>1
    <3>2. CASE i \notin 1..Len(listing.items)
      <4> DEFINE k == i - Len(listing.items)
      <4>1. k \in 1..Len(result) /\ Len(listing.items) + k = i
        BY <1>6, <3>2
      <4>2. result[k] = all[Len(listing.items) + k] /\ items[Len(listing.items) + k] = result[k]
        BY <1>4, <1>6, <2>1, <4>1
      <4> QED BY <4>1, <4>2
    <3> QED BY <3>1, <3>2
  <2> QED BY <1>4, <1>6, <2>1, <2>2 DEF Begins
<1>8. state = "fetching" => Len(result) = PageSize /\ Len(items) < FileLimit
  <2>1. FileLimit \in Nat
    BY PagesLimit
  <2> QED BY <1>4, <1>6, <2>1 DEF Another
<1>9. state = "listed" => Len(result) # PageSize
  BY DEF Another
<1>10. state \in {"limit", "fetching", "listed"}
  OBVIOUS
<1> HIDE DEF state
<1>11. /\ listing'.page = page + 1 /\ listing'.items = items /\ listing'.state = state
       /\ listing'.of = listing.of /\ listing'.quiet = listing.quiet
       /\ listing' \in ListingRows
  <2>1. /\ page + 1 \in Nat /\ items \in Seq(Changed)
        /\ state \in {"none", "fetching", "limit", "listed", "refused"}
    BY <1>3, <1>6, <1>10
  <2>2. listing \in [page : Nat, items : Seq(Changed), of : Diffs \cup {{}}, quiet : BOOLEAN,
                    state : {"none", "fetching", "limit", "listed", "refused"}]
    BY <1>1 DEF ListingRows
  <2> QED BY <1>2, <2>1, <2>2 DEF ListingRows
<1>12. page + 1 \in 0..(FileLimit \div PageSize + 1)
  <2>1. page <= FileLimit \div PageSize /\ FileLimit \div PageSize \in Nat
    BY <1>3, PagesLimit
  <2> QED BY <1>3, <2>1
<1>13. FilesTypeOK'
  BY <1>1, <1>6, <1>10, <1>11, <1>12 DEF FilesInv, FilesTypeOK
<1>14. ListingInv'
  <2>1. ASSUME state = "fetching"
        PROVE  /\ listing'.page >= 1
               /\ Len(listing'.items) = (listing'.page - 1) * PageSize
               /\ Len(listing'.items) < FileLimit
               /\ listing'.quiet => listing'.of = diff /\ Begins(listing'.items, InOrder(diff))
    <3>1. Len(items) = (page - 1) * PageSize + PageSize /\ Len(items) < FileLimit
      BY <1>3, <1>6, <1>8, <2>1
    <3>2. (page + 1 - 1) * PageSize = (page - 1) * PageSize + PageSize
      BY <1>3, PagesLimit
    <3> QED BY <1>3, <1>7, <1>11, <3>1, <3>2
  <2>2. ASSUME state = "listed", listing.quiet
        PROVE  listing.of \in Diffs /\ items = InOrder(listing.of)
    <3>1. listing.of = diff /\ Begins(items, all) /\ Len(listing.items) <= Len(all)
      BY <1>3, <1>7, <2>2 DEF Begins
    <3>2. Len(items) = Len(all)
      BY <1>4, <1>6, <1>9, <2>2, <3>1
    <3>3. all \in Seq(Changed)
      BY <1>1, InOrderLists
    <3>4. items = all
      <4> HIDE DEF all
      <4> QED BY <1>6, <3>1, <3>2, <3>3, SeqEqual DEF Begins
    <3> QED BY <1>1, <3>1, <3>4
  <2> HIDE DEF page
  <2> QED BY <1>1, <1>11, <2>1, <2>2 DEF ListingInv
<1>15. StoredAsListed'
  BY <1>1 DEF FilesInv, StoredAsListed
<1>16. RefusedOnlyIfMixed'
  BY <1>10, <1>11 DEF RefusedOnlyIfMixed
<1> QED BY <1>11, <1>13, <1>14, <1>15, <1>16 DEF FilesInv

(* A listing is stored as it is, or refused if it is of two diffs.         *)
LEMMA SynchronizeFilesKeeps ==
  ASSUME FilesInv, SynchronizeFiles
  PROVE  FilesInv'
PROOF
<1> DEFINE written == WriteFiles(fileRow, listing.items)
           rows == Marked(written.rows, written.seen)
<1>1. /\ listing \in ListingRows /\ listing.state = "listed"
      /\ fileRow \in Seq(FileRow) /\ NamedOnce(fileRow) /\ listing.items \in Seq(Changed)
      /\ UNCHANGED <<diff, pushes>>
  BY DEF FilesInv, FilesTypeOK, SynchronizeFiles, NamedOnce
<1>2. written.rows \in Seq(FileRow) /\ NamedOnce(written.rows)
  BY <1>1, WritingNamesOnce
<1>3. rows \in Seq(FileRow) /\ NamedOnce(rows)
  <2>1. /\ DOMAIN written.rows = 1..Len(written.rows) /\ Len(written.rows) \in Nat
        /\ \A i \in DOMAIN written.rows : written.rows[i] \in FileRow
    BY <1>2, LenProperties
  <2> HIDE DEF written
  <2>2. /\ DOMAIN rows = DOMAIN written.rows
        /\ \A i \in DOMAIN rows : rows[i] \in FileRow /\ rows[i].file = written.rows[i].file
    BY <2>1 DEF Marked, Current, FileRow
  <2>3. rows \in [1..Len(written.rows) -> FileRow]
    BY <2>1, <2>2 DEF Marked
  <2> HIDE DEF rows
  <2> QED BY <1>2, <2>1, <2>2, <2>3 DEF NamedOnce
<1>4. ASSUME listing.quiet
      PROVE  /\ written.ok /\ ~Collide(rows, written.flushed)
             /\ CurrentFiles(rows) = listing.of
  <2>1. listing.of \in Diffs /\ listing.items = InOrder(listing.of)
    BY <1>1, <1>4 DEF FilesInv, ListingInv
  <2>2. Diff(listing.of)
    BY <2>1, DiffsAssumption
  <2> QED BY <1>1, <2>1, <2>2, WritingOneDiff
<1>5. MetricsOf(CurrentFiles(rows)) \in [files : Nat, additions : Nat]
  <2> HIDE DEF rows
  <2> QED BY <1>3, MetricsTyped
<1>6. CASE written.ok /\ ~Collide(rows, written.flushed)
  <2>1. /\ fileRow' = rows /\ metrics' = {MetricsOf(CurrentFiles(rows))}
        /\ applied' = [of |-> listing.of, quiet |-> listing.quiet]
        /\ listing' = NoListing
    BY <1>6 DEF SynchronizeFiles
  <2>2. /\ NoListing \in ListingRows /\ NoListing.state = "none" /\ NoListing.page = 0
        /\ NoListing.items = <<>> /\ NoListing.of = {}
    BY DEF NoListing, ListingRows
  <2>3. 0 \in 0..(FileLimit \div PageSize + 1)
    BY PagesLimit
  <2> HIDE DEF rows, written
  <2>4. FilesTypeOK'
    BY <1>1, <1>3, <1>5, <2>1, <2>2, <2>3 DEF FilesInv, FilesTypeOK, NamedOnce
  <2>5. StoredAsListed'
    <3> SUFFICES ASSUME applied'.quiet
                 PROVE  /\ CurrentFiles(fileRow') = applied'.of
                        /\ \A m \in metrics' : m = MetricsOf(applied'.of)
      BY DEF StoredAsListed
    <3>1. listing.quiet /\ applied'.of = listing.of
      BY <2>1
    <3> QED BY <1>4, <2>1, <3>1
  <2> QED BY <2>1, <2>2, <2>4, <2>5 DEF FilesInv, ListingInv, RefusedOnlyIfMixed
<1>7. CASE ~(written.ok /\ ~Collide(rows, written.flushed))
  <2>1. /\ listing' = [listing EXCEPT !.state = "refused"]
        /\ UNCHANGED <<fileRow, metrics, applied>>
    BY <1>7 DEF SynchronizeFiles
  <2>2. ~listing.quiet
    BY <1>4, <1>7
  <2> HIDE DEF rows, written
  <2>3. /\ listing' \in ListingRows /\ listing'.state = "refused" /\ ~listing'.quiet
        /\ listing'.page = listing.page /\ listing'.items = listing.items
        /\ listing'.of = listing.of
    BY <1>1, <2>1, <2>2 DEF ListingRows
  <2>4. FilesTypeOK'
    BY <1>1, <2>1, <2>3 DEF FilesInv, FilesTypeOK
  <2>5. StoredAsListed'
    BY <2>1 DEF FilesInv, StoredAsListed
  <2> QED BY <2>3, <2>4, <2>5 DEF FilesInv, ListingInv, RefusedOnlyIfMixed
<1> QED BY <1>6, <1>7

(* The invariant holds for any diffs, pages and pushes.                    *)
LEMMA FilesInvariant == FilesSpec => []FilesInv
PROOF
<1>1. FilesInv /\ [FilesNext]_filesVars => FilesInv'
  BY ListingsMove, FetchPageKeeps, SynchronizeFilesKeeps DEF FilesNext
<1> QED BY <1>1, FilesStart, PTL DEF FilesSpec

(* No listing asks for more pages than the limit has, and no two rows have *)
(* one name (uq_pull_request_files_path), whatever pages were mixed.       *)
THEOREM FilesTyped == FilesSpec => []FilesTypeOK
PROOF
<1>1. FilesInv => FilesTypeOK
  BY DEF FilesInv
<1> QED BY <1>1, FilesInvariant, PTL

(* However often files were renamed, dropped and taken back, what was      *)
(* listed without a push between its pages is stored, and nothing else is  *)
(* current.                                                                *)
THEOREM ListedIsStored == FilesSpec => []StoredAsListed
PROOF
<1>1. FilesInv => StoredAsListed
  BY DEF FilesInv
<1> QED BY <1>1, FilesInvariant, PTL

(* The order of writes never violates the unique index on its own: no      *)
(* stored state can make an uninterrupted listing fail for ever.           *)
THEOREM RefusedOnlyMixed == FilesSpec => []RefusedOnlyIfMixed
PROOF
<1>1. FilesInv => RefusedOnlyIfMixed
  BY DEF FilesInv
<1> QED BY <1>1, FilesInvariant, PTL
=============================================================================
