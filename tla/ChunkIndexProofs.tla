-------------------------- MODULE ChunkIndexProofs --------------------------
(***************************************************************************)
(* For any files, contents, attempts and bounds: what the incremental      *)
(* application keeps in the chunk table is what a rebuild would store, and *)
(* a search answers with the best of it.                                   *)
(*                                                                         *)
(* The argument is by file.  Sorting keeps every record once, so the       *)
(* records, refreshed vectors and merges of the code can be replaced by    *)
(* sets of rows (RecordsIn, DocRows), and those by the rows of one file    *)
(* (FileRows, Rebuilt); the invariant is about the rows of each file.      *)
(***************************************************************************)
EXTENDS ChunkIndex, FiniteSetTheorems, SequenceTheorems, WellFoundedInduction, TLAPS

-----------------------------------------------------------------------------
(* Sorted sequences.                                                       *)

\* R orders the elements of S.
Orders(R, S) ==
  /\ \A x \in S : <<x, x>> \notin R
  /\ \A x, y, z \in S : <<x, y>> \in R /\ <<y, z>> \in R => <<x, z>> \in R
  /\ \A x, y \in S : x = y \/ <<x, y>> \in R \/ <<y, x>> \in R

\* How many elements come before x.
Rank(S, R, x) == Cardinality({y \in S : <<y, x>> \in R})

(* A later element has a higher rank.                                      *)
LEMMA RankIncreases ==
  ASSUME NEW S, IsFiniteSet(S), NEW R, Orders(R, S), NEW x \in S, NEW y \in S, <<x, y>> \in R
  PROVE  Rank(S, R, x) < Rank(S, R, y)
<1> DEFINE A == {z \in S : <<z, x>> \in R}
           B == {z \in S : <<z, y>> \in R}
<1>1. A \in SUBSET B /\ B \in SUBSET S /\ x \in B /\ x \notin A
  BY DEF Orders
<1>2. IsFiniteSet(B) /\ IsFiniteSet(A)
  BY <1>1, FS_Subset
<1>3. Cardinality(A) <= Cardinality(B) /\ Cardinality(A) # Cardinality(B)
  BY <1>1, <1>2, FS_Subset
<1>4. Cardinality(A) \in Nat /\ Cardinality(B) \in Nat
  BY <1>2, FS_CardinalityType
<1> QED
  BY <1>3, <1>4 DEF Rank

(* Ranks are below the number of elements, and each is that of an element. *)
LEMMA RankReached ==
  ASSUME NEW S, IsFiniteSet(S), NEW R, Orders(R, S)
  PROVE  /\ Cardinality(S) \in Nat
         /\ \A x \in S : Rank(S, R, x) \in Nat /\ Rank(S, R, x) + 1 \in 1 .. Cardinality(S)
         /\ \A x, y \in S : Rank(S, R, x) = Rank(S, R, y) => x = y
         /\ \A n \in 1 .. Cardinality(S) : \E x \in S : Rank(S, R, x) = n - 1
<1> DEFINE N == Cardinality(S)
           f == [x \in S |-> Rank(S, R, x) + 1]
<1>1. N \in Nat
  BY FS_CardinalityType
<1>2. ASSUME NEW x \in S PROVE Rank(S, R, x) \in Nat /\ Rank(S, R, x) + 1 \in 1 .. N
  <2> DEFINE A == {y \in S : <<y, x>> \in R}
  <2>1. A \in SUBSET S /\ x \notin A
    BY DEF Orders
  <2>2. IsFiniteSet(A) /\ Cardinality(A) <= N /\ Cardinality(A) # N
    BY <2>1, FS_Subset
  <2>3. Cardinality(A) \in Nat
    BY <2>2, FS_CardinalityType
  <2> QED
    BY <1>1, <2>2, <2>3 DEF Rank
<1>3. ASSUME NEW x \in S, NEW y \in S, Rank(S, R, x) = Rank(S, R, y) PROVE x = y
  <2>1. ~(Rank(S, R, x) < Rank(S, R, y)) /\ ~(Rank(S, R, y) < Rank(S, R, x))
    BY <1>2, <1>3
  <2> QED
    BY <2>1, RankIncreases DEF Orders
<1>4. f \in Injection(S, 1 .. N)
  <2>1. f \in [S -> 1 .. N]
    BY <1>2
  <2>2. \A x, y \in S : f[x] = f[y] => x = y
    BY <1>2, <1>3
  <2> QED
    BY <2>1, <2>2 DEF Injection, IsInjective
<1>5. IsFiniteSet(1 .. N) /\ Cardinality(1 .. N) = N
  BY <1>1, FS_Interval
<1>6. f \in Surjection(S, 1 .. N)
  <2> HIDE DEF f
  <2> QED
    BY <1>4, <1>5, FS_Injection
<1>7. ASSUME NEW n \in 1 .. N PROVE \E x \in S : Rank(S, R, x) = n - 1
  <2>1. \E x \in S : f[x] = n
    <3> HIDE DEF f
    <3> QED
      BY <1>6 DEF Surjection
  <2>2. PICK x \in S : Rank(S, R, x) + 1 = n
    BY <2>1
  <2> QED
    BY <1>2, <2>2
<1> QED
  BY <1>1, <1>2, <1>3, <1>7

(* A sequence in the order of the ranks has every element once, sorted.    *)
LEMMA RankedSequence ==
  ASSUME NEW S, IsFiniteSet(S), NEW R, Orders(R, S), NEW s,
         s = [n \in 1 .. Cardinality(S) |-> s[n]],
         \A n \in 1 .. Cardinality(S) : s[n] \in S /\ Rank(S, R, s[n]) = n - 1
  PROVE  /\ s \in Seq(S) /\ Len(s) = Cardinality(S) /\ DOMAIN s = 1 .. Len(s)
         /\ ToSet(s) = S
         /\ \A i, j \in DOMAIN s : i < j => <<s[i], s[j]>> \in R
<1>1. Cardinality(S) \in Nat
  BY FS_CardinalityType
<1>2. s \in [1 .. Cardinality(S) -> S] /\ DOMAIN s = 1 .. Cardinality(S)
  BY Zenon
<1>3. s \in Seq(S) /\ Len(s) = Cardinality(S)
  <2>1. s \in Seq(S)
    BY <1>1, <1>2, SeqDef
  <2> QED
    BY <1>1, <1>2, <2>1, LenProperties
<1>4. ASSUME NEW x \in S PROVE x \in ToSet(s)
  <2>1. PICK n \in 1 .. Cardinality(S) : n = Rank(S, R, x) + 1
    BY RankReached
  <2>2. Rank(S, R, x) \in Nat
    BY RankReached
  <2>3. s[n] \in S /\ Rank(S, R, s[n]) = Rank(S, R, x)
    BY <2>1, <2>2
  <2>4. s[n] = x
    BY <2>3, RankReached
  <2> QED
    BY <1>2, <2>4 DEF ToSet
<1>5. ToSet(s) = S
  BY <1>2, <1>4 DEF ToSet
<1>6. ASSUME NEW i \in DOMAIN s, NEW j \in DOMAIN s, i < j PROVE <<s[i], s[j]>> \in R
  <2>1. /\ s[i] \in S /\ s[j] \in S /\ i \in Int /\ j \in Int
        /\ Rank(S, R, s[i]) = i - 1 /\ Rank(S, R, s[j]) = j - 1
    BY <1>2
  <2>2. ~(Rank(S, R, s[j]) < Rank(S, R, s[i])) /\ s[i] # s[j]
    BY <1>6, <2>1
  <2> QED
    BY <2>1, <2>2, RankIncreases DEF Orders
<1> QED
  BY <1>2, <1>3, <1>5, <1>6

(* Numbers, in their order.                                                *)
LEMMA NumbersOrdered ==
  ASSUME NEW S, IsFiniteSet(S), \A x \in S : x \in Int
  PROVE  LET s == Ordered(S, <) IN
         /\ s \in Seq(S) /\ Len(s) = Cardinality(S) /\ DOMAIN s = 1 .. Len(s)
         /\ ToSet(s) = S
         /\ \A i, j \in DOMAIN s : i < j => s[i] < s[j]
<1> DEFINE s == Ordered(S, <)
           N == Cardinality(S)
           R == {e \in S \X S : e[1] < e[2]}
           P(x, n) == Cardinality({y \in S : y < x}) = n - 1
           At(n) == CHOOSE x \in S : P(x, n)
<1>1. \A x, y \in S : <<x, y>> \in R <=> x < y
  OBVIOUS
<1>2. Orders(R, S)
  <2> HIDE DEF R
  <2> QED
    BY <1>1 DEF Orders
<1>3. ASSUME NEW x \in S PROVE \A n : P(x, n) <=> Rank(S, R, x) = n - 1
  <2>1. {y \in S : y < x} = {y \in S : <<y, x>> \in R}
    <3> HIDE DEF R
    <3> QED
      BY <1>1
  <2> QED
    BY <2>1 DEF Rank
<1>4. s = [n \in 1 .. N |-> At(n)]
  BY Zenon DEF Ordered
<1> HIDE DEF s, R, P, At
<1>5. ASSUME NEW n \in 1 .. N PROVE s[n] \in S /\ Rank(S, R, s[n]) = n - 1
  <2>1. \E x \in S : Rank(S, R, x) = n - 1
    BY <1>2, RankReached
  <2>2. \E x \in S : P(x, n)
    BY <1>3, <2>1
  <2>3. At(n) \in S /\ P(At(n), n)
    BY <2>2, Zenon DEF At
  <2>4. s[n] = At(n)
    BY <1>4
  <2> QED
    BY <1>3, <2>3, <2>4
<1>6. s = [n \in 1 .. N |-> s[n]]
  BY <1>4
<1>7. /\ s \in Seq(S) /\ Len(s) = Cardinality(S) /\ DOMAIN s = 1 .. Len(s)
      /\ ToSet(s) = S
      /\ \A i, j \in DOMAIN s : i < j => <<s[i], s[j]>> \in R
  BY <1>2, <1>5, <1>6, RankedSequence
<1>8. ASSUME NEW i \in DOMAIN s, NEW j \in DOMAIN s, i < j PROVE s[i] < s[j]
  <2>1. s[i] \in S /\ s[j] \in S /\ <<s[i], s[j]>> \in R
    BY <1>5, <1>7, <1>8
  <2> QED
    BY <1>1, <2>1
<1> QED
  BY <1>7, <1>8 DEF s

(* Records with different keys, by path and index.                         *)
LEMMA RecordsOrdered ==
  ASSUME NEW S, IsFiniteSet(S), \A r \in S : r.path \in Int /\ r.index \in Int,
         \A a, b \in S : SameKey(a, b) => a = b
  PROVE  LET s == Ordered(S, KeyBefore) IN
         /\ s \in Seq(S) /\ Len(s) = Cardinality(S) /\ DOMAIN s = 1 .. Len(s)
         /\ ToSet(s) = S
         /\ \A i, j \in DOMAIN s : i < j => KeyBefore(s[i], s[j])
<1> DEFINE s == Ordered(S, KeyBefore)
           N == Cardinality(S)
           R == {e \in S \X S : KeyBefore(e[1], e[2])}
           P(x, n) == Cardinality({y \in S : KeyBefore(y, x)}) = n - 1
           At(n) == CHOOSE x \in S : P(x, n)
<1>1. \A x, y \in S : <<x, y>> \in R <=> KeyBefore(x, y)
  OBVIOUS
<1>2. Orders(R, S)
  <2> HIDE DEF R
  <2> QED
    BY <1>1 DEF Orders, KeyBefore, SameKey
<1>3. ASSUME NEW x \in S PROVE \A n : P(x, n) <=> Rank(S, R, x) = n - 1
  <2>1. {y \in S : KeyBefore(y, x)} = {y \in S : <<y, x>> \in R}
    <3> HIDE DEF R
    <3> QED
      BY <1>1
  <2> QED
    BY <2>1 DEF Rank
<1>4. s = [n \in 1 .. N |-> At(n)]
  BY Zenon DEF Ordered
<1> HIDE DEF s, R, P, At
<1>5. ASSUME NEW n \in 1 .. N PROVE s[n] \in S /\ Rank(S, R, s[n]) = n - 1
  <2>1. \E x \in S : Rank(S, R, x) = n - 1
    BY <1>2, RankReached
  <2>2. \E x \in S : P(x, n)
    BY <1>3, <2>1
  <2>3. At(n) \in S /\ P(At(n), n)
    BY <2>2, Zenon DEF At
  <2>4. s[n] = At(n)
    BY <1>4
  <2> QED
    BY <1>3, <2>3, <2>4
<1>6. s = [n \in 1 .. N |-> s[n]]
  BY <1>4
<1>7. /\ s \in Seq(S) /\ Len(s) = Cardinality(S) /\ DOMAIN s = 1 .. Len(s)
      /\ ToSet(s) = S
      /\ \A i, j \in DOMAIN s : i < j => <<s[i], s[j]>> \in R
  BY <1>2, <1>5, <1>6, RankedSequence
<1>8. ASSUME NEW i \in DOMAIN s, NEW j \in DOMAIN s, i < j PROVE KeyBefore(s[i], s[j])
  <2>1. s[i] \in S /\ s[j] \in S /\ <<s[i], s[j]>> \in R
    BY <1>5, <1>7, <1>8
  <2> QED
    BY <1>1, <2>1
<1> QED
  BY <1>7, <1>8 DEF s

(* Rows with different keys, by distance, path and index.                  *)
LEMMA RowsOrdered ==
  ASSUME NEW S, IsFiniteSet(S), \A r \in S : r.path \in Int /\ r.index \in Int /\ r.vec \in Int,
         \A a, b \in S : SameKey(a, b) => a = b
  PROVE  LET s == Ordered(S, Closer) IN
         /\ s \in Seq(S) /\ Len(s) = Cardinality(S) /\ DOMAIN s = 1 .. Len(s)
         /\ ToSet(s) = S
         /\ \A i, j \in DOMAIN s : i < j => Closer(s[i], s[j])
<1> DEFINE s == Ordered(S, Closer)
           N == Cardinality(S)
           R == {e \in S \X S : Closer(e[1], e[2])}
           P(x, n) == Cardinality({y \in S : Closer(y, x)}) = n - 1
           At(n) == CHOOSE x \in S : P(x, n)
<1>1. \A x, y \in S : <<x, y>> \in R <=> Closer(x, y)
  OBVIOUS
<1>2. Orders(R, S)
  <2> HIDE DEF R
  <2> QED
    BY <1>1 DEF Orders, Closer, KeyBefore, SameKey
<1>3. ASSUME NEW x \in S PROVE \A n : P(x, n) <=> Rank(S, R, x) = n - 1
  <2>1. {y \in S : Closer(y, x)} = {y \in S : <<y, x>> \in R}
    <3> HIDE DEF R
    <3> QED
      BY <1>1
  <2> QED
    BY <2>1 DEF Rank
<1>4. s = [n \in 1 .. N |-> At(n)]
  BY Zenon DEF Ordered
<1> HIDE DEF s, R, P, At
<1>5. ASSUME NEW n \in 1 .. N PROVE s[n] \in S /\ Rank(S, R, s[n]) = n - 1
  <2>1. \E x \in S : Rank(S, R, x) = n - 1
    BY <1>2, RankReached
  <2>2. \E x \in S : P(x, n)
    BY <1>3, <2>1
  <2>3. At(n) \in S /\ P(At(n), n)
    BY <2>2, Zenon DEF At
  <2>4. s[n] = At(n)
    BY <1>4
  <2> QED
    BY <1>3, <2>3, <2>4
<1>6. s = [n \in 1 .. N |-> s[n]]
  BY <1>4
<1>7. /\ s \in Seq(S) /\ Len(s) = Cardinality(S) /\ DOMAIN s = 1 .. Len(s)
      /\ ToSet(s) = S
      /\ \A i, j \in DOMAIN s : i < j => <<s[i], s[j]>> \in R
  BY <1>2, <1>5, <1>6, RankedSequence
<1>8. ASSUME NEW i \in DOMAIN s, NEW j \in DOMAIN s, i < j PROVE Closer(s[i], s[j])
  <2>1. s[i] \in S /\ s[j] \in S /\ <<s[i], s[j]>> \in R
    BY <1>5, <1>7, <1>8
  <2> QED
    BY <1>1, <2>1
<1> QED
  BY <1>7, <1>8 DEF s

-----------------------------------------------------------------------------
(* Records, rows and the merge.                                            *)

\* Documents: some paths with their contents.
AreDocs(docs) == DOMAIN docs \subseteq Paths /\ \A p \in DOMAIN docs : docs[p] \in Contents

RecordOf(p, i, text) == [path |-> p, index |-> i - 1, text |-> text]

RecordsIn(docs) ==
  UNION {{[path |-> p, index |-> i - 1, text |-> docs[p][i]] : i \in DOMAIN docs[p]}
           : p \in DOMAIN docs}

\* The rows a file with content c has.
FileRows(p, c) ==
  {[path |-> p, index |-> i - 1, text |-> c[i], vec |-> c[i]] : i \in DOMAIN c}

\* The rows of p after a rebuild of the tree.
Rebuilt(tree, p) == IF tree[p] = Absent THEN {} ELSE FileRows(p, tree[p])

(* A content is a sequence of texts.                                       *)
LEMMA ContentTypes ==
  ASSUME NEW c \in Contents
  PROVE  /\ c \in Seq(Nat) /\ Len(c) \in Nat /\ DOMAIN c = 1 .. Len(c)
         /\ \A i \in DOMAIN c : i \in Nat /\ i - 1 \in Nat /\ c[i] \in Nat
<1>1. c \in Seq(Nat)
  BY ChunkAssumption
<1>2. Len(c) \in Nat /\ DOMAIN c = 1 .. Len(c)
  BY <1>1, LenProperties
<1>3. \A i \in DOMAIN c : i \in Nat /\ i - 1 \in Nat /\ c[i] \in Nat
  BY <1>1, <1>2, ElementOfSeq
<1> QED
  BY <1>1, <1>2, <1>3

(* The records of documents: their types, their keys, and that there are   *)
(* finitely many.                                                          *)
LEMMA RecordFacts ==
  ASSUME NEW docs, AreDocs(docs)
  PROVE  /\ \A r : r \in RecordsIn(docs) <=>
                     \E p \in DOMAIN docs : \E i \in DOMAIN docs[p] : r = RecordOf(p, i, docs[p][i])
         /\ \A r \in RecordsIn(docs) : /\ r.path \in DOMAIN docs /\ r.path \in Int
                                       /\ r.index \in Nat /\ r.index \in Int
                                       /\ r.text \in Nat
         /\ \A a, b \in RecordsIn(docs) : SameKey(a, b) => a = b
         /\ IsFiniteSet(RecordsIn(docs))
<1> DEFINE Of(p) == {[path |-> p, index |-> i - 1, text |-> docs[p][i]] : i \in DOMAIN docs[p]}
           F     == [p \in DOMAIN docs |-> Of(p)]
           T     == {Of(p) : p \in DOMAIN docs}
<1>1. \A r : r \in RecordsIn(docs) <=>
               \E p \in DOMAIN docs : \E i \in DOMAIN docs[p] : r = RecordOf(p, i, docs[p][i])
  BY DEF RecordsIn, RecordOf
<1>2. \A p \in DOMAIN docs : p \in Int /\ docs[p] \in Contents
  BY ChunkAssumption DEF AreDocs, Paths
<1>3. ASSUME NEW r \in RecordsIn(docs)
      PROVE  /\ r.path \in DOMAIN docs /\ r.path \in Int
             /\ r.index \in Nat /\ r.index \in Int /\ r.text \in Nat
  <2>0. PICK p \in DOMAIN docs : \E i \in DOMAIN docs[p] : r = RecordOf(p, i, docs[p][i])
    BY <1>1
  <2>1. PICK i \in DOMAIN docs[p] : r = RecordOf(p, i, docs[p][i])
    BY <2>0
  <2>2. i - 1 \in Nat /\ docs[p][i] \in Nat /\ p \in Int
    BY <1>2, ContentTypes
  <2> QED
    BY <2>1, <2>2 DEF RecordOf
<1>4. ASSUME NEW a \in RecordsIn(docs), NEW b \in RecordsIn(docs), SameKey(a, b) PROVE a = b
  <2>a. PICK p \in DOMAIN docs : \E i \in DOMAIN docs[p] : a = RecordOf(p, i, docs[p][i])
    BY <1>1
  <2>1. PICK i \in DOMAIN docs[p] : a = RecordOf(p, i, docs[p][i])
    BY <2>a
  <2>b. PICK q \in DOMAIN docs : \E j \in DOMAIN docs[q] : b = RecordOf(q, j, docs[q][j])
    BY <1>1
  <2>2. PICK j \in DOMAIN docs[q] : b = RecordOf(q, j, docs[q][j])
    BY <2>b
  <2>3. i \in Nat /\ j \in Nat
    BY <1>2, ContentTypes
  <2>4. p = q /\ i = j
    BY <1>4, <2>1, <2>2, <2>3 DEF SameKey, RecordOf
  <2> QED
    BY <2>1, <2>2, <2>4
<1>5. ASSUME NEW p \in DOMAIN docs PROVE IsFiniteSet(Of(p))
  <2> DEFINE D == DOMAIN docs[p]
             f == [i \in D |-> [path |-> p, index |-> i - 1, text |-> docs[p][i]]]
  <2>1. IsFiniteSet(D)
    <3>1. Len(docs[p]) \in Nat /\ D = 1 .. Len(docs[p])
      BY <1>2, ContentTypes
    <3> QED
      BY <3>1, FS_Interval
  <2>2. f \in Surjection(D, Of(p))
    BY DEF Surjection
  <2> HIDE DEF f, Of, D
  <2> QED
    BY <2>1, <2>2, FS_Surjection
<1>6. IsFiniteSet(RecordsIn(docs))
  <2>1. IsFiniteSet(DOMAIN docs)
    <3>1. IsFiniteSet(Paths)
      BY ChunkAssumption, FS_Interval DEF Paths
    <3> QED
      BY <3>1, FS_Subset DEF AreDocs
  <2>2. RecordsIn(docs) = UNION T
    BY DEF RecordsIn
  <2> HIDE DEF Of
  <2>3. F \in Surjection(DOMAIN docs, T)
    BY DEF Surjection
  <2>4. \A A \in T : IsFiniteSet(A)
    BY <1>5
  <2> HIDE DEF F, T
  <2>5. IsFiniteSet(T)
    BY <2>1, <2>3, FS_Surjection
  <2> QED
    BY <2>2, <2>4, <2>5, FS_UNION
<1> QED
  BY <1>1, <1>3, <1>4, <1>6

(* BuildChunkRecords: every chunk of every document, once.                 *)
LEMMA BuildFacts ==
  ASSUME NEW docs, AreDocs(docs)
  PROVE  LET records == BuildChunkRecords(docs) IN
         /\ records \in Seq(RecordsIn(docs)) /\ Len(records) \in Nat
         /\ DOMAIN records = 1 .. Len(records)
         /\ ToSet(records) = RecordsIn(docs)
<1>1. BuildChunkRecords(docs) = Ordered(RecordsIn(docs), KeyBefore)
  BY Zenon DEF BuildChunkRecords, RecordsIn
<1>2. /\ IsFiniteSet(RecordsIn(docs))
      /\ \A r \in RecordsIn(docs) : r.path \in Int /\ r.index \in Int
      /\ \A a, b \in RecordsIn(docs) : SameKey(a, b) => a = b
  BY RecordFacts
<1>3. /\ Ordered(RecordsIn(docs), KeyBefore) \in Seq(RecordsIn(docs))
      /\ DOMAIN Ordered(RecordsIn(docs), KeyBefore) = 1 .. Len(Ordered(RecordsIn(docs), KeyBefore))
      /\ ToSet(Ordered(RecordsIn(docs), KeyBefore)) = RecordsIn(docs)
  BY <1>2, RecordsOrdered
<1>4. Len(Ordered(RecordsIn(docs), KeyBefore)) \in Nat
  BY <1>3, LenProperties
<1> QED
  BY <1>1, <1>3, <1>4

(* RefreshEmbeddingsForChangedChunks: every record gets the vector of its  *)
(* own text, reused or new.                                                *)
LEMMA RefreshFacts ==
  ASSUME NEW existing, \A r \in existing : r.vec = r.text,
         NEW records, Len(records) \in Nat, DOMAIN records = 1 .. Len(records)
  PROVE  LET refreshed == RefreshEmbeddings(existing, records) IN
         /\ DOMAIN refreshed = DOMAIN records
         /\ \A i \in DOMAIN records : refreshed[i] = Embedded(records[i], records[i].text)
<1> DEFINE new     == {i \in DOMAIN records : Unchanged(existing, records[i]) = {}}
           pending == Ordered(new, <)
           vectors == [n \in DOMAIN pending |-> records[pending[n]].text]
           Vec(i)  == IF Unchanged(existing, records[i]) = {} THEN vectors[PlaceIn(pending, i)]
                      ELSE (CHOOSE r \in Unchanged(existing, records[i]) : TRUE).vec
<1>1. RefreshEmbeddings(existing, records) = [i \in DOMAIN records |-> Embedded(records[i], Vec(i))]
  BY Zenon DEF RefreshEmbeddings, EmbedTexts
<1>2. ToSet(pending) = new
  <2>1. IsFiniteSet(new) /\ \A x \in new : x \in Int
    <3>1. IsFiniteSet(DOMAIN records) /\ \A x \in DOMAIN records : x \in Int
      BY FS_Interval
    <3>2. new \in SUBSET DOMAIN records
      OBVIOUS
    <3> QED
      BY <3>1, <3>2, FS_Subset
  <2> HIDE DEF new
  <2> QED
    BY <2>1, NumbersOrdered
<1>3. ASSUME NEW i \in DOMAIN records PROVE Vec(i) = records[i].text
  <2>1. CASE Unchanged(existing, records[i]) = {}
    <3>1. i \in ToSet(pending)
      BY <1>2, <2>1
    <3> HIDE DEF pending
    <3>2. \E n \in DOMAIN pending : pending[n] = i
      BY <3>1 DEF ToSet
    <3>3. PlaceIn(pending, i) \in DOMAIN pending /\ pending[PlaceIn(pending, i)] = i
      BY <3>2, Zenon DEF PlaceIn
    <3>4. vectors[PlaceIn(pending, i)] = records[i].text
      BY <3>3
    <3> QED
      BY <2>1, <3>4
  <2>2. CASE Unchanged(existing, records[i]) # {}
    <3> DEFINE r == CHOOSE x \in Unchanged(existing, records[i]) : TRUE
    <3>1. r \in Unchanged(existing, records[i])
      BY <2>2, Zenon
    <3>2. r.vec = records[i].text
      <4> HIDE DEF r
      <4> QED
        BY <3>1 DEF Unchanged
    <3> QED
      BY <2>2, <3>2
  <2> QED
    BY <2>1, <2>2
<1> HIDE DEF Vec
<1> QED
  BY <1>1, <1>3

\* The rows of documents, and the documents that have rows.
DocRows(docs) == {Embedded(r, r.text) : r \in RecordsIn(docs)}
Nonblank(docs) == {p \in DOMAIN docs : docs[p] # <<>>}

(* The rows of documents file by file, and their types.                    *)
LEMMA DocRowFacts ==
  ASSUME NEW docs, AreDocs(docs)
  PROVE  /\ \A p \in DOMAIN docs : RowsOf(DocRows(docs), p) = FileRows(p, docs[p])
         /\ \A r \in DocRows(docs) : r.path \in Nonblank(docs)
         /\ \A p \in Nonblank(docs) : \E r \in RecordsIn(docs) : r.path = p
         /\ IsFiniteSet(DocRows(docs))
<1>1. \A r : r \in RecordsIn(docs) <=>
               \E p \in DOMAIN docs : \E i \in DOMAIN docs[p] : r = RecordOf(p, i, docs[p][i])
  BY RecordFacts
<1>2. ASSUME NEW p \in DOMAIN docs
      PROVE  RowsOf(DocRows(docs), p) = FileRows(p, docs[p])
  <2>1. ASSUME NEW x \in RowsOf(DocRows(docs), p) PROVE x \in FileRows(p, docs[p])
    <3>1. PICK r \in RecordsIn(docs) : x = Embedded(r, r.text) /\ x.path = p
      BY DEF RowsOf, DocRows
    <3>2. PICK q \in DOMAIN docs : \E i \in DOMAIN docs[q] : r = RecordOf(q, i, docs[q][i])
      BY <1>1
    <3>3. PICK i \in DOMAIN docs[q] : r = RecordOf(q, i, docs[q][i])
      BY <3>2
    <3>4. q = p
      BY <3>1, <3>3 DEF Embedded, RecordOf
    <3> QED
      BY <3>1, <3>3, <3>4 DEF Embedded, RecordOf, FileRows
  <2>2. ASSUME NEW x \in FileRows(p, docs[p]) PROVE x \in RowsOf(DocRows(docs), p)
    <3>1. PICK i \in DOMAIN docs[p] :
            x = [path |-> p, index |-> i - 1, text |-> docs[p][i], vec |-> docs[p][i]]
      BY DEF FileRows
    <3>2. RecordOf(p, i, docs[p][i]) \in RecordsIn(docs)
      BY <1>1
    <3>3. x = Embedded(RecordOf(p, i, docs[p][i]), docs[p][i]) /\ x.path = p
      BY <3>1 DEF Embedded, RecordOf
    <3>4. RecordOf(p, i, docs[p][i]).text = docs[p][i]
      BY DEF RecordOf
    <3> QED
      BY <3>2, <3>3, <3>4 DEF RowsOf, DocRows
  <2> QED
    BY <2>1, <2>2
<1>3. ASSUME NEW x \in DocRows(docs) PROVE x.path \in Nonblank(docs)
  <2>1. PICK r \in RecordsIn(docs) : x = Embedded(r, r.text)
    BY DEF DocRows
  <2>2. PICK q \in DOMAIN docs : \E i \in DOMAIN docs[q] : r = RecordOf(q, i, docs[q][i])
    BY <1>1
  <2>3. PICK i \in DOMAIN docs[q] : r = RecordOf(q, i, docs[q][i])
    BY <2>2
  <2>4. x.path = q
    BY <2>1, <2>3 DEF Embedded, RecordOf
  <2>5. docs[q] # <<>>
    <3>1. docs[q] \in Seq(Nat) /\ i \in 1 .. Len(docs[q])
      BY ContentTypes DEF AreDocs
    <3> QED
      BY <3>1
  <2> QED
    BY <2>4, <2>5 DEF Nonblank
<1>4. ASSUME NEW p \in Nonblank(docs) PROVE \E r \in RecordsIn(docs) : r.path = p
  <2>1. p \in DOMAIN docs /\ docs[p] # <<>> /\ docs[p] \in Contents
    BY DEF Nonblank, AreDocs
  <2>2. 1 \in DOMAIN docs[p]
    <3>1. docs[p] \in Seq(Nat) /\ Len(docs[p]) \in Nat /\ DOMAIN docs[p] = 1 .. Len(docs[p])
      BY <2>1, ContentTypes
    <3>2. Len(docs[p]) # 0
      BY <2>1, <3>1, EmptySeq
    <3> QED
      BY <3>1, <3>2
  <2>3. RecordOf(p, 1, docs[p][1]) \in RecordsIn(docs)
    BY <1>1, <2>1, <2>2
  <2> QED
    BY <2>3 DEF RecordOf
<1>5. IsFiniteSet(DocRows(docs))
  <2> DEFINE f == [r \in RecordsIn(docs) |-> Embedded(r, r.text)]
  <2>1. f \in Surjection(RecordsIn(docs), DocRows(docs))
    BY DEF Surjection, DocRows
  <2>2. IsFiniteSet(RecordsIn(docs))
    BY RecordFacts
  <2> HIDE DEF f
  <2> QED
    BY <2>1, <2>2, FS_Surjection
<1> QED
  BY <1>2, <1>3, <1>4, <1>5

(* What RunFullRebuild stores, file by file.                               *)
LEMMA RebuildFacts ==
  ASSUME NEW tree \in Trees, NEW p \in Paths
  PROVE  RowsOf(RunFullRebuild(tree), p) = Rebuilt(tree, p)
<1> DEFINE D       == {q \in DiscoverIndexableFiles(tree) : tree[q] # <<>>}
           docs    == [q \in D |-> tree[q]]
           records == BuildChunkRecords(docs)
<1>1. AreDocs(docs) /\ DOMAIN docs = D /\ \A q \in D : docs[q] = tree[q]
  BY DEF AreDocs, DiscoverIndexableFiles, Trees
<1>2. RunFullRebuild(tree) = {Embedded(records[i], records[i].text) : i \in DOMAIN records}
  BY DEF RunFullRebuild, EmbedTexts
<1> HIDE DEF docs
<1>3. ToSet(records) = RecordsIn(docs)
  BY <1>1, BuildFacts
<1>4. RunFullRebuild(tree) = DocRows(docs)
  <2> HIDE DEF records
  <2> QED
    BY <1>2, <1>3 DEF DocRows, ToSet
<1>5. CASE p \in D
  <2>1. tree[p] # Absent
    BY <1>5 DEF DiscoverIndexableFiles
  <2>2. RowsOf(DocRows(docs), p) = FileRows(p, docs[p])
    BY <1>1, <1>5, DocRowFacts
  <2>3. docs[p] = tree[p]
    BY <1>1, <1>5
  <2> QED
    BY <1>4, <2>1, <2>2, <2>3 DEF Rebuilt
<1>6. CASE p \notin D
  <2>1. RowsOf(DocRows(docs), p) = {}
    BY <1>1, <1>6, DocRowFacts DEF RowsOf, Nonblank
  <2>2. tree[p] = Absent \/ tree[p] = <<>>
    BY <1>6 DEF DiscoverIndexableFiles
  <2>3. FileRows(p, <<>>) = {}
    BY DEF FileRows
  <2> QED
    BY <1>4, <2>1, <2>2, <2>3 DEF Rebuilt
<1> QED
  BY <1>5, <1>6

(* What an application stores, whatever was stored: the rows of the paths  *)
(* without a refreshed chunk that were not deleted, and those of the       *)
(* documents.                                                              *)
LEMMA MergeFacts ==
  ASSUME NEW existing, \A r \in existing : r.vec = r.text,
         NEW docs, AreDocs(docs), NEW dels
  PROVE  MergeChunkRecords(existing, RefreshEmbeddings(existing, BuildChunkRecords(docs)), dels)
           = {r \in existing : r.path \notin dels \cup Nonblank(docs)} \cup DocRows(docs)
<1> DEFINE records   == BuildChunkRecords(docs)
           refreshed == RefreshEmbeddings(existing, records)
<1>1. ToSet(records) = RecordsIn(docs) /\ Len(records) \in Nat /\ DOMAIN records = 1 .. Len(records)
  BY BuildFacts
<1>2. /\ DOMAIN refreshed = DOMAIN records
      /\ \A i \in DOMAIN records : refreshed[i] = Embedded(records[i], records[i].text)
  <2> HIDE DEF records
  <2> QED
    BY <1>1, RefreshFacts
<1> HIDE DEF records, refreshed
<1>3. ToSet(refreshed) = DocRows(docs)
  BY <1>1, <1>2 DEF DocRows, ToSet
<1>4. {refreshed[i].path : i \in DOMAIN refreshed} = Nonblank(docs)
  <2>1. ASSUME NEW i \in DOMAIN refreshed PROVE refreshed[i].path \in Nonblank(docs)
    <3>1. refreshed[i] \in DocRows(docs)
      BY <1>3 DEF ToSet
    <3> QED
      BY <3>1, DocRowFacts
  <2>2. ASSUME NEW p \in Nonblank(docs) PROVE \E i \in DOMAIN refreshed : refreshed[i].path = p
    <3>1. PICK r \in RecordsIn(docs) : r.path = p
      BY DocRowFacts
    <3>2. PICK i \in DOMAIN records : records[i] = r
      BY <1>1 DEF ToSet
    <3> QED
      BY <1>2, <3>1, <3>2 DEF Embedded
  <2> QED
    BY <2>1, <2>2
<1> QED
  BY <1>3, <1>4 DEF MergeChunkRecords, records, refreshed

-----------------------------------------------------------------------------
(* The inductive invariant.                                                *)

JobFields ==
  job = [pc |-> job.pc, snap |-> job.snap, ups |-> job.ups, dels |-> job.dels,
         docs |-> job.docs, attempt |-> job.attempt]

SearchFields ==
  search = [pc |-> search.pc, topK |-> search.topK, shown |-> search.shown,
            results |-> search.results]

\* Types, with the attempts that are left to a queued job.
Types ==
  /\ fs \in Trees
  /\ edits \in 0 .. MaxEdits
  /\ saved \in Seq(Trees) /\ Len(saved) <= MaxSaves
  /\ JobFields
  /\ job.pc \in JobSteps /\ job.snap \in 0 .. Latest /\ job.attempt \in 0 .. MaxAttempts
  /\ job.pc = "queued" => job.attempt < MaxAttempts
  /\ job.ups \subseteq Paths /\ job.dels \subseteq Paths
  /\ AreDocs(job.docs) /\ DOMAIN job.docs \subseteq job.ups
  /\ SearchFields
  /\ search.pc \in {"idle", "not_ready", "ready", "done"}
  /\ search.pc # "idle" => search.topK \in 1 .. MaxStoreTopK
  /\ search.shown \in 0 .. Latest
  /\ had \in [Paths -> SUBSET (Contents \cup {Absent})]
  /\ flawed \subseteq Paths

\* What is in the repository, or was read, is a content of the file.
HadContents ==
  /\ \A p \in Paths : fs[p] \in had[p]
  /\ \A p \in DOMAIN job.docs : job.docs[p] \in had[p]

\* A file's rows are exactly those of one of its contents.
WholeFiles ==
  \A p \in Paths :
    RowsOf(chunks, p) # {} => \E c \in had[p] \ {Absent} : RowsOf(chunks, p) = FileRows(p, c)

RowsStored ==
  /\ IsFiniteSet(chunks)
  /\ \A r \in chunks : r.path \in Paths
  /\ WholeFiles

\* A job has the delta of its snapshot.  A later snapshot, whose delta was
\* lost, differs from it in flawed paths, and does differ.
JobDelta ==
  job.pc # "none" =>
    /\ job.snap # 0
    /\ job.ups = Upserts(Snapshot(job.snap - 1), Snapshot(job.snap))
    /\ job.dels = Deletes(Snapshot(job.snap - 1), Snapshot(job.snap))
    /\ \A p \in Paths \ flawed : Snapshot(job.snap)[p] = Snapshot(Latest)[p]
    /\ job.snap # Latest => flawed # {}

\* The table is a rebuild of the n-th snapshot, flawed paths aside.
RebuiltAt(n) == \A p \in Paths \ flawed : RowsOf(chunks, p) = Rebuilt(Snapshot(n), p)

ServedIsRebuilt == \E n \in Served : RebuiltAt(n)

IInv == Types /\ HadContents /\ RowsStored /\ JobDelta /\ ServedIsRebuilt

(* Snapshots are trees.                                                    *)
LEMMA SnapshotTypes ==
  ASSUME saved \in Seq(Trees)
  PROVE  /\ Latest \in Nat
         /\ EmptyTree \in Trees
         /\ \A n \in 0 .. Latest : Snapshot(n) \in Trees
<1>1. Latest \in Nat
  BY LenProperties DEF Latest
<1>2. EmptyTree \in Trees
  BY DEF EmptyTree, Trees
<1>3. ASSUME NEW n \in 0 .. Latest PROVE Snapshot(n) \in Trees
  <2>1. CASE n = 0
    BY <1>2, <2>1 DEF Snapshot
  <2>2. CASE n # 0
    <3>1. n \in 1 .. Len(saved)
      BY <1>1, <2>2 DEF Latest
    <3> QED
      BY <2>2, <3>1, ElementOfSeq DEF Snapshot
  <2> QED
    BY <2>1, <2>2
<1> QED
  BY <1>1, <1>2, <1>3

(* What is outside a delta is the same in both trees; no path is upserted  *)
(* and deleted.                                                            *)
LEMMA DeltaFacts ==
  ASSUME NEW old, NEW new
  PROVE  /\ \A p \in Paths : p \notin Upserts(old, new) \cup Deletes(old, new) => old[p] = new[p]
         /\ \A p \in Upserts(old, new) : p \in Paths /\ new[p] # Absent /\ p \notin Deletes(old, new)
         /\ \A p \in Deletes(old, new) : p \in Paths /\ new[p] = Absent
BY DEF Upserts, Deletes

(* Each row is a chunk of a content of its file, with its vector; keys are *)
(* unique.                                                                 *)
LEMMA RowFacts ==
  ASSUME RowsStored, had \in [Paths -> SUBSET (Contents \cup {Absent})]
  PROVE  /\ \A r \in chunks : /\ r.path \in Paths /\ r.path \in Int
                              /\ r.index \in Nat /\ r.text \in Nat /\ r.vec = r.text
         /\ \A a, b \in chunks : SameKey(a, b) => a = b
<1>1. ASSUME NEW r \in chunks
      PROVE  \E c \in Contents : \E i \in DOMAIN c :
               /\ RowsOf(chunks, r.path) = FileRows(r.path, c)
               /\ r = [path |-> r.path, index |-> i - 1, text |-> c[i], vec |-> c[i]]
  <2>1. r.path \in Paths /\ r \in RowsOf(chunks, r.path)
    BY DEF RowsStored, RowsOf
  <2>2. PICK c \in had[r.path] \ {Absent} : RowsOf(chunks, r.path) = FileRows(r.path, c)
    BY <2>1 DEF RowsStored, WholeFiles
  <2>3. c \in Contents
    BY <2>1, <2>2
  <2>4. r \in FileRows(r.path, c)
    BY <2>1, <2>2
  <2> QED
    BY <2>2, <2>3, <2>4 DEF FileRows
<1>2. ASSUME NEW r \in chunks
      PROVE  /\ r.path \in Paths /\ r.path \in Int
             /\ r.index \in Nat /\ r.text \in Nat /\ r.vec = r.text
  <2>1. PICK c \in Contents : \E i \in DOMAIN c :
               r = [path |-> r.path, index |-> i - 1, text |-> c[i], vec |-> c[i]]
    BY <1>1
  <2>2. PICK i \in DOMAIN c :
               r = [path |-> r.path, index |-> i - 1, text |-> c[i], vec |-> c[i]]
    BY <2>1
  <2>3. i - 1 \in Nat /\ c[i] \in Nat
    BY ContentTypes
  <2>4. r.path \in Paths /\ r.path \in Int
    BY ChunkAssumption DEF RowsStored, Paths
  <2>5. r.index = i - 1 /\ r.text = c[i] /\ r.vec = c[i]
    BY <2>2
  <2> QED
    BY <2>3, <2>4, <2>5
<1>3. ASSUME NEW a \in chunks, NEW b \in chunks, SameKey(a, b) PROVE a = b
  <2>1. PICK c \in Contents : \E i \in DOMAIN c :
               /\ RowsOf(chunks, a.path) = FileRows(a.path, c)
               /\ a = [path |-> a.path, index |-> i - 1, text |-> c[i], vec |-> c[i]]
    BY <1>1
  <2>2. PICK i \in DOMAIN c :
               a = [path |-> a.path, index |-> i - 1, text |-> c[i], vec |-> c[i]]
    BY <2>1
  <2>3. b \in FileRows(a.path, c)
    BY <1>3, <2>1 DEF SameKey, RowsOf
  <2>4. PICK j \in DOMAIN c :
               b = [path |-> a.path, index |-> j - 1, text |-> c[j], vec |-> c[j]]
    BY <2>3 DEF FileRows
  <2>5. i \in Nat /\ j \in Nat
    BY ContentTypes
  <2>6. a.index = i - 1 /\ b.index = j - 1
    BY <2>2, <2>4
  <2>7. i = j
    <3>1. a.index = b.index
      BY <1>3, Zenon DEF SameKey
    <3>2. i - 1 = j - 1
      BY <2>6, <3>1
    <3> QED
      BY <2>5, <3>2
  <2>8. b = [path |-> a.path, index |-> i - 1, text |-> c[i], vec |-> c[i]]
    BY <2>4, <2>7, Zenon
  <2> QED
    BY <2>2, <2>8, Zenon
<1> QED
  BY <1>2, <1>3

-----------------------------------------------------------------------------
(* Every step keeps it.                                                    *)

(* Initially the table is empty and so is the tree it stands for.          *)
LEMMA InitIInv == Init => IInv
<1> SUFFICES ASSUME Init PROVE IInv
  OBVIOUS
<1> USE DEF Init
<1>0. Latest = 0 /\ saved \in Seq(Trees)
  BY DEF Latest
<1>1. Types
  <2>1. JobFields /\ SearchFields
    BY DEF JobFields, SearchFields, NoJob, NoSearch
  <2>2. AreDocs(job.docs) /\ DOMAIN job.docs \subseteq job.ups
    BY DEF NoJob, AreDocs
  <2>3. had \in [Paths -> SUBSET (Contents \cup {Absent})]
    BY DEF Trees
  <2> QED
    BY <1>0, <2>1, <2>2, <2>3, ChunkAssumption DEF Types, NoJob, NoSearch, JobSteps, Latest
<1>2. HadContents
  BY DEF HadContents, NoJob
<1>3. RowsStored
  BY FS_EmptySet DEF RowsStored, WholeFiles, RowsOf
<1>4. JobDelta
  BY DEF JobDelta, NoJob
<1>5. ServedIsRebuilt
  <2>1. Served = {0}
    BY <1>0 DEF Served, NoJob
  <2>2. RebuiltAt(0)
    BY DEF RebuiltAt, RowsOf, Rebuilt, Snapshot, EmptyTree
  <2> QED
    BY <2>1, <2>2 DEF ServedIsRebuilt
<1> QED
  BY <1>1, <1>2, <1>3, <1>4, <1>5 DEF IInv

(* An edit only adds to the contents a file has had.                       *)
LEMMA EditIInv ==
  ASSUME IInv, NEW p \in Paths, NEW v \in Contents \cup {Absent}, Edit(p, v)
  PROVE  IInv'
<1> USE DEF IInv
<1>1. UNCHANGED <<saved, chunks, job, search, flawed>>
  BY DEF Edit
<1>2. \A q \in Paths : had[q] \subseteq had'[q]
  BY DEF Edit, Types
<1>3. Types'
  <2>1. fs' \in Trees
    BY DEF Edit, Types, Trees
  <2>2. edits' \in 0 .. MaxEdits
    BY ChunkAssumption DEF Edit, Types
  <2>3. had' \in [Paths -> SUBSET (Contents \cup {Absent})]
    BY DEF Edit, Types
  <2> QED
    BY <1>1, <2>1, <2>2, <2>3 DEF Types, JobFields, SearchFields, Latest
<1>4. HadContents'
  <2>1. \A q \in Paths : fs'[q] \in had'[q]
    BY DEF HadContents, Edit, Types, Trees
  <2>2. \A q \in DOMAIN job.docs : job.docs[q] \in had'[q]
    BY <1>2 DEF HadContents, Types, AreDocs
  <2> QED
    BY <1>1, <2>1, <2>2 DEF HadContents
<1>5. RowsStored'
  BY <1>1, <1>2 DEF RowsStored, WholeFiles, RowsOf
<1>6. JobDelta' /\ ServedIsRebuilt'
  BY <1>1 DEF JobDelta, ServedIsRebuilt, RebuiltAt, Served, Snapshot, Latest, RowsOf
<1> QED
  BY <1>3, <1>4, <1>5, <1>6

(* A scan that loses its delta marks what is in it; one that sends it      *)
(* leaves the table at the snapshot before.                                *)
LEMMA ScanIInv ==
  ASSUME IInv, NEW sent \in BOOLEAN, Scan(sent)
  PROVE  IInv'
<1> USE DEF IInv
<1> DEFINE old  == Snapshot(Latest)
           ups  == Upserts(old, fs)
           dels == Deletes(old, fs)
<1>1. /\ UNCHANGED <<fs, edits, chunks, search, had>>
      /\ saved' = Append(saved, fs) /\ Latest < MaxSaves /\ fs # old
  BY DEF Scan
<1>2. /\ fs \in Trees /\ saved \in Seq(Trees) /\ Latest \in Nat /\ old \in Trees
      /\ job.snap \in 0 .. Latest
  BY SnapshotTypes DEF Types
<1>0. PICK N \in Nat : N = Latest
  BY <1>2
<1>3. saved' \in Seq(Trees) /\ Latest' = Latest + 1 /\ Latest' <= MaxSaves
  <2>1. Len(saved') = Len(saved) + 1 /\ saved' \in Seq(Trees)
    BY <1>1, <1>2, AppendProperties
  <2> QED
    BY <1>1, <1>2, <2>1, ChunkAssumption DEF Latest
<1>4. \A n \in 0 .. N : Snapshot(n)' = Snapshot(n)
  <2>1. \A n \in 1 .. Len(saved) : saved'[n] = saved[n]
    BY <1>1, <1>2, AppendProperties
  <2> QED
    BY <1>0, <2>1 DEF Snapshot, Latest
<1>5. Snapshot(N + 1)' = fs
  <2>1. saved'[Len(saved) + 1] = fs
    BY <1>1, <1>2, AppendProperties
  <2> QED
    BY <1>0, <2>1 DEF Snapshot, Latest
<1>6. /\ \A p \in Paths : p \notin ups \cup dels => old[p] = fs[p]
      /\ ups \subseteq Paths /\ dels \subseteq Paths
  BY DeltaFacts
<1>7. ups \cup dels # {}
  <2>1. PICK p \in Paths : old[p] # fs[p]
    BY <1>1, <1>2 DEF Trees
  <2> QED
    BY <1>6, <2>1
<1>8. CASE sent
  <2>1. /\ job.pc = "none" /\ flawed' = flawed
        /\ job' = [NoJob EXCEPT !.pc = "queued", !.snap = Latest + 1, !.ups = ups, !.dels = dels]
    BY <1>8 DEF Scan
  <2>2. job' = [pc |-> "queued", snap |-> Latest + 1, ups |-> ups, dels |-> dels,
                docs |-> <<>>, attempt |-> 0]
    BY <2>1 DEF NoJob
  <2> HIDE DEF ups, dels
  <2>3. /\ job'.pc = "queued" /\ job'.snap = Latest + 1 /\ job'.ups = ups /\ job'.dels = dels
        /\ job'.docs = <<>> /\ job'.attempt = 0
    BY <2>2
  <2>4. Types'
    <3>1. JobFields'
      BY <2>2, <2>3 DEF JobFields
    <3>2. AreDocs(job'.docs) /\ DOMAIN job'.docs \subseteq job'.ups
      BY <2>3 DEF AreDocs
    <3>3. SearchFields' /\ search'.shown \in 0 .. Latest'
      BY <1>1, <1>2, <1>3 DEF Types, SearchFields
    <3>4. job'.pc \in JobSteps /\ job'.snap \in 0 .. Latest' /\ job'.attempt \in 0 .. MaxAttempts
      BY <1>2, <1>3, <2>3, ChunkAssumption DEF JobSteps
    <3>5. job'.attempt < MaxAttempts
      BY <2>3, ChunkAssumption
    <3>6. Len(saved)' <= MaxSaves
      BY <1>3 DEF Latest
    <3> QED
      BY <1>1, <1>3, <1>6, <2>1, <2>3, <3>1, <3>2, <3>3, <3>4, <3>5, <3>6 DEF Types
  <2>5. HadContents'
    BY <1>1, <2>3 DEF HadContents
  <2>6. RowsStored'
    BY <1>1 DEF RowsStored, WholeFiles, RowsOf
  <2>7. JobDelta'
    <3>1. job'.snap - 1 = Latest /\ job'.snap = Latest' /\ job'.snap # 0
      BY <1>2, <1>3, <2>3
    <3>2. Snapshot(job.snap)' = fs /\ Snapshot(job.snap - 1)' = old
      BY <1>0, <1>4, <1>5, <2>3 DEF Snapshot
    <3>3. Snapshot(Latest)' = fs
      BY <1>0, <1>5, <1>3 DEF Snapshot
    <3> QED
      BY <2>3, <3>1, <3>2, <3>3 DEF JobDelta, ups, dels
  <2>8. ServedIsRebuilt'
    <3>1. RebuiltAt(Latest)
      BY <2>1 DEF ServedIsRebuilt, Served
    <3>2. Snapshot(Latest) = Snapshot(job.snap - 1)'
      BY <1>0, <1>4, <2>3 DEF Snapshot
    <3>3. RebuiltAt(job.snap - 1)'
      BY <1>1, <2>1, <3>1, <3>2 DEF RebuiltAt, RowsOf
    <3>4. (job.snap - 1)' \in Served'
      BY <2>3 DEF Served
    <3> QED
      BY <3>3, <3>4 DEF ServedIsRebuilt, RebuiltAt, RowsOf
  <2> QED
    BY <2>4, <2>5, <2>6, <2>7, <2>8
<1>9. CASE ~sent
  <2>1. flawed' = flawed \cup ups \cup dels /\ job' = job
    BY <1>9 DEF Scan
  <2> HIDE DEF ups, dels
  <2>2. Types'
    <3>1. SearchFields' /\ search'.shown \in 0 .. Latest'
      BY <1>1, <1>2, <1>3 DEF Types, SearchFields
    <3>2. JobFields' /\ job'.snap \in 0 .. Latest'
      BY <1>2, <1>3, <2>1 DEF Types, JobFields
    <3>3. Len(saved)' <= MaxSaves
      BY <1>3 DEF Latest
    <3> QED
      BY <1>1, <1>3, <1>6, <2>1, <3>1, <3>2, <3>3 DEF Types
  <2>3. HadContents'
    BY <1>1, <2>1 DEF HadContents
  <2>4. RowsStored'
    BY <1>1 DEF RowsStored, WholeFiles, RowsOf
  <2>5. \A p \in Paths \ flawed' : p \notin flawed /\ old[p] = fs[p]
    BY <1>6, <2>1
  <2>6. JobDelta'
    <3> SUFFICES ASSUME job.pc # "none" PROVE JobDelta'
      BY <2>1 DEF JobDelta
    <3>1. /\ job.snap # 0 /\ job.snap - 1 \in 0 .. Latest
          /\ job.snap \in Int
      BY <1>2 DEF JobDelta
    <3>2. Snapshot(job.snap)' = Snapshot(job.snap) /\ Snapshot(job.snap - 1)' = Snapshot(job.snap - 1)
      BY <1>0, <1>2, <1>4, <2>1, <3>1 DEF Snapshot
    <3>3. Snapshot(Latest)' = fs
      BY <1>0, <1>5, <1>3 DEF Snapshot
    <3>4. \A p \in Paths \ flawed' : Snapshot(job.snap)[p] = fs[p]
      BY <2>5 DEF JobDelta
    <3> QED
      BY <1>7, <2>1, <3>1, <3>2, <3>3, <3>4 DEF JobDelta
  <2>7. ServedIsRebuilt'
    <3>1. PICK n \in Served : RebuiltAt(n)
      BY DEF ServedIsRebuilt
    <3>2. CASE job.pc = "none"
      <4>1. n = Latest /\ Served' = {N + 1}
        BY <1>0, <1>3, <2>1, <3>1, <3>2 DEF Served
      <4>2. RebuiltAt(N + 1)'
        BY <1>1, <1>5, <2>5, <3>1, <4>1 DEF RebuiltAt, RowsOf, Rebuilt
      <4> QED
        BY <4>1, <4>2 DEF ServedIsRebuilt
    <3>3. CASE job.pc # "none"
      <4>1. n \in Served' /\ n \in 0 .. N
        BY <1>0, <1>2, <2>1, <3>3 DEF Served, JobDelta
      <4>2. RebuiltAt(n)'
        BY <1>1, <1>4, <2>5, <3>1, <4>1 DEF RebuiltAt, RowsOf
      <4> QED
        BY <4>1, <4>2 DEF ServedIsRebuilt
    <3> QED
      BY <3>2, <3>3
  <2> QED
    BY <2>2, <2>3, <2>4, <2>6, <2>7
<1> QED
  BY <1>8, <1>9

(* The least element of a set of paths is one of them.                     *)
LEMMA LeastPath ==
  ASSUME NEW S \in SUBSET Paths, S # {}
  PROVE  Min(S) \in S
<1>1. S \subseteq Nat
  BY ChunkAssumption DEF Paths
<1>2. PICK x \in S : \A y \in S : ~(<<y, x>> \in OpToRel(<, Nat))
  BY <1>1, NatLessThanWellFounded, WFMin
<1>3. \A y \in S : x <= y
  <2> SUFFICES ASSUME NEW y \in S PROVE x <= y
    OBVIOUS
  <2>1. x \in Nat /\ y \in Nat
    BY <1>1
  <2>2. ~(y < x)
    BY <1>2, <2>1 DEF OpToRel
  <2> QED
    BY <2>1, <2>2
<1> QED
  BY <1>3, Zenon DEF Min

(* A step of the job that leaves its delta and everything else alone.      *)
LEMMA JobStep ==
  ASSUME IInv, job.pc # "none", UNCHANGED <<fs, edits, saved, chunks, search, had, flawed>>,
         JobFields', job'.pc \in {"queued", "reading"}, job'.snap = job.snap,
         job'.ups = job.ups, job'.dels = job.dels, job'.attempt \in 0 .. MaxAttempts,
         job'.pc = "queued" => job'.attempt < MaxAttempts,
         AreDocs(job'.docs), DOMAIN job'.docs \subseteq job.ups,
         \A p \in DOMAIN job'.docs : job'.docs[p] \in had[p]
  PROVE  IInv'
<1> USE DEF IInv
<1>1. Types'
  BY DEF Types, JobSteps, SearchFields, Latest
<1>2. HadContents'
  BY DEF HadContents
<1>3. RowsStored'
  BY DEF RowsStored, WholeFiles, RowsOf
<1>4. JobDelta'
  BY DEF JobDelta, Snapshot, Latest
<1>5. ServedIsRebuilt'
  <2>1. PICK n \in Served : RebuiltAt(n)
    BY DEF ServedIsRebuilt
  <2>2. n \in Served'
    BY DEF Served
  <2>3. RebuiltAt(n)'
    BY <2>1 DEF RebuiltAt, RowsOf, Snapshot
  <2> QED
    BY <2>2, <2>3 DEF ServedIsRebuilt
<1> QED
  BY <1>1, <1>2, <1>3, <1>4, <1>5

(* No documents.                                                           *)
LEMMA NoDocs == AreDocs(<<>>) /\ DOMAIN <<>> = {}
BY DEF AreDocs

(* An attempt that fails keeps the delta for a retry, or marks its paths   *)
(* when it was the last.                                                   *)
LEMMA FailIInv ==
  ASSUME IInv, job.pc = "reading", FailApply, UNCHANGED <<fs, edits, saved, chunks, search, had>>
  PROVE  IInv'
<1> USE DEF IInv
<1>0. JobFields /\ job.attempt \in 0 .. MaxAttempts
  BY DEF Types
<1>1. CASE job.attempt < MaxAttempts
  <2>1. job' = [job EXCEPT !.pc = "queued", !.docs = <<>>] /\ flawed' = flawed
    BY <1>1 DEF FailApply
  <2>2. job' = [pc |-> "queued", snap |-> job.snap, ups |-> job.ups, dels |-> job.dels,
                docs |-> <<>>, attempt |-> job.attempt]
    BY <1>0, <2>1 DEF JobFields
  <2>3. /\ job'.pc = "queued" /\ job'.snap = job.snap /\ job'.ups = job.ups
        /\ job'.dels = job.dels /\ job'.docs = <<>> /\ job'.attempt = job.attempt
    BY <2>2
  <2>4. JobFields'
    BY <2>2, <2>3 DEF JobFields
  <2> QED
    BY <1>0, <1>1, <2>1, <2>3, <2>4, NoDocs, JobStep
<1>2. CASE ~(job.attempt < MaxAttempts)
  <2>1. job' = NoJob /\ flawed' = flawed \cup job.ups \cup job.dels
    BY <1>2 DEF FailApply
  <2>2. /\ job'.pc = "none" /\ job'.snap = 0 /\ job'.ups = {} /\ job'.dels = {}
        /\ job'.docs = <<>> /\ job'.attempt = 0 /\ JobFields'
    BY <2>1 DEF NoJob, JobFields
  <2>3. Types'
    <3>1. Latest \in Nat /\ Latest' = Latest
      BY SnapshotTypes DEF Types, Latest
    <3>2. job'.pc \in JobSteps /\ job'.snap \in 0 .. Latest' /\ job'.attempt \in 0 .. MaxAttempts
      BY <2>2, <3>1, ChunkAssumption DEF JobSteps
    <3>3. SearchFields'
      BY DEF Types, SearchFields
    <3> QED
      BY <2>1, <2>2, <3>1, <3>2, <3>3, NoDocs DEF Types
  <2>4. HadContents'
    BY <2>2, NoDocs DEF HadContents
  <2>5. RowsStored'
    BY DEF RowsStored, WholeFiles, RowsOf
  <2>6. JobDelta'
    BY <2>2 DEF JobDelta
  <2>7. ServedIsRebuilt'
    <3>1. PICK n \in Served : RebuiltAt(n)
      BY DEF ServedIsRebuilt
    <3>2. n = job.snap - 1 \/ n = job.snap
      BY <3>1 DEF Served
    <3>3. ASSUME NEW p \in Paths \ flawed'
          PROVE  p \notin flawed /\ Snapshot(n)[p] = Snapshot(Latest)[p]
      <4>1. p \in Paths /\ p \notin flawed /\ p \notin job.ups /\ p \notin job.dels
        BY <2>1
      <4>2. Snapshot(job.snap)[p] = Snapshot(Latest)[p]
        BY <4>1 DEF JobDelta
      <4>3. Snapshot(job.snap - 1)[p] = Snapshot(job.snap)[p]
        BY <4>1, DeltaFacts DEF JobDelta
      <4> QED
        BY <3>2, <4>1, <4>2, <4>3
    <3>4. Served' = {Latest'}
      BY <2>2 DEF Served
    <3>5. Snapshot(Latest)' = Snapshot(Latest)
      BY DEF Snapshot, Latest
    <3>6. RebuiltAt(Latest)'
      BY <3>1, <3>3, <3>5 DEF RebuiltAt, RowsOf, Rebuilt
    <3> QED
      BY <3>4, <3>6 DEF ServedIsRebuilt, RebuiltAt
  <2> QED
    BY <2>3, <2>4, <2>5, <2>6, <2>7
<1> QED
  BY <1>1, <1>2

(* The start of an attempt.                                                *)
LEMMA StartIInv ==
  ASSUME IInv, StartApply
  PROVE  IInv'
<1>0. JobFields /\ job.attempt \in 0 .. MaxAttempts /\ job.attempt < MaxAttempts /\ job.pc = "queued"
  BY DEF IInv, Types, StartApply
<1>1. job' = [pc |-> "reading", snap |-> job.snap, ups |-> job.ups, dels |-> job.dels,
              docs |-> <<>>, attempt |-> job.attempt + 1]
  BY <1>0 DEF StartApply, JobFields
<1>2. /\ job'.pc = "reading" /\ job'.snap = job.snap /\ job'.ups = job.ups
      /\ job'.dels = job.dels /\ job'.docs = <<>> /\ job'.attempt = job.attempt + 1
  BY <1>1
<1>3. JobFields'
  BY <1>1, <1>2 DEF JobFields
<1>4. job'.attempt \in 0 .. MaxAttempts
  BY <1>0, <1>2, ChunkAssumption
<1>5. UNCHANGED <<fs, edits, saved, chunks, search, had, flawed>>
  BY DEF StartApply
<1> QED
  BY <1>0, <1>2, <1>3, <1>4, <1>5, NoDocs, JobStep

(* Reading a file adds its present content to the documents.               *)
LEMMA ReadIInv ==
  ASSUME IInv, ReadRepoFile
  PROVE  IInv'
<1> DEFINE p == Min(Unread)
<1>0. /\ JobFields /\ job.attempt \in 0 .. MaxAttempts /\ job.pc = "reading"
      /\ job.ups \subseteq Paths /\ AreDocs(job.docs) /\ DOMAIN job.docs \subseteq job.ups
      /\ fs \in Trees /\ UNCHANGED <<fs, edits, saved, chunks, search, had>>
  BY DEF IInv, Types, ReadRepoFile
<1>1. p \in job.ups /\ p \in Paths
  <2>1. Unread \in SUBSET Paths /\ Unread # {}
    BY <1>0 DEF Unread, ReadRepoFile
  <2>2. p \in Unread
    BY <2>1, LeastPath
  <2> QED
    BY <1>0, <2>2 DEF Unread
<1>2. CASE fs[p] = Absent
  <2>1. FailApply
    BY <1>2 DEF ReadRepoFile
  <2> QED
    BY <1>0, <2>1, FailIInv
<1>3. CASE fs[p] # Absent
  <2> DEFINE docs == [q \in DOMAIN job.docs \cup {p} |-> IF q = p THEN fs[p] ELSE job.docs[q]]
  <2>1. job' = [job EXCEPT !.docs = docs] /\ flawed' = flawed
    BY <1>3 DEF ReadRepoFile
  <2> HIDE DEF p
  <2>2. DOMAIN docs \subseteq job.ups
    BY <1>0, <1>1
  <2>3. AreDocs(docs)
    <3>1. fs[p] \in Contents
      BY <1>0, <1>1, <1>3 DEF Trees
    <3> QED
      BY <1>0, <1>1, <3>1 DEF AreDocs
  <2>4. \A q \in DOMAIN docs : docs[q] \in had[q]
    BY <1>1 DEF IInv, HadContents
  <2> HIDE DEF docs
  <2>5. job' = [pc |-> job.pc, snap |-> job.snap, ups |-> job.ups, dels |-> job.dels,
                docs |-> docs, attempt |-> job.attempt]
    BY <1>0, <2>1 DEF JobFields
  <2>6. /\ job'.pc = "reading" /\ job'.snap = job.snap /\ job'.ups = job.ups
        /\ job'.dels = job.dels /\ job'.docs = docs /\ job'.attempt = job.attempt
    BY <1>0, <2>5
  <2>7. JobFields'
    BY <1>0, <2>5, <2>6 DEF JobFields
  <2> QED
    BY <1>0, <2>1, <2>2, <2>3, <2>4, <2>6, <2>7, JobStep
<1> QED
  BY <1>2, <1>3

(* What an application stores, file by file.                               *)
LEMMA MergedRows ==
  ASSUME IInv, job.pc = "reading"
  PROVE  /\ Merged = {r \in chunks : r.path \notin job.dels \cup Nonblank(job.docs)}
                       \cup DocRows(job.docs)
         /\ IsFiniteSet(Merged)
         /\ \A r \in Merged : r.path \in Paths
         /\ \A p \in job.dels : RowsOf(Merged, p) = {}
         /\ \A p \in Nonblank(job.docs) : RowsOf(Merged, p) = FileRows(p, job.docs[p])
         /\ \A p \in Paths : p \notin job.dels \cup Nonblank(job.docs) =>
                               RowsOf(Merged, p) = RowsOf(chunks, p)
<1> DEFINE kept == {r \in chunks : r.path \notin job.dels \cup Nonblank(job.docs)}
<1>1. /\ AreDocs(job.docs) /\ RowsStored /\ Nonblank(job.docs) \subseteq job.ups
      /\ Nonblank(job.docs) \subseteq Paths
  BY DEF IInv, Types, Nonblank, AreDocs
<1>2. \A p \in job.dels : p \notin job.ups
  <2>1. job.pc # "none"
    OBVIOUS
  <2> QED
    BY <2>1, DeltaFacts DEF IInv, JobDelta
<1>3. \A r \in chunks : r.vec = r.text
  BY <1>1, RowFacts DEF IInv, Types
<1>4. Merged = kept \cup DocRows(job.docs)
  BY <1>1, <1>3, MergeFacts DEF Merged
<1>5. /\ \A p \in DOMAIN job.docs : RowsOf(DocRows(job.docs), p) = FileRows(p, job.docs[p])
      /\ \A r \in DocRows(job.docs) : r.path \in Nonblank(job.docs)
      /\ IsFiniteSet(DocRows(job.docs))
  BY <1>1, DocRowFacts
<1>6. IsFiniteSet(Merged)
  <2>1. IsFiniteSet(kept)
    BY <1>1, FS_Subset DEF RowsStored
  <2> QED
    BY <1>4, <1>5, <2>1, FS_Union
<1>7. \A r \in Merged : r.path \in Paths
  BY <1>1, <1>4, <1>5 DEF RowsStored
<1>8. \A p \in job.dels : RowsOf(Merged, p) = {}
  BY <1>1, <1>2, <1>4, <1>5 DEF RowsOf
<1>9. ASSUME NEW p \in Nonblank(job.docs) PROVE RowsOf(Merged, p) = FileRows(p, job.docs[p])
  <2>1. RowsOf(Merged, p) = RowsOf(DocRows(job.docs), p)
    BY <1>4 DEF RowsOf
  <2> QED
    BY <1>5, <2>1 DEF Nonblank
<1>10. ASSUME NEW p \in Paths, p \notin job.dels \cup Nonblank(job.docs)
       PROVE  RowsOf(Merged, p) = RowsOf(chunks, p)
  BY <1>4, <1>5, <1>10 DEF RowsOf
<1> QED
  BY <1>4, <1>6, <1>7, <1>8, <1>9, <1>10

(* The replacement brings every path that it does not mark to the          *)
(* snapshot of the delta, whether or not the attempt counts as a success.  *)
LEMMA ReplaceIInv ==
  ASSUME IInv, NEW acked \in BOOLEAN, ReplaceRepoIndex(acked)
  PROVE  IInv'
<1> USE DEF IInv
<1>0. /\ JobFields /\ job.attempt \in 0 .. MaxAttempts /\ job.pc = "reading"
      /\ job.ups \subseteq Paths /\ AreDocs(job.docs) /\ DOMAIN job.docs = job.ups
      /\ UNCHANGED <<fs, edits, saved, search, had>> /\ chunks' = Merged
      /\ flawed' = (flawed \ Settled) \cup BlankKept \cup Raced
      /\ job.pc # "none"
  BY DEF Types, ReplaceRepoIndex, Unread
<1>1. /\ JobFields' /\ job'.docs = <<>> /\ job'.attempt \in 0 .. MaxAttempts
      /\ \/ job'.pc = "none" /\ job'.snap = 0 /\ job'.ups = {} /\ job'.dels = {}
         \/ /\ job'.pc = "queued" /\ job'.attempt < MaxAttempts /\ job'.snap = job.snap
            /\ job'.ups = job.ups /\ job'.dels = job.dels
  <2>1. \/ job' = NoJob
        \/ job.attempt < MaxAttempts /\ job' = [job EXCEPT !.pc = "queued", !.docs = <<>>]
    BY DEF ReplaceRepoIndex
  <2>2. CASE job' = NoJob
    BY <2>2, ChunkAssumption DEF NoJob, JobFields
  <2>3. CASE job.attempt < MaxAttempts /\ job' = [job EXCEPT !.pc = "queued", !.docs = <<>>]
    <3>1. job' = [pc |-> "queued", snap |-> job.snap, ups |-> job.ups, dels |-> job.dels,
                  docs |-> <<>>, attempt |-> job.attempt]
      BY <1>0, <2>3 DEF JobFields
    <3>2. /\ job'.pc = "queued" /\ job'.snap = job.snap /\ job'.ups = job.ups
          /\ job'.dels = job.dels /\ job'.docs = <<>> /\ job'.attempt = job.attempt
      BY <3>1
    <3>3. JobFields'
      BY <3>1, <3>2 DEF JobFields
    <3> QED
      BY <1>0, <2>3, <3>2, <3>3
  <2> QED
    BY <2>1, <2>2, <2>3
<1>2. flawed' \subseteq Paths
  <2>1. BlankKept \subseteq DOMAIN job.docs /\ Raced \subseteq DOMAIN job.docs
    BY DEF BlankKept, Raced
  <2> QED
    BY <1>0, <2>1 DEF Types
<1>3. Latest' = Latest /\ Latest \in Nat /\ \A n : Snapshot(n)' = Snapshot(n)
  BY <1>0, SnapshotTypes DEF Types, Latest, Snapshot
<1>4. Types'
  <2>1. job'.pc \in JobSteps /\ job'.snap \in 0 .. Latest' /\ (job'.pc = "queued" => job'.attempt < MaxAttempts)
    BY <1>1, <1>3 DEF Types, JobSteps
  <2>2. AreDocs(job'.docs) /\ DOMAIN job'.docs \subseteq job'.ups
    BY <1>1, NoDocs
  <2>3. job'.ups \subseteq Paths /\ job'.dels \subseteq Paths
    BY <1>1 DEF Types
  <2>4. SearchFields'
    BY <1>0 DEF Types, SearchFields
  <2> QED
    BY <1>0, <1>1, <1>2, <1>3, <2>1, <2>2, <2>3, <2>4 DEF Types
<1>5. HadContents'
  BY <1>0, <1>1, NoDocs DEF HadContents
<1>6. RowsStored'
  <2>1. WholeFiles'
    <3> SUFFICES ASSUME NEW p \in Paths, RowsOf(Merged, p) # {}
                 PROVE  \E c \in had[p] \ {Absent} : RowsOf(Merged, p) = FileRows(p, c)
      BY <1>0 DEF WholeFiles, RowsOf
    <3>1. CASE p \in Nonblank(job.docs)
      <4>1. RowsOf(Merged, p) = FileRows(p, job.docs[p])
        BY <1>0, <3>1, MergedRows
      <4>2. job.docs[p] \in had[p] /\ job.docs[p] # Absent
        BY <1>0, <3>1, ChunkAssumption DEF HadContents, Nonblank, AreDocs
      <4> QED
        BY <4>1, <4>2
    <3>2. CASE p \notin Nonblank(job.docs)
      <4>1. p \notin job.dels
        BY <1>0, MergedRows
      <4>2. RowsOf(Merged, p) = RowsOf(chunks, p)
        BY <1>0, <3>2, <4>1, MergedRows
      <4> QED
        BY <4>2 DEF RowsStored, WholeFiles
    <3> QED
      BY <3>1, <3>2
  <2> QED
    BY <1>0, <2>1, MergedRows DEF RowsStored
<1>7. \A p \in Paths \ flawed' : Snapshot(job.snap)[p] = Snapshot(Latest)[p]
  <2>1. CASE job.snap = Latest
    BY <2>1
  <2>2. CASE job.snap # Latest
    BY <1>0, <2>2 DEF JobDelta, Settled
  <2> QED
    BY <2>1, <2>2
<1>8. JobDelta'
  <2> SUFFICES ASSUME job'.pc # "none" PROVE JobDelta'
    BY DEF JobDelta
  <2>1. job'.snap = job.snap /\ job'.ups = job.ups /\ job'.dels = job.dels
    BY <1>1
  <2>2. job.snap # Latest => flawed' # {}
    BY <1>0 DEF JobDelta, Settled
  <2>3. /\ Snapshot(job.snap)' = Snapshot(job.snap)
        /\ Snapshot(job.snap - 1)' = Snapshot(job.snap - 1)
        /\ Snapshot(Latest)' = Snapshot(Latest)
    BY <1>0, <2>1 DEF Snapshot, Latest
  <2> QED
    BY <1>0, <1>3, <1>7, <2>1, <2>2, <2>3 DEF JobDelta
<1>9. ASSUME NEW p \in Paths \ flawed'
      PROVE  RowsOf(Merged, p) = Rebuilt(Snapshot(job.snap), p)
  <2>1. p \in Paths /\ p \notin BlankKept /\ p \notin Raced /\ (p \in flawed => p \in Settled)
    BY <1>0
  <2>2. CASE p \in job.ups
    <3>1. p \in DOMAIN job.docs /\ job.docs[p] = Snapshot(job.snap)[p] /\ job.docs[p] # Absent
      BY <1>0, <2>1, <2>2, ChunkAssumption DEF Raced, AreDocs
    <3>2. CASE job.docs[p] # <<>>
      <4>1. RowsOf(Merged, p) = FileRows(p, job.docs[p])
        BY <1>0, <3>1, <3>2, MergedRows DEF Nonblank
      <4> QED
        BY <3>1, <4>1 DEF Rebuilt
    <3>3. CASE job.docs[p] = <<>>
      <4>1. RowsOf(chunks, p) = {} /\ p \notin Nonblank(job.docs)
        BY <2>1, <3>1, <3>3 DEF BlankKept, Nonblank
      <4>2. RowsOf(Merged, p) = {}
        BY <1>0, <2>1, <4>1, MergedRows
      <4>3. FileRows(p, <<>>) = {}
        BY DEF FileRows
      <4> QED
        BY <3>1, <3>3, <4>2, <4>3 DEF Rebuilt
    <3> QED
      BY <3>2, <3>3
  <2>3. CASE p \in job.dels
    <3>1. RowsOf(Merged, p) = {}
      BY <1>0, <2>3, MergedRows
    <3>2. Snapshot(job.snap)[p] = Absent
      BY <1>0, <2>3, DeltaFacts DEF JobDelta
    <3> QED
      BY <3>1, <3>2 DEF Rebuilt
  <2>4. CASE p \notin job.ups /\ p \notin job.dels
    <3>1. RowsOf(Merged, p) = RowsOf(chunks, p)
      BY <1>0, <2>1, <2>4, MergedRows DEF Nonblank
    <3>2. p \notin flawed
      BY <2>1, <2>4 DEF Settled
    <3>3. PICK n \in Served : RebuiltAt(n)
      BY DEF ServedIsRebuilt
    <3>4. n = job.snap - 1 \/ n = job.snap
      BY <1>0, <3>3 DEF Served
    <3>5. Snapshot(job.snap - 1)[p] = Snapshot(job.snap)[p]
      BY <1>0, <2>1, <2>4, DeltaFacts DEF JobDelta
    <3>6. RowsOf(chunks, p) = Rebuilt(Snapshot(n), p)
      BY <2>1, <3>2, <3>3 DEF RebuiltAt
    <3> QED
      BY <3>1, <3>4, <3>5, <3>6 DEF Rebuilt
  <2> QED
    BY <2>2, <2>3, <2>4
<1>10. ServedIsRebuilt'
  <2>1. CASE job'.pc = "none"
    <3>1. Served' = {Latest'}
      BY <2>1 DEF Served
    <3>2. RebuiltAt(Latest)'
      <4>1. Snapshot(Latest)' = Snapshot(Latest)
        BY <1>0 DEF Snapshot, Latest
      <4> QED
        BY <1>0, <1>7, <1>9, <4>1 DEF RebuiltAt, RowsOf, Rebuilt
    <3> QED
      BY <3>1, <3>2 DEF ServedIsRebuilt, RebuiltAt
  <2>2. CASE job'.pc # "none"
    <3>1. job'.snap \in Served' /\ job'.snap = job.snap
      BY <1>1, <2>2 DEF Served
    <3>2. RebuiltAt(job.snap)'
      <4>1. Snapshot(job.snap)' = Snapshot(job.snap)
        BY <1>0, <3>1 DEF Snapshot
      <4> QED
        BY <1>0, <1>9, <4>1 DEF RebuiltAt, RowsOf
    <3> QED
      BY <3>1, <3>2 DEF ServedIsRebuilt, RebuiltAt
  <2> QED
    BY <2>1, <2>2
<1> QED
  BY <1>4, <1>5, <1>6, <1>8, <1>10

(* A search touches nothing but itself.                                    *)
LEMMA SearchStep ==
  ASSUME IInv, UNCHANGED <<fs, edits, saved, chunks, job, had, flawed>>,
         SearchFields', search'.pc \in {"idle", "not_ready", "ready", "done"},
         search'.pc # "idle" => search'.topK \in 1 .. MaxStoreTopK,
         search'.shown \in 0 .. Latest
  PROVE  IInv'
<1> USE DEF IInv
<1>1. Types'
  BY DEF Types, JobFields, Latest
<1>2. HadContents' /\ RowsStored'
  BY DEF HadContents, RowsStored, WholeFiles, RowsOf
<1>3. JobDelta' /\ ServedIsRebuilt'
  BY DEF JobDelta, ServedIsRebuilt, RebuiltAt, Served, Snapshot, Latest, RowsOf
<1> QED
  BY <1>1, <1>2, <1>3

(* The number of results asked for is within its bounds.                   *)
LEMMA TopKFacts ==
  ASSUME NEW k \in Int
  PROVE  NormalizeSemanticSearchTopK(k) \in 1 .. MaxStoreTopK
<1>1. DefaultTopK \in Int /\ MaxStoreTopK \in Int /\ 1 <= DefaultTopK /\ DefaultTopK <= MaxStoreTopK
  BY ChunkAssumption
<1>2. CASE k <= 0
  BY <1>1, <1>2 DEF NormalizeSemanticSearchTopK
<1>3. CASE k > MaxStoreTopK
  BY <1>1, <1>3 DEF NormalizeSemanticSearchTopK
<1>4. CASE ~(k <= 0) /\ ~(k > MaxStoreTopK)
  BY <1>1, <1>4 DEF NormalizeSemanticSearchTopK
<1> QED
  BY <1>2, <1>3, <1>4

(* The steps of a search keep the invariant.                               *)
LEMMA SearchIInv ==
  ASSUME IInv, (\E k \in TopKInputs : StartSearch(k)) \/ RunSearch \/ EndSearch
  PROVE  IInv'
<1>0. /\ SearchFields /\ Latest \in Nat /\ search.shown \in 0 .. Latest
      /\ search.pc # "idle" => search.topK \in 1 .. MaxStoreTopK
  BY SnapshotTypes DEF IInv, Types
<1>1. ASSUME NEW k \in TopKInputs, StartSearch(k) PROVE IInv'
  <2> DEFINE pc == IF Latest = 0 THEN "not_ready" ELSE "ready"
             K  == NormalizeSemanticSearchTopK(k)
  <2>1. search' = [pc |-> pc, topK |-> K, shown |-> Latest, results |-> <<>>]
    BY <1>1 DEF StartSearch, NoSearch
  <2>2. K \in 1 .. MaxStoreTopK
    BY TopKFacts, ChunkAssumption
  <2> HIDE DEF K
  <2>3. pc \in {"not_ready", "ready"}
    OBVIOUS
  <2> HIDE DEF pc
  <2>4. /\ search'.pc = pc /\ search'.topK = K /\ search'.shown = Latest
        /\ SearchFields'
    BY <2>1 DEF SearchFields
  <2>5. UNCHANGED <<fs, edits, saved, chunks, job, had, flawed>>
    BY <1>1 DEF StartSearch
  <2> QED
    BY <1>0, <2>2, <2>3, <2>4, <2>5, SearchStep
<1>2. CASE RunSearch
  <2> DEFINE results == QueryTopK(chunks, search.topK)
  <2>1. /\ search' = [search EXCEPT !.pc = "done", !.results = results] /\ search.pc = "ready"
        /\ UNCHANGED <<fs, edits, saved, chunks, job, had, flawed>>
    BY <1>2 DEF RunSearch
  <2> HIDE DEF results
  <2>2. search' = [pc |-> "done", topK |-> search.topK, shown |-> search.shown, results |-> results]
    BY <1>0, <2>1 DEF SearchFields
  <2>3. /\ search'.pc = "done" /\ search'.topK = search.topK /\ search'.shown = search.shown
        /\ SearchFields'
    BY <2>2 DEF SearchFields
  <2> QED
    BY <1>0, <2>1, <2>3, SearchStep
<1>3. CASE EndSearch
  <2>1. /\ search'.pc = "idle" /\ search'.shown = 0 /\ SearchFields'
        /\ UNCHANGED <<fs, edits, saved, chunks, job, had, flawed>>
    BY <1>3 DEF EndSearch, NoSearch, SearchFields
  <2> QED
    BY <1>0, <2>1, SearchStep
<1> QED
  BY <1>1, <1>2, <1>3

(* IInv holds in every reachable state.                                    *)
THEOREM Invariance == Spec => []IInv
<1>1. Init => IInv
  BY InitIInv
<1>2. IInv /\ [Next]_vars => IInv'
  <2> SUFFICES ASSUME IInv, [Next]_vars PROVE IInv'
    OBVIOUS
  <2>1. ASSUME NEW p \in Paths, NEW v \in Contents \cup {Absent}, Edit(p, v) PROVE IInv'
    BY <2>1, EditIInv
  <2>2. ASSUME NEW sent \in BOOLEAN, Scan(sent) PROVE IInv'
    BY <2>2, ScanIInv
  <2>3. CASE StartApply
    BY <2>3, StartIInv
  <2>4. CASE ReadRepoFile
    BY <2>4, ReadIInv
  <2>5. ASSUME NEW acked \in BOOLEAN, ReplaceRepoIndex(acked) PROVE IInv'
    BY <2>5, ReplaceIInv
  <2>6. CASE ApplyFails
    <3>1. job.pc = "reading" /\ FailApply /\ UNCHANGED <<fs, edits, saved, chunks, search, had>>
      BY <2>6 DEF ApplyFails
    <3> QED
      BY <3>1, FailIInv
  <2>7. CASE (\E k \in TopKInputs : StartSearch(k)) \/ RunSearch \/ EndSearch
    BY <2>7, SearchIInv
  <2>8. CASE UNCHANGED vars
    <3>1. /\ UNCHANGED <<fs, edits, saved, chunks, job, search, had, flawed>>
      BY <2>8 DEF vars
    <3> QED
      BY <3>1 DEF IInv, Types, JobFields, SearchFields, Latest, HadContents, RowsStored,
                  WholeFiles, RowsOf, JobDelta, ServedIsRebuilt, RebuiltAt, Served, Snapshot
  <2> QED
    BY <2>1, <2>2, <2>3, <2>4, <2>5, <2>6, <2>7, <2>8 DEF Next
<1> QED
  BY <1>1, <1>2, PTL DEF Spec

-----------------------------------------------------------------------------
(* The theorems.                                                           *)

(* Every variable has its type, for any number of files, contents, edits,  *)
(* snapshots and attempts.                                                 *)
THEOREM TypeCorrect == Spec => []TypeOK
<1>1. IInv => TypeOK
  <2> SUFFICES ASSUME IInv PROVE TypeOK
    OBVIOUS
  <2>1. Latest \in Nat /\ \A n \in 0 .. Latest : Snapshot(n) \in Trees
    BY SnapshotTypes DEF IInv, Types
  <2>2. \A n \in 1 .. Latest : saved[n] \in Trees
    BY <2>1 DEF Snapshot
  <2>3. \A r \in chunks : r.path \in Paths /\ r.index \in Nat
    BY RowFacts DEF IInv, Types
  <2> QED
    BY <2>1, <2>2, <2>3 DEF IInv, Types, TypeOK, Latest
<1> QED
  BY <1>1, Invariance, PTL

(* Whatever mix of reused and new vectors RefreshEmbeddingsForChangedChunks*)
(* puts into the rows, a row's vector is the one of its text.              *)
THEOREM VectorsMatchTextsTheorem == Spec => []VectorsMatchTexts
<1>1. IInv => VectorsMatchTexts
  BY RowFacts DEF IInv, Types, VectorsMatchTexts
<1> QED
  BY <1>1, Invariance, PTL

(* mergeChunkRecords never mixes versions of a file: its rows are those of *)
(* one content the file has had.                                           *)
THEOREM FilesAreWholeTheorem == Spec => []FilesAreWhole
<1>1. IInv => FilesAreWhole
  <2> SUFFICES ASSUME IInv, NEW p \in Paths, RowsOf(chunks, p) # {}
               PROVE  \E c \in had[p] \ {Absent} :
                        {<<r.index, r.text>> : r \in RowsOf(chunks, p)}
                          = {<<i - 1, c[i]>> : i \in DOMAIN c}
    BY DEF FilesAreWhole
  <2>1. PICK c \in had[p] \ {Absent} : RowsOf(chunks, p) = FileRows(p, c)
    BY DEF IInv, RowsStored, WholeFiles
  <2>2. {<<r.index, r.text>> : r \in FileRows(p, c)} = {<<i - 1, c[i]>> : i \in DOMAIN c}
    <3>1. ASSUME NEW r \in FileRows(p, c)
          PROVE  \E i \in DOMAIN c : <<r.index, r.text>> = <<i - 1, c[i]>>
      BY DEF FileRows
    <3>2. ASSUME NEW i \in DOMAIN c
          PROVE  \E r \in FileRows(p, c) : <<r.index, r.text>> = <<i - 1, c[i]>>
      <4> DEFINE x == [path |-> p, index |-> i - 1, text |-> c[i], vec |-> c[i]]
      <4>1. x \in FileRows(p, c) /\ x.index = i - 1 /\ x.text = c[i]
        BY DEF FileRows
      <4> QED
        BY <4>1
    <3> QED
      BY <3>1, <3>2
  <2> QED
    BY <2>1, <2>2
<1> QED
  BY <1>1, Invariance, PTL

(* Deltas applied one after the other, with retries and repeated commits,  *)
(* store what RunFullRebuild would, flawed paths aside.                    *)
THEOREM IndexIsRebuildTheorem == Spec => []IndexIsRebuild
<1>1. IInv => IndexIsRebuild
  <2> SUFFICES ASSUME IInv PROVE IndexIsRebuild
    OBVIOUS
  <2>1. PICK n \in Served : RebuiltAt(n)
    BY DEF IInv, ServedIsRebuilt
  <2>2. Snapshot(n) \in Trees
    <3>1. n \in 0 .. Latest
      BY SnapshotTypes DEF IInv, Types, Served, JobDelta
    <3> QED
      BY <3>1, SnapshotTypes DEF IInv, Types
  <2>3. \A p \in Paths \ flawed : RowsOf(chunks, p) = RowsOf(RunFullRebuild(Snapshot(n)), p)
    BY <2>1, <2>2, RebuildFacts DEF RebuiltAt
  <2> QED
    BY <2>3 DEF IndexIsRebuild
<1> QED
  BY <1>1, Invariance, PTL

(* mergeChunkRecords and BuildChunkDelta store the same chunks exactly     *)
(* when no upserted file with stored rows has become blank.                *)
THEOREM MergesAgreeTheorem == Spec => []MergesAgree
<1> DEFINE Strip(r) == [path |-> r.path, index |-> r.index, text |-> r.text]
<1>1. IInv => MergesAgree
  <2> SUFFICES ASSUME IInv, job.pc = "reading"
               PROVE  ({Strip(r) : r \in Merged} = BuildChunkDelta(chunks, job.docs, job.dels))
                        <=> BlankKept = {}
    BY DEF MergesAgree
  <2>1. AreDocs(job.docs) /\ DOMAIN job.docs \subseteq job.ups
    BY DEF IInv, Types
  <2>2. \A p \in DOMAIN job.docs : p \notin job.dels
    <3>1. job.pc # "none"
      OBVIOUS
    <3> QED
      BY <2>1, <3>1, DeltaFacts DEF IInv, JobDelta
  <2>3. Merged = {r \in chunks : r.path \notin job.dels \cup Nonblank(job.docs)}
                   \cup DocRows(job.docs)
    BY MergedRows
  <2>4. {Strip(r) : r \in DocRows(job.docs)} = RecordsIn(job.docs)
    <3>1. ASSUME NEW r \in RecordsIn(job.docs) PROVE Strip(Embedded(r, r.text)) = r
      <4>1. PICK p \in DOMAIN job.docs : \E i \in DOMAIN job.docs[p] :
                   r = RecordOf(p, i, job.docs[p][i])
        BY <2>1, RecordFacts
      <4>2. PICK i \in DOMAIN job.docs[p] : r = RecordOf(p, i, job.docs[p][i])
        BY <4>1
      <4> QED
        BY <4>2 DEF RecordOf, Embedded
    <3> HIDE DEF Strip
    <3> QED
      BY <3>1 DEF DocRows
  <2>5. BuildChunkDelta(chunks, job.docs, job.dels)
          = {Strip(r) : r \in {x \in chunks : x.path \notin job.dels \cup DOMAIN job.docs}}
              \cup RecordsIn(job.docs)
    <3>1. ToSet(BuildChunkRecords(job.docs)) = RecordsIn(job.docs)
      BY <2>1, BuildFacts
    <3> QED
      BY <3>1 DEF BuildChunkDelta
  <2>6. ASSUME BlankKept = {}
        PROVE  {Strip(r) : r \in Merged} = BuildChunkDelta(chunks, job.docs, job.dels)
    <3>1. \A r \in chunks : r.path \in DOMAIN job.docs => r.path \in Nonblank(job.docs)
      BY <2>6 DEF BlankKept, Nonblank, RowsOf
    <3>2. {r \in chunks : r.path \notin job.dels \cup Nonblank(job.docs)}
            = {x \in chunks : x.path \notin job.dels \cup DOMAIN job.docs}
      BY <3>1 DEF Nonblank
    <3> HIDE DEF Strip
    <3> QED
      BY <2>3, <2>4, <2>5, <3>2
  <2>7. ASSUME NEW p \in BlankKept
        PROVE  {Strip(r) : r \in Merged} # BuildChunkDelta(chunks, job.docs, job.dels)
    <3>1. p \in DOMAIN job.docs /\ p \notin Nonblank(job.docs) /\ RowsOf(chunks, p) # {}
      BY DEF BlankKept, Nonblank
    <3>2. PICK r \in chunks : r.path = p
      BY <3>1 DEF RowsOf
    <3>3. r \in Merged
      BY <2>2, <2>3, <3>1, <3>2
    <3>4. Strip(r).path = p
      BY <3>2
    <3>5. \A x \in RecordsIn(job.docs) : x.path # p
      <4>1. ASSUME NEW x \in RecordsIn(job.docs) PROVE x.path \in Nonblank(job.docs)
        <5>1. Embedded(x, x.text) \in DocRows(job.docs) /\ Embedded(x, x.text).path = x.path
          BY DEF DocRows, Embedded
        <5> QED
          BY <2>1, <5>1, DocRowFacts
      <4> QED
        BY <3>1, <4>1
    <3>6. \A x \in {y \in chunks : y.path \notin job.dels \cup DOMAIN job.docs} : Strip(x).path # p
      BY <3>1
    <3> HIDE DEF Strip
    <3> QED
      BY <2>5, <3>3, <3>4, <3>5, <3>6
  <2> QED
    BY <2>6, <2>7
<1> QED
  BY <1>1, Invariance, PTL

(* The search of a state: the rows by distance, as many as asked for.      *)
LEMMA AnswerFacts ==
  ASSUME IInv, [Next]_vars, Answers
  PROVE  LET s == Ordered(chunks, Closer)
             n == IF search.topK < Len(s) THEN search.topK ELSE Len(s)
         IN /\ s \in Seq(chunks) /\ Len(s) = Cardinality(chunks) /\ DOMAIN s = 1 .. Len(s)
            /\ ToSet(s) = chunks
            /\ \A i, j \in DOMAIN s : i < j => Closer(s[i], s[j])
            /\ search.topK \in Nat /\ Len(s) \in Nat /\ n \in 0 .. Len(s)
            /\ Len(Result) = n /\ DOMAIN Result = 1 .. n
            /\ \A i \in 1 .. n : Result[i] = s[i]
<1> DEFINE s == Ordered(chunks, Closer)
           n == IF search.topK < Len(s) THEN search.topK ELSE Len(s)
<1>1. RunSearch
  <2>1. search.pc = "ready" /\ search'.pc = "done"
    BY DEF Answers
  <2>2. search' # search
    BY <2>1
  <2>3. ~EndSearch /\ \A k \in TopKInputs : ~StartSearch(k)
    BY <2>1 DEF EndSearch, NoSearch, StartSearch
  <2>4. ~ReadRepoFile /\ ~ApplyFails /\ ~StartApply
    BY <2>2 DEF ReadRepoFile, ApplyFails, StartApply
  <2>5. \A sent \in BOOLEAN : ~Scan(sent) /\ ~ReplaceRepoIndex(sent)
    BY <2>2 DEF Scan, ReplaceRepoIndex
  <2>6. \A p \in Paths, v \in Contents \cup {Absent} : ~Edit(p, v)
    BY <2>2 DEF Edit
  <2>7. ~UNCHANGED vars
    BY <2>2 DEF vars
  <2> QED
    BY <2>3, <2>4, <2>5, <2>6, <2>7 DEF Next
<1>2. SearchFields /\ search.topK \in 1 .. MaxStoreTopK /\ search.pc = "ready"
  BY DEF IInv, Types, Answers
<1>3. search.topK \in Nat
  BY <1>2
<1>4. Result = QueryTopK(chunks, search.topK)
  <2> DEFINE results == QueryTopK(chunks, search.topK)
  <2>1. search' = [search EXCEPT !.pc = "done", !.results = results]
    BY <1>1 DEF RunSearch
  <2> HIDE DEF results
  <2>2. search' = [pc |-> "done", topK |-> search.topK, shown |-> search.shown, results |-> results]
    BY <1>2, <2>1 DEF SearchFields
  <2>3. search'.results = results
    BY <2>2
  <2> QED
    BY <2>3 DEF Result, results
<1>5. /\ \A r \in chunks : r.path \in Int /\ r.index \in Int /\ r.vec \in Int
      /\ \A a, b \in chunks : SameKey(a, b) => a = b
      /\ IsFiniteSet(chunks)
  BY RowFacts DEF IInv, Types, RowsStored
<1>6. /\ s \in Seq(chunks) /\ Len(s) = Cardinality(chunks) /\ DOMAIN s = 1 .. Len(s)
      /\ ToSet(s) = chunks
      /\ \A i, j \in DOMAIN s : i < j => Closer(s[i], s[j])
  BY <1>5, RowsOrdered
<1>7. Result = SubSeq(s, 1, n)
  BY <1>4 DEF QueryTopK
<1> HIDE DEF s
<1>8. Len(s) \in Nat
  BY <1>6, LenProperties
<1>9. n \in 0 .. Len(s) /\ n \in Nat
  BY <1>3, <1>8
<1> HIDE DEF n
<1>10. Len(Result) = n /\ \A i \in 1 .. n : Result[i] = s[i]
  BY <1>6, <1>7, <1>8, <1>9, SubSeqProperties
<1>11. DOMAIN Result = 1 .. n
  <2>1. Result \in Seq(chunks)
    BY <1>6, <1>7, <1>8, <1>9, SubSeqProperties
  <2> QED
    BY <1>10, <2>1, LenProperties
<1> QED
  BY <1>3, <1>6, <1>8, <1>9, <1>10, <1>11 DEF s, n

(* QueryTopK's answer is the closest chunks by their texts, best first,    *)
(* and as many as asked for or stored.                                     *)
THEOREM AnswerIsBestTheorem == Spec => AnswerIsBest
<1> DEFINE Best ==
      /\ Len(Result) = IF Cardinality(chunks) < search.topK THEN Cardinality(chunks)
                       ELSE search.topK
      /\ \A i, j \in DOMAIN Result : i < j => Result[i].text <= Result[j].text
      /\ \A r \in chunks \ ToSet(Result) : \A i \in DOMAIN Result : Result[i].text <= r.text
<1>1. IInv /\ [Next]_vars => [Answers => Best]_vars
  <2> SUFFICES ASSUME IInv, [Next]_vars, Answers PROVE Best
    OBVIOUS
  <2> DEFINE s == Ordered(chunks, Closer)
             n == IF search.topK < Len(s) THEN search.topK ELSE Len(s)
  <2>1. /\ s \in Seq(chunks) /\ Len(s) = Cardinality(chunks) /\ DOMAIN s = 1 .. Len(s)
        /\ ToSet(s) = chunks
        /\ \A i, j \in DOMAIN s : i < j => Closer(s[i], s[j])
        /\ search.topK \in Nat /\ Len(s) \in Nat /\ n \in 0 .. Len(s)
        /\ Len(Result) = n /\ DOMAIN Result = 1 .. n
        /\ \A i \in 1 .. n : Result[i] = s[i]
    BY AnswerFacts
  <2> HIDE DEF s
  <2>2. \A r \in chunks : r.vec = r.text /\ r.text \in Nat
    BY RowFacts DEF IInv, Types
  <2>3. \A i \in 1 .. Len(s) : s[i] \in chunks
    BY <2>1 DEF ToSet
  <2>4. ASSUME NEW i \in 1 .. Len(s), NEW j \in 1 .. Len(s), i < j
        PROVE  s[i].text <= s[j].text
    <3>1. Closer(s[i], s[j])
      BY <2>1, <2>4
    <3>2. /\ s[i].vec = s[i].text /\ s[i].text \in Nat
          /\ s[j].vec = s[j].text /\ s[j].text \in Nat
      BY <2>2, <2>3
    <3> QED
      BY <3>1, <3>2 DEF Closer
  <2>5. Len(Result) = IF Cardinality(chunks) < search.topK THEN Cardinality(chunks) ELSE search.topK
    BY <2>1
  <2> HIDE DEF n
  <2>6. \A i \in DOMAIN Result : i \in 1 .. Len(s) /\ i \in 1 .. n /\ Result[i] = s[i]
    BY <2>1
  <2>7. \A i, j \in DOMAIN Result : i < j => Result[i].text <= Result[j].text
    BY <2>4, <2>6
  <2>8. ASSUME NEW r \in chunks \ ToSet(Result), NEW i \in DOMAIN Result
        PROVE  Result[i].text <= r.text
    <3>1. PICK j \in 1 .. Len(s) : s[j] = r
      BY <2>1 DEF ToSet
    <3>2. j \notin 1 .. n
      <4> SUFFICES ASSUME j \in 1 .. n PROVE FALSE
        OBVIOUS
      <4>1. Result[j] = r /\ j \in DOMAIN Result
        BY <2>1, <3>1
      <4> QED
        BY <4>1 DEF ToSet
    <3>3. i < j /\ i \in 1 .. Len(s)
      BY <2>1, <2>6, <3>2
    <3> QED
      BY <2>4, <2>6, <3>1, <3>3
  <2> QED
    BY <2>5, <2>7, <2>8
<1> QED
  BY <1>1, Invariance, PTL DEF Spec, AnswerIsBest

(* The readiness of an answer comes from a snapshot whose delta may still  *)
(* be under way; the answer is from one snapshot all the same, flawed      *)
(* paths aside, and at most one behind when no delta went wrong.           *)
THEOREM ReadyAnswerIsRecentTheorem == Spec => ReadyAnswerIsRecent
<1> DEFINE Recent ==
      \E n \in 0 .. Latest :
        /\ \A i \in DOMAIN Result : Result[i].path \notin flawed => IsFrom(Result[i], n)
        /\ flawed = {} => n >= search.shown - 1
<1>1. IInv /\ [Next]_vars => [Answers => Recent]_vars
  <2> SUFFICES ASSUME IInv, [Next]_vars, Answers PROVE Recent
    OBVIOUS
  <2>1. \A i \in DOMAIN Result : Result[i] \in chunks
    <3> DEFINE s == Ordered(chunks, Closer)
               n == IF search.topK < Len(s) THEN search.topK ELSE Len(s)
    <3>1. /\ DOMAIN s = 1 .. Len(s) /\ ToSet(s) = chunks
          /\ Len(s) \in Nat /\ n \in 0 .. Len(s)
          /\ DOMAIN Result = 1 .. n /\ \A i \in 1 .. n : Result[i] = s[i]
      BY AnswerFacts
    <3> HIDE DEF s, n
    <3> QED
      BY <3>1 DEF ToSet
  <2>2. PICK n \in Served : RebuiltAt(n)
    BY DEF IInv, ServedIsRebuilt
  <2>3. Latest \in Nat /\ job.snap \in 0 .. Latest /\ search.shown \in 0 .. Latest
    BY SnapshotTypes DEF IInv, Types
  <2>4. n \in 0 .. Latest /\ (flawed = {} => n >= search.shown - 1)
    <3>1. CASE job.pc = "none"
      BY <2>3, <3>1 DEF Served
    <3>2. CASE job.pc # "none"
      BY <2>3, <3>2 DEF Served, IInv, JobDelta
    <3> QED
      BY <3>1, <3>2
  <2>5. ASSUME NEW r \in chunks, r.path \notin flawed PROVE IsFrom(r, n)
    <3>1. r.path \in Paths /\ r \in RowsOf(chunks, r.path)
      BY DEF IInv, RowsStored, RowsOf
    <3>2. r \in Rebuilt(Snapshot(n), r.path)
      BY <2>2, <2>5, <3>1 DEF RebuiltAt
    <3> DEFINE c == Snapshot(n)[r.path]
    <3>3. c # Absent /\ r \in FileRows(r.path, c)
      BY <3>2 DEF Rebuilt
    <3>4. c \in Contents
      BY <2>4, <3>1, <3>3, SnapshotTypes DEF IInv, Types, Trees
    <3> HIDE DEF c
    <3>5. PICK i \in DOMAIN c : r = [path |-> r.path, index |-> i - 1, text |-> c[i], vec |-> c[i]]
      BY <3>3 DEF FileRows
    <3>6. r.index = i - 1 /\ r.text = c[i]
      BY <3>5
    <3>7. i \in Nat
      BY <3>4, ContentTypes
    <3>8. r.index + 1 = i
      BY <3>6, <3>7
    <3>9. c # Absent /\ r.index + 1 \in DOMAIN c /\ r.text = c[r.index + 1]
      BY <3>3, <3>6, <3>8
    <3> QED
      BY <3>9 DEF IsFrom, c
  <2> QED
    BY <2>1, <2>4, <2>5
<1> QED
  BY <1>1, Invariance, PTL DEF Spec, ReadyAnswerIsRecent

=============================================================================
