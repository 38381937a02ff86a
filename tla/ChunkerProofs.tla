---------------------------- MODULE ChunkerProofs ----------------------------
(***************************************************************************)
(* For every document and every policy: the cursors of the chunker stay    *)
(* within the document, every cut makes progress, no line that is not      *)
(* blank is left out of the chunks, and no chunk exceeds the limits.       *)
(***************************************************************************)
EXTENDS Chunker, WellFoundedInduction, TLAPS

\* The chunker is never asked to cut an empty span or to take a line past the
\* end: the guard "end == start" of the code is never needed.
Cursors ==
  /\ pc = "take" => end < Len(lines)
  /\ pc = "cut" => start < end

\* What is before the current chunk is in a chunk or blank, and at the end
\* everything is.
Covered(n) == \A k \in 1 .. n : lines[k].blank \/ InChunk(k)

CoveredSoFar ==
  /\ Covered(start)
  /\ pc = "done" => Covered(Len(lines))

IInv == TypeOK /\ Cursors /\ CoveredSoFar

-----------------------------------------------------------------------------
\* withDefaults makes any policy usable: both limits are positive and the
\* overlap is shorter than the longest chunk.
LEMMA WithDefaultsUsable ==
  ASSUME NEW p \in Policies
  PROVE  LET q == WithDefaults(p) IN
         /\ q \in Policy
         /\ q.maxLines > 0 /\ q.maxChars > 0
         /\ q.overlapLines \in 0 .. q.maxLines - 1
<1>1. p.maxChars \in Int /\ p.maxLines \in Int /\ p.overlapLines \in Int
  BY ChunkerAssumption DEF Policy
<1>2. DefaultMaxChars \in Nat \ {0} /\ DefaultMaxLines \in Nat \ {0}
  BY ChunkerAssumption
<1> QED
  BY <1>1, <1>2 DEF WithDefaults, Policy

\* The next chunk starts after the start of this one and not after its end.
LEMMA NextStartAdvances ==
  ASSUME TypeOK, NEW e \in Nat, start < e
  PROVE  NextStart(e) \in Nat /\ start < NextStart(e) /\ NextStart(e) <= e
BY DEF TypeOK, NextStart, Policy

\* A cut adds the lines of its span to what is covered.
LEMMA CutCovers ==
  ASSUME TypeOK, Covered(start), NEW e \in Nat, start < e, e <= Len(lines),
         lines' = lines,
         chunks' = IF BlankSpan(start, e) THEN chunks
                   ELSE Append(chunks, [from |-> start, to |-> e])
  PROVE  /\ \A k \in 1 .. e : lines'[k].blank \/ InChunk(k)'
         /\ chunks' \in Seq(Chunk)
<1> USE DEF Covered, InChunk
<1>1. start \in Nat /\ chunks \in Seq(Chunk)
  BY DEF TypeOK
<1>2. CASE BlankSpan(start, e)
  <2>1. chunks' = chunks
    BY <1>2
  <2>2. \A k \in 1 .. e : k \in 1 .. start \/ lines[k].blank
    BY <1>1, <1>2 DEF BlankSpan
  <2> QED
    BY <1>1, <2>1, <2>2
<1>3. CASE ~BlankSpan(start, e)
  <2> DEFINE c == [from |-> start, to |-> e]
  <2>1. chunks' = Append(chunks, c)
    BY <1>3
  <2>2. c \in Chunk
    BY <1>1 DEF Chunk
  <2> HIDE DEF c
  <2>3. /\ chunks' \in Seq(Chunk)
        /\ Len(chunks') = Len(chunks) + 1
        /\ \A i \in DOMAIN chunks : i \in DOMAIN chunks' /\ chunks'[i] = chunks[i]
        /\ Len(chunks) + 1 \in DOMAIN chunks' /\ chunks'[Len(chunks) + 1] = c
    BY <1>1, <2>1, <2>2
  <2>4. ASSUME NEW k \in 1 .. e
        PROVE  lines'[k].blank \/ InChunk(k)'
    <3>1. CASE k <= start
      <4>1. lines[k].blank \/ \E i \in DOMAIN chunks : chunks[i].from < k /\ k <= chunks[i].to
        BY <1>1, <3>1
      <4> QED
        BY <2>3, <4>1
    <3>2. CASE start < k
      <4>1. c.from < k /\ k <= c.to
        BY <3>2 DEF c
      <4> QED
        BY <2>3, <4>1
    <3> QED
      BY <1>1, <3>1, <3>2
  <2> QED
    BY <2>3, <2>4
<1> QED
  BY <1>2, <1>3

-----------------------------------------------------------------------------
LEMMA InitEstablishes == Init => IInv
<1> SUFFICES ASSUME Init PROVE IInv
  OBVIOUS
<1>1. lines \in Seq(Line) /\ Len(lines) \in Nat
  BY ChunkerAssumption DEF Init
<1>2. PICK p \in Policies : policy = WithDefaults(p)
  BY DEF Init
<1>3. TypeOK
  BY <1>1, <1>2, WithDefaultsUsable DEF Init, TypeOK
<1>4. Cursors
  BY <1>1 DEF Init, Cursors, BlankSpan
<1>5. CoveredSoFar
  BY <1>1 DEF Init, CoveredSoFar, Covered, BlankSpan
<1> QED
  BY <1>3, <1>4, <1>5 DEF IInv

LEMMA TakeLinePreserves == IInv /\ TakeLine => IInv'
<1> SUFFICES ASSUME IInv, TakeLine PROVE IInv'
  OBVIOUS
<1> USE DEF IInv
<1>1. /\ pc = "take" /\ end < Len(lines)
      /\ lines' = lines /\ policy' = policy /\ start' = start /\ chunks' = chunks
  BY DEF TakeLine
<1>2. /\ start \in Nat /\ end \in Nat /\ Len(lines) \in Nat /\ start <= end
      /\ lines[end + 1].len \in Nat
  <2>1. end + 1 \in 1 .. Len(lines) /\ lines \in Seq(Line) /\ start \in Nat /\ end \in start .. Len(lines)
    BY <1>1 DEF TypeOK
  <2>2. lines[end + 1] \in Line
    BY <2>1
  <2> QED
    BY <2>1, <2>2 DEF Line
<1>3. /\ end' \in start .. Len(lines) /\ chars' \in Nat
      /\ pc' \in {"take", "cut"}
      /\ pc' = "take" => end' < Len(lines)
      /\ pc' = "cut" => start < end'
  <2>1. CASE Overflows(chars + lines[end + 1].len, end - start + 1)
    <3>1. pc' = "cut" /\ end' = end /\ chars' = chars
      BY <2>1 DEF TakeLine
    <3>2. start < end
      BY <2>1, <1>2 DEF Overflows
    <3> QED
      BY <1>1, <1>2, <3>1, <3>2 DEF TypeOK
  <2>2. CASE ~Overflows(chars + lines[end + 1].len, end - start + 1)
    <3>1. /\ end' = end + 1 /\ chars' = chars + lines[end + 1].len
          /\ pc' \in {"take", "cut"}
          /\ end + 1 = Len(lines) => pc' = "cut"
      BY <2>2 DEF TakeLine
    <3> QED
      BY <1>1, <1>2, <3>1 DEF TypeOK
  <2> QED
    BY <2>1, <2>2
<1>4. TypeOK'
  BY <1>1, <1>2, <1>3 DEF TypeOK
<1>5. Cursors'
  BY <1>1, <1>3 DEF Cursors
<1>6. CoveredSoFar'
  BY <1>1, <1>3 DEF CoveredSoFar, Covered, InChunk
<1> QED
  BY <1>4, <1>5, <1>6

LEMMA CutChunkPreserves == IInv /\ CutChunk => IInv'
<1> SUFFICES ASSUME IInv, CutChunk PROVE IInv'
  OBVIOUS
<1> USE DEF IInv
<1>1. /\ pc = "cut" /\ lines' = lines /\ policy' = policy
      /\ start \in Nat /\ end \in Nat /\ Len(lines) \in Nat
      /\ start < end /\ end <= Len(lines)
  BY DEF CutChunk, TypeOK, Cursors
<1>2. /\ chunks' = IF BlankSpan(start, end) THEN chunks
                   ELSE Append(chunks, [from |-> start, to |-> end])
      /\ IF AtEnd(end)
         THEN pc' = "done" /\ start' = start /\ end' = end /\ chars' = chars
         ELSE /\ pc' = IF NextStart(end) < Len(lines) THEN "take" ELSE "done"
              /\ start' = NextStart(end) /\ end' = NextStart(end) /\ chars' = 0
  <2>1. (IF end = start THEN start + 1 ELSE end) = end
    BY <1>1
  <2> QED
    BY <2>1 DEF CutChunk
<1>3. /\ \A k \in 1 .. end : lines'[k].blank \/ InChunk(k)'
      /\ chunks' \in Seq(Chunk)
  <2>1. Covered(start)
    BY DEF CoveredSoFar
  <2> QED
    BY <1>1, <1>2, <2>1, CutCovers
<1>4. \A n \in Nat : n <= end => \A k \in 1 .. n : lines'[k].blank \/ InChunk(k)'
  BY <1>1, <1>3
<1>5. CASE AtEnd(end)
  <2>1. pc' = "done" /\ start' = start /\ end' = end /\ chars' = chars /\ end = Len(lines)
    <3>1. end <= Len(lines) /\ end >= Len(lines)
      BY <1>1, <1>5 DEF AtEnd
    <3>2. \A a, b \in Nat : a <= b /\ a >= b => a = b
      OBVIOUS
    <3>3. end = Len(lines)
      BY <1>1, <3>1, <3>2, Zenon
    <3> QED
      BY <1>2, <1>5, <3>3
  <2>2. TypeOK'
    BY <1>1, <1>3, <2>1 DEF TypeOK
  <2>3. Cursors'
    BY <2>1 DEF Cursors
  <2>4. CoveredSoFar'
    BY <1>1, <1>4, <2>1 DEF CoveredSoFar, Covered
  <2> QED
    BY <2>2, <2>3, <2>4
<1>6. CASE ~AtEnd(end)
  <2>1. NextStart(end) \in Nat /\ start < NextStart(end) /\ NextStart(end) <= end
    BY <1>1, NextStartAdvances
  <2>2. /\ pc' = "take" /\ start' = NextStart(end) /\ end' = NextStart(end) /\ chars' = 0
        /\ end < Len(lines)
    <3>1. end < Len(lines)
      BY <1>1, <1>6 DEF AtEnd
    <3>2. NextStart(end) < Len(lines)
      BY <1>1, <2>1, <3>1
    <3> QED
      BY <1>2, <1>6, <3>1, <3>2
  <2>3. TypeOK'
    BY <1>1, <1>3, <2>1, <2>2 DEF TypeOK
  <2>4. Cursors'
    BY <1>1, <2>1, <2>2 DEF Cursors
  <2>5. CoveredSoFar'
    BY <1>1, <1>4, <2>1, <2>2 DEF CoveredSoFar, Covered
  <2> QED
    BY <2>3, <2>4, <2>5
<1> QED
  BY <1>5, <1>6

\* The inductive invariant: what is behind the cursor is covered, and the
\* cursor is where the code needs it.
THEOREM Invariance == Spec => []IInv
<1>1. Init => IInv
  BY InitEstablishes
<1>2. IInv /\ [Next]_vars => IInv'
  <2> SUFFICES ASSUME IInv, [Next]_vars PROVE IInv'
    OBVIOUS
  <2>1. CASE TakeLine
    BY <2>1, TakeLinePreserves
  <2>2. CASE CutChunk
    BY <2>2, CutChunkPreserves
  <2>3. CASE UNCHANGED vars
    BY <2>3 DEF vars, IInv, TypeOK, Cursors, CoveredSoFar, Covered, InChunk
  <2> QED
    BY <2>1, <2>2, <2>3 DEF Next
<1> QED
  BY <1>1, <1>2, PTL DEF Spec

\* The variables of ChunkDocumentWithPolicy have their types, its cursors stay
\* within the document.
THEOREM TypeCorrect == Spec => []TypeOK
<1>1. IInv => TypeOK
  BY DEF IInv
<1> QED
  BY <1>1, Invariance, PTL

\* ChunkDocumentWithPolicy loses no line that is not blank.
THEOREM CoverageTheorem == Spec => []Coverage
<1>1. IInv => Coverage
  BY DEF IInv, CoveredSoFar, Covered, Coverage
<1> QED
  BY <1>1, Invariance, PTL

\* Every pass of the outer loop of ChunkDocumentWithPolicy moves the start of
\* the chunk forward and leaves no gap.
THEOREM CutAdvancesTheorem == Spec => CutAdvances
<1>1. IInv /\ [Next]_vars => [pc = "cut" /\ pc' = "take" => start < start' /\ start' <= end]_vars
  <2> SUFFICES ASSUME IInv, Next, pc = "cut", pc' = "take"
               PROVE  start < start' /\ start' <= end
    BY DEF vars
  <2>1. CutChunk
    BY DEF Next, TakeLine
  <2>2. start \in Nat /\ end \in Nat /\ start < end
    BY DEF IInv, TypeOK, Cursors
  <2>3. (IF end = start THEN start + 1 ELSE end) = end
    BY <2>2
  <2>4. start' = NextStart(end)
    BY <2>1, <2>3 DEF CutChunk
  <2> QED
    BY <2>2, <2>4, NextStartAdvances DEF IInv
<1> QED
  BY <1>1, Invariance, PTL DEF Spec, CutAdvances

-----------------------------------------------------------------------------
(* The limits.                                                             *)

\* f holds the partial sums of the lengths of ls up to line m.
Sums(f, ls, m) == \A n \in 0 .. m : f[n] = IF n = 0 THEN 0 ELSE f[n - 1] + ls[n].len

\* There are partial sums up to any line: no line is the first without.
LEMMA SumsExist ==
  ASSUME NEW N \in Nat, NEW ls, \A n \in 1 .. N : ls[n].len \in Nat
  PROVE  \E f \in [0 .. N -> Nat] : Sums(f, ls, N)
<1> DEFINE Bad == {k \in 0 .. N : ~\E f \in [0 .. k -> Nat] : Sums(f, ls, k)}
<1>0. Bad \subseteq Nat
  OBVIOUS
<1>1. ASSUME Bad # {} PROVE FALSE
  <2>1. PICK k \in Bad : \A y \in Bad : ~(<<y, k>> \in OpToRel(<, Nat))
    BY <1>0, <1>1, NatLessThanWellFounded, WFMin
  <2>2. k \in 0 .. N /\ \A y \in Bad : ~(y < k)
    BY <1>0, <2>1 DEF OpToRel
  <2>3. CASE k = 0
    <3>1. [n \in 0 .. 0 |-> 0] \in [0 .. k -> Nat] /\ Sums([n \in 0 .. 0 |-> 0], ls, k)
      BY <2>3 DEF Sums
    <3> QED
      BY <2>1, <3>1
  <2>4. CASE k # 0
    <3>1. k - 1 \in 0 .. N /\ k - 1 < k /\ k \in 1 .. N
      BY <2>2, <2>4
    <3>2. k - 1 \notin Bad
      BY <2>2, <3>1
    <3>3. PICK f \in [0 .. k - 1 -> Nat] : Sums(f, ls, k - 1)
      BY <3>1, <3>2
    <3>4. ls[k].len \in Nat
      BY <3>1
    <3> DEFINE g == [n \in 0 .. k |-> IF n = k THEN f[k - 1] + ls[k].len ELSE f[n]]
    <3>5. g \in [0 .. k -> Nat]
      BY <3>1, <3>3, <3>4
    <3>6. ASSUME NEW n \in 0 .. k PROVE g[n] = IF n = 0 THEN 0 ELSE g[n - 1] + ls[n].len
      <4>1. CASE n = k
        BY <2>4, <3>1, <4>1
      <4>2. CASE n # k
        <5>1. n \in 0 .. k - 1 /\ (n # 0 => n - 1 \in 0 .. k /\ n - 1 # k)
          BY <3>1, <4>2
        <5> QED
          BY <3>3, <5>1 DEF Sums
      <4> QED
        BY <4>1, <4>2
    <3>7. Sums(g, ls, k)
      BY <3>6 DEF Sums
    <3> QED
      BY <2>1, <3>5, <3>7
  <2> QED
    BY <2>3, <2>4
<1>2. N \notin Bad
  BY <1>1
<1> QED
  BY <1>2

\* The recursive function that Chars is written with.
SumOf(ls, N) ==
  CHOOSE f : f = [n \in 0 .. N |-> IF n = 0 THEN 0 ELSE f[n - 1] + ls[n].len]

\* It holds the partial sums.
LEMMA SumOfFacts ==
  ASSUME NEW N \in Nat, NEW ls, \A n \in 1 .. N : ls[n].len \in Nat
  PROVE  /\ \A n \in 0 .. N - 1 : SumOf(ls, N)[n + 1] = SumOf(ls, N)[n] + ls[n + 1].len
         /\ \A n \in 0 .. N : SumOf(ls, N)[n] \in Nat
<1> DEFINE F(f) == [n \in 0 .. N |-> IF n = 0 THEN 0 ELSE f[n - 1] + ls[n].len]
           s == SumOf(ls, N)
<1>1. \E f : f = F(f)
  <2>1. PICK f \in [0 .. N -> Nat] : Sums(f, ls, N)
    BY SumsExist
  <2>2. f = F(f)
    BY <2>1 DEF Sums
  <2> QED
    BY <2>2
<1>2. s = F(s)
  BY <1>1 DEF SumOf
<1>3. ASSUME NEW n \in 0 .. N PROVE s[n] = IF n = 0 THEN 0 ELSE s[n - 1] + ls[n].len
  <2> HIDE DEF s
  <2> QED
    BY <1>2
<1>4. \A n \in 0 .. N - 1 : s[n + 1] = s[n] + ls[n + 1].len
  BY <1>3
<1>5. \A n \in 0 .. N : s[n] \in Nat
  <2> HIDE DEF s
  <2> DEFINE Bad == {n \in 0 .. N : s[n] \notin Nat}
  <2>0. Bad \subseteq Nat
    OBVIOUS
  <2> SUFFICES ASSUME Bad # {} PROVE FALSE
    OBVIOUS
  <2>1. PICK k \in Bad : \A y \in Bad : ~(<<y, k>> \in OpToRel(<, Nat))
    BY <2>0, NatLessThanWellFounded, WFMin
  <2>2. k \in 0 .. N /\ \A y \in Bad : ~(y < k)
    BY <2>0, <2>1 DEF OpToRel
  <2>3. k # 0
    <3>1. s[0] = 0
      BY <1>3
    <3>2. s[k] \notin Nat
      BY <2>1
    <3> QED
      BY <3>1, <3>2
  <2>4. k - 1 \in 0 .. N /\ k - 1 < k /\ k \in 1 .. N
    BY <2>2, <2>3
  <2>5. s[k - 1] \in Nat
    BY <2>2, <2>4
  <2>6. s[k] \in Nat
    BY <1>3, <2>3, <2>4, <2>5
  <2> QED
    BY <2>1, <2>6
<1> QED
  BY <1>4, <1>5

\* The characters of a span: none of an empty one, and a line more adds its own.
LEMMA CharsFacts ==
  ASSUME lines \in Seq(Line)
  PROVE  /\ \A a \in 0 .. Len(lines) : Chars(a, a) = 0
         /\ \A a \in 0 .. Len(lines), b \in 0 .. Len(lines) - 1 :
              Chars(a, b + 1) = Chars(a, b) + lines[b + 1].len
<1>1. Len(lines) \in Nat /\ \A n \in 1 .. Len(lines) : lines[n].len \in Nat
  <2>1. \A n \in 1 .. Len(lines) : lines[n] \in Line
    OBVIOUS
  <2> QED
    BY <2>1 DEF Line
<1>2. PICK N \in Nat : N = Len(lines)
  BY <1>1
<1>3. \A a, b : Chars(a, b) = SumOf(lines, N)[b] - SumOf(lines, N)[a]
  BY <1>2, Zenon DEF Chars, SumOf
<1>4. \A n \in 1 .. N : lines[n].len \in Nat
  BY <1>1, <1>2
<1>5. /\ \A n \in 0 .. N - 1 :
           SumOf(lines, N)[n + 1] = SumOf(lines, N)[n] + lines[n + 1].len
      /\ \A n \in 0 .. N : SumOf(lines, N)[n] \in Nat
  BY <1>4, SumOfFacts
<1>6. \A a \in 0 .. N : Chars(a, a) = 0
  BY <1>3, <1>5
<1>7. ASSUME NEW a \in 0 .. N, NEW b \in 0 .. N - 1
      PROVE  Chars(a, b + 1) = Chars(a, b) + lines[b + 1].len
  <2>1. /\ Chars(a, b + 1) = SumOf(lines, N)[b + 1] - SumOf(lines, N)[a]
        /\ Chars(a, b) = SumOf(lines, N)[b] - SumOf(lines, N)[a]
    BY <1>3
  <2>2. SumOf(lines, N)[a] \in Nat /\ SumOf(lines, N)[b] \in Nat
    BY <1>5
  <2>3. SumOf(lines, N)[b + 1] = SumOf(lines, N)[b] + lines[b + 1].len
    BY <1>5
  <2>4. lines[b + 1].len \in Nat
    BY <1>4
  <2> QED
    BY <2>1, <2>2, <2>3, <2>4
<1> QED
  BY <1>2, <1>6, <1>7

\* charCount is the size of the current chunk, which respects the limits as
\* the finished chunks do.
Limits ==
  /\ chars = Chars(start, end)
  /\ end - start <= policy.maxLines
  /\ chars <= policy.maxChars \/ end <= start + 1

SizeInv == IInv /\ Limits /\ SizeBound

\* The size of a span depends on the document alone.
LEMMA CharsKept == ASSUME lines' = lines PROVE \A a, b : Chars(a, b)' = Chars(a, b)
BY Zenon DEF Chars

\* Taking a line keeps the limits: the first line is at most one line, and a
\* further one is taken only if it fits.
LEMMA TakeLineLimits == SizeInv /\ TakeLine => Limits'
<1> SUFFICES ASSUME SizeInv, TakeLine PROVE Limits'
  OBVIOUS
<1> DEFINE size  == chars + lines[end + 1].len
           count == end - start + 1
<1>1. /\ pc = "take" /\ end < Len(lines)
      /\ lines' = lines /\ policy' = policy /\ start' = start
  BY DEF TakeLine
<1>2. /\ start \in Nat /\ end \in Nat /\ Len(lines) \in Nat /\ start <= end
      /\ chars \in Nat /\ policy.maxLines \in Int /\ policy.maxLines > 0
      /\ policy.maxChars \in Int
      /\ lines \in Seq(Line)
  BY DEF SizeInv, IInv, TypeOK, Policy
<1>3. lines[end + 1].len \in Nat
  <2>1. end + 1 \in 1 .. Len(lines)
    BY <1>1, <1>2
  <2>2. lines[end + 1] \in Line
    BY <1>2, <2>1
  <2> QED
    BY <2>2 DEF Line
<1>4. CASE Overflows(size, count)
  <2>1. end' = end /\ chars' = chars
    BY <1>4 DEF TakeLine
  <2>2. Chars(start, end)' = Chars(start', end')
    BY <1>1, CharsKept
  <2> QED
    BY <1>1, <2>1, <2>2 DEF SizeInv, Limits
<1>5. CASE ~Overflows(size, count)
  <2>1. end' = end + 1 /\ chars' = size
    BY <1>5 DEF TakeLine
  <2>2. chars' = Chars(start, end + 1)
    <3>1. start \in 0 .. Len(lines) /\ end \in 0 .. Len(lines) - 1
      BY <1>1, <1>2
    <3>2. Chars(start, end + 1) = Chars(start, end) + lines[end + 1].len
      BY <1>2, <3>1, CharsFacts
    <3> QED
      BY <2>1, <3>2 DEF SizeInv, Limits
  <2>3. Chars(start, end)' = Chars(start', end')
    BY <1>1, CharsKept
  <2>4. end = start \/ (size <= policy.maxChars /\ count <= policy.maxLines)
    BY <1>2, <1>3, <1>5 DEF Overflows
  <2>5. end' - start' <= policy'.maxLines
    BY <1>1, <1>2, <2>1, <2>4
  <2>6. chars' <= policy'.maxChars \/ end' <= start' + 1
    BY <1>1, <1>2, <2>1, <2>4
  <2> QED
    BY <1>1, <2>1, <2>2, <2>3, <2>5, <2>6 DEF Limits
<1> QED
  BY <1>4, <1>5

\* A cut stores the current chunk and starts an empty one.
LEMMA CutChunkLimits == SizeInv /\ CutChunk => Limits' /\ SizeBound'
<1> SUFFICES ASSUME SizeInv, CutChunk PROVE Limits' /\ SizeBound'
  OBVIOUS
<1>1. /\ lines' = lines /\ policy' = policy /\ lines \in Seq(Line)
      /\ start \in Nat /\ end \in Nat /\ Len(lines) \in Nat
      /\ start < end /\ end <= Len(lines) /\ chunks \in Seq(Chunk)
      /\ policy.maxLines \in Int /\ policy.maxLines > 0 /\ policy.maxChars \in Int
  BY DEF SizeInv, IInv, CutChunk, TypeOK, Cursors, Policy
<1>2. /\ chunks' = IF BlankSpan(start, end) THEN chunks
                   ELSE Append(chunks, [from |-> start, to |-> end])
      /\ IF AtEnd(end)
         THEN start' = start /\ end' = end /\ chars' = chars
         ELSE start' = NextStart(end) /\ end' = NextStart(end) /\ chars' = 0
  <2>1. (IF end = start THEN start + 1 ELSE end) = end
    BY <1>1
  <2> QED
    BY <2>1 DEF CutChunk
<1>3. Limits'
  <2>1. \A a, b : Chars(a, b)' = Chars(a, b)
    BY <1>1, CharsKept
  <2>2. CASE AtEnd(end)
    <3>1. start' = start /\ end' = end /\ chars' = chars
      BY <1>2, <2>2
    <3> QED
      BY <1>1, <2>1, <3>1 DEF SizeInv, Limits
  <2>3. CASE ~AtEnd(end)
    <3>1. start' = NextStart(end) /\ end' = start' /\ chars' = 0
      BY <1>2, <2>3
    <3>2. NextStart(end) \in Nat /\ NextStart(end) <= end
      BY <1>1, NextStartAdvances DEF SizeInv, IInv
    <3>3. start' \in Nat /\ start' \in 0 .. Len(lines)
      BY <1>1, <3>1, <3>2
    <3>4. Chars(start', start') = 0
      BY <1>1, <3>3, CharsFacts
    <3>5. end' - start' <= policy'.maxLines /\ end' <= start' + 1
      BY <1>1, <3>1, <3>3
    <3> QED
      BY <2>1, <3>1, <3>4, <3>5 DEF Limits
  <2> QED
    BY <2>2, <2>3
<1>4. ASSUME NEW i \in DOMAIN chunks'
      PROVE  /\ chunks'[i].to - chunks'[i].from <= policy'.maxLines
             /\ \/ Chars(chunks'[i].from, chunks'[i].to) <= policy'.maxChars
                \/ chunks'[i].to = chunks'[i].from + 1
  <2>1. \/ i \in DOMAIN chunks /\ chunks'[i] = chunks[i]
        \/ chunks'[i] = [from |-> start, to |-> end]
    <3> DEFINE c == [from |-> start, to |-> end]
    <3> HIDE DEF c
    <3>1. CASE chunks' = chunks
      BY <1>4, <3>1
    <3>2. CASE chunks' = Append(chunks, c)
      <4>1. i \in 1 .. Len(chunks) + 1
        BY <1>1, <1>4, <3>2
      <4>2. i = Len(chunks) + 1 => chunks'[i] = c
        BY <1>1, <3>2
      <4>3. i \in 1 .. Len(chunks) => i \in DOMAIN chunks /\ chunks'[i] = chunks[i]
        BY <1>1, <3>2
      <4> QED
        BY <1>1, <4>1, <4>2, <4>3 DEF c
    <3> QED
      BY <1>2, <3>1, <3>2 DEF c
  <2>2. CASE i \in DOMAIN chunks /\ chunks'[i] = chunks[i]
    BY <1>1, <2>2 DEF SizeInv, SizeBound
  <2>3. CASE chunks'[i] = [from |-> start, to |-> end]
    <3>1. chunks'[i].from = start /\ chunks'[i].to = end
      BY <2>3
    <3>2. /\ end - start <= policy.maxLines
          /\ Chars(start, end) <= policy.maxChars \/ end = start + 1
      BY <1>1 DEF SizeInv, Limits
    <3> QED
      BY <1>1, <3>1, <3>2
  <2> QED
    BY <2>1, <2>2, <2>3
<1>5. SizeBound'
  <2>1. \A a, b : Chars(a, b)' = Chars(a, b)
    BY <1>1, CharsKept
  <2> QED
    BY <1>4, <2>1 DEF SizeBound
<1> QED
  BY <1>3, <1>5

\* No chunk of ChunkDocumentWithPolicy exceeds the limits of its policy, but
\* for a single line that is longer than the limit on characters.
THEOREM SizeBoundTheorem == Spec => []SizeBound
<1>1. Init => SizeInv
  <2> SUFFICES ASSUME Init PROVE SizeInv
    OBVIOUS
  <2>1. IInv
    BY InitEstablishes
  <2>2. start = 0 /\ end = 0 /\ chars = 0 /\ chunks = <<>>
    BY DEF Init
  <2>3. lines \in Seq(Line) /\ 0 \in 0 .. Len(lines) /\ policy.maxLines > 0 /\ policy.maxLines \in Int
    BY <2>1 DEF IInv, TypeOK, Policy
  <2>4. Chars(0, 0) = 0
    BY <2>3, CharsFacts
  <2>5. Limits
    BY <2>2, <2>3, <2>4 DEF Limits
  <2>6. SizeBound
    BY <2>2 DEF SizeBound
  <2> QED
    BY <2>1, <2>5, <2>6 DEF SizeInv
<1>2. SizeInv /\ [Next]_vars => SizeInv'
  <2> SUFFICES ASSUME SizeInv, [Next]_vars PROVE SizeInv'
    OBVIOUS
  <2>1. CASE TakeLine
    <3>1. IInv' /\ Limits'
      BY <2>1, TakeLinePreserves, TakeLineLimits DEF SizeInv
    <3>2. lines' = lines /\ policy' = policy /\ chunks' = chunks
      BY <2>1 DEF TakeLine
    <3>3. \A a, b : Chars(a, b)' = Chars(a, b)
      BY <3>2, CharsKept
    <3>4. SizeBound'
      BY <3>2, <3>3 DEF SizeInv, SizeBound
    <3> QED
      BY <3>1, <3>4 DEF SizeInv
  <2>2. CASE CutChunk
    BY <2>2, CutChunkPreserves, CutChunkLimits DEF SizeInv
  <2>3. CASE UNCHANGED vars
    <3>1. /\ lines' = lines /\ policy' = policy /\ chunks' = chunks
          /\ start' = start /\ end' = end /\ chars' = chars /\ pc' = pc
      BY <2>3 DEF vars
    <3>2. \A a, b : Chars(a, b)' = Chars(a, b)
      BY <3>1, CharsKept
    <3>3. IInv'
      BY <3>1 DEF SizeInv, IInv, TypeOK, Cursors, CoveredSoFar, Covered, InChunk
    <3>4. Limits' /\ SizeBound'
      BY <3>1, <3>2 DEF SizeInv, Limits, SizeBound
    <3> QED
      BY <3>3, <3>4 DEF SizeInv
  <2> QED
    BY <2>1, <2>2, <2>3 DEF Next
<1>3. SizeInv => SizeBound
  BY DEF SizeInv
<1> QED
  BY <1>1, <1>2, <1>3, PTL DEF Spec

=============================================================================
