------------------------- MODULE AgentSessionProofs -------------------------
(***************************************************************************)
(* Proofs about AgentSession, for any number of programs on the session,   *)
(* any lists of tool calls and any bounds.                                 *)
(*                                                                         *)
(* None of the properties is inductive.  An answer that is printed is      *)
(* stored because it was the last message of the conversation while the    *)
(* program was at "reply", and its user message because the program got    *)
(* past "accept"; the tool results fit the calls because the results so    *)
(* far and the calls still to dispatch are, together, the calls of the last*)
(* message; and the conversation is the stored one at the prompt because   *)
(* it is so, but for the answer that waits to be stored or to be followed  *)
(* by results, at every other step.  IInv says these things of every       *)
(* program.  HistoryAligned compares a subsequence with the rows; the proof*)
(* counts positions (Rank) instead, so that a message more changes the     *)
(* count by one and leaves the earlier ranks alone.                        *)
(***************************************************************************)
EXTENDS AgentSession, FiniteSetTheorems, SequenceTheorems, TLAPS

-----------------------------------------------------------------------------
(* Subsequences.                                                           *)

\* How many of the positions kept come before i or at it.
Rank(kept, i) == Cardinality({j \in kept : j <= i})

(* The positions kept are counted one by one.                              *)
LEMMA RankFacts ==
  ASSUME NEW L \in Nat, NEW kept \in SUBSET (1 .. L)
  PROVE  /\ IsFiniteSet(kept) /\ Cardinality(kept) \in Nat
         /\ \A i \in 0 .. L : Rank(kept, i) \in Nat
         /\ Rank(kept, 0) = 0
         /\ Rank(kept, L) = Cardinality(kept)
         /\ \A i \in 1 .. L :
              Rank(kept, i) = IF i \in kept THEN Rank(kept, i - 1) + 1 ELSE Rank(kept, i - 1)
<1>0. kept \subseteq 1 .. L /\ \A j \in kept : j \in Nat /\ 1 <= j /\ j <= L
  OBVIOUS
<1>1. IsFiniteSet(kept)
  <2>1. IsFiniteSet(1 .. L)
    BY FS_Interval
  <2> QED
    BY <2>1, FS_Subset
<1>2. ASSUME NEW i \in 0 .. L
      PROVE  IsFiniteSet({j \in kept : j <= i}) /\ Rank(kept, i) \in Nat
  <2>1. {j \in kept : j <= i} \in SUBSET kept
    OBVIOUS
  <2> QED
    BY <1>1, <2>1, FS_Subset, FS_CardinalityType DEF Rank
<1>3. Rank(kept, 0) = 0
  <2>1. \A j \in kept : ~(j <= 0)
    BY <1>0
  <2>2. {j \in kept : j <= 0} = {}
    BY <2>1
  <2> QED
    BY <2>2, FS_EmptySet DEF Rank
<1>4. Rank(kept, L) = Cardinality(kept)
  <2>1. {j \in kept : j <= L} = kept
    BY <1>0
  <2> QED
    BY <2>1 DEF Rank
<1>5. ASSUME NEW i \in 1 .. L
      PROVE  Rank(kept, i) = IF i \in kept THEN Rank(kept, i - 1) + 1 ELSE Rank(kept, i - 1)
  <2> DEFINE low == {j \in kept : j <= i - 1}
  <2>1. IsFiniteSet(low) /\ i \notin low
    <3>1. i - 1 \in 0 .. L /\ ~(i <= i - 1)
      BY <1>5
    <3> QED
      BY <1>2, <3>1
  <2>0. \A j \in kept : j <= i <=> (j <= i - 1 \/ j = i)
    BY <1>0
  <2>2. CASE i \in kept
    <3>1. {j \in kept : j <= i} = low \cup {i}
      BY <2>0, <2>2
    <3>2. Cardinality(low \cup {i}) = Cardinality(low) + 1
      BY <2>1, FS_AddElement
    <3> QED
      BY <2>2, <3>1, <3>2 DEF Rank
  <2>3. CASE i \notin kept
    <3>1. {j \in kept : j <= i} = low
      BY <2>0, <2>3
    <3> QED
      BY <2>3, <3>1 DEF Rank
  <2> QED
    BY <2>2, <2>3
<1> QED
  BY <1>1, <1>2, <1>3, <1>4, <1>5, FS_CardinalityType

(* A later position has a higher rank, and so no two have the same.        *)
LEMMA RankIncreases ==
  ASSUME NEW L \in Nat, NEW kept \in SUBSET (1 .. L),
         NEW i \in kept, NEW j \in kept, i < j
  PROVE  Rank(kept, i) < Rank(kept, j)
<1> DEFINE A == {k \in kept : k <= i}
           B == {k \in kept : k <= j}
<1>1. IsFiniteSet(kept)
  BY RankFacts
<1>2. IsFiniteSet(B) /\ A \in SUBSET B /\ A # B
  <2>1. B \in SUBSET kept
    OBVIOUS
  <2>2. \A k \in kept : k \in Nat
    OBVIOUS
  <2>4. \A k \in kept : (k <= i => k <= j) /\ ~(j <= i) /\ j <= j
    BY <2>2
  <2>3. j \in B /\ j \notin A /\ A \in SUBSET B
    BY <2>4
  <2> QED
    BY <1>1, <2>1, <2>3, FS_Subset
<1>3. Cardinality(A) <= Cardinality(B) /\ Cardinality(A) # Cardinality(B)
  BY <1>2, FS_Subset
<1>4. Cardinality(A) \in Nat /\ Cardinality(B) \in Nat
  BY <1>2, FS_Subset, FS_CardinalityType
<1> QED
  BY <1>3, <1>4 DEF Rank

(* Every rank up to their number is that of a position.                    *)
LEMMA RankReached ==
  ASSUME NEW L \in Nat, NEW kept \in SUBSET (1 .. L), NEW n \in 1 .. Cardinality(kept)
  PROVE  \E i \in kept : Rank(kept, i) = n
<1> DEFINE High == {i \in 0 .. L : Rank(kept, i) >= n}
<1>1. L \in High /\ High \subseteq Nat
  BY RankFacts
<1>2. PICK i \in High : \A y \in High : ~(<<y, i>> \in OpToRel(<, Nat))
  BY <1>1, NatLessThanWellFounded, WFMin
<1>3. i \in 0 .. L /\ Rank(kept, i) >= n /\ \A y \in High : ~(y < i)
  BY <1>1, <1>2 DEF OpToRel
<1>4. n \in Nat /\ n >= 1
  BY RankFacts
<1>5. i # 0
  BY <1>3, <1>4, RankFacts
<1>6. i \in 1 .. L /\ i - 1 \in 0 .. L /\ i - 1 < i
  BY <1>3, <1>5
<1>7. ~(Rank(kept, i - 1) >= n)
  BY <1>3, <1>6
<1>8. /\ Rank(kept, i) = IF i \in kept THEN Rank(kept, i - 1) + 1 ELSE Rank(kept, i - 1)
      /\ Rank(kept, i) \in Nat /\ Rank(kept, i - 1) \in Nat
  BY <1>3, <1>6, RankFacts
<1>9. i \in kept /\ Rank(kept, i) = n
  BY <1>3, <1>4, <1>7, <1>8
<1> QED
  BY <1>9

(* A subsequence has the elements of its positions in their order.         *)
LEMMA SubsequenceFacts ==
  ASSUME NEW L \in Nat, NEW kept \in SUBSET (1 .. L), NEW s
  PROVE  /\ Subsequence(s, kept) =
              [n \in 1 .. Cardinality(kept) |-> Subsequence(s, kept)[n]]
         /\ \A i \in kept : /\ Rank(kept, i) \in 1 .. Cardinality(kept)
                            /\ Subsequence(s, kept)[Rank(kept, i)] = s[i]
<1> DEFINE At(n) == CHOOSE i \in kept : Rank(kept, i) = n
<1>1. Subsequence(s, kept) = [n \in 1 .. Cardinality(kept) |-> s[At(n)]]
  BY Zenon DEF Subsequence, Rank
<1>2. ASSUME NEW i \in kept PROVE Rank(kept, i) \in 1 .. Cardinality(kept)
  <2>1. i \in 1 .. L /\ i \in 0 .. L /\ i - 1 \in 0 .. L
    OBVIOUS
  <2>2. Rank(kept, i) \in Nat /\ Rank(kept, i) # 0
    <3>1. Rank(kept, i) = Rank(kept, i - 1) + 1 /\ Rank(kept, i - 1) \in Nat
      BY <2>1, RankFacts
    <3> QED
      BY <3>1
  <2>3. Rank(kept, i) <= Rank(kept, L)
    <3>1. {j \in kept : j <= i} \in SUBSET kept /\ IsFiniteSet(kept)
      BY RankFacts
    <3>2. Cardinality({j \in kept : j <= i}) <= Cardinality(kept)
      BY <3>1, FS_Subset
    <3> QED
      BY <3>2, RankFacts DEF Rank
  <2> QED
    BY <2>2, <2>3, RankFacts
<1>3. ASSUME NEW i \in kept PROVE At(Rank(kept, i)) = i
  <2>1. At(Rank(kept, i)) \in kept /\ Rank(kept, At(Rank(kept, i))) = Rank(kept, i)
    OBVIOUS
  <2>2. \A j \in kept : j # i => Rank(kept, j) # Rank(kept, i)
    <3>1. \A j \in kept : j \in Nat /\ Rank(kept, j) \in Nat
      BY RankFacts
    <3> QED
      BY <3>1, RankIncreases
  <2> QED
    BY <2>1, <2>2, Zenon
<1>4. ASSUME NEW i \in kept PROVE Subsequence(s, kept)[Rank(kept, i)] = s[i]
  <2>1. Subsequence(s, kept)[Rank(kept, i)] = s[At(Rank(kept, i))]
    <3> HIDE DEF At
    <3> QED
      BY <1>1, <1>2
  <2> QED
    BY <1>3, <2>1
<1>5. Subsequence(s, kept) = [n \in 1 .. Cardinality(kept) |-> Subsequence(s, kept)[n]]
  <2> HIDE DEF At
  <2> QED
    BY <1>1
<1> QED
  BY <1>2, <1>4, <1>5

(* A subsequence is a sequence.                                            *)
LEMMA SubsequenceType ==
  ASSUME NEW S, NEW s \in Seq(S), NEW kept \in SUBSET DOMAIN s
  PROVE  /\ Subsequence(s, kept) \in Seq(S)
         /\ Len(Subsequence(s, kept)) = Cardinality(kept)
<1>1. Len(s) \in Nat /\ kept \in SUBSET (1 .. Len(s))
  BY LenProperties
<1>2. Cardinality(kept) \in Nat
  BY <1>1, RankFacts
<1>3. ASSUME NEW n \in 1 .. Cardinality(kept) PROVE Subsequence(s, kept)[n] \in S
  <2>1. PICK i \in kept : Rank(kept, i) = n
    BY <1>1, RankReached
  <2>2. Subsequence(s, kept)[n] = s[i]
    BY <1>1, <2>1, SubsequenceFacts
  <2> QED
    BY <1>1, <2>2, ElementOfSeq
<1>4. Subsequence(s, kept) = [n \in 1 .. Cardinality(kept) |-> Subsequence(s, kept)[n]]
  BY <1>1, SubsequenceFacts
<1> DEFINE t == Subsequence(s, kept)
<1> HIDE DEF t
<1>5. t = [n \in 1 .. Cardinality(kept) |-> t[n]] /\ \A n \in 1 .. Cardinality(kept) : t[n] \in S
  BY <1>3, <1>4 DEF t
<1>6. t \in [1 .. Cardinality(kept) -> S]
  BY <1>5
<1>7. t \in Seq(S) /\ Len(t) = Cardinality(kept)
  BY <1>2, <1>6
<1> QED
  BY <1>7 DEF t

-----------------------------------------------------------------------------
(* The stored part of a conversation.                                      *)

Kept(conv) == {i \in DOMAIN conv : IsStored(conv, i)}

\* StoredPart(conv) = stored, by the ranks of the positions.
Matches(conv, stored) ==
  /\ Len(stored) = Cardinality(Kept(conv))
  /\ \A i \in Kept(conv) : stored[Rank(Kept(conv), i)] = RowOf(conv[i])

(* The positions kept are positions of the conversation.                   *)
LEMMA KeptFacts ==
  ASSUME NEW conv \in Seq(Message)
  PROVE  /\ Len(conv) \in Nat /\ Kept(conv) \in SUBSET (1 .. Len(conv))
         /\ Cardinality(Kept(conv)) \in Nat
<1>1. Len(conv) \in Nat /\ Kept(conv) \in SUBSET (1 .. Len(conv))
  BY DEF Kept
<1> QED
  BY <1>1, RankFacts

(* Conversations match the rows they are compared with.                    *)
LEMMA MatchesStoredPart ==
  ASSUME NEW conv \in Seq(Message), NEW stored \in Seq(Row), Matches(conv, stored)
  PROVE  StoredPart(conv) = stored
<1> DEFINE K == Kept(conv)
           sub == Subsequence(conv, K)
<1>1. Len(conv) \in Nat /\ K \in SUBSET (1 .. Len(conv)) /\ K \in SUBSET DOMAIN conv
  BY KeptFacts DEF Kept
<1>2. sub \in Seq(Message) /\ Len(sub) = Cardinality(K)
  BY <1>1, SubsequenceType
<1>3. StoredPart(conv) = [n \in DOMAIN sub |-> RowOf(sub[n])]
  BY DEF StoredPart, Kept
<1>4. DOMAIN sub = 1 .. Len(stored)
  BY <1>2, LenProperties DEF Matches
<1>5. ASSUME NEW n \in 1 .. Len(stored) PROVE RowOf(sub[n]) = stored[n]
  <2>1. n \in 1 .. Cardinality(K)
    BY DEF Matches
  <2>2. PICK i \in K : Rank(K, i) = n
    BY <1>1, <2>1, RankReached
  <2>3. sub[n] = conv[i]
    BY <1>1, <2>2, SubsequenceFacts
  <2> QED
    BY <2>2, <2>3 DEF Matches
<1>6. stored = [n \in 1 .. Len(stored) |-> stored[n]]
  BY LenProperties
<1> HIDE DEF sub
<1>7. [n \in DOMAIN sub |-> RowOf(sub[n])] = [n \in 1 .. Len(stored) |-> stored[n]]
  BY <1>4, <1>5
<1> QED
  BY <1>3, <1>6, <1>7

(* The rank of a position depends on the positions up to it.               *)
LEMMA RankLocal ==
  ASSUME NEW A, NEW B, NEW i \in Nat, A \subseteq Nat, B \subseteq Nat,
         \A j \in Nat : j <= i => (j \in A <=> j \in B)
  PROVE  Rank(A, i) = Rank(B, i)
<1>1. {j \in A : j <= i} = {j \in B : j <= i}
  OBVIOUS
<1> QED
  BY <1>1 DEF Rank

(* A message that is stored makes the stored part longer.                  *)
LEMMA AppendStored ==
  ASSUME NEW conv \in Seq(Message), NEW m \in Message, m.role \in {"user", "assistant"},
         NEW stored \in Seq(Row), Matches(conv, stored)
  PROVE  Matches(Append(conv, m), Append(stored, RowOf(m)))
<1> DEFINE L == Len(conv)
           K == Kept(conv)
           M == Kept(Append(conv, m))
<1>1. L \in Nat /\ K \in SUBSET (1 .. L) /\ Cardinality(K) \in Nat
  BY KeptFacts
<1>2. /\ Append(conv, m) \in Seq(Message) /\ Len(Append(conv, m)) = L + 1
      /\ DOMAIN Append(conv, m) = 1 .. L + 1
      /\ \A i \in 1 .. L : Append(conv, m)[i] = conv[i]
      /\ Append(conv, m)[L + 1] = m
  BY AppendProperties, LenProperties
<1>3. M = K \cup {L + 1}
  <2>1. ASSUME NEW i \in 1 .. L PROVE IsStored(Append(conv, m), i) <=> IsStored(conv, i)
    <3>1. CASE i = L
      <4>1. Append(conv, m)[i] = conv[i] /\ Append(conv, m)[i + 1] = m /\ i # Len(Append(conv, m))
        BY <1>1, <1>2, <3>1
      <4> QED
        BY <3>1, <4>1 DEF IsStored
    <3>2. CASE i # L
      <4>1. i + 1 \in 1 .. L /\ i # L + 1
        BY <1>1, <3>2
      <4>2. Append(conv, m)[i] = conv[i] /\ Append(conv, m)[i + 1] = conv[i + 1]
        BY <1>2, <4>1
      <4> QED
        BY <1>2, <3>2, <4>1, <4>2 DEF IsStored
    <3> QED
      BY <3>1, <3>2
  <2>2. IsStored(Append(conv, m), L + 1)
    BY <1>2 DEF IsStored
  <2>3. 1 .. L + 1 = (1 .. L) \cup {L + 1} /\ DOMAIN conv = 1 .. L
    BY <1>1
  <2> QED
    BY <1>2, <2>1, <2>2, <2>3, Zenon DEF Kept
<1>4. L + 1 \notin K /\ IsFiniteSet(K)
  BY <1>1, RankFacts
<1>5. Cardinality(M) = Cardinality(K) + 1
  BY <1>3, <1>4, FS_AddElement
<1>6. /\ Len(Append(stored, RowOf(m))) = Len(stored) + 1
      /\ \A n \in 1 .. Len(stored) : Append(stored, RowOf(m))[n] = stored[n]
      /\ Append(stored, RowOf(m))[Len(stored) + 1] = RowOf(m)
  <2>1. RowOf(m) \in Row
    BY DEF RowOf, Row, Message
  <2> QED
    BY <2>1, AppendProperties
<1>7. ASSUME NEW i \in K
      PROVE  Append(stored, RowOf(m))[Rank(M, i)] = RowOf(Append(conv, m)[i])
  <2>1. Rank(M, i) = Rank(K, i)
    <3>1. i \in Nat /\ i <= L /\ K \subseteq Nat /\ M \subseteq Nat
      BY <1>1, <1>3
    <3>2. \A j \in Nat : j <= i => (j \in M <=> j \in K)
      BY <1>1, <1>3, <3>1
    <3> QED
      BY <3>1, <3>2, RankLocal
  <2>2. Rank(K, i) \in 1 .. Len(stored)
    BY <1>1, SubsequenceFacts DEF Matches
  <2>3. Append(conv, m)[i] = conv[i]
    BY <1>1, <1>2
  <2> QED
    BY <1>6, <2>1, <2>2, <2>3 DEF Matches
<1>8. Append(stored, RowOf(m))[Rank(M, L + 1)] = RowOf(Append(conv, m)[L + 1])
  <2>1. M \in SUBSET (1 .. L + 1) /\ L + 1 \in Nat
    BY <1>1, <1>3
  <2>2. Rank(M, L + 1) = Cardinality(M)
    BY <2>1, RankFacts
  <2> QED
    BY <1>2, <1>5, <1>6, <2>2 DEF Matches
<1> QED
  BY <1>3, <1>5, <1>6, <1>7, <1>8 DEF Matches

(* The system's message is not stored.                                     *)
LEMMA AppendSystem ==
  ASSUME NEW conv \in Seq(Message), NEW m \in Message, m.role = "system",
         NEW stored \in Seq(Row), Matches(conv, stored)
  PROVE  Matches(Append(conv, m), stored)
<1> DEFINE L == Len(conv)
           K == Kept(conv)
           M == Kept(Append(conv, m))
<1>1. L \in Nat /\ K \in SUBSET (1 .. L)
  BY KeptFacts
<1>2. /\ Append(conv, m) \in Seq(Message) /\ Len(Append(conv, m)) = L + 1
      /\ DOMAIN Append(conv, m) = 1 .. L + 1
      /\ \A i \in 1 .. L : Append(conv, m)[i] = conv[i]
      /\ Append(conv, m)[L + 1] = m
  BY AppendProperties, LenProperties
<1>3. M = K
  <2>1. ASSUME NEW i \in 1 .. L PROVE IsStored(Append(conv, m), i) <=> IsStored(conv, i)
    <3>1. CASE i = L
      <4>1. Append(conv, m)[i] = conv[i] /\ Append(conv, m)[i + 1] = m /\ i # Len(Append(conv, m))
        BY <1>1, <1>2, <3>1
      <4> QED
        BY <3>1, <4>1 DEF IsStored
    <3>2. CASE i # L
      <4>1. i + 1 \in 1 .. L /\ i # L + 1
        BY <1>1, <3>2
      <4>2. Append(conv, m)[i] = conv[i] /\ Append(conv, m)[i + 1] = conv[i + 1]
        BY <1>2, <4>1
      <4> QED
        BY <1>2, <3>2, <4>1, <4>2 DEF IsStored
    <3> QED
      BY <3>1, <3>2
  <2>2. ~IsStored(Append(conv, m), L + 1)
    BY <1>2 DEF IsStored
  <2>3. 1 .. L + 1 = (1 .. L) \cup {L + 1} /\ DOMAIN conv = 1 .. L
    BY <1>1
  <2> QED
    BY <1>2, <2>1, <2>2, <2>3, Zenon DEF Kept
<1>4. \A i \in K : Append(conv, m)[i] = conv[i]
  BY <1>1, <1>2
<1> QED
  BY <1>3, <1>4 DEF Matches

(* An answer that tool results follow is not stored.                       *)
LEMMA AppendResults ==
  ASSUME NEW conv \in Seq(Message), conv # <<>>, conv[Len(conv)].role = "assistant",
         NEW res \in Seq(Message), res # <<>>,
         \A k \in 1 .. Len(res) : res[k].role = "tool",
         NEW stored \in Seq(Row), NEW r \in Row, Matches(conv, Append(stored, r))
  PROVE  Matches(conv \o res, stored)
<1> DEFINE L == Len(conv)
           K == Kept(conv)
           M == Kept(conv \o res)
<1>1. /\ L \in Nat /\ L # 0 /\ K \in SUBSET (1 .. L) /\ Cardinality(K) \in Nat
      /\ Len(res) \in Nat /\ Len(res) # 0
  BY KeptFacts, EmptySeq, LenProperties
<1>2. /\ conv \o res \in Seq(Message) /\ Len(conv \o res) = L + Len(res)
      /\ \A i \in 1 .. L : (conv \o res)[i] = conv[i]
      /\ \A i \in L + 1 .. L + Len(res) : (conv \o res)[i].role = "tool"
  <2>1. /\ conv \o res \in Seq(Message) /\ Len(conv \o res) = L + Len(res)
        /\ \A i \in 1 .. L + Len(res) : (conv \o res)[i] =
                 IF i <= L THEN conv[i] ELSE res[i - L]
    BY ConcatProperties
  <2>2. \A i \in 1 .. L : (conv \o res)[i] = conv[i]
    BY <1>1, <2>1
  <2>3. ASSUME NEW i \in L + 1 .. L + Len(res) PROVE (conv \o res)[i].role = "tool"
    <3>1. i - L \in 1 .. Len(res) /\ i \in 1 .. L + Len(res) /\ ~(i <= L)
      BY <1>1
    <3> QED
      BY <2>1, <3>1
  <2> QED
    BY <2>1, <2>2, <2>3
<1>3. L \in K
  <2>1. L \in DOMAIN conv
    BY <1>1, LenProperties
  <2> QED
    BY <2>1 DEF Kept, IsStored
<1>4. M = K \ {L}
  <2>0. DOMAIN (conv \o res) = 1 .. L + Len(res) /\ DOMAIN conv = 1 .. L
    BY <1>2, LenProperties
  <2>1. ASSUME NEW i \in 1 .. L, i # L PROVE IsStored(conv \o res, i) <=> IsStored(conv, i)
    <3>1. i + 1 \in 1 .. L /\ i # L + Len(res)
      BY <1>1, <2>1
    <3>2. (conv \o res)[i] = conv[i] /\ (conv \o res)[i + 1] = conv[i + 1]
      BY <1>2, <3>1
    <3> QED
      BY <1>2, <2>1, <3>1, <3>2 DEF IsStored
  <2>2. ASSUME NEW i \in L + 1 .. L + Len(res) PROVE ~IsStored(conv \o res, i)
    BY <1>2 DEF IsStored
  <2>3. ~IsStored(conv \o res, L)
    <3>1. L \in 1 .. L /\ L + 1 \in L + 1 .. L + Len(res) /\ L # L + Len(res)
      BY <1>1
    <3>2. (conv \o res)[L].role = "assistant" /\ (conv \o res)[L + 1].role = "tool"
      BY <1>2, <3>1
    <3> QED
      BY <1>2, <3>1, <3>2 DEF IsStored
  <2>4. 1 .. L + Len(res) = (1 .. L) \cup (L + 1 .. L + Len(res))
    BY <1>1
  <2>5. \A i : i \in M <=> i \in K /\ i # L
    BY <2>0, <2>1, <2>2, <2>3, <2>4, Zenon DEF Kept
  <2> QED
    BY <2>5
<1>5. Cardinality(M) = Cardinality(K) - 1
  <2>1. IsFiniteSet(K)
    BY <1>1, RankFacts
  <2> QED
    BY <1>3, <1>4, <2>1, FS_RemoveElement
<1>6. /\ Len(Append(stored, r)) = Len(stored) + 1 /\ Len(stored) \in Nat
      /\ \A n \in 1 .. Len(stored) : Append(stored, r)[n] = stored[n]
  BY AppendProperties
<1>7. Len(stored) = Cardinality(M)
  BY <1>1, <1>5, <1>6 DEF Matches
<1>8. ASSUME NEW i \in M PROVE stored[Rank(M, i)] = RowOf((conv \o res)[i])
  <2>1. i \in K /\ i \in Nat /\ i < L /\ M \in SUBSET (1 .. L)
    BY <1>1, <1>4
  <2>2. Rank(M, i) = Rank(K, i)
    <3>1. K \subseteq Nat /\ M \subseteq Nat
      BY <1>1, <1>4
    <3>2. \A j \in Nat : j <= i => (j \in M <=> j \in K)
      BY <1>1, <1>4, <2>1
    <3> QED
      BY <2>1, <3>1, <3>2, RankLocal
  <2>3. Rank(M, i) \in 1 .. Len(stored)
    BY <1>1, <1>7, <2>1, SubsequenceFacts
  <2>4. (conv \o res)[i] = conv[i]
    BY <1>1, <1>2, <2>1
  <2> QED
    BY <1>6, <2>1, <2>2, <2>3, <2>4 DEF Matches
<1> QED
  BY <1>7, <1>8 DEF Matches

(* A rehydrated conversation is what is stored.                            *)
LEMMA RehydrateMatches ==
  ASSUME NEW stored \in Seq(Row)
  PROVE  Rehydrate(stored) \in Seq(Message) /\ Matches(Rehydrate(stored), stored)
<1> DEFINE conv == Rehydrate(stored)
           L == Len(stored)
<1>1. L \in Nat /\ DOMAIN stored = 1 .. L /\ \A i \in 1 .. L : stored[i] \in Row
  BY LenProperties, ElementOfSeq
<1>2. \A i \in 1 .. L : Plain(stored[i].role, stored[i].text) \in Message
  <2>1. <<>> \in Seq(Calls)
    OBVIOUS
  <2> QED
    BY <1>1, <2>1 DEF Plain, Message, Row
<1>3. conv = [i \in 1 .. L |-> Plain(stored[i].role, stored[i].text)]
  BY <1>1 DEF Rehydrate
<1>4. /\ conv \in Seq(Message) /\ Len(conv) = L
      /\ \A i \in 1 .. L : conv[i] = Plain(stored[i].role, stored[i].text)
  <2> HIDE DEF conv
  <2>1. conv \in [1 .. L -> Message]
    BY <1>2, <1>3
  <2> QED
    BY <1>1, <1>3, <2>1
<1> HIDE DEF conv, L
<1>5. \A i \in 1 .. L : conv[i].role \in {"user", "assistant"} /\ RowOf(conv[i]) = stored[i]
  <2>1. \A q \in Row : /\ q.role \in {"user", "assistant"}
                       /\ q = [role |-> q.role, text |-> q.text]
    BY DEF Row
  <2>2. ASSUME NEW i \in 1 .. L PROVE conv[i].role = stored[i].role /\ conv[i].text = stored[i].text
    BY <1>4 DEF Plain
  <2> QED
    BY <1>1, <2>1, <2>2 DEF RowOf
<1>6. Kept(conv) = 1 .. L
  <2>1. DOMAIN conv = 1 .. L
    BY <1>4, LenProperties
  <2>2. ASSUME NEW i \in 1 .. L PROVE IsStored(conv, i)
    <3>1. i # L => i + 1 \in 1 .. L
      BY <1>1
    <3> QED
      BY <1>4, <1>5, <3>1 DEF IsStored
  <2> QED
    BY <2>1, <2>2 DEF Kept
<1>7. \A i \in 1 .. L : Rank(1 .. L, i) = i
  <2>1. ASSUME NEW i \in 1 .. L PROVE Rank(1 .. L, i) = i
    <3>1. {j \in 1 .. L : j <= i} = 1 .. i
      BY <1>1
    <3>2. Cardinality(1 .. i) = i
      BY <1>1, FS_Interval
    <3> QED
      BY <3>1, <3>2 DEF Rank
  <2> QED
    BY <2>1
<1>8. Cardinality(1 .. L) = L
  BY <1>1, FS_Interval
<1>9. Matches(conv, stored)
  BY <1>5, <1>6, <1>7, <1>8 DEF Matches, L
<1> QED
  BY <1>4, <1>9 DEF conv

-----------------------------------------------------------------------------
(* The invariant and its parts.                                            *)

Conv(c) == cli[c].conv

\* The last message of the conversation.
LastMessage(c) == Conv(c)[Len(Conv(c))]

UserRow(turn) == [role |-> "user", text |-> [turn |-> turn, round |-> 0]]

\* While a turn is answered, the message it answers is stored.
Accepted(c) ==
  Pc(c) \in {"complete", "dispatch", "reply"} =>
    \E i \in DOMAIN rows : rows[i] = UserRow(cli[c].turn)

\* After an answer of the model it is the last message.
Answered(c) ==
  Pc(c) \in {"dispatch", "reply"} =>
    /\ Conv(c) # <<>>
    /\ LastMessage(c).role = "assistant"
    /\ LastMessage(c).text = cli[c].answer
    /\ cli[c].answer.turn = cli[c].turn

\* The results so far and the calls still to dispatch are those of the answer.
Dispatching(c) ==
  Pc(c) = "dispatch" =>
    LET calls == LastMessage(c).calls
        done  == Len(cli[c].results)
    IN /\ cli[c].todo # <<>>
       /\ Len(calls) = done + Len(cli[c].todo)
       /\ \A k \in 1 .. done : /\ cli[c].results[k].role = "tool"
                               /\ cli[c].results[k].call = calls[k]
       /\ \A k \in 1 .. Len(cli[c].todo) : cli[c].todo[k] = calls[done + k]

\* No results are left over from an earlier round.
NoResults(c) == Pc(c) # "dispatch" => cli[c].results = <<>>

\* Turns are numbered: when one starts, the messages a program has are those of
\* earlier ones.
TurnsFit(c) ==
  /\ cli[c].turn <= turns
  /\ \A i \in DOMAIN Conv(c) : Conv(c)[i].text.turn <= turns
  /\ \A k \in DOMAIN cli[c].results : cli[c].results[k].text.turn <= turns
  /\ Pc(c) = "accept" =>
       cli[c].turn > 0 /\ \A i \in DOMAIN Conv(c) : Conv(c)[i].text.turn < cli[c].turn

\* Between u and n there are answers, each with its results behind it.
ResultsFollow(conv, u, n) ==
  \A i \in u + 1 .. n :
    /\ conv[i].role \in {"assistant", "tool"}
    /\ conv[i].role = "assistant" =>
         /\ i + Len(conv[i].calls) <= n
         /\ \A k \in 1 .. Len(conv[i].calls) :
              conv[i + k].role = "tool" /\ conv[i + k].call = conv[i].calls[k]

\* The message of the turn is in the conversation once, at u.
StartsAt(c, u) ==
  /\ u \in DOMAIN Conv(c)
  /\ \A i \in DOMAIN Conv(c) : Conv(c)[i] = Plain("user", UserText(c)) <=> i = u

\* The turn under way, at a request and between one and the next.
TurnFits(c) ==
  /\ Pc(c) = "complete" =>
       \E u \in DOMAIN Conv(c) :
         StartsAt(c, u) /\ ResultsFollow(Conv(c), u, Len(Conv(c)))
  /\ Pc(c) = "dispatch" =>
       \E u \in DOMAIN Conv(c) :
         /\ u < Len(Conv(c))
         /\ StartsAt(c, u) /\ ResultsFollow(Conv(c), u, Len(Conv(c)) - 1)

\* What holds of every program.
CliFits(c) ==
  /\ Accepted(c) /\ Answered(c) /\ Dispatching(c) /\ NoResults(c)
  /\ TurnsFit(c) /\ TurnFits(c)

\* What a program that is alone has is stored, but for an answer of the model.
HistoryFits(c) ==
  /\ Pc(c) \in {"prompt", "accept", "complete"} => Matches(Conv(c), rows)
  /\ Pc(c) \in {"dispatch", "reply"} =>
       Matches(Conv(c), Append(rows, RowOf(LastMessage(c))))

\* Nobody works on a session that does not exist.
Started == created \/ (rows = <<>> /\ \A c \in Clis : Pc(c) = "off")

\* The rows are of turns that have begun.
RowsFit == \A i \in DOMAIN rows : rows[i].text.turn <= turns

\* The answer is stored after its message.
Durable(a) ==
  \E i, j \in DOMAIN rows :
    i < j /\ rows[i] = UserRow(a.turn) /\ rows[j] = [role |-> "assistant", text |-> a]

\* The inductive invariant.
IInv ==
  /\ TypeOK
  /\ Started
  /\ RowsFit
  /\ \A c \in Clis : CliFits(c)
  /\ \A c \in alone : HistoryFits(c)
  /\ \A a \in shown : Durable(a)

-----------------------------------------------------------------------------
(* What a step of one program leaves alone.                                *)

(* The types of a program's state.                                         *)
LEMMA CliTypes ==
  ASSUME TypeOK, NEW c \in Clis
  PROVE  /\ cli[c] \in Cli /\ Pc(c) \in Steps
         /\ Conv(c) \in Seq(Message) /\ Len(Conv(c)) \in Nat
         /\ DOMAIN Conv(c) = 1 .. Len(Conv(c))
         /\ cli[c].turn \in Nat /\ cli[c].round \in Nat
         /\ cli[c].todo \in Seq(Calls) /\ cli[c].results \in Seq(Message)
         /\ cli[c].answer \in Text
<1>1. cli[c] \in Cli
  BY DEF TypeOK
<1>2. /\ Pc(c) \in Steps /\ Conv(c) \in Seq(Message)
      /\ cli[c].turn \in Nat /\ cli[c].round \in Nat
      /\ cli[c].todo \in Seq(Calls) /\ cli[c].results \in Seq(Message)
      /\ cli[c].answer \in Text
  BY <1>1 DEF Cli, Pc, Conv
<1> QED
  BY <1>1, <1>2, LenProperties

(* A program keeps its invariant when others write to the session and      *)
(* start turns.                                                            *)
LEMMA OtherFits ==
  ASSUME TypeOK, NEW d \in Clis, CliFits(d), cli'[d] = cli[d],
         \A i \in DOMAIN rows : i \in DOMAIN rows' /\ rows'[i] = rows[i],
         turns' \in Nat, turns' >= turns
  PROVE  CliFits(d)'
<1>1. turns \in Nat
  BY SessionAssumption DEF TypeOK
<1>2. /\ Pc(d)' = Pc(d) /\ Conv(d)' = Conv(d) /\ LastMessage(d)' = LastMessage(d)
      /\ UserText(d)' = UserText(d)
  BY DEF Pc, Conv, LastMessage, UserText
<1>3. Accepted(d)'
  BY DEF CliFits, Accepted, Pc, UserRow
<1>4. Answered(d)' /\ Dispatching(d)' /\ NoResults(d)'
  BY <1>2 DEF CliFits, Answered, Dispatching, NoResults
<1>5. TurnFits(d)'
  <2>1. \A u : StartsAt(d, u)' <=> StartsAt(d, u)
    BY <1>2 DEF StartsAt
  <2>2. TurnFits(d)
    BY DEF CliFits
  <2> QED
    BY <1>2, <2>1, <2>2 DEF TurnFits
<1>6. TurnsFit(d)'
  <2>1. /\ cli[d].turn \in Nat /\ Conv(d) \in Seq(Message) /\ cli[d].results \in Seq(Message)
        /\ TurnsFit(d)
    BY CliTypes DEF CliFits
  <2>2. ASSUME NEW s \in Seq(Message), NEW i \in DOMAIN s, s[i].text.turn <= turns
        PROVE  s[i].text.turn <= turns'
    <3>1. s[i] \in Message
      BY <2>2, LenProperties, ElementOfSeq
    <3>2. s[i].text.turn \in Nat
      BY <3>1 DEF Message, Text
    <3> QED
      BY <1>1, <2>2, <3>2
  <2>3. cli'[d].turn <= turns'
    BY <1>1, <2>1 DEF TurnsFit
  <2>4. /\ \A i \in DOMAIN Conv(d) : Conv(d)[i].text.turn <= turns'
        /\ \A k \in DOMAIN cli[d].results : cli[d].results[k].text.turn <= turns'
    BY <2>1, <2>2 DEF TurnsFit
  <2> QED
    BY <1>2, <2>1, <2>3, <2>4 DEF TurnsFit
<1> QED
  BY <1>3, <1>4, <1>5, <1>6 DEF CliFits

(* What is left to show of a step of program c.                            *)
LEMMA StepOf ==
  ASSUME IInv, NEW c \in Clis,
         cli' \in [Clis -> Cli], \A d \in Clis : d # c => cli'[d] = cli[d],
         created', turns' \in 0 .. MaxTurns, turns' >= turns, faults' \in 0 .. MaxFaults,
         rows' \in Seq(Row),
         \A i \in DOMAIN rows : i \in DOMAIN rows' /\ rows'[i] = rows[i],
         \A i \in DOMAIN rows' : rows'[i].text.turn <= turns',
         shown' \subseteq Text, \A a \in shown' : a \in shown \/ Durable(a)',
         alone' \subseteq Clis,
         \A d \in alone' : d # c => d \in alone /\ rows' = rows,
         CliFits(c)', c \in alone' => HistoryFits(c)'
  PROVE  IInv'
<1>1. TypeOK'
  BY DEF TypeOK
<1>2. Started' /\ RowsFit'
  BY DEF Started, RowsFit
<1>3. ASSUME NEW d \in Clis PROVE CliFits(d)'
  <2>1. turns' \in Nat
    BY SessionAssumption
  <2>2. CASE d # c
    BY <2>1, <2>2, OtherFits DEF IInv
  <2> QED
    BY <2>2
<1>4. ASSUME NEW d \in alone' PROVE HistoryFits(d)'
  <2>1. CASE d # c
    <3>1. d \in Clis /\ cli'[d] = cli[d] /\ rows' = rows /\ HistoryFits(d)
      BY <1>4, <2>1 DEF IInv
    <3> QED
      BY <3>1 DEF HistoryFits, Pc, Conv, LastMessage
  <2> QED
    BY <1>4, <2>1
<1>5. ASSUME NEW a \in shown' PROVE Durable(a)'
  <2>1. CASE a \in shown
    BY <2>1 DEF IInv, Durable
  <2> QED
    BY <1>5, <2>1
<1> QED
  BY <1>1, <1>2, <1>3, <1>4, <1>5 DEF IInv

(* The state of a program that is not running has its types.               *)
LEMMA OffType == Off \in Cli
<1>1. <<>> \in Seq(Calls) /\ <<>> \in Seq(Message) /\ NoText \in Text
  BY DEF NoText, Text
<1> QED
  BY <1>1 DEF Off, Cli, Steps

(* It satisfies its part of the invariant, whatever the others do.         *)
LEMMA OffFits ==
  ASSUME NEW c \in Clis, cli'[c] = Off, turns' \in Nat
  PROVE  CliFits(c)' /\ HistoryFits(c)'
<1>1. Pc(c)' = "off" /\ cli'[c].turn = 0 /\ cli'[c].results = <<>> /\ Conv(c)' = <<>>
  BY DEF Off, Pc, Conv
<1>2. TurnsFit(c)'
  BY <1>1 DEF TurnsFit
<1> QED
  BY <1>1, <1>2 DEF CliFits, HistoryFits, Accepted, Answered, Dispatching, NoResults, TurnFits

(* A fault is counted.                                                     *)
LEMMA FaultType ==
  ASSUME TypeOK, Fault \/ faults' = faults PROVE faults' \in 0 .. MaxFaults
BY SessionAssumption DEF TypeOK, Fault

(* A program that runs works on a session.                                 *)
LEMMA RunsOnSession ==
  ASSUME IInv, NEW c \in Clis, Pc(c) # "off" PROVE created
BY DEF IInv, Started

(* The end of a program that stores nothing: Quit, TurnFails, Kill.        *)
LEMMA EndStep ==
  ASSUME IInv, NEW c \in Clis, Quit(c) \/ TurnFails(c) \/ Kill(c)
  PROVE  IInv'
<1>1. /\ Pc(c) # "off" /\ cli' = [cli EXCEPT ![c] = Off]
      /\ UNCHANGED <<created, rows, turns, shown, alone>>
      /\ Fault \/ faults' = faults
  BY DEF Quit, TurnFails, Kill
<1>2. TypeOK /\ cli \in [Clis -> Cli] /\ turns \in Nat
  BY SessionAssumption DEF IInv, TypeOK
<1>3. cli' \in [Clis -> Cli] /\ cli'[c] = Off /\ \A d \in Clis : d # c => cli'[d] = cli[d]
  BY <1>1, <1>2, OffType
<1>4. CliFits(c)' /\ HistoryFits(c)'
  BY <1>1, <1>2, <1>3, OffFits
<1>5. faults' \in 0 .. MaxFaults
  BY <1>1, <1>2, FaultType
<1>6. created'
  BY <1>1, RunsOnSession
<1> QED
  BY <1>1, <1>2, <1>3, <1>4, <1>5, <1>6, StepOf DEF IInv, TypeOK, RowsFit

-----------------------------------------------------------------------------
(* Starting a program and a turn.                                          *)

(* A program at the prompt fits when its messages are of turns begun.      *)
LEMMA PromptFits ==
  ASSUME NEW c \in Clis, NEW conv \in Seq(Message), turns' \in Nat,
         cli'[c] = [Off EXCEPT !.pc = "prompt", !.conv = conv],
         \A i \in DOMAIN conv : conv[i].text.turn <= turns'
  PROVE  /\ cli'[c] \in Cli /\ CliFits(c)'
         /\ Pc(c)' = "prompt" /\ Conv(c)' = conv
<1>1. cli'[c] \in Cli
  BY OffType DEF Cli, Off, Steps
<1>2. Pc(c)' = "prompt" /\ Conv(c)' = conv /\ cli'[c].turn = 0 /\ cli'[c].results = <<>>
  BY DEF Off, Pc, Conv
<1>3. TurnsFit(c)'
  BY <1>2 DEF TurnsFit
<1>4. CliFits(c)'
  BY <1>2, <1>3 DEF CliFits, Accepted, Answered, Dispatching, NoResults, TurnFits
<1> QED
  BY <1>1, <1>2, <1>4

(* Nothing matches nothing.                                                *)
LEMMA EmptyMatches == Matches(<<>>, <<>>)
<1>1. Kept(<<>>) = {}
  BY DEF Kept
<1> QED
  BY <1>1, FS_EmptySet DEF Matches

(* CreateSession.                                                          *)
LEMMA CreateStep == ASSUME IInv, NEW c \in Clis, CreateSession(c) PROVE IInv'
<1>1. /\ ~created /\ created' = TRUE /\ cli' = [cli EXCEPT ![c] = [Off EXCEPT !.pc = "prompt"]]
      /\ alone' = alone \cup {c} /\ UNCHANGED <<rows, turns, shown, faults>>
  BY DEF CreateSession
<1>2. /\ TypeOK /\ cli \in [Clis -> Cli] /\ turns \in Nat /\ rows = <<>> /\ alone \subseteq Clis
      /\ <<>> \in Seq(Message)
  BY <1>1, SessionAssumption DEF IInv, TypeOK, Started
<1>3. cli'[c] = [Off EXCEPT !.pc = "prompt", !.conv = <<>>]
  <2>1. cli'[c] = [Off EXCEPT !.pc = "prompt"]
    BY <1>1, <1>2
  <2>2. [Off EXCEPT !.pc = "prompt"] = [Off EXCEPT !.pc = "prompt", !.conv = <<>>]
    <3> DEFINE r == [Off EXCEPT !.pc = "prompt"]
    <3>1. r \in Cli /\ r.conv = <<>>
      BY OffType DEF Off, Cli, Steps
    <3>2. \A x \in Cli : x = [x EXCEPT !.conv = x.conv]
      BY DEF Cli
    <3>3. r = [r EXCEPT !.conv = <<>>]
      BY <3>1, <3>2
    <3> QED
      BY <3>3
  <2> QED
    BY <2>1, <2>2
<1>4. cli'[c] \in Cli /\ CliFits(c)' /\ Pc(c)' = "prompt" /\ Conv(c)' = <<>>
  <2>1. turns' \in Nat /\ \A i \in DOMAIN <<>> : <<>>[i].text.turn <= turns'
    BY <1>1, <1>2
  <2> QED
    BY <1>2, <1>3, <2>1, PromptFits
<1>5. cli' \in [Clis -> Cli] /\ \A d \in Clis : d # c => cli'[d] = cli[d]
  BY <1>1, <1>2, <1>4
<1>6. HistoryFits(c)'
  BY <1>1, <1>2, <1>4, EmptyMatches DEF HistoryFits
<1> QED
  BY <1>1, <1>2, <1>4, <1>5, <1>6, StepOf DEF IInv, TypeOK, RowsFit

(* ResumeSession: the conversation is read from the rows.                  *)
LEMMA ResumeStep == ASSUME IInv, NEW c \in Clis, ResumeSession(c) PROVE IInv'
<1> DEFINE conv == Rehydrate(rows)
<1>1. /\ created /\ created' = created
      /\ cli' = [cli EXCEPT ![c] = [Off EXCEPT !.pc = "prompt", !.conv = conv]]
      /\ alone' = alone \cup {c} /\ UNCHANGED <<rows, turns, shown, faults>>
  BY DEF ResumeSession, ListMessages
<1>2. /\ TypeOK /\ cli \in [Clis -> Cli] /\ turns \in Nat /\ rows \in Seq(Row)
      /\ alone \subseteq Clis
  BY SessionAssumption DEF IInv, TypeOK
<1>3. conv \in Seq(Message) /\ Matches(conv, rows)
  BY <1>2, RehydrateMatches
<1>4. \A i \in DOMAIN conv : conv[i].text.turn <= turns'
  BY <1>1 DEF Rehydrate, Plain, IInv, RowsFit
<1> HIDE DEF conv
<1>5. cli'[c] \in Cli /\ CliFits(c)' /\ Pc(c)' = "prompt" /\ Conv(c)' = conv
  <2>1. cli'[c] = [Off EXCEPT !.pc = "prompt", !.conv = conv]
    BY <1>1, <1>2
  <2> QED
    BY <1>1, <1>2, <1>3, <1>4, <2>1, PromptFits
<1>6. cli' \in [Clis -> Cli] /\ \A d \in Clis : d # c => cli'[d] = cli[d]
  BY <1>1, <1>2, <1>5
<1>7. HistoryFits(c)'
  BY <1>1, <1>3, <1>5 DEF HistoryFits
<1> QED
  BY <1>1, <1>2, <1>5, <1>6, <1>7, StepOf DEF IInv, TypeOK, RowsFit

(* The message texts of a conversation are of numbered turns.              *)
LEMMA TextTurns ==
  ASSUME NEW conv \in Seq(Message), NEW i \in DOMAIN conv
  PROVE  conv[i] \in Message /\ conv[i].text.turn \in Nat
<1>1. conv[i] \in Message
  BY LenProperties, ElementOfSeq
<1> QED
  BY <1>1 DEF Message, Text

(* ReadInput: the turn gets a number no message has.                       *)
LEMMA ReadInputStep == ASSUME IInv, NEW c \in Clis, ReadInput(c) PROVE IInv'
<1> DEFINE conv == cli[c].conv
<1>1. /\ Pc(c) = "prompt" /\ turns < MaxTurns /\ turns' = turns + 1
      /\ cli' = [cli EXCEPT ![c] = [Off EXCEPT !.pc = "accept", !.conv = conv,
                                               !.turn = turns + 1]]
      /\ UNCHANGED <<created, rows, shown, alone, faults>>
  BY DEF ReadInput
<1>2. /\ TypeOK /\ cli \in [Clis -> Cli] /\ turns \in Nat /\ MaxTurns \in Nat
      /\ conv \in Seq(Message) /\ alone \subseteq Clis /\ rows \in Seq(Row)
  BY SessionAssumption, CliTypes DEF IInv, TypeOK, Conv
<1>3. \A i \in DOMAIN conv : conv[i].text.turn < turns + 1 /\ conv[i].text.turn <= turns'
  <2>1. \A i \in DOMAIN conv : conv[i].text.turn \in Nat /\ conv[i].text.turn <= turns
    BY <1>2, TextTurns DEF IInv, CliFits, TurnsFit, Conv
  <2> QED
    BY <1>1, <1>2, <2>1
<1>4. created'
  BY <1>1, RunsOnSession
<1>5. HistoryFits(c) => Matches(conv, rows)
  BY <1>1 DEF HistoryFits, Conv
<1> HIDE DEF conv
<1>6. cli'[c] = [Off EXCEPT !.pc = "accept", !.conv = conv, !.turn = turns + 1]
  BY <1>1, <1>2
<1>7. /\ Pc(c)' = "accept" /\ Conv(c)' = conv /\ cli'[c].turn = turns + 1
      /\ cli'[c].results = <<>>
  BY <1>6 DEF Off, Pc, Conv
<1>8. cli' \in [Clis -> Cli] /\ \A d \in Clis : d # c => cli'[d] = cli[d]
  <2>1. cli'[c] \in Cli
    <3>1. [Off EXCEPT !.pc = "accept", !.conv = conv] \in Cli
      BY <1>2, OffType DEF Cli, Steps
    <3>2. turns + 1 \in Nat
      BY <1>2
    <3>3. \A r \in Cli, n \in Nat : [r EXCEPT !.turn = n] \in Cli
      BY DEF Cli
    <3>4. cli'[c] = [[Off EXCEPT !.pc = "accept", !.conv = conv] EXCEPT !.turn = turns + 1]
      BY <1>6
    <3> QED
      BY <3>1, <3>2, <3>3, <3>4
  <2> QED
    BY <1>1, <1>2, <2>1
<1>9. CliFits(c)'
  <2>1. TurnsFit(c)'
    BY <1>1, <1>2, <1>3, <1>7 DEF TurnsFit
  <2> QED
    BY <1>7, <2>1 DEF CliFits, Accepted, Answered, Dispatching, NoResults, TurnFits
<1>10. c \in alone' => HistoryFits(c)'
  BY <1>1, <1>5, <1>7 DEF IInv, HistoryFits
<1>11. turns' \in 0 .. MaxTurns /\ turns' >= turns
  BY <1>1, <1>2
<1>12. \A i \in DOMAIN rows' : rows'[i].text.turn <= turns'
  <2>1. \A i \in DOMAIN rows : rows[i].text.turn <= turns /\ rows[i].text.turn \in Nat
    <3>1. \A i \in DOMAIN rows : rows[i] \in Row
      BY <1>2, LenProperties, ElementOfSeq
    <3> QED
      BY <3>1 DEF IInv, RowsFit, Row, Text
  <2> QED
    BY <1>1, <1>2, <2>1
<1> QED
  BY <1>1, <1>2, <1>4, <1>8, <1>9, <1>10, <1>11, <1>12, StepOf DEF IInv, TypeOK

-----------------------------------------------------------------------------
(* Storing the user's message.                                             *)

(* A plain message has its types.                                          *)
LEMMA PlainType ==
  ASSUME NEW role \in {"system", "user", "assistant", "tool"}, NEW text \in Text
  PROVE  /\ Plain(role, text) \in Message
         /\ Plain(role, text).role = role /\ Plain(role, text).text = text
         /\ Plain(role, text).calls = <<>>
<1>1. <<>> \in Seq(Calls)
  OBVIOUS
<1> QED
  BY <1>1 DEF Plain, Message

(* A row more.                                                             *)
LEMMA AppendRow ==
  ASSUME TypeOK, NEW r \in Row, rows' = Append(rows, r)
  PROVE  /\ rows' \in Seq(Row) /\ Len(rows) \in Nat
         /\ DOMAIN rows = 1 .. Len(rows) /\ DOMAIN rows' = 1 .. Len(rows) + 1
         /\ \A i \in DOMAIN rows : i \in DOMAIN rows' /\ rows'[i] = rows[i]
         /\ rows'[Len(rows) + 1] = r
<1>1. rows \in Seq(Row) /\ Len(rows) \in Nat /\ DOMAIN rows = 1 .. Len(rows)
  BY LenProperties DEF TypeOK
<1>2. /\ Append(rows, r) \in Seq(Row) /\ Len(Append(rows, r)) = Len(rows) + 1
      /\ \A i \in 1 .. Len(rows) : Append(rows, r)[i] = rows[i]
      /\ Append(rows, r)[Len(rows) + 1] = r
  BY <1>1, AppendProperties
<1>3. DOMAIN Append(rows, r) = 1 .. Len(rows) + 1
  BY <1>2, LenProperties
<1> QED
  BY <1>1, <1>2, <1>3

(* The rows stay those of turns begun.                                     *)
LEMMA AppendRowFits ==
  ASSUME IInv, NEW r \in Row, r.text.turn <= turns, rows' = Append(rows, r), turns' = turns
  PROVE  \A i \in DOMAIN rows' : rows'[i].text.turn <= turns'
<1>1. TypeOK /\ RowsFit
  BY DEF IInv
<1>2. /\ Len(rows) \in Nat /\ DOMAIN rows = 1 .. Len(rows) /\ DOMAIN rows' = 1 .. Len(rows) + 1
      /\ \A i \in DOMAIN rows : rows'[i] = rows[i]
      /\ rows'[Len(rows) + 1] = r
  BY <1>1, AppendRow
<1>3. \A i \in DOMAIN rows' : i \in DOMAIN rows \/ i = Len(rows) + 1
  BY <1>2
<1> QED
  BY <1>1, <1>2, <1>3 DEF RowsFit

(* appendConversation adds the user's message, and before it the system    *)
(* prompt when there is none.                                              *)
LEMMA StartOfTurn ==
  ASSUME NEW conv \in Seq(Message), NEW text \in Text
  PROVE  \/ AppendConversation(conv, text) = Append(conv, Plain("user", text))
         \/ AppendConversation(conv, text) =
              Append(Append(conv, Plain("system", NoText)), Plain("user", text))
<1> DEFINE user   == Plain("user", text)
           system == Plain("system", NoText)
           new    == AppendConversation(conv, text)
<1>1. user \in Message /\ system \in Message
  <2>1. NoText \in Text
    BY DEF Text, NoText
  <2> QED
    BY <2>1, PlainType
<1> HIDE DEF user, system
<1>2. \/ new = conv \o <<>> \o <<user>>
      \/ new = conv \o <<system>> \o <<user>>
  BY Zenon DEF AppendConversation, user, system
<1> HIDE DEF new
<1>3. conv \o <<>> = conv /\ conv \o <<system>> = Append(conv, system)
      /\ Append(conv, system) \in Seq(Message)
  BY <1>1, ConcatEmptySeq, AppendIsConcat, AppendProperties
<1>4. /\ conv \o <<user>> = Append(conv, user)
      /\ Append(conv, system) \o <<user>> = Append(Append(conv, system), user)
  BY <1>1, <1>3, AppendIsConcat
<1>5. new = Append(conv, user) \/ new = Append(Append(conv, system), user)
  BY <1>2, <1>3, <1>4
<1> QED
  BY <1>5 DEF new, user, system

(* The conversation a turn starts with: the user's message is the last,    *)
(* the only one of its turn, and what is stored of the rest is unchanged.  *)
LEMMA NewTurn ==
  ASSUME NEW conv \in Seq(Message), NEW turn \in Nat, turn > 0,
         \A i \in DOMAIN conv : conv[i].text.turn < turn,
         NEW text, text = [turn |-> turn, round |-> 0],
         NEW new, new = AppendConversation(conv, text)
  PROVE  /\ new \in Seq(Message) /\ Len(new) \in Nat /\ Len(new) > 0
         /\ new[Len(new)] = Plain("user", text)
         /\ \A i \in 1 .. Len(new) - 1 : new[i].text.turn < turn
         /\ \A stored \in Seq(Row) :
              Matches(conv, stored) => Matches(new, Append(stored, UserRow(turn)))
<1> DEFINE user   == Plain("user", text)
           system == Plain("system", NoText)
<1>1. text \in Text /\ NoText \in Text /\ text.turn = turn /\ NoText.turn = 0
  BY DEF Text, NoText
<1>2. /\ user \in Message /\ user.role = "user" /\ user.text = text
      /\ system \in Message /\ system.role = "system" /\ system.text = NoText
  BY <1>1, PlainType
<1>3. RowOf(user) = UserRow(turn)
  BY <1>2 DEF RowOf, UserRow
<1> HIDE DEF user, system
<1>4. ASSUME NEW base \in Seq(Message), \A i \in DOMAIN base : base[i].text.turn < turn,
             \A stored \in Seq(Row) : Matches(conv, stored) => Matches(base, stored),
             new = Append(base, user)
      PROVE  /\ new \in Seq(Message) /\ Len(new) \in Nat /\ Len(new) > 0
             /\ new[Len(new)] = user
             /\ \A i \in 1 .. Len(new) - 1 : new[i].text.turn < turn
             /\ \A stored \in Seq(Row) :
                  Matches(conv, stored) => Matches(new, Append(stored, UserRow(turn)))
  <2>1. /\ Len(base) \in Nat /\ DOMAIN base = 1 .. Len(base)
        /\ new \in Seq(Message) /\ Len(new) = Len(base) + 1
        /\ \A i \in 1 .. Len(base) : new[i] = base[i]
        /\ new[Len(base) + 1] = user
    <3>1. Len(base) \in Nat /\ DOMAIN base = 1 .. Len(base)
      BY <1>4, LenProperties
    <3>2. /\ Append(base, user) \in Seq(Message) /\ Len(Append(base, user)) = Len(base) + 1
          /\ \A i \in 1 .. Len(base) : Append(base, user)[i] = base[i]
          /\ Append(base, user)[Len(base) + 1] = user
      BY <1>2, <1>4, AppendProperties
    <3>3. new = Append(base, user)
      BY <1>4
    <3> QED
      BY <3>1, <3>2, <3>3, Zenon
  <2>2. \A i \in 1 .. Len(new) - 1 : new[i].text.turn < turn
    BY <1>4, <2>1
  <2>3. \A stored \in Seq(Row) :
          Matches(conv, stored) => Matches(new, Append(stored, UserRow(turn)))
    BY <1>2, <1>3, <1>4, AppendStored
  <2> QED
    BY <2>1, <2>2, <2>3
<1>5. new = Append(conv, user) \/ new = Append(Append(conv, system), user)
  BY <1>1, StartOfTurn DEF user, system
<1>6. CASE new = Append(conv, user)
  BY <1>4, <1>6 DEF user
<1>7. CASE new = Append(Append(conv, system), user)
  <2> DEFINE base == Append(conv, system)
  <2>1. /\ base \in Seq(Message) /\ Len(base) = Len(conv) + 1 /\ Len(conv) \in Nat
        /\ DOMAIN base = 1 .. Len(conv) + 1 /\ DOMAIN conv = 1 .. Len(conv)
        /\ \A i \in 1 .. Len(conv) : base[i] = conv[i]
        /\ base[Len(conv) + 1] = system
    BY <1>2, AppendProperties, LenProperties
  <2>2. ASSUME NEW i \in DOMAIN base PROVE base[i].text.turn < turn
    <3>1. CASE i \in 1 .. Len(conv)
      BY <2>1, <3>1
    <3>2. CASE i = Len(conv) + 1
      BY <1>1, <1>2, <2>1, <3>2
    <3> QED
      BY <2>1, <3>1, <3>2
  <2>3. \A stored \in Seq(Row) : Matches(conv, stored) => Matches(base, stored)
    BY <1>2, AppendSystem
  <2> HIDE DEF base
  <2>4. new = Append(base, user)
    BY <1>7 DEF base
  <2> QED
    BY <1>4, <2>1, <2>2, <2>3, <2>4 DEF user
<1> QED
  BY <1>5, <1>6, <1>7

(* The program's state after a step, when it has its types.                *)
LEMMA CliUpdate ==
  ASSUME TypeOK, NEW c \in Clis, NEW r \in Cli, cli' = [cli EXCEPT ![c] = r]
  PROVE  /\ cli' \in [Clis -> Cli] /\ cli'[c] = r
         /\ \A d \in Clis : d # c => cli'[d] = cli[d]
BY DEF TypeOK

(* PersistUser: the turn begins with its message stored.                   *)
LEMMA PersistUserStep == ASSUME IInv, NEW c \in Clis, PersistUser(c) PROVE IInv'
<1> DEFINE turn == cli[c].turn
           text == UserText(c)
           new  == AppendConversation(Conv(c), text)
           n    == Len(new)
           user == Plain("user", text)
           r    == [cli[c] EXCEPT !.pc = "complete", !.conv = new]
<1>1. /\ Pc(c) = "accept" /\ rows' = Append(rows, RowOf(user)) /\ alone' = alone \cap {c}
      /\ cli' = [cli EXCEPT ![c].pc = "complete", ![c].conv = AppendConversation(@, text)]
      /\ UNCHANGED <<created, turns, shown, faults>>
  BY DEF PersistUser, AppendMessage
<1>2. /\ TypeOK /\ cli[c] \in Cli /\ Conv(c) \in Seq(Message) /\ turn \in Nat
      /\ turns \in Nat /\ rows \in Seq(Row)
  BY CliTypes, SessionAssumption DEF IInv, TypeOK
<1>3. /\ turn > 0 /\ turn <= turns /\ \A i \in DOMAIN Conv(c) : Conv(c)[i].text.turn < turn
      /\ cli[c].results = <<>>
  BY <1>1 DEF IInv, CliFits, TurnsFit, NoResults
<1>4. text = [turn |-> turn, round |-> 0] /\ text \in Text /\ text.turn = turn
  BY <1>2 DEF UserText, Text
<1>5. /\ new \in Seq(Message) /\ n \in Nat /\ n > 0
      /\ new[n] = user
      /\ \A i \in 1 .. n - 1 : new[i].text.turn < turn
      /\ Matches(Conv(c), rows) => Matches(new, Append(rows, UserRow(turn)))
  <2>1. new = AppendConversation(Conv(c), text)
    OBVIOUS
  <2> HIDE DEF new, turn, text
  <2>2. \A stored \in Seq(Row) :
          Matches(Conv(c), stored) => Matches(new, Append(stored, UserRow(turn)))
    BY <1>2, <1>3, <1>4, <2>1, NewTurn
  <2>3. /\ new \in Seq(Message) /\ n \in Nat /\ n > 0
        /\ new[n] = Plain("user", text)
        /\ \A i \in 1 .. n - 1 : new[i].text.turn < turn
    BY <1>2, <1>3, <1>4, <2>1, NewTurn
  <2> QED
    BY <1>2, <2>2, <2>3
<1>6. user.text = text /\ RowOf(user) = UserRow(turn) /\ UserRow(turn) \in Row
      /\ UserRow(turn).text.turn = turn
  BY <1>4, PlainType DEF RowOf, UserRow, Row
<1>7. r \in Cli /\ cli' = [cli EXCEPT ![c] = r]
  <2>1. cli' = [cli EXCEPT ![c] = r]
    <3> HIDE DEF text
    <3> QED
      BY <1>1, <1>2 DEF TypeOK, Conv
  <2>2. r \in Cli
    <3> HIDE DEF new
    <3> QED
      BY <1>2, <1>5 DEF Cli, Steps
  <2> QED
    BY <2>1, <2>2
<1>8. /\ r.pc = "complete" /\ r.conv = new /\ r.turn = turn /\ r.results = <<>>
  <2> HIDE DEF new
  <2> QED
    BY <1>2, <1>3 DEF Cli
<1> HIDE DEF r, new, text, turn, user
<1>9. cli' \in [Clis -> Cli] /\ cli'[c] = r /\ \A d \in Clis : d # c => cli'[d] = cli[d]
  BY <1>2, <1>7, CliUpdate
<1>10. Pc(c)' = "complete" /\ Conv(c)' = new /\ cli'[c].turn = turn /\ cli'[c].results = <<>>
       /\ UserText(c)' = text
  BY <1>4, <1>8, <1>9 DEF Pc, Conv, UserText
<1>11. /\ rows' \in Seq(Row) /\ Len(rows) \in Nat /\ DOMAIN rows' = 1 .. Len(rows) + 1
       /\ \A i \in DOMAIN rows : i \in DOMAIN rows' /\ rows'[i] = rows[i]
       /\ rows'[Len(rows) + 1] = UserRow(turn)
  BY <1>1, <1>2, <1>6, AppendRow
<1>12. \A i \in DOMAIN rows' : rows'[i].text.turn <= turns'
  BY <1>1, <1>3, <1>6, AppendRowFits
<1>13. Accepted(c)'
  <2>1. Len(rows) + 1 \in DOMAIN rows'
    BY <1>11
  <2> QED
    BY <1>10, <1>11, <2>1 DEF Accepted, UserRow
<1>14. DOMAIN new = 1 .. n /\ n \in DOMAIN new /\ \A i \in DOMAIN new : i # n => i \in 1 .. n - 1
  BY <1>5, LenProperties
<1>15. \A i \in DOMAIN new : i # n => new[i].text.turn \in Nat /\ new[i].text.turn < turn
  BY <1>5, <1>14, TextTurns
<1>16. TurnsFit(c)'
  <2>1. \A i \in DOMAIN new : new[i].text.turn <= turns
    BY <1>2, <1>3, <1>4, <1>5, <1>6, <1>15
  <2>2. \A k \in DOMAIN cli'[c].results : FALSE
    BY <1>10
  <2> QED
    BY <1>1, <1>3, <1>10, <2>1, <2>2 DEF TurnsFit
<1>17. TurnFits(c)'
  <2>0. PICK u \in DOMAIN new : u = n
    BY <1>14
  <2>1. \A i \in DOMAIN new : new[i] = Plain("user", text) <=> i = u
    BY <1>2, <1>4, <1>5, <1>6, <1>15, <2>0 DEF user
  <2>2. StartsAt(c, u)'
    BY <1>10, <2>1 DEF StartsAt
  <2>3. ResultsFollow(Conv(c)', u, Len(Conv(c)'))
    BY <1>5, <1>10, <2>0 DEF ResultsFollow
  <2> QED
    BY <1>10, <1>14, <2>2, <2>3 DEF TurnFits
<1>18. CliFits(c)'
  BY <1>10, <1>13, <1>16, <1>17 DEF CliFits, Answered, Dispatching, NoResults
<1>19. c \in alone' => HistoryFits(c)'
  <2>1. c \in alone' => Matches(Conv(c), rows)
    BY <1>1 DEF IInv, HistoryFits
  <2> QED
    BY <1>1, <1>5, <1>6, <1>10, <2>1 DEF HistoryFits
<1>20. created' /\ alone' \subseteq Clis /\ \A d \in alone' : d = c
  BY <1>1, <1>2, RunsOnSession DEF TypeOK
<1>21. turns' \in 0 .. MaxTurns /\ turns' >= turns /\ faults' \in 0 .. MaxFaults /\ shown' \subseteq Text
       /\ \A a \in shown' : a \in shown
  BY <1>1, <1>2 DEF TypeOK
<1> QED
  BY <1>9, <1>11, <1>12, <1>18, <1>19, <1>20, <1>21, StepOf

-----------------------------------------------------------------------------
(* Storing the answer.                                                     *)

(* finalAssistantMessage finds the last message when that is an answer.    *)
LEMMA FinalAnswer ==
  ASSUME NEW conv \in Seq(Message), conv # <<>>, conv[Len(conv)].role = "assistant"
  PROVE  FinalAssistantMessage(conv) = conv[Len(conv)]
<1> DEFINE L == Len(conv)
           A == Assistants(conv)
           i == CHOOSE k \in A : \A j \in A : j <= k
<1>1. L \in Nat /\ L # 0 /\ DOMAIN conv = 1 .. L
  BY EmptySeq, LenProperties
<1>2. L \in A /\ A \subseteq 1 .. L
  BY <1>1 DEF Assistants
<1>3. L \in A /\ \A j \in A : j <= L
  BY <1>1, <1>2
<1>4. i \in A /\ \A j \in A : j <= i
  <2> HIDE DEF A, L
  <2> QED
    BY <1>3, Zenon
<1>5. FinalAssistantMessage(conv) = conv[i]
  BY DEF FinalAssistantMessage
<1> HIDE DEF i, A, L
<1>6. i \in 1 .. L /\ L <= i
  BY <1>2, <1>4, Zenon
<1>7. i = L
  BY <1>1, <1>6
<1> QED
  BY <1>5, <1>7 DEF L

(* The row the turn's answer becomes.                                      *)
LEMMA AnswerRow ==
  ASSUME IInv, NEW c \in Clis, Pc(c) = "reply"
  PROVE  /\ RowOf(FinalAssistantMessage(Conv(c))) = [role |-> "assistant", text |-> cli[c].answer]
         /\ RowOf(FinalAssistantMessage(Conv(c))) = RowOf(LastMessage(c))
         /\ RowOf(LastMessage(c)) \in Row
         /\ RowOf(LastMessage(c)).text.turn = cli[c].turn
         /\ cli[c].turn <= turns /\ cli[c].answer \in Text
         /\ cli[c].answer.turn = cli[c].turn
<1>1. /\ Conv(c) # <<>> /\ LastMessage(c).role = "assistant"
      /\ LastMessage(c).text = cli[c].answer /\ cli[c].answer.turn = cli[c].turn
      /\ cli[c].turn <= turns
  BY DEF IInv, CliFits, Answered, TurnsFit
<1>2. Conv(c) \in Seq(Message) /\ cli[c].answer \in Text
  BY CliTypes DEF IInv
<1>3. FinalAssistantMessage(Conv(c)) = LastMessage(c)
  BY <1>1, <1>2, FinalAnswer DEF LastMessage
<1>4. RowOf(LastMessage(c)) = [role |-> "assistant", text |-> cli[c].answer]
  BY <1>1 DEF RowOf
<1>5. [role |-> "assistant", text |-> cli[c].answer] \in Row
  BY <1>2 DEF Row
<1> QED
  BY <1>1, <1>2, <1>3, <1>4, <1>5

(* PersistFails, with and without the row.                                 *)
LEMMA PersistFailsStep ==
  ASSUME IInv, NEW c \in Clis, NEW committed \in BOOLEAN, PersistFails(c, committed)
  PROVE  IInv'
<1> DEFINE m == IF Pc(c) = "accept" THEN Plain("user", UserText(c))
                ELSE FinalAssistantMessage(cli[c].conv)
<1>1. /\ Pc(c) \in {"accept", "reply"} /\ Fault /\ cli' = [cli EXCEPT ![c] = Off]
      /\ \/ UNCHANGED <<rows, alone>>
         \/ rows' = Append(rows, RowOf(m)) /\ alone' = alone \cap {c}
      /\ UNCHANGED <<created, turns, shown>>
  BY DEF PersistFails, AppendMessage
<1>2. TypeOK /\ turns \in Nat
  BY SessionAssumption DEF IInv, TypeOK
<1>3. cli' \in [Clis -> Cli] /\ cli'[c] = Off /\ \A d \in Clis : d # c => cli'[d] = cli[d]
  BY <1>1, <1>2, OffType, CliUpdate
<1>4. CliFits(c)' /\ HistoryFits(c)'
  BY <1>1, <1>2, <1>3, OffFits
<1>5. created' /\ faults' \in 0 .. MaxFaults
  <2>1. created /\ faults' \in 0 .. MaxFaults
    BY <1>1, <1>2, RunsOnSession, FaultType
  <2> QED
    BY <1>1, <2>1
<1>6. RowOf(m) \in Row /\ RowOf(m).text.turn <= turns
  <2>1. CASE Pc(c) = "accept"
    <3>1. cli[c].turn \in Nat /\ cli[c].turn <= turns
      BY <1>2, CliTypes DEF IInv, CliFits, TurnsFit
    <3>2. UserText(c) \in Text /\ UserText(c).turn = cli[c].turn
      BY <3>1 DEF UserText, Text
    <3>3. RowOf(m) = [role |-> "user", text |-> UserText(c)]
      BY <2>1, <3>2, PlainType DEF RowOf
    <3> QED
      BY <3>1, <3>2, <3>3 DEF Row
  <2>2. CASE Pc(c) = "reply"
    <3>1. m = FinalAssistantMessage(Conv(c))
      BY <2>2 DEF Conv
    <3> HIDE DEF m
    <3> QED
      BY <2>2, <3>1, AnswerRow
  <2> QED
    BY <1>1, <2>1, <2>2
<1> HIDE DEF m
<1>7. /\ rows' \in Seq(Row) /\ alone' \subseteq Clis
      /\ \A i \in DOMAIN rows : i \in DOMAIN rows' /\ rows'[i] = rows[i]
      /\ \A i \in DOMAIN rows' : rows'[i].text.turn <= turns'
      /\ \A d \in alone' : d # c => d \in alone /\ rows' = rows
  <2>1. CASE UNCHANGED <<rows, alone>>
    BY <1>1, <2>1 DEF IInv, TypeOK, RowsFit
  <2>2. CASE rows' = Append(rows, RowOf(m)) /\ alone' = alone \cap {c}
    <3>1. alone' \subseteq Clis /\ \A d \in alone' : d = c
      BY <1>2, <2>2 DEF TypeOK
    <3>2. rows' \in Seq(Row) /\ \A i \in DOMAIN rows : i \in DOMAIN rows' /\ rows'[i] = rows[i]
      BY <1>2, <1>6, <2>2, AppendRow
    <3>3. \A i \in DOMAIN rows' : rows'[i].text.turn <= turns'
      BY <1>1, <1>6, <2>2, AppendRowFits
    <3> QED
      BY <3>1, <3>2, <3>3
  <2> QED
    BY <1>1, <2>1, <2>2
<1>8. turns' \in 0 .. MaxTurns /\ turns' >= turns /\ shown' \subseteq Text /\ \A a \in shown' : a \in shown
  BY <1>1, <1>2 DEF TypeOK
<1> QED
  BY <1>3, <1>4, <1>5, <1>7, <1>8, StepOf

(* PersistReply: the answer is stored after the message of its turn, and   *)
(* the conversation at the prompt is what is stored.                       *)
LEMMA PersistReplyStep == ASSUME IInv, NEW c \in Clis, PersistReply(c) PROVE IInv'
<1> DEFINE row == RowOf(LastMessage(c))
<1>1. /\ Pc(c) = "reply" /\ rows' = Append(rows, RowOf(FinalAssistantMessage(Conv(c))))
      /\ alone' = alone \cap {c} /\ shown' = shown \cup {cli[c].answer}
      /\ cli' = [cli EXCEPT ![c] = Returned(c)] /\ UNCHANGED <<created, turns, faults>>
  BY DEF PersistReply, AppendMessage, Conv
<1>2. TypeOK /\ turns \in Nat /\ Conv(c) \in Seq(Message)
  BY CliTypes, SessionAssumption DEF IInv, TypeOK
<1>3. /\ rows' = Append(rows, row) /\ row = [role |-> "assistant", text |-> cli[c].answer]
      /\ row \in Row /\ row.text.turn <= turns /\ cli[c].answer \in Text
      /\ cli[c].answer.turn = cli[c].turn
  BY <1>1, AnswerRow
<1>4. /\ rows' \in Seq(Row) /\ Len(rows) \in Nat /\ DOMAIN rows = 1 .. Len(rows)
      /\ DOMAIN rows' = 1 .. Len(rows) + 1
      /\ \A i \in DOMAIN rows : i \in DOMAIN rows' /\ rows'[i] = rows[i]
      /\ rows'[Len(rows) + 1] = row
  BY <1>2, <1>3, AppendRow
<1>5. \A i \in DOMAIN rows' : rows'[i].text.turn <= turns'
  BY <1>1, <1>3, AppendRowFits
<1>6. \A a \in shown' : a \in shown \/ Durable(a)'
  <2>1. PICK i \in DOMAIN rows : rows[i] = UserRow(cli[c].turn)
    BY <1>1 DEF IInv, CliFits, Accepted
  <2>2. PICK j \in DOMAIN rows' : j = Len(rows) + 1
    BY <1>4
  <2>3. /\ i \in DOMAIN rows' /\ i < j /\ rows'[i] = UserRow(cli[c].answer.turn)
        /\ rows'[j] = [role |-> "assistant", text |-> cli[c].answer]
    BY <1>3, <1>4, <2>1, <2>2
  <2>4. \A a : a = cli[c].answer => Durable(a)'
    BY <2>3 DEF Durable, UserRow
  <2> QED
    BY <1>1, <2>4
<1>7. /\ Returned(c) \in Cli /\ cli' \in [Clis -> Cli]
      /\ \A d \in Clis : d # c => cli'[d] = cli[d]
      /\ CliFits(c)'
      /\ c \in alone' => HistoryFits(c)'
  <2>1. CASE c \in OneShot
    <3>1. Returned(c) = Off
      BY <2>1 DEF Returned
    <3>2. cli' \in [Clis -> Cli] /\ cli'[c] = Off /\ \A d \in Clis : d # c => cli'[d] = cli[d]
      BY <1>1, <1>2, <3>1, OffType, CliUpdate
    <3>3. CliFits(c)' /\ HistoryFits(c)'
      BY <1>1, <1>2, <3>2, OffFits
    <3> QED
      BY <3>1, <3>2, <3>3, OffType
  <2>2. CASE c \notin OneShot
    <3> DEFINE r == [Off EXCEPT !.pc = "prompt", !.conv = Conv(c)]
    <3>1. Returned(c) = r
      BY <2>2 DEF Returned, Conv
    <3>2. r \in Cli
      BY <1>2, OffType DEF Cli, Off, Steps
    <3> HIDE DEF r
    <3>3. cli' \in [Clis -> Cli] /\ cli'[c] = r /\ \A d \in Clis : d # c => cli'[d] = cli[d]
      BY <1>1, <1>2, <3>1, <3>2, CliUpdate
    <3>4. \A i \in DOMAIN Conv(c) : Conv(c)[i].text.turn <= turns'
      BY <1>1 DEF IInv, CliFits, TurnsFit
    <3>5. PICK conv \in Seq(Message) : conv = Conv(c)
      BY <1>2
    <3>6. CliFits(c)' /\ Pc(c)' = "prompt" /\ Conv(c)' = conv
      <4>1. cli'[c] = [Off EXCEPT !.pc = "prompt", !.conv = conv]
        BY <3>3, <3>5 DEF r
      <4> QED
        BY <1>1, <1>2, <3>4, <3>5, <4>1, PromptFits
    <3>7. c \in alone => Matches(Conv(c), Append(rows, row))
      BY <1>1 DEF IInv, HistoryFits
    <3>8. c \in alone' => HistoryFits(c)'
      BY <1>1, <1>3, <3>5, <3>6, <3>7 DEF HistoryFits
    <3> QED
      BY <3>1, <3>2, <3>3, <3>6, <3>8
  <2> QED
    BY <2>1, <2>2
<1>8. created' /\ alone' \subseteq Clis /\ \A d \in alone' : d = c
  BY <1>1, <1>2, RunsOnSession DEF TypeOK
<1>9. turns' \in 0 .. MaxTurns /\ turns' >= turns /\ faults' \in 0 .. MaxFaults /\ shown' \subseteq Text
  BY <1>1, <1>2, <1>3 DEF TypeOK
<1> QED
  BY <1>4, <1>5, <1>6, <1>7, <1>8, <1>9, StepOf

-----------------------------------------------------------------------------
(* The rounds of a turn.                                                   *)

(* The model's answer, or the fallback's: it becomes the last message, and *)
(* its calls, if any, are to be dispatched.                                *)
LEMMA AnswerStep ==
  ASSUME IInv, NEW c \in Clis, Pc(c) = "complete",
         NEW m \in Message, m.role = "assistant", m.text = RoundText(c),
         NEW r \in Cli, cli' = [cli EXCEPT ![c] = r],
         r.conv = Append(Conv(c), m), r.answer = RoundText(c), r.turn = cli[c].turn,
         r.results = cli[c].results, r.pc \in {"reply", "dispatch"},
         r.pc = "dispatch" => r.todo = m.calls /\ m.calls # <<>>,
         UNCHANGED <<created, rows, turns, shown, alone, faults>>
  PROVE  IInv'
<1> DEFINE conv == Conv(c)
           new  == Append(conv, m)
           L    == Len(conv)
<1>1. /\ TypeOK /\ conv \in Seq(Message) /\ L \in Nat /\ DOMAIN conv = 1 .. L
      /\ cli[c].turn \in Nat /\ turns \in Nat
  BY CliTypes, SessionAssumption DEF IInv, TypeOK
<1>2. /\ new \in Seq(Message) /\ Len(new) = L + 1 /\ DOMAIN new = 1 .. L + 1
      /\ \A i \in 1 .. L : new[i] = conv[i]
      /\ new[L + 1] = m
  <2>1. /\ new \in Seq(Message) /\ Len(new) = L + 1
        /\ \A i \in 1 .. L : new[i] = conv[i]
        /\ new[L + 1] = m
    BY <1>1, AppendProperties
  <2> QED
    BY <2>1, LenProperties
<1>3. cli' \in [Clis -> Cli] /\ cli'[c] = r /\ \A d \in Clis : d # c => cli'[d] = cli[d]
  BY <1>1, CliUpdate
<1>4. /\ Accepted(c) /\ NoResults(c) /\ TurnsFit(c) /\ TurnFits(c)
      /\ cli[c].results = <<>>
  BY DEF IInv, CliFits, NoResults
<1> HIDE DEF new, conv
<1>5. /\ Pc(c)' = r.pc /\ Conv(c)' = new /\ UserText(c)' = UserText(c)
      /\ LastMessage(c)' = m
  <2>1. Pc(c)' = r.pc /\ Conv(c)' = new /\ UserText(c)' = UserText(c)
    BY <1>3 DEF Pc, Conv, UserText, new, conv
  <2> QED
    BY <1>2, <2>1 DEF LastMessage
<1>6. m.text.turn = cli[c].turn
  BY DEF RoundText
<1>7. Accepted(c)'
  BY <1>3, <1>4 DEF Accepted
<1>8. Answered(c)'
  <2>1. Conv(c)' # <<>>
    BY <1>1, <1>2, <1>5
  <2>2. r.answer.turn = cli[c].turn
    BY DEF RoundText
  <2> QED
    BY <1>3, <1>5, <2>1, <2>2 DEF Answered
<1>9. Dispatching(c)'
  <2> SUFFICES ASSUME r.pc = "dispatch" PROVE Dispatching(c)'
    BY <1>5 DEF Dispatching
  <2>1. cli'[c].todo = m.calls /\ cli'[c].results = <<>> /\ m.calls # <<>> /\ m.calls \in Seq(Calls)
    BY <1>3, <1>4 DEF Message
  <2>2. Len(m.calls) \in Nat /\ Len(<<>>) = 0
    BY <2>1, LenProperties
  <2>3. Len(m.calls) = 0 + Len(m.calls) /\ \A k \in 1 .. Len(m.calls) : m.calls[k] = m.calls[0 + k]
    BY <2>2
  <2>4. \A k \in 1 .. 0 : FALSE
    OBVIOUS
  <2>5. LastMessage(c)'.calls = m.calls /\ Len(cli'[c].results) = 0
    BY <1>5, <2>1, <2>2
  <2> QED
    BY <2>1, <2>3, <2>4, <2>5, Zenon DEF Dispatching
<1>10. NoResults(c)'
  BY <1>3, <1>4 DEF NoResults
<1>11. TurnsFit(c)'
  <2>1. ASSUME NEW i \in DOMAIN new PROVE new[i].text.turn <= turns
    <3>1. CASE i \in 1 .. L
      BY <1>1, <1>2, <1>4, <3>1 DEF TurnsFit, conv
    <3>2. CASE i = L + 1
      BY <1>2, <1>4, <1>6, <3>2 DEF TurnsFit
    <3> QED
      BY <1>1, <1>2, <3>1, <3>2
  <2> QED
    BY <1>3, <1>4, <1>5, <2>1 DEF TurnsFit
<1>12. TurnFits(c)'
  <2>1. PICK u \in DOMAIN conv : StartsAt(c, u) /\ ResultsFollow(conv, u, L)
    BY <1>4 DEF TurnFits, conv
  <2>2. u \in Nat /\ u < L + 1 /\ u \in DOMAIN new
    BY <1>1, <1>2, <2>1
  <2>3. m # Plain("user", UserText(c))
    BY DEF Plain
  <2>4. StartsAt(c, u)'
    <3>1. \A i \in DOMAIN conv : conv[i] = Plain("user", UserText(c)) <=> i = u
      BY <2>1 DEF StartsAt, conv
    <3>2. \A i \in DOMAIN new : new[i] = Plain("user", UserText(c)) <=> i = u
      BY <1>1, <1>2, <2>2, <2>3, <3>1
    <3> QED
      BY <1>5, <2>2, <3>2 DEF StartsAt
  <2>5. ResultsFollow(new, u, L)
    <3> SUFFICES ASSUME NEW i \in u + 1 .. L
                 PROVE  /\ new[i].role \in {"assistant", "tool"}
                        /\ new[i].role = "assistant" =>
                             /\ i + Len(new[i].calls) <= L
                             /\ \A k \in 1 .. Len(new[i].calls) :
                                  new[i + k].role = "tool" /\ new[i + k].call = new[i].calls[k]
      BY DEF ResultsFollow
    <3>1. i \in 1 .. L /\ new[i] = conv[i]
      BY <1>1, <1>2, <2>2
    <3>2. conv[i] \in Message /\ Len(conv[i].calls) \in Nat
      <4>1. conv[i] \in Message
        BY <1>1, <3>1, ElementOfSeq
      <4> QED
        BY <4>1, LenProperties DEF Message
    <3>3. /\ conv[i].role \in {"assistant", "tool"}
          /\ conv[i].role = "assistant" =>
               /\ i + Len(conv[i].calls) <= L
               /\ \A k \in 1 .. Len(conv[i].calls) :
                    conv[i + k].role = "tool" /\ conv[i + k].call = conv[i].calls[k]
      BY <2>1 DEF ResultsFollow
    <3>4. i + Len(conv[i].calls) <= L =>
            \A k \in 1 .. Len(conv[i].calls) : i + k \in 1 .. L /\ new[i + k] = conv[i + k]
      BY <1>1, <1>2, <3>1, <3>2
    <3> QED
      BY <3>1, <3>3, <3>4
  <2>6. Len(Conv(c)') - 1 = L /\ u < Len(Conv(c)')
    BY <1>1, <1>2, <1>5, <2>2
  <2> QED
    BY <1>5, <2>2, <2>4, <2>5, <2>6 DEF TurnFits
<1>13. CliFits(c)'
  BY <1>7, <1>8, <1>9, <1>10, <1>11, <1>12 DEF CliFits
<1>14. c \in alone' => HistoryFits(c)'
  <2>1. c \in alone => Matches(conv, rows)
    BY DEF IInv, HistoryFits, conv
  <2>2. c \in alone => Matches(new, Append(rows, RowOf(m)))
    BY <1>1, <2>1, AppendStored DEF TypeOK, new
  <2> QED
    BY <1>5, <2>2 DEF HistoryFits
<1>15. created'
  BY RunsOnSession
<1> QED
  BY <1>1, <1>3, <1>13, <1>14, <1>15, StepOf DEF IInv, TypeOK, RowsFit

(* CompleteTurn, with the function calls of the model's answer.            *)
LEMMA CompleteTurnStep ==
  ASSUME IInv, NEW c \in Clis, NEW answered \in CallLists, CompleteTurn(c, answered)
  PROVE  IInv'
<1> DEFINE calls == MapResponse(answered)
           text  == RoundText(c)
           m     == [Plain("assistant", text) EXCEPT !.calls = calls]
           pc    == IF calls = <<>> \/ LimitReached(cli[c].round + 1)
                    THEN "reply" ELSE "dispatch"
           r     == [cli[c] EXCEPT !.conv = Append(Conv(c), m), !.answer = text,
                                   !.round = cli[c].round + 1, !.todo = calls, !.pc = pc]
<1>1. /\ TypeOK /\ cli[c] \in Cli /\ Conv(c) \in Seq(Message) /\ cli[c].round \in Nat
      /\ cli[c].turn \in Nat
  BY CliTypes DEF IInv
<1>2. calls \in Seq(Calls)
  <2>1. answered \in Seq(Calls)
    BY SessionAssumption
  <2>2. {i \in DOMAIN answered : answered[i] \notin CustomCalls} \in SUBSET DOMAIN answered
    OBVIOUS
  <2> QED
    BY <2>1, <2>2, SubsequenceType DEF MapResponse
<1>3. text \in Text
  BY <1>1 DEF RoundText, Text
<1>4. Pc(c) = "complete" /\ UNCHANGED <<created, rows, turns, shown, alone, faults>>
  BY DEF CompleteTurn
<1>5. cli' = [cli EXCEPT
       ![c].conv = Append(@, m), ![c].answer = text, ![c].round = @ + 1,
       ![c].todo = calls, ![c].pc = pc]
  BY DEF CompleteTurn
<1> HIDE DEF calls, text
<1>6. m \in Message /\ m.role = "assistant" /\ m.text = text /\ m.calls = calls
  BY <1>2, <1>3, PlainType DEF Message
<1>7. pc \in {"reply", "dispatch"} /\ (pc = "dispatch" => calls # <<>>)
  OBVIOUS
<1> HIDE DEF m, pc
<1>8. cli' = [cli EXCEPT ![c] = r]
  BY <1>1, <1>5 DEF TypeOK, Conv
<1>9. Append(Conv(c), m) \in Seq(Message) /\ cli[c].round + 1 \in Nat
  BY <1>1, <1>6, AppendProperties
<1>10. /\ r \in Cli /\ r.conv = Append(Conv(c), m) /\ r.answer = text /\ r.turn = cli[c].turn
       /\ r.results = cli[c].results /\ r.pc = pc /\ r.todo = calls
  BY <1>1, <1>2, <1>3, <1>7, <1>9 DEF Cli, Steps
<1> HIDE DEF r
<1> QED
  BY <1>4, <1>6, <1>7, <1>8, <1>10, AnswerStep DEF text

(* FallbackTurn: an answer without calls.                                  *)
LEMMA FallbackStep == ASSUME IInv, NEW c \in Clis, FallbackTurn(c) PROVE IInv'
<1> DEFINE text == RoundText(c)
           m    == Plain("assistant", text)
           r    == [cli[c] EXCEPT !.conv = Append(Conv(c), m), !.answer = text,
                                  !.round = cli[c].round + 1, !.pc = "reply"]
<1>1. /\ TypeOK /\ cli[c] \in Cli /\ Conv(c) \in Seq(Message) /\ cli[c].round \in Nat
      /\ cli[c].turn \in Nat
  BY CliTypes DEF IInv
<1>2. text \in Text
  BY <1>1 DEF RoundText, Text
<1>3. Pc(c) = "complete" /\ UNCHANGED <<created, rows, turns, shown, alone, faults>>
  BY DEF FallbackTurn
<1>4. cli' = [cli EXCEPT
       ![c].conv = Append(@, m), ![c].answer = text, ![c].round = @ + 1, ![c].pc = "reply"]
  BY DEF FallbackTurn
<1> HIDE DEF text
<1>5. m \in Message /\ m.role = "assistant" /\ m.text = text
  BY <1>2, PlainType
<1> HIDE DEF m
<1>6. cli' = [cli EXCEPT ![c] = r]
  BY <1>1, <1>4 DEF TypeOK, Conv
<1>7. Append(Conv(c), m) \in Seq(Message) /\ cli[c].round + 1 \in Nat
  BY <1>1, <1>5, AppendProperties
<1>8. /\ r \in Cli /\ r.conv = Append(Conv(c), m) /\ r.answer = text /\ r.turn = cli[c].turn
      /\ r.results = cli[c].results /\ r.pc = "reply"
  BY <1>1, <1>2, <1>7 DEF Cli, Steps
<1> HIDE DEF r
<1> QED
  BY <1>3, <1>5, <1>6, <1>8, AnswerStep DEF text

(* The result of a call: a tool's message with the ID of the call.         *)
LEMMA ResultOf ==
  ASSUME NEW c \in Clis, TypeOK, NEW call \in Calls, NEW result \in Execute(call),
         NEW m, m = ToolMessage(c, NormalizeToolResult(result, call))
  PROVE  /\ m \in Message /\ m.role = "tool" /\ m.call = call
         /\ m.text.turn = cli[c].turn
<1>1. NormalizeToolResult(result, call) = call
  BY DEF NormalizeToolResult, Execute
<1>2. RoundText(c) \in Text /\ RoundText(c).turn = cli[c].turn
  BY CliTypes DEF RoundText, Text
<1>3. Plain("tool", RoundText(c)) \in Message /\ Plain("tool", RoundText(c)).role = "tool"
      /\ Plain("tool", RoundText(c)).text = RoundText(c)
  BY <1>2, PlainType
<1>4. m = [Plain("tool", RoundText(c)) EXCEPT !.call = call]
  BY <1>1 DEF ToolMessage
<1>5. \A x \in Message : LET y == [x EXCEPT !.call = call]
                         IN y \in Message /\ y.role = x.role /\ y.call = call /\ y.text = x.text
  BY DEF Message
<1> QED
  BY <1>2, <1>3, <1>4, <1>5

(* When the results of the last answer join the conversation, every answer *)
(* of the turn has its results behind it.                                  *)
LEMMA ResultsJoin ==
  ASSUME NEW conv \in Seq(Message), NEW u \in DOMAIN conv, u < Len(conv),
         ResultsFollow(conv, u, Len(conv) - 1),
         conv[Len(conv)].role = "assistant",
         NEW res \in Seq(Message), Len(res) = Len(conv[Len(conv)].calls),
         \A k \in 1 .. Len(res) :
           res[k].role = "tool" /\ res[k].call = conv[Len(conv)].calls[k]
  PROVE  ResultsFollow(conv \o res, u, Len(conv \o res))
<1> DEFINE L   == Len(conv)
           new == conv \o res
<1>1. /\ L \in Nat /\ DOMAIN conv = 1 .. L /\ u \in 1 .. L /\ Len(res) \in Nat
  BY LenProperties
<1>2. /\ new \in Seq(Message) /\ Len(new) = L + Len(res)
      /\ \A i \in 1 .. L + Len(res) : new[i] = IF i <= L THEN conv[i] ELSE res[i - L]
  BY ConcatProperties
<1> HIDE DEF new, L
<1>3. \A i \in 1 .. L : new[i] = conv[i]
  BY <1>1, <1>2
<1>4. \A k \in 1 .. Len(res) : new[L + k] = res[k]
  <2>1. ASSUME NEW k \in 1 .. Len(res) PROVE new[L + k] = res[k]
    <3>1. L + k \in 1 .. L + Len(res) /\ ~(L + k <= L) /\ (L + k) - L = k
      BY <1>1
    <3> QED
      BY <1>2, <3>1
  <2> QED
    BY <2>1
<1>5. /\ ResultsFollow(conv, u, L - 1) /\ conv[L].role = "assistant"
      /\ Len(res) = Len(conv[L].calls) /\ u < L
      /\ \A k \in 1 .. Len(res) : res[k].role = "tool" /\ res[k].call = conv[L].calls[k]
  BY DEF L
<1>6. ASSUME NEW i \in u + 1 .. L + Len(res)
      PROVE  /\ new[i].role \in {"assistant", "tool"}
             /\ new[i].role = "assistant" =>
                  /\ i + Len(new[i].calls) <= L + Len(res)
                  /\ \A k \in 1 .. Len(new[i].calls) :
                       new[i + k].role = "tool" /\ new[i + k].call = new[i].calls[k]
  <2>1. CASE i < L
    <3>1. i \in 1 .. L /\ i \in u + 1 .. L - 1 /\ new[i] = conv[i]
      BY <1>1, <1>3, <2>1
    <3>2. Len(conv[i].calls) \in Nat
      <4>1. conv[i] \in Message
        BY <1>1, <3>1, TextTurns
      <4> QED
        BY <4>1, LenProperties DEF Message
    <3>3. /\ conv[i].role \in {"assistant", "tool"}
          /\ conv[i].role = "assistant" =>
               /\ i + Len(conv[i].calls) <= L - 1
               /\ \A k \in 1 .. Len(conv[i].calls) :
                    conv[i + k].role = "tool" /\ conv[i + k].call = conv[i].calls[k]
      BY <1>5, <3>1 DEF ResultsFollow
    <3>4. i + Len(conv[i].calls) <= L - 1 =>
            /\ i + Len(conv[i].calls) <= L + Len(res)
            /\ \A k \in 1 .. Len(conv[i].calls) : new[i + k] = conv[i + k]
      BY <1>1, <1>3, <3>1, <3>2
    <3> QED
      BY <3>1, <3>3, <3>4
  <2>2. CASE i = L
    <3>1. L \in 1 .. L /\ new[i] = conv[L]
      BY <1>1, <1>3, <2>2
    <3> QED
      BY <1>1, <1>4, <1>5, <2>2, <3>1
  <2>3. CASE i > L
    <3>1. i - L \in 1 .. Len(res) /\ L + (i - L) = i
      BY <1>1, <2>3
    <3>2. new[i].role = "tool"
      BY <1>4, <1>5, <3>1
    <3> QED
      BY <3>2
  <2> QED
    BY <1>1, <2>1, <2>2, <2>3
<1>7. ResultsFollow(new, u, L + Len(res))
  BY <1>6, Zenon DEF ResultsFollow
<1> QED
  BY <1>2, <1>7 DEF new

(* Dispatch, one call: a result more, or the results join.                 *)
LEMMA DispatchStep ==
  ASSUME IInv, NEW c \in Clis, NEW result \in Calls \cup {NoCall}, Dispatch(c, result)
  PROVE  IInv'
<1> DEFINE conv  == Conv(c)
           L     == Len(conv)
           todo  == cli[c].todo
           calls == LastMessage(c).calls
           done  == Len(cli[c].results)
           m     == ToolMessage(c, NormalizeToolResult(result, Head(todo)))
           res   == Append(cli[c].results, m)
           rest  == Tail(todo)
<1>1. /\ TypeOK /\ cli[c] \in Cli /\ conv \in Seq(Message) /\ L \in Nat /\ DOMAIN conv = 1 .. L
      /\ todo \in Seq(Calls) /\ cli[c].results \in Seq(Message) /\ done \in Nat
      /\ Len(todo) \in Nat /\ turns \in Nat /\ cli[c].turn \in Nat
  BY CliTypes, LenProperties, SessionAssumption DEF IInv, TypeOK
<1>2. /\ Pc(c) = "dispatch" /\ result \in Execute(Head(todo))
      /\ UNCHANGED <<created, rows, turns, shown, alone, faults>>
      /\ cli' = [cli EXCEPT
          ![c].todo = rest,
          ![c].results = IF rest = <<>> THEN <<>> ELSE res,
          ![c].conv = IF rest = <<>> THEN @ \o res ELSE @,
          ![c].pc = IF rest = <<>> THEN "complete" ELSE "dispatch"]
  BY DEF Dispatch
<1>3. /\ Accepted(c) /\ Answered(c) /\ TurnsFit(c) /\ TurnFits(c)
      /\ todo # <<>> /\ Len(calls) = done + Len(todo)
      /\ \A k \in 1 .. done : /\ cli[c].results[k].role = "tool"
                              /\ cli[c].results[k].call = calls[k]
      /\ \A k \in 1 .. Len(todo) : todo[k] = calls[done + k]
  <2>1. Accepted(c) /\ Answered(c) /\ TurnsFit(c) /\ TurnFits(c) /\ Dispatching(c)
    BY DEF IInv, CliFits
  <2> QED
    BY <1>2, <2>1, Zenon DEF Dispatching
<1>4. /\ conv # <<>> /\ LastMessage(c).role = "assistant" /\ LastMessage(c).text = cli[c].answer
      /\ cli[c].answer.turn = cli[c].turn /\ LastMessage(c) = conv[L]
  BY <1>2, <1>3 DEF Answered, LastMessage
<1> HIDE DEF conv, L, todo, calls, m
<1>5. /\ Len(todo) # 0 /\ Head(todo) \in Calls /\ Head(todo) = todo[1]
      /\ rest \in Seq(Calls) /\ Len(rest) = Len(todo) - 1
      /\ \A k \in 1 .. Len(rest) : rest[k] = todo[k + 1]
  <2>1. Len(todo) # 0
    BY <1>1, <1>3, EmptySeq
  <2> QED
    BY <1>1, <1>3, <2>1, HeadTailProperties, ElementOfSeq
<1>6. m \in Message /\ m.role = "tool" /\ m.call = Head(todo) /\ m.text.turn = cli[c].turn
  <2>1. m = ToolMessage(c, NormalizeToolResult(result, Head(todo)))
    BY DEF m
  <2>2. TypeOK /\ Head(todo) \in Calls /\ result \in Execute(Head(todo))
    BY <1>1, <1>2, <1>5
  <2> QED
    BY <2>1, <2>2, ResultOf
<1>7. /\ res \in Seq(Message) /\ Len(res) = done + 1 /\ DOMAIN res = 1 .. done + 1
      /\ \A k \in 1 .. done : res[k] = cli[c].results[k]
      /\ res[done + 1] = m
  <2>1. /\ res \in Seq(Message) /\ Len(res) = done + 1
        /\ \A k \in 1 .. done : res[k] = cli[c].results[k]
        /\ res[done + 1] = m
    BY <1>1, <1>6, AppendProperties
  <2> QED
    BY <2>1, LenProperties
<1> HIDE DEF res, rest, done
<1>8. \A k \in 1 .. done + 1 : res[k].role = "tool" /\ res[k].call = calls[k]
  <2>1. m.call = calls[done + 1]
    <3>1. 1 \in 1 .. Len(todo)
      BY <1>1, <1>5
    <3> QED
      BY <1>3, <1>5, <1>6, <3>1
  <2>2. \A k \in 1 .. done : res[k].role = "tool" /\ res[k].call = calls[k]
    BY <1>3, <1>7
  <2>3. \A k \in 1 .. done + 1 : k \in 1 .. done \/ k = done + 1
    BY <1>1
  <2>4. res[done + 1].role = "tool" /\ res[done + 1].call = calls[done + 1]
    BY <1>6, <1>7, <2>1
  <2> QED
    BY <2>2, <2>3, <2>4, Zenon
<1>9. Len(calls) = (done + 1) + Len(rest) /\ \A k \in 1 .. Len(rest) : rest[k] = calls[done + 1 + k]
  <2>1. ASSUME NEW k \in 1 .. Len(rest) PROVE rest[k] = calls[done + 1 + k]
    <3>1. k + 1 \in 1 .. Len(todo) /\ done + (k + 1) = done + 1 + k
      BY <1>1, <1>5
    <3> QED
      BY <1>3, <1>5, <3>1
  <2>2. /\ done \in Nat /\ Len(todo) \in Nat
        /\ Len(calls) = done + Len(todo) /\ Len(rest) = Len(todo) - 1
    BY <1>1, <1>3, <1>5, Zenon
  <2>3. Len(calls) = (done + 1) + Len(rest)
    BY <2>2
  <2> QED
    BY <2>1, <2>3, Zenon
<1>10. \A k \in DOMAIN res : res[k].text.turn <= turns
  <2>1. DOMAIN cli[c].results = 1 .. done
    BY <1>1, LenProperties DEF done
  <2>2. \A k \in 1 .. done : res[k].text.turn <= turns
    BY <1>3, <1>7, <2>1 DEF TurnsFit
  <2>3. res[done + 1].text.turn <= turns
    BY <1>3, <1>6, <1>7 DEF TurnsFit
  <2> QED
    BY <1>1, <1>7, <2>2, <2>3
<1>11. PICK u \in DOMAIN conv : u < L /\ StartsAt(c, u) /\ ResultsFollow(conv, u, L - 1)
  BY <1>2, <1>3 DEF TurnFits, conv, L
<1>12. /\ turns' \in 0 .. MaxTurns /\ turns' >= turns /\ faults' \in 0 .. MaxFaults
       /\ rows' \in Seq(Row) /\ rows' = rows
       /\ \A i \in DOMAIN rows' : rows'[i].text.turn <= turns'
       /\ shown' \subseteq Text /\ shown' = shown /\ alone' \subseteq Clis /\ alone' = alone
  BY <1>1, <1>2 DEF IInv, TypeOK, RowsFit
<1>13. created' /\ DOMAIN <<>> = {} /\ <<>> \in Seq(Message)
  BY <1>2, RunsOnSession
<1>14. CASE rest # <<>>
  <2> DEFINE r == [cli[c] EXCEPT !.todo = rest, !.results = res]
  <2>1. r \in Cli /\ r.todo = rest /\ r.results = res /\ r.conv = conv /\ r.pc = "dispatch"
        /\ r.turn = cli[c].turn /\ r.answer = cli[c].answer
    BY <1>1, <1>2, <1>5, <1>7 DEF Cli, Pc, Conv, conv
  <2>2. cli' = [cli EXCEPT ![c] = r]
    <3>1. cli' = [cli EXCEPT ![c].todo = rest, ![c].results = res, ![c].conv = @, ![c].pc = "dispatch"]
      BY <1>2, <1>14
    <3>2. cli[c].pc = "dispatch"
      BY <1>2 DEF Pc
    <3> QED
      BY <1>1, <3>1, <3>2 DEF TypeOK, Cli
  <2> HIDE DEF r
  <2>3. cli' \in [Clis -> Cli] /\ cli'[c] = r /\ \A d \in Clis : d # c => cli'[d] = cli[d]
    BY <1>1, <2>1, <2>2, CliUpdate
  <2>4. /\ Pc(c)' = "dispatch" /\ Conv(c)' = Conv(c) /\ LastMessage(c)' = LastMessage(c)
        /\ UserText(c)' = UserText(c)
    <3>1. Conv(c)' = Conv(c) /\ Pc(c)' = "dispatch"
      BY <2>1, <2>3 DEF Conv, Pc, conv
    <3> QED
      BY <2>1, <2>3, <3>1 DEF LastMessage, UserText
  <2>5. Accepted(c)' /\ Answered(c)' /\ NoResults(c)'
    BY <1>2, <1>3, <2>1, <2>3, <2>4 DEF Accepted, Answered, NoResults
  <2>6. Dispatching(c)'
    <3>1. LastMessage(c)'.calls = calls /\ Len(cli'[c].results) = done + 1 /\ cli'[c].todo = rest
          /\ cli'[c].results = res
      BY <1>7, <2>1, <2>3, <2>4 DEF calls
    <3> QED
      BY <1>8, <1>9, <1>14, <3>1, Zenon DEF Dispatching
  <2>7. TurnsFit(c)'
    BY <1>2, <1>3, <1>10, <2>1, <2>3, <2>4 DEF TurnsFit
  <2>8. TurnFits(c)'
    <3>1. StartsAt(c, u)'
      BY <1>11, <2>4 DEF StartsAt
    <3> QED
      BY <1>11, <2>4, <3>1 DEF TurnFits, conv, L
  <2>9. CliFits(c)'
    BY <2>5, <2>6, <2>7, <2>8 DEF CliFits
  <2>10. c \in alone' => HistoryFits(c)'
    BY <1>2, <2>4 DEF IInv, HistoryFits
  <2> QED
    BY <1>13, <1>12, <2>3, <2>9, <2>10, StepOf
<1>15. CASE rest = <<>>
  <2> DEFINE new == conv \o res
             r   == [cli[c] EXCEPT !.todo = <<>>, !.results = <<>>, !.conv = new, !.pc = "complete"]
  <2>1. /\ new \in Seq(Message) /\ Len(new) = L + (done + 1) /\ DOMAIN new = 1 .. L + (done + 1)
        /\ \A i \in 1 .. L + (done + 1) : new[i] = IF i <= L THEN conv[i] ELSE res[i - L]
    <3>1. /\ new \in Seq(Message) /\ Len(new) = L + Len(res)
          /\ \A i \in 1 .. L + Len(res) : new[i] = IF i <= L THEN conv[i] ELSE res[i - L]
      BY <1>1, <1>7, ConcatProperties DEF L
    <3>2. DOMAIN new = 1 .. Len(new)
      BY <3>1, LenProperties
    <3> QED
      BY <1>7, <3>1, <3>2
  <2>2. Len(res) = Len(calls)
    BY <1>1, <1>7, <1>9, <1>15
  <2>3. ResultsFollow(new, u, Len(new))
    BY <1>1, <1>4, <1>7, <1>8, <1>11, <2>2, ResultsJoin DEF L, calls
  <2>4. cli' = [cli EXCEPT ![c] = r]
    <3>1. cli' = [cli EXCEPT ![c].todo = <<>>, ![c].results = <<>>, ![c].conv = @ \o res, ![c].pc = "complete"]
      BY <1>2, <1>15
    <3> QED
      BY <1>1, <3>1 DEF TypeOK, Conv, conv
  <2> HIDE DEF new
  <2>5. /\ r \in Cli /\ r.results = <<>> /\ r.conv = new /\ r.pc = "complete"
        /\ r.turn = cli[c].turn
    <3>1. <<>> \in Seq(Calls) /\ <<>> \in Seq(Message)
      OBVIOUS
    <3> QED
      BY <1>1, <2>1, <3>1 DEF Cli, Steps
  <2> HIDE DEF r
  <2>6. cli' \in [Clis -> Cli] /\ cli'[c] = r /\ \A d \in Clis : d # c => cli'[d] = cli[d]
    BY <1>1, <2>4, <2>5, CliUpdate
  <2>7. Pc(c)' = "complete" /\ Conv(c)' = new /\ UserText(c)' = UserText(c) /\ cli'[c].turn = cli[c].turn
        /\ cli'[c].results = <<>>
    BY <2>5, <2>6 DEF Pc, Conv, UserText
  <2>8. Accepted(c)'
    BY <1>2, <1>3, <2>7 DEF Accepted
  <2>9. \A i \in DOMAIN new : \/ i \in DOMAIN conv /\ new[i] = conv[i]
                              \/ i \notin DOMAIN conv /\ \E k \in DOMAIN res : new[i] = res[k]
    <3>1. ASSUME NEW i \in DOMAIN new, i > L PROVE i - L \in DOMAIN res /\ new[i] = res[i - L]
      BY <1>1, <1>7, <2>1, <3>1
    <3>2. ASSUME NEW i \in DOMAIN new, i <= L PROVE i \in DOMAIN conv /\ new[i] = conv[i]
      BY <1>1, <1>7, <2>1, <3>2
    <3>3. \A i \in DOMAIN new : (i > L \/ i <= L) /\ (i > L => i \notin DOMAIN conv)
      BY <1>1, <2>1
    <3> QED
      BY <3>1, <3>2, <3>3
  <2>10. TurnsFit(c)'
    <3>1. \A i \in DOMAIN conv : conv[i].text.turn <= turns
      BY <1>3 DEF TurnsFit, conv
    <3>2. \A i \in DOMAIN new : new[i].text.turn <= turns
      BY <1>10, <2>9, <3>1
    <3>3. \A k \in DOMAIN cli'[c].results : FALSE
      BY <1>13, <2>7
    <3> QED
      BY <1>2, <1>3, <2>7, <3>2, <3>3 DEF TurnsFit
  <2>11. TurnFits(c)'
    <3>1. \A k \in DOMAIN res : res[k] # Plain("user", UserText(c))
      BY <1>7, <1>8 DEF Plain
    <3>2. \A i \in DOMAIN conv : conv[i] = Plain("user", UserText(c)) <=> i = u
      BY <1>11 DEF StartsAt, conv
    <3>3. \A i \in DOMAIN new : new[i] = Plain("user", UserText(c)) <=> i = u
      BY <1>11, <2>9, <3>1, <3>2, Zenon
    <3>4. u \in DOMAIN new
      BY <1>1, <1>11, <2>1
    <3>5. StartsAt(c, u)'
      BY <2>7, <3>3, <3>4 DEF StartsAt
    <3> QED
      BY <2>3, <2>7, <3>4, <3>5 DEF TurnFits
  <2>12. CliFits(c)'
    BY <2>7, <2>8, <2>10, <2>11 DEF CliFits, Answered, Dispatching, NoResults
  <2>13. c \in alone' => HistoryFits(c)'
    <3>1. c \in alone => Matches(conv, Append(rows, RowOf(LastMessage(c))))
      BY <1>2 DEF IInv, HistoryFits, conv
    <3>2. RowOf(LastMessage(c)) \in Row /\ rows \in Seq(Row)
      <4>1. LastMessage(c).text \in Text
        BY <1>1, <1>4, CliTypes
      <4> QED
        BY <1>1, <1>4, <4>1 DEF RowOf, Row, TypeOK
    <3>3. res # <<>> /\ \A k \in 1 .. Len(res) : res[k].role = "tool"
      BY <1>1, <1>7, <1>8
    <3>4. c \in alone => Matches(new, rows)
      BY <1>1, <1>4, <1>7, <3>1, <3>2, <3>3, AppendResults DEF L, new
    <3> QED
      BY <1>2, <2>7, <3>4 DEF HistoryFits
  <2> QED
    BY <1>13, <1>12, <2>6, <2>12, <2>13, StepOf
<1> QED
  BY <1>14, <1>15

-----------------------------------------------------------------------------
(* The theorems.                                                           *)

(* The invariant holds at the start: there is no session.                  *)
LEMMA InitEstablishes == ASSUME Init PROVE IInv
<1>1. /\ created = FALSE /\ rows = <<>> /\ cli = [c \in Clis |-> Off] /\ turns = 0
      /\ shown = {} /\ alone = {} /\ faults = 0
  BY DEF Init
<1>2. TypeOK
  <2>1. cli \in [Clis -> Cli]
    BY <1>1, OffType
  <2>2. rows \in Seq(Row)
    BY <1>1
  <2>3. turns \in 0 .. MaxTurns /\ faults \in 0 .. MaxFaults
    BY <1>1, SessionAssumption
  <2>4. created \in BOOLEAN /\ shown \subseteq Text /\ alone \subseteq Clis
    BY <1>1
  <2> QED
    BY <2>1, <2>2, <2>3, <2>4 DEF TypeOK
<1>3. ASSUME NEW c \in Clis PROVE Pc(c) = "off" /\ CliFits(c)
  <2>1. cli[c] = Off
    BY <1>1
  <2>2. Pc(c) = "off" /\ cli[c].turn = 0 /\ cli[c].results = <<>> /\ Conv(c) = <<>>
    BY <2>1 DEF Off, Pc, Conv
  <2>3. TurnsFit(c)
    BY <1>1, <2>2 DEF TurnsFit
  <2> QED
    BY <2>2, <2>3 DEF CliFits, Accepted, Answered, Dispatching, NoResults, TurnFits
<1>4. Started /\ RowsFit
  BY <1>1, <1>3 DEF Started, RowsFit
<1> QED
  BY <1>1, <1>2, <1>3, <1>4 DEF IInv

(* Every step keeps the invariant.                                         *)
LEMMA StepKeeps == ASSUME IInv, [Next]_vars PROVE IInv'
<1>1. ASSUME NEW c \in Clis, Step(c) PROVE IInv'
  <2>1. CASE CreateSession(c)
    BY <2>1, CreateStep
  <2>2. CASE ResumeSession(c)
    BY <2>2, ResumeStep
  <2>3. CASE ReadInput(c)
    BY <2>3, ReadInputStep
  <2>4. CASE Quit(c) \/ TurnFails(c) \/ Kill(c)
    BY <2>4, EndStep
  <2>5. CASE PersistUser(c)
    BY <2>5, PersistUserStep
  <2>6. CASE \E calls \in CallLists : CompleteTurn(c, calls)
    BY <2>6, CompleteTurnStep
  <2>7. CASE FallbackTurn(c)
    BY <2>7, FallbackStep
  <2>8. CASE \E result \in Calls \cup {NoCall} : Dispatch(c, result)
    BY <2>8, DispatchStep
  <2>9. CASE PersistReply(c)
    BY <2>9, PersistReplyStep
  <2>10. CASE \E committed \in BOOLEAN : PersistFails(c, committed)
    BY <2>10, PersistFailsStep
  <2> QED
    BY <1>1, <2>1, <2>2, <2>3, <2>4, <2>5, <2>6, <2>7, <2>8, <2>9, <2>10 DEF Step
<1>2. CASE UNCHANGED vars
  <2>1. created' = created /\ rows' = rows /\ cli' = cli /\ turns' = turns
        /\ shown' = shown /\ alone' = alone /\ faults' = faults
    BY <1>2 DEF vars
  <2>2. TypeOK' /\ Started' /\ RowsFit'
    BY <2>1 DEF IInv, TypeOK, Started, RowsFit, Pc
  <2>3. ASSUME NEW c \in Clis PROVE CliFits(c)'
    <3>1. turns \in Nat /\ TypeOK
      BY SessionAssumption DEF IInv, TypeOK
    <3>2. turns' \in Nat /\ turns' >= turns
      BY <2>1, <3>1
    <3> QED
      BY <2>1, <3>1, <3>2, OtherFits DEF IInv
  <2>4. ASSUME NEW c \in alone' PROVE HistoryFits(c)'
    <3>1. HistoryFits(c)
      BY <2>1, <2>4 DEF IInv
    <3> QED
      BY <2>1, <3>1 DEF HistoryFits, Pc, Conv, LastMessage
  <2>5. ASSUME NEW a \in shown' PROVE Durable(a)'
    BY <2>1, <2>5 DEF IInv, Durable
  <2> QED
    BY <2>2, <2>3, <2>4, <2>5 DEF IInv
<1> QED
  BY <1>1, <1>2 DEF Next

(* The inductive invariant, for any number of programs, turns and faults.  *)
THEOREM Invariance == Spec => []IInv
<1>1. Init => IInv
  BY InitEstablishes
<1>2. IInv /\ [Next]_vars => IInv'
  BY StepKeeps
<1> QED
  BY <1>1, <1>2, PTL DEF Spec

(* Type correctness.                                                       *)
THEOREM TypeCorrect == Spec => []TypeOK
<1>1. IInv => TypeOK
  BY DEF IInv
<1> QED
  BY <1>1, Invariance, PTL

(* An answer that was printed is stored, after the message it answers,     *)
(* however many programs write to the session, fail or are killed between  *)
(* the two PersistTurn calls of a turn.                                    *)
THEOREM SurfacedIsDurableTheorem == Spec => []SurfacedIsDurable
<1>1. IInv => SurfacedIsDurable
  BY DEF IInv, SurfacedIsDurable, Durable, UserRow
<1> QED
  BY <1>1, Invariance, PTL

(* At the prompt the conversation of a program nobody else has written     *)
(* beside is the stored one: what rehydrateConversation, the system prompt,*)
(* the tool rounds and the answers leave in it is what ListMessages gives. *)
THEOREM HistoryAlignedTheorem == Spec => []HistoryAligned
<1>1. ASSUME IInv PROVE HistoryAligned
  <2> SUFFICES ASSUME NEW c \in alone, Pc(c) = "prompt" PROVE StoredPart(cli[c].conv) = rows
    BY DEF HistoryAligned
  <2>1. c \in Clis /\ rows \in Seq(Row) /\ TypeOK /\ HistoryFits(c)
    BY <1>1 DEF IInv, TypeOK
  <2>2. Conv(c) \in Seq(Message) /\ Matches(Conv(c), rows)
    BY <2>1, CliTypes DEF HistoryFits
  <2>3. StoredPart(Conv(c)) = rows
    BY <2>1, <2>2, MatchesStoredPart
  <2> QED
    BY <2>3 DEF Conv
<1> QED
  BY <1>1, Invariance, PTL

-----------------------------------------------------------------------------
(* The whole request.  Besides the turn under way a conversation holds     *)
(* earlier turns, and one of those may have ended at the limit.            *)

\* The message at i has its results, or is the answer that met the limit.
Settled(conv, i) == HasResults(conv, i) \/ LimitReached(conv[i].text.round)

\* So has every message, but for an answer whose calls are being dispatched.
ProgramSettled(c) ==
  \A i \in DOMAIN Conv(c) :
    Settled(Conv(c), i) \/ (Pc(c) = "dispatch" /\ i = Len(Conv(c)))

SettledInv == \A c \in Clis : ProgramSettled(c)

(* A message that is no answer, or has no calls, is settled.               *)
LEMMA SettledPlain ==
  ASSUME NEW new \in Seq(Message), NEW i \in DOMAIN new,
         new[i].role # "assistant" \/ new[i].calls = <<>>
  PROVE  Settled(new, i)
<1>1. i \in Nat /\ i <= Len(new) /\ Len(new) \in Nat
  BY LenProperties
<1>2. CASE new[i].role # "assistant"
  BY <1>2 DEF Settled, HasResults
<1>3. CASE new[i].calls = <<>>
  <2>1. Len(new[i].calls) = 0
    BY <1>3
  <2>2. i + Len(new[i].calls) <= Len(new) /\ \A k \in 1 .. Len(new[i].calls) : FALSE
    BY <1>1, <2>1
  <2> QED
    BY <2>2, Zenon DEF Settled, HasResults
<1> QED
  BY <1>2, <1>3

(* What follows later does not change what is settled.                     *)
LEMMA SettledGrows ==
  ASSUME NEW conv \in Seq(Message), NEW new \in Seq(Message), NEW n \in Nat,
         n <= Len(conv), n <= Len(new), \A j \in 1 .. n : new[j] = conv[j],
         NEW i \in 1 .. n, Settled(conv, i),
         conv[i].role = "assistant" => i + Len(conv[i].calls) <= n \/ n = Len(conv)
  PROVE  Settled(new, i)
<1>1. Len(conv) \in Nat /\ Len(new) \in Nat /\ DOMAIN conv = 1 .. Len(conv) /\ new[i] = conv[i]
  BY LenProperties
<1> DEFINE calls == conv[i].calls
<1>2. i \in 1 .. Len(conv)
  <2>1. Len(conv) \in Nat /\ n <= Len(conv)
    BY <1>1
  <2> QED
    BY <2>1
<1>3. Len(calls) \in Nat
  <2>1. conv[i] \in Message
    BY <1>2, ElementOfSeq
  <2> QED
    BY <2>1, LenProperties DEF Message
<1>4. CASE LimitReached(conv[i].text.round)
  BY <1>1, <1>4 DEF Settled
<1>5. CASE HasResults(conv, i)
  <2> SUFFICES ASSUME conv[i].role = "assistant"
               PROVE  /\ i + Len(conv[i].calls) <= Len(new)
                      /\ \A k \in 1 .. Len(conv[i].calls) :
                           new[i + k].role = "tool" /\ new[i + k].call = conv[i].calls[k]
    BY <1>1, Zenon DEF Settled, HasResults
  <2>1. /\ i + Len(calls) <= Len(conv)
        /\ \A k \in 1 .. Len(calls) : conv[i + k].role = "tool" /\ conv[i + k].call = calls[k]
    BY <1>5 DEF HasResults
  <2>2. i + Len(calls) <= n
    BY <2>1
  <2> HIDE DEF calls
  <2>3. i + Len(calls) <= Len(new) /\ \A k \in 1 .. Len(calls) : i + k \in 1 .. n
    <3>1. \A a, l, m, z \in Nat :
            a >= 1 /\ a + l <= m /\ m <= z =>
              a + l <= z /\ \A k \in 1 .. l : a + k \in 1 .. m
      OBVIOUS
    <3>2. i \in Nat /\ i >= 1 /\ n \in Nat /\ n <= Len(new)
      OBVIOUS
    <3> QED
      BY <1>1, <1>3, <2>2, <3>1, <3>2, Zenon
  <2>4. \A k \in 1 .. Len(calls) : new[i + k] = conv[i + k]
    BY <2>3
  <2>5. \A k \in 1 .. Len(calls) : new[i + k].role = "tool" /\ new[i + k].call = calls[k]
    BY <2>1, <2>4
  <2> QED
    BY <2>3, <2>5 DEF calls
<1> QED
  BY <1>4, <1>5 DEF Settled

(* One message more, settled or to be dispatched.                          *)
LEMMA SettledAppend ==
  ASSUME NEW conv \in Seq(Message), NEW m \in Message,
         \A i \in DOMAIN conv : Settled(conv, i),
         NEW new, new = Append(conv, m)
  PROVE  /\ new \in Seq(Message) /\ Len(new) = Len(conv) + 1 /\ new[Len(new)] = m
         /\ Len(new) \in DOMAIN new
         /\ \A i \in DOMAIN new : i # Len(new) => Settled(new, i)
<1>1. Len(conv) \in Nat /\ DOMAIN conv = 1 .. Len(conv)
  BY LenProperties
<1>2. /\ new \in Seq(Message) /\ Len(new) = Len(conv) + 1
      /\ \A i \in 1 .. Len(conv) : new[i] = conv[i]
      /\ new[Len(conv) + 1] = m
  BY AppendProperties
<1>3. DOMAIN new = 1 .. Len(conv) + 1
  BY <1>2, LenProperties
<1>4. ASSUME NEW i \in DOMAIN new, i # Len(new) PROVE Settled(new, i)
  <2>1. i \in 1 .. Len(conv) /\ Len(conv) <= Len(conv) /\ Len(conv) <= Len(new)
    BY <1>1, <1>2, <1>3, <1>4
  <2>2. Settled(conv, i)
    BY <1>1, <2>1
  <2> QED
    BY <1>1, <1>2, <2>1, <2>2, SettledGrows
<1> QED
  BY <1>1, <1>2, <1>3, <1>4

(* A message without calls more.                                           *)
LEMMA SettledAppendPlain ==
  ASSUME NEW conv \in Seq(Message), NEW m \in Message, m.calls = <<>>,
         \A i \in DOMAIN conv : Settled(conv, i),
         NEW new, new = Append(conv, m)
  PROVE  new \in Seq(Message) /\ \A i \in DOMAIN new : Settled(new, i)
<1>1. /\ new \in Seq(Message) /\ new[Len(new)] = m /\ Len(new) \in DOMAIN new
      /\ \A i \in DOMAIN new : i # Len(new) => Settled(new, i)
  BY SettledAppend, Zenon
<1>2. Settled(new, Len(new))
  BY <1>1, SettledPlain
<1> QED
  BY <1>1, <1>2

(* What is left to show of a step of program c.                            *)
LEMMA SettledOf ==
  ASSUME SettledInv, NEW c \in Clis, \A d \in Clis : d # c => cli'[d] = cli[d],
         ProgramSettled(c)'
  PROVE  SettledInv'
<1>1. ASSUME NEW d \in Clis, d # c PROVE ProgramSettled(d)'
  <2>1. Pc(d)' = Pc(d) /\ Conv(d)' = Conv(d) /\ ProgramSettled(d)
    BY <1>1 DEF Pc, Conv, SettledInv
  <2> QED
    BY <2>1 DEF ProgramSettled
<1> QED
  BY <1>1 DEF SettledInv

(* The program's state when it ends, asks for a message or begins a turn.  *)
LEMMA SettledKept ==
  ASSUME IInv, SettledInv, NEW c \in Clis, NEW r, cli' = [cli EXCEPT ![c] = r],
         r.conv = <<>> \/ (r.conv = Conv(c) /\ Pc(c) # "dispatch")
  PROVE  SettledInv'
<1>1. cli'[c] = r /\ \A d \in Clis : d # c => cli'[d] = cli[d]
  BY DEF IInv, TypeOK
<1>2. Conv(c)' = r.conv
  BY <1>1 DEF Conv
<1>3. ProgramSettled(c)'
  <2>1. CASE r.conv = <<>>
    BY <1>2, <2>1 DEF ProgramSettled
  <2>2. CASE r.conv = Conv(c) /\ Pc(c) # "dispatch"
    <3>1. \A i \in DOMAIN Conv(c) : Settled(Conv(c), i)
      BY <2>2, Zenon DEF SettledInv, ProgramSettled
    <3> QED
      BY <1>2, <2>2, <3>1 DEF ProgramSettled
  <2> QED
    BY <2>1, <2>2
<1> QED
  BY <1>1, <1>3, SettledOf

(* ResumeSession: what is stored has no calls.                             *)
LEMMA SettledResume ==
  ASSUME IInv, IInv', SettledInv, NEW c \in Clis, ResumeSession(c)
  PROVE  SettledInv'
<1>1. cli' = [cli EXCEPT ![c] = [Off EXCEPT !.pc = "prompt", !.conv = Rehydrate(rows)]]
  BY DEF ResumeSession, ListMessages
<1>2. /\ cli'[c] = [Off EXCEPT !.pc = "prompt", !.conv = Rehydrate(rows)]
      /\ \A d \in Clis : d # c => cli'[d] = cli[d]
  BY <1>1 DEF IInv, TypeOK
<1>3. Conv(c)' = Rehydrate(rows)
  BY <1>2 DEF Conv, Off
<1>4. Conv(c)' \in Seq(Message)
  <2>1. cli'[c] \in Cli
    BY DEF IInv, TypeOK
  <2> QED
    BY <2>1 DEF Cli, Conv
<1>5. \A i \in DOMAIN Conv(c)' : Conv(c)'[i].calls = <<>>
  BY <1>3 DEF Rehydrate, Plain
<1>6. \A i \in DOMAIN Conv(c)' : Settled(Conv(c)', i)
  BY <1>4, <1>5, SettledPlain
<1>7. ProgramSettled(c)'
  BY <1>6 DEF ProgramSettled
<1> QED
  BY <1>2, <1>7, SettledOf

(* PersistUser: the messages that begin a turn have no calls.              *)
LEMMA SettledUser ==
  ASSUME IInv, SettledInv, NEW c \in Clis, PersistUser(c)
  PROVE  SettledInv'
<1> DEFINE conv == Conv(c)
           text == UserText(c)
           new  == AppendConversation(conv, text)
<1>1. /\ Pc(c) = "accept"
      /\ cli' = [cli EXCEPT ![c].pc = "complete", ![c].conv = AppendConversation(@, text)]
  BY DEF PersistUser
<1>2. TypeOK /\ conv \in Seq(Message) /\ cli[c].turn \in Nat /\ cli[c] \in Cli
  BY CliTypes DEF IInv
<1>3. text \in Text /\ NoText \in Text
  BY <1>2 DEF UserText, Text, NoText
<1>4. \A i \in DOMAIN conv : Settled(conv, i)
  BY <1>1, Zenon DEF SettledInv, ProgramSettled
<1> HIDE DEF text
<1>5. Conv(c)' = new /\ \A d \in Clis : d # c => cli'[d] = cli[d]
  BY <1>1, <1>2 DEF TypeOK, Conv, Cli
<1> HIDE DEF conv, new
<1>6. \A i \in DOMAIN new : Settled(new, i)
  <2> DEFINE user   == Plain("user", text)
             system == Plain("system", NoText)
             base   == Append(conv, system)
  <2>1. /\ user \in Message /\ user.calls = <<>>
        /\ system \in Message /\ system.calls = <<>>
    BY <1>3, PlainType
  <2>2. new = Append(conv, user) \/ new = Append(base, user)
    BY <1>2, <1>3, StartOfTurn DEF new
  <2> HIDE DEF user, system
  <2>3. CASE new = Append(conv, user)
    BY <1>2, <1>4, <2>1, <2>3, SettledAppendPlain
  <2>4. CASE new = Append(base, user)
    <3>1. base \in Seq(Message) /\ \A i \in DOMAIN base : Settled(base, i)
      BY <1>2, <1>4, <2>1, SettledAppendPlain
    <3> HIDE DEF base
    <3> QED
      BY <2>1, <2>4, <3>1, SettledAppendPlain
  <2> QED
    BY <2>2, <2>3, <2>4
<1>7. ProgramSettled(c)'
  BY <1>5, <1>6 DEF ProgramSettled
<1> QED
  BY <1>5, <1>7, SettledOf

(* CompleteTurn: the answer has no calls, meets the limit, or its calls    *)
(* are to be dispatched.                                                   *)
LEMMA SettledComplete ==
  ASSUME IInv, SettledInv, NEW c \in Clis, NEW answered \in CallLists, CompleteTurn(c, answered)
  PROVE  SettledInv'
<1> DEFINE calls == MapResponse(answered)
           text  == RoundText(c)
           m     == [Plain("assistant", text) EXCEPT !.calls = calls]
           conv  == Conv(c)
           new   == Append(conv, m)
           pc    == IF calls = <<>> \/ LimitReached(cli[c].round + 1)
                    THEN "reply" ELSE "dispatch"
<1>1. /\ TypeOK /\ cli[c] \in Cli /\ conv \in Seq(Message) /\ cli[c].round \in Nat
      /\ cli[c].turn \in Nat
  BY CliTypes DEF IInv
<1>2. calls \in Seq(Calls)
  <2>1. answered \in Seq(Calls)
    BY SessionAssumption
  <2>2. {i \in DOMAIN answered : answered[i] \notin CustomCalls} \in SUBSET DOMAIN answered
    OBVIOUS
  <2> QED
    BY <2>1, <2>2, SubsequenceType DEF MapResponse
<1>3. text \in Text /\ text.round = cli[c].round + 1
  BY <1>1 DEF RoundText, Text
<1>4. Pc(c) = "complete"
  BY DEF CompleteTurn
<1>5. cli' = [cli EXCEPT
       ![c].conv = Append(@, m), ![c].answer = text, ![c].round = @ + 1,
       ![c].todo = calls, ![c].pc = pc]
  BY DEF CompleteTurn
<1> HIDE DEF calls, text
<1>6. m \in Message /\ m.text = text /\ m.calls = calls
  BY <1>2, <1>3, PlainType DEF Message
<1> HIDE DEF m
<1>7. \A i \in DOMAIN conv : Settled(conv, i)
  BY <1>4, Zenon DEF SettledInv, ProgramSettled
<1>8. Conv(c)' = new /\ Pc(c)' = pc /\ \A d \in Clis : d # c => cli'[d] = cli[d]
  <2> HIDE DEF pc
  <2> QED
    BY <1>1, <1>5 DEF TypeOK, Conv, Cli, Pc
<1>9. /\ new \in Seq(Message) /\ new[Len(new)] = m /\ Len(new) \in DOMAIN new
      /\ \A i \in DOMAIN new : i # Len(new) => Settled(new, i)
  <2> HIDE DEF conv
  <2> QED
    BY <1>1, <1>6, <1>7, SettledAppend
<1> HIDE DEF new, conv
<1>10. pc = "dispatch" \/ Settled(new, Len(new))
  <2>1. CASE calls = <<>>
    BY <1>6, <1>9, <2>1, SettledPlain
  <2>2. CASE LimitReached(cli[c].round + 1)
    BY <1>3, <1>6, <1>9, <2>2 DEF Settled
  <2> QED
    BY <2>1, <2>2
<1> HIDE DEF pc
<1>11. ProgramSettled(c)'
  BY <1>8, <1>9, <1>10, Zenon DEF ProgramSettled
<1> QED
  BY <1>8, <1>11, SettledOf

(* FallbackTurn: the answer has no calls.                                  *)
LEMMA SettledFallback ==
  ASSUME IInv, SettledInv, NEW c \in Clis, FallbackTurn(c)
  PROVE  SettledInv'
<1> DEFINE text == RoundText(c)
           m    == Plain("assistant", text)
           conv == Conv(c)
           new  == Append(conv, m)
<1>1. /\ TypeOK /\ cli[c] \in Cli /\ conv \in Seq(Message) /\ cli[c].round \in Nat
      /\ cli[c].turn \in Nat
  BY CliTypes DEF IInv
<1>2. text \in Text
  BY <1>1 DEF RoundText, Text
<1>3. Pc(c) = "complete"
  BY DEF FallbackTurn
<1>4. cli' = [cli EXCEPT
       ![c].conv = Append(@, m), ![c].answer = text, ![c].round = @ + 1, ![c].pc = "reply"]
  BY DEF FallbackTurn
<1> HIDE DEF text
<1>5. m \in Message /\ m.calls = <<>>
  BY <1>2, PlainType
<1> HIDE DEF m
<1>6. \A i \in DOMAIN conv : Settled(conv, i)
  BY <1>3, Zenon DEF SettledInv, ProgramSettled
<1>7. Conv(c)' = new /\ \A d \in Clis : d # c => cli'[d] = cli[d]
  BY <1>1, <1>4 DEF TypeOK, Conv, Cli
<1>8. \A i \in DOMAIN new : Settled(new, i)
  <2> HIDE DEF conv
  <2> QED
    BY <1>1, <1>5, <1>6, SettledAppendPlain
<1>9. ProgramSettled(c)'
  BY <1>7, <1>8 DEF ProgramSettled
<1> QED
  BY <1>7, <1>9, SettledOf

(* Dispatch: the answer is settled when its results have joined.           *)
LEMMA SettledDispatch ==
  ASSUME IInv, IInv', SettledInv, NEW c \in Clis, NEW result \in Calls \cup {NoCall},
         Dispatch(c, result)
  PROVE  SettledInv'
<1> DEFINE conv == Conv(c)
           L    == Len(conv)
           new  == Conv(c)'
           m    == ToolMessage(c, NormalizeToolResult(result, Head(cli[c].todo)))
           res  == Append(cli[c].results, m)
           rest == Tail(cli[c].todo)
<1>1. /\ Pc(c) = "dispatch"
      /\ cli' = [cli EXCEPT
          ![c].todo = rest,
          ![c].results = IF rest = <<>> THEN <<>> ELSE res,
          ![c].conv = IF rest = <<>> THEN @ \o res ELSE @,
          ![c].pc = IF rest = <<>> THEN "complete" ELSE "dispatch"]
  BY DEF Dispatch
<1>2. TypeOK /\ cli[c] \in Cli /\ conv \in Seq(Message) /\ L \in Nat /\ DOMAIN conv = 1 .. L
  BY CliTypes DEF IInv
<1>3. new \in Seq(Message)
  <2>1. cli'[c] \in Cli
    BY DEF IInv, TypeOK
  <2> QED
    BY <2>1 DEF Cli, Conv
<1>4. \A i \in DOMAIN conv : Settled(conv, i) \/ i = L
  BY <1>1, Zenon DEF SettledInv, ProgramSettled
<1> HIDE DEF res, rest
<1>5. \A d \in Clis : d # c => cli'[d] = cli[d]
  BY <1>1, <1>2 DEF TypeOK
<1>6. CASE rest # <<>>
  <2>1. new = conv /\ Pc(c)' = "dispatch"
    BY <1>1, <1>2, <1>6 DEF TypeOK, Conv, Cli, Pc
  <2>2. ProgramSettled(c)'
    BY <1>4, <2>1 DEF ProgramSettled
  <2> QED
    BY <1>5, <2>2, SettledOf
<1>7. CASE rest = <<>>
  <2>1. new = conv \o res /\ Pc(c)' = "complete" /\ UserText(c)' = UserText(c)
    BY <1>1, <1>2, <1>7 DEF TypeOK, Conv, Cli, Pc, UserText
  <2>2. res \in Seq(Message)
    <3>1. cli[c].results \in Seq(Message) /\ m \in Message
      <4>1. cli[c].todo # <<>> /\ cli[c].todo \in Seq(Calls) /\ cli[c].round \in Nat
            /\ cli[c].turn \in Nat /\ cli[c].results \in Seq(Message)
        BY <1>1, <1>2, CliTypes, Zenon DEF IInv, CliFits, Dispatching
      <4>2. Head(cli[c].todo) \in Calls
        BY <4>1
      <4> DEFINE id == NormalizeToolResult(result, Head(cli[c].todo))
      <4>3. id \in Calls \cup {NoCall}
        BY <4>2 DEF NormalizeToolResult
      <4>4. RoundText(c) \in Text
        BY <4>1 DEF RoundText, Text
      <4>5. Plain("tool", RoundText(c)) \in Message
        BY <4>4, PlainType
      <4> HIDE DEF id
      <4>6. ToolMessage(c, id) \in Message
        BY <4>3, <4>5 DEF ToolMessage, Message
      <4> QED
        BY <4>1, <4>6 DEF id
    <3> HIDE DEF m
    <3> QED
      BY <3>1, AppendProperties DEF res
  <2> HIDE DEF conv, new, L
  <2>3. L = Len(conv) /\ Len(res) \in Nat /\ Len(new) = L + Len(res) /\ \A i \in 1 .. L : new[i] = conv[i]
    <3>1. Len(res) \in Nat
      BY <2>2, LenProperties
    <3>2. /\ Len(conv \o res) = Len(conv) + Len(res)
          /\ \A i \in 1 .. Len(conv) + Len(res) :
               (conv \o res)[i] = IF i <= Len(conv) THEN conv[i] ELSE res[i - Len(conv)]
      BY <1>2, <2>2, ConcatProperties
    <3> QED
      BY <1>2, <2>1, <3>1, <3>2 DEF L
  <2>4. PICK u \in DOMAIN conv : u < L /\ conv[u] = Plain("user", UserText(c))
    <3>1. TurnFits(c)
      BY DEF IInv, CliFits
    <3> QED
      BY <1>1, <3>1 DEF TurnFits, StartsAt, conv, L
  <2>5. ResultsFollow(new, u, Len(new))
    <3>1. PICK v \in DOMAIN new : /\ ResultsFollow(new, v, Len(new))
                                  /\ \A i \in DOMAIN new : new[i] = Plain("user", UserText(c)) <=> i = v
      <4>1. TurnFits(c)'
        BY DEF IInv, CliFits
      <4> QED
        BY <2>1, <4>1 DEF TurnFits, StartsAt, new
    <3>2. u \in DOMAIN new /\ new[u] = conv[u]
      BY <1>2, <1>3, <2>3, <2>4, LenProperties
    <3> QED
      BY <2>4, <3>1, <3>2
  <2>6. ASSUME NEW i \in DOMAIN new PROVE Settled(new, i)
    <3>1. i \in 1 .. Len(new)
      BY <1>3, LenProperties
    <3>2. CASE i < L
      <4>1. i \in 1 .. L /\ L <= Len(conv) /\ L <= Len(new) /\ i \in DOMAIN conv /\ i # L
        BY <1>2, <2>3, <3>1, <3>2
      <4> QED
        BY <1>2, <1>3, <1>4, <2>3, <4>1, SettledGrows
    <3>3. CASE ~(i < L)
      <4>1. i \in u + 1 .. Len(new)
        BY <1>2, <2>3, <2>4, <3>1, <3>3
      <4> QED
        BY <2>5, <4>1, Zenon DEF ResultsFollow, Settled, HasResults
    <3> QED
      BY <3>2, <3>3
  <2>7. ProgramSettled(c)'
    BY <2>6 DEF ProgramSettled, new
  <2> QED
    BY <1>5, <2>7, SettledOf
<1> QED
  BY <1>6, <1>7

(* Every step keeps earlier turns settled.                                 *)
LEMMA SettledStep == ASSUME IInv, IInv', SettledInv, [Next]_vars PROVE SettledInv'
<1>1. ASSUME NEW c \in Clis, Step(c) PROVE SettledInv'
  <2>1. CASE CreateSession(c)
    <3>1. [Off EXCEPT !.pc = "prompt"].conv = <<>>
      BY DEF Off
    <3> QED
      BY <2>1, <3>1, SettledKept DEF CreateSession
  <2>2. CASE ResumeSession(c)
    BY <2>2, SettledResume
  <2>3. CASE ReadInput(c)
    <3> DEFINE r == [Off EXCEPT !.pc = "accept", !.conv = cli[c].conv, !.turn = turns + 1]
    <3>1. r.conv = Conv(c)
      BY DEF Off, Conv
    <3>2. Pc(c) # "dispatch" /\ cli' = [cli EXCEPT ![c] = r]
      BY <2>3 DEF ReadInput
    <3> HIDE DEF r
    <3> QED
      BY <3>1, <3>2, SettledKept
  <2>4. CASE Quit(c) \/ TurnFails(c) \/ Kill(c) \/ \E committed \in BOOLEAN : PersistFails(c, committed)
    <3>1. cli' = [cli EXCEPT ![c] = Off]
      BY <2>4 DEF Quit, TurnFails, Kill, PersistFails
    <3>2. Off.conv = <<>>
      BY DEF Off
    <3> QED
      BY <3>1, <3>2, SettledKept
  <2>5. CASE PersistUser(c)
    BY <2>5, SettledUser
  <2>6. CASE \E calls \in CallLists : CompleteTurn(c, calls)
    BY <2>6, SettledComplete
  <2>7. CASE FallbackTurn(c)
    BY <2>7, SettledFallback
  <2>8. CASE \E result \in Calls \cup {NoCall} : Dispatch(c, result)
    BY <2>8, SettledDispatch
  <2>9. CASE PersistReply(c)
    <3>1. Pc(c) = "reply" /\ cli' = [cli EXCEPT ![c] = Returned(c)]
      BY <2>9 DEF PersistReply
    <3>2. Returned(c).conv = <<>> \/ Returned(c).conv = Conv(c)
      BY DEF Returned, Off, Conv
    <3> HIDE DEF Returned
    <3> QED
      BY <3>1, <3>2, SettledKept
  <2> QED
    BY <1>1, <2>1, <2>2, <2>3, <2>4, <2>5, <2>6, <2>7, <2>8, <2>9 DEF Step
<1>2. CASE UNCHANGED vars
  <2>1. cli' = cli
    BY <1>2 DEF vars
  <2> QED
    BY <2>1 DEF SettledInv, ProgramSettled, Pc, Conv
<1> QED
  BY <1>1, <1>2 DEF Next

(* In every conversation an answer of the model has the results of its     *)
(* calls, or its turn met the limit.                                       *)
LEMMA SettledAlways == Spec => []SettledInv
<1>1. ASSUME Init PROVE SettledInv
  <2>1. ASSUME NEW c \in Clis PROVE Conv(c) = <<>>
    BY <1>1 DEF Init, Off, Conv
  <2> QED
    BY <2>1 DEF SettledInv, ProgramSettled
<1>2. IInv /\ IInv' /\ SettledInv /\ [Next]_vars => SettledInv'
  BY SettledStep
<1> QED
  BY <1>1, <1>2, Invariance, PTL DEF Spec

-----------------------------------------------------------------------------
(* What the model is sent.                                                 *)

(* The place of the user's message is the one it has.                      *)
LEMMA TurnStartIs ==
  ASSUME NEW c \in Clis, NEW conv, NEW u \in DOMAIN conv,
         \A i \in DOMAIN conv : conv[i] = Plain("user", UserText(c)) <=> i = u
  PROVE  TurnStart(c, conv) = u
BY Zenon DEF TurnStart

(* The retrieval context changes the conversation only when the user's     *)
(* message is the last, and then it goes before that.                      *)
LEMMA RetrievalKeeps ==
  ASSUME NEW c \in Clis, NEW conv \in Seq(Message), NEW u \in DOMAIN conv,
         \A i \in DOMAIN conv : conv[i] = Plain("user", UserText(c)) <=> i = u,
         ResultsFollow(conv, u, Len(conv)),
         NEW sent, sent = ProviderConversation(conv), sent # conv
  PROVE  LET L == Len(conv) IN
         /\ sent \in Seq(Message) /\ Len(sent) = L + 1 /\ DOMAIN sent = 1 .. L + 1
         /\ TurnStart(c, sent) = L + 1 /\ L > 0
         /\ sent[L + 1].role = "user" /\ sent[L].role = "system" /\ conv[L].role = "user"
         /\ \A i \in 1 .. L - 1 : sent[i] = conv[i]
<1> DEFINE L      == Len(conv)
           user   == Plain("user", UserText(c))
           system == Plain("system", NoText)
           front  == SubSeq(conv, 1, L - 1)
           tail   == <<system, conv[L]>>
<1>1. L \in Nat /\ DOMAIN conv = 1 .. L /\ u \in 1 .. L
  BY LenProperties
<1>2. conv[L].role = "user" /\ sent = front \o tail
  BY DEF ProviderConversation, InjectRetrieval
<1>3. u = L
  <2>1. u < L => L \in u + 1 .. L
    BY <1>1
  <2>2. ~(u < L)
    BY <1>2, <2>1 DEF ResultsFollow
  <2> QED
    BY <1>1, <2>2
<1>4. conv[L] = user /\ conv[L] \in Message /\ L \in DOMAIN conv
  BY <1>1, <1>3, TextTurns
<1>5. system \in Message /\ system.role = "system" /\ user.role = "user"
  <2>1. NoText \in Text
    BY DEF NoText, Text
  <2>2. system \in Message /\ system.role = "system"
    BY <2>1, PlainType
  <2> QED
    BY <2>2 DEF Plain
<1> HIDE DEF system, user
<1>6. /\ front \in Seq(Message) /\ Len(front) = L - 1
      /\ \A i \in 1 .. L - 1 : front[i] = conv[i]
  BY <1>1, <1>3, SubSeqProperties
<1>7. tail \in Seq(Message) /\ Len(tail) = 2 /\ tail[1] = system /\ tail[2] = user
  BY <1>4, <1>5
<1> HIDE DEF front, tail, L
<1>8. /\ sent \in Seq(Message) /\ Len(sent) = L + 1
      /\ \A i \in 1 .. L + 1 : sent[i] = IF i <= L - 1 THEN front[i] ELSE tail[i - (L - 1)]
  <2>1. /\ front \o tail \in Seq(Message) /\ Len(front \o tail) = Len(front) + Len(tail)
        /\ \A i \in 1 .. Len(front) + Len(tail) :
             (front \o tail)[i] = IF i <= Len(front) THEN front[i] ELSE tail[i - Len(front)]
    BY <1>6, <1>7, ConcatProperties
  <2>2. (L - 1) + 2 = L + 1
    BY <1>1
  <2> QED
    BY <1>2, <1>6, <1>7, <2>1, <2>2
<1>9. DOMAIN sent = 1 .. L + 1
  BY <1>8, LenProperties
<1>10. sent[L + 1] = user /\ sent[L] = system /\ \A i \in 1 .. L - 1 : sent[i] = conv[i]
  <2>1. /\ L + 1 \in 1 .. L + 1 /\ ~(L + 1 <= L - 1) /\ (L + 1) - (L - 1) = 2
        /\ L \in 1 .. L + 1 /\ ~(L <= L - 1) /\ L - (L - 1) = 1
    BY <1>1, <1>3
  <2>2. \A i \in 1 .. L - 1 : i \in 1 .. L + 1 /\ i <= L - 1
    BY <1>1
  <2> QED
    BY <1>6, <1>7, <1>8, <2>1, <2>2
<1>11. \A i \in DOMAIN sent : sent[i] = user <=> i = L + 1
  <2>1. \A i \in 1 .. L - 1 : conv[i] # user
    BY <1>1, <1>3 DEF user
  <2>2. system # user
    BY <1>5
  <2>3. \A i \in DOMAIN sent : i \in 1 .. L - 1 \/ i = L \/ i = L + 1
    BY <1>1, <1>9
  <2>4. L + 1 \notin 1 .. L - 1 /\ L # L + 1
    BY <1>1
  <2> QED
    BY <1>10, <2>1, <2>2, <2>3, <2>4
<1>12. PICK v \in DOMAIN sent : v = L + 1
  BY <1>1, <1>9
<1>13. \A i \in DOMAIN sent : sent[i] = Plain("user", UserText(c)) <=> i = v
  BY <1>11, <1>12 DEF user
<1>14. TurnStart(c, sent) = v
  BY <1>13, TurnStartIs
<1>15. L > 0
  BY <1>1, <1>3
<1> QED
  BY <1>2, <1>5, <1>8, <1>9, <1>10, <1>12, <1>14, <1>15 DEF L

(* Results do not reach over a user's message.                             *)
LEMMA ResultsBeforeUser ==
  ASSUME NEW conv \in Seq(Message), NEW i \in 1 .. Len(conv) - 1,
         conv[i].role = "assistant", HasResults(conv, i), conv[Len(conv)].role = "user"
  PROVE  i + Len(conv[i].calls) <= Len(conv) - 1
<1>1. Len(conv) \in Nat /\ i \in 1 .. Len(conv)
  BY LenProperties
<1>2. conv[i] \in Message
  BY <1>1, ElementOfSeq
<1>3. Len(conv[i].calls) \in Nat
  BY <1>2, LenProperties DEF Message
<1>4. /\ i + Len(conv[i].calls) <= Len(conv)
      /\ \A k \in 1 .. Len(conv[i].calls) : conv[i + k].role = "tool"
  BY DEF HasResults
<1>5. ASSUME i + Len(conv[i].calls) = Len(conv) PROVE FALSE
  <2>1. Len(conv[i].calls) \in 1 .. Len(conv[i].calls)
    BY <1>1, <1>3, <1>5
  <2>2. conv[i + Len(conv[i].calls)].role = "tool"
    BY <1>4, <2>1
  <2> QED
    BY <1>5, <2>2
<1> QED
  BY <1>1, <1>3, <1>4, <1>5

(* In every request to the model each answer is followed at once by the    *)
(* results of its calls, with their IDs and in their order, for every list *)
(* of calls and any mixture of calls that fail, name no tool or leave the  *)
(* ID out; the only exception is an answer of an earlier turn that met the *)
(* limit on tool rounds.                                                   *)
THEOREM CallsAnsweredTheorem == Spec => []CallsAnswered
<1>1. ASSUME IInv, SettledInv PROVE CallsAnswered
  <2> SUFFICES ASSUME NEW c \in Clis, Pc(c) = "complete", NEW sent,
                      sent = ProviderConversation(cli[c].conv),
                      NEW i \in DOMAIN sent
               PROVE  \/ HasResults(sent, i)
                      \/ i < TurnStart(c, sent) /\ LimitReached(sent[i].text.round)
    BY DEF CallsAnswered
  <2> DEFINE conv == Conv(c)
             L    == Len(conv)
  <2>1. /\ conv \in Seq(Message) /\ L \in Nat /\ DOMAIN conv = 1 .. L
        /\ sent = ProviderConversation(conv)
    BY <1>1, CliTypes DEF IInv, Conv
  <2>2. PICK u \in DOMAIN conv : StartsAt(c, u) /\ ResultsFollow(conv, u, L)
    BY <1>1 DEF IInv, CliFits, TurnFits
  <2>3. \A j \in DOMAIN conv : conv[j] = Plain("user", UserText(c)) <=> j = u
    BY <2>2 DEF StartsAt
  <2>4. \A j \in DOMAIN conv : Settled(conv, j)
    BY <1>1, Zenon DEF SettledInv, ProgramSettled
  <2> HIDE DEF conv, L
  <2>5. CASE sent = conv
    <3>1. TurnStart(c, sent) = u
      BY <2>3, <2>5, TurnStartIs
    <3>2. CASE i < u
      BY <2>4, <2>5, <3>1, <3>2 DEF Settled
    <3>3. CASE i = u
      BY <2>3, <2>5, <3>3 DEF HasResults, Plain
    <3>4. CASE i > u
      <4>1. i \in u + 1 .. L
        BY <2>1, <2>5, <3>4
      <4>2. HasResults(conv, i)
        BY <2>2, <4>1 DEF ResultsFollow, HasResults, L
      <4> QED
        BY <2>5, <4>2
    <3> QED
      BY <2>1, <2>5, <3>2, <3>3, <3>4
  <2>6. CASE sent # conv
    <3>1. /\ sent \in Seq(Message) /\ Len(sent) = L + 1 /\ DOMAIN sent = 1 .. L + 1
          /\ TurnStart(c, sent) = L + 1 /\ L > 0
          /\ sent[L + 1].role = "user" /\ sent[L].role = "system" /\ conv[L].role = "user"
          /\ \A j \in 1 .. L - 1 : sent[j] = conv[j]
      BY <2>1, <2>2, <2>3, <2>6, RetrievalKeeps DEF L
    <3>2. CASE i \in 1 .. L - 1
      <4>1. i \in DOMAIN conv /\ i < L + 1
        BY <2>1, <3>2
      <4>2. Settled(sent, i)
        <5>1. conv[i].role = "assistant" /\ HasResults(conv, i) => i + Len(conv[i].calls) <= L - 1
          BY <2>1, <3>1, <3>2, <4>1, ResultsBeforeUser DEF L
        <5>2. CASE HasResults(conv, i)
          <6>1. L - 1 \in Nat /\ L - 1 <= Len(conv) /\ L - 1 <= Len(sent)
            BY <2>1, <3>1 DEF L
          <6>2. Settled(conv, i)
            BY <5>2 DEF Settled
          <6> QED
            BY <2>1, <3>1, <3>2, <5>1, <5>2, <6>1, <6>2, SettledGrows
        <5>3. CASE LimitReached(conv[i].text.round)
          BY <3>1, <3>2, <5>3 DEF Settled
        <5> QED
          BY <2>4, <4>1, <5>2, <5>3 DEF Settled
      <4> QED
        BY <3>1, <4>1, <4>2 DEF Settled
    <3>3. CASE i = L \/ i = L + 1
      BY <3>1, <3>3 DEF HasResults
    <3> QED
      BY <2>1, <3>1, <3>2, <3>3
  <2> QED
    BY <2>5, <2>6
<1> QED
  BY <1>1, Invariance, SettledAlways, PTL

=============================================================================
