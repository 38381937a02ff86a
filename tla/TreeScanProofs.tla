--------------------------- MODULE TreeScanProofs ---------------------------
(***************************************************************************)
(* TypeOK, DiffIsExact, DeltasCompose and QuietScanIsFaithful hold for     *)
(* every tree of paths, every set of contents and every number of edits    *)
(* and scans.                                                              *)
(*                                                                         *)
(* The functions of the tree are recursive, so the first part shows that   *)
(* they have values and what those are, by induction on the tree: equal    *)
(* hashes are of equal subtrees, and DiffSnapshots gives the changes path  *)
(* by path.  The second part is the inductive invariant of the scan.       *)
(***************************************************************************)
EXTENDS TreeScan, FiniteSetTheorems, WellFoundedInduction, TLAPS

-----------------------------------------------------------------------------
(* The tree of paths.                                                      *)

Nodes == Paths \cup {Root}

\* pathDepth: the number of names in a path.
Depth ==
  CHOOSE depth \in [Paths \cup {Root} -> 0 .. Cardinality(Paths)] :
    \A p \in Paths : depth[p] = depth[Parent[p]] + 1

(* A path is one deeper than its directory, and no path is deeper than     *)
(* there are paths.                                                        *)
LEMMA DepthFacts ==
  /\ Cardinality(Paths) \in Nat /\ Root \notin Paths
  /\ \A p \in Nodes : Depth[p] \in Nat /\ Depth[p] <= Cardinality(Paths)
  /\ \A p \in Paths : p \in Nodes /\ Parent[p] \in Nodes /\ Depth[p] = Depth[Parent[p]] + 1
<1>1. Cardinality(Paths) \in Nat /\ Root \notin Paths
  BY ScanAssumption, FS_CardinalityType
<1>2. /\ Depth \in [Paths \cup {Root} -> 0 .. Cardinality(Paths)]
      /\ \A p \in Paths : Depth[p] = Depth[Parent[p]] + 1
  BY ScanAssumption, Zenon DEF Depth
<1>3. \A p \in Paths : p \in Nodes /\ Parent[p] \in Nodes
  BY ScanAssumption DEF Nodes
<1>4. \A p \in Nodes : Depth[p] \in Nat /\ Depth[p] <= Cardinality(Paths)
  BY <1>1, <1>2 DEF Nodes
<1> QED
  BY <1>1, <1>2, <1>3, <1>4

\* S contains what is in its directories.
Closed(S) == \A q \in S : Children(q) \subseteq S

(* Below[d] is the least such set around the children of d.                *)
LEMMA BelowFacts ==
  ASSUME NEW d \in Nodes
  PROVE  /\ Below[d] \subseteq Paths /\ Children(d) \subseteq Below[d] /\ Closed(Below[d])
         /\ \A S \in SUBSET Paths : Children(d) \subseteq S /\ Closed(S) => Below[d] \subseteq S
<1>1. Below[d] = {p \in Paths : \A S \in SUBSET Paths :
                    Children(d) \subseteq S /\ (\A q \in S : Children(q) \subseteq S) => p \in S}
  BY DEF Below, Nodes
<1>2. \A q : Children(q) \subseteq Paths
  BY DEF Children
<1>3. Below[d] \subseteq Paths /\ Children(d) \subseteq Below[d]
  BY <1>1, <1>2
<1>4. \A S \in SUBSET Paths : Children(d) \subseteq S /\ Closed(S) => Below[d] \subseteq S
  BY <1>1 DEF Closed
<1>5. ASSUME NEW q \in Below[d], NEW c \in Children(q) PROVE c \in Below[d]
  <2>1. c \in Paths
    BY <1>2
  <2>2. ASSUME NEW S \in SUBSET Paths, Children(d) \subseteq S, Closed(S) PROVE c \in S
    BY <1>4, <2>2 DEF Closed
  <2> QED
    BY <1>1, <2>1, <2>2 DEF Closed
<1> QED
  BY <1>3, <1>4, <1>5 DEF Closed

(* What is below a directory is deeper.                                    *)
LEMMA BelowDeeper ==
  ASSUME NEW d \in Nodes, NEW p \in Below[d]
  PROVE  Depth[p] > Depth[d]
<1> DEFINE S == {q \in Paths : Depth[q] > Depth[d]}
<1>1. Children(d) \subseteq S
  BY DepthFacts DEF Children
<1>2. Closed(S)
  BY DepthFacts DEF Closed, Children
<1>3. S \in SUBSET Paths
  OBVIOUS
<1>4. p \in S
  <2> HIDE DEF S
  <2> QED
    BY <1>1, <1>2, <1>3, BelowFacts
<1> QED
  BY <1>4

(* What is below a directory is in it, or its own directory is below it.   *)
LEMMA BelowUp ==
  ASSUME NEW d \in Nodes, NEW p \in Below[d]
  PROVE  Parent[p] = d \/ Parent[p] \in Below[d]
<1> DEFINE S == {q \in Below[d] : Parent[q] = d \/ Parent[q] \in Below[d]}
<1>1. S \in SUBSET Paths /\ Children(d) \subseteq S /\ Closed(S)
  BY BelowFacts DEF Closed, Children
<1>2. p \in S
  <2> HIDE DEF S
  <2> QED
    BY <1>1, BelowFacts
<1> QED
  BY <1>2

(* What is below a directory is in it, or below a directory in it.         *)
LEMMA BelowDown ==
  ASSUME NEW d \in Nodes, NEW p \in Below[d]
  PROVE  p \in Children(d) \/ \E c \in Children(d) : p \in Below[c]
<1> DEFINE S == Children(d) \cup UNION {Below[c] : c \in Children(d)}
<1>0. \A c \in Children(d) : c \in Nodes
  BY DEF Children, Nodes
<1>1. S \in SUBSET Paths
  BY <1>0, BelowFacts DEF Children
<1>2. ASSUME NEW q \in S, NEW c \in Children(q) PROVE c \in S
  <2>1. CASE q \in Children(d)
    <3>1. c \in Below[q]
      BY <1>0, <2>1, BelowFacts
    <3> QED
      BY <2>1, <3>1
  <2>2. ASSUME NEW e \in Children(d), q \in Below[e] PROVE c \in S
    <3>1. c \in Below[e]
      BY <1>0, <2>2, BelowFacts DEF Closed
    <3> QED
      BY <3>1
  <2> QED
    BY <2>1, <2>2
<1>3. Children(d) \subseteq S /\ Closed(S)
  BY <1>2 DEF Closed
<1>4. p \in S
  <2> HIDE DEF S
  <2> QED
    BY <1>1, <1>3, BelowFacts
<1> QED
  BY <1>4

(* Everything is below the root.                                           *)
LEMMA AllBelowRoot == Below[Root] = Paths
<1> DEFINE Bad  == {p \in Paths : p \notin Below[Root]}
           Deep == {Depth[p] : p \in Bad}
<1>0. Root \in Nodes
  BY DEF Nodes
<1>1. Deep \subseteq Nat
  BY DepthFacts
<1>2. ASSUME Bad # {} PROVE FALSE
  <2>0. Deep # {}
    BY <1>2
  <2>1. PICK n \in Deep : \A m \in Deep : ~(<<m, n>> \in OpToRel(<, Nat))
    <3> HIDE DEF Deep
    <3> QED
      BY <1>1, <2>0, NatLessThanWellFounded, WFMin
  <2>2. PICK p \in Bad : Depth[p] = n
    BY <2>1
  <2>3. Parent[p] # Root
    BY <1>0, <2>2, BelowFacts DEF Children
  <2>4. Parent[p] \in Paths /\ Depth[p] = Depth[Parent[p]] + 1 /\ Depth[Parent[p]] \in Nat
    BY <2>3, DepthFacts DEF Nodes
  <2>5. Parent[p] \in Bad
    <3>1. p \in Children(Parent[p])
      BY DEF Children
    <3> QED
      BY <1>0, <2>2, <2>4, <3>1, BelowFacts DEF Closed
  <2>6. Depth[Parent[p]] \in Deep
    BY <2>5
  <2>7. <<Depth[Parent[p]], n>> \in OpToRel(<, Nat)
    BY <1>1, <2>2, <2>4 DEF OpToRel
  <2> QED
    BY <2>1, <2>6, <2>7
<1> QED
  BY <1>0, <1>2, BelowFacts

-----------------------------------------------------------------------------
(* The recursive functions of the tree have values: a value for a path     *)
(* needs only those of its children, and the tree is no deeper than there  *)
(* are paths.                                                              *)

HashStep(t, h, p) ==
  IF p # Root /\ IsFile(t[p])
  THEN <<p, t[p].content, t[p].size>>
  ELSE <<p, {h[r] : r \in Kids(t, p)}>>

CollectStep(t, op, collect, p) ==
  IF IsFile(t[p]) THEN {Change(op, p)}
  ELSE UNION {collect[r] : r \in Kids(t, p)}

DiffStep(old, new, diff, p) ==
  IF old[p].type = "none" THEN CollectSubtree(new, p, "add")
  ELSE IF new[p].type = "none" THEN CollectSubtree(old, p, "delete")
  ELSE IF old[p].type # new[p].type
       THEN CollectSubtree(old, p, "delete") \cup CollectSubtree(new, p, "add")
  ELSE IF NodeHash(old, p) = NodeHash(new, p) THEN {}
  ELSE IF IsFile(old[p]) THEN Modify(p)
  ELSE UNION {diff[r] : r \in Kids(old, p) \cup Kids(new, p)}

(* Every node has a hash.                                                  *)
LEMMA HashExists ==
  ASSUME NEW t
  PROVE  \E f : f = [p \in Nodes |-> HashStep(t, f, p)]
<1> DEFINE N        == Cardinality(Paths)
           Level(k) == {p \in Nodes : Depth[p] + k > N}
           Good(k)  == \E f : f = [p \in Level(k) |-> HashStep(t, f, p)]
           Bad      == {k \in 0 .. N + 1 : ~Good(k)}
<1>1. N \in Nat /\ \A p \in Nodes : Depth[p] \in Nat /\ Depth[p] <= N
  BY DepthFacts DEF Nodes
<1>2. Good(0)
  <2>1. Level(0) = {}
    BY <1>1
  <2>2. [p \in {} |-> p] = [p \in {} |-> HashStep(t, [q \in {} |-> q], p)]
    OBVIOUS
  <2> QED
    BY <2>1, <2>2
<1>3. ASSUME NEW k \in Nat, Good(k) PROVE Good(k + 1)
  <2>1. PICK f : f = [p \in Level(k) |-> HashStep(t, f, p)]
    BY <1>3
  <2> DEFINE g == [p \in Level(k + 1) |-> HashStep(t, f, p)]
  <2>2. \A p \in Level(k) : p \in Level(k + 1)
    BY <1>1
  <2>3. ASSUME NEW p \in Level(k + 1), NEW r \in Children(p) PROVE r \in Level(k)
    <3>1. r \in Paths /\ Parent[r] = p
      BY DEF Children
    <3>2. Depth[r] = Depth[p] + 1 /\ r \in Nodes
      BY <3>1, DepthFacts DEF Nodes
    <3> QED
      BY <1>1, <3>2
  <2> HIDE DEF Level
  <2>4. \A p \in Level(k) : g[p] = f[p]
    <3>1. \A p \in Level(k) : f[p] = HashStep(t, f, p)
      BY <2>1
    <3> QED
      BY <2>2, <3>1
  <2>5. \A p \in Level(k + 1) : \A r \in Children(p) : g[r] = f[r]
    BY <2>3, <2>4
  <2>6. ASSUME NEW p \in Level(k + 1) PROVE HashStep(t, g, p) = HashStep(t, f, p)
    <3> HIDE DEF g
    <3>1. \A r \in Kids(t, p) : g[r] = f[r]
      BY <2>5 DEF Kids
    <3>2. {g[r] : r \in Kids(t, p)} = {f[r] : r \in Kids(t, p)}
      BY <3>1
    <3> QED
      BY <3>2, Zenon DEF HashStep
  <2>7. g = [p \in Level(k + 1) |-> HashStep(t, g, p)]
    <3>1. [p \in Level(k + 1) |-> HashStep(t, g, p)] = [p \in Level(k + 1) |-> HashStep(t, f, p)]
      <4> HIDE DEF g
      <4> QED
        BY <2>6
    <3> QED
      BY <3>1, Zenon DEF g
  <2> QED
    BY <2>7
<1>4. Bad = {}
  <2> SUFFICES ASSUME Bad # {} PROVE FALSE
    OBVIOUS
  <2> HIDE DEF Good
  <2>0. Bad \subseteq Nat
    BY <1>1
  <2>1. PICK k \in Bad : \A m \in Bad : ~(<<m, k>> \in OpToRel(<, Nat))
    BY <2>0, NatLessThanWellFounded, WFMin
  <2>2. k \in Nat /\ k <= N + 1 /\ k # 0
    <3>1. k \in 0 .. N + 1 /\ ~Good(k)
      BY <2>1, Zenon
    <3>2. k # 0
      BY <1>2, <3>1, Zenon
    <3> QED
      BY <1>1, <3>1, <3>2
  <2>3. k - 1 \in Nat /\ k - 1 \in 0 .. N + 1 /\ k = (k - 1) + 1
    BY <1>1, <2>2
  <2>4. ~Good((k - 1) + 1)
    <3>1. ~Good(k)
      BY <2>1, Zenon
    <3> QED
      BY <2>3, <3>1, Zenon
  <2>5. ~Good(k - 1)
    BY <1>3, <2>3, <2>4, Zenon
  <2>6. k - 1 \in Bad
    BY <2>3, <2>5, Zenon
  <2>7. <<k - 1, k>> \in OpToRel(<, Nat)
    BY <2>2, <2>3 DEF OpToRel
  <2> QED
    BY <2>1, <2>6, <2>7
<1>5. Good(N + 1)
  <2>1. N + 1 \in 0 .. N + 1
    BY <1>1
  <2> HIDE DEF Good
  <2> QED
    BY <1>4, <2>1, Zenon
<1>6. Level(N + 1) = Nodes
  BY <1>1
<1> QED
  BY <1>5, <1>6, Zenon

(* Every path has its subtree.                                             *)
LEMMA CollectExists ==
  ASSUME NEW t, NEW op
  PROVE  \E f : f = [p \in Paths |-> CollectStep(t, op, f, p)]
<1> DEFINE N        == Cardinality(Paths)
           Level(k) == {p \in Paths : Depth[p] + k > N}
           Good(k)  == \E f : f = [p \in Level(k) |-> CollectStep(t, op, f, p)]
           Bad      == {k \in 0 .. N + 1 : ~Good(k)}
<1>1. N \in Nat /\ \A p \in Paths : Depth[p] \in Nat /\ Depth[p] <= N
  BY DepthFacts DEF Nodes
<1>2. Good(0)
  <2>1. Level(0) = {}
    BY <1>1
  <2>2. [p \in {} |-> p] = [p \in {} |-> CollectStep(t, op, [q \in {} |-> q], p)]
    OBVIOUS
  <2> QED
    BY <2>1, <2>2
<1>3. ASSUME NEW k \in Nat, Good(k) PROVE Good(k + 1)
  <2>1. PICK f : f = [p \in Level(k) |-> CollectStep(t, op, f, p)]
    BY <1>3
  <2> DEFINE g == [p \in Level(k + 1) |-> CollectStep(t, op, f, p)]
  <2>2. \A p \in Level(k) : p \in Level(k + 1)
    BY <1>1
  <2>3. ASSUME NEW p \in Level(k + 1), NEW r \in Children(p) PROVE r \in Level(k)
    <3>1. r \in Paths /\ Parent[r] = p
      BY DEF Children
    <3>2. Depth[r] = Depth[p] + 1 /\ r \in Paths
      BY <3>1, DepthFacts DEF Nodes
    <3> QED
      BY <1>1, <3>2
  <2> HIDE DEF Level
  <2>4. \A p \in Level(k) : g[p] = f[p]
    <3>1. \A p \in Level(k) : f[p] = CollectStep(t, op, f, p)
      BY <2>1
    <3> QED
      BY <2>2, <3>1
  <2>5. \A p \in Level(k + 1) : \A r \in Children(p) : g[r] = f[r]
    BY <2>3, <2>4
  <2>6. ASSUME NEW p \in Level(k + 1) PROVE CollectStep(t, op, g, p) = CollectStep(t, op, f, p)
    <3> HIDE DEF g
    <3>1. \A r \in Kids(t, p) : g[r] = f[r]
      BY <2>5 DEF Kids
    <3>2. {g[r] : r \in Kids(t, p)} = {f[r] : r \in Kids(t, p)}
      BY <3>1
    <3> QED
      BY <3>2, Zenon DEF CollectStep
  <2>7. g = [p \in Level(k + 1) |-> CollectStep(t, op, g, p)]
    <3>1. [p \in Level(k + 1) |-> CollectStep(t, op, g, p)] = [p \in Level(k + 1) |-> CollectStep(t, op, f, p)]
      <4> HIDE DEF g
      <4> QED
        BY <2>6
    <3> QED
      BY <3>1, Zenon DEF g
  <2> QED
    BY <2>7
<1>4. Bad = {}
  <2> SUFFICES ASSUME Bad # {} PROVE FALSE
    OBVIOUS
  <2> HIDE DEF Good
  <2>0. Bad \subseteq Nat
    BY <1>1
  <2>1. PICK k \in Bad : \A m \in Bad : ~(<<m, k>> \in OpToRel(<, Nat))
    BY <2>0, NatLessThanWellFounded, WFMin
  <2>2. k \in Nat /\ k <= N + 1 /\ k # 0
    <3>1. k \in 0 .. N + 1 /\ ~Good(k)
      BY <2>1, Zenon
    <3>2. k # 0
      BY <1>2, <3>1, Zenon
    <3> QED
      BY <1>1, <3>1, <3>2
  <2>3. k - 1 \in Nat /\ k - 1 \in 0 .. N + 1 /\ k = (k - 1) + 1
    BY <1>1, <2>2
  <2>4. ~Good((k - 1) + 1)
    <3>1. ~Good(k)
      BY <2>1, Zenon
    <3> QED
      BY <2>3, <3>1, Zenon
  <2>5. ~Good(k - 1)
    BY <1>3, <2>3, <2>4, Zenon
  <2>6. k - 1 \in Bad
    BY <2>3, <2>5, Zenon
  <2>7. <<k - 1, k>> \in OpToRel(<, Nat)
    BY <2>2, <2>3 DEF OpToRel
  <2> QED
    BY <2>1, <2>6, <2>7
<1>5. Good(N + 1)
  <2>1. N + 1 \in 0 .. N + 1
    BY <1>1
  <2> HIDE DEF Good
  <2> QED
    BY <1>4, <2>1, Zenon
<1>6. Level(N + 1) = Paths
  BY <1>1
<1> QED
  BY <1>5, <1>6, Zenon

(* Every path has its difference.                                          *)
LEMMA DiffExists ==
  ASSUME NEW old, NEW new
  PROVE  \E f : f = [p \in Paths |-> DiffStep(old, new, f, p)]
<1> DEFINE N        == Cardinality(Paths)
           Level(k) == {p \in Paths : Depth[p] + k > N}
           Good(k)  == \E f : f = [p \in Level(k) |-> DiffStep(old, new, f, p)]
           Bad      == {k \in 0 .. N + 1 : ~Good(k)}
<1>1. N \in Nat /\ \A p \in Paths : Depth[p] \in Nat /\ Depth[p] <= N
  BY DepthFacts DEF Nodes
<1>2. Good(0)
  <2>1. Level(0) = {}
    BY <1>1
  <2>2. [p \in {} |-> p] = [p \in {} |-> DiffStep(old, new, [q \in {} |-> q], p)]
    OBVIOUS
  <2> QED
    BY <2>1, <2>2
<1>3. ASSUME NEW k \in Nat, Good(k) PROVE Good(k + 1)
  <2>1. PICK f : f = [p \in Level(k) |-> DiffStep(old, new, f, p)]
    BY <1>3
  <2> DEFINE g == [p \in Level(k + 1) |-> DiffStep(old, new, f, p)]
  <2>2. \A p \in Level(k) : p \in Level(k + 1)
    BY <1>1
  <2>3. ASSUME NEW p \in Level(k + 1), NEW r \in Children(p) PROVE r \in Level(k)
    <3>1. r \in Paths /\ Parent[r] = p
      BY DEF Children
    <3>2. Depth[r] = Depth[p] + 1 /\ r \in Paths
      BY <3>1, DepthFacts DEF Nodes
    <3> QED
      BY <1>1, <3>2
  <2> HIDE DEF Level
  <2>4. \A p \in Level(k) : g[p] = f[p]
    <3>1. \A p \in Level(k) : f[p] = DiffStep(old, new, f, p)
      BY <2>1
    <3> QED
      BY <2>2, <3>1
  <2>5. \A p \in Level(k + 1) : \A r \in Children(p) : g[r] = f[r]
    BY <2>3, <2>4
  <2>6. ASSUME NEW p \in Level(k + 1) PROVE DiffStep(old, new, g, p) = DiffStep(old, new, f, p)
    <3> HIDE DEF g
    <3>1. \A r \in Kids(old, p) \cup Kids(new, p) : g[r] = f[r]
      BY <2>5 DEF Kids
    <3>2. {g[r] : r \in Kids(old, p) \cup Kids(new, p)} = {f[r] : r \in Kids(old, p) \cup Kids(new, p)}
      BY <3>1
    <3> QED
      BY <3>2, Zenon DEF DiffStep
  <2>7. g = [p \in Level(k + 1) |-> DiffStep(old, new, g, p)]
    <3>1. [p \in Level(k + 1) |-> DiffStep(old, new, g, p)] = [p \in Level(k + 1) |-> DiffStep(old, new, f, p)]
      <4> HIDE DEF g
      <4> QED
        BY <2>6
    <3> QED
      BY <3>1, Zenon DEF g
  <2> QED
    BY <2>7
<1>4. Bad = {}
  <2> SUFFICES ASSUME Bad # {} PROVE FALSE
    OBVIOUS
  <2> HIDE DEF Good
  <2>0. Bad \subseteq Nat
    BY <1>1
  <2>1. PICK k \in Bad : \A m \in Bad : ~(<<m, k>> \in OpToRel(<, Nat))
    BY <2>0, NatLessThanWellFounded, WFMin
  <2>2. k \in Nat /\ k <= N + 1 /\ k # 0
    <3>1. k \in 0 .. N + 1 /\ ~Good(k)
      BY <2>1, Zenon
    <3>2. k # 0
      BY <1>2, <3>1, Zenon
    <3> QED
      BY <1>1, <3>1, <3>2
  <2>3. k - 1 \in Nat /\ k - 1 \in 0 .. N + 1 /\ k = (k - 1) + 1
    BY <1>1, <2>2
  <2>4. ~Good((k - 1) + 1)
    <3>1. ~Good(k)
      BY <2>1, Zenon
    <3> QED
      BY <2>3, <3>1, Zenon
  <2>5. ~Good(k - 1)
    BY <1>3, <2>3, <2>4, Zenon
  <2>6. k - 1 \in Bad
    BY <2>3, <2>5, Zenon
  <2>7. <<k - 1, k>> \in OpToRel(<, Nat)
    BY <2>2, <2>3 DEF OpToRel
  <2> QED
    BY <2>1, <2>6, <2>7
<1>5. Good(N + 1)
  <2>1. N + 1 \in 0 .. N + 1
    BY <1>1
  <2> HIDE DEF Good
  <2> QED
    BY <1>4, <2>1, Zenon
<1>6. Level(N + 1) = Paths
  BY <1>1
<1> QED
  BY <1>5, <1>6, Zenon

\* The recursive functions that NodeHash, CollectSubtree and DiffNodeRecursive
\* are written with.
HashOf(t) == CHOOSE h : h = [p \in Nodes |-> HashStep(t, h, p)]

CollectOf(t, op) == CHOOSE collect : collect = [p \in Paths |-> CollectStep(t, op, collect, p)]

DiffOf(old, new) == CHOOSE diff : diff = [p \in Paths |-> DiffStep(old, new, diff, p)]

(* The hash of a node is made of those of its children.                    *)
LEMMA NodeHashStep ==
  ASSUME NEW t, NEW p \in Nodes
  PROVE  NodeHash(t, p) = IF p # Root /\ IsFile(t[p])
                          THEN <<p, t[p].content, t[p].size>>
                          ELSE <<p, {NodeHash(t, r) : r \in Kids(t, p)}>>
<1> DEFINE h == HashOf(t)
<1>1. h = [q \in Nodes |-> HashStep(t, h, q)]
  BY HashExists, Zenon DEF HashOf
<1>2. \A q : NodeHash(t, q) = h[q]
  BY Zenon DEF NodeHash, HashOf, HashStep, Nodes
<1> HIDE DEF h
<1>3. h[p] = HashStep(t, h, p)
  BY <1>1
<1>4. {NodeHash(t, r) : r \in Kids(t, p)} = {h[r] : r \in Kids(t, p)}
  BY <1>2
<1> QED
  BY <1>2, <1>3, <1>4, Zenon DEF HashStep

(* The files of a subtree are those of its children's.                     *)
LEMMA CollectSubtreeStep ==
  ASSUME NEW t, NEW op, NEW p \in Paths
  PROVE  CollectSubtree(t, p, op) = IF IsFile(t[p]) THEN {Change(op, p)}
                                    ELSE UNION {CollectSubtree(t, r, op) : r \in Kids(t, p)}
<1> DEFINE f == CollectOf(t, op)
<1>1. f = [q \in Paths |-> CollectStep(t, op, f, q)]
  BY CollectExists, Zenon DEF CollectOf
<1>2. \A q : CollectSubtree(t, q, op) = f[q]
  BY Zenon DEF CollectSubtree, CollectOf, CollectStep
<1> HIDE DEF f
<1>3. f[p] = CollectStep(t, op, f, p)
  BY <1>1
<1>4. {CollectSubtree(t, r, op) : r \in Kids(t, p)} = {f[r] : r \in Kids(t, p)}
  BY <1>2
<1> QED
  BY <1>2, <1>3, <1>4, Zenon DEF CollectStep

(* The difference of two directories is made of those of their children.   *)
LEMMA DiffNodeStep ==
  ASSUME NEW old, NEW new, NEW p \in Paths
  PROVE  DiffNodeRecursive(old, new, p) =
           IF old[p].type = "none" THEN CollectSubtree(new, p, "add")
           ELSE IF new[p].type = "none" THEN CollectSubtree(old, p, "delete")
           ELSE IF old[p].type # new[p].type
                THEN CollectSubtree(old, p, "delete") \cup CollectSubtree(new, p, "add")
           ELSE IF NodeHash(old, p) = NodeHash(new, p) THEN {}
           ELSE IF IsFile(old[p]) THEN Modify(p)
           ELSE UNION {DiffNodeRecursive(old, new, r) : r \in Kids(old, p) \cup Kids(new, p)}
<1> DEFINE f == DiffOf(old, new)
<1>1. f = [q \in Paths |-> DiffStep(old, new, f, q)]
  BY DiffExists, Zenon DEF DiffOf
<1>2. \A q : DiffNodeRecursive(old, new, q) = f[q]
  BY Zenon DEF DiffNodeRecursive, DiffOf, DiffStep
<1> HIDE DEF f
<1>3. f[p] = DiffStep(old, new, f, p)
  BY <1>1
<1>4. {DiffNodeRecursive(old, new, r) : r \in Kids(old, p) \cup Kids(new, p)}
        = {f[r] : r \in Kids(old, p) \cup Kids(new, p)}
  BY <1>2
<1> QED
  BY <1>2, <1>3, <1>4, Zenon DEF DiffStep

-----------------------------------------------------------------------------
(* Trees of entries, as a scan records them.                               *)

\* A path and what is below it.
Subtree(p) == {p} \cup Below[p]

(* Bottom-up induction: a set that has a node when it has its children has *)
(* every node.                                                             *)
LEMMA BottomUp ==
  ASSUME NEW S, \A p \in Nodes : Children(p) \subseteq S => p \in S
  PROVE  Nodes \subseteq S
<1> DEFINE N      == Cardinality(Paths)
           Height == {N - Depth[p] : p \in Nodes \ S}
<1>1. N \in Nat /\ \A p \in Nodes : Depth[p] \in Nat /\ Depth[p] <= N
  BY DepthFacts
<1>2. Height \subseteq Nat
  BY <1>1
<1>3. ASSUME Nodes \ S # {} PROVE FALSE
  <2>0. Height # {}
    BY <1>3
  <2>1. PICK n \in Height : \A m \in Height : ~(<<m, n>> \in OpToRel(<, Nat))
    <3> HIDE DEF Height
    <3> QED
      BY <1>2, <2>0, NatLessThanWellFounded, WFMin
  <2>2. PICK p \in Nodes \ S : n = N - Depth[p]
    BY <2>1
  <2>3. PICK c \in Children(p) : c \notin S
    BY <2>2
  <2>4. c \in Nodes /\ Depth[c] = Depth[p] + 1
    BY <2>3, DepthFacts DEF Children
  <2>5. N - Depth[c] \in Height
    BY <2>3, <2>4
  <2>6. <<N - Depth[c], n>> \in OpToRel(<, Nat)
    BY <1>1, <2>2, <2>4 DEF OpToRel
  <2> QED
    BY <2>1, <2>5, <2>6
<1> QED
  BY <1>3

(* Top-down induction, from what is in the root.                           *)
LEMMA TopDown ==
  ASSUME NEW S, \A p \in Paths : Parent[p] = Root \/ Parent[p] \in S => p \in S
  PROVE  Paths \subseteq S
<1>1. Paths \cap S \in SUBSET Paths
  OBVIOUS
<1>2. Children(Root) \subseteq Paths \cap S /\ Closed(Paths \cap S)
  BY DEF Children, Closed
<1>3. Root \in Nodes
  BY DEF Nodes
<1> QED
  BY <1>1, <1>2, <1>3, AllBelowRoot, BelowFacts

(* The subtrees of its children are below a directory.                     *)
LEMMA SubtreeBelow ==
  ASSUME NEW d \in Nodes, NEW c \in Children(d)
  PROVE  c \in Paths /\ c \in Nodes /\ Subtree(c) \subseteq Below[d] /\ Subtree(c) \subseteq Paths
<1>1. c \in Paths /\ c \in Nodes
  BY DEF Children, Nodes
<1>2. c \in Below[d] /\ Below[d] \in SUBSET Paths /\ Children(c) \subseteq Below[d] /\ Closed(Below[d])
  BY BelowFacts DEF Closed
<1>3. Below[c] \subseteq Below[d]
  BY <1>1, <1>2, BelowFacts
<1> QED
  BY <1>1, <1>2, <1>3 DEF Subtree

Over(F, S) == UNION {F[q] : q \in S}

(* A union over what is below a directory is that over its children's      *)
(* subtrees, where those with nothing to add may be left out.              *)
LEMMA UnionBelow ==
  ASSUME NEW F, NEW d \in Nodes, NEW K \in SUBSET Children(d),
         \A c \in Children(d) \ K : \A q \in Subtree(c) : F[q] = {}
  PROVE  \A x : x \in Over(F, Below[d]) <=> \E r \in K : x \in Over(F, Subtree(r))
<1>1. ASSUME NEW r \in K, NEW q \in Subtree(r) PROVE q \in Below[d]
  BY SubtreeBelow
<1>2. ASSUME NEW q \in Below[d], F[q] # {} PROVE \E r \in K : q \in Subtree(r)
  <2>1. PICK c \in Children(d) : q \in Subtree(c)
    BY BelowDown DEF Subtree
  <2> QED
    BY <1>2, <2>1
<1>3. ASSUME NEW r \in K, NEW x \in Over(F, Subtree(r)) PROVE x \in Over(F, Below[d])
  BY <1>1 DEF Over
<1>4. ASSUME NEW x \in Over(F, Below[d]) PROVE \E r \in K : x \in Over(F, Subtree(r))
  <2>1. PICK q \in Below[d] : x \in F[q]
    BY DEF Over
  <2>2. PICK r \in K : q \in Subtree(r)
    BY <1>2, <2>1
  <2> QED
    BY <2>1, <2>2 DEF Over
<1> QED
  BY <1>3, <1>4

(* An entry is none, a directory, or a file with its size and content.     *)
LEMMA EntryFacts ==
  ASSUME NEW e \in Entries
  PROVE  /\ e.type \in {"none", "dir", "file"}
         /\ e.type = "none" => e = NoEntry
         /\ e.type = "dir" => e = DirEntry
         /\ IsFile(e) => /\ e = [type |-> "file", size |-> e.size, content |-> e.content]
                         /\ \E c \in Contents : e.size = SizeOf[c]
                         /\ e.content \in Contents \cup {None}
BY DEF Entries, NoEntry, DirEntry, FileEntry, IsFile

\* A tree has a directory above every entry in it.
Tree(t) ==
  /\ t \in [Paths -> Entries]
  /\ \A p \in Paths : t[p].type # "none" /\ Parent[p] # Root => t[Parent[p]].type = "dir"

(* Nothing is below what is not a directory.                               *)
LEMMA NothingBelow ==
  ASSUME NEW t, Tree(t), NEW c \in Paths, t[c].type # "dir"
  PROVE  \A q \in Below[c] : q \in Paths /\ t[q] = NoEntry
<1> DEFINE S == {q \in Paths : t[q].type = "none"}
<1>0. c \in Nodes
  BY DEF Nodes
<1>1. S \in SUBSET Paths
  OBVIOUS
<1>2. Children(c) \subseteq S
  BY ScanAssumption DEF Children, Tree
<1>3. Closed(S)
  BY ScanAssumption DEF Children, Tree, Closed
<1>4. Below[c] \subseteq S
  <2> HIDE DEF S
  <2> QED
    BY <1>0, <1>1, <1>2, <1>3, BelowFacts
<1>5. \A q \in S : t[q] \in Entries
  BY DEF Tree
<1> QED
  BY <1>4, <1>5, EntryFacts

(* Nothing is in the subtree of a path without an entry.                   *)
LEMMA NothingInSubtree ==
  ASSUME NEW t, Tree(t), NEW c \in Paths, t[c].type = "none"
  PROVE  \A q \in Subtree(c) : q \in Paths /\ t[q] = NoEntry
<1>1. t[c] = NoEntry
  BY EntryFacts DEF Tree
<1> QED
  BY <1>1, NothingBelow DEF Subtree

-----------------------------------------------------------------------------
(* What the hash tells.                                                    *)

(* The path goes into the hash of a node.                                  *)
LEMMA HashHasPath ==
  ASSUME NEW t, NEW p \in Nodes
  PROVE  NodeHash(t, p)[1] = p
<1>1. CASE p # Root /\ IsFile(t[p])
  <2>1. NodeHash(t, p) = <<p, t[p].content, t[p].size>>
    BY <1>1, NodeHashStep
  <2> QED
    BY <2>1
<1>2. CASE ~(p # Root /\ IsFile(t[p]))
  <2> DEFINE S == {NodeHash(t, r) : r \in Kids(t, p)}
  <2>1. NodeHash(t, p) = <<p, S>>
    BY <1>2, NodeHashStep
  <2> HIDE DEF S
  <2> QED
    BY <2>1
<1> QED
  BY <1>1, <1>2

KidHashes(t, p) == {NodeHash(t, r) : r \in Kids(t, p)}

(* Equal hashes are of nodes of the same kind.                             *)
LEMMA HashHasKind ==
  ASSUME NEW old, NEW new, NEW p \in Nodes, NodeHash(old, p) = NodeHash(new, p)
  PROVE  /\ p # Root => (IsFile(old[p]) <=> IsFile(new[p]))
         /\ p # Root /\ IsFile(old[p]) =>
              old[p].content = new[p].content /\ old[p].size = new[p].size
         /\ p = Root \/ ~IsFile(old[p]) =>
              KidHashes(old, p) = KidHashes(new, p)
<1> DEFINE S == KidHashes(old, p)
           T == KidHashes(new, p)
<1>1. /\ NodeHash(old, p) = IF p # Root /\ IsFile(old[p])
                            THEN <<p, old[p].content, old[p].size>> ELSE <<p, S>>
      /\ NodeHash(new, p) = IF p # Root /\ IsFile(new[p])
                            THEN <<p, new[p].content, new[p].size>> ELSE <<p, T>>
  BY NodeHashStep, Zenon DEF KidHashes
<1> HIDE DEF S, T
<1>2. CASE p # Root /\ IsFile(old[p])
  <2>1. NodeHash(old, p) = <<p, old[p].content, old[p].size>>
    BY <1>1, <1>2, Zenon
  <2>2. p # Root /\ IsFile(new[p])
    <3> SUFFICES ASSUME ~(p # Root /\ IsFile(new[p])) PROVE FALSE
      BY Zenon
    <3>1. NodeHash(new, p) = <<p, T>>
      BY <1>1, Zenon
    <3>2. <<p, T>> = <<p, old[p].content, old[p].size>>
      BY <2>1, <3>1, Zenon
    <3> QED
      BY <3>2
  <2>3. NodeHash(new, p) = <<p, new[p].content, new[p].size>>
    BY <1>1, <2>2, Zenon
  <2>4. old[p].content = new[p].content /\ old[p].size = new[p].size
    <3>1. <<p, old[p].content, old[p].size>> = <<p, new[p].content, new[p].size>>
      BY <2>1, <2>3, Zenon
    <3> QED
      BY <3>1
  <2> QED
    BY <1>2, <2>2, <2>4, Zenon
<1>3. CASE ~(p # Root /\ IsFile(old[p]))
  <2>1. NodeHash(old, p) = <<p, S>>
    BY <1>1, <1>3, Zenon
  <2>2. ~(p # Root /\ IsFile(new[p]))
    <3> SUFFICES ASSUME p # Root /\ IsFile(new[p]) PROVE FALSE
      BY Zenon
    <3>1. NodeHash(new, p) = <<p, new[p].content, new[p].size>>
      BY <1>1, Zenon
    <3>2. <<p, S>> = <<p, new[p].content, new[p].size>>
      BY <2>1, <3>1, Zenon
    <3> QED
      BY <3>2
  <2>3. NodeHash(new, p) = <<p, T>>
    BY <1>1, <2>2, Zenon
  <2>4. S = T
    <3>1. <<p, S>> = <<p, T>>
      BY <2>1, <2>3, Zenon
    <3> QED
      BY <3>1
  <2> QED
    BY <1>3, <2>2, <2>4, Zenon DEF S, T
<1> QED
  BY <1>2, <1>3, Zenon

(* Equal hashes of a directory are made of equal hashes of its children.   *)
LEMMA HashHasKids ==
  ASSUME NEW old, NEW new, NEW p \in Nodes,
         KidHashes(old, p) = KidHashes(new, p)
  PROVE  /\ Kids(old, p) = Kids(new, p)
         /\ \A r \in Kids(old, p) : NodeHash(old, r) = NodeHash(new, r)
<1>1. \A t : \A r \in Kids(t, p) : r \in Nodes
  BY DEF Kids, Children, Nodes
<1>2. ASSUME NEW r \in Kids(old, p) PROVE r \in Kids(new, p) /\ NodeHash(old, r) = NodeHash(new, r)
  <2>1. PICK s \in Kids(new, p) : NodeHash(new, s) = NodeHash(old, r)
    BY DEF KidHashes
  <2>2. NodeHash(new, s)[1] = s /\ NodeHash(old, r)[1] = r
    BY <1>1, HashHasPath
  <2> QED
    BY <2>1, <2>2
<1>3. ASSUME NEW r \in Kids(new, p) PROVE r \in Kids(old, p)
  <2>1. PICK s \in Kids(old, p) : NodeHash(old, s) = NodeHash(new, r)
    BY DEF KidHashes
  <2>2. NodeHash(old, s)[1] = s /\ NodeHash(new, r)[1] = r
    BY <1>1, HashHasPath
  <2> QED
    BY <2>1, <2>2
<1> QED
  BY <1>2, <1>3

\* old and new have the same entries at p and below.
SameBelow(old, new, p) == \A q \in Subtree(p) \ {Root} : old[q] = new[q]

(* Equal hashes are of equal subtrees, for a node that both trees have.    *)
LEMMA HashInjective ==
  ASSUME NEW old, NEW new, Tree(old), Tree(new), NEW p \in Nodes,
         p # Root => old[p].type # "none" /\ new[p].type # "none",
         NodeHash(old, p) = NodeHash(new, p)
  PROVE  SameBelow(old, new, p)
<1> DEFINE Both(q) == q # Root => old[q].type # "none" /\ new[q].type # "none"
           S == {q \in Nodes : Both(q) /\ NodeHash(old, q) = NodeHash(new, q) => SameBelow(old, new, q)}
<1>1. ASSUME NEW q \in Nodes, Children(q) \subseteq S, Both(q), NodeHash(old, q) = NodeHash(new, q)
      PROVE  SameBelow(old, new, q)
  <2>0. q # Root => q \in Paths /\ old[q] \in Entries /\ new[q] \in Entries
    BY DEF Tree, Nodes
  <2>1. CASE q # Root /\ IsFile(old[q])
    <3>1. IsFile(new[q]) /\ old[q].content = new[q].content /\ old[q].size = new[q].size
      BY <1>1, <2>1, HashHasKind
    <3>2. old[q] = new[q]
      BY <2>0, <2>1, <3>1, EntryFacts
    <3>3. old[q].type # "dir" /\ new[q].type # "dir"
      BY <2>1, <3>1 DEF IsFile
    <3>4. \A r \in Below[q] : old[r] = NoEntry /\ new[r] = NoEntry
      BY <2>0, <2>1, <3>3, NothingBelow
    <3> QED
      BY <3>2, <3>4 DEF SameBelow, Subtree
  <2>2. CASE q = Root \/ ~IsFile(old[q])
    <3>1. q # Root => old[q] = new[q]
      <4> SUFFICES ASSUME q # Root PROVE old[q] = new[q]
        OBVIOUS
      <4>1. ~IsFile(old[q]) /\ ~IsFile(new[q])
        BY <1>1, <2>2, HashHasKind
      <4>2. old[q].type = "dir" /\ new[q].type = "dir"
        BY <1>1, <2>0, <4>1, EntryFacts DEF IsFile
      <4> QED
        BY <2>0, <4>2, EntryFacts
    <3>2. /\ Kids(old, q) = Kids(new, q)
          /\ \A r \in Kids(old, q) : NodeHash(old, r) = NodeHash(new, r)
      BY <1>1, <2>2, HashHasKind, HashHasKids
    <3>3. ASSUME NEW c \in Children(q) PROVE \A r \in Subtree(c) : old[r] = new[r]
      <4>0. c \in Nodes /\ c \in Paths /\ Subtree(c) \subseteq Paths /\ Root \notin Paths
        BY SubtreeBelow, ScanAssumption
      <4>1. CASE c \in Kids(old, q)
        <5>1. Both(c)
          BY <3>2, <4>1 DEF Kids
        <5>2. NodeHash(old, c) = NodeHash(new, c)
          BY <3>2, <4>1
        <5>3. SameBelow(old, new, c)
          BY <1>1, <5>1, <5>2
        <5> QED
          BY <4>0, <5>3 DEF SameBelow
      <4>2. CASE c \notin Kids(old, q)
        <5>1. old[c].type = "none" /\ new[c].type = "none"
          BY <3>2, <4>2 DEF Kids
        <5> QED
          BY <4>0, <5>1, NothingInSubtree
      <4> QED
        BY <4>1, <4>2
    <3>4. \A r \in Below[q] : old[r] = new[r]
      BY <3>3, BelowDown DEF Subtree
    <3> QED
      BY <3>1, <3>4 DEF SameBelow, Subtree
  <2> QED
    BY <2>1, <2>2
<1>2. \A q \in Nodes : Children(q) \subseteq S => q \in S
  <2> SUFFICES ASSUME NEW q \in Nodes, Children(q) \subseteq S PROVE q \in S
    OBVIOUS
  <2>1. Both(q) /\ NodeHash(old, q) = NodeHash(new, q) => SameBelow(old, new, q)
    BY <1>1
  <2> QED
    BY <2>1, Zenon
<1>3. Nodes \subseteq S
  <2> HIDE DEF S
  <2> QED
    BY <1>2, BottomUp
<1>4. Both(p) /\ NodeHash(old, p) = NodeHash(new, p) => SameBelow(old, new, p)
  BY <1>3, Zenon
<1> QED
  BY <1>4, Zenon

-----------------------------------------------------------------------------
(* What the difference holds.                                              *)

FileChanges(t, op) == [q \in Paths |-> IF IsFile(t[q]) THEN {Change(op, q)} ELSE {}]

(* The difference by its definition, path by path.                         *)
ChangesAt(old, new) ==
  [q \in Paths |->
     IF IsFile(new[q])
     THEN IF IsFile(old[q])
          THEN IF old[q] = new[q] THEN {} ELSE {Change("modify", q)}
          ELSE {Change("add", q)}
     ELSE IF IsFile(old[q]) THEN {Change("delete", q)} ELSE {}]

(* CollectSubtree gives the files of the subtree.                          *)
LEMMA CollectIsExact ==
  ASSUME NEW t, Tree(t), NEW op, NEW p \in Paths
  PROVE  CollectSubtree(t, p, op) = Over(FileChanges(t, op), Subtree(p))
<1> DEFINE F == FileChanges(t, op)
           All(x) == Over(F, Subtree(x))
           S == {q \in Nodes : q # Root => CollectSubtree(t, q, op) = All(q)}
<1>0. \A q \in Paths : F[q] = IF IsFile(t[q]) THEN {Change(op, q)} ELSE {}
  BY DEF FileChanges
<1>nofile. ~IsFile(NoEntry)
  BY DEF IsFile, NoEntry
<1> HIDE DEF F
<1>1. ASSUME NEW d \in Nodes, Children(d) \subseteq S, d # Root
      PROVE  CollectSubtree(t, d, op) = All(d)
  <2>0. d \in Paths /\ t[d] \in Entries
    BY <1>1 DEF Nodes, Tree
  <2>1. CASE IsFile(t[d])
    <3>1. CollectSubtree(t, d, op) = {Change(op, d)}
      BY <2>0, <2>1, CollectSubtreeStep
    <3>2. t[d].type # "dir"
      BY <2>1 DEF IsFile
    <3>3. \A r \in Below[d] : F[r] = {}
      <4>1. \A r \in Below[d] : r \in Paths /\ t[r] = NoEntry
        BY <2>0, <3>2, NothingBelow
      <4> QED
        BY <1>0, <1>nofile, <4>1, Zenon
    <3>4. F[d] = {Change(op, d)}
      BY <1>0, <2>0, <2>1
    <3> QED
      BY <3>1, <3>3, <3>4 DEF Subtree, Over
  <2>2. CASE ~IsFile(t[d])
    <3>1. CollectSubtree(t, d, op) = UNION {CollectSubtree(t, r, op) : r \in Kids(t, d)}
      BY <2>0, <2>2, CollectSubtreeStep
    <3>2. \A r \in Kids(t, d) : CollectSubtree(t, r, op) = All(r)
      <4>1. \A r \in Kids(t, d) : r \in S /\ r # Root
        BY <1>1, ScanAssumption DEF Kids, Children
      <4> QED
        BY <4>1, Zenon
    <3>3. Kids(t, d) \in SUBSET Children(d)
      BY DEF Kids
    <3>4. \A c \in Children(d) \ Kids(t, d) : \A q \in Subtree(c) : F[q] = {}
      <4> SUFFICES ASSUME NEW c \in Children(d) \ Kids(t, d), NEW q \in Subtree(c) PROVE F[q] = {}
        OBVIOUS
      <4>1. c \in Paths /\ t[c].type = "none"
        BY DEF Kids, Children
      <4>2. q \in Paths /\ t[q] = NoEntry
        BY <4>1, NothingInSubtree
      <4> QED
        BY <1>0, <1>nofile, <4>2, Zenon
    <3>5. \A x : x \in Over(F, Below[d]) <=> \E r \in Kids(t, d) : x \in All(r)
      BY <3>3, <3>4, UnionBelow
    <3>6. F[d] = {}
      BY <1>0, <2>0, <2>2
    <3>7. All(d) = Over(F, Below[d])
      BY <3>6 DEF Subtree, Over
    <3> QED
      BY <3>1, <3>2, <3>5, <3>7
  <2> QED
    BY <2>1, <2>2
<1>2. \A q \in Nodes : Children(q) \subseteq S => q \in S
  <2> SUFFICES ASSUME NEW q \in Nodes, Children(q) \subseteq S PROVE q \in S
    OBVIOUS
  <2>1. q # Root => CollectSubtree(t, q, op) = All(q)
    BY <1>1
  <2> QED
    BY <2>1, Zenon
<1>3. Nodes \subseteq S
  <2> HIDE DEF S
  <2> QED
    BY <1>2, BottomUp
<1>4. p \in Nodes /\ p # Root
  BY ScanAssumption DEF Nodes
<1>5. CollectSubtree(t, p, op) = All(p)
  BY <1>3, <1>4, Zenon
<1> QED
  BY <1>5, Zenon DEF F

(* Where a tree has no file, the difference is the files of the other.     *)
LEMMA ChangesOfOne ==
  ASSUME NEW old, NEW new, NEW q \in Paths
  PROVE  /\ ~IsFile(old[q]) => ChangesAt(old, new)[q] = FileChanges(new, "add")[q]
         /\ ~IsFile(new[q]) => ChangesAt(old, new)[q] = FileChanges(old, "delete")[q]
         /\ old[q] = new[q] => ChangesAt(old, new)[q] = {}
<1>1. /\ ChangesAt(old, new)[q] =
           IF IsFile(new[q])
           THEN IF IsFile(old[q])
                THEN IF old[q] = new[q] THEN {} ELSE {Change("modify", q)}
                ELSE {Change("add", q)}
           ELSE IF IsFile(old[q]) THEN {Change("delete", q)} ELSE {}
      /\ FileChanges(new, "add")[q] = IF IsFile(new[q]) THEN {Change("add", q)} ELSE {}
      /\ FileChanges(old, "delete")[q] = IF IsFile(old[q]) THEN {Change("delete", q)} ELSE {}
  BY DEF ChangesAt, FileChanges
<1>2. ASSUME ~IsFile(old[q]) PROVE ChangesAt(old, new)[q] = FileChanges(new, "add")[q]
  BY <1>1, <1>2, Zenon
<1>3. ASSUME ~IsFile(new[q]) PROVE ChangesAt(old, new)[q] = FileChanges(old, "delete")[q]
  BY <1>1, <1>3, Zenon
<1>4. ASSUME old[q] = new[q] PROVE ChangesAt(old, new)[q] = {}
  <2>1. IsFile(old[q]) <=> IsFile(new[q])
    BY <1>4 DEF IsFile
  <2> QED
    BY <1>1, <1>4, <2>1, Zenon
<1> QED
  BY <1>2, <1>3, <1>4, Zenon

(* A path that neither tree has changes nothing.                           *)
LEMMA NoChange ==
  ASSUME NEW old, NEW new, NEW q \in Paths, old[q] = NoEntry, new[q] = NoEntry
  PROVE  ChangesAt(old, new)[q] = {}
BY ChangesOfOne

(* Only a file is a file.                                                  *)
LEMMA NoEntryIsNoFile == ~IsFile(NoEntry) /\ ~IsFile(DirEntry) /\ DirEntry # NoEntry
BY DEF IsFile, NoEntry, DirEntry

(* DiffNodeRecursive gives the changes of a subtree that is not a          *)
(* directory in both trees: one is none, or a file became a directory or a *)
(* directory a file, or both are files and their hashes decide.            *)
LEMMA DiffOfLeaves ==
  ASSUME NEW old, NEW new, Tree(old), Tree(new), NEW p \in Paths,
         ~(old[p].type = "dir" /\ new[p].type = "dir")
  PROVE  DiffNodeRecursive(old, new, p) = Over(ChangesAt(old, new), Subtree(p))
<1> DEFINE G == ChangesAt(old, new)
           A == FileChanges(new, "add")
           D == FileChanges(old, "delete")
<1>0. /\ old[p] \in Entries /\ new[p] \in Entries
      /\ old[p].type \in {"none", "dir", "file"} /\ new[p].type \in {"none", "dir", "file"}
      /\ p \in Nodes /\ p \in Subtree(p) /\ Subtree(p) \subseteq Paths
  <2>1. old[p] \in Entries /\ new[p] \in Entries
    BY DEF Tree
  <2>2. p \in Nodes
    BY DEF Nodes
  <2>3. Subtree(p) \subseteq Paths /\ p \in Subtree(p)
    BY <2>2, BelowFacts DEF Subtree
  <2> QED
    BY <2>1, <2>2, <2>3, EntryFacts
<1>1. /\ CollectSubtree(new, p, "add") = Over(A, Subtree(p))
      /\ CollectSubtree(old, p, "delete") = Over(D, Subtree(p))
  BY CollectIsExact
<1>2. \A q \in Subtree(p) : /\ ~IsFile(old[q]) => G[q] = A[q]
                            /\ ~IsFile(new[q]) => G[q] = D[q]
  BY <1>0, ChangesOfOne
<1>3. ASSUME old[p].type # "dir" PROVE \A q \in Below[p] : q \in Paths /\ old[q] = NoEntry
  BY <1>3, NothingBelow
<1>4. ASSUME new[p].type # "dir" PROVE \A q \in Below[p] : q \in Paths /\ new[q] = NoEntry
  BY <1>4, NothingBelow
<1>5. \A q \in Subtree(p) : /\ ~IsFile(new[q]) => A[q] = {}
                            /\ ~IsFile(old[q]) => D[q] = {}
  BY <1>0 DEF FileChanges
<1> DEFINE U == UNION {DiffNodeRecursive(old, new, r) : r \in Kids(old, p) \cup Kids(new, p)}
<1>step. DiffNodeRecursive(old, new, p) =
        IF old[p].type = "none" THEN CollectSubtree(new, p, "add")
        ELSE IF new[p].type = "none" THEN CollectSubtree(old, p, "delete")
        ELSE IF old[p].type # new[p].type
             THEN CollectSubtree(old, p, "delete") \cup CollectSubtree(new, p, "add")
        ELSE IF NodeHash(old, p) = NodeHash(new, p) THEN {}
        ELSE IF IsFile(old[p]) THEN Modify(p)
        ELSE U
  BY DiffNodeStep
<1> HIDE DEF G, A, D, U
<1>6. CASE old[p].type = "none"
  <2>1. DiffNodeRecursive(old, new, p) = Over(A, Subtree(p))
    BY <1>step, <1>1, <1>6
  <2>2. \A q \in Subtree(p) : old[q] = NoEntry
    BY <1>6, NothingInSubtree
  <2>3. \A q \in Subtree(p) : G[q] = A[q]
    BY <1>2, <2>2, NoEntryIsNoFile, Zenon
  <2>4. Over(G, Subtree(p)) = Over(A, Subtree(p))
    BY <2>3 DEF Over
  <2> QED
    BY <2>1, <2>4, Zenon DEF G
<1>7. CASE old[p].type # "none" /\ new[p].type = "none"
  <2>1. DiffNodeRecursive(old, new, p) = Over(D, Subtree(p))
    BY <1>step, <1>1, <1>7
  <2>2. \A q \in Subtree(p) : new[q] = NoEntry
    BY <1>7, NothingInSubtree
  <2>3. \A q \in Subtree(p) : G[q] = D[q]
    BY <1>2, <2>2, NoEntryIsNoFile, Zenon
  <2>4. Over(G, Subtree(p)) = Over(D, Subtree(p))
    BY <2>3 DEF Over
  <2> QED
    BY <2>1, <2>4, Zenon DEF G
<1>8. CASE old[p].type # "none" /\ new[p].type # "none" /\ old[p].type # new[p].type
  <2>1. DiffNodeRecursive(old, new, p) = Over(D, Subtree(p)) \cup Over(A, Subtree(p))
    BY <1>step, <1>1, <1>8
  <2>2. ASSUME NEW q \in Subtree(p) PROVE ~IsFile(old[q]) \/ ~IsFile(new[q])
    <3>1. CASE q = p
      BY <1>8, <3>1 DEF IsFile
    <3>2. CASE q \in Below[p]
      <4>1. old[q] = NoEntry \/ new[q] = NoEntry
        BY <1>3, <1>4, <3>2
      <4> QED
        BY <4>1, NoEntryIsNoFile, Zenon
    <3> QED
      BY <3>1, <3>2 DEF Subtree
  <2>3. ASSUME NEW q \in Subtree(p) PROVE G[q] = D[q] \cup A[q]
    <3>1. CASE ~IsFile(old[q])
      BY <1>2, <1>5, <3>1
    <3>2. CASE ~IsFile(new[q])
      BY <1>2, <1>5, <3>2
    <3> QED
      BY <2>2, <3>1, <3>2, Zenon
  <2>4. Over(G, Subtree(p)) = Over(D, Subtree(p)) \cup Over(A, Subtree(p))
    BY <2>3 DEF Over
  <2> QED
    BY <2>1, <2>4, Zenon DEF G
<1>9. CASE IsFile(old[p]) /\ IsFile(new[p])
  <2>0. old[p].type = "file" /\ new[p].type = "file"
    BY <1>9 DEF IsFile
  <2>1. \A q \in Below[p] : G[q] = {}
    <3>1. \A q \in Below[p] : q \in Subtree(p) /\ q \in Paths /\ old[q] = NoEntry /\ new[q] = NoEntry
      BY <1>3, <1>4, <2>0 DEF Subtree
    <3> QED
      BY <3>1, NoChange, Zenon DEF G
  <2>2. Over(G, Subtree(p)) = G[p]
    BY <2>1 DEF Over, Subtree
  <2>3. G[p] = IF old[p] = new[p] THEN {} ELSE {Change("modify", p)}
    BY <1>9, Zenon DEF G, ChangesAt
  <2>4. old[p].type # "none" /\ new[p].type # "none" /\ old[p].type = new[p].type
    BY <2>0
  <2>5. CASE old[p] = new[p]
    <3>1. NodeHash(old, p) = NodeHash(new, p)
      <4>1. p # Root
        BY ScanAssumption
      <4>2. NodeHash(old, p) = <<p, old[p].content, old[p].size>>
        BY <1>0, <1>9, <4>1, NodeHashStep
      <4>3. NodeHash(new, p) = <<p, new[p].content, new[p].size>>
        BY <1>0, <1>9, <4>1, NodeHashStep
      <4> QED
        BY <2>5, <4>2, <4>3
    <3>2. DiffNodeRecursive(old, new, p) = {}
      BY <1>step, <2>4, <3>1
    <3> QED
      BY <2>2, <2>3, <2>5, <3>2, Zenon DEF G
  <2>6. CASE old[p] # new[p]
    <3>1. NodeHash(old, p) # NodeHash(new, p)
      <4> SUFFICES ASSUME NodeHash(old, p) = NodeHash(new, p) PROVE FALSE
        OBVIOUS
      <4>1. SameBelow(old, new, p)
        BY <1>0, <2>4, HashInjective
      <4>2. p # Root
        BY ScanAssumption
      <4> QED
        BY <1>0, <2>6, <4>1, <4>2 DEF SameBelow
    <3>2. DiffNodeRecursive(old, new, p) = {Change("modify", p)}
      BY <1>step, <1>9, <2>4, <3>1 DEF Modify
    <3> QED
      BY <2>2, <2>3, <2>6, <3>2, Zenon DEF G
  <2> QED
    BY <2>5, <2>6
<1> QED
  BY <1>0, <1>6, <1>7, <1>8, <1>9 DEF IsFile

(* Children that neither tree has change nothing.                          *)
LEMMA OnlyKidsChange ==
  ASSUME NEW old, NEW new, Tree(old), Tree(new), NEW d \in Nodes
  PROVE  /\ Kids(old, d) \cup Kids(new, d) \in SUBSET Children(d)
         /\ \A c \in Children(d) \ (Kids(old, d) \cup Kids(new, d)) :
              \A q \in Subtree(c) : ChangesAt(old, new)[q] = {}
<1>1. Kids(old, d) \cup Kids(new, d) \in SUBSET Children(d)
  BY DEF Kids
<1>2. ASSUME NEW c \in Children(d) \ (Kids(old, d) \cup Kids(new, d)), NEW q \in Subtree(c)
      PROVE  ChangesAt(old, new)[q] = {}
  <2>1. c \in Paths /\ old[c].type = "none" /\ new[c].type = "none"
    BY DEF Kids, Children
  <2>2. q \in Paths /\ old[q] = NoEntry /\ new[q] = NoEntry
    BY <2>1, NothingInSubtree
  <2> QED
    BY <2>2, NoChange
<1> QED
  BY <1>1, <1>2

(* DiffNodeRecursive gives the changes of the subtree.                     *)
LEMMA DiffNodeIsExact ==
  ASSUME NEW old, NEW new, Tree(old), Tree(new), NEW p \in Paths
  PROVE  DiffNodeRecursive(old, new, p) = Over(ChangesAt(old, new), Subtree(p))
<1> DEFINE G == ChangesAt(old, new)
           S == {q \in Nodes : q # Root => DiffNodeRecursive(old, new, q) = Over(G, Subtree(q))}
<1>1. ASSUME NEW d \in Nodes, Children(d) \subseteq S, d # Root
      PROVE  DiffNodeRecursive(old, new, d) = Over(G, Subtree(d))
  <2>0. d \in Paths
    BY <1>1 DEF Nodes
  <2>1. CASE ~(old[d].type = "dir" /\ new[d].type = "dir")
    BY <2>0, <2>1, DiffOfLeaves
  <2>2. CASE old[d].type = "dir" /\ new[d].type = "dir"
    <3> DEFINE K == Kids(old, d) \cup Kids(new, d)
               U == UNION {DiffNodeRecursive(old, new, r) : r \in K}
    <3>1. DiffNodeRecursive(old, new, d) = IF NodeHash(old, d) = NodeHash(new, d) THEN {} ELSE U
      <4>1. DiffNodeRecursive(old, new, d) =
              IF old[d].type = "none" THEN CollectSubtree(new, d, "add")
              ELSE IF new[d].type = "none" THEN CollectSubtree(old, d, "delete")
              ELSE IF old[d].type # new[d].type
                   THEN CollectSubtree(old, d, "delete") \cup CollectSubtree(new, d, "add")
              ELSE IF NodeHash(old, d) = NodeHash(new, d) THEN {}
              ELSE IF IsFile(old[d]) THEN Modify(d)
              ELSE U
        BY <2>0, DiffNodeStep
      <4> HIDE DEF U, K
      <4> QED
        BY <2>2, <4>1 DEF IsFile
    <3>2. CASE NodeHash(old, d) = NodeHash(new, d)
      <4>1. SameBelow(old, new, d)
        BY <2>2, <3>2, HashInjective
      <4>2. \A q \in Subtree(d) : q \in Paths /\ old[q] = new[q]
        BY <2>0, <1>1, <4>1, BelowFacts, ScanAssumption DEF SameBelow, Subtree
      <4>3. \A q \in Subtree(d) : G[q] = {}
        BY <4>2, ChangesOfOne, Zenon
      <4>4. Over(G, Subtree(d)) = {}
        <5> HIDE DEF G
        <5> QED
          BY <4>3 DEF Over
      <4>5. DiffNodeRecursive(old, new, d) = {}
        <5> HIDE DEF U
        <5> QED
          BY <3>1, <3>2
      <4> QED
        BY <4>4, <4>5, Zenon
    <3>3. CASE NodeHash(old, d) # NodeHash(new, d)
      <4>1. DiffNodeRecursive(old, new, d) = U
        <5> HIDE DEF U
        <5> QED
          BY <3>1, <3>3
      <4>2. \A r \in K : DiffNodeRecursive(old, new, r) = Over(G, Subtree(r))
        <5>1. \A r \in K : r \in S /\ r # Root
          BY <1>1, ScanAssumption DEF Kids, Children
        <5> QED
          BY <5>1, Zenon
      <4>3. \A x : x \in Over(G, Below[d]) <=> \E r \in K : x \in Over(G, Subtree(r))
        <5>1. K \in SUBSET Children(d) /\ \A c \in Children(d) \ K : \A q \in Subtree(c) : G[q] = {}
          BY OnlyKidsChange, Zenon
        <5> HIDE DEF G, K
        <5> QED
          BY <5>1, UnionBelow
      <4>4. Over(G, Subtree(d)) = Over(G, Below[d])
        <5>1. ~IsFile(old[d]) /\ ~IsFile(new[d])
          BY <2>2 DEF IsFile
        <5>2. G[d] = {}
          BY <2>0, <5>1, Zenon DEF ChangesAt
        <5> HIDE DEF G
        <5> QED
          BY <5>2 DEF Over, Subtree
      <4> HIDE DEF G, K
      <4> QED
        BY <4>1, <4>2, <4>3, <4>4
    <3> QED
      BY <3>2, <3>3
  <2> QED
    BY <2>1, <2>2
<1>2. \A q \in Nodes : Children(q) \subseteq S => q \in S
  <2> SUFFICES ASSUME NEW q \in Nodes, Children(q) \subseteq S PROVE q \in S
    OBVIOUS
  <2>1. q # Root => DiffNodeRecursive(old, new, q) = Over(G, Subtree(q))
    BY <1>1
  <2> QED
    BY <2>1, Zenon
<1>3. Nodes \subseteq S
  <2> HIDE DEF S
  <2> QED
    BY <1>2, BottomUp
<1>4. p \in Nodes /\ p # Root
  BY ScanAssumption DEF Nodes
<1> QED
  BY <1>3, <1>4, Zenon

(* DiffSnapshots gives the changes of every path: pruning where hashes     *)
(* agree hides none.                                                       *)
LEMMA DiffSnapshotsIsExact ==
  ASSUME NEW old, NEW new, Tree(old), Tree(new)
  PROVE  DiffSnapshots(old, new) = Over(ChangesAt(old, new), Paths)
<1> DEFINE G == ChangesAt(old, new)
           K == Kids(old, Root) \cup Kids(new, Root)
           U == UNION {DiffNodeRecursive(old, new, r) : r \in K}
<1>0. Root \in Nodes /\ Root \notin Paths /\ Below[Root] = Paths
  BY AllBelowRoot, ScanAssumption DEF Nodes
<1>1. DiffSnapshots(old, new) = IF NodeHash(old, Root) = NodeHash(new, Root) THEN {} ELSE U
  BY DEF DiffSnapshots
<1>2. CASE NodeHash(old, Root) = NodeHash(new, Root)
  <2>1. SameBelow(old, new, Root)
    BY <1>0, <1>2, HashInjective
  <2>2. \A q \in Paths : old[q] = new[q]
    BY <1>0, <2>1 DEF SameBelow, Subtree
  <2>3. \A q \in Paths : G[q] = {}
    BY <2>2, ChangesOfOne, Zenon
  <2>4. Over(G, Paths) = {}
    <3> HIDE DEF G
    <3> QED
      BY <2>3 DEF Over
  <2>5. DiffSnapshots(old, new) = {}
    <3> HIDE DEF U
    <3> QED
      BY <1>1, <1>2
  <2> QED
    BY <2>4, <2>5, Zenon
<1>3. CASE NodeHash(old, Root) # NodeHash(new, Root)
  <2>1. DiffSnapshots(old, new) = U
    <3> HIDE DEF U
    <3> QED
      BY <1>1, <1>3
  <2>2. \A r \in K : DiffNodeRecursive(old, new, r) = Over(G, Subtree(r))
    <3>1. \A r \in K : r \in Paths
      BY DEF Kids, Children
    <3> QED
      BY <3>1, DiffNodeIsExact, Zenon
  <2>3. \A x : x \in Over(G, Below[Root]) <=> \E r \in K : x \in Over(G, Subtree(r))
    <3>1. K \in SUBSET Children(Root)
          /\ \A c \in Children(Root) \ K : \A q \in Subtree(c) : G[q] = {}
      BY <1>0, OnlyKidsChange, Zenon
    <3> HIDE DEF G, K
    <3> QED
      BY <1>0, <3>1, UnionBelow
  <2> HIDE DEF G, K
  <2>4. DiffSnapshots(old, new) = Over(G, Paths)
    BY <1>0, <2>1, <2>2, <2>3
  <2> QED
    BY <2>4, Zenon DEF G
<1> QED
  BY <1>2, <1>3

(* The delta names, path by path, what has to be done.                     *)
LEMMA DeltaIsExact ==
  ASSUME NEW old, NEW new, Tree(old), Tree(new)
  PROVE  LET delta == DiffSnapshots(old, new) IN
         /\ delta \subseteq [op : {"add", "modify", "delete"}, path : Paths]
         /\ Upserts(delta) = {p \in Paths : IsFile(new[p]) /\ new[p] # old[p]}
         /\ Deletes(delta) = {p \in Paths : IsFile(old[p]) /\ ~IsFile(new[p])}
<1> DEFINE delta == DiffSnapshots(old, new)
           G == ChangesAt(old, new)
<1>1. \A c : c \in delta <=> \E q \in Paths : c \in G[q]
  <2>1. delta = Over(G, Paths)
    BY DiffSnapshotsIsExact, Zenon
  <2> HIDE DEF delta, G
  <2> QED
    BY <2>1 DEF Over
<1>2. ASSUME NEW q \in Paths
      PROVE  \E O \in SUBSET {"add", "modify", "delete"} :
               /\ \A c : c \in G[q] <=> \E op \in O : c = Change(op, q)
               /\ "delete" \in O <=> IsFile(old[q]) /\ ~IsFile(new[q])
               /\ "add" \in O \/ "modify" \in O <=> IsFile(new[q]) /\ new[q] # old[q]
  <2>1. G[q] = IF IsFile(new[q])
               THEN IF IsFile(old[q])
                    THEN IF old[q] = new[q] THEN {} ELSE {Change("modify", q)}
                    ELSE {Change("add", q)}
               ELSE IF IsFile(old[q]) THEN {Change("delete", q)} ELSE {}
    BY DEF ChangesAt
  <2> HIDE DEF G
  <2>2. CASE IsFile(new[q]) /\ ~IsFile(old[q])
    <3>1. G[q] = {Change("add", q)}
      BY <2>1, <2>2, Zenon
    <3>2. new[q] # old[q]
      BY <2>2 DEF IsFile
    <3> WITNESS {"add"} \in SUBSET {"add", "modify", "delete"}
    <3> QED
      BY <2>2, <3>1, <3>2
  <2>3. CASE IsFile(new[q]) /\ IsFile(old[q]) /\ old[q] # new[q]
    <3>1. G[q] = {Change("modify", q)}
      BY <2>1, <2>3, Zenon
    <3> WITNESS {"modify"} \in SUBSET {"add", "modify", "delete"}
    <3> QED
      BY <2>3, <3>1
  <2>4. CASE ~IsFile(new[q]) /\ IsFile(old[q])
    <3>1. G[q] = {Change("delete", q)}
      BY <2>1, <2>4, Zenon
    <3> WITNESS {"delete"} \in SUBSET {"add", "modify", "delete"}
    <3> QED
      BY <2>4, <3>1
  <2>5. CASE (IsFile(new[q]) /\ IsFile(old[q]) /\ old[q] = new[q]) \/ (~IsFile(new[q]) /\ ~IsFile(old[q]))
    <3>1. G[q] = {}
      BY <2>1, <2>5, Zenon
    <3> WITNESS {} \in SUBSET {"add", "modify", "delete"}
    <3> QED
      BY <2>5, <3>1
  <2> QED
    BY <2>2, <2>3, <2>4, <2>5, Zenon
<1>3. \A op, q : Change(op, q).op = op /\ Change(op, q).path = q
  BY DEF Change
<1> HIDE DEF delta, G
<1>4. ASSUME NEW c \in delta
      PROVE  /\ c \in [op : {"add", "modify", "delete"}, path : Paths]
             /\ c.path \in Paths /\ c \in G[c.path]
  <2>1. PICK q \in Paths : c \in G[q]
    BY <1>1
  <2>2. PICK op \in {"add", "modify", "delete"} : c = Change(op, q)
    BY <1>2, <2>1
  <2> QED
    BY <2>1, <2>2 DEF Change
<1>5. delta \subseteq [op : {"add", "modify", "delete"}, path : Paths]
  BY <1>4
<1>6. ASSUME NEW q \in Paths
      PROVE  /\ q \in Named(delta, {"delete"}) <=> IsFile(old[q]) /\ ~IsFile(new[q])
             /\ q \in Named(delta, {"add", "modify"}) <=> IsFile(new[q]) /\ new[q] # old[q]
  <2>1. PICK O \in SUBSET {"add", "modify", "delete"} :
          /\ \A c : c \in G[q] <=> \E op \in O : c = Change(op, q)
          /\ "delete" \in O <=> IsFile(old[q]) /\ ~IsFile(new[q])
          /\ "add" \in O \/ "modify" \in O <=> IsFile(new[q]) /\ new[q] # old[q]
    BY <1>2
  <2>2. ASSUME NEW ops PROVE q \in Named(delta, ops) <=> \E op \in O : op \in ops
    <3>1. ASSUME q \in Named(delta, ops) PROVE \E op \in O : op \in ops
      <4>1. PICK c \in delta : c.op \in ops /\ c.path = q
        BY <3>1 DEF Named
      <4>2. c \in G[q]
        BY <1>4, <4>1
      <4> QED
        BY <1>3, <2>1, <4>1, <4>2
    <3>2. ASSUME NEW op \in O, op \in ops PROVE q \in Named(delta, ops)
      <4>1. Change(op, q) \in delta
        BY <1>1, <2>1
      <4> QED
        BY <1>3, <3>2, <4>1 DEF Named
    <3> QED
      BY <3>1, <3>2
  <2>3. /\ q \in Named(delta, {"delete"}) <=> "delete" \in O
        /\ q \in Named(delta, {"add", "modify"}) <=> "add" \in O \/ "modify" \in O
    BY <2>2
  <2> QED
    BY <2>1, <2>3, Zenon
<1>7. \A ops : Named(delta, ops) \subseteq Paths
  BY <1>4 DEF Named
<1>8. Deletes(delta) = {p \in Paths : IsFile(old[p]) /\ ~IsFile(new[p])}
  BY <1>6, <1>7 DEF Deletes
<1>9. Upserts(delta) = {p \in Paths : IsFile(new[p]) /\ new[p] # old[p]}
  BY <1>6, <1>7 DEF Upserts
<1> QED
  BY <1>5, <1>8, <1>9, Zenon DEF delta

-----------------------------------------------------------------------------
(* The inductive invariant.                                                *)

\* The walk has read the directory of p.
Listed(p) == Parent[p] = Root \/ scan.seen[Parent[p]] = DirEntry

Pending(p) == \E e \in scan.todo : e.path = p

\* The walk: what is still to be visited was listed once, and has neither an
\* entry nor anything recorded below it; what is still to be read is a file.
WalkInv ==
  /\ \A e \in scan.todo : scan.seen[e.path] = NoEntry /\ Listed(e.path)
  /\ \A e, f \in scan.todo : e.path = f.path => e = f
  /\ scan.pc # "walk" => scan.todo = {}
  /\ scan.pc # "hash" => scan.unread = {}
  /\ scan.pc = "idle" => scan = Idle
  /\ scan.pc # "idle" => scans < MaxScans
  /\ \A p \in scan.unread : IsFile(scan.seen[p])

\* What was listed is recorded as it is on disk, but for what is pending.
Expected(p) ==
  /\ scan.seen[p] = DirEntry <=> disk[p] = Dir /\ ~ShouldSkipDir(p)
  /\ IsFile(scan.seen[p]) <=> disk[p] \in Contents /\ ShouldIndexPath(p)

\* A scan that nothing has interfered with so far.
FreshInv ==
  fresh /\ scan.pc # "idle" =>
    /\ \A e \in scan.todo : disk[e.path] # None /\ (e.isDir <=> disk[e.path] = Dir)
    /\ \A p \in Paths : Listed(p) /\ ~Pending(p) => Expected(p)
    /\ scan.pc = "hash" =>
         \A p \in Paths : IsFile(scan.seen[p]) /\ p \notin scan.unread => scan.seen[p].content = disk[p]

IInv ==
  /\ TypeOK
  /\ Tree(prev) /\ Tree(scan.seen)
  /\ WalkInv
  /\ DeltasCompose
  /\ FreshInv
  /\ QuietScanIsFaithful

(* The fields of a scan.                                                   *)
LEMMA ScanFields ==
  ASSUME TypeOK
  PROVE  /\ scan = [pc |-> scan.pc, todo |-> scan.todo, seen |-> scan.seen, unread |-> scan.unread]
         /\ scan.pc \in {"idle", "walk", "hash"}
         /\ scan.todo \subseteq [path : Paths, isDir : BOOLEAN]
         /\ scan.seen \in [Paths -> Entries]
         /\ scan.unread \subseteq Paths
BY DEF TypeOK, Scan

(* No scan under way.                                                      *)
LEMMA IdleFacts ==
  /\ Idle \in Scan /\ Idle.pc = "idle" /\ Idle.todo = {} /\ Idle.unread = {}
  /\ Idle.seen = NoEntries /\ Tree(NoEntries)
<1>1. NoEntry \in Entries /\ NoEntry.type = "none"
  BY DEF Entries, NoEntry
<1>2. NoEntries \in [Paths -> Entries] /\ \A p \in Paths : NoEntries[p] = NoEntry
  BY <1>1 DEF NoEntries
<1>3. Tree(NoEntries)
  BY <1>1, <1>2 DEF Tree
<1> QED
  BY <1>2, <1>3 DEF Idle, Scan

(* What Visible means in terms of the directory above.                     *)
LEMMA VisibleStep ==
  /\ Visible(Root)
  /\ \A d \in Paths : Visible(d) <=> ~ShouldSkipDir(d) /\ Visible(Parent[d])
<1>1. \A s \in Paths : s \in Nodes /\ Root # s /\ Root \notin Below[s]
  <2> SUFFICES ASSUME NEW s \in Paths PROVE s \in Nodes /\ Root # s /\ Root \notin Below[s]
    OBVIOUS
  <2>1. s \in Nodes /\ Root \notin Paths
    BY DepthFacts
  <2> QED
    BY <2>1, BelowFacts
<1>2. Visible(Root)
  BY <1>1 DEF Visible
<1>3. ASSUME NEW d \in Paths, Visible(d) PROVE ~ShouldSkipDir(d) /\ Visible(Parent[d])
  <2>1. ~ShouldSkipDir(d)
    BY <1>3 DEF Visible
  <2>2. d \in Children(Parent[d])
    BY DEF Children
  <2>3. ASSUME NEW s \in Paths, ShouldSkipDir(s) PROVE Parent[d] # s /\ Parent[d] \notin Below[s]
    <3>1. d # s /\ d \notin Below[s]
      BY <1>3, <2>3 DEF Visible
    <3> QED
      BY <1>1, <2>2, <3>1, BelowFacts DEF Closed
  <2> QED
    BY <2>1, <2>3 DEF Visible
<1>4. ASSUME NEW d \in Paths, ~ShouldSkipDir(d), Visible(Parent[d]) PROVE Visible(d)
  <2>1. ASSUME NEW s \in Paths, ShouldSkipDir(s) PROVE d # s /\ d \notin Below[s]
    <3>1. Parent[d] # s /\ Parent[d] \notin Below[s]
      BY <1>4, <2>1 DEF Visible
    <3>2. d # s
      BY <1>4, <2>1
    <3> QED
      BY <1>1, <3>1, <3>2, BelowUp
  <2> QED
    BY <2>1 DEF Visible
<1> QED
  BY <1>2, <1>3, <1>4

-----------------------------------------------------------------------------
(* Every step keeps it.                                                    *)

(* Nothing is scanned, nothing mirrored.                                   *)
LEMMA InitIInv == Init => IInv
<1> SUFFICES ASSUME Init PROVE IInv
  OBVIOUS
<1> USE DEF Init
<1>1. TypeOK
  <2>1. prev \in [Paths -> Entries]
    BY IdleFacts DEF Tree
  <2>2. mirror \in [Paths -> Contents \cup {None}]
    OBVIOUS
  <2>3. edits \in 0 .. MaxEdits /\ scans \in 0 .. MaxScans
    BY ScanAssumption
  <2>4. scan \in Scan
    BY IdleFacts
  <2> QED
    BY <2>1, <2>2, <2>3, <2>4 DEF TypeOK
<1>2. Tree(prev) /\ Tree(scan.seen)
  BY IdleFacts
<1>3. WalkInv
  BY IdleFacts DEF WalkInv
<1>4. DeltasCompose
  BY DEF DeltasCompose, NoEntries, NoEntry
<1>5. FreshInv /\ QuietScanIsFaithful
  BY DEF FreshInv, QuietScanIsFaithful
<1> QED
  BY <1>1, <1>2, <1>3, <1>4, <1>5 DEF IInv

(* An edit puts a path in its directory and removes what was below it.     *)
LEMMA EditIInv ==
  ASSUME IInv, NEW p \in Paths, NEW v \in Contents \cup {Dir, None}, Edit(p, v)
  PROVE  IInv'
<1> USE DEF Edit
<1>1. TypeOK'
  <2>1. disk' \in [Paths -> Contents \cup {Dir, None}]
    BY DEF IInv, TypeOK
  <2>2. IsRepository(disk')
    <3> SUFFICES ASSUME NEW q \in Paths, disk'[q] # None, Parent[q] # Root
                 PROVE  disk'[Parent[q]] = Dir
      BY DEF IsRepository, InDirectory
    <3>0. p \in Nodes /\ Parent[q] \in Paths /\ q \in Children(Parent[q])
      BY ScanAssumption DEF Nodes, Children
    <3>1. \A r \in Paths : disk'[r] = IF r = p THEN v ELSE IF r \in Below[p] THEN None ELSE disk[r]
      OBVIOUS
    <3>2. CASE q = p
      <4>1. disk[Parent[p]] = Dir
        BY <3>2 DEF InDirectory
      <4>2. Depth[p] = Depth[Parent[p]] + 1 /\ Depth[p] \in Nat /\ Depth[Parent[p]] \in Nat
        BY DepthFacts
      <4>3. Parent[p] # p /\ Parent[p] \notin Below[p]
        BY <3>0, <4>2, BelowDeeper
      <4> QED
        BY <3>0, <3>1, <3>2, <4>1, <4>3
    <3>3. CASE q # p
      <4>1. q \notin Below[p] /\ disk[q] # None
        BY <3>1, <3>3
      <4>2. disk[Parent[q]] = Dir
        BY <4>1 DEF IInv, TypeOK, IsRepository, InDirectory
      <4>3. Parent[q] # p /\ Parent[q] \notin Below[p]
        BY <3>0, <4>1, BelowFacts DEF Closed
      <4> QED
        BY <3>0, <3>1, <4>2, <4>3
    <3> QED
      BY <3>2, <3>3
  <2>3. edits' \in 0 .. MaxEdits
    BY ScanAssumption DEF IInv, TypeOK
  <2> QED
    BY <2>1, <2>2, <2>3 DEF IInv, TypeOK
<1>2. (Tree(prev) /\ Tree(scan.seen))'
  BY DEF IInv
<1>3. WalkInv'
  BY DEF IInv, WalkInv, Listed
<1>4. DeltasCompose'
  BY DEF IInv, DeltasCompose
<1>5. FreshInv' /\ QuietScanIsFaithful'
  <2>1. ~fresh'
    OBVIOUS
  <2> QED
    BY <2>1, Zenon DEF FreshInv, QuietScanIsFaithful
<1> QED
  BY <1>1, <1>2, <1>3, <1>4, <1>5 DEF IInv

(* The names in a directory, each with its type.                           *)
LEMMA ReadDirFacts ==
  ASSUME NEW d
  PROVE  /\ ReadDir(d) \subseteq [path : Paths, isDir : BOOLEAN]
         /\ \A e \in ReadDir(d) : /\ e.path \in Paths /\ Parent[e.path] = d
                                  /\ disk[e.path] # None
                                  /\ e = [path |-> e.path, isDir |-> disk[e.path] = Dir]
                                  /\ e.isDir <=> disk[e.path] = Dir
         /\ \A p \in Paths : Parent[p] = d /\ disk[p] # None => \E e \in ReadDir(d) : e.path = p
<1>1. ASSUME NEW e \in ReadDir(d)
      PROVE  /\ e \in [path : Paths, isDir : BOOLEAN]
             /\ e.path \in Paths /\ Parent[e.path] = d
             /\ disk[e.path] # None
             /\ e = [path |-> e.path, isDir |-> disk[e.path] = Dir]
             /\ e.isDir <=> disk[e.path] = Dir
  <2>1. PICK q \in Paths : Parent[q] = d /\ disk[q] # None /\ e = [path |-> q, isDir |-> disk[q] = Dir]
    BY DEF ReadDir, Children
  <2>2. PICK b \in BOOLEAN : b = (disk[q] = Dir)
    OBVIOUS
  <2>3. e = [path |-> q, isDir |-> b]
    BY <2>1, <2>2, Zenon
  <2>4. e \in [path : Paths, isDir : BOOLEAN] /\ e.path = q /\ e.isDir = b
    BY <2>3
  <2> QED
    BY <2>1, <2>2, <2>4, Zenon
<1>2. ASSUME NEW p \in Paths, Parent[p] = d, disk[p] # None PROVE \E e \in ReadDir(d) : e.path = p
  <2>1. [path |-> p, isDir |-> disk[p] = Dir] \in ReadDir(d)
    BY <1>2 DEF ReadDir, Children
  <2> QED
    BY <2>1
<1> QED
  BY <1>1, <1>2

(* A scan begins with the names in the root.                               *)
LEMMA StartScanIInv == IInv /\ StartScan => IInv'
<1> SUFFICES ASSUME IInv, StartScan PROVE IInv'
  OBVIOUS
<1> USE DEF StartScan
<1>0. /\ scan'.pc = "walk" /\ scan'.todo = ReadDir(Root)
      /\ scan'.seen = NoEntries /\ scan'.unread = {}
      /\ scan' = [pc |-> "walk", todo |-> ReadDir(Root), seen |-> NoEntries, unread |-> {}]
  BY DEF Idle
<1>1. ReadDir(Root) \subseteq [path : Paths, isDir : BOOLEAN]
  BY ReadDirFacts
<1>2. TypeOK'
  <2>1. scan' \in Scan
    BY <1>0, <1>1, IdleFacts DEF Scan, Tree
  <2> QED
    BY <2>1 DEF IInv, TypeOK
<1>3. (Tree(prev) /\ Tree(scan.seen))'
  BY <1>0, IdleFacts DEF IInv
<1>4. \A e \in ReadDir(Root) : /\ e.path \in Paths /\ Parent[e.path] = Root /\ disk[e.path] # None
                               /\ e = [path |-> e.path, isDir |-> disk[e.path] = Dir]
                               /\ e.isDir <=> disk[e.path] = Dir
  BY ReadDirFacts, Zenon
<1>5. \A p \in Paths : NoEntries[p] = NoEntry
  BY DEF NoEntries
<1>6. WalkInv'
  <2>1. \A e \in scan'.todo : scan'.seen[e.path] = NoEntry /\ Listed(e.path)'
    BY <1>0, <1>4, <1>5 DEF Listed
  <2>2. \A e, f \in scan'.todo : e.path = f.path => e = f
    BY <1>0, <1>4
  <2>3. scans' < MaxScans
    OBVIOUS
  <2> QED
    BY <1>0, <2>1, <2>2, <2>3 DEF WalkInv
<1>7. DeltasCompose'
  BY DEF IInv, DeltasCompose
<1>8. FreshInv'
  <2>1. \A e \in scan'.todo : disk'[e.path] # None /\ (e.isDir <=> disk'[e.path] = Dir)
    BY <1>0, <1>4, Zenon
  <2>2. ASSUME NEW p \in Paths, Listed(p)', ~Pending(p)' PROVE Expected(p)'
    <3>1. Parent[p] = Root
      <4>1. CASE Parent[p] # Root
        <5>1. Parent[p] \in Paths
          BY <4>1, ScanAssumption
        <5> QED
          BY <1>0, <1>5, <2>2, <5>1, NoEntryIsNoFile DEF Listed
      <4> QED
        BY <4>1
    <3>2. disk[p] = None
      <4> SUFFICES ASSUME disk[p] # None PROVE FALSE
        OBVIOUS
      <4>1. \E e \in scan'.todo : e.path = p
        BY <1>0, <3>1, ReadDirFacts
      <4> QED
        BY <2>2, <4>1 DEF Pending
    <3>3. None # Dir /\ None \notin Contents
      BY ScanAssumption
    <3>4. scan'.seen[p] = NoEntry
      BY <1>0, <1>5
    <3> QED
      BY <3>2, <3>3, <3>4, NoEntryIsNoFile DEF Expected
  <2> QED
    BY <1>0, <2>1, <2>2 DEF FreshInv
<1>9. QuietScanIsFaithful'
  BY <1>0 DEF QuietScanIsFaithful
<1> QED
  BY <1>2, <1>3, <1>6, <1>7, <1>8, <1>9 DEF IInv

(* A scan that fails leaves no trace.                                      *)
LEMMA BuildFailsIInv == IInv /\ BuildFails => IInv'
<1> SUFFICES ASSUME IInv, BuildFails PROVE IInv'
  OBVIOUS
<1> USE DEF BuildFails
<1>1. TypeOK'
  BY IdleFacts DEF IInv, TypeOK
<1>2. (Tree(prev) /\ Tree(scan.seen))'
  BY IdleFacts DEF IInv
<1>3. WalkInv'
  BY IdleFacts DEF WalkInv
<1>4. DeltasCompose'
  BY DEF IInv, DeltasCompose
<1>5. FreshInv' /\ QuietScanIsFaithful'
  <2>1. ~fresh'
    OBVIOUS
  <2> QED
    BY <2>1, Zenon DEF FreshInv, QuietScanIsFaithful
<1> QED
  BY <1>1, <1>2, <1>3, <1>4, <1>5 DEF IInv

(* A visit: the path gets its entry, and if that is a directory its names  *)
(* join what is to be visited.  None of them was listed before: there was  *)
(* no entry of their directory.                                            *)
LEMMA VisitedIInv ==
  ASSUME IInv, scan.pc = "walk", NEW e \in scan.todo, NEW entry \in Entries, NEW found,
         \/ entry = DirEntry /\ found = ReadDir(e.path)
         \/ entry # DirEntry /\ found = {},
         fresh => /\ entry = DirEntry <=> disk[e.path] = Dir /\ ~ShouldSkipDir(e.path)
                  /\ IsFile(entry) <=> disk[e.path] \in Contents /\ ShouldIndexPath(e.path),
         Visited(e, entry, found),
         UNCHANGED <<disk, edits, prev, changes, mirror, scans, fresh>>
  PROVE  IInv'
<1> DEFINE d == e.path
           seen == scan.seen
           new == [seen EXCEPT ![d] = entry]
<1>0. /\ scan = [pc |-> scan.pc, todo |-> scan.todo, seen |-> scan.seen, unread |-> scan.unread]
      /\ scan.todo \subseteq [path : Paths, isDir : BOOLEAN] /\ seen \in [Paths -> Entries]
      /\ scan.unread = {} /\ Tree(seen) /\ TypeOK /\ WalkInv /\ FreshInv
  BY ScanFields DEF IInv, WalkInv
<1>1. /\ d \in Paths /\ d \in Nodes /\ d # Root /\ seen[d] = NoEntry /\ seen[d].type = "none"
      /\ Listed(d)
  BY <1>0, ScanAssumption DEF WalkInv, Nodes, NoEntry
<1>2. scan' = [pc |-> "walk", todo |-> (scan.todo \ {e}) \cup found, seen |-> new, unread |-> {}]
  <2>1. scan' = [scan EXCEPT !.todo = (@ \ {e}) \cup found, !.seen[d] = entry]
    BY DEF Visited
  <2> QED
    BY <1>0, <2>1
<1>3. /\ scan'.pc = "walk" /\ scan'.todo = (scan.todo \ {e}) \cup found
      /\ scan'.seen = new /\ scan'.unread = {}
  BY <1>2
<1>4. /\ new \in [Paths -> Entries] /\ new[d] = entry
      /\ \A p \in Paths : p # d => new[p] = seen[p]
  BY <1>0, <1>1
<1>5. /\ found \subseteq [path : Paths, isDir : BOOLEAN]
      /\ \A f \in found : /\ f.path \in Paths /\ Parent[f.path] = d /\ entry = DirEntry
                          /\ disk[f.path] # None /\ (f.isDir <=> disk[f.path] = Dir)
                          /\ f = [path |-> f.path, isDir |-> disk[f.path] = Dir]
  BY ReadDirFacts
<1> HIDE DEF new
\* What is in the directory has no entry yet.
<1>6. ASSUME NEW p \in Paths, Parent[p] = d
      PROVE  seen[p] = NoEntry /\ p # d /\ ~Listed(p) /\ ~Pending(p)
  <2>1. seen[p].type = "none"
    BY <1>0, <1>1, <1>6 DEF Tree
  <2>2. seen[p] = NoEntry
    BY <1>0, <2>1, EntryFacts
  <2>3. p # d
    BY <1>1, <1>6, DepthFacts
  <2>4. ~Listed(p)
    BY <1>1, <1>6, NoEntryIsNoFile DEF Listed
  <2> QED
    BY <1>0, <2>2, <2>3, <2>4 DEF Pending, WalkInv
<1>7. TypeOK'
  <2>1. scan'.todo \subseteq [path : Paths, isDir : BOOLEAN]
    BY <1>0, <1>3, <1>5
  <2>2. scan' \in Scan
    BY <1>2, <1>4, <2>1, <1>3 DEF Scan
  <2> QED
    BY <1>0, <2>2 DEF TypeOK
<1>8. (Tree(prev) /\ Tree(scan.seen))'
  <2>1. ASSUME NEW p \in Paths, new[p].type # "none", Parent[p] # Root
        PROVE  new[Parent[p]].type = "dir"
    <3>0. Parent[p] \in Paths
      BY <2>1, ScanAssumption
    <3>1. CASE Parent[p] = d
      <4>1. new[p].type = "none"
        BY <1>4, <1>6, <3>1 DEF NoEntry
      <4> QED
        BY <2>1, <4>1
    <3>2. CASE Parent[p] # d /\ p = d
      <4>1. seen[Parent[d]] = DirEntry
        BY <1>1, <2>1, <3>2 DEF Listed
      <4> QED
        BY <1>4, <3>0, <3>2, <4>1 DEF DirEntry
    <3>3. CASE Parent[p] # d /\ p # d
      BY <1>0, <1>4, <2>1, <3>0, <3>3 DEF Tree
    <3> QED
      BY <3>1, <3>2, <3>3
  <2>2. Tree(new)
    BY <1>4, <2>1 DEF Tree
  <2> QED
    BY <1>3, <2>2 DEF IInv
\* Apart from the directory itself, what was listed stays listed.
<1>9. ASSUME NEW p \in Paths
      PROVE  /\ Listed(p) => Listed(p)'
             /\ Listed(p)' => Listed(p) \/ (Parent[p] = d /\ entry = DirEntry)
  <2>1. Parent[p] = Root \/ Parent[p] \in Paths
    BY ScanAssumption
  <2>2. Listed(p)' <=> Parent[p] = Root \/ new[Parent[p]] = DirEntry
    BY <1>3 DEF Listed
  <2>3. CASE Parent[p] = d
    <3>1. ~Listed(p) /\ new[Parent[p]] = entry /\ Parent[p] # Root
      BY <1>1, <1>4, <1>6, <2>3
    <3> QED
      BY <2>2, <2>3, <3>1
  <2>4. CASE Parent[p] # d
    <3>1. Parent[p] # Root => new[Parent[p]] = seen[Parent[p]]
      BY <1>4, <2>1, <2>4
    <3>2. Listed(p) <=> Parent[p] = Root \/ seen[Parent[p]] = DirEntry
      BY DEF Listed
    <3> QED
      BY <2>2, <3>1, <3>2, Zenon
  <2> QED
    BY <2>3, <2>4
<1>10. WalkInv'
  <2>1. ASSUME NEW f \in scan'.todo PROVE scan'.seen[f.path] = NoEntry /\ Listed(f.path)'
    <3>1. CASE f \in found
      <4>1. f.path \in Paths /\ Parent[f.path] = d /\ entry = DirEntry
        BY <1>5, <3>1
      <4>2. seen[f.path] = NoEntry /\ f.path # d
        BY <1>6, <4>1
      <4> QED
        BY <1>3, <1>4, <4>1, <4>2 DEF Listed
    <3>2. CASE f \in scan.todo /\ f # e
      <4>1. f.path \in Paths /\ f.path # d /\ seen[f.path] = NoEntry /\ Listed(f.path)
        BY <1>0, <3>2 DEF WalkInv
      <4> QED
        BY <1>3, <1>4, <1>9, <4>1
    <3> QED
      BY <1>3, <3>1, <3>2
  <2>2. ASSUME NEW f \in scan'.todo, NEW g \in scan'.todo, f.path = g.path PROVE f = g
    <3>1. CASE f \in found /\ g \in found
      BY <1>5, <2>2, <3>1
    <3>2. CASE f \in scan.todo /\ g \in scan.todo
      BY <1>0, <2>2, <3>2 DEF WalkInv
    <3>3. \A x \in found : \A y \in scan.todo : x.path # y.path
      BY <1>0, <1>5, <1>6 DEF Pending
    <3> QED
      BY <1>3, <2>2, <3>1, <3>2, <3>3
  <2>3. scans' < MaxScans
    BY <1>0 DEF WalkInv
  <2> QED
    BY <1>3, <2>1, <2>2, <2>3 DEF WalkInv
<1>11. DeltasCompose'
  BY DEF IInv, DeltasCompose
<1>12. FreshInv'
  <2> SUFFICES ASSUME fresh
               PROVE  /\ \A f \in scan'.todo : disk[f.path] # None /\ (f.isDir <=> disk[f.path] = Dir)
                      /\ \A p \in Paths : Listed(p)' /\ ~Pending(p)' => Expected(p)'
    BY <1>3 DEF FreshInv
  <2>0. /\ \A f \in scan.todo : disk[f.path] # None /\ (f.isDir <=> disk[f.path] = Dir)
        /\ \A p \in Paths : Listed(p) /\ ~Pending(p) => Expected(p)
    BY <1>0 DEF FreshInv
  <2>1. ASSUME NEW f \in scan'.todo PROVE disk[f.path] # None /\ (f.isDir <=> disk[f.path] = Dir)
    <3>1. f \in found \/ f \in scan.todo
      BY <1>3
    <3> QED
      BY <1>5, <2>0, <3>1, Zenon
  <2>2. ASSUME NEW p \in Paths, Listed(p)', ~Pending(p)' PROVE Expected(p)'
    <3>1. CASE p = d
      BY <1>3, <1>4, <3>1 DEF Expected
    <3>2. CASE Parent[p] = d /\ entry = DirEntry
      <4>1. found = ReadDir(d)
        BY <3>2
      <4>2. ~\E f \in found : f.path = p
        BY <1>3, <2>2 DEF Pending
      <4>3. disk[p] = None
        BY <3>2, <4>1, <4>2, ReadDirFacts
      <4>4. new[p] = NoEntry
        BY <1>4, <1>6, <3>2
      <4>5. None # Dir /\ None \notin Contents
        BY ScanAssumption
      <4> QED
        BY <1>3, <4>3, <4>4, <4>5, NoEntryIsNoFile DEF Expected
    <3>3. CASE p # d /\ Listed(p)
      <4>1. ~Pending(p)
        BY <1>3, <2>2, <3>3 DEF Pending
      <4>2. Expected(p)
        BY <2>0, <3>3, <4>1
      <4> QED
        BY <1>3, <1>4, <3>3, <4>2 DEF Expected
    <3> QED
      BY <1>9, <2>2, <3>1, <3>2, <3>3
  <2> QED
    BY <2>1, <2>2
<1>13. QuietScanIsFaithful'
  BY <1>3 DEF QuietScanIsFaithful
<1> QED
  BY <1>7, <1>8, <1>10, <1>11, <1>12, <1>13 DEF IInv

(* The walk: directories, files, and what is gone by then.                 *)
LEMMA VisitIInv ==
  ASSUME IInv, NEW e \in scan.todo,
         VisitDir(e) \/ VisitDirGone(e) \/ VisitFile(e) \/ VisitFileGone(e)
  PROVE  IInv'
<1>0. /\ e \in [path : Paths, isDir : BOOLEAN] /\ e.path \in Paths
      /\ disk[e.path] \in Contents \cup {Dir, None}
      /\ fresh /\ scan.pc = "walk" => disk[e.path] # None /\ (e.isDir <=> disk[e.path] = Dir)
  <2>1. e \in [path : Paths, isDir : BOOLEAN] /\ e.path \in Paths
    BY ScanFields DEF IInv
  <2>2. disk[e.path] \in Contents \cup {Dir, None}
    BY <2>1 DEF IInv, TypeOK
  <2>3. fresh /\ scan.pc = "walk" => disk[e.path] # None /\ (e.isDir <=> disk[e.path] = Dir)
    BY DEF IInv, FreshInv
  <2> QED
    BY <2>1, <2>2, <2>3, Zenon
<1>1. /\ Dir \notin Contents /\ None \notin Contents /\ Dir # None
      /\ NoEntry \in Entries /\ DirEntry \in Entries
  BY ScanAssumption DEF Entries
<1>2. CASE VisitDir(e)
  <2>0. scan.pc = "walk" /\ e.isDir /\ UNCHANGED <<disk, edits, prev, changes, mirror, scans, fresh>>
    BY <1>2 DEF VisitDir
  <2>1. fresh => disk[e.path] = Dir
    BY <1>0, <2>0, Zenon
  <2>2. CASE ShouldSkipDir(e.path) /\ Visited(e, NoEntry, {})
    <3>1. fresh => /\ NoEntry = DirEntry <=> disk[e.path] = Dir /\ ~ShouldSkipDir(e.path)
                   /\ IsFile(NoEntry) <=> disk[e.path] \in Contents /\ ShouldIndexPath(e.path)
      BY <1>1, <2>1, <2>2, NoEntryIsNoFile, Zenon
    <3> QED
      BY <1>1, <2>0, <2>2, <3>1, VisitedIInv, NoEntryIsNoFile
  <2>3. CASE ~ShouldSkipDir(e.path) /\ disk[e.path] = Dir /\ Visited(e, DirEntry, ReadDir(e.path))
    <3>1. fresh => /\ DirEntry = DirEntry <=> disk[e.path] = Dir /\ ~ShouldSkipDir(e.path)
                   /\ IsFile(DirEntry) <=> disk[e.path] \in Contents /\ ShouldIndexPath(e.path)
      BY <1>1, <2>1, <2>3, NoEntryIsNoFile, Zenon
    <3> QED
      BY <1>1, <2>0, <2>3, <3>1, VisitedIInv
  <2> QED
    BY <1>2, <2>2, <2>3, Zenon DEF VisitDir
<1>3. CASE VisitFile(e)
  <2>0. scan.pc = "walk" /\ ~e.isDir /\ UNCHANGED <<disk, edits, prev, changes, mirror, scans, fresh>>
    BY <1>3 DEF VisitFile
  <2>1. fresh => disk[e.path] \in Contents
    <3>1. fresh => disk[e.path] # None /\ disk[e.path] # Dir
      BY <1>0, <2>0, Zenon
    <3> QED
      BY <1>0, <3>1
  <2>2. CASE ShouldIndexPath(e.path) /\ disk[e.path] \in Contents
    <3> DEFINE entry == FileEntry(SizeOf[disk[e.path]], None)
    <3>1. Visited(e, entry, {})
      BY <1>3, <2>2 DEF VisitFile
    <3>2. entry \in Entries /\ entry # DirEntry /\ IsFile(entry)
      BY <2>2 DEF Entries, FileEntry, DirEntry, IsFile
    <3> HIDE DEF entry
    <3>3. fresh => /\ entry = DirEntry <=> disk[e.path] = Dir /\ ~ShouldSkipDir(e.path)
                   /\ IsFile(entry) <=> disk[e.path] \in Contents /\ ShouldIndexPath(e.path)
      BY <1>1, <2>2, <3>2, Zenon
    <3> QED
      BY <2>0, <3>1, <3>2, <3>3, VisitedIInv
  <2>3. CASE ~(ShouldIndexPath(e.path) /\ disk[e.path] \in Contents)
    <3>1. Visited(e, NoEntry, {})
      BY <1>3, <2>3, Zenon DEF VisitFile
    <3>2. fresh => disk[e.path] # Dir
      BY <1>1, <2>1
    <3>3. fresh => /\ NoEntry = DirEntry <=> disk[e.path] = Dir /\ ~ShouldSkipDir(e.path)
                   /\ IsFile(NoEntry) <=> disk[e.path] \in Contents /\ ShouldIndexPath(e.path)
      BY <2>3, <3>2, NoEntryIsNoFile, Zenon
    <3> QED
      BY <1>1, <2>0, <3>1, <3>3, VisitedIInv, NoEntryIsNoFile
  <2> QED
    BY <2>2, <2>3
<1>4. CASE VisitDirGone(e) \/ VisitFileGone(e)
  BY <1>4, BuildFailsIInv DEF VisitDirGone, VisitFileGone
<1> QED
  BY <1>2, <1>3, <1>4

(* The walk ends: every file found is to be read.                          *)
LEMMA WalkDoneIInv == IInv /\ WalkDone => IInv'
<1> SUFFICES ASSUME IInv, WalkDone PROVE IInv'
  OBVIOUS
<1> USE DEF WalkDone
<1> DEFINE files == {p \in Paths : IsFile(scan.seen[p])}
<1>0. /\ scan = [pc |-> scan.pc, todo |-> scan.todo, seen |-> scan.seen, unread |-> scan.unread]
      /\ scan.seen \in [Paths -> Entries]
  BY ScanFields DEF IInv
<1>1. /\ scan' = [pc |-> "hash", todo |-> {}, seen |-> scan.seen, unread |-> files]
      /\ scan'.pc = "hash" /\ scan'.todo = {} /\ scan'.seen = scan.seen /\ scan'.unread = files
  BY <1>0
<1>2. TypeOK'
  <2>1. scan' \in Scan
    BY <1>0, <1>1 DEF Scan
  <2> QED
    BY <2>1 DEF IInv, TypeOK
<1>3. (Tree(prev) /\ Tree(scan.seen))'
  BY <1>1 DEF IInv
<1>4. WalkInv'
  <2>1. scans' < MaxScans
    BY DEF IInv, WalkInv
  <2> QED
    BY <1>1, <2>1 DEF WalkInv
<1>5. DeltasCompose'
  BY DEF IInv, DeltasCompose
<1>6. FreshInv'
  <2> SUFFICES ASSUME fresh, NEW p \in Paths
               PROVE  /\ Listed(p)' /\ ~Pending(p)' => Expected(p)'
                      /\ ~(IsFile(scan'.seen[p]) /\ p \notin scan'.unread)
    BY <1>1 DEF FreshInv
  <2>1. ~Pending(p)
    BY DEF Pending
  <2>2. Listed(p) => Expected(p)
    BY <2>1 DEF IInv, FreshInv
  <2>3. Listed(p)' <=> Listed(p)
    BY <1>1 DEF Listed
  <2>4. Expected(p)' <=> Expected(p)
    BY <1>1 DEF Expected
  <2> QED
    BY <1>1, <2>2, <2>3, <2>4
<1>7. QuietScanIsFaithful'
  BY <1>1 DEF QuietScanIsFaithful
<1> QED
  BY <1>2, <1>3, <1>4, <1>5, <1>6, <1>7 DEF IInv

(* A file is read.                                                         *)
LEMMA HashFileIInv ==
  ASSUME IInv, NEW p \in scan.unread, HashFile(p)
  PROVE  IInv'
<1> USE DEF HashFile
<1> DEFINE seen == scan.seen
           new == [seen EXCEPT ![p].content = disk[p]]
<1>0. /\ scan = [pc |-> scan.pc, todo |-> scan.todo, seen |-> scan.seen, unread |-> scan.unread]
      /\ seen \in [Paths -> Entries] /\ scan.unread \subseteq Paths /\ scan.todo = {}
      /\ IsFile(seen[p]) /\ p \in Paths /\ seen[p] \in Entries
  BY ScanFields DEF IInv, WalkInv
<1>1. /\ scan' = [pc |-> "hash", todo |-> {}, seen |-> new, unread |-> scan.unread \ {p}]
      /\ scan'.pc = "hash" /\ scan'.todo = {} /\ scan'.seen = new
      /\ scan'.unread = scan.unread \ {p}
  BY <1>0
<1>2. /\ new[p] = [type |-> "file", size |-> seen[p].size, content |-> disk[p]]
      /\ \A q \in Paths : q # p => new[q] = seen[q]
  <2>1. seen[p] = [type |-> "file", size |-> seen[p].size, content |-> seen[p].content]
    BY <1>0, EntryFacts
  <2>2. new[p] = [seen[p] EXCEPT !.content = disk[p]] /\ \A q \in Paths : q # p => new[q] = seen[q]
    BY <1>0
  <2> QED
    BY <2>1, <2>2
<1>3. new \in [Paths -> Entries]
  <2>1. PICK c \in Contents : seen[p].size = SizeOf[c]
    BY <1>0, EntryFacts
  <2>2. new[p] = FileEntry(SizeOf[c], disk[p])
    BY <1>2, <2>1 DEF FileEntry
  <2>3. new[p] \in Entries
    BY <2>2 DEF Entries
  <2>4. \A q \in Paths : new[q] \in Entries
    BY <1>0, <1>2, <2>3
  <2>5. new = [q \in Paths |-> new[q]]
    BY <1>0
  <2> HIDE DEF new
  <2> QED
    BY <2>4, <2>5
<1> HIDE DEF new
<1>4. \A q \in Paths : /\ new[q].type = seen[q].type
                       /\ IsFile(new[q]) <=> IsFile(seen[q])
                       /\ new[q] = DirEntry <=> seen[q] = DirEntry
  BY <1>0, <1>2 DEF IsFile, DirEntry
<1>5. TypeOK'
  <2>1. scan' \in Scan
    BY <1>0, <1>1, <1>3 DEF Scan
  <2> QED
    BY <2>1 DEF IInv, TypeOK
<1>6. (Tree(prev) /\ Tree(scan.seen))'
  <2>1. \A q \in Paths : Parent[q] = Root \/ Parent[q] \in Paths
    BY ScanAssumption
  <2>2. Tree(seen)
    BY DEF IInv
  <2>3. Tree(new)
    BY <1>3, <1>4, <2>1, <2>2 DEF Tree
  <2> QED
    BY <1>1, <2>3 DEF IInv
<1>7. WalkInv'
  <2>1. scans' < MaxScans
    BY DEF IInv, WalkInv
  <2>2. \A q \in scan'.unread : IsFile(scan'.seen[q])
    BY <1>0, <1>1, <1>4 DEF IInv, WalkInv
  <2> QED
    BY <1>1, <2>1, <2>2 DEF WalkInv
<1>8. DeltasCompose'
  BY DEF IInv, DeltasCompose
<1>9. FreshInv'
  <2> SUFFICES ASSUME fresh, NEW q \in Paths
               PROVE  /\ Listed(q)' /\ ~Pending(q)' => Expected(q)'
                      /\ IsFile(scan'.seen[q]) /\ q \notin scan'.unread => scan'.seen[q].content = disk[q]
    BY <1>1 DEF FreshInv
  <2>1. ~Pending(q)
    BY <1>0 DEF Pending
  <2>2. Listed(q) => Expected(q)
    BY <2>1 DEF IInv, FreshInv
  <2>3. Listed(q)' <=> Listed(q)
    BY <1>1, <1>4, ScanAssumption DEF Listed
  <2>4. Expected(q)' <=> Expected(q)
    BY <1>1, <1>4 DEF Expected
  <2>5. IsFile(seen[q]) /\ q \notin scan.unread => seen[q].content = disk[q]
    BY DEF IInv, FreshInv
  <2>6. IsFile(scan'.seen[q]) /\ q \notin scan'.unread => scan'.seen[q].content = disk[q]
    <3>1. CASE q = p
      <4>1. new[p].content = disk[p]
        BY <1>2
      <4> QED
        BY <1>1, <3>1, <4>1
    <3>2. CASE q # p
      BY <1>1, <1>2, <2>5, <3>2
    <3> QED
      BY <3>1, <3>2
  <2> QED
    BY <2>2, <2>3, <2>4, <2>6
<1>10. QuietScanIsFaithful'
  BY <1>1 DEF QuietScanIsFaithful
<1> QED
  BY <1>5, <1>6, <1>7, <1>8, <1>9, <1>10 DEF IInv

(* What a scan that nothing interfered with has recorded: the directories  *)
(* that are visible, and the files in them that are indexed.               *)
LEMMA QuietScan ==
  ASSUME IInv, fresh, scan.pc = "hash", scan.unread = {}, NEW p \in Paths
  PROVE  scan.seen[p].content = IF disk[p] \in Contents /\ ShouldIndexPath(p) /\ Visible(Parent[p])
                                THEN disk[p] ELSE None
<1> DEFINE seen == scan.seen
           S == {d \in Paths : seen[d] = DirEntry <=> disk[d] = Dir /\ Visible(d)}
<1>0. /\ Tree(seen) /\ seen \in [Paths -> Entries] /\ IsRepository(disk)
      /\ \A q \in Paths : Parent[q] = Root \/ Parent[q] \in Paths
      /\ Dir # None /\ None \notin Contents
  BY ScanFields, ScanAssumption DEF IInv, TypeOK
<1>1. ASSUME NEW q \in Paths, Listed(q)
      PROVE  Expected(q) /\ (IsFile(seen[q]) => seen[q].content = disk[q])
  <2>1. ~Pending(q)
    BY DEF IInv, WalkInv, Pending
  <2> QED
    BY <1>1, <2>1 DEF IInv, FreshInv
<1>2. ASSUME NEW q \in Paths, ~Listed(q) PROVE seen[q] = NoEntry
  <2>1. seen[q].type # "none" => seen[Parent[q]].type = "dir" /\ Parent[q] \in Paths
    BY <1>0, <1>2 DEF Tree, Listed
  <2>2. seen[q].type = "none"
    BY <1>0, <1>2, <2>1, EntryFacts DEF Listed
  <2> QED
    BY <1>0, <2>2, EntryFacts
<1>3. ASSUME NEW d \in Paths, Parent[d] = Root \/ Parent[d] \in S PROVE d \in S
  <2>1. Listed(d) <=> Parent[d] = Root \/ (disk[Parent[d]] = Dir /\ Visible(Parent[d]))
    BY <1>3, Zenon DEF Listed
  <2>2. disk[d] # None => Parent[d] = Root \/ disk[Parent[d]] = Dir
    BY <1>0 DEF IsRepository, InDirectory
  <2>3. Visible(d) <=> ~ShouldSkipDir(d) /\ Visible(Parent[d])
    BY VisibleStep
  <2>4. Parent[d] = Root => Visible(Parent[d])
    BY VisibleStep, Zenon
  <2>5. CASE Listed(d)
    <3>1. seen[d] = DirEntry <=> disk[d] = Dir /\ ~ShouldSkipDir(d)
      BY <1>1, <2>5 DEF Expected
    <3>2. Visible(Parent[d])
      BY <2>1, <2>4, <2>5, Zenon
    <3> QED
      BY <2>3, <3>1, <3>2, Zenon
  <2>6. CASE ~Listed(d)
    <3>1. seen[d] # DirEntry
      BY <1>2, <2>6, NoEntryIsNoFile
    <3>2. ~(disk[d] = Dir /\ Visible(d))
      BY <1>0, <2>1, <2>2, <2>3, <2>6, Zenon
    <3> QED
      BY <3>1, <3>2, Zenon
  <2> QED
    BY <2>5, <2>6
<1>4. Paths \subseteq S
  <2> HIDE DEF S
  <2> QED
    BY <1>3, TopDown
<1>5. Parent[p] \in Paths => (seen[Parent[p]] = DirEntry <=> disk[Parent[p]] = Dir /\ Visible(Parent[p]))
  BY <1>4, Zenon
<1>6. disk[p] # None => (Listed(p) <=> Visible(Parent[p]))
  <2>1. Parent[p] = Root => Visible(Parent[p])
    BY VisibleStep, Zenon
  <2>2. disk[p] # None => Parent[p] = Root \/ disk[Parent[p]] = Dir
    BY <1>0 DEF IsRepository, InDirectory
  <2>3. Parent[p] = Root \/ Parent[p] \in Paths
    BY <1>0
  <2> QED
    BY <1>5, <2>1, <2>2, <2>3, Zenon DEF Listed
<1>7. ~IsFile(seen[p]) => seen[p].content = None
  BY <1>0, EntryFacts DEF IsFile, NoEntry, DirEntry
<1>8. IsFile(seen[p]) <=> disk[p] \in Contents /\ ShouldIndexPath(p) /\ Listed(p)
  <2>1. CASE Listed(p)
    BY <1>1, <2>1, Zenon DEF Expected
  <2>2. CASE ~Listed(p)
    BY <1>2, <2>2, NoEntryIsNoFile, Zenon
  <2> QED
    BY <2>1, <2>2
<1>9. CASE disk[p] \in Contents /\ ShouldIndexPath(p) /\ Visible(Parent[p])
  <2>1. Listed(p)
    BY <1>0, <1>6, <1>9
  <2>2. IsFile(seen[p])
    BY <1>8, <1>9, <2>1, Zenon
  <2>3. seen[p].content = disk[p]
    BY <1>1, <2>1, <2>2
  <2> QED
    BY <1>9, <2>3
<1>10. CASE ~(disk[p] \in Contents /\ ShouldIndexPath(p) /\ Visible(Parent[p]))
  <2>1. disk[p] \in Contents => disk[p] # None
    BY <1>0
  <2>2. ~IsFile(seen[p])
    BY <1>6, <1>8, <1>10, <2>1, Zenon
  <2>3. seen[p].content = None
    BY <1>7, <2>2
  <2> QED
    BY <1>10, <2>3, Zenon
<1> QED
  BY <1>9, <1>10

(* The delta turns the content of the one snapshot into that of the next.  *)
LEMMA DeltaMovesMirror ==
  ASSUME NEW old, NEW new, Tree(old), Tree(new), NEW p \in Paths
  PROVE  (IF p \in Upserts(DiffSnapshots(old, new)) THEN new[p].content
          ELSE IF p \in Deletes(DiffSnapshots(old, new)) THEN None
          ELSE old[p].content) = new[p].content
<1>1. /\ p \in Upserts(DiffSnapshots(old, new)) <=> IsFile(new[p]) /\ new[p] # old[p]
      /\ p \in Deletes(DiffSnapshots(old, new)) <=> IsFile(old[p]) /\ ~IsFile(new[p])
  BY DeltaIsExact
<1>2. old[p] \in Entries /\ new[p] \in Entries
  BY DEF Tree
<1>3. /\ ~IsFile(old[p]) => old[p].content = None
      /\ ~IsFile(new[p]) => new[p].content = None
  BY <1>2, EntryFacts DEF IsFile, NoEntry, DirEntry
<1>4. CASE IsFile(new[p]) /\ new[p] # old[p]
  BY <1>1, <1>4, Zenon
<1>5. CASE IsFile(new[p]) /\ new[p] = old[p]
  BY <1>1, <1>5, Zenon
<1>6. CASE ~IsFile(new[p]) /\ IsFile(old[p])
  BY <1>1, <1>3, <1>6, Zenon
<1>7. CASE ~IsFile(new[p]) /\ ~IsFile(old[p])
  BY <1>1, <1>3, <1>7, Zenon
<1> QED
  BY <1>4, <1>5, <1>6, <1>7, Zenon

(* The scan is complete: the delta is exact, and the mirror follows it.    *)
LEMMA FinishScanFacts ==
  ASSUME IInv, FinishScan
  PROVE  /\ changes' \subseteq [op : {"add", "modify", "delete"}, path : Paths]
         /\ Upserts(changes') = {p \in Paths : IsFile(prev'[p]) /\ prev'[p] # prev[p]}
         /\ Deletes(changes') = {p \in Paths : IsFile(prev[p]) /\ ~IsFile(prev'[p])}
         /\ mirror' = [p \in Paths |-> prev'[p].content]
<1> DEFINE seen == scan.seen
           delta == DiffSnapshots(prev, seen)
<1>0. /\ changes' = delta /\ prev' = seen
      /\ mirror' = [p \in Paths |-> IF p \in Upserts(delta) THEN seen[p].content
                                    ELSE IF p \in Deletes(delta) THEN None ELSE mirror[p]]
  BY Zenon DEF FinishScan
<1>1. Tree(prev) /\ Tree(seen) /\ mirror = [p \in Paths |-> prev[p].content]
  BY DEF IInv, DeltasCompose
<1>2. /\ delta \subseteq [op : {"add", "modify", "delete"}, path : Paths]
      /\ Upserts(delta) = {p \in Paths : IsFile(seen[p]) /\ seen[p] # prev[p]}
      /\ Deletes(delta) = {p \in Paths : IsFile(prev[p]) /\ ~IsFile(seen[p])}
  BY <1>1, DeltaIsExact, Zenon
<1>3. \A p \in Paths : mirror[p] = prev[p].content
  BY <1>1
<1>4. \A p \in Paths : (IF p \in Upserts(delta) THEN seen[p].content
                        ELSE IF p \in Deletes(delta) THEN None ELSE prev[p].content) = seen[p].content
  BY <1>1, DeltaMovesMirror
<1> HIDE DEF delta, seen
<1>5. \A p \in Paths : mirror'[p] = seen[p].content
  BY <1>0, <1>3, <1>4
<1>6. mirror' = [p \in Paths |-> seen[p].content]
  BY <1>0, <1>5
<1> QED
  BY <1>0, <1>2, <1>6

(* What is kept of it is a tree, and faithful if nothing interfered.       *)
LEMMA FinishScanIInv == IInv /\ FinishScan => IInv'
<1> SUFFICES ASSUME IInv, FinishScan PROVE IInv'
  OBVIOUS
<1>0. /\ scan.pc = "hash" /\ scan.unread = {} /\ prev' = scan.seen /\ scan' = Idle
      /\ scans' = scans + 1 /\ UNCHANGED <<disk, edits, fresh>>
  BY DEF FinishScan
<1>1. /\ changes' \subseteq [op : {"add", "modify", "delete"}, path : Paths]
      /\ mirror' = [p \in Paths |-> prev'[p].content]
  BY FinishScanFacts
<1>2. /\ Tree(scan.seen) /\ scan.seen \in [Paths -> Entries]
      /\ \A p \in Paths : scan.seen[p].content \in Contents \cup {None}
  <2>1. Tree(scan.seen) /\ scan.seen \in [Paths -> Entries]
    BY DEF IInv, Tree
  <2>2. ASSUME NEW p \in Paths PROVE scan.seen[p].content \in Contents \cup {None}
    BY <2>1, EntryFacts DEF IsFile, NoEntry, DirEntry
  <2> QED
    BY <2>1, <2>2
<1>3. TypeOK'
  <2>1. mirror' \in [Paths -> Contents \cup {None}]
    BY <1>0, <1>1, <1>2
  <2>2. scans' \in 0 .. MaxScans
    BY <1>0, ScanAssumption DEF IInv, TypeOK, WalkInv
  <2> QED
    BY <1>0, <1>1, <1>2, <2>1, <2>2, IdleFacts DEF IInv, TypeOK
<1>4. (Tree(prev) /\ Tree(scan.seen))'
  BY <1>0, <1>2, IdleFacts
<1>5. WalkInv'
  BY <1>0, IdleFacts DEF WalkInv
<1>6. DeltasCompose'
  BY <1>1 DEF DeltasCompose
<1>7. FreshInv'
  BY <1>0, IdleFacts DEF FreshInv
<1>8. QuietScanIsFaithful'
  <2> SUFFICES ASSUME fresh
               PROVE  mirror' = [p \in Paths |->
                        IF disk[p] \in Contents /\ ShouldIndexPath(p) /\ Visible(Parent[p])
                        THEN disk[p] ELSE None]
    BY <1>0 DEF QuietScanIsFaithful, Visible
  <2>1. \A p \in Paths : scan.seen[p].content =
          IF disk[p] \in Contents /\ ShouldIndexPath(p) /\ Visible(Parent[p]) THEN disk[p] ELSE None
    BY <1>0, QuietScan
  <2> QED
    BY <1>0, <1>1, <2>1
<1> QED
  BY <1>3, <1>4, <1>5, <1>6, <1>7, <1>8 DEF IInv

(* One case per action.                                                    *)
LEMMA NextIInv == IInv /\ [Next]_vars => IInv'
<1> SUFFICES ASSUME IInv, [Next]_vars PROVE IInv'
  OBVIOUS
<1>1. ASSUME NEW p \in Paths, NEW v \in Contents \cup {Dir, None}, Edit(p, v) PROVE IInv'
  BY <1>1, EditIInv
<1>2. CASE StartScan
  BY <1>2, StartScanIInv
<1>3. ASSUME NEW e \in scan.todo, VisitDir(e) \/ VisitDirGone(e) \/ VisitFile(e) \/ VisitFileGone(e)
      PROVE  IInv'
  BY <1>3, VisitIInv
<1>4. CASE WalkDone
  BY <1>4, WalkDoneIInv
<1>5. ASSUME NEW p \in scan.unread, HashFile(p) \/ HashFileGone(p) PROVE IInv'
  BY <1>5, HashFileIInv, BuildFailsIInv DEF HashFileGone
<1>6. CASE FinishScan
  BY <1>6, FinishScanIInv
<1>7. CASE UNCHANGED vars
  BY <1>7 DEF vars, IInv, TypeOK, Tree, WalkInv, Listed, DeltasCompose, FreshInv, Pending, Expected,
              QuietScanIsFaithful
<1> QED
  BY <1>1, <1>2, <1>3, <1>4, <1>5, <1>6, <1>7 DEF Next

-----------------------------------------------------------------------------
(* The theorems.                                                           *)

(* IInv is an invariant.                                                   *)
THEOREM InductiveInvariant == Spec => []IInv
BY InitIInv, NextIInv, PTL DEF Spec

(* TypeOK: every variable has its type, and an edit leaves a repository.   *)
THEOREM TypeCorrect == Spec => []TypeOK
<1>1. IInv => TypeOK
  BY DEF IInv
<1> QED
  BY <1>1, InductiveInvariant, PTL

(* DiffSnapshots, with its pruning, computes the difference by its         *)
(* definition for every two trees that scans record.                       *)
THEOREM DiffIsExactTheorem == Spec => DiffIsExact
<1>1. IInv /\ [Next]_vars =>
        [scans' # scans =>
           /\ Upserts(changes') = {p \in Paths : IsFile(prev'[p]) /\ prev'[p] # prev[p]}
           /\ Deletes(changes') = {p \in Paths : IsFile(prev[p]) /\ ~IsFile(prev'[p])}]_vars
  <2> SUFFICES ASSUME IInv, Next, scans' # scans
               PROVE  /\ Upserts(changes') = {p \in Paths : IsFile(prev'[p]) /\ prev'[p] # prev[p]}
                      /\ Deletes(changes') = {p \in Paths : IsFile(prev[p]) /\ ~IsFile(prev'[p])}
    OBVIOUS
  <2>1. FinishScan
    BY Zenon DEF Next, Edit, StartScan, VisitDir, VisitDirGone, VisitFile, VisitFileGone, BuildFails,
                 WalkDone, HashFile, HashFileGone
  <2> QED
    BY <2>1, FinishScanFacts, Zenon
<1> QED
  BY <1>1, InductiveInvariant, PTL DEF Spec, DiffIsExact

(* DeltasCompose: the deltas applied one after the other give the files of *)
(* the latest snapshot.                                                    *)
THEOREM DeltasComposeTheorem == Spec => []DeltasCompose
<1>1. IInv => DeltasCompose
  BY DEF IInv
<1> QED
  BY <1>1, InductiveInvariant, PTL

(* QuietScanIsFaithful: a scan that nothing interfered with brings the     *)
(* mirror to the repository, whatever the scans before it recorded.        *)
THEOREM QuietScanIsFaithfulTheorem == Spec => []QuietScanIsFaithful
<1>1. IInv => QuietScanIsFaithful
  BY DEF IInv
<1> QED
  BY <1>1, InductiveInvariant, PTL

=============================================================================
