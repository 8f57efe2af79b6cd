----------------------------- MODULE Ext4Proofs -----------------------------
(***************************************************************************)
(* Proofs about the EXT4 investigation: what the extents of an inode, their*)
(* layout and the names of a directory are for every volume, and by them   *)
(* that the walk lists what is named, that the scan takes its names from   *)
(* what is left of them, that content is where the extents have it, and    *)
(* that the promise of an investigation is kept.                           *)
(***************************************************************************)
EXTENDS Ext4Investigation, ListProofs

LEMMA VolumeFacts ==
  ASSUME volume \in Volumes
  PROVE  /\ volume.inodesCount \in Nat
         /\ DOMAIN volume.groups = 0..(Groups - 1)
         /\ \A g \in 0..(Groups - 1) : /\ volume.groups[g] \in Group
                                       /\ Len(volume.groups[g].table) >= InodesPerGroup
         /\ DOMAIN volume.blocks \subseteq Nat \ {0}
         /\ \A b \in DOMAIN volume.blocks : volume.blocks[b] \in Block
  BY Ext4Assumption DEF IsVolume

-----------------------------------------------------------------------------
(* The walk down an extent tree.                                           *)
Places(blocks) == {0} \cup DOMAIN blocks

LEMMA NodeTyped ==
  ASSUME NEW blocks, \A b \in DOMAIN blocks : blocks[b] \in Block,
         NEW root \in Node, NEW b \in Places(blocks)
  PROVE  NodeAt(blocks, root, b) \in Node
  BY DEF NodeAt, Places, Block

(* What the children of a node are resolved to, and what one level more    *)
(* makes of the level below it.                                            *)
Parts(blocks, children, below) ==
  [i \in DOMAIN children |->
     IF children[i] \in DOMAIN blocks THEN below[children[i]] ELSE <<Unreadable>>]

Level(blocks, root, depth, below) ==
  [b \in Places(blocks) |->
     IF NodeAt(blocks, root, b).valid /\ NodeAt(blocks, root, b).depth > 0 /\ depth > 0
       THEN <<b>> \o FlattenSeq(Parts(blocks, NodeAt(blocks, root, b).children, below))
       ELSE <<b>>]

IsResolved(resolve, blocks, root) ==
  resolve = [depth \in 0..MaxTreeDepth |-> Level(blocks, root, depth, resolve[depth - 1])]

LEMMA ResolveIs ==
  ASSUME NEW blocks, NEW root
  PROVE  ResolveNode(blocks, root) = (CHOOSE f : IsResolved(f, blocks, root))[DepthOf(root)][0]
  BY DEF ResolveNode, IsResolved, Level, Parts, Places

Reachable(blocks) == Places(blocks) \cup {Unreadable}

LEMMA LevelTyped ==
  ASSUME NEW blocks, DOMAIN blocks \subseteq Nat, \A b \in DOMAIN blocks : blocks[b] \in Block,
         NEW root \in Node, NEW depth \in Nat,
         NEW below, depth = 0 \/ below \in [Places(blocks) -> Seq(Reachable(blocks))]
  PROVE  Level(blocks, root, depth, below) \in [Places(blocks) -> Seq(Reachable(blocks))]
  <1> DEFINE R == Reachable(blocks)
             D == Places(blocks)
  <1> SUFFICES ASSUME NEW b \in D
               PROVE  (IF NodeAt(blocks, root, b).valid /\ NodeAt(blocks, root, b).depth > 0 /\ depth > 0
                         THEN <<b>> \o FlattenSeq(Parts(blocks, NodeAt(blocks, root, b).children, below))
                         ELSE <<b>>) \in Seq(R)
    BY DEF Level
  <1>1. b \in R /\ Unreadable \in R
    BY DEF Reachable
  <1>2. <<b>> \in Seq(R)
    BY <1>1
  <1> DEFINE c == NodeAt(blocks, root, b).children
             parts == Parts(blocks, c, below)
  <1>3. ASSUME depth > 0 PROVE FlattenSeq(parts) \in Seq(R)
    <2>1. c \in Seq(Nat)
      BY NodeTyped DEF Node
    <2>2. Len(c) \in Nat /\ DOMAIN c = 1..Len(c)
      BY <2>1
    <2> HIDE DEF c
    <2>3. below \in [D -> Seq(R)]
      BY <1>3
    <2>4. parts \in Seq(Seq(R))
      <3>1. ASSUME NEW i \in 1..Len(c)
            PROVE  (IF c[i] \in DOMAIN blocks THEN below[c[i]] ELSE <<Unreadable>>) \in Seq(R)
        <4>1. <<Unreadable>> \in Seq(R)
          BY <1>1
        <4>2. c[i] \in DOMAIN blocks => c[i] \in D
          BY DEF Places
        <4> HIDE DEF R, D
        <4> QED
          BY <2>3, <4>1, <4>2
      <3>2. parts \in [1..Len(c) -> Seq(R)]
        BY <2>2, <3>1 DEF Parts
      <3> HIDE DEF parts, R
      <3> QED
        BY <2>2, <3>2, SeqDef
    <2> HIDE DEF parts, R
    <2> QED
      BY <2>4, FlattenFacts
  <1> HIDE DEF c, R, parts
  <1> QED
    <2>1. CASE NodeAt(blocks, root, b).valid /\ NodeAt(blocks, root, b).depth > 0 /\ depth > 0
      <3>1. FlattenSeq(parts) \in Seq(R)
        BY <1>3, <2>1
      <3>2. <<b>> \o FlattenSeq(parts) \in Seq(R)
        BY <1>2, <3>1, ConcatProperties
      <3> QED
        BY <2>1, <3>2 DEF parts, c
    <2>2. CASE ~(NodeAt(blocks, root, b).valid /\ NodeAt(blocks, root, b).depth > 0 /\ depth > 0)
      BY <1>2, <2>2
    <2> QED
      BY <2>1, <2>2

(* The recursion over the depth has a value, and it is found at each depth.*)
LEMMA ResolveFacts ==
  ASSUME NEW blocks, DOMAIN blocks \subseteq Nat, \A b \in DOMAIN blocks : blocks[b] \in Block,
         NEW root \in Node
  PROVE  \E f \in [0..MaxTreeDepth -> [Places(blocks) -> Seq(Reachable(blocks))]] :
           /\ IsResolved(f, blocks, root)
           /\ ResolveNode(blocks, root) = f[DepthOf(root)][0]
  <1> DEFINE M == MaxTreeDepth
             X == [Places(blocks) -> Seq(Reachable(blocks))]
             first == Level(blocks, root, 0, << >>)
             Step == [k \in 1..M |-> [below \in X |-> Level(blocks, root, k, below)]]
             c == CHOOSE f : IsResolved(f, blocks, root)
  <1>1. M \in Nat
    BY ExtentAssumption
  <1>2. first \in X
    BY LevelTyped
  <1>3. ASSUME NEW k \in 1..M, NEW below \in X PROVE Level(blocks, root, k, below) \in X
    BY LevelTyped
  <1>4. Step \in [1..M -> [X -> X]]
    <2> HIDE DEF X
    <2> QED
      BY <1>3
  <1>5. ASSUME NEW k \in 1..M, NEW below \in X PROVE Step[k][below] = Level(blocks, root, k, below)
    <2> HIDE DEF X
    <2> QED
      OBVIOUS
  <1>6. ASSUME NEW below PROVE Level(blocks, root, 0, below) = first
    BY DEF Level
  <1> HIDE DEF X, first, Step, M
  <1>7. PICK f \in [0..M -> X] : Computes(f, M, first, Step)
    BY <1>1, <1>2, <1>4, RecursionExists
  <1>8. ASSUME NEW k \in 0..M PROVE f[k] = Level(blocks, root, k, f[k - 1])
    <2>1. CASE k = 0
      BY <1>6, <1>7, <2>1 DEF Computes
    <2>2. CASE k # 0
      <3>1. k \in 1..M /\ k - 1 \in 0..M /\ f[k - 1] \in X
        BY <1>1, <2>2
      <3> QED
        BY <1>5, <1>7, <3>1 DEF Computes
    <2> QED
      BY <2>1, <2>2
  <1>9. IsResolved(f, blocks, root)
    BY <1>8 DEF IsResolved, M
  <1>10. IsResolved(c, blocks, root)
    BY <1>9
  <1>11. ResolveNode(blocks, root) = c[DepthOf(root)][0]
    BY ResolveIs
  <1> HIDE DEF c
  <1>12. ASSUME NEW k \in 0..M PROVE c[k] = Level(blocks, root, k, c[k - 1])
    BY <1>10 DEF IsResolved, M
  <1>13. ASSUME NEW k \in 0..M PROVE c[k] \in X
    <2> DEFINE Z == {m \in 0..k : c[m] \in X}
    <2>1. 0 \in Z
      <3>1. 0 \in 0..M
        BY <1>1
      <3>2. c[0] = first
        BY <1>6, <1>12, <3>1
      <3> QED
        BY <1>2, <3>2
    <2>2. ASSUME NEW m \in 0..(k - 1), m \in Z PROVE m + 1 \in Z
      <3>1. PICK i \in 1..M : i = m + 1
        BY <1>1
      <3>2. i \in Nat /\ i # 0 /\ i - 1 = m /\ c[m] \in X /\ i \in 0..M
        BY <1>1, <2>2, <3>1
      <3>3. c[i] = Level(blocks, root, i, c[m])
        BY <1>12, <3>2
      <3>4. c[i] \in X
        BY <1>3, <3>2, <3>3
      <3> QED
        BY <3>1, <3>4
    <2>3. k \in Nat
      BY <1>1
    <2> HIDE DEF Z
    <2>4. k \in Z
      BY <2>1, <2>2, <2>3, SetInduction
    <2> QED
      BY <2>4 DEF Z
  <1>14. c \in [0..M -> X]
    <2>1. c = [k \in 0..M |-> Level(blocks, root, k, c[k - 1])]
      BY <1>10 DEF IsResolved, M
    <2>2. c = [k \in 0..M |-> c[k]]
      BY <2>1
    <2> QED
      BY <1>13, <2>2
  <1> QED
    BY <1>10, <1>11, <1>14 DEF M, X

LEMMA DepthTyped ==
  ASSUME NEW root \in Node
  PROVE  DepthOf(root) \in 0..MaxTreeDepth
  BY ExtentAssumption DEF DepthOf, Node

LEMMA ResolveTyped ==
  ASSUME NEW blocks, DOMAIN blocks \subseteq Nat, \A b \in DOMAIN blocks : blocks[b] \in Block,
         NEW root \in Node
  PROVE  ResolveNode(blocks, root) \in Seq(Reachable(blocks))
  <1>1. 0 \in Places(blocks)
    BY DEF Places
  <1>2. PICK f \in [0..MaxTreeDepth -> [Places(blocks) -> Seq(Reachable(blocks))]] :
          ResolveNode(blocks, root) = f[DepthOf(root)][0]
    BY ResolveFacts
  <1> QED
    BY <1>1, <1>2, DepthTyped

-----------------------------------------------------------------------------
(* The sort keeps every extent and puts them in logical order.             *)
PlacesBefore(s, j) ==
  {i \in DOMAIN s : s[i].logical < s[j].logical \/ (s[i].logical = s[j].logical /\ i < j)}

LEMMA SortFacts ==
  ASSUME NEW s \in Seq(Extent)
  PROVE  /\ SortByLogical(s) \in Seq(Extent)
         /\ ToSet(SortByLogical(s)) = ToSet(s)
         /\ \A i, j \in DOMAIN SortByLogical(s) :
              i < j => SortByLogical(s)[i].logical <= SortByLogical(s)[j].logical
  <1> DEFINE n == Len(s)
             Below == [j \in 1..n |-> PlacesBefore(s, j)]
             rank(j) == 1 + Cardinality(PlacesBefore(s, j))
             at(k) == CHOOSE j \in 1..n : rank(j) = k
             t == [k \in 1..n |-> s[at(k)]]
  <1>1. n \in Nat /\ DOMAIN s = 1..n /\ \A j \in 1..n : s[j] \in Extent /\ s[j].logical \in Nat
    <2>1. \A e \in Extent : e.logical \in Nat
      BY DEF Extent
    <2> QED
      BY <2>1
  <1>2. SortByLogical(s) = t
    BY <1>1 DEF SortByLogical, PlacesBefore
  <1>3. Below \in [1..n -> SUBSET (1..n)]
    BY <1>1 DEF PlacesBefore
  <1>4. \A i \in 1..n : i \notin Below[i]
    BY <1>1 DEF PlacesBefore
  <1>5. \A i, j \in 1..n : i # j => i \in Below[j] \/ j \in Below[i]
    BY <1>1 DEF PlacesBefore
  <1>6. \A i, j, k \in 1..n : i \in Below[j] /\ j \in Below[k] => i \in Below[k]
    BY <1>1 DEF PlacesBefore
  <1>7. \A j \in 1..n : Below[j] = PlacesBefore(s, j)
    OBVIOUS
  <1> HIDE DEF Below, n
  <1>8. ASSUME NEW k \in 1..n PROVE at(k) \in 1..n /\ rank(at(k)) = k
    <2>1. \E j \in 1..n : 1 + Cardinality(Below[j]) = k
      BY <1>1, <1>3, <1>4, <1>5, <1>6, RanksAreTaken
    <2> QED
      BY <1>7, <2>1
  <1>9. ASSUME NEW j \in 1..n
        PROVE  IsFiniteSet(PlacesBefore(s, j)) /\ Cardinality(PlacesBefore(s, j)) \in Nat
    <2>1. IsFiniteSet(1..n) /\ PlacesBefore(s, j) \subseteq 1..n
      BY <1>1, FS_Interval DEF PlacesBefore
    <2> QED
      BY <2>1, FS_Subset, FS_CardinalityType
  <1>10. ASSUME NEW i \in 1..n, NEW j \in 1..n, i \in PlacesBefore(s, j) PROVE rank(i) < rank(j)
    <2>1. PlacesBefore(s, i) \subseteq PlacesBefore(s, j) \ {i}
      <3>1. i \notin PlacesBefore(s, i)
        BY <1>4, <1>7
      <3>2. \A k \in PlacesBefore(s, i) : k \in 1..n /\ k \in PlacesBefore(s, j)
        BY <1>1, <1>10, <1>6, <1>7 DEF PlacesBefore
      <3> QED
        BY <3>1, <3>2
    <2>2. /\ IsFiniteSet(PlacesBefore(s, j) \ {i})
          /\ Cardinality(PlacesBefore(s, j) \ {i}) = Cardinality(PlacesBefore(s, j)) - 1
      BY <1>9, <1>10, FS_RemoveElement
    <2>3. Cardinality(PlacesBefore(s, i)) <= Cardinality(PlacesBefore(s, j) \ {i})
      BY <2>1, <2>2, FS_Subset
    <2> QED
      BY <1>9, <2>2, <2>3
  <1>11. ASSUME NEW i \in 1..n, NEW j \in 1..n, i # j PROVE rank(i) # rank(j)
    <2>1. i \in PlacesBefore(s, j) \/ j \in PlacesBefore(s, i)
      BY <1>5, <1>7, <1>11
    <2> HIDE DEF rank
    <2>2. rank(i) < rank(j) \/ rank(j) < rank(i)
      BY <1>10, <2>1
    <2>3. rank(i) \in Nat /\ rank(j) \in Nat
      BY <1>9 DEF rank
    <2> QED
      BY <2>2, <2>3
  <1>12. ASSUME NEW j \in 1..n PROVE rank(j) \in 1..n /\ at(rank(j)) = j
    <2>1. rank(j) \in 1..n
      <3>1. PlacesBefore(s, j) \subseteq (1..n) \ {j}
        BY <1>1, <1>4, <1>7 DEF PlacesBefore
      <3>2. IsFiniteSet((1..n) \ {j}) /\ Cardinality((1..n) \ {j}) = n - 1
        <4>1. IsFiniteSet(1..n) /\ Cardinality(1..n) = n
          BY <1>1, FS_Interval
        <4> QED
          BY <4>1, FS_RemoveElement
      <3>3. Cardinality(PlacesBefore(s, j)) <= n - 1
        BY <3>1, <3>2, FS_Subset
      <3> QED
        BY <1>1, <1>9, <3>3
    <2> HIDE DEF rank
    <2>2. at(rank(j)) \in 1..n /\ rank(at(rank(j))) = rank(j)
      BY <1>8, <2>1
    <2> QED
      BY <1>11, <2>1, <2>2
  <1>13. t \in Seq(Extent) /\ DOMAIN t = 1..n
    <2> HIDE DEF at
    <2>1. t \in [1..n -> Extent]
      BY <1>1, <1>8
    <2> QED
      BY <1>1, <2>1, SeqDef
  <1>14. ToSet(t) = ToSet(s)
    <2> HIDE DEF at, rank
    <2>1. \A k \in 1..n : t[k] = s[at(k)]
      OBVIOUS
    <2> HIDE DEF t
    <2>2. ASSUME NEW x \in ToSet(t) PROVE x \in ToSet(s)
      <3>1. PICK k \in 1..n : x = t[k]
        BY <1>13 DEF ToSet
      <3> QED
        BY <1>1, <1>8, <2>1, <3>1 DEF ToSet
    <2>3. ASSUME NEW x \in ToSet(s) PROVE x \in ToSet(t)
      <3>1. PICK j \in 1..n : x = s[j]
        BY <1>1 DEF ToSet
      <3>2. t[rank(j)] = s[j]
        BY <1>12, <2>1
      <3> QED
        BY <1>12, <1>13, <3>1, <3>2 DEF ToSet
    <2> QED
      BY <2>2, <2>3
  <1>15. ASSUME NEW i \in 1..n, NEW j \in 1..n, i < j PROVE t[i].logical <= t[j].logical
    <2>1. at(i) \in 1..n /\ at(j) \in 1..n /\ rank(at(i)) = i /\ rank(at(j)) = j
      BY <1>8
    <2> HIDE DEF at
    <2>2. at(i) # at(j) /\ at(j) \notin PlacesBefore(s, at(i))
      BY <1>1, <1>10, <1>15, <2>1
    <2>3. at(i) \in PlacesBefore(s, at(j))
      BY <1>5, <1>7, <2>1, <2>2
    <2>4. s[at(i)].logical <= s[at(j)].logical
      BY <1>1, <2>1, <2>3 DEF PlacesBefore
    <2> QED
      BY <2>4
  <1> HIDE DEF t
  <1> QED
    BY <1>2, <1>13, <1>14, <1>15

(* resolve_extents: the extents of what was reached.                       *)
Collected(blocks, root) ==
  LET reached == ResolveNode(blocks, root)
  IN  UNION {ToSet(ExtentsAt(NodeAt(blocks, root, b))) : b \in ToSet(reached)}

LEMMA ExtentsFacts ==
  ASSUME NEW blocks, DOMAIN blocks \subseteq Nat, \A b \in DOMAIN blocks : blocks[b] \in Block,
         NEW root \in Node
  PROVE  /\ ResolveExtents(blocks, root) \in Seq(Extent)
         /\ ~Fails(blocks, root, ResolveNode(blocks, root)) =>
              ToSet(ResolveExtents(blocks, root)) = Collected(blocks, root)
         /\ \A i, j \in DOMAIN ResolveExtents(blocks, root) :
              i < j => ResolveExtents(blocks, root)[i].logical
                         <= ResolveExtents(blocks, root)[j].logical
  <1> DEFINE r == ResolveNode(blocks, root)
             parts == [i \in DOMAIN r |-> ExtentsAt(NodeAt(blocks, root, r[i]))]
             joined == FlattenSeq(parts)
  <1>1. CASE Fails(blocks, root, r)
    <2>1. ResolveExtents(blocks, root) = << >>
      BY <1>1 DEF ResolveExtents
    <2> QED
      BY <1>1, <2>1
  <1>2. CASE ~Fails(blocks, root, r)
    <2>1. ResolveExtents(blocks, root) = SortByLogical(joined)
      BY <1>2 DEF ResolveExtents
    <2>2. r \in Seq(Reachable(blocks))
      BY ResolveTyped
    <2>3. Fails(blocks, root, r) <=>
            \E b \in ToSet(r) : b = Unreadable \/ (NodeAt(blocks, root, b).valid /\ NodeAt(blocks, root, b).cut)
      BY DEF Fails
    <2>4. Len(r) \in Nat /\ DOMAIN r = 1..Len(r) /\ \A i \in 1..Len(r) : r[i] \in Reachable(blocks)
      BY <2>2
    <2>5. Collected(blocks, root) = UNION {ToSet(ExtentsAt(NodeAt(blocks, root, b))) : b \in ToSet(r)}
      BY DEF Collected
    <2> HIDE DEF r
    <2>6. ASSUME NEW i \in 1..Len(r) PROVE ExtentsAt(NodeAt(blocks, root, r[i])) \in Seq(Extent)
      <3>1. r[i] # Unreadable
        BY <1>2, <2>3, <2>4 DEF ToSet
      <3>2. r[i] \in Places(blocks)
        BY <2>4, <3>1 DEF Reachable
      <3>3. NodeAt(blocks, root, r[i]) \in Node
        BY <3>2, NodeTyped
      <3> QED
        BY <3>3 DEF ExtentsAt, Node
    <2>7. parts \in Seq(Seq(Extent)) /\ DOMAIN parts = 1..Len(r)
      <3>1. parts \in [1..Len(r) -> Seq(Extent)]
        BY <2>4, <2>6
      <3> HIDE DEF parts
      <3> QED
        BY <2>4, <3>1, SeqDef
    <2>8. joined \in Seq(Extent) /\ ToSet(joined) = UNION {ToSet(parts[i]) : i \in DOMAIN parts}
      <3> HIDE DEF parts
      <3> QED
        BY <2>7, FlattenFacts
    <2>9. UNION {ToSet(parts[i]) : i \in DOMAIN parts} = Collected(blocks, root)
      <3>1. \A i \in 1..Len(r) : parts[i] = ExtentsAt(NodeAt(blocks, root, r[i]))
        BY <2>4
      <3>2. ToSet(r) = {r[i] : i \in 1..Len(r)}
        BY <2>4 DEF ToSet
      <3> HIDE DEF parts
      <3> QED
        BY <2>5, <2>7, <3>1, <3>2
    <2> HIDE DEF joined
    <2> QED
      BY <2>1, <2>8, <2>9, SortFacts
  <1> QED
    BY <1>1, <1>2

(* The nodes of a tree, level by level.                                    *)
LEMMA NodesFacts ==
  ASSUME NEW blocks, \A b \in DOMAIN blocks : blocks[b] \in Block, NEW root \in Node
  PROVE  \E f : /\ Nodes(blocks, root) = f[MaxTreeDepth]
                /\ f[0] = {root}
                /\ \A k \in 0..(MaxTreeDepth - 1) : f[k + 1] = Lower(blocks, f[k])
                /\ \A k \in 0..MaxTreeDepth : f[k] \subseteq Node
  <1> DEFINE M == MaxTreeDepth
             X == SUBSET Node
             Step == [k \in 1..M |-> [above \in X |-> Lower(blocks, above)]]
             L(f) == f = [k \in 0..M |-> IF k = 0 THEN {root} ELSE Lower(blocks, f[k - 1])]
             c == CHOOSE f : L(f)
  <1>1. M \in Nat
    BY ExtentAssumption
  <1>2. ASSUME NEW above \in X PROVE Lower(blocks, above) \in X
    BY DEF Lower, Block
  <1>3. Step \in [1..M -> [X -> X]]
    BY <1>2
  <1>4. ASSUME NEW k \in 1..M, NEW above \in X PROVE Step[k][above] = Lower(blocks, above)
    OBVIOUS
  <1>5. PICK e \in X : e = {root}
    OBVIOUS
  <1> HIDE DEF X, Step, M
  <1>6. PICK f \in [0..M -> X] : Computes(f, M, e, Step)
    BY <1>1, <1>3, RecursionExists
  <1>7. ASSUME NEW k \in 0..M
        PROVE  f[k] = IF k = 0 THEN {root} ELSE Lower(blocks, f[k - 1])
    <2>1. CASE k = 0
      BY <1>5, <1>6, <2>1 DEF Computes
    <2>2. CASE k # 0
      <3>1. k \in 1..M /\ k - 1 \in 0..M
        BY <1>1, <2>2
      <3>2. f[k] = Step[k][f[k - 1]] /\ f[k - 1] \in X
        BY <1>6, <3>1 DEF Computes
      <3> QED
        BY <1>4, <2>2, <3>1, <3>2
    <2> QED
      BY <2>1, <2>2
  <1>8. L(f)
    BY <1>7
  <1>9. L(c)
    <2> HIDE DEF L
    <2> QED
      BY <1>8
  <1>10. ASSUME NEW k \in 0..M
         PROVE  c[k] = IF k = 0 THEN {root} ELSE Lower(blocks, c[k - 1])
    <2> HIDE DEF c
    <2> QED
      BY <1>9
  <1>11. Nodes(blocks, root) = c[M]
    BY DEF Nodes, M
  <1> HIDE DEF c, L
  <1>12. c[0] = {root}
    BY <1>1, <1>10
  <1>13. ASSUME NEW k \in 0..(M - 1) PROVE c[k + 1] = Lower(blocks, c[k])
    <2>1. PICK m \in 1..M : m = k + 1
      BY <1>1
    <2>2. m \in 0..M /\ m # 0 /\ m - 1 = k
      BY <1>1, <2>1
    <2> QED
      BY <1>10, <2>1, <2>2
  <1>14. ASSUME NEW k \in 0..M PROVE c[k] \in X
    <2> DEFINE Z == {m \in 0..M : c[m] \in X}
    <2>1. 0 \in Z
      <3>1. c[0] = e
        BY <1>5, <1>12
      <3>2. 0 \in 0..M
        BY <1>1
      <3> QED
        BY <3>1, <3>2
    <2>2. ASSUME NEW m \in 0..(k - 1), m \in Z PROVE m + 1 \in Z
      <3>1. m \in 0..(M - 1) /\ m + 1 \in 0..M
        BY <1>1
      <3> QED
        BY <1>2, <1>13, <2>2, <3>1
    <2>3. k \in Nat
      BY <1>1
    <2> HIDE DEF Z
    <2>4. k \in Z
      BY <2>1, <2>2, <2>3, SetInduction
    <2> QED
      BY <2>4 DEF Z
  <1> QED
    BY <1>11, <1>12, <1>13, <1>14 DEF M, X

(* What hangs below a node of a tree is one of its nodes, one level down.  *)
Below(blocks, n) == {blocks[b].node : b \in DOMAIN blocks \cap ToSet(n.children)}

LEMMA LowerFacts ==
  ASSUME NEW blocks, NEW above
  PROVE  /\ above \subseteq Lower(blocks, above)
         /\ \A n \in above : n.depth > 0 => Below(blocks, n) \subseteq Lower(blocks, above)
         /\ \A n \in Lower(blocks, above) \ above :
              \E m \in above : m.depth > 0 /\ n \in Below(blocks, m)
  BY DEF Lower, Below

LEMMA TreeFacts ==
  ASSUME NEW blocks, \A b \in DOMAIN blocks : blocks[b] \in Block, NEW root \in Node,
         IsTree(blocks, root)
  PROVE  /\ root \in Nodes(blocks, root) /\ Nodes(blocks, root) \subseteq Node
         /\ \A n \in Nodes(blocks, root) : n.depth > 0 =>
              Below(blocks, n) \subseteq Nodes(blocks, root)
         /\ \A S : root \in S /\ (\A n \in S : n.depth > 0 => Below(blocks, n) \subseteq S)
              => Nodes(blocks, root) \subseteq S
  <1> DEFINE M == MaxTreeDepth
             N == Nodes(blocks, root)
  <1>1. PICK f : /\ N = f[M] /\ f[0] = {root}
                 /\ \A k \in 0..(M - 1) : f[k + 1] = Lower(blocks, f[k])
                 /\ \A k \in 0..M : f[k] \subseteq Node
    BY NodesFacts
  <1>2. M \in Nat /\ root.depth \in Nat /\ root.depth <= M
    BY ExtentAssumption DEF IsTree, Node
  <1>3. ASSUME NEW n \in N, n.depth > 0, NEW m \in Below(blocks, n)
        PROVE  n.depth \in Nat /\ m.depth = n.depth - 1
    BY <1>1, <1>2, <1>3 DEF IsTree, Below, Node
  <1> HIDE DEF M, N
  <1>4. ASSUME NEW j \in 0..M PROVE \A k \in 0..j : f[k] \subseteq f[j]
    <2> DEFINE Z == {i \in 0..M : \A k \in 0..i : f[k] \subseteq f[i]}
    <2>1. 0 \in Z
      BY <1>2
    <2>2. ASSUME NEW i \in 0..(j - 1), i \in Z PROVE i + 1 \in Z
      <3>1. i \in 0..(M - 1) /\ i + 1 \in 0..M
        BY <1>2
      <3>2. f[i] \subseteq f[i + 1]
        BY <1>1, <3>1, LowerFacts
      <3>3. \A k \in 0..(i + 1) : k \in 0..i \/ k = i + 1
        OBVIOUS
      <3> QED
        BY <2>2, <3>1, <3>2, <3>3
    <2>3. j \in Nat
      BY <1>2
    <2> HIDE DEF Z
    <2>4. j \in Z
      BY <2>1, <2>2, <2>3, SetInduction
    <2> QED
      BY <2>4 DEF Z
  <1>5. M \in 0..M /\ 0 \in 0..M
    BY <1>2
  <1> DEFINE IsAt(n, j) == n \in f[j] /\ j + n.depth = root.depth
  <1>6. ASSUME NEW n \in N PROVE \E j \in 0..M : IsAt(n, j)
    <2> DEFINE Z == {k \in 0..M : \A m \in f[k] : \E j \in 0..k : IsAt(m, j)}
    <2>1. 0 \in Z
      BY <1>1, <1>2
    <2>2. ASSUME NEW k \in 0..(M - 1), k \in Z PROVE k + 1 \in Z
      <3>1. k + 1 \in 0..M /\ k \in 0..M /\ f[k] \subseteq N
        BY <1>1, <1>2, <1>4, <1>5
      <3>2. ASSUME NEW m \in f[k + 1] PROVE \E j \in 0..(k + 1) : IsAt(m, j)
        <4>1. CASE m \in f[k]
          BY <2>2, <4>1
        <4>2. CASE m \notin f[k]
          <5>1. PICK p \in f[k] : p.depth > 0 /\ m \in Below(blocks, p)
            BY <1>1, <3>2, <4>2, LowerFacts
          <5>2. PICK j \in 0..k : IsAt(p, j)
            BY <2>2
          <5>3. p \in N /\ p.depth \in Nat /\ m.depth = p.depth - 1
            BY <1>3, <3>1, <5>1
          <5>4. j \in 0..(M - 1) /\ j + 1 \in 0..(k + 1)
            BY <1>2
          <5>5. m \in f[j + 1]
            BY <1>1, <5>1, <5>2, <5>4, LowerFacts
          <5>6. j + 1 + m.depth = root.depth
            BY <1>2, <5>2, <5>3
          <5> QED
            BY <5>4, <5>5, <5>6
        <4> QED
          BY <4>1, <4>2
      <3> HIDE DEF IsAt
      <3> QED
        BY <3>1, <3>2
    <2> HIDE DEF Z
    <2>3. M \in Z
      BY <1>2, <2>1, <2>2, SetInduction
    <2> QED
      BY <1>1, <2>3 DEF Z
  <1>7. ASSUME NEW n \in N, n.depth > 0 PROVE Below(blocks, n) \subseteq N
    <2>1. PICK j \in 0..M : IsAt(n, j)
      BY <1>6
    <2>2. n.depth \in Nat
      BY <1>1, <1>5 DEF Node
    <2>3. j \in 0..(M - 1) /\ j + 1 \in 0..M
      BY <1>2, <1>7, <2>1, <2>2
    <2>4. Below(blocks, n) \subseteq f[j + 1]
      BY <1>1, <1>7, <2>1, <2>3, LowerFacts
    <2> QED
      BY <1>1, <1>4, <1>5, <2>3, <2>4
  <1>8. ASSUME NEW S, root \in S, \A n \in S : n.depth > 0 => Below(blocks, n) \subseteq S
        PROVE  N \subseteq S
    <2> DEFINE Z == {k \in 0..M : f[k] \subseteq S}
    <2>1. 0 \in Z
      BY <1>1, <1>5, <1>8
    <2>2. ASSUME NEW k \in 0..(M - 1), k \in Z PROVE k + 1 \in Z
      <3>1. k + 1 \in 0..M /\ f[k] \subseteq S
        BY <1>2, <2>2
      <3>2. \A n \in f[k + 1] : n \in S
        BY <1>1, <1>8, <3>1, LowerFacts
      <3> QED
        BY <3>1, <3>2
    <2> HIDE DEF Z
    <2>3. M \in Z
      BY <1>2, <2>1, <2>2, SetInduction
    <2> QED
      BY <1>1, <2>3 DEF Z
  <1>9. root \in N /\ N \subseteq Node
    BY <1>1, <1>4, <1>5
  <1> QED
    BY <1>7, <1>8, <1>9 DEF N

LEMMA LevelIs ==
  ASSUME NEW blocks, NEW root, NEW depth, NEW below, NEW b \in Places(blocks),
         NodeAt(blocks, root, b).valid, NodeAt(blocks, root, b).depth > 0, depth > 0
  PROVE  Level(blocks, root, depth, below)[b] =
           <<b>> \o FlattenSeq(Parts(blocks, NodeAt(blocks, root, b).children, below))
  BY DEF Level

(* The walk down a tree comes to all of its nodes and to nothing else.     *)
LEMMA TreeIsResolved ==
  ASSUME NEW blocks, DOMAIN blocks \subseteq Nat \ {0},
         \A b \in DOMAIN blocks : blocks[b] \in Block,
         NEW root \in Node, IsTree(blocks, root)
  PROVE  /\ \A b \in ToSet(ResolveNode(blocks, root)) :
              b \in Places(blocks) /\ NodeAt(blocks, root, b) \in Nodes(blocks, root)
         /\ \A n \in Nodes(blocks, root) :
              \E b \in ToSet(ResolveNode(blocks, root)) : NodeAt(blocks, root, b) = n
  <1> DEFINE M == MaxTreeDepth
             N == Nodes(blocks, root)
             D == Places(blocks)
             R == Reachable(blocks)
             At(b) == NodeAt(blocks, root, b)
             Closed(s) == \A b \in ToSet(s) :
                            /\ b \in D /\ At(b) \in N
                            /\ At(b).depth > 0 => ToSet(At(b).children) \subseteq ToSet(s)
             Good(f, d) == \A x \in D : At(x) \in N /\ At(x).depth = d =>
                             x \in ToSet(f[d][x]) /\ Closed(f[d][x])
  <1>1. PICK f \in [0..M -> [D -> Seq(R)]] :
          IsResolved(f, blocks, root) /\ ResolveNode(blocks, root) = f[DepthOf(root)][0]
    BY ResolveFacts
  <1>2. M \in Nat /\ root.depth \in 0..M /\ DepthOf(root) = root.depth
    BY ExtentAssumption DEF IsTree, Node, DepthOf
  <1>3. /\ root \in N /\ N \subseteq Node
        /\ \A n \in N : n.depth > 0 => Below(blocks, n) \subseteq N
        /\ \A S : root \in S /\ (\A n \in S : n.depth > 0 => Below(blocks, n) \subseteq S)
              => N \subseteq S
    BY TreeFacts
  <1>4. \A n \in N : /\ n.valid /\ n.depth \in Nat
                     /\ n.depth > 0 => /\ ToSet(n.children) \subseteq DOMAIN blocks
                                       /\ \A b \in ToSet(n.children) :
                                            blocks[b].node.depth = n.depth - 1
    BY <1>3 DEF IsTree, Node
  <1>5. ASSUME NEW b \in DOMAIN blocks PROVE b \in D /\ At(b) = blocks[b].node
    BY DEF Places, NodeAt
  <1>6. 0 \in D /\ At(0) = root
    BY DEF Places, NodeAt
  <1>7. ASSUME NEW d \in 0..M PROVE f[d] = Level(blocks, root, d, f[d - 1])
    BY <1>1, <1>7 DEF IsResolved
  <1>8. \A x : ToSet(<<x>>) = {x}
    BY DEF ToSet
  <1>9. ASSUME NEW x \in D, At(x) \in N, At(x).depth = 0, NEW d \in 0..M
        PROVE  f[d][x] = <<x>>
    <2>1. f[d] = Level(blocks, root, d, f[d - 1])
      BY <1>7
    <2>2. \A below : Level(blocks, root, d, below)[x] = <<x>>
      BY <1>9 DEF Level
    <2> QED
      BY <2>1, <2>2
  <1>10. ASSUME NEW d \in 0..(M - 1), Good(f, d),
                NEW x \in D, At(x) \in N, At(x).depth = d + 1
         PROVE  x \in ToSet(f[d + 1][x]) /\ Closed(f[d + 1][x])
    <2> DEFINE c == At(x).children
               parts == Parts(blocks, c, f[d])
    <2>1. d + 1 \in 0..M /\ d \in 0..M /\ d + 1 - 1 = d /\ d + 1 > 0
      BY <1>2
    <2>2. f[d + 1][x] = <<x>> \o FlattenSeq(parts)
      <3>1. At(x).valid /\ At(x).depth > 0
        BY <1>4, <1>10
      <3>2. f[d + 1] = Level(blocks, root, d + 1, f[d])
        BY <1>7, <2>1
      <3> QED
        BY <2>1, <3>1, <3>2, LevelIs
    <2>3. c \in Seq(Nat) /\ ToSet(c) \subseteq DOMAIN blocks
          /\ \A b \in ToSet(c) : blocks[b].node.depth = d /\ blocks[b].node \in N
      <3>1. c \in Seq(Nat)
        BY <1>3, <1>10 DEF Node
      <3>2. ToSet(c) \subseteq DOMAIN blocks /\ \A b \in ToSet(c) : blocks[b].node.depth = d
        <4>1. At(x).depth > 0 /\ At(x).depth - 1 = d
          BY <1>10
        <4> QED
          BY <1>4, <1>10, <4>1
      <3>3. Below(blocks, At(x)) \subseteq N
        <4>1. At(x).depth > 0
          BY <1>10
        <4> QED
          BY <1>3, <1>10, <4>1
      <3> QED
        BY <3>1, <3>2, <3>3 DEF Below
    <2> HIDE DEF c, Good, N
    <2>4. Len(c) \in Nat /\ DOMAIN c = 1..Len(c)
      BY <2>3
    <2>5. ASSUME NEW i \in 1..Len(c)
          PROVE  c[i] \in D /\ parts[i] = f[d][c[i]] /\ At(c[i]).depth = d /\ At(c[i]) \in N
                 /\ c[i] \in ToSet(c) /\ f[d][c[i]] \in Seq(R)
      <3>1. c[i] \in ToSet(c)
        BY <2>4 DEF ToSet
      <3>2. c[i] \in DOMAIN blocks /\ parts[i] = f[d][c[i]]
        BY <2>3, <2>4, <3>1 DEF Parts
      <3>3. f[d] \in [D -> Seq(R)]
        BY <1>1, <2>1
      <3> QED
        BY <1>5, <2>3, <3>1, <3>2, <3>3
    <2>6. parts \in Seq(Seq(R)) /\ DOMAIN parts = 1..Len(c)
      <3>1. DOMAIN parts = 1..Len(c) /\ \A i \in 1..Len(c) : parts[i] \in Seq(R)
        BY <2>4, <2>5 DEF Parts
      <3>2. parts = [i \in 1..Len(c) |-> parts[i]]
        BY <2>4 DEF Parts
      <3> HIDE DEF parts, R
      <3>3. parts \in [1..Len(c) -> Seq(R)]
        BY <3>1, <3>2
      <3> QED
        BY <2>4, <3>1, <3>3, SeqDef
    <2> HIDE DEF parts
    <2>7. FlattenSeq(parts) \in Seq(R)
          /\ ToSet(FlattenSeq(parts)) = UNION {ToSet(parts[i]) : i \in 1..Len(c)}
      BY <2>6, FlattenFacts
    <2>8. ToSet(f[d + 1][x]) = {x} \cup UNION {ToSet(f[d][c[i]]) : i \in 1..Len(c)}
      <3>1. <<x>> \in Seq(R)
        BY DEF Reachable
      <3>2. ToSet(f[d + 1][x]) = ToSet(<<x>>) \cup ToSet(FlattenSeq(parts))
        <4>1. PICK s \in Seq(R), t \in Seq(R) : s = <<x>> /\ t = FlattenSeq(parts)
          BY <2>7, <3>1
        <4>2. ToSet(s \o t) = ToSet(s) \cup ToSet(t)
          <5> HIDE DEF R
          <5> QED
            BY ToSetConcat
        <4> QED
          BY <2>2, <4>1, <4>2
      <3> QED
        BY <1>8, <2>5, <2>7, <3>2
    <2>9. ASSUME NEW i \in 1..Len(c)
          PROVE  c[i] \in ToSet(f[d][c[i]]) /\ Closed(f[d][c[i]])
      BY <1>10, <2>5 DEF Good
    <2>10. ToSet(c) = {c[i] : i \in 1..Len(c)}
      BY <2>4 DEF ToSet
    <2>11. ASSUME NEW b \in ToSet(f[d + 1][x])
           PROVE  /\ b \in D /\ At(b) \in N
                  /\ At(b).depth > 0 => ToSet(At(b).children) \subseteq ToSet(f[d + 1][x])
      <3>1. CASE b = x
        <4>1. ToSet(c) \subseteq ToSet(f[d + 1][x])
          BY <2>8, <2>9, <2>10
        <4> QED
          BY <1>10, <3>1, <4>1 DEF c
      <3>2. ASSUME NEW i \in 1..Len(c), b \in ToSet(f[d][c[i]]) 
            PROVE  /\ b \in D /\ At(b) \in N
                   /\ At(b).depth > 0 => ToSet(At(b).children) \subseteq ToSet(f[d + 1][x])
        <4>1. ToSet(f[d][c[i]]) \subseteq ToSet(f[d + 1][x])
          BY <2>8
        <4> QED
          BY <2>9, <3>2, <4>1
      <3> QED
        BY <2>8, <3>1, <3>2
    <2> QED
      BY <2>8, <2>11
  <1>11. ASSUME NEW d \in 0..M PROVE Good(f, d)
    <2> DEFINE Z == {k \in 0..M : Good(f, k)}
    <2>1. 0 \in Z
      <3>1. ASSUME NEW x \in D, At(x) \in N, At(x).depth = 0
            PROVE  x \in ToSet(f[0][x]) /\ Closed(f[0][x])
        <4>1. f[0][x] = <<x>>
          BY <1>2, <1>9, <3>1
        <4> QED
          BY <1>8, <3>1, <4>1
      <3>2. Good(f, 0)
        BY <3>1
      <3> HIDE DEF Good
      <3> QED
        BY <1>2, <3>2
    <2>2. ASSUME NEW k \in 0..(d - 1), k \in Z PROVE k + 1 \in Z
      <3>1. k \in 0..(M - 1) /\ k + 1 \in 0..M /\ Good(f, k)
        <4> HIDE DEF Good
        <4> QED
          BY <1>2, <2>2
      <3>2. Good(f, k + 1)
        <4> HIDE DEF Closed, N, D, At
        <4> QED
          BY <1>10, <3>1
      <3> HIDE DEF Good
      <3> QED
        BY <3>1, <3>2
    <2>3. d \in Nat
      BY <1>2
    <2> HIDE DEF Z
    <2>4. d \in Z
      BY <2>1, <2>2, <2>3, SetInduction
    <2> QED
      BY <2>4 DEF Z
  <1> DEFINE reached == ToSet(ResolveNode(blocks, root))
             S == {n \in N : \E b \in reached : At(b) = n}
  <1>12. 0 \in reached /\ Closed(ResolveNode(blocks, root))
    <2>1. Good(f, root.depth)
      BY <1>2, <1>11
    <2>2. ResolveNode(blocks, root) = f[root.depth][0]
      BY <1>1, <1>2
    <2>3. 0 \in D /\ At(0) \in N /\ At(0).depth = root.depth
      BY <1>3, <1>6
    <2> HIDE DEF D, At, N, Closed
    <2> QED
      BY <2>1, <2>2, <2>3
  <1>13. N \subseteq S
    <2>1. root \in S
      BY <1>3, <1>6, <1>12
    <2>2. ASSUME NEW n \in S, n.depth > 0 PROVE Below(blocks, n) \subseteq S
      <3>1. PICK b \in reached : At(b) = n
        OBVIOUS
      <3>2. ToSet(n.children) \subseteq reached /\ ToSet(n.children) \subseteq DOMAIN blocks
        BY <1>4, <1>12, <2>2, <3>1
      <3>3. Below(blocks, n) \subseteq N
        BY <1>3, <2>2
      <3> QED
        BY <1>5, <3>2, <3>3 DEF Below
    <2> HIDE DEF S
    <2> QED
      BY <1>3, <2>1, <2>2
  <1> QED
    BY <1>12, <1>13

(* So of a well-formed tree no extent is lost.                             *)
LEMMA TreeIsResolvedInFull ==
  ASSUME NEW blocks, DOMAIN blocks \subseteq Nat \ {0},
         \A b \in DOMAIN blocks : blocks[b] \in Block, NEW root \in Node
  PROVE  ResolvesTree(blocks, root)
  <1> SUFFICES ASSUME IsTree(blocks, root) PROVE ResolvesTree(blocks, root)
    BY DEF ResolvesTree
  <1> DEFINE N == Nodes(blocks, root)
             reached == ToSet(ResolveNode(blocks, root))
             At(b) == NodeAt(blocks, root, b)
  <1>1. /\ \A b \in reached : b \in Places(blocks) /\ At(b) \in N
        /\ \A n \in N : \E b \in reached : At(b) = n
    BY TreeIsResolved
  <1>2. \A n \in N : n.valid /\ ~n.cut
    BY DEF IsTree
  <1>3. ~Fails(blocks, root, ResolveNode(blocks, root))
    <2>1. Unreadable \notin Places(blocks)
      BY DEF Places, Unreadable
    <2> QED
      BY <1>1, <1>2, <2>1 DEF Fails
  <1>4. /\ ToSet(ResolveExtents(blocks, root)) = Collected(blocks, root)
        /\ \A i, j \in DOMAIN ResolveExtents(blocks, root) :
             i < j => ResolveExtents(blocks, root)[i].logical
                        <= ResolveExtents(blocks, root)[j].logical
    BY <1>3, ExtentsFacts
  <1>5. Collected(blocks, root) = UNION {ToSet(ExtentsAt(At(b))) : b \in reached}
    BY DEF Collected
  <1>6. \A n \in N : ToSet(ExtentsAt(n)) = IF n.depth = 0 THEN ToSet(n.extents) ELSE {}
    BY <1>2 DEF ExtentsAt, ToSet
  <1> HIDE DEF N, reached, At
  <1>7. Collected(blocks, root) = UNION {ToSet(n.extents) : n \in {m \in N : m.depth = 0}}
    <2>1. {At(b) : b \in reached} = N
      BY <1>1
    <2>2. Collected(blocks, root) = UNION {ToSet(ExtentsAt(n)) : n \in N}
      BY <1>5, <2>1
    <2> QED
      BY <1>6, <2>2
  <1> QED
    BY <1>4, <1>7 DEF ResolvesTree, N

-----------------------------------------------------------------------------
(* The layout that is made of the extents.                                 *)
Placed == [kind : {"physical", "sparse"}, logicalStart : Nat, count : Nat,
           region : [clusterStart : Nat, clusterEnd : Int, sectorStart : Int, sectorEnd : Int]]

InLogicalOrder(extents) ==
  \A i, j \in DOMAIN extents : i < j => extents[i].logical <= extents[j].logical

EndOf(e) == e.logical + e.length

(* What a segment claims of its blocks is true of all the extents.         *)
IsOfMap(s, extents) ==
  IF s.kind = "physical"
    THEN \E j \in DOMAIN extents :
           /\ extents[j].initialized /\ s.logicalStart = extents[j].logical
           /\ s.count = extents[j].length /\ s.region = RegionForExtent(extents[j])
    ELSE \A k \in Nat : \A j \in DOMAIN extents :
           CoversBlock(s, k) /\ Covers(extents[j], k) => ~extents[j].initialized

IsContiguous(layout) ==
  /\ layout # << >> => layout[1].logicalStart = 0
  /\ \A i \in 2..Len(layout) :
       layout[i].logicalStart = layout[i - 1].logicalStart + layout[i - 1].count

(* The first n extents are laid out.                                       *)
LaidOut(layout, extents, n) ==
  /\ layout \in Seq(Placed) /\ IsContiguous(layout)
  /\ \A i \in DOMAIN layout : IsOfMap(layout[i], extents)
  /\ \A j \in 1..n : extents[j].length > 0 => EndOf(extents[j]) <= NextBlock(layout)
  /\ \/ NextBlock(layout) = 0
     \/ \E j \in 1..n : extents[j].length > 0 /\ NextBlock(layout) = EndOf(extents[j])

LEMMA NextBlockTyped ==
  ASSUME NEW layout \in Seq(Placed)
  PROVE  /\ NextBlock(layout) \in Nat /\ Len(layout) \in Nat /\ DOMAIN layout = 1..Len(layout)
         /\ layout # << >> =>
              /\ Len(layout) \in 1..Len(layout)
              /\ NextBlock(layout) = layout[Len(layout)].logicalStart + layout[Len(layout)].count
  <1>1. Len(layout) \in Nat /\ DOMAIN layout = 1..Len(layout)
    BY LenProperties
  <1>2. CASE layout = << >>
    BY <1>1, <1>2 DEF NextBlock
  <1>3. CASE layout # << >>
    <2>1. Len(layout) \in 1..Len(layout)
      BY <1>1, <1>3, EmptySeq
    <2>2. layout[Len(layout)] \in Placed
      BY <1>1, <2>1, ElementOfSeq
    <2> QED
      BY <1>1, <1>3, <2>1, <2>2 DEF NextBlock, Last, Placed
  <1> QED
    BY <1>2, <1>3

(* One segment more. *)
LEMMA SegmentAdded ==
  ASSUME NEW layout \in Seq(Placed), IsContiguous(layout), NEW extents,
         \A i \in DOMAIN layout : IsOfMap(layout[i], extents),
         NEW s \in Placed, s.logicalStart = NextBlock(layout), IsOfMap(s, extents)
  PROVE  /\ Append(layout, s) \in Seq(Placed) /\ IsContiguous(Append(layout, s))
         /\ \A i \in DOMAIN Append(layout, s) : IsOfMap(Append(layout, s)[i], extents)
         /\ NextBlock(Append(layout, s)) = s.logicalStart + s.count
  <1>1. PICK m \in Nat : m = Len(layout)
    BY LenProperties
  <1>2. PICK more : more = Append(layout, s)
    OBVIOUS
  <1>3. /\ more \in Seq(Placed) /\ Len(more) = m + 1 /\ more[m + 1] = s
        /\ \A i \in 1..m : more[i] = layout[i]
    BY <1>1, <1>2, AppendProperties
  <1>4. PICK l \in Nat : l = m + 1
    OBVIOUS
  <1>5. /\ DOMAIN more = 1..l /\ Len(more) = l /\ more[l] = s /\ more # << >>
        /\ DOMAIN layout = 1..m
    BY <1>1, <1>3, <1>4, LenProperties, EmptySeq
  <1>6. NextBlock(more) = s.logicalStart + s.count
    BY <1>3, <1>5, NextBlockTyped
  <1>7. \A i \in 1..l : IsOfMap(more[i], extents)
    <2>1. \A i \in 1..l : i \in 1..m \/ i = l
      BY <1>4
    <2> QED
      BY <1>3, <1>5, <2>1
  <1>8. IsContiguous(more)
    <2>1. CASE m = 0
      <3>1. l = 1 /\ layout = << >>
        <4>1. layout = << >>
          BY <1>1, <2>1, EmptySeq
        <4> QED
          BY <1>4, <2>1, <4>1
      <3>2. s.logicalStart = 0
        BY <3>1 DEF NextBlock
      <3> QED
        BY <1>5, <3>1, <3>2 DEF IsContiguous
    <2>2. CASE m # 0
      <3>1. layout # << >> /\ m \in 1..m /\ 1 \in 1..m
        BY <1>1, <2>2, EmptySeq
      <3>2. more[1].logicalStart = 0
        BY <1>3, <3>1 DEF IsContiguous
      <3>3. ASSUME NEW i \in 2..l
            PROVE  more[i].logicalStart = more[i - 1].logicalStart + more[i - 1].count
        <4>1. CASE i = l
          <5>1. i - 1 = m /\ more[i] = s /\ more[m] = layout[m]
            BY <1>3, <1>4, <1>5, <3>1, <4>1
          <5>2. NextBlock(layout) = layout[m].logicalStart + layout[m].count
            BY <1>1, <3>1, NextBlockTyped
          <5> QED
            BY <5>1, <5>2
        <4>2. CASE i # l
          <5>1. i \in 2..m /\ i \in 1..m /\ i - 1 \in 1..m
            BY <1>4, <4>2
          <5> QED
            BY <1>1, <1>3, <5>1 DEF IsContiguous
        <4> QED
          BY <4>1, <4>2
      <3> QED
        BY <1>5, <3>2, <3>3 DEF IsContiguous
    <2> QED
      BY <2>1, <2>2
  <1> QED
    BY <1>2, <1>3, <1>5, <1>6, <1>7, <1>8

LEMMA RegionTyped ==
  ASSUME NEW e \in Extent
  PROVE  /\ RegionForExtent(e) \in [clusterStart : Nat, clusterEnd : Int,
                                    sectorStart : Int, sectorEnd : Int]
         /\ RegionForExtent(e).sectorStart = e.physical * SectorsPerBlock
  <1>1. PICK p \in Nat, l \in Nat, S \in Nat :
          p = e.physical /\ l = e.length /\ S = SectorsPerBlock
    BY ExtentAssumption DEF Extent
  <1>2. p * S \in Int /\ (p + l) * S \in Int
    OBVIOUS
  <1>3. RegionForExtent(e) = [clusterStart |-> p, clusterEnd |-> p + l - 1,
                              sectorStart |-> p * S, sectorEnd |-> (p + l) * S - 1]
    BY <1>1 DEF RegionForExtent
  <1> QED
    BY <1>1, <1>2, <1>3

(* An extent that begins where the layout ends, or after a hole.           *)
LEMMA ExtentAdded ==
  ASSUME NEW extents \in Seq(Extent), InLogicalOrder(extents), Disjoint(extents),
         NEW n \in 0..(Len(extents) - 1), NEW layout, LaidOut(layout, extents, n)
  PROVE  LaidOut(AddExtent(layout, extents[n + 1]), extents, n + 1)
  <1>1. PICK m \in DOMAIN extents : m = n + 1 /\ m \in Nat /\ \A j \in 1..m : j \in 1..n \/ j = m
    BY LenProperties
  <1>2. DOMAIN extents = 1..Len(extents) /\ Len(extents) \in Nat
        /\ \A j \in DOMAIN extents : extents[j] \in Extent
    BY LenProperties, ElementOfSeq
  <1>3. PICK e \in Extent : e = extents[m]
    BY <1>2
  <1>4. PICK a \in Nat, b \in Nat : a = e.logical /\ b = e.length
    BY DEF Extent
  <1>5. PICK next \in Nat : next = NextBlock(layout)
    BY NextBlockTyped DEF LaidOut
  <1>6. \A j \in DOMAIN extents : /\ extents[j].logical \in Nat /\ extents[j].length \in Nat
                                  /\ extents[j].initialized \in BOOLEAN
    BY <1>2 DEF Extent
  <1>7. LaidOut(layout, extents, n)
    OBVIOUS
  <1>8. CASE b = 0
    <2>1. AddExtent(layout, e) = layout
      BY <1>4, <1>8 DEF AddExtent
    <2>2. \A j \in 1..m : extents[j].length > 0 => EndOf(extents[j]) <= next
      <3>1. \A j \in 1..n : extents[j].length > 0 => EndOf(extents[j]) <= next
        BY <1>5, <1>7 DEF LaidOut
      <3>2. ~(extents[m].length > 0)
        BY <1>3, <1>4, <1>8
      <3> QED
        BY <1>1, <3>1, <3>2
    <2>3. next = 0 \/ \E j \in 1..m : extents[j].length > 0 /\ next = EndOf(extents[j])
      BY <1>1, <1>5, <1>7 DEF LaidOut
    <2>4. LaidOut(layout, extents, m)
      BY <1>5, <1>7, <2>2, <2>3 DEF LaidOut
    <2> QED
      BY <1>1, <1>3, <2>1, <2>4
  <1>9. CASE b # 0
    <2>1. next <= a
      <3>1. ASSUME NEW j \in 1..n, extents[j].length > 0, next = EndOf(extents[j])
            PROVE  next <= a
        <4>1. j \in DOMAIN extents /\ j < m /\ j # m
          BY <1>1, <1>2
        <4>2. PICK c \in Nat, d \in Nat : c = extents[j].logical /\ d = extents[j].length
          BY <1>6, <4>1
        <4>3. c <= a
          BY <1>3, <1>4, <4>1, <4>2 DEF InLogicalOrder
        <4>4. c + d <= a \/ a + b <= c
          BY <1>3, <1>4, <4>1, <4>2 DEF Disjoint
        <4> QED
          BY <1>9, <3>1, <4>2, <4>3, <4>4 DEF EndOf
      <3> QED
        BY <1>5, <1>7, <3>1 DEF LaidOut
    <2> DEFINE hole == Segment("sparse", next, a - next, NoRegion)
               Body(start) == IF e.initialized
                                THEN Segment("physical", start, b, RegionForExtent(e))
                                ELSE Segment("sparse", start, b, NoRegion)
    <2>2. PICK before \in Seq(Placed) :
            /\ before = layout \o Hole(layout, e)
            /\ IsContiguous(before) /\ NextBlock(before) = a
            /\ \A i \in DOMAIN before : IsOfMap(before[i], extents)
      <3>1. layout \in Seq(Placed) /\ IsContiguous(layout)
            /\ \A i \in DOMAIN layout : IsOfMap(layout[i], extents)
        BY <1>7 DEF LaidOut
      <3>2. CASE next = a
        <4>1. Hole(layout, e) = << >>
          BY <1>4, <1>5, <3>2 DEF Hole
        <4>2. layout \o << >> = layout
          BY <3>1, ConcatEmptySeq
        <4> QED
          BY <1>5, <3>1, <3>2, <4>1, <4>2
      <3>3. CASE next # a
        <4>1. Hole(layout, e) = <<hole>>
          BY <1>4, <1>5, <2>1, <3>3 DEF Hole
        <4>2. /\ hole \in Placed /\ hole.kind = "sparse"
              /\ hole.logicalStart = next /\ hole.count = a - next
          BY <2>1 DEF Segment, NoRegion, Placed
        <4> HIDE DEF hole
        <4>3. IsOfMap(hole, extents)
          <5>1. ASSUME NEW k \in Nat, NEW j \in DOMAIN extents,
                       CoversBlock(hole, k), Covers(extents[j], k)
                PROVE  FALSE
            <6>1. next <= k /\ k < a
              BY <2>1, <4>2, <5>1 DEF CoversBlock
            <6>2. PICK c \in Nat, d \in Nat : c = extents[j].logical /\ d = extents[j].length
              BY <1>6
            <6>3. c <= k /\ k < c + d
              BY <5>1, <6>2 DEF Covers
            <6>4. CASE j \in 1..n
              <7>1. c + d <= next
                BY <1>5, <1>7, <6>2, <6>3, <6>4 DEF LaidOut, EndOf
              <7> QED
                BY <6>1, <6>3, <7>1
            <6>5. CASE j \notin 1..n
              <7>1. j = m \/ m < j
                BY <1>1, <1>2, <6>5
              <7>2. a <= c
                BY <1>3, <1>4, <6>2, <7>1 DEF InLogicalOrder
              <7> QED
                BY <6>1, <6>3, <7>2
            <6> QED
              BY <6>4, <6>5
          <5> QED
            BY <4>2, <5>1 DEF IsOfMap
        <4>4. layout \o <<hole>> = Append(layout, hole)
          BY <3>1, <4>2, AppendIsConcat
        <4>5. hole.logicalStart + hole.count = a
          BY <2>1, <4>2
        <4> QED
          BY <1>5, <3>1, <4>1, <4>2, <4>3, <4>4, <4>5, SegmentAdded
      <3> QED
        BY <3>2, <3>3
    <2>3. AddExtent(layout, e) = Append(before, Body(a))
      BY <1>4, <1>9, <2>2 DEF AddExtent
    <2>4. PICK body : body = Body(a)
      OBVIOUS
    <2>5. /\ body \in Placed /\ body.logicalStart = a /\ body.count = b
          /\ e.initialized => body.kind = "physical" /\ body.region = RegionForExtent(e)
          /\ ~e.initialized => body.kind = "sparse"
      <3>1. CASE e.initialized
        <4>1. PICK r : r = RegionForExtent(e)
          OBVIOUS
        <4>2. body = [kind |-> "physical", logicalStart |-> a, count |-> b, region |-> r]
          BY <2>4, <3>1, <4>1 DEF Segment
        <4> QED
          BY <3>1, <4>1, <4>2, RegionTyped DEF Placed
      <3>2. CASE ~e.initialized
        <4>1. body = [kind |-> "sparse", logicalStart |-> a, count |-> b, region |-> NoRegion]
          BY <2>4, <3>2 DEF Segment
        <4> QED
          BY <3>2, <4>1 DEF Placed, NoRegion
      <3> QED
        BY <3>1, <3>2
    <2> HIDE DEF Body, hole
    <2>6. IsOfMap(body, extents)
      <3>1. CASE e.initialized
        BY <1>3, <1>4, <2>5, <3>1 DEF IsOfMap
      <3>2. CASE ~e.initialized
        <4>1. ASSUME NEW k \in Nat, NEW j \in DOMAIN extents,
                     CoversBlock(body, k), Covers(extents[j], k)
              PROVE  ~extents[j].initialized
          <5>1. a <= k /\ k < a + b
            BY <2>5, <4>1 DEF CoversBlock
          <5>2. PICK c \in Nat, d \in Nat : c = extents[j].logical /\ d = extents[j].length
            BY <1>6
          <5>3. c <= k /\ k < c + d
            BY <4>1, <5>2 DEF Covers
          <5>4. j # m => c + d <= a \/ a + b <= c
            BY <1>3, <1>4, <5>2 DEF Disjoint
          <5>5. j = m
            BY <5>1, <5>3, <5>4
          <5> QED
            BY <1>3, <3>2, <5>5
        <4> QED
          BY <2>5, <3>2, <4>1 DEF IsOfMap
      <3> QED
        BY <3>1, <3>2
    <2>7. PICK more : more = Append(before, body)
      OBVIOUS
    <2>8. /\ more \in Seq(Placed) /\ IsContiguous(more)
          /\ \A i \in DOMAIN more : IsOfMap(more[i], extents)
          /\ NextBlock(more) = a + b
      BY <2>2, <2>5, <2>6, <2>7, SegmentAdded
    <2>9. ASSUME NEW j \in 1..m, extents[j].length > 0 PROVE EndOf(extents[j]) <= a + b
      <3>1. CASE j = m
        BY <1>3, <1>4, <3>1 DEF EndOf
      <3>2. CASE j # m
        <4>1. j \in 1..n /\ j \in DOMAIN extents
          BY <1>1, <1>2, <3>2
        <4>2. PICK c \in Nat, d \in Nat : c = extents[j].logical /\ d = extents[j].length
          BY <1>6, <4>1
        <4>3. c + d <= next
          BY <1>5, <1>7, <2>9, <4>1, <4>2 DEF LaidOut, EndOf
        <4>4. c + d <= a + b
          BY <2>1, <4>3
        <4> QED
          BY <4>2, <4>4 DEF EndOf
      <3> QED
        BY <3>1, <3>2
    <2>10. \E j \in 1..m : extents[j].length > 0 /\ a + b = EndOf(extents[j])
      <3>1. m \in 1..m /\ e.length > 0
        BY <1>1, <1>4, <1>9
      <3> QED
        BY <1>3, <1>4, <3>1 DEF EndOf
    <2>11. LaidOut(more, extents, m)
      BY <2>8, <2>9, <2>10 DEF LaidOut
    <2>12. AddExtent(layout, e) = more
      BY <2>3, <2>4, <2>7
    <2> QED
      BY <1>1, <1>3, <2>11, <2>12
  <1> QED
    BY <1>8, <1>9

LEMMA AddExtentTyped ==
  ASSUME NEW layout \in Seq(Placed), NEW e \in Extent
  PROVE  AddExtent(layout, e) \in Seq(Placed)
  <1>1. PICK a \in Nat, b \in Nat, next \in Nat :
          a = e.logical /\ b = e.length /\ next = NextBlock(layout)
    BY NextBlockTyped DEF Extent
  <1> DEFINE before == layout \o Hole(layout, e)
  <1>2. before \in Seq(Placed)
    <2>1. Hole(layout, e) \in Seq(Placed)
      <3>1. CASE a > next
        <4>1. PICK hole : hole = Segment("sparse", next, a - next, NoRegion)
          OBVIOUS
        <4>2. hole \in Placed
          BY <3>1, <4>1 DEF Segment, NoRegion, Placed
        <4>3. Hole(layout, e) = <<hole>>
          BY <1>1, <3>1, <4>1 DEF Hole
        <4> QED
          BY <4>2, <4>3
      <3>2. CASE ~(a > next)
        BY <1>1, <3>2 DEF Hole
      <3> QED
        BY <3>1, <3>2
    <2> QED
      BY <2>1, ConcatProperties
  <1> HIDE DEF before
  <1>3. PICK start \in Nat : start = NextBlock(before)
    BY <1>2, NextBlockTyped
  <1>4. PICK body : body = IF e.initialized
                             THEN Segment("physical", start, b, RegionForExtent(e))
                             ELSE Segment("sparse", start, b, NoRegion)
    OBVIOUS
  <1>5. body \in Placed
    <2>1. RegionForExtent(e) \in [clusterStart : Nat, clusterEnd : Int,
                                  sectorStart : Int, sectorEnd : Int]
      BY RegionTyped
    <2>2. PICK r : r = RegionForExtent(e)
      OBVIOUS
    <2>3. Segment("physical", start, b, r) \in Placed
      BY <2>1, <2>2 DEF Segment, Placed
    <2>4. Segment("sparse", start, b, NoRegion) \in Placed
      BY DEF Segment, Placed, NoRegion
    <2> QED
      BY <1>4, <2>2, <2>3, <2>4
  <1>6. AddExtent(layout, e) = IF b = 0 THEN layout ELSE Append(before, body)
    BY <1>1, <1>3, <1>4 DEF AddExtent, before
  <1>7. Append(before, body) \in Seq(Placed)
    BY <1>2, <1>5, AppendProperties
  <1> QED
    BY <1>6, <1>7

LEMMA ExtentsAreLaidOut ==
  ASSUME NEW extents \in Seq(Extent), InLogicalOrder(extents), Disjoint(extents)
  PROVE  LaidOut(ExtentLayout(extents), extents, Len(extents))
  <1> DEFINE X == Seq(Placed)
             n == Len(extents)
             Step == [i \in 1..n |-> [layout \in X |-> AddExtent(layout, extents[i])]]
             L(f) == f = [k \in 0..n |-> IF k = 0 THEN << >> ELSE AddExtent(f[k - 1], extents[k])]
             layout == CHOOSE f : L(f)
  <1>1. n \in Nat /\ \A i \in 1..n : extents[i] \in Extent
    BY LenProperties, ElementOfSeq
  <1>2. Step \in [1..n -> [X -> X]]
    <2> SUFFICES ASSUME NEW i \in 1..n, NEW s \in X PROVE AddExtent(s, extents[i]) \in X
      OBVIOUS
    <2> QED
      BY <1>1, AddExtentTyped
  <1>3. ASSUME NEW i \in 1..n, NEW s \in X PROVE Step[i][s] = AddExtent(s, extents[i])
    OBVIOUS
  <1>4. PICK e : e = << >>
    OBVIOUS
  <1>5. e \in X
    BY <1>4
  <1> HIDE DEF X, n, Step
  <1>6. PICK f \in [0..n -> X] : Computes(f, n, e, Step)
    BY <1>1, <1>2, <1>5, RecursionExists
  <1>7. ASSUME NEW k \in 0..n
        PROVE  f[k] = IF k = 0 THEN << >> ELSE AddExtent(f[k - 1], extents[k])
    <2>1. CASE k = 0
      BY <1>4, <1>6, <2>1 DEF Computes
    <2>2. CASE k # 0
      <3>1. k \in 1..n /\ k - 1 \in 0..n
        BY <1>1, <2>2
      <3>2. f[k] = Step[k][f[k - 1]] /\ f[k - 1] \in X
        BY <1>6, <3>1 DEF Computes
      <3> QED
        BY <1>3, <2>2, <3>1, <3>2
    <2> QED
      BY <2>1, <2>2
  <1>8. L(f)
    BY <1>7
  <1>9. L(layout)
    <2> HIDE DEF L
    <2> QED
      BY <1>8
  <1>10. ASSUME NEW k \in 0..n
         PROVE  layout[k] = IF k = 0 THEN << >> ELSE AddExtent(layout[k - 1], extents[k])
    <2> HIDE DEF layout
    <2> QED
      BY <1>9
  <1>11. ExtentLayout(extents) = layout[n]
    BY DEF ExtentLayout, n
  <1> HIDE DEF layout, L
  <1> DEFINE Z == {k \in 0..n : LaidOut(layout[k], extents, k)}
  <1>12. 0 \in Z
    <2>1. layout[0] = << >>
      BY <1>1, <1>10
    <2>2. LaidOut(<< >>, extents, 0)
      BY DEF LaidOut, IsContiguous, NextBlock
    <2> QED
      BY <1>1, <2>1, <2>2
  <1>13. ASSUME NEW k \in 0..(n - 1), k \in Z PROVE k + 1 \in Z
    <2>1. PICK m \in 1..n : m = k + 1
      BY <1>1
    <2>2. layout[m] = AddExtent(layout[k], extents[m])
      BY <1>1, <1>10, <2>1
    <2>3. LaidOut(layout[k], extents, k) /\ k \in 0..(Len(extents) - 1)
      BY <1>13 DEF n
    <2>4. LaidOut(layout[m], extents, m)
      BY <2>1, <2>2, <2>3, ExtentAdded
    <2> QED
      BY <1>1, <2>1, <2>4
  <1>14. n \in Z
    <2> HIDE DEF Z
    <2> QED
      BY <1>1, <1>12, <1>13, SetInduction
  <1> QED
    BY <1>11, <1>14 DEF n

(* So the layout follows the extents, block by block.                      *)
LEMMA LayoutIsFollowed ==
  ASSUME NEW extents \in Seq(Extent), InLogicalOrder(extents), Disjoint(extents)
  PROVE  LayoutFollows(ExtentLayout(extents), extents)
  <1>1. PICK layout : layout = ExtentLayout(extents)
    OBVIOUS
  <1>2. LaidOut(layout, extents, Len(extents))
    BY <1>1, ExtentsAreLaidOut
  <1>3. DOMAIN extents = 1..Len(extents) /\ \A j \in DOMAIN extents : extents[j] \in Extent
    BY LenProperties, ElementOfSeq
  <1>4. \A i \in DOMAIN layout : layout[i] \in Placed /\ IsOfMap(layout[i], extents)
    BY <1>2, LenProperties, ElementOfSeq DEF LaidOut
  <1>5. NextBlock(layout) \in Nat
    BY <1>2, NextBlockTyped DEF LaidOut
  <1>6. ASSUME NEW k \in 0..(NextBlock(layout) - 1), NEW i \in DOMAIN layout,
               CoversBlock(layout[i], k)
        PROVE  IF \E j \in DOMAIN extents : Covers(extents[j], k) /\ extents[j].initialized
                 THEN \E j \in DOMAIN extents :
                        /\ Covers(extents[j], k) /\ layout[i].kind = "physical"
                        /\ layout[i].region.sectorStart + (k - layout[i].logicalStart) * SectorsPerBlock
                             = (extents[j].physical + k - extents[j].logical) * SectorsPerBlock
                 ELSE layout[i].kind = "sparse"
    <2>1. k \in Nat
      BY <1>5
    <2>2. CASE layout[i].kind = "physical"
      <3>1. PICK j \in DOMAIN extents :
              /\ extents[j].initialized /\ layout[i].logicalStart = extents[j].logical
              /\ layout[i].count = extents[j].length
              /\ layout[i].region = RegionForExtent(extents[j])
        BY <1>4, <2>2 DEF IsOfMap
      <3>2. Covers(extents[j], k)
        BY <1>6, <3>1 DEF Covers, CoversBlock
      <3>3. PICK p \in Nat, l \in Nat, S \in Nat :
              p = extents[j].physical /\ l = extents[j].logical /\ S = SectorsPerBlock
        BY <1>3, ExtentAssumption DEF Extent
      <3>4. layout[i].region.sectorStart = p * S
        BY <1>3, <3>1, <3>3, RegionTyped
      <3>5. p * S + (k - l) * S = (p + k - l) * S
        BY <2>1
      <3> QED
        BY <2>2, <3>1, <3>2, <3>3, <3>4, <3>5
    <2>3. CASE layout[i].kind # "physical"
      <3>1. layout[i].kind = "sparse"
        BY <1>4, <2>3 DEF Placed
      <3>2. \A j \in DOMAIN extents : Covers(extents[j], k) => ~extents[j].initialized
        BY <1>4, <1>6, <2>1, <2>3 DEF IsOfMap
      <3> QED
        BY <3>1, <3>2
    <2> QED
      BY <2>2, <2>3
  <1>7. \A j \in DOMAIN extents :
          extents[j].length > 0 => extents[j].logical + extents[j].length <= NextBlock(layout)
    BY <1>2, <1>3 DEF LaidOut, EndOf
  <1>8. /\ layout # << >> => layout[1].logicalStart = 0
        /\ \A i \in 2..Len(layout) :
             layout[i].logicalStart = layout[i - 1].logicalStart + layout[i - 1].count
    BY <1>2 DEF LaidOut, IsContiguous
  <1> QED
    BY <1>1, <1>6, <1>7, <1>8 DEF LayoutFollows

-----------------------------------------------------------------------------
(* The blocks of a directory and the names in them.                        *)
LEMMA BlocksOfFacts ==
  ASSUME NEW e \in Extent
  PROVE  /\ BlocksOf(e) \in Seq(Nat) /\ Len(BlocksOf(e)) = e.length
         /\ \A i \in 1..e.length : BlocksOf(e)[i] = e.physical + i - 1
  <1>1. e.length \in Nat /\ e.physical \in Nat
    BY DEF Extent
  <1>2. BlocksOf(e) \in [1..e.length -> Nat]
    BY <1>1 DEF BlocksOf
  <1> QED
    BY <1>1, <1>2, SeqDef DEF BlocksOf

LEMMA AllBlocksFacts ==
  ASSUME NEW e \in Extent
  PROVE  /\ BlocksOf(e) \in Seq(Nat)
         /\ ToSet(BlocksOf(e)) = {b \in Nat : b - e.physical \in 0..(e.length - 1)}
  <1>1. e.length \in Nat /\ e.physical \in Nat
    BY DEF Extent
  <1>2. DOMAIN BlocksOf(e) = 1..e.length
    BY <1>1 DEF BlocksOf
  <1>3. \A i \in 1..e.length : BlocksOf(e)[i] = e.physical + i - 1
    BY BlocksOfFacts
  <1>4. ASSUME NEW b \in Nat, b - e.physical \in 0..(e.length - 1) PROVE b \in ToSet(BlocksOf(e))
    <2>1. PICK i \in 1..e.length : i = b - e.physical + 1
      BY <1>1, <1>4
    <2>2. BlocksOf(e)[i] = b
      BY <1>1, <1>3, <2>1
    <2> QED
      BY <1>2, <2>2 DEF ToSet
  <1>5. ASSUME NEW b \in ToSet(BlocksOf(e)) PROVE b \in Nat /\ b - e.physical \in 0..(e.length - 1)
    <2>1. PICK i \in 1..e.length : b = BlocksOf(e)[i]
      BY <1>2 DEF ToSet
    <2> QED
      BY <1>1, <1>3, <2>1
  <1> QED
    BY <1>4, <1>5, BlocksOfFacts

LEMMA BlocksBelowFacts ==
  ASSUME NEW e \in Extent, NEW size \in Nat
  PROVE  /\ BlocksBelow(e, size) \in Seq(Nat)
         /\ ToSet(BlocksBelow(e, size)) =
              {b \in Nat : /\ HoldsData(e) /\ b - e.physical \in 0..(e.length - 1)
                           /\ e.logical + b - e.physical < size}
  <1>1. e.length \in Nat /\ e.physical \in Nat /\ e.logical \in Nat
    BY DEF Extent
  <1> DEFINE all == BlocksOf(e)
             m == CASE ~HoldsData(e) \/ e.logical >= size -> 0
                    [] HoldsData(e) /\ e.logical < size /\ e.logical + e.length > size -> size - e.logical
                    [] OTHER -> e.length
  <1>2. /\ m \in 0..e.length
        /\ \A i \in 1..e.length : i <= m <=> HoldsData(e) /\ e.logical + i - 1 < size
    <2>1. CASE ~HoldsData(e) \/ e.logical >= size
      BY <1>1, <2>1
    <2>2. CASE HoldsData(e) /\ e.logical < size /\ e.logical + e.length > size
      BY <1>1, <2>2
    <2>3. CASE HoldsData(e) /\ e.logical < size /\ e.logical + e.length <= size
      BY <1>1, <2>3
    <2> QED
      BY <1>1, <2>1, <2>2, <2>3
  <1>3. all \in Seq(Nat) /\ Len(all) = e.length /\ \A i \in 1..e.length : all[i] = e.physical + i - 1
    BY BlocksOfFacts
  <1>4. BlocksBelow(e, size) = SubSeq(all, 1, m)
    BY DEF BlocksBelow
  <1> HIDE DEF all, m
  <1>5. /\ SubSeq(all, 1, m) \in Seq(Nat) /\ Len(SubSeq(all, 1, m)) = m
        /\ \A i \in 1..m : SubSeq(all, 1, m)[i] = all[i]
    <2>1. m \in Nat /\ m <= Len(all) /\ \A i \in 1..m : i \in 1..Len(all)
      BY <1>1, <1>2, <1>3
    <2>2. \A i \in 1..m : all[i] \in Nat
      BY <1>3, <2>1
    <2> QED
      BY <1>3, <2>1, <2>2, SubSeqProperties
  <1> DEFINE t == SubSeq(all, 1, m)
  <1>6. t \in Seq(Nat) /\ DOMAIN t = 1..m /\ \A i \in 1..m : t[i] = e.physical + i - 1
    BY <1>1, <1>2, <1>3, <1>5
  <1> HIDE DEF t
  <1>7. ASSUME NEW b \in ToSet(t)
        PROVE  /\ b \in Nat /\ HoldsData(e) /\ b - e.physical \in 0..(e.length - 1)
               /\ e.logical + b - e.physical < size
    <2>1. PICK i \in 1..m : b = t[i]
      BY <1>6 DEF ToSet
    <2>2. i \in 1..e.length /\ i <= m /\ b = e.physical + i - 1
      BY <1>1, <1>2, <1>6, <2>1
    <2>3. HoldsData(e) /\ e.logical + i - 1 < size
      BY <1>2, <2>2
    <2> QED
      BY <1>1, <2>2, <2>3
  <1>8. ASSUME NEW b \in Nat, HoldsData(e), b - e.physical \in 0..(e.length - 1),
               e.logical + b - e.physical < size
        PROVE  b \in ToSet(t)
    <2>1. PICK i \in 1..e.length : i = b - e.physical + 1
      BY <1>1, <1>8
    <2>2. e.logical + i - 1 < size
      BY <1>1, <1>8, <2>1
    <2>3. i <= m
      BY <1>2, <1>8, <2>2
    <2>4. i \in 1..m /\ t[i] = b
      BY <1>1, <1>2, <1>6, <2>1, <2>3
    <2> QED
      BY <1>6, <2>4 DEF ToSet
  <1>9. ToSet(t) = {b \in Nat : /\ HoldsData(e) /\ b - e.physical \in 0..(e.length - 1)
                                /\ e.logical + b - e.physical < size}
    BY <1>7, <1>8
  <1> QED
    BY <1>4, <1>6, <1>9 DEF t

LEMMA HeadersTyped ==
  ASSUME volume \in Volumes, NEW b
  PROVE  HeadersIn(b) \in Seq(Header) /\ ParsedIn(b) \in Seq(Header)
  BY VolumeFacts DEF HeadersIn, ParsedIn, Block

LEMMA OnlyIfFacts ==
  ASSUME NEW S, NEW x \in S, NEW test \in BOOLEAN
  PROVE  OnlyIf(test, x) \in Seq(S) /\ ToSet(OnlyIf(test, x)) = {y \in {x} : test}
  <1>1. CASE test
    <2>1. OnlyIf(test, x) = <<x>> /\ <<x>> \in Seq(S) /\ DOMAIN <<x>> = {1} /\ <<x>>[1] = x
      BY <1>1 DEF OnlyIf
    <2>2. ToSet(<<x>>) = {x} /\ {y \in {x} : test} = {x}
      BY <1>1, <2>1 DEF ToSet
    <2> QED
      BY <2>1, <2>2
  <1>2. CASE ~test
    <2>1. OnlyIf(test, x) = << >> /\ << >> \in Seq(S) /\ DOMAIN << >> = {}
      BY <1>2 DEF OnlyIf
    <2> QED
      BY <1>2, <2>1 DEF ToSet
  <1> QED
    BY <1>1, <1>2

LEMMA LiveInFacts ==
  ASSUME volume \in Volumes, NEW b
  PROVE  LiveIn(b) \in Seq(Header) /\ ToSet(LiveIn(b)) = {h \in ToSet(ParsedIn(b)) : IsLive(h)}
  <1> DEFINE s == ParsedIn(b)
             n == Len(s)
             g == [k \in 1..n |-> OnlyIf(IsLive(s[k]), s[k])]
             J(j) == j = [k \in 0..n |-> IF k = 0 THEN << >>
                                                  ELSE j[k - 1] \o OnlyIf(IsLive(s[k]), s[k])]
             c == CHOOSE j : J(j)
  <1>1. s \in Seq(Header) /\ n \in Nat /\ DOMAIN s = 1..n /\ \A k \in 1..n : s[k] \in Header
    <2>1. s \in Seq(Header)
      BY HeadersTyped
    <2> HIDE DEF s
    <2> QED
      BY <2>1
  <1>2. LiveIn(b) = c[n]
    BY DEF LiveIn, Concat
  <1> HIDE DEF s, n
  <1>3. ASSUME NEW k \in 1..n
        PROVE  g[k] \in Seq(Header) /\ ToSet(g[k]) = {h \in {s[k]} : IsLive(h)}
    <2>1. s[k] \in Header /\ IsLive(s[k]) \in BOOLEAN
      BY <1>1 DEF IsLive, IsNamed, Header
    <2>2. g[k] = OnlyIf(IsLive(s[k]), s[k])
      OBVIOUS
    <2>3. {y \in {s[k]} : IsLive(s[k])} = {h \in {s[k]} : IsLive(h)}
      OBVIOUS
    <2> HIDE DEF g
    <2> QED
      BY <2>1, <2>2, <2>3, OnlyIfFacts
  <1>4. g \in [1..n -> Seq(Header)]
    <2>1. g = [k \in 1..n |-> g[k]]
      OBVIOUS
    <2> HIDE DEF g
    <2> QED
      BY <1>3, <2>1
  <1>5. ASSUME NEW j PROVE J(j) <=> IsJoined(j, n, g)
    <2>1. \A k \in 0..n : k # 0 => g[k] = OnlyIf(IsLive(s[k]), s[k])
      BY <1>1
    <2> HIDE DEF g
    <2> QED
      BY <2>1 DEF IsJoined
  <1> HIDE DEF J, g
  <1>6. IsJoined(c, n, g)
    <2>1. PICK j : IsJoined(j, n, g)
      BY <1>1, <1>4, JoinedExists
    <2>2. J(j)
      BY <1>5, <2>1
    <2>3. J(c)
      BY <2>2
    <2> QED
      BY <1>5, <2>3
  <1> HIDE DEF c
  <1>7. c[n] \in Seq(Header) /\ ToSet(c[n]) = UNION {ToSet(g[k]) : k \in 1..n}
    BY <1>1, <1>4, <1>6, JoinedFacts
  <1>8. UNION {ToSet(g[k]) : k \in 1..n} = {h \in ToSet(s) : IsLive(h)}
    <2>1. ToSet(s) = {s[k] : k \in 1..n}
      BY <1>1 DEF ToSet
    <2>2. \A k \in 1..n : ToSet(g[k]) = {h \in {s[k]} : IsLive(h)}
      BY <1>3
    <2> QED
      BY <2>1, <2>2
  <1> QED
    BY <1>2, <1>7, <1>8 DEF s

LEMMA NamedInFacts ==
  ASSUME volume \in Volumes, NEW b
  PROVE  NamedIn(b) \in Seq(Header) /\ ToSet(NamedIn(b)) = {h \in ToSet(HeadersIn(b)) : IsNamed(h)}
  <1> DEFINE s == HeadersIn(b)
             n == Len(s)
             g == [k \in 1..n |-> OnlyIf(IsNamed(s[k]), s[k])]
             J(j) == j = [k \in 0..n |-> IF k = 0 THEN << >> ELSE j[k - 1] \o OnlyIf(IsNamed(s[k]), s[k])]
             c == CHOOSE j : J(j)
  <1>1. s \in Seq(Header) /\ n \in Nat /\ DOMAIN s = 1..n /\ \A k \in 1..n : s[k] \in Header
    <2>1. s \in Seq(Header)
      BY HeadersTyped
    <2> HIDE DEF s
    <2> QED
      BY <2>1
  <1>2. NamedIn(b) = c[n]
    BY DEF NamedIn, Concat
  <1> HIDE DEF s, n
  <1>3. ASSUME NEW k \in 1..n
        PROVE  g[k] \in Seq(Header) /\ ToSet(g[k]) = {h \in {s[k]} : IsNamed(h)}
    <2>1. s[k] \in Header /\ IsNamed(s[k]) \in BOOLEAN
      BY <1>1 DEF IsLive, IsNamed, Header
    <2>2. g[k] = OnlyIf(IsNamed(s[k]), s[k])
      OBVIOUS
    <2>3. {y \in {s[k]} : IsNamed(s[k])} = {h \in {s[k]} : IsNamed(h)}
      OBVIOUS
    <2> HIDE DEF g
    <2> QED
      BY <2>1, <2>2, <2>3, OnlyIfFacts
  <1>4. g \in [1..n -> Seq(Header)]
    <2>1. g = [k \in 1..n |-> g[k]]
      OBVIOUS
    <2> HIDE DEF g
    <2> QED
      BY <1>3, <2>1
  <1>5. ASSUME NEW j PROVE J(j) <=> IsJoined(j, n, g)
    <2>1. \A k \in 0..n : k # 0 => g[k] = OnlyIf(IsNamed(s[k]), s[k])
      BY <1>1
    <2> HIDE DEF g
    <2> QED
      BY <2>1 DEF IsJoined
  <1> HIDE DEF J, g
  <1>6. IsJoined(c, n, g)
    <2>1. PICK j : IsJoined(j, n, g)
      BY <1>1, <1>4, JoinedExists
    <2>2. J(j)
      BY <1>5, <2>1
    <2>3. J(c)
      BY <2>2
    <2> QED
      BY <1>5, <2>3
  <1> HIDE DEF c
  <1>7. c[n] \in Seq(Header) /\ ToSet(c[n]) = UNION {ToSet(g[k]) : k \in 1..n}
    BY <1>1, <1>4, <1>6, JoinedFacts
  <1>8. UNION {ToSet(g[k]) : k \in 1..n} = {h \in ToSet(s) : IsNamed(h)}
    <2>1. ToSet(s) = {s[k] : k \in 1..n}
      BY <1>1 DEF ToSet
    <2>2. \A k \in 1..n : ToSet(g[k]) = {h \in {s[k]} : IsNamed(h)}
      BY <1>3
    <2> QED
      BY <2>1, <2>2
  <1> QED
    BY <1>2, <1>7, <1>8 DEF s

(* The blocks that the extents of a directory reach with its size, and all *)
(* blocks of its extents.                                                  *)
IsHeld(e, b) == HoldsData(e) /\ b - e.physical \in 0..(e.length - 1)
IsReached(e, size, b) == IsHeld(e, b) /\ e.logical + b - e.physical < size

BlocksReached(size, extents) ==
  LET Blocks(e) == BlocksBelow(e, size) IN Concat(Blocks, extents)

BlocksHeld(extents) ==
  LET Blocks(e) == IF HoldsData(e) THEN BlocksOf(e) ELSE << >> IN Concat(Blocks, extents)

LEMMA BlocksReachedFacts ==
  ASSUME volume \in Volumes, NEW size \in Nat, NEW extents \in Seq(Extent)
  PROVE  BlocksReached(size, extents) \in Seq(Nat) /\ ToSet(BlocksReached(size, extents)) = {b \in Nat : \E e \in ToSet(extents) : IsReached(e, size, b)}
  <1> DEFINE s == extents
             n == Len(s)
             g == [k \in 1..n |-> BlocksBelow(s[k], size)]
             J(j) == j = [k \in 0..n |-> IF k = 0 THEN << >> ELSE j[k - 1] \o BlocksBelow(s[k], size)]
             c == CHOOSE j : J(j)
  <1>1. s \in Seq(Extent) /\ n \in Nat /\ DOMAIN s = 1..n /\ \A k \in 1..n : s[k] \in Extent
    <2>1. s \in Seq(Extent)
      OBVIOUS
    <2> HIDE DEF s
    <2> QED
      BY <2>1
  <1>2. BlocksReached(size, extents) = c[n]
    BY DEF BlocksReached, Concat
  <1> HIDE DEF s, n
  <1>3. ASSUME NEW k \in 1..n
        PROVE  g[k] \in Seq(Nat) /\ ToSet(g[k]) = {b \in Nat : IsReached(s[k], size, b)}
    <2>1. g[k] = BlocksBelow(s[k], size) /\ s[k] \in Extent
      BY <1>1
    <2> HIDE DEF g
    <2> QED
      BY <2>1, BlocksBelowFacts DEF IsReached, IsHeld
  <1>4. g \in [1..n -> Seq(Nat)]
    <2>1. g = [k \in 1..n |-> g[k]]
      OBVIOUS
    <2> HIDE DEF g
    <2> QED
      BY <1>3, <2>1
  <1>5. ASSUME NEW j PROVE J(j) <=> IsJoined(j, n, g)
    <2>1. \A k \in 0..n : k # 0 => g[k] = BlocksBelow(s[k], size)
      BY <1>1
    <2> HIDE DEF g
    <2> QED
      BY <2>1 DEF IsJoined
  <1> HIDE DEF J, g
  <1>6. IsJoined(c, n, g)
    <2>1. PICK j : IsJoined(j, n, g)
      BY <1>1, <1>4, JoinedExists
    <2>2. J(j)
      BY <1>5, <2>1
    <2>3. J(c)
      BY <2>2
    <2> QED
      BY <1>5, <2>3
  <1> HIDE DEF c
  <1>7. c[n] \in Seq(Nat) /\ ToSet(c[n]) = UNION {ToSet(g[k]) : k \in 1..n}
    BY <1>1, <1>4, <1>6, JoinedFacts
  <1>8. UNION {ToSet(g[k]) : k \in 1..n} = {b \in Nat : \E e \in ToSet(s) : IsReached(e, size, b)}
    <2>1. ToSet(s) = {s[k] : k \in 1..n}
      BY <1>1 DEF ToSet
    <2>2. \A k \in 1..n : ToSet(g[k]) = {b \in Nat : IsReached(s[k], size, b)}
      BY <1>3
    <2> QED
      BY <2>1, <2>2
  <1> QED
    BY <1>2, <1>7, <1>8 DEF s

LEMMA BlocksHeldFacts ==
  ASSUME volume \in Volumes, NEW extents \in Seq(Extent)
  PROVE  BlocksHeld(extents) \in Seq(Nat) /\ ToSet(BlocksHeld(extents)) = {b \in Nat : \E e \in ToSet(extents) : IsHeld(e, b)}
  <1> DEFINE s == extents
             n == Len(s)
             g == [k \in 1..n |-> (IF HoldsData(s[k]) THEN BlocksOf(s[k]) ELSE << >>)]
             J(j) == j = [k \in 0..n |-> IF k = 0 THEN << >> ELSE j[k - 1] \o (IF HoldsData(s[k]) THEN BlocksOf(s[k]) ELSE << >>)]
             c == CHOOSE j : J(j)
  <1>1. s \in Seq(Extent) /\ n \in Nat /\ DOMAIN s = 1..n /\ \A k \in 1..n : s[k] \in Extent
    <2>1. s \in Seq(Extent)
      OBVIOUS
    <2> HIDE DEF s
    <2> QED
      BY <2>1
  <1>2. BlocksHeld(extents) = c[n]
    BY DEF BlocksHeld, Concat
  <1> HIDE DEF s, n
  <1>3. ASSUME NEW k \in 1..n
        PROVE  g[k] \in Seq(Nat) /\ ToSet(g[k]) = {b \in Nat : IsHeld(s[k], b)}
    <2>1. g[k] = (IF HoldsData(s[k]) THEN BlocksOf(s[k]) ELSE << >>) /\ s[k] \in Extent
      BY <1>1
    <2>2. << >> \in Seq(Nat) /\ ToSet(<< >>) = {}
      BY DEF ToSet
    <2> HIDE DEF g
    <2> QED
      BY <2>1, <2>2, AllBlocksFacts DEF IsHeld
  <1>4. g \in [1..n -> Seq(Nat)]
    <2>1. g = [k \in 1..n |-> g[k]]
      OBVIOUS
    <2> HIDE DEF g
    <2> QED
      BY <1>3, <2>1
  <1>5. ASSUME NEW j PROVE J(j) <=> IsJoined(j, n, g)
    <2>1. \A k \in 0..n : k # 0 => g[k] = (IF HoldsData(s[k]) THEN BlocksOf(s[k]) ELSE << >>)
      BY <1>1
    <2> HIDE DEF g
    <2> QED
      BY <2>1 DEF IsJoined
  <1> HIDE DEF J, g
  <1>6. IsJoined(c, n, g)
    <2>1. PICK j : IsJoined(j, n, g)
      BY <1>1, <1>4, JoinedExists
    <2>2. J(j)
      BY <1>5, <2>1
    <2>3. J(c)
      BY <2>2
    <2> QED
      BY <1>5, <2>3
  <1> HIDE DEF c
  <1>7. c[n] \in Seq(Nat) /\ ToSet(c[n]) = UNION {ToSet(g[k]) : k \in 1..n}
    BY <1>1, <1>4, <1>6, JoinedFacts
  <1>8. UNION {ToSet(g[k]) : k \in 1..n} = {b \in Nat : \E e \in ToSet(s) : IsHeld(e, b)}
    <2>1. ToSet(s) = {s[k] : k \in 1..n}
      BY <1>1 DEF ToSet
    <2>2. \A k \in 1..n : ToSet(g[k]) = {b \in Nat : IsHeld(s[k], b)}
      BY <1>3
    <2> QED
      BY <2>1, <2>2
  <1> QED
    BY <1>2, <1>7, <1>8 DEF s

(* What read_directory_entries returns is what the directory names.        *)
LEMMA EntriesFacts ==
  ASSUME volume \in Volumes, NEW inode \in Inode, NEW extents \in Seq(Extent)
  PROVE  DirectoryEntries(inode, extents) \in Seq(Header) /\ ToSet(DirectoryEntries(inode, extents)) = {h \in UNION {ToSet(ParsedIn(b)) : b \in ToSet(BlocksReached(inode.size, extents))} : IsLive(h)}
  <1> DEFINE s == BlocksReached(inode.size, extents)
             n == Len(s)
             g == [k \in 1..n |-> LiveIn(s[k])]
             J(j) == j = [k \in 0..n |-> IF k = 0 THEN << >> ELSE j[k - 1] \o LiveIn(s[k])]
             c == CHOOSE j : J(j)
  <1>1. s \in Seq(Nat) /\ n \in Nat /\ DOMAIN s = 1..n /\ \A k \in 1..n : s[k] \in Nat
    <2>1. s \in Seq(Nat)
      BY BlocksReachedFacts DEF Inode
    <2> HIDE DEF s
    <2> QED
      BY <2>1
  <1>2. DirectoryEntries(inode, extents) = c[n]
    BY DEF DirectoryEntries, BlocksReached, Concat
  <1> HIDE DEF s, n
  <1>3. ASSUME NEW k \in 1..n
        PROVE  g[k] \in Seq(Header) /\ ToSet(g[k]) = {h \in ToSet(ParsedIn(s[k])) : IsLive(h)}
    <2>1. g[k] = LiveIn(s[k]) /\ s[k] \in Nat
      BY <1>1
    <2> HIDE DEF g
    <2> QED
      BY <2>1, LiveInFacts
  <1>4. g \in [1..n -> Seq(Header)]
    <2>1. g = [k \in 1..n |-> g[k]]
      OBVIOUS
    <2> HIDE DEF g
    <2> QED
      BY <1>3, <2>1
  <1>5. ASSUME NEW j PROVE J(j) <=> IsJoined(j, n, g)
    <2>1. \A k \in 0..n : k # 0 => g[k] = LiveIn(s[k])
      BY <1>1
    <2> HIDE DEF g
    <2> QED
      BY <2>1 DEF IsJoined
  <1> HIDE DEF J, g
  <1>6. IsJoined(c, n, g)
    <2>1. PICK j : IsJoined(j, n, g)
      BY <1>1, <1>4, JoinedExists
    <2>2. J(j)
      BY <1>5, <2>1
    <2>3. J(c)
      BY <2>2
    <2> QED
      BY <1>5, <2>3
  <1> HIDE DEF c
  <1>7. c[n] \in Seq(Header) /\ ToSet(c[n]) = UNION {ToSet(g[k]) : k \in 1..n}
    BY <1>1, <1>4, <1>6, JoinedFacts
  <1>8. UNION {ToSet(g[k]) : k \in 1..n} = {h \in UNION {ToSet(ParsedIn(b)) : b \in ToSet(s)} : IsLive(h)}
    <2>1. ToSet(s) = {s[k] : k \in 1..n}
      BY <1>1 DEF ToSet
    <2>2. \A k \in 1..n : ToSet(g[k]) = {h \in ToSet(ParsedIn(s[k])) : IsLive(h)}
      BY <1>3
    <2> QED
      BY <2>1, <2>2
  <1> QED
    BY <1>2, <1>7, <1>8 DEF s

(* And scan_directory_for_deleted whatever has a name in its blocks.       *)
LEMMA RemnantsFacts ==
  ASSUME volume \in Volumes, NEW extents \in Seq(Extent)
  PROVE  Remnants(extents) \in Seq(Header) /\ ToSet(Remnants(extents)) = {h \in UNION {ToSet(HeadersIn(b)) : b \in ToSet(BlocksHeld(extents))} : IsNamed(h)}
  <1> DEFINE s == BlocksHeld(extents)
             n == Len(s)
             g == [k \in 1..n |-> NamedIn(s[k])]
             J(j) == j = [k \in 0..n |-> IF k = 0 THEN << >> ELSE j[k - 1] \o NamedIn(s[k])]
             c == CHOOSE j : J(j)
  <1>1. s \in Seq(Nat) /\ n \in Nat /\ DOMAIN s = 1..n /\ \A k \in 1..n : s[k] \in Nat
    <2>1. s \in Seq(Nat)
      BY BlocksHeldFacts
    <2> HIDE DEF s
    <2> QED
      BY <2>1
  <1>2. Remnants(extents) = c[n]
    BY DEF Remnants, BlocksHeld, Concat
  <1> HIDE DEF s, n
  <1>3. ASSUME NEW k \in 1..n
        PROVE  g[k] \in Seq(Header) /\ ToSet(g[k]) = {h \in ToSet(HeadersIn(s[k])) : IsNamed(h)}
    <2>1. g[k] = NamedIn(s[k]) /\ s[k] \in Nat
      BY <1>1
    <2> HIDE DEF g
    <2> QED
      BY <2>1, NamedInFacts
  <1>4. g \in [1..n -> Seq(Header)]
    <2>1. g = [k \in 1..n |-> g[k]]
      OBVIOUS
    <2> HIDE DEF g
    <2> QED
      BY <1>3, <2>1
  <1>5. ASSUME NEW j PROVE J(j) <=> IsJoined(j, n, g)
    <2>1. \A k \in 0..n : k # 0 => g[k] = NamedIn(s[k])
      BY <1>1
    <2> HIDE DEF g
    <2> QED
      BY <2>1 DEF IsJoined
  <1> HIDE DEF J, g
  <1>6. IsJoined(c, n, g)
    <2>1. PICK j : IsJoined(j, n, g)
      BY <1>1, <1>4, JoinedExists
    <2>2. J(j)
      BY <1>5, <2>1
    <2>3. J(c)
      BY <2>2
    <2> QED
      BY <1>5, <2>3
  <1> HIDE DEF c
  <1>7. c[n] \in Seq(Header) /\ ToSet(c[n]) = UNION {ToSet(g[k]) : k \in 1..n}
    BY <1>1, <1>4, <1>6, JoinedFacts
  <1>8. UNION {ToSet(g[k]) : k \in 1..n} = {h \in UNION {ToSet(HeadersIn(b)) : b \in ToSet(s)} : IsNamed(h)}
    <2>1. ToSet(s) = {s[k] : k \in 1..n}
      BY <1>1 DEF ToSet
    <2>2. \A k \in 1..n : ToSet(g[k]) = {h \in ToSet(HeadersIn(s[k])) : IsNamed(h)}
      BY <1>3
    <2> QED
      BY <2>1, <2>2
  <1> QED
    BY <1>2, <1>7, <1>8 DEF s

(* Reading an inode gives one, and its extents are extents.                *)
LEMMA InodeTyped ==
  ASSUME volume \in Volumes, NEW n \in Nat, Readable(n)
  PROVE  InodeAt(n) \in Inode
  <1>1. InodesPerGroup \in Nat \ {0} /\ Groups \in Nat
    BY Ext4Assumption
  <1>2. n \in 1..volume.inodesCount /\ GroupOf(n) < Groups
    BY DEF Readable
  <1>3. GroupOf(n) \in 0..(Groups - 1) /\ IndexOf(n) \in 0..(InodesPerGroup - 1)
    <2>1. PICK k \in Nat : k = n - 1
      BY <1>2
    <2>2. \A p \in Nat \ {0} : k \div p \in Nat /\ k % p \in 0..(p - 1)
      BY <2>1
    <2>3. k \div InodesPerGroup \in Nat /\ k % InodesPerGroup \in 0..(InodesPerGroup - 1)
      BY <1>1, <2>2
    <2>4. GroupOf(n) = k \div InodesPerGroup /\ IndexOf(n) = k % InodesPerGroup
      BY <2>1 DEF GroupOf, IndexOf
    <2> QED
      BY <1>1, <1>2, <2>3, <2>4
  <1>4. /\ volume.groups[GroupOf(n)].table \in Seq(Inode)
        /\ Len(volume.groups[GroupOf(n)].table) >= InodesPerGroup
    BY <1>3, VolumeFacts DEF Group
  <1>5. IndexOf(n) + 1 \in 1..Len(volume.groups[GroupOf(n)].table)
    BY <1>1, <1>3, <1>4
  <1> QED
    BY <1>4, <1>5 DEF InodeAt

LEMMA ExtentsTyped ==
  ASSUME volume \in Volumes, NEW inode \in Inode
  PROVE  ExtentsOf(inode) \in Seq(Extent)
  <1>1. inode.tree \in Node
    BY DEF Inode
  <1> QED
    BY <1>1, VolumeFacts, ExtentsFacts DEF ExtentsOf

(* What is read does not change as long as the volume does not.            *)
LEMMA SameVolume ==
  ASSUME volume' = volume
  PROVE  /\ \A n : Readable(n)' = Readable(n) /\ InodeAt(n)' = InodeAt(n)
         /\ \A d : NamesIn(d)' = NamesIn(d)
         /\ \A extents : Remnants(extents)' = Remnants(extents)
  <1>1. \A n : Readable(n)' = Readable(n) /\ InodeAt(n)' = InodeAt(n)
    BY DEF Readable, InodeAt
  <1>2. \A b : ParsedIn(b)' = ParsedIn(b) /\ HeadersIn(b)' = HeadersIn(b)
    BY DEF ParsedIn, HeadersIn
  <1>3. \A d : Reached(d)' = Reached(d)
    BY DEF Reached
  <1>4. \A d : NamesIn(d)' = NamesIn(d)
    BY <1>2, <1>3 DEF NamesIn
  <1>5. \A extents : Remnants(extents)' = Remnants(extents)
    BY DEF Remnants, Concat, NamedIn, HeadersIn
  <1> QED
    BY <1>1, <1>4, <1>5

-----------------------------------------------------------------------------
AnyName == Names \cup {""} \cup {InodeName(n) : n \in Nat}
Waiting == [inode : Nat, parent : Nat, name : AnyName]
Entry == [id : Nat, parent : Nat, name : AnyName, inode : Inode, extents : Seq(Extent),
          allocated : BOOLEAN, scanned : BOOLEAN]

TypeOK ==
  /\ volume \in Volumes
  /\ queue \in Seq(Waiting)
  /\ visited \subseteq Nat
  /\ DOMAIN residual \subseteq Nat
  /\ \A m \in DOMAIN residual : residual[m] \in [name : Names, parent : Nat]
  /\ found \in Seq(Entry)
  /\ group \in 0..Groups /\ slot \in Nat
  /\ status \in {"walking", "scanning", "done"}

(* The blocks of a directory hold the names that it is said to have.       *)
LEMMA EntriesAreNames ==
  ASSUME volume \in Volumes, NEW d, d.inode \in Inode, d.extents \in Seq(Extent)
  PROVE  /\ DirectoryEntries(d.inode, d.extents) \in Seq(Header)
         /\ ToSet(DirectoryEntries(d.inode, d.extents)) = NamesIn(d)
  <1> DEFINE reached == ToSet(BlocksReached(d.inode.size, d.extents))
  <1>1. d.inode.size \in Nat
    BY DEF Inode
  <1>2. reached = {b \in Nat : \E e \in ToSet(d.extents) : IsReached(e, d.inode.size, b)}
    BY <1>1, BlocksReachedFacts
  <1>3. Reached(d) = {b \in DOMAIN volume.blocks :
                        \E e \in ToSet(d.extents) : IsReached(e, d.inode.size, b)}
    BY DEF Reached, IsReached, IsHeld
  <1>4. /\ DirectoryEntries(d.inode, d.extents) \in Seq(Header)
        /\ ToSet(DirectoryEntries(d.inode, d.extents)) =
             {h \in UNION {ToSet(ParsedIn(b)) : b \in reached} : IsLive(h)}
    BY EntriesFacts
  <1> HIDE DEF reached
  <1>5. Reached(d) \subseteq reached /\ reached \cap DOMAIN volume.blocks = Reached(d)
    BY <1>2, <1>3, VolumeFacts
  <1>6. \A b : b \notin DOMAIN volume.blocks => ToSet(ParsedIn(b)) = {}
    <2>1. \A b : b \notin DOMAIN volume.blocks => ParsedIn(b) = << >>
      BY DEF ParsedIn
    <2>2. ToSet(<< >>) = {}
      BY DEF ToSet
    <2> QED
      BY <2>1, <2>2
  <1> QED
    BY <1>4, <1>5, <1>6 DEF NamesIn

(* The jobs of a directory are its names, those of anything else none.     *)
LEMMA JobsFacts ==
  ASSUME volume \in Volumes, NEW d \in Entry, d.inode = InodeAt(d.id)
  PROVE  /\ Jobs(d.id, d.extents) \in Seq(Waiting)
         /\ \A i \in DOMAIN Jobs(d.id, d.extents) :
              /\ Walkable(d.inode) /\ Jobs(d.id, d.extents)[i].parent = d.id
              /\ \E h \in NamesIn(d) : /\ h.inode = Jobs(d.id, d.extents)[i].inode
                                       /\ h.name = Jobs(d.id, d.extents)[i].name
         /\ Walkable(d.inode) => \A h \in NamesIn(d) :
              \E i \in DOMAIN Jobs(d.id, d.extents) : Jobs(d.id, d.extents)[i].inode = h.inode
  <1>1. d.id \in Nat /\ d.inode \in Inode /\ d.extents \in Seq(Extent)
    BY DEF Entry
  <1>2. CASE ~Walkable(d.inode)
    <2>1. Jobs(d.id, d.extents) = << >>
      BY <1>2 DEF Jobs
    <2> QED
      BY <1>2, <2>1
  <1>3. CASE Walkable(d.inode)
    <2> DEFINE s == DirectoryEntries(d.inode, d.extents)
               t == [i \in 1..Len(s) |-> [inode |-> s[i].inode, parent |-> d.id, name |-> s[i].name]]
    <2>1. s \in Seq(Header) /\ ToSet(s) = NamesIn(d)
      BY <1>1, EntriesAreNames
    <2>2. Jobs(d.id, d.extents) = [i \in DOMAIN s |-> [inode |-> s[i].inode, parent |-> d.id, name |-> s[i].name]]
      BY <1>3 DEF Jobs
    <2> HIDE DEF s
    <2>3. Len(s) \in Nat /\ DOMAIN s = 1..Len(s) /\ \A i \in 1..Len(s) : s[i] \in Header
      BY <2>1
    <2>4. Jobs(d.id, d.extents) = t
      BY <2>2, <2>3
    <2>5. \A i \in 1..Len(s) : s[i].inode \in Nat /\ s[i].name \in AnyName
      BY <2>3 DEF Header, AnyName
    <2>6. t \in [1..Len(s) -> Waiting]
      BY <1>1, <2>5 DEF Waiting
    <2>7. t \in Seq(Waiting)
      BY <2>3, <2>6, SeqDef
    <2>8. \A h : h \in NamesIn(d) <=> \E i \in 1..Len(s) : h = s[i]
      BY <2>1, <2>3 DEF ToSet
    <2>9. DOMAIN t = 1..Len(s)
      OBVIOUS
    <2>10. \A i \in 1..Len(s) : t[i].inode = s[i].inode /\ t[i].parent = d.id /\ t[i].name = s[i].name
      OBVIOUS
    <2> HIDE DEF t
    <2>11. \A i \in DOMAIN t : /\ t[i].parent = d.id
                               /\ \E h \in NamesIn(d) : h.inode = t[i].inode /\ h.name = t[i].name
      BY <2>8, <2>9, <2>10
    <2>12. \A h \in NamesIn(d) : \E i \in DOMAIN t : t[i].inode = h.inode
      BY <2>8, <2>9, <2>10
    <2> QED
      BY <1>3, <2>4, <2>7, <2>11, <2>12
  <1> QED
    BY <1>2, <1>3

(* What is remembered of the remnants of a directory: of every inode that  *)
(* is new a name it has there, and nothing that was remembered is changed. *)
LEMMA RememberedFacts ==
  ASSUME TypeOK, NEW n \in Nat, NEW extents \in Seq(Extent)
  PROVE  /\ \A m \in DOMAIN residual : /\ m \in DOMAIN Remembered(n, extents)
                                       /\ Remembered(n, extents)[m] = residual[m]
         /\ \A m \in DOMAIN Remembered(n, extents) \ DOMAIN residual :
              /\ m \in Nat /\ Walkable(InodeAt(n))
              /\ Remembered(n, extents)[m].parent = n
              /\ Remembered(n, extents)[m] \in [name : Names, parent : Nat]
              /\ \E h \in ToSet(Remnants(extents)) :
                   h.inode = m /\ h.name = Remembered(n, extents)[m].name
         /\ Walkable(InodeAt(n)) => \A h \in ToSet(Remnants(extents)) :
              h.inode \in DOMAIN Remembered(n, extents) \/ h.inode \in visited \cup {n}
  <1>1. CASE ~Walkable(InodeAt(n))
    BY <1>1 DEF Remembered
  <1>2. CASE Walkable(InodeAt(n))
    <2> DEFINE s == Remnants(extents)
               news == {h.inode : h \in ToSet(s)} \ (visited \cup {n})
               I(m) == {i \in 1..Len(s) : s[i].inode = m}
               NameOf(m) == s[IF I(m) # {} THEN CHOOSE x \in I(m) : \A y \in I(m) : x <= y ELSE 0].name
    <2>1. s \in Seq(Header)
      BY RemnantsFacts DEF TypeOK
    <2>2. Remembered(n, extents) =
            [m \in DOMAIN residual \cup news |->
               IF m \in DOMAIN residual THEN residual[m] ELSE [name |-> NameOf(m), parent |-> n]]
      BY <1>2 DEF Remembered, SelectInSeq, Min
    <2> HIDE DEF s
    <2>3. Len(s) \in Nat /\ DOMAIN s = 1..Len(s) /\ \A i \in 1..Len(s) : s[i] \in Header
      BY <2>1
    <2>4. ASSUME NEW m \in news
          PROVE  m \in Nat /\ NameOf(m) \in Names /\ \E h \in ToSet(s) : h.inode = m /\ h.name = NameOf(m)
      <3>1. PICK h \in ToSet(s) : h.inode = m
        OBVIOUS
      <3>2. PICK i \in 1..Len(s) : s[i] = h
        BY <2>3 DEF ToSet
      <3>3. I(m) \subseteq Nat /\ i \in I(m)
        BY <2>3, <3>1, <3>2
      <3>4. \E x \in I(m) : \A y \in I(m) : x <= y
        <4> HIDE DEF I
        <4> QED
          BY <3>3, LeastExists
      <3>5. PICK x \in I(m) : NameOf(m) = s[x].name
        BY <3>3, <3>4
      <3>6. x \in 1..Len(s) /\ s[x].inode = m /\ s[x] \in ToSet(s)
        BY <2>3 DEF ToSet
      <3>7. s[x].name \in Names /\ s[x].inode \in Nat
        BY <2>3, <3>6 DEF Header
      <3> HIDE DEF NameOf
      <3> QED
        BY <3>5, <3>6, <3>7
    <2>5. \A h \in ToSet(s) : h.inode \in news \/ h.inode \in visited \cup {n}
      OBVIOUS
    <2> HIDE DEF NameOf, news
    <2> DEFINE R == Remembered(n, extents)
    <2>6. /\ DOMAIN R = DOMAIN residual \cup news
          /\ \A m \in DOMAIN residual : R[m] = residual[m]
          /\ \A m \in news \ DOMAIN residual : R[m] = [name |-> NameOf(m), parent |-> n]
      BY <2>2
    <2>7. R = Remembered(n, extents)
      OBVIOUS
    <2> HIDE DEF R
    <2>8. ASSUME NEW m \in DOMAIN R \ DOMAIN residual
          PROVE  /\ m \in Nat /\ R[m].parent = n /\ R[m] \in [name : Names, parent : Nat]
                 /\ \E h \in ToSet(s) : h.inode = m /\ h.name = R[m].name
      BY <2>4, <2>6
    <2> QED
      BY <1>2, <2>5, <2>6, <2>7, <2>8 DEF s
  <1> QED
    BY <1>1, <1>2

-----------------------------------------------------------------------------
(* The investigation as a whole.                                           *)
LEMMA ListedTyped ==
  ASSUME TypeOK
  PROVE  Listed = ToSet(found) /\ Listed \subseteq Entry
  BY DEF TypeOK, Listed, ToSet

(* An entry more. *)
LEMMA ListedGrows ==
  ASSUME TypeOK, NEW e \in Entry, found' = Append(found, e)
  PROVE  /\ found' \in Seq(Entry)
         /\ Listed' = Listed \cup {e}
         /\ Walked' = Walked \cup {d \in {e} : ~d.scanned /\ Walkable(d.inode)}
  <1>1. found \in Seq(Entry)
    BY DEF TypeOK
  <1>2. found' \in Seq(Entry) /\ ToSet(found') = ToSet(found) \cup {e}
    BY <1>1, AppendFacts
  <1>3. Listed = ToSet(found) /\ Listed' = ToSet(found')
    BY DEF Listed, ToSet
  <1>4. \A d : Walkable(d.inode)' = Walkable(d.inode)
    BY DEF Walkable
  <1> QED
    BY <1>2, <1>3, <1>4 DEF Walked

(* What a step of the walk does that looks at an inode.                    *)
LEMMA VisitFacts ==
  ASSUME TypeOK, Visit
  PROVE  \E e \in Entry :
           /\ status = "walking" /\ queue # << >> /\ e.id = Head(queue).inode
           /\ e.parent = Head(queue).parent /\ e.name = Head(queue).name /\ ~e.scanned
           /\ e.id \notin visited /\ e.inode = InodeAt(e.id) /\ e.extents = ExtentsOf(e.inode)
           /\ visited' = visited \cup {e.id}
           /\ found' = Append(found, e)
           /\ queue' = Tail(queue) \o Jobs(e.id, e.extents)
           /\ residual' = Remembered(e.id, e.extents)
  <1> DEFINE n == Job.inode
             x == ExtentsOf(InodeAt(n))
             e == EntryFor(n, Job, InodeAt(n), x, IsAllocated(BitmapOf(GroupOf(n)), n), FALSE)
  <1>1. Job \in Waiting /\ Job = Head(queue) /\ queue # << >> /\ status = "walking"
    <2>1. queue \in Seq(Waiting) /\ queue # << >> /\ status = "walking"
      BY DEF TypeOK, Visit, Popped
    <2> QED
      BY <2>1, PopFacts DEF Job
  <1>2. n \in Nat /\ Readable(n) /\ n \notin visited
    BY <1>1 DEF Waiting, Visit, IsNew
  <1>3. InodeAt(n) \in Inode /\ x \in Seq(Extent)
    BY <1>2, InodeTyped, ExtentsTyped DEF TypeOK
  <1>4. IsAllocated(BitmapOf(GroupOf(n)), n) \in BOOLEAN
    BY DEF IsAllocated
  <1>5. e \in Entry /\ e.id = n /\ e.parent = Job.parent /\ e.name = Job.name /\ ~e.scanned
        /\ e.inode = InodeAt(n) /\ e.extents = x /\ x = ExtentsOf(e.inode)
    BY <1>1, <1>2, <1>3, <1>4 DEF EntryFor, Entry, Waiting
  <1>6. /\ visited' = visited \cup {n} /\ queue' = Tail(queue) \o Jobs(n, x)
        /\ residual' = Remembered(n, x) /\ found' = Append(found, e)
    BY DEF Visit
  <1> HIDE DEF e, n, x
  <1>7. visited' = visited \cup {e.id} /\ queue' = Tail(queue) \o Jobs(e.id, e.extents)
        /\ residual' = Remembered(e.id, e.extents)
    BY <1>5, <1>6
  <1> QED
    BY <1>1, <1>2, <1>5, <1>6, <1>7 DEF n

(* And what a step of the scan does that lists a deleted inode.            *)
LEMMA ListDeletedFacts ==
  ASSUME TypeOK, ListDeleted
  PROVE  \E e \in Entry :
           /\ status = "scanning" /\ e.scanned /\ e.id \notin visited
           /\ e.extents = ExtentsOf(e.inode)
           /\ IF e.id \in DOMAIN residual
                THEN e.name = residual[e.id].name /\ e.parent = residual[e.id].parent
                ELSE e.name = InodeName(e.id) /\ e.parent = RootInode
           /\ visited' = visited \cup {e.id}
           /\ found' = Append(found, e)
  <1> DEFINE inode == Table[slot + 1]
             origin == IF Number \in DOMAIN residual
                         THEN residual[Number] ELSE [name |-> InodeName(Number), parent |-> RootInode]
             e == EntryFor(Number, origin, inode, ExtentsOf(inode), TRUE, TRUE)
  <1>1. inode \in Inode
    <2>1. group \in 0..(Groups - 1) /\ slot \in Nat /\ slot < Len(Table)
      BY Ext4Assumption DEF TypeOK, ListDeleted, Scanning
    <2>2. Table \in Seq(Inode)
      BY <2>1, VolumeFacts DEF TypeOK, Table, Group
    <2>3. slot + 1 \in 1..Len(Table)
      BY <2>1, <2>2
    <2> QED
      BY <2>2, <2>3
  <1>2. Number \in Nat
    <2>1. group \in Nat /\ slot \in Nat /\ InodesPerGroup \in Nat
      BY Ext4Assumption DEF TypeOK
    <2>2. group * InodesPerGroup \in Nat
      BY <2>1
    <2> QED
      BY <2>1, <2>2 DEF Number
  <1>3. origin.name \in AnyName /\ origin.parent \in Nat
    BY <1>2 DEF TypeOK, AnyName, RootInode
  <1>4. ExtentsOf(inode) \in Seq(Extent)
    BY <1>1, ExtentsTyped DEF TypeOK
  <1>5. /\ e \in Entry /\ e.id = Number /\ e.scanned /\ e.extents = ExtentsOf(e.inode)
        /\ e.name = origin.name /\ e.parent = origin.parent
    <2> HIDE DEF origin, inode
    <2> QED
      BY <1>1, <1>2, <1>3, <1>4 DEF EntryFor, Entry
  <1>6. /\ status = "scanning" /\ Number \notin visited
        /\ visited' = visited \cup {Number} /\ found' = Append(found, e)
    BY DEF ListDeleted, Scanning, Wanted
  <1>7. IF Number \in DOMAIN residual
          THEN origin.name = residual[Number].name /\ origin.parent = residual[Number].parent
          ELSE origin.name = InodeName(Number) /\ origin.parent = RootInode
    OBVIOUS
  <1> HIDE DEF e, origin, inode
  <1>8. IF e.id \in DOMAIN residual
          THEN e.name = residual[e.id].name /\ e.parent = residual[e.id].parent
          ELSE e.name = InodeName(e.id) /\ e.parent = RootInode
    BY <1>5, <1>7
  <1> QED
    BY <1>5, <1>6, <1>8

LEMMA TypeStep ==
  ASSUME TypeOK, [Next]_vars
  PROVE  TypeOK'
  <1>1. CASE SkipVisited \/ SkipUnreadable
    <2>1. queue \in Seq(Waiting) /\ queue # << >> /\ queue' = Tail(queue)
      BY <1>1 DEF TypeOK, SkipVisited, SkipUnreadable, Popped
    <2>2. Head(queue) \in Waiting /\ queue' \in Seq(Waiting)
      BY <2>1, PopFacts
    <2>3. visited' \subseteq Nat
      BY <1>1, <2>2 DEF TypeOK, SkipVisited, SkipUnreadable, Job, Waiting
    <2> QED
      BY <1>1, <2>2, <2>3 DEF TypeOK, SkipVisited, SkipUnreadable, scanVars
  <1>2. CASE Visit
    <2>1. PICK e \in Entry :
            /\ status = "walking" /\ queue # << >> /\ e.inode = InodeAt(e.id)
            /\ visited' = visited \cup {e.id} /\ found' = Append(found, e)
            /\ queue' = Tail(queue) \o Jobs(e.id, e.extents)
            /\ residual' = Remembered(e.id, e.extents)
      BY <1>2, VisitFacts
    <2>2. e.id \in Nat /\ e.inode \in Inode /\ e.extents \in Seq(Extent)
      BY DEF Entry
    <2>3. Tail(queue) \in Seq(Waiting) /\ Jobs(e.id, e.extents) \in Seq(Waiting)
      BY <2>1, <2>2, PopFacts, JobsFacts DEF TypeOK
    <2>4. queue' \in Seq(Waiting)
      BY <2>1, <2>3
    <2>5. /\ DOMAIN residual' \subseteq Nat
          /\ \A m \in DOMAIN residual' : residual'[m] \in [name : Names, parent : Nat]
      BY <2>1, <2>2, RememberedFacts DEF TypeOK
    <2>6. found' \in Seq(Entry)
      BY <2>1, ListedGrows
    <2>7. UNCHANGED <<volume, group, slot, status>>
      BY <1>2 DEF Visit, scanVars
    <2> QED
      BY <2>1, <2>2, <2>4, <2>5, <2>6, <2>7 DEF TypeOK
  <1>3. CASE ListDeleted
    <2>1. PICK e \in Entry : visited' = visited \cup {e.id} /\ found' = Append(found, e)
      BY <1>3, ListDeletedFacts
    <2>2. found' \in Seq(Entry) /\ e.id \in Nat
      BY <2>1, ListedGrows DEF Entry
    <2>3. slot' \in Nat /\ UNCHANGED <<volume, queue, residual, group, status>>
      BY <1>3 DEF TypeOK, ListDeleted, walkVars
    <2> QED
      BY <2>1, <2>2, <2>3 DEF TypeOK
  <1>4. CASE NextGroup
    <2>1. group' \in 0..Groups /\ slot' = 0
      BY <1>4, Ext4Assumption DEF TypeOK, NextGroup, Scanning
    <2> QED
      BY <1>4, <2>1 DEF TypeOK, NextGroup, walkVars
  <1>5. CASE BeginScan \/ Finish
    BY <1>5 DEF TypeOK, BeginScan, Finish, walkVars, scanVars
  <1>6. CASE PassSlot
    <2>1. slot' \in Nat
      BY <1>6 DEF TypeOK, PassSlot
    <2> QED
      BY <1>6, <2>1 DEF TypeOK, PassSlot, walkVars
  <1>7. CASE UNCHANGED vars
    BY <1>7 DEF TypeOK, vars, walkVars, scanVars
  <1> QED
    BY <1>1, <1>2, <1>3, <1>4, <1>5, <1>6, <1>7 DEF Next

-----------------------------------------------------------------------------
(* An inode with a name in a walked directory, and one that the walk has   *)
(* listed.                                                                 *)
IsNamedIn(n, name, parent) ==
  \E d \in Walked : d.id = parent /\ \E h \in NamesIn(d) : h.inode = n /\ h.name = name

IsListed(n) == \E e \in Listed : e.id = n /\ ~e.scanned

(* What is left of a name in a walked directory. *)
IsLeftIn(m, name, parent) ==
  \E d \in Walked : d.id = parent /\ \E h \in ToSet(Remnants(d.extents)) : h.inode = m /\ h.name = name

(* The root comes first, and behind it only what was found in a directory  *)
(* that has been visited.                                                  *)
ParentsAreVisited ==
  \/ /\ visited = {} /\ status = "walking"
     /\ queue = <<[inode |-> RootInode, parent |-> RootInode, name |-> ""]>>
  \/ RootInode \in visited /\ \A q \in ToSet(queue) : q.parent \in visited

(* As long as it walks, every visited inode that can be read is listed.    *)
VisitedAreListed ==
  status = "walking" =>
    /\ \A e \in Listed : ~e.scanned
    /\ \A n \in visited : Readable(n) => IsListed(n)

QueuedAreNamed ==
  /\ status # "walking" => queue = << >>
  /\ \A q \in ToSet(queue) : q.inode # RootInode => IsNamedIn(q.inode, q.name, q.parent)

ListedAreNamed ==
  \A e \in Listed : /\ e.id \in visited
                    /\ ~e.scanned /\ e.id # RootInode => IsNamedIn(e.id, e.name, e.parent)

(* Nothing that is named gets lost between the queue and the list.         *)
NamedAreQueued ==
  \A d \in Walked : \A h \in NamesIn(d) :
    Readable(h.inode) => IsListed(h.inode) \/ \E q \in ToSet(queue) : q.inode = h.inode

(* What is remembered is left in a walked directory, and what is left      *)
(* there is remembered or visited.                                         *)
Kept == {[inode |-> m, name |-> residual[m].name, parent |-> residual[m].parent] : m \in DOMAIN residual}

RememberedAreLeft ==
  /\ \A r \in Kept : IsLeftIn(r.inode, r.name, r.parent)
  /\ \A d \in Walked : \A h \in ToSet(Remnants(d.extents)) : h.inode \in DOMAIN residual \cup visited

WalkInv == /\ ParentsAreVisited /\ VisitedAreListed /\ QueuedAreNamed /\ ListedAreNamed
           /\ NamedAreQueued /\ RememberedAreLeft

LEMMA InitInv == Init => TypeOK /\ WalkInv
  <1> SUFFICES ASSUME Init PROVE TypeOK /\ WalkInv
    OBVIOUS
  <1> DEFINE root == [inode |-> RootInode, parent |-> RootInode, name |-> ""]
  <1>1. root \in Waiting /\ root.inode = RootInode
    BY DEF Waiting, AnyName, RootInode
  <1>2. queue = <<root>> /\ visited = {} /\ residual = << >> /\ found = << >>
        /\ group = 0 /\ slot = 0 /\ status = "walking" /\ volume \in Volumes
    BY DEF Init
  <1> HIDE DEF root
  <1>3. queue \in Seq(Waiting) /\ ToSet(queue) = {root}
    BY <1>1, <1>2 DEF ToSet
  <1>4. DOMAIN residual = {} /\ Kept = {} /\ found \in Seq(Entry) /\ Listed = {} /\ Walked = {}
    BY <1>2 DEF Kept, Listed, Walked
  <1>5. TypeOK
    BY <1>2, <1>3, <1>4, Ext4Assumption DEF TypeOK
  <1>6. ParentsAreVisited
    BY <1>2 DEF ParentsAreVisited, root
  <1> QED
    BY <1>1, <1>2, <1>3, <1>4, <1>5, <1>6
       DEF WalkInv, VisitedAreListed, QueuedAreNamed, ListedAreNamed, NamedAreQueued, RememberedAreLeft

(* Names and remnants are not lost as the list grows.                      *)
LEMMA NamesStay ==
  ASSUME volume' = volume, Listed \subseteq Listed', Walked \subseteq Walked'
  PROVE  /\ \A n, name, parent : IsNamedIn(n, name, parent) => IsNamedIn(n, name, parent)'
         /\ \A n, name, parent : IsLeftIn(n, name, parent) => IsLeftIn(n, name, parent)'
         /\ \A n : IsListed(n) => IsListed(n)'
         /\ \A n : Readable(n)' = Readable(n)
         /\ \A d : NamesIn(d)' = NamesIn(d)
         /\ \A extents : Remnants(extents)' = Remnants(extents)
  <1>1. /\ \A n : Readable(n)' = Readable(n)
        /\ \A d : NamesIn(d)' = NamesIn(d)
        /\ \A extents : Remnants(extents)' = Remnants(extents)
    BY SameVolume
  <1>2. \A n, name, parent : IsNamedIn(n, name, parent) => IsNamedIn(n, name, parent)'
    BY <1>1 DEF IsNamedIn
  <1>3. \A n, name, parent : IsLeftIn(n, name, parent) => IsLeftIn(n, name, parent)'
    BY <1>1 DEF IsLeftIn
  <1>4. \A n : IsListed(n) => IsListed(n)'
    BY DEF IsListed
  <1> QED
    BY <1>1, <1>2, <1>3, <1>4

(* A step that lists and visits nothing and queues nothing. *)
LEMMA QuietStep ==
  ASSUME TypeOK, WalkInv, UNCHANGED <<volume, residual, visited, found>>,
         ToSet(queue') \subseteq ToSet(queue), status # "walking" => queue' = << >>,
         \A q \in ToSet(queue) \ ToSet(queue') : q.inode = 0 \/ q.inode \in visited,
         status' = status \/ (queue' = << >> /\ status' # "walking"),
         visited = {} => UNCHANGED <<queue, status>>
  PROVE  WalkInv'
  <1>1. Listed' = Listed /\ Walked' = Walked /\ Kept' = Kept
    <2>1. Listed' = Listed /\ Kept' = Kept
      BY DEF Listed, Kept
    <2> QED
      BY <2>1 DEF Walked, Walkable
  <1>2. /\ \A n, name, parent : IsNamedIn(n, name, parent) => IsNamedIn(n, name, parent)'
        /\ \A n, name, parent : IsLeftIn(n, name, parent) => IsLeftIn(n, name, parent)'
        /\ \A n : IsListed(n) => IsListed(n)'
        /\ \A n : Readable(n)' = Readable(n)
        /\ \A d : NamesIn(d)' = NamesIn(d)
        /\ \A extents : Remnants(extents)' = Remnants(extents)
    BY <1>1, NamesStay
  <1>3. ParentsAreVisited'
    <2>1. CASE visited = {}
      BY <2>1 DEF WalkInv, ParentsAreVisited
    <2>2. CASE visited # {}
      BY <2>2 DEF WalkInv, ParentsAreVisited
    <2> QED
      BY <2>1, <2>2
  <1>4. VisitedAreListed'
    BY <1>1, <1>2 DEF WalkInv, VisitedAreListed
  <1>5. QueuedAreNamed'
    BY <1>2 DEF WalkInv, QueuedAreNamed
  <1>6. ListedAreNamed'
    BY <1>1, <1>2 DEF WalkInv, ListedAreNamed
  <1>7. NamedAreQueued'
    <2> SUFFICES ASSUME NEW d \in Walked, NEW h \in NamesIn(d), Readable(h.inode)
                 PROVE  IsListed(h.inode)' \/ \E q \in ToSet(queue') : q.inode = h.inode
      BY <1>1, <1>2 DEF NamedAreQueued
    <2>1. CASE IsListed(h.inode)
      BY <1>2, <2>1
    <2>2. ASSUME NEW q \in ToSet(queue), q.inode = h.inode, q \notin ToSet(queue')
          PROVE  IsListed(h.inode)
      <3>1. h.inode # 0
        BY DEF Readable
      <3>2. status = "walking"
        <4>1. status # "walking" => ToSet(queue) = {}
          BY DEF WalkInv, QueuedAreNamed, ToSet
        <4> QED
          BY <4>1
      <3> QED
        BY <2>2, <3>1, <3>2 DEF WalkInv, VisitedAreListed
    <2> QED
      BY <1>2, <2>1, <2>2 DEF WalkInv, NamedAreQueued
  <1>8. RememberedAreLeft'
    BY <1>1, <1>2 DEF WalkInv, RememberedAreLeft
  <1> QED
    BY <1>3, <1>4, <1>5, <1>6, <1>7, <1>8 DEF WalkInv

(* A step that takes a job counts an inode as visited that cannot be read. *)
LEMMA LastJob ==
  ASSUME NEW x
  PROVE  Head(<<x>>) = x /\ Tail(<<x>>) = << >> /\ ToSet(<< >>) = {}
  BY DEF ToSet

LEMMA UnreadableStep ==
  ASSUME TypeOK, WalkInv, SkipUnreadable
  PROVE  WalkInv'
  <1> DEFINE job == Head(queue)
  <1>1. /\ queue \in Seq(Waiting) /\ queue # << >> /\ status = "walking"
        /\ job.inode # 0 /\ ~Readable(job.inode)
        /\ visited' = visited \cup {job.inode} /\ queue' = Tail(queue)
        /\ UNCHANGED <<volume, residual, found, status>>
    BY DEF TypeOK, SkipUnreadable, Popped, IsNew, Job
  <1>2. job \in Waiting /\ ToSet(queue) = {job} \cup ToSet(queue')
    BY <1>1, PopFacts
  <1>3. Listed' = Listed /\ Walked' = Walked /\ Kept' = Kept
    <2>1. Listed' = Listed /\ Kept' = Kept
      BY <1>1 DEF Listed, Kept
    <2> QED
      BY <2>1 DEF Walked, Walkable
  <1>4. /\ \A n, name, parent : IsNamedIn(n, name, parent) => IsNamedIn(n, name, parent)'
        /\ \A n, name, parent : IsLeftIn(n, name, parent) => IsLeftIn(n, name, parent)'
        /\ \A n : IsListed(n) => IsListed(n)'
        /\ \A n : Readable(n)' = Readable(n)
        /\ \A d : NamesIn(d)' = NamesIn(d)
        /\ \A extents : Remnants(extents)' = Remnants(extents)
    BY <1>1, <1>3, NamesStay
  <1>5. ParentsAreVisited'
    <2>1. CASE visited = {}
      <3> DEFINE root == [inode |-> RootInode, parent |-> RootInode, name |-> ""]
      <3>1. queue = <<root>>
        BY <2>1 DEF WalkInv, ParentsAreVisited
      <3>2. root.inode = RootInode
        OBVIOUS
      <3> HIDE DEF root
      <3>3. RootInode \in visited' /\ ToSet(queue') = {}
        BY <1>1, <3>1, <3>2, LastJob
      <3> QED
        BY <3>3 DEF ParentsAreVisited
    <2>2. CASE visited # {}
      BY <1>1, <1>2, <2>2 DEF WalkInv, ParentsAreVisited
    <2> QED
      BY <2>1, <2>2
  <1>6. VisitedAreListed'
    BY <1>1, <1>3, <1>4 DEF WalkInv, VisitedAreListed
  <1>7. QueuedAreNamed'
    BY <1>1, <1>2, <1>4 DEF WalkInv, QueuedAreNamed
  <1>8. ListedAreNamed'
    BY <1>1, <1>3, <1>4 DEF WalkInv, ListedAreNamed
  <1>9. NamedAreQueued'
    BY <1>1, <1>2, <1>3, <1>4 DEF WalkInv, NamedAreQueued
  <1>10. RememberedAreLeft'
    BY <1>1, <1>3, <1>4 DEF WalkInv, RememberedAreLeft
  <1> QED
    BY <1>5, <1>6, <1>7, <1>8, <1>9, <1>10 DEF WalkInv

(* A visit lists the inode, queues what a directory names and remembers    *)
(* what is left in it.                                                     *)
LEMMA VisitStep ==
  ASSUME TypeOK, WalkInv, Visit
  PROVE  WalkInv'
  <1>1. PICK e \in Entry :
          /\ status = "walking" /\ queue # << >> /\ e.id = Head(queue).inode
          /\ e.parent = Head(queue).parent /\ e.name = Head(queue).name /\ ~e.scanned
          /\ e.id \notin visited /\ e.inode = InodeAt(e.id)
          /\ visited' = visited \cup {e.id}
          /\ found' = Append(found, e)
          /\ queue' = Tail(queue) \o Jobs(e.id, e.extents)
          /\ residual' = Remembered(e.id, e.extents)
    BY VisitFacts
  <1> DEFINE job == Head(queue)
             jobs == Jobs(e.id, e.extents)
  <1>2. e.id \in Nat /\ e.inode \in Inode /\ e.extents \in Seq(Extent)
    BY DEF Entry
  <1>3. volume \in Volumes /\ volume' = volume /\ status' = "walking" /\ queue \in Seq(Waiting)
    BY DEF TypeOK, Visit, Popped
  <1>4. /\ job \in Waiting /\ Tail(queue) \in Seq(Waiting)
        /\ ToSet(queue) = {job} \cup ToSet(Tail(queue))
    BY <1>1, <1>3, PopFacts
  <1>5. /\ jobs \in Seq(Waiting)
        /\ \A j \in ToSet(jobs) : /\ Walkable(e.inode) /\ j.parent = e.id
                                  /\ \E h \in NamesIn(e) : h.inode = j.inode /\ h.name = j.name
        /\ Walkable(e.inode) => \A h \in NamesIn(e) : \E j \in ToSet(jobs) : j.inode = h.inode
    <2>1. /\ jobs \in Seq(Waiting)
          /\ \A i \in DOMAIN jobs :
               /\ Walkable(e.inode) /\ jobs[i].parent = e.id
               /\ \E h \in NamesIn(e) : h.inode = jobs[i].inode /\ h.name = jobs[i].name
          /\ Walkable(e.inode) => \A h \in NamesIn(e) : \E i \in DOMAIN jobs : jobs[i].inode = h.inode
      BY <1>1, <1>3, JobsFacts
    <2>2. ToSet(jobs) = {jobs[i] : i \in DOMAIN jobs}
      BY DEF ToSet
    <2> HIDE DEF jobs
    <2> QED
      BY <2>1, <2>2
  <1> HIDE DEF job, jobs
  <1>6. ToSet(queue') = ToSet(Tail(queue)) \cup ToSet(jobs)
    BY <1>1, <1>4, <1>5, ToSetConcat DEF jobs
  <1>7. /\ Listed' = Listed \cup {e}
        /\ Walked' = Walked \cup {d \in {e} : ~d.scanned /\ Walkable(d.inode)}
    BY <1>1, ListedGrows
  <1>8. /\ \A n, name, parent : IsNamedIn(n, name, parent) => IsNamedIn(n, name, parent)'
        /\ \A n, name, parent : IsLeftIn(n, name, parent) => IsLeftIn(n, name, parent)'
        /\ \A n : IsListed(n) => IsListed(n)'
        /\ \A n : Readable(n)' = Readable(n)
        /\ \A d : NamesIn(d)' = NamesIn(d)
        /\ \A extents : Remnants(extents)' = Remnants(extents)
    BY <1>3, <1>7, NamesStay
  <1>9. IsListed(e.id)'
    BY <1>1, <1>7 DEF IsListed
  <1>10. ParentsAreVisited'
    <2>1. CASE visited = {}
      <3> DEFINE root == [inode |-> RootInode, parent |-> RootInode, name |-> ""]
      <3>1. queue = <<root>>
        BY <2>1 DEF WalkInv, ParentsAreVisited
      <3>2. root.inode = RootInode
        OBVIOUS
      <3> HIDE DEF root
      <3>3. RootInode \in visited' /\ ToSet(Tail(queue)) = {}
        BY <1>1, <3>1, <3>2, LastJob
      <3> QED
        BY <1>1, <1>5, <1>6, <3>3 DEF ParentsAreVisited
    <2>2. CASE visited # {}
      BY <1>1, <1>4, <1>5, <1>6, <2>2 DEF WalkInv, ParentsAreVisited
    <2> QED
      BY <2>1, <2>2
  <1>11. VisitedAreListed'
    BY <1>1, <1>3, <1>7, <1>8, <1>9 DEF WalkInv, VisitedAreListed
  <1>12. QueuedAreNamed'
    <2>1. ASSUME NEW q \in ToSet(queue'), q.inode # RootInode
          PROVE  IsNamedIn(q.inode, q.name, q.parent)'
      <3>1. CASE q \in ToSet(Tail(queue))
        BY <1>4, <1>8, <2>1, <3>1 DEF WalkInv, QueuedAreNamed
      <3>2. CASE q \in ToSet(jobs)
        <4>1. e \in Walked' /\ q.parent = e.id
          BY <1>1, <1>5, <1>7, <3>2
        <4>2. \E h \in NamesIn(e) : h.inode = q.inode /\ h.name = q.name
          BY <1>5, <3>2
        <4> QED
          BY <1>8, <4>1, <4>2 DEF IsNamedIn
      <3> QED
        BY <1>6, <2>1, <3>1, <3>2
    <2> QED
      BY <1>3, <2>1 DEF QueuedAreNamed
  <1>13. ListedAreNamed'
    <2>1. ASSUME e.id # RootInode PROVE IsNamedIn(e.id, e.name, e.parent)'
      BY <1>1, <1>4, <1>8, <2>1 DEF WalkInv, QueuedAreNamed, job
    <2> QED
      BY <1>1, <1>7, <1>8, <2>1 DEF WalkInv, ListedAreNamed
  <1>14. NamedAreQueued'
    <2> SUFFICES ASSUME NEW d \in Walked', NEW h \in NamesIn(d), Readable(h.inode)
                 PROVE  IsListed(h.inode)' \/ \E q \in ToSet(queue') : q.inode = h.inode
      BY <1>8 DEF NamedAreQueued
    <2>1. CASE d \in Walked
      <3>1. IsListed(h.inode) \/ \E q \in ToSet(queue) : q.inode = h.inode
        BY <2>1 DEF WalkInv, NamedAreQueued
      <3>2. job.inode = h.inode => IsListed(h.inode)'
        BY <1>1, <1>9 DEF job
      <3> QED
        BY <1>4, <1>6, <1>8, <3>1, <3>2
    <2>2. CASE d = e
      <3>1. Walkable(e.inode)
        BY <1>7, <2>2, <1>1, <1>5 DEF Walked
      <3> QED
        BY <1>5, <1>6, <2>2, <3>1
    <2> QED
      BY <1>7, <2>1, <2>2
  <1>15. RememberedAreLeft'
    <2>1. /\ \A m \in DOMAIN residual : m \in DOMAIN residual' /\ residual'[m] = residual[m]
          /\ \A m \in DOMAIN residual' \ DOMAIN residual :
               /\ Walkable(e.inode) /\ residual'[m].parent = e.id
               /\ \E h \in ToSet(Remnants(e.extents)) : h.inode = m /\ h.name = residual'[m].name
          /\ Walkable(e.inode) => \A h \in ToSet(Remnants(e.extents)) :
               h.inode \in DOMAIN residual' \/ h.inode \in visited'
      BY <1>1, <1>2, RememberedFacts
    <2>2. ASSUME NEW r \in Kept' PROVE IsLeftIn(r.inode, r.name, r.parent)'
      <3>1. PICK m \in DOMAIN residual' :
              r.inode = m /\ r.name = residual'[m].name /\ r.parent = residual'[m].parent
        BY DEF Kept
      <3>2. CASE m \in DOMAIN residual
        <4>1. PICK z \in Kept : z = [inode |-> m, name |-> residual[m].name, parent |-> residual[m].parent]
          BY <3>2 DEF Kept
        <4>2. IsLeftIn(z.inode, z.name, z.parent)
          BY DEF WalkInv, RememberedAreLeft
        <4>3. z.inode = r.inode /\ z.name = r.name /\ z.parent = r.parent
          BY <2>1, <3>1, <3>2, <4>1
        <4> QED
          BY <1>8, <4>2, <4>3
      <3>3. CASE m \notin DOMAIN residual
        <4>1. /\ Walkable(e.inode) /\ r.parent = e.id
              /\ \E h \in ToSet(Remnants(e.extents)) : h.inode = r.inode /\ h.name = r.name
          BY <2>1, <3>1, <3>3
        <4>2. e \in Walked'
          BY <1>1, <1>7, <4>1
        <4> QED
          BY <1>8, <4>1, <4>2 DEF IsLeftIn
      <3> QED
        BY <3>2, <3>3
    <2>3. ASSUME NEW d \in Walked', NEW h \in ToSet(Remnants(d.extents))
          PROVE  h.inode \in DOMAIN residual' \cup visited'
      <3>1. CASE d \in Walked
        BY <1>1, <2>1, <2>3, <3>1 DEF WalkInv, RememberedAreLeft
      <3>2. CASE d = e
        <4>1. Walkable(e.inode)
          <5>1. e \notin Walked \/ Walkable(e.inode)
            BY DEF Walked
          <5> QED
            BY <1>7, <3>2, <5>1
        <4> QED
          BY <2>1, <2>3, <3>2, <4>1
      <3> QED
        BY <1>7, <3>1, <3>2
    <2> QED
      BY <1>8, <2>2, <2>3 DEF RememberedAreLeft
  <1> QED
    BY <1>10, <1>11, <1>12, <1>13, <1>14, <1>15 DEF WalkInv

(* A deleted inode that the scan lists disturbs nothing of this: the walk  *)
(* is over, and what the scan lists is not walked.                         *)
LEMMA ListDeletedStep ==
  ASSUME TypeOK, WalkInv, ListDeleted
  PROVE  WalkInv'
  <1>1. PICK e \in Entry :
          /\ status = "scanning" /\ e.scanned /\ e.id \notin visited
          /\ visited' = visited \cup {e.id} /\ found' = Append(found, e)
    BY ListDeletedFacts
  <1>2. UNCHANGED <<volume, queue, residual, status>>
    BY DEF ListDeleted, walkVars
  <1>3. Listed' = Listed \cup {e} /\ Walked' = Walked
    <2>1. {d \in {e} : ~d.scanned /\ Walkable(d.inode)} = {}
      BY <1>1
    <2> QED
      BY <1>1, <2>1, ListedGrows
  <1>4. Kept' = Kept
    BY <1>2 DEF Kept
  <1>5. /\ \A n, name, parent : IsNamedIn(n, name, parent) => IsNamedIn(n, name, parent)'
        /\ \A n, name, parent : IsLeftIn(n, name, parent) => IsLeftIn(n, name, parent)'
        /\ \A n : IsListed(n) => IsListed(n)'
        /\ \A n : Readable(n)' = Readable(n)
        /\ \A d : NamesIn(d)' = NamesIn(d)
        /\ \A extents : Remnants(extents)' = Remnants(extents)
    BY <1>2, <1>3, NamesStay
  <1>6. ParentsAreVisited'
    BY <1>1, <1>2 DEF WalkInv, ParentsAreVisited
  <1>7. VisitedAreListed'
    BY <1>1, <1>2 DEF VisitedAreListed
  <1>8. QueuedAreNamed'
    BY <1>2, <1>5 DEF WalkInv, QueuedAreNamed
  <1>9. ListedAreNamed'
    BY <1>1, <1>3, <1>5 DEF WalkInv, ListedAreNamed
  <1>10. NamedAreQueued'
    BY <1>2, <1>3, <1>5 DEF WalkInv, NamedAreQueued
  <1>11. RememberedAreLeft'
    BY <1>1, <1>2, <1>3, <1>4, <1>5 DEF WalkInv, RememberedAreLeft
  <1> QED
    BY <1>6, <1>7, <1>8, <1>9, <1>10, <1>11 DEF WalkInv

LEMMA InvStep ==
  ASSUME TypeOK, WalkInv, [Next]_vars
  PROVE  WalkInv'
  <1>1. CASE SkipVisited
    <2>1. /\ queue \in Seq(Waiting) /\ queue # << >> /\ queue' = Tail(queue) /\ status = "walking"
          /\ Head(queue).inode = 0 \/ Head(queue).inode \in visited
          /\ UNCHANGED <<volume, residual, visited, found, status>>
      BY <1>1 DEF TypeOK, SkipVisited, Popped, IsNew, Job
    <2>2. ToSet(queue) = {Head(queue)} \cup ToSet(queue')
      BY <2>1, PopFacts
    <2>3. visited # {}
      <3> DEFINE root == [inode |-> RootInode, parent |-> RootInode, name |-> ""]
      <3>1. root.inode = 2
        BY DEF RootInode
      <3> HIDE DEF root
      <3>2. ASSUME queue = <<root>>, visited = {} PROVE FALSE
        BY <2>1, <3>1, <3>2, LastJob
      <3> QED
        BY <3>2 DEF WalkInv, ParentsAreVisited, root
    <2> QED
      BY <2>1, <2>2, <2>3, QuietStep
  <1>2. CASE BeginScan \/ NextGroup \/ PassSlot \/ Finish
    <2>1. /\ UNCHANGED <<volume, residual, visited, found, queue>>
          /\ status' = status \/ (queue' = << >> /\ status' # "walking")
      BY <1>2 DEF BeginScan, NextGroup, PassSlot, Finish, walkVars, scanVars, WalkInv, QueuedAreNamed
    <2>2. visited = {} => queue # << >> /\ status = "walking"
      <3>1. \A x : <<x>> # << >>
        OBVIOUS
      <3> QED
        BY <3>1 DEF WalkInv, ParentsAreVisited
    <2>3. status # "walking" => queue' = << >>
      BY <2>1 DEF WalkInv, QueuedAreNamed
    <2>4. visited = {} => UNCHANGED <<queue, status>>
      BY <2>1, <2>2
    <2> QED
      BY <2>1, <2>3, <2>4, QuietStep
  <1>3. CASE UNCHANGED vars
    <2>1. UNCHANGED <<volume, residual, visited, found, queue, status>>
      BY <1>3 DEF vars, walkVars, scanVars
    <2>2. status # "walking" => queue' = << >>
      BY <2>1 DEF WalkInv, QueuedAreNamed
    <2> QED
      BY <2>1, <2>2, QuietStep
  <1> QED
    BY <1>1, <1>2, <1>3, UnreadableStep, VisitStep, ListDeletedStep DEF Next

(* The investigation stays within its data, and on its way the list, the   *)
(* queue and the remembered names agree with what the directories hold.    *)
THEOREM Ext4IsTyped == Spec => [](TypeOK /\ WalkInv)
  BY InitInv, TypeStep, InvStep, PTL DEF Spec

(* The walk loses no inode with a name, whatever loops, hard links and     *)
(* damage the volume has, and lists nothing under a name it does not have. *)
THEOREM NamedAreListed == Spec => []NamedInodesAreListed
  <1>1. TypeOK /\ WalkInv => NamedInodesAreListed
    <2> SUFFICES ASSUME TypeOK, WalkInv, status = "done" PROVE NamedInodesAreListed
      BY DEF NamedInodesAreListed
    <2>1. ToSet(queue) = {}
      BY LastJob DEF WalkInv, QueuedAreNamed
    <2>2. \A d \in Walked : \A h \in NamesIn(d) : Readable(h.inode) => IsListed(h.inode)
      BY <2>1 DEF WalkInv, NamedAreQueued
    <2>3. \A e \in Listed : ~e.scanned /\ e.id # RootInode => IsNamedIn(e.id, e.name, e.parent)
      BY DEF WalkInv, ListedAreNamed
    <2> QED
      BY <2>2, <2>3 DEF NamedInodesAreListed, IsListed, IsNamedIn
  <1> QED
    BY <1>1, Ext4IsTyped, PTL

-----------------------------------------------------------------------------
(* Where the scan may have the name and the directory of an entry from.    *)
NameIsLeft(e) ==
  LET Left(d) == {[name |-> h.name, parent |-> d.id] :
                    h \in {x \in ToSet(Remnants(d.extents)) : x.inode = e.id}}
      left == UNION {Left(d) : d \in Walked}
  IN  [name |-> e.name, parent |-> e.parent] \in
        IF left = {} THEN {[name |-> InodeName(e.id), parent |-> RootInode]} ELSE left

LEMMA NameIsLeftIf ==
  ASSUME NEW e,
         \/ IsLeftIn(e.id, e.name, e.parent)
         \/ /\ e.name = InodeName(e.id) /\ e.parent = RootInode
            /\ \A d \in Walked : \A h \in ToSet(Remnants(d.extents)) : h.inode # e.id
  PROVE  NameIsLeft(e)
  <1> DEFINE Left(d) == {[name |-> h.name, parent |-> d.id] :
                           h \in {x \in ToSet(Remnants(d.extents)) : x.inode = e.id}}
             left == UNION {Left(d) : d \in Walked}
  <1>1. CASE IsLeftIn(e.id, e.name, e.parent)
    <2>1. PICK d \in Walked :
            /\ d.id = e.parent
            /\ \E h \in ToSet(Remnants(d.extents)) : h.inode = e.id /\ h.name = e.name
      BY <1>1 DEF IsLeftIn
    <2>2. [name |-> e.name, parent |-> e.parent] \in Left(d)
      BY <2>1
    <2>3. [name |-> e.name, parent |-> e.parent] \in left
      BY <2>2
    <2> HIDE DEF left
    <2>4. left # {}
      BY <2>3
    <2> QED
      BY <2>3, <2>4 DEF NameIsLeft, left
  <1>2. CASE /\ e.name = InodeName(e.id) /\ e.parent = RootInode
             /\ \A d \in Walked : \A h \in ToSet(Remnants(d.extents)) : h.inode # e.id
    <2>1. left = {}
      BY <1>2
    <2> QED
      BY <1>2, <2>1 DEF NameIsLeft
  <1> QED
    BY <1>1, <1>2

LEMMA ScannedStep ==
  ASSUME TypeOK, WalkInv, ScannedNamesAreRemnants, [Next]_vars, WalkInv'
  PROVE  ScannedNamesAreRemnants'
  <1>1. \A e \in Listed : e.scanned => NameIsLeft(e)
    BY DEF ScannedNamesAreRemnants, NameIsLeft
  <1>2. SUFFICES \A e \in Listed' : e.scanned => NameIsLeft(e)'
    BY DEF ScannedNamesAreRemnants, NameIsLeft
  <1>3. CASE status' = "walking"
    BY <1>3 DEF WalkInv, VisitedAreListed
  <1>4. ASSUME volume' = volume, Walked' = Walked
        PROVE  \A e : NameIsLeft(e)' = NameIsLeft(e)
    <2>1. \A extents : Remnants(extents)' = Remnants(extents)
      BY <1>4, SameVolume
    <2> QED
      BY <1>4, <2>1 DEF NameIsLeft
  <1>5. CASE BeginScan \/ NextGroup \/ PassSlot \/ Finish \/ UNCHANGED vars
    <2>1. UNCHANGED <<volume, found>>
      BY <1>5 DEF BeginScan, NextGroup, PassSlot, Finish, vars, walkVars, scanVars
    <2>2. Listed' = Listed /\ Walked' = Walked
      BY <2>1 DEF Listed, Walked, Walkable
    <2> QED
      BY <1>1, <1>4, <2>1, <2>2
  <1>6. CASE ListDeleted
    <2>1. PICK e \in Entry :
            /\ e.scanned /\ e.id \notin visited
            /\ IF e.id \in DOMAIN residual
                 THEN e.name = residual[e.id].name /\ e.parent = residual[e.id].parent
                 ELSE e.name = InodeName(e.id) /\ e.parent = RootInode
            /\ found' = Append(found, e)
      BY <1>6, ListDeletedFacts
    <2>2. Listed' = Listed \cup {e} /\ Walked' = Walked
      <3>1. {d \in {e} : ~d.scanned /\ Walkable(d.inode)} = {}
        BY <2>1
      <3> QED
        BY <2>1, <3>1, ListedGrows
    <2>3. volume' = volume
      BY <1>6 DEF ListDeleted
    <2>4. NameIsLeft(e)
      <3>1. CASE e.id \in DOMAIN residual
        <4>1. PICK r \in Kept : r = [inode |-> e.id, name |-> residual[e.id].name, parent |-> residual[e.id].parent]
          BY <3>1 DEF Kept
        <4>2. IsLeftIn(r.inode, r.name, r.parent)
          BY DEF WalkInv, RememberedAreLeft
        <4>3. r.inode = e.id /\ r.name = e.name /\ r.parent = e.parent
          BY <2>1, <3>1, <4>1
        <4> QED
          BY <4>2, <4>3, NameIsLeftIf
      <3>2. CASE e.id \notin DOMAIN residual
        <4>1. \A d \in Walked : \A h \in ToSet(Remnants(d.extents)) : h.inode # e.id
          BY <2>1, <3>2 DEF WalkInv, RememberedAreLeft
        <4> QED
          BY <2>1, <3>2, <4>1, NameIsLeftIf
      <3> QED
        BY <3>1, <3>2
    <2> QED
      BY <1>1, <1>4, <2>2, <2>3, <2>4
  <1>7. CASE SkipVisited \/ SkipUnreadable \/ Visit
    <2>1. status' = "walking"
      BY <1>7 DEF SkipVisited, SkipUnreadable, Visit, Popped
    <2> QED
      BY <1>3, <2>1
  <1> QED
    BY <1>5, <1>6, <1>7 DEF Next

(* A deleted inode gets the name that is left of it in a walked directory, *)
(* and a made up one only if none is left in any.                          *)
THEOREM ScannedHaveTheirNames == Spec => []ScannedNamesAreRemnants
  <1>1. Init => ScannedNamesAreRemnants
    <2> SUFFICES ASSUME Init PROVE ScannedNamesAreRemnants
      OBVIOUS
    <2>1. found = << >>
      BY DEF Init
    <2>2. Listed = {}
      BY <2>1 DEF Listed
    <2> QED
      BY <2>2 DEF ScannedNamesAreRemnants
  <1> QED
    BY <1>1, ScannedStep, Ext4IsTyped, PTL DEF Spec

-----------------------------------------------------------------------------
(* Every entry has the extents that its inode was resolved to.             *)
ListedAreResolved == \A e \in Listed : e.extents = ExtentsOf(e.inode)

LEMMA ResolvedStep ==
  ASSUME TypeOK, ListedAreResolved, [Next]_vars
  PROVE  ListedAreResolved'
  <1>1. volume' = volume
    BY DEF Next, SkipVisited, SkipUnreadable, Visit, BeginScan, NextGroup, PassSlot, ListDeleted,
           Finish, vars
  <1>2. \A inode : ExtentsOf(inode)' = ExtentsOf(inode)
    BY <1>1 DEF ExtentsOf
  <1>3. CASE Visit \/ ListDeleted
    <2>1. PICK e \in Entry : e.extents = ExtentsOf(e.inode) /\ found' = Append(found, e)
      BY <1>3, VisitFacts, ListDeletedFacts
    <2>2. Listed' = Listed \cup {e}
      BY <2>1, ListedGrows
    <2> QED
      BY <1>2, <2>1, <2>2 DEF ListedAreResolved
  <1>4. CASE UNCHANGED found
    <2>1. Listed' = Listed
      BY <1>4 DEF Listed
    <2> QED
      BY <1>2, <2>1 DEF ListedAreResolved
  <1> QED
    BY <1>3, <1>4 DEF Next, SkipVisited, SkipUnreadable, BeginScan, NextGroup, PassSlot, Finish, vars

(* Whatever the extent tree of an inode looks like on the disk, its        *)
(* extents are resolved in full, and its blocks are laid out where they say*)
THEOREM Ext4ContentIsOfTheExtents == Spec => []ContentFollowsExtents
  <1>1. Init => ListedAreResolved
    <2> SUFFICES ASSUME Init PROVE ListedAreResolved
      OBVIOUS
    <2>1. found = << >>
      BY DEF Init
    <2> QED
      BY <2>1 DEF ListedAreResolved, Listed
  <1>2. TypeOK /\ ListedAreResolved => ContentFollowsExtents
    <2> SUFFICES ASSUME TypeOK, ListedAreResolved, NEW e \in Listed
                 PROVE  /\ ResolvesTree(volume.blocks, e.inode.tree)
                        /\ ~IsInline(e) /\ Disjoint(e.extents) =>
                             LayoutFollows(ToForensicEntry(e).layout, e.extents)
      BY DEF ContentFollowsExtents
    <2>1. e.inode.tree \in Node /\ e.inode \in Inode
      BY ListedTyped DEF Entry, Inode
    <2>2. /\ DOMAIN volume.blocks \subseteq Nat \ {0} /\ DOMAIN volume.blocks \subseteq Nat
          /\ \A b \in DOMAIN volume.blocks : volume.blocks[b] \in Block
      BY VolumeFacts DEF TypeOK
    <2>3. ResolvesTree(volume.blocks, e.inode.tree)
      BY <2>1, <2>2, TreeIsResolvedInFull
    <2>4. e.extents = ResolveExtents(volume.blocks, e.inode.tree)
      BY DEF ListedAreResolved, ExtentsOf
    <2>5. e.extents \in Seq(Extent) /\ InLogicalOrder(e.extents)
      BY <2>1, <2>2, <2>4, ExtentsFacts DEF InLogicalOrder
    <2>6. ASSUME ~IsInline(e), Disjoint(e.extents)
          PROVE  LayoutFollows(ToForensicEntry(e).layout, e.extents)
      <3>1. ToForensicEntry(e).layout = ExtentLayout(e.extents)
        BY <2>6 DEF ToForensicEntry, Layout
      <3> QED
        BY <2>5, <2>6, <3>1, LayoutIsFollowed
    <2> QED
      BY <2>3, <2>6
  <1> QED
    BY <1>1, <1>2, ResolvedStep, Ext4IsTyped, PTL DEF Spec

-----------------------------------------------------------------------------
(* The promise of an investigation.                                        *)
LEMMA PromiseStep ==
  ASSUME TypeOK, WalkInv, [Next]_vars
  PROVE  [Promise!Next]_(Promise!promiseVars)
  <1>1. ASSUME NEW e \in Entry, status \in {"walking", "scanning"},
               status' = status, e.id \notin visited, visited' = visited \cup {e.id},
               found' = Append(found, e), e.parent \in Promise!Above(e.id)
        PROVE  Promise!Identify
    <2>1. found \in Seq(Entry)
      BY DEF TypeOK
    <2>2. Shown(found') = Append(Shown(found), [id |-> e.id, parent |-> e.parent])
      BY <1>1, <2>1, ShownAppend
    <2>3. e.id \in visited' \ visited
      BY <1>1
    <2> QED
      BY <1>1, <2>2, <2>3 DEF Promise!Identify, Shown
  <1>2. CASE Visit
    <2>1. PICK e \in Entry :
            /\ status = "walking" /\ queue # << >> /\ e.id = Head(queue).inode
            /\ e.parent = Head(queue).parent
            /\ e.id \notin visited /\ visited' = visited \cup {e.id} /\ found' = Append(found, e)
      BY <1>2, VisitFacts
    <2>2. e.parent \in Promise!Above(e.id)
      <3>1. CASE visited = {}
        <4> DEFINE root == [inode |-> RootInode, parent |-> RootInode, name |-> ""]
        <4>1. root.inode = RootInode /\ root.parent = RootInode
          OBVIOUS
        <4>2. queue = <<root>>
          BY <3>1 DEF WalkInv, ParentsAreVisited
        <4> HIDE DEF root
        <4>3. e.parent = e.id
          BY <2>1, <4>1, <4>2, LastJob
        <4> QED
          BY <3>1, <4>3 DEF Promise!Above
      <3>2. CASE visited # {}
        <4>1. Head(queue) \in ToSet(queue)
          BY <2>1, PopFacts DEF TypeOK
        <4>2. e.parent \in visited
          BY <2>1, <3>2, <4>1 DEF WalkInv, ParentsAreVisited
        <4> QED
          BY <3>2, <4>2 DEF Promise!Above
      <3> QED
        BY <3>1, <3>2
    <2>3. status' = status
      BY <1>2 DEF Visit
    <2> QED
      BY <1>1, <2>1, <2>2, <2>3 DEF Promise!Next
  <1>3. CASE ListDeleted
    <2>1. PICK e \in Entry :
            /\ status = "scanning" /\ e.id \notin visited
            /\ IF e.id \in DOMAIN residual
                 THEN e.name = residual[e.id].name /\ e.parent = residual[e.id].parent
                 ELSE e.name = InodeName(e.id) /\ e.parent = RootInode
            /\ visited' = visited \cup {e.id} /\ found' = Append(found, e)
      BY <1>3, ListDeletedFacts
    <2>2. e.parent \in visited
      <3>1. CASE e.id \in DOMAIN residual
        <4>1. PICK r \in Kept : r = [inode |-> e.id, name |-> residual[e.id].name, parent |-> residual[e.id].parent]
          BY <3>1 DEF Kept
        <4>2. IsLeftIn(r.inode, r.name, r.parent) /\ r.parent = e.parent
          BY <2>1, <3>1, <4>1 DEF WalkInv, RememberedAreLeft
        <4>3. \E d \in Listed : d.id = e.parent
          BY <4>2 DEF IsLeftIn, Walked
        <4> QED
          BY <4>3 DEF WalkInv, ListedAreNamed
      <3>2. CASE e.id \notin DOMAIN residual
        BY <2>1, <3>2 DEF WalkInv, ParentsAreVisited
      <3> QED
        BY <3>1, <3>2
    <2>3. e.parent \in Promise!Above(e.id)
      BY <2>2 DEF Promise!Above
    <2>4. status' = status
      BY <1>3 DEF ListDeleted
    <2> QED
      BY <1>1, <2>1, <2>3, <2>4 DEF Promise!Next
  <1>4. CASE SkipUnreadable
    <2>1. /\ status = "walking" /\ UNCHANGED <<found, status>>
          /\ Job.inode \notin visited /\ visited' = visited \cup {Job.inode}
      BY <1>4 DEF SkipUnreadable, Popped, IsNew
    <2>2. Promise!Identify
      BY <2>1 DEF Promise!Identify
    <2> QED
      BY <2>2 DEF Promise!Next
  <1>5. CASE Finish
    <2>1. status = "scanning" /\ status' = "done" /\ UNCHANGED <<visited, found>>
      BY <1>5 DEF Finish
    <2> QED
      BY <2>1 DEF Promise!Next, Promise!End
  <1>6. CASE SkipVisited \/ BeginScan \/ NextGroup \/ PassSlot \/ UNCHANGED vars
    <2>1. UNCHANGED <<visited, found>> /\ (status' = "done" <=> status = "done")
      BY <1>6 DEF SkipVisited, BeginScan, NextGroup, PassSlot, Popped, Scanning, vars
    <2> QED
      BY <2>1 DEF Promise!promiseVars
  <1> QED
    BY <1>2, <1>3, <1>4, <1>5, <1>6 DEF Next

(* The EXT4 investigation implements the promise that the tree and the     *)
(* recovery by id build on, deleted inodes included.                       *)
THEOREM Ext4KeepsPromise == Spec => KeepsPromise
  <1>1. Init => Promise!Init
    <2> SUFFICES ASSUME Init PROVE Promise!Init
      OBVIOUS
    <2>1. visited = {} /\ found = << >> /\ status = "walking"
      BY DEF Init
    <2>2. Shown(found) = << >>
      BY <2>1 DEF Shown
    <2> QED
      BY <2>1, <2>2 DEF Promise!Init, Shown
  <1> QED
    BY <1>1, PromiseStep, Ext4IsTyped, PTL DEF Spec, KeepsPromise, Promise!Spec
=============================================================================
