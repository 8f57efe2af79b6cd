---------------------------- MODULE ExtentTrees ----------------------------
(***************************************************************************)
(* The extents of an inode: the tree that starts in the inode and goes on  *)
(* in blocks (filesystem/ext4/extent_tree.rs), and the content layout that *)
(* the forensic model gets from them (ext4/investigation_entry.rs).        *)
(***************************************************************************)
EXTENDS Integers, SequencesExt, FiniteSetsExt

CONSTANTS MaxTreeDepth,      \* MAX_EXTENT_TREE_DEPTH
          SectorsPerBlock    \* sectors of 512 bytes in a block

ASSUME ExtentAssumption == MaxTreeDepth \in Nat /\ SectorsPerBlock \in Nat \ {0}

Extent == [logical : Nat, physical : Nat, length : Nat, initialized : BOOLEAN]

(* A node: valid is what the header parser says of it, a depth of zero     *)
(* makes it a leaf; cut tells that its count reaches over its bytes.       *)
Node == [valid : BOOLEAN, depth : Nat, extents : Seq(Extent), children : Seq(Nat),
         cut : BOOLEAN]

Unreadable == -1

(* Mutant: the walk never goes further down than one level. *)
DepthOf_One(root) == IF root.depth <= 1 THEN root.depth ELSE 1

(* The depth the walk may go down to. *)
DepthOf(root) == IF root.depth <= MaxTreeDepth THEN root.depth ELSE MaxTreeDepth

(* The node in block b, 0 standing for the one in the inode. *)
NodeAt(blocks, root, b) == IF b = 0 THEN root ELSE blocks[b].node

(* resolve_node: where the nodes are that it comes to, in order.  A node   *)
(* without a valid header has no children, and the depth counts down, so   *)
(* that a tree that leads back into itself comes to an end.                *)
ResolveNode(blocks, root) ==
  LET Descends(node, depth) == node.valid /\ node.depth > 0 /\ depth > 0
      Children(b) == NodeAt(blocks, root, b).children
      resolve[depth \in 0..MaxTreeDepth] ==
        [b \in {0} \cup DOMAIN blocks |->
           IF Descends(NodeAt(blocks, root, b), depth)
             THEN <<b>> \o FlattenSeq([i \in DOMAIN Children(b) |->
                                         IF Children(b)[i] \in DOMAIN blocks
                                           THEN resolve[depth - 1][Children(b)[i]]
                                           ELSE <<Unreadable>>])
             ELSE <<b>>]
  IN  resolve[DepthOf(root)][0]

(* A child that cannot be read, or a node that is cut off, is an error of  *)
(* the whole tree.                                                         *)
Fails(blocks, root, reached) ==
  \E b \in ToSet(reached) :
    b = Unreadable \/ (NodeAt(blocks, root, b).valid /\ NodeAt(blocks, root, b).cut)

ExtentsAt(node) == IF node.valid /\ node.depth = 0 THEN node.extents ELSE << >>

(* The stable sort by logical block. *)
SortByLogical(s) ==
  LET Before(i, j) == s[i].logical < s[j].logical \/ (s[i].logical = s[j].logical /\ i < j)
      PlaceOf(j) == 1 + Cardinality({i \in DOMAIN s : Before(i, j)})
  IN  [k \in DOMAIN s |-> s[CHOOSE j \in DOMAIN s : PlaceOf(j) = k]]

(* resolve_extents; its callers take no extents at all for an error.       *)
ResolveExtents(blocks, root) ==
  LET reached == ResolveNode(blocks, root)
      extents == FlattenSeq([i \in DOMAIN reached |-> ExtentsAt(NodeAt(blocks, root, reached[i]))])
  IN  IF Fails(blocks, root, reached) THEN << >> ELSE SortByLogical(extents)

-----------------------------------------------------------------------------
(* A tree as a file system writes it: every level one less deep, nothing   *)
(* unreadable or cut off; Nodes are those that hang below the root.        *)
Lower(blocks, above) ==
  LET inner == {n \in above : n.depth > 0}
  IN  above \cup {blocks[b].node : b \in DOMAIN blocks \cap UNION {ToSet(n.children) : n \in inner}}

Nodes(blocks, root) ==
  LET below[k \in 0..MaxTreeDepth] == IF k = 0 THEN {root} ELSE Lower(blocks, below[k - 1])
  IN  below[MaxTreeDepth]

IsTree(blocks, root) ==
  /\ root.depth <= MaxTreeDepth
  /\ \A n \in Nodes(blocks, root) :
       /\ n.valid /\ ~n.cut
       /\ n.depth > 0 => /\ ToSet(n.children) \subseteq DOMAIN blocks
                         /\ \A b \in ToSet(n.children) : blocks[b].node.depth = n.depth - 1

(* Then the result is every extent of every leaf, in logical order.        *)
ResolvesTree(blocks, root) ==
  IsTree(blocks, root) =>
    LET extents == ResolveExtents(blocks, root) IN
      /\ ToSet(extents) = UNION {ToSet(n.extents) : n \in {m \in Nodes(blocks, root) : m.depth = 0}}
      /\ \A i, j \in DOMAIN extents : i < j => extents[i].logical <= extents[j].logical

-----------------------------------------------------------------------------
RegionForExtent(e) ==
  [clusterStart |-> e.physical, clusterEnd |-> e.physical + e.length - 1,
   sectorStart |-> e.physical * SectorsPerBlock,
   sectorEnd |-> (e.physical + e.length) * SectorsPerBlock - 1]

NoRegion == [clusterStart |-> 0, clusterEnd |-> 0, sectorStart |-> 0, sectorEnd |-> 0]
Segment(kind, start, count, region) ==
  [kind |-> kind, logicalStart |-> start, count |-> count, region |-> region]

NextBlock(segments) ==
  IF segments = << >> THEN 0 ELSE Last(segments).logicalStart + Last(segments).count

(* The hole in front of an extent.  *)
Hole(segments, e) ==
  IF e.logical > NextBlock(segments)
    THEN <<Segment("sparse", NextBlock(segments), e.logical - NextBlock(segments), NoRegion)>>
    ELSE << >>

AddExtent(segments, e) ==
  LET before == segments \o Hole(segments, e)
      body == IF e.initialized
                THEN Segment("physical", NextBlock(before), e.length, RegionForExtent(e))
                ELSE Segment("sparse", NextBlock(before), e.length, NoRegion)
  IN  IF e.length = 0 THEN segments ELSE Append(before, body)

ExtentLayout(extents) ==
  LET layout[n \in 0..Len(extents)] ==
        IF n = 0 THEN << >> ELSE AddExtent(layout[n - 1], extents[n])
  IN  layout[Len(extents)]

(* physical_location: the regions of the extents that hold data.           *)
ExtentRegions(extents) ==
  LET HoldsData(e) == e.initialized /\ e.length > 0
      data == SelectSeq(extents, HoldsData)
  IN  [i \in DOMAIN data |-> RegionForExtent(data[i])]

(* What an extent says of block k of a file, and what a layout says.       *)
Covers(e, k) == e.logical <= k /\ k < e.logical + e.length
CoversBlock(s, k) == s.logicalStart <= k /\ k < s.logicalStart + s.count

Disjoint(extents) ==
  \A i, j \in DOMAIN extents :
    i # j => \/ extents[i].logical + extents[i].length <= extents[j].logical
             \/ extents[j].logical + extents[j].length <= extents[i].logical

(* The segments are contiguous from the start of the file on and place     *)
(* every block of an undamaged map where its extent has it: the first      *)
(* sector of the block, or a hole.                                         *)
LayoutFollows(layout, extents) ==
  /\ layout # << >> => layout[1].logicalStart = 0
  /\ \A i \in 2..Len(layout) :
       layout[i].logicalStart = layout[i - 1].logicalStart + layout[i - 1].count
  /\ \A k \in 0..(NextBlock(layout) - 1) : \A i \in DOMAIN layout :
       CoversBlock(layout[i], k) =>
         IF \E j \in DOMAIN extents : Covers(extents[j], k) /\ extents[j].initialized
           THEN \E j \in DOMAIN extents :
                  /\ Covers(extents[j], k) /\ layout[i].kind = "physical"
                  /\ layout[i].region.sectorStart + (k - layout[i].logicalStart) * SectorsPerBlock
                       = (extents[j].physical + k - extents[j].logical) * SectorsPerBlock
           ELSE layout[i].kind = "sparse"
  /\ \A j \in DOMAIN extents :
       extents[j].length > 0 => extents[j].logical + extents[j].length <= NextBlock(layout)
=============================================================================
