------------------------------- MODULE MCExt4 -------------------------------
(***************************************************************************)
(* Small EXT4 volumes: three groups of four inodes, with bitmaps of eight  *)
(* bits whose upper half is padding; a root whose extents lie in the inode,*)
(* one or two levels below it, in a loop or behind an unreadable block;    *)
(* directories that lead back, grow beyond their size or are malformed,    *)
(* hard links, deleted inodes with and without a remnant of their name.    *)
(***************************************************************************)
EXTENDS Ext4Investigation

MCInodeName(n) == "inode-" \o ToString(n)

Ext(logical, physical, length) ==
  [logical |-> logical, physical |-> physical, length |-> length, initialized |-> TRUE]
Unwritten(logical, physical, length) ==
  [Ext(logical, physical, length) EXCEPT !.initialized = FALSE]

Leaf(extents) ==
  [valid |-> TRUE, depth |-> 0, extents |-> extents, children |-> << >>, cut |-> FALSE]
Index(depth, children) ==
  [valid |-> TRUE, depth |-> depth, extents |-> << >>, children |-> children, cut |-> FALSE]
NoNode == [Leaf(<< >>) EXCEPT !.valid = FALSE]

Object(type, size, links, extents) ==
  [type |-> type, size |-> size, inline |-> FALSE, dtime |-> 0, links |-> links,
   tree |-> Leaf(extents)]
Dir(size, extents) == Object("directory", size, 2, extents)
File(extents) == Object("other", 4, 1, extents)
Gone(inode) == [inode EXCEPT !.dtime = 7, !.links = 0]
Link == [Object("symlink", 1, 1, << >>) EXCEPT !.inline = TRUE, !.tree = NoNode]
Empty == Object("other", 0, 1, << >>)

Head4(inode, name, live) == [inode |-> inode, name |-> name, live |-> live]
Root1 == <<Head4(2, ".", TRUE), Head4(2, "..", TRUE), Head4(3, "d", TRUE),
           Head4(4, "f", FALSE), Head4(5, "g", TRUE), Head4(3, "e", TRUE)>>
Sub1 == <<Head4(3, ".", TRUE), Head4(2, "..", TRUE), Head4(2, "u", TRUE), Head4(0, "o", TRUE),
          Head4(7, "r", FALSE), Head4(6, "x", TRUE)>>
Sub2 == <<Head4(8, "z", TRUE), Head4(13, "w", TRUE), Head4(4, "h", FALSE), Head4(7, "s", FALSE)>>

BlockOf(headers, malformed, node) ==
  [headers |-> headers, malformed |-> malformed, node |-> node]

Roots == {Leaf(<<Ext(0, 1, 1)>>), Index(1, <<4>>), Index(2, <<5>>)}
Upper == {Index(1, <<4>>), Index(1, <<5>>), Index(1, <<4, 6>>)}
Thirds == {Dir(1, <<Ext(0, 2, 2)>>), Gone(Dir(2, <<Ext(0, 2, 2)>>)), Link,
           File(<<Ext(3, 8, 1), Unwritten(1, 9, 1), Ext(0, 7, 1)>>)}
Fourths == {File(<<Ext(1, 7, 2)>>), Gone(File(<<Ext(1, 7, 2)>>)),
            [File(<< >>) EXCEPT !.dtime = 7]}
Seconds == {<<Dir(2, <<Ext(0, 2, 2)>>), Empty, Gone(File(<<Ext(0, 8, 1)>>)), Gone(Dir(1, <<Ext(0, 3, 1)>>))>>,
            <<Gone(Empty), Empty, Empty, Gone(Empty), Gone(Link)>>}
Bits == {{0, 1, 2, 3}, {1, 3, 4, 5, 6, 7}}

GroupWith(table, bad, bits, inodeBitmap, blockBitmap) ==
  [table |-> table, bad |-> bad, bits |-> bits,
   inodeBitmap |-> inodeBitmap, blockBitmap |-> blockBitmap]

MCVolumes ==
  {[inodesCount |-> 12,
    groups |-> [g \in 0..2 |->
      CASE g = 0 -> GroupWith(<<Empty, [Dir(1, << >>) EXCEPT !.tree = root], third, fourth>>,
                              IF damage = "root" THEN {1} ELSE {}, bits, TRUE, TRUE)
        [] g = 1 -> GroupWith(second, {}, bits, damage # "bitmap", TRUE)
        [] g = 2 -> GroupWith(<<Gone(Empty), Empty, Empty, Empty>>, {}, bits, TRUE, damage # "bitmap")],
    blocks |-> [b \in 1..5 |->
      CASE b = 1 -> BlockOf(Root1, FALSE, NoNode)
        [] b = 2 -> BlockOf(Sub1, damage = "block", NoNode)
        [] b = 3 -> BlockOf(Sub2, FALSE, NoNode)
        [] b = 4 -> BlockOf(<< >>, FALSE, Leaf(<<Ext(0, 1, 1)>>))
        [] b = 5 -> BlockOf(<< >>, FALSE, upper)]] :
      root \in Roots, upper \in Upper, third \in Thirds, fourth \in Fourths, second \in Seconds,
      bits \in Bits, damage \in {"none", "root", "bitmap", "block"}}
=============================================================================
