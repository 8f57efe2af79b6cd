----------------------------- MODULE Ext4Volume -----------------------------
(***************************************************************************)
(* What an EXT4 volume holds, as far as the investigation looks at it, and *)
(* how it is read: block groups with a bitmap and a table of inodes, and   *)
(* blocks with directory entries or nodes of extent trees                  *)
(* (filesystem/ext4/{filesystem,reader,inode_locator,directory}.rs).       *)
(***************************************************************************)
EXTENDS ExtentTrees

CONSTANTS InodesPerGroup,  \* inodes_per_group
          Groups,          \* number of block group descriptors
          Names,           \* names of directory entries
          Dots,            \* ".", ".." and the empty name
          InodeName(_),    \* the name "inode-N" made for inode N
          Volumes          \* the volumes that may be given

RootInode == 2

(* size is in blocks, rounded up; inline tells that it fits into i_block,  *)
(* dtime is zero or not.                                                   *)
Inode == [type : {"directory", "symlink", "other"}, size : Nat, inline : BOOLEAN,
          dtime : Nat, links : Nat, tree : Node]

(* Something in a block that looks like a directory entry, in the order of *)
(* its offset: live are those on the chain of record lengths from the      *)
(* start of the block, the others are remnants between them.               *)
Header == [inode : Nat, name : Names, live : BOOLEAN]

(* A readable block; malformed tells that parse_block gives it up.         *)
Block == [headers : Seq(Header), malformed : BOOLEAN, node : Node]

(* A block group: bits are the numbers of the set bits of its inode        *)
(* bitmap, table the inodes that its inode table holds, bad those that     *)
(* cannot be read.                                                         *)
Group == [table : Seq(Inode), bad : SUBSET Nat, bits : SUBSET Nat,
          inodeBitmap : BOOLEAN, blockBitmap : BOOLEAN]

IsVolume(v) == /\ v.inodesCount \in Nat
               /\ DOMAIN v.groups = 0..(Groups - 1)
               /\ \A g \in DOMAIN v.groups : v.groups[g] \in Group
               /\ DOMAIN v.blocks \subseteq Nat \ {0}
               /\ \A b \in DOMAIN v.blocks : v.blocks[b] \in Block

ASSUME Ext4Assumption ==
  /\ InodesPerGroup \in Nat \ {0} /\ Groups \in Nat \ {0}
  /\ Dots \subseteq Names
  /\ \A v \in Volumes : /\ IsVolume(v)
                        /\ \A g \in DOMAIN v.groups : Len(v.groups[g].table) >= InodesPerGroup

VARIABLE volume

GroupOf(n) == (n - 1) \div InodesPerGroup
IndexOf(n) == (n - 1) % InodesPerGroup

(* locate_inode and the read of a single inode. *)
Readable(n) == /\ n \in 1..volume.inodesCount
               /\ GroupOf(n) < Groups
               /\ IndexOf(n) \notin volume.groups[GroupOf(n)].bad

InodeAt(n) == volume.groups[GroupOf(n)].table[IndexOf(n) + 1]

(* An unreadable bitmap counts as one without a single bit. *)
BitmapOf(g) == IF g < Groups /\ volume.groups[g].inodeBitmap THEN volume.groups[g].bits ELSE {}

(* Bits are numbered from zero and inodes from one: the caller hands over  *)
(* the number of the inode in the volume, not the one in its group.        *)
IsAllocated(bits, n) == n # 0 /\ n - 1 \in bits

(* read_block_group: both bitmaps and the whole table, or nothing.         *)
GroupReadable(g) == LET group == volume.groups[g]
                    IN  group.blockBitmap /\ group.inodeBitmap /\ group.bad = {}

ExtentsOf(inode) == ResolveExtents(volume.blocks, inode.tree)

HoldsData(e) == e.initialized /\ e.length > 0

BlocksOf(e) == [i \in 1..e.length |-> e.physical + i - 1]

(* Mutant: the size of the directory is not looked at. *)
BlocksBelow_All(e, size) == IF HoldsData(e) THEN BlocksOf(e) ELSE << >>

(* The blocks of an extent that the directory reaches with its size.       *)
BlocksBelow(e, size) ==
  SubSeq(BlocksOf(e), 1,
         CASE ~HoldsData(e) \/ e.logical >= size -> 0
           [] HoldsData(e) /\ e.logical < size /\ e.logical + e.length > size -> size - e.logical
           [] OTHER -> e.length)

IsNamed(h) == h.inode # 0 /\ h.name \notin Dots
IsLive(h) == h.live /\ IsNamed(h)

HeadersIn(b) == IF b \in DOMAIN volume.blocks THEN volume.blocks[b].headers ELSE << >>

ParsedIn(b) == IF b \in DOMAIN volume.blocks /\ ~volume.blocks[b].malformed
                 THEN HeadersIn(b) ELSE << >>

(* Lists appended one behind the other in a loop. *)
Concat(list(_), s) ==
  LET joined[n \in 0..Len(s)] == IF n = 0 THEN << >> ELSE joined[n - 1] \o list(s[n])
  IN  joined[Len(s)]

OnlyIf(test, x) == IF test THEN <<x>> ELSE << >>

LiveIn(b) == LET Live(h) == OnlyIf(IsLive(h), h) IN Concat(Live, ParsedIn(b))

NamedIn(b) == LET Named(h) == OnlyIf(IsNamed(h), h) IN Concat(Named, HeadersIn(b))

(* read_directory_entries, without the entries its caller leaves out.      *)
DirectoryEntries(inode, extents) ==
  LET Blocks(e) == BlocksBelow(e, inode.size)
  IN  Concat(LiveIn, Concat(Blocks, extents))

(* scan_directory_for_deleted: whatever looks like an entry in any block   *)
(* of the directory, beyond its size and the live ones included.           *)
Remnants(extents) ==
  LET Blocks(e) == IF HoldsData(e) THEN BlocksOf(e) ELSE << >>
  IN  Concat(NamedIn, Concat(Blocks, extents))
=============================================================================
