-------------------------- MODULE Ext4Investigation --------------------------
(***************************************************************************)
(* investigate_filesystem_with_progress (filesystem/ext4/investigation.rs):*)
(* the walk from the root inode through the directories, and behind it the *)
(* scan of all inode tables for deleted inodes that no directory names any *)
(* more.  Nothing it meets makes it fail.                                  *)
(***************************************************************************)
EXTENDS Ext4Volume, EntryPaths

VARIABLES queue,     \* the inodes still to visit, with parent and name
          visited,   \* numbers of the inodes visited or listed
          residual,  \* residual_names: inode -> name and directory
          found,     \* entries
          group,     \* the block group being scanned
          slot,      \* the next slot of its table, from zero
          status     \* "walking", "scanning" or "done"

scanVars == <<group, slot>>
walkVars == <<queue, residual>>
vars == <<volume, walkVars, visited, found, scanVars, status>>

Init ==
  /\ volume \in Volumes
  /\ queue = <<[inode |-> RootInode, parent |-> RootInode, name |-> ""]>>
  /\ visited = {}
  /\ residual = << >>
  /\ found = << >>
  /\ group = 0 /\ slot = 0
  /\ status = "walking"

(* build_entry; scanned tells which of the two ways found it.              *)
EntryFor(n, origin, inode, extents, allocated, scanned) ==
  [id |-> n, parent |-> origin.parent, name |-> origin.name, inode |-> inode,
   extents |-> extents, allocated |-> allocated, scanned |-> scanned]

Popped == status = "walking" /\ queue # << >>
Job == Head(queue)

(* Mutant: an inode may be visited again. *)
IsNew_Any(n) == n # 0

IsNew(n) == n # 0 /\ n \notin visited

SkipVisited ==
  /\ Popped /\ ~IsNew(Job.inode)
  /\ queue' = Tail(queue)
  /\ UNCHANGED <<volume, residual, visited, found, scanVars, status>>

(* An inode that cannot be read counts as visited and is not listed.       *)
SkipUnreadable ==
  /\ Popped /\ IsNew(Job.inode) /\ ~Readable(Job.inode)
  /\ visited' = visited \cup {Job.inode}
  /\ queue' = Tail(queue)
  /\ UNCHANGED <<volume, residual, found, scanVars, status>>

(* Only directories that are not deleted are looked into. *)
Walkable(inode) == inode.type = "directory" /\ inode.dtime = 0

Jobs(n, extents) ==
  IF Walkable(InodeAt(n))
    THEN LET entries == DirectoryEntries(InodeAt(n), extents)
         IN  [i \in DOMAIN entries |-> [inode |-> entries[i].inode, parent |-> n,
                                        name |-> entries[i].name]]
    ELSE << >>

(* Mutant: the remnants of a directory without entries are not looked at.  *)
Remembered_Skipped(n, extents) ==
  LET remnants == Remnants(extents)
      news == {h.inode : h \in ToSet(remnants)} \ (visited \cup {n})
      NameOf(m) == LET IsOf(h) == h.inode = m IN remnants[SelectInSeq(remnants, IsOf)].name
  IN  IF Jobs(n, extents) # << >>
        THEN [m \in DOMAIN residual \cup news |->
                 IF m \in DOMAIN residual THEN residual[m] ELSE [name |-> NameOf(m), parent |-> n]]
        ELSE residual

(* A walked directory gives the inodes that no directory named before and  *)
(* that were not visited yet the first name it holds for each.             *)
Remembered(n, extents) ==
  LET remnants == Remnants(extents)
      news == {h.inode : h \in ToSet(remnants)} \ (visited \cup {n})
      NameOf(m) == LET IsOf(h) == h.inode = m IN remnants[SelectInSeq(remnants, IsOf)].name
  IN  IF Walkable(InodeAt(n))
        THEN [m \in DOMAIN residual \cup news |->
                 IF m \in DOMAIN residual THEN residual[m] ELSE [name |-> NameOf(m), parent |-> n]]
        ELSE residual

Visit ==
  /\ Popped /\ IsNew(Job.inode) /\ Readable(Job.inode)
  /\ LET n == Job.inode IN
       \E extents \in {ExtentsOf(InodeAt(n))} :
         /\ visited' = visited \cup {n}
         /\ queue' = Tail(queue) \o Jobs(n, extents)
         /\ residual' = Remembered(n, extents)
         /\ found' = Append(found, EntryFor(n, Job, InodeAt(n), extents,
                                            IsAllocated(BitmapOf(GroupOf(n)), n), FALSE))
  /\ UNCHANGED <<volume, scanVars, status>>

BeginScan ==
  /\ status = "walking" /\ queue = << >>
  /\ status' = "scanning"
  /\ UNCHANGED <<volume, walkVars, visited, found, scanVars>>

-----------------------------------------------------------------------------
Scanning == status = "scanning" /\ group < Groups
Table == volume.groups[group].table

NextGroup ==
  /\ Scanning
  /\ ~GroupReadable(group) \/ slot >= Len(Table)
  /\ group' = group + 1 /\ slot' = 0
  /\ UNCHANGED <<volume, walkVars, visited, found, status>>

(* The number of the inode in the slot; a table that is longer than the    *)
(* group goes on with the numbers of the next one.                         *)
Number == group * InodesPerGroup + slot + 1

IsDeleted(inode) == inode.dtime # 0 /\ inode.links = 0

Wanted == /\ Number \notin visited
          /\ IsAllocated(volume.groups[group].bits, Number)
          /\ IsDeleted(Table[slot + 1])

PassSlot ==
  /\ Scanning /\ GroupReadable(group) /\ slot < Len(Table) /\ ~Wanted
  /\ slot' = slot + 1
  /\ UNCHANGED <<volume, walkVars, visited, found, group, status>>

(* The name and the directory of a remnant, or a name made of the number,  *)
(* below the root.                                                         *)
ListDeleted ==
  /\ Scanning /\ GroupReadable(group) /\ slot < Len(Table) /\ Wanted
  /\ LET origin == IF Number \in DOMAIN residual
                     THEN residual[Number] ELSE [name |-> InodeName(Number), parent |-> RootInode]
         inode == Table[slot + 1]
     IN  found' = Append(found, EntryFor(Number, origin, inode, ExtentsOf(inode), TRUE, TRUE))
  /\ visited' = visited \cup {Number}
  /\ slot' = slot + 1
  /\ UNCHANGED <<volume, walkVars, group, status>>

Finish ==
  /\ status = "scanning" /\ group = Groups
  /\ status' = "done"
  /\ UNCHANGED <<volume, walkVars, visited, found, scanVars>>

Next == SkipVisited \/ SkipUnreadable \/ Visit \/ BeginScan
          \/ NextGroup \/ PassSlot \/ ListDeleted \/ Finish

(* The investigation is one synchronous call: it goes on.                  *)
Spec == Init /\ [][Next]_vars /\ WF_vars(Next)

-----------------------------------------------------------------------------
Listed == {found[i] : i \in DOMAIN found}

Walked == {d \in Listed : ~d.scanned /\ Walkable(d.inode)}

(* The blocks that a directory reaches with its size, and what they name.  *)
Reached(d) ==
  {b \in DOMAIN volume.blocks : \E e \in ToSet(d.extents) :
     /\ HoldsData(e)
     /\ b - e.physical \in 0..(e.length - 1)
     /\ e.logical + b - e.physical < d.inode.size}
NamesIn(d) ==
  {h \in UNION {ToSet(ParsedIn(b)) : b \in Reached(d)} : IsLive(h)}

(* The walk lists what the directories name: in the end every readable     *)
(* inode that has a name in a walked one, and nothing but the root that    *)
(* does not have its name in its parent.                                   *)
NamedInodesAreListed ==
  status = "done" =>
    /\ \A d \in Walked : \A h \in NamesIn(d) :
         Readable(h.inode) => \E e \in Listed : e.id = h.inode /\ ~e.scanned
    /\ \A e \in Listed : ~e.scanned /\ e.id # RootInode =>
         \E d \in Walked : /\ d.id = e.parent
                           /\ \E h \in NamesIn(d) : h.inode = e.id /\ h.name = e.name

(* Names of deleted inodes: the scan takes name and directory from what is *)
(* left of them in a walked directory, and makes up a name only if nothing *)
(* is left.                                                                *)
ScannedNamesAreRemnants ==
  \A e \in Listed : e.scanned =>
    LET Left(d) == {[name |-> h.name, parent |-> d.id] :
                      h \in {x \in ToSet(Remnants(d.extents)) : x.inode = e.id}}
        left == UNION {Left(d) : d \in Walked}
    IN  [name |-> e.name, parent |-> e.parent] \in
          IF left = {} THEN {[name |-> InodeName(e.id), parent |-> RootInode]} ELSE left

(* What the scan has to find, in one group: an inode of its table that is  *)
(* deleted and whose bit in the bitmap of the group is set.                *)
DeletedAreListedIn(g) ==
  GroupReadable(g) =>
    \A i \in 1..InodesPerGroup :
      /\ i - 1 \in volume.groups[g].bits
      /\ IsDeleted(volume.groups[g].table[i])
      => g * InodesPerGroup + i \in IdsOf(found)

(* What the description of the investigation says: in every group.         *)
DeletedAreListed == status = "done" => \A g \in 0..(Groups - 1) : DeletedAreListedIn(g)

(* Damaged structures, loops among directories or in extent trees do not   *)
(* keep the investigation going for ever.                                  *)
InvestigationEnds == <>(status = "done")

(* The promise every file system gives: an inode is identified when it is  *)
(* visited, whether it can be read or not.                                 *)
Promise == INSTANCE InvestigationPromise
  WITH issued  <- visited,
       listed  <- [i \in DOMAIN found |-> [id |-> found[i].id, parent |-> found[i].parent]],
       outcome <- IF status = "done" THEN "done" ELSE "walking"
KeepsPromise == Promise!Spec

(* Objects are identified once, listed below identified parents and the    *)
(* outcome is final, and there always is one.                              *)
KeepsPromiseAndEnds == KeepsPromise /\ InvestigationEnds

-----------------------------------------------------------------------------
(* What becomes of the entries in the forensic model                       *)
(* (ext4/investigation_entry.rs, to_forensic_model).                       *)
Kind(e) == CASE e.inode.type = "other" -> "file" [] OTHER -> e.inode.type

(* is_deleted of an entry, weaker than the one the scan asks for.          *)
IsGone(e) == e.inode.dtime # 0 \/ e.inode.links = 0

IsSystem(e) == e.id = 1 \/ e.id \in 3..10

(* The target of a fast symbolic link, kept in the inode itself.           *)
IsInline(e) == e.inode.type = "symlink" /\ e.inode.inline

ForensicStatus(e) ==
  CASE IsGone(e) -> "deleted"
    [] ~IsGone(e) /\ IsSystem(e) -> "system"
    [] ~IsGone(e) /\ ~IsSystem(e) /\ Kind(e) # "directory" /\ e.inode.size > 0
         /\ e.extents = << >> /\ ~IsInline(e) -> "inconsistent"
    [] OTHER -> "normal"

Layout(e) == IF IsInline(e) THEN <<Segment("inline", 0, 1, NoRegion)>> ELSE ExtentLayout(e.extents)

ToForensicEntry(e) ==
  [id |-> e.id, parent |-> e.parent, kind |-> Kind(e), status |-> ForensicStatus(e),
   realSize |-> e.inode.size, allocated |-> ~IsGone(e), bitmapAllocated |-> e.allocated,
   layout |-> Layout(e), regions |-> ExtentRegions(e.extents),
   path |-> ResolvePath(found, e.id)]

ForensicEntries == {ToForensicEntry(e) : e \in Listed}

-----------------------------------------------------------------------------
(* Content: the tree of an inode is resolved in full, and the layout has   *)
(* every block of a file where the extents put it, with holes for the      *)
(* blocks between them.                                                    *)
ContentFollowsExtents ==
  \A e \in Listed :
    /\ ResolvesTree(volume.blocks, e.inode.tree)
    /\ ~IsInline(e) /\ Disjoint(e.extents) => LayoutFollows(ToForensicEntry(e).layout, e.extents)
=============================================================================
