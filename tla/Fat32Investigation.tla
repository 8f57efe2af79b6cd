------------------------- MODULE Fat32Investigation -------------------------
(***************************************************************************)
(* investigate_filesystem (filesystem/fat32/investigation.rs): the walk    *)
(* from the root directory that registers every file, directory and label  *)
(* of a FAT32 volume and hands out the object ids.  Directories wait in a  *)
(* queue; a directory is read cluster by cluster and slot by slot.         *)
(***************************************************************************)
EXTENDS Fat32Volume

VARIABLES queue,        \* the directories still to walk
          visitedDirs,  \* first clusters that were ever put into the queue
          nextId,       \* next_id
          found,        \* entries
          discarded,    \* the entries behind the counter noise_discarded
          self,         \* object id of the directory being walked
          chain,        \* its clusters still to be read
          slot,         \* the next slot of the first of them
          lfn,          \* the long name collected so far
          status        \* "walking", "done" or "failed"

dirVars == <<self, chain, slot, lfn>>
listVars == <<queue, visitedDirs, nextId, found, discarded>>
vars == <<volume, walk, listVars, dirVars, status>>

NoLfn == [pending |-> FALSE, units |-> << >>]

Job == [cluster : Nat, parent : Nat, name : Seq(Symbols)]
Entry == [id : Nat, parent : Nat, name : Seq(Symbols), type : {"label", "directory", "file"},
          deleted : BOOLEAN, size : Nat, cluster : Nat, chain : Seq(Nat)]

Init ==
  /\ volume \in Volumes
  /\ queue = <<[cluster |-> volume.root, parent |-> 1, name |-> << >>]>>
  /\ visitedDirs = {volume.root}
  /\ nextId = 1
  /\ found = << >> /\ discarded = << >>
  /\ self = 0 /\ chain = << >> /\ slot = 1 /\ lfn = NoLfn
  /\ walk = NoWalk
  /\ status = "walking"

(* Mutant: repeated names are not looked for. *)
AddEntry_NoFilter(e) == found' = Append(found, e) /\ UNCHANGED discarded

(* add_entry: seen holds the parent and name of every entry found.         *)
AddEntry(e) ==
  IF \E i \in DOMAIN found : found[i].parent = e.parent /\ found[i].name = e.name
    THEN discarded' = Append(discarded, e) /\ UNCHANGED found
    ELSE found' = Append(found, e) /\ UNCHANGED discarded

(* Mutant: the object id is handed out again. *)
TakeId_Keeps == UNCHANGED nextId

(* An id is taken whether the entry is discarded or not. *)
TakeId == nextId' = nextId + 1

Idle == status = "walking" /\ walk = NoWalk
Between == Idle /\ chain = << >> /\ queue # << >>

(* The gate before a chain is walked; the root has no markers.             *)
Admitted(c) == c = volume.root \/ (Readable(c) /\ HasMarkers(volume.slots[c]))

(* Mutant: a directory that is skipped stays in the queue. *)
SkipDirectory_Keeps ==
  /\ Between
  /\ LET c == Head(queue).cluster IN
       InRange(c) => ~Admitted(c) /\ Readable(c)
  /\ UNCHANGED vars

(* A start outside the range, or recycled file payload: nothing is         *)
(* registered, the directory itself included.                              *)
SkipDirectory ==
  /\ Between
  /\ LET c == Head(queue).cluster IN
       InRange(c) => ~Admitted(c) /\ Readable(c)
  /\ queue' = Tail(queue)
  /\ UNCHANGED <<volume, walk, visitedDirs, nextId, found, discarded, dirVars, status>>

StartDirectory ==
  /\ Between
  /\ LET c == Head(queue).cluster IN
       /\ InRange(c) /\ Admitted(c)
       /\ BeginWalk("directory", c, Total)
  /\ UNCHANGED <<volume, listVars, dirVars, status>>

Fail == status' = "failed" /\ UNCHANGED <<volume, walk, listVars, dirVars>>

(* An error of the gate's read or of walk_chain ends the investigation.    *)
DirectoryFails ==
  /\ \/ /\ Between
        /\ LET c == Head(queue).cluster IN InRange(c) /\ ~Admitted(c) /\ ~Readable(c)
     \/ status = "walking" /\ walk.for = "directory" /\ Broken
  /\ Fail

(* The directory is registered, never as deleted, and its chain taken up.  *)
EnterDirectory ==
  /\ status = "walking" /\ walk.for = "directory" /\ Complete
  /\ LET job == Head(queue) IN
       AddEntry([id |-> nextId, parent |-> job.parent, name |-> job.name,
                 type |-> "directory", deleted |-> FALSE, size |-> 0,
                 cluster |-> job.cluster, chain |-> walk.clusters])
  /\ self' = nextId /\ TakeId
  /\ chain' = walk.clusters /\ slot' = 1 /\ lfn' = NoLfn
  /\ walk' = NoWalk
  /\ queue' = Tail(queue)
  /\ UNCHANGED <<volume, visitedDirs, status>>

Extend ==
  /\ status = "walking"
  /\ FollowChain
  /\ UNCHANGED <<volume, listVars, dirVars, status>>

-----------------------------------------------------------------------------
Walking == Idle /\ chain # << >>
Slots == volume.slots[Head(chain)]
AtSlot == Walking /\ Readable(Head(chain)) /\ slot \in DOMAIN Slots /\ Slots[slot].type # "end"

ClusterFails ==
  /\ Walking /\ ~Readable(Head(chain))
  /\ Fail

(* The slots of a cluster end with the cluster or an end mark; a long name *)
(* does not reach over into the next cluster.                              *)
NextCluster ==
  /\ Walking /\ Readable(Head(chain))
  /\ slot \in DOMAIN Slots => Slots[slot].type = "end"
  /\ chain' = Tail(chain)
  /\ slot' = 1 /\ lfn' = NoLfn
  /\ UNCHANGED <<volume, walk, listVars, self, status>>

CollectLongName ==
  /\ AtSlot /\ Slots[slot].type = "long"
  /\ lfn' = [pending |-> TRUE, units |-> lfn.units \o Slots[slot].name]
  /\ slot' = slot + 1
  /\ UNCHANGED <<volume, walk, listVars, self, chain, status>>

(* build_leaf_name: the long name of a deleted slot is taken on trust.     *)
LeafName(s) == IF lfn.pending /\ (s.match \/ IsDeleted(s)) THEN lfn.units ELSE ShortName(s)

(* Names that are binary, "." and ".." are passed over. *)
Passed(s) == ~Plausible(LeafName(s)) \/ (s.name # << >> /\ s.name[1] = Dot)

(* A directory to be queued: its first cluster was never queued before.    *)
Unseen(s) == s.cluster >= 2 /\ s.cluster \notin visitedDirs

NextSlot == slot' = slot + 1 /\ lfn' = NoLfn /\ UNCHANGED <<volume, self, chain, status>>

AtLeaf(type) == AtSlot /\ Slots[slot].type = type /\ ~Passed(Slots[slot])

PassSlot ==
  /\ AtSlot
  /\ LET s == Slots[slot] IN
       /\ s.type # "long"
       /\ Passed(s) \/ (s.type = "directory" /\ ~Unseen(s))
  /\ NextSlot
  /\ UNCHANGED <<walk, listVars>>

(* A label shows its eleven bytes as they are. *)
RegisterLabel ==
  /\ AtLeaf("label")
  /\ AddEntry([id |-> nextId, parent |-> self, name |-> Slots[slot].name, type |-> "label",
               deleted |-> FALSE, size |-> 0, cluster |-> 0, chain |-> << >>])
  /\ TakeId /\ NextSlot
  /\ UNCHANGED <<walk, queue, visitedDirs>>

JobOf(s) == [cluster |-> s.cluster, parent |-> self, name |-> LeafName(s)]

EnqueueDirectory ==
  /\ AtLeaf("directory")
  /\ LET s == Slots[slot] IN
       /\ Unseen(s)
       /\ visitedDirs' = visitedDirs \cup {s.cluster}
       /\ queue' = Append(queue, JobOf(s))
  /\ NextSlot
  /\ UNCHANGED <<walk, nextId, found, discarded>>

HasChain(s) == s.cluster >= 2 /\ s.size > 0

StartFile ==
  /\ AtLeaf("file") /\ HasChain(Slots[slot])
  /\ BeginWalk("file", Slots[slot].cluster, Slots[slot].size)
  /\ UNCHANGED <<volume, listVars, dirVars, status>>

(* resolve_file_chain: an error leaves the file without clusters.          *)
Resolved == IF Broken THEN << >> ELSE walk.clusters

RegisterFile ==
  /\ status = "walking" /\ chain # << >>
  /\ \/ walk.for = "file" /\ (Complete \/ Broken)
     \/ AtLeaf("file") /\ ~HasChain(Slots[slot])
  /\ LET s == Slots[slot] IN
       AddEntry([id |-> nextId, parent |-> self, name |-> LeafName(s), type |-> "file",
                 deleted |-> IsDeleted(s), size |-> s.size, cluster |-> s.cluster,
                 chain |-> IF walk.for = "file" THEN Resolved ELSE << >>])
  /\ TakeId /\ NextSlot
  /\ walk' = NoWalk
  /\ UNCHANGED <<queue, visitedDirs>>

Finish ==
  /\ Idle /\ chain = << >> /\ queue = << >>
  /\ status' = "done"
  /\ UNCHANGED <<volume, walk, listVars, dirVars>>

Next == SkipDirectory \/ StartDirectory \/ Extend \/ DirectoryFails \/ EnterDirectory
          \/ ClusterFails \/ NextCluster \/ CollectLongName \/ PassSlot \/ RegisterLabel
          \/ EnqueueDirectory \/ StartFile \/ RegisterFile \/ Finish

(* The investigation is one synchronous call: it goes on.                  *)
Spec == Init /\ [][Next]_vars /\ WF_vars(Next)

-----------------------------------------------------------------------------
TypeOK ==
  /\ IsVolume(volume)
  /\ walk \in Walk /\ Len(walk.clusters) <= walk.max
  /\ queue \in Seq(Job)
  /\ visitedDirs \subseteq Nat
  /\ nextId \in Nat \ {0}
  /\ found \in Seq(Entry) /\ discarded \in Seq(Entry)
  /\ self \in Nat /\ chain \in Seq(Nat) /\ slot \in Nat \ {0}
  /\ lfn \in [pending : BOOLEAN, units : Seq(Symbols)]
  /\ status \in {"walking", "done", "failed"}

Registered == {found[i] : i \in DOMAIN found} \cup {discarded[i] : i \in DOMAIN discarded}

(* Object ids identify: no two entries that were ever made, the discarded  *)
(* ones included, share one.  The tree and the recovery by id rely on it.  *)
ObjectIdsAreUnique == \A d, e \in Registered : d.id = e.id => d = e

(* The guard of the queue: no two directories start at the same cluster,   *)
(* whatever the slots say, so none is walked twice.                        *)
DirectoriesWalkedOnce ==
  \A d, e \in Registered :
    d.type = "directory" /\ e.type = "directory" /\ d.cluster = e.cluster => d = e

(* What is recovered of a file is read along its chain in the FAT, within  *)
(* the recorded size, and a loop is left at the first cluster met again.   *)
ChainsFollowFat == \A e \in Registered : FollowsFat(e)

(* A table whose entries are end marks or clusters in range, on a device   *)
(* that can read them.                                                     *)
Sound == /\ \A c \in 2..Total : \/ volume.fat[c] < 2
                                \/ volume.fat[c] \in 2..Total
                                \/ volume.fat[c] >= BadCluster
         /\ 2..Total \subseteq DOMAIN volume.slots

(* Damaged slots alone never end the investigation (the comment at the     *)
(* head of walk_directory): it fails only on a damaged table or device.    *)
OnlyDamageFails == status = "failed" => ~Sound

(* Loops in the table and directories inside each other do not keep it     *)
(* going for ever.                                                         *)
InvestigationEnds == <>(status # "walking")

(* The promise every file system gives: ids come from one counter, and     *)
(* what the filter discards has taken one too.                             *)
Promise == INSTANCE InvestigationPromise
  WITH issued  <- 1..(nextId - 1),
       listed  <- [i \in DOMAIN found |-> [id |-> found[i].id, parent |-> found[i].parent]],
       outcome <- status
KeepsPromise == Promise!Spec
=============================================================================
