---------------------------- MODULE Fat32Proofs ----------------------------
(***************************************************************************)
(* Proofs about Fat32Investigation for every volume, whatever its table    *)
(* and its slots hold.  An object id is fresh because nextId is above all  *)
(* ids in use; a first cluster is walked once because the queue and the    *)
(* registered directories share no member; a chain follows the table       *)
(* because the running walk does; and no file is hidden because what lies  *)
(* behind the slot in hand has been taken.                                 *)
(***************************************************************************)
EXTENDS Fat32Content, InvestigationProofs

USE DEF Readable, InRange

(* The slot that is being read is one of the volume. *)
LEMMA SlotType ==
  ASSUME TypeOK, chain # << >>, Readable(Head(chain)), slot \in DOMAIN Slots
  PROVE  Slots[slot] \in Slot
  BY DEF TypeOK, IsVolume, Slots

(* Names are sequences of symbols, placeholders and long names included.   *)
LEMMA LeafNameType ==
  ASSUME TypeOK, NEW s \in Slot
  PROVE  LeafName(s) \in Seq(Symbols)
  <1>1. s.name \in Seq(Symbols) /\ lfn.units \in Seq(Symbols)
    BY DEF Slot, TypeOK
  <1>2. ShortName(s) \in Seq(Symbols)
    <2>1. CASE IsDeleted(s)
      <3>1. Tail(s.name) \in Seq(Symbols)
        BY <1>1, <2>1 DEF IsDeleted
      <3>2. <<Placeholder>> \in Seq(Symbols)
        BY VolumeAssumption
      <3> QED
        BY <2>1, <3>1, <3>2 DEF ShortName
    <2>2. CASE ~IsDeleted(s)
      BY <1>1, <2>2 DEF ShortName
    <2> QED
      BY <2>1, <2>2
  <1> QED
    BY <1>1, <1>2 DEF LeafName

(* Whether it is kept or discarded, an entry joins the registered ones.    *)
LEMMA AddEntryRegisters ==
  ASSUME TypeOK, NEW e \in Entry, AddEntry(e)
  PROVE  /\ found' \in Seq(Entry) /\ discarded' \in Seq(Entry)
         /\ Registered' = Registered \cup {e}
  <1>1. found \in Seq(Entry) /\ discarded \in Seq(Entry)
    BY DEF TypeOK
  <1>2. CASE discarded' = Append(discarded, e) /\ UNCHANGED found
    <2>1. {discarded'[i] : i \in DOMAIN discarded'} = {discarded[i] : i \in DOMAIN discarded} \cup {e}
      BY <1>1, <1>2
    <2> QED
      BY <1>1, <1>2, <2>1 DEF Registered
  <1>3. CASE found' = Append(found, e) /\ UNCHANGED discarded
    <2>1. {found'[i] : i \in DOMAIN found'} = {found[i] : i \in DOMAIN found} \cup {e}
      BY <1>1, <1>3
    <2> QED
      BY <1>1, <1>3, <2>1 DEF Registered
  <1> QED
    BY <1>2, <1>3 DEF AddEntry

(* The walk belongs to the directory at the head of the queue or to the    *)
(* file in the current slot, starts at its cluster and follows the table.  *)
WalkInv ==
  /\ walk.for = "nothing" => walk = NoWalk
  /\ walk.for # "nothing" =>
       /\ status = "walking" \/ status = "failed"
       /\ WalkFollows
  /\ walk.for = "directory" =>
       queue # << >> /\ chain = << >> /\ walk.clusters[1] = Head(queue).cluster
  /\ walk.for = "file" =>
       /\ chain # << >> /\ Readable(Head(chain)) /\ slot \in DOMAIN Slots
       /\ walk.clusters[1] = Slots[slot].cluster /\ walk.max = Slots[slot].size

(* The entries that the three registering steps make. *)
DirectoryEntry ==
  [id |-> nextId, parent |-> Head(queue).parent, name |-> Head(queue).name,
   type |-> "directory", deleted |-> FALSE, size |-> 0,
   cluster |-> Head(queue).cluster, chain |-> walk.clusters]
LabelEntry ==
  [id |-> nextId, parent |-> self, name |-> Slots[slot].name, type |-> "label",
   deleted |-> FALSE, size |-> 0, cluster |-> 0, chain |-> << >>]
FileEntry ==
  [id |-> nextId, parent |-> self, name |-> LeafName(Slots[slot]), type |-> "file",
   deleted |-> IsDeleted(Slots[slot]), size |-> Slots[slot].size,
   cluster |-> Slots[slot].cluster,
   chain |-> IF walk.for = "file" THEN Resolved ELSE << >>]

LEMMA DirectoryEntryType ==
  ASSUME TypeOK, queue # << >>
  PROVE  DirectoryEntry \in Entry
  <1>1. Head(queue) \in Job
    BY DEF TypeOK
  <1> QED
    BY <1>1 DEF DirectoryEntry, TypeOK, Job, Entry, Walk

LEMMA LabelEntryType ==
  ASSUME TypeOK, chain # << >>, Readable(Head(chain)), slot \in DOMAIN Slots
  PROVE  LabelEntry \in Entry
  <1>1. Slots[slot].name \in Seq(Symbols)
    BY SlotType DEF Slot
  <1>2. << >> \in Seq(Nat)
    OBVIOUS
  <1> QED
    BY <1>1, <1>2 DEF LabelEntry, Entry, TypeOK

LEMMA FileEntryType ==
  ASSUME TypeOK, chain # << >>, Readable(Head(chain)), slot \in DOMAIN Slots
  PROVE  FileEntry \in Entry
  <1>1. /\ LeafName(Slots[slot]) \in Seq(Symbols)
        /\ Slots[slot].size \in Nat /\ Slots[slot].cluster \in Nat
    BY SlotType, LeafNameType DEF Slot
  <1>2. << >> \in Seq(Nat) /\ walk.clusters \in Seq(Nat)
    BY DEF TypeOK, Walk
  <1>3. IsDeleted(Slots[slot]) \in BOOLEAN
    BY DEF IsDeleted
  <1> QED
    BY <1>1, <1>2, <1>3 DEF FileEntry, Resolved, Entry, TypeOK

(* A step registers the entry of its action, under the next id, or none.   *)
Registers(e) ==
  /\ found' \in Seq(Entry) /\ discarded' \in Seq(Entry)
  /\ Registered' = Registered \cup {e}
  /\ e \in Entry /\ e.id = nextId /\ nextId' = nextId + 1

LEMMA EnterStep ==
  ASSUME TypeOK, WalkInv, EnterDirectory
  PROVE  Registers(DirectoryEntry)
  <1>1. queue # << >> /\ AddEntry(DirectoryEntry) /\ nextId' = nextId + 1
    BY DEF WalkInv, EnterDirectory, TakeId, DirectoryEntry
  <1>2. DirectoryEntry \in Entry
    BY <1>1, DirectoryEntryType
  <1> QED
    BY <1>1, <1>2, AddEntryRegisters DEF Registers, DirectoryEntry

LEMMA LabelStep ==
  ASSUME TypeOK, RegisterLabel
  PROVE  Registers(LabelEntry)
  <1>1. /\ chain # << >> /\ Readable(Head(chain)) /\ slot \in DOMAIN Slots
        /\ AddEntry(LabelEntry) /\ nextId' = nextId + 1
    BY DEF RegisterLabel, AtLeaf, AtSlot, Walking, TakeId, LabelEntry
  <1>2. LabelEntry \in Entry
    BY <1>1, LabelEntryType
  <1> QED
    BY <1>1, <1>2, AddEntryRegisters DEF Registers, LabelEntry

LEMMA FileStep ==
  ASSUME TypeOK, WalkInv, RegisterFile
  PROVE  Registers(FileEntry) /\ chain # << >> /\ Readable(Head(chain)) /\ slot \in DOMAIN Slots
  <1>1. /\ chain # << >> /\ Readable(Head(chain)) /\ slot \in DOMAIN Slots
        /\ AddEntry(FileEntry) /\ nextId' = nextId + 1
    BY DEF RegisterFile, WalkInv, AtLeaf, AtSlot, Walking, TakeId, FileEntry
  <1>2. FileEntry \in Entry
    BY <1>1, FileEntryType
  <1> QED
    BY <1>1, <1>2, AddEntryRegisters DEF Registers, FileEntry

(* All other steps leave the entries alone. *)
Quiet == SkipDirectory \/ StartDirectory \/ Extend \/ DirectoryFails \/ ClusterFails
           \/ NextCluster \/ CollectLongName \/ PassSlot \/ EnqueueDirectory \/ StartFile
           \/ Finish \/ UNCHANGED vars

LEMMA QuietStep ==
  ASSUME Quiet
  PROVE  /\ UNCHANGED <<volume, nextId, found, discarded>>
         /\ Registered' = Registered
  <1>1. UNCHANGED <<volume, nextId, found, discarded>>
    BY DEF Quiet, SkipDirectory, StartDirectory, Extend, DirectoryFails, ClusterFails, Fail,
       NextCluster, CollectLongName, PassSlot, EnqueueDirectory, StartFile, Finish,
       NextSlot, listVars, vars
  <1> QED
    BY <1>1 DEF Registered

(* The volume is only read. *)
LEMMA VolumeStep == ASSUME [Next]_vars PROVE UNCHANGED volume
  BY DEF Next, SkipDirectory, StartDirectory, Extend, DirectoryFails, EnterDirectory, ClusterFails,
     Fail, NextCluster, CollectLongName, PassSlot, RegisterLabel, EnqueueDirectory, StartFile,
     RegisterFile, Finish, NextSlot, vars

-----------------------------------------------------------------------------
LEMMA InitType == Init => TypeOK /\ WalkInv
  <1> SUFFICES ASSUME Init PROVE TypeOK /\ WalkInv
    OBVIOUS
  <1>1. IsVolume(volume)
    BY VolumeAssumption, ChainAssumption DEF Init
  <1>2. /\ << >> \in Seq(Entry) /\ << >> \in Seq(Nat) /\ << >> \in Seq(Symbols)
        /\ walk = NoWalk /\ walk \in Walk /\ Len(walk.clusters) <= walk.max
    BY DEF Init, NoWalk, Walk
  <1>3. queue \in Seq(Job)
    <2>1. [cluster |-> volume.root, parent |-> 1, name |-> << >>] \in Job
      BY <1>1, <1>2 DEF Job, IsVolume
    <2> QED
      BY <2>1 DEF Init
  <1>4. visitedDirs \subseteq Nat
    BY <1>1 DEF Init, IsVolume
  <1> QED
    BY <1>1, <1>2, <1>3, <1>4 DEF Init, TypeOK, WalkInv, NoLfn, NoWalk

(* One round of walk_chain leaves everything but the walk alone.           *)
LEMMA ExtendFacts ==
  ASSUME TypeOK, WalkInv, Extend
  PROVE  /\ WalkTypeOK' /\ WalkFollows'
         /\ walk.for # "nothing" /\ walk'.for = walk.for /\ walk'.max = walk.max
         /\ walk'.clusters = Append(walk.clusters, volume.fat[LastCluster])
         /\ walk'.clusters[1] = walk.clusters[1]
         /\ InRange(LastCluster)
         /\ volume.fat[LastCluster] \in Nat /\ ~IsEnd(volume.fat[LastCluster])
         /\ UNCHANGED <<volume, listVars, dirVars, status>>
  <1>1. FollowChain /\ UNCHANGED <<volume, listVars, dirVars, status>>
    BY DEF Extend
  <1>2. WalkTypeOK /\ volume.fat \in [2..Total -> Nat]
    BY DEF TypeOK, WalkTypeOK, IsVolume
  <1>3. WalkFollows
    BY <1>1 DEF WalkInv, FollowChain
  <1> QED
    BY <1>1, <1>2, <1>3, FollowChainKeeps

LEMMA TypeStep ==
  ASSUME TypeOK, WalkInv, [Next]_vars
  PROVE  TypeOK'
  <1> USE DEF TypeOK
  <1>0. << >> \in Seq(Nat) /\ << >> \in Seq(Symbols) /\ NoLfn \in [pending : BOOLEAN, units : Seq(Symbols)]
        /\ NoWalk \in Walk /\ Len(NoWalk.clusters) <= NoWalk.max
    BY NoWalkType DEF NoLfn
  <1>1. CASE SkipDirectory
    BY <1>1 DEF SkipDirectory, Between, dirVars
  <1>2. CASE StartDirectory
    <2>1. walk' = [for |-> "directory", clusters |-> <<Head(queue).cluster>>, max |-> Total]
          /\ Head(queue).cluster \in 2..Total /\ Total \in Nat
      BY <1>2, ChainAssumption DEF StartDirectory, BeginWalk
    <2>2. walk' \in Walk /\ Len(walk'.clusters) <= walk'.max
      BY <2>1 DEF Walk
    <2> QED
      BY <1>2, <2>2 DEF StartDirectory, listVars, dirVars
  <1>3. CASE Extend
    BY <1>3, ExtendFacts DEF WalkTypeOK, listVars, dirVars
  <1>4. CASE DirectoryFails \/ ClusterFails
    BY <1>4 DEF DirectoryFails, ClusterFails, Fail, listVars, dirVars
  <1>5. CASE EnterDirectory
    <2>1. Registers(DirectoryEntry) /\ queue # << >>
      BY <1>5, EnterStep DEF WalkInv, EnterDirectory
    <2>2. walk.clusters \in Seq(Nat)
      BY DEF Walk
    <2> QED
      BY <1>0, <1>5, <2>1, <2>2 DEF EnterDirectory, Registers
  <1>6. CASE NextCluster
    BY <1>0, <1>6 DEF NextCluster, Walking, listVars
  <1>7. CASE CollectLongName
    <2>1. Slots[slot].name \in Seq(Symbols)
      BY <1>7, SlotType DEF CollectLongName, AtSlot, Walking, Slot
    <2>2. lfn' \in [pending : BOOLEAN, units : Seq(Symbols)]
      BY <1>7, <2>1 DEF CollectLongName
    <2> QED
      BY <1>7, <2>2 DEF CollectLongName, listVars
  <1>8. CASE PassSlot
    BY <1>0, <1>8 DEF PassSlot, NextSlot, listVars
  <1>9. CASE RegisterLabel
    <2>1. found' \in Seq(Entry) /\ discarded' \in Seq(Entry) /\ nextId' = nextId + 1
      BY <1>9, LabelStep DEF Registers
    <2>2. /\ slot' = slot + 1 /\ lfn' = NoLfn
          /\ UNCHANGED <<volume, walk, queue, visitedDirs, self, chain, status>>
      BY <1>9 DEF RegisterLabel, NextSlot
    <2> QED
      BY <1>0, <2>1, <2>2
  <1>10. CASE EnqueueDirectory
    <2>1. chain # << >> /\ Slots[slot] \in Slot
      BY <1>10, SlotType DEF EnqueueDirectory, AtLeaf, AtSlot, Walking
    <2>2. JobOf(Slots[slot]) \in Job
      <3>1. LeafName(Slots[slot]) \in Seq(Symbols) /\ Slots[slot].cluster \in Nat
        BY <2>1, LeafNameType DEF Slot
      <3> QED
        BY <2>1, <3>1 DEF JobOf, Job
    <2>3. Slots[slot].cluster \in Nat
      BY <2>1 DEF Slot
    <2>4. queue' \in Seq(Job) /\ visitedDirs' \subseteq Nat
      <3>1. /\ queue' = Append(queue, JobOf(Slots[slot]))
            /\ visitedDirs' = visitedDirs \cup {Slots[slot].cluster}
        BY <1>10 DEF EnqueueDirectory
      <3>2. queue \in Seq(Job) /\ visitedDirs \subseteq Nat
        OBVIOUS
      <3> DEFINE job == JobOf(Slots[slot])
      <3> HIDE DEF job
      <3>3. queue' = Append(queue, job) /\ job \in Job
        BY <2>2, <3>1 DEF job
      <3>4. queue' \in Seq(Job)
        BY <3>2, <3>3
      <3>5. visitedDirs' \subseteq Nat
        BY <2>3, <3>1, <3>2
      <3> QED
        BY <3>4, <3>5
    <2>5. /\ UNCHANGED <<volume, walk, nextId, found, discarded, self, chain, status>>
          /\ slot' = slot + 1 /\ lfn' = NoLfn
      BY <1>10 DEF EnqueueDirectory, NextSlot
    <2> QED
      BY <1>0, <2>4, <2>5
  <1>11. CASE StartFile
    <2>1. Slots[slot].cluster \in Nat /\ Slots[slot].size \in Nat \ {0}
      BY <1>11, SlotType DEF StartFile, AtLeaf, AtSlot, Walking, HasChain, Slot
    <2>2. walk' = [for |-> "file", clusters |-> <<Slots[slot].cluster>>, max |-> Slots[slot].size]
      BY <1>11 DEF StartFile, BeginWalk
    <2>3. walk' \in Walk /\ Len(walk'.clusters) <= walk'.max
      BY <2>1, <2>2 DEF Walk
    <2> QED
      BY <1>11, <2>3 DEF StartFile, listVars, dirVars
  <1>12. CASE RegisterFile
    <2>1. Registers(FileEntry)
      BY <1>12, FileStep
    <2>2. /\ UNCHANGED <<volume, queue, visitedDirs, self, chain, status>>
          /\ walk' = NoWalk /\ slot' = slot + 1 /\ lfn' = NoLfn
      BY <1>12 DEF RegisterFile, NextSlot
    <2>3. found' \in Seq(Entry) /\ discarded' \in Seq(Entry) /\ nextId' = nextId + 1
      BY <2>1 DEF Registers
    <2> QED
      BY <1>0, <2>2, <2>3
  <1>13. CASE Finish
    BY <1>13 DEF Finish, listVars, dirVars
  <1>14. CASE UNCHANGED vars
    BY <1>14 DEF vars, listVars, dirVars
  <1> QED
    BY <1>1, <1>2, <1>3, <1>4, <1>5, <1>6, <1>7, <1>8, <1>9, <1>10, <1>11, <1>12, <1>13, <1>14
       DEF Next

(* Only Extend changes a running walk; a cluster it goes on from was not   *)
(* met before, or the walk would have enough.                              *)
LEMMA WalkStep ==
  ASSUME TypeOK, WalkInv, [Next]_vars
  PROVE  WalkInv'
  <1>1. CASE walk' = NoWalk
    BY <1>1 DEF WalkInv, NoWalk
  <1>2. CASE StartDirectory
    <2>1. walk' = [for |-> "directory", clusters |-> <<Head(queue).cluster>>, max |-> Total]
          /\ queue # << >> /\ chain = << >> /\ status = "walking" /\ UNCHANGED <<queue, chain, status>>
      BY <1>2 DEF StartDirectory, BeginWalk, Between, Idle, listVars, dirVars
    <2> QED
      BY <2>1 DEF WalkInv, WalkFollows
  <1>3. CASE StartFile
    <2>1. /\ walk' = [for |-> "file", clusters |-> <<Slots[slot].cluster>>, max |-> Slots[slot].size]
          /\ chain # << >> /\ Readable(Head(chain)) /\ slot \in DOMAIN Slots
          /\ status = "walking" /\ UNCHANGED <<volume, chain, slot, status>>
      BY <1>3 DEF StartFile, BeginWalk, AtLeaf, AtSlot, Walking, Idle, dirVars
    <2> QED
      BY <2>1 DEF WalkInv, WalkFollows, Slots
  <1>4. CASE Extend
    <2>1. UNCHANGED <<volume, queue, chain, slot, status>>
      BY <1>4, ExtendFacts DEF listVars, dirVars
    <2>2. Slots' = Slots
      BY <2>1 DEF Slots
    <2> QED
      BY <1>4, <2>1, <2>2, ExtendFacts DEF WalkInv
  <1>5. CASE DirectoryFails \/ ClusterFails
    <2>1. UNCHANGED <<volume, walk, queue, chain, slot>> /\ status' = "failed"
      BY <1>5 DEF DirectoryFails, ClusterFails, Fail, listVars, dirVars
    <2> QED
      BY <2>1 DEF WalkInv, WalkFollows, Slots
  <1>6. CASE UNCHANGED vars
    BY <1>6 DEF WalkInv, WalkFollows, Slots, vars, listVars, dirVars
  <1>7. CASE SkipDirectory \/ EnterDirectory \/ NextCluster \/ CollectLongName \/ PassSlot
              \/ RegisterLabel \/ EnqueueDirectory \/ RegisterFile \/ Finish
    <2>1. walk' = NoWalk
      BY <1>7 DEF SkipDirectory, EnterDirectory, NextCluster, CollectLongName, PassSlot,
         RegisterLabel, EnqueueDirectory, RegisterFile, Finish, Between, AtLeaf, AtSlot, Walking, Idle
    <2> QED
      BY <1>1, <2>1
  <1> QED
    BY <1>2, <1>3, <1>4, <1>5, <1>6, <1>7 DEF Next

(* The state of the investigation is well-formed for every volume.         *)
THEOREM InvestigationIsTyped == Spec => [](TypeOK /\ WalkInv)
  BY InitType, TypeStep, WalkStep, PTL DEF Spec

-----------------------------------------------------------------------------
IdsInv == /\ \A e \in Registered : e.id < nextId
          /\ ObjectIdsAreUnique

LEMMA IdsStep ==
  ASSUME TypeOK, WalkInv, IdsInv, [Next]_vars
  PROVE  IdsInv'
  <1>1. CASE Quiet
    BY <1>1, QuietStep DEF IdsInv, ObjectIdsAreUnique
  <1>2. ASSUME NEW e, Registers(e) PROVE IdsInv'
    <2>1. nextId \in Nat /\ \A d \in Registered : d.id \in Nat
      <3>1. nextId \in Nat /\ \A d \in Registered : d \in Entry
        BY DEF TypeOK, Registered
      <3> QED
        BY <3>1 DEF Entry
    <2> QED
      BY <1>2, <2>1 DEF Registers, IdsInv, ObjectIdsAreUnique
  <1> QED
    BY <1>1, <1>2, EnterStep, LabelStep, FileStep DEF Next, Quiet

(* Object ids are unique, the discarded entries' included.                 *)
THEOREM IdsAreUnique == Spec => []ObjectIdsAreUnique
  <1>1. Init => IdsInv
    BY DEF Init, IdsInv, ObjectIdsAreUnique, Registered
  <1>2. IdsInv => ObjectIdsAreUnique
    BY DEF IdsInv
  <1> QED
    BY <1>1, <1>2, IdsStep, InvestigationIsTyped, PTL DEF Spec

-----------------------------------------------------------------------------
(* A first cluster is in the queue once, or it is that of one directory.   *)
QueueInv ==
  /\ \A i \in DOMAIN queue : queue[i].cluster \in visitedDirs
  /\ \A i, j \in DOMAIN queue : queue[i].cluster = queue[j].cluster => i = j
  /\ \A e \in Registered : e.type = "directory" =>
       e.cluster \in visitedDirs /\ \A i \in DOMAIN queue : queue[i].cluster # e.cluster
  /\ DirectoriesWalkedOnce

LEMMA QueueStep ==
  ASSUME TypeOK, WalkInv, QueueInv, [Next]_vars
  PROVE  QueueInv'
  <1> USE DEF QueueInv
  <1>0. queue \in Seq(Job)
    BY DEF TypeOK
  <1>1. CASE EnterDirectory
    <2>1. /\ queue # << >> /\ queue' = Tail(queue) /\ UNCHANGED visitedDirs
          /\ Registered' = Registered \cup {DirectoryEntry}
          /\ DirectoryEntry.type = "directory" /\ DirectoryEntry.cluster = queue[1].cluster
      BY <1>1, EnterStep DEF EnterDirectory, Registers, WalkInv, DirectoryEntry
    <2>2. \A i \in DOMAIN queue' : i + 1 \in DOMAIN queue /\ queue'[i] = queue[i + 1]
      BY <1>0, <2>1
    <2>3. \A i \in DOMAIN queue' : queue'[i].cluster # DirectoryEntry.cluster
      BY <1>0, <2>1, <2>2
    <2>4. \A e \in Registered : e.type = "directory" => e.cluster # DirectoryEntry.cluster
      BY <1>0, <2>1
    <2>5. DirectoriesWalkedOnce'
      BY <2>1, <2>4 DEF DirectoriesWalkedOnce
    <2>6. ASSUME NEW i \in DOMAIN queue', NEW j \in DOMAIN queue',
                 queue'[i].cluster = queue'[j].cluster
          PROVE  i = j
      <3>1. i + 1 = j + 1
        BY <2>2, <2>6
      <3> QED
        BY <1>0, <2>1, <3>1
    <2>7. DirectoryEntry.cluster \in visitedDirs
      BY <1>0, <2>1
    <2> QED
      BY <2>1, <2>2, <2>3, <2>5, <2>6, <2>7
  <1>2. CASE SkipDirectory
    <2>1. queue # << >> /\ queue' = Tail(queue) /\ UNCHANGED visitedDirs /\ Registered' = Registered
      BY <1>2, QuietStep DEF SkipDirectory, Between, Quiet
    <2>2. \A i \in DOMAIN queue' : i + 1 \in DOMAIN queue /\ queue'[i] = queue[i + 1]
      BY <1>0, <2>1
    <2>3. ASSUME NEW i \in DOMAIN queue', NEW j \in DOMAIN queue',
                 queue'[i].cluster = queue'[j].cluster
          PROVE  i = j
      <3>1. i + 1 = j + 1
        BY <2>2, <2>3
      <3> QED
        BY <1>0, <2>1, <3>1
    <2> QED
      BY <2>1, <2>2, <2>3 DEF DirectoriesWalkedOnce
  <1>3. CASE EnqueueDirectory
    <2> DEFINE job == JobOf(Slots[slot])
    <2>1. /\ queue' = Append(queue, job) /\ job.cluster \notin visitedDirs
          /\ visitedDirs' = visitedDirs \cup {job.cluster} /\ Registered' = Registered
      BY <1>3, QuietStep DEF EnqueueDirectory, Unseen, JobOf, Quiet
    <2>2. Len(queue) \in Nat /\ DOMAIN queue = 1..Len(queue)
      BY <1>0
    <2> HIDE DEF job
    <2>3. /\ DOMAIN queue' = 1..(Len(queue) + 1) /\ queue'[Len(queue) + 1] = job
          /\ \A i \in DOMAIN queue : queue'[i] = queue[i]
      BY <1>0, <2>1, <2>2
    <2>4. \A i \in DOMAIN queue' : i \in DOMAIN queue \/ (queue'[i] = job /\ i = Len(queue) + 1)
      BY <2>2, <2>3
    <2>5. \A i \in DOMAIN queue' : queue'[i].cluster \in visitedDirs'
      BY <2>1, <2>3, <2>4
    <2>6. \A i, j \in DOMAIN queue' : queue'[i].cluster = queue'[j].cluster => i = j
      BY <2>1, <2>3, <2>4
    <2>7. \A e \in Registered : e.type = "directory" =>
            \A i \in DOMAIN queue' : queue'[i].cluster # e.cluster
      BY <2>1, <2>3, <2>4
    <2> QED
      BY <2>1, <2>5, <2>6, <2>7 DEF DirectoriesWalkedOnce
  <1>4. CASE RegisterLabel \/ RegisterFile
    <2>1. UNCHANGED <<queue, visitedDirs>>
      BY <1>4 DEF RegisterLabel, RegisterFile
    <2>2. PICK e : e.type # "directory" /\ Registered' = Registered \cup {e}
      BY <1>4, LabelStep, FileStep DEF Registers, LabelEntry, FileEntry
    <2> QED
      BY <2>1, <2>2 DEF DirectoriesWalkedOnce
  <1>5. CASE StartDirectory \/ Extend \/ DirectoryFails \/ ClusterFails \/ NextCluster
              \/ CollectLongName \/ PassSlot \/ StartFile \/ Finish \/ UNCHANGED vars
    <2>1. UNCHANGED <<queue, visitedDirs>>
      BY <1>5 DEF StartDirectory, Extend, DirectoryFails, ClusterFails, Fail, NextCluster,
         CollectLongName, PassSlot, StartFile, Finish, listVars, vars
    <2>2. Registered' = Registered
      BY <1>5, QuietStep DEF Quiet
    <2> QED
      BY <2>1, <2>2 DEF DirectoriesWalkedOnce
  <1> QED
    BY <1>1, <1>2, <1>3, <1>4, <1>5 DEF Next

(* No directory is walked twice, whatever the slots name.                  *)
THEOREM WalkedOnce == Spec => []DirectoriesWalkedOnce
  <1>1. Init => QueueInv
    BY DEF Init, QueueInv, DirectoriesWalkedOnce, Registered
  <1>2. QueueInv => DirectoriesWalkedOnce
    BY DEF QueueInv
  <1> QED
    BY <1>1, <1>2, QueueStep, InvestigationIsTyped, PTL DEF Spec

-----------------------------------------------------------------------------
LEMMA ChainsStep ==
  ASSUME TypeOK, WalkInv, ChainsFollowFat, [Next]_vars
  PROVE  ChainsFollowFat'
  <1>1. UNCHANGED volume
    BY VolumeStep
  <1>2. CASE Quiet
    BY <1>1, <1>2, QuietStep DEF ChainsFollowFat, FollowsFat
  <1>3. ASSUME NEW e, Registers(e), FollowsFat(e) PROVE ChainsFollowFat'
    <2>1. \A f \in Registered' : FollowsFat(f)
      BY <1>3 DEF Registers, ChainsFollowFat
    <2>2. ASSUME NEW f, FollowsFat(f) PROVE FollowsFat(f)'
      BY <1>1, <2>2 DEF FollowsFat
    <2> QED
      BY <2>1, <2>2 DEF ChainsFollowFat
  <1>4. CASE EnterDirectory
    <2>1. FollowsFat(DirectoryEntry)
      <3>1. /\ DirectoryEntry.chain = walk.clusters /\ DirectoryEntry.cluster = walk.clusters[1]
            /\ DirectoryEntry.type # "file" /\ WalkFollows
        BY <1>4 DEF EnterDirectory, WalkInv, DirectoryEntry
      <3> QED
        BY <3>1, WalkIsChain
    <2> QED
      BY <1>3, <1>4, <2>1, EnterStep
  <1>5. CASE RegisterLabel
    <2>1. FollowsFat(LabelEntry)
      BY EmptyIsChain DEF LabelEntry
    <2> QED
      BY <1>3, <1>5, <2>1, LabelStep
  <1>6. CASE RegisterFile
    <2>1. FileEntry.chain = << >> \/ (walk.for = "file" /\ FileEntry.chain = walk.clusters)
      BY DEF FileEntry, Resolved
    <2>2. ASSUME FileEntry.chain = << >> PROVE FollowsFat(FileEntry)
      BY <2>2, EmptyIsChain
    <2>3. ASSUME walk.for = "file", FileEntry.chain = walk.clusters PROVE FollowsFat(FileEntry)
      <3>1. FileEntry.cluster = walk.clusters[1] /\ Len(walk.clusters) <= FileEntry.size
        BY <2>3 DEF TypeOK, WalkInv, FileEntry
      <3>2. WalkFollows
        BY <2>3 DEF WalkInv
      <3> QED
        BY <2>3, <3>1, <3>2, WalkIsChain
    <2>4. Registers(FileEntry)
      BY <1>6, FileStep
    <2> QED
      BY <1>3, <2>1, <2>2, <2>3, <2>4
  <1> QED
    BY <1>2, <1>4, <1>5, <1>6 DEF Next, Quiet

(* Every chain that is registered follows the table within the size.       *)
THEOREM ChainsAreOfTheTable == Spec => []ChainsFollowFat
  <1>1. Init => ChainsFollowFat
    BY DEF Init, ChainsFollowFat, Registered
  <1> QED
    BY <1>1, ChainsStep, InvestigationIsTyped, PTL DEF Spec

(* What is recovered of a file is what the table means: its clusters are   *)
(* those of its chain, laid out in this order in the sectors where the     *)
(* reader finds them, and a file that is shown as normal and holds         *)
(* anything begins with the cluster of its slot (read_chain,               *)
(* content_layout, to_forensic_model).                                     *)
THEOREM ContentIsOfTheTable == Spec => []ContentFollowsFat
  <1>1. ASSUME TypeOK, ChainsFollowFat, NEW e \in Registered
        PROVE  /\ FollowsFat(e)
               /\ LaysOut(ToForensicEntry(e).layout, e.chain)
               /\ ToForensicEntry(e).status = "normal" /\ ToForensicEntry(e).realSize > 0 =>
                    /\ ToForensicEntry(e).regions # << >>
                    /\ ToForensicEntry(e).regions[1].sectorStart = SectorOfCluster(e.cluster)
    <2>1. FollowsFat(e) /\ e \in Entry
      BY <1>1, LenProperties, ElementOfSeq DEF ChainsFollowFat, Registered, TypeOK
    <2>2. e.chain \in Seq(Nat)
      BY <2>1 DEF Entry
    <2>3. /\ LaysOut(Layout(e), e.chain)
          /\ e.chain # << >> => /\ Layout(e) # << >> /\ 1 \in DOMAIN Layout(e)
                                /\ Layout(e)[1].region.sectorStart = SectorOfCluster(e.chain[1])
      BY <2>2, LayoutIsFaithful DEF Layout
    <2>4. /\ ToForensicEntry(e).layout = Layout(e)
          /\ ToForensicEntry(e).regions = PhysicalLocation(e)
          /\ ToForensicEntry(e).status = ForensicStatus(e)
          /\ ToForensicEntry(e).realSize = e.size
      BY DEF ToForensicEntry
    <2>5. ASSUME ForensicStatus(e) = "normal", e.size > 0
          PROVE  /\ PhysicalLocation(e) # << >>
                 /\ PhysicalLocation(e)[1].sectorStart = SectorOfCluster(e.cluster)
      <3>1. e.chain # << >>
        BY <2>5 DEF ForensicStatus
      <3>2. Len(e.chain) > 0
        BY <2>2, <3>1, EmptySeq, LenProperties
      <3>3. e.chain[1] = e.cluster
        BY <2>1, <3>2 DEF FollowsFat
      <3>4. /\ DOMAIN PhysicalLocation(e) = DOMAIN Layout(e)
            /\ PhysicalLocation(e)[1] = Layout(e)[1].region
        BY <2>3, <3>1 DEF PhysicalLocation
      <3>5. PhysicalLocation(e) # << >>
        BY <2>3, <3>1, <3>4
      <3> QED
        BY <2>3, <3>1, <3>3, <3>4, <3>5
    <2> QED
      BY <2>1, <2>3, <2>4, <2>5
  <1>2. TypeOK /\ ChainsFollowFat => ContentFollowsFat
    BY <1>1 DEF ContentFollowsFat, LayoutIsChain, ChainsFollowFat
  <1> QED
    BY <1>2, InvestigationIsTyped, ChainsAreOfTheTable, PTL

-----------------------------------------------------------------------------
(* On a sound volume no directory walk leaves the range.                   *)
SoundInv ==
  Sound => /\ walk.for = "directory" => \A i \in DOMAIN walk.clusters : InRange(walk.clusters[i])
           /\ \A i \in DOMAIN chain : InRange(chain[i])
           /\ status # "failed"

LEMMA SoundStep ==
  ASSUME TypeOK, WalkInv, SoundInv, [Next]_vars
  PROVE  SoundInv'
  <1>1. UNCHANGED volume
    BY VolumeStep
  <1> SUFFICES ASSUME Sound PROVE SoundInv'
    BY <1>1 DEF SoundInv, Sound
  <1>2. /\ walk.for = "directory" => \A i \in DOMAIN walk.clusters : InRange(walk.clusters[i])
        /\ \A i \in DOMAIN chain : InRange(chain[i])
        /\ status # "failed"
    BY DEF SoundInv
  <1>3. walk.clusters \in Seq(Nat) /\ chain \in Seq(Nat)
    BY DEF TypeOK, Walk
  <1>4. CASE StartDirectory
    <2>1. walk'.clusters = <<Head(queue).cluster>> /\ InRange(Head(queue).cluster) /\ UNCHANGED <<chain, status>>
      BY <1>4 DEF StartDirectory, BeginWalk, dirVars
    <2> QED
      BY <1>2, <2>1 DEF SoundInv
  <1>5. CASE Extend
    <2> DEFINE next == volume.fat[LastCluster]
    <2>1. /\ InRange(LastCluster) /\ next >= 2 /\ ~(next >= EndOfChain) /\ next # BadCluster
          /\ next \in Nat /\ UNCHANGED <<chain, status>>
      BY <1>5, ExtendFacts DEF IsEnd, dirVars
    <2>2. InRange(next)
      BY <2>1, ChainAssumption DEF Sound, BadCluster
    <2> HIDE DEF next
    <2>3. walk'.clusters = Append(walk.clusters, next) /\ walk'.for = walk.for
      BY <1>5, ExtendFacts DEF next
    <2>4. walk.for = "directory" => \A i \in DOMAIN walk'.clusters : InRange(walk'.clusters[i])
      BY <1>2, <1>3, <2>1, <2>2, <2>3
    <2> QED
      BY <1>2, <2>1, <2>3, <2>4 DEF SoundInv
  <1>6. CASE DirectoryFails
    <2>1. CASE Between /\ InRange(Head(queue).cluster) /\ ~Readable(Head(queue).cluster)
      BY <2>1 DEF Sound
    <2>2. CASE walk.for = "directory" /\ Broken
      <3>1. Len(walk.clusters) \in DOMAIN walk.clusters
        BY <1>3, <2>2 DEF WalkInv, WalkFollows
      <3> QED
        BY <1>2, <2>2, <3>1 DEF Broken, LastCluster
    <2> QED
      BY <1>6, <2>1, <2>2 DEF DirectoryFails
  <1>7. CASE ClusterFails
    <2>1. chain # << >> /\ ~Readable(Head(chain))
      BY <1>7 DEF ClusterFails, Walking
    <2>2. InRange(Head(chain))
      BY <1>2, <1>3, <2>1
    <2> QED
      BY <2>1, <2>2 DEF Sound
  <1>8. CASE EnterDirectory
    <2>1. chain' = walk.clusters /\ walk' = NoWalk /\ UNCHANGED status /\ walk.for = "directory"
      BY <1>8 DEF EnterDirectory
    <2> QED
      BY <1>2, <2>1 DEF SoundInv, NoWalk
  <1>9. CASE NextCluster
    <2>1. chain # << >> /\ chain' = Tail(chain) /\ walk' = NoWalk /\ UNCHANGED status
      BY <1>9 DEF NextCluster, Walking, Idle
    <2>2. \A i \in DOMAIN chain' : InRange(chain'[i])
      BY <1>2, <1>3, <2>1
    <2> QED
      BY <1>2, <2>1, <2>2 DEF SoundInv, NoWalk
  <1>10. CASE SkipDirectory \/ CollectLongName \/ PassSlot \/ RegisterLabel \/ EnqueueDirectory
               \/ StartFile \/ RegisterFile \/ Finish
    <2>1. UNCHANGED chain /\ status' \in {status, "done"}
      BY <1>10 DEF SkipDirectory, CollectLongName, PassSlot, RegisterLabel, EnqueueDirectory,
         StartFile, RegisterFile, Finish, NextSlot, dirVars
    <2>2. walk' = NoWalk \/ walk'.for = "file"
      <3>1. CASE StartFile
        BY <3>1 DEF StartFile, BeginWalk
      <3>2. CASE RegisterFile
        BY <3>2 DEF RegisterFile
      <3>3. CASE SkipDirectory \/ Finish
        BY <3>3 DEF SkipDirectory, Finish, Between, Idle
      <3>4. CASE CollectLongName \/ PassSlot \/ RegisterLabel \/ EnqueueDirectory
        BY <3>4 DEF CollectLongName, PassSlot, RegisterLabel, EnqueueDirectory, AtLeaf, AtSlot,
           Walking, Idle
      <3> QED
        BY <1>10, <3>1, <3>2, <3>3, <3>4
    <2>3. walk'.for # "directory"
      BY <2>2 DEF NoWalk
    <2> QED
      BY <1>2, <2>1, <2>3 DEF SoundInv
  <1>11. CASE UNCHANGED vars
    BY <1>2, <1>11 DEF SoundInv, vars, dirVars
  <1> QED
    BY <1>4, <1>5, <1>6, <1>7, <1>8, <1>9, <1>10, <1>11 DEF Next

(* The investigation fails on a damaged table or device only.              *)
THEOREM FailuresAreDamage == Spec => []OnlyDamageFails
  <1>1. Init => SoundInv
    BY DEF Init, SoundInv, NoWalk
  <1>2. SoundInv => OnlyDamageFails
    BY DEF SoundInv, OnlyDamageFails
  <1> QED
    BY <1>1, <1>2, SoundStep, InvestigationIsTyped, PTL DEF Spec

-----------------------------------------------------------------------------
(* The ids that a new entry may name as its parent. *)
Known == IF nextId = 1 THEN {1} ELSE 1..(nextId - 1)

(* Directories wait below one that has its id, and so do their slots.      *)
ParentsInv == /\ \A i \in DOMAIN queue : queue[i].parent \in Known
              /\ chain # << >> => self \in 1..(nextId - 1)

LEMMA ParentsStep ==
  ASSUME TypeOK, WalkInv, ParentsInv, [Next]_vars
  PROVE  ParentsInv'
  <1> USE DEF ParentsInv, Known
  <1>1. /\ nextId \in Nat \ {0} /\ queue \in Seq(Job) /\ chain \in Seq(Nat) /\ walk \in Walk
        /\ self \in Nat
    BY DEF TypeOK
  <1>2. CASE SkipDirectory
    <2>1. queue # << >> /\ queue' = Tail(queue) /\ UNCHANGED <<nextId, chain, self>>
      BY <1>2 DEF SkipDirectory, Between, dirVars
    <2> QED
      BY <1>1, <2>1
  <1>3. CASE EnterDirectory
    <2>1. /\ queue # << >> /\ queue' = Tail(queue) /\ nextId' = nextId + 1 /\ self' = nextId
      BY <1>3 DEF EnterDirectory, TakeId, WalkInv
    <2> QED
      BY <1>1, <2>1
  <1>4. CASE EnqueueDirectory
    <2>1. /\ chain # << >> /\ UNCHANGED <<nextId, chain, self>>
          /\ queue' = Append(queue, JobOf(Slots[slot])) /\ JobOf(Slots[slot]).parent = self
      BY <1>4 DEF EnqueueDirectory, AtLeaf, AtSlot, Walking, NextSlot, JobOf
    <2> QED
      BY <1>1, <2>1
  <1>5. CASE NextCluster
    <2>1. chain # << >> /\ UNCHANGED <<nextId, queue, self>>
      BY <1>5 DEF NextCluster, Walking, listVars
    <2> QED
      BY <1>1, <2>1
  <1>6. CASE RegisterLabel \/ RegisterFile
    <2>1. nextId' = nextId + 1 /\ UNCHANGED <<queue, chain, self>>
      BY <1>6 DEF RegisterLabel, RegisterFile, TakeId, NextSlot
    <2> QED
      BY <1>1, <2>1
  <1>7. CASE StartDirectory \/ Extend \/ DirectoryFails \/ ClusterFails \/ CollectLongName
              \/ PassSlot \/ StartFile \/ Finish \/ UNCHANGED vars
    <2>1. UNCHANGED <<queue, nextId, chain, self>>
      BY <1>7 DEF StartDirectory, Extend, DirectoryFails, ClusterFails, Fail, CollectLongName,
         PassSlot, StartFile, Finish, NextSlot, listVars, dirVars, vars
    <2> QED
      BY <2>1
  <1> QED
    BY <1>2, <1>3, <1>4, <1>5, <1>6, <1>7 DEF Next

(* What a step adds to the list has the next id and a parent that is known.*)
LEMMA FoundStep ==
  ASSUME TypeOK, WalkInv, ParentsInv, [Next]_vars
  PROVE  \/ UNCHANGED <<found, nextId>>
         \/ /\ \E e \in Entry : AddEntry(e) /\ e.id = nextId /\ e.parent \in Known
            /\ nextId' = nextId + 1 /\ status = "walking" /\ UNCHANGED status
  <1>1. nextId \in Nat \ {0}
    BY DEF TypeOK
  <1>2. CASE EnterDirectory
    <2>1. /\ queue # << >> /\ AddEntry(DirectoryEntry) /\ nextId' = nextId + 1
          /\ status = "walking" /\ UNCHANGED status
      BY <1>2 DEF WalkInv, EnterDirectory, TakeId, DirectoryEntry
    <2>2. Head(queue).parent \in Known
      BY <2>1 DEF ParentsInv, TypeOK
    <2>3. DirectoryEntry.id = nextId /\ DirectoryEntry.parent \in Known
      BY <2>2 DEF DirectoryEntry
    <2> QED
      BY <2>1, <2>3, DirectoryEntryType
  <1>3. CASE RegisterLabel
    <2>1. /\ chain # << >> /\ Readable(Head(chain)) /\ slot \in DOMAIN Slots
          /\ AddEntry(LabelEntry) /\ nextId' = nextId + 1
          /\ status = "walking" /\ UNCHANGED status
      BY <1>3 DEF RegisterLabel, AtLeaf, AtSlot, Walking, Idle, TakeId, LabelEntry, NextSlot
    <2>2. LabelEntry.id = nextId /\ LabelEntry.parent \in Known
      BY <1>1, <2>1 DEF LabelEntry, ParentsInv, Known
    <2> QED
      BY <2>1, <2>2, LabelEntryType
  <1>4. CASE RegisterFile
    <2>1. /\ chain # << >> /\ Readable(Head(chain)) /\ slot \in DOMAIN Slots
          /\ AddEntry(FileEntry) /\ nextId' = nextId + 1
          /\ status = "walking" /\ UNCHANGED status
      BY <1>4 DEF RegisterFile, WalkInv, AtLeaf, AtSlot, Walking, TakeId, FileEntry, NextSlot
    <2>2. FileEntry.id = nextId /\ FileEntry.parent \in Known
      BY <1>1, <2>1 DEF FileEntry, ParentsInv, Known
    <2> QED
      BY <2>1, <2>2, FileEntryType
  <1>5. CASE Quiet
    BY <1>5, QuietStep
  <1> QED
    BY <1>2, <1>3, <1>4, <1>5 DEF Next, Quiet

(* A registering step identifies one object, listed or discarded.          *)
LEMMA RegisterIdentifies ==
  ASSUME TypeOK, NEW e \in Entry, AddEntry(e), e.id = nextId, e.parent \in Known,
         nextId' = nextId + 1, status = "walking", UNCHANGED status
  PROVE  Promise!Identify
  <1>1. nextId \in Nat \ {0} /\ found \in Seq(Entry)
    BY DEF TypeOK
  <1>2. /\ nextId \in (1..(nextId' - 1)) \ (1..(nextId - 1))
        /\ 1..(nextId' - 1) = (1..(nextId - 1)) \cup {nextId}
    BY <1>1
  <1>3. \/ Shown(found') = Shown(found)
        \/ Shown(found') = Append(Shown(found), [id |-> nextId, parent |-> e.parent])
    BY <1>1, ShownAppend DEF AddEntry
  <1>4. e.parent \in (IF 1..(nextId - 1) = {} THEN {nextId} ELSE 1..(nextId - 1))
    BY <1>1 DEF Known
  <1> QED
    BY <1>2, <1>3, <1>4 DEF Promise!Identify, Promise!Above, Shown

LEMMA PromiseStep ==
  ASSUME TypeOK, WalkInv, ParentsInv, [Next]_vars
  PROVE  [Promise!Next]_(Promise!promiseVars)
  <1>1. CASE UNCHANGED <<found, nextId>>
    <2>1. UNCHANGED status \/ (status = "walking" /\ status' \in {"done", "failed"})
      BY DEF Next, SkipDirectory, StartDirectory, Extend, DirectoryFails, EnterDirectory, ClusterFails,
         Fail, NextCluster, CollectLongName, PassSlot, RegisterLabel, EnqueueDirectory, StartFile,
         RegisterFile, Finish, NextSlot, Between, Walking, Idle, vars
    <2> QED
      BY <1>1, <2>1 DEF Promise!Next, Promise!End, Promise!promiseVars
  <1>2. CASE ~UNCHANGED <<found, nextId>>
    BY <1>2, FoundStep, RegisterIdentifies DEF Promise!Next
  <1> QED
    BY <1>1, <1>2

(* The investigation implements the promise that the tree and the recovery *)
(* by id build on, whatever the volume holds.                              *)
THEOREM PromiseIsKept == Spec => KeepsPromise
  <1>1. Init => ParentsInv
    BY DEF Init, ParentsInv, Known
  <1>2. Init => Promise!Init
    <2> SUFFICES ASSUME Init PROVE Promise!Init
      OBVIOUS
    <2>1. nextId = 1 /\ found = << >> /\ status = "walking"
      BY DEF Init
    <2>2. 1..(nextId - 1) = {} /\ Shown(found) = << >>
      BY <2>1 DEF Shown
    <2> QED
      BY <2>1, <2>2 DEF Promise!Init, Shown
  <1> QED
    BY <1>1, <1>2, ParentsStep, PromiseStep, InvestigationIsTyped, PTL
       DEF Spec, KeepsPromise, Promise!Spec

-----------------------------------------------------------------------------
(* An entry is listed behind its parent, except the root, which is its     *)
(* own, and alone has its name there.                                      *)
NamesInv ==
  /\ \A d \in ToSet(found) : d.parent < d.id \/ (d.id = 1 /\ d.parent = 1)
  /\ \A d, e \in ToSet(found) : d.parent = e.parent /\ d.name = e.name => d = e

LEMMA NamesStep ==
  ASSUME TypeOK, WalkInv, ParentsInv, NamesInv, [Next]_vars
  PROVE  NamesInv'
  <1>1. CASE UNCHANGED found
    BY <1>1 DEF NamesInv
  <1>2. ASSUME NEW e \in Entry, AddEntry(e), e.id = nextId, e.parent \in Known, found' # found
        PROVE  NamesInv'
    <2>1. found' = Append(found, e) /\ ~(\E i \in DOMAIN found : found[i].parent = e.parent /\ found[i].name = e.name)
      BY <1>2 DEF AddEntry
    <2>2. ToSet(found') = ToSet(found) \cup {e}
      BY <2>1, AppendFacts DEF TypeOK
    <2>3. \A d \in ToSet(found) : ~(d.parent = e.parent /\ d.name = e.name)
      BY <2>1 DEF ToSet
    <2>4. e.parent < e.id \/ (e.id = 1 /\ e.parent = 1)
      <3>1. PICK n \in Nat \ {0} : n = nextId
        BY DEF TypeOK
      <3> QED
        BY <1>2, <3>1 DEF Known
    <2> QED
      BY <2>2, <2>3, <2>4 DEF NamesInv
  <1> QED
    BY <1>1, <1>2, FoundStep

(* The list of a state is one in which a climb forgets what it met.        *)
LEMMA FoundIsListing ==
  ASSUME TypeOK, IdsInv, NamesInv
  PROVE  /\ Listing(found, Seq(Symbols)) /\ Ordered(found)
         /\ \A d, e \in ToSet(found) : d.id = e.id => d = e
  <1>1. found \in Seq(Entry) /\ IsSequence(found)
    BY ListIsSequence DEF TypeOK
  <1>2. \A i \in DOMAIN found : found[i] \in Entry /\ found[i] \in ToSet(found) /\ found[i] \in Registered
    BY <1>1 DEF ToSet, Registered
  <1>3. Listing(found, Seq(Symbols))
    BY <1>1, <1>2 DEF Listing, Entry
  <1>4. \A i, j \in DOMAIN found : found[i].id = found[j].id => found[i] = found[j]
    BY <1>2 DEF IdsInv, ObjectIdsAreUnique
  <1>5. \A i \in DOMAIN found : found[i].parent <= found[i].id
    <2> SUFFICES ASSUME NEW i \in DOMAIN found PROVE found[i].parent <= found[i].id
      OBVIOUS
    <2>1. PICK a \in Nat, b \in Nat : a = found[i].parent /\ b = found[i].id
      BY <1>3 DEF Listing
    <2> QED
      BY <1>2, <2>1 DEF NamesInv
  <1> QED
    BY <1>3, <1>4, <1>5 DEF Ordered, ToSet

(* Whoever is rooted is a root or below one that is rooted. *)
LEMMA RootedIsGrounded == Grounded({e \in ToSet(found) : Rooted(e)})
  <1> DEFINE All == ToSet(found)
             Closed(S) == \A d \in All : d.parent = d.id \/ (\E p \in S : p.id = d.parent) => d \in S
             R == {e \in All : Rooted(e)}
             S == {e \in All : e.parent = e.id \/ \E p \in R : p.id = e.parent}
  <1>1. \A e \in All : Rooted(e) <=> \A T \in SUBSET All : Closed(T) => e \in T
    BY DEF Rooted
  <1>2. S \subseteq R
    <2> SUFFICES ASSUME NEW e \in S, NEW T \in SUBSET All, Closed(T) PROVE e \in T
      BY <1>1
    <2>1. \A p \in R : p \in T
      BY <1>1
    <2> QED
      BY <2>1
  <1>3. Closed(S)
    BY <1>2
  <1>4. R \subseteq S
    <2> HIDE DEF S, Closed
    <2>1. S \in SUBSET All
      BY DEF S
    <2> QED
      BY <1>1, <1>3, <2>1
  <1> QED
    BY <1>4 DEF Grounded

LEMMA PathsAreNames ==
  ASSUME TypeOK, IdsInv, NamesInv
  PROVE  PathsIdentify
  <1> DEFINE R == {e \in ToSet(found) : Rooted(e)}
  <1>1. Grounded(R) /\ R \subseteq ToSet(found)
    BY RootedIsGrounded
  <1> HIDE DEF R
  <1>2. \A d, e \in R : d.parent = d.id /\ e.parent = e.id => d = e
    <2> SUFFICES ASSUME NEW d \in R, NEW e \in R, d.parent = d.id, e.parent = e.id PROVE d = e
      OBVIOUS
    <2>1. \A x \in R : x.id \in Nat /\ x \in ToSet(found)
      BY <1>1, FoundIsListing DEF Listing, ToSet
    <2>2. \A x \in R : x.parent = x.id => x.id = 1
      <3> SUFFICES ASSUME NEW x \in R, x.parent = x.id PROVE x.id = 1
        OBVIOUS
      <3>1. PICK n \in Nat : n = x.id
        BY <2>1
      <3>2. x.parent < x.id \/ x.id = 1
        BY <2>1 DEF NamesInv
      <3> QED
        BY <3>1, <3>2
    <2> QED
      BY <2>1, <2>2, FoundIsListing
  <1>3. \A d, e \in R : PathOf(d) = PathOf(e) => d = e
    <2>1. \A d, e \in R : d.parent = e.parent /\ d.name = e.name => d = e
      BY <1>1 DEF NamesInv
    <2> QED
      BY <1>1, <1>2, <2>1, FoundIsListing, PathsTellApart DEF PathOf
  <1>4. ASSUME NEW d \in R, NEW e \in R, d.id = e.parent
        PROVE  PathOf(e) = IF d = e THEN << >> ELSE Append(PathOf(d), e.name)
    <2>1. PICK i \in DOMAIN found : e = found[i]
      BY <1>1 DEF ToSet
    <2>2. PathOf(e) = IF e.parent = e.id THEN << >> ELSE Append(ResolvePath(found, e.parent), e.name)
      BY <2>1, FoundIsListing, PathFollowsParent DEF PathOf
    <2>3. e.parent = e.id <=> d = e
      BY <1>1, <1>4, FoundIsListing
    <2> QED
      BY <1>4, <2>2, <2>3 DEF PathOf
  <1> QED
    BY <1>3, <1>4 DEF PathsIdentify, R

-----------------------------------------------------------------------------
(* The long name that waits comes from the slot in front, and the walk     *)
(* along the chain of a file belongs to a file that is not passed over.    *)
SlotInv ==
  /\ lfn.pending /\ chain # << >> => slot - 1 \in DOMAIN Slots /\ Slots[slot - 1].type = "long"
  /\ walk.for = "file" => Slots[slot].type = "file"
  /\ status = "done" => chain = << >> /\ queue = << >>

LEMMA SlotStep ==
  ASSUME TypeOK, WalkInv, SlotInv, [Next]_vars
  PROVE  SlotInv'
  <1> USE DEF SlotInv
  <1>1. CASE SkipDirectory
    <2>1. UNCHANGED <<volume, walk, chain, slot, lfn, status>> /\ status = "walking"
      BY <1>1 DEF SkipDirectory, Between, Idle, dirVars
    <2> QED
      BY <2>1 DEF Slots
  <1>2. CASE StartDirectory
    <2>1. UNCHANGED <<volume, chain, slot, lfn, status>> /\ status = "walking" /\ walk'.for = "directory"
      BY <1>2 DEF StartDirectory, BeginWalk, Between, Idle, dirVars
    <2> QED
      BY <2>1 DEF Slots
  <1>3. CASE Extend
    <2>1. UNCHANGED <<volume, queue, chain, slot, lfn, status>> /\ walk'.for = walk.for
      BY <1>3, ExtendFacts DEF listVars, dirVars
    <2> QED
      BY <2>1 DEF Slots
  <1>4. CASE DirectoryFails \/ ClusterFails
    <2>1. UNCHANGED <<volume, walk, chain, slot, lfn>> /\ status' = "failed"
      BY <1>4 DEF DirectoryFails, ClusterFails, Fail, dirVars
    <2> QED
      BY <2>1 DEF Slots
  <1>5. CASE EnterDirectory \/ NextCluster
    <2>1. lfn' = NoLfn /\ walk'.for # "file" /\ status' = "walking"
      BY <1>5 DEF EnterDirectory, NextCluster, Walking, Idle, NoWalk
    <2> QED
      BY <2>1 DEF NoLfn
  <1>6. CASE CollectLongName
    <2>1. /\ UNCHANGED <<volume, chain>> /\ slot' = slot + 1 /\ slot \in DOMAIN Slots
          /\ Slots[slot].type = "long" /\ walk' = NoWalk /\ status' = "walking"
      BY <1>6 DEF CollectLongName, AtSlot, Walking, Idle
    <2>2. slot' - 1 = slot
      BY <2>1 DEF TypeOK
    <2> QED
      BY <2>1, <2>2 DEF Slots, NoWalk
  <1>7. CASE PassSlot \/ RegisterLabel \/ EnqueueDirectory \/ RegisterFile
    <2>1. lfn' = NoLfn /\ walk' = NoWalk /\ status' = "walking"
      BY <1>7 DEF PassSlot, RegisterLabel, EnqueueDirectory, RegisterFile, AtLeaf, AtSlot, Walking,
         Idle, NextSlot
    <2> QED
      BY <2>1 DEF NoLfn, NoWalk
  <1>8. CASE StartFile
    <2>1. /\ UNCHANGED <<volume, chain, slot, lfn, status>> /\ status = "walking"
          /\ Slots[slot].type = "file"
      BY <1>8 DEF StartFile, AtLeaf, AtSlot, Walking, Idle, dirVars
    <2> QED
      BY <2>1 DEF Slots
  <1>9. CASE Finish
    <2>1. chain' = << >> /\ queue' = << >> /\ walk' = NoWalk
      BY <1>9 DEF Finish, Idle, listVars, dirVars
    <2> QED
      BY <2>1 DEF NoWalk
  <1>10. CASE UNCHANGED vars
    BY <1>10 DEF vars, listVars, dirVars, Slots
  <1> QED
    BY <1>1, <1>2, <1>3, <1>4, <1>5, <1>6, <1>7, <1>8, <1>9, <1>10 DEF Next

-----------------------------------------------------------------------------
(* A directory that was ever queued and passes the gate waits still or has *)
(* been registered.                                                        *)
VisitedInv ==
  \A c \in visitedDirs : InRange(c) /\ HasMarkers(volume.slots[c]) =>
    \/ \E i \in DOMAIN queue : queue[i].cluster = c
    \/ \E e \in Registered : e.type = "directory" /\ e.cluster = c

LEMMA VisitedStep ==
  ASSUME TypeOK, WalkInv, VisitedInv, [Next]_vars
  PROVE  VisitedInv'
  <1> DEFINE Waits(c) == \E i \in DOMAIN queue : queue[i].cluster = c
             Walked(c) == \E e \in Registered : e.type = "directory" /\ e.cluster = c
  <1>1. queue \in Seq(Job) /\ UNCHANGED volume
    BY VolumeStep DEF TypeOK
  <1>2. ASSUME NEW c, queue # << >>, queue' = Tail(queue), Waits(c)
        PROVE  Waits(c)' \/ c = Head(queue).cluster
    <2>1. PICK i \in DOMAIN queue : queue[i].cluster = c
      BY <1>2
    <2>2. CASE i = 1
      BY <1>1, <1>2, <2>1, <2>2
    <2>3. CASE i # 1
      <3>1. i - 1 \in DOMAIN queue' /\ queue'[i - 1] = queue[i]
        BY <1>1, <1>2, <2>3
      <3> QED
        BY <2>1, <3>1
    <2> QED
      BY <2>2, <2>3
  <1>3. ASSUME Registered \subseteq Registered' PROVE \A c : Walked(c) => Walked(c)'
    BY <1>3
  <1>4. CASE SkipDirectory
    <2>1. queue # << >> /\ queue' = Tail(queue) /\ UNCHANGED visitedDirs /\ Registered' = Registered
      BY <1>4, QuietStep DEF SkipDirectory, Between, Quiet
    <2>2. InRange(Head(queue).cluster) => ~HasMarkers(volume.slots[Head(queue).cluster])
      BY <1>4 DEF SkipDirectory, Admitted
    <2> QED
      BY <1>1, <1>2, <1>3, <2>1, <2>2 DEF VisitedInv
  <1>5. CASE EnterDirectory
    <2>1. /\ queue # << >> /\ queue' = Tail(queue) /\ UNCHANGED visitedDirs
          /\ Registered' = Registered \cup {DirectoryEntry}
          /\ DirectoryEntry.type = "directory" /\ DirectoryEntry.cluster = Head(queue).cluster
      BY <1>5, EnterStep DEF EnterDirectory, Registers, WalkInv, DirectoryEntry
    <2> QED
      BY <1>1, <1>2, <1>3, <2>1 DEF VisitedInv
  <1>6. CASE EnqueueDirectory
    <2> DEFINE job == JobOf(Slots[slot])
    <2>1. /\ queue' = Append(queue, job) /\ visitedDirs' = visitedDirs \cup {job.cluster}
          /\ Registered' = Registered
      BY <1>6, QuietStep DEF EnqueueDirectory, JobOf, Quiet
    <2> HIDE DEF job
    <2>2. /\ Len(queue) + 1 \in DOMAIN queue' /\ queue'[Len(queue) + 1] = job
          /\ \A i \in DOMAIN queue : i \in DOMAIN queue' /\ queue'[i] = queue[i]
      BY <1>1, <2>1
    <2>3. \A c : Waits(c) \/ c = job.cluster => Waits(c)'
      BY <2>2
    <2> QED
      BY <1>1, <1>3, <2>1, <2>3 DEF VisitedInv
  <1>7. CASE RegisterLabel \/ RegisterFile
    <2>1. UNCHANGED <<queue, visitedDirs>>
      BY <1>7 DEF RegisterLabel, RegisterFile
    <2>2. Registered \subseteq Registered'
      BY <1>7, LabelStep, FileStep DEF Registers
    <2> QED
      BY <1>1, <1>3, <2>1, <2>2 DEF VisitedInv
  <1>8. CASE StartDirectory \/ Extend \/ DirectoryFails \/ ClusterFails \/ NextCluster
              \/ CollectLongName \/ PassSlot \/ StartFile \/ Finish \/ UNCHANGED vars
    <2>1. UNCHANGED <<queue, visitedDirs>>
      BY <1>8 DEF StartDirectory, Extend, DirectoryFails, ClusterFails, Fail, NextCluster,
         CollectLongName, PassSlot, StartFile, Finish, listVars, vars
    <2>2. Registered' = Registered
      BY <1>8, QuietStep DEF Quiet
    <2> QED
      BY <1>1, <2>1, <2>2 DEF VisitedInv
  <1> QED
    BY <1>4, <1>5, <1>6, <1>7, <1>8 DEF Next

-----------------------------------------------------------------------------
(* How many clusters of a directory have been read. *)
Read(d) == IF d.id = self THEN Len(d.chain) - Len(chain) ELSE Len(d.chain)

Behind(d, k, i) == k <= Read(d) \/ (d.id = self /\ k = Read(d) + 1 /\ i \in 1..(slot - 1))

Taken(d, s) ==
  /\ s.type = "file" => \E j \in DOMAIN found : found[j].parent = d.id /\ found[j].name = ShortName(s)
  /\ s.type = "directory" /\ InRange(s.cluster) => s.cluster \in visitedDirs

(* What is left of the directory in hand is the end of its chain, and of   *)
(* all that lies before, every slot that counts was taken.                 *)
PlaceInv ==
  \A d \in Registered : d.type = "directory" /\ d.id = self =>
    /\ Len(chain) <= Len(d.chain)
    /\ \A j \in DOMAIN chain : chain[j] = d.chain[Len(d.chain) - Len(chain) + j]

TakenInv ==
  \A d \in Registered : d.type = "directory" =>
    \A k \in DOMAIN d.chain : \A i \in PlainSlots(d.chain[k]) :
      Behind(d, k, i) => Taken(d, volume.slots[d.chain[k]][i])

(* What was taken stays so. *)
Grows ==
  /\ UNCHANGED volume
  /\ \A j \in DOMAIN found : j \in DOMAIN found' /\ found'[j] = found[j]
  /\ visitedDirs \subseteq visitedDirs'

LEMMA GrowsStep ==
  ASSUME TypeOK, [Next]_vars
  PROVE  Grows
  <1>1. UNCHANGED volume
    BY VolumeStep
  <1>2. visitedDirs \subseteq visitedDirs'
    BY DEF Next, SkipDirectory, StartDirectory, Extend, DirectoryFails, EnterDirectory, ClusterFails,
     Fail, NextCluster, CollectLongName, PassSlot, RegisterLabel, EnqueueDirectory, StartFile,
     RegisterFile, Finish, vars, listVars
  <1>3. UNCHANGED found \/ \E e : found' = Append(found, e)
    BY QuietStep DEF Next, Quiet, EnterDirectory, RegisterLabel, RegisterFile, AddEntry
  <1>4. found \in Seq(Entry)
    BY DEF TypeOK
  <1>5. \A j \in DOMAIN found : j \in DOMAIN found' /\ found'[j] = found[j]
    BY <1>3, <1>4
  <1> QED
    BY <1>1, <1>2, <1>5 DEF Grows

LEMMA TakenStays ==
  ASSUME Grows, NEW d, NEW s, Taken(d, s)
  PROVE  Taken(d, s)'
  <1>1. s.type = "file" =>
          \E j \in DOMAIN found' : found'[j].parent = d.id /\ found'[j].name = ShortName(s)
    BY DEF Taken, Grows
  <1> QED
    BY <1>1 DEF Taken, Grows

(* Steps that register nothing and go on to no other slot. *)
LEMMA StandsStill ==
  ASSUME PlaceInv, TakenInv, Grows, Registered' = Registered, UNCHANGED <<self, chain, slot>>
  PROVE  PlaceInv' /\ TakenInv'
  <1>1. PlaceInv'
    BY DEF PlaceInv
  <1>2. ASSUME NEW d \in Registered, d.type = "directory", NEW k \in DOMAIN d.chain,
               NEW i \in PlainSlots(d.chain[k]), Behind(d, k, i)
        PROVE  Taken(d, volume.slots[d.chain[k]][i])'
    <2>1. PICK s : s = volume.slots[d.chain[k]][i]
      OBVIOUS
    <2>2. Taken(d, s)'
      BY <1>2, <2>1, TakenStays DEF TakenInv
    <2> QED
      BY <2>1, <2>2 DEF Grows
  <1>3. \A c : PlainSlots(c)' = PlainSlots(c)
    BY DEF PlainSlots, Grows
  <1>4. \A d, k, i : Behind(d, k, i)' <=> Behind(d, k, i)
    BY DEF Behind, Read
  <1> QED
    BY <1>1, <1>2, <1>3, <1>4 DEF TakenInv

LEMMA DirectoryTypes ==
  ASSUME TypeOK, NEW d \in Registered
  PROVE  d \in Entry /\ d.chain \in Seq(Nat) /\ Len(d.chain) \in Nat /\ d.id \in Nat
         /\ DOMAIN d.chain = 1..Len(d.chain)
  <1>1. d \in Entry
    BY DEF TypeOK, Registered
  <1> QED
    BY <1>1, LenProperties DEF Entry

(* Going on in the slots of a cluster. *)
LEMMA SlotIsTaken ==
  ASSUME TypeOK, PlaceInv, TakenInv, Grows, chain # << >>,
         UNCHANGED <<self, chain>>, slot' = slot + 1,
         \A d \in Registered' : d \in Registered \/ d.type # "directory",
         NEW here, here = Slots[slot],
         \A d : d.id = self /\ slot \in PlainSlots(Head(chain)) => Taken(d, here)'
  PROVE  PlaceInv' /\ TakenInv'
  <1>1. PlaceInv'
    BY DEF PlaceInv
  <1>2. slot \in Nat \ {0} /\ chain \in Seq(Nat)
    BY DEF TypeOK
  <1>3. \A c : PlainSlots(c)' = PlainSlots(c)
    BY DEF PlainSlots, Grows
  <1>4. ASSUME NEW d \in Registered, d.type = "directory", NEW k \in DOMAIN d.chain,
               NEW i \in PlainSlots(d.chain[k]), Behind(d, k, i)'
        PROVE  Taken(d, volume.slots[d.chain[k]][i])'
    <2>1. PICK s : s = volume.slots[d.chain[k]][i]
      OBVIOUS
    <2>2. CASE Behind(d, k, i)
      <3>1. Taken(d, s)'
        BY <1>4, <2>1, <2>2, TakenStays DEF TakenInv
      <3> QED
        BY <2>1, <3>1 DEF Grows
    <2>3. CASE ~Behind(d, k, i)
      <3>1. d.id = self /\ k = Read(d) + 1 /\ i = slot
        BY <1>2, <1>4, <2>3 DEF Behind, Read
      <3>2. Read(d) = Len(d.chain) - Len(chain) /\ Len(chain) \in Nat /\ 1 \in DOMAIN chain
        BY <1>2, <3>1 DEF Read
      <3>3. chain[1] = d.chain[Len(d.chain) - Len(chain) + 1]
        BY <1>4, <3>1, <3>2 DEF PlaceInv
      <3>4. d.chain[k] = Head(chain)
        BY <1>2, <3>1, <3>2, <3>3
      <3>5. Taken(d, here)'
        BY <1>4, <3>1, <3>4
      <3>6. here = volume'.slots[d.chain[k]][i]
        BY <3>1, <3>4 DEF Slots, Grows
      <3> QED
        BY <3>5, <3>6
    <2> QED
      BY <2>2, <2>3
  <1> QED
    BY <1>1, <1>3, <1>4 DEF TakenInv

(* A slot that counts shows its short name and is not passed over.         *)
LEMMA PlainFacts ==
  ASSUME TypeOK, SlotInv, chain # << >>, Readable(Head(chain)), slot \in PlainSlots(Head(chain))
  PROVE  LeafName(Slots[slot]) = ShortName(Slots[slot]) /\ ~Passed(Slots[slot])
  <1>1. Slots \in Seq(Slot)
    BY DEF TypeOK, IsVolume, Slots
  <1>2. /\ slot > 1 => Slots[slot - 1].type # "long"
        /\ Plausible(ShortName(Slots[slot])) /\ Slots[slot].name[1] # Dot
    BY DEF PlainSlots, Slots
  <1>3. ~lfn.pending
    <2> SUFFICES ASSUME lfn.pending PROVE FALSE
      OBVIOUS
    <2>1. slot - 1 \in DOMAIN Slots /\ Slots[slot - 1].type = "long"
      BY DEF SlotInv
    <2>2. slot > 1
      BY <1>1, <2>1 DEF TypeOK
    <2> QED
      BY <1>2, <2>1, <2>2
  <1>4. LeafName(Slots[slot]) = ShortName(Slots[slot])
    BY <1>3 DEF LeafName
  <1> QED
    BY <1>2, <1>4 DEF Passed

(* Kept or discarded, an entry leaves one with its parent and name listed. *)
LEMMA AddEntryLists ==
  ASSUME TypeOK, NEW e, AddEntry(e)
  PROVE  \E j \in DOMAIN found' : found'[j].parent = e.parent /\ found'[j].name = e.name
  <1>1. found \in Seq(Entry)
    BY DEF TypeOK
  <1>2. CASE found' = Append(found, e)
    <2>1. Len(found) + 1 \in DOMAIN found' /\ found'[Len(found) + 1] = e
      BY <1>1, <1>2
    <2> QED
      BY <2>1
  <1> QED
    BY <1>2 DEF AddEntry

LEMMA TakenStep ==
  ASSUME TypeOK, WalkInv, IdsInv, SlotInv, PlaceInv, TakenInv, [Next]_vars
  PROVE  PlaceInv' /\ TakenInv'
  <1>1. Grows /\ chain \in Seq(Nat) /\ slot \in Nat \ {0} /\ nextId \in Nat
    BY GrowsStep DEF TypeOK
  <1>2. \A c : PlainSlots(c)' = PlainSlots(c)
    BY <1>1 DEF PlainSlots, Grows
  <1>3. CASE SkipDirectory \/ StartDirectory \/ Extend \/ DirectoryFails \/ ClusterFails
              \/ StartFile \/ Finish \/ UNCHANGED vars
    <2>1. Registered' = Registered
      BY <1>3, QuietStep DEF Quiet
    <2>2. UNCHANGED <<self, chain, slot>>
      BY <1>3 DEF SkipDirectory, StartDirectory, Extend, DirectoryFails, ClusterFails, Fail,
         StartFile, Finish, dirVars, vars
    <2> QED
      BY <1>1, <2>1, <2>2, StandsStill
  <1>4. CASE EnterDirectory
    <2>1. /\ chain = << >> /\ self' = nextId /\ chain' = walk.clusters /\ slot' = 1
          /\ Registered' = Registered \cup {DirectoryEntry}
          /\ DirectoryEntry.id = nextId /\ DirectoryEntry.chain = walk.clusters
      BY <1>4, EnterStep DEF EnterDirectory, WalkInv, Registers, DirectoryEntry
    <2>2. walk.clusters \in Seq(Nat)
      BY DEF TypeOK, Walk
    <2>3. ASSUME NEW d \in Registered
          PROVE  d.id # self' /\ Read(d) = Len(d.chain) /\ Read(d)' = Len(d.chain)
      <3>1. d.id < nextId /\ d.id \in Nat /\ Len(d.chain) \in Nat
        BY DirectoryTypes DEF IdsInv
      <3>2. d.id # self'
        BY <1>1, <2>1, <3>1
      <3>3. Len(chain) = 0 /\ Len(d.chain) - 0 = Len(d.chain)
        BY <2>1, <3>1
      <3> QED
        BY <3>2, <3>3 DEF Read
    <2>4. PlaceInv'
      BY <2>1, <2>2, <2>3 DEF PlaceInv
    <2>5. ASSUME NEW d \in Registered', d.type = "directory", NEW k \in DOMAIN d.chain,
                 NEW i \in PlainSlots(d.chain[k]), Behind(d, k, i)'
          PROVE  Taken(d, volume.slots[d.chain[k]][i])'
      <3>1. CASE d \in Registered
        <4>1. Behind(d, k, i)
          BY <2>3, <2>5, <3>1, DirectoryTypes DEF Behind
        <4>2. PICK s : s = volume.slots[d.chain[k]][i]
          OBVIOUS
        <4>3. Taken(d, s)'
          BY <1>1, <2>5, <3>1, <4>1, <4>2, TakenStays DEF TakenInv
        <4> QED
          BY <1>1, <4>2, <4>3 DEF Grows
      <3>2. CASE d = DirectoryEntry
        <4>1. Read(d)' = 0 /\ k \in Nat \ {0}
          BY <2>1, <2>2, <3>2 DEF Read
        <4> QED
          BY <2>1, <2>5, <4>1 DEF Behind
      <3> QED
        BY <2>1, <3>1, <3>2
    <2> QED
      BY <1>2, <2>4, <2>5 DEF TakenInv
  <1>5. CASE NextCluster
    <2>1. /\ chain # << >> /\ Readable(Head(chain)) /\ chain' = Tail(chain) /\ slot' = 1
          /\ slot \in DOMAIN Slots => Slots[slot].type = "end"
          /\ UNCHANGED self
      BY <1>5 DEF NextCluster, Walking
    <2>2. Registered' = Registered
      BY <1>5, QuietStep DEF Quiet
    <2>3. /\ Len(chain) \in Nat \ {0} /\ Len(chain') = Len(chain) - 1 /\ Head(chain) = chain[1]
          /\ DOMAIN chain' = 1..(Len(chain) - 1) /\ 1 \in DOMAIN chain
          /\ \A j \in DOMAIN chain' : j + 1 \in DOMAIN chain /\ chain'[j] = chain[j + 1]
      BY <1>1, <2>1
    <2>4. ASSUME NEW i \in PlainSlots(Head(chain)) PROVE i \in 1..(slot - 1)
      <3>1. Slots \in Seq(Slot)
        BY <2>1 DEF TypeOK, IsVolume, Slots
      <3>2. i \in 1..Len(Slots) /\ Len(Slots) \in Nat /\ \A j \in 1..i : Slots[j].type # "end"
        BY <3>1 DEF PlainSlots, Slots
      <3> QED
        BY <1>1, <2>1, <3>1, <3>2
    <2>5. ASSUME NEW d \in Registered, d.type = "directory", d.id = self
          PROVE  /\ Len(chain') <= Len(d.chain)
                 /\ \A j \in DOMAIN chain' : chain'[j] = d.chain[Len(d.chain) - Len(chain') + j]
                 /\ Read(d)' = Read(d) + 1 /\ Read(d) = Len(d.chain) - Len(chain)
                 /\ d.chain[Read(d) + 1] = Head(chain)
      <3>1. PICK n \in Nat, m \in Nat : n = Len(d.chain) /\ m = Len(chain)
        BY <2>3, DirectoryTypes
      <3>2. m <= n /\ \A j \in DOMAIN chain : chain[j] = d.chain[n - m + j]
        BY <2>5, <3>1 DEF PlaceInv
      <3>3. ASSUME NEW j \in DOMAIN chain' PROVE chain'[j] = d.chain[n - Len(chain') + j]
        <4>1. n - m + (j + 1) = n - Len(chain') + j
          BY <2>3, <3>1
        <4> QED
          BY <2>3, <3>2, <4>1
      <3>4. Read(d)' = n - (m - 1) /\ Read(d) = n - m
        BY <2>1, <2>3, <2>5, <3>1 DEF Read
      <3> QED
        BY <2>3, <3>1, <3>2, <3>3, <3>4
    <2>6. PlaceInv'
      BY <2>1, <2>2, <2>5 DEF PlaceInv
    <2>7. ASSUME NEW d \in Registered, d.type = "directory", NEW k \in DOMAIN d.chain,
                 NEW i \in PlainSlots(d.chain[k]), Behind(d, k, i)'
          PROVE  Behind(d, k, i)
      <3>1. CASE d.id = self
        <4>1. PICK r \in Int : r = Read(d)
          BY <2>3, <2>5, <3>1, DirectoryTypes, <2>7
        <4>2. k <= r + 1 /\ k \in Int
          BY <2>1, <2>5, <2>7, <3>1, <4>1, DirectoryTypes DEF Behind
        <4>3. k = r + 1 => i \in 1..(slot - 1)
          BY <2>4, <2>5, <2>7, <3>1, <4>1
        <4> QED
          BY <3>1, <4>1, <4>2, <4>3 DEF Behind
      <3>2. CASE d.id # self
        BY <2>1, <2>7, <3>2 DEF Behind, Read
      <3> QED
        BY <3>1, <3>2
    <2>8. ASSUME NEW d \in Registered, d.type = "directory", NEW k \in DOMAIN d.chain,
                 NEW i \in PlainSlots(d.chain[k]), Behind(d, k, i)'
          PROVE  Taken(d, volume.slots[d.chain[k]][i])'
      <3>1. PICK s : s = volume.slots[d.chain[k]][i]
        OBVIOUS
      <3>2. Behind(d, k, i)
        BY <2>7, <2>8
      <3>3. Taken(d, s)'
        BY <1>1, <2>8, <3>1, <3>2, TakenStays DEF TakenInv
      <3> QED
        BY <1>1, <3>1, <3>3 DEF Grows
    <2> QED
      BY <1>2, <2>2, <2>6, <2>8 DEF TakenInv
  <1>6. CASE CollectLongName \/ PassSlot \/ RegisterLabel \/ EnqueueDirectory \/ RegisterFile
    <2>1. PICK here : here = Slots[slot]
      OBVIOUS
    <2>2. chain # << >> /\ Readable(Head(chain)) /\ UNCHANGED <<self, chain>> /\ slot' = slot + 1
      BY <1>6 DEF CollectLongName, PassSlot, RegisterLabel, EnqueueDirectory, RegisterFile,
         AtLeaf, AtSlot, Walking, NextSlot, WalkInv
    <2>3. \A d \in Registered' : d \in Registered \/ d.type # "directory"
      <3>1. CASE RegisterLabel \/ RegisterFile
        BY <3>1, LabelStep, FileStep DEF Registers, LabelEntry, FileEntry
      <3>2. CASE ~(RegisterLabel \/ RegisterFile)
        BY <1>6, <3>2, QuietStep DEF Quiet
      <3> QED
        BY <3>1, <3>2
    <2>4. ASSUME NEW d, d.id = self, slot \in PlainSlots(Head(chain)) PROVE Taken(d, here)'
      <3>1. LeafName(here) = ShortName(here) /\ ~Passed(here)
        BY <2>1, <2>2, <2>4, PlainFacts
      <3>2. CASE CollectLongName \/ RegisterLabel
        BY <2>1, <3>2 DEF CollectLongName, RegisterLabel, AtLeaf, Taken
      <3>3. CASE PassSlot
        <4>1. here.type = "directory" /\ ~Unseen(here) /\ UNCHANGED visitedDirs
          BY <2>1, <3>1, <3>3 DEF PassSlot, listVars
        <4> QED
          BY <4>1 DEF Taken, Unseen
      <3>4. CASE EnqueueDirectory
        BY <2>1, <3>4 DEF EnqueueDirectory, AtLeaf, Taken
      <3>5. CASE RegisterFile
        <4>1. here.type = "file"
          BY <2>1, <3>5 DEF RegisterFile, AtLeaf, SlotInv
        <4>2. AddEntry(FileEntry) /\ FileEntry.parent = self /\ FileEntry.name = LeafName(here)
          BY <2>1, <3>5 DEF RegisterFile, FileEntry
        <4> QED
          BY <2>4, <3>1, <4>1, <4>2, AddEntryLists DEF Taken
      <3> QED
        BY <1>6, <3>2, <3>3, <3>4, <3>5
    <2> QED
      BY <1>1, <2>1, <2>2, <2>3, <2>4, SlotIsTaken
  <1> QED
    BY <1>3, <1>4, <1>5, <1>6 DEF Next

LEMMA AllIsTaken ==
  ASSUME TypeOK, SlotInv, VisitedInv, TakenInv
  PROVE  EverySlotIsTaken
  <1> SUFFICES ASSUME status = "done", NEW d \in Registered, d.type = "directory",
                      NEW k \in DOMAIN d.chain, NEW i \in PlainSlots(d.chain[k])
               PROVE  LET s == volume.slots[d.chain[k]][i] IN
                        /\ s.type = "file" =>
                             \E j \in DOMAIN found : found[j].parent = d.id /\ found[j].name = ShortName(s)
                        /\ s.type = "directory" /\ InRange(s.cluster) /\ HasMarkers(volume.slots[s.cluster]) =>
                             \E e \in Registered : e.type = "directory" /\ e.cluster = s.cluster
    BY DEF EverySlotIsTaken
  <1>1. chain = << >> /\ queue = << >>
    BY DEF SlotInv
  <1>2. k <= Read(d)
    BY <1>1, DirectoryTypes DEF Read
  <1>3. PICK s : s = volume.slots[d.chain[k]][i]
    OBVIOUS
  <1>4. Taken(d, s)
    BY <1>2, <1>3 DEF TakenInv, Behind
  <1>5. \A c \in visitedDirs : InRange(c) /\ HasMarkers(volume.slots[c]) =>
          \E e \in Registered : e.type = "directory" /\ e.cluster = c
    BY <1>1 DEF VisitedInv
  <1> QED
    BY <1>3, <1>4, <1>5 DEF Taken

(* No file of a walked directory is hidden: at the end it is listed below  *)
(* its directory, the directories it names were walked, and paths tell the *)
(* entries below the root apart, whatever the volume holds (add_entry,     *)
(* walk_directory, resolve_path).                                          *)
THEOREM NoFileIsHidden == Spec => []NothingIsHidden
  <1>1. Init => IdsInv /\ ParentsInv /\ NamesInv
    BY DEF Init, IdsInv, ObjectIdsAreUnique, Registered, ParentsInv, Known, NamesInv, ToSet
  <1>2. Init => SlotInv /\ PlaceInv /\ TakenInv
    BY DEF Init, SlotInv, NoLfn, NoWalk, PlaceInv, TakenInv, Registered
  <1>3. Init => VisitedInv
    <2> SUFFICES ASSUME Init PROVE VisitedInv
      OBVIOUS
    <2>1. 1 \in DOMAIN queue /\ queue[1].cluster = volume.root /\ visitedDirs = {volume.root}
      BY DEF Init
    <2> QED
      BY <2>1 DEF VisitedInv
  <1>4. TypeOK /\ IdsInv /\ NamesInv /\ SlotInv /\ VisitedInv /\ TakenInv => NothingIsHidden
    BY PathsAreNames, AllIsTaken DEF NothingIsHidden
  <1> QED
    BY <1>1, <1>2, <1>3, <1>4, IdsStep, ParentsStep, NamesStep, SlotStep, VisitedStep, TakenStep,
       InvestigationIsTyped, PTL DEF Spec
=============================================================================
