---------------------------- MODULE ExFatProofs ----------------------------
(***************************************************************************)
(* Proofs about ExFatInvestigation for every volume, whatever its table    *)
(* and its records hold.  The arguments are those for FAT32; new are the   *)
(* fields of a record, which are those of the last stream extension in it, *)
(* the queue, which no gate keeps clusters outside the range from, and     *)
(* the records that are whole, which are read as they were written.        *)
(***************************************************************************)
EXTENDS ExFatContent, InvestigationProofs, WellFoundedInduction

USE DEF Readable, InRange

(* A set of positions has a greatest one.                                  *)
LEMMA MaxIsMember ==
  ASSUME NEW n \in Nat, NEW I \in SUBSET (1..n), I # {}
  PROVE  Max(I) \in I
  <1> DEFINE T == {n - i : i \in I}
  <1>1. T \subseteq Nat /\ T # {}
    <2>1. \A i \in I : i \in 1..n
      OBVIOUS
    <2>2. \A i \in 1..n : n - i \in Nat
      OBVIOUS
    <2> QED
      BY <2>1, <2>2
  <1>2. PICK x \in T : \A y \in T : ~(<<y, x>> \in OpToRel(<, Nat))
    BY <1>1, WFMin, NatLessThanWellFounded
  <1>3. \A y \in T : ~(y < x)
    BY <1>1, <1>2 DEF OpToRel
  <1>4. PICK i \in I : x = n - i
    OBVIOUS
  <1>5. \A j \in I : i >= j
    <2> TAKE j \in I
    <2>1. ~(n - j < n - i)
      BY <1>3, <1>4
    <2> QED
      BY <2>1
  <1> QED
    BY <1>5 DEF Max

(* The cluster and the size of a record are numbers, also of a record      *)
(* without a stream or one that is cut off.                                *)
LEMMA StreamType ==
  ASSUME NEW slots \in Seq(Slot), NEW i \in DOMAIN slots
  PROVE  Stream(slots, i).cluster \in Nat /\ Stream(slots, i).size \in Nat
  <1> DEFINE S == Secondaries(slots, i)
             I == {k \in 1..Len(S) : IsStream(S[k])}
  <1>1. slots[i].secondary \in Nat /\ i \in Nat /\ i >= 1 /\ Len(slots) \in Nat
    <2>1. slots[i] \in Slot
      OBVIOUS
    <2>2. i \in Nat /\ i >= 1 /\ Len(slots) \in Nat
      OBVIOUS
    <2> QED
      BY <2>1, <2>2 DEF Slot
  <1>2. S \in Seq(Slot)
    <2>1. CASE i + slots[i].secondary <= Len(slots)
      <3>1. \A k \in (i + 1)..(i + slots[i].secondary) : slots[k] \in Slot
        BY <1>1, <2>1
      <3>2. SubSeq(slots, i + 1, i + slots[i].secondary) \in Seq(Slot)
        BY <1>1, <3>1, SubSeqProperties
      <3> QED
        BY <2>1, <3>2 DEF Secondaries
    <2>2. CASE ~(i + slots[i].secondary <= Len(slots))
      BY <2>2 DEF Secondaries
    <2> QED
      BY <2>1, <2>2
  <1>3. CASE I = {}
    BY <1>3 DEF Stream, SelectLastInSeq
  <1>4. CASE I # {}
    <2>1. Len(S) \in Nat /\ I \in SUBSET (1..Len(S))
      BY <1>2
    <2>2. Max(I) \in 1..Len(S)
      BY <1>4, <2>1, MaxIsMember
    <2>3. SelectLastInSeq(S, IsStream) = Max(I)
      BY <1>4 DEF SelectLastInSeq
    <2>4. Stream(slots, i) = S[Max(I)]
      BY <2>2, <2>3 DEF Stream
    <2>5. S[Max(I)] \in Slot
      BY <1>2, <2>2
    <2> QED
      BY <2>4, <2>5 DEF Slot
  <1> QED
    BY <1>3, <1>4

(* The slot that is being read is one of the volume. *)
LEMMA SlotType ==
  ASSUME TypeOK, chain # << >>, Readable(Head(chain)), slot \in DOMAIN Slots
  PROVE  /\ Slots \in Seq(Slot) /\ Slots[slot] \in Slot
         /\ Stream(Slots, slot).cluster \in Nat /\ Stream(Slots, slot).size \in Nat
         /\ RecordName(Slots, slot) \in RecordNames
         /\ AtMost(Slots[slot].units, Slots[slot].length) \in RecordNames
         /\ ThisPlace \in Place
  <1>1. Slots \in Seq(Slot)
    BY DEF TypeOK, IsVolume, Slots
  <1>2. Slots[slot] \in Slot
    BY <1>1
  <1>3. ThisPlace \in Place
    BY DEF ThisPlace, Place, TypeOK
  <1>4. /\ RecordName(Slots, slot) \in RecordNames
        /\ AtMost(Slots[slot].units, Slots[slot].length) \in RecordNames
    BY DEF RecordNames, Slots
  <1> QED
    BY <1>1, <1>2, <1>3, <1>4, StreamType

(* The walk belongs to the directory at the head of the queue or to the    *)
(* record in the current slot, starts at its cluster and follows the table.*)
WalkInv ==
  /\ walk.for = "nothing" => walk = NoWalk
  /\ walk.for # "nothing" => WalkFollows
  /\ walk.for = "directory" =>
       queue # << >> /\ chain = << >> /\ walk.clusters[1] = Head(queue).cluster
  /\ walk.for = "file" =>
       /\ chain # << >> /\ Readable(Head(chain)) /\ slot \in DOMAIN Slots
       /\ walk.clusters[1] = Stream(Slots, slot).cluster
       /\ walk.max = Stream(Slots, slot).size

(* The entries that the three registering steps make. *)
DirectoryEntry ==
  [id |-> nextId, parent |-> Head(queue).parent, name |-> Head(queue).name, deleted |-> FALSE,
   type |-> "directory", size |-> 0, cluster |-> Head(queue).cluster,
   chain |-> walk.clusters, place |-> Head(queue).place]
OtherEntry ==
  [id |-> nextId, parent |-> self, name |-> AtMost(Slots[slot].units, Slots[slot].length),
   deleted |-> FALSE, type |-> Slots[slot].type, size |-> 0,
   cluster |-> IF Slots[slot].type = "system" THEN Slots[slot].cluster ELSE 0,
   chain |-> << >>, place |-> ThisPlace]
FileEntry ==
  [id |-> nextId, parent |-> self, name |-> RecordName(Slots, slot),
   deleted |-> ~Slots[slot].live, type |-> "file", size |-> Stream(Slots, slot).size,
   cluster |-> Stream(Slots, slot).cluster, chain |-> Resolved, place |-> ThisPlace]

(* A step registers the entry of its action, or none. *)
Registers(e) ==
  /\ e \in Entry /\ e.id = nextId
  /\ AddEntry(e) /\ found' \in Seq(Entry) /\ Registered' = Registered \cup {e}
  /\ status = "walking" /\ status' = "walking" /\ UNCHANGED volume

LEMMA AddEntryRegisters ==
  ASSUME TypeOK, NEW e \in Entry, AddEntry(e)
  PROVE  found' \in Seq(Entry) /\ Registered' = Registered \cup {e}
  <1>1. found \in Seq(Entry) /\ found' = Append(found, e)
    BY DEF TypeOK, AddEntry
  <1> QED
    BY <1>1 DEF Registered

LEMMA EnterStep ==
  ASSUME TypeOK, WalkInv, EnterDirectory
  PROVE  Registers(DirectoryEntry) /\ queue # << >> /\ WalkFollows
  <1>1. /\ queue # << >> /\ WalkFollows /\ AddEntry(DirectoryEntry)
        /\ status = "walking" /\ status' = "walking" /\ UNCHANGED volume
    BY DEF WalkInv, EnterDirectory, DirectoryEntry
  <1>2. Head(queue) \in Job
    BY <1>1 DEF TypeOK
  <1>3. DirectoryEntry \in Entry
    BY <1>2 DEF DirectoryEntry, TypeOK, Job, Entry, Walk
  <1> QED
    BY <1>1, <1>3, AddEntryRegisters DEF Registers, DirectoryEntry

LEMMA OtherStep ==
  ASSUME TypeOK, RegisterOther
  PROVE  Registers(OtherEntry) /\ chain # << >> /\ OtherEntry.type # "directory"
  <1>1. /\ chain # << >> /\ Readable(Head(chain)) /\ slot \in DOMAIN Slots
        /\ Slots[slot].type \in {"label", "system"}
        /\ AddEntry(OtherEntry)
        /\ status = "walking" /\ status' = "walking" /\ UNCHANGED volume
    BY DEF RegisterOther, AtRecord, Walking, IsPrimary, OtherEntry, NextSlot
  <1>2. Slots[slot] \in Slot /\ ThisPlace \in Place
        /\ AtMost(Slots[slot].units, Slots[slot].length) \in RecordNames
    BY <1>1, SlotType
  <1>3. << >> \in Seq(Nat) /\ Slots[slot].cluster \in Nat
    BY <1>2 DEF Slot
  <1>4. OtherEntry \in Entry
    BY <1>1, <1>2, <1>3 DEF OtherEntry, Entry, TypeOK
  <1> QED
    BY <1>1, <1>4, AddEntryRegisters DEF Registers, OtherEntry

LEMMA FileStep ==
  ASSUME TypeOK, WalkInv, RegisterFile
  PROVE  Registers(FileEntry) /\ chain # << >>
  <1>1. /\ chain # << >> /\ Readable(Head(chain)) /\ slot \in DOMAIN Slots
        /\ AddEntry(FileEntry)
        /\ status = "walking" /\ status' = "walking" /\ UNCHANGED volume
    BY DEF RegisterFile, WalkInv, AtFile, AtRecord, Walking, FileEntry, NextSlot
  <1>2. /\ Slots[slot] \in Slot /\ ThisPlace \in Place /\ RecordName(Slots, slot) \in RecordNames
        /\ Stream(Slots, slot).cluster \in Nat /\ Stream(Slots, slot).size \in Nat
    BY <1>1, SlotType
  <1>3. Resolved \in Seq(Nat) /\ Slots[slot].live \in BOOLEAN
    <2>1. << >> \in Seq(Nat) /\ walk.clusters \in Seq(Nat)
      BY DEF TypeOK, Walk
    <2> QED
      BY <1>2, <2>1 DEF Resolved, Slot
  <1>4. FileEntry \in Entry
    BY <1>2, <1>3 DEF FileEntry, Entry, TypeOK
  <1> QED
    BY <1>1, <1>4, AddEntryRegisters DEF Registers, FileEntry

(* All other steps leave the entries alone. *)
Quiet == StartDirectory \/ Extend \/ DirectoryFails \/ ClusterFails \/ NextCluster \/ PassSlot
           \/ EnqueueDirectory \/ StartFile \/ Finish \/ UNCHANGED vars

LEMMA QuietStep ==
  ASSUME Quiet
  PROVE  UNCHANGED <<volume, nextId, found>> /\ Registered' = Registered
  <1>1. UNCHANGED <<volume, nextId, found>>
    BY DEF Quiet, StartDirectory, Extend, DirectoryFails, ClusterFails, Fail, NextCluster,
       PassSlot, EnqueueDirectory, StartFile, Finish, NextSlot, listVars, vars
  <1> QED
    BY <1>1 DEF Registered

LEMMA VolumeIsFixed ==
  ASSUME [Next]_vars
  PROVE  UNCHANGED volume /\ (Sound' <=> Sound) /\ Job' = Job /\ Entry' = Entry
  <1>1. UNCHANGED volume
    BY DEF Next, StartDirectory, Extend, DirectoryFails, EnterDirectory, ClusterFails, Fail,
       NextCluster, PassSlot, RegisterOther, EnqueueDirectory, StartFile, RegisterFile, Finish,
       NextSlot, vars
  <1>2. RecordNames' = RecordNames
    BY <1>1 DEF RecordNames
  <1> QED
    BY <1>1, <1>2 DEF Sound, Job, Entry


-----------------------------------------------------------------------------
LEMMA InitType == Init => TypeOK /\ WalkInv
  <1> SUFFICES ASSUME Init PROVE TypeOK /\ WalkInv
    OBVIOUS
  <1>1. IsVolume(volume) /\ volume.root \in Nat
    BY VolumeAssumption DEF Init, IsVolume
  <1>2. << >> \in Seq(Entry) /\ << >> \in Seq(Nat) /\ << >> \in RecordNames
    BY DEF RecordNames
  <1>3. queue \in Seq(Job)
    <2>1. [cluster |-> volume.root, parent |-> 1, name |-> << >>,
           place |-> [cluster |-> 0, slot |-> 0]] \in Job
      BY <1>1, <1>2 DEF Job, Place
    <2> QED
      BY <2>1 DEF Init
  <1>4. TypeOK
    BY <1>1, <1>2, <1>3, NoWalkType DEF Init, TypeOK
  <1> QED
    BY <1>4 DEF Init, WalkInv, NoWalk

(* One round of walk_chain leaves everything but the walk alone.           *)
LEMMA ExtendFacts ==
  ASSUME TypeOK, WalkInv, Extend
  PROVE  /\ WalkTypeOK' /\ WalkFollows'
         /\ walk.for # "nothing" /\ walk'.for = walk.for /\ walk'.max = walk.max
         /\ walk'.clusters = Append(walk.clusters, volume.fat[LastCluster])
         /\ walk'.clusters[1] = walk.clusters[1]
         /\ InRange(LastCluster)
         /\ volume.fat[LastCluster] \in Nat /\ ~IsEnd(volume.fat[LastCluster])
         /\ UNCHANGED <<volume, listVars, dirVars, status>>
  <1>1. FollowChain /\ UNCHANGED <<volume, listVars, dirVars, status>>
    BY DEF Extend
  <1>2. WalkTypeOK /\ volume.fat \in [2..Total -> Nat]
    BY DEF TypeOK, WalkTypeOK, IsVolume
  <1>3. WalkFollows
    BY <1>1 DEF WalkInv, FollowChain
  <1> QED
    BY <1>1, <1>2, <1>3, FollowChainKeeps

LEMMA StartDirectoryFacts ==
  ASSUME TypeOK, StartDirectory
  PROVE  /\ WalkTypeOK' /\ WalkFollows'
         /\ walk'.for = "directory" /\ walk'.clusters = <<Head(queue).cluster>>
         /\ queue # << >> /\ chain = << >>
         /\ UNCHANGED <<volume, listVars, dirVars, status>>
  <1>1. /\ queue # << >> /\ chain = << >>
        /\ BeginWalk("directory", Head(queue).cluster, Total)
        /\ UNCHANGED <<volume, listVars, dirVars, status>>
    BY DEF StartDirectory, Between
  <1>2. Head(queue).cluster \in Nat /\ Total \in Nat \ {0}
    <2>1. Head(queue) \in Job
      BY <1>1 DEF TypeOK
    <2>2. Total \in Nat /\ Total # 0
      BY ChainAssumption, VolumeAssumption
    <2> QED
      BY <2>1, <2>2 DEF Job
  <1> QED
    BY <1>1, <1>2, BeginWalkKeeps

LEMMA StartFileFacts ==
  ASSUME TypeOK, StartFile
  PROVE  /\ WalkTypeOK' /\ WalkFollows'
         /\ walk'.for = "file" /\ walk'.clusters = <<Stream(Slots, slot).cluster>>
         /\ walk'.max = Stream(Slots, slot).size
         /\ chain # << >> /\ Readable(Head(chain)) /\ slot \in DOMAIN Slots
         /\ UNCHANGED <<volume, listVars, dirVars, status>>
  <1>1. /\ chain # << >> /\ Readable(Head(chain)) /\ slot \in DOMAIN Slots
        /\ BeginWalk("file", Stream(Slots, slot).cluster, Stream(Slots, slot).size)
        /\ UNCHANGED <<volume, listVars, dirVars, status>>
        /\ Stream(Slots, slot).size > 0
    BY DEF StartFile, AtFile, AtRecord, Walking, HasChain
  <1>2. Stream(Slots, slot).cluster \in Nat /\ Stream(Slots, slot).size \in Nat \ {0}
    BY <1>1, SlotType
  <1> QED
    BY <1>1, <1>2, BeginWalkKeeps

LEMMA TypeStep ==
  ASSUME TypeOK, WalkInv, [Next]_vars
  PROVE  TypeOK'
  <1> USE VolumeIsFixed
  <1>1. CASE StartDirectory
    BY <1>1, StartDirectoryFacts DEF TypeOK, WalkTypeOK, listVars, dirVars
  <1>2. CASE Extend
    BY <1>2, ExtendFacts DEF TypeOK, WalkTypeOK, listVars, dirVars
  <1>3. CASE StartFile
    BY <1>3, StartFileFacts DEF TypeOK, WalkTypeOK, listVars, dirVars
  <1>4. CASE DirectoryFails \/ ClusterFails
    BY <1>4 DEF DirectoryFails, ClusterFails, Fail, TypeOK, listVars, dirVars
  <1>5. CASE EnterDirectory
    <2>1. Registers(DirectoryEntry) /\ queue # << >>
      BY <1>5, EnterStep
    <2>2. walk.clusters \in Seq(Nat) /\ queue \in Seq(Job) /\ Tail(queue) \in Seq(Job)
      BY <2>1 DEF TypeOK, Walk
    <2>3. found' \in Seq(Entry) /\ nextId' = nextId + 1 /\ status' = "walking"
      BY <2>1 DEF Registers, AddEntry
    <2>4. /\ self' = nextId /\ chain' = walk.clusters /\ slot' = 1 /\ walk' = NoWalk
          /\ queue' = Tail(queue) /\ UNCHANGED <<volume, visitedDirs>>
      BY <1>5 DEF EnterDirectory
    <2> QED
      BY <2>2, <2>3, <2>4, NoWalkType DEF TypeOK
  <1>6. CASE NextCluster
    <2>1. chain # << >> /\ chain' = Tail(chain) /\ slot' = 1
          /\ UNCHANGED <<volume, walk, listVars, self, status>>
      BY <1>6 DEF NextCluster, Walking
    <2>2. chain' \in Seq(Nat)
      BY <2>1 DEF TypeOK
    <2> QED
      BY <2>1, <2>2 DEF TypeOK, listVars
  <1>7. CASE PassSlot
    BY <1>7 DEF PassSlot, NextSlot, TypeOK, listVars
  <1>8. CASE RegisterOther \/ RegisterFile
    <2>1. found' \in Seq(Entry) /\ nextId' = nextId + 1 /\ status' = "walking"
      BY <1>8, OtherStep, FileStep DEF Registers, AddEntry
    <2>2. /\ slot' = slot + 1 /\ UNCHANGED <<volume, self, chain, queue, visitedDirs>>
          /\ walk' = walk \/ walk' = NoWalk
      BY <1>8 DEF RegisterOther, RegisterFile, NextSlot
    <2> QED
      BY <2>1, <2>2, NoWalkType DEF TypeOK
  <1>9. CASE EnqueueDirectory
    <2> DEFINE c == Stream(Slots, slot).cluster
               job == [cluster |-> c, parent |-> self, name |-> RecordName(Slots, slot),
                       place |-> ThisPlace]
    <2>1. /\ chain # << >> /\ Readable(Head(chain)) /\ slot \in DOMAIN Slots
          /\ queue' = Append(queue, job) /\ visitedDirs' = visitedDirs \cup {c}
          /\ slot' = slot + 1 /\ UNCHANGED <<volume, walk, nextId, found, self, chain, status>>
      BY <1>9 DEF EnqueueDirectory, AtRecord, Walking, NextSlot
    <2>2. c \in Nat /\ job \in Job
      BY <2>1, SlotType DEF Job, TypeOK
    <2> HIDE DEF c, job
    <2>3. queue' \in Seq(Job) /\ visitedDirs' \subseteq Nat
      BY <2>1, <2>2 DEF TypeOK
    <2> QED
      BY <2>1, <2>3 DEF TypeOK
  <1>10. CASE Finish
    BY <1>10 DEF Finish, TypeOK, listVars, dirVars
  <1>11. CASE UNCHANGED vars
    BY <1>11 DEF TypeOK, vars, listVars, dirVars
  <1> QED
    BY <1>1, <1>2, <1>3, <1>4, <1>5, <1>6, <1>7, <1>8, <1>9, <1>10, <1>11 DEF Next

(* Only Extend changes a running walk. *)
LEMMA WalkStep ==
  ASSUME TypeOK, WalkInv, [Next]_vars
  PROVE  WalkInv'
  <1>1. CASE walk' = NoWalk
    BY <1>1 DEF WalkInv, NoWalk
  <1>2. CASE StartDirectory
    BY <1>2, StartDirectoryFacts DEF WalkInv, listVars, dirVars
  <1>3. CASE StartFile
    <2>1. Slots' = Slots
      BY <1>3, StartFileFacts DEF Slots, dirVars
    <2> QED
      BY <1>3, <2>1, StartFileFacts DEF WalkInv, dirVars
  <1>4. CASE Extend
    <2>1. UNCHANGED <<volume, queue, chain, slot, status>>
      BY <1>4, ExtendFacts DEF listVars, dirVars
    <2>2. Slots' = Slots
      BY <2>1 DEF Slots
    <2> QED
      BY <1>4, <2>1, <2>2, ExtendFacts DEF WalkInv
  <1>5. CASE DirectoryFails \/ ClusterFails \/ UNCHANGED vars
    <2>1. UNCHANGED <<volume, walk, queue, chain, slot>>
      BY <1>5 DEF DirectoryFails, ClusterFails, Fail, vars, listVars, dirVars
    <2> QED
      BY <2>1 DEF WalkInv, WalkFollows, Slots
  <1>6. CASE EnterDirectory \/ NextCluster \/ PassSlot \/ RegisterOther \/ EnqueueDirectory
              \/ RegisterFile \/ Finish
    <2>1. walk' = NoWalk
      BY <1>6 DEF EnterDirectory, NextCluster, PassSlot, RegisterOther, EnqueueDirectory,
         RegisterFile, Finish, AtRecord, Walking
    <2> QED
      BY <1>1, <2>1
  <1> QED
    BY <1>2, <1>3, <1>4, <1>5, <1>6 DEF Next

(* The state of the investigation is well-formed for every volume: all     *)
(* names are those of records, the running chain is one of the table       *)
(* (investigate_filesystem_with_progress, walk_chain).                     *)
THEOREM ExFatIsTyped == Spec => [](TypeOK /\ WalkInv)
  BY InitType, TypeStep, WalkStep, PTL DEF Spec


-----------------------------------------------------------------------------
(* A first cluster is in the queue once, or it is that of one directory.   *)
QueueInv ==
  /\ \A i \in DOMAIN queue : queue[i].cluster \in visitedDirs
  /\ \A i, j \in DOMAIN queue : queue[i].cluster = queue[j].cluster => i = j
  /\ \A e \in Registered : e.type = "directory" =>
       e.cluster \in visitedDirs /\ \A i \in DOMAIN queue : queue[i].cluster # e.cluster
  /\ DirectoriesWalkedOnce

LEMMA QueueStep ==
  ASSUME TypeOK, WalkInv, QueueInv, [Next]_vars
  PROVE  QueueInv'
  <1> USE DEF QueueInv
  <1>0. queue \in Seq(Job)
    BY DEF TypeOK
  <1>1. CASE EnterDirectory
    <2>1. /\ queue # << >> /\ queue' = Tail(queue) /\ UNCHANGED visitedDirs
          /\ Registered' = Registered \cup {DirectoryEntry}
          /\ DirectoryEntry.type = "directory" /\ DirectoryEntry.cluster = queue[1].cluster
      BY <1>1, EnterStep DEF EnterDirectory, Registers, DirectoryEntry
    <2>2. \A i \in DOMAIN queue' : i + 1 \in DOMAIN queue /\ queue'[i] = queue[i + 1]
      BY <1>0, <2>1
    <2>3. \A i \in DOMAIN queue' : queue'[i].cluster # DirectoryEntry.cluster
      BY <1>0, <2>1, <2>2
    <2>4. \A e \in Registered : e.type = "directory" => e.cluster # DirectoryEntry.cluster
      BY <1>0, <2>1
    <2>5. DirectoriesWalkedOnce'
      BY <2>1, <2>4 DEF DirectoriesWalkedOnce
    <2>6. ASSUME NEW i \in DOMAIN queue', NEW j \in DOMAIN queue',
                 queue'[i].cluster = queue'[j].cluster
          PROVE  i = j
      <3>1. i + 1 = j + 1
        BY <2>2, <2>6
      <3> QED
        BY <1>0, <2>1, <3>1
    <2>7. DirectoryEntry.cluster \in visitedDirs
      BY <1>0, <2>1
    <2> QED
      BY <2>1, <2>2, <2>3, <2>5, <2>6, <2>7
  <1>2. CASE EnqueueDirectory
    <2> DEFINE c == Stream(Slots, slot).cluster
               job == [cluster |-> c, parent |-> self, name |-> RecordName(Slots, slot),
                       place |-> ThisPlace]
    <2>1. /\ queue' = Append(queue, job) /\ c \notin visitedDirs
          /\ visitedDirs' = visitedDirs \cup {c} /\ Registered' = Registered
      BY <1>2, QuietStep DEF EnqueueDirectory, Unseen, Quiet
    <2>2. Len(queue) \in Nat /\ DOMAIN queue = 1..Len(queue) /\ job.cluster = c
      BY <1>0
    <2> HIDE DEF job, c
    <2>3. /\ DOMAIN queue' = 1..(Len(queue) + 1) /\ queue'[Len(queue) + 1] = job
          /\ \A i \in DOMAIN queue : queue'[i] = queue[i]
      BY <1>0, <2>1, <2>2
    <2>4. \A i \in DOMAIN queue' : i \in DOMAIN queue \/ (queue'[i] = job /\ i = Len(queue) + 1)
      BY <2>2, <2>3
    <2>5. \A i \in DOMAIN queue' : queue'[i].cluster \in visitedDirs'
      BY <2>1, <2>2, <2>3, <2>4
    <2>6. \A i, j \in DOMAIN queue' : queue'[i].cluster = queue'[j].cluster => i = j
      BY <2>1, <2>2, <2>3, <2>4
    <2>7. \A e \in Registered : e.type = "directory" =>
            \A i \in DOMAIN queue' : queue'[i].cluster # e.cluster
      BY <2>1, <2>2, <2>3, <2>4
    <2> QED
      BY <2>1, <2>5, <2>6, <2>7 DEF DirectoriesWalkedOnce
  <1>3. CASE RegisterOther \/ RegisterFile
    <2>1. UNCHANGED <<queue, visitedDirs>>
      BY <1>3 DEF RegisterOther, RegisterFile
    <2>2. FileEntry.type # "directory"
      BY DEF FileEntry
    <2>3. PICK e : e.type # "directory" /\ Registered' = Registered \cup {e}
      BY <1>3, <2>2, OtherStep, FileStep DEF Registers
    <2> QED
      BY <2>1, <2>3 DEF DirectoriesWalkedOnce
  <1>4. CASE StartDirectory \/ Extend \/ DirectoryFails \/ ClusterFails \/ NextCluster
              \/ PassSlot \/ StartFile \/ Finish \/ UNCHANGED vars
    <2>1. UNCHANGED <<queue, visitedDirs>>
      BY <1>4 DEF StartDirectory, Extend, DirectoryFails, ClusterFails, Fail, NextCluster,
         PassSlot, StartFile, Finish, listVars, vars
    <2>2. Registered' = Registered
      BY <1>4, QuietStep DEF Quiet
    <2> QED
      BY <2>1, <2>2 DEF DirectoriesWalkedOnce
  <1> QED
    BY <1>1, <1>2, <1>3, <1>4 DEF Next

(* No directory is walked twice, whatever the records name; this bounds    *)
(* the walk by the number of clusters (register_entry).                    *)
THEOREM ExFatWalkedOnce == Spec => []DirectoriesWalkedOnce
  <1>1. Init => QueueInv
    BY DEF Init, QueueInv, DirectoriesWalkedOnce, Registered
  <1>2. QueueInv => DirectoriesWalkedOnce
    BY DEF QueueInv
  <1> QED
    BY <1>1, <1>2, QueueStep, ExFatIsTyped, PTL DEF Spec

-----------------------------------------------------------------------------
ChainsFollowFat == \A e \in Registered : FollowsFat(e)

LEMMA ChainsStep ==
  ASSUME TypeOK, WalkInv, ChainsFollowFat, [Next]_vars
  PROVE  ChainsFollowFat'
  <1>1. UNCHANGED volume
    BY VolumeIsFixed
  <1>2. CASE Quiet
    BY <1>1, <1>2, QuietStep DEF ChainsFollowFat, FollowsFat
  <1>3. ASSUME NEW e, Registers(e), FollowsFat(e) PROVE ChainsFollowFat'
    <2>1. \A f \in Registered' : FollowsFat(f)
      BY <1>3 DEF Registers, ChainsFollowFat
    <2>2. ASSUME NEW f, FollowsFat(f) PROVE FollowsFat(f)'
      BY <1>1, <2>2 DEF FollowsFat
    <2> QED
      BY <2>1, <2>2 DEF ChainsFollowFat
  <1>4. CASE EnterDirectory
    <2>1. /\ DirectoryEntry.chain = walk.clusters /\ DirectoryEntry.cluster = walk.clusters[1]
          /\ DirectoryEntry.type # "file"
      BY <1>4 DEF EnterDirectory, WalkInv, DirectoryEntry
    <2>2. FollowsFat(DirectoryEntry)
      BY <1>4, <2>1, EnterStep, WalkIsChain
    <2> QED
      BY <1>3, <1>4, <2>2, EnterStep
  <1>5. CASE RegisterOther
    <2>1. FollowsFat(OtherEntry)
      BY EmptyIsChain DEF OtherEntry
    <2> QED
      BY <1>3, <1>5, <2>1, OtherStep
  <1>6. CASE RegisterFile
    <2>1. FileEntry.chain = << >> \/ (walk.for = "file" /\ FileEntry.chain = walk.clusters)
      BY DEF FileEntry, Resolved
    <2>2. ASSUME FileEntry.chain = << >> PROVE FollowsFat(FileEntry)
      BY <2>2, EmptyIsChain
    <2>3. ASSUME walk.for = "file", FileEntry.chain = walk.clusters PROVE FollowsFat(FileEntry)
      <3>1. /\ FileEntry.cluster = walk.clusters[1] /\ Len(walk.clusters) <= FileEntry.size
            /\ WalkFollows
        BY <2>3 DEF TypeOK, WalkInv, FileEntry
      <3> QED
        BY <2>3, <3>1, WalkIsChain
    <2>4. Registers(FileEntry)
      BY <1>6, FileStep
    <2> QED
      BY <1>3, <2>1, <2>2, <2>3, <2>4
  <1> QED
    BY <1>2, <1>4, <1>5, <1>6 DEF Next, Quiet

(* Every chain that is registered, of live and of deleted records, follows *)
(* the table within the size (walk_chain, resolve_file_chain).             *)
THEOREM ExFatChainsAreOfTheTable == Spec => []ChainsFollowFat
  <1>1. Init => ChainsFollowFat
    BY DEF Init, ChainsFollowFat, Registered
  <1> QED
    BY <1>1, ChainsStep, ExFatIsTyped, PTL DEF Spec

(* What is recovered of an object is what the table says of it: its chain, *)
(* laid out in this order, and where it is shown as normal and holds       *)
(* anything, from the cluster of its stream on (resolve_file_chain,        *)
(* content_layout, to_forensic_model).                                     *)
THEOREM ExFatContentIsOfTheTable == Spec => []ContentFollowsFat
  <1>1. ASSUME TypeOK, ChainsFollowFat, NEW e \in Registered
        PROVE  /\ FollowsFat(e)
               /\ LaysOut(ToForensicEntry(e).layout, e.chain)
               /\ ToForensicEntry(e).status = "normal" /\ ToForensicEntry(e).realSize > 0 =>
                    /\ ToForensicEntry(e).regions # << >>
                    /\ ToForensicEntry(e).regions[1].sectorStart = SectorOfCluster(e.cluster)
    <2>1. FollowsFat(e) /\ e \in Entry
      BY <1>1, LenProperties, ElementOfSeq DEF ChainsFollowFat, Registered, TypeOK
    <2>2. e.chain \in Seq(Nat)
      BY <2>1 DEF Entry
    <2>3. /\ LaysOut(Layout(e), e.chain)
          /\ e.chain # << >> => /\ Layout(e) # << >> /\ 1 \in DOMAIN Layout(e)
                                /\ Layout(e)[1].region.sectorStart = SectorOfCluster(e.chain[1])
      BY <2>2, LayoutIsFaithful DEF Layout
    <2>4. /\ ToForensicEntry(e).layout = Layout(e)
          /\ ToForensicEntry(e).regions = PhysicalLocation(e)
          /\ ToForensicEntry(e).status = ForensicStatus(e)
          /\ ToForensicEntry(e).realSize = e.size
      BY DEF ToForensicEntry
    <2>5. ASSUME ForensicStatus(e) = "normal", e.size > 0
          PROVE  /\ PhysicalLocation(e) # << >>
                 /\ PhysicalLocation(e)[1].sectorStart = SectorOfCluster(e.cluster)
      <3>1. e.chain # << >>
        BY <2>5 DEF ForensicStatus
      <3>2. Len(e.chain) > 0
        BY <2>2, <3>1, EmptySeq, LenProperties
      <3>3. e.chain[1] = e.cluster
        BY <2>1, <3>2 DEF FollowsFat
      <3>4. /\ DOMAIN PhysicalLocation(e) = DOMAIN Layout(e)
            /\ PhysicalLocation(e)[1] = Layout(e)[1].region
        BY <2>3, <3>1 DEF PhysicalLocation
      <3>5. PhysicalLocation(e) # << >>
        BY <2>3, <3>1, <3>4
      <3> QED
        BY <2>3, <3>1, <3>3, <3>4, <3>5
    <2> QED
      BY <2>1, <2>3, <2>4, <2>5
  <1>2. TypeOK /\ ChainsFollowFat => ContentFollowsFat
    BY <1>1 DEF ContentFollowsFat, ChainsFollowFat
  <1> QED
    BY <1>2, ExFatIsTyped, ExFatChainsAreOfTheTable, PTL

-----------------------------------------------------------------------------
(* On a sound volume nothing outside the range ever waits or is walked.    *)
SoundInv ==
  Sound => /\ \A i \in DOMAIN queue : InRange(queue[i].cluster)
           /\ walk.for = "directory" => \A i \in DOMAIN walk.clusters : InRange(walk.clusters[i])
           /\ \A i \in DOMAIN chain : InRange(chain[i])
           /\ status # "failed"

LEMMA SoundStep ==
  ASSUME TypeOK, WalkInv, SoundInv, [Next]_vars
  PROVE  SoundInv'
  <1> SUFFICES ASSUME Sound PROVE SoundInv'
    BY VolumeIsFixed DEF SoundInv
  <1>1. /\ \A i \in DOMAIN queue : InRange(queue[i].cluster)
        /\ walk.for = "directory" => \A i \in DOMAIN walk.clusters : InRange(walk.clusters[i])
        /\ \A i \in DOMAIN chain : InRange(chain[i])
        /\ status # "failed"
    BY DEF SoundInv
  <1>2. walk.clusters \in Seq(Nat) /\ chain \in Seq(Nat) /\ queue \in Seq(Job)
    BY DEF TypeOK, Walk
  <1>3. CASE StartDirectory
    <2>1. InRange(Head(queue).cluster)
      BY <1>1, <1>2, <1>3, StartDirectoryFacts
    <2>2. walk'.clusters = <<Head(queue).cluster>> /\ UNCHANGED <<queue, chain, status>>
      BY <1>3, StartDirectoryFacts DEF listVars, dirVars
    <2> QED
      BY <1>1, <2>1, <2>2 DEF SoundInv
  <1>4. CASE Extend
    <2> DEFINE next == volume.fat[LastCluster]
    <2>1. /\ InRange(LastCluster) /\ next >= 2 /\ ~(next >= EndOfChain) /\ next # BadCluster
          /\ next \in Nat /\ UNCHANGED <<queue, chain, status>>
      BY <1>4, ExtendFacts DEF IsEnd, listVars, dirVars
    <2>2. InRange(next)
      BY <2>1, ChainAssumption DEF Sound, BadCluster
    <2> HIDE DEF next
    <2>3. walk'.clusters = Append(walk.clusters, next) /\ walk'.for = walk.for
      BY <1>4, ExtendFacts DEF next
    <2>4. walk.for = "directory" => \A i \in DOMAIN walk'.clusters : InRange(walk'.clusters[i])
      BY <1>1, <1>2, <2>1, <2>2, <2>3
    <2> QED
      BY <1>1, <2>1, <2>3, <2>4 DEF SoundInv
  <1>5. CASE DirectoryFails
    <2>1. walk.for = "directory" /\ Broken
      BY <1>5 DEF DirectoryFails
    <2>2. Len(walk.clusters) \in DOMAIN walk.clusters
      BY <1>2, <2>1 DEF WalkInv, WalkFollows
    <2> QED
      BY <1>1, <2>1, <2>2 DEF Broken, LastCluster
  <1>6. CASE ClusterFails
    <2>1. chain # << >> /\ ~Readable(Head(chain))
      BY <1>6 DEF ClusterFails, Walking
    <2>2. InRange(Head(chain))
      BY <1>1, <1>2, <2>1
    <2> QED
      BY <2>1, <2>2 DEF Sound
  <1>7. CASE EnterDirectory
    <2>1. /\ chain' = walk.clusters /\ walk' = NoWalk /\ UNCHANGED status /\ walk.for = "directory"
          /\ queue # << >> /\ queue' = Tail(queue)
      BY <1>7, EnterStep DEF EnterDirectory
    <2>2. \A i \in DOMAIN queue' : InRange(queue'[i].cluster)
      BY <1>1, <1>2, <2>1
    <2> QED
      BY <1>1, <2>1, <2>2 DEF SoundInv, NoWalk
  <1>8. CASE NextCluster
    <2>1. chain # << >> /\ chain' = Tail(chain) /\ UNCHANGED <<walk, queue, status>>
      BY <1>8 DEF NextCluster, Walking, listVars
    <2>2. \A i \in DOMAIN chain' : InRange(chain'[i])
      BY <1>1, <1>2, <2>1
    <2> QED
      BY <1>1, <2>1, <2>2 DEF SoundInv
  <1>9. CASE EnqueueDirectory
    <2> DEFINE c == Stream(Slots, slot).cluster
               job == [cluster |-> c, parent |-> self, name |-> RecordName(Slots, slot),
                       place |-> ThisPlace]
    <2>1. /\ chain # << >> /\ slot \in DOMAIN Slots /\ IsDirectory(Slots[slot]) /\ c >= 2
          /\ Readable(Head(chain))
          /\ queue' = Append(queue, job) /\ UNCHANGED <<walk, chain, status>>
      BY <1>9 DEF EnqueueDirectory, AtRecord, Walking, Unseen, NextSlot
    <2>2. c \in Nat /\ Head(chain) \in 2..Total
      BY <1>1, <1>2, <2>1, SlotType
    <2>3. InRange(c)
      BY <2>1, <2>2 DEF Sound, Slots
    <2>4. job \in Job
      BY <2>1, <2>2, SlotType DEF Job, TypeOK
    <2>5. job.cluster = c
      OBVIOUS
    <2> HIDE DEF job, c
    <2>6. \A i \in DOMAIN queue' : InRange(queue'[i].cluster)
      BY <1>1, <1>2, <2>1, <2>3, <2>4, <2>5
    <2> QED
      BY <1>1, <2>1, <2>6 DEF SoundInv
  <1>10. CASE StartFile
    <2>1. walk'.for = "file" /\ UNCHANGED <<queue, chain, status>>
      BY <1>10, StartFileFacts DEF listVars, dirVars
    <2> QED
      BY <1>1, <2>1 DEF SoundInv
  <1>11. CASE PassSlot \/ RegisterOther \/ RegisterFile \/ Finish \/ UNCHANGED vars
    <2>1. UNCHANGED <<queue, chain>> /\ status' \in {status, "done"}
      BY <1>11 DEF PassSlot, RegisterOther, RegisterFile, Finish, NextSlot, listVars, dirVars, vars
    <2>2. walk' = walk \/ walk' = NoWalk
      BY <1>11 DEF PassSlot, RegisterOther, RegisterFile, Finish, vars
    <2> QED
      BY <1>1, <2>1, <2>2 DEF SoundInv, NoWalk
  <1> QED
    BY <1>3, <1>4, <1>5, <1>6, <1>7, <1>8, <1>9, <1>10, <1>11 DEF Next

(* The investigation fails on a damaged table or device, or on a directory *)
(* record that leads outside, and never else (walk_directory).             *)
THEOREM ExFatFailuresAreDamage == Spec => []OnlyDamageFails
  <1>1. Init => SoundInv
    BY DEF Init, SoundInv, Sound, NoWalk
  <1>2. SoundInv => OnlyDamageFails
    BY DEF SoundInv, OnlyDamageFails
  <1> QED
    BY <1>1, <1>2, SoundStep, ExFatIsTyped, PTL DEF Spec


-----------------------------------------------------------------------------
(* The ids that a new entry may name as its parent. *)
Known == IF nextId = 1 THEN {1} ELSE 1..(nextId - 1)

(* Directories wait below one that has its id, and so do their records.    *)
ParentsInv == /\ \A i \in DOMAIN queue : queue[i].parent \in Known
              /\ chain # << >> => self \in 1..(nextId - 1)

LEMMA ParentsStep ==
  ASSUME TypeOK, WalkInv, ParentsInv, [Next]_vars
  PROVE  ParentsInv'
  <1> USE DEF ParentsInv, Known
  <1>1. nextId \in Nat \ {0} /\ queue \in Seq(Job) /\ chain \in Seq(Nat) /\ self \in Nat
    BY DEF TypeOK
  <1>2. CASE EnterDirectory
    <2>1. queue # << >> /\ queue' = Tail(queue) /\ nextId' = nextId + 1 /\ self' = nextId
      BY <1>2, EnterStep DEF EnterDirectory, AddEntry
    <2> QED
      BY <1>1, <2>1
  <1>3. CASE EnqueueDirectory
    <2> DEFINE job == [cluster |-> Stream(Slots, slot).cluster, parent |-> self,
                       name |-> RecordName(Slots, slot), place |-> ThisPlace]
    <2>1. /\ chain # << >> /\ UNCHANGED <<nextId, chain, self>> /\ queue' = Append(queue, job)
      BY <1>3 DEF EnqueueDirectory, AtRecord, Walking, NextSlot
    <2>2. job.parent = self
      OBVIOUS
    <2> HIDE DEF job
    <2> QED
      BY <1>1, <2>1, <2>2
  <1>4. CASE NextCluster
    <2>1. chain # << >> /\ UNCHANGED <<nextId, queue, self>>
      BY <1>4 DEF NextCluster, Walking, listVars
    <2> QED
      BY <1>1, <2>1
  <1>5. CASE RegisterOther \/ RegisterFile
    <2>1. nextId' = nextId + 1 /\ UNCHANGED <<queue, chain, self>>
      BY <1>5 DEF RegisterOther, RegisterFile, AddEntry, NextSlot
    <2> QED
      BY <1>1, <2>1
  <1>6. CASE StartDirectory \/ Extend \/ DirectoryFails \/ ClusterFails \/ PassSlot \/ StartFile
              \/ Finish \/ UNCHANGED vars
    <2>1. UNCHANGED <<queue, nextId, chain, self>>
      BY <1>6 DEF StartDirectory, Extend, DirectoryFails, ClusterFails, Fail, PassSlot,
         StartFile, Finish, NextSlot, listVars, dirVars, vars
    <2> QED
      BY <2>1
  <1> QED
    BY <1>2, <1>3, <1>4, <1>5, <1>6 DEF Next

(* What is added to the list is the entry of the step, whose parent is     *)
(* known.                                                                  *)
LEMMA FoundStep ==
  ASSUME TypeOK, WalkInv, ParentsInv, [Next]_vars
  PROVE  UNCHANGED <<found, nextId>> \/ \E e : Registers(e) /\ e.parent \in Known
  <1>1. nextId \in Nat \ {0}
    BY DEF TypeOK
  <1>2. CASE EnterDirectory
    <2>1. Registers(DirectoryEntry) /\ queue # << >>
      BY <1>2, EnterStep
    <2>2. DirectoryEntry.parent \in Known
      BY <2>1 DEF ParentsInv, TypeOK, DirectoryEntry
    <2> QED
      BY <2>1, <2>2
  <1>3. CASE RegisterOther
    <2>1. OtherEntry.parent \in Known
      BY <1>1, <1>3, OtherStep DEF OtherEntry, ParentsInv, Known
    <2> QED
      BY <1>3, <2>1, OtherStep
  <1>4. CASE RegisterFile
    <2>1. FileEntry.parent \in Known
      BY <1>1, <1>4, FileStep DEF FileEntry, ParentsInv, Known
    <2> QED
      BY <1>4, <2>1, FileStep
  <1>5. CASE Quiet
    BY <1>5, QuietStep
  <1> QED
    BY <1>2, <1>3, <1>4, <1>5 DEF Next, Quiet

(* A registering step identifies one object and lists it.                  *)
LEMMA RegisterIdentifies ==
  ASSUME TypeOK, NEW e, Registers(e), e.parent \in Known
  PROVE  Promise!Identify
  <1>1. /\ nextId \in Nat \ {0} /\ found \in Seq(Entry) /\ e \in Entry /\ e.id = nextId
        /\ found' = Append(found, e) /\ nextId' = nextId + 1
        /\ status = "walking" /\ UNCHANGED status
    BY DEF TypeOK, Registers, AddEntry
  <1>2. /\ nextId \in (1..(nextId' - 1)) \ (1..(nextId - 1))
        /\ 1..(nextId' - 1) = (1..(nextId - 1)) \cup {nextId}
    BY <1>1
  <1>3. Shown(found') = Append(Shown(found), [id |-> nextId, parent |-> e.parent])
    BY <1>1, ShownAppend
  <1>4. e.parent \in (IF 1..(nextId - 1) = {} THEN {nextId} ELSE 1..(nextId - 1))
    BY <1>1 DEF Known
  <1> QED
    BY <1>1, <1>2, <1>3, <1>4 DEF Promise!Identify, Promise!Above, Shown

LEMMA PromiseStep ==
  ASSUME TypeOK, WalkInv, ParentsInv, [Next]_vars
  PROVE  [Promise!Next]_(Promise!promiseVars)
  <1>1. CASE EnterDirectory \/ RegisterOther \/ RegisterFile
    <2>1. nextId \in Nat /\ nextId' = nextId + 1
      BY <1>1 DEF TypeOK, EnterDirectory, RegisterOther, RegisterFile, AddEntry
    <2>2. PICK e : Registers(e) /\ e.parent \in Known
      BY <2>1, FoundStep
    <2> QED
      BY <2>2, RegisterIdentifies DEF Promise!Next
  <1>2. CASE DirectoryFails \/ ClusterFails \/ Finish
    <2>1. /\ status = "walking" /\ status' \in {"done", "failed"} /\ UNCHANGED <<nextId, found>>
      BY <1>2 DEF DirectoryFails, ClusterFails, Finish, Fail, Walking, listVars
    <2> QED
      BY <2>1 DEF Promise!Next, Promise!End
  <1>3. CASE StartDirectory \/ Extend \/ NextCluster \/ PassSlot \/ EnqueueDirectory \/ StartFile
              \/ UNCHANGED vars
    <2>1. UNCHANGED <<nextId, found, status>>
      BY <1>3 DEF StartDirectory, Extend, NextCluster, PassSlot, EnqueueDirectory, StartFile,
         NextSlot, listVars, dirVars, vars
    <2> QED
      BY <2>1 DEF Promise!promiseVars
  <1> QED
    BY <1>1, <1>2, <1>3 DEF Next

(* The investigation implements the promise that the tree and the recovery *)
(* by id build on, whatever the volume holds (add_entry, next_id).         *)
THEOREM ExFatKeepsPromise == Spec => KeepsPromise
  <1>1. Init => ParentsInv
    BY DEF Init, ParentsInv, Known
  <1>2. Init => Promise!Init
    <2> SUFFICES ASSUME Init PROVE Promise!Init
      OBVIOUS
    <2>1. nextId = 1 /\ found = << >> /\ status = "walking"
      BY DEF Init
    <2>2. 1..(nextId - 1) = {} /\ Shown(found) = << >>
      BY <2>1 DEF Shown
    <2> QED
      BY <2>1, <2>2 DEF Promise!Init, Shown
  <1> QED
    BY <1>1, <1>2, ParentsStep, PromiseStep, ExFatIsTyped, PTL
       DEF Spec, KeepsPromise, Promise!Spec

-----------------------------------------------------------------------------
(* Ids ascend, and an entry is listed behind its parent, but for the root. *)
IdsInv ==
  /\ \A e \in Registered : /\ e.id < nextId
                           /\ e.parent < e.id \/ (e.id = 1 /\ e.parent = 1)
  /\ \A d, e \in Registered : d.id = e.id => d = e

LEMMA RegisteredTypes ==
  ASSUME TypeOK, NEW d \in Registered
  PROVE  d \in Entry /\ d.id \in Nat /\ d.parent \in Nat /\ d.name \in RecordNames
         /\ d.chain \in Seq(Nat) /\ Len(d.chain) \in Nat /\ DOMAIN d.chain = 1..Len(d.chain)
  <1>1. d \in Entry
    BY DEF TypeOK, Registered
  <1> QED
    BY <1>1, LenProperties DEF Entry

LEMMA IdsStep ==
  ASSUME TypeOK, WalkInv, ParentsInv, IdsInv, [Next]_vars
  PROVE  IdsInv'
  <1>1. CASE UNCHANGED <<found, nextId>>
    BY <1>1 DEF IdsInv, Registered
  <1>2. ASSUME NEW e, Registers(e), e.parent \in Known PROVE IdsInv'
    <2>1. PICK n \in Nat \ {0} : n = nextId
      BY DEF TypeOK
    <2>2. /\ e.id = n /\ nextId' = n + 1 /\ Registered' = Registered \cup {e}
          /\ e.parent < e.id \/ (e.id = 1 /\ e.parent = 1)
      BY <1>2, <2>1 DEF Registers, AddEntry, Known
    <2>3. \A d \in Registered : d.id \in Nat /\ d.id < n
      BY <2>1, RegisteredTypes DEF IdsInv
    <2> QED
      BY <2>2, <2>3 DEF IdsInv
  <1> QED
    BY <1>1, <1>2, FoundStep

(* Paths are made of the hierarchy: the root is "/", and every other entry *)
(* is found under its name at the path of its parent, whatever the volume  *)
(* holds (resolve_path, add_entry).                                        *)
THEOREM ExFatPathsFollowParents == Spec => []PathsFollowParents
  <1>1. Init => ParentsInv /\ IdsInv
    BY DEF Init, ParentsInv, Known, IdsInv, Registered
  <1>2. TypeOK /\ IdsInv => PathsFollowParents
    <2> SUFFICES ASSUME TypeOK, IdsInv, NEW i \in DOMAIN found
                 PROVE  ResolvePath(found, found[i].id) =
                          IF found[i].parent = found[i].id THEN << >>
                          ELSE Append(ResolvePath(found, found[i].parent), found[i].name)
      BY DEF PathsFollowParents, Registered
    <2>1. IsSequence(found)
      BY ListIsSequence DEF TypeOK
    <2>2. \A j \in DOMAIN found : found[j] \in Registered
      BY DEF Registered
    <2>3. PICK N : N = RecordNames
      OBVIOUS
    <2>4. Listing(found, N)
      BY <2>1, <2>2, <2>3, RegisteredTypes DEF Listing
    <2>5. Ordered(found)
      <3>1. \A j, k \in DOMAIN found : found[j].id = found[k].id => found[j] = found[k]
        BY <2>2 DEF IdsInv
      <3>2. ASSUME NEW j \in DOMAIN found PROVE found[j].parent <= found[j].id
        <4>1. PICK a \in Nat, b \in Nat : a = found[j].parent /\ b = found[j].id
          BY <2>4 DEF Listing
        <4>2. a < b \/ a = b
          BY <2>2, <4>1 DEF IdsInv
        <4> QED
          BY <4>1, <4>2
      <3> QED
        BY <3>1, <3>2 DEF Ordered
    <2> QED
      BY <2>4, <2>5, PathFollowsParent
  <1> QED
    BY <1>1, <1>2, ParentsStep, IdsStep, ExFatIsTyped, PTL DEF Spec

-----------------------------------------------------------------------------
(* A record as a file system writes it is read as it was written: its one  *)
(* stream extension counts, and the name is that of the name entries.      *)
LEMMA WholeIsRead ==
  ASSUME NEW slots \in Seq(Slot), NEW i \in DOMAIN slots, IsWhole(slots, i)
  PROVE  /\ Stream(slots, i) = slots[i + 1]
         /\ RecordName(slots, i) = SubSeq(Written(slots, i), 1, slots[i + 1].length)
  <1> DEFINE S == Secondaries(slots, i)
             W == [k \in 1..(slots[i].secondary - 1) |-> slots[i + 1 + k].units]
             A == [k \in DOMAIN S |-> IF IsName(S[k]) THEN S[k].units ELSE << >>]
  <1>1. PICK n \in Nat : n = slots[i].secondary
    BY DEF Slot
  <1>2. i \in Nat \ {0} /\ i + n <= Len(slots) /\ Len(slots) \in Nat /\ n >= 2
    BY <1>1 DEF IsWhole
  <1>3. ASSUME NEW k \in 1..n PROVE slots[i + k] \in Slot /\ i + k \in 1..Len(slots)
    <2>1. i + k \in 1..Len(slots)
      BY <1>2
    <2> QED
      BY <2>1, LenProperties, ElementOfSeq
  <1>4. /\ S \in Seq(Slot) /\ Len(S) = n /\ DOMAIN S = 1..n
        /\ \A k \in 1..n : S[k] = slots[i + k]
    <2>1. S = SubSeq(slots, i + 1, i + n)
      BY <1>1, <1>2 DEF Secondaries
    <2>2. PICK p \in Int, q \in Int : p = i + 1 /\ q = i + n
      BY <1>2
    <2>3. \A k \in p..q : slots[k] \in Slot
      BY <1>2, <2>2
    <2>4. /\ S \in Seq(Slot) /\ Len(S) = q - p + 1
          /\ \A k \in 1..(q - p + 1) : S[k] = slots[p + k - 1]
      <3>1. S = SubSeq(slots, p, q) /\ p <= q
        BY <1>2, <2>1, <2>2
      <3> HIDE DEF S
      <3> QED
        BY <2>3, <3>1, SubSeqProperties
    <2>5. q - p + 1 = n /\ \A k \in 1..n : p + k - 1 = i + k
      <3>1. PICK j \in Nat : j = i
        BY <1>2
      <3>2. p = j + 1 /\ q = j + n
        BY <2>2, <3>1
      <3>3. \A k \in 1..n : (j + 1) + k - 1 = j + k
        OBVIOUS
      <3> HIDE DEF S
      <3> QED
        BY <3>1, <3>2, <3>3
    <2>6. DOMAIN S = 1..n
      <3> HIDE DEF S
      <3> QED
        BY <2>4, <2>5, LenProperties
    <2> QED
      BY <2>4, <2>5, <2>6
  <1>5. IsStream(S[1]) /\ ~IsName(S[1]) /\ \A k \in 2..n : IsName(S[k]) /\ ~IsStream(S[k])
    <2>1. S[1] = slots[i + 1]
      BY <1>2, <1>4
    <2>2. \A k \in 2..n : S[k] = slots[i + k] /\ i + k \in (i + 2)..(i + n)
      BY <1>2, <1>4
    <2> QED
      BY <1>1, <2>1, <2>2 DEF IsWhole, IsStream, IsName
  <1> HIDE DEF S
  <1>6. Stream(slots, i) = slots[i + 1]
    <2>1. {k \in 1..Len(S) : IsStream(S[k])} = {1}
      BY <1>2, <1>4, <1>5
    <2>2. Max({1}) = 1
      <3>1. {1} \in SUBSET (1..n) /\ {1} # {}
        BY <1>2
      <3>2. Max({1}) \in {1}
        BY <3>1, MaxIsMember
      <3> QED
        BY <3>2
    <2>3. SelectLastInSeq(S, IsStream) = 1
      BY <2>1, <2>2 DEF SelectLastInSeq
    <2>4. Stream(slots, i) = S[1]
      BY <2>3 DEF Stream, S
    <2> QED
      BY <1>2, <1>4, <2>4
  <1>7. /\ W \in Seq(Seq(Symbols)) /\ Len(W) = n - 1 /\ W # << >>
        /\ \A k \in 1..(n - 1) : W[k] = slots[i + 1 + k].units /\ Len(W[k]) <= NameUnits
    <2>1. ASSUME NEW k \in 1..(n - 1)
          PROVE  slots[i + 1 + k].units \in Seq(Symbols) /\ Len(slots[i + 1 + k].units) <= NameUnits
      <3>1. k + 1 \in 1..n /\ i + (k + 1) = i + 1 + k /\ i + 1 + k \in (i + 2)..(i + n)
        BY <1>2
      <3>2. slots[i + 1 + k] \in Slot
        BY <1>3, <3>1
      <3>3. slots[i + 1 + k].type = "name"
        BY <1>1, <3>1 DEF IsWhole
      <3> QED
        BY <3>2, <3>3 DEF Slot
    <2>2. W \in [1..(n - 1) -> Seq(Symbols)] /\ n - 1 \in Nat \ {0}
      BY <1>1, <1>2, <2>1
    <2>3. W \in Seq(Seq(Symbols)) /\ Len(W) = n - 1
      <3> DEFINE X == Seq(Symbols)
                 m == n - 1
      <3>1. W \in [1..m -> X] /\ m \in Nat
        BY <2>2
      <3> HIDE DEF W, X, m
      <3>2. W \in Seq(X)
        BY <3>1, SeqDef
      <3>3. Len(W) = m
        BY <3>1, <3>2, LenProperties
      <3> QED
        BY <3>2, <3>3 DEF X, m
    <2>4. W # << >>
      BY <2>2, <2>3, EmptySeq
    <2> QED
      BY <1>1, <2>1, <2>3, <2>4
  <1>8. /\ A \in Seq(Seq(Symbols)) /\ Len(A) = n /\ A[1] = << >>
        /\ \A k \in 1..(n - 1) : A[k + 1] = W[k]
    <2>1. \A k \in 1..n : S[k].units \in Seq(Symbols)
      BY <1>4 DEF Slot
    <2>2. A \in [1..n -> Seq(Symbols)]
      BY <1>4, <2>1
    <2>3. A \in Seq(Seq(Symbols)) /\ Len(A) = n
      BY <2>2, SeqDef, LenProperties
    <2>4. A[1] = << >>
      BY <1>2, <1>4, <1>5
    <2>5. ASSUME NEW k \in 1..(n - 1) PROVE A[k + 1] = W[k]
      <3>1. PICK m \in 2..n : m = k + 1
        BY <1>2
      <3>2. m \in 1..n /\ i + m = i + 1 + k
        BY <1>2, <3>1
      <3>3. A[m] = slots[i + m].units
        BY <1>4, <1>5, <3>2
      <3>4. W[k] = slots[i + 1 + k].units
        BY <1>7
      <3> QED
        BY <3>1, <3>2, <3>3, <3>4
    <2> QED
      BY <2>3, <2>4, <2>5
  <1>9. Units(slots, i) = FlattenSeq(A)
    BY DEF Units, S
  <1>10. Written(slots, i) = FlattenSeq(W)
    BY DEF Written
  <1>11. FlattenSeq(A) = FlattenSeq(W)
    <2> HIDE DEF A, W
    <2>1. Len(A) = Len(W) + 1
      BY <1>2, <1>7, <1>8
    <2> QED
      BY <1>7, <1>8, <2>1, FlattenTail
  <1>12. FlattenSeq(W) \in Seq(Symbols) /\ Len(FlattenSeq(W)) <= (n - 1) * NameUnits
    <2> HIDE DEF W
    <2> QED
      BY <1>7, VolumeAssumption, FlattenBound
  <1> HIDE DEF A, W
  <1>13. PICK u \in Seq(Symbols) : u = FlattenSeq(W)
    BY <1>12
  <1>14. PICK l \in Nat, b \in Nat \ {0} : l = slots[i + 1].length /\ b = NameUnits
    <2>1. slots[i + 1] \in Slot
      BY <1>2, <1>3
    <2> QED
      BY <2>1, VolumeAssumption DEF Slot
  <1>15. l \in 1..Len(u) /\ Len(u) \in Nat /\ Len(u) <= (n - 1) * b
    BY <1>10, <1>12, <1>13, <1>14 DEF IsWhole
  <1>16. NameLength(slots, i) = l
    <2>1. PICK p \in Nat : p = (n - 1) * b
      BY <1>2
    <2>2. n * b = p + b
      BY <1>2, <2>1
    <2>3. l <= n * b
      BY <1>15, <2>1, <2>2
    <2>4. NameLength(slots, i) = IF l < n * b THEN l ELSE n * b
      BY <1>1, <1>6, <1>14, <1>15 DEF NameLength
    <2>5. PICK q \in Nat : q = n * b
      OBVIOUS
    <2> QED
      BY <2>3, <2>4, <2>5
  <1>17. AtMost(Units(slots, i), NameLength(slots, i)) = SubSeq(u, 1, l)
    BY <1>9, <1>11, <1>13, <1>15, <1>16 DEF AtMost
  <1>18. SubSeq(u, 1, l) # << >>
    <2>1. Len(SubSeq(u, 1, l)) = l
      BY <1>15, SubSeqProperties
    <2> QED
      BY <1>15, <2>1, EmptySeq
  <1> QED
    BY <1>6, <1>10, <1>13, <1>14, <1>17, <1>18 DEF RecordName

-----------------------------------------------------------------------------
(* The file that is read is the record in the current slot, and nothing is *)
(* left to do at the end.                                                  *)
SlotInv ==
  /\ walk.for = "file" => Slots[slot].type = "file" /\ ~Slots[slot].directory
  /\ status = "done" => chain = << >> /\ queue = << >>

LEMMA SlotStep ==
  ASSUME TypeOK, WalkInv, SlotInv, [Next]_vars
  PROVE  SlotInv'
  <1> USE DEF SlotInv
  <1>1. CASE StartDirectory
    <2>1. UNCHANGED status /\ status = "walking" /\ walk'.for = "directory"
      BY <1>1 DEF StartDirectory, BeginWalk, Between
    <2> QED
      BY <2>1
  <1>2. CASE Extend
    <2>1. UNCHANGED <<volume, queue, chain, slot, status>> /\ walk'.for = walk.for
      BY <1>2, ExtendFacts DEF listVars, dirVars
    <2> QED
      BY <2>1 DEF Slots
  <1>3. CASE DirectoryFails \/ ClusterFails
    <2>1. UNCHANGED <<volume, walk, chain, slot>> /\ status' = "failed"
      BY <1>3 DEF DirectoryFails, ClusterFails, Fail, dirVars
    <2> QED
      BY <2>1 DEF Slots
  <1>4. CASE EnterDirectory \/ NextCluster \/ PassSlot \/ RegisterOther \/ EnqueueDirectory
              \/ RegisterFile
    <2>1. walk'.for # "file" /\ status' = "walking"
      BY <1>4 DEF EnterDirectory, NextCluster, PassSlot, RegisterOther, EnqueueDirectory, RegisterFile,
         AtRecord, Walking, NextSlot, NoWalk
    <2> QED
      BY <2>1
  <1>5. CASE StartFile
    <2>1. /\ UNCHANGED <<volume, chain, slot, status>> /\ status = "walking"
          /\ Slots[slot].type = "file" /\ ~Slots[slot].directory
      BY <1>5 DEF StartFile, AtFile, AtRecord, Walking, dirVars
    <2> QED
      BY <2>1 DEF Slots
  <1>6. CASE Finish
    <2>1. chain' = << >> /\ queue' = << >> /\ walk' = NoWalk
      BY <1>6 DEF Finish, listVars, dirVars
    <2> QED
      BY <2>1 DEF NoWalk
  <1>7. CASE UNCHANGED vars
    BY <1>7 DEF vars, listVars, dirVars, Slots
  <1> QED
    BY <1>1, <1>2, <1>3, <1>4, <1>5, <1>6, <1>7 DEF Next

-----------------------------------------------------------------------------
(* A directory that was ever queued waits still or has been registered.    *)
VisitedInv ==
  \A c \in visitedDirs : \/ \E i \in DOMAIN queue : queue[i].cluster = c
                         \/ \E e \in Registered : e.type = "directory" /\ e.cluster = c

LEMMA VisitedStep ==
  ASSUME TypeOK, WalkInv, VisitedInv, [Next]_vars
  PROVE  VisitedInv'
  <1> DEFINE Waits(c) == \E i \in DOMAIN queue : queue[i].cluster = c
             Walked(c) == \E e \in Registered : e.type = "directory" /\ e.cluster = c
  <1>1. queue \in Seq(Job)
    BY DEF TypeOK
  <1>2. ASSUME Registered \subseteq Registered' PROVE \A c : Walked(c) => Walked(c)'
    BY <1>2
  <1>3. CASE EnterDirectory
    <2>1. /\ queue # << >> /\ queue' = Tail(queue) /\ UNCHANGED visitedDirs
          /\ Registered' = Registered \cup {DirectoryEntry}
          /\ DirectoryEntry.type = "directory" /\ DirectoryEntry.cluster = Head(queue).cluster
      BY <1>3, EnterStep DEF EnterDirectory, Registers, DirectoryEntry
    <2>2. ASSUME NEW c, Waits(c) PROVE Waits(c)' \/ c = Head(queue).cluster
      <3>1. PICK i \in DOMAIN queue : queue[i].cluster = c
        BY <2>2
      <3>2. CASE i = 1
        BY <1>1, <2>1, <3>1, <3>2
      <3>3. CASE i # 1
        <4>1. i - 1 \in DOMAIN queue' /\ queue'[i - 1] = queue[i]
          BY <1>1, <2>1, <3>3
        <4> QED
          BY <3>1, <4>1
      <3> QED
        BY <3>2, <3>3
    <2> QED
      BY <1>2, <2>1, <2>2 DEF VisitedInv
  <1>4. CASE EnqueueDirectory
    <2> DEFINE job == [cluster |-> Stream(Slots, slot).cluster, parent |-> self,
                       name |-> RecordName(Slots, slot), place |-> ThisPlace]
    <2>1. /\ queue' = Append(queue, job) /\ visitedDirs' = visitedDirs \cup {job.cluster}
          /\ Registered' = Registered
      BY <1>4, QuietStep DEF EnqueueDirectory, Quiet
    <2> HIDE DEF job
    <2>2. /\ Len(queue) + 1 \in DOMAIN queue' /\ queue'[Len(queue) + 1] = job
          /\ \A i \in DOMAIN queue : i \in DOMAIN queue' /\ queue'[i] = queue[i]
      BY <1>1, <2>1
    <2>3. \A c : Waits(c) \/ c = job.cluster => Waits(c)'
      BY <2>2
    <2> QED
      BY <1>2, <2>1, <2>3 DEF VisitedInv
  <1>5. CASE RegisterOther \/ RegisterFile
    <2>1. UNCHANGED <<queue, visitedDirs>>
      BY <1>5 DEF RegisterOther, RegisterFile
    <2>2. Registered \subseteq Registered'
      BY <1>5, OtherStep, FileStep DEF Registers
    <2> QED
      BY <1>2, <2>1, <2>2 DEF VisitedInv
  <1>6. CASE StartDirectory \/ Extend \/ DirectoryFails \/ ClusterFails \/ NextCluster \/ PassSlot
              \/ StartFile \/ Finish \/ UNCHANGED vars
    <2>1. UNCHANGED <<queue, visitedDirs>>
      BY <1>6 DEF StartDirectory, Extend, DirectoryFails, ClusterFails, Fail, NextCluster, PassSlot,
         StartFile, Finish, listVars, vars
    <2>2. Registered' = Registered
      BY <1>6, QuietStep DEF Quiet
    <2> QED
      BY <2>1, <2>2 DEF VisitedInv
  <1> QED
    BY <1>3, <1>4, <1>5, <1>6 DEF Next

-----------------------------------------------------------------------------
(* The slots of a cluster before its end mark that begin a record. *)
FileSlots(c) ==
  {i \in DOMAIN volume.slots[c] : /\ volume.slots[c][i].type = "file"
                                  /\ \A j \in 1..i : volume.slots[c][j].type # "end"}

(* How many clusters of a directory have been read. *)
Read(d) == IF d.id = self THEN Len(d.chain) - Len(chain) ELSE Len(d.chain)

Behind(d, k, i) == k <= Read(d) \/ (d.id = self /\ k = Read(d) + 1 /\ i \in 1..(slot - 1))

Lists(d, c, i, slots, e) ==
  /\ e.place = [cluster |-> c, slot |-> i] /\ e.parent = d.id
  /\ e.cluster = Stream(slots, i).cluster /\ e.size = Stream(slots, i).size
  /\ e.name = RecordName(slots, i) /\ e.deleted = ~slots[i].live

Taken(d, c, i, slots) ==
  /\ Readable(c)
  /\ slots[i].directory /\ Stream(slots, i).cluster >= 2 => Stream(slots, i).cluster \in visitedDirs
  /\ ~slots[i].directory => \E e \in Registered : Lists(d, c, i, slots, e)

(* What is left of the directory in hand is the end of its chain, and of   *)
(* all that lies before, every record was taken.                           *)
PlaceInv ==
  \A d \in Registered : d.type = "directory" /\ d.id = self =>
    /\ Len(chain) <= Len(d.chain)
    /\ \A j \in DOMAIN chain : chain[j] = d.chain[Len(d.chain) - Len(chain) + j]

TakenInv ==
  \A d \in Registered : d.type = "directory" =>
    \A k \in DOMAIN d.chain : \A i \in FileSlots(d.chain[k]) :
      Behind(d, k, i) => Taken(d, d.chain[k], i, volume.slots[d.chain[k]])

(* What was taken stays so. *)
Grows == UNCHANGED volume /\ Registered \subseteq Registered' /\ visitedDirs \subseteq visitedDirs'

LEMMA GrowsStep ==
  ASSUME TypeOK, WalkInv, [Next]_vars
  PROVE  Grows
  <1>1. UNCHANGED volume
    BY VolumeIsFixed
  <1>2. visitedDirs \subseteq visitedDirs'
    BY DEF Next, StartDirectory, Extend, DirectoryFails, EnterDirectory, ClusterFails, Fail,
       NextCluster, PassSlot, RegisterOther, EnqueueDirectory, StartFile, RegisterFile, Finish,
       vars, listVars
  <1>3. Registered \subseteq Registered'
    BY QuietStep, EnterStep, OtherStep, FileStep DEF Next, Quiet, Registers
  <1> QED
    BY <1>1, <1>2, <1>3 DEF Grows

LEMMA TakenStays ==
  ASSUME Grows, NEW d, NEW c, NEW i, NEW slots, Taken(d, c, i, slots)
  PROVE  Taken(d, c, i, slots)'
  <1> QED
    BY DEF Taken, Grows

(* Steps that register nothing and go on to no other slot. *)
LEMMA StandsStill ==
  ASSUME PlaceInv, TakenInv, Grows, Registered' = Registered, UNCHANGED <<self, chain, slot>>
  PROVE  PlaceInv' /\ TakenInv'
  <1>1. PlaceInv'
    BY DEF PlaceInv
  <1>2. ASSUME NEW d \in Registered, d.type = "directory", NEW k \in DOMAIN d.chain,
               NEW i \in FileSlots(d.chain[k]), Behind(d, k, i)
        PROVE  Taken(d, d.chain[k], i, volume.slots[d.chain[k]])'
    <2>1. PICK slots : slots = volume.slots[d.chain[k]]
      OBVIOUS
    <2>2. Taken(d, d.chain[k], i, slots)'
      BY <1>2, <2>1, TakenStays DEF TakenInv
    <2> QED
      BY <2>1, <2>2 DEF Grows
  <1>3. \A c : FileSlots(c)' = FileSlots(c)
    BY DEF FileSlots, Grows
  <1>4. \A d, k, i : Behind(d, k, i)' <=> Behind(d, k, i)
    BY DEF Behind, Read
  <1> QED
    BY <1>1, <1>2, <1>3, <1>4 DEF TakenInv

(* Going on in the slots of a cluster. *)
LEMMA SlotIsTaken ==
  ASSUME TypeOK, PlaceInv, TakenInv, Grows, chain # << >>,
         UNCHANGED <<self, chain>>, slot' = slot + 1,
         \A d \in Registered' : d \in Registered \/ d.type # "directory",
         NEW slots, slots = Slots, NEW c, c = Head(chain), NEW at, at = slot,
         \A d : d.id = self /\ at \in FileSlots(c) => Taken(d, c, at, slots)'
  PROVE  PlaceInv' /\ TakenInv'
  <1>1. PlaceInv'
    BY DEF PlaceInv
  <1>2. slot \in Nat \ {0} /\ chain \in Seq(Nat)
    BY DEF TypeOK
  <1>3. \A b : FileSlots(b)' = FileSlots(b)
    BY DEF FileSlots, Grows
  <1>4. ASSUME NEW d \in Registered, d.type = "directory", NEW k \in DOMAIN d.chain,
               NEW i \in FileSlots(d.chain[k]), Behind(d, k, i)'
        PROVE  Taken(d, d.chain[k], i, volume.slots[d.chain[k]])'
    <2>1. PICK here : here = volume.slots[d.chain[k]]
      OBVIOUS
    <2>2. CASE Behind(d, k, i)
      <3>1. Taken(d, d.chain[k], i, here)'
        BY <1>4, <2>1, <2>2, TakenStays DEF TakenInv
      <3> QED
        BY <2>1, <3>1 DEF Grows
    <2>3. CASE ~Behind(d, k, i)
      <3>1. d.id = self /\ k = Read(d) + 1 /\ i = slot
        BY <1>2, <1>4, <2>3 DEF Behind, Read
      <3>2. Read(d) = Len(d.chain) - Len(chain) /\ Len(chain) \in Nat /\ 1 \in DOMAIN chain
        BY <1>2, <3>1 DEF Read
      <3>3. chain[1] = d.chain[Len(d.chain) - Len(chain) + 1]
        BY <1>4, <3>1, <3>2 DEF PlaceInv
      <3>4. d.chain[k] = Head(chain)
        BY <1>2, <3>1, <3>2, <3>3
      <3>5. Taken(d, c, at, slots)'
        BY <1>4, <3>1, <3>4
      <3>6. slots = volume'.slots[d.chain[k]] /\ c = d.chain[k] /\ at = i
        BY <3>1, <3>4 DEF Slots, Grows
      <3> QED
        BY <3>5, <3>6
    <2> QED
      BY <2>2, <2>3
  <1> QED
    BY <1>1, <1>3, <1>4 DEF TakenInv

LEMMA TakenStep ==
  ASSUME TypeOK, WalkInv, IdsInv, SlotInv, PlaceInv, TakenInv, [Next]_vars
  PROVE  PlaceInv' /\ TakenInv'
  <1>1. Grows /\ chain \in Seq(Nat) /\ slot \in Nat \ {0} /\ nextId \in Nat
    BY GrowsStep DEF TypeOK
  <1>2. \A c : FileSlots(c)' = FileSlots(c)
    BY <1>1 DEF FileSlots, Grows
  <1>3. CASE StartDirectory \/ Extend \/ DirectoryFails \/ ClusterFails \/ StartFile \/ Finish
              \/ UNCHANGED vars
    <2>1. Registered' = Registered
      BY <1>3, QuietStep DEF Quiet
    <2>2. UNCHANGED <<self, chain, slot>>
      BY <1>3 DEF StartDirectory, Extend, DirectoryFails, ClusterFails, Fail, StartFile, Finish,
         dirVars, vars
    <2> QED
      BY <1>1, <2>1, <2>2, StandsStill
  <1>4. CASE EnterDirectory
    <2>1. /\ chain = << >> /\ self' = nextId /\ chain' = walk.clusters /\ slot' = 1
          /\ Registered' = Registered \cup {DirectoryEntry}
          /\ DirectoryEntry.id = nextId /\ DirectoryEntry.chain = walk.clusters
      BY <1>4, EnterStep DEF EnterDirectory, WalkInv, Registers, DirectoryEntry
    <2>2. walk.clusters \in Seq(Nat)
      BY DEF TypeOK, Walk
    <2>3. ASSUME NEW d \in Registered
          PROVE  d.id # self' /\ Read(d) = Len(d.chain) /\ Read(d)' = Len(d.chain)
      <3>1. d.id < nextId /\ d.id \in Nat /\ Len(d.chain) \in Nat
        BY RegisteredTypes DEF IdsInv
      <3>2. d.id # self'
        BY <1>1, <2>1, <3>1
      <3>3. Len(chain) = 0 /\ Len(d.chain) - 0 = Len(d.chain)
        BY <2>1, <3>1
      <3> QED
        BY <3>2, <3>3 DEF Read
    <2>4. PlaceInv'
      BY <2>1, <2>2, <2>3 DEF PlaceInv
    <2>5. ASSUME NEW d \in Registered', d.type = "directory", NEW k \in DOMAIN d.chain,
                 NEW i \in FileSlots(d.chain[k]), Behind(d, k, i)'
          PROVE  Taken(d, d.chain[k], i, volume.slots[d.chain[k]])'
      <3>1. CASE d \in Registered
        <4>1. Behind(d, k, i)
          BY <2>3, <2>5, <3>1, RegisteredTypes DEF Behind
        <4>2. PICK slots : slots = volume.slots[d.chain[k]]
          OBVIOUS
        <4>3. Taken(d, d.chain[k], i, slots)'
          BY <1>1, <2>5, <3>1, <4>1, <4>2, TakenStays DEF TakenInv
        <4> QED
          BY <1>1, <4>2, <4>3 DEF Grows
      <3>2. CASE d = DirectoryEntry
        <4>1. Read(d)' = 0 /\ k \in Nat \ {0}
          BY <2>1, <2>2, <3>2 DEF Read
        <4> QED
          BY <2>1, <2>5, <4>1 DEF Behind
      <3> QED
        BY <2>1, <3>1, <3>2
    <2> QED
      BY <1>2, <2>4, <2>5 DEF TakenInv
  <1>5. CASE NextCluster
    <2>1. /\ chain # << >> /\ Readable(Head(chain)) /\ chain' = Tail(chain) /\ slot' = 1
          /\ slot \in DOMAIN Slots => Slots[slot].type = "end"
          /\ UNCHANGED self
      BY <1>5 DEF NextCluster, Walking
    <2>2. Registered' = Registered
      BY <1>5, QuietStep DEF Quiet
    <2>3. /\ Len(chain) \in Nat \ {0} /\ Len(chain') = Len(chain) - 1 /\ Head(chain) = chain[1]
          /\ DOMAIN chain' = 1..(Len(chain) - 1) /\ 1 \in DOMAIN chain
          /\ \A j \in DOMAIN chain' : j + 1 \in DOMAIN chain /\ chain'[j] = chain[j + 1]
      BY <1>1, <2>1
    <2>4. ASSUME NEW i \in FileSlots(Head(chain)) PROVE i \in 1..(slot - 1)
      <3>1. Slots \in Seq(Slot)
        BY <2>1 DEF TypeOK, IsVolume, Slots
      <3>2. i \in 1..Len(Slots) /\ Len(Slots) \in Nat /\ \A j \in 1..i : Slots[j].type # "end"
        BY <3>1 DEF FileSlots, Slots
      <3> QED
        BY <1>1, <2>1, <3>1, <3>2
    <2>5. ASSUME NEW d \in Registered, d.type = "directory", d.id = self
          PROVE  /\ Len(chain') <= Len(d.chain)
                 /\ \A j \in DOMAIN chain' : chain'[j] = d.chain[Len(d.chain) - Len(chain') + j]
                 /\ Read(d)' = Read(d) + 1 /\ Read(d) = Len(d.chain) - Len(chain)
                 /\ d.chain[Read(d) + 1] = Head(chain)
      <3>1. PICK n \in Nat, m \in Nat : n = Len(d.chain) /\ m = Len(chain)
        BY <2>3, RegisteredTypes
      <3>2. m <= n /\ \A j \in DOMAIN chain : chain[j] = d.chain[n - m + j]
        BY <2>5, <3>1 DEF PlaceInv
      <3>3. ASSUME NEW j \in DOMAIN chain' PROVE chain'[j] = d.chain[n - Len(chain') + j]
        <4>1. n - m + (j + 1) = n - Len(chain') + j
          BY <2>3, <3>1
        <4> QED
          BY <2>3, <3>2, <4>1
      <3>4. Read(d)' = n - (m - 1) /\ Read(d) = n - m
        BY <2>1, <2>3, <2>5, <3>1 DEF Read
      <3> QED
        BY <2>3, <3>1, <3>2, <3>3, <3>4
    <2>6. PlaceInv'
      BY <2>1, <2>2, <2>5 DEF PlaceInv
    <2>7. ASSUME NEW d \in Registered, d.type = "directory", NEW k \in DOMAIN d.chain,
                 NEW i \in FileSlots(d.chain[k]), Behind(d, k, i)'
          PROVE  Behind(d, k, i)
      <3>1. CASE d.id = self
        <4>1. PICK r \in Int : r = Read(d)
          BY <2>3, <2>5, <3>1, RegisteredTypes, <2>7
        <4>2. k <= r + 1 /\ k \in Int
          BY <2>1, <2>5, <2>7, <3>1, <4>1, RegisteredTypes DEF Behind
        <4>3. k = r + 1 => i \in 1..(slot - 1)
          BY <2>4, <2>5, <2>7, <3>1, <4>1
        <4> QED
          BY <3>1, <4>1, <4>2, <4>3 DEF Behind
      <3>2. CASE d.id # self
        BY <2>1, <2>7, <3>2 DEF Behind, Read
      <3> QED
        BY <3>1, <3>2
    <2>8. ASSUME NEW d \in Registered, d.type = "directory", NEW k \in DOMAIN d.chain,
                 NEW i \in FileSlots(d.chain[k]), Behind(d, k, i)'
          PROVE  Taken(d, d.chain[k], i, volume.slots[d.chain[k]])'
      <3>1. PICK slots : slots = volume.slots[d.chain[k]]
        OBVIOUS
      <3>2. Behind(d, k, i)
        BY <2>7, <2>8
      <3>3. Taken(d, d.chain[k], i, slots)'
        BY <1>1, <2>8, <3>1, <3>2, TakenStays DEF TakenInv
      <3> QED
        BY <1>1, <3>1, <3>3 DEF Grows
    <2> QED
      BY <1>2, <2>2, <2>6, <2>8 DEF TakenInv
  <1>6. CASE PassSlot \/ RegisterOther \/ EnqueueDirectory \/ RegisterFile
    <2>1. PICK slots, c, at : slots = Slots /\ c = Head(chain) /\ at = slot
      OBVIOUS
    <2>2. chain # << >> /\ Readable(c) /\ UNCHANGED <<self, chain>> /\ slot' = slot + 1
      BY <1>6, <2>1 DEF PassSlot, RegisterOther, EnqueueDirectory, RegisterFile, AtFile, AtRecord,
         Walking, NextSlot, WalkInv
    <2>3. \A d \in Registered' : d \in Registered \/ d.type # "directory"
      <3>1. CASE RegisterOther \/ RegisterFile
        BY <3>1, OtherStep, FileStep DEF Registers, FileEntry
      <3>2. CASE ~(RegisterOther \/ RegisterFile)
        BY <1>6, <3>2, QuietStep DEF Quiet
      <3> QED
        BY <3>1, <3>2
    <2>4. ASSUME NEW d, d.id = self, at \in FileSlots(c) PROVE Taken(d, c, at, slots)'
      <3>1. slots[at].type = "file" /\ Readable(c)'
        BY <1>1, <2>1, <2>2, <2>4 DEF FileSlots, Slots, Grows
      <3>2. CASE PassSlot
        <4>1. /\ slots[at].directory /\ ~Unseen(Stream(slots, at).cluster)
              /\ UNCHANGED visitedDirs
          BY <2>1, <3>1, <3>2 DEF PassSlot, IsPrimary, IsDirectory, listVars
        <4> QED
          BY <3>1, <4>1 DEF Taken, Unseen
      <3>3. CASE RegisterOther
        BY <2>1, <3>1, <3>3 DEF RegisterOther
      <3>4. CASE EnqueueDirectory
        <4>1. /\ slots[at].directory
              /\ visitedDirs' = visitedDirs \cup {Stream(slots, at).cluster}
          BY <2>1, <3>4 DEF EnqueueDirectory, IsDirectory
        <4> QED
          BY <3>1, <4>1 DEF Taken
      <3>5. CASE RegisterFile
        <4>1. ~slots[at].directory
          BY <2>1, <3>5 DEF RegisterFile, AtFile, SlotInv
        <4>2. FileEntry \in Registered'
          BY <3>5, FileStep DEF Registers
        <4>3. Lists(d, c, at, slots, FileEntry)
          BY <2>1, <2>4 DEF Lists, FileEntry, ThisPlace
        <4> QED
          BY <3>1, <4>1, <4>2, <4>3 DEF Taken, Lists
      <3> QED
        BY <1>6, <3>2, <3>3, <3>4, <3>5
    <2> QED
      BY <1>1, <2>1, <2>2, <2>3, <2>4, SlotIsTaken
  <1> QED
    BY <1>3, <1>4, <1>5, <1>6 DEF Next

LEMMA AllIsTaken ==
  ASSUME TypeOK, SlotInv, VisitedInv, TakenInv
  PROVE  WholeRecordsAreTaken
  <1> DEFINE Answer(d, c, i, slots) ==
               IF slots[i].directory
                 THEN slots[i + 1].cluster >= 2 =>
                        \E e \in Registered : e.type = "directory" /\ e.cluster = slots[i + 1].cluster
                 ELSE \E e \in Registered :
                        /\ e.place = [cluster |-> c, slot |-> i] /\ e.parent = d.id
                        /\ e.cluster = slots[i + 1].cluster /\ e.size = slots[i + 1].size
                        /\ e.name = SubSeq(Written(slots, i), 1, slots[i + 1].length)
                        /\ e.deleted = ~slots[i].live
  <1>1. ASSUME status = "done", NEW d \in Registered, d.type = "directory",
               NEW k \in DOMAIN d.chain, NEW i \in DOMAIN volume.slots[d.chain[k]],
               IsWhole(volume.slots[d.chain[k]], i)
        PROVE  Answer(d, d.chain[k], i, volume.slots[d.chain[k]])
    <2>1. chain = << >> /\ queue = << >>
      BY <1>1 DEF SlotInv
    <2>2. k <= Read(d)
      BY <1>1, <2>1, RegisteredTypes DEF Read
    <2>3. PICK slots : slots = volume.slots[d.chain[k]]
      OBVIOUS
    <2>4. i \in FileSlots(d.chain[k])
      BY <1>1 DEF FileSlots, IsWhole
    <2>5. Taken(d, d.chain[k], i, slots)
      BY <1>1, <2>2, <2>3, <2>4 DEF TakenInv, Behind
    <2>6. slots \in Seq(Slot) /\ i \in DOMAIN slots
      BY <1>1, <2>3, <2>5 DEF Taken, TypeOK, IsVolume
    <2>7. /\ Stream(slots, i) = slots[i + 1]
          /\ RecordName(slots, i) = SubSeq(Written(slots, i), 1, slots[i + 1].length)
      BY <1>1, <2>3, <2>6, WholeIsRead
    <2>8. \A c \in visitedDirs : \E e \in Registered : e.type = "directory" /\ e.cluster = c
      BY <2>1 DEF VisitedInv
    <2>9. Answer(d, d.chain[k], i, slots)
      BY <2>5, <2>7, <2>8 DEF Taken, Lists
    <2> QED
      BY <2>3, <2>9
  <1> QED
    BY <1>1 DEF WholeRecordsAreTaken

(* No whole record of a walked directory is lost: at the end its file is   *)
(* listed below the directory with the name and the start that its own     *)
(* slots hold, or the directory it names was walked, whatever the volume   *)
(* holds (parse_directory_entries, walk_directory, add_entry).             *)
THEOREM ExFatRecordsAreTaken == Spec => []WholeRecordsAreTaken
  <1>1. Init => IdsInv /\ ParentsInv /\ SlotInv /\ PlaceInv /\ TakenInv
    BY DEF Init, IdsInv, ParentsInv, Known, SlotInv, NoWalk, PlaceInv, TakenInv, Registered
  <1>2. Init => VisitedInv
    <2> SUFFICES ASSUME Init PROVE VisitedInv
      OBVIOUS
    <2>1. 1 \in DOMAIN queue /\ queue[1].cluster = volume.root /\ visitedDirs = {volume.root}
      BY DEF Init
    <2> QED
      BY <2>1 DEF VisitedInv
  <1> QED
    BY <1>1, <1>2, AllIsTaken, IdsStep, ParentsStep, SlotStep, VisitedStep, TakenStep, ExFatIsTyped,
       PTL DEF Spec
=============================================================================
