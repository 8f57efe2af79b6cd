------------------------- MODULE ExFatInvestigation -------------------------
(***************************************************************************)
(* investigate_filesystem (filesystem/exfat/investigation.rs): the walk    *)
(* from the root directory over every directory record, live or deleted.   *)
(* Unlike the walk of a FAT32 volume it has no gate before a directory and *)
(* no filter for repeated names.                                           *)
(***************************************************************************)
EXTENDS ExFatVolume

VARIABLES queue,        \* the directories still to walk
          visitedDirs,  \* first clusters that were ever put into the queue
          nextId,       \* next_id
          found,        \* entries
          self,         \* object id of the directory being walked
          chain,        \* its clusters still to be read
          slot,         \* the next slot of the first of them
          status        \* "walking", "done" or "failed"

dirVars == <<self, chain, slot>>
listVars == <<queue, visitedDirs, nextId, found>>
vars == <<volume, walk, listVars, dirVars, status>>

(* Where a record was read; the program does not keep it.                  *)
Place == [cluster : Nat, slot : Nat]

(* The names that records of the volume have; the root has none.           *)
RecordNames ==
  LET NamesIn(slots) ==
        UNION {{RecordName(slots, i), AtMost(slots[i].units, slots[i].length)} : i \in DOMAIN slots}
  IN  {<< >>} \cup UNION {NamesIn(volume.slots[c]) : c \in DOMAIN volume.slots}

Job == [cluster : Nat, parent : Nat, name : RecordNames, place : Place]
Entry == [id : Nat, parent : Nat, name : RecordNames, deleted : BOOLEAN,
          type : {"label", "system", "directory", "file"},
          size : Nat, cluster : Nat, chain : Seq(Nat), place : Place]

Init ==
  /\ volume \in Volumes
  /\ queue = <<[cluster |-> volume.root, parent |-> 1, name |-> << >>,
                place |-> [cluster |-> 0, slot |-> 0]]>>
  /\ visitedDirs = {volume.root}
  /\ nextId = 1
  /\ found = << >>
  /\ self = 0 /\ chain = << >> /\ slot = 1
  /\ walk = NoWalk
  /\ status = "walking"

(* Mutant: the object id is handed out again. *)
AddEntry_SameId(e) == found' = Append(found, e) /\ UNCHANGED nextId

AddEntry(e) == found' = Append(found, e) /\ nextId' = nextId + 1

Between == status = "walking" /\ walk = NoWalk /\ chain = << >> /\ queue # << >>

StartDirectory ==
  /\ Between
  /\ BeginWalk("directory", Head(queue).cluster, Total)
  /\ UNCHANGED <<volume, listVars, dirVars, status>>

Extend ==
  /\ status = "walking"
  /\ FollowChain
  /\ UNCHANGED <<volume, listVars, dirVars, status>>

Fail == status' = "failed" /\ UNCHANGED <<volume, walk, listVars, dirVars>>

(* Mutant: the directory is tried again. *)
DirectoryFails_Retries ==
  /\ status = "walking" /\ walk.for = "directory" /\ Broken
  /\ walk' = NoWalk
  /\ UNCHANGED <<volume, listVars, dirVars, status>>

(* An error of walk_chain ends the investigation, also for a directory     *)
(* that only a deleted record names.                                       *)
DirectoryFails ==
  /\ status = "walking" /\ walk.for = "directory" /\ Broken
  /\ Fail

(* The directory is registered, never as deleted, and its chain taken up.  *)
EnterDirectory ==
  /\ status = "walking" /\ walk.for = "directory" /\ Complete
  /\ LET job == Head(queue) IN
       AddEntry([id |-> nextId, parent |-> job.parent, name |-> job.name, deleted |-> FALSE,
                 type |-> "directory", size |-> 0, cluster |-> job.cluster,
                 chain |-> walk.clusters, place |-> job.place])
  /\ self' = nextId
  /\ chain' = walk.clusters /\ slot' = 1
  /\ walk' = NoWalk
  /\ queue' = Tail(queue)
  /\ UNCHANGED <<volume, visitedDirs, status>>

-----------------------------------------------------------------------------
Walking == status = "walking" /\ walk = NoWalk /\ chain # << >>
Slots == volume.slots[Head(chain)]

(* The next record to be registered. *)
AtRecord == /\ Walking /\ Readable(Head(chain)) /\ slot \in DOMAIN Slots
            /\ IsPrimary(Slots[slot])

ClusterFails ==
  /\ Walking /\ ~Readable(Head(chain))
  /\ Fail

NextCluster ==
  /\ Walking /\ Readable(Head(chain))
  /\ slot \in DOMAIN Slots => Slots[slot].type = "end"
  /\ chain' = Tail(chain) /\ slot' = 1
  /\ UNCHANGED <<volume, walk, listVars, self, status>>

(* The loop goes on with the very next slot, whatever a record spans.      *)
NextSlot == slot' = slot + 1 /\ UNCHANGED <<volume, self, chain, status>>

(* A directory to be queued: its first cluster was never queued before.    *)
Unseen(c) == c >= 2 /\ c \notin visitedDirs

IsDirectory(s) == s.type = "file" /\ s.directory

PassSlot ==
  /\ Walking /\ Readable(Head(chain)) /\ slot \in DOMAIN Slots
  /\ Slots[slot].type # "end"
  /\ \/ ~IsPrimary(Slots[slot])
     \/ IsDirectory(Slots[slot]) /\ ~Unseen(Stream(Slots, slot).cluster)
  /\ NextSlot
  /\ UNCHANGED <<walk, listVars>>

ThisPlace == [cluster |-> Head(chain), slot |-> slot]

(* The volume label, the allocation bitmap and the up-case table.          *)
RegisterOther ==
  /\ AtRecord /\ Slots[slot].type # "file"
  /\ LET s == Slots[slot] IN
       AddEntry([id |-> nextId, parent |-> self, name |-> AtMost(s.units, s.length),
                 deleted |-> FALSE, type |-> s.type, size |-> 0,
                 cluster |-> IF s.type = "system" THEN s.cluster ELSE 0,
                 chain |-> << >>, place |-> ThisPlace])
  /\ NextSlot
  /\ UNCHANGED <<walk, queue, visitedDirs>>

EnqueueDirectory ==
  /\ AtRecord /\ IsDirectory(Slots[slot])
  /\ LET c == Stream(Slots, slot).cluster IN
       /\ Unseen(c)
       /\ visitedDirs' = visitedDirs \cup {c}
       /\ queue' = Append(queue, [cluster |-> c, parent |-> self,
                                  name |-> RecordName(Slots, slot), place |-> ThisPlace])
  /\ NextSlot
  /\ UNCHANGED <<walk, nextId, found>>

HasChain(stream) == stream.cluster >= 2 /\ stream.size > 0

AtFile == AtRecord /\ Slots[slot].type = "file" /\ ~Slots[slot].directory

StartFile ==
  /\ AtFile /\ HasChain(Stream(Slots, slot))
  /\ BeginWalk("file", Stream(Slots, slot).cluster, Stream(Slots, slot).size)
  /\ UNCHANGED <<volume, listVars, dirVars, status>>

(* resolve_file_chain: an error leaves the file without clusters.          *)
Resolved == IF walk.for # "file" \/ Broken THEN << >> ELSE walk.clusters

RegisterFile ==
  /\ status = "walking" /\ chain # << >>
  /\ \/ walk.for = "file" /\ (Complete \/ Broken)
     \/ AtFile /\ ~HasChain(Stream(Slots, slot))
  /\ LET stream == Stream(Slots, slot) IN
       AddEntry([id |-> nextId, parent |-> self, name |-> RecordName(Slots, slot),
                 deleted |-> ~Slots[slot].live, type |-> "file", size |-> stream.size,
                 cluster |-> stream.cluster, chain |-> Resolved, place |-> ThisPlace])
  /\ walk' = NoWalk
  /\ NextSlot
  /\ UNCHANGED <<queue, visitedDirs>>

Finish ==
  /\ status = "walking" /\ walk = NoWalk /\ chain = << >> /\ queue = << >>
  /\ status' = "done"
  /\ UNCHANGED <<volume, walk, listVars, dirVars>>

Next == StartDirectory \/ Extend \/ DirectoryFails \/ EnterDirectory \/ ClusterFails
          \/ NextCluster \/ PassSlot \/ RegisterOther \/ EnqueueDirectory
          \/ StartFile \/ RegisterFile \/ Finish

(* The investigation is one synchronous call: it goes on.                  *)
Spec == Init /\ [][Next]_vars /\ WF_vars(Next)

-----------------------------------------------------------------------------
TypeOK ==
  /\ IsVolume(volume)
  /\ walk \in Walk /\ Len(walk.clusters) <= walk.max
  /\ queue \in Seq(Job) /\ visitedDirs \subseteq Nat
  /\ nextId \in Nat \ {0} /\ found \in Seq(Entry)
  /\ self \in Nat /\ chain \in Seq(Nat) /\ slot \in Nat \ {0}
  /\ status \in {"walking", "done", "failed"}

Registered == {found[i] : i \in DOMAIN found}

(* The guard of the queue: no two directories start at the same cluster,   *)
(* whatever the records say, so none is walked twice.                      *)
DirectoriesWalkedOnce ==
  \A d, e \in Registered :
    d.type = "directory" /\ e.type = "directory" /\ d.cluster = e.cluster => d = e

(* A sound table on a readable device, in which also the records of        *)
(* directories stay inside: the last data cluster counts as outside.       *)
Sound == /\ \A c \in 2..Total : \/ volume.fat[c] \notin 2..(BadCluster - 1)
                                \/ InRange(volume.fat[c])
         /\ InRange(volume.root)
         /\ \A c \in 2..Total : Readable(c)
         /\ \A c \in 2..Total : \A i \in DOMAIN volume.slots[c] :
              IsDirectory(volume.slots[c][i]) =>
                LET first == Stream(volume.slots[c], i).cluster IN first < 2 \/ InRange(first)

(* Damaged files do not end the investigation: it fails only on a damaged  *)
(* table or device, or on a directory record that leads outside.           *)
OnlyDamageFails == status = "failed" => ~Sound

(* Loops in the table and directories inside each other do not keep it     *)
(* going for ever.                                                         *)
InvestigationEnds == <>(status # "walking")

(* The promise every file system gives: ids come from one counter.         *)
Promise == INSTANCE InvestigationPromise
  WITH issued  <- 1..(nextId - 1),
       listed  <- [i \in DOMAIN found |-> [id |-> found[i].id, parent |-> found[i].parent]],
       outcome <- status
KeepsPromise == Promise!Spec
=============================================================================
