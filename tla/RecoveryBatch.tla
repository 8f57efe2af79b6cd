--------------------------- MODULE RecoveryBatch ---------------------------
(***************************************************************************)
(* Recovery of several objects into one output directory                   *)
(* (forensis-app/src/recovery.rs): objects are named by Object ID, looked  *)
(* up across the models of all partitions, recovered by an engine at the   *)
(* partition's offset and written under the object's own name.             *)
(*                                                                         *)
(* Mode "batch" is recover_objects_from_result, where the first error ends *)
(* the call; mode "each" is the loop of the CLI and of the TUI around      *)
(* recover_object_from_result, which counts an error and goes on.          *)
(***************************************************************************)
EXTENDS ForensicModel, SequencesExt

CONSTANTS Inspections,   \* inspection results: partitions and models
          Requests,      \* explicit lists of Object IDs
          EarlierFiles,  \* sets of paths the output directory may hold already
          BaseNames,     \* file names that do not end in _<object id>
          NoBase,        \* no file name at all
          ObjectIds

Sector == 512

(* A file name is a base name with the object ids appended to its stem: a  *)
(* collision appends one (stem_<id>.ext), and an object may be called that *)
(* way to begin with.                                                      *)
Suffixed(name, id) == [name EXCEPT !.ids = Append(@, id)]
Tagged(n) == UNION {[1..k -> ObjectIds] : k \in 0..n}
Names == [base : BaseNames, ids : Tagged(1)]
Paths == [base : BaseNames, ids : Tagged(2)]
PlainNames == [base : BaseNames, ids : {<< >>}]

FileEntry == [id : ObjectIds, name : Names,
              status : {"Deleted", "Normal", "Inconsistent"},
              directory : BOOLEAN]

(* A partition table gives every model its partition, and where anything   *)
(* was found the offset of the partition fits a word (inspect_image).      *)
BelongTogether(partitions, models) ==
  partitions # << >> =>
    /\ Len(models) = Len(partitions)
    /\ \A m \in DOMAIN models : models[m] # << >> => partitions[m] * Sector <= U64Max

Inspection ==
  {result \in [partitions : Seq(U64), models : Seq(Seq(FileEntry))] :
     BelongTogether(result.partitions, result.models)}

ASSUME BatchAssumption ==
  /\ ObjectIds \subseteq Nat
  /\ Inspections \subseteq Inspection
  /\ Requests \subseteq Seq(Nat)
  /\ EarlierFiles \subseteq SUBSET Paths
  /\ NoBase \notin BaseNames

VARIABLES inspection,  \* the InspectionResult all objects come from
          mode,        \* "batch" or "each"
          requested,   \* the Object IDs to recover
          position,    \* the next of them
          output,      \* contents of the output directory
          results,     \* the RecoveredFiles and errors reported so far
          status       \* "running", "done" or "aborted"

vars == <<inspection, mode, requested, position, output, results, status>>

-----------------------------------------------------------------------------
Models == inspection.models

(* The bytes the engine finds for an object when it reads at an offset,    *)
(* and the other things a path may hold.                                   *)
Bytes(object, offset) == [object |-> object, offset |-> offset]
NoObject == <<0, 0>>
NoFile == Bytes(NoObject, 0)
Earlier == Bytes(NoObject, 1)
Partial == Bytes(NoObject, 2)
NoPath == [base |-> NoBase, ids |-> << >>]

Objects == UNION {{<<m, k>> : k \in DOMAIN Models[m]} : m \in DOMAIN Models}
EntryOf(object) == Models[object[1]][object[2]]

Matches(filter, e) ==
  /\ ~e.directory
  /\ filter # "All" => e.status = filter

(* The ids of the entries of a model that the filter lets through. *)
Selected(model, filter) ==
  FlattenSeq([k \in DOMAIN model |->
                IF Matches(filter, model[k]) THEN <<model[k].id>> ELSE << >>])

(* Mutant: only the first partition is asked. *)
CollectObjectIds_FirstModel(models, filter) == Selected(models[1], filter)

(* One list over all models, in order. *)
CollectObjectIds(models, filter) ==
  FlattenSeq([m \in DOMAIN models |-> Selected(models[m], filter)])

Holds(m, id) == \E k \in DOMAIN Models[m] : Models[m][k].id = id
Found(id) == \E m \in DOMAIN Models : Holds(m, id)

(* The first entry with the id, in the first model that has one. *)
IsFirst(object, id) ==
  /\ EntryOf(object).id = id
  /\ \A k \in 1..(object[2] - 1) : Models[object[1]][k].id # id
  /\ \A m \in 1..(object[1] - 1) : ~Holds(m, id)

FindObject(id) ==
  CHOOSE object \in Objects : IsFirst(object, id)

(* Mutant: the partition is forgotten. *)
EngineOffset_ImageStart(m) == 0

(* create_engine: partition and model share an index; without a partition  *)
(* table the image itself is the file system.                              *)
EngineOffset(m) ==
  IF m \in DOMAIN inspection.partitions /\ inspection.partitions[m] * Sector <= U64Max
    THEN inspection.partitions[m] * Sector
    ELSE 0

(* write_recovered_file: the suffixed name is not checked for existence. *)
TargetPath(e) ==
  IF output[e.name] # NoFile THEN Suffixed(e.name, e.id) ELSE e.name

-----------------------------------------------------------------------------
Init ==
  /\ inspection \in Inspections
  /\ mode \in {"batch", "each"}
  /\ requested \in Requests \cup
       {CollectObjectIds(inspection.models, f) : f \in {"Deleted", "Normal", "All"}}
  /\ position = 1
  /\ \E earlier \in EarlierFiles :
       output = [p \in Paths |-> IF p \in earlier THEN Earlier ELSE NoFile]
  /\ results = << >>
  /\ status = "running"

Id == requested[position]
Object == FindObject(Id)
Current == /\ status = "running"
           /\ position <= Len(requested)
Advance == position' = position + 1
Report(r) == results' = Append(results, r)
Fixed == UNCHANGED <<inspection, mode, requested>>

Outcome(kind, object, path) == [kind |-> kind, object |-> object, path |-> path]

(* An Err: it ends a batch without a result, a loop records a failure. *)
Error(object) ==
  \/ /\ mode = "batch"
     /\ status' = "aborted"
     /\ UNCHANGED <<position, results>>
  \/ /\ mode = "each"
     /\ Report(Outcome("error", object, NoPath))
     /\ Advance
     /\ UNCHANGED status

(* A batch passes over an unknown id in silence; for a single object it is *)
(* an error.                                                               *)
SkipUnknown ==
  /\ Current /\ ~Found(Id)
  /\ mode = "batch"
  /\ Advance
  /\ UNCHANGED <<results, status, output>> /\ Fixed

UnknownObject ==
  /\ Current /\ ~Found(Id)
  /\ mode = "each"
  /\ Error(NoObject)
  /\ UNCHANGED output /\ Fixed

(* The image cannot be opened any more, or the engine returns Err. *)
EngineError ==
  /\ Current /\ Found(Id)
  /\ Error(Object)
  /\ UNCHANGED output /\ Fixed

(* The engine answers that the object is not wholly recoverable. *)
EngineFailed ==
  /\ Current /\ Found(Id)
  /\ Report(Outcome("failed", Object, NoPath))
  /\ Advance
  /\ UNCHANGED <<output, status>> /\ Fixed

WriteRecovered ==
  /\ Current /\ Found(Id)
  /\ LET path == TargetPath(EntryOf(Object)) IN
       /\ output' = [output EXCEPT ![path] = Bytes(Object, EngineOffset(Object[1]))]
       /\ Report(Outcome("recovered", Object, path))
  /\ Advance
  /\ UNCHANGED status /\ Fixed

(* fs::write fails before or after it has truncated the target. *)
WriteFails ==
  /\ Current /\ Found(Id)
  /\ LET path == TargetPath(EntryOf(Object)) IN
       output' \in {output, [output EXCEPT ![path] = Partial]}
  /\ Error(Object)
  /\ Fixed

Complete ==
  /\ status = "running"
  /\ position > Len(requested)
  /\ status' = "done"
  /\ UNCHANGED <<position, output, results>> /\ Fixed

Next == \/ SkipUnknown \/ UnknownObject
        \/ EngineError \/ EngineFailed
        \/ WriteRecovered \/ WriteFails
        \/ Complete

Spec == Init /\ [][Next]_vars

-----------------------------------------------------------------------------
TypeOK ==
  /\ inspection \in Inspections
  /\ mode \in {"batch", "each"}
  /\ requested \in Seq(Nat)
  /\ position \in 1..(Len(requested) + 1)
  /\ \A p \in Paths : output[p] \in {NoFile, Earlier, Partial} \/ output[p].object \in Objects
  /\ Len(results) < position
  /\ status \in {"running", "done", "aborted"}

(* The bytes an object really has: those at its own partition. *)
TrueBytes(object) ==
  Bytes(object, IF inspection.partitions = << >> THEN 0
                  ELSE inspection.partitions[object[1]] * Sector)

(* A request that can name every file apart: no id twice, and no object    *)
(* that is itself called stem_<id>.                                        *)
Unambiguous ==
  /\ \A i, j \in DOMAIN requested : requested[i] = requested[j] => i = j
  /\ \A m \in DOMAIN Models : \A k \in DOMAIN Models[m] :
       Models[m][k].name \in PlainNames

(* For an unambiguous request every file reported as recovered holds, to   *)
(* the end, the bytes of the reported object read at its own partition,    *)
(* whatever the directory held before: name collisions, failed writes and  *)
(* aborted calls in between do not damage it (finalize_recovery,           *)
(* write_recovered_file).                                                  *)
ReportedFilesIntact ==
  Unambiguous =>
    \A i \in DOMAIN results :
      results[i].kind = "recovered"
        => output[results[i].path] = TrueBytes(results[i].object)

DistinctIds ==
  \A m, n \in DOMAIN Models : \A k \in DOMAIN Models[m], l \in DOMAIN Models[n] :
    Models[m][k].id = Models[n][l].id => m = n /\ k = l

Answered(filter) ==
  (status = "done" /\ requested = CollectObjectIds(Models, filter)) =>
    \A m \in DOMAIN Models : \A k \in DOMAIN Models[m] :
      Matches(filter, Models[m][k]) =>
        \E i \in DOMAIN results : results[i].object = <<m, k>>

(* When Object IDs are unique in the image, recovery by filter answers for *)
(* every object the filter selects, in every partition, and a call that    *)
(* returns results has none missing.                                       *)
EveryMatchAnswered ==
  DistinctIds => \A filter \in {"Deleted", "Normal", "All"} : Answered(filter)

(* docs/recovery.md: recover_deleted_files recovers every entry whose      *)
(* status is Deleted.                                                      *)
EveryDeletedAnswered == Answered("Deleted")
=============================================================================
