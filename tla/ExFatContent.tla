---------------------------- MODULE ExFatContent ----------------------------
(***************************************************************************)
(* What becomes of the entries of an exFAT investigation in the forensic   *)
(* model (exfat/investigation_entry.rs, to_forensic_model), and which      *)
(* records of the volume must be among them.                               *)
(***************************************************************************)
EXTENDS ExFatInvestigation, ClusterRuns, EntryPaths

(* content_layout and physical_location describe the same runs.            *)
Layout(e) == ContentLayout(e.chain)
PhysicalLocation(e) == [i \in DOMAIN Layout(e) |-> Layout(e)[i].region]

Kind(e) == CASE e.type \in {"label", "system"} -> "other" [] OTHER -> e.type

ForensicStatus(e) ==
  CASE e.deleted -> "deleted"
    [] ~e.deleted /\ Kind(e) = "other" -> "system"
    [] ~e.deleted /\ Kind(e) # "other" /\ e.size > 0 /\ e.chain = << >> -> "inconsistent"
    [] OTHER -> "normal"

ToForensicEntry(e) ==
  [id |-> e.id, parent |-> e.parent, kind |-> Kind(e), status |-> ForensicStatus(e),
   realSize |-> e.size, allocatedSize |-> Len(e.chain),
   layout |-> Layout(e), regions |-> PhysicalLocation(e),
   path |-> ResolvePath(found, e.id)]

ForensicEntries == {ToForensicEntry(e) : e \in Registered}

-----------------------------------------------------------------------------
(* What is recovered of an object is what the table says of it: the layout *)
(* covers the chain of the FAT, and a file that is shown as normal and     *)
(* holds anything begins with the cluster of its stream.                   *)
ContentFollowsFat ==
  \A e \in Registered :
    LET f == ToForensicEntry(e) IN
      /\ FollowsFat(e)
      /\ LaysOut(f.layout, e.chain)
      /\ f.status = "normal" /\ f.realSize > 0 =>
           f.regions # << >> /\ f.regions[1].sectorStart = SectorOfCluster(e.cluster)

(* The units in the name entries of a record with its stream in front.     *)
Written(slots, i) == FlattenSeq([k \in 1..(slots[i].secondary - 1) |-> slots[i + 1 + k].units])

(* A record as a file system writes it, in one cluster before the end      *)
(* mark: a stream extension and names behind its file entry, and nothing   *)
(* else.                                                                   *)
IsWhole(slots, i) ==
  LET last == i + slots[i].secondary IN
    /\ slots[i].type = "file" /\ slots[i].secondary >= 2
    /\ \A k \in 1..i : slots[k].type # "end"
    /\ last <= Len(slots)
    /\ slots[i + 1].type = "stream"
    /\ \A k \in (i + 2)..last : slots[k].type = "name"
    /\ slots[i + 1].length \in 1..Len(Written(slots, i))

(* Completeness: at the end every whole record of a walked directory was   *)
(* taken: a file is listed below its directory with the name and the start *)
(* that its own slots hold, and the cluster of a directory was walked.     *)
WholeRecordsAreTaken ==
  status = "done" =>
    \A d \in Registered : d.type = "directory" =>
      \A k \in DOMAIN d.chain : \A i \in DOMAIN volume.slots[d.chain[k]] :
        LET slots == volume.slots[d.chain[k]]
            here == [cluster |-> d.chain[k], slot |-> i]
        IN  IsWhole(slots, i) =>
              IF slots[i].directory
                THEN slots[i + 1].cluster >= 2 =>
                       \E e \in Registered : e.type = "directory" /\ e.cluster = slots[i + 1].cluster
                ELSE \E e \in Registered :
                       /\ e.place = here /\ e.parent = d.id
                       /\ e.cluster = slots[i + 1].cluster /\ e.size = slots[i + 1].size
                       /\ e.name = SubSeq(Written(slots, i), 1, slots[i + 1].length)
                       /\ e.deleted = ~slots[i].live

(* Paths are made of the hierarchy: the root is "/", and every other entry *)
(* is found under its name at the path of its parent.                      *)
PathsFollowParents ==
  status = "done" =>
    \A e \in Registered :
      ResolvePath(found, e.id) =
        IF e.parent = e.id THEN << >> ELSE Append(ResolvePath(found, e.parent), e.name)
=============================================================================
