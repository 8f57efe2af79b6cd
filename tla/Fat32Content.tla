---------------------------- MODULE Fat32Content ----------------------------
(***************************************************************************)
(* What becomes of the entries of a FAT32 investigation in the forensic    *)
(* model (fat32/investigation_entry.rs, to_forensic_model), and which      *)
(* slots of the volume must be among them.                                 *)
(***************************************************************************)
EXTENDS Fat32Investigation, ClusterRuns, EntryPaths

(* content_layout and physical_location describe the same runs.            *)
Layout(e) == ContentLayout(e.chain)
PhysicalLocation(e) == [i \in DOMAIN Layout(e) |-> Layout(e)[i].region]

Kind(e) == IF e.type = "label" THEN "other" ELSE e.type

ForensicStatus(e) ==
  CASE e.deleted -> "deleted"
    [] ~e.deleted /\ e.type = "label" -> "system"
    [] ~e.deleted /\ e.type # "label" /\ e.size > 0 /\ e.chain = << >> -> "inconsistent"
    [] OTHER -> "normal"

ToForensicEntry(e) ==
  [id |-> e.id, parent |-> e.parent, kind |-> Kind(e), status |-> ForensicStatus(e),
   realSize |-> e.size, allocatedSize |-> Len(e.chain),
   layout |-> Layout(e), regions |-> PhysicalLocation(e)]

PathOf(e) == ResolvePath(found, e.id)

-----------------------------------------------------------------------------
(* The content of an entry can be recovered as the walk found it, and a    *)
(* file that is shown as normal and holds anything begins with the cluster *)
(* of its slot.                                                            *)
LayoutIsChain ==
  \A e \in Registered :
    LET f == ToForensicEntry(e) IN
      /\ LaysOut(f.layout, e.chain)
      /\ f.status = "normal" /\ f.realSize > 0 =>
           f.regions # << >> /\ f.regions[1].sectorStart = SectorOfCluster(e.cluster)

(* The entries from which a climb over listed parents reaches the root.    *)
Rooted(e) ==
  LET Closed(S) == \A d \in ToSet(found) :
                     d.parent = d.id \/ (\E p \in S : p.id = d.parent) => d \in S
  IN  \A S \in SUBSET ToSet(found) : Closed(S) => e \in S

(* The filter for repeated names and the ids together make paths names:    *)
(* no two entries below the root have the same path, and the path of an    *)
(* entry is the one of its parent and its own name.                        *)
PathsIdentify ==
  status = "done" =>
    LET rooted == {e \in ToSet(found) : Rooted(e)} IN
      \A d, e \in rooted :
        /\ PathOf(d) = PathOf(e) => d = e
        /\ d.id = e.parent => PathOf(e) = IF d = e THEN << >> ELSE Append(PathOf(d), e.name)

(* The slots of a cluster up to its end mark that carry no long name.      *)
PlainSlots(c) ==
  {i \in DOMAIN volume.slots[c] :
     /\ \A j \in 1..i : volume.slots[c][j].type # "end"
     /\ i > 1 => volume.slots[c][i - 1].type # "long"
     /\ Plausible(ShortName(volume.slots[c][i])) /\ volume.slots[c][i].name[1] # Dot}

(* Completeness: at the end every file of a walked directory is listed     *)
(* below it under its name, and every directory that passes the gate and   *)
(* is named in a walked one was walked itself.                             *)
EverySlotIsTaken ==
  status = "done" =>
    \A d \in Registered : d.type = "directory" =>
      \A k \in DOMAIN d.chain : \A i \in PlainSlots(d.chain[k]) :
        LET s == volume.slots[d.chain[k]][i] IN
          /\ s.type = "file" =>
               \E j \in DOMAIN found : found[j].parent = d.id /\ found[j].name = ShortName(s)
          /\ s.type = "directory" /\ InRange(s.cluster) /\ HasMarkers(volume.slots[s.cluster]) =>
               \E e \in Registered : e.type = "directory" /\ e.cluster = s.cluster

(* What is recovered of a file is what the table means: its clusters are   *)
(* those of its chain, within the recorded size, and its layout is the     *)
(* regions of these clusters (read_chain, content_layout).                 *)
ContentFollowsFat == ChainsFollowFat /\ LayoutIsChain

(* No file of a walked directory is hidden: it is listed, and it can be    *)
(* told from every other entry by its path (add_entry, resolve_path).      *)
NothingIsHidden == EverySlotIsTaken /\ PathsIdentify
=============================================================================
