------------------------- MODULE NtfsInvestigation -------------------------
(***************************************************************************)
(* investigate_with_progress (filesystem/ntfs/boot_sector.rs) and          *)
(* process_mft_record (ntfs/investigation.rs): the master file table is    *)
(* put together from the runs of its first record and gone through slot by *)
(* slot.  Every FILE_NAME of a record becomes an entry with the number of  *)
(* the record; a record that cannot be parsed ends the investigation.      *)
(***************************************************************************)
EXTENDS NtfsVolume, EntryPaths

(* With none no cluster would have a byte, and no table could be read.     *)
CONSTANT SectorsPerCluster

ASSUME SectorAssumption == SectorsPerCluster \in Nat \ {0}

VARIABLES table,        \* the slots of the table, once it is read
          index,        \* number of the next one
          found,        \* entries
          directories,  \* numbers of the records with an INDEX_ROOT
          records,      \* how many records were kept
          status        \* "opening", "processing", "done" or "failed"

results == <<found, directories, records>>
vars == <<volume, table, index, results, status>>

Init ==
  /\ volume \in Volumes
  /\ table = << >> /\ index = 0
  /\ found = << >> /\ directories = << >> /\ records = 0
  /\ status = "opening"

OpenTable ==
  /\ status = "opening" /\ IsOpened
  /\ table' = ReadRuns(TableData.runs, Size)
  /\ status' = "processing"
  /\ UNCHANGED <<volume, index, results>>

RefuseTable ==
  /\ status = "opening" /\ ~IsOpened
  /\ status' = "failed"
  /\ UNCHANGED <<volume, table, index, results>>

-----------------------------------------------------------------------------
InTable == status = "processing" /\ index < Len(table)
Slot == table[index + 1]

SkipZero ==
  /\ InTable /\ Slot.kind = "zero"
  /\ index' = index + 1
  /\ UNCHANGED <<volume, table, results, status>>

(* Mutant: the record that a failure left unread is passed over. *)
RefuseRecord_PassesOver ==
  /\ InTable /\ Slot.kind # "zero" /\ ~IsParsed(Slot)
  /\ index' = index + 1
  /\ UNCHANGED <<volume, table, results, status>>

RefuseRecord ==
  /\ InTable /\ Slot.kind # "zero" /\ ~IsParsed(Slot)
  /\ status' = "failed"
  /\ UNCHANGED <<volume, table, index, results>>

(* from_file_name_and_data: name and parent of the FILE_NAME, size and runs*)
(* of the DATA attribute, allocation of the record.  Without that attribute*)
(* the size is the one beside the name.                                    *)
EntryFor(n, slot, name) ==
  [id |-> n, parent |-> name.parent, name |-> name.name, directory |-> name.directory,
   system |-> name.system, inUse |-> slot.inUse, data |-> DataOf(slot),
   size |-> IF PlacesOf(slot, "data") = {} THEN name.size ELSE DataOf(slot).size]

(* add_mft_record *)
EntriesFor(n, slot) ==
  [i \in DOMAIN NamesOf(slot) |-> EntryFor(n, slot, NamesOf(slot)[i])]

ProcessRecord ==
  /\ InTable /\ IsParsed(Slot)
  /\ found' = found \o EntriesFor(index, Slot)
  /\ directories' = IF PlacesOf(Slot, "index") # {} THEN Append(directories, index) ELSE directories
  /\ records' = records + 1
  /\ index' = index + 1
  /\ UNCHANGED <<volume, table, status>>

Finish ==
  /\ status = "processing" /\ index = Len(table)
  /\ status' = "done"
  /\ UNCHANGED <<volume, table, index, results>>

Next == OpenTable \/ RefuseTable \/ SkipZero \/ RefuseRecord \/ ProcessRecord \/ Finish

(* A loop over a fixed number of slots: that it ends is not the question.  *)
Spec == Init /\ [][Next]_vars

-----------------------------------------------------------------------------
Listed == {found[i] : i \in DOMAIN found}

(* The slot of a record, found as the format says.                         *)
SlotAt(n) ==
  LET lcn == LcnAt(TableData.list, n \div RecordsPerCluster)
  IN  IF lcn = Sparse THEN Zero ELSE volume.clusters[lcn][(n % RecordsPerCluster) + 1]

(* A fragmented table: after the investigation every name of the record    *)
(* that lies in the n-th slot of the table, wherever its clusters are, is  *)
(* listed with the number n and the allocation of that record, and no      *)
(* other name is.                                                          *)
NamesHaveTheirSlots ==
  status = "done" =>
    \A n \in 0..(Size - 1) :
      {[name |-> e.name, parent |-> e.parent, inUse |-> e.inUse] : e \in {x \in Listed : x.id = n}}
        = IF SlotAt(n).kind = "zero" THEN {}
          ELSE LET attributes == SlotAt(n).attributes IN
               {[name |-> attributes[i].name, parent |-> attributes[i].parent,
                 inUse |-> SlotAt(n).inUse] :
                  i \in {k \in DOMAIN attributes :
                           /\ attributes[k].type = "name"
                           /\ \A j \in 1..k : attributes[j].type # "end"}}

(* Can the table be read at all: record 0 describes clusters that hold all *)
(* of it, and the image has every stretch of them that holds a slot, as a  *)
(* whole.                                                                  *)
TableIsSound ==
  /\ IsParsed(RecordZero)
  /\ \E i \in DOMAIN RecordZero.attributes : RecordZero.attributes[i].type = "data"
  /\ ~TableData.resident /\ TableData.size > 0 /\ TableData.size = Size * RecordSize
  /\ Size <= Clusters(TableData.list) * RecordsPerCluster
  /\ \A i \in DOMAIN TableData.list.elements :
       ClustersUpTo(TableData.list, i - 1) * RecordsPerCluster < Size =>
         \A k \in ClustersUpTo(TableData.list, i - 1)..(ClustersUpTo(TableData.list, i) - 1) :
           LcnAt(TableData.list, k) \in DOMAIN volume.clusters \cup {Sparse}

(* All or nothing: the investigation fails if the table cannot be read or  *)
(* holds a record that cannot, and only then.  Slots that are all zero,    *)
(* damage behind the end of the attributes or of the table do not matter.  *)
FailsOnlyOnDamage ==
  LET broken == ~TableIsSound \/ \E n \in 0..(Size - 1) :
                  SlotAt(n).kind # "zero" /\ ~IsParsed(SlotAt(n))
  IN  (status = "failed" => broken) /\ (status = "done" => ~broken)

-----------------------------------------------------------------------------
(* What becomes of the entries in the forensic model                       *)
(* (ntfs/investigation_entry.rs, to_forensic_model).                       *)
(* A region of sectors, relative to the volume, or none: for a sparse run  *)
(* and for one whose sectors cannot be numbered.                           *)
NoRegion == [sectorStart |-> 0, sectorEnd |-> -1]

HasRegion(run) ==
  /\ run.lcn # Sparse
  /\ run.count * SectorsPerCluster <= WordMax
  /\ (run.lcn + run.count) * SectorsPerCluster - 1 <= WordMax

(* physical_region_for_run *)
RegionForRun(run) ==
  IF HasRegion(run)
    THEN [sectorStart |-> run.lcn * SectorsPerCluster,
          sectorEnd |-> (run.lcn + run.count) * SectorsPerCluster - 1]
    ELSE NoRegion

Segment(kind, start, count, region) ==
  [kind |-> kind, logicalStart |-> start, count |-> count, region |-> region]

(* Mutant: a sparse run does not move what lies behind it. *)
LogicalStart_Closed(runs, i) ==
  SumUpTo([j \in DOMAIN runs |-> IF HasRegion(runs[j]) THEN runs[j].count ELSE 0], i - 1)

(* logical_cluster_start of a run. *)
LogicalStart(runs, i) == CountBefore(runs, i)

RunSegment(runs, i) ==
  Segment(IF HasRegion(runs[i]) THEN "physical" ELSE "sparse",
          LogicalStart(runs, i), runs[i].count, RegionForRun(runs[i]))

(* content_layout: resident bytes as one inline segment, or the runs,      *)
(* unless their clusters are more than a word can count.                   *)
Layout(e) ==
  CASE e.data.resident -> <<Segment("inline", 0, e.data.size, NoRegion)>>
    [] ~e.data.resident /\ CountBefore(e.data.runs, Len(e.data.runs) + 1) > WordMax -> << >>
    [] OTHER -> [i \in DOMAIN e.data.runs |-> RunSegment(e.data.runs, i)]

(* physical_location: the regions without the sparse runs. *)
PhysicalLocation(e) ==
  FlattenSeq([i \in DOMAIN e.data.runs |->
                IF HasRegion(e.data.runs[i]) THEN <<RegionForRun(e.data.runs[i])>> ELSE << >>])

ForensicStatus(e) ==
  CASE ~e.inUse -> "deleted"
    [] e.inUse /\ e.system -> "system"
    [] OTHER -> "normal"

ToForensicEntry(e) ==
  [id |-> e.id, parent |-> e.parent, kind |-> IF e.directory THEN "directory" ELSE "file",
   status |-> ForensicStatus(e), allocated |-> e.inUse, realSize |-> e.size,
   layout |-> Layout(e), regions |-> PhysicalLocation(e),
   path |-> IF e.id = e.parent THEN << >> ELSE ResolvePath(found, e.id)]

ForensicEntries == {ToForensicEntry(e) : e \in Listed}

-----------------------------------------------------------------------------
(* Can the clusters and sectors of a list be numbered with words? *)
IsNumbered(e) ==
  /\ Clusters(e.data.list) <= WordMax
  /\ \A i \in DOMAIN e.data.runs : e.data.runs[i].lcn = Sparse \/ HasRegion(e.data.runs[i])

(* Content: cluster by cluster, the layout of an object has the sectors    *)
(* that its run list means, backward distances and sparse stretches        *)
(* included; nothing is missing, moved or there twice.  Runs beyond the    *)
(* numbers of a word are the exception: they read as zeros, or the object  *)
(* has no layout.                                                          *)
ContentFollowsRuns ==
  \A e \in Listed : ~e.data.resident /\ IsNumbered(e) =>
    LET f == ToForensicEntry(e)
        Covers(s, k) == k \in s.logicalStart..(s.logicalStart + s.count - 1)
    IN  \A k \in 0..Clusters(e.data.list) :
          /\ k < Clusters(e.data.list) <=> \E i \in DOMAIN f.layout : Covers(f.layout[i], k)
          /\ \A i \in DOMAIN f.layout : Covers(f.layout[i], k) =>
               LET s == f.layout[i]
                   lcn == LcnAt(e.data.list, k)
               IN  IF lcn = Sparse THEN s.kind = "sparse"
                   ELSE /\ s.kind = "physical" /\ s.region \in ToSet(f.regions)
                        /\ s.region.sectorStart + (k - s.logicalStart) * SectorsPerCluster
                             = lcn * SectorsPerCluster
=============================================================================
