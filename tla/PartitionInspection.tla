------------------------- MODULE PartitionInspection -------------------------
(***************************************************************************)
(* inspect_image (forensis-app/src/inspection.rs): the partition table is  *)
(* read, every partition (or else the whole image) is looked at once, and  *)
(* what is found there is kept in three lists that run in parallel with    *)
(* the partitions.  Recovery later takes the partition of a model by its   *)
(* place in the list (create_engine, forensis-app/src/recovery.rs).        *)
(***************************************************************************)
EXTENDS PartitionTables, VolumeGeometry

CONSTANT ImageFiles   \* the images looked at

VARIABLES partitions,   \* as the table declares them
          turn,         \* the partition looked at
          filesystems,  \* the file system of each,
          models,       \* its forensic model, if it was investigated,
          trees,        \* and the tree of that model
          status        \* "opening", "inspecting", "done" or "failed"

lists == <<filesystems, models, trees>>
vars == <<image, partitions, turn, lists, status>>

(* In a sector may lie a volume: the names a boot sector carries, whether  *)
(* there is a superblock, its boot record, and whether the investigation   *)
(* of the volume ends without an error.                                    *)
NoVolume == [labels |-> {}, super |-> FALSE, boot |-> [type |-> "none"], sound |-> FALSE]

Volume == [labels : SUBSET {"ntfs", "fat32", "exfat"}, super : BOOLEAN,
           boot : BootRecord \cup {NoVolume.boot}, sound : BOOLEAN]

ASSUME ImageAssumption ==
  \A file \in ImageFiles :
    /\ file.size \in Nat /\ file.efi \in BOOLEAN /\ file.signature \in BOOLEAN
    /\ file.mbr \in [Slots -> MbrEntry] /\ file.gpt \in GptHeader
    /\ \A sector \in DOMAIN file.contents : file.contents[sector] \in Volume

ContentAt(sector) ==
  IF sector \in DOMAIN image.contents THEN image.contents[sector] ELSE NoVolume

Init ==
  /\ image \in ImageFiles
  /\ partitions = << >> /\ turn = 1
  /\ filesystems = << >> /\ models = << >> /\ trees = << >>
  /\ status = "opening"

ReadTable ==
  /\ status = "opening" /\ TableIsValid
  /\ partitions' = ParseTable
  /\ status' = "inspecting"
  /\ UNCHANGED <<image, turn, lists>>

RefuseTable ==
  /\ status = "opening" /\ ~TableIsValid
  /\ status' = "failed"
  /\ UNCHANGED <<image, partitions, turn, lists>>

-----------------------------------------------------------------------------
IsWhole == partitions = << >>
Places == IF IsWhole THEN {1} ELSE DOMAIN partitions
Inspecting == status = "inspecting" /\ turn \in Places

Start == IF IsWhole THEN 0 ELSE partitions[turn].start

(* Offset, size and end of the partition fit a word, and the end is not    *)
(* behind the image.                                                       *)
InImage(p) ==
  /\ p.start * SectorBytes <= WordMax /\ p.count * SectorBytes <= WordMax
  /\ (p.start + p.count) * SectorBytes <= WordMax
  /\ (p.start + p.count) * SectorBytes <= image.size

MayInspect == ~IsWhole => InImage(partitions[turn])

(* FileSystemDetector::detect_at: three names of the boot sector, in this  *)
(* order, and only then the superblock.                                    *)
Detected(sector) ==
  LET content == ContentAt(sector) IN
  CASE "ntfs" \in content.labels -> "ntfs"
    [] "ntfs" \notin content.labels /\ "fat32" \in content.labels -> "fat32"
    [] content.labels = {"exfat"} -> "exfat"
    [] content.labels = {} /\ content.super -> "ext4"
    [] OTHER -> "unknown"

DetectionFails(sector) ==
  \/ ~CanRead(sector * SectorBytes, SectorBytes)
  \/ ContentAt(sector).labels = {} /\ ~CanRead(sector * SectorBytes + 1024, 1024)

FileSystems == {"ntfs", "ext4", "fat32", "exfat"}

IsSupported(filesystem) == filesystem \in FileSystems

(* inspect_filesystem succeeds: the volume is opened and investigated.     *)
Succeeds(filesystem, sector) ==
  /\ ContentAt(sector).boot.type = filesystem
  /\ Accepts(ContentAt(sector).boot) /\ ContentAt(sector).sound

NoModel == [type |-> "none"]

ModelAt(sector) ==
  [type |-> Detected(sector), start |-> sector, boot |-> ContentAt(sector).boot]

Push(filesystem, model) ==
  /\ filesystems' = Append(filesystems, filesystem)
  /\ models' = Append(models, model)
  /\ trees' = Append(trees, model)
  /\ turn' = turn + 1
  /\ UNCHANGED <<image, partitions, status>>

(* Mutant: a partition outside of the image leaves no trace. *)
PassOver_LeavesNothing ==
  /\ Inspecting /\ ~MayInspect
  /\ turn' = turn + 1
  /\ UNCHANGED <<image, partitions, lists, status>>

PassOver ==
  Inspecting /\ ~MayInspect /\ Push("unknown", NoModel)

Looking == Inspecting /\ MayInspect

RefuseDetection ==
  /\ Looking /\ DetectionFails(Start)
  /\ status' = "failed"
  /\ UNCHANGED <<image, partitions, turn, lists>>

Unsupported ==
  /\ Looking /\ ~DetectionFails(Start) /\ ~IsSupported(Detected(Start))
  /\ Push(Detected(Start), NoModel)

Opening == Looking /\ ~DetectionFails(Start) /\ IsSupported(Detected(Start))

InvestigateVolume ==
  Opening /\ Succeeds(Detected(Start), Start) /\ Push(Detected(Start), ModelAt(Start))

(* Mutant: the partition is left without a model. *)
RefuseVolume_GoesOn ==
  Opening /\ ~Succeeds(Detected(Start), Start) /\ Push(Detected(Start), NoModel)

RefuseVolume ==
  /\ Opening /\ ~Succeeds(Detected(Start), Start)
  /\ status' = "failed"
  /\ UNCHANGED <<image, partitions, turn, lists>>

Finish ==
  /\ status = "inspecting" /\ turn \notin Places
  /\ status' = "done"
  /\ UNCHANGED <<image, partitions, turn, lists>>

Next ==
  \/ ReadTable \/ RefuseTable
  \/ PassOver \/ RefuseDetection \/ Unsupported \/ InvestigateVolume \/ RefuseVolume
  \/ Finish

Spec == Init /\ [][Next]_vars

-----------------------------------------------------------------------------
(* create_engine: from the place of a model in the list to the byte where  *)
(* its partition begins, for the engine that recovers its objects.         *)
EngineOffset(i) ==
  IF i \in DOMAIN partitions /\ partitions[i].start * SectorBytes <= WordMax
    THEN partitions[i].start * SectorBytes ELSE 0

TypeOK ==
  /\ turn \in Nat \ {0}
  /\ filesystems \in Seq(FileSystems \cup {"unknown"})
  /\ status \in {"opening", "inspecting", "done", "failed"}

(* The lists stay in step with the partitions whatever is passed over,     *)
(* unsupported or empty: every model is that of the file system and the    *)
(* tree at its place, and the engine that recovers its objects begins      *)
(* where the volume was read (inspect_image, create_engine).               *)
ResultsBelongTogether ==
  /\ Len(filesystems) = turn - 1 /\ Len(models) = turn - 1 /\ Len(trees) = turn - 1
  /\ \A i \in 1..Len(models) : models[i] # NoModel =>
       /\ models[i].type = filesystems[i] /\ trees[i] = models[i]
       /\ models[i].start * SectorBytes = EngineOffset(i)

(* Declared: [number, start, count] of the slots of the table in use.      *)
Declared ==
  CASE DetectTable = "mbr" -> {MbrPartition(i) : i \in {k \in Slots : image.mbr[k].type \in KnownTypes}}
    [] DetectTable = "gpt" -> {GptPartition(i) : i \in {k \in DOMAIN image.gpt.entries :
                                                          image.gpt.entries[k].used}}
    [] OTHER -> {}

(* An inspection that ends has missed nothing: every partition of the      *)
(* table that lies in the image and holds a file system Forensis supports  *)
(* has its model, whatever lies before it in the table; without any        *)
(* partition it is the volume that fills the image (inspect_image).        *)
EveryVolumeHasItsModel ==
  status = "done" =>
    /\ \A p \in Declared : InImage(p) /\ IsSupported(Detected(p.start)) =>
         \E i \in DOMAIN models : /\ i \in DOMAIN partitions /\ partitions[i].number = p.number
                                  /\ models[i] = ModelAt(p.start)
    /\ Declared = {} /\ IsSupported(Detected(0)) => models = <<ModelAt(0)>>

(* A place that is looked at and cannot be read, or whose volume cannot be *)
(* opened or investigated.                                                 *)
IsBad(sector) ==
  \/ DetectionFails(sector)
  \/ IsSupported(Detected(sector)) /\ ~Succeeds(Detected(sector), sector)

Starts == IF Declared = {} THEN {0} ELSE {p.start : p \in {d \in Declared : InImage(d)}}

IsDamaged == ~TableIsValid \/ \E sector \in Starts : IsBad(sector)

(* All or nothing: an inspection fails if the table or one partition in    *)
(* the image cannot be read, or its volume cannot be opened or             *)
(* investigated, and never else.  One such partition is enough to lose the *)
(* results of all the others.                                              *)
FailsOnlyOnDamage ==
  (status = "failed" => IsDamaged) /\ (status = "done" => ~IsDamaged)

(* The clusters of a volume that a test of the next property looks at.     *)
SomeClusters == 3..5

(* The engine finds the bytes the investigation saw: for exFAT and EXT4,   *)
(* whatever their sectors and blocks are, and for FAT32 and NTFS if their  *)
(* sectors have 512 bytes, the region of a cluster begins where the reader *)
(* of the file system reads that cluster.  With any other sector it does   *)
(* not (create_engine, sector_of_cluster, physical_region_for_run).        *)
EngineFindsClusters ==
  \A i \in DOMAIN models : models[i] # NoModel =>
    LET b == models[i].boot
        Found(c) == EngineOffset(i) + RegionStart(b, c) * SectorBytes
                      = models[i].start * SectorBytes + ClusterOffset(b, c)
    IN  \A c \in SomeClusters :
          Found(c) <=> (b.type \in {"exfat", "ext4"} \/ b.bytesPerSector = SectorBytes)
=============================================================================
