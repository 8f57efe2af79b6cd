--------------------------- MODULE VolumeGeometry ---------------------------
(***************************************************************************)
(* The boot records of the four file systems (boot.rs of FAT32 and exFAT,  *)
(* boot_sector.rs of NTFS, superblock.rs and reader.rs of EXT4): which are *)
(* accepted, at which byte of the volume a cluster is read, and which      *)
(* sector the forensic model gives for it.                                 *)
(***************************************************************************)
EXTENDS Integers

CONSTANTS HalfMax,           \* u32::MAX
          Fat32MinClusters   \* 65525

ASSUME GeometryAssumption == HalfMax \in Nat /\ Fat32MinClusters \in Nat

ModelSector == 512
SlotBytes == 32

(* Numbers of a boot record keep their width in release builds. *)
Wrapped(n) == n % (HalfMax + 1)

(* 1 << n, for a word of 32 bits. *)
PowerOfTwo[n \in 0..31] == IF n = 0 THEN 1 ELSE 2 * PowerOfTwo[n - 1]

SectorSizes == {512, 1024, 2048, 4096}

(* What the fields of a boot record may hold. *)
BootRecord ==
  [type : {"fat32"}, bytesPerSector : Nat, sectorsPerCluster : Nat, reserved : Nat, fats : Nat,
   fatSize : Nat, rootEntries : Nat, total : Nat, labelled : BOOLEAN, root : Nat]
  \cup [type : {"exfat"}, bytesPerSector : Nat, sectorsPerCluster : Nat, fats : Nat,
        fatOffset : Nat, fatLength : Nat, heap : Nat, clusters : Nat, root : Nat]
  \cup [type : {"ntfs"}, bytesPerSector : Nat, sectorsPerCluster : Nat, total : Nat,
        perRecord : Int, perIndex : Int]
  \cup [type : {"ext4"}, logBlockSize : Nat, inodeSize : Nat, blocksPerGroup : Nat,
        firstBlock : Nat, blocks : Nat]

ClusterBytes(b) == b.bytesPerSector * b.sectorsPerCluster

-----------------------------------------------------------------------------
RootDirSectors(b) == (b.rootEntries * SlotBytes + b.bytesPerSector - 1) \div b.bytesPerSector

FirstDataSector(b) == b.reserved + b.fats * b.fatSize + RootDirSectors(b)

TotalClusters(b) == (b.total - FirstDataSector(b)) \div b.sectorsPerCluster

(* Fat32BootSector::parse; the sums are checked. *)
AcceptsFat32(b) ==
  /\ b.bytesPerSector \in SectorSizes /\ b.sectorsPerCluster \in {PowerOfTwo[k] : k \in 0..7}
  /\ b.fats # 0 /\ b.fatSize # 0 /\ b.total # 0
  /\ FirstDataSector(b) <= HalfMax /\ FirstDataSector(b) < b.total
  /\ TotalClusters(b) >= Fat32MinClusters \/ b.labelled
  /\ b.root >= 2

(* ExFatBootSector::parse; the end of the tables is not checked. *)
AcceptsExFat(b) ==
  /\ b.bytesPerSector \in SectorSizes /\ b.sectorsPerCluster \in {PowerOfTwo[k] : k \in 0..25}
  /\ b.fats \in 1..2
  /\ b.fatOffset # 0 /\ b.fatLength # 0 /\ b.heap # 0 /\ b.clusters # 0
  /\ b.heap >= Wrapped(b.fatOffset + Wrapped(b.fatLength * b.fats))
  /\ b.root >= 2 /\ b.root <= Wrapped(b.clusters + 1)

(* Sizes of records are clusters, or negated exponents of two. *)
IsRecordSize(n) == n > -64

(* NtfsFileSystem::parse *)
AcceptsNtfs(b) ==
  /\ b.bytesPerSector # 0 /\ b.sectorsPerCluster # 0 /\ b.total # 0
  /\ IsRecordSize(b.perRecord) /\ IsRecordSize(b.perIndex)

(* Release builds shift by five bits of the exponent, and a size of 2^32   *)
(* or more is zero.                                                        *)
Shift(log) == log % 32

(* Ext4Superblock::parse and read_block_groups. *)
AcceptsExt4(b) ==
  /\ b.inodeSize # 0 /\ Shift(b.logBlockSize) < 22
  /\ b.blocksPerGroup # 0 /\ b.blocks > b.firstBlock

(* The boot record belongs to the file system and its parser accepts it. *)
Accepts(b) ==
  \/ b.type = "fat32" /\ AcceptsFat32(b)
  \/ b.type = "exfat" /\ AcceptsExFat(b)
  \/ b.type = "ntfs" /\ AcceptsNtfs(b)
  \/ b.type = "ext4" /\ AcceptsExt4(b)

-----------------------------------------------------------------------------
(* Where the readers of the file systems find a cluster, in bytes from the *)
(* start of the volume.                                                    *)
SectorOfCluster(b, c) == FirstDataSector(b) + (c - 2) * b.sectorsPerCluster

BlockBytes(b) == 1024 * PowerOfTwo[Shift(b.logBlockSize)]

ClusterOffset(b, c) ==
  CASE b.type = "fat32" -> SectorOfCluster(b, c) * b.bytesPerSector
    [] b.type = "exfat" -> b.heap * b.bytesPerSector + (c - 2) * ClusterBytes(b)
    [] b.type = "ntfs" -> c * ClusterBytes(b)
    [] b.type = "ext4" -> c * BlockBytes(b)

(* Mutant: the sectors of the volume are taken for those of the model. *)
ExFatRegion_Native(b, c) == b.heap + (c - 2) * b.sectorsPerCluster

(* exFAT counts in sectors of 512 bytes. *)
ExFatRegion(b, c) ==
  (b.heap * b.bytesPerSector) \div ModelSector
    + (c - 2) * (ClusterBytes(b) \div ModelSector)

(* The first sector of the region the forensic model has for a cluster.    *)
RegionStart(b, c) ==
  CASE b.type = "fat32" -> SectorOfCluster(b, c)
    [] b.type = "exfat" -> ExFatRegion(b, c)
    [] b.type = "ntfs" -> c * b.sectorsPerCluster
    [] b.type = "ext4" -> c * (BlockBytes(b) \div ModelSector)
=============================================================================
