---------------------------- MODULE MCInspection ----------------------------
(***************************************************************************)
(* Images of sixteen sectors with an MBR, a GPT or no table at all, whose  *)
(* partitions lie inside of the image, across its end, behind it, behind   *)
(* the last offset or nowhere, and hold volumes of every kind with boot    *)
(* records at the limits of what their parsers accept.                     *)
(***************************************************************************)
EXTENDS PartitionInspection

(* Boot records. *)
Fat32(sector, total, labelled) ==
  [type |-> "fat32", bytesPerSector |-> sector, sectorsPerCluster |-> 2, reserved |-> 1,
   fats |-> 2, fatSize |-> 1, rootEntries |-> 17, total |-> total, labelled |-> labelled, root |-> 2]
ExFat(sector, fatLength, root) ==
  [type |-> "exfat", bytesPerSector |-> sector, sectorsPerCluster |-> 4, fats |-> 2,
   fatOffset |-> 2, fatLength |-> fatLength, heap |-> 8, clusters |-> 3, root |-> root]
Ntfs(sector, perRecord) ==
  [type |-> "ntfs", bytesPerSector |-> sector, sectorsPerCluster |-> 2, total |-> 8,
   perRecord |-> perRecord, perIndex |-> 1]
Ext4(log, blocks) ==
  [type |-> "ext4", logBlockSize |-> log, inodeSize |-> 128, blocksPerGroup |-> 8,
   firstBlock |-> 1, blocks |-> blocks]

BootRecords ==
  {Fat32(512, 13, FALSE), Fat32(512, 12, FALSE), Fat32(1024, 12, TRUE), Fat32(512, 5, TRUE),
   [Fat32(512, 255, TRUE) EXCEPT !.fatSize = 128], [Fat32(512, 13, TRUE) EXCEPT !.root = 1],
   ExFat(512, 3, 4), ExFat(4096, 3, 5), ExFat(1024, 4, 2), ExFat(1024, 128, 2),
   Ntfs(512, -10), Ntfs(1024, 1), Ntfs(512, -64), Ext4(0, 9), Ext4(34, 9), Ext4(22, 9), Ext4(1, 1)}

Labels(boot) == IF boot.type = "ext4" THEN {} ELSE {boot.type}

VolumeOf(boot, sound) ==
  [labels |-> Labels(boot), super |-> boot.type = "ext4", boot |-> boot, sound |-> sound]

FatVolume == VolumeOf(Fat32(512, 13, TRUE), TRUE)
NtfsVolume == VolumeOf(Ntfs(512, -10), TRUE)
Ext4Volume == VolumeOf(Ext4(0, 9), TRUE)
ExFatVolume == VolumeOf(ExFat(4096, 3, 4), TRUE)

(* Volumes of all kinds, also where a boot sector of an older file system  *)
(* still lies before the superblock.                                       *)
AllVolumes ==
  {VolumeOf(boot, sound) : boot \in BootRecords, sound \in BOOLEAN}
  \cup {NoVolume, [Ext4Volume EXCEPT !.labels = {"fat32"}],
        [NtfsVolume EXCEPT !.labels = {"ntfs", "fat32"}],
        [ExFatVolume EXCEPT !.labels = {"exfat", "fat32"}]}

(* The contents of a few sectors. *)
Contents(at0, at4, at8) ==
  [s \in {0, 4, 8} |-> CASE s = 0 -> at0 [] s = 4 -> at4 [] s = 8 -> at8]

Entry(type, start, count) == [type |-> type, start |-> start, count |-> count]
NoEntry == Entry("unknown", 0, 0)
Unused == [used |-> FALSE, first |-> 0, last |-> 0]
Used(first, last) == [used |-> TRUE, first |-> first, last |-> last]

NoGpt == [lba |-> 0, entrySize |-> 0, entries |-> << >>]
Gpt(lba, entrySize, entries) == [lba |-> lba, entrySize |-> entrySize, entries |-> entries]

ImageOf(sectors, efi, signature, mbr, gpt, contents) ==
  [size |-> sectors * 512, efi |-> efi, signature |-> signature, mbr |-> mbr, gpt |-> gpt,
   contents |-> contents]

NoMbr == [i \in 1..4 |-> NoEntry]
TwoEntries == <<Entry("linux", 4, 4), NoEntry, Entry("ntfs", 8, 4), NoEntry>>

(* Tables with every entry inside, empty, across the end or unknown. *)
MbrImages ==
  {ImageOf(16, FALSE, TRUE, <<a, b, c, d>>, NoGpt, Contents(NoVolume, FatVolume, NtfsVolume)) :
     a, b, c, d \in {NoEntry, Entry("linux", 4, 4), Entry("ntfs", 8, 4), Entry("extended", 12, 8),
                     Entry("swap", 0, 0), Entry("fat32", 16, 0)}}

(* Tables with every volume in the first partition and some in the second. *)
VolumeImages ==
  {ImageOf(16, FALSE, TRUE, TwoEntries, NoGpt, Contents(NoVolume, volume, other)) :
     volume \in AllVolumes, other \in AllVolumes}

(* Tables whose description or entries are at the limits. *)
GptImages ==
  {ImageOf(16, TRUE, signature, TwoEntries, Gpt(lba, size, <<a, b, c>>),
           Contents(NoVolume, ExFatVolume, Ext4Volume)) :
     signature \in BOOLEAN, lba \in {2, 15}, size \in {48, 128, 256},
     a, b, c \in {Unused, Used(4, 7), Used(8, 11), Used(14, 17), Used(40, 41), Used(3, 2), Used(0, 16383)}}
  \cup {ImageOf(16, TRUE, TRUE, NoMbr, Gpt(lba, size, entries), Contents(NoVolume, NoVolume, NoVolume)) :
          lba \in {0, 2}, size \in {47, 48, 512, 513}, entries \in {<< >>, <<Unused>>}}

(* No table, or a first sector that looks like one. *)
WholeImages ==
  {ImageOf(sectors, FALSE, signature, mbr, NoGpt, Contents(volume, NoVolume, NoVolume)) :
     sectors \in {1, 2, 3, 4, 16}, signature \in BOOLEAN,
     mbr \in {NoMbr, <<NoEntry, Entry("linux", 0, 16), NoEntry, NoEntry>>, TwoEntries},
     volume \in AllVolumes}

MCImageFiles == MbrImages \cup VolumeImages \cup GptImages \cup WholeImages
=============================================================================
