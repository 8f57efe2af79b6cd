--------------------------- MODULE PartitionTables ---------------------------
(***************************************************************************)
(* The partition tables of a disk image (forensis-core/src/partition/):    *)
(* which kind of table an image has and which partitions it declares.      *)
(***************************************************************************)
EXTENDS Integers, SequencesExt

CONSTANTS WordMax,       \* the greatest byte offset, u64::MAX
          MinEntrySize,  \* of a GPT entry, 48 bytes
          MaxEntrySize,  \* 4096 bytes
          MaxEntries     \* 1 000 000

ASSUME TableAssumption ==
  /\ WordMax \in Nat /\ MaxEntries \in Nat
  /\ MinEntrySize \in Nat \ {0} /\ MaxEntrySize \in Nat

SectorBytes == 512

(* The four entries of the MBR. *)
Slots == 1..4
KnownTypes == {"ntfs", "fat32", "swap", "linux", "extended"}
MbrEntry == [type : KnownTypes \cup {"unknown"}, start : Nat, count : Nat]

(* The GPT. *)
GptEntry == [used : BOOLEAN, first : Nat, last : Nat]
GptHeader == [lba : Nat, entrySize : Nat, entries : Seq(GptEntry)]

(* An image is its size in bytes, whether the second sector begins with    *)
(* "EFI PART" and the first ends with 55 AA, what its partition tables     *)
(* would be, and what lies in its sectors: [size, efi, signature, mbr,     *)
(* gpt, contents].                                                         *)
VARIABLE image

(* read_at: all of the bytes or an error. *)
CanRead(offset, bytes) == offset + bytes <= image.size

MbrPartition(i) == [number |-> i, start |-> image.mbr[i].start, count |-> image.mbr[i].count]

(* Mutant: an entry of no known type ends the table. *)
ParseMbr_StopsAtUnknown ==
  LET IsUnknown(e) == e.type \notin KnownTypes
      end == SelectInSeq(image.mbr, IsUnknown)
  IN  [i \in 1..(IF end = 0 THEN 4 ELSE end - 1) |-> MbrPartition(i)]

(* A partition is pushed onto the list if its entry is in use. *)
Pushed(inUse, partition) == IF inUse THEN <<partition>> ELSE << >>

(* Mbr::parse *)
ParseMbr ==
  FlattenSeq([i \in Slots |-> Pushed(image.mbr[i].type \in KnownTypes, MbrPartition(i))])

Described ==
  /\ image.gpt.lba # 0 /\ Len(image.gpt.entries) \in 1..MaxEntries
  /\ image.gpt.entrySize \in MinEntrySize..MaxEntrySize

EntryOffset(i) == image.gpt.lba * SectorBytes + (i - 1) * image.gpt.entrySize

EntryReadable(i) == CanRead(EntryOffset(i), image.gpt.entrySize)

EntryIsRange(e) == e.first <= e.last /\ e.last - e.first + 1 <= WordMax

(* Gpt::parse: every entry can be read, and every used one is a range. *)
GptIsValid ==
  /\ Described
  /\ \A i \in DOMAIN image.gpt.entries :
       EntryReadable(i) /\ (image.gpt.entries[i].used => EntryIsRange(image.gpt.entries[i]))

GptPartition(i) ==
  [number |-> i, start |-> image.gpt.entries[i].first,
   count |-> image.gpt.entries[i].last - image.gpt.entries[i].first + 1]

ParseGpt ==
  FlattenSeq([i \in DOMAIN image.gpt.entries |-> Pushed(image.gpt.entries[i].used, GptPartition(i))])

-----------------------------------------------------------------------------
(* The signature 55 AA alone is not enough, since the boot sectors of file *)
(* systems carry it too.                                                   *)
HasPartition ==
  \E i \in Slots : image.mbr[i].type \in KnownTypes /\ image.mbr[i].start # 0 /\ image.mbr[i].count # 0

(* PartitionTableDetector::detect *)
DetectTable ==
  CASE image.efi -> "gpt"
    [] ~image.efi /\ image.signature /\ HasPartition -> "mbr"
    [] OTHER -> "unknown"

(* PartitionTableDetector::parse succeeds. *)
TableIsValid ==
  CanRead(SectorBytes, SectorBytes) /\ (DetectTable = "gpt" => GptIsValid)

ParseTable ==
  CASE DetectTable = "mbr" -> ParseMbr
    [] DetectTable = "gpt" -> ParseGpt
    [] OTHER -> << >>
=============================================================================
