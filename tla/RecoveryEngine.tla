--------------------------- MODULE RecoveryEngine ---------------------------
(***************************************************************************)
(* PhysicalRecoveryEngine::recover (recovery/engine.rs), one step per      *)
(* iteration of its loops.  A content layout is authoritative: its         *)
(* segments are materialised in order and the last one is truncated to the *)
(* real size.  Without a layout the physical regions are read in order,    *)
(* each only as far as bytes are still missing.                            *)
(***************************************************************************)
EXTENDS ForensicModel, SequencesExt

CONSTANTS Entries,            \* forensic entries that may be submitted
          ImageSize,          \* reader.size()
          PartitionOffset,    \* where the partition starts in the image
          BytesPerSector      \* 512 in create_engine

ASSUME EngineAssumption ==
  /\ ImageSize \in U64 /\ PartitionOffset \in U64 /\ BytesPerSector \in U64
  /\ Entries \subseteq Entry

VARIABLES entry,     \* the object being recovered
          buffer,    \* recovered_data of the running loop
          next,      \* index of the segment or region to read next
          result     \* the RecoveryResult, or the Err returned

engineVars == <<entry, buffer, next, result>>

Pending == [status |-> "pending", data |-> << >>]

-----------------------------------------------------------------------------
RegionSize(r) ==
  IF SectorCount(r) = None THEN None
                           ELSE CheckedMul(SectorCount(r), BytesPerSector)

SectorOffset(sector) ==
  IF CheckedMul(sector, BytesPerSector) = None THEN None
    ELSE CheckedAdd(PartitionOffset, CheckedMul(sector, BytesPerSector))

(* An explicit byte offset has priority over the sector range. *)
RegionOffset(r) ==
  IF r.offset # None THEN r.offset
  ELSE IF r.sectorStart # None THEN SectorOffset(r.sectorStart)
  ELSE None

(* The checks of read_region for the first n bytes of a region. *)
Readable(r, n) ==
  /\ RegionOffset(r) # None
  /\ RegionSize(r) # None
  /\ n <= RegionSize(r)
  /\ CheckedAdd(RegionOffset(r), n) # None
  /\ RegionOffset(r) + n <= ImageSize

ReadRegion(r, n) == [i \in 1..n |-> RegionOffset(r) + (i - 1)]

(* Length of a segment, None where read_content_segment returns Err. *)
SegmentLength(e, s) ==
  IF s.kind # "inline" /\ e.bytesPerCluster = 0
    THEN None
    ELSE ByteCount(s, e.bytesPerCluster)

SegmentReadable(e, s) ==
  /\ SegmentLength(e, s) # None
  /\ s.kind = "physical" => Readable(s.region, SegmentLength(e, s))

ReadContentSegment(e, s) ==
  IF s.kind = "inline" THEN s.bytes
  ELSE IF s.kind = "sparse" THEN [i \in 1..SegmentLength(e, s) |-> Zero]
  ELSE ReadRegion(s.region, SegmentLength(e, s))

Truncate(bytes, n) == IF Len(bytes) > n THEN SubSeq(bytes, 1, n) ELSE bytes

-----------------------------------------------------------------------------
TargetSize == IF entry.realSize = None THEN U64Max ELSE entry.realSize

Logical == entry.segments # << >>
Parts == IF Logical THEN Len(entry.segments) ELSE Len(entry.regions)

(* The loop test of each path: the logical one never stops early when the  *)
(* size is unknown.                                                        *)
Enough == /\ Logical => TargetSize # U64Max
          /\ Len(buffer) >= TargetSize

Looping == /\ result = Pending
           /\ TargetSize # 0
           /\ next <= Parts
           /\ ~Enough

EngineInit == /\ entry \in Entries
              /\ buffer = << >>
              /\ next = 1
              /\ result = Pending

Return(status, data) ==
  /\ result' = [status |-> status, data |-> data]
  /\ UNCHANGED <<entry, buffer, next>>

RecoverEmpty ==
  /\ result = Pending
  /\ TargetSize = 0
  /\ Return("recovered", << >>)

(* Mutant: segments are put together last first. *)
ReadSegment_Reversed ==
  /\ Looping /\ Logical
  /\ LET s == entry.segments[next] IN
       /\ SegmentReadable(entry, s)
       /\ buffer' = (IF TargetSize = U64Max
                       THEN ReadContentSegment(entry, s)
                       ELSE Truncate(ReadContentSegment(entry, s), TargetSize - Len(buffer)))
                    \o buffer
  /\ next' = next + 1
  /\ UNCHANGED <<entry, result>>

ReadSegment ==
  /\ Looping /\ Logical
  /\ LET s == entry.segments[next] IN
       /\ SegmentReadable(entry, s)
       /\ buffer' = buffer \o
            (IF TargetSize = U64Max
               THEN ReadContentSegment(entry, s)
               ELSE Truncate(ReadContentSegment(entry, s), TargetSize - Len(buffer)))
  /\ next' = next + 1
  /\ UNCHANGED <<entry, result>>

(* Mutant: what was read before the error is handed out. *)
SegmentError_LeaksBuffer ==
  /\ Looping /\ Logical
  /\ ~SegmentReadable(entry, entry.segments[next])
  /\ Return("error", buffer)

(* The whole segment must be readable, even where truncation would drop    *)
(* the unreadable tail.                                                    *)
SegmentError ==
  /\ Looping /\ Logical
  /\ ~SegmentReadable(entry, entry.segments[next])
  /\ Return("error", << >>)

BytesToRead(r) ==
  IF RegionSize(r) <= TargetSize - Len(buffer) THEN RegionSize(r)
                                               ELSE TargetSize - Len(buffer)

ReadLegacyRegion ==
  /\ Looping /\ ~Logical
  /\ LET r == entry.regions[next] IN
       /\ RegionSize(r) # None
       /\ Readable(r, BytesToRead(r))
       /\ buffer' = buffer \o ReadRegion(r, BytesToRead(r))
  /\ next' = next + 1
  /\ UNCHANGED <<entry, result>>

LegacyRegionError ==
  /\ Looping /\ ~Logical
  /\ LET r == entry.regions[next] IN
       RegionSize(r) # None => ~Readable(r, BytesToRead(r))
  /\ Return("error", << >>)

(* Readable::read_at itself may fail; it is not called for empty reads. *)
DeviceError ==
  /\ Looping
  /\ IF Logical
       THEN LET s == entry.segments[next] IN
              /\ s.kind = "physical"
              /\ SegmentReadable(entry, s)
              /\ SegmentLength(entry, s) > 0
       ELSE LET r == entry.regions[next] IN
              /\ RegionSize(r) # None
              /\ Readable(r, BytesToRead(r))
              /\ BytesToRead(r) > 0
  /\ Return("error", << >>)

Finished == /\ result = Pending
            /\ TargetSize # 0
            /\ next > Parts \/ Enough

(* Too few bytes, or no region to read from at all. *)
FinishShort ==
  /\ Finished
  /\ \/ TargetSize # U64Max /\ Len(buffer) < TargetSize
     \/ Parts = 0
  /\ Return("failed", << >>)

FinishWhole ==
  /\ Finished
  /\ Parts # 0
  /\ TargetSize = U64Max \/ Len(buffer) >= TargetSize
  /\ Return("recovered", buffer)

EngineNext == \/ RecoverEmpty
              \/ ReadSegment
              \/ SegmentError
              \/ ReadLegacyRegion
              \/ LegacyRegionError
              \/ DeviceError
              \/ FinishShort
              \/ FinishWhole

EngineSpec == EngineInit /\ [][EngineNext]_engineVars

-----------------------------------------------------------------------------
EngineTypeOK ==
  /\ entry \in Entries
  /\ buffer \in Seq(Byte)
  /\ TargetSize # U64Max => Len(buffer) <= TargetSize
  /\ next \in 1..(Parts + 1)
  /\ result \in [status : {"pending", "recovered", "failed", "error"},
                 data : Seq(Byte)]

(* The evidence of an entry: a byte of the image that lies in one of the   *)
(* regions the entry points at, a byte of an inline segment, or a zero     *)
(* where the layout is sparse.                                             *)
InRegion(r, b) ==
  /\ RegionOffset(r) # None /\ RegionSize(r) # None
  /\ RegionOffset(r) <= b /\ b < RegionOffset(r) + RegionSize(r)
  /\ b < ImageSize

EvidenceOf(s, b) ==
  \/ s.kind = "physical" /\ b >= 0 /\ InRegion(s.region, b)
  \/ s.kind = "sparse" /\ b = Zero
  \/ s.kind = "inline" /\ \E i \in DOMAIN s.bytes : s.bytes[i] = b

OwnByte(e, b) ==
  IF e.segments # << >>
    THEN \E k \in DOMAIN e.segments : EvidenceOf(e.segments[k], b)
    ELSE \E k \in DOMAIN e.regions : b >= 0 /\ InRegion(e.regions[k], b)

(* Nothing outside the object ever reaches the caller: docs/recovery.md    *)
(* promises that every read is checked against the region and the image.   *)
OnlyOwnEvidence == \A i \in DOMAIN buffer : OwnByte(entry, buffer[i])

(* A success carries exactly real_size bytes, whatever mixture of inline,  *)
(* sparse and physical segments it was assembled from: never a partial     *)
(* success and never cluster slack.                                        *)
NeverPartialNorSlack ==
  result.status = "recovered" /\ entry.realSize \notin {None, U64Max}
    => Len(result.data) = entry.realSize

(* The first n parts of an object, each in full, one behind the other. *)
Part(e, k) ==
  IF e.segments # << >> THEN ReadContentSegment(e, e.segments[k])
                        ELSE ReadRegion(e.regions[k], RegionSize(e.regions[k]))
Assembled(e, n) == FlattenSeq([k \in 1..n |-> Part(e, k)])

(* A successful recovery returns the content byte for byte, in the order   *)
(* of the parts: of all of them, or of as many as reach the size, and cut  *)
(* there.  Without a size a layout is returned in full, and regions up to  *)
(* the number of bytes a word can count.                                   *)
ExactReconstruction ==
  result.status = "recovered" =>
    LET content == Assembled(entry, next - 1) IN
      /\ result.data = IF Logical /\ TargetSize = U64Max THEN content
                                                         ELSE Truncate(content, TargetSize)
      /\ next > Parts \/ Len(result.data) = TargetSize

(* The engine implements the promise made to its callers. *)
Promise == INSTANCE RecoveryPromise
KeepsPromise == Promise!Spec
=============================================================================
