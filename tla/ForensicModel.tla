--------------------------- MODULE ForensicModel ---------------------------
(***************************************************************************)
(* The data of the unified forensic model that every component exchanges:  *)
(* optional u64 values and checked arithmetic, physical regions, logical   *)
(* content segments and forensic entries (forensic/model.rs).              *)
(*                                                                         *)
(* A byte is a token: the image byte at absolute offset o is o itself, a   *)
(* zero produced by a sparse segment is Zero, and the bytes an inline      *)
(* segment carries are integers below Zero.                                *)
(***************************************************************************)
EXTENDS Integers, Sequences

CONSTANT U64Max      \* u64::MAX; a small number in the model-checked instances

ASSUME U64Assumption == U64Max \in Nat \ {0}

None == -1           \* Option::None; every Some(v) is a u64
U64 == 0..U64Max
OptU64 == U64 \cup {None}

CheckedAdd(a, b) == IF a + b <= U64Max THEN a + b ELSE None
CheckedMul(a, b) == IF a * b <= U64Max THEN a * b ELSE None

Zero == -1
ImageByte == Nat
InlineByte == {b \in Int : b < Zero}
Byte == Int

Region == [sectorStart : OptU64, sectorEnd : OptU64, offset : OptU64]

(* Sectors of an inclusive range; the sum end - start + 1 wraps in the     *)
(* release build for the full u64 range.                                   *)
SectorCount(r) ==
  IF r.sectorStart # None /\ r.sectorEnd # None /\ r.sectorEnd >= r.sectorStart
    THEN (r.sectorEnd - r.sectorStart + 1) % (U64Max + 1)
    ELSE None

Segment == [kind : {"physical"}, clusters : U64, region : Region]
             \cup [kind : {"sparse"}, clusters : U64]
             \cup [kind : {"inline"}, bytes : Seq(InlineByte)]

(* Bytes a segment stands for: exact for inline content, whole clusters    *)
(* for the rest.                                                           *)
ByteCount(s, bytesPerCluster) ==
  IF s.kind = "inline" THEN Len(s.bytes)
                       ELSE CheckedMul(s.clusters, bytesPerCluster)

Entry == [realSize : OptU64, bytesPerCluster : U64,
          segments : Seq(Segment), regions : Seq(Region)]
=============================================================================
