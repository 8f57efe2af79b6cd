---------------------------- MODULE ExFatVolume ----------------------------
(***************************************************************************)
(* What an exFAT volume holds, as far as the investigation looks at it,    *)
(* and how the slots of a directory cluster are put together to records    *)
(* (filesystem/exfat/directory.rs).                                        *)
(***************************************************************************)
EXTENDS FatChains, SequencesExt

CONSTANTS Symbols,      \* the characters of names
          Placeholder,  \* "?"
          NameUnits,    \* NAME_UNITS_PER_ENTRY
          Volumes       \* the volumes that may be given

(* A slot of 32 bytes: live is its in-use bit; secondary and directory are *)
(* fields of a file entry, cluster and size (in clusters, rounded up) of a *)
(* stream extension, length of both and of a label.  A name entry has room *)
(* for so many units.                                                      *)
Slot ==
  {s \in [type : {"end", "free", "file", "stream", "name", "label", "system"},
          live : BOOLEAN, secondary : Nat, directory : BOOLEAN,
          cluster : Nat, size : Nat, length : Nat, units : Seq(Symbols)] :
     s.type = "name" => Len(s.units) <= NameUnits}

IsVolume(v) == /\ v.root \in Nat \ {0, 1}
               /\ v.fat \in [2..Total -> Nat]
               /\ DOMAIN v.slots \subseteq Nat
               /\ \A c \in DOMAIN v.slots : v.slots[c] \in Seq(Slot)

(* A volume without clusters is refused. *)
ASSUME VolumeAssumption ==
  /\ Total # 0
  /\ Placeholder \in Symbols
  /\ NameUnits \in Nat \ {0}
  /\ \A v \in Volumes : IsVolume(v)

Readable(c) == c \in DOMAIN volume.slots

(* Mutant: a record that ends with the cluster is cut off. *)
Secondaries_Short(slots, i) ==
  IF i + slots[i].secondary < Len(slots) THEN SubSeq(slots, i + 1, i + slots[i].secondary)
                                         ELSE << >>

(* The slots a record spans behind its file entry; none at all if the      *)
(* count reaches over the end of the cluster.                              *)
Secondaries(slots, i) ==
  IF i + slots[i].secondary <= Len(slots) THEN SubSeq(slots, i + 1, i + slots[i].secondary)
                                          ELSE << >>

IsStream(s) == s.type = "stream"
IsName(s) == s.type = "name"

(* The last stream extension counts; without one there is no content and   *)
(* the file entry's own name length.                                       *)
Stream(slots, i) ==
  LET secondaries == Secondaries(slots, i)
      k == SelectLastInSeq(secondaries, IsStream)
  IN  IF k = 0 THEN [cluster |-> 0, size |-> 0, length |-> 0] ELSE secondaries[k]

(* The units of the name entries, wherever they stand among the others.    *)
Units(slots, i) ==
  LET UnitsOf(s) == IF IsName(s) THEN s.units ELSE << >>
      secondaries == Secondaries(slots, i)
  IN  FlattenSeq([k \in DOMAIN secondaries |-> UnitsOf(secondaries[k])])

AtMost(units, n) == SubSeq(units, 1, IF n < Len(units) THEN n ELSE Len(units))

(* A length of zero in the stream gives way to the one of the file entry;  *)
(* never more units are taken than the secondary entries can hold.         *)
NameLength(slots, i) ==
  LET recorded == IF Stream(slots, i).length # 0 THEN Stream(slots, i).length
                                                 ELSE slots[i].length
      capacity == slots[i].secondary * NameUnits
  IN  IF recorded < capacity THEN recorded ELSE capacity

RecordName(slots, i) ==
  LET name == AtMost(Units(slots, i), NameLength(slots, i))
  IN  IF name = << >> /\ ~slots[i].live THEN <<Placeholder>> ELSE name

(* parse_directory_entries makes nothing of a slot that is free, whose     *)
(* primary entry other than a file's is not in use, or that is a secondary *)
(* entry by itself.                                                        *)
IsPrimary(s) == s.type = "file" \/ (s.type \in {"label", "system"} /\ s.live)
=============================================================================
