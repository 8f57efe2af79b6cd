---------------------------- MODULE Fat32Volume ----------------------------
(***************************************************************************)
(* What a FAT32 volume holds, as far as the investigation looks at it: the *)
(* allocation table, the slots of the clusters that can be read, and what  *)
(* a slot says.                                                            *)
(***************************************************************************)
EXTENDS FatChains

CONSTANTS Symbols,      \* the characters of names
          Binary,       \* control characters and white space
          Dot,          \* "."
          Erased,       \* 0xE5, the first byte of a deleted slot
          Placeholder,  \* "?"
          Volumes       \* the volumes that may be given

(* A slot of 32 bytes.  A "long" slot carries a part of a long name; size  *)
(* counts clusters, rounded up; match says whether byte 13 of the slot is  *)
(* the checksum of its short name.                                         *)
Slot == [type : {"end", "long", "label", "directory", "file"}, name : Seq(Symbols),
         cluster : Nat, size : Nat, match : BOOLEAN]

(* A root and a table; slots has only the clusters that the device reads.  *)
IsVolume(v) == /\ v.root \in Nat \ {0, 1}
               /\ v.fat \in [2..Total -> Nat]
               /\ DOMAIN v.slots \subseteq Nat
               /\ \A c \in DOMAIN v.slots : v.slots[c] \in Seq(Slot)

ASSUME VolumeAssumption ==
  /\ {Dot, Erased, Placeholder} \subseteq Symbols
  /\ Erased \notin {Dot, Placeholder}
  /\ \A v \in Volumes : IsVolume(v)

Readable(c) == c \in DOMAIN volume.slots

IsDeleted(s) == s.name # << >> /\ s.name[1] = Erased

(* short_name_with_placeholder *)
ShortName(s) == IF IsDeleted(s) THEN <<Placeholder>> \o Tail(s.name) ELSE s.name

(* is_plausible_leaf_name: at least seven of ten characters are printable. *)
Plausible(name) ==
  /\ name # << >>
  /\ 10 * Cardinality({i \in DOMAIN name : name[i] \notin Binary}) >= 7 * Len(name)

(* has_directory_markers: "." or "..", erased or not, in the first slots.  *)
HasMarkers(slots) ==
  \E i \in 1..3 \cap DOMAIN slots :
    /\ slots[i].name \in {<<Dot>>, <<Dot, Dot>>, <<Erased>>, <<Erased, Dot>>}
    /\ \A j \in 1..i : slots[j].type # "end"
=============================================================================
