------------------------------- MODULE MCNtfs -------------------------------
(***************************************************************************)
(* Small NTFS volumes: bytes of four values and words of two bytes; two    *)
(* records to a cluster; a table in up to three pieces, before or behind   *)
(* each other, with a sparse piece, too short, outside the image or not    *)
(* readable; records with several names or data attributes, damaged or     *)
(* with damage behind their end mark.                                      *)
(***************************************************************************)
EXTENDS NtfsInvestigation

E(count, delta) == [count |-> count, delta |-> delta]
ListOf(elements) == [elements |-> elements, cut |-> FALSE]

NameOf(name, parent) ==
  [type |-> "name", valid |-> TRUE, name |-> name, parent |-> parent,
   directory |-> FALSE, system |-> FALSE, size |-> 5]
DirName(name, parent) == [NameOf(name, parent) EXCEPT !.directory = TRUE]
DataIn(list, size) == [type |-> "data", resident |-> FALSE, size |-> size, list |-> list]
Resident(size) == [DataIn(ListOf(<< >>), size) EXCEPT !.resident = TRUE]
Index == [type |-> "index", valid |-> TRUE]
Other == [type |-> "other"]
End == [type |-> "end"]
Broken == [type |-> "broken"]
RecordOf(inUse, attributes) == [kind |-> "record", inUse |-> inUse, attributes |-> attributes]

(* Where the table lies. *)
TableLists ==
  {ListOf(<<E(<<3>>, <<1>>)>>),                                \* 1 2 3
   ListOf(<<E(<<1>>, <<1>>), E(<<1, 0>>, <<2, 0>>), E(<<1>>, <<3>>)>>),  \* 1 3 2
   ListOf(<<E(<<1>>, <<1>>), E(<<1>>, << >>), E(<<1>>, <<1>>)>>),        \* 1 - 2
   ListOf(<<E(<<1>>, <<2, 0>>), E(<<1>>, <<3, 3>>), E(<<2>>, << >>)>>),  \* 2 1 -
   ListOf(<<E(<<2>>, <<1>>), E(<<1>>, <<1, 1>>)>>),            \* 1 2 and one outside
   ListOf(<<E(<<1>>, <<1>>), E(<<3>>, <<1>>)>>),               \* 1 2 3 and one outside
   [elements |-> <<E(<<3>>, <<1>>)>>, cut |-> TRUE]}

(* What a file holds. *)
FileLists ==
  {ListOf(<<E(<<1>>, <<3, 0>>), E(<<2>>, << >>), E(<<1>>, <<2>>), E(<<2>>, <<3, 0>>)>>),
   ListOf(<<E(<<1>>, <<1>>), E(<<1, 1>>, <<2, 1>>)>>),         \* sectors beyond a word
   ListOf(<<E(<<1>>, <<1>>), E(<<3, 3>>, << >>)>>),            \* clusters beyond a word
   ListOf(<<E(<<1>>, <<2, 0>>), E(<<1>>, <<1, 3>>)>>),         \* below zero
   ListOf(<<E(<<1>>, <<3, 1>>), E(<<1>>, <<1>>)>>),            \* over a word
   ListOf(<<E(<<1>>, <<1, 0, 0>>)>>),                          \* wider than a word
   ListOf(<<E(<<0>>, <<1>>)>>), ListOf(<<E(<< >>, <<1>>)>>)}

Files ==
  {RecordOf(used, <<Other, NameOf("f", 3), DataIn(list, 7), End>>) : used \in BOOLEAN, list \in FileLists}
  \cup {RecordOf(TRUE, <<NameOf("f", 3), NameOf("F~1", 3), DataIn(list, 7), Resident(2)>>) :
          list \in FileLists}
  \cup {RecordOf(FALSE, <<NameOf("g", 7), Resident(1), End, Broken>>),
        RecordOf(TRUE, <<NameOf("g", 2), Broken, End>>),
        RecordOf(TRUE, <<[NameOf("g", 2) EXCEPT !.valid = FALSE]>>),
        RecordOf(TRUE, <<Other, End, NameOf("g", 2)>>), Damaged, Zero}

Directory == RecordOf(TRUE, <<DirName("d", 4), Index, End>>)
Loop == RecordOf(TRUE, <<[DirName("l", 3) EXCEPT !.system = TRUE], Index>>)

MCVolumes ==
  {[mft |-> where,
    clusters |-> [c \in 1..3 |->
      CASE c = 1 -> <<RecordOf(TRUE, <<NameOf("$MFT", 2), DataIn(list, size), End>>), Zero>>
        [] c = 2 -> <<RecordOf(TRUE, <<DirName(".", 2)>>), Directory>>
        [] c = 3 -> <<file, last>>]] :
      where \in {1, 4}, list \in TableLists, size \in {0, 3, 8, 10, 12},
      file \in Files, last \in {Loop, Damaged}}
  \cup {[mft |-> 1, clusters |-> [c \in 1..1 |-> <<slot, Zero>>]] :
          slot \in {Zero, Damaged, RecordOf(TRUE, <<Resident(4)>>), RecordOf(TRUE, <<End>>)}}
=============================================================================
