------------------------------ MODULE MCExFat ------------------------------
(***************************************************************************)
(* Small exFAT volumes: four data clusters (2 to 5, of which the program   *)
(* takes 5 for out of range), every table over the entries that matter,    *)
(* and records that are live, deleted, nested, cyclic, too long for their  *)
(* cluster or without a stream.                                            *)
(***************************************************************************)
EXTENDS ExFatContent

Bare(type) == [type |-> type, live |-> TRUE, secondary |-> 0, directory |-> FALSE,
               cluster |-> 0, size |-> 0, length |-> 0, units |-> << >>]
End == Bare("end")
Primary(live, count, dir, length) ==
  [Bare("file") EXCEPT !.live = live, !.secondary = count, !.directory = dir, !.length = length]
Stm(live, c, size, length) ==
  [Bare("stream") EXCEPT !.live = live, !.cluster = c, !.size = size, !.length = length]
Nam(live, units) == [Bare("name") EXCEPT !.live = live, !.units = units]
Label(units) == [Bare("label") EXCEPT !.units = units, !.length = 1]
System(c) == [Bare("system") EXCEPT !.cluster = c]

File(live, name, c, size) ==
  <<Primary(live, 2, FALSE, 0), Stm(live, c, size, Len(name)), Nam(live, name)>>
Dir(live, name, c) ==
  <<Primary(live, 2, TRUE, 0), Stm(live, c, 0, Len(name)), Nam(live, name)>>
LongFile(name, c) ==
  <<Primary(TRUE, 3, FALSE, 0), Stm(TRUE, c, 1, 3), Nam(TRUE, SubSeq(name, 1, 2)),
    Nam(TRUE, SubSeq(name, 3, Len(name)))>>

Roots == {<<Label(<<"v">>), System(4)>> \o Dir(TRUE, <<"d">>, 3) \o File(TRUE, <<"a", "x">>, 4, 2),
          LongFile(<<"l", "x", "y", "z">>, 3) \o Dir(FALSE, <<"d">>, 4)
            \o <<End>> \o File(TRUE, <<"q">>, 3, 1)}
Seconds == {File(FALSE, <<"a", "x">>, 4, 3) \o Dir(TRUE, <<"e">>, 5),
            Dir(FALSE, <<"r">>, 2) \o <<Primary(FALSE, 9, FALSE, 2), Bare("free")>> \o Dir(TRUE, <<"d">>, 4),
            <<Primary(TRUE, 4, FALSE, 0), Nam(TRUE, <<"p">>)>> \o File(TRUE, <<"s">>, 3, 2)}
Thirds == {Dir(TRUE, <<"s">>, 3) \o File(TRUE, <<"a">>, 5, 2) \o <<Primary(TRUE, 2, FALSE, 1)>>,
           <<Stm(TRUE, 3, 1, 1)>> \o File(TRUE, <<"b">>, 2, 9)}
Last5 == {[c \in {5} |-> Dir(TRUE, <<"g">>, 3)], << >>}

Join(f, g) == [c \in DOMAIN f \cup DOMAIN g |-> IF c \in DOMAIN f THEN f[c] ELSE g[c]]

MCVolumes ==
  {[root |-> root, fat |-> t,
    slots |-> Join([c \in 2..4 |-> CASE c = 2 -> r [] c = 3 -> s [] c = 4 -> u], last)] :
      root \in {2, 5}, t \in [2..4 -> {0, 3, 4, 5, 6, 8}],
      r \in Roots, s \in Seconds, u \in Thirds, last \in Last5}
=============================================================================
