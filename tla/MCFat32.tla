------------------------------ MODULE MCFat32 ------------------------------
(***************************************************************************)
(* Small FAT32 volumes: four data clusters (2 to 5, of which the program   *)
(* takes 5 for out of range), every table over the entries that matter,    *)
(* and contents with nested, cyclic, erased, recycled and unreadable       *)
(* directories.                                                            *)
(***************************************************************************)
EXTENDS Fat32Content

Name(a, b) == <<a, b>>
Leafy(type, name, c, size) ==
  [type |-> type, name |-> name, cluster |-> c, size |-> size, match |-> FALSE]
File(name, c, size) == Leafy("file", name, c, size)
Dir(name, c) == Leafy("directory", name, c, 0)
Long(name) == Leafy("long", name, 0, 0)
End == Leafy("end", << >>, 0, 0)
Own(c) == Dir(<<Dot>>, c)
Up(c) == Dir(<<Dot, Dot>>, c)

Roots == {<<Leafy("label", Name("v", "v"), 0, 0), Dir(Name("d", "x"), 3), File(Name("a", "x"), 4, 2)>>,
          <<Long(Name("l", "x")), File(Name(Erased, "x"), 3, 1), Dir(Name("d", "x"), 4),
            Dir(Name("e", "x"), 9), File(Name("#", "#"), 3, 1), File(Name("z", "x"), 0, 0)>>}
Seconds == {<<Own(3), Up(0), Dir(Name("d", "x"), 4), File(Name("a", "x"), 4, 3), End, Dir(Name("e", "x"), 5)>>,
            <<Leafy("file", <<Erased>>, 0, 0), Dir(Name("r", "x"), 2), Dir(Name("d", "x"), 4)>>,
            <<File(Name("p", "x"), 3, 9)>>}
Thirds == {<<Own(4), Up(3), Dir(Name("s", "x"), 3), File(Name("a", "x"), 5, 2)>>,
           <<File(Name("q", "x"), 2, 1)>>}

Table == [2..4 -> {0, 3, 4, 5, 6, 8}]
Slots3(r, s, t) == [c \in 2..4 |-> CASE c = 2 -> r [] c = 3 -> s [] c = 4 -> t]
Lasts == {[c \in {5} |-> <<Own(5), Up(3)>>], << >>}
Join(f, g) == [c \in DOMAIN f \cup DOMAIN g |-> IF c \in DOMAIN f THEN f[c] ELSE g[c]]

MCVolumes ==
  {[root |-> 2, fat |-> t, slots |-> Join(Slots3(r, s, u), last)] :
      t \in Table, r \in Roots, s \in Seconds, u \in Thirds, last \in Lasts}
=============================================================================
