-------------------------- MODULE MCRecoveryBatch --------------------------
(***************************************************************************)
(* RecoveryBatch on one partition with up to three objects and on two      *)
(* partitions with up to two objects in all, with file names that collide  *)
(* or look like the product of a collision, over a fresh directory or one  *)
(* that holds earlier work.                                                *)
(***************************************************************************)
EXTENDS RecoveryBatch

N(base, ids) == [base |-> base, ids |-> ids]
E(id, name, st) == [id |-> id, name |-> name, status |-> st, directory |-> FALSE]
D(id) == [id |-> id, name |-> N("a", << >>), status |-> "Deleted", directory |-> TRUE]

Small(i) == {E(i, N("a", << >>), "Deleted"), E(i, N("a", <<2>>), "Deleted"), D(i)}
Whole(i) == Small(i) \cup {E(i, N("b", << >>), "Normal"), E(i, N("a", << >>), "Inconsistent")}

OnePartition == {<<x>> : x \in {<<a, b, c>> : a \in Whole(1), b \in Whole(2), c \in Small(3)}}
TwoPartitions == {<< <<a>>, <<b>> >> : a, b \in Whole(1) \cup Whole(2)}
                   \cup {<< << >>, <<a>> >> : a \in Whole(1)}

MCInspections ==
  [partitions : {<< >>, <<1>>}, models : OnePartition]
    \cup [partitions : {<<1, 3>>}, models : TwoPartitions]
    \* a partition whose offset overflows was never investigated
    \cup [partitions : {<<8, 2>>}, models : {<< << >>, <<E(1, N("a", << >>), "Deleted")>> >>}]

MCRequests == {<<1, 2>>, <<2, 1, 3>>, <<2, 2>>, <<9, 1>>}
MCEarlierFiles == {{}, {N("a", << >>), N("a", <<2>>)}}
=============================================================================
