------------------------ MODULE MCEvidenceNavigation ------------------------
(***************************************************************************)
(* Tree and list over every list of up to three entries whose ids may      *)
(* repeat, and over every list of four entries with the ids 1 to 4 whose   *)
(* last one is a file: all parent graphs with self parents, cycles and     *)
(* files as parents, and a missing parent for that file.                   *)
(***************************************************************************)
EXTENDS EvidenceNavigation

Listed(n) == [1..n -> [id : 1..2, parent : {NoParent} \cup 1..2,
                       directory : BOOLEAN, wanted : {TRUE}]]
Filtered == [1..2 -> [id : 1..2, parent : 1..2, directory : BOOLEAN, wanted : BOOLEAN]]
Numbered == {[k \in 1..4 |-> [id |-> k, parent |-> p[k], directory |-> d[k], wanted |-> TRUE]] :
               p \in {f \in [1..4 -> {NoParent} \cup 1..4] : \A k \in 1..3 : f[k] # NoParent},
               d \in {f \in [1..4 -> BOOLEAN] : ~f[4]}}
MCHierarchies == Listed(1) \cup Filtered \cup Listed(3) \cup Numbered
=============================================================================
