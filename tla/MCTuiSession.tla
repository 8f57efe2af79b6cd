---------------------------- MODULE MCTuiSession ----------------------------
(***************************************************************************)
(* TuiSession with two images and one whose file system is not supported:  *)
(* A holds two objects of both filters, and the one that comes first sorts *)
(* behind the other; the object of B has two names, so two rows.           *)
(***************************************************************************)
EXTENDS TuiSession, TLC

CONSTANTS A, B, U

Object(id, name) == [id |-> id, name |-> name]

Of(normal, deleted, all) ==
  ("Normal" :> normal) @@ ("Deleted" :> deleted) @@ ("All" :> all)
MCCandidates ==
  (A :> Of(<<Object(1, 2)>>, <<Object(2, 1)>>, <<Object(1, 2), Object(2, 1)>>))
    @@ (B :> Of(<< >>, <<Object(1, 1), Object(1, 2)>>, <<Object(1, 1), Object(1, 2)>>))
    @@ (U :> Of(<< >>, << >>, << >>))
=============================================================================
