--------------------------- MODULE MCRecoveryWork ---------------------------
(***************************************************************************)
(* Three sessions, two of the CLI and one of the TUI, that start with no   *)
(* counter, with a fresh one, or with one that is about to overflow.       *)
(***************************************************************************)
EXTENDS RecoveryWork, TLC

CONSTANTS c1, c2, t1

MCInterface == (c1 :> "cli") @@ (c2 :> "cli") @@ (t1 :> "tui")
MCInitialCounters == {Absent, 1}
Symmetry == Permutations({c1, c2})
=============================================================================
