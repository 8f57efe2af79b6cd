----------------------------- MODULE FatChains -----------------------------
(***************************************************************************)
(* The file allocation table and the chains it describes: walk_chain and   *)
(* read_fat_entry, which the readers of FAT32 and exFAT have in common.    *)
(***************************************************************************)
EXTENDS Integers, Sequences, FiniteSets

CONSTANTS Total,        \* total_clusters or cluster_count: the data clusters
          EndOfChain    \* FAT_END_OF_CHAIN

ASSUME ChainAssumption ==
  Total \in Nat /\ EndOfChain \in Nat /\ EndOfChain > Total + 2

BadCluster == EndOfChain - 1

VARIABLES volume,    \* its field fat is the table
          walk       \* the running call of walk_chain

(* The range check of the reader and of the directory walk: data clusters  *)
(* are numbered from two, so it leaves out the last one, Total + 1.        *)
InRange(c) == c \in 2..Total

(* Mutant: free entries are not recognised as the end of a chain. *)
IsEnd_NotFree(e) == e >= EndOfChain \/ e = BadCluster

(* A FAT entry at which walk_chain stops. *)
IsEnd(e) == e >= EndOfChain \/ e = BadCluster \/ e < 2

Walk == [for : {"nothing", "directory", "file"}, clusters : Seq(Nat), max : Nat]
NoWalk == [for |-> "nothing", clusters |-> << >>, max |-> 0]

BeginWalk(for, start, max) == walk' = [for |-> for, clusters |-> <<start>>, max |-> max]

LastCluster == walk.clusters[Len(walk.clusters)]

(* Mutant: loops are not noticed. *)
Enough_NoLoops == Len(walk.clusters) >= walk.max

(* The chain is long enough, or its last cluster closes a loop: it is in   *)
(* the chain twice.                                                        *)
Enough == \/ Len(walk.clusters) >= walk.max
          \/ \E i \in 1..(Len(walk.clusters) - 1) : walk.clusters[i] = LastCluster

(* read_fat_entry refuses a cluster outside the range. *)
Broken == ~Enough /\ ~InRange(LastCluster)

Complete == Enough \/ (InRange(LastCluster) /\ IsEnd(volume.fat[LastCluster]))

FollowChain ==
  /\ walk.for # "nothing" /\ ~Enough
  /\ InRange(LastCluster) /\ ~IsEnd(volume.fat[LastCluster])
  /\ walk' = [walk EXCEPT !.clusters = Append(@, volume.fat[LastCluster])]

(* e.chain is what walk_chain promises of the chain at e.cluster.          *)
FollowsFat(e) ==
  LET n == Len(e.chain) IN
    n > 0 => /\ e.chain[1] = e.cluster
             /\ \A i \in 1..(n - 1) : /\ InRange(e.chain[i])
                                      /\ e.chain[i + 1] = volume.fat[e.chain[i]]
                                      /\ e.chain[i + 1] >= 2
             /\ \A i, j \in 1..(n - 1) : e.chain[i] = e.chain[j] => i = j
             /\ e.type = "file" => n <= e.size
=============================================================================
