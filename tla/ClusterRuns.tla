---------------------------- MODULE ClusterRuns ----------------------------
(***************************************************************************)
(* From a chain of clusters to the content layout of the forensic model:   *)
(* neighbouring clusters become one run, and a run becomes a region of     *)
(* sectors.  FAT32 and exFAT have the same code for it.                    *)
(***************************************************************************)
EXTENDS Integers, SequencesExt

CONSTANTS FirstDataSector, SectorsPerCluster

ASSUME GeometryAssumption ==
  FirstDataSector \in Nat /\ SectorsPerCluster \in Nat \ {0}

SectorOfCluster(c) == FirstDataSector + (c - 2) * SectorsPerCluster

RegionForRun(first, last) ==
  [clusterStart |-> first, clusterEnd |-> last,
   sectorStart |-> SectorOfCluster(first),
   sectorEnd |-> SectorOfCluster(last) + SectorsPerCluster - 1]

NextLogical(segments) ==
  IF segments = << >> THEN 0 ELSE Last(segments).logicalStart + Last(segments).count

(* Mutant: a run goes on over a gap. *)
Continues_Upward(segments, c) == segments # << >> /\ c > Last(segments).region.clusterEnd

Continues(segments, c) == segments # << >> /\ c = Last(segments).region.clusterEnd + 1

AddCluster(segments, c) ==
  IF Continues(segments, c)
    THEN Append(Front(segments),
                [Last(segments) EXCEPT !.count = @ + 1,
                                       !.region = RegionForRun(@.clusterStart, c)])
    ELSE Append(segments, [logicalStart |-> NextLogical(segments), count |-> 1,
                           region |-> RegionForRun(c, c)])

(* content_layout: the runs of a chain, numbered in clusters.              *)
ContentLayout(clusters) ==
  LET layout[n \in 0..Len(clusters)] ==
        IF n = 0 THEN << >> ELSE AddCluster(layout[n - 1], clusters[n])
  IN  layout[Len(clusters)]

-----------------------------------------------------------------------------
(* The segments of a layout, read one behind the other, are the clusters   *)
(* of the chain: none missing, moved or read twice, in the sectors where   *)
(* the reader itself finds them.                                           *)
LaysOut(layout, clusters) ==
  LET Covers(s, k) == s.logicalStart < k /\ k <= s.logicalStart + s.count
  IN  \A k \in 1..(NextLogical(layout) + Len(clusters)) :
        /\ k \in DOMAIN clusters <=> \E i \in DOMAIN layout : Covers(layout[i], k)
        /\ \A i \in DOMAIN layout : Covers(layout[i], k) =>
             /\ \A j \in DOMAIN layout : Covers(layout[j], k) => j = i
             /\ layout[i].region.sectorStart + (k - 1 - layout[i].logicalStart) * SectorsPerCluster
                  = SectorOfCluster(clusters[k])
             /\ layout[i].region.sectorEnd - layout[i].region.sectorStart + 1
                  = layout[i].count * SectorsPerCluster
=============================================================================
