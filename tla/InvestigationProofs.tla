------------------------ MODULE InvestigationProofs ------------------------
(***************************************************************************)
(* Lemmas that the proofs about FAT32 and exFAT share: what one more step  *)
(* of walk_chain keeps of the chain it follows, and that content_layout    *)
(* lays out every chain as it is.                                          *)
(***************************************************************************)
EXTENDS FatChains, ClusterRuns, EntryPaths, ListProofs

(* A running walk follows the table, with no cluster twice but the last.   *)
WalkFollows ==
  /\ Len(walk.clusters) >= 1
  /\ \A i \in 1..(Len(walk.clusters) - 1) :
       /\ InRange(walk.clusters[i])
       /\ walk.clusters[i + 1] = volume.fat[walk.clusters[i]]
       /\ walk.clusters[i + 1] >= 2
  /\ \A i, j \in 1..(Len(walk.clusters) - 1) : walk.clusters[i] = walk.clusters[j] => i = j

WalkTypeOK == walk \in Walk /\ Len(walk.clusters) <= walk.max

LEMMA NoWalkType == NoWalk \in Walk /\ Len(NoWalk.clusters) <= NoWalk.max
  <1>1. << >> \in Seq(Nat)
    OBVIOUS
  <1> QED
    BY <1>1 DEF NoWalk, Walk

(* A walk begins with its start and has nothing behind it. *)
LEMMA BeginWalkKeeps ==
  ASSUME NEW for \in {"directory", "file"}, NEW start \in Nat, NEW max \in Nat \ {0},
         BeginWalk(for, start, max)
  PROVE  /\ WalkTypeOK' /\ WalkFollows'
         /\ walk'.for = for /\ walk'.max = max /\ walk'.clusters = <<start>>
  <1>1. walk' = [for |-> for, clusters |-> <<start>>, max |-> max]
    BY DEF BeginWalk
  <1> QED
    BY <1>1 DEF WalkTypeOK, WalkFollows, Walk

(* One round of walk_chain: the next cluster is an entry of the table, and *)
(* the one it goes on from was not met before, or it would have enough.    *)
LEMMA FollowChainKeeps ==
  ASSUME WalkTypeOK, WalkFollows, volume.fat \in [2..Total -> Nat], UNCHANGED volume, FollowChain
  PROVE  /\ WalkTypeOK' /\ WalkFollows'
         /\ walk.for # "nothing" /\ walk'.for = walk.for /\ walk'.max = walk.max
         /\ walk'.clusters = Append(walk.clusters, volume.fat[LastCluster])
         /\ walk'.clusters[1] = walk.clusters[1]
         /\ InRange(LastCluster)
         /\ volume.fat[LastCluster] \in Nat /\ ~IsEnd(volume.fat[LastCluster])
  <1> USE DEF InRange
  <1> DEFINE c == walk.clusters
             n == Len(c)
             m == volume.fat[LastCluster]
  <1>1. walk \in Walk /\ c \in Seq(Nat) /\ walk.max \in Nat /\ n \in Nat
    BY DEF WalkTypeOK, Walk
  <1>2. /\ walk.for # "nothing" /\ ~Enough
        /\ LastCluster \in 2..Total /\ ~IsEnd(m)
        /\ walk' = [walk EXCEPT !.clusters = Append(@, m)]
    BY DEF FollowChain
  <1>3. m \in Nat /\ m >= 2
    <2>1. m \in Nat
      BY <1>2
    <2> HIDE DEF m
    <2>2. ~(m < 2)
      BY <1>2 DEF IsEnd
    <2> QED
      BY <2>1, <2>2
  <1>4. ~(n >= walk.max) /\ (\A i \in 1..(n - 1) : c[i] # c[n]) /\ LastCluster = c[n] /\ n >= 1
    BY <1>2 DEF Enough, LastCluster, WalkFollows
  <1>5. m = volume.fat[c[n]] /\ c[n] \in 2..Total
    BY <1>2, <1>4
  <1>6. /\ \A i \in 1..(n - 1) : /\ c[i] \in 2..Total /\ c[i + 1] = volume.fat[c[i]]
                                 /\ c[i + 1] >= 2
        /\ \A i, j \in 1..(n - 1) : c[i] = c[j] => i = j
    BY DEF WalkFollows
  <1> HIDE DEF m, n, c
  <1>7. walk'.clusters = Append(c, m) /\ walk'.for = walk.for /\ walk'.max = walk.max
    BY <1>1, <1>2 DEF Walk, c
  <1>8. /\ Append(c, m) \in Seq(Nat) /\ Len(Append(c, m)) = n + 1 /\ Append(c, m)[n + 1] = m
        /\ \A i \in 1..n : Append(c, m)[i] = c[i]
    BY <1>1, <1>3 DEF n
  <1>9. walk' \in Walk
    BY <1>1, <1>2, <1>8 DEF Walk, c
  <1>10. ASSUME NEW i \in 1..n
         PROVE  /\ walk'.clusters[i] \in 2..Total
                /\ walk'.clusters[i + 1] = volume.fat[walk'.clusters[i]]
                /\ walk'.clusters[i + 1] >= 2
    <2>1. CASE i = n
      BY <1>3, <1>5, <1>7, <1>8, <2>1
    <2>2. CASE i \in 1..(n - 1)
      <3>1. i + 1 \in 1..n
        BY <1>1, <2>2
      <3> QED
        BY <1>6, <1>7, <1>8, <2>2, <3>1
    <2> QED
      BY <1>1, <2>1, <2>2
  <1>11. ASSUME NEW i \in 1..n, NEW j \in 1..n, walk'.clusters[i] = walk'.clusters[j]
         PROVE  i = j
    <2>1. c[i] = c[j]
      BY <1>7, <1>8, <1>11
    <2>2. (i = n \/ i \in 1..(n - 1)) /\ (j = n \/ j \in 1..(n - 1))
      BY <1>1
    <2> QED
      BY <1>4, <1>6, <2>1, <2>2
  <1>12. Len(walk'.clusters) = n + 1 /\ walk'.clusters[1] = c[1]
    BY <1>1, <1>4, <1>7, <1>8
  <1>13. WalkFollows'
    <2>1. Len(walk'.clusters) - 1 = n /\ Len(walk'.clusters) >= 1
      BY <1>1, <1>12
    <2> QED
      BY <1>10, <1>11, <2>1 DEF WalkFollows
  <1>14. WalkTypeOK'
    BY <1>1, <1>4, <1>7, <1>9, <1>12 DEF WalkTypeOK
  <1> QED
    BY <1>2, <1>3, <1>7, <1>12, <1>13, <1>14 DEF c, m

(* What a walk has found is a chain of the table for its object.           *)
LEMMA WalkIsChain ==
  ASSUME WalkFollows, NEW e, e.chain = walk.clusters, e.cluster = walk.clusters[1],
         e.type = "file" => Len(e.chain) <= e.size
  PROVE  FollowsFat(e)
  BY DEF WalkFollows, FollowsFat

(* Without clusters nothing is claimed. *)
LEMMA EmptyIsChain ==
  ASSUME NEW e, e.chain = << >>
  PROVE  FollowsFat(e)
  BY DEF FollowsFat

-----------------------------------------------------------------------------
(* The layout of a chain.                                                  *)

Run == [logicalStart : Nat, count : Nat,
        region : [clusterStart : Nat, clusterEnd : Nat, sectorStart : Int, sectorEnd : Int]]

Covers(run, k) == run.logicalStart < k /\ k <= run.logicalStart + run.count

(* A run holds the clusters at its places of the chain, in a row. *)
Holds(run, clusters) ==
  LET r == run.region IN
    /\ r = RegionForRun(r.clusterStart, r.clusterEnd)
    /\ r.clusterEnd = r.clusterStart + run.count - 1
    /\ \A k \in DOMAIN clusters : Covers(run, k) =>
         clusters[k] = r.clusterStart + (k - 1 - run.logicalStart)

(* What one more cluster does to the runs: it is added to the last one, or *)
(* becomes a run of its own.                                               *)
Extended(runs, more, c) ==
  LET m == Len(runs) IN
    /\ m >= 1 /\ Len(more) = m /\ c = runs[m].region.clusterEnd + 1
    /\ \A i \in 1..(m - 1) : more[i] = runs[i]
    /\ more[m].logicalStart = runs[m].logicalStart
    /\ more[m].count = runs[m].count + 1
    /\ more[m].region = RegionForRun(runs[m].region.clusterStart, c)

Begun(runs, more, c) ==
  LET m == Len(runs) IN
    /\ Len(more) = m + 1
    /\ \A i \in 1..m : more[i] = runs[i]
    /\ more[m + 1].logicalStart = NextLogical(runs)
    /\ more[m + 1].count = 1
    /\ more[m + 1].region = RegionForRun(c, c)

(* Regions and layouts are well-formed. *)
LEMMA RegionForRunType ==
  ASSUME NEW a \in Nat, NEW b \in Nat
  PROVE  RegionForRun(a, b) \in [clusterStart : Nat, clusterEnd : Nat,
                                 sectorStart : Int, sectorEnd : Int]
  <1>1. SectorOfCluster(a) \in Int /\ SectorOfCluster(b) \in Int
    BY GeometryAssumption DEF SectorOfCluster
  <1> QED
    BY <1>1, GeometryAssumption DEF RegionForRun

LEMMA RegionEnds ==
  ASSUME NEW a, NEW b
  PROVE  RegionForRun(a, b).clusterStart = a /\ RegionForRun(a, b).clusterEnd = b
  BY DEF RegionForRun

LEMMA NextLogicalType ==
  ASSUME NEW runs \in Seq(Run)
  PROVE  /\ NextLogical(runs) \in Nat
         /\ runs # << >> => /\ Len(runs) >= 1 /\ runs[Len(runs)] \in Run
                            /\ Last(runs) = runs[Len(runs)]
                            /\ NextLogical(runs) = runs[Len(runs)].logicalStart
                                                     + runs[Len(runs)].count
         /\ Len(runs) \in Nat /\ DOMAIN runs = 1..Len(runs)
  <1>1. Len(runs) \in Nat /\ DOMAIN runs = 1..Len(runs)
    BY LenProperties
  <1>2. CASE runs = << >>
    BY <1>1, <1>2 DEF NextLogical
  <1>3. CASE runs # << >>
    <2>1. Len(runs) >= 1
      BY <1>1, <1>3, EmptySeq
    <2>2. runs[Len(runs)] \in Run
      BY <1>1, <2>1, ElementOfSeq
    <2> QED
      BY <1>1, <1>3, <2>1, <2>2 DEF NextLogical, Last, Run
  <1> QED
    BY <1>2, <1>3

(* One turn of the loop of content_layout extends a run or begins one. *)
LEMMA AddClusterFacts ==
  ASSUME NEW runs \in Seq(Run), NEW c \in Nat
  PROVE  /\ AddCluster(runs, c) \in Seq(Run)
         /\ Extended(runs, AddCluster(runs, c), c) \/ Begun(runs, AddCluster(runs, c), c)
  <1> DEFINE m == Len(runs)
             more == AddCluster(runs, c)
  <1>1. m \in Nat /\ NextLogical(runs) \in Nat
    BY NextLogicalType
  <1>2. CASE Continues(runs, c)
    <2> DEFINE longer == [Last(runs) EXCEPT !.count = @ + 1,
                                            !.region = RegionForRun(@.clusterStart, c)]
    <2>1. m >= 1 /\ Last(runs) = runs[m] /\ runs[m] \in Run /\ runs # << >>
      BY <1>2, NextLogicalType DEF Continues
    <2>2. c = runs[m].region.clusterEnd + 1
      BY <1>2, <2>1 DEF Continues
    <2>3. /\ longer \in Run
          /\ longer.logicalStart = runs[m].logicalStart /\ longer.count = runs[m].count + 1
          /\ longer.region = RegionForRun(runs[m].region.clusterStart, c)
      <3>1. PICK r \in Run : r = runs[m]
        BY <2>1
      <3>2. r.region.clusterStart \in Nat
        BY DEF Run
      <3>3. PICK region : region = RegionForRun(r.region.clusterStart, c)
        OBVIOUS
      <3>4. region \in [clusterStart : Nat, clusterEnd : Nat, sectorStart : Int, sectorEnd : Int]
        BY <3>2, <3>3, RegionForRunType
      <3>5. longer = [r EXCEPT !.count = r.count + 1, !.region = region]
        BY <2>1, <3>1, <3>3
      <3>6. longer = [logicalStart |-> r.logicalStart, count |-> r.count + 1, region |-> region]
        <4> HIDE DEF longer
        <4> QED
          BY <3>5 DEF Run
      <3>7. r.logicalStart \in Nat /\ r.count + 1 \in Nat
        BY DEF Run
      <3>8. /\ longer \in Run /\ longer.logicalStart = r.logicalStart
            /\ longer.count = r.count + 1 /\ longer.region = region
        <4> HIDE DEF longer
        <4> QED
          BY <3>4, <3>6, <3>7 DEF Run
      <3> QED
        BY <3>1, <3>3, <3>8
    <2>4. more = Append(Front(runs), longer)
      BY <1>2 DEF AddCluster
    <2> HIDE DEF longer
    <2>5. /\ Front(runs) \in Seq(Run) /\ Len(Front(runs)) = m - 1
          /\ \A i \in 1..(m - 1) : Front(runs)[i] = runs[i]
      <3>1. PICK k \in Nat : k = m - 1
        <4>1. m \in Nat /\ m >= 1
          BY <1>1, <2>1
        <4> HIDE DEF m
        <4> QED
          BY <4>1
      <3>2. Front(runs) = SubSeq(runs, 1, k) /\ k - 1 + 1 = k
        BY <3>1 DEF Front
      <3>3. \A i \in 1..k : runs[i] \in Run
        BY <1>1, <3>1, ElementOfSeq
      <3>4. /\ Front(runs) \in Seq(Run) /\ Len(Front(runs)) = k
            /\ \A i \in 1..k : Front(runs)[i] = runs[i]
        <4>1. /\ SubSeq(runs, 1, k) \in Seq(Run)
              /\ Len(SubSeq(runs, 1, k)) = IF 1 <= k THEN k - 1 + 1 ELSE 0
              /\ \A i \in 1..(k - 1 + 1) : SubSeq(runs, 1, k)[i] = runs[1 + i - 1]
          BY <3>3, SubSeqProperties
        <4> QED
          BY <3>2, <4>1
      <3> QED
        BY <3>1, <3>4
    <2>6. /\ more \in Seq(Run) /\ Len(more) = m /\ more[m] = longer
          /\ \A i \in 1..(m - 1) : more[i] = runs[i]
      <3>1. m - 1 + 1 = m
        BY <1>1
      <3> HIDE DEF m, more
      <3> QED
        BY <2>3, <2>4, <2>5, <3>1, AppendProperties
    <2> QED
      BY <2>1, <2>2, <2>3, <2>6 DEF Extended
  <1>3. CASE ~Continues(runs, c)
    <2> DEFINE single == [logicalStart |-> NextLogical(runs), count |-> 1,
                          region |-> RegionForRun(c, c)]
    <2>1. single \in Run
      BY <1>1, RegionForRunType DEF Run
    <2>2. more = Append(runs, single)
      BY <1>3 DEF AddCluster
    <2>3. /\ single.logicalStart = NextLogical(runs) /\ single.count = 1
          /\ single.region = RegionForRun(c, c)
      OBVIOUS
    <2> HIDE DEF single
    <2>4. /\ more \in Seq(Run) /\ Len(more) = m + 1 /\ more[m + 1] = single
          /\ \A i \in 1..m : more[i] = runs[i]
      BY <1>1, <2>1, <2>2, AppendProperties
    <2> QED
      BY <2>3, <2>4 DEF Begun
  <1> QED
    BY <1>2, <1>3

(* The runs lay out the first n clusters of a chain, each in one place.    *)
Laid(runs, clusters, n) ==
  /\ runs \in Seq(Run) /\ NextLogical(runs) = n
  /\ n > 0 => Len(runs) >= 1 /\ runs[1].logicalStart = 0
  /\ \A i \in DOMAIN runs : /\ runs[i].logicalStart + runs[i].count <= n
                            /\ runs[i].count >= 1
                            /\ Holds(runs[i], clusters)
  /\ \A k \in 1..n : \E i \in DOMAIN runs : Covers(runs[i], k)
  /\ \A k \in 1..n : \A i, j \in DOMAIN runs : Covers(runs[i], k) /\ Covers(runs[j], k) => i = j

(* A run that is one cluster longer covers one place more. *)
LEMMA CoversOneMore ==
  ASSUME NEW run, NEW next, run.logicalStart \in Nat, run.count \in Nat,
         next.logicalStart = run.logicalStart, next.count = run.count + 1, NEW k \in Nat
  PROVE  Covers(next, k) <=> Covers(run, k) \/ k = run.logicalStart + run.count + 1
  <1>1. PICK a \in Nat, b \in Nat : a = run.logicalStart /\ b = run.count
    OBVIOUS
  <1>2. Covers(next, k) <=> a < k /\ k <= a + (b + 1)
    BY <1>1 DEF Covers
  <1>3. Covers(run, k) <=> a < k /\ k <= a + b
    BY <1>1 DEF Covers
  <1> QED
    BY <1>1, <1>2, <1>3

(* Either way the runs lay out one cluster more. *)
LEMMA ExtendedIsLaid ==
  ASSUME NEW clusters \in Seq(Nat), NEW n \in 0..(Len(clusters) - 1),
         NEW runs, Laid(runs, clusters, n),
         NEW more \in Seq(Run), Extended(runs, more, clusters[n + 1])
  PROVE  Laid(more, clusters, n + 1)
  <1> DEFINE m == Len(runs)
             c == clusters[n + 1]
             old == runs[m]
             new == more[m]
  <1>1. /\ m \in Nat /\ m >= 1 /\ DOMAIN runs = 1..m /\ DOMAIN more = 1..m /\ Len(more) = m
        /\ m \in 1..m /\ \A i \in 1..m : runs[i] \in Run /\ more[i] \in Run
    BY LenProperties, NextLogicalType DEF Laid, Extended
  <1>2. /\ n + 1 \in DOMAIN clusters /\ c \in Nat /\ n \in Nat
    BY LenProperties
  <1>3. /\ c = old.region.clusterEnd + 1
        /\ \A i \in 1..(m - 1) : more[i] = runs[i]
        /\ new.logicalStart = old.logicalStart /\ new.count = old.count + 1
        /\ new.region = RegionForRun(old.region.clusterStart, c)
    BY DEF Extended
  <1>4. /\ old.logicalStart \in Nat /\ old.count \in Nat
        /\ old.region.clusterStart \in Nat /\ old.region.clusterEnd \in Nat
    BY <1>1 DEF Run
  <1>5. n = old.logicalStart + old.count
    <2>1. runs # << >> /\ runs \in Seq(Run) /\ NextLogical(runs) = n
      BY <1>1, EmptySeq DEF Laid
    <2> QED
      BY <2>1, NextLogicalType
  <1>6. more # << >> /\ NextLogical(more) = n + 1
    <2>1. more # << >>
      BY <1>1, EmptySeq
    <2>2. NextLogical(more) = more[Len(more)].logicalStart + more[Len(more)].count
      BY <2>1, NextLogicalType
    <2>3. Len(more) = m
      BY <1>1
    <2>4. NextLogical(more) = new.logicalStart + new.count
      BY <2>2, <2>3
    <2> HIDE DEF new, old, c
    <2> QED
      BY <1>3, <1>4, <1>5, <2>1, <2>4
  <1>7. /\ \A i \in 1..m : /\ runs[i].logicalStart + runs[i].count <= n
                           /\ runs[i].count >= 1
                           /\ Holds(runs[i], clusters)
        /\ \A k \in 1..n : \E i \in 1..m : Covers(runs[i], k)
        /\ \A k \in 1..n : \A i, j \in 1..m : Covers(runs[i], k) /\ Covers(runs[j], k) => i = j
    BY <1>1 DEF Laid
  <1> HIDE DEF m, c, old, new
  <1>8. \A i \in 1..m : i = m \/ (i \in 1..(m - 1) /\ more[i] = runs[i])
    <2>1. \A i \in 1..m : i = m \/ i \in 1..(m - 1)
      BY <1>1
    <2> QED
      BY <1>3, <2>1
  <1>9. \A k \in Nat : Covers(new, k) <=> Covers(old, k) \/ k = n + 1
    BY <1>3, <1>4, <1>5, CoversOneMore
  <1>10. \A i \in 1..m : \A k \in Nat : Covers(runs[i], k) => k <= n
    <2> SUFFICES ASSUME NEW i \in 1..m, NEW k \in Nat, Covers(runs[i], k) PROVE k <= n
      OBVIOUS
    <2>1. runs[i].logicalStart + runs[i].count <= n /\ runs[i] \in Run
      BY <1>1, <1>7
    <2>2. PICK a \in Nat, b \in Nat : a = runs[i].logicalStart /\ b = runs[i].count
      BY <2>1 DEF Run
    <2>3. a + b <= n /\ k <= a + b
      BY <2>1, <2>2 DEF Covers
    <2> QED
      BY <1>2, <2>3
  <1>11. \A i \in 1..m : \A k \in 1..n : Covers(more[i], k) <=> Covers(runs[i], k)
    <2> SUFFICES ASSUME NEW i \in 1..m, NEW k \in 1..n
                 PROVE  Covers(more[i], k) <=> Covers(runs[i], k)
      OBVIOUS
    <2>1. k \in Nat /\ k # n + 1
      BY <1>2
    <2>2. Covers(new, k) <=> Covers(old, k)
      BY <1>9, <2>1
    <2> QED
      BY <1>8, <2>2 DEF old, new
  <1>12. \A i \in 1..m : Covers(more[i], n + 1) => i = m
    BY <1>2, <1>8, <1>10
  <1>13. Covers(more[m], n + 1)
    BY <1>2, <1>9 DEF new
  <1>14. Holds(new, clusters)
    <2>1. /\ old.region.clusterEnd = old.region.clusterStart + old.count - 1
          /\ \A k \in DOMAIN clusters : Covers(old, k) =>
               clusters[k] = old.region.clusterStart + (k - 1 - old.logicalStart)
      BY <1>1, <1>7 DEF Holds, old
    <2>2. new.region.clusterStart = old.region.clusterStart /\ new.region.clusterEnd = c
      BY <1>3, RegionEnds
    <2>0. PICK a \in Nat, b \in Nat, s \in Nat :
            a = old.logicalStart /\ b = old.count /\ s = old.region.clusterStart
      BY <1>4
    <2>3. c = s + b /\ new.region.clusterStart = s /\ new.count = b + 1 /\ new.logicalStart = a
          /\ c = new.region.clusterStart + new.count - 1
      <3>1. old.region.clusterEnd = s + b - 1
        BY <2>0, <2>1
      <3>2. c = s + b - 1 + 1
        BY <1>3, <3>1
      <3>3. new.region.clusterStart = s /\ new.count = b + 1 /\ new.logicalStart = a
        BY <1>3, <2>0, <2>2
      <3> QED
        BY <3>2, <3>3
    <2>4. ASSUME NEW k \in DOMAIN clusters, Covers(new, k)
          PROVE  clusters[k] = new.region.clusterStart + (k - 1 - new.logicalStart)
      <3>1. k \in Nat
        BY LenProperties
      <3>2. CASE Covers(old, k)
        BY <1>3, <2>1, <2>2, <3>2
      <3>3. CASE k = n + 1
        <4>1. clusters[k] = c
          BY <3>3 DEF c
        <4>2. k = a + b + 1
          BY <1>5, <2>0, <3>3
        <4>3. c = s + (k - 1 - a)
          BY <2>3, <4>2
        <4> QED
          BY <2>3, <4>1, <4>3
      <3> QED
        BY <1>9, <2>4, <3>1, <3>2, <3>3
    <2>5. new.region = RegionForRun(new.region.clusterStart, new.region.clusterEnd)
      BY <1>3, <2>2
    <2> QED
      BY <2>2, <2>3, <2>4, <2>5 DEF Holds
  <1>15. ASSUME NEW i \in 1..m
         PROVE  /\ more[i].logicalStart + more[i].count <= n + 1
                /\ more[i].count >= 1
                /\ Holds(more[i], clusters)
    <2>1. CASE i = m
      <3>1. PICK a \in Nat, b \in Nat : a = old.logicalStart /\ b = old.count
        BY <1>4
      <3>2. n = a + b /\ new.logicalStart = a /\ new.count = b + 1
        BY <1>3, <1>5, <3>1
      <3>3. /\ new.logicalStart + new.count <= n + 1 /\ new.count >= 1
            /\ Holds(new, clusters)
        BY <1>14, <3>2
      <3> QED
        BY <2>1, <3>3 DEF new
    <2>2. CASE i \in 1..(m - 1)
      <3>1. /\ runs[i].logicalStart + runs[i].count <= n /\ runs[i].count >= 1
            /\ Holds(runs[i], clusters) /\ runs[i] \in Run
        BY <1>1, <1>7
      <3>2. runs[i].logicalStart \in Nat /\ runs[i].count \in Nat
        BY <3>1 DEF Run
      <3>3. more[i] = runs[i]
        BY <1>3, <2>2
      <3> QED
        BY <1>2, <3>1, <3>2, <3>3
    <2> QED
      BY <1>8, <2>1, <2>2
  <1>16. \A k \in 1..(n + 1) : \E i \in 1..m : Covers(more[i], k)
    <2>1. \A k \in 1..(n + 1) : k \in 1..n \/ k = n + 1
      BY <1>2
    <2> QED
      BY <1>1, <1>7, <1>11, <1>13, <2>1
  <1>17. \A k \in 1..(n + 1) : \A i, j \in 1..m : Covers(more[i], k) /\ Covers(more[j], k) => i = j
    <2>1. \A k \in 1..(n + 1) : k \in 1..n \/ k = n + 1
      BY <1>2
    <2> QED
      BY <1>7, <1>11, <1>12, <2>1
  <1>18. more[1].logicalStart = 0
    <2>1. runs[1].logicalStart = 0
      <3>1. n > 0
        BY <1>1, <1>4, <1>5, <1>7 DEF old
      <3> QED
        BY <3>1 DEF Laid
    <2>2. 1 \in 1..m
      BY <1>1
    <2> QED
      BY <1>3, <1>8, <2>1, <2>2 DEF old, new
  <1> QED
    BY <1>1, <1>2, <1>6, <1>15, <1>16, <1>17, <1>18 DEF Laid

LEMMA BegunIsLaid ==
  ASSUME NEW clusters \in Seq(Nat), NEW n \in 0..(Len(clusters) - 1),
         NEW runs, Laid(runs, clusters, n),
         NEW more \in Seq(Run), Begun(runs, more, clusters[n + 1])
  PROVE  Laid(more, clusters, n + 1)
  <1> DEFINE m == Len(runs)
             c == clusters[n + 1]
             new == more[m + 1]
  <1>1. /\ m \in Nat /\ DOMAIN runs = 1..m /\ DOMAIN more = 1..(m + 1) /\ Len(more) = m + 1
        /\ \A i \in 1..m : runs[i] \in Run
    BY LenProperties, NextLogicalType, ElementOfSeq DEF Laid, Begun
  <1>2. n + 1 \in DOMAIN clusters /\ c \in Nat /\ n \in Nat
    BY LenProperties
  <1>3. /\ \A i \in 1..m : more[i] = runs[i]
        /\ new.logicalStart = NextLogical(runs) /\ new.count = 1
        /\ new.region = RegionForRun(c, c)
    BY DEF Begun
  <1>4. new.logicalStart = n
    BY <1>3 DEF Laid
  <1>5. more # << >> /\ NextLogical(more) = n + 1
    <2>1. more # << >>
      BY <1>1, EmptySeq
    <2>2. NextLogical(more) = more[Len(more)].logicalStart + more[Len(more)].count
      BY <2>1, NextLogicalType
    <2>3. Len(more) = m + 1
      BY <1>1
    <2>4. NextLogical(more) = new.logicalStart + new.count
      BY <2>2, <2>3
    <2> HIDE DEF new, c
    <2> QED
      BY <1>3, <1>4, <2>1, <2>4
  <1>6. /\ \A i \in 1..m : /\ runs[i].logicalStart + runs[i].count <= n
                           /\ runs[i].count >= 1
                           /\ Holds(runs[i], clusters)
        /\ \A k \in 1..n : \E i \in 1..m : Covers(runs[i], k)
        /\ \A k \in 1..n : \A i, j \in 1..m : Covers(runs[i], k) /\ Covers(runs[j], k) => i = j
    BY <1>1 DEF Laid
  <1> HIDE DEF m, c, new
  <1>7. \A i \in 1..(m + 1) : i = m + 1 \/ (i \in 1..m /\ more[i] = runs[i])
    <2>1. \A i \in 1..(m + 1) : i = m + 1 \/ i \in 1..m
      BY <1>1
    <2> QED
      BY <1>3, <2>1
  <1>8. \A k \in Nat : Covers(new, k) <=> k = n + 1
    BY <1>2, <1>3, <1>4 DEF Covers
  <1>9. \A i \in 1..m : \A k \in Nat : Covers(runs[i], k) => k <= n
    <2> SUFFICES ASSUME NEW i \in 1..m, NEW k \in Nat, Covers(runs[i], k) PROVE k <= n
      OBVIOUS
    <2>1. runs[i].logicalStart + runs[i].count <= n /\ runs[i] \in Run
      BY <1>1, <1>6
    <2>2. PICK a \in Nat, b \in Nat : a = runs[i].logicalStart /\ b = runs[i].count
      BY <2>1 DEF Run
    <2>3. a + b <= n /\ k <= a + b
      BY <2>1, <2>2 DEF Covers
    <2> QED
      BY <1>2, <2>3
  <1>10. \A k \in 1..(n + 1) : (k \in 1..n /\ k \in Nat /\ k # n + 1) \/ k = n + 1
    BY <1>2
  <1>11. \A i \in 1..m : Covers(more[i], n + 1) => FALSE
    BY <1>2, <1>3, <1>9
  <1>12. Holds(new, clusters)
    <2>1. new.region.clusterStart = c /\ new.region.clusterEnd = c
      BY <1>3, RegionEnds
    <2>2. new.region = RegionForRun(new.region.clusterStart, new.region.clusterEnd)
      BY <1>3, <2>1
    <2>3. c = c + new.count - 1
      BY <1>2, <1>3
    <2>4. ASSUME NEW k \in DOMAIN clusters, Covers(new, k)
          PROVE  clusters[k] = new.region.clusterStart + (k - 1 - new.logicalStart)
      <3>1. k \in Nat
        BY LenProperties
      <3>2. k = n + 1
        BY <1>8, <2>4, <3>1
      <3>3. clusters[k] = c
        BY <3>2 DEF c
      <3>4. c = c + (n + 1 - 1 - n)
        BY <1>2
      <3> QED
        BY <1>4, <2>1, <3>2, <3>3, <3>4
    <2> QED
      BY <2>1, <2>2, <2>3, <2>4 DEF Holds
  <1>13. ASSUME NEW i \in 1..(m + 1)
         PROVE  /\ more[i].logicalStart + more[i].count <= n + 1
                /\ more[i].count >= 1
                /\ Holds(more[i], clusters)
    <2>1. CASE i = m + 1
      <3>1. /\ new.logicalStart + new.count <= n + 1 /\ new.count >= 1
            /\ Holds(new, clusters)
        BY <1>2, <1>3, <1>4, <1>12
      <3> QED
        BY <2>1, <3>1 DEF new
    <2>2. CASE i \in 1..m
      <3>1. /\ runs[i].logicalStart + runs[i].count <= n /\ runs[i].count >= 1
            /\ Holds(runs[i], clusters) /\ runs[i] \in Run
        BY <1>1, <1>6, <2>2
      <3>2. runs[i].logicalStart \in Nat /\ runs[i].count \in Nat
        BY <3>1 DEF Run
      <3>3. more[i] = runs[i]
        BY <1>3, <2>2
      <3> QED
        BY <1>2, <3>1, <3>2, <3>3
    <2> QED
      BY <1>7, <2>1, <2>2
  <1>14. \A k \in 1..(n + 1) : \E i \in 1..(m + 1) : Covers(more[i], k)
    <2> SUFFICES ASSUME NEW k \in 1..(n + 1) PROVE \E i \in 1..(m + 1) : Covers(more[i], k)
      OBVIOUS
    <2>1. CASE k = n + 1
      <3>1. m + 1 \in 1..(m + 1) /\ Covers(more[m + 1], k)
        BY <1>1, <1>2, <1>8, <2>1 DEF new
      <3> QED
        BY <3>1
    <2>2. CASE k \in 1..n
      <3>1. PICK i \in 1..m : Covers(runs[i], k)
        BY <1>6, <2>2
      <3>2. i \in 1..(m + 1) /\ Covers(more[i], k)
        BY <1>1, <1>3, <3>1
      <3> QED
        BY <3>2
    <2> QED
      BY <1>10, <2>1, <2>2
  <1>15. \A k \in 1..(n + 1) : \A i, j \in 1..(m + 1) :
           Covers(more[i], k) /\ Covers(more[j], k) => i = j
    <2> SUFFICES ASSUME NEW k \in 1..(n + 1), NEW i \in 1..(m + 1), NEW j \in 1..(m + 1),
                        Covers(more[i], k), Covers(more[j], k)
                 PROVE  i = j
      OBVIOUS
    <2>1. CASE k = n + 1
      BY <1>7, <1>11, <2>1
    <2>2. CASE k \in 1..n /\ k \in Nat /\ k # n + 1
      <3>1. ~Covers(more[m + 1], k)
        BY <1>8, <2>2 DEF new
      <3>2. i \in 1..m /\ j \in 1..m /\ Covers(runs[i], k) /\ Covers(runs[j], k)
        BY <1>7, <3>1
      <3> QED
        BY <1>6, <2>2, <3>2
    <2> QED
      BY <1>10, <2>1, <2>2
  <1>16. more[1].logicalStart = 0
    <2>1. CASE m = 0
      <3>1. ~(n > 0)
        BY <2>1 DEF Laid, m
      <3>2. n = 0
        BY <1>2, <3>1
      <3> QED
        BY <1>4, <2>1, <3>2 DEF new
    <2>2. CASE m # 0
      <3>1. 1 \in 1..m
        BY <1>1, <2>2
      <3>2. PICK a \in Nat, b \in Nat : a = runs[1].logicalStart /\ b = runs[1].count
        BY <1>1, <3>1 DEF Run
      <3>3. n > 0
        BY <1>2, <1>6, <3>1, <3>2
      <3> QED
        BY <1>3, <3>1, <3>3 DEF Laid
    <2> QED
      BY <2>1, <2>2
  <1>17. PICK l \in Nat : l = m + 1
    BY <1>1
  <1>18. DOMAIN more = 1..l /\ Len(more) = l /\ l >= 1
    BY <1>1, <1>17
  <1>19. n + 1 > 0 => Len(more) >= 1 /\ more[1].logicalStart = 0
    BY <1>16, <1>18
  <1> QED
    BY <1>5, <1>13, <1>14, <1>15, <1>17, <1>18, <1>19 DEF Laid

(* The layout of a chain lays it out, to its end. *)
LEMMA LayoutIsLaid ==
  ASSUME NEW clusters \in Seq(Nat)
  PROVE  Laid(ContentLayout(clusters), clusters, Len(clusters))
  <1> DEFINE X == Seq(Run)
             n == Len(clusters)
             Step == [i \in 1..n |-> [runs \in X |-> AddCluster(runs, clusters[i])]]
             L(f) == f = [k \in 0..n |-> IF k = 0 THEN << >> ELSE AddCluster(f[k - 1], clusters[k])]
             layout == CHOOSE f : L(f)
  <1>1. n \in Nat /\ \A i \in 1..n : clusters[i] \in Nat
    BY LenProperties, ElementOfSeq
  <1>2. Step \in [1..n -> [X -> X]]
    <2> SUFFICES ASSUME NEW i \in 1..n, NEW runs \in X PROVE AddCluster(runs, clusters[i]) \in X
      OBVIOUS
    <2> QED
      BY <1>1, AddClusterFacts
  <1>3. ASSUME NEW i \in 1..n, NEW runs \in X PROVE Step[i][runs] = AddCluster(runs, clusters[i])
    OBVIOUS
  <1>4. PICK e : e = << >>
    OBVIOUS
  <1>5. e \in X
    BY <1>4
  <1> HIDE DEF X, n, Step
  <1>6. PICK f \in [0..n -> X] : Computes(f, n, e, Step)
    BY <1>1, <1>2, <1>5, RecursionExists
  <1>7. ASSUME NEW k \in 0..n
        PROVE  f[k] = IF k = 0 THEN << >> ELSE AddCluster(f[k - 1], clusters[k])
    <2>1. CASE k = 0
      BY <1>4, <1>6, <2>1 DEF Computes
    <2>2. CASE k # 0
      <3>1. k \in 1..n /\ k - 1 \in 0..n
        BY <1>1, <2>2
      <3>2. f[k] = Step[k][f[k - 1]] /\ f[k - 1] \in X
        BY <1>6, <3>1 DEF Computes
      <3> QED
        BY <1>3, <2>2, <3>1, <3>2
    <2> QED
      BY <2>1, <2>2
  <1>8. L(f)
    BY <1>7
  <1>9. L(layout)
    <2> HIDE DEF L
    <2> QED
      BY <1>8
  <1>10. ASSUME NEW k \in 0..n
         PROVE  layout[k] = IF k = 0 THEN << >> ELSE AddCluster(layout[k - 1], clusters[k])
    <2> HIDE DEF layout
    <2> QED
      BY <1>9
  <1>11. ContentLayout(clusters) = layout[n]
    BY DEF ContentLayout, n
  <1> HIDE DEF layout, L
  <1> DEFINE Z == {k \in 0..n : Laid(layout[k], clusters, k)}
  <1>12. 0 \in Z
    <2>1. layout[0] = << >>
      BY <1>1, <1>10
    <2>2. Laid(<< >>, clusters, 0)
      BY DEF Laid, NextLogical
    <2> QED
      BY <1>1, <2>1, <2>2
  <1>13. ASSUME NEW k \in 0..(n - 1), k \in Z PROVE k + 1 \in Z
    <2>1. PICK m \in 1..n : m = k + 1
      BY <1>1
    <2>2. layout[m] = AddCluster(layout[k], clusters[m])
      BY <1>1, <1>10, <2>1
    <2>3. Laid(layout[k], clusters, k) /\ layout[k] \in Seq(Run)
      BY <1>13 DEF Laid
    <2>4. k \in 0..(Len(clusters) - 1)
      BY DEF n
    <2>5. Laid(layout[m], clusters, k + 1)
      BY <1>1, <2>1, <2>2, <2>3, <2>4, AddClusterFacts, ExtendedIsLaid, BegunIsLaid
    <2> QED
      BY <1>1, <2>1, <2>5
  <1>14. n \in Z
    <2> HIDE DEF Z
    <2> QED
      BY <1>1, <1>12, <1>13, SetInduction
  <1> QED
    BY <1>11, <1>14 DEF n

(* The sectors of a run are those of its clusters.                         *)
LEMMA SectorsOfRun ==
  ASSUME NEW first \in Int, NEW j \in Int, NEW count \in Int, NEW end,
         end = SectorOfCluster(first + count - 1) + SectorsPerCluster - 1
  PROVE  /\ SectorOfCluster(first) + j * SectorsPerCluster = SectorOfCluster(first + j)
         /\ end - SectorOfCluster(first) + 1 = count * SectorsPerCluster
  <1>1. PICK S \in Int : S = SectorsPerCluster
    BY GeometryAssumption
  <1>2. PICK F \in Int : F = FirstDataSector
    BY GeometryAssumption
  <1>3. (first - 2) * S + j * S = (first + j - 2) * S
    OBVIOUS
  <1>4. (first + count - 1 - 2) * S - (first - 2) * S = (count - 1) * S
    OBVIOUS
  <1>5. (count - 1) * S + S = count * S
    OBVIOUS
  <1>6. /\ (first - 2) * S \in Int /\ j * S \in Int /\ (first + j - 2) * S \in Int
        /\ (first + count - 1 - 2) * S \in Int /\ (count - 1) * S \in Int /\ count * S \in Int
    OBVIOUS
  <1> QED
    BY <1>1, <1>2, <1>3, <1>4, <1>5, <1>6 DEF SectorOfCluster

(* Every chain is laid out as LaysOut demands, and what is read first is   *)
(* its first cluster.                                                      *)
LEMMA LayoutIsFaithful ==
  ASSUME NEW clusters \in Seq(Nat)
  PROVE  /\ LaysOut(ContentLayout(clusters), clusters)
         /\ clusters # << >> =>
              /\ ContentLayout(clusters) # << >>
              /\ 1 \in DOMAIN ContentLayout(clusters)
              /\ ContentLayout(clusters)[1].region.sectorStart = SectorOfCluster(clusters[1])
  <1>1. PICK layout : layout = ContentLayout(clusters)
    OBVIOUS
  <1>2. PICK n \in Nat : n = Len(clusters) /\ DOMAIN clusters = 1..n
    BY LenProperties
  <1>3. Laid(layout, clusters, n)
    BY <1>1, <1>2, LayoutIsLaid
  <1>4. layout \in Seq(Run) /\ NextLogical(layout) = n
        /\ \A i \in DOMAIN layout : layout[i] \in Run
    BY <1>3, LenProperties, ElementOfSeq DEF Laid
  <1> DEFINE Fits(run, a, b, s) ==
               /\ run.logicalStart = a /\ run.count = b /\ b >= 1 /\ a + b <= n
               /\ run.region.sectorStart = SectorOfCluster(s)
               /\ run.region.sectorEnd = SectorOfCluster(s + b - 1) + SectorsPerCluster - 1
               /\ \A k \in Nat : Covers(run, k) <=> a < k /\ k <= a + b
               /\ \A k \in 1..n : Covers(run, k) => clusters[k] = s + (k - 1 - a)
  <1>5. ASSUME NEW i \in DOMAIN layout
        PROVE  \E a \in Nat, b \in Nat, s \in Nat : Fits(layout[i], a, b, s)
    <2>1. PICK a \in Nat, b \in Nat, s \in Nat :
            a = layout[i].logicalStart /\ b = layout[i].count
            /\ s = layout[i].region.clusterStart
      BY <1>4 DEF Run
    <2>2. /\ a + b <= n /\ b >= 1 /\ Holds(layout[i], clusters)
      BY <1>3, <2>1 DEF Laid
    <2>3. /\ layout[i].region = RegionForRun(s, layout[i].region.clusterEnd)
          /\ layout[i].region.clusterEnd = s + b - 1
          /\ \A k \in 1..n : Covers(layout[i], k) => clusters[k] = s + (k - 1 - a)
      BY <1>2, <2>1, <2>2 DEF Holds
    <2>4. layout[i].region = RegionForRun(s, s + b - 1)
      BY <2>3
    <2>5. /\ layout[i].region.sectorStart = SectorOfCluster(s)
          /\ layout[i].region.sectorEnd = SectorOfCluster(s + b - 1) + SectorsPerCluster - 1
      BY <2>4 DEF RegionForRun
    <2>6. \A k \in Nat : Covers(layout[i], k) <=> a < k /\ k <= a + b
      BY <2>1 DEF Covers
    <2> QED
      BY <2>1, <2>2, <2>3, <2>5, <2>6
  <1>6. ASSUME NEW k \in 1..(n + n)
        PROVE  /\ k \in DOMAIN clusters <=> \E i \in DOMAIN layout : Covers(layout[i], k)
               /\ \A i \in DOMAIN layout : Covers(layout[i], k) =>
                    /\ \A j \in DOMAIN layout : Covers(layout[j], k) => j = i
                    /\ layout[i].region.sectorStart
                         + (k - 1 - layout[i].logicalStart) * SectorsPerCluster
                         = SectorOfCluster(clusters[k])
                    /\ layout[i].region.sectorEnd - layout[i].region.sectorStart + 1
                         = layout[i].count * SectorsPerCluster
    <2>1. ASSUME NEW i \in DOMAIN layout, Covers(layout[i], k)
          PROVE  /\ k \in 1..n
                 /\ layout[i].region.sectorStart
                      + (k - 1 - layout[i].logicalStart) * SectorsPerCluster
                      = SectorOfCluster(clusters[k])
                 /\ layout[i].region.sectorEnd - layout[i].region.sectorStart + 1
                      = layout[i].count * SectorsPerCluster
      <3>0. PICK a \in Nat, b \in Nat, s \in Nat : Fits(layout[i], a, b, s)
        <4> HIDE DEF Fits
        <4> QED
          BY <1>5
      <3>1. /\ layout[i].logicalStart = a /\ layout[i].count = b /\ b >= 1 /\ a + b <= n
            /\ layout[i].region.sectorStart = SectorOfCluster(s)
            /\ layout[i].region.sectorEnd = SectorOfCluster(s + b - 1) + SectorsPerCluster - 1
            /\ \A l \in Nat : Covers(layout[i], l) <=> a < l /\ l <= a + b
            /\ \A l \in 1..n : Covers(layout[i], l) => clusters[l] = s + (l - 1 - a)
        BY <3>0
      <3>2. k \in 1..n
        BY <2>1, <3>1
      <3>3. PICK j \in Int : j = k - 1 - a
        OBVIOUS
      <3>4. clusters[k] = s + j
        BY <2>1, <3>1, <3>2, <3>3
      <3>5. PICK end : end = layout[i].region.sectorEnd
        OBVIOUS
      <3>6. /\ SectorOfCluster(s) + j * SectorsPerCluster = SectorOfCluster(s + j)
            /\ end - SectorOfCluster(s) + 1 = b * SectorsPerCluster
        <4>1. end = SectorOfCluster(s + b - 1) + SectorsPerCluster - 1
          BY <3>1, <3>5
        <4>2. s \in Int /\ b \in Int
          OBVIOUS
        <4> QED
          BY <4>1, <4>2, SectorsOfRun
      <3>7. layout[i].region.sectorStart + (k - 1 - layout[i].logicalStart) * SectorsPerCluster
              = SectorOfCluster(clusters[k])
        BY <3>1, <3>3, <3>4, <3>6
      <3>8. layout[i].region.sectorEnd - layout[i].region.sectorStart + 1
              = layout[i].count * SectorsPerCluster
        BY <3>1, <3>5, <3>6
      <3> QED
        BY <3>2, <3>7, <3>8
    <2>2. k \in 1..n => \E i \in DOMAIN layout : Covers(layout[i], k)
      BY <1>3 DEF Laid
    <2>3. ASSUME NEW i \in DOMAIN layout, NEW j \in DOMAIN layout,
                 Covers(layout[i], k), Covers(layout[j], k)
          PROVE  j = i
      <3>1. k \in 1..n
        BY <2>1, <2>3
      <3> QED
        BY <1>3, <2>3, <3>1 DEF Laid
    <2> QED
      BY <1>2, <2>1, <2>2, <2>3
  <1>7. LaysOut(layout, clusters)
    <2>1. 1..(NextLogical(layout) + Len(clusters)) = 1..(n + n)
      BY <1>2, <1>4
    <2> QED
      BY <1>6, <2>1 DEF LaysOut, Covers
  <1>8. ASSUME clusters # << >>
        PROVE  /\ layout # << >> /\ 1 \in DOMAIN layout
               /\ layout[1].region.sectorStart = SectorOfCluster(clusters[1])
    <2>1. n >= 1
      BY <1>2, <1>8, EmptySeq
    <2>2. Len(layout) >= 1 /\ layout[1].logicalStart = 0
      BY <1>3, <2>1 DEF Laid
    <2>3. 1 \in DOMAIN layout /\ layout # << >>
      BY <1>4, <2>2, LenProperties, EmptySeq
    <2>4. PICK a \in Nat, b \in Nat, s \in Nat : Fits(layout[1], a, b, s)
      <3> HIDE DEF Fits
      <3> QED
        BY <1>5, <2>3
    <2>5. a = 0 /\ Covers(layout[1], 1)
      BY <2>2, <2>4
    <2>6. clusters[1] = s + (1 - 1 - a)
      BY <2>1, <2>4, <2>5
    <2> QED
      BY <2>3, <2>4, <2>5, <2>6
  <1> QED
    BY <1>1, <1>7, <1>8

-----------------------------------------------------------------------------
(* A list of entries with ids, parents and names. *)
Listing(entries, N) ==
  /\ IsSequence(entries)
  /\ \A i \in DOMAIN entries :
       entries[i].id \in Nat /\ entries[i].parent \in Nat /\ entries[i].name \in N

LEMMA FindFacts ==
  ASSUME NEW entries, IsSequence(entries), NEW id \in IdsOf(entries)
  PROVE  \E i \in DOMAIN entries : Find(entries, id) = entries[i] /\ entries[i].id = id
  <1> DEFINE P == {i \in DOMAIN entries : entries[i].id = id}
  <1>1. P \subseteq Nat /\ DOMAIN entries = 1..Len(entries) /\ Len(entries) \in Nat
    BY LenProperties, SeqDef DEF IsSequence
  <1>2. PICK n \in P : TRUE
    BY DEF IdsOf
  <1>3. PICK m \in P : \A k \in P : m <= k
    BY <1>1, <1>2, LeastExists
  <1>4. \A j \in 1..(m - 1) : entries[j].id # id
    <2> SUFFICES ASSUME NEW j \in 1..(m - 1), entries[j].id = id PROVE FALSE
      OBVIOUS
    <2>1. j \in P
      BY <1>1
    <2> QED
      BY <1>1, <1>3, <2>1
  <1> QED
    BY <1>4 DEF Find

(* The places of a climb, and what one of them adds to the path. *)
Places(entries) == [visited : SUBSET IdsOf(entries), id : Nat]

Above(entries, at) ==
  [visited |-> at.visited \cup {at.id}, id |-> Find(entries, at.id).parent]

Climbed(entries, f, at) ==
  IF Stops(entries, at.visited, at.id)
    THEN << >>
    ELSE Append(f[Above(entries, at)], Find(entries, at.id).name)

Climbs(entries, f) == f = [at \in Places(entries) |-> Climbed(entries, f, at)]

LEMMA AboveIsPlace ==
  ASSUME NEW N, NEW entries, Listing(entries, N), NEW at \in Places(entries),
         ~Stops(entries, at.visited, at.id)
  PROVE  /\ Above(entries, at) \in Places(entries)
         /\ at.id \in IdsOf(entries) /\ at.id \notin at.visited
         /\ Find(entries, at.id).parent \in Nat /\ Find(entries, at.id).name \in N
  <1>1. at.id \in IdsOf(entries) /\ at.id \notin at.visited
    BY DEF Stops
  <1>2. PICK i \in DOMAIN entries : Find(entries, at.id) = entries[i]
    BY <1>1, FindFacts DEF Listing
  <1> QED
    BY <1>1, <1>2 DEF Listing, Above, Places

LEMMA ClimbExists ==
  ASSUME NEW N, NEW entries, Listing(entries, N)
  PROVE  \E f \in [Places(entries) -> Seq(N)] : Climbs(entries, f)
  <1> DEFINE D == Places(entries)
             X == [D -> Seq(N)]
             Up(f) == [at \in D |-> Climbed(entries, f, at)]
             ids == IdsOf(entries)
             m == Cardinality(ids)
             none == [at \in D |-> << >>]
             Step == [i \in 1..(m + 2) |-> [f \in X |-> Up(f)]]
  <1>1. IsFiniteSet(ids) /\ m \in Nat
    <2>1. DOMAIN entries = 1..Len(entries) /\ Len(entries) \in Nat
      BY LenProperties, SeqDef DEF Listing, IsSequence
    <2>2. IsFiniteSet(DOMAIN entries)
      BY <2>1, FS_Interval
    <2> DEFINE g == [i \in DOMAIN entries |-> entries[i].id]
    <2>3. g \in Surjection(DOMAIN entries, ids)
      BY DEF Surjection, IdsOf
    <2>4. IsFiniteSet(ids)
      BY <2>2, <2>3, FS_Surjection
    <2> QED
      BY <2>4, FS_CardinalityType
  <1>2. none \in X
    OBVIOUS
  <1>3. ASSUME NEW f \in X, NEW at \in D PROVE Climbed(entries, f, at) \in Seq(N)
    <2>1. CASE Stops(entries, at.visited, at.id)
      BY <2>1 DEF Climbed
    <2>2. CASE ~Stops(entries, at.visited, at.id)
      <3>1. Above(entries, at) \in D /\ Find(entries, at.id).name \in N
        BY <2>2, AboveIsPlace
      <3>2. f[Above(entries, at)] \in Seq(N)
        BY <3>1
      <3> QED
        BY <2>2, <3>1, <3>2 DEF Climbed
    <2> QED
      BY <2>1, <2>2
  <1> HIDE DEF m, none, D, ids
  <1>4. Step \in [1..(m + 2) -> [X -> X]]
    BY <1>3
  <1>5. PICK g \in [0..(m + 2) -> X] : Computes(g, m + 2, none, Step)
    <2> HIDE DEF X, Step
    <2> QED
      BY <1>1, <1>2, <1>4, RecursionExists
  <1>6. ASSUME NEW k \in 1..(m + 2) PROVE g[k - 1] \in X /\ g[k] \in X /\ g[k] = Up(g[k - 1])
    <2>1. g[k - 1] \in X /\ g[k] \in X
      BY <1>1
    <2>2. g[k] = Step[k][g[k - 1]]
      BY <1>5 DEF Computes
    <2> QED
      BY <2>1, <2>2
  <1>7. ASSUME NEW k \in 1..(m + 2), NEW at \in D PROVE g[k][at] = Climbed(entries, g[k - 1], at)
    BY <1>6
  <1> HIDE DEF Step, X, Up
  <1> DEFINE Agree(k) == \A at \in D : Cardinality(ids \ at.visited) <= k => g[k + 1][at] = g[k + 2][at]
             Z == {k \in 0..m : Agree(k)}
  <1>8. ASSUME NEW at \in D, Stops(entries, at.visited, at.id), NEW k \in 1..(m + 2)
        PROVE  g[k][at] = << >>
    BY <1>7, <1>8 DEF Climbed
  <1>9. ASSUME NEW at \in D PROVE IsFiniteSet(ids \ at.visited) /\ Cardinality(ids \ at.visited) \in Nat
                                 /\ Cardinality(ids \ at.visited) <= m
    BY <1>1, FS_Subset, FS_CardinalityType DEF m
  <1>10. 0 \in Z
    <2> SUFFICES ASSUME NEW at \in D, Cardinality(ids \ at.visited) <= 0 PROVE g[0 + 1][at] = g[0 + 2][at]
      BY <1>1
    <2>1. Cardinality(ids \ at.visited) = 0
      <3>1. PICK c \in Nat : c = Cardinality(ids \ at.visited)
        BY <1>9
      <3> QED
        BY <3>1
    <2>2. ids \ at.visited = {}
      BY <1>9, <2>1, FS_EmptySet
    <2>3. Stops(entries, at.visited, at.id)
      BY <2>2 DEF Stops, ids
    <2> QED
      BY <1>1, <1>8, <2>3
  <1>11. ASSUME NEW k \in 0..(m - 1), k \in Z PROVE k + 1 \in Z
    <2>0. (k + 1) + 1 = k + 2 /\ (k + 1) + 2 = k + 3 /\ k + 1 \in 0..m
      BY <1>1
    <2> SUFFICES ASSUME NEW at \in D, Cardinality(ids \ at.visited) <= k + 1
                 PROVE  g[k + 2][at] = g[k + 3][at]
      BY <2>0
    <2>1. k + 2 \in 1..(m + 2) /\ k + 3 \in 1..(m + 2) /\ k + 2 - 1 = k + 1 /\ k + 3 - 1 = k + 2
      BY <1>1
    <2>2. CASE Stops(entries, at.visited, at.id)
      BY <1>8, <2>1, <2>2
    <2>3. CASE ~Stops(entries, at.visited, at.id)
      <3>1. PICK b \in D : b = Above(entries, at)
        BY <2>3, AboveIsPlace DEF D
      <3>2. at.id \in ids \ at.visited
        BY <2>3, AboveIsPlace DEF D, ids
      <3>3. ids \ b.visited = (ids \ at.visited) \ {at.id}
        BY <3>1 DEF Above
      <3>4. PICK c \in Nat : c = Cardinality(ids \ at.visited)
        BY <1>9
      <3>5. Cardinality(ids \ b.visited) = c - 1 /\ c <= k + 1
        <4>1. PICK S : S = ids \ at.visited
          OBVIOUS
        <4>2. IsFiniteSet(S) /\ at.id \in S /\ ids \ b.visited = S \ {at.id} /\ c = Cardinality(S)
          BY <1>9, <3>2, <3>3, <3>4, <4>1
        <4> QED
          BY <4>2, <3>4, FS_RemoveElement
      <3>6. g[k + 1][b] = g[k + 2][b]
        <4>1. k \in 0..m /\ Agree(k)
          BY <1>11
        <4>2. Cardinality(ids \ b.visited) <= k
          BY <3>4, <3>5
        <4> QED
          BY <4>1, <4>2
      <3>7. /\ g[k + 2][at] = Append(g[k + 1][b], Find(entries, at.id).name)
            /\ g[k + 3][at] = Append(g[k + 2][b], Find(entries, at.id).name)
        <4>1. \A i \in 1..(m + 2) :
                g[i][at] = Append(g[i - 1][b], Find(entries, at.id).name)
          BY <1>7, <2>3, <3>1 DEF Climbed
        <4> QED
          BY <2>1, <4>1
      <3> QED
        BY <3>6, <3>7
    <2> QED
      BY <2>2, <2>3
  <1>12. m \in Z
    <2> HIDE DEF Z
    <2> QED
      BY <1>1, <1>10, <1>11, SetInduction
  <1>13. \A at \in D : g[m + 1][at] = Climbed(entries, g[m + 1], at)
    <2> SUFFICES ASSUME NEW at \in D PROVE g[m + 1][at] = Climbed(entries, g[m + 1], at)
      OBVIOUS
    <2>1. g[m + 1][at] = g[m + 2][at]
      BY <1>9, <1>12
    <2>2. g[m + 2][at] = Climbed(entries, g[m + 1], at)
      <3>1. PICK k \in 1..(m + 2) : k = m + 2
        BY <1>1
      <3>2. k - 1 = m + 1
        BY <1>1, <3>1
      <3> QED
        BY <1>7, <3>1, <3>2
    <2> QED
      BY <2>1, <2>2
  <1>14. g[m + 1] \in [D -> Seq(N)]
    BY <1>1 DEF X
  <1> QED
    BY <1>13, <1>14 DEF Climbs, D

(* What the climb is at every place. *)
LEMMA PathIsClimbed ==
  ASSUME NEW N, NEW entries, Listing(entries, N)
  PROVE  \E f :
           /\ \A at \in Places(entries) : f[at] = Climbed(entries, f, at)
           /\ \A id \in Nat : ResolvePath(entries, id) = f[[visited |-> {}, id |-> id]]
  <1> DEFINE climb == CHOOSE f : Climbs(entries, f)
  <1>1. PICK g \in [Places(entries) -> Seq(N)] : Climbs(entries, g)
    BY ClimbExists
  <1>2. Climbs(entries, climb)
    BY <1>1
  <1>3. \A id : ResolvePath(entries, id) = climb[[visited |-> {}, id |-> id]]
    BY DEF ResolvePath, Climbs, Climbed, Places, Above
  <1>4. \A at \in Places(entries) : climb[at] = Climbed(entries, climb, at)
    <2> HIDE DEF climb
    <2> QED
      BY <1>2 DEF Climbs
  <1> HIDE DEF climb
  <1> QED
    BY <1>3, <1>4

(* Ids identify the entries, and no entry is above the one it names as its *)
(* parent.                                                                 *)
Ordered(entries) ==
  \A i \in DOMAIN entries :
    /\ entries[i].parent <= entries[i].id
    /\ \A j \in DOMAIN entries : entries[j].id = entries[i].id => entries[j] = entries[i]

(* Then a climb meets no id again, and the ids it met do not matter.       *)
LEMMA ClimbForgets ==
  ASSUME NEW N, NEW entries, Listing(entries, N), Ordered(entries), NEW f,
         \A at \in Places(entries) : f[at] = Climbed(entries, f, at),
         NEW id \in Nat, NEW V \in SUBSET IdsOf(entries), \A v \in V : v > id
  PROVE  f[[visited |-> V, id |-> id]] = f[[visited |-> {}, id |-> id]]
  <1> DEFINE ids == IdsOf(entries)
             At(W, n) == [visited |-> W, id |-> n]
             P(n) == \A W \in SUBSET ids : (\A v \in W : v > n) => f[At(W, n)] = f[At({}, n)]
             Z == {n \in Nat : \A k \in 0..n : P(k)}
  <1>1. ids \subseteq Nat
    BY DEF IdsOf, Listing
  <1>2. ASSUME NEW n \in Nat, \A k \in 0..(n - 1) : P(k) PROVE P(n)
    <2> SUFFICES ASSUME NEW W \in SUBSET ids, \A v \in W : v > n PROVE f[At(W, n)] = f[At({}, n)]
      OBVIOUS
    <2>1. At(W, n) \in Places(entries) /\ At({}, n) \in Places(entries)
      BY DEF Places
    <2>2. n \notin W
      BY <1>1
    <2>3. Stops(entries, W, n) <=> Stops(entries, {}, n)
      BY <2>2 DEF Stops
    <2>4. CASE Stops(entries, W, n)
      BY <2>1, <2>3, <2>4 DEF Climbed
    <2>5. CASE ~Stops(entries, W, n)
      <3>1. n \in ids /\ Find(entries, n).parent # n
        BY <2>5 DEF Stops
      <3>2. PICK i \in DOMAIN entries : Find(entries, n) = entries[i] /\ entries[i].id = n
        BY <3>1, FindFacts DEF Listing
      <3>3. PICK p \in Nat : p = Find(entries, n).parent
        BY <3>2 DEF Listing
      <3>4. p < n
        BY <3>1, <3>2, <3>3 DEF Ordered
      <3>5. /\ f[At(W, n)] = Append(f[At(W \cup {n}, p)], Find(entries, n).name)
            /\ f[At({}, n)] = Append(f[At({} \cup {n}, p)], Find(entries, n).name)
        BY <2>1, <2>3, <2>5, <3>3 DEF Climbed, Above
      <3>6. /\ W \cup {n} \in SUBSET ids /\ {} \cup {n} \in SUBSET ids
            /\ \A v \in W \cup {n} : v > p
        BY <1>1, <3>1, <3>4
      <3>7. P(p) /\ p \in 0..(n - 1)
        BY <1>2, <3>4
      <3>8. f[At(W \cup {n}, p)] = f[At({} \cup {n}, p)]
        BY <3>6, <3>7
      <3> QED
        BY <3>5, <3>8
    <2> QED
      BY <2>4, <2>5
  <1> HIDE DEF P
  <1>3. 0 \in Z
    BY <1>2
  <1>4. ASSUME NEW n \in Nat, n \in Z PROVE n + 1 \in Z
    <2>1. P(n + 1)
      <3>1. PICK m \in Nat : m = n + 1
        OBVIOUS
      <3>2. \A k \in 0..(m - 1) : P(k)
        BY <1>4, <3>1
      <3> QED
        BY <1>2, <3>1, <3>2
    <2>2. \A k \in 0..(n + 1) : k \in 0..n \/ k = n + 1
      OBVIOUS
    <2> QED
      BY <1>4, <2>1, <2>2
  <1>5. id \in Z
    <2> HIDE DEF Z
    <2> QED
      BY <1>3, <1>4, SetInduction
  <1>6. P(id)
    BY <1>5
  <1> QED
    BY <1>6 DEF P

(* The path of an entry is the one of its parent and its own name.         *)
LEMMA PathFollowsParent ==
  ASSUME NEW N, NEW entries, Listing(entries, N), Ordered(entries), NEW i \in DOMAIN entries
  PROVE  ResolvePath(entries, entries[i].id) =
           IF entries[i].parent = entries[i].id THEN << >>
           ELSE Append(ResolvePath(entries, entries[i].parent), entries[i].name)
  <1>1. PICK f : /\ \A at \in Places(entries) : f[at] = Climbed(entries, f, at)
                 /\ \A id \in Nat : ResolvePath(entries, id) = f[[visited |-> {}, id |-> id]]
    BY PathIsClimbed
  <1>2. PICK id \in Nat, p \in Nat : id = entries[i].id /\ p = entries[i].parent
    BY DEF Listing
  <1>3. id \in IdsOf(entries) /\ p <= id
    BY <1>2 DEF IdsOf, Ordered
  <1>4. Find(entries, id) = entries[i]
    BY <1>2, <1>3, FindFacts DEF Ordered, Listing
  <1> DEFINE start == [visited |-> {}, id |-> id]
  <1>5. start \in Places(entries)
    BY DEF Places
  <1>6. CASE p = id
    <2>1. Stops(entries, {}, id)
      BY <1>2, <1>4, <1>6 DEF Stops
    <2>2. f[start] = << >>
      BY <1>1, <1>5, <2>1 DEF Climbed
    <2> QED
      BY <1>1, <1>2, <1>6, <2>2
  <1>7. CASE p # id
    <2>1. ~Stops(entries, {}, id)
      BY <1>2, <1>3, <1>4, <1>7 DEF Stops
    <2>2. f[start] = Append(f[[visited |-> {} \cup {id}, id |-> p]], entries[i].name)
      BY <1>1, <1>2, <1>4, <1>5, <2>1 DEF Climbed, Above
    <2>3. {} \cup {id} \in SUBSET IdsOf(entries) /\ \A v \in {} \cup {id} : v > p
      BY <1>3, <1>7
    <2>4. f[[visited |-> {} \cup {id}, id |-> p]] = f[[visited |-> {}, id |-> p]]
      BY <1>1, <2>3, ClimbForgets
    <2> QED
      BY <1>1, <1>2, <1>7, <2>2, <2>4
  <1> QED
    BY <1>6, <1>7

(* Induction over the entries that a climb leads to a root from: what      *)
(* holds of an entry when it holds of its parent holds of all of them.     *)
Grounded(R) ==
  \A e \in R : e.parent = e.id \/ \E p \in R : p.id = e.parent

LEMMA GroundedInduction ==
  ASSUME NEW R, \A e \in R : e.id \in Nat /\ e.parent \in Nat /\ e.parent <= e.id,
         Grounded(R), NEW Good,
         \A e \in R : e.parent = e.id \/ (\E p \in R \cap Good : p.id = e.parent) => e \in Good
  PROVE  R \subseteq Good
  <1> DEFINE Z == {n \in Nat : \A e \in R : e.id <= n => e \in Good}
  <1>1. ASSUME NEW n \in Nat, \A e \in R : e.id < n => e \in Good,
               NEW e \in R, e.id <= n
        PROVE  e \in Good
    <2>1. CASE e.parent = e.id
      BY <2>1
    <2>2. CASE e.parent # e.id
      <3>1. PICK p \in R : p.id = e.parent
        BY <2>2 DEF Grounded
      <3>2. p.id < n
        <4>1. PICK a \in Nat, b \in Nat : a = e.id /\ b = e.parent
          OBVIOUS
        <4> QED
          BY <1>1, <2>2, <3>1, <4>1
      <3> QED
        BY <1>1, <3>1, <3>2
    <2> QED
      BY <2>1, <2>2
  <1>2. 0 \in Z
    <2>1. \A e \in R : ~(e.id < 0)
      OBVIOUS
    <2> QED
      BY <1>1, <2>1
  <1>3. ASSUME NEW n \in Nat, n \in Z PROVE n + 1 \in Z
    <2>1. \A e \in R : e.id < n + 1 => e \in Good
      BY <1>3
    <2>2. PICK m \in Nat : m = n + 1
      OBVIOUS
    <2> QED
      BY <1>1, <2>1, <2>2
  <1>4. ASSUME NEW n \in Nat PROVE n \in Z
    <2> HIDE DEF Z
    <2> QED
      BY <1>2, <1>3, SetInduction
  <1>5. ASSUME NEW e \in R PROVE e \in Good
    <2>1. e.id \in Z /\ e.id <= e.id
      BY <1>4
    <2> QED
      BY <2>1
  <1> QED
    BY <1>5

(* Where no two entries share both parent and name, paths tell them apart. *)
LEMMA PathsTellApart ==
  ASSUME NEW N, NEW entries, Listing(entries, N), Ordered(entries),
         NEW R \in SUBSET ToSet(entries), Grounded(R),
         \A d, e \in R : d.parent = e.parent /\ d.name = e.name => d = e,
         \A d, e \in R : d.parent = d.id /\ e.parent = e.id => d = e
  PROVE  \A d, e \in R : ResolvePath(entries, d.id) = ResolvePath(entries, e.id) => d = e
  <1> DEFINE Path(e) == ResolvePath(entries, e.id)
             Typed == {e \in R : Path(e) \in Seq(N)}
             Told == {d \in R : \A e \in R : Path(d) = Path(e) => d = e}
  <1>1. ASSUME NEW e \in R
        PROVE  /\ e.id \in Nat /\ e.parent \in Nat /\ e.parent <= e.id /\ e.name \in N
               /\ Path(e) = IF e.parent = e.id THEN << >>
                            ELSE Append(ResolvePath(entries, e.parent), e.name)
    <2>1. PICK i \in DOMAIN entries : e = entries[i]
      BY DEF ToSet
    <2>2. e.id \in Nat /\ e.parent \in Nat /\ e.parent <= e.id /\ e.name \in N
      BY <2>1 DEF Listing, Ordered
    <2>3. Path(e) = IF e.parent = e.id THEN << >>
                    ELSE Append(ResolvePath(entries, e.parent), e.name)
      BY <2>1, PathFollowsParent
    <2> QED
      BY <2>2, <2>3
  <1>2. ASSUME NEW e \in R, NEW p \in R, p.id = e.parent
        PROVE  Path(e) = IF e.parent = e.id THEN << >> ELSE Append(Path(p), e.name)
    BY <1>1, <1>2
  <1> HIDE DEF Path
  <1>3. R \subseteq Typed
    <2>1. ASSUME NEW e \in R, e.parent = e.id PROVE e \in Typed
      <3>1. Path(e) = << >>
        BY <1>1, <2>1
      <3>2. << >> \in Seq(N)
        OBVIOUS
      <3> QED
        BY <3>1, <3>2
    <2>2. ASSUME NEW e \in R, NEW p \in R \cap Typed, p.id = e.parent PROVE e \in Typed
      <3>1. CASE e.parent = e.id
        BY <2>1, <3>1
      <3>2. CASE e.parent # e.id
        <4>1. Path(e) = Append(Path(p), e.name)
          BY <1>2, <2>2, <3>2
        <4>2. PICK q \in Seq(N), n \in N : q = Path(p) /\ n = e.name
          BY <1>1
        <4>3. Append(q, n) \in Seq(N)
          OBVIOUS
        <4> QED
          BY <4>1, <4>2, <4>3
      <3> QED
        BY <3>1, <3>2
    <2> HIDE DEF Typed
    <2> QED
      BY <1>1, <2>1, <2>2, GroundedInduction
  <1>4. \A e \in R : Path(e) \in Seq(N)
    BY <1>3
  <1>5. ASSUME NEW e \in R, e.parent # e.id PROVE Path(e) # << >>
    <2>1. PICK p \in R : p.id = e.parent
      BY <1>5 DEF Grounded
    <2>2. Path(e) = Append(Path(p), e.name)
      BY <1>2, <1>5, <2>1
    <2>3. PICK q \in Seq(N) : q = Path(p)
      BY <1>4
    <2>4. Append(q, e.name) # << >>
      BY <1>1, <2>3
    <2> QED
      BY <2>2, <2>3, <2>4
  <1>6. R \subseteq Told
    <2>1. ASSUME NEW d \in R, d.parent = d.id PROVE d \in Told
      <3> SUFFICES ASSUME NEW e \in R, Path(d) = Path(e) PROVE d = e
        OBVIOUS
      <3>1. Path(d) = << >>
        BY <1>1, <2>1
      <3> QED
        BY <1>5, <2>1, <3>1
    <2>2. ASSUME NEW d \in R, NEW p \in R \cap Told, p.id = d.parent, d.parent # d.id PROVE d \in Told
      <3> SUFFICES ASSUME NEW e \in R, Path(d) = Path(e) PROVE d = e
        OBVIOUS
      <3>1. e.parent # e.id
        BY <1>1, <1>5, <2>2
      <3>2. PICK q \in R : q.id = e.parent
        BY <3>1 DEF Grounded
      <3>3. Append(Path(p), d.name) = Append(Path(q), e.name)
        BY <1>2, <2>2, <3>1, <3>2
      <3>4. Path(p) = Path(q) /\ d.name = e.name
        <4>1. PICK s \in Seq(N), t \in Seq(N), a \in N, b \in N :
                s = Path(p) /\ t = Path(q) /\ a = d.name /\ b = e.name
          BY <1>1, <1>4
        <4>2. Append(s, a) = Append(t, b)
          BY <3>3, <4>1
        <4> QED
          BY <4>1, <4>2, AppendProperties
      <3>5. p = q
        BY <2>2, <3>2, <3>4
      <3> QED
        BY <2>2, <3>2, <3>4, <3>5
    <2>3. \A d \in R : d.parent = d.id \/ (\E p \in R \cap Told : p.id = d.parent) => d \in Told
      <3> HIDE DEF Told
      <3> QED
        BY <2>1, <2>2
    <2> HIDE DEF Told
    <2> QED
      BY <1>1, <2>3, GroundedInduction
  <1> QED
    BY <1>6 DEF Path
=============================================================================
