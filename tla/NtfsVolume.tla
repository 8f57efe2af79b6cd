----------------------------- MODULE NtfsVolume -----------------------------
(***************************************************************************)
(* An NTFS volume as its parsers see it (filesystem/ntfs/): records in the *)
(* slots of the master file table, whose own clusters the first record     *)
(* describes, and the attributes of a record.                              *)
(***************************************************************************)
EXTENDS Integers, SequencesExt

CONSTANTS Base,              \* values of a byte, 256 in the code
          WordBytes,         \* bytes of a word, 8 in the code
          RecordsPerCluster, \* slots in a cluster
          RecordSize,        \* the size of one, in the units of file sizes
          Volumes            \* the volumes looked at

ASSUME ByteAssumption ==
  Base \in Nat \ {0} /\ Base % 2 = 0 /\ WordBytes \in Nat \ {0}

ASSUME MftAssumption ==
  RecordsPerCluster \in Nat \ {0} /\ RecordSize \in Nat \ {0}

VARIABLE volume   \* [mft, clusters]: where the table begins, slots by cluster

-----------------------------------------------------------------------------
(* The run lists (data_run.rs): where the clusters of an attribute lie.    *)
(* Every element gives a number of clusters and, in two's complement, how  *)
(* far its first cluster is from that of the last element that had one; an *)
(* element without distance is sparse.  Numbers are sequences of bytes,    *)
(* the lowest first.                                                       *)
Byte == 0..(Base - 1)

(* An element is [count, delta]; a list is cut when its end mark is missing*)
(* or an element reaches over the end of the attribute.                    *)
Sparse == -1

(* How many numbers so many bytes have. *)
Power[n \in 0..WordBytes] == IF n = 0 THEN 1 ELSE Base * Power[n - 1]

WordMax == Power[WordBytes] - 1

(* The sum of the first i numbers of a list. *)
SumUpTo(numbers, i) ==
  LET sum[j \in 0..Len(numbers)] == IF j = 0 THEN 0 ELSE sum[j - 1] + numbers[j]
  IN  sum[i]

Unsigned(bytes) ==
  SumUpTo([i \in DOMAIN bytes |-> bytes[i] * Power[i - 1]], Len(bytes))

(* Explicit sign extension of the bits that are there. *)
Signed(bytes) ==
  IF 2 * Unsigned(bytes) >= Power[Len(bytes)]
    THEN Unsigned(bytes) - Power[Len(bytes)] ELSE Unsigned(bytes)

(* What fits a signed word and is not negative. *)
Lcns == 0..((Power[WordBytes] \div 2) - 1)

(* A count without bytes or of zero, a distance that is wider than a word. *)
BadElement(e) == e.count = << >> \/ Unsigned(e.count) = 0 \/ Len(e.delta) > WordBytes

(* Mutant: a sparse element takes the reference point away. *)
LcnAfter_Forgets(list, i) ==
  SumUpTo([j \in DOMAIN list.elements |->
             IF \E k \in j..i : list.elements[k].delta = << >> THEN 0
             ELSE Signed(list.elements[j].delta)], i)

(* previous_lcn behind the i-th element; a sparse one leaves it alone.     *)
LcnAfter(list, i) ==
  SumUpTo([j \in DOMAIN list.elements |-> Signed(list.elements[j].delta)], i)

IsRunList(list) ==
  /\ ~list.cut
  /\ \A i \in DOMAIN list.elements : ~BadElement(list.elements[i])
  /\ \A i \in DOMAIN list.elements : LcnAfter(list, i) \in Lcns

(* DataRun::parse of a list without errors. *)
RunsOf(list) ==
  [i \in DOMAIN list.elements |->
     [lcn |-> IF list.elements[i].delta = << >> THEN Sparse ELSE LcnAfter(list, i),
      count |-> Unsigned(list.elements[i].count)]]

(* The clusters in the runs before the i-th. *)
CountBefore(runs, i) == SumUpTo([j \in DOMAIN runs |-> runs[j].count], i - 1)

-----------------------------------------------------------------------------
(* What the format says a list means, cluster by cluster.                  *)
ClustersUpTo(list, i) ==
  SumUpTo([j \in DOMAIN list.elements |-> Unsigned(list.elements[j].count)], i)

Clusters(list) == ClustersUpTo(list, Len(list.elements))

(* The number between the signed bounds that has these bytes. *)
Distance(bytes) ==
  LET half == Power[Len(bytes)] \div 2
  IN  CHOOSE d \in (-half)..(half - 1) : (d - Unsigned(bytes)) % Power[Len(bytes)] = 0

(* The first cluster of an element that has a distance: all distances up to*)
(* it together.                                                            *)
Placed(list, i) ==
  SumUpTo([j \in DOMAIN list.elements |->
             IF list.elements[j].delta = << >> THEN 0 ELSE Distance(list.elements[j].delta)], i)

(* The cluster of the volume that holds cluster k of the attribute.        *)
LcnAt(list, k) ==
  LET i == CHOOSE j \in DOMAIN list.elements :
             ClustersUpTo(list, j - 1) <= k /\ k < ClustersUpTo(list, j)
  IN  IF list.elements[i].delta = << >> THEN Sparse
      ELSE Placed(list, i) + (k - ClustersUpTo(list, i - 1))

-----------------------------------------------------------------------------
(* A slot is all zero, damaged (signature or update sequence), or a record *)
(* [kind, inUse, attributes].                                              *)
Zero == [kind |-> "zero"]
Damaged == [kind |-> "damaged"]

(* Attributes have a type: "end"; "broken", whose header or length cannot  *)
(* be; "name", [valid, name, parent, directory, system, size]; "data",     *)
(* [resident, size, list]; "index", [valid]; "other", of any other type.   *)

(* The places of the attributes up to the end mark. *)
Seen(slot) ==
  {i \in DOMAIN slot.attributes : \A j \in 1..i : slot.attributes[j].type # "end"}

PlacesOf(slot, type) == {i \in Seen(slot) : slot.attributes[i].type = type}

(* Standard information that cannot be read is passed over. *)
Unreadable(a) ==
  \/ a.type = "broken"
  \/ a.type \in {"name", "index"} /\ ~a.valid
  \/ a.type = "data" /\ ~a.resident /\ ~IsRunList(a.list)

(* MftRecord::new and MftParser::parse succeed. *)
IsParsed(slot) ==
  slot.kind = "record" /\ \A i \in Seen(slot) : ~Unreadable(slot.attributes[i])

NamesOf(slot) ==
  FlattenSeq([i \in DOMAIN slot.attributes |->
                IF i \in PlacesOf(slot, "name") THEN <<slot.attributes[i]>> ELSE << >>])

NoData == [resident |-> FALSE, size |-> 0, runs |-> << >>, list |-> [elements |-> << >>, cut |-> FALSE]]

(* The DATA attribute of a record: of several, the last. *)
DataOf(slot) ==
  LET data == slot.attributes[Max(PlacesOf(slot, "data"))] IN
  IF PlacesOf(slot, "data") = {} THEN NoData
  ELSE [resident |-> data.resident, size |-> data.size, list |-> data.list,
        runs |-> IF data.resident THEN << >> ELSE RunsOf(data.list)]

(* Nothing else is asked of the volumes.  A count wider than a word, which *)
(* the code shifts out of the word, is left out.                           *)
IsList(list) ==
  /\ list.elements \in Seq([count : Seq(Byte), delta : Seq(Byte)])
  /\ \A i \in DOMAIN list.elements : Len(list.elements[i].count) <= WordBytes

IsAttribute(a) ==
  \/ a.type \in {"end", "broken", "other"}
  \/ a.type = "index" /\ a.valid \in BOOLEAN
  \/ a.type = "name" /\ a.valid \in BOOLEAN /\ a.size \in Nat
  \/ a.type = "data" /\ a.resident \in BOOLEAN /\ a.size \in Nat /\ IsList(a.list)

IsSlot(slot) ==
  \/ slot.kind \in {"zero", "damaged"}
  \/ /\ slot.kind = "record"
     /\ slot.attributes \in Seq(ToSet(slot.attributes))
     /\ \A a \in ToSet(slot.attributes) : IsAttribute(a)

IsVolume(v) ==
  /\ v.mft \in Nat /\ DOMAIN v.clusters \subseteq Nat
  /\ \A c \in DOMAIN v.clusters :
       /\ v.clusters[c] \in Seq(ToSet(v.clusters[c]))
       /\ Len(v.clusters[c]) = RecordsPerCluster
       /\ \A slot \in ToSet(v.clusters[c]) : IsSlot(slot)

ASSUME VolumeAssumption == \A v \in Volumes : IsVolume(v)

-----------------------------------------------------------------------------
InImage(c) == c \in DOMAIN volume.clusters

ReadCluster(c) == volume.clusters[c]

(* read_run: zeros for a sparse run; the image must hold all of another.   *)
ReadRun(run) ==
  [i \in 1..(run.count * RecordsPerCluster) |->
     IF run.lcn = Sparse THEN Zero
     ELSE ReadCluster(run.lcn + ((i - 1) \div RecordsPerCluster))[((i - 1) % RecordsPerCluster) + 1]]

IsReadable(run) ==
  run.lcn = Sparse \/ \A i \in 1..run.count : InImage(run.lcn + i - 1)

(* Runs are read until there is enough, which there must be. *)
CanRead(runs, count) ==
  /\ \A i \in DOMAIN runs :
       CountBefore(runs, i) * RecordsPerCluster < count => IsReadable(runs[i])
  /\ count <= CountBefore(runs, Len(runs) + 1) * RecordsPerCluster

(* read_runs: the first records of the stream. *)
ReadRuns(runs, count) ==
  LET read[i \in 0..Len(runs)] ==
        CASE i = 0 -> << >>
          [] i > 0 /\ Len(read[i - 1]) >= count -> read[i - 1]
          [] OTHER -> read[i - 1] \o ReadRun(runs[i])
  IN  SubSeq(read[Len(runs)], 1, count)

(* Record 0, read at the cluster the boot sector gives. *)
RecordZero == IF InImage(volume.mft) THEN ReadCluster(volume.mft)[1] ELSE Damaged

(* Its DATA attribute must lie in clusters and hold whole records. *)
IsTable(data) ==
  ~data.resident /\ data.size > 0 /\ data.size % RecordSize = 0

TableData == DataOf(RecordZero)
Size == TableData.size \div RecordSize

(* Can the master file table be put together from its runs? *)
IsOpened ==
  /\ IsParsed(RecordZero) /\ PlacesOf(RecordZero, "data") # {}
  /\ IsTable(TableData)
  /\ CanRead(TableData.runs, Size)
=============================================================================
