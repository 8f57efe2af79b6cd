-------------------------- MODULE InspectionProofs --------------------------
(***************************************************************************)
(* Proofs about the inspection of an image and what shows its result.      *)
(* PartitionInspection, for every image: the lists of the result run in    *)
(* parallel with the partitions, because every turn that does not end the  *)
(* inspection adds one element to each.  TuiSession, for every order of    *)
(* keys and answers.  EvidenceNavigation, for entries of any number,       *)
(* whatever cycles and repeated ids they have: the traversal lists wanted  *)
(* files below its root only, each once, and all of them when it ends; the *)
(* recursion of the tree ends if ids are unique, and leaves out cycles and *)
(* what hangs on them only.                                                *)
(***************************************************************************)
EXTENDS PartitionInspection, TuiSession, EvidenceNavigation, ListProofs

-----------------------------------------------------------------------------
(* Part 1: the inspection.  First the geometry of the volumes.             *)

LEMMA PowerOfTwoType ==
  ASSUME NEW n \in 0..31
  PROVE  PowerOfTwo[n] \in Nat \ {0}
  <1> DEFINE X == Nat \ {0}
             Step == [i \in 1..31 |-> [x \in X |-> 2 * x]]
             Doubles(f) == f = [i \in 0..31 |-> IF i = 0 THEN 1 ELSE 2 * f[i - 1]]
             P == CHOOSE f : Doubles(f)
  <1>1. \E f : Doubles(f)
    <2>1. 31 \in Nat /\ 1 \in X /\ Step \in [1..31 -> [X -> X]]
      OBVIOUS
    <2>2. ASSUME NEW i \in 1..31, NEW x \in X PROVE Step[i][x] = 2 * x
      OBVIOUS
    <2> HIDE DEF Step, X
    <2>3. PICK f \in [0..31 -> X] : Computes(f, 31, 1, Step)
      BY <2>1, RecursionExists
    <2>4. ASSUME NEW i \in 0..31 PROVE f[i] = IF i = 0 THEN 1 ELSE 2 * f[i - 1]
      <3>1. CASE i = 0
        BY <2>3, <3>1 DEF Computes
      <3>2. CASE i # 0
        <4>1. i \in 1..31 /\ i - 1 \in 0..31
          BY <3>2
        <4> QED
          BY <2>2, <2>3, <3>2, <4>1 DEF Computes
      <3> QED
        BY <3>1, <3>2
    <2>5. Doubles(f)
      BY <2>4
    <2> QED
      BY <2>5
  <1>2. Doubles(P)
    BY <1>1
  <1>3. PowerOfTwo = P
    BY DEF PowerOfTwo
  <1> HIDE DEF P
  <1>4. ASSUME NEW i \in 0..31 PROVE P[i] = IF i = 0 THEN 1 ELSE 2 * P[i - 1]
    BY <1>2
  <1> DEFINE Z == {k \in 0..n : P[k] \in Nat \ {0}}
  <1>5. 0 \in Z
    BY <1>4
  <1>6. ASSUME NEW k \in 0..(n - 1), k \in Z PROVE k + 1 \in Z
    <2>1. k + 1 \in 0..31 /\ k + 1 # 0 /\ k + 1 - 1 = k
      OBVIOUS
    <2>2. P[k + 1] = 2 * P[k]
      BY <1>4, <2>1
    <2> QED
      BY <1>6, <2>2
  <1>7. n \in Z
    <2> HIDE DEF Z
    <2> QED
      BY <1>5, <1>6, SetInduction
  <1> QED
    BY <1>3, <1>7

(* The region of the model begins where the reader reads, if the sectors   *)
(* of the volume are those of the model or the model converts them.        *)
LEMMA RegionIsCluster ==
  ASSUME NEW b \in BootRecord, Accepts(b), NEW c \in Nat, c > 2
  PROVE  /\ RegionStart(b, c) * SectorBytes = ClusterOffset(b, c)
             <=> (b.type \in {"exfat", "ext4"} \/ b.bytesPerSector = SectorBytes)
         /\ RegionStart(b, c) * SectorBytes \in Nat /\ ClusterOffset(b, c) \in Nat
  <1>1. CASE b.type = "fat32"
    <2>1. /\ AcceptsFat32(b) /\ b.bytesPerSector \in Nat /\ b.sectorsPerCluster \in Nat /\ b.fats \in Nat
          /\ b.fatSize \in Nat /\ b.rootEntries \in Nat /\ b.reserved \in Nat
      BY <1>1 DEF Accepts, BootRecord
    <2>2. b.bytesPerSector \in SectorSizes /\ b.sectorsPerCluster > 0
      <3>1. PICK k \in 0..7 : b.sectorsPerCluster = PowerOfTwo[k]
        BY <2>1 DEF AcceptsFat32
      <3>2. PowerOfTwo[k] \in Nat \ {0}
        BY PowerOfTwoType
      <3> QED
        BY <2>1, <3>1, <3>2 DEF AcceptsFat32
    <2>3. RootDirSectors(b) \in Nat
      <3>1. \A size \in Nat : size * SlotBytes \in Nat
        BY DEF SlotBytes
      <3>2. \A m \in Nat : (m + b.bytesPerSector - 1) \div b.bytesPerSector \in Nat
        BY <2>2 DEF SectorSizes
      <3> QED
        BY <2>1, <3>1, <3>2 DEF RootDirSectors
    <2>4. FirstDataSector(b) \in Nat
      <3>1. b.fats * b.fatSize \in Nat
        BY <2>1
      <3> QED
        BY <2>1, <2>3, <3>1 DEF FirstDataSector
    <2>5. SectorOfCluster(b, c) \in Nat \ {0}
      <3>1. (c - 2) * b.sectorsPerCluster \in Nat \ {0}
        BY <2>1, <2>2
      <3> QED
        BY <2>4, <3>1 DEF SectorOfCluster
    <2>6. RegionStart(b, c) = SectorOfCluster(b, c)
          /\ ClusterOffset(b, c) = SectorOfCluster(b, c) * b.bytesPerSector
      BY <1>1 DEF RegionStart, ClusterOffset
    <2>7. \A s \in Nat \ {0} : \A n \in Nat :
            (s * 512 = s * n <=> n = 512) /\ s * 512 \in Nat /\ s * n \in Nat
      OBVIOUS
    <2> QED
      BY <1>1, <2>1, <2>5, <2>6, <2>7 DEF SectorBytes
  <1>2. CASE b.type = "exfat"
    <2>1. /\ AcceptsExFat(b) /\ b.bytesPerSector \in Nat /\ b.sectorsPerCluster \in Nat /\ b.heap \in Nat
      BY <1>2 DEF Accepts, BootRecord
    <2>2. PICK m \in {1, 2, 4, 8} : b.bytesPerSector = 512 * m
      BY <2>1 DEF AcceptsExFat, SectorSizes
    <2>3. \A n \in Nat : (512 * n) \div 512 = n
      OBVIOUS
    <2>4. (b.heap * b.bytesPerSector) \div 512 = b.heap * m
      <3>1. b.heap * b.bytesPerSector = 512 * (b.heap * m) /\ b.heap * m \in Nat
        BY <2>1, <2>2
      <3> QED
        BY <2>3, <3>1
    <2>5. ClusterBytes(b) = 512 * (m * b.sectorsPerCluster) /\ m * b.sectorsPerCluster \in Nat
      BY <2>1, <2>2 DEF ClusterBytes
    <2>6. RegionStart(b, c) = b.heap * m + (c - 2) * (m * b.sectorsPerCluster)
      BY <1>2, <2>3, <2>4, <2>5 DEF RegionStart, ExFatRegion, ModelSector
    <2>7. ClusterOffset(b, c) = b.heap * (512 * m) + (c - 2) * (512 * (m * b.sectorsPerCluster))
      BY <1>2, <2>2, <2>5 DEF ClusterOffset
    <2> DEFINE x == m * b.sectorsPerCluster
    <2>8. x \in Nat
      BY <2>5
    <2> HIDE DEF x
    <2>9. /\ (b.heap * m + (c - 2) * x) * 512 = b.heap * (512 * m) + (c - 2) * (512 * x)
          /\ b.heap * (512 * m) + (c - 2) * (512 * x) \in Nat
      <3>1. c - 2 \in Nat /\ m \in Nat
        OBVIOUS
      <3> QED
        BY <2>1, <2>8, <3>1
    <2> QED
      BY <1>2, <2>6, <2>7, <2>9 DEF SectorBytes, x
  <1>3. CASE b.type = "ntfs"
    <2>1. /\ b.bytesPerSector \in Nat /\ b.sectorsPerCluster \in Nat \ {0}
      BY <1>3 DEF Accepts, AcceptsNtfs, BootRecord
    <2>2. RegionStart(b, c) = c * b.sectorsPerCluster
          /\ ClusterOffset(b, c) = c * (b.bytesPerSector * b.sectorsPerCluster)
      BY <1>3 DEF RegionStart, ClusterOffset, ClusterBytes
    <2>3. c * b.sectorsPerCluster \in Nat \ {0}
          /\ c * (b.bytesPerSector * b.sectorsPerCluster) = (c * b.sectorsPerCluster) * b.bytesPerSector
      BY <2>1
    <2>4. \A s \in Nat \ {0} : \A n \in Nat :
            (s * 512 = s * n <=> n = 512) /\ s * 512 \in Nat /\ s * n \in Nat
      OBVIOUS
    <2> QED
      BY <1>3, <2>1, <2>2, <2>3, <2>4 DEF SectorBytes
  <1>4. CASE b.type = "ext4"
    <2> DEFINE x == PowerOfTwo[Shift(b.logBlockSize)]
    <2>1. x \in Nat
      <3>1. b.logBlockSize \in Nat
        BY <1>4 DEF BootRecord
      <3>2. Shift(b.logBlockSize) \in 0..31
        BY <3>1 DEF Shift
      <3> QED
        BY <3>2, PowerOfTwoType
    <2>2. RegionStart(b, c) = c * ((1024 * x) \div 512) /\ ClusterOffset(b, c) = c * (1024 * x)
      BY <1>4 DEF RegionStart, ClusterOffset, BlockBytes, ModelSector
    <2> HIDE DEF x
    <2>3. (1024 * x) \div 512 = 2 * x
      BY <2>1
    <2>4. (c * (2 * x)) * 512 = c * (1024 * x) /\ c * (1024 * x) \in Nat
      BY <2>1
    <2> QED
      BY <1>4, <2>2, <2>3, <2>4 DEF SectorBytes
  <1> QED
    BY <1>1, <1>2, <1>3, <1>4 DEF Accepts

-----------------------------------------------------------------------------
(* The table.                                                              *)


-----------------------------------------------------------------------------
(* The table.                                                              *)

(* Each partition that is pushed is in the list, and nothing else.         *)
PushAll(n, used, part) == FlattenSeq([i \in 1..n |-> Pushed(used[i], part[i])])

LEMMA PushedIsListed ==
  ASSUME NEW n \in Nat, NEW used \in [1..n -> BOOLEAN], NEW part
  PROVE  /\ IsSequence(PushAll(n, used, part))
         /\ ToSet(PushAll(n, used, part)) = {part[i] : i \in {k \in 1..n : used[k]}}
  <1> DEFINE S == {part[i] : i \in 1..n}
             s == [i \in 1..n |-> Pushed(used[i], part[i])]
             list == FlattenSeq(s)
  <1>1. \A i \in 1..n : part[i] \in S
    OBVIOUS
  <1> HIDE DEF S
  <1>2. \A i \in 1..n : Pushed(used[i], part[i]) \in Seq(S)
    BY <1>1 DEF Pushed
  <1>3. s \in Seq(Seq(S)) /\ DOMAIN s = 1..n
    BY <1>2
  <1>4. list \in Seq(S) /\ ToSet(list) = UNION {ToSet(s[i]) : i \in DOMAIN s}
    <2> HIDE DEF s
    <2> QED
      BY <1>3, FlattenFacts
  <1>5. \A i \in 1..n : ToSet(s[i]) = IF used[i] THEN {part[i]} ELSE {}
    <2> TAKE i \in 1..n
    <2>1. s[i] = Pushed(used[i], part[i])
      OBVIOUS
    <2> HIDE DEF s
    <2> QED
      BY <2>1 DEF Pushed, ToSet
  <1>6. PushAll(n, used, part) = list
    BY DEF PushAll
  <1> HIDE DEF s, list
  <1>7. ToSet(list) = {part[i] : i \in {k \in 1..n : used[k]}}
    <2>1. ASSUME NEW z \in ToSet(list) PROVE \E i \in 1..n : used[i] /\ z = part[i]
      <3>1. PICK i \in DOMAIN s : z \in ToSet(s[i])
        BY <1>4, <2>1
      <3> QED
        BY <1>3, <1>5, <3>1
    <2>2. ASSUME NEW i \in 1..n, used[i] PROVE part[i] \in ToSet(list)
      <3>1. part[i] \in ToSet(s[i]) /\ i \in DOMAIN s
        BY <1>3, <1>5, <2>2
      <3> QED
        BY <1>4, <3>1
    <2> QED
      BY <2>1, <2>2
  <1>8. IsSequence(list)
    BY <1>4, ListIsSequence
  <1> QED
    BY <1>6, <1>7, <1>8

LEMMA ImageFacts ==
  ASSUME image \in ImageFiles
  PROVE  /\ image.size \in Nat /\ image.mbr \in [Slots -> MbrEntry] /\ image.gpt \in GptHeader
         /\ image.efi \in BOOLEAN /\ image.signature \in BOOLEAN
         /\ \A sector : ContentAt(sector) \in Volume
  <1>1. NoVolume \in Volume
    BY DEF NoVolume, Volume
  <1> QED
    BY <1>1, ImageAssumption DEF ContentAt

(* The list of the partitions holds what the table declares. *)
LEMMA TableIsDeclared ==
  ASSUME image \in ImageFiles
  PROVE  IsSequence(ParseTable) /\ ToSet(ParseTable) = Declared
  <1>1. CASE DetectTable = "mbr"
    <2> DEFINE used == [i \in 1..4 |-> image.mbr[i].type \in KnownTypes]
               part == [i \in 1..4 |-> MbrPartition(i)]
    <2>1. used \in [1..4 -> BOOLEAN] /\ 4 \in Nat
      OBVIOUS
    <2>2. ParseMbr = PushAll(4, used, part)
      BY DEF ParseMbr, Slots, PushAll
    <2>3. {part[i] : i \in {k \in 1..4 : used[k]}}
            = {MbrPartition(i) : i \in {k \in Slots : image.mbr[k].type \in KnownTypes}}
      BY DEF Slots
    <2> HIDE DEF used, part
    <2>4. IsSequence(ParseMbr) /\ ToSet(ParseMbr) = {part[i] : i \in {k \in 1..4 : used[k]}}
      BY <2>1, <2>2, PushedIsListed
    <2> QED
      BY <1>1, <2>3, <2>4 DEF ParseTable, Declared
  <1>2. CASE DetectTable = "gpt"
    <2> DEFINE e == image.gpt.entries
               n == Len(e)
               used == [i \in 1..n |-> e[i].used]
               part == [i \in 1..n |-> GptPartition(i)]
    <2>1. e \in Seq(GptEntry)
      BY ImageFacts DEF GptHeader
    <2>2. n \in Nat /\ DOMAIN e = 1..n /\ \A i \in 1..n : e[i].used \in BOOLEAN
      <3> HIDE DEF e
      <3>1. n \in Nat /\ DOMAIN e = 1..n /\ \A i \in 1..n : e[i] \in GptEntry
        BY <2>1, LenProperties
      <3> QED
        BY <3>1 DEF GptEntry
    <2>3. used \in [1..n -> BOOLEAN]
      BY <2>2
    <2>4. ParseGpt = PushAll(n, used, part)
      BY <2>2 DEF ParseGpt, PushAll
    <2>5. {part[i] : i \in {k \in 1..n : used[k]}}
            = {GptPartition(i) : i \in {k \in DOMAIN e : e[k].used}}
      BY <2>2
    <2> HIDE DEF n, used, part
    <2>6. IsSequence(ParseGpt) /\ ToSet(ParseGpt) = {part[i] : i \in {k \in 1..n : used[k]}}
      BY <2>2, <2>3, <2>4, PushedIsListed
    <2> QED
      BY <1>2, <2>5, <2>6 DEF ParseTable, Declared
  <1>3. CASE DetectTable \notin {"mbr", "gpt"}
    <2>1. ParseTable = << >> /\ Declared = {}
      BY <1>3 DEF ParseTable, Declared
    <2> QED
      BY <2>1 DEF IsSequence, ToSet
  <1> QED
    BY <1>1, <1>2, <1>3


-----------------------------------------------------------------------------
(* The inspection.                                                         *)

(* A place of the list, and where its volume begins. *)
StartOf(i) == IF IsWhole THEN 0 ELSE partitions[i].start
IsLookedAt(i) == ~IsWhole => InImage(partitions[i])

(* What the lists hold of one place. *)
Fits(i) ==
  models[i] # NoModel =>
    /\ models[i].type = filesystems[i] /\ trees[i] = models[i]
    /\ models[i].start * SectorBytes = EngineOffset(i)
    /\ models[i].start \in Nat /\ models[i].boot \in BootRecord /\ Accepts(models[i].boot)

(* What is known of a place the inspection has been at. *)
WasInspected(i) ==
  /\ i \in Places
  /\ IsLookedAt(i) => /\ ~IsBad(StartOf(i))
                      /\ IsSupported(Detected(StartOf(i))) => models[i] = ModelAt(StartOf(i))

(* Before the table is read nothing is in the lists.                       *)
InspectionInv ==
  /\ TypeOK /\ image \in ImageFiles
  /\ IsSequence(filesystems) /\ IsSequence(models) /\ IsSequence(trees)
  /\ Len(filesystems) = turn - 1 /\ Len(models) = turn - 1 /\ Len(trees) = turn - 1
  /\ \A i \in 1..(turn - 1) : Fits(i) /\ WasInspected(i)
  /\ status = "opening" => turn = 1
  /\ status \in {"inspecting", "done"} => TableIsValid /\ partitions = ParseTable
  /\ status = "done" => turn \notin Places
  /\ status = "failed" => IsDamaged

LEMMA InspectionInit == Init => InspectionInv
  <1> SUFFICES ASSUME Init PROVE InspectionInv
    OBVIOUS
  <1>1. /\ filesystems = << >> /\ models = << >> /\ trees = << >> /\ turn = 1 /\ status = "opening"
        /\ image \in ImageFiles
    BY DEF Init
  <1>2. IsSequence(<< >>)
    BY DEF IsSequence
  <1> QED
    BY <1>1, <1>2 DEF InspectionInv, TypeOK

LEMMA DetectedType ==
  ASSUME NEW sector
  PROVE  Detected(sector) \in FileSystems \cup {"unknown"}
  <1> DEFINE content == ContentAt(sector)
  <1>1. CASE "ntfs" \in content.labels
    BY <1>1 DEF Detected, FileSystems
  <1>2. CASE "ntfs" \notin content.labels /\ "fat32" \in content.labels
    BY <1>2 DEF Detected, FileSystems
  <1>3. CASE content.labels = {"exfat"}
    BY <1>3 DEF Detected, FileSystems
  <1>4. CASE content.labels = {} /\ content.super
    BY <1>4 DEF Detected, FileSystems
  <1>5. CASE ~("ntfs" \in content.labels) /\ ~("fat32" \in content.labels)
             /\ content.labels # {"exfat"} /\ ~(content.labels = {} /\ content.super)
    BY <1>5 DEF Detected
  <1> QED
    BY <1>1, <1>2, <1>3, <1>4, <1>5

(* What depends on the image and the partitions alone. *)
LEMMA SameImageSamePlaces ==
  ASSUME UNCHANGED <<image, partitions>>
  PROVE  /\ Places' = Places /\ (TableIsValid' <=> TableIsValid) /\ ParseTable' = ParseTable
         /\ (IsDamaged' <=> IsDamaged)
         /\ \A i : /\ StartOf(i)' = StartOf(i) /\ (IsLookedAt(i)' <=> IsLookedAt(i))
                   /\ EngineOffset(i)' = EngineOffset(i)
         /\ \A s : /\ (IsBad(s)' <=> IsBad(s)) /\ Detected(s)' = Detected(s) /\ ModelAt(s)' = ModelAt(s)
  <1>1. \A s : ContentAt(s)' = ContentAt(s)
    BY DEF ContentAt
  <1>2. \A s : Detected(s)' = Detected(s)
    BY <1>1 DEF Detected
  <1>3. \A x, y : CanRead(x, y)' <=> CanRead(x, y)
    BY DEF CanRead
  <1>4. \A s : DetectionFails(s)' <=> DetectionFails(s)
    BY <1>1, <1>3 DEF DetectionFails
  <1>5. \A s : (IsBad(s)' <=> IsBad(s)) /\ ModelAt(s)' = ModelAt(s)
    BY <1>1, <1>2, <1>4 DEF IsBad, Succeeds, ModelAt
  <1>6. \A p : InImage(p)' <=> InImage(p)
    BY DEF InImage
  <1>7. Places' = Places /\ \A i : /\ StartOf(i)' = StartOf(i) /\ (IsLookedAt(i)' <=> IsLookedAt(i))
                                   /\ EngineOffset(i)' = EngineOffset(i)
    BY <1>6 DEF Places, IsWhole, StartOf, IsLookedAt, EngineOffset
  <1>8. DetectTable' = DetectTable
    BY DEF DetectTable, HasPartition
  <1>9. (TableIsValid' <=> TableIsValid) /\ ParseTable' = ParseTable /\ Declared' = Declared
    BY <1>8 DEF TableIsValid, CanRead, GptIsValid, Described, EntryReadable, EntryOffset, ParseTable, ParseMbr,
                ParseGpt, MbrPartition, GptPartition, Declared
  <1>10. IsDamaged' <=> IsDamaged
    <2>1. Starts' = Starts
      BY <1>6, <1>9 DEF Starts
    <2> QED
      BY <1>5, <1>9, <2>1 DEF IsDamaged
  <1> QED
    BY <1>2, <1>5, <1>7, <1>9, <1>10

(* The places of the list are the places to look at.                       *)
LEMMA PlacesAreStarts ==
  ASSUME image \in ImageFiles, partitions = ParseTable
  PROVE  /\ Starts = {StartOf(i) : i \in {k \in Places : IsLookedAt(k)}}
         /\ IsWhole <=> Declared = {}
         /\ ~IsWhole => Places = 1..Len(partitions) /\ Declared = {partitions[i] : i \in Places}
         /\ Len(partitions) \in Nat
  <1>1. IsSequence(partitions) /\ ToSet(partitions) = Declared
    BY TableIsDeclared
  <1>2. Len(partitions) \in Nat /\ DOMAIN partitions = 1..Len(partitions)
    BY <1>1 DEF IsSequence
  <1>3. IsWhole <=> Declared = {}
    <2>1. CASE IsWhole
      <3>1. partitions = << >>
        BY <2>1 DEF IsWhole
      <3>2. ToSet(<< >>) = {}
        BY DEF ToSet
      <3> QED
        BY <1>1, <2>1, <3>1, <3>2
    <2>2. CASE ~IsWhole
      <3>1. Len(partitions) # 0
        BY <1>1, <2>2 DEF IsWhole, IsSequence
      <3>2. partitions[1] \in ToSet(partitions)
        BY <1>2, <3>1 DEF ToSet
      <3> QED
        BY <1>1, <2>2, <3>2
    <2> QED
      BY <2>1, <2>2
  <1>4. ~IsWhole => Places = 1..Len(partitions) /\ Declared = {partitions[i] : i \in Places}
    BY <1>1, <1>2 DEF Places, ToSet
  <1>5. Starts = {StartOf(i) : i \in {k \in Places : IsLookedAt(k)}}
    <2>1. CASE IsWhole
      <3>1. Starts = {0} /\ Places = {1}
        BY <1>3, <2>1 DEF Starts, Places
      <3> QED
        BY <2>1, <3>1 DEF StartOf, IsLookedAt
    <2>2. CASE ~IsWhole
      <3>1. Starts = {p.start : p \in {d \in Declared : InImage(d)}}
        BY <1>3, <2>2 DEF Starts
      <3> QED
        BY <1>4, <2>2, <3>1 DEF StartOf, IsLookedAt
    <2> QED
      BY <2>1, <2>2
  <1> QED
    BY <1>2, <1>3, <1>4, <1>5

(* A turn that adds what belongs together keeps the lists in step.         *)
LEMMA PushKeeps ==
  ASSUME InspectionInv, Inspecting,
         NEW filesystem \in FileSystems \cup {"unknown"}, NEW model,
         Push(filesystem, model),
         model # NoModel => /\ model.type = filesystem
                            /\ model.start * SectorBytes = EngineOffset(turn)
                            /\ model.start \in Nat /\ model.boot \in BootRecord /\ Accepts(model.boot),
         IsLookedAt(turn) => /\ ~IsBad(StartOf(turn))
                             /\ IsSupported(Detected(StartOf(turn))) => model = ModelAt(StartOf(turn))
  PROVE  InspectionInv'
  <1>1. /\ filesystems' = Append(filesystems, filesystem)
        /\ models' = Append(models, model) /\ trees' = Append(trees, model)
        /\ turn' = turn + 1 /\ UNCHANGED <<image, partitions, status>>
    BY DEF Push
  <1>2. turn \in Nat \ {0} /\ Len(filesystems) = turn - 1 /\ Len(models) = turn - 1
        /\ Len(trees) = turn - 1 /\ turn \in Places /\ status = "inspecting"
    BY DEF InspectionInv, TypeOK, Inspecting
  <1>3. IsSequence(filesystems) /\ IsSequence(models) /\ IsSequence(trees)
    BY DEF InspectionInv
  <1>4. /\ IsSequence(filesystems') /\ Len(filesystems') = turn /\ filesystems'[turn] = filesystem
        /\ \A i \in 1..(turn - 1) : filesystems'[i] = filesystems[i]
    BY <1>1, <1>2, <1>3, AppendToSequence
  <1>5. /\ IsSequence(models') /\ Len(models') = turn /\ models'[turn] = model
        /\ \A i \in 1..(turn - 1) : models'[i] = models[i]
    BY <1>1, <1>2, <1>3, AppendToSequence
  <1>6. /\ IsSequence(trees') /\ Len(trees') = turn /\ trees'[turn] = model
        /\ \A i \in 1..(turn - 1) : trees'[i] = trees[i]
    BY <1>1, <1>2, <1>3, AppendToSequence
  <1>7. ASSUME NEW i \in 1..turn PROVE Fits(i)' /\ WasInspected(i)'
    <2>1. /\ EngineOffset(i)' = EngineOffset(i) /\ Places' = Places
          /\ StartOf(i)' = StartOf(i) /\ (IsLookedAt(i)' <=> IsLookedAt(i))
          /\ \A s : /\ (IsBad(s)' <=> IsBad(s)) /\ Detected(s)' = Detected(s) /\ ModelAt(s)' = ModelAt(s)
      BY <1>1, SameImageSamePlaces
    <2>2. PICK s : s = StartOf(i)
      OBVIOUS
    <2>3. CASE i = turn
      <3>1. Fits(i)'
        BY <1>4, <1>5, <1>6, <2>1, <2>3 DEF Fits
      <3>2. WasInspected(i)'
        BY <1>2, <1>5, <2>1, <2>2, <2>3 DEF WasInspected
      <3> QED
        BY <3>1, <3>2
    <2>4. CASE i \in 1..(turn - 1)
      <3>1. Fits(i) /\ WasInspected(i)
        BY <2>4 DEF InspectionInv
      <3>2. Fits(i)'
        BY <1>4, <1>5, <1>6, <2>1, <2>4, <3>1 DEF Fits
      <3>3. WasInspected(i)'
        BY <1>5, <2>1, <2>2, <2>4, <3>1 DEF WasInspected
      <3> QED
        BY <3>2, <3>3
    <2> QED
      BY <1>2, <2>3, <2>4
  <1>8. TypeOK'
    <2>1. filesystems' \in Seq(FileSystems \cup {"unknown"})
      BY <1>1 DEF InspectionInv, TypeOK
    <2> QED
      BY <1>1, <1>2, <2>1 DEF InspectionInv, TypeOK
  <1>9. (TableIsValid' <=> TableIsValid) /\ ParseTable' = ParseTable
    BY <1>1, SameImageSamePlaces
  <1> QED
    BY <1>1, <1>2, <1>4, <1>5, <1>6, <1>7, <1>8, <1>9 DEF InspectionInv

(* The volume of a turn is read where the engine will look for it.         *)
LEMMA StartIsEngineOffset ==
  ASSUME Looking
  PROVE  Start = StartOf(turn) /\ IsLookedAt(turn) /\ Start * SectorBytes = EngineOffset(turn)
  <1>1. CASE IsWhole
    <2>1. Start = 0 /\ EngineOffset(turn) = 0
      BY <1>1 DEF Start, EngineOffset, IsWhole
    <2> QED
      BY <1>1, <2>1 DEF SectorBytes, StartOf, IsLookedAt
  <1>2. CASE ~IsWhole
    <2>1. turn \in DOMAIN partitions /\ InImage(partitions[turn])
      BY <1>2 DEF Looking, Inspecting, Places, MayInspect
    <2> QED
      BY <1>2, <2>1 DEF Start, EngineOffset, InImage, StartOf, IsLookedAt
  <1> QED
    BY <1>1, <1>2

LEMMA StartType ==
  ASSUME InspectionInv, Inspecting
  PROVE  Start \in Nat
  <1>1. image \in ImageFiles /\ partitions = ParseTable /\ turn \in Places
    BY DEF InspectionInv, Inspecting
  <1>2. CASE IsWhole
    BY <1>2 DEF Start
  <1>3. CASE ~IsWhole
    <2>1. partitions[turn] \in Declared
      BY <1>1, <1>3, PlacesAreStarts
    <2>2. ASSUME NEW i \in Slots PROVE MbrPartition(i).start \in Nat
      BY <1>1, ImageFacts DEF MbrPartition, MbrEntry
    <2>3. ASSUME NEW i \in DOMAIN image.gpt.entries PROVE GptPartition(i).start \in Nat
      <3>1. image.gpt.entries \in Seq(GptEntry)
        BY <1>1, ImageFacts DEF GptHeader
      <3>2. image.gpt.entries[i] \in GptEntry
        BY <3>1
      <3> QED
        BY <3>2 DEF GptPartition, GptEntry
    <2>4. partitions[turn].start \in Nat
      BY <2>1, <2>2, <2>3 DEF Declared
    <2> QED
      BY <1>3, <2>4 DEF Start
  <1> QED
    BY <1>2, <1>3

(* A place that cannot be inspected is a damage of the image.              *)
LEMMA BadIsDamage ==
  ASSUME InspectionInv, Looking, IsBad(Start)
  PROVE  IsDamaged
  <1>1. image \in ImageFiles /\ partitions = ParseTable /\ turn \in Places
    BY DEF InspectionInv, Looking, Inspecting
  <1>2. Start \in Starts
    BY <1>1, StartIsEngineOffset, PlacesAreStarts
  <1> QED
    BY <1>2 DEF IsDamaged

(* A step that ends the inspection, or no step.                            *)
LEMMA StoppedStep ==
  ASSUME InspectionInv, UNCHANGED <<image, partitions, turn, lists>>,
         \/ status' = "failed" /\ IsDamaged
         \/ status = "inspecting" /\ status' = "done" /\ turn \notin Places
         \/ status' = status
  PROVE  InspectionInv'
  <1>1. UNCHANGED <<image, partitions, turn, filesystems, models, trees>>
    BY DEF lists
  <1>2. /\ Places' = Places /\ (TableIsValid' <=> TableIsValid) /\ ParseTable' = ParseTable
        /\ (IsDamaged' <=> IsDamaged)
    BY <1>1, SameImageSamePlaces
  <1>3. ASSUME NEW i \in 1..(turn - 1) PROVE Fits(i)' /\ WasInspected(i)'
    <2>1. /\ EngineOffset(i)' = EngineOffset(i) /\ StartOf(i)' = StartOf(i)
          /\ (IsLookedAt(i)' <=> IsLookedAt(i))
          /\ \A s : /\ (IsBad(s)' <=> IsBad(s)) /\ Detected(s)' = Detected(s) /\ ModelAt(s)' = ModelAt(s)
      BY <1>1, SameImageSamePlaces
    <2>2. PICK s : s = StartOf(i)
      OBVIOUS
    <2>3. Fits(i) /\ WasInspected(i)
      BY DEF InspectionInv
    <2> QED
      BY <1>1, <1>2, <2>1, <2>2, <2>3 DEF Fits, WasInspected
  <1>4. TypeOK'
    BY <1>1 DEF InspectionInv, TypeOK
  <1> QED
    BY <1>1, <1>2, <1>3, <1>4 DEF InspectionInv

LEMMA InspectionStep ==
  ASSUME InspectionInv, [Next]_vars
  PROVE  InspectionInv'
  <1>1. CASE ReadTable
    <2>1. /\ turn = 1 /\ UNCHANGED <<image, turn, filesystems, models, trees>> /\ status' = "inspecting"
          /\ TableIsValid /\ partitions' = ParseTable
      BY <1>1 DEF ReadTable, InspectionInv, lists
    <2>2. TableIsValid' /\ ParseTable' = ParseTable
      <3>1. DetectTable' = DetectTable
        BY <2>1 DEF DetectTable, HasPartition
      <3> QED
        BY <2>1, <3>1 DEF TableIsValid, CanRead, GptIsValid, Described, EntryReadable, EntryOffset, ParseTable,
                  ParseMbr, ParseGpt, MbrPartition, GptPartition
    <2> QED
      BY <2>1, <2>2 DEF InspectionInv, TypeOK
  <1>2. CASE RefuseTable
    BY <1>2, StoppedStep DEF RefuseTable, IsDamaged
  <1>3. CASE RefuseDetection
    <2>1. /\ Looking /\ IsBad(Start) /\ status' = "failed" /\ UNCHANGED <<image, partitions, turn, lists>>
      BY <1>3 DEF RefuseDetection, IsBad
    <2> QED
      BY <2>1, BadIsDamage, StoppedStep
  <1>4. CASE RefuseVolume
    <2>1. /\ Looking /\ IsBad(Start) /\ status' = "failed" /\ UNCHANGED <<image, partitions, turn, lists>>
      BY <1>4 DEF RefuseVolume, Opening, IsBad
    <2> QED
      BY <2>1, BadIsDamage, StoppedStep
  <1>5. CASE Finish \/ UNCHANGED vars
    BY <1>5, StoppedStep DEF Finish, vars
  <1>6. CASE PassOver
    <2>1. Inspecting /\ ~IsLookedAt(turn) /\ Push("unknown", NoModel)
      BY <1>6 DEF PassOver, MayInspect, IsLookedAt
    <2> QED
      BY <2>1, PushKeeps
  <1>7. CASE Unsupported
    <2>1. /\ Inspecting /\ Looking /\ ~IsBad(Start) /\ ~IsSupported(Detected(Start))
          /\ Push(Detected(Start), NoModel)
      BY <1>7 DEF Unsupported, Looking, IsBad
    <2>2. PICK f \in FileSystems \cup {"unknown"} : f = Detected(Start)
      BY DetectedType
    <2> QED
      BY <2>1, <2>2, StartIsEngineOffset, PushKeeps
  <1>8. CASE InvestigateVolume
    <2>1. /\ Inspecting /\ Looking /\ ~IsBad(Start) /\ Succeeds(Detected(Start), Start)
          /\ Push(Detected(Start), ModelAt(Start))
      BY <1>8 DEF InvestigateVolume, Opening, Looking, IsBad
    <2>2. /\ ModelAt(Start).type = Detected(Start) /\ ModelAt(Start).start = Start
          /\ ModelAt(Start).boot = ContentAt(Start).boot
      BY DEF ModelAt
    <2>3. ContentAt(Start).boot \in BootRecord /\ Accepts(ContentAt(Start).boot)
      <3>1. ContentAt(Start) \in Volume /\ Accepts(ContentAt(Start).boot)
        BY <2>1, ImageFacts DEF InspectionInv, Succeeds
      <3>2. ~Accepts(NoVolume.boot)
        BY DEF NoVolume, Accepts
      <3> QED
        BY <3>1, <3>2 DEF Volume
    <2>4. /\ Start = StartOf(turn) /\ IsLookedAt(turn) /\ Start * SectorBytes = EngineOffset(turn)
          /\ Start \in Nat
      BY <2>1, StartIsEngineOffset, StartType
    <2>5. PICK f \in FileSystems \cup {"unknown"} : f = Detected(Start)
      BY DetectedType
    <2>6. PICK model : model = ModelAt(Start)
      OBVIOUS
    <2> QED
      BY <2>1, <2>2, <2>3, <2>4, <2>5, <2>6, PushKeeps
  <1> QED
    BY <1>1, <1>2, <1>3, <1>4, <1>5, <1>6, <1>7, <1>8 DEF Next

LEMMA AllPlacesWereInspected ==
  ASSUME InspectionInv, status = "done", NEW i \in Places
  PROVE  i \in 1..(turn - 1)
  <1>1. /\ partitions = ParseTable /\ turn \notin Places /\ turn \in Nat \ {0} /\ image \in ImageFiles
    BY DEF InspectionInv, TypeOK
  <1>2. PICK n \in Nat : Places = 1..n
    <2>1. CASE IsWhole
      <3>1. Places = 1..1
        BY <2>1 DEF Places
      <3> QED
        BY <3>1
    <2>2. CASE ~IsWhole
      BY <1>1, <2>2, PlacesAreStarts
    <2> QED
      BY <2>1, <2>2
  <1> QED
    BY <1>1, <1>2

(* The state of an inspection is well-formed for every image.              *)
THEOREM InspectionIsTyped == Spec => []TypeOK
  <1>1. InspectionInv => TypeOK
    BY DEF InspectionInv
  <1> QED
    BY <1>1, InspectionInit, InspectionStep, PTL DEF Spec

(* Whatever is passed over, unsupported or empty, file systems, models and *)
(* trees stay at the places of their partitions, and the engine looks for  *)
(* a model's bytes where its volume was read (inspect_image,               *)
(* create_engine).                                                         *)
THEOREM ResultsStayTogether == Spec => []ResultsBelongTogether
  <1>1. InspectionInv => ResultsBelongTogether
    BY DEF InspectionInv, ResultsBelongTogether, Fits
  <1> QED
    BY <1>1, InspectionInit, InspectionStep, PTL DEF Spec

(* An inspection fails only if the table, or one of the places it has to   *)
(* look at, is damaged, and one damaged place is enough.                   *)
THEOREM InspectionFailsOnlyOnDamage == Spec => []FailsOnlyOnDamage
  <1>1. ASSUME InspectionInv, status = "done" PROVE ~IsDamaged
    <2>1. /\ TableIsValid /\ partitions = ParseTable /\ turn \notin Places /\ turn \in Nat \ {0}
          /\ image \in ImageFiles
      BY <1>1 DEF InspectionInv, TypeOK
    <2>2. ASSUME NEW i \in Places, IsLookedAt(i) PROVE ~IsBad(StartOf(i))
      <3>1. i \in 1..(turn - 1)
        BY <1>1, AllPlacesWereInspected
      <3>2. WasInspected(i)
        BY <1>1, <3>1 DEF InspectionInv
      <3> QED
        BY <2>2, <3>2 DEF WasInspected
    <2> QED
      BY <2>1, <2>2, PlacesAreStarts DEF IsDamaged
  <1>2. InspectionInv => FailsOnlyOnDamage
    BY <1>1 DEF InspectionInv, FailsOnlyOnDamage
  <1> QED
    BY <1>2, InspectionInit, InspectionStep, PTL DEF Spec

(* An inspection that ends has a model for every volume it supports.       *)
THEOREM EveryVolumeGetsItsModel == Spec => []EveryVolumeHasItsModel
  <1>1. ASSUME InspectionInv, status = "done" PROVE EveryVolumeHasItsModel
    <2>1. /\ partitions = ParseTable /\ image \in ImageFiles
          /\ Len(models) = turn - 1 /\ IsSequence(models) /\ turn \in Nat \ {0}
          /\ DOMAIN models = 1..(turn - 1)
      BY <1>1 DEF InspectionInv, TypeOK, IsSequence
    <2>2. ASSUME NEW i \in Places, IsLookedAt(i), IsSupported(Detected(StartOf(i)))
          PROVE  i \in DOMAIN models /\ models[i] = ModelAt(StartOf(i))
      <3>1. i \in 1..(turn - 1)
        BY <1>1, AllPlacesWereInspected
      <3>2. WasInspected(i)
        BY <1>1, <3>1 DEF InspectionInv
      <3> QED
        BY <2>1, <2>2, <3>1, <3>2 DEF WasInspected
    <2>3. ASSUME NEW p \in Declared, InImage(p), IsSupported(Detected(p.start))
          PROVE  \E i \in DOMAIN models : /\ i \in DOMAIN partitions /\ partitions[i].number = p.number
                                          /\ models[i] = ModelAt(p.start)
      <3>1. ~IsWhole
        BY <2>1, PlacesAreStarts
      <3>2. PICK i \in Places : p = partitions[i]
        BY <2>1, <3>1, PlacesAreStarts
      <3>3. StartOf(i) = p.start /\ IsLookedAt(i)
        BY <2>3, <3>1, <3>2 DEF StartOf, IsLookedAt
      <3>4. i \in DOMAIN partitions
        BY <3>1 DEF Places
      <3> QED
        BY <2>2, <2>3, <3>2, <3>3, <3>4
    <2>4. ASSUME Declared = {}, IsSupported(Detected(0)) PROVE models = <<ModelAt(0)>>
      <3>1. IsWhole /\ Places = {1}
        BY <2>1, <2>4, PlacesAreStarts DEF Places
      <3>2. StartOf(1) = 0 /\ IsLookedAt(1)
        BY <3>1 DEF StartOf, IsLookedAt
      <3>3. models[1] = ModelAt(0) /\ 1 \in 1..(turn - 1)
        BY <2>1, <2>2, <2>4, <3>1, <3>2
      <3>4. turn - 1 = 1
        <4>1. turn - 1 \in 1..(turn - 1)
          BY <2>1, <3>3
        <4>2. turn - 1 \in Places
          BY <1>1, <4>1 DEF InspectionInv, WasInspected
        <4> QED
          BY <3>1, <4>2
      <3> QED
        BY <2>1, <3>3, <3>4 DEF IsSequence
    <2> QED
      BY <2>3, <2>4 DEF EveryVolumeHasItsModel
  <1>2. InspectionInv => EveryVolumeHasItsModel
    BY <1>1 DEF EveryVolumeHasItsModel
  <1> QED
    BY <1>2, InspectionInit, InspectionStep, PTL DEF Spec

(* The engine finds the clusters of a volume where the reader of its file  *)
(* system found them, in every volume whose sectors are those of the model *)
(* or converted into them.                                                 *)
THEOREM EngineFindsWhatWasRead == Spec => []EngineFindsClusters
  <1>1. ASSUME InspectionInv PROVE EngineFindsClusters
    <2> SUFFICES ASSUME NEW i \in DOMAIN models, models[i] # NoModel, NEW c \in SomeClusters
                 PROVE  LET b == models[i].boot
                        IN  EngineOffset(i) + RegionStart(b, c) * SectorBytes
                              = models[i].start * SectorBytes + ClusterOffset(b, c)
                            <=> (b.type \in {"exfat", "ext4"} \/ b.bytesPerSector = SectorBytes)
      BY DEF EngineFindsClusters
    <2> DEFINE b == models[i].boot
    <2>1. i \in 1..(turn - 1)
      BY <1>1 DEF InspectionInv, IsSequence
    <2>2. Fits(i)
      BY <1>1, <2>1 DEF InspectionInv
    <2>3. /\ EngineOffset(i) = models[i].start * SectorBytes /\ EngineOffset(i) \in Nat
          /\ b \in BootRecord /\ Accepts(b)
      <3>1. models[i].start * 512 \in Nat
        BY <2>2 DEF Fits
      <3> QED
        BY <2>2, <3>1 DEF Fits, SectorBytes
    <2>4. c \in Nat /\ c > 2
      BY DEF SomeClusters
    <2> HIDE DEF b
    <2>5. /\ RegionStart(b, c) * SectorBytes = ClusterOffset(b, c)
             <=> (b.type \in {"exfat", "ext4"} \/ b.bytesPerSector = SectorBytes)
          /\ RegionStart(b, c) * SectorBytes \in Nat /\ ClusterOffset(b, c) \in Nat
      BY <2>3, <2>4, RegionIsCluster
    <2> DEFINE x == EngineOffset(i)
               y == RegionStart(b, c) * SectorBytes
               z == ClusterOffset(b, c)
    <2>6. x \in Nat /\ y \in Nat /\ z \in Nat
      BY <2>3, <2>5
    <2> HIDE DEF x, y, z
    <2>7. x + y = x + z <=> y = z
      BY <2>6
    <2> QED
      BY <2>3, <2>5, <2>7 DEF b, x, y, z
  <1> QED
    BY <1>1, InspectionInit, InspectionStep, PTL DEF Spec

-----------------------------------------------------------------------------
(* Part 2: the session of the TUI that asks for inspections.               *)

(* A recovery in progress is a record about one of the images. *)
RecoveryHasImage ==
  recovery # NoRecovery => "image" \in DOMAIN recovery /\ recovery.image \in Images

SessionInv ==
  /\ mode \in Modes
  /\ result \in Images \cup {None}
  /\ pending \in Images \cup {None}
  /\ RecoveryHasImage
  /\ ModeHasItsState
  /\ RecoveryBelongsToResult
  /\ AnswerBelongsToRequest

(* Changing another field of a recovery keeps its image.                   *)
LEMMA OtherField ==
  ASSUME RecoveryHasImage, recovery # NoRecovery,
         "image" \in DOMAIN recovery', recovery'.image = recovery.image
  PROVE  recovery' # NoRecovery /\ recovery'.image \in Images
  BY TuiAssumption DEF RecoveryHasImage, NoRecovery

(* The keys of the recovery modes that change the recovery keep its image, *)
(* and those that change the mode stay within the recovery modes.          *)
LEMMA RecoveryKeys ==
  ASSUME SessionInv,
         MoveCursor \/ ToggleSelected \/ SelectAll \/ CycleFilter \/ ExecuteSelected \/ SaveWork
  PROVE  SessionInv'
  <1> USE DEF SessionInv
  <1>1. recovery # NoRecovery /\ mode \in RecoveryModes
    BY DEF MoveCursor, ToggleSelected, SelectAll, CycleFilter, ExecuteSelected, SaveWork,
           RecoveryKey, Key, RecoveryModes
  <1>2. "image" \in DOMAIN recovery' /\ recovery'.image = recovery.image
    <2>1. CASE MoveCursor
      BY <1>1, <2>1 DEF MoveCursor, RecoveryHasImage
    <2>2. CASE ToggleSelected
      BY <1>1, <2>2 DEF ToggleSelected, RecoveryHasImage
    <2>3. CASE SelectAll
      BY <1>1, <2>3 DEF SelectAll, RecoveryHasImage
    <2>4. CASE CycleFilter
      BY <1>1, <2>4 DEF CycleFilter, RecoveryHasImage
    <2>5. CASE ExecuteSelected
      BY <1>1, <2>5 DEF ExecuteSelected, RecoveryHasImage
    <2>6. CASE SaveWork
      BY <1>1, <2>6 DEF SaveWork, RecoveryHasImage
    <2> QED
      BY <2>1, <2>2, <2>3, <2>4, <2>5, <2>6
  <1>3. recovery' # NoRecovery /\ recovery'.image \in Images
    BY <1>1, <1>2, OtherField
  <1>4. /\ UNCHANGED <<result, browser, pending, thread, slot>>
        /\ mode' \in RecoveryModes
    BY <1>1 DEF MoveCursor, ToggleSelected, SelectAll, CycleFilter, ExecuteSelected, SaveWork,
                OnlyRecovery, ui, investigation, RecoveryModes
  <1> QED
    BY <1>1, <1>2, <1>3, <1>4
       DEF RecoveryHasImage, ModeHasItsState, RecoveryBelongsToResult, AnswerBelongsToRequest,
           RecoveryModes, Modes

LEMMA SessionStep == SessionInv /\ [SessionNext]_sessionVars => SessionInv'
  <1> SUFFICES ASSUME SessionInv, [SessionNext]_sessionVars PROVE SessionInv'
    OBVIOUS
  <1> USE TuiAssumption
          DEF SessionInv, RecoveryHasImage, ModeHasItsState, RecoveryBelongsToResult,
              AnswerBelongsToRequest, RecoveryModes, Modes, ui, work, investigation
  <1>1. CASE UNCHANGED sessionVars
    BY <1>1 DEF sessionVars
  <1>2. CASE Investigate \/ InvestigatorPanics
    BY <1>2 DEF Investigate, InvestigatorPanics
  <1>3. CASE Poll
    BY <1>3 DEF Poll, LoadResult, NoRecovery
  <1>4. CASE NoKey \/ RequestExit \/ DeclineExit \/ ConfirmExit \/ HandlerError \/ Exit
    BY <1>4 DEF NoKey, RequestExit, DeclineExit, ConfirmExit, HandlerError, Exit, Key
  <1>5. CASE OpenBrowser \/ LeaveBrowser \/ ClearInspection
    BY <1>5 DEF OpenBrowser, LeaveBrowser, ClearInspection, ChoosingSource, Key, NoRecovery
  <1>6. CASE \E i \in Images : StartInvestigation(i)
    BY <1>6 DEF StartInvestigation
  <1>7. CASE ToggleFocus \/ OpenCategory \/ LeaveCategory
    BY <1>7 DEF ToggleFocus, OpenCategory, LeaveCategory, Key
  <1>8. ASSUME NEW filter \in Filters, StartRecovery(filter) PROVE SessionInv'
    BY <1>8 DEF StartRecovery, NewRecovery, NoRecovery, Key
  <1>9. CASE OpenDetails \/ OpenSave \/ BackToRecovery
    BY <1>9 DEF OpenDetails, OpenSave, BackToRecovery, RecoveryKey, Key
  <1>10. CASE LeaveRecovery
    BY <1>10 DEF LeaveRecovery, Key, NoRecovery
  <1> QED
    BY <1>1, <1>2, <1>3, <1>4, <1>5, <1>6, <1>7, <1>8, <1>9, <1>10, RecoveryKeys
       DEF SessionNext, Handle

LEMMA SessionInvariant == SessionSpec => []SessionInv
  <1>1. SessionInit => SessionInv
    BY TuiAssumption
       DEF SessionInit, SessionInv, RecoveryHasImage, ModeHasItsState, RecoveryBelongsToResult,
           AnswerBelongsToRequest, NoRecovery, RecoveryModes, Modes
  <1> QED
    BY <1>1, SessionStep, PTL DEF SessionSpec

(* Every mode finds the state it works on, whenever an answer of the       *)
(* thread arrives (load_result, clear_inspection).                         *)
THEOREM ModesHaveTheirState == SessionSpec => []ModeHasItsState
  BY SessionInvariant, PTL DEF SessionInv

(* Object ids are never recovered against another image than the one they  *)
(* were listed from (load_result).                                         *)
THEOREM RecoveriesBelongToResults == SessionSpec => []RecoveryBelongsToResult
  BY SessionInvariant, PTL DEF SessionInv

(* The slot is empty and no thread is left while nothing is pending        *)
(* (run_app, start_investigation).                                         *)
THEOREM AnswersBelongToRequests == SessionSpec => []AnswerBelongsToRequest
  BY SessionInvariant, PTL DEF SessionInv

(* An accepted investigation stays pending until its answer is taken       *)
(* (start_investigation, run_app).                                         *)
THEOREM AcceptedAreAnswered == SessionSpec => AcceptedIsAnswered
  <1>1. [SessionNext]_sessionVars =>
          (pending # None /\ pending' # pending
             => pending' = None /\ slot # "empty" /\ (slot = "ok" => result' = pending))
    <2> SUFFICES ASSUME [SessionNext]_sessionVars, pending # None, pending' # pending
                 PROVE  Poll
      BY DEF Poll, LoadResult, investigation
    <2> QED
      BY DEF SessionNext, Handle, sessionVars, investigation, Investigate, InvestigatorPanics, NoKey, RequestExit,
             DeclineExit, ConfirmExit, HandlerError, Exit, OpenBrowser, LeaveBrowser,
             ClearInspection, StartInvestigation, ToggleFocus, OpenCategory, LeaveCategory,
             StartRecovery, MoveCursor, ToggleSelected, SelectAll, CycleFilter, ExecuteSelected,
             OnlyRecovery, OpenDetails, OpenSave, BackToRecovery, LeaveRecovery, SaveWork
  <1> QED
    BY <1>1, PTL DEF SessionSpec, AcceptedIsAnswered

-----------------------------------------------------------------------------
(* Sorting keeps the rows.                                                 *)
LEMMA SortedFacts ==
  ASSUME NEW rows \in Seq(Row)
  PROVE  /\ Sorted(rows) \in Seq(Row) /\ DOMAIN Sorted(rows) = DOMAIN rows
         /\ \A k \in DOMAIN rows : \E j \in DOMAIN rows : Sorted(rows)[k] = rows[j]
         /\ \A j \in DOMAIN rows : \E k \in DOMAIN rows : Sorted(rows)[k] = rows[j]
  <1> DEFINE n == Len(rows)
             Ahead == [j \in 1..n |-> RowsBefore(rows, j)]
             class == [j \in 1..n |-> Rank[rows[j].status]]
             name == [j \in 1..n |-> rows[j].name]
  <1>1. n \in Nat /\ DOMAIN rows = 1..n /\ \A j \in 1..n : rows[j] \in Row
    OBVIOUS
  <1>2. class \in [1..n -> Nat] /\ name \in [1..n -> Nat]
    <2>1. ASSUME NEW row \in Row PROVE Rank[row.status] \in Nat /\ row.name \in Nat
      BY DEF Row, Rank
    <2> HIDE DEF n
    <2> QED
      BY <1>1, <2>1
  <1>3. \A i, j \in 1..n : i \in RowsBefore(rows, j) <=>
          \/ class[i] < class[j]
          \/ class[i] = class[j] /\ (name[i] < name[j] \/ (name[i] = name[j] /\ i < j))
    BY <1>1 DEF RowsBefore
  <1>4. \A j \in 1..n : Ahead[j] = RowsBefore(rows, j) /\ RowsBefore(rows, j) \subseteq 1..n
    BY <1>1 DEF RowsBefore
  <1>5. Sorted(rows) = [k \in 1..n |-> rows[CHOOSE j \in 1..n : 1 + Cardinality(RowsBefore(rows, j)) = k]]
    BY <1>1 DEF Sorted
  <1> DEFINE at == ByRank(n, Ahead)
  <1>6. \A k \in 1..n : at[k] = CHOOSE j \in 1..n : 1 + Cardinality(RowsBefore(rows, j)) = k
    <2> SUFFICES ASSUME NEW k \in 1..n
                 PROVE  (CHOOSE j \in 1..n : 1 + Cardinality(Ahead[j]) = k)
                          = CHOOSE j \in 1..n : 1 + Cardinality(RowsBefore(rows, j)) = k
      BY DEF ByRank
    <2> HIDE DEF Ahead, n
    <2>1. \A j : (j \in 1..n /\ 1 + Cardinality(Ahead[j]) = k)
                   <=> (j \in 1..n /\ 1 + Cardinality(RowsBefore(rows, j)) = k)
      BY <1>4
    <2> QED
      BY <2>1
  <1>7. Ahead \in [1..n -> SUBSET (1..n)]
    BY <1>4
  <1> HIDE DEF n, Ahead, class, name, at
  <1>8. \A i \in 1..n : i \notin Ahead[i]
    BY <1>1, <1>2, <1>3, <1>4
  <1>9. \A i, j \in 1..n : i # j => i \in Ahead[j] \/ j \in Ahead[i]
    <2> SUFFICES ASSUME NEW i \in 1..n, NEW j \in 1..n, i # j
                 PROVE  i \in RowsBefore(rows, j) \/ j \in RowsBefore(rows, i)
      BY <1>4
    <2>1. PICK a \in Nat, b \in Nat, c \in Nat, d \in Nat :
            a = class[i] /\ b = class[j] /\ c = name[i] /\ d = name[j]
      BY <1>2
    <2> QED
      BY <1>1, <1>3, <2>1
  <1>10. \A i, j, k \in 1..n : i \in Ahead[j] /\ j \in Ahead[k] => i \in Ahead[k]
    <2> SUFFICES ASSUME NEW i \in 1..n, NEW j \in 1..n, NEW k \in 1..n,
                        i \in RowsBefore(rows, j), j \in RowsBefore(rows, k)
                 PROVE  i \in RowsBefore(rows, k)
      BY <1>4
    <2>1. class[i] \in Nat /\ class[j] \in Nat /\ class[k] \in Nat
          /\ name[i] \in Nat /\ name[j] \in Nat /\ name[k] \in Nat
      BY <1>2
    <2>2. i \in Nat /\ j \in Nat /\ k \in Nat
      BY <1>1
    <2> QED
      BY <1>3, <2>1, <2>2
  <1>11. at \in [1..n -> 1..n] /\ \A j \in 1..n : \E k \in 1..n : at[k] = j
    <2>1. PICK N \in Nat : N = n
      BY <1>1
    <2>2. PICK B \in [1..N -> SUBSET (1..N)] : B = Ahead
      BY <1>7, <2>1
    <2>3. /\ \A i \in 1..N : i \notin B[i]
          /\ \A i, j \in 1..N : i # j => i \in B[j] \/ j \in B[i]
          /\ \A i, j, k \in 1..N : i \in B[j] /\ j \in B[k] => i \in B[k]
      BY <1>8, <1>9, <1>10, <2>1, <2>2
    <2>4. ByRank(N, B) \in [1..N -> 1..N] /\ \A j \in 1..N : j \in {ByRank(N, B)[k] : k \in 1..N}
      BY <2>3, PlacesAreTaken
    <2> QED
      BY <2>1, <2>2, <2>4 DEF at
  <1>12. \A k \in 1..n : Sorted(rows)[k] = rows[at[k]]
    BY <1>5, <1>6
  <1>13. Sorted(rows) \in [1..n -> Row]
    BY <1>1, <1>5, <1>11, <1>12
  <1>14. Sorted(rows) \in Seq(Row) /\ DOMAIN Sorted(rows) = 1..n
    BY <1>1, <1>13, SeqDef
  <1> QED
    BY <1>1, <1>11, <1>12, <1>14

(* The recovery screen, as far as its rows and its selection go.           *)
Outcome == [id : Nat, ok : BOOLEAN]

RowShown(row, results) ==
  IF row.status = "Pending" THEN row.resultIndex = 0
  ELSE /\ row.resultIndex \in DOMAIN results
       /\ results[row.resultIndex] = [id |-> row.id, ok |-> row.status = "Recovered"]

ViewInv == SessionTypeOK /\ ViewShowsItsResult

(* A fresh list is pending.                                                *)
LEMMA ItemsFacts ==
  ASSUME NEW img \in Images, NEW filter \in Filters
  PROVE  /\ Items(img, filter) \in Seq(Row)
         /\ \A k \in DOMAIN Items(img, filter) :
              Items(img, filter)[k].status = "Pending" /\ Items(img, filter)[k].resultIndex = 0
  <1>1. Candidates[img][filter] \in Seq([id : Nat, name : Nat])
    BY TuiAssumption
  <1>2. PICK objects \in Seq([id : Nat, name : Nat]) : objects = Candidates[img][filter]
    BY <1>1
  <1>3. Items(img, filter) = [k \in 1..Len(objects) |-> Item(objects[k])]
    BY <1>2 DEF Items
  <1>4. ASSUME NEW k \in 1..Len(objects) PROVE Item(objects[k]) \in Row
    <2>1. objects[k] \in [id : Nat, name : Nat]
      BY ElementOfSeq
    <2> QED
      BY <2>1 DEF Item, Row
  <1>5. Items(img, filter) \in [1..Len(objects) -> Row] /\ Len(objects) \in Nat
    BY <1>3, <1>4
  <1>6. Items(img, filter) \in Seq(Row)
    BY <1>5, SeqDef
  <1> QED
    BY <1>3, <1>6 DEF Item

(* What an outcome that is handed out does to the rows.                    *)
Gathered(old, S, ok, order, all) ==
  /\ all \in Seq(Outcome)
  /\ \A i \in DOMAIN old : i \in DOMAIN all /\ all[i] = old[i]
  /\ \A id \in S : /\ ResultIndex(old, order, id) \in DOMAIN all
                   /\ ResultIndex(old, order, id) \in Nat
                   /\ all[ResultIndex(old, order, id)] = [id |-> id, ok |-> ok[id]]

LEMMA ResultsFacts ==
  ASSUME NEW old \in Seq(Outcome), NEW S \in SUBSET Nat, IsFiniteSet(S),
         NEW ok \in [S -> BOOLEAN], NEW order \in Orders(S)
  PROVE  Gathered(old, S, ok, order, old \o ResultsOf(ok, order))
  <1> DEFINE n == Cardinality(S)
             l == Len(old)
             new == ResultsOf(ok, order)
             all == old \o new
  <1>1. n \in Nat /\ l \in Nat /\ DOMAIN old = 1..l
    BY FS_CardinalityType
  <1>2. order \in [1..n -> S] /\ \A id \in S : \E k \in 1..n : order[k] = id
    BY DEF Orders
  <1>3. \A k \in 1..n : new[k] = [id |-> order[k], ok |-> ok[order[k]]]
    BY <1>2 DEF ResultsOf
  <1>4. new \in [1..n -> Outcome]
    BY <1>2 DEF ResultsOf, Outcome
  <1> HIDE DEF n, new
  <1>5. new \in Seq(Outcome) /\ Len(new) = n
    BY <1>1, <1>4, SeqDef, LenProperties
  <1>6. /\ all \in Seq(Outcome) /\ Len(all) = l + n
        /\ \A i \in 1..(l + n) : all[i] = IF i <= l THEN old[i] ELSE new[i - l]
    BY <1>5, ConcatProperties
  <1> HIDE DEF l, all
  <1>7. DOMAIN all = 1..(l + n)
    BY <1>6
  <1>8. ASSUME NEW i \in DOMAIN old PROVE i \in DOMAIN all /\ all[i] = old[i]
    <2>1. i \in 1..(l + n) /\ i <= l
      BY <1>1
    <2> QED
      BY <1>6, <1>7, <2>1
  <1>9. ASSUME NEW id \in S
        PROVE  /\ ResultIndex(old, order, id) \in DOMAIN all /\ ResultIndex(old, order, id) \in Nat
               /\ all[ResultIndex(old, order, id)] = [id |-> id, ok |-> ok[id]]
    <2> DEFINE at == CHOOSE k \in 1..n : order[k] = id
    <2>1. at \in 1..n /\ order[at] = id
      BY <1>2
    <2>2. ResultIndex(old, order, id) = l + at
      BY <1>2 DEF ResultIndex, l
    <2> HIDE DEF at
    <2>3. new[at] = [id |-> id, ok |-> ok[id]]
      BY <1>3, <2>1
    <2>4. PICK m \in 1..(l + n) : m = l + at
      BY <1>1, <2>1
    <2>5. ~(m <= l) /\ m - l = at
      BY <1>1, <2>1, <2>4
    <2>6. all[m] = new[at]
      BY <1>6, <2>5
    <2> QED
      BY <1>7, <2>2, <2>3, <2>4, <2>6
  <1> QED
    BY <1>6, <1>8, <1>9 DEF all, new, Gathered

LEMMA UpdatedFacts ==
  ASSUME NEW rows \in Seq(Row), NEW old \in Seq(Outcome),
         \A k \in DOMAIN rows : RowShown(rows[k], old),
         NEW S \in SUBSET {rows[k].id : k \in DOMAIN rows},
         NEW ok \in [S -> BOOLEAN], NEW order \in Orders(S)
  PROVE  /\ old \o ResultsOf(ok, order) \in Seq(Outcome)
         /\ Updated(rows, old, order, ok) \in Seq(Row)
         /\ DOMAIN Updated(rows, old, order, ok) = DOMAIN rows
         /\ \A k \in DOMAIN rows :
              /\ RowShown(Updated(rows, old, order, ok)[k], old \o ResultsOf(ok, order))
              /\ Updated(rows, old, order, ok)[k].id = rows[k].id
  <1> DEFINE D == DOMAIN rows
             ids == {rows[k].id : k \in D}
             all == old \o ResultsOf(ok, order)
             more == Updated(rows, old, order, ok)
  <1>1. D = 1..Len(rows) /\ Len(rows) \in Nat /\ \A k \in D : rows[k] \in Row
    OBVIOUS
  <1>2. S \subseteq ids /\ \A k \in D : RowShown(rows[k], old)
    OBVIOUS
  <1>3. \A k \in D : more[k] = IF rows[k].id \in S /\ IsFirstRow(rows, k)
                       THEN [rows[k] EXCEPT !.status = IF ok[rows[k].id] THEN "Recovered" ELSE "Failed",
                                            !.resultIndex = ResultIndex(old, order, rows[k].id)]
                       ELSE rows[k]
    BY DEF Updated
  <1>4. more = [k \in D |-> more[k]]
    BY DEF Updated
  <1>5. IsFiniteSet(S) /\ S \subseteq Nat
    <2>1. IsFiniteSet(D)
      BY <1>1, FS_Interval
    <2>2. IsFiniteSet(ids)
      <3> DEFINE id == [k \in D |-> rows[k].id]
      <3>1. id \in Surjection(D, ids)
        BY DEF Surjection
      <3> QED
        BY <2>1, <3>1, FS_Surjection
    <2>3. ids \subseteq Nat
      BY <1>1 DEF Row
    <2> HIDE DEF ids
    <2> QED
      BY <1>2, <2>2, <2>3, FS_Subset
  <1> HIDE DEF D, ids, all, more
  <1>6. /\ all \in Seq(Outcome)
        /\ \A i \in DOMAIN old : i \in DOMAIN all /\ all[i] = old[i]
        /\ \A id \in S : /\ ResultIndex(old, order, id) \in DOMAIN all
                         /\ ResultIndex(old, order, id) \in Nat
                         /\ all[ResultIndex(old, order, id)] = [id |-> id, ok |-> ok[id]]
    <2>1. Gathered(old, S, ok, order, all)
      BY <1>5, ResultsFacts DEF all
    <2> QED
      BY <2>1 DEF Gathered
  <1>7. ASSUME NEW k \in D
        PROVE  more[k] \in Row /\ RowShown(more[k], all) /\ more[k].id = rows[k].id
    <2>1. PICK row \in Row : row = rows[k]
      BY <1>1
    <2>2. CASE row.id \in S /\ IsFirstRow(rows, k)
      <3>1. PICK id \in S : id = row.id
        BY <2>2
      <3>2. PICK index \in Nat : /\ index = ResultIndex(old, order, id) /\ index \in DOMAIN all
                                 /\ all[index] = [id |-> id, ok |-> ok[id]]
        BY <1>6
      <3>3. PICK shown \in {"Recovered", "Failed"} :
              shown = (IF ok[id] THEN "Recovered" ELSE "Failed")
        OBVIOUS
      <3>4. more[k] = [row EXCEPT !.status = shown, !.resultIndex = index]
        BY <1>3, <2>1, <2>2, <3>1, <3>2, <3>3
      <3>5. more[k] \in Row /\ more[k].id = id /\ more[k].status = shown /\ more[k].resultIndex = index
        BY <3>1, <3>4 DEF Row
      <3>6. ok[id] \in BOOLEAN
        OBVIOUS
      <3>7. (shown = "Recovered") = ok[id] /\ shown # "Pending"
        BY <3>3, <3>6
      <3> QED
        BY <2>1, <3>1, <3>2, <3>5, <3>7 DEF RowShown
    <2>3. CASE ~(row.id \in S /\ IsFirstRow(rows, k))
      <3>1. more[k] = row
        BY <1>3, <2>1, <2>3
      <3>2. RowShown(row, old)
        BY <1>2, <2>1
      <3>3. RowShown(row, all)
        BY <1>6, <3>2 DEF RowShown
      <3> QED
        BY <2>1, <3>1, <3>3
    <2> QED
      BY <2>2, <2>3
  <1>8. more \in [1..Len(rows) -> Row]
    BY <1>1, <1>4, <1>7
  <1>9. more \in Seq(Row) /\ DOMAIN more = D
    BY <1>1, <1>8, SeqDef
  <1> QED
    BY <1>6, <1>7, <1>9 DEF D, all, more

(* Recovering what is selected.                                            *)
LEMMA ExecuteStep ==
  ASSUME SessionInv, ViewInv, ExecuteSelected
  PROVE  /\ recovery' # NoRecovery /\ recovery' \in RecoveryState
         /\ recovery'.selected \in DOMAIN recovery'.candidates
         /\ ViewShowsItsResult'
  <1>1. /\ recovery # NoRecovery /\ recovery \in RecoveryState
        /\ recovery.selectedIds \subseteq CandidateIds /\ recovery.selectedIds # {}
    BY DEF ViewInv, SessionTypeOK, ExecuteSelected, RecoveryKey, ViewShowsItsResult, SelectionIsListed
  <1>2. PICK rows \in Seq(Row), old \in Seq(Outcome), marked \in SUBSET Nat :
          rows = recovery.candidates /\ old = recovery.results /\ marked = recovery.selectedIds
    BY <1>1 DEF RecoveryState, Outcome
  <1>3. PICK S, ok, order :
          /\ S \in SUBSET marked /\ ok \in [S -> BOOLEAN] /\ order \in Orders(S)
          /\ recovery' = [recovery EXCEPT !.results = old \o ResultsOf(ok, order),
                                          !.candidates = Sorted(Updated(rows, old, order, ok)),
                                          !.selectedIds = marked \ S,
                                          !.outputDir = "working"]
    <2>1. PICK ok \in Answers : \E order \in Orders(DOMAIN ok) :
             recovery' = [recovery EXCEPT !.results = @ \o ResultsOf(ok, order),
                                          !.candidates = Sorted(Updated(@, recovery.results, order, ok)),
                                          !.selectedIds = @ \ DOMAIN ok,
                                          !.outputDir = "working"]
      BY DEF ExecuteSelected
    <2>2. PICK S \in SUBSET marked : ok \in [S -> BOOLEAN]
      BY <1>2 DEF Answers
    <2>3. DOMAIN ok = S
      BY <2>2
    <2>4. PICK order \in Orders(S) :
             recovery' = [recovery EXCEPT !.results = @ \o ResultsOf(ok, order),
                                          !.candidates = Sorted(Updated(@, recovery.results, order, ok)),
                                          !.selectedIds = @ \ DOMAIN ok,
                                          !.outputDir = "working"]
      BY <2>1, <2>3
    <2>5. recovery' = [recovery EXCEPT !.results = old \o ResultsOf(ok, order),
                                       !.candidates = Sorted(Updated(rows, old, order, ok)),
                                       !.selectedIds = marked \ S,
                                       !.outputDir = "working"]
      BY <1>2, <2>3, <2>4
    <2> QED
      BY <2>2, <2>5
  <1>4. /\ \A k \in DOMAIN rows : RowShown(rows[k], old)
        /\ marked \subseteq {rows[k].id : k \in DOMAIN rows}
    BY <1>1, <1>2 DEF ViewInv, ViewShowsItsResult, RowsShowTheirResult, RowShown, CandidateIds
  <1>5. PICK all, more : all = old \o ResultsOf(ok, order) /\ more = Updated(rows, old, order, ok)
    OBVIOUS
  <1>6. /\ all \in Seq(Outcome) /\ more \in Seq(Row) /\ DOMAIN more = DOMAIN rows
        /\ \A k \in DOMAIN rows : RowShown(more[k], all) /\ more[k].id = rows[k].id
    <2>1. S \in SUBSET {rows[k].id : k \in DOMAIN rows} /\ order \in Orders(S) /\ ok \in [S -> BOOLEAN]
      BY <1>3, <1>4
    <2>2. \A k \in DOMAIN rows : RowShown(rows[k], old)
      BY <1>4
    <2>3. /\ old \o ResultsOf(ok, order) \in Seq(Outcome)
          /\ Updated(rows, old, order, ok) \in Seq(Row)
          /\ DOMAIN Updated(rows, old, order, ok) = DOMAIN rows
          /\ \A k \in DOMAIN rows :
               /\ RowShown(Updated(rows, old, order, ok)[k], old \o ResultsOf(ok, order))
               /\ Updated(rows, old, order, ok)[k].id = rows[k].id
      BY <2>1, <2>2, UpdatedFacts
    <2> QED
      BY <1>5, <2>3
  <1>7. PICK list \in Seq(Row) : /\ list = Sorted(more) /\ DOMAIN list = DOMAIN rows
                                 /\ \A k \in DOMAIN rows : \E j \in DOMAIN rows : list[k] = more[j]
                                 /\ \A j \in DOMAIN rows : \E k \in DOMAIN rows : list[k] = more[j]
    BY <1>6, SortedFacts
  <1>8. recovery' = [recovery EXCEPT !.results = all, !.candidates = list,
                                     !.selectedIds = marked \ S, !.outputDir = "working"]
    BY <1>3, <1>5, <1>7
  <1>9. /\ recovery' \in RecoveryState /\ recovery'.candidates = list /\ recovery'.results = all
        /\ recovery'.selectedIds = marked \ S /\ recovery'.selected = recovery.selected
        /\ recovery'.image \in Images
    BY <1>1, <1>6, <1>8 DEF RecoveryState, Outcome
  <1>10. recovery' # NoRecovery
    BY <1>9, TuiAssumption DEF NoRecovery
  <1>11. recovery'.selected \in DOMAIN recovery'.candidates
    <2>1. rows # << >>
      BY <1>1, <1>2, <1>4
    <2> QED
      BY <1>1, <1>2, <1>7, <1>9, <2>1 DEF ViewInv, SessionTypeOK
  <1>12. \A k \in DOMAIN list : RowShown(list[k], all)
    BY <1>6, <1>7
  <1>13. marked \ S \subseteq {list[k].id : k \in DOMAIN list}
    <2> SUFFICES ASSUME NEW id \in marked PROVE \E k \in DOMAIN list : list[k].id = id
      OBVIOUS
    <2>1. PICK j \in DOMAIN rows : rows[j].id = id
      BY <1>4
    <2>2. PICK k \in DOMAIN rows : list[k] = more[j]
      BY <1>7
    <2>3. more[j].id = id
      BY <1>6, <2>1
    <2>4. k \in DOMAIN list /\ list[k].id = id
      BY <1>7, <2>2, <2>3
    <2> QED
      BY <2>4
  <1> QED
    BY <1>9, <1>10, <1>11, <1>12, <1>13
       DEF ViewShowsItsResult, RowsShowTheirResult, SelectionIsListed, CandidateIds, RowShown

(* The keys of the recovery screen other than that.                        *)
LEMMA ScreenStep ==
  ASSUME SessionInv, ViewInv, MoveCursor \/ ToggleSelected \/ SelectAll \/ CycleFilter \/ SaveWork
  PROVE  /\ recovery' # NoRecovery /\ recovery' \in RecoveryState
         /\ IF recovery'.candidates = << >> THEN recovery'.selected = 1
              ELSE recovery'.selected \in DOMAIN recovery'.candidates
         /\ ViewShowsItsResult'
  <1>1. /\ recovery # NoRecovery /\ recovery \in RecoveryState
        /\ recovery.selectedIds \subseteq CandidateIds
        /\ IF recovery.candidates = << >> THEN recovery.selected = 1
             ELSE recovery.selected \in DOMAIN recovery.candidates
    BY DEF ViewInv, SessionTypeOK, MoveCursor, ToggleSelected, SelectAll, CycleFilter, SaveWork,
           RecoveryKey, ViewShowsItsResult, SelectionIsListed
  <1>2. CandidateIds \subseteq Nat
    <2>1. recovery.candidates \in Seq(Row)
      BY <1>1 DEF RecoveryState
    <2>2. \A k \in DOMAIN recovery.candidates : recovery.candidates[k] \in Row
      BY <2>1
    <2> QED
      BY <2>2 DEF CandidateIds, Row
  <1>3. ASSUME NEW k \in DOMAIN recovery.candidates PROVE RowShown(recovery.candidates[k], recovery.results)
    BY <1>1 DEF ViewInv, ViewShowsItsResult, RowsShowTheirResult, RowShown
  <1>4. ASSUME NEW new \in RecoveryState, recovery' = new, new.candidates = recovery.candidates,
               new.results = recovery.results, new.selectedIds \subseteq CandidateIds
        PROVE  /\ recovery' # NoRecovery /\ recovery' \in RecoveryState /\ ViewShowsItsResult'
    <2>1. recovery' # NoRecovery
      BY <1>4, TuiAssumption DEF NoRecovery, RecoveryState
    <2>2. CandidateIds' = CandidateIds
      BY <1>4 DEF CandidateIds
    <2> QED
      BY <1>3, <1>4, <2>1, <2>2
         DEF ViewShowsItsResult, RowsShowTheirResult, SelectionIsListed, RowShown
  <1>5. CASE MoveCursor
    <2>1. PICK k \in DOMAIN recovery.candidates : recovery' = [recovery EXCEPT !.selected = k]
      BY <1>5 DEF MoveCursor
    <2>2. k \in Nat /\ recovery.candidates # << >>
      <3>1. recovery.candidates \in Seq(Row)
        BY <1>1 DEF RecoveryState
      <3> QED
        BY <3>1
    <2>3. /\ recovery' \in RecoveryState /\ recovery'.candidates = recovery.candidates
          /\ recovery'.results = recovery.results /\ recovery'.selectedIds = recovery.selectedIds
          /\ recovery'.selected = k /\ recovery.candidates # << >>
      BY <1>1, <2>1, <2>2 DEF RecoveryState
    <2> QED
      BY <1>1, <1>4, <2>3
  <1>6. CASE ToggleSelected \/ SelectAll
    <2>1. PICK marked \in SUBSET CandidateIds : recovery' = [recovery EXCEPT !.selectedIds = marked]
      <3>1. CASE ToggleSelected
        <4> DEFINE id == SelectedItem.id
                   marked == IF id \in recovery.selectedIds THEN recovery.selectedIds \ {id}
                                                            ELSE recovery.selectedIds \cup {id}
        <4>1. id \in CandidateIds
          BY <3>1 DEF ToggleSelected, OnItem, SelectedItem, CandidateIds
        <4>2. recovery' = [recovery EXCEPT !.selectedIds = marked]
          BY <1>1, <3>1 DEF ToggleSelected
        <4> QED
          BY <1>1, <4>1, <4>2
      <3>2. CASE SelectAll
        BY <3>2 DEF SelectAll
      <3> QED
        BY <1>6, <3>1, <3>2
    <2>2. /\ recovery' \in RecoveryState /\ recovery'.candidates = recovery.candidates
          /\ recovery'.results = recovery.results /\ recovery'.selectedIds = marked
          /\ recovery'.selected = recovery.selected
      BY <1>1, <1>2, <2>1 DEF RecoveryState
    <2> QED
      BY <1>1, <1>4, <2>2
  <1>7. CASE SaveWork
    <2>1. /\ recovery' \in RecoveryState /\ recovery'.candidates = recovery.candidates
          /\ recovery'.results = recovery.results /\ recovery'.selectedIds = recovery.selectedIds
          /\ recovery'.selected = recovery.selected
      BY <1>1, <1>7 DEF SaveWork, RecoveryState
    <2> QED
      BY <1>1, <1>4, <2>1
  <1>8. CASE CycleFilter
    <2>1. PICK filter \in Filters :
            recovery' = [recovery EXCEPT !.filter = filter, !.candidates = Items(result, filter),
                                         !.selectedIds = {}, !.selected = 1]
      <3>1. NextFilter[recovery.filter] \in Filters
        BY <1>1 DEF RecoveryState, Filters, NextFilter
      <3> QED
        BY <1>8, <3>1 DEF CycleFilter
    <2>2. result \in Images
      BY <1>1, TuiAssumption DEF SessionInv, RecoveryBelongsToResult, RecoveryHasImage
    <2>3. PICK rows \in Seq(Row) : rows = Items(result, filter)
      BY <2>2, ItemsFacts
    <2>4. \A k \in DOMAIN rows : rows[k].status = "Pending" /\ rows[k].resultIndex = 0
      BY <2>2, <2>3, ItemsFacts
    <2>5. /\ recovery' \in RecoveryState /\ recovery'.candidates = rows
          /\ recovery'.selectedIds = {} /\ recovery'.selected = 1 /\ recovery'.image \in Images
      BY <1>1, <2>1, <2>3 DEF RecoveryState
    <2>6. recovery' # NoRecovery
      BY <2>5, TuiAssumption DEF NoRecovery
    <2>7. rows = << >> \/ 1 \in DOMAIN rows
      OBVIOUS
    <2> QED
      BY <2>4, <2>5, <2>6, <2>7
         DEF ViewShowsItsResult, RowsShowTheirResult, SelectionIsListed
  <1> QED
    BY <1>5, <1>6, <1>7, <1>8

(* Opening it.                                                             *)
LEMMA OpenStep ==
  ASSUME SessionInv, NEW filter \in Filters, StartRecovery(filter)
  PROVE  /\ recovery' # NoRecovery /\ recovery' \in RecoveryState
         /\ IF recovery'.candidates = << >> THEN recovery'.selected = 1
              ELSE recovery'.selected \in DOMAIN recovery'.candidates
         /\ ViewShowsItsResult'
  <1>1. result \in Images
    BY TuiAssumption DEF StartRecovery
  <1>2. PICK rows \in Seq(Row) : rows = Items(result, filter)
    BY <1>1, ItemsFacts
  <1>3. \A k \in DOMAIN rows : rows[k].status = "Pending" /\ rows[k].resultIndex = 0
    BY <1>1, <1>2, ItemsFacts
  <1>4. recovery' = [image |-> result, filter |-> filter, candidates |-> rows,
                     selectedIds |-> {}, results |-> << >>, selected |-> 1,
                     outputDir |-> "none", saved |-> FALSE]
    BY <1>2 DEF StartRecovery, NewRecovery
  <1>5. recovery' \in RecoveryState
    BY <1>1, <1>4 DEF RecoveryState
  <1>6. recovery' # NoRecovery
    BY <1>1, <1>4, TuiAssumption DEF NoRecovery
  <1>7. rows = << >> \/ 1 \in DOMAIN rows
    OBVIOUS
  <1> QED
    BY <1>3, <1>4, <1>5, <1>6, <1>7 DEF ViewShowsItsResult, RowsShowTheirResult, SelectionIsListed

(* Every other step leaves a recovery alone or drops it.                   *)
LEMMA RecoveryStays ==
  ASSUME ViewInv, recovery' = recovery \/ recovery' = NoRecovery
  PROVE  /\ recovery' # NoRecovery =>
              /\ recovery' \in RecoveryState
              /\ IF recovery'.candidates = << >> THEN recovery'.selected = 1
                   ELSE recovery'.selected \in DOMAIN recovery'.candidates
         /\ ViewShowsItsResult'
  BY DEF ViewInv, SessionTypeOK, ViewShowsItsResult, RowsShowTheirResult, SelectionIsListed, CandidateIds

LEMMA ViewStep == SessionInv /\ ViewInv /\ [SessionNext]_sessionVars => ViewInv'
  <1> SUFFICES ASSUME SessionInv, ViewInv, [SessionNext]_sessionVars PROVE ViewInv'
    OBVIOUS
  <1>1. /\ recovery' # NoRecovery =>
              /\ recovery' \in RecoveryState
              /\ IF recovery'.candidates = << >> THEN recovery'.selected = 1
                   ELSE recovery'.selected \in DOMAIN recovery'.candidates
        /\ ViewShowsItsResult'
    <2>1. CASE ExecuteSelected
      <3>1. /\ recovery' \in RecoveryState /\ recovery'.selected \in DOMAIN recovery'.candidates
            /\ ViewShowsItsResult'
        BY <2>1, ExecuteStep
      <3>2. recovery'.candidates # << >>
        BY <3>1
      <3> QED
        BY <3>1, <3>2
    <2>2. CASE MoveCursor \/ ToggleSelected \/ SelectAll \/ CycleFilter \/ SaveWork
      BY <2>2, ScreenStep
    <2>3. CASE \E filter \in Filters : StartRecovery(filter)
      BY <2>3, OpenStep
    <2>4. CASE recovery' = recovery \/ recovery' = NoRecovery
      BY <2>4, RecoveryStays
    <2> QED
      BY <2>1, <2>2, <2>3, <2>4
         DEF SessionNext, Handle, sessionVars, work, Investigate, InvestigatorPanics, Poll, LoadResult,
             NoKey, RequestExit, DeclineExit, ConfirmExit, HandlerError, Exit, OpenBrowser, LeaveBrowser,
             ClearInspection, StartInvestigation, ToggleFocus, OpenCategory, LeaveCategory,
             OpenDetails, OpenSave, BackToRecovery, LeaveRecovery
  <1>2. /\ mode' \in Modes /\ result' \in Images \cup {None} /\ pending' \in Images \cup {None}
    BY SessionStep DEF SessionInv
  <1>3. /\ phase' \in {"poll", "key"} /\ focus' \in {"Sources", "Filesystem"} /\ browser' \in BOOLEAN
        /\ thread' \in {"none", "running", "finished"} /\ slot' \in {"empty", "ok", "err"}
        /\ confirm' \in BOOLEAN /\ app' \in {"running", "quitting", "exited"}
    <2> USE DEF ViewInv, SessionTypeOK, ui, work, investigation, Key, Reading, Done
    <2>1. CASE UNCHANGED sessionVars
      BY <2>1 DEF sessionVars
    <2>2. CASE Investigate \/ InvestigatorPanics
      BY <2>2 DEF Investigate, InvestigatorPanics
    <2>3. CASE Poll
      BY <2>3 DEF Poll, LoadResult
    <2>4. CASE NoKey \/ RequestExit \/ DeclineExit \/ ConfirmExit \/ HandlerError \/ Exit
      BY <2>4 DEF NoKey, RequestExit, DeclineExit, ConfirmExit, HandlerError, Exit
    <2>5. CASE OpenBrowser \/ LeaveBrowser \/ ClearInspection
      BY <2>5 DEF OpenBrowser, LeaveBrowser, ClearInspection, ChoosingSource
    <2>6. CASE \E i \in Images : StartInvestigation(i)
      BY <2>6 DEF StartInvestigation, ChoosingSource
    <2>7. CASE ToggleFocus \/ OpenCategory \/ LeaveCategory
      BY <2>7 DEF ToggleFocus, OpenCategory, LeaveCategory
    <2>8. CASE (\E filter \in Filters : StartRecovery(filter)) \/ LeaveRecovery
      BY <2>8 DEF StartRecovery, LeaveRecovery
    <2>9. CASE MoveCursor \/ ToggleSelected \/ SelectAll \/ CycleFilter \/ ExecuteSelected \/ SaveWork
      BY <2>9 DEF MoveCursor, ToggleSelected, SelectAll, CycleFilter, ExecuteSelected, SaveWork,
                  OnlyRecovery, RecoveryKey
    <2>10. CASE OpenDetails \/ OpenSave \/ BackToRecovery
      BY <2>10 DEF OpenDetails, OpenSave, BackToRecovery, RecoveryKey
    <2> QED
      BY <2>1, <2>2, <2>3, <2>4, <2>5, <2>6, <2>7, <2>8, <2>9, <2>10 DEF SessionNext, Handle
  <1> QED
    BY <1>1, <1>2, <1>3 DEF ViewInv, SessionTypeOK

LEMMA ViewInvariant == SessionSpec => []ViewInv
  <1>1. SessionInit => ViewInv
    BY TuiAssumption
       DEF SessionInit, ViewInv, SessionTypeOK, Modes, ViewShowsItsResult, RowsShowTheirResult,
           SelectionIsListed
  <1> QED
    BY <1>1, ViewStep, SessionInvariant, PTL DEF SessionSpec

(* The state of the session is well-formed, the recovery included.         *)
THEOREM SessionIsTyped == SessionSpec => []SessionTypeOK
  BY ViewInvariant, PTL DEF ViewInv

(* After any number of recoveries, re-sortings and changes of the filter   *)
(* every row leads to the outcome of its own object, and only listed       *)
(* objects are marked (execute_selected_recovery, sort_results).           *)
THEOREM ViewIsOfTheSession == SessionSpec => []ViewShowsItsResult
  BY ViewInvariant, PTL DEF ViewInv

-----------------------------------------------------------------------------
(* Part 3: the list of what can be recovered, and the tree beside it.      *)

Stacked(id) == \E i \in DOMAIN todo : todo[i] = id
Found(k) == \E i \in DOMAIN collected : collected[i] = k

(* Soundness of the worklist: it never leaves a set that is closed under   *)
(* going from a directory to its subdirectories.                           *)
WithinEveryClosure ==
  /\ listing = "idle" => visited = {}
  /\ \A S \in SUBSET Ids : ClosedIds(S) => /\ visited \subseteq S
                                           /\ \A i \in DOMAIN todo : todo[i] \in S

(* Completeness of the worklist: what lies in an expanded directory is     *)
(* still to be seen, stacked or expanded, or listed.                       *)
NothingForgotten ==
  /\ listing # "idle" => root \in visited \/ Stacked(root)
  /\ \A k \in DOMAIN entries :
       entries[k].parent \in visited /\ k \notin children =>
         /\ entries[k].directory => entries[k].id \in visited \/ Stacked(entries[k].id)
         /\ Wanted(k) => Found(k)

(* What was listed is a wanted file of an expanded directory, listed once, *)
(* and what is still to be seen is a child of an expanded directory.       *)
ListedFromVisited ==
  /\ \A i \in DOMAIN collected : /\ Wanted(collected[i])
                                 /\ entries[collected[i]].parent \in visited
                                 /\ collected[i] \notin children
  /\ \A k \in children : entries[k].parent \in visited

ListInv == /\ ListTypeOK
           /\ WithinEveryClosure
           /\ NothingForgotten
           /\ ListedFromVisited
           /\ NothingListedTwice

(* Entries of the list, and the ids they have.                             *)
LEMMA NodeType ==
  ASSUME ListTypeOK, NEW k \in DOMAIN entries
  PROVE  entries[k].id \in Ids /\ entries[k].id \in Nat
  <1>1. entries[k] \in Node
    BY DEF ListTypeOK
  <1> QED
    BY <1>1, HierarchyAssumption DEF Node

(* Taking the last element off a stack, and pushing one.                   *)
LEMMA StackPop ==
  ASSUME todo \in Seq(Ids), todo # << >>
  PROVE  /\ Id \in Ids /\ Stacked(Id)
         /\ Rest \in Seq(Ids)
         /\ \A i \in DOMAIN Rest : i \in DOMAIN todo /\ Rest[i] = todo[i]
         /\ \A i \in DOMAIN todo : todo[i] = Id \/ (i \in DOMAIN Rest /\ Rest[i] = todo[i])
  <1>1. Len(todo) \in Nat /\ Len(todo) >= 1 /\ Len(todo) \in DOMAIN todo
    OBVIOUS
  <1>2. /\ Rest \in Seq(Ids) /\ Len(Rest) = Len(todo) - 1
        /\ \A i \in 1..(Len(todo) - 1) : Rest[i] = todo[i]
    BY <1>1, SubSeqProperties DEF Rest
  <1>3. DOMAIN Rest = 1..(Len(todo) - 1) /\ DOMAIN todo = 1..Len(todo)
    BY <1>2
  <1> QED
    BY <1>1, <1>2, <1>3 DEF Id, Stacked

LEMMA AppendElements ==
  ASSUME NEW S, NEW s \in Seq(S), NEW x \in S
  PROVE  /\ Append(s, x) \in Seq(S)
         /\ DOMAIN Append(s, x) = DOMAIN s \cup {Len(s) + 1}
         /\ Len(s) + 1 \notin DOMAIN s
         /\ Append(s, x)[Len(s) + 1] = x
         /\ \A i \in DOMAIN s : Append(s, x)[i] = s[i]
  OBVIOUS

LEMMA StartStep ==
  ASSUME ListInv, NEW id \in Ids, StartListing(id)
  PROVE  ListInv'
  <1> USE DEF StartListing
  <1>1. ListTypeOK'
    BY DEF ListInv, ListTypeOK
  <1>2. DOMAIN todo' = {1} /\ todo'[1] = id
    OBVIOUS
  <1>3. WithinEveryClosure'
    BY <1>2 DEF ListInv, WithinEveryClosure, ClosedIds
  <1>4. NothingForgotten'
    <2>1. Stacked(root)'
      BY <1>2 DEF Stacked
    <2>2. todo = << >>
      BY DEF ListInv, ListTypeOK
    <2>3. \A i : ~Stacked(i)
      BY <2>2 DEF Stacked
    <2> QED
      BY <2>1, <2>3 DEF ListInv, NothingForgotten, Wanted, Found
  <1>5. ListedFromVisited' /\ NothingListedTwice'
    BY DEF ListInv, ListedFromVisited, NothingListedTwice, Wanted
  <1> QED
    BY <1>1, <1>3, <1>4, <1>5 DEF ListInv

LEMMA RevisitStep ==
  ASSUME ListInv, Revisit
  PROVE  ListInv'
  <1> USE DEF Revisit, Popping, ListInv
  <1>1. /\ Id \in Ids /\ Stacked(Id) /\ Rest \in Seq(Ids)
        /\ \A i \in DOMAIN Rest : i \in DOMAIN todo /\ Rest[i] = todo[i]
        /\ \A i \in DOMAIN todo : todo[i] = Id \/ (i \in DOMAIN Rest /\ Rest[i] = todo[i])
    BY StackPop DEF ListTypeOK
  <1>2. ListTypeOK'
    BY <1>1 DEF ListTypeOK
  <1>3. WithinEveryClosure'
    BY <1>1 DEF WithinEveryClosure, ClosedIds
  <1>4. \A id : Stacked(id) => id \in visited \/ Stacked(id)'
    BY <1>1 DEF Stacked
  <1>5. NothingForgotten'
    BY <1>4 DEF NothingForgotten, Wanted, Found
  <1>6. ListedFromVisited' /\ NothingListedTwice'
    BY DEF ListedFromVisited, NothingListedTwice, Wanted
  <1> QED
    BY <1>2, <1>3, <1>5, <1>6

LEMMA ExpandStep ==
  ASSUME ListInv, Expand
  PROVE  ListInv'
  <1> USE DEF Expand, Popping, ListInv
  <1>1. /\ Id \in Ids /\ Stacked(Id) /\ Rest \in Seq(Ids)
        /\ \A i \in DOMAIN Rest : i \in DOMAIN todo /\ Rest[i] = todo[i]
        /\ \A i \in DOMAIN todo : todo[i] = Id \/ (i \in DOMAIN Rest /\ Rest[i] = todo[i])
    BY StackPop DEF ListTypeOK
  <1>2. ListTypeOK'
    BY <1>1 DEF ListTypeOK, Children
  <1>3. WithinEveryClosure'
    BY <1>1 DEF WithinEveryClosure, ClosedIds, Stacked
  <1>4. \A id : Stacked(id) => id \in visited' \/ Stacked(id)'
    BY <1>1 DEF Stacked
  <1>5. NothingForgotten'
    <2>1. root' \in visited' \/ Stacked(root)'
      BY <1>4 DEF NothingForgotten
    <2>2. ASSUME NEW k \in DOMAIN entries, entries[k].parent \in visited', k \notin children'
          PROVE  /\ entries[k].directory => entries[k].id \in visited' \/ Stacked(entries[k].id)'
                 /\ Wanted(k) => Found(k)
      <3>1. entries[k].parent \in visited
        BY <2>2 DEF Children
      <3> QED
        BY <2>2, <3>1, <1>4 DEF NothingForgotten
    <2> QED
      BY <2>1, <2>2 DEF NothingForgotten, Wanted, Found
  <1>6. ListedFromVisited'
    BY DEF ListedFromVisited, Wanted, Children
  <1>7. NothingListedTwice'
    BY DEF NothingListedTwice
  <1> QED
    BY <1>2, <1>3, <1>5, <1>6, <1>7

LEMMA TakeStep ==
  ASSUME ListInv, TakeChild
  PROVE  ListInv'
  <1>1. PICK k \in children :
          /\ listing = "walking"
          /\ children' = children \ {k}
          /\ todo' = IF entries[k].directory THEN Append(todo, entries[k].id) ELSE todo
          /\ collected' = IF Wanted(k) THEN Append(collected, k) ELSE collected
          /\ UNCHANGED <<entries, root, visited, listing>>
    BY DEF TakeChild
  <1> USE DEF ListInv
  <1>2. /\ k \in DOMAIN entries /\ todo \in Seq(Ids) /\ collected \in Seq(DOMAIN entries)
        /\ entries[k].parent \in visited
    BY DEF ListTypeOK, ListedFromVisited
  <1>3. entries[k].id \in Ids
    BY <1>2, NodeType
  <1>4. /\ todo' \in Seq(Ids)
        /\ \A i \in DOMAIN todo : i \in DOMAIN todo' /\ todo'[i] = todo[i]
        /\ \A i \in DOMAIN todo' : \/ i \in DOMAIN todo /\ todo'[i] = todo[i]
                                   \/ entries[k].directory /\ todo'[i] = entries[k].id
        /\ entries[k].directory => \E i \in DOMAIN todo' : todo'[i] = entries[k].id
    <2>1. CASE entries[k].directory
      BY <1>1, <1>2, <1>3, <2>1, AppendElements
    <2>2. CASE ~entries[k].directory
      BY <1>1, <1>2, <2>2
    <2> QED
      BY <2>1, <2>2
  <1>5. /\ collected' \in Seq(DOMAIN entries)
        /\ \A i \in DOMAIN collected : i \in DOMAIN collected' /\ collected'[i] = collected[i]
        /\ \A i \in DOMAIN collected' :
             \/ i \in DOMAIN collected /\ collected'[i] = collected[i]
             \/ Wanted(k) /\ collected'[i] = k /\ i = Len(collected) + 1
        /\ Wanted(k) => \E i \in DOMAIN collected' : collected'[i] = k
    <2>1. CASE Wanted(k)
      BY <1>1, <1>2, <2>1, AppendElements
    <2>2. CASE ~Wanted(k)
      BY <1>1, <1>2, <2>2
    <2> QED
      BY <2>1, <2>2
  <1>6. ListTypeOK'
    BY <1>1, <1>4, <1>5 DEF ListTypeOK
  <1>7. WithinEveryClosure'
    BY <1>1, <1>2, <1>4 DEF WithinEveryClosure, ClosedIds
  <1>8. NothingForgotten'
    <2>1. \A id : Stacked(id) => Stacked(id)'
      BY <1>4 DEF Stacked
    <2>2. \A j : Found(j) => Found(j)'
      BY <1>5 DEF Found
    <2>3. /\ entries[k].directory => Stacked(entries[k].id)'
          /\ Wanted(k) => Found(k)'
      BY <1>1, <1>4, <1>5 DEF Stacked, Found
    <2>4. \A j \in DOMAIN entries : Wanted(j)' <=> Wanted(j)
      BY <1>1 DEF Wanted
    <2> QED
      BY <1>1, <2>1, <2>2, <2>3, <2>4 DEF NothingForgotten
  <1>9. ListedFromVisited'
    BY <1>1, <1>2, <1>5 DEF ListedFromVisited, Wanted
  <1>10. NothingListedTwice'
    <2>1. \A i \in DOMAIN collected : collected[i] # k
      BY <1>1 DEF ListedFromVisited
    <2> QED
      BY <1>5, <2>1 DEF NothingListedTwice
  <1> QED
    BY <1>6, <1>7, <1>8, <1>9, <1>10

LEMMA FinishStep ==
  ASSUME ListInv, FinishListing \/ UNCHANGED <<entries, listVars>>
  PROVE  ListInv'
  BY DEF FinishListing, listVars, ListInv, ListTypeOK, WithinEveryClosure, ClosedIds,
         NothingForgotten, Stacked, Found, ListedFromVisited, NothingListedTwice, Wanted

LEMMA ListInvariant == ListSpec => []ListInv
  <1>1. ListInit => ListInv
    BY HierarchyAssumption
       DEF ListInit, ListInv, ListTypeOK, WithinEveryClosure, NothingForgotten,
           ListedFromVisited, NothingListedTwice
  <1>2. ListInv /\ [ListNext]_<<entries, listVars>> => ListInv'
    BY StartStep, RevisitStep, ExpandStep, TakeStep, FinishStep DEF ListNext, Traverse
  <1> QED
    BY <1>1, <1>2, PTL DEF ListSpec

(* The state of the traversal is well-formed, whatever the metadata        *)
(* (collect_recoverable_entries).                                          *)
THEOREM ListingIsTyped == ListSpec => []ListTypeOK
  BY ListInvariant, PTL DEF ListInv

(* Nothing is ever offered that is not a wanted file below the root        *)
(* (collect_recoverable_entries).                                          *)
THEOREM ListingIsSound == ListSpec => []ListedAreBelowRoot
  <1>1. ListInv => ListedAreBelowRoot
    BY DEF ListInv, ListedFromVisited, WithinEveryClosure, ListedAreBelowRoot, Below
  <1> QED
    BY <1>1, ListInvariant, PTL

(* No object is offered twice (collect_recoverable_entries).               *)
THEOREM ListingHasNoRepeats == ListSpec => []NothingListedTwice
  BY ListInvariant, PTL DEF ListInv

(* A finished traversal has listed every wanted file below its root, for   *)
(* every parent graph (collect_recoverable_entries).                       *)
THEOREM ListingIsComplete == ListSpec => []ListingComplete
  <1>1. ListInv => ListingComplete
    <2> SUFFICES ASSUME ListInv, listing = "listed", NEW k \in DOMAIN entries,
                        Wanted(k), Below(k)
                 PROVE  Found(k)
      BY DEF ListingComplete, Found
    <2>1. todo = << >> /\ children = {} /\ visited \in SUBSET Ids
      BY DEF ListInv, ListTypeOK
    <2>2. \A id : ~Stacked(id)
      BY <2>1 DEF Stacked
    <2>3. ClosedIds(visited)
      BY <2>1, <2>2 DEF ListInv, NothingForgotten, ClosedIds
    <2>4. entries[k].parent \in visited
      BY <2>1, <2>3 DEF Below
    <2> QED
      BY <2>1, <2>4 DEF ListInv, NothingForgotten
  <1> QED
    BY <1>1, ListInvariant, PTL

-----------------------------------------------------------------------------
(* The tree's steps leave the traversal alone, and the traversal's steps   *)
(* are those of RecoverableEntries (inspect_filesystem,                    *)
(* collect_recoverable_entries).                                           *)
THEOREM NavigationImplementsListing == NavSpec => ListSpec
  <1>1. NavInit => ListInit
    BY DEF NavInit
  <1>2. [NavNext]_navVars => [ListNext]_<<entries, listVars>>
    BY DEF NavNext, navVars, TreeNext, TakeRoot, VisitChild, ReturnNode, Overflow, FinishTree,
           treeVars, listVars
  <1> QED
    BY <1>1, <1>2, PTL DEF NavSpec, ListSpec

(* Whatever the metadata, what a front end offers is exactly the wanted    *)
(* files below the directory it shows, each once                           *)
(* (collect_recoverable_entries).                                          *)
THEOREM NavigationOffersExactly ==
  NavSpec => []ListingIsExact
  <1>1. ListedAreBelowRoot /\ ListingComplete /\ NothingListedTwice => ListingIsExact
    BY DEF ListingIsExact
  <1> QED
    BY <1>1, NavigationImplementsListing, ListingIsSound, ListingIsComplete, ListingHasNoRepeats, PTL

-----------------------------------------------------------------------------
(* The tree.  Every running call works on an entry that was placed.        *)
FramesInv ==
  /\ TreeTypeOK
  /\ \A i \in DOMAIN stack : /\ stack[i].node \in DOMAIN entries
                             /\ stack[i].next >= 1
                             /\ placed[stack[i].node] > 0

LEMMA FrameType ==
  ASSUME NEW frames \in Seq(Frame), NEW i \in DOMAIN frames
  PROVE  frames[i].node \in Nat /\ frames[i].next \in Nat
  <1>1. frames[i] \in Frame
    OBVIOUS
  <1> QED
    BY <1>1 DEF Frame

(* The calls below the innermost one, and that one a child further.        *)
LEMMA TopOfStack ==
  ASSUME stack \in Seq(Frame), stack # << >>
  PROVE  /\ Len(stack) \in DOMAIN stack /\ Top \in Frame
         /\ Callers \in Seq(Frame) /\ DOMAIN Callers = 1..(Len(stack) - 1)
         /\ \A i \in DOMAIN Callers : i \in DOMAIN stack /\ Callers[i] = stack[i]
         /\ Advance \in Seq(Frame) /\ Len(Advance) = Len(stack) /\ DOMAIN Advance = DOMAIN stack
         /\ \A i \in DOMAIN stack :
              /\ Advance[i].node = stack[i].node
              /\ Advance[i].next = IF i = Len(stack) THEN Top.next + 1 ELSE stack[i].next
  <1>1. Len(stack) \in Nat /\ Len(stack) >= 1 /\ DOMAIN stack = 1..Len(stack)
    OBVIOUS
  <1>2. Top \in Frame
    BY <1>1 DEF Top
  <1>3. /\ Callers \in Seq(Frame) /\ Len(Callers) = Len(stack) - 1
        /\ \A i \in 1..(Len(stack) - 1) : Callers[i] = stack[i]
    BY <1>1, SubSeqProperties DEF Callers
  <1>4. [Top EXCEPT !.next = @ + 1] \in Frame
    BY <1>2 DEF Frame
  <1> DEFINE next == [Top EXCEPT !.next = @ + 1]
  <1>5. /\ Advance \in Seq(Frame) /\ DOMAIN Advance = DOMAIN Callers \cup {Len(Callers) + 1}
        /\ Advance[Len(Callers) + 1] = next
        /\ \A i \in DOMAIN Callers : Advance[i] = Callers[i]
    <2> HIDE DEF next
    <2>1. next \in Frame /\ Advance = Append(Callers, next)
      BY <1>4 DEF Advance, next
    <2> QED
      BY <1>3, <2>1, AppendElements
  <1>6. next.node = Top.node /\ next.next = Top.next + 1
    BY <1>2 DEF Frame
  <1>7. DOMAIN Callers = 1..(Len(stack) - 1) /\ Len(Callers) + 1 = Len(stack)
    BY <1>3
  <1>8. DOMAIN Advance = DOMAIN stack
    BY <1>1, <1>5, <1>7
  <1>9. Len(Advance) = Len(stack)
    BY <1>1, <1>5, <1>8
  <1>10. ASSUME NEW i \in DOMAIN stack
         PROVE  /\ Advance[i].node = stack[i].node
                /\ Advance[i].next = IF i = Len(stack) THEN Top.next + 1 ELSE stack[i].next
    <2>1. CASE i = Len(stack)
      BY <1>5, <1>6, <1>7, <2>1 DEF Top
    <2>2. CASE i # Len(stack)
      <3>1. i \in DOMAIN Callers
        BY <1>1, <1>7, <2>2
      <3> QED
        BY <1>3, <1>5, <1>7, <2>2, <3>1
    <2> QED
      BY <2>1, <2>2
  <1> HIDE DEF next
  <1>11. /\ Len(stack) \in DOMAIN stack
         /\ \A i \in DOMAIN Callers : i \in DOMAIN stack /\ Callers[i] = stack[i]
    BY <1>1, <1>3, <1>7
  <1> QED
    BY <1>2, <1>3, <1>5, <1>7, <1>8, <1>9, <1>10, <1>11

(* A call for one entry more.                                              *)
LEMMA EnterPushes ==
  ASSUME NEW frames \in Seq(Frame), NEW k \in DOMAIN entries, Enter(frames, k),
         entries \in Seq(Node), placed \in [DOMAIN entries -> Nat]
  PROVE  /\ stack' \in Seq(Frame)
         /\ DOMAIN stack' = DOMAIN frames \cup {Len(frames) + 1}
         /\ Len(frames) + 1 \notin DOMAIN frames
         /\ \A i \in DOMAIN frames : stack'[i] = frames[i]
         /\ stack'[Len(frames) + 1].node = k /\ stack'[Len(frames) + 1].next = 1
         /\ placed' \in [DOMAIN entries -> Nat]
         /\ placed'[k] = placed[k] + 1
         /\ \A j \in DOMAIN entries : j # k => placed'[j] = placed[j]
  <1>1. k \in Nat
    OBVIOUS
  <1>2. [node |-> k, next |-> 1] \in Frame
    BY <1>1 DEF Frame
  <1> QED
    BY <1>2, AppendElements DEF Enter

(* The three ways a step of the tree changes the calls: a call for a child *)
(* or a root, the next child, and a return.                                *)
Calls(k, frames) == /\ k \in DOMAIN entries /\ Enter(frames, k)
                    /\ \/ /\ stack = << >> /\ frames = << >> /\ IsRoot(k)
                          /\ k = scan /\ scan' = scan + 1
                       \/ /\ stack # << >> /\ frames = Advance
                          /\ k = Top.next /\ Expands(Top.node, k) /\ scan' = scan
                    /\ tree = "building" /\ UNCHANGED <<entries, tree>>
Goes == /\ stack # << >> /\ Top.next \in DOMAIN entries /\ ~Expands(Top.node, Top.next)
        /\ stack' = Advance /\ tree = "building" /\ UNCHANGED <<entries, scan, placed, tree>>
Returns == /\ stack # << >> /\ Top.next \notin DOMAIN entries
           /\ stack' = Callers /\ tree = "building" /\ UNCHANGED <<entries, scan, placed, tree>>
Passes == /\ tree = "building" /\ stack = << >> /\ scan \in DOMAIN entries /\ ~IsRoot(scan)
          /\ scan' = scan + 1 /\ UNCHANGED <<entries, stack, placed, tree>>
Ends == \/ Overflow \/ FinishTree \/ UNCHANGED <<entries, treeVars>>

LEMMA TreeSteps ==
  ASSUME [TreeNext]_<<entries, treeVars>>
  PROVE  (\E k, frames : Calls(k, frames)) \/ Goes \/ Returns \/ Passes \/ Ends
  <1>1. CASE TakeRoot
    <2>1. CASE IsRoot(scan)
      <3>1. Calls(scan, << >>)
        BY <1>1, <2>1 DEF TakeRoot, Calls
      <3> QED
        BY <3>1
    <2>2. CASE ~IsRoot(scan)
      BY <1>1, <2>2 DEF TakeRoot, Passes
    <2> QED
      BY <2>1, <2>2
  <1>2. CASE VisitChild
    <2>1. CASE Expands(Top.node, Top.next)
      <3>1. Calls(Top.next, Advance)
        BY <1>2, <2>1 DEF VisitChild, Calls
      <3> QED
        BY <3>1
    <2>2. CASE ~Expands(Top.node, Top.next)
      BY <1>2, <2>2 DEF VisitChild, Goes
    <2> QED
      BY <2>1, <2>2
  <1>3. CASE ReturnNode
    BY <1>3 DEF ReturnNode, Returns
  <1> QED
    BY <1>1, <1>2, <1>3 DEF TreeNext, Ends

(* Where the calls of the next state come from.                            *)
CallEffect(k, frames) ==
  /\ stack' \in Seq(Frame) /\ placed' \in [DOMAIN entries -> Nat]
  /\ frames \in Seq(Frame) /\ DOMAIN frames = DOMAIN stack
  /\ DOMAIN stack' = DOMAIN stack \cup {Len(frames) + 1}
  /\ Len(frames) + 1 \notin DOMAIN stack
  /\ \A i \in DOMAIN stack : /\ stack'[i].node = stack[i].node
                             /\ stack'[i].next >= stack[i].next
                             /\ i # Len(stack) => stack'[i].next = stack[i].next
  /\ stack # << >> => /\ stack'[Len(stack)].next = k + 1
                      /\ stack[Len(stack)].next = k
  /\ stack'[Len(frames) + 1].node = k /\ stack'[Len(frames) + 1].next = 1
  /\ placed'[k] = placed[k] + 1
  /\ \A j \in DOMAIN entries : j # k => placed'[j] = placed[j]

LEMMA CallFacts ==
  ASSUME FramesInv, NEW k, NEW frames, Calls(k, frames)
  PROVE  CallEffect(k, frames)
  <1>1. k \in DOMAIN entries /\ Enter(frames, k)
    BY DEF Calls
  <1>2. /\ stack \in Seq(Frame) /\ entries \in Seq(Node) /\ placed \in [DOMAIN entries -> Nat]
    BY DEF FramesInv, TreeTypeOK
  <1>3. /\ frames \in Seq(Frame) /\ DOMAIN frames = DOMAIN stack
        /\ \A i \in DOMAIN stack : /\ frames[i].node = stack[i].node
                                   /\ frames[i].next >= stack[i].next
                                   /\ i # Len(stack) => frames[i].next = stack[i].next
        /\ stack # << >> => /\ frames[Len(stack)].next = k + 1
                            /\ Len(stack) \in DOMAIN stack /\ stack[Len(stack)].next = k
    <2>1. CASE stack = << >>
      <3>1. frames = << >>
        BY <2>1 DEF Calls
      <3> QED
        BY <2>1, <3>1
    <2>2. CASE stack # << >>
      <3>1. frames = Advance /\ k = Top.next
        BY <2>2 DEF Calls
      <3>2. \A i \in DOMAIN stack : stack[i].next \in Nat
        BY <1>2, FrameType
      <3> QED
        BY <1>2, <2>2, <3>1, <3>2, TopOfStack DEF Top
    <2> QED
      BY <2>1, <2>2
  <1>4. /\ stack' \in Seq(Frame) /\ placed' \in [DOMAIN entries -> Nat]
        /\ DOMAIN stack' = DOMAIN frames \cup {Len(frames) + 1}
        /\ Len(frames) + 1 \notin DOMAIN frames
        /\ \A i \in DOMAIN frames : stack'[i] = frames[i]
        /\ stack'[Len(frames) + 1].node = k /\ stack'[Len(frames) + 1].next = 1
        /\ placed'[k] = placed[k] + 1
        /\ \A j \in DOMAIN entries : j # k => placed'[j] = placed[j]
    BY <1>1, <1>2, <1>3, EnterPushes
  <1> QED
    BY <1>3, <1>4 DEF CallEffect

LEMMA FramesStep ==
  ASSUME FramesInv, [TreeNext]_<<entries, treeVars>>
  PROVE  FramesInv'
  <1>1. ASSUME NEW k, NEW frames, Calls(k, frames)
        PROVE  FramesInv'
    <2>0. CallEffect(k, frames)
      BY <1>1, CallFacts
    <2>1. /\ k \in DOMAIN entries /\ scan' \in {scan, scan + 1} /\ UNCHANGED <<entries, tree>>
          /\ scan' = scan + 1 => scan \in DOMAIN entries
      BY <1>1 DEF Calls, FramesInv, TreeTypeOK
    <2>2. TreeTypeOK'
      <3>1. stack' \in Seq(Frame) /\ placed' \in [DOMAIN entries -> Nat]
        BY <2>0 DEF CallEffect
      <3>2. scan' \in 1..(Len(entries) + 1)
        BY <2>1 DEF FramesInv, TreeTypeOK
      <3> QED
        BY <2>1, <3>1, <3>2 DEF FramesInv, TreeTypeOK
    <2>3. ASSUME NEW i \in DOMAIN stack'
          PROVE  /\ stack'[i].node \in DOMAIN entries /\ stack'[i].next >= 1
                 /\ placed'[stack'[i].node] > 0
      <3>1. CASE i \in DOMAIN stack
        <4>1. /\ stack'[i].node = stack[i].node /\ stack'[i].next >= stack[i].next
              /\ stack[i].node \in DOMAIN entries /\ stack[i].next >= 1
              /\ placed[stack[i].node] > 0
          BY <2>0, <3>1 DEF FramesInv, CallEffect
        <4>2. stack'[i].next \in Nat /\ stack[i].next \in Nat
          BY <2>2, <3>1, FrameType DEF TreeTypeOK, FramesInv
        <4>3. placed'[stack[i].node] >= placed[stack[i].node] /\ placed[stack[i].node] \in Nat
          <5>1. placed[stack[i].node] \in Nat
            BY <4>1 DEF FramesInv, TreeTypeOK
          <5>2. \/ placed'[stack[i].node] = placed[stack[i].node] + 1
                \/ placed'[stack[i].node] = placed[stack[i].node]
            BY <2>0, <4>1 DEF CallEffect
          <5> QED
            BY <5>1, <5>2
        <4>4. placed'[stack[i].node] \in Nat
          BY <2>1, <2>2, <4>1 DEF TreeTypeOK
        <4> QED
          BY <4>1, <4>2, <4>3, <4>4
      <3>2. CASE i \notin DOMAIN stack
        <4>1. stack'[i].node = k /\ stack'[i].next = 1 /\ placed'[k] = placed[k] + 1
          <5>0. DOMAIN stack' = DOMAIN stack \cup {Len(frames) + 1}
            BY <2>0 DEF CallEffect
          <5>1. i = Len(frames) + 1
            BY <3>2, <5>0
          <5> QED
            BY <2>0, <5>1 DEF CallEffect
        <4>2. placed[k] \in Nat
          BY <2>1 DEF FramesInv, TreeTypeOK
        <4> QED
          BY <2>1, <4>1, <4>2
      <3> QED
        BY <3>1, <3>2
    <2> QED
      BY <2>1, <2>2, <2>3 DEF FramesInv
  <1>2. CASE Goes
    <2>1. stack \in Seq(Frame) /\ stack # << >> /\ stack' = Advance
      BY <1>2 DEF Goes, FramesInv, TreeTypeOK
    <2>2. ASSUME NEW i \in DOMAIN stack
          PROVE  stack'[i].node = stack[i].node /\ stack'[i].next >= stack[i].next
      <3>1. stack[i].next \in Nat
        BY <2>1, FrameType
      <3> QED
        BY <2>1, <3>1, TopOfStack DEF Top
    <2>3. stack' \in Seq(Frame) /\ DOMAIN stack' = DOMAIN stack
      BY <2>1, TopOfStack
    <2>4. \A i \in DOMAIN stack : stack[i].next \in Nat /\ stack'[i].next \in Nat
      BY <2>1, <2>3, FrameType
    <2>5. \A i \in DOMAIN stack : stack'[i].next >= 1
      BY <2>2, <2>4 DEF FramesInv
    <2> QED
      BY <1>2, <2>2, <2>3, <2>5 DEF Goes, FramesInv, TreeTypeOK
  <1>3. CASE Returns
    <2>1. stack \in Seq(Frame) /\ stack # << >> /\ stack' = Callers
      BY <1>3 DEF Returns, FramesInv, TreeTypeOK
    <2> QED
      BY <1>3, <2>1, TopOfStack DEF Returns, FramesInv, TreeTypeOK
  <1>4. CASE Passes \/ Ends
    BY <1>4 DEF Passes, Ends, Overflow, FinishTree, treeVars, FramesInv, TreeTypeOK
  <1> QED
    BY <1>1, <1>2, <1>3, <1>4, TreeSteps

(* Nothing is shown that does not hang below a root.                       *)
PlacedAreGrounded == \A k \in DOMAIN entries : placed[k] > 0 => k \in Grounded

ParentsOf(k) == {j \in DOMAIN entries : IsChild(j, k) /\ entries[j].id # entries[k].id}
ClosedTree(S) == \A k \in DOMAIN entries :
                   ParentsOf(k) = {} \/ (\E j \in ParentsOf(k) \cap S : entries[j].directory)
                     => k \in S

LEMMA GroundedMeans ==
  Grounded = {k \in DOMAIN entries : \A S \in SUBSET DOMAIN entries : ClosedTree(S) => k \in S}
  BY DEF Grounded, ClosedTree, ParentsOf

LEMMA RootsHaveNoParents ==
  ASSUME entries \in Seq(Node), NEW k \in DOMAIN entries
  PROVE  IsRoot(k) <=> ParentsOf(k) = {}
  <1>1. entries[k] \in Node /\ \A j \in DOMAIN entries : entries[j] \in Node
    OBVIOUS
  <1>2. \A j \in DOMAIN entries : entries[j].id \in Nat
    BY <1>1, HierarchyAssumption DEF Node
  <1>3. \A j \in DOMAIN entries : entries[j].id # NoParent
    BY <1>2 DEF NoParent
  <1> QED
    BY <1>3 DEF IsRoot, ParentsOf, IsChild

LEMMA GroundedStep ==
  ASSUME FramesInv, PlacedAreGrounded, [TreeNext]_<<entries, treeVars>>
  PROVE  PlacedAreGrounded'
  <1>1. ASSUME NEW k, NEW frames, Calls(k, frames)
        PROVE  PlacedAreGrounded'
    <2>0. CallEffect(k, frames)
      BY <1>1, CallFacts
    <2>1. k \in DOMAIN entries /\ UNCHANGED entries /\ entries \in Seq(Node)
      BY <1>1 DEF Calls, FramesInv, TreeTypeOK
    <2>2. k \in Grounded
      <3>1. CASE stack = << >>
        <4>1. ParentsOf(k) = {}
          BY <1>1, <2>1, <3>1, RootsHaveNoParents DEF Calls
        <4> QED
          BY <2>1, <4>1, GroundedMeans DEF ClosedTree
      <3>2. CASE stack # << >>
        <4> DEFINE p == Top.node
        <4>1. Len(stack) \in DOMAIN stack
          BY <3>2, TopOfStack DEF FramesInv, TreeTypeOK
        <4>2. p \in DOMAIN entries /\ placed[p] > 0
          BY <4>1 DEF FramesInv, Top
        <4>3. p \in Grounded
          BY <4>2 DEF PlacedAreGrounded
        <4>4. Expands(p, k)
          BY <1>1, <3>2 DEF Calls
        <4>5. p \in ParentsOf(k) /\ entries[p].directory
          BY <4>2, <4>4 DEF Expands, ParentsOf
        <4> HIDE DEF p
        <4> QED
          BY <2>1, <4>3, <4>5, GroundedMeans DEF ClosedTree
      <3> QED
        BY <3>1, <3>2
    <2>3. Grounded' = Grounded
      BY <2>1 DEF Grounded, IsChild
    <2>4. \A j \in DOMAIN entries : j # k => placed'[j] = placed[j]
      BY <2>0 DEF CallEffect
    <2> QED
      BY <2>1, <2>2, <2>3, <2>4 DEF PlacedAreGrounded
  <1>2. CASE UNCHANGED <<entries, placed>>
    BY <1>2 DEF PlacedAreGrounded, Grounded, IsChild
  <1> QED
    BY <1>1, <1>2, TreeSteps
       DEF Goes, Returns, Passes, Ends, Overflow, FinishTree, treeVars

(* What hangs below a root is shown or some running call still has it to   *)
(* come.                                                                   *)
NothingPassedOver ==
  /\ \A k \in DOMAIN entries : k < scan /\ IsRoot(k) => placed[k] > 0
  /\ \A p, k \in DOMAIN entries : placed[p] > 0 /\ Expands(p, k) =>
       \/ placed[k] > 0
       \/ \E i \in DOMAIN stack : stack[i].node = p /\ stack[i].next <= k
  /\ tree = "built" => stack = << >> /\ scan \notin DOMAIN entries

LEMMA NothingPassedStep ==
  ASSUME FramesInv, NothingPassedOver, [TreeNext]_<<entries, treeVars>>
  PROVE  NothingPassedOver'
  <1>1. ASSUME NEW k, NEW frames, Calls(k, frames)
        PROVE  NothingPassedOver'
    <2>0. CallEffect(k, frames)
      BY <1>1, CallFacts
    <2>1. /\ k \in DOMAIN entries /\ UNCHANGED <<entries, tree>> /\ tree = "building"
          /\ \A j : IsRoot(j)' <=> IsRoot(j)
          /\ \A p, j : Expands(p, j)' <=> Expands(p, j)
      BY <1>1 DEF Calls, IsRoot, Expands, IsChild
    <2>2. /\ placed'[k] > 0
          /\ \A j \in DOMAIN entries : placed[j] > 0 => placed'[j] > 0
          /\ \A j \in DOMAIN entries : j # k => placed'[j] = placed[j]
      <3>1. \A j \in DOMAIN entries : placed[j] \in Nat
        BY DEF FramesInv, TreeTypeOK
      <3> QED
        BY <2>0, <2>1, <3>1 DEF CallEffect
    <2>3. \A j \in DOMAIN entries : j < scan' /\ IsRoot(j) => placed'[j] > 0
      <3>1. \A j \in DOMAIN entries : j < scan' => j < scan \/ j = k
        BY <1>1 DEF Calls, FramesInv, TreeTypeOK
      <3> QED
        BY <2>2, <3>1 DEF NothingPassedOver
    <2>4. ASSUME NEW p \in DOMAIN entries, NEW j \in DOMAIN entries,
                 placed'[p] > 0, Expands(p, j), ~(placed'[j] > 0)
          PROVE  \E i \in DOMAIN stack' : stack'[i].node = p /\ stack'[i].next <= j
      <3>1. CASE placed[p] > 0
        <4>1. j # k /\ ~(placed[j] > 0)
          BY <2>2, <2>4
        <4>2. PICK i \in DOMAIN stack : stack[i].node = p /\ stack[i].next <= j
          BY <2>4, <3>1, <4>1 DEF NothingPassedOver
        <4>3. /\ i \in DOMAIN stack' /\ stack'[i].node = p
              /\ i # Len(stack) => stack'[i].next = stack[i].next
          BY <2>0, <4>2 DEF CallEffect
        <4>4. i = Len(stack) => stack'[i].next = k + 1 /\ stack[i].next = k
          BY <2>0, <4>2 DEF CallEffect
        <4>5. k \in Nat /\ j \in Nat
          BY <2>1 DEF FramesInv, TreeTypeOK
        <4>6. stack'[i].next <= j
          <5>1. CASE i = Len(stack)
            BY <4>1, <4>2, <4>4, <4>5, <5>1
          <5>2. CASE i # Len(stack)
            BY <4>2, <4>3, <5>2
          <5> QED
            BY <5>1, <5>2
        <4> QED
          BY <4>3, <4>6
      <3>2. CASE ~(placed[p] > 0)
        <4>1. p = k
          BY <2>2, <2>4, <3>2
        <4>2. /\ Len(frames) + 1 \in DOMAIN stack'
              /\ stack'[Len(frames) + 1].node = k /\ stack'[Len(frames) + 1].next = 1
          <5>1. DOMAIN stack' = DOMAIN stack \cup {Len(frames) + 1}
            BY <2>0 DEF CallEffect
          <5> QED
            BY <2>0, <5>1 DEF CallEffect
        <4>3. 1 <= j
          BY DEF FramesInv, TreeTypeOK
        <4> QED
          BY <4>1, <4>2, <4>3
      <3> QED
        BY <3>1, <3>2
    <2> QED
      BY <2>1, <2>3, <2>4 DEF NothingPassedOver
  <1>2. ASSUME Goes \/ Returns
        PROVE  NothingPassedOver'
    <2>1. /\ UNCHANGED <<entries, scan, placed, tree>> /\ tree = "building"
          /\ stack # << >> /\ stack \in Seq(Frame)
      BY <1>2 DEF Goes, Returns, FramesInv, TreeTypeOK
    <2>2. ASSUME NEW p \in DOMAIN entries, NEW j \in DOMAIN entries,
                 placed[p] > 0, Expands(p, j), ~(placed[j] > 0)
          PROVE  \E i \in DOMAIN stack' : stack'[i].node = p /\ stack'[i].next <= j
      <3>1. PICK i \in DOMAIN stack : stack[i].node = p /\ stack[i].next <= j
        BY <2>2 DEF NothingPassedOver
      <3>2. stack[i].next \in Nat /\ j \in Nat /\ stack[i].next >= 1
        BY <2>1, FrameType DEF FramesInv, TreeTypeOK
      <3>3. CASE Goes
        <4>1. i # Len(stack) \/ stack[i].next # j
          BY <2>1, <2>2, <3>1, <3>3 DEF Goes, Top
        <4>2. /\ i \in DOMAIN stack' /\ stack'[i].node = p
              /\ stack'[i].next = IF i = Len(stack) THEN stack[i].next + 1 ELSE stack[i].next
          BY <2>1, <3>1, <3>3, TopOfStack DEF Goes, Top
        <4> QED
          BY <3>1, <3>2, <4>1, <4>2
      <3>4. CASE Returns
        <4>1. i # Len(stack)
          <5>1. Top.next \notin DOMAIN entries
            BY <3>4 DEF Returns
          <5>2. i = Len(stack) => Top.next \in DOMAIN entries
            BY <3>1, <3>2 DEF Top, FramesInv, TreeTypeOK
          <5> QED
            BY <5>1, <5>2
        <4>2. DOMAIN stack' = 1..(Len(stack) - 1) /\ \A l \in DOMAIN stack' : stack'[l] = stack[l]
          BY <2>1, <3>4, TopOfStack DEF Returns
        <4>3. i \in DOMAIN stack'
          BY <2>1, <4>1, <4>2
        <4> QED
          BY <3>1, <4>2, <4>3
      <3> QED
        BY <1>2, <3>3, <3>4
    <2> QED
      BY <2>1, <2>2 DEF NothingPassedOver, IsRoot, Expands, IsChild
  <1>3. ASSUME Passes
        PROVE  NothingPassedOver'
    <2>1. \A j \in DOMAIN entries : j < scan + 1 => j < scan \/ j = scan
      BY DEF FramesInv, TreeTypeOK
    <2> QED
      BY <1>3, <2>1 DEF Passes, NothingPassedOver, IsRoot, Expands, IsChild
  <1>4. CASE Ends
    BY <1>4 DEF Ends, Overflow, FinishTree, treeVars, NothingPassedOver, IsRoot, Expands, IsChild
  <1> QED
    BY <1>1, <1>2, <1>3, <1>4, TreeSteps

(* With unique ids a call is made for an entry at most once: for a root    *)
(* when its turn comes, for any other by the one call for its parent,      *)
(* which then goes on behind it.                                           *)
CalledOnce ==
  /\ \A k \in DOMAIN entries : placed[k] <= 1
  /\ \A i, j \in DOMAIN stack : stack[i].node = stack[j].node => i = j
  /\ \A k \in DOMAIN entries : IsRoot(k) /\ placed[k] > 0 => k < scan
  /\ \A p, k \in DOMAIN entries : Expands(p, k) /\ placed[k] > 0 =>
       /\ placed[p] > 0
       /\ \A i \in DOMAIN stack : stack[i].node = p => stack[i].next > k
  /\ tree # "overflow"

(* Calls for different entries only are never more than there are entries. *)
LEMMA NeverTooDeep ==
  ASSUME FramesInv, CalledOnce
  PROVE  ~TooDeep
  <1> SUFFICES ASSUME TooDeep
               PROVE  FALSE
    OBVIOUS
  <1> DEFINE f == [i \in 1..Len(stack) |-> stack[i].node]
  <1>1. Len(stack) \in Nat /\ Len(entries) \in Nat /\ Len(stack) > Len(entries)
    BY DEF TooDeep, FramesInv, TreeTypeOK
  <1>2. f \in [1..Len(stack) -> 1..Len(entries)]
    BY DEF FramesInv, TreeTypeOK
  <1>3. /\ IsFiniteSet(1..Len(stack)) /\ Cardinality(1..Len(stack)) = Len(stack)
        /\ IsFiniteSet(1..Len(entries)) /\ Cardinality(1..Len(entries)) = Len(entries)
    <2>1. ASSUME NEW n \in Nat
          PROVE  IsFiniteSet(1..n) /\ Cardinality(1..n) = n
      <3>1. 1 \in Int /\ n \in Int /\ (IF 1 > n THEN 0 ELSE n - 1 + 1) = n
        OBVIOUS
      <3> QED
        BY <3>1, FS_Interval
    <2> QED
      BY <1>1, <2>1
  <1>4. PICK i, j \in 1..Len(stack) : i # j /\ f[i] = f[j]
    <2> HIDE DEF f
    <2> QED
      BY <1>1, <1>2, <1>3, FS_PigeonHole
  <1>5. DOMAIN stack = 1..Len(stack)
    BY DEF FramesInv, TreeTypeOK
  <1> QED
    BY <1>4, <1>5 DEF CalledOnce

LEMMA CalledOnceStep ==
  ASSUME FramesInv, UniqueIds, CalledOnce, [TreeNext]_<<entries, treeVars>>
  PROVE  CalledOnce'
  <1>0. \A j \in DOMAIN entries : placed[j] \in Nat /\ j \in Nat
    BY DEF FramesInv, TreeTypeOK
  <1>1. ASSUME NEW k, NEW frames, Calls(k, frames)
        PROVE  CalledOnce'
    <2>0. CallEffect(k, frames)
      BY <1>1, CallFacts
    <2>1. /\ k \in DOMAIN entries /\ UNCHANGED <<entries, tree>> /\ tree = "building"
          /\ entries \in Seq(Node) /\ scan \in Nat
          /\ \A j : IsRoot(j)' <=> IsRoot(j)
          /\ \A p, j : Expands(p, j)' <=> Expands(p, j)
      BY <1>1 DEF Calls, IsRoot, Expands, IsChild, FramesInv, TreeTypeOK
    <2>2. placed[k] = 0
      <3>1. ~(placed[k] > 0)
        <4>1. CASE stack = << >>
          BY <1>1, <2>1, <4>1 DEF Calls, CalledOnce
        <4>2. CASE stack # << >>
          <5>1. /\ Expands(Top.node, k) /\ Len(stack) \in DOMAIN stack
                /\ Top.node = stack[Len(stack)].node /\ Top.node \in DOMAIN entries
            BY <1>1, <4>2, TopOfStack DEF Calls, Top, FramesInv, TreeTypeOK
          <5>2. stack[Len(stack)].next = k
            BY <2>0, <4>2 DEF CallEffect
          <5> QED
            BY <1>0, <2>1, <5>1, <5>2 DEF CalledOnce
        <4> QED
          BY <4>1, <4>2
      <3> QED
        BY <1>0, <2>1, <3>1
    <2>3. \A j \in DOMAIN entries : placed'[j] = IF j = k THEN 1 ELSE placed[j]
      BY <2>0, <2>2 DEF CallEffect
    <2>4. \A i \in DOMAIN stack : stack[i].node # k
      BY <2>2 DEF FramesInv
    <2>5. ASSUME NEW i \in DOMAIN stack', NEW j \in DOMAIN stack', stack'[i].node = stack'[j].node
          PROVE  i = j
      BY <2>0, <2>4, <2>5 DEF CallEffect, CalledOnce
    <2>6. ASSUME NEW j \in DOMAIN entries, IsRoot(j), placed'[j] > 0
          PROVE  j < scan'
      <3>1. CASE j = k
        <4>1. stack = << >>
          BY <1>1, <2>1, <2>6, <3>1, TopOfStack, RootsHaveNoParents
             DEF Calls, ParentsOf, Expands, FramesInv, TreeTypeOK, Top
        <4> QED
          BY <1>1, <2>1, <3>1, <4>1 DEF Calls
      <3>2. CASE j # k
        BY <1>0, <1>1, <2>1, <2>3, <2>6, <3>2 DEF Calls, CalledOnce
      <3> QED
        BY <3>1, <3>2
    <2>7. ASSUME NEW p \in DOMAIN entries, NEW j \in DOMAIN entries, Expands(p, j), placed'[j] > 0
          PROVE  /\ placed'[p] > 0
                 /\ \A i \in DOMAIN stack' : stack'[i].node = p => stack'[i].next > j
      <3>1. CASE j = k
        <4>1. stack # << >> /\ Expands(Top.node, k)
          BY <1>1, <2>1, <2>7, <3>1, RootsHaveNoParents DEF Calls, ParentsOf, Expands
        <4>2. /\ Len(stack) \in DOMAIN stack
              /\ Top.node = stack[Len(stack)].node /\ Top.node \in DOMAIN entries
          BY <4>1, TopOfStack DEF Top, FramesInv, TreeTypeOK
        <4>3. p = Top.node
          BY <2>7, <3>1, <4>1, <4>2 DEF Expands, IsChild, UniqueIds
        <4>4. placed[p] > 0
          BY <4>2, <4>3 DEF FramesInv
        <4>5. p # k
          BY <2>2, <4>4
        <4>6. ASSUME NEW i \in DOMAIN stack', stack'[i].node = p
              PROVE  stack'[i].next > k
          <5>1. i \in DOMAIN stack /\ stack[i].node = p
            BY <2>0, <4>5, <4>6 DEF CallEffect
          <5>2. i = Len(stack)
            BY <4>2, <4>3, <5>1 DEF CalledOnce
          <5> QED
            BY <1>0, <2>0, <2>1, <4>1, <5>2 DEF CallEffect
        <4> QED
          BY <2>3, <3>1, <4>4, <4>5, <4>6
      <3>2. CASE j # k
        <4>1. placed[j] > 0
          BY <2>3, <2>7, <3>2
        <4>2. placed[p] > 0 /\ \A i \in DOMAIN stack : stack[i].node = p => stack[i].next > j
          BY <2>7, <4>1 DEF CalledOnce
        <4>3. p # k
          BY <2>2, <4>2
        <4>4. ASSUME NEW i \in DOMAIN stack', stack'[i].node = p
              PROVE  stack'[i].next > j
          <5>1. i \in DOMAIN stack /\ stack[i].node = p /\ stack'[i].next >= stack[i].next
            BY <2>0, <4>3, <4>4 DEF CallEffect
          <5>2. stack[i].next \in Nat /\ stack'[i].next \in Nat
            BY <2>0, <5>1, FrameType DEF CallEffect, FramesInv, TreeTypeOK
          <5> QED
            BY <1>0, <4>2, <5>1, <5>2
        <4> QED
          BY <2>3, <4>2, <4>3, <4>4
      <3> QED
        BY <3>1, <3>2
    <2>8. \A j \in DOMAIN entries : placed'[j] <= 1
      BY <2>3 DEF CalledOnce
    <2> QED
      BY <2>1, <2>5, <2>6, <2>7, <2>8 DEF CalledOnce
  <1>2. ASSUME Goes \/ Returns
        PROVE  CalledOnce'
    <2>1. /\ UNCHANGED <<entries, scan, placed, tree>>
          /\ stack # << >> /\ stack \in Seq(Frame)
      BY <1>2 DEF Goes, Returns, FramesInv, TreeTypeOK
    <2>2. ASSUME NEW i \in DOMAIN stack'
          PROVE  /\ i \in DOMAIN stack /\ stack'[i].node = stack[i].node
                 /\ stack'[i].next >= stack[i].next
      <3>1. CASE Goes
        <4>1. i \in DOMAIN stack
          BY <2>1, <3>1, TopOfStack DEF Goes
        <4>2. stack[i].next \in Nat
          BY <2>1, <4>1, FrameType
        <4> QED
          BY <2>1, <3>1, <4>1, <4>2, TopOfStack DEF Goes, Top
      <3>2. CASE Returns
        <4>1. i \in DOMAIN stack /\ stack'[i] = stack[i]
          BY <2>1, <3>2, TopOfStack DEF Returns
        <4>2. stack[i].next \in Nat
          BY <2>1, <4>1, FrameType
        <4> QED
          BY <4>1, <4>2
      <3> QED
        BY <1>2, <3>1, <3>2
    <2>3. ASSUME NEW i \in DOMAIN stack', NEW j \in DOMAIN entries, stack[i].next > j
          PROVE  stack'[i].next > j
      <3>1. stack' \in Seq(Frame)
        BY <1>2, <2>1, TopOfStack DEF Goes, Returns
      <3>2. stack[i].next \in Nat /\ stack'[i].next \in Nat
        BY <2>1, <2>2, <3>1, FrameType
      <3> QED
        BY <1>0, <2>2, <2>3, <3>2
    <2> QED
      BY <2>1, <2>2, <2>3 DEF CalledOnce, IsRoot, Expands, IsChild
  <1>3. CASE Passes
    BY <1>0, <1>3 DEF Passes, CalledOnce, IsRoot, Expands, IsChild, FramesInv, TreeTypeOK
  <1>4. CASE Ends
    <2>1. ~Overflow
      BY NeverTooDeep DEF Overflow
    <2> QED
      BY <1>4, <2>1 DEF Ends, FinishTree, treeVars, CalledOnce, IsRoot, Expands, IsChild
  <1> QED
    BY <1>1, <1>2, <1>3, <1>4, TreeSteps

TreeInv == /\ FramesInv /\ PlacedAreGrounded /\ NothingPassedOver
           /\ UniqueIds => CalledOnce

LEMMA TreeInvariant == NavSpec => []TreeInv
  <1>1. NavInit => TreeInv
    <2> SUFFICES ASSUME NavInit
                 PROVE  TreeInv
      OBVIOUS
    <2>1. /\ entries \in Seq(Node) /\ scan = 1 /\ stack = << >> /\ tree = "building"
          /\ placed = [k \in DOMAIN entries |-> 0]
      BY HierarchyAssumption DEF NavInit, TreeInit
    <2>2. FramesInv
      BY <2>1 DEF FramesInv, TreeTypeOK, Frame
    <2>3. PlacedAreGrounded /\ NothingPassedOver /\ CalledOnce
      BY <2>1 DEF PlacedAreGrounded, NothingPassedOver, CalledOnce
    <2> QED
      BY <2>2, <2>3 DEF TreeInv
  <1>2. TreeInv /\ [NavNext]_navVars => TreeInv'
    <2> SUFFICES ASSUME TreeInv, [NavNext]_navVars
                 PROVE  TreeInv'
      OBVIOUS
    <2>1. [TreeNext]_<<entries, treeVars>>
      BY DEF NavNext, navVars, treeVars, ListNext, Traverse, StartListing, Revisit, Expand, TakeChild,
             FinishListing
    <2>2. UniqueIds' => UniqueIds
      BY <2>1, TreeSteps
         DEF Calls, Goes, Returns, Passes, Ends, Overflow, FinishTree, treeVars, UniqueIds
    <2> QED
      BY <2>1, <2>2, FramesStep, GroundedStep, NothingPassedStep, CalledOnceStep DEF TreeInv
  <1> QED
    BY <1>1, <1>2, PTL DEF NavSpec

(* The recursion of build_node ends although it remembers nothing, as long *)
(* as ids are unique: for entries of any number and whatever cycles their  *)
(* parent links form; and it shows no entry twice (build_node).            *)
THEOREM RecursionEnds == NavSpec => []UniqueIdsNeedNoGuard
  <1>1. TreeInv => UniqueIdsNeedNoGuard
    BY DEF TreeInv, CalledOnce, UniqueIdsNeedNoGuard
  <1> QED
    BY <1>1, TreeInvariant, PTL

(* A finished tree leaves out cycles and what hangs on them or on a file,  *)
(* and nothing else, also if ids repeat (from_entries, build_node).        *)
THEOREM TreeIsComplete == NavSpec => []TreeShowsGrounded
  <1>1. ASSUME TreeInv, tree = "built", NEW k \in DOMAIN entries
        PROVE  placed[k] > 0 <=> k \in Grounded
    <2> DEFINE S == {j \in DOMAIN entries : placed[j] > 0}
    <2>1. /\ entries \in Seq(Node) /\ stack = << >> /\ scan \notin DOMAIN entries
          /\ scan \in 1..(Len(entries) + 1)
      BY <1>1 DEF TreeInv, NothingPassedOver, FramesInv, TreeTypeOK
    <2>2. \A j \in DOMAIN entries : j < scan
      BY <2>1
    <2>3. ClosedTree(S)
      <3>1. ASSUME NEW j \in DOMAIN entries, ParentsOf(j) = {}
            PROVE  j \in S
        BY <1>1, <2>1, <2>2, <3>1, RootsHaveNoParents DEF TreeInv, NothingPassedOver
      <3>2. ASSUME NEW j \in DOMAIN entries, NEW p \in ParentsOf(j) \cap S, entries[p].directory
            PROVE  j \in S
        <4>1. Expands(p, j) /\ p \in DOMAIN entries /\ placed[p] > 0
          BY <3>2 DEF Expands, ParentsOf
        <4> QED
          BY <1>1, <2>1, <4>1 DEF TreeInv, NothingPassedOver
      <3> HIDE DEF S
      <3> QED
        BY <3>1, <3>2 DEF ClosedTree
    <2>4. k \in Grounded => k \in S
      BY <2>3, GroundedMeans
    <2> QED
      BY <1>1, <2>4 DEF TreeInv, PlacedAreGrounded
  <1>2. TreeInv => TreeShowsGrounded
    BY <1>1 DEF TreeShowsGrounded
  <1> QED
    BY <1>2, TreeInvariant, PTL

(* The two algorithms agree: below a directory that the tree shows nothing *)
(* is offered for recovery that the tree does not show, whatever cycles    *)
(* and repeated ids there are (build_node, collect_recoverable_entries).   *)
THEOREM OffersAreShown == NavSpec => []OfferedIsInTree
  <1>1. ASSUME TreeInv, ListTypeOK, ListedAreBelowRoot, tree = "built",
               NEW r \in DOMAIN entries,
               entries[r].id = root, entries[r].directory, placed[r] > 0,
               NEW i \in DOMAIN collected
        PROVE  placed[collected[i]] > 0
    <2> DEFINE ShownEntry(p) == entries[p].directory /\ placed[p] > 0
               S == {id \in Ids : \E p \in DOMAIN entries : ShownEntry(p) /\ entries[p].id = id}
    <2>1. /\ entries \in Seq(Node) /\ stack = << >> /\ scan \notin DOMAIN entries
          /\ scan \in 1..(Len(entries) + 1)
      BY <1>1 DEF TreeInv, NothingPassedOver, FramesInv, TreeTypeOK
    <2>2. \A j \in DOMAIN entries : j < scan /\ entries[j].id \in Ids
      BY <1>1, <2>1, NodeType
    <2>3. ASSUME NEW p \in DOMAIN entries, NEW k \in DOMAIN entries, ShownEntry(p), IsChild(p, k)
          PROVE  placed[k] > 0
      <3>1. CASE entries[k].id = entries[p].id
        <4>1. IsRoot(k)
          BY <2>3, <3>1 DEF IsRoot, IsChild
        <4> QED
          BY <1>1, <2>2, <4>1 DEF TreeInv, NothingPassedOver
      <3>2. CASE entries[k].id # entries[p].id
        <4>1. Expands(p, k)
          BY <2>3, <3>2 DEF Expands
        <4> QED
          BY <1>1, <2>1, <2>3, <4>1 DEF TreeInv, NothingPassedOver
      <3> QED
        BY <3>1, <3>2
    <2>4. root \in S
      BY <1>1, <2>2
    <2>5. ASSUME NEW k \in DOMAIN entries, entries[k].parent \in S
          PROVE  placed[k] > 0
      <3>1. PICK p \in DOMAIN entries : ShownEntry(p) /\ entries[p].id = entries[k].parent
        BY <2>5
      <3> HIDE DEF S, ShownEntry
      <3> QED
        BY <2>3, <3>1 DEF IsChild
    <2>6. \A k \in DOMAIN entries :
            entries[k].directory /\ entries[k].parent \in S => entries[k].id \in S
      BY <2>2, <2>5
    <2>7. S \in SUBSET Ids /\ ClosedIds(S)
      BY <2>4, <2>6 DEF ClosedIds
    <2> HIDE DEF S, ShownEntry
    <2>8. collected[i] \in DOMAIN entries
      BY <1>1 DEF ListTypeOK
    <2>9. entries[collected[i]].parent \in S
      BY <1>1, <2>7 DEF ListedAreBelowRoot, Below
    <2> QED
      BY <2>5, <2>8, <2>9
  <1>2. TreeInv /\ ListTypeOK /\ ListedAreBelowRoot => OfferedIsInTree
    BY <1>1 DEF OfferedIsInTree
  <1> QED
    BY <1>2, TreeInvariant, NavigationImplementsListing, ListingIsTyped, ListingIsSound, PTL
=============================================================================
