--------------------------- MODULE RecoveryProofs ---------------------------
(***************************************************************************)
(* Proofs about recovery, for every value of the constants: the batch that *)
(* recovers a list of objects into one directory (RecoveryBatch), the      *)
(* engine that reads the content of one object (RecoveryEngine), and the   *)
(* working directories and tickets of the sessions (RecoveryWork).         *)
(***************************************************************************)
EXTENDS RecoveryBatch, RecoveryEngine, RecoveryWork, ListProofs

-----------------------------------------------------------------------------
(* Part 1: the batch.                                                      *)

(* An object is selected with the id of an entry that the filter matches.  *)
LEMMA SelectedFacts ==
  ASSUME NEW model \in Seq(FileEntry), NEW filter
  PROVE  /\ Selected(model, filter) \in Seq(ObjectIds)
         /\ \A k \in DOMAIN model :
              Matches(filter, model[k]) => model[k].id \in ToSet(Selected(model, filter))
  <1> DEFINE Chosen(k) == IF Matches(filter, model[k]) THEN <<model[k].id>> ELSE << >>
             s == [k \in DOMAIN model |-> Chosen(k)]
  <1>1. DOMAIN model = 1..Len(model) /\ Len(model) \in Nat
          /\ \A k \in DOMAIN model : model[k] \in FileEntry
    BY LenProperties
  <1>2. \A k \in DOMAIN model : Chosen(k) \in Seq(ObjectIds)
    BY <1>1 DEF FileEntry
  <1>3. s \in Seq(Seq(ObjectIds)) /\ DOMAIN s = DOMAIN model
    <2> HIDE DEF Chosen
    <2> QED
      BY <1>1, <1>2
  <1>4. /\ FlattenSeq(s) \in Seq(ObjectIds)
        /\ ToSet(FlattenSeq(s)) = UNION {ToSet(s[k]) : k \in DOMAIN s}
    <2> HIDE DEF s
    <2> QED
      BY <1>3, FlattenFacts
  <1>5. Selected(model, filter) = FlattenSeq(s)
    BY DEF Selected
  <1>6. ASSUME NEW k \in DOMAIN model, Matches(filter, model[k])
        PROVE  model[k].id \in ToSet(s[k])
    <2>1. s[k] = <<model[k].id>>
      BY <1>6
    <2> HIDE DEF s
    <2> QED
      BY <2>1 DEF ToSet
  <1> HIDE DEF s
  <1> QED
    BY <1>3, <1>4, <1>5, <1>6

(* A list of ids for a filter names every object the filter selects.       *)
LEMMA CollectFacts ==
  ASSUME NEW models \in Seq(Seq(FileEntry)), NEW filter
  PROVE  /\ CollectObjectIds(models, filter) \in Seq(ObjectIds)
         /\ \A m \in DOMAIN models : \A k \in DOMAIN models[m] :
              Matches(filter, models[m][k])
                => models[m][k].id \in ToSet(CollectObjectIds(models, filter))
  <1> DEFINE s == [m \in DOMAIN models |-> Selected(models[m], filter)]
  <1>1. DOMAIN models = 1..Len(models) /\ Len(models) \in Nat
        /\ \A m \in DOMAIN models : models[m] \in Seq(FileEntry)
    BY LenProperties
  <1>2. \A m \in DOMAIN models : Selected(models[m], filter) \in Seq(ObjectIds)
    BY <1>1, SelectedFacts
  <1>3. s \in Seq(Seq(ObjectIds)) /\ DOMAIN s = DOMAIN models
    BY <1>1, <1>2
  <1>4. /\ FlattenSeq(s) \in Seq(ObjectIds)
        /\ ToSet(FlattenSeq(s)) = UNION {ToSet(s[m]) : m \in DOMAIN s}
    <2> HIDE DEF s
    <2> QED
      BY <1>3, FlattenFacts
  <1>5. CollectObjectIds(models, filter) = FlattenSeq(s)
    BY DEF CollectObjectIds
  <1>6. ASSUME NEW m \in DOMAIN models,
               NEW k \in DOMAIN models[m], Matches(filter, models[m][k])
        PROVE  models[m][k].id \in ToSet(s[m])
    BY <1>1, <1>6, SelectedFacts
  <1> HIDE DEF s
  <1> QED
    BY <1>3, <1>4, <1>5, <1>6

-----------------------------------------------------------------------------
LEMMA SuffixedNames ==
  ASSUME NEW name \in Names, NEW id \in ObjectIds
  PROVE  /\ name \in Paths /\ Suffixed(name, id) \in Paths
         /\ Suffixed(name, id).base = name.base
         /\ Suffixed(name, id).ids = Append(name.ids, id)
  <1>1. PICK k \in 0..1 : name.ids \in [1..k -> ObjectIds]
    BY DEF Names, Tagged
  <1>2. name.ids \in Seq(ObjectIds) /\ Len(name.ids) = k
    BY <1>1
  <1>3. Append(name.ids, id) \in [1..(k + 1) -> ObjectIds]
    <2> DEFINE t == Append(name.ids, id)
    <2>1. t \in Seq(ObjectIds) /\ Len(t) = k + 1
      BY <1>2
    <2> HIDE DEF t
    <2>2. t \in [1..Len(t) -> ObjectIds]
      BY <2>1, LenProperties
    <2>3. t \in [1..(k + 1) -> ObjectIds]
      BY <2>1, <2>2
    <2> QED
      BY <2>3 DEF t
  <1>4. Append(name.ids, id) \in Tagged(2) /\ name.ids \in Tagged(2)
    <2>1. k \in 0..2 /\ k + 1 \in 0..2
      OBVIOUS
    <2> QED
      BY <1>1, <1>3, <2>1 DEF Tagged
  <1>5. /\ Suffixed(name, id).base = name.base
        /\ Suffixed(name, id).ids = Append(name.ids, id)
        /\ Suffixed(name, id) = [base |-> name.base, ids |-> Append(name.ids, id)]
    BY DEF Suffixed, Names
  <1> QED
    BY <1>4, <1>5 DEF Paths, Names

(* The name of one object tells which id, if any, was appended to it.      *)
LEMMA PlainNamesApart ==
  ASSUME NEW name \in PlainNames, NEW other \in PlainNames,
         NEW id \in ObjectIds, NEW id2 \in ObjectIds
  PROVE  /\ Suffixed(name, id) # other
         /\ Suffixed(name, id) = Suffixed(other, id2) => id = id2
  <1>1. name.ids = << >> /\ other.ids = << >>
    BY DEF PlainNames
  <1>2. Suffixed(name, id).ids = <<id>> /\ Suffixed(other, id2).ids = <<id2>>
    BY <1>1 DEF Suffixed, PlainNames
  <1>3. <<id>> # << >> /\ (<<id>> = <<id2>> => id = id2)
    OBVIOUS
  <1> QED
    BY <1>1, <1>2, <1>3

-----------------------------------------------------------------------------
Results == [kind : {"recovered", "failed", "error"}, object : Objects \cup {NoObject},
            path : Paths \cup {NoPath}]
Content == [object : Objects \cup {NoObject}, offset : Nat]

BatchType ==
  /\ inspection \in Inspections /\ mode \in {"batch", "each"}
  /\ requested \in Seq(Nat) /\ position \in 1..(Len(requested) + 1)
  /\ output \in [Paths -> Content]
  /\ \A p \in Paths : output[p] \in {NoFile, Earlier, Partial} \/ output[p].object \in Objects
  /\ results \in Seq(Results) /\ Len(results) < position
  /\ status \in {"running", "done", "aborted"}

(* What was asked for so far. *)
Past == {requested[i] : i \in 1..(position - 1)}

(* A reported file has a name of its object, and no later object of the    *)
(* request has that name.                                                  *)
IsIntact(answer) ==
  LET e == EntryOf(answer.object) IN
  /\ answer.object \in Objects /\ e.id \in Past
  /\ answer.path \in {e.name, Suffixed(e.name, e.id)}
  /\ output[answer.path] = TrueBytes(answer.object)

FilesInv ==
  Unambiguous =>
    \A i \in DOMAIN results : results[i].kind = "recovered" => IsIntact(results[i])

(* Nothing that was asked for and can be found is left out of the results. *)
AnswersInv ==
  /\ \A i \in 1..(position - 1) : Found(requested[i]) =>
       \E j \in DOMAIN results : results[j].object = FindObject(requested[i])
  /\ status = "done" => position > Len(requested)

BatchInv == BatchType /\ FilesInv /\ AnswersInv

-----------------------------------------------------------------------------
LEMMA InspectionFacts ==
  ASSUME inspection \in Inspections
  PROVE  /\ inspection.partitions \in Seq(U64)
         /\ Models \in Seq(Seq(FileEntry))
         /\ DOMAIN Models = 1..Len(Models) /\ Len(Models) \in Nat
         /\ \A m \in DOMAIN Models : /\ Models[m] \in Seq(FileEntry)
                                     /\ DOMAIN Models[m] = 1..Len(Models[m])
                                     /\ Len(Models[m]) \in Nat
                                     /\ \A k \in DOMAIN Models[m] : Models[m][k] \in FileEntry
         /\ BelongTogether(inspection.partitions, Models)
  <1>1. inspection \in Inspection
    BY BatchAssumption
  <1>2. /\ inspection.partitions \in Seq(U64) /\ Models \in Seq(Seq(FileEntry))
        /\ BelongTogether(inspection.partitions, Models)
    BY <1>1 DEF Inspection, Models
  <1>3. DOMAIN Models = 1..Len(Models) /\ Len(Models) \in Nat
        /\ \A m \in DOMAIN Models : Models[m] \in Seq(FileEntry)
    BY <1>2, LenProperties
  <1>4. \A m \in DOMAIN Models : /\ DOMAIN Models[m] = 1..Len(Models[m])
                                 /\ Len(Models[m]) \in Nat
                                 /\ \A k \in DOMAIN Models[m] : Models[m][k] \in FileEntry
    BY <1>3, LenProperties
  <1> QED
    BY <1>2, <1>3, <1>4

LEMMA ObjectFacts ==
  ASSUME inspection \in Inspections, NEW object \in Objects
  PROVE  /\ EntryOf(object) \in FileEntry
         /\ object[1] \in DOMAIN Models /\ object[2] \in DOMAIN Models[object[1]]
         /\ object[1] \in Nat \ {0} /\ object[2] \in Nat \ {0}
         /\ object = <<object[1], object[2]>> /\ object # NoObject
  <1>1. PICK m \in DOMAIN Models : \E k \in DOMAIN Models[m] : object = <<m, k>>
    BY DEF Objects
  <1>2. PICK k \in DOMAIN Models[m] : object = <<m, k>>
    BY <1>1
  <1>3. object[1] = m /\ object[2] = k
    BY <1>2
  <1>4. m \in Nat \ {0} /\ k \in Nat \ {0} /\ Models[m][k] \in FileEntry
    BY InspectionFacts
  <1> QED
    BY <1>2, <1>3, <1>4 DEF EntryOf, NoObject

(* The first entry with an id exists where one is found. *)
LEMMA FindObjectFacts ==
  ASSUME inspection \in Inspections, NEW id, Found(id)
  PROVE  FindObject(id) \in Objects /\ IsFirst(FindObject(id), id)
  <1> DEFINE P == {m \in DOMAIN Models : Holds(m, id)}
  <1>1. P \subseteq Nat /\ P # {}
    BY InspectionFacts DEF Found
  <1>2. PICK m \in P : \A k \in P : m <= k
    BY <1>1, LeastExists
  <1>3. m \in DOMAIN Models /\ Holds(m, id) /\ m \in Nat
    BY <1>1
  <1> DEFINE Q == {k \in DOMAIN Models[m] : Models[m][k].id = id}
  <1>4. Q \subseteq Nat /\ Q # {}
    BY <1>3, InspectionFacts DEF Holds
  <1>5. PICK k \in Q : \A l \in Q : k <= l
    BY <1>4, LeastExists
  <1>6. k \in DOMAIN Models[m] /\ Models[m][k].id = id /\ k \in Nat
    BY <1>4
  <1>7. <<m, k>> \in Objects
    BY <1>3, <1>6 DEF Objects
  <1>8. IsFirst(<<m, k>>, id)
    <2>1. ASSUME NEW l \in 1..(k - 1) PROVE Models[m][l].id # id
      <3>1. l \in DOMAIN Models[m] /\ l < k
        BY <1>3, <1>6, InspectionFacts
      <3> QED
        BY <1>5, <1>6, <3>1
    <2>2. ASSUME NEW n \in 1..(m - 1) PROVE ~Holds(n, id)
      <3>1. n \in DOMAIN Models /\ n < m
        BY <1>3, InspectionFacts
      <3> QED
        BY <1>2, <1>3, <3>1
    <2>3. <<m, k>>[1] = m /\ <<m, k>>[2] = k
      OBVIOUS
    <2> QED
      BY <1>6, <2>1, <2>2, <2>3 DEF IsFirst, EntryOf
  <1> QED
    BY <1>7, <1>8 DEF FindObject

(* The engine of an object reads at the object's own partition. *)
LEMMA EngineReadsItsPartition ==
  ASSUME inspection \in Inspections, NEW object \in Objects
  PROVE  /\ Bytes(object, EngineOffset(object[1])) = TrueBytes(object)
         /\ EngineOffset(object[1]) \in Nat
         /\ Bytes(object, EngineOffset(object[1])) # NoFile
  <1>1. object[1] \in DOMAIN Models /\ Models[object[1]] # << >>
    <2>1. object[1] \in DOMAIN Models /\ object[2] \in DOMAIN Models[object[1]]
      BY ObjectFacts
    <2> QED
      BY <2>1
  <1>2. CASE inspection.partitions = << >>
    <2>1. EngineOffset(object[1]) = 0
      BY <1>2 DEF EngineOffset
    <2> QED
      BY <1>2, <2>1, ObjectFacts DEF TrueBytes, Bytes, NoFile
  <1>3. CASE inspection.partitions # << >>
    <2>1. /\ Len(Models) = Len(inspection.partitions)
          /\ inspection.partitions[object[1]] * Sector <= U64Max
      BY <1>1, <1>3, InspectionFacts DEF BelongTogether
    <2>2. object[1] \in DOMAIN inspection.partitions
      BY <1>1, <2>1, InspectionFacts
    <2>3. inspection.partitions[object[1]] \in Nat
      BY <2>2, InspectionFacts, ElementOfSeq, U64Assumption DEF U64
    <2>4. EngineOffset(object[1]) = inspection.partitions[object[1]] * Sector
      BY <2>1, <2>2 DEF EngineOffset
    <2>5. EngineOffset(object[1]) \in Nat
      BY <2>3, <2>4 DEF Sector
    <2> QED
      BY <1>3, <2>4, <2>5, ObjectFacts DEF TrueBytes, Bytes, NoFile
  <1> QED
    BY <1>2, <1>3

-----------------------------------------------------------------------------
LEMMA BatchInit == Init => BatchInv
  <1> SUFFICES ASSUME Init PROVE BatchInv
    OBVIOUS
  <1>1. inspection \in Inspections /\ position = 1 /\ results = << >> /\ status = "running"
        /\ mode \in {"batch", "each"}
    BY DEF Init
  <1>2. requested \in Seq(Nat)
    <2>1. \A f : CollectObjectIds(inspection.models, f) \in Seq(Nat)
      <3>1. inspection.models \in Seq(Seq(FileEntry)) /\ ObjectIds \subseteq Nat
        BY <1>1, InspectionFacts, BatchAssumption DEF Models
      <3>2. \A f : CollectObjectIds(inspection.models, f) \in Seq(ObjectIds)
        BY <3>1, CollectFacts
      <3> TAKE f
      <3> DEFINE ids == CollectObjectIds(inspection.models, f)
      <3>3. ids \in Seq(ObjectIds)
        BY <3>2
      <3> HIDE DEF ids
      <3>5. ids \in Seq(Nat)
        BY <3>1, <3>3, ListOfMore
      <3> QED
        BY <3>5 DEF ids
    <2>2. requested \in Requests \/ \E f : requested = CollectObjectIds(inspection.models, f)
      BY DEF Init
    <2> QED
      BY <2>1, <2>2, BatchAssumption
  <1>3. PICK earlier \in EarlierFiles :
          output = [p \in Paths |-> IF p \in earlier THEN Earlier ELSE NoFile]
    BY DEF Init
  <1>4. NoFile \in Content /\ Earlier \in Content
    BY DEF NoFile, Earlier, Content, Bytes
  <1>5. BatchType
    BY <1>1, <1>2, <1>3, <1>4 DEF BatchType
  <1> QED
    BY <1>1, <1>5 DEF BatchInv, FilesInv, AnswersInv

(* The object of the current id is one of the image.                       *)
LEMMA CurrentObject ==
  ASSUME BatchType, Current, Found(Id)
  PROVE  /\ Object \in Objects /\ IsFirst(Object, Id) /\ EntryOf(Object).id = Id
         /\ EntryOf(Object) \in FileEntry /\ EntryOf(Object).name \in Names
         /\ EntryOf(Object).id \in ObjectIds
         /\ TargetPath(EntryOf(Object)) \in Paths
         /\ TargetPath(EntryOf(Object)) \in
              {EntryOf(Object).name, Suffixed(EntryOf(Object).name, EntryOf(Object).id)}
  <1>1. inspection \in Inspections
    BY DEF BatchType
  <1>2. Object \in Objects /\ IsFirst(Object, Id)
    BY <1>1, FindObjectFacts DEF Object
  <1>3. EntryOf(Object) \in FileEntry /\ EntryOf(Object).id = Id
    BY <1>1, <1>2, ObjectFacts DEF IsFirst
  <1>4. EntryOf(Object).name \in Names /\ EntryOf(Object).id \in ObjectIds
    BY <1>3 DEF FileEntry
  <1> QED
    BY <1>2, <1>3, <1>4, SuffixedNames DEF TargetPath

(* A step that asks for the next id. *)
LEMMA PastGrows ==
  ASSUME BatchType, Current, Advance, UNCHANGED requested
  PROVE  /\ position \in Nat /\ position <= Len(requested) /\ position \in DOMAIN requested
         /\ position' \in 1..(Len(requested) + 1) /\ position' = position + 1
         /\ 1..(position' - 1) = 1..(position - 1) \cup {position}
         /\ Past \subseteq Past' /\ Id \in Past'
  <1>1. position \in 1..(Len(requested) + 1) /\ position <= Len(requested)
          /\ position' = position + 1
    BY DEF BatchType, Current, Advance
  <1>2. Len(requested) \in Nat /\ DOMAIN requested = 1..Len(requested)
    BY LenProperties DEF BatchType
  <1>3. 1..(position' - 1) = 1..(position - 1) \cup {position}
    BY <1>1, <1>2
  <1> QED
    BY <1>1, <1>2, <1>3 DEF Past, Id

LEMMA SameImageSameObjects ==
  ASSUME UNCHANGED inspection
  PROVE  \A id : (Found(id)' <=> Found(id)) /\ FindObject(id)' = FindObject(id)
  BY DEF Found, Holds, FindObject, IsFirst, EntryOf, Objects, Models

LEMMA AnswerKeepsType ==
  ASSUME BatchType, Current, Advance, Fixed, status' = "running",
         NEW r \in Results, results' = Append(results, r),
         output' \in [Paths -> Content],
         \A p \in Paths : output'[p] = output[p] \/ output'[p] = Partial
           \/ output'[p].object \in Objects
  PROVE  BatchType'
  <1>1. UNCHANGED <<inspection, mode, requested>> /\ Objects' = Objects
    BY DEF Fixed, Objects, Models
  <1>2. position' \in 1..(Len(requested) + 1) /\ position' = position + 1 /\ position \in Nat
    BY <1>1, PastGrows
  <1>3. /\ results \in Seq(Results) /\ results' \in Seq(Results)
        /\ Len(results') = Len(results) + 1 /\ Len(results) \in Nat /\ Len(results) < position
    BY DEF BatchType
  <1>4. Results' = Results
    BY <1>1 DEF Results
  <1>5. \A p \in Paths : output'[p] \in {NoFile, Earlier, Partial}
          \/ output'[p].object \in Objects
    BY DEF BatchType
  <1> QED
    BY <1>1, <1>2, <1>3, <1>4, <1>5 DEF BatchType, Content

(* What was answered stays answered, and the current id joins it.          *)
LEMMA AnswerKeepsAnswers ==
  ASSUME BatchType, AnswersInv, Current, Advance, Fixed, status' = "running",
         NEW r \in Results, results' = Append(results, r), Found(Id) => r.object = Object
  PROVE  AnswersInv'
  <1>1. /\ UNCHANGED <<inspection, requested>>
        /\ \A id : (Found(id)' <=> Found(id)) /\ FindObject(id)' = FindObject(id)
    BY SameImageSameObjects DEF Fixed
  <1>2. 1..(position' - 1) = 1..(position - 1) \cup {position}
    BY <1>1, PastGrows
  <1>3. /\ results \in Seq(Results) /\ Len(results) \in Nat
        /\ Len(results') = Len(results) + 1 /\ results'[Len(results) + 1] = r
        /\ \A j \in 1..Len(results) : results'[j] = results[j]
        /\ DOMAIN results' = 1..(Len(results) + 1) /\ DOMAIN results = 1..Len(results)
    BY DEF BatchType
  <1>4. ASSUME NEW i \in 1..(position' - 1), Found(requested[i])
        PROVE  \E j \in DOMAIN results' : results'[j].object = FindObject(requested[i])
    <2>1. CASE i \in 1..(position - 1)
      <3>1. PICK j \in DOMAIN results : results[j].object = FindObject(requested[i])
        BY <1>4, <2>1 DEF AnswersInv
      <3> QED
        BY <1>3, <3>1
    <2>2. CASE i = position
      <3>1. r.object = FindObject(requested[i])
        BY <1>4, <2>2 DEF Id, Object
      <3>2. Len(results) + 1 \in DOMAIN results'
        BY <1>3
      <3> QED
        BY <1>3, <3>1, <3>2
    <2> QED
      BY <1>2, <2>1, <2>2
  <1> QED
    BY <1>1, <1>4 DEF AnswersInv

(* No later object has a name a reported file was written to.              *)
LEMMA NamesStayApart ==
  ASSUME BatchType, Unambiguous, Current, Found(Id), NEW answer, IsIntact(answer)
  PROVE  TargetPath(EntryOf(Object)) # answer.path
  <1> DEFINE e == EntryOf(answer.object)
             f == EntryOf(Object)
  <1>1. inspection \in Inspections
    BY DEF BatchType
  <1>2. /\ f.id = Id /\ f.id \in ObjectIds /\ f.name \in PlainNames /\ Object \in Objects
    BY <1>1, CurrentObject, ObjectFacts DEF Unambiguous, EntryOf
  <1>3. /\ e.id \in Past /\ e.id \in ObjectIds /\ e.name \in PlainNames
        /\ answer.object \in Objects /\ answer.path \in {e.name, Suffixed(e.name, e.id)}
    <2>1. answer.object \in Objects /\ e.id \in Past
            /\ answer.path \in {e.name, Suffixed(e.name, e.id)}
      BY DEF IsIntact
    <2>2. EntryOf(answer.object) \in FileEntry /\ e.name \in PlainNames
      BY <1>1, <2>1, ObjectFacts DEF Unambiguous, EntryOf
    <2> QED
      BY <2>1, <2>2 DEF FileEntry
  <1>4. e.id # f.id
    <2>1. PICK i \in 1..(position - 1) : e.id = requested[i]
      BY <1>3 DEF Past
    <2>2. i \in DOMAIN requested /\ position \in DOMAIN requested /\ i # position
      BY LenProperties DEF BatchType, Current
    <2> QED
      BY <1>2, <2>1, <2>2 DEF Unambiguous, Id
  <1>5. output[answer.path] # NoFile
    BY <1>1, <1>3, EngineReadsItsPartition DEF IsIntact
  <1> HIDE DEF e, f
  <1>6. CASE TargetPath(f) = Suffixed(f.name, f.id)
    <2>1. Suffixed(f.name, f.id) # e.name /\ Suffixed(f.name, f.id) # Suffixed(e.name, e.id)
      BY <1>2, <1>3, <1>4, PlainNamesApart
    <2> QED
      BY <1>3, <1>6, <2>1 DEF f
  <1>7. CASE TargetPath(f) = f.name /\ output[f.name] = NoFile
    BY <1>5, <1>7 DEF f
  <1> QED
    BY <1>6, <1>7 DEF TargetPath, f

(* Writing at the current object's name disturbs no reported file.         *)
Disturbs(path) == output' \in [Paths -> Content]
  /\ \A p \in Paths \ {path} : output'[p] = output[p]

LEMMA IntervalGrows ==
  ASSUME NEW p \in Nat, NEW q \in Nat, p <= q
  PROVE  1..(p - 1) \subseteq 1..(q - 1)
  OBVIOUS

LEMMA ReportedStays ==
  ASSUME BatchType, Unambiguous, Current, Fixed, position' \in {position, position + 1},
         output' = output \/ (Found(Id) /\ Disturbs(TargetPath(EntryOf(Object)))),
         NEW answer, IsIntact(answer)
  PROVE  IsIntact(answer)'
  <1> DEFINE e == EntryOf(answer.object)
  <1>1. UNCHANGED <<inspection, requested>> /\ Objects' = Objects
        /\ inspection \in Inspections
        /\ \A o : EntryOf(o)' = EntryOf(o) /\ TrueBytes(o)' = TrueBytes(o)
    BY DEF Fixed, Objects, EntryOf, Models, TrueBytes, BatchType
  <1>2. Past \subseteq Past'
    <2>1. position \in Nat /\ requested' = requested
      BY DEF BatchType, Fixed
    <2>2. 1..(position - 1) \subseteq 1..(position' - 1)
      <3>1. position' \in Nat /\ position <= position'
        BY <2>1
      <3> QED
        BY <2>1, <3>1, IntervalGrows
    <2> QED
      BY <2>1, <2>2 DEF Past
  <1>3. answer.object \in Objects /\ answer.path \in {e.name, Suffixed(e.name, e.id)}
    BY DEF IsIntact
  <1>4. answer.path \in Paths
    <2>1. e \in FileEntry
      BY <1>1, <1>3, ObjectFacts
    <2> HIDE DEF e
    <2> QED
      BY <1>3, <2>1, SuffixedNames DEF FileEntry
  <1>5. output'[answer.path] = output[answer.path]
    BY <1>4, NamesStayApart DEF Disturbs
  <1> QED
    BY <1>1, <1>2, <1>3, <1>5 DEF IsIntact

LEMMA AnswerKeepsFiles ==
  ASSUME BatchType, FilesInv, Current, Advance, Fixed,
         output' = output \/ (Found(Id) /\ Disturbs(TargetPath(EntryOf(Object)))),
         NEW r \in Results, results' = Append(results, r),
         Unambiguous /\ r.kind = "recovered" => IsIntact(r)'
  PROVE  FilesInv'
  <1> SUFFICES ASSUME Unambiguous', NEW i \in DOMAIN results', results'[i].kind = "recovered"
               PROVE  IsIntact(results[i])'
    BY DEF FilesInv
  <1>1. Unambiguous
    BY DEF Unambiguous, Fixed, Models
  <1>2. /\ results \in Seq(Results) /\ Len(results) \in Nat
        /\ results'[Len(results) + 1] = r
        /\ \A j \in 1..Len(results) : results'[j] = results[j]
        /\ DOMAIN results' = 1..(Len(results) + 1) /\ DOMAIN results = 1..Len(results)
    BY DEF BatchType
  <1>3. CASE i \in DOMAIN results
    <2>1. results'[i] = results[i] /\ IsIntact(results[i])
      BY <1>1, <1>2, <1>3 DEF FilesInv
    <2>2. PICK answer : answer = results[i]
      OBVIOUS
    <2>3. IsIntact(answer)'
      BY <1>1, <2>1, <2>2, ReportedStays DEF Advance
    <2> QED
      BY <2>1, <2>2, <2>3
  <1>4. CASE i = Len(results) + 1
    BY <1>1, <1>2, <1>4
  <1> QED
    BY <1>2, <1>3, <1>4

(* A step that answers the current id, and perhaps writes a file for it.   *)
LEMMA AnswerStep ==
  ASSUME BatchInv, Current, Advance, Fixed, UNCHANGED status,
         output' = output \/ (Found(Id) /\ Disturbs(TargetPath(EntryOf(Object)))),
         \A p \in Paths : output'[p] = output[p] \/ output'[p] = Partial
           \/ output'[p].object \in Objects,
         NEW r \in Results, results' = Append(results, r), Found(Id) => r.object = Object,
         Unambiguous /\ r.kind = "recovered" => IsIntact(r)'
  PROVE  BatchInv'
  <1>1. BatchType /\ FilesInv /\ AnswersInv /\ status' = "running"
    BY DEF BatchInv, Current
  <1>2. output' \in [Paths -> Content]
    BY <1>1 DEF BatchType, Disturbs
  <1>3. BatchType'
    BY <1>1, <1>2, AnswerKeepsType
  <1>4. FilesInv'
    BY <1>1, AnswerKeepsFiles
  <1>5. AnswersInv'
    BY <1>1, AnswerKeepsAnswers
  <1> QED
    BY <1>3, <1>4, <1>5 DEF BatchInv

LEMMA PartialDisturbs ==
  ASSUME BatchType, NEW path \in Paths,
         output' \in {output, [output EXCEPT ![path] = Partial]}
  PROVE  /\ output' = output \/ Disturbs(path)
         /\ \A p \in Paths : output'[p] = output[p] \/ output'[p] = Partial
         /\ output' \in [Paths -> Content]
  <1>1. Partial \in Content /\ output \in [Paths -> Content]
    BY DEF Partial, Bytes, Content, BatchType
  <1> QED
    BY <1>1 DEF Disturbs

(* An error ends a batch as it is, or is the answer to the current id.     *)
LEMMA ErrorStep ==
  ASSUME BatchInv, Current, Fixed, NEW object \in Objects \cup {NoObject}, Error(object),
         Found(Id) => object = Object,
         output' = output \/ (Found(Id) /\ Disturbs(TargetPath(EntryOf(Object)))),
         output' \in [Paths -> Content],
         \A p \in Paths : output'[p] = output[p] \/ output'[p] = Partial
  PROVE  BatchInv'
  <1>1. BatchType /\ FilesInv /\ AnswersInv
    BY DEF BatchInv
  <1>2. CASE status' = "aborted" /\ UNCHANGED <<position, results>>
    <2>1. UNCHANGED <<inspection, mode, requested>> /\ Objects' = Objects
            /\ Results' = Results
      BY DEF Fixed, Objects, Models, Results
    <2>2. BatchType'
      BY <1>1, <1>2, <2>1 DEF BatchType, Content
    <2>3. FilesInv'
      <3> SUFFICES ASSUME Unambiguous', NEW i \in DOMAIN results,
                          results[i].kind = "recovered"
                   PROVE  IsIntact(results[i])'
        BY <1>2 DEF FilesInv
      <3>1. Unambiguous
        BY <2>1 DEF Unambiguous, Models
      <3>2. IsIntact(results[i])
        BY <1>1, <3>1 DEF FilesInv
      <3>3. PICK answer : answer = results[i]
        OBVIOUS
      <3>4. IsIntact(answer)'
        BY <1>1, <1>2, <3>1, <3>2, <3>3, ReportedStays
      <3> QED
        BY <1>2, <3>3, <3>4
    <2>4. AnswersInv'
      BY <1>1, <1>2, <2>1, SameImageSameObjects DEF AnswersInv
    <2> QED
      BY <2>2, <2>3, <2>4 DEF BatchInv
  <1>3. CASE Report(Outcome("error", object, NoPath)) /\ Advance /\ UNCHANGED status
    <2> DEFINE r == Outcome("error", object, NoPath)
    <2>1. r \in Results /\ r.kind = "error" /\ r.object = object
      BY DEF Outcome, Results
    <2>2. results' = Append(results, r)
      BY <1>3 DEF Report
    <2> HIDE DEF r
    <2> QED
      BY <1>3, <2>1, <2>2, AnswerStep
  <1> QED
    BY <1>2, <1>3 DEF Error

LEMMA BatchStep ==
  ASSUME BatchInv, [Next]_vars
  PROVE  BatchInv'
  <1>1. BatchType /\ FilesInv /\ AnswersInv
    BY DEF BatchInv
  <1>2. CASE SkipUnknown
    <2>1. /\ Current /\ ~Found(Id) /\ Advance /\ Fixed
               /\ UNCHANGED <<results, status, output>>
      BY <1>2 DEF SkipUnknown
    <2>2. UNCHANGED <<inspection, mode, requested>> /\ Objects' = Objects
            /\ Results' = Results
      BY <2>1 DEF Fixed, Objects, Models, Results
    <2>3. position' \in 1..(Len(requested) + 1) /\ position' = position + 1
          /\ position \in Nat
          /\ 1..(position' - 1) = 1..(position - 1) \cup {position}
      BY <1>1, <2>1, <2>2, PastGrows
    <2>4. BatchType'
      <3>1. Len(results) \in Nat /\ Len(results) < position'
        BY <1>1, <2>3 DEF BatchType
      <3>2. status' \in {"running", "done", "aborted"}
        BY <1>1, <2>1 DEF BatchType
      <3> QED
        BY <1>1, <2>1, <2>2, <2>3, <3>1, <3>2 DEF BatchType, Content
    <2>5. FilesInv'
      <3> SUFFICES ASSUME Unambiguous', NEW i \in DOMAIN results,
                          results[i].kind = "recovered"
                   PROVE  IsIntact(results[i])'
        BY <2>1 DEF FilesInv
      <3>1. Unambiguous
        BY <2>2 DEF Unambiguous, Models
      <3>2. IsIntact(results[i])
        BY <1>1, <3>1 DEF FilesInv
      <3>3. PICK answer : answer = results[i]
        OBVIOUS
      <3>4. IsIntact(answer)'
        BY <1>1, <2>1, <2>3, <3>1, <3>2, <3>3, ReportedStays
      <3> QED
        BY <2>1, <3>3, <3>4
    <2>6. AnswersInv'
      <3>1. \A id : (Found(id)' <=> Found(id)) /\ FindObject(id)' = FindObject(id)
        BY <2>2, SameImageSameObjects
      <3>2. status' # "done"
        BY <2>1 DEF Current
      <3> QED
        BY <1>1, <2>1, <2>2, <2>3, <3>1, <3>2 DEF AnswersInv, Id
    <2> QED
      BY <2>4, <2>5, <2>6 DEF BatchInv
  <1>3. CASE UnknownObject
    <2>1. Current /\ ~Found(Id) /\ Error(NoObject) /\ UNCHANGED output /\ Fixed
      BY <1>3 DEF UnknownObject
    <2>2. output' \in [Paths -> Content]
      BY <1>1, <2>1 DEF BatchType
    <2> QED
      BY <2>1, <2>2, ErrorStep
  <1>4. CASE EngineError
    <2>1. Current /\ Found(Id) /\ Error(Object) /\ UNCHANGED output /\ Fixed
      BY <1>4 DEF EngineError
    <2>2. output' \in [Paths -> Content] /\ Object \in Objects
      BY <1>1, <2>1, CurrentObject DEF BatchType
    <2> QED
      BY <2>1, <2>2, ErrorStep
  <1>5. CASE EngineFailed
    <2> DEFINE r == Outcome("failed", Object, NoPath)
    <2>1. Current /\ Found(Id) /\ results' = Append(results, r) /\ Advance
          /\ UNCHANGED <<output, status>> /\ Fixed
      BY <1>5 DEF EngineFailed, Report
    <2>2. Object \in Objects
      BY <1>1, <2>1, CurrentObject
    <2>3. r \in Results /\ r.kind = "failed" /\ r.object = Object
      BY <2>2 DEF Outcome, Results
    <2> HIDE DEF r
    <2> QED
      BY <2>1, <2>3, AnswerStep
  <1>6. CASE WriteRecovered
    <2> DEFINE path == TargetPath(EntryOf(Object))
               bytes == Bytes(Object, EngineOffset(Object[1]))
               r == Outcome("recovered", Object, path)
    <2>1. /\ Current /\ Found(Id) /\ results' = Append(results, r) /\ Advance
          /\ output' = [output EXCEPT ![path] = bytes]
          /\ UNCHANGED status /\ Fixed
      BY <1>6 DEF WriteRecovered, Report
    <2>2. /\ inspection \in Inspections /\ output \in [Paths -> Content]
          /\ Object \in Objects /\ path \in Paths /\ EntryOf(Object).id = Id
          /\ path \in {EntryOf(Object).name,
                       Suffixed(EntryOf(Object).name, EntryOf(Object).id)}
      BY <1>1, <2>1, CurrentObject DEF BatchType
    <2>3. bytes = TrueBytes(Object) /\ bytes.object = Object /\ bytes \in Content
      BY <2>2, EngineReadsItsPartition DEF Bytes, Content
    <2>4. r \in Results /\ r.object = Object /\ r.path = path
      BY <2>2 DEF Outcome, Results
    <2> HIDE DEF bytes
    <2>5. Disturbs(path) /\ output'[path] = bytes
      <3> HIDE DEF path
      <3> QED
        BY <2>1, <2>2, <2>3 DEF Disturbs
    <2>6. \A p \in Paths : output'[p] = output[p] \/ output'[p].object \in Objects
      <3> HIDE DEF path
      <3> QED
        BY <2>2, <2>3, <2>5 DEF Disturbs
    <2> HIDE DEF r
    <2>7. PICK t \in Results : t = r
      BY <2>4
    <2>8. IsIntact(t)'
      <3>1. /\ Objects' = Objects
            /\ \A o : EntryOf(o)' = EntryOf(o) /\ TrueBytes(o)' = TrueBytes(o)
        BY <2>1 DEF Fixed, Objects, EntryOf, Models, TrueBytes
      <3>2. Id \in Past'
        BY <1>1, <2>1, PastGrows DEF Fixed
      <3> HIDE DEF path
      <3>3. t.object = Object /\ t.path = path
        BY <2>4, <2>7
      <3>4. PICK o : o = Object
        OBVIOUS
      <3>5. t.object \in Objects' /\ EntryOf(t.object)' = EntryOf(Object)
            /\ TrueBytes(t.object)' = TrueBytes(Object)
        BY <2>2, <3>1, <3>3, <3>4
      <3> QED
        BY <2>2, <2>3, <2>5, <3>2, <3>3, <3>5 DEF IsIntact
    <2> QED
      BY <2>1, <2>4, <2>5, <2>6, <2>7, <2>8, AnswerStep
  <1>7. CASE WriteFails
    <2> DEFINE path == TargetPath(EntryOf(Object))
    <2>1. /\ Current /\ Found(Id) /\ Error(Object) /\ Fixed
          /\ output' \in {output, [output EXCEPT ![path] = Partial]}
      BY <1>7 DEF WriteFails
    <2>2. Object \in Objects /\ path \in Paths
      BY <1>1, <2>1, CurrentObject
    <2>3. /\ output' = output \/ Disturbs(path)
          /\ \A p \in Paths : output'[p] = output[p] \/ output'[p] = Partial
          /\ output' \in [Paths -> Content]
      BY <1>1, <2>1, <2>2, PartialDisturbs
    <2> QED
      BY <2>1, <2>2, <2>3, ErrorStep
  <1>8. CASE Complete \/ UNCHANGED vars
    <2>1. /\ UNCHANGED <<inspection, mode, requested, position, output, results>>
          /\ status' \in {"running", "done", "aborted"}
          /\ status' = "done" => position > Len(requested)
      BY <1>1, <1>8 DEF Complete, Fixed, vars, BatchType, AnswersInv
    <2>2. BatchType'
      <3>1. Objects' = Objects /\ Results' = Results /\ Content' = Content
        BY <2>1 DEF Objects, Models, Results, Content
      <3> QED
        BY <1>1, <2>1, <3>1 DEF BatchType
    <2>3. FilesInv'
      <3>1. \A answer : IsIntact(answer)' = IsIntact(answer)
        BY <2>1 DEF IsIntact, Past, Objects, EntryOf, TrueBytes, Models
      <3>2. Unambiguous' = Unambiguous
        BY <2>1 DEF Unambiguous, Models
      <3> QED
        BY <1>1, <2>1, <3>1, <3>2 DEF FilesInv
    <2>4. AnswersInv'
      BY <1>1, <2>1, SameImageSameObjects DEF AnswersInv
    <2> QED
      BY <2>2, <2>3, <2>4 DEF BatchInv
  <1> QED
    BY <1>2, <1>3, <1>4, <1>5, <1>6, <1>7, <1>8 DEF Next

-----------------------------------------------------------------------------
(* The state of a recovery of several objects is well-formed for every     *)
(* image, request and directory.                                           *)
THEOREM BatchIsTyped == Spec => []TypeOK
  <1>1. BatchInv => TypeOK
    BY DEF BatchInv, BatchType, TypeOK
  <1> QED
    BY <1>1, BatchInit, BatchStep, PTL DEF Spec

(* Files reported as recovered stay as they were reported, for every image *)
(* and directory and every request that can tell its files apart.          *)
THEOREM ReportedFilesStayIntact == Spec => []ReportedFilesIntact
  <1>1. BatchInv => ReportedFilesIntact
    BY DEF BatchInv, FilesInv, IsIntact, ReportedFilesIntact
  <1> QED
    BY <1>1, BatchInit, BatchStep, PTL DEF Spec

(* An object whose id is its own is the one that is found under it.        *)
LEMMA DistinctIdsAreFound ==
  ASSUME inspection \in Inspections, DistinctIds, NEW m \in DOMAIN Models,
         NEW k \in DOMAIN Models[m]
  PROVE  Found(Models[m][k].id) /\ FindObject(Models[m][k].id) = <<m, k>>
  <1> DEFINE id == Models[m][k].id
             o == FindObject(id)
  <1>1. Found(id)
    BY DEF Found, Holds
  <1>2. o \in Objects /\ IsFirst(o, id)
    BY <1>1, FindObjectFacts
  <1>3. /\ o[1] \in DOMAIN Models /\ o[2] \in DOMAIN Models[o[1]] /\ o = <<o[1], o[2]>>
    BY <1>2, ObjectFacts
  <1>4. Models[o[1]][o[2]].id = id
    BY <1>2 DEF IsFirst, EntryOf
  <1>5. o[1] = m /\ o[2] = k
    BY <1>3, <1>4 DEF DistinctIds
  <1> QED
    BY <1>1, <1>3, <1>5

(* With distinct Object IDs recovery by filter answers for every object    *)
(* the filter selects, in every partition.                                 *)
THEOREM EveryMatchIsAnswered == Spec => []EveryMatchAnswered
  <1>1. BatchInv => EveryMatchAnswered
    <2> SUFFICES ASSUME BatchInv, DistinctIds, NEW filter, status = "done",
                        requested = CollectObjectIds(Models, filter),
                        NEW m \in DOMAIN Models, NEW k \in DOMAIN Models[m],
                        Matches(filter, Models[m][k])
                 PROVE  \E i \in DOMAIN results : results[i].object = <<m, k>>
      BY DEF EveryMatchAnswered, Answered
    <2>1. /\ inspection \in Inspections /\ requested \in Seq(Nat)
          /\ position \in 1..(Len(requested) + 1) /\ position > Len(requested)
      BY DEF BatchInv, BatchType, AnswersInv
    <2>2. Models[m][k].id \in ToSet(requested)
      BY <2>1, InspectionFacts, CollectFacts
    <2>3. PICK i \in DOMAIN requested : requested[i] = Models[m][k].id
      BY <2>2 DEF ToSet
    <2>4. i \in 1..(position - 1)
      BY <2>1, <2>3, LenProperties
    <2>5. Found(requested[i]) /\ FindObject(requested[i]) = <<m, k>>
      BY <2>1, <2>3, DistinctIdsAreFound
    <2> QED
      BY <2>4, <2>5 DEF BatchInv, AnswersInv
  <1> QED
    BY <1>1, BatchInit, BatchStep, PTL DEF Spec

-----------------------------------------------------------------------------
(* Part 2: the engine.  What its helpers return, that the buffer only ever *)
(* holds evidence of the object, that no success is partial, and that the  *)
(* engine implements RecoveryPromise.                                      *)

(* Checked arithmetic returns a u64 or nothing. *)
LEMMA CheckedResults ==
  ASSUME NEW a \in U64, NEW b \in U64
  PROVE  CheckedAdd(a, b) \in OptU64 /\ CheckedMul(a, b) \in OptU64
  <1>1. a * b \in Nat
    BY DEF U64
  <1> QED
    BY <1>1, U64Assumption DEF CheckedAdd, CheckedMul, U64, OptU64, None

(* The size of a region is a u64 or unknown. *)
LEMMA RegionSizeType ==
  ASSUME NEW r \in Region
  PROVE  RegionSize(r) \in OptU64
  <1>1. \A a \in Nat : a % (U64Max + 1) \in 0..U64Max
    BY U64Assumption
  <1>2. SectorCount(r) \in OptU64
    BY <1>1, U64Assumption DEF SectorCount, Region, OptU64, U64, None
  <1> QED
    BY <1>2, CheckedResults, EngineAssumption DEF RegionSize, OptU64

(* The offset of a region is a u64 or unknown. *)
LEMMA RegionOffsetType ==
  ASSUME NEW r \in Region
  PROVE  RegionOffset(r) \in OptU64
  <1>1. r.offset \in OptU64 /\ r.sectorStart \in OptU64
    BY DEF Region
  <1>2. ASSUME NEW sector \in U64 PROVE SectorOffset(sector) \in OptU64
    BY CheckedResults, EngineAssumption DEF SectorOffset, OptU64
  <1> QED
    BY <1>1, <1>2 DEF RegionOffset, OptU64

(* Cutting a byte string keeps a prefix of it. *)
LEMMA TruncateIsPrefix ==
  ASSUME NEW bytes \in Seq(Byte), NEW n \in Nat
  PROVE  /\ Truncate(bytes, n) \in Seq(Byte)
         /\ Len(Truncate(bytes, n)) <= n
         /\ \A i \in DOMAIN Truncate(bytes, n) :
              i \in DOMAIN bytes /\ Truncate(bytes, n)[i] = bytes[i]
  <1>1. CASE Len(bytes) > n
    <2>1. SubSeq(bytes, 1, n) \in Seq(Byte) /\ Len(SubSeq(bytes, 1, n)) = n
      BY <1>1
    <2>2. \A i \in 1..n : SubSeq(bytes, 1, n)[i] = bytes[i]
      BY <1>1
    <2> QED
      BY <1>1, <2>1, <2>2 DEF Truncate
  <1>2. CASE ~(Len(bytes) > n)
    BY <1>2 DEF Truncate
  <1> QED
    BY <1>1, <1>2

(* A checked read returns bytes of the image that lie in the region. *)
LEMMA ReadStaysInRegion ==
  ASSUME NEW r \in Region, NEW n \in Nat, Readable(r, n)
  PROVE  /\ ReadRegion(r, n) \in Seq(Byte)
         /\ Len(ReadRegion(r, n)) = n
         /\ \A i \in DOMAIN ReadRegion(r, n) :
              ReadRegion(r, n)[i] >= 0 /\ InRegion(r, ReadRegion(r, n)[i])
  <1>1. /\ RegionOffset(r) \in Nat /\ RegionSize(r) \in Nat
        /\ n <= RegionSize(r) /\ RegionOffset(r) + n <= ImageSize
    BY RegionOffsetType, RegionSizeType DEF Readable, OptU64, U64
  <1>2. ImageSize \in Nat
    BY EngineAssumption DEF U64
  <1>3. \A i \in 1..n : RegionOffset(r) + (i - 1) \in Byte
    BY <1>1 DEF Byte
  <1>4. \A i \in 1..n : /\ RegionOffset(r) + (i - 1) >= 0
                        /\ InRegion(r, RegionOffset(r) + (i - 1))
    BY <1>1, <1>2 DEF InRegion, Readable
  <1> QED
    BY <1>3, <1>4 DEF ReadRegion

(* The bytes of a readable segment are evidence of that segment. *)
LEMMA SegmentYieldsEvidence ==
  ASSUME NEW e \in Entry, NEW k \in DOMAIN e.segments, SegmentReadable(e, e.segments[k])
  PROVE  /\ ReadContentSegment(e, e.segments[k]) \in Seq(Byte)
         /\ \A i \in DOMAIN ReadContentSegment(e, e.segments[k]) :
              EvidenceOf(e.segments[k], ReadContentSegment(e, e.segments[k])[i])
  <1> DEFINE s == e.segments[k]
  <1>1. s \in Segment /\ e.bytesPerCluster \in U64
    BY DEF Entry
  <1>2. CASE s.kind = "inline"
    <2>1. s.bytes \in Seq(InlineByte)
      BY <1>1, <1>2 DEF Segment
    <2>2. s.bytes \in Seq(Byte)
      BY <2>1 DEF InlineByte, Byte
    <2> QED
      BY <1>2, <2>2 DEF ReadContentSegment, EvidenceOf
  <1>3. CASE s.kind = "sparse"
    <2>1. s.clusters \in U64
      BY <1>1, <1>3 DEF Segment
    <2>2. SegmentLength(e, s) \in Nat
      BY <1>1, <1>3, <2>1, CheckedResults DEF SegmentReadable, SegmentLength, ByteCount, OptU64, U64
    <2> QED
      BY <1>3, <2>2 DEF ReadContentSegment, EvidenceOf, Byte, Zero
  <1>4. CASE s.kind = "physical"
    <2>1. s.clusters \in U64 /\ s.region \in Region
      BY <1>1, <1>4 DEF Segment
    <2>2. SegmentLength(e, s) \in Nat
      BY <1>1, <1>4, <2>1, CheckedResults DEF SegmentReadable, SegmentLength, ByteCount, OptU64, U64
    <2>3. Readable(s.region, SegmentLength(e, s))
      BY <1>4 DEF SegmentReadable
    <2> QED
      BY <1>4, <2>1, <2>2, <2>3, ReadStaysInRegion DEF ReadContentSegment, EvidenceOf
  <1> QED
    BY <1>1, <1>2, <1>3, <1>4 DEF Segment

(* What the promise calls whole, in terms of the engine's own definitions. *)
LEMMA WholeMeans ==
  ASSUME NEW e, NEW d
  PROVE  Promise!Whole(e, d) <=> /\ e.realSize \notin {None, U64Max} => Len(d) = e.realSize
                                 /\ \A i \in DOMAIN d : OwnByte(e, d[i])
  BY DEF Promise!Whole, Promise!None, None

-----------------------------------------------------------------------------
(* The invariant: the buffer is evidence and no longer than the object,    *)
(* and what was returned is the whole object or nothing.                   *)

ResultIsSound ==
  /\ result.status = "pending" => result = Pending
  /\ result.status = "recovered" => Promise!Whole(entry, result.data)
  /\ result.status \in {"failed", "error"} => result.data = << >>

EngineInv == EngineTypeOK /\ OnlyOwnEvidence /\ ResultIsSound

(* Reading one part appends evidence and stays within the target size.     *)
LEMMA AppendKeepsEvidence ==
  ASSUME OnlyOwnEvidence, NEW data \in Seq(Byte), buffer \in Seq(Byte),
         \A i \in DOMAIN data : OwnByte(entry, data[i]),
         buffer' = buffer \o data, entry' = entry
  PROVE  OnlyOwnEvidence' /\ buffer' \in Seq(Byte) /\ Len(buffer') = Len(buffer) + Len(data)
  <1>1. buffer' \in Seq(Byte) /\ Len(buffer') = Len(buffer) + Len(data)
    OBVIOUS
  <1>2. \A i \in DOMAIN buffer' :
          \/ i \in DOMAIN buffer /\ buffer'[i] = buffer[i]
          \/ i - Len(buffer) \in DOMAIN data /\ buffer'[i] = data[i - Len(buffer)]
    OBVIOUS
  <1> QED
    BY <1>1, <1>2 DEF OnlyOwnEvidence

LEMMA ReadSegmentStep == EngineInv /\ ReadSegment => EngineTypeOK' /\ OnlyOwnEvidence'
  <1> SUFFICES ASSUME EngineInv, ReadSegment PROVE EngineTypeOK' /\ OnlyOwnEvidence'
    OBVIOUS
  <1> DEFINE s == entry.segments[next]
             all == ReadContentSegment(entry, s)
             data == IF TargetSize = U64Max THEN all ELSE Truncate(all, TargetSize - Len(buffer))
  <1>1. /\ entry \in Entry /\ next \in DOMAIN entry.segments /\ SegmentReadable(entry, s)
        /\ buffer \in Seq(Byte) /\ entry' = entry /\ next' = next + 1 /\ result' = result
        /\ buffer' = buffer \o data
    BY EngineAssumption DEF EngineInv, EngineTypeOK, ReadSegment, Looping, Parts, Logical, Entry
  <1>2. all \in Seq(Byte) /\ \A i \in DOMAIN all : EvidenceOf(s, all[i])
    BY <1>1, SegmentYieldsEvidence
  <1>3. TargetSize # U64Max => TargetSize - Len(buffer) \in Nat
    BY <1>1, U64Assumption
       DEF EngineInv, EngineTypeOK, TargetSize, Entry, OptU64, U64, None
  <1> HIDE DEF s, all
  <1>4. /\ data \in Seq(Byte) /\ \A i \in DOMAIN data : EvidenceOf(s, data[i])
        /\ TargetSize # U64Max => Len(data) <= TargetSize - Len(buffer)
    BY <1>2, <1>3, TruncateIsPrefix
  <1> HIDE DEF data
  <1>5. \A i \in DOMAIN data : OwnByte(entry, data[i])
    BY <1>1, <1>4 DEF OwnByte, s
  <1>6. OnlyOwnEvidence' /\ buffer' \in Seq(Byte) /\ Len(buffer') = Len(buffer) + Len(data)
    BY <1>1, <1>4, <1>5, AppendKeepsEvidence DEF EngineInv
  <1>7. TargetSize' = TargetSize /\ Parts' = Parts
    BY <1>1 DEF TargetSize, Parts, Logical
  <1>8. TargetSize # U64Max => Len(buffer') <= TargetSize
    <2>1. TargetSize \in Nat /\ Len(buffer) \in Nat /\ Len(data) \in Nat
      BY <1>1, <1>4, U64Assumption DEF TargetSize, Entry, OptU64, U64
    <2> QED
      BY <1>4, <1>6, <2>1
  <1>9. next' \in 1..(Parts + 1)
    BY <1>1 DEF Parts, Logical, ReadSegment, Entry
  <1> QED
    BY <1>1, <1>6, <1>7, <1>8, <1>9 DEF EngineInv, EngineTypeOK

LEMMA ReadLegacyStep == EngineInv /\ ReadLegacyRegion => EngineTypeOK' /\ OnlyOwnEvidence'
  <1> SUFFICES ASSUME EngineInv, ReadLegacyRegion PROVE EngineTypeOK' /\ OnlyOwnEvidence'
    OBVIOUS
  <1> DEFINE r == entry.regions[next]
             n == BytesToRead(r)
             data == ReadRegion(r, n)
  <1>1. /\ entry \in Entry /\ next \in DOMAIN entry.regions /\ entry.segments = << >>
        /\ RegionSize(r) # None /\ Readable(r, n) /\ Len(buffer) < TargetSize
        /\ buffer \in Seq(Byte) /\ entry' = entry /\ next' = next + 1 /\ result' = result
        /\ buffer' = buffer \o data /\ TargetSize \in Nat
    <2>1. entry \in Entry /\ buffer \in Seq(Byte)
      BY EngineAssumption DEF EngineInv, EngineTypeOK
    <2>2. TargetSize \in Nat
      BY <2>1, U64Assumption DEF TargetSize, Entry, OptU64, U64
    <2>3. entry.segments = << >> /\ next \in DOMAIN entry.regions /\ ~(Len(buffer) >= TargetSize)
      <3>1. entry.segments = << >> /\ next <= Len(entry.regions) /\ ~(Len(buffer) >= TargetSize)
        BY DEF ReadLegacyRegion, Looping, Parts, Logical, Enough
      <3>2. next \in Nat \ {0} /\ entry.regions \in Seq(Region)
        BY <2>1 DEF EngineInv, EngineTypeOK, Entry, Parts, Logical
      <3> QED
        BY <3>1, <3>2
    <2>4. /\ RegionSize(r) # None /\ Readable(r, n)
          /\ buffer' = buffer \o data /\ next' = next + 1 /\ UNCHANGED <<entry, result>>
      BY DEF ReadLegacyRegion
    <2> QED
      BY <2>1, <2>2, <2>3, <2>4
  <1>2. r \in Region
    BY <1>1 DEF Entry
  <1>3. RegionSize(r) \in Nat
    BY <1>1, <1>2, RegionSizeType DEF OptU64, U64
  <1>4. n \in Nat /\ n <= TargetSize - Len(buffer)
    BY <1>1, <1>3 DEF BytesToRead
  <1>5. /\ data \in Seq(Byte) /\ Len(data) = n
        /\ \A i \in DOMAIN data : data[i] >= 0 /\ InRegion(r, data[i])
    BY <1>1, <1>2, <1>4, ReadStaysInRegion
  <1> HIDE DEF data, n
  <1>6. \A i \in DOMAIN data : OwnByte(entry, data[i])
    BY <1>1, <1>5 DEF OwnByte
  <1>7. OnlyOwnEvidence' /\ buffer' \in Seq(Byte) /\ Len(buffer') = Len(buffer) + n
    BY <1>1, <1>5, <1>6, AppendKeepsEvidence DEF EngineInv
  <1>8. TargetSize' = TargetSize /\ Parts' = Parts
    BY <1>1 DEF TargetSize, Parts, Logical
  <1>9. Len(buffer') <= TargetSize
    BY <1>1, <1>4, <1>7
  <1>10. next' \in 1..(Parts + 1)
    BY <1>1 DEF Parts, Logical, Entry
  <1> QED
    BY <1>1, <1>7, <1>8, <1>9, <1>10 DEF EngineInv, EngineTypeOK

(* The steps that return: what they hand out is whole or empty.            *)
LEMMA ReturnStep ==
  ASSUME EngineInv,
         RecoverEmpty \/ SegmentError \/ LegacyRegionError \/ DeviceError
           \/ FinishShort \/ FinishWhole
  PROVE  EngineInv' /\ Promise!Next
  <1> USE DEF EngineInv
  <1>1. entry \in Entry /\ entry.realSize \in OptU64 /\ TargetSize \in Nat /\ result = Pending
    BY EngineAssumption, U64Assumption
       DEF EngineTypeOK, Entry, OptU64, U64, TargetSize, RecoverEmpty, SegmentError,
           LegacyRegionError, DeviceError, FinishShort, FinishWhole, Looping, Finished
  <1>2. /\ UNCHANGED <<entry, buffer, next>>
        /\ \/ result' \in [status : {"failed", "error"}, data : {<< >>}]
           \/ /\ result'= [status |-> "recovered", data |-> result'.data]
              /\ result'.data \in Seq(Byte)
              /\ Promise!Whole(entry, result'.data)
    <2>1. CASE RecoverEmpty
      <3>1. result' = [status |-> "recovered", data |-> << >>] /\ UNCHANGED <<entry, buffer, next>>
        BY <2>1 DEF RecoverEmpty, Return
      <3>2. entry.realSize \in {0, None}
        BY <2>1, U64Assumption DEF RecoverEmpty, TargetSize
      <3> QED
        BY <3>1, <3>2, WholeMeans
    <2>2. CASE FinishWhole
      <3>1. result' = [status |-> "recovered", data |-> buffer] /\ UNCHANGED <<entry, buffer, next>>
        BY <2>2 DEF FinishWhole, Return
      <3>2. entry.realSize \notin {None, U64Max} => Len(buffer) = entry.realSize
        BY <1>1, <2>2 DEF FinishWhole, TargetSize, EngineTypeOK
      <3> QED
        BY <3>1, <3>2, WholeMeans DEF OnlyOwnEvidence, EngineTypeOK
    <2>3. CASE SegmentError \/ LegacyRegionError \/ DeviceError \/ FinishShort
      BY <2>3 DEF SegmentError, LegacyRegionError, DeviceError, FinishShort, Return
    <2> QED
      BY <2>1, <2>2, <2>3
  <1>3. EngineTypeOK'
    <2>1. result' \in [status : {"pending", "recovered", "failed", "error"}, data : Seq(Byte)]
      <3>1. << >> \in Seq(Byte)
        OBVIOUS
      <3>2. ASSUME NEW d \in Seq(Byte), result' = [status |-> "recovered", data |-> d]
            PROVE  result' \in [status : {"pending", "recovered", "failed", "error"},
                                data : Seq(Byte)]
        BY <3>2
      <3>3. CASE result' \in [status : {"failed", "error"}, data : {<< >>}]
        BY <3>1, <3>3
      <3> QED
        BY <1>2, <3>2, <3>3
    <2>2. TargetSize' = TargetSize /\ Parts' = Parts
      BY <1>2 DEF TargetSize, Parts, Logical
    <2> QED
      BY <1>2, <2>1, <2>2 DEF EngineTypeOK
  <1>4. OnlyOwnEvidence'
    BY <1>2 DEF OnlyOwnEvidence
  <1>5. ResultIsSound'
    BY <1>2 DEF ResultIsSound, Pending
  <1>6. Promise!Next
    BY <1>1, <1>2 DEF Promise!Next, Promise!Deliver, Promise!Refuse, Promise!NoResult, Pending
  <1> QED
    BY <1>3, <1>4, <1>5, <1>6

(* Every step keeps the invariant, and is a step of the promise or hidden  *)
(* from the caller.                                                        *)
LEMMA EngineStep ==
  ASSUME EngineInv, [EngineNext]_engineVars
  PROVE  EngineInv' /\ [Promise!Next]_<<entry, result>>
  <1>1. CASE UNCHANGED engineVars
    BY <1>1 DEF engineVars, EngineInv, EngineTypeOK, OnlyOwnEvidence, ResultIsSound, TargetSize, Parts, Logical
  <1>2. CASE ReadSegment \/ ReadLegacyRegion
    <2>1. EngineTypeOK' /\ OnlyOwnEvidence'
      BY <1>2, ReadSegmentStep, ReadLegacyStep
    <2>2. UNCHANGED <<entry, result>> /\ result = Pending
      BY <1>2 DEF ReadSegment, ReadLegacyRegion, Looping
    <2> QED
      BY <2>1, <2>2 DEF EngineInv, ResultIsSound, Pending
  <1> QED
    BY <1>1, <1>2, ReturnStep DEF EngineNext

LEMMA EngineInvariant == EngineSpec => []EngineInv
  <1>1. EngineInit => EngineInv
    <2> SUFFICES ASSUME EngineInit PROVE EngineInv
      OBVIOUS
    <2>1. entry \in Entry /\ TargetSize \in Nat /\ Parts \in Nat
      BY EngineAssumption, U64Assumption
         DEF EngineInit, TargetSize, Parts, Logical, Entry, OptU64, U64
    <2> QED
      BY <2>1 DEF EngineInit, EngineInv, EngineTypeOK, OnlyOwnEvidence, ResultIsSound, Pending
  <1>2. EngineInv /\ [EngineNext]_engineVars => EngineInv'
    BY EngineStep
  <1> QED
    BY <1>1, <1>2, PTL DEF EngineSpec

(* The loop state is well-formed, and the buffer never outgrows the        *)
(* object's recorded size (recover, recover_logical_layout).               *)
THEOREM EngineIsTyped == EngineSpec => []EngineTypeOK
  BY EngineInvariant, PTL DEF EngineInv

(* Whatever the layout or the region list says, only bytes of the object's *)
(* own regions, inline bytes and zeros of sparse runs are ever put into    *)
(* the buffer (read_region, read_content_segment).                         *)
THEOREM EvidenceIsOwn == EngineSpec => []OnlyOwnEvidence
  BY EngineInvariant, PTL DEF EngineInv

(* A success has exactly the recorded size (recover).                      *)
THEOREM SuccessIsWhole == EngineSpec => []NeverPartialNorSlack
  <1>1. EngineInv => NeverPartialNorSlack
    BY WholeMeans DEF EngineInv, ResultIsSound, NeverPartialNorSlack
  <1> QED
    BY <1>1, EngineInvariant, PTL

(* The engine implements the promise made to its callers: one answer, and  *)
(* it is the whole object made of its own evidence, or no bytes at all     *)
(* (recover).                                                              *)
THEOREM EngineKeepsPromise == EngineSpec => KeepsPromise
  <1>1. EngineInit => Promise!Init
    BY DEF EngineInit, Promise!Init, Promise!NoResult, Pending
  <1>2. EngineInv /\ [EngineNext]_engineVars => [Promise!Next]_<<entry, result>>
    BY EngineStep
  <1> QED
    BY <1>1, <1>2, EngineInvariant, PTL DEF EngineSpec, KeepsPromise, Promise!Spec

(* Cutting what two strings give together. *)
LEMMA TruncateTogether ==
  ASSUME NEW a \in Seq(Byte), NEW b \in Seq(Byte), NEW n \in Nat, Len(Truncate(a, n)) < n
  PROVE  Truncate(a, n) = a /\ Truncate(a \o b, n) = a \o Truncate(b, n - Len(a))
  <1>1. Len(a) \in Nat /\ Len(b) \in Nat /\ a \o b \in Seq(Byte) /\ Len(a \o b) = Len(a) + Len(b)
    OBVIOUS
  <1>2. Len(a) < n /\ Truncate(a, n) = a
    <2>1. CASE Len(a) > n
      <3>1. Len(SubSeq(a, 1, n)) = n
        BY <1>1, <2>1
      <3> QED
        BY <2>1, <3>1 DEF Truncate
    <2>2. CASE ~(Len(a) > n)
      BY <2>2 DEF Truncate
    <2> QED
      BY <2>1, <2>2
  <1>3. CASE Len(b) > n - Len(a)
    <2> DEFINE c == SubSeq(b, 1, n - Len(a))
               d == SubSeq(a \o b, 1, n)
    <2>1. c \in Seq(Byte) /\ Len(c) = n - Len(a) /\ \A i \in 1..(n - Len(a)) : c[i] = b[i]
      BY <1>1, <1>2, <1>3
    <2>2. d \in Seq(Byte) /\ Len(d) = n /\ \A i \in 1..n : d[i] = (a \o b)[i]
      BY <1>1, <1>2, <1>3
    <2> HIDE DEF c, d
    <2>3. PICK l \in Nat : l = Len(a) /\ l < n
      BY <1>1, <1>2
    <2>4. /\ a \o c \in Seq(Byte) /\ Len(a \o c) = n
          /\ \A i \in 1..n : (a \o c)[i] = IF i <= l THEN a[i] ELSE c[i - l]
      BY <2>1, <2>3, ConcatProperties
    <2>5. \A i \in 1..n : (a \o b)[i] = IF i <= l THEN a[i] ELSE b[i - l]
      BY <1>1, <1>3, <2>3, ConcatProperties
    <2>6. ASSUME NEW i \in 1..n PROVE (a \o c)[i] = d[i]
      <3>1. CASE i <= l
        BY <2>2, <2>4, <2>5, <3>1
      <3>2. CASE ~(i <= l)
        <4>1. PICK j \in 1..(n - l) : j = i - l
          BY <2>3, <3>2
        <4>2. c[j] = b[j]
          BY <2>1, <2>3
        <4> QED
          BY <2>2, <2>4, <2>5, <3>2, <4>1, <4>2
      <3> QED
        BY <3>1, <3>2
    <2>7. a \o c = d
      <3>1. PICK x \in Seq(Byte) : x = a \o c
        BY <2>4
      <3> QED
        BY <2>2, <2>4, <2>6, <3>1
    <2> QED
      BY <1>1, <1>2, <1>3, <2>7 DEF Truncate, c, d
  <1>4. CASE ~(Len(b) > n - Len(a))
    BY <1>1, <1>2, <1>4 DEF Truncate
  <1> QED
    BY <1>2, <1>3, <1>4

(* A part that is read is a string, whether all of it is taken or not.     *)
LEMMA RegionIsCut ==
  ASSUME NEW r \in Region, RegionSize(r) \in Nat, RegionOffset(r) \in Nat, NEW n \in Nat
  PROVE  /\ ReadRegion(r, RegionSize(r)) \in Seq(Byte)
         /\ Truncate(ReadRegion(r, RegionSize(r)), n)
              = ReadRegion(r, IF RegionSize(r) <= n THEN RegionSize(r) ELSE n)
  <1>1. PICK size \in Nat, offset \in Nat : size = RegionSize(r) /\ offset = RegionOffset(r)
    OBVIOUS
  <1>2. ASSUME NEW m \in Nat
        PROVE  /\ ReadRegion(r, m) \in Seq(Byte) /\ Len(ReadRegion(r, m)) = m
               /\ \A i \in 1..m : ReadRegion(r, m)[i] = offset + (i - 1)
    BY <1>1 DEF ReadRegion, Byte
  <1>3. CASE size <= n
    BY <1>1, <1>2, <1>3 DEF Truncate
  <1>4. CASE size > n
    <2> DEFINE all == ReadRegion(r, size)
               some == ReadRegion(r, n)
               cut == SubSeq(all, 1, n)
    <2>1. /\ all \in Seq(Byte) /\ Len(all) = size /\ some \in Seq(Byte) /\ Len(some) = n
          /\ \A i \in 1..n : all[i] = some[i]
      BY <1>2, <1>4
    <2> HIDE DEF all, some
    <2>2. cut \in Seq(Byte) /\ Len(cut) = n /\ \A i \in 1..n : cut[i] = all[i]
      BY <1>4, <2>1
    <2>3. cut = some
      BY <2>1, <2>2
    <2> QED
      BY <1>1, <1>4, <2>1, <2>3 DEF Truncate, all, some
  <1> QED
    BY <1>1, <1>3, <1>4

(* One part more goes behind what the others gave. *)
LEMMA AssembledStep ==
  ASSUME NEW e, NEW n \in Nat, \A k \in 1..(n + 1) : Part(e, k) \in Seq(Byte)
  PROVE  /\ Assembled(e, n) \in Seq(Byte) /\ Assembled(e, 0) = << >>
         /\ Assembled(e, n + 1) = Assembled(e, n) \o Part(e, n + 1)
  <1> DEFINE X == Seq(Byte)
             P == [k \in 1..(n + 1) |-> Part(e, k)]
             Q == [k \in 1..n |-> Part(e, k)]
             t == Part(e, n + 1)
  <1>1. /\ P \in [1..(n + 1) -> X] /\ Q \in [1..n -> X] /\ t \in X
        /\ P[n + 1] = t /\ \A i \in 1..n : P[i] = Q[i]
    OBVIOUS
  <1>2. FlattenSeq([k \in 1..0 |-> Part(e, k)]) = << >>
    BY DEF FlattenSeq
  <1>3. /\ Assembled(e, n + 1) = FlattenSeq(P) /\ Assembled(e, n) = FlattenSeq(Q)
        /\ Assembled(e, 0) = << >>
    BY <1>2 DEF Assembled
  <1> HIDE DEF X, P, Q, t
  <1>4. P \in Seq(X) /\ Q \in Seq(X) /\ Len(P) = n + 1 /\ Len(Q) = n
    BY <1>1, SeqDef, LenProperties
  <1>5. P = Append(Q, t)
    <2>1. /\ Append(Q, t) \in Seq(X) /\ Len(Append(Q, t)) = n + 1
          /\ Append(Q, t)[n + 1] = t /\ \A i \in 1..n : Append(Q, t)[i] = Q[i]
      BY <1>1, <1>4, AppendProperties
    <2>2. ASSUME NEW i \in 1..(n + 1) PROVE P[i] = Append(Q, t)[i]
      BY <1>1, <2>1
    <2> QED
      BY <1>4, <2>1, <2>2, SeqEqual
  <1>6. FlattenSeq(Q) \in Seq(Byte) /\ FlattenSeq(P) = FlattenSeq(Q) \o t
    BY <1>1, <1>4, <1>5, FlattenFacts, FlattenAppend DEF X
  <1> QED
    BY <1>3, <1>6 DEF t

(* What is assembled from strings is a string. *)
LEMMA PartsAreStrings ==
  ASSUME NEW e, NEW n \in Nat, \A k \in 1..n : Part(e, k) \in Seq(Byte)
  PROVE  Assembled(e, n) \in Seq(Byte)
  <1> DEFINE X == Seq(Byte)
             Q == [k \in 1..n |-> Part(e, k)]
  <1>1. Q \in [1..n -> X] /\ Assembled(e, n) = FlattenSeq(Q)
    BY DEF Assembled
  <1> HIDE DEF X, Q
  <1>2. Q \in Seq(X)
    BY <1>1, SeqDef
  <1> QED
    BY <1>1, <1>2, FlattenFacts DEF X

(* The buffer is what the parts behind the running one hold, cut at the    *)
(* size, and so is what was returned.                                      *)
Unlimited == Logical /\ TargetSize = U64Max

AssemblyInv ==
  /\ \A k \in 1..(next - 1) : Part(entry, k) \in Seq(Byte)
  /\ buffer = IF Unlimited THEN Assembled(entry, next - 1)
                           ELSE Truncate(Assembled(entry, next - 1), TargetSize)
  /\ result.status = "recovered" =>
       result.data = buffer /\ (next > Parts \/ Len(buffer) = TargetSize)

(* Taking the next part, or what is needed of it, keeps it so.             *)
LEMMA PartIsAssembled ==
  ASSUME EngineTypeOK, AssemblyInv, Unlimited \/ Len(buffer) < TargetSize, TargetSize \in Nat,
         Part(entry, next) \in Seq(Byte), next \in Nat \ {0},
         buffer' = buffer \o (IF Unlimited THEN Part(entry, next)
                              ELSE Truncate(Part(entry, next), TargetSize - Len(buffer))),
         next' = next + 1, UNCHANGED <<entry, result>>, result = Pending
  PROVE  AssemblyInv'
  <1>1. PICK n \in Nat : n = next - 1
    OBVIOUS
  <1>2. next = n + 1 /\ next' - 1 = n + 1
    BY <1>1
  <1>3. \A k \in 1..(n + 1) : Part(entry, k) \in Seq(Byte)
    BY <1>1, <1>2 DEF AssemblyInv
  <1>4. PICK a \in Seq(Byte), b \in Seq(Byte) : a = Assembled(entry, n) /\ b = Part(entry, n + 1)
    BY <1>2, <1>3, AssembledStep
  <1>5. Assembled(entry, n + 1) = a \o b
    BY <1>3, <1>4, AssembledStep
  <1>6. buffer' = IF Unlimited THEN a \o b ELSE Truncate(a \o b, TargetSize)
    <2>1. CASE Unlimited
      BY <1>1, <1>2, <1>4, <2>1 DEF AssemblyInv
    <2>2. CASE ~Unlimited
      <3>1. buffer = Truncate(a, TargetSize) /\ Len(buffer) < TargetSize
        BY <1>1, <1>4, <2>2 DEF AssemblyInv
      <3>2. a = buffer /\ Truncate(a \o b, TargetSize) = a \o Truncate(b, TargetSize - Len(a))
        BY <3>1, TruncateTogether
      <3> QED
        BY <1>2, <1>4, <2>2, <3>2
    <2> QED
      BY <2>1, <2>2
  <1>7. UNCHANGED <<TargetSize, Unlimited>>
    BY DEF TargetSize, Unlimited, Logical
  <1>8. \A k \in 1..(n + 1) : Part(entry', k) \in Seq(Byte)
    BY <1>3
  <1> QED
    BY <1>2, <1>5, <1>6, <1>7, <1>8 DEF AssemblyInv, Pending

(* Every step of the engine keeps the buffer what the parts hold. *)
LEMMA AssemblyStep ==
  ASSUME EngineTypeOK, AssemblyInv, [EngineNext]_engineVars
  PROVE  AssemblyInv'
  <1>1. /\ entry \in Entry /\ TargetSize \in Nat /\ buffer \in Seq(Byte) /\ next \in Nat \ {0}
        /\ TargetSize \in 0..U64Max /\ Parts \in Nat
    BY EngineAssumption, U64Assumption
       DEF EngineTypeOK, TargetSize, Entry, OptU64, U64, None, Parts, Logical
  <1>2. CASE ReadSegment
    <2>1. /\ entry.segments # << >> /\ next \in DOMAIN entry.segments
          /\ SegmentReadable(entry, entry.segments[next]) /\ result = Pending
          /\ ~(TargetSize # U64Max /\ Len(buffer) >= TargetSize)
          /\ next' = next + 1 /\ UNCHANGED <<entry, result>>
      BY <1>1, <1>2 DEF ReadSegment, Looping, Logical, Parts, Entry, Enough
    <2>2. Part(entry, next) = ReadContentSegment(entry, entry.segments[next])
      BY <2>1 DEF Part
    <2>3. Part(entry, next) \in Seq(Byte)
      BY <1>1, <2>1, <2>2, SegmentYieldsEvidence
    <2>4. buffer' = buffer \o (IF Unlimited THEN Part(entry, next)
                               ELSE Truncate(Part(entry, next), TargetSize - Len(buffer)))
      BY <1>2, <2>1, <2>2 DEF ReadSegment, Unlimited, Logical
    <2>5. Unlimited \/ Len(buffer) < TargetSize
      BY <1>1, <2>1 DEF Unlimited, Logical
    <2> QED
      BY <1>1, <2>1, <2>3, <2>4, <2>5, PartIsAssembled
  <1>3. CASE ReadLegacyRegion
    <2> DEFINE r == entry.regions[next]
    <2>1. /\ entry.segments = << >> /\ next \in DOMAIN entry.regions /\ result = Pending
          /\ RegionSize(r) # None /\ Readable(r, BytesToRead(r)) /\ Len(buffer) < TargetSize
          /\ next' = next + 1 /\ UNCHANGED <<entry, result>>
          /\ buffer' = buffer \o ReadRegion(r, BytesToRead(r))
      BY <1>1, <1>3 DEF ReadLegacyRegion, Looping, Logical, Parts, Entry, Enough
    <2>2. r \in Region
      BY <1>1, <2>1 DEF Entry
    <2>3. RegionSize(r) \in Nat /\ RegionOffset(r) \in Nat
      BY <2>1, <2>2, RegionSizeType, RegionOffsetType DEF Readable, OptU64, U64
    <2>4. Part(entry, next) = ReadRegion(r, RegionSize(r)) /\ ~Unlimited
      BY <2>1 DEF Part, Unlimited, Logical
    <2>5. PICK n \in Nat : n = TargetSize - Len(buffer)
      <3>1. Len(buffer) \in Nat /\ Len(buffer) < TargetSize /\ TargetSize \in Nat
        BY <1>1, <2>1
      <3>2. PICK t \in Nat, l \in Nat : t = TargetSize /\ l = Len(buffer)
        BY <3>1
      <3>3. t - l \in Nat
        BY <3>1, <3>2
      <3> QED
        BY <3>2, <3>3
    <2>6. /\ Part(entry, next) \in Seq(Byte)
          /\ Truncate(Part(entry, next), n) = ReadRegion(r, BytesToRead(r))
      BY <2>2, <2>3, <2>4, <2>5, RegionIsCut DEF BytesToRead
    <2> QED
      BY <1>1, <2>1, <2>4, <2>5, <2>6, PartIsAssembled
  <1>4. CASE RecoverEmpty
    <2>1. result' = [status |-> "recovered", data |-> << >>] /\ UNCHANGED <<entry, buffer, next>>
          /\ TargetSize = 0
      BY <1>4 DEF RecoverEmpty, Return
    <2>2. buffer = << >> /\ Len(buffer) = 0
      <3>1. Len(buffer) <= 0
        BY <2>1, U64Assumption DEF EngineTypeOK
      <3> QED
        BY <1>1, <3>1
    <2> QED
      BY <2>1, <2>2 DEF AssemblyInv, TargetSize, Unlimited, Logical, Parts
  <1>5. CASE FinishWhole
    <2>1. /\ result' = [status |-> "recovered", data |-> buffer] /\ UNCHANGED <<entry, buffer, next>>
          /\ next > Parts \/ Enough
      BY <1>5 DEF FinishWhole, Finished, Return
    <2>2. Len(buffer) <= TargetSize \/ Unlimited
      <3>1. CASE TargetSize # U64Max
        BY <3>1 DEF EngineTypeOK
      <3>2. CASE TargetSize = U64Max /\ ~Logical
        <4>1. buffer = Truncate(Assembled(entry, next - 1), TargetSize)
          BY <3>2 DEF AssemblyInv, Unlimited
        <4>2. \A k \in 1..((next - 1) + 0) : Part(entry, k) \in Seq(Byte)
          BY <1>1 DEF AssemblyInv
        <4>3. Assembled(entry, next - 1) \in Seq(Byte)
          BY <1>1, <4>2, PartsAreStrings
        <4> QED
          BY <1>1, <4>1, <4>3, TruncateIsPrefix
      <3> QED
        BY <3>1, <3>2 DEF Unlimited
    <2>3. Enough => Len(buffer) = TargetSize
      BY <1>1, <2>2 DEF Enough, Unlimited
    <2> QED
      BY <2>1, <2>3 DEF AssemblyInv, TargetSize, Unlimited, Logical, Parts
  <1>6. CASE SegmentError \/ LegacyRegionError \/ DeviceError \/ FinishShort
    <2>1. UNCHANGED <<entry, buffer, next>> /\ result'.status # "recovered"
      BY <1>6 DEF SegmentError, LegacyRegionError, DeviceError, FinishShort, Return
    <2> QED
      BY <2>1 DEF AssemblyInv, TargetSize, Unlimited, Logical
  <1>7. CASE UNCHANGED engineVars
    BY <1>7 DEF engineVars, AssemblyInv, TargetSize, Unlimited, Logical, Parts
  <1> QED
    BY <1>2, <1>3, <1>4, <1>5, <1>6, <1>7 DEF EngineNext

(* A success hands out the object's content byte for byte and in order,    *)
(* whatever inline, sparse and physical parts it is made of, up to its     *)
(* size (recover, recover_logical_layout, read_region).                    *)
THEOREM RecoveryIsExact == EngineSpec => []ExactReconstruction
  <1>1. EngineInit => AssemblyInv
    <2> SUFFICES ASSUME EngineInit PROVE AssemblyInv
      OBVIOUS
    <2>1. next = 1 /\ buffer = << >> /\ result = Pending /\ entry \in Entry /\ TargetSize \in Nat
      BY EngineAssumption, U64Assumption DEF EngineInit, TargetSize, Entry, OptU64, U64
    <2>2. FlattenSeq([k \in 1..0 |-> Part(entry, k)]) = << >>
      BY DEF FlattenSeq
    <2>3. Assembled(entry, next - 1) = << >> /\ Truncate(<< >>, TargetSize) = << >>
      BY <2>1, <2>2 DEF Assembled, Truncate
    <2> QED
      BY <2>1, <2>3 DEF AssemblyInv, Pending
  <1>2. AssemblyInv => ExactReconstruction
    BY DEF AssemblyInv, ExactReconstruction, Unlimited
  <1> QED
    BY <1>1, <1>2, AssemblyStep, EngineIsTyped, PTL DEF EngineSpec

-----------------------------------------------------------------------------
(* Part 3: the sessions that share the directory forensis-recovery.  First *)
(* what holds in every interleaving.                                       *)

(* What a session has done so far, as far as its own variables tell.       *)
Progress ==
  \A s \in Sessions :
    /\ pc[s] = "truncated" => last[s] # MaxTicket
    /\ pc[s] \in {"ticketed", "saving"} => ticket[s] # 0
    /\ pc[s] = "saving" => outputDir[s] # "final"

(* Files lie in directories that exist. *)
HeldIsPresent == \A d \in Dirs : held[d] # {} => d \in present

WorkInv == WorkTypeOK /\ Progress /\ HeldIsPresent /\ TornOnlyByWriter

(* The directories of a session with a ticket are well-formed, and the     *)
(* scratch directory is never a final one.                                 *)
LEMMA DirsOfSession ==
  ASSUME WorkTypeOK, NEW s \in Sessions, ticket[s] # 0
  PROVE  /\ Working(ticket[s]) \in Dirs
         /\ Final(s) \in Dirs
         /\ Working(ticket[s]) # Final(s)
         /\ Final(s)[1] # "working"
         /\ Working(ticket[s])[1] = "working"
  <1>1. ticket[s] \in Tickets
    BY WorkAssumption DEF WorkTypeOK, Tickets
  <1>2. Interface[s] \in {"cli", "tui"}
    BY WorkAssumption
  <1> QED
    BY <1>1, <1>2 DEF Dirs, Working, Final

(* Every step keeps the types. *)
LEMMA TypeStep == WorkInv /\ [WorkNext]_workVars => WorkTypeOK'
  <1> SUFFICES ASSUME WorkInv, [WorkNext]_workVars PROVE WorkTypeOK'
    OBVIOUS
  <1> USE WorkAssumption DEF WorkInv
  <1>1. CASE UNCHANGED workVars
    BY <1>1 DEF WorkTypeOK, workVars
  <1>2. ASSUME NEW s \in Sessions, Step(s) \/ Crash(s) PROVE WorkTypeOK'
    <2>1. CASE ReadCounter(s)
      BY <2>1 DEF ReadCounter, WorkTypeOK, Go, States, files, Absent, Torn
    <2>2. CASE InvalidCounter(s) \/ CounterOverflow(s)
      BY <2>2 DEF InvalidCounter, CounterOverflow, WorkTypeOK, Go, States, files
    <2>3. CASE TruncateCounter(s)
      BY <2>3 DEF TruncateCounter, WorkTypeOK, Go, States, files
    <2>4. CASE WriteCounter(s)
      BY <2>4 DEF WriteCounter, WorkTypeOK, Go, States, files, Progress
    <2>5. CASE RecoverObject(s)
      <3>1. Working(ticket[s]) \in Dirs
        BY <2>5, DirsOfSession DEF RecoverObject, Progress
      <3> QED
        BY <2>5, <3>1 DEF RecoverObject, WorkTypeOK
    <2>6. CASE Abandon(s)
      BY <2>6 DEF Abandon, WorkTypeOK, Go, States, files
    <2>7. CASE BeginSave(s) \/ SaveRefused(s)
      <3>1. Working(ticket[s]) \in Dirs /\ Final(s) \in Dirs
        BY <2>7, DirsOfSession DEF BeginSave, SaveRefused, MaySave, Progress
      <3>2. Prepared(s) \subseteq Dirs
        BY <3>1 DEF Prepared, SaveSource, WorkTypeOK
      <3> QED
        BY <2>7, <3>2 DEF BeginSave, SaveRefused, WorkTypeOK, Go, States
    <2>8. CASE RenameWork(s)
      <3>1. Working(ticket[s]) \in Dirs /\ Final(s) \in Dirs
        BY <2>8, DirsOfSession DEF RenameWork, Progress
      <3>2. SaveSource(s) \in Dirs
        BY <3>1 DEF SaveSource
      <3>3. present' \subseteq Dirs
        BY <2>8, <3>1 DEF RenameWork, WorkTypeOK
      <3>4. held' \in [Dirs -> SUBSET Sessions]
        BY <2>8, <3>1, <3>2 DEF RenameWork, WorkTypeOK
      <3> QED
        BY <2>8, <3>3, <3>4 DEF RenameWork, WorkTypeOK, Go, States
    <2>9. CASE RenameFails(s)
      BY <2>9 DEF RenameFails, WorkTypeOK, Go, States, files
    <2>10. CASE Crash(s)
      BY <2>10 DEF Crash, WorkTypeOK, Go, States, files
    <2> QED
      BY <1>2, <2>1, <2>2, <2>3, <2>4, <2>5, <2>6, <2>7, <2>8, <2>9, <2>10 DEF Step
  <1> QED
    BY <1>1, <1>2 DEF WorkNext

(* Every step keeps what the sessions have done so far. *)
LEMMA ProgressStep == WorkInv /\ [WorkNext]_workVars => Progress'
  <1> SUFFICES ASSUME WorkInv, [WorkNext]_workVars PROVE Progress'
    OBVIOUS
  <1> USE WorkAssumption DEF WorkInv, WorkTypeOK
  <1>1. CASE UNCHANGED workVars
    BY <1>1 DEF Progress, workVars
  <1>2. ASSUME NEW s \in Sessions, Step(s) \/ Crash(s) PROVE Progress'
    <2>1. CASE ReadCounter(s) \/ InvalidCounter(s) \/ CounterOverflow(s)
      BY <2>1 DEF ReadCounter, InvalidCounter, CounterOverflow, Progress, Go, files
    <2>2. CASE TruncateCounter(s)
      BY <2>2 DEF TruncateCounter, Progress, Go, files
    <2>3. CASE WriteCounter(s)
      BY <2>3 DEF WriteCounter, Progress, Go, files
    <2>4. CASE RecoverObject(s)
      BY <2>4 DEF RecoverObject, Progress
    <2>5. CASE Abandon(s) \/ SaveRefused(s) \/ RenameFails(s) \/ Crash(s)
      BY <2>5 DEF Abandon, SaveRefused, MaySave, RenameFails, Crash, Progress, Go, files
    <2>6. CASE BeginSave(s)
      <3>1. outputDir[s] # "final"
        BY <2>6 DEF BeginSave, MaySave, Prepared, SaveSource
      <3> QED
        BY <2>6, <3>1 DEF BeginSave, MaySave, Progress, Go
    <2>7. CASE RenameWork(s)
      BY <2>7 DEF RenameWork, Progress, Go
    <2> QED
      BY <1>2, <2>1, <2>2, <2>3, <2>4, <2>5, <2>6, <2>7 DEF Step
  <1> QED
    BY <1>1, <1>2 DEF WorkNext

(* A rename moves the files of an existing directory to another one. *)
LEMMA RenameMoves ==
  ASSUME WorkInv, NEW s \in Sessions, RenameWork(s)
  PROVE  /\ SaveSource(s) = Working(ticket[s])
         /\ held[Final(s)] = {}
         /\ held' = [held EXCEPT ![Final(s)] = held[SaveSource(s)],
                                 ![SaveSource(s)] = {}]
         /\ present' = (present \ {SaveSource(s)}) \cup {Final(s)}
         /\ SaveSource(s) \in present
  <1>1. ticket[s] # 0 /\ outputDir[s] # "final"
    BY DEF RenameWork, WorkInv, Progress
  <1>2. Final(s) \in Dirs
    BY <1>1, DirsOfSession DEF WorkInv
  <1> QED
    BY <1>1, <1>2 DEF RenameWork, Renamable, SaveSource, WorkInv, HeldIsPresent

(* No step leaves files in a directory that does not exist. *)
LEMMA HeldStep == WorkInv /\ [WorkNext]_workVars => HeldIsPresent'
  <1> SUFFICES ASSUME WorkInv, [WorkNext]_workVars PROVE HeldIsPresent'
    OBVIOUS
  <1> USE DEF WorkInv, WorkTypeOK
  <1>1. CASE UNCHANGED workVars
    BY <1>1 DEF HeldIsPresent, workVars, Dirs, Tickets
  <1>2. ASSUME NEW s \in Sessions, Step(s) \/ Crash(s) PROVE HeldIsPresent'
    <2>1. CASE UNCHANGED files
      BY <2>1 DEF HeldIsPresent, files
    <2>2. CASE RecoverObject(s)
      BY <2>2 DEF RecoverObject, HeldIsPresent
    <2>3. CASE BeginSave(s) \/ SaveRefused(s)
      BY <2>3 DEF BeginSave, SaveRefused, Prepared, HeldIsPresent
    <2>4. CASE RenameWork(s)
      <3>1. ticket[s] # 0
        BY <2>4 DEF RenameWork, Progress
      <3>2. Final(s) \in Dirs /\ Working(ticket[s]) \in Dirs
        BY <3>1, DirsOfSession
      <3> QED
        BY <2>4, <3>2, RenameMoves DEF HeldIsPresent
    <2> QED
      BY <1>2, <2>1, <2>2, <2>3, <2>4
         DEF Step, ReadCounter, InvalidCounter, CounterOverflow, TruncateCounter,
             WriteCounter, Abandon, RenameFails, Crash
  <1> QED
    BY <1>1, <1>2 DEF WorkNext

(* An empty counter always has a session that emptied it. *)
LEMMA TornStep == WorkInv /\ [WorkNext]_workVars => TornOnlyByWriter'
  <1> SUFFICES ASSUME WorkInv, [WorkNext]_workVars, counter' = Torn
               PROVE  \E s \in Sessions : pc'[s] \in {"truncated", "torn"}
    BY DEF TornOnlyByWriter
  <1> USE WorkAssumption DEF WorkInv, WorkTypeOK
  <1>1. CASE UNCHANGED workVars
    BY <1>1 DEF TornOnlyByWriter, workVars
  <1>2. ASSUME NEW s \in Sessions, Step(s) \/ Crash(s)
        PROVE  \E t \in Sessions : pc'[t] \in {"truncated", "torn"}
    <2>1. CASE TruncateCounter(s)
      BY <2>1 DEF TruncateCounter, Go
    <2>2. CASE WriteCounter(s)
      BY <2>2 DEF WriteCounter, Torn
    <2>3. CASE Crash(s)
      BY <2>3 DEF Crash, Go, TornOnlyByWriter
    <2>4. ASSUME counter' = counter, pc[s] \notin {"truncated", "torn"},
                 pc' = pc \/ \E state : Go(s, state)
          PROVE  \E t \in Sessions : pc'[t] \in {"truncated", "torn"}
      BY <2>4 DEF TornOnlyByWriter, Go
    <2>5. CASE ReadCounter(s) \/ InvalidCounter(s) \/ CounterOverflow(s)
      BY <2>4, <2>5 DEF ReadCounter, InvalidCounter, CounterOverflow
    <2>6. CASE RecoverObject(s) \/ Abandon(s) \/ RenameFails(s)
      BY <2>4, <2>6 DEF RecoverObject, Abandon, RenameFails
    <2>7. CASE BeginSave(s) \/ SaveRefused(s)
      BY <2>4, <2>7 DEF BeginSave, SaveRefused, MaySave
    <2>8. CASE RenameWork(s)
      BY <2>4, <2>8 DEF RenameWork
    <2> QED
      BY <1>2, <2>1, <2>2, <2>3, <2>5, <2>6, <2>7, <2>8 DEF Step
  <1> QED
    BY <1>1, <1>2 DEF WorkNext

LEMMA WorkInvariant == WorkSpec => []WorkInv
  <1>1. WorkInit => WorkInv
    <2>1. WorkInit => raced \in BOOLEAN
      BY DEF WorkInit
    <2>2. WorkInit => WorkInv \/ raced \notin BOOLEAN
      BY WorkAssumption DEF WorkInit, WorkInv, WorkTypeOK, States, Progress, HeldIsPresent,
         TornOnlyByWriter, Absent, Torn
    <2> QED
      BY <2>1, <2>2
  <1>2. WorkInv /\ [WorkNext]_workVars => WorkInv'
    BY TypeStep, ProgressStep, HeldStep, TornStep DEF WorkInv
  <1> QED
    BY <1>1, <1>2, PTL DEF WorkSpec

(* The state is well-formed in every interleaving of any number of         *)
(* sessions, crashes included (next_recovery_ticket_in,                    *)
(* save_recovery_work).                                                    *)
THEOREM WorkIsTyped == WorkSpec => []WorkTypeOK
  BY WorkInvariant, PTL DEF WorkInv

(* An empty .ticket is always the trace of a session that is writing it or *)
(* died in between (fs::write in next_recovery_ticket_in).                 *)
THEOREM TornHasAnAuthor == WorkSpec => []TornOnlyByWriter
  BY WorkInvariant, PTL DEF WorkInv

(* No step of any session loses recovered files: a rename takes them       *)
(* along (save_recovery_work).                                             *)
THEOREM NothingIsLost == WorkSpec => EvidenceKept
  <1> DEFINE Kept(s) == (\E d \in Dirs : s \in held[d]) => \E d \in Dirs : s \in held'[d]
  <1>1. ASSUME WorkInv, [WorkNext]_workVars, NEW s \in Sessions PROVE Kept(s)
    <2> USE DEF WorkInv, WorkTypeOK
    <2>1. CASE UNCHANGED held
      BY <2>1
    <2>2. ASSUME NEW r \in Sessions, RecoverObject(r) PROVE Kept(s)
      BY <1>1, <2>2 DEF RecoverObject
    <2>3. ASSUME NEW r \in Sessions, RenameWork(r) PROVE Kept(s)
      <3>1. ticket[r] # 0
        BY <1>1, <2>3 DEF RenameWork, Progress
      <3>2. Final(r) \in Dirs /\ Working(ticket[r]) \in Dirs /\ Final(r) # Working(ticket[r])
        BY <1>1, <3>1, DirsOfSession
      <3>3. \A d \in Dirs : held'[d] = IF d = Working(ticket[r]) THEN {}
                                        ELSE IF d = Final(r) THEN held[Working(ticket[r])]
                                        ELSE held[d]
        <4>1. /\ held \in [Dirs -> SUBSET Sessions]
              /\ held' = [held EXCEPT ![Final(r)] = held[Working(ticket[r])],
                                      ![Working(ticket[r])] = {}]
          BY <1>1, <2>3, RenameMoves
        <4> HIDE DEF WorkInv, WorkTypeOK
        <4> QED
          BY <4>1, <3>2
      <3> QED
        BY <1>1, <2>3, <3>2, <3>3, RenameMoves
    <2> QED
      BY <1>1, <2>1, <2>2, <2>3
         DEF WorkNext, Step, workVars, files, ReadCounter, InvalidCounter, CounterOverflow,
             TruncateCounter, WriteCounter, Abandon, BeginSave, SaveRefused, RenameFails, Crash
  <1>2. WorkInv /\ [WorkNext]_workVars => \A s \in Sessions : Kept(s)
    BY <1>1
  <1> QED
    BY <1>2, WorkInvariant, PTL DEF WorkSpec, EvidenceKept

(* A saved directory that holds files never changes again, whoever saves   *)
(* or recovers afterwards, even under a duplicate ticket                   *)
(* (save_recovery_work).                                                   *)
THEOREM SavedStaysFrozen == WorkSpec => SavedWorkFrozen
  <1> DEFINE Frozen(d) == d[1] # "working" /\ held[d] # {} => d \in present' /\ held'[d] = held[d]
  <1>1. ASSUME WorkInv, [WorkNext]_workVars, NEW d \in present PROVE Frozen(d)
    <2> USE DEF WorkInv, WorkTypeOK
    <2>1. CASE UNCHANGED held /\ present \subseteq present'
      BY <2>1
    <2>2. ASSUME NEW r \in Sessions, RecoverObject(r) PROVE Frozen(d)
      <3>1. Working(ticket[r])[1] = "working"
        BY DEF Working
      <3> QED
        BY <1>1, <2>2, <3>1 DEF RecoverObject
    <2>3. ASSUME NEW r \in Sessions, RenameWork(r) PROVE Frozen(d)
      <3>1. Working(ticket[r])[1] = "working"
        BY DEF Working
      <3> QED
        BY <1>1, <2>3, <3>1, RenameMoves
    <2> QED
      BY <1>1, <2>1, <2>2, <2>3
         DEF WorkNext, Step, workVars, files, ReadCounter, InvalidCounter, CounterOverflow,
             TruncateCounter, WriteCounter, Abandon, BeginSave, SaveRefused, Prepared,
             RenameFails, Crash
  <1>2. WorkInv /\ [WorkNext]_workVars => \A d \in present : Frozen(d)
    BY <1>1
  <1> QED
    BY <1>2, WorkInvariant, PTL DEF WorkSpec, SavedWorkFrozen

-----------------------------------------------------------------------------
(* Part 2: no session is started while another one draws its ticket.       *)

Distinct == \A s, t \in Sessions : s # t /\ ticket[s] # 0 => ticket[s] # ticket[t]

OneDrawer == \A s, t \in Sessions : Drawing(s) /\ Drawing(t) => s = t

Undrawn == \A s \in Sessions : pc[s] \in {"idle", "read", "truncated"} => ticket[s] = 0

(* What the next session reads is no less than any ticket in use, also     *)
(* while the counter is being rewritten.                                   *)
CounterAhead ==
  /\ \A t \in Sessions : ticket[t] # 0 /\ counter # Torn => ticket[t] <= counter
  /\ \A s \in Sessions :
       /\ pc[s] = "read" => counter \in {Absent, last[s]}
       /\ pc[s] \in {"read", "truncated"} => \A t \in Sessions : ticket[t] <= last[s]

(* Files lie in the directories of their session's ticket only. *)
OwnFiles == \A d \in Dirs : \A s \in held[d] : ticket[s] = d[2]

(* The directories a save is going to rename, and between which. *)
SaveReady ==
  \A s \in Sessions :
    /\ pc[s] \in {"ticketed", "saving"} /\ outputDir[s] = "working"
         => Working(ticket[s]) \in present
    /\ pc[s] = "saving" => Working(ticket[s]) \in present /\ Final(s) \notin present

(* A session without a ticket has recovered nothing. *)
Fresh == \A s \in Sessions : pc[s] \in {"idle", "read", "truncated"} => outputDir[s] = "none"

TicketInv == WorkInv /\ OneDrawer /\ Undrawn /\ CounterAhead /\ Distinct
ExclusiveInv == TicketInv /\ Fresh /\ OwnFiles /\ SaveReady

(* The steps that do not draw a ticket leave the counter alone, and no     *)
(* step but WriteCounter gives a session a ticket.                         *)
LEMMA TicketStep ==
  ASSUME ~raced', TicketInv, [WorkNext]_workVars
  PROVE  OneDrawer' /\ Undrawn' /\ CounterAhead' /\ Distinct'
  <1> DEFINE Goal == OneDrawer' /\ Undrawn' /\ CounterAhead' /\ Distinct'
  <1> USE WorkAssumption DEF TicketInv, WorkInv, WorkTypeOK
  <1>1. CASE UNCHANGED workVars
    BY <1>1 DEF workVars, OneDrawer, Undrawn, CounterAhead, Distinct, Drawing
  <1>2. ASSUME NEW s \in Sessions, Step(s) \/ Crash(s) PROVE Goal
    <2>1. CASE ReadCounter(s)
      <3>1. OneDrawer' /\ Undrawn' /\ Distinct'
        BY <2>1 DEF ReadCounter, Go, files, OneDrawer, Undrawn, Distinct, Drawing
      <3>2. last'[s] = IF counter = Absent THEN 0 ELSE counter
        BY <2>1 DEF ReadCounter
      <3>3. \A t \in Sessions : ticket[t] <= last'[s]
        BY <2>1, <3>2 DEF ReadCounter, CounterAhead, Absent, Torn
      <3> QED
        BY <2>1, <3>1, <3>2, <3>3 DEF ReadCounter, Go, files, CounterAhead, Absent, Torn, Drawing
    <2>2. CASE TruncateCounter(s)
      BY <2>2 DEF TruncateCounter, Go, files, OneDrawer, Undrawn, CounterAhead, Distinct,
                  Drawing, Torn
    <2>3. CASE WriteCounter(s)
      <3>1. \A t \in Sessions : ticket[t] < last[s] + 1
        BY <2>3 DEF WriteCounter, CounterAhead
      <3>2. \A t \in Sessions \ {s} : ticket'[t] = ticket[t]
        BY <2>3 DEF WriteCounter
      <3>3. ticket'[s] = last[s] + 1 /\ counter' = last[s] + 1
        BY <2>3 DEF WriteCounter
      <3>4. OneDrawer' /\ Undrawn'
        BY <2>3 DEF WriteCounter, Go, files, OneDrawer, Undrawn, Drawing
      <3>5. Distinct'
        BY <2>3, <3>1, <3>2, <3>3 DEF Distinct
      <3>6. \A t \in Sessions : pc'[t] \notin {"read", "truncated"}
        BY <2>3 DEF WriteCounter, Go, OneDrawer, Drawing
      <3> QED
        BY <3>1, <3>2, <3>3, <3>4, <3>5, <3>6 DEF CounterAhead
    <2>4. ASSUME UNCHANGED <<counter, last, ticket>>,
                 pc[s] \notin {"idle", "truncated"},
                 pc' = pc \/ \E state \in {"ticketed", "saving", "ended", "crashed"} : Go(s, state)
          PROVE  Goal
      BY <2>4 DEF Go, OneDrawer, Undrawn, CounterAhead, Distinct, Drawing
    <2>5. CASE InvalidCounter(s)
      BY <2>5 DEF InvalidCounter, Go, files, OneDrawer, Undrawn, CounterAhead, Distinct,
                  Drawing
    <2>6. CASE CounterOverflow(s) \/ RecoverObject(s) \/ Abandon(s)
      BY <2>4, <2>6 DEF CounterOverflow, RecoverObject, Abandon
    <2>7. CASE BeginSave(s) \/ SaveRefused(s) \/ RenameWork(s) \/ RenameFails(s)
      BY <2>4, <2>7 DEF BeginSave, SaveRefused, MaySave, RenameWork, RenameFails
    <2>8. CASE Crash(s)
      BY <2>8 DEF Crash, Go, files, OneDrawer, Undrawn, CounterAhead, Distinct, Drawing
    <2> QED
      BY <1>2, <2>1, <2>2, <2>3, <2>5, <2>6, <2>7, <2>8 DEF Step
  <1> QED
    BY <1>1, <1>2 DEF WorkNext

(* A race is never forgotten. *)
LEMMA RaceStays == WorkInv /\ [WorkNext]_workVars /\ ~raced' => ~raced
  <1> SUFFICES ASSUME [WorkNext]_workVars, ~raced' PROVE ~raced
    OBVIOUS
  <1>1. ASSUME NEW s \in Sessions, ReadCounter(s) PROVE ~raced
    BY <1>1 DEF ReadCounter
  <1> QED
    BY <1>1 DEF WorkNext, Step, workVars, InvalidCounter, CounterOverflow, TruncateCounter, WriteCounter,
       RecoverObject, Abandon, BeginSave, SaveRefused, RenameWork, RenameFails, Crash

LEMMA TicketInvariant == WorkSpec => [](~raced => TicketInv)
  <1>1. WorkInit => OneDrawer /\ Undrawn /\ CounterAhead /\ Distinct
    BY DEF WorkInit, OneDrawer, Undrawn, CounterAhead, Distinct, Drawing
  <1>2. WorkInv /\ WorkInit => TicketInv
    BY <1>1 DEF TicketInv
  <1>3. WorkInv /\ WorkInv' /\ (~raced => TicketInv) /\ [WorkNext]_workVars => (~raced => TicketInv)'
    BY TicketStep, RaceStays DEF TicketInv
  <1> QED
    BY <1>2, <1>3, WorkInvariant, PTL DEF WorkSpec

(* Tickets are unique if no session is started while another one draws     *)
(* its ticket, whatever crashes (next_recovery_ticket_in).                 *)
THEOREM TicketsAreUnique == WorkSpec => []UniqueTickets
  <1>1. (~raced => TicketInv) => UniqueTickets
    BY DEF TicketInv, Distinct, UniqueTickets
  <1> QED
    BY <1>1, TicketInvariant, PTL

(* Under the same condition, tickets only grow (next_recovery_ticket_in).  *)
THEOREM TicketsGrow == WorkSpec => TicketsMonotonic
  <1> DEFINE Grown(s) == ticket[s] = 0 /\ ticket'[s] # 0
                           => \A t \in Sessions : ticket'[s] > ticket[t]
  <1>1. ASSUME ~raced => TicketInv, [WorkNext]_workVars, ~raced', WorkInv, NEW s \in Sessions
        PROVE  Grown(s)
    <2> TicketInv
      BY <1>1, RaceStays
    <2> USE DEF TicketInv, WorkInv, WorkTypeOK
    <2>1. ASSUME NEW r \in Sessions, WriteCounter(r) PROVE Grown(s)
      BY <1>1, <2>1 DEF WriteCounter, CounterAhead
    <2> QED
      BY <1>1, <2>1
         DEF WorkNext, Step, workVars, ReadCounter, InvalidCounter, CounterOverflow, TruncateCounter,
             RecoverObject, Abandon, BeginSave, SaveRefused, RenameWork, RenameFails, Crash
  <1>2. (~raced => TicketInv) /\ WorkInv /\ [WorkNext]_workVars
          => \A s \in Sessions : ~raced' /\ ticket[s] = 0 /\ ticket'[s] # 0
               => \A t \in Sessions : ticket'[s] > ticket[t]
    BY <1>1
  <1> QED
    BY <1>2, TicketInvariant, WorkInvariant, PTL DEF WorkSpec, TicketsMonotonic

(* The directories of different sessions differ. *)
LEMMA DirsDiffer ==
  ASSUME WorkTypeOK, Distinct, NEW r \in Sessions, NEW s \in Sessions, r # s, ticket[r] # 0
  PROVE  /\ Working(ticket[r]) # Working(ticket[s])
         /\ Final(r) # Final(s)
         /\ Final(r) # Working(ticket[s])
         /\ Final(s) # Working(ticket[r])
  <1>1. ticket[r] # ticket[s]
    BY DEF Distinct
  <1>2. Interface[r] # "working" /\ Interface[s] # "working"
    BY WorkAssumption
  <1> QED
    BY <1>1, <1>2 DEF Working, Final

(* No step puts a file under another session's ticket. *)
LEMMA OwnFilesStep ==
  ASSUME ~raced', ExclusiveInv, [WorkNext]_workVars
  PROVE  OwnFiles'
  <1> USE WorkAssumption DEF ExclusiveInv, TicketInv, WorkInv, WorkTypeOK
  <1>1. CASE UNCHANGED <<ticket, held>>
    BY <1>1 DEF OwnFiles, Dirs, Tickets
  <1>2. ASSUME NEW s \in Sessions, WriteCounter(s) PROVE OwnFiles'
    <2>1. ticket[s] = 0
      BY <1>2 DEF WriteCounter, Undrawn
    <2>2. \A d \in Dirs : d[2] # 0
      BY DEF Dirs, Tickets
    <2>3. \A d \in Dirs : s \notin held[d]
      BY <2>1, <2>2 DEF OwnFiles
    <2> QED
      BY <1>2, <2>3 DEF WriteCounter, OwnFiles, files
  <1>3. ASSUME NEW s \in Sessions, RecoverObject(s) PROVE OwnFiles'
    <2>1. Working(ticket[s])[2] = ticket[s]
      BY DEF Working
    <2> QED
      BY <1>3, <2>1 DEF RecoverObject, OwnFiles
  <1>4. ASSUME NEW s \in Sessions, RenameWork(s) PROVE OwnFiles'
    <2>1. Final(s)[2] = ticket[s] /\ Working(ticket[s])[2] = ticket[s]
      BY DEF Final, Working
    <2>2. Final(s) \in Dirs /\ Working(ticket[s]) \in Dirs
      BY <1>4, DirsOfSession DEF RenameWork, Progress
    <2>3. /\ held' = [held EXCEPT ![Final(s)] = held[Working(ticket[s])],
                                  ![Working(ticket[s])] = {}]
          /\ ticket' = ticket
      BY <1>4, RenameMoves DEF RenameWork
    <2>4. \A d \in Dirs : \/ held'[d] \in {{}, held[d]}
                          \/ d = Final(s) /\ held'[d] = held[Working(ticket[s])]
      BY <2>2, <2>3
    <2> QED
      BY <2>1, <2>2, <2>3, <2>4 DEF OwnFiles
  <1> QED
    BY <1>1, <1>2, <1>3, <1>4
       DEF WorkNext, Step, workVars, files, ReadCounter, InvalidCounter, CounterOverflow,
           TruncateCounter, Abandon, BeginSave, SaveRefused, RenameFails, Crash

(* No step of one session gets in the way of another one's save. *)
LEMMA SaveReadyStep ==
  ASSUME ~raced', ExclusiveInv, [WorkNext]_workVars
  PROVE  SaveReady'
  <1> USE WorkAssumption DEF ExclusiveInv, TicketInv, WorkInv, WorkTypeOK
  <1>1. CASE UNCHANGED workVars
    BY <1>1 DEF SaveReady, workVars, Working, Final
  <1>2. ASSUME NEW r \in Sessions, Step(r) \/ Crash(r), NEW s \in Sessions
        PROVE  /\ pc'[s] \in {"ticketed", "saving"} /\ outputDir'[s] = "working"
                    => Working(ticket[s])' \in present'
               /\ pc'[s] = "saving" => Working(ticket[s])' \in present' /\ Final(s)' \notin present'
    <2> DEFINE Ready == /\ pc'[s] \in {"ticketed", "saving"} /\ outputDir'[s] = "working"
                             => Working(ticket[s])' \in present'
                        /\ pc'[s] = "saving"
                             => Working(ticket[s])' \in present' /\ Final(s)' \notin present'
    <2>1. CASE ReadCounter(r) \/ InvalidCounter(r) \/ CounterOverflow(r) \/ TruncateCounter(r)
      BY <2>1 DEF ReadCounter, InvalidCounter, CounterOverflow, TruncateCounter, Go, files,
                  SaveReady, Working, Final
    <2>2. CASE WriteCounter(r)
      <3>1. CASE r = s
        <4>1. pc'[s] = "ticketed" /\ outputDir'[s] = outputDir[s]
          BY <2>2, <3>1 DEF WriteCounter, Go
        <4>2. outputDir[s] # "working"
          BY <2>2, <3>1 DEF WriteCounter, Fresh
        <4> QED
          BY <4>1, <4>2
      <3>2. CASE r # s
        BY <2>2, <3>2 DEF WriteCounter, Go, files, SaveReady, Working, Final
      <3> QED
        BY <3>1, <3>2
    <2>3. CASE RecoverObject(r)
      <3>1. Final(s) # Working(ticket[r])
        BY WorkAssumption DEF Final, Working
      <3> QED
        BY <2>3, <3>1 DEF RecoverObject, SaveReady, Working, Final
    <2>4. CASE Abandon(r) \/ RenameFails(r) \/ Crash(r)
      BY <2>4 DEF Abandon, RenameFails, Crash, Go, files, SaveReady, Working, Final
    <2>5. CASE BeginSave(r) \/ SaveRefused(r)
      <3>1. ticket[r] # 0
        BY <2>5 DEF BeginSave, SaveRefused, MaySave, Progress
      <3>2. present \subseteq present' /\ present' \subseteq present \cup {SaveSource(r)}
        BY <2>5 DEF BeginSave, SaveRefused, Prepared
      <3>3. CASE r = s
        <4>1. CASE BeginSave(r)
          <5>1. Working(ticket[s]) \in present' /\ Final(s) \notin present'
            BY <3>3, <4>1 DEF BeginSave, MaySave, Prepared, SaveSource, SaveReady
          <5> QED
            BY <3>3, <4>1, <5>1 DEF BeginSave, Go, Working, Final
        <4>2. CASE SaveRefused(r)
          BY <3>2, <3>3, <4>2 DEF SaveRefused, MaySave, SaveReady, Go, Working, Final
        <4> QED
          BY <2>5, <4>1, <4>2
      <3>4. CASE r # s
        <4>1. SaveSource(r) # Final(s)
          BY <3>1, <3>4, DirsDiffer DEF SaveSource
        <4> QED
          BY <2>5, <3>2, <3>4, <4>1 DEF BeginSave, SaveRefused, Go, SaveReady, Working, Final
      <3> QED
        BY <3>3, <3>4
    <2>6. CASE RenameWork(r)
      <3>1. ticket[r] # 0 /\ outputDir[r] # "final"
        BY <2>6 DEF RenameWork, Progress
      <3>2. /\ present' = (present \ {Working(ticket[r])}) \cup {Final(r)}
            /\ UNCHANGED ticket
        BY <2>6, RenameMoves DEF RenameWork
      <3>3. CASE r = s
        BY <2>6, <3>3 DEF RenameWork, Go
      <3>4. CASE r # s
        <4>1. Working(ticket[r]) # Working(ticket[s]) /\ Final(r) # Final(s)
          BY <3>1, <3>4, DirsDiffer
        <4>2. pc'[s] = pc[s] /\ outputDir'[s] = outputDir[s]
          BY <2>6, <3>4 DEF RenameWork, Go
        <4> QED
          BY <3>2, <4>1, <4>2 DEF SaveReady, Working, Final
      <3> QED
        BY <3>3, <3>4
    <2> QED
      BY <1>2, <2>1, <2>2, <2>3, <2>4, <2>5, <2>6 DEF Step
  <1> QED
    BY <1>1, <1>2 DEF WorkNext, SaveReady

(* No step makes a session recover before it has its ticket.               *)
LEMMA FreshStep ==
  ASSUME ExclusiveInv, [WorkNext]_workVars
  PROVE  Fresh'
  <1> USE DEF ExclusiveInv, TicketInv, WorkInv, WorkTypeOK
  <1>1. CASE UNCHANGED workVars
    BY <1>1 DEF workVars, Fresh
  <1>2. ASSUME NEW s \in Sessions, Step(s) \/ Crash(s) PROVE Fresh'
    BY <1>2 DEF Step, ReadCounter, InvalidCounter, CounterOverflow, TruncateCounter,
       WriteCounter, RecoverObject, Abandon, BeginSave, SaveRefused, MaySave, RenameWork,
       RenameFails, Crash, Go, Fresh
  <1> QED
    BY <1>1, <1>2 DEF WorkNext

LEMMA ExclusiveInvariant == WorkSpec => [](~raced => ExclusiveInv)
  <1>1. WorkInit => Fresh /\ OwnFiles /\ SaveReady
    BY DEF WorkInit, Fresh, OwnFiles, SaveReady
  <1>2. TicketInv /\ WorkInit => ExclusiveInv
    BY <1>1 DEF ExclusiveInv
  <1>3. /\ WorkInv /\ (~raced => TicketInv)' /\ (~raced => ExclusiveInv) /\ [WorkNext]_workVars
        => (~raced => ExclusiveInv)'
    BY FreshStep, OwnFilesStep, SaveReadyStep, RaceStays DEF ExclusiveInv
  <1>4. (~raced => TicketInv) /\ WorkInit => (~raced => ExclusiveInv)
    BY <1>2
  <1> QED
    BY <1>3, <1>4, TicketInvariant, WorkInvariant, PTL DEF WorkSpec

(* With tickets drawn one at a time, a directory never mixes the evidence  *)
(* of two sessions (save_recovery_work).                                   *)
THEOREM DirectoriesAreNotShared == WorkSpec => []OneSessionPerDirectory
  <1>1. (~raced => ExclusiveInv) => OneSessionPerDirectory
    <2> SUFFICES ASSUME ExclusiveInv, NEW d \in Dirs, NEW s \in held[d], NEW t \in held[d]
                 PROVE  s = t
      BY DEF OneSessionPerDirectory
    <2>1. s \in Sessions /\ t \in Sessions
      BY DEF ExclusiveInv, TicketInv, WorkInv, WorkTypeOK
    <2>2. ticket[s] = d[2] /\ ticket[t] = d[2] /\ d[2] # 0
      BY DEF ExclusiveInv, OwnFiles, Dirs, Tickets
    <2> QED
      BY <2>1, <2>2 DEF ExclusiveInv, TicketInv, Distinct
  <1> QED
    BY <1>1, ExclusiveInvariant, PTL

(* And a save that has found its final directory free succeeds, although   *)
(* check and rename are two steps (save_recovery_work).                    *)
THEOREM CheckedSavesSucceed == WorkSpec => []CheckedSaveSucceeds
  <1>1. (~raced => ExclusiveInv) => CheckedSaveSucceeds
    BY DEF ExclusiveInv, TicketInv, WorkInv, Progress, SaveReady, CheckedSaveSucceeds,
           Renamable, SaveSource
  <1> QED
    BY <1>1, ExclusiveInvariant, PTL

(* So sessions that do not race for their tickets stay apart               *)
(* (save_recovery_work).                                                   *)
THEOREM SessionsAreApart == WorkSpec => []SessionsStayApart
  <1>1. OneSessionPerDirectory /\ CheckedSaveSucceeds => SessionsStayApart
    BY DEF SessionsStayApart
  <1> QED
    BY <1>1, DirectoriesAreNotShared, CheckedSavesSucceed, PTL
=============================================================================
