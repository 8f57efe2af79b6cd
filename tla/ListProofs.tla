----------------------------- MODULE ListProofs -----------------------------
(***************************************************************************)
(* Lemmas about lists that the proofs of several components need: what is  *)
(* appended, joined or worked off, and what a function that is defined by  *)
(* recursion over a list returns for every list.                           *)
(***************************************************************************)
EXTENDS Integers, SequencesExt, FiniteSetTheorems, SequenceTheorems, TLAPS

-----------------------------------------------------------------------------
(* Induction up to a number, for the members of a set: numbers that are    *)
(* not in it would be as many as their predecessors, one of which is in it.*)
LEMMA SetInduction ==
  ASSUME NEW Z, 0 \in Z, NEW n \in Nat, \A k \in 0..(n - 1) : k \in Z => k + 1 \in Z
  PROVE  n \in Z
  <1> SUFFICES ASSUME n \notin Z PROVE FALSE
    OBVIOUS
  <1> DEFINE U == {k \in 0..n : k \in Z}
             T == U \ {0}
             f == [k \in U |-> k + 1]
  <1>1. 0 \in U /\ U \subseteq 0..n
    OBVIOUS
  <1>2. f \in [U -> T]
    <2> SUFFICES ASSUME NEW k \in U PROVE k + 1 \in T
      OBVIOUS
    <2>1. k \in 0..(n - 1) /\ k \in Z
      OBVIOUS
    <2> QED
      BY <2>1
  <1>3. \A x, y \in U : f[x] = f[y] => x = y
    OBVIOUS
  <1> HIDE DEF U, f
  <1>4. IsFiniteSet(U)
    <2>1. IsFiniteSet(0..n)
      BY FS_Interval
    <2> QED
      BY <1>1, <2>1, FS_Subset
  <1>5. IsFiniteSet(T) /\ Cardinality(T) = Cardinality(U) - 1
    BY <1>1, <1>4, FS_RemoveElement
  <1> HIDE DEF T
  <1>6. Cardinality(U) \in Nat
    BY <1>4, FS_CardinalityType
  <1>7. Cardinality(T) < Cardinality(U)
    BY <1>5, <1>6
  <1>8. \E x, y \in U : x # y /\ f[x] = f[y]
    BY <1>2, <1>4, <1>5, <1>7, FS_PigeonHole
  <1> QED
    BY <1>3, <1>8

(* Numbers with a property have a least one. *)
LEMMA LeastExists ==
  ASSUME NEW P, P \subseteq Nat, NEW n \in P
  PROVE  \E m \in P : \A k \in P : m <= k
  <1> SUFFICES ASSUME \A m \in P : \E k \in P : k < m PROVE FALSE
    OBVIOUS
  <1> DEFINE Z == {m \in Nat : \A k \in 0..m : k \notin P}
  <1>1. 0 \in Z
    <2>1. 0 \notin P
      OBVIOUS
    <2> QED
      BY <2>1
  <1>2. ASSUME NEW m \in 0..(n - 1), m \in Z PROVE m + 1 \in Z
    <2>1. m + 1 \notin P
      BY <1>2
    <2>2. \A k \in 0..(m + 1) : k \in 0..m \/ k = m + 1
      OBVIOUS
    <2> QED
      BY <1>2, <2>1, <2>2
  <1>3. n \in Nat
    OBVIOUS
  <1>4. n \in Z
    <2> HIDE DEF Z
    <2> QED
      BY <1>1, <1>2, <1>3, SetInduction
  <1> QED
    BY <1>3, <1>4

(* Values that are computed one from the other. *)
Computes(f, n, first, Step) == f[0] = first /\ \A i \in 1..n : f[i] = Step[i][f[i - 1]]

LEMMA RecursionExists ==
  ASSUME NEW X, NEW first \in X, NEW n \in Nat, NEW Step \in [1..n -> [X -> X]]
  PROVE  \E f \in [0..n -> X] : Computes(f, n, first, Step)
  <1> USE DEF Computes
  <1> DEFINE Good(k) == \E f \in [0..k -> X] :
                          f[0] = first /\ \A i \in 1..k : f[i] = Step[i][f[i - 1]]
             Z == {k \in 0..n : Good(k)}
  <1>1. 0 \in Z
    <2> DEFINE f == [i \in 0..0 |-> first]
    <2>1. f \in [0..0 -> X] /\ f[0] = first /\ \A i \in 1..0 : f[i] = Step[i][f[i - 1]]
      OBVIOUS
    <2>2. Good(0)
      <3> HIDE DEF f
      <3> QED
        BY <2>1
    <2> HIDE DEF Good
    <2> QED
      BY <2>2
  <1>2. ASSUME NEW k \in 0..(n - 1), k \in Z PROVE k + 1 \in Z
    <2>1. PICK f \in [0..k -> X] : f[0] = first /\ \A i \in 1..k : f[i] = Step[i][f[i - 1]]
      BY <1>2
    <2> DEFINE g == [i \in 0..(k + 1) |-> IF i = k + 1 THEN Step[k + 1][f[k]] ELSE f[i]]
    <2>2. k \in 0..k /\ f[k] \in X /\ k + 1 \in 1..n
      OBVIOUS
    <2>3. Step[k + 1][f[k]] \in X
      BY <2>2
    <2>4. g \in [0..(k + 1) -> X]
      BY <2>3
    <2>5. g[0] = first
      BY <2>1
    <2>6. ASSUME NEW i \in 1..(k + 1) PROVE g[i] = Step[i][g[i - 1]]
      <3>1. i - 1 \in 0..k /\ i - 1 # k + 1 /\ g[i - 1] = f[i - 1]
        OBVIOUS
      <3>2. CASE i = k + 1
        <4>1. g[k + 1] = Step[k + 1][f[k]] /\ g[k] = f[k]
          OBVIOUS
        <4>2. k + 1 - 1 = k
          OBVIOUS
        <4> HIDE DEF g
        <4> QED
          BY <3>2, <4>1, <4>2
      <3>3. CASE i \in 1..k
        <4>1. g[i] = f[i] /\ f[i] = Step[i][f[i - 1]]
          BY <2>1, <3>3
        <4> HIDE DEF g
        <4> QED
          BY <3>1, <4>1
      <3> QED
        BY <3>2, <3>3
    <2>7. Good(k + 1)
      <3> HIDE DEF g
      <3> QED
        BY <2>4, <2>5, <2>6
    <2>8. k + 1 \in 0..n
      OBVIOUS
    <2> HIDE DEF Good
    <2> QED
      BY <2>7, <2>8
  <1> HIDE DEF Good
  <1>3. n \in Z
    <2> HIDE DEF Z
    <2> QED
      BY <1>1, <1>2, SetInduction
  <1> QED
    BY <1>3 DEF Good

-----------------------------------------------------------------------------
(* A sequence, of whatever it holds. *)
IsSequence(s) == s \in Seq({s[i] : i \in DOMAIN s})

LEMMA ListIsSequence ==
  ASSUME NEW S, NEW s \in Seq(S)
  PROVE  IsSequence(s)
  <1>1. Len(s) \in Nat /\ DOMAIN s = 1..Len(s) /\ s \in [1..Len(s) -> S]
    BY LenProperties
  <1>2. s \in [1..Len(s) -> {s[i] : i \in DOMAIN s}]
    BY <1>1
  <1> QED
    BY <1>1, <1>2, SeqDef DEF IsSequence

LEMMA AppendToSequence ==
  ASSUME NEW s, IsSequence(s), NEW e
  PROVE  /\ IsSequence(Append(s, e)) /\ Len(s) \in Nat
         /\ Len(Append(s, e)) = Len(s) + 1 /\ Append(s, e)[Len(s) + 1] = e
         /\ \A i \in 1..Len(s) : Append(s, e)[i] = s[i]
  <1> DEFINE S == {s[i] : i \in DOMAIN s}
             T == S \cup {e}
             t == Append(s, e)
  <1>1. s \in Seq(S)
    BY DEF IsSequence
  <1>2. \A i \in DOMAIN s : s[i] \in S
    OBVIOUS
  <1> HIDE DEF S
  <1>3. s \in Seq(T) /\ e \in T /\ Len(s) \in Nat
    BY <1>1, <1>2
  <1>4. /\ t \in Seq(T) /\ Len(t) = Len(s) + 1 /\ t[Len(s) + 1] = e
        /\ \A i \in 1..Len(s) : t[i] = s[i]
    <2> HIDE DEF T
    <2> QED
      BY <1>3, AppendProperties
  <1> HIDE DEF t
  <1>5. IsSequence(t)
    <2>1. Len(t) \in Nat /\ DOMAIN t = 1..Len(t)
      BY <1>4
    <2>2. t \in [1..Len(t) -> {t[i] : i \in DOMAIN t}]
      BY <1>4, <2>1
    <2> QED
      BY <2>1, <2>2, SeqDef DEF IsSequence
  <1> QED
    BY <1>3, <1>4, <1>5 DEF t

(* A list of elements of a set is one of a greater set.                    *)
LEMMA ListOfMore ==
  ASSUME NEW S, NEW T, S \subseteq T, NEW s \in Seq(S)
  PROVE  s \in Seq(T)
  OBVIOUS

(* The elements of a joined list are those of its two parts.               *)
LEMMA ToSetConcat ==
  ASSUME NEW S, NEW s \in Seq(S), NEW t \in Seq(S)
  PROVE  s \o t \in Seq(S) /\ ToSet(s \o t) = ToSet(s) \cup ToSet(t)
  <1>1. s \o t \in Seq(S) /\ Range(s \o t) = Range(s) \cup Range(t)
    BY ConcatProperties, RangeConcatenation
  <1>2. \A z : Range(z) = ToSet(z)
    BY DEF Range, ToSet
  <1> QED
    BY <1>1, <1>2

(* A list that is worked off from its head, and one that grows at its end. *)
LEMMA PopFacts ==
  ASSUME NEW S, NEW s \in Seq(S), s # << >>
  PROVE  /\ Head(s) \in S /\ Tail(s) \in Seq(S)
         /\ ToSet(s) = {Head(s)} \cup ToSet(Tail(s))
  <1>1. Head(s) \in S /\ Tail(s) \in Seq(S)
    BY HeadTailProperties
  <1>2. Head(s) = s[1] /\ Len(s) \in Nat \ {0} /\ Len(Tail(s)) = Len(s) - 1
        /\ \A i \in 1..Len(Tail(s)) : Tail(s)[i] = s[i + 1]
    BY HeadTailProperties
  <1>3. DOMAIN s = 1..Len(s) /\ DOMAIN Tail(s) = 1..Len(Tail(s))
    BY <1>1
  <1>4. ASSUME NEW x \in ToSet(s) PROVE x \in {Head(s)} \cup ToSet(Tail(s))
    <2>1. PICK i \in 1..Len(s) : x = s[i]
      BY <1>3 DEF ToSet
    <2>2. CASE i # 1
      <3>1. PICK j \in 1..Len(Tail(s)) : j = i - 1
        BY <1>2, <2>2
      <3>2. Tail(s)[j] = x
        BY <1>2, <2>1, <3>1
      <3> QED
        BY <1>3, <3>2 DEF ToSet
    <2> QED
      BY <1>2, <2>1, <2>2
  <1>5. ASSUME NEW x \in ToSet(Tail(s)) PROVE x \in ToSet(s)
    <2>1. PICK i \in 1..Len(Tail(s)) : x = Tail(s)[i]
      BY <1>3 DEF ToSet
    <2>2. i + 1 \in 1..Len(s) /\ s[i + 1] = x
      BY <1>2, <2>1
    <2> QED
      BY <1>3, <2>2 DEF ToSet
  <1>6. Head(s) \in ToSet(s)
    BY <1>2, <1>3 DEF ToSet
  <1> QED
    BY <1>1, <1>4, <1>5, <1>6

LEMMA AppendFacts ==
  ASSUME NEW S, NEW s \in Seq(S), NEW e \in S
  PROVE  Append(s, e) \in Seq(S) /\ ToSet(Append(s, e)) = ToSet(s) \cup {e}
  <1> DEFINE t == Append(s, e)
             n == Len(s)
  <1>1. /\ t \in Seq(S) /\ Len(t) = n + 1 /\ n \in Nat /\ t[n + 1] = e
        /\ \A i \in 1..n : t[i] = s[i]
    BY AppendProperties
  <1>2. DOMAIN s = 1..n
    OBVIOUS
  <1> HIDE DEF t, n
  <1>3. DOMAIN t = 1..(n + 1)
    BY <1>1
  <1>4. ToSet(t) = {t[i] : i \in 1..(n + 1)} /\ ToSet(s) = {s[i] : i \in 1..n}
    BY <1>2, <1>3 DEF ToSet
  <1>5. 1..(n + 1) = 1..n \cup {n + 1}
    BY <1>1
  <1>6. ToSet(t) = ToSet(s) \cup {e}
    BY <1>1, <1>4, <1>5
  <1> QED
    BY <1>1, <1>6 DEF t

(* The recursion behind FlattenSeq. *)
Joins(s, f) == f = [i \in 1..Len(s) |-> IF i = 1 THEN s[i] ELSE f[i - 1] \o s[i]]

LEMMA JoinsExists ==
  ASSUME NEW S, NEW s \in Seq(Seq(S))
  PROVE  \E f : Joins(s, f)
  <1> DEFINE n == Len(s)
             Step == [i \in 1..n |-> [t \in Seq(S) |-> t \o s[i]]]
  <1>1. n \in Nat /\ \A i \in 1..n : s[i] \in Seq(S)
    BY LenProperties
  <1>2. Step \in [1..n -> [Seq(S) -> Seq(S)]]
    <2> SUFFICES ASSUME NEW i \in 1..n, NEW t \in Seq(S) PROVE t \o s[i] \in Seq(S)
      OBVIOUS
    <2> QED
      BY <1>1, ConcatProperties
  <1>3. << >> \in Seq(S)
    OBVIOUS
  <1>4. PICK f \in [0..n -> Seq(S)] : f[0] = << >> /\ \A i \in 1..n : f[i] = Step[i][f[i - 1]]
    <2> DEFINE X == Seq(S)
               e == << >>
    <2>1. n \in Nat /\ e \in X /\ Step \in [1..n -> [X -> X]]
      BY <1>1, <1>2, <1>3
    <2> HIDE DEF n, Step, X, e
    <2>2. \E f \in [0..n -> X] : Computes(f, n, e, Step)
      BY <2>1, RecursionExists
    <2> QED
      BY <2>2 DEF X, e, Computes
  <1> DEFINE g == [i \in 1..n |-> f[i]]
  <1>5. ASSUME NEW i \in 1..n PROVE g[i] = IF i = 1 THEN s[i] ELSE g[i - 1] \o s[i]
    <2>1. i - 1 \in 0..n /\ f[i - 1] \in Seq(S) /\ s[i] \in Seq(S)
      <3>1. i \in 1..n /\ i - 1 \in 0..n
        BY <1>1
      <3> HIDE DEF n
      <3> QED
        BY <1>1, <3>1
    <2>2. f[i] = f[i - 1] \o s[i]
      BY <1>4, <2>1
    <2>3. CASE i = 1
      <3>1. f[i] = << >> \o s[i]
        <4>1. f[i - 1] = << >>
          BY <1>4, <2>3
        <4> QED
          BY <2>2, <4>1
      <3> QED
        BY <2>1, <2>3, <3>1, ConcatEmptySeq
    <2>4. CASE i # 1
      <3>1. i - 1 \in 1..n
        BY <1>1, <2>4
      <3> QED
        BY <2>2, <2>4, <3>1
    <2> QED
      BY <2>3, <2>4
  <1>6. g = [i \in 1..n |-> IF i = 1 THEN s[i] ELSE g[i - 1] \o s[i]]
    <2>1. g = [i \in 1..n |-> g[i]]
      OBVIOUS
    <2> HIDE DEF g
    <2> QED
      BY <1>5, <2>1
  <1>7. Joins(s, g)
    <2> HIDE DEF g
    <2> QED
      BY <1>6 DEF Joins
  <1> QED
    BY <1>7

LEMMA FlattenSteps ==
  ASSUME NEW S, NEW s \in Seq(Seq(S)), s # << >>
  PROVE  \E f : /\ FlattenSeq(s) = f[Len(s)]
                /\ \A i \in 1..Len(s) : f[i] = IF i = 1 THEN s[i] ELSE f[i - 1] \o s[i]
  <1> DEFINE f == CHOOSE f : Joins(s, f)
  <1>1. Joins(s, f)
    BY JoinsExists
  <1>2. FlattenSeq(s) = f[Len(s)]
    <2>1. Len(s) # 0
      BY EmptySeq, LenProperties
    <2> QED
      BY <2>1 DEF FlattenSeq, Joins
  <1>3. \A i \in 1..Len(s) : f[i] = IF i = 1 THEN s[i] ELSE f[i - 1] \o s[i]
    <2> HIDE DEF f
    <2> QED
      BY <1>1 DEF Joins
  <1> HIDE DEF f
  <1> QED
    BY <1>2, <1>3

(* Joining lists gives a list of all their elements. *)
LEMMA FlattenFacts ==
  ASSUME NEW S, NEW s \in Seq(Seq(S))
  PROVE  /\ FlattenSeq(s) \in Seq(S)
         /\ ToSet(FlattenSeq(s)) = UNION {ToSet(s[i]) : i \in DOMAIN s}
  <1>1. Len(s) \in Nat /\ DOMAIN s = 1..Len(s) /\ \A i \in 1..Len(s) : s[i] \in Seq(S)
    BY LenProperties
  <1>2. CASE Len(s) = 0
    <2>1. s = << >>
      BY <1>2
    <2>2. FlattenSeq(s) = << >>
      BY <1>2, <2>1 DEF FlattenSeq
    <2>3. DOMAIN << >> = {} /\ << >> \in Seq(S) /\ ToSet(<< >>) = {}
      BY DEF ToSet
    <2> QED
      BY <2>1, <2>2, <2>3
  <1>3. CASE Len(s) # 0
    <2> DEFINE n == Len(s)
    <2>1. s # << >>
      BY <1>3
    <2>2. PICK f : /\ FlattenSeq(s) = f[n]
                   /\ \A i \in 1..n : f[i] = IF i = 1 THEN s[i] ELSE f[i - 1] \o s[i]
      BY <2>1, FlattenSteps
    <2>3. ASSUME NEW i \in 1..n PROVE f[i] = IF i = 1 THEN s[i] ELSE f[i - 1] \o s[i]
      BY <2>2
    <2> DEFINE Z == {k \in 0..n : k > 0 => /\ f[k] \in Seq(S)
                                           /\ ToSet(f[k]) = UNION {ToSet(s[i]) : i \in 1..k}}
    <2>4. 0 \in Z
      BY <1>1
    <2>5. ASSUME NEW k \in 0..(n - 1), k \in Z PROVE k + 1 \in Z
      <3>1. k + 1 \in 1..n /\ s[k + 1] \in Seq(S) /\ k \in Nat
        BY <1>1
      <3>2. f[k + 1] = IF k = 0 THEN s[k + 1] ELSE f[k] \o s[k + 1]
        BY <2>3, <3>1
      <3>3. /\ f[k + 1] \in Seq(S)
            /\ ToSet(f[k + 1]) = UNION {ToSet(s[i]) : i \in 1..(k + 1)}
        <4>1. CASE k = 0
          BY <3>1, <3>2, <4>1
        <4>2. CASE k # 0
          <5>1. f[k] \in Seq(S) /\ ToSet(f[k]) = UNION {ToSet(s[i]) : i \in 1..k}
            BY <2>5, <4>2
          <5>2. f[k + 1] \in Seq(S) /\ ToSet(f[k + 1]) = ToSet(f[k]) \cup ToSet(s[k + 1])
            BY <3>1, <3>2, <4>2, <5>1, ToSetConcat
          <5>3. 1..(k + 1) = 1..k \cup {k + 1}
            BY <3>1
          <5> QED
            BY <5>1, <5>2, <5>3
        <4> QED
          BY <4>1, <4>2
      <3> QED
        BY <3>1, <3>3
    <2>6. n \in Z
      <3> HIDE DEF Z
      <3> QED
        BY <1>1, <2>4, <2>5, SetInduction
    <2>7. f[n] \in Seq(S) /\ ToSet(f[n]) = UNION {ToSet(s[i]) : i \in 1..n}
      BY <1>1, <1>3, <2>6
    <2> QED
      BY <1>1, <2>2, <2>7, Zenon
  <1> QED
    BY <1>2, <1>3


(* An empty list in front adds nothing, and no list is longer than its     *)
(* parts are together.                                                     *)
LEMMA FlattenTail ==
  ASSUME NEW S, NEW s \in Seq(Seq(S)), NEW t \in Seq(Seq(S)), t # << >>,
         Len(s) = Len(t) + 1, s[1] = << >>, \A k \in 1..Len(t) : s[k + 1] = t[k]
  PROVE  FlattenSeq(s) = FlattenSeq(t)
  <1> DEFINE n == Len(t)
  <1>1. n \in Nat \ {0} /\ (\A k \in 1..n : t[k] \in Seq(S)) /\ s # << >>
    BY EmptySeq, LenProperties
  <1>2. PICK f : /\ FlattenSeq(s) = f[n + 1]
                 /\ \A i \in 1..(n + 1) : f[i] = IF i = 1 THEN s[i] ELSE f[i - 1] \o s[i]
    <2>1. PICK f : /\ FlattenSeq(s) = f[Len(s)]
                   /\ \A i \in 1..Len(s) : f[i] = IF i = 1 THEN s[i] ELSE f[i - 1] \o s[i]
      BY <1>1, FlattenSteps
    <2>2. Len(s) = n + 1
      OBVIOUS
    <2> QED
      BY <2>1, <2>2
  <1>3. PICK g : /\ FlattenSeq(t) = g[n]
                 /\ \A i \in 1..n : g[i] = IF i = 1 THEN t[i] ELSE g[i - 1] \o t[i]
    BY FlattenSteps
  <1> HIDE DEF n
  <1> DEFINE Z == {k \in 0..n : k > 0 => f[k + 1] = g[k]}
  <1>4. 0 \in Z
    BY <1>1
  <1>5. ASSUME NEW k \in 0..(n - 1), k \in Z PROVE k + 1 \in Z
    <2>1. PICK m \in 1..n : m = k + 1
      BY <1>1
    <2>2. m + 1 \in 1..(n + 1) /\ m + 1 # 1 /\ (m + 1) - 1 = m /\ s[m + 1] = t[m]
      BY <1>1 DEF n
    <2>3. f[m + 1] = f[m] \o t[m]
      BY <1>2, <2>2
    <2>4. f[m + 1] = g[m]
      <3>1. CASE m = 1
        <4>1. f[m] = << >> /\ g[m] = t[m] /\ t[m] \in Seq(S)
          BY <1>1, <1>2, <1>3, <3>1
        <4> QED
          BY <2>3, <4>1, ConcatEmptySeq
      <3>2. CASE m # 1
        <4>1. k > 0 /\ f[k + 1] = g[k]
          BY <1>5, <2>1, <3>2
        <4>2. g[m] = g[k] \o t[m]
          <5>1. m - 1 = k
            BY <2>1
          <5>2. g[m] = g[m - 1] \o t[m]
            BY <1>3, <3>2
          <5> QED
            BY <5>1, <5>2
        <4> QED
          BY <2>1, <2>3, <4>1, <4>2
      <3> QED
        BY <3>1, <3>2
    <2> QED
      BY <2>1, <2>4
  <1>6. n \in Z
    <2> HIDE DEF Z
    <2> QED
      BY <1>1, <1>4, <1>5, SetInduction
  <1> QED
    BY <1>1, <1>2, <1>3, <1>6

(* One list more is joined behind all the others. *)
LEMMA FlattenAppend ==
  ASSUME NEW S, NEW s \in Seq(Seq(S)), NEW t \in Seq(S)
  PROVE  FlattenSeq(Append(s, t)) = FlattenSeq(s) \o t
  <1> DEFINE n == Len(s)
             more == Append(s, t)
  <1>1. /\ n \in Nat /\ more \in Seq(Seq(S)) /\ Len(more) = n + 1 /\ more[n + 1] = t
        /\ \A i \in 1..n : more[i] = s[i]
    BY AppendProperties, LenProperties
  <1> HIDE DEF more
  <1>2. more # << >>
    BY <1>1, EmptySeq
  <1>3. PICK f : /\ FlattenSeq(more) = f[n + 1]
                 /\ \A i \in 1..(n + 1) : f[i] = IF i = 1 THEN more[i] ELSE f[i - 1] \o more[i]
    <2>1. PICK f : /\ FlattenSeq(more) = f[Len(more)]
                   /\ \A i \in 1..Len(more) : f[i] = IF i = 1 THEN more[i] ELSE f[i - 1] \o more[i]
      BY <1>1, <1>2, FlattenSteps
    <2> QED
      BY <1>1, <2>1
  <1>4. CASE n = 0
    <2>1. s = << >> /\ FlattenSeq(s) = << >>
      BY <1>4 DEF FlattenSeq
    <2>2. f[1] = t
      BY <1>1, <1>3, <1>4
    <2> QED
      BY <1>3, <1>4, <2>1, <2>2, ConcatEmptySeq DEF more
  <1>5. CASE n # 0
    <2>1. s # << >>
      BY <1>5
    <2>2. PICK g : /\ FlattenSeq(s) = g[n]
                   /\ \A i \in 1..n : g[i] = IF i = 1 THEN s[i] ELSE g[i - 1] \o s[i]
      BY <2>1, FlattenSteps
    <2> HIDE DEF n
    <2> DEFINE Z == {k \in 0..n : k > 0 => f[k] = g[k]}
    <2>3. 0 \in Z
      BY <1>1
    <2>4. ASSUME NEW k \in 0..(n - 1), k \in Z PROVE k + 1 \in Z
      <3>1. PICK m \in 1..n : m = k + 1
        BY <1>1
      <3>2. m \in 1..(n + 1) /\ more[m] = s[m] /\ m - 1 = k
        BY <1>1, <3>1
      <3>3. f[m] = g[m]
        BY <1>3, <2>2, <2>4, <3>1, <3>2
      <3> QED
        BY <3>1, <3>3
    <2>5. n \in Z
      <3> HIDE DEF Z
      <3> QED
        BY <1>1, <2>3, <2>4, SetInduction
    <2>6. f[n] = g[n] /\ n + 1 \in 1..(n + 1) /\ n + 1 # 1 /\ (n + 1) - 1 = n
      BY <1>1, <1>5, <2>5
    <2>7. f[n + 1] = f[n] \o t
      BY <1>1, <1>3, <2>6
    <2> QED
      BY <1>3, <2>2, <2>6, <2>7 DEF more
  <1> QED
    BY <1>4, <1>5

LEMMA FlattenBound ==
  ASSUME NEW S, NEW s \in Seq(Seq(S)), s # << >>, NEW b \in Nat,
         \A k \in 1..Len(s) : Len(s[k]) <= b
  PROVE  FlattenSeq(s) \in Seq(S) /\ Len(FlattenSeq(s)) <= Len(s) * b
  <1> DEFINE n == Len(s)
  <1>1. n \in Nat \ {0} /\ \A k \in 1..n : s[k] \in Seq(S) /\ Len(s[k]) \in Nat
    BY EmptySeq, LenProperties
  <1>2. PICK f : /\ FlattenSeq(s) = f[n]
                 /\ \A i \in 1..n : f[i] = IF i = 1 THEN s[i] ELSE f[i - 1] \o s[i]
    BY FlattenSteps
  <1> HIDE DEF n
  <1> DEFINE Z == {k \in 0..n : k > 0 => f[k] \in Seq(S) /\ Len(f[k]) <= k * b}
  <1>3. 0 \in Z
    BY <1>1
  <1>4. ASSUME NEW k \in 0..(n - 1), k \in Z PROVE k + 1 \in Z
    <2>1. PICK m \in 1..n : m = k + 1
      BY <1>1
    <2>2. s[m] \in Seq(S) /\ Len(s[m]) \in Nat /\ Len(s[m]) <= b
      BY <1>1 DEF n
    <2>3. f[m] \in Seq(S) /\ Len(f[m]) <= m * b
      <3>1. CASE m = 1
        BY <1>2, <2>2, <3>1
      <3>2. CASE m # 1
        <4>1. k > 0 /\ f[k] \in Seq(S) /\ Len(f[k]) <= k * b /\ f[m] = f[k] \o s[m]
          <5>1. m - 1 = k /\ k > 0
            BY <2>1, <3>2
          <5>2. f[m] = f[m - 1] \o s[m]
            BY <1>2, <3>2
          <5>3. f[k] \in Seq(S) /\ Len(f[k]) <= k * b
            BY <1>4, <5>1
          <5> QED
            BY <5>1, <5>2, <5>3
        <4>2. f[m] \in Seq(S) /\ Len(f[m]) = Len(f[k]) + Len(s[m]) /\ Len(f[k]) \in Nat
          BY <2>2, <4>1, ConcatProperties, LenProperties
        <4>3. PICK x \in Nat, y \in Nat : x = Len(f[k]) /\ y = Len(s[m])
          BY <2>2, <4>2
        <4>4. PICK z \in Nat : z = k * b
          OBVIOUS
        <4>5. z + b = m * b
          BY <2>1, <4>4
        <4>6. x <= z /\ y <= b
          BY <2>2, <4>1, <4>3, <4>4
        <4>7. Len(f[m]) = x + y
          BY <4>2, <4>3
        <4>8. x + y <= z + b
          BY <4>6
        <4> QED
          BY <4>2, <4>5, <4>7, <4>8
      <3> QED
        BY <3>1, <3>2
    <2> QED
      BY <2>1, <2>3
  <1>5. n \in Z
    <2> HIDE DEF Z
    <2> QED
      BY <1>1, <1>3, <1>4, SetInduction
  <1> QED
    BY <1>1, <1>2, <1>5 DEF n

-----------------------------------------------------------------------------
(* Lists appended one behind the other in a loop: what is joined after     *)
(* each turn.                                                              *)
IsJoined(joined, n, lists) ==
  joined = [k \in 0..n |-> IF k = 0 THEN << >> ELSE joined[k - 1] \o lists[k]]

LEMMA JoinedExists ==
  ASSUME NEW S, NEW n \in Nat, NEW lists \in [1..n -> Seq(S)]
  PROVE  \E joined : IsJoined(joined, n, lists)
  <1> DEFINE X == Seq(S)
             e == << >>
             Step == [i \in 1..n |-> [t \in X |-> t \o lists[i]]]
  <1>1. Step \in [1..n -> [X -> X]]
    <2> SUFFICES ASSUME NEW i \in 1..n, NEW t \in Seq(S) PROVE t \o lists[i] \in Seq(S)
      OBVIOUS
    <2> QED
      BY ConcatProperties
  <1>2. ASSUME NEW i \in 1..n, NEW t \in X PROVE Step[i][t] = t \o lists[i]
    OBVIOUS
  <1>3. e \in X
    OBVIOUS
  <1> HIDE DEF X, Step, e
  <1>4. PICK f \in [0..n -> X] : Computes(f, n, e, Step)
    BY <1>1, <1>3, RecursionExists
  <1>5. ASSUME NEW k \in 0..n PROVE f[k] = IF k = 0 THEN << >> ELSE f[k - 1] \o lists[k]
    <2>1. CASE k = 0
      BY <1>4, <2>1 DEF Computes, e
    <2>2. CASE k # 0
      <3>1. k \in 1..n /\ k - 1 \in 0..n
        BY <2>2
      <3>2. f[k] = Step[k][f[k - 1]] /\ f[k - 1] \in X
        BY <1>4, <3>1 DEF Computes
      <3> QED
        BY <1>2, <2>2, <3>1, <3>2
    <2> QED
      BY <2>1, <2>2
  <1>6. f = [k \in 0..n |-> IF k = 0 THEN << >> ELSE f[k - 1] \o lists[k]]
    BY <1>5
  <1> QED
    BY <1>6 DEF IsJoined

LEMMA JoinedFacts ==
  ASSUME NEW S, NEW n \in Nat, NEW lists \in [1..n -> Seq(S)], NEW joined, IsJoined(joined, n, lists)
  PROVE  joined[n] \in Seq(S) /\ ToSet(joined[n]) = UNION {ToSet(lists[i]) : i \in 1..n}
  <1> DEFINE Good(k) == joined[k] \in Seq(S) /\ ToSet(joined[k]) = UNION {ToSet(lists[i]) : i \in 1..k}
             Z == {k \in 0..n : Good(k)}
  <1>1. ASSUME NEW k \in 0..n PROVE joined[k] = IF k = 0 THEN << >> ELSE joined[k - 1] \o lists[k]
    BY DEF IsJoined
  <1>2. 0 \in Z
    <2>1. joined[0] = << >>
      BY <1>1
    <2>2. << >> \in Seq(S) /\ ToSet(<< >>) = {}
      BY DEF ToSet
    <2>3. Good(0)
      BY <2>1, <2>2
    <2> HIDE DEF Good
    <2> QED
      BY <2>3
  <1>3. ASSUME NEW k \in 0..(n - 1), k \in Z PROVE k + 1 \in Z
    <2>1. k + 1 \in 1..n /\ k + 1 \in 0..n /\ k + 1 # 0 /\ lists[k + 1] \in Seq(S)
      OBVIOUS
    <2>2. joined[k + 1] = joined[k] \o lists[k + 1]
      <3>1. PICK m \in 1..n : m = k + 1
        OBVIOUS
      <3>2. m \in 0..n /\ m # 0 /\ m - 1 = k
        BY <3>1
      <3>3. joined[m] = joined[m - 1] \o lists[m]
        BY <1>1, <3>2
      <3> QED
        BY <3>1, <3>2, <3>3
    <2>3. joined[k] \in Seq(S) /\ ToSet(joined[k]) = UNION {ToSet(lists[i]) : i \in 1..k}
      BY <1>3
    <2>4. joined[k + 1] \in Seq(S) /\ ToSet(joined[k + 1]) = ToSet(joined[k]) \cup ToSet(lists[k + 1])
      BY <2>1, <2>2, <2>3, ToSetConcat
    <2>5. 1..(k + 1) = 1..k \cup {k + 1}
      OBVIOUS
    <2>6. ToSet(joined[k + 1]) = UNION {ToSet(lists[i]) : i \in 1..(k + 1)}
      BY <2>3, <2>4, <2>5
    <2> QED
      BY <2>1, <2>4, <2>6
  <1>4. n \in Z
    <2> HIDE DEF Z
    <2> QED
      BY <1>2, <1>3, SetInduction
  <1> QED
    BY <1>4

-----------------------------------------------------------------------------
(* A strict order of the places of a list gives every place a rank of its  *)
(* own: Below[j] are the places before j.                                  *)
LEMMA RanksDiffer ==
  ASSUME NEW n \in Nat, NEW Below \in [1..n -> SUBSET (1..n)],
         \A i \in 1..n : i \notin Below[i],
         \A i, j \in 1..n : i # j => i \in Below[j] \/ j \in Below[i],
         \A i, j, k \in 1..n : i \in Below[j] /\ j \in Below[k] => i \in Below[k]
  PROVE  /\ \A j \in 1..n : 1 + Cardinality(Below[j]) \in 1..n
         /\ \A i, j \in 1..n : i # j => 1 + Cardinality(Below[i]) # 1 + Cardinality(Below[j])
  <1> DEFINE D == 1..n
  <1>1. IsFiniteSet(D) /\ Cardinality(D) = n
    BY FS_Interval
  <1>2. ASSUME NEW j \in D PROVE IsFiniteSet(Below[j]) /\ Cardinality(Below[j]) \in Nat
                                 /\ Cardinality(Below[j]) <= n - 1
    <2>1. Below[j] \subseteq D \ {j}
      OBVIOUS
    <2>2. IsFiniteSet(D \ {j}) /\ Cardinality(D \ {j}) = n - 1
      BY <1>1, FS_RemoveElement
    <2>3. IsFiniteSet(Below[j]) /\ Cardinality(Below[j]) <= Cardinality(D \ {j})
      BY <2>1, <2>2, FS_Subset
    <2> QED
      BY <2>2, <2>3, FS_CardinalityType
  <1>3. ASSUME NEW i \in D, NEW j \in D, i \in Below[j]
        PROVE  Cardinality(Below[i]) < Cardinality(Below[j])
    <2>1. Below[i] \subseteq Below[j] \ {i}
      BY <1>3
    <2>2. /\ IsFiniteSet(Below[j] \ {i})
          /\ Cardinality(Below[j] \ {i}) = Cardinality(Below[j]) - 1
      BY <1>2, <1>3, FS_RemoveElement
    <2>3. Cardinality(Below[i]) <= Cardinality(Below[j] \ {i})
      BY <2>1, <2>2, FS_Subset
    <2> QED
      BY <1>2, <2>2, <2>3
  <1>4. ASSUME NEW i \in D, NEW j \in D, i # j
        PROVE  1 + Cardinality(Below[i]) # 1 + Cardinality(Below[j])
    <2>1. PICK a \in Nat, b \in Nat : a = Cardinality(Below[i]) /\ b = Cardinality(Below[j])
      BY <1>2
    <2>2. i \in Below[j] \/ j \in Below[i]
      BY <1>4
    <2>3. a < b \/ b < a
      BY <1>3, <2>1, <2>2
    <2> QED
      BY <2>1, <2>3
  <1>5. ASSUME NEW j \in D PROVE 1 + Cardinality(Below[j]) \in D
    <2>1. PICK c \in Nat : c = Cardinality(Below[j]) /\ c <= n - 1
      BY <1>2
    <2> QED
      BY <2>1
  <1> QED
    BY <1>4, <1>5

(* So every rank is taken.                                                 *)
LEMMA RanksAreTaken ==
  ASSUME NEW n \in Nat, NEW Below \in [1..n -> SUBSET (1..n)],
         \A i \in 1..n : i \notin Below[i],
         \A i, j \in 1..n : i # j => i \in Below[j] \/ j \in Below[i],
         \A i, j, k \in 1..n : i \in Below[j] /\ j \in Below[k] => i \in Below[k],
         NEW k \in 1..n
  PROVE  \E j \in 1..n : 1 + Cardinality(Below[j]) = k
  <1> DEFINE D == 1..n
             rank == [j \in D |-> 1 + Cardinality(Below[j])]
             T == D \ {k}
  <1>1. IsFiniteSet(D) /\ Cardinality(D) = n
    BY FS_Interval
  <1>2. /\ \A j \in 1..n : 1 + Cardinality(Below[j]) \in 1..n
        /\ \A i, j \in 1..n : i # j => 1 + Cardinality(Below[i]) # 1 + Cardinality(Below[j])
    BY RanksDiffer
  <1> SUFFICES ASSUME \A j \in D : rank[j] # k PROVE FALSE
    OBVIOUS
  <1>3. rank \in [D -> T] /\ \A i, j \in D : i # j => rank[i] # rank[j]
    BY <1>2
  <1>4. IsFiniteSet(T) /\ Cardinality(T) = n - 1
    BY <1>1, FS_RemoveElement
  <1> HIDE DEF rank, D, T
  <1>5. \E i, j \in D : i # j /\ rank[i] = rank[j]
    BY <1>1, <1>3, <1>4, FS_PigeonHole
  <1> QED
    BY <1>3, <1>5

(* Sorting a list by such an order puts every place somewhere.             *)
ByRank(n, Below) == [k \in 1..n |-> CHOOSE j \in 1..n : 1 + Cardinality(Below[j]) = k]

LEMMA PlacesAreTaken ==
  ASSUME NEW n \in Nat, NEW Below \in [1..n -> SUBSET (1..n)],
         \A i \in 1..n : i \notin Below[i],
         \A i, j \in 1..n : i # j => i \in Below[j] \/ j \in Below[i],
         \A i, j, k \in 1..n : i \in Below[j] /\ j \in Below[k] => i \in Below[k]
  PROVE  /\ ByRank(n, Below) \in [1..n -> 1..n]
         /\ \A j \in 1..n : j \in {ByRank(n, Below)[k] : k \in 1..n}
  <1> DEFINE rank(j) == 1 + Cardinality(Below[j])
             at == [k \in 1..n |-> CHOOSE j \in 1..n : rank(j) = k]
  <1>1. \A k \in 1..n : \E j \in 1..n : rank(j) = k
    BY RanksAreTaken
  <1>2. /\ \A j \in 1..n : rank(j) \in 1..n
        /\ \A i, j \in 1..n : i # j => rank(i) # rank(j)
    BY RanksDiffer
  <1> HIDE DEF rank
  <1>3. \A k \in 1..n : at[k] \in 1..n /\ rank(at[k]) = k
    BY <1>1
  <1>4. at \in [1..n -> 1..n]
    BY <1>3
  <1>5. ASSUME NEW j \in 1..n PROVE \E k \in 1..n : at[k] = j
    <2> HIDE DEF at
    <2>1. at[rank(j)] = j
      BY <1>2, <1>3
    <2> QED
      BY <1>2, <2>1
  <1> QED
    BY <1>4, <1>5 DEF rank, ByRank

-----------------------------------------------------------------------------
(* What the promise of an investigation sees of a list of entries.         *)
Shown(s) == [i \in DOMAIN s |-> [id |-> s[i].id, parent |-> s[i].parent]]

(* One entry more is one pair more. *)
LEMMA ShownAppend ==
  ASSUME NEW E, NEW s \in Seq(E), NEW e \in E
  PROVE  Shown(Append(s, e)) = Append(Shown(s), [id |-> e.id, parent |-> e.parent])
  <1> DEFINE Pair == {[id |-> x.id, parent |-> x.parent] : x \in E}
             n == Len(s)
             p == [id |-> e.id, parent |-> e.parent]
             t == Append(s, e)
  <1>1. ASSUME NEW z \in Seq(E) PROVE Shown(z) \in Seq(Pair) /\ Len(Shown(z)) = Len(z)
    <2>1. Len(z) \in Nat /\ DOMAIN z = 1..Len(z) /\ \A i \in 1..Len(z) : z[i] \in E
      OBVIOUS
    <2>2. Shown(z) \in [1..Len(z) -> Pair]
      BY <2>1 DEF Shown
    <2> HIDE DEF Pair
    <2>3. Shown(z) \in Seq(Pair)
      BY <2>1, <2>2, SeqDef
    <2> QED
      BY <2>1, <2>2, <2>3, LenProperties
  <1>2. t \in Seq(E) /\ n \in Nat /\ Len(t) = n + 1 /\ t[n + 1] = e /\ \A i \in 1..n : t[i] = s[i]
    OBVIOUS
  <1>3. p \in Pair
    OBVIOUS
  <1>4. Shown(s) \in Seq(Pair) /\ Len(Shown(s)) = n /\ Shown(t) \in Seq(Pair) /\ Len(Shown(t)) = n + 1
    BY <1>1, <1>2
  <1>5. /\ \A i \in 1..(n + 1) : Shown(t)[i] = [id |-> t[i].id, parent |-> t[i].parent]
        /\ \A i \in 1..n : Shown(s)[i] = [id |-> s[i].id, parent |-> s[i].parent]
    BY <1>2 DEF Shown
  <1> HIDE DEF Pair, p, n, t
  <1>6. /\ Append(Shown(s), p) \in Seq(Pair) /\ Len(Append(Shown(s), p)) = n + 1
        /\ Append(Shown(s), p)[n + 1] = p
        /\ \A i \in 1..n : Append(Shown(s), p)[i] = Shown(s)[i]
    BY <1>3, <1>4, AppendProperties
  <1>7. ASSUME NEW i \in 1..(n + 1) PROVE Shown(t)[i] = Append(Shown(s), p)[i]
    <2>1. CASE i = n + 1
      BY <1>2, <1>5, <1>6, <2>1 DEF p
    <2>2. CASE i \in 1..n
      <3>1. Shown(t)[i] = [id |-> s[i].id, parent |-> s[i].parent]
        BY <1>2, <1>5, <2>2
      <3>2. Append(Shown(s), p)[i] = [id |-> s[i].id, parent |-> s[i].parent]
        BY <1>5, <1>6, <2>2
      <3> QED
        BY <3>1, <3>2
    <2>3. n \in Nat
      BY <1>2
    <2>4. i = n + 1 \/ i \in 1..n
      BY <2>3
    <2> QED
      BY <2>1, <2>2, <2>4, Zenon
  <1>8. Shown(t) = Append(Shown(s), p)
    BY <1>4, <1>6, <1>7, SeqEqual
  <1> QED
    BY <1>8 DEF t, p
=============================================================================
