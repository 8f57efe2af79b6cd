------------------------------ MODULE NtfsProofs ------------------------------
(***************************************************************************)
(* Proofs about the NTFS investigation, for volumes with tables and files  *)
(* in any number of pieces: the numbers of a run list, the stream of slots *)
(* that read_runs puts together, and the walk over it.                     *)
(***************************************************************************)
EXTENDS NtfsInvestigation, ListProofs

-----------------------------------------------------------------------------
(* Part 1: sums.                                                           *)

LEMMA SumExists ==
  ASSUME NEW numbers \in Seq(Int)
  PROVE  \E f \in [0..Len(numbers) -> Int] :
           f = [j \in 0..Len(numbers) |-> IF j = 0 THEN 0 ELSE f[j - 1] + numbers[j]]
  <1> DEFINE n == Len(numbers)
             Step == [i \in 1..n |-> [x \in Int |-> x + numbers[i]]]
  <1>1. n \in Nat /\ \A i \in 1..n : numbers[i] \in Int
    BY LenProperties, ElementOfSeq
  <1>2. /\ Step \in [1..n -> [Int -> Int]] /\ 0 \in Int
        /\ \A i \in 1..n, x \in Int : Step[i][x] = x + numbers[i]
    BY <1>1
  <1>3. PICK f \in [0..n -> Int] : Computes(f, n, 0, Step)
    <2> HIDE DEF Step, n
    <2> QED
      BY <1>1, <1>2, RecursionExists
  <1>4. ASSUME NEW j \in 0..n PROVE f[j] = IF j = 0 THEN 0 ELSE f[j - 1] + numbers[j]
    <2>1. CASE j = 0
      BY <1>3, <2>1 DEF Computes
    <2>2. CASE j # 0
      <3>1. j \in 1..n /\ f[j - 1] \in Int
        BY <1>1, <2>2
      <3> HIDE DEF Step
      <3> QED
        BY <1>2, <1>3, <2>2, <3>1 DEF Computes
    <2> QED
      BY <2>1, <2>2
  <1> QED
    BY <1>3, <1>4

(* The recursion that SumUpTo stands for. *)
LEMMA SumFacts ==
  ASSUME NEW numbers \in Seq(Int)
  PROVE  /\ SumUpTo(numbers, 0) = 0
         /\ \A i \in 1..Len(numbers) :
              SumUpTo(numbers, i) = SumUpTo(numbers, i - 1) + numbers[i]
         /\ \A i \in 0..Len(numbers) : SumUpTo(numbers, i) \in Int
  <1> DEFINE n == Len(numbers)
             Sums(f) == f = [j \in 0..n |-> IF j = 0 THEN 0 ELSE f[j - 1] + numbers[j]]
             f == CHOOSE g : Sums(g)
  <1>1. n \in Nat
    BY LenProperties
  <1>2. PICK g \in [0..n -> Int] : Sums(g)
    BY SumExists
  <1>3. Sums(f)
    <2> HIDE DEF Sums
    <2> QED
      BY <1>2
  <1>4. ASSUME NEW j \in 0..n PROVE f[j] = IF j = 0 THEN 0 ELSE f[j - 1] + numbers[j]
    <2> HIDE DEF f
    <2> QED
      BY <1>3
  <1>5. \A i : SumUpTo(numbers, i) = f[i]
    BY DEF SumUpTo
  <1> HIDE DEF f
  <1>6. f[0] = 0 /\ \A i \in 1..n : f[i] = f[i - 1] + numbers[i]
    BY <1>1, <1>4
  <1> DEFINE Z == {k \in 0..n : f[k] \in Int}
  <1>7. 0 \in Z
    BY <1>1, <1>6
  <1>8. ASSUME NEW k \in 0..(n - 1), k \in Z PROVE k + 1 \in Z
    <2>1. PICK m \in 1..n : m = k + 1
      BY <1>1
    <2>2. numbers[m] \in Int /\ m - 1 = k
      BY <2>1, ElementOfSeq
    <2> QED
      BY <1>6, <1>8, <2>1, <2>2
  <1>9. ASSUME NEW m \in 0..n PROVE m \in Z
    <2>1. m \in Nat /\ \A k \in 0..(m - 1) : k \in Z => k + 1 \in Z
      BY <1>1, <1>8
    <2> HIDE DEF Z
    <2> QED
      BY <1>7, <2>1, SetInduction
  <1> QED
    BY <1>5, <1>6, <1>9

(* Sums of natural numbers grow. *)
LEMMA SumGrows ==
  ASSUME NEW numbers \in Seq(Nat)
  PROVE  /\ \A i \in 0..Len(numbers) : SumUpTo(numbers, i) \in Nat
         /\ \A j \in 0..Len(numbers) : \A i \in 0..j : SumUpTo(numbers, i) <= SumUpTo(numbers, j)
  <1> DEFINE n == Len(numbers)
             S(i) == SumUpTo(numbers, i)
             Z == {k \in 0..n : \A i \in 0..k : S(i) \in Nat /\ S(i) <= S(k)}
  <1>1. n \in Nat /\ numbers \in Seq(Int) /\ \A i \in 1..n : numbers[i] \in Nat
    BY LenProperties, ElementOfSeq, ListOfMore
  <1>2. S(0) = 0 /\ \A i \in 1..n : S(i) = S(i - 1) + numbers[i]
    BY <1>1, SumFacts
  <1> HIDE DEF S
  <1>3. 0 \in Z
    BY <1>1, <1>2
  <1>4. ASSUME NEW k \in 0..(n - 1), k \in Z PROVE k + 1 \in Z
    <2>1. PICK m \in 1..n : m = k + 1
      BY <1>1
    <2>2. S(m) = S(k) + numbers[m] /\ numbers[m] \in Nat /\ S(k) \in Nat
      BY <1>1, <1>2, <1>4, <2>1
    <2>3. ASSUME NEW i \in 0..m PROVE S(i) \in Nat /\ S(i) <= S(m)
      <3>1. CASE i = m
        BY <2>2, <3>1
      <3>2. CASE i # m
        <4>1. i \in 0..k
          BY <2>1, <3>2
        <4> QED
          BY <1>4, <2>2, <4>1
      <3> QED
        BY <3>1, <3>2
    <2> QED
      BY <2>1, <2>3
  <1>5. ASSUME NEW m \in 0..n PROVE m \in Z
    <2> HIDE DEF Z
    <2>1. m \in Nat /\ \A k \in 0..(m - 1) : k \in Z => k + 1 \in Z
      BY <1>1, <1>4
    <2> QED
      BY <1>3, <2>1, SetInduction
  <1>6. ASSUME NEW m \in 0..n, NEW i \in 0..m PROVE S(i) \in Nat /\ S(i) <= S(m)
    BY <1>5
  <1> QED
    BY <1>1, <1>6 DEF S

(* A position lies in exactly one of the stretches that the sums separate. *)
LEMMA StretchExists ==
  ASSUME NEW numbers \in Seq(Nat), NEW k \in Nat, k < SumUpTo(numbers, Len(numbers))
  PROVE  \E i \in 1..Len(numbers) : SumUpTo(numbers, i - 1) <= k /\ k < SumUpTo(numbers, i)
  <1> DEFINE n == Len(numbers)
             S(i) == SumUpTo(numbers, i)
             P == {i \in 0..n : k < S(i)}
  <1>1. n \in Nat /\ numbers \in Seq(Int)
    BY LenProperties, ListOfMore
  <1>2. S(0) = 0 /\ \A i \in 0..n : S(i) \in Nat
    BY <1>1, SumFacts, SumGrows
  <1>3. P \subseteq Nat /\ n \in P
    BY <1>1
  <1>4. PICK m \in P : \A j \in P : m <= j
    <2> HIDE DEF P
    <2> QED
      BY <1>3, LeastExists
  <1> HIDE DEF S
  <1>5. m \in 1..n /\ m - 1 \notin P
    BY <1>1, <1>2, <1>4
  <1> QED
    BY <1>1, <1>2, <1>4, <1>5 DEF S

LEMMA StretchIsUnique ==
  ASSUME NEW numbers \in Seq(Nat), NEW k \in Nat,
         NEW i \in 1..Len(numbers), SumUpTo(numbers, i - 1) <= k, k < SumUpTo(numbers, i),
         NEW j \in 1..Len(numbers), SumUpTo(numbers, j - 1) <= k, k < SumUpTo(numbers, j)
  PROVE  i = j
  <1> DEFINE n == Len(numbers)
             S(m) == SumUpTo(numbers, m)
  <1>1. n \in Nat
    BY LenProperties
  <1>2. /\ \A m \in 0..n : S(m) \in Nat
        /\ \A m \in 0..n : \A l \in 0..m : S(l) <= S(m)
    BY SumGrows
  <1> HIDE DEF S, n
  <1>3. i \in 1..n /\ j \in 1..n /\ S(i - 1) <= k /\ k < S(i) /\ S(j - 1) <= k /\ k < S(j)
    BY DEF S, n
  <1>4. ~(i < j)
    <2>1. i < j => i \in 0..(j - 1) /\ j - 1 \in 0..n
      BY <1>1, <1>3
    <2> QED
      BY <1>1, <1>2, <1>3, <2>1
  <1>5. ~(j < i)
    <2>1. j < i => j \in 0..(i - 1) /\ i - 1 \in 0..n
      BY <1>1, <1>3
    <2> QED
      BY <1>1, <1>2, <1>3, <2>1
  <1> QED
    BY <1>3, <1>4, <1>5

-----------------------------------------------------------------------------
(* Part 2: words.                                                          *)

LEMMA PowerFacts ==
  /\ Power[0] = 1
  /\ \A n \in 1..WordBytes : Power[n] = Base * Power[n - 1]
  /\ \A n \in 0..WordBytes : Power[n] \in Nat \ {0}
  <1> DEFINE X == Nat \ {0}
             Step == [i \in 1..WordBytes |-> [x \in X |-> Base * x]]
             Powers(f) == f = [n \in 0..WordBytes |-> IF n = 0 THEN 1 ELSE Base * f[n - 1]]
             P == CHOOSE f : Powers(f)
  <1>0. WordBytes \in Nat /\ Base \in X
    BY ByteAssumption
  <1>a. ASSUME NEW x \in X PROVE Base * x \in X
    <2>1. PICK b \in X : b = Base
      BY <1>0
    <2>2. b * x >= b
      OBVIOUS
    <2> QED
      BY <2>1, <2>2
  <1>1. /\ Step \in [1..WordBytes -> [X -> X]] /\ 1 \in X
        /\ \A i \in 1..WordBytes, x \in X : Step[i][x] = Base * x
    <2> HIDE DEF X
    <2>1. Step \in [1..WordBytes -> [X -> X]] /\ \A i \in 1..WordBytes, x \in X : Step[i][x] = Base * x
      BY <1>a
    <2>2. 1 \in X
      BY DEF X
    <2> QED
      BY <2>1, <2>2
  <1>2. PICK f \in [0..WordBytes -> X] : Computes(f, WordBytes, 1, Step)
    <2> HIDE DEF Step, X
    <2> QED
      BY <1>0, <1>1, RecursionExists
  <1> HIDE DEF Step, X
  <1>3. ASSUME NEW n \in 0..WordBytes PROVE f[n] = IF n = 0 THEN 1 ELSE Base * f[n - 1]
    <2>1. CASE n = 0
      BY <1>2, <2>1 DEF Computes
    <2>2. CASE n # 0
      <3>1. n \in 1..WordBytes /\ n - 1 \in 0..WordBytes
        BY <1>0, <2>2
      <3>2. f[n - 1] \in X
        BY <1>2, <3>1
      <3> QED
        BY <1>1, <1>2, <2>2, <3>1, <3>2 DEF Computes
    <2> QED
      BY <2>1, <2>2
  <1>4. Powers(f)
    BY <1>2, <1>3
  <1>5. Powers(P)
    <2> HIDE DEF Powers
    <2> QED
      BY <1>4
  <1>6. Power = P
    BY DEF Power
  <1> HIDE DEF P
  <1>7. ASSUME NEW n \in 0..WordBytes PROVE Power[n] = IF n = 0 THEN 1 ELSE Base * Power[n - 1]
    BY <1>5, <1>6
  <1>8. Power[0] = 1 /\ \A n \in 1..WordBytes : Power[n] = Base * Power[n - 1]
    BY <1>0, <1>7
  <1> DEFINE Z == {k \in 0..WordBytes : Power[k] \in X}
  <1>9. 0 \in Z
    BY <1>0, <1>1, <1>8
  <1>10. ASSUME NEW k \in 0..(WordBytes - 1), k \in Z PROVE k + 1 \in Z
    <2>1. PICK m \in 1..WordBytes : m = k + 1
      BY <1>0
    <2>2. m - 1 = k
      BY <2>1
    <2> QED
      BY <1>8, <1>a, <1>10, <2>1, <2>2
  <1>11. ASSUME NEW m \in 0..WordBytes PROVE m \in Z
    <2> HIDE DEF Z
    <2>1. m \in Nat /\ \A k \in 0..(m - 1) : k \in Z => k + 1 \in Z
      BY <1>0, <1>10
    <2> QED
      BY <1>9, <2>1, SetInduction
  <1> QED
    BY <1>8, <1>11 DEF X

(* So many bytes give a number below their power of the base.              *)
LEMMA UnsignedBound ==
  ASSUME NEW bytes \in Seq(Byte), Len(bytes) <= WordBytes
  PROVE  Unsigned(bytes) \in Nat /\ Unsigned(bytes) < Power[Len(bytes)]
  <1> DEFINE n == Len(bytes)
             numbers == [i \in DOMAIN bytes |-> bytes[i] * Power[i - 1]]
             S(i) == SumUpTo(numbers, i)
  <1>0. /\ n \in 0..WordBytes /\ WordBytes \in Nat /\ DOMAIN bytes = 1..n
        /\ \A i \in 1..n : bytes[i] \in Byte
    BY ByteAssumption, LenProperties, ElementOfSeq
  <1>1. ASSUME NEW i \in 1..n
        PROVE  /\ bytes[i] * Power[i - 1] \in Nat
               /\ Power[i - 1] + bytes[i] * Power[i - 1] <= Power[i]
    <2>1. i \in 1..WordBytes /\ i - 1 \in 0..WordBytes
      BY <1>0
    <2>2. PICK p \in Nat : p = Power[i - 1]
      BY <2>1, PowerFacts
    <2>3. PICK b \in Nat : b = Base /\ bytes[i] \in 0..(b - 1)
      BY <1>0, ByteAssumption DEF Byte
    <2>4. PICK d \in 0..(b - 1) : d = bytes[i]
      BY <2>3
    <2>5. d * p \in Nat /\ p + d * p <= b * p
      <3>0. b - (d + 1) \in Nat
        BY <2>3, <2>4
      <3>1. PICK r \in Nat : b = d + 1 + r
        BY <2>3, <2>4, <3>0
      <3>2. (d + 1 + r) * p = d * p + p + r * p /\ r * p \in Nat /\ d * p \in Nat
        OBVIOUS
      <3> QED
        BY <3>1, <3>2
    <2>6. Power[i] = b * p
      BY <2>1, <2>2, <2>3, PowerFacts
    <2> QED
      BY <2>2, <2>4, <2>5, <2>6
  <1>2. /\ numbers \in Seq(Nat) /\ numbers \in Seq(Int) /\ Len(numbers) = n
        /\ \A i \in 1..n : numbers[i] = bytes[i] * Power[i - 1]
    <2>1. numbers \in [1..n -> Nat] /\ \A i \in 1..n : numbers[i] = bytes[i] * Power[i - 1]
      BY <1>0, <1>1
    <2>2. numbers \in Seq(Nat) /\ Len(numbers) = n
      <3> HIDE DEF numbers
      <3> QED
        BY <1>0, <2>1, SeqDef, LenProperties
    <2> QED
      BY <2>1, <2>2, ListOfMore
  <1> HIDE DEF numbers
  <1>3. S(0) = 0 /\ \A i \in 1..n : S(i) = S(i - 1) + numbers[i]
    BY <1>2, SumFacts
  <1> HIDE DEF S
  <1> DEFINE Z == {k \in 0..n : S(k) \in Nat /\ S(k) < Power[k]}
  <1>4. 0 \in Z
    BY <1>0, <1>3, PowerFacts
  <1>5. ASSUME NEW k \in 0..(n - 1), k \in Z PROVE k + 1 \in Z
    <2>1. PICK m \in 1..n : m = k + 1
      BY <1>0
    <2>2. m - 1 = k /\ k \in 0..WordBytes /\ m \in 0..WordBytes
      BY <1>0, <2>1
    <2>3. PICK t \in Nat : t = numbers[m] /\ Power[k] + t <= Power[m]
      BY <1>1, <1>2, <2>2
    <2>4. S(m) = S(k) + t /\ S(k) \in Nat /\ S(k) < Power[k] /\ Power[k] \in Nat /\ Power[m] \in Nat
      BY <1>3, <1>5, <2>2, <2>3, PowerFacts
    <2>5. S(m) \in Nat /\ S(m) < Power[m]
      BY <2>3, <2>4
    <2> QED
      BY <2>1, <2>5
  <1>6. n \in Z
    <2> HIDE DEF Z
    <2>1. n \in Nat /\ \A k \in 0..(n - 1) : k \in Z => k + 1 \in Z
      BY <1>0, <1>5
    <2> QED
      BY <1>4, <2>1, SetInduction
  <1>7. Unsigned(bytes) = S(n)
    BY DEF Unsigned, S, numbers
  <1> QED
    BY <1>6, <1>7

(* Of the numbers between the signed bounds exactly one has these bits.    *)
LEMMA SignedNumber ==
  ASSUME NEW p \in Nat, p % 2 = 0, NEW u \in Nat, u < p
  PROVE  LET half == p \div 2
             d == IF 2 * u >= p THEN u - p ELSE u
         IN  d = CHOOSE x \in (-half)..(half - 1) : (x - u) % p = 0
  <1> DEFINE half == p \div 2
             d == IF 2 * u >= p THEN u - p ELSE u
  <1>1. half \in Nat /\ p = 2 * half /\ half > 0
    OBVIOUS
  <1> HIDE DEF half
  <1>2. d \in (-half)..(half - 1)
    BY <1>1
  <1>3. (d - u) % p = 0
    <2>1. 0 % p = 0 /\ (-p) % p = 0
      OBVIOUS
    <2>2. d - u = 0 \/ d - u = -p
      OBVIOUS
    <2> QED
      BY <2>1, <2>2
  <1>4. ASSUME NEW x \in (-half)..(half - 1), (x - u) % p = 0 PROVE x = d
    <2>0. PICK y \in Int : y = x - u
      BY <1>1
    <2>1. PICK q \in Int : x - u = p * q
      <3>1. y = p * (y \div p) + (y % p) /\ y \div p \in Int
        BY <1>1
      <3>2. PICK z \in Int : z = y \div p
        BY <3>1
      <3>3. y % p = 0
        BY <1>4, <2>0
      <3>4. PICK w \in Int : w = p * z
        OBVIOUS
      <3>5. x - u = p * z
        BY <2>0, <3>1, <3>2, <3>3, <3>4
      <3> QED
        BY <3>5
    <2>2. ~(q >= 1)
      <3>1. q >= 1 => p * q >= p
        OBVIOUS
      <3> QED
        BY <1>1, <2>1, <3>1
    <2>3. ~(q <= -2)
      <3>1. q <= -2 => p * q <= p * (-2)
        OBVIOUS
      <3> QED
        BY <1>1, <2>1, <3>1
    <2>4. q = 0 \/ q = -1
      BY <2>2, <2>3
    <2> QED
      BY <1>1, <2>1, <2>4
  <1> HIDE DEF d
  <1>5. d = CHOOSE x \in (-half)..(half - 1) : (x - u) % p = 0
    BY <1>2, <1>3, <1>4
  <1> QED
    BY <1>5 DEF d, half

(* The sign extension gives the number that the format means.              *)
LEMMA SignedIsDistance ==
  ASSUME NEW bytes \in Seq(Byte), Len(bytes) <= WordBytes
  PROVE  /\ Signed(bytes) \in Int
         /\ bytes = << >> => Signed(bytes) = 0
         /\ bytes # << >> => Signed(bytes) = Distance(bytes)
  <1> DEFINE n == Len(bytes)
  <1>1. n \in 0..WordBytes /\ (bytes # << >> => n \in 1..WordBytes) /\ (bytes = << >> => n = 0)
    BY ByteAssumption, LenProperties, EmptySeq
  <1>2. PICK u \in Nat : u = Unsigned(bytes) /\ u < Power[n]
    BY UnsignedBound
  <1>3. PICK p \in Nat : p = Power[n]
    BY <1>1, PowerFacts
  <1>4. Signed(bytes) = IF 2 * u >= p THEN u - p ELSE u
    BY <1>2, <1>3 DEF Signed
  <1>5. ASSUME bytes = << >> PROVE Signed(bytes) = 0
    BY <1>1, <1>2, <1>3, <1>4, <1>5, PowerFacts
  <1>6. ASSUME bytes # << >> PROVE Signed(bytes) = Distance(bytes)
    <2>1. p % 2 = 0
      <3>1. PICK h \in Nat : Base = 2 * h
        BY ByteAssumption
      <3>2. n \in 1..WordBytes /\ n - 1 \in 0..WordBytes
        BY <1>1, <1>6, ByteAssumption
      <3>3. PICK q \in Nat : q = Power[n - 1]
        BY <3>2, PowerFacts
      <3>4. p = (2 * h) * q
        BY <1>1, <1>3, <1>6, <3>1, <3>3, PowerFacts
      <3>5. PICK r \in Nat : r = h * q
        OBVIOUS
      <3>6. p = 2 * r
        BY <3>4, <3>5
      <3> QED
        BY <3>6
    <2> QED
      BY <1>2, <1>3, <1>4, <2>1, SignedNumber DEF Distance
  <1> QED
    BY <1>2, <1>3, <1>4, <1>5, <1>6

-----------------------------------------------------------------------------
(* Part 3: run lists.                                                      *)

Counts(list) == [j \in DOMAIN list.elements |-> Unsigned(list.elements[j].count)]

(* The clusters in the elements up to the i-th. *)
UpTo(list, i) == SumUpTo(Counts(list), i)

(* A list that was parsed: its runs have what its elements mean.           *)
LEMMA ElementFacts ==
  ASSUME NEW list, IsList(list), IsRunList(list)
  PROVE  /\ Len(list.elements) \in Nat /\ DOMAIN list.elements = 1..Len(list.elements)
         /\ \A i \in 1..Len(list.elements) :
              /\ list.elements[i].delta \in Seq(Byte)
              /\ Len(list.elements[i].delta) <= WordBytes
              /\ Unsigned(list.elements[i].count) \in Nat \ {0}
              /\ LcnAfter(list, i) \in Nat
  <1> DEFINE n == Len(list.elements)
             E == [count : Seq(Byte), delta : Seq(Byte)]
  <1>1. list.elements \in Seq(E)
    BY DEF IsList
  <1>2. n \in Nat /\ DOMAIN list.elements = 1..n
    BY <1>1, LenProperties
  <1>3. ASSUME NEW i \in 1..n
        PROVE  /\ list.elements[i].delta \in Seq(Byte) /\ list.elements[i].count \in Seq(Byte)
               /\ Len(list.elements[i].count) <= WordBytes
               /\ Len(list.elements[i].delta) <= WordBytes
               /\ Unsigned(list.elements[i].count) # 0
               /\ LcnAfter(list, i) \in Nat
    <2>1. list.elements[i] \in E
      BY <1>1, <1>2, ElementOfSeq
    <2>2. ~BadElement(list.elements[i]) /\ LcnAfter(list, i) \in Lcns
      BY <1>2 DEF IsRunList
    <2>3. /\ Len(list.elements[i].count) <= WordBytes
          /\ list.elements[i].delta \in Seq(Byte) /\ list.elements[i].count \in Seq(Byte)
      BY <1>2, <2>1 DEF IsList
    <2>4. Len(list.elements[i].delta) <= WordBytes /\ Unsigned(list.elements[i].count) # 0
      <3>1. Len(list.elements[i].delta) \in Nat /\ WordBytes \in Nat
        BY <2>3, LenProperties, ByteAssumption
      <3> QED
        BY <2>2, <3>1 DEF BadElement
    <2>5. LcnAfter(list, i) \in Nat
      BY <2>2 DEF Lcns
    <2> QED
      BY <2>3, <2>4, <2>5
  <1>4. ASSUME NEW i \in 1..n PROVE Unsigned(list.elements[i].count) \in Nat \ {0}
    BY <1>3, UnsignedBound
  <1> QED
    BY <1>2, <1>3, <1>4

LEMMA CountFacts ==
  ASSUME NEW list, IsList(list), IsRunList(list)
  PROVE  /\ Counts(list) \in Seq(Nat) /\ Len(Counts(list)) = Len(list.elements)
         /\ UpTo(list, 0) = 0
         /\ \A i \in 1..Len(list.elements) :
              /\ Counts(list)[i] \in Nat \ {0}
              /\ UpTo(list, i) = UpTo(list, i - 1) + Counts(list)[i]
         /\ \A i \in 0..Len(list.elements) : UpTo(list, i) \in Nat
         /\ \A j \in 0..Len(list.elements) : \A i \in 0..j : UpTo(list, i) <= UpTo(list, j)
         /\ \A i : ClustersUpTo(list, i) = UpTo(list, i)
  <1> DEFINE n == Len(list.elements)
  <1>1. n \in Nat /\ DOMAIN list.elements = 1..n
        /\ \A i \in 1..n : Unsigned(list.elements[i].count) \in Nat \ {0}
    BY ElementFacts
  <1>2. Counts(list) \in [1..n -> Nat] /\ \A i \in 1..n : Counts(list)[i] \in Nat \ {0}
    BY <1>1 DEF Counts
  <1>3. Counts(list) \in Seq(Nat) /\ Len(Counts(list)) = n
    BY <1>1, <1>2, SeqDef, LenProperties
  <1>4. Counts(list) \in Seq(Int)
    BY <1>3, ListOfMore
  <1>5. /\ UpTo(list, 0) = 0
        /\ \A i \in 1..n : UpTo(list, i) = UpTo(list, i - 1) + Counts(list)[i]
    BY <1>3, <1>4, SumFacts DEF UpTo
  <1>6. /\ \A i \in 0..n : UpTo(list, i) \in Nat
        /\ \A j \in 0..n : \A i \in 0..j : UpTo(list, i) <= UpTo(list, j)
    BY <1>3, SumGrows DEF UpTo
  <1>7. \A i : ClustersUpTo(list, i) = UpTo(list, i)
    BY DEF ClustersUpTo, UpTo, Counts
  <1> QED
    BY <1>2, <1>3, <1>5, <1>6, <1>7

(* previous_lcn is the sum of the distances, sparse elements left out.     *)
LEMMA LcnIsPlaced ==
  ASSUME NEW list, IsList(list), IsRunList(list)
  PROVE  \A i : LcnAfter(list, i) = Placed(list, i)
  <1> DEFINE D == DOMAIN list.elements
             f == [j \in D |-> Signed(list.elements[j].delta)]
             g == [j \in D |-> IF list.elements[j].delta = << >> THEN 0
                               ELSE Distance(list.elements[j].delta)]
  <1>1. ASSUME NEW j \in D
        PROVE  Signed(list.elements[j].delta)
                 = IF list.elements[j].delta = << >> THEN 0 ELSE Distance(list.elements[j].delta)
    <2>1. list.elements[j].delta \in Seq(Byte) /\ Len(list.elements[j].delta) <= WordBytes
      BY ElementFacts
    <2> QED
      BY <2>1, SignedIsDistance
  <1>2. f = g
    BY <1>1
  <1>3. \A i : LcnAfter(list, i) = SumUpTo(f, i) /\ Placed(list, i) = SumUpTo(g, i)
    BY DEF LcnAfter, Placed
  <1> QED
    BY <1>2, <1>3

(* What the parser makes of it.                                            *)
LEMMA RunFacts ==
  ASSUME NEW list, IsList(list), IsRunList(list)
  PROVE  /\ IsSequence(RunsOf(list)) /\ Len(RunsOf(list)) = Len(list.elements)
         /\ DOMAIN RunsOf(list) = 1..Len(list.elements)
         /\ \A i : CountBefore(RunsOf(list), i) = UpTo(list, i - 1)
         /\ \A i \in 1..Len(list.elements) :
              /\ RunsOf(list)[i].count = Counts(list)[i]
              /\ RunsOf(list)[i].lcn \in Nat \cup {Sparse}
              /\ RunsOf(list)[i].lcn = IF list.elements[i].delta = << >> THEN Sparse
                                       ELSE Placed(list, i)
              /\ RunsOf(list)[i].lcn = Sparse <=> list.elements[i].delta = << >>
  <1> DEFINE n == Len(list.elements)
             runs == RunsOf(list)
  <1>1. n \in Nat /\ DOMAIN list.elements = 1..n /\ \A i \in 1..n : LcnAfter(list, i) \in Nat
    BY ElementFacts
  <1>2. DOMAIN runs = 1..n /\ runs \in [1..n -> {runs[i] : i \in 1..n}]
    BY <1>1 DEF RunsOf
  <1>3. ASSUME NEW i \in 1..n
        PROVE  /\ runs[i].count = Counts(list)[i]
               /\ runs[i].lcn = IF list.elements[i].delta = << >> THEN Sparse ELSE LcnAfter(list, i)
    BY <1>1 DEF RunsOf, Counts
  <1> HIDE DEF runs
  <1>4. runs \in Seq({runs[i] : i \in 1..n}) /\ Len(runs) = n
    BY <1>1, <1>2, SeqDef, LenProperties
  <1>5. [j \in DOMAIN runs |-> runs[j].count] = Counts(list)
    BY <1>1, <1>2, <1>3 DEF Counts
  <1>6. \A i : CountBefore(runs, i) = UpTo(list, i - 1)
    BY <1>5 DEF CountBefore, UpTo
  <1>7. ASSUME NEW i \in 1..n
        PROVE  /\ runs[i].lcn \in Nat \cup {Sparse}
               /\ runs[i].lcn = Sparse <=> list.elements[i].delta = << >>
    BY <1>1, <1>3 DEF Sparse
  <1>8. IsSequence(runs)
    BY <1>2, <1>4 DEF IsSequence
  <1> QED
    BY <1>2, <1>3, <1>4, <1>6, <1>7, <1>8, LcnIsPlaced DEF runs

(* Where a cluster of the attribute lies, by the run that holds it.        *)
LEMMA ClusterOfRun ==
  ASSUME NEW list, IsList(list), IsRunList(list),
         NEW i \in 1..Len(list.elements), NEW k \in Nat, UpTo(list, i - 1) <= k, k < UpTo(list, i)
  PROVE  LcnAt(list, k) = IF RunsOf(list)[i].lcn = Sparse THEN Sparse
                          ELSE RunsOf(list)[i].lcn + (k - UpTo(list, i - 1))
  <1> DEFINE n == Len(list.elements)
             Holds(j) == ClustersUpTo(list, j - 1) <= k /\ k < ClustersUpTo(list, j)
             h == CHOOSE j \in DOMAIN list.elements : Holds(j)
  <1>1. DOMAIN list.elements = 1..n
    BY ElementFacts
  <1>2. /\ Counts(list) \in Seq(Nat) /\ Len(Counts(list)) = n
        /\ \A j : ClustersUpTo(list, j) = UpTo(list, j)
    BY CountFacts
  <1>3. \A j \in 1..n : Holds(j) <=> UpTo(list, j - 1) <= k /\ k < UpTo(list, j)
    BY <1>2
  <1> HIDE DEF Holds
  <1>4. h \in 1..n /\ Holds(h)
    BY <1>1, <1>3
  <1>5. h = i
    <2>1. PICK m \in 1..n : m = h /\ Holds(m)
      BY <1>4
    <2>2. m = i
      BY <1>2, <1>3, <2>1, StretchIsUnique DEF UpTo
    <2> QED
      BY <2>1, <2>2
  <1>6. LcnAt(list, k) = IF list.elements[h].delta = << >> THEN Sparse
                         ELSE Placed(list, h) + (k - ClustersUpTo(list, h - 1))
    BY DEF LcnAt, Holds
  <1> QED
    BY <1>2, <1>5, <1>6, RunFacts

-----------------------------------------------------------------------------
(* Part 4: content.                                                        *)

LEMMA RegionIsListed ==
  ASSUME NEW e, IsSequence(e.data.runs), NEW i \in DOMAIN e.data.runs, HasRegion(e.data.runs[i])
  PROVE  RegionForRun(e.data.runs[i]) \in ToSet(PhysicalLocation(e))
  <1> DEFINE runs == e.data.runs
             n == Len(runs)
             S == {RegionForRun(runs[j]) : j \in 1..n}
             lists == [j \in DOMAIN runs |->
                         IF HasRegion(runs[j]) THEN <<RegionForRun(runs[j])>> ELSE << >>]
  <1>1. n \in Nat /\ DOMAIN runs = 1..n
    BY LenProperties DEF IsSequence
  <1>2. lists \in Seq(Seq(S))
    <2>1. ASSUME NEW j \in 1..n
          PROVE  (IF HasRegion(runs[j]) THEN <<RegionForRun(runs[j])>> ELSE << >>) \in Seq(S)
      <3>1. RegionForRun(runs[j]) \in S
        OBVIOUS
      <3> HIDE DEF S
      <3> QED
        BY <3>1, EmptySeq
    <2> HIDE DEF S
    <2>2. lists \in [1..n -> Seq(S)]
      BY <1>1, <2>1
    <2> QED
      BY <1>1, <2>2, SeqDef
  <1>3. PhysicalLocation(e) = FlattenSeq(lists)
    BY DEF PhysicalLocation
  <1>4. ToSet(FlattenSeq(lists)) = UNION {ToSet(lists[j]) : j \in DOMAIN lists}
    <2> HIDE DEF lists, S
    <2> QED
      BY <1>2, FlattenFacts
  <1>5. i \in DOMAIN lists /\ lists[i] = <<RegionForRun(runs[i])>>
    OBVIOUS
  <1>6. RegionForRun(runs[i]) \in ToSet(lists[i])
    <2>1. PICK r : r = RegionForRun(runs[i])
      OBVIOUS
    <2>2. r \in ToSet(<<r>>)
      BY DEF ToSet
    <2> HIDE DEF lists
    <2> QED
      BY <1>5, <2>1, <2>2
  <1> HIDE DEF lists
  <1> QED
    BY <1>3, <1>4, <1>5, <1>6

(* Where in the content a run begins, and where its sectors do.            *)
LEMMA SegmentFacts ==
  ASSUME NEW e, ~e.data.resident, IsList(e.data.list), IsRunList(e.data.list),
         e.data.runs = RunsOf(e.data.list), IsNumbered(e)
  PROVE  /\ DOMAIN Layout(e) = 1..Len(e.data.list.elements)
         /\ \A i \in 1..Len(e.data.list.elements) :
              /\ Layout(e)[i].logicalStart = UpTo(e.data.list, i - 1)
              /\ Layout(e)[i].count = Counts(e.data.list)[i]
              /\ e.data.runs[i].lcn = Sparse => Layout(e)[i].kind = "sparse"
              /\ e.data.runs[i].lcn # Sparse =>
                   /\ Layout(e)[i].kind = "physical"
                   /\ Layout(e)[i].region \in ToSet(PhysicalLocation(e))
                   /\ Layout(e)[i].region.sectorStart = e.data.runs[i].lcn * SectorsPerCluster
  <1> DEFINE list == e.data.list
             runs == e.data.runs
             n == Len(list.elements)
  <1>1. /\ n \in Nat /\ IsSequence(runs) /\ Len(runs) = n /\ DOMAIN runs = 1..n
        /\ \A i : CountBefore(runs, i) = UpTo(list, i - 1)
        /\ \A i \in 1..n : runs[i].count = Counts(list)[i]
    BY ElementFacts, RunFacts
  <1>2. CountBefore(runs, n + 1) = UpTo(list, n) /\ UpTo(list, n) \in Nat
    BY <1>1, CountFacts
  <1>3. WordMax \in Int
    BY ByteAssumption, PowerFacts DEF WordMax
  <1>4. ~(CountBefore(runs, Len(runs) + 1) > WordMax)
    BY <1>1, <1>2, <1>3, CountFacts DEF IsNumbered, Clusters
  <1>5. Layout(e) = [i \in DOMAIN runs |-> RunSegment(runs, i)]
    BY <1>4 DEF Layout
  <1>6. ASSUME NEW i \in 1..n
        PROVE  /\ Layout(e)[i].logicalStart = UpTo(list, i - 1)
               /\ Layout(e)[i].count = Counts(list)[i]
               /\ runs[i].lcn = Sparse => Layout(e)[i].kind = "sparse"
               /\ runs[i].lcn # Sparse =>
                    /\ Layout(e)[i].kind = "physical"
                    /\ Layout(e)[i].region \in ToSet(PhysicalLocation(e))
                    /\ Layout(e)[i].region.sectorStart = runs[i].lcn * SectorsPerCluster
    <2>1. Layout(e)[i] = RunSegment(runs, i)
      BY <1>1, <1>5
    <2>2. /\ RunSegment(runs, i).logicalStart = UpTo(list, i - 1)
          /\ RunSegment(runs, i).count = Counts(list)[i]
          /\ RunSegment(runs, i).kind = (IF HasRegion(runs[i]) THEN "physical" ELSE "sparse")
          /\ RunSegment(runs, i).region = RegionForRun(runs[i])
      BY <1>1 DEF RunSegment, Segment, LogicalStart
    <2>3. runs[i].lcn = Sparse => ~HasRegion(runs[i])
      BY DEF HasRegion
    <2>4. runs[i].lcn # Sparse => HasRegion(runs[i])
      BY <1>1 DEF IsNumbered
    <2>5. HasRegion(runs[i]) =>
            /\ RegionForRun(runs[i]) \in ToSet(PhysicalLocation(e))
            /\ RegionForRun(runs[i]).sectorStart = runs[i].lcn * SectorsPerCluster
      BY <1>1, RegionIsListed DEF RegionForRun
    <2> HIDE DEF runs, list
    <2> QED
      BY <2>1, <2>2, <2>3, <2>4, <2>5
  <1> QED
    BY <1>1, <1>5, <1>6

(* The layout of one entry, cluster by cluster.                            *)
LEMMA LayoutFollowsRuns ==
  ASSUME NEW e, ~e.data.resident, IsList(e.data.list), IsRunList(e.data.list),
         e.data.runs = RunsOf(e.data.list), IsNumbered(e),
         NEW k \in 0..Clusters(e.data.list)
  PROVE  LET Covers(s) == k \in s.logicalStart..(s.logicalStart + s.count - 1)
         IN  /\ k < Clusters(e.data.list) <=> \E i \in DOMAIN Layout(e) : Covers(Layout(e)[i])
             /\ \A i \in DOMAIN Layout(e) : Covers(Layout(e)[i]) =>
                  LET s == Layout(e)[i]
                      lcn == LcnAt(e.data.list, k)
                  IN  IF lcn = Sparse THEN s.kind = "sparse"
                      ELSE /\ s.kind = "physical" /\ s.region \in ToSet(PhysicalLocation(e))
                           /\ s.region.sectorStart + (k - s.logicalStart) * SectorsPerCluster
                                = lcn * SectorsPerCluster
  <1> DEFINE list == e.data.list
             n == Len(list.elements)
             L == Layout(e)
             Covers(s) == k \in s.logicalStart..(s.logicalStart + s.count - 1)
  <1>1. n \in Nat /\ Clusters(list) = UpTo(list, n) /\ UpTo(list, n) \in Nat /\ k \in Nat
    BY ElementFacts, CountFacts DEF Clusters
  <1>2. ASSUME NEW i \in 1..n
        PROVE  Covers(L[i]) <=> UpTo(list, i - 1) <= k /\ k < UpTo(list, i)
    <2>1. PICK c \in Nat : c = Counts(list)[i]
      BY CountFacts
    <2>2. i - 1 \in 0..n /\ i \in 0..n
      BY <1>1
    <2>3. PICK u \in Nat : u = UpTo(list, i - 1) /\ UpTo(list, i) = u + c
      BY <2>1, <2>2, CountFacts
    <2>4. L[i].logicalStart = u /\ L[i].count = c
      BY <2>1, <2>3, SegmentFacts
    <2> HIDE DEF L, list
    <2> QED
      BY <1>1, <2>3, <2>4
  <1>3. DOMAIN L = 1..n
    BY SegmentFacts
  <1>4. k < Clusters(list) <=> \E i \in DOMAIN L : Covers(L[i])
    <2>1. ASSUME k < Clusters(list) PROVE \E i \in DOMAIN L : Covers(L[i])
      <3>1. Counts(list) \in Seq(Nat) /\ Len(Counts(list)) = n
        BY CountFacts
      <3>2. PICK i \in 1..n : UpTo(list, i - 1) <= k /\ k < UpTo(list, i)
        BY <1>1, <2>1, <3>1, StretchExists DEF UpTo
      <3> HIDE DEF Covers, L
      <3> QED
        BY <1>2, <1>3, <3>2
    <2>2. ASSUME NEW i \in DOMAIN L, Covers(L[i]) PROVE k < Clusters(list)
      <3>1. i \in 1..n /\ k < UpTo(list, i)
        BY <1>2, <1>3, <2>2
      <3>2. i \in 0..n /\ n \in 0..n
        BY <1>1, <3>1
      <3>3. UpTo(list, i) \in Nat /\ UpTo(list, i) <= UpTo(list, n)
        BY <3>1, <3>2, CountFacts
      <3> QED
        BY <1>1, <3>1, <3>3
    <2> QED
      BY <2>1, <2>2
  <1>5. ASSUME NEW i \in DOMAIN L, Covers(L[i])
        PROVE  LET lcn == LcnAt(list, k)
               IN  IF lcn = Sparse THEN L[i].kind = "sparse"
                   ELSE /\ L[i].kind = "physical" /\ L[i].region \in ToSet(PhysicalLocation(e))
                        /\ L[i].region.sectorStart + (k - L[i].logicalStart) * SectorsPerCluster
                             = lcn * SectorsPerCluster
    <2>1. i \in 1..n /\ UpTo(list, i - 1) <= k /\ k < UpTo(list, i)
      BY <1>2, <1>3, <1>5
    <2>2. i - 1 \in 0..n
      BY <1>1, <2>1
    <2>3. PICK u \in Nat : u = UpTo(list, i - 1) /\ u <= k
      BY <2>1, <2>2, CountFacts
    <2>4. PICK run : run = RunsOf(list)[i]
      OBVIOUS
    <2>5. run.lcn \in Nat \cup {Sparse}
      BY <2>1, <2>4, RunFacts
    <2>6. LcnAt(list, k) = IF run.lcn = Sparse THEN Sparse ELSE run.lcn + (k - u)
      BY <1>1, <2>1, <2>3, <2>4, ClusterOfRun
    <2>7. /\ L[i].logicalStart = u
          /\ run.lcn = Sparse => L[i].kind = "sparse"
          /\ run.lcn # Sparse =>
               /\ L[i].kind = "physical" /\ L[i].region \in ToSet(PhysicalLocation(e))
               /\ L[i].region.sectorStart = run.lcn * SectorsPerCluster
      BY <2>1, <2>3, <2>4, SegmentFacts
    <2>8. CASE run.lcn = Sparse
      BY <2>6, <2>7, <2>8
    <2>9. CASE run.lcn # Sparse
      <3>1. PICK l \in Nat : l = run.lcn
        BY <2>5, <2>9
      <3>2. LcnAt(list, k) = l + (k - u) /\ LcnAt(list, k) # Sparse
        BY <1>1, <2>3, <2>6, <2>9, <3>1 DEF Sparse
      <3>3. PICK s \in Nat : s = SectorsPerCluster
        BY SectorAssumption
      <3>4. l * s + (k - u) * s = (l + (k - u)) * s
        BY <1>1, <2>3
      <3> HIDE DEF L
      <3> QED
        BY <2>7, <2>9, <3>1, <3>2, <3>3, <3>4
    <2> QED
      BY <2>8, <2>9
  <1> QED
    BY <1>4, <1>5

-----------------------------------------------------------------------------
(* Part 5: the stream of slots.                                            *)

LEMMA DivFacts ==
  ASSUME NEW r \in Nat \ {0}, NEW u \in Nat, NEW q \in Nat
  PROVE  /\ q \div r \in Nat /\ q % r \in 0..(r - 1) /\ q = r * (q \div r) + (q % r)
         /\ (u * r + q) \div r = u + (q \div r) /\ (u * r + q) % r = q % r
         /\ \A c \in Nat : q < c * r => q \div r < c
  <1>1. PICK d \in Nat : d = q \div r
    OBVIOUS
  <1>2. PICK m \in 0..(r - 1) : m = q % r
    OBVIOUS
  <1>3. PICK t \in Nat : t = r * d
    OBVIOUS
  <1>4. q = t + m
    BY <1>1, <1>2, <1>3
  <1>5. PICK p \in Nat : p = u * r + q
    OBVIOUS
  <1>6. PICK e \in Nat : e = p \div r
    OBVIOUS
  <1>7. PICK l \in 0..(r - 1) : l = p % r
    OBVIOUS
  <1>8. p = r * e + l
    BY <1>6, <1>7
  <1>9. p = r * (u + d) + m
    <2>1. r * (u + d) = u * r + r * d
      OBVIOUS
    <2> QED
      BY <1>3, <1>4, <1>5, <2>1
  <1>10. e = u + d /\ l = m
    <2>1. PICK x \in Int : x = e - (u + d)
      OBVIOUS
    <2>2. r * e = r * (u + d) + r * x
      BY <2>1
    <2>3. r * x = m - l
      BY <1>8, <1>9, <2>2
    <2>4. x >= 1 => r * x >= r
      OBVIOUS
    <2>5. x <= -1 => r * x <= -r
      OBVIOUS
    <2>6. x = 0
      BY <2>3, <2>4, <2>5
    <2> QED
      BY <2>1, <2>3, <2>6
  <1>11. ASSUME NEW c \in Nat, q < c * r PROVE d < c
    <2>1. c <= d => c * r <= r * d
      OBVIOUS
    <2> QED
      BY <1>3, <1>4, <1>11, <2>1
  <1> QED
    BY <1>1, <1>2, <1>3, <1>4, <1>5, <1>6, <1>7, <1>10, <1>11

(* The slot of an attribute with this list that a position of it means.    *)
StreamSlot(list, p) ==
  LET lcn == LcnAt(list, p \div RecordsPerCluster)
  IN  IF lcn = Sparse THEN Zero ELSE volume.clusters[lcn][(p % RecordsPerCluster) + 1]

(* All slots there are, and the zero ones of a sparse run.                 *)
Slots == {Zero} \cup {slot \in UNION {ToSet(volume.clusters[c]) : c \in DOMAIN volume.clusters} :
                        IsSlot(slot)}

LEMMA ClusterFacts ==
  ASSUME IsVolume(volume), NEW c \in DOMAIN volume.clusters, NEW i \in 1..RecordsPerCluster
  PROVE  volume.clusters[c][i] \in Slots
  <1>1. PICK s : s = volume.clusters[c]
    OBVIOUS
  <1>2. s \in Seq(ToSet(s)) /\ Len(s) = RecordsPerCluster /\ \A x \in ToSet(s) : IsSlot(x)
    BY <1>1 DEF IsVolume
  <1>3. s[i] \in ToSet(s)
    BY <1>2, ElementOfSeq
  <1> QED
    BY <1>1, <1>2, <1>3 DEF Slots

(* A run that the image holds.                                             *)
LEMMA RunSlots ==
  ASSUME IsVolume(volume), NEW list, IsList(list), IsRunList(list),
         NEW i \in 1..Len(list.elements), IsReadable(RunsOf(list)[i])
  PROVE  /\ ReadRun(RunsOf(list)[i]) \in Seq(Slots)
         /\ Len(ReadRun(RunsOf(list)[i])) = Counts(list)[i] * RecordsPerCluster
         /\ \A q \in 0..(Counts(list)[i] * RecordsPerCluster - 1) :
              ReadRun(RunsOf(list)[i])[q + 1]
                = StreamSlot(list, UpTo(list, i - 1) * RecordsPerCluster + q)
  <1>1. PICK r \in Nat \ {0} : r = RecordsPerCluster
    BY MftAssumption
  <1>2. PICK run : run = RunsOf(list)[i]
    OBVIOUS
  <1>3. PICK c \in Nat : c = Counts(list)[i]
    BY CountFacts
  <1>4. run.count = c /\ run.lcn \in Nat \cup {Sparse}
    BY <1>2, <1>3, RunFacts
  <1>5. PICK m \in Nat : m = c * r
    OBVIOUS
  <1>6. i - 1 \in 0..Len(list.elements) /\ Len(list.elements) \in Nat
    BY ElementFacts
  <1>7. PICK u \in Nat : u = UpTo(list, i - 1) /\ UpTo(list, i) = u + c
    BY <1>3, <1>6, CountFacts
  <1> DEFINE S(q) == IF run.lcn = Sparse THEN Zero
                     ELSE ReadCluster(run.lcn + (q \div r))[(q % r) + 1]
  <1>8. ReadRun(run) = [k \in 1..m |-> S(k - 1)]
    BY <1>1, <1>4, <1>5 DEF ReadRun
  <1>9. ASSUME NEW q \in 0..(m - 1)
        PROVE  S(q) \in Slots /\ S(q) = StreamSlot(list, u * r + q)
    <2>a. q \in Nat /\ q < c * r
      BY <1>5
    <2>b. /\ q \div r \in Nat /\ q % r \in 0..(r - 1) /\ q \div r < c
          /\ (u * r + q) \div r = u + (q \div r) /\ (u * r + q) % r = q % r
      <3>1. r \in Nat \ {0} /\ u \in Nat /\ q \in Nat /\ c \in Nat
        BY <2>a
      <3>2. /\ q \div r \in Nat /\ q % r \in 0..(r - 1)
            /\ (u * r + q) \div r = u + (q \div r) /\ (u * r + q) % r = q % r
        BY <3>1, DivFacts
      <3>3. q \div r < c
        BY <2>a, <3>1, DivFacts
      <3> QED
        BY <3>2, <3>3
    <2>1. PICK d \in Nat : d = q \div r /\ d < c /\ (u * r + q) \div r = u + d
      BY <2>b
    <2>2. PICK o \in 0..(r - 1) : o = q % r /\ (u * r + q) % r = o
      BY <2>b
    <2>3. LcnAt(list, u + d) = IF run.lcn = Sparse THEN Sparse ELSE run.lcn + d
      <3>1. PICK k \in Nat : k = u + d
        BY <2>1
      <3>2. UpTo(list, i - 1) <= k /\ k < UpTo(list, i) /\ k - UpTo(list, i - 1) = d
        <4>1. u \in Nat /\ u <= k /\ k < u + c /\ k - u = d
          BY <2>1, <3>1
        <4> QED
          BY <1>7, <4>1
      <3>3. LcnAt(list, k) = IF RunsOf(list)[i].lcn = Sparse THEN Sparse
                             ELSE RunsOf(list)[i].lcn + (k - UpTo(list, i - 1))
        BY <3>2, ClusterOfRun
      <3> QED
        BY <1>2, <3>1, <3>2, <3>3
    <2>4. StreamSlot(list, u * r + q)
            = IF LcnAt(list, u + d) = Sparse THEN Zero
              ELSE volume.clusters[LcnAt(list, u + d)][o + 1]
      BY <1>1, <2>1, <2>2 DEF StreamSlot
    <2>5. CASE run.lcn = Sparse
      BY <2>3, <2>4, <2>5 DEF Slots
    <2>6. CASE run.lcn # Sparse
      <3>1. PICK l \in Nat : l = run.lcn
        BY <1>4, <2>6
      <3>2. LcnAt(list, u + d) = l + d /\ l + d # Sparse
        BY <2>3, <2>6, <3>1 DEF Sparse
      <3>3. l + d \in DOMAIN volume.clusters
        <4>1. PICK k \in 1..c : k = d + 1
          BY <2>1
        <4>2. l + k - 1 = l + d
          BY <4>1
        <4> QED
          BY <1>2, <1>4, <2>6, <3>1, <4>1, <4>2 DEF IsReadable, InImage
      <3>4. S(q) = volume.clusters[l + d][o + 1]
        BY <2>1, <2>2, <2>6, <3>1 DEF ReadCluster
      <3>5. o + 1 \in 1..RecordsPerCluster
        BY <1>1
      <3> HIDE DEF S
      <3> QED
        BY <2>4, <3>2, <3>3, <3>4, <3>5, ClusterFacts
    <2> QED
      BY <2>5, <2>6
  <1> HIDE DEF S
  <1>10. ReadRun(run) \in [1..m -> Slots]
    <2>1. ASSUME NEW k \in 1..m PROVE S(k - 1) \in Slots
      <3>1. k - 1 \in 0..(m - 1)
        OBVIOUS
      <3> QED
        BY <1>9, <3>1
    <2> QED
      BY <1>8, <2>1
  <1>11. ReadRun(run) \in Seq(Slots) /\ Len(ReadRun(run)) = m
    BY <1>10, SeqDef, LenProperties
  <1>12. ASSUME NEW q \in 0..(m - 1) PROVE ReadRun(run)[q + 1] = StreamSlot(list, u * r + q)
    <2>1. PICK k \in 1..m : k = q + 1
      OBVIOUS
    <2>2. k - 1 = q
      BY <2>1
    <2> QED
      BY <1>8, <1>9, <2>1, <2>2
  <1> QED
    BY <1>1, <1>2, <1>3, <1>5, <1>7, <1>11, <1>12

(* The loop of read_runs. *)
Reads(read, runs, count) ==
  /\ read[0] = << >>
  /\ \A i \in 1..Len(runs) :
       read[i] = IF Len(read[i - 1]) >= count THEN read[i - 1] ELSE read[i - 1] \o ReadRun(runs[i])

LEMMA ReadsExists ==
  ASSUME NEW runs, Len(runs) \in Nat, NEW count, NEW Y,
         \A i \in 1..Len(runs) : ReadRun(runs[i]) \in Seq(Y)
  PROVE  \E read : Reads(read, runs, count) /\ ReadRuns(runs, count) = SubSeq(read[Len(runs)], 1, count)
  <1> DEFINE n == Len(runs)
             X == Seq(Y)
             After(i, s) == IF Len(s) >= count THEN s ELSE s \o ReadRun(runs[i])
             Step == [i \in 1..n |-> [s \in X |-> After(i, s)]]
             Loop(f) == f = [i \in 0..n |->
                               CASE i = 0 -> << >>
                                 [] i > 0 /\ Len(f[i - 1]) >= count -> f[i - 1]
                                 [] OTHER -> f[i - 1] \o ReadRun(runs[i])]
             read == CHOOSE f : Loop(f)
  <1>1. ASSUME NEW i \in 1..n, NEW s \in X PROVE After(i, s) \in X
    BY ConcatProperties
  <1>2. /\ Step \in [1..n -> [X -> X]] /\ << >> \in X
        /\ \A i \in 1..n, s \in X : Step[i][s] = After(i, s)
    <2> HIDE DEF X, After
    <2>1. Step \in [1..n -> [X -> X]] /\ \A i \in 1..n, s \in X : Step[i][s] = After(i, s)
      BY <1>1
    <2>2. << >> \in X
      BY EmptySeq DEF X
    <2> QED
      BY <2>1, <2>2
  <1>3. PICK e : e = << >>
    OBVIOUS
  <1>4. PICK f \in [0..n -> X] : Computes(f, n, e, Step)
    <2> HIDE DEF Step, X
    <2> QED
      BY <1>2, <1>3, RecursionExists
  <1> HIDE DEF Step, X
  <1>5. f[0] = << >> /\ \A i \in 1..n : f[i] = After(i, f[i - 1])
    <2>1. ASSUME NEW i \in 1..n PROVE f[i] = After(i, f[i - 1])
      <3>1. i - 1 \in 0..n
        OBVIOUS
      <3>2. f[i - 1] \in X /\ f[i] = Step[i][f[i - 1]]
        BY <1>4, <3>1 DEF Computes
      <3> HIDE DEF After
      <3> QED
        BY <1>2, <3>2
    <2> QED
      BY <1>3, <1>4, <2>1 DEF Computes
  <1>6. ASSUME NEW i \in 0..n
        PROVE  f[i] = CASE i = 0 -> << >>
                        [] i > 0 /\ Len(f[i - 1]) >= count -> f[i - 1]
                        [] OTHER -> f[i - 1] \o ReadRun(runs[i])
    <2>1. CASE i = 0
      BY <1>5, <2>1
    <2>2. CASE i # 0
      <3>1. i \in 1..n /\ i > 0
        BY <2>2
      <3>2. f[i] = After(i, f[i - 1])
        BY <1>5, <3>1
      <3> QED
        BY <2>2, <3>1, <3>2
    <2> QED
      BY <2>1, <2>2
  <1>7. Loop(f)
    BY <1>4, <1>6
  <1>8. Loop(read)
    <2> HIDE DEF Loop
    <2> QED
      BY <1>7
  <1>9. ReadRuns(runs, count) = SubSeq(read[n], 1, count)
    BY DEF ReadRuns
  <1> HIDE DEF read
  <1>10. ASSUME NEW i \in 0..n
         PROVE  read[i] = CASE i = 0 -> << >>
                            [] i > 0 /\ Len(read[i - 1]) >= count -> read[i - 1]
                            [] OTHER -> read[i - 1] \o ReadRun(runs[i])
    BY <1>8
  <1>11. read[0] = << >>
    BY <1>10
  <1>12. ASSUME NEW i \in 1..n PROVE read[i] = After(i, read[i - 1])
    <2>1. i \in 0..n /\ i > 0 /\ i # 0
      OBVIOUS
    <2> QED
      BY <1>10, <2>1
  <1> QED
    BY <1>9, <1>11, <1>12 DEF Reads

(* What is read of a table that can be read: every slot of it, wherever the*)
(* run list says that it lies.                                             *)
LEMMA StreamIsRead ==
  ASSUME IsVolume(volume), NEW list, IsList(list), IsRunList(list),
         NEW count \in Nat, CanRead(RunsOf(list), count)
  PROVE  /\ ReadRuns(RunsOf(list), count) \in Seq(Slots)
         /\ Len(ReadRuns(RunsOf(list), count)) = count
         /\ \A p \in 0..(count - 1) :
              ReadRuns(RunsOf(list), count)[p + 1] = StreamSlot(list, p)
  <1> DEFINE runs == RunsOf(list)
             n == Len(list.elements)
             Y == UNION {ToSet(ReadRun(runs[i])) : i \in 1..n}
  <1>1. /\ n \in Nat /\ Len(runs) = n /\ DOMAIN runs = 1..n
        /\ \A i : CountBefore(runs, i) = UpTo(list, i - 1)
        /\ \A i \in 1..n : runs[i].count = Counts(list)[i]
    BY ElementFacts, RunFacts
  <1>2. PICK r \in Nat \ {0} : r = RecordsPerCluster
    BY MftAssumption
  <1>3. ASSUME NEW i \in 1..n PROVE ReadRun(runs[i]) \in Seq(Y)
    <2>1. PICK m \in Nat : m = runs[i].count * RecordsPerCluster
      <3>1. PICK c \in Nat : c = runs[i].count
        BY <1>1, CountFacts
      <3>2. c * r \in Nat
        OBVIOUS
      <3> QED
        BY <1>2, <3>1, <3>2
    <2>2. PICK s : s = ReadRun(runs[i])
      OBVIOUS
    <2>3. DOMAIN s = 1..m /\ s = [k \in 1..m |-> s[k]]
      BY <2>1, <2>2 DEF ReadRun
    <2>4. \A k \in 1..m : s[k] \in Y
      <3>1. \A k \in 1..m : s[k] \in ToSet(s)
        BY <2>3 DEF ToSet
      <3>2. ToSet(s) \subseteq Y
        BY <2>2
      <3> HIDE DEF Y
      <3> QED
        BY <3>1, <3>2
    <2> HIDE DEF Y
    <2>5. s \in [1..m -> Y]
      BY <2>3, <2>4
    <2> QED
      BY <2>2, <2>5, SeqDef
  <1> HIDE DEF Y, runs
  <1>4. PICK read : /\ Reads(read, runs, count)
                    /\ ReadRuns(runs, count) = SubSeq(read[n], 1, count)
    BY <1>1, <1>3, ReadsExists
  <1>5. /\ UpTo(list, 0) = 0
        /\ \A i \in 0..n : UpTo(list, i) \in Nat
    BY CountFacts
  <1> DEFINE Good(i) == /\ read[i] \in Seq(Slots)
                        /\ Len(read[i]) < count => Len(read[i]) = UpTo(list, i) * r
                        /\ \A q \in 1..Len(read[i]) : read[i][q] = StreamSlot(list, q - 1)
             Z == {i \in 0..n : Good(i)}
  <1>6. 0 \in Z
    <2>1. read[0] = << >> /\ Len(read[0]) = 0
      BY <1>4, EmptySeq DEF Reads
    <2>2. read[0] \in Seq(Slots) /\ 0 * r = 0
      BY <2>1, EmptySeq
    <2>3. Good(0)
      <3>1. \A q \in 1..Len(read[0]) : read[0][q] = StreamSlot(list, q - 1)
        BY <2>1
      <3> QED
        BY <1>5, <2>1, <2>2, <3>1
    <2> HIDE DEF Good
    <2> QED
      BY <1>1, <2>3
  <1>7. ASSUME NEW i \in 0..(n - 1), i \in Z PROVE i + 1 \in Z
    <2>1. PICK m \in 1..n : m = i + 1 /\ m - 1 = i
      BY <1>1
    <2>2. /\ read[i] \in Seq(Slots)
          /\ Len(read[i]) < count => Len(read[i]) = UpTo(list, i) * r
          /\ \A q \in 1..Len(read[i]) : read[i][q] = StreamSlot(list, q - 1)
      BY <1>7
    <2>3. PICK t \in Seq(Slots) : t = read[i]
      BY <2>2
    <2>4. PICK l \in Nat : l = Len(t)
      BY <2>3, LenProperties
    <2>5. read[m] = IF l >= count THEN t ELSE t \o ReadRun(runs[m])
      BY <1>1, <1>4, <2>1, <2>3, <2>4 DEF Reads
    <2>6. CASE l >= count
      <3>1. read[m] = t /\ ~(l < count)
        BY <2>5, <2>6
      <3>2. Good(m)
        BY <2>2, <2>3, <2>4, <3>1
      <3> HIDE DEF Good
      <3> QED
        BY <1>1, <2>1, <3>2
    <2>7. CASE ~(l >= count)
      <3>1. l < count /\ i \in 0..n
        BY <1>1, <2>4, <2>7
      <3>2. PICK u \in Nat : u = UpTo(list, i)
        BY <1>5, <3>1
      <3>3. l = u * r
        BY <2>2, <2>3, <2>4, <3>1, <3>2
      <3>4. CountBefore(runs, m) = u
        BY <1>1, <2>1, <3>2
      <3>5. IsReadable(runs[m])
        BY <1>1, <1>2, <3>1, <3>3, <3>4 DEF CanRead, runs
      <3>6. PICK c \in Nat : c = Counts(list)[m] /\ UpTo(list, m) = u + c
        BY <2>1, <3>2, CountFacts
      <3>7. PICK w \in Nat : w = c * r
        OBVIOUS
      <3>8. PICK s \in Seq(Slots) : s = ReadRun(runs[m])
        BY <3>5, RunSlots DEF runs
      <3>9. Len(s) = w
        BY <1>2, <3>5, <3>6, <3>7, <3>8, RunSlots DEF runs
      <3>10. ASSUME NEW q \in 0..(w - 1) PROVE s[q + 1] = StreamSlot(list, l + q)
        <4>1. Counts(list)[m] * RecordsPerCluster = w /\ UpTo(list, m - 1) * RecordsPerCluster = l
          BY <1>2, <2>1, <3>2, <3>3, <3>6, <3>7
        <4>2. \A x \in 0..(Counts(list)[m] * RecordsPerCluster - 1) :
                s[x + 1] = StreamSlot(list, UpTo(list, m - 1) * RecordsPerCluster + x)
          BY <3>5, <3>8, RunSlots DEF runs
        <4> QED
          BY <4>1, <4>2
      <3>11. PICK a : a = t \o s
        OBVIOUS
      <3>12. /\ a \in Seq(Slots) /\ Len(a) = l + w
             /\ \A k \in 1..(l + w) : a[k] = IF k <= l THEN t[k] ELSE s[k - l]
        BY <2>4, <3>9, <3>11, ConcatProperties
      <3>13. read[m] = a
        BY <2>5, <2>7, <3>8, <3>11
      <3>14. l + w = UpTo(list, m) * r
        <4>1. (u + c) * r = u * r + c * r
          OBVIOUS
        <4> QED
          BY <3>3, <3>6, <3>7, <4>1
      <3>15. ASSUME NEW k \in 1..(l + w) PROVE a[k] = StreamSlot(list, k - 1)
        <4>1. CASE k <= l
          BY <2>2, <2>3, <2>4, <3>12, <4>1
        <4>2. CASE ~(k <= l)
          <5>1. PICK q \in 0..(w - 1) : q = k - l - 1
            BY <4>2
          <5>2. q + 1 = k - l /\ l + q = k - 1
            BY <5>1
          <5> QED
            BY <3>10, <3>12, <4>2, <5>2
        <4> QED
          BY <4>1, <4>2
      <3>16. Good(m)
        BY <3>12, <3>13, <3>14, <3>15
      <3> HIDE DEF Good
      <3> QED
        BY <1>1, <2>1, <3>16
    <2> QED
      BY <2>6, <2>7
  <1>8. n \in Z
    <2> HIDE DEF Z
    <2>1. n \in Nat /\ \A k \in 0..(n - 1) : k \in Z => k + 1 \in Z
      BY <1>1, <1>7
    <2> QED
      BY <1>6, <2>1, SetInduction
  <1>9. Good(n)
    BY <1>8
  <1>10. PICK t \in Seq(Slots) : t = read[n]
    BY <1>9
  <1>11. PICK l \in Nat : l = Len(t) /\ (l < count => l = UpTo(list, n) * r)
    BY <1>9, <1>10, LenProperties
  <1>12. count <= l
    <2>1. n + 1 - 1 = n
      BY <1>1
    <2>2. count <= UpTo(list, n) * r
      BY <1>1, <1>2, <2>1 DEF CanRead, runs
    <2> QED
      BY <1>11, <2>2
  <1>13. PICK a : a = SubSeq(t, 1, count)
    OBVIOUS
  <1>14. a \in Seq(Slots) /\ Len(a) = count /\ \A k \in 1..count : a[k] = t[k]
    BY <1>11, <1>12, <1>13, SubSeqProperties
  <1>15. \A p \in 0..(count - 1) : a[p + 1] = StreamSlot(list, p)
    <2>1. ASSUME NEW p \in 0..(count - 1) PROVE a[p + 1] = StreamSlot(list, p)
      <3>1. PICK k \in 1..count : k = p + 1 /\ k - 1 = p
        OBVIOUS
      <3> QED
        BY <1>9, <1>10, <1>11, <1>12, <1>14, <3>1
    <2> QED
      BY <2>1
  <1> QED
    BY <1>4, <1>10, <1>13, <1>14, <1>15 DEF runs

-----------------------------------------------------------------------------
(* Part 6: records.                                                        *)

LEMMA MaxIsTaken ==
  ASSUME NEW n \in Nat, NEW P, P \subseteq 1..n, P # {}
  PROVE  Max(P) \in P
  <1> DEFINE Q == {n - i : i \in P}
  <1>1. Q \subseteq Nat
    OBVIOUS
  <1>2. PICK q \in Q : \A k \in Q : q <= k
    <2>1. PICK p \in Q : TRUE
      OBVIOUS
    <2> HIDE DEF Q
    <2> QED
      BY <1>1, <2>1, LeastExists
  <1>3. PICK m \in P : q = n - m
    OBVIOUS
  <1>4. \A y \in P : m >= y
    <2>1. ASSUME NEW y \in P PROVE m >= y
      <3>1. n - y \in Q
        OBVIOUS
      <3> QED
        BY <1>2, <1>3, <3>1
    <2> QED
      BY <2>1
  <1> QED
    BY <1>4 DEF Max

LEMMA NamesFacts ==
  ASSUME NEW slot, slot.attributes \in Seq(ToSet(slot.attributes))
  PROVE  /\ IsSequence(NamesOf(slot))
         /\ ToSet(NamesOf(slot)) = {slot.attributes[i] : i \in PlacesOf(slot, "name")}
  <1> DEFINE list == slot.attributes
             n == Len(list)
             S == ToSet(list)
             P == PlacesOf(slot, "name")
             lists == [i \in DOMAIN list |-> IF i \in P THEN <<list[i]>> ELSE << >>]
  <1>1. n \in Nat /\ DOMAIN list = 1..n /\ \A i \in 1..n : list[i] \in S
    BY LenProperties, ElementOfSeq
  <1>2. P \subseteq 1..n
    BY <1>1 DEF PlacesOf, Seen
  <1> HIDE DEF P, S
  <1>3. lists \in Seq(Seq(S))
    <2>1. ASSUME NEW i \in 1..n PROVE (IF i \in P THEN <<list[i]>> ELSE << >>) \in Seq(S)
      BY <1>1, EmptySeq
    <2>2. lists \in [1..n -> Seq(S)]
      BY <1>1, <2>1
    <2> QED
      BY <1>1, <2>2, SeqDef
  <1>4. NamesOf(slot) = FlattenSeq(lists)
    BY DEF NamesOf, P
  <1>5. /\ FlattenSeq(lists) \in Seq(S)
        /\ ToSet(FlattenSeq(lists)) = UNION {ToSet(lists[i]) : i \in DOMAIN lists}
    <2> HIDE DEF lists
    <2> QED
      BY <1>3, FlattenFacts
  <1>6. ASSUME NEW i \in 1..n PROVE ToSet(lists[i]) = IF i \in P THEN {list[i]} ELSE {}
    <2>1. PICK x : x = list[i]
      OBVIOUS
    <2>2. ToSet(<<x>>) = {x} /\ ToSet(<< >>) = {}
      BY DEF ToSet
    <2>3. lists[i] = IF i \in P THEN <<x>> ELSE << >>
      BY <1>1, <2>1
    <2> HIDE DEF lists
    <2> QED
      BY <2>1, <2>2, <2>3
  <1>7. DOMAIN lists = 1..n
    BY <1>1
  <1> HIDE DEF lists
  <1>8. UNION {ToSet(lists[i]) : i \in DOMAIN lists} = {list[i] : i \in P}
    BY <1>2, <1>6, <1>7
  <1> QED
    BY <1>4, <1>5, <1>8, ListIsSequence DEF P

(* The runs of a record that was parsed are those of its list.             *)
LEMMA DataFacts ==
  ASSUME NEW slot, IsSlot(slot), IsParsed(slot)
  PROVE  /\ DataOf(slot).size \in Nat
         /\ ~DataOf(slot).resident =>
              /\ IsList(DataOf(slot).list) /\ IsRunList(DataOf(slot).list)
              /\ DataOf(slot).runs = RunsOf(DataOf(slot).list)
  <1> DEFINE list == slot.attributes
             P == PlacesOf(slot, "data")
  <1>1. list \in Seq(ToSet(list)) /\ \A a \in ToSet(list) : IsAttribute(a)
    BY DEF IsSlot, IsParsed
  <1>2. /\ Len(list) \in Nat /\ DOMAIN list = 1..Len(list)
        /\ \A i \in 1..Len(list) : list[i] \in ToSet(list)
    BY <1>1, LenProperties, ElementOfSeq
  <1>3. CASE P = {}
    <2>1. DataOf(slot) = NoData
      BY <1>3 DEF DataOf
    <2>2. PICK l : l = NoData.list
      OBVIOUS
    <2>3. l.elements = << >> /\ l.cut = FALSE /\ NoData.runs = << >> /\ NoData.size = 0
      BY <2>2 DEF NoData
    <2>4. IsList(l) /\ IsRunList(l)
      BY <2>3, EmptySeq DEF IsList, IsRunList
    <2>5. RunsOf(l) = << >>
      BY <2>3 DEF RunsOf
    <2> QED
      BY <2>1, <2>2, <2>3, <2>4, <2>5
  <1>4. CASE P # {}
    <2>1. P \subseteq 1..Len(list)
      BY <1>2 DEF PlacesOf, Seen
    <2>2. Max(P) \in P
      BY <1>2, <1>4, <2>1, MaxIsTaken
    <2>3. PICK a : a = list[Max(P)]
      OBVIOUS
    <2>4. a.type = "data" /\ ~Unreadable(a)
      BY <2>2, <2>3 DEF PlacesOf, IsParsed
    <2>5. IsAttribute(a)
      BY <1>1, <1>2, <2>1, <2>2, <2>3
    <2>6. a.size \in Nat /\ IsList(a.list)
      BY <2>4, <2>5 DEF IsAttribute
    <2>7. ~a.resident => IsRunList(a.list)
      BY <2>4 DEF Unreadable
    <2>8. DataOf(slot) = [resident |-> a.resident, size |-> a.size, list |-> a.list,
                          runs |-> IF a.resident THEN << >> ELSE RunsOf(a.list)]
      BY <1>4, <2>3 DEF DataOf
    <2> QED
      BY <2>6, <2>7, <2>8
  <1> QED
    BY <1>3, <1>4

(* What a record adds to the entries.                                      *)
LEMMA EntriesFacts ==
  ASSUME NEW slot, IsSlot(slot), IsParsed(slot), NEW n
  PROVE  /\ IsSequence(EntriesFor(n, slot))
         /\ ToSet(EntriesFor(n, slot))
              = {EntryFor(n, slot, slot.attributes[i]) : i \in PlacesOf(slot, "name")}
  <1>1. slot.attributes \in Seq(ToSet(slot.attributes))
    BY DEF IsSlot, IsParsed
  <1>2. PICK names : names = NamesOf(slot)
    OBVIOUS
  <1>3. IsSequence(names) /\ ToSet(names) = {slot.attributes[i] : i \in PlacesOf(slot, "name")}
    BY <1>1, <1>2, NamesFacts
  <1>4. PICK m \in Nat : m = Len(names) /\ DOMAIN names = 1..m
    BY <1>3, LenProperties DEF IsSequence
  <1>5. PICK f : f = EntriesFor(n, slot)
    OBVIOUS
  <1>6. f = [i \in 1..m |-> EntryFor(n, slot, names[i])]
    BY <1>2, <1>4, <1>5 DEF EntriesFor
  <1>7. /\ DOMAIN f = 1..m /\ f \in [1..m -> {f[i] : i \in 1..m}]
        /\ \A i \in 1..m : f[i] = EntryFor(n, slot, names[i])
    BY <1>6
  <1>8. IsSequence(f)
    BY <1>7, SeqDef DEF IsSequence
  <1>9. ToSet(f) = {EntryFor(n, slot, a) : a \in ToSet(names)}
    BY <1>4, <1>7 DEF ToSet
  <1> QED
    BY <1>3, <1>5, <1>8, <1>9

-----------------------------------------------------------------------------
(* Part 7: the table.                                                      *)

LEMMA ReadableMeans ==
  ASSUME NEW list, IsList(list), IsRunList(list), NEW i \in 1..Len(list.elements)
  PROVE  IsReadable(RunsOf(list)[i]) <=>
           \A k \in ClustersUpTo(list, i - 1)..(ClustersUpTo(list, i) - 1) :
             LcnAt(list, k) \in DOMAIN volume.clusters \cup {Sparse}
  <1>1. PICK run : run = RunsOf(list)[i]
    OBVIOUS
  <1>2. PICK c \in Nat : c = Counts(list)[i]
    BY CountFacts
  <1>3. run.count = c /\ run.lcn \in Nat \cup {Sparse}
    BY <1>1, <1>2, RunFacts
  <1>4. i - 1 \in 0..Len(list.elements) /\ Len(list.elements) \in Nat
    BY ElementFacts
  <1>5. PICK u \in Nat : u = UpTo(list, i - 1) /\ UpTo(list, i) = u + c
    BY <1>2, <1>4, CountFacts
  <1>6. ClustersUpTo(list, i - 1) = u /\ ClustersUpTo(list, i) = u + c
    BY <1>5, CountFacts
  <1>7. ASSUME NEW k \in u..(u + c - 1)
        PROVE  LcnAt(list, k) = IF run.lcn = Sparse THEN Sparse ELSE run.lcn + (k - u)
    <2>1. k \in Nat /\ UpTo(list, i - 1) <= k /\ k < UpTo(list, i)
      BY <1>2, <1>5
    <2>2. LcnAt(list, k) = IF RunsOf(list)[i].lcn = Sparse THEN Sparse
                           ELSE RunsOf(list)[i].lcn + (k - UpTo(list, i - 1))
      BY <2>1, ClusterOfRun
    <2> QED
      BY <1>1, <1>5, <2>2
  <1>8. CASE run.lcn = Sparse
    <2>1. IsReadable(run)
      BY <1>8 DEF IsReadable
    <2> QED
      BY <1>1, <1>6, <1>7, <1>8, <2>1
  <1>9. CASE run.lcn # Sparse
    <2>1. PICK l \in Nat : l = run.lcn
      BY <1>3, <1>9
    <2>2. IsReadable(run) <=> \A j \in 1..c : l + j - 1 \in DOMAIN volume.clusters
      BY <1>3, <1>9, <2>1 DEF IsReadable, InImage
    <2>3. ASSUME NEW k \in u..(u + c - 1)
          PROVE  LcnAt(list, k) = l + (k - u) /\ LcnAt(list, k) # Sparse
      <3>1. LcnAt(list, k) = l + (k - u)
        BY <1>7, <1>9, <2>1
      <3> QED
        BY <1>2, <1>5, <2>1, <3>1 DEF Sparse
    <2>4. ASSUME IsReadable(run), NEW k \in u..(u + c - 1)
          PROVE  LcnAt(list, k) \in DOMAIN volume.clusters
      <3>1. PICK j \in 1..c : j = k - u + 1
        OBVIOUS
      <3>2. l + j - 1 = l + (k - u)
        BY <3>1
      <3> QED
        BY <2>2, <2>3, <2>4, <3>2
    <2>5. ASSUME \A k \in u..(u + c - 1) : LcnAt(list, k) \in DOMAIN volume.clusters \cup {Sparse},
                 NEW j \in 1..c
          PROVE  l + j - 1 \in DOMAIN volume.clusters
      <3>1. PICK k \in u..(u + c - 1) : k = u + j - 1
        OBVIOUS
      <3>2. l + (k - u) = l + j - 1
        BY <3>1
      <3> QED
        BY <2>3, <2>5, <3>2
    <2> QED
      BY <1>1, <1>6, <2>2, <2>4, <2>5
  <1> QED
    BY <1>8, <1>9

LEMMA RecordZeroIsSlot ==
  ASSUME IsVolume(volume)
  PROVE  IsSlot(RecordZero)
  <1>1. CASE InImage(volume.mft)
    <2>1. 1 \in 1..RecordsPerCluster /\ volume.mft \in DOMAIN volume.clusters
      BY <1>1, MftAssumption DEF InImage
    <2>2. volume.clusters[volume.mft][1] \in Slots
      BY <2>1, ClusterFacts
    <2>3. IsSlot(Zero)
      BY DEF IsSlot, Zero
    <2> QED
      BY <1>1, <2>2, <2>3 DEF RecordZero, ReadCluster, Slots
  <1>2. CASE ~InImage(volume.mft)
    BY <1>2 DEF RecordZero, IsSlot, Damaged
  <1> QED
    BY <1>1, <1>2

LEMMA SizeFacts ==
  ASSUME IsVolume(volume), IsParsed(RecordZero)
  PROVE  /\ TableData.size \in Nat /\ Size \in Nat
         /\ TableData.size % RecordSize = 0 <=> TableData.size = Size * RecordSize
         /\ ~TableData.resident =>
              /\ IsList(TableData.list) /\ IsRunList(TableData.list)
              /\ TableData.runs = RunsOf(TableData.list)
  <1>1. PICK s : s = RecordZero
    OBVIOUS
  <1>2. IsSlot(s) /\ IsParsed(s) /\ TableData = DataOf(s)
    BY <1>1, RecordZeroIsSlot DEF TableData
  <1>3. PICK n \in Nat : n = TableData.size
    BY <1>2, DataFacts
  <1>4. PICK r \in Nat \ {0} : r = RecordSize
    BY MftAssumption
  <1>5. /\ n \div r \in Nat /\ n = r * (n \div r) + (n % r) /\ n % r \in 0..(r - 1)
    BY DivFacts
  <1>6. PICK d \in Nat : d = n \div r
    BY <1>5
  <1>7. r * d = d * r
    OBVIOUS
  <1>8. Size = d
    BY <1>3, <1>4, <1>6 DEF Size
  <1>9. n % r = 0 <=> n = d * r
    <2>1. PICK p \in Nat : p = d * r /\ p = r * d
      BY <1>7
    <2> QED
      BY <1>5, <1>6, <2>1
  <1> QED
    BY <1>2, <1>3, <1>4, <1>8, <1>9, DataFacts

(* The table is read exactly if it lies in the image.                      *)
LEMMA OpenedIsSound ==
  ASSUME IsVolume(volume)
  PROVE  IsOpened <=> TableIsSound
  <1>1. ASSUME IsParsed(RecordZero), ~TableData.resident
        PROVE  CanRead(TableData.runs, Size) <=>
                 /\ Size <= Clusters(TableData.list) * RecordsPerCluster
                 /\ \A i \in DOMAIN TableData.list.elements :
                      ClustersUpTo(TableData.list, i - 1) * RecordsPerCluster < Size =>
                        \A k \in ClustersUpTo(TableData.list, i - 1)
                                   ..(ClustersUpTo(TableData.list, i) - 1) :
                          LcnAt(TableData.list, k) \in DOMAIN volume.clusters \cup {Sparse}
    <2>1. PICK list : list = TableData.list
      OBVIOUS
    <2>2. IsList(list) /\ IsRunList(list) /\ TableData.runs = RunsOf(list)
      BY <1>1, <2>1, SizeFacts
    <2>3. PICK n \in Nat : n = Len(list.elements) /\ DOMAIN list.elements = 1..n
      BY <2>2, ElementFacts
    <2>4. /\ Len(RunsOf(list)) = n /\ DOMAIN RunsOf(list) = 1..n
          /\ \A i : CountBefore(RunsOf(list), i) = UpTo(list, i - 1)
      BY <2>2, <2>3, RunFacts
    <2>5. \A i : ClustersUpTo(list, i) = UpTo(list, i)
      BY <2>2, CountFacts
    <2>6. CountBefore(RunsOf(list), n + 1) = Clusters(list)
      <3>1. n + 1 - 1 = n
        OBVIOUS
      <3> QED
        BY <2>3, <2>4, <2>5, <3>1 DEF Clusters
    <2>7. \A i \in 1..n : CountBefore(RunsOf(list), i) = ClustersUpTo(list, i - 1)
      BY <2>4, <2>5
    <2>8. \A i \in 1..n : IsReadable(RunsOf(list)[i]) <=>
            \A k \in ClustersUpTo(list, i - 1)..(ClustersUpTo(list, i) - 1) :
              LcnAt(list, k) \in DOMAIN volume.clusters \cup {Sparse}
      BY <2>2, <2>3, ReadableMeans
    <2>9. CanRead(RunsOf(list), Size) <=>
            /\ \A i \in 1..n : CountBefore(RunsOf(list), i) * RecordsPerCluster < Size =>
                                 IsReadable(RunsOf(list)[i])
            /\ Size <= CountBefore(RunsOf(list), n + 1) * RecordsPerCluster
      BY <2>4 DEF CanRead
    <2> QED
      BY <2>1, <2>2, <2>3, <2>6, <2>7, <2>8, <2>9
  <1>2. ASSUME IsParsed(RecordZero), TableData.size > 0
        PROVE  PlacesOf(RecordZero, "data") # {} /\
               \E i \in DOMAIN RecordZero.attributes : RecordZero.attributes[i].type = "data"
    <2>1. PlacesOf(RecordZero, "data") # {}
      <3>1. PlacesOf(RecordZero, "data") = {} => TableData = NoData
        BY DEF TableData, DataOf
      <3>2. NoData.size = 0
        BY DEF NoData
      <3> QED
        BY <1>2, <3>1, <3>2
    <2> QED
      BY <2>1 DEF PlacesOf, Seen
  <1>3. CASE IsParsed(RecordZero)
    BY <1>1, <1>2, <1>3, SizeFacts DEF IsOpened, TableIsSound, IsTable
  <1>4. CASE ~IsParsed(RecordZero)
    BY <1>4 DEF IsOpened, TableIsSound
  <1> QED
    BY <1>3, <1>4

(* The slots of the table, once it is read.                                *)
LEMMA TableIsStream ==
  ASSUME IsVolume(volume), IsOpened
  PROVE  /\ Size \in Nat
         /\ Len(ReadRuns(TableData.runs, Size)) = Size
         /\ \A n \in 0..(Size - 1) :
              /\ ReadRuns(TableData.runs, Size)[n + 1] = SlotAt(n)
              /\ IsSlot(SlotAt(n))
  <1>1. IsParsed(RecordZero) /\ ~TableData.resident /\ CanRead(TableData.runs, Size)
    BY DEF IsOpened, IsTable
  <1>2. PICK list : list = TableData.list
    OBVIOUS
  <1>3. Size \in Nat /\ IsList(list) /\ IsRunList(list) /\ TableData.runs = RunsOf(list)
    BY <1>1, <1>2, SizeFacts
  <1>4. PICK s \in Nat : s = Size
    BY <1>3
  <1>5. CanRead(RunsOf(list), s)
    BY <1>1, <1>3, <1>4
  <1>6. PICK t : t = ReadRuns(RunsOf(list), s)
    OBVIOUS
  <1>7. t \in Seq(Slots) /\ Len(t) = s /\ \A p \in 0..(s - 1) : t[p + 1] = StreamSlot(list, p)
    BY <1>3, <1>5, <1>6, StreamIsRead
  <1>8. \A p : SlotAt(p) = StreamSlot(list, p)
    BY <1>2 DEF SlotAt, StreamSlot
  <1>9. ASSUME NEW n \in 0..(s - 1) PROVE t[n + 1] = SlotAt(n) /\ IsSlot(SlotAt(n))
    <2>1. n + 1 \in 1..s
      OBVIOUS
    <2>2. t[n + 1] \in Slots
      BY <1>7, <2>1, ElementOfSeq
    <2>3. \A x \in Slots : IsSlot(x)
      BY DEF Slots, IsSlot, Zero
    <2> QED
      BY <1>7, <1>8, <2>2, <2>3
  <1> QED
    BY <1>3, <1>4, <1>6, <1>7, <1>9

-----------------------------------------------------------------------------
(* Part 8: the walk.                                                       *)

(* The slots in front of the index are done.                               *)
Walked ==
  /\ Size \in Nat /\ Len(table) = Size
  /\ \A n \in 0..(Size - 1) : table[n + 1] = SlotAt(n) /\ IsSlot(table[n + 1])
  /\ index \in 0..Size
  /\ \A n \in 0..(index - 1) : table[n + 1].kind = "zero" \/ IsParsed(table[n + 1])
  /\ status = "done" => index = Size
  /\ status = "failed" => /\ index < Size /\ table[index + 1].kind # "zero"
                          /\ ~IsParsed(table[index + 1])

(* The entries of one record.                                              *)
EntriesOf(slot, n) == {EntryFor(n, slot, slot.attributes[i]) : i \in PlacesOf(slot, "name")}

(* And what they have been done with.                                      *)
FoundInSlots ==
  /\ IsSequence(found)
  /\ \A e \in Listed : \E n \in 0..(index - 1) :
       IsParsed(table[n + 1]) /\ e \in EntriesOf(table[n + 1], n)
  /\ \A n \in 0..(index - 1) : IsParsed(table[n + 1]) => EntriesOf(table[n + 1], n) \subseteq Listed

WalkInv ==
  /\ volume \in Volumes
  /\ status \in {"opening", "processing", "done", "failed"}
  /\ status = "opening" => index = 0 /\ found = << >>
  /\ status \in {"processing", "done"} => IsOpened
  /\ status # "opening" /\ IsOpened => Walked
  /\ status = "failed" /\ ~IsOpened => index = 0 /\ found = << >>
  /\ FoundInSlots

LEMMA VolumeStays ==
  ASSUME volume' = volume
  PROVE  /\ RecordZero' = RecordZero /\ TableData' = TableData /\ Size' = Size
         /\ IsOpened' <=> IsOpened
         /\ \A n : SlotAt(n)' = SlotAt(n)
  <1>1. RecordZero' = RecordZero
    BY DEF RecordZero, InImage, ReadCluster
  <1>2. TableData' = TableData /\ Size' = Size
    BY <1>1 DEF TableData, Size
  <1>3. \A run : IsReadable(run)' <=> IsReadable(run)
    BY DEF IsReadable, InImage
  <1>4. IsOpened' <=> IsOpened
    BY <1>1, <1>2, <1>3 DEF IsOpened, CanRead
  <1>5. \A n : SlotAt(n)' = SlotAt(n)
    BY <1>2 DEF SlotAt
  <1> QED
    BY <1>1, <1>2, <1>4, <1>5

LEMMA OpenStep ==
  ASSUME WalkInv, OpenTable
  PROVE  WalkInv'
  <1>1. /\ volume \in Volumes /\ IsVolume(volume) /\ IsOpened /\ volume' = volume
        /\ index = 0 /\ index' = 0 /\ found' = << >> /\ status' = "processing"
    BY VolumeAssumption DEF WalkInv, OpenTable, results
  <1>2. PICK t : t = ReadRuns(TableData.runs, Size)
    OBVIOUS
  <1>3. /\ Size \in Nat /\ Len(t) = Size
        /\ \A n \in 0..(Size - 1) : t[n + 1] = SlotAt(n) /\ IsSlot(SlotAt(n))
    BY <1>1, <1>2, TableIsStream
  <1>4. table' = t
    BY <1>2 DEF OpenTable
  <1>5. Size' = Size /\ IsOpened' /\ \A n : SlotAt(n)' = SlotAt(n)
    BY <1>1, VolumeStays
  <1>6. Walked'
    BY <1>1, <1>3, <1>4, <1>5 DEF Walked
  <1>7. FoundInSlots'
    <2>1. IsSequence(found')
      BY <1>1, EmptySeq DEF IsSequence
    <2>2. Listed' = {}
      BY <1>1 DEF Listed
    <2> QED
      BY <1>1, <2>1, <2>2 DEF FoundInSlots
  <1> QED
    BY <1>1, <1>5, <1>6, <1>7 DEF WalkInv

LEMMA StayStep ==
  ASSUME WalkInv, UNCHANGED <<volume, table, index, found>>
  PROVE  /\ FoundInSlots' /\ Size' = Size /\ (IsOpened' <=> IsOpened)
         /\ \A n : SlotAt(n)' = SlotAt(n)
  <1>1. Listed' = Listed
    BY DEF Listed
  <1>2. FoundInSlots'
    BY <1>1 DEF WalkInv, FoundInSlots
  <1> QED
    BY <1>2, VolumeStays

LEMMA RefuseTableStep ==
  ASSUME WalkInv, RefuseTable
  PROVE  WalkInv'
  <1>1. UNCHANGED <<volume, table, index, found>>
    BY DEF RefuseTable, results
  <1> QED
    BY <1>1, StayStep DEF WalkInv, RefuseTable

(* A turn of the loop is one within the table.                             *)
LEMMA TurnFacts ==
  ASSUME WalkInv, InTable
  PROVE  /\ IsOpened /\ Walked /\ status = "processing"
         /\ index \in 0..(Size - 1) /\ Slot = SlotAt(index) /\ IsSlot(Slot)
  <1>1. IsOpened /\ Walked /\ status = "processing" /\ index < Len(table)
    BY DEF WalkInv, InTable
  <1>2. index \in 0..(Size - 1)
    BY <1>1 DEF Walked
  <1> QED
    BY <1>1, <1>2 DEF Walked, Slot

(* The loop goes on.                                                       *)
LEMMA AdvanceStep ==
  ASSUME WalkInv, InTable, Slot.kind = "zero" \/ IsParsed(Slot),
         UNCHANGED <<volume, table, status>>, index' = index + 1
  PROVE  Walked' /\ (IsOpened' <=> IsOpened) /\ index \in Nat
  <1>1. /\ IsOpened /\ Walked /\ status = "processing"
        /\ index \in 0..(Size - 1)
    BY TurnFacts
  <1>2. Size' = Size /\ (IsOpened' <=> IsOpened) /\ \A n : SlotAt(n)' = SlotAt(n)
    BY VolumeStays
  <1>3. PICK i \in Nat : i = index /\ index' = i + 1
    BY <1>1 DEF Walked
  <1>4. \A n \in 0..(index' - 1) : table[n + 1].kind = "zero" \/ IsParsed(table[n + 1])
    <2>1. \A n \in 0..(index' - 1) : n \in 0..(index - 1) \/ n = i
      BY <1>3
    <2> QED
      BY <1>1, <1>3, <2>1 DEF Walked, Slot
  <1>5. index' \in 0..Size'
    BY <1>1, <1>2, <1>3 DEF Walked
  <1> QED
    BY <1>1, <1>2, <1>3, <1>4, <1>5 DEF Walked

LEMMA SkipStep ==
  ASSUME WalkInv, SkipZero
  PROVE  WalkInv'
  <1>1. /\ InTable /\ Slot.kind = "zero" /\ UNCHANGED <<volume, table, status, found>>
        /\ index' = index + 1 /\ status = "processing"
    BY DEF SkipZero, results, InTable
  <1>2. Walked' /\ (IsOpened' <=> IsOpened) /\ index \in Nat
    BY <1>1, AdvanceStep
  <1>3. PICK i \in Nat : i = index /\ index' = i + 1
    BY <1>1, <1>2
  <1>4. ~IsParsed(table[i + 1])
    BY <1>1, <1>3 DEF IsParsed, Slot
  <1>5. FoundInSlots'
    <2>1. Listed' = Listed
      BY <1>1 DEF Listed
    <2>2. \A n \in 0..(index' - 1) : n \in 0..(index - 1) \/ n = i
      BY <1>3
    <2>3. \A n \in 0..(index - 1) : n \in 0..(index' - 1)
      BY <1>3
    <2> QED
      BY <1>1, <1>4, <2>1, <2>2, <2>3 DEF WalkInv, FoundInSlots
  <1> QED
    BY <1>1, <1>2, <1>5 DEF WalkInv

LEMMA RefuseRecordStep ==
  ASSUME WalkInv, RefuseRecord
  PROVE  WalkInv'
  <1>1. /\ UNCHANGED <<volume, table, index, found>> /\ status' = "failed"
        /\ InTable /\ Slot.kind # "zero" /\ ~IsParsed(Slot)
    BY DEF RefuseRecord, results
  <1>2. IsOpened /\ Walked /\ index \in 0..(Size - 1)
    BY <1>1, TurnFacts
  <1>3. FoundInSlots' /\ Size' = Size /\ (IsOpened' <=> IsOpened) /\ \A n : SlotAt(n)' = SlotAt(n)
    BY <1>1, StayStep
  <1>4. Walked'
    BY <1>1, <1>2, <1>3 DEF Walked, Slot
  <1> QED
    BY <1>1, <1>2, <1>3, <1>4 DEF WalkInv

LEMMA FinishStep ==
  ASSUME WalkInv, Finish
  PROVE  WalkInv'
  <1>1. /\ UNCHANGED <<volume, table, index, found>> /\ status' = "done"
        /\ status = "processing" /\ index = Len(table)
    BY DEF Finish, results
  <1>2. IsOpened /\ Walked
    BY <1>1 DEF WalkInv
  <1>3. FoundInSlots' /\ Size' = Size /\ (IsOpened' <=> IsOpened) /\ \A n : SlotAt(n)' = SlotAt(n)
    BY <1>1, StayStep
  <1>4. Walked'
    BY <1>1, <1>2, <1>3 DEF Walked
  <1> QED
    BY <1>1, <1>2, <1>3, <1>4 DEF WalkInv

LEMMA ProcessStep ==
  ASSUME WalkInv, ProcessRecord
  PROVE  WalkInv'
  <1>1. /\ InTable /\ IsParsed(Slot) /\ UNCHANGED <<volume, table, status>>
        /\ index' = index + 1 /\ status = "processing"
        /\ found' = found \o EntriesFor(index, Slot)
    BY DEF ProcessRecord, InTable
  <1>2. Walked' /\ (IsOpened' <=> IsOpened) /\ index \in Nat
    BY <1>1, AdvanceStep
  <1>3. PICK i \in Nat : i = index /\ index' = i + 1
    BY <1>1, <1>2
  <1>4. PICK slot : slot = table[i + 1] /\ Slot = slot
    BY <1>3 DEF Slot
  <1>5. IsSlot(slot) /\ IsParsed(slot)
    BY <1>1, <1>4, TurnFacts
  <1>6. PICK s : s = EntriesFor(i, slot)
    OBVIOUS
  <1>7. IsSequence(s) /\ ToSet(s) = EntriesOf(slot, i)
    BY <1>5, <1>6, EntriesFacts DEF EntriesOf
  <1>8. PICK f : f = found
    OBVIOUS
  <1>9. IsSequence(f) /\ found' = f \o s
    BY <1>1, <1>3, <1>4, <1>6, <1>8 DEF WalkInv, FoundInSlots
  <1>10. IsSequence(f \o s) /\ ToSet(f \o s) = ToSet(f) \cup ToSet(s)
    <2> DEFINE A == {f[k] : k \in DOMAIN f}
               B == {s[k] : k \in DOMAIN s}
               S == A \cup B
    <2>1. f \in Seq(A) /\ s \in Seq(B)
      BY <1>7, <1>9 DEF IsSequence
    <2>2. A \subseteq S /\ B \subseteq S
      OBVIOUS
    <2> HIDE DEF A, B, S
    <2>3. f \in Seq(S) /\ s \in Seq(S)
      BY <2>1, <2>2, ListOfMore
    <2> QED
      BY <2>3, ToSetConcat, ListIsSequence
  <1>11. Listed = ToSet(f) /\ Listed' = ToSet(f \o s)
    <2>1. Listed' = {found'[k] : k \in DOMAIN found'}
      BY DEF Listed
    <2>2. PICK g : g = f \o s
      OBVIOUS
    <2>3. Listed' = ToSet(g)
      BY <1>9, <2>1, <2>2 DEF ToSet
    <2> QED
      BY <1>8, <2>2, <2>3 DEF Listed, ToSet
  <1>12. Listed' = Listed \cup EntriesOf(slot, i)
    BY <1>7, <1>10, <1>11
  <1>13. FoundInSlots'
    <2>1. \A n \in 0..(index' - 1) : n \in 0..(index - 1) \/ n = i
      BY <1>3
    <2>2. i \in 0..(index' - 1) /\ \A n \in 0..(index - 1) : n \in 0..(index' - 1)
      BY <1>3
    <2>3. IsSequence(found')
      BY <1>9, <1>10
    <2>4. /\ \A e \in Listed : \E n \in 0..(index - 1) :
               IsParsed(table[n + 1]) /\ e \in EntriesOf(table[n + 1], n)
          /\ \A n \in 0..(index - 1) :
               IsParsed(table[n + 1]) => EntriesOf(table[n + 1], n) \subseteq Listed
      BY DEF WalkInv, FoundInSlots
    <2>5. \A e \in Listed' : \E n \in 0..(index' - 1) :
            IsParsed(table[n + 1]) /\ e \in EntriesOf(table[n + 1], n)
      BY <1>4, <1>5, <1>12, <2>2, <2>4
    <2>6. \A n \in 0..(index' - 1) :
            IsParsed(table[n + 1]) => EntriesOf(table[n + 1], n) \subseteq Listed'
      BY <1>4, <1>12, <2>1, <2>4
    <2> QED
      BY <1>1, <2>3, <2>5, <2>6 DEF FoundInSlots
  <1> QED
    BY <1>1, <1>2, <1>13 DEF WalkInv

LEMMA WalkInvariant == Spec => []WalkInv
  <1>1. Init => WalkInv
    <2> SUFFICES ASSUME Init PROVE WalkInv
      OBVIOUS
    <2>1. Listed = {} /\ IsSequence(found)
      BY EmptySeq DEF Init, Listed, IsSequence
    <2> QED
      BY <2>1 DEF Init, WalkInv, FoundInSlots
  <1>2. WalkInv /\ [Next]_vars => WalkInv'
    <2> SUFFICES ASSUME WalkInv, [Next]_vars PROVE WalkInv'
      OBVIOUS
    <2>1. CASE UNCHANGED vars
      <3>1. UNCHANGED <<volume, table, index, found, status>>
        BY <2>1 DEF vars, results
      <3>2. /\ FoundInSlots' /\ Size' = Size /\ (IsOpened' <=> IsOpened)
            /\ \A n : SlotAt(n)' = SlotAt(n)
        BY <3>1, StayStep
      <3>3. Walked => Walked'
        BY <3>1, <3>2 DEF Walked
      <3> QED
        BY <3>1, <3>2, <3>3 DEF WalkInv
    <2> QED
      BY <2>1, OpenStep, RefuseTableStep, SkipStep, RefuseRecordStep, ProcessStep, FinishStep DEF Next
  <1> QED
    BY <1>1, <1>2, PTL DEF Spec

-----------------------------------------------------------------------------
(* The results.                                                            *)

(* A fragmented table: after the investigation every name of the record in *)
(* the n-th slot of the table is listed with the number n, wherever the    *)
(* clusters of the table lie, and no other name is (investigate, read_runs,*)
(* DataRun::parse).                                                        *)
THEOREM NamesKeepTheirSlots == Spec => []NamesHaveTheirSlots
  <1> DEFINE Row(e) == [name |-> e.name, parent |-> e.parent, inUse |-> e.inUse]
  <1>1. ASSUME WalkInv, status = "done", NEW n \in 0..(Size - 1)
        PROVE  {Row(e) : e \in {x \in Listed : x.id = n}}
                 = IF SlotAt(n).kind = "zero" THEN {}
                   ELSE LET attributes == SlotAt(n).attributes IN
                        {[name |-> attributes[i].name, parent |-> attributes[i].parent,
                          inUse |-> SlotAt(n).inUse] :
                           i \in {k \in DOMAIN attributes :
                                    /\ attributes[k].type = "name"
                                    /\ \A j \in 1..k : attributes[j].type # "end"}}
    <2>1. Walked /\ FoundInSlots /\ index = Size
      BY <1>1 DEF WalkInv, Walked
    <2>2. PICK slot : slot = SlotAt(n) /\ table[n + 1] = slot
      BY <2>1 DEF Walked
    <2>3. slot.kind = "zero" \/ IsParsed(slot)
      BY <2>1, <2>2 DEF Walked
    <2>4. \A m, s : \A e \in EntriesOf(s, m) : e.id = m
      BY DEF EntriesOf, EntryFor
    <2>5. {x \in Listed : x.id = n} = IF IsParsed(slot) THEN EntriesOf(slot, n) ELSE {}
      BY <2>1, <2>2, <2>4 DEF FoundInSlots
    <2>6. CASE slot.kind = "zero"
      BY <2>2, <2>5, <2>6 DEF IsParsed
    <2>7. CASE slot.kind # "zero"
      <3>1. IsParsed(slot)
        BY <2>3, <2>7
      <3>2. PICK P : P = PlacesOf(slot, "name")
        OBVIOUS
      <3>3. P = {k \in DOMAIN slot.attributes :
                   /\ slot.attributes[k].type = "name"
                   /\ \A j \in 1..k : slot.attributes[j].type # "end"}
        BY <3>2 DEF PlacesOf, Seen
      <3>4. {Row(e) : e \in EntriesOf(slot, n)}
              = {Row(EntryFor(n, slot, slot.attributes[i])) : i \in P}
        BY <3>2 DEF EntriesOf
      <3>5. \A i : Row(EntryFor(n, slot, slot.attributes[i]))
                     = [name |-> slot.attributes[i].name, parent |-> slot.attributes[i].parent,
                        inUse |-> slot.inUse]
        BY DEF EntryFor
      <3>6. {Row(e) : e \in EntriesOf(slot, n)}
              = {[name |-> slot.attributes[i].name, parent |-> slot.attributes[i].parent,
                  inUse |-> slot.inUse] : i \in P}
        BY <3>4, <3>5
      <3> QED
        BY <2>2, <2>5, <2>7, <3>1, <3>3, <3>6
    <2> QED
      BY <2>6, <2>7
  <1>2. WalkInv => NamesHaveTheirSlots
    BY <1>1 DEF NamesHaveTheirSlots
  <1> QED
    BY <1>2, WalkInvariant, PTL

(* The investigation fails if the table cannot be read or holds a record   *)
(* that cannot, and only then (investigate, process_mft_record).           *)
THEOREM DamageDecides == Spec => []FailsOnlyOnDamage
  <1>1. ASSUME WalkInv
        PROVE  FailsOnlyOnDamage
    <2>1. IsOpened <=> TableIsSound
      BY <1>1, VolumeAssumption, OpenedIsSound DEF WalkInv
    <2>2. ASSUME status = "done"
          PROVE  /\ TableIsSound
                 /\ \A n \in 0..(Size - 1) : SlotAt(n).kind = "zero" \/ IsParsed(SlotAt(n))
      <3>1. IsOpened /\ Walked /\ index = Size
        BY <1>1, <2>2 DEF WalkInv, Walked
      <3> QED
        BY <2>1, <3>1 DEF Walked
    <2>3. ASSUME status = "failed", TableIsSound
          PROVE  \E n \in 0..(Size - 1) : SlotAt(n).kind # "zero" /\ ~IsParsed(SlotAt(n))
      <3>1. Walked
        BY <1>1, <2>1, <2>3 DEF WalkInv
      <3>2. PICK i \in 0..(Size - 1) : i = index
        BY <2>3, <3>1 DEF Walked
      <3>3. table[i + 1] = SlotAt(i) /\ table[i + 1].kind # "zero" /\ ~IsParsed(table[i + 1])
        BY <2>3, <3>1, <3>2 DEF Walked
      <3> QED
        BY <3>3
    <2> QED
      BY <2>2, <2>3 DEF FailsOnlyOnDamage
  <1> QED
    BY <1>1, WalkInvariant, PTL

(* The layout of every object has, cluster by cluster, the sectors that    *)
(* its run list means (DataRun::parse, content_layout, physical_location). *)
THEOREM ContentIsThatOfTheRuns == Spec => []ContentFollowsRuns
  <1>1. ASSUME WalkInv, NEW e \in Listed, ~e.data.resident
        PROVE  /\ IsList(e.data.list) /\ IsRunList(e.data.list)
               /\ e.data.runs = RunsOf(e.data.list)
    <2>1. PICK n \in 0..(index - 1) : IsParsed(table[n + 1]) /\ e \in EntriesOf(table[n + 1], n)
      BY <1>1 DEF WalkInv, FoundInSlots
    <2>2. Walked
      <3>1. found # << >>
        BY <1>1 DEF Listed
      <3> QED
        BY <1>1, <3>1 DEF WalkInv
    <2>3. PICK slot : slot = table[n + 1]
      OBVIOUS
    <2>4. IsSlot(slot) /\ IsParsed(slot)
      BY <2>1, <2>2, <2>3 DEF Walked
    <2>5. e.data = DataOf(slot)
      BY <2>1, <2>3 DEF EntriesOf, EntryFor
    <2> QED
      BY <1>1, <2>4, <2>5, DataFacts
  <1>2. \A e : ToForensicEntry(e).layout = Layout(e) /\ ToForensicEntry(e).regions = PhysicalLocation(e)
    BY DEF ToForensicEntry
  <1>3. WalkInv => ContentFollowsRuns
    BY <1>1, <1>2, LayoutFollowsRuns DEF ContentFollowsRuns
  <1> QED
    BY <1>3, WalkInvariant, PTL
=============================================================================
