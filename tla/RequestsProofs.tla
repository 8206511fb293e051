--------------------------- MODULE RequestsProofs ---------------------------
(***************************************************************************)
(* A row of a request carries the child results its policy documents, for  *)
(* any requests, any times and any number of attempts of either side.      *)
(*                                                                         *)
(* What is buffered is the end of what arrived; how far a policy has       *)
(* consumed the arrivals is what its final rows have taken.                *)
(***************************************************************************)
EXTENDS Requests, SequenceTheorems, FiniteSetTheorems, TLAPS

-----------------------------------------------------------------------------
(***************************************************************************)
(* Sets of positions.                                                      *)
(***************************************************************************)

(* A set with 0 and with every successor has every natural number.         *)
LEMMA Induction ==
  ASSUME NEW T, 0 \in T, \A n \in Nat : n \in T => n + 1 \in T
  PROVE  Nat \subseteq T
<1> DEFINE R == {pair \in Nat \X Nat : pair[1] < pair[2]}
           B == {n \in Nat : n \notin T}
<1>1. IsWellFoundedOn(R, Nat)
  BY NatLessThanWellFounded DEF OpToRel
<1>2. SUFFICES ASSUME B # {} PROVE FALSE
  OBVIOUS
<1>3. \A n \in Nat : <<n, n + 1>> \in R
  OBVIOUS
<1>4. PICK x \in B : \A y \in B : ~ (<<y, x>> \in R)
  <2> HIDE DEF R
  <2> QED
    BY <1>1, <1>2, WFMin
<1>5. x \in Nat /\ x # 0 /\ x - 1 \in Nat /\ x = (x - 1) + 1
  OBVIOUS
<1>6. <<x - 1, x>> \in R /\ x - 1 \in B
  <2> HIDE DEF R
  <2>1. <<x - 1, (x - 1) + 1>> \in R
    BY <1>3, <1>5
  <2> QED
    BY <1>5, <2>1
<1> HIDE DEF R, B
<1> QED
  BY <1>4, <1>6

LEMMA Least ==
  ASSUME NEW S \in SUBSET Nat, S # {}
  PROVE  \E x \in S : \A y \in S : x <= y
<1> DEFINE R == {pair \in Nat \X Nat : pair[1] < pair[2]}
<1>1. IsWellFoundedOn(R, Nat)
  BY NatLessThanWellFounded DEF OpToRel
<1>2. \A x, y \in Nat : x < y => <<x, y>> \in R
  OBVIOUS
<1> HIDE DEF R
<1>3. PICK x \in S : \A y \in S : ~ (<<y, x>> \in R)
  BY <1>1, WFMin
<1>4. \A y \in S : ~ (y < x) /\ x \in Nat /\ y \in Nat
  BY <1>2, <1>3
<1> QED
  BY <1>3, <1>4

LEMMA Greatest ==
  ASSUME NEW n \in Nat, NEW S \in SUBSET (1..n), S # {}
  PROVE  \E x \in S : \A y \in S : y <= x
<1> DEFINE T == {n - y : y \in S}
<1>1. T \in SUBSET Nat /\ T # {}
  <2>1. ASSUME NEW y \in S PROVE n - y \in Nat
    <3>1. y \in 1..n
      OBVIOUS
    <3> QED
      BY <3>1
  <2> QED
    BY <2>1
<1>2. PICK z \in T : \A y \in T : z <= y
  <2> HIDE DEF T
  <2> QED
    BY <1>1, Least
<1>3. PICK x \in S : z = n - x
  BY <1>2
<1>4. ASSUME NEW y \in S PROVE y <= x
  <2>1. z <= n - y /\ x \in Int /\ y \in Int
    BY <1>2
  <2> QED
    BY <1>3, <2>1
<1> QED
  BY <1>4

(* Positions can be put one after the other. *)
LEMMA Enumerated ==
  ASSUME NEW n \in Nat, NEW S \in SUBSET (1..n)
  PROVE  /\ IsFiniteSet(S) /\ Cardinality(S) \in Nat
         /\ \E at \in [1..Cardinality(S) -> S] :
              \A i, j \in 1..Cardinality(S) : i < j => at[i] < at[j]
<1> DEFINE Good(U) == /\ IsFiniteSet(U) /\ Cardinality(U) \in Nat
                      /\ \E at \in [1..Cardinality(U) -> U] :
                           \A i, j \in 1..Cardinality(U) : i < j => at[i] < at[j]
           T == {m \in Nat : \A U \in SUBSET (1..m) : Good(U)}
<1>1. 0 \in T
  <2>1. ASSUME NEW U \in SUBSET (1..0) PROVE Good(U)
    <3>1. U = {}
      OBVIOUS
    <3>2. IsFiniteSet(U) /\ Cardinality(U) = 0 /\ 1..0 = {}
      BY <3>1, FS_EmptySet
    <3>3. PICK k : k = Cardinality(U) /\ k = 0 /\ \A i \in 1..k : FALSE
      BY <3>2
    <3>4. PICK at : at = [i \in 1..k |-> 0]
      OBVIOUS
    <3>5. at \in [1..k -> U]
      BY <3>3, <3>4
    <3>6. \E to \in [1..k -> U] : \A i, j \in 1..k : i < j => to[i] < to[j]
      BY <3>3, <3>5
    <3>7. \E to \in [1..Cardinality(U) -> U] :
            \A i, j \in 1..Cardinality(U) : i < j => to[i] < to[j]
      BY <3>3, <3>6, Zenon
    <3>8. IsFiniteSet(U) /\ Cardinality(U) \in Nat
      BY <3>2
    <3> QED
      BY <3>7, <3>8, Zenon
  <2> QED
    BY <2>1
<1>2. ASSUME NEW m \in Nat, m \in T PROVE m + 1 \in T
  <2> SUFFICES ASSUME NEW U \in SUBSET (1..m + 1) PROVE Good(U)
    BY <1>2
  <2>1. CASE m + 1 \notin U
    <3>1. U \in SUBSET (1..m)
      BY <2>1
    <3> QED
      BY <1>2, <3>1
  <2>2. CASE m + 1 \in U
    <3>1. PICK V : V = U \ {m + 1}
      OBVIOUS
    <3>2. V \in SUBSET (1..m) /\ U = V \cup {m + 1} /\ m + 1 \notin V
      BY <2>2, <3>1
    <3>3. Good(V)
      BY <1>2, <3>2
    <3>4. PICK k : k = Cardinality(V)
      OBVIOUS
    <3>5. IsFiniteSet(U) /\ Cardinality(U) = k + 1 /\ k \in Nat
      BY <3>2, <3>3, <3>4, FS_AddElement
    <3>6. PICK at \in [1..k -> V] : \A i, j \in 1..k : i < j => at[i] < at[j]
      BY <3>3, <3>4
    <3>7. PICK more : more = [i \in 1..k + 1 |-> IF i = k + 1 THEN m + 1 ELSE at[i]]
      OBVIOUS
    <3>8. more \in [1..k + 1 -> U]
      <4>1. \A i \in 1..k + 1 : i # k + 1 => i \in 1..k
        BY <3>5
      <4>2. ASSUME NEW i \in 1..k + 1 PROVE (IF i = k + 1 THEN m + 1 ELSE at[i]) \in U
        BY <3>2, <3>6, <4>1
      <4> QED
        BY <3>7, <4>2
    <3>9. ASSUME NEW i \in 1..k + 1, NEW j \in 1..k + 1, i < j PROVE more[i] < more[j]
      <4>1. i \in 1..k /\ more[i] = at[i] /\ at[i] \in 1..m /\ at[i] < m + 1
        <5>1. i \in 1..k /\ i # k + 1
          BY <3>5, <3>9
        <5>2. at[i] \in V
          BY <3>6, <5>1
        <5>3. at[i] \in 1..m
          BY <3>2, <5>2
        <5>4. more[i] = at[i]
          BY <3>7, <5>1
        <5> QED
          BY <5>1, <5>3, <5>4
      <4>2. CASE j = k + 1
        BY <3>7, <4>1, <4>2
      <4>3. CASE j # k + 1
        <5>1. j \in 1..k /\ more[j] = at[j]
          BY <3>5, <3>7, <4>3
        <5> QED
          BY <3>6, <3>9, <4>1, <5>1
      <4> QED
        BY <4>2, <4>3
    <3> QED
      BY <3>5, <3>8, <3>9
  <2> QED
    BY <2>1, <2>2
<1> HIDE DEF T
<1>3. Nat \subseteq T
  BY <1>1, <1>2, Induction
<1> USE DEF T
<1>4. Good(S)
  BY <1>3
<1> QED
  BY <1>4

LEMMA InOrderIs ==
  ASSUME NEW n \in Nat, NEW S \in SUBSET (1..n), NEW at, at = InOrder(S)
  PROVE  /\ IsFiniteSet(S) /\ Cardinality(S) \in Nat
         /\ at \in [1..Cardinality(S) -> S] /\ Len(at) = Cardinality(S)
         /\ \A i, j \in 1..Len(at) : i < j => at[i] < at[j]
<1> DEFINE k == Cardinality(S)
<1>1. /\ IsFiniteSet(S) /\ k \in Nat
      /\ \E to \in [1..k -> S] : \A i, j \in 1..k : i < j => to[i] < to[j]
  BY Enumerated
<1>2. at \in [1..k -> S] /\ \A i, j \in 1..k : i < j => at[i] < at[j]
  BY <1>1 DEF InOrder
<1> HIDE DEF k
<1>3. at \in Seq(S) /\ Len(at) = k
  BY <1>1, <1>2, SeqDef, LenProperties
<1> QED
  BY <1>1, <1>2, <1>3 DEF k

LEMMA InOrderAll ==
  ASSUME NEW n \in Nat, NEW S \in SUBSET (1..n), NEW at, at = InOrder(S)
  PROVE  at \in Surjection(1..Len(at), S)
<1>1. PICK k : k = Cardinality(S)
  OBVIOUS
<1>2. IsFiniteSet(S) /\ k \in Nat /\ at \in [1..k -> S] /\ Len(at) = k
  BY <1>1, InOrderIs
<1>3. \A i, j \in 1..k : i < j => at[i] < at[j]
  BY <1>2, InOrderIs
<1>4. at \in Injection(1..k, S)
  <2>1. ASSUME NEW i \in 1..k, NEW j \in 1..k, at[i] = at[j] PROVE i = j
    <3>1. at[i] \in S /\ at[j] \in S /\ i \in Int /\ j \in Int
      BY <1>2
    <3>2. at[i] \in Int /\ at[j] \in Int
      <4>1. \A e \in S : e \in Int
        OBVIOUS
      <4> QED
        BY <3>1, <4>1
    <3>3. ~ (i < j) /\ ~ (j < i)
      BY <1>3, <2>1, <3>2
    <3> QED
      BY <3>1, <3>3
  <2> QED
    BY <1>2, <2>1 DEF Injection, IsInjective
<1>5. Cardinality(1..k) = k
  BY <1>2, FS_Interval
<1> QED
  BY <1>1, <1>2, <1>4, <1>5, FS_Injection

-----------------------------------------------------------------------------
(***************************************************************************)
(* Requests.                                                               *)
(***************************************************************************)

Row == [time : Times, provisional : BOOLEAN, index : 0..MaxParent, values : Seq(Attempt),
        seen : 0..MaxChild]

(* Attempts that follow one another: a step is tried until it is final. *)
Climbs(q) ==
  /\ \A e \in 1..Len(q) - 1 : q[e + 1].index = NextIndex(q[e].index, q[e].provisional)
  /\ \A e, f \in 1..Len(q) : e < f =>
       /\ q[e].index <= q[f].index
       /\ q[e].index = q[f].index => q[e].provisional

(* The latest attempts of the steps among the first m. *)
Ends(q, m) == {e \in 1..m : \A k \in e + 1..m : q[k].index # q[e].index}

Upcoming(q) == IF q = <<>> THEN 0 ELSE NextIndex(q[Len(q)].index, q[Len(q)].provisional)

(* Times tell steps apart. *)
Timely(q) ==
  \A e, f \in 1..Len(q) : e < f =>
    /\ q[e].time <= q[f].time
    /\ q[e].time = q[f].time <=> q[e].index = q[f].index

(* Attempts of the parent, served or not. *)
Parents == Len(rows) + Len(pending)
Parent(i) ==
  IF i <= Len(rows) THEN [time |-> rows[i].time, provisional |-> rows[i].provisional]
  ELSE pending[i - Len(rows)]

(* What sourceData remembers is the last attempt, of m it let pass. *)
Remembers(source, m, last) ==
  /\ m <= source.attempts
  /\ source.previousTime = IF m = 0 THEN Null ELSE last.time
  /\ source.activeTime = source.previousTime
  /\ source.previousProvisional = IF m = 0 THEN FALSE ELSE last.provisional

Sides ==
  /\ Climbs(arrivals) /\ (arrivals # <<>> => arrivals[1].index = 0)
  /\ childIndex = Upcoming(arrivals) /\ childIndex <= Len(arrivals)
  /\ Timed => Timely(arrivals)
  /\ currentChildIndex = IF arrivals = <<>> THEN -1 ELSE arrivals[Len(arrivals)].index
  /\ Len(arrivals) <= childSource.attempts /\ Parents <= parentSource.attempts
  /\ childSource.attempts \in 0..MaxChild /\ parentSource.attempts \in 0..MaxParent
  /\ Open => /\ Remembers(childSource, Len(arrivals), arrivals[Len(arrivals)])
             /\ Remembers(parentSource, Parents, Parent(Parents))
  /\ Timed => \A i, j \in 1..Parents : i < j =>
       /\ Parent(i).time <= Parent(j).time
       /\ ~Parent(i).provisional => Parent(i).time < Parent(j).time

Consumed == Len(arrivals) - Len(buffered)

Buffer ==
  /\ Consumed \in Nat
  /\ \A e \in 1..Len(buffered) : buffered[e] = arrivals[Consumed + e]

(* The last final row. *)
LastRow == LastFinal(Len(rows) + 1)

Boundaries ==
  /\ parentIndex <= Len(rows)
  /\ finalizedBoundary = IF Timed /\ LastRow # 0 THEN rows[LastRow].time ELSE Null
  /\ previousMain = IF Policy = "eventWindow" THEN finalizedBoundary ELSE Null

(* Steps that were consumed. *)
Upto == IF Consumed = 0 THEN 0 ELSE arrivals[Consumed].index + 1

PerRow == IF Policy = "countWindow" THEN Count ELSE 1

ConsumedInTurn ==
  /\ Upto = PerRow * parentIndex
  /\ Consumed > 0 => ~arrivals[Consumed].provisional

ConsumedByTime ==
  /\ finalizedBoundary = Null => Consumed = 0
  /\ finalizedBoundary # Null =>
       /\ \A e \in 1..Consumed : arrivals[e].time <= finalizedBoundary
       /\ \A e \in Consumed + 1..Len(arrivals) :
            \/ arrivals[e].time > finalizedBoundary
            \/ Consumed > 0 /\ arrivals[e].index = arrivals[Consumed].index

(* sample: what was shown last stays buffered. *)
ConsumedButOne ==
  /\ Consumed > 0 =>
       /\ finalizedBoundary # Null /\ buffered # <<>>
       /\ arrivals[Consumed + 1].time <= finalizedBoundary
  /\ selected # Null =>
       rows # <<>> /\ \E e \in 1..Len(arrivals) : arrivals[e].time <= rows[Len(rows)].time
  /\ committedSelection =
       IF LastRow = 0 \/ Opened(LastRow) = {} THEN Null ELSE arrivals[EndOf(Opened(LastRow))].index

Documented ==
  \A i \in 1..Len(rows) : rows[i].seen <= Len(arrivals) /\ Lists(rows[i].values, SelectedBy(i))

(* Final rows take one step after the other. *)
TakenInTurn ==
  /\ \A i \in Finals :
       /\ \A j \in Finals \ {i} : Taken(i) \cap Taken(j) = {}
       /\ \A s \in Taken(i) : \A n \in 0..s : \E j \in Finals : j <= i /\ n \in Taken(j)
       /\ ~Timed => \A k \in 1..Len(rows[i].values) : ~rows[i].values[k].provisional
  /\ \A s \in Nat : s < Upto <=> \E i \in Finals : s \in Taken(i)

RequestInv ==
  /\ RequestTypeOK /\ spec \in Specs /\ rows \in Seq(Row)
  /\ Sides /\ Buffer /\ Boundaries /\ Documented
  /\ Policy # "sample" => TakenInTurn
  /\ Policy \in {"oneToOne", "countWindow"} => ConsumedInTurn
  /\ Policy = "eventWindow" => ConsumedByTime
  /\ Policy = "sample" => ConsumedButOne

-----------------------------------------------------------------------------
(***************************************************************************)
(* Steps and their attempts.                                               *)
(***************************************************************************)

Tried(q) ==
  /\ Len(q) \in Nat /\ Climbs(q)
  /\ \A e \in 1..Len(q) : q[e].index \in Nat /\ q[e].provisional \in BOOLEAN

LEMMA ClimbsIs ==
  ASSUME NEW q, Tried(q), NEW e \in 1..Len(q), NEW f \in 1..Len(q), e <= f
  PROVE  q[e].index <= q[f].index
<1>1. CASE e = f
  BY <1>1 DEF Tried
<1>2. CASE e < f
  BY <1>2 DEF Tried, Climbs
<1> QED
  BY <1>1, <1>2 DEF Tried

LEMMA EndsAre ==
  ASSUME NEW q, Tried(q), NEW m \in 0..Len(q)
  PROVE  /\ Ends(q, m) \in SUBSET (1..m)
         /\ \A e \in 1..m : e \in Ends(q, m) <=> e = m \/ ~q[e].provisional
<1>1. ASSUME NEW e \in 1..m, e = m \/ ~q[e].provisional PROVE e \in Ends(q, m)
  <2>1. ASSUME NEW k \in e + 1..m PROVE q[k].index # q[e].index
    <3>1. e # m /\ e < k /\ k \in 1..Len(q) /\ e \in 1..Len(q)
      BY <2>1 DEF Tried
    <3> QED
      BY <1>1, <3>1 DEF Tried, Climbs
  <2> QED
    BY <2>1 DEF Ends
<1>2. ASSUME NEW e \in Ends(q, m), e # m PROVE ~q[e].provisional
  <2>1. e \in 1..Len(q) - 1 /\ e + 1 \in e + 1..m
    BY <1>2 DEF Ends, Tried
  <2>2. q[e + 1].index = NextIndex(q[e].index, q[e].provisional) /\ q[e + 1].index # q[e].index
    BY <2>1 DEF Tried, Climbs, Ends
  <2> QED
    BY <2>2 DEF NextIndex
<1> QED
  BY <1>1, <1>2 DEF Ends

(* Every step has a latest attempt. *)
LEMMA StepEnds ==
  ASSUME NEW q, Tried(q), NEW m \in 0..Len(q), NEW e \in 1..m
  PROVE  \E d \in Ends(q, m) : e <= d /\ q[d].index = q[e].index
<1> DEFINE S == {d \in 1..m : q[d].index = q[e].index}
<1>1. S \in SUBSET (1..m) /\ e \in S /\ m \in Nat
  BY DEF Tried
<1>2. PICK d \in S : \A f \in S : f <= d
  <2> HIDE DEF S
  <2> QED
    BY <1>1, Greatest
<1>3. \A k \in d + 1..m : k \notin S
  BY <1>2
<1>4. d \in Ends(q, m)
  BY <1>1, <1>3 DEF Ends
<1> QED
  BY <1>1, <1>2, <1>4

(* No step is passed over. *)
LEMMA StepsPresent ==
  ASSUME NEW q, Tried(q), NEW e \in 1..Len(q), NEW s \in Nat, q[1].index <= s, s <= q[e].index
  PROVE  \E d \in 1..e : q[d].index = s
<1> DEFINE T == {n \in Nat : n \in 1..Len(q) =>
                   \A s1 \in Nat : q[1].index <= s1 /\ s1 <= q[n].index =>
                     \E d \in 1..n : q[d].index = s1}
<1>1. 0 \in T
  OBVIOUS
<1>2. ASSUME NEW n \in Nat, n \in T PROVE n + 1 \in T
  <2> SUFFICES ASSUME n + 1 \in 1..Len(q), NEW s1 \in Nat, q[1].index <= s1, s1 <= q[n + 1].index
               PROVE  \E d \in 1..n + 1 : q[d].index = s1
    OBVIOUS
  <2>1. CASE n = 0
    <3>1. q[1].index = s1 /\ 1 \in 1..n + 1
      BY <2>1 DEF Tried
    <3> QED
      BY <3>1
  <2>2. CASE n # 0
    <3>1. n \in 1..Len(q) - 1 /\ n \in 1..Len(q)
      BY <2>2 DEF Tried
    <3>2. q[n + 1].index = NextIndex(q[n].index, q[n].provisional) /\ q[n].index \in Nat
      BY <3>1 DEF Tried, Climbs
    <3>3. CASE s1 <= q[n].index
      <4>1. PICK d \in 1..n : q[d].index = s1
        BY <1>2, <3>1, <3>3
      <4> QED
        BY <4>1
    <3>4. CASE ~ (s1 <= q[n].index)
      <4>1. q[n + 1].index = s1 /\ n + 1 \in 1..n + 1
        BY <3>2, <3>4 DEF NextIndex
      <4> QED
        BY <4>1
    <3> QED
      BY <3>3, <3>4
  <2> QED
    BY <2>1, <2>2
<1> HIDE DEF T
<1>3. Nat \subseteq T
  BY <1>1, <1>2, Induction
<1>4. e \in T /\ e \in Nat
  BY <1>3 DEF Tried
<1> QED
  BY <1>4 DEF T

(* The latest attempts, one after the other, are of one step after the other. *)
LEMMA StepsInTurn ==
  ASSUME NEW q, Tried(q), NEW m \in Nat, m = Len(q), NEW n \in Nat, NEW at \in [1..n -> 1..m],
         \A i, j \in 1..n : i < j => at[i] < at[j],
         at \in Surjection(1..n, Ends(q, m))
  PROVE  \A k \in 1..n : q[at[k]].index = q[1].index + k - 1
<1> DEFINE T == {k \in Nat : k \in 1..n => q[at[k]].index = q[1].index + k - 1}
<1>1. \A e \in 1..m : q[e].index \in Nat
  BY DEF Tried
<1>2. ASSUME NEW k \in 1..n, NEW e \in 1..m, e <= at[k], \A j \in 1..n : j < k => at[j] < e
      PROVE  q[at[k]].index = q[e].index
  <2>1. PICK d \in Ends(q, m) : e <= d /\ q[d].index = q[e].index
    BY StepEnds
  <2>2. PICK j \in 1..n : at[j] = d
    BY <2>1 DEF Surjection
  <2>3. at[k] \in 1..m /\ d \in 1..m
    BY <2>2
  <2>4. at[k] <= d
    <3>1. ~ (j < k)
      BY <1>2, <2>1, <2>2, <2>3
    <3>2. CASE j = k
      BY <2>2, <2>3, <3>2
    <3>3. CASE k < j
      BY <2>2, <2>3, <3>3
    <3> QED
      BY <3>1, <3>2, <3>3
  <2>5. q[e].index <= q[at[k]].index /\ q[at[k]].index <= q[d].index
    BY <1>2, <2>3, <2>4, ClimbsIs
  <2>6. q[at[k]].index \in Nat /\ q[e].index \in Nat
    BY <1>1, <2>3
  <2> QED
    BY <2>1, <2>5, <2>6
<1>3. 0 \in T
  OBVIOUS
<1>4. ASSUME NEW k \in Nat, k \in T PROVE k + 1 \in T
  <2> SUFFICES ASSUME k + 1 \in 1..n PROVE q[at[k + 1]].index = q[1].index + (k + 1) - 1
    OBVIOUS
  <2>1. CASE k = 0
    <3>1. at[1] \in 1..m /\ 1 \in 1..n /\ 1 \in 1..m /\ 1 <= at[1]
      BY <2>1
    <3>2. q[at[1]].index = q[1].index
      BY <1>2, <3>1
    <3> QED
      BY <1>1, <2>1, <3>1, <3>2
  <2>2. CASE k # 0
    <3>1. k \in 1..n /\ k < k + 1
      BY <2>2
    <3>2. q[at[k]].index = q[1].index + k - 1
      BY <1>4, <3>1
    <3>3. PICK p, r : p = at[k] /\ r = at[k + 1]
      OBVIOUS
    <3>4. p < r /\ p \in Ends(q, m) /\ p \in 1..m /\ r \in 1..m
      BY <3>1, <3>3 DEF Surjection
    <3>5. p + 1 \in 1..m /\ p \in 1..m - 1 /\ p + 1 <= r /\ p # m /\ 1 \in 1..m /\ m \in 0..m
      BY <3>4
    <3>6. q[p + 1].index = q[p].index + 1
      <4>1. ~q[p].provisional
        BY <3>4, <3>5, EndsAre
      <4> QED
        BY <3>5, <4>1 DEF Tried, Climbs, NextIndex
    <3>7. ASSUME NEW j \in 1..n, j < k + 1 PROVE at[j] < p + 1
      <4>1. at[j] \in 1..m
        OBVIOUS
      <4>2. CASE j = k
        BY <3>3, <3>4, <4>2
      <4>3. CASE j < k
        BY <3>1, <3>3, <3>4, <4>1, <4>3
      <4> QED
        BY <3>7, <4>2, <4>3
    <3>8. q[r].index = q[p + 1].index
      BY <1>2, <3>3, <3>5, <3>7
    <3>9. q[1].index \in Nat /\ q[p].index \in Nat
      BY <1>1, <3>4, <3>5
    <3>10. q[p].index = q[1].index + k - 1
      BY <3>2, <3>3
    <3>11. q[at[k + 1]] = q[r]
      BY <3>3
    <3>12. q[r].index = q[1].index + (k + 1) - 1
      BY <3>6, <3>8, <3>9, <3>10
    <3> QED
      BY <3>11, <3>12
  <2> QED
    BY <2>1, <2>2
<1> HIDE DEF T
<1>5. Nat \subseteq T
  BY <1>3, <1>4, Induction
<1> QED
  BY <1>5 DEF T

-----------------------------------------------------------------------------
(***************************************************************************)
(* The invariant's facts about a request and its two sides.                *)
(***************************************************************************)

LEMMA EndOfIs ==
  ASSUME NEW n \in Nat, NEW S \in SUBSET (1..n)
  PROVE  /\ EndOf(S) \in 0..n
         /\ S = {} <=> EndOf(S) = 0
         /\ S # {} => EndOf(S) \in S
         /\ \A d \in S : d <= EndOf(S)
         /\ \A e \in S : (\A d \in S : d <= e) => EndOf(S) = e
<1>1. CASE S = {}
  BY <1>1 DEF EndOf
<1>2. CASE S # {}
  <2>1. EndOf(S) \in S /\ \A d \in S : d <= EndOf(S)
    BY <1>2, Greatest DEF EndOf
  <2>2. PICK x : x = EndOf(S)
    OBVIOUS
  <2>3. \A y \in S : y \in 1..n /\ y \in Int
    OBVIOUS
  <2>6. x \in S /\ \A d \in S : d <= x
    BY <2>1, <2>2
  <2>4. x \in S /\ (\A d \in S : d <= x) /\ x \in 0..n /\ x # 0
    <3>1. x \in 1..n
      BY <2>3, <2>6
    <3> QED
      BY <2>6, <3>1
  <2>5. ASSUME NEW e \in S, \A d \in S : d <= e PROVE x = e
    <3>1. x <= e /\ e <= x /\ x \in Int /\ e \in Int
      BY <2>3, <2>4, <2>5
    <3> QED
      BY <3>1
  <2> QED
    BY <1>2, <2>2, <2>4, <2>5, Zenon
<1> QED
  BY <1>1, <1>2

LEMMA RequestIs ==
  ASSUME RequestsAssumption, spec \in Specs
  PROVE  /\ Times \in SUBSET Int /\ Null \notin Int /\ {MaxChild, MaxParent} \subseteq Nat
         /\ Policy \in {"sample", "oneToOne", "countWindow", "eventWindow"}
         /\ Sparse \in BOOLEAN /\ Timed \in BOOLEAN /\ Count \in Nat \ {0}
         /\ Timed <=> Policy \in {"sample", "eventWindow"}
<1>1. Times \in SUBSET Int
  BY DEF RequestsAssumption, Times
<1>2. Null \notin Int /\ {MaxChild, MaxParent} \subseteq Nat
  BY DEF RequestsAssumption
<1>3. /\ Policy \in {"sample", "oneToOne", "countWindow", "eventWindow"}
      /\ Sparse \in BOOLEAN /\ Timed \in BOOLEAN /\ Count \in Nat \ {0}
      /\ Timed <=> Policy \in {"sample", "eventWindow"}
  BY DEF RequestsAssumption, Policy, Sparse, Timed, Count
<1> QED
  BY <1>1, <1>2, <1>3

LEMMA AttemptIs ==
  ASSUME RequestsAssumption, spec \in Specs, NEW x \in Attempt
  PROVE  /\ x.index \in Nat /\ x.index \in 0..MaxChild /\ x.provisional \in BOOLEAN
         /\ x.time \in Times /\ x.time \in Int
<1>1. Times \in SUBSET Int /\ MaxChild \in Nat
  BY RequestIs
<1>2. x.index \in 0..MaxChild /\ x.provisional \in BOOLEAN /\ x.time \in Times
  BY DEF Attempt
<1>3. \A n \in 0..MaxChild : n \in Nat
  BY <1>1
<1>4. \A t \in Times : t \in Int
  BY <1>1
<1> QED
  BY <1>2, <1>3, <1>4, Zenon

(* What arrived, and the part of it that is still buffered. *)
LEMMA Arrived ==
  ASSUME RequestsAssumption, RequestInv
  PROVE  /\ Len(arrivals) \in Nat /\ Len(buffered) \in Nat /\ Consumed \in Nat
         /\ Len(arrivals) = Consumed + Len(buffered)
         /\ \A e \in 1..Len(arrivals) : arrivals[e] \in Attempt
         /\ \A e \in 1..Len(buffered) : buffered[e] \in Attempt /\ buffered[e] = arrivals[Consumed + e]
         /\ Tried(arrivals) /\ Tried(buffered)
<1>1. /\ arrivals \in Seq(Attempt) /\ buffered \in Seq(Attempt)
      /\ Consumed \in Nat /\ \A e \in 1..Len(buffered) : buffered[e] = arrivals[Consumed + e]
      /\ spec \in Specs /\ Climbs(arrivals)
  BY DEF RequestInv, RequestTypeOK, Buffer, Sides
<1>2. /\ Len(arrivals) \in Nat /\ Len(buffered) \in Nat
      /\ \A e \in 1..Len(arrivals) : arrivals[e] \in Attempt
      /\ \A e \in 1..Len(buffered) : buffered[e] \in Attempt
  BY <1>1
<1>3. Len(arrivals) = Consumed + Len(buffered)
  BY <1>2 DEF Consumed
<1>4. PICK c \in Nat : c = Consumed
  BY <1>1
<1>5. Tried(arrivals)
  BY <1>1, <1>2, AttemptIs DEF Tried
<1>6. Climbs(buffered)
  <2>1. \A e \in 1..Len(buffered) : c + e \in 1..Len(arrivals) /\ buffered[e] = arrivals[c + e]
    BY <1>1, <1>2, <1>3, <1>4
  <2>2. ASSUME NEW e \in 1..Len(buffered) - 1
        PROVE  buffered[e + 1].index = NextIndex(buffered[e].index, buffered[e].provisional)
    <3>1. e \in 1..Len(buffered) /\ e + 1 \in 1..Len(buffered) /\ c + e \in 1..Len(arrivals) - 1
      BY <1>2, <1>3, <1>4
    <3>2. c + (e + 1) = (c + e) + 1
      BY <3>1
    <3>3. buffered[e + 1] = arrivals[(c + e) + 1] /\ buffered[e] = arrivals[c + e]
      BY <2>1, <3>1, <3>2
    <3>4. arrivals[(c + e) + 1].index = NextIndex(arrivals[c + e].index, arrivals[c + e].provisional)
      BY <1>1, <3>1 DEF Climbs
    <3> QED
      BY <3>3, <3>4
  <2>3. ASSUME NEW e \in 1..Len(buffered), NEW f \in 1..Len(buffered), e < f
        PROVE  /\ buffered[e].index <= buffered[f].index
               /\ buffered[e].index = buffered[f].index => buffered[e].provisional
    <3>1. c + e < c + f /\ c + e \in 1..Len(arrivals) /\ c + f \in 1..Len(arrivals)
      BY <1>2, <2>1, <2>3
    <3>2. /\ arrivals[c + e].index <= arrivals[c + f].index
          /\ arrivals[c + e].index = arrivals[c + f].index => arrivals[c + e].provisional
      BY <1>1, <3>1 DEF Climbs
    <3> QED
      BY <2>1, <3>2
  <2> QED
    BY <2>2, <2>3 DEF Climbs
<1>7. Tried(buffered)
  BY <1>1, <1>2, <1>6, AttemptIs DEF Tried
<1> QED
  BY <1>1, <1>2, <1>3, <1>5, <1>7

(* The latest attempts that are buffered end the last steps that arrived. *)
LEMMA LatestAre ==
  ASSUME RequestsAssumption, RequestInv
  PROVE  /\ LatestEnds = Ends(buffered, Len(buffered)) /\ LatestEnds \in SUBSET (1..Len(buffered))
         /\ \A m : Steps(m) = Ends(arrivals, m)
         /\ \A e \in 1..Len(buffered) : e \in LatestEnds <=> Consumed + e \in Steps(Len(arrivals))
<1>1. PICK c \in Nat, n \in Nat, m \in Nat : c = Consumed /\ n = Len(buffered) /\ m = Len(arrivals)
  BY Arrived
<1>2. /\ m = c + n /\ \A e \in 1..n : buffered[e] = arrivals[c + e]
      /\ Tried(arrivals) /\ Tried(buffered)
  BY <1>1, Arrived
<1>3. LatestEnds = Ends(buffered, n) /\ LatestEnds \in SUBSET (1..n) /\ \A k : Steps(k) = Ends(arrivals, k)
  BY <1>1 DEF LatestEnds, Ends, Steps
<1>4. ASSUME NEW e \in 1..n PROVE e \in Ends(buffered, n) <=> c + e \in Ends(arrivals, m)
  <2>1. e \in Ends(buffered, n) <=> e = n \/ ~buffered[e].provisional
    BY <1>1, <1>2, EndsAre
  <2>2. c + e \in 1..m /\ (c + e = m <=> e = n)
    BY <1>2
  <2>3. c + e \in Ends(arrivals, m) <=> c + e = m \/ ~arrivals[c + e].provisional
    <3>1. \A d \in 1..m : d \in Ends(arrivals, m) <=> d = m \/ ~arrivals[d].provisional
      <4>1. m \in 0..Len(arrivals)
        BY <1>1
      <4> QED
        BY <1>2, <4>1, EndsAre, Zenon
    <3> QED
      BY <2>2, <3>1, Zenon
  <2>4. buffered[e] = arrivals[c + e]
    BY <1>2
  <2> QED
    BY <2>1, <2>2, <2>3, <2>4, Zenon
<1> QED
  BY <1>1, <1>3, <1>4

(* A later attempt is of a later time, one of the same step of the same time. *)
LEMMA TimesTell ==
  ASSUME RequestsAssumption, RequestInv, Timed,
         NEW e \in 1..Len(arrivals), NEW f \in 1..Len(arrivals)
  PROVE  /\ e <= f => arrivals[e].time <= arrivals[f].time
         /\ arrivals[e].index = arrivals[f].index => arrivals[e].time = arrivals[f].time
         /\ {arrivals[e].time, arrivals[f].time} \subseteq Int
<1>1. Timely(arrivals) /\ spec \in Specs
  BY DEF RequestInv, Sides
<1>2. arrivals[e] \in Attempt /\ arrivals[f] \in Attempt
  BY Arrived
<1>3. arrivals[e].time \in Int /\ arrivals[f].time \in Int
  BY <1>1, <1>2, AttemptIs
<1>4. e \in Int /\ f \in Int /\ (e < f \/ f < e \/ e = f)
  BY Arrived
<1>5. /\ e < f => arrivals[e].time <= arrivals[f].time
      /\ e < f \/ f < e => (arrivals[e].index = arrivals[f].index => arrivals[e].time = arrivals[f].time)
  BY <1>1 DEF Timely
<1> QED
  BY <1>3, <1>4, <1>5

(* What is opened up to a time leads what is buffered. *)
LEMMA UpToIs ==
  ASSUME RequestsAssumption, RequestInv, Timed, NEW b \in Int
  PROVE  UpTo(b) = {e \in LatestEnds : arrivals[Consumed + e].time <= b}
<1>1. PICK c \in Nat, n \in Nat : c = Consumed /\ n = Len(buffered) /\ Len(arrivals) = c + n
  BY Arrived
<1>2. LatestEnds \in SUBSET (1..n) /\ \A e \in 1..n : buffered[e] = arrivals[c + e]
  BY <1>1, Arrived, LatestAre
<1>3. ASSUME NEW e \in LatestEnds, NEW d \in LatestEnds, d <= e, arrivals[c + e].time <= b
      PROVE  buffered[d].time <= b
  <2>1. e \in 1..n /\ d \in 1..n /\ c + e \in 1..Len(arrivals) /\ c + d \in 1..Len(arrivals) /\ c + d <= c + e
    BY <1>1, <1>2, <1>3
  <2>2. arrivals[c + d].time <= arrivals[c + e].time /\ arrivals[c + d].time \in Int /\ arrivals[c + e].time \in Int
    BY <2>1, TimesTell
  <2>3. arrivals[c + d].time <= b
    BY <1>3, <2>2
  <2> QED
    BY <1>2, <2>1, <2>3
<1>4. ASSUME NEW e \in UpTo(b) PROVE arrivals[c + e].time <= b
  <2>1. e \in LatestEnds /\ e \in 1..n /\ e <= e
    BY <1>2, <1>4 DEF UpTo
  <2>2. buffered[e].time <= b
    BY <1>4, <2>1 DEF UpTo
  <2> QED
    BY <1>2, <2>1, <2>2
<1>5. UpTo(b) \subseteq LatestEnds
  BY DEF UpTo
<1>6. ASSUME NEW e \in LatestEnds, arrivals[c + e].time <= b PROVE e \in UpTo(b)
  BY <1>3, <1>6 DEF UpTo
<1> QED
  BY <1>1, <1>4, <1>5, <1>6

(* The values are g buffered results in their order, P their positions among the arrivals. *)
Picks(g, at, values, to, P) ==
  /\ g \in Nat /\ \A k \in 1..g : at[k] \in 1..Len(buffered) /\ to[k] = Consumed + at[k]
  /\ \A i, j \in 1..g : i < j => at[i] < at[j]
  /\ values = [k \in 1..g |-> values[k]] /\ \A k \in 1..g : values[k] = buffered[at[k]]
  /\ to \in Surjection(1..g, P)

LEMMA Listed ==
  ASSUME RequestsAssumption, RequestInv, NEW g, NEW at, NEW values, NEW to, NEW P,
         Picks(g, at, values, to, P)
  PROVE  values \in Seq(Attempt) /\ Len(values) = g /\ Lists(values, P)
<1>0. /\ g \in Nat /\ (\A k \in 1..g : at[k] \in 1..Len(buffered) /\ to[k] = Consumed + at[k])
      /\ (\A i, j \in 1..g : i < j => at[i] < at[j])
      /\ values = [k \in 1..g |-> values[k]] /\ (\A k \in 1..g : values[k] = buffered[at[k]])
      /\ to \in Surjection(1..g, P)
  BY DEF Picks
<1>1. PICK c \in Nat, n \in Nat : c = Consumed /\ n = Len(buffered)
  BY Arrived
<1>2. \A e \in 1..n : buffered[e] = arrivals[c + e] /\ buffered[e] \in Attempt
  BY <1>1, Arrived
<1>3. \A k \in 1..g : at[k] \in 1..n /\ to[k] = c + at[k]
  BY <1>0, <1>1
<1>4. values \in Seq(Attempt) /\ Len(values) = g /\ \A k \in 1..g : values[k] = buffered[at[k]]
  <2>0. \A k \in 1..g : values[k] = buffered[at[k]]
    BY <1>0
  <2>1. \A k \in 1..g : buffered[at[k]] \in Attempt
    BY <1>2, <1>3
  <2>2. values \in [1..g -> Attempt]
    BY <1>0, <2>0, <2>1
  <2> QED
    BY <1>0, <2>0, <2>2, SeqDef, LenProperties
<1>5. to \in [1..Len(values) -> P]
  BY <1>0, <1>4 DEF Surjection
<1>6. \A i, j \in 1..Len(values) : i < j => to[i] < to[j]
  <2>1. \A i, j \in 1..g : i < j => to[i] < to[j]
    BY <1>0, <1>3
  <2> QED
    BY <1>4, <2>1
<1>7. \A e \in P : \E k \in 1..Len(values) : to[k] = e
  BY <1>0, <1>4 DEF Surjection
<1>8. \A k \in 1..Len(values) : values[k] = arrivals[to[k]]
  BY <1>2, <1>3, <1>4
<1>9. Lists(values, P)
  BY <1>5, <1>6, <1>7, <1>8, Zenon DEF Lists
<1> QED
  BY <1>4, <1>9

(* Rows and arrivals that are only added to. *)
Longer ==
  /\ spec' = spec
  /\ {Len(rows'), Len(arrivals')} \subseteq Nat
  /\ Len(rows) <= Len(rows') /\ \A i \in 1..Len(rows) : rows'[i] = rows[i]
  /\ Len(arrivals) <= Len(arrivals') /\ \A e \in 1..Len(arrivals) : arrivals'[e] = arrivals[e]

LEMMA LastFinalIs ==
  ASSUME RequestsAssumption, RequestInv, NEW i \in 1..Len(rows) + 1
  PROVE  /\ LastFinal(i) \in 0..i - 1
         /\ LastFinal(i) = 0 => \A j \in 1..i - 1 : rows[j].provisional
         /\ LastFinal(i) # 0 => ~rows[LastFinal(i)].provisional
         /\ \A j \in 1..i - 1 : ~rows[j].provisional => j <= LastFinal(i)
<1> DEFINE F == {j \in 1..i - 1 : ~rows[j].provisional}
<1>1. LastFinal(i) = EndOf(F)
  BY DEF LastFinal
<1>2. i - 1 \in Nat /\ F \in SUBSET (1..i - 1)
  BY DEF RequestInv
<1>3. /\ EndOf(F) \in 0..i - 1 /\ (F = {} <=> EndOf(F) = 0) /\ (F # {} => EndOf(F) \in F)
      /\ \A d \in F : d <= EndOf(F)
  <2> HIDE DEF F
  <2> QED
    BY <1>2, EndOfIs
<1> QED
  BY <1>1, <1>2, <1>3

LEMMA Stable ==
  ASSUME RequestsAssumption, RequestInv, Longer
  PROVE  /\ \A i \in 1..Len(rows) + 1 : LastFinal(i)' = LastFinal(i)
         /\ \A i \in 1..Len(rows) : Opened(i)' = Opened(i) /\ Taken(i)' = Taken(i)
         /\ \A i \in 1..Len(rows) :
              Lists(rows[i].values, SelectedBy(i)) => Lists(rows[i].values, SelectedBy(i))'
<1>1. rows \in Seq(Row) /\ Len(rows) \in Nat /\ Len(arrivals) \in Nat
  BY Arrived DEF RequestInv
<1>2. ASSUME NEW i \in 1..Len(rows) + 1 PROVE LastFinal(i)' = LastFinal(i)
  <2>1. \A j \in 1..i - 1 : rows'[j] = rows[j]
    BY <1>1 DEF Longer
  <2>2. {j \in 1..i - 1 : ~rows'[j].provisional} = {j \in 1..i - 1 : ~rows[j].provisional}
    BY <2>1
  <2> QED
    BY <2>2 DEF LastFinal
<1>3. ASSUME NEW n \in 0..Len(arrivals) PROVE Steps(n)' = Steps(n)
  <2>1. \A e \in 1..n : arrivals'[e] = arrivals[e]
    BY <1>1 DEF Longer
  <2>2. \A e \in 1..n : \A k \in e + 1..n : arrivals'[k] = arrivals[k]
    BY <2>1
  <2> QED
    BY <2>1, <2>2 DEF Steps
<1>4. ASSUME NEW i \in 1..Len(rows)
      PROVE  /\ rows'[i] = rows[i] /\ Opened(i)' = Opened(i) /\ Taken(i)' = Taken(i)
             /\ Steps(rows[i].seen)' = Steps(rows[i].seen) /\ Steps(rows[i].seen) \subseteq 1..Len(arrivals)
  <2>1. rows'[i] = rows[i] /\ rows[i].seen \in 0..Len(arrivals)
    <3>1. rows[i] \in Row /\ rows[i].seen <= Len(arrivals)
      BY <1>1 DEF RequestInv, Documented
    <3>2. rows[i].seen \in Nat
      <4>1. MaxChild \in Nat
        BY DEF RequestsAssumption
      <4> QED
        BY <3>1, <4>1 DEF Row
    <3> QED
      BY <1>1, <3>1, <3>2 DEF Longer
  <2>2. Steps(rows[i].seen)' = Steps(rows[i].seen)
    <3>1. PICK n : n = rows[i].seen
      OBVIOUS
    <3>2. Steps(n)' = Steps(n)
      BY <1>3, <2>1, <3>1
    <3> QED
      BY <2>1, <3>1, <3>2 DEF Steps
  <2>3. Steps(rows[i].seen) \subseteq 1..Len(arrivals)
    BY <1>1, <2>1 DEF Steps
  <2>4. \A e \in Steps(rows[i].seen) : arrivals'[e] = arrivals[e]
    BY <2>3 DEF Longer
  <2>5. Opened(i)' = Opened(i)
    BY <2>1, <2>2, <2>4 DEF Opened
  <2>6. Taken(i)' = Taken(i)
    BY <2>1 DEF Taken
  <2> QED
    BY <2>1, <2>2, <2>3, <2>5, <2>6
<1>5. ASSUME NEW i \in 1..Len(rows), NEW P, P = SelectedBy(i)
      PROVE  SelectedBy(i)' = P /\ P \subseteq 1..Len(arrivals)
  <2>1. PICK k : k = LastFinal(i)
    OBVIOUS
  <2>2. LastFinal(i)' = k /\ (k # 0 => k \in 1..Len(rows)) /\ i \in 1..Len(rows) + 1
    BY <1>1, <1>2, <2>1, LastFinalIs
  <2>3. \A e \in 1..Len(arrivals) : arrivals'[e] = arrivals[e]
    BY DEF Longer
  <2>4. Opened(i) \subseteq 1..Len(arrivals)
    BY <1>4 DEF Opened
  <2>5. SampleOf(i)' = SampleOf(i) /\ SampleOf(i) \subseteq 1..Len(arrivals)
    <3>1. PICK O, B : O = Opened(i) /\ B = Before(i)
      OBVIOUS
    <3>2. Opened(i)' = O /\ O \subseteq 1..Len(arrivals)
      BY <1>4, <2>4, <3>1
    <3>3. Before(i)' = B /\ B \subseteq 1..Len(arrivals)
      <4>1. CASE k = 0
        BY <2>1, <2>2, <3>1, <4>1 DEF Before
      <4>2. CASE k # 0
        <5>1. Before(i) = Opened(k) /\ Before(i)' = Opened(k)'
          BY <2>1, <2>2, <4>2 DEF Before
        <5>2. Opened(k)' = Opened(k) /\ Opened(k) \subseteq 1..Len(arrivals)
          BY <1>4, <2>2, <4>2 DEF Opened
        <5> QED
          BY <3>1, <5>1, <5>2
      <4> QED
        BY <4>1, <4>2
    <3>4. SampleOf(i) = NewestStep(O, B) /\ SampleOf(i)' = NewestStep(O, B)'
      BY <3>1, <3>2, <3>3 DEF SampleOf, NewestStep
    <3>5. NewestStep(O, B)' = NewestStep(O, B) /\ NewestStep(O, B) \subseteq 1..Len(arrivals)
      BY <2>3, <3>2, <3>3 DEF NewestStep, Longer, Sparse
    <3> QED
      BY <3>4, <3>5
  <2>6. WindowOf(i)' = WindowOf(i) /\ WindowOf(i) \subseteq 1..Len(arrivals)
    <3>1. k # 0 => rows'[k] = rows[k]
      BY <1>4, <2>2
    <3> QED
      BY <1>4, <2>1, <2>2, <2>3, <2>4, <3>1 DEF WindowOf
  <2>7. ASSUME NEW n PROVE GroupOf(i, n)' = GroupOf(i, n) /\ GroupOf(i, n) \subseteq 1..Len(arrivals)
    BY <1>4, <2>3 DEF GroupOf
  <2>8. /\ Policy' = Policy /\ Count' = Count
        /\ Policy \in {"sample", "oneToOne", "countWindow", "eventWindow"}
    BY RequestIs DEF RequestInv, Longer, Policy, Count
  <2>9. GroupOf(i, Count)' = GroupOf(i, Count)
    BY <2>7, <2>8 DEF GroupOf
  <2> QED
    BY <1>5, <2>5, <2>6, <2>7, <2>8, <2>9 DEF SelectedBy
<1>6. ASSUME NEW i \in 1..Len(rows), Lists(rows[i].values, SelectedBy(i))
      PROVE  Lists(rows[i].values, SelectedBy(i))'
  <2>1. PICK P, v : P = SelectedBy(i) /\ v = rows[i].values
    OBVIOUS
  <2>2. P = SelectedBy(i)' /\ v = rows'[i].values /\ P \subseteq 1..Len(arrivals)
    BY <1>4, <1>5, <2>1
  <2>3. PICK at \in [1..Len(v) -> P] :
          /\ \A k, j \in 1..Len(v) : k < j => at[k] < at[j]
          /\ \A e \in P : \E k \in 1..Len(v) : at[k] = e
          /\ \A k \in 1..Len(v) : v[k] = arrivals[at[k]]
    BY <1>6, <2>1 DEF Lists
  <2>4. \A k \in 1..Len(v) : arrivals'[at[k]] = arrivals[at[k]]
    BY <2>2, <2>3 DEF Longer
  <2>5. \A k \in 1..Len(v) : v[k] = arrivals'[at[k]]
    BY <2>3, <2>4
  <2>6. Lists(v, P)'
    BY <2>3, <2>5 DEF Lists
  <2> QED
    BY <2>2, <2>6 DEF Lists
<1> QED
  BY <1>2, <1>4, <1>6

-----------------------------------------------------------------------------
(***************************************************************************)
(* Serving a parent attempt.                                               *)
(***************************************************************************)

LEMMA Fixed ==
  ASSUME spec' = spec
  PROVE  /\ Policy' = Policy /\ Sparse' = Sparse /\ Timed' = Timed /\ Count' = Count
         /\ PerRow' = PerRow /\ Times' = Times /\ Attempt' = Attempt /\ Row' = Row
BY DEF Policy, Sparse, Timed, Count, PerRow, Times, Attempt, Row

(* The row emitted, and what is left. *)
LEMMA Emitted ==
  ASSUME RequestsAssumption, RequestInv, Looping, spec' = spec,
         NEW values \in Seq(Attempt), NEW k \in 0..Len(buffered), ServeWith(values, k),
         NEW n, n = Len(rows)
  PROVE  /\ n \in Nat /\ pending[1] \in [time : Times, provisional : BOOLEAN]
         /\ pending[1].time \in Int /\ pending[1].provisional \in BOOLEAN /\ parentIndex \in Nat
         /\ rows' \in Seq(Row) /\ Len(rows') = n + 1
         /\ \A i \in 1..n : rows'[i] = rows[i]
         /\ rows'[n + 1].time = pending[1].time /\ rows'[n + 1].provisional = pending[1].provisional
         /\ rows'[n + 1].index = parentIndex /\ rows'[n + 1].values = values
         /\ rows'[n + 1].seen = Len(arrivals)
         /\ pending' \in Seq([time : Times, provisional : BOOLEAN]) /\ Len(pending') = Len(pending) - 1
         /\ \A i \in 1..Len(pending') : pending'[i] = pending[i + 1]
         /\ Len(pending) \in Nat \ {0} /\ Parents' = Parents
         /\ parentIndex' = NextIndex(parentIndex, pending[1].provisional)
         /\ parentIndex' \in 0..MaxParent /\ parentIndex' <= Len(rows')
         /\ Longer /\ arrivals' = arrivals
<1>1. /\ pending \in Seq([time : Times, provisional : BOOLEAN]) /\ pending # <<>>
      /\ rows \in Seq(Row) /\ spec \in Specs /\ parentIndex \in 0..MaxParent /\ parentIndex <= n
      /\ Parents <= parentSource.attempts /\ parentSource.attempts \in 0..MaxParent
      /\ Len(arrivals) <= childSource.attempts /\ childSource.attempts \in 0..MaxChild
  BY DEF RequestInv, RequestTypeOK, Boundaries, Sides, Looping
<1>2. MaxParent \in Nat /\ MaxChild \in Nat /\ Len(arrivals) \in Nat /\ Times \in SUBSET Int
  BY <1>1, RequestIs, Arrived
<1>3. /\ n \in Nat /\ Len(pending) \in Nat \ {0}
      /\ pending[1] \in [time : Times, provisional : BOOLEAN] /\ Head(pending) = pending[1]
  <2>1. Len(pending) \in Nat \ {0} /\ n \in Nat
    BY <1>1, EmptySeq
  <2>2. pending[1] \in [time : Times, provisional : BOOLEAN]
    <3>1. PICK A : A = [time : Times, provisional : BOOLEAN]
      OBVIOUS
    <3>2. pending \in Seq(A)
      BY <1>1, <3>1, Zenon
    <3>3. 1 \in 1..Len(pending)
      BY <2>1
    <3>4. pending[1] \in A
      BY <3>2, <3>3
    <3> QED
      BY <3>1, <3>4, Zenon
  <2> QED
    BY <1>1, <2>1, <2>2
<1>4. pending[1].time \in Int /\ pending[1].provisional \in BOOLEAN /\ parentIndex \in Nat
  <2>1. pending[1].time \in Times /\ pending[1].provisional \in BOOLEAN
    BY <1>3
  <2>2. \A t \in Times : t \in Int
    BY <1>2
  <2>3. parentIndex \in Nat
    BY <1>1, <1>2
  <2> QED
    BY <2>1, <2>2, <2>3, Zenon
<1>5. PICK row : row = [time |-> pending[1].time, provisional |-> pending[1].provisional,
                        index |-> parentIndex, values |-> values, seen |-> Len(arrivals)]
  OBVIOUS
<1>6. row \in Row
  BY <1>1, <1>2, <1>3, <1>5 DEF Row
<1>7. rows' = Append(rows, row) /\ pending' = Tail(pending)
  BY <1>3, <1>5 DEF ServeWith
<1>8. /\ rows' \in Seq(Row) /\ Len(rows') = n + 1 /\ rows'[n + 1] = row
      /\ \A i \in 1..n : rows'[i] = rows[i]
  BY <1>1, <1>6, <1>7
<1>9. /\ pending' \in Seq([time : Times, provisional : BOOLEAN]) /\ Len(pending') = Len(pending) - 1
      /\ \A i \in 1..Len(pending') : pending'[i] = pending[i + 1]
  BY <1>1, <1>7
<1>10. Parents' = Parents /\ n + 1 <= MaxParent
  BY <1>1, <1>2, <1>3, <1>8, <1>9 DEF Parents
<1>11. arrivals' = arrivals /\ parentIndex' = NextIndex(parentIndex, pending[1].provisional)
  BY <1>3 DEF ServeWith
<1>12. parentIndex' \in 0..MaxParent /\ parentIndex' <= Len(rows')
  BY <1>1, <1>2, <1>3, <1>8, <1>10, <1>11 DEF NextIndex
<1>13. Longer
  BY <1>2, <1>3, <1>8, <1>11 DEF Longer
<1>14. /\ rows'[n + 1].time = pending[1].time /\ rows'[n + 1].provisional = pending[1].provisional
       /\ rows'[n + 1].index = parentIndex /\ rows'[n + 1].values = values
       /\ rows'[n + 1].seen = Len(arrivals)
  BY <1>5, <1>8
<1> QED
  BY <1>3, <1>4, <1>8, <1>9, <1>10, <1>11, <1>12, <1>13, <1>14

LEMMA BufferLeft ==
  ASSUME RequestsAssumption, RequestInv, spec' = spec,
         NEW values, NEW k \in 0..Len(buffered), ServeWith(values, k)
  PROVE  /\ buffered' \in Seq(Attempt) /\ Len(buffered') = Len(buffered) - k
         /\ Consumed' = Consumed + k /\ Buffer' /\ arrivals' = arrivals
<1>1. PICK c \in Nat, n \in Nat : c = Consumed /\ n = Len(buffered) /\ Len(arrivals) = c + n
  BY Arrived
<1>2. \A e \in 1..n : buffered[e] = arrivals[c + e]
  BY <1>1, Arrived
<1>3. buffered \in Seq(Attempt) /\ buffered' = SubSeq(buffered, k + 1, n) /\ arrivals' = arrivals
  BY <1>1 DEF RequestInv, RequestTypeOK, ServeWith
<1>4. /\ buffered' \in Seq(Attempt) /\ Len(buffered') = n - k
      /\ \A e \in 1..n - k : buffered'[e] = buffered[k + e]
  <2>1. \A e \in k + 1..n : buffered[e] \in Attempt
    BY <1>1, Arrived
  <2>2. /\ buffered' \in Seq(Attempt) /\ Len(buffered') = IF k + 1 <= n THEN n - (k + 1) + 1 ELSE 0
        /\ \A e \in 1..n - (k + 1) + 1 : buffered'[e] = buffered[(k + 1) + e - 1]
    BY <1>1, <1>3, <2>1, SubSeqProperties
  <2>3. k \in 0..n /\ n - (k + 1) + 1 = n - k
    BY <1>1
  <2>4. \A e \in 1..n - k : (k + 1) + e - 1 = k + e
    BY <1>1
  <2>5. Len(buffered') = n - k
    BY <1>1, <2>2, <2>3
  <2> QED
    BY <2>2, <2>3, <2>4, <2>5
<1>5. Consumed' = c + k
  <2>1. Consumed' = Len(arrivals) - Len(buffered') /\ k \in Int
    BY <1>1, <1>3 DEF Consumed
  <2>2. Len(arrivals) = c + n /\ Len(buffered') = n - k
    BY <1>1, <1>4
  <2> QED
    BY <1>1, <2>1, <2>2
<1>6. ASSUME NEW e \in 1..n - k PROVE buffered'[e] = arrivals'[c + k + e]
  <2>1. k + e \in 1..n /\ c + (k + e) = c + k + e
    BY <1>1
  <2>2. buffered[k + e] = arrivals[c + (k + e)]
    BY <1>2, <2>1
  <2> QED
    BY <1>3, <1>4, <2>1, <2>2
<1>7. Buffer'
  BY <1>1, <1>4, <1>5, <1>6 DEF Buffer
<1> QED
  BY <1>1, <1>3, <1>4, <1>5, <1>7

LEMMA SidesLeft ==
  ASSUME RequestsAssumption, RequestInv, Looping, spec' = spec,
         NEW values \in Seq(Attempt), NEW k \in 0..Len(buffered), ServeWith(values, k)
  PROVE  Sides'
<1>1. PICK n : n = Len(rows)
  OBVIOUS
<1>2. /\ n \in Nat /\ Len(rows') = n + 1 /\ Len(pending) \in Nat \ {0}
      /\ \A i \in 1..n : rows'[i] = rows[i]
      /\ rows'[n + 1].time = pending[1].time /\ rows'[n + 1].provisional = pending[1].provisional
      /\ pending[1] \in [time : Times, provisional : BOOLEAN]
      /\ Len(pending') = Len(pending) - 1 /\ \A i \in 1..Len(pending') : pending'[i] = pending[i + 1]
      /\ Parents' = Parents /\ arrivals' = arrivals
  BY <1>1, Emitted
<1>3. PICK m : m = Parents
  OBVIOUS
<1>4. m \in Nat \ {0} /\ m = n + Len(pending) /\ Parents' = m
  BY <1>1, <1>2, <1>3 DEF Parents
<1>5. ASSUME NEW i \in 1..m PROVE Parent(i)' = Parent(i)
  <2>1. CASE i <= n
    <3>1. i \in 1..n /\ i <= Len(rows')
      BY <1>2, <1>4, <2>1
    <3> QED
      BY <1>1, <1>2, <2>1, <3>1 DEF Parent
  <2>2. CASE i = n + 1
    <3>1. Parent(i) = pending[1]
      BY <1>1, <1>2, <2>2 DEF Parent
    <3>2. Parent(i)' = [time |-> pending[1].time, provisional |-> pending[1].provisional]
      BY <1>2, <2>2 DEF Parent
    <3>3. pending[1] = [time |-> pending[1].time, provisional |-> pending[1].provisional]
      BY <1>2
    <3> QED
      BY <3>1, <3>2, <3>3
  <2>3. CASE i > n + 1
    <3>0. PICK p : p = Len(pending)
      OBVIOUS
    <3>4. p \in Nat /\ Len(pending') = p - 1 /\ Len(rows') = n + 1 /\ m = n + p /\ n \in Nat /\ i \in 1..m
      BY <1>2, <1>4, <3>0
    <3>1. i - (n + 1) \in 1..Len(pending') /\ (i - (n + 1)) + 1 = i - n /\ ~ (i <= n) /\ ~ (i <= Len(rows'))
      BY <2>3, <3>4
    <3>2. pending'[i - (n + 1)] = pending[i - n]
      BY <1>2, <3>1
    <3>3. Parent(i) = pending[i - n] /\ Parent(i)' = pending'[i - (n + 1)]
      BY <1>1, <1>2, <3>1 DEF Parent
    <3> QED
      BY <3>2, <3>3
  <2> QED
    BY <1>2, <1>4, <2>1, <2>2, <2>3
<1>6. /\ childSource' = childSource /\ parentSource' = parentSource /\ childIndex' = childIndex
      /\ currentChildIndex' = currentChildIndex /\ subscriber' = subscriber
  BY DEF ServeWith, sideState
<1>7. Sides /\ Timed' = Timed
  BY Fixed DEF RequestInv
<1>8. /\ Climbs(arrivals)' /\ (arrivals # <<>> => arrivals[1].index = 0)'
      /\ (childIndex = Upcoming(arrivals) /\ childIndex <= Len(arrivals))' /\ (Timed => Timely(arrivals))'
      /\ (currentChildIndex = IF arrivals = <<>> THEN -1 ELSE arrivals[Len(arrivals)].index)'
  BY <1>2, <1>6, <1>7 DEF Sides
<1>9. /\ (Len(arrivals) <= childSource.attempts /\ Parents <= parentSource.attempts)'
      /\ (childSource.attempts \in 0..MaxChild /\ parentSource.attempts \in 0..MaxParent)'
  BY <1>2, <1>6, <1>7 DEF Sides
<1>10. (Open => /\ Remembers(childSource, Len(arrivals), arrivals[Len(arrivals)])
                /\ Remembers(parentSource, Parents, Parent(Parents)))'
  <2>1. Parent(Parents)' = Parent(m) /\ Parent(Parents) = Parent(m) /\ Open' = Open
    <3>1. Parent(m)' = Parent(m)
      BY <1>4, <1>5
    <3> QED
      BY <1>3, <1>4, <1>6, <3>1 DEF Open, Parent
  <2> QED
    BY <1>2, <1>6, <1>7, <2>1 DEF Sides, Remembers
<1>11. (Timed => \A i, j \in 1..Parents : i < j =>
          /\ Parent(i).time <= Parent(j).time
          /\ ~Parent(i).provisional => Parent(i).time < Parent(j).time)'
  BY <1>3, <1>4, <1>5, <1>7 DEF Sides
<1> QED
  BY <1>8, <1>9, <1>10, <1>11 DEF Sides

LEMMA BoundaryMoved ==
  ASSUME RequestsAssumption, RequestInv, Looping, spec' = spec,
         NEW values \in Seq(Attempt), NEW k \in 0..Len(buffered), ServeWith(values, k),
         NEW n, n = Len(rows)
  PROVE  /\ LastRow \in 0..n /\ LastFinal(n + 1)' = LastRow
         /\ pending[1].provisional => LastRow' = LastRow /\ finalizedBoundary' = finalizedBoundary
         /\ ~pending[1].provisional =>
              LastRow' = n + 1 /\ finalizedBoundary' = IF Timed THEN pending[1].time ELSE Null
         /\ finalizedBoundary' = (IF Timed /\ LastRow # 0 THEN rows[LastRow].time ELSE Null)'
<1>1. /\ n \in Nat /\ Len(rows') = n + 1 /\ Longer /\ Head(pending) = pending[1]
      /\ \A i \in 1..n : rows'[i] = rows[i]
      /\ rows'[n + 1].time = pending[1].time /\ rows'[n + 1].provisional = pending[1].provisional
  <2>1. Head(pending) = pending[1]
    BY DEF Looping
  <2>2. n \in Nat /\ Len(rows') = n + 1 /\ Longer
    BY Emitted
  <2>3. \A i \in 1..n : rows'[i] = rows[i]
    BY Emitted
  <2>4. rows'[n + 1].time = pending[1].time /\ rows'[n + 1].provisional = pending[1].provisional
    BY Emitted
  <2> QED
    BY <2>1, <2>2, <2>3, <2>4
<1>2. LastRow = LastFinal(n + 1) /\ n + 1 \in 1..Len(rows) + 1
  BY <1>1 DEF LastRow
<1>3. LastFinal(n + 1) \in 0..n
  BY <1>1, <1>2, LastFinalIs
<1>4. LastFinal(n + 1)' = LastFinal(n + 1)
  BY <1>1, <1>2, Stable
<1>5. PICK F : F = {j \in 1..n + 1 : ~rows'[j].provisional}
  OBVIOUS
<1>6. LastRow' = EndOf(F)
  <2>1. 1..(n + 1 + 1) - 1 = 1..n + 1
    BY <1>1
  <2>2. LastRow' = EndOf({j \in 1..(n + 1 + 1) - 1 : ~rows'[j].provisional})
    BY <1>1 DEF LastRow, LastFinal
  <2> QED
    BY <1>5, <2>1, <2>2
<1>7. /\ Timed' = Timed /\ finalizedBoundary = IF Timed /\ LastRow # 0 THEN rows[LastRow].time ELSE Null
      /\ finalizedBoundary' = IF Timed /\ ~pending[1].provisional THEN pending[1].time ELSE finalizedBoundary
  BY <1>1, Fixed DEF RequestInv, Boundaries, ServeWith
<1>8. CASE pending[1].provisional
  <2>1. F = {j \in 1..n : ~rows[j].provisional}
    <3>1. rows'[n + 1].provisional
      BY <1>1, <1>8
    <3>2. \A j \in 1..n + 1 : j \in 1..n \/ j = n + 1
      BY <1>1
    <3>3. \A j \in 1..n : j \in 1..n + 1
      BY <1>1
    <3>4. \A j \in F : j \in {j1 \in 1..n : ~rows[j1].provisional}
      BY <1>1, <1>5, <3>1, <3>2
    <3>5. \A j \in {j1 \in 1..n : ~rows[j1].provisional} : j \in F
      BY <1>1, <1>5, <3>3
    <3> QED
      BY <1>5, <3>4, <3>5
  <2>2. LastRow = EndOf(F)
    <3>1. 1..(n + 1) - 1 = 1..n
      BY <1>1
    <3> QED
      BY <1>2, <2>1, <3>1 DEF LastFinal
  <2>3. LastRow' = LastRow /\ finalizedBoundary' = finalizedBoundary
    BY <1>6, <1>7, <1>8, <2>2
  <2>4. LastRow # 0 => rows'[LastRow] = rows[LastRow]
    BY <1>1, <1>2, <1>3
  <2> QED
    BY <1>2, <1>3, <1>4, <1>7, <1>8, <2>3, <2>4
<1>9. CASE ~pending[1].provisional
  <2>1. n + 1 \in F /\ F \in SUBSET (1..n + 1) /\ n + 1 \in Nat /\ \A d \in F : d <= n + 1
    BY <1>1, <1>5, <1>9
  <2>2. LastRow' = n + 1
    BY <1>6, <2>1, EndOfIs
  <2>3. finalizedBoundary' = IF Timed THEN pending[1].time ELSE Null
    BY <1>7, <1>9
  <2>4. rows'[LastRow'].time = pending[1].time /\ LastRow' # 0
    BY <1>1, <2>2
  <2> QED
    BY <1>2, <1>3, <1>4, <1>7, <1>9, <2>2, <2>3, <2>4
<1> QED
  BY <1>8, <1>9

LEMMA DocumentedLeft ==
  ASSUME RequestsAssumption, RequestInv, Looping, spec' = spec,
         NEW values \in Seq(Attempt), NEW k \in 0..Len(buffered), ServeWith(values, k),
         NEW n, n = Len(rows), NEW P, P = SelectedBy(n + 1)', Lists(values, P)
  PROVE  Documented'
<1>1. n = Len(rows) /\ P = SelectedBy(n + 1)'
  OBVIOUS
<1>2. /\ n \in Nat /\ Len(rows') = n + 1 /\ Longer /\ arrivals' = arrivals
      /\ \A i \in 1..n : rows'[i] = rows[i]
      /\ rows'[n + 1].values = values /\ rows'[n + 1].seen = Len(arrivals)
  BY <1>1, Emitted
<1>3. ASSUME NEW i \in 1..n
      PROVE  (rows[i].seen <= Len(arrivals) /\ Lists(rows[i].values, SelectedBy(i)))'
  <2>1. rows[i].seen <= Len(arrivals) /\ Lists(rows[i].values, SelectedBy(i))
    BY <1>1 DEF RequestInv, Documented
  <2>2. i \in 1..Len(rows) /\ Longer
    BY <1>1, <1>2
  <2>3. Lists(rows[i].values, SelectedBy(i))'
    BY <2>1, <2>2, Stable
  <2>4. rows'[i] = rows[i] /\ arrivals' = arrivals
    BY <1>2
  <2>5. (rows[i].seen <= Len(arrivals))'
    BY <2>1, <2>4
  <2> QED
    BY <2>3, <2>5
<1>4. (rows[n + 1].seen <= Len(arrivals) /\ Lists(rows[n + 1].values, SelectedBy(n + 1)))'
  <2>1. Lists(values, P)'
    BY <1>2 DEF Lists
  <2>2. P = SelectedBy(n + 1)'
    BY <1>1
  <2>3. Lists(rows[n + 1].values, SelectedBy(n + 1))'
    BY <1>2, <2>1, <2>2 DEF Lists
  <2>4. Len(arrivals) \in Nat
    BY Arrived
  <2> QED
    BY <1>2, <2>3, <2>4
<1>5. \A i \in 1..n + 1 : i \in 1..n \/ i = n + 1
  BY <1>2
<1> QED
  BY <1>2, <1>3, <1>4, <1>5 DEF Documented

(* A final row takes the steps consumed with it. *)
LEMMA TakenLeft ==
  ASSUME RequestsAssumption, RequestInv, Looping, spec' = spec, Policy # "sample",
         NEW values \in Seq(Attempt), NEW k \in 0..Len(buffered), ServeWith(values, k),
         pending[1].provisional => k = 0,
         ~pending[1].provisional =>
           /\ Upto <= Upto' /\ {Upto, Upto'} \subseteq Nat
           /\ {values[j].index : j \in 1..Len(values)} = {s \in Nat : Upto <= s /\ s < Upto'}
           /\ ~Timed => \A j \in 1..Len(values) : ~values[j].provisional
  PROVE  TakenInTurn'
<1>1. PICK n : n = Len(rows)
  OBVIOUS
<1>2. /\ n \in Nat /\ Len(rows') = n + 1 /\ Longer /\ arrivals' = arrivals
      /\ \A i \in 1..n : rows'[i] = rows[i]
      /\ rows'[n + 1].values = values /\ rows'[n + 1].provisional = pending[1].provisional
  BY <1>1, Emitted
<1>3. TakenInTurn /\ Timed' = Timed
  BY Fixed DEF RequestInv
<1>4. \A i \in 1..n : Taken(i)' = Taken(i)
  BY <1>1, <1>2, Stable
<1>5. Finals \subseteq 1..n
  BY <1>1 DEF Finals
<1>6. CASE pending[1].provisional
  <2>1. Finals' = Finals
    <3>1. \A i \in 1..n + 1 : i \in 1..n \/ i = n + 1
      BY <1>2
    <3>2. \A i \in 1..n : i \in 1..n + 1
      BY <1>2
    <3>3. \A i \in Finals' : i \in Finals
      BY <1>1, <1>2, <1>6, <3>1 DEF Finals
    <3>4. \A i \in Finals : i \in Finals'
      BY <1>1, <1>2, <3>2 DEF Finals
    <3> QED
      BY <3>3, <3>4
  <2>2. Upto' = Upto
    <3>1. Consumed' = Consumed + k /\ k = 0 /\ Consumed \in Nat
      BY <1>6, BufferLeft, Arrived
    <3>2. Consumed' = Consumed
      BY <3>1
    <3> QED
      BY <1>2, <3>2 DEF Upto
  <2>3. ASSUME NEW i \in Finals
        PROVE  /\ \A j \in Finals \ {i} : Taken(i)' \cap Taken(j)' = {}
               /\ \A s \in Taken(i)' : \A m \in 0..s : \E j \in Finals : j <= i /\ m \in Taken(j)'
               /\ ~Timed => \A j \in 1..Len(rows'[i].values) : ~rows'[i].values[j].provisional
    <3>1. i \in 1..n /\ rows'[i] = rows[i] /\ Taken(i)' = Taken(i) /\ \A j \in Finals : Taken(j)' = Taken(j)
      BY <1>2, <1>4, <1>5
    <3> QED
      BY <1>3, <3>1 DEF TakenInTurn
  <2>4. \A s \in Nat : s < Upto' <=> \E i \in Finals : s \in Taken(i)'
    BY <1>3, <1>4, <1>5, <2>2 DEF TakenInTurn
  <2> QED
    BY <1>3, <2>1, <2>3, <2>4 DEF TakenInTurn
<1>7. CASE ~pending[1].provisional
  <2>1. PICK u, v : u = Upto /\ v = Upto'
    OBVIOUS
  <2>2. PICK V : V = {s \in Nat : u <= s /\ s < v}
    OBVIOUS
  <2>3. u \in Nat /\ v \in Nat /\ u <= v /\ Taken(n + 1)' = V
    BY <1>2, <1>7, <2>1, <2>2 DEF Taken
  <2>4. Finals' = Finals \cup {n + 1} /\ n + 1 \notin Finals
    <3>1. \A i \in 1..n + 1 : i \in 1..n \/ i = n + 1
      BY <1>2
    <3>2. (\A i \in 1..n : i \in 1..n + 1) /\ n + 1 \in 1..n + 1 /\ n + 1 \notin 1..n
      BY <1>2
    <3>3. \A i \in Finals' : i \in Finals \cup {n + 1}
      BY <1>1, <1>2, <3>1 DEF Finals
    <3>4. \A i \in Finals \cup {n + 1} : i \in Finals'
      BY <1>1, <1>2, <1>7, <3>2 DEF Finals
    <3> QED
      BY <1>5, <3>2, <3>3, <3>4
  <2>5. \A s \in Nat : s < u <=> \E i \in Finals : s \in Taken(i)
    BY <1>3, <2>1 DEF TakenInTurn
  <2>6. ASSUME NEW i \in Finals PROVE Taken(i) \subseteq Nat /\ \A s \in Taken(i) : s < u
    <3>1. rows[i].values \in Seq(Attempt) /\ spec \in Specs
      BY <1>1, <1>5 DEF RequestInv, RequestTypeOK
    <3>2. \A j \in 1..Len(rows[i].values) : rows[i].values[j] \in Attempt
      BY <3>1
    <3>3. \A j \in 1..Len(rows[i].values) : rows[i].values[j].index \in Nat
      BY <3>1, <3>2, AttemptIs
    <3>4. Taken(i) \subseteq Nat
      BY <3>3 DEF Taken
    <3> QED
      BY <2>5, <3>4
  <2>7. ASSUME NEW i \in Finals
        PROVE  /\ \A j \in Finals' \ {i} : Taken(i)' \cap Taken(j)' = {}
               /\ \A s \in Taken(i)' : \A m \in 0..s : \E j \in Finals' : j <= i /\ m \in Taken(j)'
               /\ ~Timed => \A j \in 1..Len(rows'[i].values) : ~rows'[i].values[j].provisional
    <3>1. i \in 1..n /\ rows'[i] = rows[i] /\ Taken(i)' = Taken(i) /\ \A j \in Finals : Taken(j)' = Taken(j)
      BY <1>2, <1>4, <1>5
    <3>2. Taken(i)' \cap Taken(n + 1)' = {}
      <4>1. ASSUME NEW s \in Taken(i), s \in V PROVE FALSE
        BY <2>2, <2>3, <2>6, <4>1
      <4> QED
        BY <2>3, <3>1, <4>1
    <3>3. \A j \in Finals \ {i} : Taken(i)' \cap Taken(j)' = {}
      BY <1>3, <3>1 DEF TakenInTurn
    <3>4. \A s \in Taken(i)' : \A m \in 0..s : \E j \in Finals : j <= i /\ m \in Taken(j)'
      BY <1>3, <3>1 DEF TakenInTurn
    <3>5. ~Timed => \A j \in 1..Len(rows'[i].values) : ~rows'[i].values[j].provisional
      BY <1>3, <3>1 DEF TakenInTurn
    <3> QED
      BY <2>4, <3>2, <3>3, <3>4, <3>5
  <2>8. /\ \A j \in Finals' \ {n + 1} : Taken(n + 1)' \cap Taken(j)' = {}
        /\ \A s \in Taken(n + 1)' : \A m \in 0..s : \E j \in Finals' : j <= n + 1 /\ m \in Taken(j)'
        /\ ~Timed => \A j \in 1..Len(rows'[n + 1].values) : ~rows'[n + 1].values[j].provisional
    <3>1. ASSUME NEW j \in Finals PROVE Taken(n + 1)' \cap Taken(j)' = {}
      <4>1. Taken(j)' \cap Taken(n + 1)' = {}
        BY <2>4, <2>7
      <4> QED
        BY <4>1
    <3>2. ASSUME NEW s \in V, NEW m \in 0..s PROVE \E j \in Finals' : j <= n + 1 /\ m \in Taken(j)'
      <4>1. s \in Nat /\ s < v /\ m \in Nat /\ m < v
        BY <2>2, <2>3
      <4>2. CASE m < u
        <5>1. PICK j \in Finals : m \in Taken(j)
          BY <2>5, <4>1, <4>2
        <5>2. j \in Finals' /\ j <= n + 1 /\ m \in Taken(j)'
          BY <1>2, <1>4, <1>5, <2>4, <5>1
        <5> QED
          BY <5>2
      <4>3. CASE ~ (m < u)
        <5>1. m \in V /\ n + 1 \in Finals' /\ n + 1 <= n + 1
          BY <1>2, <2>2, <2>3, <2>4, <4>1, <4>3
        <5> QED
          BY <2>3, <5>1
      <4> QED
        BY <4>2, <4>3
    <3>3. ~Timed => \A j \in 1..Len(rows'[n + 1].values) : ~rows'[n + 1].values[j].provisional
      BY <1>2, <1>7
    <3> QED
      BY <2>3, <2>4, <3>1, <3>2, <3>3
  <2>9. ASSUME NEW s \in Nat PROVE s < v <=> \E i \in Finals' : s \in Taken(i)'
    <3>1. s < u <=> \E i \in Finals : s \in Taken(i)'
      BY <1>4, <1>5, <2>5
    <3>2. s \in V <=> u <= s /\ s < v
      BY <2>2
    <3>3. s < v <=> s < u \/ s \in V
      BY <2>3, <3>2
    <3> QED
      BY <2>3, <2>4, <3>1, <3>3
  <2> QED
    BY <1>3, <2>1, <2>4, <2>7, <2>8, <2>9 DEF TakenInTurn
<1> QED
  BY <1>6, <1>7

LEMMA ServeKeeps ==
  ASSUME RequestsAssumption, RequestInv, Looping, spec' = spec,
         NEW values \in Seq(Attempt), NEW k \in 0..Len(buffered), ServeWith(values, k),
         NEW n, n = Len(rows), NEW P, P = SelectedBy(n + 1)', Lists(values, P),
         selected' \in Attempt \cup {Null}, committedSelection' \in (0..MaxChild) \cup {Null},
         previousMain' = IF Policy = "eventWindow" THEN finalizedBoundary' ELSE Null,
         Policy # "sample" => TakenInTurn',
         Policy \in {"oneToOne", "countWindow"} => ConsumedInTurn',
         Policy = "eventWindow" => ConsumedByTime',
         Policy = "sample" => ConsumedButOne'
  PROVE  RequestInv'
<1>1. /\ Policy' = Policy /\ Timed' = Timed /\ Times' = Times /\ Attempt' = Attempt /\ Row' = Row
  BY Fixed
<1>2. /\ rows' \in Seq(Row) /\ parentIndex' \in 0..MaxParent /\ parentIndex' <= Len(rows')
      /\ pending' \in Seq([time : Times, provisional : BOOLEAN]) /\ arrivals' = arrivals
      /\ pending[1].time \in Times /\ pending[1].provisional \in BOOLEAN
  BY Emitted
<1>3. buffered' \in Seq(Attempt) /\ Buffer'
  BY BufferLeft
<1>4. Sides'
  BY SidesLeft
<1>5. Documented'
  BY DocumentedLeft
<1>6. finalizedBoundary' = (IF Timed /\ LastRow # 0 THEN rows[LastRow].time ELSE Null)'
  BY BoundaryMoved
<1>7. Boundaries'
  <2>1. previousMain' = (IF Policy = "eventWindow" THEN finalizedBoundary ELSE Null)'
    BY <1>1
  <2> QED
    BY <1>2, <1>6, <2>1 DEF Boundaries
<1>8. RequestTypeOK /\ spec \in Specs
  BY DEF RequestInv
<1>9. finalizedBoundary' \in Times \cup {Null}
  <2>1. finalizedBoundary \in Times \cup {Null}
    BY <1>8 DEF RequestTypeOK
  <2>2. finalizedBoundary' = finalizedBoundary \/ finalizedBoundary' = pending[1].time \/ finalizedBoundary' = Null
    BY <1>2, BoundaryMoved
  <2> QED
    BY <1>2, <2>1, <2>2
<1>10. previousMain' \in Times \cup {Null}
  BY <1>9
<1>11. \A i \in 1..Len(rows') : rows'[i].values \in Seq(Attempt)
  <2>1. \A i \in 1..Len(rows') : rows'[i] \in Row
    BY <1>2
  <2> QED
    BY <2>1 DEF Row
<1>12. subscriber' = subscriber /\ childIndex' = childIndex /\ currentChildIndex' = currentChildIndex
  BY DEF ServeWith
<1>13. RequestTypeOK'
  BY <1>1, <1>2, <1>3, <1>8, <1>9, <1>10, <1>11, <1>12 DEF RequestTypeOK
<1> QED
  BY <1>1, <1>2, <1>3, <1>4, <1>5, <1>7, <1>8, <1>13 DEF RequestInv

-----------------------------------------------------------------------------
(***************************************************************************)
(* Joined in turn: one child step for one row, or a fixed number of them.  *)
(***************************************************************************)

LEMMA FirstIs ==
  ASSUME RequestsAssumption, RequestInv, Policy \in {"oneToOne", "countWindow"}
  PROVE  /\ Upto = PerRow * parentIndex /\ Upto \in Nat
         /\ \A e \in 1..Consumed : arrivals[e].index < Upto
         /\ buffered # <<>> => buffered[1].index = Upto
<1>1. PICK c \in Nat, n \in Nat : c = Consumed /\ n = Len(buffered) /\ Len(arrivals) = c + n
  BY Arrived
<1>2. /\ Upto = PerRow * parentIndex /\ (Consumed > 0 => ~arrivals[Consumed].provisional)
      /\ Climbs(arrivals) /\ (arrivals # <<>> => arrivals[1].index = 0)
  BY DEF RequestInv, ConsumedInTurn, Sides
<1>3. Tried(arrivals) /\ (buffered # <<>> => n # 0) /\ \A e \in 1..n : buffered[e] = arrivals[c + e]
  <2>1. buffered # <<>> => n # 0
    BY <1>1, EmptySeq DEF RequestInv, RequestTypeOK
  <2> QED
    BY <1>1, <2>1, Arrived
<1>4. CASE c = 0
  <2>1. Upto = 0
    BY <1>1, <1>4 DEF Upto
  <2>2. ASSUME n # 0 PROVE buffered[1].index = 0
    <3>1. arrivals # <<>> /\ buffered[1] = arrivals[c + 1] /\ c + 1 = 1
      BY <1>1, <1>3, <1>4, <2>2
    <3> QED
      BY <1>2, <3>1
  <2> QED
    BY <1>1, <1>2, <1>3, <1>4, <2>1, <2>2
<1>5. CASE c # 0
  <2>1. Upto = arrivals[c].index + 1 /\ ~arrivals[c].provisional
    BY <1>1, <1>2, <1>5 DEF Upto
  <2>2. c \in 1..Len(arrivals)
    BY <1>1, <1>5
  <2>3. arrivals[c].index \in Nat
    BY <1>3, <2>2 DEF Tried
  <2>4. ASSUME n # 0 PROVE buffered[1].index = Upto
    <3>1. c \in 1..Len(arrivals) - 1 /\ 1 \in 1..n
      BY <1>1, <1>5, <2>4
    <3>2. arrivals[c + 1].index = arrivals[c].index + 1
      BY <1>2, <2>1, <3>1 DEF Climbs, NextIndex
    <3> QED
      BY <1>3, <2>1, <3>1, <3>2
  <2>5. ASSUME NEW e \in 1..c PROVE arrivals[e].index < Upto
    <3>1. e \in 1..Len(arrivals) /\ e <= c
      BY <1>1, <2>2
    <3>2. arrivals[e].index <= arrivals[c].index /\ arrivals[e].index \in Nat
      BY <1>3, <2>2, <3>1, ClimbsIs DEF Tried
    <3> QED
      BY <2>1, <2>3, <3>2
  <2> QED
    BY <1>1, <1>2, <1>3, <2>1, <2>3, <2>4, <2>5
<1> QED
  BY <1>4, <1>5

(* The latest attempts, in order, are of the steps not consumed, in order. *)
LEMMA LatestIs ==
  ASSUME RequestsAssumption, RequestInv, NEW at, at = Latest
  PROVE  /\ Len(at) \in Nat /\ at \in Seq(LatestEnds)
         /\ \A i, j \in 1..Len(at) : i < j => at[i] < at[j]
         /\ \A i \in 1..Len(at) : at[i] \in 1..Len(buffered) /\ at[i] \in LatestEnds
         /\ at \in Surjection(1..Len(at), LatestEnds)
         /\ \A i \in 1..Len(at) : buffered[at[i]].index = buffered[1].index + i - 1
         /\ buffered = <<>> <=> Len(at) = 0
<1>0. PICK m : m = Len(at)
  OBVIOUS
<1>1. PICK n \in Nat : n = Len(buffered) /\ m = Len(at)
  BY <1>0, Arrived
<1>2. LatestEnds = Ends(buffered, n) /\ LatestEnds \in SUBSET (1..n) /\ Tried(buffered)
  BY <1>1, LatestAre, Arrived
<1>3. /\ m \in Nat /\ at \in [1..m -> LatestEnds] /\ \A i, j \in 1..m : i < j => at[i] < at[j]
  <2>1. at = InOrder(LatestEnds)
    BY DEF Latest
  <2>2. /\ Cardinality(LatestEnds) \in Nat /\ at \in [1..Cardinality(LatestEnds) -> LatestEnds]
        /\ Len(at) = Cardinality(LatestEnds)
    BY <1>2, <2>1, InOrderIs
  <2>3. \A i, j \in 1..Len(at) : i < j => at[i] < at[j]
    BY <1>2, <2>1, InOrderIs
  <2> QED
    BY <1>1, <2>2, <2>3
<1>4. at \in Surjection(1..m, LatestEnds)
  BY <1>1, <1>2, InOrderAll DEF Latest
<1>5. \A i \in 1..m : at[i] \in 1..n /\ at[i] \in LatestEnds
  BY <1>2, <1>3
<1>6. at \in Seq(LatestEnds)
  BY <1>3, SeqDef
<1>7. \A i \in 1..m : buffered[at[i]].index = buffered[1].index + i - 1
  <2>1. at \in [1..m -> 1..n]
    BY <1>3, <1>5
  <2>2. at \in Surjection(1..m, Ends(buffered, n))
    BY <1>2, <1>4
  <2>3. \A i, j \in 1..m : i < j => at[i] < at[j]
    BY <1>3
  <2>4. Tried(buffered) /\ n \in Nat /\ n = Len(buffered) /\ m \in Nat
    BY <1>1, <1>2, <1>3
  <2> QED
    BY <2>1, <2>2, <2>3, <2>4, StepsInTurn, Zenon
<1>8. n = 0 <=> m = 0
  <2>1. n # 0 => n \in LatestEnds
    <3>1. n \in 0..Len(buffered)
      BY <1>1
    <3> QED
      BY <1>1, <1>2, <3>1, EndsAre
  <2>2. m = 0 => LatestEnds = {}
    BY <1>4 DEF Surjection
  <2> QED
    BY <1>1, <1>3, <1>5, <2>1, <2>2
<1>9. buffered = <<>> <=> n = 0
  <2>1. buffered \in Seq(Attempt)
    BY DEF RequestInv, RequestTypeOK
  <2> QED
    BY <1>1, <2>1, EmptySeq
<1> QED
  BY <1>1, <1>3, <1>4, <1>5, <1>6, <1>7, <1>8, <1>9

(* What a parent attempt that joins in turn is given. *)
GroupNow ==
  {e \in Steps(Len(arrivals)) :
    arrivals[e].index \in PerRow * parentIndex .. PerRow * (parentIndex + 1) - 1}

LEMMA PerRowIs ==
  ASSUME RequestsAssumption, RequestInv, Policy \in {"oneToOne", "countWindow"}
  PROVE  /\ PerRow \in Nat \ {0} /\ parentIndex \in Nat /\ ~Timed
         /\ PerRow * (parentIndex + 1) = PerRow * parentIndex + PerRow
<1>1. spec \in Specs /\ parentIndex \in 0..MaxParent
  BY DEF RequestInv, RequestTypeOK
<1>2. /\ Count \in Nat \ {0} /\ MaxParent \in Nat /\ Timed \in BOOLEAN
      /\ (Timed <=> Policy \in {"sample", "eventWindow"})
  BY <1>1, RequestIs
<1>3. ~Timed
  BY <1>2
<1>4. PerRow \in Nat \ {0} /\ parentIndex \in Nat
  BY <1>1, <1>2 DEF PerRow
<1>5. \A a, b \in Nat : a * (b + 1) = a * b + a
  OBVIOUS
<1> QED
  BY <1>3, <1>4, <1>5

LEMMA GroupServed ==
  ASSUME RequestsAssumption, RequestInv, Policy \in {"oneToOne", "countWindow"},
         NEW at, at = Latest, NEW g, g = IF PerRow < Len(at) THEN PerRow ELSE Len(at),
         NEW values, values = [k \in 1..g |-> buffered[at[k]]]
  PROVE  /\ g \in Nat /\ values \in Seq(Attempt) /\ Len(values) = g /\ Lists(values, GroupNow)
         /\ \A k \in 1..g : values[k] = buffered[at[k]] /\ values[k].index = Upto + k - 1
<1>0. PICK m : m = Len(at)
  OBVIOUS
<1>1. PICK c \in Nat, n \in Nat :
        c = Consumed /\ n = Len(buffered) /\ Len(arrivals) = c + n /\ m = Len(at)
  BY <1>0, Arrived
<1>2. /\ m \in Nat /\ \A i, j \in 1..m : i < j => at[i] < at[j]
      /\ \A i \in 1..m : at[i] \in 1..n /\ at[i] \in LatestEnds
      /\ at \in Surjection(1..m, LatestEnds)
      /\ \A i \in 1..m : buffered[at[i]].index = buffered[1].index + i - 1
      /\ (buffered = <<>> <=> m = 0)
  BY <1>1, LatestIs
<1>3. /\ PerRow \in Nat \ {0} /\ PerRow * parentIndex = Upto /\ PerRow * (parentIndex + 1) = Upto + PerRow
      /\ Upto \in Nat /\ \A e \in 1..c : arrivals[e].index < Upto
  BY <1>1, FirstIs, PerRowIs
<1>4. \A i \in 1..m : buffered[at[i]].index = Upto + i - 1
  BY <1>2, FirstIs
<1>5. g \in Nat /\ g <= m /\ g <= PerRow /\ \A k \in 1..m : k <= PerRow => k \in 1..g
  BY <1>1, <1>2, <1>3
<1>6. \A k \in 1..g : k \in 1..m
  BY <1>2, <1>5
<1>7. /\ \A e \in 1..n : buffered[e] = arrivals[c + e] /\ (e \in LatestEnds <=> c + e \in Steps(c + n))
      /\ Steps(c + n) \subseteq 1..c + n
  <2>1. \A e \in 1..n : buffered[e] = arrivals[c + e]
    BY <1>1, Arrived
  <2>2. \A e \in 1..n : e \in LatestEnds <=> c + e \in Steps(c + n)
    BY <1>1, LatestAre
  <2> QED
    BY <2>1, <2>2 DEF Steps
<1>8. GroupNow = {e \in Steps(c + n) : arrivals[e].index \in Upto..Upto + PerRow - 1}
  BY <1>1, <1>3 DEF GroupNow
<1>9. PICK to : to = [k \in 1..g |-> c + at[k]]
  OBVIOUS
<1>10. to \in [1..g -> GroupNow]
  <2>1. ASSUME NEW k \in 1..g PROVE c + at[k] \in GroupNow
    <3>1. k \in 1..m /\ at[k] \in 1..n /\ at[k] \in LatestEnds /\ k <= PerRow
      BY <1>2, <1>3, <1>5, <1>6
    <3>2. PICK e : e = at[k]
      OBVIOUS
    <3>3. c + e \in Steps(c + n) /\ arrivals[c + e] = buffered[e] /\ buffered[e].index = Upto + k - 1
      BY <1>4, <1>7, <3>1, <3>2
    <3>4. Upto + k - 1 \in Upto..Upto + PerRow - 1
      BY <1>3, <3>1
    <3> QED
      BY <1>8, <3>2, <3>3, <3>4
  <2> QED
    BY <1>9, <2>1
<1>11. ASSUME NEW e \in GroupNow PROVE \E k \in 1..g : to[k] = e
  <2>1. e \in Steps(c + n) /\ e \in 1..c + n /\ arrivals[e].index \in Upto..Upto + PerRow - 1
    BY <1>7, <1>8
  <2>2. ~ (e \in 1..c)
    BY <1>3, <2>1
  <2>3. PICK d : d = e - c
    OBVIOUS
  <2>4. d \in 1..n /\ c + d = e
    BY <1>1, <2>1, <2>2, <2>3
  <2>5. d \in LatestEnds /\ buffered[d] = arrivals[e]
    BY <1>7, <2>1, <2>4
  <2>6. PICK k \in 1..m : at[k] = d
    BY <1>2, <2>5 DEF Surjection
  <2>7. Upto + k - 1 \in Upto..Upto + PerRow - 1
    <3>1. buffered[at[k]].index = Upto + k - 1
      BY <1>4
    <3> QED
      BY <2>1, <2>5, <2>6, <3>1
  <2>8. k <= PerRow
    BY <1>2, <1>3, <2>7
  <2>9. k \in 1..g
    BY <1>5, <2>8
  <2> QED
    BY <1>9, <2>4, <2>6, <2>9
<1>12. to \in Surjection(1..g, GroupNow)
  BY <1>10, <1>11 DEF Surjection
<1>13. \A k \in 1..g : at[k] \in 1..Len(buffered)
  BY <1>1, <1>2, <1>6
<1>14. \A i, j \in 1..g : i < j => at[i] < at[j]
  BY <1>2, <1>6
<1>15. \A k \in 1..g : to[k] = Consumed + at[k]
  BY <1>1, <1>9
<1>16. values \in Seq(Attempt) /\ Len(values) = g /\ Lists(values, GroupNow)
  <2>1. values = [k \in 1..g |-> values[k]] /\ \A k \in 1..g : values[k] = buffered[at[k]]
    OBVIOUS
  <2>2. Picks(g, at, values, to, GroupNow)
    BY <1>5, <1>12, <1>13, <1>14, <1>15, <2>1, Zenon DEF Picks
  <2> QED
    BY <2>2, Listed, Zenon
<1>17. \A k \in 1..g : values[k] = buffered[at[k]] /\ values[k].index = Upto + k - 1
  BY <1>4, <1>6
<1> QED
  BY <1>5, <1>16, <1>17

LEMMA GroupSelected ==
  ASSUME RequestsAssumption, RequestInv, Policy \in {"oneToOne", "countWindow"}, Looping, spec' = spec,
         NEW values \in Seq(Attempt), NEW k \in 0..Len(buffered), ServeWith(values, k),
         NEW n, n = Len(rows)
  PROVE  SelectedBy(n + 1)' = GroupNow
<1>1. /\ n \in Nat /\ Len(rows') = n + 1 /\ arrivals' = arrivals
      /\ rows'[n + 1].index = parentIndex /\ rows'[n + 1].seen = Len(arrivals)
  BY Emitted
<1>2. Policy' = Policy /\ Count' = Count
  BY Fixed
<1>3. Steps(rows[n + 1].seen)' = Steps(Len(arrivals))
  BY <1>1 DEF Steps
<1>4. ASSUME NEW m PROVE GroupOf(n + 1, m)' =
        {e \in Steps(Len(arrivals)) : arrivals[e].index \in m * parentIndex .. m * (parentIndex + 1) - 1}
  BY <1>1, <1>3 DEF GroupOf
<1>5. GroupOf(n + 1, Count)' =
        {e \in Steps(Len(arrivals)) : arrivals[e].index \in Count * parentIndex .. Count * (parentIndex + 1) - 1}
  BY <1>1, <1>2, <1>3 DEF GroupOf
<1>6. CASE Policy = "oneToOne"
  BY <1>2, <1>4, <1>6 DEF SelectedBy, GroupNow, PerRow
<1>7. CASE Policy = "countWindow"
  BY <1>2, <1>5, <1>7 DEF SelectedBy, GroupNow, PerRow
<1> QED
  BY <1>6, <1>7

LEMMA TurnKeeps ==
  ASSUME RequestsAssumption, RequestInv, Policy \in {"oneToOne", "countWindow"}, Looping, spec' = spec,
         UNCHANGED policyState,
         NEW at, at = Latest, NEW g, g = IF PerRow < Len(at) THEN PerRow ELSE Len(at),
         NEW values, values = [j \in 1..g |-> buffered[at[j]]],
         NEW k, k = IF pending[1].provisional THEN 0 ELSE at[PerRow], ServeWith(values, k),
         ~pending[1].provisional =>
           g = PerRow /\ \A j \in 1..PerRow : ~buffered[at[j]].provisional
  PROVE  RequestInv'
<1>1. PICK u, p : u = Upto /\ p = PerRow
  OBVIOUS
<1>2. /\ g \in Nat /\ values \in Seq(Attempt) /\ Len(values) = g /\ Lists(values, GroupNow)
      /\ \A j \in 1..g : values[j] = buffered[at[j]] /\ values[j].index = u + j - 1
  BY <1>1, GroupServed
<1>3. /\ p \in Nat \ {0} /\ u \in Nat /\ parentIndex \in Nat /\ u = p * parentIndex
      /\ p * (parentIndex + 1) = u + p /\ ~Timed
  BY <1>1, FirstIs, PerRowIs
<1>4. ~pending[1].provisional => /\ at[p] \in 1..Len(buffered) /\ k = at[p] /\ p \in 1..g
                                 /\ buffered[at[p]].index = u + p - 1
                                 /\ buffered[at[p]] = arrivals[Consumed + at[p]]
                                 /\ ~buffered[at[p]].provisional
  <2> SUFFICES ASSUME ~pending[1].provisional
               PROVE  /\ at[p] \in 1..Len(buffered) /\ k = at[p] /\ p \in 1..g
                      /\ buffered[at[p]].index = u + p - 1
                      /\ buffered[at[p]] = arrivals[Consumed + at[p]]
                      /\ ~buffered[at[p]].provisional
    OBVIOUS
  <2>1. g = p /\ p \in 1..g /\ k = at[p] /\ ~buffered[at[p]].provisional
    BY <1>1, <1>3
  <2>2. p \in 1..Len(at)
    <3>1. Len(at) \in Nat
      BY LatestIs
    <3> QED
      BY <1>1, <1>3, <2>1, <3>1
  <2>3. at[p] \in 1..Len(buffered)
    BY <2>2, LatestIs
  <2>4. buffered[at[p]].index = u + p - 1
    BY <1>2, <2>1
  <2>5. buffered[at[p]] = arrivals[Consumed + at[p]]
    BY <2>3, Arrived
  <2> QED
    BY <2>1, <2>3, <2>4, <2>5
<1>5. k \in 0..Len(buffered)
  <2>1. Len(buffered) \in Nat
    BY Arrived
  <2> QED
    BY <1>4, <2>1
<1>6. PICK n : n = Len(rows)
  OBVIOUS
<1>7. SelectedBy(n + 1)' = GroupNow
  BY <1>2, <1>5, <1>6, GroupSelected
<1>8. /\ Consumed' = Consumed + k /\ arrivals' = arrivals /\ Consumed \in Nat /\ PerRow' = p
      /\ parentIndex' = NextIndex(parentIndex, pending[1].provisional)
  <2>1. Consumed' = Consumed + k /\ arrivals' = arrivals
    BY <1>5, BufferLeft
  <2>2. parentIndex' = NextIndex(parentIndex, pending[1].provisional)
    BY <1>2, <1>5, Emitted
  <2>3. Consumed \in Nat /\ PerRow' = p
    BY <1>1, Arrived, Fixed
  <2> QED
    BY <2>1, <2>2, <2>3
<1>9. /\ pending[1].provisional => Upto' = u /\ Consumed' = Consumed
      /\ ~pending[1].provisional => Upto' = u + p /\ Consumed' > 0 /\ ~arrivals'[Consumed'].provisional
  <2>1. CASE pending[1].provisional
    <3>1. Consumed' = Consumed
      BY <1>8, <2>1
    <3> QED
      BY <1>1, <1>8, <2>1, <3>1 DEF Upto
  <2>2. CASE ~pending[1].provisional
    <3>1. /\ Consumed' = Consumed + at[p] /\ Consumed' > 0 /\ Consumed' # 0
          /\ arrivals[Consumed + at[p]].index = u + p - 1 /\ ~arrivals[Consumed + at[p]].provisional
      <4>1. at[p] \in Nat /\ at[p] > 0
        BY <1>4, <2>2
      <4>2. Consumed' = Consumed + at[p]
        BY <1>4, <1>8, <2>2
      <4>3. Consumed' > 0 /\ Consumed' # 0
        BY <1>8, <4>1, <4>2
      <4> QED
        BY <1>4, <2>2, <4>2, <4>3
    <3>2. arrivals'[Consumed'].index = u + p - 1 /\ ~arrivals'[Consumed'].provisional
      BY <1>8, <3>1
    <3>3. Upto' = (u + p - 1) + 1
      BY <3>1, <3>2 DEF Upto
    <3> QED
      BY <1>3, <2>2, <3>1, <3>2, <3>3
  <2> QED
    BY <2>1, <2>2
<1>10. ConsumedInTurn /\ RequestTypeOK /\ spec \in Specs /\ previousMain = Null
  BY DEF RequestInv, Boundaries
<1>11. ConsumedInTurn'
  <2>1. CASE pending[1].provisional
    <3>1. parentIndex' = parentIndex /\ Upto' = u /\ Consumed' = Consumed
      BY <1>8, <1>9, <2>1 DEF NextIndex
    <3> QED
      BY <1>1, <1>3, <1>8, <1>10, <3>1 DEF ConsumedInTurn
  <2>2. CASE ~pending[1].provisional
    <3>1. parentIndex' = parentIndex + 1
      BY <1>8, <2>2 DEF NextIndex
    <3> QED
      BY <1>3, <1>8, <1>9, <2>2, <3>1 DEF ConsumedInTurn
  <2> QED
    BY <2>1, <2>2
<1>12. TakenInTurn'
  <2>1. pending[1].provisional => k = 0
    OBVIOUS
  <2>2. ASSUME ~pending[1].provisional
        PROVE  /\ Upto <= Upto' /\ {Upto, Upto'} \subseteq Nat
               /\ {values[j].index : j \in 1..Len(values)} = {s \in Nat : Upto <= s /\ s < Upto'}
               /\ \A j \in 1..Len(values) : ~values[j].provisional
    <3>1. g = p /\ Upto' = u + p /\ Upto = u /\ Len(values) = p
      BY <1>1, <1>2, <1>9, <2>2
    <3>2. \A j \in 1..p : values[j].index = u + j - 1 /\ values[j] = buffered[at[j]]
      BY <1>2, <3>1
    <3>3. ASSUME NEW s \in Nat, u <= s, s < u + p PROVE \E j \in 1..p : values[j].index = s
      <4>1. s - u + 1 \in 1..p /\ u + (s - u + 1) - 1 = s
        BY <1>3, <3>3
      <4> QED
        BY <3>2, <4>1
    <3>4. ASSUME NEW j \in 1..p PROVE values[j].index \in {s \in Nat : u <= s /\ s < u + p}
      <4>1. u + j - 1 \in Nat /\ u <= u + j - 1 /\ u + j - 1 < u + p
        BY <1>3
      <4> QED
        BY <3>2, <4>1
    <3>5. {values[j].index : j \in 1..p} = {s \in Nat : u <= s /\ s < u + p}
      <4>1. PICK A, B : A = {values[j].index : j \in 1..p} /\ B = {s \in Nat : u <= s /\ s < u + p}
        OBVIOUS
      <4>2. \A s \in B : s \in A
        BY <3>3, <4>1
      <4>3. \A s \in A : s \in B
        BY <3>4, <4>1
      <4> QED
        BY <4>1, <4>2, <4>3
    <3>6. \A j \in 1..p : ~values[j].provisional
      <4>1. \A j \in 1..p : ~buffered[at[j]].provisional
        BY <1>1, <2>2
      <4> QED
        BY <3>2, <4>1, Zenon
    <3>7. Upto <= Upto' /\ {Upto, Upto'} \subseteq Nat
      BY <1>3, <3>1
    <3>8. {values[j].index : j \in 1..Len(values)} = {s \in Nat : Upto <= s /\ s < Upto'}
      BY <3>1, <3>5
    <3>9. \A j \in 1..Len(values) : ~values[j].provisional
      BY <3>1, <3>6
    <3> QED
      BY <3>7, <3>8, <3>9
  <2>3. Policy # "sample"
    OBVIOUS
  <2> QED
    BY <1>2, <1>5, <2>1, <2>2, <2>3, TakenLeft
<1>13. /\ selected' \in Attempt \cup {Null} /\ committedSelection' \in (0..MaxChild) \cup {Null}
       /\ previousMain' = Null
  BY <1>10 DEF policyState, RequestTypeOK
<1> QED
  BY <1>2, <1>5, <1>6, <1>7, <1>11, <1>12, <1>13, ServeKeeps

LEMMA OneToOneKeeps ==
  ASSUME RequestsAssumption, RequestInv, OneToOne, spec' = spec
  PROVE  RequestInv'
<1>1. PICK at, g : at = Latest /\ g = IF PerRow < Len(at) THEN PerRow ELSE Len(at)
  OBVIOUS
<1>2. /\ Policy = "oneToOne" /\ Looping /\ UNCHANGED policyState /\ PerRow = 1
      /\ at # <<>> /\ (~pending[1].provisional => ~buffered[at[1]].provisional)
      /\ ServeWith(<<buffered[at[1]]>>, IF pending[1].provisional THEN 0 ELSE at[1])
  BY <1>1 DEF OneToOne, OneToOneReady, PerRow
<1>3. g = 1
  <2>1. at \in Seq(LatestEnds) /\ Len(at) \in Nat
    BY <1>1, LatestIs
  <2>2. Len(at) # 0
    BY <1>2, <2>1, EmptySeq
  <2> QED
    BY <1>1, <1>2, <2>1, <2>2
<1>4. <<buffered[at[1]]>> = [j \in 1..g |-> buffered[at[j]]]
  BY <1>3
<1>5. PICK values, k : /\ values = [j \in 1..g |-> buffered[at[j]]]
                        /\ k = IF pending[1].provisional THEN 0 ELSE at[PerRow]
  OBVIOUS
<1>6. ServeWith(values, k)
  BY <1>2, <1>4, <1>5
<1>7. ~pending[1].provisional =>
        g = PerRow /\ \A j \in 1..PerRow : ~buffered[at[j]].provisional
  BY <1>2, <1>3
<1> QED
  BY <1>1, <1>2, <1>5, <1>6, <1>7, TurnKeeps

LEMMA CountWindowKeeps ==
  ASSUME RequestsAssumption, RequestInv, CountWindow, spec' = spec
  PROVE  RequestInv'
<1>1. PICK at, g : at = Latest /\ g = IF PerRow < Len(at) THEN PerRow ELSE Len(at)
  OBVIOUS
<1>2. /\ Policy = "countWindow" /\ Looping /\ UNCHANGED policyState /\ PerRow = Count
      /\ Group = SubSeq(at, 1, g) /\ CountWindowReady
      /\ ServeWith([j \in 1..Len(Group) |-> buffered[Group[j]]],
                   IF Head(pending).provisional THEN 0 ELSE Group[Count])
  <2>1. Policy = "countWindow" /\ Looping /\ UNCHANGED policyState /\ PerRow = Count /\ CountWindowReady
    BY DEF CountWindow, PerRow
  <2>2. Group = SubSeq(at, 1, g)
    BY <1>1, <2>1 DEF Group
  <2>3. ServeWith([j \in 1..Len(Group) |-> buffered[Group[j]]],
                  IF Head(pending).provisional THEN 0 ELSE Group[Count])
    BY Zenon DEF CountWindow
  <2> QED
    BY <2>1, <2>2, <2>3, Zenon
<1>3. /\ PerRow \in Nat \ {0} /\ Len(at) \in Nat /\ at \in Seq(LatestEnds)
  BY <1>1, <1>2, PerRowIs, LatestIs
<1>4. Len(Group) = g /\ g \in Nat /\ \A j \in 1..g : Group[j] = at[j]
  <2>1. g \in 0..Len(at)
    BY <1>1, <1>3
  <2>2. \A j \in 1..g : at[j] \in LatestEnds
    BY <1>3, <2>1
  <2>3. Len(Group) = (IF 1 <= g THEN g - 1 + 1 ELSE 0) /\ \A j \in 1..g - 1 + 1 : Group[j] = at[1 + j - 1]
    BY <1>2, <2>1, <2>2, SubSeqProperties
  <2> QED
    BY <1>3, <2>1, <2>3
<1>5. [j \in 1..Len(Group) |-> buffered[Group[j]]] = [j \in 1..g |-> buffered[at[j]]]
  BY <1>4
<1>6. ~pending[1].provisional =>
        g = PerRow /\ Group[Count] = at[PerRow] /\ \A j \in 1..PerRow : ~buffered[at[j]].provisional
  <2> SUFFICES ASSUME ~pending[1].provisional
               PROVE  g = PerRow /\ Group[Count] = at[PerRow]
                      /\ \A j \in 1..PerRow : ~buffered[at[j]].provisional
    OBVIOUS
  <2>1. Len(Group) = Count /\ \A j \in 1..Count : ~buffered[Group[j]].provisional
    <3>1. Head(pending) = pending[1]
      BY <1>2 DEF Looping
    <3> QED
      BY <1>2, <3>1, Zenon DEF CountWindowReady
  <2>2. g = PerRow /\ PerRow \in 1..g /\ 1..Count = 1..g
    BY <1>2, <1>3, <1>4, <2>1
  <2>3. \A j \in 1..g : ~buffered[at[j]].provisional
    BY <1>4, <2>1, <2>2
  <2> QED
    BY <1>2, <1>4, <2>2, <2>3
<1>7. PICK values, k : /\ values = [j \in 1..g |-> buffered[at[j]]]
                        /\ k = IF pending[1].provisional THEN 0 ELSE at[PerRow]
  OBVIOUS
<1>8. ServeWith(values, k)
  <2>1. Head(pending) = pending[1]
    BY <1>2 DEF Looping
  <2>2. (IF Head(pending).provisional THEN 0 ELSE Group[Count]) = k
    BY <1>6, <1>7, <2>1
  <2>3. [j \in 1..Len(Group) |-> buffered[Group[j]]] = values
    BY <1>5, <1>7
  <2> QED
    BY <1>2, <2>2, <2>3, Zenon
<1> QED
  BY <1>1, <1>2, <1>6, <1>7, <1>8, TurnKeeps

-----------------------------------------------------------------------------
(***************************************************************************)
(* Joined by time.                                                         *)
(***************************************************************************)

(* Parents' times do not go back. *)
LEMMA TimesPass ==
  ASSUME RequestsAssumption, RequestInv, Timed, pending # <<>>, NEW i \in 1..Len(rows)
  PROVE  /\ rows[i].time \in Int /\ pending[1].time \in Int
         /\ rows[i].time <= pending[1].time
         /\ ~rows[i].provisional => rows[i].time < pending[1].time
<1>1. PICK n, p : n = Len(rows) /\ p = Len(pending)
  OBVIOUS
<1>2. /\ rows \in Seq(Row) /\ n \in Nat /\ p \in Nat \ {0} /\ spec \in Specs
      /\ pending \in Seq([time : Times, provisional : BOOLEAN])
  BY <1>1, EmptySeq DEF RequestInv, RequestTypeOK
<1>3. i \in 1..Parents /\ n + 1 \in 1..Parents /\ i < n + 1
  BY <1>1, <1>2 DEF Parents
<1>4. Parent(i) = [time |-> rows[i].time, provisional |-> rows[i].provisional]
  BY <1>1, <1>2 DEF Parent
<1>5. Parent(n + 1) = pending[1]
  <2>1. ~ (n + 1 <= n) /\ (n + 1) - n = 1
    BY <1>2
  <2> QED
    BY <1>1, <2>1 DEF Parent
<1>6. /\ Parent(i).time <= Parent(n + 1).time
      /\ ~Parent(i).provisional => Parent(i).time < Parent(n + 1).time
  BY <1>3 DEF RequestInv, Sides
<1>7. rows[i].time \in Times /\ pending[1].time \in Times
  <2>1. rows[i] \in Row
    BY <1>2
  <2>2. PICK A : A = [time : Times, provisional : BOOLEAN]
    OBVIOUS
  <2>3. pending \in Seq(A) /\ 1 \in 1..Len(pending)
    BY <1>1, <1>2, <2>2
  <2>4. pending[1] \in A
    BY <2>3
  <2> QED
    BY <2>1, <2>2, <2>4 DEF Row
<1>8. rows[i].time \in Int /\ pending[1].time \in Int
  <2>1. \A t \in Times : t \in Int
    BY <1>2, RequestIs
  <2> QED
    BY <1>7, <2>1
<1> QED
  BY <1>4, <1>5, <1>6, <1>8

(* Steps that are open to the oldest parent attempt. *)
OpenNow == {e \in Steps(Len(arrivals)) : arrivals[e].time <= pending[1].time}

(* The latest attempt of a step. *)
LEMMA LatestOf ==
  ASSUME RequestsAssumption, RequestInv, Timed, NEW e \in 1..Len(arrivals)
  PROVE  \E d \in Steps(Len(arrivals)) :
           /\ d \in 1..Len(arrivals) /\ e <= d
           /\ arrivals[d].index = arrivals[e].index /\ arrivals[d].time = arrivals[e].time
<1>1. PICK m \in Nat : m = Len(arrivals)
  BY Arrived
<1>2. Tried(arrivals) /\ Steps(m) = Ends(arrivals, m) /\ m \in 0..Len(arrivals)
  BY <1>1, Arrived, LatestAre
<1>3. PICK d \in Ends(arrivals, m) : e <= d /\ arrivals[d].index = arrivals[e].index
  BY <1>1, <1>2, StepEnds
<1>4. d \in 1..Len(arrivals)
  BY <1>1 DEF Ends
<1>5. arrivals[d].time = arrivals[e].time
  BY <1>3, <1>4, TimesTell
<1> QED
  BY <1>1, <1>2, <1>3, <1>4, <1>5

LEMMA OpenIs ==
  ASSUME RequestsAssumption, RequestInv, Timed, Looping
  PROVE  /\ UpTo(pending[1].time) \in SUBSET (1..Len(buffered))
         /\ \A e \in UpTo(pending[1].time) :
              Consumed + e \in OpenNow /\ buffered[e] = arrivals[Consumed + e]
         /\ \A e \in OpenNow : /\ e \in 1..Len(arrivals) /\ arrivals[e].time <= pending[1].time
                               /\ e > Consumed => e - Consumed \in UpTo(pending[1].time)
<1>1. PICK c \in Nat, n \in Nat : c = Consumed /\ n = Len(buffered) /\ Len(arrivals) = c + n
  BY Arrived
<1>2. /\ LatestEnds \in SUBSET (1..n)
      /\ \A e \in 1..n : buffered[e] = arrivals[c + e] /\ (e \in LatestEnds <=> c + e \in Steps(c + n))
  BY <1>1, Arrived, LatestAre
<1>3. PICK t \in Int : t = pending[1].time
  <2>1. spec \in Specs /\ pending # <<>> /\ pending \in Seq([time : Times, provisional : BOOLEAN])
    BY DEF RequestInv, RequestTypeOK, Looping
  <2>2. PICK A : A = [time : Times, provisional : BOOLEAN]
    OBVIOUS
  <2>3. pending \in Seq(A) /\ 1 \in 1..Len(pending)
    BY <2>1, <2>2, EmptySeq
  <2>4. pending[1] \in A
    BY <2>3
  <2>5. pending[1].time \in Times /\ \A x \in Times : x \in Int
    BY <2>1, <2>2, <2>4, RequestIs
  <2> QED
    BY <2>5
<1>4. UpTo(t) = {e \in LatestEnds : arrivals[c + e].time <= t}
  BY <1>1, <1>3, UpToIs
<1>5. OpenNow = {e \in Steps(c + n) : arrivals[e].time <= t} /\ Steps(c + n) \subseteq 1..c + n
  BY <1>1, <1>3 DEF OpenNow, Steps
<1>6. ASSUME NEW e \in UpTo(t) PROVE c + e \in OpenNow /\ buffered[e] = arrivals[c + e]
  <2>1. e \in LatestEnds /\ e \in 1..n /\ arrivals[c + e].time <= t
    BY <1>2, <1>4
  <2> QED
    BY <1>2, <1>5, <2>1
<1>7. ASSUME NEW e \in OpenNow, e > c PROVE e - c \in UpTo(t)
  <2>1. e \in 1..c + n /\ e \in Steps(c + n) /\ arrivals[e].time <= t
    BY <1>5
  <2>2. PICK d : d = e - c
    OBVIOUS
  <2>3. d \in 1..n /\ c + d = e
    BY <1>7, <2>1, <2>2
  <2>4. d \in LatestEnds /\ arrivals[c + d].time <= t
    BY <1>2, <2>1, <2>3
  <2> QED
    BY <1>4, <2>2, <2>4
<1> QED
  BY <1>1, <1>2, <1>3, <1>4, <1>5, <1>6, <1>7

LEMMA OpenSelected ==
  ASSUME RequestsAssumption, RequestInv, Timed, Looping, spec' = spec,
         NEW values \in Seq(Attempt), NEW k \in 0..Len(buffered), ServeWith(values, k),
         NEW n, n = Len(rows), NEW l, l = LastRow
  PROVE  /\ Opened(n + 1)' = OpenNow /\ LastFinal(n + 1)' = l /\ l \in 0..n
         /\ l # 0 => /\ rows'[l] = rows[l] /\ Opened(l)' = Opened(l)
                     /\ l \in 1..n /\ ~rows[l].provisional
<1>1. /\ n \in Nat /\ Len(rows') = n + 1 /\ arrivals' = arrivals /\ Longer
      /\ rows'[n + 1].time = pending[1].time /\ rows'[n + 1].seen = Len(arrivals)
      /\ \A i \in 1..n : rows'[i] = rows[i]
  BY Emitted
<1>2. Opened(n + 1)' = OpenNow
  BY <1>1 DEF Opened, OpenNow, Steps
<1>3. LastFinal(n + 1)' = l /\ l \in 0..n
  BY BoundaryMoved
<1>4. l = LastFinal(n + 1) /\ n + 1 \in 1..Len(rows) + 1
  BY <1>1 DEF LastRow
<1>5. l # 0 => ~rows[l].provisional /\ l \in 1..n
  BY <1>1, <1>3, <1>4, LastFinalIs
<1>6. l # 0 => Opened(l)' = Opened(l)
  BY <1>1, <1>5, Stable
<1> QED
  BY <1>1, <1>2, <1>3, <1>5, <1>6

(* What a parent attempt that joins by time windows is given. *)
WindowNow == {e \in OpenNow : previousMain # Null => arrivals[e].time > previousMain}

Gathered(at) == [j \in 1..Len(at) |-> buffered[at[j]]]
SameSteps(values, P) ==
  {values[j].index : j \in 1..Len(values)} = {arrivals[e].index : e \in P}

LEMMA WindowServed ==
  ASSUME RequestsAssumption, RequestInv, Policy = "eventWindow", Timed, Looping,
         NEW W, W = Window(pending[1].time), NEW at, at = InOrder(W),
         NEW values, values = Gathered(at),
         NEW P, P = WindowNow
  PROVE  /\ values \in Seq(Attempt) /\ Lists(values, P)
         /\ \A e \in P : e > Consumed
         /\ SameSteps(values, P)
<1>0. P = {e \in OpenNow : previousMain # Null => arrivals[e].time > previousMain}
  BY DEF WindowNow
<1>a. values = [j \in 1..Len(at) |-> buffered[at[j]]]
  BY DEF Gathered
<1>1. PICK c \in Nat, n \in Nat : c = Consumed /\ n = Len(buffered) /\ Len(arrivals) = c + n
  BY Arrived
<1>2. PICK U : U = UpTo(pending[1].time)
  OBVIOUS
<1>3. /\ U \in SUBSET (1..n) /\ \A e \in U : c + e \in OpenNow /\ buffered[e] = arrivals[c + e]
      /\ \A e \in OpenNow : /\ e \in 1..c + n /\ arrivals[e].time <= pending[1].time
                            /\ e > c => e - c \in U
  BY <1>1, <1>2, OpenIs
<1>4. W = {e \in U : previousMain # Null => buffered[e].time > previousMain}
  BY <1>2 DEF Window
<1>5. W \in SUBSET (1..n)
  BY <1>3, <1>4
<1>6. PICK g : g = Len(at)
  OBVIOUS
<1>7. /\ g \in Nat /\ (\A j \in 1..g : at[j] \in W) /\ \A i, j \in 1..g : i < j => at[i] < at[j]
  <2>1. /\ Cardinality(W) \in Nat /\ at \in [1..Cardinality(W) -> W] /\ Len(at) = Cardinality(W)
    BY <1>5, InOrderIs
  <2>2. W \in SUBSET (1..n) /\ n \in Nat /\ at = InOrder(W)
    BY <1>5
  <2>3. \A i, j \in 1..Len(at) : i < j => at[i] < at[j]
    BY <2>2, InOrderIs
  <2> QED
    BY <1>6, <2>1, <2>3
<1>8. at \in Surjection(1..g, W)
  BY <1>5, <1>6, InOrderAll
<1>9. ASSUME NEW e \in P PROVE e > c
  <2>1. e \in OpenNow /\ e \in Int /\ c \in Int
    BY <1>0, <1>3
  <2>2. ASSUME ~ (e > c) PROVE FALSE
    <3>1. e \in 1..c /\ c > 0 /\ e \in 1..Len(arrivals)
      BY <1>1, <1>3, <2>1, <2>2
    <3>2. ConsumedByTime /\ previousMain = finalizedBoundary
      BY DEF RequestInv, Boundaries
    <3>3. finalizedBoundary # Null /\ arrivals[e].time <= finalizedBoundary
      BY <1>1, <3>1, <3>2 DEF ConsumedByTime
    <3>4. arrivals[e].time > finalizedBoundary
      BY <1>0, <3>2, <3>3
    <3>5. arrivals[e].time \in Int
      BY <3>1, TimesTell
    <3>6. finalizedBoundary \in Int
      <4>1. finalizedBoundary \in Times \cup {Null} /\ spec \in Specs
        BY DEF RequestInv, RequestTypeOK
      <4> QED
        BY <3>3, <4>1, RequestIs
    <3> QED
      BY <3>3, <3>4, <3>5, <3>6
  <2> QED
    BY <2>2
<1>10. ASSUME NEW e \in P PROVE e - c \in W
  <2>1. e \in OpenNow /\ e > c /\ (previousMain # Null => arrivals[e].time > previousMain)
    BY <1>0, <1>9
  <2>2. PICK d : d = e - c
    OBVIOUS
  <2>3. d \in U /\ c + d = e
    BY <1>1, <1>3, <2>1, <2>2
  <2>4. buffered[d] = arrivals[e]
    BY <1>3, <2>3
  <2> QED
    BY <1>4, <2>1, <2>2, <2>3, <2>4
<1>11. ASSUME NEW d \in W PROVE c + d \in P /\ buffered[d] = arrivals[c + d]
  <2>1. d \in U /\ c + d \in OpenNow /\ buffered[d] = arrivals[c + d]
    BY <1>3, <1>4
  <2>2. previousMain # Null => arrivals[c + d].time > previousMain
    BY <1>4, <2>1
  <2> QED
    BY <1>0, <2>1, <2>2
<1>12. PICK to : to = [j \in 1..g |-> c + at[j]]
  OBVIOUS
<1>13. to \in [1..g -> P]
  BY <1>7, <1>11, <1>12
<1>14. ASSUME NEW e \in P PROVE \E j \in 1..g : to[j] = e
  <2>1. PICK d : d = e - c
    OBVIOUS
  <2>2. d \in W /\ c + d = e
    <3>1. e \in Int /\ c \in Int
      BY <1>0, <1>3
    <3> QED
      BY <1>10, <2>1, <3>1
  <2>3. PICK j \in 1..g : at[j] = d
    BY <1>8, <2>2 DEF Surjection
  <2> QED
    BY <1>12, <2>2, <2>3
<1>15. to \in Surjection(1..g, P)
  BY <1>13, <1>14 DEF Surjection
<1>16. \A j \in 1..g : at[j] \in 1..Len(buffered) /\ to[j] = Consumed + at[j]
  BY <1>1, <1>5, <1>7, <1>12
<1>17. values \in Seq(Attempt) /\ Len(values) = g /\ Lists(values, P)
  <2>1. values = [j \in 1..g |-> values[j]] /\ \A j \in 1..g : values[j] = buffered[at[j]]
    BY <1>a, <1>6
  <2>2. Picks(g, at, values, to, P)
    BY <1>7, <1>15, <1>16, <2>1, Zenon DEF Picks
  <2> QED
    BY <2>2, Listed, Zenon
<1>18. \A j \in 1..g : values[j] = arrivals[to[j]] /\ to[j] \in P
  BY <1>a, <1>6, <1>7, <1>11, <1>12
<1>19. {values[j].index : j \in 1..Len(values)} = {arrivals[e].index : e \in P}
  <2>1. PICK A, B : A = {values[j].index : j \in 1..g} /\ B = {arrivals[e].index : e \in P}
    OBVIOUS
  <2>2. ASSUME NEW s \in A PROVE s \in B
    <3>1. PICK i \in 1..g : s = values[i].index
      BY <2>1
    <3>2. s = arrivals[to[i]].index /\ to[i] \in P
      BY <1>18, <3>1
    <3> QED
      BY <2>1, <3>2
  <2>3. ASSUME NEW s \in B PROVE s \in A
    <3>1. PICK e \in P : s = arrivals[e].index
      BY <2>1
    <3>2. PICK i \in 1..g : to[i] = e
      BY <1>14
    <3>3. s = values[i].index
      BY <1>18, <3>1, <3>2
    <3>4. \E j \in 1..g : s = values[j].index
      BY <3>3
    <3> QED
      BY <2>1, <3>4
  <2> QED
    BY <1>17, <2>1, <2>2, <2>3
<1> QED
  BY <1>1, <1>9, <1>17, <1>19 DEF SameSteps

LEMMA WindowSelected ==
  ASSUME RequestsAssumption, RequestInv, Policy = "eventWindow", Timed, Looping, spec' = spec,
         NEW values \in Seq(Attempt), NEW k \in 0..Len(buffered), ServeWith(values, k),
         NEW n, n = Len(rows)
  PROVE  SelectedBy(n + 1)' = WindowNow
<1>1. PICK l : l = LastRow
  OBVIOUS
<1>2. /\ Opened(n + 1)' = OpenNow /\ LastFinal(n + 1)' = l
      /\ l # 0 => rows'[l] = rows[l] /\ l \in 1..n
  BY <1>1, OpenSelected
<1>3. previousMain = IF l # 0 THEN rows[l].time ELSE Null
  BY <1>1 DEF RequestInv, Boundaries
<1>4. l # 0 => rows[l].time # Null
  <2>1. l # 0 => rows[l].time \in Int
    BY <1>2, TimesPass DEF Looping
  <2>2. spec \in Specs
    BY DEF RequestInv
  <2> QED
    BY <2>1, <2>2, RequestIs
<1>5. arrivals' = arrivals /\ Policy' = Policy
  BY Emitted, Fixed
<1>6. SelectedBy(n + 1)' = WindowOf(n + 1)'
  BY <1>5 DEF SelectedBy
<1>7. WindowOf(n + 1)' = {e \in OpenNow : l # 0 => arrivals[e].time > rows[l].time}
  BY <1>2, <1>5 DEF WindowOf
<1>8. WindowNow = {e \in OpenNow : l # 0 => arrivals[e].time > rows[l].time}
  BY <1>3, <1>4 DEF WindowNow
<1> QED
  BY <1>6, <1>7, <1>8

(* A final window takes the steps up to the last one opened. *)
LEMMA WindowTaken ==
  ASSUME RequestsAssumption, RequestInv, Policy = "eventWindow", Timed, Looping, MainTimeIncreases,
         NEW k, k = EndOf(UpTo(pending[1].time)), NEW c, c = Consumed + k,
         NEW v, v = IF c = 0 THEN 0 ELSE arrivals[c].index + 1
  PROVE  /\ k \in 0..Len(buffered) /\ {Upto, v} \subseteq Nat /\ Upto <= v
         /\ {arrivals[e].index : e \in WindowNow} = {s \in Nat : Upto <= s /\ s < v}
         /\ \A e \in 1..c : arrivals[e].time <= pending[1].time
         /\ \A e \in c + 1..Len(arrivals) : arrivals[e].time > pending[1].time
<1>1. PICK b \in Nat, n \in Nat : b = Consumed /\ n = Len(buffered) /\ Len(arrivals) = b + n
  BY Arrived
<1>2. PICK U : U = UpTo(pending[1].time)
  OBVIOUS
<1>3. /\ U \in SUBSET (1..n) /\ \A e \in U : b + e \in OpenNow
      /\ \A e \in OpenNow : /\ e \in 1..b + n /\ arrivals[e].time <= pending[1].time
                            /\ e > b => e - b \in U
  BY <1>1, <1>2, OpenIs
<1>4. /\ k \in 0..n /\ (U = {} <=> k = 0) /\ (k # 0 => k \in U) /\ \A d \in U : d <= k
  <2>1. k = EndOf(U)
    BY <1>2
  <2> QED
    BY <1>3, <2>1, EndOfIs
<1>5. c = b + k /\ c \in 0..b + n
  BY <1>1, <1>4
<1>6. /\ k # 0 => c \in OpenNow /\ arrivals[c].time <= pending[1].time
      /\ \A e \in OpenNow : e <= c
  <2>1. k # 0 => c \in OpenNow
    BY <1>3, <1>4, <1>5
  <2>2. ASSUME NEW e \in OpenNow PROVE e <= c
    <3>1. e \in 1..b + n /\ (e > b => e - b <= k)
      BY <1>3, <1>4
    <3> QED
      BY <1>4, <1>5, <3>1
  <2> QED
    BY <1>3, <2>1, <2>2
<1>7. /\ Tried(arrivals) /\ spec \in Specs /\ Climbs(arrivals) /\ (arrivals # <<>> => arrivals[1].index = 0)
      /\ ConsumedByTime /\ previousMain = finalizedBoundary
      /\ finalizedBoundary \in Times \cup {Null}
  BY Arrived DEF RequestInv, Sides, Boundaries, RequestTypeOK
<1>8. finalizedBoundary # Null => finalizedBoundary \in Int
  BY <1>7, RequestIs
<1>9. /\ \A e \in 1..b + n : arrivals[e].index \in Nat /\ arrivals[e].time \in Int
      /\ \A e, f \in 1..b + n : e <= f => /\ arrivals[e].index <= arrivals[f].index
                                         /\ arrivals[e].time <= arrivals[f].time
      /\ \A e, f \in 1..b + n : arrivals[e].index = arrivals[f].index => arrivals[e].time = arrivals[f].time
  <2>1. \A e \in 1..b + n : arrivals[e].index \in Nat
    BY <1>1, <1>7 DEF Tried
  <2>2. \A e, f \in 1..b + n : e <= f => arrivals[e].index <= arrivals[f].index
    BY <1>1, <1>7, ClimbsIs
  <2>3. ASSUME NEW e \in 1..b + n, NEW f \in 1..b + n
        PROVE  /\ e <= f => arrivals[e].time <= arrivals[f].time
               /\ arrivals[e].index = arrivals[f].index => arrivals[e].time = arrivals[f].time
    BY <1>1, TimesTell
  <2>4. \A e \in 1..b + n : arrivals[e].time \in Int
    BY <1>1, TimesTell
  <2>5. \A e, f \in 1..b + n : e <= f => arrivals[e].time <= arrivals[f].time
    BY <2>3
  <2>6. \A e, f \in 1..b + n : arrivals[e].index = arrivals[f].index => arrivals[e].time = arrivals[f].time
    BY <2>3
  <2>7. \A e \in 1..b + n : arrivals[e].index \in Nat /\ arrivals[e].time \in Int
    BY <2>1, <2>4
  <2>8. \A e, f \in 1..b + n : e <= f => /\ arrivals[e].index <= arrivals[f].index
                                         /\ arrivals[e].time <= arrivals[f].time
    BY <2>2, <2>5
  <2> QED
    BY <2>6, <2>7, <2>8
<1>10. pending[1].time \in Int /\ (finalizedBoundary # Null => finalizedBoundary < pending[1].time)
  <2>1. pending \in Seq([time : Times, provisional : BOOLEAN]) /\ pending # <<>>
    BY DEF RequestInv, RequestTypeOK, Looping
  <2>2. PICK A : A = [time : Times, provisional : BOOLEAN]
    OBVIOUS
  <2>3. pending \in Seq(A) /\ 1 \in 1..Len(pending) /\ Head(pending) = pending[1]
    BY <2>1, <2>2, EmptySeq
  <2>4. pending[1] \in A
    BY <2>3
  <2>5. pending[1].time \in Int
    <3>1. pending[1].time \in Times
      BY <2>2, <2>4
    <3> QED
      BY <1>7, <3>1, RequestIs
  <2>6. finalizedBoundary # Null => pending[1].time > finalizedBoundary
    BY <1>7, <2>3 DEF MainTimeIncreases
  <2> QED
    BY <1>8, <2>5, <2>6
<1>11. ASSUME NEW e \in 1..c PROVE arrivals[e].time <= pending[1].time
  <2>1. CASE k = 0
    <3>1. e \in 1..b /\ b # 0 /\ e \in 1..b + n
      BY <1>1, <1>5, <2>1
    <3>2. finalizedBoundary # Null /\ arrivals[e].time <= finalizedBoundary
      BY <1>1, <1>7, <3>1 DEF ConsumedByTime
    <3>3. arrivals[e].time \in Int
      BY <1>9, <3>1
    <3> QED
      BY <1>8, <1>10, <3>2, <3>3
  <2>2. CASE k # 0
    <3>1. e <= c /\ e \in 1..b + n /\ c \in 1..b + n
      BY <1>5
    <3>2. arrivals[e].time <= arrivals[c].time /\ arrivals[c].time <= pending[1].time
      BY <1>6, <1>9, <2>2, <3>1
    <3>3. arrivals[e].time \in Int /\ arrivals[c].time \in Int
      BY <1>9, <3>1
    <3> QED
      BY <1>10, <3>2, <3>3
  <2> QED
    BY <2>1, <2>2
<1>12. ASSUME NEW e \in c + 1..b + n PROVE arrivals[e].time > pending[1].time
  <2>1. e \in 1..b + n /\ e > c
    BY <1>5
  <2>2. PICK x \in Steps(Len(arrivals)) : e <= x /\ x \in 1..b + n /\ arrivals[x].time = arrivals[e].time
    BY <1>1, <2>1, LatestOf
  <2>3. ASSUME arrivals[e].time <= pending[1].time PROVE FALSE
    <3>1. x \in OpenNow
      BY <2>2, <2>3 DEF OpenNow
    <3>2. x <= c
      BY <1>6, <3>1
    <3> QED
      BY <1>5, <2>1, <2>2, <3>2
  <2>4. arrivals[e].time \in Int
    BY <1>9, <2>1
  <2> QED
    BY <1>10, <2>3, <2>4
<1>13. /\ b = 0 => Upto = 0
       /\ b # 0 => Upto = arrivals[b].index + 1 /\ arrivals[b].index \in Nat /\ b \in 1..b + n
       /\ c # 0 => v = arrivals[c].index + 1 /\ arrivals[c].index \in Nat /\ c \in 1..b + n
  BY <1>1, <1>5, <1>9 DEF Upto
<1>14. {Upto, v} \subseteq Nat /\ Upto <= v /\ (k = 0 => Upto = v)
  <2>1. CASE b = 0
    BY <1>4, <1>5, <1>13, <2>1
  <2>2. CASE b # 0
    <3>1. arrivals[b].index <= arrivals[c].index /\ c # 0
      BY <1>4, <1>5, <1>9, <1>13, <2>2
    <3>2. k = 0 => c = b
      BY <1>5
    <3> QED
      BY <1>13, <2>2, <3>1, <3>2
  <2> QED
    BY <2>1, <2>2
<1>15. ASSUME NEW e \in WindowNow PROVE arrivals[e].index \in {s \in Nat : Upto <= s /\ s < v}
  <2>1. /\ e \in OpenNow /\ e \in 1..b + n /\ e <= c
        /\ (finalizedBoundary # Null => arrivals[e].time > finalizedBoundary)
    BY <1>3, <1>6, <1>7 DEF WindowNow
  <2>2. c # 0 /\ arrivals[e].index < v /\ arrivals[e].index \in Nat
    <3>1. c # 0 /\ c \in 1..b + n
      BY <1>5, <2>1
    <3>2. arrivals[e].index <= arrivals[c].index /\ arrivals[e].index \in Nat
      BY <1>9, <2>1, <3>1
    <3> QED
      BY <1>13, <3>1, <3>2
  <2>3. Upto <= arrivals[e].index
    <3>1. CASE b = 0
      BY <1>13, <2>2, <3>1
    <3>2. CASE b # 0
      <4>1. finalizedBoundary # Null /\ arrivals[b].time <= finalizedBoundary /\ b \in 1..b
        BY <1>1, <1>7, <3>2 DEF ConsumedByTime
      <4>2. arrivals[e].time > arrivals[b].time /\ b \in 1..b + n
        <5>1. arrivals[e].time \in Int /\ arrivals[b].time \in Int
          BY <1>9, <1>13, <2>1, <3>2
        <5> QED
          BY <1>8, <1>13, <2>1, <3>2, <4>1, <5>1
      <4>3. arrivals[e].index # arrivals[b].index
        <5>1. arrivals[e].time \in Int /\ arrivals[b].time \in Int
          BY <1>9, <2>1, <4>2
        <5> QED
          BY <1>9, <2>1, <4>2, <5>1
      <4>4. ~ (e <= b)
        <5>1. arrivals[e].time \in Int /\ arrivals[b].time \in Int
          BY <1>9, <2>1, <4>2
        <5> QED
          BY <1>9, <2>1, <4>2, <5>1
      <4>5. arrivals[b].index <= arrivals[e].index
        BY <1>9, <2>1, <4>2, <4>4
      <4> QED
        BY <1>13, <2>2, <3>2, <4>3, <4>5
    <3> QED
      BY <3>1, <3>2
  <2> QED
    BY <2>2, <2>3
<1>16. ASSUME NEW s \in Nat, Upto <= s, s < v PROVE \E e \in WindowNow : arrivals[e].index = s
  <2>1. k # 0 /\ c # 0 /\ c \in 1..b + n /\ s <= arrivals[c].index
    <3>1. k # 0
      BY <1>14, <1>16
    <3>2. c # 0
      BY <1>4, <1>5, <3>1
    <3> QED
      BY <1>13, <1>16, <3>1, <3>2
  <2>2. PICK d \in 1..c : arrivals[d].index = s
    <3>1. arrivals # <<>>
      BY <1>1, <2>1
    <3>2. arrivals[1].index <= s
      BY <1>7, <3>1
    <3> QED
      BY <1>1, <1>7, <2>1, <3>2, StepsPresent
  <2>3. d \in 1..b + n /\ arrivals[d].time <= pending[1].time
    BY <1>5, <1>11
  <2>4. PICK x \in Steps(Len(arrivals)) :
          x \in 1..b + n /\ arrivals[x].index = s /\ arrivals[x].time = arrivals[d].time
    BY <1>1, <2>2, <2>3, LatestOf
  <2>5. x \in OpenNow
    BY <2>3, <2>4 DEF OpenNow
  <2>6. ASSUME finalizedBoundary # Null PROVE arrivals[x].time > finalizedBoundary
    <3>1. CASE b = 0
      <4>1. x \in Consumed + 1..Len(arrivals) /\ ~ (Consumed > 0)
        BY <1>1, <2>4, <3>1
      <4> QED
        BY <1>7, <2>6, <4>1 DEF ConsumedByTime
    <3>2. CASE b # 0
      <4>1. arrivals[x].index > arrivals[b].index /\ b \in 1..b + n
        BY <1>13, <1>16, <2>4, <3>2
      <4>2. ~ (x <= b)
        <5>1. arrivals[x].index \in Nat /\ arrivals[b].index \in Nat
          BY <1>9, <2>4, <4>1
        <5> QED
          BY <1>9, <2>4, <4>1, <5>1
      <4>3. x \in Consumed + 1..Len(arrivals)
        BY <1>1, <2>4, <4>2
      <4>4. arrivals[x].index # arrivals[Consumed].index
        <5>1. arrivals[x].index \in Nat /\ arrivals[b].index \in Nat
          BY <1>9, <2>4, <4>1
        <5> QED
          BY <1>1, <4>1, <5>1
      <4> QED
        BY <1>7, <2>6, <4>3, <4>4 DEF ConsumedByTime
    <3> QED
      BY <3>1, <3>2
  <2>7. x \in WindowNow
    BY <1>7, <2>5, <2>6 DEF WindowNow
  <2> QED
    BY <2>4, <2>7
<1>17. {arrivals[e].index : e \in WindowNow} = {s \in Nat : Upto <= s /\ s < v}
  <2>1. PICK A, B : A = {arrivals[e].index : e \in WindowNow} /\ B = {s \in Nat : Upto <= s /\ s < v}
    OBVIOUS
  <2>2. \A s \in A : s \in B
    BY <1>15, <2>1
  <2>3. \A s \in B : s \in A
    BY <1>16, <2>1
  <2> QED
    BY <2>1, <2>2, <2>3
<1> QED
  BY <1>1, <1>4, <1>11, <1>12, <1>14, <1>17

LEMMA EventWindowKeeps ==
  ASSUME RequestsAssumption, RequestInv, EventWindow, spec' = spec
  PROVE  RequestInv'
<1>1. PICK t, p : t = pending[1].time /\ p = pending[1].provisional
  OBVIOUS
<1>2. PICK W, h : W = Window(t) /\ h = EndOf(UpTo(t))
  OBVIOUS
<1>3. PICK at : at = InOrder(W)
  OBVIOUS
<1>4. PICK values, k, n : /\ values = Gathered(at)
                          /\ k = IF p THEN 0 ELSE h
                          /\ n = Len(rows)
  OBVIOUS
<1>5. /\ Policy = "eventWindow" /\ Looping /\ MainTimeIncreases /\ Head(pending) = pending[1]
      /\ ServeWith(values, k) /\ previousMain' = (IF p THEN previousMain ELSE t)
      /\ UNCHANGED <<selected, committedSelection>>
  <2>1. Policy = "eventWindow" /\ Looping /\ MainTimeIncreases
    BY DEF EventWindow
  <2>2. Head(pending) = pending[1]
    BY <2>1 DEF Looping
  <2>3. /\ ServeWith([j \in 1..Len(InOrder(Window(t))) |-> buffered[InOrder(Window(t))[j]]],
                     IF p THEN 0 ELSE EndOf(UpTo(t)))
        /\ previousMain' = IF p THEN previousMain ELSE t
        /\ UNCHANGED <<selected, committedSelection>>
    BY <1>1, <2>2, Zenon DEF EventWindow
  <2>4. ServeWith(values, k)
    BY <1>2, <1>3, <1>4, <2>3 DEF Gathered
  <2> QED
    BY <2>1, <2>2, <2>3, <2>4
<1>6. spec \in Specs /\ Timed /\ RequestTypeOK /\ ConsumedByTime /\ previousMain = finalizedBoundary
  <2>1. spec \in Specs /\ RequestTypeOK /\ ConsumedByTime /\ previousMain = finalizedBoundary
    BY <1>5 DEF RequestInv, Boundaries
  <2> QED
    BY <1>5, <2>1, RequestIs
<1>7. PICK P : P = WindowNow
  OBVIOUS
<1>8. values \in Seq(Attempt) /\ Lists(values, P) /\ SameSteps(values, P)
  <2>1. W = Window(pending[1].time)
    BY <1>1, <1>2
  <2> QED
    BY <1>3, <1>4, <1>5, <1>6, <1>7, <2>1, WindowServed
<1>9. PICK c : c = Consumed + h
  OBVIOUS
<1>10. PICK v : v = IF c = 0 THEN 0 ELSE arrivals[c].index + 1
  OBVIOUS
<1>11. /\ h \in 0..Len(buffered) /\ {Upto, v} \subseteq Nat /\ Upto <= v
       /\ {arrivals[e].index : e \in P} = {s \in Nat : Upto <= s /\ s < v}
       /\ \A e \in 1..c : arrivals[e].time <= t
       /\ \A e \in c + 1..Len(arrivals) : arrivals[e].time > t
  BY <1>1, <1>2, <1>5, <1>6, <1>7, <1>9, <1>10, WindowTaken
<1>12. k \in 0..Len(buffered)
  <2>1. Len(buffered) \in Nat
    BY Arrived
  <2> QED
    BY <1>4, <1>11, <2>1
<1>13. P = SelectedBy(n + 1)'
  BY <1>4, <1>5, <1>6, <1>7, <1>8, <1>12, WindowSelected
<1>14. Consumed' = Consumed + k /\ arrivals' = arrivals /\ Consumed \in Nat /\ Len(arrivals) \in Nat
  BY <1>5, <1>12, BufferLeft, Arrived
<1>15. /\ p => finalizedBoundary' = finalizedBoundary
       /\ ~p => finalizedBoundary' = t
  BY <1>1, <1>4, <1>5, <1>6, <1>8, <1>12, BoundaryMoved
<1>16. previousMain' = finalizedBoundary'
  BY <1>5, <1>6, <1>15
<1>17. ~p => Consumed' = c /\ Upto' = v
  <2>1. ASSUME ~p PROVE Consumed' = c
    BY <1>4, <1>9, <1>14, <2>1
  <2>2. ASSUME ~p PROVE Upto' = v
    BY <1>10, <1>14, <2>1, <2>2 DEF Upto
  <2> QED
    BY <2>1, <2>2
<1>18. ConsumedByTime'
  <2>1. CASE p
    <3>1. Consumed' = Consumed /\ finalizedBoundary' = finalizedBoundary
      BY <1>4, <1>14, <1>15, <2>1
    <3> QED
      BY <1>6, <1>14, <3>1 DEF ConsumedByTime
  <2>2. CASE ~p
    <3>1. finalizedBoundary' = t /\ Consumed' = c /\ t # Null
      <4>1. t \in Int
        BY <1>1, <1>4, <1>5, <1>8, <1>12, Emitted
      <4> QED
        BY <1>6, <1>15, <1>17, <2>2, <4>1, RequestIs
    <3> QED
      BY <1>11, <1>14, <3>1 DEF ConsumedByTime
  <2> QED
    BY <2>1, <2>2
<1>19. TakenInTurn'
  <2>1. pending[1].provisional => k = 0
    BY <1>1, <1>4
  <2>2. ASSUME ~pending[1].provisional
        PROVE  /\ Upto <= Upto' /\ {Upto, Upto'} \subseteq Nat
               /\ {values[j].index : j \in 1..Len(values)} = {s \in Nat : Upto <= s /\ s < Upto'}
               /\ ~Timed => \A j \in 1..Len(values) : ~values[j].provisional
    <3>1. Upto' = v
      BY <1>1, <1>17, <2>2
    <3> QED
      BY <1>6, <1>8, <1>11, <3>1 DEF SameSteps
  <2>3. Policy # "sample"
    BY <1>5
  <2> QED
    BY <1>5, <1>8, <1>12, <2>1, <2>2, <2>3, TakenLeft
<1>20. /\ selected' \in Attempt \cup {Null} /\ committedSelection' \in (0..MaxChild) \cup {Null}
       /\ previousMain' = IF Policy = "eventWindow" THEN finalizedBoundary' ELSE Null
  BY <1>5, <1>6, <1>16 DEF RequestTypeOK
<1>21. Policy # "sample" /\ Policy \notin {"oneToOne", "countWindow"}
  BY <1>5
<1> QED
  BY <1>4, <1>5, <1>8, <1>12, <1>13, <1>18, <1>19, <1>20, <1>21, ServeKeeps

(* What was open to the last final row. *)
Shown(l) == IF l = 0 THEN {} ELSE Opened(l)

(* Steps open to the last final row are open still. *)
LEMMA ShownIs ==
  ASSUME RequestsAssumption, RequestInv, Policy = "sample", Looping, NEW l, l = LastRow
  PROVE  /\ Shown(l) \in SUBSET (1..Len(arrivals))
         /\ committedSelection = IF Shown(l) = {} THEN Null ELSE arrivals[EndOf(Shown(l))].index
         /\ \A b \in Shown(l) : \E d \in OpenNow :
              d \in 1..Len(arrivals) /\ arrivals[d].index = arrivals[b].index
<1>1. /\ spec \in Specs /\ pending # <<>> /\ Documented /\ ConsumedButOne /\ Timed /\ rows \in Seq(Row)
      /\ Len(arrivals) \in Nat /\ pending[1].time \in Int
  <2>1. spec \in Specs /\ pending # <<>> /\ Documented /\ ConsumedButOne /\ rows \in Seq(Row)
    BY DEF RequestInv, Looping
  <2>2. Timed
    BY <2>1, RequestIs
  <2>3. pending \in Seq([time : Times, provisional : BOOLEAN])
    BY DEF RequestInv, RequestTypeOK
  <2>4. PICK A : A = [time : Times, provisional : BOOLEAN]
    OBVIOUS
  <2>5. pending \in Seq(A) /\ 1 \in 1..Len(pending)
    BY <2>1, <2>3, <2>4, EmptySeq
  <2>6. pending[1] \in A
    BY <2>5
  <2>7. pending[1].time \in Times
    BY <2>4, <2>6
  <2>8. \A x \in Times : x \in Int
    BY <2>1, RequestIs
  <2> QED
    BY <2>1, <2>2, <2>7, <2>8, Arrived
<1>2. l \in 0..Len(rows)
  <2>1. Len(rows) \in Nat /\ Len(rows) + 1 \in 1..Len(rows) + 1
    BY <1>1
  <2> QED
    BY <2>1, LastFinalIs DEF LastRow
<1>3. ASSUME NEW b \in Shown(l)
      PROVE  /\ b \in 1..Len(arrivals)
             /\ \E d \in OpenNow : d \in 1..Len(arrivals) /\ arrivals[d].index = arrivals[b].index
  <2>1. l \in 1..Len(rows) /\ b \in Steps(rows[l].seen) /\ arrivals[b].time <= rows[l].time
    BY <1>2 DEF Shown, Opened
  <2>2. rows[l] \in Row /\ rows[l].seen <= Len(arrivals)
    BY <1>1, <2>1 DEF Documented
  <2>3. b \in 1..Len(arrivals)
    <3>1. rows[l].seen \in Int
      BY <2>2, <1>1, RequestIs DEF Row
    <3>2. b \in 1..rows[l].seen
      BY <2>1 DEF Steps
    <3> QED
      BY <1>1, <2>2, <3>1, <3>2
  <2>4. rows[l].time \in Int /\ rows[l].time <= pending[1].time
    BY <1>1, <2>1, TimesPass
  <2>5. PICK d \in Steps(Len(arrivals)) :
          /\ d \in 1..Len(arrivals) /\ arrivals[d].index = arrivals[b].index
          /\ arrivals[d].time = arrivals[b].time
    BY <1>1, <2>3, LatestOf
  <2>6. arrivals[b].time \in Int
    BY <1>1, <2>3, TimesTell
  <2>7. arrivals[d].time <= pending[1].time
    BY <1>1, <2>1, <2>4, <2>5, <2>6
  <2> QED
    BY <2>3, <2>5, <2>7 DEF OpenNow
<1>4. committedSelection = IF Shown(l) = {} THEN Null ELSE arrivals[EndOf(Shown(l))].index
  BY <1>1 DEF ConsumedButOne, Shown
<1> QED
  BY <1>3, <1>4

(* The newest step opened is still buffered, if there is one. *)
LEMMA NowIs ==
  ASSUME RequestsAssumption, RequestInv, Policy = "sample", Looping,
         NEW U, U = UpTo(pending[1].time), NEW h, h = EndOf(U),
         NEW now, now = IF U = {} THEN selected ELSE buffered[h]
  PROVE  /\ h \in 0..Len(buffered) /\ (h = 0 <=> U = {})
         /\ h = 0 => OpenNow = {} /\ now = Null /\ Consumed = 0
         /\ h # 0 => /\ Consumed + h \in OpenNow /\ Consumed + h \in 1..Len(arrivals)
                     /\ now = arrivals[Consumed + h] /\ now = buffered[h] /\ now \in Attempt
                     /\ arrivals[Consumed + h].time <= pending[1].time
                     /\ \A d \in OpenNow : d <= Consumed + h
<1>1. PICK c \in Nat, n \in Nat : c = Consumed /\ n = Len(buffered) /\ Len(arrivals) = c + n
  BY Arrived
<1>2. /\ spec \in Specs /\ pending # <<>> /\ ConsumedButOne /\ Timed /\ rows \in Seq(Row)
      /\ finalizedBoundary = IF LastRow # 0 THEN rows[LastRow].time ELSE Null
  <2>1. spec \in Specs /\ pending # <<>> /\ ConsumedButOne /\ rows \in Seq(Row)
    BY DEF RequestInv, Looping
  <2>2. Timed
    BY <2>1, RequestIs
  <2> QED
    BY <2>1, <2>2 DEF RequestInv, Boundaries
<1>3. /\ U \in SUBSET (1..n) /\ \A e \in U : c + e \in OpenNow /\ buffered[e] = arrivals[c + e]
      /\ \A e \in OpenNow : /\ e \in 1..c + n /\ arrivals[e].time <= pending[1].time
                            /\ e > c => e - c \in U
  BY <1>1, <1>2, OpenIs
<1>4. /\ h \in 0..n /\ (U = {} <=> h = 0) /\ (h # 0 => h \in U) /\ \A d \in U : d <= h
  BY <1>3, EndOfIs
<1>5. ASSUME NEW i \in 1..Len(rows), NEW e \in 1..c + n, arrivals[e].time <= rows[i].time
      PROVE  \E d \in OpenNow : e <= d
  <2>1. rows[i].time \in Int /\ pending[1].time \in Int /\ rows[i].time <= pending[1].time
    BY <1>2, TimesPass
  <2>2. PICK d \in Steps(Len(arrivals)) : e <= d /\ arrivals[d].time = arrivals[e].time
    BY <1>1, <1>2, LatestOf
  <2>3. arrivals[e].time \in Int
    BY <1>1, <1>2, TimesTell
  <2>4. d \in OpenNow
    BY <1>5, <2>1, <2>2, <2>3 DEF OpenNow
  <2> QED
    BY <2>2, <2>4
<1>6. ASSUME h = 0 PROVE c = 0
  <2>1. ASSUME c # 0 PROVE FALSE
    <3>1. finalizedBoundary # Null /\ buffered # <<>> /\ arrivals[c + 1].time <= finalizedBoundary
      BY <1>1, <1>2, <2>1 DEF ConsumedButOne
    <3>2. LastRow # 0 /\ arrivals[c + 1].time <= rows[LastRow].time
      BY <1>2, <3>1
    <3>3. LastRow \in 1..Len(rows)
      <4>1. Len(rows) \in Nat /\ Len(rows) + 1 \in 1..Len(rows) + 1
        BY <1>2
      <4>2. LastRow \in 0..Len(rows)
        BY <4>1, LastFinalIs DEF LastRow
      <4> QED
        BY <3>2, <4>1, <4>2
    <3>4. n # 0
      <4>1. buffered \in Seq(Attempt)
        BY DEF RequestInv, RequestTypeOK
      <4> QED
        BY <1>1, <3>1, <4>1, EmptySeq
    <3>5. c + 1 \in 1..c + n
      BY <3>4
    <3>6. PICK d \in OpenNow : c + 1 <= d
      BY <1>5, <3>2, <3>3, <3>5
    <3>7. d \in 1..c + n /\ d > c
      BY <1>3, <3>6
    <3> QED
      BY <1>3, <1>4, <1>6, <3>7
  <2> QED
    BY <2>1
<1>7. ASSUME h = 0 PROVE OpenNow = {} /\ now = Null
  <2>1. c = 0 /\ U = {}
    BY <1>4, <1>6, <1>7
  <2>2. ASSUME NEW e \in OpenNow PROVE FALSE
    <3>1. e \in 1..c + n /\ e > c
      BY <1>3, <2>1
    <3> QED
      BY <1>3, <2>1, <3>1
  <2>3. ASSUME selected # Null PROVE FALSE
    <3>1. PICK e \in 1..Len(arrivals) : rows # <<>> /\ arrivals[e].time <= rows[Len(rows)].time
      BY <1>2, <2>3 DEF ConsumedButOne
    <3>2. Len(rows) \in 1..Len(rows)
      BY <1>2, <3>1, EmptySeq
    <3>3. \E d \in OpenNow : e <= d
      BY <1>1, <1>5, <3>1, <3>2
    <3> QED
      BY <2>2, <3>3
  <2> QED
    BY <2>1, <2>2, <2>3
<1>8. ASSUME h # 0
      PROVE  /\ c + h \in OpenNow /\ c + h \in 1..c + n /\ now = arrivals[c + h] /\ now = buffered[h]
             /\ now \in Attempt /\ arrivals[c + h].time <= pending[1].time
  <2>1. h \in U /\ now = buffered[h] /\ U # {}
    BY <1>4, <1>8
  <2>2. c + h \in OpenNow /\ now = arrivals[c + h] /\ h \in 1..n
    BY <1>3, <2>1
  <2>3. buffered[h] \in Attempt
    BY <1>1, <2>2, Arrived
  <2> QED
    BY <1>3, <2>1, <2>2, <2>3
<1>9. ASSUME NEW d \in OpenNow PROVE d <= c + h
  <2>1. d \in 1..c + n /\ (d > c => d - c <= h)
    BY <1>3, <1>4
  <2> QED
    BY <1>4, <2>1
<1> QED
  BY <1>1, <1>4, <1>6, <1>7, <1>8, <1>9

LEMMA NullIsNoAttempt ==
  ASSUME RequestsAssumption
  PROVE  Null \notin Attempt
<1>1. PICK A : A = [time : EventTimes, provisional : BOOLEAN, index : 0..MaxChild, attempt : 1..MaxChild]
  OBVIOUS
<1>2. Times \in SUBSET EventTimes
  BY DEF RequestsAssumption, Times
<1>3. Attempt \in SUBSET A
  BY <1>1, <1>2 DEF Attempt
<1>4. Null \notin A
  BY <1>1 DEF RequestsAssumption
<1> QED
  BY <1>3, <1>4

(* What a sampling row shows: the newest step opened, or nothing.          *)
SampledNow(h) == IF UpTo(pending[1].time) = {} THEN selected ELSE buffered[h]
ValuesOf(now) ==
  IF now # Null /\ (Sparse => now.index # committedSelection) THEN <<now>> ELSE <<>>

LEMMA SampleServed ==
  ASSUME RequestsAssumption, RequestInv, Policy = "sample", Looping, NEW l, l = LastRow,
         NEW h, h = EndOf(UpTo(pending[1].time)),
         NEW now, now = SampledNow(h),
         NEW values, values = ValuesOf(now),
         NEW P, P = NewestStep(OpenNow, Shown(l))
  PROVE  values \in Seq(Attempt) /\ Lists(values, P)
<1>1. PICK c \in Nat, n \in Nat : c = Consumed /\ n = Len(buffered) /\ Len(arrivals) = c + n
  BY Arrived
<1>2. /\ h \in 0..n
      /\ h = 0 => OpenNow = {} /\ now = Null
      /\ h # 0 => /\ c + h \in OpenNow /\ c + h \in 1..c + n
                  /\ now = arrivals[c + h] /\ now = buffered[h] /\ now \in Attempt
                  /\ \A d \in OpenNow : d <= c + h
  <2>1. PICK U : U = UpTo(pending[1].time)
    OBVIOUS
  <2>2. h = EndOf(U) /\ now = IF U = {} THEN selected ELSE buffered[h]
    BY <2>1 DEF SampledNow
  <2>3. /\ h \in 0..Len(buffered)
        /\ h = 0 => OpenNow = {} /\ now = Null
        /\ h # 0 => /\ Consumed + h \in OpenNow /\ Consumed + h \in 1..Len(arrivals)
                    /\ now = arrivals[Consumed + h] /\ now = buffered[h] /\ now \in Attempt
                    /\ \A d \in OpenNow : d <= Consumed + h
    BY <2>1, <2>2, NowIs
  <2> QED
    BY <1>1, <2>3
<1>3. spec \in Specs /\ Null \notin Int /\ Sparse \in BOOLEAN
  BY RequestIs DEF RequestInv
<1>4. P = {e \in OpenNow :
            /\ \A d \in OpenNow : d <= e
            /\ Sparse => \A b \in Shown(l) : arrivals[b].index # arrivals[e].index}
  BY DEF NewestStep
<1>5. PICK P0, P1 : P0 = {} /\ P1 = {c + h}
  OBVIOUS
<1>6. /\ OpenNow \in SUBSET (1..c + n) /\ Shown(l) \in SUBSET (1..c + n)
      /\ committedSelection = IF Shown(l) = {} THEN Null ELSE arrivals[EndOf(Shown(l))].index
      /\ \A b \in Shown(l) : \E d \in OpenNow :
           d \in 1..c + n /\ arrivals[d].index = arrivals[b].index
  <2>1. OpenNow \in SUBSET (1..c + n)
    BY <1>1 DEF OpenNow, Steps
  <2> QED
    BY <1>1, <2>1, ShownIs
<1>7. /\ \A e \in 1..c + n : arrivals[e].index \in Nat
      /\ \A e, f \in 1..c + n : e <= f => arrivals[e].index <= arrivals[f].index
  <2>1. Tried(arrivals)
    BY Arrived
  <2>2. \A e \in 1..c + n : arrivals[e].index \in Nat
    BY <1>1, <2>1 DEF Tried
  <2>3. \A e, f \in 1..c + n : e <= f => arrivals[e].index <= arrivals[f].index
    BY <1>1, <2>1, ClimbsIs
  <2> QED
    BY <2>2, <2>3
<1>8. ASSUME h # 0
      PROVE  (\A b \in Shown(l) : arrivals[b].index # arrivals[c + h].index)
               <=> arrivals[c + h].index # committedSelection
  <2>1. c + h \in 1..c + n /\ arrivals[c + h].index \in Nat
    BY <1>2, <1>7, <1>8
  <2>2. CASE Shown(l) = {}
    BY <1>3, <1>6, <2>1, <2>2
  <2>3. CASE Shown(l) # {}
    <3>1. PICK m : m = EndOf(Shown(l))
      OBVIOUS
    <3>2. m \in Shown(l) /\ m \in 1..c + n /\ \A b \in Shown(l) : b <= m
      BY <1>6, <2>3, <3>1, EndOfIs
    <3>3. committedSelection = arrivals[m].index
      BY <1>6, <2>3, <3>1
    <3>4. arrivals[m].index <= arrivals[c + h].index
      <4>1. PICK d \in OpenNow : d \in 1..c + n /\ arrivals[d].index = arrivals[m].index
        BY <1>6, <3>2
      <4>2. d <= c + h
        BY <1>2, <1>8, <4>1
      <4> QED
        BY <1>7, <2>1, <4>1, <4>2
    <3>5. ASSUME NEW b \in Shown(l), arrivals[b].index = arrivals[c + h].index
          PROVE  arrivals[c + h].index = arrivals[m].index
      <4>1. b \in 1..c + n /\ b <= m
        BY <1>6, <3>2
      <4>2. arrivals[b].index <= arrivals[m].index /\ arrivals[m].index \in Nat
        BY <1>7, <3>2, <4>1
      <4> QED
        BY <2>1, <3>4, <3>5, <4>2
    <3> QED
      BY <3>2, <3>3, <3>5
  <2> QED
    BY <2>2, <2>3
<1>9. CASE h # 0 /\ (Sparse => now.index # committedSelection)
  <2>1. now # Null
    BY <1>2, <1>9, NullIsNoAttempt
  <2>2. values = <<now>>
    BY <1>9, <2>1 DEF ValuesOf
  <2>3. P = P1
    <3>1. ASSUME NEW e \in OpenNow, \A d \in OpenNow : d <= e PROVE e = c + h
      <4>1. c + h <= e /\ e <= c + h
        BY <1>2, <1>9, <3>1
      <4>2. e \in 1..c + n /\ c + h \in 1..c + n
        BY <1>2, <1>6, <1>9
      <4> QED
        BY <4>1, <4>2
    <3>2. c + h \in P
      <4>1. Sparse => \A b \in Shown(l) : arrivals[b].index # arrivals[c + h].index
        BY <1>2, <1>8, <1>9
      <4> QED
        BY <1>2, <1>4, <1>9, <4>1
    <3>3. \A e \in P : e = c + h
      BY <1>4, <3>1
    <3> QED
      BY <1>5, <3>2, <3>3
  <2>4. PICK at, to : at = [j \in 1..1 |-> h] /\ to = [j \in 1..1 |-> c + h]
    OBVIOUS
  <2>5. h \in 1..n /\ now = buffered[h]
    BY <1>2, <1>9
  <2>6. Picks(1, at, values, to, P1)
    <3>1. to \in Surjection(1..1, P1)
      BY <1>5, <2>4 DEF Surjection
    <3>2. /\ \A k \in 1..1 : at[k] \in 1..Len(buffered) /\ to[k] = Consumed + at[k]
          /\ \A i, j \in 1..1 : i < j => at[i] < at[j]
      BY <1>1, <2>4, <2>5
    <3>3. values = [k \in 1..1 |-> values[k]] /\ \A k \in 1..1 : values[k] = buffered[at[k]]
      BY <2>2, <2>4, <2>5
    <3>4. 1 \in Nat
      OBVIOUS
    <3> QED
      BY <3>1, <3>2, <3>3, <3>4, Zenon DEF Picks
  <2> QED
    BY <2>3, <2>6, Listed, Zenon
<1>10. CASE ~ (h # 0 /\ (Sparse => now.index # committedSelection))
  <2>1. values = <<>>
    BY <1>2, <1>10 DEF ValuesOf
  <2>2. P = P0
    <3>1. ASSUME NEW e \in P PROVE FALSE
      <4>1. e \in OpenNow /\ h # 0
        BY <1>2, <1>4
      <4>2. e = c + h
        <5>1. c + h <= e /\ e <= c + h /\ e \in 1..c + n /\ c + h \in 1..c + n
          BY <1>2, <1>4, <1>6, <4>1
        <5> QED
          BY <5>1
      <4>3. now.index # committedSelection \/ ~ Sparse
        BY <1>2, <1>4, <1>8, <4>1, <4>2
      <4> QED
        BY <1>10, <4>1, <4>3
    <3> QED
      BY <1>5, <3>1
  <2>3. PICK at : at = [j \in 1..0 |-> 0]
    OBVIOUS
  <2>4. Picks(0, at, values, at, P0)
    <3>1. at \in Surjection(1..0, P0)
      BY <1>5, <2>3 DEF Surjection
    <3>2. /\ \A k \in 1..0 : at[k] \in 1..Len(buffered) /\ at[k] = Consumed + at[k]
          /\ \A i, j \in 1..0 : i < j => at[i] < at[j]
      OBVIOUS
    <3>3. values = [k \in 1..0 |-> values[k]] /\ \A k \in 1..0 : values[k] = buffered[at[k]]
      BY <2>1
    <3>4. 0 \in Nat
      OBVIOUS
    <3> QED
      BY <3>1, <3>2, <3>3, <3>4, Zenon DEF Picks
  <2> QED
    BY <2>2, <2>4, Listed, Zenon
<1> QED
  BY <1>9, <1>10

(* What a sampling row is documented to select.                            *)
LEMMA SampleSelected ==
  ASSUME RequestsAssumption, RequestInv, Policy = "sample", Looping, spec' = spec,
         NEW values \in Seq(Attempt), NEW k \in 0..Len(buffered), ServeWith(values, k),
         NEW n, n = Len(rows), NEW l, l = LastRow
  PROVE  SelectedBy(n + 1)' = NewestStep(OpenNow, Shown(l))
<1>1. Timed
  BY RequestIs DEF RequestInv
<1>2. /\ Opened(n + 1)' = OpenNow /\ LastFinal(n + 1)' = l
      /\ l # 0 => rows'[l] = rows[l] /\ Opened(l)' = Opened(l)
  BY <1>1, OpenSelected
<1>3. arrivals' = arrivals /\ Policy' = Policy /\ Sparse' = Sparse
  BY Emitted, Fixed
<1>4. SelectedBy(n + 1)' = SampleOf(n + 1)'
  BY <1>3 DEF SelectedBy
<1>5. Before(n + 1)' = Shown(l)
  <2>1. CASE l = 0
    BY <1>2, <2>1 DEF Before, Shown
  <2>2. CASE l # 0
    <3>1. Before(n + 1)' = {e \in Steps(rows[l].seen) : arrivals[e].time <= rows[l].time}
      BY <1>2, <1>3, <2>2 DEF Before, Opened, Steps
    <3> QED
      BY <2>2, <3>1 DEF Shown, Opened
  <2> QED
    BY <2>1, <2>2
<1> QED
  BY <1>2, <1>3, <1>4, <1>5 DEF SampleOf, NewestStep

LEMMA SampleKeeps ==
  ASSUME RequestsAssumption, RequestInv, Sample, spec' = spec
  PROVE  RequestInv'
<1>1. PICK t, p : t = pending[1].time /\ p = pending[1].provisional
  OBVIOUS
<1>2. PICK U : U = UpTo(t)
  OBVIOUS
<1>3. PICK h : h = EndOf(U)
  OBVIOUS
<1>4. PICK now : now = IF U = {} THEN selected ELSE buffered[h]
  OBVIOUS
<1>5. PICK values, k, n, l :
        /\ values = IF now # Null /\ (Sparse => now.index # committedSelection) THEN <<now>> ELSE <<>>
        /\ k = IF p \/ h = 0 THEN 0 ELSE h - 1
        /\ n = Len(rows) /\ l = LastRow
  OBVIOUS
<1>6. /\ Policy = "sample" /\ Looping /\ UNCHANGED previousMain
      /\ selected' = now /\ committedSelection' = Remembered(now, p)
      /\ ServeWith(values, k)
  <2>1. Policy = "sample" /\ Looping /\ UNCHANGED previousMain
    BY DEF Sample
  <2>2. Head(pending) = pending[1]
    BY <2>1 DEF Looping
  <2>3. PICK o : o = IF UpTo(t) = {} THEN selected ELSE buffered[EndOf(UpTo(t))]
    OBVIOUS
  <2>4. /\ selected' = o /\ committedSelection' = Remembered(o, p)
        /\ ServeWith(IF o # Null /\ (Sparse => o.index # committedSelection) THEN <<o>> ELSE <<>>,
                     IF p \/ EndOf(UpTo(t)) = 0 THEN 0 ELSE EndOf(UpTo(t)) - 1)
    BY <1>1, <2>2, <2>3, Zenon DEF Sample
  <2>5. o = now
    BY <1>2, <1>3, <1>4, <2>3
  <2>6. ServeWith(values, k)
    BY <1>2, <1>3, <1>5, <2>4, <2>5
  <2> QED
    BY <2>1, <2>4, <2>5, <2>6
<1>7. /\ spec \in Specs /\ Timed /\ RequestTypeOK /\ ConsumedButOne /\ previousMain = Null
      /\ Null \notin Int /\ MaxChild \in Nat
      /\ finalizedBoundary = IF l # 0 THEN rows[l].time ELSE Null
  <2>1. spec \in Specs /\ RequestTypeOK /\ ConsumedButOne /\ previousMain = Null
    BY <1>6 DEF RequestInv, Boundaries
  <2>2. Timed
    BY <1>6, <2>1, RequestIs
  <2> QED
    BY <1>5, <2>1, <2>2, RequestIs DEF RequestInv, Boundaries
<1>8. PICK c \in Nat, m \in Nat : c = Consumed /\ m = Len(buffered) /\ Len(arrivals) = c + m
  BY Arrived
<1>9. /\ h \in 0..m
      /\ h = 0 => OpenNow = {} /\ now = Null /\ c = 0
      /\ h # 0 => /\ c + h \in OpenNow /\ c + h \in 1..c + m /\ now = arrivals[c + h]
                  /\ now \in Attempt /\ arrivals[c + h].time <= t /\ \A d \in OpenNow : d <= c + h
  BY <1>1, <1>2, <1>3, <1>4, <1>6, <1>8, NowIs
<1>10. PICK P : P = NewestStep(OpenNow, Shown(l))
  OBVIOUS
<1>11. values \in Seq(Attempt) /\ Lists(values, P)
  <2>1. h = EndOf(UpTo(pending[1].time))
    BY <1>1, <1>2, <1>3
  <2>2. now = SampledNow(h)
    BY <1>1, <1>2, <1>4 DEF SampledNow
  <2>3. values = ValuesOf(now)
    BY <1>5 DEF ValuesOf
  <2>4. l = LastRow /\ Policy = "sample" /\ Looping
    BY <1>5, <1>6
  <2> QED
    BY <1>10, <2>1, <2>2, <2>3, <2>4, SampleServed
<1>12. k \in 0..Len(buffered) /\ k \in 0..m /\ (p \/ h = 0 => k = 0) /\ (~p /\ h # 0 => k = h - 1)
  BY <1>5, <1>8, <1>9
<1>13. P = SelectedBy(n + 1)'
  BY <1>5, <1>6, <1>10, <1>11, <1>12, SampleSelected
<1>14. Consumed' = c + k /\ arrivals' = arrivals /\ Len(buffered') = m - k /\ buffered' \in Seq(Attempt)
  BY <1>6, <1>8, <1>12, BufferLeft
<1>15. /\ n \in Nat /\ Len(rows') = n + 1 /\ rows'[n + 1].time = t /\ rows' # <<>> /\ t \in Int
       /\ p \in BOOLEAN
  <2>1. /\ n \in Nat /\ Len(rows') = n + 1 /\ rows'[n + 1].time = t /\ t \in Int /\ rows' \in Seq(Row)
        /\ p \in BOOLEAN
    BY <1>1, <1>5, <1>6, <1>11, <1>12, Emitted
  <2> QED
    BY <2>1, EmptySeq
<1>16. /\ l \in 0..n
       /\ p => LastRow' = l /\ finalizedBoundary' = finalizedBoundary
       /\ ~p => LastRow' = n + 1 /\ finalizedBoundary' = t
  BY <1>1, <1>5, <1>6, <1>7, <1>11, <1>12, BoundaryMoved
<1>17. /\ Opened(n + 1)' = OpenNow
       /\ l # 0 => rows'[l] = rows[l] /\ Opened(l)' = Opened(l)
  BY <1>5, <1>6, <1>7, <1>11, <1>12, OpenSelected
<1>18. Consumed' > 0 => /\ finalizedBoundary' # Null /\ buffered' # <<>>
                        /\ arrivals'[Consumed' + 1].time <= finalizedBoundary'
  <2> SUFFICES ASSUME Consumed' > 0
               PROVE  /\ finalizedBoundary' # Null /\ buffered' # <<>>
                      /\ arrivals'[Consumed' + 1].time <= finalizedBoundary'
    OBVIOUS
  <2>1. CASE p
    <3>1. Consumed' = c /\ c > 0 /\ Len(buffered') = m
      BY <1>12, <1>14, <2>1
    <3>2. /\ finalizedBoundary # Null /\ buffered # <<>>
          /\ arrivals[c + 1].time <= finalizedBoundary
      BY <1>7, <1>8, <3>1 DEF ConsumedButOne
    <3>3. buffered' # <<>>
      <4>1. m # 0
        BY <1>7, <1>8, <3>2, EmptySeq DEF RequestTypeOK
      <4> QED
        BY <1>14, <3>1, <4>1, EmptySeq
    <3> QED
      BY <1>14, <1>16, <2>1, <3>1, <3>2, <3>3
  <2>2. CASE ~p
    <3>1. h # 0
      BY <1>9, <1>12, <1>14
    <3>2. Consumed' + 1 = c + h /\ Len(buffered') # 0
      BY <1>9, <1>12, <1>14, <2>2, <3>1
    <3> QED
      BY <1>7, <1>9, <1>14, <1>15, <1>16, <2>2, <3>1, <3>2, EmptySeq
  <2> QED
    BY <2>1, <2>2
<1>19. selected' # Null =>
         rows' # <<>> /\ \E e \in 1..Len(arrivals') : arrivals'[e].time <= rows'[Len(rows')].time
  <2> SUFFICES ASSUME selected' # Null
               PROVE  \E e \in 1..Len(arrivals') : arrivals'[e].time <= rows'[Len(rows')].time
    BY <1>15
  <2>1. h # 0
    BY <1>6, <1>9
  <2>2. c + h \in 1..Len(arrivals') /\ arrivals'[c + h].time <= rows'[Len(rows')].time
    BY <1>8, <1>9, <1>14, <1>15, <2>1
  <2> QED
    BY <2>2
<1>20. PICK r, O : r = LastRow' /\ O = Opened(r)'
  OBVIOUS
<1>21. committedSelection' = IF r = 0 \/ O = {} THEN Null ELSE arrivals'[EndOf(O)].index
  <2>1. CASE p
    <3>1. committedSelection' = committedSelection /\ r = l
      BY <1>6, <1>16, <1>20, <2>1 DEF Remembered
    <3>2. l # 0 => O = Opened(l)
      BY <1>17, <1>20, <3>1
    <3> QED
      BY <1>5, <1>7, <1>14, <3>1, <3>2 DEF ConsumedButOne
  <2>2. CASE ~p
    <3>1. r = n + 1 /\ O = OpenNow /\ r # 0
      BY <1>15, <1>16, <1>17, <1>20, <2>2
    <3>2. CASE h = 0
      <4>1. committedSelection' = committedSelection /\ O = {}
        BY <1>6, <1>9, <3>1, <3>2 DEF Remembered
      <4>2. Shown(l) = {}
        <5>1. \A b \in Shown(l) : \E d \in OpenNow : d \in 1..Len(arrivals)
          BY <1>5, <1>6, ShownIs
        <5> QED
          BY <1>9, <3>2, <5>1
      <4>3. committedSelection = Null
        BY <1>5, <1>6, <4>2, ShownIs
      <4> QED
        BY <4>1, <4>3
    <3>3. CASE h # 0
      <4>1. committedSelection' = now.index
        BY <1>6, <1>9, <2>2, <3>3, NullIsNoAttempt DEF Remembered
      <4>2. OpenNow \in SUBSET (1..c + m) /\ c + m \in Nat
        BY <1>8 DEF OpenNow, Steps
      <4>3. EndOf(O) = c + h /\ O # {}
        BY <1>9, <3>1, <3>3, <4>2, EndOfIs
      <4> QED
        BY <1>9, <1>14, <3>1, <3>3, <4>1, <4>3
    <3> QED
      BY <3>2, <3>3
  <2> QED
    BY <1>15, <2>1, <2>2
<1>22. ConsumedButOne'
  <2>1. Opened(LastRow)' = O
    BY <1>20 DEF Opened, Steps
  <2>2. committedSelection' =
          (IF LastRow = 0 \/ Opened(LastRow) = {} THEN Null ELSE arrivals[EndOf(Opened(LastRow))].index)'
    BY <1>20, <1>21, <2>1
  <2> QED
    BY <1>18, <1>19, <2>2 DEF ConsumedButOne
<1>23. /\ selected' \in Attempt \cup {Null} /\ committedSelection' \in (0..MaxChild) \cup {Null}
       /\ previousMain' = IF Policy = "eventWindow" THEN finalizedBoundary' ELSE Null
  <2>1. now \in Attempt \cup {Null}
    BY <1>9
  <2>2. Remembered(now, p) \in (0..MaxChild) \cup {Null}
    <3>1. now # Null => now.index \in 0..MaxChild
      BY <1>7, <2>1, AttemptIs
    <3> QED
      BY <1>7, <3>1 DEF Remembered, RequestTypeOK
  <2> QED
    BY <1>6, <1>7, <2>1, <2>2
<1>24. Policy = "sample" /\ Policy # "eventWindow" /\ Policy \notin {"oneToOne", "countWindow"}
  BY <1>6
<1> QED
  BY <1>5, <1>6, <1>11, <1>12, <1>13, <1>22, <1>23, <1>24, ServeKeeps

-----------------------------------------------------------------------------
(***************************************************************************)
(* Attempts that arrive, and ends.                                         *)
(***************************************************************************)

LEMMA UnservedKeeps ==
  ASSUME RequestsAssumption, RequestInv, Longer, rows' = rows,
         UNCHANGED <<parentIndex, policyState, finalizedBoundary>>, Consumed' = Consumed,
         RequestTypeOK', Sides', Buffer', Policy = "eventWindow" => ConsumedByTime'
  PROVE  RequestInv'
<1>1. PICK c \in Nat, n \in Nat : c = Consumed /\ n = Len(buffered) /\ Len(arrivals) = c + n
  BY Arrived
<1>2. /\ spec' = spec /\ spec \in Specs /\ rows \in Seq(Row) /\ Documented /\ Boundaries
      /\ Len(arrivals') \in Nat /\ c + n <= Len(arrivals')
      /\ \A e \in 1..c + n : arrivals'[e] = arrivals[e]
  BY <1>1 DEF RequestInv, Longer
<1>0. ASSUME NEW i \in 1..Len(rows) PROVE rows[i].seen \in Int /\ rows[i].seen <= c + n
  <2>1. rows[i] \in Row /\ rows[i].seen <= Len(arrivals)
    BY <1>2 DEF Documented
  <2>2. MaxChild \in Nat
    BY DEF RequestsAssumption
  <2>3. rows[i].seen \in 0..MaxChild
    BY <2>1 DEF Row
  <2> QED
    BY <1>1, <2>1, <2>2, <2>3
<1>3. /\ Policy' = Policy /\ Timed' = Timed /\ Count' = Count /\ PerRow' = PerRow /\ Row' = Row
  BY <1>2, Fixed
<1>4. rows' \in Seq(Row')
  BY <1>2, <1>3
<1>5. PICK l : l = LastRow
  OBVIOUS
<1>6. /\ LastRow' = l /\ l \in 0..Len(rows)
      /\ l # 0 => Opened(l)' = Opened(l) /\ l \in 1..Len(rows)
  <2>1. Len(rows) \in Nat /\ Len(rows) + 1 \in 1..Len(rows) + 1
    BY <1>2
  <2>2. LastFinal(Len(rows) + 1)' = LastFinal(Len(rows) + 1)
    <3>1. PICK i : i = Len(rows) + 1
      OBVIOUS
    <3>2. LastFinal(i)' = LastFinal(i)
      BY <2>1, <3>1, Stable
    <3> QED
      BY <3>1, <3>2 DEF LastFinal
  <2>3. l \in 0..Len(rows)
    BY <1>5, <2>1, LastFinalIs DEF LastRow
  <2>4. l # 0 => l \in 1..Len(rows)
    BY <2>1, <2>3
  <2> QED
    BY <1>5, <2>2, <2>3, <2>4, Stable DEF LastRow
<1>7. Boundaries'
  BY <1>2, <1>3, <1>5, <1>6 DEF Boundaries, policyState
<1>8. Documented'
  <2>1. ASSUME NEW i \in 1..Len(rows)
        PROVE  rows'[i].seen <= Len(arrivals') /\ Lists(rows[i].values, SelectedBy(i))'
    <3>1. rows[i].seen <= Len(arrivals) /\ Lists(rows[i].values, SelectedBy(i))
      BY <1>2 DEF Documented
    <3>2. rows[i].seen \in Int
      BY <1>0
    <3>3. Lists(rows[i].values, SelectedBy(i))'
      BY <3>1, Stable
    <3> QED
      BY <1>1, <1>2, <3>1, <3>2, <3>3
  <2> QED
    BY <2>1 DEF Documented
<1>9. Upto' = Upto
  <2>1. c # 0 => arrivals'[c] = arrivals[c]
    BY <1>1, <1>2
  <2> QED
    BY <1>1, <2>1 DEF Upto
<1>10. Policy # "sample" => TakenInTurn'
  <2> SUFFICES ASSUME Policy # "sample" PROVE TakenInTurn'
    OBVIOUS
  <2>1. TakenInTurn /\ Finals' = Finals
    BY DEF RequestInv, Finals
  <2>2. \A i \in Finals : Taken(i)' = Taken(i)
    BY Stable DEF Finals
  <2>3. (\A i \in Finals :
           /\ \A j \in Finals \ {i} : Taken(i) \cap Taken(j) = {}
           /\ \A s \in Taken(i) : \A m \in 0..s : \E j \in Finals : j <= i /\ m \in Taken(j)
           /\ ~Timed => \A k \in 1..Len(rows[i].values) : ~rows[i].values[k].provisional)'
    BY <1>3, <2>1, <2>2 DEF TakenInTurn
  <2>4. (\A s \in Nat : s < Upto <=> \E i \in Finals : s \in Taken(i))'
    BY <1>9, <2>1, <2>2 DEF TakenInTurn
  <2> QED
    BY <2>3, <2>4 DEF TakenInTurn
<1>11. Policy \in {"oneToOne", "countWindow"} => ConsumedInTurn'
  <2> SUFFICES ASSUME Policy \in {"oneToOne", "countWindow"} PROVE ConsumedInTurn'
    OBVIOUS
  <2>1. ConsumedInTurn
    BY DEF RequestInv
  <2>2. c > 0 => arrivals'[c] = arrivals[c]
    BY <1>1, <1>2
  <2> QED
    BY <1>1, <1>3, <1>9, <2>1, <2>2 DEF ConsumedInTurn
<1>12. Policy = "sample" => ConsumedButOne'
  <2> SUFFICES ASSUME Policy = "sample" PROVE ConsumedButOne'
    OBVIOUS
  <2>1. ConsumedButOne /\ buffered' \in Seq(Attempt) /\ buffered \in Seq(Attempt)
    BY <1>2, Fixed DEF RequestInv, RequestTypeOK
  <2>2. Consumed' > 0 => /\ finalizedBoundary' # Null /\ buffered' # <<>>
                        /\ arrivals'[Consumed' + 1].time <= finalizedBoundary'
    <3> SUFFICES ASSUME Consumed' > 0
                 PROVE  /\ finalizedBoundary' # Null /\ buffered' # <<>>
                        /\ arrivals'[Consumed' + 1].time <= finalizedBoundary'
      OBVIOUS
    <3>1. /\ finalizedBoundary # Null /\ buffered # <<>>
          /\ arrivals[c + 1].time <= finalizedBoundary /\ Consumed' = c
      BY <1>1, <2>1 DEF ConsumedButOne
    <3>2. n # 0
      BY <1>1, <2>1, <3>1, EmptySeq
    <3>3. arrivals'[c + 1] = arrivals[c + 1]
      BY <1>2, <3>2
    <3>4. buffered' # <<>>
      <4>1. c = Len(arrivals') - Len(buffered')
        BY <3>1 DEF Consumed
      <4>2. Len(buffered') \in Nat
        BY <2>1
      <4>3. Len(buffered') # 0
        BY <1>2, <3>2, <4>1, <4>2
      <4> QED
        BY <2>1, <4>3, EmptySeq
    <3> QED
      BY <3>1, <3>3, <3>4
  <2>3. selected' # Null =>
          rows' # <<>> /\ \E e \in 1..Len(arrivals') : arrivals'[e].time <= rows'[Len(rows')].time
    <3> SUFFICES ASSUME selected' # Null
                 PROVE  /\ rows # <<>>
                        /\ \E e \in 1..Len(arrivals') : arrivals'[e].time <= rows[Len(rows)].time
      OBVIOUS
    <3>1. PICK e \in 1..Len(arrivals) : rows # <<>> /\ arrivals[e].time <= rows[Len(rows)].time
      BY <2>1 DEF ConsumedButOne, policyState
    <3>2. e \in 1..Len(arrivals') /\ arrivals'[e] = arrivals[e]
      BY <1>1, <1>2
    <3> QED
      BY <3>1, <3>2
  <2>4. PICK O : O = Opened(l)
    OBVIOUS
  <2>5. committedSelection' = IF l = 0 \/ O = {} THEN Null ELSE arrivals'[EndOf(O)].index
    <3>1. committedSelection' = IF l = 0 \/ O = {} THEN Null ELSE arrivals[EndOf(O)].index
      BY <1>5, <2>1, <2>4 DEF ConsumedButOne, policyState
    <3>2. ASSUME l # 0, O # {} PROVE arrivals'[EndOf(O)] = arrivals[EndOf(O)]
      <4>1. O \in SUBSET (1..c + n)
        <5>1. rows[l].seen <= c + n /\ rows[l].seen \in Int
          BY <1>0, <1>6, <3>2
        <5>2. O \subseteq 1..rows[l].seen
          BY <2>4 DEF Opened, Steps
        <5> QED
          BY <5>1, <5>2
      <4>2. EndOf(O) \in O
        <5>1. PICK x \in Nat : x = c + n
          OBVIOUS
        <5>2. O \in SUBSET (1..x)
          BY <4>1, <5>1
        <5> QED
          BY <3>2, <5>2, EndOfIs
      <4> QED
        BY <1>2, <4>1, <4>2
    <3> QED
      BY <3>1, <3>2
  <2>6. LastRow' # 0 => Opened(LastRow)' = O
    <3>1. l # 0 => Opened(l)' = O
      BY <1>6, <2>4
    <3> QED
      BY <1>6, <3>1 DEF Opened, Steps
  <2>7. committedSelection' =
          (IF LastRow = 0 \/ Opened(LastRow) = {} THEN Null ELSE arrivals[EndOf(Opened(LastRow))].index)'
    BY <1>6, <2>5, <2>6
  <2> QED
    BY <2>2, <2>3, <2>7 DEF ConsumedButOne
<1> QED
  BY <1>2, <1>3, <1>4, <1>7, <1>8, <1>10, <1>11, <1>12 DEF RequestInv

(* Nothing arrives: the sides' ends, the end of the loop, and failures.    *)
LEMMA QuietKeeps ==
  ASSUME RequestsAssumption, RequestInv, spec' = spec, Sides', subscriber' \in {"open", "completed", "errored"},
         pending' \in Seq([time : Times, provisional : BOOLEAN]),
         UNCHANGED <<rows, arrivals, buffered, childIndex, parentIndex, policyState,
                     finalizedBoundary, currentChildIndex>>
  PROVE  RequestInv'
<1>1. Longer
  <2>1. Len(rows) \in Nat /\ Len(arrivals) \in Nat
    BY Arrived DEF RequestInv
  <2> QED
    BY <2>1 DEF Longer
<1>2. Consumed' = Consumed /\ Policy' = Policy /\ Times' = Times /\ Attempt' = Attempt
  BY Fixed DEF Consumed
<1>3. RequestTypeOK'
  BY <1>2 DEF RequestInv, RequestTypeOK, policyState
<1>4. Buffer'
  BY <1>2 DEF RequestInv, Buffer
<1>5. Policy = "eventWindow" => ConsumedByTime'
  BY <1>2 DEF RequestInv, ConsumedByTime
<1> QED
  BY <1>1, <1>2, <1>3, <1>4, <1>5, UnservedKeeps

(* What a checked side lets pass.                                          *)
LEMMA AcceptsIs ==
  ASSUME RequestsAssumption, spec \in Specs, Timed, NEW source, NEW m \in Nat, NEW last,
         Remembers(source, m, last), NEW t \in Times, Accepts(source, t),
         m # 0, last.time \in Times, last.provisional \in BOOLEAN
  PROVE  /\ last.time \in Int /\ t \in Int
         /\ last.provisional => t = last.time
         /\ ~last.provisional => last.time < t
<1>1. last.time \in Int /\ t \in Int /\ Null \notin Int
  BY RequestIs
<1>2. /\ source.previousTime = last.time /\ source.activeTime = last.time
      /\ source.previousProvisional = last.provisional
  BY DEF Remembers
<1>3. last.provisional => t = last.time
  BY <1>2 DEF Accepts
<1>4. t >= last.time /\ (t = last.time => last.provisional)
  <2>1. source.previousTime # Null
    BY <1>1, <1>2
  <2> QED
    BY <1>2, <2>1 DEF Accepts
<1> QED
  BY <1>1, <1>3, <1>4

(* A child attempt follows the ones before it.                             *)
ChildAttempt(t, p) ==
  [time |-> t, provisional |-> p, index |-> childIndex, attempt |-> childSource.attempts + 1]

Follows(q, m, x, p) ==
  /\ m \in Nat /\ x \in Attempt /\ q \in Seq(Attempt) /\ Len(q) = m + 1 /\ q[m + 1] = x
  /\ childIndex <= m /\ m <= childSource.attempts /\ childSource.attempts \in Nat
  /\ \A e \in 1..m : q[e] = arrivals[e]
  /\ Climbs(q) /\ q # <<>> /\ q[1].index = 0 /\ Upcoming(q) = NextIndex(childIndex, p)
  /\ Timed => Timely(q)

LEMMA ChildFollows ==
  ASSUME RequestsAssumption, RequestInv, Open, NEW t \in Times, NEW p \in BOOLEAN,
         childSource.attempts < MaxChild, Accepts(childSource, t),
         NEW x, x = ChildAttempt(t, p),
         NEW q, q = Append(arrivals, x), NEW m, m = Len(arrivals)
  PROVE  Follows(q, m, x, p)
<1>0. x = [time |-> t, provisional |-> p, index |-> childIndex, attempt |-> childSource.attempts + 1]
  BY DEF ChildAttempt
<1>1. /\ m \in Nat /\ arrivals \in Seq(Attempt) /\ spec \in Specs /\ Sides
      /\ \A e \in 1..m : arrivals[e] \in Attempt
  BY Arrived DEF RequestInv, RequestTypeOK
<1>2. MaxChild \in Nat /\ Climbs(arrivals) /\ childIndex = Upcoming(arrivals) /\ childIndex <= m
  BY <1>1, RequestIs DEF Sides
<1>3. /\ childSource.attempts \in Nat /\ m <= childSource.attempts
      /\ childIndex \in 0..MaxChild
  BY <1>1, <1>2 DEF Sides, RequestInv, RequestTypeOK
<1>4. x \in Attempt
  <2>1. childSource.attempts + 1 \in 1..MaxChild
    BY <1>2, <1>3
  <2> QED
    BY <1>0, <1>3, <2>1 DEF Attempt
<1>5. /\ q \in Seq(Attempt) /\ Len(q) = m + 1 /\ q[m + 1] = x
      /\ \A e \in 1..m : q[e] = arrivals[e]
  BY <1>1, <1>4, AppendProperties
<1>6. q # <<>> /\ m + 1 # 0
  BY <1>1, <1>5, EmptySeq
<1>7. m = 0 => arrivals = <<>> /\ childIndex = 0
  BY <1>1, <1>2, EmptySeq DEF Upcoming
<1>8. m # 0 => /\ arrivals # <<>> /\ m \in 1..m /\ arrivals[m] \in Attempt
               /\ childIndex = NextIndex(arrivals[m].index, arrivals[m].provisional)
               /\ arrivals[m].index \in Nat /\ arrivals[m].provisional \in BOOLEAN
               /\ arrivals[m].time \in Times
  BY <1>1, <1>2, EmptySeq, AttemptIs DEF Upcoming
<1>9. \A e \in 1..m : arrivals[e].index \in Nat /\ arrivals[e].provisional \in BOOLEAN
  BY <1>1, AttemptIs
<1>10. ASSUME NEW e \in 1..m
       PROVE  /\ arrivals[e].index <= childIndex
              /\ arrivals[e].index = childIndex => arrivals[e].provisional /\ arrivals[m].provisional
              /\ arrivals[m].provisional => childIndex = arrivals[m].index
              /\ ~arrivals[m].provisional => childIndex = arrivals[m].index + 1
  <2>1. m # 0 /\ m \in 1..m
    BY <1>1
  <2>2. /\ arrivals[m].provisional => childIndex = arrivals[m].index
        /\ ~arrivals[m].provisional => childIndex = arrivals[m].index + 1
    BY <1>8, <2>1 DEF NextIndex
  <2>3. arrivals[e].index <= arrivals[m].index
    <3>1. Tried(arrivals)
      BY Arrived
    <3>2. e <= m
      BY <1>1
    <3> QED
      BY <2>1, <3>1, <3>2, ClimbsIs
  <2>4. /\ arrivals[m].index \in Nat /\ arrivals[e].index \in Nat
    BY <1>9, <2>1
  <2>5. arrivals[e].index <= childIndex
    BY <2>2, <2>3, <2>4
  <2>6. ASSUME arrivals[e].index = childIndex PROVE arrivals[e].provisional /\ arrivals[m].provisional
    <3>1. arrivals[m].provisional /\ arrivals[m].index = childIndex
      BY <2>2, <2>3, <2>4, <2>6
    <3>2. CASE e = m
      BY <3>1, <3>2
    <3>3. CASE e # m
      <4>1. e < m
        BY <1>1, <3>3
      <4> QED
        BY <1>2, <2>1, <2>6, <3>1, <4>1 DEF Climbs
    <3> QED
      BY <3>2, <3>3
  <2> QED
    BY <2>2, <2>5, <2>6
<1>11. Climbs(q)
  <2>1. ASSUME NEW e \in 1..m PROVE q[e + 1].index = NextIndex(q[e].index, q[e].provisional)
    <3>1. CASE e = m
      BY <1>0, <1>4, <1>5, <1>8, <3>1
    <3>2. CASE e # m
      <4>1. e \in 1..m - 1 /\ e + 1 \in 1..m
        BY <1>1, <3>2
      <4>2. arrivals[e + 1].index = NextIndex(arrivals[e].index, arrivals[e].provisional)
        BY <1>2, <4>1 DEF Climbs
      <4> QED
        BY <1>5, <4>1, <4>2
    <3> QED
      BY <3>1, <3>2
  <2>2. ASSUME NEW e \in 1..m + 1, NEW f \in 1..m + 1, e < f
        PROVE  q[e].index <= q[f].index /\ (q[e].index = q[f].index => q[e].provisional)
    <3>1. e \in 1..m /\ q[e] = arrivals[e]
      BY <1>1, <1>5, <2>2
    <3>2. CASE f = m + 1
      <4>1. q[f].index = childIndex
        BY <1>0, <1>5, <3>2
      <4> QED
        BY <1>10, <3>1, <4>1
    <3>3. CASE f # m + 1
      <4>1. f \in 1..m /\ q[f] = arrivals[f]
        BY <1>1, <1>5, <3>3
      <4> QED
        BY <1>2, <2>2, <3>1, <4>1 DEF Climbs
    <3> QED
      BY <3>2, <3>3
  <2>3. Len(q) - 1 = m
    BY <1>1, <1>5
  <2> QED
    BY <1>5, <2>1, <2>2, <2>3 DEF Climbs
<1>12. q[1].index = 0 /\ Upcoming(q) = NextIndex(childIndex, p)
  <2>1. Upcoming(q) = NextIndex(childIndex, p)
    BY <1>0, <1>5, <1>6 DEF Upcoming
  <2>2. CASE m = 0
    BY <1>0, <1>5, <1>7, <2>1, <2>2
  <2>3. CASE m # 0
    <3>1. 1 \in 1..m
      BY <1>1, <2>3
    <3> QED
      BY <1>1, <1>5, <1>8, <2>1, <2>3, <3>1 DEF Sides
  <2> QED
    BY <2>2, <2>3
<1>13. Timed => Timely(q)
  <2> SUFFICES ASSUME Timed PROVE Timely(q)
    OBVIOUS
  <2>1. Timely(arrivals) /\ Remembers(childSource, m, arrivals[m])
    BY <1>1 DEF Sides
  <2>2. ASSUME NEW e \in 1..m
        PROVE  arrivals[e].time <= t /\ (arrivals[e].time = t <=> arrivals[e].index = childIndex)
    <3>1. m # 0 /\ m \in 1..m
      BY <1>1
    <3>2. /\ arrivals[m].time \in Int /\ t \in Int
          /\ arrivals[m].provisional => t = arrivals[m].time
          /\ ~arrivals[m].provisional => arrivals[m].time < t
      BY <1>1, <1>8, <2>1, <3>1, AcceptsIs
    <3>3. /\ arrivals[e].time \in Int /\ arrivals[e].time <= arrivals[m].time
          /\ arrivals[e].time = arrivals[m].time <=> arrivals[e].index = arrivals[m].index
      <4>1. arrivals[e].time \in Int
        BY TimesTell
      <4>2. CASE e = m
        BY <3>2, <4>2
      <4>3. CASE e # m
        <5>1. e < m
          BY <1>1, <4>3
        <5> QED
          BY <2>1, <3>1, <4>1, <5>1 DEF Timely
      <4> QED
        BY <4>2, <4>3
    <3>4. arrivals[e].index <= childIndex /\ arrivals[e].index \in Nat /\ arrivals[m].index \in Nat
      BY <1>9, <1>10, <3>1
    <3>5. CASE arrivals[m].provisional
      <4>1. childIndex = arrivals[m].index /\ t = arrivals[m].time
        BY <1>10, <3>2, <3>5
      <4> QED
        BY <3>3, <4>1
    <3>6. CASE ~arrivals[m].provisional
      <4>1. arrivals[e].index # childIndex /\ arrivals[m].time < t
        BY <1>10, <3>2, <3>6
      <4>2. arrivals[e].time <= t /\ arrivals[e].time # t
        BY <3>2, <3>3, <4>1
      <4> QED
        BY <4>1, <4>2
    <3> QED
      BY <3>5, <3>6
  <2>3. ASSUME NEW e \in 1..m + 1, NEW f \in 1..m + 1, e < f
        PROVE  q[e].time <= q[f].time /\ (q[e].time = q[f].time <=> q[e].index = q[f].index)
    <3>1. e \in 1..m /\ q[e] = arrivals[e]
      BY <1>1, <1>5, <2>3
    <3>2. CASE f = m + 1
      <4>1. q[f].index = childIndex /\ q[f].time = t
        BY <1>0, <1>5, <3>2
      <4> QED
        BY <2>2, <3>1, <4>1
    <3>3. CASE f # m + 1
      <4>1. f \in 1..m /\ q[f] = arrivals[f]
        BY <1>1, <1>5, <3>3
      <4> QED
        BY <2>1, <2>3, <3>1, <4>1 DEF Timely
    <3> QED
      BY <3>2, <3>3
  <2>4. ASSUME NEW e \in 1..Len(q), NEW f \in 1..Len(q), e < f
        PROVE  q[e].time <= q[f].time /\ (q[e].time = q[f].time <=> q[e].index = q[f].index)
    <3>1. e \in 1..m + 1 /\ f \in 1..m + 1
      BY <1>5
    <3> QED
      BY <2>3, <2>4, <3>1
  <2> QED
    BY <2>4, Zenon DEF Timely
<1> QED
  BY <1>1, <1>2, <1>3, <1>4, <1>5, <1>6, <1>11, <1>12, <1>13 DEF Follows

LEMMA ChildFails ==
  ASSUME RequestsAssumption, RequestInv, spec' = spec, subscriber' = "errored",
         NEW t \in Times, NEW p \in BOOLEAN,
         childSource.attempts < MaxChild, childSource' = Advanced(childSource, t, p),
         UNCHANGED <<parentSource, childIndex, parentIndex, buffered, pending, policyState,
                     finalizedBoundary, currentChildIndex, rows, arrivals>>
  PROVE  RequestInv'
<1>1. Sides /\ MaxChild \in Nat /\ Len(arrivals) \in Nat /\ Timed' = Timed
  BY Fixed, Arrived, RequestIs DEF RequestInv
<1>2. /\ childSource'.attempts = childSource.attempts + 1 /\ childSource.attempts \in Nat
      /\ Len(arrivals) <= childSource.attempts
  BY <1>1 DEF Advanced, Sides
<1>3. childSource'.attempts \in 0..MaxChild /\ Len(arrivals) <= childSource'.attempts
  BY <1>1, <1>2
<1>4. ~Open' /\ Parents' = Parents /\ \A i : Parent(i)' = Parent(i)
  BY DEF Open, Parents, Parent
<1>5. /\ Climbs(arrivals)' /\ (arrivals # <<>> => arrivals[1].index = 0)'
      /\ (childIndex = Upcoming(arrivals) /\ childIndex <= Len(arrivals))' /\ (Timed => Timely(arrivals))'
      /\ (currentChildIndex = IF arrivals = <<>> THEN -1 ELSE arrivals[Len(arrivals)].index)'
      /\ (Parents <= parentSource.attempts /\ parentSource.attempts \in 0..MaxParent)'
  BY <1>1, <1>4 DEF Sides
<1>6. (Timed => \A i, j \in 1..Parents : i < j =>
         /\ Parent(i).time <= Parent(j).time
         /\ ~Parent(i).provisional => Parent(i).time < Parent(j).time)'
  BY <1>1, <1>4 DEF Sides
<1>7. Sides'
  BY <1>3, <1>4, <1>5, <1>6 DEF Sides
<1>8. pending' \in Seq([time : Times, provisional : BOOLEAN])
  BY DEF RequestInv, RequestTypeOK
<1> QED
  BY <1>7, <1>8, QuietKeeps

LEMMA ChildArrives ==
  ASSUME RequestsAssumption, RequestInv, spec' = spec, Open, NEW t \in Times, NEW p \in BOOLEAN,
         childSource.attempts < MaxChild, Accepts(childSource, t), ~Late(t, childIndex),
         childSource' = Advanced(childSource, t, p),
         NEW x, x = ChildAttempt(t, p),
         buffered' = Append(buffered, x), arrivals' = Append(arrivals, x),
         currentChildIndex' = childIndex, childIndex' = NextIndex(childIndex, p),
         UNCHANGED <<subscriber, parentSource, parentIndex, pending, policyState,
                     finalizedBoundary, rows>>
  PROVE  RequestInv'
<1>0. x.time = t /\ x.provisional = p /\ x.index = childIndex
  BY DEF ChildAttempt
<1>1. PICK q, m : q = Append(arrivals, x) /\ m = Len(arrivals)
  OBVIOUS
<1>2. /\ m \in Nat /\ x \in Attempt /\ q \in Seq(Attempt) /\ Len(q) = m + 1 /\ q[m + 1] = x
      /\ childIndex <= m /\ m <= childSource.attempts /\ childSource.attempts \in Nat
      /\ \A e \in 1..m : q[e] = arrivals[e]
      /\ Climbs(q) /\ q # <<>> /\ q[1].index = 0 /\ Upcoming(q) = NextIndex(childIndex, p)
      /\ Timed => Timely(q)
  <2>1. Follows(q, m, x, p)
    BY <1>1, ChildFollows
  <2> QED
    BY <2>1 DEF Follows
<1>3. PICK c \in Nat, n \in Nat : c = Consumed /\ n = Len(buffered) /\ Len(arrivals) = c + n
  BY Arrived
<1>4. /\ arrivals' = q /\ m = c + n /\ Policy' = Policy /\ Timed' = Timed /\ Times' = Times
      /\ Attempt' = Attempt
  BY <1>1, <1>3, Fixed
<1>5. /\ Sides /\ RequestTypeOK /\ Buffer /\ rows \in Seq(Row) /\ spec \in Specs /\ MaxChild \in Nat
      /\ childIndex \in Nat
  <2>1. Sides /\ RequestTypeOK /\ Buffer /\ rows \in Seq(Row) /\ spec \in Specs
    BY DEF RequestInv
  <2>2. MaxChild \in Nat
    BY <2>1, RequestIs
  <2>3. childIndex \in Nat
    BY <2>1, <2>2 DEF RequestTypeOK
  <2> QED
    BY <2>1, <2>2, <2>3
<1>6. /\ buffered' \in Seq(Attempt) /\ Len(buffered') = n + 1 /\ buffered'[n + 1] = x
      /\ \A e \in 1..n : buffered'[e] = buffered[e]
  BY <1>2, <1>3, <1>5, AppendProperties DEF RequestTypeOK
<1>7. Longer
  <2>1. Len(rows) \in Nat
    BY <1>5
  <2> QED
    BY <1>1, <1>2, <1>4, <2>1 DEF Longer
<1>8. Consumed' = c
  BY <1>2, <1>3, <1>4, <1>6 DEF Consumed
<1>9. Buffer'
  <2>1. ASSUME NEW e \in 1..n + 1 PROVE buffered'[e] = q[c + e]
    <3>1. CASE e = n + 1
      <4>1. c + (n + 1) = m + 1
        BY <1>4
      <4> QED
        BY <1>2, <1>6, <3>1, <4>1
    <3>2. CASE e # n + 1
      <4>1. e \in 1..n /\ c + e \in 1..m
        BY <1>4, <3>2
      <4>2. buffered[e] = arrivals[c + e]
        BY <1>3, <1>5, <4>1 DEF Buffer
      <4> QED
        BY <1>2, <1>6, <4>1, <4>2
    <3> QED
      BY <3>1, <3>2
  <2> QED
    BY <1>4, <1>6, <1>8, <2>1 DEF Buffer
<1>10. childSource' = Advanced(childSource, t, p) /\ childSource'.attempts = childSource.attempts + 1
  BY DEF Advanced
<1>11. /\ NextIndex(childIndex, p) \in Nat /\ NextIndex(childIndex, p) <= m + 1
       /\ childSource'.attempts \in 0..MaxChild /\ m + 1 <= childSource'.attempts
  <2>1. NextIndex(childIndex, p) \in Nat /\ NextIndex(childIndex, p) <= m + 1
    BY <1>2, <1>5 DEF NextIndex
  <2>2. childSource'.attempts \in 0..MaxChild /\ m + 1 <= childSource'.attempts
    BY <1>2, <1>5, <1>10
  <2> QED
    BY <2>1, <2>2
<1>12. Parents' = Parents /\ (\A i : Parent(i)' = Parent(i)) /\ Open' = Open
  BY DEF Parents, Parent, Open
<1>13. Sides'
  <2>1. /\ Climbs(arrivals)' /\ (arrivals # <<>> => arrivals[1].index = 0)'
        /\ (childIndex = Upcoming(arrivals) /\ childIndex <= Len(arrivals))' /\ (Timed => Timely(arrivals))'
    BY <1>2, <1>4, <1>11
  <2>2. (currentChildIndex = IF arrivals = <<>> THEN -1 ELSE arrivals[Len(arrivals)].index)'
    BY <1>0, <1>2, <1>4
  <2>3. (/\ Len(arrivals) <= childSource.attempts /\ Parents <= parentSource.attempts
         /\ childSource.attempts \in 0..MaxChild /\ parentSource.attempts \in 0..MaxParent)'
    BY <1>2, <1>4, <1>5, <1>11, <1>12 DEF Sides
  <2>4. Remembers(childSource', m + 1, x)
    <3>1. m + 1 # 0
      BY <1>2
    <3>2. /\ childSource'.previousTime = t /\ childSource'.activeTime = t
          /\ childSource'.previousProvisional = p
      BY <1>10 DEF Advanced
    <3> QED
      BY <1>0, <1>11, <3>1, <3>2 DEF Remembers
  <2>5. Remembers(childSource, Len(arrivals), arrivals[Len(arrivals)])'
    BY <1>2, <1>4, <2>4 DEF Remembers
  <2>6. Remembers(parentSource, Parents, Parent(Parents))'
    <3>1. Remembers(parentSource, Parents, Parent(Parents))
      BY <1>5 DEF Sides
    <3> QED
      BY <1>12, <3>1 DEF Remembers, Parent
  <2>7. (Timed => \A i, j \in 1..Parents : i < j =>
           /\ Parent(i).time <= Parent(j).time
           /\ ~Parent(i).provisional => Parent(i).time < Parent(j).time)'
    BY <1>4, <1>5, <1>12 DEF Sides
  <2> QED
    BY <2>1, <2>2, <2>3, <2>5, <2>6, <2>7 DEF Sides
<1>14. RequestTypeOK'
  <2>1. childIndex' \in 0..MaxChild
    <3>1. childIndex' \in Nat /\ childIndex' <= MaxChild
      BY <1>2, <1>5, <1>11
    <3> QED
      BY <1>5, <3>1
  <2>2. currentChildIndex' \in -1..MaxChild
    BY <1>5 DEF RequestTypeOK
  <2> QED
    BY <1>2, <1>4, <1>5, <1>6, <2>1, <2>2 DEF RequestTypeOK, policyState
<1>15. Policy = "eventWindow" => ConsumedByTime'
  <2> SUFFICES ASSUME Policy = "eventWindow" PROVE ConsumedByTime'
    OBVIOUS
  <2>1. ConsumedByTime /\ Timed
    BY <1>5, RequestIs DEF RequestInv
  <2>2. finalizedBoundary = Null => Consumed' = 0
    BY <1>3, <1>8, <2>1 DEF ConsumedByTime
  <2>3. ASSUME finalizedBoundary # Null, NEW e \in 1..c PROVE q[e].time <= finalizedBoundary
    <3>1. e \in 1..m /\ q[e] = arrivals[e]
      BY <1>2, <1>4
    <3> QED
      BY <1>3, <2>1, <2>3, <3>1 DEF ConsumedByTime
  <2>4. ASSUME finalizedBoundary # Null, NEW e \in c + 1..m
        PROVE  arrivals[e].time > finalizedBoundary \/ (c > 0 /\ arrivals[e].index = arrivals[c].index)
    BY <1>1, <1>3, <2>1, <2>4 DEF ConsumedByTime
  <2>5. ASSUME finalizedBoundary # Null
        PROVE  t > finalizedBoundary \/ (c > 0 /\ childIndex = arrivals[c].index)
    <3>0. finalizedBoundary \in Int /\ t \in Int
      BY <1>5, <2>5, RequestIs DEF RequestTypeOK
    <3>1. CASE childIndex # currentChildIndex
      BY <2>1, <2>5, <3>0, <3>1 DEF Late
    <3>2. CASE childIndex = currentChildIndex
      <4>1. m # 0 /\ childIndex = arrivals[m].index /\ m \in 1..m
        <5>1. arrivals # <<>>
          <6>1. currentChildIndex # -1
            BY <1>5, <3>2
          <6> QED
            BY <1>5, <6>1 DEF Sides
        <5>2. m # 0
          BY <1>1, <1>5, <5>1, EmptySeq DEF RequestTypeOK
        <5> QED
          BY <1>1, <1>2, <1>5, <3>2, <5>1, <5>2 DEF Sides
      <4>2. arrivals[m].time = t
        <5>1. q[m].index = q[m + 1].index /\ q[m].time = arrivals[m].time /\ q[m + 1].time = t
          BY <1>0, <1>2, <4>1
        <5>2. m \in 1..Len(q) /\ m + 1 \in 1..Len(q) /\ m < m + 1
          BY <1>2, <4>1
        <5> QED
          BY <1>2, <2>1, <5>1, <5>2 DEF Timely
      <4>3. CASE c = m
        <5>1. c > 0
          BY <1>2, <4>1, <4>3
        <5> QED
          BY <4>1, <4>3, <5>1
      <4>4. CASE c # m
        <5>1. m \in c + 1..m
          BY <1>4, <4>4
        <5> QED
          BY <2>4, <2>5, <4>1, <4>2, <5>1
      <4> QED
        BY <4>3, <4>4
    <3> QED
      BY <3>1, <3>2
  <2>6. ASSUME finalizedBoundary # Null, NEW e \in c + 1..m + 1
        PROVE  q[e].time > finalizedBoundary \/ (c > 0 /\ q[e].index = q[c].index)
    <3>1. c > 0 => q[c] = arrivals[c]
      BY <1>2, <1>4
    <3>2. CASE e = m + 1
      BY <1>0, <1>2, <2>5, <2>6, <3>1, <3>2
    <3>3. CASE e # m + 1
      <4>1. e \in c + 1..m /\ e \in 1..m
        BY <1>4, <3>3
      <4> QED
        BY <1>2, <2>4, <2>6, <3>1, <4>1
    <3> QED
      BY <3>2, <3>3
  <2> QED
    BY <1>2, <1>4, <1>8, <2>2, <2>3, <2>6 DEF ConsumedByTime
<1> QED
  BY <1>3, <1>7, <1>8, <1>9, <1>13, <1>14, <1>15, UnservedKeeps

LEMMA ChildNextKeeps ==
  ASSUME RequestsAssumption, RequestInv, NEW t \in Times, NEW p \in BOOLEAN, ChildNext(t, p), spec' = spec
  PROVE  RequestInv'
<1>1. /\ Open /\ childSource.attempts < MaxChild /\ childSource' = Advanced(childSource, t, p)
      /\ UNCHANGED <<parentSource, parentIndex, pending, policyState, finalizedBoundary, rows>>
  BY DEF ChildNext, Ready
<1>2. CASE ~Accepts(childSource, t) \/ Late(t, childIndex)
  <2>1. /\ subscriber' = "errored"
        /\ UNCHANGED <<childIndex, buffered, currentChildIndex, arrivals>>
    BY <1>2 DEF ChildNext, Fail
  <2> QED
    BY <1>1, <2>1, ChildFails
<1>3. CASE ~(~Accepts(childSource, t) \/ Late(t, childIndex))
  <2>1. PICK x : x = ChildAttempt(t, p)
    OBVIOUS
  <2>2. /\ buffered' = Append(buffered, x) /\ arrivals' = Append(arrivals, x)
        /\ currentChildIndex' = childIndex /\ childIndex' = NextIndex(childIndex, p)
        /\ UNCHANGED subscriber
    BY <1>3, <2>1 DEF ChildNext, ChildAttempt
  <2> QED
    BY <1>1, <1>3, <2>1, <2>2, ChildArrives
<1> QED
  BY <1>2, <1>3

LEMMA ParentFails ==
  ASSUME RequestsAssumption, RequestInv, spec' = spec, subscriber' = "errored",
         NEW t \in Times, NEW p \in BOOLEAN,
         parentSource.attempts < MaxParent, parentSource' = Advanced(parentSource, t, p),
         UNCHANGED <<childSource, childIndex, parentIndex, buffered, pending, policyState,
                     finalizedBoundary, currentChildIndex, rows, arrivals>>
  PROVE  RequestInv'
<1>1. /\ Sides /\ MaxParent \in Nat /\ Timed' = Timed /\ rows \in Seq(Row)
      /\ pending \in Seq([time : Times, provisional : BOOLEAN])
  BY Fixed, RequestIs DEF RequestInv, RequestTypeOK
<1>2. Parents \in Nat
  BY <1>1 DEF Parents
<1>3. parentSource'.attempts = parentSource.attempts + 1 /\ parentSource.attempts \in 0..MaxParent
  BY <1>1 DEF Advanced, Sides
<1>4. parentSource'.attempts \in 0..MaxParent /\ Parents <= parentSource'.attempts
  BY <1>1, <1>2, <1>3 DEF Sides
<1>5. ~Open' /\ Parents' = Parents /\ \A i : Parent(i)' = Parent(i)
  BY DEF Open, Parents, Parent
<1>6. /\ Climbs(arrivals)' /\ (arrivals # <<>> => arrivals[1].index = 0)'
      /\ (childIndex = Upcoming(arrivals) /\ childIndex <= Len(arrivals))' /\ (Timed => Timely(arrivals))'
      /\ (currentChildIndex = IF arrivals = <<>> THEN -1 ELSE arrivals[Len(arrivals)].index)'
      /\ (Len(arrivals) <= childSource.attempts /\ childSource.attempts \in 0..MaxChild)'
  BY <1>1 DEF Sides
<1>7. (Timed => \A i, j \in 1..Parents : i < j =>
         /\ Parent(i).time <= Parent(j).time
         /\ ~Parent(i).provisional => Parent(i).time < Parent(j).time)'
  BY <1>1, <1>5 DEF Sides
<1>8. Sides'
  BY <1>4, <1>5, <1>6, <1>7 DEF Sides
<1> QED
  BY <1>1, <1>8, QuietKeeps

LEMMA ParentArrives ==
  ASSUME RequestsAssumption, RequestInv, spec' = spec, Open, NEW t \in Times, NEW p \in BOOLEAN,
         parentSource.attempts < MaxParent, Accepts(parentSource, t),
         parentSource' = Advanced(parentSource, t, p),
         NEW y, y = [time |-> t, provisional |-> p], pending' = Append(pending, y),
         UNCHANGED <<subscriber, childSource, childIndex, parentIndex, buffered, policyState,
                     finalizedBoundary, currentChildIndex, rows, arrivals>>
  PROVE  RequestInv'
<1>1. PICK A : A = [time : Times, provisional : BOOLEAN]
  OBVIOUS
<1>2. PICK n, k, m : n = Len(rows) /\ k = Len(pending) /\ m = Parents
  OBVIOUS
<1>3. /\ Sides /\ MaxParent \in Nat /\ Timed' = Timed /\ rows \in Seq(Row) /\ pending \in Seq(A)
      /\ spec \in Specs
  BY <1>1, Fixed, RequestIs DEF RequestInv, RequestTypeOK
<1>4. n \in Nat /\ k \in Nat /\ m \in Nat /\ m = n + k /\ y \in A
  BY <1>1, <1>2, <1>3 DEF Parents
<1>5. /\ pending' \in Seq(A) /\ Len(pending') = k + 1 /\ pending'[k + 1] = y
      /\ \A i \in 1..k : pending'[i] = pending[i]
  BY <1>2, <1>3, <1>4, AppendProperties
<1>6. Parents' = m + 1
  BY <1>2, <1>4, <1>5 DEF Parents
<1>7. ASSUME NEW i \in 1..m PROVE Parent(i)' = Parent(i)
  <2>1. i > n => i - n \in 1..k
    BY <1>4
  <2> QED
    BY <1>2, <1>4, <1>5, <2>1 DEF Parent
<1>8. ASSUME NEW i, i = m + 1 PROVE Parent(i)' = y
  <2>1. ~ (i <= n) /\ i - n = k + 1
    BY <1>4, <1>8
  <2>2. Parent(i)' = pending'[i - n]
    BY <1>2, <2>1 DEF Parent
  <2> QED
    BY <1>5, <2>1, <2>2
<1>9. ASSUME NEW i \in 1..m PROVE Parent(i).time \in Times /\ Parent(i).provisional \in BOOLEAN
  <2>1. CASE i <= n
    <3>1. rows[i] \in Row
      BY <1>2, <1>3, <1>4, <2>1
    <3>2. rows[i].time \in Times /\ rows[i].provisional \in BOOLEAN
      BY <3>1 DEF Row
    <3>3. Parent(i) = [time |-> rows[i].time, provisional |-> rows[i].provisional]
      BY <1>2, <2>1 DEF Parent
    <3> QED
      BY <3>2, <3>3
  <2>2. CASE ~ (i <= n)
    <3>1. i - n \in 1..k
      BY <1>4, <2>2
    <3>2. pending[i - n] \in A
      BY <1>2, <1>3, <3>1
    <3>3. Parent(i) = pending[i - n]
      BY <1>2, <2>2 DEF Parent
    <3> QED
      BY <1>1, <3>2, <3>3
  <2> QED
    BY <2>1, <2>2
<1>10. /\ parentSource'.previousTime = t /\ parentSource'.activeTime = t
       /\ parentSource'.previousProvisional = p /\ parentSource'.attempts = parentSource.attempts + 1
  BY DEF Advanced
<1>11. parentSource.attempts \in 0..MaxParent /\ m <= parentSource.attempts
  BY <1>2, <1>3 DEF Sides
<1>12. parentSource'.attempts \in 0..MaxParent /\ m + 1 <= parentSource'.attempts
  BY <1>3, <1>4, <1>10, <1>11
<1>13. Sides'
  <2>1. /\ Climbs(arrivals)' /\ (arrivals # <<>> => arrivals[1].index = 0)'
        /\ (childIndex = Upcoming(arrivals) /\ childIndex <= Len(arrivals))' /\ (Timed => Timely(arrivals))'
        /\ (currentChildIndex = IF arrivals = <<>> THEN -1 ELSE arrivals[Len(arrivals)].index)'
        /\ (Len(arrivals) <= childSource.attempts /\ childSource.attempts \in 0..MaxChild)'
    BY <1>3 DEF Sides
  <2>2. (Parents <= parentSource.attempts /\ parentSource.attempts \in 0..MaxParent)'
    BY <1>6, <1>12
  <2>3. Remembers(childSource, Len(arrivals), arrivals[Len(arrivals)])'
    <3>1. Remembers(childSource, Len(arrivals), arrivals[Len(arrivals)])
      BY <1>3 DEF Sides
    <3> QED
      BY <3>1 DEF Remembers
  <2>4. Remembers(parentSource, Parents, Parent(Parents))'
    <3>1. Parent(Parents)' = y
      <4>1. PICK i : i = m + 1
        OBVIOUS
      <4>2. Parent(i)' = y /\ Parents' = i
        BY <1>6, <1>8, <4>1
      <4> QED
        BY <4>2 DEF Parent
    <3>2. Parents' # 0 /\ y.time = t /\ y.provisional = p
      BY <1>4, <1>6
    <3> QED
      BY <1>6, <1>10, <1>12, <3>1, <3>2 DEF Remembers
  <2>5. ASSUME Timed, NEW i \in 1..m + 1, NEW j \in 1..m + 1, i < j
        PROVE  /\ Parent(i)'.time <= Parent(j)'.time
               /\ ~Parent(i)'.provisional => Parent(i)'.time < Parent(j)'.time
    <3>1. i \in 1..m /\ Parent(i)' = Parent(i)
      <4>1. i \in 1..m
        BY <1>4, <2>5
      <4> QED
        BY <1>7, <4>1
    <3>2. CASE j = m + 1
      <4>1. Parent(j)' = y /\ Parent(j)'.time = t
        <5>1. Parent(j)' = y
          BY <1>8, <3>2
        <5> QED
          BY <5>1
      <4>2. m # 0 /\ m \in 1..m
        BY <1>4, <3>1
      <4>3. Remembers(parentSource, m, Parent(m))
        BY <1>2, <1>3 DEF Sides
      <4>4. PICK last : last = Parent(m)
        OBVIOUS
      <4>5. /\ last.time \in Int /\ t \in Int
            /\ last.provisional => t = last.time
            /\ ~last.provisional => last.time < t
        BY <1>3, <1>4, <1>9, <2>5, <4>2, <4>3, <4>4, AcceptsIs
      <4>6. CASE i = m
        BY <3>1, <4>1, <4>4, <4>5, <4>6
      <4>7. CASE i # m
        <5>1. i < m
          BY <1>4, <3>1, <4>7
        <5>2. Parent(i).time <= last.time /\ (~Parent(i).provisional => Parent(i).time < last.time)
          BY <1>2, <1>3, <2>5, <3>1, <4>2, <4>4, <5>1 DEF Sides
        <5>3. Parent(i).time \in Int
          BY <1>3, <1>9, <3>1, RequestIs
        <5>4. last.time <= t
          BY <4>5
        <5> QED
          BY <3>1, <4>1, <4>5, <5>2, <5>3, <5>4
      <4> QED
        BY <4>6, <4>7
    <3>3. CASE j # m + 1
      <4>1. j \in 1..m
        BY <1>4, <3>3
      <4>2. Parent(j)' = Parent(j)
        BY <1>7, <4>1
      <4> QED
        BY <1>2, <1>3, <2>5, <3>1, <4>1, <4>2 DEF Sides
    <3> QED
      BY <3>2, <3>3
  <2>6. (Timed => \A i, j \in 1..Parents : i < j =>
           /\ Parent(i).time <= Parent(j).time
           /\ ~Parent(i).provisional => Parent(i).time < Parent(j).time)'
    BY <1>3, <1>6, <2>5
  <2> QED
    BY <2>1, <2>2, <2>3, <2>4, <2>6 DEF Sides
<1>14. /\ pending' \in Seq([time : Times, provisional : BOOLEAN])
       /\ subscriber' \in {"open", "completed", "errored"}
  BY <1>1, <1>5 DEF RequestInv, RequestTypeOK
<1> QED
  BY <1>13, <1>14, QuietKeeps

LEMMA ParentNextKeeps ==
  ASSUME RequestsAssumption, RequestInv, NEW t \in Times, NEW p \in BOOLEAN, ParentNext(t, p), spec' = spec
  PROVE  RequestInv'
<1>1. /\ Open /\ parentSource.attempts < MaxParent /\ parentSource' = Advanced(parentSource, t, p)
      /\ UNCHANGED <<childSource, childIndex, parentIndex, buffered, policyState,
                     finalizedBoundary, currentChildIndex, rows, arrivals>>
  BY DEF ParentNext, Ready
<1>2. CASE ~Accepts(parentSource, t)
  <2>1. subscriber' = "errored" /\ UNCHANGED pending
    BY <1>2 DEF ParentNext, Fail
  <2> QED
    BY <1>1, <2>1, ParentFails
<1>3. CASE Accepts(parentSource, t)
  <2>1. PICK y : y = [time |-> t, provisional |-> p]
    OBVIOUS
  <2>2. pending' = Append(pending, y) /\ UNCHANGED subscriber
    BY <1>3, <2>1 DEF ParentNext
  <2> QED
    BY <1>1, <1>3, <2>1, <2>2, ParentArrives
<1> QED
  BY <1>2, <1>3

(* The ends of the sides and of the loop change nothing else.              *)
LEMMA EndKeeps ==
  ASSUME RequestsAssumption, RequestInv, spec' = spec,
         subscriber' \in {subscriber, "completed"},
         UNCHANGED <<childSource, parentSource, childIndex, parentIndex, buffered, pending,
                     policyState, finalizedBoundary, currentChildIndex, rows, arrivals>>
  PROVE  RequestInv'
<1>1. /\ Sides /\ Timed' = Timed /\ pending \in Seq([time : Times, provisional : BOOLEAN])
      /\ subscriber' \in {"open", "completed", "errored"}
  BY Fixed DEF RequestInv, RequestTypeOK
<1>2. (Open' => Open) /\ Parents' = Parents /\ \A i : Parent(i)' = Parent(i)
  BY DEF Open, Parents, Parent
<1>3. /\ Climbs(arrivals)' /\ (arrivals # <<>> => arrivals[1].index = 0)'
      /\ (childIndex = Upcoming(arrivals) /\ childIndex <= Len(arrivals))' /\ (Timed => Timely(arrivals))'
      /\ (currentChildIndex = IF arrivals = <<>> THEN -1 ELSE arrivals[Len(arrivals)].index)'
      /\ (Len(arrivals) <= childSource.attempts /\ Parents <= parentSource.attempts)'
      /\ (childSource.attempts \in 0..MaxChild /\ parentSource.attempts \in 0..MaxParent)'
  BY <1>1, <1>2 DEF Sides
<1>4. (Open => /\ Remembers(childSource, Len(arrivals), arrivals[Len(arrivals)])
               /\ Remembers(parentSource, Parents, Parent(Parents)))'
  BY <1>1, <1>2 DEF Sides, Remembers, Parent
<1>5. (Timed => \A i, j \in 1..Parents : i < j =>
         /\ Parent(i).time <= Parent(j).time
         /\ ~Parent(i).provisional => Parent(i).time < Parent(j).time)'
  BY <1>1, <1>2 DEF Sides
<1>6. Sides'
  BY <1>3, <1>4, <1>5 DEF Sides
<1> QED
  BY <1>1, <1>6, QuietKeeps

-----------------------------------------------------------------------------
(***************************************************************************)
(* The invariant.                                                          *)
(***************************************************************************)

LEMMA RequestStarts ==
  ASSUME RequestsAssumption, RequestInit
  PROVE  RequestInv
<1>1. /\ spec \in Specs /\ arrivals = <<>> /\ buffered = <<>> /\ pending = <<>> /\ rows = <<>>
      /\ childIndex = 0 /\ parentIndex = 0 /\ currentChildIndex = -1 /\ subscriber = "open"
      /\ selected = Null /\ committedSelection = Null /\ previousMain = Null /\ finalizedBoundary = Null
      /\ childSource = FreshSource /\ parentSource = FreshSource
  BY DEF RequestInit
<1>2. MaxChild \in Nat /\ MaxParent \in Nat /\ Count \in Nat
  BY <1>1, RequestIs
<1>3. Len(arrivals) = 0 /\ Len(buffered) = 0 /\ Len(pending) = 0 /\ Len(rows) = 0
  BY <1>1
<1>4. RequestTypeOK /\ rows \in Seq(Row)
  BY <1>1, <1>2, <1>3 DEF RequestTypeOK
<1>5. Consumed = 0 /\ Parents = 0 /\ LastRow = 0
  <2>1. Consumed = 0 /\ Parents = 0
    BY <1>3 DEF Consumed, Parents
  <2>2. {j \in 1..0 : ~rows[j].provisional} = {}
    OBVIOUS
  <2>3. LastRow = 0
    <3>1. (Len(rows) + 1) - 1 = 0
      BY <1>3
    <3>2. {j \in 1..(Len(rows) + 1) - 1 : ~rows[j].provisional} = {}
      BY <3>1
    <3> QED
      BY <3>2 DEF LastRow, LastFinal, EndOf
  <2> QED
    BY <2>1, <2>3
<1>6. Sides
  <2>1. /\ childSource.attempts = 0 /\ childSource.previousTime = Null /\ childSource.activeTime = Null
        /\ childSource.previousProvisional = FALSE
        /\ parentSource.attempts = 0 /\ parentSource.previousTime = Null /\ parentSource.activeTime = Null
        /\ parentSource.previousProvisional = FALSE
    BY <1>1 DEF FreshSource
  <2>2. ASSUME NEW source, source \in {childSource, parentSource}, NEW last
        PROVE  Remembers(source, 0, last)
    <3>1. /\ source.attempts = 0 /\ source.previousTime = Null /\ source.activeTime = Null
          /\ source = childSource \/ source = parentSource
      BY <2>1, <2>2
    <3>2. source.previousProvisional = FALSE
      BY <2>1, <3>1, Zenon
    <3>3. 0 <= source.attempts
      BY <3>1
    <3> QED
      BY <3>1, <3>2, <3>3, Zenon DEF Remembers
  <2>3. Climbs(arrivals) /\ Timely(arrivals) /\ childIndex = Upcoming(arrivals)
    BY <1>1, <1>3 DEF Climbs, Timely, Upcoming
  <2>4. \A i, j \in 1..Parents : i < j =>
          /\ Parent(i).time <= Parent(j).time
          /\ ~Parent(i).provisional => Parent(i).time < Parent(j).time
    BY <1>5
  <2>5. /\ Len(arrivals) <= childSource.attempts /\ Parents <= parentSource.attempts
        /\ childSource.attempts \in 0..MaxChild /\ parentSource.attempts \in 0..MaxParent
        /\ childIndex <= Len(arrivals)
    BY <1>1, <1>2, <1>3, <1>5, <2>1
  <2>6. /\ Remembers(childSource, Len(arrivals), arrivals[Len(arrivals)])
        /\ Remembers(parentSource, Parents, Parent(Parents))
    BY <1>3, <1>5, <2>2
  <2>7. /\ arrivals # <<>> => arrivals[1].index = 0
        /\ currentChildIndex = IF arrivals = <<>> THEN -1 ELSE arrivals[Len(arrivals)].index
    BY <1>1
  <2> QED
    BY <2>3, <2>4, <2>5, <2>6, <2>7 DEF Sides
<1>7. Buffer /\ Boundaries /\ Documented
  BY <1>1, <1>3, <1>5 DEF Buffer, Boundaries, Documented
<1>8. Upto = 0 /\ Finals = {}
  BY <1>3, <1>5 DEF Upto, Finals
<1>9. TakenInTurn
  BY <1>8 DEF TakenInTurn
<1>10. Policy \in {"oneToOne", "countWindow"} => ConsumedInTurn
  <2> SUFFICES ASSUME Policy \in {"oneToOne", "countWindow"} PROVE ConsumedInTurn
    OBVIOUS
  <2>1. PerRow * parentIndex = 0
    <3>1. PerRow \in Nat
      BY <1>2 DEF PerRow
    <3> QED
      BY <1>1, <3>1
  <2> QED
    BY <1>5, <1>8, <2>1 DEF ConsumedInTurn
<1>11. ConsumedByTime /\ ConsumedButOne
  BY <1>1, <1>5 DEF ConsumedByTime, ConsumedButOne
<1> QED
  BY <1>1, <1>4, <1>6, <1>7, <1>9, <1>10, <1>11 DEF RequestInv

LEMMA RequestSteps ==
  ASSUME RequestsAssumption, RequestInv, [RequestNext]_requestVars
  PROVE  RequestInv'
<1>1. CASE RequestNext
  <2>1. spec' = spec
    BY <1>1 DEF RequestNext
  <2>2. ASSUME NEW t \in Times, NEW p \in BOOLEAN, ChildNext(t, p) PROVE RequestInv'
    BY <2>1, <2>2, ChildNextKeeps
  <2>3. ASSUME NEW t \in Times, NEW p \in BOOLEAN, ParentNext(t, p) PROVE RequestInv'
    BY <2>1, <2>3, ParentNextKeeps
  <2>4. CASE ChildComplete
    BY <2>1, <2>4, EndKeeps DEF ChildComplete
  <2>5. CASE ParentComplete
    BY <2>1, <2>5, EndKeeps DEF ParentComplete
  <2>6. CASE Sample
    BY <2>1, <2>6, SampleKeeps
  <2>7. CASE OneToOne
    BY <2>1, <2>7, OneToOneKeeps
  <2>8. CASE CountWindow
    BY <2>1, <2>8, CountWindowKeeps
  <2>9. CASE EventWindow
    BY <2>1, <2>9, EventWindowKeeps
  <2>10. CASE DrainEnd
    <3>1. /\ subscriber' \in {subscriber, "completed"}
          /\ UNCHANGED <<sideState, childIndex, parentIndex, buffered, pending, policyState,
                         finalizedBoundary, currentChildIndex, rows, arrivals>>
      BY <2>10 DEF DrainEnd
    <3> QED
      BY <2>1, <3>1, EndKeeps DEF sideState
  <2> QED
    BY <1>1, <2>2, <2>3, <2>4, <2>5, <2>6, <2>7, <2>8, <2>9, <2>10 DEF RequestNext
<1>2. CASE UNCHANGED requestVars
  BY <1>2, EndKeeps DEF requestVars, sideState
<1> QED
  BY <1>1, <1>2

LEMMA RequestMeans ==
  ASSUME RequestsAssumption, RequestInv
  PROVE  RowsAsDocumented
<1>1. /\ RequestTypeOK /\ Documented /\ Boundaries /\ spec \in Specs /\ rows \in Seq(Row)
      /\ (Policy # "sample" => TakenInTurn)
  BY DEF RequestInv
<1>2. ASSUME Policy = "eventWindow", Looping PROVE MainTimeIncreases
  <2>1. Timed /\ Head(pending) = pending[1] /\ pending # <<>>
    BY <1>1, <1>2, RequestIs DEF Looping
  <2>2. ASSUME previousMain # Null PROVE pending[1].time > previousMain
    <3>1. LastRow # 0 /\ previousMain = rows[LastRow].time
      BY <1>1, <1>2, <2>2 DEF Boundaries
    <3>2. Len(rows) \in Nat /\ Len(rows) + 1 \in 1..Len(rows) + 1
      BY <1>1
    <3>3. LastRow \in 0..Len(rows) /\ ~rows[LastRow].provisional
      BY <3>1, <3>2, LastFinalIs DEF LastRow
    <3>4. LastRow \in 1..Len(rows)
      BY <3>1, <3>2, <3>3
    <3> QED
      BY <2>1, <3>1, <3>3, <3>4, TimesPass
  <2> QED
    BY <2>1, <2>2 DEF MainTimeIncreases
<1>3. EachStepOnce
  BY <1>1, <1>2 DEF EachStepOnce, TakenInTurn
<1> QED
  BY <1>1, <1>3 DEF RowsAsDocumented, Documented

(* Every row carries exactly the child results its policy is documented to *)
(* select among those that had arrived; the final rows of the other        *)
(* policies take each child step once (api/node.ts).                       *)
THEOREM RequestRowsAsDocumented ==
  ASSUME RequestsAssumption
  PROVE  RequestSpec => []RowsAsDocumented
<1>1. RequestInit => RequestInv
  BY RequestStarts
<1>2. RequestInv /\ [RequestNext]_requestVars => RequestInv'
  BY RequestSteps
<1>3. RequestInv => RowsAsDocumented
  BY RequestMeans
<1> QED
  BY <1>1, <1>2, <1>3, PTL DEF RequestSpec
=============================================================================
