---------------------------- MODULE ContextProofs ----------------------------
(***************************************************************************)
(* What one execution keeps, for every tree of calls, every binding with   *)
(* its storage kind and depth, every input and any number of attempts.     *)
(*                                                                         *)
(* Retained: no object a later attempt could reach is collected, because   *)
(* everything main can hold is in the transaction's view of the heap, and  *)
(* what an accepted attempt leaves was held by main.                       *)
(* Rows: what is read back agrees with the log of rows, because a binding  *)
(* starts from what the log says at every point of an attempt, and what    *)
(* the write set adds is what the log will be told.                        *)
(***************************************************************************)
EXTENDS ContextRows, SequenceTheorems, FiniteSetTheorems, TLAPS

(* What the objects of a heap hold is in the heap. *)
Whole(heap) == \A o \in LiveIn(heap) : heap[o] \in Plain \cup LiveIn(heap)

(* What is committed or carried is in the heap. *)
RootsLive(heap) ==
  /\ \A l \in Locals : \A k \in 1..Len(history[l]) : history[l][k] \in Plain \cup LiveIn(heap)
  /\ \A i \in Inputs : \A k \in 1..Len(inputHistory[i]) :
       inputHistory[i][k] \in Plain \cup LiveIn(heap)
  /\ \A l \in Locals : carried[l] # None => carried[l].value \in Plain \cup LiveIn(heap)

(* What a write holds is in the attempt's view. *)
WritesLive ==
  \A l \in Locals : writes[l] # None =>
    /\ writes[l].value \in Plain \cup LiveIn(view)
    /\ writes[l].first \in Plain \cup LiveIn(view) \cup {None}

InputsLive == \A i \in Inputs : input[i] \in Plain \cup LiveIn(view)

RetainInv ==
  /\ ContextTypeOK
  /\ ~over => Whole(objects) /\ RootsLive(objects)
  /\ running =>
       /\ ~over
       /\ Whole(view) /\ LiveIn(objects) \subseteq LiveIn(view)
       /\ WritesLive /\ InputsLive

-----------------------------------------------------------------------------
(***************************************************************************)
(* Sequences of rows.                                                      *)
(***************************************************************************)

(* A history takes the row in front and keeps the newest.                  *)
LEMMA CommitHistoryProperties ==
  ASSUME NEW S, NEW values \in Seq(S), NEW value \in S, NEW keep \in Nat
  PROVE  /\ CommitHistory(values, value, keep) \in Seq(S)
         /\ Len(CommitHistory(values, value, keep)) <= Len(values) + 1
         /\ Len(CommitHistory(values, value, keep)) <= keep
         /\ Len(CommitHistory(values, value, keep)) \in {keep, Len(values) + 1}
         /\ \A k \in 1..Len(CommitHistory(values, value, keep)) :
              CommitHistory(values, value, keep)[k] = IF k = 1 THEN value ELSE values[k - 1]
<1> DEFINE long == <<value>> \o values
           n == IF keep < Len(long) THEN keep ELSE Len(long)
<1>1. <<value>> \in Seq(S) /\ Len(<<value>>) = 1 /\ <<value>>[1] = value
  OBVIOUS
<1>2. /\ long \in Seq(S) /\ Len(long) = Len(values) + 1
      /\ \A k \in 1..Len(values) + 1 : long[k] = IF k = 1 THEN value ELSE values[k - 1]
  BY <1>1, ConcatProperties
<1>3. n \in Nat /\ n <= Len(long)
  BY <1>2
<1>4. \A k \in 1..n : long[k] \in S
  BY <1>2, <1>3, ElementOfSeq
<1> HIDE DEF long, n
<1>5. /\ SubSeq(long, 1, n) \in Seq(S) /\ Len(SubSeq(long, 1, n)) = n
      /\ \A k \in 1..n : SubSeq(long, 1, n)[k] = long[k]
  BY <1>3, <1>4, SubSeqProperties
<1>6. CommitHistory(values, value, keep) = SubSeq(long, 1, n)
  BY DEF CommitHistory, long, n
<1> QED
  BY <1>2, <1>3, <1>5, <1>6 DEF n

LEMMA NewestFirst ==
  ASSUME NEW S, NEW values \in Seq(S), NEW value \in S, NEW keep \in Nat, keep >= 1
  PROVE  /\ CommitHistory(values, value, keep) # <<>>
         /\ Head(CommitHistory(values, value, keep)) = value
<1> DEFINE all == CommitHistory(values, value, keep)
<1>1. Len(values) \in Nat
  OBVIOUS
<1>2. all \in Seq(S) /\ Len(all) \in {keep, Len(values) + 1}
  BY CommitHistoryProperties
<1>3. \A k \in 1..Len(all) : all[k] = IF k = 1 THEN value ELSE values[k - 1]
  BY CommitHistoryProperties
<1> HIDE DEF all
<1>4. Len(all) >= 1
  BY <1>1, <1>2
<1>5. all[1] = value
  BY <1>2, <1>3, <1>4
<1>6. all # <<>> /\ Head(all) = all[1]
  BY <1>2, <1>4
<1> QED
  BY <1>5, <1>6 DEF all

LEMMA KeepIsNat ==
  ASSUME NEW l \in Locals
  PROVE  Keep(l) \in Nat /\ Depth[l] \in Nat /\ (Persistent(l) => Keep(l) >= 1)
BY ContextAssumption DEF Keep

-----------------------------------------------------------------------------
(***************************************************************************)
(* Closures.                                                               *)
(***************************************************************************)

(* Closure(heap, S) is the least set with S and what it points to.         *)
LEMMA ClosureIsLeast ==
  ASSUME NEW heap, NEW S, S \subseteq Objects
  PROVE  /\ Closure(heap, S) \subseteq Objects
         /\ S \subseteq Closure(heap, S)
         /\ Pointed(heap, Closure(heap, S)) \subseteq Closure(heap, S)
         /\ \A T \in SUBSET Objects :
              S \subseteq T /\ Pointed(heap, T) \subseteq T => Closure(heap, S) \subseteq T
<1>1. Closure(heap, S) \subseteq Objects /\ S \subseteq Closure(heap, S)
  BY DEF Closure
<1>2. \A T \in SUBSET Objects :
        S \subseteq T /\ Pointed(heap, T) \subseteq T => Closure(heap, S) \subseteq T
  BY DEF Closure
<1>3. ASSUME NEW o \in Pointed(heap, Closure(heap, S))
      PROVE  o \in Closure(heap, S)
  <2>1. PICK p \in Closure(heap, S) : o = heap[p] /\ o \in Objects
    BY DEF Pointed
  <2>2. ASSUME NEW T \in SUBSET Objects, S \subseteq T, Pointed(heap, T) \subseteq T
        PROVE  o \in T
    <3>1. p \in T
      BY <1>2, <2>1, <2>2
    <3> QED
      BY <2>1, <2>2, <3>1 DEF Pointed
  <2> QED
    BY <2>1, <2>2 DEF Closure
<1> QED
  BY <1>1, <1>2, <1>3

(* A whole heap holds what its live objects lead to.                       *)
LEMMA WholeIsClosed ==
  ASSUME NEW heap, Whole(heap), NEW S, S \subseteq LiveIn(heap)
  PROVE  Closure(heap, S) \subseteq LiveIn(heap)
<1>1. LiveIn(heap) \in SUBSET Objects /\ S \subseteq Objects
  BY DEF LiveIn
<1>2. Pointed(heap, LiveIn(heap)) \subseteq LiveIn(heap)
  BY ContextAssumption DEF Whole, Pointed
<1> QED
  BY <1>1, <1>2, ClosureIsLeast

-----------------------------------------------------------------------------
(***************************************************************************)
(* Types of what an attempt reads.                                         *)
(***************************************************************************)

LEMMA Reads ==
  ASSUME ContextTypeOK, NEW l \in Locals
  PROVE  /\ StartValue(l) \in Val
         /\ CurrentValue(l) \in Val
         /\ Initialized(l) \in BOOLEAN
         /\ InitialValue(l) \in Val \cup {None}
<1>1. carried[l] # None => carried[l].value \in Val /\ carried[l].initialized \in BOOLEAN
  BY DEF ContextTypeOK, Carry
<1>2. writes[l] # None => /\ writes[l].value \in Val /\ writes[l].initialized \in BOOLEAN
                          /\ writes[l].first \in Val \cup {None}
  BY DEF ContextTypeOK, LocalWrite
<1>3. history[l] \in Seq(Val) /\ initialized[l] \in BOOLEAN
  BY DEF ContextTypeOK
<1>4. history[l] # <<>> => Head(history[l]) \in Val
  BY <1>3, HeadTailProperties
<1>5. Empty \in Val
  BY ContextAssumption DEF Val
<1>6. StartValue(l) \in Val
  BY <1>1, <1>4, <1>5 DEF StartValue
<1> QED
  BY <1>1, <1>2, <1>3, <1>6 DEF CurrentValue, Initialized, InitialValue, Persistent

LEMMA OperandType ==
  ASSUME ContextTypeOK
  PROVE  Held \subseteq Objects /\ Operand \subseteq Val
<1>1. Held \subseteq Objects
  BY DEF Held, Closure
<1> QED
  BY <1>1 DEF Operand, Val

-----------------------------------------------------------------------------
(***************************************************************************)
(* What an attempt can hold is in its view.                                *)
(***************************************************************************)

LEMMA RootsAreLive ==
  ASSUME ContextTypeOK, NEW heap, RootsLive(heap)
  PROVE  DiscoverRoots \subseteq LiveIn(heap)
<1>1. \A v \in InHistories \cup InInputs \cup InCarried : v \in Plain \cup LiveIn(heap)
  BY DEF RootsLive, InHistories, InInputs, InCarried
<1> QED
  BY <1>1, ContextAssumption DEF DiscoverRoots

LEMMA ReadsLive ==
  ASSUME RetainInv, running, NEW l \in Locals
  PROVE  /\ StartValue(l) \in Plain \cup LiveIn(view)
         /\ CurrentValue(l) \in Plain \cup LiveIn(view)
         /\ InitialValue(l) \in Plain \cup LiveIn(view) \cup {None}
<1>1. carried[l] # None => carried[l].value \in Plain \cup LiveIn(view)
  BY DEF RetainInv, RootsLive
<1>2. history[l] # <<>> => Head(history[l]) \in Plain \cup LiveIn(view)
  <2>1. history[l] \in Seq(Val)
    BY DEF RetainInv, ContextTypeOK
  <2>2. history[l] # <<>> => 1 \in 1..Len(history[l]) /\ Head(history[l]) = history[l][1]
    BY <2>1
  <2> QED
    BY <2>2 DEF RetainInv, RootsLive
<1>3. writes[l] # None => /\ writes[l].value \in Plain \cup LiveIn(view)
                          /\ writes[l].first \in Plain \cup LiveIn(view) \cup {None}
  BY DEF RetainInv, WritesLive
<1>4. Empty \in Plain
  BY ContextAssumption
<1>5. StartValue(l) \in Plain \cup LiveIn(view)
  BY <1>1, <1>2, <1>4 DEF StartValue
<1> QED
  BY <1>1, <1>3, <1>5 DEF CurrentValue, InitialValue

LEMMA HeldIsLive ==
  ASSUME RetainInv, running
  PROVE  Held \subseteq LiveIn(view) /\ Operand \subseteq Plain \cup LiveIn(view)
<1> DEFINE direct == {CurrentValue(l) : l \in {m \in Locals : FrameOf[m] \in called}}
                       \cup InHistories \cup InInputs \cup {input[i] : i \in Inputs}
                       \cup {o \in Objects : view[o] # Gone /\ objects[o] = Gone}
<1>1. \A v \in InHistories \cup InInputs : v \in Plain \cup LiveIn(view)
  BY DEF RetainInv, RootsLive, InHistories, InInputs
<1>2. \A l \in Locals : CurrentValue(l) \in Plain \cup LiveIn(view)
  BY ReadsLive
<1>3. \A i \in Inputs : input[i] \in Plain \cup LiveIn(view)
  BY DEF RetainInv, InputsLive
<1>4. direct \cap Objects \subseteq LiveIn(view)
  BY <1>1, <1>2, <1>3, ContextAssumption DEF LiveIn
<1>5. Whole(view)
  BY DEF RetainInv
<1>6. Closure(view, direct \cap Objects) \subseteq LiveIn(view)
  BY <1>4, <1>5, WholeIsClosed
<1>7. Held = Closure(view, direct \cap Objects)
  BY DEF Held
<1> QED
  BY <1>6, <1>7 DEF Operand

LEMMA RetainInit == ContextInit => RetainInv
<1> SUFFICES ASSUME ContextInit PROVE RetainInv
  OBVIOUS
<1>1. ContextTypeOK
  <2>1. Empty \in Val /\ Root \in Frames /\ <<>> \in Seq(Val)
        /\ 0 \in 0..MaxObjects /\ 0 \in 0..MaxAttempts
    BY ContextAssumption DEF Val
  <2>2. history \in [Locals -> Seq(Val)] /\ inputHistory \in [Inputs -> Seq(Val)]
    BY <2>1 DEF ContextInit
  <2> QED
    BY <2>1, <2>2 DEF ContextInit, ContextTypeOK, NothingWritten
<1>2. LiveIn(objects) = {}
  BY DEF ContextInit, LiveIn
<1>3. /\ \A l \in Locals : Len(history[l]) = 0 /\ carried[l] = None
      /\ \A i \in Inputs : Len(inputHistory[i]) = 0
  BY DEF ContextInit
<1>4. RootsLive(objects)
  BY <1>3 DEF RootsLive
<1> QED
  BY <1>1, <1>2, <1>4 DEF ContextInit, RetainInv, Whole

-----------------------------------------------------------------------------
(***************************************************************************)
(* main's operations.                                                      *)
(***************************************************************************)

LEMMA CallRetains ==
  ASSUME RetainInv, NEW f \in Frames, Call(f)
  PROVE  RetainInv'
<1>1. ContextTypeOK'
  BY DEF RetainInv, ContextTypeOK, Call, Operate, committed, intermediate
<1> QED
  BY <1>1 DEF RetainInv, Call, Operate, committed, intermediate, Whole, RootsLive, WritesLive,
              InputsLive, LiveIn

(* An assignment, of the row or of the initializer, by what main holds.    *)
LEMMA AssignRetains ==
  ASSUME RetainInv, NEW l \in Locals, NEW v \in Operand, WriteLocal(l, v) \/ Initialize(l, v)
  PROVE  RetainInv'
<1>1. running /\ v \in Val /\ v \in Plain \cup LiveIn(view)
  BY OperandType, HeldIsLive DEF RetainInv, WriteLocal, Initialize, Operate
<1>2. PICK w \in LocalWrite :
        /\ writes' = [writes EXCEPT ![l] = w] /\ w.value = v
        /\ w.first \in Plain \cup LiveIn(view) \cup {None}
  <2>1. CASE WriteLocal(l, v)
    <3> DEFINE w == [value |-> v, initialized |-> Initialized(l), first |-> InitialValue(l)]
    <3>1. w \in LocalWrite /\ w.first \in Plain \cup LiveIn(view) \cup {None}
      BY <1>1, Reads, ReadsLive DEF LocalWrite, RetainInv
    <3> QED
      BY <2>1, <3>1 DEF WriteLocal
  <2>2. CASE Initialize(l, v)
    <3> DEFINE w == [value |-> v, initialized |-> TRUE,
                     first |-> IF Storage[l] = "var" /\ ~initialized[l] THEN v ELSE None]
    <3>1. w \in LocalWrite /\ w.first \in Plain \cup LiveIn(view) \cup {None}
      BY <1>1 DEF LocalWrite
    <3> QED
      BY <2>2, <3>1 DEF Initialize
  <2> QED
    BY <2>1, <2>2
<1>3. /\ UNCHANGED <<committed, intermediate, objects, allocated, running, provisional,
                      input, called, view, attempts, over>>
      /\ ops' = ops + 1
  BY DEF WriteLocal, Initialize, Operate
<1>4. ContextTypeOK'
  BY <1>2, <1>3 DEF RetainInv, ContextTypeOK, committed, intermediate
<1>5. WritesLive'
  BY <1>1, <1>2, <1>3 DEF RetainInv, ContextTypeOK, WritesLive, LiveIn
<1> QED
  BY <1>3, <1>4, <1>5 DEF RetainInv, committed, intermediate, Whole, RootsLive, InputsLive,
                          LiveIn

(* What is live in the view stays live when an object is made or assigned. *)
LEMMA ViewGrows ==
  ASSUME RetainInv, running, NEW o \in Objects, NEW v \in Operand,
         view' = [view EXCEPT ![o] = v],
         UNCHANGED <<committed, intermediate, objects, running, provisional, input, called,
                     writes, attempts, over>>,
         allocated' \in 0..MaxObjects, ops' = ops + 1
  PROVE  RetainInv'
<1>1. v \in Val /\ v \in Plain \cup LiveIn(view) /\ v # Gone
  BY OperandType, HeldIsLive, ContextAssumption DEF RetainInv
<1>2. view \in [Objects -> Val \cup {Gone}]
  BY DEF RetainInv, ContextTypeOK
<1>3. LiveIn(view') = LiveIn(view) \cup {o}
  BY <1>1, <1>2 DEF LiveIn
<1>4. ContextTypeOK'
  BY <1>1, <1>2 DEF RetainInv, ContextTypeOK, committed, intermediate
<1>5. Whole(view')
  BY <1>1, <1>2, <1>3 DEF RetainInv, Whole, LiveIn
<1>6. WritesLive' /\ InputsLive'
  BY <1>3 DEF RetainInv, WritesLive, InputsLive
<1>7. Whole(objects)' /\ RootsLive(objects)' /\ LiveIn(objects)' = LiveIn(objects)
  BY DEF RetainInv, Whole, RootsLive, LiveIn, committed, intermediate
<1> QED
  BY <1>3, <1>4, <1>5, <1>6, <1>7 DEF RetainInv

LEMMA NewStructRetains ==
  ASSUME RetainInv, NEW v \in Operand, NewStruct(v)
  PROVE  RetainInv'
<1>1. running /\ allocated + 1 \in Objects /\ allocated' \in 0..MaxObjects
  BY ContextAssumption DEF RetainInv, ContextTypeOK, NewStruct, Operate, Objects
<1> QED
  BY <1>1, ViewGrows DEF NewStruct, Operate

LEMMA StoreFieldRetains ==
  ASSUME RetainInv, NEW o \in Held, NEW v \in Operand, StoreField(o, v)
  PROVE  RetainInv'
<1>1. running /\ o \in Objects /\ allocated' \in 0..MaxObjects
  BY OperandType DEF RetainInv, ContextTypeOK, StoreField, Operate
<1> QED
  BY <1>1, ViewGrows DEF StoreField, Operate

-----------------------------------------------------------------------------
(***************************************************************************)
(* The ends of an attempt.                                                 *)
(***************************************************************************)

(* A collection from the roots leaves a whole heap with the roots in it.   *)
LEMMA SweptIsWhole ==
  ASSUME RetainInv, ~over
  PROVE  /\ Swept \in [Objects -> Val \cup {Gone}]
         /\ Whole(Swept) /\ RootsLive(Swept)
<1> DEFINE kept == Closure(objects, DiscoverRoots)
<1>1. ContextTypeOK /\ Whole(objects) /\ RootsLive(objects)
  BY DEF RetainInv
<1>2. DiscoverRoots \subseteq Objects /\ DiscoverRoots \subseteq LiveIn(objects)
  BY <1>1, RootsAreLive DEF DiscoverRoots
<1>3. /\ kept \subseteq LiveIn(objects) /\ DiscoverRoots \subseteq kept
      /\ Pointed(objects, kept) \subseteq kept
  BY <1>1, <1>2, WholeIsClosed, ClosureIsLeast
<1>4. Swept = [o \in Objects |-> IF o \in kept THEN objects[o] ELSE Gone]
  BY DEF Swept
<1> HIDE DEF kept
<1>5. objects \in [Objects -> Val \cup {Gone}]
  BY <1>1 DEF ContextTypeOK
<1>6. Swept \in [Objects -> Val \cup {Gone}] /\ LiveIn(Swept) = kept
  BY <1>3, <1>4, <1>5 DEF LiveIn
<1>7. Whole(Swept)
  <2> SUFFICES ASSUME NEW o \in kept PROVE Swept[o] \in Plain \cup kept
    BY <1>6 DEF Whole
  <2>1. o \in Objects /\ Swept[o] = objects[o] /\ objects[o] \in Val
    BY <1>3, <1>4, <1>5 DEF LiveIn
  <2> QED
    BY <2>1, <1>3 DEF Pointed, Val
<1>8. RootsLive(Swept)
  <2>1. \A v \in Val : v \in InHistories \cup InInputs \cup InCarried => v \in Plain \cup kept
    BY <1>3 DEF DiscoverRoots, Val
  <2>2. ASSUME NEW l \in Locals, NEW k \in 1..Len(history[l])
        PROVE  history[l][k] \in Plain \cup kept
    <3>1. history[l] \in Seq(Val)
      BY <1>1 DEF ContextTypeOK
    <3>2. history[l][k] \in Val /\ history[l][k] \in InHistories
      BY <3>1, ElementOfSeq DEF InHistories
    <3> QED
      BY <2>1, <3>2
  <2>3. ASSUME NEW i \in Inputs, NEW k \in 1..Len(inputHistory[i])
        PROVE  inputHistory[i][k] \in Plain \cup kept
    <3>1. inputHistory[i] \in Seq(Val)
      BY <1>1 DEF ContextTypeOK
    <3>2. inputHistory[i][k] \in Val /\ inputHistory[i][k] \in InInputs
      BY <3>1, ElementOfSeq DEF InInputs
    <3> QED
      BY <2>1, <3>2
  <2>4. ASSUME NEW l \in Locals, carried[l] # None
        PROVE  carried[l].value \in Plain \cup kept
    <3>1. carried[l].value \in Val /\ carried[l].value \in InCarried
      BY <1>1, <2>4 DEF ContextTypeOK, Carry, InCarried
    <3> QED
      BY <2>1, <3>1
  <2> QED
    BY <1>6, <2>2, <2>3, <2>4 DEF RootsLive
<1> QED
  BY <1>6, <1>7, <1>8

LEMMA CollectedCounts ==
  ASSUME ContextTypeOK
  PROVE  Cardinality(collected) \in Nat
<1>1. collected \in SUBSET Inputs
  BY DEF ContextTypeOK
<1>2. IsFiniteSet(collected)
  BY <1>1, ContextAssumption, FS_Subset
<1> QED
  BY <1>2, FS_CardinalityType

LEMMA StepRetains ==
  ASSUME RetainInv, NEW p \in BOOLEAN, NEW in \in [Inputs -> Plain], Step(p, in)
  PROVE  RetainInv'
<1> DEFINE n == Cardinality(collected)
<1>1. n \in Nat /\ allocated \in Nat /\ allocated + n <= MaxObjects /\ MaxObjects \in Nat
  BY CollectedCounts, ContextAssumption DEF RetainInv, ContextTypeOK, Step
<1>2. /\ ContextTypeOK /\ ~over /\ attempts < MaxAttempts
      /\ Swept \in [Objects -> Val \cup {Gone}] /\ Whole(Swept) /\ RootsLive(Swept)
  BY SweptIsWhole DEF RetainInv, Step
<1>3. /\ running' = TRUE /\ provisional' = p /\ called' = {Root} /\ writes' = NothingWritten
      /\ ops' = n /\ attempts' = attempts + 1 /\ objects' = Swept /\ allocated' = allocated + n
      /\ UNCHANGED <<committed, intermediate, over>>
  BY DEF Step
<1> HIDE DEF n
<1>4. PICK array \in [collected -> (allocated + 1)..(allocated + n)] :
        /\ input' = [i \in Inputs |-> IF i \in collected THEN array[i] ELSE in[i]]
        /\ view' = [o \in Objects |-> IF \E i \in collected : array[i] = o
                                     THEN in[CHOOSE i \in collected : array[i] = o]
                                     ELSE Swept[o]]
  BY DEF Step, n
<1>5. collected \subseteq Inputs /\ \A i \in collected : array[i] \in Objects
  BY <1>1, <1>2 DEF ContextTypeOK, Objects
<1> DEFINE A == {array[i] : i \in collected}
<1>6. /\ A \subseteq Objects /\ \A i \in collected : array[i] \in A
      /\ \A o \in A : view'[o] \in Plain
      /\ \A o \in Objects \ A : view'[o] = Swept[o]
      /\ view' = [o \in Objects |-> view'[o]]
  <2>1. ASSUME NEW o \in A PROVE view'[o] \in Plain
    <3>1. (CHOOSE i \in collected : array[i] = o) \in Inputs
      BY <1>5
    <3> QED
      BY <1>4, <1>5, <3>1
  <2> QED
    BY <1>4, <1>5, <2>1
<1>7. Plain \subseteq Val /\ Gone \notin Val
  BY ContextAssumption DEF Val
<1> HIDE DEF A
<1>8. view' \in [Objects -> Val \cup {Gone}]
  <2>1. \A o \in Objects : view'[o] \in Val \cup {Gone}
    BY <1>2, <1>6, <1>7
  <2> DEFINE g == view'
  <2>2. g = [o \in Objects |-> g[o]] /\ \A o \in Objects : g[o] \in Val \cup {Gone}
    BY <1>6, <2>1
  <2> HIDE DEF g
  <2>3. g \in [Objects -> Val \cup {Gone}]
    BY <2>2
  <2> QED
    BY <2>3 DEF g
<1>9. LiveIn(view') = LiveIn(Swept) \cup A
  BY <1>6, <1>7 DEF LiveIn
<1>10. input' \in [Inputs -> Val] /\ InputsLive'
  BY <1>4, <1>5, <1>6, <1>7, <1>9 DEF InputsLive, Val
<1>11. Whole(view')
  <2> SUFFICES ASSUME NEW o \in LiveIn(view')
               PROVE  view'[o] \in Plain \cup LiveIn(view')
    BY DEF Whole
  <2>1. o \notin A => o \in LiveIn(Swept) /\ view'[o] = Swept[o]
    BY <1>6, <1>9 DEF LiveIn
  <2>2. o \in LiveIn(Swept) => Swept[o] \in Plain \cup LiveIn(Swept)
    BY <1>2 DEF Whole
  <2> QED
    BY <1>6, <1>9, <2>1, <2>2
<1>12. RootsLive(objects)' /\ Whole(objects)'
  BY <1>2, <1>3 DEF RootsLive, Whole, LiveIn, committed, intermediate
<1>13. WritesLive'
  BY <1>3 DEF WritesLive, NothingWritten
<1>14. ContextTypeOK'
  BY <1>1, <1>2, <1>3, <1>8, <1>10, ContextAssumption
     DEF ContextTypeOK, committed, intermediate, NothingWritten
<1> QED
  BY <1>2, <1>3, <1>9, <1>10, <1>11, <1>12, <1>13, <1>14 DEF RetainInv

LEMMA RefusedRetains ==
  ASSUME RetainInv, Refused
  PROVE  RetainInv'
<1>1. ContextTypeOK /\ ~over /\ ~running /\ running' = running /\ over' = over
      /\ UNCHANGED <<committed, intermediate, allocated, attempt>>
      /\ attempts < MaxAttempts /\ attempts' = attempts + 1
  BY DEF RetainInv, Refused, attempt
<1>2. /\ objects' \in [Objects -> Val \cup {Gone}]
      /\ Whole(objects') /\ RootsLive(objects')
  BY SweptIsWhole DEF RetainInv, ContextTypeOK, Refused
<1>3. ContextTypeOK'
  BY <1>1, <1>2, ContextAssumption DEF ContextTypeOK, committed, intermediate, attempt
<1>4. RootsLive(objects)'
  BY <1>1, <1>2 DEF RootsLive, committed, intermediate
<1>5. Whole(objects)'
  BY <1>2 DEF Whole, LiveIn
<1> QED
  BY <1>1, <1>3, <1>4, <1>5 DEF RetainInv

LEMMA EndAttemptType ==
  ASSUME ContextTypeOK, EndAttempt
  PROVE  /\ running' = FALSE /\ provisional' \in BOOLEAN
         /\ input' \in [Inputs -> Val] /\ called' \subseteq Frames
         /\ writes' \in [Locals -> LocalWrite \cup {None}]
         /\ view' \in [Objects -> Val \cup {Gone}] /\ ops' \in Nat
BY ContextAssumption DEF EndAttempt, NothingWritten, Val

LEMMA ThrowRetains ==
  ASSUME RetainInv, Throw
  PROVE  RetainInv'
<1>1. /\ ContextTypeOK /\ EndAttempt
      /\ UNCHANGED <<committed, intermediate, objects, allocated, attempts, over>>
  BY DEF RetainInv, Throw
<1>2. ContextTypeOK' /\ running' = FALSE
  BY <1>1, EndAttemptType DEF ContextTypeOK, committed, intermediate
<1> QED
  BY <1>1, <1>2 DEF RetainInv, Whole, RootsLive, LiveIn, committed, intermediate

LEMMA DisposeRetains ==
  ASSUME RetainInv, DisposeContext
  PROVE  RetainInv'
<1>1. ContextTypeOK'
  BY DEF RetainInv, ContextTypeOK, DisposeContext, committed, intermediate, attempt
<1> QED
  BY <1>1 DEF RetainInv, DisposeContext, attempt

(* What finishRoot writes into a history was held. *)
LEMMA HistoryLive ==
  ASSUME NEW values \in Seq(Val), NEW value \in Val, NEW keep \in Nat, NEW L,
         value \in L, \A k \in 1..Len(values) : values[k] \in L
  PROVE  /\ CommitHistory(values, value, keep) \in Seq(Val)
         /\ \A k \in 1..Len(CommitHistory(values, value, keep)) :
              CommitHistory(values, value, keep)[k] \in L
<1> DEFINE all == CommitHistory(values, value, keep)
<1>1. /\ all \in Seq(Val) /\ Len(all) \in Nat /\ Len(all) <= Len(values) + 1
      /\ \A k \in 1..Len(all) : all[k] = IF k = 1 THEN value ELSE values[k - 1]
  <2>1. all \in Seq(Val) /\ Len(all) <= Len(values) + 1
    BY CommitHistoryProperties
  <2>2. \A k \in 1..Len(all) : all[k] = IF k = 1 THEN value ELSE values[k - 1]
    BY CommitHistoryProperties
  <2> QED
    BY <2>1, <2>2
<1> HIDE DEF all
<1>2. ASSUME NEW k \in 1..Len(all) PROVE all[k] \in L
  <2>1. k # 1 => k - 1 \in 1..Len(values)
    BY <1>1
  <2> QED
    BY <1>1, <2>1
<1> QED
  BY <1>1, <1>2 DEF all

LEMMA CarryNextLive ==
  ASSUME RetainInv, running, NEW l \in Locals
  PROVE  /\ CarryNext(l) \in Carry \cup {None}
         /\ CarryNext(l) # None => CarryNext(l).value \in Plain \cup LiveIn(view)
<1>1. ContextTypeOK
  BY DEF RetainInv
<1>2. /\ CurrentValue(l) \in Val /\ Initialized(l) \in BOOLEAN
      /\ InitialValue(l) # None => InitialValue(l) \in Val
  BY <1>1, Reads
<1> QED
  BY <1>2, ReadsLive DEF CarryNext, Carry

LEMMA ReturnRetains ==
  ASSUME RetainInv, Return
  PROVE  RetainInv'
<1>1. /\ ContextTypeOK /\ running /\ EndAttempt /\ objects' = view
      /\ carriedActive' = carriedActive \cup Advancing
      /\ carried' = [l \in Locals |->
           IF FrameOf[l] \in Advancing THEN CarryNext(l) ELSE carried[l]]
      /\ UNCHANGED <<allocated, attempts, over, collected>>
      /\ ~over /\ Whole(view) /\ LiveIn(objects) \subseteq LiveIn(view) /\ InputsLive
  BY DEF RetainInv, Return, committed
<1> DEFINE L == Plain \cup LiveIn(view)
<1>2. /\ \A l \in Locals : history[l] \in Seq(Val) /\ \A k \in 1..Len(history[l]) : history[l][k] \in L
      /\ \A i \in Inputs : /\ inputHistory[i] \in Seq(Val)
                          /\ \A k \in 1..Len(inputHistory[i]) : inputHistory[i][k] \in L
      /\ \A l \in Locals : carried[l] # None => carried[l].value \in L
  BY <1>1 DEF RetainInv, RootsLive, ContextTypeOK
<1>3. /\ carried' \in [Locals -> Carry \cup {None}]
      /\ \A l \in Locals : carried'[l] # None => carried'[l].value \in L
  BY <1>1, <1>2, CarryNextLive DEF ContextTypeOK
<1>4. \A l \in Locals : CurrentValue(l) \in L /\ CurrentValue(l) \in Val /\ Initialized(l) \in BOOLEAN
  BY <1>1, ReadsLive, Reads
<1>5. \A i \in Inputs : input[i] \in L /\ input[i] \in Val /\ InputDepth[i] \in Nat
  BY <1>1, ContextAssumption DEF ContextTypeOK, InputsLive
<1>6. /\ history' \in [Locals -> Seq(Val)]
      /\ \A l \in Locals : \A k \in 1..Len(history'[l]) : history'[l][k] \in L
      /\ inputHistory' \in [Inputs -> Seq(Val)]
      /\ \A i \in Inputs : \A k \in 1..Len(inputHistory'[i]) : inputHistory'[i][k] \in L
      /\ initialized' \in [Locals -> BOOLEAN] /\ active' \subseteq Frames
  <2>1. CASE provisional
    BY <1>1, <1>2, <2>1 DEF Return, committed, ContextTypeOK
  <2>2. CASE ~provisional
    <3>1. CommitRow
      BY <2>2 DEF Return
    <3> DEFINE H(l) == CommitHistory(history[l], CurrentValue(l), Keep(l))
               J(i) == CommitHistory(inputHistory[i], input[i], InputDepth[i])
    <3>2. \A l \in Locals : H(l) \in Seq(Val) /\ \A k \in 1..Len(H(l)) : H(l)[k] \in L
      <4> SUFFICES ASSUME NEW l \in Locals
                   PROVE  H(l) \in Seq(Val) /\ \A k \in 1..Len(H(l)) : H(l)[k] \in L
        OBVIOUS
      <4> HIDE DEF L
      <4> QED
        BY <1>2, <1>4, KeepIsNat, HistoryLive
    <3>3. \A i \in Inputs : J(i) \in Seq(Val) /\ \A k \in 1..Len(J(i)) : J(i)[k] \in L
      <4> SUFFICES ASSUME NEW i \in Inputs
                   PROVE  J(i) \in Seq(Val) /\ \A k \in 1..Len(J(i)) : J(i)[k] \in L
        OBVIOUS
      <4> HIDE DEF L
      <4> QED
        BY <1>2, <1>5, HistoryLive
    <3>4. /\ history' = [l \in Locals |-> IF FrameOf[l] \in Advancing THEN H(l) ELSE history[l]]
          /\ inputHistory' = [i \in Inputs |-> J(i)]
      BY <3>1 DEF CommitRow
    <3> HIDE DEF H, J, L
    <3>5. initialized' \in [Locals -> BOOLEAN] /\ active' \subseteq Frames
      BY <1>1, <1>4, <3>1 DEF CommitRow, ContextTypeOK, Advancing, Persistent
    <3> QED
      BY <1>2, <3>2, <3>3, <3>4, <3>5
  <2> QED
    BY <2>1, <2>2
<1>7. view' \in [Objects -> Val \cup {Gone}] /\ running' = FALSE
  BY <1>1, EndAttemptType
<1>8. ContextTypeOK'
  BY <1>1, <1>3, <1>6, EndAttemptType DEF ContextTypeOK, Advancing
<1>9. RootsLive(objects)'
  BY <1>1, <1>3, <1>6 DEF RootsLive
<1> QED
  BY <1>1, <1>7, <1>8, <1>9 DEF RetainInv, Whole, LiveIn

-----------------------------------------------------------------------------

LEMMA RetainNext == RetainInv /\ [ContextNext]_contextVars => RetainInv'
<1> SUFFICES ASSUME RetainInv, [ContextNext]_contextVars PROVE RetainInv'
  OBVIOUS
<1>1. ASSUME NEW p \in BOOLEAN, NEW in \in [Inputs -> Plain], Step(p, in) PROVE RetainInv'
  BY <1>1, StepRetains
<1>2. CASE Refused
  BY <1>2, RefusedRetains
<1>3. ASSUME NEW f \in Frames, Call(f) PROVE RetainInv'
  BY <1>3, CallRetains
<1>4. ASSUME NEW l \in Locals, NEW v \in Operand, WriteLocal(l, v) \/ Initialize(l, v)
      PROVE  RetainInv'
  BY <1>4, AssignRetains
<1>5. ASSUME NEW v \in Operand, NewStruct(v) PROVE RetainInv'
  BY <1>5, NewStructRetains
<1>6. ASSUME NEW o \in Held, NEW v \in Operand, StoreField(o, v) PROVE RetainInv'
  BY <1>6, StoreFieldRetains
<1>7. CASE Throw
  BY <1>7, ThrowRetains
<1>8. CASE DisposeContext
  BY <1>8, DisposeRetains
<1>9. CASE Return
  BY <1>9, ReturnRetains
<1>10. CASE UNCHANGED contextVars
  BY <1>10 DEF contextVars, committed, intermediate, attempt, RetainInv, ContextTypeOK, Whole,
               RootsLive, WritesLive, InputsLive, LiveIn
<1> QED
  BY <1>1, <1>2, <1>3, <1>4, <1>5, <1>6, <1>7, <1>8, <1>9, <1>10 DEF ContextNext, Quiet

LEMMA RetainedHolds ==
  ASSUME RetainInv
  PROVE  RetainedLive
<1>1. ~over => Closure(objects, DiscoverRoots) \subseteq LiveIn(objects)
  BY RootsAreLive, WholeIsClosed DEF RetainInv
<1> QED
  BY <1>1, HeldIsLive DEF RetainedLive

(* Whatever sequence of provisional, final, failed and refused attempts an *)
(* execution makes, every object its histories, carried values, inputs or  *)
(* running attempt lead to is in the heap (discoverRoots, Step.run).       *)
THEOREM Retained == ContextSpec => []RetainedLive
<1>1. RetainInv => RetainedLive
  BY RetainedHolds
<1> QED
  BY RetainInit, RetainNext, <1>1, PTL DEF ContextSpec

-----------------------------------------------------------------------------
(***************************************************************************)
(* The rows.  Between attempts the committed and the carried state agree   *)
(* with the logs; within one, the write set holds what they do not tell.   *)
(***************************************************************************)

LogsTyped ==
  /\ alive \subseteq Frames
  /\ log \in [Locals -> Seq(Val)] /\ inputLog \in [Inputs -> Seq(Val)]
  /\ latest \in [Locals -> Val \cup {None}] /\ first \in [Locals -> Val \cup {None}]

HistoriesAgree ==
  /\ \A l \in Locals : history[l] = Newest(log[l], Keep(l))
  /\ \A i \in Inputs : inputHistory[i] = Newest(inputLog[i], InputDepth[i])

(* Whether an attempt finds a binding initialized. *)
StartsInitialized(l) == IF carried[l] # None THEN carried[l].initialized ELSE initialized[l]

(* A var is carried only with its initializer, and its assignments count   *)
(* only in rows that initialized it.                                       *)
StartsAgree ==
  \A l \in Locals : Persistent(l) =>
    /\ StartValue(l) = Kept(l, latest, first)
    /\ StartsInitialized(l) <=> first[l] # None
    /\ Storage[l] = "var" =>
         /\ carried[l] # None => carried[l].initialized
         /\ latest[l] # None => initialized[l]

Settled == LogsTyped /\ FramesAgree /\ HistoriesAgree /\ StartsAgree

InitializerOf(l) == IF inits[l] # None THEN inits[l] ELSE first[l]

(* A write to a persistent binding is past its initializer, which the      *)
(* attempt ran or an accepted one did, and remembers it until a row has    *)
(* committed it.                                                           *)
WrittenAgree ==
  /\ inits \in [Locals -> Val \cup {None}]
  /\ \A l \in Locals : inits[l] # None => Persistent(l) /\ writes[l] # None /\ first[l] = None
  /\ \A l \in Locals : writes[l] # None =>
       /\ FrameOf[l] \in called
       /\ Persistent(l) => writes[l].initialized /\ InitializerOf(l) # None
       /\ (Storage[l] = "var" /\ ~initialized[l]) => writes[l].first = InitializerOf(l)

AttemptAgrees ==
  /\ running => Root \in called /\ \A f \in called : Above[f] \subseteq called
  /\ ~running => writes = NothingWritten
  /\ WrittenAgree

RowsInv == RetainInv /\ Settled /\ AttemptAgrees

-----------------------------------------------------------------------------

LEMMA NewestProperties ==
  ASSUME NEW S, NEW entries \in Seq(S), NEW n \in Nat
  PROVE  /\ Newest(entries, n) \in Seq(S)
         /\ Len(Newest(entries, n)) <= Len(entries)
         /\ Len(Newest(entries, n)) <= n
         /\ Len(Newest(entries, n)) \in {n, Len(entries)}
         /\ \A k \in 1..Len(Newest(entries, n)) : Newest(entries, n)[k] = entries[k]
<1> DEFINE m == IF n < Len(entries) THEN n ELSE Len(entries)
<1>1. Len(entries) \in Nat /\ m \in Nat /\ m <= Len(entries) /\ m <= n /\ m \in {n, Len(entries)}
  OBVIOUS
<1>2. \A k \in 1..m : entries[k] \in S
  BY <1>1, ElementOfSeq
<1> HIDE DEF m
<1>3. /\ SubSeq(entries, 1, m) \in Seq(S) /\ Len(SubSeq(entries, 1, m)) = m
      /\ \A k \in 1..m : SubSeq(entries, 1, m)[k] = entries[k]
  BY <1>1, <1>2, SubSeqProperties
<1>4. Newest(entries, n) = SubSeq(entries, 1, m)
  BY DEF Newest, m
<1> QED
  BY <1>1, <1>3, <1>4

(* A history that holds the newest rows still does with a row more.        *)
LEMMA NewestCommitted ==
  ASSUME NEW S, NEW entries \in Seq(S), NEW v \in S, NEW n \in Nat
  PROVE  /\ <<v>> \o entries \in Seq(S)
         /\ CommitHistory(Newest(entries, n), v, n) = Newest(<<v>> \o entries, n)
<1> DEFINE old == Newest(entries, n)
           new == CommitHistory(old, v, n)
           long == <<v>> \o entries
           all == Newest(long, n)
<1>1. <<v>> \in Seq(S) /\ Len(<<v>>) = 1 /\ <<v>>[1] = v
  OBVIOUS
<1>2. /\ long \in Seq(S) /\ Len(long) = Len(entries) + 1
      /\ \A k \in 1..Len(entries) + 1 : long[k] = IF k = 1 THEN v ELSE entries[k - 1]
  BY <1>1, ConcatProperties
<1>3. /\ old \in Seq(S) /\ Len(old) <= Len(entries) /\ Len(old) <= n
      /\ Len(old) \in {n, Len(entries)}
      /\ \A k \in 1..Len(old) : old[k] = entries[k]
  BY NewestProperties
<1> HIDE DEF old, long
<1>4. /\ new \in Seq(S) /\ Len(new) <= Len(old) + 1 /\ Len(new) <= n
      /\ Len(new) \in {n, Len(old) + 1}
      /\ \A k \in 1..Len(new) : new[k] = IF k = 1 THEN v ELSE old[k - 1]
  <2>1. /\ new \in Seq(S) /\ Len(new) <= Len(old) + 1 /\ Len(new) <= n
        /\ Len(new) \in {n, Len(old) + 1}
    BY <1>3, CommitHistoryProperties
  <2>2. \A k \in 1..Len(new) : new[k] = IF k = 1 THEN v ELSE old[k - 1]
    BY <1>3, CommitHistoryProperties
  <2> QED
    BY <2>1, <2>2
<1>5. /\ all \in Seq(S) /\ Len(all) <= Len(long) /\ Len(all) <= n
      /\ Len(all) \in {n, Len(long)}
      /\ \A k \in 1..Len(all) : all[k] = long[k]
  BY <1>2, NewestProperties
<1> HIDE DEF new, all
<1>6. Len(entries) \in Nat /\ Len(old) \in Nat /\ Len(new) \in Nat /\ Len(all) \in Nat
  BY <1>3, <1>4, <1>5
<1>7. Len(new) = Len(all)
  BY <1>2, <1>3, <1>4, <1>5, <1>6
<1>8. ASSUME NEW k \in 1..Len(new) PROVE new[k] = all[k]
  <2>1. k \in 1..Len(all) /\ k \in 1..Len(entries) + 1 /\ (k # 1 => k - 1 \in 1..Len(old))
    BY <1>2, <1>4, <1>5, <1>6, <1>7
  <2> QED
    BY <1>2, <1>3, <1>4, <1>5, <2>1
<1>9. new = all
  BY <1>4, <1>5, <1>7, <1>8, SeqEqual
<1> QED
  BY <1>2, <1>9 DEF new, all, old, long

LEMMA RowsStart == RInit => RowsInv
<1> SUFFICES ASSUME RInit PROVE RowsInv
  OBVIOUS
<1>1. ContextInit /\ RetainInv
  BY RetainInit DEF RInit
<1>2. LogsTyped
  <2>1. <<>> \in Seq(Val)
    OBVIOUS
  <2> QED
    BY <2>1, ContextAssumption DEF RInit, LogsTyped
<1>3. FramesAgree
  BY <1>1, ContextAssumption DEF RInit, ContextInit, FramesAgree
<1>4. HistoriesAgree
  <2>1. \A n \in Nat : Newest(<<>>, n) = <<>>
    <3> SUFFICES ASSUME NEW n \in Nat PROVE Newest(<<>>, n) = <<>>
      OBVIOUS
    <3>1. <<>> \in Seq(Val) /\ Len(<<>>) = 0
      OBVIOUS
    <3>2. Newest(<<>>, n) \in Seq(Val) /\ Len(Newest(<<>>, n)) <= 0
      BY <3>1, NewestProperties
    <3> QED
      BY <3>2, EmptySeq
  <2>2. \A l \in Locals : Keep(l) \in Nat
    BY KeepIsNat
  <2> QED
    BY <1>1, <2>1, <2>2, ContextAssumption DEF RInit, ContextInit, HistoriesAgree
<1>5. StartsAgree
  BY <1>1 DEF RInit, ContextInit, StartsAgree, StartsInitialized, StartValue, Kept
<1>6. AttemptAgrees
  BY <1>1 DEF RInit, ContextInit, AttemptAgrees, WrittenAgree, NothingWritten
<1> QED
  BY <1>1, <1>2, <1>3, <1>4, <1>5, <1>6 DEF RowsInv, Settled

(* What is settled is settled until an attempt is accepted.                *)
LEMMA SettledKept ==
  ASSUME Settled, UNCHANGED <<committed, intermediate, alive, log, inputLog, latest, first>>
  PROVE  Settled'
BY DEF Settled, LogsTyped, FramesAgree, HistoriesAgree, StartsAgree, StartsInitialized,
       StartValue, Kept, committed, intermediate

(* An attempt begins, or ends without being accepted.                      *)
LEMMA AttemptCleared ==
  ASSUME writes' = NothingWritten, inits' = [l \in Locals |-> None],
         running' => called' = {Root}
  PROVE  AttemptAgrees'
<1>1. WrittenAgree'
  BY DEF WrittenAgree, NothingWritten
<1>2. \A f \in {Root} : Above[f] \subseteq {Root}
  BY ContextAssumption
<1> QED
  BY <1>1, <1>2 DEF AttemptAgrees

(* Nothing is initialized outside an attempt.                              *)
LEMMA NoInits ==
  ASSUME AttemptAgrees, ~running
  PROVE  inits = [l \in Locals |-> None]
<1>1. \A l \in Locals : inits[l] = None
  BY DEF AttemptAgrees, WrittenAgree, NothingWritten
<1>2. inits \in [Locals -> Val \cup {None}]
  BY DEF AttemptAgrees, WrittenAgree
<1> QED
  BY <1>1, <1>2

-----------------------------------------------------------------------------
(***************************************************************************)
(* Steps that accept nothing.                                              *)
(***************************************************************************)

QuietRows ==
  /\ inits' = IF running' THEN inits ELSE [l \in Locals |-> None]
  /\ UNCHANGED <<alive, log, inputLog, latest, first>>

LEMMA CallRows ==
  ASSUME RowsInv, NEW f \in Frames, Call(f), QuietRows
  PROVE  AttemptAgrees'
<1>1. running /\ running' = running /\ called' = called \cup {f}
      /\ Above[f] \ {f} \subseteq called /\ writes' = writes /\ inits' = inits
      /\ initialized' = initialized /\ first' = first
  BY DEF Call, Operate, QuietRows, committed
<1>2. WrittenAgree'
  BY <1>1 DEF RowsInv, AttemptAgrees, WrittenAgree, InitializerOf
<1>3. Root \in called' /\ \A g \in called' : Above[g] \subseteq called'
  BY <1>1 DEF RowsInv, AttemptAgrees
<1> QED
  BY <1>1, <1>2, <1>3 DEF AttemptAgrees

(* The initializer of an unwritten var that has run is what it starts from. *)
LEMMA CarriedInitializer ==
  ASSUME RowsInv, NEW l \in Locals, Storage[l] = "var", ~initialized[l], writes[l] = None
  PROVE  /\ inits[l] = None
         /\ Initialized(l) <=> first[l] # None
         /\ InitialValue(l) = first[l]
         /\ StartValue(l) = IF first[l] = None THEN Empty ELSE first[l]
<1>1. Persistent(l)
  BY DEF Persistent
<1>2. /\ StartValue(l) = Kept(l, latest, first)
      /\ StartsInitialized(l) <=> first[l] # None
      /\ carried[l] # None => carried[l].initialized
      /\ latest[l] = None
  BY <1>1 DEF RowsInv, Settled, StartsAgree
<1>3. inits[l] = None
  BY DEF RowsInv, AttemptAgrees, WrittenAgree
<1>4. Initialized(l) <=> first[l] # None
  BY <1>2 DEF Initialized, StartsInitialized
<1>5. StartValue(l) = IF first[l] = None THEN Empty ELSE first[l]
  BY <1>2 DEF Kept
<1>6. carried[l] = None => first[l] = None /\ InitialValue(l) = None
  BY <1>2 DEF StartsInitialized, InitialValue
<1>7. carried[l] # None => first[l] # None /\ InitialValue(l) = StartValue(l)
  BY <1>1, <1>2 DEF StartsInitialized, InitialValue, StartValue
<1> QED
  BY <1>3, <1>4, <1>5, <1>6, <1>7

LEMMA UnwrittenStarts ==
  ASSUME RowsInv, NEW l \in Locals, Persistent(l), writes[l] = None
  PROVE  /\ inits[l] = None
         /\ Initialized(l) <=> first[l] # None
         /\ CurrentValue(l) = Kept(l, latest, first)
<1>1. /\ StartValue(l) = Kept(l, latest, first)
      /\ StartsInitialized(l) <=> first[l] # None
  BY DEF RowsInv, Settled, StartsAgree
<1>2. inits[l] = None
  BY DEF RowsInv, AttemptAgrees, WrittenAgree
<1>3. Initialized(l) <=> StartsInitialized(l)
  BY DEF Initialized, StartsInitialized
<1> QED
  BY <1>1, <1>2, <1>3 DEF CurrentValue

LEMMA WriteLocalRows ==
  ASSUME RowsInv, NEW l \in Locals, NEW v \in Operand, WriteLocal(l, v), QuietRows
  PROVE  AttemptAgrees'
<1> DEFINE w == [value |-> v, initialized |-> Initialized(l), first |-> InitialValue(l)]
<1>1. /\ running /\ running' = running /\ called' = called /\ FrameOf[l] \in called
      /\ Persistent(l) => Initialized(l)
      /\ writes' = [writes EXCEPT ![l] = w]
      /\ inits' = inits /\ first' = first /\ initialized' = initialized
  BY DEF WriteLocal, Operate, QuietRows, committed
<1>2. w \in LocalWrite /\ w # None
  <2>1. ContextTypeOK /\ v \in Val
    BY OperandType DEF RowsInv, RetainInv
  <2> QED
    BY <2>1, Reads, ContextAssumption DEF LocalWrite
<1>3. writes \in [Locals -> LocalWrite \cup {None}]
  BY DEF RowsInv, RetainInv, ContextTypeOK
<1>4. WrittenAgree
  BY DEF RowsInv, AttemptAgrees
<1>5. Persistent(l) => InitializerOf(l) # None
  <2>1. CASE writes[l] # None
    BY <1>4, <2>1 DEF WrittenAgree
  <2>2. CASE writes[l] = None
    BY <1>1, <2>2, UnwrittenStarts DEF InitializerOf
  <2> QED
    BY <2>1, <2>2
<1>6. (Storage[l] = "var" /\ ~initialized[l]) => InitialValue(l) = InitializerOf(l)
  <2>1. CASE writes[l] # None
    BY <1>4, <2>1 DEF WrittenAgree, InitialValue
  <2>2. CASE writes[l] = None
    BY <2>2, CarriedInitializer DEF InitializerOf
  <2> QED
    BY <2>1, <2>2
<1>7. writes'[l] = w /\ \A m \in Locals \ {l} : writes'[m] = writes[m]
  BY <1>1, <1>3
<1>8. w.initialized = Initialized(l) /\ w.first = InitialValue(l)
  OBVIOUS
<1> HIDE DEF w
<1>9. WrittenAgree'
  BY <1>1, <1>2, <1>4, <1>5, <1>6, <1>7, <1>8 DEF WrittenAgree, InitializerOf
<1> QED
  BY <1>1, <1>9 DEF RowsInv, AttemptAgrees

LEMMA InitializeRows ==
  ASSUME RowsInv, NEW l \in Locals, NEW v \in Operand, Initialize(l, v),
         inits' = [inits EXCEPT ![l] = v], UNCHANGED <<alive, log, inputLog, latest, first>>
  PROVE  AttemptAgrees'
<1> DEFINE w == [value |-> v, initialized |-> TRUE,
                 first |-> IF Storage[l] = "var" /\ ~initialized[l] THEN v ELSE None]
<1>1. /\ running /\ running' = running /\ called' = called /\ FrameOf[l] \in called
      /\ Persistent(l) /\ ~Initialized(l)
      /\ writes' = [writes EXCEPT ![l] = w]
      /\ first' = first /\ initialized' = initialized
  BY DEF Initialize, Operate, committed
<1>2. v \in Val /\ v # None
  BY OperandType, ContextAssumption DEF RowsInv, RetainInv
<1>3. w \in LocalWrite /\ w # None
  <2>1. w \in LocalWrite
    BY <1>2 DEF LocalWrite
  <2> HIDE DEF w
  <2> QED
    BY <2>1, ContextAssumption
<1>4. WrittenAgree /\ writes \in [Locals -> LocalWrite \cup {None}]
  BY DEF RowsInv, AttemptAgrees, RetainInv, ContextTypeOK
<1>5. writes[l] = None
  BY <1>1, <1>4 DEF WrittenAgree, Initialized
<1>6. first[l] = None
  BY <1>1, <1>5, UnwrittenStarts
<1>7. writes'[l] = w /\ \A m \in Locals \ {l} : writes'[m] = writes[m]
  BY <1>1, <1>4
<1>8. /\ inits' \in [Locals -> Val \cup {None}] /\ inits'[l] = v
      /\ \A m \in Locals \ {l} : inits'[m] = inits[m]
  BY <1>2, <1>4 DEF WrittenAgree
<1>9. w.initialized = TRUE /\ ((Storage[l] = "var" /\ ~initialized[l]) => w.first = v)
  OBVIOUS
<1> HIDE DEF w
<1>10. \A m \in Locals : inits'[m] # None => Persistent(m) /\ writes'[m] # None /\ first'[m] = None
  BY <1>1, <1>3, <1>4, <1>6, <1>7, <1>8 DEF WrittenAgree
<1>11. \A m \in Locals : InitializerOf(m)' = IF m = l THEN v ELSE InitializerOf(m)
  BY <1>1, <1>2, <1>8 DEF InitializerOf
<1>12. ASSUME NEW m \in Locals, writes'[m] # None
       PROVE  /\ FrameOf[m] \in called'
              /\ Persistent(m) => writes'[m].initialized /\ InitializerOf(m)' # None
              /\ (Storage[m] = "var" /\ ~initialized'[m]) => writes'[m].first = InitializerOf(m)'
  <2>1. CASE m = l
    BY <1>1, <1>2, <1>7, <1>9, <1>11, <2>1
  <2>2. CASE m # l
    <3>1. writes[m] # None
      BY <1>7, <1>12, <2>2
    <3> QED
      BY <1>1, <1>4, <1>7, <1>11, <2>2, <3>1 DEF WrittenAgree
  <2> QED
    BY <2>1, <2>2
<1>13. WrittenAgree'
  BY <1>8, <1>10, <1>12 DEF WrittenAgree
<1> QED
  BY <1>1, <1>13 DEF RowsInv, AttemptAgrees

(* Every step that accepts nothing leaves what is settled.                 *)
LEMMA QuietKeeps ==
  ASSUME RowsInv, Quiet, QuietRows
  PROVE  RowsInv'
<1>1. RetainInv'
  BY RetainNext DEF RowsInv, ContextNext
<1>2. UNCHANGED <<committed, intermediate>>
  BY DEF Quiet, Step, Refused, Call, WriteLocal, NewStruct, StoreField, Throw, DisposeContext
<1>3. Settled'
  BY <1>2, SettledKept DEF RowsInv, QuietRows
<1>4. AttemptAgrees'
  <2>1. ASSUME NEW p \in BOOLEAN, NEW in \in [Inputs -> Plain], Step(p, in)
        PROVE  AttemptAgrees'
    <3>1. inits' = [l \in Locals |-> None]
      BY <2>1, NoInits DEF RowsInv, Step, QuietRows
    <3> QED
      BY <2>1, <3>1, AttemptCleared DEF Step
  <2>2. CASE Refused \/ DisposeContext
    <3>1. ~running /\ UNCHANGED attempt
      BY <2>2 DEF Refused, DisposeContext
    <3>2. inits' = [l \in Locals |-> None]
      BY <3>1 DEF QuietRows, attempt
    <3>3. writes' = NothingWritten /\ ~running'
      BY <3>1 DEF RowsInv, AttemptAgrees, attempt
    <3> QED
      BY <3>2, <3>3, AttemptCleared
  <2>3. ASSUME NEW f \in Frames, Call(f) PROVE AttemptAgrees'
    BY <2>3, CallRows
  <2>4. ASSUME NEW l \in Locals, NEW v \in Operand, WriteLocal(l, v) PROVE AttemptAgrees'
    BY <2>4, WriteLocalRows
  <2>5. ASSUME (\E v \in Operand : NewStruct(v)) \/ (\E o \in Held, v \in Operand : StoreField(o, v))
        PROVE  AttemptAgrees'
    <3>1. /\ running /\ UNCHANGED <<committed, running, called, writes>>
      BY <2>5 DEF NewStruct, StoreField, Operate
    <3>2. inits' = inits /\ first' = first
      BY <3>1 DEF QuietRows
    <3> QED
      BY <3>1, <3>2 DEF RowsInv, AttemptAgrees, WrittenAgree, InitializerOf, committed
  <2>6. CASE Throw
    <3>1. writes' = NothingWritten /\ ~running' /\ inits' = [l \in Locals |-> None]
      BY <2>6 DEF Throw, EndAttempt, QuietRows
    <3> QED
      BY <3>1, AttemptCleared
  <2> QED
    BY <2>1, <2>2, <2>3, <2>4, <2>5, <2>6 DEF Quiet
<1> QED
  BY <1>1, <1>3, <1>4 DEF RowsInv

LEMMA InitializeKeeps ==
  ASSUME RowsInv, NEW l \in Locals, NEW v \in Operand, Initialize(l, v),
         inits' = [inits EXCEPT ![l] = v], UNCHANGED <<alive, log, inputLog, latest, first>>
  PROVE  RowsInv'
<1>1. RetainInv'
  BY RetainNext DEF RowsInv, ContextNext
<1>2. Settled'
  BY SettledKept DEF RowsInv, Initialize
<1>3. AttemptAgrees'
  BY InitializeRows
<1> QED
  BY <1>1, <1>2, <1>3 DEF RowsInv

-----------------------------------------------------------------------------
(***************************************************************************)
(* An attempt is accepted.                                                 *)
(***************************************************************************)

(* The calls that advance are those that count, or count from now on.      *)
LEMMA AdvancingAreAlive ==
  ASSUME RowsInv, running
  PROVE  /\ Advancing = alive \cup called
         /\ \A f \in Advancing : Above[f] \subseteq Advancing
<1>1. /\ active \cup carriedActive = alive
      /\ \A f \in alive : Above[f] \subseteq alive
      /\ \A f \in called : Above[f] \subseteq called
      /\ alive \subseteq Frames /\ called \subseteq Frames
  BY DEF RowsInv, Settled, FramesAgree, LogsTyped, AttemptAgrees, RetainInv, ContextTypeOK
<1>2. Advancing = {f \in Frames : Above[f] \subseteq called \cup alive}
  BY <1>1 DEF Advancing
<1>3. \A f \in Frames : f \in Above[f]
  BY ContextAssumption
<1>4. Advancing = alive \cup called
  BY <1>1, <1>2, <1>3
<1> QED
  BY <1>1, <1>4

(* What an assignment counts for: see Accept.                              *)
LatestAfter ==
  [l \in Locals |->
     IF writes[l] # None /\ (Storage[l] = "varip" \/ (Storage[l] = "var" /\ ~provisional))
     THEN writes[l].value ELSE latest[l]]

FirstAfter == [l \in Locals |-> InitializerOf(l)]

LEMMA AcceptMeans ==
  ASSUME Accept
  PROVE  /\ alive' = alive \cup called /\ latest' = LatestAfter /\ first' = FirstAfter
         /\ inits' = [l \in Locals |-> None]
         /\ log' = IF provisional THEN log
                   ELSE [l \in Locals |->
                           IF FrameOf[l] \in alive \cup called
                           THEN <<RowValue(l, LatestAfter, FirstAfter)>> \o log[l] ELSE log[l]]
         /\ inputLog' = IF provisional THEN inputLog
                        ELSE [i \in Inputs |-> <<input[i]>> \o inputLog[i]]
BY DEF Accept, LatestAfter, FirstAfter, InitializerOf

(* The binding is left at what main saw last, unless a provisional attempt *)
(* assigned a var.                                                         *)
LEMMA KeptIsCurrent ==
  ASSUME RowsInv, NEW l \in Locals, Persistent(l),
         writes[l] = None \/ Storage[l] = "varip" \/ ~provisional
  PROVE  Kept(l, LatestAfter, FirstAfter) = CurrentValue(l)
<1>1. CASE writes[l] = None
  <2>1. LatestAfter[l] = latest[l] /\ FirstAfter[l] = first[l]
    BY <1>1, UnwrittenStarts DEF LatestAfter, FirstAfter, InitializerOf
  <2> QED
    BY <1>1, <2>1, UnwrittenStarts DEF Kept
<1>2. CASE writes[l] # None
  <2>1. LatestAfter[l] = writes[l].value
    BY <1>2 DEF LatestAfter, Persistent
  <2>2. writes[l] \in LocalWrite
    BY <1>2 DEF RowsInv, RetainInv, ContextTypeOK
  <2>3. writes[l].value # None
    BY <2>2, ContextAssumption DEF LocalWrite
  <2> QED
    BY <1>2, <2>1, <2>3 DEF Kept, CurrentValue
<1> QED
  BY <1>1, <1>2

LEMMA RowIsCurrent ==
  ASSUME RowsInv, NEW l \in Locals, ~provisional
  PROVE  RowValue(l, LatestAfter, FirstAfter) = CurrentValue(l)
<1>1. CASE Persistent(l)
  BY <1>1, KeptIsCurrent DEF RowValue
<1>2. CASE ~Persistent(l)
  BY <1>2 DEF RowValue, CurrentValue, StartValue, Persistent
<1> QED
  BY <1>1, <1>2

LEMMA InitializedAfter ==
  ASSUME RowsInv, NEW l \in Locals, Persistent(l)
  PROVE  Initialized(l) <=> FirstAfter[l] # None
<1>1. CASE writes[l] = None
  BY <1>1, UnwrittenStarts DEF FirstAfter, InitializerOf
<1>2. CASE writes[l] # None
  BY <1>2 DEF RowsInv, AttemptAgrees, WrittenAgree, Initialized, FirstAfter
<1> QED
  BY <1>1, <1>2

LEMMA AcceptTyped ==
  ASSUME RowsInv, Return, Accept
  PROVE  LogsTyped'
<1>1. /\ LogsTyped /\ ContextTypeOK /\ WrittenAgree
  BY DEF RowsInv, Settled, RetainInv, AttemptAgrees
<1>2. LatestAfter \in [Locals -> Val \cup {None}] /\ FirstAfter \in [Locals -> Val \cup {None}]
  BY <1>1 DEF LatestAfter, FirstAfter, InitializerOf, LogsTyped, ContextTypeOK, LocalWrite,
              WrittenAgree
<1>3. alive' \subseteq Frames
  BY <1>1, AcceptMeans DEF LogsTyped, ContextTypeOK
<1>4. log' \in [Locals -> Seq(Val)] /\ inputLog' \in [Inputs -> Seq(Val)]
  <2>1. CASE provisional
    BY <1>1, <2>1, AcceptMeans DEF LogsTyped
  <2>2. CASE ~provisional
    <3>1. \A l \in Locals : RowValue(l, LatestAfter, FirstAfter) \in Val
      BY <1>1, <2>2, RowIsCurrent, Reads
    <3>2. \A v \in Val, s \in Seq(Val) : <<v>> \o s \in Seq(Val)
      <4>1. \A v \in Val : <<v>> \in Seq(Val)
        OBVIOUS
      <4> QED
        BY <4>1, ConcatProperties
    <3> DEFINE row(l) == <<RowValue(l, LatestAfter, FirstAfter)>> \o log[l]
               in(i) == <<input[i]>> \o inputLog[i]
    <3>3. \A l \in Locals : row(l) \in Seq(Val) /\ log[l] \in Seq(Val)
      BY <1>1, <3>1, <3>2 DEF LogsTyped
    <3>4. \A i \in Inputs : in(i) \in Seq(Val)
      BY <1>1, <3>2 DEF LogsTyped, ContextTypeOK
    <3>5. /\ log' = [l \in Locals |-> IF FrameOf[l] \in alive \cup called THEN row(l) ELSE log[l]]
          /\ inputLog' = [i \in Inputs |-> in(i)]
      BY <2>2, AcceptMeans
    <3> HIDE DEF row, in
    <3> QED
      BY <3>3, <3>4, <3>5
  <2> QED
    BY <2>1, <2>2
<1> QED
  BY <1>2, <1>3, <1>4, AcceptMeans DEF LogsTyped

LEMMA AcceptHistories ==
  ASSUME RowsInv, Return, Accept
  PROVE  HistoriesAgree'
<1>1. /\ LogsTyped /\ ContextTypeOK /\ HistoriesAgree /\ running
  BY DEF RowsInv, Settled, RetainInv, Return
<1>2. CASE provisional
  <2>1. history' = history /\ inputHistory' = inputHistory /\ log' = log /\ inputLog' = inputLog
    BY <1>2, AcceptMeans DEF Return, committed
  <2> QED
    BY <1>1, <2>1 DEF HistoriesAgree
<1>3. CASE ~provisional
  <2>1. CommitRow
    BY <1>3 DEF Return
  <2>2. ASSUME NEW l \in Locals
        PROVE  history'[l] = Newest(log'[l], Keep(l))
    <3>1. /\ history[l] = Newest(log[l], Keep(l)) /\ log[l] \in Seq(Val)
          /\ Keep(l) \in Nat /\ CurrentValue(l) \in Val
      BY <1>1, KeepIsNat, Reads DEF HistoriesAgree, LogsTyped
    <3>2. CASE FrameOf[l] \in Advancing
      <4>1. history'[l] = CommitHistory(history[l], CurrentValue(l), Keep(l))
        BY <2>1, <3>2 DEF CommitRow
      <4>2. log'[l] = <<CurrentValue(l)>> \o log[l]
        BY <1>1, <1>3, <3>2, AcceptMeans, RowIsCurrent, AdvancingAreAlive
      <4> QED
        BY <3>1, <4>1, <4>2, NewestCommitted
    <3>3. CASE FrameOf[l] \notin Advancing
      <4>1. history'[l] = history[l]
        BY <2>1, <3>3 DEF CommitRow
      <4>2. log'[l] = log[l]
        BY <1>1, <1>3, <3>3, AcceptMeans, AdvancingAreAlive
      <4> QED
        BY <3>1, <4>1, <4>2
    <3> QED
      BY <3>2, <3>3
  <2>3. ASSUME NEW i \in Inputs
        PROVE  inputHistory'[i] = Newest(inputLog'[i], InputDepth[i])
    <3>1. /\ inputHistory[i] = Newest(inputLog[i], InputDepth[i]) /\ inputLog[i] \in Seq(Val)
          /\ InputDepth[i] \in Nat /\ input[i] \in Val
      BY <1>1, ContextAssumption DEF HistoriesAgree, LogsTyped, ContextTypeOK
    <3>2. /\ inputHistory'[i] = CommitHistory(inputHistory[i], input[i], InputDepth[i])
          /\ inputLog'[i] = <<input[i]>> \o inputLog[i]
      BY <1>3, <2>1, AcceptMeans DEF CommitRow
    <3> QED
      BY <3>1, <3>2, NewestCommitted
  <2> QED
    BY <2>2, <2>3 DEF HistoriesAgree, Keep, Persistent
<1> QED
  BY <1>2, <1>3

(* What the next attempt finds of a binding whose call did not advance.    *)
LEMMA SkippedStarts ==
  ASSUME RowsInv, Return, Accept, NEW l \in Locals, FrameOf[l] \notin Advancing
  PROVE  /\ writes[l] = None /\ latest'[l] = latest[l] /\ first'[l] = first[l]
         /\ carried'[l] = carried[l] /\ history'[l] = history[l]
         /\ initialized'[l] = initialized[l]
<1>1. running
  BY DEF Return
<1>2. writes[l] = None
  BY <1>1, AdvancingAreAlive DEF RowsInv, AttemptAgrees, WrittenAgree
<1>3. inits[l] = None
  BY <1>2 DEF RowsInv, AttemptAgrees, WrittenAgree
<1>4. latest'[l] = latest[l] /\ first'[l] = first[l]
  BY <1>2, <1>3, AcceptMeans DEF LatestAfter, FirstAfter, InitializerOf
<1>5. carried'[l] = carried[l]
  BY DEF Return
<1>6. history'[l] = history[l] /\ initialized'[l] = initialized[l]
  BY DEF Return, CommitRow, committed
<1> QED
  BY <1>2, <1>4, <1>5, <1>6

LEMMA CarryIsSome ==
  ASSUME NEW v \in Val, NEW b \in BOOLEAN
  PROVE  [value |-> v, initialized |-> b] # None
<1>1. [value |-> v, initialized |-> b] \in Carry
  BY DEF Carry
<1> QED
  BY <1>1, ContextAssumption

(* What a binding of an advancing call is left with, by its storage kind.  *)
StartsAfter(l) ==
  /\ StartValue(l)' = Kept(l, LatestAfter, FirstAfter)
  /\ StartsInitialized(l)' <=> FirstAfter[l] # None
  /\ Storage[l] = "var" =>
       /\ carried'[l] # None => carried'[l].initialized
       /\ LatestAfter[l] # None => initialized'[l]

LEMMA VaripStarts ==
  ASSUME RowsInv, Return, NEW l \in Locals, FrameOf[l] \in Advancing, Storage[l] = "varip"
  PROVE  StartsAfter(l)
<1>1. ContextTypeOK /\ Persistent(l)
  BY DEF RowsInv, RetainInv, Persistent
<1>2. CurrentValue(l) \in Val /\ Initialized(l) \in BOOLEAN
  BY <1>1, Reads
<1>3. carried'[l] = [value |-> CurrentValue(l), initialized |-> Initialized(l)]
  BY DEF Return, CarryNext
<1>4. carried'[l] # None
  BY <1>2, <1>3, CarryIsSome
<1>5. StartValue(l)' = CurrentValue(l)
  BY <1>1, <1>3, <1>4 DEF StartValue, Persistent
<1>6. StartsInitialized(l)' = Initialized(l)
  BY <1>3, <1>4 DEF StartsInitialized
<1> QED
  BY <1>1, <1>5, <1>6, KeptIsCurrent, InitializedAfter DEF StartsAfter

(* What is known of a var at any point of an attempt.                      *)
LEMMA VarKnown ==
  ASSUME RowsInv, NEW l \in Locals, Storage[l] = "var"
  PROVE  /\ Persistent(l)
         /\ StartValue(l) = Kept(l, latest, first)
         /\ initialized[l] => first[l] # None /\ inits[l] = None
         /\ ~initialized[l] => latest[l] = None
         /\ ~Initialized(l) => writes[l] = None /\ carried[l] = None /\ ~initialized[l]
<1>1. Persistent(l)
  BY DEF Persistent
<1>2. /\ StartValue(l) = Kept(l, latest, first)
      /\ StartsInitialized(l) <=> first[l] # None
      /\ carried[l] # None => carried[l].initialized
      /\ latest[l] # None => initialized[l]
  BY <1>1 DEF RowsInv, Settled, StartsAgree
<1>3. initialized[l] => first[l] # None
  BY <1>2 DEF StartsInitialized
<1>4. inits[l] # None => first[l] = None
  BY DEF RowsInv, AttemptAgrees, WrittenAgree
<1>5. writes[l] # None => writes[l].initialized
  BY <1>1 DEF RowsInv, AttemptAgrees, WrittenAgree
<1>6. ~Initialized(l) => writes[l] = None /\ carried[l] = None /\ ~initialized[l]
  BY <1>1, <1>2, <1>5 DEF Initialized
<1> QED
  BY <1>1, <1>2, <1>3, <1>4, <1>6

LEMMA FinalVarStarts ==
  ASSUME RowsInv, Return, ~provisional, NEW l \in Locals, FrameOf[l] \in Advancing,
         Storage[l] = "var"
  PROVE  StartsAfter(l)
<1>1. ContextTypeOK /\ Persistent(l) /\ CommitRow
  BY DEF RowsInv, RetainInv, Persistent, Return
<1>2. CurrentValue(l) \in Val /\ Initialized(l) \in BOOLEAN /\ history[l] \in Seq(Val)
      /\ Keep(l) \in Nat /\ Keep(l) >= 1
  BY <1>1, Reads, KeepIsNat DEF ContextTypeOK
<1>3. /\ initialized'[l] <=> Initialized(l)
      /\ carried'[l] = CarryNext(l)
      /\ history'[l] = CommitHistory(history[l], CurrentValue(l), Keep(l))
  <2>1. initialized'[l] = (Persistent(l) /\ Initialized(l))
    BY <1>1 DEF CommitRow
  <2>2. /\ carried'[l] = CarryNext(l)
        /\ history'[l] = CommitHistory(history[l], CurrentValue(l), Keep(l))
    BY <1>1 DEF CommitRow, Return
  <2> QED
    BY <1>1, <2>1, <2>2
<1>4. history'[l] # <<>> /\ Head(history'[l]) = CurrentValue(l)
  BY <1>2, <1>3, NewestFirst
<1>5. carried'[l] # None => carried'[l].initialized = Initialized(l)
  BY <1>3 DEF CarryNext
<1>6. CASE Initialized(l)
  <2>1. StartValue(l)' = CurrentValue(l)
    BY <1>3, <1>4, <1>6 DEF StartValue
  <2>2. StartsInitialized(l)'
    BY <1>3, <1>5, <1>6 DEF StartsInitialized
  <2> QED
    BY <1>1, <1>3, <1>5, <1>6, <2>1, <2>2, KeptIsCurrent, InitializedAfter DEF StartsAfter
<1>7. CASE ~Initialized(l)
  <2>1. writes[l] = None /\ carried[l] = None /\ ~initialized[l] /\ latest[l] = None
    BY <1>7, VarKnown
  <2>2. InitialValue(l) = None
    BY <2>1 DEF InitialValue
  <2>3. carried'[l] = None /\ ~initialized'[l]
    BY <1>3, <1>7, <2>2 DEF CarryNext
  <2>4. LatestAfter[l] = None /\ FirstAfter[l] = None
    BY <1>1, <1>7, <2>1, InitializedAfter DEF LatestAfter
  <2>5. StartValue(l)' = Empty /\ ~StartsInitialized(l)'
    BY <2>3 DEF StartValue, StartsInitialized
  <2> QED
    BY <2>3, <2>4, <2>5 DEF StartsAfter, Kept
<1> QED
  BY <1>6, <1>7

LEMMA ProvisionalVarStarts ==
  ASSUME RowsInv, Return, provisional, NEW l \in Locals, FrameOf[l] \in Advancing,
         Storage[l] = "var"
  PROVE  StartsAfter(l)
<1>1. ContextTypeOK /\ Persistent(l)
  BY DEF RowsInv, RetainInv, Persistent
<1>2. /\ initialized' = initialized /\ history' = history /\ carried'[l] = CarryNext(l)
      /\ LatestAfter[l] = latest[l]
  BY DEF Return, committed, LatestAfter
<1>3. CASE initialized[l]
  <2>1. carried'[l] = None
    BY <1>2, <1>3 DEF CarryNext
  <2>2. StartValue(l)' = StartValue(l) /\ StartsInitialized(l)'
    BY <1>2, <1>3, <2>1 DEF StartValue, StartsInitialized
  <2>3. FirstAfter[l] = first[l] /\ first[l] # None
    BY <1>3, VarKnown DEF FirstAfter, InitializerOf
  <2> QED
    BY <1>2, <1>3, <2>1, <2>2, <2>3, VarKnown DEF StartsAfter, Kept
<1>4. CASE ~initialized[l]
  <2>1. latest[l] = None /\ LatestAfter[l] = None
    BY <1>2, <1>4, VarKnown
  <2>2. InitialValue(l) = FirstAfter[l]
    <3>1. CASE writes[l] = None
      BY <1>4, <3>1, CarriedInitializer DEF FirstAfter, InitializerOf
    <3>2. CASE writes[l] # None
      BY <1>4, <3>2 DEF RowsInv, AttemptAgrees, WrittenAgree, InitialValue, FirstAfter
    <3> QED
      BY <3>1, <3>2
  <2>3. CASE FirstAfter[l] = None
    <3>1. carried'[l] = None
      BY <1>2, <2>2, <2>3 DEF CarryNext
    <3>2. StartValue(l)' = Empty /\ ~StartsInitialized(l)'
      BY <1>2, <1>4, <3>1 DEF StartValue, StartsInitialized
    <3> QED
      BY <2>1, <2>3, <3>1, <3>2 DEF StartsAfter, Kept
  <2>4. CASE FirstAfter[l] # None
    <3>1. FirstAfter[l] \in Val /\ Initialized(l) /\ Initialized(l) \in BOOLEAN
      BY <1>1, <2>2, <2>4, InitializedAfter, Reads
    <3>2. carried'[l] = [value |-> FirstAfter[l], initialized |-> Initialized(l)]
      BY <1>2, <1>4, <2>2, <2>4 DEF CarryNext
    <3>3. carried'[l] # None /\ carried'[l].value = FirstAfter[l] /\ carried'[l].initialized
      <4>1. carried'[l] # None
        BY <3>1, <3>2, CarryIsSome
      <4>2. /\ carried'[l].value = FirstAfter[l]
            /\ carried'[l].initialized = Initialized(l)
        BY <3>2
      <4> QED
        BY <3>1, <4>1, <4>2
    <3>4. StartValue(l)' = FirstAfter[l] /\ StartsInitialized(l)'
      BY <1>1, <1>2, <1>4, <3>3 DEF StartValue, StartsInitialized, Persistent
    <3> QED
      BY <2>1, <2>4, <3>3, <3>4 DEF StartsAfter, Kept
  <2> QED
    BY <2>3, <2>4
<1> QED
  BY <1>3, <1>4

LEMMA AcceptStarts ==
  ASSUME RowsInv, Return, Accept
  PROVE  StartsAgree'
<1> SUFFICES ASSUME NEW l \in Locals, Persistent(l)
             PROVE  /\ StartValue(l)' = Kept(l, latest', first')
                    /\ StartsInitialized(l)' <=> first'[l] # None
                    /\ Storage[l] = "var" =>
                         /\ carried'[l] # None => carried'[l].initialized
                         /\ latest'[l] # None => initialized'[l]
  BY DEF StartsAgree, Persistent, Kept, StartsInitialized, StartValue
<1>1. CASE FrameOf[l] \notin Advancing
  <2>1. /\ StartValue(l) = Kept(l, latest, first)
        /\ StartsInitialized(l) <=> first[l] # None
        /\ Storage[l] = "var" =>
             /\ carried[l] # None => carried[l].initialized
             /\ latest[l] # None => initialized[l]
    BY DEF RowsInv, Settled, StartsAgree
  <2>2. /\ latest'[l] = latest[l] /\ first'[l] = first[l]
        /\ carried'[l] = carried[l] /\ history'[l] = history[l]
        /\ initialized'[l] = initialized[l]
    BY <1>1, SkippedStarts
  <2>3. StartValue(l)' = StartValue(l) /\ (StartsInitialized(l)' <=> StartsInitialized(l))
        /\ Kept(l, latest', first') = Kept(l, latest, first)
    BY <2>2 DEF StartValue, StartsInitialized, Kept, Persistent
  <2> QED
    BY <2>1, <2>2, <2>3
<1>2. CASE FrameOf[l] \in Advancing
  <2>1. StartsAfter(l)
    BY <1>2, VaripStarts, FinalVarStarts, ProvisionalVarStarts DEF Persistent
  <2> QED
    BY <2>1, AcceptMeans DEF StartsAfter
<1> QED
  BY <1>1, <1>2

LEMMA AcceptKeeps ==
  ASSUME RowsInv, Return, Accept
  PROVE  RowsInv'
<1>1. RetainInv'
  BY RetainNext DEF RowsInv, ContextNext
<1>2. FramesAgree'
  <2>1. running /\ active \cup carriedActive = alive
    BY DEF RowsInv, Settled, FramesAgree, Return
  <2>2. active' \cup carriedActive' = alive \cup Advancing
    BY <2>1 DEF Return, CommitRow, committed
  <2> QED
    BY <2>1, <2>2, AdvancingAreAlive, AcceptMeans DEF FramesAgree
<1>3. Settled'
  BY <1>2, AcceptTyped, AcceptHistories, AcceptStarts DEF Settled
<1>4. AttemptAgrees'
  BY AttemptCleared, AcceptMeans DEF Return, EndAttempt
<1> QED
  BY <1>1, <1>3, <1>4 DEF RowsInv

-----------------------------------------------------------------------------

LEMMA RowsNext == RowsInv /\ [RNext]_<<contextVars, rowVars>> => RowsInv'
<1> SUFFICES ASSUME RowsInv, [RNext]_<<contextVars, rowVars>> PROVE RowsInv'
  OBVIOUS
<1>1. CASE Quiet /\ QuietRows
  BY <1>1, QuietKeeps
<1>2. ASSUME NEW l \in Locals, NEW v \in Operand, Initialize(l, v),
             inits' = [inits EXCEPT ![l] = v], UNCHANGED <<alive, log, inputLog, latest, first>>
      PROVE  RowsInv'
  BY <1>2, InitializeKeeps
<1>3. CASE Return /\ Accept
  BY <1>3, AcceptKeeps
<1>4. CASE UNCHANGED <<contextVars, rowVars>>
  <2>1. RetainInv'
    BY <1>4, RetainNext DEF RowsInv
  <2>2. UNCHANGED <<committed, intermediate, running, called, writes, alive, log, inputLog,
                    latest, first, inits>>
    BY <1>4 DEF contextVars, attempt, rowVars
  <2>3. Settled'
    BY <2>2, SettledKept DEF RowsInv
  <2>4. AttemptAgrees'
    BY <2>2 DEF RowsInv, AttemptAgrees, WrittenAgree, InitializerOf, committed
  <2> QED
    BY <2>1, <2>3, <2>4 DEF RowsInv
<1> QED
  BY <1>1, <1>2, <1>3, <1>4 DEF RNext, QuietRows

LEMMA RowsHold ==
  ASSUME RowsInv
  PROVE  RowsAgree
<1>1. ContextTypeOK /\ FramesAgree /\ HistoriesAgree
  BY DEF RowsInv, RetainInv, Settled
<1>2. StartAgrees
  <2> SUFFICES ASSUME ~running, NEW l \in Locals, Persistent(l)
               PROVE  /\ StartValue(l) = Kept(l, latest, first)
                      /\ Initialized(l) <=> first[l] # None
    BY DEF StartAgrees
  <2>1. writes[l] = None
    BY DEF RowsInv, AttemptAgrees, NothingWritten
  <2>2. StartValue(l) = Kept(l, latest, first)
    BY DEF RowsInv, Settled, StartsAgree
  <2> QED
    BY <2>1, <2>2, UnwrittenStarts
<1> QED
  BY <1>1, <1>2 DEF RowsAgree, HistoriesAgree

(* Whatever attempts an execution makes, provisional, final or failed, and *)
(* whatever calls they skip: reading a binding or an input n rows back     *)
(* yields what its row held n final attempts ago, as far as its depth, and *)
(* an attempt starts a var from its last final value, a varip from its     *)
(* last accepted one, and runs no initializer twice (Step.current,         *)
(* finishRoot, finishIntermediateState).                                   *)
THEOREM Rows == RSpec => []RowsAgree
<1>1. RowsInv => RowsAgree
  BY RowsHold
<1> QED
  BY RowsStart, RowsNext, <1>1, PTL DEF RSpec
=============================================================================
