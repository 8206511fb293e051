----------------------------- MODULE GpuProofs -----------------------------
(***************************************************************************)
(* Proofs about the planner, the kernel and the session of a GPU           *)
(* execution, for any program, any number of bindings, channels and        *)
(* effects of a row, any device limit, any series and any callers.         *)
(*                                                                         *)
(* The planner: a binary search is right because what fits is downward     *)
(* closed: a chunk of fewer rows needs no more cells (Monotone).  Its      *)
(* invariant says what the search has decided so far: everything up to     *)
(* low - 1 fits, and nothing above high does.                              *)
(*                                                                         *)
(* The session: all bindings have run the same number of chunks, no row of *)
(* which was bad, and what waits for delivery goes on from what was        *)
(* delivered.                                                              *)
(*                                                                         *)
(* The kernel and the device: a row keeps a binding's memory in step with  *)
(* the rows of its series (Holds, KernelRow), whichever words are cached   *)
(* and whatever the invocations beside it do (DeviceIs), so that what is   *)
(* delivered is what the program means (MeaningInv, RowsMean).             *)
(***************************************************************************)
EXTENDS GpuSession, SequenceTheorems, WellFoundedInduction, FiniteSetTheorems, TLAPS

-----------------------------------------------------------------------------
(***************************************************************************)
(* The planner.                                                            *)
(***************************************************************************)

Given == limit \in Nat /\ maximumRows \in Nat

Ranges ==
  /\ plan \in {"search", "selected", "refused"}
  /\ low \in Nat /\ high \in Int /\ chunkRows \in Nat
  /\ high <= maximumRows
  /\ chunkRows = 0 => low = 2 /\ high = maximumRows
  /\ chunkRows # 0 => low = chunkRows + 1 /\ chunkRows <= maximumRows

DecidedBelow == chunkRows # 0 => Fits(chunkRows)

DecidedAbove == \A more \in high + 1..maximumRows : ~Fits(more)

Ended ==
  /\ (plan = "selected" /\ chunkRows # 0) => low > high
  /\ plan = "refused" => ~Fits(1)

IInv == Given /\ Ranges /\ DecidedBelow /\ DecidedAbove /\ Ended

-----------------------------------------------------------------------------

(* Multiplication by a natural number preserves order.                     *)
LEMMA TimesMonotone ==
  ASSUME NEW k \in Nat, NEW m \in Nat, NEW n \in Nat, m <= n
  PROVE  k * m \in Nat /\ k * m <= k * n
<1>1. PICK d \in Nat : n = m + d
  <2>1. n - m \in Nat /\ n = m + (n - m)
    OBVIOUS
  <2> QED
    BY <2>1
<1>2. k * n = k * m + k * d
  BY <1>1
<1>3. k * d \in Nat /\ k * m \in Nat
  OBVIOUS
<1> QED
  BY <1>2, <1>3

(* The cells of a chunk grow with its rows (resultCapacityForExecution and *)
(* the effect capacity of makePlan).                                       *)
LEMMA Monotone ==
  ASSUME NEW m \in Nat, NEW n \in Nat, m <= n, limit \in Nat, Fits(n)
  PROVE  Fits(m)
<1> DEFINE floor(c) == IF c < 2 THEN 2 ELSE c
<1>1. Executions \in Nat /\ Channels \in Nat /\ MaxEffectsPerRow \in Nat
  BY PlannerAssumption DEF PlannerAssumption
<1>2. floor(m) \in Nat /\ floor(n) \in Nat /\ floor(m) <= floor(n)
  OBVIOUS
<1>3. Executions * ResultCapacity(m) <= Executions * ResultCapacity(n)
  <2>1. ResultCapacity(m) = Channels * floor(m) /\ ResultCapacity(n) = Channels * floor(n)
    BY <1>1, <1>2 DEF ResultCapacity
  <2>2. Channels * floor(m) \in Nat /\ Channels * floor(n) \in Nat
          /\ Channels * floor(m) <= Channels * floor(n)
    <3> HIDE DEF floor
    <3> QED
      BY <1>1, <1>2, TimesMonotone
  <2> HIDE DEF floor
  <2> QED
    BY <1>1, <2>1, <2>2, TimesMonotone
<1>4. Executions * EffectCapacity(m) <= Executions * EffectCapacity(n)
  <2>1. EffectCapacity(m) = MaxEffectsPerRow * m /\ EffectCapacity(n) = MaxEffectsPerRow * n
    BY <1>1 DEF EffectCapacity
  <2>2. MaxEffectsPerRow * m \in Nat /\ MaxEffectsPerRow * n \in Nat
          /\ MaxEffectsPerRow * m <= MaxEffectsPerRow * n
    BY <1>1, TimesMonotone
  <2> QED
    BY <1>1, <2>1, <2>2, TimesMonotone
<1>5. Executions * ResultCapacity(n) \in Nat /\ Executions * EffectCapacity(n) \in Nat
        /\ Executions * ResultCapacity(m) \in Nat /\ Executions * EffectCapacity(m) \in Nat
  BY <1>1 DEF ResultCapacity, EffectCapacity
<1>6. Executions * ResultCapacity(n) <= limit /\ Executions * EffectCapacity(n) <= limit
  BY DEF Fits
<1> QED
  BY <1>3, <1>4, <1>5, <1>6 DEF Fits

(* The middle of a range of candidates lies in it.                         *)
LEMMA MiddleInRange ==
  ASSUME low \in Nat, high \in Int, low <= high
  PROVE  Middle \in Nat /\ low <= Middle /\ Middle <= high
BY DEF Middle

-----------------------------------------------------------------------------

LEMMA InitInv == PlannerInit => IInv
BY DEF PlannerInit, IInv, Given, Ranges, DecidedBelow, DecidedAbove, Ended

LEMMA StepInv == IInv /\ [PlannerNext]_<<given, search>> => IInv'
<1> SUFFICES ASSUME IInv, [PlannerNext]_<<given, search>> PROVE IInv'
  OBVIOUS
<1> USE DEF IInv, Given, Ranges, DecidedBelow, DecidedAbove, Ended
<1>1. limit' = limit /\ maximumRows' = maximumRows
  BY DEF PlannerNext, given
<1>2. \A c : Fits(c)' = Fits(c)
  BY <1>1 DEF Fits, ResultCapacity, EffectCapacity
<1>3. CASE PlanNothing
  BY <1>1, <1>2, <1>3 DEF PlanNothing
<1>4. CASE PlanMinimum
  <2>1. CASE Fits(1)
    <3>1. chunkRows' = 1 /\ plan' = plan /\ low' = low /\ high' = high /\ maximumRows # 0 /\ low = 2
            /\ plan = "search"
      BY <1>4, <2>1 DEF PlanMinimum
    <3> QED
      BY <1>1, <1>2, <2>1, <3>1
  <2>2. CASE ~Fits(1)
    BY <1>1, <1>2, <1>4, <2>2 DEF PlanMinimum
  <2> QED
    BY <2>1, <2>2
<1>5. CASE Probe
  <2>1. Middle \in Nat /\ low <= Middle /\ Middle <= high
    BY <1>5, MiddleInRange DEF Probe, Undecided
  <2>2. plan = "search" /\ plan' = plan /\ chunkRows # 0
    BY <1>5 DEF Probe
  <2>3. CASE Fits(Middle)
    <3>1. chunkRows' = Middle /\ low' = Middle + 1 /\ high' = high
      BY <1>5, <2>3 DEF Probe
    <3> QED
      BY <1>1, <1>2, <2>1, <2>2, <2>3, <3>1
  <2>4. CASE ~Fits(Middle)
    <3>1. high' = Middle - 1 /\ chunkRows' = chunkRows /\ low' = low
      BY <1>5, <2>4 DEF Probe
    <3>2. \A more \in Middle..maximumRows : ~Fits(more)
      BY <2>1, <2>4, Monotone
    <3> QED
      BY <1>1, <1>2, <2>1, <2>2, <3>1, <3>2
  <2> QED
    BY <2>3, <2>4
<1>6. CASE Select
  BY <1>1, <1>2, <1>6 DEF Select, Undecided
<1>7. CASE UNCHANGED <<given, search>>
  BY <1>2, <1>7 DEF given, search
<1> QED
  BY <1>3, <1>4, <1>5, <1>6, <1>7 DEF PlannerNext

(* The search keeps its own account of what is decided, for any device and *)
(* any bindings (the variables of planResources).                          *)
THEOREM SearchInvariant == PlannerSpec => []IInv
BY InitInv, StepInv, PTL DEF PlannerSpec

(* The plan selected is the largest chunk the device admits, and bindings  *)
(* are refused only when not even one row fits (planResources, "binary     *)
(* search selects the largest chunk admitted by the concrete device").     *)
THEOREM Largest == PlannerSpec => []LargestChunk
<1>1. IInv => LargestChunk
  <2> SUFFICES ASSUME IInv PROVE LargestChunk
    OBVIOUS
  <2> USE DEF IInv, Given, Ranges, DecidedBelow, DecidedAbove, Ended
  <2>1. ASSUME plan = "selected", chunkRows # 0
        PROVE  /\ chunkRows \in 1..maximumRows /\ Fits(chunkRows)
               /\ \A more \in chunkRows + 1..maximumRows : ~Fits(more)
    <3>1. high <= chunkRows
      BY <2>1
    <3>2. \A more \in chunkRows + 1..maximumRows : more \in high + 1..maximumRows
      BY <3>1
    <3> QED
      BY <2>1, <3>2
  <2> QED
    BY <2>1 DEF LargestChunk
<1> QED
  BY <1>1, SearchInvariant, PTL

-----------------------------------------------------------------------------
(***************************************************************************)
(* Flattening.  FlattenSeq is a recursive function, so what it computes is *)
(* proved by induction over the sequences it joins.                        *)
(***************************************************************************)

(* A set with 0 and with every successor has every natural number: a least *)
(* one it has not would have a predecessor.                                *)
LEMMA Induction ==
  ASSUME NEW T, 0 \in T, \A n \in Nat : n \in T => n + 1 \in T
  PROVE  Nat \subseteq T
<1> DEFINE R == {pair \in Nat \X Nat : pair[1] < pair[2]}
           B == {n \in Nat : n \notin T}
<1>1. IsWellFoundedOn(R, Nat)
  BY NatLessThanWellFounded DEF OpToRel
<1>2. SUFFICES ASSUME B # {} PROVE FALSE
  OBVIOUS
<1>3. \A n \in Nat : <<n, n + 1>> \in R
  OBVIOUS
<1>4. PICK x \in B : \A y \in B : ~ (<<y, x>> \in R)
  <2> HIDE DEF R
  <2> QED
    BY <1>1, <1>2, WFMin
<1>5. x \in Nat /\ x # 0 /\ x - 1 \in Nat /\ x = (x - 1) + 1
  OBVIOUS
<1>6. <<x - 1, x>> \in R /\ x - 1 \in B
  <2> HIDE DEF R
  <2>1. <<x - 1, (x - 1) + 1>> \in R
    BY <1>3, <1>5
  <2> QED
    BY <1>5, <2>1
<1> HIDE DEF R, B
<1> QED
  BY <1>4, <1>6

(* parts[i] joins the first i sequences. *)
Joins(parts, S, seqs, n) ==
  /\ parts \in [0..n -> Seq(S)] /\ parts[0] = <<>>
  /\ \A i \in 1..n : parts[i] = parts[i - 1] \o seqs[i]

LEMMA JoinsExist ==
  ASSUME NEW S, NEW n \in Nat, NEW seqs \in [1..n -> Seq(S)]
  PROVE  \E parts : Joins(parts, S, seqs, n)
<1> DEFINE T == {m \in Nat : m <= n => \E parts : Joins(parts, S, seqs, m)}
<1>1. 0 \in T
  <2>1. Joins([i \in 0..0 |-> <<>>], S, seqs, 0)
    BY DEF Joins
  <2> QED
    BY <2>1
<1>2. ASSUME NEW m \in Nat, m \in T
      PROVE  m + 1 \in T
  <2> SUFFICES ASSUME m + 1 <= n
               PROVE  \E parts : Joins(parts, S, seqs, m + 1)
    OBVIOUS
  <2>1. PICK f : Joins(f, S, seqs, m)
    BY <1>2
  <2>2. f[m] \o seqs[m + 1] \in Seq(S)
    <3>1. f[m] \in Seq(S) /\ seqs[m + 1] \in Seq(S)
      BY <2>1 DEF Joins
    <3> QED
      BY <3>1, ConcatProperties
  <2> DEFINE g == [i \in 0..(m + 1) |-> IF i = m + 1 THEN f[m] \o seqs[i] ELSE f[i]]
  <2>3. g \in [0..(m + 1) -> Seq(S)] /\ g[0] = <<>>
    BY <2>1, <2>2 DEF Joins
  <2>4. ASSUME NEW i \in 1..(m + 1) PROVE g[i] = g[i - 1] \o seqs[i]
    <3>1. CASE i = m + 1
      <4>1. g[i - 1] = f[m] /\ i - 1 = m /\ i \in 0..(m + 1)
        BY <3>1
      <4>2. g[i] = f[m] \o seqs[i]
        BY <3>1, <4>1, Zenon
      <4> QED
        BY <4>1, <4>2, Zenon
    <3>2. CASE i # m + 1
      <4>1. i \in 1..m /\ g[i - 1] = f[i - 1] /\ g[i] = f[i]
        <5>1. i \in 1..m /\ i \in 0..(m + 1) /\ i - 1 \in 0..(m + 1) /\ i - 1 # m + 1
          BY <3>2
        <5> QED
          BY <3>2, <5>1, Zenon
      <4>2. f[i] = f[i - 1] \o seqs[i]
        BY <4>1, <2>1, Zenon DEF Joins
      <4> QED
        BY <4>1, <4>2, Zenon
    <3> QED
      BY <3>1, <3>2
  <2>5. Joins(g, S, seqs, m + 1)
    <3> HIDE DEF g
    <3> QED
      BY <2>3, <2>4 DEF Joins
  <2> QED
    BY <2>5
<1>3. Nat \subseteq T
  <2> HIDE DEF T
  <2> QED
    BY <1>1, <1>2, Induction
<1> QED
  BY <1>3

(* FlattenSeq joins them all. *)
LEMMA FlattenJoins ==
  ASSUME NEW S, NEW n \in Nat, NEW seqs \in [1..n -> Seq(S)]
  PROVE  \E parts : Joins(parts, S, seqs, n) /\ FlattenSeq(seqs) = parts[n]
<1>1. Len(seqs) = n
  BY LenProperties
<1>2. PICK parts : Joins(parts, S, seqs, n)
  BY JoinsExist
<1>3. CASE n = 0
  <2>1. seqs = <<>>
    BY <1>3
  <2> QED
    BY <1>1, <1>2, <1>3, <2>1 DEF FlattenSeq, Joins
<1>4. CASE n # 0
  <2> DEFINE Unfold(g) == [i \in 1..n |-> IF i = 1 THEN seqs[i] ELSE g[i - 1] \o seqs[i]]
             flat == CHOOSE g : g = Unfold(g)
             f == [i \in 1..n |-> parts[i]]
  <2>1. parts[1] = seqs[1]
    <3>1. 1 \in 1..n /\ seqs[1] \in Seq(S)
      BY <1>4
    <3>2. parts[1] = parts[1 - 1] \o seqs[1] /\ parts[0] = <<>>
      BY <3>1, <1>2, Zenon DEF Joins
    <3>3. parts[1 - 1] = <<>>
      BY <3>2
    <3>4. parts[1] = <<>> \o seqs[1]
      BY <3>2, <3>3, Zenon
    <3> QED
      BY <3>1, <3>4, ConcatEmptySeq
  <2>2. f = Unfold(f)
    <3>1. ASSUME NEW i \in 1..n PROVE f[i] = Unfold(f)[i]
      <4>1. CASE i = 1
        BY <4>1, <2>1, Zenon
      <4>2. CASE i # 1
        <5>1. parts[i] = parts[i - 1] \o seqs[i]
          BY <1>2, Zenon DEF Joins
        <5>2. i - 1 \in 1..n
          BY <4>2
        <5>3. f[i - 1] = parts[i - 1] /\ f[i] = parts[i]
          BY <5>2, Zenon
        <5>4. Unfold(f)[i] = f[i - 1] \o seqs[i]
          BY <4>2, Zenon
        <5> QED
          BY <5>1, <5>3, <5>4, Zenon
      <4> QED
        BY <4>1, <4>2
    <3> QED
      BY <3>1, Zenon
  <2>3. flat = Unfold(flat)
    <3> HIDE DEF Unfold
    <3> QED
      BY <2>2
  <2>4. FlattenSeq(seqs) = flat[n]
    BY <1>1, <1>4 DEF FlattenSeq
  <2> HIDE DEF flat
  <2>5. flat[1] = seqs[1] /\ \A i \in 2..n : flat[i] = flat[i - 1] \o seqs[i]
    <3>1. 1 \in 1..n /\ \A i \in 2..n : i \in 1..n /\ i # 1
      BY <1>4
    <3>2. \A i \in 1..n : flat[i] = IF i = 1 THEN seqs[i] ELSE flat[i - 1] \o seqs[i]
      BY <2>3, Zenon
    <3> QED
      BY <3>1, <3>2, Zenon
  <2> DEFINE T == {m \in Nat : m + 1 <= n => flat[m + 1] = parts[m + 1]}
  <2>6. 0 \in T
    BY <2>1, <2>5
  <2>7. ASSUME NEW m \in Nat, m \in T PROVE m + 1 \in T
    <3> SUFFICES ASSUME (m + 1) + 1 <= n PROVE flat[(m + 1) + 1] = parts[(m + 1) + 1]
      OBVIOUS
    <3>1. (m + 1) + 1 \in 2..n /\ (m + 1) + 1 \in 1..n /\ ((m + 1) + 1) - 1 = m + 1 /\ m + 1 <= n
      OBVIOUS
    <3> QED
      BY <2>5, <2>7, <3>1, <1>2 DEF Joins
  <2>8. Nat \subseteq T
    <3> HIDE DEF T
    <3> QED
      BY <2>6, <2>7, Induction
  <2>9. n - 1 \in Nat /\ (n - 1) + 1 = n
    BY <1>4
  <2>10. flat[n] = parts[n]
    BY <2>8, <2>9
  <2> QED
    BY <1>2, <2>4, <2>10
<1> QED
  BY <1>3, <1>4

-----------------------------------------------------------------------------
(***************************************************************************)
(* The session.                                                            *)
(***************************************************************************)

ChunkSize(e) == Smaller(chunkRows, Rows(e) - cursors[e])
ChunkEnd(e) == cursors[e] + ChunkSize(e)

IsSeq(s) == s \in Seq({s[i] : i \in DOMAIN s})

(* Before a session opens nothing has happened to it. *)
Opening ==
  /\ plan = "selected" /\ chunkRows = 0 => Executions = 0 \/ maximumRows = 0
  /\ session # "open" =>
       /\ host = "idle" /\ ~failed /\ ~disposed
       /\ \A e \in Bindings : cursors[e] = 0 /\ delivered[e] = <<>>
       /\ \A c \in Callers : call[c] = "idle"
  /\ session \in {"planning", "compiling"} => buffers = "none"
  /\ session \in {"compiling", "allocating", "open"} => plan = "selected"

(* All bindings have run k chunks, or to their end, and no row of those    *)
(* was bad, nor is one of those that are being delivered.                  *)
InStep ==
  \E k \in Nat :
    /\ \A e \in Bindings : cursors[e] = Smaller(k * chunkRows, Rows(e))
    /\ \A b \in Bindings : \A r \in badTimes[b] :
         /\ k * chunkRows <= r
         /\ host = "deliver" => (k + 1) * chunkRows <= r

(* What waits for delivery are the rows of the chunk that have not been    *)
(* delivered, in order.                                                    *)
Waiting ==
  /\ outbox \in Seq([binding : Bindings, row : Nat])
  /\ \A e \in Bindings : Len(delivered[e]) <= ChunkEnd(e)
  /\ \A i \in 1..Len(outbox) :
       /\ Len(delivered[outbox[i].binding]) <= outbox[i].row
       /\ outbox[i].row < ChunkEnd(outbox[i].binding)
  /\ \A e \in Bindings, row \in Nat :
       Len(delivered[e]) <= row /\ row < ChunkEnd(e) =>
         \E i \in 1..Len(outbox) : outbox[i].binding = e /\ outbox[i].row = row
  /\ \A i, j \in 1..Len(outbox) :
       i < j /\ outbox[i].binding = outbox[j].binding => outbox[i].row < outbox[j].row

Deliveries ==
  /\ delivered = [e \in Bindings |-> delivered[e]]
  /\ \A e \in Bindings :
       /\ IsSeq(delivered[e])
       /\ \A i \in 1..Len(delivered[e]) : delivered[e][i].row = i - 1
       /\ host # "deliver" /\ ~failed => Len(delivered[e]) = cursors[e]
  /\ host = "deliver" => Waiting

(* The first conjunct of ChunksAreAtomic. *)
BadRowsWithheld ==
  \A e, b \in Bindings : \A r \in badTimes[b] :
    chunkRows > 0 => Len(delivered[e]) <= (r \div chunkRows) * chunkRows

(* A chunk that runs or has failed left rows to do, and a call that        *)
(* resolved found none.                                                    *)
Ending ==
  /\ failed \in BOOLEAN /\ failed => host = "idle"
  /\ failed \/ Running => ~Done
  /\ host # "idle" => owner \in Callers
  /\ (\E c \in Callers : call[c] = "resolved") => Done

Typed == IInv /\ SessionGiven /\ TypeOK

SessionInv ==
  /\ Typed /\ Opening /\ InStep /\ Deliveries /\ BadRowsWithheld /\ Ending

LEMMA ExecutionsNat == Executions \in Nat
BY PlannerAssumption DEF PlannerAssumption

(* The rows of a chunk. *)
LEMMA ChunkIs ==
  ASSUME Typed, NEW e \in Bindings
  PROVE  /\ Rows(e) \in Nat /\ cursors[e] \in Nat /\ chunkRows \in Nat
         /\ ChunkSize(e) \in Nat /\ ChunkEnd(e) \in Nat
         /\ cursors[e] <= ChunkEnd(e) /\ ChunkEnd(e) <= Rows(e)
         /\ ChunkRowsOf(e) = cursors[e]..(ChunkEnd(e) - 1)
         /\ Cardinality(ChunkRowsOf(e)) = ChunkSize(e)
<1>1. Rows(e) \in Nat /\ cursors[e] \in Nat /\ chunkRows \in Nat /\ cursors[e] <= Rows(e)
  BY LenProperties DEF Typed, IInv, Ranges, SessionGiven, TypeOK, Rows
<1>2. ChunkSize(e) \in Nat /\ ChunkSize(e) <= Rows(e) - cursors[e]
  BY <1>1 DEF ChunkSize, Smaller
<1>3. ChunkRowsOf(e) = cursors[e]..(cursors[e] + ChunkSize(e) - 1)
  BY DEF ChunkRowsOf, ChunkSize
<1>4. Cardinality(ChunkRowsOf(e)) = ChunkSize(e)
  <2> DEFINE last == cursors[e] + ChunkSize(e) - 1
  <2>1. /\ cursors[e] \in Int /\ last \in Int
        /\ cursors[e] > last => ChunkSize(e) = 0
        /\ last - cursors[e] + 1 = ChunkSize(e)
    BY <1>1, <1>2
  <2> HIDE DEF last
  <2>2. Cardinality(cursors[e]..last) = IF cursors[e] > last THEN 0 ELSE last - cursors[e] + 1
    BY <2>1, FS_Interval
  <2> QED
    BY <1>3, <2>1, <2>2 DEF last
<1> QED
  BY <1>1, <1>2, <1>3, <1>4 DEF ChunkEnd

(* Appending to a sequence, whatever it holds. *)
LEMMA AppendKeeps ==
  ASSUME NEW s, IsSeq(s), NEW x
  PROVE  /\ IsSeq(Append(s, x))
         /\ Len(s) \in Nat /\ Len(Append(s, x)) = Len(s) + 1
         /\ \A i \in 1..Len(s) : Append(s, x)[i] = s[i]
         /\ Append(s, x)[Len(s) + 1] = x
<1> DEFINE S == {s[i] : i \in DOMAIN s} \cup {x}
<1>1. s \in Seq(S) /\ x \in S
  <2>1. s \in Seq({s[i] : i \in DOMAIN s})
    BY DEF IsSeq
  <2> QED
    BY <2>1
<1>2. /\ Append(s, x) \in Seq(S) /\ Len(s) \in Nat /\ Len(Append(s, x)) = Len(s) + 1
      /\ \A i \in 1..Len(s) : Append(s, x)[i] = s[i]
      /\ Append(s, x)[Len(s) + 1] = x
  <2> HIDE DEF S
  <2> QED
    BY <1>1, AppendProperties
<1>3. IsSeq(Append(s, x))
  <2> DEFINE t == Append(s, x)
  <2>1. t \in Seq(S) /\ DOMAIN t = 1..Len(t) /\ Len(t) \in Nat
    BY <1>2
  <2> HIDE DEF t, S
  <2>2. t \in [1..Len(t) -> {t[i] : i \in DOMAIN t}]
    BY <2>1
  <2>3. t \in Seq({t[i] : i \in DOMAIN t})
    BY <2>1, <2>2, SeqDef
  <2> QED
    BY <2>3 DEF IsSeq, t
<1> QED
  BY <1>2, <1>3

(* Multiples of the chunk. *)
LEMMA Product ==
  ASSUME NEW k \in Nat, NEW c \in Nat
  PROVE  k * c \in Nat /\ 0 * c = 0 /\ (k + 1) * c = k * c + c
OBVIOUS

LEMMA Quotient ==
  ASSUME NEW r \in Nat, NEW c \in Nat, c > 0
  PROVE  /\ r \div c \in Nat /\ 0 <= (r \div c) * c
         /\ \A k \in Nat : k * c <= r => k * c <= (r \div c) * c
<1>1. r \div c \in Nat /\ (r \div c) * c <= r /\ r < ((r \div c) + 1) * c
  OBVIOUS
<1>2. ASSUME NEW q \in Nat, r < (q + 1) * c, NEW k \in Nat, k * c <= r PROVE k * c <= q * c
  <2>1. ASSUME k > q PROVE FALSE
    <3>1. k - (q + 1) \in Nat /\ (k - (q + 1)) * c >= 0
      BY <2>1
    <3>2. k * c = (q + 1) * c + (k - (q + 1)) * c
      BY <2>1
    <3> QED
      BY <1>2, <3>1, <3>2
  <2>2. k <= q
    BY <2>1
  <2>3. q - k \in Nat /\ (q - k) * c >= 0
    BY <2>2
  <2>4. q * c = k * c + (q - k) * c
    BY <2>2
  <2> QED
    BY <2>3, <2>4
<1>3. 0 <= (r \div c) * c
  BY <1>1, Product
<1> QED
  BY <1>1, <1>2, <1>3

(* What is changed before a session opens, on the device or by dispose()   *)
(* does not touch what the host knows of rows.                             *)
LEMMA HostUntouched ==
  ASSUME SessionInv, UNCHANGED <<fixed, search, owner, outbox, cursors, failed, delivered, call>>,
         host' = host \/ (host = "device" /\ host' = "read"),
         TypeOK', Opening'
  PROVE  SessionInv'
<1>1. UNCHANGED <<limit, maximumRows, series, badTimes, storage, plan, low, high, chunkRows,
                  owner, outbox, cursors, failed, delivered, call>>
  BY DEF fixed, given, search
<1> USE <1>1 DEF SessionInv
<1>2. IInv'
  BY StepInv DEF Typed, given, search
<1>3. Typed'
  BY <1>2 DEF Typed, SessionGiven, Rows
<1>4. InStep' /\ BadRowsWithheld'
  BY DEF InStep, BadRowsWithheld, Rows, Smaller
<1>5. Ending'
  BY DEF Ending, Running, Done, Inert, Complete, Rows
<1>6. Deliveries'
  <2>1. \A e : ChunkEnd(e)' = ChunkEnd(e)
    BY DEF ChunkEnd, ChunkSize, Rows, Smaller
  <2>2. host = "deliver" => Waiting'
    <3> SUFFICES ASSUME host = "deliver" PROVE Waiting'
      OBVIOUS
    <3>1. Waiting
      BY DEF Deliveries
    <3> QED
      BY <2>1, <3>1 DEF Waiting
  <2>3. host' # host => host # "deliver" /\ host' # "deliver"
    OBVIOUS
  <2>4. delivered' = delivered /\ failed' = failed /\ cursors' = cursors
    OBVIOUS
  <2>5. /\ delivered' = [e \in Bindings |-> delivered'[e]]
        /\ \A e \in Bindings :
             /\ IsSeq(delivered[e])'
             /\ \A i \in 1..Len(delivered'[e]) : delivered'[e][i].row = i - 1
    BY <2>4 DEF Deliveries, IsSeq
  <2>6. \A e \in Bindings : host' # "deliver" /\ ~failed' => Len(delivered'[e]) = cursors'[e]
    BY <2>3, <2>4 DEF Deliveries
  <2>7. host' = "deliver" => Waiting'
    BY <2>2, <2>3
  <2> QED
    BY <2>5, <2>6, <2>7 DEF Deliveries
<1> QED
  BY <1>3, <1>4, <1>5, <1>6

LEMMA UntouchedSteps ==
  ASSUME SessionInv,
         \/ Planned \/ Compiled \/ Allocate \/ Open \/ OpenFails
         \/ \E e \in Bindings : DeviceStep(e)
         \/ ReadBack \/ Dispose
  PROVE  SessionInv'
<1>1. UNCHANGED <<fixed, search, owner, outbox, cursors, failed, delivered, call>>
  BY DEF Planned, Compiled, Allocate, Open, OpenFails, DeviceStep, Start, Row, EndRows, Flush,
         ReadBack, Dispose, chunk
<1>2. host' = host \/ (host = "device" /\ host' = "read")
  BY DEF Planned, Compiled, Allocate, Open, OpenFails, DeviceStep, Start, Row, EndRows, Flush,
         ReadBack, Dispose, chunk
<1>3. UNCHANGED <<series, plan, chunkRows, maximumRows, cursors, delivered, failed, call>>
  BY <1>1 DEF fixed, search, given
<1>4. \/ /\ session = "planning" /\ plan # "search" /\ UNCHANGED <<buffers, disposed, host>>
         /\ session' \in IF plan = "refused" THEN {"rejected"} ELSE {"open", "rejected", "compiling"}
      \/ /\ session = "compiling" /\ session' \in {"allocating", "rejected"}
         /\ UNCHANGED <<buffers, disposed, host>>
      \/ /\ session = "allocating" /\ session' = "allocating" /\ buffers' = "live"
         /\ UNCHANGED <<disposed, host>>
      \/ /\ session = "allocating" /\ session' = "open" /\ UNCHANGED <<buffers, disposed, host>>
      \/ /\ session = "allocating" /\ session' = "rejected" /\ UNCHANGED <<disposed, host>>
         /\ buffers' = IF buffers = "none" THEN buffers ELSE "destroyed"
      \/ UNCHANGED <<session, buffers, disposed>> /\ (host' = host \/ host = "device")
      \/ /\ session = "open" /\ disposed' = TRUE /\ UNCHANGED <<session, host>>
         /\ buffers' = IF buffers = "live" THEN "destroyed" ELSE buffers
  <2>1. CASE Planned
    BY <2>1 DEF Planned, chunk
  <2>2. CASE Compiled
    BY <2>2 DEF Compiled, chunk
  <2>3. CASE Allocate
    BY <2>3 DEF Allocate, chunk
  <2>4. CASE Open
    BY <2>4 DEF Open, chunk
  <2>5. CASE OpenFails
    BY <2>5 DEF OpenFails, chunk
  <2>6. CASE \E e \in Bindings : DeviceStep(e)
    BY <2>6 DEF DeviceStep, Start, Row, EndRows, Flush, chunk
  <2>7. CASE ReadBack
    BY <2>7 DEF ReadBack
  <2>8. CASE Dispose
    BY <2>8 DEF Dispose, chunk
  <2> QED
    BY <2>1, <2>2, <2>3, <2>4, <2>5, <2>6, <2>7, <2>8
<1>5. plan \in {"search", "selected", "refused"}
  BY DEF SessionInv, Typed, IInv, Ranges
<1>6. Opening'
  BY <1>2, <1>3, <1>4, <1>5 DEF SessionInv, Opening
<1>7. TypeOK'
  <2>1. /\ call' \in [Callers -> {"idle", "loop", "all", "chunk", "resolved", "rejected"}]
        /\ cursors' \in [Bindings -> Nat]
        /\ \A e \in Bindings : cursors'[e] <= Rows(e)'
    BY <1>3 DEF SessionInv, Typed, TypeOK, Rows
  <2>2. /\ session' \in {"planning", "compiling", "allocating", "open", "rejected"}
        /\ buffers' \in {"none", "live", "destroyed"}
        /\ host' \in {"idle", "device", "read", "deliver"}
    BY <1>2, <1>4 DEF SessionInv, Typed, TypeOK
  <2>3. session' = "rejected" => buffers' # "live"
    BY <1>4 DEF SessionInv, Typed, TypeOK, Opening
  <2>4. disposed' => buffers' # "live"
    BY <1>4 DEF SessionInv, Typed, TypeOK, Opening
  <2> QED
    BY <2>1, <2>2, <2>3, <2>4 DEF TypeOK
<1> QED
  BY <1>1, <1>2, <1>6, <1>7, HostUntouched

(* Planning changes the chunk, while there is nothing it could have held.  *)
LEMMA PlanKeeps ==
  ASSUME SessionInv, Plan
  PROVE  SessionInv'
<1> USE DEF SessionInv
<1>1. /\ session = "planning" /\ PlannerNext
      /\ UNCHANGED <<maximumRows, series, badTimes, session, buffers, disposed, call,
                     host, owner, outbox, cursors, failed, delivered>>
  BY DEF Plan, PlannerNext, given, chunk
<1>2. IInv'
  BY <1>1, StepInv DEF Typed
<1>3. Typed'
  BY <1>1, <1>2 DEF Typed, SessionGiven, TypeOK, Rows
<1>4. /\ host = "idle" /\ ~failed /\ ~disposed
      /\ \A e \in Bindings : cursors[e] = 0 /\ delivered[e] = <<>>
      /\ \A c \in Callers : call[c] = "idle"
  BY <1>1 DEF Opening
<1>5. Opening'
  <2>1. plan' = "selected" /\ chunkRows' = 0 => Executions = 0 \/ maximumRows' = 0
    BY <1>1 DEF PlannerNext, PlanNothing, PlanMinimum, Probe, Select
  <2> QED
    BY <1>1, <1>4, <2>1 DEF Opening
<1>6. InStep'
  <2>1. chunkRows' \in Nat
    BY <1>2 DEF IInv, Ranges
  <2>2. 0 * chunkRows' = 0
    BY <2>1, Product
  <2>3. \A e \in Bindings : Rows(e)' \in Nat /\ cursors'[e] = 0
    BY <1>1, <1>3, <1>4, LenProperties DEF Typed, SessionGiven, Rows
  <2>4. \A b \in Bindings : \A r \in badTimes'[b] : 0 <= r
    BY <1>3 DEF Typed, SessionGiven
  <2>5. host' # "deliver"
    BY <1>1, <1>4
  <2> QED
    BY <2>2, <2>3, <2>4, <2>5 DEF InStep, Smaller
<1>7. Deliveries'
  BY <1>1, <1>4 DEF Deliveries
<1>8. BadRowsWithheld'
  <2> SUFFICES ASSUME NEW e \in Bindings, NEW b \in Bindings, NEW r \in badTimes'[b], chunkRows' > 0
               PROVE  Len(delivered'[e]) <= (r \div chunkRows') * chunkRows'
    BY DEF BadRowsWithheld
  <2>1. Len(delivered'[e]) = 0
    BY <1>1, <1>4
  <2>2. r \in Nat /\ chunkRows' \in Nat
    BY <1>2, <1>3 DEF Typed, SessionGiven, IInv, Ranges
  <2>3. 0 <= (r \div chunkRows') * chunkRows'
    BY <2>2, Quotient, Product
  <2> QED
    BY <2>1, <2>3
<1>9. Ending'
  BY <1>1, <1>4 DEF Ending, Running
<1> QED
  BY <1>3, <1>5, <1>6, <1>7, <1>8, <1>9

(* A call is answered, or starts a chunk, when there is one to run.        *)
LEMMA CallKeeps ==
  ASSUME SessionInv, NEW c \in Callers, RunChunk(c) \/ RunAll(c) \/ Again(c)
  PROVE  SessionInv'
<1> USE DEF SessionInv
<1>1. /\ UNCHANGED <<limit, maximumRows, series, badTimes, storage, plan, low, high, chunkRows,
                     session, buffers, disposed, outbox, cursors, failed, delivered>>
      /\ \/ Done /\ call' = [call EXCEPT ![c] = "resolved"] /\ UNCHANGED <<host, owner>>
         \/ call' = [call EXCEPT ![c] = "rejected"] /\ UNCHANGED <<host, owner>>
         \/ /\ ~Done /\ ~failed /\ host = "idle" /\ host' = "device" /\ owner' = c
            /\ \E kind \in {"chunk", "all"} : call' = [call EXCEPT ![c] = kind]
  <2>1. CASE RunChunk(c)
    BY <2>1 DEF RunChunk, Answer, Dispatch, Refused, Running, fixed, given, search, chunk
  <2>2. CASE RunAll(c)
    BY <2>2 DEF RunAll, Turn, Answer, Dispatch, Refused, Running, fixed, given, search, chunk
  <2>3. CASE Again(c)
    BY <2>3 DEF Again, Turn, Answer, Dispatch, Refused, Running, fixed, given, search, chunk
  <2> QED
    BY <2>1, <2>2, <2>3
<1>2. session = "open"
  <2>1. CASE RunChunk(c) \/ RunAll(c)
    BY <2>1 DEF RunChunk, RunAll
  <2>2. CASE Again(c) /\ session # "open"
    (* Nothing called a session that is not open. *)
    BY <2>2 DEF Again, Opening
  <2> QED
    BY <2>1, <2>2
<1>3. /\ c \in Callers /\ call \in [Callers -> {"idle", "loop", "all", "chunk", "resolved", "rejected"}]
      /\ call' \in [Callers -> {"idle", "loop", "all", "chunk", "resolved", "rejected"}]
  BY <1>1 DEF Typed, TypeOK
<1>4. IInv'
  BY <1>1, StepInv DEF Typed, given, search
<1>5. host' = host \/ host' = "device"
  BY <1>1
<1>6. Typed'
  BY <1>1, <1>3, <1>4 DEF Typed, SessionGiven, TypeOK, Rows
<1>7. Opening'
  BY <1>1, <1>2 DEF Opening
<1>8. InStep' /\ BadRowsWithheld'
  BY <1>1 DEF InStep, BadRowsWithheld, Rows, Smaller
<1>9. Done' = Done
  BY <1>1 DEF Done, Inert, Complete, Rows
<1>10. Ending'
  <2>1. (\E d \in Callers : call'[d] = "resolved") => Done
    BY <1>1, <1>3 DEF Ending
  <2> QED
    BY <1>1, <1>9, <2>1 DEF Ending, Running
<1>11. Deliveries'
  <2>1. \A e : ChunkEnd(e)' = ChunkEnd(e)
    BY <1>1 DEF ChunkEnd, ChunkSize, Rows, Smaller
  <2>2. host = "deliver" => Waiting'
    <3> SUFFICES ASSUME host = "deliver" PROVE Waiting'
      OBVIOUS
    <3>1. Waiting
      BY DEF Deliveries
    <3> QED
      BY <1>1, <2>1, <3>1 DEF Waiting
  <2>3. host' # host => host # "deliver" /\ host' # "deliver"
    BY <1>1
  <2>4. delivered' = delivered /\ failed' = failed /\ cursors' = cursors
    BY <1>1
  <2>5. /\ delivered' = [e \in Bindings |-> delivered'[e]]
        /\ \A e \in Bindings :
             /\ IsSeq(delivered[e])'
             /\ \A i \in 1..Len(delivered'[e]) : delivered'[e][i].row = i - 1
    BY <2>4 DEF Deliveries, IsSeq
  <2>6. \A e \in Bindings : host' # "deliver" /\ ~failed' => Len(delivered'[e]) = cursors'[e]
    BY <2>3, <2>4 DEF Deliveries
  <2>7. host' = "deliver" => Waiting'
    BY <2>2, <2>3
  <2> QED
    BY <2>5, <2>6, <2>7 DEF Deliveries
<1> QED
  BY <1>6, <1>7, <1>8, <1>10, <1>11
(* A chunk that fails leaves its session failed, with what was delivered.  *)
LEMMA FailureKeeps ==
  ASSUME SessionInv, host # "idle", ChunkFails,
         UNCHANGED <<fixed, search, session, buffers, disposed>>,
         delivered' = [e \in Bindings |-> delivered'[e]],
         \A e \in Bindings :
           /\ IsSeq(delivered'[e])
           /\ \A i \in 1..Len(delivered'[e]) : delivered'[e][i].row = i - 1,
         BadRowsWithheld'
  PROVE  SessionInv'
<1> USE DEF SessionInv
<1>1. /\ UNCHANGED <<limit, maximumRows, series, badTimes, storage, plan, low, high, chunkRows,
                     session, buffers, disposed, cursors>>
      /\ host' = "idle" /\ failed' = TRUE /\ call' = [call EXCEPT ![owner] = "rejected"]
  BY DEF fixed, given, search, ChunkFails
<1>2. IInv'
  BY <1>1, StepInv DEF Typed, given, search
<1>3. Typed'
  <2>1. call' \in [Callers -> {"idle", "loop", "all", "chunk", "resolved", "rejected"}]
    BY <1>1 DEF Typed, TypeOK
  <2>2. TypeOK'
    BY <1>1, <2>1 DEF Typed, TypeOK, Rows
  <2> QED
    BY <1>1, <1>2, <2>2 DEF Typed, SessionGiven, Rows
<1>4. Opening'
  BY <1>1 DEF Opening
<1>5. InStep'
  BY <1>1 DEF InStep, Rows, Smaller
<1>6. Deliveries'
  <2>1. \A e \in Bindings : IsSeq(delivered[e])'
    BY DEF IsSeq
  <2> QED
    BY <1>1, <2>1 DEF Deliveries
<1>7. Ending'
  <2>1. Done' = Done
    BY <1>1 DEF Done, Inert, Complete, Rows
  <2>2. ~Done
    BY DEF Ending, Running
  <2>3. ~ \E d \in Callers : call'[d] = "resolved"
    BY <1>1, <2>2 DEF Ending, Typed, TypeOK
  <2> QED
    BY <1>1, <2>1, <2>2, <2>3 DEF Ending, Running
<1> QED
  BY <1>3, <1>4, <1>5, <1>6, <1>7

(* The rows of the first n bindings' chunks, as they will be delivered.    *)
ChunkItems == [e \in Bindings |-> [i \in 1..Cardinality(ChunkRowsOf(e)) |-> [binding |-> e, row |-> cursors[e] + i - 1]]]

Items == [binding : Bindings, row : Nat]

InChunks(s, n) ==
  /\ s \in Seq(Items)
  /\ \A i \in 1..Len(s) :
       /\ s[i].binding \in 1..n
       /\ cursors[s[i].binding] <= s[i].row /\ s[i].row < ChunkEnd(s[i].binding)
  /\ \A e \in 1..n, row \in Nat :
       cursors[e] <= row /\ row < ChunkEnd(e) =>
         \E i \in 1..Len(s) : s[i].binding = e /\ s[i].row = row
  /\ \A i, j \in 1..Len(s) : i < j /\ s[i].binding = s[j].binding => s[i].row < s[j].row

LEMMA ItemsOf ==
  ASSUME Typed, NEW e \in Bindings
  PROVE  /\ ChunkItems[e] \in Seq(Items) /\ Len(ChunkItems[e]) = ChunkSize(e)
         /\ \A i \in 1..ChunkSize(e) : ChunkItems[e][i] = [binding |-> e, row |-> cursors[e] + i - 1]
<1>1. ChunkItems[e] = [i \in 1..ChunkSize(e) |-> [binding |-> e, row |-> cursors[e] + i - 1]]
  BY ChunkIs DEF ChunkItems
<1>2. ChunkSize(e) \in Nat /\ cursors[e] \in Nat
  BY ChunkIs
<1>3. \A i \in 1..ChunkSize(e) : [binding |-> e, row |-> cursors[e] + i - 1] \in Items
  BY <1>2 DEF Items
<1>4. ChunkItems[e] \in [1..ChunkSize(e) -> Items]
  BY <1>1, <1>3
<1>5. ChunkItems[e] \in Seq(Items)
  BY <1>2, <1>4, SeqDef
<1>6. Len(ChunkItems[e]) = ChunkSize(e)
  BY <1>2, <1>4, <1>5
<1> QED
  BY <1>1, <1>5, <1>6

LEMMA ItemsJoined ==
  ASSUME Typed
  PROVE  InChunks(FlattenSeq(ChunkItems), Executions)
<1>1. Executions \in Nat
  BY ExecutionsNat
<1>2. ChunkItems \in [1..Executions -> Seq(Items)]
  <2>1. \A e \in Bindings : ChunkItems[e] \in Seq(Items)
    BY ItemsOf
  <2>2. ChunkItems = [e \in Bindings |-> ChunkItems[e]]
    BY DEF ChunkItems
  <2> QED
    BY <2>1, <2>2 DEF Bindings
<1>3. PICK parts : Joins(parts, Items, ChunkItems, Executions) /\ FlattenSeq(ChunkItems) = parts[Executions]
  BY <1>1, <1>2, FlattenJoins
<1> DEFINE T == {n \in Nat : n <= Executions => InChunks(parts[n], n)}
<1>4. 0 \in T
  <2>1. parts[0] = <<>>
    BY <1>3 DEF Joins
  <2>2. InChunks(<<>>, 0)
    BY DEF InChunks
  <2> QED
    BY <2>1, <2>2
<1>5. ASSUME NEW n \in Nat, n \in T PROVE n + 1 \in T
  <2> SUFFICES ASSUME n + 1 <= Executions PROVE InChunks(parts[n + 1], n + 1)
    OBVIOUS
  <2> DEFINE s == parts[n]
             t == ChunkItems[n + 1]
  <2>1. InChunks(s, n)
    BY <1>1, <1>5
  <2>2. parts[n + 1] = s \o t
    <3>1. n + 1 \in 1..Executions /\ (n + 1) - 1 = n
      BY <1>1
    <3> QED
      BY <1>3, <3>1 DEF Joins
  <2>3. /\ n + 1 \in Bindings
        /\ t \in Seq(Items) /\ Len(t) = ChunkSize(n + 1)
        /\ \A i \in 1..Len(t) : t[i].binding = n + 1 /\ t[i].row = cursors[n + 1] + i - 1
    <3>1. n + 1 \in Bindings
      BY <1>1 DEF Bindings
    <3>2. t \in Seq(Items) /\ Len(t) = ChunkSize(n + 1)
      BY <3>1, ItemsOf
    <3>3. \A i \in 1..ChunkSize(n + 1) : t[i] = [binding |-> n + 1, row |-> cursors[n + 1] + i - 1]
      BY <3>1, ItemsOf, Zenon
    <3> HIDE DEF t
    <3> QED
      BY <3>1, <3>2, <3>3
  <2>4. /\ cursors[n + 1] \in Nat /\ ChunkSize(n + 1) \in Nat
        /\ ChunkEnd(n + 1) = cursors[n + 1] + ChunkSize(n + 1)
    BY <2>3, ChunkIs DEF ChunkEnd
  <2>5. s \in Seq(Items)
    BY <2>1 DEF InChunks
  <2> HIDE DEF s, t
  <2>6. /\ s \o t \in Seq(Items) /\ Len(s \o t) = Len(s) + Len(t) /\ Len(s) \in Nat /\ Len(t) \in Nat
        /\ \A i \in 1..Len(s) + Len(t) : (s \o t)[i] = IF i <= Len(s) THEN s[i] ELSE t[i - Len(s)]
    BY <2>3, <2>5, ConcatProperties, LenProperties
  <2> DEFINE u == s \o t
  <2>7. /\ u \in Seq(Items) /\ Len(u) = Len(s) + Len(t)
        /\ \A i \in 1..Len(s) : u[i] = s[i]
        /\ \A i \in 1..Len(t) : u[Len(s) + i] = t[i]
        /\ \A i \in 1..Len(u) : i \in 1..Len(s) \/ (i - Len(s) \in 1..Len(t) /\ i = Len(s) + (i - Len(s)))
    BY <2>6
  <2> HIDE DEF u
  <2>8. ASSUME NEW i \in 1..Len(u)
        PROVE  \/ i \in 1..Len(s) /\ u[i] = s[i]
               \/ i > Len(s) /\ u[i].binding = n + 1 /\ u[i].row = cursors[n + 1] + (i - Len(s)) - 1
                  /\ i - Len(s) \in 1..Len(t)
    <3>1. CASE i \in 1..Len(s)
      BY <3>1, <2>7
    <3>2. CASE i \notin 1..Len(s)
      <4>1. i - Len(s) \in 1..Len(t) /\ i = Len(s) + (i - Len(s)) /\ i > Len(s)
        BY <3>2, <2>6, <2>7
      <4>2. u[i] = t[i - Len(s)]
        BY <4>1, <2>7
      <4> QED
        BY <4>1, <4>2, <2>3
    <3> QED
      BY <3>1, <3>2
  <2>9. ASSUME NEW i \in 1..Len(u)
        PROVE  /\ u[i].binding \in 1..(n + 1)
               /\ cursors[u[i].binding] <= u[i].row /\ u[i].row < ChunkEnd(u[i].binding)
    <3>1. CASE i \in 1..Len(s) /\ u[i] = s[i]
      BY <3>1, <2>1 DEF InChunks
    <3>2. CASE /\ u[i].binding = n + 1 /\ u[i].row = cursors[n + 1] + (i - Len(s)) - 1
               /\ i - Len(s) \in 1..Len(t)
      BY <3>2, <2>3, <2>4
    <3> QED
      BY <2>8, <3>1, <3>2
  <2>10. ASSUME NEW e \in 1..(n + 1), NEW row \in Nat, cursors[e] <= row, row < ChunkEnd(e)
         PROVE  \E i \in 1..Len(u) : u[i].binding = e /\ u[i].row = row
    <3>1. CASE e \in 1..n
      <4>1. PICK i \in 1..Len(s) : s[i].binding = e /\ s[i].row = row
        BY <2>1, <2>10, <3>1 DEF InChunks
      <4>2. i \in 1..Len(u) /\ u[i] = s[i]
        BY <2>6, <2>7
      <4> QED
        BY <4>1, <4>2
    <3>2. CASE e = n + 1
      <4> DEFINE i == row - cursors[n + 1] + 1
      <4>1. i \in 1..Len(t) /\ row = cursors[n + 1] + i - 1
        BY <2>3, <2>4, <2>10, <3>2
      <4> HIDE DEF i
      <4>2. Len(s) + i \in 1..Len(u) /\ u[Len(s) + i] = t[i]
        BY <2>6, <2>7, <4>1
      <4>3. t[i].binding = e /\ t[i].row = row
        BY <2>3, <3>2, <4>1
      <4> QED
        BY <4>2, <4>3
    <3> QED
      BY <3>1, <3>2
  <2>11. ASSUME NEW i \in 1..Len(u), NEW j \in 1..Len(u), i < j, u[i].binding = u[j].binding
         PROVE  u[i].row < u[j].row
    <3>1. CASE j \in 1..Len(s) /\ u[j] = s[j]
      <4>1. i \in 1..Len(s) /\ u[i] = s[i]
        BY <3>1, <2>6, <2>7, <2>11
      <4> QED
        BY <3>1, <4>1, <2>1, <2>11 DEF InChunks
    <3>2. CASE i \in 1..Len(s) /\ u[i] = s[i] /\ u[j].binding = n + 1
      <4>1. s[i].binding \in 1..n
        BY <3>2, <2>1 DEF InChunks
      <4> QED
        BY <3>2, <4>1, <2>11
    <3>3. CASE /\ u[i].row = cursors[n + 1] + (i - Len(s)) - 1
               /\ u[j].row = cursors[n + 1] + (j - Len(s)) - 1
      BY <3>3, <2>4, <2>6, <2>7, <2>11
    <3> QED
      BY <2>8, <3>1, <3>2, <3>3
  <2>12. InChunks(u, n + 1)
    BY <2>7, <2>9, <2>10, <2>11 DEF InChunks
  <2> QED
    BY <2>2, <2>12 DEF u
<1>6. Nat \subseteq T
  <2> HIDE DEF T
  <2> QED
    BY <1>4, <1>5, Induction
<1> QED
  BY <1>1, <1>3, <1>6
LEMMA ReadFailsKeeps ==
  ASSUME SessionInv, ReadFails
  PROVE  SessionInv'
<1> USE DEF SessionInv
<1>1. /\ host = "device" /\ ChunkFails /\ delivered' = delivered
      /\ UNCHANGED <<fixed, search, session, buffers, disposed>>
  BY DEF ReadFails
<1>2. BadRowsWithheld'
  BY <1>1 DEF BadRowsWithheld, fixed, search
<1>3. /\ delivered' = [e \in Bindings |-> delivered'[e]]
      /\ \A e \in Bindings :
           /\ IsSeq(delivered'[e])
           /\ \A i \in 1..Len(delivered'[e]) : delivered'[e][i].row = i - 1
  BY <1>1 DEF Deliveries
<1> HIDE DEF SessionInv
<1> QED
  BY <1>1, <1>2, <1>3, FailureKeeps

(* A chunk with a bad row is not published; one that is published has its  *)
(* rows waiting.                                                           *)
LEMMA PublishKeeps ==
  ASSUME SessionInv, Publish
  PROVE  SessionInv'
<1> USE DEF SessionInv
<1>1. /\ host = "read" /\ delivered' = delivered
      /\ UNCHANGED <<fixed, search, session, buffers, disposed>>
      /\ UNCHANGED <<limit, maximumRows, series, badTimes, storage, plan, low, high, chunkRows>>
  BY DEF Publish, fixed, given, search
<1>2. CASE Invalid
  <2>1. ChunkFails
    BY <1>2 DEF Publish
  <2>2. BadRowsWithheld'
    BY <1>1 DEF BadRowsWithheld
  <2>3. /\ delivered' = [e \in Bindings |-> delivered'[e]]
        /\ \A e \in Bindings :
             /\ IsSeq(delivered'[e])
             /\ \A i \in 1..Len(delivered'[e]) : delivered'[e][i].row = i - 1
    BY <1>1 DEF Deliveries
  <2> HIDE DEF SessionInv
  <2> QED
    BY <1>1, <2>1, <2>2, <2>3, FailureKeeps
<1>3. CASE ~Invalid
  <2>1. host' = "deliver" /\ outbox' = FlattenSeq(ChunkItems) /\ UNCHANGED <<owner, cursors, failed, call>>
    BY <1>3 DEF Publish, ChunkItems
  <2>2. IInv'
    BY <1>1, StepInv DEF Typed, given, search
  <2>3. Typed'
    BY <1>1, <2>1, <2>2 DEF Typed, SessionGiven, TypeOK, Rows
  <2>4. Opening'
    BY <1>1, <2>1 DEF Opening
  <2>5. ~failed
    BY <1>1 DEF Ending
  <2>6. InStep'
    <3>1. PICK k \in Nat :
            /\ \A e \in Bindings : cursors[e] = Smaller(k * chunkRows, Rows(e))
            /\ \A b \in Bindings : \A r \in badTimes[b] : k * chunkRows <= r
      BY DEF InStep
    <3>2. ASSUME NEW b \in Bindings, NEW r \in badTimes[b]
          PROVE  (k + 1) * chunkRows <= r
      <4>1. r \in Nat /\ r < Rows(b) /\ Rows(b) \in Nat /\ chunkRows \in Nat
        BY ChunkIs DEF Typed, SessionGiven
      <4>2. k * chunkRows \in Nat /\ (k + 1) * chunkRows = k * chunkRows + chunkRows
        BY <4>1, Product
      <4>3. cursors[b] = k * chunkRows
        BY <3>1, <4>1, <4>2 DEF Smaller
      <4>4. r \notin ChunkRowsOf(b)
        BY <1>3 DEF Invalid
      <4>5. ~ (cursors[b] <= r /\ r <= ChunkEnd(b) - 1)
        BY <4>1, <4>4, ChunkIs
      <4>6. ChunkEnd(b) = Smaller((k + 1) * chunkRows, Rows(b))
        BY <4>1, <4>2, <4>3 DEF ChunkEnd, ChunkSize, Smaller
      <4> QED
        BY <3>1, <4>1, <4>2, <4>3, <4>5, <4>6 DEF Smaller
    <3> QED
      BY <1>1, <2>1, <3>1, <3>2 DEF InStep, Rows, Smaller
  <2>7. Waiting'
    <3>1. InChunks(outbox', Executions)
      BY <2>1, ItemsJoined
    <3>2. \A e : ChunkEnd(e)' = ChunkEnd(e)
      BY <1>1, <2>1 DEF ChunkEnd, ChunkSize, Rows, Smaller
    <3>3. \A e \in Bindings : Len(delivered'[e]) = cursors[e] /\ cursors[e] <= ChunkEnd(e)
      BY <1>1, <2>5, ChunkIs DEF Deliveries
    <3> QED
      BY <3>1, <3>2, <3>3 DEF InChunks, Waiting, Items, Bindings
  <2>8. Deliveries'
    <3>1. \A e \in Bindings : IsSeq(delivered[e])'
      BY <1>1 DEF Deliveries, IsSeq
    <3> QED
      BY <1>1, <2>1, <2>7, <3>1 DEF Deliveries
  <2>9. BadRowsWithheld'
    BY <1>1 DEF BadRowsWithheld
  <2>10. Ending'
    BY <1>1, <2>1 DEF Ending, Running, Done, Inert, Complete, Rows
  <2> QED
    BY <2>3, <2>4, <2>6, <2>8, <2>9, <2>10
<1> QED
  BY <1>2, <1>3

(* The row that goes out is the next one of its binding.                   *)
LEMMA NextRow ==
  ASSUME SessionInv, host = "deliver", outbox # <<>>
  PROVE  /\ outbox \in Seq(Items) /\ Len(outbox) \in Nat /\ 1 \in 1..Len(outbox)
         /\ Head(outbox) = outbox[1] /\ outbox[1].binding \in Bindings
         /\ outbox[1].row = Len(delivered[outbox[1].binding])
         /\ outbox[1].row \in Nat /\ outbox[1].row < ChunkEnd(outbox[1].binding)
<1> USE DEF SessionInv
<1>1. Waiting /\ outbox \in Seq(Items)
  BY DEF Deliveries, Waiting, Items
<1>2. Len(outbox) \in Nat /\ 1 \in 1..Len(outbox) /\ Head(outbox) = outbox[1] /\ outbox[1] \in Items
  BY <1>1
<1> DEFINE e == outbox[1].binding
<1>3. e \in Bindings /\ outbox[1].row \in Nat
  BY <1>2 DEF Items
<1>4. Len(delivered[e]) <= outbox[1].row /\ outbox[1].row < ChunkEnd(e)
  BY <1>1, <1>2 DEF Waiting
<1>5. Len(delivered[e]) \in Nat /\ ChunkEnd(e) \in Nat
  BY <1>3, AppendKeeps, ChunkIs DEF Deliveries
<1>6. PICK i \in 1..Len(outbox) : outbox[i].binding = e /\ outbox[i].row = Len(delivered[e])
  <2>1. \A f \in Bindings, row \in Nat :
          Len(delivered[f]) <= row /\ row < ChunkEnd(f) =>
            \E i \in 1..Len(outbox) : outbox[i].binding = f /\ outbox[i].row = row
    BY <1>1 DEF Waiting
  <2>2. Len(delivered[e]) < ChunkEnd(e) /\ Len(delivered[e]) <= Len(delivered[e])
    BY <1>3, <1>4, <1>5
  <2> HIDE DEF e
  <2> QED
    BY <1>3, <1>5, <2>1, <2>2
<1>7. i = 1 \/ outbox[1].row < outbox[i].row
  BY <1>1, <1>2, <1>6 DEF Waiting
<1> QED
  BY <1>1, <1>2, <1>3, <1>4, <1>5, <1>6, <1>7

LEMMA DeliverKeeps ==
  ASSUME SessionInv, Deliver
  PROVE  SessionInv'
<1> DEFINE b == outbox[1].binding
           row == outbox[1].row
           x == Datum(b, row)
<1>1. /\ host = "deliver" /\ outbox # <<>>
      /\ UNCHANGED <<fixed, search, session, buffers, disposed>>
      /\ UNCHANGED <<limit, maximumRows, series, badTimes, storage, plan, low, high, chunkRows>>
  BY DEF Deliver, fixed, given, search
<1>2. /\ outbox \in Seq(Items) /\ Len(outbox) \in Nat /\ 1 \in 1..Len(outbox)
      /\ b \in Bindings /\ row = Len(delivered[b]) /\ row \in Nat /\ row < ChunkEnd(b)
  BY <1>1, NextRow
<1>3. delivered' = [delivered EXCEPT ![b] = Append(@, x)]
  <2>1. Head(outbox) = outbox[1]
    BY <1>1, NextRow
  <2> QED
    BY <2>1 DEF Deliver
<1>4. x.row = row
  BY DEF Datum
<1> HIDE DEF x, row, b
<1> USE DEF SessionInv
<1>5. Waiting /\ ~failed /\ ~Done
  BY <1>1 DEF Deliveries, Ending, Running
<1>6. /\ delivered'[b] = Append(delivered[b], x)
      /\ \A e \in Bindings : e # b => delivered'[e] = delivered[e]
      /\ delivered' = [e \in Bindings |-> delivered'[e]]
  BY <1>2, <1>3 DEF Deliveries
<1>7. \A e \in Bindings : IsSeq(delivered[e]) /\ Len(delivered[e]) \in Nat
  BY AppendKeeps DEF Deliveries
<1>8. /\ IsSeq(delivered'[b]) /\ Len(delivered'[b]) = row + 1
      /\ \A i \in 1..row : delivered'[b][i] = delivered[b][i]
      /\ delivered'[b][row + 1] = x
  BY <1>2, <1>6, <1>7, AppendKeeps
<1>9. \A e \in Bindings :
        /\ IsSeq(delivered'[e])
        /\ \A i \in 1..Len(delivered'[e]) : delivered'[e][i].row = i - 1
  <2>1. ASSUME NEW i \in 1..(row + 1) PROVE delivered'[b][i].row = i - 1
    <3>1. CASE i = row + 1
      BY <1>2, <1>4, <1>8, <3>1
    <3>2. CASE i # row + 1
      <4>1. i \in 1..row /\ i \in 1..Len(delivered[b])
        BY <1>2, <3>2
      <4> QED
        BY <1>2, <1>8, <4>1 DEF Deliveries
    <3> QED
      BY <3>1, <3>2
  <2>2. ASSUME NEW e \in Bindings, e # b
        PROVE  /\ IsSeq(delivered'[e])
               /\ \A i \in 1..Len(delivered'[e]) : delivered'[e][i].row = i - 1
    BY <1>6, <1>7, <2>2 DEF Deliveries
  <2> QED
    BY <1>8, <2>1, <2>2
<1>10. BadRowsWithheld'
  <2> SUFFICES ASSUME NEW e \in Bindings, NEW d \in Bindings, NEW r \in badTimes[d], chunkRows > 0
               PROVE  Len(delivered'[e]) <= (r \div chunkRows) * chunkRows
    BY <1>1 DEF BadRowsWithheld
  <2>1. CASE e # b
    BY <1>6, <2>1 DEF BadRowsWithheld
  <2>2. CASE e = b
    <3>1. PICK k \in Nat :
            /\ \A z \in Bindings : cursors[z] = Smaller(k * chunkRows, Rows(z))
            /\ (k + 1) * chunkRows <= r
      BY <1>1 DEF InStep
    <3>2. /\ Rows(b) \in Nat /\ cursors[b] \in Nat /\ chunkRows \in Nat /\ r \in Nat
          /\ ChunkEnd(b) \in Nat
      BY <1>2, ChunkIs DEF Typed, SessionGiven
    <3>3. k * chunkRows \in Nat /\ (k + 1) * chunkRows = k * chunkRows + chunkRows
      BY <3>2, Product
    <3>4. ChunkEnd(b) <= (k + 1) * chunkRows
      BY <1>2, <3>1, <3>2, <3>3 DEF ChunkEnd, ChunkSize, Smaller
    <3>5. (k + 1) * chunkRows <= (r \div chunkRows) * chunkRows
      <4>1. k + 1 \in Nat
        OBVIOUS
      <4> QED
        BY <3>1, <3>2, <4>1, Quotient
    <3>6. (k + 1) * chunkRows \in Nat /\ (r \div chunkRows) * chunkRows \in Nat
      <4>1. k + 1 \in Nat /\ r \div chunkRows \in Nat
        BY <3>2, Quotient
      <4> QED
        BY <3>2, <4>1, Product
    <3>7. row + 1 <= ChunkEnd(b) /\ Len(delivered'[e]) = row + 1
      BY <1>2, <1>8, <2>2, <3>2
    <3> DEFINE m == (k + 1) * chunkRows
               q == (r \div chunkRows) * chunkRows
    <3>8. m \in Nat /\ q \in Nat /\ ChunkEnd(b) <= m /\ m <= q
      BY <3>4, <3>5, <3>6
    <3> HIDE DEF m, q
    <3>9. Len(delivered'[e]) <= q
      BY <1>2, <3>2, <3>7, <3>8
    <3> QED
      BY <3>9 DEF q
  <2> QED
    BY <2>1, <2>2
<1>11. CASE ChunkFails
  <2> HIDE DEF SessionInv
  <2> QED
    BY <1>1, <1>6, <1>9, <1>10, <1>11, FailureKeeps
<1>12. CASE outbox' = Tail(outbox) /\ UNCHANGED <<host, owner, cursors, failed, call>>
  <2>1. IInv'
    BY <1>1, StepInv DEF Typed, given, search
  <2>2. Typed'
    BY <1>1, <1>12, <2>1 DEF Typed, SessionGiven, TypeOK, Rows
  <2>3. Opening'
    BY <1>1, <1>12 DEF Opening
  <2>4. InStep'
    BY <1>1, <1>12 DEF InStep, Rows, Smaller
  <2>5. \A e : ChunkEnd(e)' = ChunkEnd(e)
    BY <1>1, <1>12 DEF ChunkEnd, ChunkSize, Rows, Smaller
  <2>6. /\ outbox' \in Seq(Items) /\ Len(outbox') = Len(outbox) - 1
        /\ \A i \in 1..Len(outbox') : outbox'[i] = outbox[i + 1] /\ i + 1 \in 1..Len(outbox)
    BY <1>1, <1>2, <1>12
  <2>7. Waiting'
    <3>1. \A e \in Bindings : Len(delivered'[e]) <= ChunkEnd(e)
      <4>1. \A e \in Bindings : Len(delivered[e]) <= ChunkEnd(e)
        BY <1>5 DEF Waiting
      <4>2. row + 1 <= ChunkEnd(b)
        BY <1>2, ChunkIs
      <4> QED
        BY <1>6, <1>8, <4>1, <4>2
    <3>2. ASSUME NEW i \in 1..Len(outbox')
          PROVE  /\ Len(delivered'[outbox'[i].binding]) <= outbox'[i].row
                 /\ outbox'[i].row < ChunkEnd(outbox'[i].binding)
      <4>1. i + 1 \in 1..Len(outbox) /\ outbox'[i] = outbox[i + 1] /\ 1 < i + 1
            /\ outbox[i + 1].binding \in Bindings /\ outbox[i + 1].row \in Nat
        <5>1. i + 1 \in 1..Len(outbox) /\ outbox'[i] = outbox[i + 1] /\ 1 < i + 1
          BY <1>2, <2>6
        <5>2. outbox[i + 1] \in Items
          BY <1>2, <5>1
        <5> QED
          BY <5>1, <5>2 DEF Items
      <4>2. /\ Len(delivered[outbox[i + 1].binding]) <= outbox[i + 1].row
            /\ outbox[i + 1].row < ChunkEnd(outbox[i + 1].binding)
        BY <1>5, <4>1 DEF Waiting
      <4>3. CASE outbox[i + 1].binding = b
        <5>1. outbox[1].row < outbox[i + 1].row
          BY <1>2, <1>5, <4>1, <4>3 DEF Waiting, b
        <5> QED
          BY <1>2, <1>8, <4>1, <4>2, <4>3, <5>1 DEF row
      <4>4. CASE outbox[i + 1].binding # b
        BY <1>6, <4>1, <4>2, <4>4
      <4> QED
        BY <4>3, <4>4
    <3>3. ASSUME NEW e \in Bindings, NEW q \in Nat, Len(delivered'[e]) <= q, q < ChunkEnd(e)
          PROVE  \E i \in 1..Len(outbox') : outbox'[i].binding = e /\ outbox'[i].row = q
      <4>1. Len(delivered[e]) <= q
        BY <1>2, <1>6, <1>8, <3>3
      <4>2. PICK j \in 1..Len(outbox) : outbox[j].binding = e /\ outbox[j].row = q
        BY <1>5, <3>3, <4>1 DEF Waiting
      <4>3. j # 1
        BY <1>2, <1>8, <3>3, <4>2 DEF b, row
      <4>4. j - 1 \in 1..Len(outbox') /\ (j - 1) + 1 = j
        BY <1>2, <2>6, <4>3
      <4>5. outbox'[j - 1] = outbox[j]
        BY <2>6, <4>4
      <4> QED
        BY <4>2, <4>4, <4>5
    <3>4. ASSUME NEW i \in 1..Len(outbox'), NEW j \in 1..Len(outbox'), i < j,
                 outbox'[i].binding = outbox'[j].binding
          PROVE  outbox'[i].row < outbox'[j].row
      <4>1. /\ i + 1 < j + 1 /\ i + 1 \in 1..Len(outbox) /\ j + 1 \in 1..Len(outbox)
            /\ outbox'[i] = outbox[i + 1] /\ outbox'[j] = outbox[j + 1]
        BY <3>4, <1>2, <2>6
      <4>2. outbox[i + 1].binding = outbox[j + 1].binding
        BY <3>4, <4>1
      <4>3. outbox[i + 1].row < outbox[j + 1].row
        BY <1>5, <4>1, <4>2 DEF Waiting
      <4> QED
        BY <4>1, <4>3
    <3> QED
      BY <2>5, <2>6, <3>1, <3>2, <3>3, <3>4 DEF Waiting, Items
  <2>8. Deliveries'
    <3>1. \A e \in Bindings : IsSeq(delivered[e])'
      BY <1>9 DEF IsSeq
    <3> QED
      BY <1>1, <1>6, <1>9, <1>12, <2>7, <3>1 DEF Deliveries
  <2>9. Ending'
    BY <1>1, <1>12 DEF Ending, Running, Done, Inert, Complete, Rows
  <2> QED
    BY <1>10, <2>2, <2>3, <2>4, <2>8, <2>9
<1> QED
  BY <1>11, <1>12 DEF Deliver

(* When nothing waits, every binding has had its chunk.                    *)
LEMMA FinishKeeps ==
  ASSUME SessionInv, FinishChunk
  PROVE  SessionInv'
<1> USE DEF SessionInv
<1>1. /\ UNCHANGED <<limit, maximumRows, series, badTimes, storage, plan, low, high, chunkRows,
                     session, buffers, disposed, owner, outbox, failed, delivered>>
      /\ host = "deliver" /\ outbox = <<>> /\ host' = "idle"
      /\ cursors' = [e \in Bindings |-> cursors[e] + Cardinality(ChunkRowsOf(e))]
      /\ call' = [call EXCEPT ![owner] = IF @ = "all" THEN "loop" ELSE "idle"]
  BY DEF FinishChunk, fixed, given, search, Advanced
<1>2. Waiting /\ ~failed /\ ~Done
  BY <1>1 DEF Deliveries, Ending, Running
<1>3. cursors' = [e \in Bindings |-> ChunkEnd(e)]
  BY <1>1, ChunkIs DEF ChunkEnd
<1>4. \A e \in Bindings : /\ Len(delivered[e]) = ChunkEnd(e) /\ ChunkEnd(e) \in Nat
                          /\ ChunkEnd(e) <= Rows(e)
  <2> TAKE e \in Bindings
  <2>1. Len(delivered[e]) \in Nat /\ ChunkEnd(e) \in Nat /\ ChunkEnd(e) <= Rows(e)
    BY AppendKeeps, ChunkIs DEF Deliveries
  <2>2. Len(outbox) = 0
    BY <1>1
  <2>3. ~ (Len(delivered[e]) < ChunkEnd(e))
    BY <1>2, <2>1, <2>2 DEF Waiting
  <2> QED
    BY <1>2, <2>1, <2>3 DEF Waiting
<1>5. IInv'
  BY <1>1, StepInv DEF Typed, given, search
<1>6. Typed'
  <2>1. call' \in [Callers -> {"idle", "loop", "all", "chunk", "resolved", "rejected"}]
    BY <1>1 DEF Typed, TypeOK
  <2>2. cursors' \in [Bindings -> Nat] /\ \A e \in Bindings : cursors'[e] <= Rows(e)'
    BY <1>1, <1>3, <1>4 DEF Rows
  <2>3. TypeOK'
    BY <1>1, <2>1, <2>2 DEF Typed, TypeOK
  <2> QED
    BY <1>1, <1>5, <2>3 DEF Typed, SessionGiven, Rows
<1>7. Opening'
  BY <1>1 DEF Opening
<1>8. InStep'
  <2>1. PICK k \in Nat :
          /\ \A e \in Bindings : cursors[e] = Smaller(k * chunkRows, Rows(e))
          /\ \A d \in Bindings : \A r \in badTimes[d] : (k + 1) * chunkRows <= r
    BY <1>1 DEF InStep
  <2>2. ASSUME NEW e \in Bindings
        PROVE  cursors'[e] = Smaller((k + 1) * chunkRows, Rows(e))
    <3>1. Rows(e) \in Nat /\ chunkRows \in Nat
      BY ChunkIs
    <3>2. k * chunkRows \in Nat /\ (k + 1) * chunkRows = k * chunkRows + chunkRows
      BY <3>1, Product
    <3> QED
      BY <1>3, <2>1, <3>1, <3>2 DEF ChunkEnd, ChunkSize, Smaller
  <2>3. k + 1 \in Nat
    OBVIOUS
  <2> QED
    BY <1>1, <2>1, <2>2, <2>3 DEF InStep, Rows, Smaller
<1>9. Deliveries'
  <2>1. \A e \in Bindings : IsSeq(delivered[e])'
    BY <1>1 DEF Deliveries, IsSeq
  <2> QED
    BY <1>1, <1>3, <1>4, <2>1 DEF Deliveries
<1>10. BadRowsWithheld'
  BY <1>1 DEF BadRowsWithheld
<1>11. Ending'
  <2>1. ~ \E c \in Callers : call'[c] = "resolved"
    BY <1>1, <1>2 DEF Ending, Typed, TypeOK
  <2> QED
    BY <1>1, <1>2, <2>1 DEF Ending, Running
<1> QED
  BY <1>6, <1>7, <1>8, <1>9, <1>10, <1>11
LEMMA SessionInitInv == SessionGiven /\ PlannerInit /\ SessionInit => SessionInv
<1> SUFFICES ASSUME SessionGiven, PlannerInit, SessionInit PROVE SessionInv
  OBVIOUS
<1>1. IInv
  BY InitInv
<1>2. \A e \in Bindings : Rows(e) \in Nat
  BY LenProperties DEF SessionGiven, Rows
<1>3. /\ host = "idle" /\ ~failed /\ failed \in BOOLEAN /\ ~disposed /\ session = "planning" /\ buffers = "none"
      /\ cursors = [e \in Bindings |-> 0] /\ call = [c \in Callers |-> "idle"]
      /\ delivered = [e \in Bindings |-> <<>>]
  BY DEF SessionInit
<1>4. TypeOK
  BY <1>2, <1>3 DEF TypeOK
<1>5. Typed
  BY <1>1, <1>4 DEF Typed
<1>6. Opening
  <2>1. plan # "selected"
    BY DEF PlannerInit
  <2> QED
    BY <1>3, <2>1 DEF Opening
<1>7. chunkRows \in Nat /\ \A b \in Bindings : \A r \in badTimes[b] : r \in Nat
  BY <1>1 DEF IInv, Ranges, SessionGiven
<1>8. InStep
  <2>1. 0 * chunkRows = 0
    BY <1>7, Product
  <2>2. \A e \in Bindings : cursors[e] = Smaller(0 * chunkRows, Rows(e))
    BY <1>2, <1>3, <2>1 DEF Smaller
  <2> QED
    BY <1>3, <1>7, <2>1, <2>2 DEF InStep
<1>9. Deliveries
  <2>1. IsSeq(<<>>)
    BY DEF IsSeq
  <2> QED
    BY <1>3, <2>1 DEF Deliveries
<1>10. BadRowsWithheld
  <2> SUFFICES ASSUME NEW e \in Bindings, NEW b \in Bindings, NEW r \in badTimes[b], chunkRows > 0
               PROVE  Len(delivered[e]) <= (r \div chunkRows) * chunkRows
    BY DEF BadRowsWithheld
  <2>1. Len(delivered[e]) = 0
    BY <1>3
  <2>2. 0 <= (r \div chunkRows) * chunkRows
    BY <1>7, Quotient
  <2> QED
    BY <2>1, <2>2
<1>11. Ending
  BY <1>3 DEF Ending, Running
<1> QED
  BY <1>5, <1>6, <1>8, <1>9, <1>10, <1>11 DEF SessionInv

LEMMA SessionStepInv == SessionInv /\ [Next]_vars => SessionInv'
<1> SUFFICES ASSUME SessionInv, [Next]_vars PROVE SessionInv'
  OBVIOUS
<1>1. CASE Plan
  BY <1>1, PlanKeeps
<1>2. CASE \/ Planned \/ Compiled \/ Allocate \/ Open \/ OpenFails
           \/ \E e \in Bindings : DeviceStep(e)
           \/ ReadBack \/ Dispose
  BY <1>2, UntouchedSteps
<1>3. CASE \E c \in Callers : RunChunk(c) \/ RunAll(c) \/ Again(c)
  BY <1>3, CallKeeps
<1>4. CASE ReadFails
  BY <1>4, ReadFailsKeeps
<1>5. CASE HostStep
  BY <1>5, PublishKeeps, DeliverKeeps, FinishKeeps DEF HostStep
<1>6. CASE UNCHANGED vars
  <2>1. UNCHANGED <<fixed, search, owner, outbox, cursors, failed, delivered, call>> /\ host' = host
        /\ UNCHANGED <<session, buffers, disposed, plan, chunkRows, maximumRows, series>>
    BY <1>6 DEF vars, chunk, fixed, given, search
  <2>2. TypeOK' /\ Opening'
    BY <2>1 DEF SessionInv, Typed, TypeOK, Opening, Rows
  <2> QED
    BY <2>1, <2>2, HostUntouched
<1> QED
  BY <1>1, <1>2, <1>3, <1>4, <1>5, <1>6 DEF Next

LEMMA SessionAlways == SessionSpec => []SessionInv
<1>1. SessionGiven /\ PlannerInit /\ SessionInit => SessionInv
  BY SessionInitInv
<1>2. SessionInv /\ [Next]_vars => SessionInv'
  BY SessionStepInv
<1> QED
  BY <1>1, <1>2, PTL DEF SessionSpec

(* A failed session delivers nothing more: only a chunk in flight does.    *)
LEMMA FailedIsSilent == SessionInv /\ [Next]_vars => [failed => delivered' = delivered]_vars
<1> SUFFICES ASSUME SessionInv, [Next]_vars, failed PROVE delivered' = delivered
  OBVIOUS
<1>1. host = "idle"
  BY DEF SessionInv, Ending
<1>2. ~HostStep
  BY <1>1 DEF HostStep, Publish, Deliver, FinishChunk
<1>3. CASE Plan \/ Planned \/ Compiled \/ Allocate \/ Open \/ OpenFails
  BY <1>3 DEF Plan, Planned, Compiled, Allocate, Open, OpenFails, chunk
<1>4. CASE \E e \in Bindings : DeviceStep(e)
  BY <1>4 DEF DeviceStep, Start, Row, EndRows, Flush, chunk
<1>5. CASE \E c \in Callers : RunChunk(c) \/ RunAll(c) \/ Again(c)
  BY <1>5 DEF RunChunk, RunAll, Again, Turn, Answer, Dispatch, chunk
<1>6. CASE ReadBack \/ ReadFails \/ Dispose
  BY <1>6 DEF ReadBack, ReadFails, Dispose, chunk
<1>7. CASE UNCHANGED vars
  BY <1>7 DEF vars, chunk
<1> QED
  BY <1>2, <1>3, <1>4, <1>5, <1>6, <1>7 DEF Next

(* A bad timestamp in one binding withholds its chunk from every binding,  *)
(* and a failed session delivers nothing more, for every number of         *)
(* bindings, rows and callers, every chunk and every interleaving of the   *)
(* device, the application's callbacks and dispose().                      *)
THEOREM Chunks == SessionSpec => ChunksAreAtomic
<1>1. SessionInv => BadRowsWithheld
  BY DEF SessionInv
<1>2. SessionInv /\ [Next]_vars => [failed => delivered' = delivered]_vars
  BY FailedIsSilent
<1>3. ChunksAreAtomic <=> []BadRowsWithheld /\ [][failed => delivered' = delivered]_vars
  BY PTL DEF ChunksAreAtomic, BadRowsWithheld
<1> QED
  BY <1>1, <1>2, <1>3, SessionAlways, PTL DEF SessionSpec

(* Every binding's rows are delivered in order, none twice and none left   *)
(* out, and when a runAll() or a runChunk() that found nothing to do has   *)
(* resolved, all of them have been.                                        *)
THEOREM InOrder == SessionSpec => []RowsInOrder
<1>1. SessionInv => RowsInOrder
  <2> SUFFICES ASSUME SessionInv, NEW c \in Callers, call[c] = "resolved", NEW e \in Bindings
               PROVE  Len(delivered[e]) = Rows(e)
    BY DEF SessionInv, Deliveries, RowsInOrder
  <2>1. Done /\ host = "idle" /\ ~failed
    <3>1. Done
      BY DEF SessionInv, Ending
    <3>2. ~failed /\ ~Running
      BY <3>1 DEF SessionInv, Ending
    <3> QED
      BY <3>1, <3>2 DEF Running
  <2>2. Len(delivered[e]) = cursors[e]
    BY <2>1 DEF SessionInv, Deliveries
  <2>3. Rows(e) \in Nat /\ cursors[e] \in Nat /\ cursors[e] <= Rows(e) /\ Rows(e) <= maximumRows
    BY ChunkIs DEF SessionInv, Typed, SessionGiven
  <2>4. CASE Inert
    <3>1. session = "open" /\ plan = "selected"
      BY DEF SessionInv, Opening
    <3>2. Executions = 0 \/ maximumRows = 0
      BY <2>4, <3>1 DEF SessionInv, Opening, Inert
    <3>3. Executions # 0
      BY ExecutionsNat DEF Bindings
    <3> QED
      BY <2>2, <2>3, <3>2, <3>3
  <2>5. CASE Complete(e)
    BY <2>2, <2>3, <2>5 DEF Complete
  <2> QED
    BY <2>1, <2>4, <2>5 DEF Done
<1> QED
  BY <1>1, SessionAlways, PTL

(* u is t behind s. *)
Chained(u, s, t) ==
  /\ Len(s) \in Nat /\ Len(t) \in Nat /\ Len(u) = Len(s) + Len(t)
  /\ \A i \in 1..Len(s) : u[i] = s[i]
  /\ \A i \in 1..Len(t) : u[Len(s) + i] = t[i]

LEMMA Behind ==
  ASSUME NEW S, NEW s \in Seq(S), NEW t \in Seq(S)
  PROVE  s \o t \in Seq(S) /\ Chained(s \o t, s, t)
<1>1. /\ s \o t \in Seq(S) /\ Len(s \o t) = Len(s) + Len(t)
      /\ \A i \in 1..Len(s) + Len(t) : (s \o t)[i] = IF i <= Len(s) THEN s[i] ELSE t[i - Len(s)]
  BY ConcatProperties
<1>2. Len(s) \in Nat /\ Len(t) \in Nat
  BY LenProperties
<1> DEFINE u == s \o t
           k == Len(s)
           n == Len(t)
<1>3. \A i \in 1..k + n : u[i] = IF i <= k THEN s[i] ELSE t[i - k]
  BY <1>1
<1>4. k \in Nat /\ n \in Nat
  BY <1>2
<1> HIDE DEF u, k, n
<1>5. \A i \in 1..k : u[i] = s[i]
  BY <1>3, <1>4
<1>6. \A i \in 1..n : u[k + i] = t[i]
  BY <1>3, <1>4
<1> QED
  BY <1>1, <1>2, <1>5, <1>6 DEF u, k, n, Chained

(* flat holds the sequences one after the other, the i-th behind at[i - 1]. *)
Placed(flat, at, seqs, n) ==
  /\ at \in [0..n -> Nat] /\ at[0] = 0 /\ at[n] = Len(flat)
  /\ \A i \in 1..n : at[i] = at[i - 1] + Len(seqs[i])
  /\ \A i \in 1..n : \A j \in 1..Len(seqs[i]) :
       at[i - 1] + j \in 1..Len(flat) /\ flat[at[i - 1] + j] = seqs[i][j]
  /\ \A p \in 1..Len(flat) : \E i \in 1..n : \E j \in 1..Len(seqs[i]) : p = at[i - 1] + j

LEMMA FlattenPlaced ==
  ASSUME NEW S, NEW n \in Nat, NEW seqs \in [1..n -> Seq(S)]
  PROVE  FlattenSeq(seqs) \in Seq(S) /\ \E at : Placed(FlattenSeq(seqs), at, seqs, n)
<1>1. PICK parts : Joins(parts, S, seqs, n) /\ FlattenSeq(seqs) = parts[n]
  BY FlattenJoins
<1> DEFINE at(m) == [i \in 0..m |-> Len(parts[i])]
           T == {m \in Nat : m <= n => Placed(parts[m], at(m), seqs, m)}
<1>2. \A i \in 0..n : parts[i] \in Seq(S) /\ Len(parts[i]) \in Nat
  BY <1>1, LenProperties DEF Joins
<1>3. 0 \in T
  <2>1. at(0) \in [0..0 -> Nat] /\ at(0)[0] = 0 /\ Len(parts[0]) = 0
    BY <1>1, <1>2 DEF Joins
  <2> QED
    BY <2>1 DEF Placed
<1>4. ASSUME NEW m \in Nat, m \in T PROVE m + 1 \in T
  <2> SUFFICES ASSUME m + 1 <= n PROVE Placed(parts[m + 1], at(m + 1), seqs, m + 1)
    OBVIOUS
  <2> DEFINE a == at(m)
             b == at(m + 1)
             old == parts[m]
             more == seqs[m + 1]
             flat == parts[m + 1]
  <2>1. Placed(old, a, seqs, m)
    BY <1>4
  <2>2. /\ old \in Seq(S) /\ more \in Seq(S) /\ Len(old) \in Nat /\ Len(more) \in Nat
        /\ flat = old \o more /\ Len(flat) = Len(old) + Len(more)
        /\ \A i \in 1..Len(old) : flat[i] = old[i]
        /\ \A i \in 1..Len(more) : flat[Len(old) + i] = more[i]
    <3>1. m \in 0..n /\ m + 1 \in 1..n /\ (m + 1) - 1 = m
      OBVIOUS
    <3>2. flat = old \o more
      BY <1>1, <3>1 DEF Joins
    <3>3. old \in Seq(S) /\ more \in Seq(S) /\ Len(old) \in Nat /\ Len(more) \in Nat
      BY <1>2, <3>1, LenProperties
    <3> HIDE DEF old, more, flat
    <3> QED
      BY <3>2, <3>3, Behind DEF Chained
  <2>3. /\ b \in [0..(m + 1) -> Nat] /\ b[m + 1] = Len(flat) /\ b[m] = Len(old)
        /\ \A i \in 0..m : b[i] = a[i]
    BY <1>2
  <2> HIDE DEF a, b, old, more, flat
  <2>4. /\ a \in [0..m -> Nat] /\ a[0] = 0 /\ a[m] = Len(old)
        /\ \A i \in 1..m : a[i] = a[i - 1] + Len(seqs[i])
        /\ \A i \in 1..m : \A j \in 1..Len(seqs[i]) :
             a[i - 1] + j \in 1..Len(old) /\ old[a[i - 1] + j] = seqs[i][j]
        /\ \A p \in 1..Len(old) : \E i \in 1..m : \E j \in 1..Len(seqs[i]) : p = a[i - 1] + j
    BY <2>1 DEF Placed
  <2>5. b[0] = 0 /\ \A i \in 1..(m + 1) : b[i] = b[i - 1] + Len(seqs[i])
    <3>1. ASSUME NEW i \in 1..(m + 1) PROVE b[i] = b[i - 1] + Len(seqs[i])
      <4>1. CASE i = m + 1
        BY <4>1, <2>2, <2>3 DEF more
      <4>2. CASE i # m + 1
        <5>1. i \in 1..m /\ i \in 0..m /\ i - 1 \in 0..m
          BY <4>2
        <5> QED
          BY <5>1, <2>3, <2>4
      <4> QED
        BY <4>1, <4>2
    <3> QED
      BY <3>1, <2>3, <2>4
  <2>6. ASSUME NEW i \in 1..(m + 1), NEW j \in 1..Len(seqs[i])
        PROVE  b[i - 1] + j \in 1..Len(flat) /\ flat[b[i - 1] + j] = seqs[i][j]
    <3>1. CASE i = m + 1
      <4>1. j \in 1..Len(more) /\ b[i - 1] = Len(old) /\ seqs[i][j] = more[j]
        BY <3>1, <2>3 DEF more
      <4> QED
        BY <4>1, <2>2
    <3>2. CASE i # m + 1
      <4>1. i \in 1..m /\ i - 1 \in 0..m
        BY <3>2
      <4>2. a[i - 1] + j \in 1..Len(old) /\ old[a[i - 1] + j] = seqs[i][j] /\ b[i - 1] = a[i - 1]
        BY <4>1, <2>3, <2>4
      <4> QED
        BY <4>2, <2>2
    <3> QED
      BY <3>1, <3>2
  <2>7. ASSUME NEW p \in 1..Len(flat)
        PROVE  \E i \in 1..(m + 1) : \E j \in 1..Len(seqs[i]) : p = b[i - 1] + j
    <3>1. CASE p <= Len(old)
      <4>1. PICK i \in 1..m : \E j \in 1..Len(seqs[i]) : p = a[i - 1] + j
        BY <3>1, <2>2, <2>4
      <4>2. i \in 1..(m + 1) /\ b[i - 1] = a[i - 1]
        <5>1. i - 1 \in 0..m /\ i \in 1..(m + 1)
          OBVIOUS
        <5> QED
          BY <5>1, <2>3
      <4> QED
        BY <4>1, <4>2
    <3>2. CASE p > Len(old)
      <4>1. p - Len(old) \in 1..Len(more) /\ p = Len(old) + (p - Len(old))
        BY <3>2, <2>2
      <4>2. m + 1 \in 1..(m + 1) /\ b[(m + 1) - 1] = Len(old)
        BY <2>3
      <4> QED
        BY <4>1, <4>2 DEF more
    <3> QED
      BY <3>1, <3>2, <2>2
  <2>8. Placed(flat, b, seqs, m + 1)
    BY <2>3, <2>5, <2>6, <2>7 DEF Placed
  <2> QED
    BY <2>8 DEF flat, b
<1>5. Nat \subseteq T
  <2> HIDE DEF T
  <2> QED
    BY <1>3, <1>4, Induction
<1>6. Placed(parts[n], at(n), seqs, n)
  BY <1>5
<1> QED
  BY <1>1, <1>2, <1>6

Agree(seqs, others, k) == \A i \in 1..k : seqs[i] = others[i]

(* k sequences behind the n of old; the elements of block, one by one.     *)
Tailed(S, n, k, seqs, old) ==
  /\ n \in Nat /\ k \in Nat
  /\ seqs \in [1..(n + k) -> Seq(S)] /\ old \in [1..n -> Seq(S)] /\ Agree(seqs, old, n)

Singles(seqs, n, block) == \A i \in 1..Len(block) : seqs[n + i] = <<block[i]>>

(* What is joined first does not depend on what follows. *)
LEMMA JoinsSame ==
  ASSUME NEW S, NEW n \in Nat, NEW m \in Nat, NEW seqs, NEW others, NEW parts, NEW pieces,
         Joins(parts, S, seqs, n), Joins(pieces, S, others, m),
         NEW k \in Nat, k <= n, k <= m, Agree(seqs, others, k)
  PROVE  parts[k] = pieces[k]
<1> DEFINE T == {j \in Nat : j <= k => parts[j] = pieces[j]}
<1>1. 0 \in T
  BY DEF Joins
<1>2. ASSUME NEW j \in Nat, j \in T PROVE j + 1 \in T
  <2> SUFFICES ASSUME j + 1 <= k PROVE parts[j + 1] = pieces[j + 1]
    OBVIOUS
  <2>1. j + 1 \in 1..n /\ j + 1 \in 1..m /\ j + 1 \in 1..k /\ (j + 1) - 1 = j /\ j <= k
    OBVIOUS
  <2>2. parts[j + 1] = parts[j] \o seqs[j + 1] /\ pieces[j + 1] = pieces[j] \o others[j + 1]
    BY <2>1 DEF Joins
  <2>3. parts[j] = pieces[j] /\ seqs[j + 1] = others[j + 1]
    BY <1>2, <2>1 DEF Agree
  <2> QED
    BY <2>2, <2>3
<1>3. Nat \subseteq T
  <2> HIDE DEF T
  <2> QED
    BY <1>1, <1>2, Induction
<1> QED
  BY <1>3

(* part[j] is part[0] with j more sequences behind it. *)
Extended(part, S, seqs, n, k) ==
  /\ part \in [0..k -> Seq(S)]
  /\ \A j \in Nat : j + 1 <= k => part[j + 1] = part[j] \o seqs[n + (j + 1)]

(* What is joined when k sequences follow n others. *)
LEMMA JoinsTail ==
  ASSUME NEW S, NEW n, NEW k, NEW seqs, NEW old, Tailed(S, n, k, seqs, old)
  PROVE  \E parts : /\ parts[0] = FlattenSeq(old) /\ parts[k] = FlattenSeq(seqs)
                     /\ Extended(parts, S, seqs, n, k)
<1>1. /\ n \in Nat /\ k \in Nat /\ n + k \in Nat /\ Agree(seqs, old, n)
      /\ seqs \in [1..(n + k) -> Seq(S)] /\ old \in [1..n -> Seq(S)]
  BY DEF Tailed
<1>2. PICK parts : Joins(parts, S, seqs, n + k) /\ FlattenSeq(seqs) = parts[n + k]
  BY <1>1, FlattenJoins
<1>3. PICK pieces : Joins(pieces, S, old, n) /\ FlattenSeq(old) = pieces[n]
  BY <1>1, FlattenJoins
<1>n. n \in Nat /\ k \in Nat
  BY <1>1
<1> USE <1>n
<1>4. parts[n] = FlattenSeq(old)
  <2>1. n <= n + k /\ n <= n
    BY <1>1
  <2>2. parts[n] = pieces[n]
    BY <1>1, <1>2, <1>3, <2>1, JoinsSame
  <2> QED
    BY <1>3, <2>2
<1>5. /\ \A i \in 0..(n + k) : parts[i] \in Seq(S)
      /\ \A j \in Nat : j + 1 <= k => parts[n + (j + 1)] = parts[n + j] \o seqs[n + (j + 1)]
  <2>1. parts \in [0..(n + k) -> Seq(S)] /\ \A i \in 1..(n + k) : parts[i] = parts[i - 1] \o seqs[i]
    BY <1>2 DEF Joins
  <2>2. ASSUME NEW j \in Nat, j + 1 <= k
        PROVE  n + (j + 1) \in 1..(n + k) /\ (n + (j + 1)) - 1 = n + j
    BY <2>2
  <2> QED
    BY <2>1, <2>2
<1> DEFINE last == [j \in 0..k |-> parts[n + j]]
<1>6. last \in [0..k -> Seq(S)]
  <2>1. \A j \in 0..k : n + j \in 0..(n + k)
    OBVIOUS
  <2> QED
    BY <1>5, <2>1
<1>7. last[0] = FlattenSeq(old) /\ last[k] = FlattenSeq(seqs)
  BY <1>2, <1>4
<1>8. ASSUME NEW j \in Nat, j + 1 <= k
      PROVE  last[j + 1] = last[j] \o seqs[n + (j + 1)]
  <2>1. j \in 0..k /\ j + 1 \in 0..k
    BY <1>8
  <2>2. last[j] = parts[n + j] /\ last[j + 1] = parts[n + (j + 1)]
    BY <2>1
  <2> HIDE DEF last
  <2> QED
    BY <1>5, <1>8, <2>2
<1>9. Extended(last, S, seqs, n, k)
  BY <1>6, <1>8 DEF Extended
<1> HIDE DEF last
<1> QED
  BY <1>7, <1>9

(* Empty sequences at the end add nothing, and sequences of one element add *)
(* those elements.                                                          *)
LEMMA FlattenPadded ==
  ASSUME NEW S, NEW n, NEW k, NEW seqs, NEW old, Tailed(S, n, k, seqs, old),
         \A i \in 1..k : seqs[n + i] = <<>>
  PROVE  FlattenSeq(seqs) = FlattenSeq(old)
<1>p. PICK part : /\ part[0] = FlattenSeq(old) /\ part[k] = FlattenSeq(seqs)
                  /\ Extended(part, S, seqs, n, k)
  BY JoinsTail
<1>1. /\ part \in [0..k -> Seq(S)]
      /\ \A j \in Nat : j + 1 <= k => part[j + 1] = part[j] \o seqs[n + (j + 1)]
  BY <1>p DEF Extended
<1>n. n \in Nat /\ k \in Nat
  BY DEF Tailed
<1> USE <1>n
<1> DEFINE T == {j \in Nat : j <= k => part[j] = part[0]}
<1>2. 0 \in T
  OBVIOUS
<1>3. ASSUME NEW j \in Nat, j \in T PROVE j + 1 \in T
  <2> SUFFICES ASSUME j + 1 <= k PROVE part[j + 1] = part[0]
    OBVIOUS
  <2>1. j + 1 \in 1..k /\ j <= k /\ 0 \in 0..k
    OBVIOUS
  <2>2. part[j] = part[0] /\ seqs[n + (j + 1)] = <<>> /\ part[0] \in Seq(S)
    BY <1>1, <1>3, <2>1
  <2>3. part[0] \o <<>> = part[0]
    BY <2>2, ConcatEmptySeq
  <2> QED
    BY <1>1, <2>1, <2>2, <2>3
<1>4. k \in T
  <2> HIDE DEF T
  <2> QED
    BY <1>2, <1>3, Induction
<1> QED
  BY <1>p, <1>4

LEMMA FlattenAppended ==
  ASSUME NEW S, NEW n, NEW k, NEW seqs, NEW old, Tailed(S, n, k, seqs, old),
         NEW block \in Seq(S), Len(block) = k, Singles(seqs, n, block)
  PROVE  FlattenSeq(seqs) = FlattenSeq(old) \o block
<1>n. n \in Nat /\ k \in Nat
  BY DEF Tailed
<1> USE <1>n
<1>p. PICK part : /\ part[0] = FlattenSeq(old) /\ part[k] = FlattenSeq(seqs)
                  /\ Extended(part, S, seqs, n, k)
  BY JoinsTail
<1>0. /\ part \in [0..k -> Seq(S)]
      /\ \A j \in Nat : j + 1 <= k => part[j + 1] = part[j] \o seqs[n + (j + 1)]
  BY <1>p DEF Extended
<1> DEFINE head == part[0]
           Grown(j) ==
             /\ Len(part[j]) = Len(head) + j
             /\ \A i \in 1..Len(head) : part[j][i] = head[i]
             /\ \A i \in 1..j : part[j][Len(head) + i] = block[i]
           T == {j \in Nat : j <= k => Grown(j)}
<1>1. \A i \in 1..k : block[i] \in S
  BY ElementOfSeq
<1>2. /\ head \in Seq(S) /\ Len(head) \in Nat
      /\ \A j \in 0..k : part[j] \in Seq(S) /\ Len(part[j]) \in Nat
  <2>1. 0 \in 0..k
    OBVIOUS
  <2> QED
    BY <2>1, <1>0, LenProperties
<1>3. part[0] = head
  OBVIOUS
<1>4. \A j \in Nat : j + 1 <= k => part[j + 1] = part[j] \o <<block[j + 1]>>
  <2> SUFFICES ASSUME NEW j \in Nat, j + 1 <= k PROVE part[j + 1] = part[j] \o <<block[j + 1]>>
    OBVIOUS
  <2>1. j + 1 \in 1..k
    OBVIOUS
  <2> QED
    BY <1>0, <2>1 DEF Singles
<1> HIDE DEF head
<1>5. Grown(0)
  BY <1>2, <1>3
<1>6. ASSUME NEW j \in Nat, j \in T PROVE j + 1 \in T
  <2> HIDE DEF Grown
  <2> SUFFICES ASSUME j + 1 <= k PROVE Grown(j + 1)
    OBVIOUS
  <2>1. j \in 0..k /\ j + 1 \in 0..k /\ j + 1 \in 1..k
    OBVIOUS
  <2>2. Grown(j)
    BY <1>6, <2>1
  <2>3. part[j + 1] = part[j] \o <<block[j + 1]>>
    BY <1>4, <2>1
  <2> DEFINE one == <<block[j + 1]>>
  <2>4. one \in Seq(S) /\ Len(one) = 1 /\ one[1] = block[j + 1]
    BY <1>1, <2>1
  <2> HIDE DEF one
  <2>5. /\ Len(part[j] \o one) = Len(part[j]) + 1
        /\ \A i \in 1..Len(part[j]) : (part[j] \o one)[i] = part[j][i]
        /\ \A i \in 1..Len(one) : (part[j] \o one)[Len(part[j]) + i] = one[i]
    <3> DEFINE now == part[j]
    <3>1. now \in Seq(S) /\ one \in Seq(S)
      BY <1>2, <2>1, <2>4
    <3> HIDE DEF now
    <3>2. /\ Len(now \o one) = Len(now) + Len(one)
          /\ \A i \in 1..Len(now) : (now \o one)[i] = now[i]
          /\ \A i \in 1..Len(one) : (now \o one)[Len(now) + i] = one[i]
      BY <3>1, Behind DEF Chained
    <3> QED
      BY <2>4, <3>2 DEF now
  <2> HIDE DEF Grown
  <2>6. /\ Len(part[j + 1]) = Len(part[j]) + 1
        /\ \A i \in 1..Len(part[j]) : part[j + 1][i] = part[j][i]
        /\ part[j + 1][Len(part[j]) + 1] = block[j + 1]
    <3>1. 1 \in 1..Len(one)
      BY <2>4
    <3>2. (part[j] \o one)[Len(part[j]) + 1] = one[1]
      BY <3>1, <2>5
    <3> QED
      BY <3>2, <2>3, <2>4, <2>5 DEF one
  <2> USE DEF Grown
  <2>7. \A i \in 1..Len(head) : part[j + 1][i] = head[i]
    <3>1. \A i \in 1..Len(head) : i \in 1..Len(part[j])
      BY <1>2, <2>1, <2>2
    <3> QED
      BY <3>1, <2>2, <2>6
  <2>8. ASSUME NEW i \in 1..(j + 1) PROVE part[j + 1][Len(head) + i] = block[i]
    <3>1. CASE i = j + 1
      BY <3>1, <1>2, <2>2, <2>6
    <3>2. CASE i # j + 1
      <4>1. i \in 1..j /\ Len(head) + i \in 1..Len(part[j])
        BY <3>2, <1>2, <2>1, <2>2
      <4> QED
        BY <4>1, <2>2, <2>6
    <3> QED
      BY <3>1, <3>2
  <2> QED
    BY <1>2, <2>1, <2>2, <2>6, <2>7, <2>8
<1>7. Nat \subseteq T
  <2>1. 0 \in T
    BY <1>5
  <2> HIDE DEF T
  <2> QED
    BY <1>6, <2>1, Induction
<1>8. Grown(k)
  <2>1. k \in T
    BY <1>7
  <2> QED
    BY <2>1
<1>9. part[k] \in Seq(S)
  BY <1>2
<1>10. /\ head \o block \in Seq(S) /\ Len(head \o block) = Len(head) + k
       /\ \A i \in 1..Len(head) : (head \o block)[i] = head[i]
       /\ \A i \in 1..k : (head \o block)[Len(head) + i] = block[i]
  <2>1. head \in Seq(S) /\ block \in Seq(S) /\ Len(block) = k /\ Len(head) \in Nat /\ Len(block) \in Nat
    BY <1>2
  <2> DEFINE both == head \o block
  <2>2. both \in Seq(S) /\ Chained(both, head, block)
    BY <2>1, Behind
  <2> HIDE DEF both
  <2>3. /\ both \in Seq(S) /\ Len(both) = Len(head) + k
        /\ \A i \in 1..Len(head) : both[i] = head[i]
        /\ \A i \in 1..k : both[Len(head) + i] = block[i]
    BY <2>1, <2>2 DEF Chained
  <2> QED
    BY <2>3 DEF both
<1>11. ASSUME NEW i \in 1..(Len(head) + k) PROVE part[k][i] = (head \o block)[i]
  <2>1. CASE i <= Len(head)
    BY <2>1, <1>2, <1>8, <1>10
  <2>2. CASE ~(i <= Len(head))
    <3>1. i - Len(head) \in 1..k /\ i = Len(head) + (i - Len(head))
      BY <2>2, <1>2
    <3> QED
      BY <3>1, <1>8, <1>10
  <2> QED
    BY <2>1, <2>2
<1>12. part[k] = head \o block
  BY <1>8, <1>9, <1>10, <1>11, SeqEqual
<1> QED
  BY <1>p, <1>12 DEF head

LEMMA FlattenNothing ==
  ASSUME NEW S, NEW n \in Nat, NEW seqs \in [1..n -> Seq(S)], \A i \in 1..n : seqs[i] = <<>>
  PROVE  FlattenSeq(seqs) = <<>>
<1> DEFINE none == [i \in 1..0 |-> seqs[i]]
<1>1. Tailed(S, 0, n, seqs, none)
  BY DEF Tailed, Agree
<1>2. none = <<>>
  OBVIOUS
<1> HIDE DEF none
<1>3. \A i \in 1..n : seqs[0 + i] = <<>>
  OBVIOUS
<1>4. FlattenSeq(seqs) = FlattenSeq(none)
  BY <1>1, <1>3, FlattenPadded
<1>5. FlattenSeq(none) = <<>>
  BY <1>2 DEF FlattenSeq
<1> QED
  BY <1>4, <1>5

(* Only the sequences behind n count, when those before are empty. *)
LEMMA FlattenBlock ==
  ASSUME NEW S, NEW n, NEW k, NEW seqs, NEW old, Tailed(S, n, k, seqs, old),
         \A i \in 1..n : old[i] = <<>>,
         NEW block \in Seq(S), Len(block) = k, Singles(seqs, n, block)
  PROVE  FlattenSeq(seqs) = block
<1>1. FlattenSeq(seqs) = FlattenSeq(old) \o block
  BY FlattenAppended
<1>2. FlattenSeq(old) = <<>>
  <2>1. n \in Nat /\ old \in [1..n -> Seq(S)]
    BY DEF Tailed
  <2> QED
    BY <2>1, FlattenNothing
<1> QED
  BY <1>1, <1>2, ConcatEmptySeq

(* The element x is in the sequence s. *)
Has(s, x) == \E i \in 1..Len(s) : s[i] = x

LEMMA HasConcat ==
  ASSUME NEW S, NEW s \in Seq(S), NEW t \in Seq(S), NEW x, Has(s, x) \/ Has(t, x)
  PROVE  Has(s \o t, x)
<1> DEFINE u == s \o t
<1>1. Chained(u, s, t)
  BY Behind
<1> HIDE DEF u
<1>2. CASE Has(s, x)
  <2>1. PICK i \in 1..Len(s) : s[i] = x
    BY <1>2 DEF Has
  <2>2. i \in 1..Len(u) /\ u[i] = x
    BY <1>1, <2>1 DEF Chained
  <2> QED
    BY <2>2 DEF Has, u
<1>3. CASE Has(t, x)
  <2>1. PICK i \in 1..Len(t) : t[i] = x
    BY <1>3 DEF Has
  <2>2. Len(s) + i \in 1..Len(u) /\ u[Len(s) + i] = x
    BY <1>1, <2>1 DEF Chained
  <2> QED
    BY <2>2 DEF Has, u
<1> QED
  BY <1>2, <1>3

LEMMA HasFlatten ==
  ASSUME NEW S, NEW n \in Nat, NEW seqs \in [1..n -> Seq(S)], NEW i \in 1..n, NEW x, Has(seqs[i], x)
  PROVE  Has(FlattenSeq(seqs), x)
<1>1. PICK j \in 1..Len(seqs[i]) : seqs[i][j] = x
  BY DEF Has
<1>2. PICK at : Placed(FlattenSeq(seqs), at, seqs, n)
  BY FlattenPlaced
<1> DEFINE flat == FlattenSeq(seqs)
<1>3. at[i - 1] + j \in 1..Len(flat) /\ flat[at[i - 1] + j] = x
  BY <1>1, <1>2 DEF Placed
<1> HIDE DEF flat
<1>4. Has(flat, x)
  BY <1>3 DEF Has
<1> QED
  BY <1>4 DEF flat

LEMMA FlattenHas ==
  ASSUME NEW S, NEW n \in Nat, NEW seqs \in [1..n -> Seq(S)], NEW x, Has(FlattenSeq(seqs), x)
  PROVE  \E i \in 1..n : Has(seqs[i], x)
<1> DEFINE flat == FlattenSeq(seqs)
<1>1. PICK p \in 1..Len(flat) : flat[p] = x
  BY DEF Has
<1>2. PICK at : Placed(flat, at, seqs, n)
  BY FlattenPlaced
<1> HIDE DEF flat
<1>3. PICK i \in 1..n : \E j \in 1..Len(seqs[i]) : p = at[i - 1] + j
  BY <1>2 DEF Placed
<1>4. PICK j \in 1..Len(seqs[i]) : p = at[i - 1] + j
  BY <1>3
<1>5. flat[p] = seqs[i][j]
  BY <1>2, <1>3, <1>4 DEF Placed
<1> QED
  BY <1>1, <1>5 DEF Has

-----------------------------------------------------------------------------
(***************************************************************************)
(* The program: its frames and their locals.                               *)
(***************************************************************************)

LEMMA FramesAre ==
  /\ FrameOrder \in Seq(Frames) /\ DOMAIN FrameOrder = 1..Len(FrameOrder)
  /\ Len(FrameOrder) \in Nat /\ Root \in Frames
  /\ \A i \in 1..Len(FrameOrder) : FrameOrder[i] \in Frames
  /\ \A f \in Frames : \E i \in 1..Len(FrameOrder) : FrameOrder[i] = f
<1>1. FrameOrder \in Seq(Frames) /\ FrameOrder # <<>>
  BY KernelAssumption DEF KernelAssumption
<1>2. Len(FrameOrder) \in Nat /\ DOMAIN FrameOrder = 1..Len(FrameOrder) /\ Len(FrameOrder) # 0
  BY <1>1, EmptySeq, LenProperties
<1>3. \A i \in 1..Len(FrameOrder) : FrameOrder[i] \in Frames
  BY <1>1, ElementOfSeq
<1>4. \A f \in Frames : \E i \in 1..Len(FrameOrder) : FrameOrder[i] = f
  BY <1>2 DEF Frames, Range
<1> QED
  BY <1>1, <1>2, <1>3, <1>4 DEF Root

LEMMA LocalsAre ==
  /\ LocalOrder \in Seq(Locals) /\ Len(LocalOrder) \in Nat /\ DOMAIN LocalOrder = 1..Len(LocalOrder)
  /\ \A l \in Locals : /\ FrameOf[l] \in Frames /\ Has(LocalsOf[FrameOf[l]], l) /\ Has(LocalOrder, l)
                       /\ Depth[l] \in Nat
  /\ \A f \in Frames : /\ LocalsOf[f] \in Seq(Locals)
                       /\ \A l : Has(LocalsOf[f], l) => l \in Locals /\ FrameOf[l] = f
                       /\ f # Root => LocalsOf[f][1] \in Locals /\ FrameOf[LocalsOf[f][1]] = f
<1> DEFINE seqs == [i \in DOMAIN FrameOrder |-> LocalsOf[FrameOrder[i]]]
           n == Len(FrameOrder)
<1>1. /\ \A f \in Frames : LocalsOf[f] \in Seq(Locals) /\ (f # Root => LocalsOf[f] # <<>>)
      /\ \A f, g \in Frames : f # g => Range(LocalsOf[f]) \cap Range(LocalsOf[g]) = {}
      /\ \A l \in Locals : Depth[l] \in Nat
  BY KernelAssumption DEF KernelAssumption
<1>2. n \in Nat /\ seqs \in [1..n -> Seq(Locals)] /\ LocalOrder = FlattenSeq(seqs)
  BY <1>1, FramesAre DEF LocalOrder
<1>3. \A i \in 1..n : seqs[i] = LocalsOf[FrameOrder[i]]
  BY FramesAre
<1> HIDE DEF seqs, n
<1>4. LocalOrder \in Seq(Locals)
  BY <1>2, FlattenPlaced
<1>5. Len(LocalOrder) \in Nat /\ DOMAIN LocalOrder = 1..Len(LocalOrder)
  BY <1>4, LenProperties
<1>6. \A f \in Frames : \A l : l \in Range(LocalsOf[f]) <=> Has(LocalsOf[f], l)
  <2> SUFFICES ASSUME NEW f \in Frames, NEW l PROVE l \in Range(LocalsOf[f]) <=> Has(LocalsOf[f], l)
    OBVIOUS
  <2>1. DOMAIN LocalsOf[f] = 1..Len(LocalsOf[f])
    BY <1>1, LenProperties
  <2> QED
    BY <2>1 DEF Range, Has
<1>7. \A l \in Locals : Has(LocalOrder, l)
  BY <1>5 DEF Locals, Range, Has
<1>8. ASSUME NEW l \in Locals PROVE FrameOf[l] \in Frames /\ Has(LocalsOf[FrameOf[l]], l)
  <2>1. PICK i \in 1..n : Has(seqs[i], l)
    BY <1>2, <1>7, FlattenHas
  <2>2. FrameOrder[i] \in Frames /\ Has(LocalsOf[FrameOrder[i]], l)
    BY <1>3, <2>1, FramesAre DEF n
  <2>3. \E f \in Frames : l \in Range(LocalsOf[f])
    BY <1>6, <2>2
  <2>4. FrameOf[l] = CHOOSE f \in Frames : l \in Range(LocalsOf[f])
    BY DEF FrameOf
  <2>5. FrameOf[l] \in Frames /\ l \in Range(LocalsOf[FrameOf[l]])
    BY <2>3, <2>4
  <2> QED
    BY <1>6, <2>5
<1>9. ASSUME NEW f \in Frames, NEW l, Has(LocalsOf[f], l) PROVE l \in Locals /\ FrameOf[l] = f
  <2>1. l \in Locals
    BY <1>1, <1>9, ElementOfSeq DEF Has
  <2>2. l \in Range(LocalsOf[f]) /\ l \in Range(LocalsOf[FrameOf[l]]) /\ FrameOf[l] \in Frames
    BY <1>6, <1>8, <1>9, <2>1
  <2> QED
    BY <1>1, <2>1, <2>2
<1>10. ASSUME NEW f \in Frames, f # Root PROVE Has(LocalsOf[f], LocalsOf[f][1])
  <2>1. Len(LocalsOf[f]) \in Nat /\ Len(LocalsOf[f]) # 0
    BY <1>1, <1>10, EmptySeq, LenProperties
  <2> QED
    BY <2>1 DEF Has
<1> QED
  BY <1>1, <1>4, <1>5, <1>7, <1>8, <1>9, <1>10

LEMMA ProgramIs ==
  /\ \A l \in Locals : Persistent(l) \in BOOLEAN /\ Retains(l) \in BOOLEAN
  /\ \A value \in DOMAIN Calls : value \in Int /\ Root \in Calls[value] /\ Calls[value] \subseteq Frames
BY KernelAssumption DEF KernelAssumption, Persistent, Retains

-----------------------------------------------------------------------------
(***************************************************************************)
(* The layout of an execution.                                             *)
(***************************************************************************)

FrameKinds == {"committed", "tentative"}
LocalKinds == {"scratch", "committedInit", "tentativeInit", "historyBase", "historyCapacity"}

WordNames ==
  {<<"initialized">>, <<"nextRow">>} \cup (FrameKinds \X Frames) \cup (LocalKinds \X Locals)

(* What a local and a frame keep besides histories. *)
Keeps(l, kind) ==
  \/ kind = "scratch"
  \/ Persistent(l) /\ kind \in {"committedInit", "tentativeInit"}
  \/ Retains(l) /\ kind \in {"historyBase", "historyCapacity"}

LEMMA LocalWordsAre ==
  ASSUME NEW l \in Locals
  PROVE  /\ LocalWords(l) \in Seq(WordNames) /\ LocalWords(l)[1] = <<"scratch", l>>
         /\ \A kind : Keeps(l, kind) => Has(LocalWords(l), <<kind, l>>)
<1> DEFINE a == <<<<"scratch", l>>>>
           b == IF Persistent(l) THEN <<<<"committedInit", l>>, <<"tentativeInit", l>>>> ELSE <<>>
           c == IF Retains(l) THEN <<<<"historyBase", l>>, <<"historyCapacity", l>>>> ELSE <<>>
<1>1. LocalWords(l) = (a \o b) \o c
  BY DEF LocalWords
<1>2. \A kind \in LocalKinds : <<kind, l>> \in WordNames
  BY DEF WordNames
<1>3. a \in Seq(WordNames) /\ Has(a, <<"scratch", l>>) /\ Len(a) = 1 /\ a[1] = <<"scratch", l>>
  <2>1. <<"scratch", l>> \in WordNames
    BY <1>2 DEF LocalKinds
  <2> QED
    BY <2>1 DEF Has
<1>4. /\ b \in Seq(WordNames)
      /\ Persistent(l) => Has(b, <<"committedInit", l>>) /\ Has(b, <<"tentativeInit", l>>)
  <2>1. <<"committedInit", l>> \in WordNames /\ <<"tentativeInit", l>> \in WordNames
    BY <1>2 DEF LocalKinds
  <2>2. CASE Persistent(l)
    <3>1. /\ b = <<<<"committedInit", l>>, <<"tentativeInit", l>>>> /\ Len(b) = 2
          /\ b[1] = <<"committedInit", l>> /\ b[2] = <<"tentativeInit", l>>
      BY <2>2
    <3>2. 1 \in 1..2 /\ 2 \in 1..2
      OBVIOUS
    <3>3. b \in Seq(WordNames)
      BY <2>1, <2>2
    <3> HIDE DEF b
    <3> QED
      BY <3>1, <3>2, <3>3 DEF Has
  <2>3. CASE ~Persistent(l)
    BY <2>3
  <2> QED
    BY <2>2, <2>3
<1>5. /\ c \in Seq(WordNames)
      /\ Retains(l) => Has(c, <<"historyBase", l>>) /\ Has(c, <<"historyCapacity", l>>)
  <2>1. <<"historyBase", l>> \in WordNames /\ <<"historyCapacity", l>> \in WordNames
    BY <1>2 DEF LocalKinds
  <2>2. CASE Retains(l)
    <3>1. /\ c = <<<<"historyBase", l>>, <<"historyCapacity", l>>>> /\ Len(c) = 2
          /\ c[1] = <<"historyBase", l>> /\ c[2] = <<"historyCapacity", l>>
      BY <2>2
    <3>2. 1 \in 1..2 /\ 2 \in 1..2
      OBVIOUS
    <3>3. c \in Seq(WordNames)
      BY <2>1, <2>2
    <3> HIDE DEF c
    <3> QED
      BY <3>1, <3>2, <3>3 DEF Has
  <2>3. CASE ~Retains(l)
    BY <2>3
  <2> QED
    BY <2>2, <2>3
<1> HIDE DEF a, b, c
<1> DEFINE ab == a \o b
<1>6. ab \in Seq(WordNames) /\ Chained(ab, a, b)
  BY <1>3, <1>4, Behind
<1>7. \A x : Has(a, x) \/ Has(b, x) => Has(ab, x)
  BY <1>3, <1>4, HasConcat
<1> HIDE DEF ab
<1> DEFINE abc == ab \o c
<1>8. abc \in Seq(WordNames) /\ Chained(abc, ab, c)
  BY <1>5, <1>6, Behind
<1>9. \A x : Has(ab, x) \/ Has(c, x) => Has(abc, x)
  BY <1>5, <1>6, HasConcat
<1>10. LocalWords(l) = abc
  BY <1>1 DEF ab
<1> HIDE DEF abc
<1>11. abc[1] = <<"scratch", l>>
  BY <1>3, <1>6, <1>8 DEF Chained
<1>12. ASSUME NEW kind, Keeps(l, kind) PROVE Has(abc, <<kind, l>>)
  <2>1. CASE kind = "scratch"
    BY <2>1, <1>3, <1>7, <1>9
  <2>2. CASE Persistent(l) /\ kind \in {"committedInit", "tentativeInit"}
    BY <2>2, <1>4, <1>7, <1>9
  <2>3. CASE Retains(l) /\ kind \in {"historyBase", "historyCapacity"}
    BY <2>3, <1>5, <1>9
  <2> QED
    BY <1>12, <2>1, <2>2, <2>3 DEF Keeps
<1> QED
  BY <1>8, <1>10, <1>11, <1>12

LEMMA FrameWordsAre ==
  ASSUME NEW f \in Frames
  PROVE  /\ FrameWords(f) \in Seq(WordNames)
         /\ Has(FrameWords(f), <<"committed", f>>) /\ Has(FrameWords(f), <<"tentative", f>>)
         /\ \A l, kind : Has(LocalsOf[f], l) /\ Keeps(l, kind) => Has(FrameWords(f), <<kind, l>>)
<1> DEFINE own == <<<<"committed", f>>, <<"tentative", f>>>>
           n == Len(LocalsOf[f])
           seqs == [i \in DOMAIN LocalsOf[f] |-> LocalWords(LocalsOf[f][i])]
           rest == FlattenSeq(seqs)
<1>1. FrameWords(f) = own \o rest
  BY DEF FrameWords
<1>2. <<"committed", f>> \in WordNames /\ <<"tentative", f>> \in WordNames
  BY DEF WordNames, FrameKinds
<1>3. own \in Seq(WordNames) /\ Has(own, <<"committed", f>>) /\ Has(own, <<"tentative", f>>)
  <2>1. Len(own) = 2 /\ own[1] = <<"committed", f>> /\ own[2] = <<"tentative", f>> /\ own \in Seq(WordNames)
    BY <1>2
  <2>2. 1 \in 1..2 /\ 2 \in 1..2
    OBVIOUS
  <2> HIDE DEF own
  <2> QED
    BY <2>1, <2>2 DEF Has
<1>4. /\ n \in Nat /\ DOMAIN LocalsOf[f] = 1..n
      /\ \A i \in 1..n : LocalsOf[f][i] \in Locals
  BY LocalsAre, LenProperties, ElementOfSeq
<1>5. seqs \in [1..n -> Seq(WordNames)] /\ \A i \in 1..n : seqs[i] = LocalWords(LocalsOf[f][i])
  BY <1>4, LocalWordsAre
<1> HIDE DEF own, n, seqs
<1>6. rest \in Seq(WordNames)
  BY <1>4, <1>5, FlattenPlaced
<1>7. ASSUME NEW l, NEW kind, Has(LocalsOf[f], l), Keeps(l, kind) PROVE Has(rest, <<kind, l>>)
  <2>1. PICK i \in 1..n : LocalsOf[f][i] = l
    BY <1>7 DEF Has, n
  <2>2. Has(seqs[i], <<kind, l>>)
    BY <1>4, <1>5, <1>7, <2>1, LocalWordsAre
  <2> QED
    BY <1>4, <1>5, <2>2, HasFlatten
<1> HIDE DEF rest
<1> DEFINE all == own \o rest
<1>8. all \in Seq(WordNames) /\ \A x : Has(own, x) \/ Has(rest, x) => Has(all, x)
  BY <1>3, <1>6, Behind, HasConcat
<1>9. FrameWords(f) = all
  BY <1>1
<1> HIDE DEF all
<1> QED
  BY <1>3, <1>7, <1>8, <1>9

(* The word x has an offset of its own. *)
Laid(x) ==
  /\ x \in Range(Fixed) /\ WordOffset[x] \in 0..Len(Fixed) - 1
  /\ Fixed[WordOffset[x] + 1] = x

LEMMA FixedIs ==
  /\ Fixed \in Seq(WordNames) /\ Len(Fixed) \in Nat /\ DOMAIN Fixed = 1..Len(Fixed)
  /\ Laid(<<"initialized">>) /\ Laid(<<"nextRow">>)
  /\ \A f \in Frames : Laid(<<"committed", f>>) /\ Laid(<<"tentative", f>>)
  /\ \A l \in Locals : \A kind : Keeps(l, kind) => Laid(<<kind, l>>)
<1> DEFINE n == Len(FrameOrder)
           seqs == [i \in DOMAIN FrameOrder |-> FrameWords(FrameOrder[i])]
           rest == FlattenSeq(seqs)
<1>1. Fixed = Header \o rest
  BY DEF Fixed
<1>2. Header \in Seq(WordNames) /\ Has(Header, <<"initialized">>) /\ Has(Header, <<"nextRow">>)
  <2>1. <<"initialized">> \in WordNames /\ <<"nextRow">> \in WordNames
    BY DEF WordNames
  <2>2. Len(Header) = 2 /\ Header[1] = <<"initialized">> /\ Header[2] = <<"nextRow">> /\ Header \in Seq(WordNames)
    BY <2>1 DEF Header
  <2>3. 1 \in 1..2 /\ 2 \in 1..2
    OBVIOUS
  <2> QED
    BY <2>2, <2>3 DEF Has
<1>3. n \in Nat /\ seqs \in [1..n -> Seq(WordNames)] /\ \A i \in 1..n : seqs[i] = FrameWords(FrameOrder[i])
  BY FramesAre, FrameWordsAre
<1>4. \A f \in Frames : \E i \in 1..n : seqs[i] = FrameWords(f)
  BY <1>3, FramesAre
<1> HIDE DEF n, seqs
<1>5. rest \in Seq(WordNames)
  BY <1>3, FlattenPlaced
<1>6. ASSUME NEW f \in Frames, NEW x, Has(FrameWords(f), x) PROVE Has(rest, x)
  BY <1>3, <1>4, <1>6, HasFlatten
<1> HIDE DEF rest
<1> DEFINE all == Header \o rest
<1>7. all \in Seq(WordNames) /\ \A x : Has(Header, x) \/ Has(rest, x) => Has(all, x)
  BY <1>2, <1>5, Behind, HasConcat
<1>8. Fixed = all
  BY <1>1
<1> HIDE DEF all
<1>9. Fixed \in Seq(WordNames) /\ Len(Fixed) \in Nat /\ DOMAIN Fixed = 1..Len(Fixed)
  BY <1>7, <1>8, LenProperties
<1>10. ASSUME NEW x, Has(Fixed, x) PROVE Laid(x)
  <2>1. x \in Range(Fixed) /\ \E i \in DOMAIN Fixed : Fixed[i] = x
    BY <1>9, <1>10 DEF Has, Range
  <2> DEFINE i == CHOOSE i \in DOMAIN Fixed : Fixed[i] = x
  <2>2. i \in DOMAIN Fixed /\ Fixed[i] = x
    BY <2>1
  <2>3. WordOffset[x] = i - 1
    BY <2>1 DEF WordOffset
  <2> HIDE DEF i
  <2>4. i - 1 \in 0..Len(Fixed) - 1 /\ (i - 1) + 1 = i
    BY <1>9, <2>2
  <2> QED
    BY <2>1, <2>2, <2>3, <2>4 DEF Laid
<1>11. \A f \in Frames : Laid(<<"committed", f>>) /\ Laid(<<"tentative", f>>)
  BY <1>6, <1>7, <1>8, <1>10, FrameWordsAre
<1>12. ASSUME NEW l \in Locals, NEW kind, Keeps(l, kind) PROVE Laid(<<kind, l>>)
  <2>1. FrameOf[l] \in Frames /\ Has(LocalsOf[FrameOf[l]], l)
    BY LocalsAre
  <2>2. Has(FrameWords(FrameOf[l]), <<kind, l>>)
    BY <1>12, <2>1, FrameWordsAre
  <2> QED
    BY <1>6, <1>7, <1>8, <1>10, <2>1, <2>2
<1> QED
  BY <1>2, <1>7, <1>8, <1>9, <1>10, <1>11, <1>12

LEMMA CapacityIs ==
  ASSUME NEW rows \in Nat, NEW l \in Locals
  PROVE  /\ Capacity(l, rows) \in Nat
         /\ Persistent(l) => Capacity(l, rows) > 0 /\ Retains(l)
         /\ Capacity(l, rows) > 0 => Retains(l)
         /\ \A back \in Nat : back > 0 /\ back <= Depth[l] /\ back <= rows
              => Retains(l) /\ back <= Capacity(l, rows)
<1>1. Depth[l] \in Nat
  BY LocalsAre
<1>2. CASE Persistent(l)
  BY <1>1, <1>2 DEF Capacity, Smaller, Larger, Retains
<1>3. CASE ~Persistent(l)
  BY <1>1, <1>3 DEF Capacity, Smaller, Larger, Retains
<1> QED
  BY <1>2, <1>3

(* What the word w of an execution holds, when it is a history's. *)
HistorySlot(rows, w) == HistoryWords(rows)[w - Len(Fixed) + 1]

LEMMA HistoryIs ==
  ASSUME NEW rows \in Nat
  PROVE  /\ Len(HistoryWords(rows)) \in Nat /\ StateWords(rows) \in Nat /\ Len(Fixed) <= StateWords(rows)
         /\ \A l \in Locals : HistoryBase(l, rows) \in Nat
         /\ \A l \in Locals : \A k \in 0..Capacity(l, rows) - 1 :
              /\ HistoryBase(l, rows) + k \in Len(Fixed)..StateWords(rows) - 1
              /\ HistorySlot(rows, HistoryBase(l, rows) + k) = <<l, k>>
<1> DEFINE n == Len(LocalOrder)
           words(i) == [k \in 1..Capacity(LocalOrder[i], rows) |-> <<LocalOrder[i], k - 1>>]
           seqs == [i \in DOMAIN LocalOrder |-> words(i)]
           flat == HistoryWords(rows)
<1>1. n \in Nat /\ DOMAIN LocalOrder = 1..n /\ \A i \in 1..n : LocalOrder[i] \in Locals
  BY LocalsAre, ElementOfSeq
<1>2. ASSUME NEW i \in 1..n
      PROVE  /\ words(i) \in Seq(Locals \X Nat) /\ Len(words(i)) = Capacity(LocalOrder[i], rows)
             /\ Capacity(LocalOrder[i], rows) \in Nat
             /\ \A k \in 1..Capacity(LocalOrder[i], rows) : words(i)[k] = <<LocalOrder[i], k - 1>>
  <2>1. LocalOrder[i] \in Locals /\ Capacity(LocalOrder[i], rows) \in Nat
    BY <1>1, CapacityIs
  <2>2. \A k \in 1..Capacity(LocalOrder[i], rows) : <<LocalOrder[i], k - 1>> \in Locals \X Nat
    BY <2>1
  <2> QED
    BY <2>1, <2>2
<1>3. seqs \in [1..n -> Seq(Locals \X Nat)] /\ \A i \in 1..n : seqs[i] = words(i)
  <2> HIDE DEF words
  <2> QED
    BY <1>1, <1>2
<1>4. flat = FlattenSeq(seqs)
  BY DEF HistoryWords
<1> HIDE DEF n, words, seqs, flat
<1>5. flat \in Seq(Locals \X Nat) /\ \E at : Placed(flat, at, seqs, n)
  BY <1>1, <1>3, <1>4, FlattenPlaced
<1>6. PICK at : Placed(flat, at, seqs, n)
  BY <1>5
<1>7. Len(flat) \in Nat /\ DOMAIN flat = 1..Len(flat)
  BY <1>5, LenProperties
<1>8. StateWords(rows) = Len(Fixed) + Len(flat) /\ Len(Fixed) \in Nat
  BY FixedIs DEF StateWords, flat
<1>9. ASSUME NEW l \in Locals, Capacity(l, rows) # 0
      PROVE  \E p \in 0..Len(flat) - 1 :
               /\ HistoryBase(l, rows) = Len(Fixed) + p
               /\ \A k \in 0..Capacity(l, rows) - 1 : p + k + 1 \in 1..Len(flat) /\ flat[p + k + 1] = <<l, k>>
  <2> DEFINE found(i) == flat[i] = <<l, 0>>
             q == CHOOSE i \in DOMAIN flat : found(i)
             c == Capacity(l, rows)
  <2>1. \E i \in DOMAIN flat : found(i)
    <3>1. PICK i \in 1..n : LocalOrder[i] = l
      BY LocalsAre DEF Has, n
    <3>2. c \in Nat /\ 1 \in 1..c
      BY <1>9, CapacityIs
    <3>3. Len(seqs[i]) = c /\ seqs[i][1] = <<l, 0>>
      BY <1>2, <1>3, <3>1, <3>2
    <3>4. at[i - 1] + 1 \in 1..Len(flat) /\ flat[at[i - 1] + 1] = <<l, 0>>
      BY <1>6, <3>2, <3>3 DEF Placed
    <3> QED
      BY <1>7, <3>4
  <2>2. q \in 1..Len(flat) /\ flat[q] = <<l, 0>>
    <3> HIDE DEF found
    <3>1. q \in DOMAIN flat /\ found(q)
      BY <2>1
    <3> QED
      BY <1>7, <3>1 DEF found
  <2>3. HistoryBase(l, rows) = Len(Fixed) + q - 1
    BY <1>9 DEF HistoryBase, flat
  <2> HIDE DEF q, found
  <2>i. PICK i \in 1..n : \E j \in 1..Len(seqs[i]) : q = at[i - 1] + j
    BY <1>6, <2>2 DEF Placed
  <2>4. PICK j \in 1..Len(seqs[i]) : q = at[i - 1] + j
    BY <2>i
  <2>5. seqs[i][j] = <<l, 0>> /\ at[i - 1] \in Nat /\ q = at[i - 1] + j
    <3>1. flat[at[i - 1] + j] = seqs[i][j] /\ at[i - 1] \in Nat
      BY <1>1, <1>6, <2>i, <2>4 DEF Placed
    <3> QED
      BY <2>2, <2>4, <3>1, Zenon
  <2>6. /\ Len(seqs[i]) = Capacity(LocalOrder[i], rows) /\ Capacity(LocalOrder[i], rows) \in Nat
        /\ \A k \in 1..Len(seqs[i]) : seqs[i][k] = <<LocalOrder[i], k - 1>>
    BY <1>2, <1>3
  <2>7. LocalOrder[i] = l /\ j = 1
    <3>1. seqs[i][j] = <<LocalOrder[i], j - 1>>
      BY <2>6
    <3> QED
      BY <2>5, <3>1
  <2>8. q - 1 = at[i - 1] /\ q - 1 \in 0..Len(flat) - 1
    BY <1>7, <2>2, <2>5, <2>7
  <2>9. ASSUME NEW k \in 0..c - 1
        PROVE  (q - 1) + k + 1 \in 1..Len(flat) /\ flat[(q - 1) + k + 1] = <<l, k>>
    <3>1. k + 1 \in 1..Len(seqs[i]) /\ (k + 1) - 1 = k
      BY <2>6, <2>7
    <3>2. seqs[i][k + 1] = <<l, k>>
      BY <2>6, <2>7, <3>1
    <3>3. at[i - 1] + (k + 1) \in 1..Len(flat) /\ flat[at[i - 1] + (k + 1)] = seqs[i][k + 1]
      <4>1. PICK r \in 1..Len(seqs[i]) : r = k + 1
        BY <3>1
      <4>2. at[i - 1] + r \in 1..Len(flat) /\ flat[at[i - 1] + r] = seqs[i][r]
        BY <1>1, <1>6, <2>i DEF Placed
      <4> QED
        BY <4>1, <4>2
    <3>4. (q - 1) + k + 1 = at[i - 1] + (k + 1)
      <4>1. c \in Nat
        BY CapacityIs
      <4>2. k \in Int /\ at[i - 1] \in Int
        BY <4>1, <2>5
      <4> QED
        BY <4>2, <2>8
    <3> QED
      BY <3>2, <3>3, <3>4, Zenon
  <2> QED
    BY <1>8, <2>2, <2>3, <2>8, <2>9
<1>10. ASSUME NEW l \in Locals PROVE HistoryBase(l, rows) \in Nat
  <2>1. CASE Capacity(l, rows) = 0
    BY <2>1 DEF HistoryBase
  <2>2. CASE Capacity(l, rows) # 0
    BY <1>7, <1>8, <1>9, <2>2
  <2> QED
    BY <2>1, <2>2
<1>11. ASSUME NEW l \in Locals, NEW k \in 0..Capacity(l, rows) - 1
       PROVE  /\ HistoryBase(l, rows) + k \in Len(Fixed)..StateWords(rows) - 1
              /\ flat[HistoryBase(l, rows) + k - Len(Fixed) + 1] = <<l, k>>
  <2>1. Capacity(l, rows) # 0 /\ k \in Nat
    BY CapacityIs
  <2>2. PICK p \in 0..Len(flat) - 1 :
          /\ HistoryBase(l, rows) = Len(Fixed) + p
          /\ \A i \in 0..Capacity(l, rows) - 1 : p + i + 1 \in 1..Len(flat) /\ flat[p + i + 1] = <<l, i>>
    BY <1>9, <2>1
  <2>3. p + k + 1 \in 1..Len(flat) /\ flat[p + k + 1] = <<l, k>>
    BY <2>2
  <2>4. p \in Nat /\ HistoryBase(l, rows) + k - Len(Fixed) + 1 = p + k + 1
    BY <1>7, <1>8, <2>1, <2>2
  <2> QED
    BY <1>7, <1>8, <2>1, <2>2, <2>3, <2>4
<1> QED
  BY <1>7, <1>8, <1>10, <1>11 DEF flat, HistorySlot

(* No two histories share a slot. *)
LEMMA SlotsApart ==
  ASSUME NEW rows \in Nat, NEW l \in Locals, NEW h \in Locals,
         NEW k \in 0..Capacity(l, rows) - 1, NEW j \in 0..Capacity(h, rows) - 1,
         HistoryBase(l, rows) + k = HistoryBase(h, rows) + j
  PROVE  l = h /\ k = j
<1>1. <<l, k>> = <<h, j>>
  <2>1. HistorySlot(rows, HistoryBase(l, rows) + k) = <<l, k>>
    BY HistoryIs
  <2>2. HistorySlot(rows, HistoryBase(h, rows) + j) = <<h, j>>
    BY HistoryIs
  <2> QED
    BY <2>1, <2>2
<1> QED
  BY <1>1

-----------------------------------------------------------------------------
(***************************************************************************)
(* The kernel: what it does to the words of an execution.                  *)
(***************************************************************************)

(* The memory m has the words of an execution of that many rows. *)
Region(m, base, rows) ==
  base \in Nat /\ rows \in Nat /\ base..(base + StateWords(rows) - 1) \subseteq DOMAIN m

(* Its descriptors say where the histories are. *)
Described(m, base, rows) ==
  \A l \in Locals : Retains(l) =>
    /\ m[At(base, "historyBase", l)] = HistoryBase(l, rows)
    /\ m[At(base, "historyCapacity", l)] = Capacity(l, rows)

LEMMA InWords ==
  /\ \A kind, X, k, x : <<k, x>> \in Words(kind, X) <=> k = kind /\ x \in X
  /\ \A kind, X, k : <<k>> \notin Words(kind, X)
<1>1. ASSUME NEW kind, NEW X, NEW k, NEW x PROVE <<k, x>> \in Words(kind, X) <=> k = kind /\ x \in X
  BY DEF Words
<1>2. ASSUME NEW kind, NEW X, NEW k, <<k>> \in Words(kind, X) PROVE FALSE
  <2>1. PICK a \in {kind}, b \in X : <<k>> = <<a, b>>
    BY <1>2 DEF Words
  <2>2. Len(<<k>>) = 1 /\ Len(<<a, b>>) = 2
    OBVIOUS
  <2> QED
    BY <2>1, <2>2
<1> QED
  BY <1>1, <1>2

LEMMA WordInside ==
  ASSUME NEW m, NEW base, NEW rows, Region(m, base, rows), NEW x, Laid(x)
  PROVE  base + WordOffset[x] \in DOMAIN m /\ base + WordOffset[x] \in base..(base + Len(Fixed) - 1)
<1>1. base \in Nat /\ rows \in Nat /\ base..(base + StateWords(rows) - 1) \subseteq DOMAIN m
  BY DEF Region
<1>2. Len(Fixed) \in Nat /\ StateWords(rows) \in Nat /\ Len(Fixed) <= StateWords(rows)
  BY <1>1, FixedIs, HistoryIs
<1>3. WordOffset[x] \in 0..Len(Fixed) - 1
  BY DEF Laid
<1>4. base + WordOffset[x] \in base..(base + StateWords(rows) - 1)
  BY <1>1, <1>2, <1>3
<1> QED
  BY <1>1, <1>2, <1>3, <1>4

LEMMA WrittenIs ==
  ASSUME NEW m, NEW base, NEW rows, Region(m, base, rows), NEW names, NEW new
  PROVE  /\ DOMAIN Written(m, base, names, new) = DOMAIN m
         /\ \A x : Laid(x) =>
              Written(m, base, names, new)[base + WordOffset[x]]
                = IF x \in names THEN new[x] ELSE m[base + WordOffset[x]]
         /\ \A w \in DOMAIN m : w \in Int /\ (w < base \/ base + Len(Fixed) <= w) =>
              Written(m, base, names, new)[w] = m[w]
<1>1. base \in Nat /\ Len(Fixed) \in Nat /\ DOMAIN Fixed = 1..Len(Fixed)
  BY FixedIs DEF Region
<1>2. ASSUME NEW x, Laid(x)
      PROVE  Written(m, base, names, new)[base + WordOffset[x]]
                = IF x \in names THEN new[x] ELSE m[base + WordOffset[x]]
  <2> DEFINE w == base + WordOffset[x]
  <2>1. w \in DOMAIN m
    BY <1>2, WordInside
  <2>2. WordOffset[x] \in 0..Len(Fixed) - 1 /\ Fixed[WordOffset[x] + 1] = x
    BY <1>2 DEF Laid
  <2>3. w - base + 1 = WordOffset[x] + 1 /\ WordOffset[x] + 1 \in DOMAIN Fixed
    BY <1>1, <2>2
  <2>4. Fixed[w - base + 1] = x /\ w - base + 1 \in DOMAIN Fixed
    BY <2>2, <2>3
  <2> HIDE DEF w
  <2>5. Written(m, base, names, new)[w] = IF x \in names THEN new[x] ELSE m[w]
    BY <2>1, <2>4 DEF Written, Named
  <2> QED
    BY <2>5 DEF w
<1>3. ASSUME NEW w \in DOMAIN m, w \in Int, w < base \/ base + Len(Fixed) <= w
      PROVE  Written(m, base, names, new)[w] = m[w]
  <2>1. w - base + 1 \notin DOMAIN Fixed
    BY <1>1, <1>3
  <2> QED
    BY <2>1 DEF Written, Named
<1> QED
  BY <1>2, <1>3 DEF Written

(* What the words of the program are and what they are not. *)
LEMMA WordsLaid ==
  /\ Laid(<<"initialized">>) /\ Laid(<<"nextRow">>)
  /\ \A f \in Frames : Laid(<<"committed", f>>) /\ Laid(<<"tentative", f>>)
  /\ \A l \in Locals :
       /\ Laid(<<"scratch", l>>)
       /\ Persistent(l) => Laid(<<"committedInit", l>>) /\ Laid(<<"tentativeInit", l>>)
       /\ Retains(l) => Laid(<<"historyBase", l>>) /\ Laid(<<"historyCapacity", l>>)
BY FixedIs DEF Keeps

(* The words outside the fixed ones, and those before the region. *)
Beyond(m, base) == {w \in DOMAIN m : w \in Int /\ (w < base \/ base + Len(Fixed) <= w)}

LEMMA ResetIs ==
  ASSUME NEW m, NEW base, NEW rows, Region(m, base, rows), NEW row,
         NEW R, R = Reset(m, base, row)
  PROVE  /\ DOMAIN R = DOMAIN m
         /\ R[base + WordOffset[<<"initialized">>]] = m[base + WordOffset[<<"initialized">>]]
         /\ R[base + WordOffset[<<"nextRow">>]] = m[base + WordOffset[<<"nextRow">>]]
         /\ \A f \in Frames :
              /\ R[At(base, "committed", f)] = m[At(base, "committed", f)]
              /\ R[At(base, "tentative", f)] = m[At(base, "committed", f)]
         /\ \A l \in Locals :
              /\ Retains(l) =>
                   /\ R[At(base, "historyBase", l)] = m[At(base, "historyBase", l)]
                   /\ R[At(base, "historyCapacity", l)] = m[At(base, "historyCapacity", l)]
              /\ Persistent(l) =>
                   /\ R[At(base, "committedInit", l)] = m[At(base, "committedInit", l)]
                   /\ R[At(base, "tentativeInit", l)] =
                        IF m[At(base, "committed", FrameOf[l])] # 0
                        THEN m[At(base, "committedInit", l)] ELSE m[At(base, "tentativeInit", l)]
              /\ R[At(base, "scratch", l)] =
                   IF m[At(base, "committed", FrameOf[l])] # 0
                   THEN IF Persistent(l) THEN Carried(m, base, l, row) ELSE 0
                   ELSE m[At(base, "scratch", l)]
         /\ \A w \in Beyond(m, base) : R[w] = m[w]
<1> DEFINE active == {f \in Frames : m[At(base, "committed", f)] # 0}
           names == Words("tentative", Frames) \cup Words("scratch", LocalsIn(active))
                      \cup Words("tentativeInit", PersistentIn(active))
           new == [name \in names |->
             CASE name[1] = "tentative"     -> m[At(base, "committed", name[2])]
               [] name[1] = "tentativeInit" -> m[At(base, "committedInit", name[2])]
               [] name[1] = "scratch"       -> IF Persistent(name[2])
                                               THEN Carried(m, base, name[2], row) ELSE 0]
<1>1. R = Written(m, base, names, new)
  BY DEF Reset
<1>2. \A k, x : <<k, x>> \in names <=>
        \/ k = "tentative" /\ x \in Frames
        \/ k = "scratch" /\ x \in LocalsIn(active)
        \/ k = "tentativeInit" /\ x \in PersistentIn(active)
  <2> HIDE DEF active
  <2> QED
    BY InWords
<1>3. \A k : <<k>> \notin names
  <2> HIDE DEF active
  <2> QED
    BY InWords
<1>4. /\ \A x : <<"tentative", x>> \in names => new[<<"tentative", x>>] = m[At(base, "committed", x)]
      /\ \A x : <<"tentativeInit", x>> \in names => new[<<"tentativeInit", x>>] = m[At(base, "committedInit", x)]
      /\ \A x : <<"scratch", x>> \in names =>
           new[<<"scratch", x>>] = IF Persistent(x) THEN Carried(m, base, x, row) ELSE 0
  <2> HIDE DEF names
  <2> QED
    OBVIOUS
<1>5. \A l \in Locals : /\ l \in LocalsIn(active) <=> m[At(base, "committed", FrameOf[l])] # 0
                        /\ l \in PersistentIn(active) <=> l \in LocalsIn(active) /\ Persistent(l)
  BY LocalsAre DEF LocalsIn, PersistentIn
<1> HIDE DEF active, names, new
<1>6. /\ DOMAIN R = DOMAIN m
      /\ \A x : Laid(x) => R[base + WordOffset[x]] = IF x \in names THEN new[x] ELSE m[base + WordOffset[x]]
      /\ \A w \in DOMAIN m : w \in Int /\ (w < base \/ base + Len(Fixed) <= w) => R[w] = m[w]
  BY <1>1, WrittenIs
<1>7. \A k, x : Laid(<<k, x>>) =>
        R[At(base, k, x)] = IF <<k, x>> \in names THEN new[<<k, x>>] ELSE m[At(base, k, x)]
  BY <1>6 DEF At
<1>8. /\ R[base + WordOffset[<<"initialized">>]] = m[base + WordOffset[<<"initialized">>]]
      /\ R[base + WordOffset[<<"nextRow">>]] = m[base + WordOffset[<<"nextRow">>]]
  BY <1>3, <1>6, WordsLaid
<1>9. ASSUME NEW f \in Frames
      PROVE  /\ R[At(base, "committed", f)] = m[At(base, "committed", f)]
             /\ R[At(base, "tentative", f)] = m[At(base, "committed", f)]
  BY <1>2, <1>4, <1>7, WordsLaid
<1>10. ASSUME NEW l \in Locals
       PROVE  /\ Retains(l) =>
                   /\ R[At(base, "historyBase", l)] = m[At(base, "historyBase", l)]
                   /\ R[At(base, "historyCapacity", l)] = m[At(base, "historyCapacity", l)]
              /\ Persistent(l) =>
                   /\ R[At(base, "committedInit", l)] = m[At(base, "committedInit", l)]
                   /\ R[At(base, "tentativeInit", l)] =
                        IF m[At(base, "committed", FrameOf[l])] # 0
                        THEN m[At(base, "committedInit", l)] ELSE m[At(base, "tentativeInit", l)]
              /\ R[At(base, "scratch", l)] =
                   IF m[At(base, "committed", FrameOf[l])] # 0
                   THEN IF Persistent(l) THEN Carried(m, base, l, row) ELSE 0
                   ELSE m[At(base, "scratch", l)]
  <2>1. \A kind \in {"historyBase", "historyCapacity", "committedInit"} :
          Laid(<<kind, l>>) => R[At(base, kind, l)] = m[At(base, kind, l)]
    BY <1>2, <1>7
  <2>2. ASSUME Laid(<<"tentativeInit", l>>), Persistent(l)
        PROVE  R[At(base, "tentativeInit", l)] =
                 IF m[At(base, "committed", FrameOf[l])] # 0
                 THEN m[At(base, "committedInit", l)] ELSE m[At(base, "tentativeInit", l)]
    BY <1>2, <1>4, <1>5, <1>7, <2>2
  <2>3. R[At(base, "scratch", l)] =
          IF m[At(base, "committed", FrameOf[l])] # 0
          THEN IF Persistent(l) THEN Carried(m, base, l, row) ELSE 0
          ELSE m[At(base, "scratch", l)]
    <3>1. Laid(<<"scratch", l>>)
      BY WordsLaid
    <3>2. <<"scratch", l>> \in names <=> m[At(base, "committed", FrameOf[l])] # 0
      BY <1>2, <1>5
    <3> QED
      BY <1>4, <1>7, <3>1, <3>2
  <2> QED
    BY <2>1, <2>2, <2>3, WordsLaid
<1> QED
  BY <1>6, <1>8, <1>9, <1>10 DEF Beyond

LEMMA BodyIs ==
  ASSUME NEW m, NEW base, NEW rows, Region(m, base, rows), NEW row, NEW value \in DOMAIN Calls,
         NEW B, B = Body(m, base, row, value)
  PROVE  /\ DOMAIN B = DOMAIN m
         /\ B[base + WordOffset[<<"initialized">>]] = m[base + WordOffset[<<"initialized">>]]
         /\ B[base + WordOffset[<<"nextRow">>]] = m[base + WordOffset[<<"nextRow">>]]
         /\ \A f \in Frames :
              /\ B[At(base, "committed", f)] = m[At(base, "committed", f)]
              /\ B[At(base, "tentative", f)] =
                   IF f \in Calls[value] /\ m[At(base, "tentative", f)] = 0 THEN row + 1
                   ELSE m[At(base, "tentative", f)]
         /\ \A l \in Locals :
              /\ Retains(l) =>
                   /\ B[At(base, "historyBase", l)] = m[At(base, "historyBase", l)]
                   /\ B[At(base, "historyCapacity", l)] = m[At(base, "historyCapacity", l)]
              /\ Persistent(l) =>
                   /\ B[At(base, "committedInit", l)] = m[At(base, "committedInit", l)]
                   /\ B[At(base, "tentativeInit", l)] =
                        IF FrameOf[l] \in Calls[value] THEN 1 ELSE m[At(base, "tentativeInit", l)]
              /\ B[At(base, "scratch", l)] =
                   IF FrameOf[l] \in Calls[value]
                   THEN IF ~Persistent(l) THEN value
                        ELSE IF m[At(base, "tentativeInit", l)] = 0 THEN value + 1
                        ELSE m[At(base, "scratch", l)] + 1
                   ELSE m[At(base, "scratch", l)]
         /\ \A w \in Beyond(m, base) : B[w] = m[w]
<1> DEFINE called == Calls[value]
           names == Words("tentative", called) \cup Words("scratch", LocalsIn(called))
                      \cup Words("tentativeInit", PersistentIn(called))
           new == [name \in names |->
             CASE name[1] = "tentative" ->
                    IF m[At(base, "tentative", name[2])] = 0 THEN row + 1
                    ELSE m[At(base, "tentative", name[2])]
               [] name[1] = "tentativeInit" -> 1
               [] name[1] = "scratch" ->
                    IF ~Persistent(name[2]) THEN value
                    ELSE IF m[At(base, "tentativeInit", name[2])] = 0 THEN value + 1
                    ELSE m[At(base, "scratch", name[2])] + 1]
<1>1. B = Written(m, base, names, new)
  BY DEF Body
<1>2. called \subseteq Frames
  BY ProgramIs
<1> HIDE DEF called
<1>3. \A k, x : <<k, x>> \in names <=>
        \/ k = "tentative" /\ x \in called
        \/ k = "scratch" /\ x \in LocalsIn(called)
        \/ k = "tentativeInit" /\ x \in PersistentIn(called)
  BY InWords
<1>4. \A k : <<k>> \notin names
  BY InWords
<1>5. /\ \A x : <<"tentative", x>> \in names =>
           new[<<"tentative", x>>] =
             IF m[At(base, "tentative", x)] = 0 THEN row + 1 ELSE m[At(base, "tentative", x)]
      /\ \A x : <<"tentativeInit", x>> \in names => new[<<"tentativeInit", x>>] = 1
      /\ \A x : <<"scratch", x>> \in names =>
           new[<<"scratch", x>>] =
             IF ~Persistent(x) THEN value
             ELSE IF m[At(base, "tentativeInit", x)] = 0 THEN value + 1
             ELSE m[At(base, "scratch", x)] + 1
  <2> HIDE DEF names
  <2> QED
    OBVIOUS
<1>6. \A l \in Locals : /\ l \in LocalsIn(called) <=> FrameOf[l] \in called
                        /\ l \in PersistentIn(called) <=> l \in LocalsIn(called) /\ Persistent(l)
  BY DEF LocalsIn, PersistentIn
<1> HIDE DEF names, new
<1>7. /\ DOMAIN B = DOMAIN m
      /\ \A x : Laid(x) => B[base + WordOffset[x]] = IF x \in names THEN new[x] ELSE m[base + WordOffset[x]]
      /\ \A w \in DOMAIN m : w \in Int /\ (w < base \/ base + Len(Fixed) <= w) => B[w] = m[w]
  BY <1>1, WrittenIs
<1>8. \A k, x : Laid(<<k, x>>) =>
        B[At(base, k, x)] = IF <<k, x>> \in names THEN new[<<k, x>>] ELSE m[At(base, k, x)]
  BY <1>7 DEF At
<1>9. /\ B[base + WordOffset[<<"initialized">>]] = m[base + WordOffset[<<"initialized">>]]
      /\ B[base + WordOffset[<<"nextRow">>]] = m[base + WordOffset[<<"nextRow">>]]
  BY <1>4, <1>7, WordsLaid
<1>10. ASSUME NEW f \in Frames
       PROVE  /\ B[At(base, "committed", f)] = m[At(base, "committed", f)]
              /\ B[At(base, "tentative", f)] =
                   IF f \in called /\ m[At(base, "tentative", f)] = 0 THEN row + 1
                   ELSE m[At(base, "tentative", f)]
  <2>1. Laid(<<"committed", f>>) /\ Laid(<<"tentative", f>>)
    BY WordsLaid
  <2>2. <<"committed", f>> \notin names /\ (<<"tentative", f>> \in names <=> f \in called)
    BY <1>3
  <2> QED
    BY <1>5, <1>8, <2>1, <2>2
<1>11. ASSUME NEW l \in Locals
       PROVE  /\ Retains(l) =>
                   /\ B[At(base, "historyBase", l)] = m[At(base, "historyBase", l)]
                   /\ B[At(base, "historyCapacity", l)] = m[At(base, "historyCapacity", l)]
              /\ Persistent(l) =>
                   /\ B[At(base, "committedInit", l)] = m[At(base, "committedInit", l)]
                   /\ B[At(base, "tentativeInit", l)] =
                        IF FrameOf[l] \in called THEN 1 ELSE m[At(base, "tentativeInit", l)]
              /\ B[At(base, "scratch", l)] =
                   IF FrameOf[l] \in called
                   THEN IF ~Persistent(l) THEN value
                        ELSE IF m[At(base, "tentativeInit", l)] = 0 THEN value + 1
                        ELSE m[At(base, "scratch", l)] + 1
                   ELSE m[At(base, "scratch", l)]
  <2>1. \A kind \in {"historyBase", "historyCapacity", "committedInit"} :
          Laid(<<kind, l>>) => B[At(base, kind, l)] = m[At(base, kind, l)]
    BY <1>3, <1>8
  <2>2. ASSUME Laid(<<"tentativeInit", l>>), Persistent(l)
        PROVE  B[At(base, "tentativeInit", l)] =
                 IF FrameOf[l] \in called THEN 1 ELSE m[At(base, "tentativeInit", l)]
    BY <1>3, <1>5, <1>6, <1>8, <2>2
  <2>3. B[At(base, "scratch", l)] =
          IF FrameOf[l] \in called
          THEN IF ~Persistent(l) THEN value
               ELSE IF m[At(base, "tentativeInit", l)] = 0 THEN value + 1
               ELSE m[At(base, "scratch", l)] + 1
          ELSE m[At(base, "scratch", l)]
    <3>1. Laid(<<"scratch", l>>)
      BY WordsLaid
    <3>2. <<"scratch", l>> \in names <=> FrameOf[l] \in called
      BY <1>3, <1>6
    <3> QED
      BY <1>5, <1>8, <3>1, <3>2
  <2> QED
    BY <2>1, <2>2, <2>3, WordsLaid
<1> QED
  BY <1>7, <1>9, <1>10, <1>11 DEF Beyond, called

(* The ring word of a row. *)
LEMMA RingIs ==
  ASSUME NEW m, NEW base, NEW rows, Region(m, base, rows), Described(m, base, rows),
         NEW l \in Locals, Retains(l), Capacity(l, rows) > 0, NEW r \in Nat
  PROVE  /\ r % Capacity(l, rows) \in 0..Capacity(l, rows) - 1
         /\ RingWord(m, base, l, r) = base + (HistoryBase(l, rows) + (r % Capacity(l, rows)))
         /\ RingWord(m, base, l, r) \in (base + Len(Fixed))..(base + StateWords(rows) - 1)
         /\ RingWord(m, base, l, r) \in Beyond(m, base)
<1> DEFINE c == Capacity(l, rows)
           h == HistoryBase(l, rows)
           d == r % c
           last == base + StateWords(rows) - 1
           first == base + Len(Fixed)
<1>1. base \in Nat /\ rows \in Nat /\ base..last \subseteq DOMAIN m
  BY DEF Region
<1>2. c \in Nat /\ c > 0 /\ h \in Nat /\ Len(Fixed) \in Nat /\ StateWords(rows) \in Nat
  BY <1>1, CapacityIs, HistoryIs, FixedIs
<1> HIDE DEF c
<1>3. d \in 0..c - 1 /\ d \in Nat
  BY <1>2
<1>4. m[At(base, "historyBase", l)] = h /\ m[At(base, "historyCapacity", l)] = c
  BY DEF Described, c
<1>5. RingWord(m, base, l, r) = base + h + d
  BY <1>4, Zenon DEF RingWord
<1>6. h + d \in Len(Fixed)..StateWords(rows) - 1
  <2>1. \A k \in 0..Capacity(l, rows) - 1 : HistoryBase(l, rows) + k \in Len(Fixed)..StateWords(rows) - 1
    BY <1>1, HistoryIs
  <2> QED
    BY <1>3, <2>1 DEF c
<1> HIDE DEF d, h
<1>7. base + h + d = base + (h + d) /\ base + h + d \in first..last /\ base + h + d \in Int
      /\ base + h + d \in base..last /\ first <= base + h + d
  BY <1>1, <1>2, <1>3, <1>6
<1> DEFINE w == base + h + d
<1>8. w \in Beyond(m, base)
  <2>1. w \in DOMAIN m /\ w \in Int /\ base + Len(Fixed) <= w
    BY <1>1, <1>7
  <2> QED
    BY <2>1 DEF Beyond
<1>9. RingWord(m, base, l, r) \in first..last /\ RingWord(m, base, l, r) \in Beyond(m, base)
  BY <1>5, <1>7, <1>8
<1>10. RingWord(m, base, l, r) = base + (h + d)
  BY <1>5, <1>7
<1> HIDE DEF w
<1>11. r % Capacity(l, rows) \in 0..Capacity(l, rows) - 1
  BY <1>3 DEF c, d
<1>12. RingWord(m, base, l, r) = base + (HistoryBase(l, rows) + (r % Capacity(l, rows)))
  BY <1>10, Zenon DEF c, d, h
<1> QED
  BY <1>9, <1>11, <1>12

LEMMA CommitIs ==
  ASSUME NEW m, NEW base, NEW rows, Region(m, base, rows), Described(m, base, rows),
         NEW row \in Nat, NEW C, C = Commit(m, base, row)
  PROVE  /\ DOMAIN C = DOMAIN m
         /\ C[base + WordOffset[<<"initialized">>]] = m[base + WordOffset[<<"initialized">>]]
         /\ C[base + WordOffset[<<"nextRow">>]] = m[base + WordOffset[<<"nextRow">>]]
         /\ \A f \in Frames :
              C[At(base, "committed", f)] =
                IF m[At(base, "tentative", f)] # 0 THEN m[At(base, "tentative", f)]
                ELSE m[At(base, "committed", f)]
         /\ \A l \in Locals :
              /\ Retains(l) =>
                   /\ C[At(base, "historyBase", l)] = m[At(base, "historyBase", l)]
                   /\ C[At(base, "historyCapacity", l)] = m[At(base, "historyCapacity", l)]
              /\ Persistent(l) =>
                   /\ C[At(base, "committedInit", l)] =
                        IF m[At(base, "tentative", FrameOf[l])] # 0
                        THEN m[At(base, "tentativeInit", l)] ELSE m[At(base, "committedInit", l)]
                   /\ C[At(base, "tentativeInit", l)] = m[At(base, "tentativeInit", l)]
         /\ \A l \in Locals : \A k \in 0..Capacity(l, rows) - 1 :
              C[base + (HistoryBase(l, rows) + k)] =
                IF m[At(base, "tentative", FrameOf[l])] # 0 /\ k = row % Capacity(l, rows)
                THEN m[At(base, "scratch", l)]
                ELSE m[base + (HistoryBase(l, rows) + k)]
         /\ \A w \in DOMAIN m :
              w \in Int /\ (w < base \/ base + StateWords(rows) <= w) => C[w] = m[w]
<1> DEFINE active == {f \in Frames : m[At(base, "tentative", f)] # 0}
           kept == {l \in LocalsIn(active) : Retains(l) /\ m[At(base, "historyCapacity", l)] > 0}
           at == {RingWord(m, base, l, row) : l \in kept}
           names == Words("committed", active) \cup Words("committedInit", PersistentIn(active))
           new == [name \in names |->
                    IF name[1] = "committed" THEN m[At(base, "tentative", name[2])]
                    ELSE m[At(base, "tentativeInit", name[2])]]
           named == Written(m, base, names, new)
           home(w) == CHOOSE l \in kept : RingWord(m, base, l, row) = w
<1>1. /\ base \in Nat /\ rows \in Nat /\ Len(Fixed) \in Nat /\ StateWords(rows) \in Nat
      /\ Len(Fixed) <= StateWords(rows)
  BY HistoryIs, FixedIs DEF Region
<1>2. C = [w \in DOMAIN m |-> IF w \in at THEN m[At(base, "scratch", home(w))] ELSE named[w]]
  BY DEF Commit
<1>3. \A l \in Locals :
        /\ l \in LocalsIn(active) <=> m[At(base, "tentative", FrameOf[l])] # 0
        /\ l \in PersistentIn(active) <=> l \in LocalsIn(active) /\ Persistent(l)
        /\ l \in kept <=> m[At(base, "tentative", FrameOf[l])] # 0 /\ Capacity(l, rows) > 0
  <2> SUFFICES ASSUME NEW l \in Locals
               PROVE  /\ l \in LocalsIn(active) <=> m[At(base, "tentative", FrameOf[l])] # 0
                      /\ l \in PersistentIn(active) <=> l \in LocalsIn(active) /\ Persistent(l)
                      /\ l \in kept <=> m[At(base, "tentative", FrameOf[l])] # 0 /\ Capacity(l, rows) > 0
    OBVIOUS
  <2>1. FrameOf[l] \in Frames
    BY LocalsAre
  <2>2. Capacity(l, rows) > 0 => Retains(l)
    BY <1>1, CapacityIs
  <2>3. Retains(l) => m[At(base, "historyCapacity", l)] = Capacity(l, rows)
    BY DEF Described
  <2> QED
    BY <2>1, <2>2, <2>3 DEF LocalsIn, PersistentIn
<1>4. kept \subseteq Locals
  BY DEF LocalsIn
<1>5. \A k, x : <<k, x>> \in names <=>
        (k = "committed" /\ x \in active) \/ (k = "committedInit" /\ x \in PersistentIn(active))
  <2> DEFINE inits == PersistentIn(active)
  <2> HIDE DEF active, inits
  <2>1. \A k, x : <<k, x>> \in Words("committed", active) <=> k = "committed" /\ x \in active
    BY InWords, Zenon
  <2>2. \A k, x : <<k, x>> \in Words("committedInit", inits) <=> k = "committedInit" /\ x \in inits
    BY InWords, Zenon
  <2>3. \A k, x : <<k, x>> \in names <=> (<<k, x>> \in Words("committed", active) \/ <<k, x>> \in Words("committedInit", inits))
    <3> DEFINE W(kind, X) == Words(kind, X)
    <3> HIDE DEF W
    <3>1. names = W("committed", active) \cup W("committedInit", inits)
      BY DEF W, inits
    <3>2. \A k, x : <<k, x>> \in names <=> (<<k, x>> \in W("committed", active) \/ <<k, x>> \in W("committedInit", inits))
      <4> HIDE DEF names
      <4> QED
        BY <3>1
    <3> QED
      BY <3>2, Zenon DEF W
  <2> HIDE DEF names
  <2> SUFFICES ASSUME NEW k, NEW x
               PROVE  <<k, x>> \in names <=> (k = "committed" /\ x \in active) \/ (k = "committedInit" /\ x \in inits)
    BY DEF inits
  <2>4. <<k, x>> \in Words("committed", active) <=> k = "committed" /\ x \in active
    BY <2>1, Zenon
  <2>5. <<k, x>> \in Words("committedInit", inits) <=> k = "committedInit" /\ x \in inits
    BY <2>2, Zenon
  <2>6. <<k, x>> \in names <=> (<<k, x>> \in Words("committed", active) \/ <<k, x>> \in Words("committedInit", inits))
    BY <2>3, Zenon
  <2> QED
    BY <2>4, <2>5, <2>6, Zenon
<1>6. \A k : <<k>> \notin names
  <2> HIDE DEF active
  <2> QED
    BY InWords
<1>7. /\ \A x : <<"committed", x>> \in names => new[<<"committed", x>>] = m[At(base, "tentative", x)]
      /\ \A x : <<"committedInit", x>> \in names => new[<<"committedInit", x>>] = m[At(base, "tentativeInit", x)]
  <2> HIDE DEF names
  <2> QED
    OBVIOUS
<1>8. \A f \in Frames : f \in active <=> m[At(base, "tentative", f)] # 0
  OBVIOUS
<1> HIDE DEF active, kept, names, new, named, home
<1>9. ASSUME NEW l \in kept
      PROVE  /\ l \in Locals /\ Retains(l) /\ Capacity(l, rows) > 0
             /\ row % Capacity(l, rows) \in 0..Capacity(l, rows) - 1
             /\ RingWord(m, base, l, row) = base + (HistoryBase(l, rows) + (row % Capacity(l, rows)))
             /\ RingWord(m, base, l, row) \in (base + Len(Fixed))..(base + StateWords(rows) - 1)
  <2>1. l \in Locals /\ Capacity(l, rows) > 0 /\ Retains(l)
    BY <1>1, <1>3, <1>4, CapacityIs
  <2> QED
    BY <2>1, RingIs
<1>10. \A w \in at : w \in (base + Len(Fixed))..(base + StateWords(rows) - 1)
  BY <1>9
<1>11. \A x : Laid(x) => base + WordOffset[x] \notin at /\ base + WordOffset[x] \in DOMAIN m
  <2> SUFFICES ASSUME NEW x, Laid(x)
               PROVE  base + WordOffset[x] \notin at /\ base + WordOffset[x] \in DOMAIN m
    OBVIOUS
  <2>1. base + WordOffset[x] \in DOMAIN m /\ base + WordOffset[x] \in base..(base + Len(Fixed) - 1)
    BY WordInside
  <2> DEFINE w == base + WordOffset[x]
  <2> HIDE DEF w
  <2>2. w \notin (base + Len(Fixed))..(base + StateWords(rows) - 1)
    BY <1>1, <2>1 DEF w
  <2> QED
    BY <1>10, <2>1, <2>2 DEF w
<1>12. /\ DOMAIN named = DOMAIN m
       /\ \A x : Laid(x) => named[base + WordOffset[x]] = IF x \in names THEN new[x] ELSE m[base + WordOffset[x]]
       /\ \A w \in DOMAIN m : w \in Int /\ (w < base \/ base + Len(Fixed) <= w) => named[w] = m[w]
  BY WrittenIs DEF named
<1>13. \A x : Laid(x) => C[base + WordOffset[x]] = IF x \in names THEN new[x] ELSE m[base + WordOffset[x]]
  BY <1>2, <1>11, <1>12
<1>14. \A k, x : Laid(<<k, x>>) =>
         C[At(base, k, x)] = IF <<k, x>> \in names THEN new[<<k, x>>] ELSE m[At(base, k, x)]
  BY <1>13 DEF At
<1>15. /\ C[base + WordOffset[<<"initialized">>]] = m[base + WordOffset[<<"initialized">>]]
       /\ C[base + WordOffset[<<"nextRow">>]] = m[base + WordOffset[<<"nextRow">>]]
  BY <1>6, <1>13, WordsLaid
<1>16. ASSUME NEW f \in Frames
       PROVE  C[At(base, "committed", f)] =
                IF m[At(base, "tentative", f)] # 0 THEN m[At(base, "tentative", f)]
                ELSE m[At(base, "committed", f)]
  <2>1. Laid(<<"committed", f>>)
    BY WordsLaid
  <2>2. <<"committed", f>> \in names <=> f \in active
    <3> DEFINE inits == PersistentIn(active)
    <3> HIDE DEF inits
    <3>1. "committed" # "committedInit"
      OBVIOUS
    <3>2. <<"committed", f>> \in names <=> ("committed" = "committed" /\ f \in active) \/ ("committed" = "committedInit" /\ f \in inits)
      BY <1>5, Zenon DEF inits
    <3> QED
      BY <3>1, <3>2
  <2>3. f \in active <=> m[At(base, "tentative", f)] # 0
    BY <1>8
  <2> QED
    BY <1>7, <1>14, <2>1, <2>2, <2>3
<1>17. ASSUME NEW l \in Locals
       PROVE  /\ Retains(l) =>
                   /\ C[At(base, "historyBase", l)] = m[At(base, "historyBase", l)]
                   /\ C[At(base, "historyCapacity", l)] = m[At(base, "historyCapacity", l)]
              /\ Persistent(l) =>
                   /\ C[At(base, "committedInit", l)] =
                        IF m[At(base, "tentative", FrameOf[l])] # 0
                        THEN m[At(base, "tentativeInit", l)] ELSE m[At(base, "committedInit", l)]
                   /\ C[At(base, "tentativeInit", l)] = m[At(base, "tentativeInit", l)]
  <2>1. \A kind \in {"historyBase", "historyCapacity", "tentativeInit"} :
          Laid(<<kind, l>>) => C[At(base, kind, l)] = m[At(base, kind, l)]
    BY <1>5, <1>14
  <2>2. ASSUME Laid(<<"committedInit", l>>), Persistent(l)
        PROVE  C[At(base, "committedInit", l)] =
                 IF m[At(base, "tentative", FrameOf[l])] # 0
                 THEN m[At(base, "tentativeInit", l)] ELSE m[At(base, "committedInit", l)]
    <3>1. <<"committedInit", l>> \in names <=> m[At(base, "tentative", FrameOf[l])] # 0
      BY <1>3, <1>5, <2>2
    <3> QED
      BY <1>7, <1>14, <2>2, <3>1
  <2> QED
    BY <2>1, <2>2, WordsLaid
<1>18. ASSUME NEW l \in Locals, NEW k \in 0..Capacity(l, rows) - 1
       PROVE  C[base + (HistoryBase(l, rows) + k)] =
                IF m[At(base, "tentative", FrameOf[l])] # 0 /\ k = row % Capacity(l, rows)
                THEN m[At(base, "scratch", l)]
                ELSE m[base + (HistoryBase(l, rows) + k)]
  <2> DEFINE w == base + (HistoryBase(l, rows) + k)
  <2>0. Capacity(l, rows) \in Nat /\ HistoryBase(l, rows) \in Nat
    BY <1>1, CapacityIs, HistoryIs
  <2>9. HistoryBase(l, rows) + k \in Len(Fixed)..StateWords(rows) - 1
    BY <1>1, HistoryIs
  <2>1. /\ Capacity(l, rows) \in Nat /\ Capacity(l, rows) > 0 /\ HistoryBase(l, rows) \in Nat
        /\ HistoryBase(l, rows) + k \in Len(Fixed)..StateWords(rows) - 1
    BY <2>0, <2>9
  <2>2. w \in Int /\ base + Len(Fixed) <= w /\ w \in base..(base + StateWords(rows) - 1)
    BY <1>1, <2>1
  <2>3. w \in DOMAIN m
    BY <2>2 DEF Region
  <2>4. ASSUME NEW h \in kept, RingWord(m, base, h, row) = w
        PROVE  h = l /\ k = row % Capacity(l, rows)
    <3>1. /\ h \in Locals /\ row % Capacity(h, rows) \in 0..Capacity(h, rows) - 1
          /\ base + (HistoryBase(h, rows) + (row % Capacity(h, rows))) = base + (HistoryBase(l, rows) + k)
      BY <1>9, <2>4
    <3>2. HistoryBase(h, rows) \in Nat
      BY <1>1, <3>1, HistoryIs
    <3>3. Capacity(h, rows) \in Nat
      BY <1>1, <3>1, CapacityIs
    <3> DEFINE j == row % Capacity(h, rows)
    <3>4. j \in 0..Capacity(h, rows) - 1 /\ j \in Int
      BY <3>1, <3>3
    <3>5. base + (HistoryBase(h, rows) + j) = base + (HistoryBase(l, rows) + k)
      BY <3>1
    <3> HIDE DEF j
    <3>6. HistoryBase(h, rows) + j = HistoryBase(l, rows) + k
      BY <1>1, <2>1, <3>2, <3>4, <3>5
    <3>7. h = l /\ j = k
      BY <1>1, <3>1, <3>4, <3>6, SlotsApart
    <3> QED
      BY <3>7 DEF j
  <2> HIDE DEF w
  <2>5. CASE m[At(base, "tentative", FrameOf[l])] # 0 /\ k = row % Capacity(l, rows)
    <3>1. l \in kept
      BY <1>3, <2>1, <2>5
    <3>2. RingWord(m, base, l, row) = w
      BY <1>9, <2>5, <3>1 DEF w
    <3>3. w \in at
      BY <3>1, <3>2
    <3>4. home(w) \in kept /\ RingWord(m, base, home(w), row) = w
      BY <3>1, <3>2 DEF home
    <3>5. home(w) = l
      BY <2>4, <3>4
    <3>6. C[w] = m[At(base, "scratch", home(w))]
      <4> HIDE DEF at
      <4> QED
        BY <1>2, <2>3, <3>3
    <3> QED
      BY <2>5, <3>5, <3>6 DEF w
  <2>6. CASE ~(m[At(base, "tentative", FrameOf[l])] # 0 /\ k = row % Capacity(l, rows))
    <3>1. w \notin at
      <4> SUFFICES ASSUME w \in at PROVE FALSE
        OBVIOUS
      <4>1. PICK h \in kept : RingWord(m, base, h, row) = w
        OBVIOUS
      <4>2. h = l /\ k = row % Capacity(l, rows)
        BY <2>4, <4>1
      <4> QED
        BY <1>3, <2>6, <4>1, <4>2
    <3>2. C[w] = named[w]
      <4> HIDE DEF at
      <4> QED
        BY <1>2, <2>3, <3>1
    <3>3. named[w] = m[w]
      BY <1>12, <2>2, <2>3
    <3>4. C[w] = m[w]
      BY <3>2, <3>3
    <3> QED
      BY <2>6, <3>4 DEF w
  <2> QED
    BY <2>5, <2>6
<1>19. ASSUME NEW w \in DOMAIN m, w \in Int, w < base \/ base + StateWords(rows) <= w
       PROVE  C[w] = m[w]
  <2>1. w \notin at
    BY <1>1, <1>10, <1>19
  <2>2. w < base \/ base + Len(Fixed) <= w
    BY <1>1, <1>19
  <2> HIDE DEF at
  <2> QED
    BY <1>2, <1>12, <1>19, <2>1, <2>2
<1>20. DOMAIN C = DOMAIN m
  BY <1>2
<1> QED
  BY <1>15, <1>16, <1>17, <1>18, <1>19, <1>20

-----------------------------------------------------------------------------
(***************************************************************************)
(* The rows so far.                                                        *)
(***************************************************************************)

(* The first n rows that called a frame; the word that tells when it came  *)
(* alive, one more than that row; whether a local of it has a value.       *)
Past(s, f, n) == {r \in 0..n - 1 : f \in Calls[s[r + 1]]}
Alive(s, f, n) == IF f = Root THEN 1 ELSE IF Past(s, f, n) = {} THEN 0 ELSE Min(Past(s, f, n)) + 1
Begun(s, l, n) == IF Past(s, FrameOf[l], n) = {} THEN 0 ELSE 1

(* The least element of a set of numbers. *)
LEMMA Least ==
  ASSUME NEW S, S \subseteq Nat, S # {}
  PROVE  Min(S) \in S /\ \A y \in S : Min(S) <= y
<1> DEFINE R == {pair \in Nat \X Nat : pair[1] < pair[2]}
<1>1. IsWellFoundedOn(R, Nat)
  BY NatLessThanWellFounded DEF OpToRel
<1>2. \A m, n \in Nat : m < n => <<m, n>> \in R
  OBVIOUS
<1> HIDE DEF R
<1>3. PICK x \in S : \A y \in S : ~ (<<y, x>> \in R)
  BY <1>1, WFMin
<1>4. \A y \in S : x <= y
  <2> SUFFICES ASSUME NEW y \in S PROVE x <= y
    OBVIOUS
  <2>1. x \in Nat /\ y \in Nat /\ ~(y < x)
    BY <1>2, <1>3
  <2> QED
    BY <2>1
<1> QED
  BY <1>3, <1>4 DEF Min

LEMMA LeastIs ==
  ASSUME NEW S, S \subseteq Nat, NEW x \in S, \A y \in S : x <= y
  PROVE  Min(S) = x
<1>1. Min(S) \in S /\ \A y \in S : Min(S) <= y
  BY Least
<1>2. Min(S) <= x /\ x <= Min(S) /\ x \in Nat /\ Min(S) \in Nat
  BY <1>1
<1> QED
  BY <1>2

LEMMA PastIs ==
  ASSUME NEW s, NEW f, NEW n \in Nat
  PROVE  /\ Past(s, f, n) \subseteq 0..n - 1 /\ Past(s, f, n) \subseteq Nat /\ n \notin Past(s, f, n)
         /\ IsFiniteSet(Past(s, f, n)) /\ Cardinality(Past(s, f, n)) \in Nat
         /\ f \in Calls[s[n + 1]] => Past(s, f, n + 1) = Past(s, f, n) \cup {n}
         /\ f \notin Calls[s[n + 1]] => Past(s, f, n + 1) = Past(s, f, n)
<1>1. /\ Past(s, f, n) \subseteq 0..n - 1 /\ Past(s, f, n) \subseteq Nat /\ n \notin Past(s, f, n)
  BY DEF Past
<1>2. IsFiniteSet(Past(s, f, n)) /\ Cardinality(Past(s, f, n)) \in Nat
  <2>1. IsFiniteSet(0..n - 1)
    BY FS_Interval
  <2>2. IsFiniteSet(Past(s, f, n))
    BY <1>1, <2>1, FS_Subset
  <2> QED
    BY <2>2, FS_CardinalityType
<1>3. 0..(n + 1) - 1 = (0..n - 1) \cup {n}
  OBVIOUS
<1>4. \A r : r \in Past(s, f, n + 1) <=> (r \in Past(s, f, n) \/ (r = n /\ f \in Calls[s[n + 1]]))
  BY <1>3 DEF Past
<1>5. f \in Calls[s[n + 1]] => Past(s, f, n + 1) = Past(s, f, n) \cup {n}
  BY <1>4
<1>6. f \notin Calls[s[n + 1]] => Past(s, f, n + 1) = Past(s, f, n)
  BY <1>4
<1> QED
  BY <1>1, <1>2, <1>5, <1>6

(* The first call stays the first. *)
LEMMA FirstStays ==
  ASSUME NEW s, NEW f, NEW n \in Nat
  PROVE  /\ Past(s, f, n) # {} => Min(Past(s, f, n + 1)) = Min(Past(s, f, n)) /\ Min(Past(s, f, n)) \in 0..n - 1
         /\ Past(s, f, n) = {} /\ f \in Calls[s[n + 1]] => Min(Past(s, f, n + 1)) = n
         /\ \A r \in Past(s, f, n) : Min(Past(s, f, n)) <= r
<1>1. /\ Past(s, f, n) \subseteq 0..n - 1 /\ Past(s, f, n) \subseteq Nat
      /\ f \in Calls[s[n + 1]] => Past(s, f, n + 1) = Past(s, f, n) \cup {n}
      /\ f \notin Calls[s[n + 1]] => Past(s, f, n + 1) = Past(s, f, n)
  BY PastIs
<1>2. CASE Past(s, f, n) # {}
  <2>1. Min(Past(s, f, n)) \in Past(s, f, n) /\ \A y \in Past(s, f, n) : Min(Past(s, f, n)) <= y
    BY <1>1, <1>2, Least
  <2>2. Min(Past(s, f, n)) <= n /\ Min(Past(s, f, n)) \in 0..n - 1
    BY <1>1, <2>1
  <2>3. CASE f \in Calls[s[n + 1]]
    <3> DEFINE S == Past(s, f, n) \cup {n}
    <3>1. S \subseteq Nat /\ Min(Past(s, f, n)) \in S /\ \A y \in S : Min(Past(s, f, n)) <= y
      BY <1>1, <2>1, <2>2
    <3> HIDE DEF S
    <3>2. Min(S) = Min(Past(s, f, n))
      BY <3>1, LeastIs
    <3> QED
      BY <1>1, <1>2, <2>1, <2>2, <2>3, <3>2 DEF S
  <2>4. CASE f \notin Calls[s[n + 1]]
    BY <1>1, <1>2, <2>1, <2>2, <2>4
  <2> QED
    BY <2>3, <2>4
<1>3. CASE Past(s, f, n) = {}
  <2>1. ASSUME f \in Calls[s[n + 1]] PROVE Min(Past(s, f, n + 1)) = n
    <3>1. Past(s, f, n + 1) = {n}
      BY <1>1, <1>3, <2>1
    <3>2. Min({n}) = n
      BY LeastIs
    <3> QED
      BY <3>1, <3>2
  <2> QED
    BY <1>3, <2>1
<1> QED
  BY <1>2, <1>3

LEMMA AliveIs ==
  ASSUME NEW s, NEW f, NEW n \in Nat
  PROVE  /\ Alive(s, f, n) \in Nat
         /\ f # Root /\ Alive(s, f, n) # 0 => Past(s, f, n) # {} /\ Alive(s, f, n) <= n
         /\ f = Root => Alive(s, f, n) = 1
         /\ Past(s, f, n) # {} => Alive(s, f, n) # 0
         /\ Past(s, f, n) # {} /\ n > 0 => Alive(s, f, n) <= n
         /\ Alive(s, f, n) # 0 => Alive(s, f, n + 1) = Alive(s, f, n)
         /\ Alive(s, f, n) = 0 /\ f \in Calls[s[n + 1]] => Alive(s, f, n + 1) = n + 1
         /\ Alive(s, f, n) = 0 /\ f \notin Calls[s[n + 1]] => Alive(s, f, n + 1) = 0
         /\ Alive(s, f, n) = 0 => Past(s, f, n) = {}
<1>1. CASE f = Root
  BY <1>1 DEF Alive
<1>2. CASE f # Root
  <2>1. /\ Past(s, f, n) # {} => Min(Past(s, f, n)) \in 0..n - 1 /\ Min(Past(s, f, n + 1)) = Min(Past(s, f, n))
        /\ Past(s, f, n) = {} /\ f \in Calls[s[n + 1]] => Min(Past(s, f, n + 1)) = n
    BY FirstStays
  <2>2. /\ f \in Calls[s[n + 1]] => Past(s, f, n + 1) = Past(s, f, n) \cup {n}
        /\ f \notin Calls[s[n + 1]] => Past(s, f, n + 1) = Past(s, f, n)
    BY PastIs
  <2>3. CASE Past(s, f, n) = {}
    <3>1. Alive(s, f, n) = 0
      BY <1>2, <2>3 DEF Alive
    <3>2. f \in Calls[s[n + 1]] => Past(s, f, n + 1) # {}
      BY <2>2
    <3>3. f \in Calls[s[n + 1]] => Alive(s, f, n + 1) = n + 1
      BY <1>2, <2>1, <2>3, <3>2 DEF Alive
    <3>4. f \notin Calls[s[n + 1]] => Alive(s, f, n + 1) = 0
      BY <1>2, <2>2, <2>3 DEF Alive
    <3> QED
      BY <1>2, <2>3, <3>1, <3>3, <3>4
  <2>4. CASE Past(s, f, n) # {}
    <3>1. Past(s, f, n + 1) # {}
      BY <2>2, <2>4
    <3>2. Alive(s, f, n) = Min(Past(s, f, n)) + 1 /\ Alive(s, f, n + 1) = Min(Past(s, f, n + 1)) + 1
      BY <1>2, <2>4, <3>1 DEF Alive
    <3> QED
      BY <1>2, <2>1, <2>4, <3>2
  <2> QED
    BY <2>3, <2>4
<1> QED
  BY <1>1, <1>2

LEMMA CalledIs ==
  ASSUME NEW s, NEW l, NEW n \in Nat
  PROVE  CalledRows(s, l, n) = Past(s, FrameOf[l], n + 1)
<1>1. 0..n = 0..(n + 1) - 1
  OBVIOUS
<1> QED
  BY <1>1 DEF CalledRows, CalledAt, Past

LEMMA SeriesIs ==
  ASSUME NEW s \in Seq(DOMAIN Calls), NEW n \in Nat, n < Len(s)
  PROVE  s[n + 1] \in DOMAIN Calls /\ s[n + 1] \in Int
<1>1. Len(s) \in Nat /\ n + 1 \in 1..Len(s)
  BY LenProperties
<1>2. s[n + 1] \in DOMAIN Calls
  BY <1>1, ElementOfSeq
<1> QED
  BY <1>2, ProgramIs

(* What a row does to the value of a local. *)
LEMMA ValueIs ==
  ASSUME NEW s \in Seq(DOMAIN Calls), NEW n \in Nat, n < Len(s), NEW l, NEW f, f = FrameOf[l]
  PROVE  /\ Past(s, f, n) = {} /\ f \in Calls[s[n + 1]] =>
              RowValue(s, l, n) = IF Persistent(l) THEN s[n + 1] + 1 ELSE s[n + 1]
         /\ Past(s, f, n) = {} /\ f \notin Calls[s[n + 1]] => RowValue(s, l, n) = 0
         /\ Past(s, f, n) # {} /\ f \in Calls[s[n + 1]] =>
              RowValue(s, l, n) = IF Persistent(l) THEN RowValue(s, l, n - 1) + 1 ELSE s[n + 1]
         /\ Past(s, f, n) # {} /\ f \notin Calls[s[n + 1]] =>
              RowValue(s, l, n) = IF Persistent(l) THEN RowValue(s, l, n - 1) ELSE 0
<1> DEFINE P == Past(s, f, n)
           N == Past(s, f, n + 1)
<1>1. CalledRows(s, l, n) = N
  BY CalledIs
<1>2. /\ P \subseteq 0..n - 1 /\ n \notin P /\ IsFiniteSet(P) /\ Cardinality(P) \in Nat
      /\ f \in Calls[s[n + 1]] => N = P \cup {n}
      /\ f \notin Calls[s[n + 1]] => N = P
  BY PastIs
<1>3. /\ P # {} => Min(N) = Min(P) /\ Min(P) \in 0..n - 1
      /\ P = {} /\ f \in Calls[s[n + 1]] => Min(N) = n
  BY FirstStays
<1>4. CalledAt(s, l, n) <=> f \in Calls[s[n + 1]]
  BY DEF CalledAt
<1>5. s[n + 1] \in Int
  BY SeriesIs
<1>6. Cardinality(P \cup {n}) = Cardinality(P) + 1
  BY <1>2, FS_AddElement
<1>7. P # {} => CalledRows(s, l, n - 1) = P
  <2>1. ASSUME P # {} PROVE CalledRows(s, l, n - 1) = P
    <3>1. n - 1 \in Nat /\ (n - 1) + 1 = n
      BY <1>2, <2>1
    <3> QED
      BY <3>1, CalledIs
  <2> QED
    BY <2>1
<1> HIDE DEF P, N
<1>8. CASE P = {} /\ f \in Calls[s[n + 1]]
  <2>1. N # {} /\ Min(N) = n
    BY <1>2, <1>3, <1>8
  <2>2. Cardinality(N) = 1
    <3>1. Cardinality(P) = 0
      BY <1>2, <1>8, FS_EmptySet
    <3>2. N = P \cup {n}
      BY <1>2, <1>8
    <3> QED
      BY <1>6, <3>1, <3>2
  <2> QED
    BY <1>1, <1>4, <1>8, <2>1, <2>2 DEF RowValue, P
<1>9. CASE P = {} /\ f \notin Calls[s[n + 1]]
  BY <1>1, <1>2, <1>9 DEF RowValue, P
<1>10. CASE P # {} /\ f \in Calls[s[n + 1]]
  <2>1. N # {} /\ Min(N) = Min(P) /\ Cardinality(N) = Cardinality(P) + 1
    BY <1>2, <1>3, <1>6, <1>10
  <2>2. s[Min(P) + 1] \in Int
    <3>1. Min(P) \in Nat /\ Min(P) < Len(s)
      BY <1>3, <1>10, LenProperties
    <3> QED
      BY <3>1, SeriesIs
  <2>3. ASSUME Persistent(l) PROVE RowValue(s, l, n) = RowValue(s, l, n - 1) + 1
    <3>1. RowValue(s, l, n) = s[Min(N) + 1] + Cardinality(N)
      BY <1>1, <2>1, <2>3 DEF RowValue
    <3>2. RowValue(s, l, n - 1) = s[Min(P) + 1] + Cardinality(P)
      BY <1>7, <1>10, <2>3 DEF RowValue
    <3> QED
      BY <1>2, <2>1, <2>2, <3>1, <3>2
  <2>4. ASSUME ~Persistent(l) PROVE RowValue(s, l, n) = s[n + 1]
    BY <1>1, <1>4, <1>10, <2>1, <2>4 DEF RowValue
  <2> QED
    BY <1>10, <2>3, <2>4 DEF P
<1>11. CASE P # {} /\ f \notin Calls[s[n + 1]]
  <2>1. ASSUME Persistent(l) PROVE RowValue(s, l, n) = RowValue(s, l, n - 1)
    <3>1. RowValue(s, l, n) = s[Min(P) + 1] + Cardinality(P)
      BY <1>1, <1>2, <1>11, <2>1 DEF RowValue
    <3>2. RowValue(s, l, n - 1) = s[Min(P) + 1] + Cardinality(P)
      BY <1>7, <1>11, <2>1 DEF RowValue
    <3> QED
      BY <3>1, <3>2
  <2>2. ASSUME ~Persistent(l) PROVE RowValue(s, l, n) = 0
    BY <1>1, <1>2, <1>4, <1>11, <2>2 DEF RowValue
  <2> QED
    BY <1>11, <2>1, <2>2 DEF P
<1> QED
  BY <1>8, <1>9, <1>10, <1>11 DEF P

(* Before its frame comes alive a local is empty. *)
LEMMA NothingYet ==
  ASSUME NEW s, NEW l, NEW f, f = FrameOf[l], NEW n \in Nat, NEW r \in Nat, r < n,
         Alive(s, f, n) = 0 \/ r + 1 < Alive(s, f, n)
  PROVE  RowValue(s, l, r) = 0
<1>1. CalledRows(s, l, r) = Past(s, f, r + 1)
  BY CalledIs
<1>2. Past(s, f, r + 1) \subseteq Past(s, f, n) /\ \A x \in Past(s, f, r + 1) : x \in Nat /\ x <= r
  BY DEF Past
<1>3. Past(s, f, r + 1) = {}
  <2> SUFFICES ASSUME NEW x \in Past(s, f, r + 1) PROVE FALSE
    OBVIOUS
  <2>1. x \in Past(s, f, n) /\ x \in Nat /\ x <= r
    BY <1>2
  <2>2. Alive(s, f, n) # 0 /\ Alive(s, f, n) \in Nat
    BY <2>1, AliveIs
  <2>3. r + 1 < Alive(s, f, n)
    BY <2>2
  <2>4. f # Root
    BY <2>3, AliveIs
  <2>5. Alive(s, f, n) = Min(Past(s, f, n)) + 1
    BY <2>1, <2>4 DEF Alive
  <2>6. Min(Past(s, f, n)) <= x /\ Min(Past(s, f, n)) \in 0..n - 1
    BY <2>1, FirstStays
  <2> QED
    BY <2>1, <2>3, <2>5, <2>6
<1> QED
  BY <1>1, <1>3 DEF RowValue

(* Rows less than a capacity apart go to different slots. *)
LEMMA SlotsDiffer ==
  ASSUME NEW c \in Nat, c > 0, NEW r \in Nat, NEW n \in Nat, r < n, n < r + c
  PROVE  r % c # n % c
<1> SUFFICES ASSUME r % c = n % c PROVE FALSE
  OBVIOUS
<1> DEFINE p == r \div c
           q == n \div c
           d == r % c
<1>1. p \in Nat /\ q \in Nat /\ d \in Nat /\ r = p * c + d /\ n = q * c + d
  <2>1. r = (r \div c) * c + (r % c) /\ n = (n \div c) * c + (n % c)
    OBVIOUS
  <2>2. r \div c \in Nat /\ n \div c \in Nat /\ r % c \in Nat
    OBVIOUS
  <2> QED
    BY <2>1, <2>2
<1> HIDE DEF p, q, d
<1>2. p * c \in Nat /\ q * c \in Nat /\ (p + 1) * c = p * c + c /\ p + 1 \in Nat
  BY <1>1, Product
<1>3. CASE q <= p
  <2>1. c * q <= c * p
    BY <1>1, <1>3, TimesMonotone
  <2>2. q * c <= p * c
    BY <1>1, <2>1
  <2> QED
    BY <1>1, <1>2, <2>2
<1>4. CASE p + 1 <= q
  <2>1. c * (p + 1) <= c * q
    BY <1>1, <1>2, <1>4, TimesMonotone
  <2>2. (p + 1) * c <= q * c
    BY <1>1, <2>1
  <2> QED
    BY <1>1, <1>2, <2>2
<1> QED
  BY <1>1, <1>3, <1>4

-----------------------------------------------------------------------------
(***************************************************************************)
(* What the memory of an execution holds after n rows of the series s: the *)
(* frames that are alive, the persistent locals that have begun, and in    *)
(* the rings the last rows as far back as they reach.                      *)
(***************************************************************************)

RingHolds(m, base, s, n) ==
  \A l \in Locals : \A r \in Nat :
    /\ r < n /\ n <= r + Capacity(l, Len(s))
    /\ Alive(s, FrameOf[l], n) # 0 /\ Alive(s, FrameOf[l], n) <= r + 1
    => m[base + (HistoryBase(l, Len(s)) + (r % Capacity(l, Len(s))))] = RowValue(s, l, r)

FlagsHold(m, base, s, n) ==
  /\ \A f \in Frames : m[At(base, "committed", f)] = Alive(s, f, n)
  /\ \A l \in Locals : Persistent(l) =>
       /\ m[At(base, "committedInit", l)] = Begun(s, l, n)
       /\ m[At(base, "tentativeInit", l)] = Begun(s, l, n)

Holds(m, base, s, n) ==
  /\ Region(m, base, Len(s)) /\ Described(m, base, Len(s))
  /\ FlagsHold(m, base, s, n) /\ RingHolds(m, base, s, n)

(* A row that runs. *)
Runs(s, n) == s \in Seq(DOMAIN Calls) /\ n \in Nat /\ n < Len(s)

LEMMA CarriedIs ==
  ASSUME NEW m, NEW base, NEW s, NEW n, Runs(s, n), Holds(m, base, s, n),
         NEW l \in Locals, Persistent(l)
  PROVE  Carried(m, base, l, n) = IF Past(s, FrameOf[l], n) = {} THEN 0 ELSE RowValue(s, l, n - 1)
<1> DEFINE f == FrameOf[l]
           c == Capacity(l, Len(s))
<1>1. n \in Nat /\ Len(s) \in Nat
  BY LenProperties DEF Runs
<1>2. c \in Nat /\ c > 0 /\ Retains(l)
  BY <1>1, CapacityIs
<1>3. m[At(base, "historyCapacity", l)] = c /\ m[At(base, "committedInit", l)] = Begun(s, l, n)
  BY <1>2 DEF Holds, Described, FlagsHold
<1>4. CASE Past(s, f, n) = {}
  <2>1. m[At(base, "committedInit", l)] = 0
    BY <1>3, <1>4 DEF Begun
  <2> QED
    BY <1>4, <2>1 DEF Carried
<1>5. CASE Past(s, f, n) # {}
  <2>1. Past(s, f, n) \subseteq 0..n - 1
    BY <1>1, PastIs
  <2>2. n > 0 /\ n - 1 \in Nat /\ n - 1 < n /\ n <= (n - 1) + c
    BY <1>1, <1>2, <1>5, <2>1
  <2>3. Alive(s, f, n) # 0 /\ Alive(s, f, n) <= (n - 1) + 1
    BY <1>1, <1>5, <2>2, AliveIs
  <2> HIDE DEF c, f
  <2>4. m[base + (HistoryBase(l, Len(s)) + ((n - 1) % Capacity(l, Len(s))))] = RowValue(s, l, n - 1)
    <3> DEFINE r == n - 1
    <3>1. /\ r \in Nat /\ r < n /\ n <= r + Capacity(l, Len(s))
          /\ Alive(s, FrameOf[l], n) # 0 /\ Alive(s, FrameOf[l], n) <= r + 1
      BY <2>2, <2>3 DEF c, f
    <3>2. RingHolds(m, base, s, n)
      BY DEF Holds
    <3> HIDE DEF r
    <3>3. m[base + (HistoryBase(l, Len(s)) + (r % Capacity(l, Len(s))))] = RowValue(s, l, r)
      BY <3>1, <3>2 DEF RingHolds
    <3> QED
      BY <3>3 DEF r
  <2>5. RingWord(m, base, l, n - 1) = base + (HistoryBase(l, Len(s)) + ((n - 1) % Capacity(l, Len(s))))
    BY <1>2, <2>2, RingIs DEF Holds, c
  <2>6. m[At(base, "committedInit", l)] # 0
    BY <1>3, <1>5 DEF Begun, f
  <2>7. Carried(m, base, l, n) = m[RingWord(m, base, l, n - 1)]
    BY <1>2, <1>3, <2>2, <2>6 DEF Carried
  <2> QED
    BY <1>5, <2>4, <2>5, <2>7 DEF f
<1> QED
  BY <1>4, <1>5

LEMMA BegunIs ==
  ASSUME NEW s, NEW l, NEW n \in Nat
  PROVE  /\ Begun(s, l, n) = 0 <=> Past(s, FrameOf[l], n) = {}
         /\ Begun(s, l, n + 1) = IF FrameOf[l] \in Calls[s[n + 1]] THEN 1 ELSE Begun(s, l, n)
<1>1. /\ FrameOf[l] \in Calls[s[n + 1]] => Past(s, FrameOf[l], n + 1) = Past(s, FrameOf[l], n) \cup {n}
      /\ FrameOf[l] \notin Calls[s[n + 1]] => Past(s, FrameOf[l], n + 1) = Past(s, FrameOf[l], n)
  BY PastIs
<1> QED
  BY <1>1 DEF Begun

LEMMA HoldsAgain ==
  ASSUME NEW m, NEW x, NEW base, NEW rows, Region(m, base, rows), DOMAIN x = DOMAIN m
  PROVE  Region(x, base, rows)
BY DEF Region

(* Memory after the reset. *)
Ready(m, base, s, n) ==
  /\ Region(m, base, Len(s)) /\ Described(m, base, Len(s))
  /\ \A f \in Frames : m[At(base, "committed", f)] = Alive(s, f, n) /\ m[At(base, "tentative", f)] = Alive(s, f, n)
  /\ \A l \in Locals : Persistent(l) =>
       /\ m[At(base, "committedInit", l)] = Begun(s, l, n)
       /\ m[At(base, "tentativeInit", l)] = Begun(s, l, n)
  /\ \A l \in Locals : Alive(s, FrameOf[l], n) # 0 =>
       m[At(base, "scratch", l)] =
         IF Persistent(l) /\ Past(s, FrameOf[l], n) # {} THEN RowValue(s, l, n - 1) ELSE 0

LEMMA ResetReady ==
  ASSUME NEW m, NEW base, NEW s, NEW n, Runs(s, n), Holds(m, base, s, n),
         NEW R, R = Reset(m, base, n)
  PROVE  Ready(R, base, s, n)
<1>1. /\ DOMAIN R = DOMAIN m
      /\ \A f \in Frames :
           /\ R[At(base, "committed", f)] = m[At(base, "committed", f)]
           /\ R[At(base, "tentative", f)] = m[At(base, "committed", f)]
      /\ \A l \in Locals :
           /\ Retains(l) =>
                /\ R[At(base, "historyBase", l)] = m[At(base, "historyBase", l)]
                /\ R[At(base, "historyCapacity", l)] = m[At(base, "historyCapacity", l)]
           /\ Persistent(l) =>
                /\ R[At(base, "committedInit", l)] = m[At(base, "committedInit", l)]
                /\ R[At(base, "tentativeInit", l)] =
                     IF m[At(base, "committed", FrameOf[l])] # 0
                     THEN m[At(base, "committedInit", l)] ELSE m[At(base, "tentativeInit", l)]
           /\ R[At(base, "scratch", l)] =
                IF m[At(base, "committed", FrameOf[l])] # 0
                THEN IF Persistent(l) THEN Carried(m, base, l, n) ELSE 0
                ELSE m[At(base, "scratch", l)]
  BY ResetIs DEF Holds
<1>2. Region(R, base, Len(s))
  BY <1>1, HoldsAgain DEF Holds
<1>3. Described(R, base, Len(s))
  BY <1>1 DEF Described, Holds
<1>4. \A f \in Frames : m[At(base, "committed", f)] = Alive(s, f, n)
  BY DEF Holds, FlagsHold
<1>5. ASSUME NEW l \in Locals, Persistent(l)
      PROVE  /\ R[At(base, "committedInit", l)] = Begun(s, l, n)
             /\ R[At(base, "tentativeInit", l)] = Begun(s, l, n)
  <2>1. m[At(base, "committedInit", l)] = Begun(s, l, n) /\ m[At(base, "tentativeInit", l)] = Begun(s, l, n)
    BY <1>5 DEF Holds, FlagsHold
  <2> QED
    BY <1>1, <1>5, <2>1
<1>6. ASSUME NEW l \in Locals, Alive(s, FrameOf[l], n) # 0
      PROVE  R[At(base, "scratch", l)] =
               IF Persistent(l) /\ Past(s, FrameOf[l], n) # {} THEN RowValue(s, l, n - 1) ELSE 0
  <2>1. m[At(base, "committed", FrameOf[l])] # 0
    BY <1>4, <1>6, LocalsAre
  <2>2. R[At(base, "scratch", l)] = IF Persistent(l) THEN Carried(m, base, l, n) ELSE 0
    BY <1>1, <2>1
  <2>3. Persistent(l) =>
          Carried(m, base, l, n) = IF Past(s, FrameOf[l], n) = {} THEN 0 ELSE RowValue(s, l, n - 1)
    BY CarriedIs
  <2> QED
    BY <2>2, <2>3, ProgramIs
<1> QED
  BY <1>1, <1>2, <1>3, <1>4, <1>5, <1>6 DEF Ready

(* Memory after the body. *)
Worked(m, base, s, n) ==
  /\ Region(m, base, Len(s)) /\ Described(m, base, Len(s))
  /\ \A f \in Frames : m[At(base, "committed", f)] = Alive(s, f, n) /\ m[At(base, "tentative", f)] = Alive(s, f, n + 1)
  /\ \A l \in Locals : Persistent(l) =>
       /\ m[At(base, "committedInit", l)] = Begun(s, l, n)
       /\ m[At(base, "tentativeInit", l)] = Begun(s, l, n + 1)
  /\ \A l \in Locals : Alive(s, FrameOf[l], n + 1) # 0 => m[At(base, "scratch", l)] = RowValue(s, l, n)

LEMMA BodyWorks ==
  ASSUME NEW m, NEW base, NEW s, NEW n, Runs(s, n), Ready(m, base, s, n),
         NEW B, B = Body(m, base, n, s[n + 1])
  PROVE  Worked(B, base, s, n)
<1> DEFINE value == s[n + 1]
<1>1. value \in DOMAIN Calls /\ n \in Nat
  BY SeriesIs DEF Runs
<1>2. /\ DOMAIN B = DOMAIN m
      /\ \A f \in Frames :
           /\ B[At(base, "committed", f)] = m[At(base, "committed", f)]
           /\ B[At(base, "tentative", f)] =
                IF f \in Calls[value] /\ m[At(base, "tentative", f)] = 0 THEN n + 1
                ELSE m[At(base, "tentative", f)]
      /\ \A l \in Locals :
           /\ Retains(l) =>
                /\ B[At(base, "historyBase", l)] = m[At(base, "historyBase", l)]
                /\ B[At(base, "historyCapacity", l)] = m[At(base, "historyCapacity", l)]
           /\ Persistent(l) =>
                /\ B[At(base, "committedInit", l)] = m[At(base, "committedInit", l)]
                /\ B[At(base, "tentativeInit", l)] =
                     IF FrameOf[l] \in Calls[value] THEN 1 ELSE m[At(base, "tentativeInit", l)]
           /\ B[At(base, "scratch", l)] =
                IF FrameOf[l] \in Calls[value]
                THEN IF ~Persistent(l) THEN value
                     ELSE IF m[At(base, "tentativeInit", l)] = 0 THEN value + 1
                     ELSE m[At(base, "scratch", l)] + 1
                ELSE m[At(base, "scratch", l)]
  BY <1>1, BodyIs DEF Ready
<1>3. Region(B, base, Len(s))
  BY <1>2, HoldsAgain DEF Ready
<1>4. Described(B, base, Len(s))
  BY <1>2 DEF Described, Ready
<1>5. ASSUME NEW f \in Frames
      PROVE  B[At(base, "committed", f)] = Alive(s, f, n) /\ B[At(base, "tentative", f)] = Alive(s, f, n + 1)
  <2>1. m[At(base, "committed", f)] = Alive(s, f, n) /\ m[At(base, "tentative", f)] = Alive(s, f, n)
    BY DEF Ready
  <2>2. /\ Alive(s, f, n) # 0 => Alive(s, f, n + 1) = Alive(s, f, n)
        /\ Alive(s, f, n) = 0 /\ f \in Calls[value] => Alive(s, f, n + 1) = n + 1
        /\ Alive(s, f, n) = 0 /\ f \notin Calls[value] => Alive(s, f, n + 1) = 0
    BY <1>1, AliveIs
  <2> QED
    BY <1>2, <2>1, <2>2
<1>6. ASSUME NEW l \in Locals, Persistent(l)
      PROVE  /\ B[At(base, "committedInit", l)] = Begun(s, l, n)
             /\ B[At(base, "tentativeInit", l)] = Begun(s, l, n + 1)
  <2>1. m[At(base, "committedInit", l)] = Begun(s, l, n) /\ m[At(base, "tentativeInit", l)] = Begun(s, l, n)
    BY <1>6 DEF Ready
  <2>2. Begun(s, l, n + 1) = IF FrameOf[l] \in Calls[value] THEN 1 ELSE Begun(s, l, n)
    BY <1>1, BegunIs
  <2> QED
    BY <1>2, <1>6, <2>1, <2>2
<1>7. ASSUME NEW l \in Locals, Alive(s, FrameOf[l], n + 1) # 0
      PROVE  B[At(base, "scratch", l)] = RowValue(s, l, n)
  <2> DEFINE f == FrameOf[l]
             P == Past(s, f, n)
             called == f \in Calls[value]
  <2>1. /\ P = {} /\ called => RowValue(s, l, n) = IF Persistent(l) THEN value + 1 ELSE value
        /\ P = {} /\ ~called => RowValue(s, l, n) = 0
        /\ P # {} /\ called => RowValue(s, l, n) = IF Persistent(l) THEN RowValue(s, l, n - 1) + 1 ELSE value
        /\ P # {} /\ ~called => RowValue(s, l, n) = IF Persistent(l) THEN RowValue(s, l, n - 1) ELSE 0
    BY ValueIs DEF Runs
  <2>2. Alive(s, f, n) # 0 =>
          m[At(base, "scratch", l)] = IF Persistent(l) /\ P # {} THEN RowValue(s, l, n - 1) ELSE 0
    BY DEF Ready
  <2>3. /\ Alive(s, f, n) = 0 /\ ~called => Alive(s, f, n + 1) = 0
        /\ Alive(s, f, n) = 0 => P = {}
    BY <1>1, AliveIs
  <2>4. Persistent(l) => (m[At(base, "tentativeInit", l)] = 0 <=> P = {})
    <3>1. Begun(s, l, n) = 0 <=> P = {}
      BY <1>1, BegunIs
    <3> QED
      BY <3>1 DEF Ready
  <2>5. B[At(base, "scratch", l)] =
          IF called
          THEN IF ~Persistent(l) THEN value
               ELSE IF m[At(base, "tentativeInit", l)] = 0 THEN value + 1
               ELSE m[At(base, "scratch", l)] + 1
          ELSE m[At(base, "scratch", l)]
    BY <1>2
  <2>6. Alive(s, f, n + 1) # 0 /\ Persistent(l) \in BOOLEAN
    BY <1>7, ProgramIs
  <2> HIDE DEF P, f, called, value
  <2>7. CASE called /\ P = {}
    BY <2>1, <2>4, <2>5, <2>6, <2>7
  <2>8. CASE called /\ P # {}
    BY <2>1, <2>2, <2>3, <2>4, <2>5, <2>6, <2>8
  <2>9. CASE ~called
    BY <2>1, <2>2, <2>3, <2>5, <2>6, <2>9
  <2> QED
    BY <2>7, <2>8, <2>9
<1> QED
  BY <1>3, <1>4, <1>5, <1>6, <1>7 DEF Worked

(* Words a row does not touch keep what the rings hold. *)
LEMMA RingHoldsAgain ==
  ASSUME NEW m, NEW x, NEW base, NEW s, NEW n \in Nat, Len(s) \in Nat, Region(m, base, Len(s)),
         Described(m, base, Len(s)), RingHolds(m, base, s, n),
         \A w \in Beyond(m, base) : x[w] = m[w]
  PROVE  RingHolds(x, base, s, n)
<1> SUFFICES ASSUME NEW l \in Locals, NEW r \in Nat, r < n, n <= r + Capacity(l, Len(s)),
                    Alive(s, FrameOf[l], n) # 0, Alive(s, FrameOf[l], n) <= r + 1
             PROVE  x[base + (HistoryBase(l, Len(s)) + (r % Capacity(l, Len(s))))] = RowValue(s, l, r)
  BY DEF RingHolds
<1>1. m[base + (HistoryBase(l, Len(s)) + (r % Capacity(l, Len(s))))] = RowValue(s, l, r)
  BY DEF RingHolds
<1>2. Capacity(l, Len(s)) > 0 /\ Retains(l)
  <2>1. Capacity(l, Len(s)) \in Nat
    BY CapacityIs
  <2>2. Capacity(l, Len(s)) > 0
    BY <2>1
  <2> QED
    BY <2>2, CapacityIs
<1>3. base + (HistoryBase(l, Len(s)) + (r % Capacity(l, Len(s)))) \in Beyond(m, base)
  <2>1. RingWord(m, base, l, r) = base + (HistoryBase(l, Len(s)) + (r % Capacity(l, Len(s))))
    BY <1>2, RingIs
  <2>2. RingWord(m, base, l, r) \in Beyond(m, base)
    BY <1>2, RingIs
  <2> QED
    BY <2>1, <2>2
<1> QED
  BY <1>1, <1>3

LEMMA CommitHolds ==
  ASSUME NEW m, NEW base, NEW s, NEW n, Runs(s, n), Worked(m, base, s, n), RingHolds(m, base, s, n),
         NEW C, C = Commit(m, base, n)
  PROVE  Holds(C, base, s, n + 1)
<1> DEFINE rows == Len(s)
<1>1. n \in Nat /\ rows \in Nat
  BY LenProperties DEF Runs
<1>2. /\ DOMAIN C = DOMAIN m
      /\ \A f \in Frames :
           C[At(base, "committed", f)] =
             IF m[At(base, "tentative", f)] # 0 THEN m[At(base, "tentative", f)]
             ELSE m[At(base, "committed", f)]
      /\ \A l \in Locals :
           /\ Retains(l) =>
                /\ C[At(base, "historyBase", l)] = m[At(base, "historyBase", l)]
                /\ C[At(base, "historyCapacity", l)] = m[At(base, "historyCapacity", l)]
           /\ Persistent(l) =>
                /\ C[At(base, "committedInit", l)] =
                     IF m[At(base, "tentative", FrameOf[l])] # 0
                     THEN m[At(base, "tentativeInit", l)] ELSE m[At(base, "committedInit", l)]
                /\ C[At(base, "tentativeInit", l)] = m[At(base, "tentativeInit", l)]
      /\ \A l \in Locals : \A k \in 0..Capacity(l, rows) - 1 :
           C[base + (HistoryBase(l, rows) + k)] =
             IF m[At(base, "tentative", FrameOf[l])] # 0 /\ k = n % Capacity(l, rows)
             THEN m[At(base, "scratch", l)]
             ELSE m[base + (HistoryBase(l, rows) + k)]
  BY <1>1, CommitIs DEF Worked
<1>3. Region(C, base, rows)
  BY <1>2, HoldsAgain DEF Worked
<1>4. Described(C, base, rows)
  BY <1>2 DEF Described, Worked
<1>5. ASSUME NEW f \in Frames PROVE C[At(base, "committed", f)] = Alive(s, f, n + 1)
  <2>1. m[At(base, "committed", f)] = Alive(s, f, n) /\ m[At(base, "tentative", f)] = Alive(s, f, n + 1)
    BY DEF Worked
  <2>2. Alive(s, f, n) # 0 => Alive(s, f, n + 1) = Alive(s, f, n)
    BY <1>1, AliveIs
  <2> QED
    BY <1>2, <2>1, <2>2
<1>6. ASSUME NEW l \in Locals, Persistent(l)
      PROVE  /\ C[At(base, "committedInit", l)] = Begun(s, l, n + 1)
             /\ C[At(base, "tentativeInit", l)] = Begun(s, l, n + 1)
  <2> DEFINE f == FrameOf[l]
  <2>1. /\ m[At(base, "committedInit", l)] = Begun(s, l, n)
        /\ m[At(base, "tentativeInit", l)] = Begun(s, l, n + 1)
    BY <1>6 DEF Worked
  <2>2. Begun(s, l, n + 1) = IF f \in Calls[s[n + 1]] THEN 1 ELSE Begun(s, l, n)
    BY <1>1, BegunIs
  <2>3. m[At(base, "tentative", f)] = Alive(s, f, n + 1)
    BY LocalsAre DEF Worked
  <2>4. Alive(s, f, n + 1) = 0 => f \notin Calls[s[n + 1]]
    <3>1. /\ Alive(s, f, n) # 0 => Alive(s, f, n + 1) = Alive(s, f, n)
          /\ Alive(s, f, n) = 0 /\ f \in Calls[s[n + 1]] => Alive(s, f, n + 1) = n + 1
      BY <1>1, AliveIs
    <3>2. n + 1 # 0
      BY <1>1
    <3> QED
      BY <3>1, <3>2
  <2> QED
    BY <1>2, <1>6, <2>1, <2>2, <2>3, <2>4
<1>7. ASSUME NEW l \in Locals, NEW r \in Nat, r < n + 1, n + 1 <= r + Capacity(l, rows),
             Alive(s, FrameOf[l], n + 1) # 0, Alive(s, FrameOf[l], n + 1) <= r + 1
      PROVE  C[base + (HistoryBase(l, rows) + (r % Capacity(l, rows)))] = RowValue(s, l, r)
  <2> DEFINE f == FrameOf[l]
             c == Capacity(l, rows)
             k == r % c
  <2>1. c \in Nat
    BY <1>1, CapacityIs
  <2>2. c > 0
    BY <1>1, <1>7, <2>1
  <2>3. m[At(base, "tentative", f)] # 0
    BY <1>7, LocalsAre DEF Worked
  <2>4. k \in 0..c - 1
    <3> HIDE DEF c
    <3> QED
      BY <2>1, <2>2
  <2>5. C[base + (HistoryBase(l, rows) + k)] =
          IF m[At(base, "tentative", FrameOf[l])] # 0 /\ k = n % Capacity(l, rows)
          THEN m[At(base, "scratch", l)]
          ELSE m[base + (HistoryBase(l, rows) + k)]
    <3> HIDE DEF k
    <3> QED
      BY <1>2, <2>4
  <2>6. CASE r = n
    <3>1. k = n % Capacity(l, rows)
      BY <2>6
    <3>2. m[At(base, "scratch", l)] = RowValue(s, l, n)
      BY <1>7 DEF Worked
    <3>3. C[base + (HistoryBase(l, rows) + k)] = RowValue(s, l, n)
      <4> HIDE DEF k
      <4> QED
        BY <2>3, <2>5, <3>1, <3>2
    <3> QED
      BY <2>6, <3>3
  <2>7. CASE r # n
    <3>1. r < n /\ n < r + c /\ n <= r + c
      BY <1>1, <1>7, <2>1, <2>7
    <3>2. r % c # n % c
      <4> HIDE DEF c
      <4> QED
        BY <1>1, <2>1, <2>2, <3>1, SlotsDiffer
    <3>3. Alive(s, f, n) # 0 /\ Alive(s, f, n) <= r + 1
      <4>1. /\ Alive(s, f, n) # 0 => Alive(s, f, n + 1) = Alive(s, f, n)
            /\ Alive(s, f, n) = 0 => Alive(s, f, n + 1) = n + 1 \/ Alive(s, f, n + 1) = 0
        BY <1>1, AliveIs
      <4> QED
        BY <1>1, <1>7, <3>1, <4>1
    <3>4. m[base + (HistoryBase(l, rows) + (r % Capacity(l, rows)))] = RowValue(s, l, r)
      BY <3>1, <3>3 DEF RingHolds
    <3>5. C[base + (HistoryBase(l, rows) + k)] = m[base + (HistoryBase(l, rows) + k)]
      <4>1. k # n % Capacity(l, rows)
        BY <3>2
      <4> HIDE DEF k
      <4> QED
        BY <2>5, <4>1
    <3> QED
      BY <3>4, <3>5
  <2> QED
    BY <2>6, <2>7
<1>8. FlagsHold(C, base, s, n + 1)
  BY <1>5, <1>6 DEF FlagsHold
<1>9. RingHolds(C, base, s, n + 1)
  BY <1>7 DEF RingHolds
<1> QED
  BY <1>3, <1>4, <1>8, <1>9 DEF Holds

LEMMA CalledAlive ==
  ASSUME NEW s, NEW f, NEW n \in Nat, f \in Calls[s[n + 1]]
  PROVE  Alive(s, f, n + 1) # 0
<1>1. /\ Alive(s, f, n) # 0 => Alive(s, f, n + 1) = Alive(s, f, n)
      /\ Alive(s, f, n) = 0 /\ f \in Calls[s[n + 1]] => Alive(s, f, n + 1) = n + 1
  BY AliveIs
<1>2. n + 1 # 0
  OBVIOUS
<1> QED
  BY <1>1, <1>2

(* What a row reads is what its locals held that many rows ago. *)
LEMMA ReadMeans ==
  ASSUME NEW m, NEW base, NEW s, NEW n, Runs(s, n), Worked(m, base, s, n), RingHolds(m, base, s, n),
         NEW l \in Locals, FrameOf[l] \in Calls[s[n + 1]], NEW back \in 0..Depth[l]
  PROVE  HistRead(m, base, l, n, back) = IF back > n THEN 0 ELSE RowValue(s, l, n - back)
<1> DEFINE f == FrameOf[l]
           c == Capacity(l, Len(s))
<1>1. n \in Nat /\ Len(s) \in Nat /\ n < Len(s) /\ f \in Frames /\ Depth[l] \in Nat /\ back \in Nat
  BY LenProperties, LocalsAre DEF Runs
<1>2. Alive(s, f, n + 1) # 0 /\ Alive(s, f, n) \in Nat
  BY <1>1, AliveIs, CalledAlive
<1>3. m[At(base, "scratch", l)] = RowValue(s, l, n) /\ m[At(base, "committed", f)] = Alive(s, f, n)
  BY <1>1, <1>2 DEF Worked
<1>4. CASE back = 0
  BY <1>1, <1>3, <1>4 DEF HistRead
<1>5. CASE back > 0 /\ (back > n \/ Alive(s, f, n) = 0 \/ ~(n + 1 >= Alive(s, f, n) + back))
  <2>1. HistRead(m, base, l, n, back) = 0
    <3>1. m[At(base, "committed", f)] = 0 \/ ~Available(m, base, l, n, back)
      BY <1>1, <1>2, <1>3, <1>5 DEF Available
    <3> HIDE DEF f
    <3>2. back # 0
      BY <1>5
    <3> QED
      BY <3>1, <3>2 DEF HistRead, f
  <2>2. ASSUME ~(back > n) PROVE RowValue(s, l, n - back) = 0
    <3> DEFINE r == n - back
    <3>1. r \in Nat /\ r < n /\ (Alive(s, f, n) = 0 \/ r + 1 < Alive(s, f, n))
      BY <1>1, <1>2, <1>5, <2>2
    <3> HIDE DEF r
    <3>2. RowValue(s, l, r) = 0
      BY <1>1, <3>1, NothingYet
    <3> QED
      BY <3>2 DEF r
  <2> QED
    BY <2>1, <2>2
<1>6. CASE back > 0 /\ ~(back > n) /\ Alive(s, f, n) # 0 /\ n + 1 >= Alive(s, f, n) + back
  <2>1. Retains(l) /\ back <= c
    BY <1>1, <1>6, CapacityIs
  <2>2. c \in Nat /\ c > 0
    BY <1>1, <1>6, <2>1, CapacityIs
  <2>3. m[At(base, "historyCapacity", l)] = c
    BY <2>1 DEF Worked, Described
  <2> DEFINE r == n - back
  <2>4. r \in Nat /\ r < n /\ n <= r + c /\ Alive(s, f, n) # 0 /\ Alive(s, f, n) <= r + 1
    BY <1>1, <1>2, <1>6, <2>1, <2>2
  <2>5. HistRead(m, base, l, n, back) = m[RingWord(m, base, l, n - back)]
    <3>1. Available(m, base, l, n, back)
      BY <1>3, <1>6 DEF Available
    <3>2. back # 0
      BY <1>6
    <3> QED
      BY <1>3, <1>6, <2>1, <2>3, <3>1, <3>2 DEF HistRead
  <2> HIDE DEF r
  <2>6. RingWord(m, base, l, r) = base + (HistoryBase(l, Len(s)) + (r % Capacity(l, Len(s))))
    BY <2>1, <2>2, <2>4, RingIs DEF Worked
  <2>7. m[base + (HistoryBase(l, Len(s)) + (r % Capacity(l, Len(s))))] = RowValue(s, l, r)
    BY <2>4 DEF RingHolds
  <2>8. m[RingWord(m, base, l, r)] = RowValue(s, l, r)
    BY <2>6, <2>7
  <2> QED
    BY <1>6, <2>5, <2>8 DEF r
<1>7. back = 0 \/ back > 0
  BY <1>1
<1> QED
  BY <1>4, <1>5, <1>6, <1>7

LEMMA RowMeans ==
  ASSUME NEW m, NEW base, NEW s, NEW n, Runs(s, n), Worked(m, base, s, n), RingHolds(m, base, s, n)
  PROVE  RowResult(m, base, n, s[n + 1]) = Meaning(s, n)
<1> DEFINE value == s[n + 1]
           read(r) == HistRead(m, base, r[1], n, r[2])
           meant(r) == IF r[2] > n THEN 0 ELSE RowValue(s, r[1], n - r[2])
<1>1. \A r \in Reads(value) : read(r) = meant(r)
  <2> SUFFICES ASSUME NEW r \in Reads(value) PROVE read(r) = meant(r)
    OBVIOUS
  <2>1. PICK l \in {x \in Locals : FrameOf[x] \in Calls[value]} : r \in {<<l, back>> : back \in 0..Depth[l]}
    BY DEF Reads
  <2>2. PICK back \in 0..Depth[l] : r = <<l, back>>
    BY <2>1
  <2>3. HistRead(m, base, l, n, back) = IF back > n THEN 0 ELSE RowValue(s, l, n - back)
    BY <2>1, <2>2, ReadMeans
  <2>4. r[1] = l /\ r[2] = back
    BY <2>2
  <2> QED
    BY <2>3, <2>4
<1>2. RowResult(m, base, n, value) = [r \in Reads(value) |-> read(r)]
  BY DEF RowResult
<1>3. Meaning(s, n) = [r \in Reads(value) |-> meant(r)]
  BY DEF Meaning
<1> HIDE DEF read, meant
<1> QED
  BY <1>1, <1>2, <1>3

(* A row of the kernel: the memory goes on to hold one row more, the words *)
(* of other executions and the header stay, and the row's result and the   *)
(* values its calls append are what the program means.                     *)
THEOREM KernelRow ==
  ASSUME NEW m, NEW base, NEW s, NEW n, Runs(s, n), Holds(m, base, s, n),
         NEW R, R = Reset(m, base, n), NEW B, B = Body(R, base, n, s[n + 1]),
         NEW C, C = Commit(B, base, n)
  PROVE  /\ DOMAIN C = DOMAIN m /\ Holds(C, base, s, n + 1)
         /\ C[base + WordOffset[<<"initialized">>]] = m[base + WordOffset[<<"initialized">>]]
         /\ C[base + WordOffset[<<"nextRow">>]] = m[base + WordOffset[<<"nextRow">>]]
         /\ \A w \in DOMAIN m : w \in Int /\ (w < base \/ base + StateWords(Len(s)) <= w) => C[w] = m[w]
         /\ RowResult(B, base, n, s[n + 1]) = Meaning(s, n)
         /\ \A l \in Locals : FrameOf[l] \in Calls[s[n + 1]] => B[At(base, "scratch", l)] = RowValue(s, l, n)
<1>1. n \in Nat /\ Len(s) \in Nat /\ s[n + 1] \in DOMAIN Calls
  BY LenProperties, SeriesIs DEF Runs
<1>2. Ready(R, base, s, n)
  BY ResetReady
<1>3. Worked(B, base, s, n)
  BY <1>2, BodyWorks
<1>4. Region(m, base, Len(s)) /\ Region(R, base, Len(s)) /\ Region(B, base, Len(s)) /\ Described(B, base, Len(s))
  BY <1>2, <1>3 DEF Holds, Ready, Worked
<1>5. /\ DOMAIN R = DOMAIN m
      /\ R[base + WordOffset[<<"initialized">>]] = m[base + WordOffset[<<"initialized">>]]
      /\ R[base + WordOffset[<<"nextRow">>]] = m[base + WordOffset[<<"nextRow">>]]
      /\ \A w \in Beyond(m, base) : R[w] = m[w]
  BY <1>4, ResetIs
<1>6. /\ DOMAIN B = DOMAIN R
      /\ B[base + WordOffset[<<"initialized">>]] = R[base + WordOffset[<<"initialized">>]]
      /\ B[base + WordOffset[<<"nextRow">>]] = R[base + WordOffset[<<"nextRow">>]]
      /\ \A w \in Beyond(R, base) : B[w] = R[w]
  BY <1>1, <1>4, BodyIs
<1>7. Beyond(R, base) = Beyond(m, base)
  BY <1>5 DEF Beyond
<1>8. \A w \in Beyond(m, base) : B[w] = m[w]
  BY <1>5, <1>6, <1>7
<1>9. RingHolds(B, base, s, n)
  BY <1>1, <1>8, RingHoldsAgain DEF Holds
<1>10. Holds(C, base, s, n + 1)
  BY <1>3, <1>9, CommitHolds
<1>11. /\ DOMAIN C = DOMAIN B
       /\ C[base + WordOffset[<<"initialized">>]] = B[base + WordOffset[<<"initialized">>]]
       /\ C[base + WordOffset[<<"nextRow">>]] = B[base + WordOffset[<<"nextRow">>]]
       /\ \A w \in DOMAIN B :
            w \in Int /\ (w < base \/ base + StateWords(Len(s)) <= w) => C[w] = B[w]
  BY <1>1, <1>4, CommitIs
<1>12. ASSUME NEW w \in DOMAIN m, w \in Int, w < base \/ base + StateWords(Len(s)) <= w
       PROVE  C[w] = m[w]
  <2>1. w < base \/ base + Len(Fixed) <= w
    <3>1. Len(Fixed) \in Nat /\ StateWords(Len(s)) \in Nat /\ Len(Fixed) <= StateWords(Len(s)) /\ base \in Nat
      BY <1>1, <1>4, FixedIs, HistoryIs DEF Region
    <3> QED
      BY <1>12, <3>1
  <2>2. w \in Beyond(m, base)
    BY <1>12, <2>1 DEF Beyond
  <2> QED
    BY <1>5, <1>6, <1>8, <1>11, <1>12, <2>2
<1>13. RowResult(B, base, n, s[n + 1]) = Meaning(s, n)
  BY <1>3, <1>9, RowMeans
<1>14. ASSUME NEW l \in Locals, FrameOf[l] \in Calls[s[n + 1]]
       PROVE  B[At(base, "scratch", l)] = RowValue(s, l, n)
  <2>1. Alive(s, FrameOf[l], n + 1) # 0
    BY <1>1, <1>14, CalledAlive
  <2> QED
    BY <1>3, <2>1 DEF Worked
<1> QED
  BY <1>5, <1>6, <1>10, <1>11, <1>12, <1>13, <1>14

(* Memories that differ in the header only hold the same. *)
LEMMA HoldsSame ==
  ASSUME NEW m, NEW x, NEW base, NEW s, NEW n \in Nat, Len(s) \in Nat, Holds(m, base, s, n),
         Region(x, base, Len(s)),
         \A w \in base..(base + StateWords(Len(s)) - 1) :
           \/ x[w] = m[w]
           \/ w \in {base + WordOffset[<<"initialized">>], base + WordOffset[<<"nextRow">>]}
  PROVE  Holds(x, base, s, n)
<1> DEFINE rows == Len(s)
           last == base + StateWords(rows) - 1
<1>1. Region(m, base, rows) /\ base \in Nat /\ Len(Fixed) \in Nat /\ StateWords(rows) \in Nat /\ Len(Fixed) <= StateWords(rows)
  BY FixedIs, HistoryIs DEF Holds, Region
<1>2. \A y : Laid(y) /\ y # <<"initialized">> /\ y # <<"nextRow">> => x[base + WordOffset[y]] = m[base + WordOffset[y]]
  <2> SUFFICES ASSUME NEW y, Laid(y), y # <<"initialized">>, y # <<"nextRow">>
               PROVE  x[base + WordOffset[y]] = m[base + WordOffset[y]]
    OBVIOUS
  <2>1. base + WordOffset[y] \in base..(base + Len(Fixed) - 1)
    BY <1>1, WordInside
  <2>2. base + WordOffset[y] \in base..last
    BY <1>1, <2>1
  <2>3. ASSUME NEW z, Laid(z), base + WordOffset[z] = base + WordOffset[y] PROVE z = y
    <3>1. WordOffset[z] \in Int /\ WordOffset[y] \in Int
      BY <1>1, <2>3 DEF Laid
    <3>2. WordOffset[z] = WordOffset[y]
      BY <1>1, <2>3, <3>1
    <3> QED
      BY <2>3, <3>2 DEF Laid
  <2>4. /\ base + WordOffset[y] # base + WordOffset[<<"initialized">>]
        /\ base + WordOffset[y] # base + WordOffset[<<"nextRow">>]
    BY <2>3, WordsLaid
  <2> QED
    BY <2>2, <2>4
<1>3. \A k, y : Laid(<<k, y>>) => x[At(base, k, y)] = m[At(base, k, y)]
  BY <1>2 DEF At
<1>4. Described(x, base, rows)
  <2> SUFFICES ASSUME NEW l \in Locals, Retains(l)
               PROVE  /\ x[At(base, "historyBase", l)] = HistoryBase(l, rows)
                      /\ x[At(base, "historyCapacity", l)] = Capacity(l, rows)
    BY DEF Described
  <2>1. Laid(<<"historyBase", l>>) /\ Laid(<<"historyCapacity", l>>)
    BY WordsLaid
  <2> QED
    BY <1>3, <2>1 DEF Holds, Described
<1>5. FlagsHold(x, base, s, n)
  <2>1. ASSUME NEW f \in Frames PROVE x[At(base, "committed", f)] = Alive(s, f, n)
    <3>1. Laid(<<"committed", f>>)
      BY WordsLaid
    <3> QED
      BY <1>3, <3>1 DEF Holds, FlagsHold
  <2>2. ASSUME NEW l \in Locals, Persistent(l)
        PROVE  /\ x[At(base, "committedInit", l)] = Begun(s, l, n)
               /\ x[At(base, "tentativeInit", l)] = Begun(s, l, n)
    <3>1. Laid(<<"committedInit", l>>) /\ Laid(<<"tentativeInit", l>>)
      BY <2>2, WordsLaid
    <3> QED
      BY <1>3, <2>2, <3>1 DEF Holds, FlagsHold
  <2> QED
    BY <2>1, <2>2 DEF FlagsHold
<1>6. ASSUME NEW w \in (base + Len(Fixed))..last PROVE x[w] = m[w]
  <2>1. w \in base..last
    BY <1>1
  <2>2. ASSUME NEW z, Laid(z), w = base + WordOffset[z] PROVE FALSE
    <3>1. base + WordOffset[z] \in base..(base + Len(Fixed) - 1)
      BY <1>1, <2>2, WordInside
    <3> QED
      BY <1>1, <2>2, <3>1
  <2>3. w # base + WordOffset[<<"initialized">>] /\ w # base + WordOffset[<<"nextRow">>]
    BY <2>2, WordsLaid
  <2> QED
    BY <2>1, <2>3
<1>7. RingHolds(x, base, s, n)
  <2> SUFFICES ASSUME NEW l \in Locals, NEW r \in Nat, r < n, n <= r + Capacity(l, Len(s)),
                      Alive(s, FrameOf[l], n) # 0, Alive(s, FrameOf[l], n) <= r + 1
               PROVE  x[base + (HistoryBase(l, Len(s)) + (r % Capacity(l, Len(s))))] = RowValue(s, l, r)
    BY DEF RingHolds
  <2>1. m[base + (HistoryBase(l, Len(s)) + (r % Capacity(l, Len(s))))] = RowValue(s, l, r)
    BY DEF RingHolds, Holds
  <2>2. Capacity(l, Len(s)) \in Nat
    BY CapacityIs
  <2>3. Capacity(l, Len(s)) > 0
    BY <2>2
  <2>4. Retains(l)
    BY <2>3, CapacityIs
  <2>5. /\ RingWord(m, base, l, r) = base + (HistoryBase(l, Len(s)) + (r % Capacity(l, Len(s))))
        /\ RingWord(m, base, l, r) \in (base + Len(Fixed))..(base + StateWords(Len(s)) - 1)
    BY <1>1, <2>3, <2>4, RingIs DEF Holds
  <2> QED
    BY <1>6, <2>1, <2>5
<1> QED
  BY <1>4, <1>5, <1>7 DEF Holds

LEMMA OffsetsApart ==
  ASSUME NEW x, NEW y, Laid(x), Laid(y), WordOffset[x] = WordOffset[y]
  PROVE  x = y
BY DEF Laid

(* The words of a state nothing has run on. *)
LEMMA InitialIs ==
  ASSUME NEW rows \in Nat
  PROVE  /\ \A x : Laid(x) /\ (\A l : x # <<"historyBase", l>> /\ x # <<"historyCapacity", l>>) =>
              InitialState(rows)[WordOffset[x]] = 0
         /\ \A l \in Locals : Retains(l) =>
              /\ InitialState(rows)[WordOffset[<<"historyBase", l>>]] = HistoryBase(l, rows)
              /\ InitialState(rows)[WordOffset[<<"historyCapacity", l>>]] = Capacity(l, rows)
<1> DEFINE based(w) == \E l \in Retained : w = WordOffset[<<"historyBase", l>>]
           capped(w) == \E l \in Retained : w = WordOffset[<<"historyCapacity", l>>]
           baseOf(w) == CHOOSE l \in Retained : w = WordOffset[<<"historyBase", l>>]
           capOf(w) == CHOOSE l \in Retained : w = WordOffset[<<"historyCapacity", l>>]
<1>1. Len(Fixed) \in Nat /\ StateWords(rows) \in Nat /\ Len(Fixed) <= StateWords(rows)
  BY FixedIs, HistoryIs
<1>2. \A w \in 0..StateWords(rows) - 1 :
        InitialState(rows)[w] = IF based(w) THEN HistoryBase(baseOf(w), rows)
                                ELSE IF capped(w) THEN Capacity(capOf(w), rows) ELSE 0
  BY DEF InitialState
<1>3. \A x : Laid(x) => WordOffset[x] \in 0..StateWords(rows) - 1
  <2> SUFFICES ASSUME NEW x, Laid(x) PROVE WordOffset[x] \in 0..StateWords(rows) - 1
    OBVIOUS
  <2>1. WordOffset[x] \in 0..Len(Fixed) - 1
    BY DEF Laid
  <2> QED
    BY <1>1, <2>1
<1>4. \A l \in Retained : l \in Locals /\ Retains(l) /\ Laid(<<"historyBase", l>>) /\ Laid(<<"historyCapacity", l>>)
  BY WordsLaid DEF Retained
<1>5. ASSUME NEW x, Laid(x), \A l : x # <<"historyBase", l>> /\ x # <<"historyCapacity", l>>
      PROVE  InitialState(rows)[WordOffset[x]] = 0
  <2>1. ~based(WordOffset[x]) /\ ~capped(WordOffset[x])
    BY <1>4, <1>5, OffsetsApart
  <2> HIDE DEF based, capped
  <2> QED
    BY <1>2, <1>3, <1>5, <2>1
<1>6. ASSUME NEW l \in Locals, Retains(l)
      PROVE  /\ InitialState(rows)[WordOffset[<<"historyBase", l>>]] = HistoryBase(l, rows)
             /\ InitialState(rows)[WordOffset[<<"historyCapacity", l>>]] = Capacity(l, rows)
  <2>1. l \in Retained /\ Laid(<<"historyBase", l>>) /\ Laid(<<"historyCapacity", l>>)
    BY <1>6, WordsLaid DEF Retained
  <2>2. InitialState(rows)[WordOffset[<<"historyBase", l>>]] = HistoryBase(l, rows)
    <3> DEFINE w == WordOffset[<<"historyBase", l>>]
    <3>1. based(w)
      BY <2>1
    <3>2. baseOf(w) \in Retained /\ WordOffset[<<"historyBase", l>>] = WordOffset[<<"historyBase", baseOf(w)>>]
      BY <2>1
    <3> HIDE DEF baseOf
    <3>3. <<"historyBase", l>> = <<"historyBase", baseOf(w)>>
      BY <1>4, <2>1, <3>2, OffsetsApart
    <3>4. baseOf(w) = l
      BY <3>3
    <3>5. w \in 0..StateWords(rows) - 1
      BY <1>3, <2>1
    <3> HIDE DEF w, based, capped
    <3>6. InitialState(rows)[w] = HistoryBase(baseOf(w), rows)
      BY <1>2, <3>1, <3>5
    <3>7. InitialState(rows)[w] = HistoryBase(l, rows)
      BY <3>4, <3>6
    <3> QED
      BY <3>7 DEF w
  <2>3. InitialState(rows)[WordOffset[<<"historyCapacity", l>>]] = Capacity(l, rows)
    <3> DEFINE w == WordOffset[<<"historyCapacity", l>>]
    <3>1. capped(w)
      BY <2>1
    <3>2. capOf(w) \in Retained /\ WordOffset[<<"historyCapacity", l>>] = WordOffset[<<"historyCapacity", capOf(w)>>]
      BY <2>1
    <3> HIDE DEF capOf
    <3>3. <<"historyCapacity", l>> = <<"historyCapacity", capOf(w)>>
      BY <1>4, <2>1, <3>2, OffsetsApart
    <3>4. capOf(w) = l
      BY <3>3
    <3>5. w \in 0..StateWords(rows) - 1
      BY <1>3, <2>1
    <3>6. ~based(w)
      <4> SUFFICES ASSUME NEW h \in Retained, w = WordOffset[<<"historyBase", h>>] PROVE FALSE
        OBVIOUS
      <4>1. <<"historyBase", h>> = <<"historyCapacity", l>>
        BY <1>4, <2>1, OffsetsApart
      <4> QED
        BY <4>1
    <3> HIDE DEF w, based, capped
    <3>7. InitialState(rows)[w] = Capacity(capOf(w), rows)
      BY <1>2, <3>1, <3>5, <3>6
    <3>8. InitialState(rows)[w] = Capacity(l, rows)
      BY <3>4, <3>7
    <3> QED
      BY <3>8 DEF w
  <2> QED
    BY <2>2, <2>3
<1> QED
  BY <1>5, <1>6

(* Memory on which nothing has run, and after the first dispatch marked it. *)
Fresh(m, base, rows) ==
  /\ Region(m, base, rows)
  /\ \A w \in 0..StateWords(rows) - 1 : m[base + w] = InitialState(rows)[w]

Marked(x, m, base) ==
  /\ DOMAIN x = DOMAIN m
  /\ x[base + WordOffset[<<"initialized">>]] = 1
  /\ x[base + WordOffset[<<"nextRow">>]] = 0
  /\ x[At(base, "committed", Root)] = 1 /\ x[At(base, "tentative", Root)] = 1
  /\ \A w \in DOMAIN m :
       \/ w \in {base + WordOffset[<<"initialized">>], base + WordOffset[<<"nextRow">>],
                 At(base, "committed", Root), At(base, "tentative", Root)}
       \/ x[w] = m[w]

LEMMA FreshHolds ==
  ASSUME NEW m, NEW x, NEW base, NEW s, Len(s) \in Nat, Fresh(m, base, Len(s)), Marked(x, m, base)
  PROVE  Holds(x, base, s, 0)
<1> DEFINE rows == Len(s)
<1>1. base \in Nat /\ Len(Fixed) \in Nat /\ StateWords(rows) \in Nat /\ Len(Fixed) <= StateWords(rows) /\ Region(m, base, rows)
  BY FixedIs, HistoryIs DEF Fresh, Region
<1>2. Region(x, base, rows)
  BY <1>1, HoldsAgain DEF Marked
<1>3. ASSUME NEW y, Laid(y), y # <<"initialized">>, y # <<"nextRow">>,
             y # <<"committed", Root>>, y # <<"tentative", Root>>
      PROVE  x[base + WordOffset[y]] = InitialState(rows)[WordOffset[y]]
  <2>1. base + WordOffset[y] \in DOMAIN m
    BY <1>1, <1>3, WordInside
  <2>2. WordOffset[y] \in 0..StateWords(rows) - 1 /\ WordOffset[y] \in Int
    <3>1. WordOffset[y] \in 0..Len(Fixed) - 1
      BY <1>3 DEF Laid
    <3> QED
      BY <1>1, <3>1
  <2>3. ASSUME NEW z, Laid(z), base + WordOffset[y] = base + WordOffset[z] PROVE y = z
    <3>1. WordOffset[z] \in Int
      BY <1>1, <2>3 DEF Laid
    <3>2. WordOffset[y] = WordOffset[z]
      BY <1>1, <2>2, <2>3, <3>1
    <3> QED
      BY <1>3, <2>3, <3>2, OffsetsApart
  <2>4. /\ base + WordOffset[y] # base + WordOffset[<<"initialized">>]
        /\ base + WordOffset[y] # base + WordOffset[<<"nextRow">>]
        /\ base + WordOffset[y] # At(base, "committed", Root)
        /\ base + WordOffset[y] # At(base, "tentative", Root)
    BY <1>3, <2>3, WordsLaid, FramesAre DEF At
  <2>5. x[base + WordOffset[y]] = m[base + WordOffset[y]]
    BY <2>1, <2>4 DEF Marked
  <2>6. m[base + WordOffset[y]] = InitialState(rows)[WordOffset[y]]
    BY <2>2 DEF Fresh
  <2> QED
    BY <2>5, <2>6
<1>4. Described(x, base, rows)
  <2> SUFFICES ASSUME NEW l \in Locals, Retains(l)
               PROVE  /\ x[At(base, "historyBase", l)] = HistoryBase(l, rows)
                      /\ x[At(base, "historyCapacity", l)] = Capacity(l, rows)
    BY DEF Described
  <2>1. Laid(<<"historyBase", l>>) /\ Laid(<<"historyCapacity", l>>)
    BY WordsLaid
  <2>2. /\ x[At(base, "historyBase", l)] = InitialState(rows)[WordOffset[<<"historyBase", l>>]]
        /\ x[At(base, "historyCapacity", l)] = InitialState(rows)[WordOffset[<<"historyCapacity", l>>]]
    BY <1>3, <2>1 DEF At
  <2> QED
    BY <2>2, InitialIs
<1>5. FlagsHold(x, base, s, 0)
  <2>1. ASSUME NEW f \in Frames PROVE x[At(base, "committed", f)] = Alive(s, f, 0)
    <3>1. CASE f = Root
      BY <3>1 DEF Marked, Alive
    <3>2. CASE f # Root
      <4>1. Laid(<<"committed", f>>)
        BY WordsLaid
      <4>2. x[At(base, "committed", f)] = InitialState(rows)[WordOffset[<<"committed", f>>]]
        BY <1>3, <3>2, <4>1 DEF At
      <4>3. InitialState(rows)[WordOffset[<<"committed", f>>]] = 0
        BY <4>1, InitialIs
      <4>4. Past(s, f, 0) = {}
        BY DEF Past
      <4> QED
        BY <3>2, <4>2, <4>3, <4>4 DEF Alive
    <3> QED
      BY <3>1, <3>2
  <2>2. ASSUME NEW l \in Locals, Persistent(l)
        PROVE  /\ x[At(base, "committedInit", l)] = Begun(s, l, 0)
               /\ x[At(base, "tentativeInit", l)] = Begun(s, l, 0)
    <3>1. Laid(<<"committedInit", l>>) /\ Laid(<<"tentativeInit", l>>)
      BY <2>2, WordsLaid
    <3>2. /\ x[At(base, "committedInit", l)] = InitialState(rows)[WordOffset[<<"committedInit", l>>]]
          /\ x[At(base, "tentativeInit", l)] = InitialState(rows)[WordOffset[<<"tentativeInit", l>>]]
      BY <1>3, <3>1 DEF At
    <3>3. /\ InitialState(rows)[WordOffset[<<"committedInit", l>>]] = 0
          /\ InitialState(rows)[WordOffset[<<"tentativeInit", l>>]] = 0
      BY <3>1, InitialIs
    <3>4. Past(s, FrameOf[l], 0) = {}
      BY DEF Past
    <3> QED
      BY <3>2, <3>3, <3>4 DEF Begun
  <2> QED
    BY <2>1, <2>2 DEF FlagsHold
<1>6. RingHolds(x, base, s, 0)
  BY DEF RingHolds
<1> QED
  BY <1>2, <1>4, <1>5, <1>6 DEF Holds

-----------------------------------------------------------------------------
(***************************************************************************)
(* The packed states: each binding's words follow those of the one before. *)
(***************************************************************************)

Blocks == [i \in Bindings |-> [w \in 1..StateWords(Rows(i)) |-> InitialState(Rows(i))[w - 1]]]

LEMMA BlocksAre ==
  ASSUME \A e \in Bindings : Rows(e) \in Nat
  PROVE  /\ PackedStates = FlattenSeq(Blocks)
         /\ \E S : Blocks \in [1..Executions -> Seq(S)]
         /\ \A e \in Bindings : Len(Blocks[e]) = StateWords(Rows(e)) /\ StateWords(Rows(e)) \in Nat
         /\ \A e \in Bindings : \A w \in 0..StateWords(Rows(e)) - 1 :
              Blocks[e][w + 1] = InitialState(Rows(e))[w]
<1> DEFINE S == UNION {{InitialState(Rows(i))[w - 1] : w \in 1..StateWords(Rows(i))} : i \in Bindings}
<1>1. PackedStates = FlattenSeq(Blocks)
  BY DEF PackedStates, Blocks
<1>2. ASSUME NEW e \in Bindings
      PROVE  /\ StateWords(Rows(e)) \in Nat /\ Blocks[e] \in Seq(S) /\ Len(Blocks[e]) = StateWords(Rows(e))
             /\ \A w \in 0..StateWords(Rows(e)) - 1 : Blocks[e][w + 1] = InitialState(Rows(e))[w]
  <2> DEFINE n == StateWords(Rows(e))
             T == {InitialState(Rows(e))[w - 1] : w \in 1..n}
             block == [w \in 1..n |-> InitialState(Rows(e))[w - 1]]
  <2>1. n \in Nat
    BY HistoryIs
  <2>2. Blocks[e] = block
    BY DEF Blocks
  <2> HIDE DEF n
  <2>3. block \in [1..n -> T]
    OBVIOUS
  <2>4. T \subseteq S
    BY DEF n
  <2>5. block \in [1..n -> S]
    <3> HIDE DEF S
    <3> QED
      BY <2>3, <2>4
  <2>6. block \in Seq(S) /\ Len(block) = n
    <3> HIDE DEF S, block
    <3> QED
      BY <2>1, <2>5, SeqDef, LenProperties
  <2>7. \A w \in 0..n - 1 : block[w + 1] = InitialState(Rows(e))[w]
    <3> SUFFICES ASSUME NEW w \in 0..n - 1 PROVE block[w + 1] = InitialState(Rows(e))[w]
      OBVIOUS
    <3>1. w + 1 \in 1..n /\ (w + 1) - 1 = w
      BY <2>1
    <3> QED
      BY <3>1
  <2> QED
    BY <2>1, <2>2, <2>6, <2>7 DEF n
<1>3. Blocks \in [1..Executions -> Seq(S)]
  <2> HIDE DEF S
  <2>1. Blocks = [i \in Bindings |-> Blocks[i]]
    BY DEF Blocks
  <2> QED
    BY <1>2, <2>1 DEF Bindings
<1> QED
  BY <1>1, <1>2, <1>3

OffsetsOk(o) ==
  /\ o \in [1..Executions + 1 -> Nat] /\ o[1] = 0
  /\ \A e \in Bindings : o[e + 1] = o[e] + StateWords(Rows(e))

LEMMA OffsetsAre ==
  ASSUME \A e \in Bindings : Rows(e) \in Nat
  PROVE  /\ OffsetsOk(StateOffset)
         /\ Len(PackedStates) \in Nat
         /\ \A e \in Bindings : \A w \in 0..StateWords(Rows(e)) - 1 :
              /\ StateOffset[e] + w \in 0..Len(PackedStates) - 1
              /\ PackedStates[(StateOffset[e] + w) + 1] = InitialState(Rows(e))[w]
<1> DEFINE D == 1..Executions + 1
           G(f) == [e \in D |-> IF e = 1 THEN 0 ELSE f[e - 1] + StateWords(Rows(e - 1))]
<1>1. Executions \in Nat
  BY ExecutionsNat
<1>2. PICK S : Blocks \in [1..Executions -> Seq(S)]
  BY BlocksAre
<1>3. PICK at : Placed(FlattenSeq(Blocks), at, Blocks, Executions)
  BY <1>1, <1>2, FlattenPlaced
<1>4. FlattenSeq(Blocks) \in Seq(S)
  BY <1>1, <1>2, FlattenPlaced
<1>5. \A e \in Bindings : Len(Blocks[e]) = StateWords(Rows(e)) /\ StateWords(Rows(e)) \in Nat
  BY BlocksAre
<1>6. /\ at \in [0..Executions -> Nat] /\ at[0] = 0
      /\ \A i \in 1..Executions : at[i] = at[i - 1] + Len(Blocks[i])
  BY <1>3 DEF Placed
<1> DEFINE g == [e \in D |-> at[e - 1]]
<1>7. g = G(g)
  <2>1. ASSUME NEW e \in D PROVE g[e] = IF e = 1 THEN 0 ELSE g[e - 1] + StateWords(Rows(e - 1))
    <3>1. CASE e = 1
      BY <1>1, <1>6, <3>1
    <3>2. CASE e # 1
      <4>1. e - 1 \in 1..Executions /\ e - 1 \in D /\ e \in Int
        BY <1>1, <3>2
      <4>2. at[e - 1] = at[(e - 1) - 1] + Len(Blocks[e - 1])
        BY <1>6, <4>1
      <4>3. Len(Blocks[e - 1]) = StateWords(Rows(e - 1))
        BY <1>5, <4>1 DEF Bindings
      <4>4. g[e] = at[e - 1] /\ g[e - 1] = at[(e - 1) - 1]
        BY <4>1
      <4> QED
        BY <3>2, <4>2, <4>3, <4>4
    <3> QED
      BY <3>1, <3>2
  <2>2. g = [e \in D |-> g[e]]
    OBVIOUS
  <2> HIDE DEF g
  <2> QED
    BY <2>1, <2>2
<1>8. StateOffset = CHOOSE f : f = G(f)
  BY DEF StateOffset
<1> HIDE DEF g
<1>9. StateOffset = G(StateOffset)
  <2>1. \E f : f = G(f)
    BY <1>7
  <2> HIDE DEF G
  <2> QED
    BY <1>8, <2>1
<1>10. DOMAIN StateOffset = D /\ \A e \in D : StateOffset[e] = IF e = 1 THEN 0 ELSE StateOffset[e - 1] + StateWords(Rows(e - 1))
  BY <1>9
<1>11. \A e \in D : StateOffset[e] = at[e - 1]
  <2> DEFINE T == {n \in Nat : n + 1 \in D => StateOffset[n + 1] = at[n]}
  <2>1. 0 \in T
    BY <1>1, <1>6, <1>10
  <2>2. ASSUME NEW n \in Nat, n \in T PROVE n + 1 \in T
    <3>1. SUFFICES ASSUME (n + 1) + 1 \in D PROVE StateOffset[(n + 1) + 1] = at[n + 1]
      OBVIOUS
    <3>2. n + 1 \in D /\ n + 1 \in 1..Executions /\ (n + 1) + 1 # 1 /\ ((n + 1) + 1) - 1 = n + 1 /\ (n + 1) - 1 = n
      BY <1>1, <3>1
    <3>3. StateOffset[n + 1] = at[n]
      BY <2>2, <3>2
    <3>4. StateOffset[(n + 1) + 1] = StateOffset[n + 1] + StateWords(Rows(n + 1))
      BY <1>10, <3>1, <3>2
    <3>5. at[n + 1] = at[n] + StateWords(Rows(n + 1))
      BY <1>5, <1>6, <3>2 DEF Bindings
    <3> QED
      BY <3>3, <3>4, <3>5
  <2>3. Nat \subseteq T
    <3> HIDE DEF T
    <3> QED
      BY <2>1, <2>2, Induction
  <2> SUFFICES ASSUME NEW e \in D PROVE StateOffset[e] = at[e - 1]
    OBVIOUS
  <2>4. e - 1 \in Nat /\ (e - 1) + 1 = e
    BY <1>1
  <2>5. e - 1 \in T
    <3> HIDE DEF T
    <3> QED
      BY <2>3, <2>4
  <2> QED
    BY <2>4, <2>5
<1>12. OffsetsOk(StateOffset)
  <2>1. \A e \in D : StateOffset[e] \in Nat
    <3> SUFFICES ASSUME NEW e \in D PROVE StateOffset[e] \in Nat
      OBVIOUS
    <3>1. e - 1 \in 0..Executions
      BY <1>1
    <3> QED
      BY <1>6, <1>11, <3>1
  <2>2. StateOffset \in [D -> Nat]
    <3>1. StateOffset = [e \in D |-> StateOffset[e]]
      BY <1>9, <1>10
    <3> QED
      BY <2>1, <3>1
  <2>3. StateOffset[1] = 0
    BY <1>1, <1>10
  <2>4. ASSUME NEW e \in Bindings PROVE StateOffset[e + 1] = StateOffset[e] + StateWords(Rows(e))
    <3>1. e + 1 \in D /\ e + 1 # 1 /\ (e + 1) - 1 = e
      BY <1>1 DEF Bindings
    <3> QED
      BY <1>10, <3>1
  <2> QED
    BY <2>2, <2>3, <2>4 DEF OffsetsOk
<1>13. Len(PackedStates) \in Nat /\ PackedStates = FlattenSeq(Blocks)
  BY <1>4, BlocksAre, LenProperties
<1>14. ASSUME NEW e \in Bindings, NEW w \in 0..StateWords(Rows(e)) - 1
       PROVE  /\ StateOffset[e] + w \in 0..Len(PackedStates) - 1
              /\ PackedStates[(StateOffset[e] + w) + 1] = InitialState(Rows(e))[w]
  <2> DEFINE j == w + 1
  <2>1. e \in 1..Executions /\ e \in D /\ e - 1 \in 0..Executions /\ j \in 1..Len(Blocks[e])
    BY <1>1, <1>5 DEF Bindings
  <2>2. at[e - 1] + j \in 1..Len(FlattenSeq(Blocks)) /\ FlattenSeq(Blocks)[at[e - 1] + j] = Blocks[e][j]
    <3> HIDE DEF j
    <3> QED
      BY <1>3, <2>1 DEF Placed
  <2>3. Blocks[e][j] = InitialState(Rows(e))[w]
    BY BlocksAre
  <2>4. StateOffset[e] = at[e - 1] /\ at[e - 1] \in Nat
    BY <1>6, <1>11, <2>1
  <2>5. at[e - 1] + j = (StateOffset[e] + w) + 1
    BY <1>5, <2>4
  <2>6. StateOffset[e] + w \in 0..Len(PackedStates) - 1
    BY <1>5, <1>13, <2>2, <2>4, <2>5
  <2> QED
    BY <1>13, <2>2, <2>3, <2>5, <2>6
<1> QED
  BY <1>12, <1>13, <1>14

(* The words of two bindings lie apart. *)
LEMMA StatesApart ==
  ASSUME NEW o, OffsetsOk(o), \A e \in Bindings : StateWords(Rows(e)) \in Nat,
         NEW e \in Bindings, NEW b \in Bindings, e < b
  PROVE  o[e] + StateWords(Rows(e)) <= o[b]
<1> DEFINE T == {n \in Nat : e + (n + 1) \in Bindings => o[e] + StateWords(Rows(e)) <= o[e + (n + 1)]}
<1>1. Executions \in Nat /\ e \in Nat /\ e \in Bindings /\ e \in 1..Executions + 1
  BY ExecutionsNat DEF Bindings
<1>2. 0 \in T
  <2> SUFFICES ASSUME e + 1 \in Bindings PROVE o[e] + StateWords(Rows(e)) <= o[e + 1]
    OBVIOUS
  <2>1. o[e] \in Nat /\ o[e + 1] = o[e] + StateWords(Rows(e)) /\ StateWords(Rows(e)) \in Nat
    BY <1>1 DEF OffsetsOk
  <2> QED
    BY <2>1
<1>3. ASSUME NEW n \in Nat, n \in T PROVE n + 1 \in T
  <2> SUFFICES ASSUME e + ((n + 1) + 1) \in Bindings
               PROVE  o[e] + StateWords(Rows(e)) <= o[e + ((n + 1) + 1)]
    OBVIOUS
  <2> DEFINE x == e + (n + 1)
  <2>1. x \in Bindings /\ x \in 1..Executions + 1 /\ e + ((n + 1) + 1) = x + 1 /\ x + 1 \in 1..Executions + 1
    BY <1>1 DEF Bindings
  <2>2. o[e] + StateWords(Rows(e)) <= o[x]
    BY <1>3, <2>1
  <2> HIDE DEF x
  <2>3. o[x + 1] = o[x] + StateWords(Rows(x)) /\ StateWords(Rows(x)) \in Nat
    BY <2>1 DEF OffsetsOk
  <2>4. o[e] \in Nat /\ o[x] \in Nat /\ o[x + 1] \in Nat /\ StateWords(Rows(e)) \in Nat
    BY <1>1, <2>1 DEF OffsetsOk
  <2>5. o[e] + StateWords(Rows(e)) <= o[x + 1]
    BY <2>2, <2>3, <2>4
  <2> QED
    BY <2>1, <2>5
<1>4. Nat \subseteq T
  <2> HIDE DEF T
  <2> QED
    BY <1>2, <1>3, Induction
<1>5. b - e - 1 \in Nat /\ e + ((b - e - 1) + 1) = b
  BY <1>1 DEF Bindings
<1>6. b - e - 1 \in T
  <2> HIDE DEF T
  <2> QED
    BY <1>4, <1>5
<1> QED
  BY <1>5, <1>6

(* The workgroup cache holds fixed words only, no word of a history. *)
Names == {x \in Range(Fixed) : Laid(x)}
Parts == [words : Seq(Names), accesses : Int]

LEMMA SegmentsAre == Segments \in Seq(Parts)
<1> DEFINE head == [words |-> Header, accesses |-> 2]
           own(f) == [words |-> <<<<"committed", f>>, <<"tentative", f>>>>, accesses |-> 4]
           part(l) == [words |-> LocalWords(l), accesses |-> LocalAccesses(l)]
           parts(f) == [j \in DOMAIN LocalsOf[f] |-> part(LocalsOf[f][j])]
           seqs == [i \in DOMAIN FrameOrder |-> <<own(FrameOrder[i])>> \o parts(FrameOrder[i])]
<1>1. \A x : Laid(x) => x \in Names
  BY DEF Names, Laid
<1>2. \A x \in Names : <<x>> \in Seq(Names)
  OBVIOUS
<1>3. \A x, y \in Names : <<x, y>> \in Seq(Names)
  OBVIOUS
<1>4. head \in Parts
  <2>1. Header \in Seq(Names)
    BY <1>1, <1>3, WordsLaid DEF Header
  <2> QED
    BY <2>1 DEF Parts
<1>5. ASSUME NEW f \in Frames PROVE own(f) \in Parts
  <2>1. <<<<"committed", f>>, <<"tentative", f>>>> \in Seq(Names)
    BY <1>1, <1>3, WordsLaid
  <2> QED
    BY <2>1 DEF Parts
<1>6. ASSUME NEW l \in Locals PROVE part(l) \in Parts
  <2> DEFINE a == <<<<"scratch", l>>>>
             b == IF Persistent(l) THEN <<<<"committedInit", l>>, <<"tentativeInit", l>>>> ELSE <<>>
             c == IF Retains(l) THEN <<<<"historyBase", l>>, <<"historyCapacity", l>>>> ELSE <<>>
  <2>1. a \in Seq(Names)
    BY <1>1, <1>2, WordsLaid
  <2>2. b \in Seq(Names)
    <3>1. CASE Persistent(l)
      BY <1>1, <1>3, <3>1, WordsLaid
    <3>2. CASE ~Persistent(l)
      BY <3>2
    <3> QED
      BY <3>1, <3>2
  <2>3. c \in Seq(Names)
    <3>1. CASE Retains(l)
      BY <1>1, <1>3, <3>1, WordsLaid
    <3>2. CASE ~Retains(l)
      BY <3>2
    <3> QED
      BY <3>1, <3>2
  <2>4. LocalWords(l) = a \o b \o c
    BY DEF LocalWords
  <2> HIDE DEF a, b, c
  <2>5. a \o b \in Seq(Names)
    BY <2>1, <2>2, Behind
  <2>6. a \o b \o c \in Seq(Names)
    BY <2>3, <2>5, Behind
  <2>7. LocalAccesses(l) \in Int
    BY DEF LocalAccesses
  <2> QED
    BY <2>4, <2>6, <2>7 DEF Parts
<1> HIDE DEF own, part, head
<1>7. ASSUME NEW f \in Frames PROVE <<own(f)>> \o parts(f) \in Seq(Parts)
  <2>1. <<own(f)>> \in Seq(Parts)
    BY <1>5
  <2>2. LocalsOf[f] \in Seq(Locals)
    BY LocalsAre
  <2>3. parts(f) \in Seq(Parts)
    <3>1. DOMAIN LocalsOf[f] = 1..Len(LocalsOf[f]) /\ Len(LocalsOf[f]) \in Nat
      BY <2>2, LenProperties
    <3>2. \A j \in 1..Len(LocalsOf[f]) : LocalsOf[f][j] \in Locals
      BY <2>2, ElementOfSeq
    <3>3. parts(f) \in [1..Len(LocalsOf[f]) -> Parts]
      BY <1>6, <3>1, <3>2
    <3> HIDE DEF parts
    <3> QED
      BY <3>1, <3>3, SeqDef
  <2> HIDE DEF parts
  <2> QED
    BY <2>1, <2>3, Behind
<1>8. seqs \in [1..Len(FrameOrder) -> Seq(Parts)]
  <2> HIDE DEF parts
  <2> QED
    BY <1>7, FramesAre
<1>9. FlattenSeq(seqs) \in Seq(Parts)
  <2> HIDE DEF seqs
  <2> QED
    BY <1>8, FramesAre, FlattenPlaced
<1>10. Segments = <<head>> \o FlattenSeq(seqs)
  BY DEF Segments, head, own, part
<1>11. <<head>> \in Seq(Parts)
  BY <1>4
<1> HIDE DEF seqs
<1> QED
  BY <1>9, <1>10, <1>11, Behind

LEMMA CacheIs ==
  ASSUME NEW room
  PROVE  CachedWords(room) \subseteq 0..Len(Fixed) - 1
<1> SUFFICES ASSUME NEW i \in DOMAIN Segments, NEW w \in Range(Segments[i].words)
             PROVE  WordOffset[w] \in 0..Len(Fixed) - 1
  BY DEF CachedWords
<1>1. Segments[i] \in Parts
  <2>1. i \in 1..Len(Segments)
    BY SegmentsAre, LenProperties
  <2> QED
    BY <2>1, SegmentsAre, ElementOfSeq
<1>2. Segments[i].words \in Seq(Names)
  BY <1>1 DEF Parts
<1>3. w \in Names
  <2>1. PICK j \in DOMAIN Segments[i].words : w = Segments[i].words[j]
    BY DEF Range
  <2>2. j \in 1..Len(Segments[i].words)
    BY <1>2, <2>1, LenProperties
  <2> QED
    BY <1>2, <2>1, <2>2, ElementOfSeq
<1> QED
  BY <1>3 DEF Names, Laid

-----------------------------------------------------------------------------
(***************************************************************************)
(* Where a binding's cells lie.                                            *)
(***************************************************************************)

LEMMA Pairs ==
  ASSUME NEW c \in Nat, NEW p \in Nat, NEW i \in 0..c - 1
  PROVE  /\ p * c + i \in Nat
         /\ \A n \in Nat : p < n => p * c + i < n * c
         /\ \A q \in Nat : \A j \in 0..c - 1 : p * c + i = q * c + j => p = q /\ i = j
<1>1. ASSUME NEW m \in Nat, NEW n \in Nat, m < n PROVE m * c + c <= n * c /\ m * c \in Nat
  <2>1. c * (m + 1) <= c * n
    BY <1>1, TimesMonotone
  <2>2. c * (m + 1) = m * c + c /\ c * n = n * c
    OBVIOUS
  <2> QED
    BY <2>1, <2>2
<1>2. p * c \in Nat /\ p * c + i \in Nat
  OBVIOUS
<1>3. ASSUME NEW n \in Nat, p < n PROVE p * c + i < n * c
  <2>1. p * c + c <= n * c /\ n * c \in Nat
    BY <1>1, <1>3
  <2> QED
    BY <1>2, <2>1
<1>4. ASSUME NEW q \in Nat, NEW j \in 0..c - 1, p * c + i = q * c + j PROVE p = q /\ i = j
  <2>1. q * c \in Nat
    OBVIOUS
  <2>2. CASE p < q
    <3>1. p * c + c <= q * c
      BY <1>1, <2>2
    <3> QED
      BY <1>2, <1>4, <2>1, <3>1
  <2>3. CASE q < p
    <3>1. q * c + c <= p * c
      BY <1>1, <2>3
    <3> QED
      BY <1>2, <1>4, <2>1, <3>1
  <2>4. CASE p = q
    BY <1>2, <1>4, <2>1, <2>4
  <2> QED
    BY <2>2, <2>3, <2>4
<1> QED
  BY <1>2, <1>3, <1>4

(* The result of a binding's row of the chunk. *)
Cell(e, j) == (e - 1) * ResultCapacity(chunkRows) + j * Channels

LEMMA CellsAre ==
  ASSUME Channels # 0, chunkRows \in Nat, chunkRows > 0
  PROVE  /\ ResultCapacity(chunkRows) \in Nat /\ ResultCapacity(chunkRows) # Channels
         /\ ResultCapacity(chunkRows) \div Channels >= chunkRows
         /\ \A e \in Bindings : \A j \in 0..chunkRows - 1 :
              Cell(e, j) \in 0..(Executions * ResultCapacity(chunkRows) - 1)
         /\ \A e, b \in Bindings : \A i, j \in 0..chunkRows - 1 : Cell(e, i) = Cell(b, j) => e = b /\ i = j
<1> DEFINE c == Channels
           k == IF chunkRows < 2 THEN 2 ELSE chunkRows
           pair(e, j) == (e - 1) * k + j
<1>1. c \in Nat /\ c > 0 /\ Executions \in Nat
  BY PlannerAssumption DEF PlannerAssumption
<1>2. k \in Nat /\ k >= 2 /\ k >= chunkRows
  OBVIOUS
<1>3. ResultCapacity(chunkRows) = k * c
  BY DEF ResultCapacity
<1> HIDE DEF c, k
<1>4. k * c \in Nat /\ k * c # c
  <2>1. c * 2 <= c * k
    BY <1>1, <1>2, TimesMonotone
  <2>2. c * 2 = c + c /\ c * k = k * c /\ k * c \in Nat
    BY <1>1, <1>2
  <2> QED
    BY <1>1, <2>1, <2>2
<1>5. (k * c) \div c >= chunkRows
  <2> DEFINE q == (k * c) \div c
  <2>1. q \in Nat /\ k * c < (q + 1) * c
    BY <1>1, <1>4
  <2> HIDE DEF q
  <2>2. ASSUME q + 1 <= k PROVE FALSE
    <3>1. c * (q + 1) <= c * k
      BY <1>1, <1>2, <2>1, <2>2, TimesMonotone
    <3>2. c * (q + 1) = (q + 1) * c /\ c * k = k * c /\ (q + 1) * c \in Nat
      BY <1>1, <1>2, <2>1
    <3> QED
      BY <1>4, <2>1, <3>1, <3>2
  <2>3. q >= k
    BY <1>2, <2>1, <2>2
  <2>4. q >= chunkRows
    BY <1>2, <2>1, <2>3
  <2> QED
    BY <2>4 DEF q
<1>6. ASSUME NEW e \in Bindings, NEW j \in 0..chunkRows - 1
      PROVE  /\ e - 1 \in Nat /\ j \in 0..k - 1 /\ e - 1 < Executions
             /\ pair(e, j) \in Nat /\ pair(e, j) < Executions * k /\ Cell(e, j) = pair(e, j) * c
  <2>1. e - 1 \in Nat /\ j \in 0..k - 1 /\ e - 1 < Executions
    BY <1>1, <1>2 DEF Bindings
  <2>2. pair(e, j) \in Nat /\ pair(e, j) < Executions * k
    BY <1>1, <1>2, <2>1, Pairs
  <2>3. Cell(e, j) = (e - 1) * (k * c) + j * c
    BY <1>3 DEF Cell, c
  <2>4. (e - 1) * (k * c) + j * c = ((e - 1) * k + j) * c
    BY <1>1, <1>2, <2>1
  <2> QED
    BY <2>1, <2>2, <2>3, <2>4
<1>7. 0 \in 0..c - 1 /\ Executions * k \in Nat
  BY <1>1, <1>2
<1> HIDE DEF pair
<1>8. ASSUME NEW e \in Bindings, NEW j \in 0..chunkRows - 1
      PROVE  Cell(e, j) \in 0..(Executions * ResultCapacity(chunkRows) - 1)
  <2> DEFINE p == pair(e, j)
             n == Executions * k
  <2>1. p \in Nat /\ n \in Nat /\ p < n /\ Cell(e, j) = p * c
    BY <1>6, <1>7
  <2>2. Executions * (k * c) = n * c
    BY <1>1, <1>2
  <2> HIDE DEF p, n
  <2>3. p * c + 0 < n * c /\ p * c + 0 \in Nat /\ n * c \in Nat
    BY <1>1, <1>7, <2>1, Pairs
  <2>4. p * c \in Nat /\ p * c < n * c
    BY <1>1, <2>1, <2>3
  <2> QED
    BY <1>3, <2>1, <2>2, <2>3, <2>4
<1>9. ASSUME NEW e \in Bindings, NEW b \in Bindings, NEW i \in 0..chunkRows - 1, NEW j \in 0..chunkRows - 1,
             Cell(e, i) = Cell(b, j)
      PROVE  e = b /\ i = j
  <2> DEFINE p == pair(e, i)
             q == pair(b, j)
  <2>1. p \in Nat /\ q \in Nat /\ p * c = q * c
    BY <1>6, <1>9
  <2> HIDE DEF p, q
  <2>2. p * c + 0 = q * c + 0
    BY <2>1
  <2>3. p = q
    BY <1>1, <1>7, <2>1, <2>2, Pairs
  <2>4. (e - 1) * k + i = (b - 1) * k + j
    BY <2>3 DEF p, q, pair
  <2>5. e - 1 \in Nat /\ b - 1 \in Nat /\ i \in 0..k - 1 /\ j \in 0..k - 1
    BY <1>6
  <2>6. e - 1 = b - 1 /\ i = j
    <3> DEFINE x == e - 1
               y == b - 1
    <3>1. x \in Nat /\ y \in Nat /\ x * k + i = y * k + j
      BY <2>4, <2>5
    <3> HIDE DEF x, y
    <3>2. x = y /\ i = j
      BY <1>2, <2>5, <3>1, Pairs
    <3> QED
      BY <3>2 DEF x, y
  <2> QED
    BY <2>6 DEF Bindings
<1> QED
  BY <1>3, <1>4, <1>5, <1>8, <1>9 DEF c

-----------------------------------------------------------------------------
(***************************************************************************)
(* The device.  A binding's memory, as its invocation sees it, holds the   *)
(* rows done so far; its results and records are those of these rows.      *)
(***************************************************************************)

(* The packed resources: each binding has its words, cells and records.    *)
Packed ==
  /\ chunkRows > 0
  /\ jobs = [e \in Bindings |->
       [stateOffset |-> Base(e), rowCount |-> Rows(e),
        resultOffset |-> (e - 1) * ResultCapacity(chunkRows), resultCount |-> ResultCapacity(chunkRows),
        effectOffset |-> (e - 1) * EffectCapacity(chunkRows), effectCapacity |-> EffectCapacity(chunkRows),
        chunkRows |-> Smaller(chunkRows, Rows(e))]]
  /\ \A e \in Bindings : Region(states, Base(e), Rows(e))
  /\ \A e, b \in Bindings :
       \/ e = b
       \/ Base(e) + StateWords(Rows(e)) <= Base(b)
       \/ Base(b) + StateWords(Rows(b)) <= Base(e)
  /\ DOMAIN states \subseteq Int
  /\ DOMAIN cache = Bindings /\ cached \subseteq 0..Len(Fixed) - 1
  /\ DOMAIN results = 0..(Executions * ResultCapacity(chunkRows) - 1)
  /\ DOMAIN effectRecords = 0..(Executions * EffectCapacity(chunkRows) - 1)
  /\ effectStatus \in [Bindings -> [count : 0..EffectCapacity(chunkRows), overflow : BOOLEAN]]
  /\ invocation \in [Bindings -> [at : {"ready", "rows", "flush", "done"},
                                  start : Nat, row : Nat, count : Nat]]

(* The memory an invocation sees, the rows it has done and the row that is *)
(* written in the memory as the next.                                      *)
Seen(e) == IF invocation[e].at \in {"rows", "flush"} THEN Visible(e) ELSE states
Progress(e) ==
  IF invocation[e].at \in {"rows", "flush"} THEN cursors[e] + invocation[e].row
  ELSE IF invocation[e].at = "done" /\ Running THEN ChunkEnd(e) ELSE cursors[e]
NextRowOf(e) == IF invocation[e].at = "rows" THEN cursors[e] ELSE Progress(e)

Held(m, base, s, n, next) ==
  /\ Holds(m, base, s, n)
  /\ m[base + WordOffset[<<"initialized">>]] = 1
  /\ m[base + WordOffset[<<"nextRow">>]] = next

Invoked(e) ==
  /\ invocation[e].at \in {"rows", "flush"} =>
       /\ invocation[e].start = cursors[e] /\ invocation[e].count = ChunkSize(e)
       /\ invocation[e].row <= ChunkSize(e)
  /\ invocation[e].at = "flush" => invocation[e].row = ChunkSize(e)
  /\ invocation[e].at # "done" => host = "device"

MemoryIs(e) ==
  \/ Fresh(states, Base(e), Rows(e)) /\ Progress(e) = 0 /\ invocation[e].at \in {"ready", "done"}
  \/ Held(Seen(e), Base(e), series[e], Progress(e), NextRowOf(e))

ResultsAre(e) ==
  Running => \A j \in 0..ChunkSize(e) - 1 :
    results[Cell(e, j)] = IF cursors[e] + j < Progress(e) THEN RowMeaning(e, cursors[e] + j).out ELSE Absent

OfRow(e, row) ==
  [i \in 1..effectStatus[e].count |-> IF Records(e)[i].row = row THEN <<Records(e)[i].payload>> ELSE <<>>]

RecordsAre(e) ==
  Running /\ ~effectStatus[e].overflow =>
    /\ \A i \in 1..effectStatus[e].count : Records(e)[i].row \in cursors[e]..Progress(e) - 1
    /\ \A row \in cursors[e]..Progress(e) - 1 : FlattenSeq(OfRow(e, row)) = RowMeaning(e, row).effects

-----------------------------------------------------------------------------

LEMMA BindingIs ==
  ASSUME Typed, Packed, NEW e \in Bindings
  PROVE  /\ Base(e) \in Nat /\ Rows(e) \in Nat /\ Rows(e) = Len(series[e]) /\ series[e] \in Seq(DOMAIN Calls)
         /\ StateWords(Rows(e)) \in Nat /\ Len(Fixed) \in Nat /\ Len(Fixed) <= StateWords(Rows(e))
         /\ Region(states, Base(e), Rows(e))
         /\ chunkRows \in Nat /\ chunkRows > 0
         /\ jobs[e].rowCount = Rows(e) /\ jobs[e].chunkRows = Smaller(chunkRows, Rows(e))
         /\ jobs[e].resultCount = ResultCapacity(chunkRows)
         /\ jobs[e].resultOffset = (e - 1) * ResultCapacity(chunkRows)
         /\ jobs[e].effectOffset = (e - 1) * EffectCapacity(chunkRows)
         /\ jobs[e].effectCapacity = EffectCapacity(chunkRows)
<1>1. Region(states, Base(e), Rows(e)) /\ chunkRows > 0
  BY DEF Packed
<1>2. Rows(e) \in Nat /\ chunkRows \in Nat
  BY ChunkIs
<1>3. series[e] \in Seq(DOMAIN Calls)
  BY DEF Typed, SessionGiven
<1>4. StateWords(Rows(e)) \in Nat /\ Len(Fixed) \in Nat /\ Len(Fixed) <= StateWords(Rows(e))
  BY <1>2, HistoryIs, FixedIs
<1>5. jobs[e] = [stateOffset |-> Base(e), rowCount |-> Rows(e),
        resultOffset |-> (e - 1) * ResultCapacity(chunkRows), resultCount |-> ResultCapacity(chunkRows),
        effectOffset |-> (e - 1) * EffectCapacity(chunkRows), effectCapacity |-> EffectCapacity(chunkRows),
        chunkRows |-> Smaller(chunkRows, Rows(e))]
  BY DEF Packed
<1> QED
  BY <1>1, <1>2, <1>3, <1>4, <1>5 DEF Region, Rows

(* With an output, the range of results tells no final row apart, and only *)
(* a binding without rows goes unserved.                                   *)
LEMMA ServedIs ==
  ASSUME Channels # 0, Typed, Packed, NEW e \in Bindings
  PROVE  /\ ~FinalOnly(e) /\ \A row : Shown(e, row)
         /\ \A j : ResultSlot(e, j) = Cell(e, j)
         /\ Unserved(e) <=> Rows(e) = 0
<1>1. ResultCapacity(chunkRows) # Channels /\ ResultCapacity(chunkRows) \div Channels >= chunkRows
  BY BindingIs, CellsAre
<1>2. ~FinalOnly(e)
  BY <1>1, BindingIs DEF FinalOnly
<1>3. \A row : Shown(e, row)
  BY <1>2 DEF Shown
<1>4. \A j : ResultSlot(e, j) = Cell(e, j)
  BY <1>2, BindingIs DEF ResultSlot, Cell
<1>5. Unserved(e) <=> Rows(e) = 0
  <2>1. jobs[e].chunkRows = Smaller(chunkRows, Rows(e)) /\ chunkRows \in Nat /\ chunkRows > 0 /\ Rows(e) \in Nat
    BY BindingIs
  <2>2. Smaller(chunkRows, Rows(e)) \in Nat /\ Smaller(chunkRows, Rows(e)) <= chunkRows
        /\ (Smaller(chunkRows, Rows(e)) = 0 <=> Rows(e) = 0)
    BY <2>1 DEF Smaller
  <2>3. ~(jobs[e].resultCount \div Channels < jobs[e].chunkRows)
    <3> DEFINE q == ResultCapacity(chunkRows) \div Channels
    <3>1. q \in Int
      <4>1. ResultCapacity(chunkRows) \in Nat /\ Channels \in Nat /\ Channels > 0
        BY <2>1, CellsAre, PlannerAssumption DEF PlannerAssumption
      <4> QED
        BY <4>1
    <3>2. q >= chunkRows /\ jobs[e].resultCount \div Channels = q
      BY <1>1, BindingIs
    <3> HIDE DEF q
    <3> QED
      BY <2>1, <2>2, <3>1, <3>2
  <2> QED
    BY <2>1, <2>2, <2>3 DEF Unserved
<1> QED
  BY <1>2, <1>3, <1>4, <1>5

(* What an invocation sees is the states but for the words it caches.      *)
LEMMA VisibleIs ==
  ASSUME Typed, Packed, NEW e \in Bindings
  PROVE  /\ DOMAIN Visible(e) = DOMAIN states
         /\ \A w \in DOMAIN states : w \in Int
         /\ \A w \in DOMAIN states :
              w < Base(e) \/ Base(e) + StateWords(Rows(e)) <= w => Visible(e)[w] = states[w]
<1>1. Base(e) \in Nat /\ StateWords(Rows(e)) \in Nat /\ Len(Fixed) \in Nat /\ Len(Fixed) <= StateWords(Rows(e))
  BY BindingIs
<1>2. \A w \in DOMAIN states : w \in Int
  BY DEF Packed
<1>3. ASSUME NEW w \in DOMAIN states, w < Base(e) \/ Base(e) + StateWords(Rows(e)) <= w
      PROVE  Visible(e)[w] = states[w]
  <2>1. w - Base(e) \notin 0..Len(Fixed) - 1
    BY <1>1, <1>2, <1>3
  <2>2. w - Base(e) \notin cached
    BY <2>1 DEF Packed
  <2> QED
    BY <2>2 DEF Visible
<1> QED
  BY <1>2, <1>3 DEF Visible

LEMMA StoreIs ==
  ASSUME Typed, Packed, NEW e \in Bindings, NEW m, DOMAIN m = DOMAIN states, Store(e, m),
         UNCHANGED <<cached, jobs>>
  PROVE  /\ DOMAIN states' = DOMAIN states /\ DOMAIN cache' = Bindings
         /\ DOMAIN Visible(e)' = DOMAIN states /\ \A w \in DOMAIN states : Visible(e)'[w] = m[w]
         /\ \A b \in Bindings : b # e => cache'[b] = cache[b]
         /\ \A w \in DOMAIN states : w < Base(e) \/ Base(e) + StateWords(Rows(e)) <= w => states'[w] = m[w]
<1>1. Base(e) \in Nat /\ StateWords(Rows(e)) \in Nat /\ Len(Fixed) \in Nat /\ Len(Fixed) <= StateWords(Rows(e))
  BY BindingIs
<1>2. DOMAIN cache = Bindings /\ \A w \in DOMAIN states : w \in Int
  BY DEF Packed
<1>3. cache' = [cache EXCEPT ![e] = [o \in cached |-> m[Base(e) + o]]]
      /\ states' = [w \in DOMAIN states |-> IF w - Base(e) \in cached THEN states[w] ELSE m[w]]
  BY DEF Store
<1>4. cache'[e] = [o \in cached |-> m[Base(e) + o]] /\ DOMAIN states' = DOMAIN states
  BY <1>2, <1>3
<1>5. Base(e)' = Base(e) /\ cached' = cached
  BY DEF Base
<1>6. \A w \in DOMAIN states : (IF w - Base(e) \in cached THEN cache'[e][w - Base(e)] ELSE states'[w]) = m[w]
  <2> SUFFICES ASSUME NEW w \in DOMAIN states
               PROVE  (IF w - Base(e) \in cached THEN cache'[e][w - Base(e)] ELSE states'[w]) = m[w]
    OBVIOUS
  <2>1. Base(e) + (w - Base(e)) = w
    BY <1>1, <1>2
  <2> QED
    BY <1>3, <1>4, <2>1
<1>7. Visible(e)' = [w \in DOMAIN states |-> IF w - Base(e) \in cached THEN cache'[e][w - Base(e)] ELSE states'[w]]
  BY <1>4, <1>5 DEF Visible
<1>8. DOMAIN Visible(e)' = DOMAIN states /\ \A w \in DOMAIN states : Visible(e)'[w] = m[w]
  BY <1>6, <1>7
<1>9. ASSUME NEW w \in DOMAIN states, w < Base(e) \/ Base(e) + StateWords(Rows(e)) <= w
      PROVE  states'[w] = m[w]
  <2>1. w - Base(e) \notin 0..Len(Fixed) - 1
    BY <1>1, <1>2, <1>9
  <2>2. w - Base(e) \notin cached
    BY <2>1 DEF Packed
  <2> QED
    BY <1>3, <2>2
<1> QED
  BY <1>2, <1>3, <1>4, <1>8, <1>9

LEMMA FreshSame ==
  ASSUME NEW m, NEW x, NEW base, NEW rows, Fresh(m, base, rows), Region(x, base, rows),
         \A w \in base..(base + StateWords(rows) - 1) : x[w] = m[w]
  PROVE  Fresh(x, base, rows)
<1>1. base \in Nat /\ StateWords(rows) \in Nat
  BY HistoryIs DEF Region
<1>2. \A w \in 0..StateWords(rows) - 1 : base + w \in base..(base + StateWords(rows) - 1)
  BY <1>1
<1> QED
  BY <1>2 DEF Fresh

LEMMA HeldSame ==
  ASSUME NEW m, NEW x, NEW base, NEW s, NEW n \in Nat, NEW next, Len(s) \in Nat, Held(m, base, s, n, next),
         Region(x, base, Len(s)),
         \A w \in base..(base + StateWords(Len(s)) - 1) : x[w] = m[w]
  PROVE  Held(x, base, s, n, next)
<1>1. Holds(x, base, s, n)
  BY HoldsSame DEF Held
<1>2. base \in Nat /\ Len(Fixed) \in Nat /\ StateWords(Len(s)) \in Nat /\ Len(Fixed) <= StateWords(Len(s))
  BY HistoryIs, FixedIs DEF Region
<1>3. \A y : Laid(y) => x[base + WordOffset[y]] = m[base + WordOffset[y]]
  <2> SUFFICES ASSUME NEW y, Laid(y) PROVE x[base + WordOffset[y]] = m[base + WordOffset[y]]
    OBVIOUS
  <2>1. base + WordOffset[y] \in base..(base + Len(Fixed) - 1)
    BY WordInside
  <2>2. base + WordOffset[y] \in base..(base + StateWords(Len(s)) - 1)
    BY <1>2, <2>1
  <2> QED
    BY <2>2
<1> QED
  BY <1>1, <1>3, WordsLaid DEF Held

(* What a step of the device leaves alone. *)
Quiet == UNCHANGED <<cached, jobs, series, chunkRows, host, cursors>>

LEMMA QuietIs ==
  ASSUME Quiet, NEW e \in Bindings
  PROVE  /\ Base(e)' = Base(e) /\ Rows(e)' = Rows(e) /\ ChunkSize(e)' = ChunkSize(e) /\ ChunkEnd(e)' = ChunkEnd(e)
         /\ Running' = Running /\ series'[e] = series[e] /\ cursors'[e] = cursors[e]
         /\ \A j : Cell(e, j)' = Cell(e, j)
         /\ \A row : RowMeaning(e, row)' = RowMeaning(e, row)
         /\ jobs'[e] = jobs[e] /\ chunkRows' = chunkRows
<1>1. UNCHANGED <<cached, jobs, series, chunkRows, host, cursors>>
  BY DEF Quiet
<1>2. Base(e)' = Base(e) /\ Rows(e)' = Rows(e) /\ Running' = Running
  BY <1>1 DEF Base, Rows, Running
<1>3. ChunkSize(e)' = ChunkSize(e)
  BY <1>1, <1>2 DEF ChunkSize
<1>4. ChunkEnd(e)' = ChunkEnd(e)
  BY <1>1, <1>3 DEF ChunkEnd
<1>5. \A j : Cell(e, j)' = Cell(e, j)
  BY <1>1 DEF Cell
<1>6. \A row : RowMeaning(e, row)' = RowMeaning(e, row)
  BY <1>1 DEF RowMeaning
<1> QED
  BY <1>1, <1>2, <1>3, <1>4, <1>5, <1>6

LEMMA PackedKeeps ==
  ASSUME Packed, UNCHANGED <<cached, jobs, series, chunkRows>>, DOMAIN states' = DOMAIN states,
         DOMAIN cache' = Bindings, DOMAIN results' = DOMAIN results,
         DOMAIN effectRecords' = DOMAIN effectRecords,
         effectStatus' \in [Bindings -> [count : 0..EffectCapacity(chunkRows), overflow : BOOLEAN]],
         invocation' \in [Bindings -> [at : {"ready", "rows", "flush", "done"},
                                       start : Nat, row : Nat, count : Nat]]
  PROVE  Packed'
<1>1. \A e \in Bindings : Base(e)' = Base(e) /\ Rows(e)' = Rows(e)
  BY DEF Base, Rows
<1>2. \A e \in Bindings : Region(states, Base(e), Rows(e))'
  <2> SUFFICES ASSUME NEW e \in Bindings PROVE Region(states', Base(e)', Rows(e)')
    OBVIOUS
  <2>1. Region(states, Base(e), Rows(e))
    BY DEF Packed
  <2>2. Region(states', Base(e), Rows(e))
    BY <2>1, HoldsAgain
  <2> QED
    BY <1>1, <2>2
<1>3. /\ ResultCapacity(chunkRows)' = ResultCapacity(chunkRows)
      /\ EffectCapacity(chunkRows)' = EffectCapacity(chunkRows)
  BY DEF ResultCapacity, EffectCapacity
<1>4. jobs' = [e \in Bindings |->
       [stateOffset |-> Base(e)', rowCount |-> Rows(e)',
        resultOffset |-> (e - 1) * ResultCapacity(chunkRows)', resultCount |-> ResultCapacity(chunkRows)',
        effectOffset |-> (e - 1) * EffectCapacity(chunkRows)', effectCapacity |-> EffectCapacity(chunkRows)',
        chunkRows |-> Smaller(chunkRows', Rows(e)')]]
  BY <1>1, <1>3 DEF Packed
<1>5. \A e, b \in Bindings :
       \/ e = b
       \/ Base(e)' + StateWords(Rows(e)') <= Base(b)'
       \/ Base(b)' + StateWords(Rows(b)') <= Base(e)'
  BY <1>1 DEF Packed
<1> QED
  BY <1>2, <1>3, <1>4, <1>5 DEF Packed

(* A binding that runs nothing keeps what it holds. *)
LEMMA ElsewhereKeeps ==
  ASSUME Typed, Packed, Quiet, NEW e \in Bindings,
         invocation'[e] = invocation[e], cache'[e] = cache[e], DOMAIN states' = DOMAIN states,
         \A w \in Base(e)..(Base(e) + StateWords(Rows(e)) - 1) : states'[w] = states[w],
         Invoked(e), MemoryIs(e)
  PROVE  Invoked(e)' /\ MemoryIs(e)' /\ Progress(e)' = Progress(e)
<1>1. Progress(e)' = Progress(e) /\ NextRowOf(e)' = NextRowOf(e)
  <2>1. Progress(e)' = Progress(e)
    BY QuietIs DEF Progress
  <2> QED
    BY <2>1, QuietIs DEF NextRowOf
<1>2. Invoked(e)'
  BY QuietIs DEF Invoked, Quiet
<1>3. Progress(e) \in Nat
  <2>1. cursors[e] \in Nat /\ ChunkEnd(e) \in Nat
    BY ChunkIs
  <2>2. invocation[e].row \in Nat
    BY DEF Packed
  <2> QED
    BY <2>1, <2>2 DEF Progress
<1>4. Region(states, Base(e), Rows(e)) /\ Region(states', Base(e), Rows(e)) /\ DOMAIN Visible(e) = DOMAIN states
  BY BindingIs, VisibleIs, HoldsAgain
<1>5. Base(e)..(Base(e) + StateWords(Rows(e)) - 1) \subseteq DOMAIN states
  BY <1>4 DEF Region
<1>6. Region(Seen(e)', Base(e), Rows(e))
  <2>1. DOMAIN Seen(e)' = DOMAIN states
    BY DEF Seen, Visible
  <2> QED
    BY <1>4, <2>1, HoldsAgain
<1>7. \A w \in Base(e)..(Base(e) + StateWords(Rows(e)) - 1) : Seen(e)'[w] = Seen(e)[w]
  <2> SUFFICES ASSUME NEW w \in Base(e)..(Base(e) + StateWords(Rows(e)) - 1)
               PROVE  Seen(e)'[w] = Seen(e)[w]
    OBVIOUS
  <2>1. w \in DOMAIN states /\ states'[w] = states[w]
    BY <1>5
  <2>2. Visible(e)'[w] = Visible(e)[w]
    BY <2>1, QuietIs DEF Visible, Quiet
  <2> QED
    BY <2>1, <2>2 DEF Seen
<1>8. CASE Fresh(states, Base(e), Rows(e)) /\ Progress(e) = 0 /\ invocation[e].at \in {"ready", "done"}
  <2>1. Fresh(states', Base(e), Rows(e))
    BY <1>4, <1>8, FreshSame
  <2> QED
    BY <1>1, <1>2, <1>8, <2>1, QuietIs DEF MemoryIs
<1>9. CASE Held(Seen(e), Base(e), series[e], Progress(e), NextRowOf(e))
  <2>1. Held(Seen(e)', Base(e), series[e], Progress(e), NextRowOf(e))
    <3> DEFINE m == Seen(e)
               x == Seen(e)'
               s == series[e]
               n == Progress(e)
               next == NextRowOf(e)
               base == Base(e)
    <3>1. Len(s) = Rows(e) /\ Len(s) \in Nat /\ n \in Nat /\ Held(m, base, s, n, next)
      BY <1>3, <1>9, BindingIs
    <3>2. Region(x, base, Len(s)) /\ \A w \in base..(base + StateWords(Len(s)) - 1) : x[w] = m[w]
      BY <1>6, <1>7, <3>1
    <3> HIDE DEF m, x, s, n, next, base
    <3>3. Held(x, base, s, n, next)
      BY <3>1, <3>2, HeldSame
    <3> QED
      BY <3>3 DEF x, s, n, next, base
  <2> QED
    BY <1>1, <1>2, <2>1, QuietIs DEF MemoryIs
<1> QED
  BY <1>8, <1>9 DEF MemoryIs

LEMMA ResultsKeep ==
  ASSUME Quiet, NEW e \in Bindings, Progress(e)' = Progress(e), ResultsAre(e),
         \A j \in 0..ChunkSize(e) - 1 : results'[Cell(e, j)] = results[Cell(e, j)]
  PROVE  ResultsAre(e)'
<1>1. \A j : RowMeaning(e, cursors[e] + j)' = RowMeaning(e, cursors[e] + j)
  BY DEF RowMeaning, Quiet
<1> SUFFICES ASSUME Running', NEW j \in 0..ChunkSize(e)' - 1
             PROVE  (results[Cell(e, j)] =
                       IF cursors[e] + j < Progress(e) THEN RowMeaning(e, cursors[e] + j).out ELSE Absent)'
  BY DEF ResultsAre
<1>2. Running /\ j \in 0..ChunkSize(e) - 1
  BY QuietIs
<1>3. results[Cell(e, j)] = IF cursors[e] + j < Progress(e) THEN RowMeaning(e, cursors[e] + j).out ELSE Absent
  BY <1>2 DEF ResultsAre
<1>4. results'[Cell(e, j)] = results[Cell(e, j)]
  BY <1>2
<1> QED
  BY <1>1, <1>3, <1>4, QuietIs

LEMMA RecordsKeep ==
  ASSUME Quiet, NEW e \in Bindings, Progress(e)' = Progress(e), RecordsAre(e),
         effectStatus'[e] = effectStatus[e],
         \A i \in 1..effectStatus[e].count :
           effectRecords'[jobs[e].effectOffset + i - 1] = effectRecords[jobs[e].effectOffset + i - 1]
  PROVE  RecordsAre(e)'
<1>1. Records(e)' = Records(e)
  BY QuietIs DEF Records
<1>2. \A row : OfRow(e, row)' = OfRow(e, row)
  BY <1>1 DEF OfRow
<1>3. \A row : RowMeaning(e, row)' = RowMeaning(e, row)
  BY QuietIs
<1> SUFFICES ASSUME Running', ~effectStatus'[e].overflow
             PROVE  /\ \A i \in 1..effectStatus'[e].count : Records(e)'[i].row \in cursors'[e]..Progress(e)' - 1
                    /\ \A row \in cursors'[e]..Progress(e)' - 1 :
                         FlattenSeq(OfRow(e, row)') = RowMeaning(e, row)'.effects
  BY DEF RecordsAre
<1>4. Running /\ ~effectStatus[e].overflow
  BY QuietIs
<1> QED
  BY <1>1, <1>2, <1>3, <1>4, QuietIs DEF RecordsAre

On(e) == Invoked(e) /\ MemoryIs(e) /\ ResultsAre(e) /\ RecordsAre(e)
DeviceIs == Packed /\ \A e \in Bindings : On(e)

(* The words of other bindings. *)
Outside(b, x) == \A w \in DOMAIN states : w < Base(b) \/ Base(b) + StateWords(Rows(b)) <= w => x[w] = states[w]

LEMMA ElsewhereIs ==
  ASSUME Typed, Packed, NEW b \in Bindings, NEW e \in Bindings, e # b, NEW x, Outside(b, x)
  PROVE  \A w \in Base(e)..(Base(e) + StateWords(Rows(e)) - 1) : x[w] = states[w]
<1> SUFFICES ASSUME NEW w \in Base(e)..(Base(e) + StateWords(Rows(e)) - 1) PROVE x[w] = states[w]
  OBVIOUS
<1>1. /\ Base(b) \in Nat /\ StateWords(Rows(b)) \in Nat /\ Base(e) \in Nat /\ StateWords(Rows(e)) \in Nat
      /\ Region(states, Base(e), Rows(e))
  BY BindingIs
<1>2. Base(e) + StateWords(Rows(e)) <= Base(b) \/ Base(b) + StateWords(Rows(b)) <= Base(e)
  BY DEF Packed
<1>3. w \in DOMAIN states
  BY <1>1 DEF Region
<1>4. w < Base(b) \/ Base(b) + StateWords(Rows(b)) <= w
  BY <1>1, <1>2
<1> QED
  BY <1>3, <1>4 DEF Outside

LEMMA OthersKeep ==
  ASSUME Typed, DeviceIs, Quiet, NEW b \in Bindings, NEW e \in Bindings, e # b,
         invocation'[e] = invocation[e], cache'[e] = cache[e], effectStatus'[e] = effectStatus[e],
         DOMAIN states' = DOMAIN states, Outside(b, states'),
         \A j \in 0..ChunkSize(e) - 1 : results'[Cell(e, j)] = results[Cell(e, j)],
         \A i \in 1..effectStatus[e].count :
           effectRecords'[jobs[e].effectOffset + i - 1] = effectRecords[jobs[e].effectOffset + i - 1]
  PROVE  On(e)'
<1>1. Packed /\ Invoked(e) /\ MemoryIs(e) /\ ResultsAre(e) /\ RecordsAre(e)
  BY DEF DeviceIs, On
<1>2. \A w \in Base(e)..(Base(e) + StateWords(Rows(e)) - 1) : states'[w] = states[w]
  BY <1>1, ElsewhereIs
<1>3. Invoked(e)' /\ MemoryIs(e)' /\ Progress(e)' = Progress(e)
  BY <1>1, <1>2, ElsewhereKeeps
<1>4. ResultsAre(e)'
  BY <1>1, <1>3, ResultsKeep
<1>5. RecordsAre(e)'
  BY <1>1, <1>3, RecordsKeep
<1> QED
  BY <1>3, <1>4, <1>5 DEF On

LEMMA WordsApart ==
  ASSUME NEW base \in Nat, NEW x, NEW y, Laid(x), Laid(y), base + WordOffset[x] = base + WordOffset[y]
  PROVE  x = y
<1>1. Len(Fixed) \in Nat
  BY FixedIs
<1>2. \A z : Laid(z) => WordOffset[z] \in Int
  BY <1>1 DEF Laid
<1>3. WordOffset[x] = WordOffset[y]
  BY <1>2
<1> QED
  BY <1>3, OffsetsApart

LEMMA HeldIs ==
  ASSUME Typed, Packed, NEW e \in Bindings, MemoryIs(e), invocation[e].at \in {"rows", "flush"}
  PROVE  /\ Held(Visible(e), Base(e), series[e], Progress(e), NextRowOf(e))
         /\ Progress(e) = cursors[e] + invocation[e].row /\ invocation[e].row \in Nat /\ Progress(e) \in Nat
<1>1. Held(Seen(e), Base(e), series[e], Progress(e), NextRowOf(e))
  BY DEF MemoryIs
<1>2. Seen(e) = Visible(e) /\ Progress(e) = cursors[e] + invocation[e].row
  BY DEF Seen, Progress
<1>3. invocation[e].row \in Nat /\ cursors[e] \in Nat
  BY ChunkIs DEF Packed
<1> QED
  BY <1>1, <1>2, <1>3

LEMMA FlushKeeps ==
  ASSUME Typed, DeviceIs, NEW b \in Bindings, Flush(b)
  PROVE  DeviceIs'
<1>1. Packed /\ On(b) /\ Quiet
  BY DEF DeviceIs, Flush, Quiet, chunk, fixed, search
<1>2. /\ invocation[b].at = "flush" /\ states' = Visible(b)
      /\ cache' = [cache EXCEPT ![b] = [o \in {} |-> 0]]
      /\ invocation' = [invocation EXCEPT ![b].at = "done"]
      /\ UNCHANGED <<cached, jobs, results, effectRecords, effectStatus, series, chunkRows>>
  BY DEF Flush, fixed, search
<1>3. DOMAIN Visible(b) = DOMAIN states /\ Outside(b, Visible(b))
  BY <1>1, VisibleIs DEF Outside
<1>4. DOMAIN invocation = Bindings /\ DOMAIN cache = Bindings
  BY <1>1 DEF Packed
<1>5. /\ invocation'[b].at = "done" /\ invocation'[b].row = invocation[b].row
      /\ \A e \in Bindings : e # b => invocation'[e] = invocation[e] /\ cache'[e] = cache[e]
      /\ DOMAIN cache' = Bindings
  <2>1. invocation[b] \in [at : {"ready", "rows", "flush", "done"}, start : Nat, row : Nat, count : Nat]
    BY <1>1 DEF Packed
  <2> QED
    BY <1>2, <1>4, <2>1
<1>6. Packed'
  <2>1. invocation' \in [Bindings -> [at : {"ready", "rows", "flush", "done"}, start : Nat, row : Nat, count : Nat]]
    BY <1>1, <1>2 DEF Packed
  <2>2. effectStatus' \in [Bindings -> [count : 0..EffectCapacity(chunkRows), overflow : BOOLEAN]]
    BY <1>1, <1>2 DEF Packed
  <2> QED
    BY <1>1, <1>2, <1>3, <1>5, <2>1, <2>2, PackedKeeps
<1>7. ASSUME NEW e \in Bindings, e # b PROVE On(e)'
  BY <1>1, <1>2, <1>3, <1>5, <1>7, OthersKeep
<1>8. On(b)'
  <2>1. Running /\ invocation[b].row = ChunkSize(b)
    BY <1>1, <1>2 DEF On, Invoked, Running
  <2>2. Progress(b) = ChunkEnd(b) /\ Progress(b)' = Progress(b)
    BY <1>1, <1>2, <1>5, <2>1, QuietIs DEF Progress, ChunkEnd
  <2>3. NextRowOf(b) = Progress(b) /\ NextRowOf(b)' = Progress(b)
    BY <1>2, <1>5, <2>2 DEF NextRowOf
  <2>4. Held(Visible(b), Base(b), series[b], Progress(b), NextRowOf(b))
    BY <1>1, <1>2, HeldIs DEF On
  <2>5. Seen(b)' = Visible(b)
    BY <1>2, <1>5 DEF Seen
  <2>6. MemoryIs(b)'
    BY <1>1, <2>2, <2>3, <2>4, <2>5, QuietIs DEF MemoryIs
  <2>7. Invoked(b)'
    BY <1>5 DEF Invoked
  <2>8. ResultsAre(b)' /\ RecordsAre(b)'
    BY <1>1, <1>2, <2>2, ResultsKeep, RecordsKeep DEF On
  <2> QED
    BY <2>6, <2>7, <2>8 DEF On
<1> QED
  BY <1>6, <1>7, <1>8 DEF DeviceIs

LEMMA EndRowsKeeps ==
  ASSUME Typed, DeviceIs, NEW b \in Bindings, EndRows(b)
  PROVE  DeviceIs'
<1> DEFINE x == [Visible(b) EXCEPT ![NextRowWord(b)] = invocation[b].start + invocation[b].count]
<1>1. Packed /\ On(b) /\ Quiet
  BY DEF DeviceIs, EndRows, Quiet, chunk, fixed, search
<1>2. /\ invocation[b].at = "rows" /\ invocation[b].row = invocation[b].count
      /\ Store(b, x)
      /\ invocation' = [invocation EXCEPT ![b].at = "flush"]
      /\ UNCHANGED <<cached, jobs, results, effectRecords, effectStatus, series, chunkRows>>
  BY DEF EndRows, fixed, search
<1>3. DOMAIN Visible(b) = DOMAIN states /\ Outside(b, Visible(b)) /\ \A w \in DOMAIN states : w \in Int
  BY <1>1, VisibleIs DEF Outside
<1>4. DOMAIN invocation = Bindings /\ DOMAIN cache = Bindings
  BY <1>1 DEF Packed
<1>5. /\ invocation'[b].at = "flush" /\ invocation'[b].row = invocation[b].row
      /\ invocation'[b].start = invocation[b].start /\ invocation'[b].count = invocation[b].count
      /\ \A e \in Bindings : e # b => invocation'[e] = invocation[e]
  <2>1. invocation[b] \in [at : {"ready", "rows", "flush", "done"}, start : Nat, row : Nat, count : Nat]
    BY <1>1 DEF Packed
  <2> QED
    BY <1>2, <1>4, <2>1
<1>6. /\ Region(states, Base(b), Rows(b)) /\ Base(b) \in Nat /\ Len(Fixed) \in Nat
      /\ StateWords(Rows(b)) \in Nat /\ Len(Fixed) <= StateWords(Rows(b))
  BY <1>1, BindingIs
<1>7. /\ NextRowWord(b) = Base(b) + WordOffset[<<"nextRow">>]
      /\ NextRowWord(b) \in Base(b)..(Base(b) + Len(Fixed) - 1) /\ NextRowWord(b) \in DOMAIN states
  <2>1. /\ Base(b) + WordOffset[<<"nextRow">>] \in DOMAIN states
        /\ Base(b) + WordOffset[<<"nextRow">>] \in Base(b)..(Base(b) + Len(Fixed) - 1)
    BY <1>6, WordInside, WordsLaid
  <2> QED
    BY <2>1 DEF NextRowWord
<1>8. DOMAIN x = DOMAIN states
  BY <1>3
<1>9. Outside(b, x)
  BY <1>3, <1>6, <1>7 DEF Outside
<1>10. /\ x[NextRowWord(b)] = invocation[b].start + invocation[b].count
       /\ \A w \in DOMAIN states : w # NextRowWord(b) => x[w] = Visible(b)[w]
  BY <1>3, <1>7
<1> HIDE DEF x
<1>11. /\ DOMAIN states' = DOMAIN states /\ DOMAIN cache' = Bindings
       /\ DOMAIN Visible(b)' = DOMAIN states /\ \A w \in DOMAIN states : Visible(b)'[w] = x[w]
       /\ \A e \in Bindings : e # b => cache'[e] = cache[e]
       /\ \A w \in DOMAIN states : w < Base(b) \/ Base(b) + StateWords(Rows(b)) <= w => states'[w] = x[w]
  BY <1>1, <1>2, <1>8, StoreIs
<1>12. Outside(b, states')
  BY <1>9, <1>11 DEF Outside
<1>13. Packed'
  <2>1. invocation' \in [Bindings -> [at : {"ready", "rows", "flush", "done"}, start : Nat, row : Nat, count : Nat]]
    BY <1>1, <1>2 DEF Packed
  <2>2. effectStatus' \in [Bindings -> [count : 0..EffectCapacity(chunkRows), overflow : BOOLEAN]]
    BY <1>1, <1>2 DEF Packed
  <2> QED
    BY <1>1, <1>2, <1>11, <2>1, <2>2, PackedKeeps
<1>14. ASSUME NEW e \in Bindings, e # b PROVE On(e)'
  BY <1>1, <1>2, <1>5, <1>11, <1>12, <1>14, OthersKeep
<1>15. On(b)'
  <2>1. /\ host = "device" /\ invocation[b].start = cursors[b] /\ invocation[b].count = ChunkSize(b)
        /\ invocation[b].row = ChunkSize(b)
    BY <1>1, <1>2 DEF On, Invoked
  <2>2. Invoked(b)'
    <3>1. ChunkSize(b) \in Nat
      BY ChunkIs
    <3> QED
      BY <1>1, <1>5, <2>1, <3>1, QuietIs DEF Invoked, Quiet
  <2>3. Progress(b)' = Progress(b)
    BY <1>1, <1>2, <1>5, QuietIs DEF Progress
  <2>4. NextRowOf(b)' = Progress(b)
    BY <1>5, <2>3 DEF NextRowOf
  <2>5. /\ Held(Visible(b), Base(b), series[b], Progress(b), NextRowOf(b))
        /\ Progress(b) = cursors[b] + ChunkSize(b) /\ Progress(b) \in Nat
    BY <1>1, <1>2, <2>1, HeldIs DEF On
  <2> DEFINE m == Visible(b)
             y == Visible(b)'
             base == Base(b)
             s == series[b]
             n == Progress(b)
  <2>6. /\ Len(s) = Rows(b) /\ Len(s) \in Nat /\ n \in Nat /\ Holds(m, base, s, n)
        /\ m[base + WordOffset[<<"initialized">>]] = 1
    BY <1>1, <2>5, BindingIs DEF Held
  <2>7. Region(y, base, Len(s))
    BY <1>6, <1>11, <2>6, HoldsAgain
  <2>8. ASSUME NEW w \in base..(base + StateWords(Len(s)) - 1)
        PROVE  y[w] = m[w] \/ w \in {base + WordOffset[<<"initialized">>], base + WordOffset[<<"nextRow">>]}
    <3>1. w \in DOMAIN states
      BY <1>6, <2>6 DEF Region
    <3> QED
      BY <1>7, <1>10, <1>11, <3>1
  <2>9. y[base + WordOffset[<<"nextRow">>]] = n
    BY <1>7, <1>10, <1>11, <2>1, <2>5
  <2>10. y[base + WordOffset[<<"initialized">>]] = 1
    <3>1. base + WordOffset[<<"initialized">>] \in DOMAIN states
      BY <1>6, WordInside, WordsLaid
    <3>2. base + WordOffset[<<"initialized">>] # NextRowWord(b)
      <4>1. <<"initialized">> # <<"nextRow">>
        OBVIOUS
      <4> QED
        BY <1>6, <1>7, <4>1, WordsLaid, WordsApart
    <3> QED
      BY <1>10, <1>11, <2>6, <3>1, <3>2
  <2>11. Held(y, base, s, n, n)
    <3> HIDE DEF m, y, base, s, n
    <3>1. Holds(y, base, s, n)
      BY <2>6, <2>7, <2>8, HoldsSame
    <3> QED
      BY <2>9, <2>10, <3>1 DEF Held
  <2>12. Seen(b)' = Visible(b)'
    BY <1>5 DEF Seen
  <2>13. MemoryIs(b)'
    BY <1>1, <2>3, <2>4, <2>11, <2>12, QuietIs DEF MemoryIs
  <2>14. ResultsAre(b)' /\ RecordsAre(b)'
    BY <1>1, <1>2, <2>3, ResultsKeep, RecordsKeep DEF On
  <2> QED
    BY <2>2, <2>13, <2>14 DEF On
<1> QED
  BY <1>13, <1>14, <1>15 DEF DeviceIs

(* Before its first row, and after a chunk, a binding stands at its cursor. *)
LEMMA InitializedIs ==
  ASSUME Typed, Packed, NEW b \in Bindings, MemoryIs(b), invocation[b].at = "ready",
         NEW m, m = Initialized(states, b)
  PROVE  /\ DOMAIN m = DOMAIN states /\ Outside(b, m)
         /\ Held(m, Base(b), series[b], cursors[b], cursors[b])
         /\ m[NextRowWord(b)] = cursors[b]
<1> DEFINE base == Base(b)
           s == series[b]
           i == base + WordOffset[<<"initialized">>]
           r == base + WordOffset[<<"nextRow">>]
           c == At(base, "committed", Root)
           t == At(base, "tentative", Root)
<1>1. /\ Progress(b) = cursors[b] /\ NextRowOf(b) = cursors[b] /\ Seen(b) = states
      /\ NextRowWord(b) = r
  BY DEF Progress, NextRowOf, Seen, NextRowWord
<1>2. /\ Region(states, base, Rows(b)) /\ Len(s) = Rows(b) /\ Len(s) \in Nat /\ base \in Nat
      /\ Len(Fixed) \in Nat /\ StateWords(Rows(b)) \in Nat /\ Len(Fixed) <= StateWords(Rows(b))
  BY BindingIs
<1>3. \A w \in DOMAIN states : w \in Int
  BY DEF Packed
<1>4. m = IF states[i] # 0 THEN states
          ELSE [states EXCEPT ![i] = 1, ![r] = 0, ![c] = 1, ![t] = 1]
  BY <1>1 DEF Initialized
<1>5. CASE Held(states, base, s, cursors[b], cursors[b])
  <2>1. m = states
    BY <1>4, <1>5 DEF Held
  <2>2. states[r] = cursors[b]
    BY <1>5 DEF Held
  <2> HIDE DEF base, s, r
  <2> QED
    BY <1>1, <1>5, <2>1, <2>2 DEF Outside, base, s, r
<1>6. CASE Fresh(states, base, Rows(b)) /\ cursors[b] = 0
  <2>1. \A x : Laid(x) => base + WordOffset[x] \in DOMAIN states /\ base + WordOffset[x] \in base..(base + Len(Fixed) - 1)
    BY <1>2, WordInside
  <2>2. \A x, y : Laid(x) /\ Laid(y) /\ base + WordOffset[x] = base + WordOffset[y] => x = y
    BY <1>2, WordsApart
  <2>3. states[i] = 0
    <3>1. /\ WordOffset[<<"initialized">>] \in 0..StateWords(Rows(b)) - 1
          /\ InitialState(Rows(b))[WordOffset[<<"initialized">>]] = 0
      <4>1. Laid(<<"initialized">>) /\ \A l : <<"initialized">> # <<"historyBase", l>> /\ <<"initialized">> # <<"historyCapacity", l>>
        BY WordsLaid
      <4>2. \A x : Laid(x) => WordOffset[x] \in 0..Len(Fixed) - 1
        BY DEF Laid
      <4>3. WordOffset[<<"initialized">>] \in 0..Len(Fixed) - 1
        BY <4>1, <4>2
      <4>4. InitialState(Rows(b))[WordOffset[<<"initialized">>]] = 0
        BY <1>2, <4>1, InitialIs
      <4> QED
        BY <1>2, <4>3, <4>4
    <3> QED
      BY <1>6, <3>1 DEF Fresh
  <2>4. /\ Laid(<<"initialized">>) /\ Laid(<<"nextRow">>)
        /\ Laid(<<"committed", Root>>) /\ Laid(<<"tentative", Root>>)
    BY WordsLaid, FramesAre
  <2>5. i \in DOMAIN states /\ r \in DOMAIN states /\ c \in DOMAIN states /\ t \in DOMAIN states
    BY <2>1, <2>4 DEF At
  <2>6. i # r /\ i # c /\ i # t /\ r # c /\ r # t /\ c # t
    BY <2>2, <2>4 DEF At
  <2>7. \A w \in {i, r, c, t} : w \in base..(base + Len(Fixed) - 1)
    BY <2>1, <2>4 DEF At
  <2> HIDE DEF i, r, c, t
  <2>8. m = [states EXCEPT ![i] = 1, ![r] = 0, ![c] = 1, ![t] = 1]
    BY <1>4, <2>3
  <2>9. /\ DOMAIN m = DOMAIN states /\ m[i] = 1 /\ m[r] = 0 /\ m[c] = 1 /\ m[t] = 1
        /\ \A w \in DOMAIN states : w \in {i, r, c, t} \/ m[w] = states[w]
    BY <2>5, <2>6, <2>8
  <2>10. Marked(m, states, base)
    BY <2>9 DEF Marked, i, r, c, t
  <2>11. Holds(m, base, s, 0)
    <3> HIDE DEF base, s
    <3> QED
      BY <1>2, <1>6, <2>10, FreshHolds
  <2>12. Outside(b, m)
    BY <1>2, <1>3, <2>7, <2>9 DEF Outside
  <2>13. Held(m, base, s, 0, 0)
    BY <2>9, <2>11 DEF Held, i, r
  <2> QED
    BY <1>1, <1>6, <2>9, <2>12, <2>13
<1> QED
  BY <1>1, <1>5, <1>6 DEF MemoryIs

LEMMA StartUnserved ==
  ASSUME Channels # 0, Typed, DeviceIs, NEW b \in Bindings, Start(b), Unserved(b)
  PROVE  DeviceIs'
<1>1. Packed /\ On(b) /\ Quiet
  BY DEF DeviceIs, Start, Quiet, chunk, fixed, search
<1>2. /\ invocation[b].at = "ready"
      /\ invocation' = [invocation EXCEPT ![b].at = "done"]
      /\ UNCHANGED <<states, cache, effectStatus, cached, jobs, results, effectRecords, series, chunkRows>>
  BY DEF Start, fixed, search
<1>3. DOMAIN invocation = Bindings /\ DOMAIN cache = Bindings
  BY <1>1 DEF Packed
<1>4. /\ invocation'[b].at = "done"
      /\ \A e \in Bindings : e # b => invocation'[e] = invocation[e]
  <2>1. invocation[b] \in [at : {"ready", "rows", "flush", "done"}, start : Nat, row : Nat, count : Nat]
    BY <1>1 DEF Packed
  <2> QED
    BY <1>2, <1>3, <2>1
<1>5. Packed'
  <2>1. invocation' \in [Bindings -> [at : {"ready", "rows", "flush", "done"}, start : Nat, row : Nat, count : Nat]]
    BY <1>1, <1>2 DEF Packed
  <2>2. effectStatus' \in [Bindings -> [count : 0..EffectCapacity(chunkRows), overflow : BOOLEAN]]
    BY <1>1, <1>2 DEF Packed
  <2> QED
    BY <1>1, <1>2, <1>3, <2>1, <2>2, PackedKeeps
<1>6. Outside(b, states)
  BY DEF Outside
<1>7. ASSUME NEW e \in Bindings, e # b PROVE On(e)'
  BY <1>1, <1>2, <1>4, <1>6, <1>7, OthersKeep
<1>8. On(b)'
  <2>1. Rows(b) = 0 /\ Running
    BY <1>1, <1>2, ServedIs DEF On, Invoked, Running
  <2>2. cursors[b] = 0 /\ ChunkEnd(b) = 0
    BY <2>1, ChunkIs
  <2>3. Progress(b) = 0 /\ Progress(b)' = 0
    BY <1>1, <1>2, <1>4, <2>1, <2>2, QuietIs DEF Progress
  <2>4. NextRowOf(b) = 0 /\ NextRowOf(b)' = 0
    BY <1>2, <1>4, <2>3 DEF NextRowOf
  <2>5. Seen(b) = states /\ Seen(b)' = states
    BY <1>2, <1>4 DEF Seen
  <2>6. MemoryIs(b)'
    BY <1>1, <1>2, <1>4, <2>3, <2>4, <2>5, QuietIs DEF On, MemoryIs
  <2>7. Invoked(b)'
    BY <1>4 DEF Invoked
  <2>8. ResultsAre(b)' /\ RecordsAre(b)'
    BY <1>1, <1>2, <2>3, ResultsKeep, RecordsKeep DEF On
  <2> QED
    BY <2>6, <2>7, <2>8 DEF On
<1> QED
  BY <1>5, <1>7, <1>8 DEF DeviceIs

LEMMA StartServed ==
  ASSUME Channels # 0, Typed, DeviceIs, NEW b \in Bindings, Start(b), ~Unserved(b)
  PROVE  DeviceIs'
<1> DEFINE m == Initialized(states, b)
           run == [at |-> IF m[NextRowWord(b)] >= jobs[b].rowCount THEN "flush" ELSE "rows",
                   start |-> m[NextRowWord(b)], row |-> 0,
                   count |-> Smaller(jobs[b].chunkRows, jobs[b].rowCount - m[NextRowWord(b)])]
<1>1. Packed /\ On(b) /\ Quiet
  BY DEF DeviceIs, Start, Quiet, chunk, fixed, search
<1>2. /\ invocation[b].at = "ready"
      /\ effectStatus' = [effectStatus EXCEPT ![b] = [count |-> 0, overflow |-> FALSE]]
      /\ Store(b, m) /\ invocation' = [invocation EXCEPT ![b] = run]
      /\ UNCHANGED <<cached, jobs, results, effectRecords, series, chunkRows>>
  BY DEF Start, fixed, search
<1>3. DOMAIN invocation = Bindings /\ DOMAIN cache = Bindings /\ DOMAIN effectStatus = Bindings
  BY <1>1 DEF Packed
<1>4. /\ DOMAIN m = DOMAIN states /\ Outside(b, m)
      /\ Held(m, Base(b), series[b], cursors[b], cursors[b])
      /\ m[NextRowWord(b)] = cursors[b]
  BY <1>1, <1>2, InitializedIs DEF On
<1>5. /\ Rows(b) \in Nat /\ cursors[b] \in Nat /\ cursors[b] <= Rows(b) /\ chunkRows \in Nat
      /\ ChunkSize(b) \in Nat /\ jobs[b].rowCount = Rows(b) /\ jobs[b].chunkRows = Smaller(chunkRows, Rows(b))
  BY <1>1, BindingIs, ChunkIs DEF Typed, TypeOK
<1>6. run = [at |-> IF cursors[b] >= Rows(b) THEN "flush" ELSE "rows",
             start |-> cursors[b], row |-> 0, count |-> ChunkSize(b)]
  <2>1. Smaller(Smaller(chunkRows, Rows(b)), Rows(b) - cursors[b]) = Smaller(chunkRows, Rows(b) - cursors[b])
    BY <1>5 DEF Smaller
  <2> HIDE DEF m
  <2> QED
    BY <1>4, <1>5, <2>1 DEF ChunkSize
<1> HIDE DEF m, run
<1>7. run \in [at : {"ready", "rows", "flush", "done"}, start : Nat, row : Nat, count : Nat]
  BY <1>5, <1>6
<1>8. invocation'[b] = run /\ \A e \in Bindings : e # b => invocation'[e] = invocation[e] /\ effectStatus'[e] = effectStatus[e]
  BY <1>2, <1>3
<1>9. effectStatus'[b] = [count |-> 0, overflow |-> FALSE]
  BY <1>2, <1>3
<1>10. /\ DOMAIN states' = DOMAIN states /\ DOMAIN cache' = Bindings
       /\ DOMAIN Visible(b)' = DOMAIN states /\ \A w \in DOMAIN states : Visible(b)'[w] = m[w]
       /\ \A e \in Bindings : e # b => cache'[e] = cache[e]
       /\ \A w \in DOMAIN states : w < Base(b) \/ Base(b) + StateWords(Rows(b)) <= w => states'[w] = m[w]
  BY <1>1, <1>2, <1>4, StoreIs
<1>11. Outside(b, states')
  BY <1>4, <1>10 DEF Outside
<1>12. Packed'
  <2>1. invocation' \in [Bindings -> [at : {"ready", "rows", "flush", "done"}, start : Nat, row : Nat, count : Nat]]
    BY <1>1, <1>2, <1>7 DEF Packed
  <2>2. effectStatus' \in [Bindings -> [count : 0..EffectCapacity(chunkRows), overflow : BOOLEAN]]
    <3>1. 0 \in 0..EffectCapacity(chunkRows)
      <4>1. MaxEffectsPerRow \in Nat
        BY PlannerAssumption DEF PlannerAssumption
      <4>2. EffectCapacity(chunkRows) \in Nat
        BY <1>5, <4>1 DEF EffectCapacity
      <4> QED
        BY <4>2
    <3>2. effectStatus \in [Bindings -> [count : 0..EffectCapacity(chunkRows), overflow : BOOLEAN]]
      BY <1>1 DEF Packed
    <3>3. [count |-> 0, overflow |-> FALSE] \in [count : 0..EffectCapacity(chunkRows), overflow : BOOLEAN]
      BY <3>1
    <3> QED
      BY <1>2, <3>2, <3>3
  <2> QED
    BY <1>1, <1>2, <1>10, <2>1, <2>2, PackedKeeps
<1>13. ASSUME NEW e \in Bindings, e # b PROVE On(e)'
  BY <1>1, <1>2, <1>8, <1>10, <1>11, <1>13, OthersKeep
<1>14. On(b)'
  <2>1. host = "device" /\ invocation[b].at = "ready"
    BY <1>1, <1>2 DEF On, Invoked
  <2>2. /\ invocation'[b].at \in {"rows", "flush"} /\ invocation'[b].start = cursors[b]
        /\ invocation'[b].row = 0 /\ invocation'[b].count = ChunkSize(b)
        /\ invocation'[b].at = "flush" => cursors[b] >= Rows(b)
    BY <1>6, <1>8
  <2>3. invocation'[b].at = "flush" => ChunkSize(b) = 0
    BY <1>5, <2>2 DEF ChunkSize, Smaller
  <2>4. Invoked(b)'
    BY <1>1, <1>5, <2>1, <2>2, <2>3, QuietIs DEF Invoked, Quiet
  <2>5. Progress(b) = cursors[b] /\ Progress(b)' = cursors[b]
    BY <1>1, <1>5, <2>1, <2>2, QuietIs DEF Progress
  <2>6. NextRowOf(b)' = cursors[b]
    BY <1>1, <2>5, QuietIs DEF NextRowOf
  <2>7. Held(Visible(b)', Base(b), series[b], cursors[b], cursors[b])
    <3> DEFINE x == Visible(b)'
               base == Base(b)
               s == series[b]
               n == cursors[b]
    <3>1. /\ Len(s) = Rows(b) /\ Len(s) \in Nat /\ n \in Nat /\ Held(m, base, s, n, n)
          /\ Region(states, base, Len(s))
      BY <1>1, <1>4, <1>5, BindingIs
    <3>2. Region(x, base, Len(s))
      BY <1>10, <3>1, HoldsAgain
    <3>3. \A w \in base..(base + StateWords(Len(s)) - 1) : x[w] = m[w]
      BY <1>10, <3>1 DEF Region
    <3> HIDE DEF x, base, s, n
    <3>4. Held(x, base, s, n, n)
      BY <3>1, <3>2, <3>3, HeldSame
    <3> QED
      BY <3>4 DEF x, base, s, n
  <2>8. Seen(b)' = Visible(b)'
    BY <2>2 DEF Seen
  <2>9. MemoryIs(b)'
    BY <1>1, <2>5, <2>6, <2>7, <2>8, QuietIs DEF MemoryIs
  <2>10. ResultsAre(b)'
    BY <1>1, <1>2, <2>5, ResultsKeep DEF On
  <2>11. RecordsAre(b)'
    <3>1. effectStatus'[b].count = 0
      BY <1>9
    <3>2. Progress(b)' = cursors'[b] /\ cursors'[b] \in Nat
      BY <1>1, <1>5, <2>5, QuietIs
    <3> QED
      BY <3>1, <3>2 DEF RecordsAre
  <2> QED
    BY <2>4, <2>9, <2>10, <2>11 DEF On
<1> QED
  BY <1>12, <1>13, <1>14 DEF DeviceIs

(* The memory of a row: its body, and what it commits. *)
RowBody(b, n) == Body(Reset(Visible(b), Base(b), n), Base(b), n, series[b][n + 1])
RowAfter(b, n) == Commit(RowBody(b, n), Base(b), n)

RowDone(b, n, i) ==
  /\ n = cursors[b] + i /\ i \in 0..ChunkSize(b) - 1 /\ i \in Nat /\ n \in Nat
  /\ Progress(b) = n /\ NextRowOf(b) = cursors[b] /\ Runs(series[b], n)
  /\ host = "device" /\ invocation[b].at = "rows" /\ invocation[b].row = i
  /\ invocation' = [invocation EXCEPT ![b].row = @ + 1]
  /\ Store(b, RowAfter(b, n))
  /\ results' = IF Emits(series[b][n + 1])
                THEN [results EXCEPT ![Cell(b, i)] = RowResult(RowBody(b, n), Base(b), n, series[b][n + 1])]
                ELSE results
  /\ AppendEffects(b, Appended(RowBody(b, n), b, n, series[b][n + 1]))

LEMMA RowIs ==
  ASSUME Channels # 0, Typed, DeviceIs, NEW b \in Bindings, Row(b)
  PROVE  RowDone(b, Progress(b), invocation[b].row)
<1> DEFINE i == invocation[b].row
           n == Progress(b)
           value == series[b][n + 1]
<1>1. Packed /\ Invoked(b)
  BY DEF DeviceIs, On
<1>2. invocation[b].at = "rows" /\ i < invocation[b].count
  BY DEF Row
<1>3. /\ invocation[b].start = cursors[b] /\ invocation[b].count = ChunkSize(b) /\ host = "device"
      /\ i \in Nat
  BY <1>1, <1>2 DEF Invoked, Packed
<1>4. n = cursors[b] + i /\ NextRowOf(b) = cursors[b]
  BY <1>2 DEF Progress, NextRowOf
<1>5. /\ Rows(b) \in Nat /\ cursors[b] \in Nat /\ ChunkSize(b) \in Nat
      /\ cursors[b] + ChunkSize(b) <= Rows(b)
  BY ChunkIs DEF ChunkEnd
<1>6. i \in 0..ChunkSize(b) - 1 /\ n \in Nat /\ n < Rows(b)
  BY <1>2, <1>3, <1>4, <1>5
<1>7. Runs(series[b], n)
  BY <1>1, <1>6, BindingIs DEF Runs
<1>8. Store(b, RowAfter(b, n))
  <2> HIDE DEF n
  <2>1. invocation[b].start + invocation[b].row = n
    BY <1>3, <1>4
  <2> QED
    BY <2>1 DEF Row, RowAfter, RowBody
<1>9. results' = IF Emits(value) /\ Shown(b, n)
                 THEN [results EXCEPT ![ResultSlot(b, i)] = RowResult(RowBody(b, n), Base(b), n, value)]
                 ELSE results
  <2> HIDE DEF n
  <2>1. invocation[b].start + invocation[b].row = n
    BY <1>3, <1>4
  <2> QED
    BY <2>1 DEF Row, RowAfter, RowBody
<1>10. AppendEffects(b, Appended(RowBody(b, n), b, n, value))
  <2> HIDE DEF n
  <2>1. invocation[b].start + invocation[b].row = n
    BY <1>3, <1>4
  <2> QED
    BY <2>1 DEF Row, RowBody
<1>11. invocation' = [invocation EXCEPT ![b].row = @ + 1]
  BY DEF Row
<1>12. Shown(b, n) /\ ResultSlot(b, i) = Cell(b, i)
  BY <1>1, ServedIs
<1> HIDE DEF n, i
<1>13. results' = IF Emits(value)
                  THEN [results EXCEPT ![Cell(b, i)] = RowResult(RowBody(b, n), Base(b), n, value)]
                  ELSE results
  BY <1>9, <1>12
<1> QED
  BY <1>2, <1>3, <1>4, <1>6, <1>7, <1>8, <1>10, <1>11, <1>13 DEF RowDone, n, i

(* What a row leaves in the memory, its result and what it appends. *)
RowMade(b, n) ==
  /\ DOMAIN RowAfter(b, n) = DOMAIN states /\ Outside(b, RowAfter(b, n))
  /\ Held(RowAfter(b, n), Base(b), series[b], n + 1, cursors[b])
  /\ RowResult(RowBody(b, n), Base(b), n, series[b][n + 1]) = Meaning(series[b], n)
  /\ \A l \in Locals : FrameOf[l] \in Calls[series[b][n + 1]] =>
       RowBody(b, n)[At(Base(b), "scratch", l)] = RowValue(series[b], l, n)

LEMMA RowMemory ==
  ASSUME Channels # 0, Typed, DeviceIs, NEW b \in Bindings, NEW n, NEW i, RowDone(b, n, i)
  PROVE  RowMade(b, n)
<1> DEFINE base == Base(b)
           s == series[b]
           m == Visible(b)
           R == Reset(m, base, n)
<1>1. Packed /\ MemoryIs(b) /\ Progress(b) = n /\ NextRowOf(b) = cursors[b] /\ Runs(s, n)
      /\ invocation[b].at = "rows"
  BY DEF DeviceIs, On, RowDone
<1>2. Held(m, base, s, n, cursors[b])
  BY <1>1, HeldIs
<1>3. Rows(b) = Len(s)
  BY DEF Rows
<1>4. /\ DOMAIN m = DOMAIN states /\ \A w \in DOMAIN states : w \in Int
      /\ \A w \in DOMAIN states : w < base \/ base + StateWords(Len(s)) <= w => m[w] = states[w]
  BY <1>1, <1>3, VisibleIs
<1> DEFINE B == RowBody(b, n)
           C == RowAfter(b, n)
<1>5. B = Body(R, base, n, s[n + 1]) /\ C = Commit(B, base, n)
  BY DEF RowBody, RowAfter
<1> HIDE DEF B, C, m, base, s
<1>6. Holds(m, base, s, n)
  BY <1>2 DEF Held
<1>7. /\ DOMAIN C = DOMAIN m /\ Holds(C, base, s, n + 1)
      /\ C[base + WordOffset[<<"initialized">>]] = m[base + WordOffset[<<"initialized">>]]
      /\ C[base + WordOffset[<<"nextRow">>]] = m[base + WordOffset[<<"nextRow">>]]
      /\ \A w \in DOMAIN m : w \in Int /\ (w < base \/ base + StateWords(Len(s)) <= w) => C[w] = m[w]
      /\ RowResult(B, base, n, s[n + 1]) = Meaning(s, n)
      /\ \A l \in Locals : FrameOf[l] \in Calls[s[n + 1]] => B[At(base, "scratch", l)] = RowValue(s, l, n)
  BY <1>1, <1>5, <1>6, KernelRow
<1>8. Held(C, base, s, n + 1, cursors[b])
  BY <1>2, <1>7 DEF Held
<1>9. \A w \in DOMAIN states : w < base \/ base + StateWords(Len(s)) <= w => C[w] = states[w]
  BY <1>4, <1>7
<1> QED
  BY <1>3, <1>4, <1>7, <1>8, <1>9 DEF RowMade, Outside, B, C, base, s, m

(* The cell of a row is its own. *)
LEMMA RowResults ==
  ASSUME Channels # 0, Typed, DeviceIs, Quiet, NEW b \in Bindings, NEW n, NEW i, RowDone(b, n, i), RowMade(b, n),
         Progress(b)' = n + 1
  PROVE  /\ DOMAIN results' = DOMAIN results /\ ResultsAre(b)'
         /\ \A e \in Bindings : e # b => \A j \in 0..ChunkSize(e) - 1 : results'[Cell(e, j)] = results[Cell(e, j)]
<1> DEFINE value == series[b][n + 1]
           x == RowResult(RowBody(b, n), Base(b), n, value)
<1>1. Packed /\ chunkRows \in Nat /\ chunkRows > 0 /\ ResultsAre(b)
  BY BindingIs DEF DeviceIs, On
<1>2. \A e \in Bindings : ChunkSize(e) \in Nat /\ ChunkSize(e) <= chunkRows
  <2> SUFFICES ASSUME NEW e \in Bindings PROVE ChunkSize(e) \in Nat /\ ChunkSize(e) <= chunkRows
    OBVIOUS
  <2>1. Rows(e) \in Nat /\ cursors[e] \in Nat /\ ChunkSize(e) \in Nat
    BY ChunkIs
  <2> QED
    BY <1>1, <2>1 DEF ChunkSize, Smaller
<1>3. \A e \in Bindings : \A j \in 0..ChunkSize(e) - 1 : j \in 0..chunkRows - 1
  BY <1>1, <1>2
<1>4. /\ \A e \in Bindings : \A j \in 0..chunkRows - 1 : Cell(e, j) \in DOMAIN results
      /\ \A e, d \in Bindings : \A k, j \in 0..chunkRows - 1 : Cell(e, k) = Cell(d, j) => e = d /\ k = j
  BY <1>1, CellsAre DEF Packed
<1>5. n = cursors[b] + i /\ i \in 0..ChunkSize(b) - 1 /\ Progress(b) = n /\ host = "device" /\ cursors[b] \in Nat
  BY ChunkIs DEF RowDone
<1>6. /\ results' = IF Emits(value) THEN [results EXCEPT ![Cell(b, i)] = x] ELSE results
      /\ x = Meaning(series[b], n)
  BY DEF RowDone, RowMade
<1> HIDE DEF x
<1>7. DOMAIN results' = DOMAIN results
  BY <1>6
<1>8. \A e \in Bindings : \A j \in 0..ChunkSize(e) - 1 :
        e # b \/ j # i => results'[Cell(e, j)] = results[Cell(e, j)]
  <2> SUFFICES ASSUME NEW e \in Bindings, NEW j \in 0..ChunkSize(e) - 1, e # b \/ j # i
               PROVE  results'[Cell(e, j)] = results[Cell(e, j)]
    OBVIOUS
  <2>1. Cell(e, j) # Cell(b, i)
    BY <1>3, <1>4, <1>5
  <2> QED
    BY <1>6, <2>1
<1>9. results[Cell(b, i)] = Absent
  <2>1. Running /\ ~(cursors[b] + i < Progress(b))
    BY <1>5 DEF Running
  <2> QED
    BY <1>1, <1>5, <2>1 DEF ResultsAre
<1>10. RowMeaning(b, n).out = IF Emits(value) THEN Meaning(series[b], n) ELSE Absent
  BY DEF RowMeaning
<1>11. results'[Cell(b, i)] = RowMeaning(b, n).out
  <2>1. Cell(b, i) \in DOMAIN results
    BY <1>3, <1>4, <1>5
  <2> QED
    BY <1>6, <1>9, <1>10, <2>1
<1>12. ResultsAre(b)'
  <2>1. \A j : RowMeaning(b, cursors[b] + j)' = RowMeaning(b, cursors[b] + j)
    BY DEF RowMeaning, Quiet
  <2> SUFFICES ASSUME NEW j \in 0..ChunkSize(b)' - 1
               PROVE  (results[Cell(b, j)] =
                         IF cursors[b] + j < Progress(b) THEN RowMeaning(b, cursors[b] + j).out ELSE Absent)'
    BY DEF ResultsAre
  <2>2. j \in 0..ChunkSize(b) - 1 /\ cursors'[b] = cursors[b] /\ Cell(b, j)' = Cell(b, j) /\ Running
    BY <1>5, QuietIs DEF Running
  <2>3. results[Cell(b, j)] = IF cursors[b] + j < n THEN RowMeaning(b, cursors[b] + j).out ELSE Absent
    BY <1>1, <1>5, <2>2 DEF ResultsAre
  <2>4. CASE j = i
    <3>1. cursors[b] + j < n + 1 /\ cursors[b] + j = n
      BY <1>5, <2>4
    <3> QED
      BY <1>11, <2>1, <2>2, <2>4, <3>1
  <2>5. CASE j # i
    <3>1. cursors[b] + j < n + 1 <=> cursors[b] + j < n
      BY <1>2, <1>5, <2>2, <2>5
    <3>2. results'[Cell(b, j)] = results[Cell(b, j)]
      BY <1>8, <2>2, <2>5
    <3> QED
      BY <2>1, <2>2, <2>3, <3>1, <3>2
  <2> QED
    BY <2>4, <2>5
<1> QED
  BY <1>7, <1>8, <1>12

LEMMA SitesAre ==
  ASSUME NEW value \in DOMAIN Calls
  PROVE  /\ CallSites[value] \in Seq(Calls[value] \ {Root})
         /\ Len(CallSites[value]) \in Nat /\ DOMAIN CallSites[value] = 1..Len(CallSites[value])
         /\ \A i \in 1..Len(CallSites[value]) :
              /\ CallSites[value][i] \in Calls[value]
              /\ LocalsOf[CallSites[value][i]][1] \in Locals
              /\ FrameOf[LocalsOf[CallSites[value][i]][1]] = CallSites[value][i]
<1> DEFINE S == Calls[value] \ {Root}
           seqs == [i \in DOMAIN FrameOrder |-> IF FrameOrder[i] \in S THEN <<FrameOrder[i]>> ELSE <<>>]
           sites == CallSites[value]
<1>1. sites = FlattenSeq(seqs)
  <2> DEFINE joined(v) == FlattenSeq([i \in DOMAIN FrameOrder |->
               IF FrameOrder[i] \in Calls[v] \ {Root} THEN <<FrameOrder[i]>> ELSE <<>>])
  <2>1. CallSites = [v \in DOMAIN Calls |-> joined(v)]
    BY DEF CallSites
  <2>2. joined(value) = FlattenSeq(seqs)
    OBVIOUS
  <2> HIDE DEF joined, seqs
  <2>3. CallSites[value] = joined(value)
    BY <2>1
  <2> QED
    BY <2>2, <2>3
<1>2. seqs \in [1..Len(FrameOrder) -> Seq(S)]
  <2> HIDE DEF S
  <2>1. <<>> \in Seq(S) /\ \A f \in S : <<f>> \in Seq(S)
    OBVIOUS
  <2>2. \A f : (IF f \in S THEN <<f>> ELSE <<>>) \in Seq(S)
    BY <2>1
  <2> QED
    BY <2>2, FramesAre
<1>3. S \subseteq Frames
  BY KernelAssumption DEF KernelAssumption
<1> HIDE DEF seqs, S
<1>4. sites \in Seq(S)
  BY <1>1, <1>2, FramesAre, FlattenPlaced
<1> HIDE DEF sites
<1>5. Len(sites) \in Nat /\ DOMAIN sites = 1..Len(sites)
  BY <1>4, LenProperties
<1>6. ASSUME NEW i \in 1..Len(sites)
      PROVE  /\ sites[i] \in Calls[value] /\ LocalsOf[sites[i]][1] \in Locals
             /\ FrameOf[LocalsOf[sites[i]][1]] = sites[i]
  <2>1. sites[i] \in S
    BY <1>4, ElementOfSeq
  <2>2. sites[i] \in Calls[value] /\ sites[i] # Root /\ sites[i] \in Frames
    BY <1>3, <2>1 DEF S
  <2> QED
    BY <2>2, LocalsAre
<1> QED
  BY <1>4, <1>5, <1>6 DEF sites, S

(* The records a row appends are those it means. *)
LEMMA AppendedIs ==
  ASSUME NEW b, NEW n, NEW i, RowDone(b, n, i), RowMade(b, n)
  PROVE  LET new == Appended(RowBody(b, n), b, n, series[b][n + 1])
             effects == RowMeaning(b, n).effects
         IN /\ Len(effects) \in Nat /\ DOMAIN effects = 1..Len(effects) /\ DOMAIN new = 1..Len(effects)
            /\ \A k \in 1..Len(effects) : new[k].row = n /\ new[k].payload = effects[k]
            /\ \E S : effects \in Seq(S)
            /\ \E S : new \in Seq(S)
<1> DEFINE value == series[b][n + 1]
           B == RowBody(b, n)
           new == Appended(B, b, n, value)
           effects == RowMeaning(b, n).effects
           sites == CallSites[value]
<1>1. value \in DOMAIN Calls
  BY SeriesIs DEF RowDone, Runs
<1> DEFINE told(k) == <<sites[k], B[At(Base(b), "scratch", LocalsOf[sites[k]][1])]>>
           meant(k) == <<sites[k], RowValue(series[b], LocalsOf[sites[k]][1], n)>>
<1>2. Len(sites) \in Nat /\ DOMAIN sites = 1..Len(sites)
  BY <1>1, SitesAre
<1>3. new = [k \in 1..Len(sites) |-> [row |-> n, payload |-> told(k)]]
  BY <1>2 DEF Appended
<1>4. effects = [k \in 1..Len(sites) |-> meant(k)]
  BY <1>2 DEF RowMeaning
<1>5. \A k \in 1..Len(sites) : told(k) = meant(k)
  <2> SUFFICES ASSUME NEW k \in 1..Len(sites) PROVE told(k) = meant(k)
    OBVIOUS
  <2>1. /\ LocalsOf[sites[k]][1] \in Locals /\ FrameOf[LocalsOf[sites[k]][1]] = sites[k]
        /\ sites[k] \in Calls[value]
    BY <1>1, SitesAre
  <2> QED
    BY <2>1 DEF RowMade
<1> HIDE DEF new, effects, told, meant, sites
<1>6. effects \in Seq({meant(k) : k \in 1..Len(sites)}) /\ Len(effects) = Len(sites)
  <2>1. effects \in [1..Len(sites) -> {meant(k) : k \in 1..Len(sites)}]
    BY <1>4
  <2> QED
    BY <1>2, <2>1, SeqDef, LenProperties
<1>7. new \in Seq({[row |-> n, payload |-> told(k)] : k \in 1..Len(sites)}) /\ Len(new) = Len(sites)
  <2>1. new \in [1..Len(sites) -> {[row |-> n, payload |-> told(k)] : k \in 1..Len(sites)}]
    BY <1>3
  <2> QED
    BY <1>2, <2>1, SeqDef, LenProperties
<1>8. DOMAIN effects = 1..Len(effects) /\ DOMAIN new = 1..Len(effects) /\ Len(effects) \in Nat
  BY <1>2, <1>3, <1>4, <1>6
<1>9. \A k \in 1..Len(effects) : new[k].row = n /\ new[k].payload = effects[k]
  BY <1>3, <1>4, <1>5, <1>6
<1>10. \E S : effects \in Seq(S)
  BY <1>6
<1>11. \E S : new \in Seq(S)
  BY <1>7
<1> QED
  BY <1>8, <1>9, <1>10, <1>11 DEF new, effects

(* Where a binding's records lie. *)
Slot(e, j) == (e - 1) * EffectCapacity(chunkRows) + j

LEMMA SlotsAre ==
  ASSUME Typed, Packed
  PROVE  /\ EffectCapacity(chunkRows) \in Nat
         /\ \A e \in Bindings : jobs[e].effectOffset = (e - 1) * EffectCapacity(chunkRows)
                                /\ (e - 1) * EffectCapacity(chunkRows) \in Nat
                                /\ jobs[e].effectCapacity = EffectCapacity(chunkRows)
         /\ \A e \in Bindings : \A j \in 0..EffectCapacity(chunkRows) - 1 : Slot(e, j) \in DOMAIN effectRecords
         /\ \A e, b \in Bindings : \A i, j \in 0..EffectCapacity(chunkRows) - 1 : Slot(e, i) = Slot(b, j) => e = b /\ i = j
<1> DEFINE c == EffectCapacity(chunkRows)
<1>1. chunkRows \in Nat
  BY DEF Typed, IInv, Ranges
<1>2. c \in Nat /\ Executions \in Nat
  BY <1>1, PlannerAssumption DEF PlannerAssumption, EffectCapacity
<1>3. \A e \in Bindings : jobs[e].effectOffset = (e - 1) * c /\ jobs[e].effectCapacity = c
  BY BindingIs
<1>4. DOMAIN effectRecords = 0..(Executions * c - 1)
  BY DEF Packed
<1> HIDE DEF c
<1>5. \A e \in Bindings : e - 1 \in Nat /\ e - 1 < Executions /\ e \in Nat
  BY <1>2 DEF Bindings
<1>6. \A e \in Bindings : (e - 1) * c \in Nat
  <2> SUFFICES ASSUME NEW e \in Bindings PROVE (e - 1) * c \in Nat
    OBVIOUS
  <2> DEFINE p == e - 1
  <2>1. p \in Nat
    BY <1>5
  <2> HIDE DEF p
  <2>2. p * c \in Nat
    BY <1>2, <2>1
  <2> QED
    BY <2>2 DEF p
<1>7. ASSUME NEW e \in Bindings, NEW j \in 0..c - 1 PROVE (e - 1) * c + j \in DOMAIN effectRecords
  <2> DEFINE p == e - 1
  <2>1. p \in Nat /\ p < Executions
    BY <1>5
  <2> HIDE DEF p
  <2>2. p * c + j \in Nat /\ p * c + j < Executions * c
    BY <1>2, <2>1, Pairs
  <2>3. Executions * c \in Nat
    BY <1>2
  <2>4. p * c + j \in DOMAIN effectRecords
    BY <1>4, <2>2, <2>3
  <2> QED
    BY <2>4 DEF p
<1>8. ASSUME NEW e \in Bindings, NEW b \in Bindings, NEW i \in 0..c - 1, NEW j \in 0..c - 1,
             (e - 1) * c + i = (b - 1) * c + j
      PROVE  e = b /\ i = j
  <2> DEFINE p == e - 1
             q == b - 1
  <2>1. p \in Nat /\ q \in Nat /\ p * c + i = q * c + j
    BY <1>5, <1>8
  <2> HIDE DEF p, q
  <2>2. p = q /\ i = j
    BY <1>2, <2>1, Pairs
  <2> QED
    BY <1>5, <2>2 DEF p, q
<1> QED
  BY <1>2, <1>3, <1>6, <1>7, <1>8 DEF c, Slot

(* The payloads of a row among count records. *)
OfRecords(records, count, row) ==
  [i \in 1..count |-> IF records[i].row = row THEN <<records[i].payload>> ELSE <<>>]

(* used records, and behind them those of new. *)
Joined(records, old, used, new, k) ==
  /\ used \in Nat /\ k \in Nat
  /\ \A i \in 1..used : records[i] = old[i]
  /\ \A i \in 1..k : records[used + i] = new[i]

LEMMA JoinedIs ==
  ASSUME NEW records, NEW old, NEW used, NEW new, NEW k, Joined(records, old, used, new, k), NEW row
  PROVE  \E S : /\ Tailed(S, used, k, OfRecords(records, used + k, row), OfRecords(old, used, row))
                /\ \A i \in 1..k : new[i].payload \in S
<1> DEFINE S == {records[i].payload : i \in 1..(used + k)}
           seqs == OfRecords(records, used + k, row)
           first == OfRecords(old, used, row)
<1>1. used \in Nat /\ k \in Nat /\ used + k \in Nat
  BY DEF Joined
<1>2. \A i \in 1..(used + k) : records[i].payload \in S
  OBVIOUS
<1> HIDE DEF S
<1>3. <<>> \in Seq(S) /\ \A x \in S : <<x>> \in Seq(S)
  OBVIOUS
<1>4. \A i \in 1..(used + k) : (IF records[i].row = row THEN <<records[i].payload>> ELSE <<>>) \in Seq(S)
  BY <1>2, <1>3
<1>5. seqs \in [1..(used + k) -> Seq(S)]
  BY <1>4 DEF OfRecords
<1>6. \A i \in 1..used : i \in 1..(used + k) /\ records[i] = old[i]
  BY <1>1 DEF Joined
<1>7. first \in [1..used -> Seq(S)]
  <2>1. \A i \in 1..used : (IF old[i].row = row THEN <<old[i].payload>> ELSE <<>>) \in Seq(S)
    BY <1>4, <1>6
  <2> QED
    BY <2>1 DEF OfRecords
<1>8. \A i \in 1..used : seqs[i] = first[i]
  BY <1>6 DEF OfRecords
<1>9. \A i \in 1..k : new[i].payload \in S
  <2> SUFFICES ASSUME NEW i \in 1..k PROVE new[i].payload \in S
    OBVIOUS
  <2>1. used + i \in 1..(used + k) /\ records[used + i] = new[i]
    BY <1>1 DEF Joined
  <2> QED
    BY <1>2, <2>1
<1> HIDE DEF seqs, first
<1>10. Tailed(S, used, k, seqs, first)
  BY <1>1, <1>5, <1>7, <1>8 DEF Tailed, Agree
<1> QED
  BY <1>9, <1>10 DEF seqs, first

(* Records of other rows do not disturb a row's. *)
LEMMA OthersApart ==
  ASSUME NEW records, NEW old, NEW used, NEW new, NEW k, Joined(records, old, used, new, k), NEW row,
         \A i \in 1..k : new[i].row # row
  PROVE  FlattenSeq(OfRecords(records, used + k, row)) = FlattenSeq(OfRecords(old, used, row))
<1>1. PICK S : Tailed(S, used, k, OfRecords(records, used + k, row), OfRecords(old, used, row))
  BY JoinedIs
<1>2. ASSUME NEW i \in 1..k PROVE OfRecords(records, used + k, row)[used + i] = <<>>
  <2>1. used + i \in 1..(used + k) /\ records[used + i] = new[i]
    BY DEF Joined
  <2> QED
    BY <2>1 DEF OfRecords
<1> QED
  BY <1>1, <1>2, FlattenPadded

(* A row's records are those appended for it. *)
LEMMA OwnRecords ==
  ASSUME NEW records, NEW old, NEW used, NEW new, NEW k, Joined(records, old, used, new, k), NEW row,
         \A i \in 1..used : old[i].row # row,
         NEW T, NEW block \in Seq(T), Len(block) = k,
         \A i \in 1..k : new[i].row = row /\ new[i].payload = block[i]
  PROVE  FlattenSeq(OfRecords(records, used + k, row)) = block
<1>1. PICK S : /\ Tailed(S, used, k, OfRecords(records, used + k, row), OfRecords(old, used, row))
               /\ \A i \in 1..k : new[i].payload \in S
  BY JoinedIs
<1>2. block \in Seq(S)
  <2>1. block \in [1..k -> S]
    <3>1. DOMAIN block = 1..k /\ block \in [1..k -> T]
      BY SeqDef, LenProperties
    <3> QED
      BY <1>1, <3>1
  <2> QED
    BY <2>1, SeqDef DEF Joined
<1>3. \A i \in 1..used : OfRecords(old, used, row)[i] = <<>>
  BY DEF OfRecords
<1>4. Singles(OfRecords(records, used + k, row), used, block)
  <2> SUFFICES ASSUME NEW i \in 1..k PROVE OfRecords(records, used + k, row)[used + i] = <<block[i]>>
    BY DEF Singles
  <2>1. used + i \in 1..(used + k) /\ records[used + i] = new[i]
    BY DEF Joined
  <2> QED
    BY <2>1 DEF OfRecords
<1> QED
  BY <1>1, <1>2, <1>3, <1>4, FlattenBlock

Fitting(e, records) == Smaller(jobs[e].effectCapacity - effectStatus[e].count, Len(records))

(* Records go behind those of their binding, as many as fit. *)
LEMMA AppendIs ==
  ASSUME Typed, Packed, jobs' = jobs, NEW b \in Bindings, NEW T, NEW new \in Seq(T), AppendEffects(b, new)
  PROVE  /\ DOMAIN effectRecords' = DOMAIN effectRecords
         /\ effectStatus' \in [Bindings -> [count : 0..EffectCapacity(chunkRows), overflow : BOOLEAN]]
         /\ \A e \in Bindings : e # b =>
              /\ effectStatus'[e] = effectStatus[e]
              /\ \A i \in 1..effectStatus[e].count :
                   effectRecords'[jobs[e].effectOffset + i - 1] = effectRecords[jobs[e].effectOffset + i - 1]
         /\ ~effectStatus'[b].overflow =>
              /\ ~effectStatus[b].overflow /\ effectStatus'[b].count = effectStatus[b].count + Len(new)
              /\ Joined(Records(b)', Records(b), effectStatus[b].count, new, Len(new))
<1> DEFINE c == EffectCapacity(chunkRows)
           used == effectStatus[b].count
           k == Fitting(b, new)
           fit == SubSeq(new, 1, k)
           off == jobs[b].effectOffset
<1>1. /\ c \in Nat
      /\ \A e \in Bindings : jobs[e].effectOffset = (e - 1) * c /\ (e - 1) * c \in Nat /\ jobs[e].effectCapacity = c
      /\ \A e \in Bindings : \A j \in 0..c - 1 : Slot(e, j) \in DOMAIN effectRecords
      /\ \A e, d \in Bindings : \A i, j \in 0..c - 1 : Slot(e, i) = Slot(d, j) => e = d /\ i = j
  BY SlotsAre
<1>2. effectStatus \in [Bindings -> [count : 0..c, overflow : BOOLEAN]]
  BY DEF Packed
<1>3. \A e, j : Slot(e, j) = (e - 1) * c + j
  BY DEF Slot
<1> HIDE DEF c
<1>4. used \in 0..c /\ Len(new) \in Nat /\ \A i \in 1..Len(new) : new[i] \in T
  BY <1>2, LenProperties, ElementOfSeq
<1>5. /\ k \in Nat /\ k <= Len(new) /\ used + k <= c
      /\ k = c - used \/ k = Len(new)
  BY <1>1, <1>4 DEF Fitting, Smaller
<1>6. effectRecords' = [x \in DOMAIN effectRecords |->
          IF x - off - used \in 0..Len(fit) - 1 THEN fit[x - off - used + 1] ELSE effectRecords[x]]
  BY DEF AppendEffects, Fitting
<1>7. effectStatus' = [effectStatus EXCEPT ![b] =
          [count |-> used + Len(fit), overflow |-> @.overflow \/ Len(fit) < Len(new)]]
  BY DEF AppendEffects, Fitting
<1> HIDE DEF k
<1>8. Len(fit) = k /\ \A i \in 1..k : fit[i] = new[i]
  <2>1. \A i \in 1..k : new[i] \in T
    BY <1>4, <1>5
  <2>2. /\ Len(SubSeq(new, 1, k)) = IF 1 <= k THEN k - 1 + 1 ELSE 0
        /\ \A i \in 1..(k - 1 + 1) : SubSeq(new, 1, k)[i] = new[1 + i - 1]
    BY <1>5, <2>1, SubSeqProperties
  <2> DEFINE s == SubSeq(new, 1, k)
  <2>3. Len(s) = (IF 1 <= k THEN k - 1 + 1 ELSE 0) /\ \A i \in 1..(k - 1 + 1) : s[i] = new[1 + i - 1]
    BY <2>2
  <2> HIDE DEF s
  <2>4. Len(s) = k
    BY <1>5, <2>3
  <2>5. ASSUME NEW i \in 1..k PROVE s[i] = new[i]
    <3>1. i \in 1..(k - 1 + 1) /\ 1 + i - 1 = i
      BY <1>5
    <3> QED
      BY <2>3, <3>1
  <2> QED
    BY <2>4, <2>5 DEF s
<1> HIDE DEF fit
<1>9. DOMAIN effectRecords' = DOMAIN effectRecords
  BY <1>6
<1>10. /\ effectStatus'[b] = [count |-> used + k, overflow |-> effectStatus[b].overflow \/ k < Len(new)]
       /\ \A e \in Bindings : e # b => effectStatus'[e] = effectStatus[e]
  BY <1>2, <1>7, <1>8
<1>11. effectStatus' \in [Bindings -> [count : 0..c, overflow : BOOLEAN]]
  <2>1. [count |-> used + k, overflow |-> effectStatus[b].overflow \/ k < Len(new)] \in [count : 0..c, overflow : BOOLEAN]
    <3>1. used + k \in 0..c
      BY <1>1, <1>4, <1>5
    <3>2. (effectStatus[b].overflow \/ k < Len(new)) \in BOOLEAN
      BY Zenon
    <3> QED
      BY <3>1, <3>2
  <2>2. effectStatus' = [effectStatus EXCEPT ![b] =
          [count |-> used + k, overflow |-> effectStatus[b].overflow \/ k < Len(new)]]
    BY <1>7, <1>8
  <2> QED
    BY <1>2, <2>1, <2>2
<1>12. off = (b - 1) * c /\ off \in Nat
  BY <1>1
<1>13. \A j \in 0..c - 1 : off + j \in DOMAIN effectRecords
  BY <1>1, <1>3, <1>12
<1>14. ASSUME NEW e \in Bindings, e # b, NEW i \in 1..effectStatus[e].count
       PROVE  effectRecords'[jobs[e].effectOffset + i - 1] = effectRecords[jobs[e].effectOffset + i - 1]
  <2> DEFINE at == jobs[e].effectOffset
             x == at + i - 1
  <2>1. at = (e - 1) * c /\ at \in Nat /\ effectStatus[e].count \in 0..c
    BY <1>1, <1>2
  <2>2. i - 1 \in 0..c - 1
    BY <1>1, <2>1
  <2>3. at + (i - 1) = Slot(e, i - 1) /\ at + (i - 1) \in DOMAIN effectRecords
    BY <1>1, <1>3, <2>1, <2>2
  <2> HIDE DEF at
  <2>4. x = at + (i - 1)
    BY <2>1, <2>2
  <2>5. x - off - used \notin 0..Len(fit) - 1
    <3> SUFFICES ASSUME x - off - used \in 0..k - 1 PROVE FALSE
      BY <1>8
    <3> DEFINE j == x - off
    <3>1. x \in Int
      BY <2>1, <2>2
    <3> HIDE DEF x
    <3>2. j \in 0..c - 1 /\ x = off + j
      BY <1>1, <1>4, <1>5, <1>12, <3>1
    <3> HIDE DEF j
    <3>3. Slot(b, j) = off + j
      BY <1>3, <1>12
    <3>4. Slot(e, i - 1) = Slot(b, j)
      BY <2>3, <2>4, <3>2, <3>3
    <3> QED
      BY <1>1, <1>14, <2>2, <3>2, <3>4
  <2>6. x \in DOMAIN effectRecords
    BY <2>3, <2>4
  <2> HIDE DEF x
  <2>7. effectRecords'[x] = effectRecords[x]
    BY <1>6, <2>5, <2>6
  <2> QED
    BY <2>7 DEF x, at
<1>15. ASSUME ~effectStatus'[b].overflow
       PROVE  /\ ~effectStatus[b].overflow /\ effectStatus'[b].count = used + Len(new)
              /\ Joined(Records(b)', Records(b), used, new, Len(new))
  <2>1. ~effectStatus[b].overflow /\ ~(k < Len(new)) /\ effectStatus'[b].count = used + k
    <3>1. effectStatus'[b].count = used + k
      BY <1>10
    <3> DEFINE flag == effectStatus[b].overflow \/ k < Len(new)
    <3>2. effectStatus'[b].overflow = flag
      <4> HIDE DEF flag
      <4>1. effectStatus'[b] = [count |-> used + k, overflow |-> flag]
        BY <1>10 DEF flag
      <4> QED
        BY <4>1
    <3>3. ~flag
      <4> HIDE DEF flag
      <4> QED
        BY <1>15, <3>2, Zenon
    <3> QED
      BY <3>1, <3>3, Zenon
  <2>2. k = Len(new)
    BY <1>4, <1>5, <2>1
  <2>3. Records(b)' = [i \in 1..(used + k) |-> effectRecords'[off + i - 1]]
    BY <2>1 DEF Records
  <2>4. Records(b) = [i \in 1..used |-> effectRecords[off + i - 1]]
    BY DEF Records
  <2>5. ASSUME NEW i \in 1..used PROVE Records(b)'[i] = Records(b)[i]
    <3> DEFINE x == off + i - 1
    <3>1. i \in 1..(used + k) /\ i - 1 \in 0..c - 1 /\ x = off + (i - 1)
      BY <1>1, <1>4, <1>5, <1>12
    <3>2. x \in DOMAIN effectRecords
      BY <1>13, <3>1
    <3>3. x - off - used \notin 0..Len(fit) - 1
      BY <1>4, <1>5, <1>8, <1>12
    <3> HIDE DEF x
    <3>4. effectRecords'[x] = effectRecords[x]
      BY <1>6, <3>2, <3>3
    <3> QED
      BY <2>3, <2>4, <3>1, <3>4 DEF x
  <2>6. ASSUME NEW i \in 1..k PROVE Records(b)'[used + i] = new[i]
    <3> DEFINE x == off + (used + i) - 1
    <3>0. used \in Nat /\ i \in Nat /\ i >= 1 /\ i <= k /\ used + k <= c /\ off \in Nat
      BY <1>1, <1>4, <1>5, <1>12
    <3>1. used + i \in 1..(used + k) /\ used + i - 1 \in 0..c - 1 /\ x = off + (used + i - 1)
      <4> HIDE DEF off, used
      <4> QED
        BY <1>1, <1>5, <3>0
    <3>2. x \in DOMAIN effectRecords
      BY <1>13, <3>1
    <3>3. x - off - used \in 0..Len(fit) - 1 /\ x - off - used + 1 = i
      BY <1>4, <1>5, <1>8, <1>12
    <3> HIDE DEF x
    <3>4. effectRecords'[x] = fit[i]
      BY <1>6, <3>2, <3>3
    <3>5. fit[i] = new[i]
      BY <1>8
    <3>6. Records(b)'[used + i] = effectRecords'[x]
      BY <2>3, <3>1 DEF x
    <3> QED
      BY <3>4, <3>5, <3>6
  <2> QED
    BY <1>4, <2>1, <2>2, <2>5, <2>6 DEF Joined
<1> QED
  BY <1>9, <1>10, <1>11, <1>14, <1>15 DEF c

LEMMA RowRecords ==
  ASSUME Channels # 0, Typed, DeviceIs, Quiet, NEW b \in Bindings, NEW n, NEW i, RowDone(b, n, i), RowMade(b, n),
         Progress(b)' = n + 1
  PROVE  /\ DOMAIN effectRecords' = DOMAIN effectRecords /\ RecordsAre(b)'
         /\ effectStatus' \in [Bindings -> [count : 0..EffectCapacity(chunkRows), overflow : BOOLEAN]]
         /\ \A e \in Bindings : e # b =>
              /\ effectStatus'[e] = effectStatus[e]
              /\ \A j \in 1..effectStatus[e].count :
                   effectRecords'[jobs[e].effectOffset + j - 1] = effectRecords[jobs[e].effectOffset + j - 1]
<1> DEFINE new == Appended(RowBody(b, n), b, n, series[b][n + 1])
           effects == RowMeaning(b, n).effects
           used == effectStatus[b].count
           k == Len(effects)
<1>1. /\ k \in Nat /\ DOMAIN new = 1..k
      /\ \A j \in 1..k : new[j].row = n /\ new[j].payload = effects[j]
      /\ \E S : effects \in Seq(S)
      /\ \E S : new \in Seq(S)
  BY AppendedIs
<1>2. PICK S : effects \in Seq(S)
  BY <1>1
<1>3. PICK T : new \in Seq(T)
  BY <1>1
<1>4. AppendEffects(b, new) /\ Packed /\ RecordsAre(b) /\ jobs' = jobs
  BY DEF RowDone, DeviceIs, On, Quiet
<1> HIDE DEF new, effects
<1>5. Len(new) = k
  BY <1>1, <1>3, LenProperties
<1>6. /\ DOMAIN effectRecords' = DOMAIN effectRecords
      /\ effectStatus' \in [Bindings -> [count : 0..EffectCapacity(chunkRows), overflow : BOOLEAN]]
      /\ \A e \in Bindings : e # b =>
           /\ effectStatus'[e] = effectStatus[e]
           /\ \A j \in 1..effectStatus[e].count :
                effectRecords'[jobs[e].effectOffset + j - 1] = effectRecords[jobs[e].effectOffset + j - 1]
      /\ ~effectStatus'[b].overflow =>
           /\ ~effectStatus[b].overflow /\ effectStatus'[b].count = used + Len(new)
           /\ Joined(Records(b)', Records(b), used, new, Len(new))
  BY <1>3, <1>4, AppendIs
<1>7. RecordsAre(b)'
  <2> SUFFICES ASSUME ~effectStatus'[b].overflow
               PROVE  /\ \A j \in 1..effectStatus'[b].count : Records(b)'[j].row \in cursors'[b]..Progress(b)' - 1
                      /\ \A row \in cursors'[b]..Progress(b)' - 1 :
                           FlattenSeq(OfRow(b, row)') = RowMeaning(b, row)'.effects
    BY DEF RecordsAre
  <2>1. /\ ~effectStatus[b].overflow /\ effectStatus'[b].count = used + k
        /\ Joined(Records(b)', Records(b), used, new, k)
    BY <1>5, <1>6
  <2>2. /\ cursors'[b] = cursors[b] /\ cursors[b] \in Nat /\ n \in Nat /\ cursors[b] <= n /\ Progress(b) = n
        /\ Running /\ \A row : RowMeaning(b, row)' = RowMeaning(b, row)
    <3>1. cursors'[b] = cursors[b] /\ \A row : RowMeaning(b, row)' = RowMeaning(b, row)
      BY QuietIs
    <3>2. cursors[b] \in Nat
      BY ChunkIs
    <3> QED
      BY <3>1, <3>2 DEF RowDone, Running
  <2>3. /\ \A j \in 1..used : Records(b)[j].row \in cursors[b]..n - 1
        /\ \A row \in cursors[b]..n - 1 : FlattenSeq(OfRow(b, row)) = RowMeaning(b, row).effects
    BY <1>4, <2>1, <2>2 DEF RecordsAre
  <2>4. \A row : OfRow(b, row) = OfRecords(Records(b), used, row) /\ OfRow(b, row)' = OfRecords(Records(b)', used + k, row)
    BY <2>1 DEF OfRow, OfRecords
  <2>5. used \in Nat
    BY <2>1 DEF Joined
  <2>6. ASSUME NEW j \in 1..(used + k) PROVE Records(b)'[j].row \in cursors[b]..n
    <3>1. CASE j <= used
      <4>1. j \in 1..used /\ Records(b)'[j] = Records(b)[j]
        BY <2>1, <3>1 DEF Joined
      <4>2. Records(b)[j].row \in cursors[b]..n - 1
        BY <2>3, <4>1
      <4> QED
        BY <2>2, <4>1, <4>2
    <3>2. CASE ~(j <= used)
      <4>1. j - used \in 1..k /\ used + (j - used) = j
        BY <1>1, <2>5, <3>2
      <4>2. Records(b)'[used + (j - used)] = new[j - used]
        BY <2>1, <4>1 DEF Joined
      <4>3. Records(b)'[j].row = n
        BY <1>1, <4>1, <4>2
      <4> QED
        BY <2>2, <4>3
    <3> QED
      BY <3>1, <3>2
  <2>7. ASSUME NEW row \in cursors[b]..n - 1
        PROVE  FlattenSeq(OfRow(b, row)') = RowMeaning(b, row).effects
    <3>1. row # n
      BY <2>2
    <3>2. FlattenSeq(OfRecords(Records(b)', used + k, row)) = FlattenSeq(OfRecords(Records(b), used, row))
      BY <1>1, <2>1, <3>1, OthersApart
    <3> QED
      BY <2>3, <2>4, <3>2
  <2>8. FlattenSeq(OfRow(b, n)') = effects
    <3>1. \A j \in 1..used : Records(b)[j].row # n
      BY <2>2, <2>3
    <3>2. FlattenSeq(OfRecords(Records(b)', used + k, n)) = effects
      BY <1>1, <1>2, <2>1, <3>1, OwnRecords
    <3> QED
      BY <2>4, <3>2
  <2>9. \A row \in cursors[b]..n : row = n \/ row \in cursors[b]..n - 1
    BY <2>2
  <2>10. Progress(b)' - 1 = n
    BY <2>2
  <2> QED
    BY <2>1, <2>2, <2>6, <2>7, <2>8, <2>9, <2>10 DEF effects
<1> QED
  BY <1>6, <1>7

LEMMA RowKeeps ==
  ASSUME Channels # 0, Typed, DeviceIs, NEW b \in Bindings, Row(b)
  PROVE  DeviceIs'
<1> DEFINE n == Progress(b)
           i == invocation[b].row
           x == RowAfter(b, n)
<1>1. Packed /\ On(b) /\ Quiet
  BY DEF DeviceIs, Row, Quiet, chunk, fixed, search
<1>2. UNCHANGED <<cached, jobs, series, chunkRows>>
  BY <1>1 DEF Quiet
<1>3. RowDone(b, n, i)
  BY RowIs
<1>4. RowMade(b, n)
  BY <1>3, RowMemory
<1>5. /\ n = cursors[b] + i /\ i \in 0..ChunkSize(b) - 1 /\ i \in Nat /\ n \in Nat
      /\ host = "device" /\ invocation[b].at = "rows"
      /\ invocation' = [invocation EXCEPT ![b].row = @ + 1] /\ Store(b, x)
      /\ NextRowOf(b) = cursors[b] /\ Runs(series[b], n)
  BY <1>3 DEF RowDone
<1>6. /\ DOMAIN x = DOMAIN states /\ Outside(b, x)
      /\ Held(x, Base(b), series[b], n + 1, cursors[b])
  BY <1>4 DEF RowMade
<1> HIDE DEF x
<1>7. DOMAIN invocation = Bindings /\ invocation[b] \in [at : {"ready", "rows", "flush", "done"}, start : Nat, row : Nat, count : Nat]
  BY <1>1 DEF Packed
<1>8. /\ invocation'[b].at = "rows" /\ invocation'[b].row = i + 1
      /\ invocation'[b].start = invocation[b].start /\ invocation'[b].count = invocation[b].count
      /\ \A e \in Bindings : e # b => invocation'[e] = invocation[e]
  BY <1>5, <1>7
<1>9. Progress(b)' = n + 1
  <2>1. Progress(b)' = cursors'[b] + invocation'[b].row
    BY <1>8 DEF Progress
  <2>2. cursors'[b] = cursors[b] /\ cursors[b] \in Nat
    BY <1>1, QuietIs, ChunkIs
  <2> QED
    BY <1>5, <1>8, <2>1, <2>2
<1>10. /\ DOMAIN results' = DOMAIN results /\ ResultsAre(b)'
       /\ \A e \in Bindings : e # b => \A j \in 0..ChunkSize(e) - 1 : results'[Cell(e, j)] = results[Cell(e, j)]
  BY <1>1, <1>3, <1>4, <1>9, RowResults
<1>11. /\ DOMAIN effectRecords' = DOMAIN effectRecords /\ RecordsAre(b)'
       /\ effectStatus' \in [Bindings -> [count : 0..EffectCapacity(chunkRows), overflow : BOOLEAN]]
       /\ \A e \in Bindings : e # b =>
            /\ effectStatus'[e] = effectStatus[e]
            /\ \A j \in 1..effectStatus[e].count :
                 effectRecords'[jobs[e].effectOffset + j - 1] = effectRecords[jobs[e].effectOffset + j - 1]
  BY <1>1, <1>3, <1>4, <1>9, RowRecords
<1>12. /\ DOMAIN states' = DOMAIN states /\ DOMAIN cache' = Bindings
       /\ DOMAIN Visible(b)' = DOMAIN states /\ \A w \in DOMAIN states : Visible(b)'[w] = x[w]
       /\ \A e \in Bindings : e # b => cache'[e] = cache[e]
       /\ \A w \in DOMAIN states : w < Base(b) \/ Base(b) + StateWords(Rows(b)) <= w => states'[w] = x[w]
  BY <1>1, <1>2, <1>5, <1>6, StoreIs
<1>13. Outside(b, states')
  BY <1>6, <1>12 DEF Outside
<1>14. Packed'
  <2>1. invocation' \in [Bindings -> [at : {"ready", "rows", "flush", "done"}, start : Nat, row : Nat, count : Nat]]
    <3>1. invocation \in [Bindings -> [at : {"ready", "rows", "flush", "done"}, start : Nat, row : Nat, count : Nat]]
      BY <1>1 DEF Packed
    <3>2. [invocation[b] EXCEPT !.row = i + 1] \in [at : {"ready", "rows", "flush", "done"}, start : Nat, row : Nat, count : Nat]
      BY <1>5, <1>7
    <3>3. invocation' = [invocation EXCEPT ![b] = [invocation[b] EXCEPT !.row = i + 1]]
      BY <1>5
    <3> QED
      BY <3>1, <3>2, <3>3
  <2> QED
    BY <1>1, <1>2, <1>10, <1>11, <1>12, <2>1, PackedKeeps
<1>15. ASSUME NEW e \in Bindings, e # b PROVE On(e)'
  BY <1>1, <1>8, <1>10, <1>11, <1>12, <1>13, <1>15, OthersKeep
<1>16. On(b)'
  <2>1. Invoked(b)'
    <3>1. /\ invocation[b].start = cursors[b] /\ invocation[b].count = ChunkSize(b) /\ ChunkSize(b) \in Nat
          /\ ChunkSize(b)' = ChunkSize(b) /\ cursors'[b] = cursors[b] /\ host' = host
      BY <1>1, <1>5, ChunkIs, QuietIs DEF On, Invoked, Quiet
    <3>2. i + 1 <= ChunkSize(b)
      BY <1>5, <3>1
    <3> QED
      BY <1>5, <1>8, <3>1, <3>2 DEF Invoked
  <2>2. NextRowOf(b)' = cursors[b] /\ Seen(b)' = Visible(b)'
    BY <1>1, <1>8, QuietIs DEF NextRowOf, Seen
  <2>3. Held(Visible(b)', Base(b), series[b], n + 1, cursors[b])
    <3> DEFINE y == Visible(b)'
               base == Base(b)
               s == series[b]
               m == n + 1
               next == cursors[b]
    <3>1. /\ Len(s) = Rows(b) /\ Len(s) \in Nat /\ m \in Nat /\ Held(x, base, s, m, next)
          /\ Region(states, base, Len(s))
      BY <1>1, <1>5, <1>6, BindingIs
    <3>2. Region(y, base, Len(s))
      BY <1>12, <3>1, HoldsAgain
    <3>3. \A w \in base..(base + StateWords(Len(s)) - 1) : y[w] = x[w]
      BY <1>12, <3>1 DEF Region
    <3> HIDE DEF y, base, s, m, next
    <3>4. Held(y, base, s, m, next)
      BY <3>1, <3>2, <3>3, HeldSame
    <3> QED
      BY <3>4 DEF y, base, s, m, next
  <2>4. MemoryIs(b)'
    BY <1>1, <1>9, <2>2, <2>3, QuietIs DEF MemoryIs
  <2> QED
    BY <1>10, <1>11, <2>1, <2>4 DEF On
<1> QED
  BY <1>14, <1>15, <1>16 DEF DeviceIs

LEMMA DeviceKeeps ==
  ASSUME Channels # 0, Typed, DeviceIs, NEW b \in Bindings, DeviceStep(b)
  PROVE  DeviceIs'
BY StartUnserved, StartServed, RowKeeps, EndRowsKeeps, FlushKeeps DEF DeviceStep

-----------------------------------------------------------------------------
(***************************************************************************)
(* The host: what it does between two awaits leaves the memory alone.      *)
(***************************************************************************)

(* What the steps of the host do not touch of the device. *)
Still == UNCHANGED <<cached, jobs, series, chunkRows, states, cache>>

LEMMA StillIs ==
  ASSUME Still, NEW e \in Bindings
  PROVE  /\ Base(e)' = Base(e) /\ Rows(e)' = Rows(e) /\ series'[e] = series[e]
         /\ Visible(e)' = Visible(e) /\ \A j : Cell(e, j)' = Cell(e, j)
         /\ \A row : RowMeaning(e, row)' = RowMeaning(e, row)
<1>1. Base(e)' = Base(e) /\ Rows(e)' = Rows(e)
  BY DEF Still, Base, Rows
<1>2. Visible(e)' = Visible(e)
  BY <1>1 DEF Still, Visible
<1>3. \A j : Cell(e, j)' = Cell(e, j)
  BY DEF Still, Cell
<1>4. \A row : RowMeaning(e, row)' = RowMeaning(e, row)
  BY DEF Still, RowMeaning
<1> QED
  BY <1>1, <1>2, <1>3, <1>4 DEF Still

LEMMA DeviceSame ==
  ASSUME DeviceIs, Still, UNCHANGED <<cursors, results, effectRecords, effectStatus, invocation>>,
         Running' = Running, \A e \in Bindings : invocation[e].at # "done" => host' = "device"
  PROVE  DeviceIs'
<1>1. Packed /\ \A e \in Bindings : On(e)
  BY DEF DeviceIs
<1>2. UNCHANGED <<cached, jobs, series, chunkRows, states, cache>>
  BY DEF Still
<1>3. Packed'
  <2>1. /\ effectStatus' \in [Bindings -> [count : 0..EffectCapacity(chunkRows), overflow : BOOLEAN]]
        /\ invocation' \in [Bindings -> [at : {"ready", "rows", "flush", "done"}, start : Nat, row : Nat, count : Nat]]
        /\ DOMAIN cache' = Bindings
    BY <1>1, <1>2 DEF Packed
  <2> QED
    BY <1>1, <1>2, <2>1, PackedKeeps
<1>4. ASSUME NEW e \in Bindings PROVE On(e)'
  <2>1. /\ Base(e)' = Base(e) /\ Rows(e)' = Rows(e) /\ series'[e] = series[e]
        /\ Visible(e)' = Visible(e) /\ \A j : Cell(e, j)' = Cell(e, j)
        /\ \A row : RowMeaning(e, row)' = RowMeaning(e, row)
    BY StillIs
  <2>2. ChunkSize(e)' = ChunkSize(e)
    BY <1>2, <2>1 DEF ChunkSize
  <2>3. ChunkEnd(e)' = ChunkEnd(e)
    BY <2>2 DEF ChunkEnd
  <2>4. Progress(e)' = Progress(e)
    BY <2>3 DEF Progress
  <2>5. NextRowOf(e)' = NextRowOf(e)
    BY <2>4 DEF NextRowOf
  <2>6. Seen(e)' = Seen(e)
    BY <1>2, <2>1 DEF Seen
  <2>7. Invoked(e)'
    BY <1>1, <2>2 DEF On, Invoked
  <2>8. MemoryIs(e)'
    BY <1>1, <1>2, <2>1, <2>4, <2>5, <2>6 DEF On, MemoryIs
  <2>9. ResultsAre(e)'
    <3>1. \A j : RowMeaning(e, cursors[e] + j)' = RowMeaning(e, cursors[e] + j)
      BY <1>2 DEF RowMeaning
    <3> SUFFICES ASSUME Running', NEW j \in 0..ChunkSize(e)' - 1
                 PROVE  (results[Cell(e, j)] =
                           IF cursors[e] + j < Progress(e) THEN RowMeaning(e, cursors[e] + j).out ELSE Absent)'
      BY DEF ResultsAre
    <3>2. results[Cell(e, j)] = IF cursors[e] + j < Progress(e) THEN RowMeaning(e, cursors[e] + j).out ELSE Absent
      BY <1>1, <2>2 DEF On, ResultsAre
    <3> QED
      BY <2>1, <2>4, <3>1, <3>2
  <2>10. RecordsAre(e)'
    <3>1. Records(e)' = Records(e)
      BY <1>2 DEF Records
    <3>2. \A row : OfRow(e, row)' = OfRow(e, row)
      BY <3>1 DEF OfRow
    <3> SUFFICES ASSUME Running', ~effectStatus'[e].overflow
                 PROVE  /\ \A i \in 1..effectStatus'[e].count : Records(e)'[i].row \in cursors'[e]..Progress(e)' - 1
                        /\ \A row \in cursors'[e]..Progress(e)' - 1 :
                             FlattenSeq(OfRow(e, row)') = RowMeaning(e, row)'.effects
      BY DEF RecordsAre
    <3>3. /\ \A i \in 1..effectStatus[e].count : Records(e)[i].row \in cursors[e]..Progress(e) - 1
          /\ \A row \in cursors[e]..Progress(e) - 1 : FlattenSeq(OfRow(e, row)) = RowMeaning(e, row).effects
      BY <1>1 DEF On, RecordsAre
    <3> QED
      BY <2>1, <2>4, <3>1, <3>2, <3>3
  <2> QED
    BY <2>7, <2>8, <2>9, <2>10 DEF On
<1> QED
  BY <1>3, <1>4 DEF DeviceIs

LEMMA CapacityNat ==
  ASSUME Typed
  PROVE  EffectCapacity(chunkRows) \in Nat /\ 0 \in 0..EffectCapacity(chunkRows)
         /\ NoStatus \in [Bindings -> [count : 0..EffectCapacity(chunkRows), overflow : BOOLEAN]]
<1>1. chunkRows \in Nat /\ MaxEffectsPerRow \in Nat
  BY PlannerAssumption DEF Typed, IInv, Ranges, PlannerAssumption
<1>2. EffectCapacity(chunkRows) \in Nat
  BY <1>1 DEF EffectCapacity
<1>3. [count |-> 0, overflow |-> FALSE] \in [count : 0..EffectCapacity(chunkRows), overflow : BOOLEAN]
  BY <1>2
<1> QED
  BY <1>2, <1>3 DEF NoStatus

(* A dispatch finds the bindings at their cursors and clears the results.  *)
LEMMA DispatchKeeps ==
  ASSUME Channels # 0, Typed, DeviceIs, host = "idle", UNCHANGED <<series, chunkRows>>,
         NEW c, NEW kind, Dispatch(c, kind)
  PROVE  DeviceIs'
<1>1. Packed /\ \A e \in Bindings : On(e)
  BY DEF DeviceIs
<1>2. Still /\ UNCHANGED <<cached, jobs, series, chunkRows, states, cache, cursors>>
  BY DEF Dispatch, Still
<1>3. /\ host' = "device" /\ results' = NoResults
      /\ \/ effectRecords' = NoRecords /\ effectStatus' = NoStatus
         \/ ~(EffectCapacity(chunkRows) > 0) /\ effectRecords' = effectRecords /\ effectStatus' = effectStatus
      /\ invocation' = [e \in Bindings |-> [at |-> "ready", start |-> 0, row |-> 0, count |-> 0]]
  <2>1. \A e \in Bindings : [Retired[e] EXCEPT !.at = "ready"] = [at |-> "ready", start |-> 0, row |-> 0, count |-> 0]
    BY DEF Retired
  <2> QED
    BY <2>1 DEF Dispatch
<1>4. chunkRows \in Nat /\ chunkRows > 0
  BY <1>1, ChunkIs DEF Packed, Typed, IInv, Ranges
<1>5. DOMAIN results' = DOMAIN results /\ \A w \in DOMAIN results : results'[w] = Absent
  BY <1>1, <1>3 DEF NoResults, Packed
<1>6. DOMAIN effectRecords' = DOMAIN effectRecords
  BY <1>1, <1>3 DEF NoRecords, Packed
<1>7. /\ effectStatus' \in [Bindings -> [count : 0..EffectCapacity(chunkRows), overflow : BOOLEAN]]
      /\ \A e \in Bindings : effectStatus'[e].count = 0
  <2>1. CASE effectStatus' = NoStatus
    BY <2>1, CapacityNat DEF NoStatus
  <2>2. CASE ~(EffectCapacity(chunkRows) > 0) /\ effectStatus' = effectStatus
    <3>1. EffectCapacity(chunkRows) = 0
      BY <2>2, CapacityNat
    <3>2. effectStatus \in [Bindings -> [count : 0..EffectCapacity(chunkRows), overflow : BOOLEAN]]
      BY <1>1 DEF Packed
    <3>3. \A e \in Bindings : effectStatus[e].count \in 0..0
      BY <3>1, <3>2
    <3> QED
      BY <2>2, <3>2, <3>3
  <2> QED
    BY <1>3, <2>1, <2>2
<1>8. Packed'
  <2>1. invocation' \in [Bindings -> [at : {"ready", "rows", "flush", "done"}, start : Nat, row : Nat, count : Nat]]
    BY <1>3
  <2>2. DOMAIN cache' = Bindings
    BY <1>1, <1>2 DEF Packed
  <2> QED
    BY <1>1, <1>2, <1>5, <1>6, <1>7, <2>1, <2>2, PackedKeeps
<1>9. ASSUME NEW e \in Bindings PROVE On(e)'
  <2>1. /\ Base(e)' = Base(e) /\ Rows(e)' = Rows(e) /\ series'[e] = series[e]
        /\ \A j : Cell(e, j)' = Cell(e, j)
    BY <1>2, StillIs
  <2>2. invocation[e].at = "done" /\ invocation'[e].at = "ready" /\ ~Running
    BY <1>1, <1>3 DEF On, Invoked, Packed, Running
  <2>3. Progress(e) = cursors[e] /\ Progress(e)' = cursors[e] /\ cursors[e] \in Nat
    BY <1>2, <2>2, ChunkIs DEF Progress
  <2>4. NextRowOf(e) = cursors[e] /\ NextRowOf(e)' = cursors[e] /\ Seen(e) = states /\ Seen(e)' = states
    BY <1>2, <2>2, <2>3 DEF NextRowOf, Seen
  <2>5. Invoked(e)'
    BY <1>3, <2>2 DEF Invoked
  <2>6. MemoryIs(e)'
    BY <1>1, <1>2, <2>1, <2>2, <2>3, <2>4 DEF On, MemoryIs
  <2>7. ResultsAre(e)'
    <3> SUFFICES ASSUME NEW j \in 0..ChunkSize(e)' - 1
                 PROVE  (results[Cell(e, j)] =
                           IF cursors[e] + j < Progress(e) THEN RowMeaning(e, cursors[e] + j).out ELSE Absent)'
      BY DEF ResultsAre
    <3>1. /\ ChunkSize(e)' = ChunkSize(e) /\ cursors'[e] = cursors[e]
      BY <1>2, <2>1 DEF ChunkSize
    <3>2. ChunkSize(e) \in Nat /\ ChunkSize(e) <= chunkRows
      <4>1. Rows(e) \in Nat /\ cursors[e] \in Nat /\ ChunkSize(e) \in Nat
        BY ChunkIs
      <4> QED
        BY <1>4, <4>1 DEF ChunkSize, Smaller
    <3>3. j \in 0..chunkRows - 1 /\ j \in Nat
      BY <1>4, <3>1, <3>2
    <3>4. Cell(e, j) \in DOMAIN results
      BY <1>1, <1>4, <3>3, CellsAre DEF Packed
    <3>5. ~(cursors[e] + j < cursors[e])
      BY <2>3, <3>3
    <3> QED
      BY <1>5, <2>1, <2>3, <3>1, <3>4, <3>5
  <2>8. RecordsAre(e)'
    <3>1. \A z : z \notin 1..0 /\ z \notin cursors[e]..cursors[e] - 1
      BY <2>3
    <3> QED
      BY <1>2, <1>7, <2>3, <3>1 DEF RecordsAre
  <2> QED
    BY <2>5, <2>6, <2>7, <2>8 DEF On
<1> QED
  BY <1>8, <1>9 DEF DeviceIs

(* A chunk that is over moves the cursors to where the device is. *)
LEMMA FinishSettles ==
  ASSUME Typed, DeviceIs, FinishChunk
  PROVE  DeviceIs'
<1>1. Packed /\ \A e \in Bindings : On(e)
  BY DEF DeviceIs
<1>2. /\ Still 
      /\ UNCHANGED <<cached, jobs, series, chunkRows, states, cache, results, effectRecords, effectStatus, invocation>>
      /\ host = "deliver" /\ host' = "idle" /\ cursors' = Advanced
  BY DEF FinishChunk, Still, device, fixed, search
<1>3. Packed'
  <2>1. /\ effectStatus' \in [Bindings -> [count : 0..EffectCapacity(chunkRows), overflow : BOOLEAN]]
        /\ invocation' \in [Bindings -> [at : {"ready", "rows", "flush", "done"}, start : Nat, row : Nat, count : Nat]]
        /\ DOMAIN cache' = Bindings
    BY <1>1, <1>2 DEF Packed
  <2> QED
    BY <1>1, <1>2, <2>1, PackedKeeps
<1>4. ASSUME NEW e \in Bindings PROVE On(e)'
  <2>1. Base(e)' = Base(e) /\ Rows(e)' = Rows(e) /\ series'[e] = series[e]
    BY <1>2, StillIs
  <2>2. invocation[e].at = "done" /\ Running /\ ~Running'
    BY <1>1, <1>2 DEF On, Invoked, Running
  <2>3. cursors'[e] = ChunkEnd(e)
    <3>1. Cardinality(ChunkRowsOf(e)) = ChunkSize(e)
      BY ChunkIs
    <3> QED
      BY <1>2, <3>1 DEF Advanced, ChunkEnd
  <2>4. Progress(e) = ChunkEnd(e) /\ Progress(e)' = ChunkEnd(e)
    BY <1>2, <2>2, <2>3 DEF Progress
  <2>5. NextRowOf(e) = ChunkEnd(e) /\ NextRowOf(e)' = ChunkEnd(e) /\ Seen(e) = states /\ Seen(e)' = states
    BY <1>2, <2>2, <2>4 DEF NextRowOf, Seen
  <2>6. Invoked(e)'
    BY <1>2, <2>2 DEF Invoked
  <2>7. MemoryIs(e)'
    BY <1>1, <1>2, <2>1, <2>2, <2>4, <2>5 DEF On, MemoryIs
  <2>8. ResultsAre(e)' /\ RecordsAre(e)'
    BY <2>2 DEF ResultsAre, RecordsAre
  <2> QED
    BY <2>6, <2>7, <2>8 DEF On
<1> QED
  BY <1>3, <1>4 DEF DeviceIs

(* The buffers of a session: what the initial descriptors say of them.     *)
LEMMA AllocateKeeps ==
  ASSUME Typed, Opening, Allocate, chunkRows # 0, cached \subseteq 0..Len(Fixed) - 1,
         effectStatus = NoStatus, invocation = Retired, DOMAIN cache = Bindings
  PROVE  DeviceIs'
<1>1. /\ jobs' = [e \in Bindings |-> Descriptor(e)]
      /\ states' = [w \in 0..Len(PackedStates) - 1 |-> PackedStates[w + 1]]
      /\ results' = NoResults /\ effectRecords' = NoRecords
      /\ UNCHANGED <<cached, cache, effectStatus, invocation, series, chunkRows, host, cursors>>
      /\ session = "allocating"
  BY DEF Allocate, fixed, search, chunk
<1>2. \A e \in Bindings : Rows(e) \in Nat /\ Rows(e)' = Rows(e) /\ StateWords(Rows(e)) \in Nat
  <2>1. \A e \in Bindings : Rows(e) \in Nat
    BY ChunkIs
  <2>2. \A e : Rows(e)' = Rows(e)
    BY <1>1 DEF Rows
  <2> QED
    BY <2>1, <2>2, HistoryIs
<1>3. /\ OffsetsOk(StateOffset) /\ Len(PackedStates) \in Nat
      /\ \A e \in Bindings : \A w \in 0..StateWords(Rows(e)) - 1 :
           /\ StateOffset[e] + w \in 0..Len(PackedStates) - 1
           /\ PackedStates[(StateOffset[e] + w) + 1] = InitialState(Rows(e))[w]
  BY <1>2, OffsetsAre
<1>4. ASSUME NEW e \in Bindings
      PROVE  jobs'[e] = Descriptor(e) /\ Base(e)' = StateOffset[e] /\ StateOffset[e] \in Nat
  <2>1. jobs'[e] = Descriptor(e)
    BY <1>1
  <2>2. Base(e)' = StateOffset[e]
    BY <2>1 DEF Base, Descriptor
  <2>3. e \in 1..Executions + 1
    BY ExecutionsNat DEF Bindings
  <2> QED
    BY <1>3, <2>1, <2>2, <2>3 DEF OffsetsOk
<1>5. ASSUME NEW e \in Bindings PROVE Fresh(states, Base(e), Rows(e))'
  <2> DEFINE base == StateOffset[e]
             size == StateWords(Rows(e))
             last == Len(PackedStates) - 1
  <2>1. base \in Nat /\ size \in Nat /\ last \in Int /\ Rows(e) \in Nat
    BY <1>2, <1>3, <1>4
  <2>2. \A w \in 0..size - 1 : base + w \in 0..last
    BY <1>3
  <2>3. ASSUME NEW w \in base..(base + size - 1) PROVE w \in 0..last
    <3> HIDE DEF base, size, last
    <3>1. w - base \in 0..size - 1 /\ base + (w - base) = w
      BY <2>1
    <3> QED
      BY <2>2, <3>1
  <2>4. DOMAIN states' = 0..last /\ \A w \in 0..last : states'[w] = PackedStates[w + 1]
    BY <1>1
  <2>5. \A w \in 0..size - 1 : states'[base + w] = InitialState(Rows(e))[w]
    BY <1>3, <2>2, <2>4
  <2>6. Region(states', base, Rows(e))
    BY <2>1, <2>3, <2>4 DEF Region
  <2>7. Fresh(states', base, Rows(e))
    BY <2>5, <2>6 DEF Fresh
  <2> QED
    BY <1>2, <1>4, <2>7
<1>6. Packed'
  <2>1. chunkRows \in Nat /\ chunkRows' = chunkRows /\ chunkRows > 0
    BY <1>1 DEF Typed, IInv, Ranges
  <2>2. jobs' = [e \in Bindings |->
          [stateOffset |-> Base(e)', rowCount |-> Rows(e)',
           resultOffset |-> (e - 1) * ResultCapacity(chunkRows'), resultCount |-> ResultCapacity(chunkRows'),
           effectOffset |-> (e - 1) * EffectCapacity(chunkRows'), effectCapacity |-> EffectCapacity(chunkRows'),
           chunkRows |-> Smaller(chunkRows', Rows(e)')]]
    BY <1>1, <1>2, <1>4, <2>1 DEF Descriptor
  <2>3. \A e \in Bindings : Region(states, Base(e), Rows(e))'
    BY <1>5 DEF Fresh
  <2>4. ASSUME NEW e \in Bindings, NEW b \in Bindings, e # b
        PROVE  \/ Base(e)' + StateWords(Rows(e)') <= Base(b)'
               \/ Base(b)' + StateWords(Rows(b)') <= Base(e)'
    <3>1. e \in Int /\ b \in Int
      BY ExecutionsNat DEF Bindings
    <3>2. \A x \in Bindings : StateWords(Rows(x)) \in Nat
      BY <1>2
    <3>3. CASE e < b
      <4>1. StateOffset[e] + StateWords(Rows(e)) <= StateOffset[b]
        BY <1>3, <3>2, <3>3, StatesApart
      <4> QED
        BY <1>2, <1>4, <4>1
    <3>4. CASE b < e
      <4>1. StateOffset[b] + StateWords(Rows(b)) <= StateOffset[e]
        BY <1>3, <3>2, <3>4, StatesApart
      <4> QED
        BY <1>2, <1>4, <4>1
    <3> QED
      BY <2>4, <3>1, <3>3, <3>4
  <2>5. /\ DOMAIN states' \subseteq Int
        /\ DOMAIN results' = 0..(Executions * ResultCapacity(chunkRows') - 1)
        /\ DOMAIN effectRecords' = 0..(Executions * EffectCapacity(chunkRows') - 1)
    BY <1>1, <1>3, <2>1 DEF NoResults, NoRecords
  <2>6. DOMAIN cache' = Bindings /\ cached' \subseteq 0..Len(Fixed) - 1
    BY <1>1
  <2>7. effectStatus' \in [Bindings -> [count : 0..EffectCapacity(chunkRows'), overflow : BOOLEAN]]
    BY <1>1, <2>1, CapacityNat
  <2>8. invocation' \in [Bindings -> [at : {"ready", "rows", "flush", "done"}, start : Nat, row : Nat, count : Nat]]
    BY <1>1 DEF Retired
  <2>9. chunkRows' > 0
    BY <2>1
  <2> QED
    BY <2>2, <2>3, <2>4, <2>5, <2>6, <2>7, <2>8, <2>9 DEF Packed
<1>7. ASSUME NEW e \in Bindings PROVE On(e)'
  <2>1. invocation'[e].at = "done" /\ ~Running'
    BY <1>1 DEF Retired, Opening, Running
  <2>2. Progress(e)' = 0
    BY <1>1, <2>1 DEF Progress, Opening
  <2>3. Invoked(e)'
    BY <2>1 DEF Invoked
  <2>4. MemoryIs(e)'
    BY <1>5, <2>1, <2>2 DEF MemoryIs
  <2>5. ResultsAre(e)' /\ RecordsAre(e)'
    BY <2>1 DEF ResultsAre, RecordsAre
  <2> QED
    BY <2>3, <2>4, <2>5 DEF On
<1> QED
  BY <1>6, <1>7 DEF DeviceIs

-----------------------------------------------------------------------------
(***************************************************************************)
(* What the session keeps: once there are buffers, the device is where the *)
(* host believes it to be, until a chunk fails; and what has been          *)
(* delivered is what the program means.                                    *)
(***************************************************************************)

Allotted ==
  /\ cached \subseteq 0..Len(Fixed) - 1
  /\ session \in {"compiling", "allocating"} => chunkRows # 0
  /\ buffers = "none" =>
       /\ effectStatus = NoStatus /\ invocation = Retired /\ DOMAIN cache = Bindings
       /\ session = "open" => chunkRows = 0
  /\ buffers # "none" /\ ~failed => DeviceIs

Told(e) ==
  /\ ~failed => cursors[e] <= Len(delivered[e])
  /\ \A i \in 1..Len(delivered[e]) : delivered[e][i] = RowMeaning(e, i - 1)
  /\ host = "deliver" => ~effectStatus[e].overflow

Meant == \A e \in Bindings : Told(e)

MeaningInv == SessionInv /\ Allotted /\ Meant

LEMMA MeaningSame ==
  ASSUME series' = series
  PROVE  \A e, row : RowMeaning(e, row)' = RowMeaning(e, row)
BY DEF RowMeaning

LEMMA MeantSame ==
  ASSUME Meant, UNCHANGED <<series, delivered>>, failed' \/ (failed' = failed /\ cursors' = cursors),
         host' = "deliver" => \A e \in Bindings : ~effectStatus'[e].overflow
  PROVE  Meant'
<1> SUFFICES ASSUME NEW e \in Bindings PROVE Told(e)'
  BY DEF Meant
<1>1. Told(e)
  BY DEF Meant
<1>2. ~failed' => cursors'[e] <= Len(delivered'[e])
  BY <1>1 DEF Told
<1>3. \A i \in 1..Len(delivered'[e]) : delivered'[e][i] = RowMeaning(e, i - 1)'
  <2>1. \A i : RowMeaning(e, i - 1)' = RowMeaning(e, i - 1)
    BY DEF RowMeaning
  <2> QED
    BY <1>1, <2>1 DEF Told
<1> QED
  BY <1>2, <1>3 DEF Told

(* The device rests while the host has a chunk in its hands.               *)
LEMMA Resting ==
  ASSUME DeviceIs, host # "device"
  PROVE  \A e \in Bindings : invocation[e].at = "done"
BY DEF DeviceIs, On, Invoked

LEMMA AllottedSame ==
  ASSUME Allotted, UNCHANGED <<series, chunkRows, device, cursors, failed>>, Running' = Running,
         host' = host \/ \A e \in Bindings : invocation[e].at = "done",
         buffers' = "none" <=> buffers = "none",
         session' \in {"compiling", "allocating"} => session = "compiling" \/ session = "allocating",
         buffers = "none" /\ session' = "open" => session = "open"
  PROVE  Allotted'
<1>1. UNCHANGED <<cached, jobs, states, cache, results, effectRecords, effectStatus, invocation>>
  BY DEF device
<1>2. buffers' # "none" /\ ~failed' => DeviceIs'
  <2> SUFFICES ASSUME buffers # "none", ~failed PROVE DeviceIs'
    OBVIOUS
  <2>1. DeviceIs
    BY DEF Allotted
  <2>2. \A e \in Bindings : invocation[e].at # "done" => host' = "device"
    BY <2>1 DEF DeviceIs, On, Invoked
  <2>3. Still /\ UNCHANGED <<cursors, results, effectRecords, effectStatus, invocation>>
    BY <1>1 DEF Still
  <2> QED
    BY <2>1, <2>2, <2>3, DeviceSame
<1>3. NoStatus' = NoStatus /\ Retired' = Retired
  BY DEF NoStatus, Retired
<1>4. cached' \subseteq 0..Len(Fixed) - 1
  BY <1>1 DEF Allotted
<1>5. session' \in {"compiling", "allocating"} => chunkRows' # 0
  BY DEF Allotted
<1>6. buffers' = "none" =>
       /\ effectStatus' = NoStatus /\ invocation' = Retired /\ DOMAIN cache' = Bindings
       /\ session' = "open" => chunkRows' = 0
  BY <1>1 DEF Allotted
<1> QED
  BY <1>2, <1>3, <1>4, <1>5, <1>6 DEF Allotted

(* An open session with rows to do has buffers. *)
LEMMA Furnished ==
  ASSUME SessionInv, Allotted, host # "idle" \/ (session = "open" /\ ~Done)
  PROVE  session = "open" /\ ~Done /\ chunkRows # 0 /\ buffers # "none"
<1>1. session = "open" /\ ~Done
  BY DEF SessionInv, Opening, Ending, Running
<1> QED
  BY <1>1 DEF Allotted, Done, Inert

-----------------------------------------------------------------------------

LEMMA OpeningSteps ==
  ASSUME MeaningInv, Plan \/ Planned \/ Compiled \/ Allocate \/ Open \/ OpenFails
  PROVE  Allotted' /\ Meant'
<1> USE DEF MeaningInv
<1>1. session # "open" /\ host = "idle" /\ ~failed
  BY DEF Plan, Planned, Compiled, Allocate, Open, OpenFails, SessionInv, Opening
<1>2. UNCHANGED <<series, host, owner, outbox, cursors, failed, delivered>>
  BY DEF Plan, Planned, Compiled, Allocate, Open, OpenFails, fixed, chunk
<1>3. Meant'
  BY <1>1, <1>2, MeantSame
<1>4. CASE Plan
  <2>1. session = "planning" /\ session' = session /\ buffers' = buffers /\ UNCHANGED device
    BY <1>4 DEF Plan
  <2>2. buffers = "none"
    BY <2>1 DEF SessionInv, Opening
  <2>3. NoStatus' = NoStatus /\ Retired' = Retired
    BY DEF NoStatus, Retired
  <2> QED
    BY <1>3, <2>1, <2>2, <2>3 DEF Allotted, device
<1>5. CASE Planned
  <2>1. /\ session = "planning" /\ buffers' = buffers /\ UNCHANGED <<effectStatus, invocation, cache, chunkRows>>
        /\ session' \in IF plan = "refused" THEN {"rejected"}
                        ELSE IF chunkRows = 0 THEN {"open", "rejected"} ELSE {"compiling"}
    BY <1>5 DEF Planned, search
  <2>2. buffers = "none"
    BY <2>1 DEF SessionInv, Opening
  <2>3. NoStatus' = NoStatus /\ Retired' = Retired
    BY DEF NoStatus, Retired
  <2>4. cached' \subseteq 0..Len(Fixed) - 1
    BY <1>5, CacheIs DEF Planned
  <2>5. /\ session' = "open" => chunkRows' = 0
        /\ session' \in {"compiling", "allocating"} => chunkRows' # 0
    BY <2>1
  <2> QED
    BY <1>3, <2>1, <2>2, <2>3, <2>4, <2>5 DEF Allotted
<1>6. CASE Compiled
  <2>1. session = "compiling" /\ session' \in {"allocating", "rejected"} /\ UNCHANGED <<buffers, device, chunkRows>>
    BY <1>6 DEF Compiled, search
  <2>2. Running' = Running
    BY <1>2 DEF Running
  <2>3. Allotted'
    BY <1>2, <2>1, <2>2, AllottedSame
  <2> QED
    BY <1>3, <2>3
<1>7. CASE Allocate
  <2>1. /\ session = "allocating" /\ session' = session /\ buffers = "none" /\ buffers' = "live"
        /\ UNCHANGED <<cached, chunkRows>>
    BY <1>7 DEF Allocate, search
  <2>2. DeviceIs'
    BY <1>7, <2>1, AllocateKeeps DEF Allotted, SessionInv
  <2>3. cached' \subseteq 0..Len(Fixed) - 1 /\ chunkRows' # 0
    BY <2>1 DEF Allotted
  <2>4. Allotted'
    BY <2>1, <2>2, <2>3 DEF Allotted
  <2> QED
    BY <1>3, <2>4
<1>8. CASE Open \/ OpenFails
  <2>1. /\ session = "allocating" /\ UNCHANGED <<device, chunkRows>>
        /\ \/ session' = "open" /\ buffers = "live" /\ buffers' = buffers
           \/ session' = "rejected" /\ buffers' = IF buffers = "none" THEN buffers ELSE "destroyed"
    BY <1>8 DEF Open, OpenFails, search
  <2>2. Running' = Running
    BY <1>2 DEF Running
  <2>3. Allotted'
    BY <1>2, <2>1, <2>2, AllottedSame
  <2> QED
    BY <1>3, <2>3
<1> QED
  BY <1>4, <1>5, <1>6, <1>7, <1>8

LEMMA DeviceSteps ==
  ASSUME Channels # 0, MeaningInv, NEW b \in Bindings, DeviceStep(b)
  PROVE  Allotted' /\ Meant'
<1> USE DEF MeaningInv
<1>1. UNCHANGED <<cached, series, chunkRows, session, buffers, host, cursors, failed, delivered>>
  BY DEF DeviceStep, Start, Row, EndRows, Flush, fixed, search, chunk
<1>2. invocation[b].at # "done"
  BY DEF DeviceStep, Start, Row, EndRows, Flush
<1>3. buffers # "none"
  BY <1>2 DEF Allotted, Retired
<1>4. ~failed => DeviceIs /\ DeviceIs'
  BY <1>3, DeviceKeeps DEF Allotted, SessionInv
<1>5. host # "deliver"
  <2>1. host = "deliver" => ~failed
    BY DEF SessionInv, Ending
  <2> QED
    BY <1>2, <1>4, <2>1 DEF DeviceIs, On, Invoked
<1>6. Allotted'
  <2>1. cached' \subseteq 0..Len(Fixed) - 1 /\ (session' \in {"compiling", "allocating"} => chunkRows' # 0)
    BY <1>1 DEF Allotted
  <2> QED
    BY <1>1, <1>3, <1>4, <2>1 DEF Allotted
<1> QED
  BY <1>1, <1>5, <1>6, MeantSame

LEMMA CallSteps ==
  ASSUME Channels # 0, MeaningInv, NEW c \in Callers, RunChunk(c) \/ RunAll(c) \/ Again(c)
  PROVE  Allotted' /\ Meant'
<1> USE DEF MeaningInv
<1>1. /\ UNCHANGED <<series, chunkRows, session, buffers>>
      /\ \/ UNCHANGED <<device, chunk>>
         \/ ~Done /\ ~failed /\ host = "idle" /\ \E kind \in {"chunk", "all"} : Dispatch(c, kind)
  <2>1. CASE RunChunk(c)
    BY <2>1 DEF RunChunk, Answer, Refused, Running, fixed, search
  <2>2. CASE RunAll(c)
    BY <2>2 DEF RunAll, Turn, Answer, Refused, Running, fixed, search
  <2>3. CASE Again(c)
    BY <2>3 DEF Again, Turn, Answer, Refused, Running, fixed, search
  <2> QED
    BY <2>1, <2>2, <2>3
<1>2. session = "open"
  BY DEF RunChunk, RunAll, Again, SessionInv, Opening
<1>3. CASE UNCHANGED <<device, chunk>>
  <2>1. UNCHANGED <<host, cursors, failed, delivered, effectStatus>> /\ Running' = Running
    BY <1>3 DEF device, chunk, Running
  <2>2. Allotted'
    BY <1>1, <1>3, <2>1, AllottedSame
  <2>3. \A e \in Bindings : host = "deliver" => ~effectStatus'[e].overflow
    BY <2>1 DEF Meant, Told
  <2> QED
    BY <1>1, <2>1, <2>2, <2>3, MeantSame
<1>4. ASSUME ~Done, ~failed, host = "idle", NEW kind \in {"chunk", "all"}, Dispatch(c, kind)
      PROVE  Allotted' /\ Meant'
  <2>1. chunkRows # 0 /\ buffers # "none"
    BY <1>2, <1>4, Furnished
  <2>2. DeviceIs'
    BY <1>1, <1>4, <2>1, DispatchKeeps DEF Allotted, SessionInv
  <2>3. UNCHANGED <<cached, cursors, failed, delivered>> /\ host' = "device"
    BY <1>4 DEF Dispatch
  <2>4. Allotted'
    <3>1. cached' \subseteq 0..Len(Fixed) - 1
      BY <2>3 DEF Allotted
    <3> QED
      BY <1>1, <1>2, <2>1, <2>2, <3>1 DEF Allotted
  <2> QED
    BY <1>1, <2>3, <2>4, MeantSame
<1> QED
  BY <1>1, <1>3, <1>4

LEMMA FailureSteps ==
  ASSUME MeaningInv, host # "idle", ChunkFails, UNCHANGED <<cached, chunkRows, series, session, buffers>>,
         \A e \in Bindings : \A i \in 1..Len(delivered'[e]) : delivered'[e][i] = RowMeaning(e, i - 1)
  PROVE  Allotted' /\ Meant'
<1> USE DEF MeaningInv
<1>1. host' = "idle" /\ failed' = TRUE
  BY DEF ChunkFails
<1>2. session = "open" /\ buffers # "none"
  BY Furnished
<1>3. Allotted'
  BY <1>1, <1>2 DEF Allotted
<1>4. ASSUME NEW e \in Bindings PROVE Told(e)'
  <2>1. \A i : RowMeaning(e, i - 1)' = RowMeaning(e, i - 1)
    BY DEF RowMeaning
  <2> QED
    BY <1>1, <2>1 DEF Told
<1> QED
  BY <1>3, <1>4 DEF Meant

LEMMA ReadSteps ==
  ASSUME MeaningInv, ReadBack \/ ReadFails
  PROVE  Allotted' /\ Meant'
<1> USE DEF MeaningInv
<1>1. CASE ReadBack
  <2>1. /\ host = "device" /\ host' = "read" /\ \A e \in Bindings : invocation[e].at = "done"
        /\ UNCHANGED <<series, chunkRows, device, cursors, failed, delivered, buffers, session>>
    BY <1>1 DEF ReadBack, fixed, search
  <2>2. Running' = Running
    BY <2>1 DEF Running
  <2>3. Allotted'
    BY <2>1, <2>2, AllottedSame
  <2> QED
    BY <2>1, <2>3, MeantSame
<1>2. CASE ReadFails
  <2>1. /\ host = "device" /\ ChunkFails
        /\ UNCHANGED <<cached, chunkRows, series, session, buffers, delivered>>
    BY <1>2 DEF ReadFails, fixed, search
  <2>2. \A e \in Bindings : \A i \in 1..Len(delivered'[e]) : delivered'[e][i] = RowMeaning(e, i - 1)
    BY <2>1 DEF Meant, Told
  <2> QED
    BY <2>1, <2>2, FailureSteps
<1> QED
  BY <1>1, <1>2

LEMMA PublishSteps ==
  ASSUME MeaningInv, Publish
  PROVE  Allotted' /\ Meant'
<1> USE DEF MeaningInv
<1>1. host = "read" /\ UNCHANGED <<cached, chunkRows, series, session, buffers, delivered, device>>
  BY DEF Publish, fixed, search, device
<1>2. CASE Invalid
  <2>1. ChunkFails
    BY <1>2 DEF Publish
  <2>2. \A e \in Bindings : \A i \in 1..Len(delivered'[e]) : delivered'[e][i] = RowMeaning(e, i - 1)
    BY <1>1 DEF Meant, Told
  <2> QED
    BY <1>1, <2>1, <2>2, FailureSteps
<1>3. CASE ~Invalid
  <2>1. host' = "deliver" /\ UNCHANGED <<cursors, failed>>
    BY <1>3 DEF Publish
  <2>2. Running' = Running
    BY <1>1, <2>1 DEF Running
  <2>3. \A e \in Bindings : invocation[e].at = "done"
    <3>1. ~failed /\ buffers # "none"
      BY <1>1, Furnished DEF SessionInv, Ending
    <3> QED
      BY <1>1, <3>1, Resting DEF Allotted
  <2>4. Allotted'
    BY <1>1, <2>1, <2>2, <2>3, AllottedSame
  <2>5. \A e \in Bindings : ~effectStatus'[e].overflow
    BY <1>1, <1>3 DEF Invalid, device
  <2> QED
    BY <1>1, <2>1, <2>4, <2>5, MeantSame
<1> QED
  BY <1>2, <1>3

(* What a row's datum is made of is what the program means.                *)
LEMMA DatumIs ==
  ASSUME SessionInv, DeviceIs, host = "deliver", NEW b \in Bindings, NEW row \in Nat,
         cursors[b] <= row, row < ChunkEnd(b), ~effectStatus[b].overflow
  PROVE  Datum(b, row) = RowMeaning(b, row)
<1>1. invocation[b].at = "done" /\ Running /\ On(b) /\ Packed
  BY Resting DEF DeviceIs, Running
<1>2. Progress(b) = ChunkEnd(b)
  BY <1>1 DEF Progress
<1>3. cursors[b] \in Nat /\ ChunkSize(b) \in Nat /\ ChunkEnd(b) = cursors[b] + ChunkSize(b)
  BY ChunkIs DEF SessionInv, ChunkEnd
<1>4. results[jobs[b].resultOffset + (row - cursors[b]) * Channels] = RowMeaning(b, row).out
  <2> DEFINE j == row - cursors[b]
  <2>1. j \in 0..ChunkSize(b) - 1 /\ cursors[b] + j = row
    BY <1>3
  <2> HIDE DEF j
  <2>2. results[Cell(b, j)] = RowMeaning(b, row).out
    BY <1>1, <1>2, <2>1 DEF On, ResultsAre
  <2>3. jobs[b].resultOffset = (b - 1) * ResultCapacity(chunkRows)
    BY <1>1, BindingIs DEF SessionInv
  <2> QED
    BY <2>2, <2>3 DEF Cell, j
<1>5. FlattenSeq(OfRow(b, row)) = RowMeaning(b, row).effects
  <2>1. row \in cursors[b]..Progress(b) - 1
    BY <1>2, <1>3
  <2> QED
    BY <1>1, <2>1 DEF On, RecordsAre
<1>6. RowMeaning(b, row) = [row |-> row, out |-> RowMeaning(b, row).out, effects |-> RowMeaning(b, row).effects]
  BY DEF RowMeaning
<1> QED
  BY <1>4, <1>5, <1>6 DEF Datum, OfRow

LEMMA DeliverSteps ==
  ASSUME MeaningInv, Deliver
  PROVE  Allotted' /\ Meant'
<1> DEFINE b == outbox[1].binding
           row == outbox[1].row
           x == Datum(b, row)
<1> USE DEF MeaningInv
<1>1. /\ host = "deliver" /\ outbox # <<>>
      /\ UNCHANGED <<cached, chunkRows, series, session, buffers, device>>
  BY DEF Deliver, fixed, search, device
<1>2. /\ b \in Bindings /\ row = Len(delivered[b]) /\ row \in Nat /\ row < ChunkEnd(b)
      /\ Head(outbox) = outbox[1]
  BY <1>1, NextRow
<1>3. delivered' = [delivered EXCEPT ![b] = Append(@, x)]
  BY <1>2 DEF Deliver
<1>4. ~failed /\ buffers # "none"
  BY <1>1, Furnished DEF SessionInv, Ending
<1>5. x = RowMeaning(b, row)
  <2>1. DeviceIs /\ Told(b)
    BY <1>2, <1>4 DEF Allotted, Meant
  <2>2. cursors[b] <= row /\ ~effectStatus[b].overflow
    BY <1>1, <1>2, <1>4, <2>1 DEF Told
  <2> QED
    BY <1>1, <1>2, <2>1, <2>2, DatumIs
<1> HIDE DEF x, row, b
<1>6. /\ delivered'[b] = Append(delivered[b], x)
      /\ \A e \in Bindings : e # b => delivered'[e] = delivered[e]
  BY <1>2, <1>3 DEF SessionInv, Deliveries
<1>7. /\ Len(delivered'[b]) = row + 1
      /\ \A i \in 1..row : delivered'[b][i] = delivered[b][i]
      /\ delivered'[b][row + 1] = x
  BY <1>2, <1>6, AppendKeeps DEF SessionInv, Deliveries
<1>8. ASSUME NEW e \in Bindings
      PROVE  \A i \in 1..Len(delivered'[e]) : delivered'[e][i] = RowMeaning(e, i - 1)
  <2>1. Told(e)
    BY DEF Meant
  <2>2. CASE e # b
    BY <1>6, <2>1, <2>2 DEF Told
  <2>3. CASE e = b
    <3> SUFFICES ASSUME NEW i \in 1..row + 1 PROVE delivered'[b][i] = RowMeaning(b, i - 1)
      BY <1>7, <2>3
    <3>1. CASE i = row + 1
      <4>1. i - 1 = row
        BY <1>2, <3>1
      <4> QED
        BY <1>5, <1>7, <3>1, <4>1
    <3>2. CASE i # row + 1
      <4>1. i \in 1..row
        BY <1>2, <3>2
      <4> QED
        BY <1>2, <1>7, <2>1, <2>3, <4>1 DEF Told
    <3> QED
      BY <3>1, <3>2
  <2> QED
    BY <2>2, <2>3
<1>9. CASE ChunkFails
  BY <1>1, <1>8, <1>9, FailureSteps
<1>10. CASE UNCHANGED <<host, cursors, failed>>
  <2>1. Running' = Running
    BY <1>10 DEF Running
  <2>2. Allotted'
    BY <1>1, <1>10, <2>1, AllottedSame
  <2>3. ASSUME NEW e \in Bindings PROVE Told(e)'
    <3>1. Told(e) /\ effectStatus' = effectStatus
      BY <1>1 DEF Meant, device
    <3>2. cursors'[e] <= Len(delivered'[e])
      <4>1. cursors[e] <= Len(delivered[e])
        BY <1>4, <3>1 DEF Told
      <4>2. cursors[e] \in Nat
        BY ChunkIs DEF SessionInv
      <4> QED
        BY <1>2, <1>6, <1>7, <1>10, <4>1, <4>2
    <3>3. \A i : RowMeaning(e, i - 1)' = RowMeaning(e, i - 1)
      BY <1>1 DEF RowMeaning
    <3> QED
      BY <1>8, <1>10, <3>1, <3>2, <3>3 DEF Told
  <2> QED
    BY <2>2, <2>3 DEF Meant
<1> QED
  BY <1>9, <1>10 DEF Deliver

LEMMA FinishSteps ==
  ASSUME MeaningInv, FinishChunk, SessionInv'
  PROVE  Allotted' /\ Meant'
<1> USE DEF MeaningInv
<1>1. /\ host = "deliver" /\ host' = "idle"
      /\ UNCHANGED <<cached, chunkRows, series, session, buffers, failed, delivered>>
  BY DEF FinishChunk, fixed, search, device
<1>2. ~failed /\ buffers # "none"
  BY <1>1, Furnished DEF SessionInv, Ending
<1>3. DeviceIs'
  BY <1>2, FinishSettles DEF Allotted, SessionInv
<1>4. Allotted'
  <2>1. cached' \subseteq 0..Len(Fixed) - 1 /\ (session' \in {"compiling", "allocating"} => chunkRows' # 0)
    BY <1>1 DEF Allotted
  <2> QED
    BY <1>1, <1>2, <1>3, <2>1 DEF Allotted
<1>5. ASSUME NEW e \in Bindings PROVE Told(e)'
  <2>1. Told(e)
    BY DEF Meant
  <2>2. Len(delivered'[e]) = cursors'[e] /\ cursors'[e] \in Nat
    BY <1>1, <1>2 DEF SessionInv, Deliveries, Typed, TypeOK
  <2>3. \A i : RowMeaning(e, i - 1)' = RowMeaning(e, i - 1)
    BY <1>1 DEF RowMeaning
  <2>4. cursors'[e] <= Len(delivered'[e])
    BY <2>2
  <2> QED
    BY <1>1, <2>1, <2>3, <2>4 DEF Told
<1> QED
  BY <1>4, <1>5 DEF Meant

LEMMA StillSteps ==
  ASSUME MeaningInv, Dispose \/ UNCHANGED vars
  PROVE  Allotted' /\ Meant'
<1> USE DEF MeaningInv
<1>1. /\ UNCHANGED <<series, chunkRows, device, host, cursors, failed, delivered, session, effectStatus>>
      /\ buffers' = "none" <=> buffers = "none"
  BY DEF Dispose, vars, fixed, search, chunk, device
<1>2. Running' = Running
  BY <1>1 DEF Running
<1>3. Allotted'
  BY <1>1, <1>2, AllottedSame
<1>4. host = "deliver" => \A e \in Bindings : ~effectStatus'[e].overflow
  BY <1>1 DEF Meant, Told
<1> QED
  BY <1>1, <1>3, <1>4, MeantSame

LEMMA MeaningInitInv == SessionGiven /\ PlannerInit /\ SessionInit => MeaningInv
<1> SUFFICES ASSUME SessionGiven, PlannerInit, SessionInit PROVE MeaningInv
  OBVIOUS
<1>1. SessionInv
  BY SessionInitInv
<1>2. Len(Fixed) \in Nat
  BY FixedIs
<1>3. Allotted
  BY <1>2 DEF SessionInit, Allotted
<1>4. ASSUME NEW e \in Bindings PROVE Told(e)
  BY DEF SessionInit, Told
<1> QED
  BY <1>1, <1>3, <1>4 DEF MeaningInv, Meant

LEMMA MeaningStepInv ==
  ASSUME Channels # 0
  PROVE  MeaningInv /\ [Next]_vars => MeaningInv'
<1> SUFFICES ASSUME MeaningInv, [Next]_vars PROVE MeaningInv'
  OBVIOUS
<1>1. SessionInv'
  BY SessionStepInv DEF MeaningInv
<1>2. CASE Plan \/ Planned \/ Compiled \/ Allocate \/ Open \/ OpenFails
  BY <1>1, <1>2, OpeningSteps DEF MeaningInv
<1>3. CASE \E e \in Bindings : DeviceStep(e)
  BY <1>1, <1>3, DeviceSteps DEF MeaningInv
<1>4. CASE \E c \in Callers : RunChunk(c) \/ RunAll(c) \/ Again(c)
  BY <1>1, <1>4, CallSteps DEF MeaningInv
<1>5. CASE ReadBack \/ ReadFails
  BY <1>1, <1>5, ReadSteps DEF MeaningInv
<1>6. CASE HostStep
  BY <1>1, <1>6, PublishSteps, DeliverSteps, FinishSteps DEF HostStep, MeaningInv
<1>7. CASE Dispose \/ UNCHANGED vars
  BY <1>1, <1>7, StillSteps DEF MeaningInv
<1> QED
  BY <1>2, <1>3, <1>4, <1>5, <1>6, <1>7 DEF Next

LEMMA InStepThen ==
  ASSUME MeaningInv
  PROVE  DeviceInStep
<1> SUFFICES ASSUME buffers = "live", host = "idle", ~failed, NEW e \in Bindings
             PROVE  states[NextRowWord(e)] = cursors[e]
  BY DEF DeviceInStep
<1>1. DeviceIs /\ Typed
  BY DEF MeaningInv, Allotted, SessionInv
<1>2. Packed /\ MemoryIs(e) /\ invocation[e].at = "done" /\ ~Running
  BY <1>1, Resting DEF DeviceIs, On, Running
<1>3. Progress(e) = cursors[e] /\ NextRowOf(e) = cursors[e] /\ Seen(e) = states
  BY <1>2 DEF Progress, NextRowOf, Seen
<1>4. CASE Fresh(states, Base(e), Rows(e)) /\ Progress(e) = 0
  <2>1. /\ Rows(e) \in Nat /\ StateWords(Rows(e)) \in Nat /\ Len(Fixed) \in Nat /\ Len(Fixed) <= StateWords(Rows(e))
    BY <1>1, <1>2, BindingIs
  <2>2. Laid(<<"nextRow">>) /\ WordOffset[<<"nextRow">>] \in 0..StateWords(Rows(e)) - 1
    <3>1. Laid(<<"nextRow">>)
      BY WordsLaid
    <3>2. WordOffset[<<"nextRow">>] \in 0..Len(Fixed) - 1
      BY <3>1 DEF Laid
    <3> QED
      BY <2>1, <3>1, <3>2
  <2>3. InitialState(Rows(e))[WordOffset[<<"nextRow">>]] = 0
    <3>1. \A l : <<"nextRow">> # <<"historyBase", l>> /\ <<"nextRow">> # <<"historyCapacity", l>>
      OBVIOUS
    <3> QED
      BY <2>1, <2>2, <3>1, InitialIs
  <2> QED
    BY <1>3, <1>4, <2>2, <2>3 DEF Fresh, NextRowWord
<1>5. CASE Held(Seen(e), Base(e), series[e], Progress(e), NextRowOf(e))
  BY <1>3, <1>5 DEF Held, NextRowWord
<1> QED
  BY <1>2, <1>4, <1>5 DEF MemoryIs

(* Every datum a binding is given is what the program means for that row   *)
(* of its own series, in order and none left out, and between chunks the   *)
(* device stands at the row the host counts: for every program whose       *)
(* output has channels, every layout of its state and choice of what is    *)
(* cached, every series and chunk, and every interleaving of the           *)
(* invocations, the host, its callers and dispose().                       *)
THEOREM RowsMean ==
  ASSUME Channels # 0
  PROVE  SessionSpec => []RowsMeanTheProgram
<1>1. SessionGiven /\ PlannerInit /\ SessionInit => MeaningInv
  BY MeaningInitInv
<1>2. MeaningInv /\ [Next]_vars => MeaningInv'
  BY MeaningStepInv
<1>3. MeaningInv /\ RowsInOrder => RowsMeanTheProgram
  <2> SUFFICES ASSUME MeaningInv, RowsInOrder PROVE RowsMeanTheProgram
    OBVIOUS
  <2>1. TypeOK
    BY DEF MeaningInv, SessionInv, Typed
  <2>2. ASSUME NEW e \in Bindings
        PROVE  delivered[e] = [i \in 1..Len(delivered[e]) |-> RowMeaning(e, i - 1)]
    <3>1. \A i \in 1..Len(delivered[e]) : delivered[e][i] = RowMeaning(e, i - 1)
      BY DEF MeaningInv, Meant, Told
    <3>2. delivered[e] = [i \in 1..Len(delivered[e]) |-> delivered[e][i]]
      <4> DEFINE S == {delivered[e][i] : i \in DOMAIN delivered[e]}
      <4>1. delivered[e] \in Seq(S)
        BY DEF MeaningInv, SessionInv, Deliveries, IsSeq
      <4> HIDE DEF S
      <4> QED
        BY <4>1
    <3> QED
      BY <3>1, <3>2
  <2>3. DeviceInStep
    BY InStepThen
  <2> QED
    BY <2>1, <2>2, <2>3 DEF RowsMeanTheProgram
<1> QED
  BY <1>1, <1>2, <1>3, InOrder, PTL DEF SessionSpec

=============================================================================
