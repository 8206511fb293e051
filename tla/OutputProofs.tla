---------------------------- MODULE OutputProofs ----------------------------
(***************************************************************************)
(* What a Node's run and its two sinks keep.                               *)
(*                                                                         *)
(* A run, for any set of observers and any number of data, whatever the    *)
(* observers do from within a delivery.  While a delivery is under way the *)
(* observers it has yet to reach are one datum behind the others; and a    *)
(* run that ends while to() is still subscribing is released when          *)
(* subscribe() returns.                                                    *)
(*                                                                         *)
(* The WebSocket sink, for every capacity, high-water mark and number of   *)
(* rows, whatever the socket does and when.  A step sends rows from the    *)
(* queue to the socket, which does not change the stream, or writes a row, *)
(* which puts the newest number at the end of what is left of the queue.   *)
(*                                                                         *)
(* The file of a batch, for any number of rows, whichever of them the sink *)
(* rejects, and whatever fails.  As long as the sink has not failed, what  *)
(* the file holds and what is on its way to it are what a complete run     *)
(* leaves.                                                                 *)
(***************************************************************************)
EXTENDS NodeRun, WebSocketSink, BatchRecipe, SequenceTheorems, TLAPS

Attached == ToSet(observers)
ToReach == ToSet(emitting)

(* The data after the first j, up to the d-th. *)
Since(j, d) == [k \in 1..d - j |-> j + k]

(* Two lists of distinct observers, and what each observer received. *)
Typed ==
  /\ NodeTypeOK
  /\ observers \in Seq(Observers)
  /\ emitting \in Seq(Observers) /\ IsInjective(emitting)
  /\ got \in [Observers -> Seq(1..MaxEmits)]

(* One run is built, by the first to(), and the Node holds its connection   *)
(* from when subscribe() returned.                                         *)
OneRun ==
  /\ runs = IF started THEN 1 ELSE 0
  /\ connection <=> started /\ ~subscribing
  /\ subscribing => started
  /\ ~started => execution = "none" /\ context = "none" /\ ~source /\ Idle

(* A registered observer has what was emitted since, but the last datum if *)
(* the delivery has yet to reach it; one that is not has nothing.          *)
Received ==
  /\ \A o \in Attached :
       /\ joined[o] <= data
       /\ o \in ToReach => joined[o] < data
       /\ got[o] = Since(joined[o], IF o \in ToReach THEN data - 1 ELSE data)
  /\ \A o \in Observers \ Attached :
       ended[o] = "no" => got[o] = <<>> /\ o \notin ToReach

(* An output that has ended keeps its Context only until subscribe()        *)
(* returns; an input that emits after it was subscribed is released.       *)
Released ==
  /\ results # "open" => started \/ disposed
  /\ (results # "open" /\ context = "live") => execution = "closed" /\ subscribing
  /\ ~syncSource /\ subscribing => Idle /\ ~disposed
  /\ ~syncSource /\ disposed => ~source

RunInv == Typed /\ OneRun /\ Received /\ Released

-----------------------------------------------------------------------------
(***************************************************************************)
(* Lists of distinct elements.                                             *)
(***************************************************************************)

(* An element put at the end of a list it is not in. *)
LEMMA Appended ==
  ASSUME NEW S, NEW s \in Seq(S), NEW x \in S
  PROVE  /\ Append(s, x) \in Seq(S) /\ ToSet(Append(s, x)) = ToSet(s) \cup {x}
         /\ IsInjective(s) /\ x \notin ToSet(s) => IsInjective(Append(s, x))
<1> DEFINE t == Append(s, x)
<1>1. /\ t \in Seq(S) /\ Len(t) = Len(s) + 1 /\ DOMAIN t = 1..Len(s) + 1
      /\ \A i \in 1..Len(s) : t[i] = s[i]
      /\ t[Len(s) + 1] = x /\ Len(s) \in Nat /\ DOMAIN s = 1..Len(s)
  BY AppendProperties
<1> HIDE DEF t
<1>2. ToSet(t) = ToSet(s) \cup {x}
  <2>1. 1..Len(s) + 1 = (1..Len(s)) \cup {Len(s) + 1}
    BY <1>1
  <2> QED
    BY <1>1, <2>1 DEF ToSet
<1>3. ASSUME IsInjective(s), x \notin ToSet(s) PROVE IsInjective(t)
  BY <1>1, <1>3 DEF IsInjective, ToSet
<1> QED
  BY <1>1, <1>2, <1>3 DEF t

(* The first element taken off. *)
LEMMA Taken ==
  ASSUME NEW S, NEW s \in Seq(S), s # <<>>, IsInjective(s)
  PROVE  /\ Tail(s) \in Seq(S) /\ IsInjective(Tail(s))
         /\ Head(s) \in S /\ ToSet(s) \subseteq S
         /\ ToSet(Tail(s)) = ToSet(s) \ {Head(s)} /\ Head(s) \in ToSet(s)
<1> DEFINE t == Tail(s)
<1>1. /\ t \in Seq(S) /\ Len(s) \in Nat \ {0} /\ Len(t) = Len(s) - 1
      /\ DOMAIN t = 1..Len(s) - 1 /\ DOMAIN s = 1..Len(s)
      /\ \A i \in 1..Len(s) - 1 : t[i] = s[i + 1]
      /\ Head(s) = s[1] /\ \A i \in 1..Len(s) : s[i] \in S
  BY EmptySeq, HeadTailProperties, ElementOfSeq, LenProperties
<1> HIDE DEF t
<1>2. ToSet(t) = ToSet(s) \ {s[1]}
  <2>1. ASSUME NEW i \in 1..Len(s) - 1 PROVE t[i] \in ToSet(s) \ {s[1]}
    <3>1. i + 1 \in 1..Len(s) /\ i + 1 # 1 /\ 1 \in 1..Len(s)
      BY <1>1
    <3> QED
      BY <1>1, <3>1 DEF ToSet, IsInjective
  <2>2. ASSUME NEW i \in 1..Len(s), s[i] # s[1] PROVE s[i] \in ToSet(t)
    <3>1. i - 1 \in 1..Len(s) - 1 /\ t[i - 1] = s[i]
      BY <1>1, <2>2
    <3> QED
      BY <1>1, <3>1 DEF ToSet
  <2> QED
    BY <1>1, <2>1, <2>2 DEF ToSet
<1>3. IsInjective(t)
  <2> SUFFICES ASSUME NEW i \in 1..Len(s) - 1, NEW j \in 1..Len(s) - 1, t[i] = t[j] PROVE i = j
    BY <1>1 DEF IsInjective
  <2>1. i + 1 \in 1..Len(s) /\ j + 1 \in 1..Len(s) /\ s[i + 1] = s[j + 1]
    BY <1>1
  <2> QED
    BY <1>1, <2>1 DEF IsInjective
<1> QED
  BY <1>1, <1>2, <1>3 DEF t, ToSet

(* One taken out. *)
LEMMA Removed ==
  ASSUME NEW S, NEW s \in Seq(S), IsInjective(s), NEW i \in 1..Len(s)
  PROVE  /\ RemoveAt(s, i) \in Seq(S) /\ IsInjective(RemoveAt(s, i))
         /\ ToSet(RemoveAt(s, i)) = ToSet(s) \ {s[i]}
<1> DEFINE t == RemoveAt(s, i)
           at(k) == IF k < i THEN k ELSE k + 1
<1>1. Len(s) \in Nat /\ DOMAIN s = 1..Len(s) /\ \A k \in 1..Len(s) : s[k] \in S
  BY ElementOfSeq
<1>2. t \in Seq(S) /\ DOMAIN t = 1..Len(s) - 1 /\ \A k \in 1..Len(s) - 1 : t[k] = s[at(k)]
  <2> DEFINE a == SubSeq(s, 1, i - 1)
             b == SubSeq(s, i + 1, Len(s))
  <2>1. a \in Seq(S) /\ Len(a) = i - 1 /\ \A k \in 1..i - 1 : a[k] = s[k]
    BY <1>1
  <2>2. b \in Seq(S) /\ Len(b) = Len(s) - i /\ \A k \in 1..Len(s) - i : b[k] = s[i + k]
    <3>1. i + 1 \in Int /\ Len(s) \in Int /\ \A k \in (i + 1)..Len(s) : s[k] \in S
      BY <1>1
    <3>2. /\ b \in Seq(S) /\ Len(b) = IF i + 1 <= Len(s) THEN Len(s) - (i + 1) + 1 ELSE 0
          /\ \A k \in 1..Len(s) - (i + 1) + 1 : b[k] = s[(i + 1) + k - 1]
      BY <3>1, SubSeqProperties
    <3> HIDE DEF b
    <3>3. Len(b) = Len(s) - i
      <4>1. Len(s) \in Int /\ i \in Int /\ i <= Len(s)
        BY <1>1
      <4>2. Len(b) = IF i + 1 <= Len(s) THEN Len(s) - (i + 1) + 1 ELSE 0
        BY <3>2
      <4> QED
        BY <4>1, <4>2
    <3>4. ASSUME NEW k \in 1..Len(s) - i PROVE b[k] = s[i + k]
      <4>1. k \in 1..Len(s) - (i + 1) + 1 /\ (i + 1) + k - 1 = i + k
        BY <1>1
      <4> QED
        BY <3>2, <4>1
    <3> QED
      BY <3>2, <3>3, <3>4
  <2>3. t = a \o b
    BY DEF RemoveAt
  <2> HIDE DEF t, a, b
  <2>4. /\ t \in Seq(S) /\ Len(t) = (i - 1) + (Len(s) - i)
        /\ \A k \in 1..(i - 1) + (Len(s) - i) : t[k] = IF k <= i - 1 THEN a[k] ELSE b[k - (i - 1)]
    <3>1. /\ a \o b \in Seq(S) /\ Len(a \o b) = Len(a) + Len(b)
          /\ \A k \in 1..Len(a) + Len(b) :
               (a \o b)[k] = IF k <= Len(a) THEN a[k] ELSE b[k - Len(a)]
      BY <2>1, <2>2, ConcatProperties
    <3>2. Len(a) = i - 1 /\ Len(b) = Len(s) - i
      BY <2>1, <2>2
    <3> QED
      BY <2>3, <3>1, <3>2, Zenon
  <2>5. (i - 1) + (Len(s) - i) = Len(s) - 1
    BY <1>1
  <2>6. ASSUME NEW k \in 1..Len(s) - 1 PROVE t[k] = s[at(k)]
    <3>1. CASE k < i
      <4>1. k \in 1..i - 1 /\ k <= i - 1 /\ at(k) = k
        BY <3>1
      <4> QED
        BY <2>1, <2>4, <2>5, <4>1
    <3>2. CASE ~(k < i)
      <4>1. /\ k - (i - 1) \in 1..Len(s) - i /\ i + (k - (i - 1)) = k + 1
            /\ ~(k <= i - 1) /\ at(k) = k + 1
        BY <1>1, <3>2
      <4> QED
        BY <2>2, <2>4, <2>5, <4>1
    <3> QED
      BY <3>1, <3>2
  <2> QED
    BY <2>4, <2>5, <2>6, LenProperties
<1> HIDE DEF t
<1>3. \A k \in 1..Len(s) - 1 : at(k) \in 1..Len(s) \ {i}
  BY <1>1
<1>4. \A k, l \in 1..Len(s) - 1 : at(k) = at(l) => k = l
  BY <1>1
<1>5. \A j \in 1..Len(s) \ {i} : \E k \in 1..Len(s) - 1 : at(k) = j
  <2> TAKE j \in 1..Len(s) \ {i}
  <2> DEFINE k == IF j < i THEN j ELSE j - 1
  <2>1. k \in 1..Len(s) - 1 /\ at(k) = j
    BY <1>1
  <2> QED
    BY <2>1
<1> HIDE DEF at
<1>6. IsInjective(t)
  BY <1>1, <1>2, <1>3, <1>4 DEF IsInjective
<1>7. ToSet(t) = ToSet(s) \ {s[i]}
  <2>1. ASSUME NEW k \in 1..Len(s) - 1 PROVE t[k] \in ToSet(s) \ {s[i]}
    BY <1>1, <1>2, <1>3 DEF ToSet, IsInjective
  <2>2. ASSUME NEW j \in 1..Len(s), s[j] # s[i] PROVE s[j] \in ToSet(t)
    <3>1. PICK k \in 1..Len(s) - 1 : at(k) = j
      BY <1>5, <2>2
    <3> QED
      BY <1>2, <3>1 DEF ToSet
  <2> QED
    BY <1>1, <1>2, <2>1, <2>2 DEF ToSet
<1> QED
  BY <1>2, <1>6, <1>7 DEF t

-----------------------------------------------------------------------------
(***************************************************************************)
(* What the steps share.                                                   *)
(***************************************************************************)

(* The flags and histories a step must leave typed. *)
Flags ==
  /\ {syncSource, started, disposed, subscribing, connection, source} \subseteq BOOLEAN
  /\ execution \in {"none", "live", "closed"} /\ context \in {"none", "live", "disposed"}
  /\ results \in {"open", "failed", "completed"}
  /\ ended \in [Observers -> {"no", "failed", "completed", "unsubscribed"}]
  /\ calling \in Observers \cup {NoObserver}
  /\ data \in 0..MaxEmits /\ joined \in [Observers -> 0..MaxEmits]
  /\ runs \in 0..1

(* The observers registered, each once and none that has ended. *)
Registry ==
  /\ observers \in Seq(Observers) /\ IsInjective(observers)
  /\ Attached \subseteq {o \in Observers : ended[o] = "no"}

Queue == emitting \in Seq(Observers) /\ IsInjective(emitting)

Inboxes == got \in [Observers -> Seq(1..MaxEmits)]

LEMMA TypedParts == Typed <=> Flags /\ Registry /\ Queue /\ Inboxes
<1>1. ASSUME emitting \in Seq(Observers) PROVE ToSet(emitting) \subseteq Observers
  BY <1>1, ElementOfSeq, LenProperties DEF ToSet
<1>2. ASSUME got \in [Observers -> Seq(1..MaxEmits)]
      PROVE  \A o \in Observers : ToSet(got[o]) \subseteq 1..MaxEmits
  <2> TAKE o \in Observers
  <2>1. got[o] \in Seq(1..MaxEmits)
    BY <1>2
  <2> QED
    BY <2>1, ElementOfSeq, LenProperties DEF ToSet
<1> QED
  BY <1>1, <1>2 DEF Typed, NodeTypeOK, Flags, Registry, Queue, Inboxes, Attached

(* An output that ends has no observer, and its observers have ended. *)
LEMMA Ends ==
  ASSUME Flags, Registry, NEW how \in {"failed", "completed"}, EndResults(how)
  PROVE  /\ results' \in {"failed", "completed"} /\ Registry'
         /\ ended' \in [Observers -> {"no", "failed", "completed", "unsubscribed"}]
         /\ Attached' \subseteq Attached
         /\ \A o \in Observers \ Attached' : ended'[o] = "no" => o \notin Attached /\ ended[o] = "no"
<1>1. CASE results = "open"
  <2>1. results' = how /\ observers' = <<>> /\ ended' = EndedBy(how)
    BY <1>1 DEF EndResults
  <2>2. observers' \in Seq(Observers) /\ IsInjective(observers') /\ Attached' = {}
    BY <2>1 DEF IsInjective, Attached, ToSet
  <2>3. \A o \in Observers : ended'[o] = IF o \in Attached THEN how ELSE ended[o]
    BY <2>1 DEF EndedBy, Attached
  <2>4. ended' \in [Observers -> {"no", "failed", "completed", "unsubscribed"}]
    BY <2>1 DEF EndedBy, Flags
  <2> QED
    BY <2>1, <2>2, <2>3, <2>4 DEF Registry
<1>2. CASE results # "open"
  <2>1. UNCHANGED <<results, observers, ended>>
    BY <1>2 DEF EndResults, subject
  <2> QED
    BY <1>2, <2>1 DEF Flags, Registry, Attached
<1> QED
  BY <1>1, <1>2

(* When observers leave between or during deliveries, those that stay have *)
(* received what they had.                                                 *)
LEMMA LeavingKeeps ==
  ASSUME Received, UNCHANGED <<emitting, data, got, joined>>, Attached' \subseteq Attached,
         \A o \in Observers \ Attached' : ended'[o] = "no" => o \notin Attached /\ ended[o] = "no"
  PROVE  Received'
<1> QED
  BY DEF Received, ToReach

LEMMA SameKeeps ==
  ASSUME RunInv, UNCHANGED nodeVars
  PROVE  RunInv'
<1>1. UNCHANGED <<syncSource, started, disposed, subscribing, connection, execution, context, source,
                  results, observers, ended, emitting, calling, data, got, joined, runs>>
  BY DEF nodeVars, nodeState, pipeline, subject, delivery, history
<1> QED
  BY <1>1 DEF RunInv, Typed, NodeTypeOK, OneRun, Received, Released, Attached, ToReach, Idle

-----------------------------------------------------------------------------
(***************************************************************************)
(* The calls.                                                              *)
(***************************************************************************)

LEMMA ToKeeps ==
  ASSUME RunInv, NEW o \in Observers, To(o)
  PROVE  RunInv'
<1>1. Flags /\ Registry /\ Queue /\ Inboxes
  BY TypedParts DEF RunInv
<1>2. UNCHANGED <<syncSource, disposed, connection, results, calling, data, got, emitting>>
  BY DEF To, JoinsLater
<1>3. ended[o] = "no" /\ o \notin Attached /\ ~disposed /\ joined' = [joined EXCEPT ![o] = data]
  BY DEF To, Attached
<1>4. \/ observers' = Append(observers, o) /\ ended' = ended /\ results = "open"
      \/ observers' = observers /\ ended' = [ended EXCEPT ![o] = results] /\ results # "open"
  BY DEF To, Registered
<1>5. \/ started /\ UNCHANGED <<started, subscribing, execution, context, source, runs>>
      \/ /\ ~started /\ started' = TRUE /\ subscribing' = TRUE /\ execution' = "live"
         /\ context' = "live" /\ source' = TRUE /\ runs' = runs + 1
  BY DEF To, pipeline
<1>6. Registry' /\ ended' \in [Observers -> {"no", "failed", "completed", "unsubscribed"}]
  <2>1. CASE observers' = Append(observers, o) /\ ended' = ended
    <3>1. observers' \in Seq(Observers) /\ IsInjective(observers') /\ Attached' = Attached \cup {o}
      BY <1>1, <1>3, <2>1, Appended DEF Registry, Attached
    <3> QED
      BY <1>1, <1>3, <2>1, <3>1 DEF Registry, Flags
  <2>2. CASE observers' = observers /\ ended' = [ended EXCEPT ![o] = results] /\ results # "open"
    BY <1>1, <1>3, <2>2 DEF Registry, Flags, Attached
  <2> QED
    BY <1>4, <2>1, <2>2
<1>7. OneRun'
  <2>1. runs' = IF started' THEN 1 ELSE 0
    BY <1>5 DEF RunInv, OneRun
  <2> QED
    BY <1>1, <1>2, <1>5, <2>1 DEF RunInv, OneRun, Idle, Flags
<1>8. runs' \in 0..1
  BY <1>5 DEF RunInv, OneRun
<1>9. Flags'
  <2>1. joined' \in [Observers -> 0..MaxEmits]
    BY <1>1, <1>3 DEF Flags
  <2>2. /\ {syncSource, started, disposed, subscribing, connection, source}' \subseteq BOOLEAN
        /\ execution' \in {"none", "live", "closed"} /\ context' \in {"none", "live", "disposed"}
    BY <1>1, <1>2, <1>5, Zenon DEF Flags
  <2> QED
    BY <1>1, <1>2, <1>6, <1>8, <2>1, <2>2 DEF Flags
<1>10. Received'
  <2>1. data \in Nat /\ got[o] = <<>> /\ o \notin ToReach
    BY <1>1, <1>3, NodeRunAssumption DEF RunInv, Received, Flags
  <2>2. joined'[o] = data /\ \A p \in Observers \ {o} : joined'[p] = joined[p]
    BY <1>1, <1>3 DEF Flags
  <2>3. Since(data, data) = <<>>
    BY <2>1 DEF Since
  <2>4. ToReach' = ToReach
    BY <1>2 DEF ToReach
  <2>5. Attached' \in {Attached, Attached \cup {o}} /\ (ended'[o] = "no" => o \in Attached')
        /\ \A p \in Observers \ {o} : ended'[p] = ended[p]
    <3>1. CASE observers' = Append(observers, o) /\ ended' = ended
      <4>1. Attached' = Attached \cup {o}
        BY <1>1, <3>1, Appended DEF Registry, Attached
      <4> QED
        BY <3>1, <4>1
    <3>2. CASE observers' = observers /\ ended' = [ended EXCEPT ![o] = results] /\ results # "open"
      BY <1>1, <3>2 DEF Attached, Flags
    <3> QED
      BY <1>4, <3>1, <3>2
  <2>6. Attached \subseteq Observers
    BY <1>1 DEF Registry
  <2>7. ASSUME NEW p \in Attached'
        PROVE  /\ joined'[p] <= data' /\ (p \in ToReach' => joined'[p] < data')
               /\ got'[p] = Since(joined'[p], IF p \in ToReach' THEN data' - 1 ELSE data')
    <3>1. CASE p = o
      BY <1>2, <2>1, <2>2, <2>3, <2>4, <3>1
    <3>2. CASE p # o
      <4>1. p \in Attached /\ joined'[p] = joined[p]
        BY <2>2, <2>5, <2>6, <2>7, <3>2
      <4> QED
        BY <1>2, <2>4, <4>1 DEF RunInv, Received
    <3> QED
      BY <3>1, <3>2
  <2>8. ASSUME NEW p \in Observers \ Attached', ended'[p] = "no"
        PROVE  got'[p] = <<>> /\ p \notin ToReach'
    <3>1. p # o /\ p \notin Attached /\ ended[p] = "no"
      BY <1>3, <2>5, <2>8
    <3> QED
      BY <1>2, <2>4, <3>1 DEF RunInv, Received
  <2> QED
    BY <2>7, <2>8 DEF Received
<1>11. Released'
  <2>1. CASE started
    BY <1>2, <1>5, <2>1 DEF RunInv, Released, Idle
  <2>2. CASE ~started
    <3>1. results = "open" /\ Idle
      BY <1>3, <2>2 DEF RunInv, Released, OneRun
    <3> QED
      BY <1>2, <1>3, <2>2, <1>5, <3>1 DEF Released, Idle
  <2> QED
    BY <2>1, <2>2
<1>12. Typed'
  <2>1. Queue' /\ Inboxes'
    BY <1>1, <1>2 DEF Queue, Inboxes
  <2>2. (Typed <=> Flags /\ Registry /\ Queue /\ Inboxes)'
    BY TypedParts, PTL
  <2> QED
    BY <1>6, <1>9, <2>1, <2>2
<1> QED
  BY <1>7, <1>10, <1>11, <1>12 DEF RunInv

LEMMA UnsubscribeKeeps ==
  ASSUME RunInv, NEW o \in Observers, ObserverUnsubscribes(o)
  PROVE  RunInv'
<1>1. Flags /\ Registry /\ Queue /\ Inboxes
  BY TypedParts DEF RunInv
<1>2. UNCHANGED <<syncSource, started, disposed, subscribing, connection, execution, context, source,
                  results, emitting, calling, data, got, joined, runs>>
  BY DEF ObserverUnsubscribes, nodeState, pipeline, delivery, history
<1>3. ended' = [ended EXCEPT ![o] = "unsubscribed"]
  BY DEF ObserverUnsubscribes
<1>4. PICK i \in 1..Len(observers) : observers[i] = o /\ observers' = RemoveAt(observers, i)
  BY DEF ObserverUnsubscribes
<1>5. observers' \in Seq(Observers) /\ IsInjective(observers') /\ Attached' = Attached \ {o}
  BY <1>1, <1>4, Removed DEF Registry, Attached
<1>6. Registry' /\ ended' \in [Observers -> {"no", "failed", "completed", "unsubscribed"}]
  BY <1>1, <1>3, <1>5 DEF Registry, Flags
<1>7. Typed'
  <2>1. (Typed <=> Flags /\ Registry /\ Queue /\ Inboxes)'
    BY TypedParts, PTL
  <2> QED
    BY <1>1, <1>2, <1>6, <2>1 DEF Flags, Queue, Inboxes
<1>8. Received'
  <2>1. \A p \in Observers \ Attached' : ended'[p] = "no" => p \notin Attached /\ ended[p] = "no"
    BY <1>1, <1>3, <1>5 DEF Flags
  <2> QED
    BY <1>2, <1>5, <2>1, LeavingKeeps DEF RunInv
<1> QED
  BY <1>2, <1>7, <1>8 DEF RunInv, OneRun, Released, Idle

LEMMA DisposeKeeps ==
  ASSUME RunInv, Dispose
  PROVE  RunInv'
<1>1. Flags /\ Registry /\ Queue /\ Inboxes
  BY TypedParts DEF RunInv
<1>2. UNCHANGED <<syncSource, started, subscribing, connection, emitting, calling, data, got, joined, runs>>
  BY DEF Dispose, delivery, history
<1>3. /\ MayCall /\ disposed' = TRUE /\ EndResults("completed")
      /\ context' = IF context = "live" THEN "disposed" ELSE context
      /\ IF connection THEN execution' = "closed" /\ source' = FALSE
         ELSE execution' = execution /\ source' = source
  BY DEF Dispose
<1>4. /\ results' \in {"failed", "completed"} /\ Registry'
      /\ ended' \in [Observers -> {"no", "failed", "completed", "unsubscribed"}]
      /\ Attached' \subseteq Attached
      /\ \A o \in Observers \ Attached' : ended'[o] = "no" => o \notin Attached /\ ended[o] = "no"
  BY <1>1, <1>3, Ends
<1>5. Typed'
  <2>1. (Typed <=> Flags /\ Registry /\ Queue /\ Inboxes)'
    BY TypedParts, PTL
  <2>2. Flags'
    BY <1>1, <1>2, <1>3, <1>4 DEF Flags
  <2> QED
    BY <1>1, <1>2, <1>4, <2>1, <2>2 DEF Queue, Inboxes
<1>6. OneRun'
  BY <1>2, <1>3 DEF RunInv, OneRun, Idle
<1>7. Received'
  BY <1>2, <1>4, LeavingKeeps DEF RunInv
<1>8. Released'
  <2>1. context' # "live"
    BY <1>3
  <2>2. ASSUME ~syncSource PROVE ~source' /\ ~(subscribing /\ ~Idle) /\ ~subscribing
    <3>1. ~subscribing
      BY <1>3, <2>2 DEF MayCall, RunInv, Released, Idle
    <3>2. connection \/ ~source
      BY <3>1 DEF RunInv, OneRun
    <3> QED
      BY <1>3, <3>1, <3>2
  <2> QED
    BY <1>2, <1>3, <2>1, <2>2 DEF Released
<1> QED
  BY <1>5, <1>6, <1>7, <1>8 DEF RunInv

LEMMA SubscribeReturnsKeeps ==
  ASSUME RunInv, SubscribeReturns
  PROVE  RunInv'
<1>1. Flags /\ Registry /\ Queue /\ Inboxes
  BY TypedParts DEF RunInv
<1>2. UNCHANGED <<syncSource, disposed, execution, results, observers, ended, emitting, calling,
                  data, got, joined, runs>>
  BY DEF SubscribeReturns, subject, delivery, history
<1>3. /\ subscribing /\ Idle /\ subscribing' = FALSE /\ started' = TRUE /\ connection' = TRUE
      /\ IF execution = "closed" THEN context' = "disposed" /\ source' = FALSE
         ELSE context' = context /\ source' = source
  BY DEF SubscribeReturns
<1>4. Typed'
  <2>1. (Typed <=> Flags /\ Registry /\ Queue /\ Inboxes)'
    BY TypedParts, PTL
  <2>2. Flags'
    BY <1>1, <1>2, <1>3 DEF Flags
  <2> QED
    BY <1>1, <1>2, <2>1, <2>2 DEF Registry, Attached, Queue, Inboxes
<1>5. OneRun'
  BY <1>2, <1>3 DEF RunInv, OneRun
<1>6. Received'
  BY <1>2 DEF RunInv, Received, Attached, ToReach
<1>7. Released'
  BY <1>2, <1>3 DEF RunInv, Released
<1> QED
  BY <1>4, <1>5, <1>6, <1>7 DEF RunInv

-----------------------------------------------------------------------------
(***************************************************************************)
(* The input and its delivery.                                             *)
(***************************************************************************)

(* The run ends with the output: what the input's end, its failure and an   *)
(* observer that throws have in common.                                    *)
LEMMA RunEndsKeeps ==
  ASSUME RunInv, execution = "live", ClosePipeline, NEW how \in {"failed", "completed"},
         EndResults(how), calling' \in {calling, NoObserver},
         UNCHANGED <<syncSource, started, disposed, subscribing, connection, emitting, data, got,
                     joined, runs>>
  PROVE  RunInv'
<1>1. Flags /\ Registry /\ Queue /\ Inboxes
  BY TypedParts DEF RunInv
<1>2. /\ execution' = "closed"
      /\ IF subscribing THEN context' = context /\ source' = source
         ELSE context' = "disposed" /\ source' = FALSE
  BY DEF ClosePipeline
<1>3. /\ results' \in {"failed", "completed"} /\ Registry'
      /\ ended' \in [Observers -> {"no", "failed", "completed", "unsubscribed"}]
      /\ Attached' \subseteq Attached
      /\ \A o \in Observers \ Attached' : ended'[o] = "no" => o \notin Attached /\ ended[o] = "no"
  BY <1>1, Ends
<1>4. Typed'
  <2>1. (Typed <=> Flags /\ Registry /\ Queue /\ Inboxes)'
    BY TypedParts, PTL
  <2>2. Flags'
    BY <1>1, <1>2, <1>3 DEF Flags
  <2> QED
    BY <1>1, <1>3, <2>1, <2>2 DEF Queue, Inboxes
<1>5. started
  BY DEF RunInv, OneRun
<1>6. OneRun'
  BY <1>5 DEF RunInv, OneRun
<1>7. Received'
  BY <1>3, LeavingKeeps DEF RunInv
<1>8. Released'
  BY <1>2, <1>5 DEF RunInv, Released, Idle
<1> QED
  BY <1>4, <1>6, <1>7, <1>8 DEF RunInv

LEMMA EmitKeeps ==
  ASSUME RunInv, Emit
  PROVE  RunInv'
<1>1. Flags /\ Registry /\ Queue /\ Inboxes
  BY TypedParts DEF RunInv
<1>2. UNCHANGED <<syncSource, started, disposed, subscribing, connection, execution, context, source,
                  results, observers, ended, calling, got, joined, runs>>
  BY DEF Emit, nodeState, pipeline, subject
<1>3. SourceRuns /\ Idle /\ data < MaxEmits /\ data' = data + 1 /\ emitting' = observers
  BY DEF Emit, SourceRuns
<1>4. Attached' = Attached /\ ToReach = {} /\ ToReach' = Attached /\ Attached \subseteq Observers
  BY <1>1, <1>2, <1>3 DEF Attached, ToReach, Idle, ToSet, Registry
<1>5. data \in Nat /\ data' \in 0..MaxEmits /\ data' - 1 = data
  BY <1>1, <1>3, NodeRunAssumption DEF Flags
<1>6. Typed'
  <2>1. (Typed <=> Flags /\ Registry /\ Queue /\ Inboxes)'
    BY TypedParts, PTL
  <2>2. Flags' /\ Registry' /\ Queue' /\ Inboxes'
    BY <1>1, <1>2, <1>3, <1>4, <1>5 DEF Flags, Registry, Queue, Inboxes
  <2> QED
    BY <2>1, <2>2
<1>7. Received'
  <2>1. ASSUME NEW o \in Attached
        PROVE  joined'[o] < data' /\ got'[o] = Since(joined'[o], data' - 1)
    <3>1. joined[o] <= data /\ got[o] = Since(joined[o], data)
      BY <1>4 DEF RunInv, Received
    <3>2. joined[o] \in Nat
      BY <1>1, <1>4, NodeRunAssumption DEF Flags
    <3> QED
      BY <1>2, <1>3, <1>5, <3>1, <3>2
  <2>2. ASSUME NEW o \in Attached PROVE joined'[o] <= data'
    BY <1>1, <1>2, <1>4, <1>5, <2>1, NodeRunAssumption DEF Flags
  <2> QED
    BY <1>2, <1>4, <2>1, <2>2 DEF RunInv, Received
<1>8. ~(~syncSource /\ subscribing)
  BY <1>3 DEF SourceRuns
<1>9. started
  BY <1>3 DEF SourceRuns, RunInv, OneRun
<1>10. OneRun' /\ Released'
  BY <1>2, <1>8, <1>9 DEF RunInv, OneRun, Released
<1> QED
  BY <1>6, <1>7, <1>10 DEF RunInv

LEMMA DeliverKeeps ==
  ASSUME RunInv, Deliver
  PROVE  RunInv'
<1> DEFINE o == Head(emitting)
<1>1. Flags /\ Registry /\ Queue /\ Inboxes
  BY TypedParts DEF RunInv
<1>2. UNCHANGED <<syncSource, started, disposed, subscribing, connection, execution, context, source,
                  results, observers, ended, data, joined, runs>>
  BY DEF Deliver, nodeState, pipeline, subject
<1>3. emitting # <<>> /\ ~Idle /\ emitting' = Tail(emitting)
  BY DEF Deliver, Idle
<1>4. /\ emitting' \in Seq(Observers) /\ IsInjective(emitting')
      /\ ToReach' = ToReach \ {o} /\ o \in ToReach /\ o \in Observers
  BY <1>1, <1>3, Taken DEF Queue, ToReach
<1>5. \/ o \in Attached /\ calling' = o /\ got' = [got EXCEPT ![o] = Append(@, data)]
      \/ o \notin Attached /\ UNCHANGED <<calling, got>>
  BY DEF Deliver, Attached
<1> HIDE DEF o
<1>6. o \in Attached => /\ joined[o] \in Nat /\ data \in 1..MaxEmits /\ joined[o] <= data - 1
                      /\ got[o] = Since(joined[o], data - 1)
  <2> SUFFICES ASSUME o \in Attached
               PROVE  /\ joined[o] \in Nat /\ data \in 1..MaxEmits /\ joined[o] <= data - 1
                      /\ got[o] = Since(joined[o], data - 1)
    OBVIOUS
  <2>1. joined[o] < data /\ got[o] = Since(joined[o], data - 1)
    BY <1>4 DEF RunInv, Received
  <2>2. joined[o] \in 0..MaxEmits /\ data \in 0..MaxEmits
    BY <1>1, <1>4 DEF Flags
  <2> QED
    BY <2>1, <2>2, NodeRunAssumption
<1>7. o \in Attached => got'[o] = Since(joined[o], data)
  <2> SUFFICES ASSUME o \in Attached PROVE Append(got[o], data) = Since(joined[o], data)
    BY <1>1, <1>4, <1>5 DEF Inboxes
  <2> DEFINE n == data - joined[o]
  <2>1. n \in Nat \ {0} /\ n = (data - 1 - joined[o]) + 1 /\ joined[o] + n = data
    BY <1>6
  <2>2. Since(joined[o], data - 1) = [k \in 1..n - 1 |-> joined[o] + k]
    BY <1>6, <2>1 DEF Since
  <2>3. Since(joined[o], data) = [k \in 1..n |-> joined[o] + k]
    BY DEF Since
  <2> HIDE DEF n
  <2>4. got[o] = [k \in 1..n - 1 |-> joined[o] + k]
    BY <1>6, <2>2
  <2>5. Append(got[o], data) = [k \in 1..n |-> joined[o] + k]
    <3>1. got[o] \in Seq(1..MaxEmits) /\ data \in 1..MaxEmits
      BY <1>1, <1>4, <1>6 DEF Inboxes
    <3>2. Len(got[o]) = n - 1
      BY <2>1, <2>4, LenProperties, <3>1
    <3> DEFINE more == Append(got[o], data)
    <3>3. /\ more \in Seq(1..MaxEmits) /\ Len(more) = n
          /\ \A k \in 1..n - 1 : more[k] = got[o][k]
          /\ more[n] = data
      BY <2>1, <3>1, <3>2, AppendProperties
    <3> HIDE DEF more
    <3>4. more \in [1..n -> 1..MaxEmits]
      BY <3>3, LenProperties
    <3>5. ASSUME NEW k \in 1..n PROVE more[k] = joined[o] + k
      <4>1. CASE k = n
        BY <2>1, <3>3, <4>1
      <4>2. CASE k # n
        <5>1. k \in 1..n - 1
          BY <2>1, <4>2
        <5> QED
          BY <2>4, <3>3, <5>1
      <4> QED
        BY <4>1, <4>2
    <3>6. more = [k \in 1..n |-> joined[o] + k]
      BY <3>4, <3>5
    <3> QED
      BY <3>6 DEF more
  <2> QED
    BY <2>3, <2>5
<1>8. Typed'
  <2>1. (Typed <=> Flags /\ Registry /\ Queue /\ Inboxes)'
    BY TypedParts, PTL
  <2>2. Inboxes'
    <3>1. o \in Attached => Append(got[o], data) \in Seq(1..MaxEmits)
      BY <1>1, <1>4, <1>6 DEF Inboxes
    <3> QED
      BY <1>1, <1>4, <1>5, <3>1 DEF Inboxes
  <2>3. Flags' /\ Registry' /\ Queue'
    BY <1>1, <1>2, <1>4, <1>5 DEF Flags, Registry, Queue, Attached
  <2> QED
    BY <2>1, <2>2, <2>3
<1>9. Received'
  <2>1. Attached' = Attached /\ Attached \subseteq Observers
    BY <1>1, <1>2 DEF Attached, Registry
  <2>2. ASSUME NEW p \in Attached
        PROVE  /\ joined[p] <= data /\ (p \in ToReach' => joined[p] < data)
               /\ got'[p] = Since(joined[p], IF p \in ToReach' THEN data - 1 ELSE data)
    <3>1. CASE p = o
      BY <1>4, <1>6, <1>7, <2>2, <3>1
    <3>2. CASE p # o
      <4>1. got'[p] = got[p] /\ (p \in ToReach' <=> p \in ToReach)
        BY <1>1, <1>4, <1>5, <2>1, <3>2 DEF Inboxes
      <4> QED
        BY <4>1 DEF RunInv, Received
    <3> QED
      BY <3>1, <3>2
  <2>3. ASSUME NEW p \in Observers \ Attached, ended[p] = "no"
        PROVE  got'[p] = <<>> /\ p \notin ToReach'
    <3>1. got[p] = <<>> /\ p \notin ToReach
      BY <2>3 DEF RunInv, Received
    <3>2. got'[p] = got[p]
      BY <1>1, <1>4, <1>5, <3>1 DEF Inboxes
    <3> QED
      BY <1>4, <3>1, <3>2
  <2> QED
    BY <1>2, <2>1, <2>2, <2>3 DEF Received
<1>10. OneRun' /\ Released'
  BY <1>2, <1>3 DEF RunInv, OneRun, Released
<1> QED
  BY <1>8, <1>9, <1>10 DEF RunInv

(* next() returns, or throws when the run has ended already. *)
LEMMA ReturnKeeps ==
  ASSUME RunInv, calling' = NoObserver,
         UNCHANGED <<syncSource, started, disposed, subscribing, connection, execution, context,
                     source, results, observers, ended, emitting, data, got, joined, runs>>
  PROVE  RunInv'
<1>1. Flags /\ Registry /\ Queue /\ Inboxes
  BY TypedParts DEF RunInv
<1>2. Typed'
  <2>1. (Typed <=> Flags /\ Registry /\ Queue /\ Inboxes)'
    BY TypedParts, PTL
  <2> QED
    BY <1>1, <2>1 DEF Flags, Registry, Attached, Queue, Inboxes
<1> QED
  BY <1>2 DEF RunInv, OneRun, Received, Released, Idle, Attached, ToReach

LEMMA RunStep == RunInv /\ [NodeNext]_nodeVars => RunInv'
<1> SUFFICES ASSUME RunInv, [NodeNext]_nodeVars PROVE RunInv'
  OBVIOUS
<1>1. ASSUME NEW o \in Observers, To(o) \/ ObserverUnsubscribes(o) PROVE RunInv'
  BY <1>1, ToKeeps, UnsubscribeKeeps
<1>2. CASE SubscribeReturns
  BY <1>2, SubscribeReturnsKeeps
<1>3. CASE Dispose
  BY <1>3, DisposeKeeps
<1>4. CASE Emit
  BY <1>4, EmitKeeps
<1>5. CASE Fail \/ SourceEnds
  BY <1>5, RunEndsKeeps DEF Fail, SourceEnds, SourceRuns, nodeState, delivery, history
<1>6. CASE Deliver
  BY <1>6, DeliverKeeps
<1>7. CASE Return
  BY <1>7, ReturnKeeps DEF Return, nodeState, pipeline, subject, history
<1>8. CASE Thrown
  BY <1>8, RunEndsKeeps, ReturnKeeps DEF Thrown, FailsRun, nodeState, pipeline, subject
<1>9. CASE UNCHANGED nodeVars
  BY <1>9, SameKeeps
<1> QED
  BY <1>1, <1>2, <1>3, <1>4, <1>5, <1>6, <1>7, <1>8, <1>9 DEF NodeNext

LEMMA RunInit == NodeInit => RunInv
<1> SUFFICES ASSUME NodeInit PROVE RunInv
  OBVIOUS
<1>1. observers = <<>> /\ emitting = <<>> /\ Attached = {} /\ ToReach = {}
  BY DEF NodeInit, Attached, ToReach, ToSet
<1>2. Registry /\ Queue /\ Inboxes
  <2>1. \A S : <<>> \in Seq(S)
    BY EmptySeq
  <2> QED
    BY <1>1, <2>1 DEF NodeInit, Registry, Queue, Inboxes, IsInjective
<1>3. Flags
  <2>1. 0 \in 0..MaxEmits
    BY NodeRunAssumption
  <2>2. {syncSource, started, disposed, subscribing, connection, source} \subseteq BOOLEAN
    <3>1. FALSE \in BOOLEAN
      OBVIOUS
    <3> QED
      BY <3>1 DEF NodeInit
  <2>3. /\ ended \in [Observers -> {"no", "failed", "completed", "unsubscribed"}]
        /\ joined \in [Observers -> 0..MaxEmits] /\ data \in 0..MaxEmits /\ runs \in 0..1
    BY <2>1 DEF NodeInit
  <2> QED
    BY <2>2, <2>3 DEF NodeInit, Flags
<1>4. Typed
  BY <1>2, <1>3, TypedParts
<1>5. OneRun
  BY DEF NodeInit, OneRun, Idle
<1>6. Received
  BY <1>1 DEF NodeInit, Received
<1>7. Released
  BY DEF NodeInit, Released
<1> QED
  BY <1>4, <1>5, <1>6, <1>7 DEF RunInv

LEMMA RunInvariant == NodeSpec => []RunInv
  BY RunInit, RunStep, PTL DEF NodeSpec

(* Between tasks every observer that has not ended has received exactly    *)
(* the data emitted since it registered, once and in order, and the Node   *)
(* runs once, for any number of observers and data (node.ts to, observe).  *)
THEOREM Shared == NodeSpec => []SharedRows
<1>1. RunInv => SharedRows
  <2> SUFFICES ASSUME RunInv, Idle, NEW o \in ToSet(observers)
               PROVE  got[o] = [k \in 1..data - joined[o] |-> joined[o] + k]
    BY DEF RunInv, Typed, SharedRows
  <2>1. o \in Attached /\ o \notin ToReach
    BY DEF Attached, Idle, ToReach, ToSet
  <2> QED
    BY <2>1 DEF RunInv, Received, Since
<1> QED
  BY <1>1, RunInvariant, PTL

(* However a run ends, its Context is disposed once no call is under way,   *)
(* and an input that emits only once it is subscribed is released with the *)
(* Node (node.ts steps, dispose).                                          *)
THEOREM Release == NodeSpec => []RunReleased
<1>1. RunInv => RunReleased
  BY DEF RunInv, Released, RunReleased, InputReleased, Returned
<1> QED
  BY <1>1, RunInvariant, PTL

-----------------------------------------------------------------------------
(***************************************************************************)
(* The WebSocket sink.                                                     *)
(***************************************************************************)

(* Queues and buffers of rows, which are numbered as they are written.      *)
Rows == Seq(1..MaxWrites)

Rising(s) == \A i, j \in 1..Len(s) : i < j => s[i] < s[j]

Joined(d, b, q) == d \o b \o q

(* The rows sent, being sent and waiting rise, and none is newer than the   *)
(* last one written, which "error" has all of and the policies that favour  *)
(* new rows have at the end of the queue.                                *)
StreamInv ==
  /\ SocketTypeOK
  /\ Rising(Stream)
  /\ \A i \in 1..Len(Stream) : Stream[i] =< written
  /\ (overflow = "error" /\ completion # "rejected") => Len(Stream) = written
  /\ (overflow \in {"drop-oldest", "latest"} /\ ~stopped /\ queued # <<>>)
       => Last(queued) = written

-----------------------------------------------------------------------------
(* Cutting a queue in two loses nothing.                                 *)
LEMMA Cut ==
  ASSUME NEW S, NEW q \in Seq(S), NEW n \in 0..Len(q)
  PROVE  /\ SubSeq(q, 1, n) \in Seq(S) /\ Len(SubSeq(q, 1, n)) = n
         /\ Kept(q, n) \in Seq(S) /\ Len(Kept(q, n)) = Len(q) - n
         /\ \A i \in 1..n : SubSeq(q, 1, n)[i] = q[i]
         /\ \A i \in 1..Len(q) - n : Kept(q, n)[i] = q[n + i]
<1>1. Len(q) \in Nat /\ \A i \in 1..Len(q) : q[i] \in S
  OBVIOUS
<1> QED
  BY <1>1 DEF Kept

(* What is moved from the front of the queue to the end of the buffer is *)
(* where it was in the stream.                                             *)
LEMMA Moved ==
  ASSUME NEW S, NEW d \in Seq(S), NEW b \in Seq(S), NEW q \in Seq(S), NEW n \in 0..Len(q)
  PROVE  Joined(d, b \o SubSeq(q, 1, n), Kept(q, n)) = Joined(d, b, q)
<1> DEFINE h == SubSeq(q, 1, n)
           k == Kept(q, n)
<1>1. h \in Seq(S) /\ k \in Seq(S)
  BY Cut
<1>2. h \o k = q
  <2>1. Len(q) \in Nat
    OBVIOUS
  <2>2. h \o k = SubSeq(q, 1, Len(q))
    <3>1. 1 \in 1..Len(q) + 1 /\ n \in 1 - 1..Len(q) /\ Len(q) \in n..Len(q)
      BY <2>1
    <3> QED
      BY <3>1, ConcatAdjacentSubSeq DEF Kept
  <2> QED
    BY <2>2, SubSeqFull
<1> HIDE DEF h, k
<1>3. d \o b \in Seq(S)
  OBVIOUS
<1>4. (d \o b) \o h = d \o (b \o h)
  BY <1>1, ConcatAssociative
<1>5. ((d \o b) \o h) \o k = (d \o b) \o (h \o k)
  BY <1>1, <1>3, ConcatAssociative
<1>6. d \o (b \o h) \o k = d \o b \o q
  BY <1>2, <1>4, <1>5
<1> QED
  BY <1>6 DEF h, k, Joined

(* A rising stream still rises when any number of rows are taken from the   *)
(* front of the queue, and a newer one is put behind it.                 *)
LEMMA Newest ==
  ASSUME NEW x \in Rows, NEW p \in Rows, NEW m \in 0..Len(p), NEW w \in Nat,
         w + 1 =< MaxWrites, Rising(x \o p), \A i \in 1..Len(x \o p) : (x \o p)[i] =< w
  PROVE  LET q == Append(Kept(p, m), w + 1) IN
         /\ x \o q \in Rows /\ Len(x \o q) = Len(x) + Len(p) - m + 1
         /\ Rising(x \o q)
         /\ \A i \in 1..Len(x \o q) : (x \o q)[i] =< w + 1
<1> DEFINE k == Kept(p, m)
           q == Append(k, w + 1)
           X == Len(x)
           P == Len(p)
<1>1. MaxWrites \in Nat /\ w + 1 \in 1..MaxWrites
  BY SinkAssumption
<1>2. k \in Rows /\ Len(k) = P - m /\ \A i \in 1..P - m : k[i] = p[m + i]
  BY Cut DEF Rows
<1>3. X \in Nat /\ P \in Nat
  BY DEF Rows
<1> HIDE DEF k
<1>4. q \in Rows /\ Len(q) = P - m + 1 /\ q[P - m + 1] = w + 1 /\ \A i \in 1..P - m : q[i] = p[m + i]
  BY <1>1, <1>2, <1>3 DEF Rows
<1> HIDE DEF q
<1> DEFINE U == x \o q
           V == x \o p
<1>5. /\ U \in Rows /\ Len(U) = X + P - m + 1
      /\ \A i \in 1..X : U[i] = x[i]
      /\ \A i \in 1..P - m + 1 : U[X + i] = q[i]
  <2>1. /\ U \in Seq(1..MaxWrites) /\ Len(U) = X + Len(q)
        /\ \A i \in 1..X + Len(q) : U[i] = IF i =< X THEN x[i] ELSE q[i - X]
    BY <1>4, ConcatProperties DEF Rows
  <2> HIDE DEF U
  <2>2. \A i \in 1..P - m + 1 : X + i \in 1..X + Len(q) /\ ~(X + i =< X) /\ X + i - X = i
    BY <1>3, <1>4
  <2>3. U \in Rows /\ Len(U) = X + P - m + 1
    BY <1>3, <1>4, <2>1 DEF Rows
  <2>4. X + Len(q) \in Nat /\ \A i \in 1..X : i \in 1..X + Len(q)
    BY <1>3, <1>4
  <2>5. \A i \in 1..X : U[i] = x[i]
    BY <1>3, <2>1, <2>4
  <2>6. \A i \in 1..P - m + 1 : U[X + i] = q[i]
    BY <2>1, <2>2
  <2> QED
    BY <2>3, <2>5, <2>6
<1>6. /\ Len(V) = X + P
      /\ \A i \in 1..X : V[i] = x[i]
      /\ \A i \in 1..P : V[X + i] = p[i]
  <2>1. /\ Len(V) = X + P
        /\ \A i \in 1..X + P : V[i] = IF i =< X THEN x[i] ELSE p[i - X]
    BY ConcatProperties DEF Rows
  <2> HIDE DEF V
  <2>2. \A i \in 1..P : X + i \in 1..X + P /\ ~(X + i =< X) /\ X + i - X = i
    BY <1>3
  <2> QED
    BY <1>3, <2>1, <2>2
<1>7. Rising(V) /\ \A i \in 1..Len(V) : V[i] =< w
  OBVIOUS
<1> HIDE DEF U, V, X, P
<1> DEFINE Earlier(i) == IF i =< X THEN i ELSE i + m
<1>8. \A i \in 1..X + P - m : Earlier(i) \in 1..X + P /\ U[i] = V[Earlier(i)]
  <2> TAKE i \in 1..X + P - m
  <2>1. m \in 0..P
    BY DEF P
  <2>2. CASE i =< X
    BY <2>1, <2>2, <1>3, <1>5, <1>6
  <2>3. CASE i > X
    <3>1. i - X \in 1..P - m /\ X + (i - X) = i /\ X + (m + (i - X)) = i + m /\ m + (i - X) \in 1..P
          /\ i - X \in 1..P - m + 1
      BY <2>1, <2>3, <1>3
    <3>2. U[i] = p[m + (i - X)]
      BY <3>1, <1>4, <1>5
    <3>3. V[i + m] = p[m + (i - X)]
      BY <3>1, <1>6
    <3> QED
      BY <2>1, <2>3, <3>2, <3>3, <1>3
  <2> QED
    BY <2>2, <2>3, <1>3
<1>9. \A i, j \in 1..X + P - m : i < j => Earlier(i) < Earlier(j)
  BY <1>3 DEF P
<1> HIDE DEF Earlier
<1>10. \A i \in 1..X + P - m : U[i] =< w
  BY <1>6, <1>7, <1>8
<1>11. U[X + P - m + 1] = w + 1
  <2>1. P - m + 1 \in 1..P - m + 1 /\ X + (P - m + 1) = X + P - m + 1
    BY <1>3 DEF P
  <2> QED
    BY <2>1, <1>4, <1>5
<1>12. \A i \in 1..X + P - m + 1 : U[i] \in Nat
  BY <1>1, <1>3, <1>5 DEF Rows
<1>13. Rising(U)
  <2> SUFFICES ASSUME NEW i \in 1..X + P - m + 1, NEW j \in 1..X + P - m + 1, i < j
               PROVE  U[i] < U[j]
    BY <1>5 DEF Rising
  <2>1. m \in 0..P /\ i \in 1..X + P - m
    BY <1>3 DEF P
  <2>2. CASE j = X + P - m + 1
    BY <2>1, <2>2, <1>10, <1>11, <1>12
  <2>3. CASE j # X + P - m + 1
    <3>1. j \in 1..X + P - m
      BY <2>1, <2>3, <1>3
    <3>2. Earlier(i) \in 1..Len(V) /\ Earlier(j) \in 1..Len(V) /\ Earlier(i) < Earlier(j)
      BY <2>1, <3>1, <1>6, <1>8, <1>9
    <3> QED
      BY <2>1, <3>1, <3>2, <1>7, <1>8 DEF Rising
  <2> QED
    BY <2>2, <2>3
<1>14. \A i \in 1..X + P - m + 1 : U[i] =< w + 1
  <2> TAKE i \in 1..X + P - m + 1
  <2>1. CASE i = X + P - m + 1
    BY <2>1, <1>11
  <2>2. CASE i # X + P - m + 1
    <3>1. m \in 0..P
      BY DEF P
    <3>2. i \in 1..X + P - m
      BY <2>2, <3>1, <1>3
    <3> QED
      BY <3>2, <1>10, <1>12
  <2> QED
    BY <2>1, <2>2
<1> QED
  BY <1>5, <1>13, <1>14 DEF U, q, k, X, P

-----------------------------------------------------------------------------
(* flush() keeps the bounds of the buffer and of the queue, and the stream. *)
LEMMA FlushKeeps ==
  ASSUME SocketTypeOK, NEW line \in Rows, NEW armed \in BOOLEAN, NEW end \in BOOLEAN,
         Len(line) =< Capacity, FlushIfOpen(line, armed, end) \/ Flush(line, armed, end)
  PROVE  /\ queued' \in Rows /\ Len(queued') =< Capacity
         /\ socketBuffer' \in Rows /\ Len(socketBuffer') =< HighWaterMark + 1
         /\ timer' \in BOOLEAN /\ readyState' \in {"connecting", "open", "closing", "closed"}
         /\ Joined(delivered, socketBuffer', queued') = Joined(delivered, socketBuffer, line)
         /\ queued' # <<>> => line # <<>> /\ Last(queued') = Last(line)
<1> DEFINE n == Sendable(line)
<1>1. /\ Capacity \in Nat /\ HighWaterMark \in Nat
      /\ Len(line) \in Nat /\ Len(socketBuffer) \in Nat
      /\ socketBuffer \in Rows /\ delivered \in Rows /\ Len(socketBuffer) =< HighWaterMark + 1
  BY SinkAssumption DEF SocketTypeOK, Rows
<1>2. n \in 0..Len(line) /\ Len(socketBuffer) + n =< HighWaterMark + 1
  BY <1>1 DEF Sendable
<1>3. CASE Flush(line, armed, end)
  <2>1. /\ queued' = Kept(line, n)
        /\ socketBuffer' = socketBuffer \o SubSeq(line, 1, n)
        /\ timer' = Armed(armed, queued', socketBuffer')
        /\ readyState' \in {"closing", "open"}
    BY <1>3 DEF Flush
  <2> HIDE DEF n
  <2>2. /\ SubSeq(line, 1, n) \in Rows /\ Len(SubSeq(line, 1, n)) = n
        /\ Kept(line, n) \in Rows /\ Len(Kept(line, n)) = Len(line) - n
        /\ \A i \in 1..Len(line) - n : Kept(line, n)[i] = line[n + i]
    BY <1>2, Cut DEF Rows
  <2>3. socketBuffer' \in Rows /\ Len(socketBuffer') =< HighWaterMark + 1
    BY <1>1, <1>2, <2>1, <2>2, ConcatProperties DEF Rows
  <2>4. queued' \in Rows /\ Len(queued') =< Capacity
    BY <1>1, <1>2, <2>1, <2>2
  <2>5. timer' \in BOOLEAN
    BY <2>1 DEF Armed, Undrained
  <2>6. Joined(delivered, socketBuffer', queued') = Joined(delivered, socketBuffer, line)
    <3>1. /\ delivered \in Seq(1..MaxWrites) /\ socketBuffer \in Seq(1..MaxWrites) /\ line \in Seq(1..MaxWrites)
          /\ n \in 0..Len(line)
      BY <1>1, <1>2 DEF Rows
    <3>2. Joined(delivered, socketBuffer \o SubSeq(line, 1, n), Kept(line, n)) = Joined(delivered, socketBuffer, line)
      BY <3>1, Moved
    <3> QED
      BY <2>1, <3>2
  <2>7. ASSUME queued' # <<>> PROVE line # <<>> /\ Last(queued') = Last(line)
    <3>1. Len(line) - n \in Nat /\ Len(line) - n # 0
      BY <1>1, <1>2, <2>1, <2>2, <2>7, EmptySeq DEF Rows
    <3>2. Len(line) - n \in 1..Len(line) - n /\ n + (Len(line) - n) = Len(line) /\ Len(line) > 0
      BY <1>1, <1>2, <3>1
    <3>3. Last(queued') = queued'[Len(line) - n]
      BY <2>1, <2>2 DEF Last
    <3> QED
      BY <2>1, <2>2, <3>2, <3>3 DEF Last
  <2> QED
    BY <2>1, <2>3, <2>4, <2>5, <2>6, <2>7
<1>4. CASE ~Flush(line, armed, end)
  <2>1. queued' = line /\ timer' = armed /\ socketBuffer' = socketBuffer /\ readyState' = readyState
    BY <1>4 DEF FlushIfOpen
  <2> QED
    BY <1>1, <2>1 DEF SocketTypeOK
<1> QED
  BY <1>3, <1>4

(* What the invariant asks of a stream, as the next state has it.           *)
LEMMA StreamStep ==
  ASSUME StreamInv, SocketTypeOK', overflow' = overflow, written' = written, Stream' = Stream,
         completion # "rejected" \/ completion' = "rejected",
         ~stopped' /\ queued' # <<>> => ~stopped /\ queued # <<>> /\ Last(queued') = Last(queued)
  PROVE  StreamInv'
<1>1. Rising(Stream)' /\ (\A i \in 1..Len(Stream) : Stream[i] =< written)'
  BY DEF StreamInv, Rising
<1>2. ((overflow = "error" /\ completion # "rejected") => Len(Stream) = written)'
  BY DEF StreamInv
<1>3. ((overflow \in {"drop-oldest", "latest"} /\ ~stopped /\ queued # <<>>) => Last(queued) = written)'
  BY DEF StreamInv
<1> QED
  BY <1>1, <1>2, <1>3 DEF StreamInv

(* The steps that give up: the queue is left as it was.                  *)
LEMMA FailKeeps ==
  ASSUME StreamInv, Failed, UNCHANGED <<overflow, written, peerClosed>>
  PROVE  StreamInv'
<1>1. /\ queued' = queued /\ socketBuffer' = socketBuffer /\ delivered' = delivered
      /\ stopped' = TRUE /\ completion' = "rejected"
  BY DEF Failed
<1>2. SocketTypeOK'
  BY <1>1 DEF StreamInv, Failed, SocketTypeOK
<1>3. Stream' = Stream
  BY <1>1 DEF Stream
<1> QED
  BY <1>1, <1>2, <1>3, StreamStep

(* Steps that flush the queue as it is.                                  *)
LEMMA DrainKeeps ==
  ASSUME StreamInv, NEW armed \in BOOLEAN, NEW end \in BOOLEAN,
         FlushIfOpen(queued, armed, end) \/ Flush(queued, armed, end),
         ending' \in BOOLEAN,
         UNCHANGED <<overflow, written, stopped, completion, listening, delivered, peerClosed>>
  PROVE  StreamInv'
<1>1. SocketTypeOK /\ queued \in Rows /\ Len(queued) =< Capacity
  BY DEF StreamInv, SocketTypeOK, Rows
<1>2. /\ queued' \in Rows /\ Len(queued') =< Capacity
      /\ socketBuffer' \in Rows /\ Len(socketBuffer') =< HighWaterMark + 1
      /\ timer' \in BOOLEAN /\ readyState' \in {"connecting", "open", "closing", "closed"}
      /\ Joined(delivered, socketBuffer', queued') = Joined(delivered, socketBuffer, queued)
      /\ queued' # <<>> => queued # <<>> /\ Last(queued') = Last(queued)
  BY <1>1, FlushKeeps
<1>3. SocketTypeOK'
  BY <1>1, <1>2 DEF SocketTypeOK, Rows
<1>4. Stream' = Stream
  BY <1>2 DEF Stream, Joined
<1> QED
  BY <1>2, <1>3, <1>4, StreamStep

(* The queue a new row leaves behind is what is left of the old one and it. *)
LEMMA WriteKeeps ==
  ASSUME StreamInv, Write
  PROVE  StreamInv'
<1> DEFINE row == written + 1
           X == delivered \o socketBuffer
<1>1. /\ SocketTypeOK /\ ~stopped /\ ~ending /\ written < MaxWrites
      /\ written' = row /\ overflow' = overflow /\ peerClosed' = peerClosed
  BY DEF Write, StreamInv
<1>2. /\ Capacity \in Nat \ {0} /\ HighWaterMark \in Nat /\ MaxWrites \in Nat
      /\ written \in Nat /\ row \in 1..MaxWrites /\ row \in 0..MaxWrites
  BY <1>1, SinkAssumption DEF SocketTypeOK
<1>3. /\ delivered \in Rows /\ socketBuffer \in Rows /\ queued \in Rows /\ X \in Rows
      /\ Len(queued) \in Nat /\ Len(queued) =< Capacity
  BY <1>1 DEF SocketTypeOK, Rows
<1>4. Stream = X \o queued /\ Rising(X \o queued) /\ \A i \in 1..Len(X \o queued) : (X \o queued)[i] =< written
  BY DEF Stream, StreamInv
<1>5. CASE SendDirect
  <2>1. /\ queued = <<>> /\ queued' = <<>> /\ delivered' = delivered
        /\ socketBuffer' = Append(socketBuffer, row) /\ Len(socketBuffer) =< HighWaterMark
        /\ UNCHANGED <<timer, ending, stopped, completion, listening, readyState>>
    BY <1>5 DEF SendDirect, Direct, sinkState
  <2>2. SocketTypeOK'
    BY <1>1, <1>2, <1>3, <2>1 DEF SocketTypeOK, Rows
  <2>3. Kept(queued, 0) = <<>> /\ Len(queued) = 0
    BY <2>1 DEF Kept
  <2>4. 0 \in 0..Len(queued) /\ row =< MaxWrites
    BY <1>2, <2>3
  <2> DEFINE q == Append(<<>>, row)
  <2>5. /\ X \o q \in Rows /\ Len(X \o q) = Len(X) + Len(queued) - 0 + 1
        /\ Rising(X \o q) /\ \A i \in 1..Len(X \o q) : (X \o q)[i] =< row
    <3>1. /\ X \o Append(Kept(queued, 0), row) \in Rows
          /\ Len(X \o Append(Kept(queued, 0), row)) = Len(X) + Len(queued) - 0 + 1
          /\ Rising(X \o Append(Kept(queued, 0), row))
          /\ \A i \in 1..Len(X \o Append(Kept(queued, 0), row)) : (X \o Append(Kept(queued, 0), row))[i] =< row
      <4> HIDE DEF X
      <4>1. /\ X \in Rows /\ queued \in Rows /\ written \in Nat /\ written + 1 =< MaxWrites
            /\ Rising(X \o queued) /\ \A i \in 1..Len(X \o queued) : (X \o queued)[i] =< written
        BY <1>2, <1>3, <1>4, <2>4
      <4> QED
        BY <2>4, <4>1, Newest, ZenonT(60)
    <3> QED
      BY <2>3, <3>1
  <2>6. Stream' = X \o Append(<<>>, row)
    <3>1. Append(<<>>, row) = <<row>> /\ <<row>> \in Rows
      BY <1>2 DEF Rows
    <3>2. Append(socketBuffer, row) = socketBuffer \o <<row>>
      BY <1>2, <1>3, AppendIsConcat DEF Rows
    <3>3. (delivered \o socketBuffer) \o <<row>> = delivered \o (socketBuffer \o <<row>>)
      BY <1>3, <3>1, ConcatAssociative DEF Rows
    <3>4. delivered \o (socketBuffer \o <<row>>) \in Rows
      BY <1>3, <3>1 DEF Rows
    <3>5. delivered' \o socketBuffer' \o queued' = delivered \o (socketBuffer \o <<row>>)
      BY <2>1, <3>2, <3>4, ConcatEmptySeq DEF Rows
    <3> QED
      BY <3>1, <3>3, <3>5 DEF Stream
  <2>7. Len(X) \in Nat /\ Len(Stream) = Len(X)
    BY <1>3, <1>4, <2>1, ConcatEmptySeq DEF Rows
  <2>8. (Rising(Stream) /\ \A i \in 1..Len(Stream) : Stream[i] =< written)'
    BY <1>1, <2>5, <2>6 DEF Rising
  <2>9. ((overflow = "error" /\ completion # "rejected") => Len(Stream) = written)'
    BY <1>1, <1>2, <2>1, <2>5, <2>6, <2>7 DEF StreamInv
  <2> QED
    BY <2>1, <2>2, <2>8, <2>9 DEF StreamInv
<1>6. CASE Enqueue
  <2> DEFINE line == IF Full THEN Overflowed(row) ELSE Append(queued, row)
  <2>1. /\ overflow = "error" => ~Full
        /\ FlushIfOpen(line, timer, ending)
        /\ UNCHANGED <<ending, stopped, completion, listening, delivered>>
    BY <1>6 DEF Enqueue
  <2>2. overflow \in Policies /\ timer \in BOOLEAN /\ ending \in BOOLEAN
    BY <1>1 DEF SocketTypeOK
  <2>3. CASE Full /\ overflow = "drop-newest"
    <3>1. line = queued
      BY <2>3 DEF Overflowed
    <3>2. FlushIfOpen(queued, timer, ending)
      BY <2>1, <3>1
    <3>3. /\ queued' \in Rows /\ Len(queued') =< Capacity
          /\ socketBuffer' \in Rows /\ Len(socketBuffer') =< HighWaterMark + 1
          /\ timer' \in BOOLEAN /\ readyState' \in {"connecting", "open", "closing", "closed"}
          /\ Joined(delivered, socketBuffer', queued') = Joined(delivered, socketBuffer, queued)
      BY <1>1, <1>3, <2>2, <3>2, FlushKeeps
    <3>4. SocketTypeOK'
      BY <1>1, <1>2, <2>1, <3>3 DEF SocketTypeOK, Rows
    <3>5. Stream' = Stream /\ Stream \in Rows
      BY <1>3, <2>1, <3>3 DEF Stream, Joined, Rows
    <3>6. \A i \in 1..Len(Stream) : Stream[i] =< row
      BY <1>2, <1>4, <3>5 DEF Rows
    <3> QED
      BY <1>1, <1>4, <2>3, <3>4, <3>5, <3>6 DEF StreamInv, Rising
  <2>4. CASE ~(Full /\ overflow = "drop-newest")
    <3>1. PICK m \in 0..Len(queued) :
            /\ line = Append(Kept(queued, m), row)
            /\ Len(queued) - m < Capacity
            /\ overflow = "error" => m = 0
      <4>1. CASE ~Full
        <5>1. line = Append(queued, row) /\ Len(queued) < Capacity
          BY <1>2, <1>3, <4>1 DEF Full
        <5>2. Kept(queued, 0) = queued
          BY <1>3, SubSeqFull DEF Kept, Rows
        <5> QED
          BY <1>3, <5>1, <5>2
      <4>2. CASE Full /\ overflow = "drop-oldest"
        <5>1. line = Append(Tail(queued), row)
          BY <4>2 DEF Overflowed
        <5>2. Len(queued) = Capacity /\ queued # <<>> /\ 1 \in 0..Len(queued)
          BY <1>2, <1>3, <4>2 DEF Full
        <5>3. Kept(queued, 1) = Tail(queued)
          BY <1>3, <5>2, TailIsSubSeq DEF Kept, Rows
        <5> QED
          BY <1>2, <1>3, <4>2, <5>1, <5>2, <5>3
      <4>3. CASE Full /\ overflow = "latest"
        <5>1. line = <<row>>
          BY <4>3 DEF Overflowed
        <5>2. Kept(queued, Len(queued)) = <<>>
          BY <1>3, SubSeqEmpty DEF Kept
        <5>3. Append(<<>>, row) = <<row>>
          OBVIOUS
        <5>4. /\ Len(queued) \in 0..Len(queued) /\ Len(queued) - Len(queued) < Capacity
              /\ overflow # "error"
          BY <1>2, <1>3, <4>3
        <5>5. line = Append(Kept(queued, Len(queued)), row)
          BY <5>1, <5>2, <5>3
        <5> HIDE DEF line
        <5> QED
          BY <5>4, <5>5
      <4> QED
        BY <2>1, <2>2, <2>4, <4>1, <4>2, <4>3 DEF Policies
    <3> HIDE DEF line
    <3>2. /\ X \o line \in Rows /\ Len(X \o line) = Len(X) + Len(queued) - m + 1
          /\ Rising(X \o line) /\ \A i \in 1..Len(X \o line) : (X \o line)[i] =< row
      <4>1. row =< MaxWrites
        BY <1>2
      <4>2. /\ X \o Append(Kept(queued, m), row) \in Rows
            /\ Len(X \o Append(Kept(queued, m), row)) = Len(X) + Len(queued) - m + 1
            /\ Rising(X \o Append(Kept(queued, m), row))
            /\ \A i \in 1..Len(X \o Append(Kept(queued, m), row)) : (X \o Append(Kept(queued, m), row))[i] =< row
        <5> HIDE DEF X
        <5>1. /\ X \in Rows /\ queued \in Rows /\ written \in Nat /\ written + 1 =< MaxWrites
              /\ Rising(X \o queued) /\ \A i \in 1..Len(X \o queued) : (X \o queued)[i] =< written
          BY <1>2, <1>3, <1>4, <4>1
        <5> QED
          BY <5>1, Newest, ZenonT(60)
      <4>3. line = Append(Kept(queued, m), row)
        BY <3>1
      <4> HIDE DEF X
      <4> QED
        BY <4>2, <4>3, ZenonT(60)
    <3>3. /\ line \in Rows /\ Len(line) =< Capacity /\ Last(line) = row
      <4>1. Kept(queued, m) \in Rows /\ Len(Kept(queued, m)) = Len(queued) - m
        BY <1>3, Cut DEF Rows
      <4> QED
        BY <1>2, <1>3, <3>1, <4>1, AppendProperties DEF Last, Rows
    <3>4. /\ queued' \in Rows /\ Len(queued') =< Capacity
          /\ socketBuffer' \in Rows /\ Len(socketBuffer') =< HighWaterMark + 1
          /\ timer' \in BOOLEAN /\ readyState' \in {"connecting", "open", "closing", "closed"}
          /\ Joined(delivered, socketBuffer', queued') = Joined(delivered, socketBuffer, line)
          /\ queued' # <<>> => Last(queued') = Last(line)
      BY <1>1, <2>1, <2>2, <3>3, FlushKeeps
    <3>5. SocketTypeOK'
      BY <1>1, <1>2, <2>1, <3>4 DEF SocketTypeOK, Rows
    <3>6. Stream' = X \o line
      BY <2>1, <3>4 DEF Stream, Joined
    <3>7. (Rising(Stream) /\ \A i \in 1..Len(Stream) : Stream[i] =< written)'
      BY <1>1, <3>2, <3>6 DEF Rising
    <3>8. ((overflow = "error" /\ completion # "rejected") => Len(Stream) = written)'
      <4>1. Len(Stream) = Len(X) + Len(queued) /\ Len(X) \in Nat
        BY <1>3, <1>4, ConcatProperties DEF Rows
      <4>2. SUFFICES ASSUME overflow = "error", completion # "rejected" PROVE Len(Stream') = row
        BY <1>1, <2>1
      <4>3. m = 0 /\ Len(Stream) = written
        BY <3>1, <4>2 DEF StreamInv
      <4>4. Len(Stream') = Len(X) + Len(queued) - m + 1
        BY <3>2, <3>6
      <4> HIDE DEF X
      <4> QED
        BY <1>2, <1>3, <4>1, <4>3, <4>4
    <3> QED
      BY <1>1, <3>3, <3>4, <3>5, <3>7, <3>8 DEF StreamInv
  <2> QED
    BY <2>3, <2>4
<1>7. CASE OverflowFails
  <2>1. /\ queued' = queued /\ socketBuffer' = socketBuffer /\ delivered' = delivered
        /\ stopped' = TRUE /\ completion' = "rejected"
    BY <1>7 DEF OverflowFails, Failed
  <2>2. SocketTypeOK'
    BY <1>1, <1>2, <1>7, <2>1 DEF OverflowFails, Failed, SocketTypeOK
  <2>3. Stream' = Stream /\ Stream \in Rows
    BY <1>3, <2>1 DEF Stream, Rows
  <2>4. \A i \in 1..Len(Stream) : Stream[i] =< row
    BY <1>2, <1>4, <2>3 DEF Rows
  <2> QED
    BY <1>1, <1>4, <2>1, <2>2, <2>3, <2>4 DEF StreamInv, Rising
<1> QED
  BY <1>5, <1>6, <1>7 DEF Write

(* What the socket sends is where it was in the stream.                     *)
LEMMA Sent ==
  ASSUME NEW S, NEW d \in Seq(S), NEW b \in Seq(S), NEW q \in Seq(S), b # <<>>
  PROVE  Joined(Append(d, Head(b)), Tail(b), q) = Joined(d, b, q)
<1>1. Head(b) \in S /\ Tail(b) \in Seq(S) /\ <<Head(b)>> \in Seq(S)
  OBVIOUS
<1>2. Append(d, Head(b)) = d \o <<Head(b)>>
  BY <1>1, AppendIsConcat
<1>3. b = <<Head(b)>> \o Tail(b)
  <2> DEFINE u == <<Head(b)>> \o Tail(b)
  <2>1. Len(b) \in Nat \ {0} /\ Len(Tail(b)) = Len(b) - 1
    BY EmptySeq
  <2>2. u \in Seq(S) /\ Len(u) = Len(b)
    BY <1>1, <2>1
  <2>3. \A i \in 1..Len(b) : b[i] = u[i]
    BY <1>1, <2>1
  <2> HIDE DEF u
  <2>4. b = u
    BY <2>2, <2>3, SeqEqual
  <2> QED
    BY <2>4 DEF u
<1>4. (d \o <<Head(b)>>) \o Tail(b) = d \o (<<Head(b)>> \o Tail(b))
  BY <1>1, ConcatAssociative
<1>5. Append(d, Head(b)) \o Tail(b) = d \o b
  BY <1>2, <1>3, <1>4, ZenonT(60)
<1> QED
  BY <1>5 DEF Joined

(* What the head and the tail of a queue that is not empty are.          *)
LEMMA HeadAndTail ==
  ASSUME NEW S, NEW b \in Seq(S), b # <<>>
  PROVE  /\ Head(b) \in S /\ Tail(b) \in Seq(S)
         /\ Len(Tail(b)) = Len(b) - 1 /\ Len(b) \in Nat
<1>1. Head(b) \in S
  BY HeadTailProperties
<1>2. Tail(b) \in Seq(S)
  BY HeadTailProperties
<1>3. Len(Tail(b)) = Len(b) - 1
  BY HeadTailProperties
<1>4. Len(b) \in Nat
  OBVIOUS
<1> QED
  BY <1>1, <1>2, <1>3, <1>4

(* A row transmitted moves from the socket to what was delivered, and      *)
(* nothing else about the stream changes (the socket's side of sink.ts).   *)
LEMMA TransmitKeeps ==
  ASSUME StreamInv, Transmit
  PROVE  StreamInv'
<1>1. /\ delivered \in Seq(1..MaxWrites) /\ socketBuffer \in Seq(1..MaxWrites) /\ queued \in Seq(1..MaxWrites)
      /\ socketBuffer # <<>> /\ Len(socketBuffer) =< HighWaterMark + 1 /\ HighWaterMark \in Nat
  BY SinkAssumption DEF StreamInv, SocketTypeOK, Transmit
<1>2. /\ delivered' = Append(delivered, Head(socketBuffer)) /\ socketBuffer' = Tail(socketBuffer)
      /\ UNCHANGED <<sinkState, readyState, written, overflow, peerClosed>>
  BY DEF Transmit
<1>3. /\ delivered' \in Seq(1..MaxWrites) /\ socketBuffer' \in Seq(1..MaxWrites)
      /\ Len(socketBuffer') =< HighWaterMark + 1
  <2> DEFINE S == 1..MaxWrites
  <2> HIDE DEF S
  <2>1. socketBuffer \in Seq(S) /\ socketBuffer # <<>>
    BY <1>1 DEF S
  <2>2. /\ Head(socketBuffer) \in S /\ Tail(socketBuffer) \in Seq(S)
        /\ Len(Tail(socketBuffer)) = Len(socketBuffer) - 1 /\ Len(socketBuffer) \in Nat
    BY <2>1, HeadAndTail
  <2>3. delivered' \in Seq(S)
    BY <1>1, <1>2, <2>2 DEF S
  <2>4. Len(socketBuffer') =< HighWaterMark + 1
    BY <1>1, <1>2, <2>2
  <2> QED
    BY <1>2, <2>2, <2>3, <2>4 DEF S
<1>4. SocketTypeOK'
  BY <1>2, <1>3 DEF StreamInv, SocketTypeOK, sinkState
<1>5. Joined(delivered', socketBuffer', queued) = Joined(delivered, socketBuffer, queued)
  BY <1>1, <1>2, Sent
<1>6. Stream' = Stream
  BY <1>2, <1>5 DEF Stream, Joined, sinkState
<1> QED
  BY <1>2, <1>4, <1>6, StreamStep DEF sinkState

(* Every step of the sink and of its socket keeps the stream.              *)
LEMMA StreamKept ==
  ASSUME StreamInv, Settled => stopped, [SocketNext]_socketVars
  PROVE  StreamInv'
<1>1. timer \in BOOLEAN /\ ending \in BOOLEAN /\ TRUE \in BOOLEAN /\ FALSE \in BOOLEAN
  BY DEF StreamInv, SocketTypeOK
<1>2. CASE Write
  BY <1>2, WriteKeeps
<1>3. CASE Error
  BY <1>3, FailKeeps DEF Error
<1>4. CASE Complete
  <2>1. FlushIfOpen(queued, timer, TRUE) /\ ending' \in BOOLEAN
        /\ UNCHANGED <<overflow, written, stopped, completion, listening, delivered, peerClosed>>
    BY <1>4 DEF Complete
  <2> QED
    BY <1>1, <2>1, DrainKeeps
<1>5. CASE TimerFires
  <2>1. FlushIfOpen(queued, FALSE, ending) /\ ending' \in BOOLEAN
        /\ UNCHANGED <<overflow, written, stopped, completion, listening, delivered, peerClosed>>
    BY <1>1, <1>5 DEF TimerFires
  <2> QED
    BY <1>1, <2>1, DrainKeeps
<1>6. CASE Opened
  <2>1. Flush(queued, timer, ending) /\ ending' \in BOOLEAN
        /\ UNCHANGED <<overflow, written, stopped, completion, listening, delivered, peerClosed>>
    BY <1>1, <1>6 DEF Opened
  <2> QED
    BY <1>1, <2>1, DrainKeeps
<1>7. CASE Transmit
  BY <1>7, TransmitKeeps
<1>8. CASE SocketError
  BY <1>8, FailKeeps DEF SocketError
<1>9. CASE Closed
  <2>1. /\ UNCHANGED <<queued, ending, listening, socketBuffer, delivered, written, overflow, peerClosed>>
        /\ (UNCHANGED <<timer, stopped, completion>>
             \/ (timer' = FALSE /\ stopped' = TRUE /\ ~stopped
                 /\ completion' \in {"resolved", "rejected"}))
        /\ readyState' = "closed"
    BY <1>9 DEF Closed
  <2>2. SocketTypeOK'
    BY <2>1 DEF StreamInv, SocketTypeOK
  <2>3. Stream' = Stream
    BY <2>1 DEF Stream
  <2>4. (Rising(Stream) /\ \A i \in 1..Len(Stream) : Stream[i] =< written)'
    BY <2>1, <2>3 DEF StreamInv, Rising
  <2>5. CASE completion # "rejected" \/ completion' = "rejected"
    BY <2>1, <2>2, <2>3, <2>5, StreamStep
  <2>6. CASE completion = "rejected" /\ completion' # "rejected"
    BY <2>1, <2>6 DEF Settled
  <2> QED
    BY <2>5, <2>6
<1>10. CASE PeerCloses \/ UNCHANGED socketVars
  <2>1. /\ UNCHANGED <<sinkState, socketBuffer, delivered, written, overflow>>
        /\ readyState' \in {readyState, "closing"} /\ peerClosed' \in {peerClosed, TRUE}
    BY <1>10 DEF PeerCloses, socketVars, socketState
  <2>2. SocketTypeOK'
    BY <2>1 DEF StreamInv, SocketTypeOK, sinkState
  <2>3. Stream' = Stream
    BY <2>1 DEF Stream, sinkState
  <2> QED
    BY <2>1, <2>2, <2>3, StreamStep DEF sinkState
<1> QED
  BY <1>2, <1>3, <1>4, <1>5, <1>6, <1>7, <1>8, <1>9, <1>10 DEF SocketNext

-----------------------------------------------------------------------------
(* A socket that is closing was drained, or the server closed it, or the   *)
(* sink has failed; and a sink whose completion settled is stopped.        *)
ClosesDrained ==
  (readyState \in {"closing", "closed"} /\ ~peerClosed /\ completion # "rejected") =>
    ending /\ queued = <<>> /\ socketBuffer = <<>>
ResolvedDrained ==
  completion = "resolved" =>
    /\ ending /\ queued = <<>> /\ readyState = "closed"
    /\ peerClosed \/ socketBuffer = <<>>
SettledInv == (Settled => stopped) /\ ClosesDrained /\ ResolvedDrained

(* flush() closes only what it left empty, and only after complete().      *)
LEMMA FlushCloses ==
  ASSUME NEW line, NEW armed, NEW end \in BOOLEAN, Flush(line, armed, end)
  PROVE  /\ readyState' \in {"open", "closing"}
         /\ readyState' = "closing" => end /\ queued' = <<>> /\ socketBuffer' = <<>>
  BY DEF Flush, Undrained

(* Giving up rejects: nothing is claimed of what was left.                 *)
LEMMA FailSettles ==
  ASSUME Failed
  PROVE  SettledInv'
  BY DEF Failed, SettledInv, Settled, ClosesDrained, ResolvedDrained

(* A flush by the sink that is not stopped.                                *)
LEMMA FlushSettles ==
  ASSUME SettledInv, NEW line, NEW armed, NEW end \in BOOLEAN,
         \/ Flush(line, armed, end) /\ readyState \in {"connecting", "open"}
         \/ FlushIfOpen(line, armed, end) /\ (readyState = "open" \/ line = queued),
         ending' \in BOOLEAN, end => ending', ending => ending',
         UNCHANGED <<stopped, completion, peerClosed>>
  PROVE  SettledInv'
<1>1. CASE Flush(line, armed, end) /\ readyState \in {"connecting", "open"}
  <2>1. completion # "resolved"
    BY <1>1 DEF SettledInv, ResolvedDrained
  <2>2. /\ readyState' \in {"open", "closing"}
        /\ readyState' = "closing" => end /\ queued' = <<>> /\ socketBuffer' = <<>>
    BY <1>1, FlushCloses
  <2> QED
    BY <2>1, <2>2 DEF SettledInv, Settled, ClosesDrained, ResolvedDrained
<1>2. CASE ~(Flush(line, armed, end) /\ readyState \in {"connecting", "open"})
  <2>1. queued' = line /\ UNCHANGED <<socketBuffer, readyState>>
    BY <1>2 DEF FlushIfOpen
  <2>2. line = queued \/ readyState = "open"
    BY <1>2
  <2> QED
    BY <2>1, <2>2 DEF SettledInv, Settled, ClosesDrained, ResolvedDrained
<1> QED
  BY <1>1, <1>2

(* Every step keeps it.                                                    *)
LEMMA SettledKept ==
  ASSUME StreamInv, SettledInv, [SocketNext]_socketVars
  PROVE  SettledInv'
<1>1. timer \in BOOLEAN /\ ending \in BOOLEAN /\ FALSE \in BOOLEAN /\ TRUE \in BOOLEAN
      /\ readyState \in {"connecting", "open", "closing", "closed"}
  BY DEF StreamInv, SocketTypeOK
<1>2. CASE Failed
  BY <1>2, FailSettles
<1>3. CASE Write
  <2>1. ~stopped /\ ~ending /\ peerClosed' = peerClosed /\ completion = "unsettled"
    BY <1>3 DEF Write, SettledInv, Settled
  <2>2. CASE SendDirect
    BY <2>1, <2>2 DEF SendDirect, Direct, sinkState, SettledInv, Settled, ClosesDrained, ResolvedDrained
  <2>3. CASE Enqueue
    <3>1. PICK line : FlushIfOpen(line, timer, ending)
      BY <2>3 DEF Enqueue
    <3>2. UNCHANGED <<ending, stopped, completion>>
      BY <2>3 DEF Enqueue
    <3>3. CASE readyState = "open"
      BY <1>1, <2>1, <3>1, <3>2, <3>3, FlushSettles
    <3>4. CASE readyState # "open"
      <4>1. UNCHANGED <<socketBuffer, readyState>>
        BY <3>1, <3>4 DEF FlushIfOpen
      <4> QED
        BY <2>1, <3>2, <4>1 DEF SettledInv, Settled, ClosesDrained, ResolvedDrained
    <3> QED
      BY <3>3, <3>4
  <2> QED
    BY <1>2, <1>3, <2>2, <2>3 DEF Write, OverflowFails
<1>4. CASE Complete
  <2>1. /\ FlushIfOpen(queued, timer, TRUE) /\ ending' = TRUE
        /\ UNCHANGED <<stopped, completion, peerClosed>>
    BY <1>4 DEF Complete
  <2> QED
    BY <1>1, <2>1, FlushSettles
<1>5. CASE TimerFires
  <2>1. FlushIfOpen(queued, FALSE, ending) /\ UNCHANGED <<ending, stopped, completion, peerClosed>>
    BY <1>5 DEF TimerFires
  <2> QED
    BY <1>1, <2>1, FlushSettles
<1>6. CASE Opened
  <2>1. /\ Flush(queued, timer, ending) /\ readyState = "connecting"
        /\ UNCHANGED <<ending, stopped, completion, peerClosed>>
    BY <1>6 DEF Opened
  <2> QED
    BY <1>1, <2>1, FlushSettles
<1>7. CASE Transmit
  <2>1. /\ readyState \in {"open", "closing"} /\ socketBuffer # <<>>
        /\ UNCHANGED <<queued, ending, stopped, completion, readyState, peerClosed>>
    BY <1>7 DEF Transmit, sinkState
  <2> QED
    BY <2>1 DEF SettledInv, Settled, ClosesDrained, ResolvedDrained
<1>8. CASE Closed
  <2>1. /\ readyState = "closing" /\ readyState' = "closed"
        /\ UNCHANGED <<queued, ending, socketBuffer, peerClosed>>
    BY <1>8 DEF Closed
  <2>2. CASE UNCHANGED <<stopped, completion>>
    BY <2>1, <2>2 DEF SettledInv, Settled, ClosesDrained, ResolvedDrained
  <2>3. CASE ~UNCHANGED <<stopped, completion>>
    <3>1. ~stopped /\ stopped' = TRUE /\ completion' = IF Resolves THEN "resolved" ELSE "rejected"
      BY <1>8, <2>3 DEF Closed
    <3>2. completion = "unsettled"
      BY <3>1 DEF SettledInv, Settled
    <3> QED
      BY <2>1, <3>1, <3>2 DEF SettledInv, Settled, ClosesDrained, ResolvedDrained, Resolves
  <2> QED
    BY <2>2, <2>3
<1>9. CASE PeerCloses
  BY <1>9 DEF PeerCloses, sinkState, SettledInv, Settled, ClosesDrained, ResolvedDrained
<1>10. CASE UNCHANGED socketVars
  BY <1>10 DEF socketVars, sinkState, socketState, SettledInv, Settled, ClosesDrained, ResolvedDrained
<1> QED
  BY <1>2, <1>3, <1>4, <1>5, <1>6, <1>7, <1>8, <1>9, <1>10 DEF SocketNext, Error, SocketError

(* A sink that was just made has an empty stream, and is unsettled.        *)
LEMMA InitStream ==
  ASSUME SocketInit
  PROVE  StreamInv /\ SettledInv
<1>1. Capacity \in Nat \ {0} /\ HighWaterMark \in Nat /\ MaxWrites \in Nat
  BY SinkAssumption
<1>2. SocketTypeOK
  <2>1. <<>> \in Seq(1..MaxWrites) /\ Len(<<>>) = 0
    BY EmptySeq
  <2>2. 0 \in 0..MaxWrites /\ 0 =< Capacity /\ 0 =< HighWaterMark + 1
    BY <1>1
  <2>3. overflow \in Policies /\ written \in 0..MaxWrites
    BY <2>2 DEF SocketInit
  <2>4. /\ queued \in Seq(1..MaxWrites) /\ Len(queued) =< Capacity
        /\ socketBuffer \in Seq(1..MaxWrites) /\ Len(socketBuffer) =< HighWaterMark + 1
        /\ delivered \in Seq(1..MaxWrites)
    BY <2>1, <2>2, ZenonT(60) DEF SocketInit
  <2>5. timer \in BOOLEAN /\ ending \in BOOLEAN /\ stopped \in BOOLEAN /\ listening \in BOOLEAN
    BY DEF SocketInit
  <2>6. /\ peerClosed \in BOOLEAN
        /\ completion \in {"unsettled", "resolved", "rejected"}
        /\ readyState \in {"connecting", "open", "closing", "closed"}
    BY DEF SocketInit
  <2> QED
    BY <2>3, <2>4, <2>5, <2>6 DEF SocketTypeOK
<1>3. Stream = <<>> /\ Len(Stream) = 0
  BY DEF SocketInit, Stream
<1> QED
  BY <1>2, <1>3 DEF SocketInit, StreamInv, Rising, SettledInv, Settled, ClosesDrained, ResolvedDrained

(* The stream is what it should be in every state that is reached.         *)
LEMMA SinkInvariant == SocketSpec => [](StreamInv /\ SettledInv)
<1>0. SocketInit => StreamInv /\ SettledInv
  BY InitStream
<1>1. StreamInv /\ SettledInv /\ [SocketNext]_socketVars => (StreamInv /\ SettledInv)'
  BY StreamKept, SettledKept DEF SettledInv
<1> QED
  BY <1>0, <1>1, PTL DEF SocketSpec

(* Under every overflow policy the rows that were sent, are being sent and *)
(* wait are in the order they were written, none twice; "error" loses none *)
(* before it fails, and the policies that favour new rows keep the newest  *)
(* one (sink.ts write, enqueue, flush).                                  *)
THEOREM Policy == SocketSpec => []PolicyKept
<1>1. StreamInv => PolicyKept
  <2> SUFFICES ASSUME StreamInv PROVE PolicyKept
    OBVIOUS
  <2>1. Len(Stream) \in Nat
    BY DEF StreamInv, SocketTypeOK, Stream
  <2>2. \A i \in 1..Len(Stream) - 1 : Stream[i] < Stream[i + 1]
    <3> TAKE i \in 1..Len(Stream) - 1
    <3>1. i \in 1..Len(Stream) /\ i + 1 \in 1..Len(Stream) /\ i < i + 1
      BY <2>1
    <3> QED
      BY <3>1 DEF StreamInv, Rising
  <2> QED
    BY <2>2 DEF StreamInv, PolicyKept
<1> QED
  BY SinkInvariant, <1>1, PTL

(* When completion resolves nothing is queued and, unless the server began *)
(* to close, the socket has drained, so that under "error" as many rows    *)
(* were transmitted as were written (sink.ts flush, onClose).              *)
THEOREM Drained == SocketSpec => []DrainedUnlessPeerCloses
<1>1. StreamInv /\ SettledInv => DrainedUnlessPeerCloses
  <2> SUFFICES ASSUME StreamInv, SettledInv, completion = "resolved", ~peerClosed
               PROVE  ending /\ queued = <<>> /\ socketBuffer = <<>>
                      /\ (overflow = "error" => Len(delivered) = written)
    BY DEF DrainedUnlessPeerCloses, SettledInv, ResolvedDrained
  <2>1. ending /\ queued = <<>> /\ socketBuffer = <<>>
    BY DEF SettledInv, ResolvedDrained
  <2>2. delivered \in Seq(1..MaxWrites)
    BY DEF StreamInv, SocketTypeOK
  <2>3. Stream = delivered
    BY <2>1, <2>2, ConcatEmptySeq DEF Stream
  <2>4. overflow = "error" => Len(Stream) = written
    BY DEF StreamInv
  <2> QED
    BY <2>1, <2>3, <2>4
<1> QED
  BY SinkInvariant, <1>1, PTL

-----------------------------------------------------------------------------
(***************************************************************************)
(* The file of a batch (BatchRecipe).                                      *)
(***************************************************************************)

Lines == (1..MaxRows) \cup {Header, Old}

(* The sink is told of one end, when the Node ends or could not be run. *)
ToldOnce ==
  /\ recipe \in {"bind", "start"} => node = "bound"
  /\ node \in {"bound", "running"} => told = <<>>

(* A sink that has not failed stops with the Node, and only then settles. *)
Stopping ==
  /\ fileCompletion # "pending" => fileStopped
  /\ ~fileStopped => csv \in {"none", "open"}
  /\ (fileStopped /\ fileCompletion # "rejected") => node \in {"ended", "disposed"}

(* Before it is opened a file is as it was; then no line is missing. *)
NothingMissing ==
  /\ file \in Seq(Lines) /\ queue \in Seq(Lines)
  /\ fileCompletion # "rejected" =>
       /\ csv = "none" => /\ rows = 0 /\ queue = <<>> /\ file = <<Old>> /\ output = "none"
                          /\ columns <=> declared \/ appends
       /\ csv = "open" => rows > 0
       /\ csv # "none" => file \o queue = Whole

(* What resolved has nothing on its way. *)
Resolved ==
  /\ fileCompletion = "resolved" => queue = <<>> /\ output # "open" /\ (csv = "none" => appends)
  /\ recipe = "resolved" => fileCompletion = "resolved" /\ node = "disposed"

FileInv == BatchTypeOK /\ ToldOnce /\ Stopping /\ NothingMissing /\ Resolved

-----------------------------------------------------------------------------
(***************************************************************************)
(* Sequences of lines.                                                     *)
(***************************************************************************)

Numbers(n) == [i \in 1..n |-> i]

Before == IF appends THEN <<Old>> ELSE IF rows = 0 /\ ~declared THEN <<>> ELSE <<Header>>

(* The rows up to the next one are the rows so far and it.                  *)
LEMMA OneMore ==
  ASSUME NEW n \in 0..MaxRows, n < MaxRows
  PROVE  /\ Numbers(n) \in Seq(Lines)
         /\ Numbers(n) \o <<n + 1>> = Numbers(n + 1)
         /\ <<n + 1>> \in Seq(Lines)
<1>1. n \in Nat /\ n + 1 \in 1..MaxRows /\ MaxRows \in Nat
  BY BatchAssumption
<1>2. Numbers(n) \in Seq(Lines) /\ Len(Numbers(n)) = n
  BY <1>1 DEF Numbers, Lines
<1>3. <<n + 1>> \in Seq(Lines)
  BY <1>1 DEF Lines
<1>4. Numbers(n) \o <<n + 1>> = Numbers(n + 1)
  BY <1>1, <1>2 DEF Numbers
<1> QED
  BY <1>2, <1>3, <1>4

(* A line at the end of what is on its way is at the end of it all.         *)
LEMMA AtTheEnd ==
  ASSUME NEW f \in Seq(Lines), NEW q \in Seq(Lines), NEW b \in Seq(Lines),
         NEW n \in 0..MaxRows, n < MaxRows, f \o q = b \o Numbers(n)
  PROVE  /\ q \o <<n + 1>> \in Seq(Lines)
         /\ f \o (q \o <<n + 1>>) = b \o Numbers(n + 1)
<1> DEFINE k == Numbers(n)
           l == <<n + 1>>
<1>1. k \in Seq(Lines) /\ l \in Seq(Lines)
  BY OneMore
<1>5. k \o l = Numbers(n + 1)
  BY OneMore
<1> HIDE DEF k, l
<1>2. (f \o q) \o l = f \o (q \o l)
  BY ONLY <1>1, ConcatAssociative, f \in Seq(Lines), q \in Seq(Lines)
<1>3. (b \o k) \o l = b \o (k \o l)
  BY ONLY <1>1, ConcatAssociative, b \in Seq(Lines)
<1>4. q \o l \in Seq(Lines)
  BY <1>1, ConcatProperties
<1> QED
  BY <1>2, <1>3, <1>4, <1>5 DEF k, l

(* A line that reaches the file is no longer on its way to it.              *)
LEMMA Flushed ==
  ASSUME NEW f \in Seq(Lines), NEW q \in Seq(Lines), q # <<>>
  PROVE  /\ Append(f, Head(q)) \in Seq(Lines) /\ Tail(q) \in Seq(Lines)
         /\ Append(f, Head(q)) \o Tail(q) = f \o q
<1>1. Head(q) \in Lines /\ Tail(q) \in Seq(Lines) /\ <<Head(q)>> \in Seq(Lines)
  BY HeadTailProperties
<1>2. <<Head(q)>> \o Tail(q) = q
  <2>1. Len(q) \in Nat /\ Len(q) > 0 /\ Head(q) = q[1]
    BY EmptySeq
  <2>2. Len(Tail(q)) = Len(q) - 1 /\ \A i \in 1..Len(Tail(q)) : Tail(q)[i] = q[i + 1]
    BY HeadTailProperties
  <2>3. DEFINE r == <<Head(q)>> \o Tail(q)
  <2>4. r \in Seq(Lines) /\ Len(r) = Len(q)
    BY <1>1, <2>1, <2>2
  <2>5. \A i \in 1..Len(q) : r[i] = q[i]
    BY <1>1, <2>1, <2>2
  <2> QED
    BY <2>4, <2>5, SeqEqual
<1>3. Append(f, Head(q)) = f \o <<Head(q)>>
  BY <1>1, AppendIsConcat
<1>4. (f \o <<Head(q)>>) \o Tail(q) = f \o (<<Head(q)>> \o Tail(q))
  BY <1>1, ConcatAssociative
<1>5. Append(f, Head(q)) \in Seq(Lines)
  BY <1>1
<1> QED
  BY <1>1, <1>2, <1>3, <1>4, <1>5

(* Nothing before or after a sequence leaves it.                            *)
LEMMA Nothing ==
  ASSUME NEW s \in Seq(Lines)
  PROVE  s \o <<>> = s /\ <<>> \o s = s /\ Numbers(0) = <<>>
<1>1. Numbers(0) = <<>>
  BY DEF Numbers
<1> QED
  BY <1>1, ConcatEmptySeq

-----------------------------------------------------------------------------
(***************************************************************************)
(* The invariant holds at first, and every step keeps it.                  *)
(***************************************************************************)

LEMMA FileInit == BatchInit => FileInv
<1> SUFFICES ASSUME BatchInit PROVE FileInv
  OBVIOUS
<1>1. BatchTypeOK
  <2>1. columns \in BOOLEAN
    BY DEF BatchInit
  <2>2. bad \subseteq 1..MaxRows /\ rows \in 0..MaxRows /\ Len(told) =< 1
    BY BatchAssumption DEF BatchInit
  <2> QED
    BY <2>1, <2>2 DEF BatchInit, BatchTypeOK
<1>2. ToldOnce /\ Stopping /\ Resolved
  BY DEF BatchInit, ToldOnce, Stopping, Resolved
<1>3. NothingMissing
  <2>1. <<Old>> \in Seq(Lines) /\ <<>> \in Seq(Lines)
    BY DEF Lines
  <2> QED
    BY <2>1 DEF BatchInit, NothingMissing
<1> QED
  BY <1>1, <1>2, <1>3 DEF FileInv

(* A complete run's file changes with its rows only.                        *)
LEMMA SameWhole ==
  ASSUME UNCHANGED given, UNCHANGED rows
  PROVE  Whole' = Whole
BY DEF Whole, given

(* A step that leaves the sink alone.                                       *)
LEMMA LeavesFile ==
  ASSUME FileInv, UNCHANGED <<given, promise, streams>>, UNCHANGED rows
  PROVE  NothingMissing'
<1>1. Whole' = Whole
  BY SameWhole
<1> QED
  BY <1>1 DEF FileInv, NothingMissing, given, promise, streams

(* A failure takes the sink's promise, or comes after another one.          *)
LEMMA FailsFile ==
  ASSUME FileInv, FailFile, UNCHANGED given, UNCHANGED rows, fileCompletion # "resolved"
  PROVE  /\ fileStopped' = TRUE /\ fileCompletion' = "rejected"
         /\ csv' \in {csv, "destroyed"} /\ output' \in {output, "failed"} /\ columns' = columns
         /\ csv' = "open" => csv' = csv /\ output' = output
         /\ NothingMissing'
<1>1. fileCompletion \in {"pending", "rejected"} /\ (fileCompletion = "rejected" => fileStopped = TRUE)
  BY DEF FileInv, BatchTypeOK, Stopping
<1>2. file' = file /\ queue' = queue /\ fileCompletion' = "rejected" /\ fileStopped' = TRUE /\ columns' = columns
  BY <1>1 DEF FailFile, promise, streams
<1>3. /\ csv' \in {csv, "destroyed"} /\ output' \in {output, "failed"}
      /\ csv' = "open" => csv' = csv /\ output' = output
  BY <1>1 DEF FailFile, promise, streams, OutputDestroyed
<1>4. NothingMissing'
  BY <1>2 DEF FileInv, NothingMissing
<1> QED
  BY <1>2, <1>3, <1>4

LEMMA BindKeeps ==
  ASSUME FileInv, Bind \/ Start, UNCHANGED given
  PROVE  FileInv'
<1>1. recipe \in {"bind", "start"} /\ node = "bound" /\ told = <<>> /\ fileCompletion # "resolved"
  BY DEF FileInv, Bind, Start, ToldOnce, Stopping
<1>2. CASE Unsubscribed
  <2>1. FailFile /\ rows' = rows /\ nodeCompletion' = nodeCompletion
    BY <1>2 DEF Unsubscribed
  <2>2. recipe' = "rejected" /\ node' = "disposed" /\ Len(told') = 1
    BY <1>1, <1>2 DEF Unsubscribed
  <2>3. /\ fileStopped' = TRUE /\ fileCompletion' = "rejected"
        /\ csv' \in {csv, "destroyed"} /\ output' \in {output, "failed"} /\ columns' = columns
        /\ csv' = "open" => csv' = csv /\ output' = output
        /\ NothingMissing'
    BY <1>1, <2>1, FailsFile
  <2>4. BatchTypeOK'
    BY <2>1, <2>2, <2>3 DEF FileInv, BatchTypeOK, given
  <2>5. ToldOnce' /\ Stopping' /\ Resolved'
    BY <2>2, <2>3 DEF ToldOnce, Stopping, Resolved
  <2> QED
    BY <2>3, <2>4, <2>5 DEF FileInv
<1>3. CASE ~Unsubscribed
  <2>1. UNCHANGED <<promise, streams>> /\ rows' = rows /\ nodeCompletion' = nodeCompletion /\ told' = told
    BY <1>3 DEF Bind, Start
  <2>2. \/ recipe' = "start" /\ node' = "bound"
        \/ recipe' = "wait" /\ node' = "running"
    BY <1>1, <1>3 DEF Bind, Start
  <2>3. NothingMissing'
    BY <2>1, LeavesFile DEF promise, streams
  <2>4. BatchTypeOK'
    BY <2>1, <2>2 DEF FileInv, BatchTypeOK, given, promise, streams
  <2>5. ToldOnce' /\ Stopping' /\ Resolved'
    BY <1>1, <2>1, <2>2 DEF FileInv, ToldOnce, Stopping, Resolved, promise, streams, BatchTypeOK
  <2> QED
    BY <2>3, <2>4, <2>5 DEF FileInv
<1> QED
  BY <1>2, <1>3

LEMMA SettleKeeps ==
  ASSUME FileInv, Settle, UNCHANGED given
  PROVE  FileInv'
<1>1. /\ recipe' \in {"resolved", "rejected"} /\ node' = "disposed" /\ told' = ToldOnDispose
      /\ nodeCompletion' = nodeCompletion /\ rows' = rows /\ UNCHANGED <<promise, streams>>
      /\ recipe' = "resolved" => fileCompletion = "resolved"
  BY DEF Settle, BothResolved
<1>7. Len(told') <= 1
  <2>1. CASE node = "running"
    <3>1. told = <<>>
      BY <2>1 DEF FileInv, ToldOnce
    <3>2. told' = <<"complete">>
      BY <1>1, <2>1, <3>1 DEF ToldOnDispose
    <3> QED
      BY <3>2
  <2>2. CASE node # "running"
    BY <1>1, <2>2 DEF ToldOnDispose, FileInv, BatchTypeOK
  <2> QED
    BY <2>1, <2>2
<1>2. NothingMissing'
  BY <1>1, LeavesFile DEF promise, streams
<1>3. BatchTypeOK'
  BY <1>1, <1>7 DEF FileInv, BatchTypeOK, given, promise, streams
<1>4. ToldOnce'
  BY <1>1 DEF ToldOnce
<1>5. Stopping'
  BY <1>1 DEF FileInv, Stopping, promise, streams
<1>6. Resolved'
  BY <1>1 DEF FileInv, Resolved, promise, streams, given
<1> QED
  BY <1>2, <1>3, <1>4, <1>5, <1>6 DEF FileInv

LEMMA FailsKeeps ==
  ASSUME FileInv, NodeFails, UNCHANGED given
  PROVE  FileInv'
<1>1. node = "running" /\ told = <<>> /\ fileCompletion # "resolved" /\ recipe # "resolved"
  BY DEF FileInv, NodeFails, ToldOnce, Stopping, Resolved
<1>2. FailFile /\ rows' = rows /\ recipe' = recipe /\ nodeCompletion' = "rejected" /\ node' = "ended"
  BY DEF NodeFails
<1>3. Len(told') = 1
  BY <1>1 DEF NodeFails
<1>4. /\ fileStopped' = TRUE /\ fileCompletion' = "rejected"
      /\ csv' \in {csv, "destroyed"} /\ output' \in {output, "failed"} /\ columns' = columns
      /\ csv' = "open" => csv' = csv /\ output' = output
      /\ NothingMissing'
  BY <1>1, <1>2, FailsFile
<1>5. BatchTypeOK'
  BY <1>2, <1>3, <1>4 DEF FileInv, BatchTypeOK, given
<1>6. ToldOnce' /\ Stopping' /\ Resolved'
  BY <1>1, <1>2, <1>4 DEF FileInv, ToldOnce, Stopping, Resolved, BatchTypeOK
<1> QED
  BY <1>4, <1>5, <1>6 DEF FileInv

LEMMA ErrorKeeps ==
  ASSUME FileInv, StreamError, UNCHANGED given
  PROVE  FileInv'
<1>1. output = "open" /\ fileCompletion # "resolved" /\ recipe # "resolved"
  BY DEF FileInv, StreamError, Resolved
<1>2. FailFile /\ rows' = rows /\ recipe' = recipe /\ nodeCompletion' = nodeCompletion /\ node' = node /\ told' = told
  BY DEF StreamError, run
<1>4. /\ fileStopped' = TRUE /\ fileCompletion' = "rejected"
      /\ csv' \in {csv, "destroyed"} /\ output' \in {output, "failed"} /\ columns' = columns
      /\ csv' = "open" => csv' = csv /\ output' = output
      /\ NothingMissing'
  BY <1>1, <1>2, FailsFile
<1>5. BatchTypeOK'
  BY <1>2, <1>4 DEF FileInv, BatchTypeOK, given
<1>6. ToldOnce' /\ Stopping' /\ Resolved'
  BY <1>1, <1>2, <1>4 DEF FileInv, ToldOnce, Stopping, Resolved
<1> QED
  BY <1>4, <1>5, <1>6 DEF FileInv

(* The write stream takes a line, or finishes.                              *)
LEMMA FileFlushKeeps ==
  ASSUME FileInv, FlushLine, UNCHANGED given
  PROVE  FileInv'
<1>1. /\ output = "open" /\ queue # <<>> /\ UNCHANGED <<run, promise, columns, csv, output, told>>
      /\ file' = Append(file, Head(queue)) /\ queue' = Tail(queue)
  BY DEF FlushLine
<1>2. rows' = rows
  BY <1>1 DEF run
<1>3. file \in Seq(Lines) /\ queue \in Seq(Lines)
  BY DEF FileInv, NothingMissing
<1>4. file' \in Seq(Lines) /\ queue' \in Seq(Lines) /\ file' \o queue' = file \o queue
  BY <1>1, <1>3, Flushed
<1>5. Whole' = Whole
  BY <1>2, SameWhole
<1>6. NothingMissing'
  <2>1. fileCompletion' # "rejected" =>
          /\ csv' # "none" /\ (csv' = "open" => rows' > 0)
          /\ file \o queue = Whole
    BY <1>1, <1>2 DEF FileInv, NothingMissing, promise
  <2> QED
    BY <1>4, <1>5, <2>1 DEF NothingMissing
<1>7. BatchTypeOK'
  BY <1>1 DEF FileInv, BatchTypeOK, given, promise, run
<1>8. ToldOnce' /\ Stopping'
  BY <1>1 DEF FileInv, ToldOnce, Stopping, promise, run
<1>9. Resolved'
  BY <1>1 DEF FileInv, Resolved, promise, run
<1> QED
  BY <1>6, <1>7, <1>8, <1>9 DEF FileInv

LEMMA FinishKeeps ==
  ASSUME FileInv, Finish, UNCHANGED given
  PROVE  FileInv'
<1>1. /\ output = "open" /\ csv = "ended" /\ queue = <<>> /\ output' = "finished"
      /\ UNCHANGED <<run, fileStopped, columns, csv, queue, file, told>>
      /\ fileCompletion' \in {"resolved", fileCompletion}
      /\ fileCompletion' # "pending"
      /\ fileCompletion' = "rejected" => fileCompletion = "rejected"
      /\ fileCompletion = "rejected" => fileCompletion' = "rejected"
  BY DEF Finish, FileInv, BatchTypeOK
<1>2. rows' = rows
  BY <1>1 DEF run
<1>3. Whole' = Whole
  BY <1>2, SameWhole
<1>4. NothingMissing'
  BY <1>1, <1>3 DEF FileInv, NothingMissing
<1>5. BatchTypeOK'
  BY <1>1 DEF FileInv, BatchTypeOK, given, run
<1>6. fileStopped = TRUE
  BY <1>1 DEF FileInv, Stopping, BatchTypeOK
<1>7. ToldOnce' /\ Stopping'
  BY <1>1, <1>6 DEF FileInv, ToldOnce, Stopping, run
<1>8. Resolved'
  BY <1>1 DEF FileInv, Resolved, run
<1> QED
  BY <1>4, <1>5, <1>7, <1>8 DEF FileInv

(* The Node completes: the file's stream ends, or there is nothing to send. *)
LEMMA CompletesKeeps ==
  ASSUME FileInv, NodeCompletes, UNCHANGED given
  PROVE  FileInv'
<1>1. /\ node = "running" /\ node' = "ended" /\ told' = Append(told, "complete")
      /\ nodeCompletion' = "resolved" /\ UNCHANGED <<recipe, rows>> /\ CompleteFile
  BY DEF NodeCompletes
<1>2. told = <<>> /\ recipe \notin {"bind", "start", "resolved"}
  BY <1>1 DEF FileInv, ToldOnce, Resolved
<1>3. Len(told') = 1
  BY <1>1, <1>2
<1>4. ToldOnce'
  BY <1>1, <1>2 DEF ToldOnce
<1>5. Whole' = Whole
  BY <1>1, SameWhole
<1>6. CASE fileStopped
  <2>1. UNCHANGED <<promise, streams>> /\ fileCompletion = "rejected"
    BY <1>1, <1>6 DEF CompleteFile, FileInv, Stopping
  <2>2. NothingMissing'
    BY <1>1, <2>1, LeavesFile DEF promise, streams
  <2>3. BatchTypeOK'
    BY <1>1, <1>3, <2>1 DEF FileInv, BatchTypeOK, given, promise, streams
  <2>4. Stopping' /\ Resolved'
    BY <1>1, <1>2, <2>1 DEF FileInv, Stopping, Resolved, promise, streams
  <2> QED
    BY <1>4, <2>2, <2>3, <2>4 DEF FileInv
<1>7. CASE ~fileStopped
  <2>1. fileCompletion = "pending" /\ fileStopped' = TRUE /\ csv \in {"none", "open"}
    BY <1>1, <1>7 DEF FileInv, Stopping, CompleteFile
  <2>2. NothingMissing
    BY DEF FileInv
  <2>3. CASE csv # "none"
    <3>1. csv' = "ended" /\ UNCHANGED <<fileCompletion, columns, output, queue, file>>
      BY <1>1, <1>7, <2>3 DEF CompleteFile
    <3>2. NothingMissing'
      BY <1>5, <2>1, <2>2, <2>3, <3>1 DEF NothingMissing
    <3>3. BatchTypeOK'
      BY <1>1, <1>3, <2>1, <3>1 DEF FileInv, BatchTypeOK, given
    <3>4. Stopping' /\ Resolved'
      BY <1>1, <1>2, <2>1, <3>1 DEF Stopping, Resolved
    <3> QED
      BY <1>4, <3>2, <3>3, <3>4 DEF FileInv
  <2>4. CASE csv = "none"
    <3>1. rows = 0 /\ queue = <<>> /\ file = <<Old>> /\ output = "none" /\ (columns <=> declared \/ appends)
      BY <2>1, <2>2, <2>4 DEF NothingMissing
    <3>2. <<Header>> \in Seq(Lines) /\ <<>> \in Seq(Lines)
      BY DEF Lines
    <3>3. Numbers(0) = <<>> /\ <<Header>> \o <<>> = <<Header>> /\ <<>> \o <<Header>> = <<Header>>
          /\ <<>> \o <<>> = <<>>
      BY <3>2, Nothing
    <3>4. CASE appends
      <4>1. fileCompletion' = "resolved" /\ UNCHANGED streams
        BY <1>1, <1>7, <2>4, <3>4 DEF CompleteFile
      <4>2. NothingMissing'
        BY <1>1, <2>2, <2>4, <3>1, <4>1 DEF NothingMissing, streams, given
      <4>3. BatchTypeOK'
        BY <1>1, <1>3, <2>1, <4>1 DEF FileInv, BatchTypeOK, given, streams
      <4>4. Stopping' /\ Resolved'
        BY <1>1, <1>2, <2>1, <2>4, <3>1, <3>4, <4>1 DEF Stopping, Resolved, streams, given
      <4> QED
        BY <1>4, <4>2, <4>3, <4>4 DEF FileInv
    <3>5. CASE ~appends
      <4>1. /\ fileCompletion' = fileCompletion /\ columns' = columns
            /\ csv' = "ended" /\ output' = "open" /\ file' = <<>>
        BY <1>1, <1>7, <2>4, <3>5 DEF CompleteFile, Through, FinishEmptyFile
      <4>2. queue' = IF columns THEN <<Header>> ELSE <<>>
        BY <1>1, <1>7, <2>4, <3>1, <3>3, <3>5 DEF CompleteFile, Through, FinishEmptyFile, FirstLines
      <4>3. Whole = IF columns THEN <<Header>> ELSE <<>>
        <5>1. [i \in 1..rows |-> i] = <<>>
          BY <3>1, <3>3 DEF Numbers
        <5>2. Whole = (IF ~declared THEN <<>> ELSE <<Header>>) \o <<>>
          BY <3>1, <3>5, <5>1 DEF Whole
        <5> QED
          BY <3>1, <3>3, <3>5, <5>2
      <4>4. file' \o queue' = Whole /\ file' \in Seq(Lines) /\ queue' \in Seq(Lines)
        BY <3>2, <3>3, <4>1, <4>2, <4>3
      <4>5. NothingMissing'
        BY <1>5, <4>1, <4>4 DEF NothingMissing
      <4>6. BatchTypeOK'
        BY <1>1, <1>3, <2>1, <4>1 DEF FileInv, BatchTypeOK, given
      <4>7. Stopping' /\ Resolved'
        BY <1>1, <1>2, <2>1, <4>1 DEF Stopping, Resolved
      <4> QED
        BY <1>4, <4>5, <4>6, <4>7 DEF FileInv
    <3> QED
      BY <3>4, <3>5
  <2> QED
    BY <2>3, <2>4
<1> QED
  BY <1>6, <1>7

(* The Node delivers a row: the sink has stopped, rejects it or writes it.  *)
LEMMA DeliversKeeps ==
  ASSUME FileInv, NodeDelivers, UNCHANGED given
  PROVE  FileInv'
<1>1. /\ node = "running" /\ rows < MaxRows /\ rows' = rows + 1 /\ WriteRow(rows + 1)
      /\ UNCHANGED <<recipe, node, nodeCompletion, told>>
  BY DEF NodeDelivers
<1>2. rows \in 0..MaxRows /\ rows' \in 0..MaxRows /\ rows' > 0
  BY <1>1, BatchAssumption DEF FileInv, BatchTypeOK
<1>3. recipe # "resolved" /\ ToldOnce'
  BY <1>1 DEF FileInv, Resolved, ToldOnce
<1>4. CASE fileStopped
  <2>1. UNCHANGED <<promise, streams>> /\ fileCompletion = "rejected"
    BY <1>1, <1>4 DEF WriteRow, FileInv, Stopping
  <2>2. NothingMissing'
    BY <2>1 DEF FileInv, NothingMissing, promise, streams
  <2>3. BatchTypeOK'
    BY <1>1, <1>2, <2>1 DEF FileInv, BatchTypeOK, given, promise, streams
  <2>4. Stopping' /\ Resolved'
    BY <1>1, <1>3, <2>1 DEF FileInv, Stopping, Resolved, promise, streams
  <2> QED
    BY <1>3, <2>2, <2>3, <2>4 DEF FileInv
<1>5. CASE ~fileStopped /\ rows + 1 \in bad
  <2>1. FailFile /\ fileCompletion = "pending"
    BY <1>1, <1>5 DEF WriteRow, FileInv, Stopping
  <2>2. /\ fileStopped' = TRUE /\ fileCompletion' = "rejected"
        /\ csv' \in {csv, "destroyed"} /\ output' \in {output, "failed"} /\ columns' = columns
        /\ csv' = "open" => csv' = csv /\ output' = output
        /\ file' = file /\ queue' = queue
    BY <2>1 DEF FailFile, OutputDestroyed
  <2>3. NothingMissing'
    BY <2>2 DEF FileInv, NothingMissing
  <2>4. BatchTypeOK'
    BY <1>1, <1>2, <2>2 DEF FileInv, BatchTypeOK, given
  <2>5. Stopping' /\ Resolved'
    BY <1>1, <1>3, <2>2 DEF Stopping, Resolved
  <2> QED
    BY <1>3, <2>3, <2>4, <2>5 DEF FileInv
<1>6. CASE ~fileStopped /\ rows + 1 \notin bad
  <2> DEFINE line == <<rows + 1>>
  <2>1. /\ columns' = TRUE /\ UNCHANGED promise /\ csv' = "open"
        /\ output' = IF csv = "none" THEN "open" ELSE output
        /\ queue' = IF csv = "none" THEN FirstLines \o line ELSE queue \o line
        /\ file' = IF csv = "none" /\ ~appends THEN <<>> ELSE file
    BY <1>1, <1>6 DEF WriteRow, Through
  <2>2. fileCompletion = "pending" /\ csv \in {"none", "open"}
    BY <1>6 DEF FileInv, Stopping
  <2>3. NothingMissing
    BY DEF FileInv
  <2>4. output' = "open"
    BY <2>1, <2>2 DEF FileInv, BatchTypeOK
  <2>5. Whole' = (IF appends THEN <<Old>> ELSE <<Header>>) \o Numbers(rows + 1)
    BY <1>1, <1>2 DEF Whole, given, Numbers
  <2>6. /\ file' \in Seq(Lines) /\ queue' \in Seq(Lines) /\ file' \o queue' = Whole'
    <3> DEFINE top == IF appends THEN <<Old>> ELSE <<Header>>
    <3>a. <<Old>> \in Seq(Lines) /\ <<Header>> \in Seq(Lines) /\ <<>> \in Seq(Lines)
      BY DEF Lines
    <3>1. top \in Seq(Lines) /\ <<Old>> \in Seq(Lines) /\ <<Header>> \in Seq(Lines) /\ <<>> \in Seq(Lines)
      BY <3>a
    <3>2. CASE csv = "none"
      <4>1. rows = 0 /\ file = <<Old>>
        BY <2>2, <2>3, <3>2 DEF NothingMissing
      <4>2. Numbers(0) \in Seq(Lines) /\ <<1>> \in Seq(Lines) /\ Numbers(0) = <<>> /\ Numbers(1) = <<1>>
        <5>1. 0 \in 0..MaxRows /\ 0 < MaxRows /\ 0 + 1 = 1
          BY <1>1, <4>1, BatchAssumption
        <5>2. Numbers(0) \in Seq(Lines) /\ <<0 + 1>> \in Seq(Lines)
          BY <5>1, OneMore
        <5> QED
          BY <5>1, <5>2 DEF Numbers
      <4>3. <<>> \o <<1>> = <<1>>
        BY <4>2, Nothing
      <4>4. CASE appends
        <5>1. file' = <<Old>> /\ queue' = <<1>>
          BY <2>1, <3>2, <4>1, <4>3, <4>4 DEF FirstLines
        <5> QED
          BY <2>5, <3>1, <4>1, <4>2, <4>4, <5>1
      <4>5. CASE ~appends
        <5>1. file' = <<>> /\ queue' = <<Header>> \o <<1>>
          BY <2>1, <3>2, <4>1, <4>5 DEF FirstLines
        <5>2. queue' \in Seq(Lines)
          BY <3>1, <4>2, <5>1, ConcatProperties
        <5>3. <<>> \o queue' = queue'
          BY <5>2, Nothing
        <5> QED
          BY <2>5, <3>1, <4>1, <4>2, <4>5, <5>1, <5>2, <5>3
      <4> QED
        BY <4>4, <4>5
    <3>3. CASE csv = "open"
      <4>1. /\ file \in Seq(Lines) /\ queue \in Seq(Lines)
            /\ file \o queue = Whole /\ rows > 0
        BY <2>2, <2>3, <3>3 DEF NothingMissing
      <4>2. Whole = top \o Numbers(rows)
        BY <1>2, <4>1 DEF Whole, Numbers
      <4>3. file' = file /\ queue' = queue \o line
        BY <2>1, <3>3
      <4> HIDE DEF top
      <4>4. /\ queue \o line \in Seq(Lines)
            /\ file \o (queue \o line) = top \o Numbers(rows + 1)
        <5>1. rows < MaxRows /\ top \in Seq(Lines) /\ file \o queue = top \o Numbers(rows)
          BY <1>1, <3>1, <4>1, <4>2
        <5> QED
          BY ONLY <1>2, <4>1, <5>1, AtTheEnd
      <4> QED
        BY <2>5, <4>1, <4>3, <4>4 DEF top
    <3> QED
      BY <2>2, <3>2, <3>3
  <2>7. NothingMissing'
    BY <1>2, <2>1, <2>6 DEF NothingMissing
  <2>8. BatchTypeOK'
    BY <1>1, <1>2, <2>1, <2>4 DEF FileInv, BatchTypeOK, given, promise
  <2>9. Stopping' /\ Resolved'
    BY <1>1, <1>3, <1>6, <2>1, <2>2 DEF Stopping, Resolved, promise
  <2> QED
    BY <1>3, <2>7, <2>8, <2>9 DEF FileInv
<1> QED
  BY <1>4, <1>5, <1>6

LEMMA FileStep == FileInv /\ [BatchNext]_batchVars => FileInv'
<1> SUFFICES ASSUME FileInv, [BatchNext]_batchVars PROVE FileInv'
  OBVIOUS
<1>1. CASE BatchNext
  <2>1. UNCHANGED given
    BY <1>1 DEF BatchNext
  <2>2. CASE Bind \/ Start
    BY <2>1, <2>2, BindKeeps
  <2>3. CASE Settle
    BY <2>1, <2>3, SettleKeeps
  <2>4. CASE NodeDelivers
    BY <2>1, <2>4, DeliversKeeps
  <2>5. CASE NodeCompletes
    BY <2>1, <2>5, CompletesKeeps
  <2>6. CASE NodeFails
    BY <2>1, <2>6, FailsKeeps
  <2>7. CASE FlushLine
    BY <2>1, <2>7, FileFlushKeeps
  <2>8. CASE Finish
    BY <2>1, <2>8, FinishKeeps
  <2>9. CASE StreamError
    BY <2>1, <2>9, ErrorKeeps
  <2> QED
    BY <1>1, <2>2, <2>3, <2>4, <2>5, <2>6, <2>7, <2>8, <2>9 DEF BatchNext
<1>2. CASE UNCHANGED batchVars
  <2>1. UNCHANGED <<given, run, promise, streams, told>> /\ rows' = rows
    BY <1>2 DEF batchVars, run
  <2>2. NothingMissing'
    BY <2>1, LeavesFile DEF promise, streams
  <2>3. BatchTypeOK'
    BY <2>1 DEF FileInv, BatchTypeOK, given, promise, streams, run
  <2>4. ToldOnce' /\ Stopping'
    BY <2>1 DEF FileInv, ToldOnce, Stopping, promise, streams, run
  <2>5. Resolved'
    BY <2>1 DEF FileInv, Resolved, promise, streams, run, given
  <2> QED
    BY <2>2, <2>3, <2>4, <2>5 DEF FileInv
<1> QED
  BY <1>1, <1>2

(***************************************************************************)
(* execute() resolves only when the file holds what a complete run leaves: *)
(* every row once, in order, after one header or after what the file held; *)
(* and the sink has been told of one end at most.                          *)
(***************************************************************************)
THEOREM Written == BatchSpec => []ResolvedMeansWritten
<1>1. FileInv => ResolvedMeansWritten
  <2> SUFFICES ASSUME FileInv, recipe = "resolved" PROVE file = Whole
    BY DEF FileInv, ResolvedMeansWritten
  <2>1. fileCompletion = "resolved" /\ queue = <<>> /\ (csv = "none" => appends)
    BY DEF FileInv, Resolved
  <2>2. file \in Seq(Lines) /\ <<Old>> \in Seq(Lines)
    BY DEF FileInv, NothingMissing, Lines
  <2>3. CASE csv = "none"
    <3>1. rows = 0 /\ file = <<Old>> /\ appends
      BY <2>1, <2>3 DEF FileInv, NothingMissing
    <3>2. Whole = <<Old>> \o Numbers(0)
      BY <3>1 DEF Whole, Numbers
    <3> QED
      BY <2>2, <3>1, <3>2, Nothing
  <2>4. CASE csv # "none"
    <3>1. file \o <<>> = Whole
      BY <2>1, <2>4 DEF FileInv, NothingMissing
    <3> QED
      BY <2>2, <3>1, Nothing
  <2> QED
    BY <2>3, <2>4
<1> QED
  BY <1>1, FileInit, FileStep, PTL DEF BatchSpec
=============================================================================
