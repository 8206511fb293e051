------------------------------ MODULE Requests ------------------------------
(***************************************************************************)
(* One request of a Node (api/node.ts): the results of a child Node joined *)
(* to the inputs of its parent by one of four policies.                    *)
(*                                                                         *)
(* Both sides are checked DataStreams whose rows are attempts: a logical   *)
(* step is tried provisionally any number of times, then finally.  Child   *)
(* attempts are buffered; each parent attempt becomes one output row that  *)
(* carries the child results its policy selects.  The two sides arrive in  *)
(* any order.  The drain loop is that of Sync, one notification at a time; *)
(* nothing re-enters it here.                                              *)
(***************************************************************************)
EXTENDS Integers, FiniteSets, SequencesExt

CONSTANTS
  Specs,            (* the requests looked at: [policy, sparse, count, timed] *)
  EventTimes,       (* times of timed streams                              *)
  MaxChild,         (* bound: child attempts                               *)
  MaxParent,        (* bound: parent attempts                              *)
  Null

RequestsAssumption ==
  /\ \A q \in Specs :
       /\ q.policy \in {"sample", "oneToOne", "countWindow", "eventWindow"}
       /\ {q.sparse, q.timed} \subseteq BOOLEAN
       /\ q.count \in Nat \ {0}
       /\ q.timed <=> q.policy \in {"sample", "eventWindow"}
  /\ EventTimes \subseteq Int /\ EventTimes # {}
  /\ MaxChild \in Nat /\ MaxParent \in Nat
  /\ Null \notin Int
  /\ Null \notin [time : EventTimes, provisional : BOOLEAN, index : 0..MaxChild,
                 attempt : 1..MaxChild]

VARIABLES
  spec,                         (* the request's policy; fixed             *)
  childSource, parentSource,    (* what sourceData remembers of each side  *)
  childIndex, parentIndex,      (* committedIndices of each Node           *)
  buffered,                     (* child results not consumed              *)
  pending,                      (* parent attempts not served              *)
  draining,
  childComplete, parentComplete,
  subscriber,                   (* "open", "completed" or "errored"        *)
  selected,                     (* sample: the current child result        *)
  committedSelection,           (* sample: its index at the last final row *)
  previousMain,                 (* eventWindow: time of the last final row *)
  finalizedBoundary,            (* time of the last final parent served    *)
  currentChildIndex,            (* logical step the child last attempted   *)
  rows,                         (* output, with the child results selected *)
  arrivals                      (* history: every child result there was   *)

policyState == <<selected, committedSelection, previousMain>>
sideState == <<childSource, parentSource, childComplete, parentComplete>>
requestVars == <<spec, sideState, childIndex, parentIndex, buffered, pending, draining, subscriber,
          policyState, finalizedBoundary, currentChildIndex, rows, arrivals>>

Policy == spec.policy
Sparse == spec.sparse
Count == spec.count
Timed == spec.timed

(* Untimed attempts are counted; one time stands for them all.             *)
Times == IF Timed THEN EventTimes ELSE {CHOOSE t \in EventTimes : TRUE}

-----------------------------------------------------------------------------
(***************************************************************************)
(* sourceData: the checks every attempt of a timed stream passes.          *)
(***************************************************************************)

FreshSource == [previousTime |-> Null, activeTime |-> Null, previousProvisional |-> FALSE,
                attempts |-> 0]

Accepts(source, t) ==
  Timed =>
    /\ source.previousProvisional => t = source.activeTime
    /\ source.previousTime # Null =>
         /\ t >= source.previousTime
         /\ t = source.previousTime => source.previousProvisional

(* committedIndices *)
NextIndex(index, p) == IF p THEN index ELSE index + 1

Advanced(source, t, p) ==
  [previousTime |-> t, activeTime |-> t, previousProvisional |-> p,
   attempts |-> source.attempts + 1]

-----------------------------------------------------------------------------

Open == subscriber = "open"
Ready == Open /\ ~draining

Fail == subscriber' = "errored"

(* A child step that opens inside an interval its parent has finalized.    *)
Late(t, index) ==
  Timed /\ index # currentChildIndex /\ finalizedBoundary # Null /\ t <= finalizedBoundary

(* A child attempt: checked, stepped, buffered; then the loop runs. *)
ChildNext(t, p) ==
  /\ Ready /\ ~childComplete /\ childSource.attempts < MaxChild
  /\ childSource' = Advanced(childSource, t, p)
  /\ IF ~Accepts(childSource, t) \/ Late(t, childIndex)
     THEN Fail /\ UNCHANGED <<childIndex, buffered, draining, currentChildIndex, arrivals>>
     ELSE LET output == [time |-> t, provisional |-> p, index |-> childIndex,
                         attempt |-> childSource.attempts + 1]
          IN /\ buffered' = Append(buffered, output)
             /\ arrivals' = Append(arrivals, output)
             /\ currentChildIndex' = childIndex
             /\ childIndex' = NextIndex(childIndex, p)
             /\ draining' = TRUE
             /\ UNCHANGED subscriber
  /\ UNCHANGED <<parentSource, childComplete, parentComplete, parentIndex, pending,
                 policyState, finalizedBoundary, rows>>

ParentNext(t, p) ==
  /\ Ready /\ ~parentComplete /\ parentSource.attempts < MaxParent
  /\ parentSource' = Advanced(parentSource, t, p)
  /\ IF ~Accepts(parentSource, t)
     THEN Fail /\ UNCHANGED <<pending, draining>>
     ELSE /\ pending' = Append(pending, [time |-> t, provisional |-> p])
          /\ draining' = TRUE
          /\ UNCHANGED subscriber
  /\ UNCHANGED <<childSource, childComplete, parentComplete, childIndex, parentIndex,
                 buffered, policyState, finalizedBoundary, currentChildIndex, rows, arrivals>>

(* A provisional step may be left open at the end. *)
ChildComplete ==
  /\ Ready /\ ~childComplete
  /\ childComplete' = TRUE
  /\ draining' = TRUE
  /\ UNCHANGED <<childSource, parentSource, parentComplete, childIndex, parentIndex, buffered,
                 pending, subscriber, policyState, finalizedBoundary, currentChildIndex, rows,
                 arrivals>>

ParentComplete ==
  /\ Ready /\ ~parentComplete
  /\ parentComplete' = TRUE
  /\ draining' = TRUE
  /\ UNCHANGED <<childSource, parentSource, childComplete, childIndex, parentIndex, buffered,
                 pending, subscriber, policyState, finalizedBoundary, currentChildIndex, rows,
                 arrivals>>

-----------------------------------------------------------------------------
(***************************************************************************)
(* The policies.  A logical child step counts by its latest attempt, which *)
(* ends at position e of the buffer.                                       *)
(***************************************************************************)

(* Mutated form: every attempt counts. *)
EveryAttempt == 1..Len(buffered)

LatestEnds ==
  {e \in 1..Len(buffered) : \A k \in e+1..Len(buffered) : buffered[k].index # buffered[e].index}

(* Positions one after the other. *)
InOrder(S) ==
  CHOOSE at \in [1..Cardinality(S) -> S] :
    \A i, j \in 1..Cardinality(S) : i < j => at[i] < at[j]

Latest == InOrder(LatestEnds)

(* The last of some positions, or 0. *)
EndOf(ends) == IF ends = {} THEN 0 ELSE CHOOSE e \in ends : \A d \in ends : d <= e

(* Leading latest attempts up to a boundary. *)
UpTo(boundary) ==
  {e \in LatestEnds : \A d \in LatestEnds : d <= e => buffered[d].time <= boundary}

(* What serving the oldest parent attempt does: emit a row, consume k      *)
(* buffered results.                                                       *)
ServeWith(values, k) ==
  LET datum == Head(pending) IN
  /\ rows' = Append(rows, [time |-> datum.time, provisional |-> datum.provisional,
                           index |-> parentIndex, values |-> values, seen |-> Len(arrivals)])
  /\ buffered' = SubSeq(buffered, k + 1, Len(buffered))
  /\ pending' = Tail(pending)
  /\ parentIndex' = NextIndex(parentIndex, datum.provisional)
  /\ finalizedBoundary' =
       IF Timed /\ ~datum.provisional THEN datum.time ELSE finalizedBoundary
  /\ UNCHANGED <<sideState, childIndex, draining, subscriber, currentChildIndex, arrivals>>

Looping == draining /\ Open /\ pending # <<>>

Remembered(now, p) == IF p \/ now = Null THEN committedSelection ELSE now.index

(* The newest child step opened at or before the parent's time, which      *)
(* stays buffered; with sparse fill, only in the first row that has it.    *)
Sample ==
  /\ Policy = "sample" /\ Looping
  /\ LET datum == Head(pending)
         ends == UpTo(datum.time)
         end == EndOf(ends)
         now == IF ends = {} THEN selected ELSE buffered[end]
         shown == now # Null /\ (Sparse => now.index # committedSelection)
     IN /\ selected' = now
        /\ committedSelection' = Remembered(now, datum.provisional)
        /\ ServeWith(IF shown THEN <<now>> ELSE <<>>,
                     IF datum.provisional \/ end = 0 THEN 0 ELSE end - 1)
  /\ UNCHANGED previousMain

(* In arrival order; a final parent waits for a final child. *)
OneToOneReady ==
  /\ Latest # <<>>
  /\ ~Head(pending).provisional => ~buffered[Latest[1]].provisional

OneToOne ==
  /\ Policy = "oneToOne" /\ Looping
  /\ OneToOneReady
  /\ ServeWith(<<buffered[Latest[1]]>>, IF Head(pending).provisional THEN 0 ELSE Latest[1])
  /\ UNCHANGED policyState

(* A fixed number of children; a provisional parent sees those there are.  *)
Group == SubSeq(Latest, 1, IF Count < Len(Latest) THEN Count ELSE Len(Latest))

CountWindowReady ==
  \/ Head(pending).provisional
  \/ Len(Group) = Count /\ \A k \in 1..Count : ~buffered[Group[k]].provisional

CountWindow ==
  /\ Policy = "countWindow" /\ Looping
  /\ CountWindowReady
  /\ ServeWith([k \in 1..Len(Group) |-> buffered[Group[k]]],
               IF Head(pending).provisional THEN 0 ELSE Group[Count])
  /\ UNCHANGED policyState

(* Children between the last final parent and this one. *)
Window(boundary) ==
  {e \in UpTo(boundary) : previousMain # Null => buffered[e].time > previousMain}

(* The policy throws otherwise; WindowNeverFails says it never has to. *)
MainTimeIncreases == previousMain # Null => Head(pending).time > previousMain

EventWindow ==
  /\ Policy = "eventWindow" /\ Looping
  /\ MainTimeIncreases
  /\ LET datum == Head(pending)
         window == InOrder(Window(datum.time))
     IN /\ previousMain' = IF datum.provisional THEN previousMain ELSE datum.time
        /\ ServeWith([k \in 1..Len(window) |-> buffered[window[k]]],
                     IF datum.provisional THEN 0 ELSE EndOf(UpTo(datum.time)))
  /\ UNCHANGED <<selected, committedSelection>>

(* wait() *)
Waits ==
  /\ pending # <<>>
  /\ \/ Policy = "oneToOne" /\ ~OneToOneReady
     \/ Policy = "countWindow" /\ ~CountWindowReady

(* The end of the loop and of the output (Sync!DrainEnd); the timed        *)
(* policies outlive the child.                                             *)
DrainEnd ==
  /\ draining
  /\ pending = <<>> \/ Waits
  /\ draining' = FALSE
  /\ subscriber' =
       IF \/ childComplete /\ (pending # <<>> \/ (~Timed /\ buffered = <<>>))
          \/ parentComplete /\ (pending = <<>> \/ childComplete)
       THEN "completed" ELSE subscriber
  /\ UNCHANGED <<sideState, childIndex, parentIndex, buffered, pending, policyState,
                 finalizedBoundary, currentChildIndex, rows, arrivals>>

-----------------------------------------------------------------------------

RequestInit ==
  /\ spec \in Specs
  /\ childSource = FreshSource /\ parentSource = FreshSource
  /\ childIndex = 0 /\ parentIndex = 0
  /\ buffered = <<>> /\ pending = <<>>
  /\ draining = FALSE
  /\ childComplete = FALSE /\ parentComplete = FALSE
  /\ subscriber = "open"
  /\ selected = Null /\ committedSelection = Null /\ previousMain = Null
  /\ finalizedBoundary = Null /\ currentChildIndex = -1
  /\ rows = <<>> /\ arrivals = <<>>

RequestNext ==
  /\ \/ \E t \in Times, p \in BOOLEAN : ChildNext(t, p) \/ ParentNext(t, p)
     \/ ChildComplete \/ ParentComplete
     \/ Sample \/ OneToOne \/ CountWindow \/ EventWindow
     \/ DrainEnd
  /\ UNCHANGED spec

RequestSpec == RequestInit /\ [][RequestNext]_requestVars

-----------------------------------------------------------------------------
(***************************************************************************)
(* What the policies mean, told from the arrivals alone.                   *)
(***************************************************************************)

Attempt == [time : Times, provisional : BOOLEAN, index : 0..MaxChild, attempt : 1..MaxChild]

RequestTypeOK ==
  /\ buffered \in Seq(Attempt) /\ arrivals \in Seq(Attempt)
  /\ pending \in Seq([time : Times, provisional : BOOLEAN])
  /\ selected \in Attempt \cup {Null}
  /\ committedSelection \in (0..MaxChild) \cup {Null}
  /\ previousMain \in Times \cup {Null} /\ finalizedBoundary \in Times \cup {Null}
  /\ subscriber \in {"open", "completed", "errored"}
  /\ childIndex \in 0..MaxChild /\ parentIndex \in 0..MaxParent
  /\ currentChildIndex \in -1..MaxChild
  /\ \A i \in 1..Len(rows) : rows[i].values \in Seq(Attempt)

(* Latest attempts among the first n arrivals. *)
Steps(n) == {e \in 1..n : \A k \in e+1..n : arrivals[k].index # arrivals[e].index}

(* The final row before row i, or 0. *)
LastFinal(i) == EndOf({j \in 1..i - 1 : ~rows[j].provisional})

(* Steps that had arrived when row i was served, opened by its time. *)
Opened(i) == {e \in Steps(rows[i].seen) : arrivals[e].time <= rows[i].time}

(* The newest of them, with sparse fill unless it was there before. *)
NewestStep(opened, before) ==
  {e \in opened :
    /\ \A d \in opened : d <= e
    /\ Sparse => \A b \in before : arrivals[b].index # arrivals[e].index}

Before(i) == IF LastFinal(i) = 0 THEN {} ELSE Opened(LastFinal(i))

SampleOf(i) == NewestStep(Opened(i), Before(i))

WindowOf(i) ==
  {e \in Opened(i) : LastFinal(i) # 0 => arrivals[e].time > rows[LastFinal(i)].time}

GroupOf(i, n) ==
  {e \in Steps(rows[i].seen) : arrivals[e].index \in n * rows[i].index .. n * (rows[i].index + 1) - 1}

SelectedBy(i) ==
  CASE Policy = "sample" -> SampleOf(i)
    [] Policy = "oneToOne" -> GroupOf(i, 1)
    [] Policy = "countWindow" -> GroupOf(i, Count)
    [] Policy = "eventWindow" -> WindowOf(i)

(* Values are the arrivals at some positions, in their order. *)
Lists(values, positions) ==
  \E at \in [1..Len(values) -> positions] :
    /\ \A i, j \in 1..Len(values) : i < j => at[i] < at[j]
    /\ \A e \in positions : \E k \in 1..Len(values) : at[k] = e
    /\ \A k \in 1..Len(values) : values[k] = arrivals[at[k]]

Finals == {i \in 1..Len(rows) : ~rows[i].provisional}
Taken(i) == {rows[i].values[k].index : k \in 1..Len(rows[i].values)}

(* Part of RowsAsDocumented: no child step ends up in two final windows or *)
(* in none, joined in arrival order a final row is made of final children  *)
(* only, and the times the event window insists on are those sourceData    *)
(* lets pass.                                                              *)
EachStepOnce ==
  /\ (Policy = "eventWindow" /\ Looping) => MainTimeIncreases
  /\ Policy # "sample" => \A i \in Finals :
       /\ \A j \in Finals \ {i} : Taken(i) \cap Taken(j) = {}
       /\ \A s \in Taken(i) : \A n \in 0..s : \E j \in Finals : j <= i /\ n \in Taken(j)
       /\ ~Timed => \A k \in 1..Len(rows[i].values) : ~rows[i].values[k].provisional

(* Every row, provisional or final, carries exactly the child results its  *)
(* policy is documented to select (api/node.ts:901-957) among those that   *)
(* had arrived: nothing is skipped, taken twice or seen ahead of time,     *)
(* however attempts of the two sides interleave; each step counts once.    *)
RowsAsDocumented ==
  /\ RequestTypeOK
  /\ EachStepOnce
  /\ \A i \in 1..Len(rows) : Lists(rows[i].values, SelectedBy(i))
=============================================================================
