------------------------------ MODULE NodeRun ------------------------------
(***************************************************************************)
(* One Node's run (api/node.ts): the first observer starts it, all         *)
(* observers share it, and it ends when its input ends or fails, when an   *)
(* observer throws, or when the Node is disposed.                          *)
(*                                                                         *)
(* Everything is synchronous.  A source may emit while to() is still       *)
(* subscribing to it, and an observer may call the Node from its own       *)
(* next(): to(), unsubscribe() and dispose() are therefore enabled between *)
(* tasks and inside a callback.  RxJS Subjects deliver to the observers    *)
(* registered when a delivery begins.                                      *)
(***************************************************************************)
EXTENDS Naturals, SequencesExt

CONSTANTS
  Observers,
  NoObserver,
  MaxEmits          (* bound: attempts the input emits                     *)

ASSUME NodeRunAssumption ==
  /\ NoObserver \notin Observers
  /\ MaxEmits \in Nat

VARIABLES
  syncSource,         (* the input may emit during subscribe(); fixed      *)
  started, disposed,  (* of the Node                                       *)
  subscribing,        (* to() has not returned from subscribe()            *)
  connection,         (* the Node holds the run's subscription             *)
  execution,          (* the run: "none", "live", "closed"                 *)
  context,            (* its Context: "none", "live", "disposed"           *)
  source,             (* the input is subscribed                           *)
  results,            (* the output Subject: "open", "failed", "completed" *)
  observers,          (* registered with it, in order                      *)
  ended,              (* how each observer ended, if it did                *)
  emitting,           (* observers the delivery under way has yet to reach *)
  calling,            (* the observer whose next() is running              *)
  data,               (* attempts that produced a datum                    *)
  got,                (* history: the data each observer received          *)
  joined,             (* history: what had been emitted when it registered *)
  runs                (* history: runs started                             *)

nodeState == <<syncSource, started, disposed, subscribing, connection>>
pipeline == <<execution, context, source>>
subject == <<results, observers, ended>>
delivery == <<emitting, calling>>
history == <<data, got, joined, runs>>
nodeVars == <<nodeState, pipeline, subject, delivery, history>>

Idle == calling = NoObserver /\ emitting = <<>>

(* Callers run between tasks or inside an observer's next(). *)
MayCall == calling # NoObserver \/ (Idle /\ ~subscribing)

-----------------------------------------------------------------------------

EndedBy(how) == [o \in Observers |-> IF o \in ToSet(observers) THEN how ELSE ended[o]]

(* results.error() and results.complete(): only the first counts. *)
EndResults(how) ==
  IF results = "open"
  THEN /\ results' = how
       /\ observers' = <<>>
       /\ ended' = EndedBy(how)
  ELSE UNCHANGED subject

(* Mutated form: the Context is left to dispose(). *)
CloseOnly == execution' = "closed" /\ UNCHANGED <<context, source>>

(* The run's subscriber closes: the input is released and finalize()       *)
(* disposes the Context, once subscribe() has returned.                    *)
ClosePipeline ==
  /\ execution' = "closed"
  /\ IF subscribing THEN UNCHANGED <<context, source>>
     ELSE context' = "disposed" /\ source' = FALSE

(* observe() *)
Registered(o) ==
  IF results = "open"
  THEN observers' = Append(observers, o) /\ UNCHANGED ended
  ELSE ended' = [ended EXCEPT ![o] = results] /\ UNCHANGED observers

(* Mutated form: an observer that joins during a delivery is reached by it. *)
JoinsDelivery(o) == emitting' = IF Idle THEN emitting ELSE Append(emitting, o)

JoinsLater(o) == UNCHANGED emitting

(* to() of a Node that is ready *)
To(o) ==
  /\ MayCall
  /\ ~disposed
  /\ ended[o] = "no" /\ o \notin ToSet(observers)
  /\ Registered(o)
  /\ JoinsLater(o)
  /\ joined' = [joined EXCEPT ![o] = data]
  /\ IF started THEN UNCHANGED <<started, subscribing, pipeline, runs>>
     ELSE /\ started' = TRUE
          /\ subscribing' = TRUE
          /\ execution' = "live" /\ context' = "live" /\ source' = TRUE
          /\ runs' = runs + 1
  /\ UNCHANGED <<syncSource, disposed, connection, results, calling, data, got>>

(* subscribe() returns, and the run it built is the Node's connection. *)
SubscribeReturns ==
  /\ subscribing /\ Idle
  /\ subscribing' = FALSE
  /\ started' = TRUE
  /\ connection' = TRUE
  /\ IF execution = "closed" THEN context' = "disposed" /\ source' = FALSE
     ELSE UNCHANGED <<context, source>>
  /\ UNCHANGED <<syncSource, disposed, execution, subject, delivery, history>>

ObserverUnsubscribes(o) ==
  /\ MayCall
  /\ \E i \in 1..Len(observers) : observers[i] = o /\ observers' = RemoveAt(observers, i)
  /\ ended' = [ended EXCEPT ![o] = "unsubscribed"]
  /\ UNCHANGED <<nodeState, pipeline, results, delivery, history>>

(* dispose(): there is no connection to stop while subscribe() is running. *)
Dispose ==
  /\ MayCall
  /\ ~disposed
  /\ disposed' = TRUE
  /\ IF connection THEN execution' = "closed" /\ source' = FALSE
     ELSE UNCHANGED <<execution, source>>
  /\ context' = IF context = "live" THEN "disposed" ELSE context
  /\ EndResults("completed")
  /\ UNCHANGED <<syncSource, started, subscribing, connection, delivery, history>>

-----------------------------------------------------------------------------
(***************************************************************************)
(* The input and the delivery of its results.                              *)
(***************************************************************************)

SourceRuns == execution = "live" /\ source /\ Idle /\ (subscribing => syncSource)

(* The input emits and the step succeeds. *)
Emit ==
  /\ SourceRuns
  /\ context = "live"
  /\ data < MaxEmits
  /\ data' = data + 1
  /\ emitting' = observers
  /\ UNCHANGED <<nodeState, pipeline, subject, calling, got, joined, runs>>

(* The input fails, the program does, or its Context is disposed already. *)
Fail ==
  /\ SourceRuns
  /\ ClosePipeline
  /\ EndResults("failed")
  /\ UNCHANGED <<nodeState, delivery, history>>

SourceEnds ==
  /\ SourceRuns
  /\ ClosePipeline
  /\ EndResults("completed")
  /\ UNCHANGED <<nodeState, delivery, history>>

(* The delivery reaches its next observer, unless that one has ended. *)
Deliver ==
  /\ calling = NoObserver /\ emitting # <<>>
  /\ emitting' = Tail(emitting)
  /\ LET o == Head(emitting)
     IN IF o \in ToSet(observers)
        THEN calling' = o /\ got' = [got EXCEPT ![o] = Append(@, data)]
        ELSE UNCHANGED <<calling, got>>
  /\ UNCHANGED <<nodeState, pipeline, subject, data, joined, runs>>

Return ==
  /\ calling # NoObserver
  /\ calling' = NoObserver
  /\ UNCHANGED <<nodeState, pipeline, subject, emitting, history>>

(* deliveryFailure.error(): takeUntil passes the failure to the live run.  *)
FailsRun ==
  IF execution = "live" THEN ClosePipeline /\ EndResults("failed")
  ELSE UNCHANGED <<pipeline, subject>>

Thrown ==
  /\ calling # NoObserver
  /\ calling' = NoObserver
  /\ FailsRun
  /\ UNCHANGED <<nodeState, emitting, data, got, joined, runs>>

-----------------------------------------------------------------------------

NodeInit ==
  /\ syncSource \in BOOLEAN
  /\ started = FALSE /\ disposed = FALSE
  /\ subscribing = FALSE /\ connection = FALSE
  /\ execution = "none" /\ context = "none" /\ source = FALSE
  /\ results = "open" /\ observers = <<>>
  /\ ended = [o \in Observers |-> "no"]
  /\ emitting = <<>> /\ calling = NoObserver
  /\ data = 0
  /\ got = [o \in Observers |-> <<>>]
  /\ joined = [o \in Observers |-> 0]
  /\ runs = 0

NodeNext ==
  \/ \E o \in Observers : To(o) \/ ObserverUnsubscribes(o)
  \/ SubscribeReturns \/ Dispose
  \/ Emit \/ Fail \/ SourceEnds
  \/ Deliver \/ Return \/ Thrown

NodeSpec == NodeInit /\ [][NodeNext]_nodeVars

-----------------------------------------------------------------------------

(* An observer is registered once and only until it ended, and a Node is    *)
(* run once, even when an observer calls to() from a datum the input emits  *)
(* while the first to() is still subscribing.                               *)
NodeTypeOK ==
  /\ {syncSource, started, disposed, subscribing, connection, source} \subseteq BOOLEAN
  /\ execution \in {"none", "live", "closed"}
  /\ context \in {"none", "live", "disposed"}
  /\ results \in {"open", "failed", "completed"}
  /\ ToSet(observers) \subseteq {o \in Observers : ended[o] = "no"} /\ IsInjective(observers)
  /\ ended \in [Observers -> {"no", "failed", "completed", "unsubscribed"}]
  /\ ToSet(emitting) \subseteq Observers
  /\ calling \in Observers \cup {NoObserver}
  /\ data \in 0..MaxEmits
  /\ \A o \in Observers : ToSet(got[o]) \subseteq 1..MaxEmits
  /\ joined \in [Observers -> 0..MaxEmits]
  /\ runs \in 0..1

(* Between tasks an observer that has not ended has received exactly the   *)
(* data emitted since it registered, each once and in order, whoever       *)
(* joined, left or was called meanwhile ("Later observers share the same   *)
(* runtime and receive only future output").                               *)
SharedRows ==
  /\ NodeTypeOK
  /\ Idle => \A o \in ToSet(observers) :
               got[o] = [k \in 1..data - joined[o] |-> joined[o] + k]

Returned == Idle /\ ~subscribing

(* "Stops the input subscription and releases every main and request       *)
(* runtime" (api/node.ts, Node.dispose).                                   *)
InputReleased == (disposed /\ Returned) => ~source

(* When the output has ended and no call is under way the Context is       *)
(* disposed, however the run ended; and an input that emits only once it   *)
(* is subscribed is released with the Node (steps(), dispose()).           *)
RunReleased ==
  /\ (results # "open" /\ Returned) => context # "live"
  /\ ~syncSource => InputReleased

=============================================================================
