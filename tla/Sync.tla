-------------------------------- MODULE Sync --------------------------------
(***************************************************************************)
(* The sync operator (api/sync.ts): one output per target notification,    *)
(* projected from the source values buffered so far.  Notifications wait   *)
(* in a queue and are served first in, first out; a projector says for     *)
(* each how many buffered values it consumes, or that it must wait.        *)
(*                                                                         *)
(* Everything runs on one thread, but subscriber.next() is a call into the *)
(* consumer, which may feed either side again before it returns.  So the   *)
(* drain loop is split at that call: between Serve and EmitReturn any      *)
(* source or target handler may run, and finds draining set.               *)
(*                                                                         *)
(* Source values and target notifications are numbered in arrival order.   *)
(***************************************************************************)
EXTENDS Naturals, Integers, SequencesExt

CONSTANTS
  MaxSource,                    (* bound: values the source emits          *)
  MaxTarget,                    (* bound: notifications the target emits   *)
  Wait,                         (* the projector's "not yet"               *)
  Throw,                        (* the projector threw                     *)
  Projectors,                   (* the projectors looked at                *)
  Project(_, _, _),             (* Project(p, t, n): what p answers for    *)
                                (* notification t with n values buffered:  *)
                                (* Wait, Throw, or how many it consumes    *)
  Continues(_)                  (* p is given continueAfterSourceComplete  *)

ASSUME SyncAssumption ==
  /\ MaxSource \in Nat /\ MaxTarget \in Nat
  /\ Wait \notin Int /\ Throw \notin Int /\ Wait # Throw
  /\ \A p \in Projectors :
       /\ \A t \in 1..MaxTarget, n \in 0..MaxSource : Project(p, t, n) \in Int \cup {Wait, Throw}
       /\ Continues(p) \in BOOLEAN

VARIABLES
  projector,        (* how this output is projected; fixed                 *)
  pending,          (* queued target notifications, oldest first           *)
  buffered,         (* source values not yet consumed, oldest first        *)
  sourceComplete, targetComplete,
  pc,               (* "idle"; "drain": at the head of the drain loop;     *)
                    (* "emit": inside subscriber.next()                    *)
  subscribed,       (* target.subscribe was called                         *)
  subscriber,       (* "open", or how the output ended                     *)
  received,         (* source values that arrived                          *)
  notified,         (* target notifications that arrived                   *)
  emitted           (* output so far: the notification, how many values had *)
                    (* left the buffer, what it held, what was consumed    *)

input == <<projector, sourceComplete, targetComplete, subscribed, received, notified>>
vars == <<pending, buffered, pc, subscriber, emitted, input>>

Open == subscriber = "open"
Draining == pc # "idle"

ContinueAfterSourceComplete == Continues(projector)

Consumes(t, n) == Project(projector, t, n) \in 0..n

-----------------------------------------------------------------------------

(* Mutated form: a queued notification does not hold completion back.      *)
DoneHasty(queued, srcDone, tgtDone) == tgtDone

(* completeIfDone's condition. *)
Done(queued, srcDone, tgtDone) == tgtDone /\ (queued = <<>> \/ srcDone)

CompletedIf(condition) == IF condition /\ Open THEN "completed" ELSE subscriber

(* drain() at the end of a handler: nothing when the loop is running.      *)
(* Mutated form: the handler does not drain.                               *)
SkipDrain == pc' = pc

EnterDrain == pc' = IF Draining THEN pc ELSE "drain"

(* After unsubscription no handler runs; while subscribing, the target is  *)
(* not yet connected.                                                      *)
SourceNext ==
  /\ Open /\ ~sourceComplete /\ received < MaxSource
  /\ pc # "drain"
  /\ received' = received + 1
  /\ buffered' = Append(buffered, received + 1)
  /\ EnterDrain
  /\ UNCHANGED <<projector, pending, sourceComplete, targetComplete, subscribed, subscriber,
                 notified, emitted>>

TargetNext ==
  /\ Open /\ subscribed /\ ~targetComplete /\ notified < MaxTarget
  /\ pc # "drain"
  /\ notified' = notified + 1
  /\ pending' = Append(pending, notified + 1)
  /\ EnterDrain
  /\ UNCHANGED <<projector, buffered, sourceComplete, targetComplete, subscribed, subscriber,
                 received, emitted>>

(* complete(): set the flag, drain(), completeIfDone().  When the loop is  *)
(* already running, drain() returns at once and completeIfDone() decides.  *)
SourceComplete ==
  /\ Open /\ ~sourceComplete
  /\ pc # "drain"
  /\ sourceComplete' = TRUE
  /\ EnterDrain
  /\ subscriber' = CompletedIf(Draining /\ Done(pending, TRUE, targetComplete))
  /\ UNCHANGED <<projector, pending, buffered, targetComplete, subscribed, received, notified,
                 emitted>>

TargetComplete ==
  /\ Open /\ subscribed /\ ~targetComplete
  /\ pc # "drain"
  /\ targetComplete' = TRUE
  /\ EnterDrain
  /\ subscriber' = CompletedIf(Draining /\ Done(pending, sourceComplete, TRUE))
  /\ UNCHANGED <<projector, pending, buffered, sourceComplete, subscribed, received, notified,
                 emitted>>

(* An error of either side, at any time, ends the output.                  *)
SideError ==
  /\ Open
  /\ pc # "drain"
  /\ ~sourceComplete \/ (subscribed /\ ~targetComplete)
  /\ subscriber' = "errored"
  /\ UNCHANGED <<pending, buffered, pc, emitted, input>>

(* The consumer unsubscribes; from within subscriber.next() too.           *)
Unsubscribe ==
  /\ Open
  /\ pc # "drain"
  /\ subscriber' = "unsubscribed"
  /\ UNCHANGED <<pending, buffered, pc, emitted, input>>

(* The source is subscribed first; the target only if that left the output *)
(* open.                                                                   *)
SubscribeTarget ==
  /\ Open /\ ~subscribed
  /\ pc = "idle"
  /\ subscribed' = TRUE
  /\ UNCHANGED <<projector, pending, buffered, pc, subscriber, emitted, sourceComplete,
                 targetComplete, received, notified>>

-----------------------------------------------------------------------------
(***************************************************************************)
(* The drain loop.                                                         *)
(***************************************************************************)

Answer == Project(projector, Head(pending), Len(buffered))

Looping == pc = "drain" /\ Open /\ pending # <<>>

(* The projector answers wait() for the oldest notification. *)
Blocked == pending # <<>> /\ Answer = Wait

(* Mutated form: the newest values are dropped instead of the oldest.       *)
RestNewest(k) == SubSeq(buffered, 1, Len(buffered) - k)

(* buffered.splice(0, consume) *)
Rest(k) == SubSeq(buffered, k + 1, Len(buffered))

(* Mutated form: the newest notification is taken off the queue. *)
PoppedQueue == SubSeq(pending, 1, Len(pending) - 1)

(* pending.shift() *)
ShiftedQueue == Tail(pending)

(* The projector serves the oldest notification: consume, dequeue, call    *)
(* the consumer.                                                           *)
Serve ==
  /\ Looping
  /\ Consumes(Head(pending), Len(buffered))
  /\ buffered' = Rest(Answer)
  /\ pending' = ShiftedQueue
  /\ emitted' = Append(emitted, [target |-> Head(pending), before |-> received - Len(buffered),
                                seen |-> buffered, consumed |-> Answer])
  /\ pc' = "emit"
  /\ UNCHANGED <<subscriber, input>>

EmitReturn ==
  /\ pc = "emit"
  /\ pc' = "drain"
  /\ UNCHANGED <<pending, buffered, subscriber, emitted, input>>

(* The projector threw, or consumed what is not there. *)
ProjectFails ==
  /\ Looping
  /\ Answer # Wait /\ ~Consumes(Head(pending), Len(buffered))
  /\ subscriber' = "errored"
  /\ pc' = "idle"
  /\ UNCHANGED <<pending, buffered, emitted, input>>

(* The loop ends, blocked or with nothing queued or closed.  The output    *)
(* completes when the source is done and either nothing is buffered or the *)
(* blocked notification can never be served, else when completeIfDone says *)
(* so.                                                                     *)
SourceExhausted ==
  /\ sourceComplete
  /\ (~ContinueAfterSourceComplete /\ buffered = <<>>) \/ pending # <<>>

DrainEnd ==
  /\ pc = "drain"
  /\ ~Open \/ pending = <<>> \/ Blocked
  /\ subscriber' =
       CompletedIf(SourceExhausted \/ Done(pending, sourceComplete, targetComplete))
  /\ pc' = "idle"
  /\ UNCHANGED <<pending, buffered, emitted, input>>

-----------------------------------------------------------------------------

Init ==
  /\ projector \in Projectors
  /\ pending = <<>> /\ buffered = <<>>
  /\ sourceComplete = FALSE /\ targetComplete = FALSE
  /\ pc = "idle"
  /\ subscribed = FALSE
  /\ subscriber = "open"
  /\ received = 0 /\ notified = 0
  /\ emitted = <<>>

Loop == Serve \/ ProjectFails \/ DrainEnd

Next ==
  \/ SourceNext \/ TargetNext
  \/ SourceComplete \/ TargetComplete
  \/ SideError \/ Unsubscribe
  \/ SubscribeTarget
  \/ Serve \/ ProjectFails \/ DrainEnd
  \/ EmitReturn

Spec == Init /\ [][Next]_vars

(* The loop runs on the thread that entered it, and the consumer returns   *)
(* from next(); subscribe() always reaches the target.  Neither side is    *)
(* obliged to emit or to complete.                                         *)
Fairness ==
  /\ WF_vars(Loop)
  /\ WF_vars(EmitReturn)
  /\ WF_vars(SubscribeTarget)

FairSpec == Spec /\ Fairness

-----------------------------------------------------------------------------

TypeOK ==
  /\ projector \in Projectors
  /\ pending \in Seq(1..MaxTarget)
  /\ buffered \in Seq(1..MaxSource)
  /\ sourceComplete \in BOOLEAN /\ targetComplete \in BOOLEAN
  /\ subscribed \in BOOLEAN
  /\ pc \in {"idle", "drain", "emit"}
  /\ subscriber \in {"open", "completed", "errored", "unsubscribed"}
  /\ received \in 0..MaxSource
  /\ notified \in 0..MaxTarget
  /\ emitted \in Seq([target : 1..MaxTarget, before : Int, seen : Seq(1..MaxSource),
                        consumed : Nat])

(* First in, first out, whatever the consumer does from within next(): the *)
(* notifications served so far followed by those queued are the ones that  *)
(* arrived, in order; each was served once.                                *)
ServedInOrder ==
  /\ Len(emitted) + Len(pending) = notified
  /\ \A i \in 1..Len(emitted) : emitted[i].target = i
  /\ \A i \in 1..Len(pending) : pending[i] = Len(emitted) + i

(* The values consumed by the first i notifications served.                *)
Gone(i) == IF i = 0 THEN 0 ELSE emitted[i].before + emitted[i].consumed

(* No source value is lost, repeated or overtaken: each notification saw   *)
(* an unbroken run of values starting at the oldest not yet consumed, and  *)
(* consumed from its front; what is buffered is all that is not consumed.  *)
NoValueLost ==
  /\ TypeOK
  /\ \A i \in 1..Len(emitted) : LET e == emitted[i] IN
       /\ e.before = Gone(i - 1)
       /\ \A k \in 1..Len(e.seen) : e.seen[k] = e.before + k
       /\ e.consumed \in 0..Len(e.seen)
  /\ received = Gone(Len(emitted)) + Len(buffered)
  /\ \A k \in 1..Len(buffered) : buffered[k] = Gone(Len(emitted)) + k

(* At rest, no notification is kept waiting that could be served, and the  *)
(* output does not stay open past the end of what could feed it.           *)
QuiescentIsDone ==
  (pc = "idle" /\ Open) =>
    /\ pending # <<>> => Blocked /\ ~sourceComplete
    /\ ~(targetComplete /\ pending = <<>>)
    /\ ~(sourceComplete /\ ~ContinueAfterSourceComplete /\ buffered = <<>>)

(* The documented completion rule (api/sync.ts:60-91): the output completes *)
(* over a queued notification only when the source has completed and what  *)
(* it left behind cannot serve it.                                         *)
NothingServableDropped ==
  (subscriber = "completed" /\ pending # <<>>) => sourceComplete /\ Blocked

(* What the code keeps of that rule (api/sync.ts:210-218, 275-284, 297-301, *)
(* 315-319): the output completes over a queued notification only when the *)
(* source has completed, and then what is left cannot serve it; or the     *)
(* second of the two sides completes while the consumer is within next(),  *)
(* where completeIfDone() does not ask the projector.                      *)
DropsOnlyWithinNext ==
  [][(Open /\ subscriber' = "completed" /\ pending' # <<>>) =>
       /\ sourceComplete'
       /\ Blocked' \/ (pc = "emit" /\ targetComplete')]_vars

(* Once both sides completed, the output ends. *)
EventuallyEnds == (sourceComplete /\ targetComplete) ~> ~Open

=============================================================================
