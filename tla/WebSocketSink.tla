--------------------------- MODULE WebSocketSink ---------------------------
(***************************************************************************)
(* The WebSocket sink (api/sink.ts): rows wait in a bounded queue until    *)
(* the socket is open and its own buffer is low enough, and completion     *)
(* settles once.                                                           *)
(*                                                                         *)
(* The sink's methods, its timer and the socket's events are separate      *)
(* tasks of one event loop, so they interleave freely.  Rows are numbered  *)
(* as they are written; the socket buffer is counted in rows.              *)
(***************************************************************************)
EXTENDS Naturals, SequencesExt

CONSTANTS
  Capacity,         (* rows the queue holds                                *)
  HighWaterMark,    (* rows the socket may hold and still be handed one    *)
  MaxWrites         (* bound: rows written                                 *)

ASSUME SinkAssumption ==
  /\ Capacity \in Nat \ {0} /\ HighWaterMark \in Nat /\ MaxWrites \in Nat

VARIABLES
  overflow,         (* the policy for a full queue; fixed                  *)
  queued,           (* rows queued                                         *)
  timer,            (* a flush is scheduled                                *)
  ending,           (* complete() was called                               *)
  stopped,          (* failed or closed: nothing more happens              *)
  completion,       (* the promise: "unsettled", "resolved", "rejected"    *)
  readyState,       (* of the socket                                       *)
  peerClosed,       (* history: the server began to close the connection   *)
  listening,        (* the sink's socket listeners are attached            *)
  socketBuffer,     (* rows handed to the socket and not transmitted       *)
  delivered,        (* rows transmitted                                    *)
  written           (* rows written so far                                 *)

sinkState == <<queued, timer, ending, stopped, completion, listening>>
socketState == <<readyState, peerClosed, socketBuffer, delivered>>
socketVars == <<overflow, sinkState, socketState, written>>

Policies == {"error", "drop-oldest", "drop-newest", "latest"}

Settled == completion # "unsettled"

-----------------------------------------------------------------------------

(* send() while the queue is not empty and the socket buffer low enough.   *)
Sendable(queue) ==
  LET room == IF Len(socketBuffer) > HighWaterMark THEN 0
              ELSE HighWaterMark + 1 - Len(socketBuffer)
  IN IF room < Len(queue) THEN room ELSE Len(queue)

Kept(queue, n) == SubSeq(queue, n + 1, Len(queue))

(* Mutated form: what the socket still holds is not waited for. *)
UndrainedQueue(queue, buffer) == queue # <<>>

Undrained(queue, buffer) == queue # <<>> \/ buffer # <<>>

(* Mutated form: rows left in the socket alone schedule no further flush. *)
ArmedForQueue(armed, queue, buffer) == armed \/ queue # <<>>

Armed(armed, queue, buffer) == armed \/ Undrained(queue, buffer)

(* flush(), of the queue, the timer and `ending` as the caller leaves them. *)
Flush(queue, armed, end) ==
  LET n == Sendable(queue)
      left == Kept(queue, n)
      buffer == socketBuffer \o SubSeq(queue, 1, n)
  IN /\ queued' = left
     /\ socketBuffer' = buffer
     /\ timer' = Armed(armed, left, buffer)
     /\ readyState' = IF end /\ ~Undrained(left, buffer) THEN "closing" ELSE "open"

(* flush() called by the sink's own methods and timer *)
FlushIfOpen(queue, armed, end) ==
  IF ~stopped /\ readyState = "open" THEN Flush(queue, armed, end)
  ELSE queued' = queue /\ timer' = armed /\ UNCHANGED <<socketBuffer, readyState>>

(* fail(): detach, close, reject; only once. *)
Failed ==
  /\ stopped' = TRUE
  /\ timer' = FALSE
  /\ listening' = FALSE
  /\ readyState' = IF readyState \in {"connecting", "open"} THEN "closing" ELSE readyState
  /\ completion' = "rejected"
  /\ UNCHANGED <<queued, ending, socketBuffer, delivered>>

(* enqueue() of a full queue *)
Overflowed(row) ==
  CASE overflow = "drop-oldest" -> Append(Tail(queued), row)
    [] overflow = "drop-newest" -> queued
    [] overflow = "latest" -> <<row>>

Full == Len(queued) >= Capacity

(* Mutated form: rows overtake the queue. *)
DirectAlways == readyState = "open" /\ Len(socketBuffer) <= HighWaterMark

Direct == readyState = "open" /\ queued = <<>> /\ Len(socketBuffer) <= HighWaterMark

SendDirect ==
  /\ Direct
  /\ socketBuffer' = Append(socketBuffer, written + 1)
  /\ UNCHANGED <<sinkState, readyState, delivered>>

Enqueue ==
  /\ ~Direct
  /\ overflow = "error" => ~Full
  /\ FlushIfOpen(IF Full THEN Overflowed(written + 1) ELSE Append(queued, written + 1),
                 timer, ending)
  /\ UNCHANGED <<ending, stopped, completion, listening, delivered>>

OverflowFails ==
  /\ ~Direct
  /\ Full /\ overflow = "error"
  /\ Failed

Write ==
  /\ ~stopped /\ ~ending /\ written < MaxWrites
  /\ written' = written + 1 /\ UNCHANGED <<overflow, peerClosed>>
  /\ SendDirect \/ Enqueue \/ OverflowFails

(* A row that does not fit the schema, and error() from upstream. *)
Error ==
  /\ ~stopped
  /\ Failed
  /\ UNCHANGED <<written, overflow, peerClosed>>

Complete ==
  /\ ~stopped /\ ~ending
  /\ ending' = TRUE
  /\ FlushIfOpen(queued, timer, TRUE)
  /\ UNCHANGED <<stopped, completion, listening, delivered, written, overflow, peerClosed>>

(* The timer is forgotten before it flushes. *)
TimerFires ==
  /\ timer
  /\ FlushIfOpen(queued, FALSE, ending)
  /\ UNCHANGED <<ending, stopped, completion, listening, delivered, written, overflow, peerClosed>>

-----------------------------------------------------------------------------
(***************************************************************************)
(* The socket.                                                             *)
(***************************************************************************)

(* A sink that failed has closed its socket, so an open event is heard.    *)
Opened ==
  /\ readyState = "connecting"
  /\ Flush(queued, timer, ending)
  /\ UNCHANGED <<ending, stopped, completion, listening, delivered, written, overflow, peerClosed>>

(* A row leaves; what was handed over before close() still does. *)
Transmit ==
  /\ readyState \in {"open", "closing"} /\ socketBuffer # <<>>
  /\ delivered' = Append(delivered, Head(socketBuffer))
  /\ socketBuffer' = Tail(socketBuffer)
  /\ UNCHANGED <<sinkState, readyState, written, overflow, peerClosed>>

(* The connection is lost or was never made: the error event. *)
SocketError ==
  /\ listening /\ readyState # "closed"
  /\ Failed
  /\ UNCHANGED <<written, overflow, peerClosed>>

Resolves == ending /\ queued = <<>>

(* The close event; what a socket the server closes still held may stay    *)
(* there.                                                                  *)
Closed ==
  /\ readyState = "closing" 
  /\ readyState' = "closed"
  /\ IF ~listening \/ stopped THEN UNCHANGED <<timer, stopped, completion>>
     ELSE /\ timer' = FALSE
          /\ stopped' = TRUE
          /\ completion' = IF Resolves THEN "resolved" ELSE "rejected"
  /\ UNCHANGED <<queued, ending, listening, socketBuffer, delivered, written, overflow, peerClosed>>

(* The server begins to close. *)
PeerCloses ==
  /\ readyState = "open"
  /\ readyState' = "closing"
  /\ peerClosed' = TRUE
  /\ UNCHANGED <<sinkState, socketBuffer, delivered, written, overflow>>

-----------------------------------------------------------------------------

SocketInit ==
  /\ overflow \in Policies
  /\ queued = <<>> /\ timer = FALSE
  /\ ending = FALSE /\ stopped = FALSE
  /\ completion = "unsettled"
  /\ readyState = "connecting" /\ peerClosed = FALSE /\ listening = TRUE
  /\ socketBuffer = <<>> /\ delivered = <<>>
  /\ written = 0

SocketNext ==
  \/ Write \/ Error \/ Complete
  \/ TimerFires
  \/ Opened \/ Transmit \/ SocketError \/ Closed \/ PeerCloses

SocketSpec == SocketInit /\ [][SocketNext]_socketVars

(* Timers fire, and a socket connects or fails, transmits what it was      *)
(* given and finishes closing.                                             *)
SocketFairness ==
  /\ WF_socketVars(TimerFires)
  /\ WF_socketVars(Opened)
  /\ WF_socketVars(Transmit)
  /\ WF_socketVars(Closed)

SocketFairSpec == SocketSpec /\ SocketFairness

-----------------------------------------------------------------------------

(* The queue and the socket's buffer keep to their bounds.                 *)
SocketTypeOK ==
  /\ overflow \in Policies
  /\ queued \in Seq(1..MaxWrites) /\ Len(queued) <= Capacity
  /\ socketBuffer \in Seq(1..MaxWrites) /\ Len(socketBuffer) <= HighWaterMark + 1
  /\ delivered \in Seq(1..MaxWrites)
  /\ timer \in BOOLEAN /\ ending \in BOOLEAN /\ stopped \in BOOLEAN /\ listening \in BOOLEAN
  /\ peerClosed \in BOOLEAN
  /\ completion \in {"unsettled", "resolved", "rejected"}
  /\ readyState \in {"connecting", "open", "closing", "closed"}
  /\ written \in 0..MaxWrites

Stream == delivered \o socketBuffer \o queued

(* Whether rows are sent at once, from the queue or by the timer, none is   *)
(* overtaken or sent twice; a sink that fails on overflow loses none before *)
(* it fails; and under the policies that favour new rows the row written    *)
(* last is the last to wait (sink.ts write, enqueue, flush).                *)
PolicyKept ==
  /\ SocketTypeOK
  /\ \A i \in 1..Len(Stream) - 1 : Stream[i] < Stream[i + 1]
  /\ (overflow = "error" /\ completion # "rejected") => Len(Stream) = written
  /\ (overflow \in {"drop-oldest", "latest"} /\ ~stopped /\ queued # <<>>)
       => Last(queued) = written

(* "completion resolves after queued messages and the socket buffer drain" *)
(* (sink.ts:234): when it resolves nothing is queued and, unless the server *)
(* began to close, nothing is left in the socket, so under "error" as many *)
(* rows were transmitted as were written.  The sink closes only a drained  *)
(* socket, whatever wrote, flushed or transmitted before; onClose does not *)
(* look at the socket buffer, so what the server cuts off is lost.         *)
DrainedUnlessPeerCloses ==
  completion = "resolved" =>
    /\ ending /\ queued = <<>>
    /\ \/ peerClosed
       \/ socketBuffer = <<>> /\ (overflow = "error" => Len(delivered) = written)

(* complete() always settles completion, whatever the queue and the socket *)
(* held: the timer keeps flushing until the socket can be closed.          *)
EventuallySettles == ending ~> Settled

=============================================================================
