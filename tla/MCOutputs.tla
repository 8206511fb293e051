----------------------------- MODULE MCOutputs -----------------------------
(***************************************************************************)
(* What a run takes and gives off, checked in one run: the module that was *)
(* bound before it, sync(), a Node's run, the WebSocket sink, a batch that *)
(* writes a CSV file, and the orders of a strategy.  Each is given every   *)
(* client and every stream it can have, so they are not joined here: a     *)
(* behaviour follows one part.  The others have already finished, or,      *)
(* where nothing obliges them to begin, stay as they begin.                *)
(***************************************************************************)
EXTENDS MCTrading, Sync, NodeRun, WebSocketSink, BatchRecipe, FiniteSets, TLC

-----------------------------------------------------------------------------
(***************************************************************************)
(* Sync: the projectors the repository uses.                               *)
(*   "all"     sync's default, the whole buffer                            *)
(*   "one"     one buffered value per notification (oneToOne)              *)
(*   "sample"  keep the newest value, outlive the source (sample requests) *)
(*   "window"  two values, then consume both (count windows)               *)
(*   "mixed"   provisional notifications consume nothing, and the last     *)
(*             one misbehaves                                              *)
(***************************************************************************)

MCProject(p, t, n) ==
  CASE p = "all" -> IF n = 0 THEN Wait ELSE n
    [] p = "one" -> IF n = 0 THEN Wait ELSE 1
    [] p = "sample" -> IF n = 0 THEN Wait ELSE n - 1
    [] p = "window" -> IF n < 2 THEN Wait ELSE 2
    [] p = "mixed" ->
         IF t = MaxTarget THEN (IF n = 1 THEN Throw ELSE n + 1)
         ELSE IF t % 2 = 1 THEN 0 ELSE IF n = 0 THEN Wait ELSE 1

MCContinues(p) == p = "sample"

(* An output whose consumer left at once. *)
SyncDone ==
  /\ projector = "all" /\ pending = <<>> /\ buffered = <<>>
  /\ sourceComplete = FALSE /\ targetComplete = FALSE /\ subscribed = FALSE
  /\ pc = "idle" /\ subscriber = "unsubscribed"
  /\ received = 0 /\ notified = 0 /\ emitted = <<>>

-----------------------------------------------------------------------------
(* WebSocketSink: one that was closed after complete() when idle.          *)

SocketDone ==
  /\ overflow = "error" /\ queued = <<>> /\ timer = FALSE /\ ending = TRUE /\ stopped = TRUE
  /\ completion = "resolved" /\ readyState = "closed" /\ peerClosed = FALSE
  /\ listening = TRUE
  /\ socketBuffer = <<>> /\ delivered = <<>> /\ written = 0

-----------------------------------------------------------------------------
(* BatchRecipe: an execute() that resolved without a row when idle.        *)

BatchDone ==
  /\ bad = {} /\ declared = TRUE /\ appends = FALSE
  /\ recipe = "resolved" /\ node = "disposed" /\ nodeCompletion = "resolved" /\ rows = 0
  /\ fileStopped = TRUE /\ fileCompletion = "resolved" /\ columns = TRUE
  /\ csv = "ended" /\ output = "finished" /\ queue = <<>> /\ file = <<Header>>
  /\ told = <<"complete">>

-----------------------------------------------------------------------------
(* ModuleBinding: a program with a range, a source and an input that may be *)
(* off, its daily request, and an hourly request of that.                   *)

CONSTANTS Root, MaxBinds, Unset

VARIABLES objects, modules, asked, failure

bindingVars == <<objects, modules, asked, failure>>

Number(n) == <<"number", n>>
Text(t) == <<"text", t>>
Parameter(n, type, default, constraint) == [name |-> n, type |-> type, default |-> default, constraint |-> constraint]
Fact(slot, kind, reads) == [slot |-> slot, kind |-> kind, reads |-> reads]
OfParameter(n) == <<"param", n>>
OfTimeframe == <<"builtin", "tf">>
NoValues == [n \in {} |-> 0]

MCDeclared ==
  [root |->
     [params |-> <<Parameter("n", "int", Number(2), <<"range", -1, 3>>),
                   Parameter("src", "source", Text("close"), <<"none">>)>>,
      builtins |-> {"tf"}, series |-> <<<<"id", "high">>, OfParameter("src")>>,
      facts |-> <<Fact("s0", "depth", <<OfParameter("n")>>), Fact("l0", "depth", <<OfTimeframe>>),
                  Fact("n", "active", <<OfParameter("n")>>), Fact("r0", "context", <<OfParameter("n"), OfTimeframe>>)>>,
      requests |-> <<[name |-> "daily", of |-> "daily"]>>],
   daily |->
     [params |-> <<Parameter("k", "int", <<"na">>, <<"none">>),
                   Parameter("c", "color", Text("#fff"), <<"none">>)>>,
      builtins |-> {}, series |-> <<<<"id", "close">>>>,
      facts |-> <<Fact("s0", "depth", <<OfParameter("k")>>)>>,
      requests |-> <<[name |-> "hour", of |-> "hour"]>>],
   hour |->
     [params |-> <<Parameter("k", "int", Number(1), <<"options", {1, 2}>>)>>,
      builtins |-> {"tf"}, series |-> <<>>,
      facts |-> <<Fact("l0", "depth", <<OfParameter("k")>>), Fact("l1", "depth", <<OfTimeframe>>)>>,
      requests |-> <<>>]]

Asking(path, values, fixed) == [path |-> path, values |-> values, context |-> fixed]
MCCalls ==
  {Asking(<<>>, v, c) :
     v \in {NoValues, "n" :> Number(1), "n" :> Number(0), "n" :> Number(-1), "n" :> Number(4),
            "src" :> Text("open"), "x" :> Number(1), "n" :> <<"undefined">>},
     c \in {NoValues, "tf" :> Number(5)}}
  \cup {Asking(<<"daily">>, v, NoValues) :
          v \in {NoValues, "k" :> Number(3), "c" :> Text("#000"), "c" :> Text("?")}}
  \cup {Asking(<<"daily", "hour">>, v, c) :
          v \in {NoValues, "k" :> Number(2), "k" :> Number(3)},
          c \in {NoValues, "tf" :> Number(7), "time" :> Number(1)}}
  \cup {Asking(<<"weekly">>, NoValues, NoValues)}
MCColors == ("#fff" :> "#ffff") @@ ("#000" :> "#000f")

Binding == INSTANCE ModuleBinding WITH Declared <- MCDeclared, Calls <- MCCalls, Colors <- MCColors

-----------------------------------------------------------------------------

MCInit ==
  /\ part \in {"sync", "node", "socket", "batch", "binding", "net", "lots"}
  /\ IF part = "sync" THEN Init ELSE SyncDone
  /\ NodeInit /\ (part # "node" => ~syncSource) (* nothing obliges it to run *)
  /\ IF part = "socket" THEN SocketInit ELSE SocketDone
  /\ IF part = "batch" THEN BatchInit ELSE BatchDone
  /\ Binding!Init
  /\ TradingInit

MCNext ==
  /\ UNCHANGED part
  /\ \/ part = "sync" /\ Next /\ UNCHANGED <<nodeVars, socketVars, batchVars, bindingVars, tradingVars>>
     \/ part = "node" /\ NodeNext /\ UNCHANGED <<vars, socketVars, batchVars, bindingVars, tradingVars>>
     \/ part = "socket" /\ SocketNext /\ UNCHANGED <<vars, nodeVars, batchVars, bindingVars, tradingVars>>
     \/ part = "batch" /\ BatchNext /\ UNCHANGED <<vars, nodeVars, socketVars, bindingVars, tradingVars>>
     \/ part = "binding" /\ Binding!Next /\ UNCHANGED <<vars, nodeVars, socketVars, batchVars, tradingVars>>
     \/ TradingNext /\ UNCHANGED <<vars, nodeVars, socketVars, batchVars, bindingVars>>

MCSpec ==
  /\ MCInit
  /\ [][MCNext]_<<part, vars, nodeVars, socketVars, batchVars, bindingVars, tradingVars>>
  /\ Fairness /\ SocketFairness /\ BatchFairness

(* A module says what it was last asked (ModuleBinding, Module.bind).       *)
BoundAsAsked == Binding!BoundAsAsked

=============================================================================
