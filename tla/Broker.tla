------------------------------- MODULE Broker -------------------------------
(***************************************************************************)
(* The broker emulator (tea-lib/broker.tea) as the OHLC trade coordinator  *)
(* drives it (tea-lib/trade.tea) over a net portfolio.                     *)
(*                                                                         *)
(* The broker holds one pending primary order and one attached exit.  A    *)
(* bar begins with the pending order, a reversal's second half and the     *)
(* exit, each matched against the account the previous fill left; then the *)
(* strategy submits, cancels and may process the close.  Prices are small  *)
(* integers and one order fills one unit; fees, cash and the capital check *)
(* are abstracted: where the code refuses an order for its size or for     *)
(* capital, the model may refuse it.                                       *)
(***************************************************************************)
EXTENDS Integers, SequencesExt

CONSTANTS
  EntryNames,     (* <<id, side>> of the entry commands a strategy uses    *)
  CloseIds,       (* ids of its close commands                             *)
  RebalanceIds,   (* ids of its rebalance commands                         *)
  Targets,        (* positions it rebalances to                            *)
  ExitIds,        (* ids of its exit commands                              *)
  EntryStops,     (* stops of its entries, None for a market entry         *)
  Brackets,       (* <<stop, target>> of its exits                         *)
  Bars,           (* <<open, high, low, close>>                            *)
  Pyramiding,     (* entries the account may hold                          *)
  None,
  MaxBars,        (* bound: bars                                           *)
  MaxCommands     (* bound: commands per bar                               *)

Sides == {"buy", "sell"}
EntryIds == {n[1] : n \in EntryNames}
OrderIds == EntryIds \cup CloseIds \cup RebalanceIds
Levels == Int \cup {None}

Primaries ==
  [kind : {"entry", "close", "rebalance"}, id : OrderIds, side : Sides, bar : 0..MaxBars,
   stop : Levels, target : Levels, triggered : BOOLEAN]
Exits ==
  [id : ExitIds, from : EntryIds, side : Sides, stop : Levels, target : Levels,
   onEntryBar : BOOLEAN]
ActiveEntries == [id : OrderIds, side : Sides, bar : 1..MaxBars]
Reversals == [price : Int, atClose : BOOLEAN]

ASSUME BrokerAssumption ==
  /\ \A n \in EntryNames : n = <<n[1], n[2]>> /\ n[2] \in Sides
  /\ Targets \subseteq Int
  /\ EntryStops \subseteq Levels
  /\ \A b \in Brackets : b[1] \in Levels /\ b[2] \in Levels
  /\ \A b \in Bars : \A i \in 1..4 : b[i] \in Int
  /\ Pyramiding \in Nat \ {0}
  /\ MaxBars \in Nat /\ MaxCommands \in Nat
  /\ None \notin Int \cup Primaries \cup Exits \cup ActiveEntries \cup Reversals

(***************************************************************************)
(* What the agreement of orders and account asks of a strategy: an id      *)
(* names entries of one side only, and no rebalance.                       *)
(***************************************************************************)
OneSidePerId ==
  /\ \A m, n \in EntryNames : m[1] = n[1] => m[2] = n[2]
  /\ EntryIds \cap RebalanceIds = {}

VARIABLES
  processOnClose, (* processOrdersOnClose, fixed                           *)
  primary,        (* `pending`, the primary order, or None                 *)
  attachedExit,   (* the exit order, or None                               *)
  activeEntry,    (* [id, side, bar] of the entry the position is from     *)
  matchedBar,     (* the bar fillsThisBar counts for                       *)
  fillsThisBar,
  reversal,       (* [price, atClose]: a reversal closed and has yet to open *)
  position,       (* of the portfolio, signed                              *)
  entries,        (* its open entry count                                  *)
  barIndex, bar,  (* of the coordinator                                    *)
  phase,          (* what the coordinator does next                        *)
  commands,       (* commands so far in this bar                           *)
  fill,           (* history: what the last match filled, or None          *)
  since           (* history: the bar the position was opened in           *)

orders == <<primary, attachedExit>>
account == <<position, entries>>
coordinator == <<barIndex, bar, phase, commands>>
brokerState == <<orders, activeEntry, matchedBar, fillsThisBar, reversal>>
brokerVars == <<processOnClose, brokerState, account, coordinator, fill, since>>

Direction(side) == IF side = "buy" THEN 1 ELSE -1
SideOf(n) == IF n > 0 THEN "buy" ELSE "sell"
Opposite(side) == IF side = "buy" THEN "sell" ELSE "buy"
Size(n) == IF n < 0 THEN -n ELSE n

-----------------------------------------------------------------------------
(***************************************************************************)
(* Matching.                                                               *)
(***************************************************************************)

(* fillsThisBar as a match of this bar sees it *)
Fills == IF matchedBar = barIndex THEN fillsThisBar ELSE 0

(* apply_net() of a fill *)
Applied(delta, kind) ==
  LET new == position + delta
  IN /\ position' = new
     /\ since' = IF position * new <= 0 THEN barIndex ELSE since
     /\ entries' = IF new = 0 THEN 0
                   ELSE IF position * new <= 0 THEN 1
                   ELSE IF Size(new) > Size(position) /\ kind # "rebalance" THEN entries + 1
                   ELSE entries

Filled(order, kind, delta, price) ==
  /\ Applied(delta, kind)
  /\ matchedBar' = barIndex /\ fillsThisBar' = Fills + 1
  /\ fill' = [kind |-> kind, order |-> order, price |-> price, opened |-> since]

NotFilled ==
  /\ matchedBar' = barIndex /\ fillsThisBar' = Fills
  /\ fill' = None
  /\ UNCHANGED <<account, since>>

Entered(order, side) == [id |-> order.id, side |-> side, bar |-> barIndex]

(* The reversal still due after a match: a continuation is the last of it. *)
StillDue(continuation) == IF continuation THEN None ELSE reversal

(* The order leaves, unless the other half of its reversal is due. *)
OrderSettled(due) ==
  /\ reversal' = due
  /\ primary' = IF due = None THEN None ELSE primary

(* An opening fill keeps the identity of the entry it adds to. *)
FillEntry(order, price, due) ==
  /\ Filled(order, "entry", Direction(order.side), price)
  /\ activeEntry' = IF position = 0 \/ activeEntry = None \/ activeEntry.id # order.id
                    THEN Entered(order, order.side) ELSE activeEntry
  /\ OrderSettled(due)
  /\ UNCHANGED attachedExit

KeepsReversalExit(order) ==
  attachedExit # None /\ attachedExit.from = order.id /\ attachedExit.side # order.side

(* The first half of a reversal closes the position; the order stays. *)
FillReversal(order, price, atClose) ==
  /\ Filled(order, "close", -position, price)
  /\ activeEntry' = None
  /\ attachedExit' = IF KeepsReversalExit(order) THEN attachedExit ELSE None
  /\ reversal' = [price |-> price, atClose |-> atClose]
  /\ primary' = [order EXCEPT !.triggered = TRUE]

FillClose(order, price, due) ==
  /\ Filled(order, "close", -position, price)
  /\ activeEntry' = None /\ attachedExit' = None
  /\ OrderSettled(due)

(* Mutated form: a position turned over keeps its old entry. *)
EntryStays(order, new) ==
  IF new = 0 THEN None
  ELSE IF activeEntry = None THEN Entered(order, SideOf(new)) ELSE activeEntry

EntryAfter(order, new) ==
  IF new = 0 THEN None
  ELSE IF position * new <= 0 \/ activeEntry = None
  THEN Entered(order, SideOf(new)) ELSE activeEntry

(* A rebalance fills what the account can carry of the difference. *)
FillRebalance(order, price, delta, due) ==
  LET new == position + delta
  IN /\ Filled(order, "rebalance", delta, price)
     /\ attachedExit' = IF position # 0 /\ position * new <= 0 THEN None ELSE attachedExit
     /\ activeEntry' = EntryAfter(order, new)
     /\ OrderSettled(due)

Orphaned(order, due) ==
  /\ order.kind = "entry" /\ due = None
  /\ ~(activeEntry # None /\ activeEntry.id = order.id /\ position # 0)
  /\ attachedExit # None /\ attachedExit.from = order.id

Refuse(order, due) ==
  /\ NotFilled
  /\ attachedExit' = IF Orphaned(order, due) THEN None ELSE attachedExit
  /\ OrderSettled(due)
  /\ UNCHANGED activeEntry

ExecuteEntry(order, price, atClose, due) ==
  IF position * Direction(order.side) < 0 THEN FillReversal(order, price, atClose)
  ELSE IF entries < Pyramiding THEN FillEntry(order, price, due) ELSE Refuse(order, due)

ExecuteRebalance(order, price, due) ==
  LET delta == order.target - position
  IN IF delta = 0 THEN Refuse(order, due)
     ELSE \/ FillRebalance(order, price, delta, due)
          \/ \E n \in 1..Size(delta) - 1 :
               position >= 0 /\ delta > 0 /\ FillRebalance(order, price, n, due)

Eligible(atClose) ==
  IF atClose THEN processOnClose /\ barIndex >= primary.bar ELSE barIndex > primary.bar

(* execute() of the pending order: an entry or a rebalance may be refused  *)
(* for its size or for capital.                                            *)
Execute(price, atClose, triggered, continuation) ==
  LET order == primary
      due == StillDue(continuation)
  IN IF ~(order # None /\ Eligible(atClose) /\ triggered /\ Fills < 2)
     THEN NotFilled /\ reversal' = due /\ UNCHANGED <<orders, activeEntry>>
     ELSE \/ order.kind = "entry" /\ ExecuteEntry(order, price, atClose, due)
          \/ order.kind = "rebalance" /\ ExecuteRebalance(order, price, due)
          \/ order.kind \in {"entry", "rebalance"} /\ Refuse(order, due)
          \/ /\ order.kind = "close"
             /\ IF position * Direction(order.side) < 0
                THEN FillClose(order, price, due) ELSE Refuse(order, due)

Reached(order, price) ==
  order.stop = None \/ IF order.side = "buy" THEN price >= order.stop ELSE price <= order.stop

Furthest(order) == IF order.side = "buy" THEN bar[2] ELSE bar[3]

(* Mutated form: every pending order fills at the open. *)
AtOpen == bar[1]

AtOpenOrStop == IF Reached(primary, bar[1]) THEN bar[1] ELSE primary.stop

(* A reversal the cap on fills put off is continued at the next open. *)
Deferred == reversal # None /\ matchedBar # barIndex

(* match_pending() *)
MatchPending ==
  /\ phase = "pending"
  /\ phase' = "continue"
  /\ IF primary = None
     THEN fill' = None /\ UNCHANGED <<brokerState, account, since>>
     ELSE IF Deferred THEN Execute(bar[1], FALSE, TRUE, TRUE)
     ELSE Execute(AtOpenOrStop, FALSE, Reached(primary, Furthest(primary)), FALSE)
  /\ UNCHANGED <<barIndex, bar, commands>>

SecondHalfDue == reversal # None /\ primary # None /\ Fills < 2

(* continue_reversal(), after the portfolio applied the first half *)
ContinueReversal ==
  /\ phase \in {"continue", "closeContinue"}
  /\ phase' = IF phase = "continue" THEN "exit" ELSE "strategy"
  /\ IF SecondHalfDue THEN Execute(reversal.price, reversal.atClose, TRUE, TRUE)
     ELSE fill' = None /\ UNCHANGED <<brokerState, account, since>>
  /\ UNCHANGED <<barIndex, bar, commands>>

ActivationAllowed == attachedExit.onEntryBar \/ barIndex > activeEntry.bar

(* Whether prices from `down` to `up` reach the exit's stop, its target. *)
HitsStop(down, up) ==
  /\ attachedExit.stop # None
  /\ IF position > 0 THEN down <= attachedExit.stop ELSE up >= attachedExit.stop

HitsTarget(down, up) ==
  /\ attachedExit.target # None
  /\ IF position > 0 THEN up >= attachedExit.target ELSE down <= attachedExit.target

TargetNearer ==
  LET above == bar[2] - bar[1]
      below == bar[1] - bar[3]
  IN IF position > 0 THEN above < below ELSE below < above

(* Where match_exit() fills the attached exit, None if the bar misses it. *)
ExitPrice ==
  LET stop == HitsStop(bar[3], bar[2])
      target == HitsTarget(bar[3], bar[2])
  IN CASE HitsStop(bar[1], bar[1]) \/ HitsTarget(bar[1], bar[1]) -> bar[1]
       [] OTHER -> IF target /\ (~stop \/ TargetNearer) THEN attachedExit.target
                   ELSE IF stop THEN attachedExit.stop ELSE None

ExitLive ==
  /\ attachedExit # None /\ activeEntry # None
  /\ attachedExit.from = activeEntry.id
  /\ position # 0
  /\ Fills < 2
  /\ ActivationAllowed

(* The exit's own side, the size of the whole position. *)
WholePosition == Direction(attachedExit.side) * Size(position)

(* match_exit() *)
MatchExit ==
  /\ phase = "exit"
  /\ phase' = "strategy"
  /\ IF ExitLive /\ ExitPrice # None
     THEN /\ Filled(attachedExit, "exit", WholePosition, ExitPrice)
          /\ attachedExit' = None /\ activeEntry' = None
          /\ UNCHANGED <<primary, reversal>>
     ELSE NotFilled /\ UNCHANGED <<orders, activeEntry, reversal>>
  /\ UNCHANGED <<barIndex, bar, commands>>

(* process_close() *)
ProcessClose ==
  /\ phase = "strategy"
  /\ phase' = "closeContinue"
  /\ Execute(bar[4], TRUE, Deferred \/ (primary # None /\ Reached(primary, bar[4])), Deferred)
  /\ UNCHANGED <<barIndex, bar, commands>>

-----------------------------------------------------------------------------
(***************************************************************************)
(* The strategy's commands.  A rejected command changes nothing.           *)
(***************************************************************************)

Commands(A) ==
  /\ phase = "strategy" /\ commands < MaxCommands
  /\ commands' = commands + 1
  /\ A
  /\ UNCHANGED <<activeEntry, matchedBar, fillsThisBar, account, barIndex, bar, phase, fill, since>>

Primary(kind, id, side, stop, target) ==
  [kind |-> kind, id |-> id, side |-> side, bar |-> barIndex, stop |-> stop,
   target |-> target, triggered |-> FALSE]

KeepsEntryId(order) ==
  (order.kind = "entry" /\ activeEntry # None /\ order.side = activeEntry.side)
    => order.id = activeEntry.id

Replaces(order) ==
  /\ primary # None /\ order.kind = primary.kind /\ order.id = primary.id
  /\ \/ order.kind = "entry" /\ order.stop # None /\ primary.stop # None
     \/ order.kind = "rebalance"

(* submit() *)
Submit(order) ==
  /\ KeepsEntryId(order)
  /\ primary # None => Replaces(order)
  /\ primary' = order
  /\ UNCHANGED <<attachedExit, reversal>>

Entry(name, stop) == Submit(Primary("entry", name[1], name[2], stop, None))

Close(id) == Submit(Primary("close", id, IF position < 0 THEN "buy" ELSE "sell", None, None))

Rebalance(id, target) == Submit(Primary("rebalance", id, "buy", None, target))

PendingEntry(id) == primary # None /\ primary.kind = "entry" /\ primary.id = id

(* submit_exit(): for the pending entry of that id, else the active one.   *)
Exit(id, from, bracket, onEntryBar) ==
  LET entrySide == IF PendingEntry(from) THEN primary.side ELSE activeEntry.side
      stop == bracket[1]
      target == bracket[2]
  IN /\ ~PendingEntry(from) => activeEntry # None /\ activeEntry.id = from
     /\ stop # None \/ target # None
     /\ (stop # None /\ target # None) =>
          IF entrySide = "buy" THEN stop < target ELSE target < stop
     /\ attachedExit # None => attachedExit.id = id /\ attachedExit.from = from
     /\ attachedExit' = [id |-> id, from |-> from, side |-> Opposite(entrySide),
                         stop |-> stop, target |-> target, onEntryBar |-> onEntryBar]
     /\ UNCHANGED <<primary, reversal>>

(* Mutated form: a cancelled order leaves its reversal behind. *)
ReversalStays == reversal

ReversalForgotten == None

(* cancel(): the pending order, the exit that waits for it, the exit.      *)
Cancel(id) ==
  LET cancelled == primary # None /\ primary.id = id
      dependent == /\ cancelled /\ primary.kind = "entry" /\ activeEntry = None
                   /\ attachedExit # None /\ attachedExit.from = id
  IN /\ primary' = IF cancelled THEN None ELSE primary
     /\ reversal' = IF cancelled THEN ReversalForgotten ELSE reversal
     /\ attachedExit' =
          IF attachedExit # None /\ (dependent \/ attachedExit.id = id) THEN None
          ELSE attachedExit

Strategy ==
  \/ \E n \in EntryNames, s \in EntryStops : Commands(Entry(n, s))
  \/ \E id \in CloseIds : Commands(Close(id))
  \/ \E id \in RebalanceIds, t \in Targets : Commands(Rebalance(id, t))
  \/ \E id \in ExitIds, n \in EntryNames, b \in Brackets, on \in BOOLEAN :
       Commands(Exit(id, n[1], b, on))
  \/ \E id \in {n[1] : n \in EntryNames} \cup CloseIds \cup RebalanceIds \cup ExitIds :
       Commands(Cancel(id))

(* begin_bar() *)
BeginBar ==
  /\ phase = "strategy" /\ barIndex < MaxBars
  /\ barIndex' = barIndex + 1
  /\ bar' \in Bars
  /\ phase' = "pending" /\ commands' = 0 /\ fill' = None
  /\ UNCHANGED <<brokerState, account, since>>

(* finish(TRUE) *)
FinishBar ==
  /\ phase = "strategy" /\ barIndex > 0
  /\ phase' = "finished"
  /\ primary' = None /\ attachedExit' = None /\ activeEntry' = None
  /\ reversal' = None /\ fill' = None
  /\ UNCHANGED <<matchedBar, fillsThisBar, account, since, barIndex, bar, commands>>

BrokerInit ==
  /\ processOnClose \in BOOLEAN
  /\ primary = None /\ attachedExit = None /\ activeEntry = None
  /\ matchedBar = 0 /\ fillsThisBar = 0
  /\ reversal = None
  /\ position = 0 /\ entries = 0
  /\ barIndex = 0 /\ bar \in Bars /\ phase = "strategy" /\ commands = MaxCommands
  /\ fill = None /\ since = 0

BrokerNext ==
  /\ \/ BeginBar \/ MatchPending \/ ContinueReversal \/ MatchExit
     \/ Strategy \/ ProcessClose
     \/ FinishBar
  /\ UNCHANGED processOnClose

BrokerSpec == BrokerInit /\ [][BrokerNext]_brokerVars

-----------------------------------------------------------------------------

BrokerTypeOK ==
  /\ processOnClose \in BOOLEAN
  /\ primary \in Primaries \cup {None} /\ attachedExit \in Exits \cup {None}
  /\ primary # None => (primary.kind = "rebalance" <=> primary.target # None)
  /\ activeEntry \in ActiveEntries \cup {None} /\ reversal \in Reversals \cup {None}
  /\ matchedBar \in 0..barIndex /\ fillsThisBar \in 0..2
  /\ position \in Int /\ entries \in Nat
  /\ barIndex \in 0..MaxBars /\ bar \in Bars /\ commands \in 0..MaxCommands
  /\ phase \in {"pending", "continue", "exit", "strategy", "closeContinue", "finished"}
  /\ since \in 0..barIndex

(* The identity the broker keeps of the active entry is that of the        *)
(* portfolio's position, through every reversal, rebalance, refusal, exit  *)
(* and close, and the account never holds more entries than it may         *)
(* (broker.tea execute, match_exit; portfolio.tea apply_net).              *)
ActiveMatchesPosition ==
  /\ BrokerTypeOK
  /\ entries <= Pyramiding
  /\ phase # "finished" =>
       /\ position # 0 <=> activeEntry # None
       /\ position # 0 => activeEntry.side = SideOf(position)

(* In a flat account an attached exit waits for the pending entry, whatever *)
(* was refused, cancelled, replaced or closed before; and an exit that is   *)
(* not live on its entry's bar fills in a later bar than the one that       *)
(* opened the position.                                                    *)
ExitsWait ==
  /\ (attachedExit # None /\ activeEntry = None) => PendingEntry(attachedExit.from)
  /\ (fill # None /\ fill.kind = "exit" /\ ~fill.order.onEntryBar) => fill.opened < barIndex

(* While half of a reversal is due, its order is pending and the account   *)
(* is flat: the second half opens from zero and the order is not lost.  No  *)
(* market order is still pending after the bar that follows it: it has      *)
(* filled, both halves if it reverses, or was refused; and no exit outlives *)
(* the entry it was attached to.                                            *)
OrdersConsistent ==
  /\ reversal # None =>
       primary # None /\ primary.kind = "entry" /\ position = 0 /\ activeEntry = None
  /\ (phase = "strategy" /\ primary # None /\ primary.stop = None) => primary.bar = barIndex
  /\ ExitsWait

(* A stop entry fills only at a price its stop was reached by ("Gap        *)
(* matches use the open; intrabar matches use the trigger").               *)
EveryStopRespected ==
  (fill # None /\ fill.kind # "exit" /\ ~fill.order.triggered) => Reached(fill.order, fill.price)

(* That is so where no order is processed on the close: there the cap on   *)
(* fills never puts off the second half of a reversal (match_pending).     *)
StopRespected == ~processOnClose => EveryStopRespected

=============================================================================
