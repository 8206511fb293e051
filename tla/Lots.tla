-------------------------------- MODULE Lots --------------------------------
(***************************************************************************)
(* Bounded-lot trading: the coordinator LotTrade (tea-lib/trade.tea) over  *)
(* the accounting of LotPortfolio (tea-lib/portfolio.tea) and the          *)
(* immediate execution of BrokerEmulator (tea-lib/broker.tea).             *)
(*                                                                         *)
(* A command runs to its end inside one call of the strategy, so each is   *)
(* one action; inside it the coordinator applies every fill to the book    *)
(* before it asks for the next.  Prices, quantities and money are          *)
(* integers: commission is cash per order and slippage a number of ticks,  *)
(* and an entry is sized by quantity (a notional divides by the price).    *)
(* An order id is a fill id here, and emitted effects are left out.        *)
(***************************************************************************)
EXTENDS Integers, SequencesExt

CONSTANTS
  InitialCash, MaxOpenTrades, MarginLong, MarginShort,  (* portfolio.lots() *)
  Commission, Slippage,                                 (* broker.new()     *)
  LotBars,     (* <<open, high, low, close>>                               *)
  Quantities,  (* sizes the strategy asks for; 0 is an invalid one         *)
  Stops,       (* stop prices it asks for                                  *)
  Na,          (* na                                                       *)
  MaxFills     (* bound: fills                                             *)

LotSides == {"buy", "sell"}

LotFills ==
  [kind : {"entry", "close"}, side : LotSides, quantity : Nat \ {0}, price : Nat \ {0},
   reference : Nat \ {0}, tradeId : Nat, stop : Stops \cup {Na}]

LotsAssumption ==
  /\ InitialCash \in Nat \ {0} /\ MaxOpenTrades \in Nat \ {0}
  /\ {MarginLong, MarginShort} \subseteq {0, 100}
  /\ Commission \in Nat /\ Slippage \in Nat /\ MaxFills \in Nat
  /\ Quantities \subseteq Nat /\ Stops \subseteq Int
  /\ Na \notin LotFills /\ Na \notin Int
  /\ \A b \in LotBars : /\ b \in [1 .. 4 -> Nat \ {0}]
                     /\ b[3] <= b[1] /\ b[1] <= b[2] /\ b[3] <= b[4] /\ b[4] <= b[2]

VARIABLES
  lotBar,
  openTrades,  (* the lots: [id, side, price, quantity, fee]               *)
  ledger,      (* the running totals of the portfolio                      *)
  ids,         (* [trade, fill]: the next ids the broker gives             *)
  lotFill,     (* history: the last fill of this bar and its stop, or Na   *)
  outcome      (* history: of the last command: "filled", "refused", "missed" *)

lotsVars == <<lotBar, openTrades, ledger, ids, lotFill, outcome>>

ClosingSide(side) == IF side = "buy" THEN "sell" ELSE "buy"
Sign(side) == IF side = "buy" THEN 1 ELSE -1

\* What the two components hold while a command runs.
Book == [lots |-> openTrades, ledger |-> ledger, ids |-> ids, fill |-> Na]

\* The sum of a sequence of numbers.
Total(v) ==
  LET sum[n \in 0 .. Len(v)] == IF n = 0 THEN 0 ELSE sum[n - 1] + v[n]
  IN sum[Len(v)]

PositionQuantity(lots) == Total([i \in DOMAIN lots |-> Sign(lots[i].side) * lots[i].quantity])
Stacked(lots, side) == Cardinality({i \in DOMAIN lots : lots[i].side = side})
Larger(a, b) == IF a > b THEN a ELSE b

-----------------------------------------------------------------------------
(***************************************************************************)
(* The broker.                                                             *)
(***************************************************************************)

ExecutionPrice(reference, side) == reference + Sign(side) * Slippage

(* Mutated form: capacity is checked off by one. *)
HasCapacityLate(lots) == Len(lots) <= MaxOpenTrades
HasCapacity(lots) == Len(lots) < MaxOpenTrades

CapitalAvailable(side, reference, b) ==
  IF side = "buy" THEN b.ledger.cash
  ELSE b.ledger.cash + PositionQuantity(b.lots) * reference

(* accountStateValid and capitalValid, of an entry and of a close          *)
MayEnter(side, quantity, reference, b) ==
  LET margin == IF side = "buy" THEN MarginLong ELSE MarginShort
      needed == quantity * ExecutionPrice(reference, side) + Commission
  IN HasCapacity(b.lots)
     /\ (margin # 0 => CapitalAvailable(side, reference, b) >= needed)
MayClose(side, b) == Sign(side) * PositionQuantity(b.lots) < 0

NextTrade(kind, b) == IF kind = "entry" THEN b.ids.trade + 1 ELSE b.ids.trade

(* execute_at_close(): the fill, or Na when the broker rejects.          *)
ExecuteAtClose(kind, side, quantity, tradeId, reference, b) ==
  LET price == ExecutionPrice(reference, side)
      allowed == IF kind = "entry" THEN MayEnter(side, quantity, reference, b)
                 ELSE MayClose(side, b)
  IN IF quantity > 0 /\ allowed /\ reference > 0 /\ price > 0
     THEN [kind |-> kind, side |-> side, quantity |-> quantity, price |-> price,
           reference |-> reference, tradeId |-> tradeId, stop |-> Na]
     ELSE Na

-----------------------------------------------------------------------------
(***************************************************************************)
(* The portfolio.                                                          *)
(***************************************************************************)

CashAfter(b, f) ==
  b.ledger.cash - Sign(f.side) * f.quantity * f.price - Commission

(* The totals after an entry. *)
Paid(l, cash, lots) ==
  [l EXCEPT !.cash = cash, !.fees = @ + Commission, !.fills = @ + 1,
            !.longStack = Larger(@, Stacked(lots, "buy")),
            !.shortStack = Larger(@, Stacked(lots, "sell"))]

(* apply_lot() of an entry                                                 *)
LotOpened(b, f) ==
  LET lots == Append(b.lots, [id |-> f.tradeId, side |-> f.side, price |-> f.price,
                              quantity |-> f.quantity, fee |-> Commission])
  IN IF Len(b.lots) >= MaxOpenTrades THEN b
     ELSE [b EXCEPT !.lots = lots, !.ledger = Paid(@, CashAfter(b, f), lots)]

\* The last lot takes the place of the closed one.
Removed(lots, i) ==
  IF i = Len(lots) THEN Front(lots) ELSE [Front(lots) EXCEPT ![i] = Last(lots)]

(* The totals after a close. *)
Realized(l, cash, pnl) ==
  [l EXCEPT !.cash = cash, !.fees = @ + Commission, !.fills = @ + 1, !.realized = @ + pnl,
            !.roundTrips = @ + 1,
            !.wins = IF pnl > 0 THEN @ + 1 ELSE @,
            !.losses = IF pnl > 0 THEN @ ELSE @ + 1,
            !.grossProfit = IF pnl > 0 THEN @ + pnl ELSE @,
            !.grossLoss = IF pnl > 0 THEN @ ELSE @ - pnl]

(* apply_lot() of a close                                                  *)
LotsClosed(b, f) ==
  LET matched == {i \in DOMAIN b.lots : b.lots[i].id = f.tradeId}
  IN IF matched = {} THEN b
     ELSE LET i == Max(matched)
              lot == b.lots[i]
              gross == Sign(lot.side) * lot.quantity * (f.price - lot.price)
              pnl == gross - lot.fee - Commission
          IN IF f.side = lot.side \/ f.quantity # lot.quantity THEN b
             ELSE [b EXCEPT !.lots = Removed(@, i), !.ledger = Realized(@, CashAfter(b, f), pnl)]

\* The book after the broker filled f or, with Na, rejected.
Booked(b, f) ==
  IF f = Na THEN [b EXCEPT !.fill = Na]
  ELSE LET numbered == [b EXCEPT !.ids = [trade |-> NextTrade(f.kind, b), fill |-> @.fill + 1],
                              !.fill = f]
       IN IF f.kind = "entry" THEN LotOpened(numbered, f) ELSE LotsClosed(numbered, f)

CloseLot(b, i, reference) ==
  Booked(b, ExecuteAtClose("close", ClosingSide(b.lots[i].side), b.lots[i].quantity,
                     b.lots[i].id, reference, b))

-----------------------------------------------------------------------------
(***************************************************************************)
(* The coordinator.                                                        *)
(***************************************************************************)

LotsInit ==
  /\ lotBar \in LotBars
  /\ openTrades = <<>>
  /\ ledger = [cash |-> InitialCash, equity |-> InitialCash, peak |-> InitialCash,
               realized |-> 0, fees |-> 0, fills |-> 0, roundTrips |-> 0, wins |-> 0,
               losses |-> 0, grossProfit |-> 0, grossLoss |-> 0, longStack |-> 0,
               shortStack |-> 0]
  /\ ids = [trade |-> 1, fill |-> 1]
  /\ lotFill = Na /\ outcome = "missed"

BeginLotBar(b) ==
  /\ lotBar' = b /\ lotFill' = Na
  /\ UNCHANGED <<openTrades, ledger, ids, outcome>>

Becomes(b, stop) ==
  /\ openTrades' = b.lots /\ ledger' = b.ledger /\ ids' = b.ids
  /\ lotFill' = IF b.fill = Na THEN Na ELSE [b.fill EXCEPT !.stop = stop]
  /\ outcome' = IF b.fill = Na THEN "refused" ELSE "filled"
  /\ UNCHANGED lotBar

CloseOpposite(r, i, side) ==
  IF ~r.valid \/ r.book.lots[i].side = side THEN r
  ELSE LET after == CloseLot(r.book, i, lotBar[4])
       IN [valid |-> after.fill # Na, book |-> after]

\* The lots of the other side are closed one by one, the newest first, until one is refused.
Reversed(b, side) ==
  LET walked[n \in 0 .. Len(b.lots)] ==
        IF n = 0 THEN [valid |-> TRUE, book |-> b]
        ELSE CloseOpposite(walked[n - 1], Len(b.lots) - n + 1, side)
  IN walked[Len(b.lots)]

(* entry() *)
EnterLot(side, quantity) ==
  /\ ids.fill + Len(openTrades) < MaxFills + 1
  /\ LET reversal == Reversed(Book, side)
         b == reversal.book
     IN Becomes(IF quantity = 0 THEN Book
                ELSE IF ~reversal.valid THEN b
                ELSE Booked(b, ExecuteAtClose("entry", side, quantity, b.ids.trade, lotBar[4], b)), Na)

LotsOf(tradeId) == {i \in DOMAIN openTrades : openTrades[i].id = tradeId}

(* close_trade() *)
CloseTrade(tradeId) ==
  /\ ids.fill < MaxFills + 1
  /\ Becomes(IF LotsOf(tradeId) = {} THEN Book
             ELSE CloseLot(Book, Max(LotsOf(tradeId)), lotBar[4]), Na)

(* stop_touched() *)
Touched(closeSide, stop) == IF closeSide = "sell" THEN lotBar[3] <= stop ELSE lotBar[2] >= stop

\* The stop, or the open when the bar opens beyond it.
StopReference(closeSide, stop) ==
  IF Sign(closeSide) * (lotBar[1] - stop) >= 0 THEN lotBar[1] ELSE stop

(* close_trade_at_stop() and execute_if_stop_touched()                     *)
CloseTradeAtStop(tradeId, entrySide, stop) ==
  LET side == ClosingSide(entrySide)
      i == Max(LotsOf(tradeId))
  IN /\ ids.fill < MaxFills + 1
     /\ IF ~Touched(side, stop)
        THEN /\ outcome' = "missed" /\ lotFill' = Na
             /\ UNCHANGED <<lotBar, openTrades, ledger, ids>>
        ELSE Becomes(IF LotsOf(tradeId) = {} THEN Book
                     ELSE IF openTrades[i].side # entrySide \/ stop <= 0 THEN Book
                     ELSE CloseLot(Book, i, StopReference(side, stop)), stop)

(* mark(); the drawdown, a ratio of the two, is left out                   *)
Mark ==
  LET value == ledger.cash + PositionQuantity(openTrades) * lotBar[4]
  IN /\ ledger' = [ledger EXCEPT !.equity = value, !.peak = Larger(@, value)]
     /\ UNCHANGED <<lotBar, openTrades, ids, lotFill, outcome>>

LotsNext ==
  \/ \E b \in LotBars : BeginLotBar(b)
  \/ \E side \in LotSides, quantity \in Quantities : EnterLot(side, quantity)
  \/ \E tradeId \in 1 .. ids.trade : CloseTrade(tradeId)
  \/ \E tradeId \in 1 .. ids.trade, side \in LotSides, stop \in Stops :
       CloseTradeAtStop(tradeId, side, stop)
  \/ Mark

LotsSpec == LotsInit /\ [][LotsNext]_lotsVars

-----------------------------------------------------------------------------
(***************************************************************************)
(* Properties.                                                             *)
(***************************************************************************)

\* What an open lot cost, with its commission.
Cost(t) == Sign(t.side) * t.quantity * t.price + t.fee
OpenCost(lots) == Total([i \in DOMAIN lots |-> Cost(lots[i])])

\* The lots are within the portfolio's capacity, each has an id of its own, and the
\* totals are numbers.
LotsTypeOK ==
  /\ lotBar \in LotBars
  /\ openTrades \in Seq([id : Nat, side : LotSides, price : Nat \ {0}, quantity : Nat \ {0},
                         fee : {Commission}])
  /\ Len(openTrades) <= MaxOpenTrades
  /\ \A i \in DOMAIN openTrades : openTrades[i].id < ids.trade
  /\ \A i, j \in DOMAIN openTrades : openTrades[i].id = openTrades[j].id => i = j
  /\ ledger \in [cash : Int, equity : Int, peak : Int, realized : Int, fees : Int, fills : Nat,
                 roundTrips : Nat, wins : Nat, losses : Nat, grossProfit : Int, grossLoss : Int,
                 longStack : Nat, shortStack : Nat]
  /\ ids \in [trade : Nat \ {0}, fill : Nat \ {0}]
  /\ outcome \in {"filled", "refused", "missed"}

\* Every open lot is on one side: an entry closes the lots of the other side before it
\* opens its own, and opens nothing when it could not close them all (entry()).
OneSided == \A i, j \in DOMAIN openTrades : openTrades[i].side = openTrades[j].side

\* Full margin buys no long lot on credit (execute_at_close()'s capital check), so an
\* account that is long can only owe commissions of lots it closed.
Funded ==
  /\ lotFill # Na /\ lotFill.kind = "entry" /\ lotFill.side = "buy" => ledger.cash >= 0
  /\ (\E i \in DOMAIN openTrades : openTrades[i].side = "buy") =>
       ledger.cash >= - (Commission * ledger.roundTrips)

\* The books balance: cash is what the account began with, plus what closed lots made,
\* less what the open ones cost; fees and gross results agree with the totals.
LedgerBalances ==
  /\ LotsTypeOK
  /\ ledger.cash = InitialCash + ledger.realized - OpenCost(openTrades)
  /\ ledger.realized = ledger.grossProfit - ledger.grossLoss
  /\ ledger.fees = Commission * ledger.fills
  /\ MarginLong = 100 => Funded

\* A lot closed by its stop fills inside the bar that touched it, and at a price no
\* better than the stop (execute_if_stop_touched()).
StopFillsInBar ==
  lotFill # Na /\ lotFill.stop # Na =>
    /\ lotFill.reference \in lotBar[3] .. lotBar[2]
    /\ Sign(lotFill.side) * (lotFill.reference - lotFill.stop) >= 0

\* Every fill the broker published is in the accounting: the portfolio drops none of them
\* (apply_lot()'s defensive guards), each closed exactly the lot it names, and a reversal
\* that could not close every lot of the other side opened none of its own (entry()); the books
\* balance, and no stop fills at a price the bar never traded.
EveryFillApplied ==
  /\ ledger.fills = ids.fill - 1
  /\ ledger.fills = 2 * ledger.roundTrips + Len(openTrades)
  /\ ledger.wins + ledger.losses = ledger.roundTrips
  /\ OneSided /\ LedgerBalances /\ StopFillsInBar

=============================================================================
