---------------------------- MODULE TradingProofs ----------------------------
(***************************************************************************)
(* Proofs about Broker and Lots: orders and the account of a position      *)
(* agree, for every set of commands a strategy may give and every kind of  *)
(* bar; and what the accounts of bounded lots keep, for any bars,          *)
(* capacity, sizes and stops; any number of commands and bars in both.     *)
(***************************************************************************)
EXTENDS Broker, Lots, SequenceTheorems, WellFoundedInduction, FiniteSetTheorems, TLAPS

-----------------------------------------------------------------------------
(***************************************************************************)
(* Orders.                                                                 *)
(***************************************************************************)

(***************************************************************************)
(* The inductive invariant.  What the properties say of a bar that is over *)
(* rests on what may still be due while the bar is matched, so it is told  *)
(* by phase.                                                               *)
(***************************************************************************)

(* No order is older than the broker: nothing happens before the first bar. *)
NothingBefore ==
  /\ primary # None => primary.bar <= barIndex /\ barIndex > 0
  /\ barIndex = 0 => commands = MaxCommands
  /\ activeEntry # None => activeEntry.bar <= barIndex /\ since <= activeEntry.bar

(* Half of a reversal is due only to the entry that is pending, and the     *)
(* account is flat until it opens.                                         *)
HalfwayFlat ==
  reversal # None =>
    primary # None /\ primary.kind = "entry" /\ position = 0 /\ activeEntry = None

(* An exit in a flat account belongs to the pending entry. *)
ExitBelongs ==
  (attachedExit # None /\ activeEntry = None) => PendingEntry(attachedExit.from)

(* A bar begins with no fill of its own and with older orders only. *)
Beginning ==
  phase = "pending" =>
    /\ matchedBar < barIndex
    /\ primary # None => primary.bar < barIndex

(* Between the halves of a reversal there is room for the second, whose     *)
(* order was triggered; a market order is only left to be the second half. *)
Continuing ==
  phase = "continue" =>
    /\ primary # None => primary.bar < barIndex
    /\ (primary # None /\ primary.stop = None) => reversal # None
    /\ reversal # None =>
         /\ matchedBar = barIndex /\ fillsThisBar < 2
         /\ ~reversal.atClose /\ primary.triggered

Exiting ==
  phase = "exit" => reversal = None /\ (primary # None => primary.stop # None)

(* After the bar's own matching a market order is new, and half of a       *)
(* reversal is due only when the bar had no fill left for it.              *)
Resting ==
  phase \in {"strategy", "closeContinue"} =>
    /\ (primary # None /\ primary.stop = None) => primary.bar = barIndex
    /\ reversal # None =>
         /\ processOnClose /\ matchedBar = barIndex
         /\ phase = "strategy" => fillsThisBar = 2

(* Without processing on the close a reversal never waits for a later bar. *)
NeverDeferred == (~processOnClose /\ phase # "continue") => reversal = None

Orderly ==
  /\ BrokerTypeOK
  /\ NothingBefore
  /\ HalfwayFlat /\ ExitBelongs
  /\ Beginning /\ Continuing /\ Exiting /\ Resting /\ NeverDeferred

(* What the last match filled. *)
FillSound ==
  /\ (fill # None /\ fill.kind = "exit" /\ ~fill.order.onEntryBar) => fill.opened < barIndex
  /\ StopRespected

(* Entries, exits and the active entry have the side their id stands for. *)
SidesNamed ==
  /\ (primary # None /\ primary.kind = "entry") => <<primary.id, primary.side>> \in EntryNames
  /\ (primary # None /\ primary.kind = "rebalance") => primary.id \in RebalanceIds
  /\ (activeEntry # None /\ activeEntry.id \in EntryIds)
       => <<activeEntry.id, activeEntry.side>> \in EntryNames
  /\ attachedExit # None => <<attachedExit.from, Opposite(attachedExit.side)>> \in EntryNames

(* The broker's active entry is of the account's position; finish() forgets *)
(* the entry and leaves the position.                                      *)
Agree ==
  /\ phase # "finished" => (position # 0 <=> activeEntry # None)
  /\ (phase # "finished" /\ position # 0) => activeEntry.side = SideOf(position)
  /\ entries <= Pyramiding

(* What was filled, the orders and the account, and, for a strategy that    *)
(* keeps to OneSidePerId, the sides.                                       *)
FillsInv == Orderly /\ FillSound

IInv == Orderly /\ SidesNamed /\ Agree

-----------------------------------------------------------------------------
(***************************************************************************)
(* Signs and constants.                                                    *)
(***************************************************************************)

SameSign(m, n) == (m > 0 /\ n > 0) \/ (m < 0 /\ n < 0)

(* A product is positive exactly when its factors have the same sign. *)
LEMMA SignProduct ==
  ASSUME NEW m \in Int, NEW n \in Int
  PROVE  m * n \in Int /\ (m * n > 0 <=> SameSign(m, n)) /\ (m * n <= 0 <=> ~SameSign(m, n))
<1>1. CASE m = 0 \/ n = 0
  BY <1>1 DEF SameSign
<1>2. CASE m > 0 /\ n > 0
  BY <1>2 DEF SameSign
<1>3. CASE m < 0 /\ n < 0
  BY <1>3 DEF SameSign
<1>4. CASE m > 0 /\ n < 0
  BY <1>4 DEF SameSign
<1>5. CASE m < 0 /\ n > 0
  BY <1>5 DEF SameSign
<1> QED
  BY <1>1, <1>2, <1>3, <1>4, <1>5

(* What a fill does to the account, told by signs. *)
LEMMA AppliedSigns ==
  ASSUME BrokerTypeOK, NEW delta \in Int, NEW kind, Applied(delta, kind)
  PROVE  /\ position' = position + delta
         /\ position' \in Int
         /\ since' = IF SameSign(position, position + delta) THEN since ELSE barIndex
         /\ entries' \in {0, 1, entries, entries + 1}
         /\ position + delta = 0 => entries' = 0
         /\ (kind = "rebalance" /\ position + delta # 0) => entries' \in {1, entries}
<1>1. position \in Int /\ position + delta \in Int
  BY DEF BrokerTypeOK
<1>2. position * (position + delta) <= 0 <=> ~SameSign(position, position + delta)
  BY <1>1, SignProduct
<1> QED
  BY <1>1, <1>2 DEF Applied

(* None is no order, no entry and no half of a reversal. *)
LEMMA NoneIsNone ==
  /\ None \notin Primaries /\ None \notin Exits /\ None \notin ActiveEntries
  /\ None \notin Reversals /\ None \notin Int
  BY BrokerAssumption

-----------------------------------------------------------------------------
(***************************************************************************)
(* One match.  execute() ends in one of six ways; when it runs, nothing of *)
(* an earlier reversal is left due, unless it has just filled the first    *)
(* half of one.                                                            *)
(***************************************************************************)

Phases == {"pending", "continue", "exit", "strategy", "closeContinue", "finished"}

(* What holds of orders and account whatever the phase. *)
Base == BrokerTypeOK /\ NothingBefore /\ HalfwayFlat /\ ExitBelongs

Runs(atClose, triggered) == primary # None /\ Eligible(atClose) /\ triggered /\ Fills < 2

(* A match changes orders and account, and goes on to a next phase. *)
Matching ==
  /\ UNCHANGED <<processOnClose, barIndex, bar, commands>>
  /\ phase' \in Phases

(* What is left of the orders after a match that ran. *)
Ran(price, atClose) ==
  /\ matchedBar' = barIndex /\ fillsThisBar' \in {Fills, Fills + 1}
  /\ \/ primary' = None /\ reversal' = None
     \/ /\ primary.kind = "entry" /\ position # 0
        /\ primary' = [primary EXCEPT !.triggered = TRUE]
        /\ reversal' = [price |-> price, atClose |-> atClose]
        /\ fillsThisBar' = Fills + 1

(* A match that ran leaves no order, or the one whose other half is due. *)
LEMMA RanLeaves ==
  ASSUME primary \in Primaries, NEW price \in Int, NEW atClose \in BOOLEAN, Ran(price, atClose)
  PROVE  /\ primary' # None <=> reversal' # None
         /\ reversal' # None =>
              /\ reversal'.atClose = atClose /\ fillsThisBar' = Fills + 1
              /\ primary.kind = "entry" /\ position # 0 /\ primary'.triggered
              /\ primary'.bar = primary.bar /\ primary'.stop = primary.stop
<1>1. [price |-> price, atClose |-> atClose] # None
  BY NoneIsNone DEF Reversals
<1>2. [primary EXCEPT !.triggered = TRUE] \in Primaries
  BY DEF Primaries
<1>3. [primary EXCEPT !.triggered = TRUE] # None
  BY <1>2, NoneIsNone
<1> QED
  BY <1>1, <1>3 DEF Ran, Primaries

(* A step that leaves the account as it is. *)
LEMMA NotFilledTypes ==
  ASSUME BrokerTypeOK, NotFilled
  PROVE  /\ matchedBar' = barIndex /\ fillsThisBar' = Fills /\ fillsThisBar' \in 0..2
         /\ position' = position /\ entries' = entries /\ since' = since
<1> QED
  BY DEF NotFilled, BrokerTypeOK, Fills, account

(* A fill counts, and keeps the account typed. *)
LEMMA FilledTypes ==
  ASSUME BrokerTypeOK, NEW order, NEW kind, NEW delta \in Int, NEW price, Fills < 2,
         Filled(order, kind, delta, price)
  PROVE  /\ matchedBar' = barIndex /\ fillsThisBar' = Fills + 1 /\ fillsThisBar' \in 0..2
         /\ position' = position + delta /\ position' \in Int
         /\ since' = IF SameSign(position, position + delta) THEN since ELSE barIndex
         /\ since' \in 0..barIndex /\ entries' \in Nat
<1>1. Applied(delta, kind)
  BY DEF Filled
<1>2. /\ position' = position + delta /\ position' \in Int
      /\ since' = IF SameSign(position, position + delta) THEN since ELSE barIndex
      /\ entries' \in {0, 1, entries, entries + 1}
  BY <1>1, AppliedSigns
<1>3. Fills \in 0..2 /\ barIndex \in Nat /\ since \in 0..barIndex /\ entries \in Nat
  BY BrokerAssumption DEF BrokerTypeOK, Fills
<1>4. since' \in 0..barIndex
  BY <1>2, <1>3
<1>5. entries' \in Nat
  BY <1>2, <1>3
<1>6. matchedBar' = barIndex /\ fillsThisBar' = Fills + 1
  BY DEF Filled
<1> QED
  BY <1>2, <1>3, <1>4, <1>5, <1>6

LEMMA FillEntryKeeps ==
  ASSUME Base, Matching, primary # None, primary.kind = "entry", Fills < 2,
         ~(position * Direction(primary.side) < 0),
         NEW price, FillEntry(primary, price, None)
  PROVE  Base' /\ primary' = None /\ reversal' = None
<1> DEFINE delta == Direction(primary.side)
<1>1. primary \in Primaries /\ primary.side \in Sides /\ primary.id \in OrderIds
  BY DEF Base, BrokerTypeOK, Primaries
<1>2. delta \in {1, -1}
  BY <1>1 DEF Direction, Sides
<1>3. /\ matchedBar' = barIndex /\ fillsThisBar' \in 0..2
      /\ position' = position + delta /\ position' \in Int
      /\ since' = IF SameSign(position, position + delta) THEN since ELSE barIndex
      /\ since' \in 0..barIndex /\ entries' \in Nat
  BY <1>2, FilledTypes DEF Base, FillEntry
<1>4. primary' = None /\ reversal' = None /\ attachedExit' = attachedExit
  BY DEF FillEntry, OrderSettled
<1>5. barIndex \in 1..MaxBars
  BY DEF Base, BrokerTypeOK, NothingBefore
<1>6. Entered(primary, primary.side) \in ActiveEntries
  BY <1>1, <1>5 DEF Entered, ActiveEntries
<1>7. activeEntry' \in ActiveEntries /\ activeEntry' # None
  <2>1. activeEntry' = Entered(primary, primary.side) \/ (activeEntry' = activeEntry /\ activeEntry # None)
    BY DEF FillEntry
  <2> QED
    BY <1>6, <2>1, NoneIsNone DEF Base, BrokerTypeOK
<1>8. BrokerTypeOK'
  BY <1>3, <1>4, <1>7 DEF Base, BrokerTypeOK, Matching, Phases
<1>9. NothingBefore'
  <2>1. CASE activeEntry' = Entered(primary, primary.side)
    <3>1. activeEntry'.bar = barIndex
      BY <2>1 DEF Entered
    <3> QED
      BY <1>3, <1>4, <1>5, <3>1 DEF Base, NothingBefore, Matching, BrokerTypeOK
  <2>2. CASE activeEntry' = activeEntry /\ activeEntry # None /\ position # 0
    <3>1. SameSign(position, position + delta)
      BY <1>2, <2>2 DEF Base, BrokerTypeOK, SameSign
    <3>2. since' = since
      BY <1>3, <3>1
    <3> QED
      BY <1>4, <2>2, <3>2 DEF Base, NothingBefore, Matching
  <2> QED
    BY <2>1, <2>2 DEF FillEntry
<1>10. HalfwayFlat' /\ ExitBelongs'
  BY <1>4, <1>7 DEF HalfwayFlat, ExitBelongs
<1> QED
  BY <1>4, <1>8, <1>9, <1>10 DEF Base

LEMMA FillReversalKeeps ==
  ASSUME Base, Matching, primary # None, primary.kind = "entry", Fills < 2,
         NEW price \in Int, NEW atClose \in BOOLEAN, FillReversal(primary, price, atClose)
  PROVE  /\ Base'
         /\ primary' = [primary EXCEPT !.triggered = TRUE]
         /\ reversal' = [price |-> price, atClose |-> atClose]
         /\ fillsThisBar' = Fills + 1
<1>1. primary \in Primaries /\ position \in Int
  BY DEF Base, BrokerTypeOK
<1>2. -position \in Int /\ position + (-position) = 0
  BY <1>1
<1>3. /\ matchedBar' = barIndex /\ fillsThisBar' \in 0..2 /\ fillsThisBar' = Fills + 1
      /\ position' = 0 /\ since' \in 0..barIndex /\ entries' \in Nat
  BY <1>2, FilledTypes DEF Base, FillReversal
<1>4. /\ primary' = [primary EXCEPT !.triggered = TRUE] /\ activeEntry' = None
      /\ reversal' = [price |-> price, atClose |-> atClose]
      /\ attachedExit' = IF KeepsReversalExit(primary) THEN attachedExit ELSE None
  BY DEF FillReversal
<1>5. primary' \in Primaries /\ primary'.kind = "entry" /\ primary'.bar = primary.bar /\ primary'.id = primary.id
  BY <1>1, <1>4 DEF Primaries
<1>6. reversal' \in Reversals
  BY <1>4 DEF Reversals
<1>7. primary' # None
  BY <1>5, NoneIsNone
<1>8. BrokerTypeOK'
  BY <1>3, <1>4, <1>5, <1>6 DEF Base, BrokerTypeOK, Matching, Phases
<1>9. NothingBefore'
  BY <1>4, <1>5 DEF Base, NothingBefore, Matching
<1>10. HalfwayFlat'
  BY <1>3, <1>4, <1>5, <1>7 DEF HalfwayFlat
<1>11. ExitBelongs'
  <2>1. attachedExit' # None => attachedExit'.from = primary.id
    BY <1>4 DEF KeepsReversalExit
  <2> QED
    BY <1>5, <1>7, <2>1 DEF ExitBelongs, PendingEntry
<1> QED
  BY <1>3, <1>4, <1>8, <1>9, <1>10, <1>11 DEF Base

LEMMA FillCloseKeeps ==
  ASSUME Base, Matching, primary # None, Fills < 2, NEW price, FillClose(primary, price, None)
  PROVE  Base' /\ primary' = None /\ reversal' = None
<1>1. position \in Int
  BY DEF Base, BrokerTypeOK
<1>2. -position \in Int /\ position + (-position) = 0
  BY <1>1
<1>3. /\ matchedBar' = barIndex /\ fillsThisBar' \in 0..2
      /\ position' = 0 /\ since' \in 0..barIndex /\ entries' \in Nat
  BY <1>2, FilledTypes DEF Base, FillClose
<1>4. primary' = None /\ activeEntry' = None /\ attachedExit' = None /\ reversal' = None
  BY DEF FillClose, OrderSettled
<1>5. BrokerTypeOK'
  BY <1>3, <1>4 DEF Base, BrokerTypeOK, Matching, Phases
<1> QED
  BY <1>4, <1>5 DEF Base, NothingBefore, HalfwayFlat, ExitBelongs, Matching

LEMMA FillRebalanceKeeps ==
  ASSUME Base, Matching, primary # None, Fills < 2, NEW price,
         NEW delta \in Int, delta # 0, FillRebalance(primary, price, delta, None)
  PROVE  Base' /\ primary' = None /\ reversal' = None
<1> DEFINE new == position + delta
<1>1. primary \in Primaries /\ primary.id \in OrderIds /\ position \in Int /\ new \in Int
  BY DEF Base, BrokerTypeOK, Primaries
<1>2. position * new <= 0 <=> ~SameSign(position, new)
  BY <1>1, SignProduct
<1>3. /\ matchedBar' = barIndex /\ fillsThisBar' \in 0..2
      /\ position' = new
      /\ since' = IF SameSign(position, new) THEN since ELSE barIndex
      /\ since' \in 0..barIndex /\ entries' \in Nat
  BY FilledTypes DEF Base, FillRebalance
<1>4. /\ primary' = None /\ reversal' = None /\ activeEntry' = EntryAfter(primary, new)
      /\ attachedExit' = IF position # 0 /\ ~SameSign(position, new) THEN None ELSE attachedExit
  BY <1>2 DEF FillRebalance, OrderSettled
<1>5. barIndex \in 1..MaxBars
  BY DEF Base, BrokerTypeOK, NothingBefore
<1>6. Entered(primary, SideOf(new)) \in ActiveEntries
  BY <1>1, <1>5 DEF Entered, ActiveEntries, SideOf, Sides
<1>7. CASE new = 0
  <2>1. position # 0 /\ ~SameSign(position, new)
    BY <1>1, <1>7 DEF SameSign
  <2>2. activeEntry' = None /\ attachedExit' = None
    BY <1>4, <1>7, <2>1 DEF EntryAfter
  <2>3. BrokerTypeOK'
    BY <1>1, <1>3, <1>4, <2>2 DEF Base, BrokerTypeOK, Matching, Phases
  <2> QED
    BY <1>4, <2>2, <2>3 DEF Base, NothingBefore, HalfwayFlat, ExitBelongs, Matching
<1>8. CASE new # 0
  <2>1. activeEntry' = IF ~SameSign(position, new) \/ activeEntry = None
                       THEN Entered(primary, SideOf(new)) ELSE activeEntry
    BY <1>2, <1>4, <1>8 DEF EntryAfter
  <2>2. activeEntry' \in ActiveEntries /\ activeEntry' # None
    BY <1>6, <2>1, NoneIsNone DEF Base, BrokerTypeOK
  <2>3. BrokerTypeOK'
    BY <1>1, <1>3, <1>4, <2>2 DEF Base, BrokerTypeOK, Matching, Phases
  <2>4. activeEntry'.bar <= barIndex /\ since' <= activeEntry'.bar
    <3>1. CASE activeEntry' = Entered(primary, SideOf(new))
      BY <1>3, <1>5, <3>1 DEF Entered
    <3>2. CASE SameSign(position, new) /\ activeEntry # None /\ activeEntry' = activeEntry
      BY <1>3, <3>2 DEF Base, NothingBefore
    <3> QED
      BY <2>1, <3>1, <3>2
  <2> QED
    BY <1>4, <2>2, <2>3, <2>4 DEF Base, NothingBefore, HalfwayFlat, ExitBelongs, Matching
<1> QED
  BY <1>7, <1>8

LEMMA RefuseKeeps ==
  ASSUME Base, Matching, primary # None, Refuse(primary, None)
  PROVE  Base' /\ primary' = None /\ reversal' = None
<1>1. /\ matchedBar' = barIndex /\ fillsThisBar' \in 0..2
      /\ position' = position /\ entries' = entries /\ since' = since
  BY NotFilledTypes DEF Base, Refuse
<1>2. /\ primary' = None /\ reversal' = None /\ activeEntry' = activeEntry
      /\ attachedExit' = IF Orphaned(primary, None) THEN None ELSE attachedExit
  BY DEF Refuse, OrderSettled
<1>3. BrokerTypeOK'
  BY <1>1, <1>2 DEF Base, BrokerTypeOK, Matching, Phases
<1>4. NothingBefore' /\ HalfwayFlat'
  BY <1>1, <1>2 DEF Base, NothingBefore, HalfwayFlat, Matching
<1>5. ExitBelongs'
  BY <1>2 DEF Base, ExitBelongs, Orphaned, PendingEntry
<1> QED
  BY <1>2, <1>3, <1>4, <1>5 DEF Base

(* A match that does not run settles nothing, but a continuation is over. *)
LEMMA IdleKeeps ==
  ASSUME Base, Matching, NotFilled, NEW continuation \in BOOLEAN,
         reversal' = StillDue(continuation), UNCHANGED <<orders, activeEntry>>
  PROVE  Base'
<1>1. /\ matchedBar' = barIndex /\ fillsThisBar' \in 0..2
      /\ position' = position /\ entries' = entries /\ since' = since
  BY NotFilledTypes DEF Base
<1>2. /\ primary' = primary /\ attachedExit' = attachedExit /\ activeEntry' = activeEntry
      /\ reversal' = reversal \/ reversal' = None
  BY DEF orders, StillDue
<1>3. BrokerTypeOK'
  BY <1>1, <1>2 DEF Base, BrokerTypeOK, Matching, Phases
<1> QED
  BY <1>1, <1>2, <1>3 DEF Base, NothingBefore, HalfwayFlat, ExitBelongs, PendingEntry, Matching

(* One match keeps orders and account in step. *)
LEMMA ExecuteKeeps ==
  ASSUME Base, Matching, NEW price \in Int, NEW atClose \in BOOLEAN, NEW triggered \in BOOLEAN,
         NEW continuation \in BOOLEAN,
         Execute(price, atClose, triggered, continuation),
         Runs(atClose, triggered) /\ reversal # None => continuation
  PROVE  /\ Base'
         /\ Runs(atClose, triggered) => Ran(price, atClose)
         /\ ~Runs(atClose, triggered) =>
              /\ matchedBar' = barIndex /\ fillsThisBar' = Fills
              /\ primary' = primary /\ reversal' = StillDue(continuation)
<1>1. CASE ~Runs(atClose, triggered)
  <2>1. NotFilled /\ reversal' = StillDue(continuation) /\ UNCHANGED <<orders, activeEntry>>
    BY <1>1 DEF Execute, Runs
  <2>2. Base'
    BY <2>1, IdleKeeps
  <2>3. matchedBar' = barIndex /\ fillsThisBar' = Fills /\ primary' = primary
    BY <2>1 DEF NotFilled, orders
  <2> QED
    BY <1>1, <2>1, <2>2, <2>3
<1>2. CASE Runs(atClose, triggered)
  <2>1. primary # None /\ Fills < 2 /\ StillDue(continuation) = None
    BY <1>2 DEF Runs, StillDue
  <2>2. CASE primary.kind = "entry" /\ ExecuteEntry(primary, price, atClose, None)
    <3>1. CASE position * Direction(primary.side) < 0
      <4>1. FillReversal(primary, price, atClose)
        BY <2>2, <3>1 DEF ExecuteEntry
      <4>2. matchedBar' = barIndex
        BY <4>1 DEF FillReversal, Filled
      <4>3. position # 0
        BY <2>1, <3>1 DEF Base, BrokerTypeOK, Primaries, Sides, Direction
      <4> QED
        BY <1>2, <2>1, <2>2, <4>1, <4>2, <4>3, FillReversalKeeps DEF Ran
    <3>2. CASE ~(position * Direction(primary.side) < 0) /\ FillEntry(primary, price, None)
      <4>1. matchedBar' = barIndex /\ fillsThisBar' = Fills + 1
        BY <3>2 DEF FillEntry, Filled
      <4> QED
        BY <1>2, <2>1, <2>2, <3>2, <4>1, FillEntryKeeps DEF Ran
    <3>3. CASE Refuse(primary, None)
      <4>1. matchedBar' = barIndex /\ fillsThisBar' = Fills
        BY <3>3 DEF Refuse, NotFilled
      <4> QED
        BY <1>2, <2>1, <3>3, <4>1, RefuseKeeps DEF Ran
    <3> QED
      BY <2>2, <3>1, <3>2, <3>3 DEF ExecuteEntry
  <2>3. CASE Refuse(primary, None)
    <3>1. matchedBar' = barIndex /\ fillsThisBar' = Fills
      BY <2>3 DEF Refuse, NotFilled
    <3> QED
      BY <1>2, <2>1, <2>3, <3>1, RefuseKeeps DEF Ran
  <2>4. CASE primary.kind = "rebalance" /\ ExecuteRebalance(primary, price, None)
    <3>1. primary.target - position \in Int
      BY <2>1, <2>4 DEF Base, BrokerTypeOK, Primaries, Levels
    <3>2. Refuse(primary, None) \/ \E delta \in Int \ {0} : FillRebalance(primary, price, delta, None)
      <4>1. CASE primary.target - position = 0
        BY <2>4, <4>1 DEF ExecuteRebalance
      <4>2. CASE primary.target - position # 0 /\ FillRebalance(primary, price, primary.target - position, None)
        BY <3>1, <4>2
      <4>3. CASE \E n \in 1..Size(primary.target - position) - 1 : FillRebalance(primary, price, n, None)
        <5>1. Size(primary.target - position) \in Int
          BY <3>1 DEF Size
        <5>2. 1..Size(primary.target - position) - 1 \subseteq Int \ {0}
          BY <5>1
        <5> QED
          BY <4>3, <5>2
      <4> QED
        BY <2>4, <4>1, <4>2, <4>3 DEF ExecuteRebalance
    <3>3. ASSUME NEW delta \in Int \ {0}, FillRebalance(primary, price, delta, None)
          PROVE  Base' /\ Ran(price, atClose)
      <4>1. matchedBar' = barIndex /\ fillsThisBar' = Fills + 1
        BY <3>3 DEF FillRebalance, Filled
      <4> QED
        BY <2>1, <3>3, <4>1, FillRebalanceKeeps DEF Ran
    <3> QED
      BY <1>2, <2>3, <3>2, <3>3
  <2>5. CASE primary.kind = "close" /\ FillClose(primary, price, None)
    <3>1. matchedBar' = barIndex /\ fillsThisBar' = Fills + 1
      BY <2>5 DEF FillClose, Filled
    <3> QED
      BY <1>2, <2>1, <2>5, <3>1, FillCloseKeeps DEF Ran
  <2> QED
    BY <1>2, <2>1, <2>2, <2>3, <2>4, <2>5 DEF Execute, Runs
<1> QED
  BY <1>1, <1>2

-----------------------------------------------------------------------------
(***************************************************************************)
(* The steps of a bar.                                                     *)
(***************************************************************************)

Matches == Beginning /\ Continuing /\ Exiting /\ Resting /\ NeverDeferred

LEMMA BarPrices ==
  ASSUME BrokerTypeOK
  PROVE  bar[1] \in Int /\ bar[4] \in Int
<1> QED
  BY BrokerAssumption DEF BrokerTypeOK

LEMMA MatchPendingKeeps ==
  ASSUME Orderly, MatchPending, UNCHANGED processOnClose
  PROVE  Orderly'
<1>1. Base /\ phase = "pending" /\ phase' = "continue"
  BY DEF Orderly, Base, MatchPending
<1>2. Matching
  BY <1>1 DEF MatchPending, Matching, Phases
<1>3. /\ matchedBar < barIndex /\ (primary # None => primary.bar < barIndex)
      /\ Fills = 0 /\ (reversal # None => Deferred)
  BY <1>1 DEF Orderly, Beginning, Fills, Deferred, Base, BrokerTypeOK
<1>4. CASE primary = None
  <2>1. UNCHANGED <<brokerState, account, since>>
    BY <1>4 DEF MatchPending
  <2>2. Base'
    BY <1>1, <1>2, <1>4, <2>1
    DEF Base, BrokerTypeOK, NothingBefore, HalfwayFlat, ExitBelongs, PendingEntry, Matching,
        Phases, brokerState, orders, account
  <2>3. primary' = None /\ reversal' = None
    BY <1>1, <1>4, <2>1 DEF Base, HalfwayFlat, brokerState, orders
  <2> QED
    BY <1>1, <2>2, <2>3
    DEF Orderly, Base, Beginning, Continuing, Exiting, Resting, NeverDeferred
<1>5. CASE primary # None
  <2>1. PICK price \in Int, triggered \in BOOLEAN, continuation \in BOOLEAN :
          /\ Execute(price, FALSE, triggered, continuation)
          /\ continuation <=> Deferred
          /\ (continuation \/ primary.stop = None) => triggered
    <3>1. CASE Deferred
      <4>1. Execute(bar[1], FALSE, TRUE, TRUE)
        BY <1>5, <3>1 DEF MatchPending
      <4> QED
        BY <1>1, <3>1, <4>1, BarPrices DEF Base
    <3>2. CASE ~Deferred
      <4>1. Execute(AtOpenOrStop, FALSE, Reached(primary, Furthest(primary)), FALSE)
        BY <1>5, <3>2 DEF MatchPending
      <4>2. AtOpenOrStop \in Int
        BY <1>1, <1>5, BarPrices DEF AtOpenOrStop, Reached, Base, BrokerTypeOK, Primaries, Levels
      <4>3. Reached(primary, Furthest(primary)) \in BOOLEAN
        BY DEF Reached
      <4>4. primary.stop = None => Reached(primary, Furthest(primary))
        BY DEF Reached
      <4> QED
        BY <3>2, <4>1, <4>2, <4>3, <4>4
    <3> QED
      BY <3>1, <3>2
  <2>2. Runs(FALSE, triggered) <=> triggered
    BY <1>3, <1>5 DEF Runs, Eligible
  <2>3. /\ Base'
        /\ triggered => Ran(price, FALSE)
        /\ ~triggered => /\ matchedBar' = barIndex /\ fillsThisBar' = Fills
                         /\ primary' = primary /\ reversal' = StillDue(continuation)
    <3>1. Runs(FALSE, triggered) /\ reversal # None => continuation
      BY <1>3, <2>1
    <3> QED
      BY <1>1, <1>2, <2>1, <2>2, <3>1, ExecuteKeeps
  <2>4. primary \in Primaries
    BY <1>1, <1>5 DEF Base, BrokerTypeOK
  <2>5. CASE triggered
    <3>1. Ran(price, FALSE)
      BY <2>3, <2>5
    <3>2. /\ primary' # None <=> reversal' # None
          /\ reversal' # None => /\ reversal'.atClose = FALSE /\ fillsThisBar' = Fills + 1
                                 /\ primary'.triggered
                                 /\ primary'.bar = primary.bar /\ primary'.stop = primary.stop
      BY <2>1, <2>4, <3>1, RanLeaves
    <3>3. matchedBar' = barIndex
      BY <3>1 DEF Ran
    <3>4. Continuing'
      BY <1>2, <1>3, <1>5, <3>2, <3>3 DEF Continuing, Matching
    <3> QED
      BY <1>1, <2>3, <3>4 DEF Orderly, Base, Beginning, Exiting, Resting, NeverDeferred
  <2>6. CASE ~triggered
    <3>1. /\ primary' = primary /\ primary.stop # None /\ reversal' = None
      BY <1>3, <2>1, <2>3, <2>6 DEF StillDue
    <3>2. Continuing'
      BY <1>2, <1>3, <3>1 DEF Continuing, Matching
    <3> QED
      BY <1>1, <2>3, <3>2 DEF Orderly, Base, Beginning, Exiting, Resting, NeverDeferred
  <2> QED
    BY <2>5, <2>6
<1> QED
  BY <1>4, <1>5

LEMMA ContinueReversalKeeps ==
  ASSUME Orderly, ContinueReversal, UNCHANGED processOnClose
  PROVE  Orderly'
<1>1. Base /\ phase \in {"continue", "closeContinue"}
  BY DEF Orderly, Base, ContinueReversal
<1>2. Matching /\ phase' = IF phase = "continue" THEN "exit" ELSE "strategy"
  BY <1>1 DEF ContinueReversal, Matching, Phases
<1>3. fillsThisBar \in 0..2 /\ reversal \in Reversals \cup {None}
  BY <1>1 DEF Base, BrokerTypeOK
<1>4. CASE SecondHalfDue
  <2>1. primary \in Primaries /\ reversal.price \in Int /\ reversal.atClose \in BOOLEAN
    BY <1>1, <1>3, <1>4 DEF SecondHalfDue, Base, BrokerTypeOK, Reversals
  <2>2. Execute(reversal.price, reversal.atClose, TRUE, TRUE)
    BY <1>4 DEF ContinueReversal
  <2>3. /\ Base'
        /\ Runs(reversal.atClose, TRUE) => Ran(reversal.price, reversal.atClose)
        /\ ~Runs(reversal.atClose, TRUE) => primary' = primary /\ reversal' = None
    BY <1>1, <1>2, <2>1, <2>2, ExecuteKeeps DEF StillDue
  <2>4. position = 0
    BY <1>1, <1>4 DEF SecondHalfDue, Base, HalfwayFlat
  <2>5. reversal' = None
    BY <2>1, <2>3, <2>4, RanLeaves
  <2>6. CASE phase = "continue"
    <3>1. Runs(reversal.atClose, TRUE)
      BY <1>1, <1>4, <2>6 DEF Orderly, Continuing, SecondHalfDue, Runs, Eligible, Base, BrokerTypeOK, Primaries
    <3>2. primary' = None
      BY <2>1, <2>3, <2>5, <3>1, RanLeaves
    <3> QED
      BY <1>2, <2>3, <2>5, <2>6, <3>2
      DEF Orderly, Base, Beginning, Continuing, Exiting, Resting, NeverDeferred
  <2>7. CASE phase = "closeContinue"
    <3>1. primary' = primary \/ primary' = None
      BY <2>1, <2>3, <2>5, RanLeaves
    <3>2. Resting'
      BY <1>2, <2>5, <2>7, <3>1 DEF Orderly, Resting, Matching
    <3> QED
      BY <1>2, <2>3, <2>5, <2>7, <3>2
      DEF Orderly, Base, Beginning, Continuing, Exiting, NeverDeferred
  <2> QED
    BY <1>1, <2>6, <2>7
<1>5. CASE ~SecondHalfDue
  <2>1. UNCHANGED <<brokerState, account, since>>
    BY <1>5 DEF ContinueReversal
  <2>2. Base'
    BY <1>1, <1>2, <2>1
    DEF Base, BrokerTypeOK, NothingBefore, HalfwayFlat, ExitBelongs, PendingEntry, Matching,
        Phases, brokerState, orders, account
  <2>3. CASE phase = "continue"
    <3>1. reversal = None
      BY <1>1, <1>3, <1>5, <2>3 DEF Orderly, Continuing, SecondHalfDue, Fills, HalfwayFlat
    <3>2. Exiting'
      BY <2>1, <2>3, <3>1 DEF Orderly, Continuing, Exiting, brokerState, orders
    <3>3. NeverDeferred'
      BY <2>1, <3>1 DEF NeverDeferred, brokerState
    <3> QED
      BY <1>2, <2>2, <2>3, <3>2, <3>3 DEF Orderly, Base, Beginning, Continuing, Resting
  <2>4. CASE phase = "closeContinue"
    <3>1. reversal # None => matchedBar = barIndex /\ fillsThisBar = 2 /\ processOnClose
      BY <1>3, <1>5, <2>4 DEF Orderly, Resting, SecondHalfDue, Fills, HalfwayFlat
    <3>2. Resting'
      BY <1>2, <2>1, <2>4, <3>1 DEF Orderly, Resting, Matching, brokerState, orders
    <3>3. NeverDeferred'
      BY <1>2, <2>1, <3>1 DEF NeverDeferred, Matching, brokerState
    <3> QED
      BY <1>2, <2>2, <2>4, <3>2, <3>3 DEF Orderly, Base, Beginning, Continuing, Exiting
  <2> QED
    BY <1>1, <2>3, <2>4
<1> QED
  BY <1>4, <1>5

LEMMA MatchExitKeeps ==
  ASSUME Orderly, MatchExit, UNCHANGED processOnClose
  PROVE  Orderly'
<1>1. Base /\ phase = "exit" /\ phase' = "strategy"
  BY DEF Orderly, Base, MatchExit
<1>2. Matching
  BY <1>1 DEF MatchExit, Matching, Phases
<1>3. reversal = None /\ (primary # None => primary.stop # None)
  BY <1>1 DEF Orderly, Exiting
<1>4. CASE ExitLive /\ ExitPrice # None
  <2>1. /\ Filled(attachedExit, "exit", WholePosition, ExitPrice)
        /\ attachedExit' = None /\ activeEntry' = None
        /\ primary' = primary /\ reversal' = reversal
    BY <1>4 DEF MatchExit
  <2>2. WholePosition \in Int /\ Fills < 2
    BY <1>1, <1>4 DEF ExitLive, WholePosition, Direction, Size, Base, BrokerTypeOK
  <2>3. /\ matchedBar' = barIndex /\ fillsThisBar' \in 0..2
        /\ position' \in Int /\ since' \in 0..barIndex /\ entries' \in Nat
    BY <1>1, <2>1, <2>2, FilledTypes DEF Base
  <2>4. BrokerTypeOK'
    BY <1>1, <1>2, <2>1, <2>3 DEF Base, BrokerTypeOK, Matching, Phases
  <2>5. Base'
    BY <1>1, <1>2, <1>3, <2>1, <2>4 DEF Base, NothingBefore, HalfwayFlat, ExitBelongs, Matching
  <2> QED
    BY <1>1, <1>3, <2>1, <2>5
    DEF Orderly, Base, Beginning, Continuing, Exiting, Resting, NeverDeferred
<1>5. CASE ~(ExitLive /\ ExitPrice # None)
  <2>1. NotFilled /\ UNCHANGED <<orders, activeEntry>> /\ reversal' = reversal
    BY <1>5 DEF MatchExit
  <2>2. Base'
    BY <1>1, <1>2, <2>1, IdleKeeps DEF StillDue
  <2> QED
    BY <1>1, <1>3, <2>1, <2>2
    DEF Orderly, Base, Beginning, Continuing, Exiting, Resting, NeverDeferred, orders
<1> QED
  BY <1>4, <1>5

LEMMA ProcessCloseKeeps ==
  ASSUME Orderly, ProcessClose, UNCHANGED processOnClose
  PROVE  Orderly'
<1> DEFINE triggered == Deferred \/ (primary # None /\ Reached(primary, bar[4]))
<1>1. Base /\ phase = "strategy" /\ phase' = "closeContinue"
  BY DEF Orderly, Base, ProcessClose
<1>2. Matching
  BY <1>1 DEF ProcessClose, Matching, Phases
<1>3. /\ (primary # None /\ primary.stop = None) => primary.bar = barIndex
      /\ reversal # None => processOnClose /\ matchedBar = barIndex /\ Fills = 2
  BY <1>1 DEF Orderly, Resting, Fills
<1>4. bar[4] \in Int /\ triggered \in BOOLEAN /\ Deferred \in BOOLEAN
  BY <1>1, BarPrices DEF Base, Deferred, Reached
<1>5. Execute(bar[4], TRUE, triggered, Deferred)
  BY DEF ProcessClose
<1>6. Runs(TRUE, triggered) => reversal = None /\ processOnClose /\ primary \in Primaries
  BY <1>1, <1>3 DEF Runs, Eligible, Base, BrokerTypeOK
<1>7. /\ Base'
      /\ Runs(TRUE, triggered) => Ran(bar[4], TRUE)
      /\ ~Runs(TRUE, triggered) =>
           /\ matchedBar' = barIndex /\ fillsThisBar' = Fills
           /\ primary' = primary /\ reversal' = StillDue(Deferred)
  <2>1. Runs(TRUE, triggered) /\ reversal # None => Deferred
    BY <1>6
  <2> HIDE DEF triggered
  <2> QED
    BY <1>1, <1>2, <1>4, <1>5, <2>1, ExecuteKeeps
<1>8. /\ (primary' # None /\ primary'.stop = None) => primary'.bar = barIndex
      /\ reversal' # None => processOnClose /\ matchedBar' = barIndex
  <2> HIDE DEF triggered
  <2>1. CASE Runs(TRUE, triggered)
    <3>1. Ran(bar[4], TRUE) /\ primary \in Primaries /\ processOnClose /\ primary # None
      BY <1>6, <1>7, <2>1 DEF Runs
    <3>2. /\ primary' # None <=> reversal' # None
          /\ reversal' # None => primary'.bar = primary.bar /\ primary'.stop = primary.stop
      BY <1>4, <3>1, RanLeaves
    <3> QED
      BY <1>3, <3>1, <3>2 DEF Ran
  <2>2. CASE ~Runs(TRUE, triggered)
    BY <1>3, <1>7, <2>2 DEF StillDue
  <2> QED
    BY <2>1, <2>2
<1>9. Resting'
  BY <1>1, <1>2, <1>8 DEF Resting, Matching
<1> QED
  BY <1>1, <1>2, <1>7, <1>8, <1>9
  DEF Orderly, Base, Beginning, Continuing, Exiting, NeverDeferred, Matching

-----------------------------------------------------------------------------
(***************************************************************************)
(* The strategy's commands: they leave the account and the active entry.   *)
(***************************************************************************)

Commanding ==
  /\ phase = "strategy" /\ phase' = "strategy" /\ commands' \in 0..MaxCommands /\ barIndex > 0
  /\ UNCHANGED <<processOnClose, activeEntry, matchedBar, fillsThisBar, account, barIndex, bar,
                 fill, since>>

LEMMA CommandsOnce ==
  ASSUME Orderly, NEW A, Commands(A), UNCHANGED processOnClose
  PROVE  Commanding
<1>1. barIndex > 0
  BY DEF Orderly, NothingBefore, Commands, BrokerTypeOK
<1> QED
  BY <1>1, BrokerAssumption DEF Commanding, Commands, Orderly, BrokerTypeOK

LEMMA SubmitKeeps ==
  ASSUME Orderly, Commanding, NEW order \in Primaries, order.bar = barIndex,
         order.kind = "rebalance" <=> order.target # None, Submit(order)
  PROVE  Orderly'
<1>1. /\ primary' = order /\ attachedExit' = attachedExit /\ reversal' = reversal
      /\ primary # None => order.kind = primary.kind /\ order.id = primary.id
  BY DEF Submit, Replaces
<1>2. order # None /\ barIndex \in Nat
  BY NoneIsNone, BrokerAssumption DEF Orderly, BrokerTypeOK
<1>3. BrokerTypeOK'
  BY <1>1 DEF Orderly, BrokerTypeOK, Commanding, account
<1>4. NothingBefore' /\ HalfwayFlat' /\ ExitBelongs'
  BY <1>1, <1>2
  DEF Orderly, NothingBefore, HalfwayFlat, ExitBelongs, PendingEntry, Commanding, account
<1> QED
  BY <1>1, <1>3, <1>4
  DEF Orderly, Beginning, Continuing, Exiting, Resting, NeverDeferred, Commanding

LEMMA ExitKeeps ==
  ASSUME Orderly, Commanding, NEW id \in ExitIds, NEW n \in EntryNames, NEW bracket \in Brackets,
         NEW onEntryBar \in BOOLEAN, Exit(id, n[1], bracket, onEntryBar)
  PROVE  Orderly'
<1> DEFINE side == IF PendingEntry(n[1]) THEN primary.side ELSE activeEntry.side
           exit == [id |-> id, from |-> n[1], side |-> Opposite(side), stop |-> bracket[1],
                    target |-> bracket[2], onEntryBar |-> onEntryBar]
<1>1. /\ attachedExit' = exit /\ primary' = primary /\ reversal' = reversal
      /\ ~PendingEntry(n[1]) => activeEntry # None
  BY DEF Exit
<1>2. exit \in Exits
  BY BrokerAssumption DEF Exits, EntryIds, Opposite, Sides
<1>3. BrokerTypeOK'
  BY <1>1, <1>2 DEF Orderly, BrokerTypeOK, Commanding, account
<1>4. ExitBelongs'
  BY <1>1 DEF ExitBelongs, PendingEntry, Commanding
<1> QED
  BY <1>1, <1>3, <1>4
  DEF Orderly, NothingBefore, HalfwayFlat, Beginning, Continuing, Exiting, Resting,
      NeverDeferred, Commanding, account

LEMMA CancelKeeps ==
  ASSUME Orderly, Commanding, NEW id, Cancel(id)
  PROVE  Orderly'
<1>1. /\ primary' \in {primary, None} /\ attachedExit' \in {attachedExit, None}
      /\ reversal' \in {reversal, None} /\ (reversal' # None => primary' = primary)
      /\ attachedExit' # None => ~(primary # None /\ primary.id = id /\ primary.kind = "entry"
                                   /\ activeEntry = None /\ attachedExit.from = id)
      /\ primary' # primary => primary.id = id
  BY DEF Cancel, ReversalForgotten
<1>2. BrokerTypeOK'
  BY <1>1 DEF Orderly, BrokerTypeOK, Commanding, account
<1>3. NothingBefore' /\ HalfwayFlat'
  BY <1>1 DEF Orderly, NothingBefore, HalfwayFlat, Commanding, account
<1>4. ExitBelongs'
  BY <1>1 DEF Orderly, ExitBelongs, PendingEntry, Commanding
<1> QED
  BY <1>1, <1>2, <1>3, <1>4
  DEF Orderly, Beginning, Continuing, Exiting, Resting, NeverDeferred, Commanding

(* Entry, Close and Rebalance submit an order of this bar. *)
LEMMA CommandOrders ==
  ASSUME Orderly, Commanding, NEW kind \in {"entry", "close", "rebalance"}, NEW id \in OrderIds,
         NEW side \in Sides, NEW stop \in Levels, NEW target \in Levels
  PROVE  Primary(kind, id, side, stop, target) \in Primaries
<1> QED
  BY DEF Primary, Primaries, Orderly, BrokerTypeOK

LEMMA StrategyKeeps ==
  ASSUME Orderly, Strategy, UNCHANGED processOnClose
  PROVE  Orderly'
<1>1. ASSUME NEW n \in EntryNames, NEW stop \in EntryStops, Commands(Entry(n, stop))
      PROVE  Orderly'
  <2>1. Commanding /\ Entry(n, stop)
    BY <1>1, CommandsOnce DEF Commands
  <2>2. Primary("entry", n[1], n[2], stop, None) \in Primaries
    <3>1. n[1] \in OrderIds /\ n[2] \in Sides /\ stop \in Levels /\ None \in Levels
      BY BrokerAssumption DEF OrderIds, EntryIds, Levels
    <3> QED
      BY <2>1, <3>1, CommandOrders
  <2> QED
    BY <2>1, <2>2, SubmitKeeps DEF Entry, Primary
<1>2. ASSUME NEW id \in CloseIds, Commands(Close(id))
      PROVE  Orderly'
  <2> DEFINE side == IF position < 0 THEN "buy" ELSE "sell"
  <2>1. Commanding /\ Close(id)
    BY <1>2, CommandsOnce DEF Commands
  <2>2. Primary("close", id, side, None, None) \in Primaries
    <3>1. id \in OrderIds /\ side \in Sides /\ None \in Levels
      BY DEF OrderIds, Levels, Sides
    <3> QED
      BY <2>1, <3>1, CommandOrders
  <2> QED
    BY <2>1, <2>2, SubmitKeeps DEF Close, Primary
<1>3. ASSUME NEW id \in RebalanceIds, NEW target \in Targets, Commands(Rebalance(id, target))
      PROVE  Orderly'
  <2>1. Commanding /\ Rebalance(id, target)
    BY <1>3, CommandsOnce DEF Commands
  <2>2. target # None
    BY BrokerAssumption, NoneIsNone
  <2>3. Primary("rebalance", id, "buy", None, target) \in Primaries
    <3>1. id \in OrderIds /\ "buy" \in Sides /\ None \in Levels /\ target \in Levels
      BY BrokerAssumption DEF OrderIds, Levels, Sides
    <3> QED
      BY <2>1, <3>1, CommandOrders
  <2> QED
    BY <2>1, <2>2, <2>3, SubmitKeeps DEF Rebalance, Primary
<1>4. ASSUME NEW id \in ExitIds, NEW n \in EntryNames, NEW b \in Brackets, NEW on \in BOOLEAN,
             Commands(Exit(id, n[1], b, on))
      PROVE  Orderly'
  <2>1. Commanding /\ Exit(id, n[1], b, on)
    BY <1>4, CommandsOnce DEF Commands
  <2> QED
    BY <2>1, ExitKeeps
<1>5. ASSUME NEW id, Commands(Cancel(id))
      PROVE  Orderly'
  <2>1. Commanding /\ Cancel(id)
    BY <1>5, CommandsOnce DEF Commands
  <2> QED
    BY <2>1, CancelKeeps
<1> QED
  BY <1>1, <1>2, <1>3, <1>4, <1>5 DEF Strategy

-----------------------------------------------------------------------------
(***************************************************************************)
(* Every step.                                                             *)
(***************************************************************************)

LEMMA OrderlyInit == BrokerInit => Orderly
<1> SUFFICES ASSUME BrokerInit PROVE Orderly
  OBVIOUS
<1>1. BrokerTypeOK
  BY BrokerAssumption DEF BrokerInit, BrokerTypeOK
<1> QED
  BY <1>1
  DEF BrokerInit, Orderly, NothingBefore, HalfwayFlat, ExitBelongs, Beginning, Continuing, Exiting,
      Resting, NeverDeferred

LEMMA BeginBarKeeps ==
  ASSUME Orderly, BeginBar, UNCHANGED processOnClose
  PROVE  Orderly'
<1>1. /\ phase = "strategy" /\ phase' = "pending" /\ barIndex' = barIndex + 1
      /\ UNCHANGED <<primary, attachedExit, activeEntry, matchedBar, fillsThisBar, reversal,
                     position, entries, since>>
  BY DEF BeginBar, brokerState, orders, account
<1>2. barIndex \in Nat /\ matchedBar \in 0..barIndex /\ since \in 0..barIndex
  BY BrokerAssumption DEF Orderly, BrokerTypeOK
<1>3. primary \in Primaries \cup {None} /\ (primary # None => primary.bar \in Nat /\ primary.bar <= barIndex)
  <2>1. primary # None => primary \in Primaries
    BY DEF Orderly, BrokerTypeOK
  <2> QED
    BY <2>1 DEF Orderly, NothingBefore, Primaries
<1>4. activeEntry # None => activeEntry.bar \in Nat /\ activeEntry.bar <= barIndex
  <2>1. activeEntry # None => activeEntry \in ActiveEntries
    BY DEF Orderly, BrokerTypeOK
  <2> QED
    BY <2>1 DEF Orderly, NothingBefore, ActiveEntries
<1>5. BrokerTypeOK'
  <2>1. barIndex' \in 0..MaxBars /\ commands' \in 0..MaxCommands /\ bar' \in Bars
    BY <1>1, <1>2, BrokerAssumption DEF BeginBar
  <2>2. matchedBar' \in 0..barIndex' /\ since' \in 0..barIndex'
    BY <1>1, <1>2
  <2> QED
    BY <1>1, <2>1, <2>2 DEF Orderly, BrokerTypeOK
<1>6. NothingBefore'
  BY <1>1, <1>2, <1>3, <1>4 DEF Orderly, NothingBefore
<1>7. Beginning'
  BY <1>1, <1>2, <1>3 DEF Beginning
<1> QED
  BY <1>1, <1>5, <1>6, <1>7
  DEF Orderly, HalfwayFlat, ExitBelongs, PendingEntry, Continuing, Exiting, Resting, NeverDeferred

LEMMA FinishKeeps ==
  ASSUME Orderly, FinishBar, UNCHANGED processOnClose
  PROVE  Orderly'
<1>1. BrokerTypeOK'
  BY DEF Orderly, BrokerTypeOK, FinishBar, account
<1> QED
  BY <1>1
  DEF Orderly, FinishBar, NothingBefore, HalfwayFlat, ExitBelongs, Beginning, Continuing, Exiting,
      Resting, NeverDeferred

LEMMA OrderlyStep == Orderly /\ [BrokerNext]_brokerVars => Orderly'
<1> SUFFICES ASSUME Orderly, [BrokerNext]_brokerVars PROVE Orderly'
  OBVIOUS
<1>1. CASE BeginBar /\ UNCHANGED processOnClose
  BY <1>1, BeginBarKeeps
<1>2. CASE MatchPending /\ UNCHANGED processOnClose
  BY <1>2, MatchPendingKeeps
<1>3. CASE ContinueReversal /\ UNCHANGED processOnClose
  BY <1>3, ContinueReversalKeeps
<1>4. CASE MatchExit /\ UNCHANGED processOnClose
  BY <1>4, MatchExitKeeps
<1>5. CASE Strategy /\ UNCHANGED processOnClose
  BY <1>5, StrategyKeeps
<1>6. CASE ProcessClose /\ UNCHANGED processOnClose
  BY <1>6, ProcessCloseKeeps
<1>7. CASE FinishBar /\ UNCHANGED processOnClose
  BY <1>7, FinishKeeps
<1>8. CASE UNCHANGED brokerVars
  <2>1. UNCHANGED <<processOnClose, primary, attachedExit, activeEntry, matchedBar, fillsThisBar,
                    reversal, position, entries, barIndex, bar, phase, commands, since>>
    BY <1>8 DEF brokerVars, brokerState, orders, account, coordinator
  <2>2. BrokerTypeOK'
    BY <2>1 DEF Orderly, BrokerTypeOK
  <2> QED
    BY <2>1, <2>2
    DEF Orderly, NothingBefore, HalfwayFlat, ExitBelongs, PendingEntry, Beginning, Continuing,
        Exiting, Resting, NeverDeferred
<1> QED
  BY <1>1, <1>2, <1>3, <1>4, <1>5, <1>6, <1>7, <1>8 DEF BrokerNext

-----------------------------------------------------------------------------
(***************************************************************************)
(* What was filled.                                                        *)
(***************************************************************************)

(* execute() fills the pending order at the price it is given, or nothing. *)
LEMMA ExecuteFills ==
  ASSUME NEW price, NEW atClose \in BOOLEAN, NEW triggered \in BOOLEAN, NEW continuation \in BOOLEAN,
         Execute(price, atClose, triggered, continuation)
  PROVE  \/ fill' = None
         \/ /\ Runs(atClose, triggered)
            /\ fill'.kind # "exit" /\ fill'.order = primary /\ fill'.price = price
<1>1. CASE ~Runs(atClose, triggered)
  <2>1. NotFilled
    BY <1>1 DEF Execute, Runs
  <2> QED
    BY <2>1 DEF NotFilled
<1>2. CASE Runs(atClose, triggered)
  <2> DEFINE due == StillDue(continuation)
  <2>1. ASSUME NEW kind \in {"entry", "close", "rebalance"}, NEW delta,
               Filled(primary, kind, delta, price)
        PROVE  fill'.kind # "exit" /\ fill'.order = primary /\ fill'.price = price
    BY <2>1 DEF Filled
  <2>2. ASSUME Refuse(primary, due)
        PROVE  fill' = None
    BY <2>2 DEF Refuse, NotFilled
  <2>3. CASE ExecuteEntry(primary, price, atClose, due)
    BY <1>2, <2>1, <2>2, <2>3 DEF ExecuteEntry, FillReversal, FillEntry
  <2>4. CASE ExecuteRebalance(primary, price, due)
    BY <1>2, <2>1, <2>2, <2>4 DEF ExecuteRebalance, FillRebalance
  <2>5. CASE FillClose(primary, price, due)
    BY <1>2, <2>1, <2>5 DEF FillClose
  <2> QED
    BY <1>2, <2>2, <2>3, <2>4, <2>5 DEF Execute, Runs
<1> QED
  BY <1>1, <1>2

LEMMA FillStep == FillsInv /\ [BrokerNext]_brokerVars => FillSound'
<1> SUFFICES ASSUME Orderly, FillSound, [BrokerNext]_brokerVars PROVE FillSound'
  BY DEF FillsInv
<1> USE DEF FillSound, StopRespected, EveryStopRespected
<1>1. CASE fill' = None
  BY <1>1
<1>2. CASE UNCHANGED <<fill, barIndex, processOnClose>>
  BY <1>2 DEF Reached
<1>3. ASSUME MatchPending, UNCHANGED processOnClose, fill' # None PROVE FillSound'
  <2>1. BrokerTypeOK /\ phase = "pending" /\ primary # None
    BY <1>3 DEF Orderly, MatchPending
  <2>2. CASE Deferred
    <3>1. Execute(bar[1], FALSE, TRUE, TRUE) /\ reversal # None
      BY <1>3, <2>1, <2>2 DEF MatchPending, Deferred
    <3>2. processOnClose /\ processOnClose'
      BY <1>3, <2>1, <3>1 DEF Orderly, NeverDeferred
    <3>3. fill'.kind # "exit"
      BY <1>3, <3>1, ExecuteFills
    <3> QED
      BY <3>2, <3>3
  <2>3. CASE ~Deferred
    <3>1. Execute(AtOpenOrStop, FALSE, Reached(primary, Furthest(primary)), FALSE)
      BY <1>3, <2>1, <2>3 DEF MatchPending
    <3>2. fill'.kind # "exit" /\ fill'.order = primary /\ fill'.price = AtOpenOrStop
      <4>1. Reached(primary, Furthest(primary)) \in BOOLEAN
        BY DEF Reached
      <4> HIDE DEF FillSound, StopRespected, EveryStopRespected
      <4> QED
        BY <1>3, <3>1, <4>1, ExecuteFills
    <3>3. Reached(primary, AtOpenOrStop)
      <4>1. primary.stop \in Int \cup {None}
        BY <2>1 DEF BrokerTypeOK, Primaries, Levels
      <4> QED
        BY <4>1 DEF Reached, AtOpenOrStop
    <3> QED
      BY <3>2, <3>3 DEF Reached
  <2> QED
    BY <2>2, <2>3
<1>4. ASSUME ContinueReversal, UNCHANGED processOnClose, fill' # None PROVE FillSound'
  <2>1. SecondHalfDue /\ BrokerTypeOK /\ phase \in {"continue", "closeContinue"}
    BY <1>4 DEF Orderly, ContinueReversal
  <2>2. Execute(reversal.price, reversal.atClose, TRUE, TRUE) /\ reversal # None
    BY <1>4, <2>1 DEF ContinueReversal, SecondHalfDue
  <2>3. reversal.atClose \in BOOLEAN
    BY <2>1, <2>2 DEF BrokerTypeOK, Reversals
  <2>4. fill'.kind # "exit" /\ fill'.order = primary
    BY <1>4, <2>2, <2>3, ExecuteFills
  <2>5. phase = "continue" => primary.triggered
    BY <2>2 DEF Orderly, Continuing
  <2>6. phase = "closeContinue" => processOnClose /\ processOnClose'
    BY <1>4, <2>2 DEF Orderly, NeverDeferred
  <2> QED
    BY <2>1, <2>4, <2>5, <2>6
<1>5. ASSUME MatchExit, fill' # None PROVE FillSound'
  <2>1. ExitLive /\ Filled(attachedExit, "exit", WholePosition, ExitPrice) /\ barIndex' = barIndex
    BY <1>5 DEF MatchExit, NotFilled
  <2>2. fill'.kind = "exit" /\ fill'.order = attachedExit /\ fill'.opened = since
    BY <2>1 DEF Filled
  <2>3. attachedExit.onEntryBar \/ since < barIndex
    <3>1. activeEntry \in ActiveEntries /\ since <= activeEntry.bar
      BY <2>1 DEF ExitLive, Orderly, BrokerTypeOK, NothingBefore
    <3>2. since \in Int /\ activeEntry.bar \in Int /\ barIndex \in Int
      BY <3>1, BrokerAssumption DEF ActiveEntries, Orderly, BrokerTypeOK
    <3>3. attachedExit.onEntryBar \/ barIndex > activeEntry.bar
      BY <2>1 DEF ExitLive, ActivationAllowed
    <3> QED
      BY <3>1, <3>2, <3>3
  <2> QED
    BY <2>1, <2>2, <2>3
<1>6. ASSUME ProcessClose, UNCHANGED processOnClose, fill' # None PROVE FillSound'
  <2> DEFINE triggered == Deferred \/ (primary # None /\ Reached(primary, bar[4]))
  <2>1. Execute(bar[4], TRUE, triggered, Deferred)
    BY <1>6 DEF ProcessClose
  <2>2. triggered \in BOOLEAN /\ Deferred \in BOOLEAN
    BY DEF Deferred, Reached
  <2>3. Runs(TRUE, triggered) /\ fill'.kind # "exit"
    <3> HIDE DEF triggered, FillSound
    <3> QED
      BY <1>6, <2>1, <2>2, ExecuteFills
  <2>4. processOnClose'
    BY <1>6, <2>3 DEF Runs, Eligible
  <2> QED
    BY <2>3, <2>4
<1>7. CASE BeginBar \/ FinishBar
  BY <1>1, <1>7 DEF BeginBar, FinishBar
<1>8. CASE Strategy /\ UNCHANGED processOnClose
  <2>1. UNCHANGED <<fill, barIndex>>
    BY <1>8 DEF Strategy, Commands
  <2> QED
    BY <1>2, <1>8, <2>1
<1>9. CASE UNCHANGED brokerVars
  BY <1>2, <1>9 DEF brokerVars, coordinator
<1> QED
  BY <1>1, <1>3, <1>4, <1>5, <1>6, <1>7, <1>8, <1>9 DEF BrokerNext

(* Whatever the strategy commands, while half of a reversal is due its      *)
(* order is pending and the account flat, a market order is no older than  *)
(* its bar, an exit in a flat account waits for the pending entry, and one *)
(* that is not live on its entry's bar fills later (broker.tea execute,    *)
(* submit, cancel, match_exit).                                            *)
THEOREM Orders == BrokerSpec => []OrdersConsistent
<1>1. BrokerInit => FillsInv
  <2>1. BrokerInit => FillSound
    BY DEF BrokerInit, FillSound, StopRespected, EveryStopRespected
  <2> QED
    BY <2>1, OrderlyInit DEF FillsInv
<1>2. FillsInv /\ [BrokerNext]_brokerVars => FillsInv'
  BY FillStep, OrderlyStep DEF FillsInv
<1>3. FillsInv => OrdersConsistent
  BY DEF FillsInv, Orderly, FillSound, OrdersConsistent, ExitsWait, HalfwayFlat, ExitBelongs, Resting
<1> QED
  BY <1>1, <1>2, <1>3, PTL DEF BrokerSpec

(* Where no order is processed on the close, a stop entry fills only at a   *)
(* price its stop was reached by (broker.tea match_pending).               *)
THEOREM StopsRespected == BrokerSpec => []StopRespected
<1>1. BrokerInit => FillsInv
  <2>1. BrokerInit => FillSound
    BY DEF BrokerInit, FillSound, StopRespected, EveryStopRespected
  <2> QED
    BY <2>1, OrderlyInit DEF FillsInv
<1>2. FillsInv /\ [BrokerNext]_brokerVars => FillsInv'
  BY FillStep, OrderlyStep DEF FillsInv
<1>3. FillsInv => StopRespected
  BY DEF FillsInv, FillSound
<1> QED
  BY <1>1, <1>2, <1>3, PTL DEF BrokerSpec

-----------------------------------------------------------------------------
(***************************************************************************)
(* The broker's active entry and the account's position.  Here a strategy  *)
(* keeps to OneSidePerId.                                                  *)
(***************************************************************************)

(* Agree, but for what finish() forgets. *)
Alike ==
  /\ position # 0 <=> activeEntry # None
  /\ position # 0 => activeEntry.side = SideOf(position)
  /\ entries <= Pyramiding

LEMMA EnteredIsEntry ==
  ASSUME Base, primary # None, NEW side \in Sides
  PROVE  Entered(primary, side) # None
<1>1. primary.id \in OrderIds /\ barIndex \in 1..MaxBars
  BY DEF Base, BrokerTypeOK, NothingBefore, Primaries
<1>2. Entered(primary, side) \in ActiveEntries
  BY <1>1 DEF Entered, ActiveEntries
<1> QED
  BY <1>2, NoneIsNone

LEMMA FillEntryAgrees ==
  ASSUME Base, SidesNamed, Alike, primary # None, primary.kind = "entry",
         ~(position * Direction(primary.side) < 0), entries < Pyramiding,
         NEW price, FillEntry(primary, price, None)
  PROVE  SidesNamed' /\ Alike'
<1> DEFINE delta == Direction(primary.side)
<1>1. BrokerTypeOK /\ primary.side \in Sides /\ position \in Int /\ entries \in Nat
  BY DEF Base, BrokerTypeOK, Primaries
<1>2. delta \in {1, -1} /\ SideOf(delta) = primary.side
  BY <1>1 DEF Direction, Sides, SideOf
<1>3. position' = position + delta /\ entries' \in {0, 1, entries, entries + 1}
  BY <1>1, <1>2, AppliedSigns DEF FillEntry, Filled
<1>4. position' # 0 /\ SideOf(position') = primary.side
      /\ (position # 0 => SideOf(position) = SideOf(position'))
  BY <1>1, <1>2, <1>3 DEF SideOf
<1>5. primary' = None /\ attachedExit' = attachedExit
  BY DEF FillEntry, OrderSettled
<1>6. entries' <= Pyramiding
  BY <1>1, <1>3, BrokerAssumption
<1>7. CASE activeEntry' = Entered(primary, primary.side)
  <2>1. activeEntry' # None
    BY <1>1, <1>7, EnteredIsEntry
  <2>2. activeEntry'.id = primary.id /\ activeEntry'.side = primary.side
    BY <1>7 DEF Entered
  <2> QED
    BY <1>4, <1>5, <1>6, <2>1, <2>2 DEF SidesNamed, Alike
<1>8. CASE activeEntry' = activeEntry /\ activeEntry # None /\ position # 0
  BY <1>4, <1>5, <1>6, <1>8 DEF SidesNamed, Alike
<1> QED
  BY <1>7, <1>8 DEF FillEntry

LEMMA FillReversalAgrees ==
  ASSUME Base, SidesNamed, primary # None, NEW price, NEW atClose,
         FillReversal(primary, price, atClose)
  PROVE  SidesNamed' /\ Alike'
<1>1. BrokerTypeOK /\ primary \in Primaries /\ -position \in Int /\ position + (-position) = 0
  BY DEF Base, BrokerTypeOK
<1>2. position' = 0 /\ entries' = 0
  BY <1>1, AppliedSigns DEF FillReversal, Filled
<1>3. /\ primary'.kind = primary.kind /\ primary'.id = primary.id /\ primary'.side = primary.side
      /\ activeEntry' = None /\ attachedExit' \in {attachedExit, None}
  BY <1>1 DEF FillReversal, Primaries
<1> QED
  BY <1>2, <1>3, BrokerAssumption DEF SidesNamed, Alike

LEMMA FillCloseAgrees ==
  ASSUME Base, NEW price, FillClose(primary, price, None)
  PROVE  SidesNamed' /\ Alike'
<1>1. BrokerTypeOK /\ -position \in Int /\ position + (-position) = 0
  BY DEF Base, BrokerTypeOK
<1>2. position' = 0 /\ entries' = 0
  BY <1>1, AppliedSigns DEF FillClose, Filled
<1> QED
  BY <1>2, BrokerAssumption DEF FillClose, OrderSettled, SidesNamed, Alike

LEMMA FillRebalanceAgrees ==
  ASSUME OneSidePerId, Base, SidesNamed, Alike, primary # None, primary.kind = "rebalance",
         NEW price, NEW delta \in Int, FillRebalance(primary, price, delta, None)
  PROVE  SidesNamed' /\ Alike'
<1> DEFINE new == position + delta
<1>1. BrokerTypeOK /\ position \in Int /\ new \in Int /\ entries \in Nat
  BY DEF Base, BrokerTypeOK
<1>2. position * new <= 0 <=> ~SameSign(position, new)
  BY <1>1, SignProduct
<1>3. /\ position' = new /\ (new = 0 => entries' = 0)
      /\ new # 0 => entries' \in {1, entries}
  BY <1>1, AppliedSigns DEF FillRebalance, Filled
<1>4. entries' <= Pyramiding
  BY <1>1, <1>3, BrokerAssumption DEF Alike
<1>5. /\ primary' = None /\ attachedExit' \in {attachedExit, None}
      /\ activeEntry' = EntryAfter(primary, new)
  BY DEF FillRebalance, OrderSettled
<1>6. CASE new = 0
  BY <1>3, <1>4, <1>5, <1>6 DEF EntryAfter, SidesNamed, Alike
<1>7. CASE new # 0 /\ activeEntry' = Entered(primary, SideOf(new))
  <2>1. activeEntry' # None
    BY <1>7, EnteredIsEntry DEF SideOf, Sides
  <2>2. activeEntry'.id \notin EntryIds /\ activeEntry'.side = SideOf(new)
    BY <1>7 DEF Entered, OneSidePerId, SidesNamed
  <2> QED
    BY <1>3, <1>4, <1>5, <1>7, <2>1, <2>2 DEF SidesNamed, Alike
<1>8. CASE new # 0 /\ SameSign(position, new) /\ activeEntry # None /\ activeEntry' = activeEntry
  <2>1. position # 0 /\ SideOf(position) = SideOf(new)
    BY <1>1, <1>8 DEF SameSign, SideOf
  <2> QED
    BY <1>3, <1>4, <1>5, <1>8, <2>1 DEF SidesNamed, Alike
<1> QED
  BY <1>2, <1>5, <1>6, <1>7, <1>8 DEF EntryAfter

LEMMA NotFilledAgrees ==
  ASSUME SidesNamed, Alike, NotFilled,
         primary' \in {primary, None}, attachedExit' \in {attachedExit, None},
         activeEntry' = activeEntry
  PROVE  SidesNamed' /\ Alike'
<1>1. position' = position /\ entries' = entries
  BY DEF NotFilled, account
<1> QED
  BY <1>1 DEF SidesNamed, Alike

LEMMA ExecuteAgrees ==
  ASSUME OneSidePerId, Base, SidesNamed, Alike,
         NEW price, NEW atClose \in BOOLEAN, NEW triggered \in BOOLEAN,
         NEW continuation \in BOOLEAN,
         Execute(price, atClose, triggered, continuation),
         Runs(atClose, triggered) /\ reversal # None => continuation
  PROVE  SidesNamed' /\ Alike'
<1>1. CASE ~Runs(atClose, triggered)
  <2>1. NotFilled /\ UNCHANGED <<orders, activeEntry>>
    BY <1>1 DEF Execute, Runs
  <2> QED
    BY <2>1, NotFilledAgrees DEF orders
<1>2. CASE Runs(atClose, triggered)
  <2>1. primary # None /\ StillDue(continuation) = None
    BY <1>2 DEF Runs, StillDue
  <2>2. ASSUME Refuse(primary, None) PROVE SidesNamed' /\ Alike'
    BY <2>2, NotFilledAgrees DEF Refuse, OrderSettled
  <2>3. CASE primary.kind = "entry" /\ ExecuteEntry(primary, price, atClose, None)
    <3>1. CASE position * Direction(primary.side) < 0
      BY <2>1, <2>3, <3>1, FillReversalAgrees DEF ExecuteEntry
    <3>2. CASE ~(position * Direction(primary.side) < 0) /\ entries < Pyramiding
      BY <2>1, <2>3, <3>2, FillEntryAgrees DEF ExecuteEntry
    <3> QED
      BY <2>2, <2>3, <3>1, <3>2 DEF ExecuteEntry
  <2>4. CASE primary.kind = "rebalance" /\ ExecuteRebalance(primary, price, None)
    <3>1. primary.target - position \in Int
      BY <2>1, <2>4 DEF Base, BrokerTypeOK, Primaries, Levels
    <3>2. Size(primary.target - position) \in Int
      BY <3>1 DEF Size
    <3>3. Refuse(primary, None) \/ \E delta \in Int : FillRebalance(primary, price, delta, None)
      BY <2>4, <3>1, <3>2 DEF ExecuteRebalance
    <3> QED
      BY <2>1, <2>2, <2>4, <3>3, FillRebalanceAgrees
  <2>5. CASE FillClose(primary, price, None)
    BY <2>5, FillCloseAgrees
  <2> QED
    BY <1>2, <2>1, <2>2, <2>3, <2>4, <2>5 DEF Execute, Runs
<1> QED
  BY <1>1, <1>2

(* An exit closes the whole position: its side is opposite to the entry's. *)
LEMMA ExitCloses ==
  ASSUME OneSidePerId, BrokerTypeOK, SidesNamed, Alike, ExitLive
  PROVE  WholePosition = -position
<1>1. attachedExit \in Exits /\ activeEntry # None /\ position \in Int /\ position # 0
      /\ attachedExit.side \in Sides /\ attachedExit.from = activeEntry.id
  BY DEF ExitLive, BrokerTypeOK, Exits
<1>2. /\ <<attachedExit.from, Opposite(attachedExit.side)>> \in EntryNames
      /\ <<activeEntry.id, activeEntry.side>> \in EntryNames
  <2>1. <<attachedExit.from, Opposite(attachedExit.side)>> \in EntryNames
    BY DEF ExitLive, SidesNamed
  <2>2. attachedExit.from \in EntryIds
    BY <2>1 DEF EntryIds
  <2> QED
    BY <1>1, <2>1, <2>2 DEF SidesNamed
<1>3. Opposite(attachedExit.side) = SideOf(position)
  BY <1>1, <1>2 DEF OneSidePerId, Alike
<1> QED
  BY <1>1, <1>3 DEF WholePosition, Direction, Opposite, SideOf, Size, Sides

LEMMA CommandAgrees ==
  ASSUME Orderly, SidesNamed, Commanding, Strategy
  PROVE  SidesNamed' /\ UNCHANGED <<position, entries, activeEntry>>
<1> USE DEF Commanding
<1>1. UNCHANGED <<position, entries, activeEntry>>
  BY DEF account
<1>2. ASSUME NEW n \in EntryNames, NEW stop \in EntryStops, Entry(n, stop)
      PROVE  SidesNamed'
  <2>1. /\ primary'.kind = "entry" /\ <<primary'.id, primary'.side>> = n
        /\ attachedExit' = attachedExit
    BY <1>2, BrokerAssumption DEF Entry, Submit, Primary
  <2> QED
    BY <1>1, <2>1 DEF SidesNamed
<1>3. ASSUME NEW id \in CloseIds, Close(id) PROVE SidesNamed'
  <2>1. primary'.kind = "close" /\ attachedExit' = attachedExit
    BY <1>3 DEF Close, Submit, Primary
  <2> QED
    BY <1>1, <2>1 DEF SidesNamed
<1>4. ASSUME NEW id \in RebalanceIds, NEW target \in Targets, Rebalance(id, target)
      PROVE  SidesNamed'
  <2>1. primary'.kind = "rebalance" /\ primary'.id = id /\ attachedExit' = attachedExit
    BY <1>4 DEF Rebalance, Submit, Primary
  <2> QED
    BY <1>1, <2>1 DEF SidesNamed
<1>5. ASSUME NEW id \in ExitIds, NEW n \in EntryNames, NEW b \in Brackets, NEW on \in BOOLEAN,
             Exit(id, n[1], b, on)
      PROVE  SidesNamed'
  <2> DEFINE side == IF PendingEntry(n[1]) THEN primary.side ELSE activeEntry.side
  <2>1. /\ attachedExit'.from = n[1] /\ attachedExit'.side = Opposite(side)
        /\ primary' = primary
    BY <1>5 DEF Exit
  <2>2. <<n[1], side>> \in EntryNames
    <3>1. CASE PendingEntry(n[1])
      BY <3>1 DEF PendingEntry, SidesNamed
    <3>2. CASE ~PendingEntry(n[1])
      <4>1. activeEntry # None /\ activeEntry.id = n[1] /\ n[1] \in EntryIds
        BY <1>5, <3>2 DEF Exit, EntryIds
      <4> QED
        BY <3>2, <4>1 DEF SidesNamed
    <3> QED
      BY <3>1, <3>2
  <2>3. Opposite(Opposite(side)) = side
    BY <2>2, BrokerAssumption DEF Opposite, Sides
  <2> QED
    BY <1>1, <2>1, <2>2, <2>3 DEF SidesNamed
<1>6. ASSUME NEW id, Cancel(id) PROVE SidesNamed'
  <2>1. primary' \in {primary, None} /\ attachedExit' \in {attachedExit, None}
    BY <1>6 DEF Cancel
  <2> QED
    BY <1>1, <2>1 DEF SidesNamed
<1> QED
  BY <1>1, <1>2, <1>3, <1>4, <1>5, <1>6 DEF Strategy, Commands

LEMMA AgreeStep ==
  ASSUME OneSidePerId
  PROVE  IInv /\ [BrokerNext]_brokerVars => (SidesNamed /\ Agree)'
<1> SUFFICES ASSUME Orderly, SidesNamed, Agree, [BrokerNext]_brokerVars PROVE SidesNamed' /\ Agree'
  BY DEF IInv
<1>1. Base
  BY DEF Orderly, Base
<1>2. ASSUME SidesNamed' /\ Alike' PROVE SidesNamed' /\ Agree'
  BY <1>2 DEF Alike, Agree
<1>3. phase # "finished" => Alike
  BY DEF Agree, Alike
<1>4. ASSUME phase # "finished", UNCHANGED <<brokerState, account>>
      PROVE  SidesNamed' /\ Alike'
  BY <1>3, <1>4 DEF SidesNamed, Alike, brokerState, account, orders
<1>5. CASE BeginBar
  BY <1>2, <1>4, <1>5 DEF BeginBar
<1>6. CASE MatchPending
  <2>1. phase # "finished" /\ phase = "pending"
    BY <1>6 DEF MatchPending
  <2>2. CASE primary = None
    BY <1>2, <1>4, <1>6, <2>1, <2>2 DEF MatchPending
  <2>3. CASE primary # None /\ Deferred
    <3>1. Execute(bar[1], FALSE, TRUE, TRUE)
      BY <1>6, <2>3 DEF MatchPending
    <3> QED
      BY <1>1, <1>2, <1>3, <2>1, <3>1, ExecuteAgrees
  <2>4. CASE primary # None /\ ~Deferred
    <3> DEFINE triggered == Reached(primary, Furthest(primary))
    <3>1. Execute(AtOpenOrStop, FALSE, triggered, FALSE)
      BY <1>6, <2>4 DEF MatchPending
    <3>2. triggered \in BOOLEAN
      BY DEF Reached
    <3>3. reversal = None
      BY <1>1, <2>1, <2>4 DEF Orderly, Beginning, Deferred, Base, BrokerTypeOK
    <3> HIDE DEF triggered
    <3> QED
      BY <1>1, <1>2, <1>3, <2>1, <3>1, <3>2, <3>3, ExecuteAgrees
  <2> QED
    BY <2>2, <2>3, <2>4
<1>7. CASE ContinueReversal
  <2>1. phase # "finished"
    BY <1>7 DEF ContinueReversal
  <2>2. CASE SecondHalfDue
    <3>1. Execute(reversal.price, reversal.atClose, TRUE, TRUE)
      BY <1>7, <2>2 DEF ContinueReversal
    <3>2. reversal.atClose \in BOOLEAN
      BY <1>1, <2>2 DEF SecondHalfDue, Base, BrokerTypeOK, Reversals
    <3> QED
      BY <1>1, <1>2, <1>3, <2>1, <3>1, <3>2, ExecuteAgrees
  <2>3. CASE ~SecondHalfDue
    BY <1>2, <1>4, <1>7, <2>1, <2>3 DEF ContinueReversal
  <2> QED
    BY <2>2, <2>3
<1>8. CASE MatchExit
  <2>1. Alike /\ BrokerTypeOK
    BY <1>1, <1>3, <1>8 DEF MatchExit, Base
  <2>2. CASE ExitLive /\ ExitPrice # None
    <3>1. /\ Filled(attachedExit, "exit", WholePosition, ExitPrice)
          /\ attachedExit' = None /\ activeEntry' = None /\ primary' = primary
      BY <1>8, <2>2 DEF MatchExit
    <3>2. WholePosition = -position /\ position \in Int
      BY <2>1, <2>2, ExitCloses DEF BrokerTypeOK
    <3>3. WholePosition \in Int /\ position + WholePosition = 0
      BY <3>2
    <3>4. Applied(WholePosition, "exit")
      BY <3>1 DEF Filled
    <3>5. position' = 0 /\ entries' = 0
      BY <2>1, <3>3, <3>4, AppliedSigns
    <3> QED
      BY <1>2, <3>1, <3>5, BrokerAssumption DEF SidesNamed, Alike
  <2>3. CASE ~(ExitLive /\ ExitPrice # None)
    <3>1. NotFilled /\ UNCHANGED <<orders, activeEntry, reversal>>
      BY <1>8, <2>3 DEF MatchExit
    <3> QED
      BY <1>2, <2>1, <3>1, NotFilledAgrees DEF orders
  <2> QED
    BY <2>2, <2>3
<1>9. CASE Strategy /\ UNCHANGED processOnClose
  <2>1. phase = "strategy" /\ Commanding
    BY <1>1, <1>9, CommandsOnce DEF Strategy, Commands, Orderly
  <2>2. SidesNamed' /\ UNCHANGED <<position, entries, activeEntry>>
    BY <1>9, <2>1, CommandAgrees
  <2> QED
    BY <1>2, <1>3, <2>1, <2>2 DEF Alike
<1>10. CASE ProcessClose
  <2> DEFINE triggered == Deferred \/ (primary # None /\ Reached(primary, bar[4]))
  <2>1. phase = "strategy" /\ Execute(bar[4], TRUE, triggered, Deferred)
    BY <1>10 DEF ProcessClose
  <2>2. triggered \in BOOLEAN /\ Deferred \in BOOLEAN
    BY DEF Deferred, Reached
  <2>3. Runs(TRUE, triggered) /\ reversal # None => Deferred
    BY <1>1, <2>1 DEF Orderly, Resting, Runs, Fills, Deferred
  <2> HIDE DEF triggered
  <2> QED
    BY <1>1, <1>2, <1>3, <2>1, <2>2, <2>3, ExecuteAgrees
<1>11. CASE FinishBar
  BY <1>11 DEF FinishBar, Agree, SidesNamed, account
<1>12. CASE UNCHANGED brokerVars
  BY <1>12 DEF brokerVars, brokerState, orders, account, coordinator, SidesNamed, Agree
<1> QED
  BY <1>5, <1>6, <1>7, <1>8, <1>9, <1>10, <1>11, <1>12 DEF BrokerNext

(* For a strategy whose ids name entries of one side each, and no          *)
(* rebalance, the identity the broker keeps of the active entry is that of *)
(* the position, and the entry count keeps to its bound (broker.tea        *)
(* execute, match_exit; portfolio.tea apply_net).                          *)
THEOREM Agreement ==
  ASSUME OneSidePerId
  PROVE  BrokerSpec => []ActiveMatchesPosition
<1>1. BrokerInit => IInv
  <2>1. BrokerInit => SidesNamed /\ Agree
    BY BrokerAssumption DEF BrokerInit, SidesNamed, Agree
  <2> QED
    BY <2>1, OrderlyInit DEF IInv
<1>2. IInv /\ [BrokerNext]_brokerVars => IInv'
  BY AgreeStep, OrderlyStep DEF IInv
<1>3. IInv => ActiveMatchesPosition
  BY DEF IInv, Orderly, Agree, ActiveMatchesPosition
<1> QED
  BY <1>1, <1>2, <1>3, PTL DEF BrokerSpec

-----------------------------------------------------------------------------
(***************************************************************************)
(* Lots.  Within a command the book passes from fill to fill, so what      *)
(* holds of it (GoodBook) is shown of one fill, then of a walk over the    *)
(* lots, then of the commands.                                             *)
(***************************************************************************)


-----------------------------------------------------------------------------
(***************************************************************************)
(* The sum of a sequence.                                                  *)
(***************************************************************************)

LEMMA Induction ==
  ASSUME NEW T, 0 \in T, \A n \in Nat : n \in T => n + 1 \in T
  PROVE  Nat \subseteq T
<1> DEFINE R == {pair \in Nat \X Nat : pair[1] < pair[2]}
           B == {n \in Nat : n \notin T}
<1>1. IsWellFoundedOn(R, Nat)
  BY NatLessThanWellFounded DEF OpToRel
<1>2. SUFFICES ASSUME B # {} PROVE FALSE
  OBVIOUS
<1>3. \A n \in Nat : <<n, n + 1>> \in R
  OBVIOUS
<1>4. PICK x \in B : \A y \in B : ~ (<<y, x>> \in R)
  <2> HIDE DEF R
  <2> QED
    BY <1>1, <1>2, WFMin
<1>5. x \in Nat /\ x # 0 /\ x - 1 \in Nat /\ x = (x - 1) + 1
  OBVIOUS
<1>6. <<x - 1, x>> \in R /\ x - 1 \in B
  <2> HIDE DEF R
  <2>1. <<x - 1, (x - 1) + 1>> \in R
    BY <1>3, <1>5
  <2> QED
    BY <1>5, <2>1
<1> HIDE DEF R, B
<1> QED
  BY <1>4, <1>6

(* s has the partial sums of the n numbers v. *)
Sums(s, v, n) ==
  /\ s \in [0..n -> Int] /\ s[0] = 0
  /\ \A i \in 1..n : s[i] = s[i - 1] + v[i]

LEMMA SumsExist ==
  ASSUME NEW n \in Nat, NEW v \in [1..n -> Int]
  PROVE  \E s : Sums(s, v, n)
<1> DEFINE T == {m \in Nat : m <= n => \E s : Sums(s, v, m)}
<1>1. 0 \in T
  <2>1. Sums([i \in 0..0 |-> 0], v, 0)
    BY DEF Sums
  <2> QED
    BY <2>1
<1>2. ASSUME NEW m \in Nat, m \in T
      PROVE  m + 1 \in T
  <2> SUFFICES ASSUME m + 1 <= n
               PROVE  \E s : Sums(s, v, m + 1)
    OBVIOUS
  <2>1. PICK f : Sums(f, v, m)
    BY <1>2
  <2>2. v[m + 1] \in Int
    OBVIOUS
  <2> DEFINE g == [i \in 0..(m + 1) |-> IF i = m + 1 THEN f[m] + v[i] ELSE f[i]]
  <2>3. g \in [0..(m + 1) -> Int] /\ g[0] = 0
    BY <2>1, <2>2 DEF Sums
  <2>4. ASSUME NEW i \in 1..(m + 1) PROVE g[i] = g[i - 1] + v[i]
    <3>1. CASE i = m + 1
      BY <3>1
    <3>2. CASE i # m + 1
      <4>1. i \in 1..m /\ i - 1 \in 0..m /\ i - 1 # m + 1
        BY <3>2
      <4> QED
        BY <4>1, <3>2, <2>1 DEF Sums
    <3> QED
      BY <3>1, <3>2
  <2>5. Sums(g, v, m + 1)
    <3> HIDE DEF g
    <3> QED
      BY <2>3, <2>4 DEF Sums
  <2> QED
    BY <2>5
<1>3. Nat \subseteq T
  <2> HIDE DEF T
  <2> QED
    BY <1>1, <1>2, Induction
<1> QED
  BY <1>3

(* The total is the last of the partial sums. *)
LEMMA TotalIsSum ==
  ASSUME NEW n \in Nat, NEW v \in [1..n -> Int], NEW s, Sums(s, v, n)
  PROVE  Total(v) = s[n]
<1>1. Len(v) = n
  BY LenProperties
<1> DEFINE Unfold(g) == [i \in 0..Len(v) |-> IF i = 0 THEN 0 ELSE g[i - 1] + v[i]]
           sum == CHOOSE g : g = Unfold(g)
<1>2. s = Unfold(s)
  <2>1. \A i \in 0..n : s[i] = Unfold(s)[i]
    BY <1>1 DEF Sums
  <2> QED
    BY <1>1, <2>1 DEF Sums
<1>3. sum = Unfold(sum)
  <2> HIDE DEF Unfold
  <2> QED
    BY <1>2
<1>4. Total(v) = sum[Len(v)]
  BY DEF Total
<1> HIDE DEF sum
<1>5. sum[0] = 0 /\ \A i \in 1..n : sum[i] = sum[i - 1] + v[i]
  BY <1>1, <1>3
<1> DEFINE T == {m \in Nat : m <= n => sum[m] = s[m]}
<1>6. 0 \in T
  BY <1>5 DEF Sums
<1>7. ASSUME NEW m \in Nat, m \in T PROVE m + 1 \in T
  <2> SUFFICES ASSUME m + 1 <= n PROVE sum[m + 1] = s[m + 1]
    OBVIOUS
  <2>1. m + 1 \in 1..n /\ (m + 1) - 1 = m /\ m <= n
    OBVIOUS
  <2> QED
    BY <1>5, <1>7, <2>1 DEF Sums
<1>8. Nat \subseteq T
  <2> HIDE DEF T
  <2> QED
    BY <1>6, <1>7, Induction
<1> QED
  BY <1>1, <1>4, <1>8

LEMMA TotalInt ==
  ASSUME NEW n \in Nat, NEW v \in [1..n -> Int]
  PROVE  Total(v) \in Int
<1>1. PICK s : Sums(s, v, n)
  BY SumsExist
<1>2. s[n] \in Int
  BY <1>1 DEF Sums
<1>3. Total(v) = s[n]
  BY <1>1, TotalIsSum
<1> QED
  BY <1>2, <1>3

(* One more number. *)
LEMMA TotalMore ==
  ASSUME NEW n \in Nat, NEW v \in [1..n -> Int], NEW w \in [1..(n + 1) -> Int],
         \A i \in 1..n : w[i] = v[i]
  PROVE  Total(w) = Total(v) + w[n + 1]
<1>1. PICK s : Sums(s, w, n + 1)
  BY SumsExist
<1>2. Sums([i \in 0..n |-> s[i]], v, n)
  BY <1>1 DEF Sums
<1>3. Total(v) = s[n]
  <2>1. Total(v) = [i \in 0..n |-> s[i]][n]
    BY <1>2, TotalIsSum
  <2> QED
    BY <2>1
<1>4. Total(w) = s[n + 1]
  BY <1>1, TotalIsSum
<1> QED
  BY <1>1, <1>3, <1>4 DEF Sums

(* Another number in the place of one. *)
LEMMA TotalOther ==
  ASSUME NEW n \in Nat, NEW v \in [1..n -> Int], NEW w \in [1..n -> Int], NEW i \in 1..n,
         \A j \in 1..n : j # i => w[j] = v[j]
  PROVE  Total(w) = Total(v) - v[i] + w[i]
<1>1. PICK s : Sums(s, v, n)
  BY SumsExist
<1> DEFINE t == [j \in 0..n |-> IF j < i THEN s[j] ELSE s[j] - v[i] + w[i]]
<1>2. t \in [0..n -> Int] /\ t[0] = 0
  BY <1>1 DEF Sums
<1>3. ASSUME NEW j \in 1..n PROVE t[j] = t[j - 1] + w[j]
  <2>1. s[j] = s[j - 1] + v[j] /\ s[j] \in Int /\ s[j - 1] \in Int /\ j - 1 \in 0..n
        /\ v[j] \in Int /\ w[j] \in Int /\ v[i] \in Int /\ w[i] \in Int
    BY <1>1 DEF Sums
  <2>2. CASE j < i
    BY <2>1, <2>2
  <2>3. CASE j = i
    BY <2>1, <2>3
  <2>4. CASE j > i
    BY <2>1, <2>4
  <2> QED
    BY <2>2, <2>3, <2>4
<1>4. Sums(t, w, n)
  <2> HIDE DEF t
  <2> QED
    BY <1>2, <1>3 DEF Sums
<1>5. Total(w) = t[n] /\ t[n] = s[n] - v[i] + w[i]
  BY <1>4, TotalIsSum
<1> QED
  BY <1>1, <1>5, TotalIsSum

(* One number less, the last one in its place. *)
LEMMA TotalLess ==
  ASSUME NEW n \in Nat, NEW v \in [1..(n + 1) -> Int], NEW w \in [1..n -> Int], NEW i \in 1..(n + 1),
         \A j \in 1..n : w[j] = IF j = i THEN v[n + 1] ELSE v[j]
  PROVE  Total(w) = Total(v) - v[i]
<1> DEFINE u == [j \in 1..n |-> v[j]]
<1>1. u \in [1..n -> Int]
  OBVIOUS
<1>2. Total(v) = Total(u) + v[n + 1]
  BY <1>1, TotalMore
<1>3. Total(u) \in Int /\ v[n + 1] \in Int /\ v[i] \in Int
  BY <1>1, TotalInt
<1>4. CASE i = n + 1
  <2>1. w = u
    BY <1>4
  <2> QED
    BY <1>2, <1>3, <1>4, <2>1
<1>5. CASE i # n + 1
  <2>1. i \in 1..n /\ \A j \in 1..n : j # i => w[j] = u[j]
    BY <1>5
  <2>2. Total(w) = Total(u) - u[i] + w[i]
    BY <1>1, <2>1, TotalOther
  <2> QED
    BY <1>2, <1>3, <2>1, <2>2
<1> QED
  BY <1>4, <1>5
-----------------------------------------------------------------------------
(***************************************************************************)
(* The book.                                                               *)
(***************************************************************************)

Lot ==
  [id : Nat, side : LotSides, price : Nat \ {0}, quantity : Nat \ {0}, fee : {Commission}]

Ledgers ==
  [cash : Int, equity : Int, peak : Int, realized : Int, fees : Int, fills : Nat,
   roundTrips : Nat, wins : Nat, losses : Nat, grossProfit : Int, grossLoss : Int,
   longStack : Nat, shortStack : Nat]

Books ==
  [lots : Seq(Lot), ledger : Ledgers, ids : [trade : Nat \ {0}, fill : Nat \ {0}],
   fill : LotFills \cup {Na}]

(* Lots with ids of their own, on one side. *)
GoodLots(lots, nextId) ==
  /\ Len(lots) <= MaxOpenTrades
  /\ \A i \in DOMAIN lots : lots[i].id < nextId
  /\ \A i, j \in DOMAIN lots : lots[i].id = lots[j].id => i = j
  /\ \A i, j \in DOMAIN lots : lots[i].side = lots[j].side

LongOwes(lots, l) ==
  MarginLong = 100 /\ (\E i \in DOMAIN lots : lots[i].side = "buy") =>
    l.cash >= - (Commission * l.roundTrips)

(* The totals that go with the lots and with the fills so far. *)
GoodLedger(lots, l, fills) ==
  /\ l.cash = InitialCash + l.realized - OpenCost(lots)
  /\ l.realized = l.grossProfit - l.grossLoss
  /\ l.fees = Commission * l.fills
  /\ l.fills = fills - 1
  /\ l.fills = 2 * l.roundTrips + Len(lots)
  /\ l.wins + l.losses = l.roundTrips
  /\ LongOwes(lots, l)

GoodBook(b) ==
  b \in Books /\ GoodLots(b.lots, b.ids.trade) /\ GoodLedger(b.lots, b.ledger, b.ids.fill)

(* Two fields of a book, replaced. *)
LEMMA FilledBook ==
  ASSUME NEW b \in Books, NEW x, NEW y, NEW c, c = [b EXCEPT !.ids = x, !.fill = y]
  PROVE  c = [lots |-> b.lots, ledger |-> b.ledger, ids |-> x, fill |-> y]
<1> DEFINE names == {"lots", "ledger", "ids", "fill"}
<1>1. DOMAIN b = names
  BY DEF Books
<1>2. c = [k \in names |-> IF k = "fill" THEN y ELSE IF k = "ids" THEN x ELSE b[k]]
  BY <1>1
<1> QED
  BY <1>2

LEMMA BookedBook ==
  ASSUME NEW b \in Books, NEW x, NEW y, NEW c, c = [b EXCEPT !.lots = x, !.ledger = y]
  PROVE  c = [lots |-> x, ledger |-> y, ids |-> b.ids, fill |-> b.fill]
<1> DEFINE names == {"lots", "ledger", "ids", "fill"}
<1>1. DOMAIN b = names
  BY DEF Books
<1>2. c = [k \in names |-> IF k = "ledger" THEN y ELSE IF k = "lots" THEN x ELSE b[k]]
  BY <1>1
<1> QED
  BY <1>2

LEMMA Constants ==
  ASSUME LotsAssumption
  PROVE  /\ InitialCash \in Nat /\ MaxOpenTrades \in Nat \ {0} /\ Commission \in Nat /\ Slippage \in Nat
         /\ Quantities \subseteq Nat /\ Stops \subseteq Int /\ Na \notin LotFills /\ Na \notin Int
BY DEF LotsAssumption

LEMMA Price ==
  ASSUME NEW q \in Nat, NEW p \in Nat, NEW r \in Nat
  PROVE  /\ q * p \in Nat /\ (1 * q) * p = q * p /\ (-1 * q) * p = - (q * p)
         /\ (1 * q) * (p - r) = q * p - q * r /\ (-1 * q) * (p - r) = q * r - q * p
         /\ 1 * q = q /\ -1 * q = -q
         /\ q > 0 /\ p > 0 => q * p > 0
OBVIOUS

LEMMA CostInt ==
  ASSUME LotsAssumption, NEW t \in Lot
  PROVE  Cost(t) \in Int /\ Sign(t.side) * t.quantity \in Int
<1>1. t.quantity \in Nat /\ t.price \in Nat /\ t.fee \in Nat /\ Sign(t.side) \in {1, -1}
  BY Constants DEF Lot, Sign
<1>2. CASE Sign(t.side) = 1
  BY <1>1, <1>2, Price DEF Cost
<1>3. CASE Sign(t.side) = -1
  BY <1>1, <1>3, Price DEF Cost
<1> QED
  BY <1>1, <1>2, <1>3

LEMMA Costs ==
  ASSUME LotsAssumption, NEW lots \in Seq(Lot)
  PROVE  /\ Len(lots) \in Nat /\ DOMAIN lots = 1..Len(lots)
         /\ [i \in DOMAIN lots |-> Cost(lots[i])] \in [1..Len(lots) -> Int]
         /\ OpenCost(lots) \in Int /\ PositionQuantity(lots) \in Int
         /\ \A side : Stacked(lots, side) \in Nat
<1>1. Len(lots) \in Nat /\ DOMAIN lots = 1..Len(lots) /\ \A i \in 1..Len(lots) : lots[i] \in Lot
  BY LenProperties, ElementOfSeq
<1>2. [i \in DOMAIN lots |-> Cost(lots[i])] \in [1..Len(lots) -> Int]
  BY <1>1, CostInt
<1>3. [i \in DOMAIN lots |-> Sign(lots[i].side) * lots[i].quantity] \in [1..Len(lots) -> Int]
  BY <1>1, CostInt
<1>4. \A side : Stacked(lots, side) \in Nat
  <2> TAKE side
  <2>1. IsFiniteSet(DOMAIN lots)
    BY <1>1, FS_Interval
  <2> QED
    BY <2>1, FS_Subset, FS_CardinalityType DEF Stacked
<1> QED
  BY <1>1, <1>2, <1>3, <1>4, TotalInt DEF OpenCost, PositionQuantity

(* A fill that the broker gives. *)
LEMMA FillIs ==
  ASSUME LotsAssumption, NEW kind \in {"entry", "close"}, NEW side \in LotSides, NEW quantity \in Nat,
         NEW tradeId \in Nat, NEW reference \in Int, NEW b,
         NEW f, f = ExecuteAtClose(kind, side, quantity, tradeId, reference, b), f # Na
  PROVE  /\ f \in LotFills
         /\ f.kind = kind /\ f.side = side /\ f.quantity = quantity /\ f.tradeId = tradeId
         /\ f.reference = reference /\ f.stop = Na
         /\ f.price = reference + Sign(side) * Slippage
         /\ kind = "entry" => MayEnter(side, quantity, reference, b)
         /\ kind = "close" => MayClose(side, b)
<1> DEFINE price == reference + Sign(side) * Slippage
<1>1. /\ quantity > 0 /\ reference > 0 /\ price > 0
      /\ f = [kind |-> kind, side |-> side, quantity |-> quantity, price |-> price,
              reference |-> reference, tradeId |-> tradeId, stop |-> Na]
      /\ kind = "entry" => MayEnter(side, quantity, reference, b)
      /\ kind # "entry" => MayClose(side, b)
  BY DEF ExecuteAtClose, ExecutionPrice
<1>2. price \in Int
  BY Constants DEF Sign
<1>3. price \in Nat \ {0} /\ quantity \in Nat \ {0} /\ reference \in Nat \ {0}
  <2> HIDE DEF price
  <2> QED
    BY <1>1, <1>2
<1> HIDE DEF price
<1>4. f \in LotFills
  BY <1>1, <1>3 DEF LotFills
<1> QED
  BY <1>1, <1>4 DEF price

LEMMA AtIndex ==
  ASSUME NEW lots \in Seq(Lot), NEW i \in DOMAIN lots
  PROVE  /\ lots[i] \in Lot
         /\ lots[i].id \in Nat /\ lots[i].side \in LotSides /\ lots[i].price \in Nat \ {0}
         /\ lots[i].quantity \in Nat \ {0} /\ lots[i].fee = Commission
<1>1. lots[i] \in Lot
  BY ElementOfSeq, LenProperties
<1> QED
  BY <1>1 DEF Lot

(* A rejection changes nothing but what it says of the last fill. *)
LEMMA RefusedGood ==
  ASSUME NEW b, GoodBook(b), NEW f \in LotFills \cup {Na}
  PROVE  GoodBook([b EXCEPT !.fill = f])
<1> DEFINE c == [b EXCEPT !.fill = f]
<1>1. c \in Books /\ c.lots = b.lots /\ c.ledger = b.ledger /\ c.ids = b.ids
  BY DEF GoodBook, Books
<1> HIDE DEF c
<1> QED
  BY <1>1 DEF GoodBook, c

(* The account after an entry: the lot is the newest, and paid. *)
LEMMA EntersGood ==
  ASSUME LotsAssumption, NEW b, GoodBook(b), NEW side \in LotSides, NEW quantity \in Nat,
         \A i \in DOMAIN b.lots : b.lots[i].side = side, NEW reference \in Int,
         NEW f, f = ExecuteAtClose("entry", side, quantity, b.ids.trade, reference, b),
         NEW after, after = Booked(b, f)
  PROVE  /\ GoodBook(after) /\ after.fill = f /\ f \in LotFills \cup {Na}
         /\ f # Na => f.stop = Na
         /\ MarginLong = 100 /\ f # Na /\ f.side = "buy" => after.ledger.cash >= 0
<1>1. CASE f = Na
  <2>1. after = [b EXCEPT !.fill = Na]
    BY <1>1 DEF Booked
  <2>2. GoodBook(after)
    BY <2>1, RefusedGood
  <2>3. after.fill = Na
    BY <2>1 DEF GoodBook, Books
  <2> QED
    BY <1>1, <2>2, <2>3
<1>2. CASE f # Na
  <2>1. /\ b \in Books /\ b.lots \in Seq(Lot) /\ b.ledger \in Ledgers
        /\ b.ids \in [trade : Nat \ {0}, fill : Nat \ {0}]
        /\ b.ids.trade \in Nat \ {0} /\ b.ids.fill \in Nat \ {0}
    BY DEF GoodBook, Books
  <2>2. /\ f \in LotFills /\ f.kind = "entry" /\ f.side = side /\ f.quantity = quantity
        /\ f.tradeId = b.ids.trade /\ f.stop = Na
        /\ f.price = reference + Sign(side) * Slippage /\ MayEnter(side, quantity, reference, b)
    BY <1>2, <2>1, FillIs
  <2>3. f.price \in Nat \ {0} /\ f.quantity \in Nat \ {0} /\ f.side \in LotSides /\ f.tradeId \in Nat
    BY <2>2 DEF LotFills
  <2> DEFINE lot == [id |-> f.tradeId, side |-> f.side, price |-> f.price, quantity |-> f.quantity,
                     fee |-> Commission]
             lots == Append(b.lots, lot)
             numbered == [b EXCEPT !.ids = [trade |-> NextTrade(f.kind, b), fill |-> @.fill + 1], !.fill = f]
  <2>4. /\ numbered \in Books /\ numbered.lots = b.lots /\ numbered.ledger = b.ledger /\ numbered.fill = f
        /\ numbered.ids = [trade |-> b.ids.trade + 1, fill |-> b.ids.fill + 1]
    <3>1. NextTrade(f.kind, b) = b.ids.trade + 1
      BY <2>2 DEF NextTrade
    <3> DEFINE x == [trade |-> b.ids.trade + 1, fill |-> b.ids.fill + 1]
    <3>5. numbered = [b EXCEPT !.ids = x, !.fill = f]
      BY <3>1, Zenon
    <3> HIDE DEF x, numbered
    <3>2. numbered = [lots |-> b.lots, ledger |-> b.ledger, ids |-> x, fill |-> f]
      BY <2>1, <3>5, FilledBook, Zenon
    <3> USE DEF x
    <3> HIDE DEF numbered
    <3>4. numbered \in Books
      BY <2>1, <2>2, <3>2 DEF Books
    <3> QED
      BY <3>2, <3>4
  <2>5. Len(b.lots) \in Nat /\ Len(b.lots) < MaxOpenTrades
    BY <2>1, <2>2, LenProperties DEF MayEnter, HasCapacity
  <2>6. after = [numbered EXCEPT !.lots = lots, !.ledger = Paid(@, CashAfter(numbered, f), lots)]
    <3>1. after = LotOpened(numbered, f)
      BY <1>2, <2>2 DEF Booked
    <3>2. ~(Len(numbered.lots) >= MaxOpenTrades)
      BY <2>4, <2>5, Constants
    <3> HIDE DEF numbered
    <3> QED
      BY <3>1, <3>2, <2>4 DEF LotOpened
  <2>7. lot \in Lot
    BY <2>3 DEF Lot
  <2>8. /\ lots \in Seq(Lot) /\ Len(lots) = Len(b.lots) + 1 /\ DOMAIN lots = 1..Len(b.lots) + 1
        /\ DOMAIN b.lots = 1..Len(b.lots)
        /\ \A i \in 1..Len(b.lots) : lots[i] = b.lots[i]
        /\ lots[Len(b.lots) + 1] = lot
    <3> HIDE DEF lot
    <3> QED
      BY <2>1, <2>7, AppendProperties, LenProperties
  <2>9. Stacked(lots, "buy") \in Nat /\ Stacked(lots, "sell") \in Nat
    BY <2>8, Costs
  <2>10. CashAfter(numbered, f) = b.ledger.cash - Cost(lot) /\ Cost(lot) \in Int
         /\ (side = "buy" => Cost(lot) = quantity * f.price + Commission)
    <3>1. CashAfter(numbered, f) = b.ledger.cash - Sign(side) * quantity * f.price - Commission
      <4> HIDE DEF numbered
      <4> QED
        BY <2>2, <2>4 DEF CashAfter
    <3>2. Cost(lot) = Sign(side) * quantity * f.price + Commission
      BY <2>2 DEF Cost
    <3>3. Cost(lot) \in Int
      BY <2>7, CostInt
    <3>4. Sign(side) * quantity * f.price \in Int
      BY <2>2, <2>3, Price DEF Sign
    <3>5. b.ledger.cash \in Int
      BY <2>1 DEF Ledgers
    <3>6. side = "buy" => Sign(side) * quantity * f.price = quantity * f.price
      BY <2>2, <2>3, Price DEF Sign
    <3> HIDE DEF lot
    <3> QED
      BY <3>1, <3>2, <3>3, <3>4, <3>5, <3>6, Constants
  <2> DEFINE l == after.ledger
  <2> HIDE DEF lots, lot
  <2>11. /\ after.lots = lots /\ after.fill = f
         /\ after.ids = [trade |-> b.ids.trade + 1, fill |-> b.ids.fill + 1]
         /\ l = Paid(b.ledger, b.ledger.cash - Cost(lot), lots)
         /\ after = [lots |-> lots, ledger |-> l, ids |-> after.ids, fill |-> f]
    <3> HIDE DEF numbered
    <3> DEFINE m == Paid(numbered.ledger, CashAfter(numbered, f), lots)
    <3>1. after = [numbered EXCEPT !.lots = lots, !.ledger = m]
      BY <2>6
    <3>2. m = Paid(b.ledger, b.ledger.cash - Cost(lot), lots)
      BY <2>4, <2>10
    <3> HIDE DEF m
    <3>3. after = [lots |-> lots, ledger |-> m, ids |-> numbered.ids, fill |-> numbered.fill]
      <4>1. numbered \in Books
        BY <2>4
      <4> HIDE DEF lots
      <4> QED
        BY <3>1, <4>1, BookedBook
    <3> QED
      BY <2>4, <3>2, <3>3
  <2> HIDE DEF l, numbered
  <2>12. /\ l \in Ledgers
         /\ l.cash = b.ledger.cash - Cost(lot) /\ l.fees = b.ledger.fees + Commission
         /\ l.fills = b.ledger.fills + 1 /\ l.roundTrips = b.ledger.roundTrips
         /\ l.realized = b.ledger.realized /\ l.wins = b.ledger.wins /\ l.losses = b.ledger.losses
         /\ l.grossProfit = b.ledger.grossProfit /\ l.grossLoss = b.ledger.grossLoss
    <3> DEFINE c == b.ledger.cash - Cost(lot)
               long == Larger(b.ledger.longStack, Stacked(lots, "buy"))
               short == Larger(b.ledger.shortStack, Stacked(lots, "sell"))
    <3>1. c \in Int /\ long \in Nat /\ short \in Nat
          /\ b.ledger.fees + Commission \in Int /\ b.ledger.fills + 1 \in Nat
      <4>1. /\ b.ledger.cash \in Int /\ b.ledger.fees \in Int /\ b.ledger.fills \in Nat
            /\ b.ledger.longStack \in Nat /\ b.ledger.shortStack \in Nat
        BY <2>1 DEF Ledgers
      <4>2. long \in Nat /\ short \in Nat
        BY <2>9, <4>1 DEF Larger
      <4> QED
        BY <2>10, <4>1, <4>2, Constants
    <3>2. l = [b.ledger EXCEPT !.cash = c, !.fees = @ + Commission, !.fills = @ + 1,
                 !.longStack = long, !.shortStack = short]
      BY <2>11 DEF Paid
    <3> HIDE DEF c, long, short
    <3>3. l \in Ledgers
      BY <2>1, <3>1, <3>2 DEF Ledgers
    <3>4. /\ l.cash = c /\ l.fees = b.ledger.fees + Commission
          /\ l.fills = b.ledger.fills + 1 /\ l.roundTrips = b.ledger.roundTrips
          /\ l.realized = b.ledger.realized /\ l.wins = b.ledger.wins /\ l.losses = b.ledger.losses
          /\ l.grossProfit = b.ledger.grossProfit /\ l.grossLoss = b.ledger.grossLoss
      BY <2>1, <3>2 DEF Ledgers
    <3> QED
      BY <3>3, <3>4 DEF c
  <2>13. after \in Books
    BY <2>1, <2>2, <2>8, <2>11, <2>12 DEF Books
  <2>14. GoodLots(after.lots, after.ids.trade)
    <3>1. lots[Len(b.lots) + 1].id = b.ids.trade /\ lots[Len(b.lots) + 1].side = side
      BY <2>2, <2>8 DEF lot
    <3>2. GoodLots(b.lots, b.ids.trade)
      BY DEF GoodBook
    <3>3. \A i \in 1..Len(b.lots) : lots[i].id < b.ids.trade /\ lots[i].id \in Nat
      BY <2>1, <2>8, <3>2, AtIndex DEF GoodLots
    <3>4. \A i \in DOMAIN lots : i \in 1..Len(b.lots) \/ i = Len(b.lots) + 1
      BY <2>5, <2>8
    <3>5. \A i \in DOMAIN lots : lots[i].id < b.ids.trade + 1 /\ lots[i].side = side
      BY <2>1, <2>8, <3>1, <3>3, <3>4
    <3>6. \A i, j \in DOMAIN lots : lots[i].id = lots[j].id => i = j
      <4> SUFFICES ASSUME NEW i \in DOMAIN lots, NEW j \in DOMAIN lots, lots[i].id = lots[j].id PROVE i = j
        OBVIOUS
      <4>1. CASE i \in 1..Len(b.lots) /\ j \in 1..Len(b.lots)
        BY <2>8, <3>2, <4>1 DEF GoodLots
      <4>2. CASE i = Len(b.lots) + 1 \/ j = Len(b.lots) + 1
        <5>1. b.ids.trade \in Nat
          BY <2>1
        <5> QED
          BY <3>1, <3>3, <3>4, <4>2, <5>1
      <4> QED
        BY <3>4, <4>1, <4>2
    <3>7. Len(lots) <= MaxOpenTrades
      BY <2>5, <2>8, Constants
    <3> QED
      BY <2>11, <3>5, <3>6, <3>7 DEF GoodLots
  <2>15. OpenCost(lots) = OpenCost(b.lots) + Cost(lot)
    <3> DEFINE v == [i \in DOMAIN b.lots |-> Cost(b.lots[i])]
               w == [i \in DOMAIN lots |-> Cost(lots[i])]
               n == Len(b.lots)
    <3>1. v \in [1..n -> Int] /\ w \in [1..(n + 1) -> Int] /\ n \in Nat
      BY <2>1, <2>8, Costs
    <3>2. (\A i \in 1..n : w[i] = v[i]) /\ w[n + 1] = Cost(lot)
      <4>1. \A i \in 1..n : i \in DOMAIN lots /\ i \in DOMAIN b.lots
        BY <2>5, <2>8
      <4>2. n + 1 \in DOMAIN lots
        BY <2>5, <2>8
      <4> QED
        BY <2>8, <4>1, <4>2
    <3>3. OpenCost(lots) = Total(w) /\ OpenCost(b.lots) = Total(v)
      BY DEF OpenCost
    <3> HIDE DEF v, w, n
    <3> QED
      BY <3>1, <3>2, <3>3, TotalMore
  <2>16. GoodLedger(b.lots, b.ledger, b.ids.fill)
    BY DEF GoodBook
  <2>17. OpenCost(b.lots) \in Int
    BY <2>1, Costs
  <2>18. MarginLong = 100 /\ side = "buy" => l.cash >= 0
    <3>1. b.ledger.cash \in Int /\ quantity * f.price \in Nat
      BY <2>1, <2>2, <2>3, Price DEF Ledgers
    <3>2. MarginLong = 100 /\ side = "buy" => b.ledger.cash >= quantity * f.price + Commission
      BY <2>2 DEF MayEnter, CapitalAvailable, ExecutionPrice
    <3> QED
      BY <2>10, <2>12, <3>1, <3>2, Constants
  <2>19. GoodLedger(lots, l, b.ids.fill + 1)
    <3>1. /\ b.ledger.cash \in Int /\ b.ledger.realized \in Int /\ b.ledger.fees \in Int
          /\ b.ledger.fills \in Nat /\ b.ledger.roundTrips \in Nat
      BY <2>1 DEF Ledgers
    <3>2. l.cash = InitialCash + l.realized - OpenCost(lots)
      BY <2>10, <2>12, <2>15, <2>16, <2>17, <3>1, Constants DEF GoodLedger
    <3>3. l.fees = Commission * l.fills
      <4>1. Commission * (b.ledger.fills + 1) = Commission * b.ledger.fills + Commission
        BY <3>1, Constants
      <4> QED
        BY <2>12, <2>16, <4>1 DEF GoodLedger
    <3>4. LongOwes(lots, l)
      <4>1. \A i \in DOMAIN lots : lots[i].side = side
        <5>1. \A i \in DOMAIN lots : i \in 1..Len(b.lots) \/ i = Len(b.lots) + 1
          BY <2>5, <2>8
        <5> QED
          BY <2>2, <2>8, <5>1 DEF lot
      <4>2. Commission * l.roundTrips \in Nat
        BY <2>12, <3>1, Price, Constants
      <4>3. l.cash \in Int
        BY <2>12 DEF Ledgers
      <4> QED
        BY <2>18, <4>1, <4>2, <4>3 DEF LongOwes
    <3>5. /\ l.realized = l.grossProfit - l.grossLoss /\ l.fills = (b.ids.fill + 1) - 1
          /\ l.fills = 2 * l.roundTrips + Len(lots) /\ l.wins + l.losses = l.roundTrips
      <4>1. /\ b.ledger.realized = b.ledger.grossProfit - b.ledger.grossLoss
            /\ b.ledger.fills = b.ids.fill - 1
            /\ b.ledger.fills = 2 * b.ledger.roundTrips + Len(b.lots)
            /\ b.ledger.wins + b.ledger.losses = b.ledger.roundTrips
        BY <2>16 DEF GoodLedger
      <4>2. b.ids.fill \in Nat
        BY <2>1
      <4> QED
        <5>1. l.realized = l.grossProfit - l.grossLoss
          BY <2>12, <4>1
        <5>2. l.fills = (b.ids.fill + 1) - 1
          BY <2>12, <4>1, <4>2
        <5>3. l.fills = 2 * l.roundTrips + Len(lots)
          <6>1. 2 * l.roundTrips = 2 * b.ledger.roundTrips /\ 2 * b.ledger.roundTrips \in Nat
            BY <2>12, <3>1
          <6>2. Len(lots) = Len(b.lots) + 1 /\ Len(b.lots) \in Nat /\ l.fills = b.ledger.fills + 1
            BY <2>5, <2>8, <2>12
          <6> QED
            BY <4>1, <6>1, <6>2
        <5>4. l.wins + l.losses = l.roundTrips
          BY <2>12, <4>1
        <5> QED
          BY <5>1, <5>2, <5>3, <5>4
    <3> QED
      BY <3>2, <3>3, <3>4, <3>5 DEF GoodLedger
  <2>20. after.ids.trade = b.ids.trade + 1 /\ after.ids.fill = b.ids.fill + 1 /\ after.ledger = l
    BY <2>11 DEF l
  <2>21. GoodBook(after)
    BY <2>11, <2>13, <2>14, <2>19, <2>20 DEF GoodBook
  <2> QED
    BY <2>2, <2>11, <2>18, <2>20, <2>21
<1> QED
  BY <1>1, <1>2

(* The lots without one of them. *)
LEMMA RemovedLots ==
  ASSUME NEW lots \in Seq(Lot), NEW i \in DOMAIN lots, NEW w, w = Removed(lots, i)
  PROVE  /\ w \in Seq(Lot) /\ Len(lots) \in Nat /\ Len(lots) > 0 /\ Len(w) = Len(lots) - 1
         /\ DOMAIN w = 1..Len(w) /\ DOMAIN lots = 1..Len(lots)
         /\ \A j \in 1..Len(w) : w[j] = IF j = i THEN lots[Len(lots)] ELSE lots[j]
<1> DEFINE n == Len(lots)
<1>1. n \in Nat /\ n > 0 /\ i \in 1..n /\ DOMAIN lots = 1..n
  BY LenProperties
<1>2. /\ Front(lots) \in Seq(Lot) /\ Len(Front(lots)) = n - 1
      /\ \A j \in 1..n - 1 : Front(lots)[j] = lots[j]
  BY <1>1, SubSeqProperties DEF Front
<1>3. Last(lots) = lots[n] /\ lots[n] \in Lot
  BY <1>1, ElementOfSeq DEF Last
<1>4. CASE i = n
  <2>1. w = Front(lots)
    BY <1>4 DEF Removed
  <2> QED
    BY <1>1, <1>2, <1>4, <2>1, LenProperties
<1>5. CASE i # n
  <2>1. w = [Front(lots) EXCEPT ![i] = lots[n]] /\ i \in 1..n - 1
    BY <1>1, <1>3, <1>5 DEF Removed
  <2> HIDE DEF n
  <2>2. w \in Seq(Lot) /\ Len(w) = n - 1
    BY <1>1, <1>2, <1>3, <2>1, ExceptSeq
  <2>3. \A j \in 1..n - 1 : w[j] = IF j = i THEN lots[n] ELSE lots[j]
    <3>1. DOMAIN Front(lots) = 1..n - 1
      BY <1>2, LenProperties
    <3> QED
      BY <1>2, <2>1, <3>1
  <2> QED
    BY <1>1, <2>2, <2>3, LenProperties DEF n
<1> QED
  BY <1>4, <1>5

(* The totals after a close. *)
LEMMA RealizedLedger ==
  ASSUME LotsAssumption, NEW a \in Ledgers, NEW c \in Int, NEW pnl \in Int,
         NEW l, l = Realized(a, c, pnl)
  PROVE  /\ l \in Ledgers
         /\ l.cash = c /\ l.fees = a.fees + Commission
         /\ l.fills = a.fills + 1 /\ l.roundTrips = a.roundTrips + 1
         /\ l.realized = a.realized + pnl
         /\ l.wins + l.losses = a.wins + a.losses + 1
         /\ l.grossProfit - l.grossLoss = a.grossProfit - a.grossLoss + pnl
<1>1. /\ a.cash \in Int /\ a.fees \in Int /\ a.fills \in Nat /\ a.realized \in Int
      /\ a.roundTrips \in Nat /\ a.wins \in Nat /\ a.losses \in Nat
      /\ a.grossProfit \in Int /\ a.grossLoss \in Int
  BY DEF Ledgers
<1> DEFINE fees == a.fees + Commission
           fills == a.fills + 1
           realized == a.realized + pnl
           trips == a.roundTrips + 1
           wins == IF pnl > 0 THEN a.wins + 1 ELSE a.wins
           losses == IF pnl > 0 THEN a.losses ELSE a.losses + 1
           profit == IF pnl > 0 THEN a.grossProfit + pnl ELSE a.grossProfit
           loss == IF pnl > 0 THEN a.grossLoss ELSE a.grossLoss - pnl
<1>2. l = [a EXCEPT !.cash = c, !.fees = fees, !.fills = fills, !.realized = realized,
                    !.roundTrips = trips, !.wins = wins, !.losses = losses,
                    !.grossProfit = profit, !.grossLoss = loss]
  BY DEF Realized
<1>3. /\ fees \in Int /\ fills \in Nat /\ realized \in Int /\ trips \in Nat
      /\ wins \in Nat /\ losses \in Nat /\ profit \in Int /\ loss \in Int
  BY <1>1, Constants
<1>4. wins + losses = a.wins + a.losses + 1 /\ profit - loss = a.grossProfit - a.grossLoss + pnl
  BY <1>1
<1> HIDE DEF fees, fills, realized, trips, wins, losses, profit, loss
<1>5. l \in Ledgers
  <2>1. [a EXCEPT !.cash = c, !.fees = fees, !.fills = fills] \in Ledgers
    BY <1>3 DEF Ledgers
  <2>2. ASSUME NEW d \in Ledgers
        PROVE  [d EXCEPT !.realized = realized, !.roundTrips = trips, !.wins = wins] \in Ledgers
    BY <1>3 DEF Ledgers
  <2>3. ASSUME NEW d \in Ledgers
        PROVE  [d EXCEPT !.losses = losses, !.grossProfit = profit, !.grossLoss = loss] \in Ledgers
    BY <1>3 DEF Ledgers
  <2> QED
    BY <1>2, <2>1, <2>2, <2>3
<1>6. /\ l.cash = c /\ l.fees = fees /\ l.fills = fills /\ l.realized = realized
      /\ l.roundTrips = trips /\ l.wins = wins /\ l.losses = losses
      /\ l.grossProfit = profit /\ l.grossLoss = loss
  BY <1>2 DEF Ledgers
<1> QED
  BY <1>4, <1>5, <1>6 DEF fees, fills, realized, trips

(* The account after a close: the lot is gone, and its result is booked.    *)
LEMMA ClosesGood ==
  ASSUME LotsAssumption, NEW b, GoodBook(b), NEW i \in DOMAIN b.lots, NEW reference \in Int,
         NEW after, after = CloseLot(b, i, reference)
  PROVE  /\ GoodBook(after) /\ after.fill \in LotFills \cup {Na}
         /\ after.fill = Na => after.lots = b.lots
         /\ after.fill # Na =>
              /\ after.lots = Removed(b.lots, i)
              /\ after.fill.kind = "close" /\ after.fill.side = ClosingSide(b.lots[i].side)
              /\ after.fill.reference = reference /\ after.fill.stop = Na
<1> DEFINE lot == b.lots[i]
           f == ExecuteAtClose("close", ClosingSide(lot.side), lot.quantity, lot.id, reference, b)
<1>1. /\ b \in Books /\ b.lots \in Seq(Lot) /\ b.ledger \in Ledgers
      /\ b.ids \in [trade : Nat \ {0}, fill : Nat \ {0}]
      /\ b.ids.trade \in Nat \ {0} /\ b.ids.fill \in Nat \ {0}
      /\ GoodLots(b.lots, b.ids.trade) /\ GoodLedger(b.lots, b.ledger, b.ids.fill)
  BY DEF GoodBook, Books
<1>2. /\ lot \in Lot /\ lot.id \in Nat /\ lot.side \in LotSides /\ lot.price \in Nat \ {0}
      /\ lot.quantity \in Nat \ {0} /\ lot.fee = Commission
  BY <1>1, AtIndex
<1>3. ClosingSide(lot.side) \in LotSides /\ ClosingSide(lot.side) # lot.side
  BY <1>2 DEF ClosingSide, LotSides
<1>4. after = Booked(b, f)
  BY DEF CloseLot
<1>5. CASE f = Na
  <2>1. after = [b EXCEPT !.fill = Na]
    BY <1>4, <1>5 DEF Booked
  <2>2. GoodBook(after)
    BY <2>1, RefusedGood
  <2>3. after.fill = Na /\ after.lots = b.lots
    BY <1>1, <2>1 DEF Books
  <2> QED
    BY <2>2, <2>3
<1>6. CASE f # Na
  <2>1. /\ f \in LotFills /\ f.kind = "close" /\ f.side = ClosingSide(lot.side) /\ f.quantity = lot.quantity
        /\ f.tradeId = lot.id /\ f.reference = reference /\ f.stop = Na
    <3> DEFINE s == ClosingSide(lot.side)
               q == lot.quantity
               t == lot.id
    <3>1. s \in LotSides /\ q \in Nat /\ t \in Nat /\ f = ExecuteAtClose("close", s, q, t, reference, b)
      BY <1>2, <1>3
    <3> HIDE DEF s, q, t, f
    <3>2. /\ f \in LotFills /\ f.kind = "close" /\ f.side = s /\ f.quantity = q
          /\ f.tradeId = t /\ f.reference = reference /\ f.stop = Na
      BY <1>6, <3>1, FillIs
    <3> QED
      BY <3>2 DEF s, q, t
  <2> HIDE DEF f
  <2>2. f.price \in Nat \ {0} /\ f.side \in LotSides
    BY <2>1 DEF LotFills
  <2> DEFINE nextIds == [trade |-> b.ids.trade, fill |-> b.ids.fill + 1]
             numbered == [b EXCEPT !.ids = [trade |-> NextTrade(f.kind, b), fill |-> @.fill + 1], !.fill = f]
             gross == Sign(lot.side) * lot.quantity * (f.price - lot.price)
             pnl == gross - lot.fee - Commission
             lots == Removed(b.lots, i)
  <2>3. numbered = [lots |-> b.lots, ledger |-> b.ledger, ids |-> nextIds, fill |-> f]
    <3>1. NextTrade(f.kind, b) = b.ids.trade
      BY <2>1 DEF NextTrade
    <3>2. numbered = [b EXCEPT !.ids = nextIds, !.fill = f]
      BY <3>1, Zenon
    <3> HIDE DEF numbered, nextIds
    <3> QED
      BY <1>1, <3>2, FilledBook, Zenon
  <2>4. /\ numbered \in Books /\ numbered.lots = b.lots /\ numbered.ledger = b.ledger /\ numbered.ids = nextIds
        /\ numbered.fill = f
    <3> HIDE DEF numbered
    <3>1. nextIds \in [trade : Nat \ {0}, fill : Nat \ {0}]
      BY <1>1
    <3> HIDE DEF nextIds
    <3> QED
      BY <1>1, <2>1, <2>3, <3>1 DEF Books
  <2>5. after = [numbered EXCEPT !.lots = lots, !.ledger = Realized(@, CashAfter(numbered, f), pnl)]
    <3>1. after = LotsClosed(numbered, f)
      BY <1>4, <1>6, <2>1 DEF Booked
    <3> HIDE DEF numbered
    <3>2. {j \in DOMAIN numbered.lots : numbered.lots[j].id = f.tradeId} = {i}
      BY <1>1, <2>1, <2>4 DEF GoodLots
    <3>3. Max({i}) = i
      <4>1. i \in Int
        BY <1>1, LenProperties
      <4> QED
        BY <4>1 DEF Max
    <3>4. f.side # lot.side /\ f.quantity = lot.quantity
      BY <1>3, <2>1
    <3>5. numbered.lots[i] = lot /\ Removed(numbered.lots, i) = lots
      BY <2>4
    <3> QED
      BY <3>1, <3>2, <3>3, <3>4, <3>5 DEF LotsClosed
  <2>6. /\ pnl \in Int
        /\ CashAfter(numbered, f) = b.ledger.cash + Cost(lot) + pnl /\ Cost(lot) \in Int
        /\ lot.side = "buy" => CashAfter(numbered, f) >= b.ledger.cash - Commission
    <3> DEFINE x == lot.quantity * f.price
               y == lot.quantity * lot.price
    <3>1. x \in Nat /\ y \in Nat
      BY <1>2, <2>2, Price
    <3>2. b.ledger.cash \in Int
      BY <1>1 DEF Ledgers
    <3>3. CashAfter(numbered, f) = b.ledger.cash - Sign(f.side) * f.quantity * f.price - Commission
      <4> HIDE DEF numbered
      <4> QED
        BY <2>4 DEF CashAfter
    <3>4. CASE lot.side = "buy"
      <4>1. Sign(f.side) = -1 /\ Sign(lot.side) = 1
        BY <2>1, <3>4 DEF ClosingSide, Sign
      <4>2. CashAfter(numbered, f) = b.ledger.cash + x - Commission
        <5> DEFINE g == Sign(f.side)
                   q == f.quantity
                   p == f.price
        <5>1. g = -1 /\ q \in Nat /\ p \in Nat
          BY <1>2, <2>1, <2>2, <4>1
        <5>2. x = q * p
          BY <2>1
        <5>3. CashAfter(numbered, f) = b.ledger.cash - (g * q) * p - Commission
          BY <3>3
        <5> HIDE DEF g, q, p, x
        <5>4. (g * q) * p = - x
          BY <5>1, <5>2, Price
        <5> QED
          BY <3>1, <3>2, <5>3, <5>4, Constants
      <4>3. gross = x - y /\ Cost(lot) = y + Commission
        BY <1>2, <2>2, <4>1, Price DEF Cost
      <4> HIDE DEF x, y, gross
      <4> QED
        BY <1>2, <3>1, <3>2, <4>2, <4>3, Constants
    <3>5. CASE lot.side = "sell"
      <4>1. Sign(f.side) = 1 /\ Sign(lot.side) = -1
        BY <2>1, <3>5 DEF ClosingSide, Sign
      <4>2. CashAfter(numbered, f) = b.ledger.cash - x - Commission
        BY <1>2, <2>1, <2>2, <3>1, <3>2, <3>3, <4>1, Price, Constants
      <4>3. gross = y - x /\ Cost(lot) = - y + Commission
        BY <1>2, <2>2, <4>1, Price DEF Cost
      <4> HIDE DEF x, y, gross
      <4> QED
        BY <1>2, <3>1, <3>2, <3>5, <4>2, <4>3, Constants
    <3> QED
      BY <1>2, <3>4, <3>5 DEF LotSides
  <2> DEFINE l == Realized(b.ledger, b.ledger.cash + Cost(lot) + pnl, pnl)
  <2> HIDE DEF pnl, lots, numbered
  <2>7. after = [lots |-> lots, ledger |-> l, ids |-> nextIds, fill |-> f]
    <3>1. after = [numbered EXCEPT !.lots = lots, !.ledger = l]
      BY <2>4, <2>5, <2>6
    <3>2. numbered \in Books /\ numbered.ids = nextIds /\ numbered.fill = f
      BY <2>4
    <3> HIDE DEF l, nextIds
    <3> QED
      BY <3>1, <3>2, BookedBook
  <2>8. /\ l \in Ledgers
        /\ l.cash = b.ledger.cash + Cost(lot) + pnl /\ l.fees = b.ledger.fees + Commission
        /\ l.fills = b.ledger.fills + 1 /\ l.roundTrips = b.ledger.roundTrips + 1
        /\ l.realized = b.ledger.realized + pnl
        /\ l.wins + l.losses = b.ledger.wins + b.ledger.losses + 1
        /\ l.grossProfit - l.grossLoss = b.ledger.grossProfit - b.ledger.grossLoss + pnl
    <3>1. /\ b.ledger.cash \in Int /\ b.ledger.fees \in Int /\ b.ledger.fills \in Nat
          /\ b.ledger.realized \in Int /\ b.ledger.roundTrips \in Nat /\ b.ledger.wins \in Nat
          /\ b.ledger.losses \in Nat /\ b.ledger.grossProfit \in Int /\ b.ledger.grossLoss \in Int
      BY <1>1 DEF Ledgers
    <3> DEFINE c == b.ledger.cash + Cost(lot) + pnl
    <3>2. c \in Int
      BY <2>6, <3>1
    <3>3. l = Realized(b.ledger, c, pnl)
      OBVIOUS
    <3> HIDE DEF c, l
    <3> QED
      BY <1>1, <2>6, <3>2, <3>3, RealizedLedger DEF c
  <2> HIDE DEF l
  <2>9. /\ lots \in Seq(Lot) /\ Len(b.lots) \in Nat /\ Len(b.lots) > 0 /\ Len(lots) = Len(b.lots) - 1
        /\ DOMAIN lots = 1..Len(lots) /\ DOMAIN b.lots = 1..Len(b.lots)
        /\ \A j \in 1..Len(lots) : lots[j] = IF j = i THEN b.lots[Len(b.lots)] ELSE b.lots[j]
    BY <1>1, RemovedLots DEF lots
  <2>10. nextIds \in [trade : Nat \ {0}, fill : Nat \ {0}]
    BY <1>1
  <2>11. after \in Books
    <3> HIDE DEF nextIds
    <3> QED
      BY <2>1, <2>7, <2>8, <2>9, <2>10 DEF Books
  <2>12. GoodLots(lots, b.ids.trade)
    <3>1. \A j \in 1..Len(lots) : j \in DOMAIN b.lots /\ j # Len(b.lots) /\ Len(b.lots) \in DOMAIN b.lots
      BY <2>9
    <3>2. Len(lots) <= MaxOpenTrades
      BY <1>1, <2>9, Constants DEF GoodLots
    <3>6. \A j \in 1..Len(lots) : \E k \in DOMAIN b.lots : lots[j] = b.lots[k]
      BY <2>9, <3>1
    <3>3. \A j \in 1..Len(lots) : lots[j].id < b.ids.trade
      BY <1>1, <3>6 DEF GoodLots
    <3>4. \A j, k \in 1..Len(lots) : lots[j].side = lots[k].side
      BY <1>1, <3>6 DEF GoodLots
    <3>5. ASSUME NEW j \in 1..Len(lots), NEW k \in 1..Len(lots), lots[j].id = lots[k].id PROVE j = k
      <4> DEFINE Old(m) == IF m = i THEN Len(b.lots) ELSE m
      <4>1. Old(j) \in DOMAIN b.lots /\ Old(k) \in DOMAIN b.lots
        BY <3>1
      <4>2. lots[j] = b.lots[Old(j)] /\ lots[k] = b.lots[Old(k)]
        BY <2>9
      <4>3. Old(j) = Old(k)
        <5> HIDE DEF Old
        <5> QED
          BY <1>1, <3>5, <4>1, <4>2 DEF GoodLots
      <4> QED
        BY <3>1, <4>3
    <3> QED
      BY <2>9, <3>2, <3>3, <3>4, <3>5 DEF GoodLots
  <2>13. OpenCost(lots) = OpenCost(b.lots) - Cost(lot)
    <3> DEFINE v == [j \in DOMAIN b.lots |-> Cost(b.lots[j])]
               w == [j \in DOMAIN lots |-> Cost(lots[j])]
               n == Len(lots)
    <3>1. n \in Nat /\ v \in [1..(n + 1) -> Int] /\ w \in [1..n -> Int] /\ i \in 1..(n + 1)
      <4>1. n \in Nat /\ n + 1 = Len(b.lots)
        BY <2>9
      <4> QED
        BY <1>1, <2>9, <4>1, Costs
    <3>2. \A j \in 1..n : w[j] = IF j = i THEN v[n + 1] ELSE v[j]
      <4>1. n + 1 = Len(b.lots) /\ n + 1 \in DOMAIN b.lots
        BY <2>9
      <4>2. \A j \in 1..n : j \in DOMAIN lots /\ j \in DOMAIN b.lots
        BY <2>9
      <4> QED
        BY <2>9, <4>1, <4>2
    <3>3. OpenCost(lots) = Total(w) /\ OpenCost(b.lots) = Total(v) /\ v[i] = Cost(lot)
      BY DEF OpenCost
    <3> HIDE DEF v, w, n
    <3> QED
      BY <3>1, <3>2, <3>3, TotalLess
  <2>14. GoodLedger(lots, l, b.ids.fill + 1)
    <3>1. /\ b.ledger.cash \in Int /\ b.ledger.realized \in Int /\ b.ledger.fees \in Int
          /\ b.ledger.fills \in Nat /\ b.ledger.roundTrips \in Nat /\ OpenCost(b.lots) \in Int
      BY <1>1, Costs DEF Ledgers
    <3>2. l.cash = InitialCash + l.realized - OpenCost(lots)
      <4>1. b.ledger.cash = InitialCash + b.ledger.realized - OpenCost(b.lots)
        BY <1>1 DEF GoodLedger
      <4> QED
        BY <2>6, <2>8, <2>13, <3>1, <4>1, Constants
    <3>3. l.fees = Commission * l.fills
      <4>1. Commission * (b.ledger.fills + 1) = Commission * b.ledger.fills + Commission
        BY <3>1, Constants
      <4> QED
        BY <1>1, <2>8, <4>1 DEF GoodLedger
    <3>4. l.fills = (b.ids.fill + 1) - 1
      BY <1>1, <2>8 DEF GoodLedger
    <3>5. l.fills = 2 * l.roundTrips + Len(lots)
      <4>1. b.ledger.fills = 2 * b.ledger.roundTrips + Len(b.lots)
        BY <1>1 DEF GoodLedger
      <4>2. 2 * l.roundTrips = 2 * b.ledger.roundTrips + 2 /\ 2 * b.ledger.roundTrips \in Nat
        BY <2>8, <3>1
      <4>3. l.fills = b.ledger.fills + 1 /\ Len(lots) = Len(b.lots) - 1 /\ Len(b.lots) \in Nat
        BY <2>8, <2>9
      <4> QED
        BY <4>1, <4>2, <4>3
    <3>6. l.wins + l.losses = l.roundTrips /\ l.realized = l.grossProfit - l.grossLoss
      <4>1. /\ b.ledger.wins + b.ledger.losses = b.ledger.roundTrips
            /\ b.ledger.realized = b.ledger.grossProfit - b.ledger.grossLoss
        BY <1>1 DEF GoodLedger
      <4> QED
        BY <2>8, <4>1
    <3>7. LongOwes(lots, l)
      <4> SUFFICES ASSUME MarginLong = 100, NEW j \in DOMAIN lots, lots[j].side = "buy"
                   PROVE  l.cash >= - (Commission * l.roundTrips)
        BY DEF LongOwes
      <4>1. \E k \in DOMAIN b.lots : lots[j] = b.lots[k]
        <5>1. Len(b.lots) \in DOMAIN b.lots /\ j \in DOMAIN b.lots
          BY <2>9
        <5> QED
          BY <2>9, <5>1
      <4>2. lot.side = "buy"
        BY <1>1, <4>1 DEF GoodLots
      <4>3. b.ledger.cash >= - (Commission * b.ledger.roundTrips)
        BY <1>1, <4>2 DEF GoodLedger, LongOwes
      <4>4. l.cash >= b.ledger.cash - Commission /\ l.cash \in Int
        BY <2>6, <2>8, <4>2 DEF Ledgers
      <4>5. Commission * (b.ledger.roundTrips + 1) = Commission * b.ledger.roundTrips + Commission
            /\ Commission * b.ledger.roundTrips \in Nat
        BY <3>1, Constants
      <4>6. l.roundTrips = b.ledger.roundTrips + 1
        BY <2>8
      <4> QED
        BY <3>1, <4>3, <4>4, <4>5, <4>6, Constants
    <3> QED
      BY <3>2, <3>3, <3>4, <3>5, <3>6, <3>7 DEF GoodLedger
  <2>15. after.lots = lots /\ after.ledger = l /\ after.ids = nextIds /\ after.fill = f
    BY <2>7
  <2>16. GoodBook(after)
    BY <2>11, <2>12, <2>14, <2>15 DEF GoodBook
  <2> QED
    BY <1>6, <2>1, <2>15, <2>16 DEF lots
<1> QED
  BY <1>5, <1>6
-----------------------------------------------------------------------------
(***************************************************************************)
(* A reversal.                                                             *)
(***************************************************************************)

Started(b) == [valid |-> TRUE, book |-> b]

(* w is the first m steps of a walk over the lots of b. *)
Walks(w, b, side, m) ==
  /\ w = [n \in 0..m |-> w[n]]
  /\ w[0] = Started(b)
  /\ \A n \in 1..m : w[n] = CloseOpposite(w[n - 1], Len(b.lots) - n + 1, side)

LEMMA WalkExists ==
  ASSUME NEW b, NEW side, NEW m \in Nat
  PROVE  \E w : Walks(w, b, side, m)
<1> DEFINE T == {n \in Nat : \E w : Walks(w, b, side, n)}
<1>1. 0 \in T
  <2>1. Walks([n \in 0..0 |-> Started(b)], b, side, 0)
    BY DEF Walks
  <2> QED
    BY <2>1
<1>2. ASSUME NEW n \in Nat, n \in T PROVE n + 1 \in T
  <2>1. PICK w : Walks(w, b, side, n)
    BY <1>2
  <2> DEFINE last == CloseOpposite(w[n], Len(b.lots) - (n + 1) + 1, side)
             v == [k \in 0..(n + 1) |-> IF k = n + 1 THEN last ELSE w[k]]
  <2>2. v[0] = Started(b) /\ v[n + 1] = last /\ \A k \in 0..n : v[k] = w[k]
    BY <2>1 DEF Walks
  <2>3. v = [k \in 0..(n + 1) |-> v[k]]
    OBVIOUS
  <2>4. ASSUME NEW k \in 1..(n + 1)
        PROVE  v[k] = CloseOpposite(v[k - 1], Len(b.lots) - k + 1, side)
    <3> HIDE DEF v
    <3>1. CASE k = n + 1
      <4>1. k - 1 = n /\ n \in 0..n
        BY <3>1
      <4> QED
        BY <2>2, <3>1, <4>1
    <3>2. CASE k # n + 1
      <4>1. k \in 1..n /\ k \in 0..n /\ k - 1 \in 0..n
        BY <3>2
      <4> QED
        BY <2>1, <2>2, <4>1 DEF Walks
    <3> QED
      BY <3>1, <3>2
  <2>5. Walks(v, b, side, n + 1)
    <3> HIDE DEF v
    <3> QED
      BY <2>2, <2>3, <2>4 DEF Walks
  <2> QED
    BY <2>5
<1>3. Nat \subseteq T
  <2> HIDE DEF T
  <2> QED
    BY <1>1, <1>2, Induction
<1> QED
  BY <1>3

(* Reversed() is the last step of such a walk. *)
LEMMA ReversedWalks ==
  ASSUME NEW b, NEW side, Len(b.lots) \in Nat
  PROVE  \E w : Walks(w, b, side, Len(b.lots)) /\ Reversed(b, side) = w[Len(b.lots)]
<1> DEFINE m == Len(b.lots)
           Unfold(g) == [n \in 0..m |-> IF n = 0 THEN [valid |-> TRUE, book |-> b]
                                        ELSE CloseOpposite(g[n - 1], m - n + 1, side)]
           walked == CHOOSE g : g = Unfold(g)
<1>1. PICK w : Walks(w, b, side, m)
  BY WalkExists
<1>2. w = Unfold(w)
  <2>1. ASSUME NEW n \in 0..m PROVE w[n] = Unfold(w)[n]
    <3>1. CASE n = 0
      BY <1>1, <3>1 DEF Walks, Started
    <3>2. CASE n # 0
      <4>1. n \in 1..m
        BY <3>2
      <4>2. w[n] = CloseOpposite(w[n - 1], m - n + 1, side)
        BY <1>1, <4>1 DEF Walks
      <4> QED
        BY <3>2, <4>2
    <3> QED
      BY <3>1, <3>2
  <2>2. w = [n \in 0..m |-> w[n]]
    BY <1>1 DEF Walks
  <2> QED
    BY <2>1, <2>2
<1>3. walked = Unfold(walked)
  <2> HIDE DEF Unfold
  <2> QED
    BY <1>2
<1>4. Reversed(b, side) = walked[m]
  BY DEF Reversed
<1> HIDE DEF walked
<1>5. Walks(walked, b, side, m)
  <2>1. m \in Nat
    OBVIOUS
  <2>2. walked[0] = Started(b)
    BY <1>3, <2>1 DEF Started
  <2>3. ASSUME NEW n \in 1..m
        PROVE  walked[n] = CloseOpposite(walked[n - 1], m - n + 1, side)
    <3>1. n \in 0..m /\ n # 0
      OBVIOUS
    <3>2. Unfold(walked)[n] = CloseOpposite(walked[n - 1], m - n + 1, side)
      BY <3>1
    <3> HIDE DEF Unfold
    <3> QED
      BY <1>3, <3>2
  <2>4. walked = [n \in 0..m |-> walked[n]]
    BY <1>3
  <2> QED
    BY <2>2, <2>3, <2>4 DEF Walks
<1> QED
  BY <1>4, <1>5

(* After a reversal the account balances; it is over, and the lots that are *)
(* left are on the entry's side, or the last close was rejected.            *)
LEMMA ReversedGood ==
  ASSUME LotsAssumption, NEW b, GoodBook(b), NEW side \in LotSides, lotBar[4] \in Int,
         NEW r, r = Reversed(b, side)
  PROVE  /\ GoodBook(r.book)
         /\ ~ r.valid => r.book.fill = Na
         /\ r.valid => \A i \in DOMAIN r.book.lots : r.book.lots[i].side = side
<1> DEFINE m == Len(b.lots)
<1>1. b.lots \in Seq(Lot) /\ m \in Nat /\ DOMAIN b.lots = 1..m /\ GoodLots(b.lots, b.ids.trade)
  BY LenProperties DEF GoodBook, Books
<1>2. PICK w : Walks(w, b, side, m) /\ r = w[m]
  BY <1>1, ReversedWalks
<1>3. /\ w[0] = Started(b)
      /\ \A n \in 1..m : w[n] = CloseOpposite(w[n - 1], m - n + 1, side)
  BY <1>2 DEF Walks
<1>4. CASE \A i \in DOMAIN b.lots : b.lots[i].side = side
  <2> DEFINE T == {n \in Nat : n <= m => w[n] = Started(b)}
  <2>1. 0 \in T
    BY <1>3
  <2>2. ASSUME NEW n \in Nat, n \in T PROVE n + 1 \in T
    <3> SUFFICES ASSUME n + 1 <= m PROVE w[n + 1] = Started(b)
      OBVIOUS
    <3>1. w[n + 1] = CloseOpposite(Started(b), m - (n + 1) + 1, side)
      <4>1. n + 1 \in 1..m /\ (n + 1) - 1 = n /\ n <= m
        BY <1>1
      <4>2. w[n] = Started(b)
        BY <2>2, <4>1
      <4> QED
        BY <1>3, <4>1, <4>2
    <3>2. m - (n + 1) + 1 \in DOMAIN b.lots
      BY <1>1
    <3>3. b.lots[m - (n + 1) + 1].side = side
      BY <1>4, <3>2
    <3> HIDE DEF m
    <3> QED
      BY <3>1, <3>3 DEF CloseOpposite, Started
  <2>3. Nat \subseteq T
    <3> HIDE DEF T
    <3> QED
      BY <2>1, <2>2, Induction
  <2>4. r = Started(b)
    BY <1>1, <1>2, <2>3
  <2> QED
    BY <1>4, <2>4 DEF Started
<1>5. CASE ~ \A i \in DOMAIN b.lots : b.lots[i].side = side
  <2>1. \A i \in DOMAIN b.lots : b.lots[i].side # side
    BY <1>1, <1>5 DEF GoodLots
  <2> DEFINE Walked(q, n) ==
               /\ q.valid \in BOOLEAN /\ GoodBook(q.book)
               /\ ~ q.valid => q.book.fill = Na
               /\ q.valid => /\ Len(q.book.lots) = m - n
                             /\ \A i \in DOMAIN q.book.lots : q.book.lots[i].side # side
             T == {n \in Nat : n <= m => Walked(w[n], n)}
  <2>2. 0 \in T
    <3>1. w[0].valid = TRUE /\ w[0].book = b
      BY <1>3 DEF Started
    <3>2. Len(b.lots) = m - 0
      BY <1>1
    <3>3. Walked(w[0], 0)
      BY <2>1, <3>1, <3>2
    <3> QED
      BY <3>3
  <2>3. ASSUME NEW n \in Nat, n \in T PROVE n + 1 \in T
    <3> SUFFICES ASSUME n + 1 <= m PROVE Walked(w[n + 1], n + 1)
      OBVIOUS
    <3> DEFINE q == w[n]
               i == m - (n + 1) + 1
               after == CloseLot(q.book, i, lotBar[4])
    <3>1. Walked(q, n)
      BY <1>1, <2>3
    <3>2. w[n + 1] = CloseOpposite(q, i, side)
      <4>1. n + 1 \in 1..m /\ (n + 1) - 1 = n
        BY <1>1
      <4> QED
        BY <1>3, <4>1
    <3> HIDE DEF q
    <3>3. CASE ~ q.valid
      <4>1. w[n + 1] = q
        BY <3>2, <3>3 DEF CloseOpposite
      <4> QED
        BY <3>1, <3>3, <4>1
    <3>4. CASE q.valid
      <4>1. /\ q.book.lots \in Seq(Lot) /\ Len(q.book.lots) = i /\ i \in DOMAIN q.book.lots
            /\ q.book.lots[i].side # side /\ GoodBook(q.book)
        <5>1. q.book.lots \in Seq(Lot) /\ Len(q.book.lots) = m - n
          BY <3>1, <3>4 DEF GoodBook, Books
        <5>2. Len(q.book.lots) = i /\ i \in 1..Len(q.book.lots)
          BY <1>1, <5>1
        <5>3. i \in DOMAIN q.book.lots
          BY <5>1, <5>2, LenProperties
        <5> QED
          BY <3>1, <3>4, <5>1, <5>2, <5>3
      <4>2. w[n + 1] = [valid |-> after.fill # Na, book |-> after]
        BY <3>2, <3>4, <4>1 DEF CloseOpposite
      <4>3. /\ GoodBook(after)
            /\ after.fill # Na => after.lots = Removed(q.book.lots, i)
        <5> DEFINE c == q.book
        <5>1. GoodBook(c) /\ i \in DOMAIN c.lots /\ after = CloseLot(c, i, lotBar[4])
          BY <4>1
        <5> HIDE DEF c, after, i
        <5>2. /\ GoodBook(after)
              /\ after.fill # Na => after.lots = Removed(c.lots, i)
          BY <5>1, ClosesGood
        <5> QED
          BY <5>2 DEF c
      <4> HIDE DEF after
      <4>4. ASSUME after.fill # Na
            PROVE  /\ Len(after.lots) = m - (n + 1)
                   /\ \A k \in DOMAIN after.lots : after.lots[k].side # side
        <5> DEFINE lots == q.book.lots
                   less == after.lots
        <5>1. lots \in Seq(Lot) /\ i \in DOMAIN lots /\ less = Removed(lots, i) /\ Len(lots) = i
          BY <4>1, <4>3, <4>4
        <5>2. \A k \in DOMAIN lots : lots[k].side # side
          BY <3>1, <3>4
        <5> HIDE DEF lots, less
        <5>3. /\ Len(less) = i - 1 /\ DOMAIN less = 1..Len(less) /\ DOMAIN lots = 1..i /\ i \in Nat
              /\ \A k \in 1..Len(less) : less[k] = IF k = i THEN lots[Len(lots)] ELSE lots[k]
          <6> HIDE DEF i
          <6> QED
            BY <5>1, RemovedLots
        <5>4. Len(less) = m - (n + 1)
          BY <1>1, <5>3
        <5>5. \A k \in DOMAIN less : less[k].side # side
          <6> HIDE DEF i
          <6> QED
            BY <5>2, <5>3
        <5> QED
          BY <5>4, <5>5 DEF less
      <4> DEFINE v == after.fill # Na
                 p == w[n + 1]
      <4>5. p.valid = v /\ p.book = after /\ v \in BOOLEAN
        BY <4>2
      <4>6. ~ p.valid => p.book.fill = Na
        BY <4>5
      <4>7. p.valid => /\ Len(p.book.lots) = m - (n + 1)
                       /\ \A k \in DOMAIN p.book.lots : p.book.lots[k].side # side
        BY <4>4, <4>5
      <4> HIDE DEF v, p
      <4>8. p.valid \in BOOLEAN /\ GoodBook(p.book)
        BY <4>3, <4>5
      <4>9. Walked(p, n + 1)
        BY <4>6, <4>7, <4>8
      <4> QED
        BY <4>9 DEF p
    <3> QED
      BY <3>1, <3>3, <3>4
  <2>4. Nat \subseteq T
    <3> HIDE DEF T
    <3> QED
      BY <2>2, <2>3, Induction
  <2>5. Walked(r, m)
    BY <1>1, <1>2, <2>4
  <2>6. r.valid => r.book.lots = <<>>
    <3>1. r.book.lots \in Seq(Lot)
      BY <2>5 DEF GoodBook, Books
    <3>2. r.valid => Len(r.book.lots) = 0
      BY <1>1, <2>5
    <3> QED
      BY <3>1, <3>2, EmptySeq
  <2> QED
    BY <2>5, <2>6
<1> QED
  BY <1>4, <1>5
-----------------------------------------------------------------------------
(***************************************************************************)
(* The coordinator.                                                        *)
(***************************************************************************)

Balanced ==
  /\ lotBar \in LotBars /\ GoodBook(Book)
  /\ lotFill \in LotFills \cup {Na} /\ outcome \in {"filled", "refused", "missed"}
  /\ StopFillsInBar
  /\ MarginLong = 100 /\ lotFill # Na /\ lotFill.kind = "entry" /\ lotFill.side = "buy" =>
       ledger.cash >= 0

LEMMA BookIs ==
  /\ Book.lots = openTrades /\ Book.ledger = ledger /\ Book.ids = ids /\ Book.fill = Na
BY DEF Book

LEMMA BarIs ==
  ASSUME LotsAssumption, lotBar \in LotBars
  PROVE  /\ lotBar[1] \in Nat \ {0} /\ lotBar[2] \in Nat \ {0} /\ lotBar[3] \in Nat \ {0}
         /\ lotBar[4] \in Nat \ {0}
         /\ lotBar[3] <= lotBar[1] /\ lotBar[1] <= lotBar[2] /\ lotBar[3] <= lotBar[4] /\ lotBar[4] <= lotBar[2]
<1>1. lotBar \in [1 .. 4 -> Nat \ {0}]
  BY DEF LotsAssumption
<1>2. lotBar[3] <= lotBar[1] /\ lotBar[1] <= lotBar[2] /\ lotBar[3] <= lotBar[4] /\ lotBar[4] <= lotBar[2]
  BY DEF LotsAssumption
<1> QED
  BY <1>1, <1>2

(* What the accounts promise of the lots is what the properties say.       *)
LEMMA BalancedIsApplied ==
  ASSUME LotsAssumption, Balanced
  PROVE  EveryFillApplied
<1>1. /\ Book \in Books /\ GoodLots(openTrades, ids.trade) /\ GoodLedger(openTrades, ledger, ids.fill)
  BY BookIs DEF Balanced, GoodBook
<1>2. /\ openTrades \in Seq(Lot) /\ ledger \in Ledgers /\ ids \in [trade : Nat \ {0}, fill : Nat \ {0}]
  BY <1>1, BookIs DEF Books
<1>3. LotsTypeOK
  BY <1>1, <1>2 DEF Balanced, LotsTypeOK, GoodLots, Lot, Ledgers
<1>4. OneSided
  BY <1>1 DEF OneSided, GoodLots
<1>5. MarginLong = 100 => Funded
  BY <1>1 DEF Balanced, Funded, GoodLedger, LongOwes
<1>6. LedgerBalances
  BY <1>1, <1>3, <1>5 DEF LedgerBalances, GoodLedger
<1> QED
  BY <1>1, <1>4, <1>6 DEF EveryFillApplied, GoodLedger, Balanced

LEMMA InitBalanced ==
  ASSUME LotsAssumption, LotsInit
  PROVE  Balanced
<1>1. openTrades = <<>> /\ openTrades \in Seq(Lot) /\ Len(openTrades) = 0 /\ DOMAIN openTrades = {}
  BY DEF LotsInit
<1>2. OpenCost(openTrades) = 0
  <2> DEFINE v == [i \in DOMAIN openTrades |-> Cost(openTrades[i])]
  <2>1. v \in [1..0 -> Int]
    BY <1>1
  <2>2. Sums([i \in 0..0 |-> 0], v, 0)
    BY DEF Sums
  <2>3. Total(v) = 0
    <3> HIDE DEF v
    <3>1. Total(v) = [i \in 0..0 |-> 0][0]
      BY <2>1, <2>2, TotalIsSum
    <3> QED
      BY <3>1
  <2> QED
    BY <2>3 DEF OpenCost
<1>3. ledger \in Ledgers
  BY Constants DEF LotsInit, Ledgers
<1>4. Book \in Books
  <2>1. ids \in [trade : Nat \ {0}, fill : Nat \ {0}]
    BY DEF LotsInit
  <2> QED
    BY <1>1, <1>3, <2>1 DEF Book, Books
<1>5. GoodLots(openTrades, ids.trade)
  BY <1>1, Constants DEF GoodLots
<1>6. GoodLedger(openTrades, ledger, ids.fill)
  <2>1. /\ ledger.cash = InitialCash /\ ledger.realized = 0 /\ ledger.fees = 0 /\ ledger.fills = 0
        /\ ledger.roundTrips = 0 /\ ledger.wins = 0 /\ ledger.losses = 0
        /\ ledger.grossProfit = 0 /\ ledger.grossLoss = 0 /\ ids.fill = 1
    BY DEF LotsInit
  <2>2. Commission * 0 = 0
    BY Constants
  <2> QED
    BY <1>1, <1>2, <2>1, <2>2, Constants DEF GoodLedger, LongOwes
<1>7. GoodBook(Book)
  BY <1>4, <1>5, <1>6, BookIs DEF GoodBook
<1> QED
  BY <1>7 DEF LotsInit, Balanced, StopFillsInBar

LEMMA BecomesBalanced ==
  ASSUME LotsAssumption, Balanced, NEW b, GoodBook(b), NEW stop \in Stops \cup {Na},
         Becomes(b, stop),
         b.fill # Na /\ stop # Na =>
           b.fill.reference \in lotBar[3] .. lotBar[2] /\ Sign(b.fill.side) * (b.fill.reference - stop) >= 0,
         MarginLong = 100 /\ b.fill # Na /\ b.fill.kind = "entry" /\ b.fill.side = "buy" =>
           b.ledger.cash >= 0
  PROVE  Balanced'
<1>1. b \in Books /\ b.fill \in LotFills \cup {Na}
  BY DEF GoodBook, Books
<1>2. /\ openTrades' = b.lots /\ ledger' = b.ledger /\ ids' = b.ids /\ lotBar' = lotBar
      /\ lotFill' = (IF b.fill = Na THEN Na ELSE [b.fill EXCEPT !.stop = stop])
      /\ outcome' = (IF b.fill = Na THEN "refused" ELSE "filled")
  BY DEF Becomes
<1>3. GoodBook(Book')
  <2>1. Book' = [b EXCEPT !.fill = Na]
    <3> DEFINE names == {"lots", "ledger", "ids", "fill"}
    <3>1. DOMAIN b = names
      BY <1>1 DEF Books
    <3>2. [b EXCEPT !.fill = Na] = [k \in names |-> IF k = "fill" THEN Na ELSE b[k]]
      BY <3>1
    <3>3. Book' = [lots |-> b.lots, ledger |-> b.ledger, ids |-> b.ids, fill |-> Na]
      BY <1>2 DEF Book
    <3> QED
      BY <3>2, <3>3
  <2> QED
    BY <2>1, RefusedGood
<1>4. GoodBook(Book)'
  BY <1>3
<1>5. CASE b.fill = Na
  <2>1. lotFill' = Na /\ outcome' = "refused" /\ lotBar' = lotBar
    BY <1>2, <1>5
  <2> QED
    BY <1>4, <2>1 DEF Balanced, StopFillsInBar
<1>6. CASE b.fill # Na
  <2> DEFINE g == [b.fill EXCEPT !.stop = stop]
  <2>1. b.fill \in LotFills
    BY <1>1, <1>6
  <2>2. /\ g \in LotFills /\ g.kind = b.fill.kind /\ g.side = b.fill.side
        /\ g.reference = b.fill.reference /\ g.stop = stop
    BY <2>1 DEF LotFills
  <2>3. lotFill' = g /\ outcome' = "filled" /\ lotBar' = lotBar /\ ledger' = b.ledger
    BY <1>2, <1>6
  <2> HIDE DEF g
  <2>4. StopFillsInBar'
    BY <1>6, <2>2, <2>3 DEF StopFillsInBar
  <2>5. MarginLong = 100 /\ lotFill' # Na /\ lotFill'.kind = "entry" /\ lotFill'.side = "buy" =>
          ledger'.cash >= 0
    BY <1>6, <2>2, <2>3
  <2> QED
    BY <1>4, <2>2, <2>3, <2>4, <2>5 DEF Balanced
<1> QED
  BY <1>5, <1>6

(* An entry: the other side is closed first, then the lot is bought.       *)
LEMMA EntryBalanced ==
  ASSUME LotsAssumption, Balanced, NEW side \in LotSides, NEW quantity \in Quantities,
         EnterLot(side, quantity)
  PROVE  Balanced'
<1> DEFINE turned == Reversed(Book, side)
           b == turned.book
           f == ExecuteAtClose("entry", side, quantity, b.ids.trade, lotBar[4], b)
           after == IF quantity = 0 THEN Book ELSE IF ~turned.valid THEN b ELSE Booked(b, f)
<1>1. Becomes(after, Na)
  BY DEF EnterLot
<1>2. GoodBook(Book) /\ lotBar[4] \in Int /\ quantity \in Nat
  BY BarIs, Constants DEF Balanced
<1>3. CASE quantity = 0
  <2>1. Becomes(Book, Na)
    BY <1>1, <1>3
  <2> QED
    BY <1>2, <2>1, BookIs, BecomesBalanced
<1>4. CASE quantity # 0
  <2>1. /\ GoodBook(b)
        /\ ~ turned.valid => b.fill = Na
        /\ turned.valid => \A i \in DOMAIN b.lots : b.lots[i].side = side
    <3> DEFINE r == turned
    <3>1. r = Reversed(Book, side)
      OBVIOUS
    <3> HIDE DEF r
    <3>2. /\ GoodBook(r.book)
          /\ ~ r.valid => r.book.fill = Na
          /\ r.valid => \A i \in DOMAIN r.book.lots : r.book.lots[i].side = side
      BY <1>2, <3>1, ReversedGood
    <3> QED
      BY <3>2 DEF r
  <2>2. CASE ~ turned.valid
    <3>1. Becomes(b, Na)
      BY <1>1, <1>4, <2>2
    <3> HIDE DEF b
    <3> QED
      BY <2>1, <2>2, <3>1, BecomesBalanced
  <2>3. CASE turned.valid
    <3> DEFINE c == Booked(b, f)
    <3>1. Becomes(c, Na)
      BY <1>1, <1>4, <2>3
    <3>2. /\ GoodBook(c)
          /\ MarginLong = 100 /\ c.fill # Na /\ c.fill.side = "buy" => c.ledger.cash >= 0
      <4>1. GoodBook(b) /\ \A i \in DOMAIN b.lots : b.lots[i].side = side
        BY <2>1, <2>3
      <4>2. f = ExecuteAtClose("entry", side, quantity, b.ids.trade, lotBar[4], b)
        OBVIOUS
      <4>3. c = Booked(b, f)
        OBVIOUS
      <4> HIDE DEF b, f, c
      <4>4. /\ GoodBook(c) /\ c.fill = f
            /\ MarginLong = 100 /\ f # Na /\ f.side = "buy" => c.ledger.cash >= 0
        BY <1>2, <4>1, <4>2, <4>3, EntersGood
      <4> QED
        BY <4>4
    <3> HIDE DEF c
    <3> QED
      BY <3>1, <3>2, BecomesBalanced
  <2> QED
    BY <2>2, <2>3
<1> QED
  BY <1>3, <1>4

(* The lot a strategy names is the only one with that id. *)
LEMMA LotNamed ==
  ASSUME Balanced, NEW tradeId, LotsOf(tradeId) # {}
  PROVE  Max(LotsOf(tradeId)) \in DOMAIN openTrades
<1>1. /\ openTrades \in Seq(Lot) /\ GoodLots(openTrades, ids.trade)
  BY BookIs DEF Balanced, GoodBook, Books
<1>2. PICK i \in DOMAIN openTrades : openTrades[i].id = tradeId
  BY DEF LotsOf
<1>3. LotsOf(tradeId) = {i}
  BY <1>1, <1>2 DEF LotsOf, GoodLots
<1>4. i \in Int
  BY <1>1, LenProperties
<1>5. Max({i}) = i
  BY <1>4 DEF Max
<1> QED
  BY <1>3, <1>5

LEMMA CloseTradeBalanced ==
  ASSUME LotsAssumption, Balanced, NEW tradeId, CloseTrade(tradeId)
  PROVE  Balanced'
<1>1. GoodBook(Book) /\ lotBar[4] \in Int
  BY BarIs DEF Balanced
<1>2. CASE LotsOf(tradeId) = {}
  <2>1. Becomes(Book, Na)
    BY <1>2 DEF CloseTrade
  <2> QED
    BY <1>1, <2>1, BookIs, BecomesBalanced
<1>3. CASE LotsOf(tradeId) # {}
  <2> DEFINE i == Max(LotsOf(tradeId))
             after == CloseLot(Book, i, lotBar[4])
  <2>1. Becomes(after, Na)
    BY <1>3 DEF CloseTrade
  <2>2. i \in DOMAIN Book.lots
    BY <1>3, LotNamed, BookIs
  <2> HIDE DEF i
  <2>3. after = CloseLot(Book, i, lotBar[4])
    OBVIOUS
  <2> HIDE DEF after
  <2>4. GoodBook(after) /\ (after.fill # Na => after.fill.kind = "close")
    BY <1>1, <2>2, <2>3, ClosesGood
  <2> QED
    BY <2>1, <2>4, BecomesBalanced
<1> QED
  BY <1>2, <1>3

(* A stop fills at the stop, or at the open when the bar opens beyond it.  *)
LEMMA StopReferenceIs ==
  ASSUME LotsAssumption, lotBar \in LotBars, NEW side \in LotSides, NEW stop \in Stops, Touched(side, stop)
  PROVE  /\ StopReference(side, stop) \in Int
         /\ StopReference(side, stop) \in lotBar[3] .. lotBar[2]
         /\ Sign(side) * (StopReference(side, stop) - stop) >= 0
<1>1. stop \in Int
  BY Constants
<1>2. CASE side = "buy"
  BY <1>1, <1>2, BarIs DEF StopReference, Touched, Sign
<1>3. CASE side = "sell"
  BY <1>1, <1>3, BarIs DEF StopReference, Touched, Sign
<1> QED
  BY <1>2, <1>3 DEF LotSides

LEMMA CloseTradeAtStopBalanced ==
  ASSUME LotsAssumption, Balanced, NEW tradeId, NEW entrySide \in LotSides, NEW stop \in Stops,
         CloseTradeAtStop(tradeId, entrySide, stop)
  PROVE  Balanced'
<1> DEFINE side == ClosingSide(entrySide)
           i == Max(LotsOf(tradeId))
           after == CloseLot(Book, i, StopReference(side, stop))
<1>1. GoodBook(Book) /\ lotBar \in LotBars /\ side \in LotSides
  BY DEF Balanced, ClosingSide, LotSides
<1>2. CASE ~ Touched(side, stop)
  <2>1. outcome' = "missed" /\ lotFill' = Na /\ UNCHANGED <<lotBar, openTrades, ledger, ids>>
    BY <1>2 DEF CloseTradeAtStop
  <2> QED
    BY <2>1 DEF Balanced, Book, StopFillsInBar
<1>3. CASE Touched(side, stop) /\ Becomes(Book, stop)
  BY <1>1, <1>3, BookIs, BecomesBalanced
<1>4. CASE /\ Touched(side, stop) /\ LotsOf(tradeId) # {} /\ openTrades[i].side = entrySide
           /\ Becomes(after, stop)
  <2> DEFINE reference == StopReference(side, stop)
  <2>1. /\ reference \in Int /\ reference \in lotBar[3] .. lotBar[2] /\ Sign(side) * (reference - stop) >= 0
    BY <1>1, <1>4, StopReferenceIs
  <2>2. i \in DOMAIN Book.lots /\ ClosingSide(Book.lots[i].side) = side
    BY <1>4, LotNamed, BookIs
  <2>3. after = CloseLot(Book, i, reference)
    OBVIOUS
  <2>4. Becomes(after, stop)
    BY <1>4
  <2> HIDE DEF i, reference, after, side
  <2>5. /\ GoodBook(after)
        /\ after.fill # Na => /\ after.fill.kind = "close" /\ after.fill.side = side
                                /\ after.fill.reference = reference
    BY <1>1, <2>1, <2>2, <2>3, ClosesGood
  <2> QED
    BY <2>1, <2>4, <2>5, BecomesBalanced
<1> QED
  BY <1>2, <1>3, <1>4 DEF CloseTradeAtStop

LEMMA MarkBalanced ==
  ASSUME LotsAssumption, Balanced, Mark
  PROVE  Balanced'
<1> DEFINE value == ledger.cash + PositionQuantity(openTrades) * lotBar[4]
           peak == Larger(ledger.peak, value)
<1>1. /\ Book \in Books /\ openTrades \in Seq(Lot) /\ ledger \in Ledgers
      /\ GoodLots(openTrades, ids.trade) /\ GoodLedger(openTrades, ledger, ids.fill)
  BY BookIs DEF Balanced, GoodBook, Books
<1>2. value \in Int /\ peak \in Int
  <2>1. ledger.cash \in Int /\ ledger.peak \in Int
    BY <1>1 DEF Ledgers
  <2>2. PositionQuantity(openTrades) \in Int /\ lotBar[4] \in Int
    BY <1>1, Costs, BarIs DEF Balanced
  <2>3. value \in Int
    BY <2>1, <2>2
  <2> HIDE DEF value
  <2> QED
    BY <2>1, <2>3 DEF Larger
<1>3. /\ ledger' = [ledger EXCEPT !.equity = value, !.peak = peak]
      /\ UNCHANGED <<lotBar, openTrades, ids, lotFill, outcome>>
  BY DEF Mark
<1> HIDE DEF value, peak
<1>4. /\ ledger' \in Ledgers
      /\ ledger'.cash = ledger.cash /\ ledger'.realized = ledger.realized
      /\ ledger'.fees = ledger.fees /\ ledger'.fills = ledger.fills
      /\ ledger'.roundTrips = ledger.roundTrips /\ ledger'.wins = ledger.wins
      /\ ledger'.losses = ledger.losses /\ ledger'.grossProfit = ledger.grossProfit
      /\ ledger'.grossLoss = ledger.grossLoss
  BY <1>1, <1>2, <1>3 DEF Ledgers
<1>5. Book' \in Books
  <2>1. ids \in [trade : Nat \ {0}, fill : Nat \ {0}]
    BY <1>1, BookIs DEF Books
  <2>2. Book' = [lots |-> openTrades, ledger |-> ledger', ids |-> ids, fill |-> Na]
    BY <1>3 DEF Book
  <2> QED
    BY <1>1, <1>4, <2>1, <2>2 DEF Books
<1>6. GoodLedger(openTrades, ledger', ids.fill)
  BY <1>1, <1>4 DEF GoodLedger, LongOwes
<1>7. GoodBook(Book')
  <2>1. Book'.lots = openTrades /\ Book'.ledger = ledger' /\ Book'.ids = ids
    BY <1>3 DEF Book
  <2> QED
    BY <1>1, <1>5, <1>6, <2>1 DEF GoodBook
<1>8. GoodBook(Book)'
  BY <1>7
<1> QED
  BY <1>3, <1>4, <1>8 DEF Balanced, StopFillsInBar

(* Every fill the broker published is in the accounting, whatever the lots,
   the bars, the margins and the stops are, and however many commands come
   (bounded lots: trade.tea, portfolio.tea's apply_lot()).                 *)
THEOREM FillsApplied ==
  ASSUME LotsAssumption
  PROVE  LotsSpec => []EveryFillApplied
<1>1. LotsInit => Balanced
  BY InitBalanced
<1>2. Balanced /\ [LotsNext]_lotsVars => Balanced'
  <2> SUFFICES ASSUME Balanced, [LotsNext]_lotsVars PROVE Balanced'
    OBVIOUS
  <2>1. ASSUME NEW b \in LotBars, BeginLotBar(b) PROVE Balanced'
    BY <2>1 DEF BeginLotBar, Balanced, Book, StopFillsInBar
  <2>2. ASSUME NEW side \in LotSides, NEW quantity \in Quantities, EnterLot(side, quantity)
        PROVE  Balanced'
    BY <2>2, EntryBalanced
  <2>3. ASSUME NEW tradeId \in 1 .. ids.trade, CloseTrade(tradeId) PROVE Balanced'
    BY <2>3, CloseTradeBalanced
  <2>4. ASSUME NEW tradeId \in 1 .. ids.trade, NEW side \in LotSides, NEW stop \in Stops,
               CloseTradeAtStop(tradeId, side, stop)
        PROVE  Balanced'
    BY <2>4, CloseTradeAtStopBalanced
  <2>5. CASE Mark
    BY <2>5, MarkBalanced
  <2>6. CASE UNCHANGED lotsVars
    BY <2>6 DEF lotsVars, Balanced, Book, StopFillsInBar
  <2> QED
    BY <2>1, <2>2, <2>3, <2>4, <2>5, <2>6 DEF LotsNext
<1>3. Balanced => EveryFillApplied
  BY BalancedIsApplied
<1> QED
  BY <1>1, <1>2, <1>3, PTL DEF LotsSpec
=============================================================================
