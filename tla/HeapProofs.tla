----------------------------- MODULE HeapProofs -----------------------------
(***************************************************************************)
(* Proofs about Heap.tla, for every number of slots, versions and          *)
(* transactions and every limit.                                           *)
(***************************************************************************)
EXTENDS Heap, WellFoundedInduction, FiniteSetTheorems, TLAPS

(***************************************************************************)
(* The inductive invariant.  Referential integrity is not inductive alone: *)
(* an allocation must not disturb a Ref that resolves, which needs the     *)
(* taken slot to be empty (FreeStackExact and Grown); an abort must not    *)
(* take away what committed storage or a later write needs, which needs    *)
(* the transaction to own exactly the tentative cells (TentativeOwned) and *)
(* its pending writes to be on committed cells only (Pending).             *)
(***************************************************************************)
Grown ==
  \A s \in Slots : cells[s] # NoCell => s <= length /\ cells[s].version = versions[s]

Pending ==
  \A s \in Slots : tx.writes[s] # NoWrite => Active /\ s \in Committed

IInv ==
  /\ TypeOK
  /\ Grown
  /\ FreeStackExact
  /\ TentativeOwned
  /\ Pending
  /\ ReferentialIntegrity

LEMMA PayloadFields ==
  ASSUME NEW p \in Payload
  PROVE  p.bytes \in Nat /\ p.bytes \in Int /\ p.refs \subseteq Ref
<1>1. Bytes \subseteq Nat
  BY HeapAssumption
<1>2. p.bytes \in Bytes /\ p.refs \subseteq Ref
  BY DEF Payload
<1>3. p.bytes \in Nat
  BY <1>1, <1>2
<1> QED
  BY <1>2, <1>3

(* The bytes a write gives back are those of a cell or of a pending write. *)
LEMMA ReplacedType ==
  ASSUME TypeOK, NEW s \in Slots, cells[s] # NoCell
  PROVE  Replaced(s) \in Int
<1>1. cells[s] \in Cell
  BY DEF TypeOK
<1>2. cells[s].bytes \in Int
  <2>1. Bytes \subseteq Nat
    BY HeapAssumption
  <2>2. cells[s].bytes \in Bytes
    BY <1>1 DEF Cell
  <2>3. cells[s].bytes \in Nat
    BY <2>1, <2>2
  <2> QED
    BY <2>3
<1>3. tx.writes[s] # NoWrite => tx.writes[s].bytes \in Int
  <2>1. tx.writes[s] # NoWrite => tx.writes[s] \in Payload
    BY DEF TypeOK, TransactionImpl
  <2> QED
    BY <2>1, PayloadFields
<1> QED
  BY <1>2, <1>3 DEF Replaced

(* Charging bytes to the transaction, with or without a new tentative slot *)
(* or a pending write, keeps its type.                                     *)
LEMMA ChargedCell ==
  ASSUME TypeOK, NEW b \in Int, NEW T \in SUBSET Slots
  PROVE  [tx EXCEPT !.tentative = T, !.transientBytes = b] \in TransactionImpl
BY DEF TypeOK, TransactionImpl

LEMMA ChargedBytes ==
  ASSUME TypeOK, NEW b \in Int
  PROVE  [tx EXCEPT !.transientBytes = b] \in TransactionImpl
BY DEF TypeOK, TransactionImpl

LEMMA ChargedWrite ==
  ASSUME TypeOK, NEW b \in Int, NEW W \in [Slots -> Payload \cup {NoWrite}]
  PROVE  [tx EXCEPT !.transientBytes = b, !.writes = W] \in TransactionImpl
BY DEF TypeOK, TransactionImpl

LEMMA WithPayloadType ==
  ASSUME NEW c \in Cell, NEW p \in Payload
  PROVE  /\ WithPayload(c, p) \in Cell
         /\ WithPayload(c, p).version = c.version
         /\ WithPayload(c, p).state = c.state
         /\ WithPayload(c, p).transactionId = c.transactionId
         /\ WithPayload(c, p).payload = p
BY DEF WithPayload, Cell, Payload

LEMMA TransactionType ==
  ASSUME NEW id \in 0..MaxTx, NEW st \in {"none", "active", "committed", "aborted"}
  PROVE  /\ Transaction(id, st) \in
              TransactionImpl
         /\ Transaction(id, st).state = st
         /\ Transaction(id, st).id = id
         /\ Transaction(id, st).tentative = {}
         /\ \A s \in Slots : Transaction(id, st).writes[s] = NoWrite
BY DEF Transaction, TransactionImpl, NoWrites

LEMMA FreedType ==
  ASSUME TypeOK, NEW S \in SUBSET Slots
  PROVE  /\ Freed(S) \in [Slots -> Nat]
         /\ Deallocated(S) \in [Slots -> Cell \cup {NoCell}]
BY DEF Freed, Deallocated, TypeOK

LEMMA InstalledType ==
  ASSUME TypeOK, NEW s \in Slots, cells[s] # NoCell
  PROVE  /\ Installed(s) \in Cell
         /\ Installed(s).version = cells[s].version
         /\ Installed(s).state = IF tx.writes[s] = NoWrite /\ s \in tx.tentative
                                 THEN "committed" ELSE cells[s].state
         /\ Installed(s).payload = IF tx.writes[s] = NoWrite THEN cells[s].payload
                                   ELSE tx.writes[s]
<1>1. cells[s] \in Cell
  BY DEF TypeOK
<1>2. CASE tx.writes[s] # NoWrite
  <2>1. tx.writes[s] \in Payload
    BY <1>2 DEF TypeOK, TransactionImpl
  <2> QED
    BY <1>1, <1>2, <2>1, WithPayloadType DEF Installed
<1>3. CASE tx.writes[s] = NoWrite
  <2>1. CASE s \in tx.tentative
    <3>1. Installed(s) = [cells[s] EXCEPT !.state = "committed", !.transactionId = 0]
      BY <1>3, <2>1 DEF Installed
    <3>2. 0 \in 0..MaxTx
      BY HeapAssumption
    <3> QED
      BY <1>1, <1>3, <2>1, <3>1, <3>2 DEF Cell
  <2>2. CASE s \notin tx.tentative
    BY <1>1, <1>3, <2>2 DEF Installed
  <2> QED
    BY <2>1, <2>2
<1> QED
  BY <1>2, <1>3

LEMMA InitEstablishes == Init => IInv
<1> SUFFICES ASSUME Init PROVE IInv
  OBVIOUS
<1> USE HeapAssumption
<1>1. Transaction(0, "none") \in TransactionImpl
  BY TransactionType
<1>2. TypeOK
  <2>1. /\ cells \in [Slots -> Cell \cup {NoCell}]
        /\ versions \in [Slots -> 0..MaxVersion]
        /\ free \in [Slots -> Nat]
    BY DEF Init
  <2>2. length \in 0..MaxSlots /\ nextTransactionId \in 1..(MaxTx + 1)
    BY DEF Init
  <2> QED
    BY <1>1, <2>1, <2>2 DEF Init, TypeOK
<1>3. Grown /\ FreeStackExact
  BY DEF Init, Grown, FreeStackExact, Slots
<1>4. LiveSlots = {}
  BY DEF Init, LiveSlots
<1>5. tx.tentative = {} /\ \A s \in Slots : tx.writes[s] = NoWrite
  BY TransactionType DEF Init
<1>6. TentativeOwned /\ Pending
  BY <1>4, <1>5 DEF TentativeOwned, Pending, Tentative
<1>7. ReferentialIntegrity
  BY <1>4, <1>5 DEF ReferentialIntegrity, Init
<1> QED
  BY <1>2, <1>3, <1>6, <1>7 DEF IInv

LEMMA BeginPreserves ==
  ASSUME IInv, Begin
  PROVE  IInv'
<1> USE HeapAssumption DEF IInv
<1>1. nextTransactionId \in 0..MaxTx
  BY DEF Begin, TypeOK
<1>2. /\ tx' \in TransactionImpl
      /\ tx'.id = nextTransactionId
      /\ tx'.state = "active"
      /\ tx'.tentative = {}
      /\ \A s \in Slots : tx'.writes[s] = NoWrite
  BY <1>1, TransactionType DEF Begin
<1>3. UNCHANGED <<cells, versions, length, free, roots>>
  BY DEF Begin, arena
<1>4. TypeOK'
  BY <1>2, <1>3 DEF Begin, TypeOK
<1>5. Grown' /\ FreeStackExact'
  BY <1>3 DEF Grown, FreeStackExact
<1>6. Tentative = {}
  BY DEF Begin, AssertNoActiveTransaction, TentativeOwned
<1>7. LiveSlots' = LiveSlots /\ Tentative' = Tentative /\ Committed' = Committed
  BY <1>3 DEF LiveSlots, Tentative, Committed
<1>8. TentativeOwned' /\ Pending'
  BY <1>2, <1>6, <1>7 DEF TentativeOwned, Pending
<1>9. ReferentialIntegrity'
  BY <1>2, <1>3, <1>7 DEF ReferentialIntegrity, Live, CellOf
<1> QED
  BY <1>4, <1>5, <1>8, <1>9

(* The slot an allocation takes is empty, and no other slot is skipped. *)
LEMMA TakenSlotIsEmpty ==
  ASSUME IInv, NEW s \in Slots, TakesSlot(s)
  PROVE  /\ cells[s] = NoCell
         /\ free[s] > 0 => free[s] = 1 /\ s <= length
         /\ ~(free[s] > 0) => s = length + 1
BY HeapAssumption DEF IInv, TakesSlot, FreeStackExact, Grown, Slots, TypeOK

LEMMA AllocatePreserves ==
  ASSUME IInv, NEW h \in Handles, NEW s \in Slots, NEW p \in Storable, Allocate(h, s, p)
  PROVE  IInv'
<1> USE HeapAssumption DEF IInv
<1> DEFINE new == [version |-> NextVersion(s), payload |-> p, bytes |-> p.bytes,
                   state |-> "tentative", transactionId |-> tx.id]
<1>1. p \in Payload /\ p.bytes \in Int /\ p.refs \subseteq Ref
  <2>1. p \in Payload
    BY DEF Storable, Payload
  <2> QED
    BY <2>1, PayloadFields
<1>2. new \in Cell
  BY <1>1 DEF Allocate, Take, NextVersion, TypeOK, Cell, Payload, TransactionImpl
<1>3. /\ cells' \in [Slots -> Cell \cup {NoCell}]
      /\ cells'[s] = new
      /\ \A t \in Slots \ {s} : cells'[t] = cells[t]
  BY <1>2 DEF Allocate, TypeOK
<1> HIDE DEF new
<1>4. /\ new # NoCell /\ new.state = "tentative" /\ new.transactionId = tx.id
      /\ new.version = versions[s] + 1 /\ new.payload = p
  <2>1. new # NoCell
    BY <1>2
  <2> QED
    BY <2>1 DEF new, NextVersion
<1>5. cells[s] = NoCell
  BY TakenSlotIsEmpty DEF Allocate, Take
<1>6. versions' \in [Slots -> 0..MaxVersion] /\ length' \in 0..MaxSlots
  BY DEF Allocate, Take, NextVersion, TypeOK, Slots
<1>7. free' \in [Slots -> Nat]
  BY DEF Allocate, TypeOK
<1>8. tx' \in TransactionImpl
  <2>1. tx.transientBytes + p.bytes \in Int /\ tx.tentative \cup {s} \in SUBSET Slots
    BY <1>1 DEF TypeOK, TransactionImpl
  <2>2. tx' = [tx EXCEPT !.tentative = tx.tentative \cup {s},
                         !.transientBytes = tx.transientBytes + p.bytes]
    BY DEF Allocate
  <2> QED
    BY <2>1, <2>2, ChargedCell
<1>9. TypeOK'
  BY <1>3, <1>6, <1>7, <1>8 DEF Allocate, TypeOK
<1>10. Grown'
  <2>1. /\ length' = (IF s > length THEN s ELSE length)
        /\ versions' = [versions EXCEPT ![s] = versions[s] + 1]
    BY DEF Allocate, Take, NextVersion
  <2>2. s \in Nat /\ length \in Nat /\ versions \in [Slots -> Nat]
    BY DEF TypeOK, Slots
  <2>3. s <= length' /\ cells'[s].version = versions'[s]
    BY <2>1, <2>2, <1>3, <1>4
  <2>4. ASSUME NEW t \in Slots \ {s}, cells'[t] # NoCell
        PROVE  t <= length' /\ cells'[t].version = versions'[t]
    <3>1. cells'[t] = cells[t] /\ versions'[t] = versions[t] /\ t \in Nat
      BY <2>1, <2>2, <1>3 DEF Slots
    <3>2. t <= length /\ cells[t].version = versions[t]
      BY <3>1, <2>4 DEF Grown
    <3> QED
      BY <3>1, <3>2, <2>1, <2>2
  <2> QED
    BY <2>3, <2>4 DEF Grown
<1>11. FreeStackExact'
  <2>1. free' = [free EXCEPT ![s] = IF free[s] > 0 THEN free[s] - 1 ELSE 0]
    BY DEF Allocate
  <2>2. length' = IF s > length THEN s ELSE length
    BY DEF Allocate, Take
  <2>3. free[s] > 0 => free[s] = 1 /\ s <= length
    BY TakenSlotIsEmpty DEF Allocate, Take
  <2>4. ~(free[s] > 0) => s = length + 1
    BY TakenSlotIsEmpty DEF Allocate, Take
  <2>5. free'[s] = 0
    BY <2>1, <2>3 DEF TypeOK
  <2>6. ASSUME NEW t \in Slots \ {s}
        PROVE  free'[t] = IF t <= length' /\ cells'[t] = NoCell THEN 1 ELSE 0
    <3>1. t <= length' <=> t <= length
      BY <2>2, <2>3, <2>4 DEF TypeOK, Slots
    <3> QED
      BY <2>1, <3>1, <1>3 DEF FreeStackExact, TypeOK
  <2> QED
    BY <2>5, <2>6, <1>3, <1>4 DEF FreeStackExact
<1>12. /\ LiveSlots' = LiveSlots \cup {s}
       /\ Tentative' = Tentative \cup {s}
       /\ Committed' = Committed
  BY <1>3, <1>4, <1>5 DEF LiveSlots, Tentative, Committed
<1>13. /\ tx'.id = tx.id /\ tx'.state = tx.state /\ tx'.writes = tx.writes
       /\ tx'.tentative = tx.tentative \cup {s}
  BY DEF Allocate, TypeOK, TransactionImpl
<1>14. TentativeOwned'
  <2>1. tx'.tentative = Tentative'
    BY <1>12, <1>13 DEF TentativeOwned
  <2>2. Active'
    BY <1>13 DEF Allocate, AssertCurrent, Current, Active
  <2>3. \A t \in Tentative' : cells'[t].transactionId = tx'.id
    BY <1>3, <1>4, <1>12, <1>13 DEF TentativeOwned, Tentative, LiveSlots
  <2> QED
    BY <2>1, <2>2, <2>3 DEF TentativeOwned
<1>15. Pending'
  BY <1>12, <1>13 DEF Pending, Active
<1>16. ASSUME NEW ref \in Ref, Live(ref)
       PROVE  Live(ref)' /\ CellOf(ref)' = CellOf(ref)
  BY <1>3, <1>5, <1>16 DEF Live, CellOf, Ref
<1>17. \A ref \in p.refs : ref \in Ref /\ Live(ref)
  BY <1>1 DEF Allocate, MayPointTo, Resolves, Payload
<1>18. ReferentialIntegrity'
  <2>1. \A ref \in roots' : Live(ref)' /\ CellOf(ref)'.state = "committed"
    BY <1>16 DEF ReferentialIntegrity, Allocate, TypeOK
  <2>2. ASSUME NEW t \in LiveSlots', NEW ref \in cells'[t].payload.refs
        PROVE  Live(ref)' /\ (cells'[t].state = "committed" => CellOf(ref)'.state = "committed")
    <3>1. CASE t = s
      BY <3>1, <1>3, <1>4, <1>16, <1>17
    <3>2. CASE t # s
      <4>1. t \in LiveSlots /\ cells'[t] = cells[t] /\ cells[t] \in Cell
        BY <3>2, <1>3, <1>12 DEF LiveSlots, TypeOK
      <4>2. ref \in Ref
        BY <4>1 DEF Cell, Payload
      <4>3. Live(ref) /\ (cells[t].state = "committed" => CellOf(ref).state = "committed")
        BY <4>1 DEF ReferentialIntegrity
      <4> QED
        BY <4>1, <4>2, <4>3, <1>16
    <3> QED
      BY <3>1, <3>2
  <2>3. ASSUME NEW t \in Slots, tx'.writes[t] # NoWrite, NEW ref \in tx'.writes[t].refs
        PROVE  Live(ref)'
    <3>1. tx.writes[t] \in Payload
      BY <2>3, <1>13 DEF TypeOK, TransactionImpl
    <3>2. ref \in Ref /\ Live(ref)
      BY <2>3, <1>13, <3>1 DEF ReferentialIntegrity, Payload
    <3> QED
      BY <3>2, <1>16
  <2> QED
    BY <2>1, <2>2, <2>3 DEF ReferentialIntegrity
<1> QED
  BY <1>9, <1>10, <1>11, <1>14, <1>15, <1>18

LEMMA AllocateRefusedPreserves ==
  ASSUME IInv, NEW h \in Handles, NEW s \in Slots, NEW p \in Storable, AllocateRefused(h, s, p)
  PROVE  IInv'
<1> USE HeapAssumption DEF IInv
<1>1. UNCHANGED <<cells, roots, rootsFresh, tx, nextTransactionId, disposed>>
  BY DEF AllocateRefused, txVars
<1>2. /\ free' = [free EXCEPT ![s] = IF free[s] > 0 THEN free[s] ELSE 1]
      /\ length' = (IF s > length THEN s ELSE length)
      /\ versions' = [versions EXCEPT ![s] = versions[s] + 1]
      /\ versions[s] + 1 <= MaxVersion
  BY DEF AllocateRefused, Take, NextVersion
<1>3. /\ cells[s] = NoCell
      /\ free[s] > 0 => free[s] = 1 /\ s <= length
      /\ ~(free[s] > 0) => s = length + 1
  BY TakenSlotIsEmpty DEF AllocateRefused, Take
<1>4. /\ versions' \in [Slots -> 0..MaxVersion] /\ length' \in 0..MaxSlots
      /\ free' \in [Slots -> Nat]
  <2>1. /\ s \in 1..MaxSlots /\ length \in 0..MaxSlots
        /\ versions \in [Slots -> 0..MaxVersion] /\ free \in [Slots -> Nat]
    BY DEF TypeOK, Slots
  <2>2. versions[s] + 1 \in 0..MaxVersion
    BY <2>1, <1>2
  <2>3. length' \in 0..MaxSlots
    BY <2>1, <1>2
  <2>4. (IF free[s] > 0 THEN free[s] ELSE 1) \in Nat
    BY <2>1
  <2> QED
    BY <2>1, <2>2, <2>3, <2>4, <1>2
<1>5. TypeOK'
  BY <1>1, <1>4 DEF TypeOK
<1>6. Grown'
  <2>1. s \in Nat /\ length \in Nat /\ versions \in [Slots -> Nat]
    BY DEF TypeOK, Slots
  <2>2. ASSUME NEW t \in Slots, cells'[t] # NoCell
        PROVE  t <= length' /\ cells'[t].version = versions'[t]
    <3>1. t # s /\ cells[t] # NoCell /\ t \in Nat
      BY <2>2, <1>1, <1>3 DEF Slots
    <3>2. t <= length /\ cells[t].version = versions[t]
      BY <3>1 DEF Grown
    <3>3. versions'[t] = versions[t] /\ cells'[t] = cells[t]
      BY <3>1, <2>1, <1>1, <1>2
    <3> QED
      BY <3>2, <3>3, <3>1, <2>1, <1>2
  <2> QED
    BY <2>2 DEF Grown
<1>7. FreeStackExact'
  <2>1. free'[s] = 1 /\ s <= length'
    BY <1>2, <1>3 DEF TypeOK, Slots
  <2>2. ASSUME NEW t \in Slots \ {s}
        PROVE  free'[t] = IF t <= length' /\ cells'[t] = NoCell THEN 1 ELSE 0
    <3>1. /\ t \in Nat /\ s \in Nat /\ length \in Nat /\ t # s
          /\ free \in [Slots -> Nat]
      BY DEF TypeOK, Slots
    <3>2. t <= length' <=> t <= length
      BY <3>1, <1>2, <1>3
    <3>3. free'[t] = free[t]
      BY <3>1, <1>2
    <3>4. free[t] = IF t <= length /\ cells[t] = NoCell THEN 1 ELSE 0
      BY DEF FreeStackExact
    <3> QED
      BY <1>1, <3>2, <3>3, <3>4
  <2> QED
    BY <1>1, <1>3, <2>1, <2>2 DEF FreeStackExact
<1>8. TentativeOwned' /\ Pending'
  BY <1>1 DEF TentativeOwned, Pending, Tentative, Committed, LiveSlots, Active
<1>9. ReferentialIntegrity'
  BY <1>1 DEF ReferentialIntegrity, LiveSlots, Live, CellOf
<1> QED
  BY <1>5, <1>6, <1>7, <1>8, <1>9

LEMMA WritePreserves ==
  ASSUME IInv, NEW h \in Handles, NEW ref \in Issued, NEW p \in Storable, Write(h, ref, p)
  PROVE  IInv'
<1> USE HeapAssumption DEF IInv
<1> DEFINE s == ref[1]
<1>1. p \in Payload /\ p.bytes \in Int /\ p.refs \subseteq Ref
  <2>1. p \in Payload
    BY DEF Storable, Payload
  <2> QED
    BY <2>1, PayloadFields
<1>2. s \in Slots /\ ref \in Ref
  BY DEF Issued, Ref
<1>3. cells[s] # NoCell /\ cells[s] \in Cell
  BY <1>2 DEF Write, MayAccess, Resolves, Live, TypeOK
<1>4. UNCHANGED <<versions, length, free, roots, rootsFresh, nextTransactionId, disposed>>
  BY DEF Write
<1>5. Active
  BY DEF Write, AssertCurrent, Current, Active
<1>6. \A child \in p.refs : Live(child)
  BY DEF Write, MayPointTo, Resolves
<1>7. CASE cells[s].state = "tentative"
  <2>1. cells' = [cells EXCEPT ![s] = WithPayload(cells[s], p)]
    BY <1>7 DEF Write
  <2> DEFINE new == WithPayload(cells[s], p)
  <2>2. /\ new \in Cell /\ new.version = cells[s].version /\ new.state = "tentative"
        /\ new.transactionId = cells[s].transactionId /\ new.payload = p
    BY <1>1, <1>3, <1>7, WithPayloadType
  <2> HIDE DEF new
  <2>3. new # NoCell
    BY <2>2
  <2>4. cells'[s] = new /\ \A t \in Slots \ {s} : cells'[t] = cells[t]
    BY <2>1, <1>2 DEF TypeOK, new
  <2>5. tx' = [tx EXCEPT !.transientBytes = tx.transientBytes - Replaced(s) + p.bytes]
    BY <1>7 DEF Write
  <2>6. tx.transientBytes - Replaced(s) + p.bytes \in Int
    BY <1>1, <1>2, <1>3, ReplacedType DEF TypeOK, TransactionImpl
  <2>7. tx' \in TransactionImpl
    BY <2>5, <2>6, ChargedBytes
  <2>8. tx'.id = tx.id /\ tx'.state = tx.state /\ tx'.writes = tx.writes /\ tx'.tentative = tx.tentative
    BY <2>5 DEF TypeOK, TransactionImpl
  <2>9. TypeOK'
    <3>1. cells' \in [Slots -> Cell \cup {NoCell}]
      BY <2>1, <2>2, <1>2 DEF TypeOK, new
    <3> QED
      BY <3>1, <2>7, <1>4 DEF TypeOK
  <2>10. Grown' /\ FreeStackExact'
    BY <2>2, <2>3, <2>4, <1>3, <1>4 DEF Grown, FreeStackExact
  <2>11. LiveSlots' = LiveSlots /\ Tentative' = Tentative /\ Committed' = Committed
    BY <2>2, <2>3, <2>4, <1>3, <1>7 DEF LiveSlots, Tentative, Committed
  <2>12. TentativeOwned' /\ Pending'
    <3>1. \A t \in Tentative' : cells'[t].transactionId = tx'.id
      BY <2>2, <2>4, <2>8, <2>11, <1>3, <1>7 DEF TentativeOwned, Tentative, LiveSlots
    <3> QED
      BY <3>1, <2>8, <2>11 DEF TentativeOwned, Pending, Active
  <2>13. ASSUME NEW r \in Ref
         PROVE  (Live(r) => Live(r)') /\ (Live(r) => CellOf(r)'.state = CellOf(r).state)
    BY <2>2, <2>3, <2>4, <1>3, <1>7 DEF Live, CellOf, Ref
  <2>14. ReferentialIntegrity'
    <3>1. \A r \in roots' : Live(r)' /\ CellOf(r)'.state = "committed"
      BY <2>13, <1>4 DEF ReferentialIntegrity, TypeOK
    <3>2. ASSUME NEW t \in LiveSlots', NEW r \in cells'[t].payload.refs
          PROVE  Live(r)' /\ (cells'[t].state = "committed" => CellOf(r)'.state = "committed")
      <4>1. CASE t = s
        BY <4>1, <3>2, <2>2, <2>4, <2>13, <1>1, <1>6
      <4>2. CASE t # s
        <5>1. t \in LiveSlots /\ cells'[t] = cells[t] /\ cells[t] \in Cell
          BY <4>2, <2>4, <2>11 DEF LiveSlots, TypeOK
        <5>2. r \in Ref
          BY <5>1, <3>2 DEF Cell, Payload
        <5> QED
          BY <5>1, <5>2, <3>2, <2>13 DEF ReferentialIntegrity
      <4> QED
        BY <4>1, <4>2
    <3>3. ASSUME NEW t \in Slots, tx'.writes[t] # NoWrite, NEW r \in tx'.writes[t].refs
          PROVE  Live(r)'
      <4>1. tx.writes[t] \in Payload
        BY <3>3, <2>8 DEF TypeOK, TransactionImpl
      <4> QED
        BY <4>1, <3>3, <2>8, <2>13 DEF ReferentialIntegrity, Payload
    <3> QED
      BY <3>1, <3>2, <3>3 DEF ReferentialIntegrity
  <2> QED
    BY <2>9, <2>10, <2>12, <2>14
<1>8. CASE cells[s].state = "committed"
  <2>1. tx' = [tx EXCEPT !.transientBytes = tx.transientBytes - Replaced(s) + p.bytes,
                         !.writes[s] = p]
    BY <1>8 DEF Write
  <2>2. cells' = cells
    BY <1>8 DEF Write
  <2>3. tx.transientBytes - Replaced(s) + p.bytes \in Int
    BY <1>1, <1>2, <1>3, ReplacedType DEF TypeOK, TransactionImpl
  <2>4. tx' \in TransactionImpl
    <3>1. [tx.writes EXCEPT ![s] = p] \in [Slots -> Payload \cup {NoWrite}]
      BY <1>1 DEF TypeOK, TransactionImpl
    <3>2. tx' = [tx EXCEPT !.transientBytes = tx.transientBytes - Replaced(s) + p.bytes,
                           !.writes = [tx.writes EXCEPT ![s] = p]]
      BY <2>1 DEF TypeOK, TransactionImpl
    <3> QED
      BY <2>3, <3>1, <3>2, ChargedWrite
  <2>5. /\ tx'.id = tx.id /\ tx'.state = tx.state /\ tx'.tentative = tx.tentative
        /\ tx'.writes[s] = p /\ \A t \in Slots \ {s} : tx'.writes[t] = tx.writes[t]
    BY <2>1, <1>2 DEF TypeOK, TransactionImpl
  <2>6. TypeOK'
    BY <2>2, <2>4, <1>4 DEF TypeOK
  <2>7. Grown' /\ FreeStackExact'
    BY <2>2, <1>4 DEF Grown, FreeStackExact
  <2>8. LiveSlots' = LiveSlots /\ Tentative' = Tentative /\ Committed' = Committed
    BY <2>2 DEF LiveSlots, Tentative, Committed
  <2>9. TentativeOwned'
    BY <2>2, <2>5, <2>8 DEF TentativeOwned, Active
  <2>10. s \in Committed
    BY <1>2, <1>3, <1>8 DEF Committed, LiveSlots
  <2>11. Pending'
    BY <2>5, <2>8, <2>10, <1>5 DEF Pending, Active
  <2>12. ReferentialIntegrity'
    BY <2>2, <2>5, <2>8, <1>4, <1>6 DEF ReferentialIntegrity, Live, CellOf
  <2> QED
    BY <2>6, <2>7, <2>9, <2>11, <2>12
<1> QED
  BY <1>3, <1>7, <1>8 DEF Cell

LEMMA CommitPreserves ==
  ASSUME IInv, NEW h \in Handles, Commit(h)
  PROVE  IInv'
<1> USE HeapAssumption DEF IInv
<1>1. UNCHANGED <<versions, length, free, roots, nextTransactionId, disposed>>
  BY DEF Commit
<1>2. tx.id \in 0..MaxTx
  BY DEF TypeOK, TransactionImpl
<1>3. /\ tx' \in TransactionImpl
      /\ tx'.id = tx.id /\ tx'.state = "committed" /\ tx'.tentative = {}
      /\ \A s \in Slots : tx'.writes[s] = NoWrite
  BY <1>2, TransactionType DEF Commit
<1>4. \A s \in Slots : cells'[s] = Installed(s)
  BY DEF Commit
<1>5. ASSUME NEW s \in Slots, cells[s] = NoCell
      PROVE  cells'[s] = NoCell
  <2>1. tx.writes[s] = NoWrite /\ s \notin tx.tentative
    BY <1>5 DEF Pending, TentativeOwned, Committed, Tentative, LiveSlots
  <2> QED
    BY <2>1, <1>4, <1>5 DEF Installed
<1>6. ASSUME NEW s \in Slots, cells[s] # NoCell
      PROVE  /\ cells'[s] \in Cell /\ cells'[s] # NoCell
             /\ cells'[s].version = cells[s].version
             /\ cells'[s].state = "committed"
             /\ cells'[s].payload = IF tx.writes[s] = NoWrite THEN cells[s].payload
                                    ELSE tx.writes[s]
  <2>1. cells[s] \in Cell
    BY <1>6 DEF TypeOK
  <2>2. cells[s].state = "tentative" => s \in tx.tentative /\ tx.writes[s] = NoWrite
    BY <1>6 DEF Pending, TentativeOwned, Committed, Tentative, LiveSlots
  <2>3. cells[s].state \in {"tentative", "committed"}
    BY <2>1 DEF Cell
  <2> QED
    BY <2>2, <2>3, <1>4, <1>6, InstalledType
<1>7. TypeOK'
  <2>1. cells' \in [Slots -> Cell \cup {NoCell}]
    BY <1>5, <1>6 DEF Commit
  <2> QED
    BY <2>1, <1>1, <1>3 DEF TypeOK, Commit
<1>8. Grown' /\ FreeStackExact'
  BY <1>1, <1>5, <1>6 DEF Grown, FreeStackExact
<1>9. LiveSlots' = LiveSlots /\ Tentative' = {} /\ Committed' = LiveSlots
  BY <1>5, <1>6 DEF LiveSlots, Tentative, Committed
<1>10. TentativeOwned' /\ Pending'
  BY <1>3, <1>9 DEF TentativeOwned, Pending
<1>11. ASSUME NEW r \in Ref, Live(r)
       PROVE  Live(r)' /\ CellOf(r)'.state = "committed"
  BY <1>6, <1>11 DEF Live, CellOf, Ref
<1>12. ReferentialIntegrity'
  <2>1. \A r \in roots' : Live(r)' /\ CellOf(r)'.state = "committed"
    BY <1>1, <1>11 DEF ReferentialIntegrity, TypeOK
  <2>2. ASSUME NEW t \in LiveSlots', NEW r \in cells'[t].payload.refs
        PROVE  Live(r)' /\ CellOf(r)'.state = "committed"
    <3>1. t \in Slots /\ t \in LiveSlots /\ cells[t] # NoCell /\ cells[t] \in Cell
      BY <1>9 DEF LiveSlots, TypeOK
    <3>2. r \in Ref /\ Live(r)
      <4>1. CASE tx.writes[t] = NoWrite
        BY <4>1, <3>1, <1>6, <2>2 DEF ReferentialIntegrity, Cell, Payload
      <4>2. CASE tx.writes[t] # NoWrite
        <5>1. tx.writes[t] \in Payload
          BY <4>2, <3>1 DEF TypeOK, TransactionImpl
        <5> QED
          BY <4>2, <5>1, <3>1, <1>6, <2>2, PayloadFields DEF ReferentialIntegrity
      <4> QED
        BY <4>1, <4>2
    <3> QED
      BY <3>2, <1>11
  <2> QED
    BY <2>1, <2>2, <1>3 DEF ReferentialIntegrity
<1> QED
  BY <1>7, <1>8, <1>10, <1>12

(* What dropping a set of slots does to the arena.                         *)
LEMMA Dropping ==
  ASSUME TypeOK, Grown, FreeStackExact, NEW S \in SUBSET Slots,
         cells' = Deallocated(S), free' = Freed(S), UNCHANGED <<versions, length>>
  PROVE  /\ cells' \in [Slots -> Cell \cup {NoCell}]
         /\ free' \in [Slots -> Nat]
         /\ \A s \in Slots : cells'[s] = IF s \in S THEN NoCell ELSE cells[s]
         /\ LiveSlots' = LiveSlots \ S
         /\ Grown'
         /\ FreeStackExact'
<1>1. \A s \in Slots : cells'[s] = IF s \in S THEN NoCell ELSE cells[s]
  BY DEF Deallocated
<1>2. cells' \in [Slots -> Cell \cup {NoCell}] /\ free' \in [Slots -> Nat]
  BY FreedType
<1>3. \A s \in Slots :
        free'[s] = IF s \in S /\ cells[s] # NoCell THEN free[s] + 1 ELSE free[s]
  BY DEF Freed
<1>4. FreeStackExact'
  <2> SUFFICES ASSUME NEW s \in Slots
               PROVE  free'[s] = IF s <= length' /\ cells'[s] = NoCell THEN 1 ELSE 0
    BY DEF FreeStackExact
  <2>1. CASE s \in S /\ cells[s] # NoCell
    BY <2>1, <1>1, <1>3 DEF FreeStackExact, Grown, TypeOK
  <2>2. CASE ~(s \in S /\ cells[s] # NoCell)
    BY <2>2, <1>1, <1>3 DEF FreeStackExact
  <2> QED
    BY <2>1, <2>2
<1> QED
  BY <1>1, <1>2, <1>4 DEF Grown, LiveSlots

LEMMA AbortPreserves ==
  ASSUME IInv, NEW h \in Handles, Abort(h)
  PROVE  IInv'
<1> USE HeapAssumption DEF IInv
<1>1. UNCHANGED <<versions, length, roots, rootsFresh, nextTransactionId, disposed>>
  BY DEF Abort
<1>2. tx.id \in 0..MaxTx /\ tx.tentative \in SUBSET Slots
  BY DEF TypeOK, TransactionImpl
<1>3. /\ tx' \in TransactionImpl
      /\ tx'.id = tx.id /\ tx'.state = "aborted" /\ tx'.tentative = {}
      /\ \A s \in Slots : tx'.writes[s] = NoWrite
  BY <1>2, TransactionType DEF Abort
<1>4. /\ cells' \in [Slots -> Cell \cup {NoCell}]
      /\ free' \in [Slots -> Nat]
      /\ \A s \in Slots : cells'[s] = IF s \in tx.tentative THEN NoCell ELSE cells[s]
      /\ LiveSlots' = LiveSlots \ tx.tentative
      /\ Grown'
      /\ FreeStackExact'
  <2>1. cells' = Deallocated(tx.tentative) /\ free' = Freed(tx.tentative)
    BY DEF Abort, AbortedCells
  <2> QED
    BY <2>1, <1>1, <1>2, Dropping
<1>5. TypeOK'
  BY <1>1, <1>3, <1>4 DEF TypeOK
<1>6. /\ \A s \in LiveSlots' : s \in LiveSlots /\ cells'[s] = cells[s] /\ cells[s].state = "committed"
      /\ Tentative' = {}
  BY <1>4 DEF LiveSlots, Tentative, TentativeOwned, TypeOK, Cell
<1>7. TentativeOwned' /\ Pending'
  BY <1>3, <1>6 DEF TentativeOwned, Pending
<1>8. ASSUME NEW r \in Ref, Live(r), CellOf(r).state = "committed"
      PROVE  Live(r)' /\ CellOf(r)' = CellOf(r)
  <2>1. r[1] \in Slots /\ r[1] \notin tx.tentative
    BY <1>8 DEF Ref, Live, CellOf, TentativeOwned, Tentative
  <2> QED
    BY <2>1, <1>4, <1>8 DEF Live, CellOf
<1>9. ReferentialIntegrity'
  <2>1. \A r \in roots' : Live(r)' /\ CellOf(r)'.state = "committed"
    BY <1>1, <1>8 DEF ReferentialIntegrity, TypeOK
  <2>2. ASSUME NEW t \in LiveSlots', NEW r \in cells'[t].payload.refs
        PROVE  Live(r)' /\ CellOf(r)'.state = "committed"
    <3>1. t \in LiveSlots /\ cells'[t] = cells[t] /\ cells[t].state = "committed"
      BY <1>6
    <3>2. cells[t] \in Cell
      BY <3>1 DEF LiveSlots, TypeOK
    <3>3. r \in Ref
      BY <2>2, <3>1, <3>2 DEF Cell, Payload
    <3> QED
      BY <2>2, <3>1, <3>3, <1>8 DEF ReferentialIntegrity
  <2> QED
    BY <2>1, <2>2, <1>3 DEF ReferentialIntegrity
<1> QED
  BY <1>4, <1>5, <1>7, <1>9

LEMMA ReplaceRootsPreserves ==
  ASSUME IInv, NEW R \in PayloadRefs, R \subseteq Issued, ReplaceRoots(R)
  PROVE  IInv'
<1> USE HeapAssumption DEF IInv
<1>1. /\ UNCHANGED <<cells, versions, length, free, tx, nextTransactionId, disposed>>
      /\ roots' = R /\ rootsFresh' = TRUE
  BY DEF ReplaceRoots, arena, txVars
<1>2. R \subseteq Ref /\ \A r \in R : Live(r) /\ CellOf(r).state = "committed"
  BY DEF ReplaceRoots, Resolves, Issued
<1>3. TypeOK' /\ Grown' /\ FreeStackExact'
  BY <1>1, <1>2 DEF TypeOK, Grown, FreeStackExact
<1>4. TentativeOwned' /\ Pending'
  BY <1>1 DEF TentativeOwned, Pending, Tentative, Committed, LiveSlots, Active
<1>5. ReferentialIntegrity'
  BY <1>1, <1>2 DEF ReferentialIntegrity, LiveSlots, Live, CellOf
<1> QED
  BY <1>3, <1>4, <1>5

(* The mark phase finds the roots' slots, and with a cell the cells its    *)
(* payload points to.                                                      *)
LEMMA MarkingIsClosed ==
  /\ SlotsOf(roots) \cap Slots \subseteq Reachable
  /\ \A s \in Reachable \cap LiveSlots :
       SlotsOf(cells[s].payload.refs) \cap Slots \subseteq Reachable
<1>1. SlotsOf(roots) \cap Slots \subseteq Reachable
  BY DEF Reachable
<1>2. ASSUME NEW s \in Reachable \cap LiveSlots,
             NEW t \in SlotsOf(cells[s].payload.refs) \cap Slots
      PROVE  t \in Reachable
  <2>1. ASSUME NEW S \in SUBSET Slots, SlotsOf(roots) \subseteq S, ClosedUnderRefs(S)
        PROVE  t \in S
    <3>1. s \in S
      BY <2>1 DEF Reachable
    <3> QED
      BY <2>1, <3>1 DEF ClosedUnderRefs
  <2> QED
    BY <2>1 DEF Reachable
<1> QED
  BY <1>1, <1>2

LEMMA CollectPreserves ==
  ASSUME IInv, Collect
  PROVE  IInv'
<1> USE HeapAssumption DEF IInv
<1>1. UNCHANGED <<versions, length, roots, rootsFresh, tx, nextTransactionId, disposed>>
  BY DEF Collect, txVars
<1> DEFINE swept == Committed \ Reachable
<1>2. /\ cells' \in [Slots -> Cell \cup {NoCell}]
      /\ free' \in [Slots -> Nat]
      /\ \A s \in Slots : cells'[s] = IF s \in swept THEN NoCell ELSE cells[s]
      /\ LiveSlots' = LiveSlots \ swept
      /\ Grown'
      /\ FreeStackExact'
  <2>1. cells' = Deallocated(swept) /\ free' = Freed(swept)
    BY DEF Collect
  <2>2. swept \in SUBSET Slots
    BY DEF Committed, LiveSlots
  <2> QED
    BY <2>1, <2>2, <1>1, Dropping
<1>3. TypeOK'
  BY <1>1, <1>2 DEF TypeOK
<1>4. Tentative = {} /\ ~Active
  BY DEF Collect, AssertNoActiveTransaction, TentativeOwned
<1>5. /\ \A s \in LiveSlots' : s \in LiveSlots /\ cells'[s] = cells[s] /\ s \in Reachable
      /\ \A s \in LiveSlots \cap Reachable : s \in LiveSlots' /\ cells'[s] = cells[s]
      /\ Tentative' = {}
  <2>1. LiveSlots = Committed
    BY <1>4 DEF Tentative, Committed, LiveSlots, TypeOK, Cell
  <2> QED
    BY <2>1, <1>2, <1>4 DEF LiveSlots, Tentative
<1>6. TentativeOwned' /\ Pending'
  BY <1>1, <1>4, <1>5 DEF TentativeOwned, Pending, Active
<1>7. ASSUME NEW r \in Ref, Live(r), r[1] \in Reachable
      PROVE  Live(r)' /\ CellOf(r)' = CellOf(r)
  <2>1. r[1] \in LiveSlots
    BY <1>7 DEF Live, LiveSlots, Ref
  <2> QED
    BY <2>1, <1>5, <1>7 DEF Live, CellOf, LiveSlots
<1>8. ReferentialIntegrity'
  <2>1. ASSUME NEW r \in roots'
        PROVE  Live(r)' /\ CellOf(r)'.state = "committed"
    <3>1. r \in roots /\ r \in Ref
      BY <2>1, <1>1 DEF TypeOK
    <3>2. r[1] \in Reachable
      BY <3>1, MarkingIsClosed DEF SlotsOf, Ref
    <3> QED
      BY <3>1, <3>2, <1>7 DEF ReferentialIntegrity
  <2>2. ASSUME NEW t \in LiveSlots', NEW r \in cells'[t].payload.refs
        PROVE  Live(r)' /\ (cells'[t].state = "committed" => CellOf(r)'.state = "committed")
    <3>1. t \in LiveSlots /\ cells'[t] = cells[t] /\ t \in Reachable
      BY <1>5
    <3>2. cells[t] \in Cell
      BY <3>1 DEF LiveSlots, TypeOK
    <3>3. r \in Ref
      BY <2>2, <3>1, <3>2 DEF Cell, Payload
    <3>4. r[1] \in Reachable
      BY <2>2, <3>1, <3>3, MarkingIsClosed DEF SlotsOf, Ref
    <3>5. Live(r) /\ (cells[t].state = "committed" => CellOf(r).state = "committed")
      BY <2>2, <3>1 DEF ReferentialIntegrity
    <3> QED
      BY <3>1, <3>3, <3>4, <3>5, <1>7
  <2>3. \A t \in Slots : tx'.writes[t] = NoWrite
    BY <1>1, <1>4 DEF Pending
  <2> QED
    BY <2>1, <2>2, <2>3 DEF ReferentialIntegrity
<1> QED
  BY <1>2, <1>3, <1>6, <1>8

LEMMA DisposePreserves ==
  ASSUME IInv, Dispose
  PROVE  IInv'
<1> USE HeapAssumption DEF IInv
<1>1. UNCHANGED <<versions, length, rootsFresh, nextTransactionId>> /\ roots' = {} /\ disposed' = TRUE
  BY DEF Dispose
<1>2. tx.id \in 0..MaxTx /\ 1..length \in SUBSET Slots /\ LiveSlots \subseteq 1..length
  BY DEF TypeOK, TransactionImpl, LiveSlots, Slots, Grown
<1>3. /\ cells' \in [Slots -> Cell \cup {NoCell}]
      /\ free' \in [Slots -> Nat]
      /\ LiveSlots' = {}
      /\ Grown'
      /\ FreeStackExact'
  <2>1. cells' = Deallocated(1..length) /\ free' = Freed(1..length)
    BY DEF Dispose
  <2> QED
    BY <2>1, <1>1, <1>2, Dropping
<1>4. /\ tx' \in TransactionImpl
      /\ tx'.tentative = {}
      /\ \A s \in Slots : tx'.writes[s] = NoWrite
  <2>1. CASE Active
    BY <2>1, <1>2, TransactionType DEF Dispose
  <2>2. CASE ~Active
    BY <2>2 DEF Dispose, TypeOK, TentativeOwned, Pending
  <2> QED
    BY <2>1, <2>2
<1>5. TypeOK'
  BY <1>1, <1>3, <1>4 DEF TypeOK
<1>6. TentativeOwned' /\ Pending'
  BY <1>3, <1>4 DEF TentativeOwned, Pending, Tentative
<1>7. ReferentialIntegrity'
  BY <1>1, <1>3, <1>4 DEF ReferentialIntegrity
<1> QED
  BY <1>3, <1>5, <1>6, <1>7

LEMMA StutterPreserves ==
  ASSUME IInv, UNCHANGED vars
  PROVE  IInv'
<1>1. UNCHANGED <<cells, versions, length, free, roots, rootsFresh, tx, nextTransactionId, disposed>>
  BY DEF vars, arena, txVars
<1> QED
  BY <1>1 DEF IInv, TypeOK, Grown, FreeStackExact, TentativeOwned, Pending,
              ReferentialIntegrity, Tentative, Committed, LiveSlots, Active, Live, CellOf

LEMMA NextPreserves == IInv /\ [Next]_vars => IInv'
BY BeginPreserves, AllocatePreserves, AllocateRefusedPreserves, WritePreserves,
   CommitPreserves, AbortPreserves, ReplaceRootsPreserves, CollectPreserves,
   DisposePreserves, StutterPreserves DEF Next

(* The arena, its transaction, its roots and its counters keep their types *)
(* through every call of the Heap's interface.                             *)
THEOREM TypeInvariant == Spec => []TypeOK
<1>1. IInv => TypeOK
  BY DEF IInv
<1> QED
  BY <1>1, InitEstablishes, NextPreserves, PTL DEF Spec

(* A Ref stored in a cell, in a pending write or among the roots resolves, *)
(* and committed storage never points at tentative storage.                *)
THEOREM Integrity == Spec => []ReferentialIntegrity
<1>1. IInv => ReferentialIntegrity
  BY DEF IInv
<1> QED
  BY <1>1, InitEstablishes, NextPreserves, PTL DEF Spec

(* No slot is lost or handed out twice.                                    *)
THEOREM FreeStack == Spec => []FreeStackExact
<1>1. IInv => FreeStackExact
  BY DEF IInv
<1> QED
  BY <1>1, InitEstablishes, NextPreserves, PTL DEF Spec

(* Tentative cells belong to the active transaction, and none outlives it. *)
THEOREM Ownership == Spec => []TentativeOwned
<1>1. IInv => TentativeOwned
  BY DEF IInv
<1> QED
  BY <1>1, InitEstablishes, NextPreserves, PTL DEF Spec

-----------------------------------------------------------------------------
(***************************************************************************)
(* Accounting.  TotalBytes is a recursive function, so what it computes is *)
(* proved by induction over the slots: its partial sums exist, and a       *)
(* charge that changes in one slot changes the total by as much.           *)
(***************************************************************************)

(* A set with 0 and with every successor has every natural number: a least *)
(* one it has not would have a predecessor.                                *)
LEMMA Induction ==
  ASSUME NEW T, 0 \in T, \A n \in Nat : n \in T => n + 1 \in T
  PROVE  Nat \subseteq T
<1> DEFINE R == {pair \in Nat \X Nat : pair[1] < pair[2]}
           B == {n \in Nat : n \notin T}
<1>1. IsWellFoundedOn(R, Nat)
  BY NatLessThanWellFounded DEF OpToRel
<1>2. SUFFICES ASSUME B # {} PROVE FALSE
  OBVIOUS
<1>3. \A n \in Nat : <<n, n + 1>> \in R
  OBVIOUS
<1>4. PICK x \in B : \A y \in B : ~ (<<y, x>> \in R)
  <2> HIDE DEF R
  <2> QED
    BY <1>1, <1>2, WFMin
<1>5. x \in Nat /\ x # 0 /\ x - 1 \in Nat /\ x = (x - 1) + 1
  OBVIOUS
<1>6. <<x - 1, x>> \in R /\ x - 1 \in B
  <2> HIDE DEF R
  <2>1. <<x - 1, (x - 1) + 1>> \in R
    BY <1>3, <1>5
  <2> QED
    BY <1>5, <2>1
<1> HIDE DEF R, B
<1> QED
  BY <1>4, <1>6

(* f has the partial sums of size over the slots up to n. *)
Sums(f, size, n) ==
  /\ f \in [0..n -> Int] /\ f[0] = 0
  /\ \A s \in 1..n : f[s] = size[s] + f[s - 1]

LEMMA SumsExist ==
  ASSUME NEW size \in [Slots -> Int]
  PROVE  \E f : Sums(f, size, MaxSlots)
<1> DEFINE T == {n \in Nat : n <= MaxSlots => \E f : Sums(f, size, n)}
<1>1. 0 \in T
  <2>1. Sums([s \in 0..0 |-> 0], size, 0)
    BY DEF Sums
  <2> QED
    BY <2>1
<1>2. ASSUME NEW n \in Nat, n \in T
      PROVE  n + 1 \in T
  <2> SUFFICES ASSUME n + 1 <= MaxSlots
               PROVE  \E f : Sums(f, size, n + 1)
    OBVIOUS
  <2>1. PICK f : Sums(f, size, n)
    BY <1>2, HeapAssumption
  <2>2. size[n + 1] \in Int
    BY HeapAssumption DEF Slots
  <2> DEFINE g == [s \in 0..(n + 1) |-> IF s = n + 1 THEN size[s] + f[n] ELSE f[s]]
  <2>3. g \in [0..(n + 1) -> Int] /\ g[0] = 0
    BY <2>1, <2>2 DEF Sums
  <2>4. ASSUME NEW s \in 1..(n + 1) PROVE g[s] = size[s] + g[s - 1]
    <3>1. CASE s = n + 1
      BY <3>1
    <3>2. CASE s # n + 1
      <4>1. s \in 1..n /\ s - 1 \in 0..n /\ s - 1 # n + 1
        BY <3>2
      <4> QED
        BY <4>1, <3>2, <2>1 DEF Sums
    <3> QED
      BY <3>1, <3>2
  <2>5. Sums(g, size, n + 1)
    <3> HIDE DEF g
    <3> QED
      BY <2>3, <2>4 DEF Sums
  <2> QED
    BY <2>5
<1>3. Nat \subseteq T
  <2> HIDE DEF T
  <2> QED
    BY <1>1, <1>2, Induction
<1> QED
  BY <1>3, HeapAssumption

(* The total is the last of the partial sums. *)
LEMMA TotalIsSum ==
  ASSUME NEW size \in [Slots -> Int]
  PROVE  \E f : Sums(f, size, MaxSlots) /\ TotalBytes(size) = f[MaxSlots]
<1> DEFINE Unfold(g) == [s \in 0..MaxSlots |-> IF s = 0 THEN 0 ELSE size[s] + g[s - 1]]
           Sum == CHOOSE g : g = Unfold(g)
<1>1. \E g : g = Unfold(g)
  <2>1. PICK f : Sums(f, size, MaxSlots)
    BY SumsExist
  <2>2. \A s \in 0..MaxSlots : f[s] = Unfold(f)[s]
    BY <2>1, HeapAssumption DEF Sums
  <2>3. f = Unfold(f)
    BY <2>1, <2>2 DEF Sums
  <2> QED
    BY <2>3
<1>2. Sum = Unfold(Sum)
  <2> HIDE DEF Unfold
  <2> QED
    BY <1>1
<1>3. TotalBytes(size) = Sum[MaxSlots]
  BY DEF TotalBytes
<1> HIDE DEF Sum
<1>4. Sum[0] = 0 /\ \A s \in Slots : Sum[s] = size[s] + Sum[s - 1]
  BY <1>2, HeapAssumption DEF Slots
<1>5. PICK f : Sums(f, size, MaxSlots)
  BY SumsExist
<1>6. \A s \in 0..MaxSlots : Sum[s] = f[s]
  <2> DEFINE T == {n \in Nat : n <= MaxSlots => Sum[n] = f[n]}
  <2>1. 0 \in T
    BY <1>4, <1>5 DEF Sums
  <2>2. ASSUME NEW n \in Nat, n \in T PROVE n + 1 \in T
    <3> SUFFICES ASSUME n + 1 <= MaxSlots PROVE Sum[n + 1] = f[n + 1]
      OBVIOUS
    <3>1. n + 1 \in Slots /\ n + 1 \in 1..MaxSlots /\ (n + 1) - 1 = n /\ n <= MaxSlots
      BY HeapAssumption DEF Slots
    <3> QED
      BY <2>2, <3>1, <1>4, <1>5 DEF Sums
  <2>3. Nat \subseteq T
    <3> HIDE DEF T
    <3> QED
      BY <2>1, <2>2, Induction
  <2> QED
    BY <2>3, HeapAssumption
<1> QED
  BY <1>3, <1>5, <1>6, HeapAssumption

(* Nothing charged anywhere, nothing in total. *)
LEMMA TotalOfNothing ==
  ASSUME NEW size \in [Slots -> Int], \A s \in Slots : size[s] = 0
  PROVE  TotalBytes(size) = 0
<1>1. PICK f : Sums(f, size, MaxSlots) /\ TotalBytes(size) = f[MaxSlots]
  BY TotalIsSum
<1> DEFINE T == {n \in Nat : n <= MaxSlots => f[n] = 0}
<1>2. 0 \in T
  BY <1>1 DEF Sums
<1>3. ASSUME NEW n \in Nat, n \in T PROVE n + 1 \in T
  <2> SUFFICES ASSUME n + 1 <= MaxSlots PROVE f[n + 1] = 0
    OBVIOUS
  <2>1. n + 1 \in Slots /\ n + 1 \in 1..MaxSlots /\ (n + 1) - 1 = n /\ n <= MaxSlots
    BY HeapAssumption DEF Slots
  <2> QED
    BY <1>1, <1>3, <2>1 DEF Sums
<1>4. Nat \subseteq T
  <2> HIDE DEF T
  <2> QED
    BY <1>2, <1>3, Induction
<1> QED
  BY <1>1, <1>4, HeapAssumption

(* A charge that changes in one slot changes the total by as much. *)
LEMMA TotalChanges ==
  ASSUME NEW size \in [Slots -> Int], NEW next \in [Slots -> Int], NEW t \in Slots,
         \A s \in Slots \ {t} : next[s] = size[s]
  PROVE  TotalBytes(next) = TotalBytes(size) - size[t] + next[t]
<1>1. PICK f : Sums(f, size, MaxSlots) /\ TotalBytes(size) = f[MaxSlots]
  BY TotalIsSum
<1>2. PICK g : Sums(g, next, MaxSlots) /\ TotalBytes(next) = g[MaxSlots]
  BY TotalIsSum
<1> DEFINE change == next[t] - size[t]
           T == {n \in Nat : n <= MaxSlots => g[n] = f[n] + (IF n < t THEN 0 ELSE change)}
<1>3. t \in Nat /\ 1 <= t /\ t <= MaxSlots /\ change \in Int /\ MaxSlots \in Nat
  BY HeapAssumption DEF Slots
<1>4. 0 \in T
  BY <1>1, <1>2, <1>3 DEF Sums
<1>5. ASSUME NEW n \in Nat, n \in T PROVE n + 1 \in T
  <2> SUFFICES ASSUME n + 1 <= MaxSlots
               PROVE  g[n + 1] = f[n + 1] + (IF n + 1 < t THEN 0 ELSE change)
    OBVIOUS
  <2>1. n + 1 \in Slots /\ n + 1 \in 1..MaxSlots /\ (n + 1) - 1 = n /\ n <= MaxSlots
          /\ n \in 0..MaxSlots
    BY HeapAssumption DEF Slots
  <2>2. /\ f[n + 1] = size[n + 1] + f[n] /\ g[n + 1] = next[n + 1] + g[n]
        /\ f[n] \in Int /\ g[n] \in Int /\ size[n + 1] \in Int /\ next[n + 1] \in Int
    BY <1>1, <1>2, <2>1 DEF Sums
  <2>3. g[n] = f[n] + (IF n < t THEN 0 ELSE change)
    BY <1>5, <2>1
  <2>4. n + 1 # t => next[n + 1] = size[n + 1]
    BY <2>1
  <2>5. n + 1 = t => next[n + 1] - size[n + 1] = change
    OBVIOUS
  <2> HIDE DEF change
  <2> QED
    BY <2>2, <2>3, <2>4, <2>5, <1>3
<1>6. Nat \subseteq T
  <2> HIDE DEF T
  <2> QED
    BY <1>4, <1>5, Induction
<1>7. g[MaxSlots] = f[MaxSlots] + change
  BY <1>3, <1>6
<1>8. f[MaxSlots] \in Int /\ size[t] \in Int /\ next[t] \in Int
  BY <1>1, <1>3 DEF Sums
<1> QED
  BY <1>1, <1>2, <1>7, <1>8

(* A cell's own size is that of its payload. *)
Sized == \A s \in LiveSlots : cells[s].bytes = cells[s].payload.bytes

AccountInv == IInv /\ Sized /\ AccountingExact

ChargesTyped ==
  /\ Charged \in [Slots -> Int]
  /\ \A s \in Slots : cells[s] # NoCell => cells[s].payload.bytes \in Int
  /\ \A s \in Slots : tx.writes[s] # NoWrite => tx.writes[s].bytes \in Int

(* The transaction has no cell, no write and no charge. *)
Settled ==
  /\ Tentative = {}
  /\ \A s \in Slots : tx.writes[s] = NoWrite
  /\ tx.transientBytes = 0

LEMMA ChargedType ==
  ASSUME TypeOK
  PROVE  ChargesTyped
<1> USE DEF ChargesTyped
<1>1. ASSUME NEW s \in Slots, cells[s] # NoCell
      PROVE  cells[s].payload.bytes \in Int
  <2>1. cells[s].payload \in Payload
    BY <1>1 DEF TypeOK, Cell
  <2> QED
    BY <2>1, PayloadFields
<1>2. ASSUME NEW s \in Slots, tx.writes[s] # NoWrite
      PROVE  tx.writes[s].bytes \in Int
  <2>1. tx.writes[s] \in Payload
    BY <1>2 DEF TypeOK, TransactionImpl
  <2> QED
    BY <2>1, PayloadFields
<1>3. \A s \in Slots : Charged[s] \in Int
  BY <1>1, <1>2 DEF Charged
<1> QED
  BY <1>1, <1>2, <1>3 DEF Charged

LEMMA ChargedTypeNext == IInv' => ChargesTyped'
<1>1. IInv => ChargesTyped
  BY ChargedType DEF IInv
<1> QED
  BY <1>1, PTL

(* A transaction without cells or writes owes nothing. *)
LEMMA NothingCharged ==
  ASSUME TypeOK, Settled
  PROVE  AccountingExact
<1> USE DEF Settled
<1>1. Charged \in [Slots -> Int] /\ \A s \in Slots : Charged[s] = 0
  BY ChargedType DEF ChargesTyped, Charged, Tentative, LiveSlots
<1>2. TotalBytes(Charged) = 0
  BY <1>1, TotalOfNothing
<1>3. Cardinality(Tentative) = 0
  BY FS_EmptySet
<1> QED
  BY <1>2, <1>3, HeapAssumption DEF AccountingExact

LEMMA NothingChargedNext == TypeOK' /\ Settled' => AccountingExact'
<1>1. TypeOK /\ Settled => AccountingExact
  BY NothingCharged
<1> QED
  BY <1>1, PTL

(* A terminated transaction is charged nothing. *)
LEMMA RestOwesNothing ==
  ASSUME IInv, AccountingExact, ~Active
  PROVE  Settled
<1> USE DEF Settled
<1>1. Tentative = {} /\ \A s \in Slots : tx.writes[s] = NoWrite
  BY DEF IInv, TentativeOwned, Pending
<1>2. Charged \in [Slots -> Int] /\ \A s \in Slots : Charged[s] = 0
  BY <1>1, ChargedType DEF IInv, ChargesTyped, Charged, Tentative, LiveSlots
<1> QED
  BY <1>1, <1>2, TotalOfNothing DEF AccountingExact

LEMMA FreshTransaction ==
  ASSUME NEW id, NEW st
  PROVE  /\ Transaction(id, st).transientBytes = 0
         /\ \A s \in Slots : Transaction(id, st).writes[s] = NoWrite
BY DEF Transaction, NoWrites

LEMMA AllocateAccounts ==
  ASSUME AccountInv, IInv', NEW h \in Handles, NEW s \in Slots, NEW p \in Storable,
         Allocate(h, s, p)
  PROVE  Sized' /\ AccountingExact'
<1> USE HeapAssumption DEF AccountInv, IInv
<1>1. p.bytes \in Int /\ cells[s] = NoCell /\ tx.writes[s] = NoWrite
  <2>1. p \in Payload
    BY DEF Storable, Payload
  <2>2. cells[s] = NoCell
    BY TakenSlotIsEmpty DEF Allocate, Take
  <2> QED
    BY <2>1, <2>2, PayloadFields DEF Pending, Committed, LiveSlots
<1>2. /\ cells'[s].payload = p /\ cells'[s].bytes = p.bytes /\ cells'[s].state = "tentative"
      /\ \A t \in Slots \ {s} : cells'[t] = cells[t]
  BY DEF Allocate, TypeOK
<1>3. cells'[s] # NoCell
  <2>1. cells'[s].version = versions[s] + 1 /\ versions'[s] = versions[s] + 1
    BY DEF Allocate, Take, NextVersion, TypeOK
  <2>2. s \in tx'.tentative
    BY DEF Allocate, TypeOK, TransactionImpl
  <2> QED
    BY <2>2 DEF TentativeOwned, Tentative, LiveSlots
<1>4. /\ tx'.writes = tx.writes /\ tx'.transientBytes = tx.transientBytes + p.bytes
      /\ tx'.tentative = tx.tentative \cup {s}
  BY DEF Allocate, TypeOK, TransactionImpl
<1>5. Sized'
  BY <1>2 DEF Sized, LiveSlots
<1>6. tx'.transientBytes = TotalBytes(Charged')
  <2>1. Charged[s] = 0 /\ Charged'[s] = p.bytes
    BY <1>1, <1>2, <1>3, <1>4 DEF Charged
  <2>2. \A t \in Slots \ {s} : Charged'[t] = Charged[t]
    BY <1>2, <1>4 DEF Charged
  <2>3. Charged \in [Slots -> Int] /\ Charged' \in [Slots -> Int]
    BY ChargedType, ChargedTypeNext DEF ChargesTyped
  <2>4. TotalBytes(Charged') = TotalBytes(Charged) - Charged[s] + Charged'[s]
    BY <2>2, <2>3, TotalChanges
  <2>5. tx.transientBytes \in Int /\ tx.transientBytes = TotalBytes(Charged)
    BY DEF AccountingExact, TypeOK, TransactionImpl
  <2> QED
    BY <2>1, <2>4, <2>5, <1>1, <1>4
<1>7. Cardinality(Tentative') <= MaxTransientStorageCells
  <2>1. Tentative = tx.tentative /\ Tentative' = tx.tentative \cup {s} /\ s \notin tx.tentative
    BY <1>1, <1>4 DEF TentativeOwned, Tentative, LiveSlots
  <2>2. IsFiniteSet(tx.tentative)
    <3>1. IsFiniteSet(Slots)
      BY FS_Interval DEF Slots
    <3> QED
      BY <3>1, FS_Subset DEF TypeOK, TransactionImpl
  <2>3. Cardinality(tx.tentative \cup {s}) = Cardinality(tx.tentative) + 1
    BY <2>1, <2>2, FS_AddElement
  <2> QED
    BY <2>1, <2>3 DEF Allocate, TransientRoom
<1>8. tx'.transientBytes <= MaxTransientLogicalBytes
  BY <1>4 DEF Allocate, TransientRoom
<1> QED
  BY <1>5, <1>6, <1>7, <1>8 DEF AccountingExact

LEMMA WriteAccounts ==
  ASSUME AccountInv, IInv', NEW h \in Handles, NEW ref \in Issued, NEW p \in Storable,
         Write(h, ref, p)
  PROVE  Sized' /\ AccountingExact'
<1> USE HeapAssumption DEF AccountInv, IInv
<1> DEFINE s == ref[1]
<1>1. p.bytes \in Int /\ s \in Slots /\ cells[s] # NoCell /\ cells[s] \in Cell /\ p # NoWrite
  <2>1. p \in Payload
    BY DEF Storable, Payload
  <2>2. s \in Slots
    BY DEF Issued, Ref
  <2> QED
    BY <2>1, <2>2, PayloadFields DEF Write, MayAccess, Resolves, Live, TypeOK
<1> HIDE DEF s
<1>2. tx'.transientBytes = tx.transientBytes - Replaced(s) + p.bytes
        /\ tx'.transientBytes <= MaxTransientLogicalBytes
  BY DEF Write, TypeOK, TransactionImpl, s
<1>3. Replaced(s) \in Int /\ Charged[s] = Replaced(s)
  <2>1. cells[s].state = "tentative" =>
          tx.writes[s] = NoWrite /\ cells[s].bytes = cells[s].payload.bytes
    BY <1>1 DEF Pending, Committed, LiveSlots, Sized
  <2> QED
    BY <2>1, <1>1, ReplacedType, ChargedType DEF ChargesTyped, Charged, Replaced
<1>4. /\ Sized' /\ Tentative' = Tentative
      /\ Charged'[s] = p.bytes /\ \A t \in Slots \ {s} : Charged'[t] = Charged[t]
  <2>1. CASE cells[s].state = "tentative"
    <3>1. cells' = [cells EXCEPT ![s] = WithPayload(cells[s], p)] /\ tx'.writes = tx.writes
            /\ tx'.tentative = tx.tentative
      BY <2>1 DEF Write, TypeOK, TransactionImpl, s
    <3>2. /\ cells'[s] = WithPayload(cells[s], p)
          /\ \A t \in Slots \ {s} : cells'[t] = cells[t]
      BY <3>1, <1>1 DEF TypeOK
    <3>3. cells'[s].payload = p /\ cells'[s].bytes = p.bytes /\ cells'[s].state = "tentative"
      BY <3>2, <1>1, <2>1 DEF WithPayload, Cell
    <3>4. tx.writes[s] = NoWrite
      BY <1>1, <2>1 DEF Pending, Committed, LiveSlots
    <3>5. Tentative' = Tentative
      BY <3>1 DEF TentativeOwned
    <3>6. cells'[s] # NoCell
      BY <3>5, <1>1, <2>1 DEF Tentative, LiveSlots
    <3>7. Charged'[s] = p.bytes /\ \A t \in Slots \ {s} : Charged'[t] = Charged[t]
      BY <3>1, <3>2, <3>3, <3>4, <3>6, <1>1 DEF Charged
    <3> QED
      BY <3>2, <3>3, <3>5, <3>7 DEF Sized, LiveSlots
  <2>2. CASE cells[s].state = "committed"
    <3>1. cells' = cells /\ tx'.writes = [tx.writes EXCEPT ![s] = p]
      BY <2>2 DEF Write, TypeOK, TransactionImpl, s
    <3>2. tx'.writes[s] = p /\ \A t \in Slots \ {s} : tx'.writes[t] = tx.writes[t]
      BY <3>1, <1>1 DEF TypeOK, TransactionImpl
    <3>3. Charged'[s] = p.bytes /\ \A t \in Slots \ {s} : Charged'[t] = Charged[t]
      BY <3>1, <3>2, <2>2, <1>1 DEF Charged
    <3> QED
      BY <3>1, <3>3 DEF Sized, LiveSlots, Tentative
  <2> QED
    BY <2>1, <2>2, <1>1 DEF Cell
<1>5. Charged \in [Slots -> Int] /\ Charged' \in [Slots -> Int]
  BY ChargedType, ChargedTypeNext DEF ChargesTyped
<1>6. TotalBytes(Charged') = TotalBytes(Charged) - Charged[s] + Charged'[s]
  BY <1>1, <1>4, <1>5, TotalChanges
<1>7. tx.transientBytes \in Int /\ tx.transientBytes = TotalBytes(Charged)
  BY DEF AccountingExact, TypeOK, TransactionImpl
<1>8. tx'.transientBytes = TotalBytes(Charged')
  BY <1>1, <1>2, <1>3, <1>4, <1>6, <1>7
<1> QED
  BY <1>2, <1>4, <1>8 DEF AccountingExact

(* A commit or an abort settles the transaction's account. *)
LEMMA TerminatedAccounts ==
  ASSUME AccountInv, IInv', NEW h \in Handles, Commit(h) \/ Abort(h)
  PROVE  Sized' /\ AccountingExact'
<1> USE DEF AccountInv, IInv
<1>1. ~Active' /\ tx'.transientBytes = 0
  BY TransactionType, FreshTransaction DEF Commit, Abort, Active, Transaction
<1>2. Tentative' = {} /\ \A s \in Slots : tx'.writes[s] = NoWrite
  BY <1>1 DEF TentativeOwned, Pending
<1>3. AccountingExact'
  BY <1>1, <1>2, NothingChargedNext DEF Settled
<1>4. CASE Abort(h)
  <2>1. \A s \in LiveSlots' : s \in LiveSlots /\ cells'[s] = cells[s]
    BY <1>4 DEF Abort, AbortedCells, Deallocated, LiveSlots
  <2> QED
    BY <2>1, <1>3 DEF Sized
<1>5. CASE Commit(h)
  <2> SUFFICES ASSUME NEW s \in Slots, cells'[s] # NoCell
               PROVE  cells'[s].bytes = cells'[s].payload.bytes
    BY <1>3 DEF Sized, LiveSlots
  <2>1. cells'[s] = Installed(s)
    BY <1>5 DEF Commit
  <2>2. cells[s] # NoCell
    <3>1. SUFFICES ASSUME cells[s] = NoCell PROVE FALSE
      OBVIOUS
    <3>2. tx.writes[s] = NoWrite /\ s \notin tx.tentative
      BY <3>1 DEF Pending, TentativeOwned, Committed, Tentative, LiveSlots
    <3> QED
      BY <2>1, <3>1, <3>2 DEF Installed
  <2>3. cells[s] \in Cell /\ cells[s].bytes = cells[s].payload.bytes
    BY <2>2 DEF TypeOK, Sized, LiveSlots
  <2> QED
    BY <2>1, <2>3 DEF Installed, WithPayload, Cell
<1> QED
  BY <1>4, <1>5

(* Nothing else changes what a slot is charged for. *)
LEMMA OthersAccount ==
  ASSUME AccountInv, IInv',
         \/ Begin \/ Collect \/ Dispose
         \/ \E R \in PayloadRefs : ReplaceRoots(R)
  PROVE  Sized' /\ AccountingExact'
<1> USE DEF AccountInv, IInv
<1>1. \A s \in LiveSlots' : s \in LiveSlots /\ cells'[s] = cells[s]
  BY DEF Begin, Collect, Dispose, ReplaceRoots, arena, Deallocated, LiveSlots
<1>2. Sized'
  BY <1>1 DEF Sized
<1>3. /\ tx'.transientBytes = 0 /\ \A s \in Slots : tx'.writes[s] = NoWrite
      /\ Tentative' = {}
  <2>1. CASE Begin
    <3>1. tx' = Transaction(nextTransactionId, "active") /\ Tentative = {} /\ cells' = cells
      BY <2>1, RestOwesNothing DEF Settled, Begin, AssertNoActiveTransaction, arena
    <3> QED
      BY <3>1, FreshTransaction DEF Tentative, LiveSlots
  <2>2. CASE Collect \/ \E R \in PayloadRefs : ReplaceRoots(R)
    <3>1. tx' = tx /\ ~Active
      BY <2>2 DEF Collect, ReplaceRoots, AssertNoActiveTransaction, txVars
    <3>2. Tentative = {} /\ (\A s \in Slots : tx.writes[s] = NoWrite) /\ tx.transientBytes = 0
      BY <3>1, RestOwesNothing DEF Settled
    <3> QED
      BY <3>1, <3>2, <1>1 DEF Tentative, LiveSlots
  <2>3. CASE Dispose
    <3>1. ~Active' /\ tx'.transientBytes = 0
      <4>1. CASE Active
        BY <4>1, <2>3, FreshTransaction DEF Dispose, Active, Transaction
      <4>2. CASE ~Active
        BY <4>2, <2>3, RestOwesNothing DEF Settled, Dispose, Active
      <4> QED
        BY <4>1, <4>2
    <3> QED
      BY <3>1 DEF TentativeOwned, Pending
  <2> QED
    BY <2>1, <2>2, <2>3
<1> QED
  BY <1>2, <1>3, NothingChargedNext DEF Settled

LEMMA UnchangedAccount ==
  ASSUME AccountInv, UNCHANGED <<cells, tx>>
  PROVE  Sized' /\ AccountingExact'
BY DEF AccountInv, Sized, AccountingExact, LiveSlots, Tentative, Charged

LEMMA NextAccounts == AccountInv /\ [Next]_vars => AccountInv'
<1> SUFFICES ASSUME AccountInv, [Next]_vars PROVE AccountInv'
  OBVIOUS
<1>1. IInv'
  BY NextPreserves DEF AccountInv
<1>2. Sized' /\ AccountingExact'
  <2>1. ASSUME NEW h \in Handles, NEW s \in Slots, NEW p \in Storable,
               Allocate(h, s, p) \/ AllocateRefused(h, s, p)
        PROVE  Sized' /\ AccountingExact'
    BY <2>1, <1>1, AllocateAccounts, UnchangedAccount DEF AllocateRefused, txVars
  <2>2. ASSUME NEW h \in Handles, NEW ref \in Issued, NEW p \in Storable, Write(h, ref, p)
        PROVE  Sized' /\ AccountingExact'
    BY <2>2, <1>1, WriteAccounts
  <2>3. ASSUME NEW h \in Handles, Commit(h) \/ Abort(h)
        PROVE  Sized' /\ AccountingExact'
    BY <2>3, <1>1, TerminatedAccounts
  <2>4. CASE Begin \/ Collect \/ Dispose \/ \E R \in PayloadRefs : R \subseteq Issued /\ ReplaceRoots(R)
    BY <2>4, <1>1, OthersAccount
  <2>5. CASE UNCHANGED vars
    BY <2>5, UnchangedAccount DEF vars, arena, txVars
  <2> QED
    BY <2>1, <2>2, <2>3, <2>4, <2>5 DEF Next
<1> QED
  BY <1>1, <1>2 DEF AccountInv

(* No slot is lost or handed out twice, and the bytes charged to the       *)
(* transaction are those of its cells and its pending writes: through any  *)
(* sequence of allocations, replacements, aborts and collections           *)
(* (allocate(), write(), terminate() and sweep()).                         *)
THEOREM Storage == Spec => []StorageExact
<1>1. Init => AccountInv
  <2> SUFFICES ASSUME Init PROVE AccountInv
    OBVIOUS
  <2>1. IInv
    BY InitEstablishes
  <2>2. LiveSlots = {} /\ Tentative = {}
    BY DEF Init, LiveSlots, Tentative
  <2>3. tx.transientBytes = 0 /\ \A s \in Slots : tx.writes[s] = NoWrite
    BY FreshTransaction DEF Init
  <2>4. AccountingExact
    BY <2>1, <2>2, <2>3, NothingCharged DEF IInv, Settled
  <2> QED
    BY <2>1, <2>2, <2>4 DEF AccountInv, Sized
<1>2. AccountInv => StorageExact
  BY DEF AccountInv, IInv, StorageExact
<1> QED
  BY <1>1, <1>2, NextAccounts, PTL DEF Spec

-----------------------------------------------------------------------------
(***************************************************************************)
(* Refinement.  Under the inductive invariant every call of the Heap maps  *)
(* to one action of the ObjectStore.                                       *)
(***************************************************************************)
LEMMA LiveRefs ==
  ASSUME IInv, NEW r \in Ref, Live(r)
  PROVE  /\ r[1] \in Slots /\ cells[r[1]] \in Cell
         /\ r \in Issued
         /\ CellOf(r).payload \in Payload
         /\ ViewOf[r] \in Payload
<1>1. r[1] \in Slots /\ cells[r[1]] \in Cell /\ cells[r[1]] # NoCell
  BY DEF Ref, Live, IInv, TypeOK
<1>2. r \in Issued
  BY <1>1, HeapAssumption DEF Issued, Live, IInv, Grown, TypeOK, Ref
<1>3. CellOf(r).payload \in Payload
  BY <1>1 DEF CellOf, Cell
<1>4. tx.writes[r[1]] # NoWrite => tx.writes[r[1]] \in Payload
  BY <1>1 DEF IInv, TypeOK, TransactionImpl
<1> QED
  BY <1>1, <1>2, <1>3, <1>4 DEF ViewOf

(* An object exists in the transaction's view exactly when its Ref         *)
(* resolves, and in the committed snapshot when the cell is committed.     *)
LEMMA ExistsIsLive ==
  ASSUME IInv
  PROVE  /\ Store!Exists(ViewOf) = {r \in Ref : Live(r)}
         /\ Store!Exists(StoreOf) = {r \in Ref : Live(r) /\ CellOf(r).state = "committed"}
<1>1. \A r \in Ref : ViewOf[r] # NoWrite <=> Live(r)
  <2> TAKE r \in Ref
  <2>1. CASE Live(r)
    BY <2>1, LiveRefs, HeapAssumption
  <2>2. CASE ~Live(r)
    BY <2>2 DEF ViewOf
  <2> QED
    BY <2>1, <2>2
<1>2. \A r \in Ref : StoreOf[r] # NoWrite <=> Live(r) /\ CellOf(r).state = "committed"
  BY LiveRefs, HeapAssumption DEF StoreOf
<1> QED
  BY <1>1, <1>2 DEF Store!Exists

(* Outside a transaction the view is the committed snapshot. *)
LEMMA IdleView ==
  ASSUME IInv, ~Active
  PROVE  ViewOf = StoreOf
<1>1. \A s \in Slots : tx.writes[s] = NoWrite
  BY DEF IInv, Pending
<1>2. ASSUME NEW r \in Ref, Live(r) PROVE CellOf(r).state = "committed"
  <2>1. r[1] \in Slots /\ cells[r[1]] \in Cell /\ cells[r[1]] # NoCell
    BY <1>2, LiveRefs DEF Live
  <2>2. r[1] \notin Tentative
    BY DEF IInv, TentativeOwned
  <2> QED
    BY <2>1, <2>2 DEF Tentative, LiveSlots, CellOf, Cell
<1>3. \A r \in Ref : ViewOf[r] = StoreOf[r]
  BY <1>1, <1>2 DEF ViewOf, StoreOf, Ref
<1> QED
  BY <1>3 DEF ViewOf, StoreOf

(* The same facts about the state after a step. *)
LEMMA IdleViewNext == IInv' /\ ~Active' => ViewOf' = StoreOf'
<1>1. IInv /\ ~Active => ViewOf = StoreOf
  BY IdleView
<1>2. (IInv /\ ~Active => ViewOf = StoreOf)'
  BY <1>1, PTL
<1> QED
  BY <1>2

LEMMA ExistsIsLiveNext ==
  IInv' => Store!Exists(StoreOf') = {r \in Ref : Live(r)' /\ CellOf(r)'.state = "committed"}
<1>1. IInv => Store!Exists(StoreOf) = {r \in Ref : Live(r) /\ CellOf(r).state = "committed"}
  BY ExistsIsLive
<1>2. (IInv => Store!Exists(StoreOf) = {r \in Ref : Live(r) /\ CellOf(r).state = "committed"})'
  BY <1>1, PTL
<1> QED
  BY <1>2 DEF Store!Exists

LEMMA InitRefines == Init => Store!Init
<1> SUFFICES ASSUME Init PROVE Store!Init
  OBVIOUS
<1>1. \A r \in Ref : ~Live(r)
  BY DEF Init, Live, Ref
<1>2. StoreOf = [r \in Ref |-> NoWrite] /\ ViewOf = [r \in Ref |-> NoWrite]
  BY <1>1 DEF StoreOf, ViewOf
<1>3. Issued = {}
  BY HeapAssumption DEF Init, Issued, Ref
<1>4. ~Active /\ roots = {}
  BY DEF Init, Active, Transaction
<1> QED
  BY <1>2, <1>3, <1>4 DEF Store!Init

LEMMA BeginRefines ==
  ASSUME IInv, IInv', Begin
  PROVE  Store!Begin
<1>1. ~Active /\ Active'
  BY DEF Begin, AssertNoActiveTransaction, Active, Transaction
<1>2. UNCHANGED <<cells, versions, roots>>
  BY DEF Begin, arena
<1>3. StoreOf' = StoreOf /\ Issued' = Issued
  BY <1>2 DEF StoreOf, Issued, Live, CellOf
<1>4. \A s \in Slots : tx.writes[s] = NoWrite /\ tx'.writes[s] = NoWrite
  BY <1>1 DEF IInv, Pending, Begin, Transaction, NoWrites
<1>5. ViewOf' = ViewOf
  BY <1>2, <1>4 DEF ViewOf, Live, CellOf, Ref
<1> QED
  BY <1>1, <1>2, <1>3, <1>5 DEF Store!Begin

(* Taking slot s issues one Ref, which nobody held before. *)
LEMMA TakeIssues ==
  ASSUME IInv, NEW s \in Slots, Take(s)
  PROVE  /\ <<s, NextVersion(s)>> \in Ref
         /\ <<s, NextVersion(s)>> \notin Issued
         /\ Issued' = Issued \cup {<<s, NextVersion(s)>>}
<1>1. /\ versions[s] + 1 <= MaxVersion /\ versions[s] \in Nat
      /\ NextVersion(s) = versions[s] + 1
      /\ versions' = [versions EXCEPT ![s] = versions[s] + 1]
  BY HeapAssumption DEF Take, NextVersion, IInv, TypeOK
<1>2. <<s, NextVersion(s)>> \in Ref
  BY <1>1, HeapAssumption DEF Ref
<1>3. <<s, NextVersion(s)>> \notin Issued
  BY <1>1 DEF Issued
<1>4. ASSUME NEW r \in Ref
      PROVE  r \in Issued' <=> r \in Issued \/ r = <<s, NextVersion(s)>>
  <2>1. r = <<r[1], r[2]>> /\ r[1] \in Slots /\ r[2] \in Nat
    BY HeapAssumption DEF Ref
  <2>2. CASE r[1] = s
    <3>1. r[2] <= versions[s] + 1 <=> r[2] <= versions[s] \/ r[2] = versions[s] + 1
      BY <2>1, <1>1
    <3>2. versions'[r[1]] = versions[s] + 1
      BY <2>2, <1>1 DEF IInv, TypeOK
    <3> QED
      BY <2>1, <2>2, <3>1, <3>2, <1>1 DEF Issued
  <2>3. CASE r[1] # s
    <3>1. versions'[r[1]] = versions[r[1]]
      BY <2>1, <2>3, <1>1 DEF IInv, TypeOK
    <3> QED
      BY <2>1, <2>3, <3>1 DEF Issued
  <2> QED
    BY <2>2, <2>3
<1>5. Issued' \subseteq Ref /\ Issued \subseteq Ref
  BY DEF Issued
<1> QED
  BY <1>2, <1>3, <1>4, <1>5

LEMMA AllocateRefines ==
  ASSUME IInv, IInv', NEW h \in Handles, NEW s \in Slots, NEW p \in Storable, Allocate(h, s, p)
  PROVE  Store!Allocate(<<s, NextVersion(s)>>, p)
<1> DEFINE id == <<s, NextVersion(s)>>
<1>1. p \in Payload /\ p.refs \subseteq Ref
  <2>1. p \in Payload
    BY HeapAssumption DEF Storable, Payload
  <2> QED
    BY <2>1, PayloadFields
<1>2. id \in Ref /\ id \notin Issued /\ Issued' = Issued \cup {id}
  BY TakeIssues DEF Allocate
<1>3. Active /\ Active' /\ UNCHANGED roots /\ tx'.writes = tx.writes
  BY DEF Allocate, AssertCurrent, Current, Active, IInv, TypeOK, TransactionImpl
<1>4. /\ cells[s] = NoCell
      /\ cells'[s] # NoCell /\ cells'[s].version = NextVersion(s)
      /\ cells'[s].state = "tentative" /\ cells'[s].payload = p
      /\ \A t \in Slots \ {s} : cells'[t] = cells[t]
  <2>1. cells' = [cells EXCEPT ![s] =
          [version |-> NextVersion(s), payload |-> p, bytes |-> p.bytes,
           state |-> "tentative", transactionId |-> tx.id]]
    BY DEF Allocate
  <2>2. cells[s] = NoCell
    BY TakenSlotIsEmpty DEF Allocate, Take
  <2>3. /\ cells'[s].version = NextVersion(s)
        /\ cells'[s].state = "tentative" /\ cells'[s].payload = p
        /\ \A t \in Slots \ {s} : cells'[t] = cells[t]
    BY <2>1 DEF IInv, TypeOK
  <2>4. s \in LiveSlots'
    BY <2>1, HeapAssumption, <1>1, <1>2 DEF LiveSlots, IInv, TypeOK, Cell, Payload, TransactionImpl, Ref
  <2> QED
    BY <2>2, <2>3, <2>4 DEF LiveSlots
<1>5. p.refs \subseteq Store!Exists(ViewOf)
  BY <1>1, ExistsIsLive DEF Allocate, MayPointTo, Resolves
<1>6. tx.writes[s] = NoWrite
  BY <1>4 DEF IInv, Pending, Committed, LiveSlots
<1>7. ASSUME NEW r \in Ref
      PROVE  /\ StoreOf'[r] = StoreOf[r]
             /\ ViewOf'[r] = IF r = id THEN p ELSE ViewOf[r]
  <2>1. r = <<r[1], r[2]>> /\ r[1] \in Slots
    BY DEF Ref
  <2>2. CASE r[1] = s
    <3>1. ~Live(r) /\ (Live(r)' <=> r = id) /\ (Live(r)' => CellOf(r)'.state = "tentative")
      BY <2>1, <2>2, <1>4 DEF Live, CellOf
    <3> QED
      BY <2>2, <3>1, <1>3, <1>4, <1>6 DEF StoreOf, ViewOf, CellOf
  <2>3. CASE r[1] # s
    <3>1. (Live(r)' <=> Live(r)) /\ CellOf(r)' = CellOf(r) /\ r # id
      BY <2>1, <2>3, <1>4 DEF Live, CellOf
    <3> QED
      BY <3>1, <1>3 DEF StoreOf, ViewOf
  <2> QED
    BY <2>2, <2>3
<1>8. StoreOf' = StoreOf
  BY <1>7 DEF StoreOf
<1>9. ViewOf' = [ViewOf EXCEPT ![id] = p]
  BY <1>7, <1>2 DEF ViewOf
<1> QED
  BY <1>2, <1>3, <1>5, <1>8, <1>9 DEF Store!Allocate

LEMMA AllocateRefusedRefines ==
  ASSUME IInv, IInv', NEW h \in Handles, NEW s \in Slots, NEW p \in Storable, AllocateRefused(h, s, p)
  PROVE  Store!Waste(<<s, NextVersion(s)>>)
<1>1. UNCHANGED <<cells, roots, tx>>
  BY DEF AllocateRefused, txVars
<1>2. /\ <<s, NextVersion(s)>> \notin Issued
      /\ Issued' = Issued \cup {<<s, NextVersion(s)>>}
  BY TakeIssues DEF AllocateRefused
<1>3. Active
  BY DEF AllocateRefused, AssertCurrent, Current, Active
<1>4. StoreOf' = StoreOf /\ ViewOf' = ViewOf /\ Active' = Active
  BY <1>1 DEF StoreOf, ViewOf, Live, CellOf, Active
<1> QED
  BY <1>1, <1>2, <1>3, <1>4 DEF Store!Waste

LEMMA WriteRefines ==
  ASSUME IInv, IInv', NEW h \in Handles, NEW ref \in Issued, NEW p \in Storable, Write(h, ref, p)
  PROVE  Store!Write(ref, p)
<1> DEFINE s == ref[1]
<1>1. p \in Payload /\ p.refs \subseteq Ref
  <2>1. p \in Payload
    BY HeapAssumption DEF Storable, Payload
  <2> QED
    BY <2>1, PayloadFields
<1>2. ref \in Ref /\ s \in Slots /\ Live(ref) /\ cells[s] \in Cell /\ cells[s] # NoCell
  BY DEF Issued, Ref, Write, MayAccess, Resolves, Live, IInv, TypeOK
<1>3. Active /\ UNCHANGED <<versions, roots>>
  BY DEF Write, AssertCurrent, Current, Active
<1>4. ref \in Store!Exists(ViewOf) /\ p.refs \subseteq Store!Exists(ViewOf)
  BY <1>1, <1>2, ExistsIsLive DEF Write, MayPointTo, Resolves
<1>5. Issued' = Issued
  BY <1>3 DEF Issued
<1>6. ASSUME NEW r \in Ref
      PROVE  /\ StoreOf'[r] = StoreOf[r]
             /\ ViewOf'[r] = IF r = ref THEN p ELSE ViewOf[r]
  <2>1. r = <<r[1], r[2]>> /\ ref = <<ref[1], ref[2]>> /\ r[1] \in Slots
    BY <1>2 DEF Ref
  <2>2. CASE cells[s].state = "tentative"
    <3>1. cells'[s] = WithPayload(cells[s], p) /\ \A t \in Slots \ {s} : cells'[t] = cells[t]
      BY <2>2, <1>2 DEF Write, IInv, TypeOK
    <3>2. tx'.writes = tx.writes
      BY <2>2 DEF Write, IInv, TypeOK, TransactionImpl
    <3>3. tx.writes[s] = NoWrite
      BY <2>2, <1>2 DEF IInv, Pending, Committed
    <3>4. /\ cells'[s] \in Cell /\ cells'[s].version = cells[s].version
          /\ cells'[s].state = "tentative" /\ cells'[s].payload = p
      BY <2>2, <3>1, <1>1, <1>2, WithPayloadType
    <3>5. cells'[s] # NoCell
      BY <3>4, HeapAssumption
    <3>6. CASE r[1] = s
      <4>1. (Live(r)' <=> Live(r)) /\ (Live(r) <=> r = ref)
        BY <2>1, <3>4, <3>5, <3>6, <1>2 DEF Live
      <4> QED
        BY <4>1, <3>2, <3>3, <3>4, <3>6, <2>2 DEF StoreOf, ViewOf, CellOf
    <3>7. CASE r[1] # s
      BY <2>1, <3>1, <3>2, <3>7 DEF StoreOf, ViewOf, Live, CellOf
    <3> QED
      BY <3>6, <3>7
  <2>3. CASE cells[s].state = "committed"
    <3>1. cells' = cells /\ tx'.writes = [tx.writes EXCEPT ![s] = p]
      BY <2>3 DEF Write, IInv, TypeOK, TransactionImpl
    <3>2. tx'.writes[s] = p /\ \A t \in Slots \ {s} : tx'.writes[t] = tx.writes[t]
      BY <3>1, <1>2 DEF IInv, TypeOK, TransactionImpl
    <3>3. StoreOf'[r] = StoreOf[r] /\ (Live(r)' <=> Live(r)) /\ CellOf(r)' = CellOf(r)
      BY <3>1 DEF StoreOf, Live, CellOf
    <3>4. p # NoWrite
      BY <1>1, HeapAssumption
    <3>5. CASE r[1] = s
      <4>1. Live(r) <=> r = ref
        BY <2>1, <3>5, <1>2 DEF Live
      <4> QED
        BY <4>1, <3>2, <3>3, <3>4, <3>5 DEF ViewOf
    <3>6. CASE r[1] # s
      BY <2>1, <3>2, <3>3, <3>6 DEF ViewOf
    <3> QED
      BY <3>3, <3>5, <3>6
  <2> QED
    BY <2>2, <2>3, <1>2 DEF Cell
<1>7. StoreOf' = StoreOf /\ ViewOf' = [ViewOf EXCEPT ![ref] = p]
  BY <1>2, <1>6 DEF StoreOf, ViewOf
<1>8. Active' = Active
  BY DEF Write, Active, IInv, TypeOK, TransactionImpl
<1> QED
  BY <1>3, <1>4, <1>5, <1>7, <1>8 DEF Store!Write

LEMMA CommitRefines ==
  ASSUME IInv, IInv', NEW h \in Handles, Commit(h)
  PROVE  Store!Commit
<1>1. Active /\ ~Active' /\ UNCHANGED <<versions, roots>>
  BY DEF Commit, AssertCurrent, Current, Active, Transaction
<1>2. Issued' = Issued
  BY <1>1 DEF Issued
<1>3. \A s \in Slots : cells'[s] = Installed(s)
  BY DEF Commit
<1>4. ASSUME NEW r \in Ref
      PROVE  StoreOf'[r] = ViewOf[r]
  <2>1. r[1] \in Slots
    BY DEF Ref
  <2>2. CASE cells[r[1]] = NoCell
    <3>1. tx.writes[r[1]] = NoWrite /\ r[1] \notin tx.tentative
      BY <2>1, <2>2 DEF IInv, Pending, TentativeOwned, Committed, Tentative, LiveSlots
    <3>2. cells'[r[1]] = NoCell
      BY <2>1, <2>2, <3>1, <1>3 DEF Installed
    <3> QED
      BY <2>2, <3>2 DEF StoreOf, ViewOf, Live
  <2>3. CASE cells[r[1]] # NoCell
    <3>1. cells[r[1]] \in Cell
      BY <2>1, <2>3 DEF IInv, TypeOK
    <3>2. cells[r[1]].state = "tentative" => r[1] \in tx.tentative /\ tx.writes[r[1]] = NoWrite
      BY <2>1, <2>3 DEF IInv, Pending, TentativeOwned, Committed, Tentative, LiveSlots
    <3>3. /\ cells'[r[1]] \in Cell
          /\ cells'[r[1]].version = cells[r[1]].version
          /\ cells'[r[1]].state = "committed"
          /\ cells'[r[1]].payload = IF tx.writes[r[1]] = NoWrite THEN cells[r[1]].payload
                                    ELSE tx.writes[r[1]]
      BY <2>1, <2>3, <3>1, <3>2, <1>3, InstalledType DEF IInv, Cell
    <3>4. cells'[r[1]] # NoCell
      BY <3>3, HeapAssumption
    <3> QED
      BY <2>3, <3>3, <3>4 DEF StoreOf, ViewOf, Live, CellOf
  <2> QED
    BY <2>2, <2>3
<1>5. StoreOf' = ViewOf
  BY <1>4 DEF StoreOf, ViewOf
<1>6. ViewOf' = StoreOf'
  BY <1>1, IdleViewNext
<1> QED
  BY <1>1, <1>2, <1>5, <1>6 DEF Store!Commit

LEMMA AbortRefines ==
  ASSUME IInv, IInv', NEW h \in Handles, Abort(h)
  PROVE  Store!Abort
<1>1. Active /\ ~Active' /\ UNCHANGED <<versions, roots>>
  BY DEF Abort, Active, Transaction
<1>2. Issued' = Issued
  BY <1>1 DEF Issued
<1>3. \A s \in Slots : cells'[s] = IF s \in Tentative THEN NoCell ELSE cells[s]
  BY DEF Abort, AbortedCells, Deallocated, IInv, TentativeOwned
<1>4. ASSUME NEW r \in Ref PROVE StoreOf'[r] = StoreOf[r]
  BY <1>3 DEF StoreOf, Live, CellOf, Tentative, LiveSlots, Ref
<1>5. StoreOf' = StoreOf
  BY <1>4 DEF StoreOf
<1>6. ViewOf' = StoreOf'
  BY <1>1, IdleViewNext
<1> QED
  BY <1>1, <1>2, <1>5, <1>6 DEF Store!Abort

LEMMA ReplaceRootsRefines ==
  ASSUME IInv, IInv', NEW R \in PayloadRefs, R \subseteq Issued, ReplaceRoots(R)
  PROVE  Store!ReplaceRoots(R)
<1>1. ~Active /\ UNCHANGED <<cells, versions, tx>> /\ roots' = R
  BY DEF ReplaceRoots, AssertNoActiveTransaction, arena, txVars
<1>2. StoreOf' = StoreOf /\ ViewOf' = ViewOf /\ Issued' = Issued /\ Active' = Active
  BY <1>1 DEF StoreOf, ViewOf, Issued, Live, CellOf, Active
<1>3. R \subseteq Store!Exists(StoreOf)
  BY ExistsIsLive DEF ReplaceRoots, Resolves, Issued
<1> QED
  BY <1>1, <1>2, <1>3 DEF Store!ReplaceRoots

LEMMA CollectRefines ==
  ASSUME IInv, IInv', Collect
  PROVE  \E kept \in SUBSET Ref : Store!Collect(kept)
<1> DEFINE kept == {r \in Ref : Live(r) /\ CellOf(r).state = "committed" /\ r[1] \in Reachable}
<1>1. ~Active /\ ~Active' /\ UNCHANGED <<versions, roots, tx>>
  BY DEF Collect, AssertNoActiveTransaction, txVars, Active
<1>2. Issued' = Issued
  BY <1>1 DEF Issued
<1>3. \A s \in Slots : cells'[s] = IF s \in Committed \ Reachable THEN NoCell ELSE cells[s]
  BY DEF Collect, Deallocated
<1>4. roots \subseteq kept
  <2> SUFFICES ASSUME NEW r \in roots PROVE r \in kept
    OBVIOUS
  <2>1. r \in Ref /\ Live(r) /\ CellOf(r).state = "committed"
    BY DEF IInv, TypeOK, ReferentialIntegrity
  <2>2. r[1] \in Reachable
    BY <2>1, MarkingIsClosed DEF SlotsOf, Ref
  <2> QED
    BY <2>1, <2>2
<1>5. kept \subseteq Store!Exists(StoreOf)
  BY ExistsIsLive
<1>6. ASSUME NEW r \in Ref
      PROVE  StoreOf'[r] = IF r \in kept THEN StoreOf[r] ELSE NoWrite
  BY <1>3 DEF StoreOf, Live, CellOf, Committed, LiveSlots, Ref
<1>7. StoreOf' = [r \in Ref |-> IF r \in kept THEN StoreOf[r] ELSE NoWrite]
  BY <1>6 DEF StoreOf
<1>8. Store!Closed(StoreOf')
  <2>1. Store!Exists(StoreOf') = {r \in Ref : Live(r)' /\ CellOf(r)'.state = "committed"}
    BY ExistsIsLiveNext
  <2> SUFFICES ASSUME NEW r \in Store!Exists(StoreOf'), NEW c \in StoreOf'[r].refs
               PROVE  c \in Store!Exists(StoreOf')
    BY DEF Store!Closed
  <2>2. r \in Ref /\ Live(r)' /\ CellOf(r)'.state = "committed"
    BY <2>1
  <2>3. StoreOf'[r] = cells'[r[1]].payload /\ r[1] \in LiveSlots'
    BY <2>2 DEF StoreOf, CellOf, Live, LiveSlots, Ref
  <2>4. cells'[r[1]].payload \in Payload
    BY <2>3 DEF IInv, TypeOK, Cell, LiveSlots
  <2>5. c \in Ref
    BY <2>3, <2>4, PayloadFields
  <2> QED
    BY <2>1, <2>2, <2>3, <2>5 DEF IInv, ReferentialIntegrity, CellOf
<1>9. ViewOf' = StoreOf'
  BY <1>1, IdleViewNext
<1>10. Active' = Active
  BY <1>1 DEF Active
<1>11. kept \in SUBSET Ref
  OBVIOUS
<1> HIDE DEF kept
<1>12. Store!Collect(kept)
  BY <1>10, <1>1, <1>2, <1>4, <1>5, <1>7, <1>8, <1>9 DEF Store!Collect
<1> QED
  BY <1>12, <1>11

LEMMA DisposeRefines ==
  ASSUME IInv, IInv', Dispose
  PROVE  Store!Dispose
<1>1. roots' = {} /\ UNCHANGED versions /\ ~Active'
  BY DEF Dispose, Active, Transaction
<1>2. \A r \in Ref : ~Live(r)'
  <2>1. \A s \in Slots : s \in 1..length \/ cells[s] = NoCell
    BY DEF IInv, Grown, Slots
  <2>2. \A s \in Slots : cells'[s] = NoCell
    BY <2>1 DEF Dispose, Deallocated
  <2> QED
    BY <2>2 DEF Live, Ref
<1>3. StoreOf' = [r \in Ref |-> NoWrite] /\ ViewOf' = [r \in Ref |-> NoWrite]
  BY <1>2 DEF StoreOf, ViewOf
<1>4. Issued' = Issued
  BY <1>1 DEF Issued
<1> QED
  BY <1>1, <1>3, <1>4 DEF Store!Dispose

LEMMA StepRefines == IInv /\ IInv' /\ [Next]_vars => [Store!Next]_(Store!vars)
<1> SUFFICES ASSUME IInv, IInv', [Next]_vars PROVE [Store!Next]_(Store!vars)
  OBVIOUS
<1>1. CASE Begin
  BY <1>1, BeginRefines DEF Store!Next
<1>2. ASSUME NEW h \in Handles, NEW s \in Slots, NEW p \in Storable, Allocate(h, s, p)
      PROVE  Store!Next
  <2>1. <<s, NextVersion(s)>> \in Ref /\ p \in Payload
    BY <1>2, TakeIssues, HeapAssumption DEF Allocate, Storable, Payload
  <2> QED
    BY <1>2, <2>1, AllocateRefines DEF Store!Next
<1>3. ASSUME NEW h \in Handles, NEW s \in Slots, NEW p \in Storable, AllocateRefused(h, s, p)
      PROVE  Store!Next
  <2>1. <<s, NextVersion(s)>> \in Ref
    BY <1>3, TakeIssues DEF AllocateRefused
  <2> QED
    BY <1>3, <2>1, AllocateRefusedRefines DEF Store!Next
<1>4. ASSUME NEW h \in Handles, NEW ref \in Issued, NEW p \in Storable, Write(h, ref, p)
      PROVE  Store!Next
  <2>1. ref \in Ref /\ p \in Payload
    BY HeapAssumption DEF Issued, Storable, Payload
  <2> QED
    BY <1>4, <2>1, WriteRefines DEF Store!Next
<1>5. ASSUME NEW h \in Handles, Commit(h) PROVE Store!Next
  BY <1>5, CommitRefines DEF Store!Next
<1>6. ASSUME NEW h \in Handles, Abort(h) PROVE Store!Next
  BY <1>6, AbortRefines DEF Store!Next
<1>7. ASSUME NEW R \in PayloadRefs, R \subseteq Issued, ReplaceRoots(R)
      PROVE  Store!Next
  <2>1. R \in SUBSET Ref
    BY <1>7 DEF Issued
  <2> QED
    BY <1>7, <2>1, ReplaceRootsRefines DEF Store!Next
<1>8. CASE Collect
  BY <1>8, CollectRefines DEF Store!Next
<1>9. CASE Dispose
  BY <1>9, DisposeRefines DEF Store!Next
<1>10. CASE UNCHANGED vars
  <2>1. UNCHANGED <<cells, versions, roots, tx>>
    BY <1>10 DEF vars, arena, txVars
  <2> QED
    BY <2>1 DEF Store!vars, StoreOf, ViewOf, Issued, Active, Live, CellOf
<1> QED
  BY <1>1, <1>2, <1>3, <1>4, <1>5, <1>6, <1>7, <1>8, <1>9, <1>10 DEF Next

(* The Heap implements the object store: identities are never reused, a    *)
(* transaction is invisible until it commits and leaves no trace when it   *)
(* aborts, and collection never drops what the roots reach.                *)
THEOREM Refinement == Spec => StoreSpec
BY InitEstablishes, NextPreserves, InitRefines, StepRefines, PTL
   DEF Spec, StoreSpec, Store!Spec

=============================================================================
