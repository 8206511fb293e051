-------------------------------- MODULE Heap --------------------------------
(***************************************************************************)
(* ArenaHeap (runtime/js/heap.ts): an arena of reusable slots, each with a *)
(* version; one transaction at a time whose new cells live in the arena as *)
(* "tentative" and whose replacements of committed cells wait in a write   *)
(* set; precise roots; a stop-the-world mark-sweep collection; limits on   *)
(* the cells and bytes of the transaction and of what survives a           *)
(* collection.                                                             *)
(*                                                                         *)
(* A Ref is the <<slot, version>> its record holds.  A managed view shares *)
(* the record of its Ref, and its traps are the reads and writes below     *)
(* with the arena's current transaction, so views add no action.  A call   *)
(* that throws and changes nothing is a disabled action.                   *)
(***************************************************************************)
EXTENDS Naturals, Integers, FiniteSets

CONSTANTS
  MaxSlots,                  (* bound: slots the arena may grow to         *)
  MaxVersion,                (* bound: times a slot may be taken           *)
  MaxTx,                     (* bound: transactions begun                  *)
  Bytes,                     (* direct sizes a payload may have            *)
  PayloadRefs,               (* bound: sets of Refs a client stores        *)
  MaxStorageCells,           (* HeapLimits, four of them                   *)
  MaxLogicalBytes,
  MaxTransientStorageCells,
  MaxTransientLogicalBytes,
  NoCell, NoWrite

Slots == 1..MaxSlots
Ref == Slots \X (1..MaxVersion)
Payload == [bytes : Bytes, refs : SUBSET Ref]
Cell == [version : 1..MaxVersion, payload : Payload, bytes : Bytes,
         state : {"tentative", "committed"}, transactionId : 0..MaxTx]
TransactionImpl ==
  [id : 0..MaxTx, state : {"none", "active", "committed", "aborted"},
   tentative : SUBSET Slots, writes : [Slots -> Payload \cup {NoWrite}],
   transientBytes : Int]

ASSUME HeapAssumption ==
  /\ MaxSlots \in Nat
  /\ MaxVersion \in Nat
  /\ MaxTx \in Nat
  /\ Bytes \subseteq Nat
  /\ PayloadRefs \subseteq SUBSET Ref
  /\ NoCell \notin Cell
  /\ NoWrite \notin Payload
  /\ {MaxStorageCells, MaxLogicalBytes,
      MaxTransientStorageCells, MaxTransientLogicalBytes} \subseteq Nat

VARIABLES
  cells,      (* cells[s]: the cell in slot s, or NoCell                   *)
  versions,   (* versions[s]: how often slot s was taken                   *)
  length,     (* cells.length: slots 1..length have been taken once        *)
  free,       (* free[s]: how often slot s stands on the free stack        *)
  roots, rootsFresh,
  tx,         (* this.transaction                                          *)
  nextTransactionId,
  disposed

txVars == <<tx, nextTransactionId>>
arena == <<cells, versions, length, free>>
vars == <<arena, roots, rootsFresh, txVars, disposed>>

(***************************************************************************)
(* The arena.                                                              *)
(***************************************************************************)

(* cell(record): a Ref resolves when its slot holds a cell of its version. *)
Live(ref) == cells[ref[1]] # NoCell /\ cells[ref[1]].version = ref[2]

(* Mutated form: the version of the Ref is not compared. *)
LiveAnyVersion(ref) == cells[ref[1]] # NoCell

Resolves(ref) == Live(ref)

CellOf(ref) == cells[ref[1]]

WithPayload(cell, p) == [cell EXCEPT !.payload = p, !.bytes = p.bytes]

LiveSlots == {s \in Slots : cells[s] # NoCell}
Committed == {s \in LiveSlots : cells[s].state = "committed"}
Tentative == {s \in LiveSlots : cells[s].state = "tentative"}

(* deallocate(slot) for a set of slots: an empty slot is left alone. *)
Deallocated(S) == [s \in Slots |-> IF s \in S THEN NoCell ELSE cells[s]]

Freed(S) ==
  [s \in Slots |-> IF s \in S /\ cells[s] # NoCell THEN free[s] + 1 ELSE free[s]]

(* The slot `free.pop() ?? cells.length`: any free slot, else a new one. *)
TakesSlot(s) ==
  IF \E f \in Slots : free[f] > 0 THEN free[s] > 0 ELSE s = length + 1

(***************************************************************************)
(* The transaction.                                                        *)
(***************************************************************************)

NoWrites == [s \in Slots |-> NoWrite]
Transaction(id, state) ==
  [id |-> id, state |-> state, tentative |-> {}, writes |-> NoWrites,
   transientBytes |-> 0]

Active == tx.state = "active"

(* assertCurrent: the handle is the arena's transaction and is active. *)
Current(h) == ~disposed /\ tx.id = h /\ tx.state = "active"

AssertCurrent(h) == Current(h)

AssertNoActiveTransaction == ~disposed /\ ~Active

(* assertPayloadRef: committed, or tentative in this same transaction. *)
MayPointTo(ref) ==
  /\ Resolves(ref)
  /\ CellOf(ref).state = "committed" \/ CellOf(ref).transactionId = tx.id

(* readTransaction/write: a tentative cell is visible to its owner only. *)
MayAccess(ref) ==
  Resolves(ref) /\ (CellOf(ref).state = "tentative" => CellOf(ref).transactionId = tx.id)

Begin ==
  /\ AssertNoActiveTransaction
  /\ nextTransactionId <= MaxTx
  /\ tx' = Transaction(nextTransactionId, "active")
  /\ nextTransactionId' = nextTransactionId + 1
  /\ UNCHANGED <<arena, roots, rootsFresh, disposed>>

(***************************************************************************)
(* allocate: check the transient limits, take a slot, bump its version,    *)
(* store the tentative cell, then trace the payload.  When the trace meets *)
(* a Ref it must not hold, the cell is dropped again and only the version  *)
(* and the free stack have moved.                                          *)
(***************************************************************************)
TransientRoom(bytes) ==
  /\ Cardinality(tx.tentative) + 1 <= MaxTransientStorageCells
  /\ tx.transientBytes + bytes <= MaxTransientLogicalBytes

(* Mutated form: a slot taken again keeps its version. *)
SameVersion(s) == IF versions[s] = 0 THEN 1 ELSE versions[s]

NextVersion(s) == versions[s] + 1

Take(s) ==
  /\ TakesSlot(s)
  /\ NextVersion(s) <= MaxVersion
  /\ versions' = [versions EXCEPT ![s] = NextVersion(s)]
  /\ length' = IF s > length THEN s ELSE length

Allocate(h, s, p) ==
  /\ AssertCurrent(h)
  /\ TransientRoom(p.bytes)
  /\ Take(s)
  /\ \A ref \in p.refs : MayPointTo(ref)
  /\ cells' = [cells EXCEPT ![s] =
       [version |-> NextVersion(s), payload |-> p, bytes |-> p.bytes,
        state |-> "tentative", transactionId |-> tx.id]]
  /\ free' = [free EXCEPT ![s] = IF @ > 0 THEN @ - 1 ELSE 0]
  /\ tx' = [tx EXCEPT !.tentative = @ \cup {s}, !.transientBytes = @ + p.bytes]
  /\ UNCHANGED <<roots, rootsFresh, nextTransactionId, disposed>>

AllocateRefused(h, s, p) ==
  /\ AssertCurrent(h)
  /\ TransientRoom(p.bytes)
  /\ Take(s)
  /\ \E ref \in p.refs : ~MayPointTo(ref)
  /\ free' = [free EXCEPT ![s] = IF @ > 0 THEN @ ELSE 1]
  /\ UNCHANGED <<cells, roots, rootsFresh, txVars, disposed>>

(***************************************************************************)
(* write: a tentative cell is replaced in place, a committed one gets a    *)
(* pending write; the byte count gives back what the new payload replaces. *)
(***************************************************************************)
(* Mutated form: an earlier pending write is not given back. *)
ReplacedTentative(s) ==
  IF cells[s].state = "tentative" THEN cells[s].bytes ELSE 0

Replaced(s) ==
  IF cells[s].state = "tentative" THEN cells[s].bytes
  ELSE IF tx.writes[s] = NoWrite THEN 0 ELSE tx.writes[s].bytes

Write(h, ref, p) ==
  LET s == ref[1]
      nextTransient == tx.transientBytes - Replaced(s) + p.bytes IN
  /\ AssertCurrent(h)
  /\ MayAccess(ref)
  /\ \A child \in p.refs : MayPointTo(child)
  /\ nextTransient <= MaxTransientLogicalBytes
  /\ \/ /\ cells[s].state = "tentative"
        /\ cells' = [cells EXCEPT ![s] = WithPayload(@, p)]
        /\ tx' = [tx EXCEPT !.transientBytes = nextTransient]
     \/ /\ cells[s].state = "committed"
        /\ tx' = [tx EXCEPT !.transientBytes = nextTransient, !.writes[s] = p]
        /\ UNCHANGED cells
  /\ UNCHANGED <<versions, length, free, roots, rootsFresh, nextTransactionId,
                 disposed>>

(***************************************************************************)
(* commit: install the pending writes, make the tentative cells committed, *)
(* empty the transaction, and require fresh roots before a collection.     *)
(***************************************************************************)
(* Mutated form: every committed cell takes its entry of the write map,    *)
(* written or not.                                                         *)
InstalledUnchecked(s) ==
  IF s \in Committed THEN [cells[s] EXCEPT !.payload = tx.writes[s]]
  ELSE IF s \in tx.tentative
  THEN [cells[s] EXCEPT !.state = "committed", !.transactionId = 0]
  ELSE cells[s]

Installed(s) ==
  IF tx.writes[s] # NoWrite
  THEN WithPayload(cells[s], tx.writes[s])
  ELSE IF s \in tx.tentative
  THEN [cells[s] EXCEPT !.state = "committed", !.transactionId = 0]
  ELSE cells[s]

Commit(h) ==
  /\ AssertCurrent(h)
  /\ cells' = [s \in Slots |-> Installed(s)]
  /\ tx' = Transaction(tx.id, "committed")
  /\ rootsFresh' = FALSE
  /\ UNCHANGED <<versions, length, free, roots, nextTransactionId, disposed>>

AbortedCells == Deallocated(tx.tentative)

Abort(h) ==
  /\ tx.id = h /\ tx.state = "active"
  /\ cells' = AbortedCells
  /\ free' = Freed(tx.tentative)
  /\ tx' = Transaction(tx.id, "aborted")
  /\ UNCHANGED <<versions, length, roots, rootsFresh, nextTransactionId, disposed>>

(***************************************************************************)
(* Collection.  The mark phase computes the least set of slots that holds  *)
(* the roots' and, with a cell, the cells its payload points to.           *)
(***************************************************************************)
SlotsOf(refs) == {ref[1] : ref \in refs}

ClosedUnderRefs(S) == \A s \in S \cap LiveSlots : SlotsOf(cells[s].payload.refs) \subseteq S

Reachable ==
  {s \in Slots :
     \A S \in SUBSET Slots : SlotsOf(roots) \subseteq S /\ ClosedUnderRefs(S) => s \in S}

(* The sum of size[s] over the slots. *)
TotalBytes(size) ==
  LET Sum[s \in 0..MaxSlots] == IF s = 0 THEN 0 ELSE size[s] + Sum[s - 1]
  IN  Sum[MaxSlots]

ReplaceRoots(R) ==
  /\ AssertNoActiveTransaction
  /\ \A ref \in R : Resolves(ref) /\ CellOf(ref).state = "committed"
  /\ roots' = R
  /\ rootsFresh' = TRUE
  /\ UNCHANGED <<arena, txVars, disposed>>

(* traceClosure throws on a Ref that does not resolve to committed storage. *)
TraceSucceeds ==
  /\ \A ref \in roots : Resolves(ref) /\ CellOf(ref).state = "committed"
  /\ \A s \in Reachable : \A ref \in cells[s].payload.refs :
       Resolves(ref) /\ CellOf(ref).state = "committed"

(* The limits on what survives; a collection that finds more throws before *)
(* it sweeps anything.                                                     *)
WithinLiveLimits ==
  LET live == Reachable IN
  /\ Cardinality(live) <= MaxStorageCells
  /\ TotalBytes([s \in Slots |-> IF s \in live THEN cells[s].bytes ELSE 0]) <= MaxLogicalBytes

Collect ==
  /\ AssertNoActiveTransaction
  /\ rootsFresh
  /\ TraceSucceeds
  /\ WithinLiveLimits
  /\ cells' = Deallocated(Committed \ Reachable)
  /\ free' = Freed(Committed \ Reachable)
  /\ UNCHANGED <<versions, length, roots, rootsFresh, txVars, disposed>>

(* dispose: abort the active transaction, then drop every cell. *)
Dispose ==
  /\ ~disposed
  /\ cells' = Deallocated(1..length)
  /\ free' = Freed(1..length)
  /\ tx' = IF Active THEN Transaction(tx.id, "aborted") ELSE tx
  /\ roots' = {}
  /\ disposed' = TRUE
  /\ UNCHANGED <<versions, length, rootsFresh, nextTransactionId>>

-----------------------------------------------------------------------------

Init ==
  /\ cells = [s \in Slots |-> NoCell]
  /\ versions = [s \in Slots |-> 0]
  /\ length = 0
  /\ free = [s \in Slots |-> 0]
  /\ roots = {}
  /\ rootsFresh = TRUE
  /\ tx = Transaction(0, "none")
  /\ nextTransactionId = 1
  /\ disposed = FALSE

(* Any transaction handle a client ever got, even a terminated one. *)
Handles == 1..(nextTransactionId - 1)

(* Any Ref the arena ever handed out, even a stale one. *)
Issued == {ref \in Ref : ref[2] <= versions[ref[1]]}

Storable == {p \in [bytes : Bytes, refs : PayloadRefs] : p.refs \subseteq Issued}

Next ==
  \/ Begin
  \/ \E h \in Handles :
       \/ \E s \in Slots, p \in Storable : Allocate(h, s, p) \/ AllocateRefused(h, s, p)
       \/ \E ref \in Issued, p \in Storable : Write(h, ref, p)
       \/ Commit(h)
       \/ Abort(h)
  \/ \E R \in PayloadRefs : R \subseteq Issued /\ ReplaceRoots(R)
  \/ Collect
  \/ Dispose

Spec == Init /\ [][Next]_vars

-----------------------------------------------------------------------------

TypeOK ==
  /\ cells \in [Slots -> Cell \cup {NoCell}]
  /\ versions \in [Slots -> 0..MaxVersion]
  /\ length \in 0..MaxSlots
  /\ free \in [Slots -> Nat]
  /\ roots \subseteq Ref
  /\ rootsFresh \in BOOLEAN
  /\ tx \in TransactionImpl
  /\ nextTransactionId \in 1..(MaxTx + 1)
  /\ disposed \in BOOLEAN

(* Referential integrity: whatever sequence of transactions, aborts and    *)
(* collections ran, a Ref stored in a cell, in a pending write or among    *)
(* the roots resolves; committed storage never points at tentative         *)
(* storage, which an abort would take away.                                *)
ReferentialIntegrity ==
  /\ \A ref \in roots : Live(ref) /\ CellOf(ref).state = "committed"
  /\ \A s \in LiveSlots : \A ref \in cells[s].payload.refs :
       Live(ref) /\ (cells[s].state = "committed" => CellOf(ref).state = "committed")
  /\ \A s \in Slots : tx.writes[s] # NoWrite =>
       \A ref \in tx.writes[s].refs : Live(ref)

(* No slot is lost or handed out twice: a slot the arena has grown to is   *)
(* either occupied and not on the free stack, or empty and on it once.     *)
FreeStackExact ==
  \A s \in Slots :
    free[s] = IF s <= length /\ cells[s] = NoCell THEN 1 ELSE 0

(* What slot s is charged for: its tentative cell and its pending write.   *)
Charged ==
  [s \in Slots |->
     (IF cells[s] # NoCell /\ cells[s].state = "tentative" THEN cells[s].payload.bytes ELSE 0)
       + (IF tx.writes[s] # NoWrite THEN tx.writes[s].bytes ELSE 0)]

(* The bytes charged to the transaction are those of its own cells plus    *)
(* those of its pending writes, through any sequence of replacements, and  *)
(* stay within the limit; a terminated transaction is charged nothing.     *)
AccountingExact ==
  /\ tx.transientBytes = TotalBytes(Charged)
  /\ tx.transientBytes <= MaxTransientLogicalBytes
  /\ Cardinality(Tentative) <= MaxTransientStorageCells

(* No storage and no byte goes astray: both of the above.                  *)
StorageExact == FreeStackExact /\ AccountingExact

(* Tentative cells are exactly those of the active transaction; none       *)
(* outlives it.                                                            *)
TentativeOwned ==
  /\ tx.tentative = Tentative
  /\ Tentative # {} => Active
  /\ \A s \in Tentative : cells[s].transactionId = tx.id

(***************************************************************************)
(* Refinement: the arena is an ObjectStore whose objects are the Refs.     *)
(***************************************************************************)
StoreOf ==
  [ref \in Ref |->
     IF Live(ref) /\ CellOf(ref).state = "committed" THEN CellOf(ref).payload ELSE NoWrite]

ViewOf ==
  [ref \in Ref |->
     IF ~Live(ref) THEN NoWrite
     ELSE IF tx.writes[ref[1]] # NoWrite THEN tx.writes[ref[1]]
     ELSE CellOf(ref).payload]

Store == INSTANCE ObjectStore WITH
  Ids <- Ref, Payloads <- Payload, Absent <- NoWrite,
  store <- StoreOf, view <- ViewOf, used <- Issued,
  roots <- roots, running <- Active

(* The Heap implements the object store: identities are never reused,      *)
(* a transaction is invisible until it commits and leaves no trace when it *)
(* aborts, and collection never drops what the roots reach.                *)
StoreSpec == Store!Spec

=============================================================================
