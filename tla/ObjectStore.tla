----------------------------- MODULE ObjectStore -----------------------------
(***************************************************************************)
(* What the runtime Heap promises the code above it, with slots, versions, *)
(* free list, write set and mark-sweep left out: a set of objects that     *)
(* never change identity, a committed snapshot of their payloads, and the  *)
(* view of the one transaction that may be running.                        *)
(*                                                                         *)
(* Heap.tla implements this module (Heap!Store).                           *)
(***************************************************************************)

CONSTANTS
  Ids,        (* object identities                                         *)
  Payloads,   (* what an object may hold; p.refs is the set of its Refs    *)
  Absent      (* the object does not exist                                 *)

VARIABLES
  store,      (* committed payload of every object, or Absent              *)
  view,       (* what the running transaction reads; store when none runs  *)
  used,       (* identities that were ever taken                           *)
  roots,      (* objects the runtime keeps alive                           *)
  running     (* a transaction is running                                  *)

vars == <<store, view, used, roots, running>>

Exists(snapshot) == {id \in Ids : snapshot[id] # Absent}

(* Every object of the snapshot refers only to objects of the snapshot. *)
Closed(snapshot) ==
  \A id \in Exists(snapshot) : snapshot[id].refs \subseteq Exists(snapshot)

TypeOK ==
  /\ store \in [Ids -> Payloads \cup {Absent}]
  /\ view \in [Ids -> Payloads \cup {Absent}]
  /\ used \subseteq Ids
  /\ roots \subseteq Ids
  /\ running \in BOOLEAN

Init ==
  /\ store = [id \in Ids |-> Absent]
  /\ view = store
  /\ used = {}
  /\ roots = {}
  /\ running = FALSE

(* Nothing but the transaction's own view changes while it runs. *)
Begin ==
  /\ ~running
  /\ running' = TRUE
  /\ UNCHANGED <<store, view, used, roots>>

(* A new object takes an identity nobody has ever held. *)
Allocate(id, p) ==
  /\ running
  /\ id \notin used
  /\ p.refs \subseteq Exists(view)
  /\ view' = [view EXCEPT ![id] = p]
  /\ used' = used \cup {id}
  /\ UNCHANGED <<store, roots, running>>

(* A refused allocation may waste an identity. *)
Waste(id) ==
  /\ running
  /\ id \notin used
  /\ used' = used \cup {id}
  /\ UNCHANGED <<store, view, roots, running>>

Write(id, p) ==
  /\ running
  /\ id \in Exists(view)
  /\ p.refs \subseteq Exists(view)
  /\ view' = [view EXCEPT ![id] = p]
  /\ UNCHANGED <<store, used, roots, running>>

Commit ==
  /\ running
  /\ store' = view
  /\ running' = FALSE
  /\ UNCHANGED <<view, used, roots>>

Abort ==
  /\ running
  /\ view' = store
  /\ running' = FALSE
  /\ UNCHANGED <<store, used, roots>>

ReplaceRoots(R) ==
  /\ ~running
  /\ R \subseteq Exists(store)
  /\ roots' = R
  /\ UNCHANGED <<store, view, used, running>>

(* Collection may drop any objects, as long as the roots stay and nothing  *)
(* that stays refers to something that went.                               *)
Collect(kept) ==
  /\ ~running
  /\ roots \subseteq kept
  /\ kept \subseteq Exists(store)
  /\ store' = [id \in Ids |-> IF id \in kept THEN store[id] ELSE Absent]
  /\ Closed(store')
  /\ view' = store'
  /\ UNCHANGED <<used, roots, running>>

Dispose ==
  /\ store' = [id \in Ids |-> Absent]
  /\ view' = store'
  /\ roots' = {}
  /\ running' = FALSE
  /\ UNCHANGED used

Next ==
  \/ \E R \in SUBSET Ids : ReplaceRoots(R)
  \/ Begin
  \/ \E id \in Ids, p \in Payloads : Allocate(id, p) \/ Write(id, p)
  \/ \E id \in Ids : Waste(id)
  \/ Commit
  \/ Abort
  \/ \E kept \in SUBSET Ids : Collect(kept)
  \/ Dispose

Spec == Init /\ [][Next]_vars

=============================================================================
