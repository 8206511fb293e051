----------------------------- MODULE MCRuntime -----------------------------
(***************************************************************************)
(* The state of an execution, checked in one run: the arena (Heap), the    *)
(* storage kinds over it (ContextRows) and the alignment of the series a   *)
(* program requests (Requests).  Each is given every client it can have,   *)
(* so they are not joined here: a behaviour follows one of them, and the   *)
(* other two stay as they begin.                                           *)
(***************************************************************************)
EXTENDS Heap, ContextRows, Requests, TLC

VARIABLE part

-----------------------------------------------------------------------------
(* Heap: every set of at most MCMaxRefs Refs may be stored or made the     *)
(* root set.                                                               *)

CONSTANT MCMaxRefs

MCPayloadRefs == {R \in SUBSET Ref : Cardinality(R) <= MCMaxRefs}

-----------------------------------------------------------------------------
(* ContextRows: main calls "outer", which calls "inner".  A varip binding  *)
(* of main, a var of the call and a per-bar one nested in it, any of which *)
(* may hold an object, and one input of main, an array read one row back.  *)

CONSTANTS main, outer, inner, plain, ticks, count, bars, empty

MCFrames == {main, outer, inner}
MCAbove == main :> {main} @@ outer :> {main, outer} @@ inner :> MCFrames
MCLocals == {plain, ticks, count}
MCFrameOf == plain :> inner @@ ticks :> main @@ count :> outer
MCStorage == plain :> "perBar" @@ ticks :> "varip" @@ count :> "var"
MCDepth == plain :> 2 @@ ticks :> 1 @@ count :> 0
MCInputs == {bars}
MCInputDepth == bars :> 1
MCPlain == {empty}

-----------------------------------------------------------------------------
(* Requests: every policy, sampled with both fills, paired, grouped by two *)
(* and windowed.                                                           *)

MCRequest(policy, sparse, n, timed) ==
  [policy |-> policy, sparse |-> sparse, count |-> n, timed |-> timed]

MCRequests ==
  {MCRequest("sample", FALSE, 1, TRUE), MCRequest("sample", TRUE, 1, TRUE),
   MCRequest("eventWindow", FALSE, 1, TRUE),
   MCRequest("oneToOne", FALSE, 1, FALSE), MCRequest("countWindow", FALSE, 2, FALSE)}

MCTimes == {0, 1, 2}

ASSUME RequestsAssumption

-----------------------------------------------------------------------------

MCInit ==
  /\ part \in {"heap", "context", "requests"}
  /\ Init
  /\ RInit /\ (part # "context" => collected = {})
  /\ RequestInit /\ (part # "requests" => spec = MCRequest("oneToOne", FALSE, 1, FALSE))

MCNext ==
  /\ UNCHANGED part
  /\ \/ part = "heap" /\ Next /\ UNCHANGED <<contextVars, rowVars, requestVars>>
     \/ part = "context" /\ RNext /\ UNCHANGED <<vars, requestVars>>
     \/ part = "requests" /\ RequestNext /\ UNCHANGED <<vars, contextVars, rowVars>>

MCSpec == MCInit /\ [][MCNext]_<<part, vars, contextVars, rowVars, requestVars>>
=============================================================================
