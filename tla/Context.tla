------------------------------ MODULE Context ------------------------------
(***************************************************************************)
(* One execution of a module: Context.step (runtime/js/context.ts) over    *)
(* the attempt it runs, Step (runtime/js/state-update.ts).                 *)
(*                                                                         *)
(* A row of the execution is tried any number of times provisionally and   *)
(* once finally.  Each attempt runs main over the committed histories, the *)
(* intermediate values carried from the last accepted attempt and a write  *)
(* set of its own.  An attempt that returns is accepted: its intermediate  *)
(* values are adopted, and, when it is final, so are its histories.  One   *)
(* that throws leaves nothing behind.                                      *)
(*                                                                         *)
(* main is any sequence of the operations the generated code performs.     *)
(* The tree of written calls is fixed by the module, so a frame is named   *)
(* by its path and null subframes are frames that are not active.          *)
(***************************************************************************)
EXTENDS Naturals, Sequences, FiniteSets

CONSTANTS
  Frames, Root,         (* the written calls, and main itself              *)
  Above,                (* Above[f]: f and the calls it is nested in       *)
  Locals,               (* the bindings of all frames                      *)
  FrameOf,              (* the frame of a binding                          *)
  Storage,              (* "perBar", "var" or "varip"                      *)
  Depth,                (* how far back the code reads a binding           *)
  Inputs, InputDepth,   (* series, builtins and requests, and their depths *)
  Plain, Empty,         (* values without identity, among them the empty   *)
                        (* value of every type                             *)
  MaxObjects,           (* bound: objects ever allocated                   *)
  MaxAttempts,          (* bound: calls of Context.step                    *)
  MaxOps,               (* bound: operations in one attempt, a collection counts *)
  None, Gone            (* no entry; no such object                        *)

Objects == 1..MaxObjects
Val == Plain \cup Objects

LocalWrite == [value : Val, initialized : BOOLEAN, first : Val \cup {None}]
Carry == [value : Val, initialized : BOOLEAN]

ASSUME ContextAssumption ==
  /\ Root \in Frames
  /\ Above \in [Frames -> SUBSET Frames]
  /\ Above[Root] = {Root}
  /\ \A f \in Frames : f \in Above[f] /\ Root \in Above[f]
  /\ \A f \in Frames : \A g \in Above[f] : Above[g] \subseteq Above[f]
  /\ FrameOf \in [Locals -> Frames]
  /\ Storage \in [Locals -> {"perBar", "var", "varip"}]
  /\ Depth \in [Locals -> Nat]
  /\ InputDepth \in [Inputs -> Nat]
  /\ IsFiniteSet(Inputs)
  /\ Empty \in Plain
  /\ MaxObjects \in Nat /\ MaxAttempts \in Nat /\ MaxOps \in Nat
  /\ None \notin Val \cup LocalWrite \cup Carry /\ Gone \notin Val
  /\ \A p \in Plain : p \notin Objects

VARIABLES
  collected,        (* the inputs that arrive as an array; fixed           *)
  active,           (* RootState: frames that have ever executed           *)
  history,          (* per binding, committed values, newest first         *)
  initialized,      (* bindings whose initializer has been committed       *)
  inputHistory,     (* per input, committed values, newest first           *)
  carriedActive,    (* IntermediateState: frames that have executed        *)
  carried,          (* per binding, None or what the next attempt starts   *)
                    (* from                                                *)
  objects,          (* the heap: what each object holds, or Gone           *)
  allocated,        (* objects ever allocated; identities are not reused   *)
  running,          (* an attempt is running                               *)
  provisional,      (* ... and will not be committed                       *)
  input,            (* its inputs                                          *)
  called,           (* frames main has opened                              *)
  writes,           (* its write set                                       *)
  view,             (* the heap as its transaction sees it                 *)
  ops,              (* operations main has performed                       *)
  attempts,         (* calls of Context.step                               *)
  over              (* disposed                                            *)

committed == <<collected, active, history, initialized, inputHistory>>
intermediate == <<carriedActive, carried>>
attempt == <<running, provisional, input, called, writes, view, ops>>
contextVars == <<committed, intermediate, objects, allocated, attempt, attempts, over>>

Persistent(l) == Storage[l] \in {"var", "varip"}

-----------------------------------------------------------------------------
(***************************************************************************)
(* Reads: the write set first, then the value the attempt starts from.     *)
(***************************************************************************)

StartValue(l) ==
  IF Storage[l] = "var" /\ initialized[l]
  THEN IF history[l] = <<>> THEN Empty ELSE Head(history[l])
  ELSE IF Persistent(l) /\ carried[l] # None THEN carried[l].value ELSE Empty

CurrentValue(l) == IF writes[l] # None THEN writes[l].value ELSE StartValue(l)

Read(l, offset) ==
  IF offset = 0 THEN CurrentValue(l)
  ELSE IF offset <= Len(history[l]) THEN history[l][offset] ELSE Empty

Initialized(l) ==
  IF writes[l] # None THEN writes[l].initialized
  ELSE IF carried[l] # None THEN carried[l].initialized
  ELSE Persistent(l) /\ initialized[l]

(* The first initializer of a var whose row has not committed, or None.    *)
InitialValue(l) ==
  IF writes[l] # None THEN writes[l].first
  ELSE IF Storage[l] = "var" /\ ~initialized[l] /\ carried[l] # None THEN carried[l].value
  ELSE None

-----------------------------------------------------------------------------
(***************************************************************************)
(* The heap at the granularity of ObjectStore: an object holds one value.  *)
(***************************************************************************)

(* What the objects of S lead to in one or more steps, and S itself. *)
Pointed(heap, S) == {heap[o] : o \in S} \cap Objects

Closure(heap, S) ==
  {o \in Objects : \A T \in SUBSET Objects :
     S \subseteq T /\ Pointed(heap, T) \subseteq T => o \in T}

InHistories == UNION {{history[l][k] : k \in 1..Len(history[l])} : l \in Locals}
InInputs == UNION {{inputHistory[i][k] : k \in 1..Len(inputHistory[i])} : i \in Inputs}
InCarried == {carried[l].value : l \in {m \in Locals : carried[m] # None}}

(* Mutated form: carried values are not roots. *)
RootsWithoutCarry == (InHistories \cup InInputs) \cap Objects

DiscoverRoots == (InHistories \cup InInputs \cup InCarried) \cap Objects

Swept == [o \in Objects |-> IF o \in Closure(objects, DiscoverRoots) THEN objects[o] ELSE Gone]

(* What main can hold a reference to: what it reads, what it has allocated *)
(* or assigned, and what those lead to.                                    *)
Held ==
  LET direct == {CurrentValue(l) : l \in {m \in Locals : FrameOf[m] \in called}}
                  \cup InHistories \cup InInputs \cup {input[i] : i \in Inputs}
                  \cup {o \in Objects : view[o] # Gone /\ objects[o] = Gone}
  IN Closure(view, direct \cap Objects)

Operand == Plain \cup Held

-----------------------------------------------------------------------------
(***************************************************************************)
(* The operations of main.                                                 *)
(***************************************************************************)

Operate == running /\ ops < MaxOps /\ ops' = ops + 1

(* frame(): open a call nested in frames already open. *)
Call(f) ==
  /\ Operate
  /\ f \notin called /\ Above[f] \ {f} \subseteq called
  /\ called' = called \cup {f}
  /\ UNCHANGED <<committed, intermediate, objects, allocated, running, provisional,
                 input, writes, view, attempts, over>>

(* Generated code assigns a persistent binding only past its initializer.  *)
WriteLocal(l, v) ==
  /\ Operate
  /\ FrameOf[l] \in called
  /\ Persistent(l) => Initialized(l)
  /\ writes' = [writes EXCEPT ![l] =
       [value |-> v, initialized |-> Initialized(l), first |-> InitialValue(l)]]
  /\ UNCHANGED <<committed, intermediate, objects, allocated, running, provisional,
                 input, called, view, attempts, over>>

Initialize(l, v) ==
  /\ Operate
  /\ FrameOf[l] \in called
  /\ Persistent(l) /\ ~Initialized(l)
  /\ writes' = [writes EXCEPT ![l] =
       [value |-> v, initialized |-> TRUE,
        first |-> IF Storage[l] = "var" /\ ~initialized[l] THEN v ELSE None]]
  /\ UNCHANGED <<committed, intermediate, objects, allocated, running, provisional,
                 input, called, view, attempts, over>>

NewStruct(v) ==
  /\ Operate
  /\ allocated < MaxObjects
  /\ allocated' = allocated + 1
  /\ view' = [view EXCEPT ![allocated + 1] = v]
  /\ UNCHANGED <<committed, intermediate, objects, running, provisional, input, called,
                 writes, attempts, over>>

StoreField(o, v) ==
  /\ Operate
  /\ view' = [view EXCEPT ![o] = v]
  /\ UNCHANGED <<committed, intermediate, objects, allocated, running, provisional,
                 input, called, writes, attempts, over>>

-----------------------------------------------------------------------------
(***************************************************************************)
(* Context.step.                                                           *)
(***************************************************************************)

NothingWritten == [l \in Locals |-> None]

(* Live, not nested, roots replaced and collected; then the inputs are     *)
(* validated and the transaction begins.  A collected request becomes an   *)
(* array allocated in that transaction.                                    *)
Step(p, in) ==
  /\ ~over /\ ~running /\ attempts < MaxAttempts
  /\ allocated + Cardinality(collected) <= MaxObjects
  /\ running' = TRUE
  /\ provisional' = p
  /\ called' = {Root}
  /\ writes' = NothingWritten
  /\ ops' = Cardinality(collected)
  /\ attempts' = attempts + 1
  /\ objects' = Swept
  /\ \E array \in [collected -> (allocated + 1)..(allocated + Cardinality(collected))] :
       /\ \A i, j \in collected : array[i] = array[j] => i = j
       /\ input' = [i \in Inputs |-> IF i \in collected THEN array[i] ELSE in[i]]
       /\ view' = [o \in Objects |->
            IF \E i \in collected : array[i] = o
            THEN in[CHOOSE i \in collected : array[i] = o]
            ELSE Swept[o]]
  /\ allocated' = allocated + Cardinality(collected)
  /\ UNCHANGED <<committed, intermediate, over>>

(* The step is refused: by the heap's limits before anything is collected, *)
(* or by validateInput after.                                              *)
Refused ==
  /\ ~over /\ ~running /\ attempts < MaxAttempts
  /\ attempts' = attempts + 1
  /\ objects' \in {objects, Swept}
  /\ UNCHANGED <<committed, intermediate, allocated, attempt, over>>

(* Mutated form: only frames this attempt opened advance. *)
OpenedOnly == {f \in Frames : Above[f] \subseteq called}

(* Frames that advance: opened by main, or active before and skipped.      *)
Advancing == {f \in Frames : Above[f] \subseteq called \cup active \cup carriedActive}

Keep(l) == IF Persistent(l) /\ Depth[l] = 0 THEN 1 ELSE Depth[l]

CommitHistory(values, value, keep) ==
  LET all == <<value>> \o values IN SubSeq(all, 1, IF keep < Len(all) THEN keep ELSE Len(all))

(* finishRoot *)
CommitRow ==
  /\ active' = active \cup Advancing
  /\ history' = [l \in Locals |->
       IF FrameOf[l] \in Advancing THEN CommitHistory(history[l], CurrentValue(l), Keep(l))
       ELSE history[l]]
  /\ initialized' = [l \in Locals |->
       IF FrameOf[l] \in Advancing THEN Persistent(l) /\ Initialized(l) ELSE initialized[l]]
  /\ inputHistory' = [i \in Inputs |-> CommitHistory(inputHistory[i], input[i], InputDepth[i])]

(* finishIntermediateState of one binding *)
CarryNext(l) ==
  IF Storage[l] = "varip"
  THEN [value |-> CurrentValue(l), initialized |-> Initialized(l)]
  ELSE IF Storage[l] = "var" /\ ~initialized[l] /\ InitialValue(l) # None
  THEN [value |-> InitialValue(l), initialized |-> Initialized(l)]
  ELSE None

EndAttempt ==
  /\ running' = FALSE
  /\ provisional' = FALSE
  /\ input' = [i \in Inputs |-> Empty]
  /\ called' = {}
  /\ writes' = NothingWritten
  /\ view' = [o \in Objects |-> Gone]
  /\ ops' = 0

(* main returned: the histories and the intermediate values are prepared,  *)
(* the heap transaction commits, and Context adopts them.                  *)
Return ==
  /\ running
  /\ objects' = view
  /\ carriedActive' = carriedActive \cup Advancing
  /\ carried' = [l \in Locals |-> IF FrameOf[l] \in Advancing THEN CarryNext(l) ELSE carried[l]]
  /\ IF provisional THEN UNCHANGED committed ELSE CommitRow /\ UNCHANGED collected
  /\ EndAttempt
  /\ UNCHANGED <<allocated, attempts, over>>

(* main, or the commit, threw: the transaction aborts. *)
Throw ==
  /\ running
  /\ EndAttempt
  /\ UNCHANGED <<committed, intermediate, objects, allocated, attempts, over>>

DisposeContext ==
  /\ ~running /\ ~over
  /\ over' = TRUE
  /\ objects' = [o \in Objects |-> Gone]
  /\ UNCHANGED <<committed, intermediate, allocated, attempt, attempts>>

-----------------------------------------------------------------------------

ContextInit ==
  /\ collected \in SUBSET Inputs
  /\ active = {Root}
  /\ history = [l \in Locals |-> <<>>]
  /\ initialized = [l \in Locals |-> FALSE]
  /\ inputHistory = [i \in Inputs |-> <<>>]
  /\ carriedActive = {Root}
  /\ carried = [l \in Locals |-> None]
  /\ objects = [o \in Objects |-> Gone]
  /\ allocated = 0
  /\ running = FALSE /\ provisional = FALSE
  /\ input = [i \in Inputs |-> Empty]
  /\ called = {}
  /\ writes = NothingWritten
  /\ view = [o \in Objects |-> Gone]
  /\ ops = 0
  /\ attempts = 0
  /\ over = FALSE

Quiet ==
  \/ \E p \in BOOLEAN, in \in [Inputs -> Plain] : Step(p, in)
  \/ Refused
  \/ \E f \in Frames : Call(f)
  \/ \E l \in Locals, v \in Operand : WriteLocal(l, v)
  \/ \E v \in Operand : NewStruct(v)
  \/ \E o \in Held, v \in Operand : StoreField(o, v)
  \/ Throw
  \/ DisposeContext

ContextNext ==
  \/ Quiet
  \/ \E l \in Locals, v \in Operand : Initialize(l, v)
  \/ Return

ContextSpec == ContextInit /\ [][ContextNext]_contextVars

-----------------------------------------------------------------------------

ContextTypeOK ==
  /\ collected \subseteq Inputs
  /\ active \subseteq Frames /\ carriedActive \subseteq Frames /\ called \subseteq Frames
  /\ history \in [Locals -> Seq(Val)]
  /\ initialized \in [Locals -> BOOLEAN]
  /\ inputHistory \in [Inputs -> Seq(Val)]
  /\ carried \in [Locals -> Carry \cup {None}]
  /\ objects \in [Objects -> Val \cup {Gone}]
  /\ view \in [Objects -> Val \cup {Gone}]
  /\ allocated \in 0..MaxObjects
  /\ running \in BOOLEAN /\ provisional \in BOOLEAN /\ over \in BOOLEAN
  /\ input \in [Inputs -> Val]
  /\ writes \in [Locals -> LocalWrite \cup {None}]
  /\ ops \in Nat
  /\ attempts \in 0..MaxAttempts

(* Every object the retained state or the running attempt refers to, and   *)
(* whatever those lead to, is in the heap: nothing a later attempt could   *)
(* read was collected, and nothing an aborted attempt allocated leaked in. *)
LiveIn(heap) == {o \in Objects : heap[o] # Gone}

RetainedLive ==
  ~over =>
    /\ Closure(objects, DiscoverRoots) \subseteq LiveIn(objects)
    /\ running => Held \subseteq LiveIn(view)

=============================================================================
