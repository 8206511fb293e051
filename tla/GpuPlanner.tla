----------------------------- MODULE GpuPlanner -----------------------------
(***************************************************************************)
(* How many rows a dispatch may run (runtime/gpu/session.ts, planResources): *)
(* a binary search for the largest chunk whose results and effect records  *)
(* fit the buffers of the device.                                          *)
(*                                                                         *)
(* Sizes are counted in cells.  What does not grow with the chunk either   *)
(* fits or fails the minimum plan, so it is part of the limit; a product   *)
(* outside the safe integers is one more way not to fit.                   *)
(***************************************************************************)
EXTENDS Integers

CONSTANTS
  Executions,       (* how many bindings run at once                       *)
  Channels,         (* cells of one row of results                         *)
  MaxEffectsPerRow  (* what the effect analysis allows a row to append     *)

ASSUME PlannerAssumption ==
  Executions \in Nat /\ Channels \in Nat /\ MaxEffectsPerRow \in Nat

VARIABLES
  limit,            (* cells the device allows in one buffer; fixed        *)
  maximumRows,      (* the longest binding; fixed                          *)
  plan,             (* "search", "selected", "refused"                     *)
  low, high,        (* chunk sizes still to be decided                     *)
  chunkRows         (* the plan selected so far; 0 before there is one     *)

search == <<plan, low, high, chunkRows>>
given == <<limit, maximumRows>>

(* Mutated form: exactly as many cells as rows. *)
ResultCapacityExact(chunk) == chunk * Channels

(* Two rows at least, because a range of one row means "final row only".   *)
ResultCapacity(chunk) == (IF chunk < 2 THEN 2 ELSE chunk) * Channels

EffectCapacity(chunk) == chunk * MaxEffectsPerRow

(* resourcesFitDeviceBufferLimits *)
Fits(chunk) ==
  /\ Executions * ResultCapacity(chunk) <= limit
  /\ Executions * EffectCapacity(chunk) <= limit

PlannerInit ==
  /\ limit \in Nat /\ maximumRows \in Nat
  /\ plan = "search" /\ low = 2 /\ high = maximumRows /\ chunkRows = 0

(* Nothing to run: no resources and no chunk. *)
PlanNothing ==
  /\ plan = "search" /\ chunkRows = 0
  /\ Executions = 0 \/ maximumRows = 0
  /\ plan' = "selected" /\ UNCHANGED <<low, high, chunkRows>>

(* The irreducible plan of one row must fit, or createGpuExecution throws. *)
PlanMinimum ==
  /\ plan = "search" /\ chunkRows = 0
  /\ Executions # 0 /\ maximumRows # 0
  /\ IF Fits(1) THEN chunkRows' = 1 /\ UNCHANGED plan
     ELSE plan' = "refused" /\ UNCHANGED chunkRows
  /\ UNCHANGED <<low, high>>

(* Mutated form: the last candidate is never tried. *)
MoreThanOne == low < high

Undecided == low <= high

Middle == (low + high) \div 2

Probe ==
  /\ plan = "search" /\ chunkRows # 0 /\ Undecided
  /\ IF Fits(Middle) THEN chunkRows' = Middle /\ low' = Middle + 1 /\ UNCHANGED high
     ELSE high' = Middle - 1 /\ UNCHANGED <<chunkRows, low>>
  /\ UNCHANGED plan

Select ==
  /\ plan = "search" /\ chunkRows # 0 /\ ~Undecided
  /\ plan' = "selected" /\ UNCHANGED <<low, high, chunkRows>>

PlannerNext == (PlanNothing \/ PlanMinimum \/ Probe \/ Select) /\ UNCHANGED given

PlannerSpec == PlannerInit /\ [][PlannerNext]_<<given, search>>

(* The search ends with the largest chunk the device admits, and refuses   *)
(* only bindings of which not even one row fits (session.ts, "binary search *)
(* selects the largest chunk admitted by the concrete device").            *)
LargestChunk ==
  /\ (plan = "selected" /\ chunkRows # 0) =>
       /\ chunkRows \in 1..maximumRows /\ Fits(chunkRows)
       /\ \A more \in chunkRows + 1..maximumRows : ~Fits(more)
  /\ plan = "refused" => ~Fits(1)
=============================================================================
