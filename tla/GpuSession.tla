----------------------------- MODULE GpuSession -----------------------------
(***************************************************************************)
(* One GPU execution (runtime/gpu/session.ts): createGpuExecution plans,   *)
(* compiles and allocates; runChunk() dispatches one chunk of every        *)
(* binding, waits for the readback, validates all of it and then delivers  *)
(* its rows; runAll() repeats that.                                        *)
(*                                                                         *)
(* The host is one thread: what happens between two awaits is one action,  *)
(* but for the delivery of a chunk, which takes a step for every row       *)
(* because each row calls the application.  The invocations of a dispatch  *)
(* run beside each other and share the buffers.                            *)
(***************************************************************************)
EXTENDS GpuPlanner, GpuKernel

CONSTANTS
  Callers,          (* clients that call runAll() or runChunk()            *)
  Absent            (* a result cell nobody wrote; null in a datum         *)

(* The capacity of the effect records is the bound the analysis proves.    *)
ASSUME SessionAssumption == MaxEffectsPerRow = EffectBound

Bindings == 1..Executions

VARIABLES
  series,           (* the series of each binding; fixed                   *)
  badTimes,         (* rows whose timestamp is not a safe integer; fixed   *)
  storage,          (* workgroup words the device grants an execution; fixed *)
  session,          (* "planning", "compiling", "allocating", "open",      *)
                    (* "rejected"                                          *)
  cached,           (* offsets the pipeline keeps in workgroup memory      *)
  buffers,          (* "none", "live", "destroyed"                         *)
  jobs,             (* the descriptor of each binding                      *)
  states, cache,    (* execution states, workgroup memory per binding      *)
  results, effectRecords, effectStatus,
  invocation,       (* per binding: where its invocation stands            *)
  host,             (* "idle", "device", "read", "deliver"                 *)
  owner,            (* the caller whose runChunk() is in flight            *)
  outbox,           (* rows of the chunk not yet delivered                 *)
  cursors, failed, disposed,
  call,             (* per caller: "idle", "loop", "all", "chunk",         *)
                    (* "resolved", "rejected"                              *)
  delivered         (* per binding: the datums given to next()             *)

fixed == <<given, series, badTimes, storage>>
device == <<cached, jobs, states, cache, results, effectRecords, effectStatus, invocation>>
chunk == <<host, owner, outbox, cursors, failed, delivered>>
vars == <<fixed, search, session, buffers, device, chunk, disposed, call>>

Rows(e) == Len(series[e])

(* Mutated form: complete one row too late. *)
CompletePast(e) == cursors[e] > Rows(e)

Complete(e) == cursors[e] >= Rows(e)
Inert == chunkRows = 0
Done == Inert \/ \A e \in Bindings : Complete(e)
Running == host # "idle"

-----------------------------------------------------------------------------
(***************************************************************************)
(* The packed resources.                                                   *)
(***************************************************************************)

(* Where each binding's state begins, and after them all, where it ends.    *)
StateOffset[e \in 1..Executions + 1] == IF e = 1 THEN 0 ELSE StateOffset[e - 1] + StateWords(Rows(e - 1))

(* packInitialDescriptors; the host keeps the same offsets. *)
Descriptor(e) ==
  [stateOffset |-> StateOffset[e],
   rowCount |-> Rows(e),
   resultOffset |-> (e - 1) * ResultCapacity(chunkRows),
   resultCount |-> ResultCapacity(chunkRows),
   effectOffset |-> (e - 1) * EffectCapacity(chunkRows),
   effectCapacity |-> EffectCapacity(chunkRows),
   chunkRows |-> Smaller(chunkRows, Rows(e))]

PackedStates ==
  FlattenSeq([i \in Bindings |-> [w \in 1..StateWords(Rows(i)) |-> InitialState(Rows(i))[w - 1]]])

NoResults == [c \in 0..Executions * ResultCapacity(chunkRows) - 1 |-> Absent]
NoRecords == [c \in 0..Executions * EffectCapacity(chunkRows) - 1 |-> <<>>]
NoStatus == [e \in Bindings |-> [count |-> 0, overflow |-> FALSE]]
Retired == [e \in Bindings |-> [at |-> "done", start |-> 0, row |-> 0, count |-> 0]]

-----------------------------------------------------------------------------
(***************************************************************************)
(* createGpuExecution                                                      *)
(***************************************************************************)

Plan == session = "planning" /\ PlannerNext /\ UNCHANGED <<series, badTimes, storage, session, buffers, device, chunk, disposed, call>>

(* Nothing to run opens an inert session, unless declare() throws; a       *)
(* refused plan throws; planPipeline decides what the cache holds.         *)
Planned ==
  /\ session = "planning" /\ plan # "search"
  /\ session' \in IF plan = "refused" THEN {"rejected"}
                   ELSE IF chunkRows = 0 THEN {"open", "rejected"} ELSE {"compiling"}
  /\ cached' = CachedWords(storage)
  /\ UNCHANGED <<jobs, states, cache, results, effectRecords, effectStatus, invocation>>
  /\ UNCHANGED <<fixed, search, buffers, chunk, disposed, call>>

(* Diagnostics reject before a buffer exists.                              *)
Compiled ==
  /\ session = "compiling"
  /\ session' \in {"allocating", "rejected"}
  /\ UNCHANGED <<fixed, search, buffers, device, chunk, disposed, call>>

Allocate ==
  /\ session = "allocating" /\ buffers = "none"
  /\ buffers' = "live"
  /\ jobs' = [e \in Bindings |-> Descriptor(e)]
  /\ states' = [w \in 0..Len(PackedStates) - 1 |-> PackedStates[w + 1]]
  /\ results' = NoResults /\ effectRecords' = NoRecords
  /\ UNCHANGED <<cached, cache, effectStatus, invocation, fixed, search, session, chunk, disposed, call>>

Open ==
  /\ session = "allocating" /\ buffers = "live"
  /\ session' = "open"
  /\ UNCHANGED <<fixed, search, buffers, device, chunk, disposed, call>>

(* A buffer, the pipeline or a declare() callback fails.                   *)
OpenFails ==
  /\ session = "allocating"
  /\ session' = "rejected"
  /\ buffers' = IF buffers = "none" THEN buffers ELSE "destroyed"
  /\ UNCHANGED <<fixed, search, device, chunk, disposed, call>>

-----------------------------------------------------------------------------
(***************************************************************************)
(* The device: the invocation of binding e.                                *)
(***************************************************************************)

Base(e) == jobs[e].stateOffset

(* tea_state_load *)
Visible(e) ==
  [w \in DOMAIN states |-> IF w - Base(e) \in cached THEN cache[e][w - Base(e)] ELSE states[w]]

(* tea_state_store of all the words of m.                                  *)
Store(e, m) ==
  /\ cache' = [cache EXCEPT ![e] = [o \in cached |-> m[Base(e) + o]]]
  /\ states' = [w \in DOMAIN states |-> IF w - Base(e) \in cached THEN states[w] ELSE m[w]]

NextRowWord(e) == Base(e) + WordOffset[<<"nextRow">>]

(* The first dispatch marks the program's own frame active.                *)
Initialized(m, e) ==
  IF m[Base(e) + WordOffset[<<"initialized">>]] # 0 THEN m
  ELSE [m EXCEPT ![Base(e) + WordOffset[<<"initialized">>]] = 1,
                 ![NextRowWord(e)] = 0,
                 ![At(Base(e), "committed", Root)] = 1,
                 ![At(Base(e), "tentative", Root)] = 1]

(* A program's set output is written by the rows that call something.      *)
Emits(value) == Calls[value] # {Root}

(* A range of one row holds the final row of the series and no other. *)
FinalOnly(e) == jobs[e].resultCount = Channels

ResultSlot(e, chunkRow) ==
  jobs[e].resultOffset + (IF FinalOnly(e) THEN 0 ELSE chunkRow) * Channels

Shown(e, row) == ~FinalOnly(e) \/ row + 1 = jobs[e].rowCount

(* No rows, or a range of results too small for them: nothing is done.     *)
Unserved(e) ==
  \/ jobs[e].chunkRows = 0
  \/ ~FinalOnly(e) /\ jobs[e].resultCount \div Channels < jobs[e].chunkRows

(* tea_cache_load, then the head of tea_execute. *)
Start(e) ==
  /\ invocation[e].at = "ready"
  /\ IF Unserved(e)
     THEN /\ invocation' = [invocation EXCEPT ![e].at = "done"]
          /\ UNCHANGED <<states, cache, effectStatus>>
     ELSE \E m \in {Initialized(states, e)} :
          LET start == m[NextRowWord(e)]
          IN
          /\ effectStatus' = [effectStatus EXCEPT ![e] = [count |-> 0, overflow |-> FALSE]]
          /\ Store(e, m)
          /\ invocation' = [invocation EXCEPT ![e] =
               [at |-> IF start >= jobs[e].rowCount THEN "flush" ELSE "rows", start |-> start, row |-> 0,
                count |-> Smaller(jobs[e].chunkRows, jobs[e].rowCount - start)]]
  /\ UNCHANGED <<cached, jobs, results, effectRecords, fixed, search, session, buffers, chunk, disposed, call>>

(* Every call site appends the value of its first local.                   *)
Appended(m, e, row, value) ==
  LET sites == CallSites[value]
  IN [i \in DOMAIN sites |->
       [row |-> row, payload |-> <<sites[i], m[At(Base(e), "scratch", LocalsOf[sites[i]][1])]>>]]

(* emitEffectAppend, once per record. *)
AppendEffects(e, records) ==
  LET used == effectStatus[e].count
      room == jobs[e].effectCapacity - used
      fit == SubSeq(records, 1, Smaller(room, Len(records)))
  IN /\ effectRecords' = [c \in DOMAIN effectRecords |->
          IF c - jobs[e].effectOffset - used \in 0..Len(fit) - 1
          THEN fit[c - jobs[e].effectOffset - used + 1] ELSE effectRecords[c]]
     /\ effectStatus' = [effectStatus EXCEPT ![e] =
          [count |-> used + Len(fit), overflow |-> @.overflow \/ Len(fit) < Len(records)]]

Row(e) ==
  LET run == invocation[e]
      row == run.start + run.row
      value == series[e][row + 1]
  IN
  /\ run.at = "rows" /\ run.row < run.count
  /\ \E before \in {Visible(e)} :
     \E reset \in {Reset(before, Base(e), row)} :
     \E body \in {Body(reset, Base(e), row, value)} :
     \E after \in {Commit(body, Base(e), row)} :
       /\ Store(e, after)
       /\ results' = IF Emits(value) /\ Shown(e, row)
                     THEN [results EXCEPT ![ResultSlot(e, run.row)] =
                             RowResult(body, Base(e), row, value)]
                     ELSE results
       /\ AppendEffects(e, Appended(body, e, row, value))
  /\ invocation' = [invocation EXCEPT ![e].row = @ + 1]
  /\ UNCHANGED <<cached, jobs, fixed, search, session, buffers, chunk, disposed, call>>

EndRows(e) ==
  /\ invocation[e].at = "rows" /\ invocation[e].row = invocation[e].count
  /\ \E m \in {Visible(e)} :
       Store(e, [m EXCEPT ![NextRowWord(e)] = invocation[e].start + invocation[e].count])
  /\ invocation' = [invocation EXCEPT ![e].at = "flush"]
  /\ UNCHANGED <<cached, jobs, results, effectRecords, effectStatus, fixed, search, session, buffers, chunk, disposed, call>>

(* tea_cache_flush *)
Flush(e) ==
  /\ invocation[e].at = "flush"
  /\ states' = Visible(e)
  /\ cache' = [cache EXCEPT ![e] = [o \in {} |-> 0]]
  /\ invocation' = [invocation EXCEPT ![e].at = "done"]
  /\ UNCHANGED <<cached, jobs, results, effectRecords, effectStatus, fixed, search, session, buffers, chunk, disposed, call>>

-----------------------------------------------------------------------------
(***************************************************************************)
(* The host.                                                               *)
(***************************************************************************)

(* executeChunk() up to its first await: the results of the last chunk are *)
(* cleared, every binding is dispatched.                                   *)
Dispatch(c, kind) ==
  /\ host' = "device" /\ owner' = c
  /\ call' = [call EXCEPT ![c] = kind]
  /\ results' = NoResults
  /\ IF EffectCapacity(chunkRows) > 0
     THEN effectRecords' = NoRecords /\ effectStatus' = NoStatus
     ELSE UNCHANGED <<effectRecords, effectStatus>>
  /\ invocation' = [e \in Bindings |-> [Retired[e] EXCEPT !.at = "ready"]]
  /\ UNCHANGED <<cached, jobs, states, cache, outbox, cursors, failed, delivered>>

Answer(c, outcome) ==
  call' = [call EXCEPT ![c] = outcome] /\ UNCHANGED <<device, chunk>>

Refused == disposed \/ failed \/ Running

RunChunk(c) ==
  /\ session = "open" /\ call[c] = "idle"
  /\ IF Refused THEN Answer(c, "rejected")
     ELSE IF Done THEN Answer(c, "resolved")
     ELSE Dispatch(c, "chunk")
  /\ UNCHANGED <<fixed, search, session, buffers, disposed>>

(* while (!this.done) await this.runChunk() *)
Turn(c) ==
  IF Done THEN Answer(c, "resolved")
  ELSE IF Refused THEN Answer(c, "rejected")
  ELSE Dispatch(c, "all")

RunAll(c) ==
  /\ session = "open" /\ call[c] = "idle"
  /\ IF disposed \/ failed THEN Answer(c, "rejected") ELSE Turn(c)
  /\ UNCHANGED <<fixed, search, session, buffers, disposed>>

Again(c) ==
  /\ call[c] = "loop" /\ host # "deliver"
  /\ Turn(c)
  /\ UNCHANGED <<fixed, search, session, buffers, disposed>>

(* Whatever executeChunk() throws, the device may be ahead of the cursors. *)
ChunkFails ==
  /\ host' = "idle" /\ outbox' = <<>>
  /\ failed' = TRUE
  /\ call' = [call EXCEPT ![owner] = "rejected"]
  /\ UNCHANGED <<owner, cursors>>

(* mapAsync resolves when the queue has done the work submitted before it. *)
ReadBack ==
  /\ host = "device" /\ buffers = "live"
  /\ \A e \in Bindings : invocation[e].at = "done"
  /\ host' = "read"
  /\ UNCHANGED <<owner, outbox, cursors, failed, delivered, fixed, search, session, buffers, device, disposed, call>>

(* The device is lost, or its buffers were destroyed.                      *)
ReadFails ==
  /\ host = "device"
  /\ ChunkFails
  /\ invocation' = Retired
  /\ UNCHANGED <<delivered, cached, jobs, states, cache, results, effectRecords, effectStatus>>
  /\ UNCHANGED <<fixed, search, session, buffers, disposed>>

ChunkRowsOf(e) == cursors[e]..cursors[e] + Smaller(chunkRows, Rows(e) - cursors[e]) - 1

Records(e) ==
  [i \in 1..effectStatus[e].count |-> effectRecords[jobs[e].effectOffset + i - 1]]

(* Mutated form: each binding is judged when its own rows go out. *)
InvalidFirst ==
  LET e == CHOOSE b \in Bindings : ChunkRowsOf(b) # {} /\ \A x \in Bindings : ChunkRowsOf(x) # {} => b <= x
  IN effectStatus[e].overflow \/ badTimes[e] \cap ChunkRowsOf(e) # {}

(* One record, cell or timestamp of any binding condemns the chunk.        *)
Invalid ==
  \E e \in Bindings :
    \/ effectStatus[e].overflow
    \/ \E i \in 1..effectStatus[e].count : Records(e)[i].row \notin ChunkRowsOf(e)
    \/ badTimes[e] \cap ChunkRowsOf(e) # {}

Publish ==
  /\ host = "read"
  /\ IF Invalid THEN ChunkFails
     ELSE /\ host' = "deliver"
          /\ outbox' = FlattenSeq([e \in Bindings |->
               [i \in 1..Cardinality(ChunkRowsOf(e)) |->
                  [binding |-> e, row |-> cursors[e] + i - 1]]])
          /\ UNCHANGED <<owner, cursors, failed, call>>
  /\ UNCHANGED <<delivered, fixed, search, session, buffers, device, disposed>>

Datum(e, row) ==
  [row |-> row,
   out |-> results[jobs[e].resultOffset + (row - cursors[e]) * Channels],
   effects |-> FlattenSeq([i \in 1..effectStatus[e].count |->
                 IF Records(e)[i].row = row THEN <<Records(e)[i].payload>> ELSE <<>>])]

(* next() of a binding returns, or throws and fails the session.           *)
Deliver ==
  LET item == Head(outbox)
  IN
  /\ host = "deliver" /\ outbox # <<>>
  /\ delivered' = [delivered EXCEPT ![item.binding] = Append(@, Datum(item.binding, item.row))]
  /\ \/ outbox' = Tail(outbox) /\ UNCHANGED <<host, owner, cursors, failed, call>>
     \/ ChunkFails
  /\ UNCHANGED <<fixed, search, session, buffers, device, disposed>>

Advanced == [e \in Bindings |-> cursors[e] + Cardinality(ChunkRowsOf(e))]

FinishChunk ==
  /\ host = "deliver" /\ outbox = <<>>
  /\ cursors' = Advanced
  /\ host' = "idle"
  /\ call' = [call EXCEPT ![owner] = IF @ = "all" THEN "loop" ELSE "idle"]
  /\ UNCHANGED <<owner, outbox, failed, delivered, fixed, search, session, buffers, device, disposed>>

(* At any time, from within next() too.                                    *)
Dispose ==
  /\ session = "open" /\ ~disposed
  /\ disposed' = TRUE
  /\ buffers' = IF buffers = "live" THEN "destroyed" ELSE buffers
  /\ UNCHANGED <<fixed, search, session, device, chunk, call>>

-----------------------------------------------------------------------------

(* What the host is called with: a series of the program's values and the  *)
(* rows with a bad timestamp for every binding; the planner knows the      *)
(* longest.                                                                *)
SessionGiven ==
  /\ series \in [Bindings -> Seq(DOMAIN Calls)]
  /\ \A e \in Bindings : Rows(e) <= maximumRows
  /\ badTimes \in [Bindings -> SUBSET Nat]
  /\ \A e \in Bindings : \A r \in badTimes[e] : r < Rows(e)

SessionInit ==
  /\ session = "planning" /\ buffers = "none"
  /\ cached = {} /\ jobs = <<>> /\ states = <<>> /\ results = <<>> /\ effectRecords = <<>>
  /\ cache = [e \in Bindings |-> <<>>]
  /\ effectStatus = NoStatus /\ invocation = Retired
  /\ host = "idle" /\ owner = Absent /\ outbox = <<>>
  /\ cursors = [e \in Bindings |-> 0] /\ failed = FALSE /\ disposed = FALSE
  /\ call = [c \in Callers |-> "idle"]
  /\ delivered = [e \in Bindings |-> <<>>]

DeviceStep(e) == Start(e) \/ Row(e) \/ EndRows(e) \/ Flush(e)

HostStep == Publish \/ Deliver \/ FinishChunk

Next ==
  \/ Plan \/ Planned \/ Compiled \/ Allocate \/ Open \/ OpenFails
  \/ \E e \in Bindings : DeviceStep(e)
  \/ \E c \in Callers : RunChunk(c) \/ RunAll(c) \/ Again(c)
  \/ ReadBack \/ ReadFails
  \/ HostStep
  \/ Dispose

(* Submitted work finishes, its readback resolves or rejects, and the      *)
(* event loop runs what is due.                                            *)
Fairness ==
  /\ \A e \in Bindings : WF_vars(DeviceStep(e))
  /\ WF_vars(ReadBack \/ ReadFails)
  /\ WF_vars(HostStep)
  /\ \A c \in Callers : WF_vars(Again(c))

SessionSpec ==
  /\ SessionGiven /\ PlannerInit /\ SessionInit
  /\ [][Next]_vars /\ Fairness

-----------------------------------------------------------------------------

RowMeaning(e, row) ==
  LET value == series[e][row + 1]
      sites == CallSites[value]
  IN [row |-> row,
      out |-> IF Emits(value) THEN Meaning(series[e], row) ELSE Absent,
      effects |-> [i \in DOMAIN sites |->
                    <<sites[i], RowValue(series[e], LocalsOf[sites[i]][1], row)>>]]

TypeOK ==
  /\ session \in {"planning", "compiling", "allocating", "open", "rejected"}
  /\ buffers \in {"none", "live", "destroyed"}
  /\ session = "rejected" => buffers # "live"
  /\ disposed => buffers # "live"
  /\ host \in {"idle", "device", "read", "deliver"}
  /\ call \in [Callers -> {"idle", "loop", "all", "chunk", "resolved", "rejected"}]
  /\ cursors \in [Bindings -> Nat]
  /\ \A e \in Bindings : cursors[e] <= Rows(e)

(* Before a chunk the device stands where the host's cursors are: the host  *)
(* never reads the state of the device, so nothing would bring them back.   *)
DeviceInStep ==
  (buffers = "live" /\ host = "idle" /\ ~failed) =>
    \A e \in Bindings : states[NextRowWord(e)] = cursors[e]

(* The rows of a binding come in order, none twice and none left out, and  *)
(* a runAll() that resolves has delivered them all.                        *)
RowsInOrder ==
  /\ \A e \in Bindings : \A i \in 1..Len(delivered[e]) : delivered[e][i].row = i - 1
  /\ (\E c \in Callers : call[c] = "resolved") =>
       \A e \in Bindings : Len(delivered[e]) = Rows(e)

(* Every datum is what the program means for that row of the binding's own *)
(* series, whatever the chunk, the cache and the other bindings were; the  *)
(* rows come in order and all of them.  Between chunks the device and the  *)
(* host stand at the same row.                                             *)
RowsMeanTheProgram ==
  /\ TypeOK /\ RowsInOrder
  /\ \A e \in Bindings :
       delivered[e] = [i \in 1..Len(delivered[e]) |-> RowMeaning(e, i - 1)]
  /\ DeviceInStep

(* "Decoding validates the entire current chunk before its first Datum is   *)
(* delivered": a bad row of one binding withholds that chunk from all, and  *)
(* a failed session delivers nothing more.                                  *)
ChunksAreAtomic ==
  /\ [](\A e, b \in Bindings : \A r \in badTimes[b] :
          chunkRows > 0 => Len(delivered[e]) <= (r \div chunkRows) * chunkRows)
  /\ [][failed => delivered' = delivered]_vars

(* Every call settles, however the device, the application and other       *)
(* callers behave.                                                          *)
EverySettles ==
  \A c \in Callers : call[c] \in {"loop", "all", "chunk"} ~> call[c] \in {"idle", "resolved", "rejected"}

=============================================================================
