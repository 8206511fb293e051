---------------------------- MODULE BatchRecipe ----------------------------
(***************************************************************************)
(* A batch recipe (recipe/batch) that runs a Node into a CSVSink           *)
(* (api/sink.ts): execute() binds, starts the Node, waits for its end and  *)
(* for the sink's completion, and disposes the Node.                           *)
(*                                                                         *)
(* The Node's run is NodeRun's; here it delivers rows and ends.  The       *)
(* stringifier and the write stream are Node.js streams: rows written to   *)
(* the first reach the file later, in order, and an error or `finish`      *)
(* comes when it comes.                                                    *)
(***************************************************************************)
EXTENDS Naturals, SequencesExt

CONSTANTS
  MaxRows,      (* bound: rows the Node delivers                           *)
  Header, Old   (* the header, what the file held before                   *)

ASSUME BatchAssumption == MaxRows \in Nat

VARIABLES
  bad,          (* the rows the sink rejects; fixed                        *)
  declared,     (* the sink was given a schema; fixed                      *)
  appends,      (* it appends to a file that has rows; fixed               *)
  recipe,       (* execute(): "bind", "start", "wait", "resolved", "rejected" *)
  node,         (* "bound", "running", "ended", "disposed"                 *)
  nodeCompletion, (* "pending", "resolved", "rejected"                     *)
  rows,         (* rows the Node has delivered                             *)
  fileStopped, fileCompletion, (* of the sink                             *)
  columns,      (* the sink knows its columns                              *)
  csv,          (* "none", "open", "ended", "destroyed": the stringifier   *)
  output,       (* "none", "open", "finished", "failed": the write stream  *)
  queue,        (* lines between the two                                   *)
  file,         (* the lines of the file                                   *)
  told          (* history: the ends the sink was told of                  *)

run == <<recipe, node, nodeCompletion, rows>>
promise == <<fileStopped, fileCompletion>>
streams == <<columns, csv, output, queue, file>>
given == <<bad, declared, appends>>
batchVars == <<given, run, promise, streams, told>>

-----------------------------------------------------------------------------
(***************************************************************************)
(* The sink.                                                               *)
(***************************************************************************)

OutputDestroyed == IF output = "open" THEN "failed" ELSE output

(* fail(): the first failure stops the sink and destroys its streams.      *)
FailFile ==
  IF fileCompletion # "pending" THEN UNCHANGED <<promise, streams>>
  ELSE /\ fileStopped' = TRUE /\ fileCompletion' = "rejected"
       /\ csv' = IF csv = "none" THEN csv ELSE "destroyed"
       /\ output' = OutputDestroyed
       /\ UNCHANGED <<columns, queue, file>>

(* Mutated form: a header is written whatever the file holds. *)
HeaderAgain == <<Header>>

FirstLines == IF appends THEN <<>> ELSE <<Header>>

(* open() and what is sent through it; mode "w" truncates the file.        *)
Through(lines, end) ==
  /\ csv' = end
  /\ output' = IF csv = "none" THEN "open" ELSE output
  /\ queue' = IF csv = "none" THEN FirstLines \o lines ELSE queue \o lines
  /\ file' = IF csv = "none" /\ ~appends THEN <<>> ELSE file

(* write() *)
WriteRow(row) ==
  IF fileStopped THEN UNCHANGED <<promise, streams>>
  ELSE IF row \in bad THEN FailFile
  ELSE /\ columns' = TRUE
       /\ Through(<<row>>, "open")
       /\ UNCHANGED promise

(* Mutated form: without columns there is nothing to write. *)
NoFile == UNCHANGED streams

(* finishEmptyFile() *)
FinishEmptyFile ==
  /\ output' = "open" /\ file' = <<>> /\ csv' = "ended"
  /\ UNCHANGED <<columns, queue>>

(* complete() *)
CompleteFile ==
  IF fileStopped THEN UNCHANGED <<promise, streams>>
  ELSE /\ fileStopped' = TRUE
       /\ \/ csv # "none" /\ csv' = "ended" /\ UNCHANGED <<fileCompletion, columns, output, queue, file>>
          \/ csv = "none" /\ appends /\ fileCompletion' = "resolved" /\ UNCHANGED streams
          \/ csv = "none" /\ ~appends /\ columns /\ Through(<<>>, "ended") /\ UNCHANGED <<fileCompletion, columns>>
          \/ csv = "none" /\ ~appends /\ ~columns /\ FinishEmptyFile /\ UNCHANGED fileCompletion

(* The write stream takes a line. *)
FlushLine ==
  /\ output = "open" /\ queue # <<>>
  /\ file' = Append(file, Head(queue)) /\ queue' = Tail(queue)
  /\ UNCHANGED <<run, promise, columns, csv, output, told>>

(* `finish`: succeed() *)
Finish ==
  /\ output = "open" /\ csv = "ended" /\ queue = <<>>
  /\ output' = "finished"
  /\ fileCompletion' = IF fileCompletion = "pending" THEN "resolved" ELSE fileCompletion
  /\ UNCHANGED <<run, fileStopped, columns, csv, queue, file, told>>

(* An error of either stream. *)
StreamError ==
  /\ output = "open"
  /\ FailFile
  /\ UNCHANGED <<run, told>>

-----------------------------------------------------------------------------
(***************************************************************************)
(* execute()                                                               *)
(***************************************************************************)

(* What failed before the Node ran is the observer's error too. *)
Unsubscribed ==
  /\ FailFile /\ told' = Append(told, "error")
  /\ recipe' = "rejected" /\ node' = "disposed"
  /\ UNCHANGED <<nodeCompletion, rows>>

(* bind() succeeds or throws. *)
Bind ==
  /\ recipe = "bind"
  /\ \/ recipe' = "start" /\ UNCHANGED <<node, nodeCompletion, rows, promise, streams, told>>
     \/ Unsubscribed

(* to() subscribes or throws. *)
Start ==
  /\ recipe = "start"
  /\ \/ /\ recipe' = "wait" /\ node' = "running"
        /\ UNCHANGED <<nodeCompletion, rows, promise, streams, told>>
     \/ Unsubscribed

(* The Node delivers a row. *)
NodeDelivers ==
  /\ node = "running" /\ rows < MaxRows
  /\ rows' = rows + 1
  /\ WriteRow(rows + 1)
  /\ UNCHANGED <<recipe, node, nodeCompletion, told>>

(* The Node completes. *)
NodeCompletes ==
  /\ node = "running"
  /\ node' = "ended"
  /\ CompleteFile
  /\ told' = Append(told, "complete")
  /\ nodeCompletion' = "resolved"
  /\ UNCHANGED <<recipe, rows>>

(* The input, the program or the observer's delivery fails the run. *)
NodeFails ==
  /\ node = "running"
  /\ node' = "ended"
  /\ FailFile
  /\ told' = Append(told, "error")
  /\ nodeCompletion' = "rejected"
  /\ UNCHANGED <<recipe, rows>>

(* dispose() completes the observers of a run that is not over.            *)
ToldOnDispose == IF node = "running" THEN Append(told, "complete") ELSE told

BothResolved == fileCompletion = "resolved" /\ nodeCompletion = "resolved"

(* Promise.all resolves with both and rejects with the first rejection;    *)
(* finally disposes the Node.                                              *)
Settle ==
  /\ recipe = "wait"
  /\ \/ BothResolved /\ recipe' = "resolved"
     \/ /\ fileCompletion = "rejected" \/ nodeCompletion = "rejected"
        /\ recipe' = "rejected"
  /\ node' = "disposed" /\ told' = ToldOnDispose
  /\ UNCHANGED <<nodeCompletion, rows, promise, streams>>

BatchInit ==
  /\ bad \in SUBSET (1..MaxRows) /\ declared \in BOOLEAN /\ appends \in BOOLEAN
  /\ recipe = "bind" /\ node = "bound" /\ nodeCompletion = "pending" /\ rows = 0
  /\ fileStopped = FALSE /\ fileCompletion = "pending"
  /\ columns = (declared \/ appends)
  /\ csv = "none" /\ output = "none" /\ queue = <<>> /\ file = <<Old>>
  /\ told = <<>>

BatchNext ==
  /\ \/ Bind \/ Start \/ Settle
     \/ NodeDelivers \/ NodeCompletes \/ NodeFails
     \/ FlushLine \/ Finish \/ StreamError
  /\ UNCHANGED given

(* The bound input is finite, files take what is written to them or fail,  *)
(* and promise reactions run.                                              *)
BatchFairness ==
  /\ WF_batchVars(Bind /\ UNCHANGED given) /\ WF_batchVars(Start /\ UNCHANGED given)
  /\ WF_batchVars(Settle /\ UNCHANGED given)
  /\ WF_batchVars((NodeDelivers \/ NodeCompletes \/ NodeFails) /\ UNCHANGED given)
  /\ WF_batchVars((FlushLine \/ Finish \/ StreamError) /\ UNCHANGED given)

BatchSpec == BatchInit /\ [][BatchNext]_batchVars /\ BatchFairness

-----------------------------------------------------------------------------

BatchTypeOK ==
  /\ bad \subseteq 1..MaxRows /\ declared \in BOOLEAN /\ appends \in BOOLEAN
  /\ recipe \in {"bind", "start", "wait", "resolved", "rejected"}
  /\ node \in {"bound", "running", "ended", "disposed"}
  /\ nodeCompletion \in {"pending", "resolved", "rejected"} /\ rows \in 0..MaxRows
  /\ fileStopped \in BOOLEAN /\ fileCompletion \in {"pending", "resolved", "rejected"}
  /\ columns \in BOOLEAN
  /\ csv \in {"none", "open", "ended", "destroyed"}
  /\ output \in {"none", "open", "finished", "failed"}
  /\ (csv = "open") => (output = "open" /\ columns)
  /\ Len(told) <= 1

(* What a complete run leaves in the file. *)
Whole ==
  (IF appends THEN <<Old>> ELSE IF rows = 0 /\ ~declared THEN <<>> ELSE <<Header>>)
    \o [i \in 1..rows |-> i]

(* execute() resolves when the file holds every row once, in order, after  *)
(* one header ("waits for its asynchronous flush or delivery failure"), and *)
(* whatever failed the sink has heard of at most one end (BatchTypeOK).         *)
ResolvedMeansWritten == BatchTypeOK /\ (recipe = "resolved" => file = Whole)

(* execute() settles, with no row, no schema or a file that fails, and      *)
(* never leaves the file open.                                             *)
ExecuteSettles ==
  /\ <>(recipe \in {"resolved", "rejected"})
  /\ [](recipe \in {"resolved", "rejected"} => output # "open")

=============================================================================
