--------------------------- MODULE LanguageServer ---------------------------
(***************************************************************************)
(* One language server session (lsp/server.ts) with its editor.            *)
(*                                                                         *)
(* The editor opens, changes and closes documents and asks questions; its  *)
(* messages reach the server in order.  The server debounces changes,      *)
(* keeps one analysis per open document and pushes diagnostics, which      *)
(* reach the editor in order and late.  Files on disk change under both;   *)
(* somebody tells the server after that.  A handler and a timer callback   *)
(* run to completion.  An analysis is the text and the state of the disk   *)
(* it was made from.                                                       *)
(***************************************************************************)
EXTENDS Naturals, FiniteSets, SequencesExt

CONSTANTS
  Docs,
  Texts,
  Defects,      (* texts the compiler throws on                            *)
  Imports,      (* the files an analysis of a text depends on              *)
  None,
  MaxEdits,     (* bound: messages of the editor                           *)
  MaxDisk       (* bound: changes on disk                                  *)

ASSUME LanguageServerAssumption ==
  /\ IsFiniteSet(Docs)
  /\ Defects \subseteq Texts
  /\ DOMAIN Imports = Texts
  /\ None \notin Texts
  /\ MaxEdits \in Nat /\ MaxDisk \in Nat

VARIABLES
  buffers,      (* the editor's documents: [version, text], None if closed *)
  edits,        (* messages it has sent                                    *)
  shown,        (* the diagnostics it shows, None for none                 *)
  disk,         (* how often files have changed                            *)
  unnoticed,    (* nobody has told the server of the last change           *)
  inbox,        (* messages to the server                                  *)
  outbox,       (* messages to the editor                                  *)
  documents,    (* the server's documents                                  *)
  analyses,     (* its cache                                               *)
  debounces,    (* documents with a timer                                  *)
  reported,     (* the dependencies the embedding host was last told       *)
  noticed       (* history: the disk when files were last invalidated      *)

editor == <<buffers, edits, shown>>
storage == <<disk, unnoticed, noticed>>
wires == <<inbox, outbox>>
server == <<documents, analyses, debounces, reported>>
vars == <<editor, storage, wires, server>>

Open == {d \in Docs : documents[d] # None}

-----------------------------------------------------------------------------
(***************************************************************************)
(* The editor and the disk.                                                *)
(***************************************************************************)

Send(message) ==
  /\ edits < MaxEdits
  /\ edits' = edits + 1
  /\ inbox' = Append(inbox, message)
  /\ UNCHANGED <<outbox, shown, storage, server>>

Edit(d, buffer) ==
  /\ buffers' = [buffers EXCEPT ![d] = buffer]
  /\ Send([type |-> "document", doc |-> d, document |-> buffer])

OpenDocument(d, text) == buffers[d] = None /\ Edit(d, [version |-> 1, text |-> text])

ChangeDocument(d, text) ==
  buffers[d] # None /\ Edit(d, [version |-> buffers[d].version + 1, text |-> text])

CloseDocument(d) == buffers[d] # None /\ Edit(d, None)

AskQuestion(d) ==
  /\ buffers[d] # None
  /\ Send([type |-> "question", doc |-> d])
  /\ UNCHANGED buffers

(* The editor shows the diagnostics that arrive last. *)
Deliver ==
  /\ outbox # <<>>
  /\ outbox' = Tail(outbox)
  /\ shown' = IF Head(outbox).type = "answer" THEN shown
              ELSE [shown EXCEPT ![Head(outbox).doc] = Head(outbox).facts]
  /\ UNCHANGED <<buffers, edits, inbox, storage, server>>

ChangeFile ==
  /\ disk < MaxDisk
  /\ disk' = disk + 1 /\ unnoticed' = TRUE
  /\ UNCHANGED <<editor, wires, server, noticed>>

-----------------------------------------------------------------------------
(***************************************************************************)
(* The server.                                                             *)
(***************************************************************************)

Cached(d, kept) == kept[d] # None /\ kept[d].version = documents[d].version

(* ask(): an answer comes from the analysis of the current text; a text    *)
(* the compiler throws on leaves the cache alone and answers null.         *)
Answers(d, kept) ==
  documents[d] # None /\ (Cached(d, kept) \/ documents[d].text \notin Defects)

Asked(d, kept) ==
  IF ~Answers(d, kept) \/ Cached(d, kept) THEN kept
  ELSE [kept EXCEPT ![d] = [version |-> documents[d].version, text |-> documents[d].text,
                            disk |-> disk]]

Dependencies(kept) == UNION {Imports[kept[d].text] : d \in {e \in Docs : kept[e] # None}}

Message(type, d, kept) ==
  [type |-> type, doc |-> d, version |-> documents[d].version, facts |-> Asked(d, kept)[d]]

Answer(type, d, kept) == IF Answers(d, kept) THEN <<Message(type, d, kept)>> ELSE <<>>

(* ask() and a send; a new analysis is followed by publishDependencies().  *)
Ask(type, d) ==
  /\ analyses' = Asked(d, analyses)
  /\ reported' = IF analyses' = analyses THEN reported ELSE Dependencies(analyses')
  /\ outbox' = outbox \o Answer(type, d, analyses)

(* onDidChangeContent *)
Changed(d) ==
  /\ debounces' = debounces \cup {d}
  /\ UNCHANGED <<analyses, reported, outbox>>

(* Mutated form: the analysis of a closed document stays. *)
StillCached(d) == analyses

Forgotten(d) == [analyses EXCEPT ![d] = None]

(* Mutated form: the host keeps watching a closed document's imports. *)
StillReported(kept) == reported' = reported

(* publishDependencies() *)
PublishDependencies(kept) == reported' = Dependencies(kept)

Cleared(d) == <<[type |-> "diagnostics", doc |-> d, version |-> 0, facts |-> None]>>

Stopped(d) == debounces \ {d}

(* onDidClose *)
Closed(d) ==
  /\ debounces' = Stopped(d)
  /\ analyses' = Forgotten(d)
  /\ PublishDependencies(analyses')
  /\ outbox' = outbox \o Cleared(d)

(* The next message of the editor: an open, a change, a close, a question. *)
Receive ==
  /\ inbox # <<>>
  /\ LET message == Head(inbox)
         d == message.doc
     IN \/ /\ message.type = "document"
           /\ documents' = [documents EXCEPT ![d] = message.document]
           /\ IF message.document = None THEN Closed(d) ELSE Changed(d)
        \/ /\ message.type = "question"
           /\ Ask("answer", d)
           /\ UNCHANGED <<documents, debounces>>
  /\ inbox' = Tail(inbox)
  /\ UNCHANGED <<editor, storage>>

(* A debounce timer fires. *)
Debounced(d) ==
  /\ d \in debounces
  /\ debounces' = debounces \ {d}
  /\ Ask("diagnostics", d)
  /\ UNCHANGED <<editor, storage, inbox, documents>>

(* Mutated form: the next question or change will see the new files. *)
RepublishNone == {}

Republish == Open

(* invalidateFiles(): every open document is analyzed and published anew.  *)
InvalidateFiles ==
  /\ unnoticed
  /\ unnoticed' = FALSE /\ noticed' = disk
  /\ LET nothing == [d \in Docs |-> None]
     IN /\ analyses' = [d \in Docs |-> IF d \in Republish THEN Asked(d, nothing)[d] ELSE None]
        /\ PublishDependencies(analyses')
        /\ outbox' = LET order == SetToSeq({d \in Republish : Answers(d, nothing)})
                     IN outbox \o [i \in DOMAIN order |-> Message("diagnostics", order[i], nothing)]
  /\ UNCHANGED <<editor, disk, inbox, documents, debounces>>

Init ==
  /\ buffers = [d \in Docs |-> None] /\ edits = 0 /\ shown = [d \in Docs |-> None]
  /\ disk = 0 /\ unnoticed = FALSE /\ noticed = 0
  /\ inbox = <<>> /\ outbox = <<>>
  /\ documents = [d \in Docs |-> None] /\ analyses = [d \in Docs |-> None]
  /\ debounces = {} /\ reported = {}

Environment ==
  \/ \E d \in Docs, t \in Texts : OpenDocument(d, t) \/ ChangeDocument(d, t)
  \/ \E d \in Docs : CloseDocument(d) \/ AskQuestion(d)
  \/ ChangeFile

Next ==
  \/ Environment
  \/ Receive \/ Deliver
  \/ \E d \in Docs : Debounced(d)
  \/ InvalidateFiles

(* The editor and the disk owe nothing; messages arrive, timers fire and   *)
(* somebody reports the change of a file.                                  *)
Fairness ==
  /\ WF_vars(Receive) /\ WF_vars(Deliver) /\ WF_vars(InvalidateFiles)
  /\ \A d \in Docs : WF_vars(Debounced(d))

Spec == Init /\ [][Next]_vars /\ Fairness

-----------------------------------------------------------------------------

Documents == [version : 1..MaxEdits, text : Texts]
Analyses == [version : 1..MaxEdits, text : Texts, disk : 0..MaxDisk]

TypeOK ==
  /\ buffers \in [Docs -> Documents \cup {None}] /\ edits \in 0..MaxEdits
  /\ shown \in [Docs -> Analyses \cup {None}]
  /\ disk \in 0..MaxDisk /\ unnoticed \in BOOLEAN /\ noticed \in 0..disk
  /\ documents \in [Docs -> Documents \cup {None}]
  /\ analyses \in [Docs -> Analyses \cup {None}]
  /\ debounces \subseteq Open

(* What the server sends of a document, diagnostics or answer, is computed *)
(* from its current text and from files no older than the last time the    *)
(* server was told of a change: "answer against the current text: a cache  *)
(* older than the document is refreshed first".                            *)
OutputIsCurrent ==
  [][\A i \in Len(outbox) + 1..Len(outbox') :
       LET m == outbox'[i]
       IN m.facts # None =>
            /\ documents'[m.doc] # None
            /\ m.facts.text = documents'[m.doc].text
            /\ m.facts.version = documents'[m.doc].version
            /\ m.facts.disk >= noticed']_vars

Diagnoses(i, d) == outbox[i].type = "diagnostics" /\ outbox[i].doc = d

(* What the editor will show of d when all that was sent has arrived. *)
LastSent(d, facts) ==
  \/ shown[d] = facts /\ \A i \in 1..Len(outbox) : ~Diagnoses(i, d)
  \/ \E i \in 1..Len(outbox) :
       /\ Diagnoses(i, d) /\ outbox[i].facts = facts
       /\ \A j \in i + 1..Len(outbox) : ~Diagnoses(j, d)

(* The host always knows the union of the dependencies of the analyses the *)
(* server holds, so that it watches every file they came from, and a closed *)
(* document keeps no diagnostics, whatever its timer and its analysis were  *)
(* doing ("Closing a document clears them").                               *)
DependenciesReported ==
  /\ TypeOK
  /\ reported = Dependencies(analyses)
  /\ \A d \in Docs : documents[d] = None => LastSent(d, None)

(* Once the editor rests, it shows the diagnostics of the text it holds,   *)
(* with the files as they are, unless the compiler throws on that text.    *)
EventuallyShown ==
  \A d \in Docs :
    <>[](IF buffers[d] = None THEN shown[d] = None
         ELSE buffers[d].text \in Defects
              \/ shown[d] = [version |-> buffers[d].version, text |-> buffers[d].text,
                             disk |-> disk])

=============================================================================
