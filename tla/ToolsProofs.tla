---------------------------- MODULE ToolsProofs -----------------------------
(***************************************************************************)
(* What the language server and the import resolver promise.               *)
(*                                                                         *)
(* LanguageServer: what a session keeps for any finite number of documents *)
(* and any texts, edits and changes of files, however late its messages.   *)
(* The editor's messages lead from the documents the server has to those   *)
(* the editor has, each to a newer version or over a close: so the version *)
(* an analysis was made from tells whether it is of the current text.      *)
(*                                                                         *)
(* ImportResolver: what is remembered and returned is true of every graph  *)
(* that agrees with what the resolver has seen of the real one.            *)
(***************************************************************************)
EXTENDS LanguageServer, ImportResolver, SequenceTheorems, FiniteSetTheorems, TLAPS

Buffers == Documents \cup {None}
Messages == [type : {"document"}, doc : Docs, document : Buffers] \cup [type : {"question"}, doc : Docs]
Reports ==
  [type : {"diagnostics", "answer"}, doc : Docs, version : 0..MaxEdits, facts : Analyses \cup {None}]

Wired ==
  /\ inbox \in Seq(Messages) /\ outbox \in Seq(Reports)
  /\ \A d \in Docs : buffers[d] # None => buffers[d].version =< edits

(* A document after a message: closed, opened, or changed. *)
Follows(old, new) == new # None => old = None \/ new.version > old.version

(* path[i] is document d when the server has received i more messages.     *)
Path(d, path) ==
  /\ path[0] = documents[d] /\ path[Len(inbox)] = buffers[d]
  /\ \A i \in 1..Len(inbox) :
       IF inbox[i].type = "document" /\ inbox[i].doc = d
       THEN path[i] = inbox[i].document /\ Follows(path[i - 1], path[i])
       ELSE path[i] = path[i - 1]

Lead(d) == \E path \in [0..Len(inbox) -> Buffers] : Path(d, path)

(* An analysis is of a version the document has had, since files were last *)
(* invalidated; of the current version, it is of the current text.         *)
Fresh(d) ==
  analyses[d] # None =>
    /\ documents[d] # None
    /\ analyses[d].disk >= noticed
    /\ analyses[d].version =< documents[d].version
    /\ analyses[d].version = documents[d].version => analyses[d].text = documents[d].text

SessionInv ==
  /\ DependenciesReported
  /\ Wired
  /\ \A d \in Docs : Lead(d)
  /\ \A d \in Docs : Fresh(d)

-----------------------------------------------------------------------------
(***************************************************************************)
(* Messages on their way.                                                  *)
(***************************************************************************)

(* A message the editor sends leads from what it had to what it has.       *)
LEMMA Longer ==
  ASSUME NEW e \in Docs, Lead(e), inbox \in Seq(Messages), NEW m \in Messages,
         inbox' = Append(inbox, m), documents'[e] = documents[e], buffers'[e] \in Buffers,
         IF m.type = "document" /\ m.doc = e
         THEN buffers'[e] = m.document /\ Follows(buffers[e], buffers'[e])
         ELSE buffers'[e] = buffers[e]
  PROVE  Lead(e)'
<1> DEFINE n == Len(inbox)
<1>1. n \in Nat
  OBVIOUS
<1>2. PICK path \in [0..n -> Buffers] : Path(e, path)
  BY DEF Lead
<1> DEFINE longer == [i \in 0..n + 1 |-> IF i = n + 1 THEN buffers'[e] ELSE path[i]]
<1>3. Len(inbox') = n + 1 /\ inbox'[n + 1] = m /\ \A i \in 1..n : inbox'[i] = inbox[i]
  BY <1>1
<1>4. longer \in [0..Len(inbox') -> Buffers]
  BY <1>1, <1>3
<1>5. /\ longer[n + 1] = buffers'[e]
      /\ \A i \in 0..n : longer[i] = path[i]
  BY <1>1
<1>6. longer[0] = documents'[e] /\ longer[Len(inbox')] = buffers'[e] /\ path[n] = buffers[e]
  BY <1>1, <1>2, <1>3, <1>5 DEF Path
<1> HIDE DEF longer
<1>7. ASSUME NEW i \in 1..Len(inbox')
      PROVE  IF inbox'[i].type = "document" /\ inbox'[i].doc = e
             THEN longer[i] = inbox'[i].document /\ Follows(longer[i - 1], longer[i])
             ELSE longer[i] = longer[i - 1]
  <2>1. CASE i \in 1..n
    <3>1. i \in 0..n /\ i - 1 \in 0..n /\ inbox'[i] = inbox[i]
      BY <1>1, <1>3, <2>1
    <3>2. longer[i] = path[i] /\ longer[i - 1] = path[i - 1]
      BY <1>5, <3>1
    <3>3. IF inbox[i].type = "document" /\ inbox[i].doc = e
          THEN path[i] = inbox[i].document /\ Follows(path[i - 1], path[i])
          ELSE path[i] = path[i - 1]
      BY <1>2, <2>1 DEF Path
    <3> QED
      BY <3>1, <3>2, <3>3
  <2>2. CASE i = n + 1
    <3>1. i - 1 = n /\ n \in 0..n
      BY <1>1, <2>2
    <3>2. longer[i] = buffers'[e] /\ longer[i - 1] = buffers[e] /\ inbox'[i] = m
      BY <1>3, <1>5, <1>6, <2>2, <3>1
    <3> QED
      BY <3>2
  <2> QED
    BY <1>1, <1>3, <2>1, <2>2
<1> QED
  BY <1>4, <1>6, <1>7 DEF Lead, Path

(* A message the server receives leads to what it then has.                 *)
LEMMA Shorter ==
  ASSUME NEW e \in Docs, Lead(e), inbox \in Seq(Messages), inbox # <<>>,
         inbox' = Tail(inbox), buffers' = buffers,
         IF Head(inbox).type = "document" /\ Head(inbox).doc = e
         THEN documents'[e] = Head(inbox).document
         ELSE documents'[e] = documents[e]
  PROVE  /\ Lead(e)'
         /\ Head(inbox).type = "document" /\ Head(inbox).doc = e => Follows(documents[e], documents'[e])
<1> DEFINE n == Len(inbox)
<1>1. n \in Nat /\ n > 0 /\ Head(inbox) = inbox[1]
  BY EmptySeq
<1>2. PICK path \in [0..n -> Buffers] : Path(e, path)
  BY DEF Lead
<1> DEFINE shorter == [i \in 0..n - 1 |-> path[i + 1]]
<1>3. Len(inbox') = n - 1 /\ \A i \in 1..n - 1 : inbox'[i] = inbox[i + 1]
  BY <1>1, HeadTailProperties
<1>4. shorter \in [0..Len(inbox') -> Buffers]
  BY <1>1, <1>3
<1>5. \A i \in 0..n - 1 : shorter[i] = path[i + 1]
  OBVIOUS
<1>6. IF Head(inbox).type = "document" /\ Head(inbox).doc = e
      THEN path[1] = Head(inbox).document /\ Follows(path[0], path[1])
      ELSE path[1] = path[0]
  <2>1. 1 \in 1..n /\ 1 - 1 = 0
    BY <1>1
  <2> QED
    BY <1>1, <1>2, <2>1 DEF Path
<1>7. path[0] = documents[e] /\ path[n] = buffers[e] /\ path[1] = documents'[e]
  BY <1>2, <1>6 DEF Path
<1>8. shorter[0] = documents'[e] /\ shorter[Len(inbox')] = buffers'[e]
  <2>1. 0 \in 0..n - 1 /\ n - 1 \in 0..n - 1 /\ (n - 1) + 1 = n /\ 0 + 1 = 1
    BY <1>1
  <2> QED
    BY <1>3, <1>5, <1>7, <2>1
<1> HIDE DEF shorter
<1>9. ASSUME NEW i \in 1..Len(inbox')
      PROVE  IF inbox'[i].type = "document" /\ inbox'[i].doc = e
             THEN shorter[i] = inbox'[i].document /\ Follows(shorter[i - 1], shorter[i])
             ELSE shorter[i] = shorter[i - 1]
  <2>1. i \in 0..n - 1 /\ i - 1 \in 0..n - 1 /\ i + 1 \in 1..n /\ (i - 1) + 1 = (i + 1) - 1
    BY <1>1, <1>3
  <2>2. shorter[i] = path[i + 1] /\ shorter[i - 1] = path[(i + 1) - 1] /\ inbox'[i] = inbox[i + 1]
    BY <1>1, <1>3, <1>5, <2>1
  <2>3. IF inbox[i + 1].type = "document" /\ inbox[i + 1].doc = e
        THEN path[i + 1] = inbox[i + 1].document /\ Follows(path[(i + 1) - 1], path[i + 1])
        ELSE path[i + 1] = path[(i + 1) - 1]
    BY <1>2, <2>1 DEF Path
  <2> QED
    BY <2>2, <2>3
<1> QED
  BY <1>4, <1>6, <1>7, <1>8, <1>9 DEF Lead, Path

(* A finite set has a sequence of its elements. *)
LEMMA Listed ==
  ASSUME NEW S, IsFiniteSet(S)
  PROVE  SetToSeq(S) \in [1..Cardinality(S) -> S] /\ Cardinality(S) \in Nat
<1>1. PICK f \in Bijection(1..Cardinality(S), S) : TRUE
  BY FS_CardinalityType DEF ExistsBijection
<1>2. f \in [1..Cardinality(S) -> S] /\ IsInjective(f)
  BY <1>1 DEF Bijection, Injection, IsInjective
<1>3. \E g \in [1..Cardinality(S) -> S] : IsInjective(g)
  BY <1>2
<1> QED
  BY <1>3, FS_CardinalityType DEF SetToSeq

(* A document with nothing shown keeps nothing, unless it is diagnosed.     *)
LEMMA SentMore ==
  ASSUME outbox \in Seq(Reports), NEW s \in Seq(Reports), outbox' = outbox \o s, shown' = shown,
         NEW d \in Docs, LastSent(d, None),
         \A i \in 1..Len(s) : ~(s[i].type = "diagnostics" /\ s[i].doc = d)
  PROVE  LastSent(d, None)'
<1> DEFINE n == Len(outbox)
<1>1. n \in Nat /\ Len(s) \in Nat
  OBVIOUS
<1>2. Len(outbox') = n + Len(s)
  OBVIOUS
<1>3. \A i \in 1..n : outbox'[i] = outbox[i]
  BY <1>1
<1>4. \A i \in n + 1..n + Len(s) : i - n \in 1..Len(s) /\ outbox'[i] = s[i - n]
  BY <1>1
<1>5. \A i \in 1..n : Diagnoses(i, d)' <=> Diagnoses(i, d)
  BY <1>3 DEF Diagnoses
<1>6. \A i \in n + 1..n + Len(s) : ~Diagnoses(i, d)'
  BY <1>4 DEF Diagnoses
<1>7. CASE shown[d] = None /\ \A i \in 1..n : ~Diagnoses(i, d)
  <2>1. \A i \in 1..n + Len(s) : ~Diagnoses(i, d)'
    BY <1>1, <1>5, <1>6, <1>7
  <2> QED
    BY <1>2, <1>7, <2>1 DEF LastSent
<1>8. CASE \E i \in 1..n : /\ Diagnoses(i, d) /\ outbox[i].facts = None
                          /\ \A j \in i + 1..n : ~Diagnoses(j, d)
  <2>1. PICK i \in 1..n : /\ Diagnoses(i, d) /\ outbox[i].facts = None
                          /\ \A j \in i + 1..n : ~Diagnoses(j, d)
    BY <1>8
  <2>2. i \in 1..n + Len(s) /\ Diagnoses(i, d)' /\ outbox'[i].facts = None
    BY <1>1, <1>3, <1>5, <2>1
  <2>3. \A j \in i + 1..n + Len(s) : ~Diagnoses(j, d)'
    BY <1>1, <1>5, <1>6, <2>1
  <2> QED
    BY <1>2, <2>2, <2>3 DEF LastSent
<1> QED
  BY <1>7, <1>8 DEF LastSent

(* A report that arrives is no longer the one to come. *)
LEMMA SentLess ==
  ASSUME outbox \in Seq(Reports), outbox # <<>>, outbox' = Tail(outbox),
         shown \in [Docs -> Analyses \cup {None}],
         shown' = IF Head(outbox).type = "answer" THEN shown
                  ELSE [shown EXCEPT ![Head(outbox).doc] = Head(outbox).facts],
         NEW d \in Docs, LastSent(d, None)
  PROVE  LastSent(d, None)'
<1> DEFINE n == Len(outbox)
<1>1. n \in Nat /\ n > 0 /\ Head(outbox) = outbox[1] /\ outbox[1] \in Reports
  BY EmptySeq
<1>2. Len(outbox') = n - 1 /\ \A i \in 1..n - 1 : outbox'[i] = outbox[i + 1]
  BY <1>1, HeadTailProperties
<1>3. \A i \in 1..n - 1 : Diagnoses(i, d)' <=> Diagnoses(i + 1, d)
  BY <1>2 DEF Diagnoses
<1>4. shown'[d] = IF Diagnoses(1, d) THEN outbox[1].facts ELSE shown[d]
  BY <1>1 DEF Diagnoses, Reports
<1>5. CASE shown[d] = None /\ \A i \in 1..n : ~Diagnoses(i, d)
  <2>1. \A i \in 1..n - 1 : ~Diagnoses(i, d)'
    BY <1>1, <1>3, <1>5
  <2>2. shown'[d] = None
    BY <1>1, <1>4, <1>5
  <2> QED
    BY <1>2, <2>1, <2>2 DEF LastSent
<1>6. CASE \E i \in 1..n : /\ Diagnoses(i, d) /\ outbox[i].facts = None
                          /\ \A j \in i + 1..n : ~Diagnoses(j, d)
  <2>1. PICK i \in 1..n : /\ Diagnoses(i, d) /\ outbox[i].facts = None
                          /\ \A j \in i + 1..n : ~Diagnoses(j, d)
    BY <1>6
  <2>2. CASE i = 1
    <3>1. shown'[d] = None
      BY <1>4, <2>1, <2>2
    <3>2. \A j \in 1..n - 1 : ~Diagnoses(j, d)'
      BY <1>1, <1>3, <2>1, <2>2
    <3> QED
      BY <1>2, <3>1, <3>2 DEF LastSent
  <2>3. CASE i # 1
    <3> DEFINE k == i - 1
    <3>1. k \in 1..n - 1 /\ k + 1 = i
      BY <1>1, <2>3
    <3>2. Diagnoses(k, d)' /\ outbox'[k].facts = None
      BY <1>2, <1>3, <2>1, <3>1
    <3>3. \A j \in k + 1..n - 1 : ~Diagnoses(j, d)'
      BY <1>1, <1>3, <2>1, <3>1
    <3> HIDE DEF k
    <3> QED
      BY <1>2, <3>1, <3>2, <3>3 DEF LastSent
  <2> QED
    BY <2>2, <2>3
<1> QED
  BY <1>5, <1>6 DEF LastSent

-----------------------------------------------------------------------------
(***************************************************************************)
(* Analyses.                                                               *)
(***************************************************************************)

(* What a report says is of the text the server has, and of files no older *)
(* than the last time it was told of a change.                             *)
Current(m) ==
  m.facts # None =>
    /\ documents'[m.doc] # None
    /\ m.facts.text = documents'[m.doc].text
    /\ m.facts.version = documents'[m.doc].version
    /\ m.facts.disk >= noticed'

(* An answer comes from an analysis of the current version and text.       *)
LEMMA Analyzed ==
  ASSUME TypeOK, NEW d \in Docs, NEW kept \in [Docs -> Analyses \cup {None}], Answers(d, kept),
         NEW since \in 0..disk,
         kept[d] # None => /\ kept[d].disk >= since
                           /\ Cached(d, kept) => kept[d].text = documents[d].text,
         NEW type \in {"diagnostics", "answer"}
  PROVE  LET after == Asked(d, kept) IN
         /\ documents[d] # None
         /\ after \in [Docs -> Analyses \cup {None}]
         /\ \A e \in Docs : e # d => after[e] = kept[e]
         /\ after[d] \in Analyses
         /\ after[d].version = documents[d].version /\ after[d].text = documents[d].text
         /\ after[d].disk >= since
         /\ Message(type, d, kept) \in Reports
         /\ Message(type, d, kept).type = type /\ Message(type, d, kept).doc = d
         /\ Message(type, d, kept).facts = after[d]
<1> DEFINE after == Asked(d, kept)
           new == [version |-> documents[d].version, text |-> documents[d].text, disk |-> disk]
<1>1. documents[d] # None /\ documents[d] \in Documents
  BY DEF Answers, TypeOK
<1>2. /\ documents[d].version \in 1..MaxEdits /\ documents[d].text \in Texts
      /\ disk \in 0..MaxDisk /\ MaxEdits \in Nat /\ MaxDisk \in Nat
  BY <1>1, LanguageServerAssumption DEF Documents, TypeOK
<1>3. new \in Analyses
  BY <1>2 DEF Analyses
<1>4. /\ after \in [Docs -> Analyses \cup {None}]
      /\ \A e \in Docs : e # d => after[e] = kept[e]
      /\ after[d] \in Analyses
      /\ after[d].version = documents[d].version /\ after[d].text = documents[d].text
      /\ after[d].disk >= since
  <2>1. CASE Cached(d, kept)
    <3>1. after = kept
      BY <2>1 DEF Asked
    <3>2. kept[d] # None /\ kept[d].version = documents[d].version /\ kept[d] \in Analyses
      BY <2>1 DEF Cached
    <3> HIDE DEF after
    <3>3. kept[d].text = documents[d].text /\ kept[d].disk >= since
      BY <2>1, <3>2
    <3> QED
      BY <3>1, <3>2, <3>3
  <2>2. CASE ~Cached(d, kept)
    <3>1. after = [kept EXCEPT ![d] = new]
      BY <2>2 DEF Asked
    <3>2. after[d] = new /\ \A e \in Docs : e # d => after[e] = kept[e]
      BY <3>1
    <3>3. disk >= since
      BY <1>2
    <3> QED
      BY <1>3, <3>1, <3>2, <3>3
  <2> QED
    BY <2>1, <2>2
<1> HIDE DEF after
<1>5. /\ Message(type, d, kept) =
           [type |-> type, doc |-> d, version |-> documents[d].version, facts |-> after[d]]
      /\ documents[d].version \in 0..MaxEdits
  BY <1>2 DEF Message, after
<1> QED
  BY <1>1, <1>4, <1>5 DEF after, Reports

(* A question or a timer: what is kept, published and sent stays right.    *)
LEMMA AskKeeps ==
  ASSUME SessionInv, NEW d \in Docs, NEW type \in {"diagnostics", "answer"}, Ask(type, d),
         documents' = documents, noticed' = noticed, shown' = shown
  PROVE  /\ analyses' \in [Docs -> Analyses \cup {None}]
         /\ reported' = Dependencies(analyses)'
         /\ \A e \in Docs : Fresh(e)'
         /\ outbox' \in Seq(Reports)
         /\ \A e \in Docs : documents[e] = None => LastSent(e, None)'
         /\ \A i \in Len(outbox) + 1..Len(outbox') : Current(outbox'[i])
<1>1. /\ TypeOK /\ outbox \in Seq(Reports) /\ Fresh(d) /\ reported = Dependencies(analyses)
      /\ analyses \in [Docs -> Analyses \cup {None}] /\ noticed \in 0..disk
  BY DEF SessionInv, DependenciesReported, Wired, TypeOK
<1>2. /\ analyses' = Asked(d, analyses) /\ outbox' = outbox \o Answer(type, d, analyses)
      /\ reported' = IF analyses' = analyses THEN reported ELSE Dependencies(analyses')
  BY DEF Ask
<1>3. reported' = Dependencies(analyses)'
  <2>1. CASE analyses' = analyses
    BY <1>1, <1>2, <2>1 DEF Dependencies
  <2>2. CASE analyses' # analyses
    BY <1>2, <2>2 DEF Dependencies
  <2> QED
    BY <2>1, <2>2
<1>4. CASE ~Answers(d, analyses)
  <2>1. analyses' = analyses /\ outbox' = outbox
    BY <1>1, <1>2, <1>4, ConcatEmptySeq DEF Asked, Answer
  <2>2. \A e \in Docs : Fresh(e)'
    BY <2>1 DEF SessionInv, Fresh
  <2>3. \A e \in Docs : documents[e] = None => LastSent(e, None)'
    BY <2>1 DEF SessionInv, DependenciesReported, LastSent, Diagnoses
  <2> QED
    BY <1>1, <1>3, <2>1, <2>2, <2>3
<1>5. CASE Answers(d, analyses)
  <2> DEFINE m == Message(type, d, analyses)
  <2>1. /\ documents[d] # None
        /\ analyses' \in [Docs -> Analyses \cup {None}]
        /\ \A e \in Docs : e # d => analyses'[e] = analyses[e]
        /\ analyses'[d].version = documents[d].version /\ analyses'[d].text = documents[d].text
        /\ analyses'[d].disk >= noticed
        /\ m \in Reports /\ m.doc = d /\ m.facts = analyses'[d]
    <3>1. analyses[d] # None => /\ analyses[d].disk >= noticed
                                /\ Cached(d, analyses) => analyses[d].text = documents[d].text
      BY <1>1 DEF Fresh, Cached
    <3> QED
      BY <1>1, <1>2, <1>5, <3>1, Analyzed
  <2>2. outbox' = outbox \o <<m>>
    BY <1>2, <1>5 DEF Answer
  <2> HIDE DEF m
  <2>3. <<m>> \in Seq(Reports) /\ Len(<<m>>) = 1 /\ <<m>>[1] = m
    BY <2>1
  <2>4. \A e \in Docs : Fresh(e)'
    <3> TAKE e \in Docs
    <3>1. CASE e = d
      <4>1. documents[d].version \in Nat
        BY <1>1, <2>1 DEF TypeOK, Documents
      <4> QED
        BY <2>1, <3>1, <4>1 DEF Fresh
    <3>2. CASE e # d
      BY <2>1, <3>2 DEF SessionInv, Fresh
    <3> QED
      BY <3>1, <3>2
  <2>5. \A e \in Docs : documents[e] = None => LastSent(e, None)'
    <3> SUFFICES ASSUME NEW e \in Docs, documents[e] = None PROVE LastSent(e, None)'
      OBVIOUS
    <3>1. LastSent(e, None) /\ e # d
      BY <2>1 DEF SessionInv, DependenciesReported
    <3>2. \A i \in 1..Len(<<m>>) : ~(<<m>>[i].type = "diagnostics" /\ <<m>>[i].doc = e)
      BY <2>1, <2>3, <3>1
    <3> QED
      BY <1>1, <2>2, <2>3, <3>1, <3>2, SentMore
  <2>6. outbox' \in Seq(Reports) /\ Len(outbox') = Len(outbox) + 1 /\ outbox'[Len(outbox) + 1] = m
    BY <1>1, <2>2, <2>3
  <2>7. Current(m)
    BY <2>1 DEF Current
  <2>8. \A i \in Len(outbox) + 1..Len(outbox') : Current(outbox'[i])
    BY <1>1, <2>6, <2>7
  <2> QED
    BY <1>3, <2>1, <2>4, <2>5, <2>6, <2>8
<1> QED
  BY <1>4, <1>5

-----------------------------------------------------------------------------
(***************************************************************************)
(* The steps.                                                              *)
(***************************************************************************)

(* What this step sends. *)
SendsCurrent == \A i \in Len(outbox) + 1..Len(outbox') : Current(outbox'[i])

LEMMA SendsNothing ==
  ASSUME outbox \in Seq(Reports), outbox' \in Seq(Reports), Len(outbox') =< Len(outbox)
  PROVE  SendsCurrent
BY DEF SendsCurrent

LEMMA SessionInit == Init => SessionInv
<1> SUFFICES ASSUME Init PROVE SessionInv
  OBVIOUS
<1>1. <<>> \in Seq(Messages) /\ <<>> \in Seq(Reports) /\ Len(<<>>) = 0
  OBVIOUS
<1>2. TypeOK
  <2>1. edits \in 0..MaxEdits /\ disk \in 0..MaxDisk /\ noticed \in 0..disk
    BY LanguageServerAssumption DEF Init
  <2>2. /\ buffers \in [Docs -> Documents \cup {None}] /\ documents \in [Docs -> Documents \cup {None}]
        /\ shown \in [Docs -> Analyses \cup {None}] /\ analyses \in [Docs -> Analyses \cup {None}]
    BY DEF Init
  <2> QED
    BY <2>1, <2>2 DEF Init, TypeOK
<1>3. reported = Dependencies(analyses) /\ \A d \in Docs : LastSent(d, None)
  BY <1>1 DEF Init, Dependencies, LastSent
<1>4. Wired
  BY <1>1 DEF Init, Wired
<1>5. ASSUME NEW d \in Docs PROVE Lead(d) /\ Fresh(d)
  <2>1. None \in Buffers
    BY DEF Buffers
  <2> DEFINE path == [i \in 0..0 |-> None]
  <2>2. path \in [0..Len(inbox) -> Buffers] /\ path[0] = None
    BY <1>1, <2>1 DEF Init
  <2> HIDE DEF path
  <2>3. Path(d, path)
    BY <1>1, <2>2 DEF Path, Init
  <2> QED
    BY <2>2, <2>3 DEF Lead, Fresh, Init
<1> QED
  BY <1>2, <1>3, <1>4, <1>5 DEF SessionInv, DependenciesReported

(* The editor sends: the server is as it was, and will follow.             *)
LEMMA SendKeeps ==
  ASSUME SessionInv, NEW m \in Messages, Send(m), buffers' \in [Docs -> Buffers],
         \A e \in Docs : /\ buffers'[e] # None => buffers'[e].version =< edits + 1
                         /\ IF m.type = "document" /\ m.doc = e
                            THEN buffers'[e] = m.document /\ Follows(buffers[e], buffers'[e])
                            ELSE buffers'[e] = buffers[e]
  PROVE  SessionInv' /\ SendsCurrent
<1>1. /\ TypeOK /\ inbox \in Seq(Messages) /\ outbox \in Seq(Reports)
      /\ edits < MaxEdits /\ edits' = edits + 1 /\ inbox' = Append(inbox, m)
      /\ UNCHANGED <<outbox, shown, storage, server>>
  BY DEF SessionInv, DependenciesReported, Wired, Send
<1>2. TypeOK'
  <2>1. edits' \in 0..MaxEdits
    BY <1>1, LanguageServerAssumption DEF TypeOK
  <2>2. documents' = documents
    BY <1>1 DEF server
  <2> QED
    BY <1>1, <2>1, <2>2 DEF TypeOK, storage, server, Open, Buffers
<1>3. DependenciesReported'
  <2>1. /\ reported' = reported /\ analyses' = analyses /\ documents' = documents
        /\ outbox' = outbox /\ shown' = shown
    BY <1>1 DEF server
  <2> QED
    BY <1>2, <2>1 DEF SessionInv, DependenciesReported, Dependencies, LastSent, Diagnoses
<1>4. Wired'
  BY <1>1 DEF Wired
<1>5. \A e \in Docs : Lead(e)'
  <2> TAKE e \in Docs
  <2>1. documents'[e] = documents[e] /\ buffers'[e] \in Buffers /\ Lead(e)
    BY <1>1 DEF server, SessionInv
  <2> QED
    BY <1>1, <2>1, Longer
<1>6. \A e \in Docs : Fresh(e)'
  BY <1>1 DEF SessionInv, Fresh, server, storage
<1>7. SendsCurrent
  BY <1>1, SendsNothing
<1> QED
  BY <1>2, <1>3, <1>4, <1>5, <1>6, <1>7 DEF SessionInv

LEMMA EditorKeeps ==
  ASSUME SessionInv, NEW d \in Docs, NEW t \in Texts,
         OpenDocument(d, t) \/ ChangeDocument(d, t) \/ CloseDocument(d) \/ AskQuestion(d)
  PROVE  SessionInv' /\ SendsCurrent
<1>1. /\ TypeOK /\ buffers \in [Docs -> Buffers]
      /\ \A e \in Docs : buffers[e] # None => buffers[e] \in Documents /\ buffers[e].version =< edits
  BY DEF SessionInv, DependenciesReported, Wired, TypeOK, Buffers
<1>2. ASSUME NEW b \in Buffers, Edit(d, b), b # None => b.version =< edits + 1, Follows(buffers[d], b)
      PROVE  SessionInv' /\ SendsCurrent
  <2> DEFINE m == [type |-> "document", doc |-> d, document |-> b]
  <2>1. m \in Messages /\ Send(m)
    BY <1>2 DEF Edit, Messages
  <2>2. buffers' = [buffers EXCEPT ![d] = b]
    BY <1>2 DEF Edit
  <2>3. buffers' \in [Docs -> Buffers]
    BY <1>1, <2>2
  <2>4. ASSUME NEW e \in Docs
        PROVE  /\ buffers'[e] # None => buffers'[e].version =< edits + 1
               /\ IF m.type = "document" /\ m.doc = e
                  THEN buffers'[e] = m.document /\ Follows(buffers[e], buffers'[e])
                  ELSE buffers'[e] = buffers[e]
    <3>1. CASE e = d
      BY <1>1, <1>2, <2>2, <3>1
    <3>2. CASE e # d
      <4>1. buffers'[e] = buffers[e] /\ (buffers[e] # None => buffers[e].version =< edits)
        BY <1>1, <2>2, <3>2
      <4>2. buffers[e] # None => buffers[e].version \in Nat /\ edits \in Nat
        BY <1>1 DEF TypeOK, Documents
      <4>3. buffers[e] # None => buffers[e].version =< edits + 1
        BY <4>1, <4>2
      <4> QED
        BY <3>2, <4>1, <4>3
    <3> QED
      BY <3>1, <3>2
  <2> HIDE DEF m
  <2> QED
    BY <2>1, <2>3, <2>4, SendKeeps
<1>3. edits \in Nat /\ (edits < MaxEdits => 1 =< edits + 1 /\ edits + 1 \in 1..MaxEdits)
  BY <1>1, LanguageServerAssumption DEF TypeOK
<1>4. CASE OpenDocument(d, t)
  <2> DEFINE b == [version |-> 1, text |-> t]
  <2>1. edits < MaxEdits /\ buffers[d] = None /\ Edit(d, b)
    BY <1>4 DEF OpenDocument, Edit, Send
  <2>2. b \in Buffers /\ b.version =< edits + 1
    <3>1. 1 \in 1..MaxEdits /\ 1 =< edits + 1
      BY <1>3, <2>1, LanguageServerAssumption
    <3> QED
      BY <3>1 DEF Buffers, Documents
  <2>3. Follows(buffers[d], b)
    BY <2>1 DEF Follows
  <2> HIDE DEF b
  <2> QED
    BY <1>2, <2>1, <2>2, <2>3
<1>5. CASE ChangeDocument(d, t)
  <2> DEFINE b == [version |-> buffers[d].version + 1, text |-> t]
  <2>1. edits < MaxEdits /\ buffers[d] # None /\ Edit(d, b)
    BY <1>5 DEF ChangeDocument, Edit, Send
  <2>2. buffers[d].version \in 1..MaxEdits /\ buffers[d].version =< edits
    BY <1>1, <2>1 DEF Documents
  <2>3. b.version = buffers[d].version + 1 /\ b.version =< edits + 1 /\ b.version > buffers[d].version
    BY <1>3, <2>2
  <2>4. b \in Buffers
    BY <1>3, <2>1, <2>2, LanguageServerAssumption DEF Buffers, Documents
  <2>5. Follows(buffers[d], b)
    BY <2>3 DEF Follows
  <2> HIDE DEF b
  <2> QED
    BY <1>2, <2>1, <2>3, <2>4, <2>5
<1>6. CASE CloseDocument(d)
  BY <1>2, <1>6 DEF CloseDocument, Buffers, Follows
<1>7. CASE AskQuestion(d)
  <2> DEFINE m == [type |-> "question", doc |-> d]
  <2>1. m \in Messages /\ Send(m) /\ buffers' = buffers /\ m.type # "document"
    BY <1>7 DEF AskQuestion, Messages
  <2>2. \A e \in Docs : buffers[e] # None => buffers[e].version =< edits + 1
    BY <1>1, <1>3 DEF Documents
  <2> HIDE DEF m
  <2> QED
    BY <1>1, <2>1, <2>2, SendKeeps
<1> QED
  BY <1>4, <1>5, <1>6, <1>7

(* The host is told nothing, and the server keeps all it has.              *)
LEMMA DeliverKeeps ==
  ASSUME SessionInv, Deliver
  PROVE  SessionInv' /\ SendsCurrent
<1>1. /\ TypeOK /\ outbox \in Seq(Reports) /\ outbox # <<>> /\ outbox' = Tail(outbox)
      /\ shown' = IF Head(outbox).type = "answer" THEN shown
                  ELSE [shown EXCEPT ![Head(outbox).doc] = Head(outbox).facts]
      /\ UNCHANGED <<buffers, edits, inbox, storage, server>>
  BY DEF SessionInv, DependenciesReported, Wired, Deliver
<1>2. outbox' \in Seq(Reports) /\ Len(outbox') = Len(outbox) - 1 /\ Head(outbox) \in Reports
  BY <1>1, HeadTailProperties
<1>3. Head(outbox).facts \in Analyses \cup {None}
  BY <1>2 DEF Reports
<1>4. shown' \in [Docs -> Analyses \cup {None}]
  BY <1>1, <1>3 DEF TypeOK
<1>5. TypeOK'
  <2>1. documents' = documents
    BY <1>1 DEF server
  <2> QED
    BY <1>1, <1>4, <2>1 DEF TypeOK, storage, server, Open
<1>6. DependenciesReported'
  <2>1. reported' = reported /\ analyses' = analyses /\ documents' = documents
    BY <1>1 DEF server
  <2>2. ASSUME NEW d \in Docs, documents[d] = None PROVE LastSent(d, None)'
    <3>1. LastSent(d, None) /\ shown \in [Docs -> Analyses \cup {None}]
      BY <2>2 DEF SessionInv, DependenciesReported, TypeOK
    <3> QED
      BY <1>1, <3>1, SentLess
  <2> QED
    BY <1>5, <2>1, <2>2 DEF SessionInv, DependenciesReported, Dependencies
<1>7. Wired'
  BY <1>1, <1>2 DEF SessionInv, Wired
<1>8. \A e \in Docs : Lead(e)' /\ Fresh(e)'
  BY <1>1 DEF SessionInv, Fresh, Lead, Path, server, storage
<1>9. SendsCurrent
  <2>1. Len(outbox) \in Nat
    BY <1>1
  <2> QED
    BY <1>1, <1>2, <2>1, SendsNothing
<1> QED
  BY <1>5, <1>6, <1>7, <1>8, <1>9 DEF SessionInv

LEMMA ChangeFileKeeps ==
  ASSUME SessionInv, ChangeFile
  PROVE  SessionInv' /\ SendsCurrent
<1>1. /\ TypeOK /\ outbox \in Seq(Reports) /\ disk < MaxDisk /\ disk' = disk + 1 /\ unnoticed' = TRUE
      /\ UNCHANGED <<editor, wires, server, noticed>>
  BY DEF SessionInv, DependenciesReported, Wired, ChangeFile
<1>2. TypeOK'
  <2>1. disk' \in 0..MaxDisk /\ noticed' \in 0..disk'
    BY <1>1, LanguageServerAssumption DEF TypeOK
  <2>2. documents' = documents
    BY <1>1 DEF server
  <2> QED
    BY <1>1, <2>1, <2>2 DEF TypeOK, editor, server, Open
<1>3. DependenciesReported' /\ Wired'
  BY <1>1, <1>2 DEF SessionInv, DependenciesReported, Dependencies, LastSent, Diagnoses, Wired, server, wires, editor
<1>4. \A e \in Docs : Lead(e)' /\ Fresh(e)'
  BY <1>1 DEF SessionInv, Fresh, Lead, Path, server, wires, editor
<1>5. SendsCurrent
  <2>1. Len(outbox) \in Nat /\ outbox' = outbox
    BY <1>1 DEF wires
  <2> QED
    BY <1>1, <2>1, SendsNothing
<1> QED
  BY <1>2, <1>3, <1>4, <1>5 DEF SessionInv

LEMMA DebouncedKeeps ==
  ASSUME SessionInv, NEW d \in Docs, Debounced(d)
  PROVE  SessionInv' /\ SendsCurrent
<1>1. /\ TypeOK /\ Ask("diagnostics", d) /\ debounces' = debounces \ {d}
      /\ UNCHANGED <<editor, storage, inbox, documents>>
  BY DEF SessionInv, DependenciesReported, Debounced
<1>2. documents' = documents /\ noticed' = noticed /\ shown' = shown
  BY <1>1 DEF editor, storage
<1>3. /\ analyses' \in [Docs -> Analyses \cup {None}]
      /\ reported' = Dependencies(analyses)'
      /\ \A e \in Docs : Fresh(e)'
      /\ outbox' \in Seq(Reports)
      /\ \A e \in Docs : documents[e] = None => LastSent(e, None)'
      /\ SendsCurrent
  <2>1. "diagnostics" \in {"diagnostics", "answer"}
    OBVIOUS
  <2> QED
    BY <1>1, <1>2, <2>1, AskKeeps DEF SendsCurrent
<1>4. TypeOK'
  BY <1>1, <1>2, <1>3 DEF TypeOK, editor, storage, Open
<1>5. DependenciesReported'
  BY <1>2, <1>3, <1>4 DEF DependenciesReported, Dependencies
<1>6. Wired'
  BY <1>1, <1>3 DEF SessionInv, Wired, editor
<1>7. \A e \in Docs : Lead(e)'
  BY <1>1, <1>2 DEF SessionInv, Lead, Path, editor
<1> QED
  BY <1>3, <1>4, <1>5, <1>6, <1>7 DEF SessionInv

LEMMA QuestionKeeps ==
  ASSUME SessionInv, Receive, Head(inbox).type = "question"
  PROVE  SessionInv' /\ SendsCurrent
<1> DEFINE d == Head(inbox).doc
<1>1. /\ TypeOK /\ inbox \in Seq(Messages) /\ inbox # <<>> /\ inbox' = Tail(inbox)
      /\ Head(inbox).type # "document"
      /\ Ask("answer", d) /\ UNCHANGED <<documents, debounces>> /\ UNCHANGED <<editor, storage>>
  BY DEF SessionInv, DependenciesReported, Wired, Receive
<1>2. d \in Docs /\ inbox' \in Seq(Messages)
  <2>1. Head(inbox) \in Messages /\ Tail(inbox) \in Seq(Messages)
    BY <1>1, HeadTailProperties
  <2> QED
    BY <1>1, <2>1 DEF Messages
<1>3. documents' = documents /\ noticed' = noticed /\ shown' = shown /\ buffers' = buffers
  BY <1>1 DEF editor, storage
<1> HIDE DEF d
<1>4. /\ analyses' \in [Docs -> Analyses \cup {None}]
      /\ reported' = Dependencies(analyses)'
      /\ \A e \in Docs : Fresh(e)'
      /\ outbox' \in Seq(Reports)
      /\ \A e \in Docs : documents[e] = None => LastSent(e, None)'
      /\ SendsCurrent
  <2>1. "answer" \in {"diagnostics", "answer"}
    OBVIOUS
  <2> QED
    BY <1>1, <1>2, <1>3, <2>1, AskKeeps DEF SendsCurrent
<1>5. TypeOK'
  BY <1>1, <1>3, <1>4 DEF TypeOK, editor, storage, Open
<1>6. DependenciesReported'
  BY <1>3, <1>4, <1>5 DEF DependenciesReported, Dependencies
<1>7. Wired'
  BY <1>1, <1>2, <1>4 DEF SessionInv, Wired, editor
<1>8. \A e \in Docs : Lead(e)'
  <2> TAKE e \in Docs
  <2>1. Lead(e)
    BY DEF SessionInv
  <2> QED
    BY <1>1, <1>3, <2>1, Shorter
<1> QED
  BY <1>4, <1>5, <1>6, <1>7, <1>8 DEF SessionInv

(* A document is opened, changed or closed: the cache is of older versions *)
(* of it or of none, and what a closed one showed is cleared.              *)
LEMMA DocumentKeeps ==
  ASSUME SessionInv, Receive, Head(inbox).type = "document"
  PROVE  SessionInv' /\ SendsCurrent
<1> DEFINE d == Head(inbox).doc
           new == Head(inbox).document
<1>1. /\ TypeOK /\ inbox \in Seq(Messages) /\ inbox # <<>> /\ inbox' = Tail(inbox)
      /\ documents' = [documents EXCEPT ![d] = new]
      /\ IF new = None THEN Closed(d) ELSE Changed(d)
      /\ UNCHANGED <<editor, storage>>
  BY DEF SessionInv, DependenciesReported, Wired, Receive
<1>2. d \in Docs /\ new \in Buffers /\ inbox' \in Seq(Messages)
  <2>1. Head(inbox) \in Messages /\ Tail(inbox) \in Seq(Messages)
    BY <1>1, HeadTailProperties
  <2> QED
    BY <1>1, <2>1 DEF Messages
<1>3. /\ noticed' = noticed /\ shown' = shown /\ buffers' = buffers /\ edits' = edits
      /\ documents' \in [Docs -> Buffers]
      /\ documents'[d] = new /\ \A e \in Docs : e # d => documents'[e] = documents[e]
      /\ outbox \in Seq(Reports)
  BY <1>1, <1>2 DEF editor, storage, TypeOK, Buffers, SessionInv, Wired
<1>4. \A e \in Docs : /\ Lead(e)'
                      /\ e = d => Follows(documents[e], documents'[e])
  <2> TAKE e \in Docs
  <2>1. Lead(e)
    BY DEF SessionInv
  <2> QED
    BY <1>1, <1>3, <2>1, Shorter
<1>5. /\ \A e \in Docs : e # d => analyses'[e] = analyses[e]
      /\ analyses' \in [Docs -> Analyses \cup {None}]
      /\ analyses'[d] = IF new = None THEN None ELSE analyses[d]
      /\ debounces' = IF new = None THEN debounces \ {d} ELSE debounces \cup {d}
      /\ outbox' = outbox \o IF new = None THEN Cleared(d) ELSE <<>>
      /\ reported' = Dependencies(analyses)'
  <2>1. CASE new = None
    BY <1>1, <1>2, <2>1 DEF Closed, Stopped, Forgotten, PublishDependencies, Dependencies, TypeOK
  <2>2. CASE new # None
    <3>1. Changed(d)
      BY <1>1, <2>2
    <3>2. reported = Dependencies(analyses)
      BY DEF SessionInv, DependenciesReported
    <3>3. outbox \o <<>> = outbox
      BY <1>3, ConcatEmptySeq
    <3> QED
      BY <1>1, <2>2, <3>1, <3>2, <3>3 DEF Changed, Dependencies, TypeOK
  <2> QED
    BY <2>1, <2>2
<1> HIDE DEF d, new
<1>6. TypeOK'
  <2>1. debounces' \subseteq Open'
    BY <1>1, <1>2, <1>3, <1>5 DEF TypeOK, Open
  <2> QED
    BY <1>1, <1>3, <1>5, <2>1 DEF TypeOK, editor, storage, Buffers
<1>7. \A e \in Docs : Fresh(e)'
  <2> TAKE e \in Docs
  <2>1. Fresh(e)
    BY DEF SessionInv
  <2>2. CASE e # d
    BY <1>3, <1>5, <2>1, <2>2 DEF Fresh
  <2>3. CASE e = d
    <3>1. CASE new = None \/ analyses[d] = None
      BY <1>5, <2>3, <3>1 DEF Fresh
    <3>2. CASE new # None /\ analyses[d] # None
      <4>1. /\ documents[d] # None /\ analyses[d].disk >= noticed
            /\ analyses[d].version =< documents[d].version /\ analyses'[d] = analyses[d]
        BY <1>5, <2>1, <2>3, <3>2 DEF Fresh
      <4>2. documents'[d].version > documents[d].version
        BY <1>3, <1>4, <2>3, <3>2, <4>1 DEF Follows
      <4>3. /\ documents[d] \in Documents /\ documents'[d] \in Documents /\ analyses[d] \in Analyses
        BY <1>1, <1>2, <1>3, <3>2, <4>1 DEF TypeOK, Buffers
      <4>4. /\ analyses[d].version \in Nat /\ documents[d].version \in Nat /\ documents'[d].version \in Nat
        BY <4>3 DEF Documents, Analyses
      <4> QED
        BY <1>3, <2>3, <3>2, <4>1, <4>2, <4>4 DEF Fresh
    <3> QED
      BY <3>1, <3>2
  <2> QED
    BY <2>2, <2>3
<1> DEFINE c == [type |-> "diagnostics", doc |-> d, version |-> 0, facts |-> None]
<1>8. CASE new = None
  <2>1. outbox' = outbox \o <<c>>
    BY <1>5, <1>8 DEF Cleared
  <2>2. c \in Reports
    BY <1>2, LanguageServerAssumption DEF Reports
  <2>3. c.facts = None /\ c.type = "diagnostics" /\ c.doc = d
    OBVIOUS
  <2> HIDE DEF c
  <2>4. <<c>> \in Seq(Reports) /\ Len(<<c>>) = 1 /\ <<c>>[1] = c
    BY <2>2
  <2>5. /\ outbox' \in Seq(Reports) /\ Len(outbox') = Len(outbox) + 1
        /\ outbox'[Len(outbox) + 1] = c /\ Len(outbox) \in Nat
    BY <1>3, <2>1, <2>4
  <2>6. SendsCurrent
    BY <2>3, <2>5 DEF SendsCurrent, Current
  <2>7. ASSUME NEW e \in Docs, documents'[e] = None PROVE LastSent(e, None)'
    <3>1. CASE e = d
      <4>1. PICK k \in 1..Len(outbox') : k = Len(outbox')
        BY <2>5
      <4>2. /\ outbox'[k].type = "diagnostics" /\ outbox'[k].doc = e /\ outbox'[k].facts = None
            /\ k + 1..Len(outbox') = {}
        BY <2>3, <2>5, <3>1, <4>1
      <4>3. Diagnoses(k, e)'
        BY <4>2 DEF Diagnoses
      <4> QED
        BY <4>2, <4>3 DEF LastSent
    <3>2. CASE e # d
      <4>1. LastSent(e, None)
        BY <1>3, <2>7, <3>2 DEF SessionInv, DependenciesReported
      <4>2. \A i \in 1..Len(<<c>>) : ~(<<c>>[i].type = "diagnostics" /\ <<c>>[i].doc = e)
        BY <2>3, <2>4, <3>2
      <4> QED
        BY <1>3, <2>1, <2>4, <4>1, <4>2, SentMore
    <3> QED
      BY <3>1, <3>2
  <2>8. DependenciesReported'
    BY <1>5, <1>6, <2>7 DEF DependenciesReported, Dependencies
  <2>9. Wired'
    BY <1>2, <1>3, <2>5 DEF SessionInv, Wired
  <2> QED
    BY <1>4, <1>7, <2>6, <2>8, <2>9 DEF SessionInv
<1>9. CASE new # None
  <2>1. outbox' = outbox
    BY <1>3, <1>5, <1>9, ConcatEmptySeq
  <2>2. SendsCurrent
    <3>1. Len(outbox) \in Nat
      BY <1>3
    <3> QED
      BY <1>3, <2>1, <3>1, SendsNothing
  <2>3. ASSUME NEW e \in Docs, documents'[e] = None PROVE LastSent(e, None)'
    <3>1. LastSent(e, None)
      BY <1>3, <1>9, <2>3 DEF SessionInv, DependenciesReported
    <3> QED
      BY <1>3, <2>1, <3>1 DEF LastSent, Diagnoses
  <2>4. DependenciesReported'
    BY <1>5, <1>6, <2>3 DEF DependenciesReported, Dependencies
  <2>5. Wired'
    BY <1>2, <1>3, <2>1 DEF SessionInv, Wired
  <2> QED
    BY <1>4, <1>7, <2>2, <2>4, <2>5 DEF SessionInv
<1> QED
  BY <1>8, <1>9

(* Files are invalidated: what is kept and published is of the disk now.   *)
LEMMA InvalidateKeeps ==
  ASSUME SessionInv, InvalidateFiles
  PROVE  SessionInv' /\ SendsCurrent
<1> DEFINE nothing == [d \in Docs |-> None]
           questioned == {d \in Republish : Answers(d, nothing)}
           order == SetToSeq(questioned)
           report(d) == Message("diagnostics", d, nothing)
           sent == [i \in DOMAIN order |-> report(order[i])]
<1>1. /\ TypeOK /\ outbox \in Seq(Reports) /\ unnoticed' = FALSE /\ noticed' = disk
      /\ analyses' = [d \in Docs |-> IF d \in Republish THEN Asked(d, nothing)[d] ELSE None]
      /\ PublishDependencies(analyses')
      /\ outbox' = outbox \o sent
      /\ UNCHANGED <<editor, disk, inbox, documents, debounces>>
  BY DEF SessionInv, DependenciesReported, Wired, InvalidateFiles
<1>2. nothing \in [Docs -> Analyses \cup {None}] /\ disk \in 0..disk
  BY <1>1 DEF TypeOK
<1>3. ASSUME NEW d \in Docs, Answers(d, nothing)
      PROVE  /\ documents[d] # None /\ Asked(d, nothing)[d] \in Analyses
             /\ Asked(d, nothing)[d].version = documents[d].version
             /\ Asked(d, nothing)[d].text = documents[d].text
             /\ Asked(d, nothing)[d].disk >= disk
             /\ report(d) \in Reports /\ report(d).doc = d /\ report(d).facts = Asked(d, nothing)[d]
  <2>1. nothing[d] = None /\ "diagnostics" \in {"diagnostics", "answer"}
    OBVIOUS
  <2> HIDE DEF nothing
  <2> QED
    BY <1>1, <1>2, <1>3, <2>1, Analyzed
<1>4. ASSUME NEW d \in Docs
      PROVE  analyses'[d] = IF d \in Open /\ Answers(d, nothing) THEN Asked(d, nothing)[d] ELSE None
  BY <1>1 DEF Asked, Republish
<1>5. ASSUME NEW d \in Docs
      PROVE  /\ analyses'[d] \in Analyses \cup {None}
             /\ analyses'[d] # None =>
                  /\ documents[d] # None
                  /\ analyses'[d].disk >= disk
                  /\ analyses'[d].version = documents[d].version
                  /\ analyses'[d].text = documents[d].text
  BY <1>3, <1>4
<1>6. analyses' \in [Docs -> Analyses \cup {None}]
  BY <1>1, <1>5
<1>7. /\ documents' = documents /\ shown' = shown /\ buffers' = buffers /\ edits' = edits
      /\ disk' = disk /\ inbox' = inbox /\ debounces' = debounces
  BY <1>1 DEF editor
<1>8. sent \in Seq(Reports) /\ \A i \in 1..Len(sent) : \E d \in questioned : sent[i] = report(d)
  <2>1. questioned \subseteq Docs /\ IsFiniteSet(questioned)
    <3>1. questioned \subseteq Docs
      BY DEF Republish, Open
    <3> QED
      BY <3>1, FS_Subset, LanguageServerAssumption
  <2> HIDE DEF questioned
  <2>2. order \in [1..Cardinality(questioned) -> questioned] /\ Cardinality(questioned) \in Nat
    BY <2>1, Listed
  <2> HIDE DEF order
  <2>3. \A d \in questioned : report(d) \in Reports
    BY <1>3, <2>1 DEF questioned
  <2> HIDE DEF report
  <2>4. sent \in [1..Cardinality(questioned) -> Reports] /\ \A i \in 1..Cardinality(questioned) : sent[i] = report(order[i])
    BY <2>2, <2>3
  <2> HIDE DEF sent
  <2>5. sent \in Seq(Reports) /\ Len(sent) = Cardinality(questioned)
    BY <2>2, <2>4
  <2> QED
    BY <2>2, <2>4, <2>5
<1>9. \A d \in questioned : d \in Docs /\ Answers(d, nothing)
  BY DEF Republish, Open
<1> HIDE DEF sent, questioned, nothing
<1>10. outbox' \in Seq(Reports) /\ Len(outbox') = Len(outbox) + Len(sent)
       /\ Len(outbox) \in Nat /\ Len(sent) \in Nat
       /\ \A i \in Len(outbox) + 1..Len(outbox') : i - Len(outbox) \in 1..Len(sent) /\ outbox'[i] = sent[i - Len(outbox)]
  BY <1>1, <1>8
<1>11. SendsCurrent
  <2> SUFFICES ASSUME NEW i \in Len(outbox) + 1..Len(outbox') PROVE Current(outbox'[i])
    BY DEF SendsCurrent
  <2>1. PICK d \in questioned : outbox'[i] = report(d)
    BY <1>8, <1>10
  <2>2. d \in Docs /\ Answers(d, nothing)
    BY <1>9
  <2> HIDE DEF report
  <2> QED
    BY <1>1, <1>3, <1>7, <2>1, <2>2 DEF Current
<1>12. TypeOK'
  <2>1. noticed' \in 0..disk'
    BY <1>1, <1>7 DEF TypeOK
  <2> QED
    BY <1>1, <1>6, <1>7, <2>1 DEF TypeOK, Open
<1>13. DependenciesReported'
  <2>1. reported' = Dependencies(analyses)'
    BY <1>1 DEF PublishDependencies, Dependencies
  <2>2. ASSUME NEW e \in Docs, documents'[e] = None PROVE LastSent(e, None)'
    <3>1. LastSent(e, None) /\ documents[e] = None
      BY <1>7, <2>2 DEF SessionInv, DependenciesReported
    <3>2. \A i \in 1..Len(sent) : ~(sent[i].type = "diagnostics" /\ sent[i].doc = e)
      <4> TAKE i \in 1..Len(sent)
      <4>1. PICK d \in questioned : sent[i] = report(d)
        BY <1>8
      <4>2. d \in Docs /\ Answers(d, nothing)
        BY <1>9
      <4> HIDE DEF report
      <4>3. documents[d] # None /\ sent[i].doc = d
        BY <1>3, <4>1, <4>2
      <4> QED
        BY <3>1, <4>3
    <3> QED
      BY <1>1, <1>7, <1>8, <3>1, <3>2, SentMore
  <2> QED
    BY <1>12, <2>1, <2>2 DEF DependenciesReported, Dependencies
<1>14. Wired'
  BY <1>7, <1>10 DEF SessionInv, Wired
<1>15. ASSUME NEW e \in Docs PROVE Lead(e)' /\ Fresh(e)'
  <2>1. Lead(e)'
    BY <1>7 DEF SessionInv, Lead, Path
  <2>2. documents[e] # None => documents[e].version \in Nat
    BY <1>1 DEF TypeOK, Documents
  <2>3. Fresh(e)'
    BY <1>1, <1>5, <1>7, <2>2 DEF Fresh
  <2> QED
    BY <2>1, <2>3
<1> QED
  BY <1>11, <1>12, <1>13, <1>14, <1>15 DEF SessionInv

LEMMA SessionStep == SessionInv /\ [Next]_vars => SessionInv' /\ (UNCHANGED vars \/ SendsCurrent)
<1> SUFFICES ASSUME SessionInv, [Next]_vars PROVE SessionInv' /\ (UNCHANGED vars \/ SendsCurrent)
  OBVIOUS
<1>1. CASE Environment
  <2>1. CASE ChangeFile
    BY <2>1, ChangeFileKeeps
  <2>2. CASE \E d \in Docs, t \in Texts : OpenDocument(d, t) \/ ChangeDocument(d, t)
    BY <2>2, EditorKeeps
  <2>3. CASE \E d \in Docs : CloseDocument(d) \/ AskQuestion(d)
    <3>1. PICK d \in Docs : CloseDocument(d) \/ AskQuestion(d)
      BY <2>3
    <3>2. Texts # {}
      <4>1. buffers[d] # None
        BY <3>1 DEF CloseDocument, AskQuestion
      <4>2. buffers[d] \in Documents
        BY <4>1 DEF SessionInv, DependenciesReported, TypeOK
      <4> QED
        BY <4>2 DEF Documents
    <3> QED
      BY <3>1, <3>2, EditorKeeps
  <2> QED
    BY <1>1, <2>1, <2>2, <2>3 DEF Environment
<1>2. CASE Receive
  <2>1. Head(inbox).type \in {"document", "question"}
    BY <1>2 DEF Receive
  <2> QED
    BY <1>2, <2>1, DocumentKeeps, QuestionKeeps
<1>3. CASE Deliver
  BY <1>3, DeliverKeeps
<1>4. CASE \E d \in Docs : Debounced(d)
  BY <1>4, DebouncedKeeps
<1>5. CASE InvalidateFiles
  BY <1>5, InvalidateKeeps
<1>6. CASE UNCHANGED vars
  BY <1>6 DEF vars, editor, storage, wires, server, SessionInv, DependenciesReported, Dependencies, TypeOK, Open,
     LastSent, Diagnoses, Wired, Lead, Path, Fresh
<1> QED
  BY <1>1, <1>2, <1>3, <1>4, <1>5, <1>6 DEF Next

(***************************************************************************)
(* The host always knows what the analyses depend on, and a closed document *)
(* ends with no diagnostics, whatever was on its way.                      *)
(***************************************************************************)
THEOREM Reported == Spec => []DependenciesReported
<1>1. SessionInv => DependenciesReported
  BY DEF SessionInv
<1> QED
  BY <1>1, SessionInit, SessionStep, PTL DEF Spec

(***************************************************************************)
(* Every report is of the text the server then has, and of files no older  *)
(* than the last time it was told of a change.                             *)
(***************************************************************************)
THEOREM UpToDate == Spec => OutputIsCurrent
<1> DEFINE Sends == \A i \in Len(outbox) + 1..Len(outbox') :
                      LET m == outbox'[i]
                      IN m.facts # None =>
                           /\ documents'[m.doc] # None
                           /\ m.facts.text = documents'[m.doc].text
                           /\ m.facts.version = documents'[m.doc].version
                           /\ m.facts.disk >= noticed'
<1>1. SendsCurrent => Sends
  BY DEF SendsCurrent, Current
<1>2. SessionInv /\ [Next]_vars => [Sends]_vars
  BY <1>1, SessionStep
<1> QED
  BY <1>2, SessionInit, SessionStep, PTL DEF Spec, OutputIsCurrent

-----------------------------------------------------------------------------
(***************************************************************************)
(* Import graphs.                                                          *)
(***************************************************************************)

Graphs ==
  [Packages -> [status : {"source", "missing", "unparsable", "unknown"}, imports : Seq(Packages)]]

LEMMA ImportsAre ==
  ASSUME NEW s \in Graphs, NEW id \in Packages
  PROVE  /\ s[id].imports \in Seq(Packages) /\ ImportsOf(s, id) \subseteq Packages
         /\ Len(s[id].imports) \in Nat
         /\ \A k \in 1..Len(s[id].imports) : s[id].imports[k] \in ImportsOf(s, id)
         /\ \A p \in ImportsOf(s, id) : \E k \in 1..Len(s[id].imports) : p = s[id].imports[k]
<1>1. s[id].imports \in Seq(Packages)
  BY DEF Graphs
<1> QED
  BY <1>1, LenProperties, ElementOfSeq DEF ImportsOf, ToSet

LEMMA ReachedIs ==
  ASSUME NEW s \in Graphs, NEW id \in Packages
  PROVE  /\ Reached(s, id) \subseteq Packages /\ ImportsOf(s, id) \subseteq Reached(s, id)
         /\ \A p \in Reached(s, id) : ImportsOf(s, p) \subseteq Reached(s, id)
<1>1. ImportsOf(s, id) \subseteq Packages /\ \A p \in Packages : ImportsOf(s, p) \subseteq Packages
  BY ImportsAre
<1> QED
  BY <1>1 DEF Reached

LEMMA ReachedLeast ==
  ASSUME NEW s \in Graphs, NEW id \in Packages, NEW T \in SUBSET Packages,
         ImportsOf(s, id) \subseteq T, \A p \in T : ImportsOf(s, p) \subseteq T
  PROVE  Reached(s, id) \subseteq T
BY DEF Reached

(* What is reached from what is reached is reached. *)
LEMMA ReachedFurther ==
  ASSUME NEW s \in Graphs, NEW id \in Packages, NEW p \in Reached(s, id)
  PROVE  Reached(s, p) \subseteq Reached(s, id)
<1>1. p \in Packages /\ Reached(s, id) \in SUBSET Packages
      /\ ImportsOf(s, p) \subseteq Reached(s, id)
      /\ \A q \in Reached(s, id) : ImportsOf(s, q) \subseteq Reached(s, id)
  BY ReachedIs
<1> QED
  BY <1>1, ReachedLeast

(* What is reached is reached by a first import. *)
LEMMA ReachedFirst ==
  ASSUME NEW s \in Graphs, NEW id \in Packages, NEW q \in Reached(s, id)
  PROVE  \E p \in ImportsOf(s, id) : q = p \/ q \in Reached(s, p)
<1> DEFINE T == ImportsOf(s, id) \cup UNION {Reached(s, p) : p \in ImportsOf(s, id)}
<1>1. ImportsOf(s, id) \subseteq Packages
  BY ImportsAre
<1>2. T \in SUBSET Packages
  BY <1>1, ReachedIs
<1>3. ASSUME NEW p \in T PROVE ImportsOf(s, p) \subseteq T
  <2>1. CASE p \in ImportsOf(s, id)
    <3>1. ImportsOf(s, p) \subseteq Reached(s, p)
      BY <1>1, <2>1, ReachedIs
    <3> QED
      BY <2>1, <3>1
  <2>2. CASE \E r \in ImportsOf(s, id) : p \in Reached(s, r)
    <3>1. PICK r \in ImportsOf(s, id) : p \in Reached(s, r)
      BY <2>2
    <3>2. ImportsOf(s, p) \subseteq Reached(s, r)
      BY <1>1, <3>1, ReachedIs
    <3> QED
      BY <3>1, <3>2
  <2> QED
    BY <2>1, <2>2
<1>4. Reached(s, id) \subseteq T
  <2> HIDE DEF T
  <2>1. ImportsOf(s, id) \subseteq T
    BY DEF T
  <2> QED
    BY <1>2, <1>3, <2>1, ReachedLeast
<1> QED
  BY <1>4

(* Source whose imports can be loaded can be loaded. *)
LEMMA LoadsAll ==
  ASSUME NEW s \in Graphs, NEW id \in Packages, s[id].status = "source",
         \A p \in ImportsOf(s, id) : Loadable(s, p)
  PROVE  Loadable(s, id)
<1>1. ASSUME NEW q \in Reached(s, id)
      PROVE  s[q].status = "source" /\ q \notin Reached(s, q)
  <2>1. PICK p \in ImportsOf(s, id) : q = p \/ q \in Reached(s, p)
    BY ReachedFirst
  <2> QED
    BY <2>1 DEF Loadable
<1>2. id \notin Reached(s, id)
  BY <1>1
<1> QED
  BY <1>1, <1>2 DEF Loadable

(* An import that cannot be loaded fails what imports it. *)
LEMMA LoadsNone ==
  ASSUME NEW s \in Graphs, NEW id \in Packages, NEW p \in ImportsOf(s, id), ~ Loadable(s, p)
  PROVE  ~ Loadable(s, id)
<1>1. p \in Reached(s, id) /\ Reached(s, p) \subseteq Reached(s, id)
  BY ReachedIs, ReachedFurther
<1> QED
  BY <1>1 DEF Loadable

-----------------------------------------------------------------------------
(***************************************************************************)
(* The resolver.                                                           *)
(***************************************************************************)

Frame == [id : Packages, next : Nat \ {0}]

(* A graph that could be there, for all the resolver has seen. *)
Alike(s) == s \in Graphs /\ \A p \in Libraries \cup files : s[p] = source[p]

(* Each load on the stack is at the import whose load is above it. *)
Frames(stack) ==
  /\ stack \in Seq(Frame)
  /\ \A i \in 1..Len(stack) :
       LET id == stack[i].id
           n == stack[i].next
       IN /\ id \in Libraries \cup files
          /\ n - 1 <= Len(source[id].imports)
          /\ source[id].status \in {"source", "unparsable"}
          /\ n > 1 => source[id].status = "source"
          /\ i < Len(stack) => n > 1 /\ source[id].imports[n - 1] = stack[i + 1].id
  /\ \A i, j \in 1..Len(stack) : stack[i].id = stack[j].id => i = j

(* The stack is a path, and what was imported before can be loaded. *)
Way(s, stack) ==
  /\ \A i, j \in 1..Len(stack) : i < j => stack[j].id \in Reached(s, stack[i].id)
  /\ \A i \in 1..Len(stack) : \A k \in 1..Len(source[stack[i].id].imports) :
       k < stack[i].next - 1 => Loadable(s, source[stack[i].id].imports[k])

Remembers(s) == \A id \in Packages : cache[id] # Undefined => cache[id] = Promised(s, id)

(* What import() returned is true of the import it was asked for. *)
Returned(s) ==
  /\ loading # <<>> =>
       LET id == loading[Len(loading)].id
           n == loading[Len(loading)].next
       IN /\ outcome = "package" => n > 1 /\ Loadable(s, source[id].imports[n - 1])
          /\ outcome = "error" => ~ Loadable(s, id)
          /\ outcome = Undefined => n = 1
  /\ loading = <<>> /\ asked # Undefined => outcome = Promised(s, asked)

Known ==
  /\ source \in Graphs /\ \A id \in Packages : source[id] \in Sources(id)
  /\ cache \in [Packages -> {Undefined, "package", "error"}]
  /\ outcome \in {Undefined, "package", "error"} /\ files \subseteq Files
  /\ asked \in Packages \cup {Undefined} /\ requests \in 0..MaxRequests

LoadedOnce ==
  /\ loads \in [Packages -> 0..1]
  /\ \A id \in Packages : loads[id] # 0 => cache[id] # Undefined \/ id \in Loading

ResolverInv ==
  /\ Known /\ Frames(loading) /\ LoadedOnce
  /\ loading # <<>> => loading[1].id = asked
  /\ \A s : Alike(s) => Way(s, loading) /\ Remembers(s) /\ Returned(s)

LEMMA PromisedIs ==
  ASSUME NEW s, NEW id
  PROVE  /\ Promised(s, id) \in {"package", "error"}
         /\ Promised(s, id) = "package" <=> Loadable(s, id)
         /\ Promised(s, id) = "error" <=> ~ Loadable(s, id)
BY DEF Promised

LEMMA IdsAre ==
  ASSUME NEW stack \in Seq(Frame), NEW id
  PROVE  id \in {frame.id : frame \in ToSet(stack)} <=> \E i \in 1..Len(stack) : stack[i].id = id
BY LenProperties DEF ToSet

(* What the resolver has seen of a package is so in every graph alike. *)
LEMMA SeenIs ==
  ASSUME ImportResolverAssumption, NEW s, Alike(s), NEW id \in Libraries \cup files
  PROVE  s \in Graphs /\ s[id] = source[id] /\ ImportsOf(s, id) = ImportsOf(source, id)
BY DEF Alike, ImportsOf

(* What import() does on behalf of the load on top of a stack. *)
LEMMA ImportReturns ==
  ASSUME ImportResolverAssumption, Known, LoadedOnce, \A s : Alike(s) => Remembers(s),
         loading \in Seq(Frame),
         NEW stack, NEW id \in Packages, Import(id, stack), source' = source,
         \A s : Alike(s)' /\ id \in Loading => id \in Reached(s, id)
  PROVE  /\ files \subseteq files' /\ files' \subseteq Files /\ id \in Libraries \cup files'
         /\ cache' \in [Packages -> {Undefined, "package", "error"}]
         /\ \A p \in Packages : cache[p] # Undefined => cache'[p] # Undefined
         /\ \A s : Alike(s)' => Alike(s) /\ Remembers(s)'
         /\ \/ /\ loading' = stack /\ outcome' \in {"package", "error"} /\ loads' = loads
               /\ \A s : Alike(s)' => outcome' = Promised(s, id)
            \/ /\ loading' = Append(stack, [id |-> id, next |-> 1]) /\ outcome' = Undefined
               /\ id \notin Loading /\ cache[id] = Undefined /\ cache' = cache
               /\ source[id].status \in {"source", "unparsable"}
               /\ loads' = [loads EXCEPT ![id] = @ + 1]
<1>1. /\ files \subseteq files' /\ files' \subseteq Files /\ id \in Libraries \cup files'
  BY DEF Import, FilesAsked, Known, Packages
<1>2. ASSUME NEW s, Alike(s)' PROVE Alike(s) /\ s[id] = source[id] /\ s \in Graphs
  BY <1>1, <1>2 DEF Alike
<1>3. CASE cache[id] # Undefined
  <2>1. outcome' = cache[id] /\ loading' = stack /\ cache' = cache /\ loads' = loads
    BY <1>3 DEF Import, Return
  <2>2. outcome' \in {"package", "error"} /\ cache' \in [Packages -> {Undefined, "package", "error"}]
    BY <1>3, <2>1 DEF Known
  <2>3. ASSUME NEW s, Alike(s)' PROVE Alike(s) /\ Remembers(s)' /\ outcome' = Promised(s, id)
    <3>1. Alike(s) /\ Remembers(s)
      BY <1>2, <2>3
    <3> QED
      BY <1>3, <2>1, <3>1 DEF Remembers
  <2> QED
    BY <1>1, <2>1, <2>2, <2>3
<1>4. CASE cache[id] = Undefined
  <2> USE <1>4
  <2>1. CASE /\ ClosesCycle(id) \/ source[id].status = "unknown"
             /\ cache' = [cache EXCEPT ![id] = "error"] /\ outcome' = "error"
             /\ loading' = stack /\ loads' = loads
    <3>1. ASSUME NEW s, Alike(s)' PROVE Promised(s, id) = "error"
      <4>1. CASE id \in Loading
        BY <2>1, <3>1, <4>1 DEF Promised, Loadable
      <4>2. CASE source[id].status = "unknown"
        BY <1>2, <2>1, <3>1, <4>2 DEF Promised, Loadable
      <4> QED
        BY <2>1, <4>1, <4>2 DEF ClosesCycle
    <3>2. /\ cache' \in [Packages -> {Undefined, "package", "error"}] /\ cache'[id] = "error"
          /\ \A p \in Packages : p # id => cache'[p] = cache[p]
      BY <2>1 DEF Known
    <3>3. ASSUME NEW s, Alike(s)' PROVE Remembers(s)'
      <4>1. Remembers(s)
        BY <1>2, <3>3
      <4>2. Promised(s, id) = "error"
        BY <3>1, <3>3
      <4> QED
        BY <3>2, <4>1, <4>2 DEF Remembers
    <3>4. \A p \in Packages : cache[p] # Undefined => cache'[p] # Undefined
      BY <3>2
    <3> QED
      BY <1>1, <1>2, <2>1, <3>1, <3>2, <3>3, <3>4
  <2>2. CASE /\ source[id].status = "missing" /\ outcome' = "error"
             /\ loading' = stack /\ cache' = cache /\ loads' = loads
    <3>1. ASSUME NEW s, Alike(s)'
          PROVE  Alike(s) /\ Remembers(s)' /\ Promised(s, id) = "error"
      <4>1. Alike(s) /\ Remembers(s) /\ s[id].status = "missing"
        BY <1>2, <2>2, <3>1
      <4>2. Remembers(s)'
        BY <2>2, <4>1 DEF Remembers
      <4> QED
        BY <4>1, <4>2 DEF Promised, Loadable
    <3> QED
      BY <1>1, <2>2, <3>1 DEF Known
  <2>3. CASE /\ ~ClosesCycle(id) /\ source[id].status \notin {"unknown", "missing"}
             /\ outcome' = Undefined /\ loading' = Append(stack, [id |-> id, next |-> 1])
             /\ loads' = [loads EXCEPT ![id] = @ + 1] /\ cache' = cache
    <3>1. source[id].status \in {"source", "unparsable"}
      BY <2>3 DEF Known, Graphs
    <3>2. ASSUME NEW s, Alike(s)' PROVE Alike(s) /\ Remembers(s)'
      <4>1. Alike(s) /\ Remembers(s)
        BY <1>2, <3>2
      <4> QED
        BY <2>3, <4>1 DEF Remembers
    <3> QED
      BY <1>1, <2>3, <3>1, <3>2 DEF Known, ClosesCycle
  <2> QED
    BY <2>1, <2>2, <2>3 DEF Import, Begin, Return
<1> QED
  BY <1>3, <1>4 DEF Known

(* A package that is imported by the load on top of the stack. *)
Imported(stack, id) ==
  LET top == stack[Len(stack)]
  IN /\ top.next > 1 /\ top.next - 1 \in 1..Len(source[top.id].imports)
     /\ source[top.id].imports[top.next - 1] = id /\ source[top.id].status = "source"

LEMMA ImportedIs ==
  ASSUME ImportResolverAssumption, NEW stack, Frames(stack), stack # <<>>, NEW id,
         Imported(stack, id), NEW s, Alike(s)
  PROVE  /\ Len(stack) \in 1..Len(stack) /\ stack[Len(stack)].id \in Packages
         /\ id \in ImportsOf(s, stack[Len(stack)].id) /\ s \in Graphs
<1> DEFINE top == stack[Len(stack)]
<1>1. Len(stack) \in 1..Len(stack) /\ top \in Frame
  BY LenProperties, EmptySeq, ElementOfSeq DEF Frames
<1>2. top.id \in Packages /\ top.id \in Libraries \cup files
  BY <1>1 DEF Frame, Frames
<1>3. s \in Graphs /\ s[top.id] = source[top.id]
  BY <1>2, SeenIs
<1>4. id \in ImportsOf(s, top.id)
  BY <1>2, <1>3, ImportsAre DEF Imported
<1> QED
  BY <1>1, <1>2, <1>3, <1>4

(* A package on the stack that is imported again is on a cycle. *)
LEMMA ClosesCycleIs ==
  ASSUME ImportResolverAssumption, NEW stack, Frames(stack), stack # <<>>, NEW id,
         Imported(stack, id), NEW s, Alike(s), Way(s, stack),
         NEW i \in 1..Len(stack), stack[i].id = id
  PROVE  id \in Reached(s, id)
<1> DEFINE top == stack[Len(stack)]
<1>1. /\ Len(stack) \in 1..Len(stack) /\ top.id \in Packages
      /\ id \in ImportsOf(s, top.id) /\ s \in Graphs
  BY ImportedIs
<1>2. id \in Packages
  BY <1>1, ImportsAre
<1>3. CASE i = Len(stack)
  BY <1>1, <1>2, <1>3, ReachedIs
<1>4. CASE i # Len(stack)
  <2>1. i < Len(stack)
    BY <1>1, <1>4
  <2>2. top.id \in Reached(s, id)
    BY <1>1, <2>1 DEF Way
  <2> QED
    BY <1>1, <1>2, <2>2, ReachedIs
<1> QED
  BY <1>3, <1>4

LEMMA PushedFrames ==
  ASSUME ImportResolverAssumption, NEW stack, Frames(stack), NEW id \in Packages,
         stack # <<>> => Imported(stack, id), \A i \in 1..Len(stack) : stack[i].id # id,
         source' = source, files \subseteq files', id \in Libraries \cup files',
         source[id].status \in {"source", "unparsable"}, Len(source[id].imports) \in Nat,
         NEW pushed, pushed = Append(stack, [id |-> id, next |-> 1])
  PROVE  Frames(pushed)'
<1> DEFINE m == Len(stack)
           frame == [id |-> id, next |-> 1]
<1>1. stack \in Seq(Frame) /\ m \in Nat /\ frame \in Frame
  BY LenProperties DEF Frames, Frame
<1>2. /\ pushed \in Seq(Frame) /\ Len(pushed) = m + 1 /\ pushed[m + 1] = frame
      /\ \A i \in 1..m : pushed[i] = stack[i]
  BY <1>1, AppendProperties
<1>3. ASSUME NEW i \in 1..(m + 1)
      PROVE  LET p == pushed[i].id
                 n == pushed[i].next
             IN /\ p \in Libraries \cup files'
                /\ n - 1 <= Len(source[p].imports)
                /\ source[p].status \in {"source", "unparsable"}
                /\ n > 1 => source[p].status = "source"
                /\ i < m + 1 => n > 1 /\ source[p].imports[n - 1] = pushed[i + 1].id
  <2>1. CASE i = m + 1
    BY <1>1, <1>2, <2>1
  <2>2. CASE i # m + 1
    <3>1. i \in 1..m /\ pushed[i] = stack[i]
      BY <1>1, <1>2, <2>2
    <3>2. LET p == stack[i].id
              n == stack[i].next
          IN /\ p \in Libraries \cup files
             /\ n - 1 <= Len(source[p].imports)
             /\ source[p].status \in {"source", "unparsable"}
             /\ n > 1 => source[p].status = "source"
             /\ i < m => n > 1 /\ source[p].imports[n - 1] = stack[i + 1].id
      BY <3>1 DEF Frames
    <3>3. CASE i = m
      <4>1. stack # <<>> /\ pushed[i + 1].id = id
        BY <1>1, <1>2, <3>1, <3>3
      <4> QED
        BY <3>1, <3>2, <3>3, <4>1 DEF Imported
    <3>4. CASE i # m
      <4>1. i < m /\ i + 1 \in 1..m
        BY <1>1, <3>1, <3>4
      <4> QED
        BY <1>2, <3>1, <3>2, <4>1
    <3> QED
      BY <3>3, <3>4
  <2> QED
    BY <2>1, <2>2
<1>4. ASSUME NEW i \in 1..(m + 1), NEW j \in 1..(m + 1), pushed[i].id = pushed[j].id
      PROVE  i = j
  <2>1. \A k \in 1..m : pushed[k].id # id /\ pushed[m + 1].id = id
    BY <1>2
  <2>2. \A k \in 1..(m + 1) : k = m + 1 \/ k \in 1..m
    BY <1>1
  <2>3. \A k, l \in 1..m : pushed[k].id = pushed[l].id => k = l
    BY <1>2 DEF Frames
  <2> QED
    BY <1>4, <2>1, <2>2, <2>3
<1> QED
  BY <1>2, <1>3, <1>4 DEF Frames

LEMMA PushedWay ==
  ASSUME ImportResolverAssumption, NEW stack, Frames(stack), NEW id \in Packages,
         stack # <<>> => Imported(stack, id), source' = source,
         NEW s, Alike(s), Way(s, stack),
         NEW pushed, pushed = Append(stack, [id |-> id, next |-> 1])
  PROVE  Way(s, pushed)'
<1> DEFINE m == Len(stack)
           frame == [id |-> id, next |-> 1]
<1>1. stack \in Seq(Frame) /\ m \in Nat /\ frame \in Frame
  BY LenProperties DEF Frames, Frame
<1>2. /\ pushed \in Seq(Frame) /\ Len(pushed) = m + 1 /\ pushed[m + 1] = frame
      /\ \A i \in 1..m : pushed[i] = stack[i]
  BY <1>1, AppendProperties
<1>3. ASSUME NEW i \in 1..(m + 1), NEW j \in 1..(m + 1), i < j
      PROVE  pushed[j].id \in Reached(s, pushed[i].id)
  <2>1. i \in 1..m /\ pushed[i] = stack[i]
    BY <1>1, <1>2, <1>3
  <2>2. CASE j = m + 1
    <3> DEFINE top == stack[m]
    <3>1. stack # <<>>
      BY <1>1, <2>1
    <3>2. m \in 1..m /\ top.id \in Packages /\ id \in ImportsOf(s, top.id) /\ s \in Graphs
      BY <3>1, ImportedIs
    <3>3. CASE i = m
      BY <1>2, <2>1, <2>2, <3>2, <3>3, ReachedIs
    <3>4. CASE i # m
      <4>1. top.id \in Reached(s, stack[i].id)
        BY <2>1, <3>2, <3>4 DEF Way
      <4>2. stack[i].id \in Packages
        <5>1. stack[i] \in Frame
          BY <1>1, <2>1, ElementOfSeq
        <5> QED
          BY <5>1 DEF Frame
      <4> QED
        BY <1>2, <2>1, <2>2, <3>2, <4>1, <4>2, ReachedIs
    <3> QED
      BY <3>3, <3>4
  <2>3. CASE j # m + 1
    <3>1. j \in 1..m /\ pushed[j] = stack[j]
      BY <1>1, <1>2, <2>3
    <3> QED
      BY <1>3, <2>1, <3>1 DEF Way
  <2> QED
    BY <2>2, <2>3
<1>4. ASSUME NEW i \in 1..(m + 1), NEW k \in 1..Len(source[pushed[i].id].imports),
             k < pushed[i].next - 1
      PROVE  Loadable(s, source[pushed[i].id].imports[k])
  <2>1. CASE i = m + 1
    <3>1. pushed[i].next = 1
      BY <1>2, <2>1
    <3>2. k \in Int /\ k >= 1
      OBVIOUS
    <3> QED
      BY <1>4, <3>1, <3>2
  <2>2. CASE i # m + 1
    <3>1. i \in 1..m /\ pushed[i] = stack[i]
      BY <1>1, <1>2, <2>2
    <3> QED
      BY <1>4, <3>1 DEF Way
  <2> QED
    BY <2>1, <2>2
<1> QED
  BY <1>2, <1>3, <1>4 DEF Way

(* import(), asked for by the load on top or, with no load, from outside. *)
LEMMA ImportKeeps ==
  ASSUME ImportResolverAssumption, ResolverInv,
         NEW stack, Frames(stack), NEW id \in Packages, Import(id, stack), source' = source,
         \A p : p \in Loading <=> \E i \in 1..Len(stack) : stack[i].id = p,
         \A s : Alike(s) => Way(s, stack),
         stack # <<>> => Imported(stack, id) /\ stack[1].id = asked,
         asked' = IF stack = <<>> THEN id ELSE asked,
         requests' \in 0..MaxRequests
  PROVE  ResolverInv'
<1> DEFINE m == Len(stack)
           top == stack[m]
<1>1. files \subseteq files'
  BY DEF Import, FilesAsked
<1>2. ASSUME NEW s, Alike(s)' PROVE Alike(s)
  BY <1>1, <1>2 DEF Alike
<1>3. ASSUME NEW s, Alike(s)', id \in Loading PROVE id \in Reached(s, id)
  <2>1. PICK i \in 1..m : stack[i].id = id
    BY <1>3
  <2>2. stack # <<>> /\ m \in Nat
    BY <2>1, LenProperties DEF Frames
  <2>3. Imported(stack, id) /\ Alike(s) /\ Way(s, stack)
    BY <1>2, <1>3, <2>2
  <2> QED
    BY <2>1, <2>2, <2>3, ClosesCycleIs
<1>4. /\ Known /\ LoadedOnce /\ loading \in Seq(Frame) /\ \A s : Alike(s) => Remembers(s)
  BY DEF ResolverInv, Frames
<1>5. /\ files \subseteq files' /\ files' \subseteq Files /\ id \in Libraries \cup files'
      /\ cache' \in [Packages -> {Undefined, "package", "error"}]
      /\ \A p \in Packages : cache[p] # Undefined => cache'[p] # Undefined
      /\ \A s : Alike(s)' => Alike(s) /\ Remembers(s)'
      /\ \/ /\ loading' = stack /\ outcome' \in {"package", "error"} /\ loads' = loads
            /\ \A s : Alike(s)' => outcome' = Promised(s, id)
         \/ /\ loading' = Append(stack, [id |-> id, next |-> 1]) /\ outcome' = Undefined
            /\ id \notin Loading /\ cache[id] = Undefined /\ cache' = cache
            /\ source[id].status \in {"source", "unparsable"}
            /\ loads' = [loads EXCEPT ![id] = @ + 1]
  BY <1>3, <1>4, ImportReturns
<1>6. Known'
  <2>1. asked' \in Packages \cup {Undefined}
    BY <1>4 DEF Known
  <2>2. outcome' \in {Undefined, "package", "error"}
    BY <1>5
  <2> QED
    BY <1>4, <1>5, <2>1, <2>2 DEF Known
<1>7. stack \in Seq(Frame) /\ m \in Nat
  BY LenProperties DEF Frames
<1>8. CASE /\ loading' = stack /\ outcome' \in {"package", "error"} /\ loads' = loads
           /\ \A s : Alike(s)' => outcome' = Promised(s, id)
  <2>1. Frames(loading)'
    BY <1>1, <1>8 DEF Frames
  <2>2. LoadedOnce'
    <3>1. \A p : p \in Loading => p \in Loading'
      <4>1. \A p : p \in Loading' <=> \E i \in 1..Len(stack) : stack[i].id = p
        BY <1>7, <1>8, IdsAre DEF Loading
      <4> QED
        BY <4>1
    <3> QED
      BY <1>4, <1>5, <1>8, <3>1 DEF LoadedOnce
  <2>3. loading' # <<>> => loading'[1].id = asked'
    BY <1>8
  <2>4. ASSUME NEW s, Alike(s)' PROVE Way(s, loading)' /\ Remembers(s)' /\ Returned(s)'
    <3>1. Alike(s) /\ Remembers(s)' /\ Way(s, stack) /\ outcome' = Promised(s, id)
      BY <1>5, <1>8, <2>4
    <3>2. Way(s, loading)'
      BY <1>8, <3>1 DEF Way
    <3>3. Returned(s)'
      <4>1. CASE stack = <<>>
        BY <1>8, <3>1, <4>1 DEF Returned
      <4>2. CASE stack # <<>>
        <5>1. /\ top.id \in Packages /\ id \in ImportsOf(s, top.id) /\ s \in Graphs
              /\ top.next > 1 /\ source[top.id].imports[top.next - 1] = id
          BY <3>1, <4>2, ImportedIs DEF Imported
        <5>2. outcome' = "package" => Loadable(s, id)
          BY <3>1, PromisedIs
        <5>3. outcome' = "error" => ~ Loadable(s, top.id)
          BY <3>1, <5>1, PromisedIs, LoadsNone
        <5>4. outcome' # Undefined
          BY <1>8 DEF ImportResolverAssumption
        <5> QED
          BY <1>8, <4>2, <5>1, <5>2, <5>3, <5>4 DEF Returned
      <4> QED
        BY <4>1, <4>2
    <3> QED
      BY <3>1, <3>2, <3>3
  <2> QED
    BY <1>6, <2>1, <2>2, <2>3, <2>4 DEF ResolverInv
<1>9. CASE /\ loading' = Append(stack, [id |-> id, next |-> 1]) /\ outcome' = Undefined
           /\ id \notin Loading /\ cache[id] = Undefined /\ cache' = cache
           /\ source[id].status \in {"source", "unparsable"}
           /\ loads' = [loads EXCEPT ![id] = @ + 1]
  <2> DEFINE pushed == Append(stack, [id |-> id, next |-> 1])
  <2>1. Frames(pushed)'
    <3>1. Len(source[id].imports) \in Nat
      BY <1>4, ImportsAre DEF Known
    <3>2. \A i \in 1..Len(stack) : stack[i].id # id
      BY <1>9
    <3> QED
      BY <1>5, <1>9, <3>1, <3>2, PushedFrames
  <2>2. Frames(loading)'
    BY <1>9, <2>1 DEF Frames
  <2>3. /\ pushed \in Seq(Frame) /\ Len(pushed) = m + 1
        /\ pushed[m + 1] = [id |-> id, next |-> 1] /\ \A i \in 1..m : pushed[i] = stack[i]
    <3>1. [id |-> id, next |-> 1] \in Frame
      BY DEF Frame
    <3> QED
      BY <1>7, <3>1, AppendProperties
  <2>4. LoadedOnce'
    <3>1. \A p : p \in Loading' <=> \E i \in 1..Len(pushed) : pushed[i].id = p
      <4>1. pushed \in Seq(Frame) /\ loading' = pushed
        BY <1>9, <2>3
      <4> HIDE DEF pushed
      <4> QED
        BY <4>1, IdsAre DEF Loading
    <3>2. id \in Loading'
      BY <1>7, <2>3, <3>1
    <3>3. \A p : p \in Loading => p \in Loading'
      BY <1>7, <2>3, <3>1
    <3>4. loads[id] = 0
      BY <1>4, <1>9 DEF LoadedOnce
    <3> QED
      BY <1>4, <1>9, <3>2, <3>3, <3>4 DEF LoadedOnce
  <2>5. loading'[1].id = asked'
    <3>1. CASE stack = <<>>
      BY <1>7, <1>9, <2>3, <3>1
    <3>2. CASE stack # <<>>
      <4>1. 1 \in 1..m
        BY <1>7, <3>2, EmptySeq
      <4> QED
        BY <1>9, <2>3, <3>2, <4>1
    <3> QED
      BY <3>1, <3>2
  <2>6. ASSUME NEW s, Alike(s)' PROVE Way(s, loading)' /\ Remembers(s)' /\ Returned(s)'
    <3>1. Alike(s) /\ Remembers(s)' /\ Way(s, stack)
      BY <1>5, <2>6
    <3>2. Way(s, pushed)'
      BY <3>1, PushedWay
    <3>3. Way(s, loading)'
      BY <1>9, <3>2 DEF Way
    <3>4. Returned(s)'
      <4>1. loading' # <<>> /\ loading'[Len(loading')].next = 1
        BY <1>7, <1>9, <2>3
      <4> QED
        BY <1>9, <4>1 DEF Returned, ImportResolverAssumption
    <3> QED
      BY <3>1, <3>3, <3>4
  <2> QED
    BY <1>6, <2>2, <2>4, <2>5, <2>6 DEF ResolverInv
<1> QED
  BY <1>5, <1>8, <1>9

LEMMA RequestKeeps ==
  ASSUME ImportResolverAssumption, ResolverInv, NEW id \in Packages, Request(id)
  PROVE  ResolverInv'
<1>1. /\ loading = <<>> /\ requests < MaxRequests /\ asked' = id /\ requests' = requests + 1
      /\ Import(id, <<>>) /\ source' = source
  BY DEF Request
<1> DEFINE stack == <<>>
<1>2. stack \in Seq(Frame) /\ Len(stack) = 0 /\ 1..0 = {}
  OBVIOUS
<1>3. Frames(stack) /\ \A s : Way(s, stack)
  BY <1>2 DEF Frames, Way
<1>4. \A p : p \in Loading <=> \E i \in 1..Len(stack) : stack[i].id = p
  BY <1>1, <1>2, IdsAre DEF Loading
<1>5. requests' \in 0..MaxRequests
  BY <1>1 DEF ResolverInv, Known, ImportResolverAssumption
<1>6. stack = <<>> /\ Import(id, stack) /\ asked' = IF stack = <<>> THEN id ELSE asked
  BY <1>1
<1> HIDE DEF stack
<1> QED
  BY <1>1, <1>3, <1>4, <1>5, <1>6, ImportKeeps

LEMMA FrontIs ==
  ASSUME NEW S, NEW q \in Seq(S), q # <<>>, NEW less, less = Front(q)
  PROVE  /\ Len(q) - 1 \in Nat /\ less \in Seq(S) /\ Len(less) = Len(q) - 1
         /\ \A i \in 1..Len(q) - 1 : less[i] = q[i]
<1> DEFINE n == Len(q) - 1
<1>1. Len(q) \in Nat /\ n \in Nat /\ \A i \in 1..n : q[i] \in S
  BY LenProperties, EmptySeq, ElementOfSeq
<1>2. 1 \in Int /\ n \in Int
  BY <1>1
<1> HIDE DEF n
<1>3. /\ SubSeq(q, 1, n) \in Seq(S)
      /\ Len(SubSeq(q, 1, n)) = IF 1 <= n THEN n - 1 + 1 ELSE 0
      /\ \A i \in 1..n - 1 + 1 : SubSeq(q, 1, n)[i] = q[1 + i - 1]
  BY <1>1, <1>2, SubSeqProperties
<1>4. less = SubSeq(q, 1, n)
  BY DEF Front, n
<1>5. n - 1 + 1 = n /\ (~ (1 <= n) => n = 0) /\ \A i \in 1..n : 1 + i - 1 = i
  BY <1>1
<1>6. Len(less) = n /\ \A i \in 1..n : less[i] = q[i]
  BY <1>3, <1>4, <1>5
<1> QED
  BY <1>1, <1>3, <1>4, <1>6 DEF n

(* The load on top has returned: it is known to be right. *)
LEMMA LoadedKeeps ==
  ASSUME ImportResolverAssumption, ResolverInv, loading # <<>>,
         NEW result \in {"package", "error"}, Loaded(loading[Len(loading)].id, result),
         UNCHANGED <<source, asked, requests>>,
         \A s : Alike(s) => result = Promised(s, loading[Len(loading)].id)
  PROVE  ResolverInv'
<1> DEFINE m == Len(loading)
           id == loading[m].id
<1>0. PICK less : less = Front(loading)
  OBVIOUS
<1>1. /\ Known /\ Frames(loading) /\ LoadedOnce /\ loading[1].id = asked
      /\ \A s : Alike(s) => Way(s, loading) /\ Remembers(s) /\ Returned(s)
  BY DEF ResolverInv
<1>2. /\ loading' = less /\ cache' = [cache EXCEPT ![id] = result] /\ outcome' = result
      /\ UNCHANGED <<files, loads, source, asked, requests>>
  BY <1>0 DEF Loaded, Remember, Return
<1>3. loading \in Seq(Frame) /\ m \in Nat /\ m > 0 /\ loading[m] \in Frame /\ m \in 1..m
  <2>1. loading \in Seq(Frame) /\ m \in Nat /\ m > 0
    BY <1>1, LenProperties, EmptySeq DEF Frames
  <2> QED
    BY <2>1, ElementOfSeq
<1>4. id \in Packages /\ id \in Libraries \cup files
  <2>1. id \in Packages
    BY <1>3 DEF Frame
  <2>2. \A i \in 1..Len(loading) : loading[i].id \in Libraries \cup files
    BY <1>1 DEF Frames
  <2>3. m \in 1..Len(loading)
    BY <1>3
  <2> QED
    BY <2>1, <2>2, <2>3
<1>5. less \in Seq(Frame) /\ Len(less) = m - 1 /\ \A i \in 1..m - 1 : less[i] = loading[i]
  BY <1>0, <1>3, FrontIs
<1>6. ASSUME NEW s, Alike(s)' PROVE Alike(s)
  BY <1>2, <1>6 DEF Alike
<1>7. Known'
  BY <1>1, <1>2, <1>4 DEF Known
<1>8. /\ cache'[id] = result /\ \A p \in Packages : p # id => cache'[p] = cache[p]
  BY <1>1, <1>2, <1>4 DEF Known
<1>9. Frames(less)'
  <2>1. ASSUME NEW i \in 1..Len(less)
        PROVE  LET p == less[i].id
                   n == less[i].next
               IN /\ p \in Libraries \cup files
                  /\ n - 1 <= Len(source[p].imports)
                  /\ source[p].status \in {"source", "unparsable"}
                  /\ n > 1 => source[p].status = "source"
                  /\ i < Len(less) => n > 1 /\ source[p].imports[n - 1] = less[i + 1].id
    <3>1. i \in 1..m /\ i < m /\ less[i] = loading[i] /\ (i < m - 1 => less[i + 1] = loading[i + 1])
      BY <1>3, <1>5
    <3> QED
      BY <1>1, <1>5, <3>1 DEF Frames
  <2>2. ASSUME NEW i \in 1..Len(less), NEW j \in 1..Len(less), less[i].id = less[j].id
        PROVE  i = j
    <3>1. i \in 1..m /\ j \in 1..m /\ less[i] = loading[i] /\ less[j] = loading[j]
      BY <1>3, <1>5
    <3>2. \A k, l \in 1..Len(loading) : loading[k].id = loading[l].id => k = l
      BY <1>1 DEF Frames
    <3>3. loading[i].id = loading[j].id
      BY <2>2, <3>1
    <3> QED
      BY <3>1, <3>2, <3>3
  <2>3. source' = source /\ files' = files
    BY <1>2
  <2> QED
    BY <1>5, <2>1, <2>2, <2>3 DEF Frames
<1>10. Frames(loading)'
  BY <1>2, <1>9 DEF Frames
<1>11. LoadedOnce'
  <2>1. ASSUME NEW p \in Loading, p # id PROVE p \in Loading'
    <3>1. PICK i \in 1..m : loading[i].id = p
      BY <1>3, IdsAre DEF Loading
    <3>2. i \in 1..Len(less) /\ less[i].id = p
      BY <1>3, <1>5, <2>1, <3>1
    <3>3. \E k \in 1..Len(less) : less[k].id = p
      BY <3>2
    <3> QED
      BY <1>2, <1>5, <3>3, IdsAre DEF Loading
  <2>2. result # Undefined
    BY DEF ImportResolverAssumption
  <2> QED
    BY <1>1, <1>2, <1>8, <2>1, <2>2 DEF LoadedOnce
<1>12. loading' # <<>> => loading'[1].id = asked'
  <2> SUFFICES ASSUME less # <<>> PROVE less[1].id = asked
    BY <1>2
  <2>1. 1 \in 1..m - 1
    BY <1>3, <1>5, EmptySeq
  <2> QED
    BY <1>1, <1>5, <2>1
<1>13. ASSUME NEW s, Alike(s)' PROVE Way(s, loading)' /\ Remembers(s)' /\ Returned(s)'
  <2>1. Alike(s) /\ Way(s, loading) /\ Remembers(s) /\ result = Promised(s, id)
    BY <1>1, <1>6, <1>13
  <2>2. Remembers(s)'
    BY <1>8, <2>1 DEF Remembers
  <2>3. Way(s, less)'
    <3>1. \A i \in 1..Len(less) : i \in 1..m /\ less[i] = loading[i]
      BY <1>3, <1>5
    <3>2. \A i, j \in 1..Len(less) : i < j => less[j].id \in Reached(s, less[i].id)
      <4>1. \A i, j \in 1..Len(loading) :
              i < j => loading[j].id \in Reached(s, loading[i].id)
        BY <2>1 DEF Way
      <4> QED
        BY <3>1, <4>1
    <3>3. \A i \in 1..Len(less) : \A k \in 1..Len(source[less[i].id].imports) :
            k < less[i].next - 1 => Loadable(s, source[less[i].id].imports[k])
      <4>1. \A i \in 1..Len(loading) : \A k \in 1..Len(source[loading[i].id].imports) :
              k < loading[i].next - 1 => Loadable(s, source[loading[i].id].imports[k])
        BY <2>1 DEF Way
      <4> QED
        BY <3>1, <4>1
    <3>4. source' = source
      BY <1>2
    <3> QED
      BY <3>2, <3>3, <3>4 DEF Way
  <2>4. Way(s, loading)'
    BY <1>2, <2>3 DEF Way
  <2>5. Returned(s)'
    <3>1. CASE less = <<>>
      <4>1. m = 1
        BY <1>3, <1>5, <3>1
      <4>2. id = asked
        BY <1>1, <4>1
      <4> QED
        BY <1>2, <2>1, <3>1, <4>2 DEF Returned
    <3>2. CASE less # <<>>
      <4> DEFINE below == less[Len(less)]
      <4>1. m - 1 \in 1..m /\ m - 1 < m /\ below = loading[m - 1] /\ (m - 1) + 1 = m
        <5>1. m - 1 # 0
          BY <1>3, <1>5, <3>2, EmptySeq
        <5> QED
          BY <1>3, <1>5, <5>1
      <4>2. /\ below.next > 1 /\ source[below.id].imports[below.next - 1] = id
            /\ below.next - 1 <= Len(source[below.id].imports)
            /\ below.id \in Libraries \cup files
        BY <1>1, <4>1 DEF Frames
      <4>3. below \in Frame
        BY <1>3, <4>1, ElementOfSeq
      <4>4. below.id \in Packages /\ below.next \in Nat
        BY <4>3 DEF Frame
      <4>5. s \in Graphs /\ s[below.id] = source[below.id]
        BY <2>1, <4>2, SeenIs
      <4>6. id \in ImportsOf(s, below.id)
        <5>1. below.next - 1 \in 1..Len(s[below.id].imports)
          BY <4>2, <4>4, <4>5, ImportsAre
        <5> QED
          BY <4>2, <4>4, <4>5, <5>1, ImportsAre
      <4>7. result = "package" => Loadable(s, id)
        BY <2>1, PromisedIs
      <4>8. result = "error" => ~ Loadable(s, below.id)
        BY <2>1, <4>4, <4>5, <4>6, PromisedIs, LoadsNone
      <4>9. result # Undefined
        BY DEF ImportResolverAssumption
      <4> QED
        BY <1>2, <3>2, <4>2, <4>7, <4>8, <4>9 DEF Returned
    <3> QED
      BY <3>1, <3>2
  <2> QED
    BY <2>2, <2>4, <2>5
<1> QED
  BY <1>7, <1>10, <1>11, <1>12, <1>13 DEF ResolverInv

(* load() of the package on top: it fails, it is loaded, or it imports. *)
LEMMA LoadKeeps ==
  ASSUME ImportResolverAssumption, ResolverInv, Load
  PROVE  ResolverInv'
<1> DEFINE m == Len(loading)
           id == loading[m].id
           n == loading[m].next
           imports == source[id].imports
<1>1. /\ loading # <<>> /\ source' = source /\ asked' = asked /\ requests' = requests
      /\ IF Failed(id) THEN Loaded(id, "error")
         ELSE IF n > Len(imports) THEN Loaded(id, "package")
         ELSE Import(imports[n], [loading EXCEPT ![m].next = n + 1])
  BY DEF Load, Last
<1>2. /\ Known /\ Frames(loading) /\ LoadedOnce /\ loading[1].id = asked
      /\ \A s : Alike(s) => Way(s, loading) /\ Remembers(s) /\ Returned(s)
  BY <1>1 DEF ResolverInv
<1>3. loading \in Seq(Frame) /\ m \in Nat /\ m > 0 /\ m \in 1..m /\ loading[m] \in Frame
  <2>1. loading \in Seq(Frame) /\ m \in Nat /\ m > 0
    BY <1>1, <1>2, LenProperties, EmptySeq DEF Frames
  <2> QED
    BY <2>1, ElementOfSeq
<1>4. id \in Packages /\ n \in Nat /\ n > 0
  BY <1>3 DEF Frame
<1>5. /\ id \in Libraries \cup files /\ n - 1 <= Len(imports)
      /\ source[id].status \in {"source", "unparsable"}
      /\ n > 1 => source[id].status = "source"
  BY <1>2, <1>3 DEF Frames
<1>6. ASSUME NEW s, Alike(s) PROVE s \in Graphs /\ s[id] = source[id]
  BY <1>5, <1>6, SeenIs
<1>7. CASE Failed(id)
  <2>1. ASSUME NEW s, Alike(s) PROVE "error" = Promised(s, id)
    <3>1. CASE source[id].status = "unparsable"
      BY <1>6, <2>1, <3>1 DEF Promised, Loadable
    <3>2. CASE outcome = "error"
      <4>1. Returned(s)
        BY <1>2, <2>1
      <4> QED
        BY <1>1, <3>2, <4>1 DEF Returned, Promised
    <3> QED
      BY <1>7, <3>1, <3>2 DEF Failed
  <2> QED
    BY <1>1, <1>7, <2>1, LoadedKeeps
<1>8. CASE ~ Failed(id) /\ n > Len(imports)
  <2>1. ASSUME NEW s, Alike(s) PROVE "package" = Promised(s, id)
    <3>1. Way(s, loading) /\ Returned(s) /\ s \in Graphs /\ s[id] = source[id]
      BY <1>2, <1>6, <2>1
    <3>2. s[id].status = "source"
      BY <1>5, <1>8, <3>1 DEF Failed
    <3>3. ASSUME NEW k \in 1..Len(imports) PROVE Loadable(s, imports[k])
      <4>1. Len(imports) \in Nat /\ k \in Nat /\ k <= n - 1 /\ k >= 1
        BY <1>4, <1>8, <3>1, ImportsAre
      <4>2. CASE k < n - 1
        BY <1>3, <3>1, <4>2 DEF Way
      <4>3. CASE k = n - 1
        <5>1. outcome = "package"
          BY <1>1, <1>2, <1>4, <1>8, <3>1, <4>1, <4>3 DEF Returned, Known, Failed
        <5> QED
          BY <1>1, <3>1, <4>3, <5>1 DEF Returned
      <4> QED
        BY <1>4, <4>1, <4>2, <4>3
    <3>4. \A p \in ImportsOf(s, id) : Loadable(s, p)
      <4>1. \A p \in ImportsOf(s, id) : \E k \in 1..Len(s[id].imports) : p = s[id].imports[k]
        BY <1>4, <3>1, ImportsAre
      <4> QED
        BY <3>1, <3>3, <4>1
    <3>5. Loadable(s, id)
      BY <1>4, <3>1, <3>2, <3>4, LoadsAll
    <3> QED
      BY <3>5 DEF Promised
  <2> QED
    BY <1>1, <1>8, <2>1, LoadedKeeps
<1>9. CASE ~ Failed(id) /\ ~ (n > Len(imports))
  <2>1. PICK stack : stack = [loading EXCEPT ![m].next = n + 1]
    OBVIOUS
  <2>2. PICK q : q = imports[n]
    OBVIOUS
  <2>3. /\ stack \in Seq(Frame) /\ Len(stack) = m
        /\ \A i \in 1..m : stack[i].id = loading[i].id
        /\ \A i \in 1..m : stack[i].next = IF i = m THEN n + 1 ELSE loading[i].next
    <3>1. stack = [loading EXCEPT ![m] = [loading[m] EXCEPT !.next = n + 1]]
      BY <2>1
    <3>2. /\ [loading[m] EXCEPT !.next = n + 1] \in Frame
          /\ [loading[m] EXCEPT !.next = n + 1].id = id
          /\ [loading[m] EXCEPT !.next = n + 1].next = n + 1
      BY <1>3, <1>4 DEF Frame
    <3>3. PICK top : top = [loading[m] EXCEPT !.next = n + 1]
      OBVIOUS
    <3>4. stack = [loading EXCEPT ![m] = top] /\ top \in Frame /\ top.id = id /\ top.next = n + 1
      BY <3>1, <3>2, <3>3
    <3>5. stack \in Seq(Frame) /\ Len(stack) = m
      BY <1>3, <3>4, ExceptSeq
    <3>6. \A i \in 1..m : stack[i] = IF i = m THEN top ELSE loading[i]
      BY <1>3, <3>4, ExceptSeq
    <3>7. ASSUME NEW i \in 1..m
          PROVE  /\ stack[i].id = loading[i].id
                 /\ stack[i].next = IF i = m THEN n + 1 ELSE loading[i].next
      <4>1. CASE i = m
        BY <3>4, <3>6, <4>1
      <4>2. CASE i # m
        <5>1. stack[i] = loading[i]
          BY <3>6, <4>2
        <5> QED
          BY <4>2, <5>1
      <4> QED
        BY <4>1, <4>2
    <3> QED
      BY <3>5, <3>7
  <2>4. /\ Len(imports) \in Nat /\ n \in 1..Len(imports) /\ q \in Packages
        /\ source[id].status = "source"
    <3>1. source \in Graphs
      BY <1>2 DEF Known
    <3>2. Len(imports) \in Nat
      BY <1>4, <3>1, ImportsAre
    <3>3. n \in 1..Len(imports)
      BY <1>4, <1>9, <3>2
    <3>4. q \in Packages
      BY <1>4, <2>2, <3>1, <3>3, ImportsAre
    <3> QED
      BY <1>5, <1>9, <3>2, <3>3, <3>4 DEF Failed
  <2>5. Frames(stack)
    <3>1. ASSUME NEW i \in 1..Len(stack)
          PROVE  LET p == stack[i].id
                     k == stack[i].next
                 IN /\ p \in Libraries \cup files
                    /\ k - 1 <= Len(source[p].imports)
                    /\ source[p].status \in {"source", "unparsable"}
                    /\ k > 1 => source[p].status = "source"
                    /\ i < Len(stack) => k > 1 /\ source[p].imports[k - 1] = stack[i + 1].id
      <4>1. CASE i = m
        BY <1>4, <1>5, <2>3, <2>4, <4>1
      <4>2. CASE i # m
        <5>1. i \in 1..m /\ i < m /\ i + 1 \in 1..m
          BY <1>3, <2>3, <4>2
        <5>2. /\ stack[i].id = loading[i].id /\ stack[i].next = loading[i].next
              /\ stack[i + 1].id = loading[i + 1].id
          BY <2>3, <4>2, <5>1
        <5> QED
          BY <1>2, <5>1, <5>2 DEF Frames
      <4> QED
        BY <4>1, <4>2
    <3>2. \A i, j \in 1..Len(stack) : stack[i].id = stack[j].id => i = j
      BY <1>2, <2>3 DEF Frames
    <3> QED
      BY <2>3, <3>1, <3>2 DEF Frames
  <2>6. ASSUME NEW s, Alike(s) PROVE Way(s, stack)
    <3>1. Way(s, loading) /\ Returned(s)
      BY <1>2, <2>6
    <3>2. \A i, j \in 1..Len(stack) : i < j => stack[j].id \in Reached(s, stack[i].id)
      BY <2>3, <3>1 DEF Way
    <3>3. ASSUME NEW i \in 1..Len(stack), NEW k \in 1..Len(source[stack[i].id].imports),
                 k < stack[i].next - 1
          PROVE  Loadable(s, source[stack[i].id].imports[k])
      <4>1. CASE i # m
        <5>1. stack[i].id = loading[i].id /\ stack[i].next = loading[i].next /\ i \in 1..m
          BY <2>3, <4>1
        <5> QED
          BY <3>1, <3>3, <5>1 DEF Way
      <4>2. CASE i = m
        <5>1. /\ stack[i].id = id /\ stack[i].next = n + 1
              /\ k \in 1..Len(imports) /\ k < n /\ k \in Nat /\ k >= 1
          BY <1>3, <1>4, <2>3, <3>3, <4>2
        <5>2. CASE k < n - 1
          BY <1>3, <3>1, <5>1, <5>2 DEF Way
        <5>3. CASE k = n - 1
          <6>1. outcome = "package"
            BY <1>1, <1>2, <1>4, <1>9, <3>1, <5>1, <5>3 DEF Returned, Known, Failed
          <6> QED
            BY <1>1, <3>1, <5>1, <5>3, <6>1 DEF Returned
        <5> QED
          BY <1>4, <5>1, <5>2, <5>3
      <4> QED
        BY <4>1, <4>2
    <3> QED
      BY <3>2, <3>3 DEF Way
  <2>7. stack # <<>> /\ stack[1].id = asked /\ Imported(stack, q)
    <3>1. stack # <<>>
      BY <1>3, <2>3
    <3>2. stack[1].id = asked
      BY <1>2, <1>3, <2>3
    <3>3. stack[Len(stack)].id = id /\ stack[Len(stack)].next = n + 1
      BY <1>3, <2>3
    <3>4. /\ stack[Len(stack)].next > 1 /\ stack[Len(stack)].next - 1 = n
          /\ source[stack[Len(stack)].id] = source[id]
      BY <1>4, <3>3
    <3>5. Imported(stack, q)
      BY <2>2, <2>4, <3>4, Zenon DEF Imported
    <3> QED
      BY <3>1, <3>2, <3>5, Zenon
  <2>8. \A p : p \in Loading <=> \E i \in 1..Len(stack) : stack[i].id = p
    <3>1. \A p : p \in Loading <=> \E i \in 1..Len(loading) : loading[i].id = p
      BY <1>3, IdsAre DEF Loading
    <3>2. Len(stack) = Len(loading) /\ \A i \in 1..Len(loading) : stack[i].id = loading[i].id
      BY <2>3
    <3> QED
      BY <3>1, <3>2
  <2>9. Import(q, stack)
    BY <1>1, <1>9, <2>1, <2>2
  <2>10. requests' \in 0..MaxRequests /\ asked' = IF stack = <<>> THEN q ELSE asked
    BY <1>1, <1>2, <2>7 DEF Known
  <2> QED
    BY <1>1, <2>4, <2>5, <2>6, <2>7, <2>8, <2>9, <2>10, ImportKeeps
<1> QED
  BY <1>7, <1>8, <1>9

(* What a package may be: a package of the graph, with bounded imports. *)
LEMMA SourcesAre ==
  ASSUME ImportResolverAssumption, NEW id \in Packages, NEW t \in Sources(id)
  PROVE  /\ t \in [status : {"source", "missing", "unparsable", "unknown"}, imports : Seq(Packages)]
         /\ Len(t.imports) \in Nat /\ Len(t.imports) <= MaxImports
<1>1. CASE \E imports \in BoundedSeq(Packages, MaxImports) : t = Source(imports)
  <2>1. PICK imports \in BoundedSeq(Packages, MaxImports) : t = Source(imports)
    BY <1>1
  <2>2. PICK n \in 0..MaxImports : imports \in [1..n -> Packages]
    BY <2>1 DEF BoundedSeq, SeqOf
  <2>3. imports \in Seq(Packages) /\ Len(imports) = n
    BY <2>2, SeqDef, LenProperties DEF ImportResolverAssumption
  <2> QED
    BY <2>1, <2>2, <2>3 DEF Source, ImportResolverAssumption
<1>2. CASE \E status \in {"missing", "unparsable", "unknown"} : t = Broken(status)
  BY <1>2, EmptySeq DEF Broken, ImportResolverAssumption
<1> QED
  BY <1>1, <1>2 DEF Sources

LEMMA ResolverInitially ==
  ASSUME ImportResolverAssumption, ResolverInit
  PROVE  ResolverInv
<1>1. /\ \A id \in Packages : source[id] \in Sources(id)
      /\ cache = [id \in Packages |-> Undefined] /\ loading = <<>> /\ outcome = Undefined
      /\ files = {} /\ asked = Undefined /\ requests = 0 /\ loads = [id \in Packages |-> 0]
      /\ source \in [Packages -> UNION {Sources(id) : id \in Packages}]
  BY DEF ResolverInit
<1>2. source \in Graphs
  BY <1>1, SourcesAre DEF Graphs
<1>3. Known
  BY <1>1, <1>2 DEF Known, ImportResolverAssumption
<1>4. Len(loading) = 0 /\ 1..0 = {} /\ loading \in Seq(Frame)
  BY <1>1
<1>5. Frames(loading) /\ LoadedOnce /\ loading = <<>>
  BY <1>1, <1>4 DEF Frames, LoadedOnce
<1>6. ASSUME NEW s, Alike(s) PROVE Way(s, loading) /\ Remembers(s) /\ Returned(s)
  BY <1>1, <1>4 DEF Way, Remembers, Returned
<1> QED
  BY <1>3, <1>5, <1>6 DEF ResolverInv

(* Another content of a file that was not asked for is a graph alike. *)
LEMMA ChangedAlike ==
  ASSUME ImportResolverAssumption, Known, NEW f \in Files \ files, NEW t \in Sources(f)
  PROVE  Alike([source EXCEPT ![f] = t])
<1>1. f \in Packages /\ f \notin Libraries \cup files
  BY DEF Packages, ImportResolverAssumption
<1>2. t \in [status : {"source", "missing", "unparsable", "unknown"}, imports : Seq(Packages)]
  BY <1>1, SourcesAre
<1>3. source \in Graphs
  BY DEF Known
<1>4. [source EXCEPT ![f] = t] \in Graphs
  BY <1>1, <1>2, <1>3 DEF Graphs
<1>5. \A p \in Libraries \cup files : [source EXCEPT ![f] = t][p] = source[p]
  BY <1>1, <1>3 DEF Graphs, Known, Packages
<1> QED
  BY <1>4, <1>5 DEF Alike

LEMMA ResolverRight ==
  ASSUME ImportResolverAssumption, ResolverInv
  PROVE  OutcomesRight
<1>1. /\ Known /\ Frames(loading) /\ LoadedOnce
      /\ \A s : Alike(s) => Remembers(s) /\ Returned(s)
  BY DEF ResolverInv
<1>2. Alike(source)
  BY <1>1 DEF Alike, Known
<1>3. ASSUME NEW i \in DOMAIN loading
      PROVE  loading[i].id \in Packages /\ loading[i].next \in 1..MaxImports + 1
  <2>1. i \in 1..Len(loading) /\ loading[i] \in Frame
    BY <1>1, LenProperties, ElementOfSeq DEF Frames
  <2>2. loading[i].id \in Packages /\ loading[i].next \in Nat /\ loading[i].next >= 1
    BY <2>1 DEF Frame
  <2>3. loading[i].next - 1 <= Len(source[loading[i].id].imports)
    BY <1>1, <2>1 DEF Frames
  <2>4. /\ Len(source[loading[i].id].imports) \in Nat
        /\ Len(source[loading[i].id].imports) <= MaxImports
    BY <1>1, <2>2, SourcesAre DEF Known
  <2> QED
    BY <2>2, <2>3, <2>4 DEF ImportResolverAssumption
<1>4. IsInjective([i \in DOMAIN loading |-> loading[i].id])
  <2>1. DOMAIN loading = 1..Len(loading)
    BY <1>1, LenProperties DEF Frames
  <2> QED
    BY <1>1, <2>1 DEF Frames, IsInjective
<1>5. ResolverTypeOK
  BY <1>1, <1>3, <1>4 DEF ResolverTypeOK, Known
<1>6. \A id \in Packages : loads[id] <= 1
  BY <1>1 DEF LoadedOnce
<1>7. ASSUME loading = <<>>, asked # Undefined, NEW s, Alike(s) PROVE outcome = Promised(s, asked)
  BY <1>1, <1>7 DEF Returned
<1>8. FilesSuffice
  BY <1>1, <1>7, ChangedAlike DEF FilesSuffice
<1>9. \A id \in Packages \ Loading : cache[id] # Undefined => cache[id] = Promised(source, id)
  BY <1>1, <1>2 DEF Remembers
<1> QED
  BY <1>2, <1>5, <1>6, <1>7, <1>8, <1>9 DEF OutcomesRight

(***************************************************************************)
(* OutcomesRight: what import() returns and remembers (Resolver, loader.ts) *)
(* is what the import graph says, for any packages, any imports between    *)
(* them and any order of requests; and for every other content of the      *)
(* files that were not asked for it would be the same.                     *)
(***************************************************************************)
THEOREM ImportsResolved ==
  ASSUME ImportResolverAssumption
  PROVE  ResolverSpec => []OutcomesRight
<1>1. ResolverInit => ResolverInv
  BY ResolverInitially
<1>2. ResolverInv /\ [ResolverNext]_resolverVars => ResolverInv'
  <2> SUFFICES ASSUME ResolverInv, [ResolverNext]_resolverVars PROVE ResolverInv'
    OBVIOUS
  <2>1. CASE \E id \in Packages : Request(id)
    BY <2>1, RequestKeeps
  <2>2. CASE Load
    BY <2>2, LoadKeeps
  <2>3. CASE UNCHANGED resolverVars
    BY <2>3 DEF resolverVars, ResolverInv, Known, Frames, LoadedOnce, Loading, Alike, Way,
       Remembers, Returned
  <2> QED
    BY <2>1, <2>2, <2>3 DEF ResolverNext
<1>3. ResolverInv => OutcomesRight
  BY ResolverRight
<1> QED
  BY <1>1, <1>2, <1>3, PTL DEF ResolverSpec
=============================================================================
