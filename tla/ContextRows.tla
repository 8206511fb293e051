---------------------------- MODULE ContextRows ----------------------------
(***************************************************************************)
(* What Tea's storage kinds mean, told without write sets, carried values  *)
(* or retention: every accepted row of every binding is logged for ever.   *)
(* The history variables below follow only what main did in the attempts   *)
(* that returned; Context must agree with them on everything it can be     *)
(* asked.                                                                  *)
(***************************************************************************)
EXTENDS Context

VARIABLES
  alive,        (* frames main ever opened in an accepted attempt          *)
  log,          (* per binding, the value of every row since its frame     *)
                (* came alive, newest first                                *)
  inputLog,     (* per input, the value of every row, newest first         *)
  latest,       (* last value assigned that counts: of a var, in a final   *)
                (* attempt; of a varip, in any accepted attempt; or None   *)
  first,        (* value of the accepted initializer, or None              *)
  inits         (* initializers run by the current attempt                 *)

rowVars == <<alive, log, inputLog, latest, first, inits>>

(* A persistent binding starts an attempt from its latest value, and until *)
(* a row has assigned it, from its initializer.                            *)
Kept(l, lat, fst) == IF lat[l] # None THEN lat[l] ELSE IF fst[l] # None THEN fst[l] ELSE Empty

RowValue(l, lat, fst) ==
  IF Persistent(l) THEN Kept(l, lat, fst)
  ELSE IF writes[l] # None THEN writes[l].value ELSE Empty

Accept ==
  LET lat == [l \in Locals |->
        IF writes[l] # None /\ (Storage[l] = "varip" \/ (Storage[l] = "var" /\ ~provisional))
        THEN writes[l].value ELSE latest[l]]
      fst == [l \in Locals |-> IF inits[l] # None THEN inits[l] ELSE first[l]]
  IN
  /\ alive' = alive \cup called
  /\ latest' = lat
  /\ first' = fst
  /\ log' = IF provisional THEN log
            ELSE [l \in Locals |->
                    IF FrameOf[l] \in alive \cup called
                    THEN <<RowValue(l, lat, fst)>> \o log[l] ELSE log[l]]
  /\ inputLog' = IF provisional THEN inputLog
                 ELSE [i \in Inputs |-> <<input[i]>> \o inputLog[i]]
  /\ inits' = [l \in Locals |-> None]

RInit ==
  /\ ContextInit
  /\ alive = {Root}
  /\ log = [l \in Locals |-> <<>>]
  /\ inputLog = [i \in Inputs |-> <<>>]
  /\ latest = [l \in Locals |-> None]
  /\ first = [l \in Locals |-> None]
  /\ inits = [l \in Locals |-> None]

RNext ==
  \/ /\ Quiet
     /\ inits' = IF running' THEN inits ELSE [l \in Locals |-> None]
     /\ UNCHANGED <<alive, log, inputLog, latest, first>>
  \/ \E l \in Locals, v \in Operand :
       /\ Initialize(l, v)
       /\ inits' = [inits EXCEPT ![l] = v]
       /\ UNCHANGED <<alive, log, inputLog, latest, first>>
  \/ Return /\ Accept

RSpec == RInit /\ [][RNext]_<<contextVars, rowVars>>

-----------------------------------------------------------------------------

(* The n newest entries of a log. *)
Newest(entries, n) == SubSeq(entries, 1, IF n < Len(entries) THEN n ELSE Len(entries))

(* A call counts from the first accepted attempt that reached it, final or *)
(* not, and stays nested in calls that count.                              *)
FramesAgree ==
  /\ active \cup carriedActive = alive
  /\ \A f \in alive : Above[f] \subseteq alive

(* Whatever attempts were made, provisional, final or failed, a var starts *)
(* the next one from its last committed value, a varip from its last       *)
(* accepted one, and an initializer that was accepted once never runs      *)
(* again.                                                                  *)
StartAgrees ==
  ~running => \A l \in Locals : Persistent(l) =>
    /\ StartValue(l) = Kept(l, latest, first)
    /\ Initialized(l) <=> first[l] # None

(* Reading a binding n rows back, as far as its depth, yields what its row *)
(* held n final attempts ago, and the next attempt starts from what the    *)
(* accepted ones left; calls that were skipped advance too, and the calls  *)
(* that count are those the accepted attempts reached.                     *)
RowsAgree ==
  /\ ContextTypeOK /\ FramesAgree /\ StartAgrees
  /\ \A l \in Locals : history[l] = Newest(log[l], Keep(l))
  /\ \A i \in Inputs : inputHistory[i] = Newest(inputLog[i], InputDepth[i])

=============================================================================
