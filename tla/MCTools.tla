------------------------------ MODULE MCTools ------------------------------
(***************************************************************************)
(* The tools around the compiler, checked in one run: a language server    *)
(* session and the resolution of imports.  An analysis resolves imports in *)
(* one step of the server, so a behaviour follows one of the two, and the  *)
(* other, which nothing obliges to begin, stays as it begins.              *)
(***************************************************************************)
EXTENDS LanguageServer, ImportResolver

VARIABLE part

-----------------------------------------------------------------------------
(* LanguageServer: a text without imports, one with, one the compiler      *)
(* throws on.                                                              *)

CONSTANTS plain, importing, defect, lib

MCImports == [t \in Texts |-> IF t = importing THEN {lib} ELSE {}]

-----------------------------------------------------------------------------
(* ImportResolver                                                          *)

ASSUME ImportResolverAssumption

-----------------------------------------------------------------------------

MCInit ==
  /\ part \in {"session", "imports"}
  /\ Init
  /\ ResolverInit /\ (part # "imports" => \A id \in Packages : source[id] = Source(<<>>))

MCNext ==
  /\ UNCHANGED part
  /\ \/ part = "session" /\ Next /\ UNCHANGED resolverVars
     \/ part = "imports" /\ ResolverNext /\ UNCHANGED vars

MCSpec == MCInit /\ [][MCNext]_<<part, vars, resolverVars>> /\ Fairness
=============================================================================
