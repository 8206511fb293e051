--------------------------- MODULE ImportResolver ---------------------------
(***************************************************************************)
(* Import resolution (loader/loader.ts, class Resolver): import() loads a  *)
(* source package and, first, every package it imports.  Outcomes are      *)
(* cached by canonical id; a cycle is an error of the package that closes  *)
(* it.  The entry file's imports are asked for one after the other, in any *)
(* order and any number of times; the checker asks again.                  *)
(*                                                                         *)
(* A package is source that imports a sequence of packages, or there is a  *)
(* reason it cannot be loaded.  Paths are canonical.                       *)
(***************************************************************************)
EXTENDS Naturals, SequencesExt

CONSTANTS
  Files,        (* canonical paths of relative imports                     *)
  Libraries,    (* registry paths                                          *)
  Undefined,
  MaxImports,   (* bound: imports of one package                           *)
  MaxRequests   (* bound: imports the entry file and the checker ask for   *)

ImportResolverAssumption ==
  /\ Files \cap Libraries = {}
  /\ Undefined \notin Files \cup Libraries /\ Undefined \notin {"package", "error"}
  /\ MaxImports \in Nat /\ MaxRequests \in Nat

Packages == Files \cup Libraries

Source(imports) == [status |-> "source", imports |-> imports]
Broken(status) == [status |-> status, imports |-> <<>>]

VARIABLES
  source,       (* what each package is; fixed                             *)
  cache,        (* outcomes: "package", "error", Undefined                 *)
  loading,      (* stack of [id, next]: next is the import it is at        *)
  outcome,      (* what the import() that returned last returned           *)
  files,        (* relative files asked for                                *)
  asked,        (* the package of the request under way, or Undefined      *)
  requests,     (* requests so far                                         *)
  loads         (* history: how often each package was loaded              *)

resolverVars == <<source, cache, loading, outcome, files, asked, requests, loads>>

Loading == {frame.id : frame \in ToSet(loading)}

-----------------------------------------------------------------------------

FilesAsked(id) == IF id \in Files THEN files \cup {id} ELSE files

ClosesCycle(id) == id \in Loading

Return(result) == outcome' = result

(* import() of an id that is not cached, called by the load() on top of    *)
(* `stack`: a cycle or nothing to load, a missing file (which is not       *)
(* remembered), or a package to load.                                      *)
Begin(id, stack) ==
  \/ /\ ClosesCycle(id) \/ source[id].status = "unknown"
     /\ cache' = [cache EXCEPT ![id] = "error"]
     /\ Return("error")
     /\ loading' = stack /\ UNCHANGED loads
  \/ /\ ~ClosesCycle(id) /\ source[id].status = "missing"
     /\ Return("error")
     /\ loading' = stack /\ UNCHANGED <<cache, loads>>
  \/ /\ ~ClosesCycle(id) /\ source[id].status \notin {"unknown", "missing"}
     /\ Return(Undefined)
     /\ loading' = Append(stack, [id |-> id, next |-> 1])
     /\ loads' = [loads EXCEPT ![id] = @ + 1]
     /\ UNCHANGED cache

(* import() *)
Import(id, stack) ==
  /\ files' = FilesAsked(id)
  /\ IF cache[id] # Undefined
     THEN Return(cache[id]) /\ loading' = stack /\ UNCHANGED <<cache, loads>>
     ELSE Begin(id, stack)

(* The entry file's next import, or the checker's. *)
Request(id) ==
  /\ loading = <<>> /\ requests < MaxRequests
  /\ asked' = id /\ requests' = requests + 1
  /\ Import(id, <<>>)
  /\ UNCHANGED source

(* Mutated form: an import that failed is passed over. *)
ErrorSkipped(id) == source[id].status = "unparsable"

(* A package that does not parse fails, and one whose import failed.       *)
Failed(id) == source[id].status = "unparsable" \/ outcome = "error"

Remember(id, result) == [cache EXCEPT ![id] = result]

Loaded(id, result) ==
  /\ loading' = Front(loading)
  /\ cache' = Remember(id, result)
  /\ Return(result)
  /\ UNCHANGED <<files, loads>>

(* load() of the package on top begins, or goes on after an import().      *)
Load ==
  /\ loading # <<>>
  /\ LET id == Last(loading).id
         n == Last(loading).next
     IN IF Failed(id) THEN Loaded(id, "error")
        ELSE IF n > Len(source[id].imports) THEN Loaded(id, "package")
        ELSE Import(source[id].imports[n], [loading EXCEPT ![Len(loading)].next = n + 1])
  /\ UNCHANGED <<source, asked, requests>>

Sources(id) ==
  {Source(imports) : imports \in BoundedSeq(Packages, MaxImports)} \cup
    {Broken(status) : status \in IF id \in Files THEN {"missing", "unparsable"} ELSE {"unknown"}}

ResolverInit ==
  /\ source \in {s \in [Packages -> UNION {Sources(id) : id \in Packages}] :
                   \A id \in Packages : s[id] \in Sources(id)}
  /\ cache = [id \in Packages |-> Undefined]
  /\ loading = <<>> /\ outcome = Undefined /\ files = {}
  /\ asked = Undefined /\ requests = 0
  /\ loads = [id \in Packages |-> 0]

ResolverNext == (\E id \in Packages : Request(id)) \/ Load

ResolverSpec == ResolverInit /\ [][ResolverNext]_resolverVars

-----------------------------------------------------------------------------
(***************************************************************************)
(* What import() promises, in terms of the import graph alone.             *)
(***************************************************************************)

ImportsOf(s, id) == ToSet(s[id].imports)

(* The packages on a path from id: the least set that holds what id imports *)
(* and what its members import.                                            *)
Reached(s, id) ==
  LET Closed(T) == ImportsOf(s, id) \subseteq T /\ \A p \in T : ImportsOf(s, p) \subseteq T
  IN {q \in Packages : \A T \in SUBSET Packages : Closed(T) => q \in T}

Loadable(s, id) ==
  \A q \in {id} \cup Reached(s, id) :
    s[q].status = "source" /\ q \notin Reached(s, q)

Promised(s, id) == IF Loadable(s, id) THEN "package" ELSE "error"

ResolverTypeOK ==
  /\ \A id \in Packages : source[id] \in Sources(id)
  /\ cache \in [Packages -> {Undefined, "package", "error"}]
  /\ \A i \in DOMAIN loading : loading[i].id \in Packages /\ loading[i].next \in 1..MaxImports + 1
  /\ outcome \in {Undefined, "package", "error"}
  /\ files \subseteq Files
  /\ asked \in Packages \cup {Undefined} /\ requests \in 0..MaxRequests
  /\ IsInjective([i \in DOMAIN loading |-> loading[i].id])

(* The files recorded are all an answer depends on: no change of another   *)
(* file could change it ("file dependencies, including failed import       *)
(* attempts").                                                             *)
FilesSuffice ==
  (loading = <<>> /\ asked # Undefined) =>
    \A f \in Files \ files : \A s \in Sources(f) :
      Promised([source EXCEPT ![f] = s], asked) = outcome

(* An import is a package exactly when everything it reaches can be loaded *)
(* and nothing it reaches imports itself, whatever was asked for before    *)
(* and wherever a cycle was entered; it is loaded at most once ("memoizes  *)
(* source packages"), and the files recorded suffice to tell.              *)
OutcomesRight ==
  /\ ResolverTypeOK /\ \A id \in Packages : loads[id] <= 1
  /\ (loading = <<>> /\ asked # Undefined) => outcome = Promised(source, asked)
  /\ \A id \in Packages \ Loading : cache[id] # Undefined => cache[id] = Promised(source, id)
  /\ FilesSuffice

=============================================================================
