--------------------------- MODULE ModuleBinding ---------------------------
(***************************************************************************)
(* Module.bind() (runtime/module-binding.ts, params.ts) and the binding    *)
(* calculation a program carries (lowerBind, codegen/codegen.ts).          *)
(*                                                                         *)
(* A Module is a tree of objects: each has the values of its parameters    *)
(* and fixed builtins, and the late facts calculated from them: history    *)
(* depths, whether an input is active, and where a request goes.  bind()   *)
(* copies the tree and writes the copy, one object after another; it may   *)
(* be called on any Module there is, in any order, and may fail part-way.  *)
(*                                                                         *)
(* An expression is what it reads.  The first depth of what it reads is    *)
(* the depth, an input is active when it is more than one, and a request   *)
(* that reads a zero has no symbol.                                        *)
(***************************************************************************)
EXTENDS Integers, Sequences, FiniteSets
LOCAL INSTANCE SequencesExt

CONSTANTS Root,        (* the program                                         *)
          Declared,    (* of each module: params, builtins, facts, requests, series *)
          Calls,       (* what bind() is asked: path, values and context      *)
          Colors,      (* the spellings of a color, with its canonical one    *)
          MaxBinds, Unset

VARIABLES objects,     (* every object, by its identity                       *)
          modules,     (* the roots bind() has returned, the first Root's     *)
          asked,       (* of each of them, the binds it comes from            *)
          failure      (* the error of the last bind, or ""                   *)

bindingVars == <<objects, modules, asked, failure>>

Pending == <<"pending">>
Undefined == <<"undefined">>
Missing == <<"na">>
Number(n) == <<"number", n>>
Text(t) == <<"text", t>>
ParamNames(d) == {d.params[i].name : i \in DOMAIN d.params}
Slots(d) == {d.facts[i].slot : i \in DOMAIN d.facts}

-----------------------------------------------------------------------------
(* resolveParamValues: what a parameter makes of a candidate, or Undefined  *)
(* when it throws.                                                          *)
Resolved(p, x) ==
  LET kind == IF p.type \in {"int", "float"} THEN "number" ELSE IF p.type = "bool" THEN "bool" ELSE "text"
      v == IF p.type = "color" /\ x[1] = "text"
           THEN IF x[2] \in DOMAIN Colors THEN Text(Colors[x[2]]) ELSE Undefined
           ELSE x
      allowed == CASE p.constraint[1] = "none" -> TRUE
                   [] p.constraint[1] = "range" -> v[2] \in p.constraint[2]..p.constraint[3]
                   [] p.constraint[1] = "options" -> v[2] \in p.constraint[2]
  IN IF v[1] # kind THEN Undefined ELSE IF allowed THEN v ELSE Undefined

(* What bind() gives a parameter: what is supplied, what it has, its        *)
(* default; nothing when that is na.                                        *)
Candidate(p, values, has) ==
  IF p.name \in DOMAIN values THEN values[p.name] ELSE IF has # Unset THEN has ELSE p.default
LeftOpen(p, values, has) == p.name \notin DOMAIN values /\ has = Unset /\ p.default = Missing

-----------------------------------------------------------------------------
(* The generated calculation: every late fact is reset, nothing is done     *)
(* while a parameter has no value, and then one fact after another is       *)
(* calculated until one reads a builtin that has none.                      *)
ReadOf(o, source) == IF source[1] = "param" THEN o.values[source[2]] ELSE o.builtins[source[2]]
Visible(o, fact) == \A i \in DOMAIN fact.reads : ReadOf(o, fact.reads[i]) # Unset
HistoryDepth(x) == IF x[1] = "number" /\ x[2] >= 0 THEN x[2] ELSE 0
Evaluated(o, fact) ==
  LET read == [i \in DOMAIN fact.reads |-> ReadOf(o, fact.reads[i])] IN
  CASE fact.kind = "depth" -> Number(HistoryDepth(read[1]))
    [] fact.kind = "active" -> <<"bool", read[1][2] > 1>>
    [] fact.kind = "context" -> IF Number(0) \in {read[i] : i \in DOMAIN read} THEN Missing ELSE <<"context", read>>

Reset(o) == [o EXCEPT !.facts = [s \in DOMAIN o.facts |-> Pending]]
Calculate(o) ==
  LET d == Declared[o.of]
      blocked == {i \in DOMAIN d.facts : ~Visible(o, d.facts[i])}
      done == {i \in DOMAIN d.facts : \A b \in blocked : i < b}
      fresh == Reset(o)
  IN IF \E n \in DOMAIN o.values : o.values[n] = Unset THEN fresh
     ELSE [fresh EXCEPT !.facts = [s \in DOMAIN @ |->
            IF \E i \in done : d.facts[i].slot = s
            THEN Evaluated(o, d.facts[CHOOSE i \in done : d.facts[i].slot = s]) ELSE @[s]]]

(* The columns it reads: the names of its series, those bound by a source.  *)
SeriesNames(o) ==
  LET d == Declared[o.of] IN
  {d.series[i][2] : i \in {j \in DOMAIN d.series : d.series[j][1] = "id"}}
    \cup {o.values[d.series[i][2]][2] : i \in {j \in DOMAIN d.series :
            d.series[j][1] = "param" /\ o.values[d.series[j][2]] # Unset}}

-----------------------------------------------------------------------------
(* A Module as it is loaded, and a copy of one: objs with the copy at the   *)
(* end, children before their parent.                                       *)
New(of) ==
  [of |-> of, values |-> [n \in ParamNames(Declared[of]) |-> Unset],
   builtins |-> [b \in Declared[of].builtins |-> Unset],
   facts |-> [s \in Slots(Declared[of]) |-> Pending],
   schema |-> {Declared[of].series[i][2] : i \in {j \in DOMAIN Declared[of].series : Declared[of].series[j][1] = "id"}},
   children |-> <<>>]

RECURSIVE Load(_, _)
Load(objs, of) ==
  LET each(r, request) == LET more == Load(r[1], request.of) IN <<more, Append(r[2], Len(more))>>
      made == FoldLeft(each, <<objs, <<>>>>, Declared[of].requests)
  IN Append(made[1], [New(of) EXCEPT !.children = made[2]])

(* Mutant: the copy of a module has the children of the original.           *)
CloneShallow(objs, id) == Append(objs, objs[id])
RECURSIVE Clone(_, _)
Clone(objs, id) ==
  LET each(r, child) == LET more == Clone(r[1], child) IN <<more, Append(r[2], Len(more))>>
      made == FoldLeft(each, <<objs, <<>>>>, objs[id].children)
  IN Append(made[1], [objs[id] EXCEPT !.children = made[2]])

(* The object a path of request names selects, or 0.                        *)
RECURSIVE Selected(_, _, _)
Selected(objs, id, path) ==
  IF path = <<>> THEN id
  ELSE LET requests == Declared[objs[id].of].requests
           matches == {i \in DOMAIN requests : requests[i].name = Head(path)}
       IN IF Cardinality(matches) # 1 THEN 0
          ELSE Selected(objs, objs[id].children[CHOOSE i \in matches : TRUE], Tail(path))

(* visit(): an object is written last, when all that could fail has been    *)
(* done; its children have been written by then.                            *)
RECURSIVE Visit(_, _, _, _)
Visit(objs, id, values, context) ==
  LET o == objs[id]
      d == Declared[o.of]
      open == {i \in DOMAIN d.params : LeftOpen(d.params[i], values, o.values[d.params[i].name])}
      value(i) == Resolved(d.params[i], Candidate(d.params[i], values, o.values[d.params[i].name]))
      bound == [o EXCEPT
        !.values = [n \in DOMAIN @ |->
          LET i == CHOOSE i \in DOMAIN d.params : d.params[i].name = n IN IF i \in open THEN Unset ELSE value(i)],
        !.builtins = [b \in DOMAIN @ |-> IF b \in DOMAIN context THEN context[b] ELSE @[b]]]
      each(r, child) == IF r.error # "" THEN r ELSE Visit(r.objects, child, [n \in {} |-> 0], [b \in {} |-> 0])
  IN IF DOMAIN values \subseteq DOMAIN o.values
     THEN IF \A i \in DOMAIN d.params \ open : value(i) # Undefined
          THEN IF DOMAIN context \subseteq DOMAIN o.builtins
               THEN LET r == FoldLeft(each, [objects |-> objs, error |-> ""], o.children)
                        ready == Calculate(bound)
                    IN IF r.error # "" THEN r
                       ELSE IF Missing \in {ready.facts[s] : s \in DOMAIN ready.facts}
                       THEN [r EXCEPT !.error = "invalid concrete context"]
                       ELSE [r EXCEPT !.objects[id] = [ready EXCEPT !.schema = SeriesNames(ready)]]
               ELSE [objects |-> objs, error |-> "not a fixed binding input"]
          ELSE [objects |-> objs, error |-> "invalid value"]
     ELSE [objects |-> objs, error |-> "unknown parameter"]

(* bind(values, context, path) of the module m: the copy is made and        *)
(* written, and nobody is given it when something fails.                    *)
Bind(m, c) ==
  LET copied == Clone(objects, modules[m])
      target == Selected(copied, Len(copied), c.path)
      r == IF target = 0 THEN [objects |-> copied, error |-> "path"]
           ELSE Visit(copied, target, c.values, c.context)
  IN /\ failure' = r.error
     /\ IF r.error = ""
        THEN /\ objects' = r.objects
             /\ modules' = Append(modules, Len(copied))
             /\ asked' = Append(asked, Append(asked[m], c))
        ELSE /\ objects' = SubSeq(r.objects, 1, Len(objects))
             /\ UNCHANGED <<modules, asked>>

Remaining(o) == {n \in DOMAIN o.values : o.values[n] = Unset}
Concrete(o) == \A s \in DOMAIN o.facts : o.facts[s] # Pending
Ready(o) == Remaining(o) = {} /\ Concrete(o)

Init ==
  /\ objects = Load(<<>>, Root) /\ modules = <<Len(Load(<<>>, Root))>>
  /\ asked = <<<<>>>> /\ failure = ""

Next == \E m \in DOMAIN modules, c \in Calls : Len(modules) <= MaxBinds /\ Bind(m, c)

Spec == Init /\ [][Next]_bindingVars

-----------------------------------------------------------------------------
(* What an object at a path should be, of the binds it comes from alone:    *)
(* the last value given for it, else a default once it was visited, and     *)
(* facts that say what those values say.                                    *)
Reaches(c, path) == Len(c.path) <= Len(path) /\ SubSeq(path, 1, Len(c.path)) = c.path
LastGiven(calls, given(_), otherwise) ==
  LET I == {i \in DOMAIN calls : given(calls[i]) # Unset}
  IN IF I = {} THEN otherwise ELSE given(calls[CHOOSE i \in I : \A j \in I : j <= i])

ValueAsked(path, p, calls) ==
  LET given(c) == IF c.path = path /\ p.name \in DOMAIN c.values THEN Resolved(p, c.values[p.name]) ELSE Unset
      default == IF (\E i \in DOMAIN calls : Reaches(calls[i], path)) /\ p.default # Missing
                 THEN Resolved(p, p.default) ELSE Unset
  IN LastGiven(calls, given, default)
BuiltinAsked(path, b, calls) ==
  LET given(c) == IF c.path = path /\ b \in DOMAIN c.context THEN c.context[b] ELSE Unset
  IN LastGiven(calls, given, Unset)

(* A module says of itself what its last values say and nothing older, in   *)
(* whatever order and from whichever module it was bound; it is ready only  *)
(* when every fact is known; and no bind, one that fails part-way included, *)
(* changes a module there was (Module.bind).                                *)
RECURSIVE AsAsked(_, _, _)
AsAsked(id, path, calls) ==
  LET o == objects[id]
      d == Declared[o.of]
      known(fact) == \A i \in DOMAIN fact.reads : ReadOf(o, fact.reads[i]) # Unset
  IN /\ \A i \in DOMAIN d.params : o.values[d.params[i].name] = ValueAsked(path, d.params[i], calls)
     /\ \A b \in d.builtins : o.builtins[b] = BuiltinAsked(path, b, calls)
     /\ \A i \in DOMAIN d.facts :
          LET fact == d.facts[i] IN
          o.facts[fact.slot] =
            IF /\ Remaining(o) = {} /\ \A j \in 1..i : known(d.facts[j])
               /\ \E j \in DOMAIN calls : Reaches(calls[j], path)
            THEN Evaluated(o, fact) ELSE Pending
     /\ Ready(o) => \A i \in DOMAIN d.facts : known(d.facts[i])
     /\ \A i \in DOMAIN d.requests : AsAsked(o.children[i], Append(path, d.requests[i].name), calls)

BoundAsAsked == \A m \in DOMAIN modules : AsAsked(modules[m], <<>>, asked[m])
=============================================================================
