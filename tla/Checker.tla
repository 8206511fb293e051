------------------------------ MODULE Checker ------------------------------
(***************************************************************************)
(* The checker (checker/check.ts) for scripts of one file: names, types,   *)
(* qualifiers, constants, user functions checked once per signature, and   *)
(* the outputs a script may write.  Structs, enums, collections, requests  *)
(* and imported packages are left out.                                     *)
(*                                                                         *)
(* Trees are those of the parser; a literal carries its type and value.    *)
(* Checking takes the state of the checker and gives [c, n]: the state     *)
(* after it and the checked node, which carries its type, qualifier and    *)
(* value if that is known.  Parentheses are gone from the checked tree.    *)
(***************************************************************************)
EXTENDS Types, FiniteSets, SequencesExt, TLC

None == <<"none">>
Tv(type, q, v) == [ty |-> type, q |-> q, v |-> v]
VoidTv == Tv(VoidType, "const", NoValue)
InvalidTv == Tv(InvalidType, "const", NoValue)
NullTv == Tv(NoType, "const", NoValue)          (* a statement without a result *)

N(k, tv, x, kids) == [k |-> k, ty |-> tv.ty, q |-> tv.q, v |-> tv.v, x |-> x, kids |-> kids]
TvOf(n) == Tv(n.ty, n.q, n.v)
NoNode == N("none", VoidTv, None, <<>>)
Gathered(Of(_), seq) == FoldLeft(LAMBDA all, x : all \o Of(x), <<>>, seq)
Present(n) == n.k # "none"

(* Variables and functions of the prelude; "place" says what a variable is   *)
(* at run time, or that it is a constant.                                    *)
Builtins ==
  ("true" :> [tv |-> Tv(BoolType, "const", Bool(TRUE)), place |-> "none"])
  @@ ("false" :> [tv |-> Tv(BoolType, "const", Bool(FALSE)), place |-> "none"])
  @@ ("na" :> [tv |-> Tv(NaType, "const", NA), place |-> "none"])
  @@ ("close" :> [tv |-> Tv(FloatType, "series", NoValue), place |-> "series"])
  @@ ("bar_index" :> [tv |-> Tv(IntType, "series", NoValue), place |-> "builtin"])
  @@ ("timeframe.multiplier" :> [tv |-> Tv(IntType, "simple", NoValue), place |-> "builtin"])

(* The overloads of a function, in the order they are tried.  Parameters are *)
(* [accepts, required, literal]; the last may stand for all that follow.     *)
LOCAL Required(accepts) == [accepts |-> accepts, required |-> TRUE, literal |-> FALSE]
LOCAL Optional(accepts) == [Required(accepts) EXCEPT !.required = FALSE]
LOCAL Overload(params, rest, result, q) == [params |-> params, rest |-> rest, result |-> result, q |-> q]
Natives ==
  ("math.max" :> <<Overload(<<Required("int"), Required("int")>>, TRUE, IntType, "join"),
                   Overload(<<Required("num"), Required("num")>>, TRUE, FloatType, "join")>>)
  @@ ("na" :> <<Overload(<<Required("nullable")>>, FALSE, BoolType, "join")>>)
  @@ ("nz" :> <<Overload(<<Required("int"), Optional("int")>>, FALSE, IntType, "join"),
                Overload(<<Required("float"), Optional("float")>>, FALSE, FloatType, "join")>>)
  @@ ("int" :> <<Overload(<<Required("num")>>, FALSE, IntType, "join")>>)
  @@ ("float" :> <<Overload(<<Required("num")>>, FALSE, FloatType, "join")>>)
  @@ ("input.int" :> <<Overload(<<[accepts |-> "int", required |-> TRUE, literal |-> TRUE]>>, FALSE, IntType, "input")>>)
Accepts(accepts, type) ==
  CASE accepts = "int" -> Assignable(type, IntType)
    [] accepts \in {"float", "num"} -> Assignable(type, FloatType)
    [] accepts = "nullable" -> type = NaType \/ Nullable(type)

-----------------------------------------------------------------------------
(* Which names of a scope are assigned again (binding.ts): in the statements *)
(* that follow, nested blocks included, unless a nearer name hides them.     *)

Parts(t) ==
  CASE t[1] \in {"bin", "hist"} -> {t[Len(t) - 1], t[Len(t)]}
    [] t[1] = "un" -> {t[3]}
    [] t[1] \in {"paren", "expr", "return"} -> {t[2]}
    [] t[1] \in {"cond", "if"} -> {t[2], t[3], t[4]}
    [] t[1] = "tuple" -> Range(t[2])
    [] t[1] = "call" -> {t[4][i][3] : i \in DOMAIN t[4]}
    [] t[1] = "while" -> {t[2], t[3]}
    [] t[1] = "switch" -> {t[2]} \cup Range(t[3])
    [] t[1] = "arm" -> {t[2], t[3]}
    [] t[1] = "decl" -> {t[6]}
    [] t[1] = "emit" -> {t[4]}
    [] OTHER -> {}
DeclaredBy(t) ==
  CASE t[1] # "decl" -> {}
    [] t[5][1] = "name" -> {t[5][2]}
    [] OTHER -> {t[5][2][i][2] : i \in DOMAIN t[5][2]}

RECURSIVE Assigns(_, _), AssignedIn(_, _)
AssignedIn(name, stmts) ==
  \E i \in DOMAIN stmts :
    Assigns(name, stmts[i]) /\ \A j \in 1..i - 1 : name \notin DeclaredBy(stmts[j])
Assigns(name, t) ==
  CASE t[1] = "assign" -> t[3] = <<"name", name>> \/ Assigns(name, t[4])
    [] t[1] = "block" -> AssignedIn(name, t[2])
    [] t[1] = "for" ->
         \/ \E i \in 3..5 : Assigns(name, t[i])
         \/ t[2][2] # name /\ Assigns(name, t[6])
    [] OTHER -> \E part \in Parts(t) : Assigns(name, part)

-----------------------------------------------------------------------------
(* The state: objects, scopes from the package inward, the qualifier of the  *)
(* control flow, how deep in loops and blocks, the first scope of the        *)
(* function being checked, what it returned, and the instances so far.       *)

NotInFunction == 0
Start ==
  [objs |-> <<>>, scopes |-> <<<<>>>>, ok |-> TRUE, flow |-> "const", loops |-> 0, blocks |-> 0,
   boundary |-> NotInFunction, returns |-> <<>>, insts |-> <<>>, active |-> {}]

Out(c, n) == [c |-> c, n |-> n]
Require(c, condition) == [c EXCEPT !.ok = @ /\ condition]
Reject(c) == Out([c EXCEPT !.ok = FALSE], N("bad", InvalidTv, None, <<>>))

Found(c, name) == {s \in DOMAIN c.scopes : name \in DOMAIN c.scopes[s]}
Nearest(c, name) == CHOOSE s \in Found(c, name) : \A other \in Found(c, name) : other <= s
Lookup(c, name) == c.scopes[Nearest(c, name)][name]
Opened(c) == [c EXCEPT !.scopes = Append(@, <<>>)]
Closed(after, before) == [after EXCEPT !.scopes = before.scopes, !.flow = before.flow]

(* declare(): not over a name of the prelude, and once per scope.            *)
Declare(c, object) ==
  LET top == Len(c.scopes)
      free == object.name \notin DOMAIN Builtins \cup DOMAIN Natives \cup DOMAIN c.scopes[top]
  IN IF ~free THEN Require(c, FALSE)
     ELSE [c EXCEPT !.objs = Append(@, object), !.scopes[top] = (object.name :> Len(c.objs) + 1) @@ @]
Variable(name, mode, tv, assigned) ==
  [kind |-> "var", name |-> name, mode |-> mode, ty |-> tv.ty, q |-> tv.q, v |-> tv.v, assigned |-> assigned]
Function(decl) == [kind |-> "func", name |-> decl[3][2], decl |-> decl]
Newest(c) == Len(c.objs)

(* Any statement of a block that returns ends it; loops may not run.         *)
RECURSIVE AlwaysReturns(_)
AlwaysReturns(n) ==
  CASE n.k = "return" -> TRUE
    [] n.k = "block" -> \E i \in DOMAIN n.kids : n.kids[i].k \in {"return", "expr", "decl"} /\ AlwaysReturns(n.kids[i])
    [] n.k \in {"expr", "decl"} -> AlwaysReturns(n.kids[1])
    [] n.k \in {"if", "cond"} -> Present(n.kids[3]) /\ AlwaysReturns(n.kids[2]) /\ AlwaysReturns(n.kids[3])
    [] n.k = "switch" ->
         /\ \E i \in 2..Len(n.kids) : ~Present(n.kids[i].kids[1])
         /\ \A i \in 2..Len(n.kids) : AlwaysReturns(n.kids[i].kids[2])
    [] OTHER -> FALSE

(* Whether running a checked node can write an output.                       *)
RECURSIVE Emits(_, _)
Emits(c, n) ==
  \/ n.k = "emit"
  \/ \E i \in DOMAIN n.kids : Emits(c, n.kids[i])
  \/ n.k = "call" /\ Emits(c, c.insts[n.x.inst].body)
  \/ n.k = "call" /\ \E i \in DOMAIN c.insts[n.x.inst].defaults : Emits(c, c.insts[n.x.inst].defaults[i])

-----------------------------------------------------------------------------
(* Operators.                                                                *)

UnaryTv(op, x) ==
  CASE op = "not" /\ x.ty = BoolType -> Tv(BoolType, x.q, IF Known(x.v) THEN Bool(~x.v[2]) ELSE NoValue)
    [] op = "+" /\ IsNumericType(x.ty) -> x
    [] op = "-" /\ IsNumericType(x.ty) -> Tv(x.ty, x.q, IF IsNum(x.v) THEN Num(-x.v[2]) ELSE x.v)
    [] OTHER -> InvalidTv

BinaryTv(op, x, y) ==
  LET q == JoinQualifiers(x.q, y.q)
      Typed(type) == Tv(type, q, FoldBinary(op, x.v, y.v, type))
      numeric == IsNumericType(x.ty) /\ IsNumericType(y.ty)
  IN CASE op \in {"and", "or"} -> IF x.ty = BoolType /\ y.ty = BoolType THEN Typed(BoolType) ELSE InvalidTv
       [] op \notin Arithmetic \cup {"and", "or"} /\ NaType \in {x.ty, y.ty} -> InvalidTv
       [] op \in {"==", "!="} ->
            IF UnifyTypes(x.ty, y.ty) = NoType \/ x.ty[1] = "tuple" THEN InvalidTv ELSE Typed(BoolType)
       [] op \in Order -> IF numeric THEN Typed(BoolType) ELSE InvalidTv
       [] OTHER -> IF numeric THEN Typed(NumericResult(x.ty, y.ty)) ELSE InvalidTv

CondTv(cond, then, else) ==
  LET type == UnifyTypes(then.ty, else.ty)
      q == JoinQualifiers(cond.q, JoinQualifiers(then.q, else.q))
      taken == IF cond.v = Bool(TRUE) THEN then ELSE else
  IN IF cond.ty # BoolType \/ type = NoType THEN InvalidTv
     ELSE Tv(type, q, IF q = "const" /\ Known(cond.v) THEN taken.v ELSE NoValue)

JoinedQualifier(tvs) == FoldLeft(LAMBDA q, tv : JoinQualifiers(q, tv.q), "const", tvs)

(* Constants through a function of the prelude.                              *)
FoldNative(name, vs) ==
  LET largest == CHOOSE v \in Range(vs) : \A other \in Range(vs) : other[2] <= v[2]
  IN CASE name \notin {"math.max", "int", "float"} \/ NoValue \in Range(vs) -> NoValue
       [] NA \in Range(vs) -> NA
       [] name = "math.max" -> largest
       [] name = "int" -> Truncated(vs[1])
       [] name = "float" -> vs[1]

ParamAt(overload, i) == overload.params[IF i > Len(overload.params) THEN Len(overload.params) ELSE i]
Fits(overload, args) ==
  /\ overload.rest \/ Len(args) <= Len(overload.params)
  /\ \A i \in DOMAIN overload.params : overload.params[i].required => i <= Len(args)
  /\ \A i \in DOMAIN args :
       /\ Accepts(ParamAt(overload, i).accepts, args[i].ty)
       /\ ParamAt(overload, i).literal => args[i].q = "const" /\ IsNum(args[i].v)
(* What an argument is made to be: a bare na gets a type here.               *)
ArgType(overload, i, type) ==
  LET accepts == ParamAt(overload, i).accepts
  IN CASE accepts = "int" -> IntType
       [] accepts \in {"num", "nullable"} /\ type # NaType -> type
       [] OTHER -> FloatType

CallResult(name, overload, args) ==
  LET q == IF overload.q = "join" THEN JoinedQualifier(args) ELSE overload.q
  IN Tv(overload.result, q, IF q = "const" THEN FoldNative(name, [i \in DOMAIN args |-> args[i].v]) ELSE NoValue)

NativeCall(c, name, args) ==
  LET candidates == {i \in DOMAIN Natives[name] : Fits(Natives[name][i], args)}
      first == Natives[name][CHOOSE i \in candidates : \A j \in candidates : i <= j]
  IN IF candidates = {} THEN Reject(c)
     ELSE Out(c, N("native", CallResult(name, first, args),
                   [name |-> name, types |-> [i \in DOMAIN args |-> ArgType(first, i, args[i].ty)]], args))

-----------------------------------------------------------------------------
(* Expressions, statements and blocks.                                       *)

RECURSIVE Check(_, _), CheckStmt(_, _, _), CheckBlock(_, _), Instantiate(_, _, _, _)

(* One after the other, with [c, ns].                                        *)
CheckAll(c, ts) ==
  FoldLeft(LAMBDA r, t : LET one == Check(r.c, t) IN [c |-> one.c, ns |-> Append(r.ns, one.n)],
           [c |-> c, ns |-> <<>>], ts)
CheckOptional(c, t) == IF t = None THEN Out(c, NoNode) ELSE Check(c, t)
CheckBody(c, body) == IF body[1] = "block" THEN CheckBlock(c, body) ELSE Check(c, body)
(* Where only some types will do.                                            *)
CheckAs(c, t, types) ==
  LET r == Check(c, t) IN Out(Require(r.c, r.n.ty \in types), r.n)
Under(c, q) == [c EXCEPT !.flow = JoinQualifiers(@, q)]
Typed(c, k, tv, x, kids) == IF tv.ty = InvalidType THEN Reject(c) ELSE Out(c, N(k, tv, x, kids))

(* Statements of a block, each with those that follow it.                    *)
CheckStmts(c, stmts) ==
  FoldLeft(LAMBDA r, i : LET one == CheckStmt(r.c, stmts[i], SubSeq(stmts, i + 1, Len(stmts)))
                         IN [c |-> one.c, ns |-> Append(r.ns, one.n)],
           [c |-> c, ns |-> <<>>], [i \in DOMAIN stmts |-> i])

(* A block has the result of its last statement, and the qualifier of all.   *)
CheckBlock(c, block) ==
  LET inside == [Opened(c) EXCEPT !.blocks = @ + 1]
      all == CheckStmts(inside, block[2])
      last == IF all.ns = <<>> \/ Last(all.ns).ty = NoType THEN VoidTv ELSE TvOf(Last(all.ns))
      results == SelectSeq(all.ns, LAMBDA n : n.ty # NoType)
  IN Out([all.c EXCEPT !.scopes = c.scopes, !.blocks = c.blocks],
         N("block", [last EXCEPT !.q = JoinedQualifier(results)], None, all.ns))

ResolveName(c, name) ==
  IF Found(c, name) # {}
  THEN LET id == Lookup(c, name) object == c.objs[id] IN
       IF object.kind = "func" THEN Reject(c) ELSE Out(c, N("var", TvOf(object), id, <<>>))
  ELSE IF name \in DOMAIN Builtins THEN Out(c, N("builtin", Builtins[name].tv, name, <<>>)) ELSE Reject(c)

(* x[k], of a binding that is there at run time.                             *)
CheckHistory(c, t) ==
  LET x == Check(c, t[2])
      offset == Check(x.c, t[3])
      direct == \/ x.n.k = "var" /\ x.c.objs[x.n.x].mode # "const"
                \/ x.n.k = "builtin" /\ Builtins[x.n.x].place # "none"
  IN IF ~direct \/ ~Assignable(offset.n.ty, IntType) THEN Reject(offset.c)
     ELSE Out(offset.c, N("hist", Tv(x.n.ty, "series", NoValue), None, <<x.n, offset.n>>))

CheckTuple(c, t) ==
  LET elems == CheckAll(c, t[2]) IN
  IF \E i \in DOMAIN elems.ns : elems.ns[i].ty \in {VoidType, NaType} THEN Reject(elems.c)
  ELSE Out(elems.c, N("tuple", Tv(TupleType([i \in DOMAIN elems.ns |-> elems.ns[i].ty]), JoinedQualifier(elems.ns), NoValue),
                      None, elems.ns))

(* A branch that returns has no part in the type of its structure.           *)
CheckIf(c, t) ==
  LET cond == CheckAs(c, t[2], {BoolType})
      then == CheckBlock(Under(cond.c, cond.n.q), t[3])
      else == IF t[4] = None THEN Out(then.c, NoNode) ELSE CheckBody(then.c, t[4])
      elseReturns == Present(else.n) /\ AlwaysReturns(else.n)
      type == CASE AlwaysReturns(then.n) -> IF elseReturns THEN VoidType ELSE else.n.ty
                [] elseReturns \/ ~Present(else.n) -> then.n.ty
                [] OTHER -> UnifyOrVoid(then.n.ty, else.n.ty)
  IN Out(Closed(else.c, c), N("if", Tv(type, "series", NoValue), None, <<cond.n, then.n, else.n>>))

CheckLoopBody(c, block) ==
  LET r == CheckBlock([Under(c, "series") EXCEPT !.loops = @ + 1], block)
  IN Out([r.c EXCEPT !.loops = c.loops, !.flow = c.flow], r.n)

CheckFor(c, t) ==
  LET from == CheckAs(c, t[3], {IntType, FloatType, NaType})
      to == CheckAs(from.c, t[4], {IntType, FloatType, NaType})
      step == IF t[5] = None THEN Out(to.c, NoNode) ELSE CheckAs(to.c, t[5], {IntType, FloatType, NaType})
      type == IF FloatType \in {from.n.ty, to.n.ty, step.n.ty} THEN FloatType ELSE IntType
      index == Variable(t[2][2], "", Tv(type, "series", NoValue), Assigns(t[2][2], t[6]))
      inside == Declare(Opened(Require(step.c, step.n.v # Zero)), index)
      body == CheckLoopBody(inside, t[6])
  IN Out(Closed(body.c, c), N("for", Tv(body.n.ty, "series", NoValue), Newest(inside), <<from.n, to.n, step.n, body.n>>))

CheckWhile(c, t) ==
  LET cond == CheckAs(c, t[2], {BoolType})
      body == CheckLoopBody(cond.c, t[3])
  IN Out(body.c, N("while", Tv(body.n.ty, "series", NoValue), None, <<cond.n, body.n>>))

(* Without a subject the patterns are conditions, each on the way to the     *)
(* arms that follow.                                                         *)
CheckArm(c, subject, arm) ==
  LET pattern == CheckOptional(c, arm[2])
      legal == IF Present(subject) THEN UnifyTypes(subject.ty, pattern.n.ty) # NoType ELSE pattern.n.ty = BoolType
      reached == IF Present(subject) THEN pattern.c ELSE Under(pattern.c, pattern.n.q)
      body == CheckBody(IF Present(pattern.n) THEN Require(reached, legal) ELSE pattern.c, arm[3])
  IN Out(body.c, N("arm", TvOf(body.n), None, <<pattern.n, body.n>>))
CheckSwitch(c, t) ==
  LET subject == CheckOptional(c, t[2])
      default == {i \in DOMAIN t[3] : t[3][i][2] = None}
      arms == FoldLeft(LAMBDA r, arm : LET one == CheckArm(r.c, subject.n, arm) IN [c |-> one.c, ns |-> Append(r.ns, one.n)],
                       [c |-> Require(Under(subject.c, subject.n.q), default \subseteq {Len(t[3])}), ns |-> <<>>], t[3])
      valued == SelectSeq(arms.ns, LAMBDA arm : ~AlwaysReturns(arm.kids[2]))
      type == IF valued = <<>> THEN VoidType
              ELSE FoldLeft(LAMBDA ty, arm : UnifyOrVoid(ty, arm.ty), valued[1].ty, Tail(valued))
  IN Out(Closed(arms.c, c), N("switch", Tv(type, "series", NoValue), None, <<subject.n>> \o arms.ns))

-----------------------------------------------------------------------------
(* Calls of user functions.                                                  *)

(* The parameter each argument goes to, in the order they are written; or    *)
(* <<>> where they do not fit.                                               *)
ParamNames(decl) == [i \in DOMAIN decl[4] |-> decl[4][i][4]]
Aligned(decl, args) ==
  LET names == ParamNames(decl)
      param == [i \in DOMAIN args |->
                 IF args[i][2] = "" THEN i
                 ELSE IF args[i][2] \in Range(names) THEN CHOOSE p \in DOMAIN names : names[p] = args[i][2] ELSE 0]
      taken == Range(param)
  IN IF /\ taken \subseteq DOMAIN names /\ Cardinality(taken) = Len(args)
        /\ \A p \in DOMAIN names \ taken : decl[4][p][5] # None
        /\ \A i, j \in DOMAIN args : i < j /\ args[j][2] = "" => args[i][2] = ""
     THEN [legal |-> TRUE, order |-> param] ELSE [legal |-> FALSE, order |-> <<>>]

Signature(args) ==
  [i \in DOMAIN args |->
    IF ~Present(args[i]) THEN NullTv
    ELSE [TvOf(args[i]) EXCEPT !.v = IF args[i].q = "const" THEN @ ELSE NoValue]]
(* Mutated form: functions are told apart by the types of what they get.     *)
ReusableByType(c, decl, signature) ==
  {i \in DOMAIN c.insts :
    /\ c.insts[i].decl = decl
    /\ \A j \in DOMAIN signature : c.insts[i].sig[j].ty = signature[j].ty}

Reusable(c, decl, signature) == {i \in DOMAIN c.insts : c.insts[i].decl = decl /\ c.insts[i].sig = signature}

CheckUserCall(c, decl, written, ns) ==
  LET aligned == Aligned(decl, written)
      args == [p \in DOMAIN decl[4] |->
                IF p \in Range(aligned.order) THEN ns[CHOOSE i \in DOMAIN ns : aligned.order[i] = p] ELSE NoNode]
      omitted == SelectSeq([p \in DOMAIN args |-> p], LAMBDA p : ~Present(args[p]))
      same == Reusable(c, decl, Signature(args))
      made == IF same # {} THEN c ELSE Instantiate(c, decl, Signature(args), args)
      inst == IF same # {} THEN CHOOSE i \in same : TRUE ELSE Len(made.insts)
  IN IF ~aligned.legal \/ decl[3][2] \in c.active THEN Reject(c)
     ELSE IF ~made.ok THEN Reject(made)
     ELSE Out(made, N("call", Tv(made.insts[inst].ty, made.insts[inst].q, NoValue),
                      [inst |-> inst, order |-> aligned.order \o omitted], args))

CheckCall(c, t) ==
  LET args == CheckAll(c, [i \in DOMAIN t[4] |-> t[4][i][3]])
      name == t[2][2]
  IN CASE ~args.c.ok -> Reject(args.c)
       [] Found(args.c, name) # {} ->
            IF args.c.objs[Lookup(args.c, name)].kind # "func" THEN Reject(args.c)
            ELSE CheckUserCall(args.c, args.c.objs[Lookup(args.c, name)].decl, t[4], args.ns)
       [] name \in DOMAIN Natives /\ \A i \in DOMAIN t[4] : t[4][i][2] = "" -> NativeCall(args.c, name, args.ns)
       [] OTHER -> Reject(args.c)

(* What the parameter becomes: constants stay known, unless it is assigned.  *)
ParamObject(param, tv, body) ==
  LET assigned == Assigns(param[4], body) IN
  Variable(param[4], "", Tv(IF param[3] = None THEN tv.ty ELSE <<param[3][2]>>,
                            IF assigned THEN "series" ELSE tv.q,
                            IF assigned \/ tv.q # "const" THEN NoValue ELSE tv.v), assigned)

(* The parameters, from left to right; what is omitted takes its default,    *)
(* checked where the function stands.  [c, defaults]                         *)
DeclareParams(c, decl, args) ==
  FoldLeft(LAMBDA r, p :
             LET param == decl[4][p]
                 default == IF Present(args[p]) THEN Out(r.c, NoNode) ELSE Check([r.c EXCEPT !.blocks = @ + 1], param[5])
                 tv == TvOf(IF Present(args[p]) THEN args[p] ELSE default.n)
                 legal == /\ param[3] = None => tv.ty # NaType
                          /\ Present(args[p]) /\ param[3] # None => Assignable(tv.ty, <<param[3][2]>>)
                          /\ Present(args[p]) /\ param[2] # "" => QualifierLE(tv.q, param[2])
             IN [c |-> Declare(Require([default.c EXCEPT !.blocks = r.c.blocks], legal), ParamObject(param, tv, decl[5])),
                 defaults |-> Append(r.defaults, default.n)],
           [c |-> c, defaults |-> <<>>], [p \in DOMAIN decl[4] |-> p])

(* One type for everything the function may return.                          *)
ResultOf(body, returns) ==
  LET all == IF AlwaysReturns(body) THEN returns ELSE Append(returns, TvOf(body))
      type == FoldLeft(LAMBDA ty, tv : IF ty = NoType THEN NoType ELSE UnifyTypes(ty, tv.ty), all[1].ty, Tail(all))
  IN IF returns = <<>> THEN TvOf(body) ELSE Tv(type, JoinQualifiers(body.q, JoinedQualifier(all)), NoValue)

Instantiate(c, decl, signature, args) ==
  LET inside == [c EXCEPT !.scopes = <<c.scopes[1], <<>>>>, !.flow = "const", !.loops = 0, !.blocks = 0,
                          !.boundary = 2, !.returns = <<>>, !.active = @ \cup {decl[3][2]}]
      params == DeclareParams(inside, decl, args)
      body == CheckBody(params.c, decl[5])
      result == ResultOf(body.n, body.c.returns)
      outside == [body.c EXCEPT !.scopes = c.scopes, !.flow = c.flow, !.loops = c.loops, !.blocks = c.blocks,
                                !.boundary = c.boundary, !.returns = c.returns, !.active = c.active]
      instance == [decl |-> decl, sig |-> signature, defaults |-> params.defaults, body |-> body.n,
                   ty |-> result.ty, q |-> result.q,
                   params |-> [p \in DOMAIN decl[4] |-> params.c.scopes[2][decl[4][p][4]]]]
  IN IF ~body.c.ok \/ result.ty \in {NoType, NaType, InvalidType} THEN [outside EXCEPT !.ok = FALSE]
     ELSE [outside EXCEPT !.insts = Append(@, instance)]

Check(c, t) ==
  IF ~c.ok THEN Reject(c)
  ELSE CASE t[1] = "name" -> ResolveName(c, t[2])
         [] t[1] = "lit" -> Out(c, N("const", Tv(t[2], "const", t[3]), None, <<>>))
         [] t[1] = "paren" -> Check(c, t[2])
         [] t[1] = "un" -> LET x == Check(c, t[3]) IN Typed(x.c, "un", UnaryTv(t[2], TvOf(x.n)), t[2], <<x.n>>)
         [] t[1] = "bin" ->
              LET xy == CheckAll(c, <<t[3], t[4]>>)
              IN Typed(xy.c, "bin", BinaryTv(t[2], TvOf(xy.ns[1]), TvOf(xy.ns[2])), t[2], xy.ns)
         [] t[1] = "cond" ->
              LET all == CheckAll(c, <<t[2], t[3], t[4]>>)
              IN Typed(all.c, "cond", CondTv(TvOf(all.ns[1]), TvOf(all.ns[2]), TvOf(all.ns[3])), None, all.ns)
         [] t[1] = "hist" -> CheckHistory(c, t)
         [] t[1] = "tuple" -> CheckTuple(c, t)
         [] t[1] = "call" -> CheckCall(c, t)
         [] t[1] = "if" -> CheckIf(c, t)
         [] t[1] = "for" -> CheckFor(c, t)
         [] t[1] = "while" -> CheckWhile(c, t)
         [] t[1] = "switch" -> CheckSwitch(c, t)

-----------------------------------------------------------------------------
(* Statements.                                                               *)

(* Mutated form: the initial value is known, whatever is assigned later.     *)
DeclaredTvKeepsValue(t, init, assigned) ==
  Tv(IF t[4] = None THEN init.ty ELSE <<t[4][2]>>,
     IF t[2] \in {"var", "varip"} \/ (t[2] # "const" /\ assigned) THEN "series" ELSE init.q,
     IF init.q = "const" THEN init.v ELSE NoValue)

(* Variables that persist are only known as the bars go by, and so are those *)
(* that are assigned again; the others are what their initial value is.      *)
DeclaredTv(t, init, assigned) ==
  Tv(IF t[4] = None THEN init.ty ELSE <<t[4][2]>>,
     IF t[2] \in {"var", "varip"} \/ (t[2] # "const" /\ assigned) THEN "series" ELSE init.q,
     IF t[2] = "const" \/ (t[2] = "" /\ ~assigned) THEN IF init.q = "const" THEN init.v ELSE NoValue ELSE NoValue)

(* "rest" is what follows in the block: it says whether the name is assigned.*)
CheckDecl(c, t, rest) ==
  LET init == Check(c, t[6])
      name == t[5][2]
      persistent == t[2] \in {"var", "varip"}
      legal == /\ persistent => ~Emits(init.c, init.n)
               /\ init.n.ty # VoidType /\ init.n.ty[1] # "tuple"
               /\ IF t[4] = None THEN init.n.ty # NaType ELSE Assignable(init.n.ty, <<t[4][2]>>)
               /\ t[2] = "const" => init.n.q = "const" /\ Known(init.n.v)
      assigned == AssignedIn(name, rest)
      made == Declare(Require(init.c, legal), Variable(name, t[2], DeclaredTv(t, TvOf(init.n), assigned), assigned))
  IN IF ~init.c.ok THEN Reject(init.c)
     ELSE Out(made, N("decl", TvOf(init.n), [id |-> Newest(made), mode |-> t[2]], <<init.n>>))

CheckTupleDecl(c, t, rest) ==
  LET init == Check(c, t[6])
      names == [i \in DOMAIN t[5][2] |-> t[5][2][i][2]]
      q == IF t[2] \in {"var", "varip"} THEN "series" ELSE init.n.q
      Object(i) ==
        LET assigned == AssignedIn(names[i], rest)
        IN Variable(names[i], t[2], Tv(init.n.ty[2][i], IF assigned /\ t[2] = "" THEN "series" ELSE q, NoValue), assigned)
      fits == init.c.ok /\ init.n.ty[1] = "tuple" /\ Len(init.n.ty[2]) = Len(names)
      made == FoldLeft(LAMBDA d, i : Declare(d, Object(i)), init.c, [i \in DOMAIN names |-> i])
  IN IF ~fits THEN Reject(init.c)
     ELSE Out(made, N("decltuple", TvOf(init.n),
                      [ids |-> [i \in DOMAIN names |-> Len(init.c.objs) + i], mode |-> t[2]], <<init.n>>))

(* A function may not assign what is outside it.  The variable is known as   *)
(* late as what is written, and as the conditions it is written under.       *)
CheckAssign(c, t) ==
  LET name == t[3][2]
      id == Lookup(c, name)
      value == Check(c, t[4])
      object == value.c.objs[id]
      written == IF t[2] = ":=" THEN TvOf(value.n)
                 ELSE BinaryTv("+", Tv(object.ty, object.q, NoValue), TvOf(value.n))
      legal == /\ object.kind = "var" /\ object.mode # "const"
               /\ c.boundary = NotInFunction \/ Nearest(c, name) >= c.boundary
               /\ Assignable(written.ty, object.ty) /\ written.ty # InvalidType
      q == JoinQualifiers(JoinQualifiers(object.q, written.q), c.flow)
  IN IF Found(c, name) = {} \/ ~value.c.ok THEN Reject(value.c)
     ELSE IF ~legal THEN Reject(value.c)
     ELSE Out([value.c EXCEPT !.objs[id].q = q], N("assign", written, [id |-> id, op |-> t[2]], <<value.n>>))

CheckEmit(c, t) ==
  LET value == Check(c, t[4])
  IN Out(Require(value.c, value.n.ty \in {BoolType, IntType, FloatType}),
         N("emit", Tv(VoidType, "series", NoValue), [name |-> t[3], append |-> t[2], ty |-> value.n.ty], <<value.n>>))

CheckReturn(c, t) ==
  LET value == IF t[2] = None THEN Out(c, NoNode) ELSE Check(c, t[2])
  IN Out([value.c EXCEPT !.ok = @ /\ c.boundary # NotInFunction, !.returns = Append(@, TvOf(value.n))],
         N("return", [VoidTv EXCEPT !.q = value.n.q], None, <<value.n>>))

(* A statement, and what follows it in its block.                            *)
CheckStmt(c, t, rest) ==
  IF ~c.ok THEN Reject(c)
  ELSE CASE t[1] = "expr" -> LET x == Check(c, t[2]) IN Out(x.c, N("expr", TvOf(x.n), None, <<x.n>>))
         [] t[1] = "decl" -> IF t[5][1] = "pattern" THEN CheckTupleDecl(c, t, rest) ELSE CheckDecl(c, t, rest)
         [] t[1] = "assign" -> CheckAssign(c, t)
         [] t[1] = "emit" -> CheckEmit(c, t)
         [] t[1] = "return" -> CheckReturn(c, t)
         [] t[1] = "func" -> Out(Require(c, c.blocks = 0), N("func", NullTv, None, <<>>))
         [] t[1] \in {"break", "continue"} -> Out(Require(c, c.loops > 0), N(t[1], NullTv, None, <<>>))

-----------------------------------------------------------------------------
(* The outputs of a script.                                                  *)

LOCAL Magnitude(n) == IF n < 0 THEN -n ELSE n
(* Mutated form: the bounds may be a step apart.                             *)
RunsOnceOrTwice(c, n) ==
  LET step == IF Present(n.kids[3]) THEN n.kids[3].v ELSE Whole(1)
  IN /\ ~c.objs[n.x].assigned
     /\ IsNum(n.kids[1].v) /\ IsNum(n.kids[2].v) /\ IsNum(step) /\ step # Zero
     /\ Magnitude(n.kids[2].v[2] - n.kids[1].v[2]) <= Magnitude(step[2])

(* A loop that is known to come round once: constant bounds, closer than a   *)
(* step, and an index nobody moves.                                          *)
RunsOnce(c, n) ==
  LET step == IF Present(n.kids[3]) THEN n.kids[3].v ELSE Whole(1)
  IN /\ ~c.objs[n.x].assigned
     /\ IsNum(n.kids[1].v) /\ IsNum(n.kids[2].v) /\ IsNum(step) /\ step # Zero
     /\ Magnitude(n.kids[2].v[2] - n.kids[1].v[2]) < Magnitude(step[2])

(* Every way to an emit, through each call, in order.                        *)
RECURSIVE Emissions(_, _, _, _)
Emissions(c, n, repeated, active) ==
  LET Of(kid, again) == Emissions(c, kid, again, active)
      All(again) == Gathered(LAMBDA kid : Of(kid, again), n.kids)
      inst == c.insts[n.x.inst]
      Within(part) == Emissions(c, part, repeated, active \cup {n.x.inst})
  IN CASE n.k = "emit" -> <<[output |-> n.x, repeated |-> repeated]>> \o All(repeated)
       [] n.k = "for" ->
            Gathered(LAMBDA kid : Of(kid, repeated), SubSeq(n.kids, 1, 3)) \o Of(n.kids[4], repeated \/ ~RunsOnce(c, n))
       [] n.k = "while" -> All(TRUE)
       [] n.k = "call" /\ n.x.inst \notin active ->
            All(repeated) \o Gathered(Within, inst.defaults) \o Within(inst.body)
       [] OTHER -> All(repeated)

(* One way of writing and one type for each output; without append there is  *)
(* one writer, and it runs at most once in a step.                           *)
CheckEmissions(c, n) ==
  LET all == Emissions(c, n, FALSE, {})
  IN Require(c, /\ \A i \in DOMAIN all : all[i].repeated => all[i].output.append
                /\ \A i, j \in DOMAIN all :
                     i # j /\ all[i].output.name = all[j].output.name => all[i].output = all[j].output /\ all[i].output.append)

(* A file: functions first, then its statements from top to bottom.          *)
CheckFile(stmts) ==
  LET functions == SelectSeq(stmts, LAMBDA t : t[1] = "func")
      declared == FoldLeft(LAMBDA c, t : Declare(c, Function(t)), Start, functions)
      all == CheckStmts(declared, stmts)
      root == N("block", VoidTv, None, all.ns)
  IN Out(IF all.c.ok THEN CheckEmissions(all.c, root) ELSE all.c, root)
=============================================================================
