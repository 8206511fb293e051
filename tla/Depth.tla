------------------------------- MODULE Depth -------------------------------
(***************************************************************************)
(* How much history a program needs (noder/depth.ts, noder/depth-walk.ts): *)
(* for every place that is read in the past, the largest offset, as far as *)
(* it can be said before the first bar; where it cannot, a cap.            *)
(***************************************************************************)
EXTENDS Noder

IsBlock(e) == e.k = "block"

RECURSIVE NodesOf(_)
NodesOf(e) == <<e>> \o Gathered(NodesOf, e.kids)
OfKind(e, kinds) == SelectSeq(NodesOf(e), LAMBDA n : n.k \in kinds)
Marks(e, kinds) == LET ns == OfKind(e, kinds) IN {ns[i].x : i \in DOMAIN ns}
WritesOf(e) == OfKind(e, {"assign"})
ForIndexes(e) == Marks(e, {"for"})
NamesWritten(e) == {x.id : x \in Marks(e, {"assign"})}

(* Names of functions, and the names that are written once and known before  *)
(* the first bar: each stands for what it was given.                         *)
FunctionNames(p) ==
  UNION {Range(p.funcs[i].params) \cup NamesWritten(p.funcs[i].body) \cup ForIndexes(p.funcs[i].body) : i \in DOMAIN p.funcs}
WrittenOnce(e, params) ==
  {id \in NamesWritten(e) \ params : Len(SelectSeq(WritesOf(e), LAMBDA n : n.x.id = id)) = 1}
Immutable(p, root) ==
  {id \in WrittenOnce(root, {}) \cup UNION {WrittenOnce(p.funcs[i].body, Range(p.funcs[i].params)) : i \in DOMAIN p.funcs} :
    p.names[id].mode = "" /\ QualifierLE(p.names[id].q, "simple")}

-----------------------------------------------------------------------------
(* An offset in terms of what is there before the first bar: [e, safe].      *)
(* "env" holds what names stand for, "known" the facts of the program.       *)

Normal(e, safe) == [e |-> e, safe |-> safe]
ArgsOf(params, args) == [id \in Range(params) |-> args[CHOOSE i \in DOMAIN params : params[i] = id]]
AllSafe(ns) == \A i \in DOMAIN ns : ns[i].safe
With(e, ns) == Normal([e EXCEPT !.kids = [i \in DOMAIN ns |-> ns[i].e]], AllSafe(ns))

RECURSIVE Normalize(_, _, _), NormalizeResult(_, _, _)
(* A block is what it gives, if all it does is to name things.               *)
NormalizeResult(known, e, ctx) ==
  LET stmts == Statements(e)
      Step(r, stmt) ==
        LET value == Normalize(known, stmt.kids[1], [ctx EXCEPT !.env = r.env]) IN
        IF r.done THEN r
        ELSE IF stmt.k = "return" /\ Present(stmt.kids[1]) THEN [r EXCEPT !.done = TRUE, !.result = value]
        ELSE IF stmt.k # "assign" \/ ~value.safe THEN [r EXCEPT !.done = TRUE]
        ELSE IF stmt.x.op # "" \/ stmt.x.id \notin known.immutable THEN [r EXCEPT !.done = TRUE]
        ELSE [r EXCEPT !.env = (stmt.x.id :> value) @@ @]
      r == FoldLeft(Step, [env |-> ctx.env, done |-> FALSE, result |-> Normal(e, FALSE)], stmts)
  IN IF ~IsBlock(e) THEN Normalize(known, e, ctx)
     ELSE IF r.done \/ ~Present(ValueOf(e)) THEN r.result
     ELSE Normalize(known, ValueOf(e), [ctx EXCEPT !.env = r.env])

Normalize(known, e, ctx) ==
  LET Kids == [i \in DOMAIN e.kids |-> Normalize(known, e.kids[i], ctx)]
      func == known.p.funcs[e.x.inst]
      callee == [ctx EXCEPT !.env = ArgsOf(func.params, Kids), !.ind = <<>>]
      Branch(b) == LET r == NormalizeResult(known, b, ctx) IN Normal(BlockNode(<<>>, r.e), r.safe)
  IN CASE e.k = "const" -> Normal(e, TRUE)
       [] e.k = "none" -> Normal(e, TRUE)
       [] e.k = "read" ->
            IF e.x[1] = "name"
            THEN IF e.x[2] \in DOMAIN ctx.env THEN ctx.env[e.x[2]]
                 ELSE Normal(e, e.x[2] \notin known.functionNames /\ QualifierLE(known.p.names[e.x[2]].q, "simple"))
            ELSE Normal(e, e.x[1] = "param" \/ (e.x[1] = "builtin" /\ QualifierLE(e.q, "simple")))
       [] e.k \in {"unary", "binary", "native"} -> With(e, Kids)
       [] e.k = "if" ->
            With(e, <<Normalize(known, e.kids[1], ctx), Branch(e.kids[2]),
                      IF Present(e.kids[3]) THEN Branch(e.kids[3]) ELSE Normal(NoNode, TRUE)>>)
       [] e.k = "call" ->
            IF ~ctx.inFunction THEN With(e, Kids)
            ELSE IF ~QualifierLE(e.q, "input") \/ ~AllSafe(Kids) THEN Normal(e, FALSE)
            ELSE NormalizeResult(known, func.body, callee)
       [] OTHER -> Normal(e, FALSE)

-----------------------------------------------------------------------------
(* The demands: [place, kind, bars | e], one for each read in the past.      *)

Demand(ctx, known, e) ==
  LET offset == e.kids[1]
      induction == IsRead(offset) /\ offset.x[1] = "name" /\ offset.x[2] \in DOMAIN ctx.ind
      normal == IF induction THEN ctx.ind[offset.x[2]] ELSE Normalize(known, offset, ctx)
  IN CASE offset.k = "const" ->
            [place |-> e.x, kind |-> "const",
             bars |-> IF IsHistoryOffset([v |-> offset.v]) THEN OffsetOf([v |-> offset.v]) ELSE 0, e |-> NoNode]
       [] offset.k # "const" /\ normal.safe /\ QualifierLE(normal.e.q, "simple") ->
            [place |-> e.x, kind |-> "bound", bars |-> 0, e |-> normal.e]
       [] OTHER -> [place |-> e.x, kind |-> "capped", bars |-> 0, e |-> NoNode]

(* Mutated form: always to the second bound.                                 *)
FurthestIsTo(known, e, ctx) == Normalize(known, e.kids[2], ctx)

(* The furthest an index goes: to the one bound or the other, by the sign of *)
(* the step, or to the larger of the two.                                    *)
Furthest(known, e, ctx) ==
  LET from == Normalize(known, e.kids[1], ctx)
      to == Normalize(known, e.kids[2], ctx)
      step == e.kids[3]
      Signed(sign) == step.k = "const" /\ IsNum(step.v) /\ step.v[2] * sign > 0
      both == N("native", Tv(IntType, JoinQualifiers(from.e.q, to.e.q), NoValue),
                [name |-> "math.max", types |-> <<IntType, IntType>>], <<from.e, to.e>>)
  IN CASE ~Present(step) \/ Signed(1) -> to
       [] Present(step) /\ Signed(-1) -> from
       [] OTHER -> Normal(both, from.safe /\ to.safe)

RECURSIVE Demands(_, _, _)
BlockDemands(known, stmts, ctx) ==
  FoldLeft(LAMBDA r, stmt :
             LET here == Demands(known, stmt, [ctx EXCEPT !.env = r.env])
                 named == stmt.k = "assign" /\ stmt.x.op = "" /\ stmt.x.id \in known.immutable
             IN [all |-> r.all \o here,
                 env |-> IF named THEN (stmt.x.id :> Normalize(known, stmt.kids[1], [ctx EXCEPT !.env = r.env])) @@ r.env
                         ELSE r.env],
           [all |-> <<>>, env |-> ctx.env], stmts).all

Demands(known, e, ctx) ==
  LET All == Gathered(LAMBDA kid : Demands(known, kid, ctx), e.kids)
      func == known.p.funcs[e.x.inst]
      args == [i \in DOMAIN e.kids |-> Normalize(known, e.kids[i], ctx)]
      moved == e.x \in NamesWritten(e.kids[4])
  IN CASE e.k = "histread" -> <<Demand(ctx, known, e)>> \o All
       [] IsBlock(e) -> BlockDemands(known, e.kids, ctx)
       [] e.k = "call" ->
            All \o Demands(known, func.body, [env |-> ArgsOf(func.params, args), ind |-> <<>>, inFunction |-> TRUE])
       [] e.k = "for" ->
            Gathered(LAMBDA kid : Demands(known, kid, ctx), SubSeq(e.kids, 1, 3))
              \o Demands(known, e.kids[4],
                         IF moved THEN ctx ELSE [ctx EXCEPT !.ind = (e.x :> Furthest(known, e, ctx)) @@ @])
       [] OTHER -> All

(* What is kept of a place: at least "bars", as many as each of "bounds"     *)
(* says when the program is bound, and the cap where nothing can be said.    *)
DepthsOf(p, root) ==
  LET known == [p |-> p, functionNames |-> FunctionNames(p), immutable |-> Immutable(p, root)]
      all == Demands(known, root, [env |-> <<>>, ind |-> <<>>, inFunction |-> FALSE])
      Of(place) == SelectSeq(all, LAMBDA d : d.place = place)
      largest(ds) == FoldLeft(LAMBDA m, d : IF d.bars > m THEN d.bars ELSE m, 0, ds)
  IN [place \in {all[i].place : i \in DOMAIN all} |->
       [bars |-> largest(Of(place)), capped |-> \E i \in DOMAIN Of(place) : Of(place)[i].kind = "capped",
        bounds |-> LET bound == SelectSeq(Of(place), LAMBDA d : d.kind = "bound") IN [i \in DOMAIN bound |-> bound[i].e]]]

-----------------------------------------------------------------------------
(* checkBindingSupport(): what a bound may be made of.                       *)

FirstWrites(root) == SelectSeq(root.kids, LAMBDA s : s.k = "initname" \/ s.k = "assign")
WritesTo(root, id) == SelectSeq(FirstWrites(root), LAMBDA s : IF s.k = "assign" THEN s.x.id = id ELSE s.x = id)

RECURSIVE Supported(_, _, _, _)
Supported(p, root, e, locals) ==
  LET func == p.funcs[e.x.inst]
      All == \A i \in DOMAIN e.kids : Supported(p, root, e.kids[i], locals)
      writes == WritesTo(root, e.x[2])
  IN CASE e.k \in {"histread", "tuple", "tupleget", "initname", "emit"} -> FALSE
       [] e.k = "read" ->
            /\ e.x[1] # "series"
            /\ e.x[1] = "name" /\ e.x[2] \notin locals =>
                 IF writes = <<>> THEN FALSE ELSE Supported(p, root, writes[1].kids[1], locals)
       [] e.k = "call" -> All /\ Supported(p, root, func.body, Range(func.params) \cup NamesWritten(func.body) \cup ForIndexes(func.body))
       [] OTHER -> All
=============================================================================
