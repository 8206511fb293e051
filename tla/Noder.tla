------------------------------- MODULE Noder -------------------------------
(***************************************************************************)
(* The noder (noder/noder.ts): from the checked tree of a script to the    *)
(* program that is run.  What is known is put down as a constant, a bare   *)
(* na takes the type that is wanted of it, names become places, each call  *)
(* gets a slot of its frame, and a block gets the value of its last        *)
(* statement.                                                              *)
(*                                                                         *)
(* Noding takes what the checker found and the state of the noder, and     *)
(* gives [p, e].  An input is known by its default.  A block holds its     *)
(* statements and then its value, or NoNode.                               *)
(***************************************************************************)
EXTENDS Checker

(* The state: names of the noder's own, the bindings that are another place, *)
(* the functions so far, and the next slot of the frame.                     *)
NoderStart == [temps |-> <<>>, alias |-> <<>>, funcs |-> <<>>, slots |-> 0, result |-> VoidType, ok |-> TRUE]
Made(p, e) == [p |-> p, e |-> e]

NamePlace(id) == <<"name", id>>
ReadPlace(tv, place) == N("read", [tv EXCEPT !.v = NoValue], place, <<>>)
ReadName(c, id) == ReadPlace(Tv(c.objs[id].ty, c.objs[id].q, NoValue), NamePlace(id))
IsRead(e) == e.k = "read"
(* Mutated form: where nothing is wanted na stays what it is.                *)
WantedIfTyped(type, expected) == IF type = NaType /\ Nullable(expected) THEN expected ELSE type

Wanted(type, expected) == IF type = NaType /\ (expected = VoidType \/ Nullable(expected)) THEN expected ELSE type
BlockNode(stmts, value) ==
  N("block", IF Present(value) THEN TvOf(value) ELSE VoidTv, None, Append(stmts, value))
Statements(block) == Front(block.kids)
ValueOf(block) == Last(block.kids)

RECURSIVE NodeExpr(_, _, _, _), NodeStmt(_, _, _), NodeBlock(_, _, _, _), FuncOf(_, _, _)

(* What a binding is read from.                                              *)
PlaceOf(p, n) ==
  IF n.k = "builtin" THEN <<Builtins[n.x].place, n.x>>
  ELSE IF n.x \in DOMAIN p.alias THEN p.alias[n.x] ELSE NamePlace(n.x)
NodePlaceRead(c, p, n) ==
  IF n.k = "var" /\ PlaceOf(p, n) = NamePlace(n.x) THEN ReadName(c, n.x) ELSE ReadPlace(TvOf(n), PlaceOf(p, n))

(* Each of a list, wanted as types say; [p, es].                             *)
NodeAll(c, p, ns, types) ==
  FoldLeft(LAMBDA r, i : LET one == IF Present(ns[i]) THEN NodeExpr(c, r.p, ns[i], types[i]) ELSE Made(r.p, NoNode)
                         IN [p |-> one.p, es |-> Append(r.es, one.e)],
           [p |-> p, es |-> <<>>], [i \in DOMAIN ns |-> i])

(* resultValue(): where no value is wanted a bare na is none.                *)
ResultValue(c, p, n, expected) ==
  IF expected = VoidType /\ n.ty = NaType /\ Known(n.v) THEN Made(p, NoNode) ELSE NodeExpr(c, p, n, expected)
Blockify(c, p, n, expected) ==
  IF n.k = "block" THEN NodeBlock(c, p, n, expected)
  ELSE LET r == ResultValue(c, p, n, expected) IN Made(r.p, BlockNode(<<>>, r.e))

(* A statement at the end of a block that is no expression: the name that it *)
(* declared or assigned, or the constant it was declared as.                 *)
LastStmtValue(c, p, n, expected) ==
  CASE n.k = "decl" /\ Known(n.kids[1].v) ->
         N("const", [TvOf(n.kids[1]) EXCEPT !.ty = IF @ # NaType THEN @ ELSE IF expected # VoidType THEN expected
                                                   ELSE c.objs[n.x.id].ty], None, <<>>)
    [] n.k \in {"decl", "assign"} /\ ~(n.k = "decl" /\ Known(n.kids[1].v)) -> ReadName(c, n.x.id)
    [] OTHER -> NoNode

NodeStmts(c, p, ns) ==
  FoldLeft(LAMBDA r, n : LET one == NodeStmt(c, r.p, n) IN Made(one.p, r.e \o one.e), Made(p, <<>>), ns)
NodeBlock(c, p, n, expected) ==
  IF n.kids = <<>> THEN Made(p, BlockNode(<<>>, NoNode))
  ELSE LET before == NodeStmts(c, p, Front(n.kids))
           last == Last(n.kids)
       IN IF last.k = "expr" /\ last.kids[1].ty # VoidType
          THEN LET value == ResultValue(c, before.p, last.kids[1], expected)
               IN Made(value.p, BlockNode(before.e, value.e))
          ELSE LET stmts == NodeStmt(c, before.p, last)
               IN Made(stmts.p, BlockNode(before.e \o stmts.e, LastStmtValue(c, stmts.p, last, expected)))

IsInput(n) == n.k = "native" /\ n.x.name = "input.int"
InputPlace(n) == <<"param", n.kids[1].v>>

NodeDecl(c, p, n) ==
  LET id == n.x.id
      name == c.objs[id]
      rebindable == n.x.mode = "" /\ ~name.assigned
      init == NodeExpr(c, p, n.kids[1], name.ty)
  IN CASE rebindable /\ IsInput(n.kids[1]) -> Made([p EXCEPT !.alias = (id :> InputPlace(n.kids[1])) @@ @], <<>>)
       [] n.x.mode = "const" -> Made(p, <<>>)
       [] rebindable /\ ~IsInput(n.kids[1]) /\ IsRead(init.e) /\ Head(init.e.x) # "name" ->
            Made([init.p EXCEPT !.alias = (id :> init.e.x) @@ @], <<>>)
       [] n.x.mode \in {"var", "varip"} -> Made(init.p, <<N("initname", NullTv, id, <<init.e>>)>>)
       [] OTHER -> Made(init.p, <<N("assign", NullTv, [id |-> id, op |-> ""], <<init.e>>)>>)

(* The tuple is kept in a name of its own, and then taken apart.             *)
NodeTupleDecl(c, p, n) ==
  LET init == NodeExpr(c, p, n.kids[1], n.ty)
      temp == Len(c.objs) + Len(init.p.temps) + 1
      after == [init.p EXCEPT !.temps = Append(@, Variable("$tuple", "", TvOf(n), FALSE))]
      Part(i) == N("tupleget", Tv(c.objs[n.x.ids[i]].ty, c.objs[n.x.ids[i]].q, NoValue), i, <<ReadPlace(TvOf(n), NamePlace(temp))>>)
  IN Made([after EXCEPT !.ok = @ /\ n.x.mode \notin {"var", "varip"}],
          <<N("assign", NullTv, [id |-> temp, op |-> ""], <<init.e>>)>>
            \o [i \in DOMAIN n.x.ids |-> N("assign", NullTv, [id |-> n.x.ids[i], op |-> ""], <<Part(i)>>)])

NodeExprStmt(c, p, n) ==
  LET e == NodeExpr(c, p, n, IF n.ty = NaType THEN VoidType ELSE NoType)
  IN IF IsInput(n) \/ (n.ty = NaType /\ Known(n.v)) THEN Made(p, <<>>)
     ELSE Made(e.p, IF e.e.k = "const" THEN <<>> ELSE <<e.e>>)

NodeStmt(c, p, n) ==
  CASE n.k = "expr" -> NodeExprStmt(c, p, n.kids[1])
    [] n.k = "decl" -> NodeDecl(c, p, n)
    [] n.k = "decltuple" -> NodeTupleDecl(c, p, n)
    [] n.k = "assign" ->
         LET value == NodeExpr(c, p, n.kids[1], c.objs[n.x.id].ty)
         IN Made(value.p, <<N("assign", NullTv, [id |-> n.x.id, op |-> IF n.x.op = ":=" THEN "" ELSE "+"], <<value.e>>)>>)
    [] n.k = "emit" ->
         LET value == NodeExpr(c, p, n.kids[1], n.x.ty) IN Made(value.p, <<N("emit", NullTv, n.x, <<value.e>>)>>)
    [] n.k = "return" ->
         LET value == IF Present(n.kids[1]) THEN NodeExpr(c, p, n.kids[1], p.result) ELSE Made(p, NoNode)
         IN Made(value.p, <<N("return", NullTv, None, <<value.e>>)>>)
    [] n.k \in {"break", "continue"} -> Made(p, <<N(n.k, NullTv, None, <<>>)>>)
    [] n.k = "func" -> Made(p, <<>>)

-----------------------------------------------------------------------------
(* Expressions.                                                              *)

Same(type, ns) == [i \in DOMAIN ns |-> type]

NodeCall(c, p, n) ==
  LET made == FuncOf(c, p, n.x.inst)
      inst == c.insts[n.x.inst]
      args == [i \in DOMAIN n.kids |-> IF Present(n.kids[i]) THEN n.kids[i] ELSE inst.defaults[i]]
      slotted == [made EXCEPT !.slots = @ + 1]
      noded == NodeAll(c, slotted, args, [i \in DOMAIN args |-> c.objs[inst.params[i]].ty])
  IN Made(noded.p, N("call", TvOf(n), [inst |-> n.x.inst, order |-> n.x.order, slot |-> made.slots], noded.es))

(* Arms of a condition are blocks.                                           *)
NodeCond(c, p, n) ==
  LET cond == NodeExpr(c, p, n.kids[1], NoType)
      then == Blockify(c, cond.p, n.kids[2], n.ty)
      else == IF Present(n.kids[3]) THEN Blockify(c, then.p, n.kids[3], n.ty) ELSE Made(then.p, NoNode)
  IN Made(else.p, N("if", TvOf(n), None, <<cond.e, then.e, else.e>>))

NodeFor(c, p, n) ==
  LET bounds == NodeAll(c, p, SubSeq(n.kids, 1, 3), Same(c.objs[n.x].ty, <<1, 2, 3>>))
      body == NodeBlock(c, bounds.p, n.kids[4], n.ty)
  IN Made(body.p, N("for", TvOf(n), n.x, Append(bounds.es, body.e)))
NodeWhile(c, p, n) ==
  LET cond == NodeExpr(c, p, n.kids[1], NoType)
      body == NodeBlock(c, cond.p, n.kids[2], n.ty)
  IN Made(body.p, N("while", TvOf(n), None, <<cond.e, body.e>>))

NodeSwitch(c, p, n) ==
  LET arms == Tail(n.kids)
      patterns == SelectSeq(arms, LAMBDA arm : Present(arm.kids[1]) /\ arm.kids[1].ty # NaType)
      type == IF n.kids[1].ty # NaType THEN n.kids[1].ty ELSE IF patterns = <<>> THEN NoType ELSE patterns[1].kids[1].ty
      noded == FoldLeft(LAMBDA r, arm :
                          LET pattern == IF ~Present(arm.kids[1]) THEN Made(r.p, NoNode)
                                         ELSE NodeExpr(c, r.p, arm.kids[1], IF Present(n.kids[1]) THEN type ELSE BoolType)
                              body == Blockify(c, pattern.p, arm.kids[2], n.ty)
                          IN Made(body.p, Append(r.e, N("arm", NullTv, None, <<pattern.e, body.e>>))),
                        Made(p, <<>>), arms)
      subject == IF Present(n.kids[1]) THEN NodeExpr(c, noded.p, n.kids[1], type) ELSE Made(noded.p, NoNode)
  IN Made(subject.p, N("switch", TvOf(n), None, <<subject.e>> \o noded.e))

NodeExpr(c, p, n, expected) ==
  LET tv == [TvOf(n) EXCEPT !.ty = Wanted(n.ty, expected)]
      Kids(types) == NodeAll(c, p, n.kids, types)
      unified == UnifyTypes(n.kids[1].ty, n.kids[2].ty)
  IN CASE Known(n.v) -> Made(p, N("const", tv, None, <<>>))
       [] n.k \in {"var", "builtin"} /\ ~Known(n.v) -> Made(p, NodePlaceRead(c, p, n))
       [] n.k = "un" /\ ~Known(n.v) ->
            LET r == Kids(Same(tv.ty, n.kids))
            IN Made(r.p, IF n.x = "+" THEN r.es[1] ELSE N("unary", tv, n.x, r.es))
       [] n.k = "bin" /\ ~Known(n.v) ->
            LET r == Kids(Same(IF unified = NoType THEN tv.ty ELSE unified, n.kids)) IN Made(r.p, N("binary", tv, n.x, r.es))
       [] n.k \in {"cond", "if"} /\ ~Known(n.v) -> NodeCond(c, p, [n EXCEPT !.ty = tv.ty])
       [] n.k = "call" -> NodeCall(c, p, [n EXCEPT !.ty = tv.ty])
       [] n.k = "native" /\ ~Known(n.v) ->
            IF IsInput(n) THEN Made(p, ReadPlace(tv, InputPlace(n)))
            ELSE LET r == Kids(n.x.types) IN Made(r.p, N("native", tv, n.x, r.es))
       [] n.k = "hist" ->
            LET offset == NodeExpr(c, p, n.kids[2], IntType)
            IN Made(offset.p, N("histread", tv, PlaceOf(offset.p, n.kids[1]), <<offset.e>>))
       [] n.k = "tuple" -> LET r == Kids(tv.ty[2]) IN Made(r.p, N("tuple", tv, None, r.es))
       [] n.k = "for" -> NodeFor(c, p, [n EXCEPT !.ty = tv.ty])
       [] n.k = "while" -> NodeWhile(c, p, [n EXCEPT !.ty = tv.ty])
       [] n.k = "switch" -> NodeSwitch(c, p, [n EXCEPT !.ty = tv.ty])

(* A function is made once for each instance, with a frame of its own.       *)
FuncOf(c, p, i) ==
  LET inst == c.insts[i]
      inside == [p EXCEPT !.slots = 0, !.result = inst.ty]
      body == IF inst.body.k = "block" THEN NodeBlock(c, inside, inst.body, inst.ty) ELSE NodeExpr(c, inside, inst.body, inst.ty)
      func == [params |-> inst.params, body |-> body.e, ty |-> inst.ty, q |-> inst.q]
  IN IF i \in DOMAIN p.funcs THEN p
     ELSE [body.p EXCEPT !.slots = p.slots, !.result = p.result, !.funcs = (i :> func) @@ @]

(* The program of a checked file.                                            *)
NodeFile(c, root) ==
  LET made == NodeStmts(c, NoderStart, root.kids)
  IN Made([names |-> c.objs \o made.p.temps, funcs |-> made.p.funcs, ok |-> made.p.ok], BlockNode(made.e, NoNode))
=============================================================================
