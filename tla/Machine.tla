------------------------------ MODULE Machine ------------------------------
(***************************************************************************)
(* How a program runs: what lower.ts and codegen.ts make of each node, over*)
(* the state of runtime/js/state-update.ts.  A bar is an attempt that runs *)
(* the body once, and then commits: each name puts its value in front of   *)
(* its history, which is cut to what the program retains.                  *)
(*                                                                         *)
(* A world is what stays: [p, names, inputs, rows, keep, least] (the noded *)
(* program, the names of its frames, the values of its inputs, the values  *)
(* of each series with the newest first, and what is retained of a place). *)
(* A memory is what a run changes; running gives [m, x].                   *)
(***************************************************************************)
EXTENDS Depth

Res(m, x) == [m |-> m, x |-> x]
Blank == [hist |-> <<>>, now |-> Undefined, init |-> FALSE]
(* "flow" says how control leaves what is being run; "fault" is an error     *)
(* that stops the run, "short" a read past what is retained.                 *)
FreshMemory ==
  [cells |-> <<>>, frames |-> {}, out |-> <<>>, flow |-> "go", ret |-> Undefined, fault |-> "none", short |-> FALSE]
Fault(m, what) == [m EXCEPT !.fault = IF @ = "none" THEN what ELSE @]
Stopped(m) == m.flow # "go" \/ m.fault # "none"

IsVar(w, id) == w.p.names[id].mode \in {"var", "varip"}
EmptyName(w, id) == EmptyOf(w.p.names[id].ty)
Retained(w, place) == IF place \in DOMAIN w.keep THEN w.keep[place] ELSE w.least

(* The cell of a name: in the frame of the call, or in that of the script.   *)
KeyOf(w, path, id) == IF id \in UNION Range(w.names) THEN <<path, id>> ELSE <<<<>>, id>>
Cell(m, key) == IF key \in DOMAIN m.cells THEN m.cells[key] ELSE Blank
WithCell(m, key, cell) == [m EXCEPT !.cells = (key :> cell) @@ @]

(* What was written in this attempt, or what a persistent name holds.        *)
Current(w, m, key) ==
  LET cell == Cell(m, key) IN
  CASE cell.now # Undefined -> cell.now
    [] cell.now = Undefined /\ IsVar(w, key[2]) /\ cell.init /\ cell.hist # <<>> -> cell.hist[1]
    [] OTHER -> EmptyName(w, key[2])
ReadCell(w, m, key, offset) ==
  LET hist == Cell(m, key).hist
  IN CASE ~IsHistoryOffset(offset) -> EmptyName(w, key[2])
       [] IsHistoryOffset(offset) /\ OffsetOf(offset) = 0 -> Current(w, m, key)
       [] OTHER -> IF OffsetOf(offset) <= Len(hist) THEN hist[OffsetOf(offset)] ELSE EmptyName(w, key[2])

(* write() and initialize(): only a value of the type of the name.           *)
Store(w, m, key, x, initial) ==
  IF Stopped(m) THEN m
  ELSE IF ~SameType(w.p.names[key[2]].ty, x) THEN Fault(m, "layout")
  ELSE WithCell(m, key, [Cell(m, key) EXCEPT !.now = x, !.init = @ \/ initial])

(* finishFrame(), for every frame that was ever called and for the script.   *)
FrameNames(p) ==
  [i \in DOMAIN p.funcs |->
    LET body == p.funcs[i].body IN Range(p.funcs[i].params) \cup Marks(body, {"initname", "for"}) \cup NamesWritten(body)]
RootNames(w) == {id \in DOMAIN w.p.names : w.p.names[id].kind = "var"} \ UNION Range(w.names)
Retention(w, id) ==
  LET keep == Retained(w, NamePlace(id)) IN IF IsVar(w, id) /\ keep = 0 THEN 1 ELSE keep
Committed(w, m, key) ==
  LET all == <<Current(w, m, key)>> \o Cell(m, key).hist
      keep == Retention(w, key[2])
  IN [Cell(m, key) EXCEPT !.hist = SubSeq(all, 1, IF keep < Len(all) THEN keep ELSE Len(all)), !.now = Undefined]
Commit(w, m) ==
  LET keys == {<<<<>>, id>> : id \in RootNames(w)} \cup UNION {{<<f[1], id>> : id \in w.names[f[2]]} : f \in m.frames}
  IN [m EXCEPT !.cells = [key \in keys |-> Committed(w, m, key)]]

(* Plain outputs are written once in an attempt.                             *)
EmitTo(m, output, x) ==
  LET taken == \E i \in DOMAIN m.out : m.out[i].name = output.name
  IN IF Stopped(m) THEN m
     ELSE IF taken /\ ~output.append THEN Fault(m, "twice")
     ELSE [m EXCEPT !.out = Append(@, [name |-> output.name, x |-> x])]

-----------------------------------------------------------------------------
(* Reading a place.                                                          *)

ReadAt(w, m, path, place, type, offset) ==
  LET rows == w.rows[place[2]]
      back == OffsetOf(offset)
  IN CASE place[1] = "name" -> ReadCell(w, m, KeyOf(w, path, place[2]), offset)
       [] place[1] = "param" -> Value(type[1], w.inputs[place[2]])
       [] OTHER -> IF IsHistoryOffset(offset) /\ back < Len(rows) /\ back <= Retained(w, place) THEN rows[back + 1]
                   ELSE EmptyOf(type)

RunNative(name, type, xs) ==
  LET numbers == {xs[i].v : i \in DOMAIN xs}
  IN CASE name = "math.max" ->
            Value(type[1], IF NA \in numbers THEN NA ELSE CHOOSE v \in numbers : \A other \in numbers : other[2] <= v[2])
       [] name = "na" -> Value("bool", Bool(Missing(xs[1])))
       [] name = "nz" ->
            IF ~Missing(xs[1]) THEN xs[1] ELSE IF Len(xs) = 2 THEN xs[2] ELSE Value(xs[1].kind, Zero)
       [] name = "int" -> Value("int", Truncated(xs[1].v))
       [] name = "float" -> Value("float", xs[1].v)

(* An index comes nearer to the end of its range with each step, or is na.   *)
InRange(index, to, step) ==
  /\ ~Missing(step) /\ step.v # Zero
  /\ True(RunBinary(IF step.v[2] > 0 THEN "<=" ELSE ">=", index, to))
NextIndex(index, step) == Value(index.kind, IF Missing(index) \/ Missing(step) THEN NA ELSE Num(index.v[2] + step.v[2]))

-----------------------------------------------------------------------------
(* Lowering takes no na without a type, no assignment and no argument that   *)
(* does not fit, and no call that has another type than its function.        *)

Lowerable(p, root) ==
  LET Fine(part) ==
        \E es \in {NodesOf(part)} :
          \A i \in DOMAIN es :
            /\ es[i].ty # NaType
            /\ es[i].k = "assign" => Assignable(es[i].kids[1].ty, p.names[es[i].x.id].ty)
            /\ es[i].k = "native" => \A j \in DOMAIN es[i].kids : Assignable(es[i].kids[j].ty, es[i].x.types[j])
            /\ es[i].k = "call" => es[i].ty = p.funcs[es[i].x.inst].ty
  IN Fine(root) /\ \A i \in DOMAIN p.funcs : Fine(p.funcs[i].body)

(* Running a node.                                                           *)

RECURSIVE Run(_, _, _, _), RunFor(_, _, _, _, _, _, _), RunWhile(_, _, _, _, _)

(* One after the other, in the order given; [m, xs].                         *)
RunInOrder(w, m, path, es, order) ==
  FoldLeft(LAMBDA r, i : LET one == Run(w, r.m, path, es[i]) IN [m |-> one.m, xs |-> (i :> one.x) @@ r.xs],
           [m |-> m, xs |-> <<>>], order)
RunAll(w, m, path, es) == RunInOrder(w, m, path, es, [i \in DOMAIN es |-> i])
RunStmts(w, m, path, stmts) == FoldLeft(LAMBDA r, s : Run(w, r, path, s).m, m, stmts)
RunBlock(w, m, path, e) ==
  LET before == RunStmts(w, m, path, Statements(e))
  IN IF Present(ValueOf(e)) THEN Run(w, before, path, ValueOf(e)) ELSE Res(before, Undefined)

(* A block as a branch of what has a value of its own.                       *)
RunBranch(w, m, path, block, type, otherwise) ==
  LET r == RunBlock(w, m, path, block)
  IN Res(r.m, IF Present(ValueOf(block)) /\ ~Stopped(r.m) THEN Coerce(r.x, block.ty, type) ELSE otherwise)

AfterBody(m) == IF m.flow \in {"break", "continue"} THEN [m EXCEPT !.flow = "go"] ELSE m
RunFor(w, m, path, e, to, step, last) ==
  LET key == KeyOf(w, path, e.x)
      body == RunBranch(w, m, path, e.kids[4], e.ty, last)
      after == AfterBody(body.m)
      next == Store(w, after, key, NextIndex(Current(w, after, key), step), FALSE)
  IN IF Stopped(m) \/ ~InRange(Current(w, m, key), to, step) THEN Res(m, last)
     ELSE IF body.m.flow = "break" \/ Stopped(after) THEN Res(after, body.x)
     ELSE RunFor(w, next, path, e, to, step, body.x)
RunWhile(w, m, path, e, last) ==
  LET cond == Run(w, m, path, e.kids[1])
      body == RunBranch(w, cond.m, path, e.kids[2], e.ty, last)
      after == AfterBody(body.m)
  IN IF Stopped(cond.m) \/ ~True(cond.x) THEN Res(cond.m, last)
     ELSE IF body.m.flow = "break" \/ Stopped(after) THEN Res(after, body.x)
     ELSE RunWhile(w, after, path, e, body.x)

(* The first arm whose pattern is the subject, or holds; na is no pattern.   *)
RECURSIVE RunArms(_, _, _, _, _, _)
RunArms(w, m, path, e, i, subject) ==
  LET arm == e.kids[i]
      pattern == Run(w, m, path, arm.kids[1])
      taken == IF Present(e.kids[1]) THEN True(RunBinary("==", subject, pattern.x)) ELSE True(pattern.x)
      Arm(before) == RunBranch(w, before, path, arm.kids[2], e.ty, EmptyOf(e.ty))
  IN IF i > Len(e.kids) THEN Res(m, EmptyOf(e.ty))
     ELSE IF ~Present(arm.kids[1]) THEN Arm(m)
     ELSE IF taken THEN Arm(pattern.m) ELSE RunArms(w, pattern.m, path, e, i + 1, subject)

(* The frame of the call, its parameters, the body, and what it returns.     *)
RunCall(w, m, path, e) ==
  LET func == w.p.funcs[e.x.inst]
      inside == Append(path, e.x.slot)
      args == RunInOrder(w, m, path, e.kids, e.x.order)
      entered == FoldLeft(LAMBDA mm, i : Store(w, mm, <<inside, func.params[i]>>,
                                               Coerce(args.xs[i], e.kids[i].ty, w.p.names[func.params[i]].ty), FALSE),
                          [args.m EXCEPT !.frames = @ \cup {<<inside, e.x.inst>>}], [i \in DOMAIN e.kids |-> i])
      body == IF func.body.k = "block" THEN RunBlock(w, entered, inside, func.body) ELSE Run(w, entered, inside, func.body)
      result == IF body.m.flow = "return" THEN Coerce(body.m.ret[1], body.m.ret[2], func.ty)
                ELSE Coerce(body.x, func.body.ty, func.ty)
  IN IF Stopped(args.m) THEN Res(args.m, Undefined) ELSE Res([body.m EXCEPT !.flow = "go", !.ret = Undefined], result)

RunBinaryNode(w, m, path, e) ==
  LET x == Run(w, m, path, e.kids[1])
      y == Run(w, x.m, path, e.kids[2])
  IN CASE e.x = "and" -> IF True(x.x) THEN y ELSE x
       [] e.x = "or" -> IF True(x.x) THEN x ELSE y
       [] OTHER -> Res(y.m, RunBinary(e.x, x.x, y.x))

RunAssign(w, m, path, e) ==
  LET key == KeyOf(w, path, e.x.id)
      type == w.p.names[e.x.id].ty
      value == Run(w, m, path, e.kids[1])
      x == IF e.x.op = "" THEN Coerce(value.x, e.kids[1].ty, type) ELSE RunBinary(e.x.op, Current(w, m, key), value.x)
  IN Store(w, value.m, key, x, FALSE)

Run(w, m, path, e) ==
  LET x == Run(w, m, path, e.kids[1])
      all == RunAll(w, m, path, e.kids)
      key == KeyOf(w, path, e.x)
      short == /\ IsHistoryOffset(x.x) /\ OffsetOf(x.x) > Retained(w, e.x) /\ e.x \notin w.capped
               /\ e.x[1] # "param"
  IN CASE Stopped(m) -> Res(m, Undefined)
       [] ~Stopped(m) /\ e.k = "const" -> Res(m, Constant(e.v, e.ty))
       [] e.k = "read" -> Res(m, ReadAt(w, m, path, e.x, e.ty, Value("int", Zero)))
       [] e.k = "histread" -> Res([x.m EXCEPT !.short = @ \/ short], ReadAt(w, x.m, path, e.x, e.ty, x.x))
       [] e.k = "unary" -> Res(x.m, IF e.x = "-" THEN Negated(x.x) ELSE Not(x.x))
       [] e.k = "binary" -> RunBinaryNode(w, m, path, e)
       [] e.k = "native" ->
            Res(all.m, RunNative(e.x.name, e.ty, [i \in DOMAIN e.kids |-> Coerce(all.xs[i], e.kids[i].ty, e.x.types[i])]))
       [] e.k = "call" -> RunCall(w, m, path, e)
       [] e.k = "tuple" -> Res(all.m, Value("tuple", <<"elems", [i \in DOMAIN e.kids |-> all.xs[i]]>>))
       [] e.k = "tupleget" -> Res(x.m, IF Missing(x.x) THEN EmptyOf(e.ty) ELSE x.x.v[2][e.x])
       [] e.k = "if" ->
            IF True(x.x) THEN RunBranch(w, x.m, path, e.kids[2], e.ty, EmptyOf(e.ty))
            ELSE IF Present(e.kids[3]) THEN RunBranch(w, x.m, path, e.kids[3], e.ty, EmptyOf(e.ty))
            ELSE Res(x.m, EmptyOf(e.ty))
       [] e.k = "switch" ->
            LET subject == IF Present(e.kids[1]) THEN x ELSE Res(m, Undefined)
            IN RunArms(w, subject.m, path, e, 2, subject.x)
       [] e.k = "for" ->
            LET bounds == RunAll(w, m, path, SubSeq(e.kids, 1, IF Present(e.kids[3]) THEN 3 ELSE 2))
                step == IF Present(e.kids[3]) THEN bounds.xs[3] ELSE Value("int", Whole(1))
            IN RunFor(w, Store(w, bounds.m, key, bounds.xs[1], FALSE), path, e, bounds.xs[2], step, EmptyOf(e.ty))
       [] e.k = "while" -> RunWhile(w, m, path, e, EmptyOf(e.ty))
       [] e.k = "block" -> RunBlock(w, m, path, e)
       [] e.k = "initname" ->
            IF Cell(m, key).init THEN Res(m, Undefined)
            ELSE Res(Store(w, x.m, key, Coerce(x.x, e.kids[1].ty, w.p.names[e.x].ty), TRUE), Undefined)
       [] e.k = "assign" -> Res(RunAssign(w, m, path, e), Undefined)
       [] e.k = "emit" -> Res(EmitTo(x.m, e.x, Coerce(x.x, e.kids[1].ty, e.x.ty)), Undefined)
       [] e.k = "return" ->
            LET value == IF Present(e.kids[1]) THEN x ELSE Res(m, Undefined)
            IN IF Stopped(value.m) THEN value
               ELSE Res([value.m EXCEPT !.flow = "return", !.ret = <<value.x, e.kids[1].ty>>], Undefined)
       [] e.k \in {"break", "continue"} -> Res([m EXCEPT !.flow = e.k], Undefined)

-----------------------------------------------------------------------------
(* Binding: with the inputs known, and before the first bar, the bounds of   *)
(* the history are worked out, after the names that they need.               *)

RECURSIVE Needed(_, _, _, _)
Needed(p, root, e, seen) ==
  LET names == {place[2] : place \in {x \in Marks(e, {"read", "histread"}) : x[1] = "name"}} \ seen
      Of(part) == Needed(p, root, part, seen \cup names)
  IN names \cup UNION {Of(WritesTo(root, id)[1].kids[1]) : id \in {i \in names : WritesTo(root, i) # <<>>}}
           \cup UNION {Of(p.funcs[x.inst].body) : x \in Marks(e, {"call"})}

(* What is written before the first bar, of what the bounds need.            *)
Prelude(w, root, depths) ==
  LET needed == UNION {UNION {Needed(w.p, root, depths[place].bounds[i], {}) : i \in DOMAIN depths[place].bounds}
                       : place \in DOMAIN depths}
      IdOf(s) == IF s.k = "assign" THEN s.x.id ELSE s.x
  IN SelectSeq(FirstWrites(root), LAMBDA s : IdOf(s) \in needed /\ QualifierLE(w.p.names[IdOf(s)].q, "simple"))

Back(x) == IF IsHistoryOffset(x) THEN OffsetOf(x) ELSE 0
BoundFrom(w, ready, depths, cap) ==
  [place \in DOMAIN depths |->
    Max({depths[place].bars, IF depths[place].capped THEN cap ELSE 0}
        \cup {Back(Run(w, ready, <<>>, depths[place].bounds[i]).x) : i \in DOMAIN depths[place].bounds})]
Bound(w, root, depths, cap) == BoundFrom(w, RunStmts(w, FreshMemory, <<>>, Prelude(w, root, depths)), depths, cap)
=============================================================================
