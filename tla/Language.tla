------------------------------ MODULE Language ------------------------------
(***************************************************************************)
(* A script from its text to its rows: checked, noded, bound to inputs and *)
(* run bar by bar, beside what the checked script means.                   *)
(*                                                                         *)
(* The meaning is read off the checked tree: no constant is put in the     *)
(* place of what it stands for, a name holds its declared type whatever    *)
(* was written, every call that is written has a frame of its own, and     *)
(* nothing of the past is forgotten.                                       *)
(***************************************************************************)
EXTENDS Machine

CONSTANTS Scripts,      (* the scripts, as the parser gives them              *)
          Closes,       (* what a bar can close at                            *)
          InputValues,  (* what an input can be set to                        *)
          Bars,         (* how many bars there are                            *)
          Cap,          (* MAX_BARS_BACK, where nothing else is known         *)
          Compiled      (* what the compiler makes of each of the scripts     *)

-----------------------------------------------------------------------------
(* The meaning of a checked tree.  "pos" says which node it is.              *)

As(x, type) ==
  CASE Missing(x) /\ type \in {IntType, FloatType} -> EmptyOf(type)
    [] ~Missing(x) /\ x.kind = "int" /\ type = FloatType -> Value("float", x.v)
    [] OTHER -> x

RECURSIVE Mean(_, _, _, _, _), MeanLoop(_, _, _, _, _, _, _)

MeanKid(w, m, path, pos, n, i) ==
  LET r == Mean(w, m, path, Append(pos, i), n.kids[i]) IN Res(r.m, As(r.x, n.kids[i].ty))
MeanKids(w, m, path, pos, n, order) ==
  FoldLeft(LAMBDA r, i : LET one == MeanKid(w, r.m, path, pos, n, i) IN [m |-> one.m, xs |-> (i :> one.x) @@ r.xs],
           [m |-> m, xs |-> <<>>], order)

(* A block is worth its last statement: what it computes, or the name that   *)
(* it declares or assigns.                                                   *)
MeanBlock(w, m, path, pos, n) ==
  LET all == FoldLeft(LAMBDA r, i : MeanKid(w, r.m, path, pos, n, i), Res(m, Undefined), [i \in DOMAIN n.kids |-> i])
      last == Last(n.kids)
  IN CASE n.kids = <<>> \/ n.ty = VoidType -> Res(all.m, Undefined)
       [] n.kids # <<>> /\ n.ty # VoidType /\ last.k \in {"decl", "assign"} ->
            Res(all.m, Current(w, all.m, KeyOf(w, path, last.x.id)))
       [] OTHER -> all
MeanBranch(w, m, path, pos, n, i, otherwise) ==
  LET r == MeanKid(w, m, path, pos, n, i)
  IN Res(r.m, IF n.ty = VoidType \/ n.kids[i].ty = VoidType \/ Stopped(r.m) THEN otherwise ELSE As(r.x, n.ty))

MeanCall(w, m, path, pos, n) ==
  LET inst == w.p.insts[n.x.inst]
      inside == Append(path, pos)
      given == [n EXCEPT !.kids = [i \in DOMAIN n.kids |-> IF Present(n.kids[i]) THEN n.kids[i] ELSE inst.defaults[i]]]
      args == MeanKids(w, m, path, pos, given, n.x.order)
      entered == FoldLeft(LAMBDA mm, i : Store(w, mm, <<inside, inst.params[i]>>,
                                               As(args.xs[i], w.p.names[inst.params[i]].ty), FALSE),
                          [args.m EXCEPT !.frames = @ \cup {<<inside, n.x.inst>>}], [i \in DOMAIN n.kids |-> i])
      body == Mean(w, entered, inside, <<>>, inst.body)
  IN IF Stopped(args.m) THEN Res(args.m, Undefined)
     ELSE Res([body.m EXCEPT !.flow = "go", !.ret = Undefined], As(IF body.m.flow = "return" THEN body.m.ret ELSE body.x, n.ty))

(* Each time round: while the index is in its range, or the condition holds. *)
MeanLoop(w, m, path, pos, n, range, last) ==
  LET key == KeyOf(w, path, n.x)
      test == IF n.k = "while" THEN MeanKid(w, m, path, pos, n, 1)
              ELSE Res(m, Value("bool", Bool(InRange(Current(w, m, key), range.to, range.step))))
      body == MeanBranch(w, test.m, path, pos, n, Len(n.kids), last)
      after == AfterBody(body.m)
      next == IF n.k = "while" THEN after ELSE Store(w, after, key, NextIndex(Current(w, after, key), range.step), FALSE)
  IN IF Stopped(test.m) \/ ~True(test.x) THEN Res(test.m, last)
     ELSE IF body.m.flow = "break" \/ Stopped(after) THEN Res(after, body.x)
     ELSE MeanLoop(w, next, path, pos, n, range, body.x)

MeanFor(w, m, path, pos, n) ==
  LET stepped == Present(n.kids[3])
      type == w.p.names[n.x].ty
      bounds == MeanKids(w, m, path, pos, n, IF stepped THEN <<1, 2, 3>> ELSE <<1, 2>>)
      range == [to |-> bounds.xs[2], step |-> IF stepped THEN bounds.xs[3] ELSE Value("int", Whole(1))]
  IN MeanLoop(w, Store(w, bounds.m, KeyOf(w, path, n.x), As(bounds.xs[1], type), FALSE), path, pos, n, range, EmptyOf(n.ty))

RECURSIVE MeanArms(_, _, _, _, _, _, _)
MeanArms(w, m, path, pos, n, i, subject) ==
  LET arm == n.kids[i]
      at == Append(pos, i)
      pattern == MeanKid(w, m, path, at, arm, 1)
      taken == IF Present(n.kids[1]) THEN True(RunBinary("==", subject, pattern.x)) ELSE True(pattern.x)
      Arm(before) == LET r == MeanBranch(w, before, path, at, [arm EXCEPT !.ty = n.ty], 2, EmptyOf(n.ty)) IN r
  IN IF i > Len(n.kids) THEN Res(m, EmptyOf(n.ty))
     ELSE IF ~Present(arm.kids[1]) THEN Arm(m)
     ELSE IF taken THEN Arm(pattern.m) ELSE MeanArms(w, pattern.m, path, pos, n, i + 1, subject)

MeanDecl(w, m, path, pos, n) ==
  LET key == KeyOf(w, path, n.x.id)
      persistent == n.x.mode \in {"var", "varip"}
      init == MeanKid(w, m, path, pos, n, 1)
  IN IF persistent /\ Cell(m, key).init THEN m
     ELSE Store(w, init.m, key, As(init.x, w.p.names[n.x.id].ty), persistent)
MeanTupleDecl(w, m, path, pos, n) ==
  LET init == MeanKid(w, m, path, pos, n, 1)
      Part(i) == LET type == w.p.names[n.x.ids[i]].ty IN IF Missing(init.x) THEN EmptyOf(type) ELSE As(init.x.v[2][i], type)
  IN FoldLeft(LAMBDA mm, i : Store(w, mm, KeyOf(w, path, n.x.ids[i]), Part(i), FALSE), init.m, [i \in DOMAIN n.x.ids |-> i])
MeanAssign(w, m, path, pos, n) ==
  LET key == KeyOf(w, path, n.x.id)
      value == MeanKid(w, m, path, pos, n, 1)
      x == IF n.x.op = ":=" THEN value.x ELSE RunBinary("+", Current(w, m, key), value.x)
  IN Store(w, value.m, key, As(x, w.p.names[n.x.id].ty), FALSE)

Mean(w, m, path, pos, n) ==
  LET Kid(i) == MeanKid(w, m, path, pos, n, i)
      all == MeanKids(w, m, path, pos, n, [i \in DOMAIN n.kids |-> i])
      second == MeanKid(w, Kid(1).m, path, pos, n, 2)
      Done(mm) == Res(mm, Undefined)
  IN CASE Stopped(m) -> Done(m)
       [] ~Stopped(m) /\ n.k = "const" -> Res(m, Constant(n.v, n.ty))
       [] n.k = "var" -> Res(m, Current(w, m, KeyOf(w, path, n.x)))
       [] n.k = "builtin" -> Res(m, IF Builtins[n.x].place = "none" THEN Constant(Builtins[n.x].tv.v, n.ty) ELSE w.rows[n.x][1])
       [] n.k = "un" -> Res(Kid(1).m, CASE n.x = "-" -> Negated(Kid(1).x) [] n.x = "not" -> Not(Kid(1).x) [] OTHER -> Kid(1).x)
       [] n.k = "bin" ->
            IF n.x \in {"and", "or"} /\ True(Kid(1).x) = (n.x = "or") THEN Kid(1)
            ELSE IF n.x \in {"and", "or"} THEN second
            ELSE Res(second.m, RunBinary(n.x, Kid(1).x, second.x))
       [] n.k \in {"cond", "if"} ->
            IF True(Kid(1).x) THEN MeanBranch(w, Kid(1).m, path, pos, n, 2, EmptyOf(n.ty))
            ELSE IF Present(n.kids[3]) THEN MeanBranch(w, Kid(1).m, path, pos, n, 3, EmptyOf(n.ty))
            ELSE Res(Kid(1).m, EmptyOf(n.ty))
       [] n.k = "hist" ->
            IF n.kids[1].k = "var" THEN Res(second.m, ReadCell(w, second.m, KeyOf(w, path, n.kids[1].x), second.x))
            ELSE Res(second.m, ReadAt(w, second.m, path, <<"series", n.kids[1].x>>, n.ty, second.x))
       [] n.k = "tuple" -> Res(all.m, Value("tuple", <<"elems", [i \in DOMAIN n.kids |-> all.xs[i]]>>))
       [] n.k = "call" -> MeanCall(w, m, path, pos, n)
       [] n.k = "native" ->
            IF n.x.name = "input.int" THEN Res(m, Value("int", w.inputs[n.kids[1].v]))
            ELSE Res(all.m, RunNative(n.x.name, n.ty, [i \in DOMAIN n.kids |-> As(all.xs[i], n.x.types[i])]))
       [] n.k = "for" -> MeanFor(w, m, path, pos, n)
       [] n.k = "while" -> MeanLoop(w, m, path, pos, n, <<>>, EmptyOf(n.ty))
       [] n.k = "switch" ->
            LET subject == IF Present(n.kids[1]) THEN Kid(1) ELSE Done(m) IN MeanArms(w, subject.m, path, pos, n, 2, subject.x)
       [] n.k = "block" -> MeanBlock(w, m, path, pos, n)
       [] n.k = "expr" -> Kid(1)
       [] n.k = "decl" -> Done(MeanDecl(w, m, path, pos, n))
       [] n.k = "decltuple" -> Done(MeanTupleDecl(w, m, path, pos, n))
       [] n.k = "assign" -> Done(MeanAssign(w, m, path, pos, n))
       [] n.k = "emit" -> Done(EmitTo(Kid(1).m, n.x, As(Kid(1).x, n.x.ty)))
       [] n.k = "return" ->
            LET value == IF Present(n.kids[1]) THEN Kid(1) ELSE Done(m)
            IN Done(IF Stopped(value.m) THEN value.m ELSE [value.m EXCEPT !.flow = "return", !.ret = value.x])
       [] n.k \in {"break", "continue"} -> Done([m EXCEPT !.flow = n.k])
       [] n.k = "func" -> Done(m)

-----------------------------------------------------------------------------
(* The life of a script.                                                     *)

(* The names that stand in the body of each function, and its parameters.    *)
MeanNames(c) ==
  [i \in DOMAIN c.insts |->
    LET body == c.insts[i].body
    IN Range(c.insts[i].params) \cup {x.id : x \in Marks(body, {"decl"})} \cup Marks(body, {"for"})
         \cup UNION {Range(x.ids) : x \in Marks(body, {"decltuple"})}]

(* A bound is worked out before the first bar; not every expression can be.  *)
Bindable(p, root, depths) ==
  \A place \in DOMAIN depths : \A i \in DOMAIN depths[place].bounds : Supported(p, root, depths[place].bounds[i], {})
InputsOf(c, tree) ==
  LET In(part) == {n.kids[1].v : n \in {k \in Range(OfKind(part, {"native"})) : IsInput(k)}}
  IN In(tree) \cup UNION {In(c.insts[i].body) : i \in DOMAIN c.insts}

VARIABLES phase,      (* "source", then "refused" or "compiled", then "bound" *)
          script,     (* the source                                           *)
          compiled,   (* what the compiler made of it                         *)
          world,      (* the program, bound to its inputs, and the rows so far*)
          run,        (* the memory of the run                                *)
          meaning     (* the memory of the meaning                            *)
vars == <<phase, script, compiled, world, run, meaning>>

Forever == 1000
Multiplier == Value("int", Whole(2))
NoRows == ("close" :> <<>>) @@ ("bar_index" :> <<>>) @@ ("timeframe.multiplier" :> <<Multiplier>>)
World(made, inputs) ==
  [p |-> made.p, names |-> FrameNames(made.p), inputs |-> inputs, rows |-> NoRows, keep |-> <<>>, least |-> 0,
   capped |-> {place \in DOMAIN made.depths : made.depths[place].capped}]
MeaningWorld(made, w) ==
  [p |-> [names |-> made.c.objs, insts |-> made.c.insts], names |-> MeanNames(made.c),
   inputs |-> w.inputs, rows |-> w.rows, keep |-> <<>>, least |-> Forever]

Init ==
  /\ phase = "source"
  /\ script \in Scripts
  /\ compiled = <<>>
  /\ world = <<>>
  /\ run = FreshMemory
  /\ meaning = FreshMemory

(* The compiler is a function of the source: it gives one program, or none   *)
(* where there are diagnostics.                                              *)
Program(checked, noded, depths) ==
  [c |-> checked.c, tree |-> checked.n, p |-> noded.p, root |-> noded.e, depths |-> depths,
   lowers |-> Lowerable(noded.p, noded.e)]
Compiler(source) ==
  UNION {IF ~checked.c.ok THEN {}
         ELSE UNION {UNION {IF ~noded.p.ok \/ ~Bindable(noded.p, noded.e, depths) THEN {}
                            ELSE {Program(checked, noded, depths)} : depths \in {DepthsOf(noded.p, noded.e)}} :
                       noded \in {NodeFile(checked.c, checked.n)}} :
           checked \in {CheckFile(source)}}
ASSUME LanguageAssumption == Compiled = [source \in Scripts |-> Compiler(source)]

(* Diagnostics end it; or there is a program.                                *)
Compile ==
  /\ phase = "source"
  /\ IF Compiled[script] = {} THEN phase' = "refused" /\ UNCHANGED compiled
     ELSE phase' = "compiled" /\ compiled' \in Compiled[script]
  /\ UNCHANGED <<script, world, run, meaning>>

(* Inputs are set once; then it is known how much is to be retained.         *)
Bind ==
  /\ phase = "compiled"
  /\ phase' = "bound"
  /\ \E inputs \in [InputsOf(compiled.c, compiled.tree) -> InputValues] :
       \E set \in {World(compiled, inputs)} :
         world' = [set EXCEPT !.keep = Bound(set, compiled.root, compiled.depths, Cap)]
  /\ UNCHANGED <<script, compiled, run, meaning>>

(* A bar: its row comes in, the script runs once, and what it did is kept.   *)
WithRow(w, close) ==
  [w EXCEPT !.rows["close"] = <<close>> \o @,
            !.rows["bar_index"] = <<Value("int", Whole(Len(w.rows["close"])))>> \o @,
            !.rows["timeframe.multiplier"] = IF w.rows["close"] = <<>> THEN @ ELSE <<Multiplier>> \o @]
Bar ==
  /\ phase = "bound"
  /\ Len(world.rows["close"]) < Bars
  /\ run.fault = "none"
  /\ \E close \in Closes : \E w \in {WithRow(world, Value("float", close))} : \E v \in {MeaningWorld(compiled, w)} :
       /\ world' = w
       /\ run' = Commit(w, RunBlock(w, [run EXCEPT !.out = <<>>], <<>>, compiled.root).m)
       /\ meaning' = Commit(v, Mean(v, [meaning EXCEPT !.out = <<>>], <<>>, <<>>, compiled.tree).m)
  /\ UNCHANGED <<phase, script, compiled>>

Next == Compile \/ Bind \/ Bar
Spec == Init /\ [][Next]_vars

-----------------------------------------------------------------------------
(* Properties.                                                               *)

(* The rows that are written are the ones the script means, with constants   *)
(* folded, names aliased, functions shared by their signatures, and the past *)
(* cut to what the compiler worked out (noder.ts, lower.ts).                 *)
RowsAsMeant == run.out = meaning.out

(* What is checked can be lowered: a diagnostic there is a defect of the     *)
(* compiler (codegen/check.ts).                                              *)
CheckedIsLowered == phase = "compiled" => compiled.lowers

(* A run the compiler let through never stops: no name is given a value of   *)
(* another type than its own (VALUE_LAYOUT_MISMATCH, state-update.ts), and no *)
(* plain output is written twice in a bar, which the checker promises         *)
(* (checkEmissions) and the run insists on (emit).                           *)
RunsThrough == run.fault = "none"

(* No read reaches past what is retained, unless it was capped for want of   *)
(* anything better (noder/depth.ts).                                         *)
DepthSuffices == ~run.short

(* A name that is said to be known before the bars has one value on all of   *)
(* them, and one that is said to be constant has the value the checker gave  *)
(* it (declInfo, checkNameAssign).                                           *)
KnownWhenSaid ==
  \A key \in DOMAIN meaning.cells :
    LET name == compiled.c.objs[key[2]]
        past == {x \in Range(meaning.cells[key].hist) : ~Missing(x)}
    IN /\ QualifierLE(name.q, "simple") => Cardinality(past) <= 1
       /\ Known(name.v) /\ name.v # NA => \A x \in past : x.v = name.v
=============================================================================
