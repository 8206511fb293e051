----------------------------- MODULE MCLanguage -----------------------------
(* Small scripts, each about one thing the compiler decides: what is known,  *)
(* what a block is worth, which calls share a function, how far back it      *)
(* reads, and how often it writes.                                           *)
EXTENDS Language, Collections

Var(n) == <<"name", n>>
Lit(n) == <<"lit", IntType, Whole(n)>>
Half(n) == <<"lit", FloatType, Num(2 * n)>>        (* n halves                 *)
Bin(op, x, y) == <<"bin", op, x, y>>
Hist(x, n) == <<"hist", x, n>>
Choice(c, x, y) == <<"cond", c, x, y>>
If(c, x, y) == <<"if", c, x, y>>
Do(stmts) == <<"block", stmts>>
Ex(x) == <<"expr", x>>
Decl(mode, type, n, x) == <<"decl", mode, FALSE, type, Var(n), x>>
Let(n, x) == Decl("", None, n, x)
Pair(m, n, x) == <<"decl", "", FALSE, None, <<"pattern", <<Var(m), Var(n)>>>>, x>>
Set(n, x) == <<"assign", ":=", Var(n), x>>
Add(n, x) == <<"assign", "+=", Var(n), x>>
Out1(x) == <<"emit", FALSE, "out", x>>
More(x) == <<"emit", TRUE, "all", x>>
Arg(x) == <<"arg", "", x>>
Named(n, x) == <<"arg", n, x>>
CallOf(f, args) == <<"call", Var(f), None, args>>
On(f, x) == CallOf(f, <<Arg(x)>>)
Param(n) == <<"param", "", None, n, None>>
Fun(f, params, body) == <<"func", FALSE, Var(f), params, body>>
ForTo(i, from, to, step, stmts) == <<"for", Var(i), from, to, step, Do(stmts)>>
Float == Var("float")
Close == Var("close")
BarIndex == Var("bar_index")
Up == Bin(">", Close, Lit(1))
Input == On("input.int", Lit(1))

-----------------------------------------------------------------------------
(* What is known, and when: a name, whether it is assigned again, and where. *)
Inits == {Lit(3), Bin("/", Lit(5), Lit(2)), Bin("/", Half(5), Lit(2)), Bin("%", <<"un", "-", Lit(5)>>, Lit(3)),
          Bin("/", Lit(1), Lit(0)), Input, Var("timeframe.multiplier"), BarIndex, Close, On("int", Half(5)),
          CallOf("math.max", <<Arg(Lit(1)), Arg(Half(3))>>), On("nz", Bin("/", Lit(1), Lit(0))),
          Choice(Bin("<", Lit(2), Lit(1)), Lit(1), Lit(2)), Choice(Var("true"), Half(3), Lit(2))}
Uses(n) == {Var(n), Bin("/", Var(n), Lit(2)), Bin("*", Var(n), Close), Choice(Bin("==", Var(n), Lit(3)), Lit(1), Half(1)),
            Bin("and", Up, Bin(">=", Var(n), Lit(2)))}
Again(n) == {<<>>, <<Set(n, Lit(1))>>, <<Ex(If(Up, Do(<<Set(n, Lit(2))>>), None))>>, <<Add(n, Lit(1))>>,
             <<Ex(ForTo("i", Lit(1), Lit(2), None, <<Add(n, Var("i"))>>))>>}
KnownValues ==
  {<<Decl(mode, None, "x", init)>> \o again \o <<Let("y", use), Out1(Var("y"))>> :
    mode \in {"", "var", "const"}, init \in Inits, again \in Again("x"), use \in Uses("x")}
Widened ==
  {<<Decl(mode, Float, "x", init)>> \o again \o <<Out1(Bin("/", Var("x"), Lit(2)))>> :
    mode \in {"", "var"}, init \in {Lit(3), Bin("/", Lit(5), Lit(2)), Var("na"), Bin("+", BarIndex, Lit(1))},
    again \in Again("x")}

(* What a block is worth.                                                    *)
Endings == {<<Ex(Half(3))>>, <<Let("z", Close), Ex(Var("z"))>>, <<Let("z", Bin("+", Close, Lit(1)))>>, <<Let("z", Lit(4))>>,
            <<Set("x", Bin("*", Close, Lit(2)))>>, <<Ex(Var("na"))>>, <<Set("x", Close), Ex(Bin("+", Var("x"), Close))>>}
Valued(b1, b2) ==
  {If(Up, Do(b1), Do(b2)), If(Up, Do(b1), None),
   <<"switch", None, <<<<"arm", Bin("<", Close, Lit(1)), Do(b1)>>, <<"arm", Up, Do(b2)>>, <<"arm", None, Lit(7)>>>>>>,
   <<"switch", BarIndex, <<<<"arm", Lit(1), Do(b1)>>, <<"arm", Var("na"), Lit(9)>>, <<"arm", None, Do(b2)>>>>>>,
   <<"switch", BarIndex, <<<<"arm", Lit(1), Do(b1)>>>>>>,
   ForTo("i", Lit(0), Lit(2), None, <<Ex(If(Bin("==", Var("i"), BarIndex), Do(<<<<"continue">>>>), None))>> \o b1),
   ForTo("i", Lit(2), Lit(0), Lit(-1), <<Ex(If(Bin("==", Var("i"), BarIndex), Do(<<<<"break">>>>), None))>> \o b2),
   <<"while", Bin("<", Var("t"), Lit(2)), Do(<<Add("t", Lit(1))>> \o b1)>>}
Blocks ==
  {<<Let("x", Half(1)), Let("t", Lit(0)), Let("y", v), Out1(Choice(On("na", Var("y")), Lit(-1), Var("y"))), Set("x", Lit(0))>> :
    v \in UNION {Valued(b1, b2) : b1 \in Endings, b2 \in {<<Ex(Half(3))>>, <<Let("w", Bin("*", Close, Lit(3)))>>}}}

(* Where na has no type of its own.                                          *)
Na == Var("na")
Nas(x) ==
  {Choice(Up, Na, x), Choice(Up, x, Na), Bin("+", Na, x), Bin("-", x, <<"un", "-", Na>>), Choice(On("na", Na), x, x),
   If(Up, Do(<<Ex(Na)>>), Do(<<Ex(x)>>)), If(Up, Do(<<Ex(x)>>), If(Bin("<", Close, Lit(1)), Do(<<Ex(Na)>>), None)),
   <<"switch", x, <<<<"arm", Na, Do(<<Ex(Lit(1))>>)>>, <<"arm", None, Na>>, <<"arm", x, x>>>>>>,
   <<"switch", Na, <<<<"arm", x, x>>, <<"arm", None, x>>>>>>,
   On("nz", Na), CallOf("nz", <<Arg(x), Arg(Na)>>), CallOf("nz", <<Arg(Na), Arg(x)>>), CallOf("math.max", <<Arg(x), Arg(Na)>>), Hist(Close, Na), On("int", Na),
   ForTo("i", Lit(0), Na, None, <<Ex(x)>>), ForTo("i", Na, Lit(0), None, <<Ex(Na)>>), If(Up, Do(<<Ex(Na)>>), Do(<<Ex(Na)>>)),
   ForTo("i", Lit(0), Lit(1), None, <<Ex(Na)>>), On("f", Na), On("f", x), On("g", x), Choice(Up, Choice(Up, Na, Na), x), Choice(Up, Na, Na)}
NoTypes ==
  {<<Fun("f", <<<<"param", "", type, "k", None>>>>, <<"paren", Choice(Up, Na, Var("k"))>>),
     Fun("g", <<Param("k")>>, Do(<<Ex(If(Bin(">", Var("k"), Lit(1)), Do(<<<<"return", Na>>>>), None)), Ex(Var("k"))>>))>> \o s
     \o <<Out1(Var("y"))>> : type \in {Float, None},
     s \in UNION {{<<Let("y", v)>>, <<Decl("", Float, "y", v)>>, <<Decl("var", Float, "y", v)>>, <<Ex(v), Let("y", Lit(1))>>, <<Let("y", x), Set("y", v)>>} :
                     v \in UNION {Nas(x) : x \in {Lit(1), Close, BarIndex}}, x \in {Half(1), Lit(1)}}}

(* Which calls share a function, and which a frame.                          *)
Bodies == {Bin("/", Var("k"), Lit(2)), Hist(Var("k"), Lit(1)), Hist(Close, Var("k")),
           Do(<<Decl("var", None, "n", Lit(0)), Add("n", Var("k")), Ex(Var("n"))>>),
           Do(<<Let("m", Bin("+", Var("k"), Lit(1))), Ex(Hist(Var("m"), Lit(2)))>>),
           Do(<<Ex(If(Bin(">", Var("k"), Lit(1)), Do(<<<<"return", Half(1)>>>>), None)), Ex(Var("k"))>>),
           Choice(Bin("==", Var("k"), Lit(1)), Close, Half(9))}
Passed == {Lit(1), Lit(2), Input, BarIndex, Close, Bin("/", Close, Lit(2))}
Functions ==
  {<<Fun("f", <<Param("k")>>, body), Let("x", Bin("+", On("f", a), On("f", b))), Out1(Var("x"))>> :
    body \in Bodies, a \in Passed, b \in Passed}
  \cup {<<Fun("f", <<Param("k")>>, body), Let("x", Choice(Up, On("f", a), Half(0))), Out1(Var("x"))>> :
    body \in Bodies, a \in Passed}
Ordered ==
  {<<Fun("g", <<Param("v")>>, Do(<<More(Bin("*", Var("v"), Half(2))), Ex(Var("v"))>>)),
     Fun("f", <<Param("p"), Param("q"), <<"param", "", None, "r", default>>>>,
         Bin("-", Bin("*", Var("p"), Lit(3)), Bin("+", Var("q"), Var("r")))),
     Out1(CallOf("f", args))>> :
    default \in {Lit(5), On("g", Lit(5)), On("g", Close)},
    args \in {<<Arg(On("g", Lit(1))), Arg(On("g", Close))>>, <<Named("q", On("g", Lit(1))), Named("p", On("g", Close))>>,
              <<Arg(On("g", Lit(1))), Named("r", On("g", Lit(2))), Named("q", On("g", Close))>>}}
Tuples ==
  {<<Fun("f", <<Param("k")>>, <<"tuple", <<Var("k"), Bin("/", Close, Lit(2))>>>>), Pair("a", "b", On("f", v))>> \o again
     \o <<Out1(Bin("+", Var("a"), Hist(Var("b"), Lit(1))))>> : v \in Passed, again \in {<<>>, <<Add("a", Lit(1))>>}}

(* How far back.                                                             *)
Offsets == {Lit(0), Lit(2), Lit(-1), Input, Var("n"), Bin("+", Var("n"), Lit(1)), Bin("-", Lit(0), Var("n")), BarIndex,
            Choice(Bin(">", Var("n"), Lit(1)), Lit(2), Lit(1)), CallOf("math.max", <<Arg(Var("n")), Arg(Lit(1))>>),
            Var("timeframe.multiplier"), Var("na"), On("g", Var("n")), On("g", Lit(1))}
Pasts ==
  {<<Fun("g", <<Param("k")>>, Do(<<Let("j", Bin("+", Var("k"), Lit(1))), Ex(Var("j"))>>)),
     Let("n", Input), Let("x", Bin("*", Close, Lit(2))), Out1(Hist(of, offset))>> :
    of \in {Close, Var("x"), BarIndex}, offset \in Offsets}
Sum(from, to, step, offset) ==
  <<Let("s", Half(0)), Ex(ForTo("i", from, to, step, <<Add("s", On("nz", Hist(Close, offset)))>>)), Ex(Var("s"))>>
Sums ==
  {<<Let("n", Input), Let("x", Do1)>> \o <<Out1(Var("x"))>> : Do1 \in
    {If(Up, Do(Sum(bounds[1], bounds[2], bounds[3], offset)), Do(<<Ex(Half(0))>>)) :
      bounds \in {<<Lit(0), Var("n"), None>>, <<Var("n"), Lit(0), Lit(-1)>>, <<Lit(0), Var("n"), Var("n")>>,
                  <<Lit(2), Lit(0), Bin("-", Lit(0), Var("n"))>>, <<Lit(0), Lit(2), None>>, <<Lit(0), BarIndex, None>>},
      offset \in {Var("i"), Bin("+", Var("i"), Lit(1))}}}
Reach ==
  {<<Fun("f", <<Param("k")>>, body), Fun("h", <<Param("j")>>, On("f", Bin("+", Var("j"), Lit(1)))),
     Let("n", Input), Out1(On(f, a))>> :
    f \in {"f", "h"}, a \in {Lit(1), Var("n"), Input, BarIndex},
    body \in {Hist(Close, Var("k")), Do(Sum(Lit(0), Var("k"), None, Var("i"))), Do(Sum(Var("k"), Lit(0), Lit(-1), Var("i"))),
              Do(<<Let("m", Bin("*", Var("k"), Lit(1))), Ex(Hist(Close, Var("m")))>>)}}

(* How often.                                                                *)
Writes ==
  {<<Ex(ForTo("i", Lit(1), to, step, <<Out1(Var("i"))>>))>> : to \in {Lit(1), Lit(2), Lit(3), Input}, step \in {None, Lit(2), Lit(3)}}
  \cup {<<Fun("f", <<Param("k")>>, Do(<<emit, Ex(Var("k"))>>)), Ex(On("f", Lit(1))), Ex(If(Up, Do(<<Ex(On("f", Close))>>), None))>> :
         emit \in {Out1(Var("k")), More(Var("k"))}}
  \cup {<<Fun("f", <<Param("k")>>, Do(<<Out1(Var("k")), Ex(Var("k"))>>)),
          Ex(ForTo("i", Lit(0), to, None, <<Ex(On("f", Var("i")))>>))>> : to \in {Lit(0), Lit(1)}}
  \cup {<<Ex(If(Up, Do(<<Out1(Lit(1))>>), Do(<<emit>>)))>> : emit \in {Out1(Lit(2)), More(Lit(2))}}

MCScripts ==
  KnownValues \cup Widened \cup Blocks \cup NoTypes \cup Functions \cup Ordered \cup Tuples \cup Pasts \cup Sums \cup Reach
    \cup Writes

(* A parameter that is given another value before it says how far back to go.*)
Reassigned ==
  {<<Fun("f", <<Param("k")>>, Do(<<Set("k", Bin("+", Var("k"), Lit(1))), Ex(Hist(Close, Var("k")))>>)), Out1(On("f", a))>> :
    a \in {Lit(0), Input}}
(* Blocks that close with a name that is wider than what it is given, and a  *)
(* default that is wider than its parameter.                                 *)
Widening ==
  {<<Fun("f", <<<<"param", "", Var("int"), "k", Half(3)>>>>, Bin("+", Var("k"), BarIndex)), Out1(CallOf("f", <<>>))>>} \cup
  {<<Let("x", Half(1)), Let("y", If(Up, Do(<<last>>), Do(<<Ex(Lit(1))>>))), Out1(Var("y"))>> :
    last \in {Set("x", BarIndex), Decl("", Float, "z", Bin("+", BarIndex, Lit(1)))}}
(* Blocks that close with a name for a place.                                *)
Aliased ==
  {<<Let("y", If(Up, Do(<<Let("z", of)>>), Do(<<Ex(of)>>))), Out1(Choice(On("na", Var("y")), Lit(-1), Var("y")))>> :
    of \in {Close, BarIndex}}
MCCloses == {Num(2), Num(8)}          (* a half and two                        *)
MCInputs == {Whole(1), Whole(2)}

MCCompiled == LET compiler == [source \in Scripts |-> Compiler(source)] IN compiler

-----------------------------------------------------------------------------
(***************************************************************************)
(* Collections: what statements do to collections and to struct fields.    *)
(* A behaviour runs a script or executes statements: the other part stays  *)
(* as it begins.                                                           *)
(***************************************************************************)
CONSTANT Runs

VARIABLE part

Of(n) == <<"name", n>>
FieldOf(s) == <<"field", s>>
Giving(x) == <<"value", x>>
Popping(place) == <<"pop", place>>
At == {-1, 0, 1, Nil}

(* Two names for arrays, one pushed to and popped from within the other's.  *)
Arrays ==
  LET a == Of("a")
      b == Of("b")
  IN {<<"make", a, "array.from", <<1, 2>>>>, <<"assign", b, a>>, <<"project", b, "array.copy", a, <<>>>>,
      <<"foreach", a, a>>, <<"foreach", b, a>>, <<"change", b, "array.push", <<>>, Giving(2)>>,
      <<"change", b, "array.set", <<0>>, Giving(2)>>}
     \cup {<<"make", a, "array.new", <<n, 1>>>> : n \in {-1, 1, 4}}
     \cup {<<"ask", op, a, <<>>>> : op \in {"array.size", "array.first", "array.last"}}
     \cup {<<"ask", "array.get", a, <<i>>>> : i \in At}
     \cup {<<"change", a, "array.push", <<>>, x>> : x \in {Giving(1), Popping(a), Popping(b)}}
     \cup {<<"change", a, "array.set", <<i>>, x>> : i \in At, x \in {Giving(1), Popping(a)}}
     \cup {<<"plain", a, op, <<>>>> : op \in {"array.pop", "array.clear"}}

(* Two maps, and an array for what is taken from them.                      *)
Maps ==
  LET m == Of("m")
      n == Of("n")
      b == Of("b")
      keys == {0, 1, NegativeZero, Nil}
  IN {<<"make", m, "map.new", <<>>>>, <<"assign", n, m>>, <<"project", n, "map.copy", m, <<>>>>,
      <<"foreach", m, m>>, <<"foreach", n, m>>, <<"plain", m, "map.clear", <<>>>>, <<"ask", "map.size", m, <<>>>>,
      <<"change", b, "array.push", <<>>, Giving(1)>>, <<"change", n, "map.put", <<2>>, Popping(b)>>}
     \cup {<<"project", b, op, m, <<>>>> : op \in {"map.keys", "map.values"}}
     \cup {<<"change", m, "map.put", <<k>>, Giving(x)>> : k \in keys \cup {2}, x \in {1, 2}}
     \cup {<<"plain", m, "map.remove", <<k>>>> : k \in keys}
     \cup {<<"ask", op, m, <<k>>>> : op \in {"map.get", "map.contains"}, k \in keys}

(* Two matrices, and an array for their rows and columns.                   *)
Matrices ==
  LET g == Of("g")
      h == Of("h")
      b == Of("b")
  IN {<<"assign", h, g>>, <<"plain", g, "matrix.fill", <<2>>>>, <<"project", h, "matrix.copy", g, <<>>>>,
      <<"ask", "matrix.elements_count", g, <<>>>>, <<"change", b, "array.push", <<>>, Giving(1)>>}
     \cup {<<"make", g, "matrix.new", <<r, c, 1>>>> : r \in {0, 1, 2, Nil}, c \in {-1, 1, 2}}
     \cup {<<"change", g, "matrix.set", <<r, c>>, Giving(2)>> : r \in At, c \in At}
     \cup {<<"ask", "matrix.get", g, <<r, c>>>> : r \in At, c \in At}
     \cup {<<"project", b, op, g, <<i>>>> : op \in {"matrix.row", "matrix.column"}, i \in At}

(* Two owners of structs, which may be one struct, and a name.              *)
Fields ==
  LET a == Of("a")
      s == FieldOf("s")
      t == FieldOf("t")
  IN {<<"make", a, "array.new", <<1, 1>>>>, <<"make", s, "array.from", <<2>>>>, <<"assign", a, s>>, <<"assign", s, a>>,
      <<"assign", t, s>>, <<"rebind", "s", "t">>, <<"rebind", "t", "s">>, <<"change", a, "array.push", <<>>, Giving(2)>>,
      <<"plain", t, "array.pop", <<>>>>, <<"ask", "array.size", s, <<>>>>, <<"ask", "array.last", t, <<>>>>,
      <<"foreach", t, s>>}
     \cup {<<"new", owner, a>> : owner \in {"s", "t"}}
     \cup {<<"change", s, "array.push", <<>>, x>> :
             x \in {Giving(1), Popping(t), Popping(s), Popping(a), <<"rebind", "s", "t", 2>>, <<"rebind", "t", "s", 2>>}}

MCPrograms == {Arrays, Maps, Matrices, Fields}
MCNames == {"a", "b", "m", "n", "g", "h"}
MCElements == {-1, 0, 1, 2, 4, NegativeZero, Nil}

ASSUME CollectionsAssumption

-----------------------------------------------------------------------------

MCInit ==
  /\ part \in Runs
  /\ Init /\ (part # "scripts" => script = CHOOSE s \in Scripts : TRUE)
  /\ CollectionsInit /\ (part # "collections" => scope = Arrays)

MCNext ==
  /\ UNCHANGED part
  /\ \/ part = "scripts" /\ Next /\ UNCHANGED collectionVars
     \/ part = "collections" /\ CollectionsNext /\ UNCHANGED vars

MCSpec == MCInit /\ [][MCNext]_<<part, vars, collectionVars>>
=============================================================================
