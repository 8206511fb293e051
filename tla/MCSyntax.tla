------------------------------ MODULE MCSyntax ------------------------------
(***************************************************************************)
(* Programs of one to three statements over two names: every statement of  *)
(* the language, and every pair of binary operators in both groupings.     *)
(***************************************************************************)
EXTENDS Syntax

a == <<"name", "a">>
b == <<"name", "b">>
f == <<"name", "f">>
one == <<"lit", "1">>

(* Parentheses only where the binding of the operators calls for them.       *)
Level(x) == CASE x[1] = "cond" -> 0 [] x[1] = "bin" -> Precedence[x[2]] [] x[1] = "un" -> 7 [] OTHER -> 8
Paren(x) == <<"paren", x>>
AtLeast(level, x) == IF Level(x) < level THEN Paren(x) ELSE x
Bin(o, x, y) == <<"bin", o, AtLeast(Precedence[o], x), AtLeast(Precedence[o] + 1, y)>>
Un(o, x) == <<"un", o, AtLeast(7, x)>>
Hist(x, y) == <<"hist", AtLeast(8, x), y>>
Sel(x, n) == <<"sel", AtLeast(8, x), n>>
Cond(c, x, y) == <<"cond", AtLeast(1, c), x, y>>
Arg(x) == <<"arg", "", x>>
CallOf(fun, args) == <<"call", AtLeast(8, fun), None, args>>
Generic(fun, types, args) == <<"call", fun, <<"args", types>>, args>>

BinaryOps == {"or", "and", "==", "<", "+", "-", "*"}
Chains == {Bin(p, Bin(o, a, b), one) : o \in BinaryOps, p \in BinaryOps}
          \cup {Bin(p, a, Bin(o, b, one)) : o \in BinaryOps, p \in BinaryOps}
Others ==
  {Un("-", Bin("*", a, b)), Bin("*", Un("-", a), b), Un("not", Bin("and", a, b)), Bin("and", Un("not", a), b),
   Un("-", Hist(a, one)), Hist(Un("-", a), one), Hist(CallOf(f, <<Arg(a)>>), Bin("+", a, one)),
   Cond(a, b, Cond(b, one, a)), Cond(Cond(a, b, one), a, b), Cond(a, Cond(b, one, a), b), Bin("+", Cond(a, b, one), one),
   Sel(Sel(a, "b"), "a"), CallOf(Sel(a, "f"), <<Arg(one), <<"arg", "b", Cond(a, b, one)>>>>), CallOf(f, <<>>),
   Generic(Sel(a, "f"), <<a>>, <<Arg(b)>>), Generic(f, <<<<"generic", a, <<b, <<"array", a>>>>>>>>, <<>>),
   Bin("<", a, Paren(Bin(">", b, one))), Bin(">", Bin("<", a, b), one), Bin("<", a, CallOf(f, <<Arg(b)>>)),
   <<"tuple", <<a, Bin("+", a, b)>>>>, <<"this">>, CallOf(Paren(a), <<Arg(b)>>), Hist(Generic(f, <<a>>, <<>>), one)}

Decl(mode, type, x) == <<"decl", mode, FALSE, type, a, x>>
Expression(x) == <<"expr", x>>
Block1(s) == <<"block", <<s>>>>
Block2(s, t) == <<"block", <<s, t>>>>
Set(x) == <<"assign", ":=", a, x>>
If(x, then, else) == <<"if", x, then, else>>

Simple ==
  {Decl("", None, one), Decl("var", None, b), Decl("const", a, one), Decl("", <<"generic", b, <<a>>>>, one),
   Decl("varip", <<"array", <<"sel", a, "b">>>>, b), <<"decl", "", TRUE, None, a, one>>,
   <<"decl", "", FALSE, None, <<"pattern", <<a, b>>>>, CallOf(f, <<>>)>>,
   <<"decl", "var", FALSE, None, <<"pattern", <<b>>>>, f>>,
   Set(Bin("+", a, one)), <<"assign", "+=", Hist(a, one), b>>, Expression(CallOf(f, <<Arg(a), <<"arg", "b", one>>>>)),
   Expression(<<"tuple", <<a, b>>>>), Expression(Generic(f, <<a>>, <<Arg(one)>>)), Expression(Bin("<", a, b)),
   <<"return", None>>, <<"return", a>>, <<"break">>, <<"emit", FALSE, a, Bin("+", a, b)>>, <<"emit", TRUE, a, b>>,
   <<"import", <<"a", "/", "b", "/", "1">>, None>>, <<"import", <<".", "/", "a">>, b>>,
   <<"alias", FALSE, a, <<"generic", b, <<a>>>>>>,
   <<"func", FALSE, f, <<<<"param", "", None, "a", None>>, <<"param", "", b, "b", one>>, <<"param", "const", a, "b", None>>>>, Bin("+", a, b)>>,
   Expression(<<"name", "type">>), <<"decl", "", FALSE, None, <<"name", "export">>, one>>, Expression(Sel(<<"name", "import">>, "a"))}

Blocks ==
  {Expression(If(a, Block1(Set(one)), None)), Expression(If(a, Block1(Set(one)), Block2(Set(b), Expression(a)))),
   Expression(If(a, Block1(Set(one)), If(b, Block1(<<"break">>), Block1(Set(b))))),
   Expression(<<"while", Bin("<", a, b), Block1(Set(one))>>),
   Expression(<<"for", a, one, b, None, Block1(Expression(a))>>), Expression(<<"for", a, one, b, one, Block1(<<"continue">>)>>),
   Expression(<<"forin", b, a, Block1(Expression(b))>>), Expression(<<"forin", <<"pattern", <<a, b>>>>, a, Block1(Expression(b))>>),
   Expression(<<"switch", a, <<<<"arm", one, b>>, <<"arm", None, Block2(Set(b), Expression(a))>>>>>>),
   Expression(<<"switch", None, <<<<"arm", Bin("<", a, b), Block1(Expression(If(a, Block1(Set(b)), None)))>>, <<"arm", b, one>>>>>>),
   <<"func", TRUE, f, <<>>, Block2(Expression(If(a, Block1(<<"return", b>>), None)), <<"return", one>>)>>,
   <<"func", FALSE, f, <<<<"param", "", None, "a", None>>>>, If(a, Block1(Expression(one)), Block1(Expression(b)))>>,
   Decl("", None, If(a, Block1(Expression(one)), Block1(Expression(b)))), Set(<<"switch", a, <<<<"arm", one, b>>>>>>),
   <<"struct", FALSE, "struct", a, NoTypeParams,
     <<<<"field", <<"typed", "", b, "a">>, None>>, <<"field", <<"typed", "varip", b, "f">>, one>>,
       <<"method", <<"typed", "", b, "f">>, <<<<"param", "", b, "a", None>>>>, TRUE, Block1(<<"return", <<"sel", <<"this">>, "a">>>>)>>,
       <<"method", <<"typed", "", b, "b">>, <<>>, FALSE, one>>>>>>,
   <<"struct", TRUE, "type", a, <<"params", <<<<"bound", b, f>>>>>>, <<<<"field", <<"typed", "", b, "b">>, None>>>>>>,
   <<"interface", FALSE, a, <<<<"signature", <<"typed", "", b, "f">>, <<<<"param", "", a, "b", None>>>>, TRUE>>>>>>,
   <<"interface", TRUE, b, <<>>>>,
   <<"enum", FALSE, a, <<<<"member", "a", None>>, <<"member", "b", one>>>>>>}

MCPairs == {<<s, t>> : s \in Simple \cup Blocks, t \in Simple \cup Blocks}
MCSmall == {<<Decl("", None, b), s, Set(one)>> : s \in Simple \cup Blocks}
MCPrograms ==
  {<<Expression(x)>> : x \in Chains \cup Others} \cup {<<Decl("", None, x)>> : x \in Others}
  \cup {p \in MCPairs : ~(ValueEndsWithBlock(p[1]) /\ Continues(p[2]))} \cup MCSmall
MCContinued == {p \in MCPairs : ValueEndsWithBlock(p[1]) /\ Continues(p[2])}
MCStrays == {")", "=", "if", "=>"}
=============================================================================
