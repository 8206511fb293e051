------------------------------- MODULE Parser -------------------------------
(***************************************************************************)
(* The recursive-descent parser (syntax/parser.ts).  A production takes    *)
(* the state of the parser and gives [p, t]: the state after it and the    *)
(* node it built.  The state of the parser is that of its scanner with     *)
(* three fields more; a speculation restores the scanner only.             *)
(*                                                                         *)
(* Nodes are tuples whose first element is the kind; of the positions only *)
(* the line of a top-level statement is kept.  A loop that comes round     *)
(* without having moved would never end: it sets "spins" and gives up.     *)
(***************************************************************************)
EXTENDS Scanner, TLC

SoftKeywords ==
  {"to", "by", "in", "import", "as", "export", "struct", "type", "interface", "enum"}
ReservedKeywords ==
  {"var", "varip", "const", "if", "else", "for", "while", "switch", "break", "continue",
   "return", "emit", "this"}
Literals == {"1", "2"}

(* Binding powers, tightest last; 0 never binds as a binary operator.        *)
Precedence ==
  [o \in {"not", "or", "and", "==", "<", ">", "+", "-", "*", "/"} |->
     CASE o = "not" -> 0 [] o = "or" -> 1 [] o = "and" -> 2 [] o = "==" -> 3
       [] o \in {"<", ">"} -> 4 [] o \in {"+", "-"} -> 5 [] o \in {"*", "/"} -> 6]
UnaryOperators == {"+", "-", "not"}

LayoutTokens == {"newline", "indent", "dedent", "eof"}
Punctuation ==
  {"(", ")", "[", "]", "{", "}", ",", ".", ":", "?", "=", ":=", "+=", "=>"}
IsName(tok) ==
  tok \notin LayoutTokens \cup Punctuation \cup ReservedKeywords \cup Literals \cup DOMAIN Precedence

ParserStart == ScannerStart @@ [silent |-> 0, blockEnded |-> FALSE, errors |-> {}, spins |-> FALSE]

AtName(p) == IsName(p.tok)
Error(p) == IF p.silent = 0 THEN [p EXCEPT !.errors = @ \cup {p.pos}] ELSE p
Got(p, tok) == IF p.tok = tok THEN Next(p) ELSE p
Want(p, tok) == IF p.tok = tok THEN Next(p) ELSE Error(p)

RECURSIVE SkipTo(_, _)
SkipTo(p, follow) == IF p.tok \in follow \cup {"eof"} THEN p ELSE SkipTo(Next(p), follow)

Silently(p) == [p EXCEPT !.silent = @ + 1]
(* The end of a speculation: the scanner goes back, what else was set stays. *)
Back(after, before) == [Restored(after, before) EXCEPT !.silent = before.silent]
Committed(after, before) == [after EXCEPT !.silent = before.silent]

Node(p, t) == [p |-> p, t |-> t]
None == <<"none">>
BadExpr == <<"bad">>

(* Recovery: a balanced region of lines that are indented for no reason.     *)
RECURSIVE SkipRegion(_, _)
SkipRegion(p, depth) ==
  LET d == depth + (CASE p.tok = "indent" -> 1 [] p.tok = "dedent" -> -1 [] OTHER -> 0)
      q == Next(p)
  IN IF d > 0 /\ q.tok # "eof" THEN SkipRegion(q, d) ELSE q
SkipBlock(p) == SkipRegion(p, 0)

(* Mutated form: what follows an error is skipped up to the end of the line, *)
(* a block on the way there included.                                        *)
StmtEndSkipsOn(p) ==
  CASE p.blockEnded \/ p.tok \in {"eof", "dedent"} -> p
    [] ~p.blockEnded /\ p.tok = "newline" -> Next(p)
    [] OTHER -> Got(SkipTo(Error(p), {"dedent"}), "dedent")

StmtEnd(p) ==
  CASE p.blockEnded \/ p.tok \in {"eof", "dedent"} -> p
    [] ~p.blockEnded /\ p.tok = "newline" -> Next(p)
    [] OTHER -> Got(SkipTo(Error(p), {"newline", "dedent"}), "newline")

(* Whether a loop comes round to where it was: the same token, under the     *)
(* same flags.                                                               *)
Where(p) ==
  <<p.tok, p.line, p.col, p.pendingDedents, p.pendingIndent, p.pendingNewline, p.atLineStart,
    p.eofDrained, p.blockEnded>>
Round(before, after) ==
  IF Where(before) = Where(after) THEN [after EXCEPT !.spins = TRUE] ELSE after

(* Lookahead over a balanced group, from its first bracket; the token it     *)
(* lands on, or "eof" when the line ends within it.                          *)
RECURSIVE AfterGroup(_, _)
AfterGroup(p, depth) ==
  LET d == depth + (CASE p.tok \in {"(", "["} -> 1 [] p.tok \in {")", "]"} -> -1 [] OTHER -> 0)
      q == Next(p)
  IN IF p.tok \in LayoutTokens THEN "eof"
     ELSE IF d > 0 THEN AfterGroup(q, d) ELSE q.tok

(* A lookahead always restores the scanner and sets nothing else, so that it *)
(* is a question about the state alone; lexical errors are reported again.   *)
AssignFollowsBrackets(p) == AfterGroup(p, 0) = "="
ArrowFollowsParens(p) == LET q == Next(p) IN q.tok = "(" /\ AfterGroup(q, 0) = "=>"

-----------------------------------------------------------------------------
(* Names and types.  Within a type None stands for the null of a mismatch.   *)

Name(p) == IF AtName(p) THEN Node(Next(p), <<"name", p.tok>>) ELSE Node(Error(p), <<"name", "">>)

RECURSIVE TypeName(_), TypeArgs(_, _), ArrayTypes(_, _)
TypeArgs(p, args) ==
  LET arg == TypeName(p) IN
  IF arg.t = None THEN arg
  ELSE IF arg.p.tok = "," THEN TypeArgs(Next(arg.p), Append(args, arg.t))
  ELSE IF arg.p.tok = ">" THEN Node(Next(arg.p), <<"args", Append(args, arg.t)>>)
  ELSE Node(arg.p, None)

ArrayTypes(p, t) ==
  IF p.tok # "[" THEN Node(p, t)
  ELSE LET q == Next(p) IN
       IF q.tok = "]" THEN ArrayTypes(Next(q), <<"array", t>>) ELSE Node(q, None)

TypeName(p) ==
  IF ~AtName(p) THEN Node(p, None)
  ELSE LET first == Name(p)
           dot == Next(first.p)
           head == IF first.p.tok # "." THEN first
                   ELSE IF AtName(dot) THEN Node(Next(dot), <<"sel", first.t, dot.tok>>)
                   ELSE Node(dot, None)
           args == TypeArgs(Next(head.p), <<>>)
           named == IF head.t = None \/ head.p.tok # "<" THEN head
                    ELSE IF args.t = None THEN args
                    ELSE Node(args.p, <<"generic", head.t, args.t[2]>>)
       IN IF named.t = None THEN named ELSE ArrayTypes(named.p, named.t)

(* "<T: Constraint, ...>", or nothing.                                       *)
RECURSIVE TypeParamList(_, _)
TypeParamList(p, params) ==
  LET name == Name(p)
      constraint == TypeName(Next(name.p))
  IN IF ~AtName(p) \/ name.p.tok # ":" \/ constraint.t = None THEN Node(p, None)
     ELSE LET all == Append(params, <<"bound", name.t, constraint.t>>) IN
          CASE constraint.p.tok = "," -> TypeParamList(Next(constraint.p), all)
            [] constraint.p.tok = ">" -> Node(Next(constraint.p), <<"params", all>>)
            [] OTHER -> Node(constraint.p, None)
NoTypeParams == <<"params", <<>>>>
TypeParams(p) == IF p.tok = "<" THEN TypeParamList(Next(p), <<>>) ELSE Node(p, NoTypeParams)

(* tryParse(): the node, or None and the scanner as it was.                  *)
Tried(p, r) == IF r.t = None THEN Node(Back(r.p, p), None) ELSE Node(Committed(r.p, p), r.t)

(* "type name", as far as it is there; the head of parameters and members.   *)
TypeThenName(p) ==
  LET type == TypeName(p) IN
  IF type.t = None \/ ~AtName(type.p) THEN Node(type.p, None)
  ELSE Node(Next(type.p), <<"typed", "", type.t, type.p.tok>>)
QualifiedHead(p, reserved) ==
  LET rest == TypeThenName(Next(p)) IN
  IF ~AtName(p) /\ p.tok # reserved THEN Node(p, None)
  ELSE IF rest.t = None THEN rest
  ELSE Node(rest.p, <<"typed", p.tok, rest.t[3], rest.t[4]>>)

(* The longest shape first: qualifier, type and name, then type and name.    *)
TypedHead(p, reserved) ==
  LET qualified == Tried(p, QualifiedHead(Silently(p), reserved)) IN
  IF qualified.t # None THEN qualified ELSE Tried(p, TypeThenName(Silently(qualified.p)))

TypedMemberHead(p) == TypedHead(p, "varip")

NamedTypeDeclarationFollows(p) ==
  LET name == Next(p)
      params == IF p.tok \in {"struct", "type"} THEN TypeParams(Next(name)) ELSE Node(Next(name), NoTypeParams)
  IN /\ AtName(name)
     /\ params.t # None
     /\ params.p.tok = "newline" \/ (p.tok = "type" /\ params.t = NoTypeParams /\ params.p.tok = "=")

-----------------------------------------------------------------------------
(* Expressions and blocks.                                                   *)

RECURSIVE Expr(_), Binary(_, _), BinaryRest(_, _, _), Unary(_), Postfix(_), PostfixRest(_, _),
  Call(_, _, _), Args(_, _), Primary(_), Exprs(_, _), Names(_, _), Block(_), Stmts(_, _),
  ControlExpr(_), IfExpr(_), ForExpr(_), SwitchExpr(_), Arms(_, _), StmtLine(_, _), Stmt(_)

Expr(p) ==
  LET cond == Binary(p, 1) IN
  IF cond.p.tok # "?" THEN cond
  ELSE LET then == Expr(Next(cond.p))
           orelse == Expr(Want(then.p, ":"))
       IN Node(orelse.p, <<"cond", cond.t, then.t, orelse.t>>)

(* Mutated form: operators that bind as tight go to the right.               *)
ClimbsNot(prec) == prec

(* Precedence climbing: what binds tighter than the operator is its right    *)
(* operand, what binds as tight goes to the left.                            *)
Climbs(prec) == prec + 1

Binary(p, minPrec) == LET x == Unary(p) IN BinaryRest(x.p, x.t, minPrec)
BinaryRest(p, x, minPrec) ==
  IF p.tok \notin DOMAIN Precedence THEN Node(p, x)
  ELSE IF Precedence[p.tok] < minPrec \/ Precedence[p.tok] = 0 THEN Node(p, x)
  ELSE LET y == Binary(Next(p), Climbs(Precedence[p.tok]))
       IN BinaryRest(y.p, <<"bin", p.tok, x, y.t>>, minPrec)

Unary(p) ==
  IF p.tok \notin UnaryOperators THEN Postfix(p)
  ELSE LET x == Unary(Next(p)) IN Node(x.p, <<"un", p.tok, x.t>>)

Postfix(p) == LET x == Primary(p) IN PostfixRest(x.p, x.t)

(* "<" opens type arguments only if they close right before a "(".           *)
TypeArgsThenLparen(p) ==
  LET args == TypeArgs(Next(p), <<>>) IN
  IF args.t # None /\ args.p.tok = "(" THEN args ELSE Node(args.p, None)

PostfixRest(p, x) ==
  LET sel == Name(Next(p))
      offset == Expr(Next(p))
      typeArgs == Tried(p, TypeArgsThenLparen(Silently(p)))
      call == Call(p, x, None)
      generic == Call(typeArgs.p, x, typeArgs.t)
  IN CASE p.tok = "." -> PostfixRest(sel.p, <<"sel", x, sel.t[2]>>)
       [] p.tok = "(" -> PostfixRest(call.p, call.t)
       [] p.tok = "[" -> PostfixRest(Want(offset.p, "]"), <<"hist", x, offset.t>>)
       [] p.tok = "<" /\ typeArgs.t # None -> PostfixRest(generic.p, generic.t)
       [] p.tok = "<" /\ typeArgs.t = None -> Node(typeArgs.p, x)
       [] OTHER -> Node(p, x)

Call(p, fun, typeArgs) ==
  LET open == Want(p, "(")
      args == IF open.tok = ")" THEN Node(open, <<>>) ELSE Args(open, <<>>)
  IN Node(Want(args.p, ")"), <<"call", fun, typeArgs, args.t>>)

Args(p, args) ==
  LET value == Expr(p)
      named == value.t[1] = "name" /\ value.p.tok = "="
      given == Expr(Next(value.p))
      arg == IF named THEN Node(given.p, <<"arg", value.t[2], given.t>>)
             ELSE Node(value.p, <<"arg", "", value.t>>)
      all == Append(args, arg.t)
  IN IF arg.p.tok = "," THEN Args(Next(arg.p), all) ELSE Node(arg.p, all)

Exprs(p, exprs) ==
  LET x == Expr(p)
      all == Append(exprs, x.t)
  IN IF x.p.tok = "," THEN Exprs(Next(x.p), all) ELSE Node(x.p, all)

Primary(p) ==
  LET inner == Expr(Next(p))
      elems == Exprs(Next(p), <<>>)
  IN CASE AtName(p) -> Name(p)
       [] p.tok \in {"if", "for", "while", "switch"} -> ControlExpr(p)
       [] p.tok = "this" -> Node(Next(p), <<"this">>)
       [] p.tok \in Literals -> Node(Next(p), <<"lit", p.tok>>)
       [] p.tok = "(" -> Node(Want(inner.p, ")"), <<"paren", inner.t>>)
       [] p.tok = "[" -> Node(Want(elems.p, "]"), <<"tuple", elems.t>>)
       [] OTHER -> Node(Error(p), BadExpr)

Names(p, names) ==
  LET name == Name(p)
      all == Append(names, name.t)
  IN IF name.p.tok = "," THEN Names(Next(name.p), all) ELSE Node(name.p, all)
TuplePattern(p) ==
  LET names == Names(Want(p, "["), <<>>) IN Node(Want(names.p, "]"), <<"pattern", names.t>>)

(* The statements up to the dedent.                                          *)
Stmts(p, stmts) ==
  IF p.tok \in {"dedent", "eof"} \/ p.spins THEN Node(p, stmts)
  ELSE IF p.tok = "newline" THEN Stmts(Next(p), stmts)
  ELSE IF p.tok = "indent" THEN Stmts(SkipBlock(Error(p)), stmts)
  ELSE LET line == StmtLine(p, <<>>)
           q == StmtEnd(line.p)
       IN Stmts(Round(p, q), stmts \o line.t)

(* A header whose body is not typed yet has an empty block; the lines after  *)
(* it belong to the block around it.                                         *)
Ended(p) == [p EXCEPT !.blockEnded = TRUE]
Block(p) ==
  LET line == Want(p, "newline")
      body == Stmts(Next(line), <<>>)
  IN IF line.tok # "indent" THEN Node(Ended(Error(line)), <<"block", <<>>>>)
     ELSE Node(Ended(Want(body.p, "dedent")), <<"block", body.t>>)

BlockOrExpr(p) == IF p.tok = "newline" THEN Block(p) ELSE Expr(p)

ControlExpr(p) ==
  LET cond == Expr(Next(p))
      body == Block(cond.p)
  IN CASE p.tok = "if" -> IfExpr(p)
       [] p.tok = "for" -> ForExpr(p)
       [] p.tok = "while" -> Node(body.p, <<"while", cond.t, body.t>>)
       [] p.tok = "switch" -> SwitchExpr(p)

IfExpr(p) ==
  LET cond == Expr(Next(p))
      then == Block(cond.p)
      after == Next(then.p)
      orelse == IF then.p.tok # "else" THEN Node(then.p, None)
                ELSE IF after.tok = "if" THEN IfExpr(after) ELSE Block(after)
  IN Node(orelse.p, <<"if", cond.t, then.t, orelse.t>>)

ForExpr(p) ==
  LET q == Next(p)
      target == IF q.tok = "[" THEN TuplePattern(q) ELSE Name(q)
      in == q.tok = "[" \/ target.p.tok = "in"
      x == Expr(Want(target.p, "in"))
      inBody == Block(x.p)
      from == Expr(Want(target.p, "="))
      to == Expr(Want(from.p, "to"))
      step == IF to.p.tok = "by" THEN Expr(Next(to.p)) ELSE Node(to.p, None)
      body == Block(step.p)
  IN IF in THEN Node(inBody.p, <<"forin", target.t, x.t, inBody.t>>)
     ELSE Node(body.p, <<"for", target.t, from.t, to.t, step.t, body.t>>)

(* Mutated form: as the code once was.                                       *)
ArmBeginsAsLeft(p) == p

(* Each arm starts with no block ended, or one that consumes nothing would   *)
(* pass StmtEnd untouched.                                                   *)
ArmBegins(p) == [p EXCEPT !.blockEnded = FALSE]

Arms(p, arms) ==
  LET begun == ArmBegins(p)
      pattern == IF p.tok = "=>" THEN Node(begun, None) ELSE Expr(begun)
      arrow == Want(pattern.p, "=>")
      body == BlockOrExpr(arrow)
      after == IF arrow.tok = "newline" THEN body.p ELSE StmtEnd(body.p)
  IN IF p.tok \in {"dedent", "eof"} \/ p.spins THEN Node(p, arms)
     ELSE IF p.tok = "newline" THEN Arms(Next(p), arms)
     ELSE Arms(Round(p, after), Append(arms, <<"arm", pattern.t, body.t>>))

SwitchExpr(p) ==
  LET q == Next(p)
      subject == IF q.tok = "newline" THEN Node(q, None) ELSE Expr(q)
      line == Want(subject.p, "newline")
      arms == Arms(Next(line), <<>>)
  IN IF line.tok # "indent" THEN Node(Ended(Error(line)), <<"switch", subject.t, <<>>>>)
     ELSE Node(Ended(Want(arms.p, "dedent")), <<"switch", subject.t, arms.t>>)

-----------------------------------------------------------------------------
(* Declarations.                                                             *)

Default(p) == IF p.tok = "=" THEN Expr(Next(p)) ELSE Node(p, None)

Param(p) ==
  LET typed == TypedHead(p, "const")
      name == Name(typed.p)
      typedDefault == Default(typed.p)
      plainDefault == Default(name.p)
  IN IF typed.t # None
       THEN Node(typedDefault.p, <<"param", typed.t[2], typed.t[3], typed.t[4], typedDefault.t>>)
       ELSE Node(plainDefault.p, <<"param", "", None, name.t[2], plainDefault.t>>)

RECURSIVE Params(_, _)
Params(p, params) ==
  LET param == Param(p)
      all == Append(params, param.t)
  IN IF param.p.tok = "," THEN Params(Next(param.p), all) ELSE Node(param.p, all)
ParamList(p) ==
  LET open == Want(p, "(")
      params == IF open.tok = ")" THEN Node(open, <<>>) ELSE Params(open, <<>>)
  IN Node(Want(params.p, ")"), params.t)

FuncDecl(p, exported) ==
  LET name == Name(p)
      params == ParamList(name.p)
      body == BlockOrExpr(Want(params.p, "=>"))
  IN Node(body.p, <<"func", exported, name.t, params.t, body.t>>)

(* The parameters of methods must have types and, in an interface, no        *)
(* default.                                                                  *)
Checked(p, wrong) == IF wrong THEN Error(p) ELSE p
TypedParams(p) ==
  LET params == ParamList(p) IN
  Node(Checked(params.p, \E i \in DOMAIN params.t : params.t[i][3] = None), params.t)

MethodDecl(p, head) ==
  LET params == TypedParams(p)
      body == BlockOrExpr(Want(Got(params.p, "const"), "=>"))
  IN Node(body.p, <<"method", head, params.t, params.p.tok = "const", body.t>>)

StructMember(p) ==
  LET head == TypedMemberHead(p)
      method == MethodDecl(head.p, head.t)
      field == Default(head.p)
      name == Name(Error(head.p))
      untyped == Default(name.p)
  IN CASE head.t = None -> Node(untyped.p, <<"field", <<"typed", "", None, name.t[2]>>, untyped.t>>)
       [] head.t # None /\ head.p.tok = "(" -> method
       [] OTHER -> Node(field.p, <<"field", head.t, field.t>>)

(* A method of an interface is a signature; a body is reported and skipped.  *)
InterfaceMethod(p) ==
  LET head == TypedMemberHead(p)
      params == TypedParams(head.p)
      defaults == \E i \in DOMAIN params.t : params.t[i][5] # None
      receiver == Got(Checked(params.p, defaults), "const")
      arrow == Next(Error(receiver))
      line == Next(arrow)
      skipped == IF arrow.tok # "newline" THEN SkipTo(arrow, {"newline", "dedent"})
                 ELSE Ended(IF line.tok = "indent" THEN SkipBlock(line) ELSE line)
      signature == <<"signature", head.t, params.t, params.p.tok = "const">>
  IN IF head.t = None \/ head.p.tok # "("
       THEN Node(SkipTo(Error(head.p), {"newline", "dedent"}), None)
       ELSE Node(IF receiver.tok = "=>" THEN skipped ELSE receiver, signature)

EnumMember(p) ==
  LET name == Name(p)
      title == Default(name.p)
  IN Node(title.p, <<"member", name.t[2], title.t>>)

(* The members of a struct, an interface or an enum, one to a line.          *)
RECURSIVE Members(_, _, _)
Members(p, kind, members) ==
  LET begun == ArmBegins(p)
      member == CASE kind = "struct" -> StructMember(begun)
                  [] kind = "interface" -> InterfaceMethod(begun)
                  [] kind = "enum" -> EnumMember(begun)
      all == IF member.t = None THEN members ELSE Append(members, member.t)
  IN IF p.tok \in {"dedent", "eof"} \/ p.spins THEN Node(p, members)
     ELSE IF p.tok = "newline" THEN Members(Next(p), kind, members)
     ELSE IF p.tok = "indent" /\ kind = "interface" THEN Members(SkipBlock(Error(p)), kind, members)
     ELSE Members(Round(p, StmtEnd(member.p)), kind, all)

(* Only a bodiless interface is no error.                                    *)
MemberBlock(p, kind) ==
  LET line == Want(p, "newline")
      members == Members(Next(line), kind, <<>>)
  IN IF line.tok = "indent" THEN Node(Ended(Want(members.p, "dedent")), members.t)
     ELSE Node(Ended(IF kind = "interface" THEN line ELSE Error(line)), <<>>)

StructDecl(p, exported, keyword, name) ==
  LET params == TypeParams(p)
      q == IF params.t = None THEN SkipTo(Error(params.p), {"newline", "dedent"}) ELSE params.p
      members == MemberBlock(q, "struct")
  IN Node(members.p, <<"struct", exported, keyword, name, params.t, members.t>>)

(* From the keyword on: "type A = B" is an alias, "type A" a struct.         *)
NamedTypeDecl(p, exported) ==
  LET name == Name(Next(p))
      aliased == TypeName(Next(name.p))
      members == MemberBlock(name.p, p.tok)
  IN CASE p.tok \in {"struct", "type"} /\ ~(p.tok = "type" /\ name.p.tok = "=") ->
            StructDecl(name.p, exported, p.tok, name.t)
       [] p.tok = "type" /\ name.p.tok = "=" ->
            Node(Checked(aliased.p, aliased.t = None), <<"alias", exported, name.t, aliased.t>>)
       [] OTHER -> Node(members.p, <<p.tok, exported, name.t, members.t>>)

Declaration(p, mode, exported, type, target) ==
  LET init == Expr(p) IN Node(init.p, <<"decl", mode, exported, type, target, init.t>>)

TypedDeclHead(p) ==
  LET typed == TypeThenName(p) IN
  IF typed.t # None /\ typed.p.tok = "=" THEN Node(Next(typed.p), typed.t) ELSE Node(typed.p, None)
TypedDecl(p) == Tried(p, TypedDeclHead(Silently(p)))

TupleDecl(p, mode) ==
  LET target == TuplePattern(p) IN Declaration(Want(target.p, "="), mode, FALSE, None, target.t)

ModeDecl(p) ==
  LET q == Next(p)
      typed == TypedDecl(q)
      name == Name(typed.p)
  IN IF q.tok = "[" THEN TupleDecl(q, p.tok)
     ELSE IF typed.t # None
       THEN Declaration(typed.p, p.tok, FALSE, typed.t[3], <<"name", typed.t[4]>>)
       ELSE Declaration(Want(name.p, "="), p.tok, FALSE, None, name.t)

-----------------------------------------------------------------------------
(* Statements.                                                               *)

ImportFollows(p) ==
  LET q == Next(p) IN
  IF q.tok = "." THEN Next(q).tok \in {".", "/"} ELSE AtName(q) /\ q.tok \notin SoftKeywords
ImportStmt(p) ==
  LET q == Next(p)
      joins == IF q.tok = "." THEN {".", "/", "a", "b", "f", "1", "2"} ELSE {"/", "a", "b", "f", "1", "2"}
      path == RescanImportPath(q, <<q.tok>>, joins)
      after == Next(path[1])
      alias == Name(Next(after))
  IN IF after.tok = "as" THEN Node(alias.p, <<"import", path[2], alias.t>>)
     ELSE Node(after, <<"import", path[2], None>>)

TypeKeywords == {"struct", "type", "interface", "enum"}
ExportFollows(p) ==
  LET q == Next(p) IN
  \/ q.tok \in TypeKeywords /\ NamedTypeDeclarationFollows(q)
  \/ AtName(q) /\ (ArrowFollowsParens(q) \/ Next(q).tok = "=")
ExportDecl(p) ==
  LET q == Next(p)
      name == Name(q)
  IN CASE q.tok \in TypeKeywords /\ NamedTypeDeclarationFollows(q) -> NamedTypeDecl(q, TRUE)
       [] ArrowFollowsParens(q) -> FuncDecl(q, TRUE)
       [] OTHER -> Declaration(Want(name.p, "="), "", TRUE, None, name.t)

EmitStmt(p) ==
  LET q == Next(p)
      modifier == Name(Next(q))
      named == IF q.tok # "." THEN q ELSE Checked(modifier.p, modifier.t[2] # "append")
      name == Primary(named)
      value == Expr(name.p)
  IN Node(value.p, <<"emit", q.tok = ".", name.t, value.t>>)

ReturnStmt(p) ==
  LET q == Next(p)
      value == IF q.tok \in {"newline", "dedent", "eof", ","} THEN Node(q, None) ELSE Expr(q)
  IN Node(value.p, <<"return", value.t>>)

(* What begins with a name: a typed declaration, a function, or an           *)
(* expression, to be declared, assigned or left.                             *)
ExprStmt(p) ==
  LET x == Expr(p)
      value == Expr(Next(x.p))
      declared == IF x.t[1] = "name" THEN Node(value.p, <<"decl", "", FALSE, None, x.t, value.t>>)
                  ELSE Node(Error(value.p), <<"badstmt">>)
  IN CASE x.p.tok = "=" -> declared
       [] x.p.tok \in {":=", "+="} -> Node(value.p, <<"assign", x.p.tok, x.t, value.t>>)
       [] OTHER -> Node(x.p, <<"expr", x.t>>)
NameOrExprStmt(p) ==
  LET typed == TypedDecl(p) IN
  IF ~AtName(p) THEN ExprStmt(p)
  ELSE IF typed.t # None THEN Declaration(typed.p, "", FALSE, typed.t[3], <<"name", typed.t[4]>>)
  ELSE IF ArrowFollowsParens(typed.p) THEN FuncDecl(typed.p, FALSE)
  ELSE ExprStmt(typed.p)

Stmt(start) ==
  LET p == [start EXCEPT !.blockEnded = FALSE]
      control == ControlExpr(p)
  IN CASE p.tok \in {"var", "varip", "const"} -> ModeDecl(p)
       [] p.tok \in {"break", "continue"} -> Node(Next(p), <<p.tok>>)
       [] p.tok = "return" -> ReturnStmt(p)
       [] p.tok = "emit" -> EmitStmt(p)
       [] p.tok = "[" /\ AssignFollowsBrackets(p) -> TupleDecl(p, "")
       [] p.tok \in {"if", "for", "while", "switch"} -> Node(control.p, <<"expr", control.t>>)
       [] p.tok = "import" /\ ImportFollows(p) -> ImportStmt(p)
       [] p.tok \in TypeKeywords /\ NamedTypeDeclarationFollows(p) -> NamedTypeDecl(p, FALSE)
       [] p.tok = "export" /\ ExportFollows(p) -> ExportDecl(p)
       [] OTHER -> NameOrExprStmt(p)

(* Simple statements may be chained with commas.                             *)
StmtLine(p, stmts) ==
  LET stmt == Stmt(p)
      all == Append(stmts, stmt.t)
  IN IF ~stmt.p.blockEnded /\ stmt.t[1] \in {"decl", "assign", "expr"} /\ stmt.p.tok = ","
       THEN StmtLine(Next(stmt.p), all)
       ELSE Node(stmt.p, all)

(* parseFile(): the statements of each line, with the line they begin on.    *)
RECURSIVE TopLevel(_, _)
TopLevel(p, found) ==
  IF p.tok = "eof" \/ p.spins THEN [stmts |-> found, errors |-> p.errors \cup p.lexical, spins |-> p.spins]
  ELSE IF p.tok \in {"newline", "dedent"} THEN TopLevel(Next(p), found)
  ELSE IF p.tok = "indent" THEN TopLevel(SkipBlock(Error(p)), found)
  ELSE LET line == StmtLine(p, <<>>) IN
       TopLevel(Round(p, StmtEnd(line.p)), Append(found, [line |-> p.pos, t |-> line.t]))

ParseFile == TopLevel(Next(ParserStart), <<>>)
=============================================================================
