------------------------------- MODULE Syntax -------------------------------
(***************************************************************************)
(* A source being edited.  It begins as a program that is printed, with    *)
(* its blocks indented and nothing in parentheses that need not be; then   *)
(* it is laid out differently, or damaged.  What the printer puts down is  *)
(* what the documents call the program: the parser must read it back.      *)
(***************************************************************************)
EXTENDS Parser, SequencesExt

CONSTANTS
  Programs,      (* the programs, sequences of statements                    *)
  Edited,        (* those that are laid out differently or damaged           *)
  Strays,        (* lexemes that damage puts where they do not belong        *)
  MaxLayouts,    (* bound: changes of layout                                 *)
  MaxDamages     (* bound: damages                                           *)

ASSUME SyntaxAssumption == Edited \subseteq Programs /\ MaxLayouts \in Nat /\ MaxDamages \in Nat

VARIABLES
  program,       (* what was printed                                         *)
  layouts,       (* changes of layout so far                                 *)
  damages,       (* damages so far                                           *)
  damaged,       (* the statements that are damaged                          *)
  read           (* the parser has read the text as it is                    *)

vars == <<text, program, layouts, damages, damaged, read>>

-----------------------------------------------------------------------------
(* The printer.  It makes lines; the first goes on with the line before.     *)

Word(w) == <<[width |-> 0, items |-> <<w>>, of |-> 0]>>
Nothing == <<[width |-> 0, items |-> <<>>, of |-> 0]>>
NewLine(depth) == Nothing \o <<[width |-> IndentUnit * depth, items |-> <<>>, of |-> 0]>>
Joined(a, b) ==
  Front(a) \o <<[Last(a) EXCEPT !.items = @ \o Head(b).items]>> \o Tail(b)
Lines(parts) == FoldLeft(Joined, Nothing, parts)
Words(ws) == <<[width |-> 0, items |-> ws, of |-> 0]>>

RECURSIVE Printed(_, _), PrintedList(_, _, _)

(* A list with commas between.                                               *)
PrintedList(list, d, comma) ==
  IF list = <<>> THEN Nothing
  ELSE Lines([i \in 1..2 * Len(list) - 1 |->
               IF i % 2 = 1 THEN Printed(list[(i + 1) \div 2], d) ELSE Word(comma)])

Optional(word, t, d) == IF t = None THEN Nothing ELSE Lines(<<Word(word), Printed(t, d)>>)
Exported(e) == IF e THEN Word("export") ELSE Nothing
PrintedLines(list, d) ==
  Lines([i \in 1..2 * Len(list) |->
          IF i % 2 = 1 THEN NewLine(d + 1) ELSE Printed(list[i \div 2], d + 1)])

Printed(t, d) ==
  CASE t[1] \in {"name", "lit"} -> Word(t[2])
    [] t[1] = "this" -> Word("this")
    [] t[1] = "bin" -> Lines(<<Printed(t[3], d), Word(t[2]), Printed(t[4], d)>>)
    [] t[1] = "un" -> Lines(<<Word(t[2]), Printed(t[3], d)>>)
    [] t[1] = "cond" -> Lines(<<Printed(t[2], d), Word("?"), Printed(t[3], d), Word(":"), Printed(t[4], d)>>)
    [] t[1] = "sel" -> Lines(<<Printed(t[2], d), Words(<<".", t[3]>>)>>)
    [] t[1] = "hist" -> Lines(<<Printed(t[2], d), Word("["), Printed(t[3], d), Word("]")>>)
    [] t[1] = "paren" -> Lines(<<Word("("), Printed(t[2], d), Word(")")>>)
    [] t[1] = "tuple" -> Lines(<<Word("["), PrintedList(t[2], d, ","), Word("]")>>)
    [] t[1] = "pattern" -> Lines(<<Word("["), PrintedList(t[2], d, ","), Word("]")>>)
    [] t[1] = "arg" -> Lines(<<IF t[2] = "" THEN Nothing ELSE Words(<<t[2], "=">>), Printed(t[3], d)>>)
    [] t[1] = "call" ->
         Lines(<<Printed(t[2], d),
                 IF t[3] = None THEN Nothing ELSE Lines(<<Word("<"), PrintedList(t[3][2], d, ","), Word(">")>>),
                 Word("("), PrintedList(t[4], d, ","), Word(")")>>)
    [] t[1] = "generic" -> Lines(<<Printed(t[2], d), Word("<"), PrintedList(t[3], d, ","), Word(">")>>)
    [] t[1] = "array" -> Lines(<<Printed(t[2], d), Words(<<"[", "]">>)>>)
    [] t[1] = "block" -> PrintedLines(t[2], d)
    [] t[1] = "if" ->
         Lines(<<Word("if"), Printed(t[2], d), Printed(t[3], d),
                 IF t[4] = None THEN Nothing ELSE Lines(<<NewLine(d), Word("else"), Printed(t[4], d)>>)>>)
    [] t[1] = "while" -> Lines(<<Word("while"), Printed(t[2], d), Printed(t[3], d)>>)
    [] t[1] = "for" ->
         Lines(<<Word("for"), Printed(t[2], d), Word("="), Printed(t[3], d), Word("to"), Printed(t[4], d),
                 Optional("by", t[5], d), Printed(t[6], d)>>)
    [] t[1] = "forin" -> Lines(<<Word("for"), Printed(t[2], d), Word("in"), Printed(t[3], d), Printed(t[4], d)>>)
    [] t[1] = "switch" ->
         Lines(<<Word("switch"), IF t[2] = None THEN Nothing ELSE Printed(t[2], d), PrintedLines(t[3], d)>>)
    [] t[1] = "arm" ->
         Lines(<<IF t[2] = None THEN Nothing ELSE Printed(t[2], d), Word("=>"), Printed(t[3], d)>>)
    [] t[1] = "typed" ->
         Lines(<<IF t[2] = "" THEN Nothing ELSE Word(t[2]), IF t[3] = None THEN Nothing ELSE Printed(t[3], d), Word(t[4])>>)
    [] t[1] = "param" -> Lines(<<Printed(<<"typed", t[2], t[3], t[4]>>, d), Optional("=", t[5], d)>>)
    [] t[1] = "decl" ->
         Lines(<<Exported(t[3]), IF t[2] = "" THEN Nothing ELSE Word(t[2]),
                 IF t[4] = None THEN Nothing ELSE Printed(t[4], d), Printed(t[5], d), Word("="), Printed(t[6], d)>>)
    [] t[1] = "assign" -> Lines(<<Printed(t[3], d), Word(t[2]), Printed(t[4], d)>>)
    [] t[1] = "expr" -> Printed(t[2], d)
    [] t[1] \in {"break", "continue"} -> Word(t[1])
    [] t[1] = "return" -> Lines(<<Word("return"), IF t[2] = None THEN Nothing ELSE Printed(t[2], d)>>)
    [] t[1] = "emit" ->
         Lines(<<IF t[2] THEN Words(<<"emit", ".", "append">>) ELSE Word("emit"), Printed(t[3], d), Printed(t[4], d)>>)
    [] t[1] = "import" -> Lines(<<Word("import"), Words(t[2]), Optional("as", t[3], d)>>)
    [] t[1] = "func" ->
         Lines(<<Exported(t[2]), Printed(t[3], d), Word("("), PrintedList(t[4], d, ","), Words(<<")", "=>">>), Printed(t[5], d)>>)
    [] t[1] = "alias" -> Lines(<<Exported(t[2]), Word("type"), Printed(t[3], d), Word("="), Printed(t[4], d)>>)
    [] t[1] = "struct" ->
         Lines(<<Exported(t[2]), Word(t[3]), Printed(t[4], d),
                 IF t[5] = NoTypeParams THEN Nothing ELSE Lines(<<Word("<"), PrintedList(t[5][2], d, ","), Word(">")>>),
                 PrintedLines(t[6], d)>>)
    [] t[1] = "bound" -> Lines(<<Printed(t[2], d), Word(":"), Printed(t[3], d)>>)
    [] t[1] = "field" -> Lines(<<Printed(t[2], d), Optional("=", t[3], d)>>)
    [] t[1] = "method" ->
         Lines(<<Printed(t[2], d), Word("("), PrintedList(t[3], d, ","), Word(")"),
                 IF t[4] THEN Word("const") ELSE Nothing, Word("=>"), Printed(t[5], d)>>)
    [] t[1] \in {"interface", "enum"} ->
         Lines(<<Exported(t[2]), Word(t[1]), Printed(t[3], d), PrintedLines(t[4], d)>>)
    [] t[1] = "signature" ->
         Lines(<<Printed(t[2], d), Word("("), PrintedList(t[3], d, ","), Word(")"),
                 IF t[4] THEN Word("const") ELSE Nothing>>)
    [] t[1] = "member" -> Lines(<<Word(t[2]), Optional("=", t[3], d)>>)

(* A statement of the program, each of its lines marked with its number.     *)
PrintedStmt(i) == [j \in DOMAIN Printed(program[i], 0) |-> [Printed(program[i], 0)[j] EXCEPT !.of = i]]
PrintedProgram == FlattenSeq([i \in DOMAIN program |-> PrintedStmt(i)])

-----------------------------------------------------------------------------
(* Editing what was printed, and reading it.                                 *)

Init ==
  /\ program \in Programs
  /\ text = PrintedProgram
  /\ layouts = 0 /\ damages = 0 /\ damaged = {}
  /\ read = FALSE

(* The text goes to the parser (ParseFile), which keeps nothing of it.       *)
Read ==
  /\ ~read
  /\ read' = TRUE
  /\ UNCHANGED <<text, program, layouts, damages, damaged>>

Items(l) == text[l].items
Split(l, k, width) ==
  SubSeq(text, 1, l - 1)
    \o <<[text[l] EXCEPT !.items = SubSeq(Items(l), 1, k)],
         [width |-> width, items |-> SubSeq(Items(l), k + 1, Len(Items(l))), of |-> text[l].of]>>
    \o SubSeq(text, l + 1, Len(text))

(* Groups that are open before the k-th lexeme of line l.                    *)
OpenGroups(l, k) ==
  LET before == [j \in 1..l - 1 |-> Items(j)]
      all == FlattenSeq(before) \o SubSeq(Items(l), 1, k)
  IN Cardinality({i \in DOMAIN all : all[i] \in Opening}) - Cardinality({i \in DOMAIN all : all[i] \in Closing})

Laid(new) ==
  /\ layouts < MaxLayouts /\ damages = 0
  /\ text' = new /\ layouts' = layouts + 1
  /\ UNCHANGED <<program, damages, damaged>>

(* The path of an import must not be pulled apart.                           *)
InPath(l, k) == Items(l)[1] = "import" /\ Items(l)[2] # "=" /\ k > 1 /\ "as" \notin {Items(l)[i] : i \in 1..k + 1}

(* A line is broken: within a group anywhere, elsewhere to a width that is   *)
(* no multiple of four.                                                      *)
Break(l, k) ==
  /\ ~InPath(l, k)
  /\ \E width \in IF OpenGroups(l, k) > 0 THEN {0, 4} ELSE {2} : Laid(Split(l, k, width))

(* A blank line, or one that holds only a comment, at any width.             *)
InsertLine(l) ==
  \E items \in {<<>>, <<"//">>}, width \in {0, 3, 8} :
    Laid(InsertAt(text, l, [width |-> width, items |-> items, of |-> 0]))

Comment(l, k) ==
  /\ k < Len(Items(l)) => ~InPath(l, k)
  /\ Laid([text EXCEPT ![l].items = IF k = Len(@) THEN Append(@, "//") ELSE InsertAt(@, k + 1, "/**/")])

Damaged(l, items) ==
  /\ damages < MaxDamages /\ text[l].of # 0
  /\ text' = [text EXCEPT ![l].items = items]
  /\ damages' = damages + 1 /\ damaged' = damaged \cup {text[l].of}
  /\ UNCHANGED <<program, layouts>>

Drop(l, k) == Damaged(l, RemoveAt(Items(l), k))
Stray(l, k) == \E lexeme \in Strays : Damaged(l, InsertAt(Items(l), k, lexeme))

(* A line that is moved to another width, or emptied.                        *)
Shift(l) ==
  /\ damages < MaxDamages /\ text[l].of # 0
  /\ \E width \in {0, 4, 8} \ {text[l].width} : text' = [text EXCEPT ![l].width = width]
  /\ damages' = damages + 1 /\ damaged' = damaged \cup {text[l].of}
  /\ UNCHANGED <<program, layouts>>
Empty(l) == Damaged(l, <<>>)

Edit ==
  /\ read /\ read' = FALSE
  /\ program \in Edited
  /\ \E l \in DOMAIN text :
    \/ InsertLine(l)
    \/ \E k \in 1..Len(Items(l)) - 1 : Break(l, k)
    \/ \E k \in 1..Len(Items(l)) : Comment(l, k)
    \/ \E k \in 1..Len(Items(l)) : Drop(l, k) \/ Stray(l, k)
    \/ Shift(l)
    \/ Empty(l)

Spec == Init /\ [][Read \/ Edit]_vars

-----------------------------------------------------------------------------
(* Properties: of every text, as the parser reads it.                        *)

Statements(file) == FlattenSeq([i \in DOMAIN file.stmts |-> file.stmts[i].t])
LineOf(i) == CHOOSE l \in DOMAIN text : text[l].of = i /\ \A m \in 1..l - 1 : text[m].of # i

(* However a program is laid out, the parser reads back the program that was *)
(* printed, without an error: precedence, generic calls against comparisons, *)
(* declarations against expressions, blocks, continuation lines, groups over *)
(* several lines, and every speculation that is taken back on the way.       *)
RoundTrip ==
  [][Read /\ damages = 0 =>
       \E file \in {ParseFile} : Statements(file) = program /\ file.errors = {} /\ ~file.spins]_vars

(* The parser comes to the end of every source, however it is damaged: no    *)
(* loop of its recovery waits for a token that does not come.                *)
AlwaysEnds == [][Read => ~ParseFile.spins]_vars

(* A value that ends with a block, and a statement that could go on with it. *)
ValueEndsWithBlock(s) ==
  \/ s[1] = "decl" /\ s[6][1] \in {"if", "switch"}
  \/ s[1] = "assign" /\ s[4][1] \in {"if", "switch"}
  \/ s[1] = "func" /\ s[5][1] = "if"
Continues(s) == Printed(s, 0)[1].items[1] \in {"[", "(", ".", "-", "+", "*", "<"}

(* Groups that are still open after the lines of statement i.                *)
GroupsLeft(i) ==
  FoldLeft(LAMBDA depth, x : IF x \in Opening THEN depth + 1
                             ELSE IF x \in Closing /\ depth > 0 THEN depth - 1 ELSE depth,
           0, FlattenSeq([l \in DOMAIN text |-> IF text[l].of = i THEN Items(l) ELSE <<>>]))
(* Damage that cannot reach past its statement: no group is left open, the   *)
(* first line stays where it was and does not begin with a comment (it would *)
(* be a continuation), and what follows cannot go on with it.                *)
Harmless(i) ==
  /\ GroupsLeft(i) = 0
  /\ LET l == LineOf(i) IN text[l].width = 0 /\ Items(l) # <<>> /\ ~IsBlockComment(Items(l)[1])
  /\ i < Len(program) => ~Continues(program[i + 1])

(* An error stays where it is: the statements before and after the damaged   *)
(* one are read as they were written, whatever recovery the parser goes      *)
(* through, as long as the damage leaves no group open and the first line in *)
(* its place.                                                                *)
Contained ==
  [][Read /\ damages > 0 /\ (\A i \in damaged : Harmless(i)) =>
       \E file \in {ParseFile} :
         \A i \in DOMAIN program \ damaged :
           \E j \in DOMAIN file.stmts : file.stmts[j] = [line |-> LineOf(i), t |-> <<program[i]>>]]_vars

(* "Set when the construct just parsed ended by closing an indented block;   *)
(* such statements are already terminated and need no trailing newline."     *)
(* (parser.ts:64-65): what stands on the line after the block, at the width  *)
(* of the statement, is a statement of its own.                              *)
BlocksEndStatements == [][Read => Statements(ParseFile) = program]_vars
=============================================================================
