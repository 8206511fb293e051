------------------------------- MODULE Scanner -------------------------------
(***************************************************************************)
(* The scanner (syntax/scanner.ts): one token for each call of next(), and *)
(* the layout tokens "newline", "indent" and "dedent" that it makes up     *)
(* from the widths of the lines.                                           *)
(*                                                                         *)
(* A source is a sequence of lines, a line a width and its lexemes, and a  *)
(* lexeme is its own token.  Three lexemes are trivia: "//" is a comment   *)
(* up to the end of the line, "/**/" a comment within a line, and "/*n*/"  *)
(* one that spans lines.  "!" is a character that begins no token.  The    *)
(* spelling of literals is left out, and so are tabs (a tab is four        *)
(* columns) and positions within a line.                                   *)
(***************************************************************************)
EXTENDS Integers, Sequences

VARIABLE text   (* the source: a sequence of [width, items, ...] *)

IndentUnit == 4

Opening == {"(", "[", "{"}
Closing == {")", "]", "}"}

(* The lexeme under the cursor; "eol" ends a line and "eof" the source.      *)
Ch(s) ==
  LET items == text[s.line].items IN
  IF s.col < Len(items) THEN items[s.col + 1]
  ELSE IF s.line < Len(text) THEN "eol" ELSE "eof"

(* The lexeme after it, on the same line.                                    *)
Peek(s) == Ch([s EXCEPT !.col = @ + 1])

NextLexeme(s) == [s EXCEPT !.col = @ + 1]
NextLine(s) == [s EXCEPT !.line = @ + 1, !.col = 0]
RestOfLine(s) == [s EXCEPT !.col = Len(text[s.line].items)]

ScannerStart ==
  [line |-> 1, col |-> 0, tok |-> "eof", pos |-> 1, newlinePos |-> 1, breakPos |-> 1, indents |-> <<0>>, pendingDedents |-> 0,
   pendingIndent |-> FALSE, pendingNewline |-> FALSE, breakPending |-> FALSE,
   tokensOnStatement |-> FALSE, atLineStart |-> TRUE, eofDrained |-> FALSE, groupDepth |-> 0,
   lexical |-> {}]

(* Lexical errors are reported at once, also from within a lookahead.        *)
LexicalError(s) == [s EXCEPT !.lexical = @ \cup {s.line}]

(* restore(): every field of the snapshot but the version of the file.  The  *)
(* errors that were reported in between stay reported.                       *)
Restored(s, state) ==
  [s EXCEPT !.line = state.line, !.col = state.col, !.tok = state.tok, !.pos = state.pos,
            !.newlinePos = state.newlinePos, !.breakPos = state.breakPos,
            !.indents = state.indents, !.pendingDedents = state.pendingDedents,
            !.pendingIndent = state.pendingIndent, !.pendingNewline = state.pendingNewline,
            !.breakPending = state.breakPending, !.tokensOnStatement = state.tokensOnStatement,
            !.atLineStart = state.atLineStart, !.eofDrained = state.eofDrained,
            !.groupDepth = state.groupDepth]
(* Mutated form: the snapshot forgets how many groups are open.              *)
RestoredButGroups(s, state) ==
  [s EXCEPT !.line = state.line, !.col = state.col, !.tok = state.tok, !.pos = state.pos,
            !.newlinePos = state.newlinePos, !.breakPos = state.breakPos,
            !.indents = state.indents, !.pendingDedents = state.pendingDedents,
            !.pendingIndent = state.pendingIndent, !.pendingNewline = state.pendingNewline,
            !.breakPending = state.breakPending, !.tokensOnStatement = state.tokensOnStatement,
            !.atLineStart = state.atLineStart, !.eofDrained = state.eofDrained]

-----------------------------------------------------------------------------
(* Tokens that are due before the next lexeme.                               *)

Pending(s) == s.pendingNewline \/ s.pendingDedents > 0 \/ s.pendingIndent

EmitPending(s) ==
  CASE s.pendingNewline ->
         [s EXCEPT !.pendingNewline = FALSE, !.tok = "newline", !.pos = s.newlinePos]
    [] ~s.pendingNewline /\ s.pendingDedents > 0 ->
         [s EXCEPT !.pendingDedents = @ - 1, !.tok = "dedent", !.pos = s.line]
    [] OTHER -> [s EXCEPT !.pendingIndent = FALSE, !.tok = "indent", !.pos = s.line]

-----------------------------------------------------------------------------
(* Comments and the ends of lines.                                           *)

(* A comment over several lines ends the open statement like a line break.   *)
ScanBlockComment(s) ==
  IF Ch(s) = "/*n*/" /\ s.tokensOnStatement
    THEN [NextLexeme(s) EXCEPT !.pendingNewline = TRUE, !.newlinePos = s.line,
                               !.tokensOnStatement = FALSE]
    ELSE NextLexeme(s)

IsBlockComment(lexeme) == lexeme \in {"/**/", "/*n*/"}

RECURSIVE SkipInlineTrivia(_)
SkipInlineTrivia(s) ==
  CASE Ch(s) = "//" -> RestOfLine(s)
    [] IsBlockComment(Ch(s)) -> SkipInlineTrivia(ScanBlockComment(s))
    [] OTHER -> s

EndLine(s) ==
  LET next == [NextLine(s) EXCEPT !.atLineStart = TRUE] IN
  IF s.groupDepth = 0 /\ s.tokensOnStatement
    THEN [next EXCEPT !.breakPending = TRUE, !.breakPos = s.line, !.tokensOnStatement = FALSE]
    ELSE next

PrepareEofDrain(s) ==
  [s EXCEPT !.eofDrained = TRUE,
            !.pendingNewline = @ \/ s.tokensOnStatement \/ s.breakPending,
            !.newlinePos = CASE s.tokensOnStatement -> s.line
                             [] ~s.tokensOnStatement /\ s.breakPending -> s.breakPos
                             [] OTHER -> @,
            !.breakPending = @ /\ s.tokensOnStatement,
            !.tokensOnStatement = FALSE,
            !.pendingDedents = @ + Len(s.indents) - 1,
            !.indents = <<0>>]

(* A line of code at a multiple of four: the statement before it is over,    *)
(* and the blocks that are deeper than it are closed.                        *)
StatementLine(s, width) ==
  LET top == s.indents[Len(s.indents)]
      outer == SelectSeq(s.indents, LAMBDA w : w <= width)
      matched == outer[Len(outer)] = width
      begun == [s EXCEPT !.pendingNewline = @ \/ s.breakPending, !.breakPending = FALSE,
                         !.newlinePos = IF s.breakPending THEN s.breakPos ELSE @,
                         !.tokensOnStatement = FALSE, !.atLineStart = FALSE]
  IN IF width > top
       THEN [begun EXCEPT !.indents = Append(@, width), !.pendingIndent = TRUE]
       ELSE [(IF matched THEN begun ELSE LexicalError(begun)) EXCEPT
               !.indents = IF matched THEN outer ELSE Append(outer, width),
               !.pendingDedents = @ + Len(s.indents) - Len(outer)]

(* Any other width continues the statement before it.                        *)
ContinuationLine(s) ==
  [(IF s.breakPending \/ s.tokensOnStatement THEN s ELSE LexicalError(s)) EXCEPT
     !.breakPending = FALSE, !.atLineStart = FALSE]
(* Mutated form: the break before it ends the statement after all.           *)
ContinuationLineBreaks(s) == StatementLine(s, s.indents[Len(s.indents)])

HandleLineStart(s) ==
  LET width == text[s.line].width
      begun == [s EXCEPT !.atLineStart = FALSE]
  IN CASE Ch(s) = "eof" -> begun
       [] Ch(s) = "eol" -> NextLine(s)
       [] Ch(s) = "//" -> RestOfLine(s)
       [] IsBlockComment(Ch(s)) -> [ScanBlockComment(s) EXCEPT !.atLineStart = FALSE]
       [] OTHER ->
            IF s.groupDepth > 0 THEN begun
            ELSE IF width % IndentUnit # 0 THEN ContinuationLine(s)
            ELSE StatementLine(s, width)

-----------------------------------------------------------------------------
(* next().                                                                   *)

ScanToken(s) ==
  LET ch == Ch(s)
      depth == CASE ch \in Opening -> s.groupDepth + 1
                 [] ch \in Closing /\ s.groupDepth > 0 -> s.groupDepth - 1
                 [] OTHER -> s.groupDepth
  IN [NextLexeme(s) EXCEPT !.tok = ch, !.pos = s.line, !.tokensOnStatement = TRUE, !.groupDepth = depth]

RECURSIVE Next(_)
Next(s) ==
  IF Pending(s) THEN EmitPending(s)
  ELSE IF s.atLineStart THEN Next(HandleLineStart(s))
  ELSE LET t == SkipInlineTrivia(s) IN
       IF Pending(t) THEN EmitPending(t)
       ELSE CASE Ch(t) = "eol" -> Next(EndLine(t))
              [] Ch(t) = "eof" /\ ~t.eofDrained -> Next(PrepareEofDrain(t))
              [] Ch(t) = "eof" /\ t.eofDrained -> [t EXCEPT !.tok = "eof"]
              [] Ch(t) = "!" -> Next(NextLexeme(LexicalError(t)))
              [] OTHER -> ScanToken(t)

(* The path of an import is one token: what adjoins it belongs to it.        *)
RECURSIVE RescanImportPath(_, _, _)
RescanImportPath(s, path, joins) ==
  IF Ch(s) \in joins
    THEN RescanImportPath(NextLexeme(s), Append(path, Ch(s)), joins)
    ELSE <<s, path>>
=============================================================================
