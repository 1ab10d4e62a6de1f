------------------------------- MODULE Lexer --------------------------------
(***************************************************************************)
(* The lexer (token.c), and the here documents that are read at the ends   *)
(* of lines (heredoc.c).                                                   *)
(*                                                                         *)
(* The state s of a parse has                                              *)
(*   in        the characters not read yet                                 *)
(*   w         the static w: whether a word or a keyword was just read     *)
(*   dollar, goterror   the statics of these names                         *)
(*   tok       the token the parser looks at, NONE when it must ask yylex  *)
(* At the end of in GETC() returns EOF; in may end in SIG, where a signal  *)
(* arrives while the shell waits for input and its exception abandons the  *)
(* parse.  Characters that are pushed back are simply not taken from in.   *)
(***************************************************************************)
EXTENDS Syntax

CONSTANT NullNames  \* what the test for an empty variable name in a here
                    \* document finds in the buffer that was just freed

EOF == "EOF"
SIG == "SIG"
NONE == [k |-> "none"]
Tok(k) == [k |-> k]
CLOSED == -1
DEFAULT == -2

Digit == {ToString(i) : i \in 0 .. 9}
ValueOf(c) == CHOOSE i \in 0 .. 9 : ToString(i) = c

\* characters that are not part of a word (the table nw), of a name (dnw)
nw == {" ", "\t", "\n", "!", "#", "$", "&", "'", "(", ")", ";", "<", "=", ">",
       "\\", "^", "BQ", "{", "|", "}", EOF, SIG}
dnw == nw \cup {"+", ",", ".", "/", ":", "?", "@", "[", "]", "~", "^A", "BEL"}

\* the character at place i, and the rest of a text from place i on
At(in, i) == IF i <= Len(in) THEN in[i] ELSE EOF
Rest(in, i) == SubSeq(in, i, Len(in))
\* how many characters from place i on are in a set, or are in none of a
\* set of ends, to which EOF and SIG always belong
RECURSIVE Run(_, _, _)
Run(in, i, set) == IF At(in, i) \in set THEN 1 + Run(in, i + 1, set) ELSE 0
RECURSIVE Until(_, _, _)
Until(in, i, ends) == IF At(in, i) \in ends THEN 0 ELSE 1 + Until(in, i + 1, ends)
Ends(c) == {c, EOF, SIG}

-----------------------------------------------------------------------------
Interrupted(s) == GiveUp(s, "signal")

\* Fault: the rest of the line is left to be read.
scanerrorkeep(s, i) ==
  IF At(s.in, i - 1) = SIG THEN Interrupted(s)
  ELSE yyerror([s EXCEPT !.in = Rest(@, i), !.goterror = TRUE, !.tok = Tok("ERROR")])

\* scanerror: the rest of the line is dropped, from place i on
scanerror(s, i) ==
  LET j == i + Until(s.in, i, Ends("\n")) IN
  IF SIG \in {At(s.in, i - 1), At(s.in, j)} THEN Interrupted([s EXCEPT !.in = Rest(@, j)])
  ELSE yyerror([s EXCEPT !.in = Rest(@, j + 1), !.goterror = TRUE, !.tok = Tok("ERROR")])

\* a token that ends before place i; w after it
Token(s, tok, i, w1) == [s EXCEPT !.in = Rest(@, i), !.tok = tok, !.w = w1]

-----------------------------------------------------------------------------
(* getfds: the descriptors in brackets from place i on: [ok, fd, at], with *)
(* at the place behind what was read.                                      *)
Decimal(in, i, n) == FoldLeft(LAMBDA v, c : 10 * v + ValueOf(c), 0, SubSeq(in, i, i + n - 1))

getfds(in, i, default0, default1) ==
  IF At(in, i) # "[" THEN [ok |-> TRUE, fd |-> <<default0, default1>>, at |-> i]
  ELSE LET m == Run(in, i + 1, Digit)
           j == i + 1 + m
           n == Run(in, j + 1, Digit)
           k == j + 1 + n
           first == Decimal(in, i + 1, m)
       IN  CASE m > 0 /\ At(in, j) = "]" -> [ok |-> TRUE, fd |-> <<first, default1>>, at |-> j + 1]
             [] m > 0 /\ At(in, j) = "=" /\ At(in, k) = "]" ->
                  [ok |-> TRUE, at |-> k + 1,
                   fd |-> <<first, IF n = 0 THEN CLOSED ELSE Decimal(in, j + 1, n)>>]
             [] m > 0 /\ At(in, j) = "=" -> [ok |-> FALSE, fd |-> <<>>, at |-> k + 1]
             [] OTHER -> [ok |-> FALSE, fd |-> <<>>, at |-> j + 1]

\* redirection operators, longer ones first, with the command and the
\* descriptor they stand for
Op(str, cmd, fd) == [str |-> str, cmd |-> cmd, fd |-> fd]
Redirections ==
  << Op(<<"<", ">", ">">>, "%open-append", 0), Op(<<"<", ">">>, "%open-write", 0),
     Op(<<"<", "<", "<">>, "%here", 0), Op(<<"<", "<">>, "%heredoc", 0), Op(<<"<">>, "%open", 0),
     Op(<<">", ">", "<">>, "%open-append", 1), Op(<<">", ">">>, "%append", 1),
     Op(<<">", "<">>, "%open-create", 1), Op(<<">">>, "%create", 1) >>
Redirection(in) ==
  Redirections[CHOOSE k \in DOMAIN Redirections :
                 /\ IsPrefix(Redirections[k].str, in)
                 /\ \A l \in 1 .. k - 1 : ~IsPrefix(Redirections[l].str, in)]

redirection(s) ==
  LET r == Redirection(s.in)
      g == getfds(s.in, Len(r.str) + 1, r.fd, DEFAULT)
      tree == CASE g.fd[2] = DEFAULT -> mkredircmd(r.cmd, g.fd[1])
                [] g.fd[2] = CLOSED -> mkclose(g.fd[1])
                [] OTHER -> mkdup(g.fd[1], g.fd[2])
  IN  IF ~g.ok THEN scanerror([s EXCEPT !.w = "NW"], g.at)
      ELSE Token(s, [k |-> IF g.fd[2] = DEFAULT THEN "REDIR" ELSE "DUP", tree |-> tree], g.at, "NW")

pipe(s) ==
  LET g == getfds(s.in, 2, 1, 0) IN
  IF At(s.in, 2) = "|" THEN Token(s, Tok("OROR"), 3, "NW")
  ELSE IF ~g.ok \/ g.fd[2] = CLOSED THEN scanerror([s EXCEPT !.w = "NW"], g.at)
  ELSE Token(s, [k |-> "PIPE", fds |-> g.fd], g.at, "NW")

-----------------------------------------------------------------------------
Keywords ==
  <<"@">> :> "@" @@ <<"~">> :> "~" @@ <<"~", "~">> :> "EXTRACT" @@ <<"fn">> :> "FN" @@
  <<"for">> :> "FOR" @@ <<"local">> :> "LOCAL" @@ <<"let">> :> "LET" @@ <<"%closure">> :> "CLOSURE"

word(s, meta) ==
  LET n == Until(s.in, 1, meta)
      str == SubSeq(s.in, 1, n)
  IN  IF At(s.in, n + 1) = SIG THEN Interrupted([s EXCEPT !.in = Rest(@, n + 1)])
      ELSE IF str \in DOMAIN Keywords THEN Token(s, Tok(Keywords[str]), n + 1, "KW")
      ELSE Token(s, [k |-> "WORD", str |-> str], n + 1, "RW")

\* a quoted word, without its quotes; two quotes stand for one
RECURSIVE InQuotes(_, _)
InQuotes(in, i) ==
  LET n == Until(in, i, Ends("'"))
      j == i + n
  IN  IF At(in, j) # "'" THEN [str |-> <<>>, end |-> At(in, j), at |-> j]
      ELSE IF At(in, j + 1) = "'"
      THEN LET r == InQuotes(in, j + 2) IN [r EXCEPT !.str = SubSeq(in, i, j - 1) \o <<"'">> \o @]
      ELSE [str |-> SubSeq(in, i, j - 1), end |-> "'", at |-> j + 1]

quoted(s) ==
  LET q == InQuotes(s.in, 2) IN
  CASE q.end = "'" -> Token(s, [k |-> "QWORD", str |-> q.str], q.at, "RW")
    [] q.end = SIG -> Interrupted([s EXCEPT !.in = Rest(@, q.at)])
    [] OTHER -> scanerror([s EXCEPT !.w = "NW"], q.at)

Letters == "a" :> "BEL" @@ "b" :> "BS" @@ "e" :> "ESC" @@ "f" :> "FF" @@ "n" :> "\n" @@
           "r" :> "CR" @@ "t" :> "\t"
Alnum == Digit \cup {"a", "b", "c", "d", "e", "f", "n", "q", "r", "t", "x"}
HexDigit == [c \in Digit |-> ValueOf(c)] @@
            "a" :> 10 @@ "b" :> 11 @@ "c" :> 12 @@ "d" :> 13 @@ "e" :> 14 @@ "f" :> 15
OctalDigit == [c \in {ToString(i) : i \in 0 .. 7} |-> ValueOf(c)]
\* the characters of a few codes, others by their number; a zero ends the word
Chars == 1 :> "^A" @@ 7 :> "BEL" @@ 9 :> "\t" @@ 10 :> "\n"
Byte(n) == IF n % 256 = 0 THEN <<>> ELSE IF n % 256 \in DOMAIN Chars THEN <<Chars[n % 256]>> ELSE Number(n % 256)

\* an escape with digits from place i on, in base Cardinality(DOMAIN values)
Escape(s, i, values, base) ==
  LET n == Run(s.in, i, DOMAIN values)
      v == FoldLeft(LAMBDA acc, c : base * acc + values[c], 0, SubSeq(s.in, i, i + n - 1))
  IN  CASE At(s.in, i + n) = SIG -> Interrupted([s EXCEPT !.in = Rest(@, i + n)])
        [] v = 0 -> scanerror([s EXCEPT !.w = "RW"], i + n + 1)
        [] OTHER -> Token(s, [k |-> "QWORD", str |-> Byte(v)], i + n, "RW")

backslash(s) ==
  LET c == At(s.in, 2) IN
  CASE c = SIG -> Interrupted([s EXCEPT !.in = Rest(@, 2)])
    [] c = EOF -> scanerror(s, 2)
    [] s.w # "NW" -> Token(s, Tok("^"), 1, "NW")
    [] c \in DOMAIN Letters -> Token(s, [k |-> "QWORD", str |-> <<Letters[c]>>], 3, "RW")
    [] c = "x" -> Escape(s, 3, HexDigit, 16)
    [] c \in DOMAIN OctalDigit -> Escape(s, 2, OctalDigit, 8)
    [] c \in Alnum \ ({"x"} \cup DOMAIN Letters \cup DOMAIN OctalDigit) -> scanerror([s EXCEPT !.w = "RW"], 3)
    [] OTHER -> Token(s, [k |-> "QWORD", str |-> <<c>>], 3, "RW")

variable(s) ==
  LET c == At(s.in, 2)
      s1 == [s EXCEPT !.dollar = TRUE]
  IN  CASE c = SIG -> Interrupted([s1 EXCEPT !.in = Rest(@, 2)])
        [] c = "#" -> Token(s1, Tok("COUNT"), 3, s.w)
        [] c = "^" -> Token(s1, Tok("FLAT"), 3, s.w)
        [] c = "&" -> Token(s1, Tok("PRIM"), 3, s.w)
        [] OTHER -> Token(s1, Tok("$"), 2, s.w)

newline(s, i) == Token(s, Tok("NL"), i + 1, "NW")
comment(s) ==
  LET j == 1 + Until(s.in, 1, Ends("\n")) IN
  CASE At(s.in, j) = "\n" -> newline(s, j)
    [] At(s.in, j) = SIG -> Interrupted([s EXCEPT !.in = Rest(@, j)])
    [] OTHER -> Token(s, Tok("ENDFILE"), j, s.w)

\* one character, or two of the same
Double(s, c, double) ==
  CASE At(s.in, 2) = c -> Token(s, Tok(double), 3, IF c = "&" THEN "NW" ELSE s.w)
    [] At(s.in, 2) = SIG -> Interrupted([s EXCEPT !.in = Rest(@, 2)])
    [] OTHER -> Token(s, Tok(c), 2, IF c = "&" THEN "NW" ELSE s.w)

-----------------------------------------------------------------------------
\* blanks, and newlines after a backslash, separate words
RECURSIVE blanks(_)
blanks(s) ==
  CASE At(s.in, 1) \in {" ", "\t"} -> blanks([s EXCEPT !.in = Tail(@), !.w = "NW"])
    [] At(s.in, 1) = "\\" /\ At(s.in, 2) = "\n" -> blanks([s EXCEPT !.in = Rest(@, 3), !.w = "NW"])
    [] OTHER -> s

\* whether a caret is inserted before what begins with c
InsertFreeCaret(s, c, meta) == s.w # "NW" /\ (c \notin meta \/ c \in {"BQ", "!", "$", "'"})

Symbol(s, c, meta) ==
  CASE c = EOF -> Token(s, Tok("ENDFILE"), 1, s.w)
    [] c = SIG -> Interrupted(s)
    [] InsertFreeCaret(s, c, meta) -> Token(s, Tok("^"), 1, "NW")
    [] c \notin meta -> word(s, meta)
    [] c = "!" -> Token(s, Tok("!"), 2, "KW")
    [] c = "BQ" -> Double(s, "BQ", "BACKBACK")
    [] c = "$" -> variable(s)
    [] c = "'" -> quoted(s)
    [] c = "\\" -> backslash(s)
    [] c = "#" -> comment(s)
    [] c = "\n" -> newline(s, 1)
    [] c = "(" -> Token(s, Tok(IF s.w = "RW" THEN "SUB" ELSE "("), 2, "NW")
    [] c \in {";", "^", ")", "=", "{", "}"} -> Token(s, Tok(c), 2, "NW")
    [] c = "&" -> Double(s, "&", "ANDAND")
    [] c = "|" -> pipe(s)
    [] At(s.in, 2) = SIG /\ c \in {"<", ">"} -> Interrupted([s EXCEPT !.in = Rest(@, 2)])
    [] c = "<" /\ At(s.in, 2) = "=" -> Token(s, Tok("CALL"), 3, s.w)
    [] c \in {"<", ">"} -> redirection(s)
    [] OTHER -> Token(s, Tok(c), 2, "NW")

yylex(s) ==
  IF s.goterror THEN [s EXCEPT !.goterror = FALSE, !.tok = Tok("NL")]
  ELSE LET s1 == blanks([s EXCEPT !.dollar = FALSE])
       IN  Symbol(s1, At(s1.in, 1), IF s.dollar THEN dnw ELSE nw)

-----------------------------------------------------------------------------
(* Here documents.  The lines of a document up to its end marker become a  *)
(* word, or a list of words where it has variables: nodes are the words    *)
(* made so far, buf is the text since the last of them.                    *)
Flush(nodes, buf) == IF buf = <<>> THEN nodes ELSE Append(nodes, nQword(buf))

\* a variable in a document, whose name begins at place i of the line
getherevar(line, i) ==
  LET n == Until(line, i, dnw)
      name == SubSeq(line, i, i + n - 1)
  IN  [tree |-> flatten(mk1("nVar", nWord(name)), <<" ">>), null |-> name = <<>>,
       at |-> IF At(line, i + n) = "^" THEN i + n + 1 ELSE i + n]

RECURSIVE expand(_, _, _)
expand(line, nodes, buf) ==
  LET i == 1 + Until(line, 1, Ends("$"))
      text == buf \o SubSeq(line, 1, i - 1)
      var == getherevar(line, i + 1)
  IN  IF At(line, i) # "$" THEN [nodes |-> nodes, buf |-> text, null |-> FALSE]
      ELSE IF At(line, i + 1) = "$" THEN expand(Rest(line, i + 2), nodes, Append(text, "$"))
      ELSE IF var.null /\ NullNames THEN [nodes |-> nodes, buf |-> text, null |-> TRUE]
      ELSE expand(Rest(line, var.at), Append(Flush(nodes, text), var.tree), <<>>)

RECURSIVE ListOf(_)
ListOf(nodes) == IF nodes = <<>> THEN NIL ELSE treecons(Head(nodes), ListOf(Tail(nodes)))

RECURSIVE snarfheredoc(_, _, _, _)
snarfheredoc(s, h, nodes, buf) ==
  LET n == Until(s.in, 1, Ends("\n"))
      line == SubSeq(s.in, 1, n)
      end == At(s.in, n + 1)
      s1 == [s EXCEPT !.in = Rest(@, n + 2)]
      all == IF buf = <<>> /\ nodes # <<>> THEN nodes ELSE Append(nodes, nQword(buf))
      more == IF h.quoted THEN [nodes |-> nodes, buf |-> buf \o Append(line, "\n"), null |-> FALSE]
              ELSE expand(Append(line, "\n"), nodes, buf)
  IN  CASE line = h.eof /\ end # SIG ->
             [s1 EXCEPT !.docs = @ @@ (h.id :> IF Len(all) = 1 THEN all[1] ELSE ListOf(all))]
        [] end = SIG -> Interrupted([s EXCEPT !.in = <<SIG>>])
        [] end = EOF \/ more.null -> GiveUp(yyerror(s1), "yyabort")
        [] OTHER -> snarfheredoc(s1, h, more.nodes, more.buf)

\* readheredocs: the documents that wait are read, or reported at end of file
RECURSIVE readheredocs(_, _)
readheredocs(s, endfile) ==
  IF s.hereq = <<>> \/ s.bad # "" THEN s
  ELSE IF endfile \/ "\n" \in ToSet(Head(s.hereq).eof) THEN GiveUp(yyerror(s), "yyabort")
  ELSE LET s1 == snarfheredoc(s, Head(s.hereq), <<>>, <<>>)
       IN  IF s1.bad # "" THEN s1 ELSE readheredocs([s1 EXCEPT !.hereq = Tail(@)], endfile)

=============================================================================
