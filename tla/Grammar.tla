------------------------------ MODULE Grammar -------------------------------
(***************************************************************************)
(* The grammar (parse.y), with its precedences, as functions that read a   *)
(* construct from the state s of a parse and return [s, t] with its tree.  *)
(* A parser that yacc generates does the same steps in the same order: an  *)
(* action is run when its construct is complete, before the next token is  *)
(* known to be acceptable.                                                 *)
(***************************************************************************)
EXTENDS Lexer

\* What is read next: a token, or what a nonterminal stands for.  All that a
\* construct has inside another is read through here.
RECURSIVE read(_, _)

Look(s) == IF s.tok = NONE /\ s.bad = "" THEN read(s, "token") ELSE s
Is(s, kinds) == s.bad = "" /\ Look(s).tok.k \in kinds
\* the next token is read at once, except after a newline, where documents may follow
Skip(s) ==
  LET p == Look(s) rest == [p EXCEPT !.tok = NONE]
  IN  IF p.tok.k \in {"NL", "ENDFILE"} THEN rest ELSE Look(rest)
Result(s, t) == [s |-> s, t |-> t]
SyntaxError(s) == GiveUp(Look(s), "syntax")
Expect(s, k) == IF Is(s, {k}) THEN Skip(s) ELSE SyntaxError(s)

Keyword == "!" :> <<"!">> @@ "~" :> <<"~">> @@ "EXTRACT" :> <<"~", "~">> @@ "LOCAL" :> <<"local">> @@
           "LET" :> <<"let">> @@ "FOR" :> <<"for">> @@ "FN" :> <<"fn">> @@ "CLOSURE" :> <<"%closure">>
Binder == "LOCAL" :> "nLocal" @@ "LET" :> "nLet" @@ "FOR" :> "nFor" @@ "CLOSURE" :> "nClosure"
Comword == {"WORD", "QWORD", "(", "{", "@", "$", "CALL", "COUNT", "FLAT", "PRIM", "BQ", "BACKBACK"}
Sword == Comword \cup DOMAIN Keyword
Redir == {"REDIR", "DUP"}

\* commands, by how tight the operators in them bind: %left ANDAND OROR,
\* %left '!', %left PIPE; to the right of a pipe there are none
ANDOR == 1
NOT == 2
PIPE == 3
Prec == "cmd" :> ANDOR @@ "cmd in and" :> NOT @@ "cmd in not" :> PIPE @@ "cmd in pipe" :> PIPE + 1

\* lists, which are read by loops
RECURSIVE nl(_), wordtail(_, _), wordlist(_, _, _), params(_, _), bindings(_, _), simple(_, _), infix(_, _, _)

nl(s) == IF Is(s, {"NL"}) THEN nl(Skip(s)) ELSE s
caret(s) == IF Is(s, {"^"}) THEN Skip(s) ELSE s

-----------------------------------------------------------------------------
\* words: words in a row, of which nlwords may be on several lines
wordlist(s, list, lines) ==
  IF lines /\ Is(s, {"NL"}) THEN wordlist(Skip(s), list, lines)
  ELSE IF Is(s, Sword)
  THEN LET r == read(s, "word") IN wordlist(r.s, treeconsend(list, r.t), lines)
  ELSE Result(s, list)
words(s) == wordlist(s, NIL, FALSE)

\* the rest of word: '^' sword; a caret before '=' belongs to the assignment
wordtail(s, t) ==
  IF Is(s, {"^"}) /\ ~Is(Skip(s), {"="})
  THEN LET r == read(Skip(s), "sword") IN wordtail(r.s, mk2("nConcat", t, r.t))
  ELSE Result(s, t)
word1(s) == LET first == read(s, "sword") IN wordtail(first.s, first.t)

params(s, list) ==
  IF Is(s, {"WORD", "QWORD"})
  THEN LET r == read(s, "sword") IN params(r.s, treeconsend(list, r.t))
  ELSE Result(s, list)

braced(s) == LET b == read(Expect(s, "{"), "body") IN Result(Expect(b.s, "}"), b.t)
lambda(s) ==
  LET p == params(s, NIL) b == braced(p.s) IN Result(b.s, mklambda(p.t, b.t))

dollarword(s) ==
  LET v == read(s, "sword") IN
  IF Is(v.s, {"SUB"})
  THEN LET list == read(Skip(v.s), "words") IN Result(Expect(list.s, ")"), mk2("nVarsub", v.t, list.t))
  ELSE Result(v.s, mk1("nVar", v.t))

comword(s) ==
  LET p == Look(s)
      rest == Skip(s)
      Then(r, t) == Result(r.s, t)
  IN  IF ~Is(s, Comword) THEN Result(SyntaxError(s), NIL)
      ELSE CASE p.tok.k = "WORD" -> Result(rest, nWord(p.tok.str))
        [] p.tok.k = "QWORD" -> Result(rest, nQword(p.tok.str))
        [] p.tok.k = "(" -> LET r == wordlist(rest, NIL, TRUE) IN Result(Expect(r.s, ")"), r.t)
        [] p.tok.k = "{" -> LET r == braced(s) IN Then(r, thunkify(r.t))
        [] p.tok.k = "@" -> lambda(rest)
        [] p.tok.k = "$" -> dollarword(rest)
        [] p.tok.k = "CALL" -> LET r == read(rest, "sword") IN Then(r, mk1("nCall", r.t))
        [] p.tok.k = "COUNT" ->
             LET r == read(rest, "sword")
             IN  Then(r, mk1("nCall", prefix("%count", treecons(mk1("nVar", r.t), NIL))))
        [] p.tok.k = "FLAT" -> LET r == read(rest, "sword") IN Then(r, flatten(mk1("nVar", r.t), <<" ">>))
        [] p.tok.k = "PRIM" ->
             IF Is(rest, {"WORD"}) THEN Result(Skip(rest), mkleaf("nPrim", Look(rest).tok.str))
             ELSE Result(SyntaxError(rest), NIL)
        [] p.tok.k = "BQ" ->
             LET r == read(rest, "sword") IN Then(r, backquote(mk1("nVar", nWord(<<"ifs">>)), r.t))
        [] p.tok.k = "BACKBACK" ->
             LET ifs == read(rest, "word") r == read(ifs.s, "sword") IN Then(r, backquote(ifs.t, r.t))

sword(s) ==
  IF Is(s, DOMAIN Keyword) THEN Result(Skip(s), nWord(Keyword[Look(s).tok.k]))
  ELSE comword(s)

-----------------------------------------------------------------------------
assign(s, name) ==
  LET list == read(caret(Expect(caret(s), "=")), "words") IN Result(list.s, mk2("nAssign", name, list.t))

fn(s) ==
  LET name == read(Expect(s, "FN"), "word") IN
  IF Is(name.s, {"WORD", "QWORD", "{"})
  THEN LET l == lambda(name.s) IN Result(l.s, fnassign(name.t, l.t))
  ELSE Result(name.s, fnassign(name.t, NIL))

\* a binding, which may be missing; fn is a name when it is assigned to
binding(s) ==
  IF Is(s, {"FN"}) /\ ~Is(Skip(s), {"=", "^"}) THEN read(s, "fn")
  ELSE IF Is(s, Sword) THEN LET name == read(s, "word") IN assign(name.s, name.t)
  ELSE Result(s, NIL)
bindings(s, list) ==
  LET b == read(s, "binding") all == treeconsend2(list, b.t) IN
  IF Is(b.s, {";", "NL"}) THEN bindings(Skip(b.s), all) ELSE Result(b.s, all)

redir(s) ==
  LET p == Look(s) IN
  IF p.tok.k = "DUP" THEN Result(Skip(s), p.tok.tree)
  ELSE LET file == read(Skip(s), "word") IN mkredir(file.s, p.tok.tree, file.t)

\* simple: words and redirections in any order, after the first word
simple(s, t) ==
  IF Is(s, Sword) THEN LET r == read(s, "word") IN simple(r.s, treeconsend2(t, r.t))
  ELSE IF Is(s, Redir)
  THEN LET r == read(s, "redir") IN IF r.s.bad # "" THEN r ELSE simple(r.s, redirappend(t, r.t))
  ELSE Result(s, t)

\* the parse is given up when the outermost redirection is wrong
redirected(s, t) ==
  LET r == redirect(s, t) IN
  IF r.t = errornode THEN Result(GiveUp(r.s, "yyabort"), NIL) ELSE r

\* a command that begins with a word: an assignment, or a simple command
command(s) ==
  LET first == read(s, "word") IN
  IF Is(first.s, {"=", "^"}) THEN assign(first.s, first.t)
  ELSE LET c == simple(first.s, treecons2(first.t, NIL)) IN redirected(c.s, c.t)

\* what the operators take: a command with what it begins with
operand(s) ==
  LET k == Look(s).tok.k
      rest == Skip(s)
  IN  IF Is(s, Comword) THEN command(s)
      ELSE IF Is(s, {"FN"}) THEN read(s, "fn")
      ELSE IF Is(s, Redir)
      THEN LET r == read(s, "redir") c == read(r.s, "cmd in not")
           IN  IF c.s.bad # "" THEN c ELSE redirected(c.s, mk2("nRedir", r.t, c.t))
      ELSE IF Is(s, {"!"})
      THEN LET c == read(caret(rest), "cmd in not")
           IN  Result(c.s, prefix("%not", treecons(thunkify(c.t), NIL)))
      ELSE IF Is(s, {"~", "EXTRACT"})
      THEN LET subject == read(rest, "word") list == read(subject.s, "words")
           IN  Result(list.s, mk2(IF k = "~" THEN "nMatch" ELSE "nExtract", subject.t, list.t))
      ELSE Result(s, NIL)

\* local, let, for and %closure, which take all the operators behind them
binder(s) ==
  LET b == bindings(Expect(nl(Skip(s)), "("), NIL)
      c == read(nl(Expect(b.s, ")")), "cmd")
  IN  Result(c.s, mk2(Binder[Look(s).tok.k], b.t, c.t))

\* the operators behind a command, from left to right
infix(s, t, prec) ==
  LET k == Look(s).tok IN
  IF prec <= ANDOR /\ Is(s, {"ANDAND", "OROR"})
  THEN LET c == read(nl(Skip(s)), "cmd in and")
       IN  infix(c.s, mkseq(IF k.k = "ANDAND" THEN "%and" ELSE "%or", t, c.t), prec)
  ELSE IF Is(s, {"PIPE"})
  THEN LET c == read(nl(Skip(s)), "cmd in pipe")
       IN  IF prec <= PIPE THEN infix(c.s, mkpipe(t, k.fds[1], k.fds[2], c.t), prec) ELSE Result(s, t)
  ELSE Result(s, t)

\* cmd: a command, with the operators after it that bind at least as tight
cmd(s, prec) ==
  IF Is(s, DOMAIN Binder) THEN binder(s)
  ELSE LET c == read(s, "operand") IN infix(c.s, c.t, prec)

\* cmdsa: a command and its end
ended(s, t) ==
  IF Is(s, {"&"}) THEN prefix("%background", treecons(thunkify(t), NIL)) ELSE t

\* body: commands on one line or several, line: on one line
body(s) ==
  LET c == read(s, "cmd") IN
  IF Is(c.s, {";", "&", "NL"})
  THEN LET rest == IF Is(c.s, {"NL"}) THEN readheredocs(Skip(c.s), FALSE) ELSE Skip(c.s)
           b == read(rest, "body")
       IN  Result(b.s, mkseq("%seq", ended(c.s, c.t), b.t))
  ELSE c

line(s) ==
  LET c == read(s, "cmd") IN
  IF Is(c.s, {";", "&"})
  THEN LET l == read(Skip(c.s), "line") IN Result(l.s, mkseq("%seq", ended(c.s, c.t), l.t))
  ELSE c

-----------------------------------------------------------------------------
\* the end of a line, to which the rest of a wrong one is skipped
end(s) ==
  IF Is(s, {"NL", "ENDFILE"}) THEN readheredocs(Skip(s), Is(s, {"ENDFILE"}))
  ELSE IF s.bad = "" THEN read(Skip(s), "end") ELSE s

\* the documents, put where they belong
RECURSIVE Fill(_, _)
Fill(t, docs) ==
  IF t.kind = "nHere" THEN docs[t.id]
  ELSE [f \in DOMAIN t |-> IF f \in {"u0", "u1"} THEN Fill(t[f], docs) ELSE t[f]]

\* the state a parse starts in, after inityy and emptyherequeue
Fresh(in, dollar, ids) ==
  [in |-> in, w |-> "NW", dollar |-> dollar, goterror |-> FALSE, tok |-> NONE, hereq |-> <<>>,
   docs |-> <<>>, nhere |-> 0, ids |-> ids, error |-> FALSE, bad |-> ""]

yyparse(s) ==
  LET l == read(s, "line")
      done == IF Is(l.s, {"NL", "ENDFILE"}) THEN read(l.s, "end") ELSE SyntaxError(l.s)
      recovered == read([yyerror(done) EXCEPT !.bad = ""], "end")
  IN  CASE done.bad = "" -> [s |-> done, t |-> IF done.error THEN NIL ELSE Fill(l.t, done.docs)]
        [] done.bad = "syntax" -> Result(recovered, NIL)
        [] OTHER -> Result(done, NIL)

read(s, what) ==
  CASE what = "token" -> yylex(s)
    [] what = "sword" -> sword(s)
    [] what = "word" -> word1(s)
    [] what = "words" -> words(s)
    [] what = "fn" -> fn(s)
    [] what = "binding" -> binding(s)
    [] what = "redir" -> redir(s)
    [] what = "operand" -> operand(s)
    [] what = "body" -> body(s)
    [] what = "line" -> line(s)
    [] what = "end" -> end(s)
    [] what = "parse" -> yyparse(s)
    [] what \in DOMAIN Prec -> cmd(s, Prec[what])

\* parse: how it ends: "tree" with t, or "error", "signal", "assertion"
Outcome(r) ==
  [result |-> IF r.s.bad \in {"signal", "assertion"} THEN r.s.bad ELSE IF r.s.error THEN "error" ELSE "tree",
   t |-> r.t, in |-> r.s.in, dollar |-> r.s.dollar, goterror |-> r.s.goterror, ids |-> r.s.ids]
parse(in, dollar, ids) == Outcome(read(Fresh(in, dollar, ids), "parse"))

=============================================================================
