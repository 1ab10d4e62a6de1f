------------------------------ MODULE Language ------------------------------
(***************************************************************************)
(* Commands as text, as trees and as text again: jobs for the parser and   *)
(* the printer, and what they must give.                                   *)
(*                                                                         *)
(* A job is a text that is parsed, and printed and parsed again as the     *)
(* shell does when it passes a function on in the environment; a command,  *)
(* written the way its author would; a string, a name, a value or a        *)
(* closure that is converted and converted back; or one line after others, *)
(* with what they left in the statics of the lexer.                        *)
(***************************************************************************)
EXTENDS Printing

CONSTANTS
  Pieces,     \* pieces of text
  MaxPieces,  \* bound: pieces in a text that is parsed
  Commands,   \* commands to write and parse
  Strings,    \* words to quote
  Names,      \* names of variables
  Values,     \* lists of strings in the environment
  Closures,   \* closures, as [bindings, tree]
  Lines,      \* lines of an interactive session
  NameLengths \* lengths of names in the environment

VARIABLES job, out,
  dollar   \* the static dollar of yylex

vars == <<job, out, dollar>>

-----------------------------------------------------------------------------
(* Trees that mean the same: lists inside lists are spliced, carets are    *)
(* taken in any order, a call of a block is a call of its command, and a   *)
(* lambda without parameters has the parameter star.                       *)
RECURSIVE Norm(_), Items(_), Parts(_)
Items(t) ==
  IF t = NIL THEN <<>>
  ELSE IF t.kind = "nList" THEN Items(t.u0) \o Items(t.u1) ELSE <<Norm(t)>>
Parts(t) ==
  LET i == Items(t) IN
  IF Len(i) = 1 /\ i[1].kind = "joined" THEN i[1].parts ELSE <<Norm(t)>>

\* quoted words with a caret between them are one quoted word
Merge(parts) ==
  FoldLeft(LAMBDA acc, p :
             IF acc # <<>> /\ p.kind = "nQword" /\ Last(acc).kind = "nQword"
             THEN Append(Front(acc), nQword(Last(acc).str \o p.str)) ELSE Append(acc, p),
           <<>>, parts)
Concat(parts) == IF Len(parts) = 1 THEN parts[1] ELSE [kind |-> "joined", parts |-> parts]

Norm(t) ==
  CASE t = NIL -> NIL
    [] t.kind = "nList" -> LET i == Items(t) IN IF Len(i) = 1 THEN i[1] ELSE ListOf(i)
    [] t.kind = "nConcat" -> Concat(Merge(Parts(t.u0) \o Parts(t.u1)))
    [] t.kind = "nCall" /\ t.u0.kind = "nThunk" -> mk1("nCall", Norm(t.u0.u0))
    [] t.kind = "nLambda" /\ t.u0 = NIL -> mklambda(nWord(<<"*">>), Norm(t.u1))
    [] OTHER -> [f \in DOMAIN t |-> IF f \in {"u0", "u1"} THEN Norm(t[f]) ELSE t[f]]

-----------------------------------------------------------------------------
(* What a tree tells the shell to do, as a command: a record with an op.   *)
(*   run, words                assign, name, words     fn, name, c         *)
(*   match, subject, words     local, let, for: binds, c                   *)
(*   seq, and, or, cs          not, background, c      pipe, cs, fds       *)
(*   redir, how, c             none                                        *)
(* A word is its tree, how a redirection is made is a sequence of words.   *)
None == [op |-> "none"]
Several(op, cs) == IF Len(cs) = 1 THEN cs[1] ELSE [op |-> op, cs |-> cs]
\* commands of the same kind inside one another are in one sequence
Splice(op, cs) == FlattenSeq([i \in DOMAIN cs |-> IF cs[i].op = op THEN cs[i].cs ELSE <<cs[i]>>])
Wrapper == {"%open", "%create", "%append", "%open-append", "%open-write", "%open-create",
            "%here", "%close", "%dup", "%readfrom", "%writeto"}
Sequences == "%seq" :> "seq" @@ "%and" :> "and" @@ "%or" :> "or"

RECURSIVE Mean(_)
Pipe(cs, fds) ==
  [op |-> "pipe", cs |-> Splice("pipe", cs),
   fds |-> FlattenSeq([i \in DOMAIN cs |->
             (IF cs[i].op = "pipe" THEN cs[i].fds ELSE <<>>) \o (IF i \in DOMAIN fds THEN <<fds[i]>> ELSE <<>>)])]
Every(ws, from, step) == [i \in 1 .. (Len(ws) - from) \div step + 1 |-> ws[from + step * (i - 1)]]

Mean(t) ==
  LET n == Norm(t)
      ws == Items(n)
      op == IF ws # <<>> /\ ws[1].kind = "nWord" /\ Len(ws[1].str) = 1 THEN ws[1].str[1] ELSE ""
      args == Tail(ws)
  IN  CASE n = NIL -> None
        [] n.kind = "nThunk" -> Mean(n.u0)
        [] n.kind = "nAssign" /\ n.u1.kind = "nLambda" -> [op |-> "fn", name |-> n.u0, c |-> Mean(n.u1.u1)]
        [] n.kind = "nAssign" -> [op |-> "assign", name |-> n.u0, words |-> Items(n.u1)]
        [] n.kind = "nMatch" -> [op |-> "match", subject |-> n.u0, words |-> Items(n.u1)]
        [] n.kind \in {"nLocal", "nLet", "nFor"} ->
             [op |-> n.kind, c |-> Mean(n.u1),
              binds |-> [i \in DOMAIN Items(n.u0) |-> LET b == Items(n.u0)[i] IN <<b.u0, Items(b.u1)>>]]
        [] op \in DOMAIN Sequences ->
             Several(Sequences[op], Splice(Sequences[op], [i \in DOMAIN args |-> Mean(args[i])]))
        [] op = "%not" -> [op |-> "not", c |-> Mean(args[1])]
        [] op = "%background" -> [op |-> "background", c |-> Mean(args[1])]
        [] op = "%pipe" ->
             LET stages == Every(args, 1, 3) IN
             Pipe([i \in DOMAIN stages |-> Mean(stages[i])],
                  [i \in 1 .. Len(stages) - 1 |-> <<args[3 * i - 1], args[3 * i]>>])
        [] op \in Wrapper /\ Last(ws).kind = "nThunk" ->
             [op |-> "redir", how |-> Front(ws), c |-> Mean(Last(ws))]
        [] OTHER -> [op |-> "run", words |-> ws]

-----------------------------------------------------------------------------
(* A command as it is written, from the same records, where a word is      *)
(* [text, tree], how is [text, words, extra, doc] (extra the words it      *)
(* gives the command, doc the text of its here document) and fds is        *)
(* [text, words].        Braces    *)
(* are written where the precedences of the grammar ask for them.  last    *)
(* says that no operator follows; with early, redirections of simple       *)
(* commands are written before them.                                       *)
RECURSIVE Write(_, _, _, _), Means(_), Documents(_)
Spaced(ws) == FlattenSeq([i \in DOMAIN ws |-> <<" ">> \o ws[i].text])
Brace(text) == <<"{">> \o text \o <<"}">>

RECURSIVE IsSimple(_), Plainly(_), Hows(_)
IsSimple(c) == c.op = "run" \/ (c.op = "redir" /\ IsSimple(c.c))
\* a simple command without its redirections, and these, outermost first
Plainly(c) == IF c.op = "redir" THEN Plainly(c.c) ELSE c
Hows(c) == IF c.op = "redir" THEN <<" ">> \o c.how.text \o Hows(c.c) ELSE <<>>

\* whether the redirection of c is written before it: it is then that of a
\* whole pipeline
Leads(c, early) == c.op = "redir" /\ (~IsSimple(c) \/ (early /\ c.how.extra = <<>>))

Bound(c, prec, last, early) ==
  CASE c.op \in {"none", "seq", "background"} -> prec = 0
    [] c.op \in {"and", "or"} -> prec <= ANDOR
    [] c.op = "pipe" -> prec <= PIPE
    [] c.op = "not" \/ Leads(c, early) -> prec <= NOT \/ last
    [] c.op \in {"nLocal", "nLet", "nFor"} -> last
    [] OTHER -> TRUE

Write(c, prec, last, early) ==
  IF ~Bound(c, prec, last, early) THEN Brace(Write(c, 0, TRUE, early))
  ELSE CASE c.op = "none" -> <<>>
    [] c.op = "run" -> Tail(Spaced(c.words))
    [] c.op = "assign" -> c.name.text \o <<" ", "=">> \o Spaced(c.words)
    [] c.op = "match" -> <<"~", " ">> \o c.subject.text \o Spaced(c.words)
    [] c.op = "fn" -> <<"fn", " ">> \o c.name.text \o <<" ">> \o Brace(Write(c.c, 0, TRUE, early))
    [] c.op \in DOMAIN KeywordOf ->
         <<KeywordOf[c.op], " ", "(">>
           \o Join([i \in DOMAIN c.binds |-> c.binds[i][1].text \o <<"=">> \o Spaced(c.binds[i][2])], <<";">>)
           \o <<")", " ">> \o Write(c.c, ANDOR, TRUE, early)
    [] c.op = "seq" -> Write(c.cs[1], ANDOR, TRUE, early) \o <<IF early THEN "\n" ELSE ";">>
                         \o Write(c.cs[2], 0, TRUE, early)
    [] c.op = "background" -> Write(c.c, ANDOR, TRUE, early) \o <<"&">>
    [] c.op = "and" -> Write(c.cs[1], ANDOR, FALSE, early) \o <<"&", "&">> \o Write(c.cs[2], NOT, last, early)
    [] c.op = "or" -> Write(c.cs[1], ANDOR, FALSE, early) \o <<"|", "|">> \o Write(c.cs[2], NOT, last, early)
    [] c.op = "pipe" -> Write(c.cs[1], PIPE, FALSE, early) \o <<"|">> \o c.fds.text \o <<" ">>
                          \o Write(c.cs[2], PIPE + 1, last, early)
    [] c.op = "not" -> <<"!", " ">> \o Write(c.c, PIPE, last, early)
    [] Leads(c, early) -> c.how.text \o <<" ">> \o Write(c.c, PIPE, last, early)
    [] OTHER -> Write(Plainly(c), PIPE, last, early) \o Hows(c)

RECURSIVE Given(_, _)
\* a command with more words
Given(c, ws) ==
  IF c.op = "redir" THEN [c EXCEPT !.c = Given(@, ws)]
  ELSE IF c.op = "run" THEN [c EXCEPT !.words = @ \o ws] ELSE c

Parsed(ws) == FlattenSeq([i \in DOMAIN ws |-> Items(ws[i].tree)])
TwoOf(op, cs) == Several(op, Splice(op, cs))
Means(c) ==
  CASE c.op = "none" -> None
    [] c.op = "run" -> [c EXCEPT !.words = Parsed(@)]
    [] c.op = "assign" -> [c EXCEPT !.name = Norm(@.tree), !.words = Parsed(@)]
    [] c.op = "match" -> [c EXCEPT !.subject = Norm(@.tree), !.words = Parsed(@)]
    [] c.op = "fn" -> [c EXCEPT !.name = Norm(mk2("nConcat", nWord(<<"fn-">>), @.tree)), !.c = Means(@)]
    [] c.op \in DOMAIN KeywordOf ->
         [c EXCEPT !.binds = [i \in DOMAIN @ |-> <<Norm(@[i][1].tree), Parsed(@[i][2])>>], !.c = Means(@)]
    [] c.op = "seq" /\ c.cs[2] = None -> Means(c.cs[1])
    [] c.op \in {"seq", "and", "or"} -> TwoOf(c.op, [i \in DOMAIN c.cs |-> Means(c.cs[i])])
    [] c.op = "pipe" ->
         Pipe([i \in DOMAIN c.cs |-> Means(c.cs[i])],
              <<c.fds.words>>)
    [] c.op = "redir" -> [c EXCEPT !.how = Parsed(@.words), !.c = Given(Means(@), c.how.extra)]
    [] OTHER -> [c EXCEPT !.c = Means(@)]

\* the here documents of a command, in the order they are written in
Documents(c) ==
  CASE c.op \in {"seq", "and", "or", "pipe"} -> Documents(c.cs[1]) \o Documents(c.cs[2])
    [] c.op = "redir" -> c.how.doc \o Documents(c.c)
    [] c.op \in {"none", "run", "assign", "match"} -> <<>>
    [] OTHER -> Documents(c.c)
\* lines in a row need braces around them
Whole(c, early) ==
  LET text == Write(c, 0, TRUE, early)
  IN  (IF early THEN Brace(text) ELSE text) \o <<"\n">> \o Documents(c)

-----------------------------------------------------------------------------
Printed(t) == Append(Tconv(t, FALSE), "\n")
Reparsed(r) == IF r.result = "tree" THEN parse(Printed(r.t), FALSE, 0) ELSE r

Idle == [kind |-> "none"]
Init == job = Idle /\ out = <<>> /\ dollar = FALSE

Start == job = Idle
Do(j, result) == job' = j /\ out' = result /\ UNCHANGED dollar

Twice(r) == [first |-> r, second |-> Reparsed(r)]
Imported(r) == IF r.result = "tree" THEN extractbindings(r.t) ELSE NoClosure
Parse(text) == Twice(parse(text, FALSE, 0))

ParseText == Start /\ \E n \in 0 .. MaxPieces : \E pieces \in [1 .. n -> Pieces] :
  Do([kind |-> "text", text |-> FlattenSeq(pieces)], Parse(FlattenSeq(pieces)))
ParseCommand == Start /\ \E c \in Commands, early \in BOOLEAN :
  Do([kind |-> "command", c |-> c, early |-> early], Parse(Whole(c, early)))
\* a string as the argument of a command
QuoteWord == Start /\ \E str \in Strings :
  Do([kind |-> "word", str |-> str], parse(<<"a", " ">> \o Sconv(str, FALSE) \o <<"\n">>, FALSE, 0))
PassName == Start /\ \E name \in Names : Do([kind |-> "name", name |-> name], Nconv(Fconv(name)))
PassValue == Start /\ \E list \in Values : Do([kind |-> "value", list |-> list], importvar(Wconv(list)))
PassClosure == Start /\ \E closure \in Closures :
  Do([kind |-> "closure", closure |-> closure],
     Imported(parse(Append(Cconv(closure), "\n"), FALSE, 0)))
ReadName == Start /\ \E n \in NameLengths : Do([kind |-> "length", n |-> n], namebuffer(n, 4, 4))

\* one line of a session after another, with a line to come: dollar stays,
\* which inityy does not reset
Waiting == <<"b", "\n">>
NextLine == job.kind \in {"none", "line"} /\ \E text \in Lines :
  LET cut == text # <<>> /\ Last(text) = SIG IN
  \E r \in {parse(IF cut THEN text ELSE Append(text, "\n") \o Waiting, dollar, 0)} :
  /\ job' = [kind |-> "line", text |-> text, dollar |-> dollar]
  /\ out' = r
  /\ dollar' = r.dollar

Next == \/ NextLine \/ QuoteWord \/ PassName \/ PassValue \/ PassClosure \/ ReadName
        \/ ParseText \/ ParseCommand
Spec == Init /\ [][Next]_vars

-----------------------------------------------------------------------------
\* ParsesAsWritten: the tree of a command tells the shell to do what was
\* written: operators bind as the grammar says, sequences and pipelines keep
\* their order however they are spliced, redirections apply from left to
\* right, here documents and bindings are those of their own command
\* (token.c, parse.y, syntax.c, heredoc.c).
ParsesAsWritten ==
  job.kind = "command" =>
    out.first.result = "tree" /\ out.first.in = <<>> /\ Mean(out.first.t) = Means(job.c)

\* The trees that the printer writes in a form the parser reads otherwise:
\* a command whose first word is an unquoted keyword, an unprintable
\* character in the name of a variable or parameter, a subscripted variable
\* whose name is not one word.
RECURSIVE FirstLeaf(_)
FirstLeaf(t) ==
  CASE t.kind \in {"nList", "nAssign"} -> FirstLeaf(t.u0)
    [] t.kind = "joined" -> FirstLeaf(t.parts[1])
    [] OTHER -> t
RECURSIVE Nodes(_)
Nodes(t) ==
  {t} \cup CASE t.kind = "joined" -> UNION {Nodes(t.parts[i]) : i \in DOMAIN t.parts}
             [] OTHER -> UNION {Nodes(t[f]) : f \in DOMAIN t \cap {"u0", "u1"}}
Keywordlike(t) == LET w == FirstLeaf(t) IN w.kind = "nWord" /\ w.str \in {Keyword[k] : k \in DOMAIN Keyword}
Unprinted(t) == t.kind = "nQword" /\ ToSet(t.str) \cap Unprintable # {}
Awkward(t) ==
  \/ Keywordlike(t)
  \/ \E n \in Nodes(t) :
       \/ n.kind \in {"nThunk", "nCall"} /\ Keywordlike(n.u0)
       \/ n.kind \in {"nLambda"} \cup DOMAIN KeywordOf /\ Keywordlike(n.u1)
       \/ n.kind \in {"nVar", "nVarsub"} /\ (n.u0 = NIL \/ Unprinted(n.u0))
       \/ n.kind = "nLambda" /\ \E i \in DOMAIN Items(n.u0) : Unprinted(Items(n.u0)[i])
       \/ n.kind = "nVarsub" /\ n.u0.kind \notin {"nWord", "nQword", "nPrim", "nVar"}

\* PrintsBack: a tree that is printed, as a function is for the environment
\* or for its user, and read again is the same tree (conv.c, token.c, parse.y).
PrintsBack ==
  job.kind \in {"text", "command"} /\ out.first.result = "tree" /\ ~Awkward(Norm(out.first.t)) =>
    out.second.result = "tree" /\ out.second.in = <<>> /\ Norm(out.second.t) = Norm(out.first.t)

\* EncodingsUndone: a string that %S quotes is read as one word with its
\* characters, a name that %F protects and a value that %W joins are what they
\* were after the import, and a closure keeps its code and its bindings, in
\* their order (conv.c, closure.c, var.c).
EncodingsUndone ==
  /\ job.kind = "word" =>
       out.result = "tree" /\ \E kind \in {"nWord", "nQword"} : Items(out.t) = <<nWord(<<"a">>), mkleaf(kind, job.str)>>
  /\ job.kind = "name" => out = job.name
  /\ job.kind = "value" => out = job.list
  /\ job.kind = "closure" =>
       out.bindings = job.closure.bindings /\ Norm(out.tree) = Norm(job.closure.tree)

\* EachLineAlone: a line is read to its end and no further, and leaves nothing
\* in the lexer for the next one, unless a signal cut it off; a wrong line is
\* dropped (token.c, parse.y, input.c).
EachLineAlone ==
  job.kind = "line" /\ out.result # "signal" => out.in = Waiting /\ ~dollar /\ ~out.goterror

(* What the code does not keep to, for the inputs of LanguageDoubts.cfg,   *)
(* where the properties above fail too.                                    *)

\* PrintsBackAlways: whatever is parsed can be printed and parsed again.
PrintsBackAlways ==
  job.kind = "text" /\ out.first.result = "tree" =>
    out.second.result = "tree" /\ Norm(out.second.t) = Norm(out.first.t)

\* LexerFresh: the lexer begins a line outside the name of a variable
\* (inityy, token.c).
LexerFresh == job.kind = "line" => ~job.dollar

\* NeverAsserts: no text makes an assertion of the parser fail (syntax.c).
NeverAsserts == job.kind = "text" => out.first.result # "assertion"

\* NamesFit: the buffer of initenv holds the name that is copied into it and
\* the zero behind it (var.c).
NamesFit == job.kind = "length" => out > job.n

=============================================================================
