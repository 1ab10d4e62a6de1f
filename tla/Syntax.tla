------------------------------- MODULE Syntax -------------------------------
(***************************************************************************)
(* Parse trees and the rewriting the parser does while it builds them      *)
(* (tree.c, syntax.c, heredoc.c).                                          *)
(*                                                                         *)
(* A string is a sequence of atoms: one character each, or a run of        *)
(* ordinary characters that no function looks into.  A tree is a record:   *)
(* [kind, str] for words, [kind, u0] and [kind, u0, u1] for the others,    *)
(* NIL for the null pointer.  A list is a chain of nList cells, as in C.   *)
(* The functions that modify a tree in place return the modified tree.     *)
(*                                                                         *)
(* The state of a parse is a record s: the input that is left and the      *)
(* statics of the lexer (see Lexer), and what this module keeps in it:     *)
(*   hereq   the here documents that wait for the end of the line,         *)
(*           newest first, as [id, eof, quoted]                            *)
(*   docs    the trees of the documents read, by their number              *)
(*   nhere, ids   the numbers used for documents and for _devfd variables  *)
(*   error   whether yyerror was called                                    *)
(*   bad     "" or why the parse was given up                              *)
(* A node [kind |-> "nHere", id] stands for the cell that the text of the  *)
(* document is written into when it has been read.                         *)
(***************************************************************************)
EXTENDS Naturals, Integers, Sequences, SequencesExt, TLC

NIL == [kind |-> "NIL"]
placeholder == [kind |-> "placeholder"]
errornode == [kind |-> "errornode"]

mkleaf(kind, str) == [kind |-> kind, str |-> str]
mk1(kind, u0) == [kind |-> kind, u0 |-> u0]
mk2(kind, u0, u1) == [kind |-> kind, u0 |-> u0, u1 |-> u1]
nWord(str) == mkleaf("nWord", str)
nQword(str) == mkleaf("nQword", str)
Number(n) == <<ToString(n)>>

GiveUp(s, why) == [s EXCEPT !.bad = IF @ = "" THEN why ELSE @]
yyerror(s) == [s EXCEPT !.error = TRUE]

-----------------------------------------------------------------------------
treecons(car, cdr) == mk2("nList", car, cdr)
treecons2(car, cdr) == IF car = NIL THEN cdr ELSE treecons(car, cdr)

RECURSIVE treeappend(_, _)
treeappend(head, tail) ==
  IF head = NIL THEN tail ELSE [head EXCEPT !.u1 = treeappend(@, tail)]

treeconsend(head, tail) == treeappend(head, treecons(tail, NIL))
treeconsend2(head, tail) == IF tail = NIL THEN head ELSE treeconsend(head, tail)

\* the assertion of treeappend, on the first cell
Appendable(head) == head = NIL \/ head.kind \in {"nList", "nRedir"}

thunkify(tree) ==
  IF \/ tree.kind = "nThunk"
     \/ tree.kind = "nList" /\ tree.u0.kind = "nThunk" /\ tree.u1 = NIL
  THEN tree ELSE mk1("nThunk", tree)

firstis(t, w) == t.kind = "nList" /\ t.u0 = nWord(<<w>>)

prefix(w, t) == treecons(nWord(<<w>>), t)
flatten(t, sep) == mk1("nCall", prefix("%flatten", treecons(nQword(sep), treecons(t, NIL))))
backquote(ifs, body) ==
  mk1("nCall", prefix("%backquote", treecons(flatten(ifs, <<>>), treecons(body, NIL))))
fnassign(name, defn) == mk2("nAssign", mk2("nConcat", nWord(<<"fn-">>), name), defn)
mklambda(params, body) == mk2("nLambda", params, body)

-----------------------------------------------------------------------------
\* mkseq: t1 and t2 are spliced into one list when they begin with op
mkseq(op, t1, t2) ==
  IF op = "%seq" /\ t1 = NIL THEN t2
  ELSE IF op = "%seq" /\ t2 = NIL THEN t1
  ELSE LET tail == IF firstis(t2, op) THEN t2.u1 ELSE treecons(thunkify(t2), NIL) IN
       IF firstis(t1, op) THEN treeappend(t1, tail)
       ELSE prefix(op, treecons(thunkify(t1), tail))

mkpipe(t1, outfd, infd, t2) ==
  LET end == IF firstis(t2, "%pipe") THEN t2.u1 ELSE treecons(thunkify(t2), NIL)
      tail == treecons(nWord(Number(outfd)), treecons(nWord(Number(infd)), end))
  IN  IF firstis(t1, "%pipe") THEN treeappend(t1, tail)
      ELSE prefix("%pipe", treecons(thunkify(t1), tail))

-----------------------------------------------------------------------------
(* Redirections: a list with a placeholder for the command, which redirect *)
(* puts into it; nRedir cells chain several of them.                       *)
mkredircmd(cmd, fd) == prefix(cmd, treecons(nWord(Number(fd)), NIL))
mkclose(fd) == prefix("%close", treecons(nWord(Number(fd)), treecons(placeholder, NIL)))
mkdup(fd0, fd1) ==
  prefix("%dup", treecons(nWord(Number(fd0)), treecons(nWord(Number(fd1)), treecons(placeholder, NIL))))

\* mkredir: { } as a file is run at the other end of a pipe, and its name is
\* added to the command that is redirected
mkredir(s, cmd, file) ==
  IF file.kind = "nThunk"
  THEN LET op == CASE firstis(cmd, "%open") -> <<"%readfrom">>
                   [] firstis(cmd, "%create") -> <<"%writeto">>
                   [] OTHER -> <<>>
           var == nWord(<<"_devfd", ToString(s.ids)>>)
           s1 == [s EXCEPT !.ids = @ + 1]
           list == treecons(nWord(op), treecons(var, treecons(file, treecons(placeholder, NIL))))
       IN  [s |-> IF op = <<>> THEN yyerror(s1) ELSE s1,
            t |-> mk2("nRedir", treecons(mk1("nVar", var), NIL), list)]
  ELSE LET word == IF firstis(cmd, "%heredoc") \/ firstis(cmd, "%here") THEN file
                   ELSE mk1("nCall", prefix("%one", treecons(file, NIL)))
       IN  [s |-> s, t |-> treeappend(cmd, treecons(word, treecons(placeholder, NIL)))]

\* the words an nRedir chain adds to the command, and the redirection at its end
RECURSIVE addwords(_, _)
addwords(t, r) == IF r.kind = "nRedir" THEN addwords(treeappend(t, r.u0), r.u1) ELSE t
RECURSIVE lastredir(_)
lastredir(r) == IF r.kind = "nRedir" THEN lastredir(r.u1) ELSE r

\* Fault: a new redirection is put before the earlier ones.
redirappendfirst(tree, r) == mk2("nRedir", lastredir(r), addwords(tree, r))

\* redirappend: after the redirections tree has, before its words
RECURSIVE behindredirs(_, _)
behindredirs(t, r) ==
  IF t.kind = "nRedir" THEN [t EXCEPT !.u1 = behindredirs(@, r)] ELSE mk2("nRedir", r, t)
redirappend(tree, r) == behindredirs(addwords(tree, r), lastredir(r))

RECURSIVE fillplaceholder(_, _)
fillplaceholder(p, cmd) ==
  IF p.u0 = placeholder THEN [p EXCEPT !.u0 = cmd] ELSE [p EXCEPT !.u1 = fillplaceholder(@, cmd)]

\* queueheredoc: the marker must be one literal word
queueheredoc(s, r) ==
  LET eof == r.u1.u1.u0 IN
  IF eof.kind \notin {"nWord", "nQword"} THEN [s |-> yyerror(s), t |-> errornode]
  ELSE [s |-> [s EXCEPT !.hereq = <<[id |-> s.nhere, eof |-> eof.str, quoted |-> eof.kind = "nQword"]>> \o @,
                        !.nhere = @ + 1],
        t |-> [r EXCEPT !.u0 = nWord(<<"%here">>), !.u1.u1.u0 = [kind |-> "nHere", id |-> s.nhere]]]

\* redirect: the commands of an nRedir chain, the first outermost; a command
\* that is not a list cannot take the words of { } redirections.  A chain whose
\* here document is wrong becomes errornode, also inside another chain.
RECURSIVE redirect(_, _)
redirect(s, t) ==
  IF t.kind # "nRedir" \/ s.bad # "" THEN [s |-> s, t |-> t]
  ELSE IF t.u0.kind = "nRedir" /\ ~Appendable(t.u1) THEN [s |-> GiveUp(s, "assertion"), t |-> t]
  ELSE LET r == lastredir(t.u0)
           q == IF firstis(r, "%heredoc") THEN queueheredoc(s, r) ELSE [s |-> s, t |-> r]
           inner == redirect(q.s, addwords(t.u1, t.u0))
       IN  IF q.t = errornode THEN q
           ELSE [s |-> inner.s, t |-> fillplaceholder(q.t, thunkify(inner.t))]

=============================================================================
