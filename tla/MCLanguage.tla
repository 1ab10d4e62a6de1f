----------------------------- MODULE MCLanguage -----------------------------
(* Small sets of texts, commands, words, values and closures.              *)
EXTENDS Language, FiniteSetsExt

MCCodes == "_" :> <<"5", "f">> @@ "-" :> <<"2", "d">> @@ "1" :> <<"3", "1">> @@ "." :> <<"2", "e">>

MCPieces ==
  {<<c>> : c \in {"a", " ", "$", "(", ")", "{", "}", "^", "=", ";", "|", "BQ"}}
    \cup {<<"'", "(", "'">>, <<"\\", "n">>, <<"{", "a", "}">>, <<"let", "(", "a", "=", "b", ")">>, <<"<", "=">>,
          <<"@", " ", "a", "{", "b", "}">>, <<"~", " ">>, <<">", "a", " ">>, <<"&", "&">>, <<"!">>}

-----------------------------------------------------------------------------
(* Words, as they are written and as they should be read.                  *)
W(text, tree) == [text |-> text, tree |-> tree]
wa == nWord(<<"a">>)
wb == nWord(<<"b">>)
qa == nQword(<<"a">>)
A == W(<<"a">>, wa)
B == W(<<"b">>, wb)
C == W(<<"c">>, nWord(<<"c">>))
Var == W(<<"$", "a">>, mk1("nVar", wa))
Number1 == nWord(<<"1">>)

ListWords(ts) == IF Len(ts) = 1 THEN treecons(ts[1], NIL) ELSE treecons(ts[1], treecons(ts[2], NIL))
Block == mk1("nThunk", ListWords(<<wa, wb>>))
FreeCarets == {W(<<"a", "$", "b">>, mk2("nConcat", wa, mk1("nVar", wb))),
               W(<<"'", "a", "'", "b">>, mk2("nConcat", qa, wb)),
               W(<<"$", "a", "'", "b", "'">>, mk2("nConcat", mk1("nVar", wa), nQword(<<"b">>))),
               W(<<"b", "BQ", "a">>, mk2("nConcat", wb, backquote(mk1("nVar", nWord(<<"ifs">>)), wa))),
               W(<<"$", "a", "\\", "n">>, mk2("nConcat", mk1("nVar", wa), nQword(<<"\n">>))),
               W(<<"$", "a", ".", "b">>, mk2("nConcat", mk1("nVar", wa), nWord(<<".", "b">>)))}
MoreWords == {Var, W(<<"'", "a", "'", "'", "'">>, nQword(<<"a", "'">>)),
              W(<<"a", "^", "b", "^", "c">>, mk2("nConcat", wa, mk2("nConcat", wb, nWord(<<"c">>)))),
              W(<<"$", "$", "a">>, mk1("nVar", mk1("nVar", wa))),
              W(<<"$", "a", "(", "b", " ", "1", ")">>, mk2("nVarsub", wa, ListWords(<<wb, Number1>>))),
              W(<<"$", "$", "a", "(", "1", ")">>, mk1("nVar", mk2("nVarsub", wa, ListWords(<<Number1>>)))),
              W(<<"$", "#", "a">>, mk1("nCall", ListWords(<<nWord(<<"%count">>), mk1("nVar", wa)>>))),
              W(<<"$", "^", "a">>, flatten(mk1("nVar", wa), <<" ">>)),
              W(<<"<", "=", "{", "a", " ", "b", "}">>, mk1("nCall", Block)),
              W(<<"BQ", "{", "a", " ", "b", "}">>, backquote(mk1("nVar", nWord(<<"ifs">>)), Block)),
              W(<<"BQ", "BQ", " ", "$", "a", " ", "b">>, backquote(mk1("nVar", wa), wb)),
              W(<<"@", " ", "a", "{", "b", "}">>, mklambda(ListWords(<<wa>>), ListWords(<<wb>>))),
              W(<<"(", "a", "\n", " ", "b", ")">>, ListWords(<<wa, wb>>)),
              W(<<"$", "&", "a">>, mkleaf("nPrim", <<"a">>)),
              W(<<"{", "a", " ", "b", "}">>, Block)}

-----------------------------------------------------------------------------
Run1(ts) == [op |-> "run", words |-> ts]
Redirecting(text, how, extra, doc) == [text |-> text, words |-> how, extra |-> extra, doc |-> doc]
One(t) == W(<<>>, mk1("nCall", ListWords(<<nWord(<<"%one">>), t>>)))
Op1(w) == W(<<>>, nWord(<<w>>))
Devfd == nWord(<<"_devfd", "0">>)
Files == {Redirecting(<<">", "a">>, <<Op1("%create"), Op1("1"), One(wa)>>, <<>>, <<>>),
          Redirecting(<<"<", "[", "3", "]", "$", "a">>, <<Op1("%open"), Op1("3"), One(mk1("nVar", wa))>>, <<>>, <<>>),
          Redirecting(<<">", "[", "2", "=", "1", "]">>, <<Op1("%dup"), Op1("2"), Op1("1")>>, <<>>, <<>>),
          Redirecting(<<">", ">", "a">>, <<Op1("%append"), Op1("1"), One(wa)>>, <<>>, <<>>)}
MoreFiles == {Redirecting(<<"<", ">", ">", "a">>, <<Op1("%open-append"), Op1("0"), One(wa)>>, <<>>, <<>>),
              Redirecting(<<">", "<", "a">>, <<Op1("%open-create"), Op1("1"), One(wa)>>, <<>>, <<>>),
              Redirecting(<<">", "[", "1", "2", "=", "]">>, <<Op1("%close"), Op1("12")>>, <<>>, <<>>),
              Redirecting(<<"<", "<", "<", "'", "a", "'">>, <<Op1("%here"), Op1("0"), W(<<>>, qa)>>, <<>>, <<>>)}
Substitutions == {Redirecting(<<s, "{", "a", " ", "b", "}">>,
                              <<Op1(IF s = "<" THEN "%readfrom" ELSE "%writeto"), W(<<>>, Devfd), W(<<>>, Block)>>,
                              <<mk1("nVar", Devfd)>>, <<>>) : s \in {"<", ">"}}
Here(text, doc, lines) == Redirecting(text, <<Op1("%here"), Op1("0")>> \o doc, <<>>, lines)
Documented ==
  {Here(<<"<", "<", "E">>, <<W(<<>>, nQword(<<"a", "\n">>))>>, <<"a", "\n", "E", "\n">>),
   Here(<<"<", "<", "E">>, <<W(<<>>, nQword(<<>>))>>, <<"E", "\n">>),
   Here(<<"<", "<", "E">>, <<W(<<>>, nQword(<<"E", "a", "\n">>))>>, <<"E", "a", "\n", "E", "\n">>),
   Here(<<"<", "<", "E">>, <<W(<<>>, nQword(<<"a", "$", "b", "\n">>))>>, <<"a", "$", "$", "b", "\n", "E", "\n">>),
   Here(<<"<", "<", "'", "E", "'">>, <<W(<<>>, nQword(<<"$", "a", "\n">>))>>, <<"$", "a", "\n", "E", "\n">>),
   Here(<<"<", "<", "E">>, <<W(<<>>, flatten(mk1("nVar", wa), <<" ">>)), W(<<>>, nQword(<<"b", "\n">>))>>,
        <<"$", "a", "^", "b", "\n", "E", "\n">>)}

Bindings == {<< <<A, <<B>>>> >>, << <<A, <<B, Var>>>>, <<B, <<>>>> >>}

-----------------------------------------------------------------------------
Redirected(hows, cs) == {[op |-> "redir", how |-> h, c |-> c] : h \in hows, c \in cs}
Alone(cs) ==
  {[op |-> op, c |-> c] : op \in {"not", "background"}, c \in cs}
    \cup {[op |-> op, binds |-> b, c |-> c] : op \in {"nLocal", "nLet", "nFor"}, b \in Bindings, c \in cs}
    \cup {[op |-> "fn", name |-> A, c |-> c] : c \in cs}
Pairs(ops, cs, ds) == {[op |-> op, cs |-> <<c, d>>] : op \in ops, c \in cs, d \in ds}
Pipes(fds, cs, ds) == {[op |-> "pipe", fds |-> f, cs |-> <<c, d>>] : f \in fds, c \in cs, d \in ds}

Word == {Run1(<<A, w>>) : w \in {B} \cup FreeCarets \cup MoreWords}
          \cup {Run1(<<w, A>>) : w \in FreeCarets \cup MoreWords}
          \cup {Run1(<<w, x>>) : w, x \in FreeCarets}
Basic == {Run1(<<A>>), Run1(<<B, C>>)}
Other == {None, [op |-> "assign", name |-> A, words |-> <<B, Var>>], [op |-> "match", subject |-> Var, words |-> <<B>>]}
Fd(text, from, to) == [text |-> text, words |-> <<nWord(<<from>>), nWord(<<to>>)>>]
Plain1 == Fd(<<>>, "1", "0")
Errors == Fd(<<"[", "2", "]">>, "2", "0")
Fds == {Plain1, Errors, Fd(<<"[", "1", "2", "=", "3", "]">>, "12", "3")}
Ops == {"seq", "and", "or"}
\* the commands of one more operator, and of a few more of each
Inner == Basic \cup Other \cup Redirected(Files, Basic) \cup Alone(Basic) \cup Pairs(Ops, Basic, Basic \cup {None})
           \cup Pipes({Plain1, Errors}, Basic, Basic)
Few == {c \in Inner : \/ c.op \in {"none", "assign"}
                      \/ c.op \in {"background", "not", "nLet", "fn"} /\ c.c = Run1(<<A>>) /\ (c.op = "nLet" => Len(c.binds) = 1)
                      \/ c.op \in Ops \cup {"pipe"} /\ c.cs = <<Run1(<<A>>), Run1(<<B, C>>)>>
                      \/ c = Run1(<<A>>)
                      \/ c.op = "redir" /\ c.how.text[1] = ">" /\ Len(c.how.text) = 2}
MCCommands ==
  Word \cup Inner \cup Alone(Inner) \cup Pairs(Ops, Inner, Few) \cup Pairs(Ops, Few, Inner) \cup Pipes(Fds, Inner, Few)
    \cup Pipes(Fds, Few, Inner)
    \cup Redirected(Files, Inner) \cup Redirected(MoreFiles, Basic) \cup Redirected(Substitutions, Basic)
    \cup Redirected(Files, Redirected(Substitutions \cup Files, Basic))
    \cup Redirected(Documented, Basic \cup Pipes({Plain1}, Basic, Basic))
    \cup Pairs({"and", "or"}, Redirected(Documented, Basic), Basic)
    \cup Alone(Redirected(Documented, Basic))
    \cup Alone(Alone(Few)) \cup Alone(Pairs({"seq", "and"}, Few, Basic))

\* sequences of m to n elements of a set
Sequence(set, m, n) == UNION {[1 .. k -> set] : k \in m .. n}
MCStrings == Sequence({"a", "'", "\n", "^A", "$", " ", "@"}, 0, 4) \cup {Keyword[k] : k \in DOMAIN Keyword}
MCNames == Sequence({"a", "_", "-", "1", "."}, 1, 5)

\* values with at most one of the characters that %W escapes
Controls(list) == FoldLeft(LAMBDA n, str : n + Len(SelectSeq(str, LAMBDA c : c \in {SEPARATOR, ESCAPE})), 0, list)
MCValues == {v \in Sequence(Sequence({"a", SEPARATOR, ESCAPE}, 0, 3), 1, 2) : Controls(v) <= 1}

Bound1 == [name : {<<"a">>, <<"b", " ", "c">>, <<"f", "n">>}, defn : Sequence({<<>>, <<"a", "'">>, <<"{", "a", "}">>, <<"l", "e", "t">>}, 0, 1)]
MCClosures ==
  [bindings : Sequence(Bound1, 0, 2),
   tree : {Block, mk1("nThunk", NIL), mklambda(NIL, ListWords(<<wb>>)), mklambda(ListWords(<<wa, wb>>), NIL),
           mkleaf("nPrim", <<"a">>)}]

\* lines that neither go on on the next line nor stop before their end, and
\* lines that a signal cuts off
Broken ==
  Sequence({"a", "$", ">", "[", "=", ")", "}", "#", "&", " ", ";"}, 0, 2)
    \cup {<<"a", "|", "a">>, <<">", "[", "1", "=", "x">>, <<"a", "|", "[", "1", "x">>, <<"a", "\\", "q", "a">>,
          <<"a", "=", "a", ")", "$">>, <<"$", "#", ")">>,
          <<"a", ">", "a", "<", "<", "$", "a", ";", "a">>}
MCLines == {<<"a", SIG>>, <<"'", SIG>>, <<"#", SIG>>, <<"$", "#", SIG>>} \cup (Broken \ {<<"&", "&">>, <<">", "[">>})
MCNameLengths == 0 .. 3
-----------------------------------------------------------------------------
(* The inputs of LanguageDoubts.cfg: what the code does not treat well.    *)
OddPieces == {<<"a">>, <<"$">>, <<"(">>, <<")">>, <<" ">>, <<"<", "=">>, <<"<", "{", "a", "}">>, <<"~", " ">>,
              <<"l", "e", "t">>, <<"\\", "n">>}
TwoDocuments ==
  {[op |-> "pipe", fds |-> Plain1, cs |-> <<[op |-> "redir", how |-> h, c |-> Run1(<<A>>)],
                                           [op |-> "redir", how |-> h2, c |-> Run1(<<B>>)]>>] : h, h2 \in Documented}
AllValues == Sequence(Sequence({"a", SEPARATOR, ESCAPE}, 0, 3), 1, 2)
RawClosures == {[bindings |-> <<[name |-> <<"a">>, defn |-> << <<"a", "\n", "b">> >>]>>, tree |-> Block]}
OddLines == {<<"$", SIG>>, <<"a">>, <<">", "[">>, <<"\\", "x">>, <<"a", "<", "<", "$", "e", ";", "a">>}
LongNames == 0 .. 10
=============================================================================
