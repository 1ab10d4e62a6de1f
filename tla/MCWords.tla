------------------------------ MODULE MCWords ------------------------------
(* Small sets of patterns, files and trees.                                *)
EXTENDS Words

MCCharOrder == <<"*", "-", ".", "/", "0", "1", "2", "?", "[", "]", "a", "b", "~">>

\* every pattern of up to three characters, and every class of up to three,
\* alone, before a letter and before a star; quoted nowhere, everywhere, or once
ClassBodies == SeqOf({"-", "]", "a", "b", "~"}, 3)
Strings ==
  SeqOf({"*", "-", "?", "[", "]", "a", "b", "~"}, 2)
    \cup {<<c>> \o w : c \in {"*", "a", "["}, w \in SeqOf({"*", "?", "[", "]", "a", "b"}, 2)}
    \cup {<<"[">> \o b \o <<"]">> \o t : b \in ClassBodies, t \in {<<>>, <<"*">>}}
OneQuoted(s) == {[i \in DOMAIN s |-> IF i = k THEN "q" ELSE "r"] : k \in DOMAIN s}
MCPatterns ==
  UNION {[str : {s}, quote : {QUOTED, UNQUOTED} \cup OneQuoted(s)] : s \in Strings}
MCSubjects == SeqOf({"a", "b", "[", "-"}, 2)

\* two directories, one of which cannot be read, and hidden files
MCFiles == {<<>>, <<<<"a">>>>, <<<<"b">>>>, <<<<".", "a">>>>, <<<<"a", "b">>>>,
            <<<<"a">>, <<"b">>>>, <<<<"a">>, <<".", "b">>>>, <<<<"a", "b">>, <<"a">>>>}
MCDirs == {<<>>, <<<<"a">>>>, <<<<"a", "b">>>>}
MCClosed == {<<<<"a", "b">>>>}
\* classes in the middle and at the end of components, that hide a dot or are cut
\* by a slash
PathClasses == {<<"[", "a", "-", "b", "]", "*">>, <<".", "[", "~", "b", "]">>, <<"[", ".", "]", "a">>,
                <<"*", "/", "[", "a", "b", "]">>, <<"a", "[", "b", "]", "/", "a">>, <<"[", "a", "/", "b", "]">>,
                <<"*", "/", ".", "[", "b">>, <<"/", "[", "~", "-", "]", "/", "?">>}
MCPathPatterns ==
  UNION {[str : {s}, quote : {UNQUOTED} \cup OneQuoted(s)] :
          s \in PathClasses \cup (SeqOf({"*", "?", ".", "/", "a", "~"}, 4) \ {<<>>})}
MCHomes == {NoHome, <<>>, <<<<"/", "a">>>>, <<<<"*">>>>, <<<<"a">>, <<"b">>>>}

\* x is a list of two words, n a range without its start, e is not set
MCEnv == (<<"x">> :> <<<<"*">>, <<"b">>>> @@ <<"n">> :> <<<<"2">>, <<".", ".", ".">>>>
          @@ STAR :> <<<<"b", "?">>>>)
Word(s) == [kind |-> "Word", str |-> s]
Qword(s) == [kind |-> "Qword", str |-> s]
Var(t) == [kind |-> "Var", name |-> t]
List(t, u) == [kind |-> "List", head |-> t, tail |-> u]
Leaves ==
  {Nil, Word(<<"*">>), Word(<<"~">>), Word(<<"/", "?">>), Qword(<<>>), Qword(<<"*">>),
   Var(Word(<<"1">>)), Var(Word(<<"0", "0">>)), Var(Qword(<<>>)),
   [kind |-> "Call", value |-> <<<<"a">>, <<"*">>>>], Var(Word(<<"x">>)), Var(Word(<<"e">>))}
SubscriptWords == {<<"1">>, <<"2">>, <<"3">>, <<"0">>, ELLIPSIS}
SubscriptLists ==
  {Nil} \cup {List(Word(s), Nil) : s \in SubscriptWords}
        \cup {List(Word(s), List(Word(t), u)) : s, t \in SubscriptWords,
                u \in {Nil, Var(Word(<<"n">>))} \cup {List(Word(s), Nil) : s \in SubscriptWords}}
Subscripted ==
  {[kind |-> "Varsub", name |-> n, subs |-> s] :
     n \in {Nil, Word(<<"x">>), Word(<<"n">>), Var(Word(<<"x">>))}, s \in SubscriptLists}
Pairs(A, B) == {[kind |-> "Concat", left |-> t, right |-> u] : t \in A, u \in B}
                 \cup {List(t, u) : t \in A, u \in B}
MCTrees ==
  Leaves \cup Subscripted \cup Pairs(Leaves, Leaves)
    \cup Pairs(Pairs(Leaves, Leaves), {Word(<<"*">>), Qword(<<"b">>)})

\* texts over three characters and zero; the cache holds one separator,
\* the zero behind it, and a byte that the code leaves free
MCSeps == {<<>>, <<"a">>, <<"b">>, <<"a", "b">>, <<"b", "c">>}
MCChunks == SeqOf({"a", "b", "c", "NUL"}, 2)
=============================================================================
