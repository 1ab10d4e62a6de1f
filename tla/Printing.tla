------------------------------ MODULE Printing ------------------------------
(***************************************************************************)
(* Internal forms as text and back (conv.c, the functions of closure.c     *)
(* that take bindings out of a parsed closure, and importvar of var.c).    *)
(***************************************************************************)
EXTENDS Grammar

CONSTANT Codes  \* the character codes, as a function from characters to
                \* pairs of hexadecimal digits

Unprintable == {"\n", "\t", "^A", "BEL"}
EscapeOf == "\n" :> <<"n">> @@ "\t" :> <<"t">> @@ "^A" :> <<"1">> @@ "BEL" :> <<"a">>
\* ENV_SEPARATOR and ENV_ESCAPE: in the text of a variable for the environment
SEPARATOR == "^A"
ESCAPE == "^B"

RECURSIVE Join(_, _)
\* texts, with a separator between them
Join(texts, sep) ==
  IF texts = <<>> THEN <<>>
  ELSE IF Len(texts) = 1 THEN texts[1]
  ELSE texts[1] \o sep \o Join(Tail(texts), sep)

-----------------------------------------------------------------------------
(* %S: a string, quoted when it must be (always with altform): runs of     *)
(* printable characters in quotes, the others as escapes, carets between.  *)
Plain(str) == str # <<>> /\ \A i \in DOMAIN str : str[i] \notin nw \cup {"@"}

Quoted(str) ==
  LET Add(acc, c) ==
        IF c \in Unprintable
        THEN [state |-> "Unquoted",
              out |-> acc.out \o (IF acc.state = "Quoted" THEN <<"'">> ELSE <<>>)
                              \o (IF acc.state # "Begin" THEN <<"^">> ELSE <<>>) \o <<"\\">> \o EscapeOf[c]]
        ELSE [state |-> "Quoted",
              out |-> acc.out \o (IF acc.state = "Unquoted" THEN <<"^">> ELSE <<>>)
                              \o (IF acc.state # "Quoted" THEN <<"'">> ELSE <<>>)
                              \o (IF c = "'" THEN <<"'", "'">> ELSE <<c>>)]
      all == FoldLeft(Add, [state |-> "Begin", out |-> <<>>], str)
  IN  CASE all.state = "Begin" -> <<"'", "'">>
        [] all.state = "Quoted" -> Append(all.out, "'")
        [] OTHER -> all.out

Sconv(str, altform) == IF ~altform /\ Plain(str) THEN str ELSE Quoted(str)

\* %L, and with altform %#L
Lconv(list, sep, altform) == Join([i \in DOMAIN list |-> IF altform THEN Sconv(list[i], FALSE) ELSE list[i]], sep)

-----------------------------------------------------------------------------
RECURSIVE Cells(_)
\* the elements of an nList chain
Cells(t) == IF t = NIL THEN <<>> ELSE <<t.u0>> \o Cells(t.u1)

RECURSIVE treecount(_)
treecount(t) ==
  IF t = NIL THEN 0 ELSE IF t.kind = "nList" THEN treecount(t.u0) + treecount(t.u1) ELSE 1

KeywordOf == "nLocal" :> "local" @@ "nLet" :> "let" @@ "nFor" :> "for" @@ "nClosure" :> "%closure"

RECURSIVE Tconv(_, _)
\* Fault: a list that needs parentheses is printed without them.
Ungrouped(t) == Tconv(t, FALSE)

\* %#T
Grouped(t) == Tconv(t, TRUE)

\* %T, and with group %#T
Tconv(t, group) ==
  LET Bindings(np) ==
        Join([i \in DOMAIN Cells(np) |-> Grouped(Cells(np)[i].u0) \o <<"=">> \o Tconv(Cells(np)[i].u1, FALSE)], <<";">>)
      cells == Cells(t)
  IN  CASE t = NIL -> IF group THEN <<"(", ")">> ELSE <<>>
        [] t.kind = "nWord" -> t.str
        [] t.kind = "nQword" -> Sconv(t.str, TRUE)
        [] t.kind = "nPrim" -> <<"$", "&">> \o t.str
        [] t.kind = "nAssign" -> Grouped(t.u0) \o <<"=">> \o Tconv(t.u1, FALSE)
        [] t.kind = "nConcat" -> Grouped(t.u0) \o <<"^">> \o Grouped(t.u1)
        [] t.kind = "nMatch" -> <<"~", " ">> \o Grouped(t.u0) \o <<" ">> \o Tconv(t.u1, FALSE)
        [] t.kind = "nExtract" -> <<"~", "~", " ">> \o Grouped(t.u0) \o <<" ">> \o Tconv(t.u1, FALSE)
        [] t.kind = "nThunk" -> <<"{">> \o Tconv(t.u0, FALSE) \o <<"}">>
        [] t.kind = "nVarsub" -> <<"$">> \o Grouped(t.u0) \o <<"(">> \o Tconv(t.u1, FALSE) \o <<")">>
        [] t.kind \in DOMAIN KeywordOf ->
             <<KeywordOf[t.kind], "(">> \o Bindings(t.u0) \o <<")">> \o Tconv(t.u1, FALSE)
        [] t.kind = "nCall" ->
             IF t.u0.kind \in {"nThunk", "nPrim"} THEN <<"<", "=">> \o Tconv(t.u0, FALSE)
             ELSE <<"<", "=", "{">> \o Tconv(t.u0, FALSE) \o <<"}">>
        [] t.kind = "nVar" ->
             IF t.u0 = NIL THEN <<"$">> \o Tconv(NIL, group)
             ELSE IF t.u0.kind \in {"nWord", "nQword"} THEN <<"$">> \o Tconv(t.u0, group)
             ELSE <<"$", "(">> \o Grouped(t.u0) \o <<")">>
        [] t.kind = "nLambda" ->
             <<"@", " ">> \o (IF t.u0 = NIL THEN <<"*", " ">> ELSE Tconv(t.u0, FALSE))
                         \o <<"{">> \o Tconv(t.u1, FALSE) \o <<"}">>
        [] t.kind = "nList" /\ ~group ->
             Join([i \in DOMAIN cells |-> Tconv(cells[i], FALSE)], <<" ">>)
        [] t.kind = "nList" /\ treecount(t) = 0 -> <<"(", ")">>
        [] t.kind = "nList" /\ treecount(t) = 1 -> Tconv(t.u0, FALSE) \o Tconv(t.u1, FALSE)
        [] OTHER -> <<"(">> \o Join([i \in DOMAIN cells |-> Tconv(cells[i], FALSE)], <<" ">>) \o <<")">>

-----------------------------------------------------------------------------
(* A closure is [bindings, tree], the bindings as a sequence of records    *)
(* [name, defn], the innermost first.                                      *)
\* enclose: the outermost binding is printed first
enclose(binds) ==
  Join([i \in DOMAIN binds |-> LET b == Reverse(binds)[i] IN
          Sconv(b.name, FALSE) \o <<"=">> \o Lconv(b.defn, <<" ">>, TRUE)], <<";">>)

Cconv(closure) ==
  (IF closure.bindings = <<>> THEN <<>> ELSE <<"%closure", "(">> \o enclose(closure.bindings) \o <<")">>)
    \o Tconv(closure.tree, FALSE)

\* extract: the bindings of an nClosure, added before those there are; only
\* literal words are expected
Literal(t) == t # NIL /\ t.kind \in {"nWord", "nQword"}
extract(tree, binds) ==
  FoldLeft(LAMBDA all, d : <<[name |-> d.u0.str, defn |-> [i \in DOMAIN Cells(d.u1) |-> Cells(d.u1)[i].str]]>> \o all,
           binds, SelectSeq(Cells(tree), LAMBDA d : d # NIL))
Extractable(tree) ==
  \A d \in ToSet(Cells(tree)) \ {NIL} : Literal(d.u0) /\ \A w \in ToSet(Cells(d.u1)) : Literal(w)

Single(t) == IF t.kind = "nList" /\ t.u1 = NIL THEN t.u0 ELSE t
NoClosure == [bindings |-> <<>>, tree |-> NIL]

\* extractbindings: of all the nClosures around a tree; NoClosure where an
\* assertion fails
RECURSIVE extractall(_, _)
extractall(tree, binds) ==
  IF tree.kind # "nClosure" THEN [bindings |-> binds, tree |-> tree]
  ELSE IF ~Extractable(tree.u0) THEN NoClosure
  ELSE extractall(Single(tree.u1), extract(tree.u0, binds))
extractbindings(tree) == extractall(Single(tree), <<>>)

-----------------------------------------------------------------------------
(* %F and %N: names that other shells accept, and back.                    *)
Alpha(c) == c \notin Digit /\ c \notin dnw \cup {"%", "*", "-", "_", "^B"}

Fconv(name) ==
  FlattenSeq([i \in DOMAIN name |->
    IF \/ IF i = 1 THEN Alpha(name[i]) ELSE Alpha(name[i]) \/ name[i] \in Digit
       \/ name[i] = "_" /\ At(name, i + 1) # "_"
    THEN <<name[i]>> ELSE <<"_", "_">> \o Codes[name[i]]])

RECURSIVE Nconv(_)
Nconv(s) ==
  IF s = <<>> THEN <<>>
  ELSE LET coded == {c \in DOMAIN Codes : IsPrefix(<<"_", "_">> \o Codes[c], s)} IN
       IF coded # {} THEN <<CHOOSE c \in coded : TRUE>> \o Nconv(Rest(s, 5))
       ELSE <<Head(s)>> \o Nconv(Tail(s))

-----------------------------------------------------------------------------
(* %W and importvar: the value of a variable in the environment.           *)
Escaped(str) ==
  FlattenSeq([i \in DOMAIN str |-> IF str[i] \in {SEPARATOR, ESCAPE} THEN <<ESCAPE, str[i]>> ELSE <<str[i]>>])
\* Fault: a separator inside a word is not escaped.
Wconvraw(list) == Join(list, <<SEPARATOR>>)

Wconv(list) == Join([i \in DOMAIN list |-> Escaped(list[i])], <<SEPARATOR>>)

\* fsplit at the separators
RECURSIVE fsplit(_)
fsplit(text) ==
  LET n == Until(text, 1, Ends(SEPARATOR)) IN
  IF n = Len(text) THEN <<text>> ELSE <<SubSeq(text, 1, n)>> \o fsplit(Rest(text, n + 2))

\* the escapes of the first word of a list, from offset on: what is looked
\* through is str, the word as it was, not what has become of it
RECURSIVE unescape(_, _, _)
unescape(str, offset, list) ==
  LET i == offset + 1 + Until(str, offset + 1, Ends(ESCAPE)) IN
  IF i > Len(str) THEN list
  ELSE IF i = Len(str) /\ Len(list) > 1
  THEN <<SubSeq(str, 1, i - 1) \o <<SEPARATOR>> \o list[2]>> \o Rest(list, 3)
  ELSE IF At(str, i + 1) = ESCAPE
  THEN unescape(str, i + 1, <<SubSeq(str, 1, i) \o Rest(str, i + 2)>> \o Tail(list))
  ELSE unescape(str, i, list)

RECURSIVE unescapeall(_)
unescapeall(list) ==
  IF list = <<>> THEN <<>>
  ELSE LET l == unescape(Head(list), 0, list) IN <<Head(l)>> \o unescapeall(Tail(l))
importvar(value) == unescapeall(fsplit(value))

\* the size of the name buffer of initenv when it holds a name of n characters
RECURSIVE namebuffer(_, _, _)
namebuffer(n, bufsize, allocated) ==
  IF n < bufsize THEN allocated ELSE namebuffer(n, 2 * bufsize, bufsize)

=============================================================================
