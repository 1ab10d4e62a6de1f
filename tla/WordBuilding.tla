---------------------------- MODULE WordBuilding ----------------------------
(***************************************************************************)
(* Making lists of words out of parse trees (glom.c), with the list and    *)
(* term operations it uses.                                                *)
(*                                                                         *)
(* A tree is a record with the kind of the node and its parts; Nil is the  *)
(* null tree.  A term is its string: a closure is the string it prints as. *)
(* FAILED is the list of an evaluation that threw an error, ABORT that of  *)
(* one that broke an assertion.                                            *)
(***************************************************************************)
EXTENDS Globbing

Nil == [kind |-> "Nil"]
ELLIPSIS == <<".", ".", ".">>

termcat(t1, t2) == t1 \o t2

\* concat: every word of a list with every word of another
concat(l, r) ==
  FlattenSeq([i \in DOMAIN l |-> [j \in DOMAIN r |-> termcat(l[i], r[j])]])

\* Fault: a word with a quoted part is taken as quoted throughout.
qcatany(q1, q2, s1, s2) ==
  IF q1 = QUOTED \/ q2 = QUOTED THEN QUOTED
  ELSE IF q1 = UNQUOTED /\ q2 = UNQUOTED THEN UNQUOTED
  ELSE [i \in DOMAIN (s1 \o s2) |-> "r"]

\* qcat: the quoting of two words put together
qcat(q1, q2, s1, s2) ==
  LET Flags(q, s) == CASE q = QUOTED -> [i \in DOMAIN s |-> "q"]
                       [] q = UNQUOTED -> [i \in DOMAIN s |-> "r"]
                       [] OTHER -> q
  IN  IF q1 = q2 /\ q1 \in {QUOTED, UNQUOTED} THEN q1 ELSE Flags(q1, s1) \o Flags(q2, s2)

qconcat(l, r, ql, qr) ==
  [list |-> concat(l, r),
   quotes |-> FlattenSeq([i \in DOMAIN l |-> [j \in DOMAIN r |-> qcat(ql[i], qr[j], l[i], r[j])]])]

-----------------------------------------------------------------------------
(* Numbers and variables.                                                  *)
Digits == <<"0", "1", "2", "3", "4", "5", "6", "7", "8", "9">>

\* atoi: the number that the leading digits of a string make
RECURSIVE Number(_, _)
Number(s, n) ==
  IF s # <<>> /\ s[1] \in ToSet(Digits)
  THEN Number(Tail(s), 10 * n + SelectInSeq(Digits, LAMBDA d : d = s[1]) - 1)
  ELSE n
atoi(s) == Number(s, 0)

iscounting(name) == ToSet(name) \subseteq ToSet(Digits) /\ name \notin {<<"0">>, <<>>}

\* nth asserts that the index is positive
nth(list, n) == IF n = 0 THEN ABORT ELSE IF n <= Len(list) THEN <<list[n]>> ELSE <<>>

STAR == <<"*">>
varlookup(name, env) ==
  LET defn(n) == IF n \in DOMAIN env THEN env[n] ELSE <<>> IN
  CASE iscounting(name) -> nth(defn(STAR), atoi(name))
    [] name = <<>> -> FAILED
    [] OTHER -> defn(name)

-----------------------------------------------------------------------------
(* subscript: $x(1 3 5 ... 7).                                             *)
\* subscript: one turn of the loop takes a subscript, or a range, off subs.
\* current is the cell the loop stands on, counter the index it takes it for.
RECURSIVE Subscripts(_, _, _, _, _)
Subscripts(list, subs, open, counter, current) ==
  LET lo == IF open THEN 1 ELSE atoi(subs[1])
      after == IF open THEN subs ELSE Tail(subs)
      range == after # <<>> /\ after[1] = ELLIPSIS
      bound == IF range /\ Len(after) > 1 THEN atoi(after[2]) ELSE Len(list)
      hi == IF range THEN Min({bound, Len(list)}) ELSE lo
      rest == IF range THEN From(after, 3) ELSE after
      from == IF counter > lo THEN [counter |-> 1, cell |-> 1] ELSE [counter |-> counter, cell |-> current]
      start == from.cell + lo - from.counter
      taken == SubSeq(list, start, start + hi - lo)
      others == Subscripts(list, rest, FALSE, lo + Len(taken), start + Len(taken))
  IN  CASE subs = <<>> -> <<>>
        [] subs # <<>> /\ (lo < 1 \/ (range /\ Len(after) > 1 /\ bound < 1)) -> FAILED
        [] subs # <<>> /\ lo > Len(list) -> Subscripts(list, rest, FALSE, counter, current)
        [] OTHER -> IF others = FAILED THEN FAILED ELSE taken \o others

subscript(list, subs) == Subscripts(list, subs, subs # <<>> /\ subs[1] = ELLIPSIS, 1, 1)

-----------------------------------------------------------------------------
(* glom1 and glom2: the words of a tree, and the words with their quoting. *)
\* what an expression gives, unless one of its parts has failed
Failures == {FAILED, ABORT}
Unless(parts, list) ==
  LET failed == SelectSeq(parts, LAMBDA part : part \in Failures)
  IN  IF failed = <<>> THEN list ELSE failed[1]

RECURSIVE glom1(_, _)
glom1(t, env) ==
  CASE t.kind = "Nil" -> <<>>
    [] t.kind \in {"Word", "Qword", "Thunk"} -> <<t.str>>
    [] t.kind = "Var" ->
         LET names == glom1(t.name, env)
             lists == [k \in DOMAIN names |-> varlookup(names[k], env)]
         IN  IF names \in Failures THEN names ELSE Unless(lists, FlattenSeq(lists))
    [] t.kind = "Varsub" ->
         LET names == glom1(t.name, env)
             subs == glom1(t.subs, env)
             list == IF Len(names) = 1 THEN varlookup(names[1], env) ELSE FAILED
         IN  Unless(<<names, list, subs>>, subscript(list, subs))
    [] t.kind = "Call" -> t.value
    [] t.kind = "List" ->
         LET head == glom1(t.head, env)
             tail == glom1(t.tail, env)
         IN  Unless(<<head, tail>>, head \o tail)
    [] t.kind = "Concat" ->
         LET left == glom1(t.left, env)
             right == glom1(t.right, env)
         IN  Unless(<<left, right>>, concat(left, right))

Words(list, quotes) == [list |-> list, quotes |-> quotes]
BothWords(a, b, both) ==
  LET list == Unless(<<a.list, b.list>>, both.list)
  IN  IF list \in Failures THEN Words(list, <<>>) ELSE both

RECURSIVE glom2(_, _)
glom2(t, env) ==
  CASE t.kind = "Word" -> Words(<<t.str>>, <<UNQUOTED>>)
    [] t.kind = "List" ->
         LET head == glom2(t.head, env)
             tail == glom2(t.tail, env)
         IN  BothWords(head, tail, Words(head.list \o tail.list, head.quotes \o tail.quotes))
    [] t.kind = "Concat" ->
         LET left == glom2(t.left, env)
             right == glom2(t.right, env)
         IN  BothWords(left, right, qconcat(left.list, right.list, left.quotes, right.quotes))
    [] t.kind \notin {"Word", "List", "Concat"} ->
         LET list == glom1(t, env) IN Words(list, [k \in DOMAIN list |-> QUOTED])

glom(t, env, globit, home) ==
  LET words == glom2(t, env) IN
  IF ~globit THEN glom1(t, env)
  ELSE IF words.list \in Failures THEN words.list ELSE glob(words.list, words.quotes, home)
=============================================================================
