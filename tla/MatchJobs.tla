----------------------------- MODULE MatchJobs -----------------------------
(***************************************************************************)
(* Patterns tried on words, as ~ and ~~ do it (match.c), against what the  *)
(* patterns mean.                                                          *)
(*                                                                         *)
(* A job is one pattern; out is what its calls returned, for each subject, *)
(* each list with that subject and each list with that pattern.            *)
(***************************************************************************)
EXTENDS Matching

CONSTANTS
  Patterns,   \* patterns with their quoting, as [str, quote]
  Subjects    \* the strings they are tried on

P == INSTANCE Patterns

\* a pattern has a quoting of its own length, unless it has a shared one
Symbols == ToSet(CharOrder)
ASSUME JobsAssumption ==
  /\ {"a", "*"} \subseteq Symbols
  /\ Subjects \subseteq Seq(Symbols)
  /\ \A w \in Patterns :
       /\ w.str \in Seq(Symbols)
       /\ w.quote \in {QUOTED, UNQUOTED}
            \/ (w.quote \in Seq({"q", "r"}) /\ Len(w.quote) = Len(w.str))

VARIABLES job, out

-----------------------------------------------------------------------------
\* a pattern, with its characters marked raw or quoted
Mark(w) == [i \in DOMAIN w.str |-> [char |-> w.str[i], raw |-> ~ISQUOTED(w.quote, i)]]

\* a class whose list begins with ]- : the code does not take - as an operator there
OddClass(m) ==
  \E i \in DOMAIN m : LET b == P!ClassStart(m, i) IN
    /\ m[i] = [char |-> "[", raw |-> TRUE]
    /\ b < Len(m) /\ m[b] = [char |-> "]", raw |-> TRUE] /\ m[b + 1] = [char |-> "-", raw |-> TRUE]

\* a star that must stand for all that is left, with more stars behind it
StarsAtEnd(s, m) ==
  LET items == P!Items(m) cut == P!ShortestCut(s, items) IN
  \E k \in DOMAIN items : k < Len(items) /\ items[k].star /\ cut[k] = Len(s)

Lists(s) == {<<>>, <<s>>, <<<<>>, s>>}
Sure == [str |-> <<"a", "*">>, quote |-> UNQUOTED]
Alternatives(w) == {<<w>>, <<w, Sure>>}
Strs(ws) == [k \in DOMAIN ws |-> ws[k].str]
Quotes(ws) == [k \in DOMAIN ws |-> ws[k].quote]

MatchInit == out = <<>> /\ job \in [kind : {"match"}, word : Patterns]

\* ~ and ~~ with one subject, and with lists of them
RunMatch ==
  /\ job.kind = "match" /\ out = <<>>
  /\ out' = [s \in Subjects |-> [c \in Lists(s) \X Alternatives(job.word) |->
               [matched |-> listmatch(c[1], Strs(c[2]), Quotes(c[2])),
                parts |-> extractmatches(c[1], Strs(c[2]), Quotes(c[2]))]]]
  /\ UNCHANGED job

MatchSpec == MatchInit /\ [][RunMatch]_<<job, out>>

-----------------------------------------------------------------------------
Done(kind) == out # <<>> /\ job.kind = kind
Suits(s, w) == P!Matches(s, P!Items(Mark(w)))
StarsOnly(w) == w.str # <<>> /\ \A i \in DOMAIN w.str : Mark(w)[i] = [char |-> "*", raw |-> TRUE]

\* ~ is true when some pattern matches some subject, as the items of the
\* pattern say; a null list is matched by a null list and by stars alone.
\* Left out: classes that begin with ]- (see ClassesAsInEd).
MatchExact ==
  Done("match") /\ ~OddClass(Mark(job.word)) =>
    \A s \in Subjects : \A c \in DOMAIN out[s] :
      out[s][c].matched <=>
        IF c[1] = <<>> THEN c[2] = <<>> \/ \E k \in DOMAIN c[2] : StarsOnly(c[2][k])
        ELSE \E t \in DOMAIN c[1], k \in DOMAIN c[2] : Suits(c[1][t], c[2][k])

\* ~~ returns, for each subject, the pieces that the wildcards of the first
\* pattern with any stand for, each as short as it can be from the left; the
\* only exception is the failed assertion that ExtractionNeverAborts is about.
ExtractExact ==
  LET Pieces(s, w) == IF Suits(s, w) THEN P!Parts(s, P!Items(Mark(w))) ELSE <<>>
      Stops(s, w) == Suits(s, w) /\ StarsAtEnd(s, Mark(w))
      Tried(s, ws) == {k \in DOMAIN ws : \A l \in 1 .. k - 1 : Pieces(s, ws[l]) = <<>>}
      Aborts(list, ws) == \E t \in DOMAIN list : \E k \in Tried(list[t], ws) : Stops(list[t], ws[k])
      Found(list, ws) == FlattenSeq([t \in DOMAIN list |-> Pieces(list[t], ws[Max(Tried(list[t], ws))])])
  IN  Done("match") /\ ~OddClass(Mark(job.word)) =>
        \A s \in Subjects : \A c \in DOMAIN out[s] :
          out[s][c].parts = IF Aborts(c[1], c[2]) THEN ABORT ELSE Found(c[1], c[2])

\* nxes.1: "The rules for character class matching are the same as those for
\* ed(1)", in every class.
ClassesAsInEd ==
  Done("match") => \A s \in Subjects : \A c \in {c \in DOMAIN out[s] : c[1] = <<s>> /\ Len(c[2]) = 1} :
                     out[s][c].matched <=> Suits(s, job.word)

\* match.c asserts that a pattern that matches has not used up the string
ExtractionNeverAborts ==
  Done("match") => \A s \in Subjects : \A c \in DOMAIN out[s] : out[s][c].parts # ABORT
=============================================================================
