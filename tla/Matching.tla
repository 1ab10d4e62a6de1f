------------------------------ MODULE Matching ------------------------------
(***************************************************************************)
(* Pattern matching (match.c, and haswild of glob.c).                      *)
(*                                                                         *)
(* A string is a sequence of characters.  A pattern comes with a quoting:  *)
(* QUOTED and UNQUOTED are the two shared strings of glob.c, compared by   *)
(* address; any other quoting is a string of "q" and "r", one for each     *)
(* character of the pattern.  A pointer into a string is its position,     *)
(* and the terminating zero is what stands after the last character.       *)
(***************************************************************************)
EXTENDS Integers, Sequences, SequencesExt

CONSTANTS
  CharOrder,   \* the characters, in the order of their codes
  ReadsQuoted  \* whether a byte read past the end of UNQUOTED[] is a 'q'

ASSUME CharOrderAssumption == CharOrder \in Seq(ToSet(CharOrder)) /\ IsInjective(CharOrder)
ASSUME ReadsQuotedAssumption == ReadsQuoted \in BOOLEAN

QUOTED == <<"QUOTED">>
UNQUOTED == <<"R", "A", "W">>
NUL == "NUL"
ASSUME NULAssumption == NUL \notin ToSet(CharOrder)

Code(c) == IF c = NUL THEN 0 ELSE CHOOSE i \in DOMAIN CharOrder : CharOrder[i] = c

\* the character at a position, and the rest of a string from a position on
At(p, i) == IF i <= Len(p) THEN p[i] ELSE NUL
From(p, i) == SubSeq(p, i, Len(p))

ISQUOTED(q, i) == q = QUOTED \/ (q # UNQUOTED /\ At(q, i) = "q")

\* some unquoted character, from position j on, is a wildcard
WildFrom(p, q, j) == \E i \in j .. Len(p) : ~ISQUOTED(q, i) /\ p[i] \in {"*", "?", "["}
haswild(p, q) == WildFrom(p, q, 1)

-----------------------------------------------------------------------------
(* rangematch: a character against the class whose list starts at p[a].    *)
(* Its pointer q starts as UNQUOTED or as a string of flags and moves      *)
(* along with p; once it has left UNQUOTED the comparison with that        *)
(* address fails, and the three letters and the zero of "RAW" are read as  *)
(* flags, then whatever follows them.                                      *)
RANGE_FAIL == -1
RANGE_ERROR == -2

\* ISQUOTED(q, n) when p stands at position j
ClassQuoted(q, a, j, n) ==
  IF q = UNQUOTED THEN j > a /\ j + n - a > Len(UNQUOTED) /\ ReadsQuoted
                  ELSE At(q, j + n) = "q"

\* Fault: a - before the closing bracket makes a range too.
RangeAtEnd(p, q, a, j) == At(p, j + 1) = "-" /\ ~ClassQuoted(q, a, j, 1)

\* p[j] starts a range such as a-b
RangeAt(p, q, a, j) ==
  /\ At(p, j + 1) = "-" /\ ~ClassQuoted(q, a, j, 1)
  /\ At(p, j + 2) \notin {"]", NUL} \/ ClassQuoted(q, a, j, 2)

\* for each position, whether the class holds c from there on, and where it ends
ClassScan(p, q, a, c) ==
  LET scan[j \in 1 .. Len(p) + 3] ==
        IF At(p, j) = "]" /\ ~ClassQuoted(q, a, j, 0) THEN [matched |-> FALSE, end |-> j + 1]
        ELSE IF At(p, j) = NUL THEN [matched |-> FALSE, end |-> RANGE_ERROR]
        ELSE IF RangeAt(p, q, a, j)
        THEN [scan[j + 3] EXCEPT !.matched = @ \/ Code(c) \in Code(p[j]) .. Code(At(p, j + 2))]
        ELSE [scan[j + 1] EXCEPT !.matched = @ \/ p[j] = c]
  IN  scan

\* the position after the class, if it holds c
rangematch(p, q, a, c) ==
  LET neg == At(p, a) = "~" /\ ~ClassQuoted(q, a, a, 0)
      first == IF neg THEN a + 1 ELSE a
      bracket == At(p, first) = "]" /\ ~ClassQuoted(q, a, first, 0)
      scan == ClassScan(p, q, a, c)[IF bracket THEN first + 1 ELSE first]
      matched == scan.matched \/ (bracket /\ c = "]")
  IN  IF scan.end # RANGE_ERROR /\ matched = neg THEN RANGE_FAIL ELSE scan.end

-----------------------------------------------------------------------------
(* match: one string against one pattern.                                  *)
\* where the stars from position j on end
StarEnd(p, q, j) ==
  CHOOSE e \in j .. Len(p) + 1 :
     /\ At(p, e) # "*" \/ ISQUOTED(q, e)
     /\ \A k \in j .. e - 1 : p[k] = "*" /\ ~ISQUOTED(q, k)

\* for each position of a pattern, which positions of s it matches from there on
MatchFrom(s, p, q) ==
  LET from[j \in 1 .. Len(p) + 1] == [i \in 1 .. Len(s) + 1 |->
        LET c == At(p, j)
            e == StarEnd(p, q, j + 1)
            literal == At(s, i) = c /\ from[j + 1][i + 1]
        IN  IF j > Len(p) THEN i > Len(s)
            ELSE IF ISQUOTED(q, j) \/ c \notin {"?", "*", "["} THEN literal
            ELSE \/ c = "?" /\ i <= Len(s) /\ from[j + 1][i + 1]
                 \/ c = "*" /\ (e > Len(p) \/ \E k \in i .. Len(s) : from[e][k])
                 \/ /\ c = "[" /\ i <= Len(s)
                    /\ \E class \in {rangematch(p, q, j + 1, At(s, i))} :
                         (class > 0 /\ from[class][i + 1]) \/ (class = RANGE_ERROR /\ literal)]
  IN  from

match(s, p, q) == IF q = QUOTED THEN s = p ELSE MatchFrom(s, p, q)[1][1]

\* listmatch: some pattern matches some word; a null list is matched by a null
\* list and by a pattern of stars only
listmatch(subjects, patterns, quotes) ==
  IF subjects = <<>>
  THEN \/ patterns = <<>>
       \/ \E k \in DOMAIN patterns :
            /\ patterns[k] # <<>> /\ quotes[k] # QUOTED
            /\ \A i \in DOMAIN patterns[k] : patterns[k][i] = "*" /\ ~ISQUOTED(quotes[k], i)
  ELSE \E k \in DOMAIN patterns, t \in DOMAIN subjects : match(subjects[t], patterns[k], quotes[k])

-----------------------------------------------------------------------------
(* extractsinglematch: what the wildcards of a pattern stand for, in order.*)
(* ABORT is the failed assertion that the string has not ended.            *)
ABORT == <<<<"ABORT">>>>
ASSUME ABORTAssumption == "ABORT" \notin ToSet(CharOrder)

\* for each position of a pattern, and each position of s that the rest of the
\* pattern matches from, the parts from there on
Extract(s, p, q) ==
  LET matches == MatchFrom(s, p, q)
      Then(part, tail) == IF tail = ABORT THEN ABORT ELSE part \o tail
      parts[j \in 1 .. Len(p) + 1] ==
        [i \in {i \in 1 .. Len(s) + 1 : matches[j][i]} |->
        LET c == At(p, j)
            ends == {k \in i .. Len(s) : matches[j + 1][k]}
            class == rangematch(p, q, j + 1, At(s, i))
        IN  IF j > Len(p) THEN <<>>
            ELSE IF ISQUOTED(q, j) \/ c \notin {"*", "[", "?"} THEN parts[j + 1][i + 1]
            ELSE IF c = "*" /\ j = Len(p) THEN <<From(s, i)>>
            ELSE IF c = "*" /\ ends = {} THEN ABORT
            ELSE IF c = "*"
            THEN Then(<<SubSeq(s, i, Min(ends) - 1)>>,
                      IF WildFrom(p, q, j + 1) THEN parts[j + 1][Min(ends)] ELSE <<>>)
            ELSE IF c = "[" /\ class = RANGE_ERROR THEN parts[j + 1][i + 1]
            ELSE Then(<<<<s[i]>>>>, parts[IF c = "[" THEN class ELSE j + 1][i + 1])]
  IN  parts

extractsinglematch(s, p, q) ==
  IF haswild(p, q) /\ match(s, p, q) THEN Extract(s, p, q)[1][1] ELSE <<>>

\* Fault: the loop over the patterns goes on after one that has parts.
extracteverymatch(subjects, patterns, quotes) ==
  LET Parts(s) == FlattenSeq([k \in DOMAIN patterns |-> extractsinglematch(s, patterns[k], quotes[k])])
  IN  FlattenSeq([t \in DOMAIN subjects |-> Parts(subjects[t])])

FirstWithAny(lists) ==
  LET some == {k \in DOMAIN lists : lists[k] # <<>>} IN IF some = {} THEN <<>> ELSE lists[Min(some)]
UnlessAborted(lists) == IF ABORT \in ToSet(lists) THEN ABORT ELSE FlattenSeq(lists)
\* extractmatches: for each word, the parts of the first pattern that has any
extractmatches(subjects, patterns, quotes) ==
  UnlessAborted([t \in DOMAIN subjects |->
    FirstWithAny([k \in DOMAIN patterns |-> extractsinglematch(subjects[t], patterns[k], quotes[k])])])
=============================================================================
