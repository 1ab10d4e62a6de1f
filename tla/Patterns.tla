------------------------------ MODULE Patterns ------------------------------
(***************************************************************************)
(* What a pattern means, as the manual page and the comments of match.c    *)
(* state it, independently of how match.c looks for a match.               *)
(*                                                                         *)
(* A pattern is a sequence of marked characters: a character is raw when   *)
(* it was not quoted, and only raw characters are special.  A pattern is   *)
(* read into items (a literal, any character, a class, or any string), and *)
(* a string matches when it can be cut into one piece for each item.       *)
(***************************************************************************)
EXTENDS Integers, Sequences, SequencesExt

CONSTANT CharOrder

Position(c) == CHOOSE i \in DOMAIN CharOrder : CharOrder[i] = c
Raw(m, i, c) == i \in DOMAIN m /\ m[i].raw /\ m[i].char = c

\* where the list of a class opened at i starts, and the bracket that closes it
ClassStart(m, i) == IF Raw(m, i + 1, "~") THEN i + 2 ELSE i + 1
ClassEnds(m, i) == {j \in DOMAIN m : j > ClassStart(m, i) /\ Raw(m, j, "]")}
ClassEnd(m, i) == CHOOSE j \in ClassEnds(m, i) : \A k \in ClassEnds(m, i) : j <= k

\* "The `-' is treated as an ordinary character if it occurs first or last":
\* the other ones are range operators, unless they are an end of a range.
Operators(m, first, last) ==
  LET inner == first + 1 .. last - 1 IN
  CHOOSE R \in SUBSET inner :
    \A k \in inner : k \in R <=> Raw(m, k, "-") /\ k - 1 \notin R /\ k - 2 \notin R

\* the characters that a list stands for
Members(m, first, last) ==
  LET R == Operators(m, first, last) IN
  {m[k].char : k \in {k \in first .. last : {k - 1, k, k + 1} \cap R = {}}}
    \cup UNION {{CharOrder[c] : c \in Position(m[k - 1].char) .. Position(m[k + 1].char)} : k \in R}

Class(m, i) ==
  LET in == Members(m, ClassStart(m, i), ClassEnd(m, i) - 1)
  IN  IF Raw(m, i + 1, "~") THEN ToSet(CharOrder) \ in ELSE in

\* an item: how long a piece it takes, and of which characters
IsClass(m, i) == Raw(m, i, "[") /\ ClassEnds(m, i) # {}
Item(m, i) ==
  [star |-> Raw(m, i, "*"),
   wild |-> Raw(m, i, "*") \/ Raw(m, i, "?") \/ IsClass(m, i),
   chars |-> IF IsClass(m, i) THEN Class(m, i)
             ELSE IF Raw(m, i, "?") THEN ToSet(CharOrder) ELSE {m[i].char}]

Items(m) ==
  LET from[i \in 1 .. Len(m) + 1] ==
        IF i > Len(m) THEN <<>>
        ELSE <<Item(m, i)>> \o from[IF IsClass(m, i) THEN ClassEnd(m, i) + 1 ELSE i + 1]
  IN  from[1]

Takes(item, w) == item.star \/ (Len(w) = 1 /\ w[1] \in item.chars)

\* the last of the items can end at the end of s
Matches(s, items) ==
  LET reached[k \in 0 .. Len(items)] ==
        LET before == reached[k - 1]
        IN  IF k = 0 THEN {0}
            ELSE {e \in 0 .. Len(s) :
                    \E b \in before : b <= e /\ Takes(items[k], SubSeq(s, b + 1, e))}
  IN  Len(s) \in reached[Len(items)]

\* Cuts(s, items)[k] is where the piece of item k ends
Cuts(s, items) ==
  {f \in [0 .. Len(items) -> 0 .. Len(s)] :
     /\ f[0] = 0 /\ f[Len(items)] = Len(s)
     /\ \A k \in DOMAIN items : f[k - 1] <= f[k] /\ Takes(items[k], SubSeq(s, f[k - 1] + 1, f[k]))}

\* the cut that gives each wildcard, from the left, the shortest piece it can take
ShortestCut(s, items) ==
  CHOOSE f \in Cuts(s, items) : \A g \in Cuts(s, items) :
     f = g \/ \E k \in DOMAIN items : f[k] < g[k] /\ \A l \in 1 .. k - 1 : f[l] = g[l]

\* the pieces of the wildcards
Parts(s, items) ==
  LET f == ShortestCut(s, items)
      parts[k \in 1 .. Len(items) + 1] ==
        IF k > Len(items) THEN <<>>
        ELSE (IF items[k].wild THEN <<SubSeq(s, f[k - 1] + 1, f[k])>> ELSE <<>>) \o parts[k + 1]
  IN  parts[1]
=============================================================================
