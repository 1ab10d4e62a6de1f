----------------------------- MODULE DataProofs -----------------------------
(***************************************************************************)
(* The parts of the shell that only keep data.                             *)
(*                                                                         *)
(* Every search of a dictionary ends, and ends with what the table holds;  *)
(* and the table implements a map, whatever the names, the hash function   *)
(* and the number of times it grew.                                        *)
(*                                                                         *)
(* A split returns the pieces of its own text, whatever the splits before  *)
(* it and however its text was cut.                                        *)
(*                                                                         *)
(* ~ tells whether a pattern means a subject, and ~~ what its wildcards    *)
(* stand for there, whatever the characters, patterns and subjects.        *)
(***************************************************************************)
EXTENDS Dictionary, Splitting, MatchJobs, Integers, FiniteSetTheorems, SequenceTheorems, TLAPS

(***************************************************************************)
(* Going round                                                             *)
(***************************************************************************)

\* What division by s gives.
LEMMA Division ==
  ASSUME NEW n \in Int, NEW s \in Int, s > 0
  PROVE  s * (n \div s) + (n % s) = n
  OBVIOUS

LEMMA Quotient ==
  ASSUME NEW n \in Nat, NEW s \in Nat \ {0}
  PROVE  n = s * (n \div s) + (n % s) /\ n \div s \in Nat /\ n % s \in 0 .. s - 1
  <1>1. n \div s \in Int
    OBVIOUS
  <1>2. n % s \in 0 .. s - 1
    OBVIOUS
  <1>3. s * (n \div s) + (n % s) = n
    BY Division
  <1>4. n \div s >= 0
    BY <1>1, <1>2, <1>3
  <1> QED
    BY <1>1, <1>2, <1>3, <1>4

\* Multiples of s are at least s apart.
LEMMA Multiples ==
  ASSUME NEW s \in Nat \ {0}, NEW p \in Int, NEW q \in Int, p < q
  PROVE  s * p + s <= s * q
  OBVIOUS

\* A remainder is the only number below s that is left over.
LEMMA Remainder ==
  ASSUME NEW s \in Nat \ {0}, NEW q \in Nat, NEW r \in 0 .. s - 1
  PROVE  (s * q + r) % s = r
  <1>1. PICK n \in Nat : n = s * q + r
    OBVIOUS
  <1>2. PICK p \in Nat, t \in 0 .. s - 1 : n = s * p + t /\ n % s = t
    BY Quotient
  <1>3. ~ p < q
    BY <1>1, <1>2, Multiples
  <1>4. ~ q < p
    BY <1>1, <1>2, Multiples
  <1> QED
    BY <1>1, <1>2, <1>3, <1>4

\* The slot k steps on from n, in a table of s slots that goes round.
On(s, n, k) == (n + k) % s

LEMMA Around ==
  ASSUME NEW s \in Nat \ {0}, NEW n \in Nat, NEW k \in 0 .. s
  PROVE  /\ n % s \in 0 .. s - 1
         /\ On(s, n, k) = IF (n % s) + k < s THEN (n % s) + k ELSE (n % s) + k - s
  <1>1. PICK q \in Nat, r \in 0 .. s - 1 : n = s * q + r /\ n % s = r
    BY Quotient
  <1>2. CASE r + k < s
    <2>1. n + k = s * q + (r + k)
      BY <1>1
    <2> QED
      BY <1>1, <1>2, <2>1, Remainder DEF On
  <1>3. CASE s <= r + k
    <2>1. PICK p \in Nat, t \in 0 .. s - 1 : p = q + 1 /\ t = r + k - s
      <3>1. q + 1 \in Nat /\ r + k - s \in 0 .. s - 1
        BY <1>3
      <3> QED
        BY <3>1
    <2>2. n + k = s * p + t
      BY <1>1, <2>1
    <2>3. On(s, n, k) = t
      BY <2>2, Remainder DEF On
    <2> QED
      BY <1>1, <1>3, <2>1, <2>3
  <1> QED
    BY <1>1, <1>2, <1>3

\* Fewer than s steps lead to as many slots.
LEMMA Apart ==
  ASSUME NEW s \in Nat \ {0}, NEW n \in Nat, NEW k \in 0 .. s - 1, NEW l \in 0 .. s - 1,
         On(s, n, k) = On(s, n, l)
  PROVE  k = l
  <1>1. k \in 0 .. s /\ l \in 0 .. s
    OBVIOUS
  <1>2. PICK r \in 0 .. s - 1 : r = n % s
    BY Quotient
  <1>3. On(s, n, k) = IF r + k < s THEN r + k ELSE r + k - s
    BY <1>1, <1>2, Around
  <1>4. On(s, n, l) = IF r + l < s THEN r + l ELSE r + l - s
    BY <1>1, <1>2, Around
  <1>5. (IF r + k < s THEN r + k ELSE r + k - s) = (IF r + l < s THEN r + l ELSE r + l - s)
    BY <1>3, <1>4
  <1> QED
    BY <1>2, <1>5

\* Fewer than s steps lead to every slot.
LEMMA Reaches ==
  ASSUME NEW s \in Nat \ {0}, NEW n \in Nat, NEW i \in 0 .. s - 1
  PROVE  \E k \in 0 .. s - 1 : On(s, n, k) = i
  <1>1. PICK r \in 0 .. s - 1 : r = n % s
    BY Quotient
  <1>2. PICK k \in 0 .. s - 1 : k = IF r <= i THEN i - r ELSE i + s - r
    <2>1. (IF r <= i THEN i - r ELSE i + s - r) \in 0 .. s - 1
      OBVIOUS
    <2> QED
      BY <2>1
  <1>3. k \in 0 .. s
    BY <1>2
  <1>4. On(s, n, k) = IF r + k < s THEN r + k ELSE r + k - s
    BY <1>1, <1>3, Around
  <1>5. On(s, n, k) = i
    BY <1>1, <1>2, <1>4
  <1> QED
    BY <1>5

\* From one slot the same number of steps leads to one slot.
LEMMA Together ==
  ASSUME NEW s \in Nat \ {0}, NEW n \in Nat, NEW m \in Nat, NEW k \in 0 .. s, n % s = m % s
  PROVE  On(s, n, k) = On(s, m, k)
  BY Around, ZenonT(40)

\* A slot is its own index, and so is the slot s steps on.
LEMMA Itself ==
  ASSUME NEW s \in Nat \ {0}, NEW i \in 0 .. s - 1
  PROVE  i % s = i /\ (i + s) % s = i
  OBVIOUS

\* There is a least one among some numbers.
LEMMA LeastOne ==
  ASSUME NEW S \in SUBSET Nat, S # {}
  PROVE  Least(S) \in S /\ \A l \in S : Least(S) <= l
  <1> DEFINE Lower == OpToRel(<, Nat)
  <1>1. PICK n \in S : \A m \in S : <<m, n>> \notin Lower
    BY NatLessThanWellFounded, WFMin
  <1>2. ASSUME NEW m \in S PROVE n <= m
    <2>1. m \in Nat /\ n \in Nat
      OBVIOUS
    <2>2. <<m, n>> \notin {ss \in Nat \X Nat : ss[1] < ss[2]}
      BY <1>1 DEF OpToRel
    <2>3. <<m, n>> \in Nat \X Nat
      BY <2>1
    <2>4. ~(<<m, n>>[1] < <<m, n>>[2])
      BY <2>2, <2>3, Zenon
    <2> QED
      BY <2>1, <2>4
  <1> QED
    BY <1>2 DEF Least

-----------------------------------------------------------------------------
(***************************************************************************)
(* Good tables                                                             *)
(***************************************************************************)
SlotsOf(d) == 0 .. d.size - 1
LiveIn(d) == {i \in SlotsOf(d) : d.table[i].name \in Names}
UsedIn(d) == {i \in SlotsOf(d) : d.table[i].name # NULL}

Slot == [name : Names \cup {DEAD, NULL}, value : Values \cup {NULL}]

\* A table, and at least two slots in it.
IsDict(d) ==
  /\ d.size \in Nat /\ 2 <= d.size
  /\ d \in [size : Nat, remain : Nat, table : [SlotsOf(d) -> Slot]]

\* Slots without a name have no value, those with one have a value, and no
\* name is in two slots.
Sane(d) ==
  /\ \A i \in SlotsOf(d) : d.table[i].name = NULL => d.table[i].value = NULL
  /\ \A i \in LiveIn(d) : d.table[i].value \in Values
  /\ \A i, j \in LiveIn(d) : d.table[i].name = d.table[j].name => i = j

\* No slot is empty on the way from where the search for a name starts to the
\* slot that holds it.
Reached(d, h) ==
  \A i \in LiveIn(d) : \E k \in SlotsOf(d) :
    /\ i = On(d.size, h[d.table[i].name], k)
    /\ \A l \in SlotsOf(d) :
         l < k => d.table[On(d.size, h[d.table[i].name], l)].name # NULL

\* remain counts the slots that may still be used.
Counted(d) ==
  /\ 1 <= d.remain
  /\ d.remain + Cardinality(UsedIn(d)) = REMAIN(d.size)

Good(d, h) == IsDict(d) /\ Sane(d) /\ Reached(d, h) /\ Counted(d)

\* Two thirds of the slots may be used, and twice as many when there are
\* twice as many slots.
LEMMA Room ==
  ASSUME NEW s \in Nat, 2 <= s
  PROVE  /\ REMAIN(s) \in Nat /\ REMAIN(s) < s /\ REMAIN(s) + 1 <= REMAIN(GROW(s))
         /\ GROW(s) \in Nat /\ s < GROW(s)
  BY DEF REMAIN, GROW

\* Where a step leads is a slot.
LEMMA OnType ==
  ASSUME NEW d, IsDict(d), NEW n \in Nat, NEW k \in SlotsOf(d)
  PROVE  On(d.size, n, k) \in SlotsOf(d)
  <1>1. n + k \in Nat /\ d.size \in Nat \ {0}
    BY DEF IsDict, SlotsOf
  <1> QED
    BY <1>1, Quotient DEF On, SlotsOf

\* Some of the slots are a finite set.
LEMMA Finite ==
  ASSUME NEW d, IsDict(d), NEW S \in SUBSET SlotsOf(d)
  PROVE  IsFiniteSet(S) /\ Cardinality(S) \in Nat /\ Cardinality(S) <= d.size
  <1>1. IsFiniteSet(SlotsOf(d)) /\ Cardinality(SlotsOf(d)) = d.size
    BY FS_Interval DEF SlotsOf, IsDict
  <1> QED
    BY <1>1, FS_Subset, FS_CardinalityType

\* A table always has an empty slot.
LEMMA HasEmpty ==
  ASSUME NEW d, NEW h, Good(d, h)
  PROVE  \E i \in SlotsOf(d) : d.table[i].name = NULL
  <1>1. SUFFICES ASSUME UsedIn(d) = SlotsOf(d) PROVE FALSE
    BY DEF UsedIn
  <1>2. IsDict(d) /\ Counted(d) /\ d.size \in Nat /\ 2 <= d.size /\ d.remain \in Nat
    BY DEF Good, IsDict
  <1>3. Cardinality(SlotsOf(d)) = d.size
    BY <1>2, FS_Interval DEF SlotsOf
  <1>4. REMAIN(d.size) < d.size
    BY <1>2, Room
  <1> QED
    BY <1>1, <1>2, <1>3, <1>4, Room DEF Counted

\* The search ends at the first slot that holds what is sought.
IsFirst(d, n, names, i) ==
  \E k \in SlotsOf(d) :
    /\ i = On(d.size, n, k) /\ i \in SlotsOf(d) /\ d.table[i].name \in names
    /\ \A l \in SlotsOf(d) : l < k => d.table[On(d.size, n, l)].name \notin names

LEMMA FirstIs ==
  ASSUME NEW d, IsDict(d), NEW n \in Nat, NEW names,
         \E i \in SlotsOf(d) : d.table[i].name \in names
  PROVE  IsFirst(d, n, names, FirstHolding(d, n, names))
  <1> DEFINE S == {k \in 0 .. d.size - 1 : d.table[Index(d, n + k)].name \in names}
  <1>1. d.size \in Nat \ {0} /\ S \in SUBSET Nat
    BY DEF IsDict
  <1>2. \A k \in SlotsOf(d) : Index(d, n + k) = On(d.size, n, k)
    BY DEF Index, On
  <1>3. S # {}
    <2>1. PICK i \in SlotsOf(d) : d.table[i].name \in names
      OBVIOUS
    <2>2. PICK k \in SlotsOf(d) : On(d.size, n, k) = i
      BY <1>1, Reaches DEF SlotsOf
    <2> QED
      BY <1>2, <2>1, <2>2 DEF SlotsOf
  <1>4. Least(S) \in S /\ \A l \in S : Least(S) <= l
    BY <1>1, <1>3, LeastOne
  <1>5. FirstHolding(d, n, names) = Index(d, n + Least(S))
    BY DEF FirstHolding
  <1> HIDE DEF S
  <1>6. PICK k : k = Least(S)
    OBVIOUS
  <1>7. k \in SlotsOf(d) /\ d.table[On(d.size, n, k)].name \in names
    BY <1>2, <1>4, <1>6 DEF S, SlotsOf
  <1>8. FirstHolding(d, n, names) = On(d.size, n, k) /\ On(d.size, n, k) \in SlotsOf(d)
    BY <1>2, <1>5, <1>6, <1>7, OnType
  <1>9. ASSUME NEW l \in SlotsOf(d), l < k, d.table[On(d.size, n, l)].name \in names
        PROVE  FALSE
    <2>1. l \in S
      BY <1>2, <1>9 DEF S, SlotsOf
    <2> QED
      BY <1>1, <1>4, <1>6, <1>7, <1>9, <2>1 DEF SlotsOf
  <1> QED
    BY <1>7, <1>8, <1>9 DEF IsFirst

-----------------------------------------------------------------------------
(***************************************************************************)
(* What is hashed                                                          *)
(***************************************************************************)

\* strhash2 mixes the letters of one name after those of the other.
Strings == Seq(Letters) \X (Seq(Letters) \cup {NULL})

Rest(t) == IF t = NULL THEN <<>> ELSE t

NextLetter(f) ==
  [strs \in Strings |->
     LET s == strs[1]
         str2 == strs[2]
     IN IF s # <<>> THEN <<Head(s)>> \o f[<<Tail(s), str2>>]
        ELSE IF str2 \in {NULL, <<>>} THEN <<>>
        ELSE f[<<str2, NULL>>]]

\* A string that is not empty is its first letter and the others.
LEMMA HeadAndTail ==
  ASSUME NEW u \in Seq(Letters), u # <<>>
  PROVE  /\ u = <<Head(u)>> \o Tail(u)
         /\ Head(u) \in Letters /\ Tail(u) \in Seq(Letters)
         /\ Len(Tail(u)) \in Nat /\ Len(Tail(u)) < Len(u)
  <1>1. u = <<Head(u)>> \o Tail(u)
    OBVIOUS
  <1>2. Head(u) \in Letters /\ Tail(u) \in Seq(Letters)
    OBVIOUS
  <1>3. Len(u) \in Nat /\ Len(Tail(u)) = Len(u) - 1
    OBVIOUS
  <1>4. Len(Tail(u)) \in Nat
    BY <1>2
  <1> QED
    BY <1>1, <1>2, <1>3, <1>4

\* The three cases of ADVANCE.
LEMMA Advance ==
  ASSUME NEW f, f = NextLetter(f), NEW s \in Seq(Letters),
         NEW t \in Seq(Letters) \cup {NULL}
  PROVE  /\ s # <<>> => f[<<s, t>>] = <<Head(s)>> \o f[<<Tail(s), t>>]
         /\ s = <<>> /\ t \in {NULL, <<>>} => f[<<s, t>>] = <<>>
         /\ s = <<>> /\ t \notin {NULL, <<>>} => f[<<s, t>>] = f[<<t, NULL>>]
  <1>1. PICK p : p = <<s, t>> /\ p[1] = s /\ p[2] = t
    <2>1. <<s, t>>[1] = s /\ <<s, t>>[2] = t
      OBVIOUS
    <2> QED
      BY <2>1, Zenon
  <1>2. p \in Strings
    BY <1>1 DEF Strings
  <1>3. f[p] = IF s # <<>> THEN <<Head(s)>> \o f[<<Tail(s), t>>]
               ELSE IF t \in {NULL, <<>>} THEN <<>>
               ELSE f[<<t, NULL>>]
    BY <1>1, <1>2 DEF NextLetter
  <1> QED
    BY <1>1, <1>3

\* When the letters of the second are mixed as they should be, so are those of
\* the first and the second.
LEMMA LettersOf ==
  ASSUME NEW f, f = NextLetter(f), NEW t \in Seq(Letters) \cup {NULL},
         \A e \in Seq(Letters) : e = <<>> => f[<<e, t>>] = Rest(t),
         NEW s \in Seq(Letters)
  PROVE  f[<<s, t>>] = s \o Rest(t)
  <1> DEFINE Wrong(n) == \E u \in Seq(Letters) : n = Len(u) /\ f[<<u, t>>] # u \o Rest(t)
             S == {n \in Nat : Wrong(n)}
  <1>1. Rest(t) \in Seq(Letters)
    BY DEF Rest
  <1>2. ASSUME f[<<s, t>>] # s \o Rest(t) PROVE S # {}
    <2>1. Len(s) \in Nat
      OBVIOUS
    <2>2. Wrong(Len(s))
      BY <1>2
    <2> QED
      BY <2>1, <2>2
  <1>3. SUFFICES ASSUME S # {} PROVE FALSE
    BY <1>2
  <1>4. PICK n \in S : \A l \in S : n <= l
    BY <1>3, LeastOne
  <1>5. PICK u \in Seq(Letters) : n = Len(u) /\ f[<<u, t>>] # u \o Rest(t)
    BY <1>4
  <1>6. u # <<>>
    <2>1. u = <<>> => u \o Rest(t) = Rest(t)
      BY <1>1
    <2> QED
      BY <1>5, <2>1
  <1>7. PICK v \in Seq(Letters), c \in Letters :
          u = <<c>> \o v /\ v = Tail(u) /\ c = Head(u) /\ Len(v) \in Nat /\ Len(v) < n
    BY <1>5, <1>6, HeadAndTail
  <1>8. Len(v) \notin S
    <2>1. SUFFICES ASSUME Len(v) \in S PROVE FALSE
      OBVIOUS
    <2>2. n <= Len(v) /\ n \in Nat
      BY <1>4, <2>1
    <2> QED
      BY <1>7, <2>2
  <1>9. f[<<v, t>>] = v \o Rest(t)
    BY <1>7, <1>8
  <1>10. f[<<u, t>>] = <<c>> \o f[<<v, t>>]
    BY <1>6, <1>7, Advance, ZenonT(40)
  <1>11. (<<c>> \o v) \o Rest(t) = <<c>> \o (v \o Rest(t))
    <2>1. <<c>> \in Seq(Letters)
      OBVIOUS
    <2> QED
      BY <1>1, <2>1
  <1> QED
    BY <1>5, <1>7, <1>9, <1>10, <1>11

LEMMA MixedIs ==
  ASSUME NEW s \in Seq(Letters), NEW t \in Seq(Letters) \cup {NULL}
  PROVE  Mixed[<<s, t>>] = s \o Rest(t)
  <1>1. Mixed = CHOOSE f : f = NextLetter(f)
    BY DEF Mixed, NextLetter, Strings
  <1>2. PICK g : g = [strs \in Strings |-> strs[1] \o Rest(strs[2])]
    OBVIOUS
  <1>3. ASSUME NEW u \in Seq(Letters), NEW v \in Seq(Letters) \cup {NULL}
        PROVE  g[<<u, v>>] = u \o Rest(v) /\ Rest(v) \in Seq(Letters)
    <2>1. PICK p : p = <<u, v>> /\ p[1] = u /\ p[2] = v
      <3>1. <<u, v>>[1] = u /\ <<u, v>>[2] = v
        OBVIOUS
      <3> QED
        BY <3>1, Zenon
    <2>2. p \in Strings
      BY <2>1 DEF Strings
    <2> QED
      BY <1>2, <2>1, <2>2 DEF Rest
  <1>4. g = NextLetter(g)
    <2>1. ASSUME NEW p \in Strings PROVE g[p] = NextLetter(g)[p]
      <3>1. PICK u \in Seq(Letters), v \in Seq(Letters) \cup {NULL} :
              p = <<u, v>> /\ p[1] = u /\ p[2] = v
        BY DEF Strings
      <3>2. NextLetter(g)[p] = IF u # <<>> THEN <<Head(u)>> \o g[<<Tail(u), v>>]
                               ELSE IF v \in {NULL, <<>>} THEN <<>>
                               ELSE g[<<v, NULL>>]
        BY <3>1 DEF NextLetter
      <3>3. g[p] = u \o Rest(v) /\ Rest(v) \in Seq(Letters)
        BY <1>3, <3>1
      <3>4. CASE u # <<>>
        <4>1. PICK w \in Seq(Letters), c \in Letters : u = <<c>> \o w /\ w = Tail(u) /\ c = Head(u)
          BY <3>4, HeadAndTail
        <4>2. g[<<w, v>>] = w \o Rest(v)
          BY <1>3
        <4>3. (<<c>> \o w) \o Rest(v) = <<c>> \o (w \o Rest(v))
          <5>1. <<c>> \in Seq(Letters)
            OBVIOUS
          <5> QED
            BY <3>3, <5>1
        <4> QED
          BY <3>2, <3>3, <3>4, <4>1, <4>2, <4>3
      <3>5. CASE u = <<>>
        <4>1. u \o Rest(v) = Rest(v)
          BY <3>3, <3>5
        <4>2. CASE v \in {NULL, <<>>}
          <5>1. Rest(v) = <<>>
            BY <4>2 DEF Rest
          <5> QED
            BY <3>2, <3>3, <3>5, <4>1, <4>2, <5>1
        <4>3. CASE v \notin {NULL, <<>>}
          <5>1. v \in Seq(Letters) /\ Rest(v) = v /\ Rest(NULL) = <<>>
            BY <4>3 DEF Rest
          <5>2. g[<<v, NULL>>] = v \o Rest(NULL)
            BY <1>3, <5>1
          <5>3. v \o Rest(NULL) = v
            BY <5>1
          <5> QED
            BY <3>2, <3>3, <3>5, <4>1, <4>3, <5>1, <5>2, <5>3
        <4> QED
          BY <4>2, <4>3
      <3> QED
        BY <3>4, <3>5
    <2>2. NextLetter(g) = [p \in Strings |-> NextLetter(g)[p]]
      BY DEF NextLetter
    <2>3. g = [p \in Strings |-> g[p]]
      BY <1>2
    <2> QED
      BY <2>1, <2>2, <2>3, Zenon
  <1>5. Mixed = NextLetter(Mixed)
    BY <1>1, <1>4, Zenon
  <1>6. ASSUME NEW u \in Seq(Letters) PROVE Mixed[<<u, NULL>>] = u \o Rest(NULL)
    <2>1. \A e \in Seq(Letters) : e = <<>> => Mixed[<<e, NULL>>] = Rest(NULL)
      BY <1>5, Advance DEF Rest
    <2> QED
      BY <1>5, <2>1, LettersOf
  <1>7. ASSUME NEW e \in Seq(Letters), e = <<>> PROVE Mixed[<<e, t>>] = Rest(t)
    <2>1. CASE t \in {NULL, <<>>}
      BY <1>5, <1>7, <2>1, Advance DEF Rest
    <2>2. CASE t \notin {NULL, <<>>}
      <3>1. Mixed[<<e, t>>] = Mixed[<<t, NULL>>]
        BY <1>5, <1>7, <2>2, Advance
      <3>2. t \in Seq(Letters) /\ Rest(t) = t /\ Rest(NULL) = <<>>
        BY <2>2 DEF Rest
      <3>3. Mixed[<<t, NULL>>] = t \o Rest(NULL)
        BY <1>6, <3>2
      <3>4. t \o Rest(NULL) = t
        BY <3>2
      <3> QED
        BY <3>1, <3>2, <3>3, <3>4
    <2> QED
      BY <2>1, <2>2
  <1> QED
    BY <1>5, <1>7, LettersOf

\* A name is hashed letter by letter, and two names as the one they make up.
LEMMA HashIs ==
  ASSUME NEW name \in Names
  PROVE  /\ Strhash2(name, NULL) = hash[name]
         /\ \A n1, n2 \in Names : n1 \o n2 = name => Strhash2(n1, n2) = hash[name]
  <1>1. \A n \in Names : n \in Seq(Letters) /\ n # NULL
    BY DictionaryAssumption
  <1>2. Mixed[<<name, NULL>>] = name
    <2>1. Mixed[<<name, NULL>>] = name \o Rest(NULL)
      BY <1>1, MixedIs
    <2>2. name \o <<>> = name
      BY <1>1
    <2> QED
      BY <2>1, <2>2 DEF Rest
  <1>3. ASSUME NEW n1 \in Names, NEW n2 \in Names, n1 \o n2 = name
        PROVE  Mixed[<<n1, n2>>] = name
    <2>1. Mixed[<<n1, n2>>] = n1 \o Rest(n2)
      BY <1>1, MixedIs
    <2> QED
      BY <1>1, <1>3, <2>1 DEF Rest
  <1> QED
    BY <1>2, <1>3 DEF Strhash2

-----------------------------------------------------------------------------
(***************************************************************************)
(* Looking up                                                              *)
(***************************************************************************)
Hashing == hash \in [Names -> Nat]

\* Slot i holds the name, or no slot does and slot i is empty.
Answers(d, name, i) ==
  /\ i \in SlotsOf(d)
  /\ \/ d.table[i].name = name
     \/ /\ d.table[i].name = NULL
        /\ \A j \in SlotsOf(d) : d.table[j].name # name

\* A search that starts where the name hashes to, and stops at the name or at
\* an empty slot, answers whether the name is there.
LEMMA SearchIs ==
  ASSUME Hashing, NEW d, Good(d, hash), NEW name \in Names
  PROVE  Answers(d, name, FirstHolding(d, hash[name], {name, NULL}))
  <1>1. IsDict(d) /\ Reached(d, hash) /\ hash[name] \in Nat /\ name # NULL
    BY DictionaryAssumption DEF Good, Hashing
  <1>2. \E i \in SlotsOf(d) : d.table[i].name \in {name, NULL}
    BY HasEmpty
  <1>3. PICK i : i = FirstHolding(d, hash[name], {name, NULL})
    OBVIOUS
  <1>4. PICK k \in SlotsOf(d) :
          /\ i = On(d.size, hash[name], k) /\ i \in SlotsOf(d) /\ d.table[i].name \in {name, NULL}
          /\ \A l \in SlotsOf(d) :
               l < k => d.table[On(d.size, hash[name], l)].name \notin {name, NULL}
    BY <1>1, <1>2, <1>3, FirstIs DEF IsFirst
  <1>5. ASSUME d.table[i].name = NULL, NEW j \in SlotsOf(d), d.table[j].name = name
        PROVE  FALSE
    <2>1. PICK m \in SlotsOf(d) :
            /\ j = On(d.size, hash[name], m)
            /\ \A l \in SlotsOf(d) :
                 l < m => d.table[On(d.size, hash[name], l)].name # NULL
      BY <1>1, <1>5 DEF Reached, LiveIn
    <2>2. m \in Nat /\ k \in Nat
      BY <1>1 DEF SlotsOf, IsDict
    <2>3. ~ m < k
      BY <1>4, <1>5, <2>1
    <2>4. ~ k < m
      BY <1>4, <1>5, <2>1
    <2>5. k = m
      BY <2>2, <2>3, <2>4
    <2> QED
      BY <1>1, <1>4, <1>5, <2>1, <2>5
  <1> QED
    BY <1>3, <1>4, <1>5 DEF Answers

-----------------------------------------------------------------------------
(***************************************************************************)
(* Putting a name that is not there into a table with room                 *)
(***************************************************************************)
Holds(d, n, v) ==
  \E i \in SlotsOf(d) : d.table[i].name = n /\ d.table[i].value = v

\* e is d with one more name.
Extends(d, e, name, val) ==
  /\ Good(e, hash)
  /\ e.size = d.size
  /\ d.remain - 1 <= e.remain
  /\ \A n \in Names : \A v : Holds(e, n, v) <=> (n = name /\ v = val) \/ Holds(d, n, v)

LEMMA InsertIs ==
  ASSUME Hashing, NEW d, Good(d, hash), NEW name \in Names, NEW val \in Values,
         \A j \in SlotsOf(d) : d.table[j].name # name, ~Full(d)
  PROVE  Extends(d, Insert(d, name, val), name, val)
  <1>1. /\ IsDict(d) /\ Sane(d) /\ Reached(d, hash) /\ Counted(d)
        /\ hash[name] \in Nat /\ name # NULL /\ name # DEAD /\ NULL # DEAD
    BY DictionaryAssumption DEF Good, Hashing
  <1>2. PICK i : i = FirstHolding(d, hash[name], {DEAD, NULL})
    OBVIOUS
  <1>3. PICK k \in SlotsOf(d) :
          /\ i = On(d.size, hash[name], k) /\ i \in SlotsOf(d) /\ d.table[i].name \in {DEAD, NULL}
          /\ \A l \in SlotsOf(d) :
               l < k => d.table[On(d.size, hash[name], l)].name \notin {DEAD, NULL}
    <2>1. \E j \in SlotsOf(d) : d.table[j].name \in {DEAD, NULL}
      BY HasEmpty
    <2> QED
      BY <1>1, <1>2, <2>1, FirstIs DEF IsFirst
  <1>4. PICK e : e = Insert(d, name, val)
    OBVIOUS
  <1>5. PICK slot \in Slot : slot = [name |-> name, value |-> val]
    <2>1. [name |-> name, value |-> val] \in Slot
      BY DEF Slot
    <2> QED
      BY <2>1
  <1>6. /\ e.size = d.size
        /\ e.table = [d.table EXCEPT ![i] = slot]
        /\ e.remain = IF d.table[i].name = NULL THEN d.remain - 1 ELSE d.remain
        /\ e = [size |-> e.size, remain |-> e.remain, table |-> e.table]
    BY <1>1, <1>2, <1>4, <1>5, HashIs DEF Insert, IsDict
  <1>7. d.remain \in Nat /\ 2 <= d.remain /\ d.size \in Nat /\ 2 <= d.size
        /\ d.table \in [SlotsOf(d) -> Slot]
    BY <1>1 DEF IsDict, Full
  <1>8. SlotsOf(e) = SlotsOf(d) /\ slot.name = name /\ slot.value = val
    BY <1>5, <1>6 DEF SlotsOf
  <1>9. /\ e.table \in [SlotsOf(d) -> Slot]
        /\ e.table[i] = slot
        /\ \A j \in SlotsOf(d) : j # i => e.table[j] = d.table[j]
    BY <1>3, <1>6, <1>7
  <1>10. e.remain \in Nat /\ 1 <= e.remain /\ d.remain - 1 <= e.remain
    BY <1>6, <1>7
  <1>11. IsDict(e)
    BY <1>6, <1>7, <1>8, <1>9, <1>10 DEF IsDict
  <1>12. i \notin LiveIn(d)
    BY <1>1, <1>3, DictionaryAssumption DEF LiveIn
  <1>13. LiveIn(e) = LiveIn(d) \cup {i}
    BY <1>3, <1>8, <1>9 DEF LiveIn
  <1>14. UsedIn(e) = UsedIn(d) \cup {i}
    BY <1>1, <1>3, <1>8, <1>9 DEF UsedIn
  <1>15. Sane(e)
    <2>1. ASSUME NEW j \in SlotsOf(e), e.table[j].name = NULL PROVE e.table[j].value = NULL
      BY <1>1, <1>8, <1>9, <2>1 DEF Sane
    <2>2. ASSUME NEW j \in LiveIn(e) PROVE e.table[j].value \in Values
      BY <1>1, <1>8, <1>9, <1>13 DEF Sane, LiveIn
    <2>3. ASSUME NEW j \in LiveIn(e), NEW l \in LiveIn(e), e.table[j].name = e.table[l].name
          PROVE  j = l
      BY <1>1, <1>8, <1>9, <1>13, <2>3 DEF Sane, LiveIn
    <2> QED
      BY <2>1, <2>2, <2>3 DEF Sane
  <1>16. Reached(e, hash)
    <2>1. ASSUME NEW n \in Nat, NEW l \in SlotsOf(d), d.table[On(d.size, n, l)].name # NULL
          PROVE  e.table[On(d.size, n, l)].name # NULL
      BY <1>1, <1>8, <1>9, <2>1, OnType
    <2>2. ASSUME NEW j \in LiveIn(e), j # i
          PROVE  \E m \in SlotsOf(e) :
                   /\ j = On(e.size, hash[e.table[j].name], m)
                   /\ \A l \in SlotsOf(e) :
                        l < m => e.table[On(e.size, hash[e.table[j].name], l)].name # NULL
      <3>1. j \in LiveIn(d) /\ e.table[j] = d.table[j] /\ d.table[j].name \in Names
        BY <1>9, <1>13, <2>2 DEF LiveIn
      <3>2. PICK m \in SlotsOf(d) :
              /\ j = On(d.size, hash[d.table[j].name], m)
              /\ \A l \in SlotsOf(d) :
                   l < m => d.table[On(d.size, hash[d.table[j].name], l)].name # NULL
        BY <1>1, <3>1 DEF Reached
      <3>3. hash[d.table[j].name] \in Nat
        BY <3>1 DEF Hashing
      <3> QED
        BY <1>6, <1>8, <2>1, <3>1, <3>2, <3>3
    <2>3. \A l \in SlotsOf(d) : l < k => d.table[On(d.size, hash[name], l)].name # NULL
      BY <1>3
    <2> QED
      BY <1>1, <1>3, <1>6, <1>8, <1>9, <2>1, <2>2, <2>3 DEF Reached
  <1>17. Counted(e)
    <2>1. IsFiniteSet(UsedIn(d)) /\ Cardinality(UsedIn(d)) \in Nat
      BY <1>1, Finite DEF UsedIn
    <2>2. Cardinality(UsedIn(e)) = IF i \in UsedIn(d) THEN Cardinality(UsedIn(d))
                                   ELSE Cardinality(UsedIn(d)) + 1
      BY <1>14, <2>1, FS_AddElement
    <2>3. i \in UsedIn(d) <=> d.table[i].name # NULL
      BY <1>3 DEF UsedIn
    <2>4. REMAIN(e.size) = REMAIN(d.size)
      BY <1>6
    <2> QED
      BY <1>1, <1>6, <1>7, <1>10, <2>1, <2>2, <2>3, <2>4 DEF Counted
  <1>18. ASSUME NEW n \in Names, NEW v
         PROVE  Holds(e, n, v) <=> (n = name /\ v = val) \/ Holds(d, n, v)
    <2>1. ASSUME Holds(d, n, v) PROVE Holds(e, n, v)
      BY <1>1, <1>3, <1>8, <1>9, <2>1, DictionaryAssumption DEF Holds
    <2>2. ASSUME Holds(e, n, v), ~(n = name /\ v = val) PROVE Holds(d, n, v)
      BY <1>8, <1>9, <2>2 DEF Holds
    <2>3. ASSUME n = name, v = val PROVE Holds(e, n, v)
      BY <1>3, <1>8, <1>9, <2>3 DEF Holds
    <2> QED
      BY <2>1, <2>2, <2>3
  <1> QED
    BY <1>4, <1>6, <1>10, <1>11, <1>15, <1>16, <1>17, <1>18 DEF Extends, Good

-----------------------------------------------------------------------------
(***************************************************************************)
(* Growing                                                                 *)
(***************************************************************************)
Visit(d, f, n) ==
  [k \in 0 .. n |-> IF k = 0 THEN Mkdict0(GROW(d.size)) ELSE PutAgain(f[k - 1], d.table[k - 1])]

\* dictforall visits one slot after the other.
LEMMA Visits ==
  ASSUME NEW d, d.size \in Nat, NEW n \in Nat
  PROVE  \E f : f = Visit(d, f, n)
  <1> DEFINE S == {m \in Nat : ~ \E f : f = Visit(d, f, m)}
  <1>1. SUFFICES ASSUME S # {} PROVE FALSE
    OBVIOUS
  <1>2. PICK m \in S : \A l \in S : m <= l
    BY <1>1, LeastOne
  <1>3. m # 0
    <2>1. PICK f : f = [k \in 0 .. 0 |-> Mkdict0(GROW(d.size))]
      OBVIOUS
    <2>2. f = Visit(d, f, 0)
      BY <2>1 DEF Visit
    <2> QED
      BY <1>2, <2>2
  <1>4. m \in Nat /\ m - 1 \in Nat /\ m - 1 \notin S
    <2>1. m \in Nat /\ m - 1 \in Nat /\ ~ m <= m - 1
      BY <1>2, <1>3
    <2> QED
      BY <1>2, <2>1
  <1>5. PICK f : f = Visit(d, f, m - 1)
    BY <1>4
  <1>6. PICK g : g = [k \in 0 .. m |-> IF k < m THEN f[k] ELSE PutAgain(f[m - 1], d.table[m - 1])]
    OBVIOUS
  <1>7. ASSUME NEW k \in 0 .. m PROVE g[k] = Visit(d, g, m)[k]
    <2>1. CASE k = 0
      <3>1. k \in 0 .. m - 1 /\ k < m
        BY <1>4, <2>1
      <3> QED
        BY <1>5, <1>6, <2>1, <3>1 DEF Visit
    <2>2. CASE k # 0
      <3>1. k - 1 \in 0 .. m /\ k - 1 < m /\ k - 1 \in 0 .. m - 1
        BY <1>4, <2>2
      <3>2. g[k - 1] = f[k - 1]
        BY <1>6, <3>1
      <3>3. Visit(d, g, m)[k] = PutAgain(f[k - 1], d.table[k - 1])
        BY <2>2, <3>2 DEF Visit
      <3>4. CASE k = m
        BY <1>4, <1>6, <3>3, <3>4
      <3>5. CASE k # m
        <4>1. k < m /\ k \in 0 .. m - 1
          BY <1>4, <3>5
        <4>2. f[k] = PutAgain(f[k - 1], d.table[k - 1])
          BY <1>5, <2>2, <4>1 DEF Visit
        <4> QED
          BY <1>6, <3>3, <4>1, <4>2
      <3> QED
        BY <3>4, <3>5
    <2> QED
      BY <2>1, <2>2
  <1>8. g = [k \in 0 .. m |-> g[k]] /\ Visit(d, g, m) = [k \in 0 .. m |-> Visit(d, g, m)[k]]
    BY <1>6 DEF Visit
  <1>9. g = Visit(d, g, m)
    BY <1>7, <1>8, Zenon
  <1> QED
    BY <1>2, <1>9

\* e is the new table after dictforall visited the first k slots of d.
LiveBelow(d, k) == {i \in LiveIn(d) : i < k}

Built(d, e, k) ==
  /\ Good(e, hash)
  /\ e.size = GROW(d.size)
  /\ REMAIN(GROW(d.size)) <= e.remain + Cardinality(LiveBelow(d, k))
  /\ \A n \in Names : \A v :
       Holds(e, n, v) <=> \E i \in SlotsOf(d) : i < k /\ d.table[i].name = n /\ d.table[i].value = v

\* A new table is good, and empty.
LEMMA Mkdict0Is ==
  ASSUME NEW d, IsDict(d)
  PROVE  Built(d, Mkdict0(GROW(d.size)), 0)
  <1>1. PICK s \in Nat : s = GROW(d.size) /\ 2 <= s /\ REMAIN(s) \in Nat /\ 1 <= REMAIN(s)
    BY Room DEF IsDict, REMAIN, GROW
  <1>2. PICK e : e = Mkdict0(s)
    OBVIOUS
  <1>3. e.size = s /\ e.remain = REMAIN(s)
        /\ e.table = [i \in 0 .. s - 1 |-> EmptySlot]
        /\ e = [size |-> e.size, remain |-> e.remain, table |-> e.table]
    BY <1>2 DEF Mkdict0
  <1>4. EmptySlot \in Slot /\ EmptySlot.name = NULL /\ EmptySlot.value = NULL
    BY DEF EmptySlot, Slot
  <1>5. \A i \in SlotsOf(e) : e.table[i] = EmptySlot
    BY <1>3 DEF SlotsOf
  <1>6. IsDict(e)
    BY <1>1, <1>3, <1>4 DEF IsDict, SlotsOf
  <1>7. LiveIn(e) = {} /\ UsedIn(e) = {}
    BY <1>4, <1>5, DictionaryAssumption DEF LiveIn, UsedIn
  <1>8. Counted(e)
    BY <1>1, <1>3, <1>7, FS_EmptySet DEF Counted
  <1>9. Sane(e) /\ Reached(e, hash)
    BY <1>4, <1>5, <1>7 DEF Sane, Reached
  <1>10. ASSUME NEW n \in Names, NEW v PROVE ~Holds(e, n, v)
    BY <1>4, <1>5, DictionaryAssumption DEF Holds
  <1>11. LiveBelow(d, 0) = {}
    BY DEF LiveBelow, LiveIn, SlotsOf, IsDict
  <1>12. \A i \in SlotsOf(d) : ~ i < 0
    BY DEF SlotsOf, IsDict
  <1>13. REMAIN(s) <= e.remain + Cardinality(LiveBelow(d, 0))
    <2>1. Cardinality(LiveBelow(d, 0)) = 0
      BY <1>11, FS_EmptySet
    <2> QED
      BY <1>1, <1>3, <2>1
  <1>14. Good(e, hash)
    BY <1>6, <1>8, <1>9 DEF Good
  <1> QED
    BY <1>1, <1>2, <1>3, <1>10, <1>12, <1>13, <1>14 DEF Built

\* One more slot.
LEMMA VisitOne ==
  ASSUME Hashing, NEW d, Good(d, hash), NEW k \in SlotsOf(d), NEW e, Built(d, e, k)
  PROVE  Built(d, PutAgain(e, d.table[k]), k + 1)
  <1>1. /\ IsDict(d) /\ Sane(d) /\ Counted(d) /\ d.size \in Nat /\ 2 <= d.size
        /\ d.remain \in Nat /\ k \in Nat
    BY DEF Good, IsDict, SlotsOf
  <1>2. PICK slot \in Slot : slot = d.table[k]
    BY <1>1 DEF IsDict
  <1>3. Good(e, hash) /\ e.remain \in Nat
    BY DEF Built, Good, IsDict
  <1>4. \A i \in SlotsOf(d) : i < k + 1 <=> i < k \/ i = k
    BY <1>1 DEF SlotsOf
  <1>5. CASE slot.name \notin Names
    <2>1. slot.name \in {NULL, DEAD}
      BY <1>2, <1>5 DEF Slot
    <2>2. PutAgain(e, slot) = e
      BY <2>1 DEF PutAgain
    <2>3. LiveBelow(d, k + 1) = LiveBelow(d, k)
      BY <1>2, <1>4, <1>5 DEF LiveBelow, LiveIn
    <2> QED
      BY <1>2, <1>4, <1>5, <2>2, <2>3 DEF Built
  <1>6. CASE slot.name \in Names
    <2>1. k \in LiveIn(d) /\ slot.value \in Values /\ slot.name \notin {NULL, DEAD}
      BY <1>1, <1>2, <1>6, DictionaryAssumption DEF LiveIn, Sane
    <2>2. /\ LiveBelow(d, k + 1) = LiveBelow(d, k) \cup {k} /\ k \notin LiveBelow(d, k)
          /\ LiveBelow(d, k) \in SUBSET SlotsOf(d) /\ LiveBelow(d, k + 1) \in SUBSET UsedIn(d)
      <3>1. LiveBelow(d, k + 1) = LiveBelow(d, k) \cup {k}
        BY <1>4, <2>1 DEF LiveBelow, LiveIn
      <3>2. k \notin LiveBelow(d, k)
        BY <1>1 DEF LiveBelow
      <3>3. LiveIn(d) \in SUBSET UsedIn(d)
        BY DictionaryAssumption DEF LiveIn, UsedIn
      <3> QED
        BY <3>1, <3>2, <3>3 DEF LiveBelow, LiveIn
    <2>3. PICK b \in Nat : b = Cardinality(LiveBelow(d, k)) /\ IsFiniteSet(LiveBelow(d, k))
      BY <1>1, <2>2, Finite
    <2>4. Cardinality(LiveBelow(d, k + 1)) = b + 1
      BY <2>2, <2>3, FS_AddElement
    <2>5. UsedIn(d) \in SUBSET SlotsOf(d)
      BY DEF UsedIn
    <2>6. PICK u \in Nat : u = Cardinality(UsedIn(d)) /\ IsFiniteSet(UsedIn(d))
      BY <1>1, <2>5, Finite
    <2>7. b + 1 <= u
      BY <2>2, <2>4, <2>6, FS_Subset
    <2>8. 1 <= d.remain /\ d.remain + u = REMAIN(d.size)
      BY <1>1, <2>6 DEF Counted
    <2>9. REMAIN(d.size) + 1 <= REMAIN(GROW(d.size)) /\ REMAIN(GROW(d.size)) <= e.remain + b
          /\ REMAIN(d.size) \in Nat /\ GROW(d.size) \in Nat /\ 2 <= GROW(d.size)
      BY <1>1, <2>3, Room DEF Built
    <2>10. ~Full(e)
      <3>1. REMAIN(GROW(d.size)) \in Nat
        BY <2>9, Room
      <3> QED
        BY <1>1, <1>3, <2>7, <2>8, <2>9, <3>1 DEF Full
    <2>11. ASSUME NEW j \in SlotsOf(e), e.table[j].name = slot.name PROVE FALSE
      <3>1. Holds(e, slot.name, e.table[j].value)
        BY <2>11 DEF Holds
      <3>2. PICK i \in SlotsOf(d) : i < k /\ d.table[i].name = slot.name
        BY <1>6, <3>1 DEF Built
      <3>3. i \in LiveIn(d) /\ i # k
        BY <1>1, <1>6, <3>2 DEF LiveIn, SlotsOf
      <3> QED
        BY <1>1, <1>2, <2>1, <3>2, <3>3 DEF Sane
    <2>12. PICK f : f = PutAgain(e, slot)
      OBVIOUS
    <2>13. Extends(e, f, slot.name, slot.value)
      BY <1>3, <1>6, <2>1, <2>10, <2>11, <2>12, InsertIs DEF PutAgain
    <2>14. f.remain \in Nat /\ e.remain - 1 <= f.remain /\ f.size = GROW(d.size) /\ Good(f, hash)
      BY <2>13 DEF Extends, Good, IsDict, Built
    <2>15. REMAIN(GROW(d.size)) <= f.remain + (b + 1)
      <3>1. REMAIN(GROW(d.size)) \in Nat
        BY <2>9, Room
      <3> QED
        BY <1>3, <2>9, <2>14, <3>1
    <2>16. ASSUME NEW n \in Names, NEW v
           PROVE  Holds(f, n, v) <=> \E i \in SlotsOf(d) :
                    i < k + 1 /\ d.table[i].name = n /\ d.table[i].value = v
      BY <1>2, <1>4, <2>13 DEF Extends, Built
    <2> QED
      BY <1>2, <2>4, <2>12, <2>14, <2>15, <2>16 DEF Built
  <1> QED
    BY <1>5, <1>6

\* A table that grew holds what it held, and has room.
LEMMA GrownIs ==
  ASSUME Hashing, NEW d, Good(d, hash)
  PROVE  /\ Good(Grown(d), hash) /\ ~Full(Grown(d)) /\ Grown(d).size = GROW(d.size)
         /\ \A n \in Names : \A v : Holds(Grown(d), n, v) <=> Holds(d, n, v)
  <1>1. IsDict(d) /\ Counted(d) /\ d.size \in Nat /\ 2 <= d.size /\ d.remain \in Nat
    BY DEF Good, IsDict
  <1>2. PICK new : new = CHOOSE f : f = Visit(d, f, d.size)
    OBVIOUS
  <1>3. new = Visit(d, new, d.size)
    BY <1>1, <1>2, Visits, Zenon
  <1>4. Grown(d) = new[d.size]
    BY <1>2 DEF Grown, Visit
  <1>5. \A k \in 0 .. d.size :
          new[k] = IF k = 0 THEN Mkdict0(GROW(d.size)) ELSE PutAgain(new[k - 1], d.table[k - 1])
    BY <1>3 DEF Visit
  <1>6. ASSUME NEW k \in 0 .. d.size PROVE Built(d, new[k], k)
    <2> DEFINE S == {m \in Nat : m \in 0 .. d.size /\ ~Built(d, new[m], m)}
    <2>1. SUFFICES ASSUME S # {} PROVE FALSE
      OBVIOUS
    <2>2. PICK m \in S : \A l \in S : m <= l
      BY <2>1, LeastOne
    <2>3. CASE m = 0
      BY <1>1, <1>5, <2>2, <2>3, Mkdict0Is
    <2>4. CASE m # 0
      <3>1. m - 1 \in SlotsOf(d) /\ m - 1 \in 0 .. d.size /\ m - 1 < m /\ m = (m - 1) + 1
        BY <1>1, <2>2, <2>4 DEF SlotsOf
      <3>2. m - 1 \notin S
        BY <2>2, <3>1
      <3>3. Built(d, new[m - 1], m - 1)
        BY <3>1, <3>2
      <3>4. Built(d, PutAgain(new[m - 1], d.table[m - 1]), m)
        BY <3>1, <3>3, VisitOne
      <3> QED
        BY <1>5, <2>2, <2>4, <3>4
    <2> QED
      BY <2>3, <2>4
  <1>7. PICK e : e = Grown(d)
    OBVIOUS
  <1>8. Built(d, e, d.size)
    BY <1>1, <1>4, <1>6, <1>7
  <1>9. LiveBelow(d, d.size) \in SUBSET UsedIn(d) /\ UsedIn(d) \in SUBSET SlotsOf(d)
    BY DictionaryAssumption DEF LiveBelow, LiveIn, UsedIn
  <1>10. PICK u \in Nat : u = Cardinality(UsedIn(d)) /\ IsFiniteSet(UsedIn(d))
    BY <1>1, <1>9, Finite
  <1>11. PICK b \in Nat : b = Cardinality(LiveBelow(d, d.size)) /\ b <= u
    <2>1. LiveBelow(d, d.size) \in SUBSET SlotsOf(d)
      BY <1>9
    <2>2. Cardinality(LiveBelow(d, d.size)) \in Nat
      BY <1>1, <2>1, Finite
    <2>3. Cardinality(LiveBelow(d, d.size)) <= u
      BY <1>9, <1>10, FS_Subset
    <2> QED
      BY <2>2, <2>3
  <1>12. ~Full(e)
    <2>1. REMAIN(d.size) + 1 <= REMAIN(GROW(d.size)) /\ REMAIN(d.size) \in Nat
          /\ GROW(d.size) \in Nat /\ 2 <= GROW(d.size)
      BY <1>1, Room
    <2>2. REMAIN(GROW(d.size)) \in Nat
      BY <2>1, Room
    <2>3. REMAIN(GROW(d.size)) <= e.remain + b /\ e.remain \in Nat
      BY <1>8, <1>11 DEF Built, Good, IsDict
    <2>4. 1 <= d.remain /\ d.remain + u = REMAIN(d.size)
      BY <1>1, <1>10 DEF Counted
    <2> QED
      BY <1>1, <1>11, <2>1, <2>2, <2>3, <2>4 DEF Full
  <1>13. \A i \in SlotsOf(d) : i < d.size
    BY <1>1 DEF SlotsOf
  <1>14. ASSUME NEW n \in Names, NEW v PROVE Holds(e, n, v) <=> Holds(d, n, v)
    BY <1>8, <1>13 DEF Built, Holds
  <1> QED
    BY <1>7, <1>8, <1>12, <1>14 DEF Built

-----------------------------------------------------------------------------
(***************************************************************************)
(* Removing                                                                *)
(***************************************************************************)

\* Walking on from a slot that lies k steps before next.
LEMMA Ahead ==
  ASSUME NEW s \in Nat \ {0}, NEW h \in Nat, NEW l \in 0 .. s - 1, NEW next \in 0 .. s - 1,
         NEW k \in 1 .. s, On(s, h, l) = On(s, next, s - k), NEW q \in 0 .. k
  PROVE  On(s, h, l + q) = On(s, next, s - (k - q))
  <1>1. /\ q \in Nat /\ q \in 0 .. s /\ l \in Nat /\ h + l \in Nat
        /\ s - k \in Nat /\ next + (s - k) \in Nat /\ (s - k) + q = s - (k - q)
    OBVIOUS
  <1>2. (h + l) % s = (next + (s - k)) % s
    BY DEF On
  <1>3. On(s, h + l, q) = On(s, next + (s - k), q)
    BY <1>1, <1>2, Together
  <1>4. (h + l) + q = h + (l + q) /\ (next + (s - k)) + q = next + (s - (k - q))
    BY <1>1
  <1> QED
    BY <1>3, <1>4 DEF On

\* The slots freed before slot next are dead ones, in a row.
RowOfDead(d, next, f) ==
  \E k \in 1 .. d.size :
    /\ f = On(d.size, next, d.size - k)
    /\ \A l \in 1 .. k : d.table[On(d.size, next, d.size - l)].name = DEAD

LEMMA DeadBeforeIs ==
  ASSUME NEW d, d.size \in Nat, 2 <= d.size, NEW next \in SlotsOf(d), NEW f \in DeadBefore(d, next)
  PROVE  RowOfDead(d, next, f) /\ f \in SlotsOf(d) /\ d.table[f].name = DEAD
  <1>1. \A k \in 1 .. d.size : Index(d, next + d.size - k) = On(d.size, next, d.size - k)
    <2>1. ASSUME NEW k \in 1 .. d.size PROVE next + d.size - k = next + (d.size - k)
      BY DEF SlotsOf
    <2> QED
      BY <2>1 DEF Index, On
  <1>2. PICK k \in 1 .. d.size :
          /\ f = Index(d, next + d.size - k)
          /\ \A l \in 1 .. k : d.table[Index(d, next + d.size - l)].name = DEAD
    BY DEF DeadBefore
  <1>3. \A l \in 1 .. k : l \in 1 .. d.size
    BY <1>2
  <1>4. f = On(d.size, next, d.size - k)
        /\ \A l \in 1 .. k : d.table[On(d.size, next, d.size - l)].name = DEAD
    BY <1>1, <1>2, <1>3
  <1>5. k \in 1 .. k /\ d.size - k \in 0 .. d.size - 1 /\ next \in Nat
    BY DEF SlotsOf
  <1>6. f \in SlotsOf(d)
    <2>1. next + (d.size - k) \in Nat /\ d.size \in Nat \ {0}
      BY <1>5
    <2> QED
      BY <1>4, <2>1, Quotient DEF On, SlotsOf
  <1> QED
    BY <1>4, <1>5, <1>6 DEF RowOfDead

\* d loses a name, and keeps the others.
Loses(d, e, name) ==
  /\ Good(e, hash)
  /\ e.size = d.size
  /\ \A n \in Names : \A v : Holds(e, n, v) <=> n # name /\ Holds(d, n, v)

\* Slot i of m is dead, and m is like d elsewhere. What rm makes empty of m is
\* a row of dead slots that an empty slot follows: no other name is reached
\* through them, as no name is reached through an empty slot.
LEMMA NotThroughFreed ==
  ASSUME NEW d, IsDict(d), NEW i \in LiveIn(d),
         NEW m, m.size = d.size, m.table[i].name = DEAD,
         \A j \in SlotsOf(d) : j # i => m.table[j] = d.table[j],
         NEW next \in SlotsOf(d), m.table[next].name = NULL,
         NEW j \in LiveIn(d), j # i, NEW h \in Nat, NEW k \in SlotsOf(d), j = On(d.size, h, k),
         \A l \in SlotsOf(d) : l < k => d.table[On(d.size, h, l)].name # NULL,
         NEW l \in SlotsOf(d), l < k
  PROVE  On(d.size, h, l) \notin DeadBefore(m, next)
  <1>1. /\ d.size \in Nat /\ 2 <= d.size /\ NULL # DEAD /\ NULL \notin Names /\ DEAD \notin Names
        /\ SlotsOf(m) = SlotsOf(d)
    BY DictionaryAssumption DEF IsDict, SlotsOf
  <1>2. PICK s \in Nat \ {0} : s = d.size /\ SlotsOf(d) = 0 .. s - 1
    BY <1>1 DEF SlotsOf
  <1>3. PICK n : n = d.table[j].name /\ n \in Names /\ m.table[j].name = n
    BY DEF LiveIn
  <1>4. next # i /\ d.table[next].name = NULL
    BY <1>1
  <1>5. SUFFICES ASSUME On(d.size, h, l) \in DeadBefore(m, next) PROVE FALSE
    OBVIOUS
  <1>6. RowOfDead(m, next, On(s, h, l))
    BY <1>1, <1>2, <1>5, DeadBeforeIs
  <1>7. PICK b \in 1 .. s :
          /\ On(s, h, l) = On(s, next, s - b)
          /\ \A q \in 1 .. b : m.table[On(s, next, s - q)].name = DEAD
    BY <1>2, <1>6 DEF RowOfDead
  <1>8. ASSUME NEW q \in 0 .. b PROVE On(s, h, l + q) = On(s, next, s - (b - q))
    <2>1. l \in 0 .. s - 1 /\ next \in 0 .. s - 1 /\ b \in 1 .. s
      BY <1>2
    <2>2. ASSUME NEW x \in 0 .. s - 1, NEW y \in 0 .. s - 1, NEW z \in 1 .. s,
                 On(s, h, x) = On(s, y, s - z), NEW p \in 0 .. z
          PROVE  On(s, h, x + p) = On(s, y, s - (z - p))
      BY <2>2, Ahead
    <2> QED
      BY <1>7, <2>1, <2>2
  <1>9. CASE k - l < b
    <2>1. k - l \in 0 .. b /\ b - (k - l) \in 1 .. b /\ l + (k - l) = k
      BY <1>2, <1>9
    <2>2. On(s, h, k) = On(s, next, s - (b - (k - l)))
      BY <1>8, <2>1
    <2> QED
      BY <1>1, <1>2, <1>3, <1>7, <2>1, <2>2
  <1>10. CASE b <= k - l
    <2>1. b \in 0 .. b /\ s - (b - b) = s /\ l + b \in SlotsOf(d)
      BY <1>2, <1>10
    <2>2. On(s, h, l + b) = On(s, next, s)
      BY <1>8, <2>1
    <2>3. On(s, next, s) = next
      BY <1>2, Itself DEF On
    <2>4. CASE l + b = k
      BY <1>1, <1>2, <1>3, <2>2, <2>3, <2>4
    <2>5. CASE l + b < k
      BY <1>2, <1>4, <2>1, <2>2, <2>3, <2>5
    <2> QED
      BY <1>2, <1>10, <2>4, <2>5
  <1> QED
    BY <1>2, <1>7, <1>9, <1>10

LEMMA RmIs ==
  ASSUME Hashing, NEW d, Good(d, hash), NEW i \in LiveIn(d)
  PROVE  Loses(d, Rm(d, i), d.table[i].name)
  <1>1. /\ IsDict(d) /\ Sane(d) /\ Reached(d, hash) /\ Counted(d)
        /\ NULL \notin Names /\ DEAD \notin Names /\ NULL # DEAD
        /\ d.size \in Nat /\ 2 <= d.size /\ d.remain \in Nat /\ i \in SlotsOf(d)
        /\ d.table \in [SlotsOf(d) -> Slot]
    BY DictionaryAssumption DEF Good, IsDict, LiveIn
  <1>2. PICK m : m = [d EXCEPT !.table[i] = [name |-> DEAD, value |-> NULL]]
    OBVIOUS
  <1>3. PICK slot \in Slot : slot = [name |-> DEAD, value |-> NULL]
    <2>1. [name |-> DEAD, value |-> NULL] \in Slot
      BY DEF Slot
    <2> QED
      BY <2>1
  <1>4. /\ m.size = d.size /\ m.remain = d.remain
        /\ m.table = [d.table EXCEPT ![i] = slot]
        /\ m = [size |-> m.size, remain |-> m.remain, table |-> m.table]
    BY <1>1, <1>2, <1>3 DEF IsDict
  <1>5. /\ m.table \in [SlotsOf(d) -> Slot]
        /\ m.table[i] = slot /\ slot.name = DEAD /\ slot.value = NULL
        /\ \A j \in SlotsOf(d) : j # i => m.table[j] = d.table[j]
    BY <1>1, <1>3, <1>4
  <1>6. SlotsOf(m) = SlotsOf(d) /\ IsDict(m)
    BY <1>1, <1>4, <1>5 DEF IsDict, SlotsOf
  <1>7. PICK next : next = FirstHolding(m, i + 1, Names \cup {NULL})
    OBVIOUS
  <1>8. next \in SlotsOf(d)
    <2>1. PICK j \in SlotsOf(d) : d.table[j].name = NULL
      BY HasEmpty
    <2>2. j # i
      BY <1>1, <2>1 DEF LiveIn
    <2>3. j \in SlotsOf(m) /\ m.table[j].name \in Names \cup {NULL}
      BY <1>5, <1>6, <2>1, <2>2
    <2>4. i + 1 \in Nat
      BY <1>1 DEF SlotsOf
    <2> QED
      BY <1>6, <1>7, <2>3, <2>4, FirstIs DEF IsFirst
  <1>9. PICK freed : freed = IF m.table[next].name = NULL THEN DeadBefore(m, next) ELSE {}
    OBVIOUS
  <1>10. \A f \in freed : f \in SlotsOf(d) /\ m.table[f].name = DEAD
    BY <1>1, <1>4, <1>6, <1>8, <1>9, DeadBeforeIs
  <1>11. PICK e : e = Rm(d, i)
    OBVIOUS
  <1>12. /\ e.size = d.size /\ e.remain = d.remain + Cardinality(freed)
         /\ e.table = [k \in SlotsOf(d) |-> IF k \in freed THEN EmptySlot ELSE m.table[k]]
         /\ e = [size |-> e.size, remain |-> e.remain, table |-> e.table]
    <2>1. e = [m EXCEPT
                 !.table = [k \in DOMAIN @ |-> IF k \in freed THEN EmptySlot ELSE @[k]],
                 !.remain = @ + Regained(freed)]
      BY <1>2, <1>7, <1>9, <1>11 DEF Rm
    <2>2. DOMAIN m.table = SlotsOf(d)
      BY <1>5
    <2> QED
      BY <1>4, <2>1, <2>2 DEF Regained
  <1>13. EmptySlot \in Slot /\ EmptySlot.name = NULL /\ EmptySlot.value = NULL
    BY DEF EmptySlot, Slot
  <1>14. IsFiniteSet(freed) /\ Cardinality(freed) \in Nat
    <2>1. freed \in SUBSET SlotsOf(d)
      BY <1>10
    <2> QED
      BY <1>1, <2>1, Finite
  <1>15. SlotsOf(e) = SlotsOf(d) /\ e.table \in [SlotsOf(d) -> Slot]
         /\ \A j \in SlotsOf(d) : e.table[j] = IF j \in freed THEN EmptySlot ELSE m.table[j]
    BY <1>5, <1>12, <1>13 DEF SlotsOf
  <1>16. e.remain \in Nat /\ 1 <= e.remain
    BY <1>1, <1>12, <1>14 DEF Counted
  <1>17. IsDict(e)
    BY <1>1, <1>12, <1>15, <1>16 DEF IsDict
  <1>18. LiveIn(e) = LiveIn(d) \ {i} /\ \A j \in LiveIn(e) : e.table[j] = d.table[j]
    <2>1. ASSUME NEW j \in SlotsOf(d), j \in LiveIn(e)
          PROVE  j \in LiveIn(d) /\ j # i /\ e.table[j] = d.table[j]
      BY <1>1, <1>5, <1>13, <1>15, <2>1 DEF LiveIn
    <2>2. ASSUME NEW j \in LiveIn(d), j # i PROVE j \in LiveIn(e)
      BY <1>1, <1>5, <1>10, <1>15, <2>2 DEF LiveIn
    <2> QED
      BY <1>15, <2>1, <2>2 DEF LiveIn
  <1>19. Sane(e)
    <2>1. ASSUME NEW j \in SlotsOf(e), e.table[j].name = NULL PROVE e.table[j].value = NULL
      BY <1>1, <1>5, <1>13, <1>15, <2>1 DEF Sane
    <2>2. \A j \in LiveIn(e) : e.table[j].value \in Values
      BY <1>1, <1>18 DEF Sane
    <2>3. \A j, l \in LiveIn(e) : e.table[j].name = e.table[l].name => j = l
      BY <1>1, <1>18 DEF Sane
    <2> QED
      BY <2>1, <2>2, <2>3 DEF Sane
  <1>20. Counted(e)
    <2>1. UsedIn(e) = UsedIn(d) \ freed
      BY <1>1, <1>5, <1>10, <1>13, <1>15 DEF UsedIn, LiveIn
    <2>2. UsedIn(d) \cap freed = freed
      BY <1>1, <1>5, <1>10 DEF UsedIn, LiveIn
    <2>3. UsedIn(d) \in SUBSET SlotsOf(d)
      BY DEF UsedIn
    <2>4. PICK u \in Nat : u = Cardinality(UsedIn(d)) /\ IsFiniteSet(UsedIn(d))
      BY <1>1, <2>3, Finite
    <2>5. Cardinality(UsedIn(e)) = u - Cardinality(freed)
      BY <2>1, <2>2, <2>4, FS_Difference
    <2>6. d.remain + u = REMAIN(e.size)
      BY <1>1, <1>12, <2>4 DEF Counted
    <2> QED
      BY <1>1, <1>12, <1>14, <1>16, <2>4, <2>5, <2>6 DEF Counted
  <1>21. Reached(e, hash)
    <2>1. ASSUME NEW j \in LiveIn(e)
          PROVE  \E k \in SlotsOf(e) :
                   /\ j = On(e.size, hash[e.table[j].name], k)
                   /\ \A l \in SlotsOf(e) :
                        l < k => e.table[On(e.size, hash[e.table[j].name], l)].name # NULL
      <3>1. j \in LiveIn(d) /\ j # i /\ e.table[j] = d.table[j]
        BY <1>18
      <3>2. PICK h \in Nat : h = hash[d.table[j].name]
        BY <3>1 DEF Hashing, LiveIn
      <3>3. PICK k \in SlotsOf(d) :
              /\ j = On(d.size, h, k)
              /\ \A l \in SlotsOf(d) : l < k => d.table[On(d.size, h, l)].name # NULL
        BY <1>1, <3>1, <3>2 DEF Reached
      <3>4. ASSUME NEW l \in SlotsOf(d), l < k PROVE e.table[On(d.size, h, l)].name # NULL
        <4>1. On(d.size, h, l) \in SlotsOf(d)
          BY <1>1, OnType
        <4>2. On(d.size, h, l) \notin freed
          <5>1. CASE m.table[next].name = NULL
            <6>1. On(d.size, h, l) \notin DeadBefore(m, next)
              BY <1>1, <1>4, <1>5, <1>8, <3>1, <3>3, <3>4, <5>1, NotThroughFreed
            <6> QED
              BY <1>9, <5>1, <6>1
          <5>2. CASE m.table[next].name # NULL
            BY <1>9, <5>2
          <5> QED
            BY <5>1, <5>2
        <4> QED
          BY <1>1, <1>5, <1>15, <3>3, <3>4, <4>1, <4>2
      <3> QED
        BY <1>12, <1>15, <3>1, <3>2, <3>3, <3>4
    <2> QED
      BY <2>1 DEF Reached
  <1>22. ASSUME NEW n \in Names, NEW v
         PROVE  Holds(e, n, v) <=> n # d.table[i].name /\ Holds(d, n, v)
    <2>1. ASSUME Holds(e, n, v) PROVE n # d.table[i].name /\ Holds(d, n, v)
      <3>1. PICK j \in SlotsOf(d) : e.table[j].name = n /\ e.table[j].value = v
        BY <1>15, <2>1 DEF Holds
      <3>2. j \in LiveIn(e)
        BY <1>15, <3>1 DEF LiveIn
      <3> QED
        BY <1>1, <1>18, <3>1, <3>2 DEF Holds, Sane
    <2>2. ASSUME n # d.table[i].name, Holds(d, n, v) PROVE Holds(e, n, v)
      <3>1. PICK j \in SlotsOf(d) : d.table[j].name = n /\ d.table[j].value = v
        BY <2>2 DEF Holds
      <3>2. j \in LiveIn(e)
        BY <1>18, <2>2, <3>1 DEF LiveIn
      <3> QED
        BY <1>15, <1>18, <3>1, <3>2 DEF Holds
    <2> QED
      BY <2>1, <2>2
  <1> QED
    BY <1>11, <1>12, <1>17, <1>19, <1>20, <1>21, <1>22 DEF Loses, Good

-----------------------------------------------------------------------------
(***************************************************************************)
(* Changing one name                                                       *)
(***************************************************************************)

\* e is d with the name bound to the value, or without it.
Changes(d, e, name, val) ==
  /\ Good(e, hash)
  /\ e.size \in {d.size, GROW(d.size)}
  /\ \A n \in Names : \A v :
       Holds(e, n, v) <=> IF n = name THEN v = val /\ v # NULL ELSE Holds(d, n, v)

\* An association that is there gets another value.
LEMMA ReplaceIs ==
  ASSUME Hashing, NEW d, Good(d, hash), NEW i \in LiveIn(d), NEW val \in Values
  PROVE  Changes(d, [d EXCEPT !.table[i].value = val], d.table[i].name, val)
  <1>1. /\ IsDict(d) /\ Sane(d) /\ Reached(d, hash) /\ Counted(d)
        /\ NULL \notin Names /\ NULL \notin Values /\ i \in SlotsOf(d) /\ d.table[i].name \in Names
        /\ d.table \in [SlotsOf(d) -> Slot]
    BY DictionaryAssumption DEF Good, IsDict, LiveIn
  <1>2. PICK e : e = [d EXCEPT !.table[i].value = val]
    OBVIOUS
  <1>3. PICK slot \in Slot : slot = [d.table[i] EXCEPT !.value = val]
                             /\ slot.name = d.table[i].name /\ slot.value = val
    <2>1. d.table[i] \in Slot
      BY <1>1
    <2>2. [d.table[i] EXCEPT !.value = val] \in Slot
      BY <2>1 DEF Slot
    <2> QED
      BY <2>1, <2>2 DEF Slot
  <1>4. /\ e.size = d.size /\ e.remain = d.remain
        /\ e.table = [d.table EXCEPT ![i] = slot]
        /\ e = [size |-> e.size, remain |-> e.remain, table |-> e.table]
    BY <1>1, <1>2, <1>3 DEF IsDict
  <1>5. /\ SlotsOf(e) = SlotsOf(d) /\ e.table \in [SlotsOf(d) -> Slot] /\ e.table[i] = slot
        /\ \A j \in SlotsOf(d) : j # i => e.table[j] = d.table[j]
        /\ \A j \in SlotsOf(d) : e.table[j].name = d.table[j].name
    BY <1>1, <1>3, <1>4 DEF SlotsOf
  <1>6. IsDict(e)
    BY <1>1, <1>4, <1>5 DEF IsDict
  <1>7. LiveIn(e) = LiveIn(d) /\ UsedIn(e) = UsedIn(d)
    BY <1>5 DEF LiveIn, UsedIn
  <1>8. Sane(e)
    <2>1. ASSUME NEW j \in SlotsOf(e), e.table[j].name = NULL PROVE e.table[j].value = NULL
      BY <1>1, <1>5, <2>1 DEF Sane
    <2>2. ASSUME NEW j \in LiveIn(e) PROVE e.table[j].value \in Values
      BY <1>1, <1>3, <1>5, <1>7 DEF Sane, LiveIn
    <2>3. \A j, l \in LiveIn(e) : e.table[j].name = e.table[l].name => j = l
      BY <1>1, <1>5, <1>7 DEF Sane, LiveIn
    <2> QED
      BY <2>1, <2>2, <2>3 DEF Sane
  <1>9. Counted(e)
    BY <1>1, <1>4, <1>7 DEF Counted
  <1>10. Reached(e, hash)
    <2>1. ASSUME NEW j \in LiveIn(e)
          PROVE  \E k \in SlotsOf(e) :
                   /\ j = On(e.size, hash[e.table[j].name], k)
                   /\ \A l \in SlotsOf(e) :
                        l < k => e.table[On(e.size, hash[e.table[j].name], l)].name # NULL
      <3>1. PICK h \in Nat : h = hash[d.table[j].name] /\ j \in LiveIn(d) /\ e.table[j].name = d.table[j].name
        BY <1>5, <1>7 DEF Hashing, LiveIn
      <3>2. PICK k \in SlotsOf(d) :
              /\ j = On(d.size, h, k)
              /\ \A l \in SlotsOf(d) : l < k => d.table[On(d.size, h, l)].name # NULL
        BY <1>1, <3>1 DEF Reached
      <3>3. \A l \in SlotsOf(d) : On(d.size, h, l) \in SlotsOf(d)
        BY <1>1, OnType
      <3> QED
        BY <1>4, <1>5, <3>1, <3>2, <3>3, ZenonT(40)
    <2> QED
      BY <2>1 DEF Reached
  <1>11. ASSUME NEW n \in Names, NEW v
         PROVE  Holds(e, n, v) <=> IF n = d.table[i].name THEN v = val /\ v # NULL ELSE Holds(d, n, v)
    <2>1. CASE n # d.table[i].name
      BY <1>3, <1>5, <2>1 DEF Holds
    <2>2. CASE n = d.table[i].name
      <3>1. ASSUME Holds(e, n, v) PROVE v = val
        <4>1. PICK j \in SlotsOf(d) : e.table[j].name = n /\ e.table[j].value = v
          BY <1>5, <3>1 DEF Holds
        <4>2. j \in LiveIn(d)
          BY <1>5, <4>1 DEF LiveIn
        <4>3. j = i
          BY <1>1, <1>5, <2>2, <4>1, <4>2 DEF Sane
        <4> QED
          BY <1>3, <1>5, <4>1, <4>3
      <3>2. ASSUME v = val PROVE Holds(e, n, v) /\ v # NULL
        BY <1>1, <1>3, <1>5, <2>2, <3>2 DEF Holds
      <3> QED
        BY <2>2, <3>1, <3>2
    <2> QED
      BY <2>1, <2>2
  <1> QED
    BY <1>2, <1>4, <1>6, <1>8, <1>9, <1>10, <1>11 DEF Changes, Good

\* dictput changes what is held for one name.
LEMMA DictputIs ==
  ASSUME Hashing, NEW d, Good(d, hash), NEW name \in Names, NEW val \in Values \cup {NULL}
  PROVE  Changes(d, Dictput(d, name, val), name, val)
  <1>1. IsDict(d) /\ Sane(d) /\ NULL \notin Names /\ NULL \notin Values /\ name # NULL
    BY DictionaryAssumption DEF Good
  <1>2. PICK i : i = Get(d, name)
    OBVIOUS
  <1>3. Answers(d, name, i)
    BY <1>2, SearchIs, HashIs DEF Get
  <1>4. Found(d, i) <=> d.table[i].name = name
    BY <1>1, <1>3 DEF Answers, Found
  <1>5. CASE ~Found(d, i)
    <2>1. \A j \in SlotsOf(d) : d.table[j].name # name
      BY <1>3, <1>4, <1>5 DEF Answers
    <2>2. \A v : ~Holds(d, name, v)
      BY <2>1 DEF Holds
    <2>3. CASE val = NULL
      <3>1. Dictput(d, name, val) = d
        BY <1>2, <1>5, <2>3 DEF Dictput
      <3> QED
        BY <2>2, <2>3, <3>1 DEF Changes
    <2>4. CASE val # NULL
      <3>1. val \in Values
        BY <2>4
      <3>2. PICK e : e = IF Full(d) THEN Grown(d) ELSE d
        OBVIOUS
      <3>3. Dictput(d, name, val) = Insert(e, name, val)
        BY <1>2, <1>5, <2>4, <3>2 DEF Dictput, Put
      <3>4. /\ Good(e, hash) /\ ~Full(e) /\ e.size \in {d.size, GROW(d.size)}
            /\ \A n \in Names : \A v : Holds(e, n, v) <=> Holds(d, n, v)
        BY <3>2, GrownIs
      <3>5. \A j \in SlotsOf(e) : e.table[j].name # name
        BY <2>2, <3>4 DEF Holds
      <3>6. Extends(e, Insert(e, name, val), name, val)
        BY <3>1, <3>4, <3>5, InsertIs
      <3>7. PICK f : f = Insert(e, name, val)
        OBVIOUS
      <3>8. ASSUME NEW n \in Names, NEW v
            PROVE  Holds(f, n, v) <=> IF n = name THEN v = val /\ v # NULL ELSE Holds(d, n, v)
        BY <2>2, <2>4, <3>4, <3>6, <3>7 DEF Extends
      <3> QED
        BY <3>3, <3>4, <3>6, <3>7, <3>8 DEF Extends, Changes
    <2> QED
      BY <2>3, <2>4
  <1>6. CASE Found(d, i)
    <2>1. i \in LiveIn(d) /\ d.table[i].name = name
      BY <1>3, <1>4, <1>6 DEF Answers, LiveIn
    <2>2. CASE val = NULL
      <3>1. Dictput(d, name, val) = Rm(d, i)
        BY <1>2, <1>6, <2>2 DEF Dictput
      <3>2. Loses(d, Rm(d, i), name)
        BY <2>1, RmIs
      <3> QED
        BY <2>2, <3>1, <3>2 DEF Loses, Changes
    <2>3. CASE val # NULL
      <3>1. Dictput(d, name, val) = [d EXCEPT !.table[i].value = val]
        BY <1>2, <1>6, <2>3 DEF Dictput
      <3> QED
        BY <2>1, <2>3, <3>1, ReplaceIs
    <2> QED
      BY <2>2, <2>3
  <1> QED
    BY <1>5, <1>6

-----------------------------------------------------------------------------
(***************************************************************************)
(* Sizes                                                                   *)
(***************************************************************************)
Doubled(f, n) == [k \in 0 .. n |-> IF k = 0 THEN INIT_DICT_SIZE ELSE GROW(f[k - 1])]

\* Any number of doublings can be listed.
LEMMA Doublings ==
  ASSUME NEW n \in Nat
  PROVE  \E f : f = Doubled(f, n)
  <1> DEFINE S == {m \in Nat : ~ \E f : f = Doubled(f, m)}
  <1>1. SUFFICES ASSUME S # {} PROVE FALSE
    OBVIOUS
  <1>2. PICK m \in S : \A l \in S : m <= l
    BY <1>1, LeastOne
  <1>3. m # 0
    <2>1. PICK f : f = [k \in 0 .. 0 |-> INIT_DICT_SIZE]
      OBVIOUS
    <2>2. f = Doubled(f, 0)
      BY <2>1 DEF Doubled
    <2> QED
      BY <1>2, <2>2
  <1>4. m \in Nat /\ m - 1 \in Nat /\ m - 1 \notin S
    <2>1. m \in Nat /\ m - 1 \in Nat /\ ~ m <= m - 1
      BY <1>2, <1>3
    <2> QED
      BY <1>2, <2>1
  <1>5. PICK f : f = Doubled(f, m - 1)
    BY <1>4
  <1>6. PICK g : g = [k \in 0 .. m |-> IF k < m THEN f[k] ELSE GROW(f[m - 1])]
    OBVIOUS
  <1>7. ASSUME NEW k \in 0 .. m PROVE g[k] = Doubled(g, m)[k]
    <2>1. CASE k = 0
      <3>1. k \in 0 .. m - 1 /\ k < m
        BY <1>4, <2>1
      <3> QED
        BY <1>5, <1>6, <2>1, <3>1 DEF Doubled
    <2>2. CASE k # 0
      <3>1. k - 1 \in 0 .. m /\ k - 1 < m /\ k - 1 \in 0 .. m - 1
        BY <1>4, <2>2
      <3>2. g[k - 1] = f[k - 1]
        BY <1>6, <3>1
      <3>3. Doubled(g, m)[k] = GROW(f[k - 1])
        BY <2>2, <3>2 DEF Doubled
      <3>4. CASE k = m
        BY <1>4, <1>6, <3>3, <3>4
      <3>5. CASE k # m
        <4>1. k < m /\ k \in 0 .. m - 1
          BY <1>4, <3>5
        <4>2. f[k] = GROW(f[k - 1])
          BY <1>5, <2>2, <4>1 DEF Doubled
        <4> QED
          BY <1>6, <3>3, <4>1, <4>2
      <3> QED
        BY <3>4, <3>5
    <2> QED
      BY <2>1, <2>2
  <1>8. g = [k \in 0 .. m |-> g[k]] /\ Doubled(g, m) = [k \in 0 .. m |-> Doubled(g, m)[k]]
    BY <1>6 DEF Doubled
  <1>9. g = Doubled(g, m)
    BY <1>7, <1>8, Zenon
  <1> QED
    BY <1>2, <1>9

\* Each size is twice the one before, and after k doublings greater than k.
LEMMA SizesAre ==
  /\ \A k \in 0 .. MaxSize :
       Sizes[k] = IF k = 0 THEN INIT_DICT_SIZE ELSE GROW(Sizes[k - 1])
  /\ \A k \in 0 .. MaxSize : Sizes[k] \in Nat /\ k < Sizes[k]
  <1>1. MaxSize \in Nat
    BY DictionaryAssumption
  <1>2. Sizes = CHOOSE f : f = Doubled(f, MaxSize)
    BY DEF Sizes, Doubled
  <1>3. Sizes = Doubled(Sizes, MaxSize)
    BY <1>1, <1>2, Doublings, Zenon
  <1>4. ASSUME NEW k \in 0 .. MaxSize
        PROVE  Sizes[k] = IF k = 0 THEN INIT_DICT_SIZE ELSE GROW(Sizes[k - 1])
    BY <1>3 DEF Doubled
  <1> DEFINE S == {m \in Nat : m \in 0 .. MaxSize /\ ~(Sizes[m] \in Nat /\ m < Sizes[m])}
  <1>5. ASSUME S # {} PROVE FALSE
    <2>1. PICK m \in S : \A l \in S : m <= l
      BY <1>5, LeastOne
    <2>2. m # 0
      BY <1>4, <2>1 DEF INIT_DICT_SIZE
    <2>3. m - 1 \in 0 .. MaxSize /\ m - 1 \in Nat /\ ~ m <= m - 1 /\ m \in Nat
      BY <1>1, <2>1, <2>2
    <2>4. m - 1 \notin S
      BY <2>1, <2>3
    <2>5. Sizes[m - 1] \in Nat /\ m - 1 < Sizes[m - 1]
      BY <2>3, <2>4
    <2>6. Sizes[m] = GROW(Sizes[m - 1])
      BY <1>4, <2>1, <2>2
    <2>7. PICK z \in Nat : z = Sizes[m - 1] /\ m - 1 < z
      BY <2>5
    <2>8. Sizes[m] \in Nat /\ m < Sizes[m]
      BY <2>3, <2>6, <2>7 DEF GROW
    <2> QED
      BY <2>1, <2>8
  <1> QED
    BY <1>4, <1>5

-----------------------------------------------------------------------------
(***************************************************************************)
(* The invariant                                                           *)
(***************************************************************************)
SizeRight(d) == \E k \in 0 .. MaxSize : d.size = Sizes[k]

IInv == hash \in Hashes /\ Good(dict, hash) /\ SizeRight(dict)

\* A new dictionary is empty.
LEMMA InitIs ==
  ASSUME Init
  PROVE  IInv /\ LiveIn(dict) = {}
  <1>1. dict.size = 2 /\ dict.remain = 1 /\ dict.table = [i \in 0 .. 1 |-> EmptySlot]
        /\ dict = [size |-> dict.size, remain |-> dict.remain, table |-> dict.table]
    BY DEF Init, Mkdict0, INIT_DICT_SIZE, REMAIN
  <1>2. EmptySlot \in Slot /\ EmptySlot.name = NULL /\ EmptySlot.value = NULL
    BY DEF EmptySlot, Slot
  <1>3. SlotsOf(dict) = 0 .. 1 /\ \A i \in SlotsOf(dict) : dict.table[i] = EmptySlot
    BY <1>1 DEF SlotsOf
  <1>4. IsDict(dict)
    BY <1>1, <1>2, <1>3 DEF IsDict
  <1>5. LiveIn(dict) = {} /\ UsedIn(dict) = {}
    BY <1>2, <1>3, DictionaryAssumption DEF LiveIn, UsedIn
  <1>6. Counted(dict)
    <2>1. Cardinality(UsedIn(dict)) = 0
      BY <1>5, FS_EmptySet
    <2> QED
      BY <1>1, <2>1 DEF Counted, REMAIN
  <1>7. Sane(dict) /\ Reached(dict, hash)
    BY <1>2, <1>3, <1>5 DEF Sane, Reached
  <1>8. SizeRight(dict)
    <2>1. 0 \in 0 .. MaxSize
      BY DictionaryAssumption
    <2> QED
      BY <1>1, <2>1, SizesAre DEF SizeRight, INIT_DICT_SIZE
  <1> QED
    BY <1>4, <1>5, <1>6, <1>7, <1>8 DEF IInv, Good, Init

\* Every change leaves a good table.
LEMMA NextIs ==
  ASSUME IInv, NEW name \in Names, NEW val \in Values \cup {NULL},
         dict' = Dictput(dict, name, val), dict'.size <= MaxSize, hash' = hash
  PROVE  /\ IInv'
         /\ \A n \in Names : \A v :
              Holds(dict, n, v)' <=> IF n = name THEN v = val /\ v # NULL ELSE Holds(dict, n, v)
  <1>1. Hashing
    BY DictionaryAssumption DEF IInv, Hashing
  <1>2. PICK d, e : d = dict /\ e = dict'
    OBVIOUS
  <1>3. Changes(d, e, name, val)
    BY <1>1, <1>2, DictputIs DEF IInv
  <1>4. SizeRight(e)
    <2>1. PICK k \in 0 .. MaxSize : d.size = Sizes[k] /\ k \in Nat /\ Sizes[k] \in Nat /\ k < Sizes[k]
      BY <1>2, SizesAre, DictionaryAssumption DEF IInv, SizeRight
    <2>2. CASE e.size = d.size
      BY <2>1, <2>2 DEF SizeRight
    <2>3. CASE e.size = GROW(d.size)
      <3>1. k + 1 \in 0 .. MaxSize /\ (k + 1) - 1 = k /\ k + 1 # 0
        BY <1>2, <2>1, <2>3, DictionaryAssumption DEF GROW
      <3>2. Sizes[k + 1] = GROW(Sizes[k])
        BY <3>1, SizesAre
      <3> QED
        BY <2>1, <2>3, <3>1, <3>2 DEF SizeRight
    <2> QED
      BY <1>3, <2>2, <2>3 DEF Changes
  <1>5. hash' \in Hashes /\ Good(e, hash')
    BY <1>3 DEF IInv, Changes
  <1>6. IInv'
    BY <1>2, <1>4, <1>5 DEF IInv
  <1>7. \A n \in Names : \A v :
          Holds(e, n, v) <=> IF n = name THEN v = val /\ v # NULL ELSE Holds(d, n, v)
    BY <1>3 DEF Changes
  <1> QED
    BY <1>2, <1>6, <1>7

\* Every table that the shell can come to is good.
THEOREM TablesAreGood == Spec => []IInv
  <1>1. Init => IInv
    BY InitIs
  <1>2. IInv /\ [Next]_vars => IInv'
    <2>1. ASSUME IInv, Next PROVE IInv'
      BY <2>1, NextIs DEF Next
    <2>2. ASSUME IInv, UNCHANGED vars PROVE IInv'
      BY <2>2 DEF IInv, vars
    <2> QED
      BY <2>1, <2>2
  <1> QED
    BY <1>1, <1>2, PTL DEF Spec

-----------------------------------------------------------------------------
(***************************************************************************)
(* Contents                                                                *)
(***************************************************************************)
ContentsOf(d) ==
  [n \in {d.table[i].name : i \in LiveIn(d)} |->
     d.table[CHOOSE i \in LiveIn(d) : d.table[i].name = n].value]

\* The contents are what the slots hold.
LEMMA ContentsAre ==
  ASSUME NEW d, Sane(d)
  PROVE  /\ ContentsOf(d) = [n \in DOMAIN ContentsOf(d) |-> ContentsOf(d)[n]]
         /\ DOMAIN ContentsOf(d) \in SUBSET Names
         /\ \A n \in Names : \A v :
              Holds(d, n, v) <=> n \in DOMAIN ContentsOf(d) /\ ContentsOf(d)[n] = v
  <1>1. PICK D : D = {d.table[i].name : i \in LiveIn(d)} /\ D \in SUBSET Names
    BY DEF LiveIn
  <1>2. ContentsOf(d) = [n \in D |-> d.table[CHOOSE i \in LiveIn(d) : d.table[i].name = n].value]
    BY <1>1 DEF ContentsOf
  <1>3. ASSUME NEW i \in LiveIn(d)
        PROVE  d.table[i].name \in D /\ ContentsOf(d)[d.table[i].name] = d.table[i].value
    <2>1. PICK n : n = d.table[i].name /\ n \in D
      BY <1>1
    <2>2. PICK j : j = CHOOSE k \in LiveIn(d) : d.table[k].name = n
      OBVIOUS
    <2>3. j \in LiveIn(d) /\ d.table[j].name = n
      BY <2>1, <2>2
    <2>4. j = i
      BY <2>1, <2>3 DEF Sane
    <2> QED
      BY <1>2, <2>1, <2>2, <2>4
  <1>4. ASSUME NEW n \in Names, NEW v, Holds(d, n, v)
        PROVE  n \in D /\ ContentsOf(d)[n] = v
    BY <1>3, <1>4 DEF Holds, LiveIn
  <1>5. ASSUME NEW n \in Names, NEW v, n \in D, ContentsOf(d)[n] = v
        PROVE  Holds(d, n, v)
    <2>1. PICK i \in LiveIn(d) : d.table[i].name = n
      BY <1>1, <1>5
    <2> QED
      BY <1>3, <1>5, <2>1 DEF Holds, LiveIn
  <1>6. DOMAIN ContentsOf(d) = D
    BY <1>2
  <1> QED
    BY <1>1, <1>2, <1>4, <1>5, <1>6

-----------------------------------------------------------------------------
(***************************************************************************)
(* Searches                                                                *)
(***************************************************************************)

\* A search that stops at the name or at an empty slot returns what is held.
LEMMA AnswerIs ==
  ASSUME NEW d, Sane(d), NEW name \in Names, NEW i, Answers(d, name, i)
  PROVE  d.table[i].value = IF name \in DOMAIN ContentsOf(d) THEN ContentsOf(d)[name] ELSE NULL
  <1>1. CASE d.table[i].name = name
    <2>1. Holds(d, name, d.table[i].value)
      BY <1>1 DEF Holds, Answers
    <2> QED
      BY <2>1, ContentsAre
  <1>2. CASE d.table[i].name # name
    <2>1. d.table[i].value = NULL
      BY <1>2 DEF Answers, Sane
    <2>2. \A v : ~Holds(d, name, v)
      BY <1>2 DEF Answers, Holds
    <2>3. name \notin DOMAIN ContentsOf(d)
      BY <2>2, ContentsAre
    <2> QED
      BY <2>1, <2>3
  <1> QED
    BY <1>1, <1>2

\* There are as many slots in use as names held.
LEMMA OneSlotEach ==
  ASSUME NEW d, IsDict(d), Sane(d)
  PROVE  Cardinality(LiveIn(d)) = Cardinality(DOMAIN ContentsOf(d))
  <1>1. PICK D : D = DOMAIN ContentsOf(d) /\ D = {d.table[i].name : i \in LiveIn(d)}
    BY DEF ContentsOf
  <1>2. PICK f : f = [i \in LiveIn(d) |-> d.table[i].name]
    OBVIOUS
  <1>3. f \in [LiveIn(d) -> D]
    BY <1>1, <1>2
  <1>4. \A a, b \in LiveIn(d) : f[a] = f[b] => a = b
    BY <1>2 DEF Sane
  <1>5. \A t \in D : \E a \in LiveIn(d) : f[a] = t
    BY <1>1, <1>2
  <1>6. f \in Bijection(LiveIn(d), D)
    BY <1>3, <1>4, <1>5 DEF Bijection, Injection, Surjection, IsInjective
  <1>7. ExistsBijection(LiveIn(d), D)
    BY <1>6 DEF ExistsBijection
  <1>8. IsFiniteSet(LiveIn(d))
    BY Finite DEF LiveIn
  <1> QED
    BY <1>1, <1>7, <1>8, FS_Bijection

\* Searches end, and find what the table holds: in a good table there is an
\* empty slot, and none between where a search starts and what it seeks.
THEOREM SearchesAreExact == Spec => []SearchesExact
  <1>1. ASSUME IInv PROVE SearchesExact
    <2>1. /\ IsDict(dict) /\ Sane(dict) /\ Counted(dict) /\ Good(dict, hash) /\ hash \in Hashes
          /\ dict.size \in Nat /\ 2 <= dict.size /\ dict.remain \in Nat
          /\ Slots = SlotsOf(dict)
      BY <1>1 DEF IInv, Good, IsDict, Slots, SlotsOf
    <2>2. Hashing
      BY <2>1, DictionaryAssumption DEF Hashing
    <2>3. UsedIn(dict) = {i \in Slots : dict.table[i].name # NULL} /\ Live = LiveIn(dict)
      BY <2>1 DEF UsedIn, Live, LiveIn
    <2>4. Contents = ContentsOf(dict)
      BY <2>3 DEF Contents, ContentsOf
    <2>5. TypeOK
      <3>1. \E k \in 0 .. MaxSize : dict.size = Sizes[k]
        BY <1>1 DEF IInv, SizeRight
      <3>2. DOMAIN dict.table = Slots
            /\ \A i \in Slots :
                 dict.table[i] \in [name : Names \cup {DEAD, NULL}, value : Values \cup {NULL}]
        BY <2>1 DEF IsDict, Slot
      <3>3. dict.remain \in 0 .. dict.size
        <4>1. UsedIn(dict) \in SUBSET SlotsOf(dict)
          BY DEF UsedIn
        <4>2. PICK u \in Nat : u = Cardinality(UsedIn(dict))
          BY <2>1, <4>1, Finite
        <4> QED
          BY <2>1, <4>2, Room DEF Counted
      <3> QED
        BY <2>1, <3>1, <3>2, <3>3 DEF TypeOK
    <2>6. SearchesEnd
      <3>1. \E i \in Slots : dict.table[i].name = NULL
        BY <2>1, HasEmpty
      <3> QED
        BY <2>1, <2>3, <3>1 DEF SearchesEnd, Counted
    <2>7. GetsTrue
      <3>1. Cardinality(Live) = Cardinality(DOMAIN Contents)
        BY <2>1, <2>3, <2>4, OneSlotEach
      <3>2. ASSUME NEW n \in Names
            PROVE  /\ Dictget(dict, n) = IF n \in DOMAIN Contents THEN Contents[n] ELSE NULL
                   /\ \A n1, n2 \in Names :
                        n1 \o n2 = n => Dictget2(dict, n1, n2) = Dictget(dict, n)
        <4>1. PICK i : i = FirstHolding(dict, hash[n], {n, NULL})
          OBVIOUS
        <4>2. Answers(dict, n, i)
          BY <2>1, <2>2, <4>1, SearchIs
        <4>3. Dictget(dict, n) = dict.table[i].value
          BY <4>1, HashIs DEF Dictget, Get
        <4>4. ASSUME NEW n1 \in Names, NEW n2 \in Names, n1 \o n2 = n
              PROVE  Dictget2(dict, n1, n2) = dict.table[i].value
          BY <4>1, <4>4, HashIs DEF Dictget2
        <4> QED
          BY <2>1, <2>4, <4>2, <4>3, <4>4, AnswerIs
      <3> QED
        BY <3>1, <3>2 DEF GetsTrue
    <2> QED
      BY <2>5, <2>6, <2>7 DEF SearchesExact
  <1> QED
    BY <1>1, TablesAreGood, PTL

-----------------------------------------------------------------------------
(***************************************************************************)
(* The map                                                                 *)
(***************************************************************************)

\* A dictionary implements a map: whatever moves within the table, or from one
\* table to the next, a change of one name changes nothing else.
THEOREM MapImplemented == Spec => ImplementsMap
  <1>1. ASSUME Init PROVE Map!Init
    <2>1. ContentsOf(dict) = [n \in {} |-> {}]
      BY <1>1, InitIs DEF ContentsOf
    <2>2. Contents = ContentsOf(dict)
      BY DEF Contents, ContentsOf, Live, LiveIn, Slots, SlotsOf
    <2> QED
      BY <2>1, <2>2 DEF Map!Init
  <1>2. ASSUME IInv, IInv', [Next]_vars PROVE [Map!Next]_Contents
    <2>1. Contents = ContentsOf(dict) /\ Contents' = ContentsOf(dict')
      BY DEF Contents, ContentsOf, Live, LiveIn, Slots, SlotsOf
    <2>2. CASE UNCHANGED vars
      BY <2>1, <2>2 DEF vars
    <2>3. CASE Next
      <3>1. PICK name \in Names, val \in Values \cup {NULL} :
              dict' = Dictput(dict, name, val) /\ dict'.size <= MaxSize /\ hash' = hash
        BY <2>3 DEF Next
      <3>2. PICK d, e : d = dict /\ e = dict'
        OBVIOUS
      <3>3. Sane(d) /\ Sane(e)
        BY <1>2, <3>2 DEF IInv, Good
      <3>4. ASSUME NEW n \in Names, NEW v
            PROVE  Holds(e, n, v) <=> IF n = name THEN v = val /\ v # NULL ELSE Holds(d, n, v)
        BY <1>2, <3>1, <3>2, NextIs
      <3>5. PICK c, g : c = ContentsOf(d) /\ g = ContentsOf(e)
        OBVIOUS
      <3>6. /\ c = [n \in DOMAIN c |-> c[n]] /\ DOMAIN c \in SUBSET Names
            /\ g = [n \in DOMAIN g |-> g[n]] /\ DOMAIN g \in SUBSET Names
            /\ \A n \in Names : \A v : Holds(d, n, v) <=> n \in DOMAIN c /\ c[n] = v
            /\ \A n \in Names : \A v : Holds(e, n, v) <=> n \in DOMAIN g /\ g[n] = v
        BY <3>3, <3>5, ContentsAre
      <3>7. CASE val = NULL
        <4>1. DOMAIN g = DOMAIN c \ {name}
          BY <3>4, <3>6, <3>7
        <4>2. \A n \in DOMAIN c \ {name} : g[n] = c[n]
          BY <3>4, <3>6, <3>7
        <4>3. g = [n \in DOMAIN c \ {name} |-> c[n]]
          BY <3>6, <4>1, <4>2
        <4> QED
          BY <2>1, <3>2, <3>5, <4>3 DEF Map!Next, Map!Unbind
      <3>8. CASE val # NULL
        <4>1. DOMAIN g = DOMAIN c \cup {name}
          BY <3>4, <3>6, <3>8
        <4>2. \A n \in DOMAIN c \cup {name} : g[n] = IF n = name THEN val ELSE c[n]
          BY <3>4, <3>6, <3>8
        <4>3. g = [n \in DOMAIN c \cup {name} |-> IF n = name THEN val ELSE c[n]]
          BY <3>6, <4>1, <4>2
        <4>4. val \in Values
          BY <3>8
        <4> QED
          BY <2>1, <3>2, <3>5, <4>3, <4>4 DEF Map!Next, Map!Bind
      <3> QED
        BY <3>7, <3>8
    <2> QED
      BY <1>2, <2>2, <2>3
  <1> QED
    BY <1>1, <1>2, TablesAreGood, PTL DEF Spec, ImplementsMap, Map!Spec

-----------------------------------------------------------------------------
(***************************************************************************)
(* Numbers, steps and sequences                                            *)
(***************************************************************************)
\* A set that holds a number when it holds all below it holds them all.
LEMMA AllNumbers ==
  ASSUME NEW G, \A n \in Nat : (\A m \in 0 .. n - 1 : m \in G) => n \in G
  PROVE  Nat \subseteq G
  <1>1. SUFFICES ASSUME Nat \ G # {} PROVE FALSE
    OBVIOUS
  <1>2. PICK n \in Nat \ G : \A l \in Nat \ G : n <= l
    BY <1>1, LeastOne
  <1>3. ASSUME NEW m \in 0 .. n - 1 PROVE m \in G
    <2>1. m \in Nat /\ n \in Nat /\ ~ n <= m
      BY <1>2, <1>3
    <2> QED
      BY <1>2, <2>1
  <1> QED
    BY <1>2, <1>3

\* What n steps, each a function on S, make of e.
Steps(f, e, g, n) == [i \in 0 .. n |-> IF i = 0 THEN e ELSE g[i][f[i - 1]]]

LEMMA StepsTaken ==
  ASSUME NEW S, NEW e \in S, NEW N \in Nat, NEW g \in [1 .. N -> [S -> S]]
  PROVE  \E f \in [0 .. N -> S] : f = Steps(f, e, g, N)
  <1> DEFINE Taken(n) == \E f \in [0 .. n -> S] : f = Steps(f, e, g, n)
             G == {n \in Nat : n <= N => Taken(n)}
  <1>1. ASSUME NEW n \in Nat, \A m \in 0 .. n - 1 : m \in G, n <= N PROVE Taken(n)
    <2>1. CASE n = 0
      <3>1. PICK f : f = [k \in 0 .. 0 |-> e]
        OBVIOUS
      <3>2. f \in [0 .. n -> S] /\ f = Steps(f, e, g, n)
        BY <2>1, <3>1 DEF Steps
      <3> QED
        BY <3>2
    <2>2. CASE n # 0
      <3>1. n - 1 \in 0 .. n - 1 /\ n - 1 <= N
        BY <1>1, <2>2
      <3>2. PICK f \in [0 .. n - 1 -> S] : f = Steps(f, e, g, n - 1)
        BY <1>1, <3>1
      <3>3. f[n - 1] \in S /\ n \in 1 .. N
        BY <1>1, <2>2
      <3>4. g[n][f[n - 1]] \in S
        BY <3>3
      <3>5. PICK h : h = [k \in 0 .. n |-> IF k < n THEN f[k] ELSE g[n][f[n - 1]]]
        OBVIOUS
      <3>6. h \in [0 .. n -> S]
        <4>1. ASSUME NEW k \in 0 .. n PROVE h[k] \in S
          <5>1. CASE k < n
            <6>1. k \in 0 .. n - 1
              BY <5>1
            <6> QED
              BY <3>5, <5>1, <6>1
          <5>2. CASE ~ k < n
            BY <3>4, <3>5, <5>2
          <5> QED
            BY <5>1, <5>2
        <4> QED
          BY <3>5, <4>1
      <3>7. ASSUME NEW k \in 0 .. n PROVE h[k] = Steps(h, e, g, n)[k]
        <4>1. CASE k = 0
          <5>1. k \in 0 .. n - 1 /\ k < n
            BY <2>2, <4>1
          <5>2. f[k] = e
            BY <3>2, <4>1, <5>1 DEF Steps
          <5> QED
            BY <3>5, <4>1, <5>1, <5>2 DEF Steps
        <4>2. CASE k # 0
          <5>1. k - 1 \in 0 .. n /\ k - 1 < n /\ k - 1 \in 0 .. n - 1
            BY <4>2
          <5>2. h[k - 1] = f[k - 1]
            BY <3>5, <5>1
          <5>3. Steps(h, e, g, n)[k] = g[k][f[k - 1]]
            BY <4>2, <5>2 DEF Steps
          <5>4. CASE k = n
            BY <3>5, <5>3, <5>4
          <5>5. CASE k # n
            <6>1. k < n /\ k \in 0 .. n - 1
              BY <5>5
            <6>2. f[k] = g[k][f[k - 1]]
              BY <3>2, <4>2, <6>1 DEF Steps
            <6> QED
              BY <3>5, <5>3, <6>1, <6>2
          <5> QED
            BY <5>4, <5>5
        <4> QED
          BY <4>1, <4>2
      <3>8. h = [k \in 0 .. n |-> h[k]] /\ Steps(h, e, g, n) = [k \in 0 .. n |-> Steps(h, e, g, n)[k]]
        BY <3>5 DEF Steps
      <3>9. h = Steps(h, e, g, n)
        BY <3>7, <3>8, Zenon
      <3> QED
        BY <3>6, <3>9
    <2> QED
      BY <2>1, <2>2
  <1>2. Nat \subseteq G
    BY <1>1, AllNumbers
  <1> QED
    BY <1>2

\* The same, in terms of two predicates.
StepFunctions(g, n, S) == g \in [1 .. n -> [S -> S]]
Stepped(f, e, g, n, S) == f \in [0 .. n -> S] /\ f = Steps(f, e, g, n)

LEMMA StepsMade ==
  ASSUME NEW S, NEW e \in S, NEW n \in Nat, NEW g, StepFunctions(g, n, S)
  PROVE  \E f : Stepped(f, e, g, n, S)
  <1>1. g \in [1 .. n -> [S -> S]]
    BY DEF StepFunctions
  <1>2. \E f \in [0 .. n -> S] : f = Steps(f, e, g, n)
    BY <1>1, StepsTaken
  <1> QED
    BY <1>2 DEF Stepped

-----------------------------------------------------------------------------
(***************************************************************************)
(* Pieces of a text                                                        *)
(***************************************************************************)
Kept(s, X, f) ==
  [i \in 0 .. Len(s) |->
     IF i = 0 THEN <<>> ELSE IF s[i] \in X THEN f[i - 1] ELSE Append(f[i - 1], s[i])]
Keeps(f, s, X) == f = Kept(s, X, f)

\* What is kept of the first elements depends on nothing behind them.
LEMMA KeptAlike ==
  ASSUME NEW S, NEW X, NEW s \in Seq(S), NEW t \in Seq(S),
         NEW f, Keeps(f, s, X), NEW h, Keeps(h, t, X), NEW n \in Nat,
         n <= Len(s), n <= Len(t), \A i \in 1 .. n : s[i] = t[i]
  PROVE  f[n] = h[n] /\ f[n] \in Seq(S)
  <1> DEFINE G == {i \in Nat : i <= n => f[i] = h[i] /\ f[i] \in Seq(S)}
  <1>1. ASSUME NEW i \in Nat, \A m \in 0 .. i - 1 : m \in G, i <= n
        PROVE  f[i] = h[i] /\ f[i] \in Seq(S)
    <2>1. i \in 0 .. Len(s) /\ i \in 0 .. Len(t)
      BY <1>1
    <2>2. CASE i = 0
      <3>1. f[i] = <<>> /\ h[i] = <<>>
        BY <2>1, <2>2 DEF Keeps, Kept
      <3> QED
        BY <3>1, EmptySeq
    <2>3. CASE i # 0
      <3>1. i - 1 \in 0 .. i - 1 /\ i - 1 <= n /\ i \in 1 .. n
        BY <1>1, <2>3
      <3>2. f[i - 1] = h[i - 1] /\ f[i - 1] \in Seq(S)
        BY <1>1, <3>1
      <3>3. s[i] = t[i] /\ s[i] \in S
        BY <2>1, <3>1
      <3>4. f[i] = IF s[i] \in X THEN f[i - 1] ELSE Append(f[i - 1], s[i])
        BY <2>1, <2>3 DEF Keeps, Kept
      <3>5. h[i] = IF t[i] \in X THEN h[i - 1] ELSE Append(h[i - 1], t[i])
        BY <2>1, <2>3 DEF Keeps, Kept
      <3> QED
        BY <3>2, <3>3, <3>4, <3>5
    <2> QED
      BY <2>2, <2>3
  <1>2. Nat \subseteq G
    BY <1>1, AllNumbers
  <1> QED
    BY <1>2

LEMMA KeptIs ==
  ASSUME NEW S, NEW X, NEW s \in Seq(S)
  PROVE  \E f : Keeps(f, s, X) /\ Without(s, X) = f[Len(s)]
  <1> DEFINE g == [i \in 1 .. Len(s) |->
                     [r \in Seq(S) |-> IF s[i] \in X THEN r ELSE Append(r, s[i])]]
  <1>1. Len(s) \in Nat /\ \A i \in 1 .. Len(s) : s[i] \in S
    OBVIOUS
  <1>2. g \in [1 .. Len(s) -> [Seq(S) -> Seq(S)]]
    <2>1. ASSUME NEW i \in 1 .. Len(s), NEW r \in Seq(S)
          PROVE  (IF s[i] \in X THEN r ELSE Append(r, s[i])) \in Seq(S)
      BY <1>1
    <2> QED
      BY <2>1
  <1>3. PICK f \in [0 .. Len(s) -> Seq(S)] : f = Steps(f, <<>>, g, Len(s))
    <2>1. <<>> \in Seq(S)
      BY EmptySeq
    <2>2. PICK n \in Nat : n = Len(s)
      BY <1>1
    <2>3. PICK h \in [1 .. n -> [Seq(S) -> Seq(S)]] : h = g
      BY <1>2, <2>2, Zenon
    <2>4. StepFunctions(h, n, Seq(S))
      BY DEF StepFunctions
    <2>5. PICK f : Stepped(f, <<>>, h, n, Seq(S))
      BY <2>1, <2>4, StepsMade
    <2>6. f \in [0 .. n -> Seq(S)] /\ f = Steps(f, <<>>, h, n)
      BY <2>5 DEF Stepped
    <2> QED
      BY <2>2, <2>3, <2>6, Zenon
  <1>4. f = Kept(s, X, f)
    <2>1. ASSUME NEW i \in 0 .. Len(s) PROVE f[i] = Kept(s, X, f)[i]
      <3>1. CASE i = 0
        BY <1>3, <3>1 DEF Steps, Keeps, Kept
      <3>2. CASE i # 0
        <4>1. i \in 1 .. Len(s) /\ i - 1 \in 0 .. Len(s)
          BY <1>1, <3>2
        <4>2. f[i - 1] \in Seq(S)
          BY <1>3, <4>1
        <4>3. f[i] = g[i][f[i - 1]]
          <5> HIDE DEF g
          <5> QED
            BY <1>3, <3>2 DEF Steps
        <4>4. f[i] = IF s[i] \in X THEN f[i - 1] ELSE Append(f[i - 1], s[i])
          BY <4>1, <4>2, <4>3
        <4> QED
          BY <3>2, <4>4 DEF Keeps, Kept
      <3> QED
        BY <3>1, <3>2
    <2>2. f = [i \in 0 .. Len(s) |-> f[i]] /\ Kept(s, X, f) = [i \in 0 .. Len(s) |-> Kept(s, X, f)[i]]
      BY <1>3 DEF Keeps, Kept
    <2> QED
      BY <2>1, <2>2, Zenon
  <1>5. Without(s, X) = (CHOOSE h : Keeps(h, s, X))[Len(s)]
    BY DEF Without, Kept
  <1>6. PICK h : h = (CHOOSE k : k = Kept(s, X, k)) /\ h = Kept(s, X, h)
    BY <1>4, Zenon
  <1> QED
    BY <1>5, <1>6, Zenon DEF Keeps

LEMMA WithoutNothing ==
  ASSUME NEW X
  PROVE  Without(<<>>, X) = <<>>
  <1>1. <<>> \in Seq({}) /\ Len(<<>>) = 0
    BY EmptySeq
  <1>2. PICK f : Keeps(f, <<>>, X) /\ Without(<<>>, X) = f[Len(<<>>)]
    BY <1>1, KeptIs
  <1>3. 0 \in 0 .. Len(<<>>)
    BY <1>1
  <1> QED
    BY <1>1, <1>2, <1>3 DEF Keeps, Kept

LEMMA WithoutOneMore ==
  ASSUME NEW S, NEW X, NEW s \in Seq(S), NEW c \in S
  PROVE  /\ Without(s, X) \in Seq(S)
         /\ Without(Append(s, c), X) = IF c \in X THEN Without(s, X) ELSE Append(Without(s, X), c)
  <1>0. PICK n \in Nat : n = Len(s)
    OBVIOUS
  <1>1. PICK t \in Seq(S) : t = Append(s, c)
    BY AppendProperties
  <1>2. n \in Nat /\ n = Len(s) /\ Len(t) = n + 1 /\ t[n + 1] = c /\ \A i \in 1 .. n : s[i] = t[i]
    BY <1>0, <1>1, AppendProperties
  <1>3. PICK f : Keeps(f, s, X) /\ Without(s, X) = f[Len(s)]
    BY KeptIs
  <1>4. PICK h : Keeps(h, t, X) /\ Without(t, X) = h[Len(t)]
    BY KeptIs
  <1>5. f[n] = h[n] /\ f[n] \in Seq(S)
    <2>1. n \in 0 .. n /\ n <= Len(s) /\ n <= Len(t)
      BY <1>2
    <2>2. n <= Len(s) /\ n <= Len(t) /\ (\A i \in 1 .. n : s[i] = t[i]) /\ Keeps(f, s, X) /\ Keeps(h, t, X)
      BY <1>2, <1>3, <1>4, <2>1
    <2>3. f[n] = h[n] /\ f[n] \in Seq(S)
      BY <2>2, KeptAlike
    <2> QED
      BY <2>1, <2>3
  <1>6. h[n + 1] = IF c \in X THEN h[n] ELSE Append(h[n], c)
    <2>1. n + 1 \in 0 .. Len(t) /\ n + 1 # 0 /\ (n + 1) - 1 = n
      BY <1>2
    <2> QED
      BY <1>2, <1>4, <2>1 DEF Keeps, Kept
  <1> QED
    BY <1>1, <1>2, <1>3, <1>4, <1>5, <1>6

LEMMA FunctionIsSeq ==
  ASSUME NEW S, NEW n \in Nat, NEW f \in [1 .. n -> S]
  PROVE  f \in Seq(S) /\ Len(f) = n
  OBVIOUS

\* What holds of the empty sequence, and of a longer one when it holds of the
\* shorter, holds of all.
LEMMA AllSequences ==
  ASSUME NEW S, NEW G, <<>> \in G, \A s \in Seq(S), e \in S : s \in G => Append(s, e) \in G
  PROVE  Seq(S) \subseteq G
  <1> DEFINE Right(n) == \A s \in Seq(S) : Len(s) = n => s \in G
             H == {n \in Nat : Right(n)}
  <1>1. ASSUME NEW n \in Nat, \A m \in 0 .. n - 1 : m \in H, NEW s \in Seq(S), Len(s) = n
        PROVE  s \in G
    <2>1. CASE s = <<>>
      BY <2>1
    <2>2. CASE s # <<>>
      <3>1. PICK u \in Seq(S), e \in S : s = Append(u, e)
        BY <2>2, SequenceEmptyOrAppend
      <3>2. Len(u) \in 0 .. n - 1
        <4>1. Len(s) = Len(u) + 1 /\ Len(u) \in Nat
          BY <3>1, AppendProperties
        <4> QED
          BY <1>1, <4>1
      <3>3. u \in G
        BY <1>1, <3>2
      <3> QED
        BY <3>1, <3>3
    <2> QED
      BY <2>1, <2>2
  <1>2. Nat \subseteq H
    BY <1>1, AllNumbers
  <1> QED
    BY <1>2

\* A sequence with one element more.
LEMMA Longer ==
  ASSUME NEW S, NEW t \in Seq(S), NEW c \in S
  PROVE  /\ Append(t, c) \in Seq(S) /\ Append(t, c) # <<>>
         /\ Len(Append(t, c)) = Len(t) + 1 /\ DOMAIN Append(t, c) = 1 .. Len(t) + 1
         /\ \A i \in 1 .. Len(t) : Append(t, c)[i] = t[i]
         /\ Append(t, c)[Len(t) + 1] = c
  BY AppendProperties, LenProperties

\* Pieces of what two texts share.
LEMMA SharedPiece ==
  ASSUME NEW S, NEW t \in Seq(S), NEW u \in Seq(S), Len(t) <= Len(u),
         \A i \in 1 .. Len(t) : u[i] = t[i],
         NEW a \in Nat \ {0}, NEW b \in Nat, b <= Len(t)
  PROVE  SubSeq(u, a, b) = SubSeq(t, a, b) /\ SubSeq(t, a, b) \in Seq(S)
  <1>1. a \in Int /\ b \in Int /\ Len(t) \in Nat /\ Len(u) \in Nat
    OBVIOUS
  <1>2. ASSUME NEW i \in a .. b PROVE i \in 1 .. Len(t) /\ u[i] \in S /\ t[i] \in S
    <2>1. i \in 1 .. Len(t) /\ i \in 1 .. Len(u)
      BY <1>1
    <2> QED
      BY <2>1
  <1>3. PICK p \in Seq(S) : p = SubSeq(t, a, b) /\ Len(p) = (IF a <= b THEN b - a + 1 ELSE 0)
                            /\ \A i \in 1 .. b - a + 1 : p[i] = t[a + i - 1]
    <2>1. \A i \in a .. b : t[i] \in S
      BY <1>2
    <2>2. /\ SubSeq(t, a, b) \in Seq(S)
          /\ Len(SubSeq(t, a, b)) = IF a <= b THEN b - a + 1 ELSE 0
          /\ \A i \in 1 .. b - a + 1 : SubSeq(t, a, b)[i] = t[a + i - 1]
      BY <1>1, <2>1, SubSeqProperties
    <2> QED
      BY <2>2, Zenon
  <1>4. PICK q \in Seq(S) : q = SubSeq(u, a, b) /\ Len(q) = (IF a <= b THEN b - a + 1 ELSE 0)
                            /\ \A i \in 1 .. b - a + 1 : q[i] = u[a + i - 1]
    <2>1. \A i \in a .. b : u[i] \in S
      BY <1>2
    <2>2. /\ SubSeq(u, a, b) \in Seq(S)
          /\ Len(SubSeq(u, a, b)) = IF a <= b THEN b - a + 1 ELSE 0
          /\ \A i \in 1 .. b - a + 1 : SubSeq(u, a, b)[i] = u[a + i - 1]
      BY <1>1, <2>1, SubSeqProperties
    <2> QED
      BY <2>2, Zenon
  <1>5. ASSUME NEW i \in 1 .. Len(p) PROVE p[i] = q[i]
    <2>1. i \in 1 .. b - a + 1 /\ a + i - 1 \in a .. b
      BY <1>1, <1>3
    <2> QED
      BY <1>2, <1>3, <1>4, <2>1
  <1>6. p = q
    BY <1>3, <1>4, <1>5, SeqEqual
  <1> QED
    BY <1>3, <1>4, <1>6

LastOf(ends) == IF ends = <<>> THEN 0 ELSE ends[Len(ends)]

\* The pieces between some stops in the part that two texts share, and one more.
LEMMA OnePieceMore ==
  ASSUME NEW S, NEW t \in Seq(S), NEW u \in Seq(S), Len(t) <= Len(u),
         \A i \in 1 .. Len(t) : u[i] = t[i],
         NEW ends \in Seq(1 .. Len(t))
  PROVE  /\ Between(t, ends) \in Seq(Seq(S)) /\ Between(u, ends) = Between(t, ends)
         /\ SubSeq(t, LastOf(ends) + 1, Len(t)) \in Seq(S)
         /\ Between(u, Append(ends, Len(t) + 1))
              = Append(Between(t, ends), SubSeq(t, LastOf(ends) + 1, Len(t)))
  <1> DEFINE from(k) == (IF k = 1 THEN 0 ELSE ends[k - 1]) + 1
  <1>1. PICK n \in Nat, l \in Nat : n = Len(ends) /\ l = Len(t) /\ DOMAIN ends = 1 .. n
    OBVIOUS
  <1>2. ASSUME NEW k \in 1 .. n
        PROVE  from(k) \in Nat \ {0} /\ ends[k] \in 1 .. l /\ ends[k] - 1 \in Nat /\ ends[k] - 1 <= l
    <2>1. ends[k] \in 1 .. l
      BY <1>1
    <2>2. k # 1 => ends[k - 1] \in 1 .. l
      <3>1. k # 1 => k - 1 \in 1 .. n
        OBVIOUS
      <3> QED
        BY <1>1, <3>1
    <2> QED
      BY <2>1, <2>2
  <1>3. LastOf(ends) + 1 \in Nat \ {0}
    <2>1. ends # <<>> => n \in 1 .. n
      BY <1>1, EmptySeq
    <2>2. ends # <<>> => ends[n] \in 1 .. l
      BY <1>1, <2>1
    <2> QED
      BY <1>1, <2>2 DEF LastOf
  <1>4. PICK r \in Seq(S) : r = SubSeq(t, LastOf(ends) + 1, l) /\ r = SubSeq(u, LastOf(ends) + 1, l)
    <2>1. PICK a \in Nat \ {0}, b \in Nat : a = LastOf(ends) + 1 /\ b = l /\ b <= l
      BY <1>3
    <2>2. SubSeq(u, a, b) = SubSeq(t, a, b) /\ SubSeq(t, a, b) \in Seq(S)
      BY <1>1, <2>1, SharedPiece
    <2> QED
      BY <2>1, <2>2
  <1>5. ASSUME NEW k \in 1 .. n
        PROVE  /\ SubSeq(t, from(k), ends[k] - 1) \in Seq(S)
               /\ SubSeq(u, from(k), ends[k] - 1) = SubSeq(t, from(k), ends[k] - 1)
    <2>1. PICK a \in Nat \ {0}, b \in Nat : a = from(k) /\ b = ends[k] - 1
      BY <1>2
    <2>2. b <= Len(t)
      BY <1>1, <1>2, <2>1
    <2>3. SubSeq(u, a, b) = SubSeq(t, a, b) /\ SubSeq(t, a, b) \in Seq(S)
      BY <2>2, SharedPiece
    <2> QED
      BY <2>1, <2>3
  <1>6. PICK p \in Seq(Seq(S)) : p = Between(t, ends) /\ Len(p) = n
                                 /\ \A k \in 1 .. n : p[k] = SubSeq(t, from(k), ends[k] - 1)
    <2>1. PICK p : p = Between(t, ends)
      OBVIOUS
    <2>2. p = [k \in 1 .. n |-> SubSeq(t, from(k), ends[k] - 1)]
      BY <1>1, <2>1 DEF Between
    <2>3. p \in Seq(Seq(S)) /\ Len(p) = n
      <3>1. p \in [1 .. n -> Seq(S)]
        BY <1>5, <2>2
      <3> QED
        BY <3>1, FunctionIsSeq
    <2> QED
      BY <2>1, <2>2, <2>3
  <1>7. Between(u, ends) = p
    <2>1. Between(u, ends) = [k \in 1 .. n |-> SubSeq(u, from(k), ends[k] - 1)]
      BY <1>1 DEF Between
    <2>2. p = [k \in 1 .. n |-> SubSeq(t, from(k), ends[k] - 1)]
      BY <1>1, <1>6 DEF Between
    <2> QED
      BY <1>5, <2>1, <2>2
  <1>8. PICK more \in Seq(Nat) : more = Append(ends, l + 1) /\ Len(more) = n + 1
                                 /\ (\A k \in 1 .. n : more[k] = ends[k]) /\ more[n + 1] = l + 1
    <2>1. ends \in Seq(Nat) /\ l + 1 \in Nat
      <3>1. \A k \in 1 .. n : ends[k] \in Nat
        BY <1>2
      <3>2. ends \in [1 .. n -> Nat]
        BY <1>1, <3>1
      <3> QED
        BY <1>1, <3>2
    <2>2. /\ Append(ends, l + 1) \in Seq(Nat) /\ Len(Append(ends, l + 1)) = Len(ends) + 1
          /\ (\A k \in 1 .. Len(ends) : Append(ends, l + 1)[k] = ends[k])
          /\ Append(ends, l + 1)[Len(ends) + 1] = l + 1
      BY <2>1, AppendProperties
    <2> QED
      BY <1>1, <2>2, Zenon
  <1>9. PICK q : q = Between(u, more)
    OBVIOUS
  <1>10. q = [k \in 1 .. n + 1 |-> SubSeq(u, (IF k = 1 THEN 0 ELSE more[k - 1]) + 1, more[k] - 1)]
    <2>1. DOMAIN more = 1 .. n + 1
      BY <1>8
    <2> QED
      BY <1>9, <2>1 DEF Between
  <1>11. ASSUME NEW k \in 1 .. n PROVE q[k] = p[k]
    <2>1. k \in 1 .. n + 1 /\ (k # 1 => k - 1 \in 1 .. n)
      OBVIOUS
    <2>2. more[k] = ends[k] /\ (k # 1 => more[k - 1] = ends[k - 1])
      BY <1>8, <2>1
    <2>3. q[k] = SubSeq(u, from(k), ends[k] - 1)
      BY <1>10, <2>1, <2>2
    <2> QED
      BY <1>5, <1>6, <2>3
  <1>12. q[n + 1] = r
    <2>1. (IF n + 1 = 1 THEN 0 ELSE more[n]) = LastOf(ends)
      <3>1. CASE n = 0
        BY <1>1, <3>1, EmptySeq DEF LastOf
      <3>2. CASE n # 0
        <4>1. n \in 1 .. n /\ ends # <<>> /\ n + 1 # 1
          BY <1>1, <3>2, EmptySeq
        <4> QED
          BY <1>1, <1>8, <4>1 DEF LastOf
      <3> QED
        BY <3>1, <3>2
    <2>2. n + 1 \in 1 .. n + 1 /\ (n + 1) - 1 = n /\ (l + 1) - 1 = l
      OBVIOUS
    <2>3. q[n + 1] = SubSeq(u, LastOf(ends) + 1, l)
      BY <1>8, <1>10, <2>1, <2>2
    <2> QED
      BY <1>4, <2>3
  <1>13. PICK w \in Seq(Seq(S)) : w = Append(p, r) /\ Len(w) = n + 1
                                  /\ (\A k \in 1 .. n : w[k] = p[k]) /\ w[n + 1] = r
    <2>1. /\ Append(p, r) \in Seq(Seq(S)) /\ Len(Append(p, r)) = Len(p) + 1
          /\ (\A k \in 1 .. Len(p) : Append(p, r)[k] = p[k]) /\ Append(p, r)[Len(p) + 1] = r
      BY AppendProperties
    <2> QED
      BY <1>6, <2>1, Zenon
  <1>14. q = w
    <2>1. w = [k \in 1 .. n + 1 |-> w[k]] /\ q = [k \in 1 .. n + 1 |-> q[k]]
      <3>1. w \in [1 .. n + 1 -> Seq(S)]
        BY <1>13, LenProperties
      <3> QED
        BY <1>10, <3>1
    <2>2. ASSUME NEW k \in 1 .. n + 1 PROVE q[k] = w[k]
      <3>1. k \in 1 .. n \/ k = n + 1
        OBVIOUS
      <3> QED
        BY <1>11, <1>12, <1>13, <3>1
    <2> QED
      BY <2>1, <2>2, Zenon
  <1> QED
    BY <1>1, <1>4, <1>6, <1>7, <1>8, <1>9, <1>13, <1>14

\* The complete pieces of a text, and the one that has begun.
Ended(t, X) == Between(t, StopsIn(t, X))
Begun(t, X) == SubSeq(t, LastOf(StopsIn(t, X)) + 1, Len(t))

StopAt(t, X) == [i \in DOMAIN t |-> IF t[i] \in X THEN i ELSE 0]

LEMMA StopsOneMore ==
  ASSUME NEW S, NEW X, NEW t \in Seq(S), NEW c \in S
  PROVE  /\ StopsIn(t, X) \in Seq(Nat)
         /\ StopsIn(Append(t, c), X)
              = IF c \in X THEN Append(StopsIn(t, X), Len(t) + 1) ELSE StopsIn(t, X)
  <1>1. PICK n \in Nat : n = Len(t) /\ DOMAIN t = 1 .. n
    OBVIOUS
  <1>2. PICK u \in Seq(S) : u = Append(t, c) /\ Len(u) = n + 1 /\ DOMAIN u = 1 .. n + 1
                            /\ (\A i \in 1 .. n : u[i] = t[i]) /\ u[n + 1] = c
    <2>1. PICK u \in Seq(S) : u = Append(t, c)
      BY Longer
    <2>2. /\ Len(u) = Len(t) + 1 /\ DOMAIN u = 1 .. Len(t) + 1
          /\ (\A i \in 1 .. Len(t) : u[i] = t[i]) /\ u[Len(t) + 1] = c
      BY <2>1, Longer
    <2> QED
      BY <1>1, <2>1, <2>2
  <1>3. PICK m \in Seq(Nat) : m = StopAt(t, X) /\ Len(m) = n /\ DOMAIN m = 1 .. n
                              /\ \A i \in 1 .. n : m[i] = IF t[i] \in X THEN i ELSE 0
    <2>1. PICK m : m = StopAt(t, X)
      OBVIOUS
    <2>2. m = [i \in 1 .. n |-> IF t[i] \in X THEN i ELSE 0]
      BY <1>1, <2>1 DEF StopAt
    <2>3. m \in [1 .. n -> Nat]
      BY <2>2
    <2>4. m \in Seq(Nat) /\ Len(m) = n
      BY <2>3
    <2> QED
      BY <2>1, <2>2, <2>4
  <1>4. PICK e \in Nat : e = IF c \in X THEN n + 1 ELSE 0
    OBVIOUS
  <1>5. StopAt(u, X) = Append(m, e)
    <2>1. /\ Append(m, e) \in Seq(Nat) /\ Len(Append(m, e)) = n + 1
          /\ (\A i \in 1 .. n : Append(m, e)[i] = m[i]) /\ Append(m, e)[n + 1] = e
      BY <1>3, AppendProperties
    <2>2. PICK w \in Seq(Nat) : w = Append(m, e)
      BY <2>1
    <2>3. w \in [1 .. n + 1 -> Nat]
      BY <2>1, <2>2, LenProperties
    <2>4. StopAt(u, X) = [i \in 1 .. n + 1 |-> IF u[i] \in X THEN i ELSE 0]
      BY <1>2 DEF StopAt
    <2>5. ASSUME NEW i \in 1 .. n + 1 PROVE w[i] = IF u[i] \in X THEN i ELSE 0
      <3>1. i \in 1 .. n \/ i = n + 1
        OBVIOUS
      <3> QED
        BY <1>2, <1>3, <1>4, <2>1, <2>2, <3>1
    <2>6. w = [i \in 1 .. n + 1 |-> w[i]]
      BY <2>3
    <2>7. w = [i \in 1 .. n + 1 |-> IF u[i] \in X THEN i ELSE 0]
      BY <2>5, <2>6
    <2> QED
      BY <2>2, <2>4, <2>7
  <1>6. StopsIn(t, X) = Without(m, {0}) /\ StopsIn(u, X) = Without(StopAt(u, X), {0})
    BY <1>3 DEF StopsIn, StopAt
  <1>7. Without(m, {0}) \in Seq(Nat)
        /\ Without(Append(m, e), {0}) = IF e \in {0} THEN Without(m, {0}) ELSE Append(Without(m, {0}), e)
    <2>1. PICK Z : Z = {0}
      OBVIOUS
    <2>2. Without(m, Z) \in Seq(Nat)
          /\ Without(Append(m, e), Z) = IF e \in Z THEN Without(m, Z) ELSE Append(Without(m, Z), e)
      BY WithoutOneMore
    <2> QED
      BY <2>1, <2>2
  <1>8. (e \in {0}) <=> c \notin X
    BY <1>4
  <1> QED
    BY <1>1, <1>2, <1>4, <1>5, <1>6, <1>7, <1>8

LEMMA NoStopsInNothing ==
  ASSUME NEW X
  PROVE  StopsIn(<<>>, X) = <<>>
  <1>1. StopAt(<<>>, X) = <<>>
    BY DEF StopAt
  <1>2. StopsIn(<<>>, X) = Without(StopAt(<<>>, X), {0})
    BY DEF StopsIn, StopAt
  <1> QED
    BY <1>1, <1>2, WithoutNothing

LEMMA StopsInside ==
  ASSUME NEW S, NEW X, NEW t \in Seq(S)
  PROVE  StopsIn(t, X) \in Seq(1 .. Len(t))
  <1> DEFINE G == {r \in Seq(S) : StopsIn(r, X) \in Seq(1 .. Len(r))}
  <1>1. <<>> \in G
    BY NoStopsInNothing, EmptySeq
  <1>2. ASSUME NEW s \in Seq(S), NEW c \in S, s \in G PROVE Append(s, c) \in G
    <2>0. PICK n \in Nat : n = Len(s)
      BY <1>2
    <2>1. PICK ends \in Seq(1 .. n) : n = Len(s) /\ ends = StopsIn(s, X)
      BY <1>2, <2>0
    <2>2. Append(s, c) \in Seq(S) /\ Len(Append(s, c)) = n + 1
      BY <2>1, AppendProperties
    <2>3. ends \in Seq(1 .. n + 1) /\ n + 1 \in 1 .. n + 1
      <3>1. 1 .. n \subseteq 1 .. n + 1
        OBVIOUS
      <3> QED
        BY <3>1, SeqMonotonic
    <2>4. Append(ends, n + 1) \in Seq(1 .. n + 1)
      BY <2>3, AppendProperties
    <2>5. StopsIn(Append(s, c), X) = IF c \in X THEN Append(ends, n + 1) ELSE ends
      BY <2>1, StopsOneMore
    <2> QED
      BY <2>2, <2>3, <2>4, <2>5
  <1>3. Seq(S) \subseteq G
    <2> HIDE DEF G
    <2> QED
      BY <1>1, <1>2, AllSequences
  <1> QED
    BY <1>3

\* One character more ends the piece that has begun, or lengthens it.
LEMMA OneMore ==
  ASSUME NEW S, NEW X, NEW t \in Seq(S), NEW c \in S
  PROVE  /\ Ended(t, X) \in Seq(Seq(S)) /\ Begun(t, X) \in Seq(S)
         /\ c \in X => /\ Ended(Append(t, c), X) = Append(Ended(t, X), Begun(t, X))
                       /\ Begun(Append(t, c), X) = <<>>
         /\ c \notin X => /\ Ended(Append(t, c), X) = Ended(t, X)
                          /\ Begun(Append(t, c), X) = Append(Begun(t, X), c)
  <1>1. PICK n \in Nat : n = Len(t)
    OBVIOUS
  <1>2. PICK u \in Seq(S) : u = Append(t, c) /\ Len(u) = n + 1
                            /\ (\A i \in 1 .. n : u[i] = t[i]) /\ u[n + 1] = c
    <2>1. PICK u \in Seq(S) : u = Append(t, c)
      BY Longer
    <2>2. Len(u) = Len(t) + 1 /\ (\A i \in 1 .. Len(t) : u[i] = t[i]) /\ u[Len(t) + 1] = c
      BY <2>1, Longer
    <2> QED
      BY <1>1, <2>1, <2>2
  <1>3. PICK ends \in Seq(1 .. n) : ends = StopsIn(t, X)
    BY <1>1, StopsInside
  <1>4. /\ Between(t, ends) \in Seq(Seq(S)) /\ Between(u, ends) = Between(t, ends)
        /\ SubSeq(t, LastOf(ends) + 1, n) \in Seq(S)
        /\ Between(u, Append(ends, n + 1)) = Append(Between(t, ends), SubSeq(t, LastOf(ends) + 1, n))
    <2>1. Len(t) <= Len(u) /\ (\A i \in 1 .. Len(t) : u[i] = t[i]) /\ ends \in Seq(1 .. Len(t))
      BY <1>1, <1>2
    <2>2. /\ Between(t, ends) \in Seq(Seq(S)) /\ Between(u, ends) = Between(t, ends)
          /\ SubSeq(t, LastOf(ends) + 1, Len(t)) \in Seq(S)
          /\ Between(u, Append(ends, Len(t) + 1))
               = Append(Between(t, ends), SubSeq(t, LastOf(ends) + 1, Len(t)))
      BY <2>1, OnePieceMore
    <2> QED
      BY <1>1, <2>2
  <1>5. StopsIn(u, X) = IF c \in X THEN Append(ends, n + 1) ELSE ends
    BY <1>1, <1>2, <1>3, StopsOneMore
  <1>6. CASE c \in X
    <2>1. Ended(u, X) = Append(Ended(t, X), Begun(t, X))
      BY <1>1, <1>3, <1>4, <1>5, <1>6 DEF Ended, Begun
    <2>2. LastOf(Append(ends, n + 1)) = n + 1
      <3>1. ends \in Seq(1 .. n + 1) /\ n + 1 \in 1 .. n + 1
        <4>1. 1 .. n \subseteq 1 .. n + 1
          OBVIOUS
        <4> QED
          BY <4>1, SeqMonotonic
      <3>2. PICK more : more = Append(ends, n + 1)
        OBVIOUS
      <3>3. Len(more) = Len(ends) + 1 /\ more[Len(ends) + 1] = n + 1 /\ more # <<>>
        BY <3>1, <3>2, Longer
      <3> QED
        BY <3>2, <3>3 DEF LastOf
    <2>3. SubSeq(u, n + 2, n + 1) = <<>>
      BY SubSeqEmpty
    <2>4. Begun(u, X) = <<>>
      BY <1>2, <1>5, <1>6, <2>2, <2>3 DEF Begun
    <2> QED
      BY <1>1, <1>2, <1>3, <1>4, <1>6, <2>1, <2>4 DEF Ended, Begun
  <1>7. CASE c \notin X
    <2>1. Ended(u, X) = Ended(t, X)
      BY <1>3, <1>4, <1>5, <1>7 DEF Ended
    <2>2. PICK a \in 1 .. n + 1 : a = LastOf(ends) + 1
      <3>1. CASE ends = <<>>
        BY <3>1 DEF LastOf
      <3>2. CASE ends # <<>>
        <4>1. Len(ends) \in 1 .. Len(ends)
          BY <3>2, EmptySeq
        <4>2. ends[Len(ends)] \in 1 .. n
          BY <4>1
        <4> QED
          BY <3>2, <4>2 DEF LastOf
      <3> QED
        BY <3>1, <3>2
    <2>3. SubSeq(u, a, n + 1) = SubSeq(u, a, n) \o <<c>>
      <3>1. a \in 1 .. Len(u) /\ n + 1 \in a .. Len(u) /\ (n + 1) - 1 = n
        BY <1>2, <2>2
      <3>2. SubSeq(u, a, n + 1) = SubSeq(u, a, (n + 1) - 1) \o <<u[n + 1]>>
        BY <3>1, SubSeqRecursiveSecond
      <3> QED
        BY <1>2, <3>1, <3>2
    <2>4. SubSeq(u, a, n) = SubSeq(t, a, n) /\ SubSeq(t, a, n) \in Seq(S)
      <3>1. a \in Nat \ {0} /\ n <= Len(t) /\ Len(t) <= Len(u)
        BY <1>1, <1>2, <2>2
      <3>2. \A i \in 1 .. Len(t) : u[i] = t[i]
        BY <1>1, <1>2
      <3> QED
        BY <3>1, <3>2, SharedPiece
    <2>5. SubSeq(t, a, n) \o <<c>> = Append(SubSeq(t, a, n), c)
      BY <2>4, AppendIsConcat
    <2>6. Begun(u, X) = Append(Begun(t, X), c)
      BY <1>1, <1>2, <1>3, <1>5, <1>7, <2>2, <2>3, <2>4, <2>5 DEF Begun
    <2> QED
      BY <1>1, <1>2, <1>3, <1>4, <1>7, <2>1, <2>6 DEF Ended, Begun
  <1> QED
    BY <1>6, <1>7

LEMMA NothingBegun ==
  ASSUME NEW X
  PROVE  Ended(<<>>, X) = <<>> /\ Begun(<<>>, X) = <<>>
  <1>1. Begun(<<>>, X) = <<>>
    <2>1. SubSeq(<<>>, 1, 0) = <<>>
      BY SubSeqEmpty
    <2> QED
      BY <2>1, NoStopsInNothing DEF Begun, LastOf
  <1>2. Ended(<<>>, X) = <<>>
    <2>1. \A e : e = <<>> => Between(<<>>, e) = <<>>
      BY DEF Between
    <2> QED
      BY <2>1, NoStopsInNothing DEF Ended
  <1> QED
    BY <1>1, <1>2

LEMMA PiecesTyped ==
  ASSUME NEW S, NEW X, NEW t \in Seq(S)
  PROVE  Ended(t, X) \in Seq(Seq(S)) /\ Begun(t, X) \in Seq(S)
  <1>1. PICK ends \in Seq(1 .. Len(t)) : ends = StopsIn(t, X)
    BY StopsInside
  <1>2. Len(t) <= Len(t) /\ \A i \in 1 .. Len(t) : t[i] = t[i]
    OBVIOUS
  <1>3. Between(t, ends) \in Seq(Seq(S)) /\ SubSeq(t, LastOf(ends) + 1, Len(t)) \in Seq(S)
    BY <1>2, OnePieceMore
  <1> QED
    BY <1>1, <1>3 DEF Ended, Begun

LEMMA OneStopMore ==
  ASSUME NEW S, NEW X, NEW t \in Seq(S), NEW c \in S, c \in X
  PROVE  /\ Ended(Append(t, c), X) = Append(Ended(t, X), Begun(t, X))
         /\ Begun(Append(t, c), X) = <<>>
  BY OneMore

LEMMA OneLetterMore ==
  ASSUME NEW S, NEW X, NEW t \in Seq(S), NEW c \in S, c \notin X
  PROVE  /\ Ended(Append(t, c), X) = Ended(t, X)
         /\ Begun(Append(t, c), X) = Append(Begun(t, X), c)
  BY OneMore

\* The pieces of a text: the one that has begun is one of them unless the text
\* is empty or ends in a break.
LEMMA PiecesAre ==
  ASSUME NEW S, NEW stops, NEW t \in Seq(S)
  PROVE  LET X == stops \cup {Break} IN
         /\ t = <<>> => PiecesOf(t, stops) = Ended(t, X) /\ Begun(t, X) = <<>>
         /\ t # <<>> /\ t[Len(t)] = Break =>
              PiecesOf(t, stops) = Ended(t, X) /\ Begun(t, X) = <<>>
         /\ t # <<>> /\ t[Len(t)] # Break =>
              PiecesOf(t, stops) = Append(Ended(t, X), Begun(t, X))
  <1> DEFINE X == stops \cup {Break}
  <1>1. PICK ends : ends = StopsIn(t, X)
    OBVIOUS
  <1>2. PiecesOf(t, stops)
          = Between(t, IF t = <<>> \/ t[Len(t)] = Break THEN ends ELSE Append(ends, Len(t) + 1))
    BY <1>1 DEF PiecesOf, Last
  <1>3. t = <<>> => PiecesOf(t, stops) = Ended(t, X) /\ Begun(t, X) = <<>>
    BY <1>1, <1>2, NothingBegun DEF Ended
  <1>4. ASSUME t # <<>>, t[Len(t)] = Break
        PROVE  PiecesOf(t, stops) = Ended(t, X) /\ Begun(t, X) = <<>>
    <2>1. PICK u \in Seq(S), c \in S : t = Append(u, c)
      BY <1>4, SequenceEmptyOrAppend
    <2>2. c = Break
      <3>1. Len(t) = Len(u) + 1 /\ t[Len(u) + 1] = c
        BY <2>1, AppendProperties
      <3> QED
        BY <1>4, <3>1
    <2>3. Begun(Append(u, c), X) = <<>>
      <3>1. PICK Y : Y = X
        OBVIOUS
      <3>2. c \in Y
        BY <2>2, <3>1
      <3>3. /\ Ended(Append(u, c), Y) = Append(Ended(u, Y), Begun(u, Y))
            /\ Begun(Append(u, c), Y) = <<>>
        BY <3>2, OneStopMore
      <3> QED
        BY <3>1, <3>3
    <2> QED
      BY <1>1, <1>2, <1>4, <2>1, <2>3 DEF Ended
  <1>5. ASSUME t # <<>>, t[Len(t)] # Break
        PROVE  PiecesOf(t, stops) = Append(Ended(t, X), Begun(t, X))
    <2>1. PiecesOf(t, stops) = Between(t, Append(ends, Len(t) + 1))
      BY <1>2, <1>5
    <2>2. ends \in Seq(1 .. Len(t)) /\ Len(t) <= Len(t) /\ \A i \in 1 .. Len(t) : t[i] = t[i]
      BY <1>1, StopsInside
    <2>3. Between(t, Append(ends, Len(t) + 1))
            = Append(Between(t, ends), SubSeq(t, LastOf(ends) + 1, Len(t)))
      BY <2>2, OnePieceMore
    <2> QED
      BY <1>1, <2>1, <2>3 DEF Ended, Begun
  <1> QED
    BY <1>3, <1>4, <1>5

-----------------------------------------------------------------------------
(***************************************************************************)
(* Words, the newest first                                                 *)
(***************************************************************************)
LEMMA Reversed ==
  ASSUME NEW S, NEW s \in Seq(S)
  PROVE  /\ Reverse(s) \in Seq(S) /\ Len(Reverse(s)) = Len(s)
         /\ \A i \in 1 .. Len(s) : Reverse(s)[i] = s[Len(s) - i + 1]
  <1>1. PICK n \in Nat : n = Len(s)
    OBVIOUS
  <1>2. PICK r : r = Reverse(s)
    OBVIOUS
  <1>3. r = [i \in 1 .. n |-> s[(n - i) + 1]]
    BY <1>1, <1>2 DEF Reverse
  <1>4. ASSUME NEW i \in 1 .. n PROVE s[(n - i) + 1] \in S
    <2>1. (n - i) + 1 \in 1 .. n
      OBVIOUS
    <2> QED
      BY <1>1, <2>1
  <1>5. r \in [1 .. n -> S]
    BY <1>3, <1>4
  <1>6. r \in Seq(S) /\ Len(r) = n
    BY <1>5
  <1> QED
    BY <1>1, <1>2, <1>3, <1>6

LEMMA ReverseOnto ==
  ASSUME NEW S, NEW a \in Seq(S), NEW s \in Seq(S)
  PROVE  Reverse(Reverse(a) \o s) = Reverse(s) \o a
  <1>1. PICK n \in Nat, m \in Nat : n = Len(a) /\ m = Len(s)
    OBVIOUS
  <1>2. PICK b \in Seq(S) : b = Reverse(a) /\ Len(b) = n /\ \A i \in 1 .. n : b[i] = a[n - i + 1]
    BY <1>1, Reversed
  <1>3. PICK r \in Seq(S) : r = Reverse(s) /\ Len(r) = m /\ \A i \in 1 .. m : r[i] = s[m - i + 1]
    BY <1>1, Reversed
  <1>4. PICK p \in Seq(S) : p = b \o s /\ Len(p) = n + m
                            /\ \A i \in 1 .. n + m : p[i] = IF i <= n THEN b[i] ELSE s[i - n]
    <2>1. PICK p \in Seq(S) : p = b \o s
      BY ConcatProperties
    <2>2. /\ Len(b \o s) = Len(b) + Len(s)
          /\ \A i \in 1 .. Len(b) + Len(s) : (b \o s)[i] = IF i <= Len(b) THEN b[i] ELSE s[i - Len(b)]
      BY ConcatProperties
    <2> QED
      BY <1>1, <1>2, <2>1, <2>2
  <1>5. PICK q \in Seq(S) : q = r \o a /\ Len(q) = m + n
                            /\ \A i \in 1 .. m + n : q[i] = IF i <= m THEN r[i] ELSE a[i - m]
    <2>1. PICK q \in Seq(S) : q = r \o a
      BY ConcatProperties
    <2>2. /\ Len(r \o a) = Len(r) + Len(a)
          /\ \A i \in 1 .. Len(r) + Len(a) : (r \o a)[i] = IF i <= Len(r) THEN r[i] ELSE a[i - Len(r)]
      BY ConcatProperties
    <2> QED
      BY <1>1, <1>3, <2>1, <2>2, ZenonT(40)
  <1>6. PICK u \in Seq(S) : u = Reverse(p) /\ Len(u) = n + m
                            /\ \A i \in 1 .. n + m : u[i] = p[(n + m) - i + 1]
    <2>1. PICK u \in Seq(S) : u = Reverse(p)
      BY Reversed
    <2>2. Len(Reverse(p)) = Len(p) /\ \A i \in 1 .. Len(p) : Reverse(p)[i] = p[Len(p) - i + 1]
      BY Reversed
    <2> QED
      BY <1>4, <2>1, <2>2, ZenonT(40)
  <1>7. ASSUME NEW i \in 1 .. n + m PROVE u[i] = q[i]
    <2>1. PICK j \in 1 .. n + m : j = (n + m) - i + 1
      OBVIOUS
    <2>2. u[i] = p[j]
      BY <1>6, <2>1
    <2>3. CASE i <= m
      <3>1. ~ j <= n /\ j - n = m - i + 1 /\ i \in 1 .. m
        BY <2>1, <2>3
      <3>2. p[j] = s[j - n]
        BY <1>4, <3>1
      <3>3. q[i] = r[i] /\ r[i] = s[m - i + 1]
        BY <1>3, <1>5, <2>3, <3>1
      <3> QED
        BY <2>2, <3>1, <3>2, <3>3
    <2>4. CASE ~ i <= m
      <3>1. j <= n /\ j \in 1 .. n /\ n - j + 1 = i - m /\ i \in 1 .. m + n
        BY <2>1, <2>4
      <3>2. p[j] = b[j] /\ b[j] = a[n - j + 1]
        BY <1>2, <1>4, <3>1
      <3>3. q[i] = a[i - m]
        BY <1>5, <2>4, <3>1
      <3> QED
        BY <2>2, <3>1, <3>2, <3>3
    <2> QED
      BY <2>3, <2>4
  <1>8. u = q
    <2>1. Len(u) = Len(q) /\ \A i \in 1 .. Len(u) : u[i] = q[i]
      BY <1>5, <1>6, <1>7
    <2> QED
      BY <2>1, SeqEqual
  <1> QED
    BY <1>2, <1>3, <1>4, <1>5, <1>6, <1>8

LEMMA ReverseOne ==
  ASSUME NEW S, NEW s \in Seq(S), NEW e \in S
  PROVE  <<e>> \o s \in Seq(S) /\ Reverse(<<e>> \o s) = Append(Reverse(s), e)
  <1>1. PICK a \in Seq(S) : a = <<e>>
    <2>1. <<e>> \in Seq(S)
      OBVIOUS
    <2> QED
      BY <2>1
  <1>2. Reverse(a) = a
    <2>1. Len(a) = 1
      BY <1>1
    <2>2. PICK b \in Seq(S) : b = Reverse(a)
      BY Reversed
    <2>3. Len(b) = 1 /\ b[1] = a[1]
      BY <2>1, <2>2, Reversed
    <2>4. a = b
      BY <2>1, <2>3, SeqEqual
    <2> QED
      BY <2>2, <2>4
  <1>3. Reverse(Reverse(a) \o s) = Reverse(s) \o a
    BY ReverseOnto
  <1>4. Reverse(s) \o <<e>> = Append(Reverse(s), e)
    BY Reversed, AppendIsConcat
  <1> QED
    BY <1>1, <1>2, <1>3, <1>4, ConcatProperties

-----------------------------------------------------------------------------
(***************************************************************************)
(* Feeding a text                                                          *)
(***************************************************************************)
Signs == Chars \cup {Break}
Stopping == isifs \cup {Break}
State == [buf : Seq(Signs) \cup {NoBuffer}, val : Seq(Seq(Signs))]

LEMMA RealBuffer ==
  ASSUME NEW r \in Seq(Signs)
  PROVE  r # NoBuffer
  <1>1. SUFFICES ASSUME r = <<"NULL">> PROVE FALSE
    BY DEF NoBuffer
  <1>2. Len(r) = 1 /\ r[1] = "NULL"
    BY <1>1
  <1>3. 1 \in 1 .. Len(r)
    BY <1>2
  <1>4. "NULL" \in Signs
    BY <1>2, <1>3, ElementOfSeq
  <1> QED
    BY <1>4, SplittingAssumption DEF Signs, Break

LEMMA AState ==
  ASSUME NEW b \in Seq(Signs) \cup {NoBuffer}, NEW v \in Seq(Seq(Signs))
  PROVE  /\ [buf |-> b, val |-> v] \in State
         /\ [buf |-> b, val |-> v].buf = b /\ [buf |-> b, val |-> v].val = v
  BY DEF State

\* What is left open after a text, and the words it has made.
Left(t, X, co) == IF co /\ Begun(t, X) = <<>> THEN NoBuffer ELSE Begun(t, X)
Made(t, X, co) == IF co THEN Without(Ended(t, X), {<<>>}) ELSE Ended(t, X)

Agrees(st, t) ==
  /\ st \in State
  /\ st.buf = Left(t, Stopping, coalesce)
  /\ Reverse(st.val) = Made(t, Stopping, coalesce)

LEMMA MadeTyped ==
  ASSUME NEW t \in Seq(Signs), NEW co \in BOOLEAN
  PROVE  Made(t, Stopping, co) \in Seq(Seq(Signs)) /\ Left(t, Stopping, co) \in Seq(Signs) \cup {NoBuffer}
  <1>1. Ended(t, Stopping) \in Seq(Seq(Signs)) /\ Begun(t, Stopping) \in Seq(Signs)
    BY PiecesTyped
  <1>2. PICK Z : Z = {<<>>}
    OBVIOUS
  <1>3. Without(Ended(t, Stopping), Z) \in Seq(Seq(Signs))
    <2>1. <<>> \in Seq(Signs)
      BY EmptySeq
    <2> QED
      BY <1>1, <2>1, WithoutOneMore
  <1> QED
    BY <1>1, <1>2, <1>3 DEF Made, Left

LEMMA MadeAtStop ==
  ASSUME NEW t \in Seq(Signs), NEW co \in BOOLEAN, NEW c \in Signs, c \in Stopping
  PROVE  /\ Left(Append(t, c), Stopping, co) = IF co THEN NoBuffer ELSE <<>>
         /\ Made(Append(t, c), Stopping, co) = IF co /\ Begun(t, Stopping) = <<>> THEN Made(t, Stopping, co)
                                     ELSE Append(Made(t, Stopping, co), Begun(t, Stopping))
  <1>1. PICK e \in Seq(Seq(Signs)), b \in Seq(Signs) : e = Ended(t, Stopping) /\ b = Begun(t, Stopping)
    BY PiecesTyped
  <1>2. Ended(Append(t, c), Stopping) = Append(e, b) /\ Begun(Append(t, c), Stopping) = <<>>
    BY <1>1, OneStopMore
  <1>3. PICK Z : Z = {<<>>}
    OBVIOUS
  <1>4. Without(Append(e, b), Z) = IF b \in Z THEN Without(e, Z) ELSE Append(Without(e, Z), b)
    BY WithoutOneMore
  <1> QED
    BY <1>1, <1>2, <1>3, <1>4 DEF Made, Left

LEMMA MadeAtLetter ==
  ASSUME NEW t \in Seq(Signs), NEW co \in BOOLEAN, NEW c \in Signs, c \notin Stopping
  PROVE  /\ Left(Append(t, c), Stopping, co) = Append(Begun(t, Stopping), c)
         /\ Made(Append(t, c), Stopping, co) = Made(t, Stopping, co)
  <1>1. /\ Ended(Append(t, c), Stopping) = Ended(t, Stopping)
        /\ Begun(Append(t, c), Stopping) = Append(Begun(t, Stopping), c)
    BY OneLetterMore
  <1>2. Begun(t, Stopping) \in Seq(Signs)
    BY PiecesTyped
  <1>3. Append(Begun(t, Stopping), c) # <<>>
    BY <1>2, Longer
  <1> QED
    BY <1>1, <1>3 DEF Made, Left

\* A character is fed as the text says.
LEMMA FedAgrees ==
  ASSUME coalesce \in BOOLEAN, NEW t \in Seq(Signs), NEW st, Agrees(st, t), NEW c \in Chars
  PROVE  Agrees(Fed(st, c), Append(t, c))
  <1>1. PICK b \in Seq(Signs) : b = Begun(t, Stopping) /\ b # NoBuffer
    BY PiecesTyped, RealBuffer
  <1>2. /\ st \in State /\ st.buf = (IF coalesce /\ b = <<>> THEN NoBuffer ELSE b)
        /\ Reverse(st.val) = Made(t, Stopping, coalesce)
    BY <1>1 DEF Agrees, Left
  <1>3. c \in Signs /\ (c \in Stopping <=> c \in isifs)
    BY SplittingAssumption DEF Signs, Stopping
  <1>4. PICK buf \in Seq(Signs) \cup {NoBuffer}, val \in Seq(Seq(Signs)) :
          st = [buf |-> buf, val |-> val] /\ st.buf = buf /\ st.val = val
    BY <1>2 DEF State
  <1>5. CASE c \in isifs
    <2>1. /\ Left(Append(t, c), Stopping, coalesce) = IF coalesce THEN NoBuffer ELSE <<>>
          /\ Made(Append(t, c), Stopping, coalesce) = IF coalesce /\ b = <<>> THEN Made(t, Stopping, coalesce)
                                            ELSE Append(Made(t, Stopping, coalesce), b)
      BY <1>1, <1>3, <1>5, MadeAtStop
    <2>2. CASE coalesce /\ b = <<>>
      <3>1. Fed(st, c) = st
        BY <1>2, <1>5, <2>2 DEF Fed
      <3> QED
        BY <1>2, <2>1, <2>2, <3>1 DEF Agrees
    <2>3. CASE ~(coalesce /\ b = <<>>)
      <3>1. buf = b
        BY <1>2, <1>4, <2>3
      <3>2. <<b>> \o val \in Seq(Seq(Signs)) /\ Reverse(<<b>> \o val) = Append(Reverse(val), b)
        BY ReverseOne
      <3>3. PICK more \in Seq(Seq(Signs)) : more = <<b>> \o val
        BY <3>2
      <3>4. PICK rest \in Seq(Signs) \cup {NoBuffer} : rest = IF coalesce THEN NoBuffer ELSE <<>>
        BY EmptySeq
      <3>5. Fed(st, c) = [buf |-> rest, val |-> more]
        BY <1>1, <1>4, <1>5, <3>1, <3>3, <3>4 DEF Fed
      <3>6. PICK new \in State : new = [buf |-> rest, val |-> more] /\ new.buf = rest /\ new.val = more
        BY AState, Zenon
      <3> QED
        BY <1>2, <1>4, <2>1, <2>3, <3>2, <3>3, <3>4, <3>5, <3>6 DEF Agrees
    <2> QED
      BY <2>2, <2>3
  <1>6. CASE c \notin isifs
    <2>1. /\ Left(Append(t, c), Stopping, coalesce) = Append(b, c)
          /\ Made(Append(t, c), Stopping, coalesce) = Made(t, Stopping, coalesce)
      BY <1>1, <1>3, <1>6, MadeAtLetter
    <2>2. PICK rest \in Seq(Signs) : rest = Append(b, c)
      BY <1>3, AppendProperties
    <2>3. PICK new \in State : new = [buf |-> rest, val |-> val] /\ new.buf = rest /\ new.val = val
      <3>1. rest \in Seq(Signs) \cup {NoBuffer}
        OBVIOUS
      <3> QED
        BY <3>1, AState, Zenon
    <2>4. Fed(st, c) = [buf |-> rest, val |-> val]
      <3>1. CASE coalesce /\ b = <<>>
        <4>1. buf = NoBuffer /\ <<c>> = Append(b, c)
          BY <1>2, <1>4, <3>1
        <4> QED
          BY <1>4, <1>6, <2>2, <4>1 DEF Fed
      <3>2. CASE ~(coalesce /\ b = <<>>)
        <4>1. buf = b
          BY <1>2, <1>4, <3>2
        <4> QED
          BY <1>1, <1>4, <1>6, <2>2, <4>1 DEF Fed
      <3> QED
        BY <3>1, <3>2
    <2> QED
      BY <1>2, <1>4, <2>1, <2>2, <2>3, <2>4 DEF Agrees
  <1> QED
    BY <1>5, <1>6

LEMMA SealAgrees ==
  ASSUME coalesce \in BOOLEAN, NEW t \in Seq(Signs), NEW st, Agrees(st, t)
  PROVE  /\ Seal(st) \in State /\ Seal(st).buf = NoBuffer
         /\ Reverse(Seal(st).val)
              = IF coalesce /\ Begun(t, Stopping) = <<>> THEN Made(t, Stopping, coalesce)
                ELSE Append(Made(t, Stopping, coalesce), Begun(t, Stopping))
  <1>1. PICK b \in Seq(Signs) : b = Begun(t, Stopping) /\ b # NoBuffer
    BY PiecesTyped, RealBuffer
  <1>2. /\ st \in State /\ st.buf = (IF coalesce /\ b = <<>> THEN NoBuffer ELSE b)
        /\ Reverse(st.val) = Made(t, Stopping, coalesce)
    BY <1>1 DEF Agrees, Left
  <1>3. PICK buf \in Seq(Signs) \cup {NoBuffer}, val \in Seq(Seq(Signs)) :
          st = [buf |-> buf, val |-> val] /\ st.buf = buf /\ st.val = val
    BY <1>2 DEF State
  <1>4. CASE coalesce /\ b = <<>>
    BY <1>1, <1>2, <1>4 DEF Seal
  <1>5. CASE ~(coalesce /\ b = <<>>)
    <2>1. buf = b
      BY <1>2, <1>3, <1>5
    <2>2. <<b>> \o val \in Seq(Seq(Signs)) /\ Reverse(<<b>> \o val) = Append(Reverse(val), b)
      BY ReverseOne
    <2>3. PICK more \in Seq(Seq(Signs)) : more = <<b>> \o val
      BY <2>2
    <2>4. PICK new \in State : new = [buf |-> NoBuffer, val |-> more] /\ new.buf = NoBuffer /\ new.val = more
      <3>1. NoBuffer \in Seq(Signs) \cup {NoBuffer}
        OBVIOUS
      <3> QED
        BY <3>1, AState, Zenon
    <2>5. Seal(st) = new
      BY <1>1, <1>3, <2>1, <2>3, <2>4 DEF Seal
    <2> QED
      BY <1>1, <1>2, <1>3, <1>5, <2>2, <2>3, <2>4, <2>5
  <1> QED
    BY <1>4, <1>5

\* Feeds(f, in): f is what splitstring makes of the first characters of in.
Opened == [buf |-> IF ~coalesce /\ buffer = NoBuffer THEN <<>> ELSE buffer, val |-> value]
Feeding(f, in) == [i \in 0 .. Len(in) |-> IF i = 0 THEN Opened ELSE Fed(f[i - 1], in[i])]
Feeds(f, in) == f = Feeding(f, in)

LEMMA FedTyped ==
  ASSUME coalesce \in BOOLEAN, NEW st \in State, NEW c \in Chars
  PROVE  Fed(st, c) \in State
  <1>1. PICK b \in Seq(Signs) \cup {NoBuffer}, v \in Seq(Seq(Signs)) :
          st = [buf |-> b, val |-> v] /\ st.buf = b /\ st.val = v
    BY DEF State
  <1>2. c \in Signs
    BY DEF Signs
  <1>3. CASE b # NoBuffer /\ c \in isifs
    <2>1. PICK more \in Seq(Seq(Signs)) : more = <<b>> \o v
      BY <1>3, ReverseOne
    <2>2. PICK rest \in Seq(Signs) \cup {NoBuffer} : rest = IF coalesce THEN NoBuffer ELSE <<>>
      BY EmptySeq
    <2>3. Fed(st, c) = [buf |-> rest, val |-> more]
      BY <1>1, <1>3, <2>1, <2>2 DEF Fed
    <2> QED
      BY <2>3, AState
  <1>4. CASE b # NoBuffer /\ c \notin isifs
    <2>1. PICK rest \in Seq(Signs) \cup {NoBuffer} : rest = Append(b, c)
      BY <1>2, <1>4, AppendProperties
    <2>2. Fed(st, c) = [buf |-> rest, val |-> v]
      BY <1>1, <1>4, <2>1 DEF Fed
    <2> QED
      BY <2>2, AState
  <1>5. CASE b = NoBuffer /\ c \notin isifs
    <2>1. PICK rest \in Seq(Signs) \cup {NoBuffer} : rest = <<c>>
      <3>1. <<c>> \in Seq(Signs)
        BY <1>2
      <3> QED
        BY <3>1
    <2>2. Fed(st, c) = [buf |-> rest, val |-> v]
      BY <1>1, <1>5, <2>1 DEF Fed
    <2> QED
      BY <2>2, AState
  <1>6. CASE b = NoBuffer /\ c \in isifs
    BY <1>1, <1>6 DEF Fed
  <1> QED
    BY <1>3, <1>4, <1>5, <1>6

LEMMA FeedIs ==
  ASSUME coalesce \in BOOLEAN, Opened \in State, NEW in \in Seq(Chars), NEW endword
  PROVE  \E f : /\ Feeds(f, in)
                /\ splitstring(in, endword) /\ ~splitchars =>
                     LET done == IF endword THEN Seal(f[Len(in)]) ELSE f[Len(in)]
                     IN  buffer' = done.buf /\ value' = done.val
  <1> DEFINE g == [i \in 1 .. Len(in) |-> [st \in State |-> Fed(st, in[i])]]
  <1>1. PICK n \in Nat : n = Len(in)
    OBVIOUS
  <1>2. PICK h \in [1 .. n -> [State -> State]] : h = g
    <2>1. ASSUME NEW i \in 1 .. n, NEW st \in State PROVE Fed(st, in[i]) \in State
      <3>1. in[i] \in Chars
        BY <1>1
      <3> QED
        BY <3>1, FedTyped
    <2>2. g \in [1 .. n -> [State -> State]]
      BY <1>1, <2>1
    <2> QED
      BY <2>2, Zenon
  <1>3. PICK f \in [0 .. n -> State] : f = Steps(f, Opened, h, n)
    <2>1. StepFunctions(h, n, State)
      BY DEF StepFunctions
    <2>2. PICK f : Stepped(f, Opened, h, n, State)
      BY <2>1, StepsMade
    <2> QED
      BY <2>2 DEF Stepped
  <1>4. f = Feeding(f, in)
    <2>1. ASSUME NEW i \in 0 .. n PROVE f[i] = Feeding(f, in)[i]
      <3>1. CASE i = 0
        BY <1>1, <1>3, <3>1 DEF Steps, Feeding
      <3>2. CASE i # 0
        <4>1. i \in 1 .. n /\ i - 1 \in 0 .. n
          BY <3>2
        <4>2. f[i - 1] \in State
          BY <1>3, <4>1
        <4>3. f[i] = h[i][f[i - 1]]
          BY <1>3, <3>2 DEF Steps
        <4>4. f[i] = Fed(f[i - 1], in[i])
          BY <1>1, <1>2, <4>1, <4>2, <4>3
        <4> QED
          BY <1>1, <3>2, <4>4 DEF Feeding
      <3> QED
        BY <3>1, <3>2
    <2>2. f = [i \in 0 .. n |-> f[i]] /\ Feeding(f, in) = [i \in 0 .. n |-> Feeding(f, in)[i]]
      BY <1>1, <1>3 DEF Feeding
    <2> QED
      BY <2>1, <2>2, Zenon
  <1>5. PICK k : k = (CHOOSE e : e = Feeding(e, in)) /\ k = Feeding(k, in)
    BY <1>4, Zenon
  <1>6. ASSUME splitstring(in, endword), ~splitchars
        PROVE  LET done == IF endword THEN Seal(k[Len(in)]) ELSE k[Len(in)]
               IN  buffer' = done.buf /\ value' = done.val
    BY <1>5, <1>6 DEF splitstring, Feeding, Opened
  <1> QED
    BY <1>5, <1>6, Zenon DEF Feeds

LEMMA OneCharacterMore ==
  ASSUME NEW S, NEW t \in Seq(S), NEW in \in Seq(S), NEW i \in 1 .. Len(in)
  PROVE  /\ t \o SubSeq(in, 1, i - 1) \in Seq(S)
         /\ t \o SubSeq(in, 1, i) = Append(t \o SubSeq(in, 1, i - 1), in[i])
  <1>1. SubSeq(in, 1, i) = SubSeq(in, 1, i - 1) \o <<in[i]>>
    <2>1. 1 \in 1 .. Len(in) /\ i \in 1 .. Len(in)
      OBVIOUS
    <2> QED
      BY <2>1, SubSeqRecursiveSecond
  <1>2. PICK b \in Seq(S) : b = SubSeq(in, 1, i - 1)
    <2>1. PICK k \in Nat : k = i - 1 /\ k <= Len(in)
      OBVIOUS
    <2>2. 1 \in Int /\ k \in Int /\ \A l \in 1 .. k : in[l] \in S
      BY <2>1
    <2>3. SubSeq(in, 1, k) \in Seq(S)
      BY <2>2, SubSeqProperties
    <2> QED
      BY <2>1, <2>3
  <1>3. in[i] \in S
    OBVIOUS
  <1>4. PICK a \in Seq(S) : a = <<in[i]>>
    <2>1. <<in[i]>> \in Seq(S)
      BY <1>3
    <2> QED
      BY <2>1
  <1>5. (t \o b) \o a = t \o (b \o a)
    BY ConcatAssociative
  <1>6. t \o b \in Seq(S)
    BY ConcatProperties
  <1>7. (t \o b) \o <<in[i]>> = Append(t \o b, in[i])
    BY <1>3, <1>6, AppendIsConcat
  <1> QED
    BY <1>1, <1>2, <1>4, <1>5, <1>6, <1>7

\* Feeding a chunk is feeding its characters.
LEMMA FedAll ==
  ASSUME coalesce \in BOOLEAN, NEW t \in Seq(Signs), Agrees(Opened, t),
         NEW in \in Seq(Chars), NEW f, Feeds(f, in)
  PROVE  Agrees(f[Len(in)], t \o in)
  <1> DEFINE G == {i \in Nat : i <= Len(in) => Agrees(f[i], t \o SubSeq(in, 1, i))}
  <1>1. in \in Seq(Signs)
    <2>1. Chars \subseteq Signs
      BY DEF Signs
    <2> QED
      BY <2>1, SeqMonotonic
  <1>2. ASSUME NEW i \in Nat, \A m \in 0 .. i - 1 : m \in G, i <= Len(in)
        PROVE  Agrees(f[i], t \o SubSeq(in, 1, i))
    <2>1. CASE i = 0
      <3>1. f[0] = Opened
        BY DEF Feeds, Feeding
      <3>2. SubSeq(in, 1, 0) = <<>> /\ t \o <<>> = t
        BY SubSeqEmpty, ConcatEmptySeq
      <3> QED
        BY <2>1, <3>1, <3>2
    <2>2. CASE i # 0
      <3>1. i \in 1 .. Len(in) /\ i - 1 \in 0 .. i - 1 /\ i - 1 <= Len(in) /\ i \in 0 .. Len(in)
        BY <1>2, <2>2
      <3>2. f[i] = Fed(f[i - 1], in[i]) /\ in[i] \in Chars
        BY <2>2, <3>1 DEF Feeds, Feeding
      <3>3. Agrees(f[i - 1], t \o SubSeq(in, 1, i - 1))
        BY <1>2, <3>1
      <3>4. /\ t \o SubSeq(in, 1, i - 1) \in Seq(Signs)
            /\ t \o SubSeq(in, 1, i) = Append(t \o SubSeq(in, 1, i - 1), in[i])
        BY <1>1, <3>1, OneCharacterMore
      <3>5. Agrees(Fed(f[i - 1], in[i]), Append(t \o SubSeq(in, 1, i - 1), in[i]))
        BY <3>2, <3>3, <3>4, FedAgrees
      <3> QED
        BY <3>2, <3>4, <3>5
    <2> QED
      BY <2>1, <2>2
  <1>3. Nat \subseteq G
    BY <1>2, AllNumbers
  <1>4. SubSeq(in, 1, Len(in)) = in
    BY SubSeqFull
  <1>5. PICK n \in Nat : n = Len(in)
    OBVIOUS
  <1>6. Agrees(f[n], t \o SubSeq(in, 1, n))
    <2>1. n \in G /\ n <= Len(in)
      BY <1>3, <1>5
    <2> QED
      BY <2>1
  <1> QED
    BY <1>4, <1>5, <1>6, Zenon

\* A list of words of one character each.
Single(letters) == [k \in DOMAIN letters |-> <<letters[k]>>]

LEMMA SingleTyped ==
  ASSUME NEW S, NEW s \in Seq(S)
  PROVE  Single(s) \in Seq(Seq(S)) /\ Len(Single(s)) = Len(s)
         /\ \A k \in 1 .. Len(s) : Single(s)[k] = <<s[k]>>
  <1>1. PICK n \in Nat : n = Len(s) /\ DOMAIN s = 1 .. n
    OBVIOUS
  <1>2. PICK p : p = Single(s)
    OBVIOUS
  <1>3. p = [k \in 1 .. n |-> <<s[k]>>]
    BY <1>1, <1>2 DEF Single
  <1>4. ASSUME NEW k \in 1 .. n PROVE <<s[k]>> \in Seq(S)
    <2>1. s[k] \in S
      BY <1>1
    <2> QED
      BY <2>1
  <1>5. p \in [1 .. n -> Seq(S)]
    BY <1>3, <1>4
  <1>6. p \in Seq(Seq(S)) /\ Len(p) = n
    BY <1>5
  <1> QED
    BY <1>1, <1>2, <1>3, <1>6

LEMMA SingleConcat ==
  ASSUME NEW S, NEW s \in Seq(S), NEW u \in Seq(S)
  PROVE  Single(s \o u) = Single(s) \o Single(u)
  <1>1. PICK n \in Nat, m \in Nat : n = Len(s) /\ m = Len(u)
    OBVIOUS
  <1>2. PICK w \in Seq(S) : w = s \o u
    BY ConcatProperties
  <1>3. Len(w) = n + m /\ \A i \in 1 .. n + m : w[i] = IF i <= n THEN s[i] ELSE u[i - n]
    BY <1>1, <1>2, ConcatProperties
  <1>4. PICK p \in Seq(Seq(S)) : p = Single(w)
    BY SingleTyped
  <1>5. Len(p) = n + m /\ \A i \in 1 .. n + m : p[i] = <<w[i]>>
    <2>1. Len(Single(w)) = Len(w) /\ \A k \in 1 .. Len(w) : Single(w)[k] = <<w[k]>>
      BY SingleTyped
    <2> QED
      BY <1>3, <1>4, <2>1
  <1>6. PICK a \in Seq(Seq(S)), b \in Seq(Seq(S)) : a = Single(s) /\ b = Single(u)
    BY SingleTyped
  <1>7. Len(a) = n /\ \A k \in 1 .. n : a[k] = <<s[k]>>
    BY <1>1, <1>6, SingleTyped
  <1>8. Len(b) = m /\ \A k \in 1 .. m : b[k] = <<u[k]>>
    BY <1>1, <1>6, SingleTyped
  <1>9. PICK q \in Seq(Seq(S)) : q = a \o b
    BY ConcatProperties
  <1>10. Len(q) = n + m /\ \A i \in 1 .. n + m : q[i] = IF i <= n THEN a[i] ELSE b[i - n]
    BY <1>7, <1>8, <1>9, ConcatProperties
  <1>11. ASSUME NEW i \in 1 .. n + m PROVE p[i] = q[i]
    <2>1. CASE i <= n
      <3>1. i \in 1 .. n
        BY <2>1
      <3> QED
        BY <1>3, <1>5, <1>7, <1>10, <2>1, <3>1
    <2>2. CASE ~ i <= n
      <3>1. i - n \in 1 .. m
        BY <2>2
      <3> QED
        BY <1>3, <1>5, <1>8, <1>10, <2>2, <3>1
    <2> QED
      BY <2>1, <2>2
  <1>12. p = q
    BY <1>5, <1>10, <1>11, SeqEqual
  <1> QED
    BY <1>2, <1>4, <1>6, <1>9, <1>12

LEMMA WithoutConcat ==
  ASSUME NEW S, NEW X, NEW s \in Seq(S), NEW D, NEW v \in Seq(D), \A d \in D : d \in S /\ d \notin X
  PROVE  s \o v \in Seq(S) /\ Without(s \o v, X) = Without(s, X) \o v
  <1> DEFINE G == {u \in Seq(D) : Without(s \o u, X) = Without(s, X) \o u}
  <1>1. Without(s, X) \in Seq(S)
    <2>1. CASE s = <<>>
      BY <2>1, WithoutNothing
    <2>2. CASE s # <<>>
      <3>1. PICK u \in Seq(S), c \in S : s = Append(u, c)
        BY <2>2, SequenceEmptyOrAppend
      <3> QED
        BY <3>1, WithoutOneMore
    <2> QED
      BY <2>1, <2>2
  <1>2. <<>> \in G
    <2>1. <<>> \in Seq(D) /\ s \o <<>> = s /\ Without(s, X) \o <<>> = Without(s, X)
      BY <1>1, EmptySeq, ConcatEmptySeq
    <2> QED
      BY <2>1
  <1>3. ASSUME NEW u \in Seq(D), NEW c \in D, u \in G PROVE Append(u, c) \in G
    <2>1. c \in S /\ c \notin X /\ u \in Seq(S)
      BY SeqMonotonic
    <2>2. PICK k \in Seq(S) : k = Without(s, X)
      BY <1>1
    <2>3. PICK a \in Seq(S) : a = <<c>>
      <3>1. <<c>> \in Seq(S)
        BY <2>1
      <3> QED
        BY <3>1
    <2>4. Append(u, c) = u \o a /\ Append(s \o u, c) = (s \o u) \o a /\ Append(k \o u, c) = (k \o u) \o a
      <3>1. s \o u \in Seq(S) /\ k \o u \in Seq(S)
        BY <2>1, ConcatProperties
      <3> QED
        BY <2>1, <2>3, <3>1, AppendIsConcat
    <2>5. (s \o u) \o a = s \o (u \o a) /\ (k \o u) \o a = k \o (u \o a)
      <3>1. (s \o u) \o a = s \o (u \o a)
        BY <2>1, ConcatAssociative
      <3>2. (k \o u) \o a = k \o (u \o a)
        BY <2>1, ConcatAssociative
      <3> QED
        BY <3>1, <3>2
    <2>6. Without(Append(s \o u, c), X) = Append(Without(s \o u, X), c)
      <3>1. PICK r \in Seq(S) : r = s \o u
        BY <2>1, ConcatProperties
      <3>2. Without(Append(r, c), X) = Append(Without(r, X), c)
        BY <2>1, WithoutOneMore
      <3> QED
        BY <3>1, <3>2
    <2>7. Append(u, c) \in Seq(D)
      BY AppendProperties
    <2> QED
      BY <1>3, <2>2, <2>4, <2>5, <2>6, <2>7
  <1>4. Seq(D) \subseteq G
    <2> HIDE DEF G
    <2> QED
      BY <1>2, <1>3, AllSequences
  <1>5. v \in Seq(S)
    BY SeqMonotonic
  <1> QED
    BY <1>4, <1>5, ConcatProperties

-----------------------------------------------------------------------------
(***************************************************************************)
(* What holds between the calls                                            *)
(***************************************************************************)
StopsOf(j) == CharsOf(j.sep) \cup {EOS}
Within(j) == StopsOf(j) \cup {Break}
AtBreak(t) == t = <<>> \/ t[Len(t)] = Break

TaskType == [active : BOOLEAN, sep : Seps \cup {<<>>}, coalesce : BOOLEAN, stream : BOOLEAN,
             text : Seq(Signs)]

\* The words that the text so far has made, and the one that it has begun.
Progress(j, b, v) ==
  IF ~j.coalesce /\ j.sep = <<>>
  THEN b = NoBuffer /\ Reverse(v) = Single(Without(j.text, {Break}))
  ELSE b = Left(j.text, Within(j), TRUE) /\ Reverse(v) = Made(j.text, Within(j), j.coalesce)

\* Only whole words are fed to a split that keeps empty ones.
Underway(j) ==
  /\ j.stream => j.coalesce
  /\ ~j.stream => AtBreak(j.text)

SplitIInv ==
  /\ task \in TaskType /\ coalesce \in BOOLEAN
  /\ buffer \in Seq(Signs) \cup {NoBuffer} /\ value \in Seq(Seq(Signs))
  /\ ifsvalid => isifs = CharsOf(ifs) \cup {EOS}
  /\ task.active => /\ words = NoWords
                    /\ isifs = StopsOf(task) /\ coalesce = task.coalesce
                    /\ splitchars = (~task.coalesce /\ task.sep = <<>>)
                    /\ Underway(task) /\ Progress(task, buffer, value)
  /\ ~task.active => words = NoWords \/ words = Promised(task)

LEMMA NothingYet ==
  ASSUME NEW j \in TaskType, j.text = <<>>
  PROVE  Underway(j) => Progress(j, NoBuffer, <<>>)
  <1>1. Reverse(<<>>) = <<>>
    <2>1. <<>> \in Seq({}) /\ Len(<<>>) = 0
      BY EmptySeq
    <2>2. Reverse(<<>>) \in Seq({}) /\ Len(Reverse(<<>>)) = 0
      BY <2>1, Reversed
    <2> QED
      BY <2>2, EmptySeq
  <1>2. Without(<<>>, {Break}) = <<>> /\ Without(<<>>, {<<>>}) = <<>>
    BY WithoutNothing
  <1>3. Single(<<>>) = <<>>
    BY DEF Single
  <1>4. PICK X : X = Within(j)
    OBVIOUS
  <1>5. Left(<<>>, X, TRUE) = NoBuffer /\ Made(<<>>, X, j.coalesce) = <<>>
    BY <1>2, NothingBegun DEF Left, Made
  <1> QED
    BY <1>1, <1>2, <1>3, <1>4, <1>5 DEF Progress

LEMMA SplitInitIs == SplitInit => SplitIInv
  <1>1. SUFFICES ASSUME SplitInit PROVE SplitIInv
    OBVIOUS
  <1>2. Idle \in TaskType
    <2>1. <<>> \in Seq(Signs)
      BY EmptySeq
    <2> QED
      BY <2>1 DEF Idle, TaskType
  <1>3. <<>> \in Seq(Seq(Signs))
    BY EmptySeq
  <1>4. Idle.active = FALSE
    BY DEF Idle
  <1> QED
    BY <1>1, <1>2, <1>3, <1>4 DEF SplitInit, SplitIInv

LEMMA StartIs ==
  ASSUME SplitIInv, NEW sep \in Seps, NEW c \in BOOLEAN, NEW stream \in BOOLEAN,
         StartSplit(sep, c, stream)
  PROVE  SplitIInv'
  <1>1. PICK j \in TaskType : /\ j = task' /\ j.active /\ j.sep = sep /\ j.coalesce = c
                              /\ j.stream = stream /\ j.text = <<>>
    <2>1. <<>> \in Seq(Signs)
      BY EmptySeq
    <2>2. PICK k : k = [active |-> TRUE, sep |-> sep, coalesce |-> c, stream |-> stream, text |-> <<>>]
      OBVIOUS
    <2>3. k \in TaskType /\ k.active /\ k.sep = sep /\ k.coalesce = c /\ k.stream = stream /\ k.text = <<>>
      BY <2>1, <2>2 DEF TaskType
    <2> QED
      BY <2>2, <2>3 DEF StartSplit
  <1>2. Underway(j) /\ Progress(j, NoBuffer, <<>>)
    <2>1. Underway(j)
      BY <1>1 DEF StartSplit, Underway, AtBreak
    <2> QED
      BY <1>1, <2>1, NothingYet
  <1>3. /\ value' = <<>> /\ buffer' = NoBuffer /\ coalesce' = c /\ splitchars' = (~c /\ sep = <<>>)
        /\ words' = NoWords
    BY DEF StartSplit, startsplit
  <1>4. isifs' = StopsOf(j) /\ (ifsvalid' => isifs' = CharsOf(ifs') \cup {EOS})
    <2>1. CASE ifsvalid /\ ifs = sep
      BY <1>1, <2>1 DEF StartSplit, startsplit, cache, StopsOf, SplitIInv
    <2>2. CASE ~(ifsvalid /\ ifs = sep)
      BY <1>1, <2>2 DEF StartSplit, startsplit, StopsOf
    <2> QED
      BY <2>1, <2>2
  <1>5. <<>> \in Seq(Seq(Signs))
    BY EmptySeq
  <1> QED
    BY <1>1, <1>2, <1>3, <1>4, <1>5 DEF SplitIInv

\* What a split has made agrees with the text it was fed.
LEMMA Agreed ==
  ASSUME SplitIInv, task.active, ~splitchars
  PROVE  /\ Agrees(Opened, task.text) /\ Opened \in State
         /\ ~task.stream => Begun(task.text, Stopping) = <<>>
  <1>1. task.text \in Seq(Signs)
    BY DEF SplitIInv, TaskType
  <1>2. Within(task) = Stopping
    BY DEF SplitIInv, Within, Stopping
  <1>3. /\ buffer = Left(task.text, Stopping, TRUE)
        /\ Reverse(value) = Made(task.text, Stopping, coalesce)
    BY <1>2 DEF SplitIInv, Progress
  <1>4. AtBreak(task.text) => Begun(task.text, Stopping) = <<>>
    BY <1>1, PiecesAre DEF Stopping, AtBreak
  <1>5. PICK b \in Seq(Signs) : b = Begun(task.text, Stopping) /\ b # NoBuffer
    BY <1>1, PiecesTyped, RealBuffer
  <1>6. ~task.stream => b = <<>>
    BY <1>4, <1>5 DEF SplitIInv, Underway
  <1>7. PICK o \in Seq(Signs) \cup {NoBuffer} :
          o = (IF ~coalesce /\ buffer = NoBuffer THEN <<>> ELSE buffer)
    BY EmptySeq DEF SplitIInv
  <1>8. o = Left(task.text, Stopping, coalesce)
    <2>1. buffer = IF b = <<>> THEN NoBuffer ELSE b
      BY <1>3, <1>5 DEF Left
    <2>2. ~coalesce => b = <<>>
      BY <1>6 DEF SplitIInv, Underway
    <2> QED
      BY <1>5, <1>7, <2>1, <2>2 DEF Left, SplitIInv
  <1>9. value \in Seq(Seq(Signs))
    BY DEF SplitIInv
  <1>10. Opened = [buf |-> o, val |-> value]
    BY <1>7 DEF Opened
  <1>11. Opened \in State /\ Opened.buf = o /\ Opened.val = value
    BY <1>9, <1>10, AState
  <1> QED
    BY <1>3, <1>5, <1>6, <1>8, <1>11 DEF Agrees

LEMMA PromiseIs ==
  ASSUME NEW j \in TaskType, Underway(j), ~(~j.coalesce /\ j.sep = <<>>), NEW X, X = Within(j)
  PROVE  Promised(j) = IF j.coalesce /\ Begun(j.text, X) # <<>>
                       THEN Append(Made(j.text, X, TRUE), Begun(j.text, X))
                       ELSE Made(j.text, X, j.coalesce)
  <1>1. PICK t \in Seq(Signs) : t = j.text
    BY DEF TaskType
  <1>2. PICK pieces : pieces = PiecesOf(t, StopsOf(j))
    OBVIOUS
  <1>3. Promised(j) = IF j.coalesce THEN Without(pieces, {<<>>}) ELSE pieces
    BY <1>1, <1>2 DEF Promised, StopsOf
  <1>4. PICK b \in Seq(Signs), e \in Seq(Seq(Signs)) : b = Begun(t, X) /\ e = Ended(t, X)
    BY PiecesTyped
  <1>5. /\ AtBreak(t) => pieces = e /\ b = <<>>
        /\ ~AtBreak(t) => pieces = Append(e, b)
    BY <1>2, <1>4, PiecesAre DEF Within, AtBreak
  <1>6. Without(Append(e, b), {<<>>}) = IF b = <<>> THEN Without(e, {<<>>}) ELSE Append(Without(e, {<<>>}), b)
    <2>1. PICK Z : Z = {<<>>}
      OBVIOUS
    <2>2. Without(Append(e, b), Z) = IF b \in Z THEN Without(e, Z) ELSE Append(Without(e, Z), b)
      BY WithoutOneMore
    <2> QED
      BY <2>1, <2>2
  <1>7. j.coalesce \in BOOLEAN /\ j.stream \in BOOLEAN
    BY DEF TaskType
  <1>8. CASE j.coalesce
    <2>1. Promised(j) = IF b # <<>> THEN Append(Without(e, {<<>>}), b) ELSE Without(e, {<<>>})
      BY <1>3, <1>5, <1>6, <1>8
    <2> QED
      BY <1>1, <1>4, <1>8, <2>1 DEF Made
  <1>9. CASE ~j.coalesce
    <2>1. AtBreak(t)
      BY <1>1, <1>9 DEF Underway
    <2> QED
      BY <1>1, <1>3, <1>4, <1>5, <1>9, <2>1 DEF Made
  <1> QED
    BY <1>7, <1>8, <1>9

LEMMA EndIs ==
  ASSUME SplitIInv, EndSplit
  PROVE  SplitIInv'
  <1>1. task \in TaskType /\ task.active /\ Underway(task) /\ Progress(task, buffer, value)
    BY DEF SplitIInv, EndSplit
  <1>2. words' = Reverse(Seal([buf |-> buffer, val |-> value]).val) /\ buffer' = NoBuffer /\ value' = <<>>
    BY DEF EndSplit, endsplit
  <1>3. Reverse(Seal([buf |-> buffer, val |-> value]).val) = Promised(task)
    <2>1. CASE splitchars
      <3>1. ~task.coalesce /\ task.sep = <<>>
        BY <2>1 DEF SplitIInv, EndSplit
      <3>2. buffer = NoBuffer /\ Reverse(value) = Single(Without(task.text, {Break}))
        BY <1>1, <3>1 DEF Progress
      <3>3. Seal([buf |-> buffer, val |-> value]).val = value
        BY <3>2 DEF Seal
      <3> QED
        BY <3>1, <3>2, <3>3 DEF Promised, Single
    <2>2. CASE ~splitchars
      <3>1. ~(~task.coalesce /\ task.sep = <<>>)
        BY <1>1, <2>2 DEF SplitIInv
      <3>2. PICK X : X = Within(task)
        OBVIOUS
      <3>3. X = Stopping /\ coalesce = task.coalesce
        BY <1>1, <3>2 DEF SplitIInv, Within, Stopping
      <3>4. Promised(task) = IF task.coalesce /\ Begun(task.text, X) # <<>>
                             THEN Append(Made(task.text, X, TRUE), Begun(task.text, X))
                             ELSE Made(task.text, X, task.coalesce)
        <4>1. Promised(task) = IF task.coalesce /\ Begun(task.text, Within(task)) # <<>>
                               THEN Append(Made(task.text, Within(task), TRUE), Begun(task.text, Within(task)))
                               ELSE Made(task.text, Within(task), task.coalesce)
          BY <1>1, <3>1, PromiseIs
        <4> QED
          BY <3>2, <4>1
      <3>5. task.text \in Seq(Signs) /\ task.coalesce \in BOOLEAN /\ task.stream \in BOOLEAN
        BY <1>1 DEF TaskType
      <3>6. CASE task.coalesce
        <4>1. Agrees(Opened, task.text)
          BY <1>1, <2>2, Agreed
        <4>2. Opened = [buf |-> buffer, val |-> value]
          BY <3>3, <3>6 DEF Opened
        <4>3. coalesce \in BOOLEAN
          BY DEF SplitIInv
        <4>4. Reverse(Seal(Opened).val)
                = IF coalesce /\ Begun(task.text, Stopping) = <<>> THEN Made(task.text, Stopping, coalesce)
                  ELSE Append(Made(task.text, Stopping, coalesce), Begun(task.text, Stopping))
          BY <3>5, <4>1, <4>3, SealAgrees
        <4>5. coalesce = TRUE
          BY <3>3, <3>5, <3>6
        <4> QED
          BY <3>3, <3>4, <3>6, <4>2, <4>4, <4>5
      <3>7. CASE ~task.coalesce
        <4>1. Begun(task.text, Stopping) = <<>>
          BY <1>1, <2>2, <3>5, <3>7, Agreed DEF Underway
        <4>2. buffer = NoBuffer /\ Reverse(value) = Made(task.text, X, task.coalesce)
          BY <1>1, <3>1, <3>2, <3>3, <4>1 DEF Progress, Left
        <4>3. Seal([buf |-> buffer, val |-> value]).val = value
          BY <4>2 DEF Seal
        <4> QED
          BY <3>4, <3>7, <4>2, <4>3
      <3> QED
        BY <3>5, <3>6, <3>7
    <2> QED
      BY <2>1, <2>2
  <1>4. PICK j \in TaskType : j = task' /\ ~j.active /\ j.sep = task.sep /\ j.coalesce = task.coalesce
                              /\ j.text = task.text
    <2>1. PICK k : k = [task EXCEPT !.active = FALSE]
      OBVIOUS
    <2>2. k \in TaskType /\ ~k.active /\ k.sep = task.sep /\ k.coalesce = task.coalesce /\ k.text = task.text
      BY <1>1, <2>1 DEF TaskType
    <2> QED
      BY <2>1, <2>2 DEF EndSplit
  <1>5. Promised(j) = Promised(task)
    BY <1>4 DEF Promised
  <1>6. <<>> \in Seq(Seq(Signs))
    BY EmptySeq
  <1>7. UNCHANGED <<ifs, ifsvalid, isifs, coalesce, splitchars>>
    BY DEF EndSplit
  <1> QED
    BY <1>2, <1>3, <1>4, <1>5, <1>6, <1>7 DEF SplitIInv

LEMMA AbandonIs ==
  ASSUME SplitIInv, Abandon
  PROVE  SplitIInv'
  <1>1. Idle \in TaskType /\ Idle.active = FALSE
    <2>1. <<>> \in Seq(Signs)
      BY EmptySeq
    <2> QED
      BY <2>1 DEF Idle, TaskType
  <1> QED
    BY <1>1 DEF Abandon, SplitIInv

LEMMA FeedNextIs ==
  ASSUME SplitIInv, NEW in \in Chunks, Feed(in)
  PROVE  SplitIInv'
  <1>1. /\ task \in TaskType /\ task.active /\ Underway(task) /\ Progress(task, buffer, value)
        /\ isifs = StopsOf(task) /\ coalesce = task.coalesce /\ coalesce \in BOOLEAN
        /\ splitchars = (~task.coalesce /\ task.sep = <<>>) /\ words = NoWords
    BY DEF SplitIInv, Feed
  <1>2. PICK t \in Seq(Signs), stream \in BOOLEAN : t = task.text /\ stream = task.stream
    BY <1>1 DEF TaskType
  <1>3. in \in Seq(Chars) /\ in \in Seq(Signs) /\ Break \in Signs
    <2>1. Chars \subseteq Signs /\ Break \in Signs
      BY DEF Signs
    <2> QED
      BY <2>1, SplittingAssumption, SeqMonotonic
  <1>4. PICK fed \in Seq(Signs) : fed = t \o in
    BY <1>3, ConcatProperties
  <1>5. PICK more \in Seq(Signs) : more = IF stream THEN fed ELSE Append(fed, Break)
    BY <1>3, AppendProperties
  <1>6. PICK j \in TaskType : /\ j = task' /\ j.active /\ j.sep = task.sep
                              /\ j.coalesce = task.coalesce /\ j.stream = stream /\ j.text = more
    <2>1. PICK k : k = [task EXCEPT !.text = more]
      OBVIOUS
    <2>2. k \in TaskType /\ k.active /\ k.sep = task.sep
          /\ k.coalesce = task.coalesce /\ k.stream = stream /\ k.text = more
      BY <1>1, <1>2, <2>1 DEF TaskType
    <2>3. t \o in \o (IF task.stream THEN <<>> ELSE <<Break>>) = more
      <3>1. CASE stream
        BY <1>2, <1>4, <1>5, <3>1, ConcatEmptySeq
      <3>2. CASE ~stream
        <4>1. fed \o <<Break>> = Append(fed, Break)
          BY <1>3, AppendIsConcat
        <4> QED
          BY <1>2, <1>4, <1>5, <3>2, <4>1
      <3> QED
        BY <3>1, <3>2
    <2>4. task' = k
      BY <1>2, <2>1, <2>3 DEF Feed
    <2> QED
      BY <2>2, <2>4
  <1>7. Underway(j)
    <2>1. CASE stream
      BY <1>1, <1>2, <1>6, <2>1 DEF Underway
    <2>2. CASE ~stream
      <3>1. more # <<>> /\ more[Len(more)] = Break
        BY <1>3, <1>5, <2>2, Longer
      <3> QED
        BY <1>6, <2>2, <3>1 DEF Underway, AtBreak
    <2> QED
      BY <2>1, <2>2
  <1>8. splitstring(in, ~stream) /\ UNCHANGED <<ifs, ifsvalid, isifs, coalesce, splitchars, words>>
    BY <1>2 DEF Feed
  <1>9. StopsOf(j) = StopsOf(task) /\ Within(j) = Stopping
    BY <1>1, <1>6 DEF StopsOf, Within, Stopping
  <1>10. /\ buffer' \in Seq(Signs) \cup {NoBuffer} /\ value' \in Seq(Seq(Signs))
         /\ Progress(j, buffer', value')
    <2>1. CASE splitchars
      <3>1. /\ ~task.coalesce /\ task.sep = <<>> /\ ~stream
            /\ buffer = NoBuffer /\ Reverse(value) = Single(Without(t, {Break}))
        BY <1>1, <1>2, <2>1 DEF Progress, Underway
      <3>2. PICK s \in Seq(Seq(Signs)) : s = Single(in)
        BY <1>3, SingleTyped
      <3>3. value' = Reverse(s) \o value /\ buffer' = NoBuffer
        BY <1>8, <2>1, <3>1, <3>2 DEF splitstring, Single
      <3>4. PICK v \in Seq(Seq(Signs)) : v = value
        BY DEF SplitIInv
      <3>5. PICK r \in Seq(Seq(Signs)) : r = Reverse(s)
        BY Reversed
      <3>6. r \o v \in Seq(Seq(Signs)) /\ Reverse(r \o v) = Reverse(v) \o s
        BY <3>5, ReverseOnto, ConcatProperties
      <3>7. PICK Z : Z = {Break}
        OBVIOUS
      <3>8. /\ Chars \subseteq Signs /\ Chars \cap Z = {}
        BY <3>7, SplittingAssumption DEF Signs
      <3>9. Without(fed, Z) = Without(t, Z) \o in
        <4>1. PICK D, S : D = Chars /\ S = Signs
          OBVIOUS
        <4>2. t \in Seq(S) /\ in \in Seq(D) /\ \A d \in D : d \in S /\ d \notin Z
          BY <1>3, <3>8, <4>1
        <4>3. Without(t \o in, Z) = Without(t, Z) \o in
          BY <4>2, WithoutConcat
        <4> QED
          BY <1>4, <4>3
      <3>10. Without(more, Z) = Without(fed, Z)
        BY <1>3, <1>5, <3>1, <3>7, WithoutOneMore
      <3>11. PICK w \in Seq(Signs) : w = Without(t, Z)
        BY <1>3, WithoutOneMore
      <3>12. Single(w \o in) = Single(w) \o s
        BY <1>3, <3>2, SingleConcat
      <3>13. Reverse(value') = Single(Without(more, {Break}))
        BY <3>1, <3>3, <3>4, <3>5, <3>6, <3>7, <3>9, <3>10, <3>11, <3>12
      <3> QED
        BY <1>6, <3>1, <3>3, <3>4, <3>5, <3>6, <3>13 DEF Progress
    <2>2. CASE ~splitchars
      <3>1. ~(~j.coalesce /\ j.sep = <<>>)
        BY <1>1, <1>6, <2>2
      <3>2. Agrees(Opened, t) /\ Opened \in State
        BY <1>1, <1>2, <2>2, Agreed
      <3>3. PICK f : /\ Feeds(f, in)
                     /\ LET done == IF ~stream THEN Seal(f[Len(in)]) ELSE f[Len(in)]
                        IN  buffer' = done.buf /\ value' = done.val
        BY <1>1, <1>3, <1>8, <2>2, <3>2, FeedIs
      <3>4. PICK st : st = f[Len(in)] /\ Agrees(st, fed)
        BY <1>1, <1>3, <1>4, <3>2, <3>3, FedAll
      <3>5. st \in State /\ st.buf = Left(fed, Stopping, coalesce) /\ Reverse(st.val) = Made(fed, Stopping, coalesce)
        BY <3>4 DEF Agrees
      <3>6. CASE stream
        <4>1. coalesce = TRUE
          BY <1>1, <1>2, <3>6 DEF Underway
        <4>2. buffer' = st.buf /\ value' = st.val
          BY <3>3, <3>4, <3>6
        <4>3. st.buf \in Seq(Signs) \cup {NoBuffer} /\ st.val \in Seq(Seq(Signs))
          BY <3>5 DEF State
        <4> QED
          BY <1>1, <1>5, <1>6, <1>9, <3>1, <3>5, <3>6, <4>1, <4>2, <4>3 DEF Progress
      <3>7. CASE ~stream
        <4>1. buffer' = Seal(st).buf /\ value' = Seal(st).val
          BY <3>3, <3>4, <3>7
        <4>2. /\ Seal(st) \in State /\ Seal(st).buf = NoBuffer
              /\ Reverse(Seal(st).val)
                   = IF coalesce /\ Begun(fed, Stopping) = <<>> THEN Made(fed, Stopping, coalesce)
                     ELSE Append(Made(fed, Stopping, coalesce), Begun(fed, Stopping))
          BY <1>1, <3>4, SealAgrees
        <4>3. Seal(st).val \in Seq(Seq(Signs))
          BY <4>2 DEF State
        <4>4. Break \in Stopping
          BY DEF Stopping
        <4>5. more = Append(fed, Break)
          BY <1>5, <3>7
        <4>6. Made(more, Stopping, coalesce)
                = IF coalesce /\ Begun(fed, Stopping) = <<>> THEN Made(fed, Stopping, coalesce)
                  ELSE Append(Made(fed, Stopping, coalesce), Begun(fed, Stopping))
          BY <1>1, <1>3, <4>4, <4>5, MadeAtStop
        <4>7. Left(more, Stopping, TRUE) = NoBuffer
          BY <1>3, <4>4, <4>5, MadeAtStop
        <4> QED
          BY <1>1, <1>6, <1>9, <3>1, <4>1, <4>2, <4>3, <4>6, <4>7 DEF Progress
      <3> QED
        BY <3>6, <3>7
    <2> QED
      BY <1>1, <2>1, <2>2
  <1> QED
    BY <1>1, <1>6, <1>7, <1>8, <1>9, <1>10 DEF SplitIInv

\* What a split has made always agrees with the text it was fed and with its
\* own separators, in the cache or not.
THEOREM SplitsAgree == SplitSpec => []SplitIInv
  <1>1. SplitIInv /\ [SplitNext]_splitVars => SplitIInv'
    <2>1. SUFFICES ASSUME SplitIInv, [SplitNext]_splitVars PROVE SplitIInv'
      OBVIOUS
    <2>2. CASE UNCHANGED splitVars
      BY <2>1, <2>2 DEF splitVars, SplitIInv
    <2>3. ASSUME NEW sep \in Seps, NEW c \in BOOLEAN, NEW stream \in BOOLEAN, StartSplit(sep, c, stream)
          PROVE  SplitIInv'
      BY <2>1, <2>3, StartIs
    <2>4. ASSUME NEW in \in Chunks, Feed(in) PROVE SplitIInv'
      BY <2>1, <2>4, FeedNextIs
    <2>5. CASE EndSplit
      BY <2>1, <2>5, EndIs
    <2>6. CASE Abandon
      BY <2>1, <2>6, AbandonIs
    <2> QED
      BY <2>1, <2>2, <2>3, <2>4, <2>5, <2>6 DEF SplitNext
  <1> QED
    BY <1>1, SplitInitIs, PTL DEF SplitSpec

\* A split returns the pieces of its own text by its own separators, whatever
\* the splits before it, ended or abandoned, and however the text was cut.
THEOREM SplitsAreExact == SplitSpec => []SplitExact
  <1>1. SplitIInv => SplitExact
    BY DEF SplitIInv, SplitExact
  <1> QED
    BY <1>1, SplitsAgree, PTL

-----------------------------------------------------------------------------
(***************************************************************************)
(* Recursion                                                               *)
(***************************************************************************)
\* A recursive definition whose value at x depends on values of lower rank only
\* defines something.
Recurs(D, V, g, f) == f \in [D -> V] /\ \A x \in D : f[x] = g[x][f]

LEMMA Recursion ==
  ASSUME NEW D, NEW V, NEW v \in V, NEW N \in Nat, NEW rank \in [D -> 0 .. N],
         NEW g \in [D -> [[D -> V] -> V]],
         \A x \in D : \A f, h \in [D -> V] :
            (\A y \in D : rank[y] < rank[x] => f[y] = h[y]) => g[x][f] = g[x][h]
  PROVE  \E f : Recurs(D, V, g, f)
  <1> DEFINE Upto(n, f) == \A x \in D : rank[x] < n => f[x] = g[x][f]
             G == {n \in Nat : \E f \in [D -> V] : Upto(n, f)}
  <1>1. ASSUME NEW n \in Nat, \A k \in 0 .. n - 1 : k \in G PROVE n \in G
    <2>1. CASE n = 0
      <3>1. [x \in D |-> v] \in [D -> V]
        OBVIOUS
      <3>2. \A x \in D : ~ rank[x] < 0
        OBVIOUS
      <3> QED
        BY <2>1, <3>1, <3>2
    <2>2. CASE n # 0
      <3>1. n - 1 \in 0 .. n - 1
        BY <1>1, <2>2
      <3>2. PICK f \in [D -> V] : Upto(n - 1, f)
        BY <1>1, <3>1
      <3>3. PICK h : h = [x \in D |-> IF rank[x] = n - 1 THEN g[x][f] ELSE f[x]]
        OBVIOUS
      <3>4. h \in [D -> V]
        BY <3>2, <3>3
      <3>5. ASSUME NEW x \in D, rank[x] < n PROVE h[x] = g[x][h]
        <4>1. \A y \in D : rank[y] < rank[x] => f[y] = h[y]
          BY <3>3, <3>5
        <4>2. g[x][f] = g[x][h]
          BY <3>2, <3>4, <4>1
        <4>3. rank[x] = n - 1 \/ rank[x] < n - 1
          <5>1. PICK r \in Nat : r = rank[x]
            OBVIOUS
          <5>2. r < n => r = n - 1 \/ r < n - 1
            OBVIOUS
          <5> QED
            BY <3>5, <5>1, <5>2
        <4> QED
          BY <3>2, <3>3, <4>2, <4>3
      <3> QED
        BY <3>4, <3>5
    <2> QED
      BY <2>1, <2>2
  <1>2. Nat \subseteq G
    <2> HIDE DEF G
    <2> QED
      BY <1>1, AllNumbers
  <1>3. N + 1 \in Nat
    OBVIOUS
  <1>4. PICK f \in [D -> V] : Upto(N + 1, f)
    BY <1>2, <1>3
  <1>5. \A x \in D : rank[x] < N + 1
    OBVIOUS
  <1> QED
    BY <1>4, <1>5 DEF Recurs

\* Two functions that agree wherever they agree below agree everywhere.
SameIfSameBelow(D, rank, f, h) ==
  \A x \in D : (\A y \in D : rank[y] < rank[x] => f[y] = h[y]) => f[x] = h[x]

LEMMA SameByRank ==
  ASSUME NEW D, NEW N \in Nat, NEW rank \in [D -> 0 .. N], NEW f, NEW h,
         SameIfSameBelow(D, rank, f, h)
  PROVE  \A x \in D : f[x] = h[x]
  <1> DEFINE G == {n \in Nat : \A x \in D : rank[x] = n => f[x] = h[x]}
  <1>1. ASSUME NEW n \in Nat, \A k \in 0 .. n - 1 : k \in G PROVE n \in G
    <2>1. ASSUME NEW x \in D, rank[x] = n PROVE f[x] = h[x]
      <3>1. ASSUME NEW y \in D, rank[y] < rank[x] PROVE f[y] = h[y]
        <4>1. rank[y] \in 0 .. n - 1
          <5>1. PICK r \in Nat : r = rank[y]
            OBVIOUS
          <5> QED
            BY <2>1, <3>1, <5>1
        <4> QED
          BY <1>1, <4>1
      <3> QED
        BY <3>1 DEF SameIfSameBelow
    <2> QED
      BY <2>1
  <1>2. Nat \subseteq G
    <2> HIDE DEF G
    <2> QED
      BY <1>1, AllNumbers
  <1>3. \A x \in D : rank[x] \in Nat
    OBVIOUS
  <1> QED
    BY <1>2, <1>3

-----------------------------------------------------------------------------
(***************************************************************************)
(* Characters and quoting                                                  *)
(***************************************************************************)
Quoting(p) == {QUOTED, UNQUOTED} \cup {q \in Seq({"q", "r"}) : Len(q) = Len(p)}
Signed == [char : Symbols, raw : BOOLEAN]

\* m is the pattern p, its characters marked by the quoting q.
Marks(m, p, q) ==
  /\ ~ReadsQuoted /\ q \in Quoting(p)
  /\ m \in Seq(Signed) /\ Len(m) = Len(p)
  /\ \A i \in 1 .. Len(p) : m[i].char = p[i] /\ (m[i].raw <=> ~ISQUOTED(q, i))

LEMMA Markings ==
  ASSUME ~ReadsQuoted, NEW w, w.str \in Seq(Symbols), w.quote \in Quoting(w.str)
  PROVE  Marks(Mark(w), w.str, w.quote)
  <1>1. PICK m : m = Mark(w)
    OBVIOUS
  <1>2. PICK p \in Seq(Symbols) : p = w.str
    OBVIOUS
  <1>3. m = [i \in 1 .. Len(p) |-> [char |-> p[i], raw |-> ~ISQUOTED(w.quote, i)]]
    BY <1>1, <1>2 DEF Mark
  <1>4. \A i \in 1 .. Len(p) : m[i] \in Signed
    BY <1>3 DEF Signed, ISQUOTED
  <1>5. Len(p) \in Nat /\ m = [i \in 1 .. Len(p) |-> m[i]]
    BY <1>3
  <1>6. m \in Seq(Signed) /\ Len(m) = Len(p)
    BY <1>4, <1>5, FunctionIsSeq
  <1>7. ASSUME NEW i \in 1 .. Len(p) PROVE m[i].char = p[i] /\ (m[i].raw <=> ~ISQUOTED(w.quote, i))
    <2>1. CASE ISQUOTED(w.quote, i)
      <3>1. m[i] = [char |-> p[i], raw |-> FALSE]
        BY <1>3, <2>1
      <3> QED
        BY <2>1, <3>1
    <2>2. CASE ~ISQUOTED(w.quote, i)
      <3>1. m[i] = [char |-> p[i], raw |-> TRUE]
        BY <1>3, <2>2
      <3> QED
        BY <2>2, <3>1
    <2> QED
      BY <2>1, <2>2
  <1> QED
    BY <1>1, <1>2, <1>6, <1>7 DEF Marks

LEMMA SymbolsAre ==
  /\ NUL \notin Symbols
  /\ \A c \in Symbols : /\ Code(c) \in 1 .. Len(CharOrder) /\ CharOrder[Code(c)] = c
                        /\ P!Position(c) = Code(c)
  /\ \A i \in 1 .. Len(CharOrder) : CharOrder[i] \in Symbols /\ Code(CharOrder[i]) = i
  /\ Len(CharOrder) \in Nat
  <1>1. CharOrder \in Seq(Symbols) /\ Symbols = {CharOrder[i] : i \in DOMAIN CharOrder}
    BY CharOrderAssumption DEF Symbols, ToSet
  <1>2. \A i, j \in DOMAIN CharOrder : CharOrder[i] = CharOrder[j] => i = j
    BY CharOrderAssumption DEF IsInjective
  <1>3. NUL \notin Symbols
    BY NULAssumption DEF Symbols
  <1>4. DOMAIN CharOrder = 1 .. Len(CharOrder) /\ Len(CharOrder) \in Nat
    BY <1>1
  <1>5. ASSUME NEW c \in Symbols
        PROVE  /\ Code(c) \in 1 .. Len(CharOrder) /\ CharOrder[Code(c)] = c
               /\ P!Position(c) = Code(c)
    <2>1. \E i \in DOMAIN CharOrder : CharOrder[i] = c
      BY <1>1
    <2>2. Code(c) = CHOOSE i \in DOMAIN CharOrder : CharOrder[i] = c
      BY <1>3 DEF Code
    <2>3. Code(c) \in DOMAIN CharOrder /\ CharOrder[Code(c)] = c
      BY <2>1, <2>2
    <2> QED
      BY <1>4, <2>2, <2>3 DEF P!Position
  <1>6. ASSUME NEW i \in 1 .. Len(CharOrder)
        PROVE  CharOrder[i] \in Symbols /\ Code(CharOrder[i]) = i
    <2>1. CharOrder[i] \in Symbols
      BY <1>1, <1>4
    <2> QED
      BY <1>2, <1>4, <1>5, <2>1
  <1> QED
    BY <1>3, <1>4, <1>5, <1>6

LEMMA SymbolAt ==
  ASSUME NEW p \in Seq(Symbols), NEW j \in 1 .. Len(p)
  PROVE  p[j] \in Symbols /\ At(p, j) = p[j] /\ At(p, j) # NUL
  <1>1. p[j] \in Symbols /\ j <= Len(p)
    OBVIOUS
  <1> QED
    BY <1>1, SymbolsAre DEF At

\* What the tests of rangematch say, in terms of the marked pattern.
LEMMA RawIs ==
  ASSUME NEW p \in Seq(Symbols), NEW q, NEW m, Marks(m, p, q), NEW c, c # NUL, NEW j \in Nat
  PROVE  /\ P!Raw(m, j, c) <=> j \in 1 .. Len(p) /\ p[j] = c /\ ~ISQUOTED(q, j)
         /\ P!Raw(m, j, c) => q # QUOTED
  <1>1. DOMAIN m = 1 .. Len(p)
    BY DEF Marks
  <1> QED
    BY <1>1 DEF Marks, P!Raw, ISQUOTED

LEMMA ClassQuotedIs ==
  ASSUME NEW p \in Seq(Symbols), NEW q \in Quoting(p), ~ReadsQuoted, q # QUOTED,
         NEW a \in Nat, NEW j \in Nat, NEW n \in Nat
  PROVE  ClassQuoted(q, a, j, n) <=> ISQUOTED(q, j + n)
  BY DEF ClassQuoted, ISQUOTED, Quoting

LEMMA TestIs ==
  ASSUME NEW p \in Seq(Symbols), NEW q, NEW m, Marks(m, p, q), q # QUOTED,
         NEW c, c # NUL, NEW a \in Nat, NEW j \in Nat \ {0}, NEW n \in Nat
  PROVE  P!Raw(m, j + n, c) <=> At(p, j + n) = c /\ ~ClassQuoted(q, a, j, n)
  <1>1. PICK k \in Nat \ {0} : k = j + n
    OBVIOUS
  <1>2. P!Raw(m, k, c) <=> k \in 1 .. Len(p) /\ p[k] = c /\ ~ISQUOTED(q, k)
    BY RawIs
  <1>3. ClassQuoted(q, a, j, n) <=> ISQUOTED(q, k)
    BY <1>1, ClassQuotedIs DEF Marks
  <1>4. At(p, k) = c <=> k \in 1 .. Len(p) /\ p[k] = c
    BY SymbolsAre DEF At
  <1> QED
    BY <1>1, <1>2, <1>3, <1>4

-----------------------------------------------------------------------------
(***************************************************************************)
(* Classes                                                                 *)
(***************************************************************************)
Operating(X, R, a, b) ==
  R \in SUBSET (a .. b) /\ \A k \in a .. b : k \in R <=> k \in X /\ k - 1 \notin R /\ k - 2 \notin R

LEMMA OperatorsExist ==
  ASSUME NEW X, NEW a \in Nat \ {0}, NEW b \in Nat
  PROVE  \E R : Operating(X, R, a, b)
  <1> DEFINE G == {n \in Nat : \E R : Operating(X, R, a, n)}
  <1>1. ASSUME NEW n \in Nat, \A k \in 0 .. n - 1 : k \in G PROVE n \in G
    <2>1. CASE n < a
      <3>1. Operating(X, {}, a, n)
        BY <2>1 DEF Operating
      <3> QED
        BY <3>1
    <2>2. CASE ~ n < a
      <3>1. n - 1 \in 0 .. n - 1
        BY <2>2
      <3>2. PICK R : Operating(X, R, a, n - 1)
        BY <1>1, <3>1
      <3>3. n \notin R /\ n - 1 \in Nat
        BY <3>1, <3>2 DEF Operating
      <3>4. PICK T : T = IF n \in X /\ n - 1 \notin R /\ n - 2 \notin R THEN R \cup {n} ELSE R
        OBVIOUS
      <3>5. \A k \in Int : k < n => (k \in T <=> k \in R)
        BY <3>4
      <3>6. n \in T <=> n \in X /\ n - 1 \notin R /\ n - 2 \notin R
        BY <3>3, <3>4
      <3>7. T \in SUBSET (a .. n)
        BY <2>2, <3>2, <3>4 DEF Operating
      <3>8. ASSUME NEW k \in a .. n
            PROVE  k \in T <=> k \in X /\ k - 1 \notin T /\ k - 2 \notin T
        <4>1. k - 1 \in Int /\ k - 2 \in Int /\ k - 1 < n /\ k - 2 < n
          OBVIOUS
        <4>2. CASE k = n
          BY <3>5, <3>6, <4>1, <4>2
        <4>3. CASE k # n
          <5>1. k \in a .. n - 1 /\ k < n
            BY <4>3
          <5>2. k \in R <=> k \in X /\ k - 1 \notin R /\ k - 2 \notin R
            BY <3>2, <5>1 DEF Operating
          <5> QED
            BY <3>5, <4>1, <5>1, <5>2
        <4> QED
          BY <4>2, <4>3
      <3> QED
        BY <3>7, <3>8 DEF Operating
    <2> QED
      BY <2>1, <2>2
  <1>2. Nat \subseteq G
    <2> HIDE DEF G
    <2> QED
      BY <1>1, AllNumbers
  <1> QED
    BY <1>2

LEMMA OperatorsAre ==
  ASSUME NEW m, NEW first \in Nat, NEW last \in Nat \ {0}
  PROVE  Operating({k \in Nat : P!Raw(m, k, "-")}, P!Operators(m, first, last), first + 1, last - 1)
  <1> DEFINE X == {k \in Nat : P!Raw(m, k, "-")}
             inner == first + 1 .. last - 1
             Fits(R) == R \in SUBSET inner
                        /\ \A k \in inner : k \in R <=> P!Raw(m, k, "-") /\ k - 1 \notin R /\ k - 2 \notin R
  <1>1. \E R : Operating(X, R, first + 1, last - 1)
    <2>1. first + 1 \in Nat \ {0} /\ last - 1 \in Nat
      OBVIOUS
    <2> HIDE DEF X
    <2> QED
      BY <2>1, OperatorsExist
  <1>2. \A k \in inner : k \in Nat
    OBVIOUS
  <1>3. \A R : Fits(R) <=> Operating(X, R, first + 1, last - 1)
    BY <1>2 DEF Operating
  <1>4. \E R \in SUBSET inner : \A k \in inner : k \in R <=> P!Raw(m, k, "-") /\ k - 1 \notin R /\ k - 2 \notin R
    BY <1>1, <1>3
  <1>5. Fits(P!Operators(m, first, last))
    BY <1>4 DEF P!Operators
  <1> QED
    BY <1>3, <1>5

\* The loop of rangematch at position j, where f is the rest of the loop.
Scan(p, q, a, c, f, j) ==
  IF At(p, j) = "]" /\ ~ClassQuoted(q, a, j, 0) THEN [matched |-> FALSE, end |-> j + 1]
  ELSE IF At(p, j) = NUL THEN [matched |-> FALSE, end |-> RANGE_ERROR]
  ELSE IF RangeAt(p, q, a, j)
  THEN [f[j + 3] EXCEPT !.matched = @ \/ Code(c) \in Code(p[j]) .. Code(At(p, j + 2))]
  ELSE [f[j + 1] EXCEPT !.matched = @ \/ p[j] = c]
Scans(p, q, a, c, f) == f = [j \in 1 .. Len(p) + 3 |-> Scan(p, q, a, c, f, j)]
Scanned == [matched : BOOLEAN, end : Int]

LEMMA ScanAt ==
  ASSUME NEW p \in Seq(Symbols), NEW q, NEW a \in Nat, NEW c \in Symbols,
         NEW f \in [1 .. Len(p) + 3 -> Scanned], NEW j \in 1 .. Len(p) + 3
  PROVE  /\ Scan(p, q, a, c, f, j) \in Scanned
         /\ \A h : (\A k \in 1 .. Len(p) + 3 : k > j => f[k] = h[k]) => Scan(p, q, a, c, f, j) = Scan(p, q, a, c, h, j)
  <1>1. PICK n \in Nat : n = Len(p)
    OBVIOUS
  <1>2. j > n => At(p, j) = NUL
    BY <1>1 DEF At
  <1>3. j <= n => j + 3 \in 1 .. n + 3 /\ j + 1 \in 1 .. n + 3 /\ j + 3 > j /\ j + 1 > j
    BY <1>1
  <1>4. ASSUME NEW r \in Scanned, NEW b \in BOOLEAN
        PROVE  [r EXCEPT !.matched = @ \/ b] \in Scanned
    BY DEF Scanned
  <1>5. j + 1 \in Int /\ RANGE_ERROR \in Int
    BY <1>1 DEF RANGE_ERROR
  <1>6. CASE j > n
    BY <1>2, <1>5, <1>6 DEF Scan, Scanned
  <1>7. CASE ~ j > n
    <2>1. j <= n
      BY <1>1, <1>7
    <2>2. f[j + 3] \in Scanned /\ f[j + 1] \in Scanned
      BY <1>1, <1>3, <2>1
    <2>3. [f[j + 3] EXCEPT !.matched = @ \/ Code(c) \in Code(p[j]) .. Code(At(p, j + 2))] \in Scanned
      BY <1>4, <2>2
    <2>4. [f[j + 1] EXCEPT !.matched = @ \/ p[j] = c] \in Scanned
      BY <1>4, <2>2
    <2>5. Scan(p, q, a, c, f, j) \in Scanned
      BY <1>5, <2>3, <2>4 DEF Scan, Scanned
    <2>6. ASSUME NEW h, \A k \in 1 .. Len(p) + 3 : k > j => f[k] = h[k]
          PROVE  Scan(p, q, a, c, f, j) = Scan(p, q, a, c, h, j)
      <3>1. f[j + 3] = h[j + 3] /\ f[j + 1] = h[j + 1]
        BY <1>1, <1>3, <2>1, <2>6
      <3> QED
        BY <3>1 DEF Scan
    <2> QED
      BY <2>5, <2>6
  <1> QED
    BY <1>6, <1>7

Scanning(f, p, q, a, c) ==
  /\ f \in [1 .. Len(p) + 3 -> Scanned]
  /\ \A j \in 1 .. Len(p) + 3 : f[j] = Scan(p, q, a, c, f, j)

LEMMA ScanIs ==
  ASSUME NEW p \in Seq(Symbols), NEW q, NEW a \in Nat, NEW c \in Symbols
  PROVE  Scanning(ClassScan(p, q, a, c), p, q, a, c)
  <1> DEFINE D == 1 .. Len(p) + 3
             V == Scanned
             g == [j \in D |-> [f \in [D -> V] |-> Scan(p, q, a, c, f, j)]]
             rank == [j \in D |-> Len(p) + 3 - j]
  <1>1. g \in [D -> [[D -> V] -> V]]
    BY ScanAt
  <1>2. rank \in [D -> 0 .. Len(p) + 3] /\ Len(p) + 3 \in Nat
    OBVIOUS
  <1>3. [matched |-> FALSE, end |-> 0] \in V
    BY DEF Scanned
  <1>4. ASSUME NEW x \in D, NEW f \in [D -> V], NEW h \in [D -> V],
               \A y \in D : rank[y] < rank[x] => f[y] = h[y]
        PROVE  g[x][f] = g[x][h]
    <2>1. \A y \in D : y > x => f[y] = h[y]
      BY <1>4
    <2>2. Scan(p, q, a, c, f, x) = Scan(p, q, a, c, h, x)
      BY <2>1, ScanAt
    <2> QED
      BY <2>2
  <1>5. PICK f : Recurs(D, V, g, f)
    <2> HIDE DEF D, V, g, rank
    <2> QED
      BY <1>1, <1>2, <1>3, <1>4, Recursion
  <1>6. f \in [D -> V] /\ \A x \in D : f[x] = Scan(p, q, a, c, f, x)
    BY <1>5 DEF Recurs
  <1>7. Scans(p, q, a, c, f)
    BY <1>6 DEF Scans
  <1>8. ClassScan(p, q, a, c) = CHOOSE h : Scans(p, q, a, c, h)
    BY DEF ClassScan, Scans, Scan
  <1>9. PICK h : h = ClassScan(p, q, a, c) /\ Scans(p, q, a, c, h)
    BY <1>7, <1>8
  <1>10. h = [x \in D |-> h[x]] /\ \A x \in D : h[x] = Scan(p, q, a, c, h, x)
    BY <1>9 DEF Scans
  <1>11. ASSUME NEW x \in D, \A y \in D : rank[y] < rank[x] => f[y] = h[y]
         PROVE  f[x] = h[x]
    <2>1. \A y \in D : y > x => f[y] = h[y]
      BY <1>11
    <2>2. Scan(p, q, a, c, f, x) = Scan(p, q, a, c, h, x)
      BY <1>6, <2>1, ScanAt
    <2> QED
      BY <1>6, <1>10, <2>2
  <1>12. \A x \in D : f[x] = h[x]
    <2> HIDE DEF D, rank
    <2>1. SameIfSameBelow(D, rank, f, h)
      BY <1>11 DEF SameIfSameBelow
    <2>2. PICK N \in Nat : rank \in [D -> 0 .. N]
      BY <1>2
    <2> QED
      BY <2>1, <2>2, SameByRank
  <1> QED
    BY <1>6, <1>9, <1>10, <1>12 DEF Scanning

\* The same loop in terms of the marked pattern.
Ranging(m, j) == P!Raw(m, j + 1, "-") /\ j + 2 <= Len(m) /\ ~P!Raw(m, j + 2, "]")

LEMMA RangeAtIs ==
  ASSUME NEW p \in Seq(Symbols), NEW q, NEW m, Marks(m, p, q), q # QUOTED,
         NEW a \in Nat, NEW j \in 1 .. Len(p)
  PROVE  RangeAt(p, q, a, j) <=> Ranging(m, j)
  <1>1. PICK n \in Nat : n = Len(p) /\ n = Len(m)
    BY DEF Marks
  <1>2. j \in Nat \ {0} /\ j \in 1 .. n
    BY <1>1
  <1>3. P!Raw(m, j + 1, "-") <=> At(p, j + 1) = "-" /\ ~ClassQuoted(q, a, j, 1)
    BY <1>2, TestIs DEF NUL
  <1>4. P!Raw(m, j + 2, "]") <=> At(p, j + 2) = "]" /\ ~ClassQuoted(q, a, j, 2)
    BY <1>2, TestIs DEF NUL
  <1>5. CASE j + 2 <= n
    <2>1. At(p, j + 2) # NUL
      <3>1. j + 2 \in 1 .. Len(p)
        BY <1>1, <1>2, <1>5
      <3> QED
        BY <3>1, SymbolAt
    <2> QED
      BY <1>1, <1>3, <1>4, <1>5, <2>1 DEF RangeAt, Ranging
  <1>6. CASE ~ j + 2 <= n
    <2>1. At(p, j + 2) = NUL
      BY <1>1, <1>6 DEF At
    <2>2. ~ClassQuoted(q, a, j, 2)
      <3>1. ~ISQUOTED(q, j + 2)
        <4>1. At(q, j + 2) # "q" \/ q = UNQUOTED
          BY <1>1, <1>2, <1>6 DEF Marks, Quoting, At, NUL
        <4> QED
          BY <4>1 DEF ISQUOTED
      <3> QED
        BY <1>2, <3>1, ClassQuotedIs DEF Marks
    <2> QED
      BY <1>1, <1>6, <2>1, <2>2 DEF RangeAt, Ranging
  <1> QED
    BY <1>5, <1>6

LEMMA ScanStep ==
  ASSUME NEW p \in Seq(Symbols), NEW q, NEW m, Marks(m, p, q), q # QUOTED,
         NEW a \in Nat, NEW c \in Symbols, NEW f \in [1 .. Len(p) + 3 -> Scanned],
         NEW j \in 1 .. Len(p) + 3, f[j] = Scan(p, q, a, c, f, j)
  PROVE  /\ P!Raw(m, j, "]") => f[j].end = j + 1 /\ ~f[j].matched
         /\ j > Len(p) => f[j].end = RANGE_ERROR
         /\ ~P!Raw(m, j, "]") /\ j <= Len(p) /\ Ranging(m, j) =>
              /\ f[j].end = f[j + 3].end
              /\ f[j].matched <=> f[j + 3].matched \/ Code(c) \in Code(p[j]) .. Code(p[j + 2])
         /\ ~P!Raw(m, j, "]") /\ j <= Len(p) /\ ~Ranging(m, j) =>
              /\ f[j].end = f[j + 1].end
              /\ f[j].matched <=> f[j + 1].matched \/ p[j] = c
  <1>1. PICK n \in Nat : n = Len(p) /\ n = Len(m)
    BY DEF Marks
  <1>2. j \in Nat \ {0} /\ j + 0 = j
    BY <1>1
  <1>3. P!Raw(m, j, "]") <=> At(p, j) = "]" /\ ~ClassQuoted(q, a, j, 0)
    <2>1. P!Raw(m, j + 0, "]") <=> At(p, j + 0) = "]" /\ ~ClassQuoted(q, a, j, 0)
      BY <1>2, TestIs DEF NUL
    <2> QED
      BY <1>2, <2>1
  <1>4. j > n => At(p, j) = NUL /\ ~P!Raw(m, j, "]")
    BY <1>1, <1>3 DEF At, NUL
  <1>5. ASSUME j <= n PROVE At(p, j) # NUL /\ (RangeAt(p, q, a, j) <=> Ranging(m, j))
    <2>1. j \in 1 .. Len(p)
      BY <1>1, <1>5
    <2> QED
      BY <2>1, SymbolAt, RangeAtIs
  <1>7. CASE P!Raw(m, j, "]")
    <2>1. f[j] = [matched |-> FALSE, end |-> j + 1]
      BY <1>3, <1>7 DEF Scan
    <2> QED
      BY <1>1, <1>4, <1>7, <2>1
  <1>8. CASE ~P!Raw(m, j, "]") /\ j > n
    <2>1. f[j] = [matched |-> FALSE, end |-> RANGE_ERROR]
      BY <1>3, <1>4, <1>8 DEF Scan
    <2> QED
      BY <1>1, <1>8, <2>1
  <1>9. CASE ~P!Raw(m, j, "]") /\ j <= n /\ Ranging(m, j)
    <2>1. At(p, j + 2) = p[j + 2] /\ j + 3 \in 1 .. Len(p) + 3
      BY <1>1, <1>9 DEF Ranging, At
    <2>2. f[j] = [f[j + 3] EXCEPT !.matched = @ \/ Code(c) \in Code(p[j]) .. Code(At(p, j + 2))]
      BY <1>3, <1>5, <1>9 DEF Scan
    <2>3. PICK r \in Scanned : r = f[j + 3]
      BY <2>1
    <2>4. PICK x \in BOOLEAN : x <=> Code(c) \in Code(p[j]) .. Code(p[j + 2])
      OBVIOUS
    <2>5. f[j] = [r EXCEPT !.matched = r.matched \/ Code(c) \in Code(p[j]) .. Code(p[j + 2])]
      BY <2>1, <2>2, <2>3
    <2> HIDE <2>2
    <2>6. f[j].end = r.end /\ (f[j].matched <=> r.matched \/ Code(c) \in Code(p[j]) .. Code(p[j + 2]))
      BY <2>3, <2>5 DEF Scanned
    <2> QED
      BY <1>1, <1>9, <2>3, <2>6
  <1>10. CASE ~P!Raw(m, j, "]") /\ j <= n /\ ~Ranging(m, j)
    <2>1. j + 1 \in 1 .. Len(p) + 3
      BY <1>1, <1>10
    <2>2. f[j] = [f[j + 1] EXCEPT !.matched = @ \/ p[j] = c]
      BY <1>3, <1>5, <1>10 DEF Scan
    <2>3. PICK r \in Scanned : r = f[j + 1]
      BY <2>1
    <2>4. f[j].end = r.end /\ (f[j].matched <=> r.matched \/ p[j] = c)
      BY <2>2, <2>3 DEF Scanned
    <2> QED
      BY <1>1, <1>10, <2>3, <2>4
  <1> QED
    BY <1>1, <1>7, <1>8, <1>9, <1>10

\* A class that nothing closes is an error.
LEMMA ScanError ==
  ASSUME NEW p \in Seq(Symbols), NEW q, NEW m, Marks(m, p, q), q # QUOTED,
         NEW a \in Nat, NEW c \in Symbols, NEW f, Scanning(f, p, q, a, c),
         NEW b \in 1 .. Len(p) + 2, \A k \in b .. Len(p) : ~P!Raw(m, k, "]")
  PROVE  f[b].end = RANGE_ERROR
  <1>1. PICK n \in Nat : n = Len(p) /\ n = Len(m)
    BY DEF Marks
  <1> DEFINE Errs(j) == f[j].end = RANGE_ERROR
             G == {r \in Nat : \A j \in b .. n + 2 : n + 2 - j = r => Errs(j)}
  <1>2. ASSUME NEW r \in Nat, \A k \in 0 .. r - 1 : k \in G PROVE r \in G
    <2>1. ASSUME NEW j \in b .. n + 2, n + 2 - j = r PROVE Errs(j)
      <3>1. j \in 1 .. Len(p) + 3 /\ f[j] = Scan(p, q, a, c, f, j) /\ f \in [1 .. Len(p) + 3 -> Scanned]
        BY <1>1 DEF Scanning
      <3>2. CASE j > n
        <4>1. j > Len(p)
          BY <1>1, <3>2
        <4> QED
          BY <3>1, <4>1, ScanStep
      <3>3. CASE ~ j > n
        <4>1. j \in b .. Len(p) /\ j <= Len(p) /\ j <= n
          BY <1>1, <3>3
        <4>2. ~P!Raw(m, j, "]")
          BY <4>1
        <4>3. ASSUME NEW i \in j + 1 .. n + 2 PROVE Errs(i)
          <5>1. n + 2 - i \in 0 .. r - 1 /\ i \in b .. n + 2
            BY <2>1, <4>1
          <5> QED
            BY <1>2, <5>1
        <4>4. CASE Ranging(m, j)
          <5>1. j + 3 \in j + 1 .. n + 2
            BY <1>1, <4>1, <4>4 DEF Ranging
          <5>2. f[j].end = f[j + 3].end
            BY <3>1, <4>1, <4>2, <4>4, ScanStep
          <5> QED
            BY <4>3, <5>1, <5>2
        <4>5. CASE ~Ranging(m, j)
          <5>1. j + 1 \in j + 1 .. n + 2
            BY <4>1
          <5>2. f[j].end = f[j + 1].end
            BY <3>1, <4>1, <4>2, <4>5, ScanStep
          <5> QED
            BY <4>3, <5>1, <5>2
        <4> QED
          BY <4>4, <4>5
      <3> QED
        BY <3>2, <3>3
    <2> QED
      BY <2>1
  <1>3. Nat \subseteq G
    <2> HIDE DEF G
    <2> QED
      BY <1>2, AllNumbers
  <1>4. n + 2 - b \in Nat /\ b \in b .. n + 2
    BY <1>1
  <1> QED
    BY <1>3, <1>4

\* c is in the list from j on, given the operators of the list.
InList(m, R, j, last, c) ==
  \/ \E k \in j .. last : k - 1 \notin R /\ k \notin R /\ k + 1 \notin R /\ m[k].char = c
  \/ \E k \in R : k > j /\ Code(c) \in Code(m[k - 1].char) .. Code(m[k + 1].char)

LEMMA MembersAre ==
  ASSUME NEW m \in Seq(Signed), NEW first \in Nat \ {0}, NEW last \in Nat \ {0}, last <= Len(m),
         NEW c \in Symbols
  PROVE  c \in P!Members(m, first, last) <=> InList(m, P!Operators(m, first, last), first, last, c)
  <1>1. PICK R : R = P!Operators(m, first, last)
    OBVIOUS
  <1>2. R \in SUBSET (first + 1 .. last - 1)
    BY <1>1, OperatorsAre DEF Operating
  <1>3. ASSUME NEW k \in R
        PROVE  /\ k > first
               /\ c \in {CharOrder[x] : x \in P!Position(m[k - 1].char) .. P!Position(m[k + 1].char)}
                  <=> Code(c) \in Code(m[k - 1].char) .. Code(m[k + 1].char)
    <2>1. k \in first + 1 .. last - 1
      BY <1>2
    <2>2. k > first /\ k - 1 \in 1 .. Len(m) /\ k + 1 \in 1 .. Len(m)
      BY <2>1
    <2>3. m[k - 1].char \in Symbols /\ m[k + 1].char \in Symbols
      <3>1. m[k - 1] \in Signed /\ m[k + 1] \in Signed
        BY <2>2
      <3> QED
        BY <3>1 DEF Signed
    <2>4. PICK u \in 1 .. Len(CharOrder) : u = Code(m[k - 1].char) /\ u = P!Position(m[k - 1].char)
      BY <2>3, SymbolsAre
    <2>5. PICK v \in 1 .. Len(CharOrder) : v = Code(m[k + 1].char) /\ v = P!Position(m[k + 1].char)
      BY <2>3, SymbolsAre
    <2>6. \A x \in u .. v : x \in 1 .. Len(CharOrder) /\ Code(CharOrder[x]) = x
      BY SymbolsAre
    <2>7. CharOrder[Code(c)] = c
      BY SymbolsAre
    <2>8. c \in {CharOrder[x] : x \in u .. v} <=> Code(c) \in u .. v
      BY <2>6, <2>7
    <2> QED
      BY <2>2, <2>4, <2>5, <2>8
  <1>4. PICK A : A = {m[k].char : k \in {k \in first .. last : {k - 1, k, k + 1} \cap R = {}}}
    OBVIOUS
  <1>5. PICK B : B = UNION {{CharOrder[x] : x \in P!Position(m[k - 1].char) .. P!Position(m[k + 1].char)} : k \in R}
    OBVIOUS
  <1>6. c \in A <=> \E k \in first .. last : k - 1 \notin R /\ k \notin R /\ k + 1 \notin R /\ m[k].char = c
    BY <1>4
  <1>7. c \in B <=> \E k \in R : c \in {CharOrder[x] : x \in P!Position(m[k - 1].char) .. P!Position(m[k + 1].char)}
    BY <1>5
  <1>8. c \in B <=> \E k \in R : k > first /\ Code(c) \in Code(m[k - 1].char) .. Code(m[k + 1].char)
    BY <1>3, <1>7
  <1>9. P!Members(m, first, last) = A \cup B
    BY <1>1, <1>4, <1>5 DEF P!Members
  <1> QED
    BY <1>1, <1>6, <1>8, <1>9 DEF InList

\* The loop ends behind the bracket that closes the class, and knows whether
\* the list holds c.
LEMMA ScanHolds ==
  ASSUME NEW p \in Seq(Symbols), NEW q, NEW m, Marks(m, p, q), q # QUOTED,
         NEW a \in Nat, NEW c \in Symbols, NEW f, Scanning(f, p, q, a, c),
         NEW first \in Nat \ {0}, NEW e \in 1 .. Len(p), P!Raw(m, e, "]"),
         NEW R, Operating({k \in Nat : P!Raw(m, k, "-")}, R, first + 1, e - 2),
         NEW b \in first .. e, b \notin R, b - 1 \notin R,
         \A k \in b .. e - 1 : ~P!Raw(m, k, "]")
  PROVE  f[b].end = e + 1 /\ (f[b].matched <=> InList(m, R, b, e - 1, c))
  <1>1. PICK n \in Nat : n = Len(p) /\ n = Len(m)
    BY DEF Marks
  <1> DEFINE Good1(j) == f[j].end = e + 1 /\ (f[j].matched <=> InList(m, R, j, e - 1, c))
             G == {r \in Nat : \A j \in b .. e : e - j = r /\ j \notin R /\ j - 1 \notin R => Good1(j)}
  <1>2. /\ \A k \in R : k \in first + 1 .. e - 2
        /\ \A k \in first + 1 .. e - 2 : k \in R <=> P!Raw(m, k, "-") /\ k - 1 \notin R /\ k - 2 \notin R
    BY DEF Operating
  <1>3. ASSUME NEW r \in Nat, \A k \in 0 .. r - 1 : k \in G PROVE r \in G
    <2>1. ASSUME NEW j \in b .. e, e - j = r, j \notin R, j - 1 \notin R PROVE Good1(j)
      <3>1. /\ j \in 1 .. Len(p) + 3 /\ j <= Len(p) /\ j >= first
            /\ f[j] = Scan(p, q, a, c, f, j) /\ f \in [1 .. Len(p) + 3 -> Scanned]
        BY <1>1 DEF Scanning
      <3>2. CASE j = e
        <4>1. f[j].end = j + 1 /\ ~f[j].matched
          BY <3>1, <3>2, ScanStep
        <4>2. ~InList(m, R, j, e - 1, c)
          <5>1. \A k \in R : ~ k > j
            BY <1>2, <3>2
          <5>2. ~ \E k \in j .. e - 1 : TRUE
            BY <3>2
          <5> QED
            BY <5>1, <5>2 DEF InList
        <4> QED
          BY <3>2, <4>1, <4>2
      <3>3. CASE j # e
        <4>1. j \in b .. e - 1 /\ j < e
          BY <3>3
        <4>2. ~P!Raw(m, j, "]")
          BY <4>1
        <4>3. ASSUME NEW i \in j + 1 .. e, i \notin R, i - 1 \notin R PROVE Good1(i)
          <5>1. e - i \in 0 .. r - 1 /\ i \in b .. e
            BY <2>1
          <5> QED
            BY <1>3, <4>3, <5>1
        <4>4. Ranging(m, j) <=> j + 1 \in R
          <5>1. CASE j + 2 <= e - 1
            <6>1. ~P!Raw(m, j + 2, "]") /\ j + 2 <= Len(m)
              BY <1>1, <4>1, <5>1
            <6>2. j + 1 \in first + 1 .. e - 2
              BY <3>1, <5>1
            <6>3. j + 1 \in R <=> P!Raw(m, j + 1, "-") /\ (j + 1) - 1 \notin R /\ (j + 1) - 2 \notin R
              BY <1>2, <6>2
            <6>4. (j + 1) - 1 = j /\ (j + 1) - 2 = j - 1
              BY <3>1
            <6> QED
              BY <2>1, <6>1, <6>3, <6>4 DEF Ranging
          <5>2. CASE j + 2 = e
            <6>1. j + 1 \notin R
              BY <1>2, <5>2
            <6> QED
              BY <5>2, <6>1 DEF Ranging
          <5>3. CASE j + 1 = e
            <6>1. j + 1 \notin R
              BY <1>2, <5>3
            <6>2. ~P!Raw(m, j + 1, "-")
              BY <5>3 DEF P!Raw
            <6> QED
              BY <6>1, <6>2 DEF Ranging
          <5>4. j + 2 <= e - 1 \/ j + 2 = e \/ j + 1 = e
            BY <4>1
          <5> QED
            BY <5>1, <5>2, <5>3, <5>4
        <4>5. \A k \in 1 .. Len(p) : m[k].char = p[k]
          BY DEF Marks
        <4>6. CASE j + 1 \in R
          <5>1. j + 1 <= e - 2 /\ j + 3 \in j + 1 .. e
            BY <1>2, <4>6
          <5>2. j + 2 \notin R /\ j + 3 \notin R
            <6>1. \A k \in R : k \in first + 1 .. e - 2 /\ k - 1 \notin R /\ k - 2 \notin R
              BY <1>2
            <6>2. (j + 2) - 1 = j + 1 /\ (j + 3) - 2 = j + 1
              BY <3>1
            <6> QED
              BY <4>6, <6>1, <6>2
          <5>3. Good1(j + 3)
            <6>1. (j + 3) - 1 = j + 2
              BY <3>1
            <6> QED
              BY <4>3, <5>1, <5>2, <6>1
          <5>4. f[j].end = f[j + 3].end
            BY <3>1, <4>2, <4>4, <4>6, ScanStep
          <5>5. f[j].matched <=> f[j + 3].matched \/ Code(c) \in Code(p[j]) .. Code(p[j + 2])
            BY <3>1, <4>2, <4>4, <4>6, ScanStep
          <5>6. m[(j + 1) - 1].char = p[j] /\ m[(j + 1) + 1].char = p[j + 2]
            <6>1. (j + 1) - 1 = j /\ (j + 1) + 1 = j + 2 /\ j \in 1 .. Len(p) /\ j + 2 \in 1 .. Len(p)
              BY <3>1, <5>1
            <6> QED
              BY <4>5, <6>1
          <5>7. ASSUME NEW k \in R, k > j PROVE k = j + 1 \/ k > j + 3
            <6>1. k \in Int /\ k # j + 2 /\ k # j + 3
              BY <1>2, <5>2
            <6> QED
              BY <3>1, <5>7, <6>1
          <5>8. ASSUME NEW k \in j .. e - 1, k - 1 \notin R, k \notin R, k + 1 \notin R
                PROVE  k \in j + 3 .. e - 1
            <6>1. k # j /\ k # j + 1 /\ k # j + 2
              <7>1. k = j + 2 => k - 1 = j + 1
                BY <3>1
              <7> QED
                BY <4>6, <5>8, <7>1
            <6> QED
              BY <3>1, <6>1
          <5>9. \A k \in j + 3 .. e - 1 : k \in j .. e - 1
            BY <3>1
          <5>10. \A k \in R : k > j + 3 => k > j
            BY <1>2, <3>1
          <5>11. InList(m, R, j, e - 1, c)
                   <=> InList(m, R, j + 3, e - 1, c) \/ Code(c) \in Code(p[j]) .. Code(p[j + 2])
            <6>1. j + 1 > j
              BY <3>1
            <6>2. (\E k \in R : k > j /\ Code(c) \in Code(m[k - 1].char) .. Code(m[k + 1].char))
                  <=> \/ \E k \in R : k > j + 3 /\ Code(c) \in Code(m[k - 1].char) .. Code(m[k + 1].char)
                      \/ Code(c) \in Code(p[j]) .. Code(p[j + 2])
              BY <4>6, <5>6, <5>7, <5>10, <6>1
            <6>3. (\E k \in j .. e - 1 : k - 1 \notin R /\ k \notin R /\ k + 1 \notin R /\ m[k].char = c)
                  <=> \E k \in j + 3 .. e - 1 : k - 1 \notin R /\ k \notin R /\ k + 1 \notin R /\ m[k].char = c
              BY <5>8, <5>9
            <6> QED
              BY <6>2, <6>3 DEF InList
          <5> QED
            BY <5>3, <5>4, <5>5, <5>11
        <4>7. CASE j + 1 \notin R
          <5>1. j + 1 \in j + 1 .. e /\ (j + 1) - 1 = j
            BY <3>1, <4>1
          <5>2. Good1(j + 1)
            BY <2>1, <4>3, <4>7, <5>1
          <5>3. f[j].end = f[j + 1].end /\ (f[j].matched <=> f[j + 1].matched \/ p[j] = c)
            BY <3>1, <4>2, <4>4, <4>7, ScanStep
          <5>4. m[j].char = p[j]
            BY <3>1, <4>5
          <5>5. \A k \in R : k > j <=> k > j + 1
            <6>1. \A k \in R : k \in Int /\ k # j + 1
              BY <1>2, <4>7
            <6> QED
              BY <3>1, <6>1
          <5>6. j \in j .. e - 1 /\ \A k \in Int : k \in j .. e - 1 <=> k = j \/ k \in j + 1 .. e - 1
            BY <3>1, <4>1
          <5>7. InList(m, R, j, e - 1, c) <=> InList(m, R, j + 1, e - 1, c) \/ p[j] = c
            <6>1. (\E k \in j .. e - 1 : k - 1 \notin R /\ k \notin R /\ k + 1 \notin R /\ m[k].char = c)
                  <=> \/ \E k \in j + 1 .. e - 1 : k - 1 \notin R /\ k \notin R /\ k + 1 \notin R /\ m[k].char = c
                      \/ p[j] = c
              <7> DEFINE Alone(k) == k - 1 \notin R /\ k \notin R /\ k + 1 \notin R /\ m[k].char = c
              <7>1. Alone(j) <=> p[j] = c
                BY <2>1, <4>7, <5>4
              <7>2. \A k \in j + 1 .. e - 1 : k \in j .. e - 1
                BY <3>1
              <7>3. \A k \in j .. e - 1 : k = j \/ k \in j + 1 .. e - 1
                BY <3>1
              <7> HIDE DEF Alone
              <7>4. (\E k \in j .. e - 1 : Alone(k)) <=> (\E k \in j + 1 .. e - 1 : Alone(k)) \/ p[j] = c
                BY <5>6, <7>1, <7>2, <7>3
              <7> QED
                BY <7>4 DEF Alone
            <6> QED
              BY <5>5, <6>1 DEF InList
          <5> QED
            BY <5>2, <5>3, <5>7
        <4> QED
          BY <4>6, <4>7
      <3> QED
        BY <3>2, <3>3
    <2> QED
      BY <2>1
  <1>4. Nat \subseteq G
    <2> HIDE DEF G
    <2> QED
      BY <1>3, AllNumbers
  <1>5. e - b \in Nat /\ b \in b .. e
    BY <1>1
  <1> QED
    BY <1>4, <1>5

\* The class opened at i does not begin with ]-.
PlainClass(m, i) ==
  P!Raw(m, i, "[") =>
    ~(P!Raw(m, P!ClassStart(m, i), "]") /\ P!Raw(m, P!ClassStart(m, i) + 1, "-"))

\* A list that begins with a bracket holds that bracket, and what follows it.
LEMMA BracketFirst ==
  ASSUME NEW m, NEW R, NEW first \in Nat \ {0}, NEW e \in Nat, e > first, NEW c,
         \A k \in R : k \in first + 2 .. e - 2, m[first].char = "]"
  PROVE  InList(m, R, first, e - 1, c) <=> InList(m, R, first + 1, e - 1, c) \/ c = "]"
  <1> DEFINE Alone(k) == k - 1 \notin R /\ k \notin R /\ k + 1 \notin R /\ m[k].char = c
  <1>1. Alone(first) <=> c = "]"
    <2>1. first - 1 \notin R /\ first \notin R /\ first + 1 \notin R
      OBVIOUS
    <2> QED
      BY <2>1
  <1>2. first \in first .. e - 1 /\ \A k \in first + 1 .. e - 1 : k \in first .. e - 1
    OBVIOUS
  <1>3. \A k \in first .. e - 1 : k = first \/ k \in first + 1 .. e - 1
    OBVIOUS
  <1>4. \A k \in R : k > first /\ k > first + 1
    OBVIOUS
  <1>5. (\E k \in first .. e - 1 : Alone(k)) <=> (\E k \in first + 1 .. e - 1 : Alone(k)) \/ c = "]"
    <2> HIDE DEF Alone
    <2> QED
      BY <1>1, <1>2, <1>3
  <1> QED
    BY <1>4, <1>5 DEF InList

LEMMA RangematchIs ==
  ASSUME NEW p \in Seq(Symbols), NEW q, NEW m, Marks(m, p, q), NEW c \in Symbols,
         NEW i \in 1 .. Len(p), P!Raw(m, i, "["), PlainClass(m, i)
  PROVE  /\ P!ClassEnds(m, i) = {} => rangematch(p, q, i + 1, c) = RANGE_ERROR
         /\ P!ClassEnds(m, i) # {} =>
              /\ P!ClassEnd(m, i) \in i + 1 .. Len(p)
              /\ rangematch(p, q, i + 1, c)
                   = IF c \in P!Class(m, i) THEN P!ClassEnd(m, i) + 1 ELSE RANGE_FAIL
  <1>1. PICK n \in Nat : n = Len(p) /\ n = Len(m)
    BY DEF Marks
  <1>2. q # QUOTED /\ i \in 1 .. n
    <2>1. i \in Nat /\ "[" # NUL
      BY DEF NUL
    <2> QED
      BY <1>1, <2>1, RawIs
  <1>3. PICK a \in Nat \ {0} : a = i + 1 /\ a <= n + 1
    BY <1>1, <1>2
  <1>4. \A j \in Nat \ {0} : \A x : x # NUL => (P!Raw(m, j, x) <=> At(p, j) = x /\ ~ClassQuoted(q, a, j, 0))
    <2>1. ASSUME NEW j \in Nat \ {0}, NEW x, x # NUL
          PROVE  P!Raw(m, j, x) <=> At(p, j) = x /\ ~ClassQuoted(q, a, j, 0)
      <3>1. P!Raw(m, j + 0, x) <=> At(p, j + 0) = x /\ ~ClassQuoted(q, a, j, 0)
        BY <1>2, <2>1, TestIs
      <3>2. j + 0 = j
        OBVIOUS
      <3> QED
        BY <3>1, <3>2
    <2> QED
      BY <2>1
  <1>5. \A j, x : P!Raw(m, j, x) => j \in 1 .. n
    <2>1. DOMAIN m = 1 .. n
      BY <1>1 DEF Marks
    <2> QED
      BY <2>1 DEF P!Raw
  <1>6. PICK neg \in BOOLEAN : neg <=> P!Raw(m, a, "~")
    OBVIOUS
  <1>7. PICK first \in Nat \ {0} : first = (IF neg THEN a + 1 ELSE a) /\ first <= n + 1
    BY <1>3, <1>5, <1>6
  <1>8. first = P!ClassStart(m, i)
    BY <1>3, <1>6, <1>7 DEF P!ClassStart
  <1>9. PICK bracket \in BOOLEAN : bracket <=> P!Raw(m, first, "]")
    OBVIOUS
  <1>10. PICK b \in 1 .. n + 2 : b = IF bracket THEN first + 1 ELSE first
    BY <1>5, <1>7, <1>9
  <1>11. PICK f : f = ClassScan(p, q, a, c) /\ Scanning(f, p, q, a, c)
    BY ScanIs
  <1>12. PICK matched \in BOOLEAN : matched <=> f[b].matched \/ (bracket /\ c = "]")
    OBVIOUS
  <1>13. rangematch(p, q, a, c) = IF f[b].end # RANGE_ERROR /\ (matched <=> neg) THEN RANGE_FAIL ELSE f[b].end
    <2>1. neg <=> At(p, a) = "~" /\ ~ClassQuoted(q, a, a, 0)
      BY <1>4, <1>6 DEF NUL
    <2>2. bracket <=> At(p, first) = "]" /\ ~ClassQuoted(q, a, first, 0)
      BY <1>4, <1>9 DEF NUL
    <2> QED
      BY <1>7, <1>10, <1>11, <1>12, <2>1, <2>2 DEF rangematch
  <1>14. P!ClassEnds(m, i) = {j \in 1 .. n : j > first /\ P!Raw(m, j, "]")}
    <2>1. DOMAIN m = 1 .. n
      BY <1>1 DEF Marks
    <2> QED
      BY <1>8, <2>1 DEF P!ClassEnds
  <1>15. CASE P!ClassEnds(m, i) = {}
    <2>1. \A k \in b .. Len(p) : ~P!Raw(m, k, "]")
      BY <1>1, <1>7, <1>9, <1>10, <1>14, <1>15
    <2>2. f[b].end = RANGE_ERROR
      <3>1. b \in 1 .. Len(p) + 2 /\ q # QUOTED /\ Scanning(f, p, q, a, c)
        BY <1>1, <1>2, <1>11
      <3> QED
        BY <2>1, <3>1, ScanError
    <2> QED
      BY <1>3, <1>13, <1>15, <2>2
  <1>16. CASE P!ClassEnds(m, i) # {}
    <2>1. PICK e \in P!ClassEnds(m, i) : \A k \in P!ClassEnds(m, i) : e <= k
      <3>1. P!ClassEnds(m, i) \subseteq Nat
        BY <1>14
      <3> QED
        BY <1>16, <3>1, LeastOne
    <2>2. e = P!ClassEnd(m, i)
      <3>1. P!ClassEnd(m, i) \in P!ClassEnds(m, i) /\ P!ClassEnd(m, i) <= e
        BY <2>1 DEF P!ClassEnd
      <3> QED
        BY <1>14, <2>1, <3>1
    <2>3. e \in 1 .. Len(p) /\ e > first /\ P!Raw(m, e, "]")
      BY <1>1, <1>14
    <2>4. PICK R : R = P!Operators(m, first, e - 1)
      OBVIOUS
    <2>5. Operating({k \in Nat : P!Raw(m, k, "-")}, R, first + 1, e - 2)
      <3>1. e - 1 \in Nat \ {0} /\ (e - 1) - 1 = e - 2
        BY <1>7, <2>3
      <3>2. Operating({k \in Nat : P!Raw(m, k, "-")}, R, first + 1, (e - 1) - 1)
        BY <2>4, <3>1, OperatorsAre
      <3> QED
        BY <3>1, <3>2
    <2>6. \A k \in R : k \in first + 1 .. e - 2 /\ P!Raw(m, k, "-")
      BY <2>5 DEF Operating
    <2>7. bracket => \A k \in R : k \in first + 2 .. e - 2
      <3>1. bracket => first + 1 \notin R
        BY <1>8, <1>9, <2>6 DEF PlainClass
      <3> QED
        BY <1>7, <2>3, <2>6, <3>1
    <2>8. b \in first .. e /\ b \notin R /\ b - 1 \notin R
      BY <1>7, <1>10, <2>3, <2>6, <2>7
    <2>9. \A k \in b .. e - 1 : ~P!Raw(m, k, "]")
      BY <1>1, <1>7, <1>9, <1>10, <1>14, <2>1, <2>3
    <2>10. f[b].end = e + 1 /\ (f[b].matched <=> InList(m, R, b, e - 1, c))
      <3>1. q # QUOTED /\ Scanning(f, p, q, a, c) /\ e \in 1 .. Len(p) /\ P!Raw(m, e, "]")
        BY <1>2, <1>11, <2>3
      <3> QED
        BY <2>5, <2>8, <2>9, <3>1, ScanHolds
    <2>11. matched <=> InList(m, R, first, e - 1, c)
      <3>1. CASE bracket
        <4>1. m[first].char = "]"
          BY <1>9, <3>1 DEF P!Raw
        <4>2. InList(m, R, first, e - 1, c) <=> InList(m, R, first + 1, e - 1, c) \/ c = "]"
          BY <2>3, <2>7, <3>1, <4>1, BracketFirst
        <4> QED
          BY <1>10, <1>12, <2>10, <3>1, <4>2
      <3>2. CASE ~bracket
        BY <1>10, <1>12, <2>10, <3>2
      <3> QED
        BY <3>1, <3>2
    <2>12. matched <=> c \in P!Members(m, first, e - 1)
      <3>1. e - 1 \in Nat \ {0} /\ e - 1 <= Len(m) /\ m \in Seq(Signed)
        BY <1>1, <1>7, <2>3 DEF Marks
      <3> QED
        BY <2>4, <2>11, <3>1, MembersAre
    <2>13. c \in P!Class(m, i) <=> ~(matched <=> neg)
      <3>1. P!Class(m, i) = IF neg THEN Symbols \ P!Members(m, first, e - 1) ELSE P!Members(m, first, e - 1)
        <4>1. P!Raw(m, i + 1, "~") <=> neg
          BY <1>3, <1>6
        <4>2. P!Class(m, i) = IF P!Raw(m, i + 1, "~") THEN Symbols \ P!Members(m, first, e - 1)
                                                     ELSE P!Members(m, first, e - 1)
          BY <1>8, <2>2, Zenon DEF P!Class, Symbols, P!ToSet, ToSet
        <4> QED
          BY <4>1, <4>2
      <3> QED
        BY <2>12, <3>1
    <2>14. e + 1 # RANGE_ERROR
      BY <2>3 DEF RANGE_ERROR
    <2>15. e \in i + 1 .. Len(p)
      BY <1>3, <1>7, <2>3
    <2> QED
      BY <1>3, <1>13, <1>16, <2>2, <2>10, <2>13, <2>14, <2>15
  <1> QED
    BY <1>15, <1>16

-----------------------------------------------------------------------------
(***************************************************************************)
(* Matching                                                                *)
(***************************************************************************)
Starring(p, q, j, e) ==
  /\ At(p, e) # "*" \/ ISQUOTED(q, e)
  /\ \A k \in j .. e - 1 : p[k] = "*" /\ ~ISQUOTED(q, k)

LEMMA StarringIs ==
  ASSUME NEW p \in Seq(Symbols), NEW q, NEW m, Marks(m, p, q),
         NEW j \in 1 .. Len(p) + 1, NEW e \in j .. Len(p) + 1
  PROVE  Starring(p, q, j, e) <=> ~P!Raw(m, e, "*") /\ \A k \in j .. e - 1 : P!Raw(m, k, "*")
  <1>1. PICK n \in Nat : n = Len(p)
    OBVIOUS
  <1>2. ASSUME NEW k \in 1 .. n + 1
        PROVE  P!Raw(m, k, "*") <=> At(p, k) = "*" /\ ~ISQUOTED(q, k)
    <2>1. P!Raw(m, k, "*") <=> k \in 1 .. Len(p) /\ p[k] = "*" /\ ~ISQUOTED(q, k)
      BY <1>1, RawIs DEF NUL
    <2> QED
      BY <1>1, <2>1 DEF At, NUL
  <1>3. ASSUME NEW k \in j .. e - 1
        PROVE  P!Raw(m, k, "*") <=> p[k] = "*" /\ ~ISQUOTED(q, k)
    <2>1. k \in 1 .. n + 1 /\ k <= Len(p)
      BY <1>1
    <2> QED
      BY <1>2, <2>1 DEF At
  <1>4. e \in 1 .. n + 1
    BY <1>1
  <1> QED
    BY <1>2, <1>3, <1>4 DEF Starring

LEMMA StarEndIs ==
  ASSUME NEW p \in Seq(Symbols), NEW q, NEW m, Marks(m, p, q), NEW j \in 1 .. Len(p) + 1
  PROVE  /\ StarEnd(p, q, j) \in j .. Len(p) + 1
         /\ ~P!Raw(m, j, "*") => StarEnd(p, q, j) = j
         /\ P!Raw(m, j, "*") => j <= Len(p) /\ StarEnd(p, q, j) = StarEnd(p, q, j + 1)
  <1>1. PICK n \in Nat : n = Len(p)
    OBVIOUS
  <1> DEFINE Ends(l, e) == ~P!Raw(m, e, "*") /\ \A k \in l .. e - 1 : P!Raw(m, k, "*")
  <1>2. ~P!Raw(m, n + 1, "*")
    BY <1>1, RawIs DEF NUL
  <1>3. ASSUME NEW l \in 1 .. n + 1
        PROVE  StarEnd(p, q, l) \in l .. n + 1 /\ Ends(l, StarEnd(p, q, l))
    <2>1. PICK e \in {k \in l .. n + 1 : ~P!Raw(m, k, "*")} :
            \A k \in {k \in l .. n + 1 : ~P!Raw(m, k, "*")} : e <= k
      <3>1. {k \in l .. n + 1 : ~P!Raw(m, k, "*")} \subseteq Nat
        OBVIOUS
      <3>2. n + 1 \in {k \in l .. n + 1 : ~P!Raw(m, k, "*")}
        BY <1>2
      <3> QED
        BY <3>1, <3>2, LeastOne
    <2>2. Ends(l, e)
      BY <2>1
    <2>3. \A d \in l .. Len(p) + 1 : Starring(p, q, l, d) <=> Ends(l, d)
      BY <1>1, StarringIs
    <2>4. StarEnd(p, q, l) = CHOOSE d \in l .. Len(p) + 1 : Starring(p, q, l, d)
      BY DEF StarEnd, Starring
    <2>5. e \in l .. Len(p) + 1 /\ Starring(p, q, l, e)
      BY <1>1, <2>1, <2>2, <2>3
    <2>6. StarEnd(p, q, l) \in l .. Len(p) + 1 /\ Starring(p, q, l, StarEnd(p, q, l))
      BY <2>4, <2>5
    <2> QED
      BY <1>1, <2>3, <2>6
  <1>4. ASSUME NEW l \in 1 .. n + 1, NEW d \in l .. n + 1, NEW e \in l .. n + 1, Ends(l, d), Ends(l, e)
        PROVE  d = e
    <2>1. ~ d < e
      BY <1>4
    <2>2. ~ e < d
      BY <1>4
    <2> QED
      BY <2>1, <2>2
  <1>5. CASE ~P!Raw(m, j, "*")
    <2>1. Ends(j, j) /\ j \in j .. n + 1
      BY <1>1, <1>5
    <2> QED
      BY <1>1, <1>3, <1>4, <1>5, <2>1
  <1>6. CASE P!Raw(m, j, "*")
    <2>1. j <= n
      BY <1>1, <1>2, <1>6
    <2>2. PICK e \in j + 1 .. n + 1 : e = StarEnd(p, q, j + 1) /\ Ends(j + 1, e)
      <3>1. j + 1 \in 1 .. n + 1
        BY <1>1, <2>1
      <3> HIDE DEF Ends
      <3> QED
        BY <1>3, <3>1
    <2>3. Ends(j, e) /\ e \in j .. n + 1
      BY <1>1, <1>6, <2>2
    <2> QED
      BY <1>1, <1>3, <1>4, <1>6, <2>1, <2>2, <2>3
  <1> QED
    BY <1>5, <1>6

\* What match answers at position j of the pattern and i of the string, where
\* f has the answers for what follows.
MatchBody(s, p, q, f, j, i) ==
  LET c == At(p, j)
      e == StarEnd(p, q, j + 1)
      literal == At(s, i) = c /\ f[j + 1][i + 1]
  IN  IF j > Len(p) THEN i > Len(s)
      ELSE IF ISQUOTED(q, j) \/ c \notin {"?", "*", "["} THEN literal
      ELSE \/ c = "?" /\ i <= Len(s) /\ f[j + 1][i + 1]
           \/ c = "*" /\ (e > Len(p) \/ \E k \in i .. Len(s) : f[e][k])
           \/ /\ c = "[" /\ i <= Len(s)
              /\ \E class \in {rangematch(p, q, j + 1, At(s, i))} :
                   (class > 0 /\ f[class][i + 1]) \/ (class = RANGE_ERROR /\ literal)
MatchRow(s, p, q, f, j) == [i \in 1 .. Len(s) + 1 |-> MatchBody(s, p, q, f, j, i)]
MatchRows(s, p, q, f) == f = [j \in 1 .. Len(p) + 1 |-> MatchRow(s, p, q, f, j)]

\* The position behind the item that starts at j.
Behind(m, j) == IF P!IsClass(m, j) THEN P!ClassEnd(m, j) + 1 ELSE j + 1

\* The same in terms of the marked pattern.
Reply(s, m, f, j, i, e) ==
  IF j > Len(m) THEN i > Len(s)
  ELSE IF P!Raw(m, j, "*") THEN e > Len(m) \/ \E k \in i .. Len(s) : f[e][k]
  ELSE i <= Len(s) /\ s[i] \in P!Item(m, j).chars /\ f[Behind(m, j)][i + 1]

LEMMA BehindIs ==
  ASSUME NEW p \in Seq(Symbols), NEW q, NEW m, Marks(m, p, q), NEW j \in 1 .. Len(p), PlainClass(m, j)
  PROVE  Behind(m, j) \in j + 1 .. Len(p) + 1
  <1>1. CASE P!IsClass(m, j)
    <2>1. CharOrder[1] \in Symbols
      <3>1. p[j] \in Symbols
        OBVIOUS
      <3> QED
        BY <3>1, SymbolsAre
    <2>2. P!ClassEnd(m, j) \in j + 1 .. Len(p)
      BY <1>1, <2>1, RangematchIs DEF P!IsClass
    <2> QED
      BY <1>1, <2>2 DEF Behind
  <1>2. CASE ~P!IsClass(m, j)
    BY <1>2 DEF Behind
  <1> QED
    BY <1>1, <1>2

LEMMA ReplyIs ==
  ASSUME NEW s \in Seq(Symbols), NEW p \in Seq(Symbols), NEW q, NEW m, Marks(m, p, q),
         NEW f, NEW j \in 1 .. Len(p) + 1, NEW i \in 1 .. Len(s) + 1, j <= Len(p) => PlainClass(m, j)
  PROVE  MatchBody(s, p, q, f, j, i) <=> Reply(s, m, f, j, i, StarEnd(p, q, j + 1))
  <1>1. PICK n \in Nat : n = Len(p) /\ n = Len(m)
    BY DEF Marks
  <1>2. CASE j > n
    BY <1>1, <1>2 DEF MatchBody, Reply
  <1>3. CASE ~ j > n
    <2>1. j \in 1 .. Len(p) /\ j \in Nat /\ j <= n /\ PlainClass(m, j)
      BY <1>1, <1>3
    <2>2. PICK c \in Symbols : c = p[j] /\ c = At(p, j) /\ c = m[j].char
      BY <2>1, SymbolAt DEF Marks
    <2>3. \A x : x # NUL => (P!Raw(m, j, x) <=> c = x /\ ~ISQUOTED(q, j))
      <3>1. ASSUME NEW x, x # NUL PROVE P!Raw(m, j, x) <=> c = x /\ ~ISQUOTED(q, j)
        <4>1. P!Raw(m, j, x) <=> j \in 1 .. Len(p) /\ p[j] = x /\ ~ISQUOTED(q, j)
          BY <2>1, <3>1, RawIs
        <4> QED
          BY <2>1, <2>2, <4>1
      <3> QED
        BY <3>1
    <2>4. i <= Len(s) => At(s, i) = s[i] /\ s[i] \in Symbols
      BY DEF At
    <2>5. At(s, i) = c => i <= Len(s)
      BY SymbolsAre DEF At
    <2>6. At(s, i) = c <=> i <= Len(s) /\ s[i] = c
      BY <2>4, <2>5
    <2>7. CASE P!Raw(m, j, "*")
      <3>1. c = "*" /\ ~ISQUOTED(q, j)
        BY <2>3, <2>7 DEF NUL
      <3> QED
        BY <1>1, <2>1, <2>2, <2>7, <3>1 DEF MatchBody, Reply
    <2>8. CASE P!IsClass(m, j)
      <3>1. c = "[" /\ ~ISQUOTED(q, j) /\ P!Raw(m, j, "[") /\ P!ClassEnds(m, j) # {}
        BY <2>3, <2>8 DEF NUL, P!IsClass
      <3>2. ~P!Raw(m, j, "*")
        BY <2>3, <3>1 DEF NUL
      <3>3. P!Item(m, j).chars = P!Class(m, j)
        BY <2>8 DEF P!Item
      <3>4. ASSUME i <= Len(s)
            PROVE  rangematch(p, q, j + 1, At(s, i))
                     = IF s[i] \in P!Class(m, j) THEN Behind(m, j) ELSE RANGE_FAIL
        <4>1. PICK x \in Symbols : x = s[i] /\ x = At(s, i)
          BY <2>4, <3>4
        <4>2. rangematch(p, q, j + 1, x) = IF x \in P!Class(m, j) THEN P!ClassEnd(m, j) + 1 ELSE RANGE_FAIL
          BY <2>1, <3>1, RangematchIs
        <4> QED
          BY <2>8, <4>1, <4>2 DEF Behind
      <3>5. PICK b \in 1 .. n + 1 : b = Behind(m, j)
        <4>1. Behind(m, j) \in j + 1 .. Len(p) + 1
          BY <2>1, BehindIs
        <4> QED
          BY <1>1, <2>1, <4>1
      <3>6. RANGE_FAIL = -1 /\ RANGE_ERROR = -2
        BY DEF RANGE_FAIL, RANGE_ERROR
      <3>7. MatchBody(s, p, q, f, j, i) <=>
              /\ i <= Len(s)
              /\ \/ rangematch(p, q, j + 1, At(s, i)) > 0 /\ f[rangematch(p, q, j + 1, At(s, i))][i + 1]
                 \/ rangematch(p, q, j + 1, At(s, i)) = RANGE_ERROR /\ At(s, i) = c /\ f[j + 1][i + 1]
        BY <1>1, <2>1, <2>2, <3>1 DEF MatchBody
      <3>8. Reply(s, m, f, j, i, StarEnd(p, q, j + 1)) <=> i <= Len(s) /\ s[i] \in P!Class(m, j) /\ f[b][i + 1]
        BY <1>1, <2>1, <3>2, <3>3, <3>5 DEF Reply
      <3> QED
        BY <3>4, <3>5, <3>6, <3>7, <3>8
    <2>9. CASE ~P!Raw(m, j, "*") /\ ~P!IsClass(m, j)
      <3>1. Behind(m, j) = j + 1
        BY <2>9 DEF Behind
      <3>2. CASE P!Raw(m, j, "?")
        <4>1. c = "?" /\ ~ISQUOTED(q, j)
          BY <2>3, <3>2 DEF NUL
        <4>2. P!Item(m, j).chars = Symbols
          BY <2>9, <3>2 DEF P!Item, Symbols, P!ToSet, ToSet
        <4> QED
          BY <1>1, <2>1, <2>2, <2>4, <2>9, <3>1, <4>1, <4>2 DEF MatchBody, Reply
      <3>3. CASE ~P!Raw(m, j, "?")
        <4>1. P!Item(m, j).chars = {c}
          BY <2>2, <2>9, <3>3 DEF P!Item
        <4>2. MatchBody(s, p, q, f, j, i) <=> At(s, i) = c /\ f[j + 1][i + 1]
          <5>1. CASE ISQUOTED(q, j) \/ c \notin {"?", "*", "["}
            BY <1>1, <2>1, <2>2, <5>1 DEF MatchBody
          <5>2. CASE ~(ISQUOTED(q, j) \/ c \notin {"?", "*", "["})
            <6>1. c = "["
              BY <2>3, <2>9, <3>3, <5>2 DEF NUL
            <6>2. P!Raw(m, j, "[") /\ P!ClassEnds(m, j) = {}
              BY <2>3, <2>9, <5>2, <6>1 DEF NUL, P!IsClass
            <6>3. ASSUME i <= Len(s) PROVE rangematch(p, q, j + 1, At(s, i)) = RANGE_ERROR
              <7>1. PICK x \in Symbols : x = At(s, i)
                BY <2>4, <6>3
              <7> QED
                BY <2>1, <6>2, <7>1, RangematchIs
            <6>4. ~ RANGE_ERROR > 0
              BY DEF RANGE_ERROR
            <6>5. MatchBody(s, p, q, f, j, i) <=>
                    /\ i <= Len(s)
                    /\ \/ rangematch(p, q, j + 1, At(s, i)) > 0 /\ f[rangematch(p, q, j + 1, At(s, i))][i + 1]
                       \/ rangematch(p, q, j + 1, At(s, i)) = RANGE_ERROR /\ At(s, i) = c /\ f[j + 1][i + 1]
              BY <1>1, <2>1, <2>2, <5>2, <6>1 DEF MatchBody
            <6> QED
              BY <2>5, <6>3, <6>4, <6>5
          <5> QED
            BY <5>1, <5>2
        <4>3. Reply(s, m, f, j, i, StarEnd(p, q, j + 1)) <=> i <= Len(s) /\ s[i] = c /\ f[j + 1][i + 1]
          BY <1>1, <2>1, <2>9, <3>1, <4>1 DEF Reply
        <4> QED
          BY <2>6, <4>2, <4>3
      <3> QED
        BY <3>2, <3>3
    <2> QED
      BY <2>7, <2>8, <2>9
  <1> QED
    BY <1>2, <1>3

PlainClasses(m) == \A j \in 1 .. Len(m) : PlainClass(m, j)

MatchTable(f, s, m, p, q) ==
  /\ f \in [1 .. Len(p) + 1 -> [1 .. Len(s) + 1 -> BOOLEAN]]
  /\ \A j \in 1 .. Len(p) + 1, i \in 1 .. Len(s) + 1 : f[j][i] <=> Reply(s, m, f, j, i, StarEnd(p, q, j + 1))

LEMMA RowIs ==
  ASSUME NEW s \in Seq(Symbols), NEW p \in Seq(Symbols), NEW q, NEW m, Marks(m, p, q),
         PlainClasses(m), NEW f, NEW j \in 1 .. Len(p) + 1
  PROVE  /\ MatchRow(s, p, q, f, j) \in [1 .. Len(s) + 1 -> BOOLEAN]
         /\ \A i \in 1 .. Len(s) + 1 :
              MatchRow(s, p, q, f, j)[i] <=> Reply(s, m, f, j, i, StarEnd(p, q, j + 1))
         /\ \A h : (\A k \in 1 .. Len(p) + 1 : k > j => f[k] = h[k])
                     => MatchRow(s, p, q, f, j) = MatchRow(s, p, q, h, j)
  <1>1. PICK n \in Nat : n = Len(p) /\ n = Len(m)
    BY DEF Marks
  <1>2. j <= Len(p) => PlainClass(m, j)
    BY <1>1 DEF PlainClasses
  <1>3. ASSUME NEW h, NEW i \in 1 .. Len(s) + 1 PROVE MatchBody(s, p, q, h, j, i) \in BOOLEAN
    <2> DEFINE literal == At(s, i) = At(p, j) /\ h[j + 1][i + 1]
               any == At(p, j) = "?" /\ i <= Len(s) /\ h[j + 1][i + 1]
               star == At(p, j) = "*" /\ (StarEnd(p, q, j + 1) > Len(p)
                                           \/ \E k \in i .. Len(s) : h[StarEnd(p, q, j + 1)][k])
               one == /\ At(p, j) = "[" /\ i <= Len(s)
                      /\ \E class \in {rangematch(p, q, j + 1, At(s, i))} :
                           (class > 0 /\ h[class][i + 1]) \/ (class = RANGE_ERROR /\ literal)
    <2>1. MatchBody(s, p, q, h, j, i)
            = IF j > Len(p) THEN i > Len(s)
              ELSE IF ISQUOTED(q, j) \/ At(p, j) \notin {"?", "*", "["} THEN literal
              ELSE any \/ star \/ one
      BY DEF MatchBody
    <2>2. literal \in BOOLEAN /\ (any \/ star \/ one) \in BOOLEAN /\ (i > Len(s)) \in BOOLEAN
      <3> HIDE DEF any, star, one
      <3> QED
        OBVIOUS
    <2> HIDE DEF literal, any, star, one
    <2> QED
      BY <2>1, <2>2
  <1>4. ASSUME NEW h, NEW i \in 1 .. Len(s) + 1
        PROVE  MatchRow(s, p, q, h, j)[i] <=> Reply(s, m, h, j, i, StarEnd(p, q, j + 1))
    <2>1. MatchRow(s, p, q, h, j)[i] = MatchBody(s, p, q, h, j, i)
      BY DEF MatchRow
    <2>2. MatchBody(s, p, q, h, j, i) <=> Reply(s, m, h, j, i, StarEnd(p, q, j + 1))
      BY <1>2, ReplyIs
    <2> QED
      BY <2>1, <2>2
  <1>5. ASSUME NEW h PROVE MatchRow(s, p, q, h, j) \in [1 .. Len(s) + 1 -> BOOLEAN]
    BY <1>3 DEF MatchRow
  <1>6. ASSUME NEW h, \A k \in 1 .. Len(p) + 1 : k > j => f[k] = h[k]
        PROVE  MatchRow(s, p, q, f, j) = MatchRow(s, p, q, h, j)
    <2>1. ASSUME NEW i \in 1 .. Len(s) + 1, NEW e, e = StarEnd(p, q, j + 1)
          PROVE  Reply(s, m, f, j, i, e) <=> Reply(s, m, h, j, i, e)
      <3>1. CASE j > n
        BY <1>1, <3>1 DEF Reply
      <3>2. CASE ~ j > n
        <4>1. j \in 1 .. Len(p) /\ j + 1 \in 1 .. Len(p) + 1 /\ PlainClass(m, j)
          BY <1>1, <1>2, <3>2
        <4>2. e \in j + 1 .. Len(p) + 1
          BY <2>1, <4>1, StarEndIs
        <4>3. Behind(m, j) \in j + 1 .. Len(p) + 1
          BY <4>1, BehindIs
        <4>4. \A k \in j + 1 .. Len(p) + 1 : f[k] = h[k]
          BY <1>1, <1>6
        <4>5. f[e] = h[e] /\ f[Behind(m, j)] = h[Behind(m, j)]
          BY <4>2, <4>3, <4>4
        <4> QED
          BY <4>5 DEF Reply
      <3> QED
        BY <3>1, <3>2
    <2>2. ASSUME NEW i \in 1 .. Len(s) + 1
          PROVE  MatchRow(s, p, q, f, j)[i] <=> MatchRow(s, p, q, h, j)[i]
      <3>1. Reply(s, m, f, j, i, StarEnd(p, q, j + 1)) <=> Reply(s, m, h, j, i, StarEnd(p, q, j + 1))
        BY <2>1
      <3>2. MatchRow(s, p, q, f, j)[i] <=> Reply(s, m, f, j, i, StarEnd(p, q, j + 1))
        BY <1>4
      <3>3. MatchRow(s, p, q, h, j)[i] <=> Reply(s, m, h, j, i, StarEnd(p, q, j + 1))
        BY <1>4
      <3> QED
        BY <3>1, <3>2, <3>3
    <2>3. PICK u \in [1 .. Len(s) + 1 -> BOOLEAN] : u = MatchRow(s, p, q, f, j)
      BY <1>5
    <2>4. PICK v \in [1 .. Len(s) + 1 -> BOOLEAN] : v = MatchRow(s, p, q, h, j)
      BY <1>5
    <2>5. \A i \in 1 .. Len(s) + 1 : u[i] = v[i]
      BY <2>2, <2>3, <2>4
    <2> QED
      BY <2>3, <2>4, <2>5
  <1> QED
    BY <1>4, <1>5, <1>6

LEMMA MatchFromIs ==
  ASSUME NEW s \in Seq(Symbols), NEW p \in Seq(Symbols), NEW q, NEW m, Marks(m, p, q), PlainClasses(m)
  PROVE  MatchTable(MatchFrom(s, p, q), s, m, p, q)
  <1> DEFINE D == 1 .. Len(p) + 1
             V == [1 .. Len(s) + 1 -> BOOLEAN]
             g == [j \in D |-> [f \in [D -> V] |-> MatchRow(s, p, q, f, j)]]
             rank == [j \in D |-> Len(p) + 1 - j]
  <1>1. g \in [D -> [[D -> V] -> V]]
    BY RowIs
  <1>2. rank \in [D -> 0 .. Len(p) + 1] /\ Len(p) + 1 \in Nat
    OBVIOUS
  <1>3. [i \in 1 .. Len(s) + 1 |-> TRUE] \in V
    OBVIOUS
  <1>4. ASSUME NEW x \in D, NEW f \in [D -> V], NEW h \in [D -> V],
               \A y \in D : rank[y] < rank[x] => f[y] = h[y]
        PROVE  g[x][f] = g[x][h]
    <2>1. \A y \in D : y > x => f[y] = h[y]
      BY <1>4
    <2>2. MatchRow(s, p, q, f, x) = MatchRow(s, p, q, h, x)
      BY <2>1, RowIs
    <2> QED
      BY <2>2
  <1>5. PICK f : Recurs(D, V, g, f)
    <2> HIDE DEF D, V, g, rank
    <2> QED
      BY <1>1, <1>2, <1>3, <1>4, Recursion
  <1>6. f \in [D -> V] /\ \A x \in D : f[x] = MatchRow(s, p, q, f, x)
    BY <1>5 DEF Recurs
  <1>7. MatchRows(s, p, q, f)
    BY <1>6 DEF MatchRows
  <1>8. MatchFrom(s, p, q) = CHOOSE h : MatchRows(s, p, q, h)
    BY DEF MatchFrom, MatchRows, MatchRow, MatchBody
  <1>9. PICK h : h = MatchFrom(s, p, q) /\ MatchRows(s, p, q, h)
    BY <1>7, <1>8
  <1>10. h = [x \in D |-> h[x]] /\ \A x \in D : h[x] = MatchRow(s, p, q, h, x)
    BY <1>9 DEF MatchRows
  <1>11. ASSUME NEW x \in D PROVE h[x] \in V
    <2>1. MatchRow(s, p, q, h, x) \in V
      BY RowIs
    <2> QED
      BY <1>10, <2>1
  <1>12. h \in [D -> V]
    BY <1>10, <1>11
  <1>13. ASSUME NEW j \in D, NEW i \in 1 .. Len(s) + 1
         PROVE  h[j][i] <=> Reply(s, m, h, j, i, StarEnd(p, q, j + 1))
    <2>1. MatchRow(s, p, q, h, j)[i] <=> Reply(s, m, h, j, i, StarEnd(p, q, j + 1))
      BY RowIs
    <2> QED
      BY <1>10, <2>1
  <1> QED
    BY <1>9, <1>12, <1>13 DEF MatchTable

-----------------------------------------------------------------------------
(***************************************************************************)
(* Items                                                                   *)
(***************************************************************************)
ItemRow(m, f, j) == IF j > Len(m) THEN <<>> ELSE <<P!Item(m, j)>> \o f[Behind(m, j)]
ItemRows(m, f) == f = [j \in 1 .. Len(m) + 1 |-> ItemRow(m, f, j)]
ItemsOf(m) == {P!Item(m, j) : j \in 1 .. Len(m)}

\* F[j] are the items from position j on.
ItemTable(F, m) ==
  /\ F \in [1 .. Len(m) + 1 -> Seq(ItemsOf(m))]
  /\ \A j \in 1 .. Len(m) + 1 : F[j] = ItemRow(m, F, j)

LEMMA ItemRowIs ==
  ASSUME NEW p \in Seq(Symbols), NEW q, NEW m, Marks(m, p, q), PlainClasses(m),
         NEW f \in [1 .. Len(m) + 1 -> Seq(ItemsOf(m))], NEW j \in 1 .. Len(m) + 1
  PROVE  /\ ItemRow(m, f, j) \in Seq(ItemsOf(m))
         /\ \A h : (\A k \in 1 .. Len(m) + 1 : k > j => f[k] = h[k]) => ItemRow(m, f, j) = ItemRow(m, h, j)
  <1>1. PICK n \in Nat : n = Len(p) /\ n = Len(m)
    BY DEF Marks
  <1>2. CASE j > n
    BY <1>1, <1>2, EmptySeq DEF ItemRow
  <1>3. CASE ~ j > n
    <2>1. j \in 1 .. Len(p) /\ PlainClass(m, j)
      BY <1>1, <1>3 DEF PlainClasses
    <2>2. Behind(m, j) \in j + 1 .. Len(p) + 1
      BY <2>1, BehindIs
    <2>3. PICK b \in 1 .. Len(m) + 1 : b = Behind(m, j) /\ b > j
      BY <1>1, <2>2
    <2>4. P!Item(m, j) \in ItemsOf(m)
      BY <1>1, <2>1 DEF ItemsOf
    <2>5. PICK r \in Seq(ItemsOf(m)) : r = f[b]
      OBVIOUS
    <2>6. PICK x \in ItemsOf(m) : x = P!Item(m, j)
      BY <2>4
    <2>7. <<x>> \o r \in Seq(ItemsOf(m))
      OBVIOUS
    <2>8. ItemRow(m, f, j) = <<x>> \o r
      BY <1>1, <2>1, <2>3, <2>5, <2>6 DEF ItemRow
    <2>9. ASSUME NEW h, \A k \in 1 .. Len(m) + 1 : k > j => f[k] = h[k]
          PROVE  ItemRow(m, f, j) = ItemRow(m, h, j)
      BY <2>3, <2>9 DEF ItemRow
    <2> QED
      BY <2>7, <2>8, <2>9
  <1> QED
    BY <1>2, <1>3

LEMMA ItemsAre ==
  ASSUME NEW p \in Seq(Symbols), NEW q, NEW m, Marks(m, p, q), PlainClasses(m)
  PROVE  \E F : ItemTable(F, m) /\ P!Items(m) = F[1]
  <1>1. PICK n \in Nat : n = Len(m)
    BY DEF Marks
  <1> DEFINE D == 1 .. n + 1
             V == Seq(ItemsOf(m))
             g == [j \in D |-> [f \in [D -> V] |-> ItemRow(m, f, j)]]
             rank == [j \in D |-> n + 1 - j]
  <1>2. g \in [D -> [[D -> V] -> V]]
    BY <1>1, ItemRowIs
  <1>3. rank \in [D -> 0 .. n + 1] /\ n + 1 \in Nat
    OBVIOUS
  <1>4. <<>> \in V
    BY EmptySeq
  <1>5. ASSUME NEW x \in D, NEW f \in [D -> V], NEW h, \A y \in D : rank[y] < rank[x] => f[y] = h[y]
        PROVE  ItemRow(m, f, x) = ItemRow(m, h, x)
    <2>1. \A y \in D : y > x => f[y] = h[y]
      BY <1>5
    <2> QED
      BY <1>1, <2>1, ItemRowIs
  <1>6. PICK f : Recurs(D, V, g, f)
    <2>1. \A x \in D : \A u, h \in [D -> V] :
            (\A y \in D : rank[y] < rank[x] => u[y] = h[y]) => g[x][u] = g[x][h]
      BY <1>5
    <2> HIDE DEF D, V, g, rank
    <2> QED
      BY <1>2, <1>3, <1>4, <2>1, Recursion
  <1>7. f \in [D -> V] /\ \A x \in D : f[x] = ItemRow(m, f, x)
    BY <1>6 DEF Recurs
  <1>8. ItemRows(m, f)
    BY <1>1, <1>7 DEF ItemRows
  <1>9. P!Items(m) = (CHOOSE h : ItemRows(m, h))[1]
    BY DEF P!Items, ItemRows, ItemRow, Behind
  <1>10. PICK h : h = (CHOOSE u : ItemRows(m, u)) /\ ItemRows(m, h)
    BY <1>8
  <1>11. \A x \in D : h[x] = ItemRow(m, h, x)
    BY <1>1, <1>10 DEF ItemRows
  <1>12. SameIfSameBelow(D, rank, f, h)
    <2>1. ASSUME NEW x \in D, \A y \in D : rank[y] < rank[x] => f[y] = h[y] PROVE f[x] = h[x]
      BY <1>5, <1>7, <1>11, <2>1
    <2> HIDE DEF D, rank
    <2> QED
      BY <2>1 DEF SameIfSameBelow
  <1>13. \A x \in D : f[x] = h[x]
    <2>1. PICK N \in Nat : rank \in [D -> 0 .. N]
      BY <1>3
    <2> HIDE DEF D, rank
    <2> QED
      BY <1>12, <2>1, SameByRank
  <1>14. P!Items(m) = f[1]
    BY <1>9, <1>10, <1>13
  <1> QED
    BY <1>1, <1>7, <1>14 DEF ItemTable

-----------------------------------------------------------------------------
(***************************************************************************)
(* Cuts                                                                    *)
(***************************************************************************)
\* f cuts s, from position b to e, into pieces for the first n items.
CutTo(f, s, items, n, b, e) ==
  /\ f \in [0 .. n -> 0 .. Len(s)] /\ f[0] = b /\ f[n] = e
  /\ \A k \in 1 .. n : f[k - 1] <= f[k] /\ P!Takes(items[k], SubSeq(s, f[k - 1] + 1, f[k]))
CutFrom(s, items, b) == \E f : CutTo(f, s, items, Len(items), b, Len(s))

LEMMA CutNothing ==
  ASSUME NEW S, NEW s \in Seq(S), NEW b \in 0 .. Len(s)
  PROVE  CutFrom(s, <<>>, b) <=> b = Len(s)
  <1>1. Len(<<>>) = 0
    BY EmptySeq
  <1>2. ASSUME b = Len(s) PROVE CutTo([k \in 0 .. 0 |-> b], s, <<>>, 0, b, Len(s))
    BY <1>2 DEF CutTo
  <1>3. ASSUME NEW f, CutTo(f, s, <<>>, 0, b, Len(s)) PROVE b = Len(s)
    BY <1>3 DEF CutTo
  <1> QED
    BY <1>1, <1>2, <1>3 DEF CutFrom

\* A cut goes on with a cut of the rest, and a cut of the rest can be begun.
Shifted(f, n) == [k \in 0 .. n |-> f[k + 1]]
Begin(b, g, n) == [k \in 0 .. n + 1 |-> IF k = 0 THEN b ELSE g[k - 1]]

LEMMA ConsIs ==
  ASSUME NEW I, NEW it \in I, NEW rest \in Seq(I)
  PROVE  /\ <<it>> \o rest \in Seq(I) /\ Len(<<it>> \o rest) = Len(rest) + 1 /\ Len(rest) \in Nat
         /\ (<<it>> \o rest)[1] = it /\ \A k \in 1 .. Len(rest) : (<<it>> \o rest)[k + 1] = rest[k]
  <1>1. <<it>> \in Seq(I)
    OBVIOUS
  <1>2. <<it>> \o rest \in Seq(I)
    BY <1>1
  <1> QED
    BY <1>2

LEMMA CutTail ==
  ASSUME NEW S, NEW s \in Seq(S), NEW I, NEW it \in I, NEW rest \in Seq(I),
         NEW b \in 0 .. Len(s), NEW f, CutTo(f, s, <<it>> \o rest, Len(rest) + 1, b, Len(s))
  PROVE  /\ f \in [0 .. Len(rest) + 1 -> 0 .. Len(s)] /\ f[0] = b
         /\ f[1] \in b .. Len(s) /\ P!Takes(it, SubSeq(s, b + 1, f[1]))
         /\ CutTo(Shifted(f, Len(rest)), s, rest, Len(rest), f[1], Len(s))
  <1>1. PICK L \in Nat : L = Len(s)
    OBVIOUS
  <1>2. PICK N \in Nat : N = Len(rest)
    OBVIOUS
  <1>3. PICK items : items = <<it>> \o rest
    OBVIOUS
  <1>4. items[1] = it /\ \A k \in 1 .. N : items[k + 1] = rest[k]
    BY <1>2, <1>3, ConsIs
  <1>5. f \in [0 .. N + 1 -> 0 .. L] /\ f[0] = b /\ f[N + 1] = L
    BY <1>1, <1>2 DEF CutTo
  <1>6. \A k \in 1 .. N + 1 : f[k - 1] <= f[k] /\ P!Takes(items[k], SubSeq(s, f[k - 1] + 1, f[k]))
    BY <1>2, <1>3 DEF CutTo
  <1>7. f[1] \in b .. L /\ P!Takes(it, SubSeq(s, b + 1, f[1]))
    <2>1. 1 \in 1 .. N + 1 /\ 1 \in 0 .. N + 1 /\ 1 - 1 = 0
      OBVIOUS
    <2>2. b <= f[1] /\ P!Takes(it, SubSeq(s, b + 1, f[1]))
      BY <1>4, <1>5, <1>6, <2>1
    <2> QED
      BY <1>1, <1>5, <2>1, <2>2
  <1>8. PICK g : g = Shifted(f, N)
    OBVIOUS
  <1>9. g \in [0 .. N -> 0 .. L] /\ g[0] = f[1] /\ g[N] = L
    BY <1>5, <1>8 DEF Shifted
  <1>10. ASSUME NEW k \in 1 .. N
         PROVE  g[k - 1] <= g[k] /\ P!Takes(rest[k], SubSeq(s, g[k - 1] + 1, g[k]))
    <2>1. g[k - 1] = f[k] /\ g[k] = f[k + 1] /\ k + 1 \in 1 .. N + 1 /\ (k + 1) - 1 = k
      BY <1>8 DEF Shifted
    <2>2. f[(k + 1) - 1] <= f[k + 1] /\ P!Takes(items[k + 1], SubSeq(s, f[(k + 1) - 1] + 1, f[k + 1]))
      BY <1>6, <2>1
    <2> QED
      BY <1>4, <2>1, <2>2
  <1>11. CutTo(g, s, rest, N, f[1], L)
    BY <1>1, <1>9, <1>10 DEF CutTo
  <1> QED
    BY <1>1, <1>2, <1>5, <1>7, <1>8, <1>11

LEMMA CutBegin ==
  ASSUME NEW S, NEW s \in Seq(S), NEW I, NEW it \in I, NEW rest \in Seq(I), NEW b \in 0 .. Len(s),
         NEW e \in b .. Len(s), P!Takes(it, SubSeq(s, b + 1, e)), NEW g, CutTo(g, s, rest, Len(rest), e, Len(s))
  PROVE  CutTo(Begin(b, g, Len(rest)), s, <<it>> \o rest, Len(rest) + 1, b, Len(s))
  <1>1. PICK L \in Nat : L = Len(s)
    OBVIOUS
  <1>2. PICK N \in Nat : N = Len(rest)
    OBVIOUS
  <1>3. PICK items : items = <<it>> \o rest
    OBVIOUS
  <1>4. items[1] = it /\ \A k \in 1 .. N : items[k + 1] = rest[k]
    BY <1>2, <1>3, ConsIs
  <1>5. g \in [0 .. N -> 0 .. L] /\ g[0] = e /\ g[N] = L
    BY <1>1, <1>2 DEF CutTo
  <1>6. \A k \in 1 .. N : g[k - 1] <= g[k] /\ P!Takes(rest[k], SubSeq(s, g[k - 1] + 1, g[k]))
    BY <1>2 DEF CutTo
  <1>7. PICK f : f = Begin(b, g, N)
    OBVIOUS
  <1>8. f \in [0 .. N + 1 -> 0 .. L] /\ f[0] = b /\ f[N + 1] = L
    BY <1>1, <1>5, <1>7 DEF Begin
  <1>9. ASSUME NEW k \in 1 .. N + 1
        PROVE  f[k - 1] <= f[k] /\ P!Takes(items[k], SubSeq(s, f[k - 1] + 1, f[k]))
    <2>1. CASE k = 1
      <3>1. f[k - 1] = b /\ f[k] = e
        BY <1>5, <1>7, <2>1 DEF Begin
      <3> QED
        BY <1>4, <2>1, <3>1
    <2>2. CASE k # 1
      <3>1. PICK i \in 1 .. N : i = k - 1
        BY <2>2
      <3>2. f[k - 1] = g[i - 1] /\ f[k] = g[i] /\ items[k] = rest[i]
        BY <1>4, <1>7, <3>1 DEF Begin
      <3> QED
        BY <1>6, <3>2
    <2> QED
      BY <2>1, <2>2
  <1>10. CutTo(f, s, items, N + 1, b, L)
    BY <1>1, <1>8, <1>9 DEF CutTo
  <1> QED
    BY <1>1, <1>2, <1>3, <1>7, <1>10

LEMMA CutMore ==
  ASSUME NEW S, NEW s \in Seq(S), NEW I, NEW it \in I, NEW rest \in Seq(I), NEW b \in 0 .. Len(s)
  PROVE  CutFrom(s, <<it>> \o rest, b)
           <=> \E e \in b .. Len(s) : P!Takes(it, SubSeq(s, b + 1, e)) /\ CutFrom(s, rest, e)
  <1>1. PICK items : items = <<it>> \o rest /\ Len(items) = Len(rest) + 1
    BY ConsIs
  <1>2. ASSUME NEW f, CutTo(f, s, items, Len(rest) + 1, b, Len(s))
        PROVE  \E e \in b .. Len(s) : P!Takes(it, SubSeq(s, b + 1, e)) /\ CutFrom(s, rest, e)
    <2>1. CutTo(f, s, <<it>> \o rest, Len(rest) + 1, b, Len(s))
      BY <1>1, <1>2
    <2>2. /\ f[1] \in b .. Len(s) /\ P!Takes(it, SubSeq(s, b + 1, f[1]))
          /\ CutTo(Shifted(f, Len(rest)), s, rest, Len(rest), f[1], Len(s))
      BY <2>1, CutTail
    <2> QED
      BY <2>2 DEF CutFrom
  <1>3. ASSUME NEW e \in b .. Len(s), P!Takes(it, SubSeq(s, b + 1, e)), CutFrom(s, rest, e)
        PROVE  \E f : CutTo(f, s, items, Len(rest) + 1, b, Len(s))
    BY <1>1, <1>3, CutBegin DEF CutFrom
  <1>4. CutFrom(s, items, b) <=> \E f : CutTo(f, s, items, Len(rest) + 1, b, Len(s))
    BY <1>1 DEF CutFrom
  <1> QED
    BY <1>1, <1>2, <1>3, <1>4

\* The ends that the first k items can have.
Reach(s, items, f, k) ==
  LET before == f[k - 1]
  IN  IF k = 0 THEN {0}
      ELSE {e \in 0 .. Len(s) : \E b \in before : b <= e /\ P!Takes(items[k], SubSeq(s, b + 1, e))}
ReachTable(s, items, f) == f = [k \in 0 .. Len(items) |-> Reach(s, items, f, k)]

LEMMA ReachIs ==
  ASSUME NEW S, NEW s \in Seq(S), NEW I, NEW items \in Seq(I)
  PROVE  \E f : /\ f \in [0 .. Len(items) -> SUBSET (0 .. Len(s))]
                /\ \A k \in 0 .. Len(items) : f[k] = Reach(s, items, f, k)
                /\ P!Matches(s, items) <=> Len(s) \in f[Len(items)]
  <1>1. PICK n \in Nat : n = Len(items)
    OBVIOUS
  <1> DEFINE D == 0 .. n
             V == SUBSET (0 .. Len(s))
             g == [k \in D |-> [f \in [D -> V] |-> Reach(s, items, f, k)]]
             rank == [k \in D |-> k]
  <1>2. \A f : \A k \in D : Reach(s, items, f, k) \in V
    BY DEF Reach
  <1>3. g \in [D -> [[D -> V] -> V]]
    BY <1>2
  <1>4. rank \in [D -> 0 .. n]
    OBVIOUS
  <1>5. {} \in V
    OBVIOUS
  <1>6. ASSUME NEW x \in D, NEW f \in [D -> V], NEW h \in [D -> V],
               \A y \in D : rank[y] < rank[x] => f[y] = h[y]
        PROVE  g[x][f] = g[x][h]
    <2>1. x # 0 => f[x - 1] = h[x - 1]
      BY <1>6
    <2>2. Reach(s, items, f, x) = Reach(s, items, h, x)
      BY <2>1 DEF Reach
    <2> QED
      BY <2>2
  <1>7. PICK f : Recurs(D, V, g, f)
    <2> HIDE DEF D, V, g, rank
    <2> QED
      BY <1>3, <1>4, <1>5, <1>6, Recursion
  <1>8. f \in [D -> V] /\ \A x \in D : f[x] = Reach(s, items, f, x)
    BY <1>7 DEF Recurs
  <1>9. ReachTable(s, items, f)
    BY <1>1, <1>8 DEF ReachTable
  <1>10. P!Matches(s, items) <=> Len(s) \in (CHOOSE h : ReachTable(s, items, h))[Len(items)]
    BY DEF P!Matches, ReachTable, Reach
  <1>11. PICK h : h = (CHOOSE u : ReachTable(s, items, u)) /\ ReachTable(s, items, h)
    BY <1>9
  <1>12. h = [k \in D |-> h[k]] /\ \A k \in D : h[k] = Reach(s, items, h, k)
    BY <1>1, <1>11 DEF ReachTable
  <1>13. h \in [D -> V]
    BY <1>2, <1>12
  <1> QED
    BY <1>1, <1>10, <1>11, <1>12, <1>13

\* To cut for k + 1 items is to cut for k, and once more.
LEMMA CutLast ==
  ASSUME NEW S, NEW s \in Seq(S), NEW items, NEW k \in Nat, NEW e \in 0 .. Len(s)
  PROVE  (\E f : CutTo(f, s, items, k + 1, 0, e)) <=>
           \E b \in 0 .. Len(s) : /\ \E f : CutTo(f, s, items, k, 0, b)
                                  /\ b <= e /\ P!Takes(items[k + 1], SubSeq(s, b + 1, e))
  <1>1. PICK L \in Nat : L = Len(s)
    OBVIOUS
  <1>2. ASSUME NEW f, CutTo(f, s, items, k + 1, 0, e)
        PROVE  \E b \in 0 .. L : /\ \E h : CutTo(h, s, items, k, 0, b)
                                 /\ b <= e /\ P!Takes(items[k + 1], SubSeq(s, b + 1, e))
    <2>1. f \in [0 .. k + 1 -> 0 .. L] /\ f[0] = 0 /\ f[k + 1] = e
      BY <1>1, <1>2 DEF CutTo
    <2>2. \A l \in 1 .. k + 1 : f[l - 1] <= f[l] /\ P!Takes(items[l], SubSeq(s, f[l - 1] + 1, f[l]))
      BY <1>2 DEF CutTo
    <2>3. PICK h : h = [l \in 0 .. k |-> f[l]]
      OBVIOUS
    <2>4. h \in [0 .. k -> 0 .. L] /\ h[0] = 0
      BY <2>1, <2>3
    <2>5. PICK b \in 0 .. L : b = h[k] /\ b = f[k]
      BY <2>1, <2>3
    <2>6. ASSUME NEW l \in 1 .. k
          PROVE  h[l - 1] <= h[l] /\ P!Takes(items[l], SubSeq(s, h[l - 1] + 1, h[l]))
      <3>1. h[l - 1] = f[l - 1] /\ h[l] = f[l] /\ l \in 1 .. k + 1
        BY <2>3
      <3> QED
        BY <2>2, <3>1
    <2>7. CutTo(h, s, items, k, 0, b)
      BY <1>1, <2>4, <2>5, <2>6 DEF CutTo
    <2>8. k + 1 \in 1 .. k + 1 /\ (k + 1) - 1 = k
      OBVIOUS
    <2>9. b <= e /\ P!Takes(items[k + 1], SubSeq(s, b + 1, e))
      BY <2>1, <2>2, <2>5, <2>8
    <2> QED
      BY <2>7, <2>9
  <1>3. ASSUME NEW b \in 0 .. L, NEW h, CutTo(h, s, items, k, 0, b),
               b <= e, P!Takes(items[k + 1], SubSeq(s, b + 1, e))
        PROVE  \E f : CutTo(f, s, items, k + 1, 0, e)
    <2>1. h \in [0 .. k -> 0 .. L] /\ h[0] = 0 /\ h[k] = b
      BY <1>1, <1>3 DEF CutTo
    <2>2. \A l \in 1 .. k : h[l - 1] <= h[l] /\ P!Takes(items[l], SubSeq(s, h[l - 1] + 1, h[l]))
      BY <1>3 DEF CutTo
    <2>3. PICK f : f = [l \in 0 .. k + 1 |-> IF l = k + 1 THEN e ELSE h[l]]
      OBVIOUS
    <2>4. f \in [0 .. k + 1 -> 0 .. L] /\ f[0] = 0 /\ f[k + 1] = e
      BY <1>1, <2>1, <2>3
    <2>5. ASSUME NEW l \in 1 .. k + 1
          PROVE  f[l - 1] <= f[l] /\ P!Takes(items[l], SubSeq(s, f[l - 1] + 1, f[l]))
      <3>1. CASE l = k + 1
        <4>1. f[l - 1] = b /\ f[l] = e
          BY <2>1, <2>3, <3>1
        <4> QED
          BY <1>3, <3>1, <4>1
      <3>2. CASE l # k + 1
        <4>1. l \in 1 .. k /\ f[l - 1] = h[l - 1] /\ f[l] = h[l]
          BY <2>3, <3>2
        <4> QED
          BY <2>2, <4>1
      <3> QED
        BY <3>1, <3>2
    <2>6. CutTo(f, s, items, k + 1, 0, e)
      BY <1>1, <2>4, <2>5 DEF CutTo
    <2> QED
      BY <2>6
  <1> QED
    BY <1>1, <1>2, <1>3

LEMMA MatchesAre ==
  ASSUME NEW S, NEW s \in Seq(S), NEW I, NEW items \in Seq(I)
  PROVE  P!Matches(s, items) <=> CutFrom(s, items, 0)
  <1>1. PICK n \in Nat : n = Len(items)
    OBVIOUS
  <1>2. PICK f : /\ f \in [0 .. n -> SUBSET (0 .. Len(s))]
                 /\ \A k \in 0 .. n : f[k] = Reach(s, items, f, k)
                 /\ P!Matches(s, items) <=> Len(s) \in f[n]
    BY <1>1, ReachIs
  <1>3. PICK L \in Nat : L = Len(s)
    OBVIOUS
  <1> DEFINE G == {k \in Nat : k <= n => \A e \in 0 .. L :
                                 e \in f[k] <=> \E h : CutTo(h, s, items, k, 0, e)}
  <1>4. ASSUME NEW k \in Nat, \A l \in 0 .. k - 1 : l \in G PROVE k \in G
    <2>1. CASE k = 0
      <3>1. f[0] = {0}
        BY <1>2 DEF Reach
      <3>2. CutTo([l \in 0 .. 0 |-> 0], s, items, 0, 0, 0)
        BY DEF CutTo
      <3>3. ASSUME NEW e, NEW h, CutTo(h, s, items, 0, 0, e) PROVE e = 0
        BY <3>3 DEF CutTo
      <3> QED
        BY <2>1, <3>1, <3>2, <3>3
    <2>2. CASE k # 0 /\ k <= n
      <3>1. PICK l \in Nat : l = k - 1 /\ k = l + 1 /\ l <= n
        BY <2>2
      <3>2. l \in G
        BY <1>4, <3>1
      <3>3. \A b \in 0 .. L : b \in f[l] <=> \E h : CutTo(h, s, items, l, 0, b)
        BY <3>1, <3>2
      <3>4. f[k] = Reach(s, items, f, k) /\ f[l] \subseteq 0 .. L
        BY <1>2, <1>3, <2>2, <3>1
      <3>5. f[k] = {e \in 0 .. L : \E b \in f[l] : b <= e /\ P!Takes(items[k], SubSeq(s, b + 1, e))}
        BY <1>3, <2>2, <3>1, <3>4 DEF Reach
      <3>6. ASSUME NEW e \in 0 .. L PROVE e \in f[k] <=> \E h : CutTo(h, s, items, k, 0, e)
        <4>1. (\E h : CutTo(h, s, items, l + 1, 0, e)) <=>
                 \E b \in 0 .. L : /\ \E h : CutTo(h, s, items, l, 0, b)
                                   /\ b <= e /\ P!Takes(items[l + 1], SubSeq(s, b + 1, e))
          BY <1>3, CutLast
        <4>2. e \in f[k] <=> \E b \in 0 .. L : b \in f[l] /\ b <= e /\ P!Takes(items[k], SubSeq(s, b + 1, e))
          BY <3>4, <3>5
        <4> QED
          BY <3>1, <3>3, <4>1, <4>2
      <3> QED
        BY <3>6
    <2> QED
      BY <2>1, <2>2
  <1>5. Nat \subseteq G
    <2> HIDE DEF G
    <2> QED
      BY <1>4, AllNumbers
  <1>6. n \in G /\ L \in 0 .. L
    BY <1>5
  <1>7. L \in f[n] <=> \E h : CutTo(h, s, items, n, 0, L)
    BY <1>6
  <1> QED
    BY <1>1, <1>2, <1>3, <1>7 DEF CutFrom

\* A star at the start of the items takes anything, any other item one character.
LEMMA CutStar ==
  ASSUME NEW S, NEW s \in Seq(S), NEW I, NEW it \in I, NEW rest \in Seq(I), NEW b \in 0 .. Len(s)
  PROVE  /\ it.star => (CutFrom(s, <<it>> \o rest, b) <=> \E e \in b .. Len(s) : CutFrom(s, rest, e))
         /\ ~it.star => (CutFrom(s, <<it>> \o rest, b) <=>
                           b < Len(s) /\ s[b + 1] \in it.chars /\ CutFrom(s, rest, b + 1))
  <1>1. PICK L \in Nat : L = Len(s)
    OBVIOUS
  <1>2. CutFrom(s, <<it>> \o rest, b)
          <=> \E e \in b .. L : P!Takes(it, SubSeq(s, b + 1, e)) /\ CutFrom(s, rest, e)
    BY <1>1, CutMore
  <1>3. CASE it.star
    <2>1. \A e : P!Takes(it, SubSeq(s, b + 1, e))
      BY <1>3 DEF P!Takes
    <2> QED
      BY <1>1, <1>2, <1>3, <2>1
  <1>4. CASE ~it.star
    <2>1. ASSUME NEW e \in b .. L
          PROVE  P!Takes(it, SubSeq(s, b + 1, e)) <=> e = b + 1 /\ s[b + 1] \in it.chars
      <3>1. PICK w : w = SubSeq(s, b + 1, e)
        OBVIOUS
      <3>2. Len(w) = e - b
        BY <1>1, <3>1
      <3>3. e = b + 1 => w[1] = s[b + 1]
        BY <1>1, <3>1
      <3>4. e - b = 1 <=> e = b + 1
        OBVIOUS
      <3>5. P!Takes(it, w) <=> Len(w) = 1 /\ w[1] \in it.chars
        BY <1>4 DEF P!Takes
      <3> QED
        BY <3>1, <3>2, <3>3, <3>4, <3>5
    <2>2. b + 1 \in b .. L <=> b < L
      BY <1>1
    <2> QED
      BY <1>1, <1>2, <1>4, <2>1, <2>2
  <1> QED
    BY <1>3, <1>4

\* What match answers at a star: the stars behind it change nothing.
LEMMA StarReply ==
  ASSUME NEW s \in Seq(Symbols), NEW p \in Seq(Symbols), NEW q, NEW m, Marks(m, p, q),
         NEW f, MatchTable(f, s, m, p, q),
         NEW j \in 1 .. Len(p), P!Raw(m, j, "*"), NEW i \in 1 .. Len(s) + 1
  PROVE  f[j][i] <=> \E k \in i .. Len(s) + 1 : f[j + 1][k]
  <1>1. PICK n \in Nat : n = Len(p) /\ n = Len(m)
    BY DEF Marks
  <1>2. PICK L \in Nat : L = Len(s)
    OBVIOUS
  <1>3. \A l \in 1 .. n + 1, k \in 1 .. L + 1 : f[l][k] <=> Reply(s, m, f, l, k, StarEnd(p, q, l + 1))
    BY <1>1, <1>2 DEF MatchTable
  <1>4. PICK e \in j + 1 .. n + 1 : e = StarEnd(p, q, j + 1)
    <2>1. j + 1 \in 1 .. Len(p) + 1
      OBVIOUS
    <2> QED
      BY <1>1, <2>1, StarEndIs
  <1>5. f[j][i] <=> e > n \/ \E k \in i .. L : f[e][k]
    <2>1. j \in 1 .. n + 1 /\ ~ j > n
      BY <1>1
    <2> QED
      BY <1>1, <1>2, <1>3, <1>4, <2>1 DEF Reply
  <1>6. j + 1 \in 1 .. Len(p) + 1 /\ j + 1 \in 1 .. n + 1
    BY <1>1
  <1>7. CASE P!Raw(m, j + 1, "*")
    <2>1. j + 1 <= n /\ StarEnd(p, q, (j + 1) + 1) = e
      BY <1>1, <1>4, <1>6, <1>7, StarEndIs, ZenonT(40)
    <2>2. ASSUME NEW k \in 1 .. L + 1 PROVE f[j + 1][k] <=> e > n \/ \E l \in k .. L : f[e][l]
      <3>1. f[j + 1][k] <=> Reply(s, m, f, j + 1, k, e)
        BY <1>3, <1>6, <2>1
      <3>2. ~ j + 1 > Len(m)
        BY <1>1, <2>1
      <3> QED
        BY <1>1, <1>2, <1>7, <3>1, <3>2 DEF Reply
    <2>3. i \in i .. L + 1 /\ \A k \in i .. L + 1 : k \in 1 .. L + 1 /\ \A l \in k .. L : l \in i .. L
      BY <1>2
    <2> QED
      BY <1>2, <1>5, <2>2, <2>3
  <1>8. CASE ~P!Raw(m, j + 1, "*")
    <2>1. e = j + 1
      BY <1>4, <1>6, <1>8, StarEndIs
    <2>2. L + 1 \in 1 .. L + 1 /\ L + 1 \in i .. L + 1 /\ ~ L + 1 <= L
      BY <1>2
    <2>3. f[j + 1][L + 1] <=> e > n
      BY <1>1, <1>2, <1>3, <1>6, <1>8, <2>1, <2>2 DEF Reply
    <2>4. \A k : k \in i .. L + 1 <=> k \in i .. L \/ k = L + 1
      BY <1>2
    <2> QED
      BY <1>2, <1>5, <2>1, <2>3, <2>4
  <1> QED
    BY <1>7, <1>8

\* match answers, at each position, whether the rest of the string can be cut
\* for the items from there on.
LEMMA AnswersAre ==
  ASSUME NEW s \in Seq(Symbols), NEW p \in Seq(Symbols), NEW q, NEW m, Marks(m, p, q), PlainClasses(m),
         NEW f, MatchTable(f, s, m, p, q), NEW F, ItemTable(F, m)
  PROVE  \A j \in 1 .. Len(p) + 1, i \in 1 .. Len(s) + 1 : f[j][i] <=> CutFrom(s, F[j], i - 1)
  <1>1. PICK n \in Nat : n = Len(p) /\ n = Len(m)
    BY DEF Marks
  <1>2. PICK L \in Nat : L = Len(s)
    OBVIOUS
  <1>3. \A l \in 1 .. n + 1, k \in 1 .. L + 1 : f[l][k] <=> Reply(s, m, f, l, k, StarEnd(p, q, l + 1))
    BY <1>1, <1>2 DEF MatchTable
  <1>4. F \in [1 .. n + 1 -> Seq(ItemsOf(m))] /\ \A j \in 1 .. n + 1 : F[j] = ItemRow(m, F, j)
    BY <1>1 DEF ItemTable
  <1> DEFINE G == {r \in Nat : r <= n => \A i \in 1 .. L + 1 :
                                 f[n + 1 - r][i] <=> CutFrom(s, F[n + 1 - r], i - 1)}
  <1>5. ASSUME NEW r \in Nat, \A l \in 0 .. r - 1 : l \in G, r <= n, NEW i \in 1 .. L + 1
        PROVE  f[n + 1 - r][i] <=> CutFrom(s, F[n + 1 - r], i - 1)
    <2>1. PICK j \in 1 .. n + 1 : j = n + 1 - r
      BY <1>5
    <2>2. PICK b \in 0 .. L : b = i - 1 /\ i = b + 1
      OBVIOUS
    <2>3. ASSUME NEW l \in j + 1 .. n + 1, NEW k \in 1 .. L + 1
          PROVE  f[l][k] <=> CutFrom(s, F[l], k - 1)
      <3>1. PICK t \in 0 .. r - 1 : t = n + 1 - l /\ l = n + 1 - t
        BY <2>1
      <3>2. t \in G
        <4> HIDE DEF G
        <4> QED
          BY <1>5
      <3>3. t <= n
        BY <1>5, <3>1
      <3>4. \A d \in 1 .. L + 1 : f[n + 1 - t][d] <=> CutFrom(s, F[n + 1 - t], d - 1)
        BY <3>2, <3>3
      <3> QED
        BY <3>1, <3>4
    <2>4. CASE j > n
      <3>1. F[j] = <<>>
        BY <1>1, <1>4, <2>4 DEF ItemRow
      <3>2. f[j][i] <=> i > L
        BY <1>1, <1>2, <1>3, <2>4 DEF Reply
      <3>3. CutFrom(s, <<>>, b) <=> b = L
        BY <1>2, CutNothing
      <3> QED
        BY <2>1, <2>2, <3>1, <3>2, <3>3
    <2>5. CASE ~ j > n
      <3>1. j \in 1 .. Len(p) /\ PlainClass(m, j)
        BY <1>1, <2>5 DEF PlainClasses
      <3>2. PICK h \in j + 1 .. n + 1 : h = Behind(m, j)
        BY <1>1, <3>1, BehindIs
      <3>3. PICK it \in ItemsOf(m) : it = P!Item(m, j)
        BY <1>1, <3>1 DEF ItemsOf
      <3>4. PICK rest \in Seq(ItemsOf(m)) : rest = F[h]
        BY <1>4, <3>2
      <3>5. F[j] = <<it>> \o rest
        BY <1>1, <1>4, <2>5, <3>2, <3>3, <3>4 DEF ItemRow
      <3>6. it.star = P!Raw(m, j, "*")
        BY <3>3 DEF P!Item
      <3>7. CASE P!Raw(m, j, "*")
        <4>1. h = j + 1
          <5>1. m[j].char = "*"
            BY <3>7 DEF P!Raw
          <5>2. ~P!IsClass(m, j)
            BY <5>1 DEF P!IsClass, P!Raw
          <5> QED
            BY <3>2, <5>2 DEF Behind
        <4>2. CutFrom(s, F[j], b) <=> \E e \in b .. L : CutFrom(s, F[j + 1], e)
          BY <1>2, <3>4, <3>5, <3>6, <3>7, <4>1, CutStar
        <4>3. f[j][i] <=> \E k \in i .. L + 1 : f[j + 1][k]
          BY <1>2, <3>1, <3>7, StarReply
        <4>4. \A k \in i .. L + 1 : f[j + 1][k] <=> CutFrom(s, F[j + 1], k - 1)
          BY <2>3, <3>2, <4>1
        <4>5. (\E k \in i .. L + 1 : f[j + 1][k]) <=> \E e \in b .. L : CutFrom(s, F[j + 1], e)
          <5>1. \A e \in b .. L : e + 1 \in i .. L + 1 /\ (e + 1) - 1 = e
            BY <2>2
          <5>2. \A k \in i .. L + 1 : k - 1 \in b .. L
            BY <2>2
          <5>3. ASSUME NEW k \in i .. L + 1, f[j + 1][k] PROVE \E e \in b .. L : CutFrom(s, F[j + 1], e)
            BY <4>4, <5>2, <5>3
          <5>4. ASSUME NEW e \in b .. L, CutFrom(s, F[j + 1], e) PROVE \E k \in i .. L + 1 : f[j + 1][k]
            <6>1. PICK k \in i .. L + 1 : k = e + 1 /\ k - 1 = e
              BY <5>1
            <6>2. f[j + 1][k] <=> CutFrom(s, F[j + 1], k - 1)
              BY <4>4
            <6> QED
              BY <5>4, <6>1, <6>2
          <5> QED
            BY <5>3, <5>4
        <4> QED
          BY <2>1, <2>2, <4>2, <4>3, <4>5
      <3>8. CASE ~P!Raw(m, j, "*")
        <4>1. CutFrom(s, F[j], b) <=> b < L /\ s[b + 1] \in it.chars /\ CutFrom(s, F[h], b + 1)
          BY <1>2, <3>4, <3>5, <3>6, <3>8, CutStar
        <4>2. f[j][i] <=> i <= L /\ s[i] \in it.chars /\ f[h][i + 1]
          BY <1>1, <1>2, <1>3, <2>5, <3>2, <3>3, <3>8 DEF Reply
        <4>3. i <= L => (f[h][i + 1] <=> CutFrom(s, F[h], b + 1))
          <5>1. i <= L => i + 1 \in 1 .. L + 1 /\ (i + 1) - 1 = b + 1
            BY <2>2
          <5> QED
            BY <2>3, <5>1
        <4>4. i <= L <=> b < L
          BY <2>2
        <4> QED
          BY <2>1, <2>2, <4>1, <4>2, <4>3, <4>4
      <3> QED
        BY <3>7, <3>8
    <2> QED
      BY <2>1, <2>4, <2>5
  <1>6. Nat \subseteq G
    <2>1. ASSUME NEW r \in Nat, \A l \in 0 .. r - 1 : l \in G PROVE r \in G
      BY <1>5, <2>1
    <2> HIDE DEF G
    <2> QED
      BY <2>1, AllNumbers
  <1>7. ASSUME NEW j \in 1 .. n + 1, NEW i \in 1 .. L + 1 PROVE f[j][i] <=> CutFrom(s, F[j], i - 1)
    <2>1. PICK r \in Nat : r = n + 1 - j /\ j = n + 1 - r /\ r <= n
      OBVIOUS
    <2> QED
      BY <1>6, <2>1
  <1> QED
    BY <1>1, <1>2, <1>7

\* Without a raw character there is only equality.
LEMMA QuotedIs ==
  ASSUME ~ReadsQuoted, NEW s \in Seq(Symbols), NEW p \in Seq(Symbols), NEW m, Marks(m, p, QUOTED),
         NEW f, MatchTable(f, s, m, p, QUOTED)
  PROVE  f[1][1] <=> s = p
  <1>1. PICK n \in Nat : n = Len(p) /\ n = Len(m)
    BY DEF Marks
  <1>2. PICK L \in Nat : L = Len(s)
    OBVIOUS
  <1>3. \A l \in 1 .. n + 1, k \in 1 .. L + 1 : f[l][k] <=> Reply(s, m, f, l, k, StarEnd(p, QUOTED, l + 1))
    BY <1>1, <1>2 DEF MatchTable
  <1>4. \A c, j : ~P!Raw(m, j, c)
    <2>1. ASSUME NEW j \in 1 .. n PROVE ~m[j].raw
      BY <1>1 DEF Marks, ISQUOTED
    <2>2. DOMAIN m = 1 .. n
      BY <1>1 DEF Marks
    <2> QED
      BY <2>1, <2>2 DEF P!Raw
  <1>5. ASSUME NEW j \in 1 .. n, NEW k \in 1 .. L + 1
        PROVE  f[j][k] <=> k <= L /\ s[k] = p[j] /\ f[j + 1][k + 1]
    <2>1. ~P!IsClass(m, j) /\ ~P!Raw(m, j, "*") /\ ~P!Raw(m, j, "?")
      BY <1>4 DEF P!IsClass
    <2>2. P!Item(m, j).chars = {m[j].char} /\ Behind(m, j) = j + 1
      BY <2>1 DEF P!Item, Behind
    <2>3. m[j].char = p[j]
      BY <1>1 DEF Marks
    <2>4. j \in 1 .. n + 1 /\ ~ j > Len(m)
      BY <1>1
    <2>5. f[j][k] <=> Reply(s, m, f, j, k, StarEnd(p, QUOTED, j + 1))
      BY <1>3, <2>4
    <2> QED
      BY <1>2, <2>1, <2>2, <2>3, <2>4, <2>5 DEF Reply
  <1>6. ASSUME NEW k \in 1 .. L + 1 PROVE f[n + 1][k] <=> k > L
    <2>1. f[n + 1][k] <=> Reply(s, m, f, n + 1, k, StarEnd(p, QUOTED, (n + 1) + 1))
      BY <1>3
    <2> QED
      BY <1>1, <1>2, <2>1 DEF Reply
  <1> DEFINE Same(j) == L = n /\ \A k \in j .. n : s[k] = p[k]
             G == {r \in Nat : r <= n /\ n + 1 - r <= L + 1 => (f[n + 1 - r][n + 1 - r] <=> Same(n + 1 - r))}
  <1>7. ASSUME NEW r \in Nat, \A l \in 0 .. r - 1 : l \in G, r <= n, n + 1 - r <= L + 1
        PROVE  f[n + 1 - r][n + 1 - r] <=> Same(n + 1 - r)
    <2>1. PICK j \in 1 .. n + 1 : j = n + 1 - r /\ j <= L + 1
      BY <1>7
    <2>2. CASE j = n + 1
      <3>1. f[n + 1][j] <=> j > L
        BY <1>6, <2>1
      <3>2. \A k \in j .. n : FALSE
        BY <2>2
      <3> QED
        BY <2>1, <2>2, <3>1, <3>2
    <2>3. CASE j # n + 1
      <3>1. j \in 1 .. n
        BY <2>3
      <3>2. f[j][j] <=> j <= L /\ s[j] = p[j] /\ f[j + 1][j + 1]
        BY <1>5, <2>1, <3>1
      <3>3. ASSUME j <= L PROVE f[j + 1][j + 1] <=> Same(j + 1)
        <4>1. PICK t \in 0 .. r - 1 : t = r - 1 /\ n + 1 - t = j + 1 /\ t <= n
          BY <2>1, <3>1
        <4>2. t \in G
          <5> HIDE DEF G
          <5> QED
            BY <1>7
        <4>3. f[n + 1 - t][n + 1 - t] <=> Same(n + 1 - t)
          BY <3>3, <4>1, <4>2
        <4> QED
          BY <4>1, <4>3
      <3>4. \A k : k \in j .. n <=> k = j \/ k \in j + 1 .. n
        BY <3>1
      <3>5. Same(j) <=> s[j] = p[j] /\ Same(j + 1)
        BY <3>4
      <3>6. Same(j) => j <= L
        BY <3>1
      <3> HIDE DEF Same
      <3> QED
        BY <2>1, <3>2, <3>3, <3>5, <3>6
    <2> QED
      BY <2>2, <2>3
  <1>8. Nat \subseteq G
    <2>1. ASSUME NEW r \in Nat, \A l \in 0 .. r - 1 : l \in G PROVE r \in G
      BY <1>7, <2>1
    <2> HIDE DEF G
    <2> QED
      BY <2>1, AllNumbers
  <1>9. f[1][1] <=> Same(1)
    <2>1. PICK r \in Nat : r = n /\ r <= n /\ n + 1 - r = 1
      OBVIOUS
    <2>2. r \in G
      BY <1>8
    <2>3. 1 <= L + 1
      BY <1>2
    <2> QED
      BY <2>1, <2>2, <2>3
  <1>10. Same(1) <=> s = p
    <2>1. Same(1) => s = p
      BY <1>1, <1>2, SeqEqual
    <2> QED
      BY <1>1, <1>2, <2>1
  <1> QED
    BY <1>9, <1>10

\* A pattern without odd classes matches the strings that its items say.
LEMMA MatchIs ==
  ASSUME ~ReadsQuoted, NEW s \in Seq(Symbols), NEW p \in Seq(Symbols), NEW q, NEW m,
         Marks(m, p, q), PlainClasses(m)
  PROVE  match(s, p, q) <=> P!Matches(s, P!Items(m))
  <1>1. PICK n \in Nat : n = Len(p) /\ n = Len(m)
    BY DEF Marks
  <1>2. PICK f : f = MatchFrom(s, p, q) /\ MatchTable(f, s, m, p, q)
    BY MatchFromIs
  <1>3. PICK F : ItemTable(F, m) /\ P!Items(m) = F[1]
    BY ItemsAre
  <1>4. F[1] \in Seq(ItemsOf(m))
    BY <1>1, <1>3 DEF ItemTable
  <1>5. f[1][1] <=> CutFrom(s, F[1], 0)
    <2>1. 1 \in 1 .. Len(p) + 1 /\ 1 \in 1 .. Len(s) + 1 /\ 1 - 1 = 0
      OBVIOUS
    <2>2. f[1][1] <=> CutFrom(s, F[1], 1 - 1)
      BY <1>2, <1>3, <2>1, AnswersAre
    <2> QED
      BY <2>1, <2>2
  <1>6. P!Matches(s, F[1]) <=> CutFrom(s, F[1], 0)
    BY <1>4, MatchesAre
  <1>7. match(s, p, q) <=> f[1][1]
    <2>1. CASE q = QUOTED
      <3>1. f[1][1] <=> s = p
        BY <1>2, <2>1, QuotedIs
      <3> QED
        BY <2>1, <3>1 DEF match
    <2>2. CASE q # QUOTED
      BY <1>2, <2>2 DEF match
    <2> QED
      BY <2>1, <2>2
  <1> QED
    BY <1>3, <1>5, <1>6, <1>7

-----------------------------------------------------------------------------
(***************************************************************************)
(* Jobs                                                                    *)
(***************************************************************************)
\* A pattern whose characters and quoting are those of a word.
Quotable(w) == w.str \in Seq(Symbols) /\ w.quote \in Quoting(w.str)

LEMMA MarkIs ==
  ASSUME ~ReadsQuoted, NEW w, Quotable(w)
  PROVE  /\ Marks(Mark(w), w.str, w.quote)
         /\ \A i \in 1 .. Len(w.str) : \A c : Mark(w)[i] = [char |-> c, raw |-> TRUE]
                                                <=> w.str[i] = c /\ ~ISQUOTED(w.quote, i)
         /\ \A i, c : P!Raw(Mark(w), i, c) <=> /\ i \in 1 .. Len(w.str)
                                               /\ Mark(w)[i] = [char |-> c, raw |-> TRUE]
  <1>1. Marks(Mark(w), w.str, w.quote)
    BY Markings DEF Quotable
  <1>2. PICK m : m = Mark(w)
    OBVIOUS
  <1>3. PICK n \in Nat : n = Len(w.str) /\ n = Len(m) /\ DOMAIN m = 1 .. n
    BY <1>1, <1>2 DEF Marks
  <1>4. ASSUME NEW i \in 1 .. n, NEW c
        PROVE  /\ m[i] = [char |-> c, raw |-> TRUE] <=> w.str[i] = c /\ ~ISQUOTED(w.quote, i)
               /\ P!Raw(m, i, c) <=> m[i] = [char |-> c, raw |-> TRUE]
    <2>1. m[i] \in Signed
      BY <1>1, <1>2, <1>3 DEF Marks
    <2>2. m[i].char = w.str[i] /\ (m[i].raw <=> ~ISQUOTED(w.quote, i))
      BY <1>1, <1>2, <1>3 DEF Marks
    <2>3. m[i] = [char |-> m[i].char, raw |-> m[i].raw] /\ m[i].raw \in BOOLEAN
      BY <2>1 DEF Signed
    <2>4. CASE m[i].raw
      <3>1. m[i] = [char |-> w.str[i], raw |-> TRUE]
        BY <2>2, <2>3, <2>4
      <3>2. m[i] = [char |-> c, raw |-> TRUE] <=> w.str[i] = c
        <4>1. [char |-> c, raw |-> TRUE].char = c /\ m[i].char = w.str[i]
          BY <2>2
        <4> QED
          BY <3>1, <4>1
      <3>3. P!Raw(m, i, c) <=> w.str[i] = c
        BY <1>3, <2>2, <2>4 DEF P!Raw
      <3> QED
        BY <2>2, <2>4, <3>2, <3>3
    <2>5. CASE ~m[i].raw
      <3>1. m[i].raw = FALSE
        BY <2>3, <2>5
      <3> QED
        BY <1>3, <2>2, <2>5, <3>1 DEF P!Raw
    <2> QED
      BY <2>4, <2>5
  <1>5. ASSUME NEW i, i \notin 1 .. n, NEW c PROVE ~P!Raw(m, i, c)
    BY <1>3, <1>5 DEF P!Raw
  <1> QED
    BY <1>1, <1>2, <1>3, <1>4, <1>5

LEMMA PlainIs ==
  ASSUME ~ReadsQuoted, NEW w, Quotable(w), ~OddClass(Mark(w))
  PROVE  PlainClasses(Mark(w))
  <1>1. PICK m : m = Mark(w)
    OBVIOUS
  <1>2. PICK n \in Nat : n = Len(m) /\ n = Len(w.str) /\ DOMAIN m = 1 .. n
    BY <1>1, MarkIs DEF Marks
  <1>3. \A i, c : P!Raw(m, i, c) <=> i \in 1 .. n /\ m[i] = [char |-> c, raw |-> TRUE]
    BY <1>1, <1>2, MarkIs
  <1>4. ASSUME NEW i \in 1 .. n, NEW b, b = P!ClassStart(m, i), P!Raw(m, i, "["), P!Raw(m, b, "]"), P!Raw(m, b + 1, "-")
        PROVE  FALSE
    <2>1. m[i] = [char |-> "[", raw |-> TRUE] /\ m[b] = [char |-> "]", raw |-> TRUE]
            /\ m[b + 1] = [char |-> "-", raw |-> TRUE]
      BY <1>3, <1>4
    <2>2. b \in 1 .. n /\ b + 1 \in 1 .. n
      BY <1>3, <1>4
    <2>3. b < n
      BY <2>2
    <2> QED
      BY <1>1, <1>2, <1>4, <2>1, <2>3 DEF OddClass
  <1> QED
    BY <1>1, <1>2, <1>4 DEF PlainClasses, PlainClass

LEMMA SureIs ==
  ASSUME ~ReadsQuoted
  PROVE  Quotable(Sure) /\ PlainClasses(Mark(Sure))
  <1>1. Quotable(Sure)
    <2>1. "a" \in Symbols /\ "*" \in Symbols
      BY JobsAssumption
    <2> QED
      BY <2>1 DEF Quotable, Sure, Quoting
  <1>2. ~OddClass(Mark(Sure))
    <2>1. \A i \in 1 .. 2 : Mark(Sure)[i].char # "["
      BY DEF Mark, Sure
    <2>2. DOMAIN Mark(Sure) = 1 .. 2
      BY DEF Mark, Sure
    <2> QED
      BY <2>1, <2>2 DEF OddClass
  <1> QED
    BY <1>1, <1>2, PlainIs

\* The patterns of a job can be compared with their items.
LEMMA JobIs ==
  ASSUME ~ReadsQuoted, NEW w \in Patterns, ~OddClass(Mark(w)), NEW ws \in Alternatives(w)
  PROVE  /\ Len(ws) \in {1, 2} /\ DOMAIN ws = 1 .. Len(ws)
         /\ Strs(ws) = [k \in 1 .. Len(ws) |-> ws[k].str]
         /\ Quotes(ws) = [k \in 1 .. Len(ws) |-> ws[k].quote]
         /\ \A k \in 1 .. Len(ws) : Quotable(ws[k]) /\ PlainClasses(Mark(ws[k]))
  <1>1. Quotable(w) /\ PlainClasses(Mark(w))
    <2>1. Quotable(w)
      BY JobsAssumption DEF Quotable, Quoting
    <2> QED
      BY <2>1, PlainIs
  <1>2. CASE ws = <<w>>
    <2>1. Len(ws) = 1 /\ DOMAIN ws = 1 .. 1 /\ ws[1] = w
      BY <1>2
    <2> QED
      BY <1>1, <2>1 DEF Strs, Quotes
  <1>3. CASE ws = <<w, Sure>>
    <2>1. Len(ws) = 2 /\ DOMAIN ws = 1 .. 2 /\ ws[1] = w /\ ws[2] = Sure
      BY <1>3
    <2>2. \A k \in 1 .. 2 : k = 1 \/ k = 2
      OBVIOUS
    <2> QED
      BY <1>1, <2>1, <2>2, SureIs DEF Strs, Quotes
  <1> QED
    BY <1>2, <1>3 DEF Alternatives

LEMMA ListIs ==
  ASSUME NEW s \in Subjects, NEW list \in Lists(s)
  PROVE  Len(list) \in Nat /\ DOMAIN list = 1 .. Len(list) /\ \A t \in 1 .. Len(list) : list[t] \in Seq(Symbols)
  <1>1. s \in Seq(Symbols) /\ <<>> \in Seq(Symbols)
    BY JobsAssumption, EmptySeq
  <1>2. CASE list = <<>>
    BY <1>2
  <1>3. CASE list = <<s>>
    BY <1>1, <1>3
  <1>4. CASE list = <<<<>>, s>>
    <2>1. Len(list) = 2 /\ DOMAIN list = 1 .. 2 /\ list[1] = <<>> /\ list[2] = s
      BY <1>4
    <2>2. \A t \in 1 .. 2 : t = 1 \/ t = 2
      OBVIOUS
    <2>3. \A t \in 1 .. 2 : list[t] \in Seq(Symbols)
      BY <1>1, <2>1, <2>2
    <2> QED
      BY <2>1, <2>3
  <1> QED
    BY <1>2, <1>3, <1>4 DEF Lists

\* What ~ answers for a job.
LEMMA ListmatchIs ==
  ASSUME ~ReadsQuoted, NEW w \in Patterns, ~OddClass(Mark(w)), NEW ws \in Alternatives(w),
         NEW s \in Subjects, NEW list \in Lists(s)
  PROVE  listmatch(list, Strs(ws), Quotes(ws)) <=>
           IF list = <<>> THEN ws = <<>> \/ \E k \in DOMAIN ws : StarsOnly(ws[k])
           ELSE \E t \in DOMAIN list, k \in DOMAIN ws : Suits(list[t], ws[k])
  <1>1. PICK n \in {1, 2} : n = Len(ws) /\ DOMAIN ws = 1 .. n
    BY JobIs
  <1>2. PICK strs : strs = Strs(ws) /\ strs = [k \in 1 .. n |-> ws[k].str]
    BY <1>1, JobIs
  <1>3. PICK quotes : quotes = Quotes(ws) /\ quotes = [k \in 1 .. n |-> ws[k].quote]
    BY <1>1, JobIs
  <1>4. CASE list = <<>>
    <2>1. strs # <<>> /\ ws # <<>>
      BY <1>1, <1>2
    <2>2. ASSUME NEW k \in 1 .. n
          PROVE  StarsOnly(ws[k]) <=>
                   /\ strs[k] # <<>> /\ quotes[k] # QUOTED
                   /\ \A i \in DOMAIN strs[k] : strs[k][i] = "*" /\ ~ISQUOTED(quotes[k], i)
      <3>1. PICK v : v = ws[k] /\ Quotable(v)
        BY <1>1, JobIs
      <3>2. v.str \in Seq(Symbols) /\ DOMAIN v.str = 1 .. Len(v.str)
        BY <3>1 DEF Quotable
      <3>3. \A i \in DOMAIN v.str : Mark(v)[i] = [char |-> "*", raw |-> TRUE]
                                      <=> v.str[i] = "*" /\ ~ISQUOTED(v.quote, i)
        BY <3>1, <3>2, MarkIs
      <3>4. v.quote = QUOTED => \A i : ISQUOTED(v.quote, i)
        BY DEF ISQUOTED
      <3>5. v.str # <<>> => \E i \in DOMAIN v.str : TRUE
        BY <3>2
      <3> QED
        BY <1>2, <1>3, <3>1, <3>3, <3>4, <3>5 DEF StarsOnly
    <2> QED
      BY <1>1, <1>2, <1>3, <1>4, <2>1, <2>2 DEF listmatch
  <1>5. CASE list # <<>>
    <2>1. ASSUME NEW t \in DOMAIN list, NEW k \in 1 .. n
          PROVE  match(list[t], strs[k], quotes[k]) <=> Suits(list[t], ws[k])
      <3>1. PICK v : v = ws[k] /\ Quotable(v) /\ PlainClasses(Mark(v))
        BY <1>1, JobIs
      <3>2. PICK u \in Seq(Symbols) : u = list[t]
        BY ListIs
      <3>3. PICK p \in Seq(Symbols) : p = v.str
        BY <3>1 DEF Quotable
      <3>4. Marks(Mark(v), p, v.quote)
        BY <3>1, <3>3, MarkIs
      <3>5. match(u, p, v.quote) <=> P!Matches(u, P!Items(Mark(v)))
        BY <3>1, <3>4, MatchIs
      <3> QED
        BY <1>2, <1>3, <3>1, <3>2, <3>3, <3>5 DEF Suits
    <2> QED
      BY <1>1, <1>2, <1>3, <1>5, <2>1, ZenonT(40) DEF listmatch
  <1> QED
    BY <1>4, <1>5

Replies(w) ==
  [s \in Subjects |-> [c \in Lists(s) \X Alternatives(w) |->
     [matched |-> listmatch(c[1], Strs(c[2]), Quotes(c[2])),
      parts |-> extractmatches(c[1], Strs(c[2]), Quotes(c[2]))]]]

\* A job keeps its pattern, and what came out is what its calls return.
MatchInv ==
  /\ job \in [kind : {"match"}, word : Patterns]
  /\ out = <<>> \/ out = Replies(job.word)

LEMMA MatchInvariant == MatchSpec => []MatchInv
  <1>1. MatchInit => MatchInv
    BY DEF MatchInit, MatchInv
  <1>2. MatchInv /\ [RunMatch]_<<job, out>> => MatchInv'
    BY DEF MatchInv, RunMatch, Replies
  <1> QED
    BY <1>1, <1>2, PTL DEF MatchSpec

\* ~ is true exactly when some pattern, read as its items, matches some subject.
THEOREM MatchesAreExact ==
  ASSUME ~ReadsQuoted
  PROVE  MatchSpec => []MatchExact
  <1>1. MatchInv => MatchExact
    <2>1. SUFFICES ASSUME MatchInv, Done("match"), ~OddClass(Mark(job.word)),
                          NEW s \in Subjects, NEW c \in DOMAIN out[s]
                   PROVE  out[s][c].matched <=>
                            IF c[1] = <<>> THEN c[2] = <<>> \/ \E k \in DOMAIN c[2] : StarsOnly(c[2][k])
                            ELSE \E t \in DOMAIN c[1], k \in DOMAIN c[2] : Suits(c[1][t], c[2][k])
      BY DEF MatchExact
    <2>2. PICK w \in Patterns : w = job.word /\ out = Replies(w)
      BY <2>1 DEF MatchInv, Done
    <2>3. out[s] = [d \in Lists(s) \X Alternatives(w) |->
                      [matched |-> listmatch(d[1], Strs(d[2]), Quotes(d[2])),
                       parts |-> extractmatches(d[1], Strs(d[2]), Quotes(d[2]))]]
      BY <2>2 DEF Replies
    <2>4. c \in Lists(s) \X Alternatives(w)
      BY <2>1, <2>3
    <2>5. out[s][c].matched = listmatch(c[1], Strs(c[2]), Quotes(c[2]))
      BY <2>3, <2>4
    <2>6. c[1] \in Lists(s) /\ c[2] \in Alternatives(w)
      BY <2>4
    <2> QED
      BY <2>1, <2>2, <2>5, <2>6, ListmatchIs
  <1> QED
    BY <1>1, MatchInvariant, PTL

-----------------------------------------------------------------------------
(***************************************************************************)
(* The shortest cut                                                        *)
(***************************************************************************)
\* f is g, or gives some item a shorter piece than g and all before it the same.
Shorter(f, g, n) ==
  f = g \/ \E k \in 1 .. n : f[k] < g[k] /\ \A l \in 1 .. k - 1 : f[l] = g[l]
Shortest(f, s, items, b) ==
  /\ CutTo(f, s, items, Len(items), b, Len(s))
  /\ \A g : CutTo(g, s, items, Len(items), b, Len(s)) => Shorter(f, g, Len(items))

LEMMA ShortestCutIs ==
  ASSUME NEW S, NEW s \in Seq(S), NEW I, NEW items \in Seq(I), NEW f, Shortest(f, s, items, 0)
  PROVE  P!ShortestCut(s, items) = f
  <1>1. PICK n \in Nat : n = Len(items) /\ DOMAIN items = 1 .. n
    OBVIOUS
  <1>2. PICK L \in Nat : L = Len(s)
    OBVIOUS
  <1>3. \A g : g \in P!Cuts(s, items) <=> CutTo(g, s, items, n, 0, L)
    BY <1>1, <1>2 DEF P!Cuts, CutTo
  <1>4. P!ShortestCut(s, items)
          = CHOOSE g \in P!Cuts(s, items) : \A h \in P!Cuts(s, items) : Shorter(g, h, n)
    BY <1>1 DEF P!ShortestCut, Shorter
  <1>5. f \in P!Cuts(s, items) /\ \A h \in P!Cuts(s, items) : Shorter(f, h, n)
    BY <1>1, <1>2, <1>3 DEF Shortest
  <1>6. PICK g : g = P!ShortestCut(s, items) /\ CutTo(g, s, items, n, 0, L) /\ Shorter(g, f, n) /\ Shorter(f, g, n)
    BY <1>3, <1>4, <1>5
  <1>7. f \in [0 .. n -> 0 .. L] /\ g \in [0 .. n -> 0 .. L]
    BY <1>2, <1>3, <1>5, <1>6 DEF CutTo
  <1>8. ASSUME f # g PROVE FALSE
    <2>1. PICK k \in 1 .. n : f[k] < g[k] /\ \A l \in 1 .. k - 1 : f[l] = g[l]
      BY <1>6, <1>8 DEF Shorter
    <2>2. PICK j \in 1 .. n : g[j] < f[j] /\ \A l \in 1 .. j - 1 : g[l] = f[l]
      BY <1>6, <1>8 DEF Shorter
    <2>3. \A l \in 1 .. n : f[l] \in Nat /\ g[l] \in Nat
      BY <1>7
    <2>4. ~ k < j
      BY <2>1, <2>2, <2>3
    <2>5. ~ j < k
      BY <2>1, <2>2, <2>3
    <2>6. k = j
      BY <2>4, <2>5
    <2> QED
      BY <2>1, <2>2, <2>3, <2>6
  <1> QED
    BY <1>6, <1>8

\* The shortest cut gives its first item the shortest piece that leaves a cut.
LEMMA ShortestMore ==
  ASSUME NEW S, NEW s \in Seq(S), NEW I, NEW it \in I, NEW rest \in Seq(I), NEW b \in 0 .. Len(s),
         NEW e \in b .. Len(s), P!Takes(it, SubSeq(s, b + 1, e)),
         \A d \in b .. e - 1 : ~(P!Takes(it, SubSeq(s, b + 1, d)) /\ CutFrom(s, rest, d)),
         NEW g, Shortest(g, s, rest, e)
  PROVE  Shortest(Begin(b, g, Len(rest)), s, <<it>> \o rest, b)
  <1>1. PICK L \in Nat : L = Len(s)
    OBVIOUS
  <1>2. PICK N \in Nat : N = Len(rest)
    OBVIOUS
  <1>3. PICK items : items = <<it>> \o rest /\ Len(items) = N + 1
    BY <1>2, ConsIs
  <1>4. CutTo(g, s, rest, N, e, L) /\ \A h : CutTo(h, s, rest, N, e, L) => Shorter(g, h, N)
    BY <1>1, <1>2 DEF Shortest
  <1>5. PICK f : f = Begin(b, g, N) /\ CutTo(f, s, items, N + 1, b, L)
    BY <1>1, <1>2, <1>3, <1>4, CutBegin
  <1>6. g \in [0 .. N -> 0 .. L] /\ g[0] = e /\ f \in [0 .. N + 1 -> 0 .. L]
    BY <1>1, <1>4, <1>5 DEF CutTo
  <1>7. f[0] = b /\ \A k \in 0 .. N : f[k + 1] = g[k]
    BY <1>5 DEF Begin
  <1>8. ASSUME NEW h, CutTo(h, s, items, N + 1, b, L) PROVE Shorter(f, h, N + 1)
    <2>1. CutTo(h, s, <<it>> \o rest, Len(rest) + 1, b, Len(s))
      BY <1>1, <1>2, <1>3, <1>8
    <2>2. PICK t : t = Shifted(h, N)
      OBVIOUS
    <2>3. /\ h \in [0 .. N + 1 -> 0 .. L] /\ h[0] = b
          /\ h[1] \in b .. L /\ P!Takes(it, SubSeq(s, b + 1, h[1]))
          /\ CutTo(t, s, rest, N, h[1], L)
      BY <1>1, <1>2, <2>1, <2>2, CutTail
    <2>4. CutFrom(s, rest, h[1])
      BY <1>1, <1>2, <2>3 DEF CutFrom
    <2>5. h[1] \notin b .. e - 1
      BY <2>3, <2>4
    <2>6. h[1] >= e
      BY <1>1, <2>3, <2>5
    <2>7. \A k \in 0 .. N : t[k] = h[k + 1]
      BY <2>2 DEF Shifted
    <2>8. f[1] = e
      BY <1>6, <1>7
    <2>9. CASE h[1] > e
      <3>1. 1 \in 1 .. N + 1 /\ \A l \in 1 .. 1 - 1 : f[l] = h[l]
        OBVIOUS
      <3> QED
        BY <2>8, <2>9, <3>1 DEF Shorter
    <2>10. CASE h[1] = e
      <3>1. Shorter(g, t, N)
        BY <1>4, <2>3, <2>10
      <3>2. CASE g = t
        <4>1. ASSUME NEW k \in 0 .. N + 1 PROVE f[k] = h[k]
          <5>1. CASE k = 0
            BY <1>7, <2>3, <5>1
          <5>2. CASE k # 0
            <6>1. PICK i \in 0 .. N : k = i + 1
              BY <5>2
            <6> QED
              BY <1>7, <2>7, <3>2, <6>1
          <5> QED
            BY <5>1, <5>2
        <4>2. f = h
          BY <1>6, <2>3, <4>1
        <4> QED
          BY <4>2 DEF Shorter
      <3>3. CASE g # t
        <4>1. PICK k \in 1 .. N : g[k] < t[k] /\ \A l \in 1 .. k - 1 : g[l] = t[l]
          BY <3>1, <3>3 DEF Shorter
        <4>2. f[k + 1] < h[k + 1] /\ k + 1 \in 1 .. N + 1
          BY <1>7, <2>7, <4>1
        <4>3. ASSUME NEW l \in 1 .. (k + 1) - 1 PROVE f[l] = h[l]
          <5>1. CASE l = 1
            BY <2>8, <2>10, <5>1
          <5>2. CASE l # 1
            <6>1. PICK i \in 1 .. k - 1 : l = i + 1
              BY <5>2
            <6>2. g[i] = t[i] /\ i \in 0 .. N
              BY <4>1, <6>1
            <6> QED
              BY <1>7, <2>7, <6>1, <6>2
          <5> QED
            BY <5>1, <5>2
        <4> QED
          BY <4>2, <4>3 DEF Shorter
      <3> QED
        BY <3>2, <3>3
    <2> QED
      BY <1>1, <2>3, <2>6, <2>9, <2>10
  <1> QED
    BY <1>1, <1>2, <1>3, <1>5, <1>8 DEF Shortest

-----------------------------------------------------------------------------
(***************************************************************************)
(* Pieces                                                                  *)
(***************************************************************************)
PartRow(s, items, f, h, k) ==
  IF k > Len(items) THEN <<>>
  ELSE (IF items[k].wild THEN <<SubSeq(s, f[k - 1] + 1, f[k])>> ELSE <<>>) \o h[k + 1]
PartRows(s, items, f, h) == h = [k \in 1 .. Len(items) + 1 |-> PartRow(s, items, f, h, k)]
PartTable(s, items, f, h) == \A k \in 1 .. Len(items) + 1 : h[k] = PartRow(s, items, f, h, k)
PartsOf(s, items, f) == (CHOOSE h : PartRows(s, items, f, h))[1]

\* a piece, or none
Maybe(wild, w) == IF wild THEN <<w>> ELSE <<>>

LEMMA MaybeIs ==
  ASSUME NEW S, NEW s \in Seq(S), NEW wild, NEW b \in 0 .. Len(s), NEW e \in 0 .. Len(s), NEW tail \in Seq(Seq(S))
  PROVE  /\ Maybe(wild, SubSeq(s, b + 1, e)) \o tail \in Seq(Seq(S))
         /\ wild => Maybe(wild, SubSeq(s, b + 1, e)) \o tail # <<>>
         /\ ~wild => Maybe(wild, SubSeq(s, b + 1, e)) \o tail = tail
         /\ tail # <<>> => Maybe(wild, SubSeq(s, b + 1, e)) \o tail # <<>>
  <1>1. PICK w \in Seq(S) : w = SubSeq(s, b + 1, e)
    <2>1. \A i \in b + 1 .. e : s[i] \in S
      OBVIOUS
    <2>2. SubSeq(s, b + 1, e) \in Seq(S)
      BY <2>1, SubSeqProperties
    <2> QED
      BY <2>2
  <1>2. CASE wild
    <2>1. <<w>> \in Seq(Seq(S)) /\ Len(<<w>>) = 1
      OBVIOUS
    <2>2. <<w>> \o tail \in Seq(Seq(S)) /\ Len(<<w>> \o tail) = 1 + Len(tail) /\ Len(tail) \in Nat
      BY <2>1
    <2>3. Len(<<>>) = 0
      OBVIOUS
    <2>4. <<w>> \o tail # <<>>
      BY <2>2, <2>3
    <2> QED
      BY <1>1, <1>2, <2>2, <2>4 DEF Maybe
  <1>3. CASE ~wild
    <2>1. <<>> \o tail = tail
      OBVIOUS
    <2> QED
      BY <1>3, <2>1 DEF Maybe
  <1> QED
    BY <1>2, <1>3

LEMMA PartsAre ==
  ASSUME NEW S, NEW s \in Seq(S), NEW I, NEW items \in Seq(I), NEW f \in [0 .. Len(items) -> 0 .. Len(s)]
  PROVE  \E h : /\ h \in [1 .. Len(items) + 1 -> Seq(Seq(S))]
                /\ PartTable(s, items, f, h)
                /\ PartsOf(s, items, f) = h[1]
  <1>1. PICK n \in Nat : n = Len(items)
    OBVIOUS
  <1> DEFINE D == 1 .. n + 1
             V == Seq(Seq(S))
             g == [k \in D |-> [h \in [D -> V] |-> PartRow(s, items, f, h, k)]]
             rank == [k \in D |-> n + 1 - k]
  <1>2. ASSUME NEW h, NEW k \in D, k <= n => h[k + 1] \in V PROVE PartRow(s, items, f, h, k) \in V
    <2>1. CASE k > n
      BY <1>1, <2>1, EmptySeq DEF PartRow
    <2>2. CASE ~ k > n
      <3>1. PICK tail \in V : tail = h[k + 1]
        BY <1>2, <2>2
      <3>2. PICK b \in 0 .. Len(s), e \in 0 .. Len(s) : b = f[k - 1] /\ e = f[k]
        <4>1. k - 1 \in 0 .. n /\ k \in 0 .. n
          BY <2>2
        <4> QED
          BY <1>1, <4>1
      <3>3. PICK wild : wild = items[k].wild
        OBVIOUS
      <3>4. PartRow(s, items, f, h, k) = Maybe(wild, SubSeq(s, b + 1, e)) \o tail
        BY <1>1, <2>2, <3>1, <3>2, <3>3 DEF PartRow, Maybe
      <3>5. Maybe(wild, SubSeq(s, b + 1, e)) \o tail \in V
        BY MaybeIs
      <3> QED
        BY <3>4, <3>5
    <2> QED
      BY <2>1, <2>2
  <1>3. g \in [D -> [[D -> V] -> V]]
    <2>1. ASSUME NEW k \in D, NEW h \in [D -> V] PROVE PartRow(s, items, f, h, k) \in V
      <3>1. k <= n => k + 1 \in D
        OBVIOUS
      <3>2. k <= n => h[k + 1] \in V
        BY <3>1
      <3> QED
        BY <1>2, <3>2
    <2> QED
      BY <2>1
  <1>4. rank \in [D -> 0 .. n + 1] /\ n + 1 \in Nat
    OBVIOUS
  <1>5. <<>> \in V
    BY EmptySeq
  <1>6. ASSUME NEW x \in D, NEW u \in [D -> V], NEW h \in [D -> V],
               \A y \in D : rank[y] < rank[x] => u[y] = h[y]
        PROVE  g[x][u] = g[x][h]
    <2>1. x <= n => x + 1 \in D /\ rank[x + 1] < rank[x]
      OBVIOUS
    <2>2. x <= n => u[x + 1] = h[x + 1]
      BY <1>6, <2>1
    <2>3. PartRow(s, items, f, u, x) = PartRow(s, items, f, h, x)
      BY <1>1, <2>2 DEF PartRow
    <2> QED
      BY <2>3
  <1>7. PICK u : Recurs(D, V, g, u)
    <2> HIDE DEF D, V, g, rank
    <2> QED
      BY <1>3, <1>4, <1>5, <1>6, Recursion
  <1>8. u \in [D -> V] /\ \A x \in D : u[x] = PartRow(s, items, f, u, x)
    BY <1>7 DEF Recurs
  <1>9. PartRows(s, items, f, u)
    BY <1>1, <1>8 DEF PartRows
  <1>10. PICK h : h = (CHOOSE t : PartRows(s, items, f, t)) /\ PartRows(s, items, f, h)
    BY <1>9
  <1>11. h = [k \in D |-> h[k]] /\ \A k \in D : h[k] = PartRow(s, items, f, h, k)
    BY <1>1, <1>10 DEF PartRows
  <1> DEFINE G == {r \in Nat : r <= n => h[n + 1 - r] \in V}
  <1>12. ASSUME NEW r \in Nat, \A l \in 0 .. r - 1 : l \in G, r <= n PROVE h[n + 1 - r] \in V
    <2>1. PICK k \in D : k = n + 1 - r
      BY <1>12
    <2>2. ASSUME k <= n PROVE h[k + 1] \in V
      <3>1. PICK t \in 0 .. r - 1 : t = r - 1 /\ n + 1 - t = k + 1 /\ t <= n
        BY <2>1, <2>2
      <3>2. t \in G
        <4> HIDE DEF G
        <4> QED
          BY <1>12
      <3> QED
        BY <3>1, <3>2
    <2> QED
      BY <1>2, <1>11, <2>1, <2>2
  <1>13. Nat \subseteq G
    <2>1. ASSUME NEW r \in Nat, \A l \in 0 .. r - 1 : l \in G PROVE r \in G
      BY <1>12, <2>1
    <2> HIDE DEF G
    <2> QED
      BY <2>1, AllNumbers
  <1>14. ASSUME NEW k \in D PROVE h[k] \in V
    <2>1. PICK r \in Nat : r = n + 1 - k /\ k = n + 1 - r /\ r <= n
      OBVIOUS
    <2> QED
      BY <1>13, <2>1
  <1>15. h \in [D -> V]
    BY <1>11, <1>14
  <1> QED
    BY <1>1, <1>10, <1>11, <1>15 DEF PartsOf, PartTable

LEMMA PartsMore ==
  ASSUME NEW S, NEW s \in Seq(S), NEW I, NEW it \in I, NEW rest \in Seq(I), NEW b \in 0 .. Len(s),
         NEW g \in [0 .. Len(rest) -> 0 .. Len(s)]
  PROVE  PartsOf(s, <<it>> \o rest, Begin(b, g, Len(rest)))
           = Maybe(it.wild, SubSeq(s, b + 1, g[0])) \o PartsOf(s, rest, g)
  <1>1. PICK N \in Nat : N = Len(rest)
    OBVIOUS
  <1>2. PICK items \in Seq(I) : items = <<it>> \o rest
    BY ConsIs
  <1>3. Len(items) = N + 1 /\ items[1] = it /\ \A k \in 1 .. N : items[k + 1] = rest[k]
    BY <1>1, <1>2, ConsIs
  <1>4. PICK f : f = Begin(b, g, N)
    OBVIOUS
  <1>5. f \in [0 .. N + 1 -> 0 .. Len(s)] /\ f[0] = b /\ \A k \in 0 .. N : f[k + 1] = g[k]
    BY <1>1, <1>4 DEF Begin
  <1>6. PICK R : PartTable(s, items, f, R) /\ PartsOf(s, items, f) = R[1]
    <2>1. f \in [0 .. Len(items) -> 0 .. Len(s)]
      BY <1>3, <1>5
    <2> QED
      BY <2>1, PartsAre
  <1>7. PICK T : PartTable(s, rest, g, T) /\ PartsOf(s, rest, g) = T[1]
    BY PartsAre
  <1>8. ASSUME NEW k \in 1 .. N + 1
        PROVE  R[k] = (IF items[k].wild THEN <<SubSeq(s, f[k - 1] + 1, f[k])>> ELSE <<>>) \o R[k + 1]
    <2>1. k \in 1 .. Len(items) + 1 /\ ~ k > Len(items)
      BY <1>3
    <2>2. R[k] = PartRow(s, items, f, R, k)
      BY <1>6, <2>1 DEF PartTable
    <2> QED
      BY <2>1, <2>2 DEF PartRow
  <1>9. ASSUME NEW k \in 1 .. N
        PROVE  T[k] = (IF rest[k].wild THEN <<SubSeq(s, g[k - 1] + 1, g[k])>> ELSE <<>>) \o T[k + 1]
    <2>1. k \in 1 .. Len(rest) + 1 /\ ~ k > Len(rest)
      BY <1>1
    <2>2. T[k] = PartRow(s, rest, g, T, k)
      BY <1>7, <2>1 DEF PartTable
    <2> QED
      BY <2>1, <2>2 DEF PartRow
  <1> DEFINE G == {r \in Nat : r <= N => R[(N + 1 - r) + 1] = T[N + 1 - r]}
  <1>10. ASSUME NEW r \in Nat, \A l \in 0 .. r - 1 : l \in G, r <= N
         PROVE  R[(N + 1 - r) + 1] = T[N + 1 - r]
    <2>1. PICK k \in 1 .. N + 1 : k = N + 1 - r
      BY <1>10
    <2>2. CASE k = N + 1
      <3>1. /\ k + 1 \in 1 .. Len(items) + 1 /\ k + 1 > Len(items)
            /\ k \in 1 .. Len(rest) + 1 /\ k > Len(rest)
        BY <1>1, <1>3, <2>2
      <3>2. R[k + 1] = PartRow(s, items, f, R, k + 1) /\ T[k] = PartRow(s, rest, g, T, k)
        BY <1>6, <1>7, <3>1 DEF PartTable
      <3>3. R[k + 1] = <<>> /\ T[k] = <<>>
        BY <3>1, <3>2 DEF PartRow
      <3> QED
        BY <2>1, <3>3
    <2>3. CASE k # N + 1
      <3>1. PICK t \in 0 .. r - 1 : t = r - 1 /\ N + 1 - t = k + 1 /\ t <= N
        BY <1>10, <2>1, <2>3
      <3>2. t \in G
        <4> HIDE DEF G
        <4> QED
          BY <1>10
      <3>3. R[(k + 1) + 1] = T[k + 1]
        BY <3>1, <3>2
      <3>4. k + 1 \in 1 .. N + 1 /\ k \in 1 .. N /\ (k + 1) - 1 = k /\ k - 1 \in 0 .. N /\ (k - 1) + 1 = k
        BY <2>3
      <3>5. f[k + 1] = g[k] /\ f[k] = g[k - 1] /\ items[k + 1] = rest[k]
        BY <1>3, <1>5, <3>4
      <3>6. R[k + 1] = (IF items[k + 1].wild THEN <<SubSeq(s, f[k] + 1, f[k + 1])>> ELSE <<>>) \o R[(k + 1) + 1]
        BY <1>8, <3>4
      <3>7. R[k + 1] = T[k]
        BY <1>9, <3>3, <3>4, <3>5, <3>6
      <3> QED
        BY <2>1, <3>7
    <2> QED
      BY <2>2, <2>3
  <1>11. Nat \subseteq G
    <2>1. ASSUME NEW r \in Nat, \A l \in 0 .. r - 1 : l \in G PROVE r \in G
      BY <1>10, <2>1
    <2> HIDE DEF G
    <2> QED
      BY <2>1, AllNumbers
  <1>12. R[2] = T[1]
    <2>1. PICK r \in Nat : r = N /\ r <= N /\ N + 1 - r = 1 /\ (N + 1 - r) + 1 = 2
      OBVIOUS
    <2> QED
      BY <1>11, <2>1
  <1>13. R[1] = (IF items[1].wild THEN <<SubSeq(s, f[0] + 1, f[1])>> ELSE <<>>) \o R[2]
    <2>1. 1 \in 1 .. N + 1 /\ 1 - 1 = 0 /\ 1 + 1 = 2
      OBVIOUS
    <2> QED
      BY <1>8, <2>1
  <1>14. f[1] = g[0]
    BY <1>5
  <1> QED
    BY <1>1, <1>2, <1>3, <1>4, <1>5, <1>6, <1>7, <1>12, <1>13, <1>14 DEF Maybe

LEMMA AbortIs == ABORT \notin Seq(Seq(Symbols)) /\ ABORT # <<>>
  <1>1. Len(ABORT) = 1 /\ ABORT[1] = <<"ABORT">>
    BY DEF ABORT
  <1>2. Len(<<"ABORT">>) = 1 /\ <<"ABORT">>[1] = "ABORT"
    OBVIOUS
  <1>3. "ABORT" \notin Symbols
    BY ABORTAssumption DEF Symbols
  <1>4. <<"ABORT">> \notin Seq(Symbols)
    BY <1>2, <1>3, ElementOfSeq
  <1>5. ABORT \notin Seq(Seq(Symbols))
    BY <1>1, <1>4, ElementOfSeq
  <1>6. ABORT # <<>>
    BY <1>1
  <1> QED
    BY <1>5, <1>6

\* A star that is not the last item and has to go to the end of the string.
Stuck(f, s, items) == \E k \in 1 .. Len(items) - 1 : items[k].star /\ f[k] = Len(s)

\* x are the parts of s from b on, for these items.
Gives(s, items, b, x) ==
  \E f : /\ Shortest(f, s, items, b)
         /\ Stuck(f, s, items) => PartsOf(s, items, f) # <<>>
         /\ x = IF Stuck(f, s, items) THEN ABORT ELSE PartsOf(s, items, f)

Joined(part, tail) == IF tail = ABORT THEN ABORT ELSE part \o tail

LEMMA GivesNothing ==
  ASSUME NEW S, NEW s \in Seq(S)
  PROVE  Gives(s, <<>>, Len(s), <<>>)
  <1>1. PICK L \in Nat : L = Len(s)
    OBVIOUS
  <1>2. Len(<<>>) = 0 /\ <<>> \in Seq(S)
    BY EmptySeq
  <1>3. PICK f : f = [k \in 0 .. 0 |-> L]
    OBVIOUS
  <1>4. CutTo(f, s, <<>>, 0, L, L)
    BY <1>1, <1>3 DEF CutTo
  <1>5. ASSUME NEW g, CutTo(g, s, <<>>, 0, L, L) PROVE g = f
    <2>1. g \in [0 .. 0 -> 0 .. L] /\ g[0] = L
      BY <1>1, <1>5 DEF CutTo
    <2>2. \A k \in 0 .. 0 : g[k] = f[k]
      BY <1>3, <2>1
    <2>3. f \in [0 .. 0 -> 0 .. L]
      BY <1>3
    <2> QED
      BY <2>1, <2>2, <2>3
  <1>6. Shortest(f, s, <<>>, L)
    BY <1>1, <1>2, <1>4, <1>5 DEF Shortest, Shorter
  <1>7. ~Stuck(f, s, <<>>)
    BY <1>2 DEF Stuck
  <1>8. PartsOf(s, <<>>, f) = <<>>
    <2>1. PICK none \in Seq(S) : none = <<>> /\ Len(none) = 0
      BY <1>2
    <2>2. f \in [0 .. Len(none) -> 0 .. Len(s)]
      BY <1>1, <1>3, <2>1
    <2>3. PICK h : PartTable(s, none, f, h) /\ PartsOf(s, none, f) = h[1]
      BY <2>2, PartsAre
    <2>4. 1 \in 1 .. Len(none) + 1 /\ 1 > Len(none)
      BY <2>1
    <2> QED
      BY <2>1, <2>3, <2>4 DEF PartRow, PartTable
  <1> QED
    BY <1>1, <1>6, <1>7, <1>8 DEF Gives

LEMMA GivesMore ==
  ASSUME NEW s \in Seq(Symbols), NEW I, NEW it \in I, it.star => it.wild, NEW rest \in Seq(I),
         NEW b \in 0 .. Len(s), NEW e \in b .. Len(s), P!Takes(it, SubSeq(s, b + 1, e)),
         \A d \in b .. e - 1 : ~(P!Takes(it, SubSeq(s, b + 1, d)) /\ CutFrom(s, rest, d)),
         NEW x, Gives(s, rest, e, x)
  PROVE  Gives(s, <<it>> \o rest, b,
               IF it.star /\ rest # <<>> /\ e = Len(s) THEN ABORT
               ELSE Joined(Maybe(it.wild, SubSeq(s, b + 1, e)), x))
  <1>1. PICK L \in Nat : L = Len(s)
    OBVIOUS
  <1>2. PICK N \in Nat : N = Len(rest)
    OBVIOUS
  <1>3. PICK items \in Seq(I) : items = <<it>> \o rest
    BY ConsIs
  <1>4. Len(items) = N + 1 /\ items[1] = it /\ \A k \in 1 .. N : items[k + 1] = rest[k]
    BY <1>2, <1>3, ConsIs
  <1>5. PICK g : /\ Shortest(g, s, rest, e)
                 /\ Stuck(g, s, rest) => PartsOf(s, rest, g) # <<>>
                 /\ x = IF Stuck(g, s, rest) THEN ABORT ELSE PartsOf(s, rest, g)
    BY DEF Gives
  <1>6. g \in [0 .. N -> 0 .. L] /\ g[0] = e
    BY <1>1, <1>2, <1>5 DEF Shortest, CutTo
  <1>7. PICK f : f = Begin(b, g, N)
    OBVIOUS
  <1>8. Shortest(f, s, items, b)
    BY <1>1, <1>2, <1>3, <1>5, <1>7, ShortestMore
  <1>9. PICK tail \in Seq(Seq(Symbols)) : tail = PartsOf(s, rest, g)
    <2>1. g \in [0 .. Len(rest) -> 0 .. Len(s)]
      BY <1>1, <1>2, <1>6
    <2>2. PICK h : h \in [1 .. Len(rest) + 1 -> Seq(Seq(Symbols))] /\ PartsOf(s, rest, g) = h[1]
      BY <2>1, PartsAre
    <2>3. 1 \in 1 .. Len(rest) + 1
      OBVIOUS
    <2> QED
      BY <2>2, <2>3
  <1>10. PartsOf(s, items, f) = Maybe(it.wild, SubSeq(s, b + 1, e)) \o tail
    <2>1. g \in [0 .. Len(rest) -> 0 .. Len(s)]
      BY <1>1, <1>2, <1>6
    <2>2. PartsOf(s, <<it>> \o rest, Begin(b, g, Len(rest)))
            = Maybe(it.wild, SubSeq(s, b + 1, g[0])) \o PartsOf(s, rest, g)
      BY <2>1, PartsMore
    <2> QED
      BY <1>2, <1>3, <1>6, <1>7, <1>9, <2>2
  <1>11. f[1] = e /\ \A k \in 1 .. N : f[k + 1] = g[k]
    BY <1>6, <1>7 DEF Begin
  <1>12. rest # <<>> <=> N >= 1
    BY <1>2
  <1>13. Stuck(f, s, items) <=> (it.star /\ rest # <<>> /\ e = L) \/ Stuck(g, s, rest)
    <2>1. ASSUME NEW k \in 1 .. N, items[k].star, f[k] = L
          PROVE  (it.star /\ rest # <<>> /\ e = L) \/ Stuck(g, s, rest)
      <3>1. CASE k = 1
        BY <1>4, <1>11, <1>12, <2>1, <3>1
      <3>2. CASE k # 1
        <4>1. PICK i \in 1 .. N - 1 : k = i + 1
          BY <3>2
        <4>2. i \in 1 .. N
          OBVIOUS
        <4>3. items[k] = rest[i] /\ f[k] = g[i]
          BY <1>4, <1>11, <4>1, <4>2
        <4> QED
          BY <1>1, <1>2, <2>1, <4>3 DEF Stuck
      <3> QED
        BY <3>1, <3>2
    <2>2. ASSUME it.star, rest # <<>>, e = L PROVE Stuck(f, s, items)
      <3>1. 1 \in 1 .. (N + 1) - 1
        BY <1>12, <2>2
      <3> QED
        BY <1>1, <1>4, <1>11, <2>2, <3>1 DEF Stuck
    <2>3. ASSUME Stuck(g, s, rest) PROVE Stuck(f, s, items)
      <3>1. PICK k \in 1 .. N - 1 : rest[k].star /\ g[k] = L
        BY <1>1, <1>2, <2>3 DEF Stuck
      <3>2. k + 1 \in 1 .. (N + 1) - 1 /\ k \in 1 .. N
        OBVIOUS
      <3>3. items[k + 1].star /\ f[k + 1] = L
        BY <1>4, <1>11, <3>1, <3>2
      <3> QED
        BY <1>1, <1>4, <3>2, <3>3 DEF Stuck
    <2>4. (N + 1) - 1 = N
      OBVIOUS
    <2> QED
      BY <1>1, <1>4, <2>1, <2>2, <2>3, <2>4 DEF Stuck
  <1>14. e \in 0 .. Len(s)
    BY <1>1
  <1>15. PICK wild : wild = it.wild
    OBVIOUS
  <1>16. /\ wild => Maybe(wild, SubSeq(s, b + 1, e)) \o tail # <<>>
         /\ tail # <<>> => Maybe(wild, SubSeq(s, b + 1, e)) \o tail # <<>>
    BY <1>14, MaybeIs
  <1>17. Stuck(f, s, items) => PartsOf(s, items, f) # <<>>
    BY <1>5, <1>9, <1>10, <1>13, <1>15, <1>16
  <1>18. tail # ABORT
    BY AbortIs
  <1>19. (IF it.star /\ rest # <<>> /\ e = L THEN ABORT ELSE Joined(Maybe(it.wild, SubSeq(s, b + 1, e)), x))
           = IF Stuck(f, s, items) THEN ABORT ELSE PartsOf(s, items, f)
    <2>1. CASE Stuck(g, s, rest)
      <3>1. x = ABORT /\ Stuck(f, s, items)
        BY <1>5, <1>13, <2>1
      <3> QED
        BY <3>1 DEF Joined
    <2>2. CASE ~Stuck(g, s, rest)
      <3>1. x = tail /\ (Stuck(f, s, items) <=> it.star /\ rest # <<>> /\ e = L)
        BY <1>5, <1>9, <1>13, <2>2
      <3> QED
        BY <1>10, <1>18, <3>1 DEF Joined
    <2> QED
      BY <2>1, <2>2
  <1> QED
    BY <1>1, <1>3, <1>8, <1>17, <1>19 DEF Gives

\* What is given is what the items say.
LEMMA GivenIs ==
  ASSUME NEW s \in Seq(Symbols), NEW I, NEW items \in Seq(I), NEW x, Gives(s, items, 0, x)
  PROVE  LET stuck == \E k \in DOMAIN items : /\ k < Len(items) /\ items[k].star
                                              /\ P!ShortestCut(s, items)[k] = Len(s)
         IN  /\ x = IF stuck THEN ABORT ELSE P!Parts(s, items)
             /\ stuck => P!Parts(s, items) # <<>>
             /\ P!Parts(s, items) # ABORT
  <1>1. PICK f : /\ Shortest(f, s, items, 0)
                 /\ Stuck(f, s, items) => PartsOf(s, items, f) # <<>>
                 /\ x = IF Stuck(f, s, items) THEN ABORT ELSE PartsOf(s, items, f)
    BY DEF Gives
  <1>2. f = P!ShortestCut(s, items)
    BY <1>1, ShortestCutIs
  <1>3. P!Parts(s, items) = PartsOf(s, items, P!ShortestCut(s, items))
    BY DEF P!Parts, PartsOf, PartRows, PartRow
  <1>4. Stuck(f, s, items) <=> \E k \in DOMAIN items : k < Len(items) /\ items[k].star /\ f[k] = Len(s)
    <2>1. PICK n \in Nat : n = Len(items) /\ DOMAIN items = 1 .. n
      OBVIOUS
    <2>2. \A k : k \in 1 .. n - 1 <=> k \in 1 .. n /\ k < n
      OBVIOUS
    <2> QED
      BY <2>1, <2>2 DEF Stuck
  <1>5. PartsOf(s, items, f) # ABORT
    <2>1. f \in [0 .. Len(items) -> 0 .. Len(s)]
      BY <1>1 DEF Shortest, CutTo
    <2>2. PICK h : h \in [1 .. Len(items) + 1 -> Seq(Seq(Symbols))] /\ PartsOf(s, items, f) = h[1]
      BY <2>1, PartsAre
    <2>3. 1 \in 1 .. Len(items) + 1
      OBVIOUS
    <2> QED
      BY <2>2, <2>3, AbortIs
  <1> QED
    BY <1>1, <1>2, <1>3, <1>4, <1>5

-----------------------------------------------------------------------------
(***************************************************************************)
(* Extraction                                                              *)
(***************************************************************************)
\* M tells which positions of s match, X has the parts for what follows.
ExtractBody(s, p, q, M, X, j, i) ==
  LET c == At(p, j)
      ends == {k \in i .. Len(s) : M[j + 1][k]}
      class == rangematch(p, q, j + 1, At(s, i))
  IN  IF j > Len(p) THEN <<>>
      ELSE IF ISQUOTED(q, j) \/ c \notin {"*", "[", "?"} THEN X[j + 1][i + 1]
      ELSE IF c = "*" /\ j = Len(p) THEN <<From(s, i)>>
      ELSE IF c = "*" /\ ends = {} THEN ABORT
      ELSE IF c = "*"
      THEN Joined(<<SubSeq(s, i, Min(ends) - 1)>>,
                  IF WildFrom(p, q, j + 1) THEN X[j + 1][Min(ends)] ELSE <<>>)
      ELSE IF c = "[" /\ class = RANGE_ERROR THEN X[j + 1][i + 1]
      ELSE Joined(<<<<s[i]>>>>, X[IF c = "[" THEN class ELSE j + 1][i + 1])
ExtractRow(s, p, q, M, X, j) ==
  [i \in {i \in 1 .. Len(s) + 1 : M[j][i]} |-> ExtractBody(s, p, q, M, X, j, i)]
ExtractRows(s, p, q, M, X) == X = [j \in 1 .. Len(p) + 1 |-> ExtractRow(s, p, q, M, X, j)]

\* The same in terms of the marked pattern.
Yield(s, p, q, m, M, X, j, i) ==
  LET ends == {k \in i .. Len(s) : M[j + 1][k]}
  IN  IF j > Len(m) THEN <<>>
      ELSE IF ~P!Raw(m, j, "*")
      THEN IF P!Item(m, j).wild THEN Joined(<<<<s[i]>>>>, X[Behind(m, j)][i + 1])
                                ELSE X[Behind(m, j)][i + 1]
      ELSE IF j = Len(m) THEN <<From(s, i)>>
      ELSE IF ends = {} THEN ABORT
      ELSE Joined(<<SubSeq(s, i, Min(ends) - 1)>>,
                  IF WildFrom(p, q, j + 1) THEN X[j + 1][Min(ends)] ELSE <<>>)

LEMMA YieldIs ==
  ASSUME NEW s \in Seq(Symbols), NEW p \in Seq(Symbols), NEW q, NEW m, Marks(m, p, q), PlainClasses(m),
         NEW M, MatchTable(M, s, m, p, q), NEW X,
         NEW j \in 1 .. Len(p) + 1, NEW i \in 1 .. Len(s) + 1, M[j][i]
  PROVE  ExtractBody(s, p, q, M, X, j, i) = Yield(s, p, q, m, M, X, j, i)
  <1>1. PICK n \in Nat : n = Len(p) /\ n = Len(m)
    BY DEF Marks
  <1>2. CASE j > n
    BY <1>1, <1>2 DEF ExtractBody, Yield
  <1>3. CASE ~ j > n
    <2>1. j \in 1 .. Len(p) /\ j \in Nat /\ j <= n /\ PlainClass(m, j)
      BY <1>1, <1>3 DEF PlainClasses
    <2>2. PICK c \in Symbols : c = p[j] /\ c = At(p, j) /\ c = m[j].char
      BY <2>1, SymbolAt DEF Marks
    <2>3. \A x : x # NUL => (P!Raw(m, j, x) <=> c = x /\ ~ISQUOTED(q, j))
      <3>1. ASSUME NEW x, x # NUL PROVE P!Raw(m, j, x) <=> c = x /\ ~ISQUOTED(q, j)
        <4>1. P!Raw(m, j, x) <=> j \in 1 .. Len(p) /\ p[j] = x /\ ~ISQUOTED(q, j)
          BY <2>1, <3>1, RawIs
        <4> QED
          BY <2>1, <2>2, <4>1
      <3> QED
        BY <3>1
    <2>4. /\ P!Raw(m, j, "*") <=> c = "*" /\ ~ISQUOTED(q, j)
          /\ P!Raw(m, j, "?") <=> c = "?" /\ ~ISQUOTED(q, j)
          /\ P!Raw(m, j, "[") <=> c = "[" /\ ~ISQUOTED(q, j)
      BY <2>3 DEF NUL
    <2>5. CASE P!Raw(m, j, "*")
      BY <1>1, <2>1, <2>2, <2>4, <2>5 DEF ExtractBody, Yield
    <2>6. CASE ~P!Raw(m, j, "*")
      <3>1. Reply(s, m, M, j, i, StarEnd(p, q, j + 1))
        BY DEF MatchTable
      <3>2. i <= Len(s) /\ s[i] \in P!Item(m, j).chars
        BY <1>1, <2>1, <2>6, <3>1 DEF Reply
      <3>3. PICK x \in Symbols : x = s[i] /\ x = At(s, i)
        BY <3>2 DEF At
      <3>4. P!Item(m, j).wild <=> P!Raw(m, j, "?") \/ P!IsClass(m, j)
        BY <2>6 DEF P!Item
      <3>5. Yield(s, p, q, m, M, X, j, i)
              = IF P!Item(m, j).wild THEN Joined(<<<<s[i]>>>>, X[Behind(m, j)][i + 1])
                                     ELSE X[Behind(m, j)][i + 1]
        BY <1>1, <2>1, <2>6 DEF Yield
      <3>6. CASE P!IsClass(m, j)
        <4>1. P!Raw(m, j, "[") /\ P!ClassEnds(m, j) # {} /\ Behind(m, j) = P!ClassEnd(m, j) + 1
          BY <3>6 DEF P!IsClass, Behind
        <4>2. P!Item(m, j).chars = P!Class(m, j)
          BY <3>6 DEF P!Item
        <4>3. /\ P!ClassEnd(m, j) \in j + 1 .. Len(p)
              /\ rangematch(p, q, j + 1, x) = IF x \in P!Class(m, j) THEN P!ClassEnd(m, j) + 1 ELSE RANGE_FAIL
          BY <2>1, <4>1, RangematchIs
        <4>4. PICK class \in Nat : class = rangematch(p, q, j + 1, At(s, i)) /\ class = Behind(m, j)
          BY <3>2, <3>3, <4>1, <4>2, <4>3
        <4>5. class # RANGE_ERROR
          BY DEF RANGE_ERROR
        <4>6. c = "[" /\ ~ISQUOTED(q, j)
          BY <2>4, <4>1
        <4>7. ExtractBody(s, p, q, M, X, j, i) = Joined(<<<<s[i]>>>>, X[class][i + 1])
          BY <1>1, <2>1, <2>2, <4>4, <4>5, <4>6 DEF ExtractBody
        <4> QED
          BY <3>4, <3>5, <3>6, <4>4, <4>7
      <3>7. CASE ~P!IsClass(m, j)
        <4>1. Behind(m, j) = j + 1
          BY <3>7 DEF Behind
        <4>2. CASE P!Raw(m, j, "?")
          <5>1. c = "?" /\ ~ISQUOTED(q, j)
            BY <2>4, <4>2
          <5>2. ExtractBody(s, p, q, M, X, j, i) = Joined(<<<<s[i]>>>>, X[j + 1][i + 1])
            BY <1>1, <2>1, <2>2, <5>1 DEF ExtractBody
          <5> QED
            BY <3>4, <3>5, <4>1, <4>2, <5>2
        <4>3. CASE ~P!Raw(m, j, "?")
          <5>1. ExtractBody(s, p, q, M, X, j, i) = X[j + 1][i + 1]
            <6>1. CASE ISQUOTED(q, j) \/ c \notin {"*", "[", "?"}
              BY <1>1, <2>1, <2>2, <6>1 DEF ExtractBody
            <6>2. CASE ~(ISQUOTED(q, j) \/ c \notin {"*", "[", "?"})
              <7>1. c = "[" /\ P!Raw(m, j, "[") /\ P!ClassEnds(m, j) = {}
                BY <2>4, <2>6, <3>7, <4>3, <6>2 DEF P!IsClass
              <7>2. rangematch(p, q, j + 1, x) = RANGE_ERROR
                BY <2>1, <7>1, RangematchIs
              <7> QED
                BY <1>1, <2>1, <2>2, <3>3, <6>2, <7>1, <7>2 DEF ExtractBody
            <6> QED
              BY <6>1, <6>2
          <5> QED
            BY <3>4, <3>5, <3>7, <4>1, <4>3, <5>1
        <4> QED
          BY <4>2, <4>3
      <3> QED
        BY <3>6, <3>7
    <2> QED
      BY <2>5, <2>6
  <1> QED
    BY <1>2, <1>3

\* The parts from a position on depend on those behind it only.
LEMMA YieldBelow ==
  ASSUME NEW s \in Seq(Symbols), NEW p \in Seq(Symbols), NEW q, NEW m, Marks(m, p, q), PlainClasses(m),
         NEW M, MatchTable(M, s, m, p, q), NEW X, NEW Y,
         NEW j \in 1 .. Len(p) + 1, \A k \in 1 .. Len(p) + 1 : k > j => X[k] = Y[k]
  PROVE  ExtractRow(s, p, q, M, X, j) = ExtractRow(s, p, q, M, Y, j)
  <1>1. PICK n \in Nat : n = Len(p) /\ n = Len(m)
    BY DEF Marks
  <1>2. ASSUME NEW i \in 1 .. Len(s) + 1, M[j][i]
        PROVE  ExtractBody(s, p, q, M, X, j, i) = ExtractBody(s, p, q, M, Y, j, i)
    <2>1. Yield(s, p, q, m, M, X, j, i) = Yield(s, p, q, m, M, Y, j, i)
      <3>1. CASE j > n
        BY <1>1, <3>1 DEF Yield
      <3>2. CASE ~ j > n
        <4>1. j \in 1 .. Len(p) /\ PlainClass(m, j) /\ j + 1 \in 1 .. Len(p) + 1 /\ j + 1 > j
          BY <1>1, <3>2 DEF PlainClasses
        <4>2. Behind(m, j) \in j + 1 .. Len(p) + 1
          BY <4>1, BehindIs
        <4>3. PICK h \in 1 .. Len(p) + 1 : h = Behind(m, j) /\ h > j
          BY <4>2
        <4>4. X[j + 1] = Y[j + 1] /\ X[h] = Y[h]
          BY <4>1, <4>3
        <4> QED
          BY <4>3, <4>4 DEF Yield
      <3> QED
        BY <3>1, <3>2
    <2>2. ExtractBody(s, p, q, M, X, j, i) = Yield(s, p, q, m, M, X, j, i)
      BY <1>2, YieldIs
    <2>3. ExtractBody(s, p, q, M, Y, j, i) = Yield(s, p, q, m, M, Y, j, i)
      BY <1>2, YieldIs
    <2> QED
      BY <2>1, <2>2, <2>3
  <1> QED
    BY <1>2 DEF ExtractRow

LEMMA ExtractIs ==
  ASSUME NEW s \in Seq(Symbols), NEW p \in Seq(Symbols), NEW q, NEW m, Marks(m, p, q), PlainClasses(m)
  PROVE  \A j \in 1 .. Len(p) + 1, i \in 1 .. Len(s) + 1 :
           MatchFrom(s, p, q)[j][i] =>
             Extract(s, p, q)[j][i] = Yield(s, p, q, m, MatchFrom(s, p, q), Extract(s, p, q), j, i)
  <1>1. PICK n \in Nat : n = Len(p)
    OBVIOUS
  <1>2. PICK M : M = MatchFrom(s, p, q) /\ MatchTable(M, s, m, p, q)
    BY MatchFromIs
  <1> DEFINE D == 1 .. n + 1
             Given(r, X) == DOMAIN X = D /\ \A j \in D : j > r => X[j] = ExtractRow(s, p, q, M, X, j)
             G == {t \in Nat : t <= n + 1 => \E X : Given(n + 1 - t, X)}
  <1>3. ASSUME NEW t \in Nat, \A l \in 0 .. t - 1 : l \in G, t <= n + 1 PROVE \E X : Given(n + 1 - t, X)
    <2>1. CASE t = 0
      <3>1. DOMAIN [j \in D |-> 0] = D /\ \A j \in D : ~ j > n + 1 - t
        BY <2>1
      <3> QED
        BY <3>1
    <2>2. CASE t # 0
      <3>1. PICK r \in D : r = n + 1 - (t - 1)
        BY <1>3, <2>2
      <3>2. PICK u \in 0 .. t - 1 : u = t - 1 /\ u <= n + 1
        BY <1>3, <2>2
      <3>3. u \in G
        <4> HIDE DEF G
        <4> QED
          BY <1>3
      <3>4. PICK X : Given(r, X)
        <4> HIDE DEF Given
        <4> QED
          BY <3>1, <3>2, <3>3
      <3>5. PICK Y : Y = [j \in D |-> IF j = r THEN ExtractRow(s, p, q, M, X, r) ELSE X[j]]
        OBVIOUS
      <3>6. \A j \in D : j > r => Y[j] = X[j]
        BY <3>5
      <3>7. ASSUME NEW j \in D, j > r - 1 PROVE Y[j] = ExtractRow(s, p, q, M, Y, j)
        <4>1. \A k \in 1 .. Len(p) + 1 : k > j => X[k] = Y[k]
          BY <1>1, <3>6, <3>7
        <4>2. ExtractRow(s, p, q, M, X, j) = ExtractRow(s, p, q, M, Y, j)
          BY <1>1, <1>2, <4>1, YieldBelow
        <4>3. j = r \/ j > r
          BY <3>7
        <4> QED
          BY <3>4, <3>5, <4>2, <4>3
      <3>8. Given(r - 1, Y)
        BY <3>5, <3>7
      <3>9. n + 1 - t = r - 1
        BY <3>1
      <3> HIDE DEF Given
      <3> QED
        BY <3>8, <3>9
    <2> QED
      BY <2>1, <2>2
  <1>4. Nat \subseteq G
    <2>1. ASSUME NEW r \in Nat, \A l \in 0 .. r - 1 : l \in G PROVE r \in G
      <3> HIDE DEF Given
      <3> QED
        BY <1>3, <2>1
    <2> HIDE DEF G
    <2> QED
      BY <2>1, AllNumbers
  <1>5. PICK X : Given(0, X)
    <2>1. PICK t \in Nat : t = n + 1 /\ t <= n + 1 /\ n + 1 - t = 0
      OBVIOUS
    <2>2. t \in G
      BY <1>4
    <2> HIDE DEF Given
    <2> QED
      BY <2>1, <2>2
  <1>6. PICK Y : Y = [j \in D |-> X[j]]
    OBVIOUS
  <1>7. ASSUME NEW j \in D PROVE Y[j] = ExtractRow(s, p, q, M, Y, j)
    <2>1. \A k \in 1 .. Len(p) + 1 : k > j => X[k] = Y[k]
      BY <1>1, <1>6
    <2>2. ExtractRow(s, p, q, M, X, j) = ExtractRow(s, p, q, M, Y, j)
      BY <1>1, <1>2, <2>1, YieldBelow
    <2> QED
      BY <1>5, <1>6, <2>2
  <1>8. ExtractRows(s, p, q, M, Y)
    BY <1>1, <1>6, <1>7 DEF ExtractRows
  <1>9. Extract(s, p, q) = CHOOSE Z : ExtractRows(s, p, q, M, Z)
    BY <1>2 DEF Extract, ExtractRows, ExtractRow, ExtractBody, Joined
  <1>10. PICK Z : Z = Extract(s, p, q) /\ ExtractRows(s, p, q, M, Z)
    BY <1>8, <1>9
  <1>11. \A j \in 1 .. Len(p) + 1 : Z[j] = ExtractRow(s, p, q, M, Z, j)
    BY <1>10 DEF ExtractRows
  <1>12. ASSUME NEW j \in 1 .. Len(p) + 1, NEW i \in 1 .. Len(s) + 1, M[j][i]
         PROVE  Z[j][i] = Yield(s, p, q, m, M, Z, j, i)
    <2>1. ExtractRow(s, p, q, M, Z, j)[i] = ExtractBody(s, p, q, M, Z, j, i)
      BY <1>12 DEF ExtractRow
    <2>2. ExtractBody(s, p, q, M, Z, j, i) = Yield(s, p, q, m, M, Z, j, i)
      BY <1>2, <1>12, YieldIs
    <2> QED
      BY <1>11, <2>1, <2>2
  <1> QED
    BY <1>2, <1>10, <1>12

LEMMA TakesOne ==
  ASSUME NEW S, NEW s \in Seq(S), NEW it, ~it.star, NEW b \in 0 .. Len(s), NEW e \in b .. Len(s)
  PROVE  P!Takes(it, SubSeq(s, b + 1, e)) <=> e = b + 1 /\ s[b + 1] \in it.chars
  <1>1. PICK L \in Nat : L = Len(s)
    OBVIOUS
  <1>2. PICK w : w = SubSeq(s, b + 1, e)
    OBVIOUS
  <1>3. Len(w) = e - b
    BY <1>1, <1>2
  <1>4. e = b + 1 => w[1] = s[b + 1]
    BY <1>1, <1>2
  <1>5. e - b = 1 <=> e = b + 1
    OBVIOUS
  <1>6. P!Takes(it, w) <=> Len(w) = 1 /\ w[1] \in it.chars
    BY DEF P!Takes
  <1> QED
    BY <1>2, <1>3, <1>4, <1>5, <1>6

LEMMA OneIs ==
  ASSUME NEW S, NEW s \in Seq(S), NEW i \in 1 .. Len(s)
  PROVE  SubSeq(s, i, i) = <<s[i]>>
  <1>1. PICK c \in S : c = s[i]
    OBVIOUS
  <1>2. SubSeq(s, i, i) \in Seq(S) /\ Len(SubSeq(s, i, i)) = 1 /\ SubSeq(s, i, i)[1] = c
    <2>1. \A k \in i .. i : s[k] \in S
      OBVIOUS
    <2>2. SubSeq(s, i, i) \in Seq(S)
      BY <2>1, SubSeqProperties
    <2> QED
      BY <1>1, <2>2
  <1>3. <<c>> \in Seq(S) /\ Len(<<c>>) = 1 /\ <<c>>[1] = c
    OBVIOUS
  <1>4. PICK u \in Seq(S), v \in Seq(S) : u = SubSeq(s, i, i) /\ v = <<s[i]>>
    BY <1>1, <1>2, <1>3
  <1>5. Len(u) = Len(v) /\ \A k \in 1 .. Len(u) : u[k] = v[k]
    BY <1>1, <1>2, <1>3, <1>4
  <1>6. u = v
    BY <1>5, SeqEqual
  <1> QED
    BY <1>4, <1>6

LEMMA GivesSeq ==
  ASSUME NEW S, NEW s \in Seq(S), NEW I, NEW items \in Seq(I), NEW b \in 0 .. Len(s), NEW x, Gives(s, items, b, x)
  PROVE  x = ABORT \/ x \in Seq(Seq(S))
  <1>1. PICK f : /\ Shortest(f, s, items, b)
                 /\ x = IF Stuck(f, s, items) THEN ABORT ELSE PartsOf(s, items, f)
    BY DEF Gives
  <1>2. f \in [0 .. Len(items) -> 0 .. Len(s)]
    BY <1>1 DEF Shortest, CutTo
  <1>3. PICK h : h \in [1 .. Len(items) + 1 -> Seq(Seq(S))] /\ PartsOf(s, items, f) = h[1]
    BY <1>2, PartsAre
  <1>4. 1 \in 1 .. Len(items) + 1
    OBVIOUS
  <1> QED
    BY <1>1, <1>3, <1>4

\* What the parts from position j and i on must be.
Claim(s, p, q, F, M, X, j, i) ==
  M[j][i] => Gives(s, F[j], i - 1, X[j][i]) /\ (~WildFrom(p, q, j) => X[j][i] = <<>>)
Claims(s, p, q, F, M, X, j) ==
  \A i \in 1 .. Len(s) + 1 : (M[j][i] <=> CutFrom(s, F[j], i - 1)) /\ Claim(s, p, q, F, M, X, j, i)

\* No wildcard from j on: none at j, and none behind.
LEMMA WildIs ==
  ASSUME NEW p \in Seq(Symbols), NEW q, NEW m, Marks(m, p, q), NEW j \in 1 .. Len(p)
  PROVE  /\ P!Raw(m, j, "*") => WildFrom(p, q, j)
         /\ ~WildFrom(p, q, j) => ~P!Item(m, j).wild /\ Behind(m, j) = j + 1 /\ ~WildFrom(p, q, j + 1)
  <1>1. \A c : c # NUL => (P!Raw(m, j, c) <=> p[j] = c /\ ~ISQUOTED(q, j))
    <2>1. j \in Nat
      OBVIOUS
    <2> QED
      BY <2>1, RawIs
  <1>2. P!Raw(m, j, "*") \/ P!Raw(m, j, "?") \/ P!Raw(m, j, "[") => WildFrom(p, q, j)
    <2>1. j \in j .. Len(p)
      OBVIOUS
    <2> QED
      BY <1>1, <2>1 DEF WildFrom, NUL
  <1>3. WildFrom(p, q, j + 1) => WildFrom(p, q, j)
    <2>1. \A k \in j + 1 .. Len(p) : k \in j .. Len(p)
      OBVIOUS
    <2> QED
      BY <2>1 DEF WildFrom
  <1>4. ASSUME ~P!Raw(m, j, "*"), ~P!Raw(m, j, "?"), ~P!Raw(m, j, "[")
        PROVE  ~P!Item(m, j).wild /\ Behind(m, j) = j + 1
    BY <1>4 DEF P!Item, P!IsClass, Behind
  <1> QED
    BY <1>2, <1>3, <1>4

LEMMA ClaimAtStar ==
  ASSUME NEW s \in Seq(Symbols), NEW p \in Seq(Symbols), NEW q, NEW m, Marks(m, p, q), PlainClasses(m),
         NEW M, MatchTable(M, s, m, p, q), NEW F, ItemTable(F, m), NEW X,
         NEW j \in 1 .. Len(p), NEW i \in 1 .. Len(s) + 1, P!Raw(m, j, "*"), M[j][i],
         X[j][i] = Yield(s, p, q, m, M, X, j, i),
         Claims(s, p, q, F, M, X, j + 1)
  PROVE  Gives(s, F[j], i - 1, X[j][i])
  <1>1. PICK n \in Nat : n = Len(p) /\ n = Len(m)
    BY DEF Marks
  <1>2. PICK L \in Nat : L = Len(s)
    OBVIOUS
  <1>3. PICK b \in 0 .. L : b = i - 1 /\ i = b + 1
    BY <1>2
  <1>4. F \in [1 .. n + 1 -> Seq(ItemsOf(m))] /\ \A l \in 1 .. n + 1 : F[l] = ItemRow(m, F, l)
    BY <1>1 DEF ItemTable
  <1>5. j \in 1 .. n /\ j \in 1 .. n + 1 /\ j + 1 \in 1 .. n + 1 /\ ~ j > n
    BY <1>1
  <1>6. PICK it \in ItemsOf(m) : it = P!Item(m, j)
    BY <1>1, <1>5 DEF ItemsOf
  <1>7. PICK rest \in Seq(ItemsOf(m)) : rest = F[j + 1]
    BY <1>4, <1>5
  <1>8. Behind(m, j) = j + 1
    <2>1. ~P!IsClass(m, j)
      BY DEF P!IsClass, P!Raw
    <2> QED
      BY <2>1 DEF Behind
  <1>9. F[j] = <<it>> \o rest
    BY <1>1, <1>4, <1>5, <1>6, <1>7, <1>8 DEF ItemRow
  <1>10. it.star /\ it.wild
    BY <1>6 DEF P!Item
  <1>11. rest # <<>> <=> j < n
    <2>1. CASE j + 1 > n
      <3>1. rest = <<>>
        BY <1>1, <1>4, <1>5, <1>7, <2>1 DEF ItemRow
      <3> QED
        BY <1>5, <2>1, <3>1
    <2>2. CASE ~ j + 1 > n
      <3>1. j + 1 \in 1 .. Len(p) /\ PlainClass(m, j + 1)
        BY <1>1, <1>5, <2>2 DEF PlainClasses
      <3>2. Behind(m, j + 1) \in 1 .. n + 1
        <4>1. Behind(m, j + 1) \in (j + 1) + 1 .. Len(p) + 1
          BY <3>1, BehindIs
        <4> QED
          BY <1>1, <4>1
      <3>3. PICK x \in ItemsOf(m) : x = P!Item(m, j + 1)
        BY <1>1, <3>1 DEF ItemsOf
      <3>4. PICK tail \in Seq(ItemsOf(m)) : tail = F[Behind(m, j + 1)]
        BY <1>4, <3>2
      <3>5. rest = <<x>> \o tail
        BY <1>1, <1>4, <1>5, <1>7, <2>2, <3>3, <3>4 DEF ItemRow
      <3>6. Len(rest) = Len(tail) + 1 /\ Len(tail) \in Nat
        BY <3>5, ConsIs
      <3> QED
        BY <1>5, <2>2, <3>6
    <2> QED
      BY <2>1, <2>2
  <1> DEFINE Ks == {k \in i .. L + 1 : M[j + 1][k]}
             ends == {k \in i .. L : M[j + 1][k]}
  <1>12. Ks # {} /\ Ks \in SUBSET Nat
    <2>1. M[j][i] <=> \E k \in i .. Len(s) + 1 : M[j + 1][k]
      BY StarReply
    <2>2. \E k \in i .. L + 1 : M[j + 1][k]
      BY <1>2, <2>1
    <2>3. \A k \in i .. L + 1 : k \in Nat
      OBVIOUS
    <2> QED
      BY <2>2, <2>3
  <1>13. PICK k \in Ks : \A l \in Ks : k <= l
    <2> HIDE DEF Ks
    <2> QED
      BY <1>12, LeastOne
  <1>14. PICK e \in b .. L : e = k - 1 /\ k = e + 1
    BY <1>3, <1>13
  <1>15. k \in 1 .. Len(s) + 1 /\ M[j + 1][k]
    BY <1>2, <1>13
  <1>16. PICK x : x = X[j + 1][k]
    OBVIOUS
  <1>17. Gives(s, rest, e, x) /\ (~WildFrom(p, q, j + 1) => x = <<>>)
    BY <1>7, <1>14, <1>15, <1>16 DEF Claim, Claims
  <1>18. ASSUME NEW d \in b .. e - 1 PROVE ~CutFrom(s, rest, d)
    <2>1. PICK l \in i .. L + 1 : l = d + 1 /\ d = l - 1 /\ l < k
      BY <1>3, <1>14
    <2>2. ~M[j + 1][l]
      BY <1>13, <2>1
    <2>3. l \in 1 .. Len(s) + 1
      BY <1>2
    <2> QED
      BY <1>7, <2>1, <2>2, <2>3 DEF Claims
  <1>19. P!Takes(it, SubSeq(s, b + 1, e))
    BY <1>10 DEF P!Takes
  <1>20. Gives(s, F[j], b, IF it.star /\ rest # <<>> /\ e = Len(s) THEN ABORT
                           ELSE Joined(Maybe(it.wild, SubSeq(s, b + 1, e)), x))
    <2>1. \A d \in b .. e - 1 : ~(P!Takes(it, SubSeq(s, b + 1, d)) /\ CutFrom(s, rest, d))
      BY <1>18
    <2>2. b \in 0 .. Len(s) /\ e \in b .. Len(s)
      BY <1>2
    <2>3. it.star => it.wild
      BY <1>10
    <2>4. PICK a \in 0 .. Len(s) : a = b
      BY <2>2
    <2>5. PICK d \in a .. Len(s) : d = e
      BY <2>2, <2>4
    <2>6. P!Takes(it, SubSeq(s, a + 1, d)) /\ Gives(s, rest, d, x)
      BY <1>17, <1>19, <2>4, <2>5
    <2>7. \A y \in a .. d - 1 : ~(P!Takes(it, SubSeq(s, a + 1, y)) /\ CutFrom(s, rest, y))
      BY <2>1, <2>4, <2>5
    <2>8. Gives(s, <<it>> \o rest, a, IF it.star /\ rest # <<>> /\ d = Len(s) THEN ABORT
                                      ELSE Joined(Maybe(it.wild, SubSeq(s, a + 1, d)), x))
      BY <2>3, <2>6, <2>7, GivesMore
    <2> QED
      BY <1>9, <2>4, <2>5, <2>8
  <1>21. Gives(s, F[j], b, IF j < n /\ e = L THEN ABORT ELSE Joined(<<SubSeq(s, i, e)>>, x))
    BY <1>2, <1>3, <1>10, <1>11, <1>20 DEF Maybe
  <1>22. X[j][i] = IF j = n THEN <<From(s, i)>>
                   ELSE IF ends = {} THEN ABORT
                   ELSE Joined(<<SubSeq(s, i, Min(ends) - 1)>>,
                               IF WildFrom(p, q, j + 1) THEN X[j + 1][Min(ends)] ELSE <<>>)
    BY <1>1, <1>2, <1>5 DEF Yield
  <1>23. X[j][i] = IF j < n /\ e = L THEN ABORT ELSE Joined(<<SubSeq(s, i, e)>>, x)
    <2>1. CASE j = n
      <3>1. M[j + 1][k] <=> Reply(s, m, M, j + 1, k, StarEnd(p, q, (j + 1) + 1))
        BY <1>1, <1>5, <1>15 DEF MatchTable
      <3>2. k > L
        BY <1>1, <1>2, <1>15, <2>1, <3>1 DEF Reply
      <3>3. e = L
        BY <1>14, <3>2
      <3>4. x = <<>>
        <4>1. \A l \in j + 1 .. Len(p) : FALSE
          BY <1>1, <2>1
        <4> QED
          BY <1>17, <4>1 DEF WildFrom
      <3>5. <<SubSeq(s, i, L)>> \o <<>> = <<SubSeq(s, i, L)>>
        OBVIOUS
      <3> QED
        BY <1>2, <1>22, <2>1, <3>3, <3>4, <3>5, AbortIs DEF Joined, From
    <2>2. CASE j # n /\ e = L
      <3>1. ends = {}
        <4>1. \A l \in i .. L : l \in i .. L + 1 /\ l < k
          BY <1>14, <2>2
        <4> QED
          BY <1>13, <4>1
      <3> QED
        BY <1>5, <1>22, <2>2, <3>1
    <2>3. CASE j # n /\ e # L
      <3>1. k \in ends /\ \A l \in ends : l \in Ks
        BY <1>13, <1>14, <2>3
      <3>2. Min(ends) = k
        <4>1. \A l \in ends : k <= l
          BY <1>13, <3>1
        <4>2. \A l \in ends : (\A y \in ends : l <= y) => l = k
          BY <3>1, <4>1
        <4> HIDE DEF ends
        <4> QED
          BY <3>1, <4>1, <4>2 DEF Min
      <3>3. ends # {}
        BY <3>1
      <3>4. X[j][i] = Joined(<<SubSeq(s, i, e)>>, IF WildFrom(p, q, j + 1) THEN x ELSE <<>>)
        <4> HIDE DEF ends
        <4> QED
          BY <1>14, <1>16, <1>22, <2>3, <3>2, <3>3
      <3> QED
        BY <1>17, <2>3, <3>4
    <2> QED
      BY <2>1, <2>2, <2>3
  <1> QED
    BY <1>3, <1>21, <1>23

LEMMA ClaimElsewhere ==
  ASSUME NEW s \in Seq(Symbols), NEW p \in Seq(Symbols), NEW q, NEW m, Marks(m, p, q), PlainClasses(m),
         NEW M, MatchTable(M, s, m, p, q), NEW F, ItemTable(F, m), NEW X,
         NEW j \in 1 .. Len(p), NEW i \in 1 .. Len(s) + 1, ~P!Raw(m, j, "*"), M[j][i],
         X[j][i] = Yield(s, p, q, m, M, X, j, i),
         i <= Len(s) => Claim(s, p, q, F, M, X, Behind(m, j), i + 1)
  PROVE  Gives(s, F[j], i - 1, X[j][i]) /\ (~WildFrom(p, q, j) => X[j][i] = <<>>)
  <1>1. PICK n \in Nat : n = Len(p) /\ n = Len(m)
    BY DEF Marks
  <1>2. PICK L \in Nat : L = Len(s)
    OBVIOUS
  <1>3. PICK b \in 0 .. Len(s) : b = i - 1 /\ i = b + 1
    BY <1>2
  <1>4. F \in [1 .. n + 1 -> Seq(ItemsOf(m))] /\ \A l \in 1 .. n + 1 : F[l] = ItemRow(m, F, l)
    BY <1>1 DEF ItemTable
  <1>5. j \in 1 .. n /\ j \in 1 .. n + 1 /\ ~ j > n /\ PlainClass(m, j)
    BY <1>1 DEF PlainClasses
  <1>6. PICK h \in 1 .. n + 1 : h = Behind(m, j)
    <2>1. Behind(m, j) \in j + 1 .. Len(p) + 1
      BY <1>5, BehindIs
    <2> QED
      BY <1>1, <2>1
  <1>7. PICK it \in ItemsOf(m) : it = P!Item(m, j)
    BY <1>1, <1>5 DEF ItemsOf
  <1>8. PICK rest \in Seq(ItemsOf(m)) : rest = F[h]
    BY <1>4
  <1>9. F[j] = <<it>> \o rest
    BY <1>1, <1>4, <1>5, <1>6, <1>7, <1>8 DEF ItemRow
  <1>10. ~it.star
    BY <1>7 DEF P!Item
  <1>11. i <= L /\ s[i] \in it.chars /\ M[h][i + 1]
    <2>1. Reply(s, m, M, j, i, StarEnd(p, q, j + 1))
      BY <1>1, <1>5 DEF MatchTable
    <2> QED
      BY <1>1, <1>2, <1>5, <1>6, <1>7, <2>1 DEF Reply
  <1>12. PICK e \in b .. Len(s) : e = i /\ e = b + 1
    BY <1>2, <1>3, <1>11
  <1>13. PICK x : x = X[h][i + 1]
    OBVIOUS
  <1>14. Gives(s, rest, e, x) /\ (~WildFrom(p, q, h) => x = <<>>)
    <2>1. Claim(s, p, q, F, M, X, h, i + 1) /\ (i + 1) - 1 = e
      BY <1>2, <1>6, <1>11, <1>12
    <2> QED
      BY <1>8, <1>11, <1>13, <2>1 DEF Claim
  <1>15. P!Takes(it, SubSeq(s, b + 1, e))
    <2>1. P!Takes(it, SubSeq(s, b + 1, e)) <=> e = b + 1 /\ s[b + 1] \in it.chars
      BY <1>10, TakesOne
    <2> QED
      BY <1>3, <1>11, <1>12, <2>1
  <1>16. \A d \in b .. e - 1 : ~(P!Takes(it, SubSeq(s, b + 1, d)) /\ CutFrom(s, rest, d))
    <2>1. ASSUME NEW d \in b .. e - 1 PROVE ~P!Takes(it, SubSeq(s, b + 1, d))
      <3>1. d \in b .. Len(s) /\ d # b + 1
        BY <1>2, <1>12
      <3> QED
        BY <1>10, <3>1, TakesOne
    <2> QED
      BY <2>1
  <1>17. it.star => it.wild
    BY <1>10
  <1>18. Gives(s, <<it>> \o rest, b, IF it.star /\ rest # <<>> /\ e = Len(s) THEN ABORT
                                     ELSE Joined(Maybe(it.wild, SubSeq(s, b + 1, e)), x))
    BY <1>14, <1>15, <1>16, <1>17, GivesMore
  <1>19. Gives(s, F[j], i - 1, Joined(Maybe(it.wild, SubSeq(s, b + 1, e)), x))
    BY <1>3, <1>9, <1>10, <1>18
  <1>20. X[j][i] = IF it.wild THEN Joined(<<<<s[i]>>>>, x) ELSE x
    BY <1>1, <1>5, <1>6, <1>7, <1>13 DEF Yield
  <1>21. X[j][i] = Joined(Maybe(it.wild, SubSeq(s, b + 1, e)), x)
    <2>1. CASE it.wild
      <3>1. SubSeq(s, i, i) = <<s[i]>>
        BY <1>2, <1>11, OneIs
      <3> QED
        BY <1>3, <1>12, <1>20, <2>1, <3>1 DEF Maybe
    <2>2. CASE ~it.wild
      <3>1. x = ABORT \/ x \in Seq(Seq(Symbols))
        <4>1. e \in 0 .. Len(s)
          BY <1>2
        <4> QED
          BY <1>14, <4>1, GivesSeq
      <3>2. x # ABORT => <<>> \o x = x
        BY <3>1
      <3> QED
        BY <1>20, <2>2, <3>2 DEF Maybe, Joined
    <2> QED
      BY <2>1, <2>2
  <1>22. ASSUME ~WildFrom(p, q, j) PROVE X[j][i] = <<>>
    <2>1. ~it.wild /\ ~WildFrom(p, q, h)
      <3>1. j \in 1 .. Len(p)
        OBVIOUS
      <3>2. ~P!Item(m, j).wild /\ Behind(m, j) = j + 1 /\ ~WildFrom(p, q, j + 1)
        BY <1>22, <3>1, WildIs
      <3> QED
        BY <1>6, <1>7, <3>2
    <2> QED
      BY <1>14, <1>20, <2>1
  <1> QED
    BY <1>19, <1>21, <1>22

\* The parts are those that the items give.
LEMMA PartsGiven ==
  ASSUME NEW s \in Seq(Symbols), NEW p \in Seq(Symbols), NEW q, NEW m, Marks(m, p, q), PlainClasses(m),
         NEW M, M = MatchFrom(s, p, q), NEW X, X = Extract(s, p, q), NEW F, ItemTable(F, m)
  PROVE  \A j \in 1 .. Len(p) + 1, i \in 1 .. Len(s) + 1 : Claim(s, p, q, F, M, X, j, i)
  <1>1. PICK n \in Nat : n = Len(p) /\ n = Len(m)
    BY DEF Marks
  <1>2. PICK L \in Nat : L = Len(s)
    OBVIOUS
  <1>3. MatchTable(M, s, m, p, q)
    BY MatchFromIs
  <1>4. \A j \in 1 .. n + 1, i \in 1 .. L + 1 : M[j][i] => X[j][i] = Yield(s, p, q, m, M, X, j, i)
    BY <1>1, <1>2, ExtractIs
  <1>5. \A j \in 1 .. n + 1, i \in 1 .. L + 1 : M[j][i] <=> CutFrom(s, F[j], i - 1)
    BY <1>1, <1>2, <1>3, AnswersAre
  <1> DEFINE G == {r \in Nat : r <= n => \A i \in 1 .. L + 1 : Claim(s, p, q, F, M, X, n + 1 - r, i)}
  <1>6. ASSUME NEW r \in Nat, \A l \in 0 .. r - 1 : l \in G, r <= n, NEW i \in 1 .. L + 1
        PROVE  Claim(s, p, q, F, M, X, n + 1 - r, i)
    <2>1. PICK j \in 1 .. n + 1 : j = n + 1 - r
      BY <1>6
    <2>2. ASSUME NEW l \in j + 1 .. n + 1, NEW k \in 1 .. L + 1
          PROVE  Claim(s, p, q, F, M, X, l, k)
      <3>1. PICK t \in 0 .. r - 1 : t = n + 1 - l /\ l = n + 1 - t
        BY <2>1
      <3>2. t \in G
        <4> HIDE DEF G
        <4> QED
          BY <1>6
      <3>3. t <= n
        BY <1>6, <3>1
      <3>4. \A d \in 1 .. L + 1 : Claim(s, p, q, F, M, X, n + 1 - t, d)
        BY <3>2, <3>3
      <3> QED
        BY <3>1, <3>4
    <2>3. SUFFICES ASSUME M[j][i]
                   PROVE  Gives(s, F[j], i - 1, X[j][i]) /\ (~WildFrom(p, q, j) => X[j][i] = <<>>)
      BY <2>1 DEF Claim
    <2>4. X[j][i] = Yield(s, p, q, m, M, X, j, i) /\ i \in 1 .. Len(s) + 1
      BY <1>2, <1>4, <2>3
    <2>5. CASE j > n
      <3>1. F[j] = <<>>
        BY <1>1, <2>5 DEF ItemTable, ItemRow
      <3>2. X[j][i] = <<>>
        BY <1>1, <2>4, <2>5 DEF Yield
      <3>3. i - 1 = Len(s)
        <4>1. Reply(s, m, M, j, i, StarEnd(p, q, j + 1))
          BY <1>1, <1>3, <2>3, <2>4 DEF MatchTable
        <4>2. i > L
          BY <1>1, <1>2, <2>5, <4>1 DEF Reply
        <4> QED
          BY <1>2, <4>2
      <3> QED
        BY <3>1, <3>2, <3>3, GivesNothing
    <2>6. CASE ~ j > n
      <3>1. j \in 1 .. Len(p) /\ PlainClass(m, j)
        BY <1>1, <2>6 DEF PlainClasses
      <3>2. CASE P!Raw(m, j, "*")
        <4>1. j + 1 \in j + 1 .. n + 1 /\ j + 1 \in 1 .. n + 1
          BY <1>1, <3>1
        <4>2. ASSUME NEW k \in 1 .. Len(s) + 1
              PROVE  (M[j + 1][k] <=> CutFrom(s, F[j + 1], k - 1)) /\ Claim(s, p, q, F, M, X, j + 1, k)
          BY <1>2, <1>5, <2>2, <4>1
        <4>3. Gives(s, F[j], i - 1, X[j][i])
          <5>1. Claims(s, p, q, F, M, X, j + 1)
            BY <4>2 DEF Claims
          <5> QED
            BY <1>3, <2>3, <2>4, <3>1, <3>2, <5>1, ClaimAtStar
        <4>4. WildFrom(p, q, j)
          BY <3>1, <3>2, WildIs
        <4> QED
          BY <4>3, <4>4
      <3>3. CASE ~P!Raw(m, j, "*")
        <4>1. Behind(m, j) \in j + 1 .. n + 1
          BY <1>1, <3>1, BehindIs
        <4>2. i <= Len(s) => Claim(s, p, q, F, M, X, Behind(m, j), i + 1)
          <5>1. i <= Len(s) => i + 1 \in 1 .. L + 1
            BY <1>2
          <5> QED
            BY <2>2, <4>1, <5>1
        <4> QED
          BY <1>3, <2>3, <2>4, <3>1, <3>3, <4>2, ClaimElsewhere
      <3> QED
        BY <3>2, <3>3
    <2> QED
      BY <2>5, <2>6
  <1>7. Nat \subseteq G
    <2>1. ASSUME NEW r \in Nat, \A l \in 0 .. r - 1 : l \in G PROVE r \in G
      BY <1>6, <2>1
    <2> HIDE DEF G
    <2> QED
      BY <2>1, AllNumbers
  <1>8. ASSUME NEW j \in 1 .. n + 1, NEW i \in 1 .. L + 1 PROVE Claim(s, p, q, F, M, X, j, i)
    <2>1. PICK r \in Nat : r = n + 1 - j /\ j = n + 1 - r /\ r <= n
      OBVIOUS
    <2> QED
      BY <1>7, <2>1
  <1> QED
    BY <1>1, <1>2, <1>8

\* What one pattern gives for one string, as the items say.
Pieces(s, w) == IF Suits(s, w) THEN P!Parts(s, P!Items(Mark(w))) ELSE <<>>
Stops(s, w) == Suits(s, w) /\ StarsAtEnd(s, Mark(w))

LEMMA SingleIs ==
  ASSUME ~ReadsQuoted, NEW s \in Seq(Symbols), NEW w, Quotable(w), PlainClasses(Mark(w))
  PROVE  /\ extractsinglematch(s, w.str, w.quote) = IF Stops(s, w) THEN ABORT ELSE Pieces(s, w)
         /\ Stops(s, w) => Pieces(s, w) # <<>>
         /\ Pieces(s, w) # ABORT
  <1>1. PICK p \in Seq(Symbols), q \in Quoting(w.str) : p = w.str /\ q = w.quote
    BY DEF Quotable
  <1>2. PICK m : m = Mark(w) /\ Marks(m, p, q) /\ PlainClasses(m)
    BY <1>1, MarkIs
  <1>3. PICK n \in Nat : n = Len(p) /\ n = Len(m)
    BY <1>2 DEF Marks
  <1>4. PICK M : M = MatchFrom(s, p, q) /\ MatchTable(M, s, m, p, q)
    BY <1>2, MatchFromIs
  <1>5. PICK F : ItemTable(F, m) /\ P!Items(m) = F[1]
    BY <1>2, ItemsAre
  <1>6. PICK X : X = Extract(s, p, q)
    OBVIOUS
  <1>7. 1 \in 1 .. Len(p) + 1 /\ 1 \in 1 .. Len(s) + 1 /\ 1 - 1 = 0
    OBVIOUS
  <1>8. PICK items \in Seq(ItemsOf(m)) : items = P!Items(m)
    BY <1>3, <1>5 DEF ItemTable
  <1>9. M[1][1] <=> Suits(s, w)
    <2>1. M[1][1] <=> CutFrom(s, F[1], 1 - 1)
      BY <1>2, <1>4, <1>5, <1>7, AnswersAre
    <2>2. P!Matches(s, items) <=> CutFrom(s, items, 0)
      BY MatchesAre
    <2> QED
      BY <1>2, <1>5, <1>7, <1>8, <2>1, <2>2 DEF Suits
  <1>10. match(s, p, q) <=> Suits(s, w)
    BY <1>2, MatchIs DEF Suits
  <1>11. Claim(s, p, q, F, M, X, 1, 1)
    BY <1>2, <1>4, <1>5, <1>6, <1>7, PartsGiven
  <1>12. Suits(s, w) => Gives(s, items, 0, X[1][1]) /\ (~WildFrom(p, q, 1) => X[1][1] = <<>>)
    BY <1>5, <1>7, <1>8, <1>9, <1>11 DEF Claim
  <1>13. extractsinglematch(s, p, q) = IF Suits(s, w) THEN X[1][1] ELSE <<>>
    BY <1>6, <1>10, <1>12 DEF extractsinglematch, haswild
  <1> DEFINE stuck == \E k \in DOMAIN items : /\ k < Len(items) /\ items[k].star
                                              /\ P!ShortestCut(s, items)[k] = Len(s)
  <1>14. StarsAtEnd(s, m) <=> stuck
    BY <1>8 DEF StarsAtEnd
  <1>15. Suits(s, w) => /\ X[1][1] = IF stuck THEN ABORT ELSE P!Parts(s, items)
                        /\ stuck => P!Parts(s, items) # <<>>
                        /\ P!Parts(s, items) # ABORT
    BY <1>12, GivenIs
  <1> HIDE DEF stuck
  <1>16. Stops(s, w) <=> Suits(s, w) /\ stuck
    BY <1>2, <1>14 DEF Stops
  <1> QED
    BY <1>1, <1>2, <1>8, <1>13, <1>15, <1>16, AbortIs DEF Pieces

\* The patterns that are tried on s: those before the first that gives something, and that one.
Tried(s, ws) == {k \in DOMAIN ws : \A l \in 1 .. k - 1 : Pieces(s, ws[l]) = <<>>}
Stopped(s, ws) == \E k \in Tried(s, ws) : Stops(s, ws[k])
Aborts(list, ws) == \E t \in DOMAIN list : Stopped(list[t], ws)
FoundIn(list, ws) == FlattenSeq([t \in DOMAIN list |-> Pieces(list[t], ws[Max(Tried(list[t], ws))])])

LEMMA FirstOne ==
  ASSUME ~ReadsQuoted, NEW s \in Seq(Symbols), NEW ws, NEW n \in Nat \ {0}, DOMAIN ws = 1 .. n,
         \A k \in 1 .. n : Quotable(ws[k]) /\ PlainClasses(Mark(ws[k]))
  PROVE  /\ FirstWithAny([k \in 1 .. n |-> extractsinglematch(s, ws[k].str, ws[k].quote)])
              = IF Stopped(s, ws) THEN ABORT ELSE Pieces(s, ws[Max(Tried(s, ws))])
         /\ Pieces(s, ws[Max(Tried(s, ws))]) # ABORT
  <1>1. PICK lists : lists = [k \in 1 .. n |-> extractsinglematch(s, ws[k].str, ws[k].quote)]
    OBVIOUS
  <1>2. ASSUME NEW k \in 1 .. n
        PROVE  /\ lists[k] = IF Stops(s, ws[k]) THEN ABORT ELSE Pieces(s, ws[k])
               /\ Stops(s, ws[k]) => Pieces(s, ws[k]) # <<>>
               /\ Pieces(s, ws[k]) # ABORT
               /\ lists[k] # <<>> <=> Pieces(s, ws[k]) # <<>>
    <2>1. PICK v : v = ws[k] /\ Quotable(v) /\ PlainClasses(Mark(v))
      OBVIOUS
    <2>2. /\ extractsinglematch(s, v.str, v.quote) = IF Stops(s, v) THEN ABORT ELSE Pieces(s, v)
          /\ Stops(s, v) => Pieces(s, v) # <<>>
          /\ Pieces(s, v) # ABORT
      BY <2>1, SingleIs
    <2> QED
      BY <1>1, <2>1, <2>2, AbortIs
  <1> DEFINE some == {k \in 1 .. n : lists[k] # <<>>}
  <1>3. PICK m \in 1 .. n : /\ Tried(s, ws) = 1 .. m
                            /\ FirstWithAny(lists) = lists[m]
                            /\ \A l \in 1 .. m - 1 : lists[l] = <<>>
    <2>1. Tried(s, ws) = {k \in 1 .. n : \A l \in 1 .. k - 1 : lists[l] = <<>>}
      <3>1. \A k \in 1 .. n : \A l \in 1 .. k - 1 : l \in 1 .. n
        OBVIOUS
      <3> QED
        BY <1>2, <3>1 DEF Tried
    <2>2. FirstWithAny(lists) = IF some = {} THEN <<>> ELSE lists[Min(some)]
      BY <1>1 DEF FirstWithAny
    <2>3. CASE some = {}
      <3>1. \A k \in 1 .. n : lists[k] = <<>>
        BY <2>3
      <3>2. Tried(s, ws) = 1 .. n
        BY <2>1, <3>1
      <3>3. n \in 1 .. n
        OBVIOUS
      <3>4. lists[n] = <<>> /\ \A l \in 1 .. n - 1 : lists[l] = <<>>
        BY <3>1, <3>3
      <3> QED
        BY <2>2, <2>3, <3>2, <3>3, <3>4
    <2>4. CASE some # {}
      <3>1. some \in SUBSET Nat
        OBVIOUS
      <3>2. PICK m \in some : \A l \in some : m <= l
        <4> HIDE DEF some
        <4> QED
          BY <2>4, <3>1, LeastOne
      <3>3. Min(some) = m
        <4>1. \A l \in some : (\A y \in some : l <= y) => l = m
          BY <3>2
        <4> HIDE DEF some
        <4> QED
          BY <3>2, <4>1 DEF Min
      <3>4. m \in 1 .. n /\ lists[m] # <<>>
        BY <3>2
      <3>5. \A l \in 1 .. m - 1 : l \in 1 .. n /\ lists[l] = <<>>
        BY <3>2, <3>4
      <3>6. ASSUME NEW k \in 1 .. n PROVE (\A l \in 1 .. k - 1 : lists[l] = <<>>) <=> k <= m
        <4>1. k > m => m \in 1 .. k - 1
          BY <3>4
        <4>2. k <= m => \A l \in 1 .. k - 1 : l \in 1 .. m - 1
          BY <3>4
        <4>3. k <= m \/ k > m
          BY <3>4
        <4> QED
          BY <3>4, <3>5, <4>1, <4>2, <4>3
      <3>7. Tried(s, ws) = 1 .. m
        <4>1. \A k : k \in 1 .. m <=> k \in 1 .. n /\ k <= m
          BY <3>4
        <4> QED
          BY <2>1, <3>6, <4>1
      <3> QED
        BY <2>2, <2>4, <3>3, <3>4, <3>5, <3>7
    <2> QED
      BY <2>3, <2>4
  <1>4. Max(Tried(s, ws)) = m
    <2>1. m \in 1 .. m /\ \A l \in 1 .. m : m >= l /\ l \in Nat
      OBVIOUS
    <2>2. \A l \in 1 .. m : (\A y \in 1 .. m : l >= y) => l = m
      BY <2>1
    <2> QED
      BY <1>3, <2>1, <2>2 DEF Max
  <1>5. Stopped(s, ws) <=> Stops(s, ws[m])
    <2>1. ASSUME NEW k \in 1 .. m, Stops(s, ws[k]) PROVE k = m
      <3>1. k \in 1 .. n /\ (k # m => k \in 1 .. m - 1)
        OBVIOUS
      <3>2. lists[k] # <<>>
        BY <1>2, <2>1, <3>1
      <3> QED
        BY <1>3, <3>1, <3>2
    <2>2. m \in 1 .. m
      OBVIOUS
    <2> QED
      BY <1>3, <2>1, <2>2 DEF Stopped
  <1>6. lists[m] = (IF Stops(s, ws[m]) THEN ABORT ELSE Pieces(s, ws[m])) /\ Pieces(s, ws[m]) # ABORT
    BY <1>2
  <1>7. FirstWithAny(lists) = IF Stopped(s, ws) THEN ABORT ELSE Pieces(s, ws[Max(Tried(s, ws))])
    BY <1>3, <1>4, <1>5, <1>6
  <1> QED
    BY <1>1, <1>4, <1>6, <1>7

\* What ~~ returns for a job.
LEMMA ExtractmatchesIs ==
  ASSUME ~ReadsQuoted, NEW w \in Patterns, ~OddClass(Mark(w)), NEW ws \in Alternatives(w),
         NEW s \in Subjects, NEW list \in Lists(s)
  PROVE  extractmatches(list, Strs(ws), Quotes(ws)) = IF Aborts(list, ws) THEN ABORT ELSE FoundIn(list, ws)
  <1>1. PICK n \in Nat \ {0} : n = Len(ws) /\ DOMAIN ws = 1 .. n
    BY JobIs
  <1>2. PICK strs : strs = Strs(ws) /\ strs = [k \in 1 .. n |-> ws[k].str]
    BY <1>1, JobIs
  <1>3. PICK quotes : quotes = Quotes(ws) /\ quotes = [k \in 1 .. n |-> ws[k].quote]
    BY <1>1, JobIs
  <1>4. \A k \in 1 .. n : Quotable(ws[k]) /\ PlainClasses(Mark(ws[k]))
    BY <1>1, JobIs
  <1>5. ASSUME NEW t \in DOMAIN list
        PROVE  /\ FirstWithAny([k \in DOMAIN strs |-> extractsinglematch(list[t], strs[k], quotes[k])])
                    = IF Stopped(list[t], ws) THEN ABORT ELSE Pieces(list[t], ws[Max(Tried(list[t], ws))])
               /\ Pieces(list[t], ws[Max(Tried(list[t], ws))]) # ABORT
    <2>1. PICK u \in Seq(Symbols) : u = list[t]
      BY ListIs
    <2>2. [k \in DOMAIN strs |-> extractsinglematch(u, strs[k], quotes[k])]
            = [k \in 1 .. n |-> extractsinglematch(u, ws[k].str, ws[k].quote)]
      BY <1>2, <1>3
    <2>3. /\ FirstWithAny([k \in 1 .. n |-> extractsinglematch(u, ws[k].str, ws[k].quote)])
               = IF Stopped(u, ws) THEN ABORT ELSE Pieces(u, ws[Max(Tried(u, ws))])
          /\ Pieces(u, ws[Max(Tried(u, ws))]) # ABORT
      BY <1>1, <1>4, FirstOne
    <2> QED
      BY <2>1, <2>2, <2>3
  <1>6. PICK lists : lists = [t \in DOMAIN list |->
          FirstWithAny([k \in DOMAIN strs |-> extractsinglematch(list[t], strs[k], quotes[k])])]
    OBVIOUS
  <1>7. extractmatches(list, strs, quotes) = IF ABORT \in ToSet(lists) THEN ABORT ELSE FlattenSeq(lists)
    BY <1>6 DEF extractmatches, UnlessAborted
  <1>8. ABORT \in ToSet(lists) <=> Aborts(list, ws)
    <2>1. ToSet(lists) = {lists[t] : t \in DOMAIN list}
      BY <1>6 DEF ToSet
    <2> QED
      BY <1>5, <1>6, <2>1 DEF Aborts
  <1>9. ~Aborts(list, ws) => FlattenSeq(lists) = FoundIn(list, ws)
    <2>1. SUFFICES ASSUME ~Aborts(list, ws) PROVE FlattenSeq(lists) = FoundIn(list, ws)
      OBVIOUS
    <2>2. \A t \in DOMAIN list : lists[t] = Pieces(list[t], ws[Max(Tried(list[t], ws))])
      BY <1>5, <1>6, <2>1 DEF Aborts
    <2>3. lists = [t \in DOMAIN list |-> Pieces(list[t], ws[Max(Tried(list[t], ws))])]
      BY <1>6, <2>2
    <2> QED
      BY <2>3 DEF FoundIn
  <1> QED
    BY <1>2, <1>3, <1>7, <1>8, <1>9

\* ~~ returns the pieces of the wildcards, each as short as it can be from the
\* left, and fails its assertion exactly when a star is stuck.
THEOREM ExtractionsAreExact ==
  ASSUME ~ReadsQuoted
  PROVE  MatchSpec => []ExtractExact
  <1>1. MatchInv => ExtractExact
    <2>1. SUFFICES ASSUME MatchInv, Done("match"), ~OddClass(Mark(job.word)),
                          NEW s \in Subjects, NEW c \in DOMAIN out[s]
                   PROVE  out[s][c].parts = IF Aborts(c[1], c[2]) THEN ABORT ELSE FoundIn(c[1], c[2])
      BY DEF ExtractExact, Aborts, Stopped, FoundIn, Tried, Pieces, Stops
    <2>2. PICK w \in Patterns : w = job.word /\ out = Replies(w)
      BY <2>1 DEF MatchInv, Done
    <2>3. out[s] = [d \in Lists(s) \X Alternatives(w) |->
                      [matched |-> listmatch(d[1], Strs(d[2]), Quotes(d[2])),
                       parts |-> extractmatches(d[1], Strs(d[2]), Quotes(d[2]))]]
      BY <2>2 DEF Replies
    <2>4. c \in Lists(s) \X Alternatives(w)
      BY <2>1, <2>3
    <2>5. out[s][c].parts = extractmatches(c[1], Strs(c[2]), Quotes(c[2]))
      BY <2>3, <2>4
    <2>6. c[1] \in Lists(s) /\ c[2] \in Alternatives(w)
      BY <2>4
    <2> QED
      BY <2>1, <2>2, <2>5, <2>6, ExtractmatchesIs
  <1> QED
    BY <1>1, MatchInvariant, PTL
=============================================================================
