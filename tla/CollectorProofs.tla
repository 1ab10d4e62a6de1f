-------------------------- MODULE CollectorProofs --------------------------
(***************************************************************************)
(* Proofs about Collector, for any number of roots, objects and spaces:    *)
(* the heap is sound whenever no collection is under way, and a collection *)
(* cannot be seen by the program, unless it puts an object into a space    *)
(* that scanspace has left.                                                *)
(***************************************************************************)
EXTENDS Collector, SequenceTheorems, WellFoundedInduction, TLAPS

\* The objects of a half that have an identity, and the pointers to them.
Alive(s) == {k \in DOMAIN s : s[k].id # NULL}
Refs(h, K) == {NULL} \cup ({h} \X K)

\* No two of them are the same, and whatever is in the half refers to them.
GraphSound(h, s) ==
  /\ \A j, k \in Alive(s) : s[j].id = s[k].id => j = k
  /\ \A k \in DOMAIN s : Range(s[k].fields) \subseteq Refs(h, Alive(s))

\* Nothing refers to old ...
Settled ==
  /\ GraphSound(half, new)
  /\ \A k \in DOMAIN new : ~Forwarded(new[k])
  /\ Range(root) \subseteq Refs(half, Alive(new))

\* ... and no collection is under way.
Rest == old = <<>> /\ Settled

\* The copy c of an object o refers to what o refers to, or to its copy.
CopyOf(c, o) ==
  /\ c.id = o.id /\ c.nbytes = o.nbytes /\ ~Forwarded(c)
  /\ DOMAIN c.fields = DOMAIN o.fields
  /\ \A f \in DOMAIN o.fields : c.fields[f] \in {o.fields[f], Now(o.fields[f])}

\* A collection is: old is as it was but for the tags, which are one to one with the copies.
Moving ==
  /\ GraphSound(1 - half, old)
  /\ \A i \in DOMAIN old : Forwarded(old[i]) =>
       i \in Alive(old) /\ \E j \in DOMAIN new : old[i].to = <<half, j>>
  /\ \A i, k \in DOMAIN old : Forwarded(old[i]) /\ old[i].to = old[k].to => i = k
  /\ \A j \in DOMAIN new : \E i \in DOMAIN old : old[i].to = <<half, j>>
  /\ \A i \in DOMAIN old, j \in DOMAIN new : old[i].to = <<half, j>> => CopyOf(new[j], old[i])
  /\ Range(root) \subseteq Refs(1 - half, Alive(old)) \cup ({half} \X DOMAIN new)

\* What is used of the spaces is what their objects take.
Accounts ==
  /\ spaces # <<>>
  /\ \A s \in DOMAIN spaces : spaces[s].used <= spaces[s].size
  /\ \A k \in DOMAIN new : new[k].space \in 1 .. Len(spaces)
  /\ Livedata = Total([k \in DOMAIN new |-> Need(new[k].nbytes)])

\* Not all identities are in use.
Spare == \E id \in Ids : \A o \in Seen.objects : o.id # id

Control ==
  /\ pc \in {"run", "alloc"} /\ gcblocked = 0 => Len(spaces) = 1
  /\ pc \in {"roots", "scan"} => gcblocked = 1
  /\ pc = "alloc" \/ (pc \in {"roots", "scan"} /\ cursor.after = "alloc") =>
       req.var \in Vars /\ Spare

\* What scanspace has come past.
Done(k) ==
  \/ new[k].space <= cursor.scanned \/ Passed(new[k].space)
  \/ new[k].space = cursor.space /\ k <= cursor.at

\* What was scanned does not refer to old any more, unless it came late.
RootsDone == \A i \in 1 .. cursor.root - 1 : i \in DOMAIN RootList => ~InOld(root[RootList[i]])
CursorRight ==
  /\ cursor.scanned < cursor.front /\ cursor.front <= Len(spaces)
  /\ cursor.scanned <= cursor.space /\ cursor.space <= cursor.front
  /\ cursor.at <= Len(new)
FieldsDone ==
  cursor.field > 1 =>
    /\ Scanning /\ Ahead # {}
    /\ \A f \in DOMAIN new[Here].fields : f < cursor.field => ~InOld(new[Here].fields[f])
ObjectsDone ==
  \A k \in DOMAIN new : Done(k) => \A f \in DOMAIN new[k].fields : ~InOld(new[k].fields[f])

Progress ==
  /\ pc \in {"roots", "scan"} => RootsDone
  /\ pc = "roots" => cursor.at = 0 /\ cursor.field = 1
  /\ pc = "scan" => cursor.root > Len(RootList) /\ CursorRight /\ FieldsDone
  /\ pc = "scan" /\ ~late => ObjectsDone

CInv ==
  /\ TypeOK /\ Accounts /\ Control
  /\ pc \in {"run", "alloc"} => Rest
  /\ pc \in {"roots", "scan"} => Moving
  /\ Progress

(***************************************************************************)
(* Numbers and sums                                                        *)
(***************************************************************************)

LEMMA NeedIsNumber ==
  ASSUME NEW n \in Nat
  PROVE  ALIGN(n) \in Nat /\ Need(n) \in Nat
  <1>1. ASSUME NEW m \in Nat PROVE ALIGN(m) \in Nat
    <2>1. Word \in Nat /\ Word > 0
      BY CollectorAssumption
    <2>2. m + Word - 1 \in Nat
      BY <2>1
    <2>3. ASSUME NEW a \in Nat PROVE a \div Word \in Nat
      BY <2>1
    <2>4. ASSUME NEW a \in Nat PROVE a * Word \in Nat
      BY <2>1
    <2> QED
      BY <2>2, <2>3, <2>4 DEF ALIGN
  <1>2. n + Word \in Nat
    BY CollectorAssumption
  <1> QED
    BY <1>1, <1>2 DEF Need

Below == {ss \in Nat \X Nat : ss[1] < ss[2]}

\* A set of numbers that is not empty has a least element.
LEMMA LeastOne ==
  ASSUME NEW S \in SUBSET Nat, S # {}
  PROVE  \E n \in S : \A m \in S : n <= m
  <1>1. IsWellFoundedOn(Below, Nat)
    <2>1. Below = OpToRel(<, Nat)
      BY DEF Below, OpToRel
    <2> QED
      BY <2>1, NatLessThanWellFounded
  <1>2. PICK n \in S : \A m \in S : <<m, n>> \notin Below
    BY <1>1, WFMin
  <1>3. ASSUME NEW m \in S PROVE n <= m
    <2>1. m \in Nat /\ n \in Nat /\ <<m, n>> \in Nat \X Nat
      OBVIOUS
    <2>2. <<m, n>> \notin {ss \in Nat \X Nat : ss[1] < ss[2]}
      BY <1>2 DEF Below
    <2>3. ~(<<m, n>>[1] < <<m, n>>[2])
      BY <2>1, <2>2, Zenon
    <2> QED
      BY <2>1, <2>3
  <1> QED
    BY <1>3

\* The partial sums of the first n elements.
Sums(s, n, f) ==
  f \in [0 .. n -> Nat] /\ f[0] = 0 /\ \A k \in 1 .. n : f[k] = f[k - 1] + s[k]

\* There are such sums ...
LEMMA SumsExist ==
  ASSUME NEW s \in Seq(Nat)
  PROVE  \E f : Sums(s, Len(s), f)
  <1> DEFINE Bad == {n \in 0 .. Len(s) : ~ \E f : Sums(s, n, f)}
  <1>1. Len(s) \in 0 .. Len(s) /\ Bad \in SUBSET Nat
    OBVIOUS
  <1>2. SUFFICES ASSUME Bad # {} PROVE FALSE
    BY <1>1
  <1>3. PICK n \in Bad : \A m \in Bad : n <= m
    BY <1>1, <1>2, LeastOne
  <1>4. n # 0
    <2>1. Sums(s, 0, [k \in 0 .. 0 |-> 0])
      BY DEF Sums
    <2> QED
      BY <2>1
  <1>5. n - 1 \in 0 .. Len(s) /\ n - 1 \notin Bad
    BY <1>3, <1>4
  <1>6. PICK f : Sums(s, n - 1, f)
    BY <1>5
  <1> DEFINE g == [k \in 0 .. n |-> IF k = n THEN f[n - 1] + s[n] ELSE f[k]]
  <1>7. Sums(s, n, g)
    <2>1. s[n] \in Nat /\ f[n - 1] \in Nat /\ n \in 1 .. Len(s)
      BY <1>3, <1>4, <1>6 DEF Sums
    <2>2. g \in [0 .. n -> Nat]
      BY <1>3, <1>4, <1>6, <2>1 DEF Sums
    <2>3. g[0] = 0
      BY <1>3, <1>4, <1>6 DEF Sums
    <2>4. ASSUME NEW k \in 1 .. n PROVE g[k] = g[k - 1] + s[k]
      <3>1. CASE k = n
        BY <2>1, <3>1
      <3>2. CASE k # n
        <4>1. k \in 1 .. n - 1 /\ k - 1 \in 0 .. n - 1
          BY <2>1, <3>2
        <4> QED
          BY <1>6, <3>2, <4>1 DEF Sums
      <3> QED
        BY <3>1, <3>2
    <2> QED
      BY <2>2, <2>3, <2>4 DEF Sums
  <1> QED
    BY <1>3, <1>7

\* ... and the last of them is Total.
LEMMA TotalIs ==
  ASSUME NEW s \in Seq(Nat), NEW f, Sums(s, Len(s), f)
  PROVE  Total(s) = f[Len(s)] /\ Total(s) \in Nat
  <1> DEFINE P(h) == h = [k \in 0 .. Len(s) |-> IF k = 0 THEN 0 ELSE h[k - 1] + s[k]]
             sum == CHOOSE h : P(h)
  <1>1. P(f)
    <2>1. \A k \in 0 .. Len(s) : f[k] = IF k = 0 THEN 0 ELSE f[k - 1] + s[k]
      BY DEF Sums
    <2>2. DOMAIN f = 0 .. Len(s) /\ f = [k \in DOMAIN f |-> f[k]]
      BY DEF Sums
    <2> QED
      BY <2>1, <2>2
  <1>2. P(sum)
    BY <1>1, Zenon
  <1> DEFINE Bad == {k \in 0 .. Len(s) : sum[k] # f[k]}
  <1>3. Bad = {}
    <2>1. SUFFICES ASSUME Bad # {} PROVE FALSE
      OBVIOUS
    <2> HIDE DEF sum
    <2>2. Bad \in SUBSET Nat
      OBVIOUS
    <2>3. PICK n \in Bad : \A m \in Bad : n <= m
      BY <2>1, <2>2, LeastOne
    <2>4. \A k \in 0 .. Len(s) : sum[k] = IF k = 0 THEN 0 ELSE sum[k - 1] + s[k]
      BY <1>2
    <2>5. n \in 1 .. Len(s)
      BY <2>3, <2>4 DEF Sums
    <2>6. n - 1 \in 0 .. Len(s) /\ n - 1 \notin Bad
      BY <2>3, <2>5
    <2> QED
      BY <2>3, <2>4, <2>5, <2>6 DEF Sums
  <1>4. Total(s) = sum[Len(s)]
    BY DEF Total
  <1>5. Len(s) \in 0 .. Len(s)
    OBVIOUS
  <1> HIDE DEF sum
  <1>6. sum[Len(s)] = f[Len(s)]
    BY <1>3, <1>5
  <1> QED
    BY <1>4, <1>5, <1>6 DEF Sums

LEMMA TotalIsNumber ==
  ASSUME NEW s \in Seq(Nat)
  PROVE  Total(s) \in Nat
  BY SumsExist, TotalIs

LEMMA TotalEmpty == Total(<<>>) = 0
  <1>1. Sums(<<>>, 0, [k \in 0 .. 0 |-> 0]) /\ <<>> \in Seq(Nat) /\ Len(<<>>) = 0
    BY DEF Sums
  <1> QED
    BY <1>1, TotalIs

LEMMA TotalAppend ==
  ASSUME NEW s \in Seq(Nat), NEW n \in Nat
  PROVE  Total(Append(s, n)) = Total(s) + n
  <1> DEFINE t == Append(s, n)
             g(f) == [k \in 0 .. Len(s) + 1 |-> IF k = Len(s) + 1 THEN f[Len(s)] + n ELSE f[k]]
  <1>1. PICK f : Sums(s, Len(s), f)
    BY SumsExist
  <1>2. t \in Seq(Nat) /\ Len(t) = Len(s) + 1 /\ Len(s) \in Nat
    OBVIOUS
  <1>3. Sums(t, Len(t), g(f))
    <2>1. f[Len(s)] \in Nat
      BY <1>1, <1>2 DEF Sums
    <2>2. g(f) \in [0 .. Len(s) + 1 -> Nat] /\ g(f)[0] = 0
      BY <1>1, <1>2, <2>1 DEF Sums
    <2>3. ASSUME NEW k \in 1 .. Len(s) + 1 PROVE g(f)[k] = g(f)[k - 1] + t[k]
      <3>1. CASE k = Len(s) + 1
        BY <1>2, <2>1, <3>1
      <3>2. CASE k # Len(s) + 1
        <4>1. k \in 1 .. Len(s) /\ k - 1 \in 0 .. Len(s)
          BY <1>2, <3>2
        <4>2. t[k] = s[k]
          BY <4>1
        <4> QED
          BY <1>1, <3>2, <4>1, <4>2 DEF Sums
      <3> QED
        BY <3>1, <3>2
    <2> QED
      BY <1>2, <2>2, <2>3 DEF Sums
  <1>4. Total(t) = g(f)[Len(s) + 1]
    BY <1>2, <1>3, TotalIs
  <1>5. Total(s) = f[Len(s)]
    BY <1>1, TotalIs
  <1> QED
    BY <1>2, <1>4, <1>5

LEMMA TotalNothing == Total(Append(<<>>, 0)) = 0
  <1>1. <<>> \in Seq(Nat) /\ 0 \in Nat
    BY EmptySeq
  <1>2. Total(Append(<<>>, 0)) = Total(<<>>) + 0
    BY ONLY <1>1, TotalAppend
  <1> QED
    BY <1>2, TotalEmpty

\* What is added to the last element is added to the sum.
LEMMA TotalRaised ==
  ASSUME NEW s \in Seq(Nat), s # <<>>, NEW n \in Nat
  PROVE  Total([s EXCEPT ![Len(s)] = @ + n]) = Total(s) + n
  <1> DEFINE b == SubSeq(s, 1, Len(s) - 1)
  <1>1. Len(s) \in Nat \ {0} /\ s[Len(s)] \in Nat
    OBVIOUS
  <1>2. b \in Seq(Nat) /\ Len(b) = Len(s) - 1
    <2>1. \A i \in 1 .. Len(s) - 1 : s[i] \in Nat
      BY <1>1
    <2>2. 1 \in Int /\ Len(s) - 1 \in Int
      BY <1>1
    <2>3. SubSeq(s, 1, Len(s) - 1) \in Seq(Nat)
      BY ONLY <2>1, <2>2, SubSeqProperties
    <2>4. Len(SubSeq(s, 1, Len(s) - 1)) = Len(s) - 1
      <3>1. Len(SubSeq(s, 1, Len(s) - 1))
              = IF 1 <= Len(s) - 1 THEN Len(s) - 1 - 1 + 1 ELSE 0
        BY ONLY <2>1, <2>2, SubSeqProperties
      <3> QED
        BY <1>1, <3>1
    <2> QED
      BY <2>3, <2>4
  <1>3. s = Append(b, s[Len(s)])
    BY <1>1, <1>2
  <1>4. [s EXCEPT ![Len(s)] = @ + n] = Append(b, s[Len(s)] + n)
    BY <1>1, <1>2
  <1>5. Total(b) \in Nat
    BY <1>2, TotalIsNumber
  <1> HIDE DEF b
  <1> DEFINE last == s[Len(s)]
  <1>6. Total(s) = Total(b) + last
    BY <1>1, <1>2, <1>3, TotalAppend
  <1>7. Total(Append(b, last + n)) = Total(b) + (last + n)
    <2>1. last + n \in Nat
      BY <1>1
    <2> HIDE DEF last
    <2> QED
      BY ONLY <1>2, <2>1, TotalAppend
  <1>8. last \in Nat
    BY <1>1
  <1> HIDE DEF last
  <1>9. (Total(b) + last) + n = Total(b) + (last + n)
    BY <1>5, <1>8
  <1> QED
    BY <1>4, <1>6, <1>7, <1>9 DEF last

(***************************************************************************)
(* What can be reached                                                     *)
(***************************************************************************)

\* It holds what it starts from and is closed ...
LEMMA ReachHolds ==
  ASSUME NEW S, NEW g
  PROVE  /\ \A a \in S : a # NULL => a \in ReachFrom(S, g)
         /\ \A a \in ReachFrom(S, g) : a \in DOMAIN g => g[a] \subseteq ReachFrom(S, g)
  <1> DEFINE from == S \ {NULL}
             more == (UNION {g[a] : a \in DOMAIN g}) \ from
             closed(T) == \A a \in T \cap DOMAIN g : g[a] \subseteq T
  <1>1. ReachFrom(S, g)
          = from \cup {b \in more : \A T \in SUBSET more : closed(from \cup T) => b \in T}
    BY DEF ReachFrom
  <1>2. ASSUME NEW a \in ReachFrom(S, g), a \in DOMAIN g, NEW b \in g[a], b \notin from
        PROVE  b \in ReachFrom(S, g)
    <2>1. b \in more
      <3>1. g[a] \in {g[c] : c \in DOMAIN g}
        BY <1>2
      <3>2. b \in UNION {g[c] : c \in DOMAIN g}
        BY <1>2, <3>1
      <3> QED
        BY <1>2, <3>2
    <2>2. ASSUME NEW T \in SUBSET more, closed(from \cup T) PROVE b \in T
      <3>1. a \in from \cup T
        BY <1>1, <2>2
      <3> QED
        BY <1>2, <2>2, <3>1
    <2> QED
      BY <1>1, <2>1, <2>2
  <1> QED
    BY <1>1, <1>2

\* ... and lies in every such set.
LEMMA ReachLeast ==
  ASSUME NEW S, NEW g, NEW T, S \ {NULL} \subseteq T, \A a \in T \cap DOMAIN g : g[a] \subseteq T
  PROVE  ReachFrom(S, g) \subseteq T
  <1> DEFINE from == S \ {NULL}
             more == (UNION {g[a] : a \in DOMAIN g}) \ from
             closed(U) == \A a \in U \cap DOMAIN g : g[a] \subseteq U
  <1>1. ReachFrom(S, g)
          = from \cup {b \in more : \A U \in SUBSET more : closed(from \cup U) => b \in U}
    BY DEF ReachFrom
  <1>2. ASSUME NEW a \in (from \cup (T \cap more)) \cap DOMAIN g, NEW b \in g[a]
        PROVE  b \in from \cup (T \cap more)
    <2>1. a \in T \cap DOMAIN g
      BY from \subseteq T
    <2>2. b \in T
      BY <2>1
    <2>3. b \in UNION {g[c] : c \in DOMAIN g}
      <3>1. g[a] \in {g[c] : c \in DOMAIN g}
        BY <2>1
      <3> QED
        BY <3>1
    <2> QED
      BY <2>2, <2>3
  <1>3. closed(from \cup (T \cap more)) /\ T \cap more \in SUBSET more
    BY <1>2
  <1> HIDE DEF closed, from, more
  <1>4. ASSUME NEW b \in more, \A U \in SUBSET more : closed(from \cup U) => b \in U
        PROVE  b \in T
    BY <1>3, <1>4
  <1> QED
    BY <1>1, <1>4 DEF from

(***************************************************************************)
(* What the program sees, from the objects s of one half h                 *)
(***************************************************************************)

Name(s, p) == IF p = NULL THEN NULL ELSE s[p[2]].id
View(s, k) ==
  [id |-> s[k].id, nbytes |-> s[k].nbytes,
   fields |-> [f \in DOMAIN s[k].fields |-> Name(s, s[k].fields[f])]]
Links(h, s) == [a \in {h} \X DOMAIN s |-> Range(s[a[2]].fields) \ {NULL}]
SeenFrom(r, h, s) ==
  [vars |-> [v \in Vars |-> Name(s, r[v])],
   objects |-> {View(s, a[2]) : a \in ReachFrom(Range(r), Links(h, s))}]

\* Nothing refers to what is not in this half.
Closed(r, h, s) ==
  /\ Range(r) \subseteq Refs(h, DOMAIN s)
  /\ \A k \in DOMAIN s : Range(s[k].fields) \subseteq Refs(h, DOMAIN s)

LEMMA LinksReach ==
  ASSUME NEW r, NEW h, NEW s, Closed(r, h, s)
  PROVE  ReachFrom(Range(r), Links(h, s)) \subseteq {h} \X DOMAIN s
  <1>1. Range(r) \ {NULL} \subseteq {h} \X DOMAIN s
    BY DEF Closed, Refs
  <1>2. ASSUME NEW a \in ({h} \X DOMAIN s) \cap DOMAIN Links(h, s)
        PROVE  Links(h, s)[a] \subseteq {h} \X DOMAIN s
    BY DEF Closed, Refs, Links
  <1> QED
    BY <1>1, <1>2, ReachLeast

\* The same is seen of two halves that differ in the tags only.
LEMMA SeenFromSame ==
  ASSUME NEW r, DOMAIN r = Vars, NEW h, NEW s, NEW t, Closed(r, h, s), DOMAIN t = DOMAIN s,
         \A k \in DOMAIN s : s[k].id = t[k].id /\ s[k].nbytes = t[k].nbytes
                               /\ s[k].fields = t[k].fields
  PROVE  SeenFrom(r, h, s) = SeenFrom(r, h, t)
  <1>1. Links(h, s) = Links(h, t)
    BY DEF Links
  <1>2. ASSUME NEW p \in Refs(h, DOMAIN s) PROVE Name(s, p) = Name(t, p)
    BY DEF Refs, Name
  <1>3. ASSUME NEW v \in Vars PROVE Name(s, r[v]) = Name(t, r[v])
    BY <1>2 DEF Closed, Range
  <1>4. ASSUME NEW k \in DOMAIN s PROVE View(s, k) = View(t, k)
    <2>1. \A f \in DOMAIN s[k].fields : s[k].fields[f] \in Refs(h, DOMAIN s)
      BY DEF Closed, Range
    <2> QED
      BY <1>2, <2>1 DEF View
  <1>5. ASSUME NEW a \in ReachFrom(Range(r), Links(h, s)) PROVE View(s, a[2]) = View(t, a[2])
    BY <1>4, LinksReach
  <1>6. {View(s, a[2]) : a \in ReachFrom(Range(r), Links(h, s))}
          = {View(t, a[2]) : a \in ReachFrom(Range(r), Links(h, t))}
    BY <1>1, <1>5
  <1> QED
    BY <1>3, <1>6 DEF SeenFrom

\* The new half is all that is reached if nothing in it refers to the other.
LEMMA ClosedReach ==
  ASSUME Closed(root, half, new), half \in {0, 1}
  PROVE  Reach = ReachFrom(Range(root), Links(half, new))
  <1> DEFINE N == {half} \X DOMAIN new
             g == Graph(new, old)
             l == Links(half, new)
             R == ReachFrom(Range(root), l)
  <1>1. DOMAIN l = N /\ N \subseteq DOMAIN g /\ \A a \in N : g[a] = l[a]
    BY DEF Graph, Links
  <1>2. R \subseteq N
    BY LinksReach
  <1>3. Reach \subseteq R
    <2>1. Range(root) \ {NULL} \subseteq R
      BY ReachHolds
    <2>2. ASSUME NEW a \in R \cap DOMAIN g PROVE g[a] \subseteq R
      <3>1. a \in DOMAIN l /\ g[a] = l[a]
        BY <1>1, <1>2
      <3> HIDE DEF l, g, N
      <3> QED
        BY <3>1, ReachHolds
    <2> HIDE DEF R, g
    <2> QED
      BY <2>1, <2>2, ReachLeast DEF Reach, g
  <1>4. R \subseteq Reach
    <2>1. Range(root) \ {NULL} \subseteq Reach
      BY ReachHolds DEF Reach
    <2>2. ASSUME NEW a \in Reach \cap DOMAIN l PROVE l[a] \subseteq Reach
      <3>1. a \in DOMAIN g /\ g[a] = l[a]
        BY <1>1
      <3> HIDE DEF l, N
      <3> QED
        BY <3>1, ReachHolds DEF Reach
    <2> HIDE DEF l
    <2> QED
      BY <2>1, <2>2, ReachLeast
  <1> QED
    BY <1>3, <1>4

LEMMA ClosedSeen ==
  ASSUME TypeOK, Closed(root, half, new), \A k \in DOMAIN new : ~Forwarded(new[k])
  PROVE  Seen = SeenFrom(root, half, new)
  <1>1. Reach = ReachFrom(Range(root), Links(half, new)) /\ half \in {0, 1}
    BY ClosedReach DEF TypeOK
  <1>2. Reach \subseteq {half} \X DOMAIN new
    BY <1>1, LinksReach
  <1>3. ASSUME NEW k \in DOMAIN new
        PROVE  LET a == <<half, k>> IN a # NULL /\ Exists(a) /\ Now(a) = a /\ Obj(a) = new[k]
    <2>1. k \in Nat
      BY DEF TypeOK
    <2>2. <<half, k>> # NULL
      BY <1>1, <2>1, CollectorAssumption
    <2> QED
      BY <2>2 DEF Exists, Now, Obj, Half
  <1>4. ASSUME NEW p \in Refs(half, DOMAIN new) PROVE IdOf(p) = Name(new, p)
    <2>1. CASE p = NULL
      BY <2>1 DEF IdOf, Exists, Name
    <2>2. CASE p # NULL
      <3>1. PICK k \in DOMAIN new : p = <<half, k>>
        BY <2>2 DEF Refs
      <3> QED
        BY <1>3, <2>2, <3>1 DEF IdOf, Name
    <2> QED
      BY <2>1, <2>2
  <1>5. NowReach = Reach
    BY <1>2, <1>3 DEF NowReach
  <1>6. ASSUME NEW a \in Reach
        PROVE  [id |-> Obj(a).id, nbytes |-> Obj(a).nbytes,
                fields |-> [k \in DOMAIN Obj(a).fields |-> IdOf(Obj(a).fields[k])]]
                 = View(new, a[2])
    <2>1. PICK k \in DOMAIN new : a = <<half, k>>
      BY <1>2
    <2>2. Obj(a) = new[k] /\ a[2] = k
      BY <1>3, <2>1
    <2>3. \A f \in DOMAIN new[k].fields : IdOf(new[k].fields[f]) = Name(new, new[k].fields[f])
      BY <1>4 DEF Closed, Range
    <2> QED
      BY <2>2, <2>3 DEF View
  <1>7. ASSUME NEW v \in Vars PROVE IdOf(root[v]) = Name(new, root[v])
    BY <1>4 DEF Closed, Range, TypeOK
  <1> QED
    BY <1>1, <1>5, <1>6, <1>7 DEF Seen, SeenFrom

(***************************************************************************)
(* During a collection the program sees what it would see of the old half  *)
(* alone                                                                   *)
(***************************************************************************)

\* The object that the j-th of new is the copy of, and what an address stands for in old.
From(j) == CHOOSE i \in DOMAIN old : old[i].to = <<half, j>>
Org(a) == IF a \in {half} \X DOMAIN new THEN <<1 - half, From(a[2])>> ELSE a
Anywhere == Refs(1 - half, Alive(old)) \cup ({half} \X DOMAIN new)

LEMMA FromIsOrigin ==
  ASSUME TypeOK, Moving, NEW j \in DOMAIN new
  PROVE  /\ From(j) \in Alive(old) /\ Forwarded(old[From(j)])
         /\ old[From(j)].to = <<half, j>>
         /\ CopyOf(new[j], old[From(j)])
         /\ \A i \in DOMAIN old : old[i].to = <<half, j>> => i = From(j)
  <1>1. \E i \in DOMAIN old : old[i].to = <<half, j>>
    BY DEF Moving
  <1>2. From(j) \in DOMAIN old /\ old[From(j)].to = <<half, j>>
    BY <1>1 DEF From
  <1>3. <<half, j>> # NULL
    BY CollectorAssumption DEF TypeOK
  <1>4. Forwarded(old[From(j)])
    BY <1>2, <1>3 DEF Forwarded
  <1> HIDE DEF From
  <1>5. From(j) \in Alive(old) /\ CopyOf(new[j], old[From(j)])
    BY <1>2, <1>4 DEF Moving
  <1>6. \A i \in DOMAIN old : old[i].to = <<half, j>> => i = From(j)
    BY <1>2, <1>4 DEF Moving
  <1> QED
    BY <1>2, <1>4, <1>5, <1>6

\* An address of old.
LEMMA OldAddress ==
  ASSUME TypeOK, NEW i \in DOMAIN old
  PROVE  LET a == <<1 - half, i>>
         IN a # NULL /\ Exists(a) /\ Obj(a) = old[i] /\ Org(a) = a
              /\ Now(a) = IF Forwarded(old[i]) THEN old[i].to ELSE a
  <1>1. half \in {0, 1} /\ 1 - half \in {0, 1} /\ 1 - half # half /\ i \in Nat
    BY DEF TypeOK
  <1>2. <<1 - half, i>> # NULL
    BY <1>1, CollectorAssumption
  <1> QED
    BY <1>1, <1>2 DEF Exists, Obj, Half, Org, Now

\* An address of new.
LEMMA NewAddress ==
  ASSUME TypeOK, Moving, NEW j \in DOMAIN new
  PROVE  LET a == <<half, j>>
         IN a # NULL /\ Exists(a) /\ Obj(a) = new[j] /\ Org(a) = <<1 - half, From(j)>>
              /\ Now(a) = a
  <1>1. half \in {0, 1} /\ j \in Nat
    BY DEF TypeOK
  <1>2. <<half, j>> # NULL
    BY <1>1, CollectorAssumption
  <1>3. ~Forwarded(new[j])
    BY FromIsOrigin DEF CopyOf
  <1> QED
    BY <1>2, <1>3 DEF Exists, Obj, Half, Org, Now

\* NULL, which is not an address.
LEMMA NullAddress ==
  ASSUME TypeOK
  PROVE  ~Exists(NULL) /\ Org(NULL) = NULL /\ Now(NULL) = NULL
  <1>1. NULL \notin {half} \X DOMAIN new
    BY CollectorAssumption DEF TypeOK
  <1> QED
    BY <1>1 DEF Exists, Org, Now

LEMMA OrgOfAny ==
  ASSUME TypeOK, Moving, NEW p \in Anywhere
  PROVE  /\ Org(p) \in Refs(1 - half, Alive(old)) /\ (Org(p) = NULL <=> p = NULL)
         /\ Now(p) \in Anywhere /\ Org(Now(p)) = Org(p)
         /\ IdOf(p) = Name(old, Org(p)) /\ (p # NULL => Exists(p))
  <1>1. CASE p = NULL
    BY <1>1, NullAddress DEF Refs, Anywhere, IdOf, Name
  <1>2. CASE p # NULL /\ p \in Refs(1 - half, Alive(old))
    <2>1. PICK i \in Alive(old) : p = <<1 - half, i>>
      BY <1>2 DEF Refs
    <2>2. i \in DOMAIN old
      BY DEF Alive
    <2>3. /\ Exists(p) /\ Obj(p) = old[i] /\ Org(p) = p /\ p[2] = i
          /\ Now(p) = IF Forwarded(old[i]) THEN old[i].to ELSE p
      BY <2>1, <2>2, OldAddress
    <2>4. CASE Forwarded(old[i])
      <3>1. PICK j \in DOMAIN new : old[i].to = <<half, j>>
        BY <2>2, <2>4 DEF Moving
      <3>2. From(j) = i
        BY <2>2, <3>1, FromIsOrigin
      <3>3. Org(<<half, j>>) = p
        BY <2>1, <3>2, NewAddress
      <3> QED
        BY <1>2, <2>3, <2>4, <3>1, <3>3 DEF Anywhere, IdOf, Name
    <2>5. CASE ~Forwarded(old[i])
      BY <1>2, <2>3, <2>5 DEF Anywhere, IdOf, Name
    <2> QED
      BY <2>4, <2>5
  <1>3. CASE p \in {half} \X DOMAIN new
    <2>1. PICK j \in DOMAIN new : p = <<half, j>>
      BY <1>3
    <2>2. /\ p # NULL /\ Exists(p) /\ Obj(p) = new[j] /\ Org(p) = <<1 - half, From(j)>>
          /\ Now(p) = p
      BY <2>1, NewAddress
    <2>3. From(j) \in Alive(old) /\ new[j].id = old[From(j)].id
      BY FromIsOrigin DEF CopyOf
    <2>4. <<1 - half, From(j)>> # NULL
      BY <2>3, OldAddress DEF Alive
    <2> QED
      BY <1>3, <2>2, <2>3, <2>4 DEF Anywhere, Refs, IdOf, Name
  <1> QED
    BY <1>1, <1>2, <1>3 DEF Anywhere

\* What old refers to, and what the copies refer to.
LEMMA OldFields ==
  ASSUME Moving, NEW i \in DOMAIN old, NEW f \in DOMAIN old[i].fields
  PROVE  old[i].fields[f] \in Refs(1 - half, Alive(old)) /\ old[i].fields[f] \in Anywhere
  BY DEF Moving, GraphSound, Range, Anywhere

LEMMA NewFields ==
  ASSUME TypeOK, Moving, NEW j \in DOMAIN new, NEW f \in DOMAIN new[j].fields
  PROVE  /\ f \in DOMAIN old[From(j)].fields
         /\ new[j].fields[f] \in Anywhere
         /\ Org(new[j].fields[f]) = old[From(j)].fields[f]
  <1>1. From(j) \in DOMAIN old /\ CopyOf(new[j], old[From(j)])
    BY FromIsOrigin DEF Alive
  <1>2. f \in DOMAIN old[From(j)].fields
    BY <1>1 DEF CopyOf
  <1> DEFINE q == old[From(j)].fields[f]
  <1>3. new[j].fields[f] \in {q, Now(q)}
    BY <1>1, <1>2 DEF CopyOf
  <1>4. q \in Anywhere /\ q \in Refs(1 - half, Alive(old))
    BY <1>1, <1>2, OldFields
  <1>5. Org(q) = q
    <2>1. CASE q = NULL
      BY <2>1, NullAddress
    <2>2. CASE q # NULL
      <3>1. PICK i \in DOMAIN old : q = <<1 - half, i>>
        BY <1>4, <2>2 DEF Refs, Alive
      <3> QED
        BY <3>1, OldAddress
    <2> QED
      BY <2>1, <2>2
  <1> QED
    BY <1>2, <1>3, <1>4, <1>5, OrgOfAny

\* What the roots stand for in old.
OrgRoot == [v \in Vars |-> Org(root[v])]

LEMMA OldClosed ==
  ASSUME TypeOK, Moving
  PROVE  /\ Closed(OrgRoot, 1 - half, old)
         /\ \A v \in Vars : root[v] \in Anywhere
  <1>1. \A v \in Vars : root[v] \in Anywhere
    BY DEF TypeOK, Moving, Range, Anywhere
  <1>2. Refs(1 - half, Alive(old)) \subseteq Refs(1 - half, DOMAIN old)
    BY DEF Refs, Alive
  <1>3. \A v \in Vars : OrgRoot[v] \in Refs(1 - half, DOMAIN old)
    BY <1>1, <1>2, OrgOfAny DEF OrgRoot
  <1>4. Range(OrgRoot) \subseteq Refs(1 - half, DOMAIN old)
    BY <1>3 DEF OrgRoot, Range
  <1>5. \A k \in DOMAIN old : Range(old[k].fields) \subseteq Refs(1 - half, DOMAIN old)
    BY <1>2 DEF Moving, GraphSound
  <1> QED
    BY <1>1, <1>4, <1>5 DEF Closed

\* What a reference leads to, and to what the references there.
LEMMA GraphOfAny ==
  ASSUME TypeOK, Moving, NEW p \in Anywhere, p # NULL
  PROVE  /\ p \in DOMAIN Graph(new, old) /\ Org(p) \in DOMAIN Links(1 - half, old)
         /\ \A b \in Graph(new, old)[p] :
              b # NULL /\ b \in Anywhere /\ Org(b) \in Links(1 - half, old)[Org(p)]
         /\ \A c \in Links(1 - half, old)[Org(p)] :
              \E b \in Graph(new, old)[p] : Org(b) = c
  <1>1. half \in {0, 1} /\ 1 - half # half
    BY DEF TypeOK
  <1>2. CASE p \in Refs(1 - half, Alive(old))
    <2>1. PICK i \in DOMAIN old : p = <<1 - half, i>>
      BY <1>2 DEF Refs, Alive
    <2>2. /\ p \in DOMAIN Graph(new, old) /\ Graph(new, old)[p] = Range(old[i].fields) \ {NULL}
      BY <1>1, <2>1 DEF Graph
    <2>3. /\ Org(p) \in DOMAIN Links(1 - half, old)
          /\ Links(1 - half, old)[Org(p)] = Range(old[i].fields) \ {NULL}
      BY <2>1, OldAddress DEF Links
    <2>4. ASSUME NEW b \in Range(old[i].fields) \ {NULL} PROVE b \in Anywhere /\ Org(b) = b
      <3>1. b \in Refs(1 - half, Alive(old)) /\ b \in Anywhere
        BY OldFields DEF Range
      <3>2. PICK k \in DOMAIN old : b = <<1 - half, k>>
        BY <3>1 DEF Refs, Alive
      <3> QED
        BY <3>1, <3>2, OldAddress
    <2> QED
      BY <2>2, <2>3, <2>4
  <1>3. CASE p \in {half} \X DOMAIN new
    <2>1. PICK j \in DOMAIN new : p = <<half, j>>
      BY <1>3
    <2>2. /\ p \in DOMAIN Graph(new, old) /\ Graph(new, old)[p] = Range(new[j].fields) \ {NULL}
      BY <1>1, <2>1 DEF Graph
    <2>3. From(j) \in DOMAIN old /\ DOMAIN new[j].fields = DOMAIN old[From(j)].fields
      BY FromIsOrigin DEF Alive, CopyOf
    <2>4. /\ Org(p) \in DOMAIN Links(1 - half, old)
          /\ Links(1 - half, old)[Org(p)] = Range(old[From(j)].fields) \ {NULL}
      BY <2>1, <2>3, NewAddress DEF Links
    <2>5. ASSUME NEW f \in DOMAIN new[j].fields
          PROVE  /\ new[j].fields[f] \in Anywhere
                 /\ Org(new[j].fields[f]) = old[From(j)].fields[f]
                 /\ new[j].fields[f] = NULL <=> old[From(j)].fields[f] = NULL
      BY NewFields, OrgOfAny
    <2> QED
      BY <2>2, <2>3, <2>4, <2>5 DEF Range
  <1> QED
    BY <1>2, <1>3 DEF Anywhere

\* What can be reached stands for what can be reached in old.
LEMMA OrgReach ==
  ASSUME TypeOK, Moving
  PROVE  LET R == ReachFrom(Range(OrgRoot), Links(1 - half, old))
         IN /\ \A a \in Reach : a # NULL /\ a \in Anywhere /\ Org(a) \in R
            /\ \A c \in R : \E a \in Reach : Org(a) = c
  <1> DEFINE g == Graph(new, old)
             l == Links(1 - half, old)
             R == ReachFrom(Range(OrgRoot), l)
             T == {a \in Anywhere \ {NULL} : Org(a) \in R}
             U == {Org(a) : a \in Reach}
  <1>1. \A v \in Vars : root[v] \in Anywhere /\ OrgRoot[v] = Org(root[v])
    BY OldClosed DEF OrgRoot
  <1>2. DOMAIN root = Vars /\ DOMAIN OrgRoot = Vars
    BY DEF TypeOK, OrgRoot
  <1>3. Reach \subseteq T
    <2>1. ASSUME NEW v \in Vars, root[v] # NULL PROVE root[v] \in T
      <3>1. Org(root[v]) # NULL /\ Org(root[v]) \in Range(OrgRoot)
        BY <1>1, <1>2, <2>1, OrgOfAny DEF Range
      <3> QED
        BY <1>1, <2>1, <3>1, ReachHolds
    <2>2. Range(root) \ {NULL} \subseteq T
      BY <1>2, <2>1 DEF Range
    <2>3. ASSUME NEW a \in T \cap DOMAIN g PROVE g[a] \subseteq T
      <3>1. l[Org(a)] \subseteq R
        BY GraphOfAny, ReachHolds
      <3> QED
        BY <3>1, GraphOfAny
    <2> HIDE DEF T, g
    <2> QED
      BY <2>2, <2>3, ReachLeast DEF Reach, g
  <1>4. R \subseteq U
    <2>1. ASSUME NEW v \in Vars, OrgRoot[v] # NULL PROVE OrgRoot[v] \in U
      <3>1. root[v] # NULL /\ root[v] \in Range(root)
        BY <1>1, <1>2, <2>1, OrgOfAny DEF Range
      <3>2. root[v] \in Reach
        BY <3>1, ReachHolds DEF Reach
      <3> QED
        BY <1>1, <3>2
    <2>2. Range(OrgRoot) \ {NULL} \subseteq U
      BY <1>2, <2>1 DEF Range
    <2>3. ASSUME NEW c \in U \cap DOMAIN l PROVE l[c] \subseteq U
      <3>1. PICK a \in Reach : c = Org(a)
        BY <2>3
      <3>2. a \in Anywhere /\ a # NULL
        BY <1>3
      <3>3. a \in DOMAIN g /\ \A d \in l[c] : \E b \in g[a] : Org(b) = d
        BY <3>1, <3>2, GraphOfAny
      <3>4. g[a] \subseteq Reach
        BY <3>3, ReachHolds DEF Reach
      <3> QED
        BY <3>3, <3>4
    <2> HIDE DEF U, l
    <2> QED
      BY <2>2, <2>3, ReachLeast
  <1> QED
    BY <1>3, <1>4

\* What is seen of the object that a reference leads to.
LEMMA ViewOfAny ==
  ASSUME TypeOK, Moving, NEW p \in Anywhere, p # NULL
  PROVE  LET o == Obj(Now(p))
         IN [id |-> o.id, nbytes |-> o.nbytes,
             fields |-> [f \in DOMAIN o.fields |-> IdOf(o.fields[f])]]
              = View(old, Org(p)[2])
  <1> DEFINE q == Now(p)
             o == Obj(q)
             k == Org(p)[2]
  <1>1. q \in Anywhere /\ Org(q) = Org(p) /\ q # NULL
    BY OrgOfAny
  <1>2. /\ o.id = old[k].id /\ o.nbytes = old[k].nbytes
        /\ DOMAIN o.fields = DOMAIN old[k].fields
        /\ \A f \in DOMAIN o.fields :
             IdOf(o.fields[f]) = Name(old, old[k].fields[f])
    <2> HIDE DEF q
    <2>1. CASE q \in Refs(1 - half, Alive(old))
      <3>1. PICK i \in DOMAIN old : q = <<1 - half, i>>
        BY <1>1, <2>1 DEF Refs, Alive
      <3>2. o = old[i] /\ k = i
        BY <1>1, <3>1, OldAddress
      <3>3. ASSUME NEW f \in DOMAIN old[i].fields
            PROVE  IdOf(old[i].fields[f]) = Name(old, old[i].fields[f])
        <4> DEFINE b == old[i].fields[f]
        <4>1. b \in Anywhere /\ b \in Refs(1 - half, Alive(old))
          BY OldFields
        <4>2. Org(b) = b
          <5>1. CASE b = NULL
            BY <5>1, NullAddress
          <5>2. CASE b # NULL
            <6>1. PICK m \in DOMAIN old : b = <<1 - half, m>>
              BY <4>1, <5>2 DEF Refs, Alive
            <6> QED
              BY <6>1, OldAddress
          <5> QED
            BY <5>1, <5>2
        <4> QED
          BY <4>1, <4>2, OrgOfAny
      <3> QED
        BY <3>2, <3>3
    <2>2. CASE q \in {half} \X DOMAIN new
      <3>1. PICK j \in DOMAIN new : q = <<half, j>>
        BY <2>2
      <3>2. o = new[j] /\ k = From(j)
        BY <1>1, <3>1, NewAddress
      <3>3. CopyOf(new[j], old[From(j)])
        BY FromIsOrigin
      <3>4. ASSUME NEW f \in DOMAIN new[j].fields
            PROVE  IdOf(new[j].fields[f]) = Name(old, old[From(j)].fields[f])
        BY NewFields, OrgOfAny
      <3> QED
        BY <3>2, <3>3, <3>4 DEF CopyOf
    <2> QED
      BY <1>1, <2>1, <2>2 DEF Anywhere
  <1> HIDE DEF o, k
  <1> QED
    BY <1>2 DEF View, o, q, k

LEMMA MovingSeen ==
  ASSUME TypeOK, Moving
  PROVE  Seen = SeenFrom(OrgRoot, 1 - half, old)
  <1> DEFINE R == ReachFrom(Range(OrgRoot), Links(1 - half, old))
             rec(a) == [id |-> Obj(a).id, nbytes |-> Obj(a).nbytes,
                        fields |-> [k \in DOMAIN Obj(a).fields |-> IdOf(Obj(a).fields[k])]]
  <1>1. \A v \in Vars : IdOf(root[v]) = Name(old, OrgRoot[v])
    BY OldClosed, OrgOfAny DEF OrgRoot
  <1>2. NowReach = {Now(a) : a \in Reach}
    BY OrgReach, OrgOfAny DEF NowReach
  <1>3. ASSUME NEW a \in Reach
        PROVE  rec(Now(a)) = View(old, Org(a)[2]) /\ Org(a) \in R
    BY OrgReach, ViewOfAny
  <1>4. {rec(a) : a \in NowReach} = {View(old, c[2]) : c \in R}
    <2> HIDE DEF rec, R
    <2>1. ASSUME NEW a \in NowReach PROVE \E c \in R : rec(a) = View(old, c[2])
      BY <1>2, <1>3
    <2>2. ASSUME NEW c \in R PROVE \E a \in NowReach : rec(a) = View(old, c[2])
      <3>1. PICK a \in Reach : Org(a) = c
        BY OrgReach DEF R
      <3> QED
        BY <1>2, <1>3, <3>1
    <2> QED
      BY <2>1, <2>2
  <1> QED
    BY <1>1, <1>4 DEF Seen, SeenFrom

(***************************************************************************)
(* The same in the next state                                              *)
(***************************************************************************)

LEMMA MovingSeenNext ==
  (TypeOK /\ Moving => Seen = SeenFrom(OrgRoot, 1 - half, old))'
  <1>1. TypeOK /\ Moving => Seen = SeenFrom(OrgRoot, 1 - half, old)
    BY MovingSeen
  <1> QED
    BY <1>1, PTL

LEMMA FromIsOriginNext ==
  (TypeOK /\ Moving =>
    \A j \in DOMAIN new : \A i \in DOMAIN old : old[i].to = <<half, j>> => i = From(j))'
  <1>1. TypeOK /\ Moving =>
          \A j \in DOMAIN new : \A i \in DOMAIN old : old[i].to = <<half, j>> => i = From(j)
    BY FromIsOrigin
  <1> QED
    BY <1>1, PTL

LEMMA ClosedSeenNext ==
  (TypeOK /\ Closed(root, half, new) /\ (\A k \in DOMAIN new : ~Forwarded(new[k]))
     => Seen = SeenFrom(root, half, new))'
  <1>1. TypeOK /\ Closed(root, half, new) /\ (\A k \in DOMAIN new : ~Forwarded(new[k]))
          => Seen = SeenFrom(root, half, new)
    BY ClosedSeen
  <1> QED
    BY <1>1, PTL

(***************************************************************************)
(* Forwarding a pointer                                                    *)
(***************************************************************************)

\* Where the pointer p was, its target may be now, and nothing else has changed.
Replaces(q, r, p) == r = q \/ (q = p /\ r = Target(p))
Advanced(p) ==
  /\ DOMAIN new' = DOMAIN NewAfter(p)
  /\ \A j \in DOMAIN new' :
       /\ new'[j].id = NewAfter(p)[j].id /\ new'[j].nbytes = NewAfter(p)[j].nbytes
       /\ new'[j].to = NewAfter(p)[j].to /\ new'[j].space = NewAfter(p)[j].space
       /\ DOMAIN new'[j].fields = DOMAIN NewAfter(p)[j].fields
       /\ \A f \in DOMAIN new'[j].fields :
            Replaces(NewAfter(p)[j].fields[f], new'[j].fields[f], p)
  /\ \A v \in Vars : Replaces(root[v], root'[v], p)
  /\ half' = half

\* The case that the object at i is copied.
LEMMA CopyStep ==
  ASSUME TypeOK, Moving, NEW p \in Anywhere, Copies(p), Forward(p)
  PROVE  \E i \in Alive(old) :
           /\ p = <<1 - half, i>> /\ ~Forwarded(old[i]) /\ Obj(p) = old[i]
           /\ Target(p) = <<half, Len(new) + 1>>
           /\ old' = [old EXCEPT ![i].to = <<half, Len(new) + 1>>]
           /\ NewAfter(p) = Append(new, [old[i] EXCEPT !.space = Len(SpacesFor(p))])
           /\ spaces' = Charged(SpacesFor(p), old[i].nbytes)
           /\ Fits(SpacesFor(p), old[i].nbytes)
  <1>1. p # NULL /\ p[1] # half
    BY DEF Copies, InOld
  <1>2. p \notin {half} \X DOMAIN new
    BY <1>1
  <1>3. PICK i \in Alive(old) : p = <<1 - half, i>>
    BY <1>1, <1>2 DEF Anywhere, Refs
  <1>4. Obj(p) = old[i] /\ p[2] = i
    BY <1>3, OldAddress DEF Alive
  <1>5. ~Forwarded(old[i])
    BY <1>4 DEF Copies
  <1>6. Target(p) = <<half, Len(new) + 1>>
    BY <1>4, <1>5 DEF Target, Copies
  <1> QED
    BY <1>3, <1>4, <1>5, <1>6 DEF Forward, NewAfter, Refused

\* A pointer that is not copied is left as it is, or is its copy's.
LEMMA TargetIsNow ==
  ASSUME TypeOK, Moving, NEW p \in Anywhere, ~Copies(p)
  PROVE  Target(p) = Now(p) /\ NewAfter(p) = new
  <1>1. NewAfter(p) = new
    BY DEF NewAfter
  <1>2. CASE p = NULL
    BY <1>1, <1>2, NullAddress DEF Target, InOld
  <1>3. CASE p \in {half} \X DOMAIN new
    <2>1. PICK j \in DOMAIN new : p = <<half, j>>
      BY <1>3
    <2> QED
      BY <1>1, <2>1, NewAddress DEF Target, InOld
  <1>4. CASE p # NULL /\ p \in Refs(1 - half, Alive(old))
    <2>1. PICK i \in DOMAIN old : p = <<1 - half, i>>
      BY <1>4 DEF Refs, Alive
    <2>2. p[1] # half
      BY <2>1 DEF TypeOK
    <2> QED
      BY <1>1, <1>4, <2>1, <2>2, OldAddress DEF Target, InOld, Copies
  <1> QED
    BY <1>2, <1>3, <1>4 DEF Anywhere

\* Tags are only added: what was said of an address is still true.
LEMMA ForwardKeeps ==
  ASSUME TypeOK, Moving, NEW p \in Anywhere, Forward(p), Advanced(p)
  PROVE  /\ DOMAIN old' = DOMAIN old
         /\ \A k \in DOMAIN old : /\ old'[k].id = old[k].id /\ old'[k].nbytes = old[k].nbytes
                                  /\ old'[k].fields = old[k].fields
                                  /\ Forwarded(old[k]) => old'[k].to = old[k].to
         /\ DOMAIN new \subseteq DOMAIN new' /\ half' = half /\ half \in {0, 1}
  <1>1. half' = half /\ half \in {0, 1}
    BY DEF Advanced, TypeOK
  <1>2. CASE Copies(p)
    <2>1. PICK i \in Alive(old) :
            /\ p = <<1 - half, i>> /\ ~Forwarded(old[i])
            /\ old' = [old EXCEPT ![i].to = <<half, Len(new) + 1>>]
            /\ NewAfter(p) = Append(new, [old[i] EXCEPT !.space = Len(SpacesFor(p))])
      BY <1>2, CopyStep
    <2>2. i \in DOMAIN old /\ old[i] \in Object /\ old \in Seq(Object)
      BY DEF TypeOK, Alive
    <2>3. DOMAIN new \subseteq DOMAIN NewAfter(p)
      <3>1. new \in Seq(Object)
        BY DEF TypeOK
      <3> QED
        BY <2>1, <3>1
    <2>4. \A k \in DOMAIN old :
            /\ old'[k].id = old[k].id /\ old'[k].nbytes = old[k].nbytes
            /\ old'[k].fields = old[k].fields
            /\ Forwarded(old[k]) => old'[k].to = old[k].to
      BY <2>1, <2>2 DEF Object
    <2> QED
      BY <1>1, <2>1, <2>2, <2>3, <2>4 DEF Advanced
  <1>3. CASE ~Copies(p)
    <2>1. old' = old
      BY <1>3 DEF Forward
    <2> QED
      BY <1>1, <1>3, <2>1, TargetIsNow DEF Advanced
  <1> QED
    BY <1>2, <1>3

\* What Now says of a pointer into old, in the next state.
LEMMA NowKept ==
  ASSUME TypeOK, Moving, NEW p \in Anywhere, Forward(p), Advanced(p),
         NEW q \in Refs(1 - half, Alive(old))
  PROVE  /\ Now(q)' = Now(q) \/ Now(q) = q
         /\ q = p => Target(p) = Now(q)'
         /\ Now(q) # q => Target(Now(q)) = Now(q)
  <1>1. CASE q = NULL
    <2>1. Now(q)' = NULL
      BY <1>1 DEF Now, Exists
    <2>2. Target(NULL) = NULL
      BY DEF Target, InOld
    <2> QED
      BY <1>1, <2>1, <2>2, NullAddress
  <1>2. CASE q # NULL
    <2>1. PICK m \in Alive(old) : q = <<1 - half, m>>
      BY <1>2 DEF Refs
    <2>2. m \in DOMAIN old /\ q \in Anywhere
      BY DEF Alive, Anywhere
    <2>3. Now(q) = IF Forwarded(old[m]) THEN old[m].to ELSE q
      BY <2>1, <2>2, OldAddress
    <2>4. Now(q)' = IF Forwarded(old'[m]) THEN old'[m].to ELSE q
      <3>1. half' = half /\ q[1] # half /\ q[2] = m /\ m \in DOMAIN old'
        BY <2>1, <2>2, ForwardKeeps DEF TypeOK
      <3> QED
        BY <1>2, <3>1 DEF Now, Exists, Obj, Half
    <2>5. Forwarded(old[m]) => old'[m].to = old[m].to /\ old[m].to # NULL
      BY <2>2, ForwardKeeps DEF Forwarded
    <2>6. q = p => Target(p) = Now(q)'
      <3>1. SUFFICES ASSUME q = p PROVE Target(p) = Now(q)'
        OBVIOUS
      <3>2. CASE Copies(p)
        <4>1. PICK i \in Alive(old) :
                /\ p = <<1 - half, i>> /\ Target(p) = <<half, Len(new) + 1>>
                /\ old' = [old EXCEPT ![i].to = <<half, Len(new) + 1>>]
          BY <3>2, CopyStep
        <4>2. i = m
          BY <2>1, <3>1, <4>1
        <4>3. old'[m].to = <<half, Len(new) + 1>>
          <5>1. old \in Seq(Object) /\ old[m] \in Object
            BY <2>2 DEF TypeOK
          <5> QED
            BY <2>2, <4>1, <4>2, <5>1 DEF Object
        <4>4. <<half, Len(new) + 1>> # NULL
          BY CollectorAssumption DEF TypeOK
        <4> QED
          BY <2>4, <4>1, <4>3, <4>4 DEF Forwarded
      <3>3. CASE ~Copies(p)
        <4>1. old' = old
          BY <3>3 DEF Forward
        <4> QED
          BY <2>3, <2>4, <3>1, <3>3, <4>1, TargetIsNow
      <3> QED
        BY <3>2, <3>3
    <2>7. Now(q) # q => Target(Now(q)) = Now(q)
      <3>1. SUFFICES ASSUME Now(q) # q PROVE Target(Now(q)) = Now(q)
        OBVIOUS
      <3>2. PICK j \in DOMAIN new : Now(q) = <<half, j>>
        BY <2>2, <2>3, <3>1 DEF Moving
      <3> QED
        BY <3>2 DEF Target, InOld
    <2> QED
      BY <2>3, <2>4, <2>5, <2>6, <2>7 DEF Forwarded
  <1> QED
    BY <1>1, <1>2

\* The tags and the copies stay one to one.
LEMMA TagsKept ==
  ASSUME TypeOK, Moving, NEW p \in Anywhere, Forward(p), Advanced(p)
  PROVE  /\ \A k \in DOMAIN old' : Forwarded(old'[k]) =>
              k \in Alive(old') /\ \E j \in DOMAIN new' : old'[k].to = <<half', j>>
         /\ \A k, m \in DOMAIN old' : Forwarded(old'[k]) /\ old'[k].to = old'[m].to => k = m
         /\ \A j \in DOMAIN new' : \E k \in DOMAIN old' : old'[k].to = <<half', j>>
  <1>1. CASE Copies(p)
    <2> DEFINE n == Len(new) + 1
    <2>1. PICK i \in Alive(old) :
            /\ ~Forwarded(old[i])
            /\ old' = [old EXCEPT ![i].to = <<half, n>>]
            /\ NewAfter(p) = Append(new, [old[i] EXCEPT !.space = Len(SpacesFor(p))])
      BY <1>1, CopyStep
    <2>2. i \in DOMAIN old /\ n \notin DOMAIN new /\ DOMAIN new' = DOMAIN new \cup {n}
      BY <2>1 DEF TypeOK, Alive, Advanced
    <2>3. /\ \A k \in DOMAIN old : k # i => old'[k].to = old[k].to
          /\ old'[i].to = <<half, n>> /\ Alive(old') = Alive(old)
      <3>1. old \in Seq(Object) /\ old[i] \in Object
        BY <2>2 DEF TypeOK
      <3>2. /\ \A k \in DOMAIN old : k # i => old'[k] = old[k]
            /\ old'[i].to = <<half, n>> /\ old'[i].id = old[i].id /\ DOMAIN old' = DOMAIN old
        BY <2>1, <2>2, <3>1 DEF Object
      <3> QED
        BY <3>2 DEF Alive
    <2>4. DOMAIN old' = DOMAIN old /\ half' = half
      BY ForwardKeeps
    <2>5. <<half, n>> # NULL
      BY CollectorAssumption DEF TypeOK
    <2>6. \A k \in DOMAIN old : old[k].to # <<half, n>>
      <3>1. SUFFICES ASSUME NEW k \in DOMAIN old, old[k].to = <<half, n>> PROVE FALSE
        OBVIOUS
      <3>2. Forwarded(old[k])
        BY <2>5, <3>1 DEF Forwarded
      <3>3. PICK j \in DOMAIN new : old[k].to = <<half, j>>
        BY <3>2 DEF Moving
      <3> QED
        BY <2>2, <3>1, <3>3
    <2> HIDE DEF n
    <2>7. ASSUME NEW k \in DOMAIN old', Forwarded(old'[k])
          PROVE  k \in Alive(old') /\ \E j \in DOMAIN new' : old'[k].to = <<half', j>>
      <3>1. CASE k = i
        BY <2>2, <2>3, <2>4, <3>1
      <3>2. CASE k # i
        <4>1. Forwarded(old[k]) /\ k \in DOMAIN old
          BY <2>3, <2>4, <2>7, <3>2 DEF Forwarded
        <4> QED
          BY <2>2, <2>3, <2>4, <3>2, <4>1 DEF Moving
      <3> QED
        BY <3>1, <3>2
    <2>8. ASSUME NEW k \in DOMAIN old', NEW m \in DOMAIN old',
                 Forwarded(old'[k]), old'[k].to = old'[m].to
          PROVE  k = m
      <3>1. CASE k = i \/ m = i
        BY <2>3, <2>4, <2>6, <2>8, <3>1
      <3>2. CASE k # i /\ m # i
        BY <2>3, <2>4, <2>8, <3>2 DEF Moving, Forwarded
      <3> QED
        BY <3>1, <3>2
    <2>9. ASSUME NEW j \in DOMAIN new' PROVE \E k \in DOMAIN old' : old'[k].to = <<half', j>>
      <3>1. CASE j = n
        BY <2>2, <2>3, <2>4, <3>1
      <3>2. CASE j # n
        <4>1. PICK k \in DOMAIN old : old[k].to = <<half, j>>
          BY <2>2, <3>2 DEF Moving
        <4>2. <<half, j>> # NULL
          BY <2>2, <3>2, CollectorAssumption DEF TypeOK
        <4>3. k # i
          BY <2>1, <4>1, <4>2 DEF Forwarded
        <4> QED
          BY <2>3, <2>4, <4>1, <4>3
      <3> QED
        BY <3>1, <3>2
    <2> QED
      BY <2>7, <2>8, <2>9
  <1>2. CASE ~Copies(p)
    <2>1. old' = old /\ half' = half /\ DOMAIN new' = DOMAIN new
      BY <1>2, TargetIsNow DEF Forward, Advanced
    <2> QED
      BY <2>1 DEF Moving, Alive
  <1> QED
    BY <1>1, <1>2

\* A reference of a copy is still that of its origin, or to the copy of what that is to.
LEMMA FieldKept ==
  ASSUME TypeOK, Moving, NEW p \in Anywhere, Forward(p), Advanced(p),
         NEW q \in Refs(1 - half, Alive(old)), NEW c \in {q, Now(q)}, NEW d, Replaces(c, d, p)
  PROVE  d \in {q, Now(q)'}
  BY NowKept DEF Replaces

LEMMA CopiesKept ==
  ASSUME TypeOK, Moving, NEW p \in Anywhere, Forward(p), Advanced(p),
         NEW k \in DOMAIN old, NEW j \in DOMAIN new', old'[k].to = <<half, j>>
  PROVE  CopyOf(new[j], old[k])'
  <1> DEFINE c == NewAfter(p)[j]
  <1>1. /\ c.id = old[k].id /\ c.nbytes = old[k].nbytes /\ ~Forwarded(c)
        /\ DOMAIN c.fields = DOMAIN old[k].fields
        /\ \A f \in DOMAIN c.fields : c.fields[f] \in {old[k].fields[f], Now(old[k].fields[f])}
    <2>1. CASE Copies(p)
      <3> DEFINE n == Len(new) + 1
      <3>1. PICK i \in Alive(old) :
              /\ ~Forwarded(old[i])
              /\ old' = [old EXCEPT ![i].to = <<half, n>>]
              /\ NewAfter(p) = Append(new, [old[i] EXCEPT !.space = Len(SpacesFor(p))])
        BY <2>1, CopyStep
      <3>2. i \in DOMAIN old /\ old[i] \in Object /\ j \in 1 .. n /\ n \in Nat
        BY <3>1 DEF TypeOK, Alive, Advanced
      <3>3. CASE k = i
        <4>1. <<half, n>> = <<half, j>>
          BY <3>1, <3>2, <3>3 DEF TypeOK, Object
        <4>2. c = [old[i] EXCEPT !.space = Len(SpacesFor(p))]
          BY <3>1, <4>1 DEF TypeOK
        <4> QED
          BY <3>1, <3>2, <3>3, <4>2 DEF Object, Forwarded
      <3>4. CASE k # i
        <4>1. old[k].to = <<half, j>>
          BY <3>1, <3>4
        <4>2. <<half, j>> # NULL
          BY <3>2, CollectorAssumption DEF TypeOK
        <4>3. PICK m \in DOMAIN new : old[k].to = <<half, m>>
          BY <4>1, <4>2 DEF Moving, Forwarded
        <4>4. j \in DOMAIN new /\ c = new[j]
          BY <3>1, <4>1, <4>3 DEF TypeOK
        <4>5. CopyOf(new[j], old[k])
          BY <4>1, <4>4 DEF Moving
        <4> QED
          BY <4>4, <4>5 DEF CopyOf
      <3> QED
        BY <3>3, <3>4
    <2>2. CASE ~Copies(p)
      <3>1. old' = old /\ NewAfter(p) = new /\ DOMAIN new' = DOMAIN new
        BY <2>2, TargetIsNow DEF Forward, Advanced
      <3>2. CopyOf(new[j], old[k])
        BY <3>1 DEF Moving
      <3> QED
        BY <3>1, <3>2 DEF CopyOf
    <2> QED
      BY <2>1, <2>2
  <1>2. /\ new'[j].id = c.id /\ new'[j].nbytes = c.nbytes /\ new'[j].to = c.to
        /\ DOMAIN new'[j].fields = DOMAIN c.fields
        /\ \A f \in DOMAIN new'[j].fields : Replaces(c.fields[f], new'[j].fields[f], p)
    BY DEF Advanced
  <1>3. old'[k].id = old[k].id /\ old'[k].nbytes = old[k].nbytes /\ old'[k].fields = old[k].fields
    BY ForwardKeeps
  <1> HIDE DEF c
  <1>4. ASSUME NEW f \in DOMAIN old[k].fields
        PROVE  new'[j].fields[f] \in {old[k].fields[f], Now(old[k].fields[f])'}
    <2>1. old[k].fields[f] \in Refs(1 - half, Alive(old))
      BY OldFields
    <2>2. /\ c.fields[f] \in {old[k].fields[f], Now(old[k].fields[f])}
          /\ Replaces(c.fields[f], new'[j].fields[f], p)
      BY <1>1, <1>2
    <2>3. PICK q : q = old[k].fields[f]
      OBVIOUS
    <2>4. PICK a : a = c.fields[f]
      OBVIOUS
    <2>5. PICK b : b = new'[j].fields[f]
      OBVIOUS
    <2>6. q \in Refs(1 - half, Alive(old)) /\ a \in {q, Now(q)} /\ Replaces(a, b, p)
      BY <2>1, <2>2, <2>3, <2>4, <2>5
    <2>7. b \in {q, Now(q)'}
      BY <2>6, FieldKept
    <2>8. q = old'[k].fields[f]
      BY <1>3, <2>3
    <2> QED
      BY <2>3, <2>5, <2>7, <2>8 DEF Now, Exists, Obj, Half
  <1> QED
    BY <1>1, <1>2, <1>3, <1>4 DEF CopyOf, Forwarded, Now

\* The old half is as it was, but for tags.
LEMMA OldKept ==
  ASSUME TypeOK, Moving, NEW p \in Anywhere, Forward(p), Advanced(p)
  PROVE  /\ Alive(old') = Alive(old) /\ GraphSound(1 - half, old')
         /\ Anywhere \subseteq Anywhere' /\ Target(p) \in Anywhere'
  <1>1. Alive(old') = Alive(old)
    BY ForwardKeeps DEF Alive
  <1>2. GraphSound(1 - half, old')
    <2>1. \A j, k \in Alive(old') : old'[j].id = old'[k].id => j = k
      BY <1>1, ForwardKeeps DEF Moving, GraphSound, Alive
    <2>2. \A k \in DOMAIN old' : Range(old'[k].fields) \subseteq Refs(1 - half, Alive(old'))
      BY <1>1, ForwardKeeps DEF Moving, GraphSound
    <2> QED
      BY <2>1, <2>2 DEF GraphSound
  <1>3. Anywhere \subseteq Anywhere'
    BY <1>1, ForwardKeeps DEF Anywhere
  <1>4. Target(p) \in Anywhere'
    <2>1. CASE Copies(p)
      <3>1. PICK i \in Alive(old) :
              /\ Target(p) = <<half, Len(new) + 1>>
              /\ NewAfter(p) = Append(new, [old[i] EXCEPT !.space = Len(SpacesFor(p))])
        BY <2>1, CopyStep
      <3>2. Len(new) + 1 \in DOMAIN new'
        BY <3>1 DEF TypeOK, Advanced
      <3> QED
        BY <3>1, <3>2, ForwardKeeps DEF Anywhere
    <2>2. CASE ~Copies(p)
      BY <1>3, <2>2, TargetIsNow, OrgOfAny
    <2> QED
      BY <2>1, <2>2
  <1> QED
    BY <1>1, <1>2, <1>3, <1>4

LEMMA MovingKept ==
  ASSUME TypeOK, TypeOK', Moving, NEW p \in Anywhere, Forward(p), Advanced(p)
  PROVE  Moving'
  <1>1. half' = half /\ DOMAIN old' = DOMAIN old
    BY ForwardKeeps
  <1>2. GraphSound(1 - half', old')
    BY <1>1, OldKept
  <1>3. \A k \in DOMAIN old', j \in DOMAIN new' :
          old'[k].to = <<half', j>> => CopyOf(new[j], old[k])'
    BY <1>1, CopiesKept
  <1>4. Range(root') \subseteq Anywhere'
    <2>1. \A v \in Vars : root'[v] \in Anywhere'
      BY OldClosed, OldKept DEF Advanced, Replaces
    <2> QED
      BY <2>1 DEF TypeOK, Range
  <1> QED
    BY <1>2, <1>3, <1>4, TagsKept DEF Moving, Anywhere

\* What a reference stands for in old stays the same, and its target stands for the same.
LEMMA OrgKept ==
  ASSUME TypeOK, TypeOK', Moving, NEW p \in Anywhere, Forward(p), Advanced(p)
  PROVE  /\ \A a \in Anywhere : Org(a)' = Org(a)
         /\ \A t : t = Target(p) => Org(t)' = Org(p)
  <1>1. Moving' /\ half' = half /\ DOMAIN new \subseteq DOMAIN new' /\ DOMAIN old' = DOMAIN old
    BY MovingKept, ForwardKeeps
  <1>2. ASSUME NEW a \in Anywhere PROVE Org(a)' = Org(a)
    <2>1. CASE a \in {half} \X DOMAIN new
      <3>1. PICK j \in DOMAIN new : a = <<half, j>>
        BY <2>1
      <3>2. From(j) \in DOMAIN old /\ Forwarded(old[From(j)]) /\ old[From(j)].to = <<half, j>>
        BY FromIsOrigin DEF Alive
      <3>3. PICK m \in DOMAIN old : m = From(j)
        BY <3>2
      <3>4. old'[m].to = <<half', j>> /\ m \in DOMAIN old' /\ j \in DOMAIN new'
        BY <1>1, <3>2, <3>3, ForwardKeeps
      <3>5. m = From(j)'
        BY <1>1, <3>4, FromIsOriginNext
      <3>6. a \in {half'} \X DOMAIN new'
        BY <1>1, <2>1
      <3> QED
        BY <1>1, <2>1, <3>1, <3>3, <3>5, <3>6 DEF Org
    <2>2. CASE a \notin {half} \X DOMAIN new
      <3>1. a \notin {half'} \X DOMAIN new'
        <4>1. a \in Refs(1 - half, Alive(old))
          BY <2>2 DEF Anywhere
        <4>2. CASE a = NULL
          <5>1. new' \in Seq(Object) /\ half' \in {0, 1}
            BY DEF TypeOK
          <5> QED
            BY <4>2, <5>1, CollectorAssumption
        <4>3. CASE a # NULL
          BY <1>1, <4>1, <4>3 DEF Refs, TypeOK
        <4> QED
          BY <4>2, <4>3
      <3> QED
        BY <2>2, <3>1 DEF Org
    <2> QED
      BY <2>1, <2>2
  <1>3. ASSUME NEW t, t = Target(p) PROVE Org(t)' = Org(p)
    <2>1. CASE Copies(p)
      <3> DEFINE n == Len(new) + 1
      <3>1. PICK i \in Alive(old) :
              /\ p = <<1 - half, i>> /\ Target(p) = <<half, n>>
              /\ old' = [old EXCEPT ![i].to = <<half, n>>]
              /\ NewAfter(p) = Append(new, [old[i] EXCEPT !.space = Len(SpacesFor(p))])
        BY <2>1, CopyStep
      <3>2. i \in DOMAIN old /\ old \in Seq(Object) /\ old[i] \in Object
        BY DEF TypeOK, Alive
      <3>3. old'[i].to = <<half', n>> /\ n \in DOMAIN new' /\ i \in DOMAIN old'
        <4>1. old'[i].to = <<half, n>>
          BY <3>1, <3>2 DEF Object
        <4>2. n \in DOMAIN new'
          <5>1. new \in Seq(Object)
            BY DEF TypeOK
          <5> QED
            BY <3>1, <5>1 DEF Advanced
        <4> QED
          BY <1>1, <3>2, <4>1, <4>2
      <3>4. PICK m : m = n
        OBVIOUS
      <3>5. i = From(m)'
        BY <1>1, <3>3, <3>4, FromIsOriginNext
      <3>6. Org(t)' = <<1 - half, i>>
        <4>1. t = <<half', m>> /\ m \in DOMAIN new'
          BY <1>1, <1>3, <3>1, <3>3, <3>4
        <4>2. t[2] = m
          BY <4>1
        <4>3. Org(t)' = <<1 - half', From(m)'>>
          BY <4>1, <4>2 DEF Org
        <4> QED
          BY <1>1, <3>5, <4>3
      <3>7. Org(p) = p
        BY <3>1, <3>2, OldAddress
      <3> QED
        BY <3>1, <3>6, <3>7
    <2>2. CASE ~Copies(p)
      BY <1>2, <1>3, <2>2, TargetIsNow, OrgOfAny
    <2> QED
      BY <2>1, <2>2
  <1> QED
    BY <1>2, <1>3

\* The program sees the same.
LEMMA SeenKept ==
  ASSUME TypeOK, TypeOK', Moving, NEW p \in Anywhere, Forward(p), Advanced(p)
  PROVE  Seen' = Seen
  <1>1. OrgRoot' = OrgRoot
    <2>1. ASSUME NEW v \in Vars PROVE Org(root[v])' = Org(root[v])
      <3>1. PICK q : q = root[v]
        OBVIOUS
      <3>2. PICK t : t = root'[v]
        OBVIOUS
      <3>3. q \in Anywhere /\ Replaces(q, t, p)
        BY <3>1, <3>2, OldClosed DEF Advanced
      <3>4. Org(t)' = Org(q)
        BY <3>3, OrgKept DEF Replaces
      <3>5. Org(root[v])' = Org(t)'
        BY <3>2 DEF Org, From
      <3> QED
        BY <3>1, <3>4, <3>5
    <2> QED
      BY <2>1 DEF OrgRoot
  <1>2. Seen = SeenFrom(OrgRoot, 1 - half, old)
    BY MovingSeen
  <1>3. Seen' = SeenFrom(OrgRoot', 1 - half', old')
    BY MovingKept, MovingSeenNext
  <1>4. half' = half /\ DOMAIN OrgRoot = Vars
    BY ForwardKeeps DEF OrgRoot
  <1>5. SeenFrom(OrgRoot, 1 - half, old) = SeenFrom(OrgRoot, 1 - half, old')
    BY <1>4, OldClosed, ForwardKeeps, SeenFromSame
  <1> QED
    BY <1>1, <1>2, <1>3, <1>4, <1>5

(***************************************************************************)
(* Room                                                                    *)
(***************************************************************************)

SpacesOK(ss) == ss \in Seq(Space) /\ ss # <<>> /\ \A k \in DOMAIN ss : ss[k].used <= ss[k].size
UsedOf(ss) == Total([k \in DOMAIN ss |-> ss[k].used])
NeedsOf(s) == Total([k \in DOMAIN s |-> Need(s[k].nbytes)])

LEMMA UsedIsNumber ==
  ASSUME NEW ss \in Seq(Space)
  PROVE  UsedOf(ss) \in Nat /\ [k \in DOMAIN ss |-> ss[k].used] \in Seq(Nat)
  <1>1. [k \in DOMAIN ss |-> ss[k].used] \in Seq(Nat)
    <2>1. \A k \in DOMAIN ss : ss[k] \in Space
      OBVIOUS
    <2>2. \A k \in DOMAIN ss : ss[k].used \in Nat
      BY <2>1 DEF Space
    <2> QED
      BY <2>2
  <1> QED
    BY <1>1, TotalIsNumber DEF UsedOf

\* A further space is empty.
LEMMA SpaceAdded ==
  ASSUME NEW ss, SpacesOK(ss), NEW m \in Nat
  PROVE  LET t == Append(ss, Newspace(m))
         IN SpacesOK(t) /\ UsedOf(t) = UsedOf(ss) /\ Len(t) = Len(ss) + 1
  <1> DEFINE t == Append(ss, Newspace(m))
             us == [k \in DOMAIN ss |-> ss[k].used]
  <1>1. ss \in Seq(Space) /\ Newspace(m) \in Space /\ Newspace(m).used = 0
    BY NeedIsNumber DEF SpacesOK, Newspace, Space
  <1>2. Newspace(m).used <= Newspace(m).size
    BY NeedIsNumber DEF Newspace
  <1>3. SpacesOK(t) /\ Len(t) = Len(ss) + 1
    <2>1. t \in Seq(Space) /\ t # <<>> /\ Len(t) = Len(ss) + 1
      BY <1>1
    <2>2. ASSUME NEW k \in DOMAIN t PROVE t[k].used <= t[k].size
      BY <1>1, <1>2 DEF SpacesOK
    <2> QED
      BY <2>1, <2>2 DEF SpacesOK
  <1>4. us \in Seq(Nat) /\ Total(us) \in Nat
    BY <1>1, UsedIsNumber, TotalIsNumber
  <1>5. [k \in DOMAIN t |-> t[k].used] = Append(us, 0)
    <2>1. Len(us) = Len(ss) /\ DOMAIN us = 1 .. Len(ss) /\ Len(ss) \in Nat
      BY <1>1
    <2>2. \A k \in 1 .. Len(ss) + 1 : t[k].used = Append(us, 0)[k]
      BY <1>1, <2>1
    <2> QED
      BY <1>1, <2>1, <2>2
  <1>6. Total(Append(us, 0)) = Total(us) + 0
    BY <1>4, TotalAppend
  <1>7. UsedOf(ss) = Total(us) /\ UsedOf(t) = Total(Append(us, 0))
    BY <1>5 DEF UsedOf
  <1> HIDE DEF t, us
  <1> QED
    BY <1>3, <1>4, <1>6, <1>7 DEF t

\* What is put into the head is used of it.
LEMMA SpaceCharged ==
  ASSUME NEW ss, SpacesOK(ss), NEW n \in Nat, Fits(ss, n)
  PROVE  LET t == Charged(ss, n)
         IN SpacesOK(t) /\ UsedOf(t) = UsedOf(ss) + Need(n) /\ Len(t) = Len(ss)
  <1> DEFINE t == Charged(ss, n)
             us == [k \in DOMAIN ss |-> ss[k].used]
             l == Len(ss)
  <1>1. ss \in Seq(Space) /\ l \in DOMAIN ss /\ l \in Nat /\ ss[l] \in Space
    BY DEF SpacesOK
  <1>2. Need(n) \in Nat /\ Need(n) <= ss[l].size - ss[l].used
    BY NeedIsNumber DEF Fits, Top, SPACEFREE
  <1>3. /\ DOMAIN t = DOMAIN ss /\ Len(t) = l /\ \A k \in DOMAIN ss : k # l => t[k] = ss[k]
        /\ t[l].size = ss[l].size /\ t[l].used = ss[l].used + Need(n) /\ t \in Seq(Space)
    BY <1>1, <1>2 DEF Charged, Space
  <1>4. SpacesOK(t)
    <2>1. ASSUME NEW k \in DOMAIN t PROVE t[k].used <= t[k].size
      <3>1. CASE k = l
        BY <1>1, <1>2, <1>3, <3>1 DEF Space
      <3>2. CASE k # l
        BY <1>3, <3>2 DEF SpacesOK
      <3> QED
        BY <3>1, <3>2
    <2>2. t # <<>>
      BY <1>1, <1>3
    <2> QED
      BY <1>3, <2>1, <2>2 DEF SpacesOK
  <1>5. us \in Seq(Nat) /\ Len(us) = l /\ us # <<>>
    BY <1>1, UsedIsNumber
  <1>6. [k \in DOMAIN t |-> t[k].used] = [us EXCEPT ![Len(us)] = @ + Need(n)]
    BY <1>1, <1>3, <1>5
  <1> HIDE DEF t, us
  <1>7. Total([us EXCEPT ![Len(us)] = @ + Need(n)]) = Total(us) + Need(n)
    BY <1>2, <1>5, TotalRaised
  <1> QED
    BY <1>3, <1>4, <1>6, <1>7 DEF UsedOf, t, us

LEMMA NeedsAppended ==
  ASSUME NEW s \in Seq(Object), NEW o \in Object
  PROVE  NeedsOf(Append(s, o)) = NeedsOf(s) + Need(o.nbytes)
  <1> DEFINE ns == [k \in DOMAIN s |-> Need(s[k].nbytes)]
             t == Append(s, o)
  <1>1. Need(o.nbytes) \in Nat /\ \A k \in DOMAIN s : Need(s[k].nbytes) \in Nat
    <2>1. \A k \in DOMAIN s : s[k] \in Object
      OBVIOUS
    <2>2. o.nbytes \in Nat /\ \A k \in DOMAIN s : s[k].nbytes \in Nat
      BY <2>1 DEF Object
    <2> QED
      BY <2>2, NeedIsNumber
  <1>2. ns \in Seq(Nat) /\ Len(ns) = Len(s) /\ DOMAIN ns = 1 .. Len(s) /\ Len(s) \in Nat
    BY <1>1
  <1>3. [k \in DOMAIN t |-> Need(t[k].nbytes)] = Append(ns, Need(o.nbytes))
    <2>1. \A k \in 1 .. Len(s) + 1 : Need(t[k].nbytes) = Append(ns, Need(o.nbytes))[k]
      BY <1>1, <1>2
    <2> QED
      BY <1>1, <1>2, <2>1
  <1> QED
    BY <1>1, <1>2, <1>3, TotalAppend DEF NeedsOf

LEMMA NeedsSame ==
  ASSUME NEW s, NEW t, DOMAIN t = DOMAIN s, \A k \in DOMAIN s : t[k].nbytes = s[k].nbytes
  PROVE  NeedsOf(t) = NeedsOf(s)
  BY DEF NeedsOf

LEMMA AccountsAre ==
  ASSUME TypeOK
  PROVE  Accounts <=> /\ SpacesOK(spaces) /\ UsedOf(spaces) = NeedsOf(new)
                      /\ \A k \in DOMAIN new : new[k].space \in 1 .. Len(spaces)
  BY DEF TypeOK, Accounts, SpacesOK, UsedOf, NeedsOf, Livedata

LEMMA AccountsAreNext ==
  (TypeOK => (Accounts <=> /\ SpacesOK(spaces) /\ UsedOf(spaces) = NeedsOf(new)
                           /\ \A k \in DOMAIN new : new[k].space \in 1 .. Len(spaces)))'
  <1>1. TypeOK => (Accounts <=> /\ SpacesOK(spaces) /\ UsedOf(spaces) = NeedsOf(new)
                                /\ \A k \in DOMAIN new : new[k].space \in 1 .. Len(spaces))
    BY AccountsAre
  <1> QED
    BY <1>1, PTL

LEMMA SpacesForRight ==
  ASSUME TypeOK, Accounts, NEW p, Obj(p).nbytes \in Nat
  PROVE  /\ SpacesOK(SpacesFor(p)) /\ UsedOf(SpacesFor(p)) = UsedOf(spaces)
         /\ Len(SpacesFor(p)) \in Nat /\ Len(SpacesFor(p)) >= Len(spaces)
         /\ Raised(Obj(p).nbytes) \in Nat
  <1>1. SpacesOK(spaces) /\ spaces \in Seq(Space) /\ Len(spaces) \in Nat
    BY AccountsAre DEF TypeOK
  <1>2. Raised(Obj(p).nbytes) \in Nat
    BY CollectorAssumption DEF Raised, TypeOK
  <1>3. CASE Fits(spaces, Obj(p).nbytes)
    BY <1>1, <1>2, <1>3 DEF SpacesFor
  <1>4. CASE ~Fits(spaces, Obj(p).nbytes)
    <2>1. SpacesFor(p) = Append(spaces, Newspace(Raised(Obj(p).nbytes)))
      BY <1>4 DEF SpacesFor
    <2> QED
      BY <1>1, <1>2, <2>1, SpaceAdded
  <1> QED
    BY <1>3, <1>4

\* What forward changes has its type.
LEMMA ForwardTypes ==
  ASSUME TypeOK, Accounts, Moving, NEW p \in Anywhere, Forward(p)
  PROVE  /\ spaces' \in Seq(Space) /\ minspace' \in Nat /\ old' \in Seq(Object)
         /\ late' \in BOOLEAN /\ NewAfter(p) \in Seq(Object) /\ Target(p) \in Pointers
         /\ Len(spaces') >= Len(spaces) /\ Len(spaces') \in Nat
         /\ Copies(p) => Len(spaces') = Len(SpacesFor(p)) /\ NewAfter(p) # new
         /\ ~Copies(p) => NewAfter(p) = new
  <1>1. /\ spaces \in Seq(Space) /\ minspace \in Nat /\ old \in Seq(Object) /\ new \in Seq(Object)
        /\ late \in BOOLEAN /\ half \in {0, 1} /\ Len(spaces) \in Nat
    BY DEF TypeOK
  <1>2. CASE Copies(p)
    <2> DEFINE n == Len(new) + 1
               c(i) == [old[i] EXCEPT !.space = Len(SpacesFor(p))]
    <2>1. PICK i \in Alive(old) :
            /\ Obj(p) = old[i] /\ Target(p) = <<half, n>>
            /\ old' = [old EXCEPT ![i].to = <<half, n>>]
            /\ NewAfter(p) = Append(new, c(i))
            /\ spaces' = Charged(SpacesFor(p), old[i].nbytes)
            /\ Fits(SpacesFor(p), old[i].nbytes)
      BY <1>2, CopyStep
    <2>2. i \in DOMAIN old /\ old[i] \in Object
      BY <1>1 DEF Alive
    <2>3. old[i].nbytes \in Nat
      BY <2>2 DEF Object
    <2>4. /\ SpacesOK(SpacesFor(p)) /\ Len(SpacesFor(p)) \in Nat
          /\ Len(SpacesFor(p)) >= Len(spaces) /\ Raised(old[i].nbytes) \in Nat
      BY <2>1, <2>3, SpacesForRight
    <2>5. spaces' \in Seq(Space) /\ Len(spaces') = Len(SpacesFor(p))
      BY <2>1, <2>3, <2>4, SpaceCharged DEF SpacesOK
    <2>6. minspace' \in Nat
      BY <1>1, <1>2, <2>1, <2>4 DEF Forward
    <2>7. <<half, n>> \in Pointers
      BY <1>1 DEF Pointers, Addresses
    <2>8. old' \in Seq(Object)
      <3>1. [old[i] EXCEPT !.to = <<half, n>>] \in Object
        BY <2>2, <2>7 DEF Object
      <3>2. old' = [old EXCEPT ![i] = [old[i] EXCEPT !.to = <<half, n>>]]
        BY <2>1, <2>2
      <3> HIDE DEF n
      <3> QED
        BY <1>1, <2>2, <3>1, <3>2
    <2>9. NewAfter(p) \in Seq(Object) /\ NewAfter(p) # new
      <3>1. c(i) \in Object
        BY <2>2, <2>4 DEF Object
      <3> HIDE DEF c
      <3>2. Len(Append(new, c(i))) # Len(new)
        BY <1>1, <3>1
      <3> QED
        BY <1>1, <2>1, <3>1, <3>2
    <2>10. late' \in BOOLEAN
      <3>1. late' = (late \/ Passed(Len(SpacesFor(p))))
        BY <1>2 DEF Forward
      <3> QED
        BY <3>1
    <2> QED
      BY <1>2, <2>1, <2>4, <2>5, <2>6, <2>7, <2>8, <2>9, <2>10
  <1>3. CASE ~Copies(p)
    <2>1. UNCHANGED <<spaces, minspace, old, late>>
      BY <1>3 DEF Forward
    <2>2. NewAfter(p) = new /\ Target(p) \in Anywhere
      BY <1>3, TargetIsNow, OrgOfAny
    <2>3. Anywhere \subseteq Pointers
      <3>1. DOMAIN new \subseteq Nat /\ Alive(old) \subseteq Nat /\ 1 - half \in {0, 1}
        BY <1>1 DEF Alive
      <3> QED
        BY <1>1, <3>1 DEF Anywhere, Refs, Pointers, Addresses
    <2> QED
      BY <1>1, <1>3, <2>1, <2>2, <2>3
  <1> QED
    BY <1>2, <1>3

\* The accounts stay in order.
LEMMA AccountsKept ==
  ASSUME TypeOK, TypeOK', Accounts, Moving, NEW p \in Anywhere, Forward(p), Advanced(p)
  PROVE  Accounts'
  <1>1. /\ SpacesOK(spaces) /\ UsedOf(spaces) = NeedsOf(new)
        /\ \A k \in DOMAIN new : new[k].space \in 1 .. Len(spaces)
    BY AccountsAre
  <1>2. new \in Seq(Object) /\ old \in Seq(Object) /\ spaces \in Seq(Space)
    BY DEF TypeOK
  <1>3. NeedsOf(new') = NeedsOf(NewAfter(p))
    BY NeedsSame DEF Advanced
  <1>4. CASE Copies(p)
    <2> DEFINE S == SpacesFor(p)
               c(i) == [old[i] EXCEPT !.space = Len(S)]
    <2>1. PICK i \in Alive(old) :
            /\ Obj(p) = old[i] /\ NewAfter(p) = Append(new, c(i))
            /\ spaces' = Charged(S, old[i].nbytes) /\ Fits(S, old[i].nbytes)
      BY <1>4, CopyStep
    <2>2. i \in DOMAIN old /\ old[i] \in Object
      BY <1>2 DEF Alive
    <2>3. old[i].nbytes \in Nat
      BY <2>2 DEF Object
    <2>4. SpacesOK(S) /\ UsedOf(S) = UsedOf(spaces) /\ Len(S) \in Nat /\ Len(S) >= Len(spaces)
      BY <2>1, <2>3, SpacesForRight
    <2> HIDE DEF S
    <2>5. /\ SpacesOK(spaces') /\ UsedOf(spaces') = UsedOf(S) + Need(old[i].nbytes)
          /\ Len(spaces') = Len(S)
      BY <2>1, <2>3, <2>4, SpaceCharged
    <2>6. c(i) \in Object /\ c(i).nbytes = old[i].nbytes /\ c(i).space = Len(S)
      BY <2>2, <2>4 DEF Object
    <2> HIDE DEF c
    <2>7. NeedsOf(NewAfter(p)) = NeedsOf(new) + Need(old[i].nbytes)
      BY <1>2, <2>1, <2>6, NeedsAppended
    <2>8. ASSUME NEW k \in DOMAIN new' PROVE new'[k].space \in 1 .. Len(spaces')
      <3>1. new'[k].space = Append(new, c(i))[k].space /\ k \in 1 .. Len(new) + 1
        BY <1>2, <2>1, <2>6 DEF Advanced
      <3>2. CASE k = Len(new) + 1
        <4>1. new'[k].space = Len(S)
          BY <1>2, <2>6, <3>1, <3>2
        <4>2. Len(spaces) >= 1 /\ Len(spaces) \in Nat
          BY <1>1, <1>2 DEF SpacesOK
        <4> QED
          BY <2>4, <2>5, <4>1, <4>2
      <3>3. CASE k # Len(new) + 1
        <4>1. k \in DOMAIN new /\ Append(new, c(i))[k] = new[k]
          BY <1>2, <3>1, <3>3
        <4>2. new[k].space \in 1 .. Len(spaces) /\ Len(spaces) \in Nat
          BY <1>1, <1>2, <4>1
        <4>3. new'[k].space = new[k].space
          BY <3>1, <4>1
        <4> QED
          BY ONLY <2>4, <2>5, <4>2, <4>3
      <3> QED
        BY <3>2, <3>3
    <2> QED
      BY <1>1, <1>3, <2>4, <2>5, <2>7, <2>8, AccountsAreNext
  <1>5. CASE ~Copies(p)
    <2>1. spaces' = spaces /\ NewAfter(p) = new
      BY <1>5, TargetIsNow DEF Forward
    <2>2. \A k \in DOMAIN new' : k \in DOMAIN new /\ new'[k].space = new[k].space
      BY <2>1 DEF Advanced
    <2> QED
      BY <1>1, <1>3, <2>1, <2>2, AccountsAreNext
  <1> QED
    BY <1>4, <1>5

(***************************************************************************)
(* The scan                                                                *)
(***************************************************************************)

LEMMA HereIs ==
  ASSUME TypeOK, Ahead # {}
  PROVE  Here \in Ahead /\ Here \in DOMAIN new /\ \A l \in Ahead : Here <= l
  <1>1. Ahead \in SUBSET Nat
    BY DEF TypeOK, Ahead
  <1>2. \E k \in Ahead : \A l \in Ahead : k <= l
    BY <1>1, LeastOne
  <1>3. Here \in Ahead /\ \A l \in Ahead : Here <= l
    BY <1>2 DEF Here
  <1> QED
    BY <1>3 DEF Ahead

LEMMA HereIsNext ==
  (TypeOK /\ Ahead # {} =>
     Here \in Ahead /\ Here \in DOMAIN new /\ \A l \in Ahead : Here <= l)'
  <1>1. TypeOK /\ Ahead # {} =>
          Here \in Ahead /\ Here \in DOMAIN new /\ \A l \in Ahead : Here <= l
    BY HereIs
  <1> QED
    BY <1>1, PTL

\* What forward returns is not in old.
LEMMA TargetIsOut ==
  ASSUME TypeOK, Moving, NEW p \in Anywhere
  PROVE  ~InOld(Target(p))
  <1>1. CASE Copies(p)
    <2>1. Target(p) = <<half, Len(new) + 1>>
      BY <1>1 DEF Target, Copies
    <2> QED
      BY <2>1 DEF InOld
  <1>2. CASE ~Copies(p)
    <2>1. CASE ~InOld(p)
      BY <2>1 DEF Target
    <2>2. CASE InOld(p)
      <3>1. Forwarded(Obj(p)) /\ p # NULL /\ p[1] # half
        BY <1>2, <2>2 DEF Copies, InOld
      <3>2. p \notin {half} \X DOMAIN new
        BY <3>1
      <3>3. PICK i \in DOMAIN old : p = <<1 - half, i>>
        BY <3>1, <3>2 DEF Anywhere, Refs, Alive
      <3>4. Forwarded(old[i]) /\ Target(p) = old[i].to
        BY <2>2, <3>1, <3>3, OldAddress DEF Target
      <3>5. PICK j \in DOMAIN new : old[i].to = <<half, j>>
        BY <3>4 DEF Moving
      <3> QED
        BY <3>4, <3>5 DEF InOld
    <2> QED
      BY <2>1, <2>2
  <1> QED
    BY <1>1, <1>2

\* A root and a field are forwarded as Advanced says, and what is written has its type.
LEMMA RootAdvances ==
  ASSUME TypeOK, Accounts, Moving, ScanRoot
  PROVE  /\ TypeOK'
         /\ \E p \in Anywhere :
              /\ Forward(p) /\ Advanced(p)
              /\ root' = [root EXCEPT ![RootList[cursor.root]] = Target(p)]
  <1> DEFINE v == RootList[cursor.root]
             p == root[v]
  <1>1. cursor \in Cursor /\ cursor.root \in Nat \ {0}
    BY DEF TypeOK, Cursor
  <1>2. v \in Vars
    BY <1>1, CollectorAssumption DEF ScanRoot
  <1>3. p \in Anywhere
    BY <1>2, OldClosed
  <1>4. /\ Forward(p) /\ root' = [root EXCEPT ![v] = Target(p)] /\ new' = NewAfter(p)
        /\ cursor' = [cursor EXCEPT !.root = @ + 1]
        /\ UNCHANGED <<half, gcblocked, pc, req, ops>>
    BY DEF ScanRoot
  <1>5. /\ spaces' \in Seq(Space) /\ minspace' \in Nat /\ old' \in Seq(Object)
        /\ late' \in BOOLEAN /\ NewAfter(p) \in Seq(Object) /\ Target(p) \in Pointers
    <2> HIDE DEF p
    <2> QED
      BY <1>3, <1>4, ForwardTypes
  <1>6. root \in [Vars -> Pointers]
    BY DEF TypeOK
  <1> HIDE DEF p, v
  <1>7. cursor' \in Cursor
    BY <1>1, <1>4 DEF Cursor
  <1>8. root' \in [Vars -> Pointers]
    BY <1>2, <1>4, <1>5, <1>6
  <1>9. TypeOK'
    BY <1>4, <1>5, <1>7, <1>8 DEF TypeOK
  <1>10. \A w \in Vars : Replaces(root[w], root'[w], p)
    BY <1>2, <1>4, <1>6 DEF Replaces, p
  <1>11. Advanced(p)
    BY <1>4, <1>10 DEF Advanced, Replaces
  <1> QED
    BY <1>3, <1>4, <1>9, <1>11 DEF v

LEMMA FieldAdvances ==
  ASSUME TypeOK, Accounts, Moving, ScanField
  PROVE  /\ TypeOK'
         /\ \E p \in Anywhere :
              /\ Forward(p) /\ Advanced(p) /\ new'[Here].fields[cursor.field] = Target(p)
  <1> DEFINE h == Here
             f == cursor.field
             p == new[h].fields[f]
             n == NewAfter(p)
  <1>1. cursor \in Cursor /\ f \in Nat \ {0}
    BY DEF TypeOK, Cursor
  <1>2. h \in DOMAIN new
    BY HereIs DEF ScanField
  <1>3. p \in Anywhere
    BY <1>2, NewFields DEF ScanField
  <1>4. /\ Forward(p) /\ new' = [n EXCEPT ![h].fields[f] = Target(p)]
        /\ cursor' = [cursor EXCEPT !.field = @ + 1]
        /\ UNCHANGED <<root, half, gcblocked, pc, req, ops>>
        /\ f \in DOMAIN new[h].fields
    BY DEF ScanField
  <1> HIDE DEF p
  <1>5. /\ spaces' \in Seq(Space) /\ minspace' \in Nat /\ old' \in Seq(Object)
        /\ late' \in BOOLEAN /\ n \in Seq(Object) /\ Target(p) \in Pointers
    BY <1>3, <1>4, ForwardTypes
  <1>6. h \in DOMAIN n /\ n[h] = new[h]
    <2>1. CASE Copies(p)
      <3>1. new \in Seq(Object)
        BY DEF TypeOK
      <3> QED
        BY <1>2, <2>1, <3>1 DEF NewAfter
    <2>2. CASE ~Copies(p)
      BY <1>2, <2>2 DEF NewAfter
    <2> QED
      BY <2>1, <2>2
  <1> HIDE DEF n, h, f
  <1>7. n[h] \in Object /\ n[h].fields \in Seq(Pointers) /\ f \in DOMAIN n[h].fields
    <2>1. n[h] \in Object
      BY <1>5, <1>6
    <2> QED
      BY <1>4, <1>6, <2>1 DEF Object
  <1>8. [n[h] EXCEPT !.fields[f] = Target(p)] \in Object
    <2>1. [n[h].fields EXCEPT ![f] = Target(p)] \in Seq(Pointers)
      BY <1>5, <1>7
    <2> QED
      BY <1>7, <2>1 DEF Object
  <1>9. new' = [n EXCEPT ![h] = [n[h] EXCEPT !.fields[f] = Target(p)]]
    BY <1>4, <1>6
  <1>10. new' \in Seq(Object)
    BY <1>5, <1>6, <1>8, <1>9
  <1>11. cursor' \in Cursor
    BY <1>1, <1>4 DEF Cursor
  <1>12. TypeOK'
    BY <1>4, <1>5, <1>10, <1>11 DEF TypeOK
  <1>13. DOMAIN new' = DOMAIN n /\ \A j \in DOMAIN n : j # h => new'[j] = n[j]
    BY <1>9
  <1>14. /\ new'[h].id = n[h].id /\ new'[h].nbytes = n[h].nbytes /\ new'[h].to = n[h].to
         /\ new'[h].space = n[h].space
         /\ new'[h].fields = [n[h].fields EXCEPT ![f] = Target(p)]
    BY <1>6, <1>7, <1>9 DEF Object
  <1>15. n[h].fields[f] = p
    BY <1>6 DEF p, h, f
  <1>16. \A j \in DOMAIN new' : \A g \in DOMAIN new'[j].fields :
           Replaces(n[j].fields[g], new'[j].fields[g], p)
    BY <1>7, <1>13, <1>14, <1>15 DEF Replaces
  <1>17. Advanced(p)
    <2>1. \A j \in DOMAIN new' :
            /\ new'[j].id = n[j].id /\ new'[j].nbytes = n[j].nbytes /\ new'[j].to = n[j].to
            /\ new'[j].space = n[j].space /\ DOMAIN new'[j].fields = DOMAIN n[j].fields
      BY <1>7, <1>13, <1>14
    <2> QED
      BY <1>4, <1>13, <1>16, <2>1 DEF Advanced, Replaces, n
  <1>18. new'[h].fields[f] = Target(p)
    BY <1>7, <1>14
  <1> QED
    BY <1>3, <1>4, <1>12, <1>17, <1>18 DEF h, f

\* What is not into old stays so, and what is put into new lies in the head of the spaces.
LEMMA ForwardOut ==
  ASSUME TypeOK, Accounts, Moving, NEW p \in Anywhere, Forward(p), Advanced(p)
  PROVE  /\ \A v \in Vars : ~InOld(root[v]) => ~InOld(root'[v])
         /\ \A k \in DOMAIN new :
              /\ k \in DOMAIN new' /\ new'[k].space = new[k].space
              /\ DOMAIN new'[k].fields = DOMAIN new[k].fields
              /\ \A f \in DOMAIN new[k].fields :
                   ~InOld(new[k].fields[f]) => ~InOld(new'[k].fields[f])
         /\ \A k \in DOMAIN new' : k \notin DOMAIN new =>
              /\ k = Len(new) + 1 /\ new'[k].space = Len(spaces')
              /\ Passed(Len(spaces')) => late'
         /\ Len(spaces') >= Len(spaces) /\ Len(spaces') \in Nat
         /\ late => late'
  <1> DEFINE n == NewAfter(p)
  <1>1. ~InOld(Target(p))
    BY TargetIsOut
  <1>2. \A q, r : Replaces(q, r, p) /\ ~InOld(q) => ~InOld(r)
    BY <1>1 DEF Replaces
  <1>3. Len(spaces') >= Len(spaces) /\ Len(spaces') \in Nat
    BY ForwardTypes
  <1>4. new \in Seq(Object)
    BY DEF TypeOK
  <1>5. ASSUME NEW k \in DOMAIN new PROVE k \in DOMAIN n /\ n[k] = new[k]
    BY <1>4 DEF NewAfter
  <1>6. ASSUME NEW k \in DOMAIN n, k \notin DOMAIN new
        PROVE  /\ k = Len(new) + 1 /\ n[k].space = Len(spaces')
               /\ Passed(Len(spaces')) => late'
    <2>1. Copies(p)
      BY <1>6 DEF NewAfter
    <2>2. PICK i \in Alive(old) :
            /\ n = Append(new, [old[i] EXCEPT !.space = Len(SpacesFor(p))])
      BY <2>1, CopyStep
    <2>3. old \in Seq(Object) /\ old[i] \in Object
      BY DEF TypeOK, Alive
    <2>4. k = Len(new) + 1
      BY <1>4, <1>6, <2>2
    <2>5. n[k] = [old[i] EXCEPT !.space = Len(SpacesFor(p))]
      BY <1>4, <2>2, <2>4
    <2>6. n[k].space = Len(SpacesFor(p))
      BY <2>3, <2>5 DEF Object
    <2>7. Len(spaces') = Len(SpacesFor(p))
      BY <2>1, ForwardTypes
    <2>8. late' = (late \/ Passed(Len(SpacesFor(p))))
      BY <2>1 DEF Forward
    <2> QED
      BY <2>4, <2>6, <2>7, <2>8
  <1>7. late => late'
    <2>1. CASE Copies(p)
      <3>1. late' = (late \/ Passed(Len(SpacesFor(p))))
        BY <2>1 DEF Forward
      <3> QED
        BY <3>1
    <2>2. CASE ~Copies(p)
      BY <2>2 DEF Forward
    <2> QED
      BY <2>1, <2>2
  <1> HIDE DEF n
  <1>8. /\ DOMAIN new' = DOMAIN n /\ \A v \in Vars : Replaces(root[v], root'[v], p)
        /\ \A k \in DOMAIN new' :
             /\ new'[k].space = n[k].space /\ DOMAIN new'[k].fields = DOMAIN n[k].fields
             /\ \A f \in DOMAIN new'[k].fields : Replaces(n[k].fields[f], new'[k].fields[f], p)
    BY DEF Advanced, n
  <1> QED
    BY <1>2, <1>3, <1>5, <1>6, <1>7, <1>8

LEMMA RootProgress ==
  ASSUME TypeOK, Accounts, Moving, Progress, ScanRoot
  PROVE  Progress'
  <1>1. PICK p \in Anywhere :
          /\ Forward(p) /\ Advanced(p)
          /\ root' = [root EXCEPT ![RootList[cursor.root]] = Target(p)]
    BY RootAdvances
  <1>2. /\ cursor' = [cursor EXCEPT !.root = @ + 1] /\ pc = "roots" /\ pc' = pc /\ half' = half
        /\ cursor.root <= Len(RootList)
    BY DEF ScanRoot
  <1>3. cursor \in Cursor /\ cursor.root \in Nat \ {0}
    BY DEF TypeOK, Cursor
  <1>4. /\ cursor'.root = cursor.root + 1 /\ cursor'.at = cursor.at
        /\ cursor'.field = cursor.field
    BY <1>2, <1>3 DEF Cursor
  <1>5. ASSUME NEW i \in 1 .. cursor'.root - 1, i \in DOMAIN RootList
        PROVE  ~InOld(root'[RootList[i]])
    <2>1. RootList[i] \in Vars /\ RootList[cursor.root] \in Vars
      BY <1>2, <1>3, <1>5, CollectorAssumption
    <2>2. CASE i = cursor.root
      <3>1. root'[RootList[i]] = Target(p)
        BY <1>1, <2>1, <2>2 DEF TypeOK
      <3> QED
        BY <1>1, <3>1, TargetIsOut
    <2>3. CASE i # cursor.root
      <3>1. i \in 1 .. cursor.root - 1
        BY <1>3, <1>4, <1>5, <2>3
      <3>2. ~InOld(root[RootList[i]])
        BY <1>2, <1>5, <3>1 DEF Progress, RootsDone
      <3> QED
        BY <1>1, <2>1, <3>2, ForwardOut
    <2> QED
      BY <2>2, <2>3
  <1>6. RootsDone'
    BY <1>2, <1>5 DEF RootsDone, InOld
  <1> QED
    BY <1>2, <1>4, <1>6 DEF Progress

LEMMA FieldProgress ==
  ASSUME TypeOK, Accounts, Moving, Progress, ScanField
  PROVE  Progress'
  <1>1. PICK p \in Anywhere :
          Forward(p) /\ Advanced(p) /\ new'[Here].fields[cursor.field] = Target(p)
    BY FieldAdvances
  <1>2. TypeOK'
    BY FieldAdvances
  <1>3. /\ cursor' = [cursor EXCEPT !.field = @ + 1] /\ pc = "scan" /\ pc' = pc
        /\ half' = half /\ root' = root /\ Ahead # {} /\ cursor.space > cursor.scanned
    BY DEF ScanField, Scanning
  <1>4. /\ cursor \in Cursor /\ cursor.field \in Nat \ {0} /\ cursor.at \in Nat
        /\ cursor.space \in Nat /\ cursor.scanned \in Nat /\ cursor.front \in Nat
    BY DEF TypeOK, Cursor
  <1>5. /\ cursor'.field = cursor.field + 1 /\ cursor'.root = cursor.root
        /\ cursor'.at = cursor.at /\ cursor'.space = cursor.space
        /\ cursor'.scanned = cursor.scanned /\ cursor'.front = cursor.front
    BY <1>3, <1>4 DEF Cursor
  <1>6. RootsDone'
    BY <1>3, <1>5 DEF Progress, RootsDone, InOld
  <1>7. /\ \A k \in DOMAIN new :
             /\ k \in DOMAIN new' /\ new'[k].space = new[k].space
             /\ DOMAIN new'[k].fields = DOMAIN new[k].fields
             /\ \A f \in DOMAIN new[k].fields :
                  ~InOld(new[k].fields[f]) => ~InOld(new'[k].fields[f])
        /\ \A k \in DOMAIN new' : k \notin DOMAIN new =>
             /\ k = Len(new) + 1 /\ new'[k].space = Len(spaces')
             /\ Passed(Len(spaces')) => late'
        /\ Len(spaces') >= Len(spaces) /\ Len(spaces') \in Nat
        /\ late => late'
    BY <1>1, ForwardOut
  <1>8. /\ cursor.root > Len(RootList) /\ CursorRight
        /\ cursor.field > 1 => \A f \in DOMAIN new[Here].fields :
                                 f < cursor.field => ~InOld(new[Here].fields[f])
        /\ ~late => ObjectsDone
    BY <1>3 DEF Progress, FieldsDone
  <1>9. Len(new) \in Nat /\ Len(spaces) \in Nat /\ DOMAIN new = 1 .. Len(new)
    BY DEF TypeOK
  <1>10. CursorRight'
    <2>1. Len(new') >= Len(new)
      <3>1. new' \in Seq(Object)
        BY <1>2 DEF TypeOK
      <3>2. Len(new') \in Nat /\ DOMAIN new' = 1 .. Len(new')
        BY <3>1
      <3>3. Len(new) = 0 \/ Len(new) \in DOMAIN new
        BY <1>9
      <3> QED
        BY <1>7, <1>9, <3>2, <3>3
    <2>2. Len(new') \in Nat
      BY <1>2 DEF TypeOK
    <2> QED
      BY <1>4, <1>5, <1>7, <1>8, <1>9, <2>1, <2>2 DEF CursorRight
  <1>11. Here' = Here /\ Here \in DOMAIN new /\ Ahead' # {}
    <2>1. Ahead' = {k \in DOMAIN new' : new'[k].space = cursor.space /\ k > cursor.at}
      BY <1>5 DEF Ahead
    <2>2. Here \in Ahead /\ Here \in DOMAIN new /\ \A l \in Ahead : Here <= l
      BY <1>3, HereIs
    <2>3. Ahead \subseteq Ahead'
      BY <1>7, <2>1 DEF Ahead
    <2>4. \A l \in Ahead' : l \in Ahead \/ l = Len(new) + 1
      BY <1>7, <2>1 DEF Ahead
    <2>5. Ahead' # {} /\ Here \in Ahead'
      BY <2>2, <2>3
    <2>6. Here' \in Ahead' /\ \A l \in Ahead' : Here' <= l
      BY <1>2, <2>5, HereIsNext
    <2>7. Here' <= Here /\ Here <= Here' /\ Here \in Nat
      <3>1. Here \in 1 .. Len(new)
        BY <1>9, <2>2
      <3>2. Here' \in Ahead \/ Here' = Len(new) + 1
        BY <2>4, <2>6
      <3> QED
        BY <1>9, <2>2, <2>5, <2>6, <3>1, <3>2
    <2>8. Here' \in Nat
      <3>1. new' \in Seq(Object)
        BY <1>2 DEF TypeOK
      <3> QED
        BY <2>1, <2>6, <3>1
    <2> QED
      BY <2>2, <2>5, <2>7, <2>8
  <1>12. FieldsDone'
    <2>1. Scanning'
      BY <1>3, <1>5 DEF Scanning
    <2>2. ASSUME NEW f \in DOMAIN new'[Here].fields, f < cursor.field + 1
          PROVE  ~InOld(new'[Here].fields[f])
      <3>1. DOMAIN new'[Here].fields = DOMAIN new[Here].fields
        BY <1>7, <1>11
      <3>2. f \in Nat \ {0}
        <4>1. new[Here] \in Object
          BY <1>11 DEF TypeOK
        <4>2. new[Here].fields \in Seq(Pointers)
          BY <4>1 DEF Object
        <4> QED
          BY <2>2, <3>1, <4>2
      <3>3. CASE f = cursor.field
        BY <1>1, <3>3, TargetIsOut
      <3>4. CASE f # cursor.field
        <4>1. f < cursor.field /\ cursor.field > 1
          BY <1>4, <2>2, <3>2, <3>4
        <4>2. ~InOld(new[Here].fields[f])
          BY <1>8, <3>1, <4>1
        <4> QED
          BY <1>7, <1>11, <3>1, <4>2
      <3> QED
        BY <3>3, <3>4
    <2>3. \A f \in DOMAIN new'[Here'].fields :
            f < cursor'.field => ~InOld(new'[Here'].fields[f])
      BY <1>5, <1>11, <2>2
    <2> QED
      BY <1>3, <1>11, <2>1, <2>3 DEF FieldsDone, InOld
  <1>13. ASSUME ~late' PROVE ObjectsDone'
    <2>1. ObjectsDone
      BY <1>7, <1>8, <1>13
    <2>2. ASSUME NEW k \in DOMAIN new', Done(k)', NEW f \in DOMAIN new'[k].fields
          PROVE  ~InOld(new'[k].fields[f])
      <3>1. \/ new'[k].space <= cursor.scanned
            \/ Passed(new'[k].space)
            \/ new'[k].space = cursor.space /\ k <= cursor.at
        BY <1>3, <1>5, <2>2 DEF Done, Passed
      <3>2. CASE k \in DOMAIN new
        <4>1. Done(k)
          BY <1>7, <3>1, <3>2 DEF Done
        <4> QED
          BY <1>7, <2>1, <3>2, <4>1 DEF ObjectsDone
      <3>3. CASE k \notin DOMAIN new
        <4>1. /\ k = Len(new) + 1 /\ new'[k].space = Len(spaces')
              /\ ~Passed(Len(spaces'))
          BY <1>7, <1>13, <3>3
        <4>2. Len(spaces') > cursor.scanned /\ ~(k <= cursor.at)
          BY <1>4, <1>7, <1>8, <1>9, <4>1 DEF CursorRight
        <4> QED
          BY <1>4, <1>7, <3>1, <4>1, <4>2
      <3> QED
        BY <3>2, <3>3
    <2> QED
      BY <1>3, <2>2 DEF ObjectsDone, InOld
  <1> QED
    BY <1>3, <1>5, <1>6, <1>8, <1>10, <1>12, <1>13 DEF Progress

\* The steps that forward nothing only move the cursor.
Quiet == ScanStart \/ NextObject \/ NextSpace \/ Rescan

LEMMA QuietTypes ==
  ASSUME TypeOK, Quiet
  PROVE  TypeOK' /\ UNCHANGED <<root, heap, minspace, gcblocked, req, late, ops>> /\ pc' = "scan"
  <1>1. UNCHANGED <<root, heap, minspace, gcblocked, req, late, ops>> /\ pc' = "scan"
    BY DEF Quiet, ScanStart, NextObject, NextSpace, Rescan, Scanning
  <1>2. cursor' \in Cursor
    <2>1. /\ cursor \in Cursor /\ cursor.scanned \in Nat /\ cursor.front \in Nat
          /\ cursor.space \in Nat /\ Len(spaces) \in Nat
      BY DEF TypeOK, Cursor
    <2>2. CASE NextObject
      <3>1. Here \in Nat /\ cursor' = [cursor EXCEPT !.at = Here, !.field = 1]
        BY <2>2, HereIs DEF NextObject, TypeOK
      <3>2. PICK h \in Nat : h = Here
        BY <3>1
      <3>3. cursor' = [cursor EXCEPT !.at = h, !.field = 1]
        BY <3>1, <3>2
      <3> QED
        BY <2>1, <3>2, <3>3, 1 \in Nat \ {0} DEF Cursor
    <2>3. CASE NextSpace
      <3>1. cursor' = [cursor EXCEPT !.space = @ - 1, !.at = 0] /\ cursor.space - 1 \in Nat
        BY <2>1, <2>3 DEF NextSpace, Scanning
      <3> QED
        BY <2>1, <3>1 DEF Cursor
    <2>4. CASE ScanStart
      <3>1. cursor' = [cursor EXCEPT !.scanned = 0, !.front = Len(spaces), !.space = Len(spaces)]
        BY <2>4 DEF ScanStart
      <3> QED
        BY <2>1, <3>1 DEF Cursor
    <2>5. CASE Rescan
      <3>1. cursor' = [cursor EXCEPT !.scanned = cursor.front, !.front = Len(spaces),
                                     !.space = Len(spaces), !.at = 0]
        BY <2>5 DEF Rescan
      <3> QED
        BY <2>1, <3>1 DEF Cursor
    <2> QED
      BY <2>2, <2>3, <2>4, <2>5 DEF Quiet
  <1> QED
    BY <1>1, <1>2 DEF TypeOK, heap

LEMMA QuietProgress ==
  ASSUME TypeOK, Accounts, Progress, Quiet
  PROVE  Progress'
  <1>1. /\ root' = root /\ new' = new /\ half' = half /\ spaces' = spaces /\ late' = late
        /\ pc' = "scan" /\ pc \in {"roots", "scan"}
    BY QuietTypes DEF heap, Quiet, ScanStart, NextObject, NextSpace, Rescan, Scanning
  <1>2. /\ cursor \in Cursor /\ cursor.field \in Nat \ {0} /\ cursor.at \in Nat
        /\ cursor.space \in Nat /\ cursor.scanned \in Nat /\ cursor.front \in Nat
    BY DEF TypeOK, Cursor
  <1>3. Len(new) \in Nat /\ DOMAIN new = 1 .. Len(new) /\ Len(spaces) \in Nat \ {0}
    BY DEF TypeOK, Accounts
  <1>4. \A k \in DOMAIN new : new[k].space \in 1 .. Len(spaces)
    BY DEF Accounts
  <1>5. RootsDone' /\ cursor'.root > Len(RootList)
    <2>1. cursor'.root = cursor.root
      BY <1>2 DEF Quiet, ScanStart, NextObject, NextSpace, Rescan, Cursor
    <2>2. RootsDone /\ cursor.root > Len(RootList)
      BY <1>1 DEF Progress, Quiet, ScanStart, NextObject, NextSpace, Rescan, Scanning
    <2> QED
      BY <1>1, <2>1, <2>2 DEF RootsDone, InOld
  <1>6. SUFFICES /\ CursorRight' /\ cursor'.field = 1
                 /\ \A k \in DOMAIN new : ~late /\ Done(k)' =>
                      \A f \in DOMAIN new[k].fields : ~InOld(new[k].fields[f])
    <2>1. SUFFICES ASSUME CursorRight', cursor'.field = 1,
                          \A k \in DOMAIN new : ~late /\ Done(k)' =>
                            \A f \in DOMAIN new[k].fields : ~InOld(new[k].fields[f])
                   PROVE  Progress'
      OBVIOUS
    <2>2. FieldsDone'
      BY <2>1 DEF FieldsDone
    <2>3. ~late' => ObjectsDone'
      BY <1>1, <2>1 DEF ObjectsDone, InOld
    <2> QED
      BY <1>1, <1>5, <2>1, <2>2, <2>3 DEF Progress
  <1>7. CASE ScanStart
    <2>1. cursor' = [cursor EXCEPT !.scanned = 0, !.front = Len(spaces), !.space = Len(spaces)]
      BY <1>7 DEF ScanStart
    <2>2. /\ cursor'.scanned = 0 /\ cursor'.front = Len(spaces) /\ cursor'.space = Len(spaces)
          /\ cursor'.at = cursor.at /\ cursor'.field = cursor.field
      BY <1>2, <2>1 DEF Cursor
    <2>3. cursor.at = 0 /\ cursor.field = 1
      BY <1>7 DEF ScanStart, Progress
    <2>4. ASSUME NEW k \in DOMAIN new PROVE ~Done(k)'
      BY <1>1, <1>3, <1>4, <2>2, <2>3 DEF Done, Passed
    <2> QED
      BY <1>1, <1>3, <2>2, <2>3, <2>4 DEF CursorRight
  <1>8. CASE pc = "scan"
    <2>1. /\ CursorRight /\ FieldsDone
          /\ ~late => \A k \in DOMAIN new : Done(k) =>
                        \A f \in DOMAIN new[k].fields : ~InOld(new[k].fields[f])
      BY <1>8 DEF Progress, ObjectsDone
    <2>2. CASE NextObject
      <3> DEFINE h == Here
      <3>1. h \in Ahead /\ h \in DOMAIN new /\ \A l \in Ahead : h <= l
        BY <2>2, HereIs DEF NextObject
      <3>2. /\ cursor' = [cursor EXCEPT !.at = h, !.field = 1]
            /\ cursor.field \notin DOMAIN new[h].fields
        BY <2>2 DEF NextObject
      <3>3. \A f \in DOMAIN new[h].fields : ~InOld(new[h].fields[f])
        <4>1. new[h] \in Object
          BY <3>1 DEF TypeOK
        <4>2. cursor.field > 1 => \A f \in DOMAIN new[h].fields :
                                     f < cursor.field => ~InOld(new[h].fields[f])
          BY <2>1 DEF FieldsDone
        <4> HIDE DEF h
        <4>3. new[h].fields \in Seq(Pointers)
          BY <4>1 DEF Object
        <4>4. \A f \in DOMAIN new[h].fields : f < cursor.field /\ f \in Nat \ {0}
          BY <1>2, <3>2, <4>3
        <4> QED
          BY <1>2, <4>2, <4>4
      <3> HIDE DEF h
      <3>4. /\ cursor'.scanned = cursor.scanned /\ cursor'.front = cursor.front
            /\ cursor'.space = cursor.space /\ cursor'.at = h /\ cursor'.field = 1
        BY <1>2, <3>2 DEF Cursor
      <3>5. ASSUME NEW k \in DOMAIN new, Done(k)' PROVE Done(k) \/ k = h
        <4>1. CASE new[k].space = cursor.space /\ k <= h
          <5>1. CASE k <= cursor.at
            BY <4>1, <5>1 DEF Done
          <5>2. CASE k > cursor.at
            <6>1. k \in Ahead
              BY <4>1, <5>2 DEF Ahead
            <6> QED
              BY <1>3, <3>1, <4>1, <6>1
          <5> QED
            BY <1>2, <1>3, <5>1, <5>2
        <4> QED
          BY <1>1, <1>8, <3>4, <3>5, <4>1 DEF Done, Passed
      <3>6. CursorRight'
        BY <1>1, <1>3, <2>1, <3>1, <3>4 DEF CursorRight
      <3> QED
        BY <2>1, <3>3, <3>4, <3>5, <3>6
    <2>3. CASE NextSpace
      <3>1. cursor' = [cursor EXCEPT !.space = @ - 1, !.at = 0] /\ Ahead = {}
        BY <2>3 DEF NextSpace
      <3>2. /\ cursor'.scanned = cursor.scanned /\ cursor'.front = cursor.front
            /\ cursor'.space = cursor.space - 1 /\ cursor'.at = 0
            /\ cursor'.field = cursor.field
        BY <1>2, <3>1 DEF Cursor
      <3>3. cursor.field = 1
        BY <1>2, <2>1, <3>1 DEF FieldsDone
      <3>4. ASSUME NEW k \in DOMAIN new, Done(k)' PROVE Done(k)
        <4>1. CASE new[k].space = cursor.space
          <5>1. k <= cursor.at
            BY <1>2, <1>3, <3>1, <4>1 DEF Ahead
          <5> QED
            BY <4>1, <5>1 DEF Done
        <4>2. CASE new[k].space # cursor.space
          BY <1>1, <1>2, <1>3, <1>4, <1>8, <3>2, <3>4, <4>2 DEF Done, Passed
        <4> QED
          BY <4>1, <4>2
      <3>5. CursorRight'
        BY <1>1, <1>2, <1>3, <2>1, <2>3, <3>2 DEF CursorRight, NextSpace, Scanning
      <3> QED
        BY <2>1, <3>2, <3>3, <3>4, <3>5
    <2>4. CASE Rescan
      <3>1. /\ cursor' = [cursor EXCEPT !.scanned = cursor.front, !.front = Len(spaces),
                                        !.space = Len(spaces), !.at = 0]
            /\ cursor.space = cursor.scanned /\ Len(spaces) # cursor.front
        BY <2>4 DEF Rescan, Grew
      <3>2. /\ cursor'.scanned = cursor.front /\ cursor'.front = Len(spaces)
            /\ cursor'.space = Len(spaces) /\ cursor'.at = 0
            /\ cursor'.field = cursor.field
        BY <1>2, <3>1 DEF Cursor
      <3>3. cursor.field = 1
        BY <1>2, <2>1, <3>1 DEF FieldsDone, Scanning
      <3>4. ASSUME NEW k \in DOMAIN new, Done(k)' PROVE Done(k)
        BY <1>1, <1>2, <1>3, <1>4, <1>8, <3>1, <3>2, <3>4 DEF Done, Passed
      <3>5. CursorRight'
        BY <1>1, <1>2, <1>3, <2>1, <3>1, <3>2 DEF CursorRight
      <3> QED
        BY <2>1, <3>2, <3>3, <3>4, <3>5
    <2> QED
      BY <1>8, <2>2, <2>3, <2>4 DEF Quiet, ScanStart
  <1> QED
    BY <1>1, <1>7, <1>8 DEF Quiet, ScanStart, NextObject, NextSpace, Rescan, Scanning

\* When the scan is over nothing in new refers to old, unless it came late ...
LEMMA ScannedAll ==
  ASSUME TypeOK, Accounts, Progress, ScanOver, ~late
  PROVE  ~Dangling
  <1>1. ObjectsDone /\ pc = "scan" /\ cursor.space = cursor.scanned /\ Len(spaces) = cursor.front
    BY DEF Progress, ScanOver, Grew
  <1>2. cursor.scanned \in Nat /\ Len(spaces) \in Nat
    BY DEF TypeOK, Cursor
  <1>3. ASSUME NEW k \in DOMAIN new PROVE Done(k)
    <2>1. new[k].space \in 1 .. Len(spaces)
      BY DEF Accounts
    <2> QED
      BY <1>1, <1>2, <2>1 DEF Done, Passed
  <1> QED
    BY <1>1, <1>3 DEF ObjectsDone, Dangling

\* ... and the new half is what the old one was.
LEMMA ScannedSettled ==
  ASSUME TypeOK, Moving, Progress, ScanOver, ~Dangling
  PROVE  Settled
  <1>1. half \in {0, 1} /\ root \in [Vars -> Pointers]
    BY DEF TypeOK
  <1>2. ASSUME NEW p \in Anywhere, ~InOld(p) PROVE p \in Refs(half, DOMAIN new)
    <2>1. CASE p = NULL
      BY <2>1 DEF Refs
    <2>2. CASE p # NULL
      <3>1. p[1] = half
        BY <1>2, <2>2 DEF InOld
      <3>2. p \notin {1 - half} \X Alive(old)
        BY <1>1, <3>1
      <3> QED
        BY <2>2, <3>2 DEF Anywhere, Refs
    <2> QED
      BY <2>1, <2>2
  <1>3. Alive(new) = DOMAIN new
    <2>1. ASSUME NEW j \in DOMAIN new PROVE new[j].id # NULL
      <3>1. From(j) \in Alive(old) /\ new[j].id = old[From(j)].id
        BY FromIsOrigin DEF CopyOf
      <3> QED
        BY <3>1 DEF Alive
    <2> QED
      BY <2>1 DEF Alive
  <1>4. ASSUME NEW j \in DOMAIN new, NEW k \in DOMAIN new, new[j].id = new[k].id
        PROVE  j = k
    <2>1. /\ From(j) \in Alive(old) /\ From(k) \in Alive(old)
          /\ old[From(j)].id = old[From(k)].id
          /\ old[From(j)].to = <<half, j>> /\ old[From(k)].to = <<half, k>>
      BY <1>4, FromIsOrigin DEF CopyOf
    <2>2. From(j) = From(k)
      BY <2>1 DEF Moving, GraphSound
    <2> QED
      BY <2>1, <2>2
  <1>5. ASSUME NEW k \in DOMAIN new PROVE Range(new[k].fields) \subseteq Refs(half, DOMAIN new)
    <2>1. \A f \in DOMAIN new[k].fields : new[k].fields[f] \in Refs(half, DOMAIN new)
      BY <1>2, NewFields DEF Dangling
    <2> QED
      BY <2>1 DEF Range
  <1>6. ASSUME NEW v \in Vars PROVE root[v] \in Refs(half, DOMAIN new)
    <2>1. PICK i \in DOMAIN RootList : RootList[i] = v
      BY CollectorAssumption DEF Range
    <2>2. cursor.root \in Nat \ {0} /\ cursor.root > Len(RootList) /\ RootsDone
      BY DEF TypeOK, Cursor, Progress, ScanOver
    <2>3. i \in 1 .. cursor.root - 1
      BY <2>1, <2>2, CollectorAssumption
    <2>4. ~InOld(root[v])
      BY <2>1, <2>2, <2>3 DEF RootsDone
    <2> QED
      BY <1>2, <2>4, OldClosed
  <1>7. Range(root) \subseteq Refs(half, DOMAIN new)
    BY <1>1, <1>6 DEF Range
  <1>8. \A k \in DOMAIN new : ~Forwarded(new[k])
    BY FromIsOrigin DEF CopyOf
  <1> QED
    BY <1>3, <1>4, <1>5, <1>7, <1>8 DEF Settled, GraphSound

(***************************************************************************)
(* A collection starts, and ends                                           *)
(***************************************************************************)

LEMMA SettledClosed ==
  ASSUME TypeOK, Settled
  PROVE  /\ Closed(root, half, new) /\ Seen = SeenFrom(root, half, new)
         /\ Reach \subseteq {half} \X Alive(new)
  <1>1. Closed(root, half, new)
    <2>1. Refs(half, Alive(new)) \subseteq Refs(half, DOMAIN new)
      BY DEF Refs, Alive
    <2> QED
      BY <2>1 DEF Settled, GraphSound, Closed
  <1>2. Seen = SeenFrom(root, half, new)
    BY <1>1, ClosedSeen DEF Settled
  <1>3. Reach = ReachFrom(Range(root), Links(half, new))
    BY <1>1, ClosedReach DEF TypeOK
  <1>4. ReachFrom(Range(root), Links(half, new)) \subseteq {half} \X Alive(new)
    <2>1. Range(root) \ {NULL} \subseteq {half} \X Alive(new)
      BY DEF Settled, Refs
    <2>2. ASSUME NEW a \in ({half} \X Alive(new)) \cap DOMAIN Links(half, new)
          PROVE  Links(half, new)[a] \subseteq {half} \X Alive(new)
      BY DEF Settled, GraphSound, Refs, Links
    <2> QED
      BY <2>1, <2>2, ReachLeast
  <1> QED
    BY <1>1, <1>2, <1>3, <1>4

\* gc, entry: what was new is old, and nothing has been moved.
LEMMA StartMoves ==
  ASSUME TypeOK, TypeOK', Settled,
         half' = 1 - half, old' = new, new' = <<>>, root' = root
  PROVE  Moving' /\ Seen' = Seen
  <1>1. half \in {0, 1} /\ 1 - half' = half /\ DOMAIN new' = {}
    BY DEF TypeOK
  <1>2. Moving'
    <2>1. GraphSound(1 - half', old')
      BY <1>1 DEF Settled
    <2>2. \A i \in DOMAIN old' : ~Forwarded(old'[i])
      BY DEF Settled
    <2>3. Range(root') \subseteq Refs(1 - half', Alive(old'))
      BY <1>1 DEF Settled
    <2> QED
      BY <1>1, <2>1, <2>2, <2>3 DEF Moving
  <1>3. OrgRoot' = root
    <2>1. \A v \in Vars : Org(root[v])' = root[v]
      BY <1>1 DEF Org
    <2> QED
      BY <2>1 DEF OrgRoot, TypeOK
  <1>4. Seen' = SeenFrom(OrgRoot', 1 - half', old')
    BY <1>2, MovingSeenNext
  <1> QED
    BY <1>1, <1>2, <1>3, <1>4, SettledClosed

LEMMA EmptyAccounts ==
  ASSUME TypeOK', minspace' \in Nat, spaces' = <<Newspace(minspace')>>, new' = <<>>
  PROVE  Accounts'
  <1> DEFINE m == minspace'
             ss == <<Newspace(m)>>
  <1>1. Newspace(m) \in Space /\ Newspace(m).used = 0 /\ 0 <= Newspace(m).size
    BY NeedIsNumber DEF Newspace, Space
  <1>2. SpacesOK(ss)
    BY <1>1 DEF SpacesOK
  <1>3. UsedOf(ss) = 0
    <2>1. [k \in DOMAIN ss |-> ss[k].used] = Append(<<>>, 0)
      BY <1>1
    <2> QED
      BY <2>1, TotalNothing DEF UsedOf
  <1>4. NeedsOf(<<>>) = 0
    <2>1. [k \in DOMAIN <<>> |-> Need(<<>>[k].nbytes)] = <<>>
      OBVIOUS
    <2> QED
      BY <2>1, TotalEmpty DEF NeedsOf
  <1> HIDE DEF m
  <1>5. spaces' = ss
    BY DEF m
  <1> HIDE DEF ss
  <1> QED
    BY <1>2, <1>3, <1>4, <1>5, AccountsAreNext

\* A collection that starts with everything settled.
LEMMA StartKeeps ==
  ASSUME TypeOK, Settled, NEW after \in {"run", "alloc"}, Start(after, 0),
         minspace' \in Nat, req' = req, ops' \in 0 .. MaxOps,
         after = "alloc" => req.var \in Vars /\ Spare
  PROVE  CInv' /\ Seen' = Seen
  <1>1. /\ gcblocked' = 1 /\ half' = 1 - half /\ old' = new /\ new' = <<>> /\ root' = root
        /\ spaces' = <<Newspace(minspace')>> /\ cursor' = [NoCursor EXCEPT !.after = after]
        /\ late' = FALSE /\ pc' = "roots"
    BY DEF Start
  <1>2. cursor' \in Cursor /\ cursor'.root = 1 /\ cursor'.at = 0 /\ cursor'.field = 1
          /\ cursor'.after = after
    BY <1>1 DEF NoCursor, Cursor
  <1>3. TypeOK'
    <2>1. half' \in {0, 1} /\ gcblocked' \in 0 .. MaxBlocked + 1
      BY <1>1, CollectorAssumption DEF TypeOK
    <2>2. spaces' \in Seq(Space)
      <3>1. PICK m : m = minspace'
        OBVIOUS
      <3>2. Newspace(m) \in Space
        BY <3>1, NeedIsNumber DEF Newspace, Space
      <3>3. spaces' = <<Newspace(m)>>
        BY <1>1, <3>1
      <3> HIDE DEF Newspace
      <3> QED
        BY <3>2, <3>3
    <2>3. new' \in Seq(Object)
      BY <1>1
    <2> QED
      BY <1>1, <1>2, <2>1, <2>2, <2>3 DEF TypeOK
  <1>4. Moving' /\ Seen' = Seen
    BY <1>1, <1>3, StartMoves
  <1>5. Accounts'
    BY <1>1, <1>3, EmptyAccounts
  <1>6. Control'
    <2>1. after = "alloc" => Spare'
      BY <1>4 DEF Spare
    <2> QED
      BY <1>1, <1>2, <2>1 DEF Control
  <1>7. Progress'
    <2>1. RootsDone'
      BY <1>2 DEF RootsDone
    <2> QED
      BY <1>1, <1>2, <2>1 DEF Progress
  <1> QED
    BY <1>1, <1>3, <1>4, <1>5, <1>6, <1>7 DEF CInv

(***************************************************************************)
(* Every step of gc keeps the invariant and what the program sees          *)
(***************************************************************************)

LEMMA ScanStep ==
  ASSUME CInv, ScanRoot \/ ScanField
  PROVE  CInv' /\ Seen' = Seen
  <1>1. TypeOK /\ Accounts /\ Control /\ Moving /\ Progress
    BY DEF CInv, ScanRoot, ScanField, Scanning
  <1>2. TypeOK' /\ \E p \in Anywhere : Forward(p) /\ Advanced(p)
    BY <1>1, RootAdvances, FieldAdvances
  <1>3. Moving' /\ Accounts' /\ Seen' = Seen
    BY <1>1, <1>2, MovingKept, AccountsKept, SeenKept
  <1>4. Progress'
    BY <1>1, RootProgress, FieldProgress
  <1>5. /\ pc' = pc /\ pc \in {"roots", "scan"} /\ gcblocked' = gcblocked /\ req' = req
        /\ cursor'.after = cursor.after
    BY <1>1 DEF ScanRoot, ScanField, Scanning, TypeOK, Cursor
  <1>6. Control'
    BY <1>1, <1>3, <1>5 DEF Control, Spare
  <1> QED
    BY <1>2, <1>3, <1>4, <1>5, <1>6 DEF CInv

\* What the program sees depends on the roots and the halves only.
LEMMA SeenSame ==
  ASSUME UNCHANGED <<root, new, old, half>>
  PROVE  /\ Seen' = Seen /\ Reach' = Reach
         /\ (Moving => Moving') /\ (Rest => Rest')
  <1>1. Reach' = Reach /\ \A a : Obj(a)' = Obj(a) /\ Now(a)' = Now(a) /\ Exists(a)' = Exists(a)
    BY DEF Reach, ReachFrom, Graph, Obj, Half, Now, Exists
  <1>2. Seen' = Seen
    BY DEF Seen, NowReach, IdOf, Reach, ReachFrom, Graph, Obj, Half, Now, Exists
  <1>3. Moving => Moving'
    <2>1. SUFFICES ASSUME Moving PROVE Moving'
      OBVIOUS
    <2>2. ASSUME NEW i \in DOMAIN old, NEW j \in DOMAIN new, CopyOf(new[j], old[i])
          PROVE  CopyOf(new[j], old[i])'
      <3>1. \A q : Now(q)' = Now(q)
        BY <1>1
      <3> QED
        BY <2>2, <3>1 DEF CopyOf, Forwarded
    <2>3. \A i \in DOMAIN old, j \in DOMAIN new :
            old[i].to = <<half, j>> => CopyOf(new[j], old[i])'
      BY <2>1, <2>2 DEF Moving
    <2>4. GraphSound(1 - half', old')
      BY <2>1 DEF Moving
    <2> QED
      BY <2>1, <2>3, <2>4 DEF Moving, Alive, Refs
  <1>4. Rest => Rest'
    BY DEF Rest, Settled, GraphSound, Alive, Refs
  <1> QED
    BY <1>1, <1>2, <1>3, <1>4

LEMMA QuietStep ==
  ASSUME CInv, Quiet
  PROVE  CInv' /\ Seen' = Seen
  <1>1. TypeOK /\ Accounts /\ Control /\ Moving /\ Progress /\ pc \in {"roots", "scan"}
    BY DEF CInv, Quiet, ScanStart, NextObject, NextSpace, Rescan, Scanning
  <1>2. /\ TypeOK' /\ UNCHANGED <<root, heap, minspace, gcblocked, req, late, ops>>
        /\ pc' = "scan" /\ Progress'
    BY <1>1, QuietTypes, QuietProgress
  <1>3. Seen' = Seen /\ Moving'
    BY <1>1, <1>2, SeenSame DEF heap
  <1>4. Accounts'
    BY <1>1, <1>2 DEF Accounts, heap, Livedata
  <1>5. cursor'.after = cursor.after
    BY <1>1 DEF Quiet, ScanStart, NextObject, NextSpace, Rescan, TypeOK, Cursor
  <1>6. Control'
    BY <1>1, <1>2, <1>3, <1>5 DEF Control, Spare
  <1> QED
    BY <1>2, <1>3, <1>4, <1>6 DEF CInv

LEMMA RefusedStep ==
  ASSUME CInv, CopyRefused
  PROVE  CInv' /\ Seen' = Seen
  <1>1. UNCHANGED <<root, heap, minspace, gcblocked, req, cursor, late, ops>> /\ pc' = "exited"
    BY DEF CopyRefused
  <1>2. TypeOK' /\ Accounts' /\ Seen' = Seen
    BY <1>1, SeenSame DEF CInv, TypeOK, Accounts, heap, Livedata
  <1> QED
    BY <1>1, <1>2 DEF CInv, Control, Progress

LEMMA FinishStep ==
  ASSUME CInv, Finish
  PROVE  CInv' /\ Seen' = Seen
  <1>1. TypeOK /\ Accounts /\ Control /\ Moving /\ Progress /\ ScanOver /\ ~Dangling
    BY DEF CInv, Finish, ScanOver
  <1>2. Settled
    BY <1>1, ScannedSettled
  <1>3. /\ gcblocked = 1 /\ req' = req /\ ops' = ops /\ ops \in 0 .. MaxOps
        /\ cursor.after \in {"run", "alloc"}
        /\ cursor.after = "alloc" => req.var \in Vars /\ Spare
    BY <1>1 DEF ScanOver, Control, Finish, TypeOK, Cursor
  <1>4. minspace' \in Nat
    <2>1. Livedata \in Nat /\ minspace \in Nat
      BY <1>1, UsedIsNumber DEF TypeOK, Livedata, UsedOf
    <2>2. minspace' = Adapted(minspace, Livedata)
      BY DEF Finish
    <2>3. ASSUME NEW m \in Nat, NEW d \in Nat PROVE Adapted(m, d) \in Nat
      BY <2>3 DEF Adapted
    <2> HIDE DEF Livedata
    <2> QED
      BY <2>1, <2>2, <2>3
  <1>5. CASE Len(spaces) > 1
    <2>1. Start(cursor.after, 0)
      <3>1. gcblocked - 1 = 0
        BY <1>3
      <3> QED
        BY <1>5, <3>1 DEF Finish
    <2> QED
      BY <1>1, <1>2, <1>3, <1>4, <2>1, StartKeeps
  <1>6. CASE ~(Len(spaces) > 1)
    <2>1. /\ old' = <<>> /\ gcblocked' = 0 /\ pc' = cursor.after /\ cursor' = NoCursor
          /\ UNCHANGED <<root, new, half, spaces, late>>
      BY <1>3, <1>6 DEF Finish
    <2>2. cursor' \in Cursor /\ cursor'.field = 1
      BY <2>1 DEF NoCursor, Cursor
    <2>3. TypeOK'
      <3>1. gcblocked' \in 0 .. MaxBlocked + 1 /\ old' \in Seq(Object)
        BY <2>1, CollectorAssumption
      <3> QED
        BY <1>1, <1>3, <1>4, <2>1, <2>2, <3>1 DEF TypeOK
    <2>4. Rest'
      BY <1>2, <2>1 DEF Rest, Settled
    <2>5. Seen' = Seen
      <3>1. Closed(root, half, new) /\ Seen = SeenFrom(root, half, new)
        BY <1>1, <1>2, SettledClosed
      <3>2. Closed(root', half', new')
        BY <2>1, <3>1
      <3>3. \A k \in DOMAIN new' : ~Forwarded(new'[k])
        BY <1>2, <2>1 DEF Settled
      <3>4. Seen' = SeenFrom(root', half', new')
        BY <2>3, <3>2, <3>3, ClosedSeenNext
      <3> QED
        BY <2>1, <3>1, <3>4
    <2>6. Accounts'
      BY <1>1, <2>1 DEF Accounts, Livedata
    <2>7. Len(spaces) = 1
      <3>1. Len(spaces) \in Nat \ {0}
        BY <1>1 DEF Accounts, TypeOK
      <3> QED
        BY <1>6, <3>1
    <2>8. Control'
      <3>1. Spare => Spare'
        BY <2>5 DEF Spare
      <3> QED
        BY <1>3, <2>1, <2>7, <3>1 DEF Control
    <2>9. pc' \in {"run", "alloc"}
      BY <1>3, <2>1
    <2> QED
      BY <2>3, <2>4, <2>5, <2>6, <2>8, <2>9 DEF CInv, Progress
  <1> QED
    BY <1>5, <1>6

LEMMA TearStep ==
  ASSUME CInv, Tear
  PROVE  CInv' /\ late
  <1>1. /\ old' = <<>> /\ pc' = "torn"
        /\ UNCHANGED <<root, new, half, spaces, minspace, gcblocked, req, cursor, late, ops>>
    BY DEF Tear
  <1>2. TypeOK'
    <2>1. old' \in Seq(Object)
      BY <1>1
    <2> QED
      BY <1>1, <2>1 DEF CInv, TypeOK
  <1>3. Accounts'
    BY <1>1 DEF CInv, Accounts, Livedata
  <1>4. late
    BY ScannedAll DEF CInv, Tear
  <1> QED
    BY <1>1, <1>2, <1>3, <1>4 DEF CInv, Control, Progress

\* gcalloc without room
LEMMA ExtendStep ==
  ASSUME CInv, AllocExtend
  PROVE  CInv' /\ Seen' = Seen
  <1>1. TypeOK /\ Accounts /\ Control /\ Rest /\ pc = "alloc" /\ gcblocked > 0
    BY DEF CInv, AllocExtend
  <1>2. /\ minspace' = Raised(req.nbytes)
        /\ UNCHANGED <<root, new, old, half, gcblocked, req, cursor, late, ops>>
    BY DEF AllocExtend
  <1>3. minspace' \in Nat
    BY <1>1, <1>2, CollectorAssumption DEF Raised, TypeOK, Request
  <1>4. Seen' = Seen /\ Rest'
    BY <1>1, <1>2, SeenSame
  <1>5. /\ SpacesOK(spaces) /\ UsedOf(spaces) = NeedsOf(new)
        /\ \A k \in DOMAIN new : new[k].space \in 1 .. Len(spaces)
    BY <1>1, AccountsAre
  <1>6. CASE Len(spaces) < MaxSpaces
    <2>1. spaces' = Append(spaces, Newspace(minspace')) /\ pc' = pc
      BY <1>6 DEF AllocExtend
    <2>2. PICK m \in Nat : m = minspace'
      BY <1>3
    <2>3. spaces' = Append(spaces, Newspace(m))
      BY <2>1, <2>2
    <2>4. SpacesOK(spaces') /\ UsedOf(spaces') = UsedOf(spaces) /\ Len(spaces') = Len(spaces) + 1
      BY <1>5, <2>3, SpaceAdded
    <2>5. TypeOK'
      BY <1>1, <1>2, <1>3, <2>1, <2>4 DEF TypeOK, SpacesOK
    <2>6. Len(spaces) \in Nat
      BY <1>1 DEF TypeOK
    <2>7. Accounts'
      BY <1>2, <1>5, <2>4, <2>5, <2>6, AccountsAreNext
    <2>8. Control'
      BY <1>1, <1>2, <1>4, <2>1 DEF Control, Spare, TypeOK
    <2> QED
      BY <1>1, <1>4, <2>1, <2>5, <2>7, <2>8 DEF CInv, Progress
  <1>7. CASE ~(Len(spaces) < MaxSpaces)
    <2>1. pc' = "exited" /\ spaces' = spaces
      BY <1>7 DEF AllocExtend
    <2>2. TypeOK' /\ Accounts'
      BY <1>1, <1>2, <1>3, <2>1 DEF TypeOK, Accounts, Livedata
    <2> QED
      BY <1>4, <2>1, <2>2 DEF CInv, Control, Progress
  <1> QED
    BY <1>6, <1>7

LEMMA CollectStep ==
  ASSUME CInv, AllocCollect
  PROVE  CInv' /\ Seen' = Seen
  <1>1. TypeOK /\ Control /\ Settled /\ pc = "alloc"
    BY DEF CInv, AllocCollect, Rest
  <1>2. Start("alloc", 0) /\ minspace' = Raised(req.nbytes) /\ req' = req /\ ops' \in 0 .. MaxOps
    BY <1>1 DEF AllocCollect, TypeOK
  <1>3. minspace' \in Nat
    BY <1>1, <1>2, CollectorAssumption DEF Raised, TypeOK, Request
  <1> QED
    BY <1>1, <1>2, <1>3, StartKeeps DEF Control

(***************************************************************************)
(* The steps of the program                                                *)
(***************************************************************************)

\* At rest an address that can be reached means itself.
LEMMA RestReach ==
  ASSUME TypeOK, Rest
  PROVE  /\ Reach \subseteq {half} \X Alive(new)
         /\ \A k \in DOMAIN new : <<half, k>> # NULL /\ Obj(<<half, k>>) = new[k]
         /\ \A k \in DOMAIN new : <<half, k>> \in Reach => <<half, k>> \in NowReach
  <1>1. Reach \subseteq {half} \X Alive(new)
    BY SettledClosed DEF Rest
  <1>2. half \in {0, 1} /\ DOMAIN new \subseteq Nat
    BY DEF TypeOK
  <1>3. ASSUME NEW k \in DOMAIN new
        PROVE  LET a == <<half, k>>
               IN a # NULL /\ Exists(a) /\ Obj(a) = new[k] /\ Now(a) = a
    <2>1. <<half, k>> # NULL
      BY <1>2, CollectorAssumption
    <2>2. ~Forwarded(new[k])
      BY DEF Rest, Settled
    <2> QED
      BY <2>1, <2>2 DEF Exists, Obj, Half, Now
  <1> QED
    BY <1>1, <1>3 DEF NowReach

LEMMA SpareIsUnused ==
  ASSUME TypeOK, Rest
  PROVE  Spare <=> Unused # {}
  <1> DEFINE rec(a) == [id |-> Obj(a).id, nbytes |-> Obj(a).nbytes,
                        fields |-> [k \in DOMAIN Obj(a).fields |-> IdOf(Obj(a).fields[k])]]
  <1>1. Seen.objects = {rec(a) : a \in NowReach}
    BY DEF Seen
  <1>2. \A a : rec(a).id = Obj(a).id
    OBVIOUS
  <1> HIDE DEF rec
  <1>3. NowReach = Reach
    <2>1. \A a \in Reach : a \in NowReach
      BY RestReach DEF Alive
    <2>2. ASSUME NEW a \in NowReach PROVE a \in Reach
      <3>1. PICK b \in Reach : Exists(b) /\ a = Now(b)
        BY DEF NowReach
      <3>2. PICK k \in DOMAIN new : b = <<half, k>>
        BY RestReach DEF Alive
      <3>3. Obj(b) = new[k] /\ ~Forwarded(new[k])
        BY <3>2, RestReach DEF Rest, Settled
      <3> QED
        BY <3>1, <3>3 DEF Now
    <2> QED
      BY <2>1, <2>2
  <1>4. {o.id : o \in Seen.objects} = {Obj(a).id : a \in Reach}
    BY <1>1, <1>2, <1>3
  <1>5. Spare => Unused # {}
    BY <1>4 DEF Spare, Unused
  <1>6. Unused # {} => Spare
    BY <1>4 DEF Spare, Unused
  <1> QED
    BY <1>5, <1>6

\* What the program leaves is sound if what it keeps is among the objects K, and these
\* refer to each other only.
LEMMA BecomesRests ==
  ASSUME NEW r \in [Vars -> Pointers], NEW n \in Seq(Object), NEW K \in SUBSET DOMAIN n,
         half \in {0, 1}, old = <<>>, Becomes(r, n),
         Range(r) \subseteq Refs(half, K),
         \A k \in K : Range(n[k].fields) \subseteq Refs(half, K) /\ n[k].id # NULL,
         \A j, k \in K : n[j].id = n[k].id => j = k,
         \A k \in DOMAIN n : ~Forwarded(n[k])
  PROVE  /\ Rest' /\ root' \in [Vars -> Pointers] /\ new' \in Seq(Object)
         /\ DOMAIN new' = DOMAIN n
         /\ \A k \in DOMAIN n : new'[k].nbytes = n[k].nbytes /\ new'[k].space = n[k].space
  <1> DEFINE g == Graph(n, <<>>)
             kept == ReachFrom(Range(r), g)
  <1>1. /\ root' = r /\ old' = <<>> /\ half' = half
        /\ new' = [k \in DOMAIN n |->
              IF <<half, k>> \in kept THEN n[k] ELSE [n[k] EXCEPT !.id = NULL, !.fields = <<>>]]
    BY DEF Becomes
  <1>2. /\ DOMAIN g = {half} \X DOMAIN n
        /\ \A k \in DOMAIN n : g[<<half, k>>] = Range(n[k].fields) \ {NULL}
    BY DEF Graph
  <1> HIDE DEF g
  <1>3. kept \subseteq {half} \X K
    <2>1. Range(r) \ {NULL} \subseteq {half} \X K
      BY DEF Refs
    <2>2. ASSUME NEW a \in ({half} \X K) \cap DOMAIN g PROVE g[a] \subseteq {half} \X K
      BY <1>2 DEF Refs
    <2> QED
      BY <2>1, <2>2, ReachLeast
  <1>4. /\ \A a \in Range(r) : a # NULL => a \in kept
        /\ \A a \in kept : a \in DOMAIN g => g[a] \subseteq kept
    BY ReachHolds
  <1> HIDE DEF kept
  <1> DEFINE L == {k \in DOMAIN n : <<half, k>> \in kept}
  <1>5. \A k \in DOMAIN n : n[k] \in Object
    OBVIOUS
  <1>6. ASSUME NEW k \in DOMAIN n
        PROVE  /\ new'[k] \in Object /\ ~Forwarded(new'[k])
               /\ new'[k].nbytes = n[k].nbytes /\ new'[k].space = n[k].space
               /\ k \in L => new'[k] = n[k]
               /\ k \notin L => new'[k].id = NULL /\ new'[k].fields = <<>>
    <2>1. n[k] \in Object /\ ~Forwarded(n[k])
      BY <1>5
    <2>2. CASE k \in L
      BY <1>1, <2>1, <2>2
    <2>3. CASE k \notin L
      <3>1. PICK o \in Object : o = n[k] /\ ~Forwarded(o)
        BY <2>1
      <3>2. new'[k] = [o EXCEPT !.id = NULL, !.fields = <<>>]
        BY <1>1, <2>3, <3>1
      <3>3. <<>> \in Seq(Pointers) /\ NULL \in Ids \cup {NULL}
        OBVIOUS
      <3>4. new'[k] \in Object /\ new'[k].nbytes = o.nbytes /\ new'[k].space = o.space
              /\ new'[k].to = o.to /\ new'[k].id = NULL /\ new'[k].fields = <<>>
        BY <3>2, <3>3 DEF Object
      <3> QED
        BY <2>3, <3>1, <3>4 DEF Forwarded
    <2> QED
      BY <2>2, <2>3
  <1>7. new' \in Seq(Object) /\ DOMAIN new' = DOMAIN n
    <2>1. DOMAIN n = 1 .. Len(n) /\ Len(n) \in Nat
      OBVIOUS
    <2>2. PICK t : t = new'
      OBVIOUS
    <2>3. DOMAIN t = 1 .. Len(n) /\ t = [k \in 1 .. Len(n) |-> t[k]]
      BY <1>1, <2>1, <2>2
    <2>4. \A k \in 1 .. Len(n) : t[k] \in Object
      BY <1>6, <2>1, <2>2
    <2>5. t \in Seq(Object)
      BY ONLY <2>1, <2>3, <2>4, IsASeq
    <2> QED
      BY <2>1, <2>2, <2>3, <2>5
  <1>8. L \subseteq K
    BY <1>3
  <1>9. Alive(new') = L
    <2>1. \A k \in L : new'[k].id # NULL
      BY <1>6, <1>8
    <2>2. \A k \in DOMAIN n : k \notin L => new'[k].id = NULL
      BY <1>6
    <2> HIDE DEF L
    <2>3. L \subseteq DOMAIN n
      BY DEF L
    <2> QED
      BY <1>7, <2>1, <2>2, <2>3 DEF Alive
  <1>10. kept = {half} \X L
    BY <1>3
  <1>11. Range(r) \subseteq Refs(half, L)
    BY <1>4, <1>10 DEF Refs
  <1>12. ASSUME NEW k \in DOMAIN n PROVE Range(new'[k].fields) \subseteq Refs(half, L)
    <2>1. CASE k \in L
      <3>1. Range(n[k].fields) \ {NULL} \subseteq kept
        BY <1>2, <1>4, <2>1
      <3>2. new'[k] = n[k]
        BY <1>6, <2>1
      <3> HIDE DEF L
      <3> QED
        BY <1>10, <3>1, <3>2 DEF Refs
    <2>2. CASE k \notin L
      <3>1. new'[k].fields = <<>>
        BY <1>6, <2>2
      <3> QED
        BY <3>1 DEF Range
    <2> QED
      BY <2>1, <2>2
  <1>13. \A j, k \in L : new'[j].id = new'[k].id => j = k
    BY <1>6, <1>8
  <1> HIDE DEF L
  <1>14. GraphSound(half', new')
    BY <1>1, <1>7, <1>9, <1>12, <1>13 DEF GraphSound
  <1>15. \A k \in DOMAIN new' : ~Forwarded(new'[k])
    BY <1>6, <1>7
  <1>16. Rest'
    BY <1>1, <1>9, <1>11, <1>14, <1>15 DEF Rest, Settled
  <1> QED
    BY <1>1, <1>6, <1>7, <1>16

\* The objects that can be reached refer to each other only.
ReachIdx == {k \in DOMAIN new : <<half, k>> \in Reach}

LEMMA ReachIdxSound ==
  ASSUME TypeOK, Rest
  PROVE  /\ Range(root) \subseteq Refs(half, ReachIdx)
         /\ \A k \in ReachIdx :
              Range(new[k].fields) \subseteq Refs(half, ReachIdx) /\ new[k].id # NULL
         /\ \A j, k \in ReachIdx : new[j].id = new[k].id => j = k
         /\ ReachIdx \subseteq Alive(new)
  <1>1. Reach \subseteq {half} \X Alive(new)
    BY RestReach
  <1>2. Reach = {half} \X ReachIdx
    BY <1>1 DEF ReachIdx, Alive
  <1>3. ReachIdx \subseteq Alive(new)
    BY <1>1 DEF ReachIdx
  <1>4. Range(root) \ {NULL} \subseteq Reach
    BY ReachHolds DEF Reach
  <1>5. ASSUME NEW k \in ReachIdx PROVE Range(new[k].fields) \ {NULL} \subseteq Reach
    <2>1. <<half, k>> \in DOMAIN Graph(new, old)
      BY DEF Graph, ReachIdx
    <2>2. Graph(new, old)[<<half, k>>] = Range(new[k].fields) \ {NULL}
      BY <2>1 DEF Graph
    <2>3. <<half, k>> \in Reach
      BY DEF ReachIdx
    <2>4. \A a \in Reach : a \in DOMAIN Graph(new, old) => Graph(new, old)[a] \subseteq Reach
      BY ReachHolds DEF Reach
    <2> QED
      BY <2>1, <2>2, <2>3, <2>4
  <1>6. \A k \in ReachIdx : Range(new[k].fields) \subseteq Refs(half, ReachIdx)
    BY <1>2, <1>5 DEF Refs
  <1>7. \A k \in ReachIdx : new[k].id # NULL
    BY <1>3 DEF Alive
  <1>8. \A j, k \in ReachIdx : new[j].id = new[k].id => j = k
    BY <1>3 DEF Rest, Settled, GraphSound
  <1> QED
    BY <1>2, <1>3, <1>4, <1>6, <1>7, <1>8 DEF Refs

LEMMA PlaceStep ==
  ASSUME TypeOK, Accounts, Control, Rest, NEW rq \in Request, rq.var \in Vars, Unused # {},
         Fits(spaces, rq.nbytes), Place(rq), pc \in {"run", "alloc"}, ops' \in 0 .. MaxOps
  PROVE  CInv'
  <1> DEFINE N == Len(new) + 1
             o == [id |-> CHOOSE id \in Unused : TRUE, nbytes |-> rq.nbytes,
                   space |-> Len(spaces), to |-> NULL,
                   fields |-> [k \in DOMAIN rq.fields |->
                      IF rq.fields[k] = NULL THEN NULL ELSE root[rq.fields[k]]]]
             r == [root EXCEPT ![rq.var] = <<half, N>>]
             n == Append(new, o)
             K == ReachIdx \cup {N}
  <1>1. /\ Becomes(r, n) /\ spaces' = Charged(spaces, rq.nbytes) /\ pc' = "run" /\ req' = NoReq
    BY DEF Place
  <1>2. /\ root \in [Vars -> Pointers] /\ new \in Seq(Object) /\ half \in {0, 1}
        /\ rq.nbytes \in Nat /\ rq.fields \in Seq(Vars \cup {NULL}) /\ spaces \in Seq(Space)
        /\ Len(spaces) \in Nat /\ N \in Nat
    BY DEF TypeOK, Request
  <1>3. PICK i \in Ids : i = (CHOOSE id \in Unused : TRUE) /\ i \in Unused /\ i # NULL
    BY CollectorAssumption DEF Unused
  <1>4. /\ o \in Object /\ o.id = i /\ o.nbytes = rq.nbytes /\ o.space = Len(spaces)
        /\ ~Forwarded(o)
    <2>1. o.fields \in Seq(Pointers)
      <3>1. \A k \in DOMAIN rq.fields :
              (IF rq.fields[k] = NULL THEN NULL ELSE root[rq.fields[k]]) \in Pointers
        BY <1>2 DEF Pointers
      <3> QED
        BY <1>2, <3>1
    <2>2. PICK fs \in Seq(Pointers) : fs = o.fields
      BY <2>1
    <2>3. o = [id |-> i, nbytes |-> rq.nbytes, space |-> Len(spaces), to |-> NULL, fields |-> fs]
      BY <1>3, <2>2
    <2> HIDE DEF o
    <2>4. NULL \in Pointers
      BY DEF Pointers
    <2> QED
      BY <1>2, <2>3, <2>4 DEF Object, Forwarded
  <1>5. Range(o.fields) \subseteq Refs(half, ReachIdx)
    <2>1. \A v \in Vars : root[v] \in Refs(half, ReachIdx)
      BY <1>2, ReachIdxSound DEF Range
    <2>2. \A k \in DOMAIN rq.fields : rq.fields[k] \in Vars \cup {NULL}
      BY <1>2
    <2>3. \A f \in DOMAIN o.fields : o.fields[f] \in Refs(half, ReachIdx)
      BY <2>1, <2>2 DEF Refs
    <2> HIDE DEF o
    <2> QED
      BY <2>3 DEF Range
  <1> HIDE DEF o
  <1>6. /\ n \in Seq(Object) /\ DOMAIN n = DOMAIN new \cup {N} /\ N \notin DOMAIN new
        /\ n[N] = o /\ \A k \in DOMAIN new : n[k] = new[k]
    BY <1>2, <1>4
  <1>7. r \in [Vars -> Pointers]
    BY <1>2 DEF Pointers, Addresses
  <1>8. Range(r) \subseteq Refs(half, K)
    <2>1. ASSUME NEW v \in Vars PROVE r[v] \in Refs(half, K)
      <3>1. root[v] \in Refs(half, ReachIdx)
        BY <1>2, ReachIdxSound DEF Range
      <3> QED
        BY <1>2, <3>1 DEF Refs
    <2> HIDE DEF K, r
    <2> QED
      BY <1>7, <2>1 DEF Range
  <1>9. K \in SUBSET DOMAIN n
    BY <1>6 DEF ReachIdx
  <1> HIDE DEF N, n, r
  <1>10. \A k \in ReachIdx : k \in DOMAIN new /\ n[k] = new[k]
    BY <1>6 DEF ReachIdx
  <1>11. \A k \in K : Range(n[k].fields) \subseteq Refs(half, K) /\ n[k].id # NULL
    <2>1. Refs(half, ReachIdx) \subseteq Refs(half, K)
      BY DEF Refs
    <2>2. \A k \in ReachIdx :
            Range(new[k].fields) \subseteq Refs(half, ReachIdx) /\ new[k].id # NULL
      BY ReachIdxSound
    <2> QED
      BY <1>3, <1>4, <1>5, <1>6, <1>10, <2>1, <2>2
  <1>12. \A k \in ReachIdx : n[k].id # i
    <2>1. ASSUME NEW k \in ReachIdx PROVE new[k].id # i
      <3>1. <<half, k>> \in Reach /\ Obj(<<half, k>>) = new[k]
        BY RestReach DEF ReachIdx
      <3> QED
        BY <1>3, <3>1 DEF Unused
    <2> QED
      BY <1>10, <2>1
  <1>13. \A j, k \in K : n[j].id = n[k].id => j = k
    <2>1. \A j, k \in ReachIdx : new[j].id = new[k].id => j = k
      BY ReachIdxSound
    <2> QED
      BY <1>4, <1>6, <1>10, <1>12, <2>1
  <1>14. \A k \in DOMAIN n : ~Forwarded(n[k])
    BY <1>4, <1>6 DEF Rest, Settled
  <1> HIDE DEF K
  <1>15. /\ Rest' /\ root' \in [Vars -> Pointers] /\ new' \in Seq(Object) /\ DOMAIN new' = DOMAIN n
         /\ \A k \in DOMAIN n : new'[k].nbytes = n[k].nbytes /\ new'[k].space = n[k].space
    <2>1. old = <<>>
      BY DEF Rest
    <2> QED
      BY ONLY <1>1, <1>2, <1>6, <1>7, <1>8, <1>9, <1>11, <1>13, <1>14, <2>1, BecomesRests
  <1>16. /\ SpacesOK(spaces) /\ UsedOf(spaces) = NeedsOf(new)
         /\ \A k \in DOMAIN new : new[k].space \in 1 .. Len(spaces)
    BY AccountsAre
  <1>17. /\ SpacesOK(spaces') /\ UsedOf(spaces') = UsedOf(spaces) + Need(rq.nbytes)
         /\ Len(spaces') = Len(spaces)
    BY <1>1, <1>2, <1>16, SpaceCharged
  <1>18. NeedsOf(new') = NeedsOf(new) + Need(rq.nbytes)
    <2>1. NeedsOf(n) = NeedsOf(new) + Need(o.nbytes)
      BY <1>2, <1>4, NeedsAppended DEF n
    <2>2. NeedsOf(new') = NeedsOf(n)
      BY <1>15, NeedsSame
    <2> QED
      BY <1>4, <2>1, <2>2
  <1>19. TypeOK'
    <2>1. UNCHANGED <<old, half, minspace, gcblocked, cursor, late>>
      BY <1>1 DEF Becomes
    <2>2. req' \in Request
      BY <1>1 DEF NoReq, Request
    <2>3. spaces' \in Seq(Space)
      BY <1>17 DEF SpacesOK
    <2> QED
      BY <1>1, <1>15, <2>1, <2>2, <2>3 DEF TypeOK
  <1>20. \A k \in DOMAIN new' : new'[k].space \in 1 .. Len(spaces')
    <2>1. Len(spaces) \in 1 .. Len(spaces)
      BY <1>2, <1>16 DEF SpacesOK
    <2> QED
      BY <1>4, <1>6, <1>15, <1>16, <1>17, <2>1
  <1>21. Accounts'
    BY <1>16, <1>17, <1>18, <1>19, <1>20, AccountsAreNext
  <1>22. Control'
    BY <1>1, <1>17 DEF Control, Becomes
  <1> QED
    BY <1>1, <1>15, <1>19, <1>21, <1>22 DEF CInv, Progress

\* The program changes what refers to what.
LEMMA KeepStep ==
  ASSUME CInv, Running, NEW r \in [Vars -> Pointers], NEW n \in Seq(Object), Becomes(r, n),
         DOMAIN n = DOMAIN new,
         \A k \in DOMAIN new : /\ n[k].id = new[k].id /\ n[k].nbytes = new[k].nbytes
                               /\ n[k].space = new[k].space /\ n[k].to = new[k].to
                               /\ Range(n[k].fields) \subseteq Refs(half, Alive(new)),
         Range(r) \subseteq Refs(half, Alive(new))
  PROVE  CInv'
  <1>1. TypeOK /\ Accounts /\ Control /\ Rest /\ pc = "run"
    BY DEF CInv, Running, Step
  <1>2. /\ UNCHANGED <<old, half, minspace, gcblocked, cursor, late, pc, req, spaces>>
        /\ ops' \in 0 .. MaxOps
    <2>1. ops \in 0 .. MaxOps /\ ops < MaxOps /\ ops' = ops + 1 /\ MaxOps \in Nat
      BY <1>1, CollectorAssumption DEF Running, Step, TypeOK
    <2>2. UNCHANGED <<old, half, minspace, gcblocked, cursor, late, pc, req, spaces>>
      BY DEF Becomes, Running
    <2> QED
      BY <2>1, <2>2
  <1>3. /\ half \in {0, 1} /\ old = <<>>
        /\ \A j, k \in Alive(new) : n[j].id = n[k].id => j = k
        /\ \A k \in Alive(new) :
             Range(n[k].fields) \subseteq Refs(half, Alive(new)) /\ n[k].id # NULL
        /\ \A k \in DOMAIN n : ~Forwarded(n[k])
        /\ Alive(new) \in SUBSET DOMAIN n
    BY <1>1 DEF TypeOK, Rest, Settled, GraphSound, Alive, Forwarded
  <1>4. PICK K : K = Alive(new)
    OBVIOUS
  <1>5. /\ K \in SUBSET DOMAIN n /\ Range(r) \subseteq Refs(half, K)
        /\ \A k \in K : Range(n[k].fields) \subseteq Refs(half, K) /\ n[k].id # NULL
        /\ \A j, k \in K : n[j].id = n[k].id => j = k
    BY <1>3, <1>4
  <1>6. /\ Rest' /\ root' \in [Vars -> Pointers] /\ new' \in Seq(Object) /\ DOMAIN new' = DOMAIN n
        /\ \A k \in DOMAIN n : new'[k].nbytes = n[k].nbytes /\ new'[k].space = n[k].space
    BY <1>3, <1>5, BecomesRests
  <1>7. TypeOK'
    BY <1>1, <1>2, <1>6 DEF TypeOK
  <1>8. NeedsOf(new') = NeedsOf(new)
    BY <1>6, NeedsSame
  <1>9. Accounts'
    BY <1>1, <1>2, <1>6, <1>7, <1>8, AccountsAre, AccountsAreNext
  <1>10. Control'
    BY <1>1, <1>2 DEF Control
  <1> QED
    BY <1>1, <1>2, <1>6, <1>7, <1>9, <1>10 DEF CInv, Progress

LEMMA AssignStep ==
  ASSUME CInv, NEW v \in Vars, NEW p \in Refs(half, Alive(new)), Assign(v, p)
  PROVE  CInv'
  <1>1. TypeOK /\ Rest /\ root \in [Vars -> Pointers] /\ new \in Seq(Object) /\ half \in {0, 1}
    BY DEF CInv, Assign, Running, Step, TypeOK
  <1> DEFINE r == [root EXCEPT ![v] = p]
  <1>2. p \in Pointers
    BY <1>1 DEF Refs, Alive, Pointers, Addresses
  <1>3. r \in [Vars -> Pointers]
    BY <1>1, <1>2
  <1>4. Range(r) \subseteq Refs(half, Alive(new))
    <2>1. \A w \in Vars : root[w] \in Refs(half, Alive(new))
      BY <1>1 DEF Rest, Settled, Range
    <2>2. \A w \in Vars : r[w] \in Refs(half, Alive(new))
      BY <1>1, <2>1
    <2> HIDE DEF r
    <2> QED
      BY <1>3, <2>2 DEF Range
  <1>5. \A k \in DOMAIN new : Range(new[k].fields) \subseteq Refs(half, Alive(new))
    BY <1>1 DEF Rest, Settled, GraphSound
  <1>6. Running /\ Becomes(r, new)
    BY DEF Assign
  <1> HIDE DEF r
  <1> QED
    BY <1>1, <1>3, <1>4, <1>5, <1>6, KeepStep

\* What a root refers to at rest, and what its fields do.
LEMMA RootObject ==
  ASSUME TypeOK, Rest, NEW v \in Vars
  PROVE  /\ root[v] \in Refs(half, Alive(new))
         /\ root[v] # NULL =>
              /\ root[v][2] \in Alive(new) /\ Obj(root[v]) = new[root[v][2]]
              /\ \A k \in DOMAIN Obj(root[v]).fields :
                   Obj(root[v]).fields[k] \in Refs(half, Alive(new))
  <1>1. root[v] \in Refs(half, Alive(new))
    BY DEF TypeOK, Rest, Settled, Range
  <1>2. ASSUME root[v] # NULL
        PROVE  root[v][2] \in Alive(new) /\ Obj(root[v]) = new[root[v][2]]
    BY <1>1, <1>2 DEF Refs, Obj, Half
  <1>3. \A i \in Alive(new) : \A k \in DOMAIN new[i].fields :
          new[i].fields[k] \in Refs(half, Alive(new))
    BY DEF Rest, Settled, GraphSound, Alive, Range
  <1> QED
    BY <1>1, <1>2, <1>3

LEMMA StoreStep ==
  ASSUME CInv, NEW v \in Vars, NEW w \in Vars, NEW k, Store(v, k, w)
  PROVE  CInv'
  <1> DEFINE i == root[v][2]
             p == root[w]
             n == [new EXCEPT ![i].fields[k] = p]
  <1>1. TypeOK /\ Rest /\ root \in [Vars -> Pointers] /\ new \in Seq(Object)
    BY DEF CInv, Store, Running, Step, TypeOK
  <1>2. /\ Running /\ Becomes(root, n) /\ root[v] # NULL /\ i \in DOMAIN new
        /\ k \in DOMAIN new[i].fields
    BY <1>1, RootObject DEF Store, Alive
  <1>3. p \in Pointers /\ p \in Refs(half, Alive(new))
    BY <1>1, RootObject
  <1> HIDE DEF p, i
  <1>4. new[i] \in Object /\ new[i].fields \in Seq(Pointers)
    <2>1. new[i] \in Object
      BY <1>1, <1>2
    <2> QED
      BY <2>1 DEF Object
  <1>5. [new[i].fields EXCEPT ![k] = p] \in Seq(Pointers)
    BY <1>2, <1>3, <1>4
  <1>6. [new[i] EXCEPT !.fields[k] = p] \in Object
    BY <1>4, <1>5 DEF Object
  <1>7. n = [new EXCEPT ![i] = [new[i] EXCEPT !.fields[k] = p]]
    BY <1>2
  <1>8. n \in Seq(Object) /\ DOMAIN n = DOMAIN new
    BY <1>1, <1>2, <1>6, <1>7
  <1>9. /\ \A j \in DOMAIN new : j # i => n[j] = new[j]
        /\ n[i].id = new[i].id /\ n[i].nbytes = new[i].nbytes /\ n[i].space = new[i].space
        /\ n[i].to = new[i].to /\ n[i].fields = [new[i].fields EXCEPT ![k] = p]
    BY <1>2, <1>4, <1>7 DEF Object
  <1> HIDE DEF n
  <1>10. \A j \in DOMAIN new : Range(new[j].fields) \subseteq Refs(half, Alive(new))
    BY <1>1 DEF Rest, Settled, GraphSound
  <1>11. Range(n[i].fields) \subseteq Refs(half, Alive(new))
    BY <1>2, <1>3, <1>9, <1>10 DEF Range
  <1>12. Range(root) \subseteq Refs(half, Alive(new))
    BY <1>1 DEF Rest, Settled
  <1> QED
    BY <1>1, <1>2, <1>8, <1>9, <1>10, <1>11, <1>12, KeepStep

LEMMA GcallocStep ==
  ASSUME CInv, NEW v \in Vars, NEW nbytes \in Nat, NEW fields \in Seq(Vars \cup {NULL}),
         Gcalloc(v, nbytes, fields)
  PROVE  CInv'
  <1> DEFINE rq == [var |-> v, nbytes |-> nbytes, fields |-> fields]
  <1>1. TypeOK /\ Accounts /\ Control /\ Rest /\ pc = "run" /\ Unused # {} /\ ops' \in 0 .. MaxOps
    BY CollectorAssumption DEF CInv, Gcalloc, Step, TypeOK
  <1>2. rq \in Request /\ rq.var = v /\ rq.nbytes = nbytes
    BY DEF Request
  <1>3. CASE Fits(spaces, nbytes)
    <2>1. Place(rq)
      BY <1>3 DEF Gcalloc
    <2> HIDE DEF rq
    <2> QED
      BY <1>1, <1>2, <1>3, <2>1, PlaceStep
  <1>4. CASE ~Fits(spaces, nbytes)
    <2>1. /\ req' = rq /\ pc' = "alloc"
          /\ UNCHANGED <<root, heap, minspace, gcblocked, cursor, late>>
      BY <1>4 DEF Gcalloc
    <2> HIDE DEF rq
    <2>2. TypeOK' /\ Accounts'
      BY <1>1, <1>2, <2>1 DEF TypeOK, Accounts, Livedata, heap
    <2>3. Seen' = Seen /\ Rest'
      BY <1>1, <2>1, SeenSame DEF heap
    <2>4. Spare'
      BY <1>1, <2>3, SpareIsUnused DEF Spare
    <2>5. Control'
      BY <1>1, <1>2, <2>1, <2>4 DEF Control, heap
    <2> QED
      BY <2>1, <2>2, <2>3, <2>5 DEF CInv, Progress
  <1> QED
    BY <1>3, <1>4

LEMMA AllocPlaceStep ==
  ASSUME CInv, AllocPlace
  PROVE  CInv'
  <1>1. /\ TypeOK /\ Accounts /\ Control /\ Rest /\ pc = "alloc" /\ ops' \in 0 .. MaxOps
        /\ Fits(spaces, req.nbytes) /\ Place(req)
    BY DEF CInv, AllocPlace, TypeOK
  <1>2. req \in Request /\ req.var \in Vars /\ Unused # {}
    BY <1>1, SpareIsUnused DEF Control, TypeOK
  <1> QED
    BY <1>1, <1>2, PlaceStep

LEMMA GcdisableStep ==
  ASSUME CInv, Gcdisable
  PROVE  CInv'
  <1>1. /\ TypeOK /\ Accounts /\ Control /\ Rest /\ pc = "run" /\ gcblocked < MaxBlocked
        /\ gcblocked' = gcblocked + 1 /\ ops' \in 0 .. MaxOps
        /\ UNCHANGED <<root, heap, minspace, pc, req, cursor, late>>
    BY CollectorAssumption DEF CInv, Gcdisable, Step, TypeOK
  <1>2. TypeOK' /\ Accounts'
    BY <1>1, CollectorAssumption DEF TypeOK, Accounts, Livedata, heap
  <1>3. Rest'
    BY <1>1, SeenSame DEF heap
  <1>4. Control'
    BY <1>1 DEF Control, TypeOK
  <1> QED
    BY <1>1, <1>2, <1>3, <1>4 DEF CInv, Progress

LEMMA GcenableStep ==
  ASSUME CInv, Gcenable
  PROVE  CInv'
  <1>1. /\ TypeOK /\ Accounts /\ Control /\ Rest /\ pc = "run" /\ gcblocked > 0
        /\ ops' \in 0 .. MaxOps /\ req' = req
    BY CollectorAssumption DEF CInv, Gcenable, Step, TypeOK
  <1>2. CASE gcblocked = 1 /\ Owed
    <2>1. minspace' = minspace /\ Start("run", 0)
      BY <1>2 DEF Gcenable
    <2>2. minspace' \in Nat
      BY <1>1, <2>1 DEF TypeOK
    <2> QED
      BY <1>1, <2>1, <2>2, StartKeeps DEF Rest
  <1>3. CASE ~(gcblocked = 1 /\ Owed)
    <2>1. /\ gcblocked' = gcblocked - 1
          /\ UNCHANGED <<root, heap, minspace, pc, cursor, late>>
      BY <1>3 DEF Gcenable
    <2>2. TypeOK' /\ Accounts'
      BY <1>1, <2>1, CollectorAssumption DEF TypeOK, Accounts, Livedata, heap
    <2>3. Rest'
      BY <1>1, <2>1, SeenSame DEF heap
    <2>4. Control'
      <3>1. Len(spaces) \in Nat \ {0} /\ gcblocked \in Nat
        BY <1>1, CollectorAssumption DEF Accounts, TypeOK
      <3>2. gcblocked' = 0 => Len(spaces) = 1
        <4>1. ASSUME gcblocked' = 0 PROVE gcblocked = 1
          BY <2>1, <3>1, <4>1
        <4>2. ASSUME gcblocked = 1 PROVE Len(spaces) = 1
          <5>1. PICK l \in Nat \ {0} : l = Len(spaces)
            BY <3>1
          <5>2. ~(l > 1)
            BY <1>3, <4>2, <5>1 DEF Owed
          <5> QED
            BY <5>1, <5>2
        <4> QED
          BY <4>1, <4>2
      <3> QED
        BY <1>1, <2>1, <3>2 DEF Control, heap
    <2> QED
      BY <1>1, <2>1, <2>2, <2>3, <2>4 DEF CInv, Progress
  <1> QED
    BY <1>2, <1>3

LEMMA GcreserveStep ==
  ASSUME CInv, NEW n \in Reserves, Gcreserve(n)
  PROVE  CInv'
  <1>1. /\ TypeOK /\ Accounts /\ Control /\ Rest /\ pc = "run" /\ ops' \in 0 .. MaxOps
        /\ req' = req /\ minspace' = IF minspace < n THEN n ELSE minspace
    BY CollectorAssumption DEF CInv, Gcreserve, Step, TypeOK
  <1>2. minspace' \in Nat
    BY <1>1, CollectorAssumption DEF TypeOK
  <1>3. CASE gcblocked = 0
    <2>1. Start("run", 0)
      BY <1>3 DEF Gcreserve
    <2> QED
      BY <1>1, <1>2, <2>1, StartKeeps DEF Rest
  <1>4. CASE gcblocked # 0
    <2>1. UNCHANGED <<root, heap, gcblocked, pc, cursor, late>>
      BY <1>4 DEF Gcreserve
    <2>2. TypeOK' /\ Accounts'
      BY <1>1, <1>2, <2>1 DEF TypeOK, Accounts, Livedata, heap
    <2>3. Rest'
      BY <1>1, <2>1, SeenSame DEF heap
    <2>4. Control'
      BY <1>1, <1>4, <2>1 DEF Control
    <2> QED
      BY <1>1, <2>1, <2>2, <2>3, <2>4 DEF CInv, Progress
  <1> QED
    BY <1>3, <1>4

(***************************************************************************)
(* The invariant, and what follows from it                                 *)
(***************************************************************************)

LEMMA CInit == Init => CInv
  <1> SUFFICES ASSUME Init PROVE CInv
    OBVIOUS
  <1> DEFINE sp == Newspace(MIN_minspace)
  <1>1. /\ root = [v \in Vars |-> NULL] /\ new = <<>> /\ old = <<>> /\ half = 0
        /\ minspace = MIN_minspace /\ spaces = <<sp>> /\ gcblocked = 0 /\ pc = "run"
        /\ req = NoReq /\ cursor = NoCursor /\ late = FALSE /\ ops = 0
    BY DEF Init
  <1>2. sp \in Space /\ sp.used = 0 /\ 0 <= sp.size
    <2>1. MIN_minspace \in Nat
      BY CollectorAssumption
    <2>2. ALIGN(MIN_minspace) \in Nat
      BY <2>1, NeedIsNumber
    <2> QED
      BY <2>2 DEF Newspace, Space
  <1> HIDE DEF sp
  <1>3. TypeOK
    <2>1. req \in Request /\ cursor \in Cursor
      BY <1>1 DEF NoReq, NoCursor, Request, Cursor
    <2>2. root \in [Vars -> Pointers]
      BY <1>1 DEF Pointers
    <2>3. new \in Seq(Object) /\ old \in Seq(Object) /\ spaces \in Seq(Space)
      BY <1>1, <1>2
    <2>4. minspace \in Nat /\ gcblocked \in 0 .. MaxBlocked + 1 /\ ops \in 0 .. MaxOps
      BY <1>1, CollectorAssumption
    <2> QED
      BY <1>1, <2>1, <2>2, <2>3, <2>4 DEF TypeOK
  <1>4. Rest
    BY <1>1 DEF Rest, Settled, GraphSound, Alive, Refs, Range
  <1>5. Accounts
    <2>1. SpacesOK(spaces)
      BY <1>1, <1>2 DEF SpacesOK
    <2>2. UsedOf(spaces) = 0
      <3>1. [k \in DOMAIN spaces |-> spaces[k].used] = Append(<<>>, 0)
        BY <1>1, <1>2
      <3> QED
        BY <3>1, TotalNothing DEF UsedOf
    <2>3. NeedsOf(new) = 0
      <3>1. [k \in DOMAIN new |-> Need(new[k].nbytes)] = <<>>
        BY <1>1
      <3> QED
        BY <3>1, TotalEmpty DEF NeedsOf
    <2> QED
      BY <1>1, <1>3, <2>1, <2>2, <2>3, AccountsAre
  <1> QED
    BY <1>1, <1>3, <1>4, <1>5 DEF CInv, Control, Progress

LEMMA CollectorStep ==
  ASSUME CInv, Collector
  PROVE  CInv' /\ (Seen' = Seen \/ AllocPlace \/ (Tear /\ late))
  BY ScanStep, QuietStep, RefusedStep, FinishStep, TearStep, AllocPlaceStep, ExtendStep, CollectStep
     DEF Collector, Quiet

LEMMA StutterStep ==
  ASSUME CInv, UNCHANGED vars
  PROVE  CInv' /\ Seen' = Seen
  <1>1. /\ UNCHANGED <<root, new, old, half, spaces>>
        /\ UNCHANGED <<minspace, gcblocked, pc, req, cursor, late, ops>>
    BY DEF vars, heap
  <1>2. /\ Seen' = Seen /\ (Moving => Moving') /\ (Rest => Rest')
    BY <1>1, SeenSame
  <1>3. TypeOK' /\ Accounts'
    BY <1>1 DEF CInv, TypeOK, Accounts, Livedata
  <1>4. Control'
    BY <1>1, <1>2 DEF CInv, Control, Spare
  <1>5. Progress'
    BY <1>1 DEF CInv, Progress, RootsDone, CursorRight, FieldsDone, ObjectsDone, Done, Passed,
                Scanning, Ahead, Here, InOld
  <1> QED
    BY <1>1, <1>2, <1>3, <1>4, <1>5 DEF CInv

LEMMA ProgramStep ==
  ASSUME CInv, NEW v \in Vars, NEW w \in Vars,
         \/ \E n \in Sizes : Gcalloc(v, n, <<>>)
         \/ \E n \in Fields :
              Gcalloc(v, n * Word, [k \in 1 .. n |-> IF k = 1 THEN w ELSE NULL])
         \/ \E k \in UNION {1 .. n : n \in Fields} : Store(v, k, w) \/ Load(v, w, k)
         \/ Assign(v, root[w]) \/ Assign(v, NULL)
  PROVE  CInv'
  <1>1. ASSUME NEW n \in Sizes, Gcalloc(v, n, <<>>) PROVE CInv'
    <2>1. n \in Nat /\ <<>> \in Seq(Vars \cup {NULL})
      BY CollectorAssumption
    <2> QED
      BY <1>1, <2>1, GcallocStep
  <1>2. ASSUME NEW n \in Fields,
               Gcalloc(v, n * Word, [k \in 1 .. n |-> IF k = 1 THEN w ELSE NULL])
        PROVE  CInv'
    <2>1. n \in Nat /\ Word \in Nat /\ n * Word \in Nat
      <3>1. n \in Nat /\ Word \in Nat
        BY CollectorAssumption
      <3> QED
        BY <3>1
    <2>2. [k \in 1 .. n |-> IF k = 1 THEN w ELSE NULL] \in Seq(Vars \cup {NULL})
      BY <2>1
    <2> QED
      BY <1>2, <2>1, <2>2, GcallocStep
  <1>3. ASSUME NEW k, Store(v, k, w) PROVE CInv'
    BY <1>3, StoreStep
  <1>4. ASSUME NEW p \in {NULL, root[w]}, Assign(v, p) PROVE CInv'
    <2>1. TypeOK /\ Rest
      BY <1>4 DEF CInv, Assign, Running, Step
    <2>2. p \in Refs(half, Alive(new))
      BY <2>1, RootObject DEF Refs
    <2> QED
      BY <1>4, <2>2, AssignStep
  <1>5. ASSUME NEW k, Load(v, w, k) PROVE CInv'
    <2>1. TypeOK /\ Rest
      BY <1>5 DEF CInv, Load, Assign, Running, Step
    <2>2. Obj(root[w]).fields[k] \in Refs(half, Alive(new))
      BY <1>5, <2>1, RootObject DEF Load
    <2>3. Assign(v, Obj(root[w]).fields[k])
      BY <1>5 DEF Load
    <2> QED
      BY <2>2, <2>3, AssignStep
  <1> QED
    BY <1>1, <1>2, <1>3, <1>4, <1>5

LEMMA CNext ==
  ASSUME CInv, [Next]_vars
  PROVE  /\ CInv'
         /\ pc # "run" /\ ~(pc = "alloc" /\ pc' = "run") /\ ~(pc' = "torn" /\ late)
              => Seen' = Seen
  <1>1. CASE Collector
    <2>1. CInv' /\ (Seen' = Seen \/ AllocPlace \/ (Tear /\ late))
      BY <1>1, CollectorStep
    <2> QED
      BY <2>1 DEF AllocPlace, Place, Tear
  <1>2. CASE UNCHANGED vars
    BY <1>2, StutterStep
  <1>3. CASE Gcdisable
    BY <1>3, GcdisableStep DEF Gcdisable, Step
  <1>4. CASE Gcenable
    BY <1>4, GcenableStep DEF Gcenable, Step
  <1>5. CASE \E n \in Reserves : Gcreserve(n)
    BY <1>5, GcreserveStep DEF Gcreserve, Step
  <1>6. ASSUME NEW v \in Vars, NEW w \in Vars,
               \/ \E n \in Sizes : Gcalloc(v, n, <<>>)
               \/ \E n \in Fields :
                    Gcalloc(v, n * Word, [k \in 1 .. n |-> IF k = 1 THEN w ELSE NULL])
               \/ \E k \in UNION {1 .. n : n \in Fields} : Store(v, k, w) \/ Load(v, w, k)
               \/ Assign(v, root[w]) \/ Assign(v, NULL)
        PROVE  CInv' /\ pc = "run"
    <2>1. CInv'
      BY <1>6, ProgramStep
    <2>2. pc = "run"
      BY <1>6 DEF Gcalloc, Store, Load, Assign, Running, Step
    <2> QED
      BY <2>1, <2>2
  <1> QED
    BY <1>1, <1>2, <1>3, <1>4, <1>5, <1>6 DEF Next

\* The invariant that all rests on.
THEOREM CollectorInvariant == Spec => []CInv
  <1>1. Init => CInv
    BY CInit
  <1>2. CInv /\ [Next]_vars => CInv'
    BY CNext
  <1> QED
    BY <1>1, <1>2, PTL DEF Spec

LEMMA CInvSound ==
  ASSUME CInv
  PROVE  SpacesSound /\ (ScanOver /\ ~late => ~Dangling)
  <1>1. TypeOK /\ Accounts /\ Control /\ Progress
    BY DEF CInv
  <1>2. ASSUME pc \in {"run", "alloc"}
        PROVE  /\ \A a \in Reach : Exists(a) /\ a[1] = half /\ ~Forwarded(Obj(a))
               /\ \A a, b \in Reach : Obj(a).id = Obj(b).id => a = b
    <2>1. Rest
      BY <1>2 DEF CInv
    <2>2. ASSUME NEW a \in Reach
          PROVE  \E k \in Alive(new) : a = <<half, k>> /\ a # NULL /\ Obj(a) = new[k]
      BY <1>1, <2>1, RestReach DEF Alive
    <2>3. \A a \in Reach : Exists(a) /\ a[1] = half /\ ~Forwarded(Obj(a))
      BY <2>1, <2>2 DEF Exists, Half, Rest, Settled, Alive
    <2>4. \A a, b \in Reach : Obj(a).id = Obj(b).id => a = b
      BY <2>1, <2>2 DEF Rest, Settled, GraphSound
    <2> QED
      BY <2>3, <2>4
  <1>3. HeapSound
    BY <1>1, <1>2 DEF CInv, HeapSound, Rest, Accounts, Control
  <1> QED
    BY <1>1, <1>3, ScannedAll DEF SpacesSound

\* When no collection is under way the heap is sound, whatever was allocated, assigned and
\* stored before, and however often it was collected: nothing that a root leads to lies in
\* the half that gc has freed (gc.c:445-515), no object is there twice, and the spaces hold
\* what their objects take (gcalloc, gc.c:538-561).
THEOREM SpacesAreSound == Spec => []SpacesSound
  <1>1. CInv => SpacesSound
    BY CInvSound
  <1> QED
    BY <1>1, CollectorInvariant, PTL

\* No step of gc changes what the program sees (forward, gc.c:336-361, the scan,
\* gc.c:363-396, and the end of a collection, gc.c:492-514), unless it frees the old half
\* although an object came late.
THEOREM MovingIsInvisible == Spec => MovingInvisible
  <1>1. CInv /\ [Next]_vars =>
          (pc # "run" /\ ~(pc = "alloc" /\ pc' = "run") /\ ~(pc' = "torn" /\ late)
             => Seen' = Seen)
    BY CNext
  <1> QED
    BY <1>1, CollectorInvariant, PTL DEF Spec, MovingInvisible

\* scanspace leaves nothing in new that refers to old (gc.c:374-396), unless an object was
\* copied into a space that it had come past in the same pass: this is the only way it fails.
UpToDateUnlessLate == ScanOver /\ ~late => ~Dangling
THEOREM ScanIsComplete == Spec => []UpToDateUnlessLate
  <1>1. CInv => UpToDateUnlessLate
    BY CInvSound DEF UpToDateUnlessLate
  <1> QED
    BY <1>1, CollectorInvariant, PTL

=============================================================================
