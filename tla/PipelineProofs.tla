--------------------------- MODULE PipelineProofs ---------------------------
(***************************************************************************)
(* Proofs about Pipeline, for every number of descriptors, commands and    *)
(* redirections around them, and every capacity of the pipes.              *)
(***************************************************************************)
EXTENDS Pipeline, FiniteSetTheorems, WellFoundedInduction, TLAPS

-----------------------------------------------------------------------------
(***************************************************************************)
(* Numbers, and functions that are defined along them.                     *)
(***************************************************************************)
Below == {ss \in Nat \X Nat : ss[1] < ss[2]}

\* A set of numbers that is not empty has a least element.
LEMMA LeastOne ==
  ASSUME NEW S \in SUBSET Nat, S # {}
  PROVE  \E n \in S : \A m \in S : n <= m
  <1>1. IsWellFoundedOn(Below, Nat)
    <2>1. Below = OpToRel(<, Nat)
      BY DEF Below, OpToRel
    <2> QED
      BY <2>1, NatLessThanWellFounded
  <1>2. PICK n \in S : \A m \in S : <<m, n>> \notin Below
    BY <1>1, WFMin
  <1>3. ASSUME NEW m \in S PROVE n <= m
    <2>1. m \in Nat /\ n \in Nat /\ <<m, n>> \in Nat \X Nat
      OBVIOUS
    <2>2. <<m, n>> \notin {ss \in Nat \X Nat : ss[1] < ss[2]}
      BY <1>2 DEF Below
    <2>3. ~(<<m, n>>[1] < <<m, n>>[2])
      BY <2>1, <2>2, Zenon
    <2> QED
      BY <2>1, <2>3
  <1> QED
    BY <1>3

\* What holds at 0, and at k if it does at k - 1, holds up to n.
LEMMA Climb ==
  ASSUME NEW n \in Nat, NEW P, 0 \in P, \A k \in 1 .. n : k - 1 \in P => k \in P
  PROVE  \A k \in 0 .. n : k \in P
  <1> DEFINE S == {m \in Nat : m \in 0 .. n /\ m \notin P}
  <1>1. SUFFICES ASSUME S # {} PROVE FALSE
    OBVIOUS
  <1>2. PICK m \in S : \A l \in S : m <= l
    BY <1>1, LeastOne
  <1>3. m # 0
    BY <1>2
  <1>4. m \in 1 .. n /\ m - 1 \in Nat /\ m - 1 \in 0 .. n /\ ~ m <= m - 1
    BY <1>2, <1>3
  <1>5. m - 1 \in P
    BY <1>2, <1>4
  <1> QED
    BY <1>2, <1>4, <1>5

\* f starts in a and makes the n steps of F.
Path(f, S, a, F, n) ==
  /\ f \in [0 .. n -> S] /\ f[0] = a
  /\ \A k \in 1 .. n : f[k] = F[<<k, f[k - 1]>>]

\* A state and a step define the states after each number of steps.
LEMMA Iterates ==
  ASSUME NEW S, NEW a \in S, NEW n \in Nat, NEW F \in [(1 .. n) \X S -> S]
  PROVE  \E f : Path(f, S, a, F, n)
  <1>1. PICK P : P = {m \in 0 .. n : \E f : Path(f, S, a, F, m)}
    OBVIOUS
  <1>2. Path([i \in 0 .. 0 |-> a], S, a, F, 0)
    <2>1. [i \in 0 .. 0 |-> a] \in [0 .. 0 -> S]
      OBVIOUS
    <2>2. [i \in 0 .. 0 |-> a][0] = a /\ 1 .. 0 = {}
      OBVIOUS
    <2> QED
      BY <2>1, <2>2 DEF Path
  <1>3. ASSUME NEW m \in 1 .. n, NEW f, Path(f, S, a, F, m - 1) PROVE \E g : Path(g, S, a, F, m)
    <2>1. m \in Nat /\ m - 1 \in Nat /\ m # 0
      OBVIOUS
    <2>2. /\ f[0] = a
          /\ \A k \in 1 .. m - 1 : f[k] = F[<<k, f[k - 1]>>]
      BY <1>3 DEF Path
    <2>3. f \in [0 .. m - 1 -> S]
      BY <1>3 DEF Path
    <2>4. PICK g : g = [k \in 0 .. m |-> IF k < m THEN f[k] ELSE F[<<m, f[m - 1]>>]]
      OBVIOUS
    <2>5. m - 1 \in 0 .. m - 1 /\ <<m, f[m - 1]>> \in (1 .. n) \X S
      BY <2>1, <2>3
    <2>6. F[<<m, f[m - 1]>>] \in S
      BY <2>5
    <2>7. \A k \in 0 .. m : k < m => k \in 0 .. m - 1
      BY <2>1
    <2>8. g \in [0 .. m -> S]
      BY <2>3, <2>4, <2>6, <2>7
    <2>9. g[0] = a
      BY <2>1, <2>2, <2>4
    <2>10. ASSUME NEW k \in 1 .. m PROVE g[k] = F[<<k, g[k - 1]>>]
      <3>1. k - 1 \in 0 .. m /\ k - 1 < m /\ g[k - 1] = f[k - 1]
        BY <2>1, <2>4
      <3>2. CASE k = m
        BY <2>1, <2>4, <3>1, <3>2
      <3>3. CASE k # m
        <4>1. k < m /\ k \in 1 .. m - 1 /\ k \in 0 .. m
          BY <2>1, <3>3
        <4> QED
          BY <2>2, <2>4, <3>1, <4>1
      <3> QED
        BY <3>2, <3>3
    <2> QED
      BY <2>8, <2>9, <2>10 DEF Path
  <1>4. \A k \in 1 .. n : k - 1 \in 0 .. n /\ k \in 0 .. n
    OBVIOUS
  <1>5. \A k \in 1 .. n : k - 1 \in P => k \in P
    BY <1>1, <1>3, <1>4
  <1>6. 0 \in P
    BY <1>1, <1>2
  <1> QED
    BY <1>1, <1>5, <1>6, Climb

-----------------------------------------------------------------------------
(***************************************************************************)
(* Descriptor tables.                                                      *)
(***************************************************************************)
\* What open, dup and pipe return: a free number, or NoFd when there is none.
LEMMA LowestFreeIs ==
  ASSUME NEW t
  PROVE  /\ LowestFree(t) \in Fd \cup {NoFd}
         /\ FreeFds(t) # {} => LowestFree(t) \in Fd
         /\ LowestFree(t) \in Fd => t[LowestFree(t)] = Closed
  <1>1. CASE FreeFds(t) = {}
    <2>1. LowestFree(t) = NoFd /\ NoFd \notin Fd
      BY <1>1 DEF LowestFree, NoFd, Fd
    <2> QED
      BY <1>1, <2>1
  <1>2. CASE FreeFds(t) # {}
    <2>1. FreeFds(t) \in SUBSET Nat
      BY TableAssumption DEF FreeFds, Fd
    <2>2. \E n \in FreeFds(t) : \A m \in FreeFds(t) : n <= m
      BY <1>2, <2>1, LeastOne
    <2>3. LowestFree(t) \in FreeFds(t)
      BY <1>2, <2>2 DEF LowestFree
    <2> QED
      BY <2>3 DEF FreeFds
  <1> QED
    BY <1>1, <1>2

\* NoFd is no descriptor.
LEMMA FdIs == NoFd \notin Fd /\ NoFd \in Int /\ Fd \subseteq Int /\ {0, 1, 2, 3} \subseteq Fd
  BY TableAssumption DEF Fd, NoFd

\* Opening and closing change one number,
LEMMA OpenAtIs ==
  ASSUME NEW t \in Table, NEW n, NEW file \in Files \cup {Closed}
  PROVE  /\ OpenAt(t, n, file) \in Table
         /\ \A u \in Fd : OpenAt(t, n, file)[u] = IF u = n THEN file ELSE t[u]
  BY DEF Table, OpenAt

LEMMA CloseFdIs ==
  ASSUME NEW t \in Table, NEW n
  PROVE  /\ CloseFd(t, n) \in Table
         /\ \A u \in Fd : CloseFd(t, n)[u] = IF u = n THEN Closed ELSE t[u]
  BY DEF Table, CloseFd

\* and moving changes two.
LEMMA MvfdIs ==
  ASSUME NEW t \in Table, NEW old \in Fd \cup {NoFd}, NEW new \in Fd, MvfdOk(t, old, new)
  PROVE  /\ Mvfd(t, old, new) \in Table /\ old \in Fd
         /\ \A u \in Fd : Mvfd(t, old, new)[u] = IF u = new THEN t[old]
                                                ELSE IF u = old THEN Closed ELSE t[u]
  <1>1. CASE old = new
    BY <1>1 DEF Mvfd
  <1>2. CASE old # new
    <2>1. old \in Fd
      BY <1>2 DEF MvfdOk
    <2> QED
      BY <1>2, <2>1 DEF Mvfd, Table
  <1> QED
    BY <1>1, <1>2

-----------------------------------------------------------------------------
(***************************************************************************)
(* The shell's table inside the redirections.                              *)
(***************************************************************************)
Fresh == [u \in Fd |-> IF u < 3 THEN Tty ELSE Closed]

\* The redirection that d stands for opens its file.
Opens(d, t) == IF d.realfd = NoFd THEN t ELSE OpenAt(t, d.realfd, UserFile)

OpenSteps(ds, f) == [n \in 0 .. Len(ds) |-> IF n = 0 THEN Fresh ELSE Opens(ds[n], f[n - 1])]

LEMMA FilesAre == {Tty, UserFile} \subseteq Files /\ Closed \notin Files
  BY PipelineAssumption, TableAssumption

LEMMA FreshIs == Fresh \in Table
  BY FilesAre DEF Fresh, Table

\* Opened is the table after the last of them.
LEMMA OpenedAfter ==
  ASSUME NEW ds \in Seq(Defer), NEW f, f[0] = Fresh,
         \A k \in 1 .. Len(ds) : f[k] = Opens(ds[k], f[k - 1])
  PROVE  Opened(ds) = f[Len(ds)]
  <1>1. PICK n \in Nat : n = Len(ds)
    OBVIOUS
  <1>2. PICK e : e = [k \in 0 .. n |-> f[k]]
    OBVIOUS
  <1>3. ASSUME NEW k \in 0 .. n PROVE e[k] = OpenSteps(ds, e)[k]
    <2>1. CASE k = 0
      BY <1>1, <1>2, <2>1 DEF OpenSteps
    <2>2. CASE k # 0
      <3>1. k \in 1 .. n /\ k - 1 \in 0 .. n
        BY <2>2
      <3>2. e[k] = Opens(ds[k], e[k - 1])
        BY <1>1, <1>2, <3>1
      <3> QED
        BY <1>1, <2>2, <3>2 DEF OpenSteps
    <2> QED
      BY <2>1, <2>2
  <1>4. e = OpenSteps(ds, e)
    BY <1>1, <1>2, <1>3 DEF OpenSteps
  <1>5. PICK g : g = CHOOSE h : h = OpenSteps(ds, h)
    OBVIOUS
  <1>6. g = OpenSteps(ds, g)
    BY <1>4, <1>5, Zenon
  <1>7. Opened(ds) = g[Len(ds)]
    BY <1>5 DEF Opened, OpenSteps, Opens, Fresh
  <1>8. ASSUME NEW k \in 0 .. n
         PROVE  g[k] = IF k = 0 THEN Fresh ELSE Opens(ds[k], g[k - 1])
    BY <1>1, <1>6 DEF OpenSteps
  <1>9. PICK P : P = {k \in 0 .. n : g[k] = f[k]}
    OBVIOUS
  <1>10. 0 \in P /\ \A k \in 1 .. n : k - 1 \in P => k \in P
    BY <1>1, <1>8, <1>9
  <1>11. \A k \in 0 .. n : g[k] = f[k]
    BY <1>9, <1>10, Climb
  <1> QED
    BY <1>1, <1>7, <1>11

\* The tables after each of the redirections.
LEMMA OpenedIs ==
  ASSUME NEW ds \in Seq(Defer)
  PROVE  \E f \in [0 .. Len(ds) -> Table] :
           /\ f[0] = Fresh
           /\ \A k \in 1 .. Len(ds) : f[k] = Opens(ds[k], f[k - 1])
           /\ \A k \in 0 .. Len(ds) : Opened(SubSeq(ds, 1, k)) = f[k]
           /\ Opened(ds) = f[Len(ds)]
  <1>1. PICK n \in Nat : n = Len(ds)
    OBVIOUS
  <1>2. PICK S, a : S = Table /\ a = Fresh
    OBVIOUS
  <1>3. PICK F : F = [kt \in (1 .. n) \X S |-> Opens(ds[kt[1]], kt[2])]
    OBVIOUS
  <1>4. F \in [(1 .. n) \X S -> S]
    <2>1. ASSUME NEW k \in 1 .. n, NEW t \in S PROVE Opens(ds[k], t) \in S
      BY <1>2, FilesAre, OpenAtIs, CloseFdIs DEF Opens
    <2> QED
      BY <1>3, <2>1
  <1>5. a \in S
    BY <1>2, FreshIs
  <1>6. PICK f : Path(f, S, a, F, n)
    BY <1>4, <1>5, Iterates
  <1>7. f \in [0 .. n -> S]
    BY <1>6 DEF Path
  <1>8. f[0] = a /\ \A k \in 1 .. n : f[k] = F[<<k, f[k - 1]>>]
    BY <1>6 DEF Path
  <1>9. ASSUME NEW k \in 1 .. n PROVE f[k] = Opens(ds[k], f[k - 1])
    <2>1. f[k - 1] \in S
      BY <1>7
    <2> QED
      BY <1>3, <1>8, <2>1
  <1>10. ASSUME NEW k \in 0 .. n PROVE Opened(SubSeq(ds, 1, k)) = f[k]
    <2>1. PICK ks : ks = SubSeq(ds, 1, k)
      OBVIOUS
    <2>2. ks \in Seq(Defer) /\ Len(ks) = k /\ \A i \in 1 .. k : ks[i] = ds[i] /\ i \in 1 .. n
      BY <1>1, <2>1
    <2>3. \A i \in 1 .. Len(ks) : f[i] = Opens(ks[i], f[i - 1])
      BY <1>9, <2>2
    <2>4. f[0] = Fresh
      BY <1>2, <1>8
    <2> QED
      BY <2>1, <2>2, <2>3, <2>4, OpenedAfter
  <1>11. Opened(ds) = f[Len(ds)]
    BY <1>1, <1>2, <1>8, <1>9, OpenedAfter
  <1> QED
    BY <1>1, <1>2, <1>7, <1>8, <1>9, <1>10, <1>11

-----------------------------------------------------------------------------
(***************************************************************************)
(* The types of a child while it applies the redirections.                 *)
(***************************************************************************)
Ends == [inpipe : Fd \cup {NoFd}, p0 : Fd \cup {NoFd}, p1 : Fd \cup {NoFd}]

Context == [t : Table, v : Ends, d : Seq(Defer)]

\* The variables in vs get n.
Renamed(v, vs, n) == [x \in DOMAIN v |-> IF x \in vs THEN n ELSE v[x]]

LEMMA RenamedIs ==
  ASSUME NEW v \in Ends, NEW vs, NEW n \in Fd \cup {NoFd}
  PROVE  /\ Renamed(v, vs, n) \in Ends
         /\ Renamed(v, vs, n).inpipe = IF "inpipe" \in vs THEN n ELSE v.inpipe
         /\ Renamed(v, vs, n).p0 = IF "p0" \in vs THEN n ELSE v.p0
         /\ Renamed(v, vs, n).p1 = IF "p1" \in vs THEN n ELSE v.p1
  <1>1. DOMAIN v = {"inpipe", "p0", "p1"}
    BY DEF Ends
  <1>2. Renamed(v, vs, n) = [inpipe |-> IF "inpipe" \in vs THEN n ELSE v.inpipe,
                             p0 |-> IF "p0" \in vs THEN n ELSE v.p0,
                             p1 |-> IF "p1" \in vs THEN n ELSE v.p1]
    BY <1>1 DEF Renamed, Ends
  <1> QED
    BY <1>2 DEF Ends

\* The deferrals in ks get n.
Shifted(d, ks, n) == [k \in DOMAIN d |-> IF k \in ks THEN [d[k] EXCEPT !.realfd = n] ELSE d[k]]

LEMMA ShiftedIs ==
  ASSUME NEW d \in Seq(Defer), NEW ks, NEW n \in Fd \cup {NoFd}
  PROVE  /\ Shifted(d, ks, n) \in Seq(Defer) /\ Len(Shifted(d, ks, n)) = Len(d)
         /\ \A k \in 1 .. Len(d) :
              /\ Shifted(d, ks, n)[k].userfd = d[k].userfd
              /\ Shifted(d, ks, n)[k].realfd = IF k \in ks THEN n ELSE d[k].realfd
  <1>1. PICK m \in Nat : m = Len(d) /\ DOMAIN d = 1 .. m
    OBVIOUS
  <1>2. PICK e : e = Shifted(d, ks, n)
    OBVIOUS
  <1>3. ASSUME NEW k \in 1 .. m
        PROVE  /\ e[k] \in Defer /\ e[k].userfd = d[k].userfd
               /\ e[k].realfd = IF k \in ks THEN n ELSE d[k].realfd
    <2>1. d[k] \in Defer
      BY <1>1
    <2>2. e[k] = IF k \in ks THEN [d[k] EXCEPT !.realfd = n] ELSE d[k]
      BY <1>1, <1>2 DEF Shifted
    <2> QED
      BY <2>1, <2>2 DEF Defer
  <1>4. e = [k \in 1 .. m |-> e[k]]
    BY <1>1, <1>2 DEF Shifted
  <1>5. e \in [1 .. m -> Defer]
    BY <1>3, <1>4
  <1>6. e \in Seq(Defer) /\ Len(e) = m
    BY <1>5
  <1> QED
    BY <1>1, <1>2, <1>3, <1>6

\* The variables and deferrals that hold u.
VarsAt(c, R, u) == {x \in R : c.v[x] = u}
DefersAt(c, u) == {k \in DOMAIN c.d : c.d[k].realfd = u}

\* What releasefd does when there are any.
LEMMA ReleaseIs ==
  ASSUME NEW c \in Context, NEW R, NEW u
  PROVE  /\ VarsAt(c, R, u) \cup DefersAt(c, u) = {} => Release(c, R, u) = c
         /\ VarsAt(c, R, u) \cup DefersAt(c, u) # {} =>
              Release(c, R, u) =
                [t |-> CloseFd(OpenAt(c.t, LowestFree(c.t), c.t[u]), u),
                 v |-> Renamed(c.v, VarsAt(c, R, u), LowestFree(c.t)),
                 d |-> Shifted(c.d, DefersAt(c, u), LowestFree(c.t))]
  BY Zenon DEF Release, VarsAt, DefersAt, Renamed, Shifted

LEMMA ReleaseType ==
  ASSUME NEW c \in Context, NEW R, NEW u \in Fd
  PROVE  /\ Release(c, R, u) \in Context /\ Len(Release(c, R, u).d) = Len(c.d)
         /\ \A k \in 1 .. Len(c.d) : Release(c, R, u).d[k].userfd = c.d[k].userfd
  <1>1. c.t \in Table /\ c.v \in Ends /\ c.d \in Seq(Defer)
    BY DEF Context
  <1>2. PICK n \in Fd \cup {NoFd} : n = LowestFree(c.t)
    BY LowestFreeIs
  <1>3. c.t[u] \in Files \cup {Closed}
    BY <1>1 DEF Table
  <1>4. CloseFd(OpenAt(c.t, n, c.t[u]), u) \in Table
    BY <1>1, <1>3, OpenAtIs, CloseFdIs
  <1>5. PICK vs, ks : vs = VarsAt(c, R, u) /\ ks = DefersAt(c, u)
    OBVIOUS
  <1>6. Renamed(c.v, vs, n) \in Ends
    BY <1>1, RenamedIs
  <1>7. Shifted(c.d, ks, n) \in Seq(Defer) /\ Len(Shifted(c.d, ks, n)) = Len(c.d)
        /\ \A k \in 1 .. Len(c.d) : Shifted(c.d, ks, n)[k].userfd = c.d[k].userfd
    BY <1>1, ShiftedIs
  <1>8. CASE vs \cup ks = {}
    BY <1>5, <1>8, ReleaseIs
  <1>9. CASE vs \cup ks # {}
    <2>1. Release(c, R, u) = [t |-> CloseFd(OpenAt(c.t, n, c.t[u]), u),
                              v |-> Renamed(c.v, vs, n), d |-> Shifted(c.d, ks, n)]
      BY <1>2, <1>5, <1>9, ReleaseIs
    <2> QED
      BY <1>4, <1>6, <1>7, <2>1 DEF Context
  <1> QED
    BY <1>8, <1>9

\* One turn of remapfds.
LEMMA RemapOneIs ==
  ASSUME NEW c \in Context, NEW R, c.d # <<>>
  PROVE  \E first \in Defer, rest \in Seq(Defer), r \in Context :
           /\ first = c.d[1] /\ rest = Tail(c.d) /\ Len(c.d) \in Nat \ {0}
           /\ Len(rest) = Len(c.d) - 1 /\ \A k \in 1 .. Len(rest) : rest[k] = c.d[k + 1]
           /\ r = Release([t |-> c.t, v |-> c.v, d |-> rest], R, first.userfd)
           /\ RemapOne(c, R) =
                [t |-> IF first.realfd = NoFd THEN CloseFd(r.t, first.userfd)
                       ELSE Mvfd(r.t, first.realfd, first.userfd),
                 v |-> r.v, d |-> r.d]
  <1>1. c.t \in Table /\ c.v \in Ends /\ c.d \in Seq(Defer)
    BY DEF Context
  <1>2. PICK first, rest : first = Head(c.d) /\ rest = Tail(c.d)
    OBVIOUS
  <1>3. /\ first \in Defer /\ rest \in Seq(Defer) /\ first = c.d[1] /\ Len(c.d) \in Nat \ {0}
        /\ Len(rest) = Len(c.d) - 1 /\ \A k \in 1 .. Len(rest) : rest[k] = c.d[k + 1]
    BY <1>1, <1>2
  <1>4. first.userfd \in Fd
    BY <1>3, PipelineAssumption DEF Defer
  <1>5. PICK e : e = [t |-> c.t, v |-> c.v, d |-> rest]
    OBVIOUS
  <1>6. e \in Context /\ [c EXCEPT !.d = Tail(@)] = e
    <2>1. e \in Context
      BY <1>1, <1>3, <1>5 DEF Context
    <2>2. [c EXCEPT !.d = rest] = e
      BY <1>5 DEF Context
    <2> QED
      BY <1>2, <2>1, <2>2
  <1>7. PICK r : r = Release(e, R, first.userfd)
    OBVIOUS
  <1>8. r \in Context
    BY <1>4, <1>6, <1>7, ReleaseType
  <1>9. RemapOne(c, R) = [r EXCEPT !.t = IF first.realfd = NoFd THEN CloseFd(@, first.userfd)
                                         ELSE Mvfd(@, first.realfd, first.userfd)]
    BY <1>2, <1>6, <1>7, Zenon DEF RemapOne
  <1>10. RemapOne(c, R) = [t |-> IF first.realfd = NoFd THEN CloseFd(r.t, first.userfd)
                                 ELSE Mvfd(r.t, first.realfd, first.userfd),
                           v |-> r.v, d |-> r.d]
    BY <1>8, <1>9 DEF Context
  <1> QED
    BY <1>2, <1>3, <1>5, <1>7, <1>8, <1>10

LEMMA RemapOneType ==
  ASSUME NEW c \in Context, NEW R, c.d # <<>>
  PROVE  /\ RemapOne(c, R) \in Context /\ Len(RemapOne(c, R).d) = Len(c.d) - 1
         /\ \A k \in 1 .. Len(c.d) - 1 : RemapOne(c, R).d[k].userfd = c.d[k + 1].userfd
  <1>1. PICK first \in Defer, rest \in Seq(Defer), r \in Context :
           /\ first = c.d[1] /\ rest = Tail(c.d) /\ Len(c.d) \in Nat \ {0}
           /\ Len(rest) = Len(c.d) - 1 /\ \A k \in 1 .. Len(rest) : rest[k] = c.d[k + 1]
           /\ r = Release([t |-> c.t, v |-> c.v, d |-> rest], R, first.userfd)
           /\ RemapOne(c, R) =
                [t |-> IF first.realfd = NoFd THEN CloseFd(r.t, first.userfd)
                       ELSE Mvfd(r.t, first.realfd, first.userfd),
                 v |-> r.v, d |-> r.d]
    BY RemapOneIs
  <1>2. PICK e : e = [t |-> c.t, v |-> c.v, d |-> rest]
    OBVIOUS
  <1>3. e \in Context /\ e.d = rest
    BY <1>1, <1>2 DEF Context
  <1>4. first.userfd \in Fd /\ first.realfd \in Fd \cup {NoFd}
    BY PipelineAssumption DEF Defer
  <1>5. Len(r.d) = Len(rest) /\ \A k \in 1 .. Len(rest) : r.d[k].userfd = rest[k].userfd
    <2>1. PICK u \in Fd : u = first.userfd
      BY <1>4
    <2>2. r = Release(e, R, u)
      BY <1>1, <1>2, <2>1
    <2> QED
      BY <1>3, <2>2, ReleaseType
  <1>6. PICK t : t = IF first.realfd = NoFd THEN CloseFd(r.t, first.userfd)
                     ELSE Mvfd(r.t, first.realfd, first.userfd)
    OBVIOUS
  <1>7. r.t \in Table /\ r.v \in Ends /\ r.d \in Seq(Defer)
    BY <1>1 DEF Context
  <1>8. CloseFd(r.t, first.userfd) \in Table
    BY <1>7, OpenAtIs, CloseFdIs
  <1>9. first.realfd # NoFd => Mvfd(r.t, first.realfd, first.userfd) \in Table
    BY <1>4, <1>7 DEF Mvfd, Table
  <1>10. t \in Table
    BY <1>6, <1>8, <1>9
  <1>11. PICK next : next = RemapOne(c, R)
    OBVIOUS
  <1>12. next = [t |-> t, v |-> r.v, d |-> r.d]
    BY <1>1, <1>6, <1>11
  <1>13. next \in Context /\ next.d = r.d
    BY <1>7, <1>10, <1>12 DEF Context
  <1>14. \A k \in 1 .. Len(c.d) - 1 : next.d[k].userfd = c.d[k + 1].userfd
    BY <1>1, <1>5, <1>13
  <1> QED
    BY <1>1, <1>5, <1>11, <1>13, <1>14

\* The child before it applies the first deferral.
Forked(i) == [t |-> proc[i].t, v |-> proc[i].v, d |-> deftab]

RemapSteps(i, f) ==
  [n \in 0 .. Len(deftab) |-> IF n = 0 THEN Forked(i) ELSE RemapOne(f[n - 1], Registered(i))]

\* Its states after each of them.
LEMMA RemappedIs ==
  ASSUME deftab \in Seq(Defer), NEW i, proc[i].t \in Table, proc[i].v \in Ends
  PROVE  \E f \in [0 .. Len(deftab) -> Context] :
           /\ f[0] = Forked(i) /\ Remapped(i) = f[Len(deftab)]
           /\ \A k \in 1 .. Len(deftab) : f[k] = RemapOne(f[k - 1], Registered(i))
           /\ \A k \in 0 .. Len(deftab) : Len(f[k].d) = Len(deftab) - k
  <1>1. PICK n \in Nat : n = Len(deftab)
    OBVIOUS
  <1>2. PICK R, S, a : R = Registered(i) /\ S = Context /\ a = Forked(i)
    OBVIOUS
  <1>3. a \in S /\ Len(a.d) = n
    BY <1>1, <1>2 DEF Forked, Context
  <1>4. PICK F : F = [kc \in (1 .. n) \X S |-> IF kc[2].d = <<>> THEN kc[2] ELSE RemapOne(kc[2], R)]
    OBVIOUS
  <1>5. F \in [(1 .. n) \X S -> S]
    <2>1. ASSUME NEW c \in S, c.d # <<>> PROVE RemapOne(c, R) \in S
      BY <1>2, <2>1, RemapOneType
    <2> QED
      BY <1>4, <2>1
  <1>6. PICK f : Path(f, S, a, F, n)
    BY <1>3, <1>5, Iterates
  <1>7. f \in [0 .. n -> S]
    BY <1>6 DEF Path
  <1>8. f[0] = a /\ \A k \in 1 .. n : f[k] = F[<<k, f[k - 1]>>]
    BY <1>6 DEF Path
  <1>9. ASSUME NEW k \in 1 .. n, Len(f[k - 1].d) = n - (k - 1)
        PROVE  f[k] = RemapOne(f[k - 1], R) /\ Len(f[k].d) = n - k
    <2>1. PICK c \in S : c = f[k - 1]
      BY <1>7
    <2>2. c.d \in Seq(Defer) /\ Len(c.d) = n - (k - 1) /\ n - (k - 1) # 0 /\ n - (k - 1) - 1 = n - k
      BY <1>2, <1>9, <2>1 DEF Context
    <2>3. c.d # <<>>
      BY <2>2
    <2>4. f[k] = RemapOne(c, R)
      BY <1>4, <1>8, <2>1, <2>3
    <2>5. Len(RemapOne(c, R).d) = Len(c.d) - 1
      BY <1>2, <2>3, RemapOneType
    <2> QED
      BY <2>1, <2>2, <2>4, <2>5
  <1>10. PICK P : P = {k \in 0 .. n : Len(f[k].d) = n - k}
    OBVIOUS
  <1>11. 0 \in P /\ \A k \in 1 .. n : k - 1 \in P => k \in P
    BY <1>3, <1>8, <1>9, <1>10
  <1>12. \A k \in 0 .. n : Len(f[k].d) = n - k
    BY <1>10, <1>11, Climb
  <1>13. ASSUME NEW k \in 1 .. n PROVE f[k] = RemapOne(f[k - 1], R)
    <2>1. k - 1 \in 0 .. n
      OBVIOUS
    <2> QED
      BY <1>9, <1>12, <2>1
  <1>14. ASSUME NEW k \in 0 .. n PROVE f[k] = RemapSteps(i, f)[k]
    <2>1. CASE k = 0
      BY <1>1, <1>2, <1>8, <2>1 DEF RemapSteps
    <2>2. CASE k # 0
      <3>1. k \in 1 .. n
        BY <2>2
      <3> QED
        BY <1>1, <1>2, <1>13, <2>2, <3>1 DEF RemapSteps
    <2> QED
      BY <2>1, <2>2
  <1>15. f = RemapSteps(i, f)
    BY <1>1, <1>7, <1>14 DEF RemapSteps
  <1>16. PICK g : g = CHOOSE h : h = RemapSteps(i, h)
    OBVIOUS
  <1>17. g = RemapSteps(i, g)
    BY <1>15, <1>16, Zenon
  <1>18. Remapped(i) = g[n]
    BY <1>1, <1>16 DEF Remapped, RemapSteps, Forked
  <1>19. ASSUME NEW k \in 0 .. n
         PROVE  g[k] = IF k = 0 THEN a ELSE RemapOne(g[k - 1], R)
    BY <1>1, <1>2, <1>17 DEF RemapSteps
  <1>20. PICK Q : Q = {k \in 0 .. n : g[k] = f[k]}
    OBVIOUS
  <1>21. 0 \in Q /\ \A k \in 1 .. n : k - 1 \in Q => k \in Q
    BY <1>8, <1>13, <1>19, <1>20
  <1>22. \A k \in 0 .. n : g[k] = f[k]
    BY <1>20, <1>21, Climb
  <1>23. f \in [0 .. n -> Context] /\ f[0] = Forked(i) /\ Remapped(i) = f[n]
    BY <1>2, <1>7, <1>8, <1>18, <1>22
  <1>24. \A k \in 1 .. n : f[k] = RemapOne(f[k - 1], Registered(i))
    BY <1>2, <1>13
  <1> QED
    BY <1>1, <1>12, <1>23, <1>24, Zenon

-----------------------------------------------------------------------------
(***************************************************************************)
(* Types.                                                                  *)
(***************************************************************************)
Process == [state : {"none", "new", "run", "dead"}, t : Table, v : Ends, left : 0 .. MaxWrites,
            eof : BOOLEAN, reused : BOOLEAN,
            status : {"none", "failed", "sigpipe", "true", "false"}]

\* What the construct is about never changes.
Given ==
  /\ deftab \in Seq(Defer) /\ Len(deftab) <= MaxDefers
  /\ \A n \in 1 .. Len(deftab) :
       deftab[n].realfd \in {NoFd, LowestFree(Opened(SubSeq(deftab, 1, n - 1)))}
  /\ quoted \in BOOLEAN /\ NStages \in Stages /\ (quoted => NStages = 1)
  /\ \A i \in 1 .. NStages : ~IsLast(i) => OutFd(i) \in Fd
  /\ \A i \in 2 .. NStages : InFd(i) \in Fd

Types ==
  /\ TypeOK
  /\ proc \in [Stages -> Process]
  /\ p \in (Fd \cup {NoFd}) \X (Fd \cup {NoFd})

LEMMA UptoIs ==
  ASSUME NEW n \in Nat, NEW S, NEW f \in Upto(n, S)
  PROVE  f \in Seq(S) /\ Len(f) \in 0 .. n
  <1>1. PICK m \in 0 .. n : f \in [1 .. m -> S]
    BY DEF Upto
  <1> QED
    BY <1>1

LEMMA InitGiven == ASSUME Init PROVE Given
  <1>1. deftab \in Seq(Defer) /\ Len(deftab) \in 0 .. MaxDefers
    BY UptoIs, PipelineAssumption DEF Init
  <1>2. \A n \in 1 .. Len(deftab) :
          deftab[n].realfd \in {NoFd, LowestFree(Opened(SubSeq(deftab, 1, n - 1)))}
    BY <1>1 DEF Init
  <1>3. CASE quoted = FALSE /\ links \in Upto(MaxStages - 1, Link)
    <2>1. MaxStages - 1 \in Nat
      BY PipelineAssumption
    <2>2. links \in Seq(Link) /\ Len(links) \in 0 .. MaxStages - 1
      BY <1>3, <2>1, UptoIs
    <2>3. NStages = Len(links) + 1
      BY <1>3 DEF NStages
    <2>4. NStages \in Stages
      BY <2>1, <2>2, <2>3, PipelineAssumption DEF Stages
    <2>5. ASSUME NEW i \in 1 .. Len(links) PROVE links[i].out \in Fd /\ links[i].in \in Fd
      <3>1. links[i] \in Link
        BY <2>2
      <3> QED
        BY <3>1, PipelineAssumption DEF Link
    <2>6. ASSUME NEW i \in 1 .. NStages, ~IsLast(i) PROVE OutFd(i) \in Fd
      <3>1. i # Len(links) + 1
        BY <1>3, <2>3, <2>6 DEF IsLast
      <3>2. i \in 1 .. Len(links)
        BY <2>2, <2>3, <3>1
      <3> QED
        BY <2>5, <3>2 DEF OutFd
    <2>7. ASSUME NEW i \in 2 .. NStages PROVE InFd(i) \in Fd
      <3>1. i - 1 \in 1 .. Len(links)
        BY <2>2, <2>3
      <3> QED
        BY <2>5, <3>1 DEF InFd
    <2>8. quoted \in BOOLEAN /\ (quoted => NStages = 1)
      BY <1>3
    <2>9. Len(deftab) <= MaxDefers
      BY <1>1, PipelineAssumption
    <2> QED
      BY <1>1, <1>2, <2>4, <2>6, <2>7, <2>8, <2>9, Zenon DEF Given
  <1>4. CASE quoted = TRUE /\ links = <<[out |-> 1, in |-> 0]>>
    <2>1. NStages = 1 /\ 1 \in Stages
      BY <1>4, PipelineAssumption DEF NStages, Stages
    <2>2. links[1].out = 1
      BY <1>4
    <2>3. OutFd(1) \in Fd
      BY <2>2, FdIs DEF OutFd
    <2> QED
      BY <1>1, <1>2, <1>4, <2>1, <2>3 DEF Given
  <1> QED
    BY <1>3, <1>4 DEF Init

LEMMA BaseType == ASSUME Given PROVE Opened(deftab) \in Table
  <1>1. deftab \in Seq(Defer) /\ Len(deftab) \in 0 .. Len(deftab)
    BY DEF Given
  <1>2. PICK f \in [0 .. Len(deftab) -> Table] : Opened(deftab) = f[Len(deftab)]
    BY <1>1, OpenedIs
  <1> QED
    BY <1>1, <1>2

LEMMA InitTypes == ASSUME Init PROVE Types
  <1>1. fdt \in Table
    BY InitGiven, BaseType DEF Init
  <1>2. NoProc \in Process
    BY PipelineAssumption DEF NoProc, Process, Ends, Table
  <1>3. proc \in [Stages -> Process] /\ \A i \in Stages : proc[i] = NoProc
    BY <1>2 DEF Init
  <1>4. data \in [Stages -> 0 .. Room]
    BY PipelineAssumption DEF Init
  <1>5. 1 \in Stages
    BY PipelineAssumption DEF Stages
  <1>6. TypeOK
    BY <1>1, <1>2, <1>3, <1>4, <1>5 DEF Init, TypeOK, Process
  <1> QED
    BY <1>3, <1>6 DEF Init, Types

LEMMA EndsAreFiles ==
  ASSUME NEW k \in Stages
  PROVE  /\ ReadEnd(k) \in Files /\ WriteEnd(k) \in Files
         /\ ReadEnd(k) # Closed /\ WriteEnd(k) # Closed
  BY PipelineAssumption, TableAssumption

\* pipe takes two numbers that were free.
LEMMA MakePipeIs ==
  ASSUME Types, MakePipe
  PROVE  \E r, w \in Fd :
           /\ p' = <<r, w>> /\ r # w /\ fdt[r] = Closed /\ fdt[w] = Closed
           /\ fdt' \in Table
           /\ \A u \in Fd : fdt'[u] = IF u = w THEN WriteEnd(stage)
                                      ELSE IF u = r THEN ReadEnd(stage) ELSE fdt[u]
  <1>1. fdt \in Table /\ stage \in Stages
    BY DEF Types, TypeOK
  <1>2. PICK r, t, w : r = LowestFree(fdt) /\ t = OpenAt(fdt, r, ReadEnd(stage))
                       /\ w = LowestFree(t)
    OBVIOUS
  <1>3. r # NoFd /\ w # NoFd /\ p' = <<r, w>> /\ fdt' = OpenAt(t, w, WriteEnd(stage))
    BY <1>2, Zenon DEF MakePipe
  <1>4. r \in Fd /\ fdt[r] = Closed /\ w \in Fd /\ t[w] = Closed
    BY <1>2, <1>3, LowestFreeIs
  <1>5. t \in Table /\ \A u \in Fd : t[u] = IF u = r THEN ReadEnd(stage) ELSE fdt[u]
    BY <1>1, <1>2, EndsAreFiles, OpenAtIs, CloseFdIs
  <1>6. fdt' \in Table
        /\ \A u \in Fd : fdt'[u] = IF u = w THEN WriteEnd(stage) ELSE t[u]
    BY <1>1, <1>3, <1>5, EndsAreFiles, OpenAtIs, CloseFdIs
  <1>7. w # r /\ fdt[w] = Closed
    BY <1>1, <1>4, <1>5, EndsAreFiles
  <1> QED
    BY <1>3, <1>4, <1>5, <1>6, <1>7

LEMMA NewChildIs ==
  ASSUME Types, NEW i \in Stages, NEW t \in Table, NEW r \in Fd \cup {NoFd},
         NEW w \in Fd \cup {NoFd}, NEW q, q = <<r, w>>, NewChild(i, t, q)
  PROVE  /\ proc' \in [Stages -> Process]
         /\ \A j \in Stages \ {i} : proc'[j] = proc[j]
         /\ proc'[i].state = "new" /\ proc'[i].t = t /\ proc'[i].status = proc[i].status
         /\ proc'[i].reused = proc[i].reused
         /\ proc'[i].v = [inpipe |-> inpipe, p0 |-> r, p1 |-> w]
  <1>1. proc \in [Stages -> Process] /\ inpipe \in Fd \cup {NoFd} /\ MaxWrites \in 0 .. MaxWrites
    BY PipelineAssumption DEF Types, TypeOK
  <1>2. PICK c \in Process : c = proc[i]
    BY <1>1
  <1>3. PICK v \in Ends : v = [inpipe |-> inpipe, p0 |-> r, p1 |-> w]
    BY <1>1 DEF Ends
  <1>4. PICK e : e = [c EXCEPT !.state = "new", !.t = t, !.left = MaxWrites, !.eof = (i = 1),
                               !.v = v]
    OBVIOUS
  <1>5. e = [state |-> "new", t |-> t, v |-> v, left |-> MaxWrites, eof |-> (i = 1),
             reused |-> c.reused, status |-> c.status]
    BY <1>4 DEF Process
  <1>6. (i = 1) \in BOOLEAN
    OBVIOUS
  <1>7. e \in Process
    BY <1>1, <1>5, <1>6 DEF Process
  <1>8. proc' = [proc EXCEPT ![i] = e]
    BY <1>2, <1>3, <1>4, Zenon DEF NewChild
  <1>9. proc'[i] = e /\ \A j \in Stages \ {i} : proc'[j] = proc[j]
    BY <1>1, <1>8
  <1>10. proc' \in [Stages -> Process]
    BY <1>1, <1>7, <1>8
  <1> QED
    BY <1>2, <1>3, <1>5, <1>9, <1>10

LEMMA MvfdType ==
  ASSUME NEW t \in Table, NEW old, NEW new, MvfdOk(t, old, new)
  PROVE  Mvfd(t, old, new) \in Table
  BY DEF Mvfd, MvfdOk, Table

\* The child that applied the redirections moves its ends and runs its command, or fails.
LEMMA SetUpIs ==
  ASSUME Given, Types, NEW i \in Stages, SetUp(i)
  PROVE  \E c \in Context, r \in Process :
           /\ c = Remapped(i) /\ proc' = [proc EXCEPT ![i] = r]
           /\ proc[i].state = "new" /\ UNCHANGED <<shell, data>>
           /\ Moves(i, c) => /\ OutMoved(i, c) \in Table
                             /\ r.state = "run" /\ r.t = OutMoved(i, c)
                             /\ r.status = proc[i].status
           /\ ~Moves(i, c) => r.state = "dead" /\ r.status = "failed"
           /\ r.reused <=> Reused(i, c)
  <1>1. proc \in [Stages -> Process] /\ deftab \in Seq(Defer)
    BY DEF Types, Given
  <1>2. PICK a \in Process : a = proc[i]
    BY <1>1
  <1>3. proc[i].t \in Table /\ proc[i].v \in Ends
    BY <1>2 DEF Process
  <1>4. PICK c \in Context : c = Remapped(i)
    <2>1. PICK f \in [0 .. Len(deftab) -> Context] : Remapped(i) = f[Len(deftab)]
      BY <1>1, <1>3, RemappedIs
    <2>2. Len(deftab) \in 0 .. Len(deftab)
      BY <1>1
    <2> QED
      BY <2>1, <2>2
  <1>5. Moves(i, c) => OutMoved(i, c) \in Table
    <2>1. c.t \in Table /\ c.v \in Ends
      BY DEF Context
    <2>2. PICK t : t = InMoved(i, c)
      OBVIOUS
    <2>3. Moves(i, c) => t \in Table
      BY <2>1, <2>2, MvfdType DEF Moves, InMoved
    <2>4. Moves(i, c) /\ ~IsLast(i) => Mvfd(t, c.v.p1, OutFd(i)) \in Table
      BY <2>2, <2>3, MvfdType DEF Moves
    <2>5. Moves(i, c) /\ ~IsLast(i) => CloseFd(Mvfd(t, c.v.p1, OutFd(i)), c.v.p0) \in Table
      BY <2>4, OpenAtIs, CloseFdIs
    <2> QED
      BY <2>2, <2>3, <2>5 DEF OutMoved
  <1>6. PICK b \in BOOLEAN : b = Reused(i, c)
    <2>1. Reused(i, c) \in BOOLEAN
      BY Zenon DEF Reused
    <2> QED
      BY <2>1
  <1>7. PICK r : r = IF Moves(i, c)
                       THEN [a EXCEPT !.state = "run", !.t = OutMoved(i, c), !.reused = b]
                       ELSE [a EXCEPT !.state = "dead", !.status = "failed", !.reused = b]
    OBVIOUS
  <1>8. proc' = [proc EXCEPT ![i] = r] /\ proc[i].state = "new" /\ UNCHANGED <<shell, data>>
    BY <1>2, <1>4, <1>6, <1>7, Zenon DEF SetUp
  <1>9. CASE Moves(i, c)
    <2>1. r = [a EXCEPT !.state = "run", !.t = OutMoved(i, c), !.reused = b]
      BY <1>7, <1>9
    <2>2. r \in Process /\ r.state = "run" /\ r.t = OutMoved(i, c) /\ r.status = a.status
          /\ r.reused = b
      BY <1>5, <1>9, <2>1 DEF Process
    <2> QED
      BY <1>2, <1>4, <1>5, <1>6, <1>8, <1>9, <2>2, Zenon
  <1>10. CASE ~Moves(i, c)
    <2>1. r = [a EXCEPT !.state = "dead", !.status = "failed", !.reused = b]
      BY <1>7, <1>10
    <2>2. r \in Process /\ r.state = "dead" /\ r.status = "failed" /\ r.reused = b
      BY <2>1 DEF Process
    <2> QED
      BY <1>2, <1>4, <1>6, <1>8, <1>10, <2>2, Zenon
  <1> QED
    BY <1>9, <1>10

\* What a command does keeps its table.
LEMMA RunIs ==
  ASSUME Types, NEW i \in Stages, Read(i) \/ Write(i) \/ Finish(i) \/ Quit(i)
  PROVE  \E r \in Process :
           /\ proc' = [proc EXCEPT ![i] = r] /\ proc[i].state = "run" /\ UNCHANGED shell
           /\ data' \in [Stages -> 0 .. Room]
           /\ r.state \in {"run", "dead"} /\ r.t = proc[i].t /\ r.reused = proc[i].reused
           /\ r.status \in {proc[i].status, "sigpipe", "true", "false"}
  <1>1. /\ proc \in [Stages -> Process] /\ data \in [Stages -> 0 .. Room]
        /\ Room \in Nat /\ MaxWrites \in Nat
    BY PipelineAssumption DEF Types, TypeOK
  <1>2. PICK a \in Process : a = proc[i]
    BY <1>1
  <1>3. proc[i].state = "run" /\ UNCHANGED shell
    BY DEF Read, Write, Finish, Quit
  <1>4. [proc EXCEPT ![i] = a] = proc
    BY <1>1, <1>2
  <1>5. ASSUME NEW s \in {"sigpipe", "true", "false"}, Die(i, s)
        PROVE  \E r \in Process :
           /\ proc' = [proc EXCEPT ![i] = r]
           /\ r.state = "dead" /\ r.t = a.t /\ r.reused = a.reused /\ r.status = s
    <2>1. PICK r : r = [a EXCEPT !.state = "dead", !.status = s]
      OBVIOUS
    <2>2. r \in Process /\ r.state = "dead" /\ r.t = a.t /\ r.reused = a.reused /\ r.status = s
      BY <2>1 DEF Process
    <2>3. proc' = [proc EXCEPT ![i] = r]
      BY <1>1, <1>2, <1>5, <2>1 DEF Die, Process
    <2> QED
      BY <2>2, <2>3
  <1>6. CASE Read(i)
    <2>1. CASE UNCHANGED proc
               /\ \E k \in Stages : data[k] > 0 /\ data' = [data EXCEPT ![k] = @ - 1]
      <3>1. PICK k \in Stages : data[k] > 0 /\ data' = [data EXCEPT ![k] = @ - 1]
        BY <2>1
      <3>2. data' \in [Stages -> 0 .. Room]
        BY <1>1, <3>1
      <3> QED
        BY <1>2, <1>3, <1>4, <2>1, <3>2
    <2>2. CASE proc' = [proc EXCEPT ![i].eof = TRUE] /\ UNCHANGED data
      <3>1. PICK r : r = [a EXCEPT !.eof = TRUE]
        OBVIOUS
      <3>2. r \in Process /\ r.state = a.state /\ r.t = a.t /\ r.reused = a.reused
            /\ r.status = a.status
        BY <3>1 DEF Process
      <3>3. proc' = [proc EXCEPT ![i] = r]
        BY <1>1, <1>2, <2>2, <3>1 DEF Process
      <3> QED
        BY <1>1, <1>2, <1>3, <2>2, <3>2, <3>3
    <2> QED
      BY <1>6, <2>1, <2>2 DEF Read
  <1>7. CASE Write(i)
    <2> DEFINE Wrote == proc' = [proc EXCEPT ![i].left = @ - 1]
    <2>1. ASSUME Wrote, data' \in [Stages -> 0 .. Room]
          PROVE  \E r \in Process :
           /\ proc' = [proc EXCEPT ![i] = r] /\ proc[i].state = "run" /\ UNCHANGED shell
           /\ data' \in [Stages -> 0 .. Room]
           /\ r.state \in {"run", "dead"} /\ r.t = proc[i].t /\ r.reused = proc[i].reused
           /\ r.status \in {proc[i].status, "sigpipe", "true", "false"}
      <3>1. PICK r : r = [a EXCEPT !.left = a.left - 1]
        OBVIOUS
      <3>2. a.left > 0 /\ a.left \in 0 .. MaxWrites
        BY <1>2, <1>7 DEF Write, Process
      <3>3. a.left - 1 \in 0 .. MaxWrites
        BY <1>1, <3>2
      <3>4. r \in Process /\ r.state = a.state /\ r.t = a.t /\ r.reused = a.reused
            /\ r.status = a.status
        BY <3>1, <3>3 DEF Process
      <3>5. proc' = [proc EXCEPT ![i] = r]
        BY <1>1, <1>2, <2>1, <3>1 DEF Process
      <3> QED
        BY <1>2, <1>3, <2>1, <3>4, <3>5
    <2>2. CASE Wrote /\ UNCHANGED data
      BY <1>1, <2>1, <2>2
    <2>3. ASSUME NEW k \in Stages, Wrote, data[k] < Room, data' = [data EXCEPT ![k] = @ + 1]
          PROVE  data' \in [Stages -> 0 .. Room]
      BY <1>1, <2>3
    <2>4. CASE Die(i, "sigpipe") /\ UNCHANGED data
      BY <1>1, <1>2, <1>3, <1>5, <2>4
    <2>5. \/ Wrote /\ UNCHANGED data
          \/ \E k \in Stages : Wrote /\ data[k] < Room /\ data' = [data EXCEPT ![k] = @ + 1]
          \/ Die(i, "sigpipe") /\ UNCHANGED data
      BY <1>7, Zenon DEF Write
    <2> HIDE DEF Wrote
    <2> QED
      BY <2>1, <2>2, <2>3, <2>4, <2>5, Zenon
  <1>8. CASE Finish(i)
    BY <1>1, <1>2, <1>3, <1>5, <1>8 DEF Finish
  <1>9. CASE Quit(i)
    BY <1>1, <1>2, <1>3, <1>5, <1>9 DEF Quit
  <1> QED
    BY <1>6, <1>7, <1>8, <1>9

-----------------------------------------------------------------------------
(***************************************************************************)
(* The shell.                                                              *)
(***************************************************************************)

\* Numbers that have, or may have, ends of pipes.
Own == IF pc \in {"fork", "read"} \/ (pc = "close" /\ IsLast(stage)) THEN {inpipe}
       ELSE IF pc \in {"close", "failed"} THEN {inpipe, p[1], p[2]} ELSE {}

\* The others are as the redirections left them, and those were free.
ShellTable ==
  \A u \in Fd : /\ u \notin Own => fdt[u] = Opened(deftab)[u]
                /\ u \in Own /\ pc # "failed" => Opened(deftab)[u] = Closed

\* inpipe is the read end of the pipe before, and p of the pipe behind the last fork.
ShellEnds ==
  /\ stage \in 1 .. NStages
  /\ pc = "read" => quoted
  /\ pc \in {"fork", "close"} =>
       IF stage = 1 THEN inpipe = NoFd ELSE inpipe \in Fd /\ fdt[inpipe] = ReadEnd(stage - 1)
  /\ pc = "close" /\ ~IsLast(stage) =>
       /\ p[1] \in Fd /\ p[2] \in Fd /\ p[1] # p[2] /\ inpipe \notin {p[1], p[2]}
       /\ fdt[p[1]] = ReadEnd(stage) /\ fdt[p[2]] = WriteEnd(stage)

\* How many commands are forked, and below which the shell has not waited yet.
Begun == IF pc = "fork" THEN stage - 1 ELSE IF pc \in {"close", "read"} THEN stage ELSE NStages
Awaited == IF pc = "wait" THEN stage ELSE IF pc = "done" THEN 0 ELSE NStages

ChildrenRight ==
  /\ \A i \in Stages : /\ i > Begun => proc[i].state = "none"
                       /\ i <= Begun /\ pc # "failed" => proc[i].state # "none"
                       /\ proc[i].state = "none" => proc[i] = NoProc
  /\ \A i \in Awaited + 1 .. NStages : proc[i].state = "dead"
  /\ result = [i \in 1 .. NStages - Awaited |-> proc[Awaited + i].status]

SInv == Given /\ Types /\ ShellTable /\ ShellEnds /\ ChildrenRight

LEMMA GivenKept ==
  ASSUME Given, UNCHANGED <<deftab, links, quoted>>
  PROVE  Given' /\ NStages' = NStages /\ Opened(deftab)' = Opened(deftab)
  <1>1. NStages' = NStages
    BY DEF NStages
  <1>2. \A i : IsLast(i)' <=> IsLast(i)
    BY <1>1 DEF IsLast
  <1>3. \A i : OutFd(i)' = OutFd(i) /\ InFd(i)' = InFd(i)
    BY DEF OutFd, InFd
  <1>4. Opened(deftab)' = Opened(deftab)
    OBVIOUS
  <1> QED
    BY <1>1, <1>2, <1>3, <1>4 DEF Given

LEMMA InitSInv == ASSUME Init PROVE SInv
  <1>1. Given /\ Types
    BY InitGiven, InitTypes
  <1>2. NStages \in Nat \ {0} /\ NStages \in Stages
    BY <1>1, PipelineAssumption DEF Given, Stages
  <1>3. ShellTable
    BY FdIs DEF Init, ShellTable, Own
  <1>4. ShellEnds
    BY <1>2 DEF Init, ShellEnds
  <1>5. Begun = 0 /\ Awaited = NStages
    BY DEF Init, Begun, Awaited
  <1>6. \A i \in Stages : proc[i] = NoProc /\ proc[i].state = "none" /\ i > 0
    BY DEF Init, NoProc, Stages
  <1>7. result = [i \in 1 .. NStages - Awaited |-> proc[Awaited + i].status]
    <2>1. 1 .. NStages - Awaited = {}
      BY <1>2, <1>5
    <2> QED
      BY <2>1 DEF Init
  <1>8. Awaited + 1 .. NStages = {}
    BY <1>2, <1>5
  <1>9. \A i \in Stages : i > Begun /\ ~ i <= Begun
    BY <1>5, <1>6, PipelineAssumption DEF Stages
  <1>10. ChildrenRight
    BY <1>6, <1>7, <1>8, <1>9 DEF ChildrenRight
  <1> QED
    BY <1>1, <1>3, <1>4, <1>10 DEF SInv

\* Children that are not awaited any more have not moved.
LEMMA SameResult ==
  ASSUME SInv, NStages' = NStages, Awaited' = Awaited, result' = result,
         \A i \in Awaited + 1 .. NStages : proc'[i] = proc[i]
  PROVE  /\ \A i \in Awaited' + 1 .. NStages' : proc'[i].state = "dead"
         /\ result' = [i \in 1 .. NStages' - Awaited' |-> proc'[Awaited' + i].status]
  <1>1. Awaited \in Nat /\ NStages \in Nat
    BY PipelineAssumption DEF SInv, Given, ShellEnds, Stages, Awaited
  <1>2. ASSUME NEW i \in 1 .. NStages - Awaited PROVE Awaited + i \in Awaited + 1 .. NStages
    BY <1>1
  <1>3. result = [i \in 1 .. NStages - Awaited |-> proc[Awaited + i].status]
    BY DEF SInv, ChildrenRight
  <1>4. [i \in 1 .. NStages - Awaited |-> proc[Awaited + i].status]
        = [i \in 1 .. NStages - Awaited |-> proc'[Awaited + i].status]
    BY <1>2
  <1> QED
    BY <1>3, <1>4 DEF SInv, ChildrenRight

\* The shell's variables have their types.
LEMMA SInvTypes ==
  ASSUME SInv
  PROVE  /\ fdt \in Table /\ stage \in Stages /\ stage \in 1 .. NStages /\ inpipe \in Fd \cup {NoFd}
         /\ NStages \in Nat \ {0} /\ Stages = 1 .. MaxStages /\ MaxStages \in Nat
         /\ NStages \in Stages /\ proc \in [Stages -> Process] /\ Opened(deftab) \in Table
         /\ quoted \in BOOLEAN /\ (IsLast(stage) <=> ~quoted /\ stage = NStages)
  BY BaseType, PipelineAssumption DEF SInv, Given, Types, TypeOK, ShellEnds, Stages, IsLast

\* A failure leaves the construct.
LEMMA FailedSInv == ASSUME SInv, PipeFails \/ ForkFails PROVE SInv'
  <1>1. pc = "fork" /\ pc' = "failed" /\ UNCHANGED <<deftab, links, quoted, stage, inpipe, result, proc>>
        /\ UNCHANGED data
    BY DEF PipeFails, ForkFails
  <1>2. Given' /\ NStages' = NStages /\ Opened(deftab)' = Opened(deftab)
    BY <1>1, GivenKept DEF SInv
  <1>3. Own = {inpipe} /\ Own' = {inpipe, p'[1], p'[2]} /\ inpipe' = inpipe
    BY <1>1 DEF Own
  <1>4. /\ fdt' \in Table /\ p' \in (Fd \cup {NoFd}) \X (Fd \cup {NoFd})
        /\ \A u \in Fd : u \notin Own' => fdt'[u] = fdt[u]
    <2>1. CASE UNCHANGED <<fdt, p>>
      BY <2>1, SInvTypes DEF SInv, Types
    <2>2. CASE MakePipe
      <3>1. PICK r, w \in Fd :
              /\ p' = <<r, w>> /\ fdt' \in Table
              /\ \A u \in Fd : fdt'[u] = IF u = w THEN WriteEnd(stage)
                                         ELSE IF u = r THEN ReadEnd(stage) ELSE fdt[u]
        BY <2>2, MakePipeIs DEF SInv
      <3> QED
        BY <1>3, <3>1
    <2> QED
      BY <2>1, <2>2 DEF PipeFails, ForkFails
  <1>5. Types'
    BY <1>1, <1>4 DEF SInv, Types, TypeOK
  <1>6. ShellTable'
    BY <1>1, <1>2, <1>3, <1>4 DEF SInv, ShellTable
  <1>7. ShellEnds'
    BY <1>1, <1>2 DEF SInv, ShellEnds
  <1>8. Awaited' = Awaited /\ Begun' = NStages /\ Begun = stage - 1
    BY <1>1, <1>2 DEF Awaited, Begun
  <1>9. /\ \A i \in Awaited' + 1 .. NStages' : proc'[i].state = "dead"
        /\ result' = [i \in 1 .. NStages' - Awaited' |-> proc'[Awaited' + i].status]
    BY <1>1, <1>2, <1>8, SameResult
  <1>10. \A i \in Stages : i > Begun' => i > Begun
    BY <1>8, SInvTypes
  <1>11. ChildrenRight'
    BY <1>1, <1>9, <1>10 DEF SInv, ChildrenRight
  <1> QED
    BY <1>2, <1>5, <1>6, <1>7, <1>11 DEF SInv

\* One more child, with the pipe behind it unless it is the last.
LEMMA ForkSInv == ASSUME SInv, Fork PROVE SInv'
  <1>1. /\ pc = "fork" /\ pc' = "close"
        /\ UNCHANGED <<deftab, links, quoted, stage, inpipe, result, data>>
    BY DEF Fork
  <1>2. Given' /\ NStages' = NStages /\ Opened(deftab)' = Opened(deftab)
        /\ (IsLast(stage)' <=> IsLast(stage))
    BY <1>1, GivenKept DEF SInv, IsLast
  <1>3. NewChild(stage, fdt', p')
    BY DEF Fork
  <1>4. \E r, w \in Fd \cup {NoFd} :
          /\ p' = <<r, w>> /\ fdt' \in Table
          /\ \A u \in Fd : u \notin Own' => fdt'[u] = fdt[u]
          /\ \A u \in Own' : u \in Fd => Opened(deftab)[u] = Closed
          /\ ~IsLast(stage) => /\ r \in Fd /\ w \in Fd /\ r # w /\ inpipe \notin {r, w}
                               /\ fdt'[r] = ReadEnd(stage) /\ fdt'[w] = WriteEnd(stage)
          /\ stage # 1 => fdt'[inpipe] = ReadEnd(stage - 1)
    <2>1. CASE IsLast(stage)
      <3>1. UNCHANGED <<fdt, p>>
        BY <2>1 DEF Fork
      <3>2. PICK r, w \in Fd \cup {NoFd} : p = <<r, w>>
        BY DEF SInv, Types
      <3>3. Own' = Own
        BY <1>1, <1>2, <2>1 DEF Own
      <3>4. stage # 1 => fdt[inpipe] = ReadEnd(stage - 1)
        BY <1>1 DEF SInv, ShellEnds
      <3>5. \A u \in Own : u \in Fd => Opened(deftab)[u] = Closed
        BY <1>1 DEF SInv, ShellTable
      <3> QED
        BY <1>1, <2>1, <3>1, <3>2, <3>3, <3>4, <3>5, SInvTypes
    <2>2. CASE ~IsLast(stage)
      <3>1. PICK r, w \in Fd :
              /\ p' = <<r, w>> /\ r # w /\ fdt[r] = Closed /\ fdt[w] = Closed
              /\ fdt' \in Table
              /\ \A u \in Fd : fdt'[u] = IF u = w THEN WriteEnd(stage)
                                         ELSE IF u = r THEN ReadEnd(stage) ELSE fdt[u]
        BY <2>2, MakePipeIs DEF Fork, SInv
      <3>2. Own' = {inpipe, r, w} /\ Own = {inpipe}
        BY <1>1, <1>2, <2>2, <3>1 DEF Own
      <3>3. IF stage = 1 THEN inpipe = NoFd ELSE inpipe \in Fd /\ fdt[inpipe] = ReadEnd(stage - 1)
        BY <1>1 DEF SInv, ShellEnds
      <3>4. stage # 1 => ReadEnd(stage - 1) # Closed
        <4>1. stage # 1 => stage - 1 \in Stages
          BY SInvTypes
        <4> QED
          BY <4>1, EndsAreFiles
      <3>5. inpipe \notin {r, w}
        BY <3>1, <3>3, <3>4, FdIs
      <3>6. \A u \in Fd : /\ u \notin {inpipe} => fdt[u] = Opened(deftab)[u]
                          /\ u \in {inpipe} => Opened(deftab)[u] = Closed
        BY <1>1, <3>2 DEF SInv, ShellTable
      <3>7. \A u \in Own' : u \in Fd => Opened(deftab)[u] = Closed
        BY <3>1, <3>2, <3>5, <3>6
      <3>8. \A u \in Fd : u \notin Own' => fdt'[u] = fdt[u]
        BY <3>1, <3>2
      <3>9. stage # 1 => fdt'[inpipe] = ReadEnd(stage - 1)
        BY <3>1, <3>3, <3>5
      <3>10. fdt'[r] = ReadEnd(stage) /\ fdt'[w] = WriteEnd(stage)
        BY <3>1
      <3> QED
        BY <3>1, <3>5, <3>7, <3>8, <3>9, <3>10
    <2> QED
      BY <2>1, <2>2
  <1>5. PICK r, w \in Fd \cup {NoFd} :
          /\ p' = <<r, w>> /\ fdt' \in Table
          /\ \A u \in Fd : u \notin Own' => fdt'[u] = fdt[u]
          /\ \A u \in Own' : u \in Fd => Opened(deftab)[u] = Closed
          /\ ~IsLast(stage) => /\ r \in Fd /\ w \in Fd /\ r # w /\ inpipe \notin {r, w}
                               /\ fdt'[r] = ReadEnd(stage) /\ fdt'[w] = WriteEnd(stage)
          /\ stage # 1 => fdt'[inpipe] = ReadEnd(stage - 1)
    BY <1>4
  <1>6. /\ proc' \in [Stages -> Process]
        /\ \A j \in Stages \ {stage} : proc'[j] = proc[j]
        /\ proc'[stage].state = "new"
    BY <1>3, <1>5, SInvTypes, NewChildIs DEF SInv
  <1>7. Types'
    <2>1. \A i \in Stages : proc'[i] \in Process
      BY <1>6
    <2>2. \A i \in Stages : /\ proc'[i].state \in {"none", "new", "run", "dead"}
                            /\ proc'[i].t \in Table /\ proc'[i].left \in 0 .. MaxWrites
      BY <2>1 DEF Process
    <2>3. p' \in (Fd \cup {NoFd}) \X (Fd \cup {NoFd})
      BY <1>5
    <2> QED
      BY <1>1, <1>5, <1>6, <2>2, <2>3 DEF SInv, Types, TypeOK
  <1>8. ShellTable'
    <2>1. Own = {inpipe} /\ inpipe \in Own'
      BY <1>1 DEF Own
    <2> QED
      BY <1>1, <1>2, <1>5, <2>1 DEF SInv, ShellTable
  <1>9. ShellEnds'
    <2>1. p'[1] = r /\ p'[2] = w
      BY <1>5
    <2> QED
      BY <1>1, <1>2, <1>5, <2>1 DEF SInv, ShellEnds
  <1>10. Awaited' = Awaited /\ Awaited = NStages /\ Begun' = stage /\ Begun = stage - 1
    BY <1>1, <1>2 DEF Awaited, Begun
  <1>11. Awaited + 1 .. NStages = {}
    BY <1>10, SInvTypes
  <1>12. /\ \A i \in Awaited' + 1 .. NStages' : proc'[i].state = "dead"
         /\ result' = [i \in 1 .. NStages' - Awaited' |-> proc'[Awaited' + i].status]
    BY <1>1, <1>2, <1>10, <1>11, SameResult
  <1>13. ASSUME NEW i \in Stages
         PROVE  /\ i > stage => proc'[i].state = "none"
                /\ i <= stage => proc'[i].state # "none"
                /\ proc'[i].state = "none" => proc'[i] = NoProc
    <2>1. CASE i = stage
      BY <1>6, <2>1, SInvTypes
    <2>2. CASE i # stage
      <3>1. proc'[i] = proc[i]
        BY <1>6, <2>2
      <3>2. (i > stage => i > stage - 1) /\ (i <= stage => i <= stage - 1)
        BY <2>2, SInvTypes
      <3> QED
        BY <1>1, <1>10, <3>1, <3>2 DEF SInv, ChildrenRight
    <2> QED
      BY <2>1, <2>2
  <1>14. ChildrenRight'
    BY <1>10, <1>12, <1>13 DEF ChildrenRight
  <1> QED
    BY <1>2, <1>7, <1>8, <1>9, <1>14 DEF SInv

\* The shell closes the end it read before, and the one the child writes.
LEMMA CloseEndsSInv == ASSUME SInv, CloseEnds PROVE SInv'
  <1>1. pc = "close" /\ UNCHANGED <<deftab, links, quoted, p, result, proc, data>>
    BY DEF CloseEnds
  <1>2. Given' /\ NStages' = NStages /\ Opened(deftab)' = Opened(deftab)
    BY <1>1, GivenKept DEF SInv
  <1>3. Begun = stage /\ Awaited = NStages /\ Awaited + 1 .. NStages = {}
    BY <1>1, SInvTypes DEF Begun, Awaited
  <1>4. fdt \in Table
    BY SInvTypes
  <1>5. CASE IsLast(stage)
    <2>1. fdt' = CloseFd(fdt, inpipe) /\ pc' = "wait" /\ stage' = stage /\ inpipe' = inpipe
      BY <1>5 DEF CloseEnds, FirstWaited
    <2>2. fdt' \in Table /\ \A u \in Fd : fdt'[u] = IF u = inpipe THEN Closed ELSE fdt[u]
      BY <1>4, <2>1, OpenAtIs, CloseFdIs
    <2>3. Own = {inpipe} /\ Own' = {}
      BY <1>1, <1>5, <2>1 DEF Own
    <2>4. Types'
      BY <1>1, <2>1, <2>2 DEF SInv, Types, TypeOK
    <2>5. ShellTable'
      BY <1>1, <1>2, <2>2, <2>3 DEF SInv, ShellTable
    <2>6. ShellEnds'
      BY <1>2, <2>1, SInvTypes DEF ShellEnds
    <2>7. Awaited' = Awaited /\ Begun' = Begun
      BY <1>2, <1>3, <1>5, <2>1, SInvTypes DEF Awaited, Begun
    <2>8. ChildrenRight'
      BY <1>1, <1>2, <2>1, <2>7 DEF SInv, ChildrenRight
    <2> QED
      BY <1>2, <2>4, <2>5, <2>6, <2>8 DEF SInv
  <1>6. CASE ~IsLast(stage)
    <2>1. PICK r, w \in Fd : p = <<r, w>> /\ r # w /\ inpipe \notin {r, w}
                             /\ fdt[r] = ReadEnd(stage)
      <3>1. p = <<p[1], p[2]>>
        BY DEF SInv, Types
      <3> QED
        BY <1>1, <1>6, <3>1 DEF SInv, ShellEnds
    <2>2. /\ fdt' = CloseFd(CloseFd(fdt, inpipe), w) /\ inpipe' = r
          /\ \/ quoted /\ pc' = "read" /\ stage' = stage
             \/ ~quoted /\ pc' = "fork" /\ stage' = stage + 1
      BY <1>6, <2>1 DEF CloseEnds, AfterFork
    <2>3. PICK t : t = CloseFd(fdt, inpipe)
      OBVIOUS
    <2>4. t \in Table /\ \A u \in Fd : t[u] = IF u = inpipe THEN Closed ELSE fdt[u]
      BY <1>4, <2>3, OpenAtIs, CloseFdIs
    <2>5. fdt' \in Table /\ \A u \in Fd : fdt'[u] = IF u = w THEN Closed ELSE t[u]
      BY <2>2, <2>3, <2>4, OpenAtIs, CloseFdIs
    <2>6. Own = {inpipe, r, w} /\ Own' = {r}
      <3>1. p[1] = r /\ p[2] = w
        BY <2>1
      <3> QED
        BY <1>1, <1>6, <2>2, <3>1 DEF Own
    <2>7. stage' \in 1 .. NStages /\ stage' \in Stages
      <3>1. ~quoted => stage # NStages
        BY <1>6, SInvTypes
      <3> QED
        BY <2>2, <3>1, SInvTypes
    <2>8. Types'
      <3>1. pc' \in {"fork", "close", "read", "wait", "done", "failed"}
        BY <2>2
      <3> QED
        BY <1>1, <2>2, <2>5, <2>7, <3>1 DEF SInv, Types, TypeOK
    <2>9. ShellTable'
      <3>1. \A u \in Fd : /\ u \notin {inpipe, r, w} => fdt[u] = Opened(deftab)[u]
                          /\ u \in {inpipe, r, w} => Opened(deftab)[u] = Closed
        BY <1>1, <2>6 DEF SInv, ShellTable
      <3>2. \A u \in Fd : /\ u \notin {r} => fdt'[u] = Opened(deftab)[u]
                          /\ u \in {r} => Opened(deftab)[u] = Closed
        BY <2>4, <2>5, <3>1
      <3> QED
        BY <1>2, <2>6, <3>2 DEF ShellTable
    <2>10. ShellEnds'
      <3>1. fdt'[r] = ReadEnd(stage)
        BY <2>1, <2>4, <2>5
      <3>2. pc' = "fork" => stage' # 1 /\ stage' - 1 = stage
        BY <2>2, SInvTypes
      <3> QED
        BY <1>1, <1>2, <2>2, <2>7, <3>1, <3>2 DEF ShellEnds
    <2>11. Awaited' = Awaited /\ Begun' = Begun
      BY <1>2, <1>3, <2>2, SInvTypes DEF Awaited, Begun
    <2>12. pc' # "failed"
      BY <2>2
    <2>13. ChildrenRight'
      BY <1>1, <1>2, <2>11, <2>12 DEF SInv, ChildrenRight
    <2> QED
      BY <1>2, <2>8, <2>9, <2>10, <2>13 DEF SInv
  <1> QED
    BY <1>5, <1>6

\* A backquote reads, and closes its end when nobody can write.
LEMMA ReadBackSInv == ASSUME SInv, ReadBack PROVE SInv'
  <1>1. pc = "read" /\ UNCHANGED <<deftab, links, quoted, stage, inpipe, p, result, proc>>
    BY DEF ReadBack
  <1>2. Given' /\ NStages' = NStages /\ Opened(deftab)' = Opened(deftab)
    BY <1>1, GivenKept DEF SInv
  <1>3. NStages = 1 /\ stage = 1
    <2>1. NStages = 1
      BY <1>1 DEF SInv, Given, ShellEnds
    <2> QED
      BY <2>1, SInvTypes
  <1>4. data \in [Stages -> 0 .. Room] /\ 1 \in Stages /\ Room \in Nat
    BY <1>3, SInvTypes, PipelineAssumption DEF SInv, Types, TypeOK
  <1>5. CASE data[1] > 0 /\ data' = [data EXCEPT ![1] = @ - 1] /\ UNCHANGED <<fdt, pc>>
    <2>1. data' \in [Stages -> 0 .. Room]
      BY <1>4, <1>5
    <2>2. Types'
      BY <1>1, <1>5, <2>1 DEF SInv, Types, TypeOK
    <2>3. Own' = Own
      BY <1>1, <1>5 DEF Own
    <2>4. ShellTable'
      BY <1>2, <1>5, <2>3 DEF SInv, ShellTable
    <2>5. ShellEnds'
      BY <1>1, <1>2, <1>5 DEF SInv, ShellEnds
    <2>6. Awaited' = Awaited /\ Begun' = Begun
      BY <1>1, <1>2, <1>5 DEF Awaited, Begun
    <2>7. ChildrenRight'
      BY <1>1, <1>2, <1>5, <2>6 DEF SInv, ChildrenRight
    <2> QED
      BY <1>2, <2>2, <2>4, <2>5, <2>7 DEF SInv
  <1>6. CASE fdt' = CloseFd(fdt, inpipe) /\ pc' = "wait" /\ UNCHANGED data
    <2>1. fdt' \in Table /\ \A u \in Fd : fdt'[u] = IF u = inpipe THEN Closed ELSE fdt[u]
      BY <1>6, SInvTypes, OpenAtIs, CloseFdIs
    <2>2. Types'
      BY <1>1, <1>6, <2>1 DEF SInv, Types, TypeOK
    <2>3. Own = {inpipe} /\ Own' = {}
      BY <1>1, <1>6 DEF Own
    <2>4. ShellTable'
      BY <1>1, <1>2, <2>1, <2>3 DEF SInv, ShellTable
    <2>5. ShellEnds'
      BY <1>1, <1>2, <1>6 DEF SInv, ShellEnds
    <2>6. Awaited' = Awaited /\ Begun' = Begun
      BY <1>1, <1>2, <1>3, <1>6 DEF Awaited, Begun
    <2>7. ChildrenRight'
      BY <1>1, <1>2, <1>6, <2>6 DEF SInv, ChildrenRight
    <2> QED
      BY <1>2, <2>2, <2>4, <2>5, <2>7 DEF SInv
  <1> QED
    BY <1>5, <1>6 DEF ReadBack

\* A backquote that fails to read leaves its end open or closes it.
LEMMA ReadFailsSInv == ASSUME SInv, ReadFails PROVE SInv'
  <1>1. pc = "read" /\ pc' = "failed"
        /\ UNCHANGED <<deftab, links, quoted, stage, inpipe, p, result, proc, data>>
    BY DEF ReadFails
  <1>2. Given' /\ NStages' = NStages /\ Opened(deftab)' = Opened(deftab)
    BY <1>1, GivenKept DEF SInv
  <1>3. NStages = 1 /\ stage = 1
    <2>1. NStages = 1
      BY <1>1 DEF SInv, Given, ShellEnds
    <2> QED
      BY <2>1, SInvTypes
  <1>4. fdt' \in Table /\ \A u \in Fd : u # inpipe => fdt'[u] = fdt[u]
    <2>1. CASE fdt' = CloseFd(fdt, inpipe)
      BY <2>1, SInvTypes, OpenAtIs, CloseFdIs
    <2>2. CASE UNCHANGED fdt
      BY <2>2, SInvTypes
    <2> QED
      BY <2>1, <2>2 DEF ReadFails
  <1>5. Types'
    BY <1>1, <1>4 DEF SInv, Types, TypeOK
  <1>6. Own = {inpipe} /\ Own' = {inpipe, p[1], p[2]}
    BY <1>1 DEF Own
  <1>7. ShellTable'
    BY <1>1, <1>2, <1>4, <1>6 DEF SInv, ShellTable
  <1>8. ShellEnds'
    BY <1>1, <1>2 DEF SInv, ShellEnds
  <1>9. Awaited' = Awaited /\ Begun' = Begun
    BY <1>1, <1>2, <1>3 DEF Awaited, Begun
  <1>10. ChildrenRight'
    BY <1>1, <1>2, <1>9 DEF SInv, ChildrenRight
  <1> QED
    BY <1>2, <1>5, <1>7, <1>8, <1>10 DEF SInv

\* The shell waits for the commands from the last to the first.
LEMMA WaitSInv == ASSUME SInv, Wait PROVE SInv'
  <1>1. /\ pc = "wait" /\ proc[stage].state = "dead"
        /\ result' = <<proc[stage].status>> \o result
        /\ UNCHANGED <<fdt, deftab, links, quoted, inpipe, p, proc, data>>
    BY DEF Wait, InFront
  <1>2. \/ stage = 1 /\ pc' = "done" /\ stage' = stage
        \/ stage # 1 /\ stage' = stage - 1 /\ pc' = "wait"
    BY <1>1 DEF Wait
  <1>3. Given' /\ NStages' = NStages /\ Opened(deftab)' = Opened(deftab)
    BY <1>1, GivenKept DEF SInv
  <1>4. Own = {} /\ Own' = {} /\ Awaited = stage /\ Awaited' = stage - 1
    BY <1>1, <1>2 DEF Own, Awaited
  <1>5. stage' \in Stages /\ stage' \in 1 .. NStages
    BY <1>2, SInvTypes
  <1>6. Types'
    BY <1>1, <1>2, <1>5 DEF SInv, Types, TypeOK
  <1>7. ShellTable'
    BY <1>1, <1>3, <1>4 DEF SInv, ShellTable
  <1>8. ShellEnds'
    BY <1>2, <1>3, <1>5 DEF ShellEnds
  <1>9. \A i \in stage .. NStages : proc[i].state = "dead"
    BY <1>1, <1>4, SInvTypes DEF SInv, ChildrenRight
  <1>10. result' = [i \in 1 .. NStages - (stage - 1) |-> proc[(stage - 1) + i].status]
    <2>1. PICK n \in Nat : n = NStages - stage
      BY SInvTypes
    <2>2. result = [i \in 1 .. n |-> proc[stage + i].status]
      BY <1>4, <2>1 DEF SInv, ChildrenRight
    <2>3. NStages - (stage - 1) = n + 1
      BY <2>1, SInvTypes
    <2>4. PICK s : s = proc[stage].status
      OBVIOUS
    <2>5. Len(result) = n /\ result \in Seq({proc[stage + i].status : i \in 1 .. n})
      BY <2>2
    <2>6. PICK S : S = {s} \cup {proc[stage + i].status : i \in 1 .. n}
      OBVIOUS
    <2>7. result \in Seq(S) /\ <<s>> \in Seq(S)
      BY <2>2, <2>6
    <2>8. PICK w : w = <<s>> \o result
      OBVIOUS
    <2>9. w \in Seq(S) /\ Len(w) = n + 1
      BY <2>5, <2>7, <2>8
    <2>10. ASSUME NEW i \in 1 .. n + 1 PROVE w[i] = proc[(stage - 1) + i].status
      <3>1. CASE i = 1
        <4>1. (stage - 1) + 1 = stage
          BY SInvTypes
        <4> QED
          BY <2>4, <2>5, <2>7, <2>8, <3>1, <4>1
      <3>2. CASE i # 1
        <4>1. i - 1 \in 1 .. n /\ stage + (i - 1) = (stage - 1) + i
          BY <2>1, <3>2, SInvTypes
        <4>2. w[i] = result[i - 1]
          BY <2>5, <2>7, <2>8, <3>2
        <4> QED
          BY <2>2, <4>1, <4>2
      <3> QED
        BY <3>1, <3>2
    <2>11. w = [i \in 1 .. n + 1 |-> w[i]]
      BY <2>9
    <2>12. w = [i \in 1 .. n + 1 |-> proc[(stage - 1) + i].status]
      BY <2>10, <2>11
    <2> QED
      BY <1>1, <2>3, <2>4, <2>8, <2>12
  <1>11. Begun' = Begun
    BY <1>1, <1>2, <1>3 DEF Begun
  <1>12. ChildrenRight'
    <2>1. (stage - 1) + 1 = stage
      BY SInvTypes
    <2>2. \A i \in Awaited' + 1 .. NStages' : proc'[i].state = "dead"
      BY <1>1, <1>3, <1>4, <1>9, <2>1
    <2>3. result' = [i \in 1 .. NStages' - Awaited' |-> proc'[Awaited' + i].status]
      BY <1>1, <1>3, <1>4, <1>10
    <2> QED
      BY <1>1, <1>11, <2>2, <2>3 DEF SInv, ChildrenRight
  <1> QED
    BY <1>3, <1>6, <1>7, <1>8, <1>12 DEF SInv

\* A child that goes on is none that the shell has waited for.
LEMMA ChildSInv ==
  ASSUME SInv, NEW i \in Stages, Command(i) \/ Quit(i)
  PROVE  SInv'
  <1>1. \E r \in Process :
          /\ proc' = [proc EXCEPT ![i] = r] /\ proc[i].state \in {"new", "run"}
          /\ UNCHANGED shell /\ data' \in [Stages -> 0 .. Room]
          /\ r.state \in {"run", "dead"}
    <2>1. CASE SetUp(i)
      <3>1. PICK c \in Context, r \in Process :
              /\ proc' = [proc EXCEPT ![i] = r] /\ proc[i].state = "new"
              /\ UNCHANGED <<shell, data>>
              /\ Moves(i, c) => r.state = "run"
              /\ ~Moves(i, c) => r.state = "dead"
        BY <2>1, SetUpIs DEF SInv
      <3> QED
        BY <3>1 DEF SInv, Types, TypeOK
    <2>2. CASE Read(i) \/ Write(i) \/ Finish(i) \/ Quit(i)
      <3>1. PICK r \in Process :
              /\ proc' = [proc EXCEPT ![i] = r] /\ proc[i].state = "run" /\ UNCHANGED shell
              /\ data' \in [Stages -> 0 .. Room] /\ r.state \in {"run", "dead"}
        BY <2>2, RunIs DEF SInv
      <3> QED
        BY <3>1
    <2> QED
      BY <2>1, <2>2 DEF Command
  <1>2. PICK r \in Process :
          /\ proc' = [proc EXCEPT ![i] = r] /\ proc[i].state \in {"new", "run"}
          /\ UNCHANGED shell /\ data' \in [Stages -> 0 .. Room]
          /\ r.state \in {"run", "dead"}
    BY <1>1
  <1>3. UNCHANGED <<fdt, deftab, links, quoted, pc, stage, inpipe, p, result>>
    BY <1>2 DEF shell
  <1>4. Given' /\ NStages' = NStages /\ Opened(deftab)' = Opened(deftab)
    BY <1>3, GivenKept DEF SInv
  <1>5. /\ proc' \in [Stages -> Process] /\ proc'[i] = r
        /\ \A j \in Stages \ {i} : proc'[j] = proc[j]
    BY <1>2, SInvTypes
  <1>6. Types'
    <2>1. \A j \in Stages : proc'[j] \in Process
      BY <1>5
    <2>2. \A j \in Stages : /\ proc'[j].state \in {"none", "new", "run", "dead"}
                            /\ proc'[j].t \in Table /\ proc'[j].left \in 0 .. MaxWrites
      BY <2>1 DEF Process
    <2> QED
      BY <1>2, <1>3, <1>5, <2>2 DEF SInv, Types, TypeOK
  <1>7. Own' = Own
    BY <1>3, <1>4 DEF Own, IsLast
  <1>8. ShellTable'
    BY <1>3, <1>4, <1>7 DEF SInv, ShellTable
  <1>9. ShellEnds'
    BY <1>3, <1>4 DEF SInv, ShellEnds, IsLast
  <1>10. Awaited' = Awaited /\ Begun' = Begun
    BY <1>3, <1>4 DEF Awaited, Begun
  <1>11. \A j \in Awaited + 1 .. NStages : proc'[j] = proc[j]
    <2>1. \A j \in Awaited + 1 .. NStages : proc[j].state = "dead"
      BY DEF SInv, ChildrenRight
    <2>2. Awaited \in Nat
      BY SInvTypes DEF Awaited
    <2>3. \A j \in Awaited + 1 .. NStages : j \in Stages
      BY <2>2, SInvTypes
    <2> QED
      BY <1>2, <1>5, <2>1, <2>3
  <1>12. /\ \A j \in Awaited' + 1 .. NStages' : proc'[j].state = "dead"
         /\ result' = [j \in 1 .. NStages' - Awaited' |-> proc'[Awaited' + j].status]
    BY <1>3, <1>4, <1>10, <1>11, SameResult
  <1>13. ChildrenRight'
    BY <1>2, <1>3, <1>5, <1>10, <1>12 DEF SInv, ChildrenRight
  <1> QED
    BY <1>4, <1>6, <1>8, <1>9, <1>13 DEF SInv

LEMMA NextSInv == ASSUME SInv, [Next]_vars PROVE SInv'
  <1>1. CASE UNCHANGED vars
    <2>1. UNCHANGED <<fdt, deftab, links, quoted, pc, stage, inpipe, p, result, proc, data>>
      BY <1>1 DEF vars
    <2>2. Given' /\ NStages' = NStages /\ Opened(deftab)' = Opened(deftab)
      BY <2>1, GivenKept DEF SInv
    <2>3. Types'
      BY <2>1 DEF SInv, Types, TypeOK
    <2>4. ShellTable' /\ ShellEnds'
      BY <2>1, <2>2 DEF SInv, ShellTable, ShellEnds, Own, IsLast
    <2>5. Awaited' = Awaited /\ Begun' = Begun
      BY <2>1, <2>2 DEF Awaited, Begun
    <2>6. ChildrenRight'
      BY <2>1, <2>2, <2>5 DEF SInv, ChildrenRight
    <2> QED
      BY <2>2, <2>3, <2>4, <2>6 DEF SInv
  <1>2. CASE Next
    BY <1>2, ForkSInv, CloseEndsSInv, ReadBackSInv, ReadFailsSInv, WaitSInv, FailedSInv,
       ChildSInv
    DEF Next, Shell
  <1> QED
    BY <1>1, <1>2

\* Every process has a descriptor table, and every variable its type, whatever the
\* redirections around the pipeline and however few descriptors there are.
THEOREM TypesCorrect == Spec => []TypeOK
  <1>1. Init => SInv
    BY InitSInv
  <1>2. SInv /\ [Next]_vars => SInv'
    BY NextSInv
  <1>3. SInv => TypeOK
    BY DEF SInv, Types
  <1> QED
    BY <1>1, <1>2, <1>3, PTL DEF Spec

\* When %pipe or a backquote returns, the shell's descriptors are those it had, every
\* command has ended and the result has each status at its place (prim_pipe,
\* prim_backquote); when a pipe or a fork failed, only inpipe and p may still be open.
THEOREM ShellIsRestored == Spec => []ShellRestored
  <1>1. Init => SInv
    BY InitSInv
  <1>2. SInv /\ [Next]_vars => SInv'
    BY NextSInv
  <1>3. ASSUME SInv PROVE ShellRestored
    <2>1. CASE pc = "done"
      <3>1. Own = {} /\ Awaited = 0 /\ Begun = NStages
        BY <2>1 DEF Own, Awaited, Begun
      <3>2. fdt = Opened(deftab)
        <4>1. \A u \in Fd : fdt[u] = Opened(deftab)[u]
          BY <1>3, <3>1 DEF SInv, ShellTable
        <4>2. fdt \in Table /\ Opened(deftab) \in Table
          BY <1>3, SInvTypes
        <4> QED
          BY <4>1, <4>2 DEF Table
      <3>3. \A i \in Stages : proc[i].state \in {"none", "dead"}
        <4>1. \A i \in Stages : i \in 1 .. NStages \/ i > NStages
          BY <1>3, SInvTypes
        <4> QED
          BY <1>3, <3>1, <4>1 DEF SInv, ChildrenRight
      <3>4. result = [i \in 1 .. NStages |-> proc[i].status]
        <4>1. NStages - 0 = NStages /\ \A i \in 1 .. NStages : 0 + i = i
          BY <1>3, SInvTypes
        <4> QED
          BY <1>3, <3>1, <4>1 DEF SInv, ChildrenRight
      <3> QED
        BY <2>1, <3>2, <3>3, <3>4 DEF ShellRestored
    <2>2. CASE pc = "failed"
      <3>1. Own = {inpipe, p[1], p[2]}
        BY <2>2 DEF Own
      <3> QED
        BY <1>3, <2>2, <3>1 DEF SInv, ShellTable, ShellRestored
    <2> QED
      BY <2>1, <2>2 DEF ShellRestored
  <1> QED
    BY <1>1, <1>2, <1>3, PTL DEF Spec

-----------------------------------------------------------------------------
(***************************************************************************)
(* Numbers that are taken by something that will move on.  Every x in D    *)
(* has the number h[x], where g[x] is open; A is the table that is there   *)
(* when all of them are gone.                                              *)
(***************************************************************************)
Placed(t, D, h, g, A) ==
  /\ t \in Table /\ A \in Table
  /\ \A x \in D : h[x] \in Fd /\ g[x] \in Files /\ t[h[x]] = g[x] /\ A[h[x]] = Closed
  /\ \A x, y \in D : h[x] = h[y] => x = y
  /\ \A u \in Fd : (\A x \in D : h[x] # u) => t[u] = A[u]

\* Only the numbers matter.
LEMMA PlacedSame ==
  ASSUME NEW t, NEW D, NEW h, NEW g, NEW A, Placed(t, D, h, g, A),
         NEW e, \A x \in D : e[x] = h[x]
  PROVE  Placed(t, D, e, g, A)
  BY DEF Placed

\* Who has number u gets another that is free.
LEMMA PlacedReleased ==
  ASSUME NEW t, NEW D, NEW h, NEW g, NEW A, Placed(t, D, h, g, A),
         NEW z \in D, NEW n \in Fd, t[n] = Closed,
         NEW e, \A x \in D : e[x] = IF x = z THEN n ELSE h[x]
  PROVE  /\ Placed(CloseFd(OpenAt(t, n, t[h[z]]), h[z]), D, e, g, A)
         /\ \A x \in D : e[x] # h[z]
  <1>1. PICK u \in Fd : u = h[z] /\ t[u] = g[z] /\ A[u] = Closed /\ g[z] \in Files
    BY DEF Placed
  <1>2. t \in Table /\ Closed \notin Files /\ u # n
    BY <1>1, FilesAre DEF Placed
  <1>3. PICK s : s = OpenAt(t, n, t[u])
    OBVIOUS
  <1>4. s \in Table /\ \A w \in Fd : s[w] = IF w = n THEN g[z] ELSE t[w]
    BY <1>1, <1>2, <1>3, OpenAtIs
  <1>5. PICK r : r = CloseFd(s, u)
    OBVIOUS
  <1>6. r \in Table /\ \A w \in Fd : r[w] = IF w = u THEN Closed ELSE s[w]
    BY <1>4, <1>5, CloseFdIs
  <1>7. \A x \in D : h[x] # n
    BY <1>2 DEF Placed
  <1>8. A[n] = Closed
    BY <1>7 DEF Placed
  <1>9. \A x \in D : x # z => h[x] # u
    BY <1>1 DEF Placed
  <1>10. ASSUME NEW x \in D
         PROVE  e[x] \in Fd /\ r[e[x]] = g[x] /\ A[e[x]] = Closed /\ e[x] # u
    <2>1. CASE x = z
      BY <1>2, <1>4, <1>6, <1>8, <2>1
    <2>2. CASE x # z
      <3>1. e[x] = h[x] /\ h[x] # u /\ h[x] # n /\ h[x] \in Fd /\ t[h[x]] = g[x] /\ A[h[x]] = Closed
        BY <1>7, <1>9, <2>2 DEF Placed
      <3> QED
        BY <1>4, <1>6, <3>1
    <2> QED
      BY <2>1, <2>2
  <1>11. ASSUME NEW x \in D, NEW y \in D, e[x] = e[y] PROVE x = y
    BY <1>7, <1>11 DEF Placed
  <1>12. ASSUME NEW w \in Fd, \A x \in D : e[x] # w PROVE r[w] = A[w]
    <2>1. w # n
      BY <1>12
    <2>2. CASE w = u
      BY <1>1, <1>6, <2>2
    <2>3. CASE w # u
      <3>1. \A x \in D : h[x] # w
        BY <1>1, <1>12, <2>3
      <3> QED
        BY <1>4, <1>6, <2>1, <2>3, <3>1 DEF Placed
    <2> QED
      BY <2>2, <2>3
  <1>13. \A x \in D : g[x] \in Files
    BY DEF Placed
  <1>14. A \in Table
    BY DEF Placed
  <1>15. Placed(r, D, e, g, A)
    BY <1>6, <1>10, <1>11, <1>12, <1>13, <1>14 DEF Placed
  <1> QED
    BY <1>1, <1>3, <1>5, <1>10, <1>15

\* z moves to the number u that it is meant for,
LEMMA PlacedMoved ==
  ASSUME NEW t, NEW D, NEW h, NEW g, NEW A, Placed(t, D, h, g, A),
         NEW z \in D, NEW u \in Fd, \A x \in D \ {z} : h[x] # u,
         NEW B, B = [A EXCEPT ![u] = g[z]]
  PROVE  MvfdOk(t, h[z], u) /\ Placed(Mvfd(t, h[z], u), D \ {z}, h, g, B)
  <1>1. PICK w \in Fd : w = h[z] /\ t[w] = g[z] /\ A[w] = Closed /\ g[z] \in Files
    BY DEF Placed
  <1>2. t \in Table /\ Closed \notin Files /\ A \in Table
    BY FilesAre DEF Placed
  <1>3. MvfdOk(t, w, u)
    BY <1>1, <1>2 DEF MvfdOk
  <1>4. PICK r : r = Mvfd(t, w, u)
    OBVIOUS
  <1>5. r \in Table /\ \A v \in Fd : r[v] = IF v = u THEN g[z] ELSE IF v = w THEN Closed ELSE t[v]
    BY <1>1, <1>2, <1>3, <1>4, MvfdIs
  <1>6. B \in Table /\ \A v \in Fd : B[v] = IF v = u THEN g[z] ELSE A[v]
    BY <1>1, <1>2 DEF Table
  <1>7. ASSUME NEW x \in D \ {z}
        PROVE  h[x] \in Fd /\ g[x] \in Files /\ r[h[x]] = g[x] /\ B[h[x]] = Closed
    <2>1. h[x] # w /\ h[x] # u
      BY <1>1 DEF Placed
    <2>2. h[x] \in Fd /\ g[x] \in Files /\ t[h[x]] = g[x] /\ A[h[x]] = Closed
      BY DEF Placed
    <2> QED
      BY <1>5, <1>6, <2>1, <2>2
  <1>8. ASSUME NEW v \in Fd, \A x \in D \ {z} : h[x] # v PROVE r[v] = B[v]
    <2>1. CASE v = u
      BY <1>5, <1>6, <2>1
    <2>2. CASE v # u /\ v = w
      BY <1>1, <1>5, <1>6, <2>2
    <2>3. CASE v # u /\ v # w
      <3>1. t[v] = A[v]
        BY <1>1, <1>8, <2>3 DEF Placed
      <3> QED
        BY <1>5, <1>6, <2>3, <3>1
    <2> QED
      BY <2>1, <2>2, <2>3
  <1>9. \A x, y \in D \ {z} : h[x] = h[y] => x = y
    BY DEF Placed
  <1>10. Placed(r, D \ {z}, h, g, B)
    BY <1>5, <1>6, <1>7, <1>8, <1>9 DEF Placed
  <1> QED
    BY <1>1, <1>3, <1>4, <1>10

\* or is closed.
LEMMA PlacedDropped ==
  ASSUME NEW t, NEW D, NEW h, NEW g, NEW A, Placed(t, D, h, g, A), NEW z \in D
  PROVE  Placed(CloseFd(t, h[z]), D \ {z}, h, g, A)
  <1>1. PICK w \in Fd : w = h[z] /\ A[w] = Closed
    BY DEF Placed
  <1>2. t \in Table /\ A \in Table
    BY DEF Placed
  <1>3. PICK r : r = CloseFd(t, w)
    OBVIOUS
  <1>4. r \in Table /\ \A v \in Fd : r[v] = IF v = w THEN Closed ELSE t[v]
    BY <1>2, <1>3, CloseFdIs
  <1>5. ASSUME NEW x \in D \ {z}
        PROVE  h[x] \in Fd /\ g[x] \in Files /\ r[h[x]] = g[x] /\ A[h[x]] = Closed
    BY <1>1, <1>4 DEF Placed
  <1>6. ASSUME NEW v \in Fd, \A x \in D \ {z} : h[x] # v PROVE r[v] = A[v]
    BY <1>1, <1>4, <1>6 DEF Placed
  <1>7. \A x, y \in D \ {z} : h[x] = h[y] => x = y
    BY DEF Placed
  <1>8. Placed(r, D \ {z}, h, g, A)
    BY <1>2, <1>4, <1>5, <1>6, <1>7 DEF Placed
  <1> QED
    BY <1>1, <1>3, <1>8

\* A number that nobody has is closed.
LEMMA PlacedClosed ==
  ASSUME NEW t, NEW D, NEW h, NEW g, NEW A, Placed(t, D, h, g, A),
         NEW u \in Fd, \A x \in D : h[x] # u, NEW B, B = [A EXCEPT ![u] = Closed]
  PROVE  Placed(CloseFd(t, u), D, h, g, B)
  <1>1. t \in Table /\ A \in Table
    BY DEF Placed
  <1>2. PICK r : r = CloseFd(t, u)
    OBVIOUS
  <1>3. r \in Table /\ \A v \in Fd : r[v] = IF v = u THEN Closed ELSE t[v]
    BY <1>1, <1>2, CloseFdIs
  <1>4. B \in Table /\ \A v \in Fd : B[v] = IF v = u THEN Closed ELSE A[v]
    BY <1>1 DEF Table
  <1>5. ASSUME NEW x \in D
        PROVE  h[x] \in Fd /\ g[x] \in Files /\ r[h[x]] = g[x] /\ B[h[x]] = Closed
    BY <1>3, <1>4 DEF Placed
  <1>6. ASSUME NEW v \in Fd, \A x \in D : h[x] # v PROVE r[v] = B[v]
    BY <1>3, <1>4, <1>6 DEF Placed
  <1>7. \A x, y \in D : h[x] = h[y] => x = y
    BY DEF Placed
  <1>8. Placed(r, D, h, g, B)
    BY <1>3, <1>4, <1>5, <1>6, <1>7 DEF Placed
  <1> QED
    BY <1>2, <1>8

\* More numbers, which were closed, are opened.
LEMMA PlacedMore ==
  ASSUME NEW B, NEW D, NEW h, NEW g, NEW A, Placed(B, D, h, g, A), NEW t \in Table, NEW E,
         \A x \in E : h[x] \in Fd /\ g[x] \in Files /\ t[h[x]] = g[x] /\ B[h[x]] = Closed,
         \A x, y \in E : h[x] = h[y] => x = y,
         \A u \in Fd : (\A x \in E : h[x] # u) => t[u] = B[u]
  PROVE  Placed(t, D \cup E, h, g, A)
  <1>1. \A x \in D : h[x] \in Fd /\ g[x] \in Files /\ B[h[x]] = g[x] /\ A[h[x]] = Closed
    BY DEF Placed
  <1>2. \A x \in D, y \in E : h[x] # h[y]
    BY <1>1, FilesAre
  <1>3. \A x \in D : t[h[x]] = g[x]
    BY <1>1, <1>2
  <1>4. \A x \in E : A[h[x]] = Closed
    BY <1>2 DEF Placed
  <1>5. \A x, y \in D : h[x] = h[y] => x = y
    BY DEF Placed
  <1>6. \A x, y \in D \cup E : h[x] = h[y] => x = y
    BY <1>2, <1>5
  <1>7. ASSUME NEW u \in Fd, \A x \in D \cup E : h[x] # u PROVE t[u] = A[u]
    BY <1>7 DEF Placed
  <1>8. A \in Table
    BY DEF Placed
  <1> QED
    BY <1>1, <1>3, <1>4, <1>6, <1>7, <1>8 DEF Placed

-----------------------------------------------------------------------------
(***************************************************************************)
(* The ends of pipes that a child has are -1, -2 and -3, the deferrals     *)
(* that it has not applied k + 1 .. Len(deftab).                           *)
(***************************************************************************)
Ids == {-1, -2, -3} \cup 1 .. Len(deftab)

EndIds(i) == {x \in {-1, -2, -3} : IF x = -1 THEN i > 1 ELSE ~IsLast(i)}
DeferIds(k) == {j \in 1 .. Len(deftab) : j > k /\ deftab[j].realfd # NoFd}

FilesOf(i) == [x \in Ids |-> IF x = -1 THEN ReadEnd(i - 1) ELSE IF x = -2 THEN ReadEnd(i)
                             ELSE IF x = -3 THEN WriteEnd(i) ELSE UserFile]

\* The numbers in the variables v and the deferrals d after the first k.
Numbers(v, d, k) == [x \in Ids |-> IF x = -1 THEN v.inpipe ELSE IF x = -2 THEN v.p0
                                   ELSE IF x = -3 THEN v.p1
                                   ELSE IF x > k THEN d[x - k].realfd ELSE NoFd]

\* What the first k redirections make of u, to be the meaning of Around for all.
AroundTo(k) ==
  [u \in Fd |->
     LET ks == {j \in 1 .. k : deftab[j].userfd = u} IN
     IF ks = {} THEN Fresh[u]
     ELSE IF deftab[CHOOSE j \in ks : \A l \in ks : l <= j].realfd = NoFd THEN Closed
     ELSE UserFile]

LEMMA AroundToIs ==
  ASSUME Given
  PROVE  /\ AroundTo(0) = Fresh
         /\ \A u \in Fd : AroundTo(Len(deftab))[u] = Around(u)
         /\ \A k \in 1 .. Len(deftab) :
              AroundTo(k) = [AroundTo(k - 1) EXCEPT
                ![deftab[k].userfd] = IF deftab[k].realfd = NoFd THEN Closed ELSE UserFile]
  <1>1. PICK n \in Nat : n = Len(deftab) /\ DOMAIN deftab = 1 .. n
    BY DEF Given
  <1>2. AroundTo(0) = Fresh
    <2>1. \A u \in Fd : {j \in 1 .. 0 : deftab[j].userfd = u} = {}
      OBVIOUS
    <2>2. \A u \in Fd : AroundTo(0)[u] = Fresh[u]
      BY <2>1 DEF AroundTo
    <2> QED
      BY <2>2 DEF AroundTo, Fresh
  <1>3. ASSUME NEW u \in Fd PROVE AroundTo(n)[u] = Around(u)
    <2>1. PICK ks : ks = {j \in 1 .. n : deftab[j].userfd = u}
      OBVIOUS
    <2>2. Fresh[u] = IF u < 3 THEN Tty ELSE Closed
      BY DEF Fresh
    <2>3. AroundTo(n)[u] =
            IF ks = {} THEN Fresh[u]
            ELSE IF deftab[CHOOSE j \in ks : \A l \in ks : l <= j].realfd = NoFd THEN Closed
            ELSE UserFile
      BY <2>1 DEF AroundTo
    <2>4. Around(u) =
            IF ks = {} THEN (IF u < 3 THEN Tty ELSE Closed)
            ELSE IF deftab[CHOOSE j \in ks : \A l \in ks : l <= j].realfd = NoFd THEN Closed
            ELSE UserFile
      BY <1>1, <2>1, Zenon DEF Around
    <2> QED
      BY <2>2, <2>3, <2>4
  <1>4. ASSUME NEW k \in 1 .. n
        PROVE  AroundTo(k) = [AroundTo(k - 1) EXCEPT
                 ![deftab[k].userfd] = IF deftab[k].realfd = NoFd THEN Closed ELSE UserFile]
    <2>1. ASSUME NEW u \in Fd
          PROVE  AroundTo(k)[u] = IF u = deftab[k].userfd
                   THEN (IF deftab[k].realfd = NoFd THEN Closed ELSE UserFile)
                   ELSE AroundTo(k - 1)[u]
      <3>1. PICK ks : ks = {j \in 1 .. k : deftab[j].userfd = u}
        OBVIOUS
      <3>2. AroundTo(k)[u] =
              IF ks = {} THEN Fresh[u]
              ELSE IF deftab[CHOOSE j \in ks : \A l \in ks : l <= j].realfd = NoFd THEN Closed
              ELSE UserFile
        BY <3>1 DEF AroundTo
      <3>3. CASE u = deftab[k].userfd
        <4>1. k \in ks /\ \A l \in ks : l <= k
          BY <3>1, <3>3
        <4>2. \A j \in ks : (\A l \in ks : l <= j) => j = k
          BY <3>1, <4>1
        <4>3. (CHOOSE j \in ks : \A l \in ks : l <= j) = k
          BY <4>1, <4>2
        <4> QED
          BY <3>2, <3>3, <4>1, <4>3
      <3>4. CASE u # deftab[k].userfd
        <4>1. \A j \in 1 .. k : j # k => j \in 1 .. k - 1
          OBVIOUS
        <4>2. ks = {j \in 1 .. k - 1 : deftab[j].userfd = u}
          BY <3>1, <3>4, <4>1
        <4> QED
          BY <3>2, <3>4, <4>2 DEF AroundTo
      <3> QED
        BY <3>3, <3>4
    <2>2. PICK w, f : w = deftab[k].userfd
                      /\ f = IF deftab[k].realfd = NoFd THEN Closed ELSE UserFile
      OBVIOUS
    <2>3. PICK A, B : A = AroundTo(k - 1) /\ B = AroundTo(k)
      OBVIOUS
    <2>4. \A u \in Fd : B[u] = IF u = w THEN f ELSE A[u]
      BY <2>1, <2>2, <2>3
    <2>5. A = [u \in Fd |-> A[u]] /\ B = [u \in Fd |-> B[u]]
      BY <2>3 DEF AroundTo
    <2>6. B = [A EXCEPT ![w] = f]
      BY <2>4, <2>5
    <2> QED
      BY <2>2, <2>3, <2>6
  <1> QED
    BY <1>1, <1>2, <1>3, <1>4

LEMMA AroundType == ASSUME NEW k PROVE AroundTo(k) \in Table
  <1>1. \A u \in Fd : Fresh[u] \in Files \cup {Closed}
    BY FreshIs DEF Table
  <1>2. \A u \in Fd : AroundTo(k)[u] \in Files \cup {Closed}
    BY <1>1, FilesAre DEF AroundTo
  <1> QED
    BY <1>2 DEF AroundTo, Table

\* What a number of a child denotes.
LEMMA FilesOfIs ==
  ASSUME Given, NEW i \in 1 .. NStages
  PROVE  /\ \A x \in EndIds(i) \cup DeferIds(0) : x \in Ids /\ FilesOf(i)[x] \in Files
         /\ \A j \in 1 .. Len(deftab) : FilesOf(i)[j] = UserFile
         /\ i > 1 => FilesOf(i)[-1] = ReadEnd(i - 1)
         /\ FilesOf(i)[-2] = ReadEnd(i) /\ FilesOf(i)[-3] = WriteEnd(i)
  <1>1. PICK n \in Nat : n = Len(deftab) /\ Ids = {-1, -2, -3} \cup 1 .. n
    BY DEF Given, Ids
  <1>2. i \in Stages /\ (i > 1 => i - 1 \in Stages)
    BY PipelineAssumption DEF Given, Stages
  <1>3. ReadEnd(i) \in Files /\ WriteEnd(i) \in Files /\ (i > 1 => ReadEnd(i - 1) \in Files)
    BY <1>2, EndsAreFiles
  <1>4. \A j \in 1 .. n : FilesOf(i)[j] = UserFile
    BY <1>1 DEF FilesOf
  <1>5. (i > 1 => FilesOf(i)[-1] = ReadEnd(i - 1))
        /\ FilesOf(i)[-2] = ReadEnd(i) /\ FilesOf(i)[-3] = WriteEnd(i)
    BY <1>1 DEF FilesOf
  <1>6. \A x \in EndIds(i) : x \in {-1, -2, -3} /\ (x = -1 => i > 1)
    BY DEF EndIds
  <1>7. \A x \in DeferIds(0) : x \in 1 .. n
    BY <1>1 DEF DeferIds
  <1> QED
    BY <1>1, <1>3, <1>4, <1>5, <1>6, <1>7, FilesAre

\* The deferred files are where the redirections opened them.
LEMMA BaseIs ==
  ASSUME Given, NEW g, NEW h, \A x \in DeferIds(0) : g[x] = UserFile /\ h[x] = deftab[x].realfd
  PROVE  Placed(Opened(deftab), DeferIds(0), h, g, Fresh)
  <1>1. PICK n \in Nat : n = Len(deftab)
    BY DEF Given
  <1>2. PICK f \in [0 .. n -> Table] :
          /\ f[0] = Fresh
          /\ \A k \in 1 .. n : f[k] = Opens(deftab[k], f[k - 1])
          /\ \A k \in 0 .. n : Opened(SubSeq(deftab, 1, k)) = f[k]
          /\ Opened(deftab) = f[n]
    BY <1>1, OpenedIs DEF Given
  <1> DEFINE D(k) == {j \in DeferIds(0) : j <= k}
  <1>3. PICK P : P = {k \in 0 .. n : Placed(f[k], D(k), h, g, Fresh)}
    OBVIOUS
  <1>4. 0 \in P
    <2>1. D(0) = {}
      BY <1>1 DEF DeferIds
    <2>2. Placed(Fresh, {}, h, g, Fresh)
      BY FreshIs DEF Placed
    <2> QED
      BY <1>2, <1>3, <2>1, <2>2
  <1>5. ASSUME NEW k \in 1 .. n, k - 1 \in P PROVE k \in P
    <2> k \in 0 .. n
      OBVIOUS
    <2>1. Placed(f[k - 1], D(k - 1), h, g, Fresh) /\ f[k - 1] \in Table /\ f[k] \in Table
      BY <1>2, <1>3, <1>5
    <2>2. f[k] = Opens(deftab[k], f[k - 1])
      BY <1>2
    <2>3. CASE deftab[k].realfd = NoFd
      <3>1. f[k] = f[k - 1]
        BY <2>2, <2>3 DEF Opens
      <3>2. k \notin DeferIds(0)
        BY <2>3 DEF DeferIds
      <3>3. \A j \in DeferIds(0) : j <= k <=> j <= k - 1
        BY <1>1, <3>2 DEF DeferIds
      <3>4. D(k) = D(k - 1)
        BY <3>3
      <3>5. Placed(f[k], D(k), h, g, Fresh)
        BY <2>1, <3>1, <3>4
      <3> HIDE DEF D
      <3> QED
        BY <1>3, <3>5
    <2>4. CASE deftab[k].realfd # NoFd
      <3>1. PICK m : m = deftab[k].realfd
        OBVIOUS
      <3>2. m = LowestFree(f[k - 1])
        BY <1>1, <1>2, <2>4, <3>1 DEF Given
      <3>3. m \in Fd /\ f[k - 1][m] = Closed
        BY <2>4, <3>1, <3>2, LowestFreeIs
      <3>4. f[k] = OpenAt(f[k - 1], m, UserFile)
        BY <2>2, <2>4, <3>1 DEF Opens
      <3>5. \A u \in Fd : f[k][u] = IF u = m THEN UserFile ELSE f[k - 1][u]
        BY <2>1, <3>4, FilesAre, OpenAtIs
      <3>6. k \in DeferIds(0)
        BY <1>1, <2>4 DEF DeferIds
      <3>7. h[k] = m /\ g[k] = UserFile /\ UserFile \in Files
        BY <3>1, <3>6, FilesAre
      <3>8. D(k) = D(k - 1) \cup {k}
        <4>1. \A j \in DeferIds(0) : j <= k <=> j <= k - 1 \/ j = k
          BY <1>1 DEF DeferIds
        <4> QED
          BY <3>6, <4>1
      <3>9. \A x \in {k} : h[x] \in Fd /\ g[x] \in Files /\ f[k][h[x]] = g[x] /\ f[k - 1][h[x]] = Closed
        BY <3>3, <3>5, <3>7
      <3>10. \A u \in Fd : (\A x \in {k} : h[x] # u) => f[k][u] = f[k - 1][u]
        BY <3>5, <3>7
      <3>11. PICK t, B, S : t = f[k] /\ B = f[k - 1] /\ S = D(k - 1)
        OBVIOUS
      <3> HIDE DEF D
      <3>12. Placed(t, S \cup {k}, h, g, Fresh)
        BY <2>1, <3>9, <3>10, <3>11, PlacedMore
      <3>13. Placed(f[k], D(k), h, g, Fresh)
        BY <3>8, <3>11, <3>12
      <3> QED
        BY <1>3, <3>13
    <2> QED
      BY <2>3, <2>4
  <1>6. n \in P
    BY <1>4, <1>5, Climb
  <1>7. D(n) = DeferIds(0)
    BY <1>1 DEF DeferIds
  <1> QED
    BY <1>2, <1>3, <1>6, <1>7

-----------------------------------------------------------------------------
(***************************************************************************)
(* A child applies the redirections.                                       *)
(***************************************************************************)

\* The child i after the first k of them.
Ctx(i, c, k) ==
  /\ c \in Context /\ Len(c.d) = Len(deftab) - k
  /\ \A j \in k + 1 .. Len(deftab) : /\ c.d[j - k].userfd = deftab[j].userfd
                                     /\ c.d[j - k].realfd = NoFd <=> deftab[j].realfd = NoFd
  /\ i = 1 => c.v.inpipe = NoFd
  /\ Placed(c.t, EndIds(i) \cup DeferIds(k), Numbers(c.v, c.d, k), FilesOf(i), AroundTo(k))

\* Room for the standard descriptors, three ends of pipes, all the deferrals and one more.
Roomy == 6 + MaxDefers < NFds

LEMMA SomeFree ==
  ASSUME Given, Roomy, NEW i \in 1 .. NStages, NEW k \in 0 .. Len(deftab), NEW c, Ctx(i, c, k)
  PROVE  LowestFree(c.t) \in Fd
  <1>1. PICK n \in Nat : n = Len(deftab) /\ n <= MaxDefers
    BY DEF Given
  <1>2. PICK h : h = Numbers(c.v, c.d, k)
    OBVIOUS
  <1>3. PICK A : A = AroundTo(k)
    OBVIOUS
  <1>4. Placed(c.t, EndIds(i) \cup DeferIds(k), h, FilesOf(i), A)
    BY <1>2, <1>3 DEF Ctx
  <1>5. PICK q : q = [s \in 1 .. n + 6 |->
                        IF s <= n THEN (IF s <= k THEN deftab[s].userfd ELSE h[s])
                        ELSE IF s <= n + 3 THEN s - (n + 1) ELSE h[(n + 3) - s]]
    OBVIOUS
  <1>6. SUFFICES ASSUME FreeFds(c.t) = {} PROVE FALSE
    BY LowestFreeIs
  <1>7. ASSUME NEW u \in Fd PROVE \E s \in 1 .. n + 6 : q[s] = u
    <2>1. c.t[u] # Closed
      BY <1>6 DEF FreeFds
    <2>2. CASE \E x \in EndIds(i) : h[x] = u
      <3>1. PICK x \in {-1, -2, -3} : h[x] = u
        BY <2>2 DEF EndIds
      <3>2. (n + 3) - x \in 1 .. n + 6 /\ ~ (n + 3) - x <= n + 3 /\ (n + 3) - ((n + 3) - x) = x
        BY <1>1
      <3>3. q[(n + 3) - x] = h[x]
        BY <1>1, <1>5, <3>2
      <3> QED
        BY <3>1, <3>2, <3>3
    <2>3. CASE \E x \in DeferIds(k) : h[x] = u
      <3>1. PICK x \in 1 .. n : x > k /\ h[x] = u
        BY <1>1, <2>3 DEF DeferIds
      <3>2. x \in 1 .. n + 6 /\ x <= n /\ ~ x <= k
        BY <1>1, <3>1
      <3> QED
        BY <1>5, <3>1, <3>2
    <2>4. CASE \A x \in EndIds(i) \cup DeferIds(k) : h[x] # u
      <3>1. A[u] # Closed
        BY <1>4, <2>1, <2>4 DEF Placed
      <3>2. CASE {j \in 1 .. k : deftab[j].userfd = u} = {}
        <4>1. Fresh[u] # Closed
          BY <1>3, <3>1, <3>2 DEF AroundTo
        <4>2. u \in {0, 1, 2}
          BY <4>1 DEF Fresh, Fd
        <4>3. (n + 1) + u \in 1 .. n + 6 /\ ~ (n + 1) + u <= n /\ (n + 1) + u <= n + 3
              /\ ((n + 1) + u) - (n + 1) = u
          BY <1>1, <4>2
        <4>4. q[(n + 1) + u] = u
          BY <1>5, <4>3
        <4> QED
          BY <4>3, <4>4
      <3>3. CASE {j \in 1 .. k : deftab[j].userfd = u} # {}
        <4>1. PICK j \in 1 .. k : deftab[j].userfd = u
          BY <3>3
        <4>2. j \in 1 .. n + 6 /\ j <= n /\ j <= k
          BY <1>1
        <4> QED
          BY <1>5, <4>1, <4>2
      <3> QED
        BY <3>2, <3>3
    <2> QED
      BY <2>2, <2>3, <2>4
  <1>8. PICK f : f = [u \in Fd |-> CHOOSE s \in 1 .. n + 6 : q[s] = u]
    OBVIOUS
  <1>9. \A u \in Fd : f[u] \in 1 .. n + 6 /\ q[f[u]] = u
    BY <1>7, <1>8
  <1>10. PICK S, T : S = Fd /\ T = 1 .. n + 6
    OBVIOUS
  <1>11. IsFiniteSet(S) /\ Cardinality(S) = NFds
    <2>1. IsFiniteSet(0 .. NFds - 1) /\ Cardinality(0 .. NFds - 1) = NFds
      BY FS_Interval, TableAssumption
    <2> QED
      BY <1>10, <2>1 DEF Fd
  <1>12. IsFiniteSet(T) /\ Cardinality(T) = n + 6
    BY <1>1, <1>10, FS_Interval
  <1>13. Cardinality(T) < Cardinality(S)
    BY <1>1, <1>11, <1>12, PipelineAssumption, TableAssumption DEF Roomy
  <1>14. f \in [S -> T]
    BY <1>8, <1>9, <1>10
  <1>15. \E x, y \in S : x # y /\ f[x] = f[y]
    BY <1>11, <1>12, <1>13, <1>14, FS_PigeonHole
  <1> QED
    BY <1>9, <1>10, <1>15

\* Numbers, one by one.
LEMMA NumbersAre ==
  ASSUME Given, NEW v, NEW d, NEW k \in 0 .. Len(deftab)
  PROVE  /\ Numbers(v, d, k)[-1] = v.inpipe
         /\ Numbers(v, d, k)[-2] = v.p0
         /\ Numbers(v, d, k)[-3] = v.p1
         /\ \A j \in k + 1 .. Len(deftab) : Numbers(v, d, k)[j] = d[j - k].realfd
  <1>1. PICK n \in Nat : n = Len(deftab) /\ Ids = {-1, -2, -3} \cup 1 .. n
    BY DEF Given, Ids
  <1>2. Numbers(v, d, k)[-1] = v.inpipe
    BY <1>1 DEF Numbers
  <1>3. Numbers(v, d, k)[-2] = v.p0
    BY <1>1 DEF Numbers
  <1>4. Numbers(v, d, k)[-3] = v.p1
    BY <1>1 DEF Numbers
  <1>5. ASSUME NEW j \in k + 1 .. n PROVE Numbers(v, d, k)[j] = d[j - k].realfd
    <2>1. j \in Ids /\ j \notin {-1, -2, -3} /\ j > k
      BY <1>1
    <2> QED
      BY <2>1 DEF Numbers
  <1> QED
    BY <1>1, <1>2, <1>3, <1>4, <1>5

\* The deferrals behind the first,
RestOf(c, rest) ==
  rest \in Seq(Defer) /\ Len(rest) = Len(c.d) - 1 /\ \A j \in 1 .. Len(rest) : rest[j] = c.d[j + 1]

\* and their numbers.
RestRight(i, c, k, rest) ==
  /\ Len(rest) = Len(deftab) - k
  /\ \A j \in k + 1 .. Len(deftab) :
       /\ j - k \in 1 .. Len(rest) /\ rest[j - k].userfd = deftab[j].userfd
       /\ rest[j - k].realfd = NoFd <=> deftab[j].realfd = NoFd
  /\ \A x \in EndIds(i) \cup DeferIds(k) :
       Numbers(c.v, rest, k)[x] = Numbers(c.v, c.d, k - 1)[x]
  /\ k \in DeferIds(k - 1) <=> deftab[k].realfd # NoFd
  /\ k \in DeferIds(k - 1) => Numbers(c.v, c.d, k - 1)[k] = c.d[1].realfd
  /\ DeferIds(k) = DeferIds(k - 1) \ {k}
  /\ c.d[1].userfd = deftab[k].userfd
  /\ c.d[1].realfd = NoFd <=> deftab[k].realfd = NoFd

LEMMA RestIs ==
  ASSUME Given, NEW i \in 1 .. NStages, NEW k \in 1 .. Len(deftab), NEW c, Ctx(i, c, k - 1),
         NEW rest, RestOf(c, rest)
  PROVE  RestRight(i, c, k, rest)
  <1> rest \in Seq(Defer) /\ Len(rest) = Len(c.d) - 1 /\ \A j \in 1 .. Len(rest) : rest[j] = c.d[j + 1]
    BY DEF RestOf
  <1>1. PICK n \in Nat : n = Len(deftab)
    BY DEF Given
  <1>2. Len(c.d) = n - (k - 1)
    BY <1>1 DEF Ctx
  <1>3. Len(rest) = n - k
    BY <1>1, <1>2
  <1>4. \A j \in (k - 1) + 1 .. n : /\ c.d[j - (k - 1)].userfd = deftab[j].userfd
                                    /\ c.d[j - (k - 1)].realfd = NoFd <=> deftab[j].realfd = NoFd
    BY <1>1 DEF Ctx
  <1>5. ASSUME NEW j \in k + 1 .. n
        PROVE  /\ j - k \in 1 .. Len(rest) /\ rest[j - k] = c.d[j - (k - 1)]
               /\ rest[j - k].userfd = deftab[j].userfd
               /\ rest[j - k].realfd = NoFd <=> deftab[j].realfd = NoFd
    <2>1. j - k \in 1 .. Len(rest) /\ (j - k) + 1 = j - (k - 1) /\ j \in (k - 1) + 1 .. n
      BY <1>1, <1>3
    <2>2. rest[j - k] = c.d[j - (k - 1)]
      BY <2>1
    <2> QED
      BY <1>4, <2>1, <2>2
  <1>6. k \in (k - 1) + 1 .. n /\ k - (k - 1) = 1 /\ k \in 0 .. n /\ k - 1 \in 0 .. n
    BY <1>1
  <1>7. c.d[1].userfd = deftab[k].userfd /\ (c.d[1].realfd = NoFd <=> deftab[k].realfd = NoFd)
    BY <1>4, <1>6
  <1>8. PICK old : old = Numbers(c.v, c.d, k - 1)
    OBVIOUS
  <1>9. /\ old[-1] = c.v.inpipe /\ old[-2] = c.v.p0 /\ old[-3] = c.v.p1
        /\ \A j \in (k - 1) + 1 .. n : old[j] = c.d[j - (k - 1)].realfd
    BY <1>1, <1>6, <1>8, NumbersAre
  <1>10. PICK new : new = Numbers(c.v, rest, k)
    OBVIOUS
  <1>11. /\ new[-1] = c.v.inpipe /\ new[-2] = c.v.p0 /\ new[-3] = c.v.p1
         /\ \A j \in k + 1 .. n : new[j] = rest[j - k].realfd
    <2>1. PICK v : v = c.v
      OBVIOUS
    <2>2. /\ new[-1] = v.inpipe /\ new[-2] = v.p0 /\ new[-3] = v.p1
          /\ \A j \in k + 1 .. Len(deftab) : new[j] = rest[j - k].realfd
      <3>1. k \in 0 .. Len(deftab) /\ new = Numbers(v, rest, k)
        BY <1>1, <1>6, <1>10, <2>1
      <3> QED
        BY ONLY <3>1, NumbersAre, Given
    <2> QED
      BY <1>1, <2>1, <2>2
  <1>12. ASSUME NEW x \in EndIds(i) \cup DeferIds(k) PROVE new[x] = old[x]
    <2>1. CASE x \in EndIds(i)
      BY <1>9, <1>11, <2>1 DEF EndIds
    <2>2. CASE x \in DeferIds(k)
      <3>1. x \in k + 1 .. n /\ x \in (k - 1) + 1 .. n
        BY <1>1, <2>2 DEF DeferIds
      <3> QED
        BY <1>5, <1>9, <1>11, <3>1
    <2> QED
      BY <2>1, <2>2
  <1>13. k \in DeferIds(k - 1) <=> deftab[k].realfd # NoFd
    BY <1>1 DEF DeferIds
  <1>14. k \in DeferIds(k - 1) => old[k] = c.d[1].realfd
    BY <1>6, <1>9
  <1>15. DeferIds(k) = DeferIds(k - 1) \ {k}
    <2>1. \A j \in 1 .. n : j > k <=> j > k - 1 /\ j # k
      BY <1>1
    <2> QED
      BY <1>1, <2>1 DEF DeferIds
  <1> QED
    BY <1>1, <1>3, <1>5, <1>7, <1>8, <1>10, <1>12, <1>13, <1>14, <1>15 DEF RestRight

\* releasefd moves what is at the number that the next deferral is for.
ReleasedRight(i, c, k, u, r) ==
  /\ r \in Context /\ Len(r.d) = Len(deftab) - k
  /\ \A j \in k + 1 .. Len(deftab) : /\ r.d[j - k].userfd = deftab[j].userfd
                                     /\ r.d[j - k].realfd = NoFd <=> deftab[j].realfd = NoFd
  /\ i = 1 => r.v.inpipe = NoFd
  /\ \E h : /\ Placed(r.t, EndIds(i) \cup DeferIds(k - 1), h, FilesOf(i), AroundTo(k - 1))
            /\ k \in DeferIds(k - 1) => h[k] = c.d[1].realfd
            /\ \A x \in EndIds(i) \cup DeferIds(k) :
                 h[x] # u /\ h[x] = Numbers(r.v, r.d, k)[x]

LEMMA ReleasesRight ==
  ASSUME Given, Roomy, NEW i \in 1 .. NStages, NEW k \in 1 .. Len(deftab), NEW c, Ctx(i, c, k - 1),
         i > 1 /\ IsLast(i) => deftab[k].userfd # c.v.inpipe,
         NEW rest, RestOf(c, rest), NEW u \in Fd, u = deftab[k].userfd,
         NEW r, r = Release([t |-> c.t, v |-> c.v, d |-> rest], Registered(i), u)
  PROVE  ReleasedRight(i, c, k, u, r)
  <1> rest \in Seq(Defer)
    BY DEF RestOf
  <1>1. PICK n \in Nat : n = Len(deftab)
    BY DEF Given
  <1>2. /\ Len(rest) = n - k
        /\ \A j \in k + 1 .. n : /\ j - k \in 1 .. Len(rest) /\ rest[j - k].userfd = deftab[j].userfd
                                 /\ rest[j - k].realfd = NoFd <=> deftab[j].realfd = NoFd
        /\ \A x \in EndIds(i) \cup DeferIds(k) :
             Numbers(c.v, rest, k)[x] = Numbers(c.v, c.d, k - 1)[x]
        /\ k \in DeferIds(k - 1) => Numbers(c.v, c.d, k - 1)[k] = c.d[1].realfd
        /\ DeferIds(k) = DeferIds(k - 1) \ {k}
    <2>1. RestRight(i, c, k, rest)
      BY ONLY Given, i \in 1 .. NStages, k \in 1 .. Len(deftab), Ctx(i, c, k - 1),
              RestOf(c, rest), RestIs
    <2> QED
      BY <1>1, <2>1 DEF RestRight
  <1>3. PICK e : e = [t |-> c.t, v |-> c.v, d |-> rest]
    OBVIOUS
  <1>4. e \in Context /\ e.t = c.t /\ e.v = c.v /\ e.d = rest
    BY <1>3 DEF Ctx, Context
  <1>5. PICK R : R = Registered(i)
    OBVIOUS
  <1>6. r \in Context /\ Len(r.d) = n - k /\ \A j \in 1 .. n - k : r.d[j].userfd = rest[j].userfd
    <2>1. r = Release(e, R, u)
      BY <1>3, <1>5
    <2>2. /\ r \in Context /\ Len(r.d) = Len(e.d)
          /\ \A j \in 1 .. Len(e.d) : r.d[j].userfd = e.d[j].userfd
      BY ONLY <1>4, <2>1, u \in Fd, ReleaseType
    <2> QED
      BY <1>2, <1>4, <2>2
  <1>7. PICK h, g, A, D, D0 :
          /\ h = Numbers(c.v, c.d, k - 1) /\ g = FilesOf(i) /\ A = AroundTo(k - 1)
          /\ D = EndIds(i) \cup DeferIds(k - 1) /\ D0 = EndIds(i) \cup DeferIds(k)
    OBVIOUS
  <1>8. Placed(c.t, D, h, g, A)
    BY <1>7 DEF Ctx
  <1>9. D0 \subseteq D /\ k \notin D0
    <2>1. k \notin EndIds(i)
      BY DEF EndIds
    <2> QED
      BY <1>2, <1>7, <2>1
  <1>10. PICK vs, ks : vs = VarsAt(e, R, u) /\ ks = DefersAt(e, u)
    OBVIOUS
  <1>11. /\ \A x \in D0 : h[x] = Numbers(c.v, rest, k)[x]
         /\ h[-1] = c.v.inpipe /\ h[-2] = c.v.p0 /\ h[-3] = c.v.p1
         /\ \A j \in D0 : j \in k + 1 .. n => h[j] = rest[j - k].realfd
    <2>1. k \in 0 .. n /\ k - 1 \in 0 .. n
      BY <1>1
    <2>2. \A x \in D0 : h[x] = Numbers(c.v, rest, k)[x]
      BY <1>2, <1>7
    <2>3. h[-1] = c.v.inpipe /\ h[-2] = c.v.p0 /\ h[-3] = c.v.p1
      BY <1>1, <1>7, <2>1, NumbersAre
    <2>4. PICK v : v = c.v
      OBVIOUS
    <2>5. \A j \in k + 1 .. n : Numbers(v, rest, k)[j] = rest[j - k].realfd
      BY <1>1, <2>1, NumbersAre
    <2> QED
      BY <2>2, <2>3, <2>4, <2>5
  <1>12. /\ "inpipe" \in vs <=> -1 \in EndIds(i) /\ c.v.inpipe = u
         /\ "p0" \in vs <=> -2 \in EndIds(i) /\ c.v.p0 = u
         /\ "p1" \in vs <=> -3 \in EndIds(i) /\ c.v.p1 = u
         /\ \A x \in vs : x \in {"inpipe", "p0", "p1"}
    <2>1. i = 1 => c.v.inpipe # u
      BY FdIs DEF Ctx
    <2>2. i > 1 \/ i = 1
      BY DEF Given
    <2>3. i > 1 /\ IsLast(i) => c.v.inpipe # u
      OBVIOUS
    <2>4. vs = {x \in R : c.v[x] = u}
      BY <1>4, <1>10 DEF VarsAt
    <2>5. CASE IsLast(i)
      <3>1. R = {}
        BY <1>5, <2>5 DEF Registered
      <3> QED
        BY <2>1, <2>2, <2>3, <2>4, <2>5, <3>1 DEF EndIds
    <2>6. CASE ~IsLast(i)
      <3>1. R = {"p0", "p1", "inpipe"}
        BY <1>5, <2>6 DEF Registered
      <3>2. /\ "inpipe" \in vs <=> c.v.inpipe = u
            /\ "p0" \in vs <=> c.v.p0 = u
            /\ "p1" \in vs <=> c.v.p1 = u
            /\ \A x \in vs : x \in {"inpipe", "p0", "p1"}
        BY <2>4, <3>1
      <3>3. -2 \in EndIds(i) /\ -3 \in EndIds(i) /\ (-1 \in EndIds(i) <=> i > 1)
        BY <2>6 DEF EndIds
      <3> QED
        BY <2>1, <2>2, <3>2, <3>3
    <2> QED
      BY <2>5, <2>6
  <1>13. ASSUME NEW j \in k + 1 .. n
         PROVE  j - k \in ks <=> j \in DeferIds(k) /\ h[j] = u
    <2>1. j - k \in 1 .. Len(rest) /\ j \in 1 .. n /\ j > k
      BY <1>1, <1>2
    <2>2. j - k \in ks <=> rest[j - k].realfd = u
      BY <1>4, <1>10, <2>1 DEF DefersAt
    <2>3. rest[j - k].realfd = u => deftab[j].realfd # NoFd
      BY <1>2, FdIs
    <2>4. j \in DeferIds(k) <=> deftab[j].realfd # NoFd
      BY <1>1, <2>1 DEF DeferIds
    <2> QED
      BY <1>7, <1>11, <2>2, <2>3, <2>4
  <1>14. vs \cup ks # {} <=> \E x \in D0 : h[x] = u
    <2>1. ASSUME NEW x \in vs PROVE \E y \in D0 : h[y] = u
      BY <1>7, <1>11, <1>12, <2>1
    <2>2. ASSUME NEW l \in ks PROVE \E y \in D0 : h[y] = u
      <3>1. l \in 1 .. n - k
        BY <1>2, <1>4, <1>10 DEF DefersAt
      <3>2. k + l \in k + 1 .. n /\ (k + l) - k = l
        BY <1>1, <3>1
      <3> QED
        BY <1>7, <1>13, <3>2
    <2>3. ASSUME NEW x \in D0, h[x] = u PROVE vs \cup ks # {}
      <3>1. CASE x \in EndIds(i)
        <4>1. x \in {-1, -2, -3}
          BY <3>1 DEF EndIds
        <4> QED
          BY <1>11, <1>12, <2>3, <3>1, <4>1
      <3>2. CASE x \in DeferIds(k)
        <4>1. x \in k + 1 .. n
          BY <1>1, <3>2 DEF DeferIds
        <4> QED
          BY <1>13, <2>3, <3>2, <4>1
      <3> QED
        BY <1>7, <3>1, <3>2
    <2> QED
      BY <2>1, <2>2, <2>3
  <1>15. k \in DeferIds(k - 1) => h[k] = c.d[1].realfd
    BY <1>2, <1>7
  <1>16. CASE vs \cup ks = {}
    <2>1. r = e
      BY <1>3, <1>4, <1>5, <1>10, <1>16, ReleaseIs
    <2>2. \A x \in D0 : h[x] # u /\ h[x] = Numbers(r.v, r.d, k)[x]
      BY <1>4, <1>11, <1>14, <1>16, <2>1
    <2>3. Placed(r.t, D, h, g, A)
      BY <1>4, <1>8, <2>1
    <2>4. i = 1 => r.v.inpipe = NoFd
      BY <1>4, <2>1 DEF Ctx
    <2>5. r.d = rest
      BY <1>4, <2>1
    <2>6. \E f : /\ Placed(r.t, EndIds(i) \cup DeferIds(k - 1), f, FilesOf(i), AroundTo(k - 1))
                 /\ k \in DeferIds(k - 1) => f[k] = c.d[1].realfd
                 /\ \A x \in EndIds(i) \cup DeferIds(k) :
                      f[x] # u /\ f[x] = Numbers(r.v, r.d, k)[x]
      <3>1. \E f : /\ Placed(r.t, D, f, g, A)
                   /\ k \in DeferIds(k - 1) => f[k] = c.d[1].realfd
                   /\ \A x \in D0 : f[x] # u /\ f[x] = Numbers(r.v, r.d, k)[x]
        BY ONLY <1>15, <2>2, <2>3, Zenon
      <3> QED
        BY ONLY <1>7, <3>1
    <2>7. \A j \in k + 1 .. Len(deftab) : /\ r.d[j - k].userfd = deftab[j].userfd
                                          /\ r.d[j - k].realfd = NoFd <=> deftab[j].realfd = NoFd
      BY <1>1, <1>2, <2>5
    <2> QED
      BY <1>1, <1>6, <2>4, <2>6, <2>7 DEF ReleasedRight
  <1>17. CASE vs \cup ks # {}
    <2>1. PICK z \in D0 : h[z] = u
      BY <1>14, <1>17
    <2>2. PICK m \in Fd : m = LowestFree(c.t) /\ c.t[m] = Closed
      <3>1. k - 1 \in 0 .. Len(deftab)
        BY <1>1
      <3> QED
        BY <3>1, SomeFree, LowestFreeIs
    <2>3. r = [t |-> CloseFd(OpenAt(c.t, m, c.t[u]), u), v |-> Renamed(c.v, vs, m),
               d |-> Shifted(rest, ks, m)]
      BY <1>3, <1>4, <1>5, <1>10, <1>17, <2>2, ReleaseIs
    <2>4. r.t = CloseFd(OpenAt(c.t, m, c.t[u]), u) /\ r.v = Renamed(c.v, vs, m)
          /\ r.d = Shifted(rest, ks, m)
      BY <2>3
    <2>5. PICK q : q = [x \in Ids |-> IF x = z THEN m ELSE h[x]]
      OBVIOUS
    <2>6. D \subseteq Ids
      BY <1>1, <1>7 DEF EndIds, DeferIds, Ids
    <2>7. \A x \in D : q[x] = IF x = z THEN m ELSE h[x]
      BY <2>5, <2>6
    <2>8. Placed(r.t, D, q, g, A) /\ \A x \in D : q[x] # u
      <3>1. PICK t : t = c.t
        OBVIOUS
      <3>2. Placed(t, D, h, g, A) /\ z \in D /\ t[m] = Closed
        BY <1>8, <1>9, <2>2, <3>1
      <3>3. /\ Placed(CloseFd(OpenAt(t, m, t[h[z]]), h[z]), D, q, g, A)
            /\ \A x \in D : q[x] # h[z]
        BY ONLY <2>7, <3>2, m \in Fd, PlacedReleased
      <3> QED
        BY <2>1, <2>4, <3>1, <3>3
    <2>9. k \in DeferIds(k - 1) => q[k] = c.d[1].realfd
      <3>1. k \in DeferIds(k - 1) => k \in D /\ k # z
        BY <1>7, <1>9, <2>1
      <3> QED
        BY <1>15, <2>7, <3>1
    <2>10. c.v \in Ends
      BY DEF Ctx, Context
    <2>11. /\ r.v.inpipe = IF "inpipe" \in vs THEN m ELSE c.v.inpipe
           /\ r.v.p0 = IF "p0" \in vs THEN m ELSE c.v.p0
           /\ r.v.p1 = IF "p1" \in vs THEN m ELSE c.v.p1
      BY <2>4, <2>10, RenamedIs
    <2>12. \A l \in 1 .. Len(rest) : r.d[l].realfd = IF l \in ks THEN m ELSE rest[l].realfd
      <3>1. \A l \in 1 .. Len(rest) :
              Shifted(rest, ks, m)[l].realfd = IF l \in ks THEN m ELSE rest[l].realfd
        BY ONLY rest \in Seq(Defer), m \in Fd, ShiftedIs
      <3> QED
        BY <2>4, <3>1
    <2>13. /\ Numbers(r.v, r.d, k)[-1] = r.v.inpipe
           /\ Numbers(r.v, r.d, k)[-2] = r.v.p0
           /\ Numbers(r.v, r.d, k)[-3] = r.v.p1
           /\ \A j \in k + 1 .. n : Numbers(r.v, r.d, k)[j] = r.d[j - k].realfd
      <3>1. PICK v, d : v = r.v /\ d = r.d
        OBVIOUS
      <3>2. k \in 0 .. n
        BY <1>1
      <3> QED
        BY <1>1, <3>1, <3>2, NumbersAre
    <2>14. ASSUME NEW x \in D0 PROVE Numbers(r.v, r.d, k)[x] = IF h[x] = u THEN m ELSE h[x]
      <3>1. CASE x \in EndIds(i)
        <4>1. x \in {-1, -2, -3}
          BY <3>1 DEF EndIds
        <4> QED
          BY <1>11, <1>12, <2>11, <2>13, <3>1, <4>1
      <3>2. CASE x \in DeferIds(k)
        <4>1. x \in k + 1 .. n
          BY <1>1, <3>2 DEF DeferIds
        <4>2. x - k \in 1 .. Len(rest) /\ h[x] = rest[x - k].realfd
          BY <1>2, <1>11, <4>1
        <4> QED
          BY <1>13, <2>12, <2>13, <3>2, <4>1, <4>2
      <3> QED
        BY <1>7, <3>1, <3>2
    <2>15. \A x \in D0 : h[x] = u <=> x = z
      BY <1>8, <1>9, <2>1 DEF Placed
    <2>16. \A x \in D0 : q[x] # u /\ q[x] = Numbers(r.v, r.d, k)[x]
      BY <1>9, <2>7, <2>8, <2>14, <2>15
    <2>17. i = 1 => r.v.inpipe = NoFd
      <3>1. i = 1 => -1 \notin EndIds(i)
        BY DEF EndIds
      <3> QED
        BY <1>12, <2>11, <3>1 DEF Ctx
    <2>18. ASSUME NEW j \in k + 1 .. n
           PROVE  /\ r.d[j - k].userfd = deftab[j].userfd
                  /\ r.d[j - k].realfd = NoFd <=> deftab[j].realfd = NoFd
      <3>1. j - k \in 1 .. Len(rest) /\ j - k \in 1 .. n - k /\ m # NoFd
        BY <1>2, FdIs
      <3>2. j - k \in ks => rest[j - k].realfd = u
        BY <1>4, <1>10 DEF DefersAt
      <3>3. rest[j - k].realfd = NoFd <=> r.d[j - k].realfd = NoFd
        BY <2>12, <3>1, <3>2, FdIs
      <3> QED
        BY <1>2, <1>6, <3>1, <3>3
    <2>19. \E f : /\ Placed(r.t, EndIds(i) \cup DeferIds(k - 1), f, FilesOf(i), AroundTo(k - 1))
                  /\ k \in DeferIds(k - 1) => f[k] = c.d[1].realfd
                  /\ \A x \in EndIds(i) \cup DeferIds(k) :
                       f[x] # u /\ f[x] = Numbers(r.v, r.d, k)[x]
      BY <1>7, <2>8, <2>9, <2>16, Zenon
    <2> QED
      BY <1>1, <1>6, <2>17, <2>18, <2>19 DEF ReleasedRight
  <1> QED
    BY <1>16, <1>17

\* One turn of remapfds.
LEMMA TurnIsRight ==
  ASSUME Given, Roomy, NEW i \in 1 .. NStages, NEW k \in 1 .. Len(deftab), NEW c, Ctx(i, c, k - 1),
         i > 1 /\ IsLast(i) => deftab[k].userfd # c.v.inpipe
  PROVE  Ctx(i, RemapOne(c, Registered(i)), k)
  <1>1. PICK n \in Nat : n = Len(deftab) /\ k \in 1 .. n
    BY DEF Given
  <1>2. c \in Context /\ Len(c.d) = n - (k - 1)
    BY <1>1 DEF Ctx
  <1>3. c.d # <<>>
    BY <1>1, <1>2
  <1>4. PICK R : R = Registered(i)
    OBVIOUS
  <1>5. PICK first \in Defer, rest \in Seq(Defer), r \in Context :
           /\ first = c.d[1] /\ rest = Tail(c.d) /\ Len(c.d) \in Nat \ {0}
           /\ Len(rest) = Len(c.d) - 1 /\ \A j \in 1 .. Len(rest) : rest[j] = c.d[j + 1]
           /\ r = Release([t |-> c.t, v |-> c.v, d |-> rest], R, first.userfd)
           /\ RemapOne(c, R) =
                [t |-> IF first.realfd = NoFd THEN CloseFd(r.t, first.userfd)
                       ELSE Mvfd(r.t, first.realfd, first.userfd),
                 v |-> r.v, d |-> r.d]
    BY ONLY <1>2, <1>3, RemapOneIs
  <1>6. RestOf(c, rest)
    BY <1>5 DEF RestOf
  <1>7. RestRight(i, c, k, rest)
    BY ONLY Given, i \in 1 .. NStages, k \in 1 .. Len(deftab), Ctx(i, c, k - 1), <1>6, RestIs
  <1>8. PICK u \in Fd : u = first.userfd
    BY <1>5, PipelineAssumption DEF Defer
  <1>9. u = deftab[k].userfd /\ (first.realfd = NoFd <=> deftab[k].realfd = NoFd)
    BY <1>5, <1>7, <1>8 DEF RestRight
  <1>10. r = Release([t |-> c.t, v |-> c.v, d |-> rest], Registered(i), u)
    BY <1>4, <1>5, <1>8
  <1>11. ReleasedRight(i, c, k, u, r)
    BY ONLY Given, Roomy, i \in 1 .. NStages, k \in 1 .. Len(deftab), Ctx(i, c, k - 1),
            i > 1 /\ IsLast(i) => deftab[k].userfd # c.v.inpipe, <1>6, u \in Fd, <1>9, <1>10,
            ReleasesRight
  <1>12. PICK D, D0, g, A, B : /\ D = EndIds(i) \cup DeferIds(k - 1)
                               /\ D0 = EndIds(i) \cup DeferIds(k)
                               /\ g = FilesOf(i) /\ A = AroundTo(k - 1) /\ B = AroundTo(k)
    OBVIOUS
  <1>13. PICK h : /\ Placed(r.t, D, h, g, A)
                  /\ k \in DeferIds(k - 1) => h[k] = first.realfd
                  /\ \A x \in D0 : h[x] # u /\ h[x] = Numbers(r.v, r.d, k)[x]
    <2>1. PICK h :
            /\ Placed(r.t, EndIds(i) \cup DeferIds(k - 1), h, FilesOf(i), AroundTo(k - 1))
            /\ k \in DeferIds(k - 1) => h[k] = c.d[1].realfd
            /\ \A x \in EndIds(i) \cup DeferIds(k) : h[x] # u /\ h[x] = Numbers(r.v, r.d, k)[x]
      BY ONLY <1>11, Zenon DEF ReleasedRight
    <2>2. /\ Placed(r.t, D, h, g, A)
          /\ k \in DeferIds(k - 1) => h[k] = first.realfd
          /\ \A x \in D0 : h[x] # u /\ h[x] = Numbers(r.v, r.d, k)[x]
      BY ONLY <1>5, <1>12, <2>1
    <2> QED
      BY ONLY <2>2, Zenon
  <1>14. k \notin EndIds(i) /\ (k \in DeferIds(k - 1) <=> first.realfd # NoFd)
         /\ DeferIds(k) = DeferIds(k - 1) \ {k}
    <2>1. k \notin EndIds(i)
      BY DEF EndIds
    <2> QED
      BY <1>7, <1>9, <2>1 DEF RestRight
  <1>15. B = [A EXCEPT ![u] = IF first.realfd = NoFd THEN Closed ELSE UserFile]
    BY <1>9, <1>12, AroundToIs
  <1>16. PICK e : e = RemapOne(c, R)
    OBVIOUS
  <1>17. PICK s : s = r.t
    OBVIOUS
  <1>18. Placed(e.t, D0, h, g, B)
    <2>1. CASE first.realfd = NoFd
      <3>1. e.t = CloseFd(s, u) /\ B = [A EXCEPT ![u] = Closed]
        BY <1>5, <1>8, <1>15, <1>16, <1>17, <2>1
      <3>2. D = D0
        BY <1>12, <1>14, <2>1
      <3>3. Placed(s, D, h, g, A) /\ \A x \in D : h[x] # u
        BY <1>13, <1>17, <3>2
      <3>4. Placed(CloseFd(s, u), D, h, g, B)
        BY ONLY <3>1, <3>3, u \in Fd, PlacedClosed
      <3> QED
        BY <3>1, <3>2, <3>4
    <2>2. CASE first.realfd # NoFd
      <3>1. e.t = Mvfd(s, first.realfd, u) /\ B = [A EXCEPT ![u] = UserFile]
        BY <1>5, <1>8, <1>15, <1>16, <1>17, <2>2
      <3>2. k \in D /\ D0 = D \ {k} /\ h[k] = first.realfd
        BY <1>12, <1>13, <1>14, <2>2
      <3>3. g[k] = UserFile
        BY <1>12, FilesOfIs
      <3>4. Placed(s, D, h, g, A) /\ \A x \in D \ {k} : h[x] # u
        BY <1>13, <1>17, <3>2
      <3>5. B = [A EXCEPT ![u] = g[k]]
        BY <3>1, <3>3
      <3>6. Placed(Mvfd(s, h[k], u), D \ {k}, h, g, B)
        BY ONLY <3>2, <3>4, <3>5, u \in Fd, PlacedMoved
      <3> QED
        BY <3>1, <3>2, <3>6
    <2> QED
      BY <2>1, <2>2
  <1>19. e.v = r.v /\ e.d = r.d
    BY <1>5, <1>16
  <1>20. PICK q : q = Numbers(e.v, e.d, k)
    OBVIOUS
  <1>21. \A x \in D0 : q[x] = h[x]
    BY <1>13, <1>19, <1>20
  <1>22. Placed(e.t, D0, q, g, B)
    BY ONLY <1>18, <1>21, PlacedSame
  <1>23. e \in Context
    BY <1>2, <1>3, <1>16, RemapOneType
  <1> QED
    BY <1>4, <1>11, <1>12, <1>16, <1>19, <1>20, <1>22, <1>23 DEF Ctx, ReleasedRight

\* The last command registers nothing, so its inpipe stays.
LEMMA LastKeeps ==
  ASSUME NEW c \in Context, c.d # <<>>
  PROVE  RemapOne(c, {}).v = c.v
  <1>1. PICK first \in Defer, rest \in Seq(Defer), r \in Context :
           /\ first = c.d[1] /\ rest = Tail(c.d) /\ Len(c.d) \in Nat \ {0}
           /\ Len(rest) = Len(c.d) - 1 /\ \A j \in 1 .. Len(rest) : rest[j] = c.d[j + 1]
           /\ r = Release([t |-> c.t, v |-> c.v, d |-> rest], {}, first.userfd)
           /\ RemapOne(c, {}) =
                [t |-> IF first.realfd = NoFd THEN CloseFd(r.t, first.userfd)
                       ELSE Mvfd(r.t, first.realfd, first.userfd),
                 v |-> r.v, d |-> r.d]
    BY RemapOneIs
  <1>2. PICK e \in Context : e = [t |-> c.t, v |-> c.v, d |-> rest]
    BY DEF Context
  <1>3. PICK u, n : u = first.userfd /\ n = LowestFree(e.t)
    OBVIOUS
  <1>4. VarsAt(e, {}, u) = {}
    BY DEF VarsAt
  <1>5. CASE DefersAt(e, u) = {}
    <2>1. Release(e, {}, u) = e
      BY <1>4, <1>5, ReleaseIs
    <2> QED
      BY <1>1, <1>2, <1>3, <2>1
  <1>6. CASE DefersAt(e, u) # {}
    <2>1. Release(e, {}, u) = [t |-> CloseFd(OpenAt(e.t, n, e.t[u]), u),
                               v |-> Renamed(e.v, {}, n), d |-> Shifted(e.d, DefersAt(e, u), n)]
      <3>1. PICK vs, ks : vs = VarsAt(e, {}, u) /\ ks = DefersAt(e, u)
        OBVIOUS
      <3>2. Release(e, {}, u) = [t |-> CloseFd(OpenAt(e.t, n, e.t[u]), u),
                                 v |-> Renamed(e.v, vs, n), d |-> Shifted(e.d, ks, n)]
        BY <1>3, <1>6, <3>1, ReleaseIs
      <3> QED
        BY <1>4, <3>1, <3>2
    <2>2. Renamed(e.v, {}, n) = e.v
      <3>1. PICK v \in Ends : v = e.v
        BY DEF Context
      <3>2. v = [x \in DOMAIN v |-> v[x]]
        BY <3>1 DEF Ends
      <3>3. Renamed(v, {}, n) = [x \in DOMAIN v |-> v[x]]
        BY DEF Renamed
      <3> QED
        BY <3>1, <3>2, <3>3
    <2> QED
      BY <1>1, <1>2, <1>3, <2>1, <2>2
  <1> QED
    BY <1>5, <1>6

\* A child that is forked has its ends and the deferred files, each at a number of its own.
StartRight(i) ==
  /\ i \in 1 .. NStages
  /\ i = 1 => proc[i].v.inpipe = NoFd
  /\ Placed(proc[i].t, EndIds(i) \cup DeferIds(0), Numbers(proc[i].v, deftab, 0), FilesOf(i), Fresh)

LEMMA StartIsRight ==
  ASSUME Given, NEW i, proc[i] \in Process, StartRight(i)
  PROVE  Ctx(i, Forked(i), 0)
  <1>1. PICK n \in Nat : n = Len(deftab)
    BY DEF Given
  <1>2. PICK a \in Process : a = proc[i]
    OBVIOUS
  <1>3. PICK c : c = Forked(i)
    OBVIOUS
  <1>4. c.t = a.t /\ c.v = a.v /\ c.d = deftab
    BY <1>2, <1>3 DEF Forked
  <1>5. c \in Context
    BY <1>2, <1>3 DEF Forked, Context, Process, Given
  <1>6. Len(c.d) = n - 0 /\ \A j \in 0 + 1 .. n : j - 0 = j
    BY <1>1, <1>4
  <1>7. \A j \in 0 + 1 .. n : c.d[j - 0].userfd = deftab[j].userfd
                            /\ (c.d[j - 0].realfd = NoFd <=> deftab[j].realfd = NoFd)
    BY <1>4, <1>6
  <1>8. Placed(c.t, EndIds(i) \cup DeferIds(0), Numbers(c.v, c.d, 0), FilesOf(i), AroundTo(0))
    BY <1>2, <1>4, AroundToIs DEF StartRight
  <1>9. i = 1 => c.v.inpipe = NoFd
    BY <1>2, <1>4 DEF StartRight
  <1> QED
    BY <1>1, <1>3, <1>5, <1>6, <1>7, <1>8, <1>9 DEF Ctx

\* After all the redirections only its ends are where they have to move from.
LEMMA RemappedRight ==
  ASSUME Given, Roomy, NEW i, proc[i] \in Process, StartRight(i),
         i > 1 /\ IsLast(i) => \A k \in DOMAIN deftab : deftab[k].userfd # Remapped(i).v.inpipe
  PROVE  Ctx(i, Remapped(i), Len(deftab))
  <1>1. PICK n \in Nat : n = Len(deftab) /\ DOMAIN deftab = 1 .. n
    BY DEF Given
  <1>2. i \in 1 .. NStages
    BY DEF StartRight
  <1>3. PICK f \in [0 .. n -> Context] :
          /\ f[0] = Forked(i) /\ Remapped(i) = f[n]
          /\ \A k \in 1 .. n : f[k] = RemapOne(f[k - 1], Registered(i))
          /\ \A k \in 0 .. n : Len(f[k].d) = n - k
    <2>1. deftab \in Seq(Defer) /\ proc[i].t \in Table /\ proc[i].v \in Ends
      BY DEF Given, Process
    <2> QED
      BY <1>1, <2>1, RemappedIs
  <1>4. \A k \in 1 .. n : k - 1 \in 0 .. n /\ k \in 0 .. n
    OBVIOUS
  <1>5. ASSUME IsLast(i) PROVE \A k \in 0 .. n : f[k].v = proc[i].v
    <2>1. PICK P : P = {k \in 0 .. n : f[k].v = proc[i].v}
      OBVIOUS
    <2>2. 0 \in P
      BY <1>3, <2>1 DEF Forked
    <2>3. ASSUME NEW k \in 1 .. n, k - 1 \in P PROVE k \in P
      <3>1. PICK c \in Context : c = f[k - 1] /\ Len(c.d) = n - (k - 1) /\ c.v = proc[i].v
        BY <1>3, <1>4, <2>1, <2>3
      <3>2. c.d # <<>>
        BY <3>1
      <3>3. f[k] = RemapOne(c, {})
        BY <1>3, <1>5, <3>1 DEF Registered
      <3>4. RemapOne(c, {}).v = c.v
        BY <3>2, LastKeeps
      <3> QED
        BY <1>4, <2>1, <3>1, <3>3, <3>4
    <2>4. \A k \in 0 .. n : k \in P
      BY <2>2, <2>3, Climb
    <2> QED
      BY <2>1, <2>4
  <1>6. PICK P : P = {k \in 0 .. n : Ctx(i, f[k], k)}
    OBVIOUS
  <1>7. 0 \in P
    BY <1>3, <1>6, StartIsRight
  <1>8. ASSUME NEW k \in 1 .. n, k - 1 \in P PROVE k \in P
    <2>1. PICK c : c = f[k - 1]
      OBVIOUS
    <2>2. Ctx(i, c, k - 1) /\ f[k] = RemapOne(c, Registered(i))
      BY <1>3, <1>6, <1>8, <2>1
    <2>3. i > 1 /\ IsLast(i) => deftab[k].userfd # c.v.inpipe
      BY <1>1, <1>3, <1>4, <1>5, <2>1
    <2>4. Ctx(i, RemapOne(c, Registered(i)), k)
      BY <1>1, <1>2, <2>2, <2>3, TurnIsRight
    <2> QED
      BY <1>4, <1>6, <2>2, <2>4
  <1>9. n \in P
    BY <1>7, <1>8, Climb
  <1> QED
    BY <1>1, <1>3, <1>6, <1>9

LEMMA PlacedNone ==
  ASSUME NEW t, NEW h, NEW g, NEW A, Placed(t, {}, h, g, A)
  PROVE  t = A
  BY DEF Placed, Table

\* Then it moves them there, and has what its command has to start with.
LEMMA MovesRight ==
  ASSUME Given, NEW i \in 1 .. NStages, NEW c, Ctx(i, c, Len(deftab)), ~Reused(i, c)
  PROVE  Moves(i, c) /\ OutMoved(i, c) = Expected(i)
  <1>1. PICK n \in Nat : n = Len(deftab)
    BY DEF Given
  <1>2. PICK h, g, A, t : /\ h = Numbers(c.v, c.d, n) /\ g = FilesOf(i)
                          /\ A = AroundTo(n) /\ t = c.t
    OBVIOUS
  <1>3. Placed(t, EndIds(i), h, g, A)
    <2>1. DeferIds(n) = {}
      BY <1>1 DEF DeferIds
    <2> QED
      BY <1>1, <1>2, <2>1 DEF Ctx
  <1>4. h[-1] = c.v.inpipe /\ h[-2] = c.v.p0 /\ h[-3] = c.v.p1
    <2>1. n \in 0 .. Len(deftab)
      BY <1>1
    <2> QED
      BY <1>2, <2>1, NumbersAre
  <1>5. (i > 1 => g[-1] = ReadEnd(i - 1)) /\ g[-3] = WriteEnd(i)
    BY <1>2, FilesOfIs
  <1>6. A \in Table /\ \A u \in Fd : A[u] = Around(u)
    BY <1>1, <1>2, AroundType, AroundToIs
  <1>7. PICK D : D = EndIds(i) \ {-1}
    OBVIOUS
  <1>8. (IsLast(i) => D = {}) /\ (~IsLast(i) => D = {-2, -3}) /\ (-1 \in EndIds(i) <=> i > 1)
    BY <1>7 DEF EndIds
  <1>9. (i > 1 => InFd(i) \in Fd) /\ (~IsLast(i) => OutFd(i) \in Fd)
    BY DEF Given
  <1>10. PICK s : s = InMoved(i, c)
    OBVIOUS
  <1>11. PICK B : B = IF i > 1 THEN [A EXCEPT ![InFd(i)] = ReadEnd(i - 1)] ELSE A
    OBVIOUS
  <1>12. Placed(s, D, h, g, B) /\ (i = 1 \/ MvfdOk(c.t, c.v.inpipe, InFd(i)))
    <2>1. CASE i = 1
      <3>1. s = t /\ B = A /\ D = EndIds(i)
        BY <1>2, <1>7, <1>8, <1>10, <1>11, <2>1 DEF InMoved
      <3> QED
        BY <1>3, <2>1, <3>1
    <2>2. CASE i > 1
      <3>1. PICK u \in Fd : u = InFd(i)
        BY <1>9, <2>2
      <3>2. \A x \in EndIds(i) \ {-1} : h[x] # u
        BY <1>4, <1>7, <1>8, <2>2, <3>1 DEF Reused
      <3>3. B = [A EXCEPT ![u] = g[-1]]
        BY <1>5, <1>11, <2>2, <3>1
      <3>4. -1 \in EndIds(i)
        BY <1>8, <2>2
      <3>5. MvfdOk(t, h[-1], u) /\ Placed(Mvfd(t, h[-1], u), EndIds(i) \ {-1}, h, g, B)
        BY ONLY <1>3, <3>2, <3>3, <3>4, PlacedMoved
      <3>6. s = Mvfd(t, h[-1], u)
        BY <1>2, <1>4, <1>10, <2>2, <3>1 DEF InMoved
      <3> QED
        BY <1>2, <1>4, <1>7, <3>1, <3>5, <3>6
    <2> QED
      BY <2>1, <2>2 DEF Given
  <1>13. B \in Table
    BY <1>12 DEF Placed
  <1>14. \A u \in Fd : B[u] = IF i > 1 /\ u = InFd(i) THEN ReadEnd(i - 1) ELSE Around(u)
    BY <1>6, <1>9, <1>11 DEF Table
  <1>15. CASE IsLast(i)
    <2>1. s = B
      BY <1>8, <1>12, <1>15, PlacedNone
    <2>2. OutMoved(i, c) = B /\ Moves(i, c)
      BY <1>10, <1>12, <1>15, <2>1 DEF OutMoved, Moves
    <2>3. \A u \in Fd : Expected(i)[u] = B[u]
      BY <1>14, <1>15 DEF Expected
    <2>4. B = [u \in Fd |-> B[u]]
      BY <1>13 DEF Table
    <2>5. Expected(i) = [u \in Fd |-> Expected(i)[u]]
      BY DEF Expected
    <2>6. Expected(i) = B
      BY <2>3, <2>4, <2>5
    <2> QED
      BY <2>2, <2>6
  <1>16. CASE ~IsLast(i)
    <2>1. PICK w \in Fd : w = OutFd(i)
      BY <1>9, <1>16
    <2>2. PICK E : E = [B EXCEPT ![w] = g[-3]]
      OBVIOUS
    <2>3. -3 \in D /\ \A x \in D \ {-3} : h[x] # w
      BY <1>4, <1>8, <1>16, <2>1 DEF Reused
    <2>4. MvfdOk(s, h[-3], w) /\ Placed(Mvfd(s, h[-3], w), D \ {-3}, h, g, E)
      BY ONLY <1>12, <2>2, <2>3, PlacedMoved
    <2>5. PICK m : m = Mvfd(s, h[-3], w)
      OBVIOUS
    <2>6. Placed(m, {-2}, h, g, E)
      <3>1. D \ {-3} = {-2}
        BY <1>8, <1>16
      <3> QED
        BY <2>4, <2>5, <3>1
    <2>7. Placed(CloseFd(m, h[-2]), {}, h, g, E)
      <3>1. Placed(CloseFd(m, h[-2]), {-2} \ {-2}, h, g, E)
        BY <2>6, PlacedDropped
      <3>2. {-2} \ {-2} = {}
        OBVIOUS
      <3> QED
        BY <3>1, <3>2
    <2>8. CloseFd(m, h[-2]) = E
      BY <2>7, PlacedNone
    <2>9. OutMoved(i, c) = E /\ Moves(i, c)
      BY <1>4, <1>10, <1>12, <1>16, <2>1, <2>4, <2>5, <2>8 DEF OutMoved, Moves
    <2>10. E \in Table
      BY <2>7 DEF Placed
    <2>11. \A u \in Fd : E[u] = IF u = w THEN WriteEnd(i) ELSE B[u]
      BY <1>5, <1>13, <2>2 DEF Table
    <2>12. \A u \in Fd : Expected(i)[u] = E[u]
      BY <1>14, <1>16, <2>1, <2>11 DEF Expected
    <2>13. E = [u \in Fd |-> E[u]]
      BY <2>10 DEF Table
    <2>14. Expected(i) = [u \in Fd |-> Expected(i)[u]]
      BY DEF Expected
    <2>15. Expected(i) = E
      BY <2>12, <2>13, <2>14
    <2> QED
      BY <2>9, <2>15
  <1> QED
    BY <1>15, <1>16

-----------------------------------------------------------------------------
(***************************************************************************)
(* What every child has to start with.                                     *)
(***************************************************************************)
ChildRight(i) ==
  /\ proc[i].state = "new" => /\ StartRight(i) /\ proc[i].status = "none"
                              /\ proc[i].reused = FALSE
  /\ proc[i].reused = FALSE => /\ proc[i].state = "run" => proc[i].t = Expected(i)
                               /\ proc[i].status # "failed"

ChildTables == \A i \in Stages : ChildRight(i)

\* t is the shell's table when it forks, v its variables.
Forks(i, t, v, own) ==
  /\ t \in Table
  /\ IF i = 1 THEN v.inpipe = NoFd ELSE v.inpipe \in Fd /\ t[v.inpipe] = ReadEnd(i - 1)
  /\ ~IsLast(i) => /\ v.p0 \in Fd /\ v.p1 \in Fd /\ v.p0 # v.p1
                   /\ v.inpipe # v.p0 /\ v.inpipe # v.p1
                   /\ t[v.p0] = ReadEnd(i) /\ t[v.p1] = WriteEnd(i)
  /\ own = IF IsLast(i) THEN {v.inpipe} ELSE {v.inpipe, v.p0, v.p1}
  /\ \A u \in Fd : /\ u \notin own => t[u] = Opened(deftab)[u]
                   /\ u \in own => Opened(deftab)[u] = Closed

LEMMA ForksRight ==
  ASSUME Given, NEW i \in 1 .. NStages, NEW t, NEW v, NEW own, Forks(i, t, v, own)
  PROVE  Placed(t, EndIds(i) \cup DeferIds(0), Numbers(v, deftab, 0), FilesOf(i), Fresh)
  <1>1. PICK n \in Nat : n = Len(deftab)
    BY DEF Given
  <1>2. PICK h, g, E, B : /\ h = Numbers(v, deftab, 0) /\ g = FilesOf(i)
                          /\ E = EndIds(i) /\ B = Opened(deftab)
    OBVIOUS
  <1>3. /\ h[-1] = v.inpipe /\ h[-2] = v.p0 /\ h[-3] = v.p1
        /\ \A j \in 0 + 1 .. n : h[j] = deftab[j - 0].realfd
    <2>1. 0 \in 0 .. Len(deftab)
      BY <1>1
    <2> QED
      BY <1>1, <1>2, <2>1, NumbersAre
  <1>4. \A x \in DeferIds(0) : g[x] = UserFile /\ h[x] = deftab[x].realfd
    <2>1. ASSUME NEW x \in DeferIds(0) PROVE g[x] = UserFile /\ h[x] = deftab[x].realfd
      <3>1. x \in 0 + 1 .. n /\ x - 0 = x /\ x \in 1 .. Len(deftab)
        BY <1>1 DEF DeferIds
      <3> QED
        BY <1>2, <1>3, <3>1, FilesOfIs
    <2> QED
      BY <2>1
  <1>5. Placed(B, DeferIds(0), h, g, Fresh)
    BY <1>2, <1>4, BaseIs
  <1>6. \A x \in E : /\ x \in {-1, -2, -3} /\ (x = -1 => i # 1) /\ (x # -1 => ~IsLast(i))
                     /\ g[x] \in Files
    <2>1. \A x \in E : g[x] \in Files
      BY <1>2, FilesOfIs
    <2> QED
      BY <1>2, <2>1 DEF EndIds
  <1>7. (i # 1 => -1 \in E) /\ (~IsLast(i) => -2 \in E /\ -3 \in E)
    BY <1>2 DEF EndIds, Given
  <1>8. (i # 1 => g[-1] = ReadEnd(i - 1)) /\ g[-2] = ReadEnd(i) /\ g[-3] = WriteEnd(i)
    BY <1>2, FilesOfIs DEF Given
  <1>9. ASSUME NEW x \in E PROVE h[x] \in Fd /\ h[x] \in own /\ t[h[x]] = g[x]
    <2>1. CASE x = -1
      BY <1>3, <1>6, <1>8, <2>1 DEF Forks
    <2>2. CASE x = -2
      BY <1>3, <1>6, <1>8, <2>2 DEF Forks
    <2>3. CASE x = -3
      BY <1>3, <1>6, <1>8, <2>3 DEF Forks
    <2> QED
      BY <1>6, <2>1, <2>2, <2>3
  <1>10. \A x \in E : h[x] \in Fd /\ g[x] \in Files /\ t[h[x]] = g[x] /\ B[h[x]] = Closed
    BY <1>2, <1>6, <1>9 DEF Forks
  <1>11. ASSUME NEW x \in E, NEW y \in E, h[x] = h[y] PROVE x = y
    BY <1>3, <1>6, <1>11 DEF Forks
  <1>12. ASSUME NEW u \in Fd, \A x \in E : h[x] # u PROVE t[u] = B[u]
    <2>1. u \notin own
      BY <1>3, <1>7, <1>12, FdIs DEF Forks
    <2> QED
      BY <1>2, <2>1 DEF Forks
  <1>13. t \in Table
    BY DEF Forks
  <1>14. Placed(t, DeferIds(0) \cup E, h, g, Fresh)
    BY ONLY <1>5, <1>10, <1>11, <1>12, <1>13, PlacedMore
  <1>15. DeferIds(0) \cup E = E \cup DeferIds(0)
    OBVIOUS
  <1> QED
    BY <1>2, <1>14, <1>15

\* What is right about a child depends on nothing that others change.
LEMMA ChildKept ==
  ASSUME UNCHANGED <<deftab, links, quoted>>, NEW i, proc'[i] = proc[i], ChildRight(i)
  PROVE  ChildRight(i)'
  <1>1. NStages' = NStages
    BY DEF NStages
  <1>2. IsLast(i)' <=> IsLast(i)
    BY <1>1 DEF IsLast
  <1>3. OutFd(i)' = OutFd(i) /\ InFd(i)' = InFd(i)
    BY DEF OutFd, InFd
  <1>4. \A u : Around(u)' = Around(u)
    BY DEF Around
  <1>5. Expected(i)' = Expected(i)
    BY <1>2, <1>3, <1>4, Zenon DEF Expected
  <1>6. EndIds(i)' = EndIds(i)
    BY <1>2 DEF EndIds
  <1>7. DeferIds(0)' = DeferIds(0) /\ FilesOf(i)' = FilesOf(i)
    BY DEF DeferIds, FilesOf, Ids
  <1>8. Numbers(proc[i].v, deftab, 0)' = Numbers(proc[i].v, deftab, 0)
    BY DEF Numbers, Ids
  <1>9. StartRight(i) => StartRight(i)'
    BY <1>1, <1>6, <1>7, <1>8 DEF StartRight
  <1> QED
    BY <1>5, <1>9 DEF ChildRight

LEMMA InitChildTables == ASSUME Init PROVE ChildTables
  BY DEF Init, ChildTables, ChildRight, NoProc

LEMMA ForkChildTables ==
  ASSUME SInv, SInv', ChildTables, Fork
  PROVE  ChildTables'
  <1>1. /\ pc = "fork" /\ pc' = "close"
        /\ UNCHANGED <<deftab, links, quoted, stage, inpipe, result, data>>
    BY DEF Fork
  <1>2. Given' /\ NStages' = NStages /\ Opened(deftab)' = Opened(deftab)
        /\ (IsLast(stage)' <=> IsLast(stage))
    BY <1>1, GivenKept DEF SInv, IsLast
  <1>3. NewChild(stage, fdt', p')
    BY DEF Fork
  <1>4. PICK r, w \in Fd \cup {NoFd} : p' = <<r, w>> /\ p'[1] = r /\ p'[2] = w
    BY DEF SInv, Types
  <1>5. fdt' \in Table /\ stage \in Stages /\ stage \in 1 .. NStages
    BY SInvTypes DEF SInv, Types, TypeOK, ShellEnds
  <1>6. /\ \A j \in Stages \ {stage} : proc'[j] = proc[j]
        /\ proc'[stage].state = "new" /\ proc'[stage].t = fdt'
        /\ proc'[stage].status = proc[stage].status
        /\ proc'[stage].reused = proc[stage].reused
        /\ proc'[stage].v = [inpipe |-> inpipe, p0 |-> r, p1 |-> w]
    BY <1>3, <1>4, <1>5, NewChildIs DEF SInv
  <1>7. proc[stage].status = "none" /\ proc[stage].reused = FALSE
    <2>1. Begun = stage - 1 /\ stage > stage - 1
      BY <1>1, <1>5, SInvTypes DEF Begun
    <2>2. proc[stage] = NoProc
      BY <1>5, <2>1 DEF SInv, ChildrenRight
    <2> QED
      BY <2>2 DEF NoProc
  <1>8. PICK v, t, own : /\ v = [inpipe |-> inpipe, p0 |-> r, p1 |-> w] /\ t = fdt'
                         /\ own = IF IsLast(stage) THEN {inpipe} ELSE {inpipe, r, w}
    OBVIOUS
  <1>9. v.inpipe = inpipe /\ v.p0 = r /\ v.p1 = w
    BY <1>8
  <1>10. Own' = own
    BY <1>1, <1>2, <1>4, <1>8 DEF Own
  <1>11. /\ IF stage = 1 THEN inpipe = NoFd ELSE inpipe \in Fd /\ fdt'[inpipe] = ReadEnd(stage - 1)
         /\ ~IsLast(stage) => /\ r \in Fd /\ w \in Fd /\ r # w /\ inpipe \notin {r, w}
                              /\ fdt'[r] = ReadEnd(stage) /\ fdt'[w] = WriteEnd(stage)
    BY <1>1, <1>2, <1>4 DEF SInv, ShellEnds
  <1>12. \A u \in Fd : /\ u \notin own => fdt'[u] = Opened(deftab)[u]
                       /\ u \in own => Opened(deftab)[u] = Closed
    BY <1>1, <1>2, <1>10 DEF SInv, ShellTable
  <1>13. Forks(stage, t, v, own)
    BY <1>5, <1>8, <1>9, <1>11, <1>12 DEF Forks
  <1>14. Placed(t, EndIds(stage) \cup DeferIds(0), Numbers(v, deftab, 0), FilesOf(stage), Fresh)
    BY <1>5, <1>13, ForksRight DEF SInv
  <1>15. /\ EndIds(stage)' = EndIds(stage) /\ DeferIds(0)' = DeferIds(0)
         /\ FilesOf(stage)' = FilesOf(stage)
         /\ Numbers(proc[stage].v, deftab, 0)' = Numbers(v, deftab, 0)
    BY <1>1, <1>2, <1>6, <1>8 DEF EndIds, DeferIds, FilesOf, Numbers, Ids
  <1>16. stage = 1 => proc'[stage].v.inpipe = NoFd
    BY <1>6, <1>8, <1>9, <1>11
  <1>17. StartRight(stage)'
    BY <1>1, <1>2, <1>5, <1>6, <1>8, <1>14, <1>15, <1>16 DEF StartRight
  <1>18. ChildRight(stage)'
    BY <1>1, <1>6, <1>7, <1>17 DEF ChildRight
  <1>19. \A j \in Stages \ {stage} : ChildRight(j)'
    BY <1>1, <1>6, ChildKept DEF ChildTables
  <1> QED
    BY <1>1, <1>18, <1>19 DEF ChildTables

LEMMA ChildChildTables ==
  ASSUME Roomy, SInv, ChildTables, NEW i \in Stages, Command(i) \/ Quit(i)
  PROVE  ChildTables'
  <1>1. proc \in [Stages -> Process] /\ proc[i] \in Process
    BY DEF SInv, Types
  <1>2. ASSUME NEW r, proc' = [proc EXCEPT ![i] = r], UNCHANGED shell,
               r.state # "new",
               r.reused = FALSE => /\ r.state = "run" => r.t = Expected(i)
                                   /\ r.status # "failed"
        PROVE  ChildTables'
    <2>1. UNCHANGED <<deftab, links, quoted>>
      BY <1>2 DEF shell
    <2>2. proc'[i] = r /\ \A j \in Stages \ {i} : proc'[j] = proc[j]
      BY <1>1, <1>2
    <2>3. \A j \in Stages \ {i} : ChildRight(j)'
      BY <2>1, <2>2, ChildKept DEF ChildTables
    <2>4. Expected(i)' = Expected(i)
      <3>1. NStages' = NStages
        BY <2>1 DEF NStages
      <3>2. IsLast(i)' <=> IsLast(i)
        BY <2>1, <3>1 DEF IsLast
      <3>3. OutFd(i)' = OutFd(i) /\ InFd(i)' = InFd(i)
        BY <2>1 DEF OutFd, InFd
      <3>4. \A u : Around(u)' = Around(u)
        BY <2>1 DEF Around
      <3> QED
        BY <3>2, <3>3, <3>4, Zenon DEF Expected
    <2>5. ChildRight(i)'
      BY <1>2, <2>2, <2>4 DEF ChildRight
    <2> QED
      BY <2>3, <2>5 DEF ChildTables
  <1>3. CASE SetUp(i)
    <2>1. PICK c \in Context, r \in Process :
            /\ c = Remapped(i) /\ proc' = [proc EXCEPT ![i] = r]
            /\ proc[i].state = "new" /\ UNCHANGED <<shell, data>>
            /\ Moves(i, c) => /\ OutMoved(i, c) \in Table
                              /\ r.state = "run" /\ r.t = OutMoved(i, c)
                              /\ r.status = proc[i].status
            /\ ~Moves(i, c) => r.state = "dead" /\ r.status = "failed"
            /\ r.reused <=> Reused(i, c)
      BY <1>3, SetUpIs DEF SInv
    <2>2. StartRight(i) /\ proc[i].status = "none"
      BY <2>1 DEF ChildTables, ChildRight
    <2>3. ASSUME ~Reused(i, c) PROVE Moves(i, c) /\ OutMoved(i, c) = Expected(i)
      <3>1. i > 1 /\ IsLast(i) => \A k \in DOMAIN deftab : deftab[k].userfd # Remapped(i).v.inpipe
        BY <2>1, <2>3 DEF Reused
      <3>2. Ctx(i, Remapped(i), Len(deftab))
        BY <1>1, <2>2, <3>1, RemappedRight DEF SInv
      <3>3. i \in 1 .. NStages
        BY <2>2 DEF StartRight
      <3> QED
        BY <2>1, <2>3, <3>2, <3>3, MovesRight DEF SInv
    <2>4. r.state # "new"
      BY <2>1
    <2>5. r.reused = FALSE => /\ r.state = "run" => r.t = Expected(i)
                              /\ r.status # "failed"
      BY <2>1, <2>2, <2>3
    <2> QED
      BY <1>2, <2>1, <2>4, <2>5
  <1>4. CASE Read(i) \/ Write(i) \/ Finish(i) \/ Quit(i)
    <2>1. PICK r \in Process :
            /\ proc' = [proc EXCEPT ![i] = r] /\ proc[i].state = "run" /\ UNCHANGED shell
            /\ r.state \in {"run", "dead"} /\ r.t = proc[i].t /\ r.reused = proc[i].reused
            /\ r.status \in {proc[i].status, "sigpipe", "true", "false"}
      BY <1>4, RunIs DEF SInv
    <2>2. r.state # "new"
      BY <2>1
    <2>3. r.reused = FALSE => /\ r.state = "run" => r.t = Expected(i)
                              /\ r.status # "failed"
      BY <2>1 DEF ChildTables, ChildRight
    <2> QED
      BY <1>2, <2>1, <2>2, <2>3
  <1> QED
    BY <1>3, <1>4 DEF Command

LEMMA NextChildTables ==
  ASSUME Roomy, SInv, SInv', ChildTables, [Next]_vars
  PROVE  ChildTables'
  <1>1. ASSUME UNCHANGED <<deftab, links, quoted, proc>> PROVE ChildTables'
    BY <1>1, ChildKept DEF ChildTables
  <1>2. CASE UNCHANGED vars
    BY <1>1, <1>2 DEF vars
  <1>3. CASE Fork
    BY <1>3, ForkChildTables
  <1>4. CASE CloseEnds
    BY <1>1, <1>4 DEF CloseEnds
  <1>5. CASE ReadBack
    BY <1>1, <1>5 DEF ReadBack
  <1>6. CASE Wait
    BY <1>1, <1>6 DEF Wait
  <1>7. CASE PipeFails
    BY <1>1, <1>7 DEF PipeFails
  <1>8. CASE ForkFails
    BY <1>1, <1>8 DEF ForkFails
  <1>9. CASE ReadFails
    BY <1>1, <1>9 DEF ReadFails
  <1>10. CASE \E i \in Stages : Command(i) \/ Quit(i)
    BY <1>10, ChildChildTables
  <1> QED
    BY <1>2, <1>3, <1>4, <1>5, <1>6, <1>7, <1>8, <1>9, <1>10 DEF Next, Shell

\* With room for the descriptors that a child moves about, every command starts with
\* exactly its ends of the pipes, at the numbers the command line names, and with the
\* redirections around the pipeline at the others, unless one of these numbers is one
\* where an unprotected end was (pipefork, closefds, remapfds, releasefd).
THEOREM CommandsHaveTheirEnds ==
  ASSUME Roomy
  PROVE  Spec => []TablesSound
  <1>1. Init => SInv /\ ChildTables
    BY InitSInv, InitChildTables
  <1>2. SInv /\ ChildTables /\ [Next]_vars => SInv' /\ ChildTables'
    BY NextSInv, NextChildTables
  <1>3. SInv /\ ChildTables => TablesSound
    <2> SUFFICES ASSUME SInv, ChildTables PROVE TablesSound
      OBVIOUS
    <2>1. TypeOK
      BY DEF SInv, Types
    <2>2. ASSUME NEW i \in Stages, ~proc[i].reused
          PROVE  /\ proc[i].state = "run" => proc[i].t = Expected(i)
                 /\ proc[i].status # "failed"
      <3>1. proc[i] \in Process
        BY DEF SInv, Types
      <3>2. proc[i].reused \in BOOLEAN
        BY <3>1 DEF Process
      <3>3. proc[i].reused = FALSE
        BY <2>2, <3>2
      <3> QED
        BY <3>3 DEF ChildTables, ChildRight
    <2> QED
      BY <2>1, <2>2 DEF TablesSound, StageTablesUnlessReused
  <1> QED
    BY <1>1, <1>2, <1>3, PTL DEF Spec

=============================================================================
