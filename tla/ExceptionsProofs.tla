-------------------------- MODULE ExceptionsProofs --------------------------
(***************************************************************************)
(* Proofs about Exceptions: however constructs are nested and left, the    *)
(* handlers, the locals, the evaluations and what has to be cleaned up are *)
(* those of the stack, for any constructs, exceptions and depths.          *)
(*                                                                         *)
(* What the globals should be is a function of the stack, and of any       *)
(* beginning of it.  The invariant says that the globals have these values *)
(* for the whole stack, and that each frame has saved those of the stack   *)
(* that it was put on.                                                     *)
(***************************************************************************)
EXTENDS Exceptions, FiniteSetTheorems, NaturalsInduction, WellFoundedInduction, TLAPS

\* Sets of kinds, as HandlerKinds is one.
Forks == {"fork"}
Throws == {"throw"}
Catchers == {"catcher"}
Redirs == {"redir"}
Inputs == {"input"}

\* The frames of some kinds among the first m of a stack,
Of(f, m, kinds) == {k \in 1 .. m : f[k].kind \in kinds}

\* and what these m frames make of tophandler, pushlist, evaldepth, blocked, defcount
\* and input.
ForkIn(f, m) == Last(Of(f, m, Forks))

ArmedIn(f, m) ==
  {k \in Of(f, m, HandlerKinds) :
     /\ k = roothandler \/ k > ForkIn(f, m)
     /\ \A j \in Of(f, m, Throws) : j > k /\ j > ForkIn(f, m) => k < f[j].up}

HandlerIn(f, m) == Last(ArmedIn(f, m))
PushIn(f, m) == Last(Of(f, m, PushKinds))
DepthIn(f, m) == Cardinality(Of(f, m, EvalKinds))
CatchersIn(f, m) == Cardinality(Of(f, m, Catchers))
RedirsIn(f, m) == Cardinality({k \in Of(f, m, Redirs) : k > ForkIn(f, m)})
InputIn(f, m) == Last(Of(f, m, Inputs))

\* x is a frame that may be put on the first m: it saves what they make of the globals.
\* On top of a throw there are only the settors that it runs.
Fits(f, m, x) ==
  /\ x.kind \in HandlerKinds =>
       /\ x.up = HandlerIn(f, m) /\ x.push = PushIn(f, m)
       /\ x.depth = DepthIn(f, m) + (IF x.kind = "lambda" THEN 1 ELSE 0)
  /\ x.kind = "catcher" => "catch" \in Scopes
  /\ x.kind = "redir" => x.prev = RedirsIn(f, m)
  /\ x.kind = "input" => x.prev = InputIn(f, m)
  /\ x.kind = "throw" => x.up = HandlerIn(f, m) /\ x.up # NULL
  /\ x.kind = "main" <=> m = 0
  /\ IF m >= 1 /\ f[m].kind = "throw"
       THEN x.kind = "popping" /\ x.push \in Of(f, m, PushKinds) /\ f[m].up < x.push
       ELSE x.kind \in PushKinds =>
              /\ x.push = PushIn(f, m)
              /\ x.kind = "popping" => f[m].kind = "local"

Stack(f) ==
  /\ f \in Seq(FrameType) /\ Len(f) >= 1
  /\ \A k \in 1 .. Len(f) : Fits(f, k - 1, f[k])

\* pushlist is the innermost Push, but for a throw that is on its way through them.
PushGood(f, p) ==
  IF f[Len(f)].kind = "throw"
    THEN \/ p = f[f[Len(f)].up].push
         \/ p \in Of(f, Len(f), PushKinds) /\ f[Len(f)].up < p
    ELSE p = PushIn(f, Len(f))

Types ==
  /\ tophandler \in 0 .. Here
  /\ input \in Nat /\ blocked \in Nat /\ defcount \in Nat /\ applied \in 0 .. defcount
  /\ child \in BOOLEAN /\ skipped \in BOOLEAN
  /\ ended \in {"no", "exit", "throw", "undefer"}

\* What has to be cleaned up.  A handler that was skipped leaves signals blocked.
Clean ==
  /\ blocked >= CatchersIn(frames, Here)
  /\ ~skipped => /\ blocked = CatchersIn(frames, Here)
                 /\ defcount = RedirsIn(frames, Here)
                 /\ input = InputIn(frames, Here)

Explained ==
  /\ ended = "throw" => \E k \in Of(frames, Here, Throws) : frames[k].up = roothandler
  /\ ended = "undefer" => skipped \/ applied > 0

ForkKept == child /\ ended = "no" /\ applied = 0 => Of(frames, Here, Forks) # {}

IInv ==
  /\ Types /\ Stack(frames) /\ PushGood(frames, pushlist)
  /\ evaldepth = DepthIn(frames, Here)
  /\ ended = "no" => tophandler = HandlerIn(frames, Here) /\ Clean
  /\ Explained /\ ForkKept

-----------------------------------------------------------------------------
(***************************************************************************)
(* Finite sets of positions.                                               *)
(***************************************************************************)

LessThan == {ss \in Nat \X Nat : ss[1] < ss[2]}

LEMMA LessWellFounded == IsWellFoundedOn(LessThan, Nat)
  BY NatLessThanWellFounded DEF LessThan, OpToRel

LEMMA LeastExists ==
  ASSUME NEW S \in SUBSET Nat, S # {}
  PROVE  \E i \in S : \A j \in S : i <= j
  <1>1. PICK i \in S : \A j \in S : <<j, i>> \notin LessThan
    BY LessWellFounded, WFMin
  <1>2. ASSUME NEW j \in S PROVE i <= j
    <2>1. j \in Nat /\ i \in Nat
      OBVIOUS
    <2>2. <<j, i>> \notin {ss \in Nat \X Nat : ss[1] < ss[2]}
      BY <1>1 DEF LessThan
    <2>3. <<j, i>> \in Nat \X Nat
      BY <2>1
    <2>4. ~(<<j, i>>[1] < <<j, i>>[2])
      BY <2>2, <2>3, Zenon
    <2> QED
      BY <2>1, <2>4
  <1> QED
    BY <1>2

\* What Last chooses.
LEMMA LastIs ==
  ASSUME NEW S \in SUBSET Nat, NEW x \in S, \A j \in S : j <= x
  PROVE  Last(S) = x
  <1>1. \A k \in S : (\A j \in S : j <= k) => k = x
    OBVIOUS
  <1>2. S # {} /\ (CHOOSE k \in S : \A j \in S : j <= k) = x
    BY <1>1
  <1> QED
    BY <1>2 DEF Last

LEMMA LastIn ==
  ASSUME NEW n \in Nat, NEW S \in SUBSET (1 .. n)
  PROVE  /\ Last(S) \in 0 .. n
         /\ IF S = {} THEN Last(S) = NULL ELSE Last(S) \in S
         /\ \A j \in S : j <= Last(S)
  <1>1. CASE S = {}
    BY <1>1 DEF Last, NULL
  <1>2. CASE S # {}
    <2> DEFINE D == {n - j : j \in S}
    <2>1. \A j \in S : n - j \in Nat
      OBVIOUS
    <2>2. D \in SUBSET Nat /\ D # {}
      BY <1>2, <2>1
    <2>3. PICK d \in D : \A e \in D : d <= e
      BY <2>2, LeastExists
    <2>4. PICK x \in S : d = n - x
      BY <2>3
    <2>5. \A j \in S : j <= x
      BY <2>3, <2>4
    <2>6. Last(S) = x
      BY <2>5, LastIs
    <2> QED
      BY <1>2, <2>5, <2>6
  <1> QED
    BY <1>1, <1>2

LEMMA LastOfNone ==
  Last({}) = 0
  BY DEF Last, NULL

-----------------------------------------------------------------------------
(***************************************************************************)
(* One frame more.                                                         *)
(***************************************************************************)

LEMMA OfIn ==
  ASSUME NEW f, NEW m \in Nat, NEW kinds
  PROVE  /\ Of(f, m, kinds) \in SUBSET (1 .. m)
         /\ IsFiniteSet(Of(f, m, kinds)) /\ Cardinality(Of(f, m, kinds)) \in Nat
         /\ Last(Of(f, m, kinds)) \in 0 .. m
         /\ \A k \in Of(f, m, kinds) : k <= Last(Of(f, m, kinds))
  <1>1. Of(f, m, kinds) \in SUBSET (1 .. m)
    BY DEF Of
  <1>2. IsFiniteSet(Of(f, m, kinds))
    BY <1>1, FS_Interval, FS_Subset
  <1>3. Cardinality(Of(f, m, kinds)) \in Nat
    BY <1>2, FS_CardinalityType
  <1> QED
    BY <1>1, <1>2, <1>3, LastIn

LEMMA LastMore ==
  ASSUME NEW f, NEW n \in Nat \ {0}, NEW kinds, f[n].kind \in kinds
  PROVE  Last(Of(f, n, kinds)) = n
  <1>1. n \in Of(f, n, kinds) /\ Of(f, n, kinds) \in SUBSET Nat
    BY DEF Of
  <1>2. \A j \in Of(f, n, kinds) : j <= n
    BY DEF Of
  <1> QED
    BY <1>1, <1>2, LastIs

LEMMA OfMore ==
  ASSUME NEW f, NEW n \in Nat \ {0}, NEW kinds, f[n].kind \in kinds
  PROVE  /\ Of(f, n, kinds) = Of(f, n - 1, kinds) \cup {n}
         /\ Cardinality(Of(f, n, kinds)) = Cardinality(Of(f, n - 1, kinds)) + 1
  <1>1. Of(f, n, kinds) = Of(f, n - 1, kinds) \cup {n}
    BY DEF Of
  <1>2. n \notin Of(f, n - 1, kinds) /\ n - 1 \in Nat
    BY DEF Of
  <1>3. Cardinality(Of(f, n - 1, kinds) \cup {n}) = Cardinality(Of(f, n - 1, kinds)) + 1
    BY <1>2, OfIn, FS_AddElement
  <1> QED
    BY <1>1, <1>3

LEMMA OfStep ==
  ASSUME NEW f, NEW n \in Nat \ {0}, NEW kinds, f[n].kind \notin kinds
  PROVE  Of(f, n, kinds) = Of(f, n - 1, kinds)
  BY DEF Of

\* Nothing of the kind above h.
LEMMA OfSame ==
  ASSUME NEW f, NEW n \in Nat, NEW h \in 0 .. n, NEW kinds,
         \A k \in (h + 1) .. n : f[k].kind \notin kinds
  PROVE  Of(f, n, kinds) = Of(f, h, kinds)
  BY DEF Of

LEMMA OfMonotone ==
  ASSUME NEW f, NEW n \in Nat, NEW h \in 0 .. n, NEW kinds
  PROVE  Cardinality(Of(f, h, kinds)) <= Cardinality(Of(f, n, kinds))
  <1>1. Of(f, h, kinds) \subseteq Of(f, n, kinds)
    BY DEF Of
  <1>2. IsFiniteSet(Of(f, n, kinds))
    BY OfIn
  <1> QED
    BY <1>1, <1>2, FS_Subset

\* Stacks that agree on m frames.
LEMMA Agree ==
  ASSUME NEW f, NEW g, NEW m \in Nat, \A k \in 1 .. m : f[k] = g[k]
  PROVE  /\ \A kinds : Of(f, m, kinds) = Of(g, m, kinds)
         /\ ForkIn(f, m) = ForkIn(g, m) /\ ArmedIn(f, m) = ArmedIn(g, m)
         /\ HandlerIn(f, m) = HandlerIn(g, m) /\ PushIn(f, m) = PushIn(g, m)
         /\ DepthIn(f, m) = DepthIn(g, m) /\ CatchersIn(f, m) = CatchersIn(g, m)
         /\ RedirsIn(f, m) = RedirsIn(g, m) /\ InputIn(f, m) = InputIn(g, m)
  <1>1. ASSUME NEW kinds PROVE Of(f, m, kinds) = Of(g, m, kinds)
    BY DEF Of
  <1>2. ForkIn(f, m) = ForkIn(g, m)
    BY <1>1 DEF ForkIn
  <1>3. \A j \in Of(f, m, Throws) : f[j].up = g[j].up
    BY DEF Of
  <1>4. ArmedIn(f, m) = ArmedIn(g, m)
    BY <1>1, <1>2, <1>3 DEF ArmedIn
  <1>5. RedirsIn(f, m) = RedirsIn(g, m)
    BY <1>1, <1>2 DEF RedirsIn
  <1> QED
    BY <1>1, <1>2, <1>4, <1>5 DEF HandlerIn, PushIn, DepthIn, CatchersIn, InputIn

\* The deferrals: a fork has applied those of the redirections below it.
LEMMA RedirsStep ==
  ASSUME NEW f, NEW n \in Nat \ {0}
  PROVE  /\ RedirsIn(f, n - 1) \in Nat
         /\ f[n].kind = "redir" => RedirsIn(f, n) = RedirsIn(f, n - 1) + 1
         /\ f[n].kind = "fork" => RedirsIn(f, n) = 0
         /\ f[n].kind \notin {"redir", "fork"} => RedirsIn(f, n) = RedirsIn(f, n - 1)
  <1> DEFINE R(i) == {k \in Of(f, i, Redirs) : k > ForkIn(f, i)}
  <1>1. n - 1 \in Nat /\ IsFiniteSet(1 .. (n - 1))
    BY FS_Interval
  <1>2. ForkIn(f, n - 1) \in 0 .. (n - 1) /\ R(n - 1) \in SUBSET (1 .. (n - 1))
    BY <1>1, OfIn DEF ForkIn
  <1>3. IsFiniteSet(R(n - 1))
    BY <1>1, <1>2, FS_Subset
  <1>4. Cardinality(R(n - 1)) \in Nat
    BY <1>3, FS_CardinalityType
  <1>5. RedirsIn(f, n - 1) = Cardinality(R(n - 1)) /\ RedirsIn(f, n) = Cardinality(R(n))
    BY DEF RedirsIn
  <1>6. CASE f[n].kind = "redir"
    <2>1. f[n].kind \notin Forks /\ f[n].kind \in Redirs
      BY <1>6 DEF Forks, Redirs
    <2>2. ForkIn(f, n) = ForkIn(f, n - 1)
      BY <2>1, OfStep DEF ForkIn
    <2>3. Of(f, n, Redirs) = Of(f, n - 1, Redirs) \cup {n}
      BY <2>1, OfMore
    <2>4. R(n) = R(n - 1) \cup {n} /\ n \notin R(n - 1)
      BY <1>2, <2>2, <2>3
    <2>5. Cardinality(R(n - 1) \cup {n}) = Cardinality(R(n - 1)) + 1
      BY <1>3, <2>4, FS_AddElement
    <2> QED
      BY <1>4, <1>5, <1>6, <2>4, <2>5
  <1>7. CASE f[n].kind = "fork"
    <2>1. f[n].kind \in Forks
      BY <1>7 DEF Forks
    <2>2. ForkIn(f, n) = n
      BY <2>1, LastMore DEF ForkIn
    <2>3. R(n) = {}
      BY <2>2 DEF Of
    <2> QED
      BY <1>4, <1>5, <1>7, <2>3, FS_EmptySet
  <1>8. CASE f[n].kind \notin {"redir", "fork"}
    <2>1. f[n].kind \notin Forks /\ f[n].kind \notin Redirs
      BY <1>8 DEF Forks, Redirs
    <2>2. ForkIn(f, n) = ForkIn(f, n - 1) /\ Of(f, n, Redirs) = Of(f, n - 1, Redirs)
      BY <2>1, OfStep DEF ForkIn
    <2> QED
      BY <1>4, <1>5, <1>8, <2>2
  <1> QED
    BY <1>6, <1>7, <1>8

-----------------------------------------------------------------------------
(***************************************************************************)
(* The chain of handlers.                                                  *)
(***************************************************************************)

LEMMA KindsApart ==
  /\ \A kind \in HandlerKinds : /\ kind \notin PushKinds /\ kind \notin Forks /\ kind \notin Throws
                                /\ kind \in EvalKinds <=> kind = "lambda"
  /\ \A kind \in PushKinds : /\ kind \notin Forks /\ kind \notin Throws
                             /\ kind \notin Catchers /\ kind \notin Redirs /\ kind \notin Inputs
                             /\ kind \in EvalKinds <=> kind # "local"
  BY ExceptionsAssumption
     DEF HandlerKinds, PushKinds, EvalKinds, Forks, Throws, Catchers, Redirs, Inputs

LEMMA ArmedIn_ ==
  ASSUME NEW f, NEW m \in Nat
  PROVE  /\ ForkIn(f, m) \in 0 .. m
         /\ ArmedIn(f, m) \in SUBSET (1 .. m) /\ ArmedIn(f, m) \subseteq Of(f, m, HandlerKinds)
         /\ HandlerIn(f, m) \in 0 .. m
         /\ IF ArmedIn(f, m) = {} THEN HandlerIn(f, m) = NULL ELSE HandlerIn(f, m) \in ArmedIn(f, m)
         /\ \A k \in ArmedIn(f, m) : k <= HandlerIn(f, m)
  <1>1. ForkIn(f, m) \in 0 .. m
    BY OfIn DEF ForkIn
  <1>2. ArmedIn(f, m) \subseteq Of(f, m, HandlerKinds)
    BY DEF ArmedIn
  <1>3. ArmedIn(f, m) \in SUBSET (1 .. m)
    BY <1>2, OfIn
  <1> QED
    BY <1>1, <1>2, <1>3, LastIn DEF HandlerIn

LEMMA ArmedMore ==
  ASSUME NEW f, NEW n \in Nat \ {0}, f[n].kind \in HandlerKinds
  PROVE  /\ ArmedIn(f, n) = ArmedIn(f, n - 1) \cup {n}
         /\ HandlerIn(f, n) = n
  <1>1. n - 1 \in Nat
    OBVIOUS
  <1>2. f[n].kind \notin Forks /\ f[n].kind \notin Throws
    BY KindsApart
  <1>3. Of(f, n, Forks) = Of(f, n - 1, Forks) /\ Of(f, n, Throws) = Of(f, n - 1, Throws)
    BY <1>2, OfStep
  <1>4. ForkIn(f, n) = ForkIn(f, n - 1) /\ ForkIn(f, n - 1) < n
    BY <1>1, <1>3, ArmedIn_ DEF ForkIn
  <1>5. Of(f, n, HandlerKinds) = Of(f, n - 1, HandlerKinds) \cup {n}
    BY OfMore
  <1>6. \A j \in Of(f, n - 1, Throws) : ~(j > n)
    BY DEF Of
  <1>7. ArmedIn(f, n) = ArmedIn(f, n - 1) \cup {n}
    BY <1>3, <1>4, <1>5, <1>6 DEF ArmedIn
  <1>8. n \in ArmedIn(f, n) /\ n <= HandlerIn(f, n) /\ HandlerIn(f, n) \in 0 .. n
    BY <1>7, ArmedIn_
  <1> QED
    BY <1>7, <1>8

LEMMA ArmedThrow ==
  ASSUME NEW f, NEW n \in Nat \ {0}, f[n].kind = "throw"
  PROVE  ArmedIn(f, n) = {k \in ArmedIn(f, n - 1) : k < f[n].up}
  <1>1. n - 1 \in Nat
    OBVIOUS
  <1>2. f[n].kind \in Throws /\ f[n].kind \notin Forks /\ f[n].kind \notin HandlerKinds
    BY KindsApart DEF Throws, Forks
  <1>3. Of(f, n, Forks) = Of(f, n - 1, Forks) /\ Of(f, n, HandlerKinds) = Of(f, n - 1, HandlerKinds)
    BY <1>2, OfStep
  <1>4. ForkIn(f, n) = ForkIn(f, n - 1) /\ n > ForkIn(f, n - 1)
    BY <1>1, <1>3, ArmedIn_ DEF ForkIn
  <1>5. Of(f, n, Throws) = Of(f, n - 1, Throws) \cup {n}
    BY <1>2, OfMore
  <1>6. \A k \in Of(f, n - 1, HandlerKinds) : n > k
    BY DEF Of
  <1> QED
    BY <1>3, <1>4, <1>5, <1>6 DEF ArmedIn

LEMMA ArmedFork ==
  ASSUME NEW f, NEW n \in Nat \ {0}, n > 1, f[1].kind = "main", f[n].kind = "fork"
  PROVE  ArmedIn(f, n) = {1} /\ HandlerIn(f, n) = 1
  <1>1. f[n].kind \in Forks
    BY DEF Forks
  <1>2. ForkIn(f, n) = n
    BY <1>1, LastMore DEF ForkIn
  <1>3. \A k \in Of(f, n, HandlerKinds) : ~(k > n)
    BY DEF Of
  <1>4. \A k \in Of(f, n, Throws) : ~(k > n)
    BY DEF Of
  <1>5. 1 \in Of(f, n, HandlerKinds)
    BY DEF Of, HandlerKinds
  <1>6. ArmedIn(f, n) = {1}
    BY <1>2, <1>3, <1>4, <1>5 DEF ArmedIn, roothandler
  <1>7. HandlerIn(f, n) \in ArmedIn(f, n)
    BY <1>6, ArmedIn_
  <1> QED
    BY <1>6, <1>7

LEMMA ArmedSame ==
  ASSUME NEW f, NEW n \in Nat \ {0}, f[n].kind \notin HandlerKinds, f[n].kind \notin {"throw", "fork"}
  PROVE  ArmedIn(f, n) = ArmedIn(f, n - 1) /\ HandlerIn(f, n) = HandlerIn(f, n - 1)
  <1>1. f[n].kind \notin Forks /\ f[n].kind \notin Throws
    BY DEF Throws, Forks
  <1>2. /\ Of(f, n, Forks) = Of(f, n - 1, Forks)
        /\ Of(f, n, HandlerKinds) = Of(f, n - 1, HandlerKinds)
        /\ Of(f, n, Throws) = Of(f, n - 1, Throws)
    BY <1>1, OfStep
  <1>3. ForkIn(f, n) = ForkIn(f, n - 1)
    BY <1>2 DEF ForkIn
  <1>4. ArmedIn(f, n) = ArmedIn(f, n - 1)
    BY <1>2, <1>3 DEF ArmedIn
  <1> QED
    BY <1>4 DEF HandlerIn

\* What an armed handler found armed is what is armed below it still.
LEMMA ArmedBelow ==
  ASSUME NEW f, NEW m \in Nat, NEW k \in ArmedIn(f, m),
         \A j \in 1 .. m : f[j].up \in Nat
  PROVE  /\ k = 1 \/ (k > ForkIn(f, m) /\ ForkIn(f, k - 1) = ForkIn(f, m))
         /\ {j \in ArmedIn(f, m) : j < k} = ArmedIn(f, k - 1)
  <1>1. k \in 1 .. m /\ k - 1 \in Nat /\ f[k].kind \notin Throws
    BY ArmedIn_, KindsApart DEF Of
  <1>2. k = 1 \/ k > ForkIn(f, m)
    BY DEF ArmedIn, roothandler
  <1>3. \A j \in Of(f, m, Throws) : j > k /\ j > ForkIn(f, m) => k < f[j].up
    BY DEF ArmedIn
  <1>4. CASE k = 1
    <2>1. ArmedIn(f, k - 1) \in SUBSET (1 .. (k - 1))
      BY <1>1, ArmedIn_
    <2>2. {j \in ArmedIn(f, m) : j < 1} = {}
      BY ArmedIn_
    <2>3. ArmedIn(f, k - 1) = {}
      BY <1>4, <2>1
    <2>4. {j \in ArmedIn(f, m) : j < k} = {}
      BY <1>4, <2>2
    <2> QED
      BY <1>4, <2>3, <2>4, Zenon
  <1>5. CASE k > ForkIn(f, m)
    <2>1. \A j \in Of(f, m, Forks) : j <= ForkIn(f, m)
      BY OfIn DEF ForkIn
    <2>2. \A j \in k .. m : f[j].kind \notin Forks
      BY <1>1, <1>5, <2>1, ArmedIn_ DEF Of
    <2>3. Of(f, m, Forks) = Of(f, k - 1, Forks)
      BY <1>1, <2>2, OfSame
    <2>4. ForkIn(f, m) = ForkIn(f, k - 1)
      BY <2>3 DEF ForkIn
    <2>5. ASSUME NEW j \in ArmedIn(f, m), j < k PROVE j \in ArmedIn(f, k - 1)
      <3>1. j \in Of(f, k - 1, HandlerKinds)
        BY <1>1, <2>5, ArmedIn_ DEF Of
      <3>2. j = roothandler \/ j > ForkIn(f, k - 1)
        BY <2>4 DEF ArmedIn
      <3>3. \A i \in Of(f, k - 1, Throws) : i \in Of(f, m, Throws)
        BY <1>1 DEF Of
      <3> QED
        BY <2>4, <3>1, <3>2, <3>3 DEF ArmedIn
    <2>6. ASSUME NEW j \in ArmedIn(f, k - 1) PROVE j \in ArmedIn(f, m) /\ j < k
      <3>1. j \in 1 .. (k - 1) /\ j \in Of(f, m, HandlerKinds)
        BY <1>1, ArmedIn_ DEF Of
      <3>2. j = roothandler \/ j > ForkIn(f, m)
        BY <2>4 DEF ArmedIn
      <3>3. ASSUME NEW i \in Of(f, m, Throws), i > j, i > ForkIn(f, m) PROVE j < f[i].up
        <4>1. CASE i < k
          <5>1. i \in Of(f, k - 1, Throws)
            BY <1>1, <4>1 DEF Of
          <5> QED
            BY <2>4, <3>3, <5>1 DEF ArmedIn
        <4>2. CASE i = k
          BY <1>1, <4>2 DEF Of
        <4>3. CASE i > k
          <5>1. k < f[i].up
            BY <1>3, <3>3, <4>3
          <5> QED
            BY <1>1, <3>1, <5>1 DEF Of
        <4> QED
          BY <1>1, <4>1, <4>2, <4>3 DEF Of
      <3> QED
        BY <1>1, <3>1, <3>2, <3>3 DEF ArmedIn
    <2> QED
      BY <1>5, <2>4, <2>5, <2>6
  <1> QED
    BY <1>2, <1>4, <1>5

-----------------------------------------------------------------------------
(***************************************************************************)
(* Putting frames on a stack and taking them off.                          *)
(***************************************************************************)

Kinds == HandlerKinds \cup PushKinds \cup {"eval", "throw", "fork", "efork", "passed"}

LEMMA StackTypes ==
  ASSUME NEW f, Stack(f)
  PROVE  /\ Len(f) \in Nat \ {0} /\ f[1].kind = "main" /\ f # <<>>
         /\ \A k \in 1 .. Len(f) :
              /\ f[k] \in FrameType
              /\ f[k].kind \in Kinds /\ f[k].up \in Nat /\ f[k].push \in Nat
              /\ f[k].depth \in Nat /\ f[k].prev \in Nat /\ f[k].set \in BOOLEAN
              /\ f[k].exc \in Exceptions \cup {"none"}
              /\ k > 1 => f[k].kind # "main"
              /\ Fits(f, k - 1, f[k])
  <1>1. f \in Seq(FrameType) /\ Len(f) \in Nat \ {0}
    BY DEF Stack
  <1>2. \A k \in 1 .. Len(f) : f[k] \in FrameType /\ Fits(f, k - 1, f[k])
    BY <1>1 DEF Stack
  <1>3. \A k \in 1 .. Len(f) : f[k].kind = "main" <=> k = 1
    BY <1>1, <1>2 DEF Fits
  <1>4. ASSUME NEW x \in FrameType
        PROVE  /\ x.kind \in Kinds /\ x.up \in Nat /\ x.push \in Nat
               /\ x.depth \in Nat /\ x.prev \in Nat /\ x.set \in BOOLEAN
               /\ x.exc \in Exceptions \cup {"none"}
    BY DEF FrameType, Kinds
  <1>5. 1 \in 1 .. Len(f) /\ f # <<>>
    BY <1>1
  <1>6. f[1].kind = "main"
    BY <1>3, <1>5
  <1> QED
    BY <1>1, <1>2, <1>3, <1>4, <1>5, <1>6

LEMMA FitsAgree ==
  ASSUME NEW f, NEW g, NEW m \in Nat, \A k \in 1 .. m : g[k] = f[k], NEW x, Fits(f, m, x)
  PROVE  Fits(g, m, x)
  <1>1. /\ Of(f, m, PushKinds) = Of(g, m, PushKinds)
        /\ HandlerIn(f, m) = HandlerIn(g, m) /\ PushIn(f, m) = PushIn(g, m)
        /\ DepthIn(f, m) = DepthIn(g, m) /\ RedirsIn(f, m) = RedirsIn(g, m)
        /\ InputIn(f, m) = InputIn(g, m)
    BY Agree
  <1>2. m >= 1 => g[m] = f[m]
    OBVIOUS
  <1> QED
    BY <1>1, <1>2 DEF Fits

LEMMA StackCut ==
  ASSUME NEW f, Stack(f), NEW m \in 1 .. Len(f),
         NEW g \in Seq(FrameType), Len(g) = m, \A k \in 1 .. m : g[k] = f[k]
  PROVE  Stack(g)
  <1>1. ASSUME NEW k \in 1 .. m PROVE Fits(g, k - 1, g[k])
    <2>1. Fits(f, k - 1, g[k]) /\ k - 1 \in Nat
      BY StackTypes
    <2> QED
      BY <2>1, FitsAgree
  <1> QED
    BY <1>1 DEF Stack

LEMMA StackOn ==
  ASSUME NEW f, Stack(f), NEW m \in 1 .. Len(f),
         NEW g \in Seq(FrameType), Len(g) = m + 1, \A k \in 1 .. m : g[k] = f[k],
         Fits(f, m, g[m + 1])
  PROVE  Stack(g)
  <1>1. ASSUME NEW k \in 1 .. m + 1 PROVE Fits(g, k - 1, g[k])
    <2>1. Fits(f, k - 1, g[k]) /\ k - 1 \in Nat
      BY StackTypes
    <2> QED
      BY <2>1, FitsAgree
  <1> QED
    BY <1>1 DEF Stack

\* The first m frames, and the first m with another on top.
LEMMA BelowFacts ==
  ASSUME NEW f \in Seq(FrameType), NEW m \in 0 .. Len(f)
  PROVE  /\ SubSeq(f, 1, m) \in Seq(FrameType) /\ Len(SubSeq(f, 1, m)) = m
         /\ \A k \in 1 .. m : SubSeq(f, 1, m)[k] = f[k]
  OBVIOUS

LEMMA AppendFacts ==
  ASSUME NEW f \in Seq(FrameType), NEW x \in FrameType
  PROVE  /\ Append(f, x) \in Seq(FrameType) /\ Len(Append(f, x)) = Len(f) + 1
         /\ Append(f, x)[Len(f) + 1] = x
         /\ \A k \in 1 .. Len(f) : Append(f, x)[k] = f[k]
  OBVIOUS

\* What g, of n frames, makes of the globals, if it is the first m of f and one more.
Makes(f, m, g, n) ==
  /\ IF g[n].kind \in PushKinds THEN PushIn(g, n) = n
     ELSE PushIn(g, n) = PushIn(f, m) /\ Of(g, n, PushKinds) = Of(f, m, PushKinds)
  /\ DepthIn(f, m) \in Nat
  /\ DepthIn(g, n) = IF g[n].kind \in EvalKinds THEN DepthIn(f, m) + 1 ELSE DepthIn(f, m)
  /\ g[n].kind \in HandlerKinds => HandlerIn(g, n) = n
  /\ g[n].kind = "fork" => HandlerIn(g, n) = 1
  /\ g[n].kind = "throw" => HandlerIn(g, n) = Last({k \in ArmedIn(f, m) : k < g[n].up})
  /\ g[n].kind \notin HandlerKinds /\ g[n].kind \notin {"throw", "fork"} =>
       HandlerIn(g, n) = HandlerIn(f, m)
  /\ CatchersIn(f, m) \in Nat
  /\ CatchersIn(g, n) = IF g[n].kind = "catcher" THEN CatchersIn(f, m) + 1
                        ELSE CatchersIn(f, m)
  /\ RedirsIn(f, m) \in Nat
  /\ g[n].kind = "fork" => RedirsIn(g, n) = 0
  /\ g[n].kind # "fork" =>
       RedirsIn(g, n) = IF g[n].kind = "redir" THEN RedirsIn(f, m) + 1 ELSE RedirsIn(f, m)
  /\ InputIn(g, n) = IF g[n].kind = "input" THEN n ELSE InputIn(f, m)
  /\ g[n].kind # "fork" => Of(g, n, Forks) = Of(f, m, Forks)
  /\ Of(f, m, Forks) \subseteq Of(g, n, Forks)

LEMMA OnTop ==
  ASSUME NEW f, NEW g, NEW m \in Nat \ {0}, NEW n, n = m + 1,
         \A k \in 1 .. m : g[k] = f[k], f[1].kind = "main"
  PROVE  Makes(f, m, g, n)
  <1>1. n \in Nat \ {0} /\ n - 1 = m /\ m \in Nat
    OBVIOUS
  <1>2. /\ \A kinds : Of(g, m, kinds) = Of(f, m, kinds)
        /\ ArmedIn(g, m) = ArmedIn(f, m) /\ HandlerIn(g, m) = HandlerIn(f, m)
        /\ PushIn(g, m) = PushIn(f, m) /\ DepthIn(g, m) = DepthIn(f, m)
        /\ CatchersIn(g, m) = CatchersIn(f, m)
        /\ RedirsIn(g, m) = RedirsIn(f, m) /\ InputIn(g, m) = InputIn(f, m)
    BY <1>1, Agree
  <1>3. IF g[n].kind \in PushKinds THEN PushIn(g, n) = n
        ELSE /\ PushIn(g, n) = PushIn(f, m)
             /\ Of(g, n, PushKinds) = Of(f, m, PushKinds)
    <2>1. CASE g[n].kind \in PushKinds
      BY <1>1, <2>1, LastMore DEF PushIn
    <2>2. CASE g[n].kind \notin PushKinds
      BY <1>1, <1>2, <2>2, OfStep DEF PushIn
    <2> QED
      BY <2>1, <2>2
  <1>4. /\ DepthIn(f, m) \in Nat
        /\ DepthIn(g, n) = IF g[n].kind \in EvalKinds THEN DepthIn(f, m) + 1
                           ELSE DepthIn(f, m)
    <2>1. DepthIn(f, m) \in Nat
      BY <1>1, OfIn DEF DepthIn
    <2>2. CASE g[n].kind \in EvalKinds
      BY <1>1, <1>2, <2>1, <2>2, OfMore DEF DepthIn
    <2>3. CASE g[n].kind \notin EvalKinds
      BY <1>1, <1>2, <2>1, <2>3, OfStep DEF DepthIn
    <2> QED
      BY <2>1, <2>2, <2>3
  <1>5. g[n].kind \in HandlerKinds => HandlerIn(g, n) = n
    BY <1>1, ArmedMore
  <1>6. g[n].kind = "fork" => HandlerIn(g, n) = 1
    <2>1. g[1] = f[1]
      OBVIOUS
    <2> QED
      BY <1>1, <2>1, ArmedFork
  <1>7. g[n].kind = "throw" =>
          HandlerIn(g, n) = Last({k \in ArmedIn(f, m) : k < g[n].up})
    <2>1. ASSUME g[n].kind = "throw"
          PROVE  ArmedIn(g, n) = {k \in ArmedIn(g, n - 1) : k < g[n].up}
      BY <1>1, <2>1, ArmedThrow
    <2>2. ArmedIn(g, n - 1) = ArmedIn(f, m)
      BY <1>1, <1>2
    <2> QED
      BY <2>1, <2>2 DEF HandlerIn
  <1>8. g[n].kind \notin HandlerKinds /\ g[n].kind \notin {"throw", "fork"} =>
          HandlerIn(g, n) = HandlerIn(f, m)
    BY <1>1, <1>2, ArmedSame
  <1>9. /\ CatchersIn(f, m) \in Nat
        /\ CatchersIn(g, n) = IF g[n].kind = "catcher" THEN CatchersIn(f, m) + 1
                              ELSE CatchersIn(f, m)
    <2>1. CatchersIn(f, m) \in Nat
      BY <1>1, OfIn DEF CatchersIn
    <2>2. CASE g[n].kind = "catcher"
      <3>1. g[n].kind \in Catchers
        BY <2>2 DEF Catchers
      <3> QED
        BY <1>1, <1>2, <2>1, <2>2, <3>1, OfMore DEF CatchersIn
    <2>3. CASE g[n].kind # "catcher"
      <3>1. g[n].kind \notin Catchers
        BY <2>3 DEF Catchers
      <3> QED
        BY <1>1, <1>2, <2>1, <2>3, <3>1, OfStep DEF CatchersIn
    <2> QED
      BY <2>1, <2>2, <2>3
  <1>10. /\ RedirsIn(f, m) \in Nat
         /\ g[n].kind = "fork" => RedirsIn(g, n) = 0
         /\ g[n].kind # "fork" =>
              RedirsIn(g, n) = IF g[n].kind = "redir" THEN RedirsIn(f, m) + 1
                               ELSE RedirsIn(f, m)
    BY <1>1, <1>2, RedirsStep
  <1>11. InputIn(g, n) = IF g[n].kind = "input" THEN n ELSE InputIn(f, m)
    <2>1. CASE g[n].kind = "input"
      <3>1. g[n].kind \in Inputs
        BY <2>1 DEF Inputs
      <3> QED
        BY <1>1, <2>1, <3>1, LastMore DEF InputIn
    <2>2. CASE g[n].kind # "input"
      <3>1. g[n].kind \notin Inputs
        BY <2>2 DEF Inputs
      <3> QED
        BY <1>1, <1>2, <2>2, <3>1, OfStep DEF InputIn
    <2> QED
      BY <2>1, <2>2
  <1>12. g[n].kind # "fork" => Of(g, n, Forks) = Of(f, m, Forks)
    <2>1. g[n].kind # "fork" => g[n].kind \notin Forks
      BY DEF Forks
    <2> QED
      BY <1>1, <1>2, <2>1, OfStep
  <1>13. Of(f, m, Forks) \subseteq Of(g, n, Forks)
    BY DEF Of
  <1> QED
    BY <1>3, <1>4, <1>5, <1>6, <1>7, <1>8, <1>9, <1>10, <1>11, <1>12, <1>13
     DEF Makes

-----------------------------------------------------------------------------
(***************************************************************************)
(* Throwing.                                                               *)
(***************************************************************************)

\* The handler that a throw is going to, and what is in force for a settor on the way.
LEMMA TargetFacts ==
  ASSUME NEW f, Stack(f), NEW n \in 1 .. Len(f), f[n].kind = "throw",
         NEW h, h = f[n].up
  PROVE  /\ n > 1 /\ h \in 1 .. (n - 1) /\ h \in ArmedIn(f, n - 1)
         /\ f[h].kind \in HandlerKinds
         /\ f[h].up = HandlerIn(f, h - 1) /\ f[h].push = PushIn(f, h - 1)
         /\ f[h].depth = DepthIn(f, h - 1) + (IF f[h].kind = "lambda" THEN 1 ELSE 0)
         /\ HandlerIn(f, n) = HandlerIn(f, h - 1)
         /\ h = 1 \/ (h > ForkIn(f, n) /\ ForkIn(f, h - 1) = ForkIn(f, n))
         /\ h > 1 => f[h - 1].kind # "throw"
         /\ f[n - 1].kind # "throw"
  <1>1. n > 1 /\ n - 1 \in Nat /\ n \in Nat \ {0}
    BY StackTypes
  <1>2. Fits(f, n - 1, f[n])
    BY StackTypes
  <1>3. h = HandlerIn(f, n - 1) /\ h # NULL
    BY <1>2 DEF Fits
  <1>4. h \in ArmedIn(f, n - 1) /\ h \in 1 .. (n - 1) /\ f[h].kind \in HandlerKinds
    BY <1>1, <1>3, ArmedIn_ DEF Of
  <1>5. Fits(f, h - 1, f[h])
    BY <1>1, <1>4, StackTypes
  <1>6. /\ f[h].up = HandlerIn(f, h - 1) /\ f[h].push = PushIn(f, h - 1)
        /\ f[h].depth = DepthIn(f, h - 1) + (IF f[h].kind = "lambda" THEN 1 ELSE 0)
    BY <1>4, <1>5 DEF Fits
  <1>7. \A j \in 1 .. (n - 1) : f[j].up \in Nat
    BY <1>1, StackTypes
  <1>8. /\ h = 1 \/ (h > ForkIn(f, n - 1) /\ ForkIn(f, h - 1) = ForkIn(f, n - 1))
        /\ {j \in ArmedIn(f, n - 1) : j < h} = ArmedIn(f, h - 1)
    BY <1>1, <1>4, <1>7, ArmedBelow
  <1>9. ArmedIn(f, n) = {j \in ArmedIn(f, n - 1) : j < h}
    BY <1>1, ArmedThrow
  <1>10. HandlerIn(f, n) = HandlerIn(f, h - 1)
    BY <1>8, <1>9 DEF HandlerIn
  <1>11. f[n].kind \notin Forks
    BY DEF Forks
  <1>12. ForkIn(f, n) = ForkIn(f, n - 1)
    BY <1>1, <1>11, OfStep DEF ForkIn
  <1>13. h > 1 => f[h - 1].kind # "throw"
    <2>1. f[h].kind # "popping"
      BY <1>4, KindsApart DEF PushKinds
    <2> QED
      BY <1>4, <1>5, <2>1 DEF Fits
  <1>14. f[n - 1].kind # "throw"
    BY <1>1, <1>2 DEF Fits
  <1> QED
    BY <1>1, <1>4, <1>6, <1>8, <1>10, <1>12, <1>13, <1>14

\* A local inside that handler leads to another, or to what was innermost outside.
LEMMA PushBelow ==
  ASSUME NEW f, Stack(f), NEW n \in 1 .. Len(f), f[n].kind = "throw",
         NEW h, h = f[n].up, NEW p \in Of(f, n, PushKinds), h < p
  PROVE  \/ f[p].push = f[h].push
         \/ f[p].push \in Of(f, n, PushKinds) /\ h < f[p].push
  <1>1. p \in 1 .. n /\ f[p].kind \in PushKinds
    BY DEF Of
  <1>2. /\ n > 1 /\ h \in 1 .. (n - 1) /\ h \in ArmedIn(f, n - 1)
        /\ f[h].kind \in HandlerKinds /\ f[h].push = PushIn(f, h - 1)
    BY TargetFacts
  <1>3. p \in 2 .. (n - 1) /\ n \in Nat /\ p - 1 \in Nat
    BY <1>1, <1>2, StackTypes, KindsApart DEF Throws
  <1>4. Fits(f, p - 1, f[p])
    BY <1>3, StackTypes
  <1>5. CASE f[p - 1].kind = "throw"
    <2>1. f[p].push \in Of(f, p - 1, PushKinds) /\ f[p - 1].up < f[p].push
      BY <1>3, <1>4, <1>5 DEF Fits
    <2>2. f[p].push \in Of(f, n, PushKinds)
      BY <1>3, <2>1 DEF Of
    <2>3. p - 1 \in Of(f, n - 1, Throws)
      BY <1>3, <1>5 DEF Of, Throws
    <2>4. f[p - 1].up \in Nat /\ f[p - 1].up >= 1 /\ f[p].push \in Nat
      BY <1>3, <1>5, StackTypes, TargetFacts
    <2>5. p - 1 > h
      BY <1>2, <1>3, <1>5, KindsApart DEF Throws
    <2>6. CASE p - 1 > ForkIn(f, n - 1)
      <3>1. h < f[p - 1].up
        BY <1>2, <2>3, <2>5, <2>6 DEF ArmedIn
      <3> QED
        BY <1>2, <2>1, <2>2, <2>4, <3>1
    <2>7. CASE ~(p - 1 > ForkIn(f, n - 1))
      <3>1. ForkIn(f, n - 1) \in Nat
        BY <1>2, ArmedIn_
      <3>2. h = 1
        BY <1>2, <1>3, <2>5, <2>7, <3>1 DEF ArmedIn, roothandler
      <3> QED
        BY <2>1, <2>2, <2>4, <3>2
    <2> QED
      BY <2>6, <2>7
  <1>6. CASE f[p - 1].kind # "throw"
    <2>1. f[p].push = PushIn(f, p - 1)
      BY <1>1, <1>3, <1>4, <1>6 DEF Fits
    <2>2. f[p].push = Last(Of(f, p - 1, PushKinds))
      BY <2>1 DEF PushIn
    <2>3. Of(f, p - 1, PushKinds) \in SUBSET (1 .. (p - 1))
      BY <1>3, OfIn
    <2>4. /\ f[p].push \in 0 .. (p - 1)
          /\ IF Of(f, p - 1, PushKinds) = {} THEN f[p].push = NULL
             ELSE f[p].push \in Of(f, p - 1, PushKinds)
          /\ \A j \in Of(f, p - 1, PushKinds) : j <= f[p].push
      BY <1>3, <2>2, <2>3, LastIn
    <2>5. CASE f[p].push > h
      <3>1. f[p].push \in Of(f, p - 1, PushKinds)
        BY <1>2, <2>4, <2>5 DEF NULL
      <3>2. f[p].push \in Of(f, n, PushKinds)
        BY <1>3, <3>1 DEF Of
      <3> QED
        BY <2>5, <3>2
    <2>6. CASE f[p].push <= h
      <3>1. ASSUME NEW k \in h .. (p - 1) PROVE f[k].kind \notin PushKinds
        <4>1. f[h].kind \notin PushKinds
          BY <1>2, KindsApart
        <4> QED
          BY <1>2, <1>3, <2>4, <2>6, <4>1 DEF Of
      <3>2. h - 1 \in 0 .. (p - 1)
        BY <1>2, <1>3
      <3>3. \A k \in ((h - 1) + 1) .. (p - 1) : f[k].kind \notin PushKinds
        BY <1>2, <1>3, <3>1
      <3>4. Of(f, p - 1, PushKinds) = Of(f, h - 1, PushKinds)
        BY <1>3, <3>2, <3>3, OfSame
      <3> QED
        BY <1>2, <2>2, <3>4 DEF PushIn
    <2> QED
      BY <1>2, <2>4, <2>5, <2>6
  <1> QED
    BY <1>5, <1>6

ThrowOf(h, e) == [Frame("throw") EXCEPT !.up = h, !.exc = e]

LEMMA ThrowFrame ==
  ASSUME NEW h \in Nat, NEW e \in Exceptions \cup {"none"},
         NEW x, x = ThrowOf(h, e)
  PROVE  x.kind = "throw" /\ x.up = h /\ x.exc = e /\ x \in FrameType
  <1>1. PICK y : y = Frame("throw")
    OBVIOUS
  <1>2. y \in FrameType /\ y.kind = "throw"
    BY <1>1 DEF Frame, FrameType, NULL
  <1>3. x = [y EXCEPT !.up = h, !.exc = e]
    BY <1>1 DEF ThrowOf
  <1> QED
    BY <1>2, <1>3 DEF FrameType

\* What throw starts with: a frame on the stack, with a handler to go to, or, only
\* under a throw that is going to main, none.
LEMMA Raised ==
  ASSUME NEW fs, NEW e \in Exceptions \cup {"none"}, NEW m \in Nat, m = Len(fs), Stack(fs),
         fs[m].kind # "throw", tophandler = HandlerIn(fs, m), ended = "no", Raise(fs, e)
  PROVE  /\ Stack(frames')
         /\ DepthIn(frames', Len(frames')) = DepthIn(fs, m)
         /\ CatchersIn(frames', Len(frames')) = CatchersIn(fs, m)
         /\ RedirsIn(frames', Len(frames')) = RedirsIn(fs, m)
         /\ InputIn(frames', Len(frames')) = InputIn(fs, m)
         /\ Of(frames', Len(frames'), Forks) = Of(fs, m, Forks)
         /\ PushGood(frames', PushIn(fs, m))
         /\ tophandler' \in 0 .. Len(frames')
         /\ ended' \in {"no", "throw"}
         /\ ended' = "no" => tophandler' = HandlerIn(frames', Len(frames'))
         /\ ended' = "throw" => \E k \in Of(frames', Len(frames'), Throws) :
                                  frames'[k].up = roothandler
  <1>1. fs \in Seq(FrameType) /\ m \in Nat \ {0} /\ fs[1].kind = "main"
    BY StackTypes DEF Stack
  <1>2. CASE tophandler = NULL
    <2>1. frames' = fs /\ ended' = "throw" /\ tophandler' = tophandler
      BY <1>2 DEF Raise
    <2>2. 1 \in Of(fs, m, HandlerKinds)
      BY <1>1 DEF Of, HandlerKinds
    <2>3. ~(1 \in ArmedIn(fs, m))
      <3>1. \A k \in ArmedIn(fs, m) : k <= HandlerIn(fs, m)
        BY ArmedIn_
      <3> QED
        BY <1>2, <3>1 DEF NULL
    <2>4. PICK j \in Of(fs, m, Throws) : ~(1 < fs[j].up)
      BY <2>2, <2>3 DEF ArmedIn, roothandler
    <2>5. j \in 1 .. m /\ fs[j].kind = "throw"
      BY DEF Of, Throws
    <2>6. fs[j].up \in 1 .. (j - 1)
      BY <2>5, TargetFacts
    <2>7. fs[j].up = roothandler
      BY <2>4, <2>5, <2>6 DEF roothandler
    <2>8. PushGood(frames', PushIn(fs, m))
      BY <2>1 DEF PushGood
    <2> QED
      BY <1>1, <1>2, <2>1, <2>7, <2>8 DEF NULL
  <1>3. CASE tophandler # NULL
    <2> DEFINE h == tophandler
    <2>1. PICK x : x = ThrowOf(h, e)
      OBVIOUS
    <2>2. h \in ArmedIn(fs, m) /\ h \in 1 .. m /\ fs[h].kind \in HandlerKinds
      BY <1>3, ArmedIn_ DEF Of
    <2>3. x.kind = "throw" /\ x.up = h /\ x \in FrameType
      <3>1. h \in Nat
        BY <2>2
      <3> QED
        BY <2>1, <3>1, ThrowFrame
    <2>4. frames' = Append(fs, x) /\ tophandler' = fs[h].up /\ ended' = ended
      BY <1>3, <2>1 DEF Raise, ThrowOf
    <2>5. PICK g : g = frames'
      OBVIOUS
    <2>6. /\ g \in Seq(FrameType) /\ Len(g) = m + 1 /\ g[m + 1] = x
          /\ \A k \in 1 .. m : g[k] = fs[k]
      BY <1>1, <2>3, <2>4, <2>5, AppendFacts
    <2>7. Fits(fs, m, x)
      <3>1. x.kind \notin HandlerKinds /\ x.kind \notin PushKinds
        BY <2>3, KindsApart DEF Throws
      <3> QED
        BY <1>1, <1>3, <2>3, <3>1 DEF Fits
    <2>8. Stack(g)
      BY <1>1, <2>6, <2>7, StackOn
    <2>9. PICK n \in Nat : n = m + 1
      OBVIOUS
    <2>10. /\ n = Len(g) /\ n \in 1 .. Len(g) /\ g[n] = x /\ n - 1 = m
           /\ n > 1 /\ \A k \in 1 .. (n - 1) : g[k] = fs[k]
      BY <1>1, <2>6, <2>9
    <2>11. g[n].kind = "throw" /\ g[n].kind \notin EvalKinds /\ g[n].kind \notin PushKinds
      BY <2>3, <2>10, KindsApart DEF Throws, EvalKinds
    <2>12. /\ DepthIn(g, n) = DepthIn(fs, m) /\ CatchersIn(g, n) = CatchersIn(fs, m)
           /\ RedirsIn(g, n) = RedirsIn(fs, m) /\ InputIn(g, n) = InputIn(fs, m)
           /\ Of(g, n, Forks) = Of(fs, m, Forks)
           /\ Of(g, n, PushKinds) = Of(fs, m, PushKinds)
      <3>1. Makes(fs, m, g, n)
        BY <1>1, <2>6, <2>9, OnTop
      <3> QED
        BY <2>11, <3>1 DEF Makes
    <2>13. /\ HandlerIn(g, n) = HandlerIn(g, h - 1) /\ g[h].up = HandlerIn(g, h - 1)
           /\ g[h].push = PushIn(g, h - 1) /\ h \in 1 .. m
      BY <2>3, <2>8, <2>10, <2>11, TargetFacts
    <2>14. HandlerIn(g, n) = fs[h].up
      BY <2>6, <2>13
    <2>15. HandlerIn(g, n) \in 0 .. n
      BY ArmedIn_
    <2>16. PushGood(g, PushIn(fs, m))
      <3> DEFINE p == PushIn(fs, m)
      <3>1. p = Last(Of(g, n, PushKinds)) /\ Of(g, n, PushKinds) \in SUBSET (1 .. n)
        BY <2>12, OfIn DEF PushIn
      <3>2. /\ p \in 0 .. n /\ (IF Of(g, n, PushKinds) = {} THEN p = NULL ELSE p \in Of(g, n, PushKinds))
            /\ \A j \in Of(g, n, PushKinds) : j <= p
        BY <3>1, LastIn
      <3>3. CASE p > h
        <4>1. p \in Of(g, n, PushKinds)
          BY <2>13, <3>2, <3>3 DEF NULL
        <4> QED
          BY <2>3, <2>10, <2>11, <3>3, <4>1 DEF PushGood
      <3>4. CASE p <= h
        <4>1. \A k \in ((h - 1) + 1) .. n : g[k].kind \notin PushKinds
          <5>1. g[h].kind \notin PushKinds
            BY <2>2, <2>6, KindsApart
          <5> QED
            BY <2>13, <3>2, <3>4, <5>1 DEF Of
        <4>2. h - 1 \in 0 .. n
          BY <2>10, <2>13
        <4>3. Of(g, n, PushKinds) = Of(g, h - 1, PushKinds)
          BY <4>1, <4>2, OfSame
        <4>4. p = g[h].push
          BY <2>13, <3>1, <4>3 DEF PushIn
        <4> QED
          BY <2>3, <2>10, <2>11, <4>4 DEF PushGood
      <3> QED
        BY <2>13, <3>2, <3>3, <3>4
    <2> QED
      BY <2>4, <2>5, <2>8, <2>10, <2>12, <2>14, <2>15, <2>16
  <1> QED
    BY <1>2, <1>3

-----------------------------------------------------------------------------
(***************************************************************************)
(* Steps.                                                                  *)
(***************************************************************************)

\* g is the first m frames of f with x on top.
Put(f, m, x, g) ==
  /\ Stack(g) /\ Len(g) = m + 1 /\ g[m + 1] = x
  /\ Makes(f, m, g, m + 1) /\ \A k \in 1 .. m : g[k] = f[k]

LEMMA PutOnTop ==
  ASSUME NEW f, Stack(f), NEW m, m = Len(f), NEW x \in FrameType, Fits(f, m, x),
         NEW g, g = Append(f, x)
  PROVE  Put(f, m, x, g)
  <1>1. f \in Seq(FrameType) /\ m \in Nat \ {0} /\ m \in 1 .. Len(f) /\ f[1].kind = "main"
    BY StackTypes DEF Stack
  <1>2. /\ g \in Seq(FrameType) /\ Len(g) = m + 1 /\ g[m + 1] = x
        /\ \A k \in 1 .. m : g[k] = f[k]
    BY <1>1, AppendFacts
  <1>3. Stack(g)
    BY <1>1, <1>2, StackOn
  <1>4. Makes(f, m, g, m + 1)
    BY <1>1, <1>2, OnTop
  <1> QED
    BY <1>2, <1>3, <1>4 DEF Put

LEMMA PutOn ==
  ASSUME NEW f, Stack(f), NEW m \in 1 .. Len(f), NEW x \in FrameType, Fits(f, m, x),
         NEW g, g = Append(SubSeq(f, 1, m), x)
  PROVE  Put(f, m, x, g)
  <1>1. f \in Seq(FrameType) /\ m \in Nat \ {0} /\ m \in 0 .. Len(f) /\ f[1].kind = "main"
    BY StackTypes DEF Stack
  <1>2. PICK b : b = SubSeq(f, 1, m)
    OBVIOUS
  <1>3. b \in Seq(FrameType) /\ Len(b) = m /\ \A k \in 1 .. m : b[k] = f[k]
    BY <1>1, <1>2, BelowFacts
  <1>4. /\ g \in Seq(FrameType) /\ Len(g) = m + 1 /\ g[m + 1] = x
        /\ \A k \in 1 .. m : g[k] = f[k]
    BY <1>2, <1>3, AppendFacts
  <1>5. Stack(g)
    BY <1>4, StackOn
  <1>6. Makes(f, m, g, m + 1)
    BY <1>1, <1>4, OnTop
  <1> QED
    BY <1>4, <1>5, <1>6 DEF Put

\* g is the first m frames of f.
Cut(f, m, g) ==
  /\ Stack(g) /\ Len(g) = m /\ \A k \in 1 .. m : g[k] = f[k]
  /\ \A kinds : Of(g, m, kinds) = Of(f, m, kinds)
  /\ HandlerIn(g, m) = HandlerIn(f, m) /\ PushIn(g, m) = PushIn(f, m)
  /\ DepthIn(g, m) = DepthIn(f, m) /\ CatchersIn(g, m) = CatchersIn(f, m)
  /\ RedirsIn(g, m) = RedirsIn(f, m) /\ InputIn(g, m) = InputIn(f, m)

LEMMA CutTo ==
  ASSUME NEW f, Stack(f), NEW m \in 1 .. Len(f), NEW g, g = SubSeq(f, 1, m)
  PROVE  Cut(f, m, g)
  <1>1. f \in Seq(FrameType) /\ m \in 0 .. Len(f) /\ m \in Nat
    BY StackTypes DEF Stack
  <1>2. g \in Seq(FrameType) /\ Len(g) = m /\ \A k \in 1 .. m : g[k] = f[k]
    BY <1>1, BelowFacts
  <1>3. Stack(g)
    BY <1>2, StackCut
  <1> QED
    BY <1>1, <1>2, <1>3, Agree DEF Cut

LEMMA LastFrame ==
  ASSUME NEW f, Stack(f), NEW n \in Nat, n = Len(f), n > 1
  PROVE  n - 1 \in 1 .. Len(f) /\ Makes(f, n - 1, f, n) /\ Fits(f, n - 1, f[n])
  <1>1. n - 1 \in Nat \ {0} /\ n = (n - 1) + 1 /\ f[1].kind = "main"
    BY StackTypes
  <1>2. Makes(f, n - 1, f, n)
    BY <1>1, OnTop
  <1> QED
    BY <1>1, <1>2, StackTypes

\* The other variables, after a step that leaves fs, or raises an exception on top of it.
Settles(fs) ==
  /\ evaldepth' = DepthIn(fs, Len(fs)) /\ pushlist' = PushIn(fs, Len(fs))
  /\ blocked' \in Nat /\ blocked' >= CatchersIn(fs, Len(fs))
  /\ ~skipped' => /\ blocked' = CatchersIn(fs, Len(fs))
                  /\ defcount' = RedirsIn(fs, Len(fs))
                  /\ input' = InputIn(fs, Len(fs))
  /\ input' \in Nat /\ defcount' \in Nat /\ applied' \in 0 .. defcount'
  /\ child' \in BOOLEAN /\ skipped' \in BOOLEAN
  /\ child' /\ applied' = 0 => Of(fs, Len(fs), Forks) # {}

LEMMA Settled ==
  ASSUME NEW fs, Stack(fs), fs[Len(fs)].kind # "throw", Settles(fs),
         \/ /\ tophandler = HandlerIn(fs, Len(fs)) /\ ended = "no"
            /\ \E e \in Exceptions \cup {"none"} : Raise(fs, e)
         \/ frames' = fs /\ tophandler' = HandlerIn(fs, Len(fs)) /\ ended' = "no"
  PROVE  IInv'
  <1>1. PICK m \in Nat : m = Len(fs)
    BY StackTypes
  <1>2. CASE /\ tophandler = HandlerIn(fs, Len(fs)) /\ ended = "no"
             /\ \E e \in Exceptions \cup {"none"} : Raise(fs, e)
    <2>1. PICK e \in Exceptions \cup {"none"} : Raise(fs, e)
      BY <1>2
    <2>2. /\ Stack(frames')
          /\ DepthIn(frames', Len(frames')) = DepthIn(fs, m)
          /\ CatchersIn(frames', Len(frames')) = CatchersIn(fs, m)
          /\ RedirsIn(frames', Len(frames')) = RedirsIn(fs, m)
          /\ InputIn(frames', Len(frames')) = InputIn(fs, m)
          /\ Of(frames', Len(frames'), Forks) = Of(fs, m, Forks)
          /\ PushGood(frames', PushIn(fs, m))
          /\ tophandler' \in 0 .. Len(frames')
          /\ ended' \in {"no", "throw"}
          /\ ended' = "no" => tophandler' = HandlerIn(frames', Len(frames'))
          /\ ended' = "throw" => \E k \in Of(frames', Len(frames'), Throws) :
                                   frames'[k].up = roothandler
      BY <1>1, <1>2, <2>1, Raised
    <2>3. Types' /\ Clean'
      BY <1>1, <2>2 DEF Types, Clean, Here, Settles
    <2>4. Explained'
      BY <2>2 DEF Explained, Here
    <2>5. ForkKept'
      BY <1>1, <2>2 DEF ForkKept, Here, Settles
    <2> QED
      BY <1>1, <2>2, <2>3, <2>4, <2>5 DEF IInv, Here, Settles
  <1>3. CASE frames' = fs /\ tophandler' = HandlerIn(fs, Len(fs)) /\ ended' = "no"
    <2>1. tophandler' \in 0 .. m
      BY <1>1, <1>3, ArmedIn_
    <2>2. Types' /\ Clean' /\ Explained' /\ ForkKept'
      BY <1>1, <1>3, <2>1 DEF Types, Clean, Explained, ForkKept, Here, Settles
    <2>3. PushGood(frames', pushlist')
      BY <1>3 DEF PushGood, Settles
    <2> QED
      BY <1>3, <2>2, <2>3 DEF IInv, Here, Settles
  <1> QED
    BY <1>2, <1>3

LEMMA Present ==
  ASSUME IInv
  PROVE  /\ Stack(frames) /\ frames \in Seq(FrameType) /\ Here \in Nat \ {0}
         /\ Here = Len(frames) /\ Here \in 1 .. Len(frames)
         /\ Top = frames[Here] /\ Top \in FrameType /\ Top.kind \in Kinds /\ frames[1].kind = "main"
         /\ tophandler \in Nat /\ input \in Nat /\ blocked \in Nat /\ defcount \in Nat
         /\ evaldepth \in Nat /\ pushlist \in Nat /\ applied \in Nat
         /\ Top.kind # "throw" => pushlist = PushIn(frames, Here)
  <1>1. Stack(frames) /\ Here = Len(frames) /\ Top = frames[Here]
    BY DEF IInv, Here, Top
  <1>2. /\ frames \in Seq(FrameType) /\ Here \in Nat \ {0} /\ Here \in 1 .. Len(frames)
        /\ Top \in FrameType /\ Top.kind \in Kinds /\ frames[1].kind = "main"
    BY <1>1, StackTypes DEF Stack
  <1>3. evaldepth \in Nat
    BY <1>2, OfIn DEF IInv, DepthIn
  <1>4. Top.kind # "throw" => pushlist = PushIn(frames, Here)
    BY <1>1 DEF IInv, PushGood
  <1>5. pushlist \in Nat
    <2>1. CASE Top.kind # "throw"
      <3>1. PushIn(frames, Here) \in 0 .. Here
        BY <1>2, OfIn DEF PushIn
      <3> QED
        BY <1>2, <1>4, <2>1, <3>1
    <2>2. CASE Top.kind = "throw"
      <3>1. Top.up \in 1 .. (Here - 1)
        BY <1>1, <1>2, <2>2, TargetFacts
      <3>2. frames[Top.up].push \in Nat
        BY <1>1, <1>2, <3>1, StackTypes
      <3> QED
        BY <1>1, <1>2, <2>2, <3>2, OfIn DEF IInv, PushGood
    <2> QED
      BY <2>1, <2>2
  <1> QED
    BY <1>1, <1>2, <1>3, <1>4, <1>5 DEF IInv, Types

\* The fields of a new frame.
LEMMA FrameFields ==
  ASSUME NEW kind \in Kinds, NEW x, x = Frame(kind)
  PROVE  x \in FrameType /\ x.kind = kind
  BY DEF Frame, FrameType, NULL, Kinds

LEMMA PushFields ==
  ASSUME NEW kind \in PushKinds, NEW set \in BOOLEAN, NEW x, x = Push(kind, set), pushlist \in Nat
  PROVE  x \in FrameType /\ x.kind = kind /\ x.push = pushlist /\ x.set = set
  <1>1. PICK y : y = Frame(kind)
    OBVIOUS
  <1>2. y \in FrameType /\ y.kind = kind
    BY <1>1, FrameFields DEF Kinds
  <1>3. x = [y EXCEPT !.push = pushlist, !.set = set]
    BY <1>1 DEF Push
  <1> QED
    BY <1>2, <1>3 DEF FrameType

LEMMA HandlerFields ==
  ASSUME NEW kind \in HandlerKinds, NEW depth \in Nat, NEW x, x = Handler(kind, depth),
         pushlist \in Nat, tophandler \in Nat
  PROVE  /\ x \in FrameType /\ x.kind = kind /\ x.up = tophandler /\ x.push = pushlist
         /\ x.depth = depth
  <1>1. PICK y : y = Frame(kind)
    OBVIOUS
  <1>2. y \in FrameType /\ y.kind = kind
    BY <1>1, FrameFields DEF Kinds
  <1>3. x = [y EXCEPT !.up = tophandler, !.push = pushlist, !.depth = depth]
    BY <1>1 DEF Handler
  <1> QED
    BY <1>2, <1>3 DEF FrameType

\* eval of a frame without a handler, with what the settors do to pushlist.
LEMMA Evaluated ==
  ASSUME IInv, ended = "no", NEW x \in FrameType, x.kind \in {"eval", "pushing", "popping"},
         Fits(frames, Here, x), Evaluate(x), x.kind = "eval" => Top.kind # "throw",
         pushlist' = IF x.kind = "eval" THEN pushlist ELSE Here + 1,
         UNCHANGED <<blocked, input, defcount, applied, child, skipped>>
  PROVE  IInv'
  <1>1. PICK n : n = Here
    OBVIOUS
  <1>2. PICK fs : fs = Append(frames, x)
    OBVIOUS
  <1>3. /\ Stack(fs) /\ Len(fs) = n + 1 /\ fs[n + 1] = x /\ Makes(frames, n, fs, n + 1)
        /\ n \in Nat \ {0} /\ n = Len(frames)
    <2>1. /\ Stack(frames) /\ Fits(frames, n, x) /\ n = Len(frames) /\ n \in Nat \ {0}
      BY <1>1, Present
    <2>2. Put(frames, n, x, fs)
      BY <1>2, <2>1, PutOnTop
    <2> QED
      BY <2>1, <2>2 DEF Put
  <1>4. /\ x.kind \in EvalKinds /\ x.kind \notin HandlerKinds
        /\ x.kind \notin {"throw", "fork", "catcher", "redir", "input"}
        /\ x.kind \in PushKinds <=> x.kind # "eval"
    BY ExceptionsAssumption DEF EvalKinds, HandlerKinds, PushKinds
  <1>5. Settles(fs)
    <2>1. pushlist' = PushIn(fs, n + 1)
      BY <1>1, <1>3, <1>4, Present DEF Makes
    <2>2. evaldepth' = DepthIn(fs, n + 1)
      BY <1>1, <1>3, <1>4 DEF Makes, Evaluate, IInv
    <2>3. /\ CatchersIn(fs, n + 1) = CatchersIn(frames, n)
          /\ RedirsIn(fs, n + 1) = RedirsIn(frames, n)
          /\ InputIn(fs, n + 1) = InputIn(frames, n)
          /\ Of(fs, n + 1, Forks) = Of(frames, n, Forks)
      BY <1>3, <1>4 DEF Makes
    <2> QED
      BY <1>1, <1>3, <2>1, <2>2, <2>3 DEF IInv, Types, Clean, ForkKept, Settles
  <1>6. tophandler = HandlerIn(fs, n + 1)
    BY <1>1, <1>3, <1>4 DEF Makes, IInv
  <1>7. \/ \E e \in Exceptions \cup {"none"} : Raise(fs, e)
        \/ frames' = fs /\ UNCHANGED <<tophandler, ended>>
    BY <1>2 DEF Evaluate, Exceptions
  <1>8. fs[Len(fs)].kind # "throw"
    BY <1>3, <1>4
  <1> QED
    BY <1>3, <1>5, <1>6, <1>7, <1>8, Settled

LEMMA EnterEvalStep ==
  ASSUME IInv, EnterEval PROVE IInv'
  <1>1. PICK x : x = Frame("eval")
    OBVIOUS
  <1>2. x \in FrameType /\ x.kind = "eval"
    BY <1>1, FrameFields DEF Kinds
  <1>3. Evaluate(x) /\ ended = "no" /\ Top.kind # "throw"
    BY <1>1 DEF EnterEval, Entering, Running
  <1>4. Fits(frames, Here, x)
    BY <1>2, <1>3, Present, ExceptionsAssumption DEF Fits, HandlerKinds, PushKinds
  <1> QED
    BY <1>2, <1>3, <1>4, Evaluated DEF EnterEval

\* A settor: for varpush, for varpop of the Push on top, or for the varpop of a throw.
LEMMA CallSettorStep ==
  ASSUME IInv, ended = "no", NEW kind \in {"pushing", "popping"}, CallSettor(kind),
         \/ kind = "pushing" /\ Top.kind # "throw"
         \/ kind = "popping" /\ Top.kind = "local"
         \/ /\ kind = "popping" /\ Top.kind = "throw"
            /\ pushlist \in Of(frames, Here, PushKinds) /\ Top.up < pushlist,
         UNCHANGED <<blocked, input, defcount, applied, child, skipped>>
  PROVE  IInv'
  <1>1. PICK x : x = Push(kind, FALSE)
    OBVIOUS
  <1>2. x \in FrameType /\ x.kind = kind /\ x.push = pushlist
    BY <1>1, Present, PushFields DEF PushKinds
  <1>3. Fits(frames, Here, x)
    <2>1. x.kind \notin HandlerKinds /\ x.kind \notin {"catcher", "redir", "input", "throw", "main"}
      BY <1>2, ExceptionsAssumption DEF HandlerKinds
    <2> QED
      BY <1>2, <2>1, Present DEF Fits
  <1> QED
    BY <1>1, <1>2, <1>3, Evaluated DEF CallSettor

LEMMA EnterLambdaStep ==
  ASSUME IInv, EnterLambda PROVE IInv'
  <1>1. PICK n : n = Here
    OBVIOUS
  <1>2. /\ Stack(frames) /\ n = Len(frames) /\ n \in Nat \ {0} /\ evaldepth \in Nat
        /\ ended = "no" /\ frames[n].kind # "throw" /\ pushlist = PushIn(frames, n)
        /\ tophandler = HandlerIn(frames, n) /\ evaldepth = DepthIn(frames, n)
    BY <1>1, Present DEF EnterLambda, Entering, Running, IInv
  <1>3. PICK kind : kind = "lambda"
    OBVIOUS
  <1>4. PICK depth \in Nat : depth = evaldepth + 1
    BY <1>2
  <1>5. PICK x : x = Handler(kind, depth)
    OBVIOUS
  <1>6. /\ x \in FrameType /\ x.kind = "lambda" /\ x.up = tophandler /\ x.push = pushlist
        /\ x.depth = evaldepth + 1
    <2>1. kind \in HandlerKinds /\ pushlist \in Nat /\ tophandler \in Nat
      BY <1>3, Present DEF HandlerKinds
    <2> QED
      BY <1>3, <1>4, <1>5, <2>1, HandlerFields
  <1>7. x.kind \in HandlerKinds /\ x.kind \notin PushKinds /\ x.kind \in EvalKinds
    BY <1>6 DEF HandlerKinds, PushKinds, EvalKinds
  <1>8. Fits(frames, n, x)
    BY <1>2, <1>6, <1>7 DEF Fits
  <1>9. PICK fs : fs = frames'
    OBVIOUS
  <1>10. Put(frames, n, x, fs)
    BY <1>3, <1>4, <1>2, <1>5, <1>6, <1>8, <1>9, PutOnTop DEF EnterLambda
  <1>11. Stack(fs) /\ Len(fs) = n + 1 /\ fs[n + 1] = x /\ Makes(frames, n, fs, n + 1)
    BY <1>10 DEF Put
  <1>12. /\ PushIn(fs, n + 1) = pushlist /\ DepthIn(fs, n + 1) = evaldepth + 1
         /\ HandlerIn(fs, n + 1) = n + 1 /\ CatchersIn(fs, n + 1) = CatchersIn(frames, n)
         /\ RedirsIn(fs, n + 1) = RedirsIn(frames, n) /\ InputIn(fs, n + 1) = InputIn(frames, n)
         /\ Of(fs, n + 1, Forks) = Of(frames, n, Forks)
    BY <1>2, <1>6, <1>7, <1>11 DEF Makes
  <1>13. Settles(fs)
    BY <1>1, <1>2, <1>11, <1>12 DEF IInv, Types, Clean, ForkKept, Settles, EnterLambda
  <1>14. frames' = fs /\ tophandler' = HandlerIn(fs, Len(fs)) /\ ended' = "no"
    BY <1>1, <1>2, <1>9, <1>11, <1>12 DEF EnterLambda
  <1> QED
    BY <1>6, <1>11, <1>13, <1>14, Settled

LEMMA EnterScopeStep ==
  ASSUME IInv, NEW kind \in Scopes, EnterScope(kind) PROVE IInv'
  <1>1. PICK n : n = Here
    OBVIOUS
  <1>2. /\ Stack(frames) /\ n = Len(frames) /\ n \in Nat \ {0} /\ evaldepth \in Nat
        /\ ended = "no" /\ frames[n].kind # "throw" /\ pushlist = PushIn(frames, n)
        /\ tophandler = HandlerIn(frames, n) /\ evaldepth = DepthIn(frames, n)
        /\ ~skipped /\ defcount = RedirsIn(frames, n) /\ input = InputIn(frames, n)
        /\ input \in Nat /\ defcount \in Nat
    BY <1>1, Present DEF EnterScope, Entering, Running, IInv, Clean
  <1>3. PICK y : y = Handler(kind, evaldepth)
    OBVIOUS
  <1>4. /\ y \in FrameType /\ y.kind = kind /\ y.up = tophandler /\ y.push = pushlist
        /\ y.depth = evaldepth
    BY <1>2, <1>3, Present, HandlerFields DEF HandlerKinds
  <1>5. PICK p \in Nat : p = CASE kind = "input" -> input
                               [] kind = "redir" -> defcount
                               [] OTHER -> NULL
    BY <1>2 DEF NULL
  <1>6. PICK x : x = [y EXCEPT !.prev = p]
    OBVIOUS
  <1>7. /\ x \in FrameType /\ x.kind = kind /\ x.up = tophandler /\ x.push = pushlist
        /\ x.depth = evaldepth /\ x.prev = p
    BY <1>4, <1>6 DEF FrameType
  <1>8. kind \in {"loop", "redir", "input", "catch"}
    BY ExceptionsAssumption
  <1>9. kind \in HandlerKinds /\ kind \notin PushKinds /\ kind \notin EvalKinds
    BY <1>8 DEF HandlerKinds, PushKinds, EvalKinds
  <1>10. Fits(frames, n, x)
    <2>1. kind = "redir" => p = RedirsIn(frames, n)
      BY <1>2, <1>5
    <2>2. kind = "input" => p = InputIn(frames, n)
      BY <1>2, <1>5
    <2> QED
      BY <1>2, <1>7, <1>8, <1>9, <2>1, <2>2 DEF Fits
  <1>11. PICK fs : fs = frames'
    OBVIOUS
  <1>12. fs = Append(frames, x)
    BY <1>3, <1>5, <1>6, <1>11 DEF EnterScope
  <1>13. Put(frames, n, x, fs)
    BY <1>2, <1>7, <1>10, <1>12, PutOnTop
  <1>14. Stack(fs) /\ Len(fs) = n + 1 /\ fs[n + 1] = x /\ Makes(frames, n, fs, n + 1)
    BY <1>13 DEF Put
  <1>15. /\ PushIn(fs, n + 1) = pushlist /\ DepthIn(fs, n + 1) = evaldepth
         /\ HandlerIn(fs, n + 1) = n + 1 /\ CatchersIn(fs, n + 1) = CatchersIn(frames, n)
         /\ RedirsIn(fs, n + 1) = defcount'
         /\ InputIn(fs, n + 1) = input'
         /\ Of(fs, n + 1, Forks) = Of(frames, n, Forks)
    BY <1>1, <1>2, <1>7, <1>8, <1>9, <1>14 DEF Makes, EnterScope
  <1>16. defcount' \in Nat /\ input' \in Nat /\ applied' \in 0 .. defcount'
    BY <1>1, <1>2 DEF EnterScope, IInv, Types
  <1>17. Settles(fs)
    BY <1>1, <1>2, <1>14, <1>15, <1>16
       DEF IInv, Types, Clean, ForkKept, Settles, EnterScope
  <1>18. frames' = fs /\ tophandler' = HandlerIn(fs, Len(fs)) /\ ended' = "no"
    BY <1>1, <1>2, <1>11, <1>14, <1>15 DEF EnterScope
  <1>19. fs[Len(fs)].kind # "throw"
    BY <1>7, <1>8, <1>14
  <1> QED
    BY <1>14, <1>17, <1>18, <1>19, Settled

LEMMA EnterLocalStep ==
  ASSUME IInv, NEW set \in BOOLEAN, EnterLocal(set) PROVE IInv'
  <1>1. PICK n : n = Here
    OBVIOUS
  <1>2. /\ Stack(frames) /\ n = Len(frames) /\ n \in Nat \ {0} /\ evaldepth \in Nat
        /\ ended = "no" /\ frames[n].kind # "throw" /\ pushlist = PushIn(frames, n)
        /\ tophandler = HandlerIn(frames, n) /\ evaldepth = DepthIn(frames, n)
        /\ Top.kind # "throw"
    BY <1>1, Present DEF EnterLocal, Entering, Running, IInv
  <1>3. CASE set
    BY <1>2, <1>3, CallSettorStep DEF EnterLocal
  <1>4. CASE ~set
    <2>1. PICK x : x = Push("local", FALSE)
      OBVIOUS
    <2>2. x \in FrameType /\ x.kind = "local" /\ x.push = pushlist
      BY <2>1, Present, PushFields DEF PushKinds
    <2>3. x.kind \notin HandlerKinds /\ x.kind \in PushKinds /\ x.kind \notin EvalKinds
      BY <2>2, ExceptionsAssumption DEF HandlerKinds, PushKinds, EvalKinds
    <2>4. Fits(frames, n, x)
      BY <1>2, <2>2, <2>3 DEF Fits
    <2>5. PICK fs : fs = frames'
      OBVIOUS
    <2>6. Put(frames, n, x, fs)
      BY <1>2, <1>4, <2>1, <2>2, <2>4, <2>5, PutOnTop DEF EnterLocal
    <2>7. Stack(fs) /\ Len(fs) = n + 1 /\ fs[n + 1] = x /\ Makes(frames, n, fs, n + 1)
      BY <2>6 DEF Put
    <2>8. /\ PushIn(fs, n + 1) = n + 1 /\ DepthIn(fs, n + 1) = evaldepth
          /\ HandlerIn(fs, n + 1) = tophandler /\ CatchersIn(fs, n + 1) = CatchersIn(frames, n)
          /\ RedirsIn(fs, n + 1) = RedirsIn(frames, n)
          /\ InputIn(fs, n + 1) = InputIn(frames, n)
          /\ Of(fs, n + 1, Forks) = Of(frames, n, Forks)
      BY <1>2, <2>2, <2>3, <2>7 DEF Makes
    <2>9. Settles(fs)
      BY <1>1, <1>2, <1>4, <2>7, <2>8 DEF IInv, Types, Clean, ForkKept, Settles, EnterLocal
    <2>10. frames' = fs /\ tophandler' = HandlerIn(fs, Len(fs)) /\ ended' = "no"
      BY <1>1, <1>2, <1>4, <2>5, <2>7, <2>8 DEF EnterLocal
    <2> QED
      BY <2>2, <2>7, <2>9, <2>10, Settled
  <1> QED
    BY <1>3, <1>4

\* Where the frame on top goes, what is below it is the stack again.
LEMMA TopGone ==
  ASSUME IInv, NEW n, n = Here, n > 1
  PROVE  /\ n \in Nat /\ n = Len(frames) /\ n - 1 \in 1 .. Len(frames) /\ Stack(frames)
         /\ Makes(frames, n - 1, frames, n) /\ Fits(frames, n - 1, frames[n])
         /\ Top = frames[n] /\ Cut(frames, n - 1, Below(n - 1)) /\ frames[1].kind = "main"
  <1>1. n \in Nat /\ n = Len(frames) /\ Stack(frames) /\ Top = frames[n] /\ frames[1].kind = "main"
    BY Present
  <1>2. n - 1 \in 1 .. Len(frames) /\ Makes(frames, n - 1, frames, n)
        /\ Fits(frames, n - 1, frames[n])
    BY <1>1, LastFrame
  <1>3. PICK g : g = SubSeq(frames, 1, n - 1)
    OBVIOUS
  <1>4. Cut(frames, n - 1, g)
    BY <1>1, <1>2, <1>3, CutTo
  <1> QED
    BY <1>1, <1>2, <1>3, <1>4 DEF Below

LEMMA LeaveEvalStep ==
  ASSUME IInv, LeaveEval PROVE IInv'
  <1>1. PICK n : n = Here
    OBVIOUS
  <1>2. PICK fs : fs = Below(n - 1)
    OBVIOUS
  <1>3. Top.kind = "eval" /\ ended = "no" /\ Top = frames[Here] /\ frames[1].kind = "main"
    BY Present DEF LeaveEval, Running
  <1>4. n > 1
    BY <1>1, <1>3, Present
  <1>5. /\ n \in Nat /\ n = Len(frames) /\ n - 1 \in 1 .. Len(frames) /\ Stack(frames)
        /\ Makes(frames, n - 1, frames, n) /\ Fits(frames, n - 1, frames[n])
        /\ Top = frames[n] /\ Cut(frames, n - 1, fs)
    BY <1>1, <1>2, <1>4, TopGone
  <1>6. /\ frames[n].kind = "eval" /\ frames[n].kind \notin HandlerKinds
        /\ frames[n].kind \notin PushKinds /\ frames[n].kind \in EvalKinds
    BY <1>3, <1>5, ExceptionsAssumption DEF HandlerKinds, PushKinds, EvalKinds
  <1>7. frames[n - 1].kind # "throw"
    BY <1>5, <1>6 DEF Fits
  <1>8. Stack(fs) /\ Len(fs) = n - 1 /\ fs[n - 1] = frames[n - 1]
    BY <1>5 DEF Cut
  <1>9. /\ PushIn(fs, n - 1) = PushIn(frames, n) /\ DepthIn(fs, n - 1) = DepthIn(frames, n) - 1
        /\ HandlerIn(fs, n - 1) = HandlerIn(frames, n)
        /\ CatchersIn(fs, n - 1) = CatchersIn(frames, n)
        /\ RedirsIn(fs, n - 1) = RedirsIn(frames, n)
        /\ InputIn(fs, n - 1) = InputIn(frames, n)
        /\ Of(fs, n - 1, Forks) = Of(frames, n, Forks)
    BY <1>5, <1>6 DEF Makes, Cut
  <1>10. pushlist = PushIn(frames, n)
    BY <1>1, <1>3, Present
  <1>11. Settles(fs)
    BY <1>1, <1>3, <1>8, <1>9, <1>10 DEF IInv, Types, Clean, ForkKept, Settles, LeaveEval
  <1>12. frames' = fs /\ tophandler' = HandlerIn(fs, Len(fs)) /\ ended' = "no"
    BY <1>1, <1>2, <1>3, <1>8, <1>9 DEF LeaveEval, IInv
  <1> QED
    BY <1>7, <1>8, <1>11, <1>12, Settled

LEMMA LeaveScopeStep ==
  ASSUME IInv, LeaveScope PROVE IInv'
  <1>1. PICK n : n = Here
    OBVIOUS
  <1>2. PICK fs : fs = Below(n - 1)
    OBVIOUS
  <1>3. /\ Top.kind \in HandlerKinds \ {"main"} /\ ended = "no" /\ Top = frames[Here]
        /\ frames[1].kind = "main" /\ Here \in Nat \ {0}
    BY Present DEF LeaveScope, Running
  <1>4. n > 1
    BY <1>1, <1>3
  <1>5. /\ n \in Nat /\ n = Len(frames) /\ n - 1 \in 1 .. Len(frames) /\ Stack(frames)
        /\ Makes(frames, n - 1, frames, n) /\ Fits(frames, n - 1, frames[n])
        /\ Top = frames[n] /\ Cut(frames, n - 1, fs)
    BY <1>1, <1>2, <1>4, TopGone
  <1>6. /\ Top.kind \notin PushKinds /\ Top.kind \notin {"throw", "fork"}
        /\ Top.kind \in EvalKinds <=> Top.kind = "lambda"
    BY <1>3, KindsApart DEF Throws, Forks
  <1>7. /\ frames[n - 1].kind # "throw" /\ Top.up = HandlerIn(frames, n - 1)
        /\ Top.kind = "redir" => Top.prev = RedirsIn(frames, n - 1)
        /\ Top.kind = "input" => Top.prev = InputIn(frames, n - 1)
    BY <1>3, <1>5, <1>6 DEF Fits, PushKinds
  <1>8. Stack(fs) /\ Len(fs) = n - 1 /\ fs[n - 1] = frames[n - 1]
    BY <1>5 DEF Cut
  <1>9. /\ PushIn(fs, n - 1) = PushIn(frames, n)
        /\ DepthIn(fs, n - 1) \in Nat
        /\ DepthIn(frames, n) = IF Top.kind = "lambda" THEN DepthIn(fs, n - 1) + 1
                                ELSE DepthIn(fs, n - 1)
        /\ HandlerIn(fs, n - 1) = HandlerIn(frames, n - 1)
        /\ CatchersIn(fs, n - 1) \in Nat
        /\ CatchersIn(frames, n) = IF Top.kind = "catcher" THEN CatchersIn(fs, n - 1) + 1
                                   ELSE CatchersIn(fs, n - 1)
        /\ RedirsIn(fs, n - 1) = RedirsIn(frames, n - 1)
        /\ RedirsIn(fs, n - 1) \in Nat
        /\ RedirsIn(frames, n) = IF Top.kind = "redir" THEN RedirsIn(fs, n - 1) + 1
                                 ELSE RedirsIn(fs, n - 1)
        /\ InputIn(fs, n - 1) = InputIn(frames, n - 1)
        /\ Top.kind # "input" => InputIn(frames, n) = InputIn(fs, n - 1)
        /\ Of(fs, n - 1, Forks) = Of(frames, n, Forks)
    BY <1>3, <1>5, <1>6 DEF Makes, Cut
  <1>10. pushlist' = PushIn(fs, n - 1)
    BY <1>1, <1>6, <1>9, Present DEF LeaveScope
  <1>11. evaldepth' = DepthIn(fs, n - 1)
    BY <1>1, <1>9 DEF IInv, LeaveScope
  <1>12. /\ blocked' \in Nat /\ blocked' >= CatchersIn(fs, n - 1)
         /\ ~skipped => blocked' = CatchersIn(fs, n - 1)
    BY <1>1, <1>3, <1>9 DEF IInv, Types, Clean, LeaveScope, Unblock
  <1>13. /\ defcount' \in Nat /\ applied \in 0 .. defcount'
         /\ ~skipped => defcount' = RedirsIn(fs, n - 1)
    <2>1. Top.kind = "redir" => Top.prev = defcount - 1 /\ applied # defcount /\ Top.prev \in Nat
      BY <1>7, <1>9 DEF LeaveScope, UndeferFails
    <2> QED
      BY <1>1, <1>3, <1>9, <2>1 DEF IInv, Types, Clean, LeaveScope, Undefer
  <1>14. /\ input' \in Nat
         /\ ~skipped => input' = InputIn(fs, n - 1)
    <2>1. InputIn(fs, n - 1) \in Nat
      <3>1. n - 1 \in Nat
        BY <1>4, <1>5
      <3>2. Last(Of(fs, n - 1, Inputs)) \in 0 .. (n - 1)
        BY <3>1, OfIn
      <3> QED
        BY <3>1, <3>2 DEF InputIn
    <2> QED
      BY <1>1, <1>3, <1>7, <1>9, <2>1 DEF IInv, Types, Clean, LeaveScope
  <1>15. Settles(fs)
    BY <1>1, <1>3, <1>8, <1>9, <1>10, <1>11, <1>12, <1>13, <1>14
       DEF IInv, Types, ForkKept, Settles, LeaveScope
  <1>16. frames' = fs /\ tophandler' = HandlerIn(fs, Len(fs)) /\ ended' = "no"
    BY <1>1, <1>2, <1>3, <1>7, <1>8, <1>9 DEF LeaveScope
  <1> QED
    BY <1>7, <1>8, <1>15, <1>16, Settled

\* A Push on top of the stack is popped.
LEMMA PushGone ==
  ASSUME IInv, ended = "no", NEW n, n = Here, frames[n].kind = "local",
         NEW fs, fs = Below(n - 1)
  PROVE  /\ n > 1 /\ n \in Nat /\ Stack(fs) /\ Len(fs) = n - 1 /\ fs[n - 1].kind # "throw"
         /\ frames[n].push = PushIn(fs, n - 1) /\ DepthIn(fs, n - 1) = DepthIn(frames, n)
         /\ HandlerIn(fs, n - 1) = HandlerIn(frames, n)
         /\ CatchersIn(fs, n - 1) = CatchersIn(frames, n)
         /\ RedirsIn(fs, n - 1) = RedirsIn(frames, n)
         /\ InputIn(fs, n - 1) = InputIn(frames, n)
         /\ Of(fs, n - 1, Forks) = Of(frames, n, Forks)
  <1>1. frames[1].kind = "main" /\ Here \in Nat \ {0}
    BY Present
  <1>2. n > 1
    BY <1>1
  <1>3. /\ n \in Nat /\ n = Len(frames) /\ n - 1 \in 1 .. Len(frames) /\ Stack(frames)
        /\ Makes(frames, n - 1, frames, n) /\ Fits(frames, n - 1, frames[n])
        /\ Cut(frames, n - 1, fs)
    BY <1>2, TopGone
  <1>4. /\ frames[n].kind \in PushKinds /\ frames[n].kind \notin EvalKinds
        /\ frames[n].kind \notin HandlerKinds
    BY ExceptionsAssumption DEF HandlerKinds, PushKinds, EvalKinds
  <1>5. frames[n - 1].kind # "throw" /\ frames[n].push = PushIn(frames, n - 1)
    BY <1>3, <1>4 DEF Fits
  <1>6. Stack(fs) /\ Len(fs) = n - 1 /\ fs[n - 1] = frames[n - 1]
    BY <1>3 DEF Cut
  <1> QED
    BY <1>2, <1>3, <1>4, <1>5, <1>6 DEF Makes, Cut

LEMMA LeaveLocalStep ==
  ASSUME IInv, LeaveLocal PROVE IInv'
  <1>1. PICK n : n = Here
    OBVIOUS
  <1>2. Top.kind = "local" /\ ended = "no" /\ Top = frames[n]
    BY <1>1, Present DEF LeaveLocal, Running
  <1>3. CASE Top.set
    BY <1>2, <1>3, CallSettorStep DEF LeaveLocal
  <1>4. CASE ~Top.set
    <2>1. PICK fs : fs = Below(n - 1)
      OBVIOUS
    <2>2. /\ n > 1 /\ n \in Nat /\ Stack(fs) /\ Len(fs) = n - 1 /\ fs[n - 1].kind # "throw"
          /\ Top.push = PushIn(fs, n - 1) /\ DepthIn(fs, n - 1) = DepthIn(frames, n)
          /\ HandlerIn(fs, n - 1) = HandlerIn(frames, n)
          /\ CatchersIn(fs, n - 1) = CatchersIn(frames, n)
          /\ RedirsIn(fs, n - 1) = RedirsIn(frames, n)
          /\ InputIn(fs, n - 1) = InputIn(frames, n)
          /\ Of(fs, n - 1, Forks) = Of(frames, n, Forks)
      BY <1>1, <1>2, <2>1, PushGone
    <2>3. Settles(fs)
      BY <1>1, <1>2, <1>4, <2>2 DEF IInv, Types, Clean, ForkKept, Settles, LeaveLocal
    <2>4. frames' = fs /\ tophandler' = HandlerIn(fs, Len(fs)) /\ ended' = "no"
      BY <1>1, <1>2, <1>4, <2>1, <2>2 DEF LeaveLocal, IInv
    <2> QED
      BY <2>2, <2>3, <2>4, Settled
  <1> QED
    BY <1>3, <1>4

LEMMA ThrowStep ==
  ASSUME IInv, NEW e \in Thrown, Throw(e) PROVE IInv'
  <1>1. /\ Stack(frames) /\ Here = Len(frames) /\ ended = "no" /\ frames[Here].kind # "throw"
        /\ pushlist = PushIn(frames, Here) /\ tophandler = HandlerIn(frames, Here)
    BY Present DEF Throw, Running, IInv
  <1>2. Settles(frames)
    BY <1>1 DEF IInv, Types, Clean, ForkKept, Settles, Throw
  <1>3. \E x \in Exceptions \cup {"none"} : Raise(frames, x)
    BY DEF Throw, Exceptions
  <1> QED
    BY <1>1, <1>2, <1>3, Settled

LEMMA SigChkStep ==
  ASSUME IInv, SigChk PROVE IInv'
  <1>1. /\ Stack(frames) /\ Here = Len(frames) /\ ended = "no" /\ frames[Here].kind # "throw"
        /\ pushlist = PushIn(frames, Here) /\ tophandler = HandlerIn(frames, Here)
    BY Present DEF SigChk, Running, IInv
  <1>2. CASE child
    <2>1. ended' = "exit" /\ UNCHANGED <<frames, tophandler, pushlist, evaldepth, blocked, input,
                                         defcount, applied, child, skipped>>
      BY <1>2 DEF SigChk
    <2> QED
      BY <2>1 DEF IInv, Types, Clean, Explained, ForkKept, Here
  <1>3. CASE ~child
    <2>1. Settles(frames)
      BY <1>1 DEF IInv, Types, Clean, ForkKept, Settles, SigChk
    <2>2. \E x \in Exceptions \cup {"none"} : Raise(frames, x)
      BY <1>3 DEF SigChk, Exceptions
    <2> QED
      BY <1>1, <2>1, <2>2, Settled
  <1> QED
    BY <1>2, <1>3

LEMMA ExitStep ==
  ASSUME IInv, Exit PROVE IInv'
  BY DEF IInv, Types, Clean, Explained, ForkKept, Here, Exit

\* The next local that throw has passed.
LEMMA UnwindStep ==
  ASSUME IInv, Unwind PROVE IInv'
  <1>1. /\ ended = "no" /\ Top.kind = "throw" /\ Top = frames[Here] /\ Here = Len(frames)
        /\ Stack(frames) /\ Here \in 1 .. Len(frames) /\ PushGood(frames, pushlist)
    BY Present DEF Unwind, Unwinding, IInv
  <1>2. pushlist \in Of(frames, Here, PushKinds) /\ Top.up < pushlist
    BY <1>1 DEF PushGood, Unwind, Target
  <1>3. CASE frames[pushlist].set
    BY <1>1, <1>2, <1>3, CallSettorStep DEF Unwind
  <1>4. CASE ~frames[pushlist].set
    <2>1. \/ frames[pushlist].push = frames[Top.up].push
          \/ /\ frames[pushlist].push \in Of(frames, Here, PushKinds)
             /\ Top.up < frames[pushlist].push
      BY <1>1, <1>2, PushBelow
    <2>2. PushGood(frames, pushlist')
      BY <1>1, <1>4, <2>1 DEF PushGood, Unwind
    <2>3. UNCHANGED <<frames, tophandler, evaldepth, blocked, input, defcount, applied, child,
                      ended, skipped>>
      BY <1>4 DEF Unwind
    <2> QED
      BY <2>2, <2>3 DEF IInv, Types, Clean, Explained, ForkKept, Here
  <1> QED
    BY <1>3, <1>4

LEMMA SettorReturnsStep ==
  ASSUME IInv, SettorReturns PROVE IInv'
  <1>1. PICK n : n = Here
    OBVIOUS
  <1>2. PICK b : b = Below(n - 1)
    OBVIOUS
  <1>3. /\ Top.kind \in {"pushing", "popping"} /\ ended = "no" /\ Top = frames[Here]
        /\ frames[1].kind = "main" /\ Here \in Nat \ {0}
    BY Present DEF SettorReturns, Running
  <1>4. n > 1
    BY <1>1, <1>3
  <1>5. /\ n \in Nat /\ n = Len(frames) /\ n - 1 \in 1 .. Len(frames) /\ Stack(frames)
        /\ Makes(frames, n - 1, frames, n) /\ Fits(frames, n - 1, frames[n])
        /\ Top = frames[n] /\ Cut(frames, n - 1, b)
    BY <1>1, <1>2, <1>4, TopGone
  <1>6. Top.kind \in PushKinds /\ Top.kind \in EvalKinds /\ Top.kind \notin HandlerKinds
    BY <1>3, ExceptionsAssumption DEF PushKinds, EvalKinds, HandlerKinds
  <1>7. /\ DepthIn(b, n - 1) = DepthIn(frames, n) - 1
        /\ HandlerIn(b, n - 1) = HandlerIn(frames, n)
        /\ CatchersIn(b, n - 1) = CatchersIn(frames, n)
        /\ RedirsIn(b, n - 1) = RedirsIn(frames, n)
        /\ InputIn(b, n - 1) = InputIn(frames, n)
        /\ Of(b, n - 1, Forks) = Of(frames, n, Forks)
        /\ PushIn(b, n - 1) = PushIn(frames, n - 1)
    BY <1>3, <1>5, <1>6 DEF Makes, Cut
  <1>8. /\ Stack(b) /\ Len(b) = n - 1 /\ n - 1 \in 1 .. Len(b) /\ n - 1 \in Nat \ {0}
        /\ b[n - 1] = frames[n - 1]
        /\ \A k \in 1 .. (n - 1) : b[k] = frames[k]
    BY <1>5 DEF Cut
  <1>9. /\ evaldepth' = DepthIn(b, n - 1) /\ tophandler' = HandlerIn(b, n - 1) /\ ended' = "no"
    BY <1>1, <1>3, <1>7 DEF IInv, SettorReturns
  <1>10. CASE Top.kind = "pushing"
    <2>1. frames[n - 1].kind # "throw" /\ Top.push = PushIn(b, n - 1)
      BY <1>5, <1>6, <1>7, <1>10 DEF Fits
    <2>2. PICK y : y = Push("local", TRUE)
      OBVIOUS
    <2>3. PICK x : x = [y EXCEPT !.push = Top.push]
      OBVIOUS
    <2>4. x \in FrameType /\ x.kind = "local" /\ x.push = Top.push
      <3>1. y \in FrameType /\ y.kind = "local"
        BY <2>2, Present, PushFields DEF PushKinds
      <3>2. Top.push \in Nat
        BY <1>5, StackTypes
      <3> QED
        BY <2>3, <3>1, <3>2 DEF FrameType
    <2>5. x.kind \notin HandlerKinds /\ x.kind \in PushKinds /\ x.kind \notin EvalKinds
      BY <2>4, ExceptionsAssumption DEF HandlerKinds, PushKinds, EvalKinds
    <2>6. Fits(b, n - 1, x)
      BY <1>8, <2>1, <2>4, <2>5 DEF Fits
    <2>7. PICK fs : fs = frames'
      OBVIOUS
    <2>8. fs = Append(b, x)
      BY <1>1, <1>2, <1>10, <2>2, <2>3, <2>7 DEF SettorReturns
    <2>9. PICK m : m = n - 1
      OBVIOUS
    <2>10. Put(b, m, x, fs)
      BY <1>8, <2>4, <2>6, <2>8, <2>9, PutOnTop
    <2>11. Stack(fs) /\ Len(fs) = m + 1 /\ fs[m + 1] = x /\ Makes(b, m, fs, m + 1)
      BY <2>10 DEF Put
    <2>12. /\ PushIn(fs, m + 1) = m + 1 /\ DepthIn(fs, m + 1) = DepthIn(b, m)
           /\ HandlerIn(fs, m + 1) = HandlerIn(b, m)
           /\ CatchersIn(fs, m + 1) = CatchersIn(b, m)
           /\ RedirsIn(fs, m + 1) = RedirsIn(b, m) /\ InputIn(fs, m + 1) = InputIn(b, m)
           /\ Of(fs, m + 1, Forks) = Of(b, m, Forks)
      BY <2>4, <2>5, <2>11 DEF Makes
    <2>13. pushlist' = m + 1
      BY <1>1, <1>5, <1>10, <2>9 DEF SettorReturns
    <2>14. Settles(fs)
      BY <1>1, <1>3, <1>7, <1>9, <2>9, <2>11, <2>12, <2>13
         DEF IInv, Types, Clean, ForkKept, Settles, SettorReturns
    <2>15. tophandler' = HandlerIn(fs, Len(fs))
      BY <1>9, <2>9, <2>11, <2>12
    <2> QED
      BY <1>9, <2>4, <2>7, <2>11, <2>14, <2>15, Settled
  <1>11. CASE Top.kind = "popping" /\ frames[n - 1].kind = "local"
    <2>1. PICK m : m = n - 1
      OBVIOUS
    <2>2. PICK fs : fs = SubSeq(frames, 1, m - 1)
      OBVIOUS
    <2>3. m \in Nat /\ m > 1 /\ m \in 1 .. Len(frames) /\ m - 1 \in 1 .. Len(frames)
          /\ Fits(frames, m - 1, frames[m]) /\ frames[m].kind = "local"
      BY <1>3, <1>5, <1>8, <1>11, <2>1, StackTypes
    <2>4. Cut(frames, m - 1, fs)
      BY <1>5, <2>2, <2>3, CutTo
    <2>5. Makes(frames, m - 1, frames, m)
      <3>1. m - 1 \in Nat \ {0} /\ m = (m - 1) + 1
        BY <2>3
      <3> QED
        BY <1>3, <3>1, OnTop
    <2>6. /\ frames[m].kind \in PushKinds /\ frames[m].kind \notin EvalKinds
          /\ frames[m].kind \notin HandlerKinds
      BY <2>3, ExceptionsAssumption DEF HandlerKinds, PushKinds, EvalKinds
    <2>7. frames[m - 1].kind # "throw" /\ frames[m].push = PushIn(frames, m - 1)
      BY <2>3, <2>6 DEF Fits
    <2>8. Top.push = m
      <3>1. Top.push = PushIn(frames, m)
        BY <1>5, <1>6, <1>11, <2>1 DEF Fits
      <3> QED
        BY <2>5, <2>6, <3>1 DEF Makes
    <2>9. Stack(fs) /\ Len(fs) = m - 1 /\ fs[m - 1] = frames[m - 1]
      BY <2>3, <2>4 DEF Cut
    <2>10. pushlist' = PushIn(fs, m - 1)
      BY <1>11, <2>4, <2>7, <2>8 DEF SettorReturns, Cut
    <2>11. frames' = fs
      BY <1>1, <1>5, <1>11, <2>1, <2>2 DEF SettorReturns, Below
    <2>12. /\ DepthIn(fs, m - 1) = DepthIn(b, m) /\ HandlerIn(fs, m - 1) = HandlerIn(b, m)
           /\ CatchersIn(fs, m - 1) = CatchersIn(b, m)
           /\ RedirsIn(fs, m - 1) = RedirsIn(b, m) /\ InputIn(fs, m - 1) = InputIn(b, m)
           /\ Of(fs, m - 1, Forks) = Of(b, m, Forks)
      BY <1>5, <2>1, <2>3, <2>4, <2>5, <2>6 DEF Makes, Cut
    <2>13. Settles(fs)
      BY <1>1, <1>3, <1>7, <1>9, <2>1, <2>9, <2>10, <2>12
         DEF IInv, Types, Clean, ForkKept, Settles, SettorReturns
    <2>14. tophandler' = HandlerIn(fs, Len(fs))
      BY <1>9, <2>1, <2>9, <2>12
    <2> QED
      BY <1>9, <2>7, <2>9, <2>11, <2>13, <2>14, Settled
  <1>12. CASE Top.kind = "popping" /\ frames[n - 1].kind # "local"
    <2>1. frames[n - 1].kind = "throw"
      BY <1>4, <1>5, <1>6, <1>12 DEF Fits
    <2>2. PICK m : m = n - 1
      OBVIOUS
    <2>3. m \in 1 .. Len(frames) /\ m = Len(b) /\ m \in Nat \ {0}
      BY <1>5, <1>8, <2>2
    <2>4. Top.push \in Of(frames, m, PushKinds) /\ frames[m].up < Top.push
      BY <1>4, <1>5, <2>1, <2>2 DEF Fits
    <2>5. PICK p : p = frames[Top.push].push
      OBVIOUS
    <2>6. \/ p = frames[frames[m].up].push
          \/ p \in Of(frames, m, PushKinds) /\ frames[m].up < p
      BY <1>5, <2>1, <2>2, <2>3, <2>4, <2>5, PushBelow
    <2>7. frames[m].up \in 1 .. (m - 1)
      BY <1>5, <2>1, <2>2, <2>3, TargetFacts
    <2>8. PushGood(b, p)
      <3>1. b[m] = frames[m] /\ b[frames[m].up] = frames[frames[m].up]
        BY <1>8, <2>2, <2>3, <2>7
      <3>2. Of(b, m, PushKinds) = Of(frames, m, PushKinds)
        BY <1>5, <2>2 DEF Cut
      <3> QED
        BY <2>1, <2>2, <2>3, <2>6, <3>1, <3>2 DEF PushGood
    <2>9. pushlist' = p /\ frames' = b
      BY <1>1, <1>2, <1>12, <2>5 DEF SettorReturns
    <2>10. HandlerIn(b, m) \in 0 .. m
      BY <2>3, ArmedIn_
    <2>11. Types'
      BY <1>9, <2>2, <2>3, <2>9, <2>10 DEF IInv, Types, Here, SettorReturns
    <2>12. Clean' /\ Explained' /\ ForkKept'
      BY <1>1, <1>3, <1>7, <1>9, <2>2, <2>3, <2>9
         DEF IInv, Clean, Explained, ForkKept, Here, SettorReturns
    <2> QED
      BY <1>8, <1>9, <2>2, <2>3, <2>8, <2>9, <2>11, <2>12 DEF IInv, Here
  <1> QED
    BY <1>3, <1>10, <1>11, <1>12

\* After a fork the frames below are out of reach; one that fails throws over them.
LEMMA ForkStep ==
  ASSUME IInv, NEW parent \in BOOLEAN, Fork(parent) PROVE IInv'
  <1>1. PICK n : n = Here
    OBVIOUS
  <1>2. /\ Stack(frames) /\ n = Len(frames) /\ n \in Nat \ {0} /\ evaldepth \in Nat
        /\ ended = "no" /\ frames[n].kind # "throw" /\ pushlist = PushIn(frames, n)
        /\ evaldepth = DepthIn(frames, n) /\ applied = 0 /\ ~skipped
    BY <1>1, Present DEF Fork, Entering, Running, IInv
  <1>3. PICK x : x = Frame("fork")
    OBVIOUS
  <1>4. x \in FrameType /\ x.kind = "fork"
    BY <1>3, FrameFields DEF Kinds
  <1>5. x.kind \notin HandlerKinds /\ x.kind \notin PushKinds /\ x.kind \notin EvalKinds
    BY <1>4, ExceptionsAssumption DEF HandlerKinds, PushKinds, EvalKinds
  <1>6. Fits(frames, n, x)
    BY <1>2, <1>4, <1>5 DEF Fits
  <1>7. PICK fs : fs = frames'
    OBVIOUS
  <1>8. Put(frames, n, x, fs)
    BY <1>2, <1>3, <1>4, <1>6, <1>7, PutOnTop DEF Fork
  <1>9. Stack(fs) /\ Len(fs) = n + 1 /\ fs[n + 1] = x /\ Makes(frames, n, fs, n + 1)
    BY <1>8 DEF Put
  <1>10. /\ PushIn(fs, n + 1) = pushlist /\ DepthIn(fs, n + 1) = evaldepth
         /\ HandlerIn(fs, n + 1) = 1 /\ CatchersIn(fs, n + 1) = CatchersIn(frames, n)
         /\ RedirsIn(fs, n + 1) = 0 /\ InputIn(fs, n + 1) = InputIn(frames, n)
    BY <1>2, <1>4, <1>5, <1>9 DEF Makes
  <1>11. Of(fs, n + 1, Forks) # {}
    BY <1>2, <1>4, <1>9 DEF Of, Forks
  <1>12. Settles(fs)
    BY <1>1, <1>2, <1>9, <1>10, <1>11 DEF IInv, Types, Clean, ForkKept, Settles, Fork
  <1>13. frames' = fs /\ tophandler' = HandlerIn(fs, Len(fs)) /\ ended' = "no"
    BY <1>1, <1>2, <1>7, <1>9, <1>10 DEF Fork, NewChildCatcher, roothandler
  <1> QED
    BY <1>4, <1>9, <1>12, <1>13, Settled

LEMMA ForkFailsStep ==
  ASSUME IInv, NEW parent \in BOOLEAN, ForkFails(parent) PROVE IInv'
  <1>1. PICK n : n = Here
    OBVIOUS
  <1>2. /\ Stack(frames) /\ n = Len(frames) /\ n \in Nat \ {0} /\ evaldepth \in Nat
        /\ ended = "no" /\ frames[n].kind # "throw" /\ pushlist = PushIn(frames, n)
        /\ evaldepth = DepthIn(frames, n) /\ tophandler = HandlerIn(frames, n)
    BY <1>1, Present DEF ForkFails, Entering, Running, IInv
  <1>3. PICK x : x = Frame("efork")
    OBVIOUS
  <1>4. x \in FrameType /\ x.kind = "efork"
    BY <1>3, FrameFields DEF Kinds
  <1>5. x.kind \notin HandlerKinds /\ x.kind \notin PushKinds /\ x.kind \notin EvalKinds
    BY <1>4, ExceptionsAssumption DEF HandlerKinds, PushKinds, EvalKinds
  <1>6. Fits(frames, n, x)
    BY <1>2, <1>4, <1>5 DEF Fits
  <1>7. PICK fs : fs = Append(frames, x)
    OBVIOUS
  <1>8. Put(frames, n, x, fs)
    BY <1>2, <1>4, <1>6, <1>7, PutOnTop
  <1>9. Stack(fs) /\ Len(fs) = n + 1 /\ fs[n + 1] = x /\ Makes(frames, n, fs, n + 1)
    BY <1>8 DEF Put
  <1>10. /\ PushIn(fs, n + 1) = pushlist /\ DepthIn(fs, n + 1) = evaldepth
         /\ HandlerIn(fs, n + 1) = tophandler /\ CatchersIn(fs, n + 1) = CatchersIn(frames, n)
         /\ RedirsIn(fs, n + 1) = RedirsIn(frames, n)
         /\ InputIn(fs, n + 1) = InputIn(frames, n)
    BY <1>2, <1>4, <1>5, <1>9 DEF Makes
  <1>11. applied' \in 0 .. defcount' /\ applied' # 0
    BY Present DEF ForkFails
  <1>12. Settles(fs)
    BY <1>1, <1>2, <1>9, <1>10, <1>11 DEF IInv, Types, Clean, ForkKept, Settles, ForkFails
  <1>13. \E e \in Exceptions \cup {"none"} : Raise(fs, e)
    BY <1>3, <1>7 DEF ForkFails, Exceptions
  <1> QED
    BY <1>2, <1>4, <1>9, <1>10, <1>12, <1>13, Settled

-----------------------------------------------------------------------------
(***************************************************************************)
(* The jump to a handler.                                                  *)
(***************************************************************************)

\* What is in force below the handler h, and still to be cleaned up at it.
Landing(n, h) ==
  /\ n = Here /\ n = Len(frames) /\ n \in Nat /\ h = Top.up /\ Target = frames[h]
  /\ Stack(frames) /\ h \in 2 .. (n - 1) /\ h - 1 \in 1 .. Len(frames)
  /\ Target \in FrameType /\ Target.kind \in HandlerKinds \ {"main"}
  /\ Target.up = HandlerIn(frames, h - 1) /\ Target.push = PushIn(frames, h - 1)
  /\ Target.depth = DepthIn(frames, h - 1) + (IF Target.kind = "lambda" THEN 1 ELSE 0)
  /\ Fits(frames, h - 1, Target) /\ Makes(frames, h - 1, frames, h)
  /\ tophandler = HandlerIn(frames, h - 1)
  /\ frames[h - 1].kind # "throw"
  /\ blocked >= CatchersIn(frames, h)
  /\ ~skipped /\ ~Skips => /\ blocked = CatchersIn(frames, h)
                           /\ defcount = RedirsIn(frames, h)
                           /\ input = InputIn(frames, h)
  /\ child /\ applied = 0 => Of(frames, h - 1, Forks) # {}

LEMMA JumpFacts ==
  ASSUME IInv, Unwinding, Target.kind # "main", NEW n, n = Here, NEW h, h = Top.up
  PROVE  Landing(n, h)
  <1>1. /\ n = Len(frames) /\ n \in Nat /\ n \in 1 .. Len(frames) /\ Stack(frames)
        /\ frames[n].kind = "throw" /\ h = frames[n].up /\ Target = frames[h] /\ ended = "no"
        /\ frames[1].kind = "main"
    BY Present DEF Unwinding, Target
  <1>2. /\ n > 1 /\ h \in 1 .. (n - 1) /\ Target.kind \in HandlerKinds
        /\ Target.up = HandlerIn(frames, h - 1) /\ Target.push = PushIn(frames, h - 1)
        /\ Target.depth = DepthIn(frames, h - 1) + (IF Target.kind = "lambda" THEN 1 ELSE 0)
        /\ HandlerIn(frames, n) = HandlerIn(frames, h - 1)
        /\ h = 1 \/ (h > ForkIn(frames, n) /\ ForkIn(frames, h - 1) = ForkIn(frames, n))
        /\ h > 1 => frames[h - 1].kind # "throw"
    BY <1>1, TargetFacts
  <1>3. h \in 2 .. (n - 1) /\ h - 1 \in 1 .. Len(frames) /\ h - 1 \in Nat /\ h \in Nat \ {0}
    BY <1>1, <1>2
  <1>4. Target \in FrameType /\ Fits(frames, h - 1, Target)
    BY <1>1, <1>3, StackTypes
  <1>5. Makes(frames, h - 1, frames, h)
    <2>1. h - 1 \in Nat \ {0} /\ h = (h - 1) + 1
      BY <1>3
    <2> QED
      BY <1>1, <2>1, OnTop
  <1>6. h \in 0 .. n
    BY <1>1, <1>3
  <1>7. blocked >= CatchersIn(frames, h)
    <2>1. CatchersIn(frames, h) <= CatchersIn(frames, n)
      BY <1>1, <1>6, OfMonotone DEF CatchersIn
    <2>2. CatchersIn(frames, h) \in Nat /\ CatchersIn(frames, n) \in Nat
      BY <1>1, <1>3, OfIn DEF CatchersIn
    <2>3. blocked >= CatchersIn(frames, n) /\ blocked \in Nat
      BY <1>1, Present DEF IInv, Clean
    <2> QED
      BY <2>1, <2>2, <2>3
  <1>8. ForkIn(frames, h) = ForkIn(frames, n)
    <2>1. frames[h].kind \notin Forks
      BY <1>1, <1>2, KindsApart
    <2>2. Of(frames, h, Forks) = Of(frames, h - 1, Forks)
      BY <1>3, <2>1, OfStep
    <2> QED
      BY <1>2, <1>3, <2>2 DEF ForkIn
  <1>9. ASSUME ~skipped, ~Skips
        PROVE  /\ blocked = CatchersIn(frames, h) /\ defcount = RedirsIn(frames, h)
               /\ input = InputIn(frames, h)
    <2>1. \A k \in (h + 1) .. n : frames[k].kind \notin {"redir", "input", "catcher"}
      BY <1>9 DEF Skips
    <2>2. /\ \A k \in (h + 1) .. n : frames[k].kind \notin Catchers
          /\ \A k \in (h + 1) .. n : frames[k].kind \notin Redirs
          /\ \A k \in (h + 1) .. n : frames[k].kind \notin Inputs
      BY <2>1 DEF Catchers, Redirs, Inputs
    <2>3. /\ Of(frames, n, Catchers) = Of(frames, h, Catchers)
          /\ Of(frames, n, Redirs) = Of(frames, h, Redirs)
          /\ Of(frames, n, Inputs) = Of(frames, h, Inputs)
      BY <1>1, <1>6, <2>2, OfSame
    <2> QED
      BY <1>1, <1>8, <1>9, <2>3 DEF IInv, Clean, CatchersIn, RedirsIn, InputIn
  <1>10. ASSUME child, applied = 0 PROVE Of(frames, h - 1, Forks) # {}
    <2>1. Of(frames, n, Forks) # {}
      BY <1>1, <1>10 DEF IInv, ForkKept
    <2>2. Of(frames, n, Forks) \in SUBSET (1 .. n)
      BY <1>1, OfIn
    <2>3. ForkIn(frames, n) \in Of(frames, n, Forks)
      BY <1>1, <2>1, <2>2, LastIn DEF ForkIn
    <2>4. ForkIn(frames, n) \in Of(frames, h - 1, Forks)
      BY <1>2, <1>3, <2>2, <2>3 DEF Of
    <2> QED
      BY <2>4
  <1> QED
    BY <1>1, <1>2, <1>3, <1>4, <1>5, <1>7, <1>9, <1>10 DEF Landing, IInv

LEMMA CatchOwnStep ==
  ASSUME IInv, CatchOwn PROVE IInv'
  <1>1. PICK n : n = Here
    OBVIOUS
  <1>2. PICK h : h = Top.up
    OBVIOUS
  <1>3. Target.kind \in {"lambda", "loop"} /\ Unwinding /\ ended = "no"
    BY DEF CatchOwn, Stops, Jump, Unwinding
  <1>4. Landing(n, h)
    BY <1>1, <1>2, <1>3, JumpFacts
  <1>5. PICK fs : fs = frames'
    OBVIOUS
  <1>6. PICK m \in 1 .. Len(frames) : m = h - 1
    BY <1>4 DEF Landing
  <1>7. fs = SubSeq(frames, 1, m)
    BY <1>2, <1>5, <1>6 DEF CatchOwn, Below
  <1>8. Cut(frames, m, fs)
    BY <1>4, <1>7, CutTo DEF Landing
  <1>9. Stack(fs) /\ Len(fs) = m /\ fs[m] = frames[m]
    BY <1>8 DEF Cut
  <1>10. /\ CatchersIn(fs, m) = CatchersIn(frames, h) /\ RedirsIn(fs, m) = RedirsIn(frames, h)
         /\ InputIn(fs, m) = InputIn(frames, h)
    BY <1>3, <1>4, <1>6, <1>8 DEF Landing, Makes, Cut
  <1>11. evaldepth' = DepthIn(fs, m)
    <2>1. DepthIn(frames, m) \in Nat
      BY <1>4, <1>6 DEF Landing, Makes
    <2> QED
      BY <1>3, <1>4, <1>6, <1>8, <2>1 DEF Landing, Cut, CatchOwn, Restored
  <1>12. pushlist' = PushIn(fs, m) /\ tophandler' = HandlerIn(fs, m)
    BY <1>4, <1>6, <1>8 DEF Landing, Cut, CatchOwn, Jump
  <1>13. Settles(fs)
    <2>1. /\ UNCHANGED <<blocked, input, defcount, applied, child>>
          /\ skipped' = (skipped \/ Skips)
      BY DEF CatchOwn, Jump
    <2>2. child /\ applied = 0 => Of(fs, m, Forks) # {}
      BY <1>4, <1>6, <1>8 DEF Landing, Cut
    <2> QED
      BY <1>4, <1>9, <1>10, <1>11, <1>12, <2>1, <2>2 DEF Landing, IInv, Types, Settles, Skips
  <1>14. ended' = "no" /\ fs[m].kind # "throw"
    BY <1>3, <1>4, <1>6, <1>9 DEF Landing, CatchOwn
  <1> QED
    BY <1>5, <1>9, <1>12, <1>13, <1>14, Settled

\* prim_catch's frame goes on with another handler.
LEMMA AgainFacts ==
  ASSUME NEW n, NEW h, Landing(n, h), NEW kind \in {"catch", "catcher"},
         Target.kind \in {"catch", "catcher"}, Again(kind), tophandler \in Nat,
         NEW fs, fs = frames'
  PROVE  /\ Stack(fs) /\ Len(fs) = h /\ fs[h].kind = kind
         /\ PushIn(fs, h) = Target.push /\ evaldepth' = DepthIn(fs, h)
         /\ tophandler' = HandlerIn(fs, h)
         /\ CatchersIn(fs, h) = CatchersIn(frames, h - 1) + (IF kind = "catcher" THEN 1 ELSE 0)
         /\ CatchersIn(frames, h) =
              CatchersIn(frames, h - 1) + (IF Target.kind = "catcher" THEN 1 ELSE 0)
         /\ CatchersIn(frames, h - 1) \in Nat
         /\ RedirsIn(fs, h) = RedirsIn(frames, h) /\ InputIn(fs, h) = InputIn(frames, h)
         /\ Of(frames, h - 1, Forks) \subseteq Of(fs, h, Forks)
  <1>1. "catch" \in Scopes
    <2>1. CASE Target.kind = "catch"
      BY <2>1 DEF Landing, HandlerKinds
    <2>2. CASE Target.kind = "catcher"
      BY <2>2 DEF Landing, Fits
    <2> QED
      BY <2>1, <2>2
  <1>2. kind \in HandlerKinds /\ kind \notin PushKinds /\ kind \notin EvalKinds
    BY <1>1 DEF HandlerKinds, PushKinds, EvalKinds
  <1>3. PICK x : x = [Target EXCEPT !.kind = kind, !.up = tophandler]
    OBVIOUS
  <1>4. /\ x \in FrameType /\ x.kind = kind /\ x.up = tophandler /\ x.push = Target.push
        /\ x.depth = Target.depth
    BY <1>2, <1>3 DEF Landing, FrameType
  <1>5. PICK m \in 1 .. Len(frames) : m = h - 1
    BY DEF Landing
  <1>6. Fits(frames, m, x)
    BY <1>1, <1>2, <1>4, <1>5 DEF Landing, Fits
  <1>7. fs = Append(SubSeq(frames, 1, m), x)
    BY <1>3, <1>5 DEF Again, Below, Landing
  <1>8. Put(frames, m, x, fs)
    BY <1>4, <1>6, <1>7, PutOn DEF Landing
  <1>9. m + 1 = h /\ h \in Nat
    BY <1>5 DEF Landing
  <1>10. Stack(fs) /\ Len(fs) = h /\ fs[h] = x /\ Makes(frames, m, fs, h)
    BY <1>8, <1>9 DEF Put
  <1>11. Makes(frames, m, frames, h)
    BY <1>5 DEF Landing
  <1>12. /\ PushIn(fs, h) = PushIn(frames, m) /\ DepthIn(fs, h) = DepthIn(frames, m)
         /\ HandlerIn(fs, h) = h /\ DepthIn(frames, m) \in Nat
         /\ CatchersIn(fs, h) = CatchersIn(frames, m) + (IF kind = "catcher" THEN 1 ELSE 0)
         /\ CatchersIn(frames, m) \in Nat /\ RedirsIn(fs, h) = RedirsIn(frames, m)
         /\ InputIn(fs, h) = InputIn(frames, m)
         /\ Of(frames, m, Forks) \subseteq Of(fs, h, Forks)
    BY <1>2, <1>4, <1>10 DEF Makes
  <1>13. /\ CatchersIn(frames, h) =
              CatchersIn(frames, m) + (IF Target.kind = "catcher" THEN 1 ELSE 0)
         /\ RedirsIn(frames, h) = RedirsIn(frames, m)
         /\ InputIn(frames, h) = InputIn(frames, m)
    <2>1. frames[h] = Target
      BY DEF Landing
    <2> QED
      BY <1>11, <1>12, <2>1 DEF Makes
  <1>14. evaldepth' = DepthIn(frames, m) /\ Target.push = PushIn(frames, m) /\ tophandler' = h
    BY <1>5, <1>12 DEF Landing, Again, Restored
  <1> QED
    BY <1>4, <1>5, <1>10, <1>12, <1>13, <1>14

LEMMA CatchBodyStep ==
  ASSUME IInv, CatchBody PROVE IInv'
  <1>1. PICK n : n = Here
    OBVIOUS
  <1>2. PICK h : h = Top.up
    OBVIOUS
  <1>3. Target.kind = "catch" /\ Unwinding /\ ended = "no" /\ pushlist = Target.push
    BY DEF CatchBody, Jump, Unwinding
  <1>4. Landing(n, h)
    BY <1>1, <1>2, <1>3, JumpFacts
  <1>5. PICK fs : fs = frames'
    OBVIOUS
  <1>6. PICK kind \in {"catch", "catcher"} : kind = "catcher"
    OBVIOUS
  <1>7. Again(kind) /\ tophandler \in Nat
    BY <1>6, Present DEF CatchBody
  <1>8. /\ Stack(fs) /\ Len(fs) = h /\ fs[h].kind = kind
        /\ PushIn(fs, h) = Target.push /\ evaldepth' = DepthIn(fs, h)
        /\ tophandler' = HandlerIn(fs, h)
        /\ CatchersIn(fs, h) = CatchersIn(frames, h - 1) + (IF kind = "catcher" THEN 1 ELSE 0)
        /\ CatchersIn(frames, h) =
             CatchersIn(frames, h - 1) + (IF Target.kind = "catcher" THEN 1 ELSE 0)
        /\ CatchersIn(frames, h - 1) \in Nat
        /\ RedirsIn(fs, h) = RedirsIn(frames, h) /\ InputIn(fs, h) = InputIn(frames, h)
        /\ Of(frames, h - 1, Forks) \subseteq Of(fs, h, Forks)
    BY <1>3, <1>4, <1>5, <1>7, AgainFacts
  <1>9. /\ UNCHANGED <<pushlist, input, defcount, applied, child, ended>>
        /\ blocked' = blocked + 1 /\ skipped' = (skipped \/ Skips)
    BY DEF CatchBody, Jump, Again
  <1>10. CatchersIn(fs, h) = CatchersIn(frames, h) + 1 /\ CatchersIn(frames, h) \in Nat
    BY <1>3, <1>6, <1>8
  <1>11. Settles(fs)
    <2>1. child' /\ applied' = 0 => Of(fs, h, Forks) # {}
      BY <1>4, <1>8, <1>9 DEF Landing
    <2>2. /\ blocked' \in Nat /\ blocked' >= CatchersIn(fs, h)
          /\ ~skipped' => /\ blocked' = CatchersIn(fs, h)
                          /\ defcount' = RedirsIn(fs, h) /\ input' = InputIn(fs, h)
      <3>1. ~skipped' => ~skipped /\ ~Skips
        BY <1>9
      <3>2. blocked \in Nat /\ blocked >= CatchersIn(frames, h)
        BY <1>4 DEF Landing, IInv, Types
      <3>3. ~skipped' => /\ blocked = CatchersIn(frames, h)
                         /\ defcount = RedirsIn(frames, h) /\ input = InputIn(frames, h)
        BY <1>4, <3>1 DEF Landing
      <3> QED
        BY <1>8, <1>9, <1>10, <3>2, <3>3
    <2>3. skipped' \in BOOLEAN
      BY <1>9 DEF IInv, Types, Skips
    <2> QED
      BY <1>3, <1>8, <1>9, <2>1, <2>2, <2>3 DEF IInv, Types, Settles
  <1> QED
    BY <1>3, <1>5, <1>6, <1>8, <1>9, <1>11, Settled

LEMMA RetryStep ==
  ASSUME IInv, Retry PROVE IInv'
  <1>1. PICK n : n = Here
    OBVIOUS
  <1>2. PICK h : h = Top.up
    OBVIOUS
  <1>3. Target.kind = "catcher" /\ Unwinding /\ ended = "no" /\ pushlist = Target.push
    BY DEF Retry, Jump, Unwinding
  <1>4. Landing(n, h)
    BY <1>1, <1>2, <1>3, JumpFacts
  <1>5. PICK fs : fs = frames'
    OBVIOUS
  <1>6. PICK kind \in {"catch", "catcher"} : kind = "catch"
    OBVIOUS
  <1>7. Again(kind) /\ tophandler \in Nat
    BY <1>6, Present DEF Retry
  <1>8. /\ Stack(fs) /\ Len(fs) = h /\ fs[h].kind = kind
        /\ PushIn(fs, h) = Target.push /\ evaldepth' = DepthIn(fs, h)
        /\ tophandler' = HandlerIn(fs, h)
        /\ CatchersIn(fs, h) = CatchersIn(frames, h - 1) + (IF kind = "catcher" THEN 1 ELSE 0)
        /\ CatchersIn(frames, h) =
             CatchersIn(frames, h - 1) + (IF Target.kind = "catcher" THEN 1 ELSE 0)
        /\ CatchersIn(frames, h - 1) \in Nat
        /\ RedirsIn(fs, h) = RedirsIn(frames, h) /\ InputIn(fs, h) = InputIn(frames, h)
        /\ Of(frames, h - 1, Forks) \subseteq Of(fs, h, Forks)
    BY <1>3, <1>4, <1>5, <1>7, AgainFacts
  <1>9. /\ UNCHANGED <<pushlist, input, defcount, applied, child, ended>>
        /\ blocked' = blocked - 1 /\ skipped' = (skipped \/ Skips)
    BY DEF Retry, Jump, Again
  <1>10. CatchersIn(frames, h) = CatchersIn(fs, h) + 1 /\ CatchersIn(fs, h) \in Nat
    BY <1>3, <1>6, <1>8
  <1>11. Settles(fs)
    <2>1. child' /\ applied' = 0 => Of(fs, h, Forks) # {}
      BY <1>4, <1>8, <1>9 DEF Landing
    <2>2. /\ blocked' \in Nat /\ blocked' >= CatchersIn(fs, h)
          /\ ~skipped' => /\ blocked' = CatchersIn(fs, h)
                          /\ defcount' = RedirsIn(fs, h) /\ input' = InputIn(fs, h)
      <3>1. ~skipped' => ~skipped /\ ~Skips
        BY <1>9
      <3>2. blocked \in Nat /\ blocked >= CatchersIn(frames, h)
        BY <1>4 DEF Landing, IInv, Types
      <3>3. ~skipped' => /\ blocked = CatchersIn(frames, h)
                         /\ defcount = RedirsIn(frames, h) /\ input = InputIn(frames, h)
        BY <1>4, <3>1 DEF Landing
      <3> QED
        BY <1>8, <1>9, <1>10, <3>2, <3>3
    <2>3. skipped' \in BOOLEAN
      BY <1>9 DEF IInv, Types, Skips
    <2> QED
      BY <1>3, <1>8, <1>9, <2>1, <2>2, <2>3 DEF IInv, Types, Settles
  <1> QED
    BY <1>3, <1>5, <1>6, <1>8, <1>9, <1>11, Settled

\* The handler's frame cleans up and throws again.
LEMMA PassOnStep ==
  ASSUME IInv, PassOn PROVE IInv'
  <1>1. PICK n : n = Here
    OBVIOUS
  <1>2. PICK h : h = Top.up
    OBVIOUS
  <1>3. /\ Target.kind \in HandlerKinds \ {"main", "catch"} /\ Unwinding /\ ended = "no"
        /\ pushlist = Target.push /\ ~UndeferFails(Target)
    BY DEF PassOn, Jump, Unwinding
  <1>4. Landing(n, h)
    BY <1>1, <1>2, <1>3, JumpFacts
  <1>5. PICK m \in 1 .. Len(frames) : m = h - 1
    BY <1>4 DEF Landing
  <1>6. PICK b : b = SubSeq(frames, 1, h)
    OBVIOUS
  <1>7. /\ b \in Seq(FrameType) /\ Len(b) = h /\ \A k \in 1 .. h : b[k] = frames[k]
        /\ h \in Nat /\ h = m + 1 /\ m \in Nat \ {0} /\ frames[1].kind = "main"
    <2>1. h \in 0 .. Len(frames) /\ frames \in Seq(FrameType) /\ frames[1].kind = "main"
      BY <1>4, Present DEF Landing
    <2> QED
      BY <1>4, <1>5, <1>6, <2>1, BelowFacts DEF Landing
  <1>8. PICK kind : kind = Passed(Target.kind)
    OBVIOUS
  <1>9. kind = IF Target.kind = "lambda" THEN "eval" ELSE "passed"
    BY <1>8 DEF Passed
  <1>10. /\ kind \in Kinds /\ kind \notin HandlerKinds /\ kind \notin PushKinds
         /\ kind \notin {"throw", "fork", "catcher", "redir", "input", "main"}
         /\ kind \in EvalKinds <=> Target.kind = "lambda"
    BY <1>9, ExceptionsAssumption DEF Kinds, HandlerKinds, PushKinds, EvalKinds
  <1>11. PICK x : x = [Target EXCEPT !.kind = kind]
    OBVIOUS
  <1>12. x \in FrameType /\ x.kind = kind
    BY <1>4, <1>10, <1>11 DEF Landing, FrameType, Kinds
  <1>13. PICK fs : fs = [b EXCEPT ![h] = x]
    OBVIOUS
  <1>14. /\ fs \in Seq(FrameType) /\ Len(fs) = h /\ fs[h] = x
         /\ \A k \in 1 .. m : fs[k] = frames[k]
    BY <1>7, <1>12, <1>13
  <1>15. fs = [Below(h) EXCEPT ![h].kind = Passed(@)]
    <2>1. b[h] = Target
      BY <1>4, <1>7 DEF Landing
    <2> QED
      BY <1>6, <1>8, <1>11, <1>13, <2>1 DEF Below
  <1>16. Stack(fs)
    <2>1. Fits(frames, m, x)
      <3>1. frames[m].kind # "throw"
        BY <1>4, <1>5 DEF Landing
      <3> QED
        BY <1>7, <1>10, <1>12, <3>1 DEF Fits
    <2> QED
      BY <1>4, <1>7, <1>14, <2>1, StackOn DEF Landing
  <1>17. Makes(frames, m, fs, h)
    BY <1>7, <1>14, OnTop
  <1>18. Makes(frames, m, frames, h) /\ frames[h] = Target
    BY <1>4, <1>5 DEF Landing
  <1>19. /\ PushIn(fs, h) = PushIn(frames, m) /\ DepthIn(frames, m) \in Nat
         /\ DepthIn(fs, h) = DepthIn(frames, m) + (IF Target.kind = "lambda" THEN 1 ELSE 0)
         /\ HandlerIn(fs, h) = HandlerIn(frames, m)
         /\ CatchersIn(fs, h) = CatchersIn(frames, m) /\ CatchersIn(frames, m) \in Nat
         /\ RedirsIn(fs, h) = RedirsIn(frames, m) /\ RedirsIn(frames, m) \in Nat
         /\ InputIn(fs, h) = InputIn(frames, m)
         /\ Of(fs, h, Forks) = Of(frames, m, Forks)
    BY <1>10, <1>12, <1>14, <1>17 DEF Makes
  <1>20. /\ CatchersIn(frames, h) =
              CatchersIn(frames, m) + (IF Target.kind = "catcher" THEN 1 ELSE 0)
         /\ RedirsIn(frames, h) = RedirsIn(frames, m) + (IF Target.kind = "redir" THEN 1 ELSE 0)
         /\ InputIn(frames, h) = IF Target.kind = "input" THEN h ELSE InputIn(frames, m)
    <2>1. Target.kind # "fork"
      BY <1>3, ExceptionsAssumption DEF HandlerKinds
    <2> QED
      BY <1>18, <1>19, <2>1 DEF Makes
  <1>21. ~skipped' => ~skipped /\ ~Skips
    BY DEF PassOn, Jump
  <1>22. ~skipped' => /\ blocked = CatchersIn(frames, h)
                      /\ defcount = RedirsIn(frames, h) /\ input = InputIn(frames, h)
    BY <1>4, <1>21 DEF Landing
  <1>23. /\ blocked' \in Nat /\ blocked' >= CatchersIn(fs, h)
         /\ ~skipped' => blocked' = CatchersIn(fs, h)
    <2>1. blocked \in Nat /\ blocked >= CatchersIn(frames, h)
      BY <1>4 DEF Landing, IInv, Types
    <2>2. blocked' = IF Target.kind = "catcher" THEN blocked - 1 ELSE blocked
      BY DEF PassOn, Unblock
    <2> QED
      BY <1>19, <1>20, <1>22, <2>1, <2>2
  <1>24. /\ defcount' \in Nat /\ applied' \in 0 .. defcount'
         /\ ~skipped' => defcount' = RedirsIn(fs, h)
    <2>1. Target.kind = "redir" => Target.prev = defcount - 1 /\ applied # defcount
      BY <1>3 DEF UndeferFails
    <2>2. Target.prev \in Nat
      BY <1>4 DEF Landing, FrameType
    <2>3. defcount' = IF Target.kind = "redir" THEN defcount - 1 ELSE defcount
      BY DEF PassOn, Undefer
    <2>4. applied' = applied /\ applied \in 0 .. defcount /\ defcount \in Nat
      BY DEF PassOn, Jump, IInv, Types
    <2> QED
      BY <1>19, <1>20, <1>22, <2>1, <2>2, <2>3, <2>4
  <1>25. /\ input' \in Nat
         /\ ~skipped' => input' = InputIn(fs, h)
    <2>1. Target.prev \in Nat /\ (Target.kind = "input" => Target.prev = InputIn(frames, m))
      BY <1>4, <1>5 DEF Landing, FrameType, Fits
    <2>2. CASE Target.kind # "input"
      BY <1>19, <1>20, <1>22, <2>2 DEF PassOn, IInv, Types
    <2>3. CASE Target.kind = "input" /\ input = h
      <3>1. input' = Target.prev
        BY <1>2, <2>3 DEF PassOn
      <3> QED
        BY <1>19, <2>1, <2>3, <3>1
    <2>4. CASE Target.kind = "input" /\ input # h
      <3>1. input' \in 0 .. h
        BY <1>2, <2>4 DEF PassOn
      <3> QED
        BY <1>7, <1>20, <1>22, <2>4, <3>1
    <2> QED
      BY <2>2, <2>3, <2>4
  <1>26. evaldepth' = DepthIn(fs, h) /\ pushlist' = PushIn(fs, h)
    BY <1>3, <1>4, <1>5, <1>19 DEF Landing, PassOn, Restored, Jump
  <1>27. child' /\ applied' = 0 => Of(fs, h, Forks) # {}
    BY <1>4, <1>5, <1>19 DEF Landing, PassOn, Jump
  <1>28. child' \in BOOLEAN /\ skipped' \in BOOLEAN
    BY DEF PassOn, Jump, IInv, Types, Skips
  <1>29. Settles(fs)
    BY <1>14, <1>23, <1>24, <1>25, <1>26, <1>27, <1>28 DEF Settles
  <1>30. tophandler = HandlerIn(fs, Len(fs))
    BY <1>4, <1>5, <1>14, <1>19 DEF Landing
  <1>31. \E e \in Exceptions \cup {"none"} : Raise(fs, e)
    <2>1. Top.exc \in Exceptions \cup {"none"}
      BY Present DEF FrameType
    <2>2. Raise(fs, Top.exc)
      BY <1>2, <1>15 DEF PassOn
    <2> QED
      BY <2>1, <2>2
  <1>32. fs[Len(fs)].kind # "throw"
    BY <1>10, <1>12, <1>14
  <1> QED
    BY <1>3, <1>16, <1>29, <1>30, <1>31, <1>32, Settled

\* undefer's assertion needs a handler that was skipped, or a fork that failed.
LEMMA UndeferAbortsStep ==
  ASSUME IInv, UndeferAborts PROVE IInv'
  <1>1. PICK n : n = Here
    OBVIOUS
  <1>2. /\ ended' = "undefer" /\ ended = "no"
        /\ UNCHANGED <<frames, tophandler, pushlist, evaldepth, blocked, input, defcount, applied,
                       child>>
    BY DEF UndeferAborts, Running, Unwinding
  <1>3. CASE Running /\ UndeferFails(Top) /\ UNCHANGED skipped
    <2>1. /\ Top.kind = "redir" /\ Top = frames[Here] /\ frames[1].kind = "main"
          /\ Here \in Nat \ {0} /\ applied \in Nat
      BY <1>3, Present DEF UndeferFails
    <2>2. n > 1
      BY <1>1, <2>1
    <2>3. Makes(frames, n - 1, frames, n) /\ Fits(frames, n - 1, frames[n])
      BY <1>1, <2>2, TopGone
    <2>4. /\ Top.prev = RedirsIn(frames, n - 1) /\ RedirsIn(frames, n - 1) \in Nat
          /\ RedirsIn(frames, n) = RedirsIn(frames, n - 1) + 1
      BY <1>1, <2>1, <2>3 DEF Makes, Fits
    <2>5. ~skipped => defcount = RedirsIn(frames, n)
      BY <1>1, <1>2 DEF IInv, Clean
    <2>6. skipped \/ applied > 0
      BY <1>3, <2>1, <2>4, <2>5 DEF UndeferFails
    <2> QED
      BY <1>2, <1>3, <2>6 DEF IInv, Types, Clean, Explained, ForkKept, Here
  <1>4. CASE /\ Unwinding /\ pushlist = Target.push /\ UndeferFails(Target)
             /\ skipped' = (skipped \/ Skips)
    <2>1. PICK h : h = Top.up
      OBVIOUS
    <2>2. Target.kind = "redir"
      BY <1>4 DEF UndeferFails
    <2>3. Landing(n, h)
      BY <1>1, <1>4, <2>1, <2>2, JumpFacts
    <2>4. /\ Target.prev = RedirsIn(frames, h - 1) /\ RedirsIn(frames, h - 1) \in Nat
          /\ RedirsIn(frames, h) = RedirsIn(frames, h - 1) + 1
      BY <2>2, <2>3 DEF Landing, Makes, Fits
    <2>5. ~skipped' => defcount = RedirsIn(frames, h)
      <3>1. ~skipped' => ~skipped /\ ~Skips
        BY <1>4
      <3> QED
        BY <2>3, <3>1 DEF Landing
    <2>6. applied \in Nat
      BY Present
    <2>7. skipped' \/ applied > 0
      BY <1>4, <2>4, <2>5, <2>6 DEF UndeferFails
    <2>8. skipped' \in BOOLEAN
      BY <1>4 DEF IInv, Types, Skips
    <2> QED
      BY <1>2, <2>7, <2>8 DEF IInv, Types, Clean, Explained, ForkKept, Here
  <1> QED
    BY <1>3, <1>4 DEF UndeferAborts

LEMMA UncaughtStep ==
  ASSUME IInv, Uncaught PROVE IInv'
  <1>1. PICK n : n = Here
    OBVIOUS
  <1>2. PICK h : h = Top.up
    OBVIOUS
  <1>3. /\ n \in 1 .. Len(frames) /\ Stack(frames) /\ frames[n].kind = "throw" /\ Target = frames[h]
        /\ h = frames[n].up /\ frames[1].kind = "main" /\ Target.kind = "main" /\ ended = "no"
        /\ n = Len(frames) /\ n \in Nat /\ pushlist = Target.push
    BY <1>1, <1>2, Present DEF Uncaught, Jump, Unwinding, Target
  <1>4. /\ h \in 1 .. (n - 1) /\ Target.push = PushIn(frames, h - 1)
        /\ Target.depth = DepthIn(frames, h - 1) + (IF Target.kind = "lambda" THEN 1 ELSE 0)
        /\ HandlerIn(frames, n) = HandlerIn(frames, h - 1)
    BY <1>3, TargetFacts
  <1>5. h = 1
    BY <1>3, <1>4, StackTypes
  <1>6. PICK fs : fs = frames'
    OBVIOUS
  <1>7. PICK m \in 1 .. Len(frames) : m = 1
    BY <1>3
  <1>8. fs = SubSeq(frames, 1, m)
    BY <1>2, <1>5, <1>6, <1>7 DEF Uncaught, Below
  <1>9. Cut(frames, m, fs)
    BY <1>3, <1>8, CutTo
  <1>10. Stack(fs) /\ Len(fs) = 1 /\ fs[1].kind = "main"
    BY <1>3, <1>7, <1>9 DEF Cut
  <1>11. "main" \notin PushKinds /\ "main" \notin EvalKinds
    BY DEF PushKinds, EvalKinds
  <1>12. PushIn(fs, 1) = PushIn(frames, 0) /\ DepthIn(fs, 1) = DepthIn(frames, 0)
    <2>1. PICK i \in Nat \ {0} : i = 1
      OBVIOUS
    <2>2. Of(fs, i, PushKinds) = Of(fs, i - 1, PushKinds) /\ Of(fs, i, EvalKinds) = Of(fs, i - 1, EvalKinds)
      BY <1>10, <1>11, <2>1, OfStep
    <2>3. Of(fs, 0, PushKinds) = Of(frames, 0, PushKinds)
          /\ Of(fs, 0, EvalKinds) = Of(frames, 0, EvalKinds)
      BY DEF Of
    <2> QED
      BY <2>1, <2>2, <2>3 DEF PushIn, DepthIn
  <1>13. DepthIn(frames, 0) \in Nat
    BY OfIn DEF DepthIn
  <1>14. evaldepth' = DepthIn(fs, 1)
    BY <1>3, <1>4, <1>5, <1>12, <1>13 DEF Uncaught, Restored
  <1>15. pushlist' = PushIn(fs, 1)
    BY <1>3, <1>4, <1>5, <1>12 DEF Uncaught, Jump
  <1>16. tophandler' \in 0 .. 1
    <2>1. HandlerIn(frames, 0) \in 0 .. 0
      BY ArmedIn_
    <2> QED
      BY <1>1, <1>3, <1>4, <1>5, <2>1 DEF IInv, Uncaught
  <1>17. /\ UNCHANGED <<blocked, input, defcount, applied, child>> /\ ended' = "exit"
         /\ skipped' \in BOOLEAN
    BY DEF Uncaught, Jump, IInv, Types, Skips
  <1>18. Types' /\ Explained' /\ ForkKept'
    BY <1>6, <1>10, <1>16, <1>17 DEF IInv, Types, Explained, ForkKept, Here
  <1>19. PushGood(fs, pushlist')
    BY <1>10, <1>15 DEF PushGood
  <1> QED
    BY <1>6, <1>10, <1>14, <1>17, <1>18, <1>19 DEF IInv, Here

-----------------------------------------------------------------------------
(***************************************************************************)
(* The invariant.                                                          *)
(***************************************************************************)

LEMMA InitStep ==
  ASSUME Init PROVE IInv
  <1>1. PICK x : x = Frame("main")
    OBVIOUS
  <1>2. /\ x.kind = "main" /\ x.up = 0 /\ x.push = 0 /\ x.depth = 0 /\ x \in FrameType
        /\ frames = <<x>>
    <2>1. "main" \in Kinds
      BY DEF Kinds, HandlerKinds
    <2>2. x.kind = "main" /\ x \in FrameType
      BY <1>1, <2>1, FrameFields
    <2> QED
      BY <1>1, <2>2 DEF Init, Frame, NULL
  <1>3. PICK n \in Nat \ {0} : n = 1
    OBVIOUS
  <1>4. /\ frames \in Seq(FrameType) /\ Len(frames) = n /\ frames[n] = x /\ Here = n
    BY <1>2, <1>3 DEF Here
  <1>5. PICK m \in Nat : m = n - 1
    BY <1>3
  <1>6. \A kinds : Of(frames, m, kinds) = {}
    BY <1>3, <1>5 DEF Of
  <1>7. /\ PushIn(frames, m) = 0 /\ DepthIn(frames, m) = 0 /\ CatchersIn(frames, m) = 0
        /\ InputIn(frames, m) = 0
    BY <1>6, LastOfNone, FS_EmptySet DEF PushIn, DepthIn, CatchersIn, InputIn
  <1>8. RedirsIn(frames, m) = 0 /\ HandlerIn(frames, m) = 0
    <2>1. {k \in Of(frames, m, Redirs) : k > ForkIn(frames, m)} = {}
      BY <1>6
    <2>2. ArmedIn(frames, m) = {}
      BY <1>6 DEF ArmedIn
    <2> QED
      BY <2>1, <2>2, LastOfNone, FS_EmptySet DEF RedirsIn, HandlerIn
  <1>9. "main" \in HandlerKinds /\ "main" \notin PushKinds /\ "main" \notin EvalKinds
    BY DEF HandlerKinds, PushKinds, EvalKinds
  <1>10. Fits(frames, m, x)
    BY <1>2, <1>3, <1>5, <1>7, <1>8, <1>9 DEF Fits
  <1>11. Stack(frames)
    BY <1>3, <1>4, <1>5, <1>10 DEF Stack
  <1>12. "main" \notin Catchers /\ "main" \notin Inputs
    BY DEF Catchers, Inputs
  <1>13. /\ PushIn(frames, n) = 0 /\ DepthIn(frames, n) = 0 /\ CatchersIn(frames, n) = 0
         /\ InputIn(frames, n) = 0
    <2>1. \A kinds : x.kind \notin kinds => Of(frames, n, kinds) = Of(frames, m, kinds)
      BY <1>4, <1>5, OfStep
    <2> QED
      BY <1>2, <1>7, <1>9, <1>12, <2>1 DEF PushIn, DepthIn, CatchersIn, InputIn
  <1>14. RedirsIn(frames, n) = 0
    BY <1>2, <1>4, <1>5, <1>8, RedirsStep
  <1>15. HandlerIn(frames, n) = n
    BY <1>2, <1>4, <1>9, ArmedMore
  <1>16. PushGood(frames, pushlist)
    BY <1>2, <1>4, <1>13 DEF PushGood, Init, NULL
  <1>17. Types /\ Explained /\ ForkKept
    <2>1. /\ tophandler = 1 /\ input = 0 /\ blocked = 0 /\ defcount = 0 /\ applied = 0
          /\ child = FALSE /\ skipped = FALSE /\ ended = "no" /\ Here = 1
      BY <1>3, <1>4 DEF Init, roothandler, NULL
    <2>2. Types
      <3>1. tophandler \in 0 .. Here /\ input \in Nat /\ applied \in 0 .. defcount
        BY <2>1
      <3>2. blocked \in Nat /\ defcount \in Nat /\ child \in BOOLEAN /\ skipped \in BOOLEAN
        BY <2>1
      <3> QED
        BY <2>1, <3>1, <3>2, Zenon DEF Types
    <2>3. Explained
      BY <2>1 DEF Explained
    <2>4. ForkKept
      BY <2>1 DEF ForkKept
    <2> QED
      BY <2>2, <2>3, <2>4
  <1>18. Clean /\ evaldepth = DepthIn(frames, Here) /\ tophandler = HandlerIn(frames, Here)
    BY <1>3, <1>4, <1>13, <1>14, <1>15 DEF Init, Clean, roothandler, NULL
  <1> QED
    BY <1>11, <1>16, <1>17, <1>18 DEF IInv

LEMMA NextStep ==
  ASSUME IInv, [Next]_vars PROVE IInv'
  <1>1. CASE EnterEval
    BY <1>1, EnterEvalStep
  <1>2. CASE EnterLambda
    BY <1>2, EnterLambdaStep
  <1>3. CASE \E kind \in Scopes : EnterScope(kind)
    BY <1>3, EnterScopeStep
  <1>4. CASE \E set \in BOOLEAN : EnterLocal(set)
    BY <1>4, EnterLocalStep
  <1>5. CASE LeaveEval
    BY <1>5, LeaveEvalStep
  <1>6. CASE LeaveScope
    BY <1>6, LeaveScopeStep
  <1>7. CASE LeaveLocal
    BY <1>7, LeaveLocalStep
  <1>8. CASE SettorReturns
    BY <1>8, SettorReturnsStep
  <1>9. CASE \E e \in Thrown : Throw(e)
    BY <1>9, ThrowStep
  <1>10. CASE Unwind
    BY <1>10, UnwindStep
  <1>11. CASE CatchOwn
    BY <1>11, CatchOwnStep
  <1>12. CASE CatchBody
    BY <1>12, CatchBodyStep
  <1>13. CASE Retry
    BY <1>13, RetryStep
  <1>14. CASE PassOn
    BY <1>14, PassOnStep
  <1>15. CASE Uncaught
    BY <1>15, UncaughtStep
  <1>16. CASE UndeferAborts
    BY <1>16, UndeferAbortsStep
  <1>17. CASE SigChk
    BY <1>17, SigChkStep
  <1>18. CASE \E parent \in BOOLEAN : Fork(parent)
    BY <1>18, ForkStep
  <1>19. CASE \E parent \in BOOLEAN : ForkFails(parent)
    BY <1>19, ForkFailsStep
  <1>20. CASE Exit
    BY <1>20, ExitStep
  <1>21. CASE UNCHANGED vars
    BY <1>21 DEF IInv, Types, Clean, Explained, ForkKept, Here, vars
  <1> QED
    BY <1>1, <1>2, <1>3, <1>4, <1>5, <1>6, <1>7, <1>8, <1>9, <1>10, <1>11, <1>12, <1>13,
       <1>14, <1>15, <1>16, <1>17, <1>18, <1>19, <1>20, <1>21 DEF Next

\* However constructs are entered, left, thrown out of, retried and forked, the handlers,
\* the locals, the depth of evaluation and what is to be cleaned up are those of the stack,
\* and each frame has saved those of the stack that it was put on (except.c, var.c, eval.c,
\* fd.c, input.c).
THEOREM StacksInvariant == Spec => []IInv
  <1>1. Init => IInv
    BY InitStep
  <1>2. IInv /\ [Next]_vars => IInv'
    BY NextStep
  <1> QED
    BY <1>1, <1>2, PTL DEF Spec

-----------------------------------------------------------------------------
(***************************************************************************)
(* What follows from the invariant.                                        *)
(***************************************************************************)

LEMMA OfKindIs ==
  ASSUME IInv
  PROVE  /\ \A kinds : OfKind(kinds) = Of(frames, Here, kinds)
         /\ LastFork = ForkIn(frames, Here) /\ Armed = ArmedIn(frames, Here)
  <1>1. DOMAIN frames = 1 .. Here
    BY Present DEF Here
  <1>2. ASSUME NEW kinds PROVE OfKind(kinds) = Of(frames, Here, kinds)
    BY <1>1 DEF OfKind, Of
  <1>3. LastFork = ForkIn(frames, Here)
    BY <1>2 DEF LastFork, ForkIn, Forks
  <1>4. OfKind(HandlerKinds) = Of(frames, Here, HandlerKinds)
        /\ OfKind({"throw"}) = Of(frames, Here, Throws)
    BY <1>2 DEF Throws
  <1>5. Armed = ArmedIn(frames, Here)
    BY <1>3, <1>4 DEF Armed, ArmedIn
  <1> QED
    BY <1>2, <1>3, <1>5

LEMMA InvTypes ==
  ASSUME IInv PROVE TypeOK
  <1>1. frames \in Seq(FrameType) /\ frames # <<>> /\ frames[1].kind = "main" /\ evaldepth \in Nat
    BY Present, StackTypes
  <1>2. pushlist \in 0 .. Here
    <2>1. CASE Top.kind # "throw"
      BY <2>1, Present, OfIn DEF PushIn
    <2>2. CASE Top.kind = "throw"
      <3>1. PICK n \in Nat : n = Here
        BY Present
      <3>2. /\ n \in 1 .. Len(frames) /\ frames[n].kind = "throw" /\ Stack(frames) /\ n = Len(frames)
        BY <2>2, <3>1, Present
      <3>3. PICK h : h = frames[n].up
        OBVIOUS
      <3>4. h \in 1 .. (n - 1) /\ frames[h].push = PushIn(frames, h - 1)
        BY <3>2, <3>3, TargetFacts
      <3>5. frames[h].push \in 0 .. (h - 1)
        <4>1. h - 1 \in Nat
          BY <3>4
        <4> QED
          BY <3>4, <4>1, OfIn DEF PushIn
      <3>6. pushlist = frames[h].push \/ pushlist \in Of(frames, n, PushKinds)
        BY <3>2, <3>3 DEF IInv, PushGood
      <3> QED
        BY <3>1, <3>4, <3>5, <3>6, OfIn
    <2> QED
      BY <2>1, <2>2
  <1> QED
    BY <1>1, <1>2 DEF TypeOK, IInv, Types

LEMMA InvHandlers ==
  ASSUME IInv PROVE HandlersExact
  <1>1. Armed = ArmedIn(frames, Here) /\ Here \in Nat
    BY OfKindIs, Present
  <1>2. ended = "no" => tophandler = Last(Armed)
    BY <1>1 DEF IInv, HandlerIn
  <1>3. ASSUME NEW k \in Armed PROVE frames[k].up = Last({j \in Armed : j < k})
    <2>1. k \in 1 .. Here /\ k \in Nat /\ frames[k].kind \in HandlerKinds
      BY <1>1, ArmedIn_ DEF Of
    <2>2. Fits(frames, k - 1, frames[k]) /\ \A j \in 1 .. Here : frames[j].up \in Nat
      BY <2>1, Present, StackTypes
    <2>3. frames[k].up = HandlerIn(frames, k - 1)
      BY <2>1, <2>2 DEF Fits
    <2>4. {j \in ArmedIn(frames, Here) : j < k} = ArmedIn(frames, k - 1)
      BY <1>1, <2>2, ArmedBelow
    <2> QED
      BY <1>1, <2>3, <2>4 DEF HandlerIn
  <1> QED
    BY <1>2, <1>3 DEF HandlersExact

\* The way from a Push, or from pushlist, for k turns.
Walks(f, p, k, w) ==
  /\ w \in [0 .. k -> Nat]
  /\ w[0] = p
  /\ \A i \in 1 .. k : w[i] = IF w[i - 1] \in DOMAIN f THEN f[w[i - 1]].push ELSE 0

LEMMA WalkExists ==
  ASSUME NEW f, Stack(f), NEW p \in Nat, NEW k \in Nat
  PROVE  \E w : Walks(f, p, k, w)
  <1> DEFINE S == {i \in Nat : ~ \E w : Walks(f, p, i, w)}
  <1>1. DOMAIN f = 1 .. Len(f) /\ \A i \in DOMAIN f : f[i].push \in Nat
    <2>1. f \in Seq(FrameType)
      BY DEF Stack
    <2> QED
      BY <2>1, StackTypes
  <1>2. ASSUME S # {} PROVE FALSE
    <2>1. PICK i \in S : \A j \in S : i <= j
      BY <1>2, LeastExists
    <2>2. i \in Nat /\ ~ \E w : Walks(f, p, i, w)
      BY <2>1
    <2>3. CASE i = 0
      <3>1. PICK w : w = [x \in 0 .. i |-> p]
        OBVIOUS
      <3>2. Walks(f, p, i, w)
        BY <2>3, <3>1 DEF Walks
      <3> QED
        BY <2>2, <3>2
    <2>4. CASE i # 0
      <3>1. i - 1 \in Nat /\ i - 1 \notin S
        BY <2>1, <2>2, <2>4
      <3>2. PICK w : Walks(f, p, i - 1, w)
        BY <3>1
      <3>3. PICK q \in Nat : q = IF w[i - 1] \in DOMAIN f THEN f[w[i - 1]].push ELSE 0
        BY <1>1
      <3>4. PICK v : v = [x \in 0 .. i |-> IF x = i THEN q ELSE w[x]]
        OBVIOUS
      <3>5. w \in [0 .. (i - 1) -> Nat] /\ w[0] = p
        BY <3>2 DEF Walks
      <3>6. v \in [0 .. i -> Nat] /\ v[0] = p
        BY <2>2, <2>4, <3>4, <3>5
      <3>7. ASSUME NEW x \in 1 .. i
            PROVE  v[x] = IF v[x - 1] \in DOMAIN f THEN f[v[x - 1]].push ELSE 0
        <4>1. v[x - 1] = w[x - 1]
          BY <2>2, <3>4
        <4>2. CASE x = i
          BY <3>3, <3>4, <4>1, <4>2
        <4>3. CASE x # i
          <5>1. x \in 1 .. (i - 1) /\ v[x] = w[x]
            BY <2>2, <3>4, <4>3
          <5> QED
            BY <3>2, <4>1, <5>1 DEF Walks
        <4> QED
          BY <4>2, <4>3
      <3>8. Walks(f, p, i, v)
        BY <3>6, <3>7 DEF Walks
      <3> QED
        BY <2>2, <3>8
    <2> QED
      BY <2>3, <2>4
  <1> QED
    BY <1>2

\* A Push leads to one below it, if to any.
LEMMA PushLeads ==
  ASSUME NEW f, Stack(f), NEW p \in Of(f, Len(f), PushKinds)
  PROVE  /\ p \in 2 .. Len(f) /\ f[p].push \in 0 .. (p - 1)
         /\ f[p].push = 0 \/ f[p].push \in Of(f, Len(f), PushKinds)
         /\ IF f[p - 1].kind = "throw" THEN f[p - 1].up < f[p].push
            ELSE f[p].push = PushIn(f, p - 1)
  <1>1. p \in 1 .. Len(f) /\ Len(f) \in Nat /\ f[p].kind \in PushKinds /\ p # 1
    BY StackTypes DEF Of, PushKinds
  <1>2. p - 1 \in Nat /\ p - 1 >= 1 /\ Fits(f, p - 1, f[p])
    BY <1>1, StackTypes
  <1>3. Of(f, p - 1, PushKinds) \subseteq Of(f, Len(f), PushKinds)
    BY <1>1 DEF Of
  <1>4. CASE f[p - 1].kind = "throw"
    <2>1. f[p].push \in Of(f, p - 1, PushKinds) /\ f[p - 1].up < f[p].push
      BY <1>2, <1>4 DEF Fits
    <2>2. f[p].push \in 0 .. (p - 1)
      BY <2>1 DEF Of
    <2> QED
      BY <1>1, <1>3, <1>4, <2>1, <2>2
  <1>5. CASE f[p - 1].kind # "throw"
    <2>1. f[p].push = PushIn(f, p - 1)
      BY <1>1, <1>2, <1>5 DEF Fits
    <2>2. f[p].push = Last(Of(f, p - 1, PushKinds)) /\ Of(f, p - 1, PushKinds) \in SUBSET (1 .. (p - 1))
      BY <1>2, <2>1, OfIn DEF PushIn
    <2>3. f[p].push \in 0 .. (p - 1) /\ (f[p].push = 0 \/ f[p].push \in Of(f, p - 1, PushKinds))
      BY <1>2, <2>2, LastIn DEF NULL
    <2> QED
      BY <1>1, <1>3, <1>5, <2>1, <2>3
  <1> QED
    BY <1>4, <1>5

\* pushlist leads to a Push, if to any. One that it passes is inside the throw on top.
LEMMA PushlistLeads ==
  ASSUME IInv
  PROVE  /\ pushlist = 0 \/ pushlist \in Of(frames, Here, PushKinds)
         /\ \A k \in Of(frames, Here, PushKinds) :
              pushlist < k => Top.kind = "throw" /\ Top.up < k /\ k < Here
  <1>1. /\ Stack(frames) /\ Here \in Nat /\ Here = Len(frames) /\ Top = frames[Here]
        /\ Here \in 1 .. Len(frames) /\ pushlist \in Nat
    BY Present
  <1>2. CASE Top.kind # "throw"
    <2>1. pushlist = Last(Of(frames, Here, PushKinds))
      BY <1>2, Present DEF PushIn
    <2>2. Of(frames, Here, PushKinds) \in SUBSET (1 .. Here)
      BY <1>1, OfIn
    <2>3. \A k \in Of(frames, Here, PushKinds) : k <= pushlist /\ k \in Nat
      BY <1>1, <2>1, <2>2, OfIn
    <2> QED
      BY <1>1, <2>1, <2>2, <2>3, LastIn DEF NULL
  <1>3. CASE Top.kind = "throw"
    <2>1. PICK n \in Nat : n = Here
      BY <1>1
    <2>2. PICK h : h = frames[n].up
      OBVIOUS
    <2>3. /\ h \in 1 .. (n - 1) /\ frames[h].push = PushIn(frames, h - 1)
          /\ frames[h].kind \in HandlerKinds
      BY <1>1, <1>3, <2>1, <2>2, TargetFacts
    <2>4. h - 1 \in Nat /\ Of(frames, h - 1, PushKinds) \in SUBSET (1 .. (h - 1))
      BY <2>3, OfIn
    <2>5. /\ frames[h].push = 0 \/ frames[h].push \in Of(frames, h - 1, PushKinds)
          /\ \A k \in Of(frames, h - 1, PushKinds) : k <= frames[h].push
      BY <2>3, <2>4, LastIn DEF PushIn, NULL
    <2>6. \/ pushlist = frames[h].push
          \/ pushlist \in Of(frames, n, PushKinds) /\ h < pushlist
      BY <1>1, <1>3, <2>1, <2>2 DEF IInv, PushGood
    <2>7. Of(frames, h - 1, PushKinds) \subseteq Of(frames, n, PushKinds)
      BY <2>1, <2>3 DEF Of
    <2>8. ASSUME NEW k \in Of(frames, n, PushKinds), pushlist < k PROVE h < k /\ k < n
      <3>1. k \in 1 .. n /\ frames[k].kind \in PushKinds
        BY DEF Of
      <3>2. k # n
        BY <1>1, <1>3, <2>1, <3>1, KindsApart DEF Throws
      <3>3. k # h
        BY <2>3, <3>1, KindsApart
      <3>4. CASE pushlist = frames[h].push
        <4>1. k \notin Of(frames, h - 1, PushKinds)
          BY <1>1, <2>5, <2>8, <3>1, <3>4
        <4> QED
          BY <2>3, <3>1, <3>2, <3>3, <4>1 DEF Of
      <3>5. CASE pushlist \in Of(frames, n, PushKinds) /\ h < pushlist
        BY <1>1, <2>3, <2>8, <3>1, <3>2, <3>5
      <3> QED
        BY <2>6, <3>4, <3>5
    <2> QED
      BY <1>1, <1>3, <2>1, <2>2, <2>5, <2>6, <2>7, <2>8
  <1> QED
    BY <1>2, <1>3

\* The walk of Pushed goes down, over frames of locals, and ends.
LEMMA WalkFacts ==
  ASSUME NEW f, Stack(f), NEW n, n = Len(f), NEW p \in Nat, NEW w, Walks(f, p, n, w),
         p = 0 \/ p \in Of(f, n, PushKinds)
  PROVE  /\ \A i \in 0 .. n : w[i] = 0 \/ w[i] \in Of(f, n, PushKinds)
         /\ w[n] = 0
  <1>1. /\ n \in Nat /\ n >= 1 /\ DOMAIN f = 1 .. n /\ w[0] = p /\ w \in [0 .. n -> Nat]
        /\ Of(f, n, PushKinds) \in SUBSET (1 .. n)
    <2>1. f \in Seq(FrameType)
      BY DEF Stack
    <2> QED
      BY <2>1, StackTypes, OfIn DEF Walks
  <1> DEFINE Good(i) == /\ w[i] = 0 \/ w[i] \in Of(f, n, PushKinds)
                        /\ w[i] <= n - i
             S == {i \in Nat : i <= n /\ ~Good(i)}
  <1>2. ASSUME S # {} PROVE FALSE
    <2>1. PICK i \in S : \A j \in S : i <= j
      BY <1>2, LeastExists
    <2>2. i \in 0 .. n /\ ~Good(i)
      BY <1>1, <2>1
    <2>3. i # 0
      <3>1. Good(0)
        BY <1>1
      <3> QED
        BY <2>2, <3>1
    <2>4. i - 1 \in Nat /\ i - 1 \notin S /\ i - 1 <= n
      BY <1>1, <2>1, <2>2, <2>3
    <2>5. Good(i - 1)
      BY <2>4
    <2>6. PICK q : q = w[i - 1]
      OBVIOUS
    <2>7. w[i] = IF q \in DOMAIN f THEN f[q].push ELSE 0
      BY <1>1, <2>2, <2>3, <2>6 DEF Walks
    <2>8. CASE q = 0
      <3>1. w[i] = 0
        BY <1>1, <2>7, <2>8
      <3> QED
        BY <1>1, <2>2, <3>1
    <2>9. CASE q \in Of(f, n, PushKinds)
      <3>1. q \in DOMAIN f /\ q <= n - (i - 1) /\ q \in Nat
        BY <1>1, <2>5, <2>6, <2>9
      <3>2. f[q].push \in 0 .. (q - 1) /\ (f[q].push = 0 \/ f[q].push \in Of(f, n, PushKinds))
        BY <2>9, PushLeads
      <3>3. w[i] \in 0 .. (q - 1) /\ (w[i] = 0 \/ w[i] \in Of(f, n, PushKinds))
        BY <2>7, <3>1, <3>2
      <3> QED
        BY <1>1, <2>2, <3>1, <3>3
    <2> QED
      BY <2>5, <2>6, <2>8, <2>9
  <1>3. ASSUME NEW i \in 0 .. n PROVE Good(i)
    <2> HIDE DEF Good
    <2>1. i \in Nat /\ i <= n /\ i \notin S
      BY <1>1, <1>2
    <2> QED
      BY <2>1
  <1>4. w[n] \in Nat /\ w[n] <= 0
    BY <1>1, <1>3
  <1> QED
    BY <1>3, <1>4

LEMMA PushedIs ==
  ASSUME IInv, NEW n, n = Here
  PROVE  \E w : Walks(frames, pushlist, n, w) /\ Pushed = {w[i] : i \in 0 .. n} \ {0}
  <1>1. Stack(frames) /\ n \in Nat /\ pushlist \in Nat
    BY Present
  <1>2. PICK v : Walks(frames, pushlist, n, v)
    BY <1>1, WalkExists
  <1> DEFINE Step(w) == [i \in 0 .. n |->
                           IF i = 0 THEN pushlist
                           ELSE IF w[i - 1] \in DOMAIN frames THEN frames[w[i - 1]].push ELSE NULL]
             walk == CHOOSE w : w = Step(w)
  <1>3. v = Step(v)
    <2>1. v \in [0 .. n -> Nat] /\ v[0] = pushlist
      BY <1>2 DEF Walks
    <2>2. ASSUME NEW i \in 0 .. n PROVE v[i] = Step(v)[i]
      <3>1. CASE i = 0
        BY <2>1, <3>1
      <3>2. CASE i # 0
        <4>1. i \in 1 .. n
          BY <1>1, <3>2
        <4> QED
          BY <1>2, <3>2, <4>1 DEF Walks, NULL
      <3> QED
        BY <3>1, <3>2
    <2>3. DOMAIN Step(v) = 0 .. n
      OBVIOUS
    <2> QED
      BY <2>1, <2>2, <2>3
  <1>4. walk = Step(walk)
    BY <1>3, Zenon
  <1>5. walk \in [0 .. n -> Nat]
    <2> HIDE DEF walk
    <2>1. \A i \in DOMAIN frames : frames[i].push \in Nat
      <3>1. DOMAIN frames = 1 .. Len(frames)
        BY Present
      <3> QED
        BY <1>1, <3>1, StackTypes
    <2>2. Step(walk) \in [0 .. n -> Nat]
      BY <1>1, <2>1 DEF NULL
    <2> QED
      BY <1>4, <2>2
  <1>6. Walks(frames, pushlist, n, walk)
    <2> HIDE DEF walk
    <2>1. walk[0] = pushlist
      BY <1>1, <1>4
    <2>2. ASSUME NEW i \in 1 .. n
          PROVE  walk[i] = IF walk[i - 1] \in DOMAIN frames THEN frames[walk[i - 1]].push ELSE 0
      BY <1>1, <1>4 DEF NULL
    <2> QED
      BY <1>5, <2>1, <2>2 DEF Walks
  <1>7. Pushed = {walk[i] : i \in DOMAIN walk} \ {NULL}
    BY DEF Pushed
  <1>8. Pushed = {walk[i] : i \in 0 .. n} \ {0}
    <2> HIDE DEF walk
    <2> QED
      BY <1>5, <1>7 DEF NULL
  <1> QED
    BY <1>6, <1>8

LEMMA InvPushes ==
  ASSUME IInv PROVE PushesExact
  <1>1. /\ Stack(frames) /\ Here \in Nat /\ Here = Len(frames) /\ Top = frames[Here]
        /\ Here \in 1 .. Len(frames) /\ pushlist \in Nat
    BY Present
  <1>2. PICK n \in Nat : n = Here
    BY <1>1
  <1>3. PICK w : Walks(frames, pushlist, n, w) /\ Pushed = {w[i] : i \in 0 .. n} \ {0}
    BY <1>2, PushedIs
  <1>4. /\ OfKind(PushKinds) = Of(frames, n, PushKinds)
        /\ OfKind(HandlerKinds) = Of(frames, n, HandlerKinds)
        /\ OfKind({"throw"}) = Of(frames, n, Throws)
    BY <1>2, OfKindIs DEF Throws
  <1>5. pushlist = 0 \/ pushlist \in Of(frames, n, PushKinds)
    BY <1>2, PushlistLeads
  <1>6. /\ \A i \in 0 .. n : w[i] = 0 \/ w[i] \in Of(frames, n, PushKinds)
        /\ w[n] = 0
    BY <1>1, <1>2, <1>3, <1>5, WalkFacts
  <1>7. /\ w[0] = pushlist /\ w \in [0 .. n -> Nat] /\ DOMAIN frames = 1 .. n
        /\ \A i \in 1 .. n : w[i] = IF w[i - 1] \in DOMAIN frames THEN frames[w[i - 1]].push ELSE 0
    BY <1>1, <1>2, <1>3, Present DEF Walks
  <1>8. Pushed \subseteq OfKind(PushKinds)
    BY <1>3, <1>4, <1>6
  <1>9. ASSUME NEW k \in OfKind(PushKinds) \ Pushed
        PROVE  \E j \in OfKind({"throw"}) : frames[j].up < k /\ k < j
    <2>1. k \in 1 .. n /\ k \in Of(frames, n, PushKinds) /\ \A i \in 0 .. n : w[i] # k
      BY <1>3, <1>4 DEF Of
    <2> DEFINE S == {i \in 0 .. n : w[i] < k}
    <2>2. S \in SUBSET Nat /\ S # {}
      <3>1. n \in S
        BY <1>2, <1>6, <2>1
      <3> QED
        BY <3>1
    <2>3. PICK i \in S : \A j \in S : i <= j
      BY <2>2, LeastExists
    <2>4. i \in 0 .. n /\ w[i] < k
      BY <2>3
    <2>5. CASE i = 0
      <3>1. Top.kind = "throw" /\ Top.up < k /\ k < Here
        BY <1>2, <1>7, <2>1, <2>4, <2>5, PushlistLeads
      <3>2. n \in OfKind({"throw"})
        BY <1>1, <1>2, <1>4, <3>1 DEF Of, Throws
      <3> QED
        BY <1>1, <1>2, <3>1, <3>2
    <2>6. CASE i # 0
      <3>1. i - 1 \in 0 .. n /\ i \in 1 .. n /\ i - 1 \notin S
        BY <2>3, <2>4, <2>6
      <3>2. PICK p \in Nat : p = w[i - 1]
        BY <1>7, <3>1
      <3>3. p > k
        BY <2>1, <3>1, <3>2
      <3>4. p \in Of(frames, n, PushKinds)
        BY <1>6, <2>1, <3>1, <3>2, <3>3
      <3>5. p \in 1 .. n /\ frames[p].push = w[i]
        <4>1. p \in 1 .. n
          BY <3>4 DEF Of
        <4> QED
          BY <1>7, <3>1, <3>2, <4>1
      <3>6. IF frames[p - 1].kind = "throw" THEN frames[p - 1].up < frames[p].push
            ELSE frames[p].push = PushIn(frames, p - 1)
        BY <1>1, <1>2, <3>4, PushLeads
      <3>7. k \in Of(frames, p - 1, PushKinds)
        BY <2>1, <3>3 DEF Of
      <3>8. frames[p - 1].kind = "throw"
        <4>1. k <= PushIn(frames, p - 1) /\ PushIn(frames, p - 1) \in Nat
          BY <3>5, <3>7, OfIn DEF PushIn
        <4> QED
          BY <2>1, <2>4, <3>5, <3>6, <4>1
      <3>9. frames[p - 1].up < k
        <4>1. frames[p - 1].up \in Nat
          <5>1. p - 1 \in 1 .. Len(frames)
            BY <1>1, <1>2, <2>1, <3>3, <3>5
          <5> QED
            BY <1>1, <5>1, StackTypes
        <4> QED
          BY <1>7, <2>1, <2>4, <3>1, <3>5, <3>6, <3>8, <4>1
      <3>10. k # p - 1
        <4>1. frames[k].kind \in PushKinds
          BY <2>1 DEF Of
        <4> QED
          BY <3>8, <4>1, KindsApart DEF Throws
      <3>11. k < p - 1 /\ p - 1 \in 1 .. n
        BY <2>1, <3>3, <3>5, <3>10
      <3>12. p - 1 \in OfKind({"throw"})
        BY <1>4, <3>8, <3>11 DEF Of, Throws
      <3> QED
        BY <3>9, <3>11, <3>12
    <2> QED
      BY <2>5, <2>6
  <1>10. ASSUME NEW k \in OfKind(HandlerKinds)
         PROVE  frames[k].push = Last({j \in OfKind(PushKinds) : j < k})
    <2>1. k \in 1 .. n /\ frames[k].kind \in HandlerKinds
      BY <1>4 DEF Of
    <2>2. Fits(frames, k - 1, frames[k])
      BY <1>1, <1>2, <2>1, StackTypes
    <2>3. frames[k].push = PushIn(frames, k - 1)
      BY <2>1, <2>2 DEF Fits
    <2>4. {j \in Of(frames, n, PushKinds) : j < k} = Of(frames, k - 1, PushKinds)
      BY <2>1 DEF Of
    <2> QED
      BY <1>4, <2>3, <2>4 DEF PushIn
  <1> QED
    BY <1>8, <1>9, <1>10 DEF PushesExact

\* The chain from tophandler links exactly the handlers that an exception raised now can
\* reach, pushlist the locals that are to be undone, each handler has saved the innermost
\* local outside it, and evaldepth counts the evaluations, through every return, throw,
\* retry and fork (except.c, var.c, eval.c).
THEOREM StacksAreExact == Spec => []StacksExact
  <1>1. IInv => StacksExact
    <2>1. ASSUME IInv PROVE DepthExact
      BY <2>1, OfKindIs DEF IInv, DepthExact, DepthIn
    <2> QED
      BY <2>1, InvTypes, InvHandlers, InvPushes DEF StacksExact
  <1> QED
    BY <1>1, StacksInvariant, PTL

\* Unless a handler was skipped, signals are blocked once for each catcher under way,
\* each redirection has its deferral, and input is the innermost Input (prim-ctl.c, fd.c,
\* input.c).
THEOREM CleanupIsExact == Spec => []CleanupExact
  <1>1. ASSUME IInv PROVE CleanupExact
    <2>1. /\ OfKind({"catcher"}) = Of(frames, Here, Catchers)
          /\ OfKind({"redir"}) = Of(frames, Here, Redirs)
          /\ OfKind({"input"}) = Of(frames, Here, Inputs)
          /\ LastFork = ForkIn(frames, Here)
      BY <1>1, OfKindIs DEF Catchers, Redirs, Inputs
    <2>2. ended = "no" => Clean
      BY <1>1 DEF IInv
    <2> QED
      BY <2>1, <2>2 DEF CleanupExact, Clean, CatchersIn, RedirsIn, InputIn
  <1> QED
    BY <1>1, StacksInvariant, PTL

\* throw finds no handler only for an exception of a settor that runs under a throw that
\* is going to main, and undefer aborts only where a handler was skipped or a fork has
\* failed (except.c, fd.c).
THEOREM AbortsAreExplained == Spec => []AbortsExplained
  <1>1. ASSUME IInv PROVE AbortsExplained
    <2>1. OfKind({"throw"}) = Of(frames, Here, Throws)
      BY <1>1, OfKindIs DEF Throws
    <2> QED
      BY <1>1, <2>1 DEF IInv, Explained, AbortsExplained
  <1> QED
    BY <1>1, StacksInvariant, PTL

\* A child stays above the frame it was forked in, unless closefds has failed in it
\* (newchildcatcher in except.c, efork in proc.c).
THEOREM ChildrenStayInside == Spec => []ChildEscapes
  <1>1. ASSUME IInv PROVE ChildEscapes
    <2>1. OfKind({"fork"}) = Of(frames, Here, Forks)
      BY <1>1, OfKindIs DEF Forks
    <2> QED
      BY <1>1, <2>1 DEF IInv, ForkKept, ChildEscapes
  <1> QED
    BY <1>1, StacksInvariant, PTL

=============================================================================
