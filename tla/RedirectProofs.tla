--------------------------- MODULE RedirectProofs ---------------------------
(***************************************************************************)
(* Proofs about Redirect, for every number of descriptors, files, scopes   *)
(* and forks: the list of registered descriptors and the tickets of the    *)
(* redirection frames are exact; no two variables of the shell hold the    *)
(* same descriptor; fdmap finds the innermost scope; and the whole         *)
(* implements RedirScopes.                                                 *)
(***************************************************************************)
EXTENDS Redirect, SequenceTheorems, WellFoundedInduction, TLAPS

\* remapfds starts from the first deferral, and fails only at one of them.
AtRight ==
  /\ pc \in {"run", "image"} => at = 0
  /\ pc = "torn" => at < Len(deftab)

IInv == TypeOK /\ AtRight /\ ReservedExact /\ TicketsInOrder

-----------------------------------------------------------------------------
(***************************************************************************)
(* The lowest free descriptor.                                             *)
(***************************************************************************)
Below == {ss \in Nat \X Nat : ss[1] < ss[2]}

\* The order of the natural numbers is well founded.
LEMMA BelowWellFounded == IsWellFoundedOn(Below, Nat)
  <1>1. Below = OpToRel(<, Nat)
    BY DEF Below, OpToRel
  <1> QED
    BY <1>1, NatLessThanWellFounded

\* A set of numbers that is not empty has a least element.
LEMMA LeastExists ==
  ASSUME NEW S \in SUBSET Nat, S # {}
  PROVE  \E n \in S : \A m \in S : n <= m
  <1>1. PICK n \in S : \A m \in S : <<m, n>> \notin Below
    BY BelowWellFounded, WFMin
  <1>2. ASSUME NEW m \in S PROVE n <= m
    <2>1. m \in Nat /\ n \in Nat
      OBVIOUS
    <2>2. <<m, n>> \notin {ss \in Nat \X Nat : ss[1] < ss[2]}
      BY <1>1 DEF Below
    <2>3. <<m, n>> \in Nat \X Nat
      BY <2>1
    <2>4. ~(<<m, n>>[1] < <<m, n>>[2])
      BY <2>2, <2>3, Zenon
    <2> QED
      BY <2>1, <2>4
  <1> QED
    BY <1>2

\* An open that finds a free number gets one.
LEMMA LowestFreeIsFree ==
  ASSUME NEW t, FreeFds(t) # {}
  PROVE  LowestFree(t) \in FreeFds(t)
  <1>1. FreeFds(t) \in SUBSET Nat
    BY TableAssumption DEF FreeFds, Fd
  <1>2. \E n \in FreeFds(t) : \A m \in FreeFds(t) : n <= m
    BY <1>1, LeastExists
  <1> QED
    BY <1>2 DEF LowestFree

\* What open and dup return: a descriptor number, or NoFd when none is free.
LEMMA LowestFreeType ==
  ASSUME NEW t
  PROVE  /\ LowestFree(t) \in Fd \cup {NoFd}
         /\ FreeFds(t) # {} => LowestFree(t) \in Fd
  <1>1. CASE FreeFds(t) = {}
    BY <1>1 DEF LowestFree
  <1>2. CASE FreeFds(t) # {}
    BY <1>2, LowestFreeIsFree DEF FreeFds
  <1> QED
    BY <1>1, <1>2

-----------------------------------------------------------------------------
(***************************************************************************)
(* Moving descriptors keeps the types, and changes neither the deferrals   *)
(* nor the frames in anything but the numbers that inputs and deferrals    *)
(* hold.                                                                   *)
(***************************************************************************)
LEMMA TableOps ==
  ASSUME NEW t \in Table, NEW n \in Int, NEW file \in Files \cup {Closed}
  PROVE  OpenAt(t, n, file) \in Table /\ CloseFd(t, n) \in Table
  BY DEF Table, OpenAt, CloseFd

\* A successful mvfd leaves a descriptor table.
LEMMA MvfdType ==
  ASSUME NEW t \in Table, NEW old \in Fd \cup {NoFd}, NEW new \in Nat, MvfdOk(t, old, new)
  PROVE  Mvfd(t, old, new) \in Table
  <1>1. CASE old = new
    BY <1>1 DEF Mvfd
  <1>2. CASE old # new
    <2>1. old \in Fd /\ t[old] \in Files \cup {Closed}
      BY <1>2 DEF MvfdOk, Table
    <2> QED
      BY <1>2, <2>1 DEF Mvfd, Table
  <1> QED
    BY <1>1, <1>2

\* Only an open number can be held by one of the shell's variables.
LEMMA HoldsType ==
  ASSUME TypeOK, NEW R, NEW u \in UserFds, Holds(R, u)
  PROVE  u \in Fd
  <1>1. u \in Nat
    BY RedirectAssumption
  <1>2. u \in Fd \cup {NoFd}
    <2>1. CASE SlotsHolding(R, u) # {}
      <3>1. PICK i \in DOMAIN deftab : deftab[i].realfd = u
        BY <2>1 DEF SlotsHolding
      <3>2. deftab[i] \in Deferral
        BY DEF TypeOK
      <3> QED
        BY <3>1, <3>2 DEF Deferral
    <2>2. CASE InputsHolding(R, u) # {}
      BY <2>2 DEF InputsHolding, TypeOK
    <2>3. CASE HistoryHolds(R, u)
      BY <2>3 DEF HistoryHolds, TypeOK
    <2> QED
      BY <2>1, <2>2, <2>3 DEF Holds
  <1> QED
    BY <1>1, <1>2 DEF NoFd

\* releasefd leaves a descriptor table.
LEMMA ReleasedType ==
  ASSUME TypeOK, NEW t \in Table, NEW R, NEW u \in UserFds
  PROVE  Released(t, R, u) \in Table
  <1>1. CASE Holds(R, u) /\ FreeFds(t) # {}
    <2>1. u \in Fd /\ u \in Int
      BY <1>1, HoldsType, RedirectAssumption
    <2>2. t[u] \in Files \cup {Closed}
      BY <2>1 DEF Table
    <2>3. LowestFree(t) \in Int
      BY <1>1, LowestFreeType, TableAssumption DEF Fd
    <2>4. OpenAt(t, LowestFree(t), t[u]) \in Table
      BY <2>2, <2>3, TableOps
    <2>5. CloseFd(OpenAt(t, LowestFree(t), t[u]), u) \in Table
      BY <2>1, <2>4, TableOps
    <2> QED
      BY <1>1, <2>5 DEF Released
  <1>2. CASE ~(Holds(R, u) /\ FreeFds(t) # {})
    BY <1>2 DEF Released
  <1> QED
    BY <1>1, <1>2

\* A successful dodeferred leaves a descriptor table.
LEMMA AppliedType ==
  ASSUME TypeOK, NEW t \in Table, NEW R, NEW u \in UserFds, NEW real \in Fd \cup {NoFd},
         Fits(t, R, real, u)
  PROVE  Applied(t, R, real, u) \in Table
  <1>1. Released(t, R, u) \in Table /\ u \in Nat /\ u \in Int
    BY ReleasedType, RedirectAssumption
  <1>2. CASE real = NoFd
    BY <1>1, <1>2, TableOps DEF Applied
  <1>3. CASE real # NoFd
    BY <1>1, <1>3, MvfdType DEF Applied, Fits
  <1> QED
    BY <1>2, <1>3

\* A function on 1 .. n is a sequence of length n.
LEMMA FunctionIsSeq ==
  ASSUME NEW S, NEW n \in Nat, NEW f \in [1 .. n -> S]
  PROVE  f \in Seq(S) /\ Len(f) = n
  OBVIOUS


\* Sequences of deferrals and of frames that differ from the present ones in the
\* numbers of descriptors only.
SameDeferrals(ds) == ds \in Seq(Deferral) /\ Len(ds) = Len(deftab)

SameFrames(fs) ==
  /\ fs \in Seq(FrameType) /\ Len(fs) = Len(frames)
  /\ \A k \in DOMAIN frames : /\ fs[k].kind = frames[k].kind
                              /\ frames[k].kind = "redir" => fs[k] = frames[k]
                              /\ k \in Dots => fs[k].n \in Fd \cup {NoFd}

\* releasefd changes nothing but real numbers in deftab,
LEMMA MovedDeferrals ==
  ASSUME TypeOK, NEW R, NEW u, NEW n \in Fd \cup {NoFd}
  PROVE  SameDeferrals([i \in DOMAIN deftab |->
                          IF i \in SlotsHolding(R, u)
                            THEN [deftab[i] EXCEPT !.realfd = n] ELSE deftab[i]])
  <1> DEFINE new(i) == IF i \in SlotsHolding(R, u)
                         THEN [deftab[i] EXCEPT !.realfd = n] ELSE deftab[i]
  <1>1. ASSUME NEW i \in DOMAIN deftab PROVE new(i) \in Deferral
    <2>1. deftab[i] \in Deferral
      BY DEF TypeOK
    <2>2. [deftab[i] EXCEPT !.realfd = n] \in Deferral
      BY <2>1 DEF Deferral
    <2> QED
      BY <2>1, <2>2
  <1>2. DOMAIN deftab = 1 .. Len(deftab) /\ Len(deftab) \in Nat
    BY DEF TypeOK
  <1> HIDE DEF new
  <1>3. [i \in DOMAIN deftab |-> new(i)] \in [1 .. Len(deftab) -> Deferral]
    BY <1>1, <1>2
  <1>4. SameDeferrals([i \in DOMAIN deftab |-> new(i)])
    BY <1>2, <1>3, FunctionIsSeq DEF SameDeferrals
  <1> QED
    BY <1>4 DEF new

\* and nothing but the descriptors of Inputs among the frames.
LEMMA MovedFrames ==
  ASSUME TypeOK, NEW R, NEW u, NEW n \in Fd \cup {NoFd}
  PROVE  SameFrames([k \in DOMAIN frames |->
                       IF k \in InputsHolding(R, u)
                         THEN [frames[k] EXCEPT !.n = n] ELSE frames[k]])
  <1> DEFINE new(k) == IF k \in InputsHolding(R, u)
                         THEN [frames[k] EXCEPT !.n = n] ELSE frames[k]
  <1>1. ASSUME NEW k \in DOMAIN frames
        PROVE  /\ new(k) \in FrameType
               /\ new(k).kind = frames[k].kind
               /\ frames[k].kind = "redir" => new(k) = frames[k]
               /\ k \in Dots => new(k).n \in Fd \cup {NoFd}
    <2>1. frames[k] \in FrameType
      BY DEF TypeOK
    <2>2. CASE k \in InputsHolding(R, u)
      <3>1. new(k) = [frames[k] EXCEPT !.n = n]
        BY <2>2
      <3>2. frames[k].kind = "dot"
        BY <2>2 DEF InputsHolding, Dots
      <3>3. n \in Int
        BY TableAssumption DEF Fd, NoFd
      <3> HIDE DEF new
      <3> QED
        BY <2>1, <3>1, <3>2, <3>3 DEF FrameType
    <2>3. CASE k \notin InputsHolding(R, u)
      <3>1. new(k) = frames[k]
        BY <2>3
      <3> HIDE DEF new
      <3> QED
        BY <2>1, <3>1 DEF TypeOK
    <2> QED
      BY <2>2, <2>3
  <1>2. DOMAIN frames = 1 .. Len(frames) /\ Len(frames) \in Nat
    BY DEF TypeOK
  <1> HIDE DEF new
  <1>3. [k \in DOMAIN frames |-> new(k)] \in [1 .. Len(frames) -> FrameType]
    BY <1>1, <1>2
  <1>4. SameFrames([k \in DOMAIN frames |-> new(k)])
    BY <1>1, <1>2, <1>3, FunctionIsSeq DEF SameFrames
  <1> QED
    BY <1>4 DEF new

\* The two for all the variables that releasefd writes.
LEMMA MoveHoldersSame ==
  ASSUME TypeOK, NEW t, NEW R, NEW u, MoveHolders(t, R, u)
  PROVE  SameDeferrals(deftab') /\ SameFrames(frames') /\ historyfd' \in Fd \cup {NoFd}
  <1>1. PICK n \in Fd \cup {NoFd} : n = LowestFree(t)
    BY LowestFreeType
  <1>2. deftab' = [i \in DOMAIN deftab |->
                     IF i \in SlotsHolding(R, u)
                       THEN [deftab[i] EXCEPT !.realfd = n] ELSE deftab[i]]
    BY <1>1, Zenon DEF MoveHolders
  <1>3. frames' = [k \in DOMAIN frames |->
                     IF k \in InputsHolding(R, u)
                       THEN [frames[k] EXCEPT !.n = n] ELSE frames[k]]
    BY <1>1, Zenon DEF MoveHolders
  <1>4. SameDeferrals(deftab')
    BY <1>2, MovedDeferrals, Zenon
  <1>5. SameFrames(frames')
    BY <1>3, MovedFrames, Zenon
  <1>6. historyfd' \in Fd \cup {NoFd}
    BY <1>1 DEF MoveHolders, TypeOK
  <1> QED
    BY <1>4, <1>5, <1>6

-----------------------------------------------------------------------------
(***************************************************************************)
(* How the frames change, and what that does to Dots and Ticketed.         *)
(***************************************************************************)
LEMMA FramesSame ==
  ASSUME TypeOK, SameFrames(frames')
  PROVE  /\ frames' \in Seq(FrameType)
         /\ Dots' = Dots
         /\ \A k \in Dots : frames'[k].n \in Fd \cup {NoFd}
         /\ Ticketed' = Ticketed
         /\ \A k \in Ticketed : frames'[k].n = frames[k].n
  <1>1. DOMAIN frames' = DOMAIN frames
    BY DEF TypeOK, SameFrames
  <1>2. Dots' = Dots
    BY <1>1 DEF Dots, SameFrames
  <1>3. \A k \in DOMAIN frames :
          frames'[k].kind = "redir" /\ frames'[k].n # UNREGISTERED
            <=> frames[k].kind = "redir" /\ frames[k].n # UNREGISTERED
    BY DEF SameFrames
  <1> QED
    BY <1>1, <1>2, <1>3 DEF Ticketed, SameFrames, Dots

\* Entering a frame leaves the tickets and the Inputs of the others alone.
LEMMA FramesPushed ==
  ASSUME TypeOK, NEW fs, SameFrames(fs), NEW e \in FrameType,
         e.kind = "dot" => e.n \in Fd \cup {NoFd},
         frames' = Append(fs, e)
  PROVE  /\ frames' \in Seq(FrameType)
         /\ Len(frames) \in Nat /\ Len(frames) + 1 \notin DOMAIN frames
         /\ frames'[Len(frames) + 1] = e
         /\ Dots' = Dots \cup {k \in {Len(frames) + 1} : e.kind = "dot"}
         /\ \A k \in Dots' : frames'[k].n \in Fd \cup {NoFd}
         /\ Ticketed' = Ticketed
              \cup {k \in {Len(frames) + 1} : e.kind = "redir" /\ e.n # UNREGISTERED}
         /\ \A k \in Ticketed : frames'[k].n = frames[k].n
  <1>1. /\ frames' \in Seq(FrameType)
        /\ Len(frames) \in Nat /\ Len(frames) + 1 \notin DOMAIN frames
        /\ frames'[Len(frames) + 1] = e
        /\ DOMAIN frames' = DOMAIN frames \cup {Len(frames) + 1}
        /\ \A k \in DOMAIN frames : frames'[k] = fs[k]
    BY DEF TypeOK, SameFrames
  <1>2. Dots' = Dots \cup {k \in {Len(frames) + 1} : e.kind = "dot"}
    BY <1>1 DEF Dots, SameFrames
  <1>3. \A k \in Dots' : frames'[k].n \in Fd \cup {NoFd}
    BY <1>1, <1>2 DEF Dots, SameFrames
  <1>4. \A k \in DOMAIN frames :
          frames'[k].kind = "redir" /\ frames'[k].n # UNREGISTERED
            <=> frames[k].kind = "redir" /\ frames[k].n # UNREGISTERED
    BY <1>1 DEF SameFrames
  <1>5. Ticketed' = Ticketed
          \cup {k \in {Len(frames) + 1} : e.kind = "redir" /\ e.n # UNREGISTERED}
    BY <1>1, <1>4 DEF Ticketed
  <1>6. \A k \in Ticketed : frames'[k].n = frames[k].n
    BY <1>1 DEF Ticketed, SameFrames
  <1> QED
    BY <1>1, <1>2, <1>3, <1>5, <1>6

\* Leaving a frame does too.
LEMMA FramesPopped ==
  ASSUME TypeOK, frames # <<>>, frames' = SubSeq(frames, 1, Len(frames) - 1)
  PROVE  /\ frames' \in Seq(FrameType)
         /\ Len(frames) \in DOMAIN frames /\ Top = frames[Len(frames)]
         /\ Dots' = Dots \ {Len(frames)}
         /\ \A k \in Dots' : frames'[k].n \in Fd \cup {NoFd}
         /\ Ticketed' = Ticketed \ {Len(frames)}
         /\ \A k \in Ticketed : k <= Len(frames)
         /\ \A k \in Ticketed' : frames'[k].n = frames[k].n
  <1>1. /\ frames' \in Seq(FrameType)
        /\ Len(frames) \in DOMAIN frames /\ Top = frames[Len(frames)]
        /\ DOMAIN frames' = DOMAIN frames \ {Len(frames)}
        /\ \A k \in DOMAIN frames' : frames'[k] = frames[k]
        /\ \A k \in DOMAIN frames : k <= Len(frames)
    BY DEF TypeOK, Top
  <1>2. Dots' = Dots \ {Len(frames)}
    BY <1>1 DEF Dots
  <1>3. \A k \in Dots' : frames'[k].n \in Fd \cup {NoFd}
    BY <1>1, <1>2 DEF Dots, TypeOK
  <1>4. Ticketed' = Ticketed \ {Len(frames)}
    BY <1>1 DEF Ticketed
  <1> QED
    BY <1>1, <1>2, <1>3, <1>4 DEF Ticketed

-----------------------------------------------------------------------------
(***************************************************************************)
(* The list, between two runs of closefds.                                 *)
(***************************************************************************)
Inputs == {InputPtr(k) : k \in Dots}

\* Outside remapfds every deferral is pending, so every one is registered.
LEMMA ReservedBefore ==
  ASSUME IInv, at = 0, pc # "torn"
  PROVE  reserved = {HistoryPtr} \cup Inputs \cup Slots(defmax, Len(deftab))
  <1>1. Pending = 1 .. Len(deftab)
    BY DEF Pending, IInv, TypeOK
  <1> QED
    BY <1>1 DEF IInv, ReservedExact, Slots, Inputs

\* A step that ends outside remapfds and registers exactly these keeps the list exact.
LEMMA ReservedAfter ==
  ASSUME at' = 0, pc' # "torn", deftab' \in Seq(Deferral),
         reserved' = {HistoryPtr} \cup Inputs' \cup Slots(defmax', Len(deftab'))
  PROVE  ReservedExact' /\ AtRight'
  <1>1. Pending' = 1 .. Len(deftab')
    BY DEF Pending
  <1> QED
    BY <1>1 DEF ReservedExact, Slots, Inputs, AtRight

\* Pointers to different variables differ.
LEMMA PointersDiffer ==
  /\ \A m, i, k : Slot(m, i) # HistoryPtr /\ Slot(m, i) # InputPtr(k)
  /\ \A k : InputPtr(k) # HistoryPtr
  /\ \A j, k : InputPtr(j) = InputPtr(k) => j = k
  /\ \A l, m, i, j : Slot(l, i) = Slot(m, j) => l = m /\ i = j
  BY DEF Slot, HistoryPtr, InputPtr

\* Pushing a redirection without a ticket, or an input, keeps the tickets in order.
LEMMA TicketsKept ==
  ASSUME TypeOK, TicketsInOrder, pc = "run", Len(deftab') = Len(deftab),
         Ticketed' = Ticketed, \A k \in Ticketed : frames'[k].n = frames[k].n
  PROVE  TicketsInOrder'
  BY DEF TicketsInOrder

\* The first shell satisfies the invariant.
LEMMA InitIInv == Init => IInv
  <1> SUFFICES ASSUME Init PROVE IInv
    OBVIOUS
  <1> USE DEF Init
  <1>1. 0 \in Fd /\ 3 \in Fd /\ Fd \subseteq Int
    BY TableAssumption DEF Fd
  <1>2. fdt \in Table
    BY RedirectAssumption DEF Table
  <1>3. PICK n \in Fd : frames = <<[kind |-> "dot", n |-> n]>>
    BY <1>1, RedirectAssumption
  <1>4. frames \in Seq(FrameType) /\ DOMAIN frames = {1} /\ frames[1] = [kind |-> "dot", n |-> n]
    BY <1>1, <1>3 DEF FrameType
  <1>5. Dots = {1} /\ Ticketed = {} /\ frames[1].n \in Fd
    BY <1>4 DEF Dots, Ticketed
  <1>6. TypeOK
    BY <1>2, <1>4, <1>5 DEF TypeOK
  <1>7. ReservedExact
    <2>1. Pending = {}
      BY DEF Pending
    <2> QED
      BY <1>5, <2>1 DEF ReservedExact
  <1>8. TicketsInOrder
    BY <1>5 DEF TicketsInOrder
  <1> QED
    BY <1>6, <1>7, <1>8 DEF IInv, AtRight

-----------------------------------------------------------------------------
(***************************************************************************)
(* One lemma per action.                                                   *)
(***************************************************************************)
LEMMA DeferIInv ==
  ASSUME IInv, pc = "run", NEW t \in Table, NEW real \in Fd \cup {NoFd}, NEW u \in UserFds,
         Defer(t, real, u)
  PROVE  IInv'
  <1> DEFINE i == Len(deftab)
  <1>1. PICK m \in Nat : m = IF Grows(i) THEN defmax + GrowBy ELSE defmax
    BY RedirectAssumption DEF IInv, TypeOK
  <1>2. i \in Nat /\ i < m
    BY <1>1, RedirectAssumption DEF IInv, TypeOK, Grows
  <1>3. /\ fdt' = t /\ defmax' = m
        /\ deftab' = Append(deftab, [realfd |-> real, userfd |-> u])
        /\ reserved' = Reregistered(reserved, m, i) \cup {Slot(m, i + 1)}
        /\ frames' = Append(frames, [kind |-> "redir", n |-> i])
        /\ UNCHANGED <<historyfd, forks, pc, at, orphans>>
    BY <1>1 DEF Defer, Enter
  <1>4. deftab' \in Seq(Deferral) /\ Len(deftab') = i + 1
    BY <1>3 DEF IInv, TypeOK, Deferral
  <1>5. SameFrames(frames) /\ [kind |-> "redir", n |-> i] \in FrameType
    BY DEF SameFrames, IInv, TypeOK, Dots, FrameType
  <1>6. /\ frames' \in Seq(FrameType)
        /\ frames'[Len(frames) + 1] = [kind |-> "redir", n |-> i]
        /\ Dots' = Dots
        /\ \A k \in Dots' : frames'[k].n \in Fd \cup {NoFd}
        /\ Ticketed' = Ticketed \cup {Len(frames) + 1}
        /\ \A k \in Ticketed : frames'[k].n = frames[k].n
    <2>1. UNREGISTERED # i
      BY <1>2 DEF UNREGISTERED
    <2> HIDE DEF i
    <2> QED
      BY <1>3, <1>5, <2>1, FramesPushed DEF IInv
  <1>7. at = 0
    BY DEF IInv, AtRight
  <1>8. TypeOK'
    <2>1. /\ Len(deftab') <= defmax' /\ defmax' \in Nat
          /\ at' \in 0 .. Len(deftab')
      BY <1>2, <1>3, <1>4, <1>7
    <2>2. /\ historyfd' \in Fd \cup {NoFd} /\ forks' \in Nat /\ orphans' \subseteq Fd
          /\ pc' \in {"run", "remapFork", "remapExec", "image", "torn"}
          /\ fdt' \in Table
      BY <1>3 DEF IInv, TypeOK
    <2> QED
      BY <1>4, <1>6, <2>1, <2>2 DEF TypeOK
  <1>9. ReservedExact' /\ AtRight'
    <2>1. reserved = {HistoryPtr} \cup Inputs \cup Slots(defmax, i)
      BY <1>7, ReservedBefore
    <2>2. Reregistered(reserved, m, i) = {HistoryPtr} \cup Inputs \cup Slots(m, i)
      BY <2>1, PointersDiffer DEF Reregistered, Slots, Inputs
    <2>3. Slots(m, i) \cup {Slot(m, i + 1)} = Slots(m, i + 1)
      BY <1>2 DEF Slots
    <2>4. Inputs' = Inputs
      BY <1>6 DEF Inputs
    <2>5. reserved' = {HistoryPtr} \cup Inputs' \cup Slots(defmax', Len(deftab'))
      BY <1>3, <1>4, <2>2, <2>3, <2>4
    <2> QED
      BY <1>3, <1>4, <1>7, <2>5, ReservedAfter
  <1>10. TicketsInOrder'
    <2>1. {frames[k].n : k \in Ticketed} = 0 .. (i - 1)
      BY DEF IInv, TicketsInOrder
    <2>2. \A k \in Ticketed : frames[k].n \in 0 .. (i - 1) /\ k \in 1 .. Len(frames)
      BY <2>1 DEF Ticketed, IInv, TypeOK
    <2>3. {frames'[k].n : k \in Ticketed'} = 0 .. i
      <3>1. {frames'[k].n : k \in Ticketed'} = {frames[k].n : k \in Ticketed} \cup {i}
        BY <1>6
      <3>2. 0 .. i = (0 .. (i - 1)) \cup {i}
        BY <1>2
      <3> QED
        BY <2>1, <3>1, <3>2
    <2>4. \A j, k \in Ticketed' : j < k => frames'[j].n < frames'[k].n
      BY <1>2, <1>6, <2>2 DEF IInv, TicketsInOrder
    <2> QED
      BY <1>4, <2>3, <2>4 DEF TicketsInOrder
  <1> QED
    BY <1>8, <1>9, <1>10 DEF IInv

\* Steps of the shell that push no ticket, pop none and register nothing.
LEMMA NothingRegistered ==
  ASSUME IInv, pc = "run", UNCHANGED <<pc, at, reserved, defmax>>,
         SameDeferrals(deftab'), Dots' = Dots, Ticketed' = Ticketed,
         \A k \in Ticketed : frames'[k].n = frames[k].n
  PROVE  AtRight' /\ ReservedExact' /\ TicketsInOrder'
  <1>1. at = 0 /\ deftab' \in Seq(Deferral) /\ Len(deftab') = Len(deftab)
    BY DEF IInv, AtRight, SameDeferrals
  <1>2. reserved = {HistoryPtr} \cup Inputs \cup Slots(defmax, Len(deftab))
    BY <1>1, ReservedBefore
  <1>3. reserved' = {HistoryPtr} \cup Inputs' \cup Slots(defmax', Len(deftab'))
    BY <1>1, <1>2 DEF Inputs
  <1>4. ReservedExact' /\ AtRight'
    BY <1>1, <1>3, ReservedAfter
  <1>5. TicketsInOrder'
    BY <1>1, TicketsKept DEF IInv
  <1> QED
    BY <1>4, <1>5

\* A step that leaves deftab and the frames alone keeps their types.
LEMMA DeferralsUnchanged == ASSUME TypeOK PROVE SameDeferrals(deftab) /\ SameFrames(frames)
  BY DEF SameDeferrals, SameFrames, TypeOK

\* pushdefer when the descriptor is moved at once.
LEMMA MoveNowIInv ==
  ASSUME IInv, pc = "run", NEW t \in Table, NEW real \in Fd \cup {NoFd}, NEW u \in UserFds,
         MoveNow(t, real, u)
  PROVE  IInv'
  <1>1. PICK n \in Fd \cup {NoFd} : n = LowestFree(t)
    BY LowestFreeType
  <1>2. PICK ds : ds = [i \in DOMAIN deftab |->
                          IF i \in SlotsHolding(reserved, u)
                            THEN [deftab[i] EXCEPT !.realfd = n] ELSE deftab[i]]
    OBVIOUS
  <1>3. PICK fs : fs = [k \in DOMAIN frames |->
                          IF k \in InputsHolding(reserved, u)
                            THEN [frames[k] EXCEPT !.n = n] ELSE frames[k]]
    OBVIOUS
  <1>4. SameDeferrals(ds) /\ SameFrames(fs)
    BY <1>2, <1>3, MovedDeferrals, MovedFrames, Zenon DEF IInv
  <1>5. /\ fdt' = Applied(t, reserved, real, u) /\ Fits(t, reserved, real, u)
        /\ orphans' = orphans \ {u}
        /\ UNCHANGED <<defmax, reserved, forks, pc, at>>
    BY DEF MoveNow
  <1>6. deftab' = ds
    BY <1>1, <1>2, Zenon DEF MoveNow
  <1>7. frames' = Append(fs, [kind |-> "redir", n |-> UNREGISTERED])
    BY <1>1, <1>3, Zenon DEF MoveNow, MovedTicket
  <1>8. historyfd' \in Fd \cup {NoFd}
    BY <1>1 DEF MoveNow, IInv, TypeOK
  <1>9. fdt' \in Table
    BY <1>5, AppliedType DEF IInv
  <1>10. /\ frames' \in Seq(FrameType) /\ Dots' = Dots
         /\ \A k \in Dots' : frames'[k].n \in Fd \cup {NoFd}
         /\ Ticketed' = Ticketed
         /\ \A k \in Ticketed : frames'[k].n = frames[k].n
    <2>1. [kind |-> "redir", n |-> UNREGISTERED] \in FrameType
      BY DEF FrameType, UNREGISTERED
    <2> QED
      BY <1>4, <1>7, <2>1, FramesPushed DEF IInv
  <1>11. TypeOK'
    BY <1>4, <1>5, <1>6, <1>8, <1>9, <1>10 DEF SameDeferrals, IInv, TypeOK
  <1> QED
    BY <1>4, <1>5, <1>6, <1>10, <1>11, NothingRegistered DEF IInv

\* pushdefer when that fails.
LEMMA MoveFailsIInv ==
  ASSUME IInv, pc = "run", NEW t \in Table, NEW real \in Fd \cup {NoFd}, NEW u \in UserFds,
         MoveFails(t, real, u)
  PROVE  IInv'
  <1>1. SameDeferrals(deftab') /\ SameFrames(frames') /\ historyfd' \in Fd \cup {NoFd}
    BY MoveHoldersSame DEF MoveFails, IInv
  <1>2. UNCHANGED <<defmax, reserved, forks, pc, at>> /\ fdt' = Released(t, reserved, u)
    BY DEF MoveFails
  <1>3. fdt' \in Table
    BY <1>2, ReleasedType DEF IInv
  <1>4. orphans' \subseteq Fd
    <2>1. DupFails(t, reserved, u) => u \in Fd
      BY HoldsType DEF DupFails, IInv
    <2> QED
      BY <2>1 DEF MoveFails, IInv, TypeOK
  <1>5. /\ frames' \in Seq(FrameType) /\ Dots' = Dots
        /\ \A k \in Dots : frames'[k].n \in Fd \cup {NoFd}
        /\ Ticketed' = Ticketed
        /\ \A k \in Ticketed : frames'[k].n = frames[k].n
    BY <1>1, FramesSame DEF IInv
  <1>6. TypeOK'
    BY <1>1, <1>2, <1>3, <1>4, <1>5 DEF SameDeferrals, IInv, TypeOK
  <1> QED
    BY <1>1, <1>2, <1>5, <1>6, NothingRegistered DEF IInv

\* redir, in any of its three ways.
LEMMA RedirIInv ==
  ASSUME IInv, pc = "run", NEW t \in Table, NEW real \in Fd \cup {NoFd}, NEW u \in UserFds,
         Redir(t, real, u)
  PROVE  IInv'
  BY DeferIInv, MoveNowIInv, MoveFailsIInv DEF Redir

\* What an open or a dup leaves to redir.
LEMMA OpenedType ==
  ASSUME IInv, FreeFds(fdt) # {}, NEW file \in Files \cup {Closed}
  PROVE  /\ LowestFree(fdt) \in Fd
         /\ OpenAt(fdt, LowestFree(fdt), file) \in Table
  <1>1. LowestFree(fdt) \in Fd /\ LowestFree(fdt) \in Int
    BY LowestFreeType, TableAssumption DEF Fd
  <1> QED
    BY <1>1, TableOps DEF IInv, TypeOK

\* %open and its relatives keep the invariant,
LEMMA OpenFileIInv ==
  ASSUME IInv, NEW u \in UserFds, NEW file \in UserFiles, OpenFile(u, file)
  PROVE  IInv'
  <1>1. file \in Files
    BY RedirectAssumption
  <1> QED
    BY <1>1, OpenedType, RedirIInv DEF OpenFile, Running

\* so does %dup,
LEMMA DupFdIInv ==
  ASSUME IInv, NEW u \in UserFds, NEW o \in UserFds, DupFd(u, o)
  PROVE  IInv'
  <1>1. PICK s \in Fd : s = FdMap(o)
    BY DEF DupFd
  <1>2. fdt[s] \in Files \cup {Closed}
    BY DEF IInv, TypeOK, Table
  <1>3. /\ pc = "run" /\ FreeFds(fdt) # {}
        /\ Redir(OpenAt(fdt, LowestFree(fdt), fdt[s]), LowestFree(fdt), u)
    BY <1>1 DEF DupFd, Running
  <1> QED
    BY <1>2, <1>3, OpenedType, RedirIInv

\* and %close.
LEMMA CloseUserIInv ==
  ASSUME IInv, NEW u \in UserFds, CloseUser(u)
  PROVE  IInv'
  BY RedirIInv DEF CloseUser, Running, IInv, TypeOK

\* undefer pops the entry that its ticket names.
LEMMA LeaveRedirIInv == ASSUME IInv, LeaveRedir PROVE IInv'
  <1> DEFINE last == Len(frames)
             d == Len(deftab)
  <1>1. /\ pc = "run" /\ frames # <<>> /\ Top.kind = "redir"
        /\ frames' = SubSeq(frames, 1, last - 1)
        /\ UNCHANGED <<defmax, historyfd, forks, pc, at, orphans>>
    BY DEF LeaveRedir
  <1>2. /\ frames' \in Seq(FrameType)
        /\ last \in DOMAIN frames /\ Top = frames[last]
        /\ Dots' = Dots \ {last}
        /\ \A k \in Dots' : frames'[k].n \in Fd \cup {NoFd}
        /\ Ticketed' = Ticketed \ {last}
        /\ \A k \in Ticketed : k <= last
        /\ \A k \in Ticketed' : frames'[k].n = frames[k].n
    BY <1>1, FramesPopped DEF IInv
  <1>3. Dots' = Dots /\ Inputs' = Inputs
    BY <1>1, <1>2 DEF Dots, Inputs
  <1>4. at = 0
    BY <1>1 DEF IInv, AtRight
  <1>5. CASE Top.n = UNREGISTERED
    <2>1. UNCHANGED <<fdt, deftab, reserved>>
      BY <1>5 DEF LeaveRedir
    <2>2. Ticketed' = Ticketed
      BY <1>2, <1>5 DEF Ticketed
    <2>3. TypeOK'
      BY <1>1, <1>2, <2>1 DEF IInv, TypeOK
    <2>4. AtRight' /\ ReservedExact' /\ TicketsInOrder'
      BY <1>1, <1>2, <1>3, <2>1, <2>2, DeferralsUnchanged, NothingRegistered DEF IInv
    <2> QED
      BY <2>3, <2>4 DEF IInv
  <1>6. CASE Top.n # UNREGISTERED
    <2>1. /\ fdt' = Undeferred
          /\ reserved' = reserved \ {Slot(defmax, d)}
          /\ deftab' = SubSeq(deftab, 1, d - 1)
      BY <1>6 DEF LeaveRedir
    <2>2. last \in Ticketed
      BY <1>1, <1>2, <1>6 DEF Ticketed
    <2>3. {frames[k].n : k \in Ticketed} = 0 .. (d - 1) /\ d \in Nat
          /\ \A j, k \in Ticketed : j < k => frames[j].n < frames[k].n
      BY <1>1 DEF IInv, TicketsInOrder, TypeOK
    <2>4. frames[last].n \in 0 .. (d - 1)
      BY <2>2, <2>3
    <2>5. d >= 1
      BY <2>3, <2>4
    <2>6. deftab' \in Seq(Deferral) /\ Len(deftab') = d - 1
      <3>1. deftab \in Seq(Deferral) /\ d - 1 \in 0 .. d /\ d = Len(deftab)
        BY <2>3, <2>5 DEF IInv, TypeOK
      <3>2. \A i \in 1 .. (d - 1) : deftab[i] \in Deferral
        BY <2>3, <3>1
      <3> HIDE DEF d
      <3> QED
        BY <2>1, <3>1, <3>2
    <2>7. Undeferred \in Table
      <3>1. deftab[d] \in Deferral
        BY <2>3, <2>5 DEF IInv, TypeOK
      <3>2. deftab[d].realfd \in Int
        BY <3>1, TableAssumption DEF Deferral, Fd, NoFd
      <3> QED
        BY <3>2, TableOps DEF Undeferred, IInv, TypeOK
    <2>8. TypeOK'
      <3>1. Len(deftab') <= defmax' /\ at' \in 0 .. Len(deftab') /\ defmax' \in Nat
        BY <1>1, <1>4, <2>3, <2>5, <2>6 DEF IInv, TypeOK
      <3>2. /\ historyfd' \in Fd \cup {NoFd} /\ forks' \in Nat /\ orphans' \subseteq Fd
            /\ pc' \in {"run", "remapFork", "remapExec", "image", "torn"}
        BY <1>1 DEF IInv, TypeOK
      <3> QED
        BY <1>2, <2>1, <2>6, <2>7, <3>1, <3>2 DEF TypeOK
    <2>9. ReservedExact' /\ AtRight'
      <3>1. reserved = {HistoryPtr} \cup Inputs \cup Slots(defmax, d)
        BY <1>1, <1>4, ReservedBefore
      <3>2. Slots(defmax, d) \ {Slot(defmax, d)} = Slots(defmax, d - 1)
        BY <2>3, <2>5, PointersDiffer DEF Slots
      <3>3. reserved' = {HistoryPtr} \cup Inputs' \cup Slots(defmax', Len(deftab'))
        <4>1. Slot(defmax, d) \notin {HistoryPtr} \cup Inputs
          BY PointersDiffer DEF Inputs
        <4>2. reserved' = {HistoryPtr} \cup Inputs \cup Slots(defmax, d - 1)
          BY <2>1, <3>1, <3>2, <4>1, Zenon
        <4> QED
          BY <1>1, <1>3, <2>6, <4>2
      <3> QED
        BY <1>1, <1>4, <2>6, <3>3, ReservedAfter
    <2>10. TicketsInOrder'
      <3>1. \A k \in Ticketed : frames[k].n \in 0 .. (d - 1)
        BY <2>3
      <3>2. \A k \in Ticketed' : frames[k].n < frames[last].n
        <4>1. \A k \in Ticketed' : k \in Ticketed /\ k < last
          BY <1>2 DEF Ticketed, IInv, TypeOK
        <4> QED
          BY <2>2, <2>3, <4>1
      <3>3. frames[last].n = d - 1
        <4>1. PICK k \in Ticketed : frames[k].n = d - 1
          BY <2>3, <2>5
        <4>2. CASE k = last
          BY <4>1, <4>2
        <4>3. CASE k # last
          BY <1>2, <2>4, <3>2, <4>1, <4>3
        <4> QED
          BY <4>2, <4>3
      <3>4. {frames'[k].n : k \in Ticketed'} = 0 .. (d - 2)
        <4>1. {frames'[k].n : k \in Ticketed'} = {frames[k].n : k \in Ticketed'}
          BY <1>2
        <4>2. \A k \in Ticketed' : frames[k].n \in 0 .. (d - 2)
          BY <1>2, <2>3, <2>5, <3>1, <3>2, <3>3
        <4>3. ASSUME NEW n \in 0 .. (d - 2) PROVE \E k \in Ticketed' : frames[k].n = n
          <5>1. n \in 0 .. (d - 1) /\ n # d - 1
            BY <2>3, <2>5
          <5>2. PICK k \in Ticketed : frames[k].n = n
            BY <2>3, <5>1
          <5> QED
            BY <1>2, <3>3, <5>1, <5>2
        <4> QED
          BY <4>1, <4>2, <4>3
      <3>5. \A j, k \in Ticketed' : j < k => frames'[j].n < frames'[k].n
        BY <1>2, <2>3
      <3>6. Len(deftab') - 1 = d - 2
        BY <2>3, <2>6
      <3> QED
        BY <3>4, <3>5, <3>6 DEF TicketsInOrder
    <2> QED
      BY <2>8, <2>9, <2>10 DEF IInv
  <1> QED
    BY <1>5, <1>6

\* runfd registers its Input.
LEMMA DotIInv == ASSUME IInv, Dot PROVE IInv'
  <1> DEFINE next == Len(frames) + 1
  <1>1. /\ pc = "run" /\ FreeFds(fdt) # {}
        /\ fdt' = OpenAt(fdt, LowestFree(fdt), ShellFile)
        /\ frames' = Append(frames, [kind |-> "dot", n |-> LowestFree(fdt)])
        /\ reserved' = reserved \cup {InputPtr(next)}
        /\ UNCHANGED <<deftab, defmax, historyfd, forks, pc, at, orphans>>
    BY DEF Dot, Running, Enter
  <1>2. LowestFree(fdt) \in Fd /\ fdt' \in Table
    BY <1>1, OpenedType, RedirectAssumption
  <1>3. PICK e \in FrameType : e = [kind |-> "dot", n |-> LowestFree(fdt)]
    <2>1. [kind |-> "dot", n |-> LowestFree(fdt)] \in FrameType
      BY <1>2, TableAssumption DEF FrameType, Fd
    <2> QED
      BY <2>1
  <1>4. e.kind = "dot" /\ e.n \in Fd
    BY <1>2, <1>3
  <1>5. /\ frames' \in Seq(FrameType)
        /\ Dots' = Dots \cup {next}
        /\ \A k \in Dots' : frames'[k].n \in Fd \cup {NoFd}
        /\ Ticketed' = Ticketed
        /\ \A k \in Ticketed : frames'[k].n = frames[k].n
    BY <1>1, <1>3, <1>4, DeferralsUnchanged, FramesPushed DEF IInv
  <1>6. at = 0
    BY <1>1 DEF IInv, AtRight
  <1>7. TypeOK'
    BY <1>1, <1>2, <1>5 DEF IInv, TypeOK
  <1>8. ReservedExact' /\ AtRight'
    <2>1. reserved = {HistoryPtr} \cup Inputs \cup Slots(defmax, Len(deftab))
      BY <1>1, <1>6, ReservedBefore
    <2>2. Inputs' = Inputs \cup {InputPtr(next)}
      BY <1>5 DEF Inputs
    <2>3. reserved' = {HistoryPtr} \cup Inputs' \cup Slots(defmax', Len(deftab'))
      BY <1>1, <2>1, <2>2
    <2> QED
      BY <1>1, <1>6, <1>7, <2>3, ReservedAfter DEF TypeOK
  <1>9. TicketsInOrder'
    BY <1>1, <1>5, TicketsKept DEF IInv
  <1> QED
    BY <1>7, <1>8, <1>9 DEF IInv

\* End of file closes an Input and leaves it registered.
LEMMA EndOfInputIInv == ASSUME IInv, EndOfInput PROVE IInv'
  <1>1. PICK k \in Dots : /\ pc = "run"
                          /\ fdt' = CloseFd(fdt, frames[k].n)
                          /\ frames' = [frames EXCEPT ![k].n = NoFd]
    BY DEF EndOfInput
  <1>2. UNCHANGED <<deftab, defmax, reserved, historyfd, forks, pc, at, orphans>>
    BY DEF EndOfInput
  <1>3. SameFrames(frames')
    <2>1. ASSUME NEW j \in DOMAIN frames
          PROVE  /\ frames'[j] \in FrameType
                 /\ frames'[j].kind = frames[j].kind
                 /\ frames[j].kind = "redir" => frames'[j] = frames[j]
                 /\ j \in Dots => frames'[j].n \in Fd \cup {NoFd}
      <3>1. frames[j] \in FrameType
        BY DEF IInv, TypeOK
      <3>2. CASE j = k
        <4>1. frames'[j] = [frames[j] EXCEPT !.n = NoFd]
          BY <1>1, <3>2
        <4>2. frames[j].kind = "dot" /\ NoFd \in Int
          BY <3>2 DEF Dots, NoFd
        <4> QED
          BY <3>1, <4>1, <4>2 DEF FrameType
      <3>3. CASE j # k
        BY <1>1, <3>1, <3>3 DEF IInv, TypeOK
      <3> QED
        BY <3>2, <3>3
    <2>2. DOMAIN frames = 1 .. Len(frames) /\ Len(frames) \in Nat
      BY DEF IInv, TypeOK
    <2>3. frames' \in [1 .. Len(frames) -> FrameType]
      <3>1. frames' = [j \in DOMAIN frames |-> frames'[j]]
        BY <1>1
      <3> QED
        BY <2>1, <2>2, <3>1, Zenon
    <2> QED
      BY <2>1, <2>2, <2>3, FunctionIsSeq DEF SameFrames
  <1>4. /\ frames' \in Seq(FrameType) /\ Dots' = Dots
        /\ \A j \in Dots : frames'[j].n \in Fd \cup {NoFd}
        /\ Ticketed' = Ticketed
        /\ \A j \in Ticketed : frames'[j].n = frames[j].n
    BY <1>3, FramesSame DEF IInv
  <1>5. fdt' \in Table
    <2>1. frames[k].n \in Int
      BY TableAssumption DEF IInv, TypeOK, Fd, NoFd
    <2> QED
      BY <1>1, <2>1, TableOps DEF IInv, TypeOK
  <1>6. TypeOK'
    BY <1>2, <1>4, <1>5 DEF IInv, TypeOK
  <1> QED
    BY <1>1, <1>2, <1>4, <1>6, DeferralsUnchanged, NothingRegistered DEF IInv

\* fdcleanup takes it off the list.
LEMMA LeaveDotIInv == ASSUME IInv, LeaveDot PROVE IInv'
  <1> DEFINE last == Len(frames)
  <1>1. /\ pc = "run" /\ frames # <<>> /\ Top.kind = "dot"
        /\ fdt' = IF Top.n = NoFd THEN fdt ELSE CloseFd(fdt, Top.n)
        /\ reserved' = reserved \ {InputPtr(last)}
        /\ frames' = SubSeq(frames, 1, last - 1)
        /\ UNCHANGED <<deftab, defmax, historyfd, forks, pc, at, orphans>>
    BY DEF LeaveDot
  <1>2. /\ frames' \in Seq(FrameType)
        /\ last \in DOMAIN frames /\ Top = frames[last]
        /\ Dots' = Dots \ {last}
        /\ \A k \in Dots' : frames'[k].n \in Fd \cup {NoFd}
        /\ Ticketed' = Ticketed \ {last}
        /\ \A k \in Ticketed' : frames'[k].n = frames[k].n
    BY <1>1, FramesPopped DEF IInv
  <1>3. Ticketed' = Ticketed
    BY <1>1, <1>2 DEF Ticketed
  <1>4. at = 0
    BY <1>1 DEF IInv, AtRight
  <1>5. fdt' \in Table
    <2>1. last \in Dots
      BY <1>1, <1>2 DEF Dots
    <2>2. Top.n \in Int
      BY <1>2, <2>1, TableAssumption DEF IInv, TypeOK, Fd, NoFd
    <2> QED
      BY <1>1, <2>2, TableOps DEF IInv, TypeOK
  <1>6. TypeOK'
    BY <1>1, <1>2, <1>5 DEF IInv, TypeOK
  <1>7. ReservedExact' /\ AtRight'
    <2>1. reserved = {HistoryPtr} \cup Inputs \cup Slots(defmax, Len(deftab))
      BY <1>1, <1>4, ReservedBefore
    <2>2. Inputs' = Inputs \ {InputPtr(last)}
      BY <1>2, PointersDiffer DEF Inputs
    <2>3. InputPtr(last) \notin {HistoryPtr} \cup Slots(defmax, Len(deftab))
      BY PointersDiffer DEF Slots
    <2>4. reserved' = {HistoryPtr} \cup Inputs' \cup Slots(defmax', Len(deftab'))
      BY <1>1, <2>1, <2>2, <2>3
    <2> QED
      BY <1>1, <1>4, <1>6, <2>4, ReservedAfter DEF TypeOK
  <1>8. TicketsInOrder'
    BY <1>1, <1>2, <1>3, TicketsKept DEF IInv
  <1> QED
    BY <1>6, <1>7, <1>8 DEF IInv

\* The history descriptor comes and goes under one registration.
LEMMA HistoryIInv == ASSUME IInv, LogHistory \/ SetHistory PROVE IInv'
  <1>1. /\ pc = "run"
        /\ UNCHANGED <<deftab, defmax, reserved, frames, forks, pc, at, orphans>>
    BY DEF LogHistory, SetHistory
  <1>2. fdt' \in Table /\ historyfd' \in Fd \cup {NoFd}
    <2>1. CASE LogHistory
      BY <2>1, OpenedType, RedirectAssumption DEF LogHistory
    <2>2. CASE SetHistory
      <3>1. historyfd \in Int
        BY TableAssumption DEF IInv, TypeOK, Fd, NoFd
      <3> QED
        BY <2>2, <3>1, TableOps DEF SetHistory, IInv, TypeOK
    <2> QED
      BY <2>1, <2>2
  <1>3. Dots' = Dots /\ Ticketed' = Ticketed
    BY <1>1 DEF Dots, Ticketed
  <1>4. TypeOK'
    BY <1>1, <1>2, <1>3 DEF IInv, TypeOK
  <1> QED
    BY <1>1, <1>3, <1>4, DeferralsUnchanged, NothingRegistered DEF IInv

\* efork starts with deftab untouched.
LEMMA ForkExecIInv == ASSUME IInv, Fork \/ Exec PROVE IInv'
  <1>1. /\ pc = "run" /\ pc' \in {"remapFork", "remapExec"} /\ forks' \in Nat
        /\ UNCHANGED <<fdt, deftab, defmax, reserved, historyfd, frames, at, orphans>>
    BY DEF Fork, Exec, IInv, TypeOK
  <1>2. Dots' = Dots /\ Pending' = Pending
    BY <1>1 DEF Dots, Pending
  <1>3. TypeOK'
    BY <1>1, <1>2 DEF IInv, TypeOK
  <1>4. ReservedExact'
    BY <1>1, <1>2 DEF IInv, ReservedExact
  <1> QED
    BY <1>1, <1>3, <1>4 DEF IInv, AtRight, TicketsInOrder

\* One turn of remapfds unregisters one deferral and may move the others.
LEMMA RemapOneIInv == ASSUME IInv, RemapOne PROVE IInv'
  <1>1. PICK d, R, ok :
          /\ d = deftab[at + 1]
          /\ R = reserved \ {Slot(defmax, at + 1)}
          /\ ok = Fits(fdt, R, d.realfd, d.userfd)
    OBVIOUS
  <1>2. /\ pc \in {"remapFork", "remapExec"} /\ at < Len(deftab)
        /\ reserved' = R
        /\ MoveHolders(fdt, R, d.userfd)
        /\ fdt' = IF ok THEN Applied(fdt, R, d.realfd, d.userfd)
                        ELSE Released(fdt, R, d.userfd)
        /\ at' = IF ok THEN at + 1 ELSE at
        /\ pc' = IF ok THEN pc ELSE "torn"
        /\ orphans' = IF ok THEN orphans \ {d.userfd} ELSE orphans
        /\ UNCHANGED <<defmax, forks>>
    BY <1>1, Zenon DEF RemapOne, Remapping
  <1>3. Len(deftab) \in Nat /\ at \in 0 .. Len(deftab) /\ at + 1 \in DOMAIN deftab
    BY <1>2 DEF IInv, TypeOK
  <1>4. d \in Deferral /\ d.userfd \in UserFds /\ d.realfd \in Fd \cup {NoFd}
    <2>1. d \in Deferral
      BY <1>1, <1>3 DEF IInv, TypeOK
    <2> QED
      BY <2>1 DEF Deferral
  <1>5. SameDeferrals(deftab') /\ SameFrames(frames') /\ historyfd' \in Fd \cup {NoFd}
    BY <1>2, MoveHoldersSame DEF IInv
  <1>6. fdt' \in Table
    <2>1. CASE ok
      BY <1>1, <1>2, <1>4, <2>1, AppliedType DEF IInv, TypeOK
    <2>2. CASE ~ok
      BY <1>2, <1>4, <2>2, ReleasedType DEF IInv, TypeOK
    <2> QED
      BY <2>1, <2>2
  <1>7. /\ frames' \in Seq(FrameType) /\ Dots' = Dots
        /\ \A k \in Dots : frames'[k].n \in Fd \cup {NoFd}
    BY <1>5, FramesSame DEF IInv
  <1>8. TypeOK'
    <2>1. at' \in 0 .. Len(deftab') /\ deftab' \in Seq(Deferral)
      BY <1>2, <1>3, <1>5 DEF SameDeferrals
    <2>2. /\ defmax' \in Nat /\ Len(deftab') <= defmax' /\ forks' \in Nat
          /\ pc' \in {"run", "remapFork", "remapExec", "image", "torn"}
          /\ orphans' \subseteq Fd
      BY <1>2, <1>5 DEF SameDeferrals, IInv, TypeOK
    <2> QED
      BY <1>5, <1>6, <1>7, <2>1, <2>2 DEF TypeOK
  <1>9. AtRight'
    BY <1>2, <1>5 DEF SameDeferrals, AtRight
  <1>10. ReservedExact'
    <2> DEFINE slots == {Slot(defmax, i) : i \in (at + 2) .. Len(deftab)}
    <2>1. Pending = {at + 1} \cup ((at + 2) .. Len(deftab))
      BY <1>2, <1>3 DEF Pending
    <2>2. reserved = {HistoryPtr} \cup {InputPtr(k) : k \in Dots}
                       \cup {Slot(defmax, i) : i \in Pending}
      BY <1>2 DEF IInv, ReservedExact
    <2>3. Slot(defmax, at + 1) \notin {HistoryPtr} \cup {InputPtr(k) : k \in Dots} \cup slots
      <3>1. at + 1 \notin (at + 2) .. Len(deftab)
        BY <1>3
      <3> QED
        BY <3>1, PointersDiffer
    <2>4. {Slot(defmax, i) : i \in Pending} = {Slot(defmax, at + 1)} \cup slots
      BY <2>1
    <2>5. reserved' = {HistoryPtr} \cup {InputPtr(k) : k \in Dots} \cup slots
      <3> HIDE DEF slots
      <3> QED
        BY <1>1, <1>2, <2>2, <2>3, <2>4, Zenon
    <2>6. (IF pc = "torn" THEN Pending \ {at + 1} ELSE Pending)' = (at + 2) .. Len(deftab)
      <3>1. CASE ok
        <4>1. pc' # "torn" /\ at' = at + 1 /\ Len(deftab') = Len(deftab)
          BY <1>2, <1>5, <3>1 DEF SameDeferrals
        <4> QED
          BY <1>3, <4>1 DEF Pending
      <3>2. CASE ~ok
        <4>1. pc' = "torn" /\ at' = at /\ Len(deftab') = Len(deftab)
          BY <1>2, <1>5, <3>2 DEF SameDeferrals
        <4> QED
          BY <1>3, <4>1 DEF Pending
      <3> QED
        BY <3>1, <3>2
    <2> QED
      BY <1>2, <1>7, <2>5, <2>6 DEF ReservedExact
  <1>11. TicketsInOrder'
    BY <1>2 DEF TicketsInOrder
  <1> QED
    BY <1>8, <1>9, <1>10, <1>11 DEF IInv

\* closefds leaves no deferral and no Input.
LEMMA CloseReservedIInv == ASSUME IInv, CloseReserved PROVE IInv'
  <1>1. /\ frames' = <<>> /\ deftab' = <<>> /\ at' = 0 /\ historyfd' = NoFd
        /\ reserved' = {HistoryPtr} /\ pc' \in {"run", "image"}
        /\ UNCHANGED <<defmax, forks, orphans>>
    BY DEF CloseReserved
  <1>2. fdt' \in Table
    BY DEF CloseReserved, IInv, TypeOK, Table
  <1>3. Dots' = {} /\ Ticketed' = {} /\ Pending' = {}
    BY <1>1 DEF Dots, Ticketed, Pending
  <1>4. TypeOK'
    BY <1>1, <1>2, <1>3 DEF IInv, TypeOK
  <1>5. ReservedExact'
    BY <1>1, <1>3 DEF ReservedExact
  <1>6. TicketsInOrder'
    BY <1>1, <1>3 DEF TicketsInOrder
  <1> QED
    BY <1>1, <1>4, <1>5, <1>6 DEF IInv, AtRight

\* Every step keeps the invariant.
LEMMA NextIInv == ASSUME IInv, [Next]_vars PROVE IInv'
  <1>1. CASE UNCHANGED vars
    <2>1. UNCHANGED <<fdt, deftab, defmax, reserved, historyfd, frames, forks, pc, at, orphans>>
      BY <1>1 DEF vars
    <2>2. Dots' = Dots /\ Pending' = Pending /\ Ticketed' = Ticketed
      BY <2>1 DEF Dots, Pending, Ticketed
    <2> QED
      BY <2>1, <2>2 DEF IInv, TypeOK, AtRight, ReservedExact, TicketsInOrder
  <1>2. CASE \E u \in UserFds, f \in UserFiles : OpenFile(u, f)
    BY <1>2, OpenFileIInv
  <1>3. CASE \E u \in UserFds, o \in UserFds : DupFd(u, o)
    BY <1>3, DupFdIInv
  <1>4. CASE \E u \in UserFds : CloseUser(u)
    BY <1>4, CloseUserIInv
  <1>5. CASE LeaveRedir
    BY <1>5, LeaveRedirIInv
  <1>6. CASE Dot \/ EndOfInput \/ LeaveDot
    BY <1>6, DotIInv, EndOfInputIInv, LeaveDotIInv
  <1>7. CASE LogHistory \/ SetHistory
    BY <1>7, HistoryIInv
  <1>8. CASE Fork \/ Exec
    BY <1>8, ForkExecIInv
  <1>9. CASE RemapOne
    BY <1>9, RemapOneIInv
  <1>10. CASE CloseReserved
    BY <1>10, CloseReservedIInv
  <1> QED
    BY <1>1, <1>2, <1>3, <1>4, <1>5, <1>6, <1>7, <1>8, <1>9, <1>10 DEF Next

-----------------------------------------------------------------------------
\* The inductive invariant holds in every reachable state.
THEOREM Inductive == Spec => []IInv
  <1>1. Init => IInv
    BY InitIInv
  <1>2. IInv /\ [Next]_vars => IInv'
    BY NextIInv
  <1> QED
    BY <1>1, <1>2, PTL DEF Spec

\* Every variable keeps a value of its type: in particular no descriptor number leaves
\* the kernel's range and remapfds never passes the end of deftab.
THEOREM TypesCorrect == Spec => []TypeOK
  <1>1. IInv => TypeOK
    BY DEF IInv
  <1> QED
    BY <1>1, Inductive, PTL

\* The list of registered descriptors holds the address of every variable the shell
\* keeps a descriptor in and no other: unregisterfd never panics, and releasefd and
\* closefds never write through an address of a moved table or of a left frame.
THEOREM RegistrationExact == Spec => []ReservedExact
  <1>1. IInv => ReservedExact
    BY DEF IInv
  <1> QED
    BY <1>1, Inductive, PTL

\* Every undefer pops the deferral its own scope pushed: the assertions of undefer hold.
THEOREM TicketsCorrect == Spec => []TicketsInOrder
  <1>1. IInv => TicketsInOrder
    BY DEF IInv
  <1> QED
    BY <1>1, Inductive, PTL

-----------------------------------------------------------------------------
(***************************************************************************)
(* Who holds which descriptor.  The variables that hold one are deferrals, *)
(* Inputs and the history descriptor; held says which number is in each.   *)
(***************************************************************************)
DeferralAt(i) == <<"deferral", i>>
InputAt(k) == <<"input", k>>
History == <<"history", 0>>

Owners == {DeferralAt(i) : i \in Pending} \cup {InputAt(k) : k \in Dots} \cup {History}

NumberIn(x) ==
  IF x[1] = "deferral" THEN deftab[x[2]].realfd
  ELSE IF x[1] = "input" THEN frames[x[2]].n
  ELSE historyfd

held == [x \in Owners |-> NumberIn(x)]

HeldRight ==
  /\ DOMAIN held = Owners
  /\ \A i \in Pending : DeferralAt(i) \in Owners /\ held[DeferralAt(i)] = deftab[i].realfd
  /\ \A k \in Dots : InputAt(k) \in Owners /\ held[InputAt(k)] = frames[k].n
  /\ History \in Owners /\ held[History] = historyfd

\* In table t each of them holds an open number of its own, or none, and what has lost
\* its owner is open and held by nobody.
Apart(t, h, o) ==
  /\ \A x \in DOMAIN h :
       /\ h[x] \in Fd \cup {NoFd}
       /\ h[x] # NoFd => t[h[x]] # Closed /\ h[x] \notin o
       /\ \A y \in DOMAIN h : h[x] # NoFd /\ h[x] = h[y] => x = y
  /\ \A n \in o : n \in Fd /\ t[n] # Closed

OInv == IInv /\ Apart(fdt, held, orphans)

\* Different variables are different owners.
LEMMA OwnersDiffer ==
  /\ \A i, k : DeferralAt(i) # InputAt(k) /\ DeferralAt(i) # History /\ InputAt(k) # History
  /\ \A i, j : DeferralAt(i) = DeferralAt(j) => i = j
  /\ \A j, k : InputAt(j) = InputAt(k) => j = k
  /\ \A i : DeferralAt(i)[1] = "deferral" /\ DeferralAt(i)[2] = i
  /\ \A k : InputAt(k)[1] = "input" /\ InputAt(k)[2] = k
  /\ History[1] = "history"
  BY DEF DeferralAt, InputAt, History

\* held says what each variable holds,
LEMMA HeldIs == HeldRight
  <1>1. DOMAIN held = Owners /\ \A x \in Owners : held[x] = NumberIn(x)
    BY DEF held
  <1>2. \A i \in Pending : DeferralAt(i) \in Owners /\ NumberIn(DeferralAt(i)) = deftab[i].realfd
    BY OwnersDiffer DEF Owners, NumberIn
  <1>3. \A k \in Dots : InputAt(k) \in Owners /\ NumberIn(InputAt(k)) = frames[k].n
    BY OwnersDiffer DEF Owners, NumberIn
  <1>4. History \in Owners /\ NumberIn(History) = historyfd
    BY OwnersDiffer DEF Owners, NumberIn
  <1> QED
    BY <1>1, <1>2, <1>3, <1>4 DEF HeldRight

\* This is OwnersApart.
LEMMA ApartIsOwnersApart ==
  ASSUME OInv PROVE OwnersApart
  <1>1. ASSUME NEW i \in Pending, NEW n, n = deftab[i].realfd, n # NoFd
        PROVE  /\ fdt[n] # Closed /\ n # historyfd
               /\ \A j \in Pending \ {i} : deftab[j].realfd # n
               /\ \A k \in Dots : frames[k].n # n
               /\ n \notin orphans
    <2>1. n = held[DeferralAt(i)] /\ DeferralAt(i) \in DOMAIN held
      BY <1>1, HeldIs DEF HeldRight
    <2>2. fdt[n] # Closed /\ n \notin orphans
      BY <1>1, <2>1 DEF OInv, Apart, HeldRight
    <2>3. \A y \in DOMAIN held : held[y] = n => y = DeferralAt(i)
      BY <1>1, <2>1 DEF OInv, Apart
    <2>4. n # historyfd
      BY <2>3, HeldIs, OwnersDiffer DEF HeldRight
    <2>5. \A j \in Pending \ {i} : deftab[j].realfd # n
      BY <2>3, HeldIs, OwnersDiffer DEF HeldRight
    <2>6. \A k \in Dots : frames[k].n # n
      BY <2>3, HeldIs, OwnersDiffer DEF HeldRight
    <2> QED
      BY <2>2, <2>4, <2>5, <2>6
  <1>2. ASSUME NEW k \in Dots, NEW n, n = frames[k].n, n # NoFd
        PROVE  /\ fdt[n] # Closed /\ n # historyfd
               /\ \A j \in Dots \ {k} : frames[j].n # n
               /\ n \notin orphans
    <2>1. n = held[InputAt(k)] /\ InputAt(k) \in DOMAIN held
      BY <1>2, HeldIs DEF HeldRight
    <2>2. fdt[n] # Closed /\ n \notin orphans
      BY <1>2, <2>1 DEF OInv, Apart, HeldRight
    <2>3. \A y \in DOMAIN held : held[y] = n => y = InputAt(k)
      BY <1>2, <2>1 DEF OInv, Apart
    <2>4. n # historyfd
      BY <2>3, HeldIs, OwnersDiffer DEF HeldRight
    <2>5. \A j \in Dots \ {k} : frames[j].n # n
      BY <2>3, HeldIs, OwnersDiffer DEF HeldRight
    <2> QED
      BY <2>2, <2>4, <2>5
  <1>3. historyfd # NoFd => fdt[historyfd] # Closed /\ historyfd \notin orphans
    BY HeldIs DEF HeldRight, OInv, Apart
  <1> QED
    BY <1>1, <1>2, <1>3 DEF OwnersApart

-----------------------------------------------------------------------------
(***************************************************************************)
(* What the calls of fd.c do to a table whose numbers have owners.         *)
(***************************************************************************)

\* A new owner of a number that was free,
LEMMA ApartAdd ==
  ASSUME NEW t \in Table, NEW h, NEW o, Apart(t, h, o),
         NEW n \in FreeFds(t), NEW file \in Files,
         NEW g, NEW x, x \in DOMAIN h => h[x] = NoFd, DOMAIN g = DOMAIN h \cup {x},
         g[x] = n, \A y \in DOMAIN h \ {x} : g[y] = h[y]
  PROVE  Apart(OpenAt(t, n, file), g, o)
  <1>1. n \in Fd /\ t[n] = Closed /\ file # Closed /\ DOMAIN t = Fd
    BY TableAssumption DEF FreeFds, Table
  <1>2. \A m \in Fd : OpenAt(t, n, file)[m] = IF m = n THEN file ELSE t[m]
    BY <1>1 DEF OpenAt
  <1>3. \A y \in DOMAIN h : h[y] # n
    BY <1>1, TableAssumption DEF Apart, NoFd, Fd
  <1>4. n \notin o
    BY <1>1 DEF Apart
  <1> QED
    BY <1>1, <1>2, <1>3, <1>4 DEF Apart

\* an owner that goes, with its number,
LEMMA ApartDrop ==
  ASSUME NEW t \in Table, NEW h, NEW o, Apart(t, h, o), NEW x \in DOMAIN h,
         NEW g, DOMAIN g \subseteq DOMAIN h,
         \A y \in DOMAIN g : IF y = x THEN g[y] = NoFd ELSE g[y] = h[y]
  PROVE  Apart(CloseFd(t, h[x]), g, o)
  <1>1. DOMAIN t = Fd /\ NoFd \notin Fd
    BY DEF Table, Fd, NoFd
  <1>2. \A m \in Fd : CloseFd(t, h[x])[m] = IF m = h[x] THEN Closed ELSE t[m]
    BY <1>1 DEF CloseFd
  <1> QED
    BY <1>1, <1>2 DEF Apart

\* fewer owners.
LEMMA ApartFewer ==
  ASSUME NEW t, NEW h, NEW o, Apart(t, h, o), NEW g, DOMAIN g \subseteq DOMAIN h,
         \A y \in DOMAIN g : g[y] = h[y]
  PROVE  Apart(t, g, o)
  BY DEF Apart

\* What a failed move leaves: orphans may be forgotten, or adopted.
LEMMA ApartAdopt ==
  ASSUME NEW t, NEW h, NEW o, Apart(t, h, o), NEW o1 \in SUBSET o,
         NEW x, x \notin DOMAIN h, NEW g, DOMAIN g = DOMAIN h \cup {x},
         g[x] # NoFd => g[x] \in o /\ g[x] \notin o1,
         \A y \in DOMAIN h : g[y] = h[y]
  PROVE  Apart(t, g, o1)
  <1>1. g[x] # NoFd => /\ g[x] \in Fd /\ t[g[x]] # Closed
                       /\ \A y \in DOMAIN h : h[y] # g[x]
    BY DEF Apart
  <1> QED
    BY <1>1 DEF Apart

\* Every variable on the list that holds u is given n instead.
Shifted(h, u, n) == [x \in DOMAIN h |-> IF h[x] = u THEN n ELSE h[x]]

Taken(h, u) == \E x \in DOMAIN h : h[x] = u

\* real is about to be moved: open, and nobody's yet.
Spare(t, h, o, real) ==
  real # NoFd => /\ real \in Fd /\ t[real] # Closed /\ real \notin o
                 /\ ~Taken(h, real)

\* releasefd, when it does not fail.
LEMMA ApartReleased ==
  ASSUME TypeOK, NEW t \in Table, NEW h, NEW o, Apart(t, h, o), NEW R, NEW u \in Nat,
         Holds(R, u) <=> Taken(h, u), ~DupFails(t, R, u),
         NEW real, Spare(t, h, o, real), real # u
  PROVE  /\ Apart(Released(t, R, u), Shifted(h, u, LowestFree(t)), o \ {u})
         /\ Spare(Released(t, R, u), Shifted(h, u, LowestFree(t)), o \ {u}, real)
         /\ ~Taken(Shifted(h, u, LowestFree(t)), u)
  <1>1. CASE Holds(R, u)
    <2>1. PICK n \in Fd : n = LowestFree(t) /\ t[n] = Closed
      BY <1>1, LowestFreeIsFree DEF DupFails, FreeFds
    <2>2. PICK z \in DOMAIN h : h[z] = u
      BY <1>1 DEF Taken
    <2>3. u \in Fd /\ t[u] # Closed /\ u # NoFd /\ u # n /\ NoFd \notin Fd
      BY <2>1, <2>2 DEF Apart, NoFd, Fd
    <2>4. PICK t1 : t1 = Released(t, R, u)
      OBVIOUS
    <2>5. \A m \in Fd : t1[m] = IF m = u THEN Closed ELSE IF m = n THEN t[u] ELSE t[m]
      <3>1. t1 = CloseFd(OpenAt(t, n, t[u]), u)
        BY <1>1, <2>1, <2>4 DEF Released, DupFails
      <3> QED
        BY <3>1 DEF CloseFd, OpenAt, Table
    <2>6. PICK g : g = Shifted(h, u, n)
      OBVIOUS
    <2>7. DOMAIN g = DOMAIN h /\ \A x \in DOMAIN h : g[x] = IF h[x] = u THEN n ELSE h[x]
      BY <2>6 DEF Shifted
    <2>8. \A x \in DOMAIN h : h[x] # n /\ (h[x] = u => x = z)
      BY <2>1, <2>2, <2>3 DEF Apart
    <2>9. n \notin o /\ u \notin o
      BY <2>1, <2>2, <2>3 DEF Apart
    <2>10. Apart(t1, g, o \ {u})
      <3>1. ASSUME NEW x \in DOMAIN h
            PROVE  /\ g[x] \in Fd \cup {NoFd}
                   /\ g[x] # NoFd => t1[g[x]] # Closed /\ g[x] \notin o \ {u}
                   /\ \A y \in DOMAIN h : g[x] # NoFd /\ g[x] = g[y] => x = y
        <4>1. CASE h[x] = u
          BY <2>1, <2>3, <2>5, <2>7, <2>8, <2>9, <4>1
        <4>2. CASE h[x] # u
          <5>1. /\ h[x] \in Fd \cup {NoFd} /\ g[x] = h[x] /\ h[x] # n
                /\ h[x] # NoFd => t[h[x]] # Closed /\ h[x] \notin o
                /\ \A y \in DOMAIN h : h[x] # NoFd /\ h[x] = h[y] => x = y
            BY <2>7, <2>8, <4>2 DEF Apart
          <5> QED
            BY <2>1, <2>5, <2>7, <4>2, <5>1
        <4> QED
          BY <4>1, <4>2
      <3>2. \A m \in o \ {u} : m \in Fd /\ t1[m] # Closed
        BY <2>1, <2>3, <2>5, <2>9 DEF Apart
      <3> QED
        BY <2>7, <3>1, <3>2 DEF Apart
    <2>11. Spare(t1, g, o \ {u}, real)
      BY <2>1, <2>3, <2>5, <2>7 DEF Spare, Taken
    <2>12. ~Taken(g, u)
      BY <2>3, <2>7 DEF Taken
    <2> QED
      BY <2>1, <2>4, <2>6, <2>10, <2>11, <2>12
  <1>2. CASE ~Holds(R, u)
    <2>1. Released(t, R, u) = t
      BY <1>2 DEF Released
    <2>2. PICK g : g = Shifted(h, u, LowestFree(t))
      OBVIOUS
    <2>3. DOMAIN g = DOMAIN h /\ \A x \in DOMAIN h : g[x] = h[x]
      BY <1>2, <2>2 DEF Taken, Shifted
    <2>4. Apart(t, g, o \ {u})
      BY <2>3 DEF Apart
    <2>5. Spare(t, g, o \ {u}, real)
      BY <2>3 DEF Spare, Taken
    <2>6. ~Taken(g, u)
      BY <1>2, <2>3 DEF Taken
    <2> QED
      BY <2>1, <2>2, <2>4, <2>5, <2>6
  <1> QED
    BY <1>1, <1>2

\* dodeferred, when it does not fail.
LEMMA ApartApplied ==
  ASSUME TypeOK, NEW t \in Table, NEW h, NEW o, Apart(t, h, o), NEW R, NEW u \in UserFds,
         Holds(R, u) <=> Taken(h, u),
         NEW real \in Fd \cup {NoFd}, Spare(t, h, o, real), Fits(t, R, real, u)
  PROVE  Apart(Applied(t, R, real, u), Shifted(h, u, LowestFree(t)), o \ {u})
  <1>1. u \in Nat /\ u # NoFd /\ NoFd \notin Fd
    BY RedirectAssumption DEF NoFd, Fd
  <1>2. CASE real = u
    <2>1. ~Taken(h, u)
      BY <1>1, <1>2 DEF Spare
    <2>2. Applied(t, R, real, u) = t
      BY <1>1, <1>2, <2>1 DEF Applied, Mvfd, Released
    <2>3. PICK g : g = Shifted(h, u, LowestFree(t))
      OBVIOUS
    <2>4. DOMAIN g = DOMAIN h /\ \A x \in DOMAIN h : g[x] = h[x]
      BY <2>1, <2>3 DEF Taken, Shifted
    <2>5. Apart(t, g, o \ {u})
      BY <2>4 DEF Apart
    <2> QED
      BY <2>2, <2>3, <2>5
  <1>3. CASE real # u
    <2>1. PICK t1, g, o1 : /\ t1 = Released(t, R, u) /\ g = Shifted(h, u, LowestFree(t))
                           /\ o1 = o \ {u}
      OBVIOUS
    <2>2. Apart(t1, g, o1) /\ Spare(t1, g, o1, real) /\ ~Taken(g, u)
      BY <1>1, <1>3, <2>1, ApartReleased DEF Fits
    <2>3. t1 \in Table
      BY <2>1, ReleasedType
    <2>4. CASE real = NoFd
      <3>1. Applied(t, R, real, u) = CloseFd(t1, u)
        BY <2>1, <2>4 DEF Applied
      <3>2. \A m \in Fd : CloseFd(t1, u)[m] = IF m = u THEN Closed ELSE t1[m]
        BY <2>3 DEF CloseFd, Table
      <3>3. Apart(CloseFd(t1, u), g, o1)
        BY <2>1, <2>2, <3>2 DEF Apart, Taken
      <3> QED
        BY <2>1, <3>1, <3>3
    <2>5. CASE real # NoFd
      <3>1. u \in Fd /\ real \in Fd
        BY <1>3, <2>5 DEF Fits, MvfdOk
      <3>2. PICK t2 : t2 = Applied(t, R, real, u)
        OBVIOUS
      <3>3. \A m \in Fd : t2[m] = IF m = real THEN Closed ELSE IF m = u THEN t1[real] ELSE t1[m]
        BY <1>3, <2>1, <2>3, <2>5, <3>1, <3>2 DEF Applied, Mvfd, Table
      <3>4. Apart(t2, g, o1)
        BY <2>1, <2>2, <2>5, <3>3 DEF Apart, Taken, Spare
      <3> QED
        BY <2>1, <3>2, <3>4
    <2> QED
      BY <2>4, <2>5
  <1> QED
    BY <1>2, <1>3

\* What dodeferred leaves open when it fails.
Left(t, R, real, u) ==
  {n \in {real} : n # NoFd} \cup {n \in {u} : DupFails(t, R, u)}

\* dodeferred, when it fails.
LEMMA ApartTorn ==
  ASSUME TypeOK, NEW t \in Table, NEW h, NEW o, Apart(t, h, o), NEW R, NEW u \in UserFds,
         Holds(R, u) <=> Taken(h, u),
         NEW real \in Fd \cup {NoFd}, Spare(t, h, o, real), ~Fits(t, R, real, u)
  PROVE  /\ Apart(Released(t, R, u), Shifted(h, u, LowestFree(t)), o \cup Left(t, R, real, u))
         /\ real # u
  <1>1. u \in Nat /\ u # NoFd /\ NoFd \notin Fd
    BY RedirectAssumption DEF NoFd, Fd
  <1>2. real # u
    <2>1. SUFFICES ASSUME real = u PROVE FALSE
      OBVIOUS
    <2>2. ~Taken(h, u)
      BY <1>1, <2>1 DEF Spare
    <2> QED
      BY <2>1, <2>2 DEF Fits, DupFails, MvfdOk
  <1>3. CASE DupFails(t, R, u)
    <2>1. Released(t, R, u) = t /\ LowestFree(t) = NoFd
      BY <1>3 DEF DupFails, Released, LowestFree
    <2>2. PICK g : g = Shifted(h, u, NoFd)
      OBVIOUS
    <2>3. DOMAIN g = DOMAIN h /\ \A x \in DOMAIN h : g[x] = IF h[x] = u THEN NoFd ELSE h[x]
      BY <2>2 DEF Shifted
    <2>4. PICK z \in DOMAIN h : h[z] = u
      BY <1>3 DEF DupFails, Taken
    <2>5. u \in Fd /\ t[u] # Closed
      BY <1>1, <2>4 DEF Apart
    <2>6. PICK left : left = Left(t, R, real, u)
      OBVIOUS
    <2>7. \A n \in left : /\ n \in Fd /\ t[n] # Closed
                          /\ \A x \in DOMAIN g : g[x] # n
      BY <1>1, <2>3, <2>5, <2>6 DEF Left, Spare, Taken
    <2>8. Apart(t, g, o \cup left)
      BY <2>3, <2>7 DEF Apart
    <2> QED
      BY <1>2, <2>1, <2>2, <2>6, <2>8
  <1>4. CASE ~DupFails(t, R, u)
    <2>1. PICK t1, g, left : /\ t1 = Released(t, R, u) /\ g = Shifted(h, u, LowestFree(t))
                             /\ left = Left(t, R, real, u)
      OBVIOUS
    <2>2. Apart(t1, g, o \ {u}) /\ Spare(t1, g, o \ {u}, real) /\ ~Taken(g, u)
      BY <1>1, <1>2, <1>4, <2>1, ApartReleased
    <2>3. \A n \in left : n = real /\ n # NoFd
      BY <1>4, <2>1 DEF Left
    <2>4. u \in o => t1[u] # Closed
      <3>1. u \in o => ~Taken(h, u)
        BY <1>1 DEF Apart, Taken
      <3>2. u \in o => t1 = t
        BY <2>1, <3>1 DEF Released
      <3> QED
        BY <3>2 DEF Apart
    <2>5. \A n \in o : n \in Fd
      BY DEF Apart
    <2>6. Apart(t1, g, o \cup left)
      BY <2>2, <2>3, <2>4, <2>5 DEF Apart, Spare, Taken
    <2> QED
      BY <1>2, <2>1, <2>6
  <1> QED
    BY <1>3, <1>4

-----------------------------------------------------------------------------
(***************************************************************************)
(* What the steps do to held.                                              *)
(***************************************************************************)
\* also after a step.
LEMMA HeldNext == HeldRight'
  BY HeldIs, PTL

\* The list R registers exactly the owners in P.
Registers(R, P) ==
  R = {HistoryPtr} \cup {InputPtr(k) : k \in Dots} \cup {Slot(defmax, i) : i \in P}

OwnersOf(P) == {DeferralAt(i) : i \in P} \cup {InputAt(k) : k \in Dots} \cup {History}

\* What those of them hold.
HeldBy(P) == [x \in OwnersOf(P) |-> held[x]]

\* They hold what held says they do.
LEMMA HeldByIs ==
  ASSUME NEW P \in SUBSET Pending
  PROVE  /\ DOMAIN HeldBy(P) = OwnersOf(P)
         /\ \A i \in P : DeferralAt(i) \in OwnersOf(P) /\ HeldBy(P)[DeferralAt(i)] = deftab[i].realfd
         /\ \A k \in Dots : InputAt(k) \in OwnersOf(P) /\ HeldBy(P)[InputAt(k)] = frames[k].n
         /\ History \in OwnersOf(P) /\ HeldBy(P)[History] = historyfd
         /\ \A x \in OwnersOf(P) : x \in DOMAIN held /\ HeldBy(P)[x] = held[x]
  <1>1. \A x \in OwnersOf(P) : x \in DOMAIN held /\ HeldBy(P)[x] = held[x]
    BY HeldIs DEF HeldBy, OwnersOf, HeldRight
  <1>2. \A i \in P : DeferralAt(i) \in OwnersOf(P)
    BY DEF OwnersOf
  <1>3. \A k \in Dots : InputAt(k) \in OwnersOf(P)
    BY DEF OwnersOf
  <1>4. History \in OwnersOf(P)
    BY DEF OwnersOf
  <1>5. DOMAIN HeldBy(P) = OwnersOf(P)
    BY DEF HeldBy
  <1> QED
    BY <1>1, <1>2, <1>3, <1>4, <1>5, HeldIs DEF HeldRight

\* releasefd finds u through the list exactly when one of them holds it,
LEMMA HoldsIsTaken ==
  ASSUME TypeOK, NEW P \in SUBSET Pending, NEW R, Registers(R, P), NEW u
  PROVE  Holds(R, u) <=> Taken(HeldBy(P), u)
  <1>1. \A i \in DOMAIN deftab : Slot(defmax, i) \in R <=> i \in P
    BY PointersDiffer DEF Registers
  <1>2. \A k \in Dots : InputPtr(k) \in R
    BY DEF Registers
  <1>3. HistoryPtr \in R
    BY DEF Registers
  <1>4. P \subseteq DOMAIN deftab
    BY DEF Pending, TypeOK
  <1>5. SlotsHolding(R, u) # {} <=> \E i \in P : deftab[i].realfd = u
    BY <1>1, <1>4 DEF SlotsHolding
  <1>6. InputsHolding(R, u) # {} <=> \E k \in Dots : frames[k].n = u
    BY <1>2 DEF InputsHolding
  <1>7. HistoryHolds(R, u) <=> historyfd = u
    BY <1>3 DEF HistoryHolds
  <1>8. Taken(HeldBy(P), u) <=> \/ \E i \in P : deftab[i].realfd = u
                                \/ \E k \in Dots : frames[k].n = u
                                \/ historyfd = u
    <2>1. \A x \in OwnersOf(P) : \/ \E i \in P : x = DeferralAt(i)
                                 \/ \E k \in Dots : x = InputAt(k)
                                 \/ x = History
      BY DEF OwnersOf
    <2>2. PICK h : h = HeldBy(P)
      OBVIOUS
    <2>3. /\ DOMAIN h = OwnersOf(P)
          /\ \A i \in P : DeferralAt(i) \in OwnersOf(P) /\ h[DeferralAt(i)] = deftab[i].realfd
          /\ \A k \in Dots : InputAt(k) \in OwnersOf(P) /\ h[InputAt(k)] = frames[k].n
          /\ History \in OwnersOf(P) /\ h[History] = historyfd
      BY <2>2, HeldByIs
    <2> QED
      BY <2>1, <2>2, <2>3 DEF Taken
  <1> QED
    BY <1>5, <1>6, <1>7, <1>8 DEF Holds

\* and gives each of those its new number.
LEMMA HeldShifted ==
  ASSUME TypeOK, NEW P \in SUBSET Pending, NEW R, Registers(R, P), NEW u, NEW n,
         Dots' = Dots, historyfd' = IF HistoryHolds(R, u) THEN n ELSE historyfd,
         \A i \in DOMAIN deftab :
           deftab'[i].realfd = IF i \in SlotsHolding(R, u) THEN n ELSE deftab[i].realfd,
         \A k \in Dots : frames'[k].n = IF k \in InputsHolding(R, u) THEN n ELSE frames[k].n,
         P \subseteq Pending'
  PROVE  /\ OwnersOf(P) \subseteq DOMAIN held'
         /\ \A x \in OwnersOf(P) : held'[x] = Shifted(HeldBy(P), u, n)[x]
         /\ DOMAIN Shifted(HeldBy(P), u, n) = OwnersOf(P)
  <1>1. \A i \in DOMAIN deftab : Slot(defmax, i) \in R <=> i \in P
    BY PointersDiffer DEF Registers
  <1>2. (\A k \in Dots : InputPtr(k) \in R) /\ HistoryPtr \in R
    BY DEF Registers
  <1>3. P \subseteq DOMAIN deftab
    BY DEF Pending, TypeOK
  <1>4. PICK g : g = Shifted(HeldBy(P), u, n)
    OBVIOUS
  <1>5. DOMAIN g = OwnersOf(P)
        /\ \A x \in OwnersOf(P) : g[x] = IF HeldBy(P)[x] = u THEN n ELSE HeldBy(P)[x]
    BY <1>4, HeldByIs DEF Shifted
  <1>6. ASSUME NEW i \in P
        PROVE  DeferralAt(i) \in DOMAIN held' /\ held'[DeferralAt(i)] = g[DeferralAt(i)]
    <2>1. DeferralAt(i) \in DOMAIN held' /\ held'[DeferralAt(i)] = deftab'[i].realfd
      BY HeldNext DEF HeldRight
    <2>2. deftab'[i].realfd = IF deftab[i].realfd = u THEN n ELSE deftab[i].realfd
      BY <1>1, <1>3 DEF SlotsHolding
    <2> QED
      BY <1>5, <2>1, <2>2, HeldByIs
  <1>7. ASSUME NEW k \in Dots
        PROVE  InputAt(k) \in DOMAIN held' /\ held'[InputAt(k)] = g[InputAt(k)]
    <2>1. InputAt(k) \in DOMAIN held' /\ held'[InputAt(k)] = frames'[k].n
      BY HeldNext DEF HeldRight
    <2>2. frames'[k].n = IF frames[k].n = u THEN n ELSE frames[k].n
      BY <1>2 DEF InputsHolding
    <2> QED
      BY <1>5, <2>1, <2>2, HeldByIs
  <1>8. History \in DOMAIN held' /\ held'[History] = g[History]
    <2>1. History \in DOMAIN held' /\ held'[History] = historyfd'
      BY HeldNext DEF HeldRight
    <2>2. historyfd' = IF historyfd = u THEN n ELSE historyfd
      BY <1>2 DEF HistoryHolds
    <2> QED
      BY <1>5, <2>1, <2>2, HeldByIs
  <1> QED
    BY <1>4, <1>5, <1>6, <1>7, <1>8 DEF OwnersOf

\* Outside remapfds every owner is on the list.
LEMMA AllRegistered ==
  ASSUME IInv, pc = "run"
  PROVE  Registers(reserved, Pending) /\ OwnersOf(Pending) = DOMAIN held /\ HeldBy(Pending) = held
  <1>1. Registers(reserved, Pending)
    BY DEF IInv, ReservedExact, Registers
  <1>2. OwnersOf(Pending) = Owners
    BY DEF OwnersOf, Owners
  <1>3. HeldBy(Pending) = held
    BY <1>2 DEF HeldBy, held
  <1> QED
    BY <1>1, <1>2, <1>3, HeldIs DEF HeldRight

OwnersIn(P, K) == {DeferralAt(i) : i \in P} \cup {InputAt(k) : k \in K} \cup {History}

\* Owners that a step does not write keep their number.
LEMMA HeldStays ==
  ASSUME NEW P \in SUBSET Pending, NEW K \in SUBSET Dots,
         P \subseteq Pending', K \subseteq Dots', historyfd' = historyfd,
         \A i \in P : deftab'[i].realfd = deftab[i].realfd,
         \A k \in K : frames'[k].n = frames[k].n
  PROVE  \A x \in OwnersIn(P, K) : x \in DOMAIN held /\ x \in DOMAIN held' /\ held'[x] = held[x]
  <1>1. ASSUME NEW i \in P PROVE DeferralAt(i) \in DOMAIN held /\ DeferralAt(i) \in DOMAIN held'
                                 /\ held'[DeferralAt(i)] = held[DeferralAt(i)]
    BY HeldIs, HeldNext DEF HeldRight
  <1>2. ASSUME NEW k \in K PROVE InputAt(k) \in DOMAIN held /\ InputAt(k) \in DOMAIN held'
                                 /\ held'[InputAt(k)] = held[InputAt(k)]
    BY HeldIs, HeldNext DEF HeldRight
  <1>3. History \in DOMAIN held /\ History \in DOMAIN held' /\ held'[History] = held[History]
    BY HeldIs, HeldNext DEF HeldRight
  <1> QED
    BY <1>1, <1>2, <1>3 DEF OwnersIn

\* The owners, before a step and after it.
LEMMA DomainHeld ==
  /\ DOMAIN held = OwnersIn(Pending, Dots)
  /\ DOMAIN held' = OwnersIn(Pending', Dots')
  BY HeldIs, HeldNext DEF HeldRight, Owners, OwnersIn

\* x starts to hold n, or what x held is closed; the other owners stay.
Takes(x, n) ==
  /\ x \in DOMAIN held => held[x] = NoFd
  /\ DOMAIN held' = DOMAIN held \cup {x}
  /\ held'[x] = n
  /\ \A y \in DOMAIN held \ {x} : held'[y] = held[y]

Leaves(x) ==
  /\ DOMAIN held' \subseteq DOMAIN held /\ DOMAIN held \ {x} \subseteq DOMAIN held'
  /\ \A y \in DOMAIN held' : held'[y] = IF y = x THEN NoFd ELSE held[y]

Opens(x) ==
  \E n \in FreeFds(fdt), file \in Files :
    fdt' = OpenAt(fdt, n, file) /\ orphans' = orphans /\ Takes(x, n)

Closes(x) ==
  x \in DOMAIN held /\ fdt' = CloseFd(fdt, held[x]) /\ orphans' = orphans /\ Leaves(x)

Idles ==
  /\ UNCHANGED <<fdt, orphans>> /\ DOMAIN held' = DOMAIN held
  /\ \A x \in DOMAIN held : held'[x] = held[x]

\* None of these mixes the owners up.
LEMMA OwnStepsApart ==
  ASSUME OInv, Idles \/ \E x : Opens(x) \/ Closes(x)
  PROVE  Apart(fdt', held', orphans')
  <1>1. fdt \in Table /\ Apart(fdt, held, orphans)
    BY DEF OInv, IInv, TypeOK
  <1>2. CASE Idles
    BY <1>1, <1>2, ApartFewer DEF Idles
  <1>3. ASSUME NEW x, Opens(x) PROVE Apart(fdt', held', orphans')
    <2>1. PICK n \in FreeFds(fdt), file \in Files :
            fdt' = OpenAt(fdt, n, file) /\ orphans' = orphans /\ Takes(x, n)
      BY <1>3 DEF Opens
    <2>2. Apart(OpenAt(fdt, n, file), held', orphans)
      BY <1>1, <2>1, ApartAdd DEF Takes
    <2> QED
      BY <2>1, <2>2
  <1>4. ASSUME NEW x, Closes(x) PROVE Apart(fdt', held', orphans')
    <2>1. x \in DOMAIN held /\ fdt' = CloseFd(fdt, held[x]) /\ orphans' = orphans /\ Leaves(x)
      BY <1>4 DEF Closes
    <2>2. Apart(CloseFd(fdt, held[x]), held', orphans)
      BY <1>1, <2>1, ApartDrop DEF Leaves
    <2> QED
      BY <2>1, <2>2
  <1> QED
    BY <1>2, <1>3, <1>4

\* A deferral takes what was spare.
LEMMA ApartJoin ==
  ASSUME NEW t, NEW h, NEW o, Apart(t, h, o), NEW real \in Fd \cup {NoFd}, Spare(t, h, o, real),
         NEW g, NEW x, x \notin DOMAIN h, DOMAIN g = DOMAIN h \cup {x}, g[x] = real,
         \A y \in DOMAIN h : g[y] = h[y]
  PROVE  Apart(t, g, o)
  BY DEF Apart, Spare, Taken

\* In the first shell only its input has a descriptor.
LEMMA InitApart == ASSUME Init, IInv PROVE Apart(fdt, held, orphans)
  <1>1. Pending = {} /\ Dots = {1} /\ historyfd = NoFd /\ orphans = {}
    BY DEF Init, Pending, Dots
  <1>2. frames[1].n \in {0, 3} /\ fdt[frames[1].n] # Closed /\ frames[1].n \in Fd
    BY TableAssumption, RedirectAssumption DEF Init, Fd
  <1>3. DOMAIN held = {InputAt(1), History} /\ held[InputAt(1)] = frames[1].n
        /\ held[History] = NoFd
    BY <1>1, HeldIs, DomainHeld DEF HeldRight, OwnersIn
  <1> QED
    BY <1>1, <1>2, <1>3 DEF Apart

\* Redirections.
LEMMA DeferTakes ==
  ASSUME OInv, pc = "run", NEW t \in Table, NEW real \in Fd \cup {NoFd}, NEW u \in UserFds,
         Defer(t, real, u)
  PROVE  LET x == DeferralAt(Len(deftab) + 1) IN
           x \notin DOMAIN held /\ Takes(x, real) /\ fdt' = t /\ orphans' = orphans
  <1>1. PICK i \in Nat : i = Len(deftab)
    BY DEF OInv, IInv, TypeOK
  <1>2. /\ fdt' = t /\ deftab' = Append(deftab, [realfd |-> real, userfd |-> u])
        /\ frames' = Append(frames, [kind |-> "redir", n |-> i])
        /\ UNCHANGED <<historyfd, at, orphans>>
    BY <1>1 DEF Defer, Enter
  <1>3. SameFrames(frames) /\ [kind |-> "redir", n |-> i] \in FrameType
    BY <1>1 DEF SameFrames, OInv, IInv, TypeOK, Dots, FrameType
  <1>4. Dots' = Dots /\ \A k \in Dots : frames'[k].n = frames[k].n
    <2>1. Dots' = Dots
      BY <1>2, <1>3, FramesPushed DEF OInv, IInv
    <2> QED
      BY <1>2, <2>1 DEF Dots, OInv, IInv, TypeOK
  <1>5. at = 0
    BY DEF OInv, IInv, AtRight
  <1>6. deftab' \in Seq(Deferral) /\ Len(deftab') = i + 1 /\ deftab'[i + 1].realfd = real
        /\ \A j \in 1 .. i : deftab'[j] = deftab[j]
    BY <1>1, <1>2 DEF OInv, IInv, TypeOK, Deferral
  <1>7. Pending = 1 .. i /\ Pending' = Pending \cup {i + 1} /\ i + 1 \notin Pending
    BY <1>1, <1>2, <1>5, <1>6 DEF Pending
  <1>8. \A x \in OwnersIn(Pending, Dots) : held'[x] = held[x]
    BY <1>2, <1>4, <1>6, <1>7, HeldStays
  <1>9. PICK x : x = DeferralAt(i + 1)
    OBVIOUS
  <1>10. x \notin DOMAIN held /\ DOMAIN held' = DOMAIN held \cup {x}
    BY <1>4, <1>7, <1>9, DomainHeld, OwnersDiffer DEF OwnersIn
  <1>11. held'[x] = real
    BY <1>6, <1>7, <1>9, HeldNext DEF HeldRight
  <1> QED
    BY <1>1, <1>2, <1>8, <1>9, <1>10, <1>11, DomainHeld DEF Takes

\* so the owners stay apart.
LEMMA DeferApart ==
  ASSUME OInv, pc = "run", NEW t \in Table, NEW real \in Fd \cup {NoFd}, NEW u \in UserFds,
         Apart(t, held, orphans), Spare(t, held, orphans, real), Defer(t, real, u)
  PROVE  Apart(fdt', held', orphans')
  <1>1. PICK x : x \notin DOMAIN held /\ Takes(x, real) /\ fdt' = t /\ orphans' = orphans
    BY DeferTakes
  <1> QED
    BY <1>1, ApartJoin DEF Takes

\* What pushdefer moves at once.
LEMMA MovedShift ==
  ASSUME OInv, pc = "run", NEW t, NEW u, UNCHANGED at, Len(deftab') = Len(deftab),
         Dots' = Dots,
         \A i \in DOMAIN deftab :
           deftab'[i] = IF i \in SlotsHolding(reserved, u)
                          THEN [deftab[i] EXCEPT !.realfd = LowestFree(t)] ELSE deftab[i],
         \A k \in Dots : 
           frames'[k] = IF k \in InputsHolding(reserved, u)
                          THEN [frames[k] EXCEPT !.n = LowestFree(t)] ELSE frames[k],
         historyfd' = IF HistoryHolds(reserved, u) THEN LowestFree(t) ELSE historyfd
  PROVE  /\ DOMAIN held' = DOMAIN Shifted(held, u, LowestFree(t))
         /\ \A x \in DOMAIN held' : held'[x] = Shifted(held, u, LowestFree(t))[x]
         /\ Holds(reserved, u) <=> Taken(held, u)
  <1>1. PICK n : n = LowestFree(t)
    OBVIOUS
  <1>2. TypeOK /\ IInv
    BY DEF OInv, IInv
  <1>3. Registers(reserved, Pending) /\ OwnersOf(Pending) = DOMAIN held /\ HeldBy(Pending) = held
    BY <1>2, AllRegistered
  <1>4. Pending' = Pending
    BY DEF Pending
  <1>5. ASSUME NEW i \in DOMAIN deftab
        PROVE  deftab'[i].realfd = IF i \in SlotsHolding(reserved, u) THEN n ELSE deftab[i].realfd
    <2>1. deftab[i] \in Deferral
      BY <1>2 DEF TypeOK
    <2>2. [deftab[i] EXCEPT !.realfd = n].realfd = n
      BY <2>1 DEF Deferral
    <2> QED
      BY <1>1, <2>2
  <1>6. ASSUME NEW k \in Dots
        PROVE  frames'[k].n = IF k \in InputsHolding(reserved, u) THEN n ELSE frames[k].n
    <2>1. frames[k] \in FrameType
      BY <1>2 DEF Dots, TypeOK
    <2>2. [frames[k] EXCEPT !.n = n].n = n
      BY <2>1 DEF FrameType
    <2> QED
      BY <1>1, <2>2
  <1>7. Holds(reserved, u) <=> Taken(held, u)
    BY <1>2, <1>3, HoldsIsTaken
  <1>8. \A x \in OwnersOf(Pending) : held'[x] = Shifted(HeldBy(Pending), u, n)[x]
        /\ DOMAIN Shifted(HeldBy(Pending), u, n) = OwnersOf(Pending)
    BY <1>1, <1>2, <1>3, <1>4, <1>5, <1>6, HeldShifted
  <1>9. DOMAIN held' = OwnersOf(Pending) /\ DOMAIN Shifted(held, u, n) = DOMAIN held
    BY <1>4, DomainHeld DEF OwnersIn, OwnersOf, Shifted
  <1> QED
    BY <1>1, <1>3, <1>7, <1>8, <1>9

\* pushdefer, when it moves the descriptor at once,
LEMMA MoveNowApart ==
  ASSUME OInv, pc = "run", NEW t \in Table, NEW real \in Fd \cup {NoFd}, NEW u \in UserFds,
         Apart(t, held, orphans), Spare(t, held, orphans, real), MoveNow(t, real, u)
  PROVE  Apart(fdt', held', orphans')
  <1>1. PICK n \in Fd \cup {NoFd} : n = LowestFree(t)
    BY LowestFreeType
  <1>2. PICK fs : fs = [k \in DOMAIN frames |->
                          IF k \in InputsHolding(reserved, u)
                            THEN [frames[k] EXCEPT !.n = n] ELSE frames[k]]
    OBVIOUS
  <1>3. TypeOK /\ SameFrames(fs)
    BY <1>2, MovedFrames, Zenon DEF OInv, IInv
  <1>4. frames' = Append(fs, [kind |-> "redir", n |-> UNREGISTERED])
    BY <1>1, <1>2, Zenon DEF MoveNow, MovedTicket
  <1>5. Dots' = Dots
    <2>1. [kind |-> "redir", n |-> UNREGISTERED] \in FrameType
      BY DEF FrameType, UNREGISTERED
    <2> QED
      BY <1>3, <1>4, <2>1, FramesPushed
  <1>6. \A k \in Dots : frames'[k] = fs[k]
    BY <1>3, <1>4 DEF Dots, SameFrames, TypeOK
  <1>7. /\ fdt' = Applied(t, reserved, real, u) /\ Fits(t, reserved, real, u)
        /\ orphans' = orphans \ {u} /\ UNCHANGED at
        /\ historyfd' = IF HistoryHolds(reserved, u) THEN n ELSE historyfd
    BY <1>1 DEF MoveNow
  <1>8. deftab' = [i \in DOMAIN deftab |->
                     IF i \in SlotsHolding(reserved, u)
                       THEN [deftab[i] EXCEPT !.realfd = n] ELSE deftab[i]]
    BY <1>1, Zenon DEF MoveNow
  <1>9. Len(deftab') = Len(deftab)
    <2>1. SameDeferrals(deftab')
      BY <1>1, <1>3, <1>8, MovedDeferrals, Zenon
    <2> QED
      BY <2>1 DEF SameDeferrals
  <1>10. \A k \in Dots : frames'[k] = IF k \in InputsHolding(reserved, u)
                            THEN [frames[k] EXCEPT !.n = n] ELSE frames[k]
    BY <1>2, <1>6 DEF Dots
  <1>11. /\ DOMAIN held' = DOMAIN Shifted(held, u, LowestFree(t))
         /\ \A x \in DOMAIN held' : held'[x] = Shifted(held, u, LowestFree(t))[x]
         /\ Holds(reserved, u) <=> Taken(held, u)
    BY <1>1, <1>5, <1>7, <1>8, <1>9, <1>10, MovedShift
  <1>12. Apart(Applied(t, reserved, real, u), Shifted(held, u, LowestFree(t)), orphans \ {u})
    BY <1>3, <1>7, <1>11, ApartApplied
  <1> QED
    BY <1>7, <1>11, <1>12, ApartFewer

\* and when that fails.
LEMMA MoveFailsApart ==
  ASSUME OInv, pc = "run", NEW t \in Table, NEW real \in Fd \cup {NoFd}, NEW u \in UserFds,
         Apart(t, held, orphans), Spare(t, held, orphans, real), MoveFails(t, real, u)
  PROVE  Apart(fdt', held', orphans')
  <1>1. PICK n \in Fd \cup {NoFd} : n = LowestFree(t)
    BY LowestFreeType
  <1>2. /\ fdt' = Released(t, reserved, u) /\ ~Fits(t, reserved, real, u)
        /\ orphans' = orphans \cup Left(t, reserved, real, u) /\ UNCHANGED at
        /\ MoveHolders(t, reserved, u)
    BY Zenon DEF MoveFails, Left
  <1>3. TypeOK /\ SameDeferrals(deftab') /\ SameFrames(frames')
    BY <1>2, MoveHoldersSame DEF OInv, IInv
  <1>4. Dots' = Dots
    BY <1>3, FramesSame
  <1>5. deftab' = [i \in DOMAIN deftab |->
                     IF i \in SlotsHolding(reserved, u)
                       THEN [deftab[i] EXCEPT !.realfd = n] ELSE deftab[i]]
    BY <1>1, <1>2, Zenon DEF MoveHolders
  <1>6. frames' = [k \in DOMAIN frames |->
                     IF k \in InputsHolding(reserved, u)
                       THEN [frames[k] EXCEPT !.n = n] ELSE frames[k]]
    BY <1>1, <1>2, Zenon DEF MoveHolders
  <1>7. historyfd' = IF HistoryHolds(reserved, u) THEN n ELSE historyfd
    BY <1>1, <1>2 DEF MoveHolders
  <1>8. /\ DOMAIN held' = DOMAIN Shifted(held, u, LowestFree(t))
        /\ \A x \in DOMAIN held' : held'[x] = Shifted(held, u, LowestFree(t))[x]
        /\ Holds(reserved, u) <=> Taken(held, u)
    <2>1. Len(deftab') = Len(deftab)
      BY <1>3 DEF SameDeferrals
    <2>2. \A k \in Dots : frames'[k] = IF k \in InputsHolding(reserved, u)
                            THEN [frames[k] EXCEPT !.n = n] ELSE frames[k]
      BY <1>6 DEF Dots
    <2> QED
      BY <1>1, <1>2, <1>4, <1>5, <1>7, <2>1, <2>2, MovedShift
  <1>9. Apart(Released(t, reserved, u), Shifted(held, u, LowestFree(t)), orphans')
    BY <1>2, <1>3, <1>8, ApartTorn
  <1> QED
    BY <1>2, <1>8, <1>9, ApartFewer

\* What an open or a dup leaves to redir.
LEMMA OpenedSpare ==
  ASSUME OInv, FreeFds(fdt) # {}, NEW file \in Files, NEW n, n = LowestFree(fdt)
  PROVE  Apart(OpenAt(fdt, n, file), held, orphans) /\ Spare(OpenAt(fdt, n, file), held, orphans, n)
  <1>1. n \in Fd /\ fdt[n] = Closed /\ file # Closed /\ n # NoFd /\ fdt \in Table
    BY LowestFreeIsFree, TableAssumption DEF FreeFds, Fd, NoFd, OInv, IInv, TypeOK
  <1>2. \A m \in Fd : OpenAt(fdt, n, file)[m] = IF m = n THEN file ELSE fdt[m]
    BY <1>1 DEF OpenAt, Table
  <1>3. (\A x \in DOMAIN held : held[x] # n) /\ n \notin orphans
    BY <1>1 DEF OInv, Apart
  <1>4. Apart(OpenAt(fdt, n, file), held, orphans)
    BY <1>1, <1>2, <1>3 DEF OInv, Apart
  <1> QED
    BY <1>1, <1>2, <1>3, <1>4 DEF Spare, Taken

\* redir keeps the owners apart, in any of its three ways,
LEMMA RedirApart ==
  ASSUME OInv, pc = "run", NEW t \in Table, NEW real \in Fd \cup {NoFd}, NEW u \in UserFds,
         Apart(t, held, orphans), Spare(t, held, orphans, real), Redir(t, real, u)
  PROVE  Apart(fdt', held', orphans')
  BY DeferApart, MoveNowApart, MoveFailsApart DEF Redir

\* after %open and its relatives,
LEMMA OpenFileApart ==
  ASSUME OInv, NEW u \in UserFds, NEW file \in UserFiles, OpenFile(u, file)
  PROVE  Apart(fdt', held', orphans')
  <1>1. PICK n : n = LowestFree(fdt)
    OBVIOUS
  <1>2. /\ pc = "run" /\ FreeFds(fdt) # {} /\ file \in Files /\ n \in Fd
        /\ Redir(OpenAt(fdt, n, file), n, u) /\ OpenAt(fdt, n, file) \in Table
    BY <1>1, OpenedType, RedirectAssumption DEF OpenFile, Running, OInv
  <1>3. Apart(OpenAt(fdt, n, file), held, orphans) /\ Spare(OpenAt(fdt, n, file), held, orphans, n)
    BY <1>1, <1>2, OpenedSpare
  <1> QED
    BY <1>2, <1>3, RedirApart

\* after %dup,
LEMMA DupFdApart ==
  ASSUME OInv, NEW u \in UserFds, NEW o \in UserFds, DupFd(u, o)
  PROVE  Apart(fdt', held', orphans')
  <1>1. PICK s \in Fd : s = FdMap(o) /\ fdt[s] # Closed
    BY DEF DupFd
  <1>2. PICK n, file : n = LowestFree(fdt) /\ file = fdt[s]
    OBVIOUS
  <1>3. file \in Files
    BY <1>1, <1>2 DEF OInv, IInv, TypeOK, Table
  <1>4. /\ pc = "run" /\ FreeFds(fdt) # {} /\ n \in Fd
        /\ Redir(OpenAt(fdt, n, file), n, u) /\ OpenAt(fdt, n, file) \in Table
    BY <1>1, <1>2, <1>3, OpenedType DEF DupFd, Running, OInv
  <1>5. Apart(OpenAt(fdt, n, file), held, orphans) /\ Spare(OpenAt(fdt, n, file), held, orphans, n)
    BY <1>2, <1>3, <1>4, OpenedSpare
  <1> QED
    BY <1>4, <1>5, RedirApart

\* and after %close.
LEMMA CloseUserApart ==
  ASSUME OInv, NEW u \in UserFds, CloseUser(u)
  PROVE  Apart(fdt', held', orphans')
  <1>1. pc = "run" /\ Redir(fdt, NoFd, u) /\ fdt \in Table
    BY DEF CloseUser, Running, OInv, IInv, TypeOK
  <1>2. Apart(fdt, held, orphans) /\ Spare(fdt, held, orphans, NoFd)
    BY DEF OInv, Spare
  <1> QED
    BY <1>1, <1>2, RedirApart

\* undefer closes the descriptor of the deferral it drops, and nothing else.
LEMMA LeaveRedirCloses ==
  ASSUME OInv, LeaveRedir
  PROVE  IF Top.n = UNREGISTERED THEN Idles ELSE Closes(DeferralAt(Len(deftab)))
  <1> DEFINE last == Len(frames)
  <1>1. /\ pc = "run" /\ frames # <<>> /\ Top.kind = "redir"
        /\ frames' = SubSeq(frames, 1, last - 1)
        /\ UNCHANGED <<defmax, historyfd, forks, pc, at, orphans>>
    BY DEF LeaveRedir
  <1>2. Dots' = Dots \ {last} /\ last \in DOMAIN frames /\ Top = frames[last]
    BY <1>1, FramesPopped DEF OInv, IInv
  <1>3. Dots' = Dots /\ \A k \in Dots : frames'[k].n = frames[k].n
    <2>1. Dots' = Dots
      BY <1>1, <1>2 DEF Dots
    <2>2. last \notin Dots /\ frames \in Seq(FrameType) /\ \A k \in Dots : k \in DOMAIN frames
      BY <1>1, <1>2 DEF Dots, OInv, IInv, TypeOK
    <2>3. \A k \in Dots : frames'[k] = frames[k]
      BY <1>1, <2>2
    <2> QED
      BY <2>1, <2>3
  <1>4. at = 0 /\ Len(deftab) \in Nat /\ fdt \in Table
    BY <1>1 DEF OInv, IInv, AtRight, TypeOK
  <1>5. CASE Top.n = UNREGISTERED
    <2>1. UNCHANGED <<fdt, deftab>>
      BY <1>5 DEF LeaveRedir
    <2>2. Pending' = Pending
      BY <1>1, <2>1 DEF Pending
    <2>3. DOMAIN held' = DOMAIN held /\ \A x \in DOMAIN held : held'[x] = held[x]
      BY <1>1, <1>3, <2>1, <2>2, HeldStays, DomainHeld
    <2> QED
      BY <1>1, <1>5, <2>1, <2>3 DEF Idles
  <1>6. CASE Top.n # UNREGISTERED
    <2>1. PICK d \in Nat : d = Len(deftab)
      BY <1>4
    <2>2. fdt' = CloseFd(fdt, deftab[d].realfd) /\ deftab' = SubSeq(deftab, 1, d - 1)
      BY <1>6, <2>1 DEF LeaveRedir, Undeferred
    <2>3. d >= 1
      <3>1. last \in Ticketed
        BY <1>1, <1>2, <1>6 DEF Ticketed
      <3>2. frames[last].n \in 0 .. (d - 1)
        BY <1>1, <2>1, <3>1 DEF OInv, IInv, TicketsInOrder
      <3> QED
        BY <2>1, <3>2
    <2>4. Len(deftab') = d - 1 /\ \A i \in 1 .. (d - 1) : deftab'[i] = deftab[i]
      <3>1. deftab \in Seq(Deferral)
        BY DEF OInv, IInv, TypeOK
      <3> QED
        BY <2>1, <2>2, <2>3, <3>1
    <2>5. Pending = 1 .. d /\ Pending' = 1 .. (d - 1)
      BY <1>1, <1>4, <2>1, <2>4 DEF Pending
    <2>6. PICK x : x = DeferralAt(d)
      OBVIOUS
    <2>7. x \in DOMAIN held /\ held[x] = deftab[d].realfd
      BY <2>3, <2>5, <2>6, HeldIs DEF HeldRight
    <2>8. DOMAIN held' \subseteq DOMAIN held /\ x \notin DOMAIN held'
      BY <1>3, <2>3, <2>5, <2>6, DomainHeld, OwnersDiffer DEF OwnersIn
    <2>9. \A y \in DOMAIN held' : held'[y] = held[y]
      <3>1. 1 .. (d - 1) \in SUBSET Pending
        BY <2>1, <2>5
      <3> QED
        BY <1>1, <1>3, <2>4, <2>5, <3>1, HeldStays, DomainHeld
    <2>10. DOMAIN held \ {x} \subseteq DOMAIN held'
      BY <1>3, <2>3, <2>5, <2>6, DomainHeld DEF OwnersIn
    <2>11. Leaves(x)
      BY <2>8, <2>9, <2>10 DEF Leaves
    <2> QED
      BY <1>1, <1>6, <2>1, <2>2, <2>6, <2>7, <2>11 DEF Closes
  <1> QED
    BY <1>5, <1>6

\* The shell's own descriptors.
\* runfd has a new descriptor and a new owner for it.
LEMMA DotOpens ==
  ASSUME OInv, Dot PROVE Opens(InputAt(Len(frames) + 1))
  <1>1. PICK n \in FreeFds(fdt) : n = LowestFree(fdt)
    BY LowestFreeIsFree DEF Dot
  <1>2. /\ pc = "run" /\ fdt' = OpenAt(fdt, n, ShellFile)
        /\ frames' = Append(frames, [kind |-> "dot", n |-> n])
        /\ UNCHANGED <<deftab, historyfd, at, orphans>>
    BY <1>1 DEF Dot, Enter, Running
  <1>3. n \in Fd /\ ShellFile \in Files /\ fdt \in Table
    BY RedirectAssumption DEF FreeFds, OInv, IInv, TypeOK
  <1>4. SameFrames(frames) /\ [kind |-> "dot", n |-> n] \in FrameType
    BY <1>3, TableAssumption DEF SameFrames, OInv, IInv, TypeOK, Dots, FrameType, Fd
  <1>5. PICK k \in Nat : k = Len(frames) + 1
    BY DEF OInv, IInv, TypeOK
  <1>6. Dots' = Dots \cup {k} /\ k \notin Dots /\ frames'[k].n = n
        /\ \A j \in Dots : frames'[j].n = frames[j].n
    <2>1. Dots' = Dots \cup {k} /\ k \notin Dots /\ frames'[k] = [kind |-> "dot", n |-> n]
      BY <1>2, <1>3, <1>4, <1>5, FramesPushed DEF OInv, IInv, Dots
    <2>2. \A j \in Dots : frames'[j] = frames[j]
      BY <1>2, <1>4 DEF Dots, OInv, IInv, TypeOK
    <2> QED
      BY <2>1, <2>2
  <1>7. Pending' = Pending
    BY <1>2 DEF Pending
  <1>8. \A x \in OwnersIn(Pending, Dots) : held'[x] = held[x]
    BY <1>2, <1>6, <1>7, HeldStays
  <1>9. PICK x : x = InputAt(k)
    OBVIOUS
  <1>10. x \notin DOMAIN held /\ DOMAIN held' = DOMAIN held \cup {x}
    BY <1>6, <1>7, <1>9, DomainHeld, OwnersDiffer DEF OwnersIn
  <1>11. held'[x] = n
    BY <1>6, <1>9, HeldNext DEF HeldRight
  <1>12. Takes(x, n)
    BY <1>8, <1>10, <1>11, DomainHeld DEF Takes
  <1> QED
    BY <1>1, <1>2, <1>3, <1>5, <1>9, <1>12 DEF Opens

\* End of file closes what an Input held, and the Input says so.
LEMMA EndOfInputCloses ==
  ASSUME OInv, EndOfInput
  PROVE  \E k \in Dots : /\ Closes(InputAt(k))
                         /\ frames[k].n \in 0 .. 2 => frames[k].n \in Closable
  <1>1. PICK k \in Dots : /\ fdt' = CloseFd(fdt, frames[k].n)
                          /\ frames' = [frames EXCEPT ![k].n = NoFd]
                          /\ frames[k].n >= 3 \/ frames[k].n \in Closable
    BY DEF EndOfInput
  <1>2. UNCHANGED <<deftab, historyfd, at, orphans>> /\ fdt \in Table
    BY DEF EndOfInput, OInv, IInv, TypeOK
  <1>3. Pending' = Pending
    BY <1>2 DEF Pending
  <1>4. /\ DOMAIN frames' = DOMAIN frames /\ k \in DOMAIN frames /\ frames[k] \in FrameType
        /\ \A j \in DOMAIN frames \ {k} : frames'[j] = frames[j]
        /\ frames'[k] = [frames[k] EXCEPT !.n = NoFd]
    BY <1>1 DEF Dots, OInv, IInv, TypeOK
  <1>5. frames'[k].n = NoFd /\ frames'[k].kind = frames[k].kind
    <2>1. frames[k] \in FrameType
      BY <1>4
    <2>2. frames'[k] = [frames[k] EXCEPT !.n = NoFd]
      BY <1>4
    <2> QED
      BY <2>1, <2>2 DEF FrameType
  <1>6. Dots' = Dots /\ \A j \in Dots \ {k} : frames'[j].n = frames[j].n
    BY <1>4, <1>5 DEF Dots
  <1>7. \A x \in OwnersIn(Pending, Dots \ {k}) : held'[x] = held[x]
    <2>1. Dots \ {k} \in SUBSET Dots /\ Dots \ {k} \subseteq Dots'
      BY <1>6
    <2> QED
      BY <1>2, <1>3, <1>6, <2>1, HeldStays
  <1>8. PICK x : x = InputAt(k)
    OBVIOUS
  <1>9. /\ DOMAIN held = OwnersIn(Pending, Dots \ {k}) \cup {x}
        /\ DOMAIN held' = DOMAIN held
    BY <1>3, <1>6, <1>8, DomainHeld DEF OwnersIn
  <1>10. held[x] = frames[k].n /\ held'[x] = NoFd
    BY <1>5, <1>6, <1>8, HeldIs, HeldNext DEF HeldRight
  <1>11. Leaves(x)
    BY <1>7, <1>9, <1>10 DEF Leaves
  <1>12. frames[k].n \in 0 .. 2 => frames[k].n \in Closable
    BY <1>1
  <1> QED
    BY <1>1, <1>2, <1>8, <1>9, <1>10, <1>11, <1>12 DEF Closes

\* fdcleanup closes what the Input still holds, and the Input goes.
LEMMA LeaveDotCloses ==
  ASSUME OInv, LeaveDot PROVE Closes(InputAt(Len(frames)))
  <1>1. PICK k : k = Len(frames)
    OBVIOUS
  <1>2. /\ frames # <<>> /\ Top.kind = "dot" /\ fdt \in Table
        /\ fdt' = IF Top.n = NoFd THEN fdt ELSE CloseFd(fdt, Top.n)
        /\ frames' = SubSeq(frames, 1, Len(frames) - 1)
        /\ UNCHANGED <<deftab, historyfd, at, orphans>>
    BY DEF LeaveDot, OInv, IInv, TypeOK
  <1>3. k \in DOMAIN frames /\ Top = frames[k] /\ Dots' = Dots \ {k}
    BY <1>1, <1>2, FramesPopped DEF OInv, IInv
  <1>4. k \in Dots
    BY <1>2, <1>3 DEF Dots
  <1>5. \A j \in Dots' : frames'[j].n = frames[j].n
    <2>1. frames \in Seq(FrameType)
      BY DEF OInv, IInv, TypeOK
    <2>2. \A j \in Dots' : j \in 1 .. (k - 1)
      BY <1>1, <1>3, <2>1 DEF Dots
    <2>3. \A j \in Dots' : frames'[j] = frames[j]
      BY <1>1, <1>2, <1>3, <2>1, <2>2
    <2> QED
      BY <2>3
  <1>6. Pending' = Pending
    BY <1>2 DEF Pending
  <1>7. \A x \in OwnersIn(Pending, Dots') : held'[x] = held[x]
    <2>1. PICK K : K = Dots'
      OBVIOUS
    <2>2. K \in SUBSET Dots
      BY <1>3, <2>1
    <2>3. \A x \in OwnersIn(Pending, K) : held'[x] = held[x]
      BY <1>2, <1>5, <1>6, <2>1, <2>2, HeldStays
    <2> QED
      BY <2>1, <2>3
  <1>8. PICK x : x = InputAt(k)
    OBVIOUS
  <1>9. x \in DOMAIN held /\ held[x] = Top.n
    BY <1>3, <1>4, <1>8, HeldIs DEF HeldRight
  <1>10. DOMAIN held' \subseteq DOMAIN held /\ x \notin DOMAIN held'
    BY <1>3, <1>6, <1>8, DomainHeld, OwnersDiffer DEF OwnersIn
  <1>11. \A y \in DOMAIN held' : held'[y] = held[y]
    BY <1>6, <1>7, DomainHeld
  <1>12. DOMAIN held \ {x} \subseteq DOMAIN held'
    BY <1>3, <1>6, <1>8, DomainHeld DEF OwnersIn
  <1>13. Leaves(x)
    BY <1>10, <1>11, <1>12 DEF Leaves
  <1>14. fdt' = CloseFd(fdt, held[x])
    <2>1. CloseFd(fdt, NoFd) = fdt
      BY <1>2 DEF CloseFd, Table, Fd, NoFd
    <2> QED
      BY <1>2, <1>9, <2>1
  <1> QED
    BY <1>1, <1>2, <1>8, <1>9, <1>13, <1>14 DEF Closes

\* loghistory opens for historyfd, and sethistory closes it.
LEMMA HistoryOpensCloses ==
  ASSUME OInv, LogHistory \/ SetHistory PROVE Opens(History) \/ Closes(History)
  <1>1. UNCHANGED <<deftab, frames, at, orphans>> /\ fdt \in Table
    BY DEF LogHistory, SetHistory, OInv, IInv, TypeOK
  <1>2. Pending' = Pending /\ Dots' = Dots
    BY <1>1 DEF Pending, Dots
  <1>3. DOMAIN held' = DOMAIN held /\ \A x \in DOMAIN held : x # History => held'[x] = held[x]
    <2>1. \A i \in Pending : held'[DeferralAt(i)] = held[DeferralAt(i)]
      BY <1>1, <1>2, HeldIs, HeldNext DEF HeldRight
    <2>2. \A k \in Dots : held'[InputAt(k)] = held[InputAt(k)]
      BY <1>1, <1>2, HeldIs, HeldNext DEF HeldRight
    <2> QED
      BY <1>2, <2>1, <2>2, DomainHeld DEF OwnersIn
  <1>4. History \in DOMAIN held /\ held[History] = historyfd /\ held'[History] = historyfd'
    BY HeldIs, HeldNext DEF HeldRight
  <1>5. CASE LogHistory
    <2>1. PICK n \in FreeFds(fdt) : n = LowestFree(fdt)
      BY <1>5, LowestFreeIsFree DEF LogHistory
    <2>2. fdt' = OpenAt(fdt, n, ShellFile) /\ historyfd' = n /\ ShellFile \in Files
      BY <1>5, <2>1, RedirectAssumption DEF LogHistory
    <2>3. Takes(History, n)
      BY <1>3, <1>4, <1>5, <2>2 DEF Takes, LogHistory
    <2> QED
      BY <1>1, <2>2, <2>3 DEF Opens
  <1>6. CASE SetHistory
    <2>1. fdt' = CloseFd(fdt, held[History]) /\ held'[History] = NoFd
      BY <1>4, <1>6 DEF SetHistory
    <2>2. Leaves(History)
      BY <1>3, <2>1 DEF Leaves
    <2> QED
      BY <1>1, <1>4, <2>1, <2>2 DEF Closes
  <1> QED
    BY <1>5, <1>6

\* One turn of remapfds: x, the deferral it applies, is no longer on the list R; h is what
\* the others hold, and g what they hold afterwards.
Turn(x, R, u, real, h, g) ==
  /\ x = DeferralAt(at + 1) /\ real = deftab[at + 1].realfd /\ u = deftab[at + 1].userfd
  /\ Apart(fdt, h, orphans) /\ Spare(fdt, h, orphans, real) /\ (Holds(R, u) <=> Taken(h, u))
  /\ x \notin DOMAIN h /\ DOMAIN held = DOMAIN h \cup {x} /\ held[x] = real
  /\ \A y \in DOMAIN h : h[y] = held[y]
  /\ g = Shifted(h, u, LowestFree(fdt)) /\ DOMAIN g = DOMAIN h
  /\ \A y \in DOMAIN h : y \in DOMAIN held' /\ held'[y] = g[y]
  /\ MoveHolders(fdt, R, u) /\ Len(deftab') = Len(deftab) /\ Dots' = Dots
  /\ IF Fits(fdt, R, real, u)
       THEN /\ fdt' = Applied(fdt, R, real, u)
            /\ orphans' = orphans \ {u}
            /\ at' = at + 1
            /\ DOMAIN held' = DOMAIN h
       ELSE /\ fdt' = Released(fdt, R, u)
            /\ orphans' = orphans
            /\ at' = at
            /\ DOMAIN held' = DOMAIN held
            /\ held'[x] = real

\* Every step of remapfds is such a turn.
LEMMA RemapOneTurns ==
  ASSUME OInv, RemapOne
  PROVE  \E R, h, g : \E u \in UserFds, real \in Fd \cup {NoFd} :
           Turn(DeferralAt(at + 1), R, u, real, h, g)
  <1>1. PICK d, R, ok :
          /\ d = deftab[at + 1]
          /\ R = reserved \ {Slot(defmax, at + 1)}
          /\ ok = Fits(fdt, R, d.realfd, d.userfd)
    OBVIOUS
  <1>2. /\ pc \in {"remapFork", "remapExec"} /\ at < Len(deftab)
        /\ MoveHolders(fdt, R, d.userfd)
        /\ fdt' = IF ok THEN Applied(fdt, R, d.realfd, d.userfd)
                        ELSE Released(fdt, R, d.userfd)
        /\ at' = IF ok THEN at + 1 ELSE at
        /\ orphans' = IF ok THEN orphans \ {d.userfd} ELSE orphans
    BY <1>1, Zenon DEF RemapOne, Remapping
  <1>3. /\ TypeOK /\ Len(deftab) \in Nat /\ at \in 0 .. Len(deftab) /\ at + 1 \in DOMAIN deftab
        /\ fdt \in Table
    BY <1>2 DEF OInv, IInv, TypeOK
  <1>4. PICK P : P = (at + 2) .. Len(deftab)
    OBVIOUS
  <1>5. P \in SUBSET Pending /\ Pending = P \cup {at + 1} /\ at + 1 \notin P
    BY <1>2, <1>3, <1>4 DEF Pending
  <1>6. Registers(R, P)
    <2>1. reserved = {HistoryPtr} \cup {InputPtr(k) : k \in Dots}
                       \cup {Slot(defmax, i) : i \in Pending}
      BY <1>2 DEF OInv, IInv, ReservedExact
    <2>2. Slot(defmax, at + 1) \notin
            {HistoryPtr} \cup {InputPtr(k) : k \in Dots} \cup {Slot(defmax, i) : i \in P}
      BY <1>5, PointersDiffer
    <2>3. {Slot(defmax, i) : i \in Pending} = {Slot(defmax, i) : i \in P} \cup {Slot(defmax, at + 1)}
      BY <1>5
    <2>4. R = {HistoryPtr} \cup {InputPtr(k) : k \in Dots} \cup {Slot(defmax, i) : i \in P}
      BY <1>1, <2>1, <2>2, <2>3, Zenon
    <2> QED
      BY <2>4 DEF Registers
  <1>7. PICK u \in UserFds, real \in Fd \cup {NoFd} :
          u = d.userfd /\ real = d.realfd
    <2>1. d \in Deferral
      BY <1>1, <1>3 DEF TypeOK
    <2> QED
      BY <2>1 DEF Deferral
  <1>8. PICK n \in Fd \cup {NoFd} : n = LowestFree(fdt)
    BY LowestFreeType
  <1>9. SameDeferrals(deftab') /\ SameFrames(frames')
    BY <1>2, <1>3, MoveHoldersSame
  <1>10. Dots' = Dots /\ Len(deftab') = Len(deftab) /\ deftab' \in Seq(Deferral)
    BY <1>3, <1>9, FramesSame DEF SameDeferrals
  <1>11. Pending' = IF ok THEN P ELSE Pending
    <2>1. CASE ok
      BY <1>2, <1>3, <1>4, <1>10, <2>1 DEF Pending
    <2>2. CASE ~ok
      BY <1>2, <1>10, <2>2 DEF Pending
    <2> QED
      BY <2>1, <2>2
  <1>12. PICK x, h, g : /\ x = DeferralAt(at + 1) /\ h = HeldBy(P)
                        /\ g = Shifted(h, u, n)
    OBVIOUS
  <1>13. /\ x \in DOMAIN held /\ held[x] = real
         /\ DOMAIN h = OwnersOf(P) /\ DOMAIN g = OwnersOf(P) /\ x \notin OwnersOf(P)
         /\ DOMAIN held = OwnersOf(P) \cup {x}
         /\ \A y \in OwnersOf(P) : h[y] = held[y]
    <2>1. x \in DOMAIN held /\ held[x] = real
      BY <1>1, <1>5, <1>7, <1>12, HeldIs DEF HeldRight
    <2>2. DOMAIN h = OwnersOf(P) /\ \A y \in OwnersOf(P) : h[y] = held[y]
      BY <1>5, <1>12, HeldByIs
    <2>3. DOMAIN g = OwnersOf(P)
      BY <1>12, <2>2 DEF Shifted
    <2>4. x \notin OwnersOf(P) /\ DOMAIN held = OwnersOf(P) \cup {x}
      BY <1>5, <1>12, DomainHeld, OwnersDiffer DEF OwnersOf, OwnersIn
    <2> QED
      BY <2>1, <2>2, <2>3, <2>4
  <1>14. Apart(fdt, h, orphans)
    BY <1>13, ApartFewer DEF OInv
  <1>15. Spare(fdt, h, orphans, real)
    BY <1>13 DEF Spare, Taken, OInv, Apart
  <1>16. Holds(R, u) <=> Taken(h, u)
    BY <1>3, <1>5, <1>6, <1>12, HoldsIsTaken
  <1>17. /\ OwnersOf(P) \subseteq DOMAIN held'
         /\ \A y \in OwnersOf(P) : held'[y] = g[y]
    <2>1. ASSUME NEW i \in DOMAIN deftab
          PROVE  deftab'[i].realfd = IF i \in SlotsHolding(R, u) THEN n ELSE deftab[i].realfd
      <3>1. deftab' = [j \in DOMAIN deftab |-> IF j \in SlotsHolding(R, u)
                         THEN [deftab[j] EXCEPT !.realfd = n] ELSE deftab[j]]
        BY <1>2, <1>7, <1>8, Zenon DEF MoveHolders
      <3>2. deftab[i] \in Deferral
        BY <1>3 DEF TypeOK
      <3>3. [deftab[i] EXCEPT !.realfd = n].realfd = n
        BY <3>2 DEF Deferral
      <3> QED
        BY <3>1, <3>3
    <2>2. ASSUME NEW k \in Dots
          PROVE  frames'[k].n = IF k \in InputsHolding(R, u) THEN n ELSE frames[k].n
      <3>1. frames' = [j \in DOMAIN frames |-> IF j \in InputsHolding(R, u)
                         THEN [frames[j] EXCEPT !.n = n] ELSE frames[j]]
        BY <1>2, <1>7, <1>8, Zenon DEF MoveHolders
      <3>2. frames[k] \in FrameType /\ k \in DOMAIN frames
        BY <1>3 DEF TypeOK, Dots
      <3>3. [frames[k] EXCEPT !.n = n].n = n
        BY <3>2 DEF FrameType
      <3> QED
        BY <3>1, <3>2, <3>3
    <2>3. historyfd' = IF HistoryHolds(R, u) THEN n ELSE historyfd
      BY <1>2, <1>7, <1>8 DEF MoveHolders
    <2>4. P \subseteq Pending'
      BY <1>5, <1>11
    <2> QED
      BY <1>3, <1>5, <1>6, <1>10, <1>12, <2>1, <2>2, <2>3, <2>4, HeldShifted
  <1>18. /\ MoveHolders(fdt, R, u) /\ g = Shifted(h, u, LowestFree(fdt)) /\ held[x] = real
         /\ real = deftab[at + 1].realfd /\ u = deftab[at + 1].userfd
    BY <1>1, <1>2, <1>7, <1>8, <1>12, <1>13
  <1>19. CASE ok
    <2>1. DOMAIN held' = OwnersOf(P)
      BY <1>10, <1>11, <1>19, DomainHeld DEF OwnersOf, OwnersIn
    <2>2. Fits(fdt, R, real, u)
      BY <1>1, <1>7, <1>19
    <2>3. fdt' = Applied(fdt, R, real, u) /\ orphans' = orphans \ {u} /\ at' = at + 1
      BY <1>2, <1>7, <1>19
    <2>4. Turn(x, R, u, real, h, g)
      BY <1>10, <1>12, <1>13, <1>14, <1>15, <1>16, <1>17, <1>18, <2>1, <2>2, <2>3 DEF Turn
    <2> QED
      BY <1>12, <2>4
  <1>20. CASE ~ok
    <2>1. DOMAIN held' = DOMAIN held
      BY <1>10, <1>11, <1>20, DomainHeld DEF OwnersIn
    <2>2. held'[x] = real
      <3>1. deftab' = [j \in DOMAIN deftab |-> IF j \in SlotsHolding(R, u)
                         THEN [deftab[j] EXCEPT !.realfd = n] ELSE deftab[j]]
        BY <1>2, <1>7, <1>8, Zenon DEF MoveHolders
      <3>2. at + 1 \notin SlotsHolding(R, u)
        BY <1>1 DEF SlotsHolding
      <3>3. deftab'[at + 1].realfd = real
        BY <1>1, <1>3, <1>7, <3>1, <3>2
      <3> QED
        BY <1>5, <1>11, <1>12, <1>20, <3>3, HeldNext DEF HeldRight
    <2>3. ~Fits(fdt, R, real, u)
      BY <1>1, <1>7, <1>20
    <2>4. fdt' = Released(fdt, R, u) /\ orphans' = orphans /\ at' = at
      BY <1>2, <1>7, <1>20
    <2>5. Turn(x, R, u, real, h, g)
      BY <1>10, <1>12, <1>13, <1>14, <1>15, <1>16, <1>17, <1>18, <2>1, <2>2, <2>3, <2>4 DEF Turn
    <2> QED
      BY <1>12, <2>5
  <1> QED
    BY <1>19, <1>20

\* It keeps the owners apart.
LEMMA RemapOneApart ==
  ASSUME OInv, RemapOne PROVE Apart(fdt', held', orphans')
  <1>1. PICK x, R, h, g : \E u \in UserFds, real \in Fd \cup {NoFd} : Turn(x, R, u, real, h, g)
    BY RemapOneTurns
  <1>2. PICK u \in UserFds, real \in Fd \cup {NoFd} : Turn(x, R, u, real, h, g)
    BY <1>1
  <1>3. /\ Apart(fdt, h, orphans) /\ Spare(fdt, h, orphans, real) /\ (Holds(R, u) <=> Taken(h, u))
        /\ x \notin DOMAIN h /\ DOMAIN held = DOMAIN h \cup {x}
        /\ g = Shifted(h, u, LowestFree(fdt)) /\ DOMAIN g = DOMAIN h
        /\ \A y \in DOMAIN h : held'[y] = g[y]
    BY <1>2 DEF Turn
  <1>4. TypeOK /\ fdt \in Table
    BY DEF OInv, IInv, TypeOK
  <1>5. CASE Fits(fdt, R, real, u)
    <2>1. fdt' = Applied(fdt, R, real, u) /\ orphans' = orphans \ {u} /\ DOMAIN held' = DOMAIN h
      BY <1>2, <1>5 DEF Turn
    <2>2. Apart(fdt', g, orphans')
      BY <1>3, <1>4, <1>5, <2>1, ApartApplied
    <2> QED
      BY <1>3, <2>1, <2>2, ApartFewer
  <1>6. CASE ~Fits(fdt, R, real, u)
    <2>1. /\ fdt' = Released(fdt, R, u) /\ orphans' = orphans
          /\ DOMAIN held' = DOMAIN held /\ held'[x] = real
      BY <1>2, <1>6 DEF Turn
    <2>2. PICK o : o = orphans \cup Left(fdt, R, real, u)
      OBVIOUS
    <2>3. Apart(fdt', g, o)
      BY <1>3, <1>4, <1>6, <2>1, <2>2, ApartTorn
    <2>4. orphans' \in SUBSET o /\ (real # NoFd => real \in o /\ real \notin orphans')
      BY <1>3, <2>1, <2>2 DEF Left, Spare
    <2> QED
      BY <1>3, <2>1, <2>3, <2>4, ApartAdopt
  <1> QED
    BY <1>5, <1>6

\* The rest of closefds closes what has an owner, and only that.
LEMMA CloseReservedApart ==
  ASSUME OInv, CloseReserved PROVE Apart(fdt', held', orphans')
  <1>1. /\ fdt' = [n \in Fd |-> IF n >= 3 /\ n \in Registered THEN Closed ELSE fdt[n]]
        /\ frames' = <<>> /\ deftab' = <<>> /\ at' = 0 /\ historyfd' = NoFd
        /\ orphans' = orphans
    BY DEF CloseReserved
  <1>2. Dots' = {} /\ Pending' = {}
    BY <1>1 DEF Dots, Pending
  <1>3. DOMAIN held' = {History} /\ held'[History] = NoFd
    BY <1>1, <1>2, DomainHeld, HeldNext DEF HeldRight, OwnersIn
  <1>4. ASSUME NEW n \in orphans PROVE n \in Fd /\ fdt'[n] # Closed
    <2>1. n \in Fd /\ fdt[n] # Closed /\ n # NoFd /\ \A x \in DOMAIN held : held[x] # n
      BY DEF OInv, Apart, Fd, NoFd
    <2>2. n \notin Registered
      BY <2>1, HeldIs DEF Registered, HeldRight
    <2> QED
      BY <1>1, <2>1, <2>2
  <1> QED
    BY <1>1, <1>3, <1>4 DEF Apart

\* The owners stay when what they hold is not written.
LEMMA UnchangedIdles ==
  ASSUME UNCHANGED <<fdt, deftab, historyfd, frames, at, orphans>> PROVE Idles
  <1>1. Pending' = Pending /\ Dots' = Dots
    BY DEF Pending, Dots
  <1> QED
    BY <1>1, HeldStays, DomainHeld DEF Idles

\* Every step keeps the owners apart.
LEMMA NextApart ==
  ASSUME OInv, [Next]_vars PROVE OInv'
  <1>1. IInv'
    BY NextIInv DEF OInv
  <1>2. CASE UNCHANGED <<fdt, deftab, historyfd, frames, at, orphans>>
    BY <1>1, <1>2, UnchangedIdles, OwnStepsApart DEF OInv
  <1>3. CASE UNCHANGED vars
    BY <1>2, <1>3 DEF vars
  <1>4. CASE \E u \in UserFds, f \in UserFiles : OpenFile(u, f)
    BY <1>1, <1>4, OpenFileApart DEF OInv
  <1>5. CASE \E u \in UserFds, o \in UserFds : DupFd(u, o)
    BY <1>1, <1>5, DupFdApart DEF OInv
  <1>6. CASE \E u \in UserFds : CloseUser(u)
    BY <1>1, <1>6, CloseUserApart DEF OInv
  <1>7. CASE LeaveRedir
    BY <1>1, <1>7, LeaveRedirCloses, OwnStepsApart DEF OInv
  <1>8. CASE Dot \/ EndOfInput \/ LeaveDot
    BY <1>1, <1>8, DotOpens, EndOfInputCloses, LeaveDotCloses, OwnStepsApart DEF OInv
  <1>9. CASE LogHistory \/ SetHistory
    BY <1>1, <1>9, HistoryOpensCloses, OwnStepsApart DEF OInv
  <1>10. CASE Fork \/ Exec
    BY <1>2, <1>10 DEF Fork, Exec
  <1>11. CASE RemapOne
    BY <1>1, <1>11, RemapOneApart DEF OInv
  <1>12. CASE CloseReserved
    BY <1>1, <1>12, CloseReservedApart DEF OInv
  <1> QED
    BY <1>3, <1>4, <1>5, <1>6, <1>7, <1>8, <1>9, <1>10, <1>11, <1>12 DEF Next

\* Every reachable state satisfies the invariant: the shell's variables hold different
\* open descriptors, and what has lost its owner is still open.
THEOREM OwnersInvariant == Spec => []OInv
  <1>1. Init => OInv
    BY InitIInv, InitApart DEF OInv
  <1>2. OInv /\ [Next]_vars => OInv'
    BY NextApart
  <1> QED
    BY <1>1, <1>2, PTL DEF Spec

\* No two of the shell's variables ever hold the same descriptor, what they hold is open,
\* and none of it is a number that a failed move left behind: an undefer, an fdcleanup or
\* a sethistory never closes a file under another scope, input or process.
THEOREM OwnersStayApart == Spec => []OwnersApart
  <1>1. OInv => OwnersApart
    BY ApartIsOwnersApart
  <1> QED
    BY <1>1, OwnersInvariant, PTL

-----------------------------------------------------------------------------
(***************************************************************************)
(* fdmap against the scopes.                                               *)
(***************************************************************************)
\* The deferrals of user number u.
Matches(u) == {i \in DOMAIN deftab : deftab[i].userfd = u}

\* A set of positions that is not empty has a last one,
LEMMA GreatestExists ==
  ASSUME NEW n \in Nat, NEW S \in SUBSET (1 .. n), S # {}
  PROVE  \E m \in S : \A i \in S : i <= m
  <1> DEFINE D == {k \in Nat : \E i \in S : k = n - i}
  <1>2. D \in SUBSET Nat /\ D # {}
    <2>1. PICK i \in S : TRUE
      OBVIOUS
    <2>2. n - i \in D
      BY <2>1
    <2> QED
      BY <2>2
  <1>3. PICK k \in D : \A j \in D : k <= j
    BY <1>2, LeastExists
  <1>4. PICK m \in S : k = n - m
    BY <1>3
  <1>5. ASSUME NEW i \in S PROVE i <= m
    <2>1. n - i \in D
      OBVIOUS
    <2>2. k <= n - i
      BY <1>3, <2>1
    <2> QED
      BY <1>4, <2>2
  <1> QED
    BY <1>5

\* in deftab too.
LEMMA LastExists ==
  ASSUME TypeOK, NEW S \in SUBSET DOMAIN deftab, S # {}
  PROVE  \E m \in S : \A i \in S : i <= m
  <1>1. PICK n \in Nat : DOMAIN deftab = 1 .. n
    BY DEF TypeOK
  <1> QED
    BY <1>1, GreatestExists

\* When no number is reused fdmap finds the newest deferral of u, and stays there.
LEMMA FdMapIs ==
  ASSUME TypeOK, ~Reused, NEW u
  PROVE  /\ Matches(u) = {} => FdMap(u) = u
         /\ \A m \in Matches(u) :
              (\A i \in Matches(u) : i <= m) => FdMap(u) = deftab[m].realfd
  <1>1. PICK n \in Nat : n = Len(deftab) /\ DOMAIN deftab = 1 .. n
    BY DEF TypeOK
  <1>2. PICK m \in 0 .. n :
          /\ \A i \in Matches(u) : i <= m
          /\ m = 0 => Matches(u) = {}
          /\ m # 0 => m \in Matches(u)
    <2>1. CASE Matches(u) = {}
      BY <2>1
    <2>2. CASE Matches(u) # {}
      <3>1. PICK l \in Matches(u) : \A i \in Matches(u) : i <= l
        BY <2>2, LastExists DEF Matches
      <3> QED
        BY <1>1, <3>1 DEF Matches
    <2> QED
      BY <2>1, <2>2
  <1> DEFINE Step(w) == [i \in 0 .. n |->
                           IF i = n THEN u
                           ELSE IF w[i + 1] = deftab[i + 1].userfd THEN deftab[i + 1].realfd
                                ELSE w[i + 1]]
             scan == CHOOSE w : w = Step(w)
  <1>3. PICK r : m # 0 => r = deftab[m].realfd
    OBVIOUS
  <1>4. PICK v : v = [i \in 0 .. n |-> IF m <= i THEN u ELSE r]
    OBVIOUS
  <1>5. \A i \in 1 .. n : deftab[i].userfd = u => i <= m
    BY <1>1, <1>2 DEF Matches
  <1>6. m # 0 => deftab[m].userfd = u /\ r = deftab[m].realfd
    BY <1>2, <1>3 DEF Matches
  <1>7. \A i \in 1 .. n : i < m => deftab[i].userfd # r
    BY <1>1, <1>2, <1>3 DEF Reused, Matches
  <1>8. \A i \in 0 .. n : i # n => i + 1 \in 1 .. n
    BY <1>1
  <1>9. v = Step(v)
    <2>1. ASSUME NEW i \in 0 .. n PROVE v[i] = Step(v)[i]
      <3>1. CASE i = n
        BY <1>2, <1>4, <3>1
      <3>2. CASE i # n
        <4>1. i + 1 \in 1 .. n /\ i + 1 \in 0 .. n
          BY <1>8, <3>2
        <4>2. v[i + 1] = IF m <= i + 1 THEN u ELSE r
          BY <1>4, <4>1
        <4>3. v[i] = IF m <= i THEN u ELSE r
          BY <1>4
        <4> QED
          BY <1>5, <1>6, <1>7, <3>2, <4>1, <4>2, <4>3
      <3> QED
        BY <3>1, <3>2
    <2>2. DOMAIN Step(v) = 0 .. n /\ DOMAIN v = 0 .. n
      BY <1>4
    <2>3. Step(v) = [i \in 0 .. n |-> Step(v)[i]] /\ v = [i \in 0 .. n |-> v[i]]
      BY <1>4
    <2> HIDE DEF Step
    <2> QED
      BY <2>1, <2>3, Zenon
  <1>10. scan = Step(scan)
    BY <1>9, Zenon
  <1>11. FdMap(u) = scan[0]
    BY <1>1 DEF FdMap
  <1> HIDE DEF scan
  <1>12. ASSUME NEW k \in Nat, \E i \in 0 .. n : k = n - i /\ scan[i] # v[i]
         PROVE  FALSE
    <2> DEFINE S == {j \in Nat : \E i \in 0 .. n : j = n - i /\ scan[i] # v[i]}
    <2>1. PICK j \in S : \A l \in S : j <= l
      <3>1. S \in SUBSET Nat /\ S # {}
        BY <1>12
      <3> QED
        BY <3>1, LeastExists
    <2>2. PICK i \in 0 .. n : j = n - i /\ scan[i] # v[i]
      BY <2>1
    <2>3. CASE i = n
      BY <1>9, <1>10, <2>2, <2>3
    <2>4. CASE i # n
      <3>1. i + 1 \in 0 .. n /\ n - (i + 1) \in Nat /\ n - (i + 1) < j
        BY <2>2, <2>4
      <3>2. scan[i + 1] = v[i + 1]
        <4>1. SUFFICES ASSUME scan[i + 1] # v[i + 1] PROVE FALSE
          OBVIOUS
        <4>2. n - (i + 1) \in S
          BY <3>1, <4>1
        <4>3. j <= n - (i + 1)
          BY <2>1, <4>2
        <4> QED
          BY <3>1, <4>3
      <3>3. Step(scan)[i] = Step(v)[i]
        BY <2>4, <3>2
      <3> HIDE DEF Step
      <3> QED
        BY <1>9, <1>10, <2>2, <3>3
    <2> QED
      BY <2>3, <2>4
  <1>13. scan[0] = v[0]
    <2>1. 0 \in 0 .. n /\ n = n - 0
      BY <1>1
    <2> QED
      BY <1>12, <2>1
  <1>14. FdMap(u) = IF m = 0 THEN u ELSE r
    BY <1>2, <1>4, <1>11, <1>13
  <1>15. ASSUME NEW l \in Matches(u), \A i \in Matches(u) : i <= l
         PROVE  l = m /\ m # 0
    <2>1. l \in 1 .. n
      BY <1>1 DEF Matches
    <2>2. m # 0
      BY <1>2, <2>1
    <2>3. m <= l /\ l <= m
      BY <1>2, <1>15, <2>2
    <2> QED
      BY <2>1, <2>2, <2>3
  <1>16. Matches(u) = {} => m = 0
    BY <1>2
  <1> QED
    BY <1>2, <1>3, <1>14, <1>15, <1>16

\* What the scopes say of u outside remapfds.
LEMMA ViewIs ==
  ASSUME TypeOK, at = 0, NEW u
  PROVE  /\ Matches(u) = {} => Scopes!View(u) = IF u \in Fd THEN Base[u] ELSE Closed
         /\ \A m \in Matches(u) :
              (\A i \in Matches(u) : i <= m) => Scopes!View(u) = FileAt(deftab[m].realfd)
  <1>1. PICK n \in Nat : n = Len(deftab) /\ DOMAIN deftab = 1 .. n
    BY DEF TypeOK
  <1>2. /\ DOMAIN Layers = 1 .. n
        /\ \A i \in 1 .. n : /\ Layers[i].fd = deftab[i].userfd
                             /\ Layers[i].file = FileAt(deftab[i].realfd)
    BY <1>1 DEF Layers
  <1>3. Scopes!Layered(u) = Matches(u)
    BY <1>1, <1>2 DEF Scopes!Layered, Matches
  <1>4. Scopes!View(u) =
          IF Matches(u) # {}
            THEN Layers[CHOOSE i \in Matches(u) : \A j \in Matches(u) : j <= i].file
            ELSE IF u \in Fd THEN Base[u] ELSE Closed
    BY <1>3 DEF Scopes!View
  <1>5. ASSUME NEW m \in Matches(u), \A i \in Matches(u) : i <= m
        PROVE  Scopes!View(u) = FileAt(deftab[m].realfd)
    <2>1. PICK l : l = CHOOSE i \in Matches(u) : \A j \in Matches(u) : j <= i
      OBVIOUS
    <2>2. l \in Matches(u) /\ \A j \in Matches(u) : j <= l
      BY <1>5, <2>1
    <2>3. \A i \in Matches(u) : i \in 1 .. n
      BY <1>1 DEF Matches
    <2>4. l = m
      BY <1>5, <2>2, <2>3
    <2> QED
      BY <1>2, <1>4, <2>1, <2>3, <2>4
  <1> QED
    BY <1>4, <1>5

\* fdmap "turns a deferred (user) fd into a real fd": as long as no deferral was put at
\* a number that an earlier one stands for, what the shell itself reads, writes or dups
\* as number u is what a command run there would find at u.
THEOREM FdMapRight == Spec => []FdMapAgreesUnlessReused
  <1>1. ASSUME IInv PROVE FdMapAgreesUnlessReused
    <2>1. SUFFICES ASSUME pc = "run", ~Reused, NEW u \in Nameable
                   PROVE  FileAt(FdMap(u)) = Scopes!View(u)
      BY DEF FdMapAgreesUnlessReused
    <2>2. at = 0 /\ TypeOK
      BY <1>1, <2>1 DEF IInv, AtRight
    <2>3. CASE Matches(u) = {}
      <3>1. u \notin Hidden
        BY <2>3 DEF Nameable, Matches
      <3>2. FdMap(u) = u
        BY <2>1, <2>2, <2>3, FdMapIs
      <3>3. Scopes!View(u) = IF u \in Fd THEN Base[u] ELSE Closed
        BY <2>2, <2>3, ViewIs
      <3> QED
        BY <3>1, <3>2, <3>3 DEF Base, FileAt
    <2>4. CASE Matches(u) # {}
      <3>1. PICK m \in Matches(u) : \A i \in Matches(u) : i <= m
        BY <2>2, <2>4, LastExists DEF Matches
      <3> QED
        BY <2>1, <2>2, <3>1, FdMapIs, ViewIs
    <2> QED
      BY <2>3, <2>4
  <1> QED
    BY <1>1, Inductive, PTL


-----------------------------------------------------------------------------
(***************************************************************************)
(* The refinement of RedirScopes.  It needs two assumptions, both stated   *)
(* with the theorem: numbers 0, 1 and 2 are not closed by the user, and    *)
(* the descriptor table never fills.                                       *)
(***************************************************************************)
Standard == 0 .. 2

Room == \E m, n \in FreeFds(fdt) : m # n

\* The standard numbers stay open, so whatever the shell opens for itself is above them:
\* only the first shell's own input may be one of them, and only until the first fork.
High ==
  /\ \A n \in Standard : fdt[n] # Closed
  /\ \A i \in Pending : /\ deftab[i].realfd \notin Standard
                        /\ deftab[i].realfd = NoFd => deftab[i].userfd \notin Standard
  /\ historyfd \notin Standard
  /\ \A k \in Dots : frames[k].n \in Standard => k = 1 /\ (pc = "run" => forks = 0)
  /\ \A n \in orphans : n \notin Standard

SInv == OInv /\ High

\* The base table and the layers, as functions of the owners.
FileIn(t, n) == IF n \in Fd THEN t[n] ELSE Closed

BaseOf(t, h, o) ==
  [n \in Fd |-> IF n \in o \/ (n >= 3 /\ Taken(h, n)) THEN Closed ELSE t[n]]

LayerRight(i) ==
  /\ Layers[i].fd = deftab[at + i].userfd
  /\ Layers[i].file = FileIn(fdt, held[DeferralAt(at + i)])
  /\ DeferralAt(at + i) \in DOMAIN held

ScopesRight ==
  SInv => /\ Base = BaseOf(fdt, held, orphans)
          /\ Layers \in Seq([fd : UserFds, file : Files \cup {Closed}])
          /\ Len(Layers) = Len(deftab) - at
          /\ \A i \in 1 .. (Len(deftab) - at) : LayerRight(i)

\* These functions are right in every state the invariant allows,
LEMMA ScopesAre == ScopesRight
  <1> SUFFICES ASSUME SInv
               PROVE  /\ Base = BaseOf(fdt, held, orphans)
                      /\ Layers \in Seq([fd : UserFds, file : Files \cup {Closed}])
                      /\ Len(Layers) = Len(deftab) - at
                      /\ \A i \in 1 .. (Len(deftab) - at) : LayerRight(i)
    BY DEF ScopesRight
  <1>1. TypeOK /\ High
    BY DEF SInv, OInv, IInv
  <1>2. ASSUME NEW n \in Fd
        PROVE  n \in Hidden <=> n \in orphans \/ (n >= 3 /\ Taken(held, n))
    <2>1. n \in Nat /\ n # NoFd
      BY TableAssumption DEF Fd, NoFd
    <2>2. (\E i \in Pending : deftab[i].realfd = n) => n >= 3
      BY <1>1, <2>1 DEF High, Standard
    <2>3. Taken(held, n) <=> \/ \E i \in Pending : deftab[i].realfd = n
                             \/ \E k \in Dots : frames[k].n = n
                             \/ historyfd = n
      <3>1. \A x \in DOMAIN held : \/ \E i \in Pending : x = DeferralAt(i)
                                   \/ \E k \in Dots : x = InputAt(k)
                                   \/ x = History
        BY HeldIs DEF HeldRight, Owners
      <3>2. HeldRight
        BY HeldIs
      <3> QED
        BY <3>1, <3>2 DEF Taken, HeldRight
    <2>4. n \in Hidden <=> \/ \E i \in Pending : deftab[i].realfd = n
                           \/ n >= 3 /\ ((\E k \in Dots : frames[k].n = n) \/ historyfd = n)
                           \/ n \in orphans
      BY DEF Hidden
    <2> QED
      BY <2>2, <2>3, <2>4
  <1>3. Base = BaseOf(fdt, held, orphans)
    <2>1. \A n \in Fd : (IF n \in Hidden THEN Closed ELSE fdt[n])
                        = (IF n \in orphans \/ (n >= 3 /\ Taken(held, n)) THEN Closed ELSE fdt[n])
      BY <1>2
    <2> QED
      BY <2>1 DEF Base, BaseOf
  <1>4. PICK l \in Nat : l = Len(deftab) - at
    BY <1>1 DEF TypeOK
  <1>5. ASSUME NEW i \in 1 .. l
        PROVE  /\ [fd |-> deftab[at + i].userfd, file |-> FileAt(deftab[at + i].realfd)]
                    \in [fd : UserFds, file : Files \cup {Closed}]
               /\ held[DeferralAt(at + i)] = deftab[at + i].realfd
               /\ DeferralAt(at + i) \in DOMAIN held
               /\ FileAt(deftab[at + i].realfd) = FileIn(fdt, deftab[at + i].realfd)
    <2>1. at + i \in Pending /\ at + i \in DOMAIN deftab
      BY <1>1, <1>4 DEF Pending, TypeOK
    <2>2. deftab[at + i] \in Deferral
      BY <1>1, <2>1 DEF TypeOK
    <2>3. deftab[at + i].userfd \in UserFds /\ FileAt(deftab[at + i].realfd) \in Files \cup {Closed}
      BY <1>1, <2>2 DEF Deferral, FileAt, TypeOK, Table
    <2> QED
      BY <2>1, <2>3, HeldIs DEF HeldRight, FileAt, FileIn
  <1>6. Layers \in [1 .. l -> [fd : UserFds, file : Files \cup {Closed}]]
    BY <1>4, <1>5 DEF Layers
  <1>7. Layers \in Seq([fd : UserFds, file : Files \cup {Closed}]) /\ Len(Layers) = l
    BY <1>6, FunctionIsSeq
  <1>8. \A i \in 1 .. l : LayerRight(i)
    BY <1>4, <1>5 DEF LayerRight, Layers
  <1> QED
    BY <1>3, <1>4, <1>7, <1>8

\* in the next state too.
LEMMA ScopesNextAre == ScopesRight'
  BY ScopesAre, PTL

\* Two functions on the descriptor numbers that agree everywhere.
LEMMA BasesEqual ==
  ASSUME NEW t, NEW h, NEW o, NEW t1, NEW g, NEW o1,
         \A n \in Fd : BaseOf(t1, g, o1)[n] = BaseOf(t, h, o)[n]
  PROVE  BaseOf(t1, g, o1) = BaseOf(t, h, o)
  <1>1. BaseOf(t1, g, o1) = [n \in Fd |-> BaseOf(t1, g, o1)[n]]
    BY DEF BaseOf
  <1>2. BaseOf(t, h, o) = [n \in Fd |-> BaseOf(t, h, o)[n]]
    BY DEF BaseOf
  <1> QED
    BY <1>1, <1>2, Zenon

-----------------------------------------------------------------------------
(***************************************************************************)
(* The steps the user does not see.                                        *)
(***************************************************************************)
Unseen == Base' = Base /\ \A x \in DOMAIN held \cap DOMAIN held' :
                            held'[x] = held[x] => FileIn(fdt', held'[x]) = FileIn(fdt, held[x])

\* The shell opens and closes descriptors of its own above the standard ones.
LEMMA OwnStepsUnseen ==
  ASSUME SInv, SInv',
         \/ Idles
         \/ \E x : Opens(x)
         \/ \E x : Closes(x) /\ held[x] \notin Standard
  PROVE  Unseen
  <1>1. /\ fdt \in Table /\ Apart(fdt, held, orphans)
        /\ Base = BaseOf(fdt, held, orphans) /\ Base' = BaseOf(fdt', held', orphans')
        /\ \A n \in Standard : fdt[n] # Closed
    BY ScopesAre, ScopesNextAre DEF ScopesRight, SInv, OInv, IInv, TypeOK, High
  <1>2. Fd \subseteq Nat /\ NoFd \notin Fd /\ Standard \subseteq Fd
    BY TableAssumption DEF Fd, NoFd, Standard
  <1>3. CASE Idles
    <2>1. \A n \in Fd : Taken(held', n) <=> Taken(held, n)
      BY <1>3 DEF Idles, Taken
    <2>2. \A n \in Fd : BaseOf(fdt', held', orphans')[n] = BaseOf(fdt, held, orphans)[n]
      BY <1>3, <2>1 DEF BaseOf, Idles
    <2> QED
      BY <1>1, <1>3, <2>2, BasesEqual DEF Unseen, Idles
  <1>4. ASSUME NEW x, Opens(x) PROVE Unseen
    <2>1. PICK n \in FreeFds(fdt), file \in Files :
            fdt' = OpenAt(fdt, n, file) /\ orphans' = orphans /\ Takes(x, n)
      BY <1>4 DEF Opens
    <2>2. n \in Fd /\ fdt[n] = Closed /\ n >= 3
      BY <1>1, <1>2, <2>1 DEF FreeFds, Standard
    <2>3. \A m \in Fd \ {n} : fdt'[m] = fdt[m]
      BY <1>1, <2>1 DEF OpenAt, Table
    <2>4. Taken(held', n) /\ \A m \in Fd \ {n} : Taken(held', m) <=> Taken(held, m)
      BY <1>2, <2>1 DEF Takes, Taken
    <2>5. \A m \in Fd : BaseOf(fdt', held', orphans')[m] = BaseOf(fdt, held, orphans)[m]
      BY <2>1, <2>2, <2>3, <2>4 DEF BaseOf
    <2>6. \A y \in DOMAIN held : held[y] # n
      BY <1>1, <1>2, <2>2 DEF Apart
    <2>7. \A y \in DOMAIN held : FileIn(fdt', held[y]) = FileIn(fdt, held[y])
      BY <2>3, <2>6 DEF FileIn
    <2> QED
      BY <1>1, <2>5, <2>7, BasesEqual DEF Unseen
  <1>5. ASSUME NEW x, Closes(x), held[x] \notin Standard PROVE Unseen
    <2>1. x \in DOMAIN held /\ fdt' = CloseFd(fdt, held[x]) /\ orphans' = orphans /\ Leaves(x)
      BY <1>5 DEF Closes
    <2>2. PICK n \in Fd \cup {NoFd} : n = held[x] /\ (n # NoFd => n >= 3)
      <3>1. PICK n \in Fd \cup {NoFd} : n = held[x]
        BY <1>1, <2>1 DEF Apart
      <3>2. n # NoFd => n \in Nat /\ n \notin Standard
        BY <1>2, <1>5, <3>1
      <3> QED
        BY <3>1, <3>2 DEF Standard
    <2>3. \A m \in Fd : fdt'[m] = IF m = n THEN Closed ELSE fdt[m]
      BY <1>1, <2>1, <2>2 DEF CloseFd, Table
    <2>4. \A m \in Fd \ {n} : Taken(held', m) <=> Taken(held, m)
      BY <1>2, <2>1, <2>2 DEF Leaves, Taken
    <2>5. Taken(held, n)
      BY <2>1, <2>2 DEF Taken
    <2>6. \A m \in Fd : BaseOf(fdt', held', orphans')[m] = BaseOf(fdt, held, orphans)[m]
      BY <1>2, <2>1, <2>2, <2>3, <2>4, <2>5 DEF BaseOf
    <2>7. \A y \in DOMAIN held' : held'[y] \in Fd => held'[y] # n
      BY <1>1, <1>2, <2>1, <2>2 DEF Leaves, Apart
    <2>8. \A y \in DOMAIN held' : FileIn(fdt', held'[y]) = FileIn(fdt, held'[y])
      BY <2>3, <2>7 DEF FileIn
    <2> QED
      BY <1>1, <2>6, <2>8, BasesEqual DEF Unseen
  <1> QED
    BY <1>3, <1>4, <1>5

-----------------------------------------------------------------------------
(***************************************************************************)
(* Moving a descriptor to the number that a redirection names.             *)
(***************************************************************************)

\* releasefd moves the shell's own variable out of the way, unseen but for u.
LEMMA ReleasedView ==
  ASSUME TypeOK, NEW t \in Table, NEW h, NEW o, Apart(t, h, o), NEW R, NEW u \in Nat,
         Holds(R, u) <=> Taken(h, u), ~DupFails(t, R, u),
         \A n \in Standard : t[n] # Closed,
         NEW t1, NEW g, t1 = Released(t, R, u), g = Shifted(h, u, LowestFree(t))
  PROVE  /\ \A n \in Fd \ {u} : BaseOf(t1, g, o)[n] = BaseOf(t, h, o)[n]
         /\ \A x \in DOMAIN h : FileIn(t1, g[x]) = FileIn(t, h[x])
         /\ \A n \in Fd \ {u} : t[n] # Closed => t1[n] = t[n]
  <1>1. DOMAIN g = DOMAIN h
        /\ \A x \in DOMAIN h : g[x] = IF h[x] = u THEN LowestFree(t) ELSE h[x]
    BY DEF Shifted
  <1>2. CASE Holds(R, u)
    <2>1. PICK n \in Fd : n = LowestFree(t) /\ t[n] = Closed
      BY <1>2, LowestFreeIsFree DEF DupFails, FreeFds
    <2>2. n >= 3 /\ NoFd \notin Fd
      BY <2>1, TableAssumption DEF Standard, Fd, NoFd
    <2>3. PICK z \in DOMAIN h : h[z] = u
      BY <1>2 DEF Taken
    <2>4. u \in Fd /\ t[u] # Closed /\ u # n
      BY <2>1, <2>3 DEF Apart, NoFd
    <2>5. \A m \in Fd : t1[m] = IF m = u THEN Closed ELSE IF m = n THEN t[u] ELSE t[m]
      <3>1. t1 = CloseFd(OpenAt(t, n, t[u]), u)
        BY <1>2, <2>1 DEF Released, DupFails
      <3> QED
        BY <3>1 DEF CloseFd, OpenAt, Table
    <2>6. \A x \in DOMAIN h : h[x] # n
      BY <2>1, <2>2 DEF Apart
    <2>7. Taken(g, n)
      BY <1>1, <2>1, <2>3 DEF Taken
    <2>8. \A m \in Fd \ {u, n} : Taken(g, m) <=> Taken(h, m)
      BY <1>1, <2>1 DEF Taken
    <2>9. \A m \in Fd \ {u} : BaseOf(t1, g, o)[m] = BaseOf(t, h, o)[m]
      BY <2>1, <2>2, <2>5, <2>7, <2>8 DEF BaseOf
    <2>10. \A x \in DOMAIN h : FileIn(t1, g[x]) = FileIn(t, h[x])
      BY <1>1, <2>1, <2>4, <2>5, <2>6 DEF FileIn
    <2> QED
      BY <2>1, <2>5, <2>9, <2>10
  <1>3. CASE ~Holds(R, u)
    <2>1. t1 = t
      BY <1>3 DEF Released
    <2>2. \A x \in DOMAIN h : g[x] = h[x]
      BY <1>1, <1>3 DEF Taken
    <2>3. \A n \in Fd : Taken(g, n) <=> Taken(h, n)
      BY <1>1, <2>2 DEF Taken
    <2> QED
      BY <2>1, <2>2, <2>3 DEF BaseOf
  <1> QED
    BY <1>2, <1>3

\* dodeferred: the user finds at u what was at real.  Before it real was hidden.
Settled(t, h, o, real, u, t2, g) ==
  /\ \A n \in Fd : BaseOf(t2, g, o \ {u})[n] =
                    IF n = u THEN FileIn(t, real) ELSE BaseOf(t, h, o \cup {real})[n]
  /\ \A x \in DOMAIN h : FileIn(t2, g[x]) = FileIn(t, h[x])
  /\ \A n \in Standard : (n = u => real # NoFd) => t2[n] # Closed

\* A move that succeeds settles.
LEMMA AppliedView ==
  ASSUME TypeOK, NEW t \in Table, NEW h, NEW o, Apart(t, h, o), NEW R, NEW u \in UserFds,
         Holds(R, u) <=> Taken(h, u),
         \A n \in Standard : t[n] # Closed,
         NEW real \in Fd \cup {NoFd}, Spare(t, h, o, real), Fits(t, R, real, u),
         real \notin Standard,
         NEW t2, NEW g, t2 = Applied(t, R, real, u), g = Shifted(h, u, LowestFree(t))
  PROVE  Settled(t, h, o, real, u, t2, g)
  <1>1. u \in Nat /\ u # NoFd /\ NoFd \notin Fd /\ Fd \subseteq Nat
    BY RedirectAssumption DEF NoFd, Fd
  <1>0. Standard \subseteq Fd
    BY TableAssumption DEF Standard, Fd
  <1>2. PICK t1 : t1 = Released(t, R, u) /\ t1 \in Table
    BY ReleasedType
  <1>3. ~DupFails(t, R, u)
    BY DEF Fits
  <1>4. /\ \A n \in Fd \ {u} : BaseOf(t1, g, o)[n] = BaseOf(t, h, o)[n]
        /\ \A x \in DOMAIN h : FileIn(t1, g[x]) = FileIn(t, h[x])
        /\ \A n \in Fd \ {u} : t[n] # Closed => t1[n] = t[n]
    BY <1>1, <1>2, <1>3, ReleasedView
  <1>5. DOMAIN g = DOMAIN h
    BY DEF Shifted
  <1>6. CASE real = u
    <2>1. ~Taken(h, u) /\ u \in Fd
      BY <1>1, <1>6 DEF Spare
    <2>2. t2 = t /\ \A x \in DOMAIN h : g[x] = h[x]
      BY <1>1, <1>6, <2>1 DEF Applied, Mvfd, Released, Shifted, Taken
    <2>3. \A n \in Fd : Taken(g, n) <=> Taken(h, n)
      BY <1>5, <2>2 DEF Taken
    <2> QED
      BY <1>1, <1>6, <2>1, <2>2, <2>3 DEF BaseOf, FileIn, Settled
  <1>7. CASE real # u
    <2>1. Apart(t1, g, o \ {u}) /\ Spare(t1, g, o \ {u}, real) /\ ~Taken(g, u)
      BY <1>1, <1>2, <1>3, <1>7, ApartReleased
    <2>2. CASE real = NoFd
      <3>1. \A m \in Fd : t2[m] = IF m = u THEN Closed ELSE t1[m]
        BY <1>2, <2>2 DEF Applied, CloseFd, Table
      <3>2. \A m \in Fd : BaseOf(t2, g, o \ {u})[m] =
                           IF m = u THEN FileIn(t, real) ELSE BaseOf(t, h, o \cup {real})[m]
        <4>1. \A m \in Fd \ {u} : BaseOf(t2, g, o \ {u})[m] = BaseOf(t1, g, o)[m]
          BY <3>1 DEF BaseOf
        <4>2. \A m \in Fd \ {u} : BaseOf(t, h, o \cup {real})[m] = BaseOf(t, h, o)[m]
          BY <1>1, <2>2 DEF BaseOf
        <4>3. u \in Fd => BaseOf(t2, g, o \ {u})[u] = FileIn(t, real)
          BY <1>1, <2>2, <3>1 DEF BaseOf, FileIn
        <4> QED
          BY <1>4, <4>1, <4>2, <4>3
      <3>3. \A x \in DOMAIN h : FileIn(t2, g[x]) = FileIn(t1, g[x])
        BY <1>5, <2>1, <3>1 DEF FileIn, Taken
      <3> QED
        BY <1>0, <1>4, <2>2, <3>1, <3>2, <3>3 DEF Settled
    <2>3. CASE real # NoFd
      <3>1. u \in Fd /\ real \in Fd /\ real >= 3
        <4>1. u \in Fd /\ real \in Fd
          BY <1>7, <2>3 DEF Fits, MvfdOk
        <4> QED
          BY <1>1, <4>1 DEF Standard
      <3>2. \A m \in Fd : t2[m] = IF m = real THEN Closed ELSE IF m = u THEN t1[real] ELSE t1[m]
        BY <1>2, <1>7, <2>3, <3>1 DEF Applied, Mvfd, Table
      <3>3. t1[real] = t[real] /\ t[real] # Closed
        BY <1>4, <1>7, <2>3, <3>1 DEF Spare
      <3>4. \A m \in Fd : BaseOf(t2, g, o \ {u})[m] =
                           IF m = u THEN FileIn(t, real) ELSE BaseOf(t, h, o \cup {real})[m]
        <4>1. \A m \in Fd \ {u, real} : BaseOf(t2, g, o \ {u})[m] = BaseOf(t1, g, o)[m]
          BY <3>2 DEF BaseOf
        <4>2. \A m \in Fd \ {u, real} : BaseOf(t, h, o \cup {real})[m] = BaseOf(t, h, o)[m]
          BY DEF BaseOf
        <4>3. BaseOf(t2, g, o \ {u})[u] = FileIn(t, real)
          BY <1>7, <2>1, <3>1, <3>2, <3>3 DEF BaseOf, FileIn
        <4>4. BaseOf(t2, g, o \ {u})[real] = BaseOf(t, h, o \cup {real})[real]
          BY <3>1, <3>2 DEF BaseOf
        <4> QED
          BY <1>4, <1>7, <4>1, <4>2, <4>3, <4>4
      <3>5. \A x \in DOMAIN h : FileIn(t2, g[x]) = FileIn(t1, g[x])
        BY <1>5, <2>1, <2>3, <3>2 DEF FileIn, Taken, Spare
      <3>6. t2[u] # Closed
        BY <1>7, <3>1, <3>2, <3>3
      <3> QED
        BY <1>0, <1>4, <3>2, <3>4, <3>5, <3>6 DEF Settled
    <2> QED
      BY <2>2, <2>3
  <1> QED
    BY <1>6, <1>7

-----------------------------------------------------------------------------
(***************************************************************************)
(* High is kept: one lemma per action.                                     *)
(***************************************************************************)
\* A number that is given out is never a standard one.
LEMMA LowestHigh ==
  ASSUME NEW t, \A n \in Standard : t[n] # Closed
  PROVE  LowestFree(t) \notin Standard
  <1>1. CASE FreeFds(t) = {}
    BY <1>1 DEF LowestFree, Standard, NoFd
  <1>2. CASE FreeFds(t) # {}
    BY <1>2, LowestFreeIsFree DEF FreeFds
  <1> QED
    BY <1>1, <1>2

\* The first shell.
LEMMA InitHigh == ASSUME Init PROVE High
  <1>1. \A n \in Standard : fdt[n] # Closed
    BY TableAssumption, RedirectAssumption DEF Init, Standard, Fd
  <1>2. Pending = {} /\ Dots = {1} /\ historyfd = NoFd /\ orphans = {} /\ forks = 0
    BY DEF Init, Pending, Dots
  <1> QED
    BY <1>1, <1>2 DEF High, Standard, NoFd

\* Giving the holders of u a number above the standard ones keeps what High says of them.
LEMMA MovedHigh ==
  ASSUME TypeOK, High, NEW R, NEW u, NEW n, Holds(R, u) => n \notin Standard /\ n # NoFd,
         Dots' = Dots, Pending' \subseteq Pending, UNCHANGED <<forks>>, pc' = "run" => pc = "run",
         historyfd' = IF HistoryHolds(R, u) THEN n ELSE historyfd,
         \A i \in DOMAIN deftab :
           deftab'[i] = IF i \in SlotsHolding(R, u)
                          THEN [deftab[i] EXCEPT !.realfd = n] ELSE deftab[i],
         \A k \in Dots :
           frames'[k] = IF k \in InputsHolding(R, u)
                          THEN [frames[k] EXCEPT !.n = n] ELSE frames[k],
         \A m \in Standard : fdt'[m] # Closed, \A m \in orphans' : m \notin Standard
  PROVE  High'
  <1>1. Pending \subseteq DOMAIN deftab
    BY DEF Pending, TypeOK
  <1>2. ASSUME NEW i \in Pending'
        PROVE  /\ deftab'[i].realfd \notin Standard
               /\ deftab'[i].realfd = NoFd => deftab'[i].userfd \notin Standard
    <2>1. deftab[i] \in Deferral /\ i \in Pending /\ i \in DOMAIN deftab
      BY <1>1 DEF TypeOK
    <2>2. CASE i \in SlotsHolding(R, u)
      <3>1. deftab'[i] = [deftab[i] EXCEPT !.realfd = n]
        BY <2>1, <2>2
      <3>2. deftab'[i].realfd = n
        BY <2>1, <3>1 DEF Deferral
      <3>3. Holds(R, u)
        BY <2>2 DEF Holds
      <3> QED
        BY <3>2, <3>3
    <2>3. CASE i \notin SlotsHolding(R, u)
      BY <2>1, <2>3 DEF High
    <2> QED
      BY <2>2, <2>3
  <1>3. historyfd' \notin Standard
    BY DEF Holds, High
  <1>4. ASSUME NEW k \in Dots', frames'[k].n \in Standard
        PROVE  k = 1 /\ (pc' = "run" => forks' = 0)
    <2>1. CASE k \in InputsHolding(R, u)
      <3>1. frames[k] \in FrameType
        BY DEF TypeOK, Dots
      <3>2. frames'[k] = [frames[k] EXCEPT !.n = n]
        BY <2>1
      <3>3. frames'[k].n = n
        BY <3>1, <3>2 DEF FrameType
      <3>4. Holds(R, u)
        BY <2>1 DEF Holds
      <3> QED
        BY <1>4, <3>3, <3>4
    <2>2. CASE k \notin InputsHolding(R, u)
      BY <1>4, <2>2 DEF High
    <2> QED
      BY <2>1, <2>2
  <1> QED
    BY <1>2, <1>3, <1>4 DEF High

\* With room in the table a move fails only when it is asked for a number beyond it.
LEMMA FailsBeyond ==
  ASSUME TypeOK, NEW t \in Table, FreeFds(t) # {}, NEW h, NEW o, Apart(t, h, o), NEW R,
         NEW u \in UserFds, Holds(R, u) <=> Taken(h, u),
         NEW real \in Fd \cup {NoFd}, Spare(t, h, o, real), ~Fits(t, R, real, u)
  PROVE  /\ ~Holds(R, u) /\ Released(t, R, u) = t /\ u \notin Fd /\ real \in Fd
         /\ ~DupFails(t, R, u)
  <1>1. u \in Nat /\ ~DupFails(t, R, u) /\ real # u
    BY RedirectAssumption, ApartTorn DEF DupFails
  <1>2. Spare(Released(t, R, u), Shifted(h, u, LowestFree(t)), o \ {u}, real)
    BY <1>1, ApartReleased
  <1>3. real # NoFd /\ ~MvfdOk(Released(t, R, u), real, u)
    BY <1>1 DEF Fits
  <1>4. u \notin Fd
    BY <1>1, <1>2, <1>3 DEF MvfdOk, Spare
  <1>5. ~Holds(R, u)
    BY <1>4, HoldsType
  <1> QED
    BY <1>1, <1>3, <1>4, <1>5 DEF Released

\* What redir starts from: real was just opened, and left one number free.
Fresh(t, real, u) ==
  /\ FreeFds(t) # {}
  /\ \A n \in Standard : t[n] # Closed
  /\ real \notin Standard
  /\ real = NoFd => u \notin Standard /\ t = fdt
  /\ real # NoFd => \E file \in Files : real \in FreeFds(fdt) /\ t = OpenAt(fdt, real, file)
  /\ Apart(t, held, orphans) /\ Spare(t, held, orphans, real)

\* A redirection in the shell,
LEMMA DeferHigh ==
  ASSUME SInv, pc = "run", NEW t \in Table, NEW real \in Fd \cup {NoFd}, NEW u \in UserFds,
         Fresh(t, real, u), Defer(t, real, u)
  PROVE  High'
  <1>1. PICK i \in Nat : i = Len(deftab)
    BY DEF SInv, OInv, IInv, TypeOK
  <1>2. /\ fdt' = t /\ deftab' = Append(deftab, [realfd |-> real, userfd |-> u])
        /\ frames' = Append(frames, [kind |-> "redir", n |-> i])
        /\ UNCHANGED <<historyfd, at, orphans, pc, forks>>
    BY <1>1 DEF Defer, Enter
  <1>3. SameFrames(frames) /\ [kind |-> "redir", n |-> i] \in FrameType
    BY <1>1 DEF SameFrames, SInv, OInv, IInv, TypeOK, Dots, FrameType
  <1>4. Dots' = Dots /\ \A k \in Dots : frames'[k].n = frames[k].n
    <2>1. Dots' = Dots
      BY <1>2, <1>3, FramesPushed DEF SInv, OInv, IInv
    <2> QED
      BY <1>2, <2>1 DEF Dots, SInv, OInv, IInv, TypeOK
  <1>5. at = 0
    BY DEF SInv, OInv, IInv, AtRight
  <1>6. /\ Len(deftab') = i + 1
        /\ deftab'[i + 1].realfd = real /\ deftab'[i + 1].userfd = u
        /\ \A j \in 1 .. i : deftab'[j] = deftab[j]
    BY <1>1, <1>2 DEF SInv, OInv, IInv, TypeOK, Deferral
  <1>7. Pending = 1 .. i /\ Pending' = Pending \cup {i + 1}
    BY <1>1, <1>2, <1>5, <1>6 DEF Pending
  <1>8. \A j \in Pending' : /\ deftab'[j].realfd \notin Standard
                            /\ deftab'[j].realfd = NoFd => deftab'[j].userfd \notin Standard
    BY <1>6, <1>7 DEF SInv, High, Fresh
  <1>9. High
    BY DEF SInv
  <1>10. \A k \in Dots' : frames'[k].n \in Standard => k = 1 /\ (pc' = "run" => forks' = 0)
    BY <1>2, <1>4, <1>9 DEF High
  <1>11. /\ \A n \in Standard : fdt'[n] # Closed
         /\ historyfd' \notin Standard
         /\ \A n \in orphans' : n \notin Standard
    BY <1>2, <1>9 DEF High, Fresh
  <1> QED
    BY <1>8, <1>10, <1>11 DEF High

\* a direct one,
LEMMA MoveNowHigh ==
  ASSUME SInv, pc = "run", NEW t \in Table, NEW real \in Fd \cup {NoFd}, NEW u \in UserFds,
         Fresh(t, real, u), MoveNow(t, real, u)
  PROVE  High'
  <1>1. PICK n \in Fd \cup {NoFd} : n = LowestFree(t)
    BY LowestFreeType
  <1>2. n \notin Standard /\ n # NoFd
    BY <1>1, LowestHigh, LowestFreeIsFree DEF Fresh, FreeFds, Fd, NoFd
  <1>3. PICK fs : fs = [k \in DOMAIN frames |->
                          IF k \in InputsHolding(reserved, u)
                            THEN [frames[k] EXCEPT !.n = n] ELSE frames[k]]
    OBVIOUS
  <1>4. TypeOK /\ SameFrames(fs) /\ High
    BY <1>3, MovedFrames, Zenon DEF SInv, OInv, IInv
  <1>5. frames' = Append(fs, [kind |-> "redir", n |-> UNREGISTERED])
    BY <1>1, <1>3, Zenon DEF MoveNow, MovedTicket
  <1>6. Dots' = Dots
    <2>1. [kind |-> "redir", n |-> UNREGISTERED] \in FrameType
      BY DEF FrameType, UNREGISTERED
    <2> QED
      BY <1>4, <1>5, <2>1, FramesPushed
  <1>7. \A k \in Dots : frames'[k] = fs[k]
    BY <1>4, <1>5 DEF Dots, SameFrames, TypeOK
  <1>8. /\ fdt' = Applied(t, reserved, real, u) /\ Fits(t, reserved, real, u)
        /\ orphans' = orphans \ {u} /\ UNCHANGED <<at, pc, forks>>
        /\ historyfd' = IF HistoryHolds(reserved, u) THEN n ELSE historyfd
    BY <1>1 DEF MoveNow
  <1>9. deftab' = [i \in DOMAIN deftab |->
                     IF i \in SlotsHolding(reserved, u)
                       THEN [deftab[i] EXCEPT !.realfd = n] ELSE deftab[i]]
    BY <1>1, Zenon DEF MoveNow
  <1>10. Pending' = Pending
    <2>1. SameDeferrals(deftab')
      BY <1>1, <1>4, <1>9, MovedDeferrals, Zenon
    <2> QED
      BY <1>8, <2>1 DEF SameDeferrals, Pending
  <1>11. \A k \in Dots : frames'[k] = IF k \in InputsHolding(reserved, u)
                            THEN [frames[k] EXCEPT !.n = n] ELSE frames[k]
    BY <1>3, <1>7 DEF Dots
  <1>12. Holds(reserved, u) <=> Taken(held, u)
    <2>1. Registers(reserved, Pending) /\ HeldBy(Pending) = held
      BY AllRegistered DEF SInv, OInv
    <2> QED
      BY <1>4, <2>1, HoldsIsTaken
  <1>13. \A m \in Standard : fdt'[m] # Closed
    <2>1. PICK t2, g : t2 = fdt' /\ g = Shifted(held, u, LowestFree(t))
      OBVIOUS
    <2>2. t2 = Applied(t, reserved, real, u)
      BY <1>8, <2>1
    <2>3. /\ Apart(t, held, orphans) /\ Spare(t, held, orphans, real) /\ real \notin Standard
          /\ \A m \in Standard : t[m] # Closed
          /\ real = NoFd => u \notin Standard
      BY DEF Fresh
    <2>4. Settled(t, held, orphans, real, u, t2, g)
      BY <1>4, <1>8, <1>12, <2>1, <2>2, <2>3, AppliedView
    <2> QED
      BY <2>1, <2>3, <2>4 DEF Settled
  <1>14. \A m \in orphans' : m \notin Standard
    BY <1>4, <1>8 DEF High
  <1>15. \A i \in DOMAIN deftab :
           deftab'[i] = IF i \in SlotsHolding(reserved, u)
                          THEN [deftab[i] EXCEPT !.realfd = n] ELSE deftab[i]
    BY <1>9
  <1> QED
    BY <1>2, <1>4, <1>6, <1>8, <1>10, <1>11, <1>13, <1>14, <1>15, MovedHigh

\* and one that fails: with room in the table it moves nothing.
LEMMA MoveFailsHigh ==
  ASSUME SInv, pc = "run", NEW t \in Table, NEW real \in Fd \cup {NoFd}, NEW u \in UserFds,
         Fresh(t, real, u), MoveFails(t, real, u)
  PROVE  High' /\ fdt' = t /\ orphans' = orphans \cup {real} /\ real \in Fd
         /\ UNCHANGED <<deftab, at>> /\ held' = held
  <1>1. PICK n \in Fd \cup {NoFd} : n = LowestFree(t)
    BY LowestFreeType
  <1>2. /\ fdt' = Released(t, reserved, u) /\ ~Fits(t, reserved, real, u)
        /\ orphans' = orphans \cup Left(t, reserved, real, u) /\ UNCHANGED <<at, pc, forks>>
        /\ MoveHolders(t, reserved, u)
    BY Zenon DEF MoveFails, Left
  <1>3. TypeOK /\ High
    BY DEF SInv, OInv, IInv
  <1>4. Holds(reserved, u) <=> Taken(held, u)
    <2>1. Registers(reserved, Pending) /\ HeldBy(Pending) = held
      BY AllRegistered DEF SInv, OInv
    <2> QED
      BY <1>3, <2>1, HoldsIsTaken
  <1>5. /\ ~Holds(reserved, u) /\ Released(t, reserved, u) = t /\ real \in Fd
        /\ ~DupFails(t, reserved, u)
    BY <1>2, <1>3, <1>4, FailsBeyond DEF Fresh
  <1>6. deftab' = deftab /\ frames' = frames /\ historyfd' = historyfd
    <2>1. deftab' = [i \in DOMAIN deftab |->
                       IF i \in SlotsHolding(reserved, u)
                         THEN [deftab[i] EXCEPT !.realfd = n] ELSE deftab[i]]
      BY <1>1, <1>2, Zenon DEF MoveHolders
    <2>2. frames' = [k \in DOMAIN frames |->
                       IF k \in InputsHolding(reserved, u)
                         THEN [frames[k] EXCEPT !.n = n] ELSE frames[k]]
      BY <1>1, <1>2, Zenon DEF MoveHolders
    <2>3. SlotsHolding(reserved, u) = {} /\ InputsHolding(reserved, u) = {}
          /\ ~HistoryHolds(reserved, u)
      BY <1>5 DEF Holds
    <2>4. deftab = [i \in DOMAIN deftab |-> deftab[i]] /\ frames = [k \in DOMAIN frames |-> frames[k]]
      BY <1>3 DEF TypeOK
    <2> QED
      BY <1>2, <2>1, <2>2, <2>3, <2>4 DEF MoveHolders
  <1>7. orphans' = orphans \cup {real}
    BY <1>2, <1>5 DEF Left, Fd, NoFd
  <1>8. Dots' = Dots /\ Pending' = Pending
    BY <1>2, <1>6 DEF Dots, Pending
  <1>9. held' = held
    <2>1. Owners' = Owners
      BY <1>8 DEF Owners
    <2>2. \A x \in Owners : NumberIn(x)' = NumberIn(x)
      BY <1>6 DEF NumberIn
    <2> QED
      BY <2>1, <2>2 DEF held
  <1>10. High'
    BY <1>2, <1>3, <1>5, <1>6, <1>7, <1>8 DEF High, Fresh
  <1> QED
    BY <1>2, <1>5, <1>6, <1>7, <1>9, <1>10

\* What redir is given by an open or a dup.
LEMMA OpenFresh ==
  ASSUME SInv, Room, NEW file \in Files, NEW n, n = LowestFree(fdt), NEW u
  PROVE  Fresh(OpenAt(fdt, n, file), n, u) /\ n \in Fd /\ OpenAt(fdt, n, file) \in Table
  <1>1. PICK a, b \in FreeFds(fdt) : a # b
    BY DEF Room
  <1>2. OInv /\ FreeFds(fdt) # {} /\ fdt \in Table /\ High
    BY <1>1 DEF SInv, OInv, IInv, TypeOK
  <1>3. n \in FreeFds(fdt) /\ n \in Fd /\ n # NoFd /\ n \notin Standard
    BY <1>2, LowestFreeIsFree, LowestHigh DEF FreeFds, High, Fd, NoFd
  <1>4. PICK t : t = OpenAt(fdt, n, file)
    OBVIOUS
  <1>5. Apart(t, held, orphans) /\ Spare(t, held, orphans, n)
    BY <1>2, <1>4, OpenedSpare
  <1>6. \A m \in Fd : t[m] = IF m = n THEN file ELSE fdt[m]
    BY <1>2, <1>3, <1>4 DEF OpenAt, Table
  <1>7. FreeFds(t) # {}
    <2>1. PICK c \in FreeFds(fdt) : c # n
      BY <1>1
    <2>2. c \in FreeFds(t)
      BY <1>6, <2>1 DEF FreeFds
    <2> QED
      BY <2>2
  <1>8. \A m \in Standard : t[m] # Closed
    <2>1. Standard \subseteq Fd
      BY TableAssumption DEF Standard, Fd
    <2> QED
      BY <1>2, <1>3, <1>6, <2>1 DEF High
  <1>9. t \in Table
    BY <1>2, <1>3, <1>4 DEF OpenAt, Table
  <1> QED
    BY <1>3, <1>4, <1>5, <1>7, <1>8, <1>9 DEF Fresh

\* A close needs no descriptor.
LEMMA CloseFresh ==
  ASSUME SInv, Room, NEW u, u \notin Standard
  PROVE  Fresh(fdt, NoFd, u)
  <1>1. FreeFds(fdt) # {}
    BY DEF Room
  <1> QED
    BY <1>1 DEF Fresh, SInv, OInv, High, Spare, NoFd, Standard

\* The user sees nothing of the number that redir was given.
LEMMA FreshUnseen ==
  ASSUME SInv, NEW t \in Table, NEW real \in Fd \cup {NoFd}, NEW u, Fresh(t, real, u)
  PROVE  /\ \A n \in Fd : BaseOf(t, held, orphans \cup {real})[n] = BaseOf(fdt, held, orphans)[n]
         /\ \A x \in DOMAIN held : FileIn(t, held[x]) = FileIn(fdt, held[x])
  <1>1. NoFd \notin Fd /\ fdt \in Table /\ Apart(fdt, held, orphans)
    BY DEF Fd, NoFd, SInv, OInv, IInv, TypeOK
  <1>2. CASE real = NoFd
    BY <1>1, <1>2 DEF Fresh, BaseOf
  <1>3. CASE real # NoFd
    <2>1. PICK file \in Files : real \in FreeFds(fdt) /\ t = OpenAt(fdt, real, file)
      BY <1>3 DEF Fresh
    <2>2. fdt[real] = Closed /\ \A n \in Fd \ {real} : t[n] = fdt[n]
      BY <1>1, <2>1 DEF FreeFds, OpenAt, Table
    <2>3. \A n \in Fd : BaseOf(t, held, orphans \cup {real})[n] = BaseOf(fdt, held, orphans)[n]
      BY <2>2 DEF BaseOf
    <2>4. \A x \in DOMAIN held : held[x] # real
      BY <1>1, <1>3, <2>2 DEF Apart
    <2> QED
      BY <2>2, <2>3, <2>4 DEF FileIn
  <1> QED
    BY <1>2, <1>3

-----------------------------------------------------------------------------
(***************************************************************************)
(* The layers.                                                             *)
(***************************************************************************)

\* An element of a sequence.
LEMMA ElementOf ==
  ASSUME NEW S, NEW s \in Seq(S), NEW i \in 1 .. Len(s)
  PROVE  s[i] \in S
  OBVIOUS

\* A layer after a step is one from before it when it names the same number and file.
LEMMA LayerKept ==
  ASSUME SInv, SInv', NEW i \in 1 .. Len(Layers), NEW j \in 1 .. Len(Layers'),
         deftab'[at' + j].userfd = deftab[at + i].userfd,
         FileIn(fdt', held'[DeferralAt(at' + j)]) = FileIn(fdt, held[DeferralAt(at + i)])
  PROVE  Layers'[j] = Layers[i]
  <1>1. PICK m \in Nat, n \in Nat : m = Len(deftab) - at /\ n = Len(deftab') - at'
    <2>1. deftab \in Seq(Deferral) /\ at \in 0 .. Len(deftab)
      BY DEF SInv, OInv, IInv, TypeOK
    <2>2. deftab' \in Seq(Deferral) /\ at' \in 0 .. Len(deftab')
      BY DEF SInv, OInv, IInv, TypeOK
    <2>3. Len(deftab) - at \in Nat
      BY <2>1
    <2>4. Len(deftab') - at' \in Nat
      BY <2>2
    <2> QED
      BY <2>3, <2>4
  <1>2. /\ Layers \in Seq([fd : UserFds, file : Files \cup {Closed}]) /\ Len(Layers) = m
        /\ \A k \in 1 .. m : LayerRight(k)
    BY <1>1, ScopesAre DEF ScopesRight
  <1>3. /\ Layers' \in Seq([fd : UserFds, file : Files \cup {Closed}]) /\ Len(Layers') = n
        /\ \A k \in 1 .. n : LayerRight(k)'
    BY <1>1, ScopesNextAre DEF ScopesRight
  <1>4. /\ Layers[i].fd = deftab[at + i].userfd
        /\ Layers[i].file = FileIn(fdt, held[DeferralAt(at + i)])
    BY <1>2 DEF LayerRight
  <1>5. /\ Layers'[j].fd = deftab'[at' + j].userfd
        /\ Layers'[j].file = FileIn(fdt', held'[DeferralAt(at' + j)])
    BY <1>3 DEF LayerRight
  <1>6. Layers[i] \in [fd : UserFds, file : Files \cup {Closed}]
    BY <1>2, ElementOf
  <1>7. Layers'[j] \in [fd : UserFds, file : Files \cup {Closed}]
    BY <1>3, ElementOf
  <1> QED
    BY <1>4, <1>5, <1>6, <1>7

\* The layers stay when every pending deferral keeps its number and its file.
LEMMA LayersKept ==
  ASSUME SInv, SInv', UNCHANGED at, Len(deftab') = Len(deftab),
         \A i \in Pending : deftab'[i].userfd = deftab[i].userfd,
         \A i \in Pending : FileIn(fdt', held'[DeferralAt(i)]) = FileIn(fdt, held[DeferralAt(i)])
  PROVE  Layers' = Layers
  <1>1. PICK n \in Nat : n = Len(deftab) - at /\ Len(deftab') - at' = n
    <2>1. deftab \in Seq(Deferral) /\ at \in 0 .. Len(deftab)
      BY DEF SInv, OInv, IInv, TypeOK
    <2> QED
      BY <2>1
  <1>2. /\ Layers \in Seq([fd : UserFds, file : Files \cup {Closed}]) /\ Len(Layers) = n
        /\ Layers' \in Seq([fd : UserFds, file : Files \cup {Closed}]) /\ Len(Layers') = n
    BY <1>1, ScopesAre, ScopesNextAre DEF ScopesRight
  <1>3. ASSUME NEW i \in 1 .. n PROVE Layers'[i] = Layers[i]
    <2>1. at + i \in Pending
      BY <1>1 DEF Pending, SInv, OInv, IInv, TypeOK
    <2> QED
      BY <1>2, <2>1, LayerKept
  <1> QED
    BY <1>2, <1>3

\* The shell's own steps.
LEMMA OwnStepsKeep ==
  ASSUME SInv, SInv', Unseen, UNCHANGED <<deftab, at>>
  PROVE  Base' = Base /\ Layers' = Layers
  <1>1. Pending' = Pending
    BY DEF Pending
  <1>2. ASSUME NEW i \in Pending
        PROVE  FileIn(fdt', held'[DeferralAt(i)]) = FileIn(fdt, held[DeferralAt(i)])
    <2>1. /\ DeferralAt(i) \in DOMAIN held \cap DOMAIN held'
          /\ held'[DeferralAt(i)] = held[DeferralAt(i)]
      BY <1>1, HeldIs, HeldNext DEF HeldRight
    <2> QED
      BY <2>1 DEF Unseen
  <1> QED
    BY <1>2, LayersKept DEF Unseen

\* A deferral opens a scope.
LEMMA DeferRedirects ==
  ASSUME SInv, SInv', pc = "run", NEW t \in Table, NEW real \in Fd \cup {NoFd},
         NEW u \in UserFds, Fresh(t, real, u), Defer(t, real, u)
  PROVE  Scopes!Redirect
  <1>1. PICK n \in Nat : n = Len(deftab) /\ at = 0 /\ at' = 0
    BY DEF SInv, OInv, IInv, TypeOK, AtRight, Defer
  <1>2. PICK x : x = DeferralAt(n + 1)
    OBVIOUS
  <1>3. x \notin DOMAIN held /\ Takes(x, real) /\ fdt' = t /\ orphans' = orphans
    BY <1>1, <1>2, DeferTakes DEF SInv
  <1>4. Unseen
    <2>1. CASE real = NoFd
      <3>1. fdt' = fdt
        BY <1>3, <2>1 DEF Fresh
      <3>2. \A m \in Fd : Taken(held', m) <=> Taken(held, m)
        BY <1>3, <2>1 DEF Takes, Taken, Fd, NoFd
      <3>3. \A m \in Fd : BaseOf(fdt', held', orphans')[m] = BaseOf(fdt, held, orphans)[m]
        BY <1>3, <3>1, <3>2 DEF BaseOf
      <3>4. Base = BaseOf(fdt, held, orphans) /\ Base' = BaseOf(fdt', held', orphans')
        BY ScopesAre, ScopesNextAre DEF ScopesRight
      <3> QED
        BY <3>1, <3>3, <3>4, BasesEqual DEF Unseen
    <2>2. CASE real # NoFd
      <3>1. Opens(x)
        BY <1>3, <2>2 DEF Fresh, Opens
      <3> QED
        BY <3>1, OwnStepsUnseen
    <2> QED
      BY <2>1, <2>2
  <1>5. /\ deftab' = Append(deftab, [realfd |-> real, userfd |-> u])
        /\ deftab \in Seq(Deferral) /\ [realfd |-> real, userfd |-> u] \in Deferral
    BY DEF Defer, SInv, OInv, IInv, TypeOK, Deferral
  <1>6. Len(deftab') = n + 1 /\ \A i \in 1 .. n : deftab'[i] = deftab[i]
    BY <1>1, <1>5
  <1>7. /\ Layers \in Seq([fd : UserFds, file : Files \cup {Closed}]) /\ Len(Layers) = n
        /\ Layers' \in Seq([fd : UserFds, file : Files \cup {Closed}]) /\ Len(Layers') = n + 1
    BY <1>1, <1>6, ScopesAre, ScopesNextAre DEF ScopesRight
  <1>8. ASSUME NEW i \in 1 .. n PROVE Layers'[i] = Layers[i]
    <2>1. i \in 1 .. (n + 1) /\ at + i = i /\ at' + i = i
      BY <1>1
    <2>2. DeferralAt(i) \in DOMAIN held
      <3>1. LayerRight(i)
        BY <1>1, ScopesAre DEF ScopesRight
      <3> QED
        BY <2>1, <3>1 DEF LayerRight
    <2>3. DeferralAt(i) \in DOMAIN held' /\ held'[DeferralAt(i)] = held[DeferralAt(i)]
      BY <1>3, <2>2 DEF Takes
    <2>4. FileIn(fdt', held'[DeferralAt(i)]) = FileIn(fdt, held[DeferralAt(i)])
      BY <1>4, <2>2, <2>3 DEF Unseen
    <2> QED
      BY <1>6, <1>7, <2>1, <2>4, LayerKept
  <1>9. Layers'[n + 1] \in Scopes!Scope /\ Layers' # <<>>
    <2>1. n + 1 \in 1 .. Len(Layers')
      BY <1>7
    <2>2. Layers'[n + 1] \in [fd : UserFds, file : Files \cup {Closed}]
      BY <1>7, <2>1, ElementOf
    <2> QED
      BY <1>7, <2>2 DEF Scopes!Scope
  <1>10. Layers' = Append(Layers, Layers'[n + 1])
    BY <1>7, <1>8
  <1> QED
    BY <1>4, <1>7, <1>9, <1>10 DEF Scopes!Redirect, Scopes!Innermost, Unseen

\* What a direct redirection does to the owners and the deferrals.
LEMMA MoveNowShifts ==
  ASSUME OInv, pc = "run", NEW t \in Table, NEW real \in Fd \cup {NoFd}, NEW u \in UserFds,
         MoveNow(t, real, u)
  PROVE  /\ DOMAIN held' = DOMAIN Shifted(held, u, LowestFree(t))
         /\ \A x \in DOMAIN held' : held'[x] = Shifted(held, u, LowestFree(t))[x]
         /\ Holds(reserved, u) <=> Taken(held, u)
         /\ Len(deftab') = Len(deftab) /\ UNCHANGED at
         /\ \A i \in DOMAIN deftab : deftab'[i].userfd = deftab[i].userfd
  <1>1. PICK n \in Fd \cup {NoFd} : n = LowestFree(t)
    BY LowestFreeType
  <1>2. PICK fs : fs = [k \in DOMAIN frames |->
                          IF k \in InputsHolding(reserved, u)
                            THEN [frames[k] EXCEPT !.n = n] ELSE frames[k]]
    OBVIOUS
  <1>3. TypeOK /\ SameFrames(fs)
    BY <1>2, MovedFrames, Zenon DEF OInv, IInv
  <1>4. frames' = Append(fs, [kind |-> "redir", n |-> UNREGISTERED])
    BY <1>1, <1>2, Zenon DEF MoveNow, MovedTicket
  <1>5. Dots' = Dots
    <2>1. [kind |-> "redir", n |-> UNREGISTERED] \in FrameType
      BY DEF FrameType, UNREGISTERED
    <2> QED
      BY <1>3, <1>4, <2>1, FramesPushed
  <1>6. \A k \in Dots : frames'[k] = fs[k]
    BY <1>3, <1>4 DEF Dots, SameFrames, TypeOK
  <1>7. UNCHANGED at /\ historyfd' = IF HistoryHolds(reserved, u) THEN n ELSE historyfd
    BY <1>1 DEF MoveNow
  <1>8. deftab' = [i \in DOMAIN deftab |->
                     IF i \in SlotsHolding(reserved, u)
                       THEN [deftab[i] EXCEPT !.realfd = n] ELSE deftab[i]]
    BY <1>1, Zenon DEF MoveNow
  <1>9. Len(deftab') = Len(deftab)
    <2>1. SameDeferrals(deftab')
      BY <1>1, <1>3, <1>8, MovedDeferrals, Zenon
    <2> QED
      BY <2>1 DEF SameDeferrals
  <1>10. \A k \in Dots : frames'[k] = IF k \in InputsHolding(reserved, u)
                            THEN [frames[k] EXCEPT !.n = n] ELSE frames[k]
    BY <1>2, <1>6 DEF Dots
  <1>11. ASSUME NEW i \in DOMAIN deftab PROVE deftab'[i].userfd = deftab[i].userfd
    <2>1. deftab[i] \in Deferral
      BY <1>3 DEF TypeOK
    <2>2. [deftab[i] EXCEPT !.realfd = n].userfd = deftab[i].userfd
      BY <2>1 DEF Deferral
    <2> QED
      BY <1>8, <2>2
  <1> QED
    BY <1>1, <1>5, <1>7, <1>8, <1>9, <1>10, <1>11, MovedShift

\* The base table as a function: a step that changes it at u only.
LEMMA BaseRebased ==
  ASSUME NEW u, NEW f, \A n \in Fd : Base'[n] = IF n = u THEN f ELSE Base[n]
  PROVE  Base' = [Base EXCEPT ![u] = f]
  <1>1. Base' = [n \in Fd |-> Base'[n]] /\ DOMAIN Base = Fd
    BY DEF Base
  <1>2. Base' = [n \in Fd |-> IF n = u THEN f ELSE Base[n]]
    BY <1>1
  <1> QED
    BY <1>1, <1>2

\* A direct redirection changes the base table at the number it names.
LEMMA MoveNowRebases ==
  ASSUME SInv, SInv', pc = "run", NEW t \in Table, NEW real \in Fd \cup {NoFd},
         NEW u \in UserFds, Fresh(t, real, u), MoveNow(t, real, u)
  PROVE  Scopes!Rebase \/ UNCHANGED <<Base, Layers>>
  <1>1. /\ OInv /\ TypeOK
        /\ Base = BaseOf(fdt, held, orphans) /\ Base' = BaseOf(fdt', held', orphans')
    BY ScopesAre, ScopesNextAre DEF ScopesRight, SInv, OInv, IInv
  <1>2. /\ fdt' = Applied(t, reserved, real, u) /\ Fits(t, reserved, real, u)
        /\ orphans' = orphans \ {u}
    BY DEF MoveNow
  <1>3. PICK g, t2 : g = Shifted(held, u, LowestFree(t)) /\ t2 = fdt'
    OBVIOUS
  <1>4. /\ DOMAIN held' = DOMAIN g /\ DOMAIN g = DOMAIN held
        /\ \A x \in DOMAIN held' : held'[x] = g[x]
        /\ Holds(reserved, u) <=> Taken(held, u)
        /\ Len(deftab') = Len(deftab) /\ UNCHANGED at
        /\ \A i \in DOMAIN deftab : deftab'[i].userfd = deftab[i].userfd
    BY <1>1, <1>3, MoveNowShifts DEF Shifted
  <1>5. Settled(t, held, orphans, real, u, t2, g)
    <2>1. /\ Apart(t, held, orphans) /\ Spare(t, held, orphans, real) /\ real \notin Standard
          /\ \A m \in Standard : t[m] # Closed
      BY DEF Fresh
    <2> QED
      BY <1>1, <1>2, <1>3, <1>4, <2>1, AppliedView
  <1>6. \A n \in Fd : Base'[n] = IF n = u THEN FileIn(t, real) ELSE Base[n]
    <2>1. \A n \in Fd : Taken(held', n) <=> Taken(g, n)
      BY <1>4 DEF Taken
    <2>2. \A n \in Fd : BaseOf(fdt', held', orphans')[n] = BaseOf(t2, g, orphans \ {u})[n]
      BY <1>2, <1>3, <2>1 DEF BaseOf
    <2> QED
      BY <1>1, <1>5, <2>2, FreshUnseen DEF Settled
  <1>7. Layers' = Layers
    <2>1. \A i \in Pending : i \in DOMAIN deftab /\ DeferralAt(i) \in DOMAIN held
      BY <1>1, HeldIs DEF HeldRight, Pending, TypeOK
    <2>2. ASSUME NEW i \in Pending
          PROVE  FileIn(fdt', held'[DeferralAt(i)]) = FileIn(fdt, held[DeferralAt(i)])
      BY <1>3, <1>4, <1>5, <2>1, FreshUnseen DEF Settled
    <2> QED
      BY <1>4, <2>1, <2>2, LayersKept
  <1>8. Base' = [Base EXCEPT ![u] = FileIn(t, real)]
    BY <1>6, BaseRebased
  <1>9. CASE u \in Fd
    <2>1. Base'[u] = FileIn(t, real) /\ FileIn(t, real) \in Files \cup {Closed}
      BY <1>6, <1>9 DEF FileIn, Table
    <2> QED
      BY <1>7, <1>8, <1>9, <2>1 DEF Scopes!Rebase
  <1>10. CASE u \notin Fd
    <2>1. \A n \in Fd : BaseOf(fdt', held', orphans')[n] = BaseOf(fdt, held, orphans)[n]
      BY <1>1, <1>6, <1>10
    <2> QED
      BY <1>1, <1>7, <2>1, BasesEqual
  <1> QED
    BY <1>9, <1>10

\* One that fails leaves the user's view alone: what it had opened stays hidden.
LEMMA MoveFailsKeeps ==
  ASSUME SInv, SInv', pc = "run", NEW t \in Table, NEW real \in Fd \cup {NoFd},
         NEW u \in UserFds, Fresh(t, real, u), MoveFails(t, real, u)
  PROVE  UNCHANGED <<Base, Layers>>
  <1>1. Base = BaseOf(fdt, held, orphans) /\ Base' = BaseOf(fdt', held', orphans')
    BY ScopesAre, ScopesNextAre DEF ScopesRight
  <1>2. /\ fdt' = t /\ orphans' = orphans \cup {real} /\ UNCHANGED <<deftab, at>>
        /\ held' = held
    BY MoveFailsHigh
  <1>3. /\ \A n \in Fd : BaseOf(t, held, orphans \cup {real})[n] = BaseOf(fdt, held, orphans)[n]
        /\ \A x \in DOMAIN held : FileIn(t, held[x]) = FileIn(fdt, held[x])
    BY FreshUnseen
  <1>4. Base' = Base
    BY <1>1, <1>2, <1>3, BasesEqual
  <1>5. \A i \in Pending : DeferralAt(i) \in DOMAIN held
    BY HeldIs DEF HeldRight
  <1>6. Layers' = Layers
    BY <1>2, <1>3, <1>5, LayersKept
  <1> QED
    BY <1>4, <1>6

\* redir in any of its three ways is a step of the scopes.
ScopesStep == Scopes!Redirect \/ Scopes!Rebase \/ UNCHANGED <<Base, Layers>>

\* The invariant is kept along the way.
LEMMA RedirScopes ==
  ASSUME SInv, pc = "run", OInv', NEW t \in Table, NEW real \in Fd \cup {NoFd},
         NEW u \in UserFds, Fresh(t, real, u), Redir(t, real, u)
  PROVE  SInv' /\ ScopesStep
  <1>1. High'
    BY DeferHigh, MoveNowHigh, MoveFailsHigh DEF Redir
  <1>2. SInv'
    BY <1>1 DEF SInv
  <1> QED
    BY <1>2, DeferRedirects, MoveNowRebases, MoveFailsKeeps DEF Redir, ScopesStep

\* %open and its relatives,
LEMMA OpenFileScopes ==
  ASSUME SInv, Room, OInv', NEW u \in UserFds, NEW file \in UserFiles, OpenFile(u, file)
  PROVE  SInv' /\ ScopesStep
  <1>1. PICK n : n = LowestFree(fdt)
    OBVIOUS
  <1>2. file \in Files
    BY RedirectAssumption
  <1>3. Fresh(OpenAt(fdt, n, file), n, u) /\ n \in Fd /\ OpenAt(fdt, n, file) \in Table
    BY <1>1, <1>2, OpenFresh
  <1>4. pc = "run" /\ Redir(OpenAt(fdt, n, file), n, u)
    BY <1>1 DEF OpenFile, Running
  <1> QED
    BY <1>3, <1>4, RedirScopes

\* %dup,
LEMMA DupFdScopes ==
  ASSUME SInv, Room, OInv', NEW u \in UserFds, NEW o \in UserFds, DupFd(u, o)
  PROVE  SInv' /\ ScopesStep
  <1>1. PICK s \in Fd : s = FdMap(o) /\ fdt[s] # Closed
    BY DEF DupFd
  <1>2. PICK n, file : n = LowestFree(fdt) /\ file = fdt[s]
    OBVIOUS
  <1>3. file \in Files
    BY <1>1, <1>2 DEF SInv, OInv, IInv, TypeOK, Table
  <1>4. Fresh(OpenAt(fdt, n, file), n, u) /\ n \in Fd /\ OpenAt(fdt, n, file) \in Table
    BY <1>2, <1>3, OpenFresh
  <1>5. pc = "run" /\ Redir(OpenAt(fdt, n, file), n, u)
    BY <1>1, <1>2 DEF DupFd, Running
  <1> QED
    BY <1>4, <1>5, RedirScopes

\* and %close.
LEMMA CloseUserScopes ==
  ASSUME Closable \cap Standard = {}, SInv, Room, OInv', NEW u \in UserFds, CloseUser(u)
  PROVE  SInv' /\ ScopesStep
  <1>1. pc = "run" /\ Redir(fdt, NoFd, u) /\ u \notin Standard
    BY DEF CloseUser, Running
  <1>2. Fresh(fdt, NoFd, u) /\ fdt \in Table
    BY <1>1, CloseFresh DEF SInv, OInv, IInv, TypeOK
  <1> QED
    BY <1>1, <1>2, RedirScopes

-----------------------------------------------------------------------------
(***************************************************************************)
(* The shell's own steps.                                                  *)
(***************************************************************************)
OwnStep ==
  \/ Idles
  \/ \E x : Opens(x)
  \/ \E x : Closes(x) /\ held[x] \notin Standard

\* No variable is given a standard number, and these numbers stay open.
StandardStays ==
  /\ \A x \in DOMAIN held' : held'[x] \in Standard => x \in DOMAIN held /\ held'[x] = held[x]
  /\ \A n \in Standard : fdt'[n] # Closed
  /\ orphans' = orphans

\* What such a step writes into a variable is above the standard numbers.
LEMMA OwnStepsHigh ==
  ASSUME SInv, OInv', OwnStep,
         \A i \in Pending' : i \in Pending /\ deftab'[i] = deftab[i],
         pc' = "run" => pc = "run" /\ forks' = forks
  PROVE  SInv'
  <1>1. /\ fdt \in Table /\ Standard \subseteq Fd /\ NoFd \notin Fd
        /\ \A n \in Standard : fdt[n] # Closed
    BY TableAssumption DEF SInv, OInv, IInv, TypeOK, High, Standard, Fd, NoFd
  <1>2. HeldRight /\ HeldRight' /\ High
    BY HeldIs, HeldNext DEF SInv
  <1>3. StandardStays
    <2>1. CASE Idles
      BY <1>1, <2>1 DEF Idles, StandardStays
    <2>2. ASSUME NEW x, NEW n \in FreeFds(fdt), NEW file \in Files,
                 fdt' = OpenAt(fdt, n, file), orphans' = orphans, Takes(x, n)
          PROVE  StandardStays
      <3>1. n \in Fd /\ n \notin Standard
        BY <1>1, <2>2 DEF FreeFds
      <3>2. \A m \in Standard : fdt'[m] = fdt[m]
        BY <1>1, <2>2, <3>1 DEF OpenAt, Table
      <3> QED
        BY <1>1, <2>2, <3>1, <3>2 DEF Takes, StandardStays
    <2>3. ASSUME NEW x, Closes(x), held[x] \notin Standard
          PROVE  StandardStays
      <3>1. fdt' = CloseFd(fdt, held[x]) /\ orphans' = orphans /\ Leaves(x)
        BY <2>3 DEF Closes
      <3>2. \A m \in Standard : fdt'[m] = fdt[m]
        BY <1>1, <2>3, <3>1 DEF CloseFd, Table
      <3>3. NoFd \notin Standard
        BY <1>1
      <3> QED
        BY <1>1, <3>1, <3>2, <3>3 DEF Leaves, StandardStays
    <2> QED
      BY <2>1, <2>2, <2>3 DEF OwnStep, Opens
  <1>4. ASSUME NEW i \in Pending'
        PROVE  /\ deftab'[i].realfd \notin Standard
               /\ deftab'[i].realfd = NoFd => deftab'[i].userfd \notin Standard
    BY <1>2 DEF High
  <1>5. historyfd' \notin Standard
    BY <1>2, <1>3 DEF HeldRight, High, StandardStays
  <1>6. ASSUME NEW k \in Dots', frames'[k].n \in Standard
        PROVE  k = 1 /\ (pc' = "run" => forks' = 0)
    <2>1. held'[InputAt(k)] \in Standard /\ InputAt(k) \in DOMAIN held'
      BY <1>2, <1>6 DEF HeldRight
    <2>2. InputAt(k) \in DOMAIN held /\ held[InputAt(k)] \in Standard
      BY <1>3, <2>1 DEF StandardStays
    <2>3. k \in Dots
      BY <1>2, <2>2, OwnersDiffer DEF HeldRight, Owners
    <2> QED
      BY <1>2, <2>2, <2>3 DEF HeldRight, High
  <1> QED
    BY <1>2, <1>3, <1>4, <1>5, <1>6 DEF High, SInv, StandardStays

\* Scripts, inputs and the history file come and go without the user seeing it.
LEMMA OwnStepsScopes ==
  ASSUME SInv, OInv', OwnStep, UNCHANGED <<deftab, at>>,
         pc' = "run" => pc = "run" /\ forks' = forks
  PROVE  SInv' /\ UNCHANGED <<Base, Layers>>
  <1>1. Pending' = Pending
    BY DEF Pending
  <1>2. SInv'
    BY <1>1, OwnStepsHigh
  <1>3. Unseen
    BY <1>2, OwnStepsUnseen DEF OwnStep
  <1> QED
    BY <1>2, <1>3, OwnStepsKeep

\* Inputs: a script is above the standard numbers, and the shell's own input stays.
LEMMA InputStepsScopes ==
  ASSUME Closable \cap Standard = {}, SInv, OInv', Dot \/ EndOfInput \/ LeaveDot
  PROVE  SInv' /\ UNCHANGED <<Base, Layers>>
  <1>1. UNCHANGED <<deftab, at, pc, forks>> /\ pc = "run"
    BY DEF Dot, EndOfInput, LeaveDot, Running
  <1>2. OInv /\ High /\ HeldRight
    BY HeldIs DEF SInv
  <1>3. CASE Dot
    BY <1>1, <1>2, <1>3, DotOpens, OwnStepsScopes DEF OwnStep
  <1>4. CASE EndOfInput
    <2>1. PICK k \in Dots : /\ Closes(InputAt(k))
                            /\ frames[k].n \in 0 .. 2 => frames[k].n \in Closable
      BY <1>2, <1>4, EndOfInputCloses
    <2>2. held[InputAt(k)] \notin Standard
      BY <1>2, <2>1 DEF HeldRight, Standard
    <2> QED
      BY <1>1, <2>1, <2>2, OwnStepsScopes DEF OwnStep
  <1>5. CASE LeaveDot
    <2>1. PICK k : k = Len(frames)
      OBVIOUS
    <2>2. Closes(InputAt(k))
      BY <1>2, <1>5, <2>1, LeaveDotCloses
    <2>3. k \in Dots
      BY <1>2, <1>5, <2>1 DEF LeaveDot, Dots, Top, OInv, IInv, TypeOK
    <2>4. k = 1 => forks # 0
      BY <1>2, <1>5, <2>1 DEF LeaveDot, OInv, IInv, TypeOK
    <2>5. held[InputAt(k)] \notin Standard
      BY <1>1, <1>2, <2>3, <2>4 DEF HeldRight, High
    <2> QED
      BY <1>1, <2>2, <2>5, OwnStepsScopes DEF OwnStep
  <1> QED
    BY <1>3, <1>4, <1>5

\* The history file.
LEMMA HistoryStepsScopes ==
  ASSUME SInv, OInv', LogHistory \/ SetHistory
  PROVE  SInv' /\ UNCHANGED <<Base, Layers>>
  <1>1. UNCHANGED <<deftab, at, pc, forks>> /\ pc = "run"
    BY DEF LogHistory, SetHistory
  <1>2. Opens(History) \/ Closes(History)
    BY HistoryOpensCloses DEF SInv
  <1>3. held[History] \notin Standard
    BY HeldIs DEF HeldRight, High, SInv
  <1> QED
    BY <1>1, <1>2, <1>3, OwnStepsScopes DEF OwnStep

\* A fork or an exec begins, or nothing happens.
LEMMA ForkScopes ==
  ASSUME SInv, OInv', UNCHANGED <<fdt, deftab, historyfd, frames, at, orphans>>,
         pc' = "run" => pc = "run" /\ forks' = forks
  PROVE  SInv' /\ UNCHANGED <<Base, Layers>>
  BY UnchangedIdles, OwnStepsScopes DEF OwnStep

\* undefer uncovers what the scope covered.
LEMMA LeaveRedirScopes ==
  ASSUME SInv, OInv', LeaveRedir
  PROVE  SInv' /\ (Scopes!Leave \/ UNCHANGED <<Base, Layers>>)
  <1>1. /\ UNCHANGED <<at, pc, forks>> /\ pc = "run" /\ at = 0
        /\ OInv /\ High /\ HeldRight /\ TypeOK
    BY HeldIs DEF LeaveRedir, SInv, OInv, IInv, AtRight
  <1>2. PICK n \in Nat : n = Len(deftab)
    BY <1>1 DEF TypeOK
  <1>3. CASE Top.n = UNREGISTERED
    <2>1. Idles /\ deftab' = deftab
      BY <1>1, <1>3, LeaveRedirCloses DEF LeaveRedir
    <2> QED
      BY <1>1, <2>1, OwnStepsScopes DEF OwnStep
  <1>4. CASE Top.n # UNREGISTERED
    <2>1. Closes(DeferralAt(n)) /\ deftab' = SubSeq(deftab, 1, n - 1)
      BY <1>1, <1>2, <1>4, LeaveRedirCloses DEF LeaveRedir
    <2>2. n \in Pending
      BY <1>1, <2>1, OwnersDiffer DEF Closes, HeldRight, Owners
    <2>3. n \in Nat \ {0} /\ Pending = 1 .. n
      BY <1>1, <1>2, <2>2 DEF Pending
    <2>4. /\ Len(deftab') = n - 1 /\ \A i \in 1 .. (n - 1) : deftab'[i] = deftab[i]
          /\ Pending' = 1 .. (n - 1)
      BY <1>1, <1>2, <2>1, <2>3 DEF Pending, TypeOK
    <2>5. OwnStep
      BY <1>1, <2>1, <2>2 DEF OwnStep, HeldRight, High
    <2>6. SInv'
      BY <1>1, <2>3, <2>4, <2>5, OwnStepsHigh
    <2>7. Unseen
      BY <2>5, <2>6, OwnStepsUnseen DEF OwnStep
    <2>8. /\ Layers \in Seq([fd : UserFds, file : Files \cup {Closed}]) /\ Len(Layers) = n
          /\ Layers' \in Seq([fd : UserFds, file : Files \cup {Closed}]) /\ Len(Layers') = n - 1
      BY <1>1, <1>2, <2>3, <2>4, <2>6, ScopesAre, ScopesNextAre DEF ScopesRight
    <2>9. ASSUME NEW i \in 1 .. (n - 1) PROVE Layers'[i] = Layers[i]
      <3>1. i \in Pending /\ i \in Pending' /\ at + i = i /\ at' + i = i
        BY <1>1, <2>3, <2>4
      <3>2. /\ DeferralAt(i) \in DOMAIN held \cap DOMAIN held'
            /\ held'[DeferralAt(i)] = held[DeferralAt(i)]
        BY <1>1, <2>4, <3>1, HeldNext DEF HeldRight
      <3>3. FileIn(fdt', held'[DeferralAt(i)]) = FileIn(fdt, held[DeferralAt(i)])
        BY <2>7, <3>2 DEF Unseen
      <3> QED
        BY <2>4, <2>6, <2>8, <3>1, <3>3, LayerKept
    <2>10. Layers' = SubSeq(Layers, 1, Len(Layers) - 1) /\ Layers # <<>>
      BY <2>3, <2>8, <2>9
    <2> QED
      BY <2>6, <2>7, <2>10 DEF Scopes!Leave, Unseen
  <1> QED
    BY <1>3, <1>4

-----------------------------------------------------------------------------
(***************************************************************************)
(* closefds.                                                               *)
(***************************************************************************)

\* The process goes on to the next deferral, or tears in this one.
LEMMA RemapOneSettles ==
  ASSUME SInv, Room, OInv', RemapOne
  PROVE  SInv' /\ (Scopes!Settle \/ UNCHANGED <<Base, Layers>>)
  <1>1. PICK x, R, h, g : \E u \in UserFds, real \in Fd \cup {NoFd} :
          x = DeferralAt(at + 1) /\ Turn(x, R, u, real, h, g)
    BY RemapOneTurns DEF SInv
  <1>2. PICK u \in UserFds, real \in Fd \cup {NoFd} :
          x = DeferralAt(at + 1) /\ Turn(x, R, u, real, h, g)
    BY <1>1
  <1>3. /\ Apart(fdt, h, orphans) /\ Spare(fdt, h, orphans, real) /\ (Holds(R, u) <=> Taken(h, u))
        /\ x \notin DOMAIN h /\ DOMAIN held = DOMAIN h \cup {x} /\ held[x] = real
        /\ \A y \in DOMAIN h : h[y] = held[y]
        /\ g = Shifted(h, u, LowestFree(fdt)) /\ DOMAIN g = DOMAIN h
        /\ \A y \in DOMAIN h : y \in DOMAIN held' /\ held'[y] = g[y]
        /\ MoveHolders(fdt, R, u) /\ Len(deftab') = Len(deftab) /\ Dots' = Dots
        /\ real = deftab[at + 1].realfd /\ u = deftab[at + 1].userfd
    BY <1>2 DEF Turn
  <1>4. /\ TypeOK /\ OInv /\ High /\ HeldRight /\ HeldRight' /\ fdt \in Table
        /\ \A m \in Standard : fdt[m] # Closed
    BY HeldIs, HeldNext DEF SInv, OInv, IInv, TypeOK, High
  <1>5. PICK n \in Nat : n = Len(deftab)
    BY <1>4 DEF TypeOK
  <1>6. at < n /\ at \in Nat /\ UNCHANGED forks /\ pc' # "run"
    BY <1>4, <1>5 DEF RemapOne, Remapping, TypeOK
  <1>7. at + 1 \in Pending /\ at + 1 \in DOMAIN deftab
    BY <1>4, <1>5, <1>6 DEF Pending, TypeOK
  <1>8. real \notin Standard /\ (real = NoFd => u \notin Standard)
    BY <1>3, <1>4, <1>7 DEF High
  <1>9. PICK w \in Fd \cup {NoFd} : w = LowestFree(fdt)
    BY LowestFreeType
  <1>10. /\ \A i \in DOMAIN deftab :
              deftab'[i] = IF i \in SlotsHolding(R, u)
                             THEN [deftab[i] EXCEPT !.realfd = w] ELSE deftab[i]
         /\ \A k \in Dots :
              frames'[k] = IF k \in InputsHolding(R, u)
                             THEN [frames[k] EXCEPT !.n = w] ELSE frames[k]
         /\ historyfd' = IF HistoryHolds(R, u) THEN w ELSE historyfd
    <2>1. deftab' = [i \in DOMAIN deftab |->
                       IF i \in SlotsHolding(R, u)
                         THEN [deftab[i] EXCEPT !.realfd = w] ELSE deftab[i]]
      BY <1>3, <1>9, Zenon DEF MoveHolders
    <2>2. frames' = [k \in DOMAIN frames |->
                       IF k \in InputsHolding(R, u)
                         THEN [frames[k] EXCEPT !.n = w] ELSE frames[k]]
      BY <1>3, <1>9, Zenon DEF MoveHolders
    <2>3. historyfd' = IF HistoryHolds(R, u) THEN w ELSE historyfd
      BY <1>3, <1>9 DEF MoveHolders
    <2> QED
      BY <2>1, <2>2, <2>3 DEF Dots
  <1>11. FreeFds(fdt) # {}
    BY DEF Room
  <1>12. CASE ~Fits(fdt, R, real, u)
    <2>1. ~Holds(R, u) /\ Released(fdt, R, u) = fdt
      BY <1>3, <1>4, <1>11, <1>12, FailsBeyond
    <2>2. /\ fdt' = fdt /\ orphans' = orphans /\ at' = at
          /\ DOMAIN held' = DOMAIN held /\ held'[x] = real
      BY <1>2, <1>12, <2>1 DEF Turn
    <2>3. \A y \in DOMAIN held : held'[y] = held[y]
      BY <1>3, <2>1, <2>2 DEF Shifted, Taken
    <2>4. Idles
      BY <2>2, <2>3 DEF Idles
    <2>5. Pending' = Pending /\ \A i \in Pending : deftab'[i] = deftab[i]
      <3>1. Pending' = Pending /\ Pending \subseteq DOMAIN deftab
        BY <1>3, <1>4, <2>2 DEF Pending, TypeOK
      <3>2. SlotsHolding(R, u) = {}
        BY <2>1 DEF Holds
      <3> QED
        BY <1>10, <3>1, <3>2
    <2>6. SInv'
      BY <1>6, <2>4, <2>5, OwnStepsHigh DEF OwnStep
    <2>7. Unseen
      BY <2>4, <2>6, OwnStepsUnseen
    <2>8. ASSUME NEW i \in Pending
          PROVE  FileIn(fdt', held'[DeferralAt(i)]) = FileIn(fdt, held[DeferralAt(i)])
      BY <1>4, <2>2, <2>3 DEF HeldRight
    <2>9. Layers' = Layers
      BY <1>3, <2>2, <2>5, <2>6, <2>8, LayersKept
    <2> QED
      BY <2>6, <2>7, <2>9 DEF Unseen
  <1>13. CASE Fits(fdt, R, real, u)
    <2>1. /\ fdt' = Applied(fdt, R, real, u) /\ orphans' = orphans \ {u} /\ at' = at + 1
          /\ DOMAIN held' = DOMAIN h
      BY <1>2, <1>13 DEF Turn
    <2>2. PICK t2 : t2 = fdt'
      OBVIOUS
    <2>3. Settled(fdt, h, orphans, real, u, t2, g)
      BY <1>3, <1>4, <1>8, <1>13, <2>1, <2>2, AppliedView
    <2>4. \A m \in Standard : fdt'[m] # Closed
      BY <1>8, <2>2, <2>3 DEF Settled
    <2>5. Pending = Pending' \cup {at + 1}
      BY <1>3, <1>4, <1>5, <1>6, <2>1 DEF Pending
    <2>6. SInv'
      <3>1. Holds(R, u) => w \notin Standard /\ w # NoFd
        BY <1>4, <1>9, <1>11, LowestHigh, LowestFreeIsFree DEF FreeFds, Fd, NoFd
      <3>2. High'
        <4>1. \A m \in orphans' : m \notin Standard
          BY <1>4, <2>1 DEF High
        <4>2. Pending' \subseteq Pending /\ UNCHANGED <<forks>> /\ (pc' = "run" => pc = "run")
          BY <1>6, <2>5
        <4> QED
          <5>1. TypeOK /\ High /\ Dots' = Dots
            BY <1>3, <1>4
          <5>2. ASSUME TypeOK, High, Holds(R, u) => w \notin Standard /\ w # NoFd,
                       Dots' = Dots, Pending' \subseteq Pending, UNCHANGED <<forks>>,
                       pc' = "run" => pc = "run",
                       historyfd' = IF HistoryHolds(R, u) THEN w ELSE historyfd,
                       \A i \in DOMAIN deftab :
                         deftab'[i] = IF i \in SlotsHolding(R, u)
                                        THEN [deftab[i] EXCEPT !.realfd = w] ELSE deftab[i],
                       \A k \in Dots :
                         frames'[k] = IF k \in InputsHolding(R, u)
                                        THEN [frames[k] EXCEPT !.n = w] ELSE frames[k],
                       \A m \in Standard : fdt'[m] # Closed, \A m \in orphans' : m \notin Standard
                PROVE  High'
            BY <5>2, MovedHigh
          <5> QED
            BY <1>10, <2>4, <3>1, <4>1, <4>2, <5>1, <5>2
      <3> QED
        BY <3>2 DEF SInv
    <2>7. \A m \in Fd : Base'[m] = IF m = u THEN FileIn(fdt, real) ELSE Base[m]
      <3>1. Base = BaseOf(fdt, held, orphans) /\ Base' = BaseOf(fdt', held', orphans')
        BY <2>6, ScopesAre, ScopesNextAre DEF ScopesRight
      <3>2. \A m \in Fd : Taken(held', m) <=> Taken(g, m)
        BY <1>3, <2>1 DEF Taken
      <3>3. \A m \in Fd : BaseOf(fdt', held', orphans')[m] = BaseOf(t2, g, orphans \ {u})[m]
        BY <2>1, <2>2, <3>2 DEF BaseOf
      <3>4. \A m \in Fd : Taken(held, m) <=> Taken(h, m) \/ m = real
        BY <1>3 DEF Taken
      <3>5. real \in Fd => real >= 3
        BY <1>8 DEF Fd, Standard
      <3>6. \A m \in Fd : BaseOf(fdt, h, orphans \cup {real})[m] = BaseOf(fdt, held, orphans)[m]
        BY <3>4, <3>5 DEF BaseOf
      <3> QED
        BY <2>3, <3>1, <3>3, <3>6 DEF Settled
    <2>8. Base' = [Base EXCEPT ![u] = FileIn(fdt, real)]
      BY <2>7, BaseRebased
    <2>9. PICK m \in Nat : m = n - at /\ m # 0
      <3>1. n - at \in Nat /\ n - at # 0
        BY <1>5, <1>6
      <3> QED
        BY <3>1
    <2>10. /\ Layers \in Seq([fd : UserFds, file : Files \cup {Closed}]) /\ Len(Layers) = m
           /\ Layers' \in Seq([fd : UserFds, file : Files \cup {Closed}]) /\ Len(Layers') = m - 1
           /\ LayerRight(1)
      BY <1>3, <1>5, <1>6, <2>1, <2>6, <2>9, ScopesAre, ScopesNextAre DEF ScopesRight
    <2>11. Layers[1].fd = u /\ Layers[1].file = FileIn(fdt, real)
      BY <1>2, <1>3, <2>10 DEF LayerRight
    <2>12. u \in Fd \/ FileIn(fdt, real) = Closed
      <3>1. CASE real = NoFd
        BY <3>1 DEF FileIn, Fd, NoFd
      <3>2. CASE real # NoFd
        BY <1>13, <3>2 DEF Fits, MvfdOk
      <3> QED
        BY <3>1, <3>2
    <2>13. ASSUME NEW j \in 1 .. (m - 1) PROVE Layers'[j] = Layers[j + 1]
      <3>1. PICK y, i : y = DeferralAt(i) /\ i = at' + j
        OBVIOUS
      <3>2. i \in Pending' /\ i \in Pending /\ i = at + (j + 1) /\ i # at + 1 /\ i \in DOMAIN deftab
        BY <1>3, <1>4, <1>5, <1>6, <2>1, <2>5, <2>9, <3>1 DEF Pending, TypeOK
      <3>3. y \in DOMAIN held /\ y \in DOMAIN held' /\ y # x
        BY <1>2, <1>4, <3>1, <3>2, OwnersDiffer DEF HeldRight
      <3>4. FileIn(fdt', held'[y]) = FileIn(fdt, held[y])
        BY <1>3, <2>1, <2>2, <2>3, <3>3 DEF Settled
      <3>5. deftab'[i].userfd = deftab[i].userfd
        <4>1. deftab[i] \in Deferral
          BY <1>4, <3>2 DEF TypeOK
        <4>2. [deftab[i] EXCEPT !.realfd = w].userfd = deftab[i].userfd
          BY <4>1 DEF Deferral
        <4> QED
          BY <1>10, <3>2, <4>2
      <3>6. j + 1 \in 1 .. Len(Layers) /\ j \in 1 .. Len(Layers')
        BY <2>9, <2>10
      <3> QED
        BY <2>6, <3>1, <3>2, <3>4, <3>5, <3>6, LayerKept
    <2>14. Layers' = Tail(Layers) /\ Layers # <<>>
      BY <2>9, <2>10, <2>13
    <2> QED
      BY <2>6, <2>8, <2>11, <2>12, <2>14 DEF Scopes!Settle
  <1> QED
    BY <1>12, <1>13

\* What the rest of closefds closes the user never saw.
LEMMA CloseReservedScopes ==
  ASSUME SInv, OInv', CloseReserved
  PROVE  SInv' /\ UNCHANGED <<Base, Layers>>
  <1>1. /\ fdt' = [n \in Fd |-> IF n >= 3 /\ n \in Registered THEN Closed ELSE fdt[n]]
        /\ frames' = <<>> /\ deftab' = <<>> /\ at' = 0 /\ historyfd' = NoFd
        /\ orphans' = orphans /\ at = Len(deftab)
    BY DEF CloseReserved
  <1>2. Dots' = {} /\ Pending' = {}
    BY <1>1 DEF Dots, Pending
  <1>3. DOMAIN held' = {History} /\ held'[History] = NoFd
    BY <1>1, <1>2, DomainHeld, HeldNext DEF HeldRight, OwnersIn
  <1>4. High /\ TypeOK /\ HeldRight
    BY HeldIs DEF SInv, OInv, IInv
  <1>5. High'
    <2>1. \A n \in Standard : fdt'[n] = fdt[n]
      BY <1>1, TableAssumption DEF Standard, Fd
    <2> QED
      BY <1>1, <1>2, <1>4, <2>1 DEF High, Standard, NoFd
  <1>6. SInv'
    BY <1>5 DEF SInv
  <1>7. Pending = {}
    BY <1>1, <1>4 DEF Pending, TypeOK
  <1>8. \A n \in Fd : n \in Registered <=> Taken(held, n)
    <2>1. /\ \A k \in Dots : InputPtr(k) \in reserved
          /\ HistoryPtr \in reserved
      BY DEF SInv, OInv, IInv, ReservedExact
    <2>2. Registered = {frames[k].n : k \in Dots} \cup {historyfd}
      BY <2>1 DEF Registered
    <2>3. DOMAIN held = {InputAt(k) : k \in Dots} \cup {History}
      BY <1>4, <1>7 DEF HeldRight, Owners
    <2> QED
      BY <1>4, <2>2, <2>3 DEF HeldRight, Taken
  <1>9. \A n \in Fd : ~Taken(held', n)
    BY <1>3 DEF Taken, Fd, NoFd
  <1>10. \A n \in Fd : BaseOf(fdt', held', orphans')[n] = BaseOf(fdt, held, orphans)[n]
    BY <1>1, <1>8, <1>9 DEF BaseOf
  <1>11. Base' = Base
    BY <1>6, <1>10, ScopesAre, ScopesNextAre, BasesEqual DEF ScopesRight
  <1>12. Len(Layers) = 0 /\ Len(Layers') = 0
         /\ Layers \in Seq([fd : UserFds, file : Files \cup {Closed}])
         /\ Layers' \in Seq([fd : UserFds, file : Files \cup {Closed}])
    BY <1>1, <1>4, <1>6, ScopesAre, ScopesNextAre DEF ScopesRight, TypeOK
  <1>13. Layers' = Layers
    BY <1>12
  <1> QED
    BY <1>6, <1>11, <1>13

-----------------------------------------------------------------------------
(***************************************************************************)
(* What the user sees.                                                     *)
(***************************************************************************)
CoversIn(ls, u) == {i \in DOMAIN ls : ls[i].fd = u}

ViewIn(b, ls, u) ==
  IF CoversIn(ls, u) # {}
    THEN ls[CHOOSE i \in CoversIn(ls, u) : \A j \in CoversIn(ls, u) : j <= i].file
    ELSE IF u \in Fd THEN b[u] ELSE Closed

ViewIsIn == \A u \in Fd : Scopes!View(u) = ViewIn(Base, Layers, u)

\* This is what the scopes say,
LEMMA ViewAsIn == ViewIsIn
  BY DEF ViewIsIn, ViewIn, CoversIn, Scopes!View, Scopes!Layered

\* in the next state too.
LEMMA ViewNextAsIn == ViewIsIn'
  BY ViewAsIn, PTL

\* The innermost layer that names u decides.
LEMMA InnermostSeen ==
  ASSUME NEW b, NEW S, NEW ls \in Seq(S), NEW u, NEW m \in CoversIn(ls, u),
         \A i \in CoversIn(ls, u) : i <= m
  PROVE  ViewIn(b, ls, u) = ls[m].file
  <1>1. PICK l : l = CHOOSE i \in CoversIn(ls, u) : \A j \in CoversIn(ls, u) : j <= i
    OBVIOUS
  <1>2. l \in CoversIn(ls, u) /\ \A j \in CoversIn(ls, u) : j <= l
    BY <1>1
  <1>3. \A i \in CoversIn(ls, u) : i \in Nat
    BY DEF CoversIn
  <1>4. l = m
    BY <1>2, <1>3
  <1> QED
    BY <1>1, <1>4 DEF ViewIn

\* Settling the outermost layer into the base table changes nothing that can be seen.
LEMMA SettledSeen ==
  ASSUME NEW S, NEW ls \in Seq(S), ls # <<>>, NEW b, DOMAIN b = Fd, NEW u \in Fd
  PROVE  ViewIn([b EXCEPT ![ls[1].fd] = ls[1].file], Tail(ls), u) = ViewIn(b, ls, u)
  <1>1. PICK n \in Nat : n = Len(ls) - 1 /\ Len(ls) = n + 1
    BY EmptySeq, LenProperties
  <1>2. PICK rest : rest = Tail(ls)
    OBVIOUS
  <1>3. /\ rest \in Seq(S) /\ Len(rest) = n /\ DOMAIN rest = 1 .. n
        /\ DOMAIN ls = 1 .. (n + 1)
        /\ \A i \in 1 .. n : rest[i] = ls[i + 1]
    BY <1>1, <1>2
  <1>4. \A i \in 1 .. n : i \in CoversIn(rest, u) <=> i + 1 \in CoversIn(ls, u)
    BY <1>3 DEF CoversIn
  <1>5. PICK c : c = [b EXCEPT ![ls[1].fd] = ls[1].file]
    OBVIOUS
  <1>6. CASE CoversIn(rest, u) # {}
    <2>1. PICK m \in CoversIn(rest, u) : \A i \in CoversIn(rest, u) : i <= m
      <3>1. CoversIn(rest, u) \in SUBSET (1 .. n)
        BY <1>3 DEF CoversIn
      <3> QED
        BY <1>6, <3>1, GreatestExists
    <2>2. m \in 1 .. n /\ m + 1 \in CoversIn(ls, u)
      BY <1>3, <1>4, <2>1 DEF CoversIn
    <2>3. ASSUME NEW i \in CoversIn(ls, u) PROVE i <= m + 1
      <3>1. i \in 1 .. (n + 1)
        BY <1>3 DEF CoversIn
      <3>2. CASE i = 1
        BY <2>2, <3>2
      <3>3. CASE i # 1
        <4>1. i - 1 \in 1 .. n /\ i = (i - 1) + 1
          BY <3>1, <3>3
        <4>2. i - 1 \in CoversIn(rest, u)
          BY <1>4, <4>1
        <4> QED
          BY <2>1, <2>2, <4>1, <4>2
      <3> QED
        BY <3>2, <3>3
    <2>4. ViewIn(c, rest, u) = rest[m].file
      BY <1>3, <2>1, InnermostSeen
    <2>5. ViewIn(b, ls, u) = ls[m + 1].file
      BY <2>2, <2>3, InnermostSeen
    <2> QED
      BY <1>2, <1>3, <1>5, <2>2, <2>4, <2>5
  <1>7. CASE CoversIn(rest, u) = {}
    <2>1. ViewIn(c, rest, u) = c[u]
      BY <1>7 DEF ViewIn
    <2>2. \A i \in CoversIn(ls, u) : i = 1
      <3>1. ASSUME NEW i \in CoversIn(ls, u), i # 1 PROVE FALSE
        <4>1. i \in 1 .. (n + 1)
          BY <1>3 DEF CoversIn
        <4>2. i - 1 \in 1 .. n /\ i = (i - 1) + 1
          BY <3>1, <4>1
        <4>3. i - 1 \in CoversIn(rest, u)
          BY <1>4, <4>2
        <4> QED
          BY <1>7, <4>3
      <3> QED
        BY <3>1
    <2>3. CASE ls[1].fd = u
      <3>1. 1 \in CoversIn(ls, u)
        BY <1>3, <2>3 DEF CoversIn
      <3>2. ViewIn(b, ls, u) = ls[1].file
        BY <2>2, <3>1, InnermostSeen
      <3>3. c[u] = ls[1].file
        BY <1>5, <2>3
      <3> QED
        BY <1>2, <1>5, <2>1, <3>2, <3>3
    <2>4. CASE ls[1].fd # u
      <3>1. CoversIn(ls, u) = {}
        BY <2>2, <2>4 DEF CoversIn
      <3>2. ViewIn(b, ls, u) = b[u]
        BY <3>1 DEF ViewIn
      <3>3. c[u] = b[u]
        BY <1>5, <2>4
      <3> QED
        BY <1>2, <1>5, <2>1, <3>2, <3>3
    <2> QED
      BY <2>3, <2>4
  <1> QED
    BY <1>6, <1>7

\* As steps of the shell.
LEMMA SettleSeen ==
  ASSUME SInv, Scopes!Settle, NEW u \in Fd
  PROVE  Scopes!View(u)' = Scopes!View(u)
  <1>1. Layers \in Seq([fd : UserFds, file : Files \cup {Closed}]) /\ DOMAIN Base = Fd
    BY ScopesAre DEF ScopesRight, Base
  <1>2. /\ Layers # <<>> /\ Layers' = Tail(Layers)
        /\ Base' = [Base EXCEPT ![Layers[1].fd] = Layers[1].file]
    BY DEF Scopes!Settle
  <1>3. ViewIn(Base', Layers', u) = ViewIn(Base, Layers, u)
    BY <1>1, <1>2, SettledSeen
  <1>4. Scopes!View(u) = ViewIn(Base, Layers, u)
    BY ViewAsIn DEF ViewIsIn
  <1>5. Scopes!View(u)' = ViewIn(Base', Layers', u)
    BY ViewNextAsIn DEF ViewIsIn
  <1> QED
    BY <1>3, <1>4, <1>5

\* What changes neither the table nor the layers is not seen.
LEMMA SameSeen ==
  ASSUME UNCHANGED <<Base, Layers>>, NEW u \in Fd
  PROVE  Scopes!View(u)' = Scopes!View(u)
  <1>1. Scopes!View(u) = ViewIn(Base, Layers, u)
    BY ViewAsIn DEF ViewIsIn
  <1>2. Scopes!View(u)' = ViewIn(Base', Layers', u)
    BY ViewNextAsIn DEF ViewIsIn
  <1> QED
    BY <1>1, <1>2

-----------------------------------------------------------------------------
(***************************************************************************)
(* The theorems.                                                           *)
(***************************************************************************)

\* A process that forks or execs, until it is on its own.
Detaching == Remapping \/ pc' = "remapFork" \/ pc' = "remapExec"

\* Every step is a step of the scopes, and one that detaches is not seen.
LEMMA NextScopes ==
  ASSUME Closable \cap Standard = {}, SInv, Room, [Next]_vars
  PROVE  /\ SInv'
         /\ Scopes!ScopesNext \/ UNCHANGED <<Base, Layers>>
         /\ Detaching => \A u \in Fd : Scopes!View(u)' = Scopes!View(u)
  <1>1. OInv'
    BY NextApart DEF SInv
  <1>2. CASE UNCHANGED <<Base, Layers>> /\ SInv'
    BY <1>2, SameSeen
  <1>3. CASE UNCHANGED vars
    <2>1. UNCHANGED <<fdt, deftab, historyfd, frames, at, orphans>>
          /\ (pc' = "run" => pc = "run" /\ forks' = forks)
      BY <1>3 DEF vars
    <2> QED
      BY <1>1, <1>2, <2>1, ForkScopes
  <1>4. ASSUME pc = "run", pc' = "run", ScopesStep /\ SInv'
        PROVE  /\ SInv'
               /\ Scopes!ScopesNext \/ UNCHANGED <<Base, Layers>>
               /\ ~Detaching
    BY <1>4 DEF ScopesStep, Scopes!ScopesNext, Detaching, Remapping
  <1>5. ASSUME NEW u \in UserFds, NEW f \in UserFiles, OpenFile(u, f)
        PROVE  ScopesStep /\ SInv' /\ pc = "run" /\ pc' = "run"
    BY <1>1, <1>5, OpenFileScopes DEF OpenFile, Running, Redir, Defer, MoveNow, MoveFails
  <1>6. ASSUME NEW u \in UserFds, NEW o \in UserFds, DupFd(u, o)
        PROVE  ScopesStep /\ SInv' /\ pc = "run" /\ pc' = "run"
    BY <1>1, <1>6, DupFdScopes DEF DupFd, Running, Redir, Defer, MoveNow, MoveFails
  <1>7. ASSUME NEW u \in UserFds, CloseUser(u)
        PROVE  ScopesStep /\ SInv' /\ pc = "run" /\ pc' = "run"
    BY <1>1, <1>7, CloseUserScopes DEF CloseUser, Running, Redir, Defer, MoveNow, MoveFails
  <1>8. CASE LeaveRedir
    <2>1. SInv' /\ (Scopes!Leave \/ UNCHANGED <<Base, Layers>>)
      BY <1>1, <1>8, LeaveRedirScopes
    <2>2. ~Detaching
      BY <1>8 DEF LeaveRedir, Detaching, Remapping
    <2> QED
      BY <2>1, <2>2 DEF Scopes!ScopesNext
  <1>9. CASE Dot \/ EndOfInput \/ LeaveDot
    BY <1>1, <1>2, <1>9, InputStepsScopes
  <1>10. CASE LogHistory \/ SetHistory
    BY <1>1, <1>2, <1>10, HistoryStepsScopes
  <1>11. CASE Fork \/ Exec
    <2>1. UNCHANGED <<fdt, deftab, historyfd, frames, at, orphans>> /\ pc' # "run"
      BY <1>11 DEF Fork, Exec
    <2> QED
      BY <1>1, <1>2, <2>1, ForkScopes
  <1>12. CASE RemapOne
    <2>1. SInv' /\ (Scopes!Settle \/ UNCHANGED <<Base, Layers>>)
      BY <1>1, <1>12, RemapOneSettles
    <2>2. CASE Scopes!Settle
      BY <2>1, <2>2, SettleSeen DEF Scopes!ScopesNext
    <2> QED
      BY <1>2, <2>1, <2>2
  <1>13. CASE CloseReserved
    BY <1>1, <1>2, <1>13, CloseReservedScopes
  <1>14. CASE \E u \in UserFds, f \in UserFiles : OpenFile(u, f)
    BY <1>4, <1>5, <1>14
  <1>15. CASE \E u \in UserFds, o \in UserFds : DupFd(u, o)
    BY <1>4, <1>6, <1>15
  <1>16. CASE \E u \in UserFds : CloseUser(u)
    BY <1>4, <1>7, <1>16
  <1>17. CASE Next
    BY <1>8, <1>9, <1>10, <1>11, <1>12, <1>13, <1>14, <1>15, <1>16, <1>17 DEF Next
  <1> QED
    BY <1>3, <1>17

\* The first shell shows its own table, but for its script, and no scope is open.
LEMMA InitScopes == ASSUME Init PROVE SInv /\ Scopes!ScopesInit
  <1>1. SInv
    BY InitIInv, InitApart, InitHigh DEF SInv, OInv
  <1>2. \A n \in Fd : Base[n] \in Files \cup {Closed}
    BY <1>1 DEF Base, SInv, OInv, IInv, TypeOK, Table
  <1>3. Base \in [Fd -> Files \cup {Closed}]
    <2>1. Base = [n \in Fd |-> Base[n]]
      BY DEF Base
    <2> QED
      BY <1>2, <2>1
  <1>4. Len(Layers) = 0 /\ Layers \in Seq([fd : UserFds, file : Files \cup {Closed}])
    BY <1>1, ScopesAre DEF ScopesRight, Init
  <1>5. Layers = <<>>
    BY <1>4
  <1> QED
    BY <1>1, <1>3, <1>5 DEF Scopes!ScopesInit

\* The deferral table, the descriptors the shell opens for itself and the loop of closefds
\* implement a stack of redirection scopes, as long as nobody closes 0, 1 or 2 and the
\* kernel always has two more descriptors to give.
THEOREM ScopesImplemented ==
  ASSUME Closable \cap Standard = {}
  PROVE  Spec /\ []Room => ImplementsScopes
  <1>1. Init => SInv /\ Scopes!ScopesInit
    BY InitScopes
  <1>2. SInv /\ Room /\ [Next]_vars => SInv' /\ [Scopes!ScopesNext]_(Scopes!scopeVars)
    BY NextScopes DEF Scopes!scopeVars
  <1> QED
    BY <1>1, <1>2, PTL DEF Spec, ImplementsScopes, Scopes!ScopesSpec

\* On the same terms, from the fork to the last line of closefds no number changes what
\* it denotes to the user: the new process has the files its scopes gave it.
THEOREM ViewIsKept ==
  ASSUME Closable \cap Standard = {}
  PROVE  Spec /\ []Room => ViewKept
  <1>1. Init => SInv
    BY InitScopes
  <1>2. SInv /\ Room /\ [Next]_vars
          => SInv' /\ [Detaching => \A u \in Fd : Scopes!View(u)' = Scopes!View(u)]_vars
    BY NextScopes
  <1> QED
    BY <1>1, <1>2, PTL DEF Spec, ViewKept, Detaching

=============================================================================
