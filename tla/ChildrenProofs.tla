---------------------------- MODULE ChildrenProofs ----------------------------
(***************************************************************************)
(* Proofs about Children: the process list stays a proper list of exactly  *)
(* the processes that the shell has started and not returned, with the     *)
(* statuses they exited with, however exits and signals interrupt ewait;   *)
(* for any ids, storage, statuses and bounds.                              *)
(***************************************************************************)
EXTENDS Children, FiniteSetTheorems, NaturalsInduction, WellFoundedInduction, TLAPS

\* The list: c[1] .. c[m] are its structures in order.
Links(m, c) ==
  /\ \A i, j \in 1 .. m : c[i] = c[j] => i = j
  /\ allocated = {c[i] : i \in 1 .. m}
  /\ proclist = IF m = 0 THEN NULL ELSE c[1]
  /\ \A i \in 1 .. m : /\ heap[c[i]].next = IF i = m THEN NULL ELSE c[i + 1]
                       /\ heap[c[i]].prev = IF i = 1 THEN NULL ELSE c[i - 1]

ListLinked == \E m \in Nat : \E c \in [1 .. m -> Procs] : Links(m, c)

\* Each structure is for a process of its own, of those not yet returned.
PidsExact ==
  /\ owed = {heap[x].pid : x \in allocated}
  /\ \A x, y \in allocated : heap[x].pid = heap[y].pid => x = y

\* What the kernel has is listed as alive, and the other way round.
KernelAgrees ==
  /\ \A p \in Pids : kernel[p] # "none" =>
       \E x \in allocated : heap[x].pid = p /\ heap[x].alive
  /\ \A x \in allocated : heap[x].alive =>
       \/ kernel[heap[x].pid] # "none"
       \/ heap[x].pid \in lost
       \/ pc \in {"back", "returned"} /\ n = heap[x].pid

\* A dead process has the status it exited with.
StatusesKept == \A x \in allocated : ~heap[x].alive => heap[x].status = exitStatus[heap[x].pid]

\* ewait waits for what is listed as alive.
WaitExact ==
  /\ pc \in {"enter", "arm", "test", "block", "back", "jumped", "returned"} =>
       IF want = AnyPid THEN proc = NULL /\ \A x \in allocated : heap[x].alive
       ELSE proc \in allocated /\ heap[proc].alive /\ heap[proc].pid = want
  /\ pc = "finish" => /\ proc \in allocated /\ ~heap[proc].alive
                      /\ want # AnyPid => heap[proc].pid = want

\* What wait3 has returned: the status is where the caller of dowait will look for it.
ReturnExact ==
  pc \in {"back", "returned"} =>
    /\ n \in Pids => /\ kernel[n] = "none" /\ n \in owed
                     /\ exitStatus[n] = IF proc = NULL THEN status ELSE heap[proc].status
    /\ n = NoChild => \A p \in Pids : kernel[p] = "none"

IInv ==
  /\ TypeOK /\ ListLinked /\ PidsExact /\ KernelAgrees /\ StatusesKept /\ WaitExact
  /\ ReturnExact /\ NeverDeniedUnlessLost

-----------------------------------------------------------------------------
(***************************************************************************)
(* The list.                                                               *)
(***************************************************************************)

Below == {ss \in Nat \X Nat : ss[1] < ss[2]}

\* The order of the natural numbers is well founded.
LEMMA BelowWellFounded == IsWellFoundedOn(Below, Nat)
  <1>1. Below = OpToRel(<, Nat)
    BY DEF Below, OpToRel
  <1> QED
    BY <1>1, NatLessThanWellFounded

\* A set of numbers that is not empty has a least element.
LEMMA LeastExists ==
  ASSUME NEW S \in SUBSET Nat, S # {}
  PROVE  \E i \in S : \A j \in S : i <= j
  <1>1. PICK i \in S : \A j \in S : <<j, i>> \notin Below
    BY BelowWellFounded, WFMin
  <1>2. ASSUME NEW j \in S PROVE i <= j
    <2>1. j \in Nat /\ i \in Nat
      OBVIOUS
    <2>2. <<j, i>> \notin {ss \in Nat \X Nat : ss[1] < ss[2]}
      BY <1>1 DEF Below
    <2>3. <<j, i>> \in Nat \X Nat
      BY <2>1
    <2>4. ~(<<j, i>>[1] < <<j, i>>[2])
      BY <2>2, <2>3, Zenon
    <2> QED
      BY <2>1, <2>4
  <1> QED
    BY <1>2

\* No list is longer than there is storage.
LEMMA ListShort ==
  ASSUME NEW m \in Nat, NEW c \in [1 .. m -> Procs], Links(m, c)
  PROVE  m <= Cardinality(Procs) /\ Cardinality(Procs) \in Nat
  <1>1. c \in Injection(1 .. m, Procs)
    BY DEF Links, Injection, IsInjective
  <1>2. IsFiniteSet(Procs)
    BY ChildrenAssumption
  <1>3. Cardinality(1 .. m) <= Cardinality(Procs) /\ Cardinality(Procs) \in Nat
    BY <1>1, <1>2, FS_Injection, FS_CardinalityType
  <1>4. Cardinality(1 .. m) = m
    <2>1. Cardinality(1 .. m) = IF 1 > m THEN 0 ELSE m - 1 + 1
      BY FS_Interval
    <2> QED
      BY <2>1
  <1> QED
    BY <1>3, <1>4

\* Walking along the links from the head meets the structures in order, and then
\* nothing.
LEMMA ChainWalks ==
  ASSUME NEW m \in Nat, NEW c \in [1 .. m -> Procs], Links(m, c)
  PROVE  Chain = [i \in 0 .. Cardinality(Procs) |-> IF i < m THEN c[i + 1] ELSE NULL]
  <1> DEFINE N == Cardinality(Procs)
             Step(w) == [i \in 0 .. N |->
                           IF i = 0 THEN proclist
                           ELSE IF w[i - 1] = NULL THEN NULL ELSE heap[w[i - 1]].next]
             chain == [i \in 0 .. N |-> IF i < m THEN c[i + 1] ELSE NULL]
  <1>1. N \in Nat /\ m <= N
    BY ListShort
  <1>2. NULL \notin Procs
    BY ChildrenAssumption
  <1> HIDE DEF N
  <1>3. Step(chain) = chain
    <2>1. ASSUME NEW i \in 0 .. N PROVE Step(chain)[i] = chain[i]
      <3>1. CASE i = 0
        BY <1>1, <3>1 DEF Links
      <3>2. CASE i # 0 /\ i - 1 < m
        <4>1. i - 1 \in 0 .. N /\ i \in 1 .. m /\ chain[i - 1] = c[i] /\ c[i] \in Procs
          BY <1>1, <3>2
        <4>2. heap[c[i]].next = IF i = m THEN NULL ELSE c[i + 1]
          BY <4>1 DEF Links
        <4> QED
          BY <1>1, <1>2, <3>2, <4>1, <4>2
      <3>3. CASE i # 0 /\ ~(i - 1 < m)
        <4>1. i - 1 \in 0 .. N /\ chain[i - 1] = NULL /\ ~(i < m)
          BY <1>1, <3>3
        <4> QED
          BY <3>3, <4>1
      <3> QED
        BY <3>1, <3>2, <3>3
    <2> QED
      BY <2>1
  <1>4. Chain = Step(Chain)
    <2>1. Chain = CHOOSE w : w = Step(w)
      BY DEF Chain, N
    <2>2. \E w : w = Step(w)
      BY <1>3
    <2> HIDE DEF Step
    <2> QED
      BY <2>1, <2>2
  <1>5. Chain = chain
    <2> DEFINE Bad == {i \in 0 .. N : Chain[i] # chain[i]}
    <2>1. Bad = {}
      <3> SUFFICES ASSUME Bad # {} PROVE FALSE
        OBVIOUS
      <3>1. PICK i \in Bad : \A j \in Bad : i <= j
        <4>1. Bad \in SUBSET Nat
          BY <1>1
        <4> QED
          BY <4>1, LeastExists
      <3>2. i # 0
        BY <1>3, <1>4, <3>1
      <3>3. Chain[i - 1] = chain[i - 1]
        BY <1>1, <3>1, <3>2
      <3>4. Step(Chain)[i] = Step(chain)[i]
        BY <3>1, <3>2, <3>3
      <3> QED
        BY <1>3, <1>4, <3>1, <3>4
    <2>2. Chain = [i \in 0 .. N |-> Chain[i]]
      BY <1>4
    <2> QED
      BY <2>1, <2>2
  <1> QED
    BY <1>5 DEF N

\* What is listed is what is allocated, and a search of the list finds what is there.
LEMMA ListFacts ==
  ASSUME ListLinked
  PROVE  /\ Chain[Cardinality(Procs)] = NULL /\ Listed = allocated
         /\ \A S \in SUBSET Procs :
              IF S \cap allocated = {} THEN FirstIn(S) = NULL ELSE FirstIn(S) \in S \cap allocated
  <1>0. PICK m \in Nat : \E c \in [1 .. m -> Procs] : Links(m, c)
    BY DEF ListLinked
  <1>1. PICK c \in [1 .. m -> Procs] : Links(m, c)
    BY <1>0
  <1>2. PICK N \in Nat : N = Cardinality(Procs) /\ m <= N
    BY <1>1, ListShort
  <1>3. Chain = [i \in 0 .. N |-> IF i < m THEN c[i + 1] ELSE NULL]
    BY <1>1, <1>2, ChainWalks
  <1>4. NULL \notin Procs /\ allocated = {c[i] : i \in 1 .. m}
    BY <1>1, ChildrenAssumption DEF Links
  <1>5. Chain[N] = NULL
    BY <1>2, <1>3
  <1>6. \A S \in SUBSET Procs : S \cap allocated = {Chain[i] : i \in {j \in 0 .. N : Chain[j] \in S}}
    <2> SUFFICES ASSUME NEW S \in SUBSET Procs
                 PROVE  S \cap allocated = {Chain[i] : i \in {j \in 0 .. N : Chain[j] \in S}}
      OBVIOUS
    <2>1. ASSUME NEW x \in S \cap allocated PROVE \E i \in 0 .. N : Chain[i] = x
      <3>1. PICK i \in 1 .. m : c[i] = x
        BY <1>4
      <3>2. i - 1 \in 0 .. N /\ i - 1 < m /\ (i - 1) + 1 = i
        BY <1>2
      <3> QED
        BY <1>3, <3>1, <3>2
    <2>2. ASSUME NEW i \in 0 .. N, Chain[i] \in S PROVE Chain[i] \in allocated
      <3>1. i < m /\ Chain[i] = c[i + 1]
        BY <1>3, <1>4, <2>2
      <3>2. i + 1 \in 1 .. m
        BY <3>1
      <3> QED
        BY <1>4, <3>1, <3>2
    <2> QED
      BY <2>1, <2>2
  <1>7. DOMAIN Chain = 0 .. N
    BY <1>3
  <1>8. Listed = allocated
    <2>1. allocated \in SUBSET Procs
      BY <1>4
    <2>2. Listed = {Chain[i] : i \in {j \in 0 .. N : Chain[j] \in Procs}}
      <3>1. \A i \in 0 .. N : Chain[i] \in Procs \cup {NULL}
        BY <1>2, <1>3
      <3> QED
        BY <1>4, <1>7, <3>1 DEF Listed
    <2> QED
      BY <1>6, <2>1, <2>2
  <1>9. ASSUME NEW S \in SUBSET Procs
        PROVE  IF S \cap allocated = {} THEN FirstIn(S) = NULL ELSE FirstIn(S) \in S \cap allocated
    <2> DEFINE found == {i \in DOMAIN Chain : Chain[i] \in S}
    <2>1. S \cap allocated = {Chain[i] : i \in found}
      BY <1>6, <1>7
    <2>2. CASE found = {}
      BY <2>1, <2>2 DEF FirstIn
    <2>3. CASE found # {}
      <3>1. found \in SUBSET Nat
        BY <1>7
      <3>2. \E i \in found : \A j \in found : i <= j
        BY <2>3, <3>1, LeastExists
      <3>3. (CHOOSE i \in found : \A j \in found : i <= j) \in found
        BY <3>2
      <3>4. FirstIn(S) = Chain[CHOOSE i \in found : \A j \in found : i <= j]
        BY <2>3 DEF FirstIn
      <3> QED
        BY <2>1, <3>3, <3>4
    <2> QED
      BY <2>2, <2>3
  <1> QED
    BY <1>2, <1>5, <1>8, <1>9

\* The list is kept by what does not touch its links.
LEMMA LinksKept ==
  ASSUME ListLinked, UNCHANGED <<allocated, proclist>>,
         \A x \in allocated : heap'[x].next = heap[x].next /\ heap'[x].prev = heap[x].prev
  PROVE  ListLinked'
  <1>0. PICK m \in Nat : \E c \in [1 .. m -> Procs] : Links(m, c)
    BY DEF ListLinked
  <1>1. PICK c \in [1 .. m -> Procs] : Links(m, c)
    BY <1>0
  <1>2. \A i \in 1 .. m : c[i] \in allocated
    BY <1>1 DEF Links
  <1>3. Links(m, c)'
    BY <1>1, <1>2 DEF Links
  <1> QED
    BY <1>3 DEF ListLinked

\* A structure is put in front.
LEMMA LinksPushed ==
  ASSUME ListLinked, NEW x \in Procs \ allocated, proclist' = x,
         allocated' = allocated \cup {x}, allocated \subseteq Procs,
         heap'[x].next = proclist, heap'[x].prev = NULL,
         \A y \in allocated : /\ heap'[y].next = heap[y].next
                              /\ heap'[y].prev = IF y = proclist THEN x ELSE heap[y].prev
  PROVE  ListLinked'
  <1>0. PICK m \in Nat : \E c \in [1 .. m -> Procs] : Links(m, c)
    BY DEF ListLinked
  <1>1. PICK c \in [1 .. m -> Procs] : Links(m, c)
    BY <1>0
  <1>2. PICK d : d = [i \in 1 .. m + 1 |-> IF i = 1 THEN x ELSE c[i - 1]]
    OBVIOUS
  <1>3. d \in [1 .. m + 1 -> Procs] /\ d[1] = x
    BY <1>2
  <1>4. \A i \in 1 .. m : /\ d[i + 1] = c[i] /\ c[i] \in allocated /\ c[i] # x /\ i + 1 \in 1 .. m + 1
                          /\ (c[i] = proclist <=> i = 1)
    <2>1. ASSUME NEW i \in 1 .. m
          PROVE  /\ d[i + 1] = c[i] /\ c[i] \in allocated /\ c[i] # x /\ i + 1 \in 1 .. m + 1
                 /\ (c[i] = proclist <=> i = 1)
      <3>1. i + 1 \in 1 .. m + 1 /\ i + 1 # 1 /\ (i + 1) - 1 = i
        OBVIOUS
      <3>2. d[i + 1] = c[i]
        BY <1>2, <3>1
      <3>3. c[i] \in allocated /\ m # 0 /\ 1 \in 1 .. m /\ proclist = c[1]
        BY <1>1 DEF Links
      <3>4. c[i] = c[1] => i = 1
        BY <1>1, <3>3 DEF Links
      <3> QED
        BY <3>1, <3>2, <3>3, <3>4
    <2> QED
      BY <2>1
  <1>5. \A k \in 1 .. m + 1 : k = 1 \/ \E i \in 1 .. m : k = i + 1
    <2>1. ASSUME NEW k \in 1 .. m + 1, k # 1 PROVE k - 1 \in 1 .. m /\ k = (k - 1) + 1
      BY <2>1
    <2> QED
      BY <2>1
  <1>6. \A i, j \in 1 .. m + 1 : d[i] = d[j] => i = j
    <2>1. \A i, j \in 1 .. m : c[i] = c[j] => i = j
      BY <1>1 DEF Links
    <2> QED
      BY <1>3, <1>4, <1>5, <2>1
  <1>7. allocated' = {d[i] : i \in 1 .. m + 1}
    <2>1. allocated = {c[i] : i \in 1 .. m} /\ 1 \in 1 .. m + 1
      BY <1>1 DEF Links
    <2>2. ASSUME NEW y \in allocated PROVE \E k \in 1 .. m + 1 : d[k] = y
      <3>1. PICK i \in 1 .. m : c[i] = y
        BY <2>1
      <3>2. d[i + 1] = c[i] /\ i + 1 \in 1 .. m + 1
        BY <1>4
      <3> QED
        BY <3>1, <3>2
    <2>3. ASSUME NEW k \in 1 .. m + 1 PROVE d[k] \in allocated \cup {x}
      <3>1. CASE k = 1
        BY <1>3, <3>1
      <3>2. ASSUME NEW i \in 1 .. m, k = i + 1 PROVE d[k] \in allocated
        BY <1>4, <3>2
      <3> QED
        BY <1>5, <3>1, <3>2
    <2> QED
      BY <1>3, <2>1, <2>2, <2>3
  <1>8. ASSUME NEW k \in 1 .. m + 1
        PROVE  /\ heap'[d[k]].next = IF k = m + 1 THEN NULL ELSE d[k + 1]
               /\ heap'[d[k]].prev = IF k = 1 THEN NULL ELSE d[k - 1]
    <2>1. CASE k = 1
      <3>1. proclist = IF m = 0 THEN NULL ELSE c[1]
        BY <1>1 DEF Links
      <3>2. m # 0 => d[2] = c[1]
        BY <1>2
      <3> QED
        BY <1>3, <2>1, <3>1, <3>2
    <2>2. ASSUME NEW i \in 1 .. m, k = i + 1
          PROVE  /\ heap'[d[k]].next = IF k = m + 1 THEN NULL ELSE d[k + 1]
                 /\ heap'[d[k]].prev = IF k = 1 THEN NULL ELSE d[k - 1]
      <3>1. d[k] = c[i] /\ c[i] \in allocated /\ (c[i] = proclist <=> i = 1) /\ k # 1 /\ k - 1 = i
        BY <1>4, <2>2
      <3>2. /\ heap[c[i]].next = IF i = m THEN NULL ELSE c[i + 1]
            /\ heap[c[i]].prev = IF i = 1 THEN NULL ELSE c[i - 1]
        BY <1>1 DEF Links
      <3>3. i # m => d[k + 1] = c[i + 1]
        <4>1. i # m => i + 1 \in 1 .. m
          OBVIOUS
        <4> QED
          BY <1>4, <2>2, <4>1
      <3>4. d[i] = IF i = 1 THEN x ELSE c[i - 1]
        BY <1>2
      <3>5. heap'[d[k]].next = IF k = m + 1 THEN NULL ELSE d[k + 1]
        BY <2>2, <3>1, <3>2, <3>3
      <3>6. heap'[d[k]].prev = d[i]
        BY <3>1, <3>2, <3>4
      <3> QED
        BY <3>1, <3>5, <3>6
    <2> QED
      BY <1>5, <2>1, <2>2
  <1>9. Links(m + 1, d)'
    <2>1. proclist' = IF m + 1 = 0 THEN NULL ELSE d[1]
      BY <1>3
    <2> QED
      BY <1>6, <1>7, <1>8, <2>1 DEF Links
  <1> QED
    BY <1>3, <1>9 DEF ListLinked

\* A structure is taken out.
LEMMA LinksUnlinked ==
  ASSUME ListLinked, NEW x \in allocated, allocated \subseteq Procs,
         allocated' = allocated \ {x},
         proclist' = IF heap[x].prev # NULL THEN proclist ELSE heap[x].next,
         \A y \in allocated \ {x} :
           /\ heap'[y].next = IF y = heap[x].prev THEN heap[x].next ELSE heap[y].next
           /\ heap'[y].prev = IF y = heap[x].next THEN heap[x].prev ELSE heap[y].prev
  PROVE  ListLinked'
  <1>0. PICK m \in Nat : \E c \in [1 .. m -> Procs] : Links(m, c)
    BY DEF ListLinked
  <1>1. PICK c \in [1 .. m -> Procs] : Links(m, c)
    BY <1>0
  <1>2. /\ \A i, j \in 1 .. m : c[i] = c[j] => i = j
        /\ allocated = {c[i] : i \in 1 .. m}
        /\ proclist = IF m = 0 THEN NULL ELSE c[1]
        /\ \A i \in 1 .. m : /\ heap[c[i]].next = IF i = m THEN NULL ELSE c[i + 1]
                             /\ heap[c[i]].prev = IF i = 1 THEN NULL ELSE c[i - 1]
        /\ NULL \notin Procs
    BY <1>1, ChildrenAssumption DEF Links
  <1>3. PICK k \in 1 .. m : c[k] = x
    BY <1>2
  <1>4. m - 1 \in Nat /\ m >= 1
    BY <1>3
  <1>5. PICK d : d = [i \in 1 .. m - 1 |-> IF i < k THEN c[i] ELSE c[i + 1]]
    OBVIOUS
  <1>6. d \in [1 .. m - 1 -> Procs]
    BY <1>3, <1>5
  <1> DEFINE old(i) == IF i < k THEN i ELSE i + 1
  <1>7. \A i \in 1 .. m - 1 : old(i) \in 1 .. m /\ old(i) # k /\ d[i] = c[old(i)]
    BY <1>3, <1>5
  <1>8. \A j \in 1 .. m : j # k => \E i \in 1 .. m - 1 : j = old(i)
    <2>1. ASSUME NEW j \in 1 .. m, j # k PROVE \E i \in 1 .. m - 1 : j = old(i)
      <3>1. CASE j < k
        BY <1>3, <3>1
      <3>2. CASE j > k
        <4>1. j - 1 \in 1 .. m - 1 /\ ~(j - 1 < k) /\ (j - 1) + 1 = j
          BY <1>3, <3>2
        <4> QED
          BY <4>1
      <3> QED
        BY <1>3, <2>1, <3>1, <3>2
    <2> QED
      BY <2>1
  <1>9. \A i, j \in 1 .. m - 1 : old(i) = old(j) => i = j
    BY <1>3
  <1>10. \A i, j \in 1 .. m - 1 : d[i] = d[j] => i = j
    <2> HIDE DEF old
    <2> QED
      BY <1>2, <1>7, <1>9
  <1>11. allocated' = {d[i] : i \in 1 .. m - 1}
    <2> HIDE DEF old
    <2>1. ASSUME NEW y \in allocated \ {x} PROVE \E i \in 1 .. m - 1 : d[i] = y
      <3>1. PICK j \in 1 .. m : c[j] = y /\ j # k
        BY <1>2, <1>3
      <3> QED
        BY <1>7, <1>8, <3>1
    <2>2. ASSUME NEW i \in 1 .. m - 1 PROVE d[i] \in allocated \ {x}
      <3>1. old(i) \in 1 .. m /\ c[old(i)] # c[k] /\ d[i] = c[old(i)]
        BY <1>2, <1>7
      <3> QED
        BY <1>2, <1>3, <3>1
    <2> QED
      BY <2>1, <2>2
  <1>12. proclist' = IF m - 1 = 0 THEN NULL ELSE d[1]
    <2>1. CASE k = 1
      <3>1. heap[x].prev = NULL /\ proclist' = heap[x].next
        BY <1>2, <1>3, <2>1
      <3>2. heap[x].next = IF m = 1 THEN NULL ELSE c[2]
        BY <1>2, <1>3, <2>1
      <3>3. m - 1 # 0 => d[1] = c[2]
        BY <1>4, <1>5, <2>1
      <3> QED
        BY <1>4, <3>1, <3>2, <3>3
    <2>2. CASE k # 1
      <3>1. k - 1 \in 1 .. m /\ m # 1 /\ heap[x].prev = c[k - 1] /\ c[k - 1] \in Procs
        BY <1>2, <1>3, <2>2
      <3>2. proclist' = c[1]
        BY <1>2, <1>4, <3>1
      <3>3. d[1] = c[1]
        BY <1>3, <1>4, <1>5, <2>2, <3>1
      <3> QED
        BY <1>4, <3>1, <3>2, <3>3
    <2> QED
      BY <2>1, <2>2
  <1>13. /\ heap[x].next = IF k = m THEN NULL ELSE c[k + 1]
         /\ heap[x].prev = IF k = 1 THEN NULL ELSE c[k - 1]
    BY <1>2, <1>3
  <1>14. ASSUME NEW i \in 1 .. m - 1
         PROVE  heap'[d[i]].next = IF i = m - 1 THEN NULL ELSE d[i + 1]
    <2>1. PICK j \in 1 .. m : j = old(i) /\ j # k /\ d[i] = c[j]
      BY <1>7
    <2>2. c[j] \in allocated \ {x}
      BY <1>2, <1>3, <2>1
    <2>3. c[j] = heap[x].prev <=> j + 1 = k
      <3>1. CASE k = 1
        BY <1>2, <1>13, <2>1, <3>1
      <3>2. CASE k # 1
        <4>1. k - 1 \in 1 .. m /\ heap[x].prev = c[k - 1]
          BY <1>3, <1>13, <3>2
        <4> QED
          BY <1>2, <2>1, <4>1
      <3> QED
        BY <3>1, <3>2
    <2>4. heap[c[j]].next = IF j = m THEN NULL ELSE c[j + 1]
      BY <1>2
    <2>5. i # m - 1 => d[i + 1] = c[old(i + 1)] /\ i + 1 \in 1 .. m - 1
      BY <1>7
    <2>6. CASE j + 1 = k
      <3>1. heap'[d[i]].next = IF k = m THEN NULL ELSE c[k + 1]
        BY <1>13, <2>1, <2>2, <2>3, <2>6
      <3>2. i = j /\ (i = m - 1 <=> k = m) /\ old(i + 1) = k + 1
        BY <1>3, <2>1, <2>6
      <3> QED
        BY <2>5, <3>1, <3>2
    <2>7. CASE j + 1 # k
      <3>1. heap'[d[i]].next = IF j = m THEN NULL ELSE c[j + 1]
        BY <2>1, <2>2, <2>3, <2>4, <2>7
      <3>2. (i = m - 1 <=> j = m) /\ old(i + 1) = j + 1
        BY <1>3, <2>1, <2>7
      <3> QED
        BY <2>5, <3>1, <3>2
    <2> QED
      BY <2>6, <2>7
  <1>15. ASSUME NEW i \in 1 .. m - 1
         PROVE  heap'[d[i]].prev = IF i = 1 THEN NULL ELSE d[i - 1]
    <2>1. PICK j \in 1 .. m : j = old(i) /\ j # k /\ d[i] = c[j]
      BY <1>7
    <2>2. c[j] \in allocated \ {x}
      BY <1>2, <1>3, <2>1
    <2>3. c[j] = heap[x].next <=> j = k + 1
      <3>1. CASE k = m
        BY <1>2, <1>13, <2>1, <3>1
      <3>2. CASE k # m
        <4>1. k + 1 \in 1 .. m /\ heap[x].next = c[k + 1]
          BY <1>3, <1>13, <3>2
        <4> QED
          BY <1>2, <2>1, <4>1
      <3> QED
        BY <3>1, <3>2
    <2>4. heap[c[j]].prev = IF j = 1 THEN NULL ELSE c[j - 1]
      BY <1>2
    <2>5. i # 1 => d[i - 1] = c[old(i - 1)] /\ i - 1 \in 1 .. m - 1
      BY <1>7
    <2>6. CASE j = k + 1
      <3>1. heap'[d[i]].prev = IF k = 1 THEN NULL ELSE c[k - 1]
        BY <1>13, <2>1, <2>2, <2>3, <2>6
      <3>2. i = k /\ (i # 1 => old(i - 1) = k - 1)
        BY <1>3, <2>1, <2>6
      <3> QED
        BY <2>5, <3>1, <3>2
    <2>7. CASE j # k + 1
      <3>1. heap'[d[i]].prev = IF j = 1 THEN NULL ELSE c[j - 1]
        BY <2>1, <2>2, <2>3, <2>4, <2>7
      <3>2. (i = 1 <=> j = 1) /\ (i # 1 => old(i - 1) = j - 1)
        BY <1>3, <2>1, <2>7
      <3> QED
        BY <2>5, <3>1, <3>2
    <2> QED
      BY <2>6, <2>7
  <1>16. Links(m - 1, d)'
    BY <1>10, <1>11, <1>12, <1>14, <1>15 DEF Links
  <1> QED
    BY <1>4, <1>6, <1>16 DEF ListLinked

-----------------------------------------------------------------------------
(***************************************************************************)
(* The steps that leave the list as it is.                                 *)
(***************************************************************************)

\* The shell begins with no children.
LEMMA InitIInv == Init => IInv
  <1> SUFFICES ASSUME Init PROVE IInv
    OBVIOUS
  <1>1. TypeOK
    <2>1. PICK blank \in Proc : blank = Blank
      BY DEF Blank, Proc
    <2>2. heap \in [Procs -> Proc]
      BY <2>1 DEF Init
    <2>3. forks \in 0 .. MaxForks /\ signals \in 0 .. MaxSignals
      BY ChildrenAssumption DEF Init
    <2>4. kernel \in [Pids -> {"none", "running", "zombie"}]
          /\ exitStatus \in [Pids -> Statuses \cup {Unset}]
      BY DEF Init
    <2> QED
      BY <2>2, <2>3, <2>4 DEF Init, TypeOK, AnyPid
  <1>2. ListLinked
    <2>1. PICK c : c = [i \in 1 .. 0 |-> CHOOSE x \in Procs : TRUE]
      OBVIOUS
    <2>2. c \in [1 .. 0 -> Procs] /\ Links(0, c)
      BY <2>1 DEF Links, Init
    <2> QED
      BY <2>2 DEF ListLinked
  <1>3. PidsExact /\ KernelAgrees /\ StatusesKept
    BY DEF Init, PidsExact, KernelAgrees, StatusesKept
  <1>4. WaitExact /\ ReturnExact /\ NeverDeniedUnlessLost
    BY DEF Init, WaitExact, ReturnExact, NeverDeniedUnlessLost
  <1> QED
    BY <1>1, <1>2, <1>3, <1>4 DEF IInv

\* What is owed is what is listed.
LEMMA OwedListed ==
  ASSUME IInv
  PROVE  /\ \A p : p \in owed <=> \E x \in allocated : heap[x].pid = p
         /\ \A x \in allocated : heap[x].pid \in owed /\ heap[x].pid \in Pids /\ x \in Procs
         /\ owed \subseteq Pids
  BY DEF IInv, PidsExact, TypeOK

\* A child exits: it is listed as alive, so no status that is kept changes.
LEMMA ExitIInv ==
  ASSUME IInv, NEW p \in Pids, Exit(p)
  PROVE  IInv'
  <1>1. /\ kernel[p] = "running" /\ kernel' = [kernel EXCEPT ![p] = "zombie"]
        /\ UNCHANGED <<heap, allocated, proclist, pc, want, interruptible, proc, n, status, slow,
                       interrupted, pending, owed, lost, forks, signals>>
    BY DEF Exit, listVars, waitVars, signalVars, counters
  <1>2. PICK s \in Statuses : exitStatus' = [exitStatus EXCEPT ![p] = s]
    BY DEF Exit
  <1>3. TypeOK'
    BY <1>1, <1>2 DEF IInv, TypeOK
  <1>4. /\ kernel \in [Pids -> {"none", "running", "zombie"}]
        /\ exitStatus \in [Pids -> Statuses \cup {Unset}]
    BY DEF IInv, TypeOK
  <1>5. ListLinked' /\ PidsExact'
    BY <1>1, LinksKept DEF IInv, PidsExact
  <1>6. KernelAgrees'
    BY <1>1, <1>4 DEF IInv, KernelAgrees
  <1>7. \A x \in allocated : ~heap[x].alive => heap[x].pid # p
    BY <1>1 DEF IInv, KernelAgrees, PidsExact
  <1>8. StatusesKept'
    BY <1>1, <1>2, <1>4, <1>7, OwedListed DEF IInv, StatusesKept
  <1>9. WaitExact' /\ NeverDeniedUnlessLost'
    BY <1>1 DEF IInv, WaitExact, NeverDeniedUnlessLost
  <1>10. ReturnExact'
    BY <1>1, <1>2, <1>4 DEF IInv, ReturnExact
  <1> QED
    BY <1>3, <1>5, <1>6, <1>8, <1>9, <1>10 DEF IInv

\* catcher: what it jumps away from is recorded as lost.
LEMMA SignalIInv ==
  ASSUME IInv, Signal
  PROVE  IInv'
  <1>1. UNCHANGED <<kernel, exitStatus, heap, allocated, proclist, want, interruptible, proc, n,
                    status, slow, owed, forks>>
    BY DEF Signal, listVars
  <1>2. slow => pc \in {"test", "block", "back", "jumped"}
    BY DEF IInv, TypeOK
  <1>3. \/ pc' = pc /\ lost' = lost
        \/ pc \in {"test", "block", "jumped"} /\ pc' = "jumped" /\ lost' = lost
        \/ pc = "back" /\ pc' = "jumped" /\ lost' = (IF n > 0 THEN lost \cup {n} ELSE lost)
    BY <1>2 DEF Signal, IInv, TypeOK
  <1>4. n \in Pids \cup {0, NoChild, Interrupted} /\ Pids \subseteq Nat \ {0}
        /\ (n > 0 => n \in Pids) /\ (n \in Pids => n > 0)
    BY ChildrenAssumption DEF IInv, TypeOK, NoChild, Interrupted
  <1>5. TypeOK'
    <2>1. lost' \subseteq Pids
      BY <1>3, <1>4 DEF IInv, TypeOK
    <2>2. signals' \in 0 .. MaxSignals
      BY ChildrenAssumption DEF Signal, IInv, TypeOK
    <2>3. interrupted' \in BOOLEAN /\ pending' \in BOOLEAN
      BY DEF Signal
    <2>4. slow' => pc' \in {"test", "block", "back", "jumped"}
      BY <1>1, <1>2 DEF Signal
    <2> QED
      BY <1>1, <1>3, <2>1, <2>2, <2>3, <2>4 DEF IInv, TypeOK
  <1>6. ListLinked' /\ PidsExact' /\ StatusesKept'
    BY <1>1, LinksKept DEF IInv, PidsExact, StatusesKept
  <1>7. KernelAgrees'
    <2>1. ASSUME NEW x \in allocated, heap[x].alive
          PROVE  \/ kernel[heap[x].pid] # "none"
                 \/ heap[x].pid \in lost'
                 \/ pc' \in {"back", "returned"} /\ n = heap[x].pid
      BY <1>3, <1>4, <2>1, OwedListed DEF IInv, KernelAgrees
    <2> QED
      BY <1>1, <2>1 DEF IInv, KernelAgrees
  <1>8. WaitExact' /\ NeverDeniedUnlessLost' /\ ReturnExact'
    BY <1>1, <1>3 DEF IInv, WaitExact, NeverDeniedUnlessLost, ReturnExact
  <1> QED
    BY <1>5, <1>6, <1>7, <1>8 DEF IInv

\* The shell takes a signal, begins or goes on to wait.
LEMMA QuietIInv ==
  ASSUME IInv,
         \/ Deliver \/ Enter \/ Arm \/ Test \/ Back \/ Jumped
         \/ \E p \in Pids \cup {AnyPid}, i \in BOOLEAN : Ewait(p, i)
         \/ Wait3Fails \/ Fail
  PROVE  IInv'
  <1>1. UNCHANGED <<kernel, exitStatus, heap, allocated, proclist, owed, lost, forks, signals>>
    BY DEF Deliver, Enter, Arm, Test, Back, Jumped, Ewait, Wait3Fails, Fail, listVars, counters
  <1>2. ListLinked' /\ PidsExact' /\ StatusesKept'
    BY <1>1, LinksKept DEF IInv, PidsExact, StatusesKept
  <1>3. TypeOK'
    <2>1. /\ pc' \in {"run", "top", "enter", "arm", "test", "block", "back", "jumped", "returned",
                      "finish", "fail"}
          /\ want' \in Pids \cup {AnyPid}
          /\ slow' => pc' \in {"test", "block", "back", "jumped"}
      BY DEF IInv, TypeOK, Deliver, Enter, Arm, Test, Back, Jumped, Ewait, Wait3Fails, Fail,
             Leaving, waitVars, signalVars
    <2>2. /\ interruptible' \in BOOLEAN /\ slow' \in BOOLEAN
          /\ interrupted' \in BOOLEAN /\ pending' \in BOOLEAN
      BY DEF IInv, TypeOK, Deliver, Enter, Arm, Test, Back, Jumped, Ewait, Wait3Fails, Fail,
             Leaving, waitVars, signalVars
    <2>3. /\ proc' \in Procs \cup {NULL} /\ status' \in Statuses \cup {Unset}
          /\ n' \in Pids \cup {0, NoChild, Interrupted}
      BY DEF IInv, TypeOK, Deliver, Enter, Arm, Test, Back, Jumped, Ewait, Wait3Fails, Fail,
             Leaving, waitVars
    <2> QED
      BY <1>1, <2>1, <2>2, <2>3 DEF IInv, TypeOK
  <1>4. NoChild \notin Pids /\ Interrupted \notin Pids /\ NoChild # Interrupted
    BY ChildrenAssumption DEF NoChild, Interrupted
  <1>5. KernelAgrees'
    <2>1. \/ pc' \in {"back", "returned"} /\ pc \in {"back", "returned"} /\ n' = n
          \/ pc \notin {"back", "returned"}
      BY DEF Deliver, Enter, Arm, Test, Back, Jumped, Ewait, Wait3Fails, Fail, Leaving,
             waitVars
    <2> QED
      BY <1>1, <2>1 DEF IInv, KernelAgrees
  <1>6. WaitExact' /\ NeverDeniedUnlessLost'
    BY <1>1 DEF IInv, WaitExact, NeverDeniedUnlessLost, Deliver, Enter, Arm, Test, Back, Jumped,
                Ewait, Wait3Fails, Fail, Leaving, waitVars
  <1>7. ReturnExact'
    BY <1>1, <1>4 DEF IInv, ReturnExact, Deliver, Enter, Arm, Test, Back, Jumped,
                Ewait, Wait3Fails, Fail, Leaving, waitVars
  <1> QED
    BY <1>2, <1>3, <1>5, <1>6, <1>7 DEF IInv

\* What the search finds is listed; if it finds nothing, nothing is owed, or all
\* that is owed is alive.
LEMMA TopIInv ==
  ASSUME IInv, Top
  PROVE  IInv'
  <1>1. /\ pc = "top" /\ proc' = Wanted
        /\ UNCHANGED <<kernel, exitStatus, heap, allocated, proclist, want, interruptible, n,
                       status, slow, interrupted, pending, owed, lost, forks, signals>>
    BY DEF Top, listVars, signalVars, counters
  <1>2. NULL \notin Procs /\ allocated \subseteq Procs
    BY ChildrenAssumption DEF IInv, TypeOK
  <1>3. \/ Wanted = NULL /\ want = AnyPid /\ \A x \in allocated : heap[x].alive
        \/ Wanted = NULL /\ want # AnyPid /\ \A x \in allocated : heap[x].pid # want
        \/ Wanted \in allocated /\ want = AnyPid /\ ~heap[Wanted].alive
        \/ Wanted \in allocated /\ want # AnyPid /\ heap[Wanted].pid = want
    <2>1. CASE want = AnyPid
      <3>1. Wanted = FirstIn(Dead) /\ Dead \in SUBSET Procs
        BY <2>1 DEF Wanted, Dead
      <3>2. IF Dead \cap allocated = {} THEN FirstIn(Dead) = NULL
            ELSE FirstIn(Dead) \in Dead \cap allocated
        BY <3>1, ListFacts DEF IInv
      <3> QED
        BY <1>2, <2>1, <3>1, <3>2 DEF Dead
    <2>2. CASE want # AnyPid
      <3>1. Wanted = FirstIn(WithPid(want)) /\ WithPid(want) \in SUBSET Procs
        BY <2>2 DEF Wanted, WithPid
      <3>2. IF WithPid(want) \cap allocated = {} THEN FirstIn(WithPid(want)) = NULL
            ELSE FirstIn(WithPid(want)) \in WithPid(want) \cap allocated
        BY <3>1, ListFacts DEF IInv
      <3> QED
        BY <1>2, <2>2, <3>1, <3>2 DEF WithPid
    <2> QED
      BY <2>1, <2>2
  <1>4. pc' = IF Wanted = NULL THEN IF want = AnyPid THEN "enter" ELSE "fail"
              ELSE IF heap[Wanted].alive THEN "enter" ELSE "finish"
    BY DEF Top
  <1>5. TypeOK'
    <2>1. proc' \in Procs \cup {NULL} /\ pc' \in {"enter", "fail", "finish"} /\ ~slow
      BY <1>1, <1>2, <1>3, <1>4 DEF IInv, TypeOK
    <2> QED
      BY <1>1, <2>1 DEF IInv, TypeOK
  <1>6. ListLinked' /\ PidsExact' /\ StatusesKept'
    BY <1>1, LinksKept DEF IInv, PidsExact, StatusesKept
  <1>7. KernelAgrees' /\ ReturnExact'
    BY <1>1, <1>4 DEF IInv, KernelAgrees, ReturnExact
  <1>8. WaitExact'
    BY <1>1, <1>2, <1>3, <1>4 DEF WaitExact
  <1>9. NeverDeniedUnlessLost'
    BY <1>1, <1>2, <1>3, <1>4, OwedListed DEF NeverDeniedUnlessLost
  <1> QED
    BY <1>5, <1>6, <1>7, <1>8, <1>9 DEF IInv

-----------------------------------------------------------------------------
(***************************************************************************)
(* The steps that write to the structures.                                 *)
(***************************************************************************)

\* wait3: the status that goes to the awaited structure is that of another process,
\* or is its own, but the structure is alive.
LEMMA Wait3IInv ==
  ASSUME IInv, NEW p \in Pids, Wait3(p)
  PROVE  IInv'
  <1>1. /\ pc = "block" /\ kernel[p] = "zombie" /\ kernel' = [kernel EXCEPT ![p] = "none"]
        /\ n' = p /\ pc' = "back" /\ Store(exitStatus[p])
        /\ UNCHANGED <<exitStatus, allocated, proclist, want, interruptible, proc, slow,
                       interrupted, pending, owed, lost, forks, signals>>
    BY DEF Wait3, signalVars, counters
  <1>2. /\ heap \in [Procs -> Proc] /\ exitStatus[p] \in Statuses \cup {Unset}
        /\ kernel \in [Pids -> {"none", "running", "zombie"}]
        /\ proc \in Procs \cup {NULL} /\ NULL \notin Procs /\ allocated \subseteq Procs
    BY ChildrenAssumption DEF IInv, TypeOK
  <1>3. p # NoChild
    BY ChildrenAssumption DEF NoChild
  <1>4. IF want = AnyPid THEN proc = NULL /\ \A x \in allocated : heap[x].alive
        ELSE proc \in allocated /\ heap[proc].alive /\ heap[proc].pid = want
    BY <1>1 DEF IInv, WaitExact
  <1>5. /\ heap' \in [Procs -> Proc] /\ status' \in Statuses \cup {Unset}
        /\ \A x \in Procs :
             /\ heap'[x].pid = heap[x].pid /\ heap'[x].alive = heap[x].alive
             /\ heap'[x].next = heap[x].next /\ heap'[x].prev = heap[x].prev
             /\ x # proc => heap'[x].status = heap[x].status
        /\ exitStatus[p] = IF proc = NULL THEN status' ELSE heap'[proc].status
    <2>1. CASE proc = NULL
      BY <1>1, <1>2, <2>1 DEF Store
    <2>2. CASE proc # NULL
      <3>1. proc \in Procs
        BY <1>2, <2>2
      <3>2. heap' = [heap EXCEPT ![proc].status = exitStatus[p]] /\ status' = status
        BY <1>1, <2>2 DEF Store
      <3> QED
        BY <1>2, <2>2, <3>1, <3>2 DEF Proc, IInv, TypeOK
    <2> QED
      BY <2>1, <2>2
  <1>6. TypeOK'
    <2>1. kernel' \in [Pids -> {"none", "running", "zombie"}]
      BY <1>1, <1>2
    <2> QED
      BY <1>1, <1>5, <2>1 DEF IInv, TypeOK
  <1>7. ListLinked' /\ PidsExact'
    BY <1>1, <1>2, <1>5, LinksKept DEF IInv, PidsExact
  <1>8. KernelAgrees'
    <2>1. ASSUME NEW q \in Pids, kernel'[q] # "none"
          PROVE  \E x \in allocated : heap'[x].pid = q /\ heap'[x].alive
      <3>1. kernel[q] # "none"
        BY <1>1, <1>2, <2>1
      <3> QED
        BY <1>2, <1>5, <3>1 DEF IInv, KernelAgrees
    <2>2. ASSUME NEW x \in allocated, heap'[x].alive
          PROVE  kernel'[heap'[x].pid] # "none" \/ heap'[x].pid \in lost \/ heap'[x].pid = p
      <3>1. heap[x].alive /\ heap[x].pid \in Pids /\ heap'[x].pid = heap[x].pid
        BY <1>2, <1>5, <2>2, OwedListed
      <3>2. kernel[heap[x].pid] # "none" \/ heap[x].pid \in lost
        BY <1>1, <3>1 DEF IInv, KernelAgrees
      <3> QED
        BY <1>1, <1>2, <3>1, <3>2
    <2> QED
      BY <1>1, <2>1, <2>2 DEF KernelAgrees
  <1>9. StatusesKept'
    BY <1>1, <1>2, <1>4, <1>5 DEF IInv, StatusesKept
  <1>10. WaitExact' /\ NeverDeniedUnlessLost'
    BY <1>1, <1>2, <1>4, <1>5 DEF WaitExact, NeverDeniedUnlessLost
  <1>11. ReturnExact'
    <2>1. p \in owed
      BY <1>1, OwedListed DEF IInv, KernelAgrees
    <2>2. kernel'[p] = "none"
      BY <1>1, <1>2
    <2> QED
      BY <1>1, <1>3, <1>5, <2>1, <2>2 DEF ReturnExact
  <1> QED
    BY <1>6, <1>7, <1>8, <1>9, <1>10, <1>11 DEF IInv

\* dowait has returned a child: the status is moved to the structure that it
\* belongs to.
LEMMA GotChildIInv ==
  ASSUME IInv, GotChild
  PROVE  IInv'
  <1> DEFINE s == IF proc = NULL THEN status ELSE heap[proc].status
             dead == FirstIn(WithPid(n))
  <1>1. /\ pc = "returned" /\ n > 0
        /\ UNCHANGED <<kernel, exitStatus, allocated, proclist, want, interruptible, proc, n,
                       status, slow, interrupted, pending, owed, lost, forks, signals>>
    BY DEF GotChild, signalVars, counters
  <1>2. /\ heap \in [Procs -> Proc] /\ ~slow /\ status \in Statuses \cup {Unset}
        /\ proc \in Procs \cup {NULL} /\ NULL \notin Procs /\ allocated \subseteq Procs
        /\ n \in Pids /\ n # NoChild /\ n # AnyPid
    BY <1>1, ChildrenAssumption DEF IInv, TypeOK, NoChild, Interrupted, AnyPid
  <1>3. kernel[n] = "none" /\ n \in owed /\ exitStatus[n] = s
    BY <1>1, <1>2 DEF IInv, ReturnExact
  <1>4. IF want = AnyPid THEN proc = NULL /\ \A x \in allocated : heap[x].alive
        ELSE proc \in allocated /\ heap[proc].alive /\ heap[proc].pid = want
    BY <1>1 DEF IInv, WaitExact
  <1>5. dead \in allocated /\ heap[dead].pid = n
    <2>1. WithPid(n) \in SUBSET Procs /\ WithPid(n) \cap allocated # {}
      BY <1>2, <1>3, OwedListed DEF WithPid
    <2>2. dead \in WithPid(n) \cap allocated
      BY <2>1, ListFacts DEF IInv
    <2> QED
      BY <2>2 DEF WithPid
  <1>6. s \in Statuses \cup {Unset}
    BY <1>2 DEF Proc
  <1> HIDE DEF s, dead
  <1>7. /\ dead \in Procs /\ heap' \in [Procs -> Proc]
        /\ \A x \in Procs :
             /\ heap'[x].pid = heap[x].pid
             /\ heap'[x].next = heap[x].next /\ heap'[x].prev = heap[x].prev
             /\ x # dead => heap'[x] = heap[x]
        /\ ~heap'[dead].alive /\ heap'[dead].status = exitStatus[n]
        /\ n = want => dead = proc
    <2>1. CASE n = want
      <3>1. proc = dead /\ proc \in Procs /\ s = heap[proc].status
        BY <1>2, <1>4, <1>5, <2>1 DEF IInv, PidsExact, s
      <3>2. heap' = [heap EXCEPT ![proc].alive = FALSE]
        BY <2>1 DEF GotChild
      <3>3. heap' \in [Procs -> Proc] /\ \A x \in Procs : x # proc => heap'[x] = heap[x]
        BY <1>2, <3>1, <3>2 DEF Proc
      <3>4. /\ heap'[proc].pid = heap[proc].pid /\ heap'[proc].next = heap[proc].next
            /\ heap'[proc].prev = heap[proc].prev /\ heap'[proc].status = heap[proc].status
            /\ heap'[proc].alive = FALSE
        BY <1>2, <3>1, <3>2 DEF Proc
      <3> QED
        BY <1>3, <3>1, <3>3, <3>4
    <2>2. CASE n # want
      <3>1. heap' = [heap EXCEPT ![dead].alive = FALSE, ![dead].status = s] /\ dead \in Procs
        BY <1>2, <1>5, <2>2 DEF GotChild, Reaped, s, dead
      <3> QED
        BY <1>2, <1>3, <1>6, <2>2, <3>1 DEF Proc
    <2> QED
      BY <2>1, <2>2
  <1>8. pc' = IF n = want THEN "finish" ELSE IF want = AnyPid THEN "top" ELSE "enter"
    BY DEF GotChild
  <1>9. TypeOK'
    BY <1>1, <1>2, <1>7, <1>8 DEF IInv, TypeOK
  <1>10. ListLinked' /\ PidsExact'
    BY <1>1, <1>2, <1>7, LinksKept DEF IInv, PidsExact
  <1>11. KernelAgrees'
    <2>1. ASSUME NEW q \in Pids, kernel[q] # "none"
          PROVE  \E x \in allocated : heap'[x].pid = q /\ heap'[x].alive
      <3>1. PICK x \in allocated : heap[x].pid = q /\ heap[x].alive
        BY <2>1 DEF IInv, KernelAgrees
      <3>2. x # dead
        BY <1>3, <1>5, <2>1, <3>1
      <3> QED
        BY <1>2, <1>7, <3>1, <3>2
    <2>2. ASSUME NEW x \in allocated, heap'[x].alive
          PROVE  kernel[heap'[x].pid] # "none" \/ heap'[x].pid \in lost
      <3>1. x # dead /\ x \in Procs
        BY <1>2, <1>7, <2>2
      <3>2. heap[x].pid # n /\ heap[x].alive /\ heap'[x] = heap[x]
        BY <1>5, <1>7, <2>2, <3>1 DEF IInv, PidsExact
      <3> QED
        BY <1>1, <3>2 DEF IInv, KernelAgrees
    <2> QED
      BY <1>1, <2>1, <2>2 DEF KernelAgrees
  <1>12. StatusesKept'
    BY <1>1, <1>2, <1>5, <1>7 DEF IInv, StatusesKept
  <1>13. WaitExact'
    <2>1. CASE n = want
      BY <1>1, <1>2, <1>4, <1>7, <1>8, <2>1 DEF WaitExact
    <2>2. CASE n # want /\ want = AnyPid
      BY <1>1, <1>8, <2>2 DEF WaitExact
    <2>3. CASE n # want /\ want # AnyPid
      <3>1. proc # dead /\ proc \in Procs
        BY <1>2, <1>4, <1>5, <2>3
      <3> QED
        BY <1>1, <1>4, <1>7, <1>8, <2>3, <3>1 DEF WaitExact
    <2> QED
      BY <2>1, <2>2, <2>3
  <1>14. NeverDeniedUnlessLost' /\ ReturnExact'
    BY <1>8 DEF NeverDeniedUnlessLost, ReturnExact
  <1> QED
    BY <1>9, <1>10, <1>11, <1>12, <1>13, <1>14 DEF IInv

\* EINTR, and ECHILD: a process that is denied then was lost.
LEMMA GotOtherIInv ==
  ASSUME IInv, GotInterrupt \/ GotNone
  PROVE  IInv'
  <1>1. /\ pc = "returned" /\ n \in {NoChild, Interrupted}
        /\ UNCHANGED <<kernel, exitStatus, heap, allocated, proclist, slow, interrupted, owed,
                       lost, forks, signals>>
    BY DEF GotInterrupt, GotNone, listVars, waitVars, signalVars, counters
  <1>2. \/ pc' \in {"enter", "fail"} /\ UNCHANGED <<want, interruptible, proc, n, status>>
        \/ Leaving
    BY DEF GotInterrupt, GotNone
  <1>3. ~slow /\ n \notin Pids
    BY <1>1, ChildrenAssumption DEF IInv, TypeOK, NoChild, Interrupted
  <1>4. TypeOK'
    <2>1. pending' \in BOOLEAN
      BY DEF IInv, TypeOK, GotInterrupt, GotNone, signalVars
    <2> QED
      BY <1>1, <1>2, <1>3, <2>1 DEF IInv, TypeOK, Leaving, AnyPid
  <1>5. ListLinked' /\ PidsExact' /\ StatusesKept'
    BY <1>1, LinksKept DEF IInv, PidsExact, StatusesKept
  <1>6. KernelAgrees'
    BY <1>1, <1>3, OwedListed DEF IInv, KernelAgrees
  <1>7. WaitExact' /\ ReturnExact'
    BY <1>1, <1>2 DEF IInv, WaitExact, ReturnExact, Leaving
  <1>8. NeverDeniedUnlessLost'
    <2>1. CASE pc' # "fail"
      BY <2>1 DEF NeverDeniedUnlessLost
    <2>2. CASE pc' = "fail"
      <3>1. /\ n = NoChild /\ UNCHANGED <<want, proc>>
        BY <2>2 DEF GotInterrupt, GotNone, Leaving
      <3>2. \A x \in allocated : heap[x].alive => heap[x].pid \in lost
        BY <1>1, <1>3, <3>1, OwedListed DEF IInv, KernelAgrees, ReturnExact
      <3>3. IF want = AnyPid THEN \A x \in allocated : heap[x].alive
            ELSE proc \in allocated /\ heap[proc].alive /\ heap[proc].pid = want
        BY <1>1 DEF IInv, WaitExact
      <3>4. IF want = AnyPid THEN owed \subseteq lost ELSE want \notin owed \ lost
        BY <3>2, <3>3, OwedListed
      <3> QED
        BY <1>1, <3>1, <3>4 DEF NeverDeniedUnlessLost
    <2> QED
      BY <2>1, <2>2
  <1> QED
    BY <1>4, <1>5, <1>6, <1>7, <1>8 DEF IInv

\* The neighbours of a listed structure are listed.
LEMMA Neighbours ==
  ASSUME IInv
  PROVE  /\ \A x \in allocated : /\ heap[x].next \in (allocated \ {x}) \cup {NULL}
                                 /\ heap[x].prev \in (allocated \ {x}) \cup {NULL}
                                 /\ heap[x].next # NULL => heap[heap[x].next].prev = x
         /\ proclist \in allocated \cup {NULL}
         /\ proclist # NULL => heap[proclist].prev = NULL
  <1>0. PICK m \in Nat : \E c \in [1 .. m -> Procs] : Links(m, c)
    BY DEF IInv, ListLinked
  <1>1. PICK c \in [1 .. m -> Procs] : Links(m, c)
    BY <1>0
  <1>2. /\ \A i, j \in 1 .. m : c[i] = c[j] => i = j
        /\ allocated = {c[i] : i \in 1 .. m}
        /\ proclist = IF m = 0 THEN NULL ELSE c[1]
        /\ \A i \in 1 .. m : /\ heap[c[i]].next = IF i = m THEN NULL ELSE c[i + 1]
                             /\ heap[c[i]].prev = IF i = 1 THEN NULL ELSE c[i - 1]
        /\ NULL \notin Procs
    BY <1>1, ChildrenAssumption DEF Links
  <1>3. ASSUME NEW x \in allocated
        PROVE  /\ heap[x].next \in (allocated \ {x}) \cup {NULL}
               /\ heap[x].prev \in (allocated \ {x}) \cup {NULL}
               /\ heap[x].next # NULL => heap[heap[x].next].prev = x
    <2>1. PICK i \in 1 .. m : c[i] = x
      BY <1>2
    <2>2. CASE i # m
      <3>1. i + 1 \in 1 .. m /\ heap[x].next = c[i + 1] /\ c[i + 1] # x /\ i + 1 # 1
            /\ (i + 1) - 1 = i
        BY <1>2, <2>1, <2>2
      <3>2. c[i + 1] \in allocated \ {x} /\ heap[c[i + 1]].prev = x
        BY <1>2, <2>1, <3>1
      <3>3. i # 1 => i - 1 \in 1 .. m /\ c[i - 1] # x
        BY <1>2, <2>1
      <3>4. heap[x].prev \in (allocated \ {x}) \cup {NULL}
        BY <1>2, <2>1, <3>3
      <3> QED
        BY <3>1, <3>2, <3>4
    <2>3. CASE i = m
      <3>1. i # 1 => i - 1 \in 1 .. m /\ c[i - 1] # x
        BY <1>2, <2>1
      <3> QED
        BY <1>2, <2>1, <2>3, <3>1
    <2> QED
      BY <2>2, <2>3
  <1>4. proclist \in allocated \cup {NULL} /\ (proclist # NULL => heap[proclist].prev = NULL)
    <2>1. m # 0 => 1 \in 1 .. m
      OBVIOUS
    <2> QED
      BY <1>2, <2>1
  <1> QED
    BY <1>3, <1>4

\* A dead process is unlinked and its structure freed.
LEMMA FinishIInv ==
  ASSUME IInv, Finish
  PROVE  IInv'
  <1>1. /\ pc = "finish" /\ allocated' = allocated \ {proc}
        /\ owed' = owed \ {heap[proc].pid} /\ lost' = lost \ {heap[proc].pid}
        /\ exitStatus' = [exitStatus EXCEPT ![heap[proc].pid] = Unset]
        /\ proclist' = IF heap[proc].prev # NULL THEN proclist ELSE heap[proc].next
        /\ pc' = "run" /\ want' = AnyPid /\ interruptible' = FALSE
        /\ proc' = NULL /\ n' = 0 /\ status' = Unset
        /\ UNCHANGED <<kernel, slow, interrupted, pending, forks, signals>>
    BY DEF Finish, Leaving, signalVars, counters
  <1>2. proc \in allocated /\ ~heap[proc].alive
    BY <1>1 DEF IInv, WaitExact
  <1>3. /\ heap \in [Procs -> Proc] /\ ~slow /\ NULL \notin Procs /\ allocated \subseteq Procs
        /\ proc \in Procs /\ heap[proc].pid \in Pids /\ owed \subseteq Pids
    BY <1>1, <1>2, ChildrenAssumption, OwedListed DEF IInv, TypeOK
  <1>4. /\ heap[proc].next \in (allocated \ {proc}) \cup {NULL}
        /\ heap[proc].prev \in (allocated \ {proc}) \cup {NULL}
    BY <1>2, Neighbours
  <1>5. PICK blank \in Proc : blank = Blank
    BY DEF Blank, Proc
  <1>6. /\ heap' \in [Procs -> Proc]
        /\ \A y \in Procs \ {proc} :
             /\ heap'[y].pid = heap[y].pid /\ heap'[y].alive = heap[y].alive
             /\ heap'[y].status = heap[y].status
             /\ heap'[y].next = IF y = heap[proc].prev THEN heap[proc].next ELSE heap[y].next
             /\ heap'[y].prev = IF y = heap[proc].next THEN heap[proc].prev ELSE heap[y].prev
    <2>1. PICK next \in Procs \cup {NULL}, prev \in Procs \cup {NULL} :
            next = heap[proc].next /\ prev = heap[proc].prev /\ next # proc /\ prev # proc
      BY <1>3, <1>4
    <2>2. PICK h1 : h1 = IF next # NULL THEN [heap EXCEPT ![next].prev = prev] ELSE heap
      OBVIOUS
    <2>3. /\ h1 \in [Procs -> Proc]
          /\ \A y \in Procs :
               /\ h1[y].pid = heap[y].pid /\ h1[y].alive = heap[y].alive
               /\ h1[y].status = heap[y].status /\ h1[y].next = heap[y].next
               /\ h1[y].prev = IF y = next THEN prev ELSE heap[y].prev
      <3>1. CASE next = NULL
        BY <1>3, <2>2, <3>1
      <3>2. CASE next # NULL
        BY <1>3, <2>1, <2>2, <3>2 DEF Proc
      <3> QED
        BY <3>1, <3>2
    <2>4. PICK h2 : h2 = IF prev # NULL THEN [h1 EXCEPT ![prev].next = next] ELSE h1
      OBVIOUS
    <2>5. /\ h2 \in [Procs -> Proc]
          /\ \A y \in Procs :
               /\ h2[y].pid = h1[y].pid /\ h2[y].alive = h1[y].alive
               /\ h2[y].status = h1[y].status /\ h2[y].prev = h1[y].prev
               /\ h2[y].next = IF y = prev THEN next ELSE h1[y].next
      <3>1. CASE prev = NULL
        BY <1>3, <2>3, <2>4, <3>1
      <3>2. CASE prev # NULL
        BY <1>3, <2>1, <2>3, <2>4, <3>2 DEF Proc
      <3> QED
        BY <3>1, <3>2
    <2>6. heap' = [h2 EXCEPT ![proc] = blank]
      BY <1>5, <2>1, <2>2, <2>4, Zenon DEF Finish
    <2>7. heap' \in [Procs -> Proc] /\ \A y \in Procs \ {proc} : heap'[y] = h2[y]
      BY <2>5, <2>6
    <2> QED
      BY <2>1, <2>3, <2>5, <2>7
  <1>7. \A y \in allocated \ {proc} : heap[y].pid # heap[proc].pid
    BY <1>2 DEF IInv, PidsExact
  <1>8. TypeOK'
    <2>1. exitStatus' \in [Pids -> Statuses \cup {Unset}]
      BY <1>1, <1>3 DEF IInv, TypeOK
    <2>2. proclist' \in Procs \cup {NULL}
      BY <1>1, <1>3, <1>4 DEF IInv, TypeOK
    <2> QED
      BY <1>1, <1>3, <1>6, <2>1, <2>2 DEF IInv, TypeOK, AnyPid
  <1>9. ListLinked'
    BY <1>1, <1>2, <1>3, <1>6, LinksUnlinked DEF IInv
  <1>10. PidsExact'
    <2>1. owed' = {heap'[y].pid : y \in allocated'}
      BY <1>1, <1>3, <1>6, <1>7, OwedListed
    <2> QED
      BY <1>1, <1>3, <1>6, <2>1 DEF IInv, PidsExact
  <1>11. KernelAgrees'
    <2>1. ASSUME NEW q \in Pids, kernel[q] # "none"
          PROVE  \E x \in allocated' : heap'[x].pid = q /\ heap'[x].alive
      <3>1. PICK x \in allocated : heap[x].pid = q /\ heap[x].alive
        BY <2>1 DEF IInv, KernelAgrees
      <3>2. x \in allocated \ {proc} /\ x \in Procs \ {proc}
        BY <1>2, <1>3, <3>1
      <3> QED
        BY <1>1, <1>6, <3>1, <3>2
    <2>2. ASSUME NEW x \in allocated', heap'[x].alive
          PROVE  kernel[heap'[x].pid] # "none" \/ heap'[x].pid \in lost'
      <3>1. /\ x \in allocated /\ heap[x].alive /\ heap'[x].pid = heap[x].pid
            /\ heap[x].pid # heap[proc].pid
        BY <1>1, <1>3, <1>6, <1>7, <2>2
      <3> QED
        BY <1>1, <3>1 DEF IInv, KernelAgrees
    <2> QED
      BY <1>1, <2>1, <2>2 DEF KernelAgrees
  <1>12. StatusesKept'
    <2>1. ASSUME NEW x \in allocated', ~heap'[x].alive
          PROVE  heap'[x].status = exitStatus'[heap'[x].pid]
      <3>1. /\ x \in allocated /\ ~heap[x].alive /\ heap'[x].pid = heap[x].pid
            /\ heap'[x].status = heap[x].status /\ heap[x].pid # heap[proc].pid
        BY <1>1, <1>3, <1>6, <1>7, <2>1
      <3>2. heap[x].pid \in Pids /\ heap[x].status = exitStatus[heap[x].pid]
        BY <3>1, OwedListed DEF IInv, StatusesKept
      <3>3. exitStatus \in [Pids -> Statuses \cup {Unset}]
        BY DEF IInv, TypeOK
      <3> QED
        BY <1>1, <3>1, <3>2, <3>3
    <2> QED
      BY <2>1 DEF StatusesKept
  <1>13. WaitExact' /\ ReturnExact' /\ NeverDeniedUnlessLost'
    BY <1>1 DEF WaitExact, ReturnExact, NeverDeniedUnlessLost
  <1> QED
    BY <1>8, <1>9, <1>10, <1>11, <1>12, <1>13 DEF IInv

\* A fresh id gets a structure of its own, at the head of the list.
LEMMA ForkIInv ==
  ASSUME ~Recycle, IInv, NEW p \in Pids, Fork(p)
  PROVE  IInv'
  <1>1. /\ pc = "run" /\ forks < MaxForks /\ forks' = forks + 1
        /\ kernel' = [kernel EXCEPT ![p] = "running"] /\ owed' = owed \cup {p}
        /\ UNCHANGED <<exitStatus, pc, want, interruptible, proc, n, status, slow, interrupted,
                       pending, lost, signals>>
    BY DEF Fork, waitVars, signalVars
  <1>2. kernel[p] = "none" /\ FirstIn(WithPid(p)) = NULL
    BY DEF Fork, Fresh, Unlisted
  <1>3. /\ heap \in [Procs -> Proc] /\ NULL \notin Procs /\ allocated \subseteq Procs
        /\ kernel \in [Pids -> {"none", "running", "zombie"}]
    BY ChildrenAssumption DEF IInv, TypeOK
  <1>4. p \notin owed
    <2>1. WithPid(p) \in SUBSET Procs
      BY DEF WithPid
    <2>2. IF WithPid(p) \cap allocated = {} THEN FirstIn(WithPid(p)) = NULL
          ELSE FirstIn(WithPid(p)) \in WithPid(p) \cap allocated
      BY <2>1, ListFacts DEF IInv
    <2>3. WithPid(p) \cap allocated = {}
      BY <1>2, <1>3, <2>1, <2>2
    <2> QED
      BY <2>3, OwedListed DEF WithPid
  <1>5. PICK x \in Procs \ allocated :
          /\ x = CHOOSE y \in Procs \ allocated : TRUE
          /\ heap' = Push(x, MkProc(x, p)) /\ allocated' = allocated \cup {x} /\ proclist' = x
    <2>1. Procs \ allocated # {}
      BY <1>2 DEF Fork
    <2>2. (CHOOSE y \in Procs \ allocated : TRUE) \in Procs \ allocated
      BY <2>1
    <2> QED
      BY <1>2, <2>2 DEF Fork
  <1>6. PICK node : node = MkProc(x, p)
    OBVIOUS
  <1>7. /\ node \in Proc /\ node.pid = p /\ node.alive /\ node.prev = NULL
        /\ node.next = proclist
    <2>1. proclist \in Procs \cup {NULL} /\ heap[x] \in Proc
      BY <1>3 DEF IInv, TypeOK
    <2>2. node = [heap[x] EXCEPT !.pid = p, !.alive = TRUE, !.prev = NULL, !.next = proclist]
      BY <1>5, <1>6 DEF MkProc
    <2> QED
      BY <2>1, <2>2 DEF Proc
  <1>8. /\ heap' \in [Procs -> Proc] /\ heap'[x] = node
        /\ \A y \in Procs \ {x} :
             /\ heap'[y].pid = heap[y].pid /\ heap'[y].alive = heap[y].alive
             /\ heap'[y].status = heap[y].status /\ heap'[y].next = heap[y].next
             /\ heap'[y].prev = IF y = proclist THEN x ELSE heap[y].prev
    <2>1. proclist \in allocated \cup {NULL}
      BY Neighbours
    <2>2. PICK h1 : h1 = [heap EXCEPT ![x] = node]
      OBVIOUS
    <2>3. h1 \in [Procs -> Proc] /\ h1[x] = node /\ \A y \in Procs \ {x} : h1[y] = heap[y]
      BY <1>3, <1>7, <2>2
    <2>4. CASE proclist = NULL
      BY <1>3, <1>5, <1>6, <2>2, <2>3, <2>4 DEF Push
    <2>5. CASE proclist # NULL
      <3>1. proclist \in Procs \ {x}
        BY <1>3, <2>1, <2>5
      <3>2. heap' = [h1 EXCEPT ![proclist].prev = x]
        BY <1>5, <1>6, <2>2, <2>5 DEF Push
      <3>3. heap' \in [Procs -> Proc] /\ \A y \in Procs \ {proclist} : heap'[y] = h1[y]
        BY <2>3, <3>1, <3>2 DEF Proc
      <3>4. /\ heap'[proclist].pid = h1[proclist].pid /\ heap'[proclist].alive = h1[proclist].alive
            /\ heap'[proclist].status = h1[proclist].status
            /\ heap'[proclist].next = h1[proclist].next /\ heap'[proclist].prev = x
        BY <2>3, <3>1, <3>2 DEF Proc
      <3> QED
        BY <2>3, <3>1, <3>3, <3>4
    <2> QED
      BY <2>4, <2>5
  <1>9. TypeOK'
    <2>1. forks' \in 0 .. MaxForks
      BY <1>1, ChildrenAssumption DEF IInv, TypeOK
    <2>2. kernel' \in [Pids -> {"none", "running", "zombie"}]
      BY <1>1, <1>3
    <2> QED
      BY <1>1, <1>5, <1>8, <2>1, <2>2 DEF IInv, TypeOK
  <1>10. ListLinked'
    <2>1. heap'[x].next = proclist /\ heap'[x].prev = NULL
      BY <1>7, <1>8
    <2>2. \A y \in allocated : /\ heap'[y].next = heap[y].next
                               /\ heap'[y].prev = IF y = proclist THEN x ELSE heap[y].prev
      BY <1>3, <1>5, <1>8
    <2> QED
      BY <1>3, <1>5, <2>1, <2>2, LinksPushed DEF IInv
  <1>11. \A y \in allocated : /\ y \in Procs /\ y # x /\ heap'[y].pid = heap[y].pid
                              /\ heap'[y].alive = heap[y].alive
                              /\ heap'[y].status = heap[y].status /\ heap[y].pid # p
    BY <1>3, <1>4, <1>5, <1>8, OwedListed
  <1>12. heap'[x].pid = p /\ heap'[x].alive
    BY <1>7, <1>8
  <1>13. PidsExact'
    <2>1. owed' = {heap'[y].pid : y \in allocated'}
      <3>1. {heap'[y].pid : y \in allocated'} = {heap'[y].pid : y \in allocated} \cup {heap'[x].pid}
        BY <1>5
      <3>2. {heap'[y].pid : y \in allocated} = {heap[y].pid : y \in allocated}
        BY <1>11
      <3> QED
        BY <1>1, <1>12, <3>1, <3>2 DEF IInv, PidsExact
    <2>2. ASSUME NEW y \in allocated', NEW z \in allocated', heap'[y].pid = heap'[z].pid
          PROVE  y = z
      <3>1. CASE y \in allocated /\ z \in allocated
        BY <1>11, <2>2, <3>1 DEF IInv, PidsExact
      <3>2. CASE y = x /\ z \in allocated
        BY <1>11, <1>12, <2>2, <3>2
      <3>3. CASE y \in allocated /\ z = x
        BY <1>11, <1>12, <2>2, <3>3
      <3> QED
        BY <1>5, <3>1, <3>2, <3>3
    <2> QED
      BY <2>1, <2>2 DEF PidsExact
  <1>14. KernelAgrees'
    <2>1. ASSUME NEW q \in Pids, kernel'[q] # "none"
          PROVE  \E y \in allocated' : heap'[y].pid = q /\ heap'[y].alive
      <3>1. CASE q = p
        BY <1>5, <1>12, <3>1
      <3>2. CASE q # p
        <4>1. kernel[q] # "none"
          BY <1>1, <1>3, <2>1, <3>2
        <4>2. PICK y \in allocated : heap[y].pid = q /\ heap[y].alive
          BY <4>1 DEF IInv, KernelAgrees
        <4> QED
          BY <1>5, <1>11, <4>2
      <3> QED
        BY <3>1, <3>2
    <2>2. ASSUME NEW y \in allocated', heap'[y].alive
          PROVE  kernel'[heap'[y].pid] # "none" \/ heap'[y].pid \in lost
      <3>1. CASE y = x
        BY <1>1, <1>3, <1>12, <3>1
      <3>2. CASE y \in allocated
        <4>1. heap[y].alive /\ heap[y].pid \in Pids /\ heap[y].pid # p
          BY <1>11, <2>2, <3>2, OwedListed
        <4>2. kernel[heap[y].pid] # "none" \/ heap[y].pid \in lost
          BY <1>1, <3>2, <4>1 DEF IInv, KernelAgrees
        <4> QED
          BY <1>1, <1>3, <1>11, <3>2, <4>1, <4>2
      <3> QED
        BY <1>5, <3>1, <3>2
    <2> QED
      BY <1>1, <2>1, <2>2 DEF KernelAgrees
  <1>15. StatusesKept'
    <2>1. ASSUME NEW y \in allocated', ~heap'[y].alive
          PROVE  heap'[y].status = exitStatus[heap'[y].pid]
      <3>1. y \in allocated
        BY <1>5, <1>12, <2>1
      <3> QED
        BY <1>11, <2>1, <3>1 DEF IInv, StatusesKept
    <2> QED
      BY <1>1, <2>1 DEF StatusesKept
  <1>16. WaitExact' /\ ReturnExact' /\ NeverDeniedUnlessLost'
    BY <1>1 DEF WaitExact, ReturnExact, NeverDeniedUnlessLost
  <1> QED
    BY <1>9, <1>10, <1>13, <1>14, <1>15, <1>16 DEF IInv

-----------------------------------------------------------------------------
(***************************************************************************)
(* The theorems.  An id that comes back while its dead process is still    *)
(* listed (Recycle) breaks the list, so they are about ids that do not.    *)
(***************************************************************************)

\* Every step keeps the invariant.
LEMMA NextIInv == ASSUME ~Recycle PROVE IInv /\ [Next]_vars => IInv'
  <1> SUFFICES ASSUME IInv, [Next]_vars PROVE IInv'
    OBVIOUS
  <1>1. CASE \E p \in Pids : Fork(p) \/ Exit(p)
    BY <1>1, ForkIInv, ExitIInv
  <1>2. CASE Signal
    BY <1>2, SignalIInv
  <1>3. CASE \/ Deliver \/ Enter \/ Arm \/ Test \/ Back \/ Jumped
             \/ \E p \in Pids \cup {AnyPid}, i \in BOOLEAN : Ewait(p, i)
             \/ Wait3Fails \/ Fail
    BY <1>3, QuietIInv
  <1>4. CASE Top \/ \E p \in Pids : Wait3(p)
    BY <1>4, TopIInv, Wait3IInv
  <1>5. CASE GotChild \/ GotInterrupt \/ GotNone \/ Finish
    BY <1>5, GotChildIInv, GotOtherIInv, FinishIInv
  <1>6. CASE UNCHANGED vars
    <2>1. UNCHANGED <<kernel, exitStatus, heap, allocated, proclist, pc, want, interruptible,
                      proc, n, status, slow, interrupted, pending, owed, lost, forks, signals>>
      BY <1>6 DEF vars, listVars, waitVars, signalVars, counters
    <2>2. ListLinked' /\ TypeOK' /\ PidsExact'
      BY <2>1, LinksKept DEF IInv, TypeOK, PidsExact
    <2>3. KernelAgrees' /\ StatusesKept' /\ WaitExact' /\ ReturnExact' /\ NeverDeniedUnlessLost'
      BY <2>1 DEF IInv, KernelAgrees, StatusesKept, WaitExact, ReturnExact, NeverDeniedUnlessLost
    <2> QED
      BY <2>2, <2>3 DEF IInv
  <1> QED
    BY <1>1, <1>2, <1>3, <1>4, <1>5, <1>6 DEF Next, ShellStep

\* The invariant holds throughout: the structures are linked in one chain both ways,
\* each for another process that is owed, and what ewait is in the middle of agrees
\* with them.
THEOREM ListInvariant == ASSUME ~Recycle PROVE Spec => []IInv
  <1>1. Init => IInv
    BY InitIInv
  <1>2. IInv /\ [Next]_vars => IInv'
    BY NextIInv
  <1> QED
    BY <1>1, <1>2, PTL DEF Spec

\* The process list is a doubly linked list of exactly the allocated structures, one
\* for each process, and agrees with the kernel, whatever signals and exits interrupt.
THEOREM ListIsExact == ASSUME ~Recycle PROVE Spec => []ListExact
  <1>1. IInv => ListExact
    <2> SUFFICES ASSUME IInv PROVE ListExact
      OBVIOUS
    <2>1. Chain[Cardinality(Procs)] = NULL /\ Listed = allocated
      BY ListFacts DEF IInv
    <2>2. ListWellFormed
      BY <2>1, Neighbours DEF IInv, PidsExact, ListWellFormed
    <2>3. ListMatchesKernel
      BY <2>1 DEF IInv, KernelAgrees, ListMatchesKernel
    <2> QED
      BY <2>2, <2>3 DEF IInv, ListExact
  <1> QED
    BY <1>1, ListInvariant, PTL

\* The status that is kept for a dead process is its own, and ewait returns the
\* process that it was asked for.
THEOREM StatusIsTrue == ASSUME ~Recycle PROVE Spec => []StatusTrue
  <1>1. IInv => StatusTrue
    <2> SUFFICES ASSUME IInv PROVE StatusTrue
      OBVIOUS
    <2>1. Listed = allocated
      BY ListFacts DEF IInv
    <2> QED
      BY <2>1 DEF IInv, StatusesKept, WaitExact, StatusTrue
  <1> QED
    BY <1>1, ListInvariant, PTL

\* The shell denies a process only if it never started it, has returned it, or has
\* lost its status to a signal.
THEOREM DeniedOnlyIfLost == ASSUME ~Recycle PROVE Spec => []NeverDeniedUnlessLost
  <1>1. IInv => NeverDeniedUnlessLost
    BY DEF IInv
  <1> QED
    BY <1>1, ListInvariant, PTL

=============================================================================
