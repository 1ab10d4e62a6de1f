---------------------------- MODULE SignalsProofs ----------------------------
(***************************************************************************)
(* Proofs about Signals: however calls of catcher interrupt the program,   *)
(* sigchk and each other, sigcount never exceeds the number of marks, and  *)
(* a system call is cut short only by a signal of its own; for every       *)
(* number of signals, of arrivals and of settings.                         *)
(***************************************************************************)
EXTENDS Signals, FiniteSetTheorems, SequenceTheorems, TLAPS

Frame == [sig : Arriving, at : {"enter", "load", "store", "leave"}, reg : Nat]

\* Each active call of catcher is for a signal of its own, which it has marked.
FramesExact ==
  /\ frames \in Seq(Frame)
  /\ \A k \in DOMAIN frames :
       /\ frames[k].sig \in masked
       /\ frames[k].at # "enter" => frames[k].sig \in caught
       /\ \A j \in DOMAIN frames : frames[j].sig = frames[k].sig => j = k

\* What the first k calls of catcher have marked and not counted,
Uncounted(k) ==
  {frames[j].sig : j \in {j \in 1 .. k : frames[j].at \in {"load", "store"}}}

\* what sigchk has counted down and not yet cleared,
Taking == IF pc = "chk.clear" THEN {idx} ELSE {}

\* and the other marks.
Counted(k) == caught \ (Uncounted(k) \cup Taking)

\* sigcount, and every copy of it that a call of catcher or sigchk will write
\* back, is at most the number of marks that were counted.
CountBounded ==
  /\ sigcount \in Nat /\ sigcount <= Cardinality(Counted(Len(frames)))
  /\ \A k \in DOMAIN frames :
       frames[k].at = "store" => frames[k].reg <= Cardinality(Counted(k))
  /\ pc = "chk.scan" => sigcount >= 1
  /\ pc = "chk.dec" => reg >= 1 /\ reg <= Cardinality(caught)
  /\ pc \in {"chk.dec", "chk.clear"} => idx \in caught \ Uncounted(Len(frames))

\* sigchk has not gone past the last mark.
ScanBounded == pc = "chk.scan" => idx < NSIG /\ \E s \in caught : s >= idx

\* When signals come apart, these are equal.
CountEqual ==
  apart /\ pc # "exited" =>
    /\ Len(frames) <= 1
    /\ frames # <<>> => pc \notin {"chk.dec", "chk.clear"}
    /\ sigcount = Cardinality(Counted(Len(frames)))
    /\ \A k \in DOMAIN frames : frames[k].at = "store" => frames[k].reg = sigcount
    /\ pc = "chk.dec" => reg = sigcount

\* slow is set while the frame of eread or ewrite that called setjmp waits.
SlowExact ==
  /\ slow => pc \in {"io.test", "io.wait", "io.more", "io.end", "exited"}
  /\ pc \in {"io.test", "io.wait", "io.more"} => slow
  /\ pc = "io.wait" => ~interrupted

\* The call under way has come to an end for a reason of its own.
Explained ==
  \/ io.call = "read" /\ io.res # "interrupted"
  \/ io.call = "write" /\ (io.remain = 0 \/ io.error)
  \/ io.came # {}

CallExplained ==
  /\ pc \in {"run", "forked"} => io.call = "none"
  /\ pc \in {"io.slow", "io.test"} /\ interrupted => io.came # {}
  /\ pc = "io.more" => io.call = "write" /\ io.i <= io.remain
  /\ pc \in {"io.end", "io.chk", "chk.scan", "chk.dec", "chk.clear"} =>
       io.call = "none" \/ Explained

IInv ==
  /\ TypeOK /\ FramesExact /\ CountBounded /\ ScanBounded /\ CountEqual
  /\ SlowExact /\ CallExplained /\ outcome # "unexplained"

-----------------------------------------------------------------------------
(***************************************************************************)
(* Facts about sets of signals, and about one step.                        *)
(***************************************************************************)

\* Sets of signals are finite.
LEMMA SignalSets ==
  ASSUME NEW S \in SUBSET Arriving
  PROVE  /\ IsFiniteSet(S)
         /\ Cardinality(S) \in Nat /\ Cardinality(S) <= Cardinality(Arriving)
         /\ Cardinality(Arriving) \in Nat
  <1>1. Arriving \in SUBSET (1 .. NSIG - 1) /\ NSIG - 1 \in Int
    BY SignalsAssumption DEF Signal
  <1>2. IsFiniteSet(Arriving)
    <2>1. IsFiniteSet(1 .. NSIG - 1)
      BY <1>1, FS_Interval
    <2> QED
      BY <1>1, <2>1, FS_Subset
  <1> QED
    BY <1>2, FS_Subset, FS_CardinalityType

\* Fewer marks are not more.
LEMMA FewerMarks ==
  ASSUME NEW S \in SUBSET Arriving, NEW T \in SUBSET S
  PROVE  Cardinality(T) <= Cardinality(S)
  BY SignalSets, FS_Subset

\* One mark more or less.
LEMMA OneMark ==
  ASSUME NEW S \in SUBSET Arriving, NEW s \in S
  PROVE  Cardinality(S \ {s}) = Cardinality(S) - 1 /\ Cardinality(S) >= 1
  <1>1. Cardinality(S \ {s}) = Cardinality(S) - 1
    BY SignalSets, FS_RemoveElement
  <1>2. Cardinality(S \ {s}) \in Nat /\ Cardinality(S) \in Nat
    BY SignalSets
  <1> QED
    BY <1>1, <1>2

\* A call that has just begun.
LEMMA FreshCall ==
  /\ NoCall \in Calls /\ NoCall.call = "none"
  /\ \A c \in {"read", "write"}, n \in 0 .. MaxWrite :
       LET io1 == [NoCall EXCEPT !.call = c]
           io2 == [NoCall EXCEPT !.call = c, !.remain = n]
       IN io1 \in Calls /\ io2 \in Calls
  <1>1. PICK no : no = NoCall
    OBVIOUS
  <1>2. no \in Calls /\ no.call = "none"
    BY <1>1 DEF NoCall, Calls, MaxWrite
  <1>3. ASSUME NEW c \in {"read", "write"}, NEW n \in 0 .. MaxWrite
        PROVE  [no EXCEPT !.call = c] \in Calls /\ [no EXCEPT !.call = c, !.remain = n] \in Calls
    BY <1>2 DEF Calls
  <1> QED
    BY <1>1, <1>2, <1>3

\* Setting an effect leaves an effect for every signal.
LEMMA EsignalType ==
  ASSUME NEW e \in [Signal -> Effects], NEW s, NEW x \in Effects
  PROVE  Esignal(e, s, x) \in [Signal -> Effects]
  BY DEF Esignal

\* What a call of Resume, or of EndCall with another outcome, leaves.
LEMMA CallEnds ==
  ASSUME TypeOK, outcome # "unexplained", io.call = "none" \/ Explained,
         Resume \/ EndCall("thrown")
  PROVE  /\ io' = NoCall /\ io' \in Calls /\ io'.call = "none"
         /\ outcome' \in {"whole", "error", "retry", "noop", "signal", "thrown"}
  <1>1. io' = NoCall
    BY DEF Resume, EndCall
  <1>2. NoCall \in Calls /\ NoCall.call = "none"
    BY DEF NoCall, Calls, MaxWrite
  <1>3. io \in Calls
    BY DEF TypeOK
  <1>4. io.call # "none" /\ Explained =>
          HowEnded \in {"whole", "error", "retry", "noop", "signal"}
    BY <1>3 DEF HowEnded, Explained, Calls
  <1>5. outcome' \in {"whole", "error", "retry", "noop", "signal", "thrown"}
    BY <1>4 DEF Resume, EndCall, TypeOK
  <1> QED
    BY <1>1, <1>2, <1>5

\* No one has counted, marked or called catcher, and the loop of sigchk is not
\* entered, left or moved.
CountsSame ==
  /\ UNCHANGED <<caught, sigcount, frames, masked, apart>>
  /\ \/ UNCHANGED <<pc, idx, reg>>
     \/ /\ pc \notin {"chk.clear", "exited"}
        /\ pc' \notin {"chk.scan", "chk.dec", "chk.clear"}

LEMMA CountsKept ==
  ASSUME IInv, CountsSame
  PROVE  FramesExact' /\ CountBounded' /\ ScanBounded' /\ CountEqual'
  <1>1. UNCHANGED <<caught, sigcount, frames, masked, apart>>
    BY DEF CountsSame
  <1>2. FramesExact'
    BY <1>1 DEF IInv, FramesExact
  <1>3. Taking' = Taking
    BY DEF CountsSame, Taking
  <1>4. \A k : Uncounted(k)' = Uncounted(k) /\ Counted(k)' = Counted(k)
    BY <1>1, <1>3 DEF Uncounted, Counted
  <1>5. CountBounded'
    BY <1>1, <1>4 DEF IInv, CountBounded, CountsSame
  <1>6. ScanBounded'
    BY <1>1 DEF IInv, ScanBounded, CountsSame
  <1>7. CountEqual'
    BY <1>1, <1>4 DEF IInv, CountEqual, CountsSame
  <1> QED
    BY <1>2, <1>5, <1>6, <1>7

-----------------------------------------------------------------------------
(***************************************************************************)
(* eread and ewrite, and the rest of the program.                          *)
(***************************************************************************)

\* The program starts with nothing marked and nothing under way.
LEMMA InitIInv == Init => IInv
  <1> SUFFICES ASSUME Init PROVE IInv
    OBVIOUS
  <1>1. sigeffect \in [Signal -> Effects]
    <2>1. PICK ignored \in SUBSET Arriving, interactive \in BOOLEAN, allowdumps \in BOOLEAN :
            sigeffect = Initsignals(ignored, interactive, allowdumps)
      BY DEF Init
    <2>2. PICK e0 \in [Signal -> Effects] :
            e0 = [s \in Signal |-> IF s \in ignored THEN "ignore" ELSE "default"]
      BY DEF Effects
    <2>3. PICK e1 \in [Signal -> Effects] :
            e1 = IF interactive \/ e0[SIGINT] = "default"
                   THEN Esignal(e0, SIGINT, "special") ELSE e0
      BY EsignalType DEF Effects
    <2>4. PICK e2 \in [Signal -> Effects] :
            e2 = IF ~allowdumps /\ interactive THEN Esignal(e1, SIGTERM, "noop") ELSE e1
      BY EsignalType DEF Effects
    <2>5. PICK e3 \in [Signal -> Effects] :
            e3 = IF ~allowdumps /\ (interactive \/ e2[SIGQUIT] = "default")
                   THEN Esignal(e2, SIGQUIT, "noop") ELSE e2
      BY EsignalType DEF Effects
    <2>6. sigeffect = e3
      BY <2>1, <2>2, <2>3, <2>4, <2>5, Zenon DEF Initsignals
    <2> QED
      BY <2>6
  <1>2. NoCall \in Calls /\ NoCall.call = "none"
    BY FreshCall
  <1>3. Cardinality(Arriving) \in Nat /\ frames = <<>> /\ DOMAIN frames = {} /\ Len(frames) = 0
    BY SignalSets DEF Init
  <1>4. TypeOK
    <2>1. \A k \in DOMAIN frames :
            frames[k] \in [sig : Arriving, at : {"enter", "load", "store", "leave"},
                           reg : 0 .. Cardinality(Arriving)]
      BY <1>3
    <2>2. io \in Calls
      BY <1>2 DEF Init
    <2>3. /\ sigcount \in 0 .. Cardinality(Arriving)
          /\ blocked \in 0 .. MaxBlocked /\ idx \in 0 .. NSIG
          /\ reg \in 0 .. Cardinality(Arriving) /\ arrivals \in 0 .. MaxSignals
      BY <1>3, SignalsAssumption DEF Init
    <2>4. /\ caught \in SUBSET Arriving /\ pend \in SUBSET Arriving /\ masked \in SUBSET Arriving
          /\ slow \in BOOLEAN /\ interrupted \in BOOLEAN /\ hasforked \in BOOLEAN
          /\ apart \in BOOLEAN
      BY DEF Init
    <2> QED
      BY <1>1, <2>1, <2>2, <2>3, <2>4 DEF Init, TypeOK
  <1>5. FramesExact
    BY <1>3 DEF FramesExact
  <1>6. CountBounded /\ CountEqual /\ ScanBounded
    <2>1. Counted(0) = {}
      BY DEF Init, Counted
    <2>2. Cardinality({}) = 0
      BY FS_EmptySet
    <2>3. Cardinality(Counted(Len(frames))) = 0
      BY <1>3, <2>1, <2>2
    <2> QED
      BY <1>3, <2>3 DEF Init, CountBounded, CountEqual, ScanBounded
  <1>7. SlowExact /\ CallExplained /\ outcome # "unexplained"
    BY <1>2 DEF Init, SlowExact, CallExplained
  <1> QED
    BY <1>4, <1>5, <1>6, <1>7 DEF IInv

LEMMA ArriveIInv ==
  ASSUME IInv, NEW s \in Arriving, Arrive(s)
  PROVE  IInv'
  <1> USE DEF Arrive, program
  <1>1. TypeOK'
    BY SignalsAssumption DEF IInv, TypeOK
  <1>2. CountsSame
    BY DEF CountsSame
  <1>3. SlowExact' /\ CallExplained' /\ outcome' # "unexplained"
    BY DEF IInv, SlowExact, CallExplained, Explained
  <1> QED
    BY <1>1, <1>2, <1>3, CountsKept DEF IInv

\* Where the program is in eread and ewrite, before or after.
IoPlaces ==
  {"run", "io.arm", "io.slow", "io.test", "io.wait", "io.more", "io.end", "io.chk"}

\* A step of eread or ewrite keeps the invariant if it keeps what is about the call.
LEMMA CallStep ==
  ASSUME IInv, IoUnchanged, frames = <<>>, pc \in IoPlaces, pc' \in IoPlaces,
         io' \in Calls, slow' \in BOOLEAN, interrupted' \in BOOLEAN,
         SlowExact', CallExplained'
  PROVE  IInv'
  <1>1. TypeOK'
    BY DEF IInv, TypeOK, IoUnchanged, kernel, IoPlaces
  <1>2. CountsSame
    BY DEF CountsSame, IoUnchanged, kernel, IoPlaces
  <1>3. outcome' # "unexplained"
    BY DEF IInv, IoUnchanged
  <1> QED
    BY <1>1, <1>2, <1>3, CountsKept DEF IInv

LEMMA CallIInv ==
  ASSUME IInv,
         \/ CallRead \/ \E n \in 1 .. MaxWrite : CallWrite(n)
         \/ Arm \/ SetSlow \/ Test \/ ReadReturns \/ WriteFails
         \/ \E n \in 1 .. MaxWrite : WriteReturns(n)
         \/ WriteMore \/ EndSlow
  PROVE  IInv'
  <1> USE DEF Main, IoPlaces
  <1>1. /\ io \in Calls /\ slow \in BOOLEAN /\ interrupted \in BOOLEAN
        /\ SlowExact /\ CallExplained
    BY DEF IInv, TypeOK
  <1>2. CASE CallRead \/ \E n \in 1 .. MaxWrite : CallWrite(n)
    <2>1. io' \in Calls
      BY <1>2, FreshCall DEF CallRead, CallWrite, MaxWrite
    <2>2. pc = "run" /\ pc' = "io.arm" /\ UNCHANGED <<slow, interrupted>>
      BY <1>2 DEF CallRead, CallWrite
    <2>3. SlowExact' /\ CallExplained'
      BY <1>1, <2>2 DEF SlowExact, CallExplained
    <2> QED
      BY <1>1, <1>2, <2>1, <2>2, <2>3, CallStep DEF CallRead, CallWrite
  <1>3. CASE Arm \/ SetSlow
    <2>1. io' \in Calls /\ slow' \in BOOLEAN /\ interrupted' \in BOOLEAN
      BY <1>1, <1>3 DEF Arm, SetSlow, Reset
    <2>2. SlowExact' /\ CallExplained'
      BY <1>1, <1>3 DEF Arm, SetSlow, Reset, SlowExact, CallExplained
    <2> QED
      BY <1>3, <2>1, <2>2, CallStep DEF Arm, SetSlow
  <1>4. CASE Test
    <2>1. io' \in Calls
      BY <1>1, <1>4 DEF Test, Calls
    <2>2. SlowExact' /\ CallExplained'
      BY <1>1, <1>4 DEF Test, SlowExact, CallExplained, Explained, Calls
    <2> QED
      BY <1>1, <1>4, <2>1, <2>2, CallStep DEF Test
  <1>5. CASE ReadReturns \/ WriteFails
    <2>1. io' \in Calls
      BY <1>1, <1>5 DEF ReadReturns, WriteFails, Calls
    <2>2. SlowExact' /\ CallExplained'
      BY <1>1, <1>5 DEF ReadReturns, WriteFails, SlowExact, CallExplained, Explained, Calls
    <2> QED
      BY <1>1, <1>5, <2>1, <2>2, CallStep DEF ReadReturns, WriteFails
  <1>6. CASE \E n \in 1 .. MaxWrite : WriteReturns(n)
    <2>1. io' \in Calls
      BY <1>1, <1>6 DEF WriteReturns, Calls, MaxWrite
    <2>2. SlowExact' /\ CallExplained'
      BY <1>1, <1>6 DEF WriteReturns, SlowExact, CallExplained, Explained, Calls, MaxWrite
    <2> QED
      BY <1>1, <1>6, <2>1, <2>2, CallStep DEF WriteReturns
  <1>7. CASE WriteMore
    <2>1. io' \in Calls
      <3>1. io.remain \in 0 .. MaxWrite /\ io.i \in 0 .. MaxWrite /\ io.i <= io.remain
        BY <1>1, <1>7 DEF WriteMore, CallExplained, Calls
      <3>2. io.remain - io.i \in 0 .. MaxWrite /\ 0 \in 0 .. MaxWrite
        BY <3>1 DEF MaxWrite
      <3> QED
        BY <1>1, <1>7, <3>2 DEF WriteMore, Calls
    <2>2. SlowExact' /\ CallExplained'
      BY <1>1, <1>7 DEF WriteMore, SlowOff, SlowExact, CallExplained, Explained, Calls, MaxWrite
    <2> QED
      BY <1>1, <1>7, <2>1, <2>2, CallStep DEF WriteMore, SlowOff
  <1>8. CASE EndSlow
    <2>1. SlowExact' /\ CallExplained'
      BY <1>1, <1>8 DEF EndSlow, SlowOff, SlowExact, CallExplained, Explained
    <2> QED
      BY <1>1, <1>8, <2>1, CallStep DEF EndSlow, SlowOff
  <1> QED
    BY <1>2, <1>3, <1>4, <1>5, <1>6, <1>7, <1>8

\* blocksignals, unblocksignals, $&setsignals and efork.
LEMMA RunIInv ==
  ASSUME IInv,
         \/ Blocksignals \/ Unblocksignals \/ Fork \/ SetDefaults
         \/ \E new \in Settings : SetSignals(new)
  PROVE  IInv'
  <1> USE DEF Blocksignals, Unblocksignals, IsBlocked, Fork, SetDefaults, SetSignals, Main,
              RunUnchanged
  <1>1. UNCHANGED <<caught, sigcount, slow, interrupted, masked, frames, idx, reg, io, outcome,
                    arrivals, apart>>
    OBVIOUS
  <1>2. pc \in {"run", "forked"} /\ pc' \in {"run", "forked"}
    OBVIOUS
  <1>3. sigeffect' \in [Signal -> Effects]
    <2>1. sigeffect \in [Signal -> Effects]
      BY DEF IInv, TypeOK
    <2>2. CASE UNCHANGED sigeffect
      BY <2>1, <2>2
    <2>3. CASE SetDefaults
      BY <2>1, <2>3 DEF Setsigdefaults, Effects
    <2>4. CASE \E new \in Settings : SetSignals(new)
      <3>1. PICK new \in [Signal -> Effects] : sigeffect' = Setsigeffects(sigeffect, new)
        BY <2>4, SignalsAssumption
      <3> QED
        BY <2>1, <3>1, EsignalType DEF Setsigeffects
    <2> QED
      BY <2>2, <2>3, <2>4
  <1>4. blocked' \in 0 .. MaxBlocked /\ pend' \in SUBSET Arriving /\ hasforked' \in BOOLEAN
    <2>1. blocked \in 0 .. MaxBlocked /\ MaxBlocked \in Nat /\ pend \in SUBSET Arriving
          /\ hasforked \in BOOLEAN
      BY SignalsAssumption DEF IInv, TypeOK
    <2>2. blocked' \in 0 .. MaxBlocked
      BY <2>1
    <2>3. pend' \in SUBSET Arriving /\ hasforked' \in BOOLEAN
      BY <2>1
    <2> QED
      BY <2>2, <2>3
  <1>5. TypeOK'
    BY <1>1, <1>2, <1>3, <1>4 DEF IInv, TypeOK
  <1>6. CountsSame
    BY <1>1, <1>2 DEF CountsSame
  <1>7. SlowExact' /\ CallExplained' /\ outcome' # "unexplained"
    BY <1>1, <1>2 DEF IInv, SlowExact, CallExplained
  <1> QED
    BY <1>5, <1>6, <1>7, CountsKept DEF IInv

-----------------------------------------------------------------------------
(***************************************************************************)
(* sigchk.                                                                 *)
(***************************************************************************)

\* While catcher is not active, the marks that count are all but the one that
\* is being taken.
LEMMA NoFrames ==
  ASSUME frames = <<>>, UNCHANGED frames
  PROVE  /\ Len(frames) = 0 /\ DOMAIN frames = {}
         /\ Uncounted(Len(frames)) = {} /\ Uncounted(Len(frames))' = {}
         /\ Counted(Len(frames)) = caught \ Taking
         /\ Counted(Len(frames))' = caught' \ Taking'
  <1>1. Len(frames) = 0 /\ DOMAIN frames = {} /\ Len(frames)' = 0
    OBVIOUS
  <1>2. Uncounted(0) = {} /\ Uncounted(0)' = {}
    BY DEF Uncounted
  <1> QED
    BY <1>1, <1>2 DEF Counted

\* The conjuncts about the counters, for a step that catcher does not make.
LEMMA SigchkCounts ==
  ASSUME IInv, frames = <<>>, UNCHANGED <<frames, masked, apart>>,
         caught' \subseteq caught,
         sigcount' \in Nat, sigcount' <= Cardinality(caught' \ Taking'),
         apart => sigcount' = Cardinality(caught' \ Taking'),
         pc' = "chk.scan" => sigcount' >= 1,
         pc' = "chk.dec" => reg' >= 1 /\ reg' <= Cardinality(caught'),
         pc' = "chk.dec" => reg' = sigcount',
         pc' \in {"chk.dec", "chk.clear"} => idx' \in caught'
  PROVE  FramesExact' /\ CountBounded' /\ CountEqual'
         /\ sigcount' \in 0 .. Cardinality(Arriving) /\ caught' \in SUBSET Arriving
  <1>1. /\ Len(frames)' = 0 /\ (DOMAIN frames)' = {}
        /\ Uncounted(Len(frames))' = {}
        /\ Counted(Len(frames))' = caught' \ Taking'
    BY NoFrames
  <1>2. FramesExact'
    BY <1>1 DEF FramesExact
  <1>3. CountBounded'
    BY <1>1 DEF CountBounded
  <1>4. CountEqual'
    <2>1. frames' = <<>> /\ Len(frames') <= 1
      BY <1>1
    <2> QED
      BY <1>1, <2>1 DEF CountEqual
  <1>5. caught' \in SUBSET Arriving
    BY DEF IInv, TypeOK
  <1>6. sigcount' \in 0 .. Cardinality(Arriving)
    <2>1. caught' \ Taking' \in SUBSET Arriving
      BY <1>5
    <2> QED
      BY <2>1, SignalSets
  <1> QED
    BY <1>2, <1>3, <1>4, <1>5, <1>6

\* What holds of the counters while catcher is not active.
LEMMA CountsNow ==
  ASSUME IInv, frames = <<>>
  PROVE  /\ sigcount \in Nat /\ sigcount <= Cardinality(caught \ Taking)
         /\ apart /\ pc # "exited" => sigcount = Cardinality(caught \ Taking)
         /\ pc \in {"chk.dec", "chk.clear"} => idx \in caught
         /\ caught \in SUBSET Arriving /\ caught \ Taking \in SUBSET Arriving
         /\ Cardinality(caught) \in Nat /\ Cardinality(caught \ Taking) \in Nat
  <1>1. Uncounted(0) = {} /\ Len(frames) = 0
    BY DEF Uncounted
  <1>2. Counted(Len(frames)) = caught \ Taking
    BY <1>1 DEF Counted
  <1>3. caught \in SUBSET Arriving /\ caught \ Taking \in SUBSET Arriving
    BY DEF IInv, TypeOK
  <1> QED
    BY <1>1, <1>2, <1>3, SignalSets DEF IInv, CountBounded, CountEqual

LEMMA SigchkIInv == ASSUME IInv, Sigchk PROVE IInv'
  <1>1. /\ pc \in {"run", "io.chk"} /\ frames = <<>>
        /\ UNCHANGED <<sigeffect, caught, sigcount, slow, interrupted, blocked, hasforked,
                       pend, masked, frames, reg, arrivals, apart>>
    BY DEF Sigchk, Main, program, kernel
  <1>2. ~slow /\ (io.call = "none" \/ Explained) /\ outcome # "unexplained"
    BY <1>1 DEF IInv, SlowExact, CallExplained
  <1>3. CASE Resume /\ UNCHANGED idx
    <2>1. /\ pc' = "run" /\ io' \in Calls /\ io'.call = "none"
          /\ outcome' \in {"whole", "error", "retry", "noop", "signal", "thrown"}
      BY <1>2, <1>3, CallEnds DEF IInv, Resume
    <2>2. TypeOK'
      BY <1>1, <1>3, <2>1 DEF IInv, TypeOK
    <2>3. CountsSame
      BY <1>1, <2>1 DEF CountsSame
    <2>4. SlowExact' /\ CallExplained' /\ outcome' # "unexplained"
      BY <1>1, <1>2, <2>1 DEF SlowExact, CallExplained
    <2> QED
      BY <2>2, <2>3, <2>4, CountsKept DEF IInv
  <1>4. CASE pc' = "exited" /\ UNCHANGED <<idx, io, outcome>>
    <2>1. TypeOK'
      BY <1>1, <1>4 DEF IInv, TypeOK
    <2>2. CountsSame
      BY <1>1, <1>4 DEF CountsSame
    <2>3. SlowExact' /\ CallExplained' /\ outcome' # "unexplained"
      BY <1>1, <1>2, <1>4 DEF SlowExact, CallExplained
    <2> QED
      BY <2>1, <2>2, <2>3, CountsKept DEF IInv
  <1>5. CASE sigcount > 0 /\ pc' = "chk.scan" /\ idx' = 0 /\ UNCHANGED <<io, outcome>>
    <2>1. TypeOK'
      BY <1>1, <1>5, SignalsAssumption DEF IInv, TypeOK
    <2>2. Taking = {} /\ Taking' = {}
      BY <1>1, <1>5 DEF Taking
    <2>3. /\ sigcount \in Nat /\ sigcount <= Cardinality(caught)
          /\ apart => sigcount = Cardinality(caught)
          /\ caught \in SUBSET Arriving
      <3>1. caught \ Taking = caught
        BY <2>2
      <3> QED
        BY <1>1, <3>1, CountsNow
    <2>4. FramesExact' /\ CountBounded' /\ CountEqual'
      <3>1. caught' \ Taking' = caught /\ caught' \subseteq caught
        BY <1>1, <2>2
      <3>2. /\ sigcount' \in Nat /\ sigcount' <= Cardinality(caught' \ Taking')
            /\ apart => sigcount' = Cardinality(caught' \ Taking')
        BY <1>1, <2>3, <3>1
      <3> QED
        BY <1>1, <1>5, <2>3, <3>1, <3>2, SigchkCounts
    <2>5. ScanBounded'
      <3>1. caught # {}
        BY <1>5, <2>3, FS_EmptySet
      <3>2. PICK s \in caught : s \in 1 .. NSIG - 1
        BY <2>3, <3>1, SignalsAssumption DEF Signal
      <3>3. s >= 0 /\ 0 < NSIG
        BY <3>2, SignalsAssumption
      <3> QED
        BY <1>1, <1>5, <3>3 DEF ScanBounded
    <2>6. SlowExact' /\ CallExplained' /\ outcome' # "unexplained"
      BY <1>1, <1>2, <1>5 DEF SlowExact, CallExplained, Explained
    <2> QED
      BY <2>1, <2>4, <2>5, <2>6 DEF IInv
  <1> QED
    BY <1>3, <1>4, <1>5 DEF Sigchk

\* The scan ends at a mark, never behind the array.
LEMMA ScanIInv == ASSUME IInv, Scan PROVE IInv'
  <1>1. /\ pc = "chk.scan" /\ frames = <<>>
        /\ UNCHANGED <<sigeffect, caught, slow, interrupted, blocked, hasforked,
                       pend, masked, frames, arrivals, apart>>
    BY DEF Scan, Main, kernel
  <1>2. ~slow /\ (io.call = "none" \/ Explained) /\ outcome # "unexplained"
    BY <1>1 DEF IInv, SlowExact, CallExplained
  <1>3. sigcount >= 1 /\ idx < NSIG /\ idx \in 0 .. NSIG
    BY <1>1 DEF IInv, CountBounded, ScanBounded, TypeOK
  <1>4. /\ sigcount \in Nat /\ sigcount <= Cardinality(caught)
        /\ apart => sigcount = Cardinality(caught)
        /\ caught \in SUBSET Arriving /\ Taking = {} /\ caught \ {} = caught
    <2>1. Taking = {} /\ caught \ {} = caught
      BY <1>1 DEF Taking
    <2> QED
      BY <1>1, <2>1, CountsNow
  <1>5. CASE idx \in caught /\ reg' = sigcount /\ pc' = "chk.dec"
             /\ UNCHANGED <<idx, sigcount, io, outcome>>
    <2>1. Taking' = {}
      BY <1>5 DEF Taking
    <2>2. FramesExact' /\ CountBounded' /\ CountEqual'
      BY <1>1, <1>3, <1>4, <1>5, <2>1, SigchkCounts
    <2>3. TypeOK'
      BY <1>1, <1>5 DEF IInv, TypeOK
    <2>4. SlowExact' /\ CallExplained' /\ outcome' # "unexplained" /\ ScanBounded'
      BY <1>1, <1>2, <1>5 DEF SlowExact, CallExplained, Explained, ScanBounded
    <2> QED
      BY <2>2, <2>3, <2>4 DEF IInv
  <1>6. CASE idx \notin caught /\ idx' = idx + 1 /\ UNCHANGED <<reg, pc, sigcount, io, outcome>>
    <2>1. Taking' = {}
      BY <1>1, <1>6 DEF Taking
    <2>2. FramesExact' /\ CountBounded' /\ CountEqual'
      BY <1>1, <1>3, <1>4, <1>6, <2>1, SigchkCounts
    <2>3. idx + 1 \in 0 .. NSIG
      BY <1>3, SignalsAssumption
    <2>4. TypeOK'
      BY <1>1, <1>6, <2>3 DEF IInv, TypeOK
    <2>5. SlowExact' /\ CallExplained' /\ outcome' # "unexplained"
      BY <1>1, <1>2, <1>6 DEF SlowExact, CallExplained, Explained
    <2>6. ScanBounded'
      <3>1. PICK s \in caught : s >= idx /\ s \in 1 .. NSIG - 1
        BY <1>1, <1>4, SignalsAssumption DEF IInv, ScanBounded, Signal
      <3>2. s # idx /\ s >= idx + 1 /\ idx + 1 < NSIG
        BY <1>3, <1>6, <3>1, SignalsAssumption
      <3> QED
        BY <1>1, <1>6, <3>2 DEF ScanBounded
    <2> QED
      BY <2>2, <2>4, <2>5, <2>6 DEF IInv
  <1> QED
    BY <1>3, <1>5, <1>6, SignalsAssumption DEF Scan

\* The copy of sigcount that is written back counts the others.
LEMMA CountDownIInv == ASSUME IInv, CountDown PROVE IInv'
  <1>1. /\ pc = "chk.dec" /\ pc' = "chk.clear" /\ frames = <<>> /\ sigcount' = reg - 1
        /\ UNCHANGED <<sigeffect, caught, slow, interrupted, blocked, hasforked,
                       pend, masked, frames, idx, reg, io, outcome, arrivals, apart>>
    BY DEF CountDown, Main, kernel
  <1>2. ~slow /\ (io.call = "none" \/ Explained) /\ outcome # "unexplained"
    BY <1>1 DEF IInv, SlowExact, CallExplained
  <1>3. Taking = {} /\ Taking' = {idx} /\ caught \ {} = caught
    BY <1>1 DEF Taking
  <1>4. /\ caught \in SUBSET Arriving /\ idx \in caught
        /\ apart => sigcount = Cardinality(caught)
    BY <1>1, <1>3, CountsNow
  <1>5. /\ reg \in Nat /\ reg >= 1 /\ reg <= Cardinality(caught)
        /\ apart => reg = sigcount
    BY <1>1, <1>4, SignalSets DEF IInv, TypeOK, CountBounded, CountEqual
  <1>6. Cardinality(caught \ {idx}) = Cardinality(caught) - 1 /\ Cardinality(caught) \in Nat
    BY <1>4, OneMark, SignalSets
  <1>7. /\ reg - 1 \in Nat /\ reg - 1 <= Cardinality(caught \ {idx})
        /\ apart => reg - 1 = Cardinality(caught \ {idx})
    BY <1>4, <1>5, <1>6
  <1>8. /\ FramesExact' /\ CountBounded' /\ CountEqual'
        /\ sigcount' \in 0 .. Cardinality(Arriving)
    BY <1>1, <1>3, <1>4, <1>7, SigchkCounts
  <1>9. TypeOK'
    BY <1>1, <1>8 DEF IInv, TypeOK
  <1>10. SlowExact' /\ CallExplained' /\ outcome' # "unexplained" /\ ScanBounded'
    BY <1>1, <1>2 DEF SlowExact, CallExplained, Explained, ScanBounded
  <1> QED
    BY <1>8, <1>9, <1>10 DEF IInv

LEMMA TakeIInv == ASSUME IInv, Take PROVE IInv'
  <1>1. /\ pc = "chk.clear" /\ frames = <<>> /\ caught' = caught \ {idx}
        /\ idx' = 0 /\ reg' = 0
        /\ UNCHANGED <<sigeffect, sigcount, slow, interrupted, blocked, hasforked,
                       pend, masked, frames, arrivals, apart>>
    BY DEF Take, Main, kernel, Taken
  <1>2. ~slow /\ (io.call = "none" \/ Explained) /\ outcome # "unexplained"
    BY <1>1 DEF IInv, SlowExact, CallExplained
  <1>3. pc' = "run" /\ (Resume \/ EndCall("thrown"))
    BY DEF Take, Resume
  <1>4. /\ io' \in Calls /\ io'.call = "none"
        /\ outcome' \in {"whole", "error", "retry", "noop", "signal", "thrown"}
    BY <1>2, <1>3, CallEnds DEF IInv
  <1>5. Taking = {idx} /\ Taking' = {}
    BY <1>1, <1>3 DEF Taking
  <1>6. /\ sigcount \in Nat /\ sigcount <= Cardinality(caught \ {idx})
        /\ apart => sigcount = Cardinality(caught \ {idx})
    BY <1>1, <1>5, CountsNow
  <1>7. /\ FramesExact' /\ CountBounded' /\ CountEqual'
        /\ sigcount' \in 0 .. Cardinality(Arriving) /\ caught' \in SUBSET Arriving
    <2>1. caught' \ Taking' = caught \ {idx} /\ caught' \subseteq caught
      BY <1>1, <1>5
    <2> QED
      BY <1>1, <1>3, <1>6, <2>1, SigchkCounts
  <1>8. TypeOK'
    <2>1. idx' \in 0 .. NSIG /\ reg' \in 0 .. Cardinality(Arriving)
      BY <1>1, SignalsAssumption, SignalSets
    <2> QED
      BY <1>1, <1>3, <1>4, <1>7, <2>1 DEF IInv, TypeOK
  <1>9. SlowExact' /\ CallExplained' /\ outcome' # "unexplained" /\ ScanBounded'
    BY <1>1, <1>2, <1>3, <1>4 DEF SlowExact, CallExplained, ScanBounded
  <1> QED
    BY <1>7, <1>8, <1>9 DEF IInv

-----------------------------------------------------------------------------
(***************************************************************************)
(* The kernel calls catcher, and catcher runs.                             *)
(***************************************************************************)

\* What the first k calls have not counted depends on these calls only.
LEMMA UncountedKept ==
  ASSUME NEW k \in Nat, \A j \in 1 .. k : frames'[j] = frames[j]
  PROVE  Uncounted(k)' = Uncounted(k)
  BY DEF Uncounted

\* The innermost call adds its signal to what is not counted, or does not.
LEMMA UncountedTop ==
  ASSUME NEW n \in Nat, n >= 1
  PROVE  /\ Uncounted(n) = Uncounted(n - 1)
              \cup (IF frames[n].at \in {"load", "store"} THEN {frames[n].sig} ELSE {})
         /\ Uncounted(n)' = Uncounted(n - 1)'
              \cup (IF frames'[n].at \in {"load", "store"} THEN {frames'[n].sig} ELSE {})
  <1>1. 1 .. n = (1 .. n - 1) \cup {n}
    OBVIOUS
  <1> QED
    BY <1>1 DEF Uncounted

\* The innermost call of catcher and the calls that it interrupted.
LEMMA Innermost ==
  ASSUME IInv, frames # <<>>
  PROVE  /\ Len(frames) \in Nat /\ Len(frames) >= 1
         /\ DOMAIN frames = 1 .. Len(frames) /\ Len(frames) \in DOMAIN frames
         /\ frame = frames[Len(frames)] /\ frame \in Frame /\ frame.sig \in masked
         /\ frame.reg \in 0 .. Cardinality(Arriving)
         /\ frame.at # "enter" => frame.sig \in caught
         /\ frame.sig \notin Uncounted(Len(frames) - 1)
         /\ apart => (Len(frames) = 1 /\ pc \notin {"chk.dec", "chk.clear"}) \/ pc = "exited"
  <1>1. frames \in Seq(Frame)
    BY DEF IInv, FramesExact
  <1>2. /\ Len(frames) \in Nat /\ Len(frames) >= 1
        /\ DOMAIN frames = 1 .. Len(frames) /\ Len(frames) \in DOMAIN frames
    BY <1>1
  <1>3. frame = frames[Len(frames)] /\ frame \in Frame
    BY <1>1, <1>2 DEF frame
  <1>4. frame.sig \in masked /\ (frame.at # "enter" => frame.sig \in caught)
    BY <1>2, <1>3 DEF IInv, FramesExact
  <1>5. frame.reg \in 0 .. Cardinality(Arriving)
    BY <1>2, <1>3 DEF IInv, TypeOK
  <1>6. frame.sig \notin Uncounted(Len(frames) - 1)
    <2>1. ASSUME NEW j \in 1 .. Len(frames) - 1 PROVE frames[j].sig # frame.sig
      BY <1>2, <1>3 DEF IInv, FramesExact
    <2> QED
      BY <2>1 DEF Uncounted
  <1>7. apart => (Len(frames) = 1 /\ pc \notin {"chk.dec", "chk.clear"}) \/ pc = "exited"
    BY <1>2 DEF IInv, CountEqual
  <1> QED
    BY <1>2, <1>3, <1>4, <1>5, <1>6, <1>7

\* A signal that is delivered is not that of an active call.
LEMMA DeliverIInv ==
  ASSUME IInv, NEW s \in Arriving, Deliver(s)
  PROVE  IInv'
  <1> DEFINE f == [sig |-> s, at |-> "enter", reg |-> 0]
  <1>1. /\ pc # "exited" /\ s \in pend \ masked /\ (apart => ~Bookkeeping)
        /\ pend' = pend \ {s} /\ masked' = masked \cup {s} /\ frames' = Append(frames, f)
        /\ UNCHANGED <<sigeffect, caught, sigcount, slow, interrupted, blocked, hasforked,
                       pc, idx, reg, io, outcome, arrivals, apart>>
    BY DEF Deliver, program
  <1>2. PICK n \in Nat : n = Len(frames) /\ frames \in Seq(Frame) /\ DOMAIN frames = 1 .. n
    BY DEF IInv, FramesExact
  <1>3. f \in Frame /\ f.sig = s /\ f.at = "enter" /\ f.reg = 0
    BY DEF Frame
  <1> HIDE DEF f
  <1>4. /\ frames' \in Seq(Frame) /\ Len(frames') = n + 1 /\ DOMAIN frames' = 1 .. n + 1
        /\ \A k \in 1 .. n : frames'[k] = frames[k]
        /\ frames'[n + 1] = f
    BY <1>1, <1>2, <1>3
  <1>5. FramesExact'
    <2>1. ASSUME NEW k \in 1 .. n PROVE frames[k].sig \in masked /\ frames[k].sig # s
      BY <1>1, <1>2, <2>1 DEF IInv, FramesExact
    <2>2. ASSUME NEW k \in 1 .. n + 1
          PROVE  /\ frames'[k].sig \in masked'
                 /\ frames'[k].at # "enter" => frames'[k].sig \in caught'
                 /\ \A j \in 1 .. n + 1 : frames'[j].sig = frames'[k].sig => j = k
      <3>1. CASE k = n + 1
        BY <1>1, <1>2, <1>3, <1>4, <2>1, <3>1
      <3>2. CASE k \in 1 .. n
        BY <1>1, <1>2, <1>3, <1>4, <2>1, <3>2 DEF IInv, FramesExact
      <3> QED
        BY <1>2, <3>1, <3>2
    <2> QED
      BY <1>4, <2>2 DEF FramesExact
  <1>6. /\ \A k \in 0 .. n : Uncounted(k)' = Uncounted(k)
        /\ Uncounted(Len(frames))' = Uncounted(n)
        /\ \A k \in 0 .. n : Counted(k)' = Counted(k)
        /\ Counted(Len(frames))' = Counted(n)
    <2>1. \A k \in 0 .. n : Uncounted(k)' = Uncounted(k)
      BY <1>2, <1>4, UncountedKept
    <2>2. Uncounted(n + 1)' = Uncounted(n)'
      <3>1. n + 1 \in Nat /\ n + 1 >= 1 /\ (n + 1) - 1 = n
        BY <1>2
      <3>2. Uncounted(n + 1)' = Uncounted((n + 1) - 1)'
              \cup (IF frames'[n + 1].at \in {"load", "store"} THEN {frames'[n + 1].sig} ELSE {})
        BY <3>1, UncountedTop
      <3>3. frames'[n + 1].at \notin {"load", "store"}
        BY <1>3, <1>4
      <3>4. Uncounted(n + 1)' = Uncounted((n + 1) - 1)'
        BY <3>2, <3>3
      <3> QED
        BY <3>1, <3>4
    <2>3. Taking' = Taking /\ n \in 0 .. n
      BY <1>1, <1>2 DEF Taking
    <2>4. Uncounted(Len(frames))' = Uncounted(n)
      <3>1. Uncounted(Len(frames))' = Uncounted(n + 1)'
        BY <1>4 DEF Uncounted
      <3> QED
        BY <2>1, <2>2, <2>3, <3>1
    <2>5. \A k \in 0 .. n : Counted(k)' = Counted(k)
      BY <1>1, <2>1, <2>3 DEF Counted
    <2>6. Counted(Len(frames))' = Counted(n)
      BY <1>1, <2>3, <2>4 DEF Counted
    <2> QED
      BY <2>1, <2>4, <2>5, <2>6
  <1>7. CountBounded'
    <2>1. sigcount' \in Nat /\ sigcount' <= Cardinality(Counted(Len(frames)))'
      BY <1>1, <1>2, <1>6 DEF IInv, CountBounded
    <2>2. ASSUME NEW k \in 1 .. n + 1, frames'[k].at = "store"
          PROVE  frames'[k].reg <= Cardinality(Counted(k)')
      <3>1. k \in 1 .. n /\ k \in 0 .. n
        BY <1>2, <1>3, <1>4, <2>2
      <3>2. frames[k].at = "store" /\ frames'[k] = frames[k] /\ Counted(k)' = Counted(k)
        BY <1>4, <1>6, <2>2, <3>1
      <3> QED
        BY <1>2, <3>1, <3>2 DEF IInv, CountBounded
    <2>3. /\ pc' = "chk.scan" => sigcount' >= 1
          /\ pc' = "chk.dec" => reg' >= 1 /\ reg' <= Cardinality(caught')
          /\ pc' \in {"chk.dec", "chk.clear"} => idx' \in caught' \ Uncounted(Len(frames))'
      BY <1>1, <1>2, <1>6 DEF IInv, CountBounded
    <2> QED
      BY <1>4, <2>1, <2>2, <2>3 DEF CountBounded
  <1>8. ScanBounded'
    BY <1>1 DEF IInv, ScanBounded
  <1>9. CountEqual'
    <2>1. CASE ~apart \/ pc = "exited"
      BY <1>1, <2>1 DEF CountEqual
    <2>2. CASE apart /\ pc # "exited"
      <3>1. frames = <<>> /\ pc \notin {"chk.dec", "chk.clear"} /\ n = 0
        BY <1>1, <1>2, <2>2 DEF Bookkeeping
      <3>2. Len(frames') <= 1 /\ DOMAIN frames' = {1} /\ frames'[1].at = "enter"
        BY <1>3, <1>4, <3>1
      <3>3. sigcount' = Cardinality(Counted(Len(frames)))'
        BY <1>1, <1>2, <1>6, <2>2 DEF IInv, CountEqual
      <3> QED
        BY <1>1, <3>1, <3>2, <3>3 DEF CountEqual
    <2> QED
      BY <2>1, <2>2
  <1>10. TypeOK'
    <2>1. f.reg \in 0 .. Cardinality(Arriving)
      BY <1>3, SignalSets
    <2>2. \A k \in DOMAIN frames' :
            frames'[k] \in [sig : Arriving, at : {"enter", "load", "store", "leave"},
                            reg : 0 .. Cardinality(Arriving)]
      <3>1. f \in [sig : Arriving, at : {"enter", "load", "store", "leave"},
                   reg : 0 .. Cardinality(Arriving)]
        BY <2>1, <1>3 DEF f
      <3>2. ASSUME NEW k \in 1 .. n
            PROVE  frames[k] \in [sig : Arriving, at : {"enter", "load", "store", "leave"},
                                  reg : 0 .. Cardinality(Arriving)]
        BY <1>2 DEF IInv, TypeOK
      <3>3. ASSUME NEW k \in 1 .. n + 1 PROVE k = n + 1 \/ k \in 1 .. n
        BY <1>2
      <3> QED
        BY <1>4, <3>1, <3>2, <3>3
    <2>3. masked' \in SUBSET Arriving /\ pend' \in SUBSET Arriving
      BY <1>1 DEF IInv, TypeOK
    <2> QED
      BY <1>1, <2>2, <2>3 DEF IInv, TypeOK
  <1>11. SlowExact' /\ CallExplained' /\ outcome' # "unexplained"
    BY <1>1 DEF IInv, SlowExact, CallExplained, Explained
  <1> QED
    BY <1>5, <1>7, <1>8, <1>9, <1>10, <1>11 DEF IInv

\* Catcher goes on to f in its innermost call.
GoesOn(n, f) ==
  /\ pc # "exited" /\ frames # <<>> /\ n = Len(frames)
  /\ f \in Frame /\ f.sig = frame.sig /\ f.reg \in 0 .. Cardinality(Arriving)
  /\ frames' = [frames EXCEPT ![n] = f]
  /\ UNCHANGED <<sigeffect, slow, interrupted, blocked, hasforked, pend, masked, pc, idx, reg,
                 io, outcome, arrivals, apart>>

\* The calls below the innermost stay as they are.
LEMMA TopChanges ==
  ASSUME IInv, NEW n \in Nat, NEW f \in Frame, GoesOn(n, f)
  PROVE  /\ frames' \in Seq(Frame) /\ Len(frames') = n /\ n \in Nat /\ n >= 1
         /\ DOMAIN frames = 1 .. n /\ DOMAIN frames' = 1 .. n
         /\ frames'[n] = f /\ \A k \in 1 .. n - 1 : frames'[k] = frames[k]
         /\ Taking' = Taking
         /\ \A k \in 0 .. n - 1 : Uncounted(k)' = Uncounted(k)
         /\ f.sig \notin Uncounted(n - 1)
         /\ Uncounted(n) = Uncounted(n - 1)
              \cup (IF frame.at \in {"load", "store"} THEN {f.sig} ELSE {})
         /\ Uncounted(n)' = Uncounted(n - 1)
              \cup (IF f.at \in {"load", "store"} THEN {f.sig} ELSE {})
         /\ Uncounted(Len(frames))' = Uncounted(n)'
         /\ Counted(Len(frames))' = Counted(n)'
  <1>1. /\ n \in Nat /\ n >= 1 /\ DOMAIN frames = 1 .. n /\ n \in DOMAIN frames
        /\ frame = frames[n] /\ frame.sig \notin Uncounted(n - 1)
    BY Innermost DEF GoesOn
  <1>2. frames \in Seq(Frame)
    BY DEF IInv, FramesExact
  <1>3. frames' = [frames EXCEPT ![n] = f] /\ f.sig = frame.sig
    BY DEF GoesOn
  <1>4. frames' \in Seq(Frame) /\ Len(frames') = n /\ DOMAIN frames' = 1 .. n
    BY <1>1, <1>2, <1>3
  <1>5. frames'[n] = f /\ \A k \in 1 .. n - 1 : frames'[k] = frames[k]
    BY <1>1, <1>3
  <1>6. Taking' = Taking
    BY DEF GoesOn, Taking
  <1>7. \A k \in 0 .. n - 1 : Uncounted(k)' = Uncounted(k)
    <2>1. ASSUME NEW k \in 0 .. n - 1 PROVE Uncounted(k)' = Uncounted(k)
      <3>1. k \in Nat /\ \A j \in 1 .. k : frames'[j] = frames[j]
        BY <1>1, <1>5
      <3> QED
        BY <3>1, UncountedKept
    <2> QED
      BY <2>1
  <1>8. /\ Uncounted(n) = Uncounted(n - 1)
             \cup (IF frames[n].at \in {"load", "store"} THEN {frames[n].sig} ELSE {})
        /\ Uncounted(n)' = Uncounted(n - 1)'
             \cup (IF frames'[n].at \in {"load", "store"} THEN {frames'[n].sig} ELSE {})
    BY <1>1, UncountedTop
  <1>9. Uncounted(n - 1)' = Uncounted(n - 1)
    <2>1. n - 1 \in 0 .. n - 1
      BY <1>1
    <2> QED
      BY <1>7, <2>1
  <1>10. Uncounted(Len(frames))' = Uncounted(n)'
    BY <1>4 DEF Uncounted
  <1>11. Counted(Len(frames))' = Counted(n)'
    BY <1>10 DEF Counted
  <1> QED
    BY <1>1, <1>3, <1>4, <1>5, <1>6, <1>7, <1>8, <1>9, <1>10, <1>11

\* A call of catcher that goes on keeps the invariant if it keeps what is about
\* the counters.
LEMMA TopStep ==
  ASSUME IInv, NEW n \in Nat, NEW f \in Frame, GoesOn(n, f),
         f.at # "enter", f.sig \in caught', caught \subseteq caught',
         caught' \in SUBSET Arriving,
         sigcount' \in Nat, sigcount' <= Cardinality(Counted(n)'),
         pc = "chk.scan" => sigcount' >= 1,
         f.at = "store" => f.reg <= Cardinality(Counted(n)'),
         apart => /\ sigcount' = Cardinality(Counted(n)')
                  /\ f.at = "store" => f.reg = sigcount',
         pc \in {"chk.dec", "chk.clear"} => idx \notin Uncounted(n)'
  PROVE  IInv'
  <1>1. /\ frames' \in Seq(Frame) /\ Len(frames') = n /\ n >= 1
        /\ DOMAIN frames = 1 .. n /\ DOMAIN frames' = 1 .. n
        /\ frames'[n] = f /\ \A k \in 1 .. n - 1 : frames'[k] = frames[k]
        /\ Taking' = Taking
        /\ \A k \in 0 .. n - 1 : Uncounted(k)' = Uncounted(k)
        /\ Uncounted(Len(frames))' = Uncounted(n)'
        /\ Counted(Len(frames))' = Counted(n)'
    BY TopChanges
  <1>2. /\ UNCHANGED <<sigeffect, slow, interrupted, blocked, hasforked, pend, masked, pc, idx,
                       reg, io, outcome, arrivals, apart>>
        /\ pc # "exited" /\ n = Len(frames) /\ f.sig = frame.sig /\ frame = frames[n]
        /\ f.reg \in 0 .. Cardinality(Arriving)
    BY DEF GoesOn, frame
  <1>3. FramesExact'
    <2>1. ASSUME NEW k \in 1 .. n
          PROVE  frames'[k].sig = frames[k].sig
                 /\ (frames'[k].at # "enter" => frames'[k].sig \in caught')
      <3>1. CASE k = n
        BY <1>1, <1>2, <3>1
      <3>2. CASE k \in 1 .. n - 1
        BY <1>1, <3>2 DEF IInv, FramesExact
      <3> QED
        BY <3>1, <3>2
    <2>2. \A k \in 1 .. n : /\ frames[k].sig \in masked
                            /\ \A j \in 1 .. n : frames[j].sig = frames[k].sig => j = k
      BY <1>1 DEF IInv, FramesExact
    <2> QED
      BY <1>1, <1>2, <2>1, <2>2 DEF FramesExact
  <1>4. CountBounded'
    <2>1. ASSUME NEW k \in 1 .. n, frames'[k].at = "store"
          PROVE  frames'[k].reg <= Cardinality(Counted(k)')
      <3>1. CASE k = n
        BY <1>1, <2>1, <3>1
      <3>2. CASE k \in 1 .. n - 1
        <4>1. k \in 0 .. n - 1 /\ frames'[k] = frames[k] /\ Uncounted(k)' = Uncounted(k)
          BY <1>1, <3>2
        <4>2. frames[k].reg <= Cardinality(Counted(k))
          BY <1>1, <2>1, <4>1 DEF IInv, CountBounded
        <4>3. Counted(k) \in SUBSET Counted(k)' /\ Counted(k)' \in SUBSET Arriving
          BY <1>1, <4>1 DEF Counted
        <4>4. Cardinality(Counted(k)) <= Cardinality(Counted(k)')
          BY <4>3, FewerMarks
        <4>5. Cardinality(Counted(k)) \in Nat /\ Cardinality(Counted(k)') \in Nat
          BY <4>3, SignalSets
        <4>6. frames[k].reg \in Nat
          <5>1. frames \in Seq(Frame) /\ k \in 1 .. Len(frames)
            BY <1>1, <1>2 DEF IInv, FramesExact
          <5>2. frames[k] \in Frame
            BY <5>1
          <5> QED
            BY <5>2 DEF Frame
        <4> QED
          BY <4>1, <4>2, <4>4, <4>5, <4>6
      <3> QED
        BY <3>1, <3>2
    <2>2. pc' = "chk.dec" => reg' >= 1 /\ reg' <= Cardinality(caught')
      <3>1. caught \in SUBSET caught' /\ caught \in SUBSET Arriving
        BY DEF IInv, TypeOK
      <3>2. /\ Cardinality(caught) <= Cardinality(caught')
            /\ Cardinality(caught) \in Nat /\ Cardinality(caught') \in Nat
        BY <3>1, FewerMarks, SignalSets
      <3>3. reg \in Nat
        BY SignalSets DEF IInv, TypeOK
      <3> QED
        BY <1>2, <3>2, <3>3 DEF IInv, CountBounded
    <2>3. pc' \in {"chk.dec", "chk.clear"} => idx' \in caught' \ Uncounted(Len(frames))'
      BY <1>1, <1>2 DEF IInv, CountBounded
    <2>4. pc' = "chk.scan" => sigcount' >= 1
      BY <1>2
    <2>5. sigcount' <= Cardinality(Counted(Len(frames))')
      BY <1>1
    <2> QED
      BY <1>1, <2>1, <2>2, <2>3, <2>4, <2>5 DEF CountBounded
  <1>5. CountEqual'
    <2>1. CASE ~apart
      BY <1>2, <2>1 DEF CountEqual
    <2>2. CASE apart
      <3>1. n <= 1 /\ n = 1 /\ pc \notin {"chk.dec", "chk.clear"}
        BY <1>1, <1>2, <2>2, Innermost DEF GoesOn
      <3>2. DOMAIN frames' = {1} /\ frames'[1] = f
        BY <1>1, <3>1
      <3>3. sigcount' = Cardinality(Counted(Len(frames))')
        BY <1>1, <2>2
      <3> QED
        BY <1>1, <1>2, <2>2, <3>1, <3>2, <3>3 DEF CountEqual
    <2> QED
      BY <2>1, <2>2
  <1>6. ScanBounded'
    BY <1>2 DEF IInv, ScanBounded
  <1>7. TypeOK'
    <2>1. ASSUME NEW k \in 1 .. n
          PROVE  frames'[k] \in [sig : Arriving, at : {"enter", "load", "store", "leave"},
                                 reg : 0 .. Cardinality(Arriving)]
      <3>1. CASE k = n
        BY <1>1, <1>2, <3>1 DEF Frame
      <3>2. CASE k \in 1 .. n - 1
        BY <1>1, <3>2 DEF IInv, TypeOK
      <3> QED
        BY <3>1, <3>2
    <2>2. sigcount' \in 0 .. Cardinality(Arriving)
      <3>1. Counted(n)' \in SUBSET Arriving
        BY DEF Counted
      <3> QED
        BY <3>1, SignalSets
    <2> QED
      BY <1>1, <1>2, <2>1, <2>2 DEF IInv, TypeOK
  <1>8. SlowExact' /\ CallExplained' /\ outcome' # "unexplained"
    BY <1>2 DEF IInv, SlowExact, CallExplained, Explained
  <1> QED
    BY <1>3, <1>4, <1>5, <1>6, <1>7, <1>8 DEF IInv

\* The mark: it is not counted yet.
LEMMA CatchMarkIInv ==
  ASSUME IInv, frames # <<>>, pc # "exited", CatchMark
  PROVE  IInv'
  <1>1. PICK n \in Nat : n = Len(frames)
    BY Innermost
  <1>2. frame \in Frame /\ n \in DOMAIN frames /\ frame = frames[n] /\ frame.at = "enter"
    BY <1>1, Innermost DEF CatchMark
  <1>3. PICK at \in {"leave", "load"} : at = IF Marked THEN "leave" ELSE "load"
    OBVIOUS
  <1>4. PICK f \in Frame : f = [frame EXCEPT !.at = at]
    BY <1>2 DEF Frame
  <1>5. f.sig = frame.sig /\ f.reg = frame.reg /\ f.at = at /\ f.reg \in 0 .. Cardinality(Arriving)
    BY <1>2, <1>4, Innermost DEF Frame
  <1>6. frames' = [frames EXCEPT ![n] = f]
    BY <1>1, <1>2, <1>3, <1>4 DEF CatchMark, Goto
  <1>7. GoesOn(n, f)
    BY <1>1, <1>5, <1>6 DEF GoesOn, CatchMark
  <1>8. caught' = caught \cup {f.sig} /\ sigcount' = sigcount
    BY <1>5 DEF CatchMark
  <1>9. caught \in SUBSET Arriving /\ caught' \in SUBSET Arriving
    BY <1>8 DEF IInv, TypeOK, Frame
  <1>10. /\ Uncounted(n) = Uncounted(n - 1) /\ Taking' = Taking
         /\ Uncounted(n)' = Uncounted(n - 1) \cup (IF Marked THEN {} ELSE {f.sig})
    <2>1. /\ Taking' = Taking
          /\ Uncounted(n) = Uncounted(n - 1)
               \cup (IF frame.at \in {"load", "store"} THEN {f.sig} ELSE {})
          /\ Uncounted(n)' = Uncounted(n - 1)
               \cup (IF f.at \in {"load", "store"} THEN {f.sig} ELSE {})
      BY <1>7, TopChanges
    <2>2. frame.at \notin {"load", "store"} /\ (f.at \in {"load", "store"} <=> ~Marked)
      BY <1>2, <1>3, <1>5
    <2> QED
      BY <2>1, <2>2
  <1>11. Counted(n)' = Counted(n)
    <2>1. CASE Marked
      BY <1>5, <1>8, <1>10, <2>1 DEF Marked, Counted
    <2>2. CASE ~Marked
      BY <1>5, <1>8, <1>10, <2>2 DEF Marked, Counted
    <2> QED
      BY <2>1, <2>2
  <1>12. /\ sigcount' \in Nat /\ sigcount' <= Cardinality(Counted(n)')
         /\ pc = "chk.scan" => sigcount' >= 1
         /\ apart => sigcount' = Cardinality(Counted(n)')
    BY <1>1, <1>7, <1>8, <1>11 DEF IInv, CountBounded, CountEqual, GoesOn
  <1>13. pc \in {"chk.dec", "chk.clear"} => idx \notin Uncounted(n)'
    BY <1>1, <1>5, <1>10 DEF IInv, CountBounded, Marked
  <1>14. f.sig \in caught' /\ caught \subseteq caught' /\ f.at # "enter" /\ f.at # "store"
    BY <1>3, <1>5, <1>8
  <1> QED
    BY <1>7, <1>9, <1>12, <1>13, <1>14, TopStep

\* The copy is of a count to which the mark does not belong.
LEMMA CatchLoadIInv ==
  ASSUME IInv, frames # <<>>, pc # "exited", CatchLoad
  PROVE  IInv'
  <1>1. PICK n \in Nat : n = Len(frames)
    BY Innermost
  <1>2. /\ frame \in Frame /\ n \in DOMAIN frames /\ frame = frames[n]
        /\ frame.at = "load" /\ frame.sig \in caught
    BY <1>1, Innermost DEF CatchLoad
  <1>3. sigcount \in 0 .. Cardinality(Arriving) /\ sigcount \in Nat
    BY SignalSets DEF IInv, TypeOK
  <1>4. PICK f \in Frame : f = [frame EXCEPT !.at = "store", !.reg = sigcount]
    BY <1>2, <1>3 DEF Frame
  <1>5. f.sig = frame.sig /\ f.reg = sigcount /\ f.at = "store"
    BY <1>2, <1>4 DEF Frame
  <1>6. frames' = [frames EXCEPT ![n] = f]
    BY <1>1, <1>2, <1>4 DEF CatchLoad
  <1>7. GoesOn(n, f) /\ UNCHANGED <<caught, sigcount>>
    BY <1>1, <1>3, <1>5, <1>6 DEF GoesOn, CatchLoad, program
  <1>8. Uncounted(n)' = Uncounted(n) /\ Taking' = Taking
    BY <1>2, <1>5, <1>7, TopChanges
  <1>9. Counted(n)' = Counted(n)
    BY <1>7, <1>8 DEF Counted
  <1>10. /\ sigcount' \in Nat /\ sigcount' <= Cardinality(Counted(n)')
         /\ pc = "chk.scan" => sigcount' >= 1
         /\ apart => sigcount' = Cardinality(Counted(n)')
         /\ pc \in {"chk.dec", "chk.clear"} => idx \notin Uncounted(n)'
    BY <1>1, <1>7, <1>8, <1>9 DEF IInv, CountBounded, CountEqual, GoesOn
  <1>11. caught' \in SUBSET Arriving
    BY <1>7 DEF IInv, TypeOK
  <1> QED
    BY <1>2, <1>5, <1>7, <1>10, <1>11, TopStep

\* What is written back counts the mark, and those that were counted before.
LEMMA CatchStoreIInv ==
  ASSUME IInv, frames # <<>>, pc # "exited", CatchStore
  PROVE  IInv'
  <1>1. PICK n \in Nat : n = Len(frames)
    BY Innermost
  <1>2. /\ frame \in Frame /\ n \in DOMAIN frames /\ frame = frames[n]
        /\ frame.at = "store" /\ frame.sig \in caught /\ frame.reg \in Nat
        /\ frame.reg \in 0 .. Cardinality(Arriving)
    BY <1>1, Innermost DEF CatchStore, Frame
  <1>3. PICK f \in Frame : f = [frame EXCEPT !.at = "leave"]
    BY <1>2 DEF Frame
  <1>4. f.sig = frame.sig /\ f.reg = frame.reg /\ f.at = "leave"
    BY <1>2, <1>3 DEF Frame
  <1>5. frames' = [frames EXCEPT ![n] = f]
    BY <1>1, <1>2, <1>3 DEF CatchStore, Goto
  <1>6. GoesOn(n, f) /\ UNCHANGED caught /\ sigcount' = frame.reg + 1
    BY <1>1, <1>2, <1>4, <1>5 DEF GoesOn, CatchStore
  <1>7. /\ Uncounted(n) = Uncounted(n)' \cup {f.sig} /\ f.sig \notin Uncounted(n)'
        /\ Taking' = Taking
    BY <1>2, <1>4, <1>6, TopChanges
  <1>8. f.sig \notin Taking
    <2>1. f.sig \in Uncounted(n)
      BY <1>7
    <2> QED
      BY <1>1, <2>1 DEF IInv, CountBounded, Taking
  <1>9. caught' \in SUBSET Arriving /\ Counted(n)' \in SUBSET Arriving
    BY <1>6 DEF IInv, TypeOK, Counted
  <1>10. Counted(n)' \ {f.sig} = Counted(n) /\ f.sig \in Counted(n)'
    BY <1>2, <1>4, <1>6, <1>7, <1>8 DEF Counted
  <1>11. Cardinality(Counted(n)) = Cardinality(Counted(n)') - 1 /\ Cardinality(Counted(n)') \in Nat
    BY <1>9, <1>10, OneMark, SignalSets
  <1>12. /\ frame.reg <= Cardinality(Counted(n))
         /\ apart => frame.reg = sigcount /\ sigcount = Cardinality(Counted(n))
    BY <1>1, <1>2, <1>6 DEF IInv, CountBounded, CountEqual, GoesOn
  <1>13. /\ sigcount' \in Nat /\ sigcount' <= Cardinality(Counted(n)') /\ sigcount' >= 1
         /\ apart => sigcount' = Cardinality(Counted(n)')
    BY <1>2, <1>6, <1>11, <1>12
  <1>14. pc \in {"chk.dec", "chk.clear"} => idx \notin Uncounted(n)'
    BY <1>1, <1>7 DEF IInv, CountBounded
  <1>15. f.sig \in caught' /\ caught \subseteq caught'
    BY <1>2, <1>4, <1>6
  <1> QED
    BY <1>4, <1>6, <1>9, <1>13, <1>14, <1>15, TopStep

\* The jump out of a system call, and the end of a child, abandon the calls of
\* catcher; what they had not counted is counted by nobody.
LEMMA FramesDropped ==
  ASSUME IInv, frames # <<>>, frames' = <<>>, pc' \in {"io.end", "exited"},
         UNCHANGED <<caught, sigcount, apart>>,
         pc' = "io.end" => pc # "exited" /\ frame.at = "leave" /\ Taking = {}
  PROVE  FramesExact' /\ CountBounded' /\ ScanBounded' /\ CountEqual'
  <1>1. frames' \in Seq(Frame) /\ Len(frames') = 0 /\ DOMAIN frames' = {}
    OBVIOUS
  <1>2. Counted(Len(frames))' = caught
    <2>1. Uncounted(0)' = {} /\ Uncounted(Len(frames))' = Uncounted(0)' /\ Taking' = {}
      BY <1>1 DEF Uncounted, Taking
    <2>2. Counted(Len(frames))' = caught' \ (Uncounted(Len(frames))' \cup Taking')
      BY DEF Counted
    <2> QED
      BY <2>1, <2>2
  <1>3. /\ caught \in SUBSET Arriving /\ Counted(Len(frames)) \in SUBSET caught
        /\ Cardinality(caught) \in Nat
        /\ Cardinality(Counted(Len(frames))) <= Cardinality(caught)
        /\ Cardinality(Counted(Len(frames))) \in Nat
    <2>1. caught \in SUBSET Arriving /\ Counted(Len(frames)) \in SUBSET caught
      BY DEF IInv, TypeOK, Counted
    <2>2. Cardinality(Counted(Len(frames))) \in Nat
      BY <2>1, SignalSets
    <2> QED
      BY <2>1, <2>2, SignalSets, FewerMarks
  <1>4. FramesExact'
    BY <1>1 DEF FramesExact
  <1>5. CountBounded'
    <2>1. sigcount' \in Nat /\ sigcount' <= Cardinality(caught)
      BY <1>3 DEF IInv, CountBounded
    <2>2. sigcount' <= Cardinality(Counted(Len(frames))')
      BY <1>2, <2>1
    <2> QED
      BY <1>1, <2>1, <2>2 DEF CountBounded
  <1>6. CountEqual'
    <2>1. CASE ~apart \/ pc' = "exited"
      BY <2>1 DEF CountEqual
    <2>2. CASE apart /\ pc' = "io.end"
      <3>1. /\ frame.at = "leave" /\ Taking = {} /\ Len(frames) \in Nat /\ Len(frames) = 1
            /\ frame = frames[1]
        BY <2>2, Innermost
      <3>2. Uncounted(1) = {}
        BY <3>1 DEF Uncounted
      <3>3. Counted(Len(frames)) = caught
        BY <3>1, <3>2 DEF Counted
      <3>4. sigcount = Cardinality(caught)
        BY <2>2, <3>3 DEF IInv, CountEqual
      <3>5. sigcount' = Cardinality(Counted(Len(frames))')
        BY <1>2, <3>4
      <3> QED
        BY <1>1, <2>2, <3>5 DEF CountEqual
    <2> QED
      BY <2>1, <2>2
  <1>7. ScanBounded'
    BY DEF ScanBounded
  <1> QED
    BY <1>4, <1>5, <1>6, <1>7

LEMMA CatchInChildIInv ==
  ASSUME IInv, frames # <<>>, pc # "exited", CatchInChild
  PROVE  IInv'
  <1>1. /\ pc' = "exited" /\ frames' = <<>>
        /\ UNCHANGED <<sigeffect, caught, sigcount, slow, interrupted, blocked, hasforked,
                       pend, masked, idx, reg, io, outcome, arrivals, apart>>
    BY DEF CatchInChild, program
  <1>2. FramesExact' /\ CountBounded' /\ ScanBounded' /\ CountEqual'
    BY <1>1, FramesDropped
  <1>3. TypeOK'
    BY <1>1 DEF IInv, TypeOK
  <1>4. SlowExact' /\ CallExplained' /\ outcome' # "unexplained"
    BY <1>1 DEF IInv, SlowExact, CallExplained
  <1> QED
    BY <1>2, <1>3, <1>4 DEF IInv

\* The return, to the call below it.
LEMMA CatchReturns ==
  ASSUME IInv, frames # <<>>, pc # "exited", frame.at = "leave",
         frames' = SubSeq(frames, 1, Len(frames) - 1), masked' = masked \ {frame.sig},
         UNCHANGED <<caught, sigcount, pc, idx, reg, apart>>
  PROVE  /\ FramesExact' /\ CountBounded' /\ ScanBounded' /\ CountEqual'
         /\ DOMAIN frames' \subseteq DOMAIN frames
         /\ \A k \in DOMAIN frames' : frames'[k] = frames[k]
  <1>1. PICK n \in Nat : n = Len(frames)
    BY Innermost
  <1>2. n >= 1 /\ DOMAIN frames = 1 .. n /\ frame = frames[n] /\ frames \in Seq(Frame)
    BY <1>1, Innermost DEF IInv, FramesExact
  <1>3. /\ frames' \in Seq(Frame) /\ Len(frames') = n - 1 /\ DOMAIN frames' = 1 .. n - 1
        /\ \A k \in 1 .. n - 1 : frames'[k] = frames[k] /\ k \in 1 .. n
    BY <1>1, <1>2
  <1>4. FramesExact'
    <2>1. \A k \in 1 .. n : /\ frames[k].sig \in masked
                            /\ frames[k].at # "enter" => frames[k].sig \in caught
                            /\ \A j \in 1 .. n : frames[j].sig = frames[k].sig => j = k
      BY <1>2 DEF IInv, FramesExact
    <2>2. ASSUME NEW k \in 1 .. n - 1 PROVE frames[k].sig # frame.sig
      <3>1. k \in 1 .. n /\ n \in 1 .. n /\ k # n
        BY <1>2
      <3> QED
        BY <1>2, <2>1, <3>1
    <2> QED
      BY <1>3, <2>1, <2>2 DEF FramesExact
  <1>5. /\ \A k \in 0 .. n - 1 : Uncounted(k)' = Uncounted(k) /\ Counted(k)' = Counted(k)
        /\ Uncounted(Len(frames))' = Uncounted(n) /\ Counted(Len(frames))' = Counted(n)
    <2>1. Taking' = Taking
      BY DEF Taking
    <2>2. ASSUME NEW k \in 0 .. n - 1 PROVE Uncounted(k)' = Uncounted(k) /\ Counted(k)' = Counted(k)
      <3>1. k \in Nat /\ \A j \in 1 .. k : frames'[j] = frames[j]
        BY <1>3
      <3>2. Uncounted(k)' = Uncounted(k)
        BY <3>1, UncountedKept
      <3> QED
        BY <2>1, <3>2 DEF Counted
    <2>3. n - 1 \in 0 .. n - 1
      BY <1>2
    <2>4. Uncounted(n) = Uncounted(n - 1)
      BY <1>2, UncountedTop
    <2>5. Uncounted(Len(frames))' = Uncounted(n - 1)'
      BY <1>3 DEF Uncounted
    <2>6. Uncounted(Len(frames))' = Uncounted(n)
      BY <2>2, <2>3, <2>4, <2>5
    <2>7. Counted(Len(frames))' = Counted(n)
      BY <2>1, <2>6 DEF Counted
    <2> QED
      BY <2>2, <2>6, <2>7
  <1>6. CountBounded'
    <2>1. ASSUME NEW k \in 1 .. n - 1, frames'[k].at = "store"
          PROVE  frames'[k].reg <= Cardinality(Counted(k)')
      <3>1. k \in 0 .. n - 1 /\ k \in 1 .. n /\ frames'[k] = frames[k]
        BY <1>3
      <3> QED
        BY <1>2, <1>5, <2>1, <3>1 DEF IInv, CountBounded
    <2>2. sigcount' \in Nat /\ sigcount' <= Cardinality(Counted(Len(frames))')
      BY <1>1, <1>5 DEF IInv, CountBounded
    <2>3. /\ pc' = "chk.scan" => sigcount' >= 1
          /\ pc' = "chk.dec" => reg' >= 1 /\ reg' <= Cardinality(caught')
          /\ pc' \in {"chk.dec", "chk.clear"} => idx' \in caught' \ Uncounted(Len(frames))'
      BY <1>1, <1>5 DEF IInv, CountBounded
    <2> QED
      BY <1>3, <2>1, <2>2, <2>3 DEF CountBounded
  <1>7. ScanBounded'
    BY DEF IInv, ScanBounded
  <1>8. CountEqual'
    <2>1. CASE ~apart
      BY <2>1 DEF CountEqual
    <2>2. CASE apart
      <3>1. n = 1 /\ frames' = <<>> /\ DOMAIN frames' = {}
        BY <1>1, <1>2, <1>3, <2>2, Innermost
      <3>2. sigcount' = Cardinality(Counted(Len(frames))') /\ pc \notin {"chk.dec", "chk.clear"}
        BY <1>1, <1>5, <2>2 DEF IInv, CountEqual
      <3>3. Len(frames') <= 1
        BY <1>3, <3>1
      <3> QED
        BY <2>2, <3>1, <3>2, <3>3 DEF CountEqual
    <2> QED
      BY <2>1, <2>2
  <1>9. DOMAIN frames' \subseteq DOMAIN frames /\ \A k \in DOMAIN frames' : frames'[k] = frames[k]
    BY <1>2, <1>3
  <1> QED
    BY <1>4, <1>6, <1>7, <1>8, <1>9

LEMMA CatchLeaveIInv ==
  ASSUME IInv, frames # <<>>, pc # "exited", CatchLeave
  PROVE  IInv'
  <1>1. /\ frame.at = "leave" /\ interrupted' = TRUE
        /\ UNCHANGED <<sigeffect, caught, sigcount, slow, blocked, hasforked, pend, idx, reg,
                       outcome, arrivals, apart>>
    BY DEF CatchLeave
  <1>2. frame.sig \in Arriving
    BY Innermost DEF Frame
  <1>3. io' \in Calls /\ io'.came # {} /\ io'.call = io.call
        /\ io'.i = io.i /\ io'.remain = io.remain
    <2>1. io \in Calls
      BY DEF IInv, TypeOK
    <2>2. PICK r \in {"none", "data", "interrupted"} : r = IF slow THEN "interrupted" ELSE io.res
      BY <2>1 DEF Calls
    <2>3. io' = [io EXCEPT !.came = @ \cup {frame.sig}, !.res = r]
      BY <2>2 DEF CatchLeave
    <2> QED
      BY <1>2, <2>1, <2>3 DEF Calls
  <1>4. CASE slow
    <2>1. frames' = <<>> /\ pc' = "io.end" /\ masked' \in {{}, masked}
      BY <1>4 DEF CatchLeave
    <2>2. pc \in {"io.test", "io.wait", "io.more", "io.end"}
      BY <1>4 DEF IInv, SlowExact
    <2>3. Taking = {}
      BY <2>2 DEF Taking
    <2>4. FramesExact' /\ CountBounded' /\ ScanBounded' /\ CountEqual'
      BY <1>1, <2>1, <2>3, FramesDropped
    <2>5. TypeOK'
      <3>1. masked' \in SUBSET Arriving
        BY <2>1 DEF IInv, TypeOK
      <3>2. DOMAIN frames' = {}
        BY <2>1
      <3> QED
        BY <1>1, <1>3, <2>1, <3>1, <3>2 DEF IInv, TypeOK
    <2>6. SlowExact' /\ CallExplained' /\ outcome' # "unexplained"
      BY <1>1, <1>3, <2>1 DEF IInv, SlowExact, CallExplained, Explained
    <2> QED
      BY <2>4, <2>5, <2>6 DEF IInv
  <1>5. CASE ~slow
    <2>1. /\ frames' = SubSeq(frames, 1, Len(frames) - 1) /\ masked' = masked \ {frame.sig}
          /\ pc' = pc
      BY <1>5 DEF CatchLeave
    <2>2. /\ FramesExact' /\ CountBounded' /\ ScanBounded' /\ CountEqual'
          /\ DOMAIN frames' \subseteq DOMAIN frames
          /\ \A k \in DOMAIN frames' : frames'[k] = frames[k]
      BY <1>1, <2>1, CatchReturns
    <2>3. TypeOK'
      BY <1>1, <1>3, <2>1, <2>2 DEF IInv, TypeOK
    <2>4. SlowExact' /\ CallExplained' /\ outcome' # "unexplained"
      BY <1>1, <1>3, <1>5, <2>1 DEF IInv, SlowExact, CallExplained, Explained
    <2> QED
      BY <2>2, <2>3, <2>4 DEF IInv
  <1> QED
    BY <1>4, <1>5

-----------------------------------------------------------------------------
(***************************************************************************)
(* The theorems.                                                           *)
(***************************************************************************)

\* Every step keeps the invariant.
LEMMA NextIInv == IInv /\ [Next]_vars => IInv'
  <1> SUFFICES ASSUME IInv, [Next]_vars PROVE IInv'
    OBVIOUS
  <1>1. CASE \E s \in Arriving : Arrive(s) \/ Deliver(s)
    BY <1>1, ArriveIInv, DeliverIInv
  <1>2. CASE Catcher
    BY <1>2, CatchInChildIInv, CatchMarkIInv, CatchLoadIInv, CatchStoreIInv, CatchLeaveIInv
       DEF Catcher
  <1>3. CASE Sigchk \/ Scan \/ CountDown \/ Take
    BY <1>3, SigchkIInv, ScanIInv, CountDownIInv, TakeIInv
  <1>4. CASE \/ CallRead \/ \E n \in 1 .. MaxWrite : CallWrite(n)
             \/ Arm \/ SetSlow \/ Test \/ ReadReturns \/ WriteFails
             \/ \E n \in 1 .. MaxWrite : WriteReturns(n)
             \/ WriteMore \/ EndSlow
    BY <1>4, CallIInv
  <1>5. CASE \/ Blocksignals \/ Unblocksignals \/ Fork \/ SetDefaults
             \/ \E new \in Settings : SetSignals(new)
    BY <1>5, RunIInv
  <1>6. CASE UNCHANGED vars
    <2>1. CountsSame
      BY <1>6 DEF vars, program, kernel, CountsSame
    <2>2. TypeOK' /\ SlowExact' /\ CallExplained' /\ outcome' # "unexplained"
      BY <1>6 DEF vars, program, kernel, IInv, TypeOK, SlowExact, CallExplained, Explained
    <2> QED
      BY <2>1, <2>2, CountsKept DEF IInv
  <1> QED
    BY <1>1, <1>2, <1>3, <1>4, <1>5, <1>6 DEF Next, Program

\* The invariant holds throughout: wherever a signal comes in, what catcher and
\* sigchk will write to sigcount is at most the number of counted marks, and
\* equal to it when signals come apart.
THEOREM CountsInvariant == Spec => []IInv
  <1>1. Init => IInv
    BY InitIInv
  <1>2. IInv /\ [Next]_vars => IInv'
    BY NextIInv
  <1> QED
    BY <1>1, <1>2, PTL DEF Spec

\* Neither catcher nor sigchk touches what is not there: sigchk's loop always
\* meets a mark before the end of caught, and catcher jumps only to a frame of
\* eread or ewrite that is live; for any signals, in any interleaving.
THEOREM CatcherIsSafe == Spec => []CatcherSafe
  <1>1. IInv => CatcherSafe
    <2> SUFFICES ASSUME IInv PROVE CatcherSafe
      OBVIOUS
    <2>1. SlowFrameLive
      BY DEF IInv, SlowExact, SlowFrameLive
    <2>2. frames = <<>> /\ pc \notin {"chk.dec", "chk.clear"} => sigcount <= Cardinality(caught)
      <3> SUFFICES ASSUME frames = <<>>, pc \notin {"chk.dec", "chk.clear"}
                   PROVE  sigcount <= Cardinality(caught)
        OBVIOUS
      <3>1. caught \ Taking = caught
        BY DEF Taking
      <3> QED
        BY <3>1, CountsNow
    <2>3. ScanInBounds
      BY <2>2 DEF IInv, ScanBounded, ScanInBounds
    <2> QED
      BY <2>1, <2>3 DEF IInv, CatcherSafe
  <1> QED
    BY <1>1, CountsInvariant, PTL

\* As long as no signal comes in while the bookkeeping on another is under way,
\* sigcount is the number of marks: no signal is forgotten.
THEOREM CountsAreExact == Spec => []CountExact
  <1>1. IInv => CountExact
    <2> SUFFICES ASSUME IInv, apart, frames = <<>>, pc \notin {"chk.dec", "chk.clear"},
                        pc # "exited"
                 PROVE  sigcount = Cardinality(caught)
      BY DEF CountExact, Bookkeeping
    <2>1. caught \ Taking = caught
      BY DEF Taking
    <2> QED
      BY <2>1, CountsNow
  <1> QED
    BY <1>1, CountsInvariant, PTL

\* No read or write is cut short by anything but an error or a signal that was
\* caught while it was under way.
THEOREM CutShortBySignals == Spec => []ShortOnlyBySignal
  <1>1. IInv => ShortOnlyBySignal
    BY DEF IInv, ShortOnlyBySignal
  <1> QED
    BY <1>1, CountsInvariant, PTL

=============================================================================
