------------------------------- MODULE Signals -------------------------------
(***************************************************************************)
(* How the shell catches, defers and takes signals: signal.c, the system   *)
(* call wrappers eread and ewrite of util.c, $&setsignals, and the part of *)
(* efork that makes a child stop catching.                                 *)
(*                                                                         *)
(* There is one thread of control, but catcher runs between any two        *)
(* instructions of it, and between two instructions of itself when another *)
(* signal arrives (sa_mask is empty). The bookkeeping on sigcount is       *)
(* therefore modelled at the grain of the compiled code: ++ and -- of a    *)
(* volatile are a load and a store. While slow is set catcher jumps out of *)
(* everything, to slowlabel.                                               *)
(*                                                                         *)
(* apart is fixed at the start: when it is TRUE no signal arrives while    *)
(* the bookkeeping on another one is under way.                            *)
(***************************************************************************)
EXTENDS Naturals, Sequences, FiniteSets

CONSTANTS
  NSIG,             \* number of signals; they are 1 .. NSIG - 1
  SIGINT, SIGQUIT, SIGTERM,
  Arriving,         \* the signals that are sent to the shell
  Uncatchable,      \* those whose disposition sigaction refuses to change
  Settings,         \* what programs assign to $signals
  MaxSignals,       \* bound: how many signals arrive
  MaxBlocked,       \* bound: nesting of blocksignals
  JumpRestoresMask  \* does longjmp(slowlabel) put back the signal mask?

Signal == 1 .. NSIG - 1
Effects == {"catch", "default", "ignore", "noop", "special"}

ASSUME SignalsAssumption ==
  /\ NSIG \in Nat \ {0} /\ MaxSignals \in Nat /\ MaxBlocked \in Nat
  /\ {SIGINT, SIGQUIT, SIGTERM} \subseteq Signal
  /\ Arriving \subseteq Signal /\ Uncatchable \subseteq Signal
  /\ Settings \subseteq [Signal -> Effects]
  /\ JumpRestoresMask \in BOOLEAN

VARIABLES
  sigeffect,    \* what the shell does about each signal
  caught,       \* the signals with caught[sig] set
  sigcount,     \* how many the shell believes there are
  slow, interrupted,
  blocked,      \* depth of blocksignals
  hasforked,    \* this process is a child
  pend, masked, \* the kernel's pending and blocked signals
  frames,       \* the active calls of catcher, innermost last
  pc,           \* where the main thread is
  idx, reg,     \* sigchk's loop variable and its copy of sigcount
  io,           \* the eread or ewrite under way
  outcome,      \* how the last eread or ewrite came back
  arrivals, apart

program == <<sigeffect, caught, sigcount, slow, interrupted, blocked, hasforked>>
kernel == <<pend, masked, frames>>
vars == <<program, kernel, pc, idx, reg, io, outcome, arrivals, apart>>

Handled(e, s) == e[s] \in {"catch", "noop", "special"}

(***************************************************************************)
(* Effects                                                                 *)
(***************************************************************************)

\* esignal: only SIGINT can be special; a refusal by sigaction is reported
\* and changes nothing, except that a default is recorded all the same.
Esignal(effects, s, e) ==
  IF \/ e = "special" /\ s # SIGINT
     \/ e # "default" /\ s \in Uncatchable
    THEN effects
    ELSE [effects EXCEPT ![s] = e]

\* setsigeffects
Setsigeffects(effects, new) == [s \in Signal |-> Esignal(effects, s, new[s])[s]]

\* setsigdefaults: what is caught goes back to the default, what is ignored
\* stays ignored.
Setsigdefaults(effects) ==
  [s \in Signal |-> IF Handled(effects, s) THEN "default" ELSE effects[s]]

\* initsignals, from the set of signals that are ignored on entry.
Initsignals(ignored, interactive, allowdumps) ==
  LET incoming == [s \in Signal |-> IF s \in ignored THEN "ignore" ELSE "default"]
      int == IF interactive \/ incoming[SIGINT] = "default"
               THEN Esignal(incoming, SIGINT, "special") ELSE incoming
      term == IF ~allowdumps /\ interactive
                THEN Esignal(int, SIGTERM, "noop") ELSE int
  IN IF ~allowdumps /\ (interactive \/ term[SIGQUIT] = "default")
       THEN Esignal(term, SIGQUIT, "noop") ELSE term

\* The call: has the kernel handed data over; what r is (res); i and remain of
\* ewrite; did write fail; which signals were caught since it began.
NoCall == [call |-> "none", got |-> FALSE, res |-> "none", i |-> 0, remain |-> 0,
           error |-> FALSE, came |-> {}]

Init ==
  /\ \E ignored \in SUBSET Arriving, interactive, allowdumps \in BOOLEAN :
       sigeffect = Initsignals(ignored, interactive, allowdumps)
  /\ caught = {} /\ sigcount = 0
  /\ slow = FALSE /\ interrupted = FALSE
  /\ blocked = 0 /\ hasforked = FALSE
  /\ pend = {} /\ masked = {} /\ frames = <<>>
  /\ pc = "run" /\ idx = 0 /\ reg = 0
  /\ io = NoCall /\ outcome = "whole"
  /\ arrivals = 0
  /\ apart \in BOOLEAN

(***************************************************************************)
(* The kernel                                                              *)
(***************************************************************************)

\* A signal is sent. One that has its default effect ends the shell, which
\* is not followed further; an ignored one is dropped.
Arrive(s) ==
  /\ arrivals < MaxSignals
  /\ arrivals' = arrivals + 1
  /\ Handled(sigeffect, s)
  /\ pend' = pend \cup {s}
  /\ UNCHANGED <<program, masked, frames, pc, idx, reg, io, outcome, apart>>

\* The bookkeeping that a further signal must not interrupt when signals
\* come apart: a call of catcher, or sigchk between its load and its clear.
Bookkeeping == frames # <<>> \/ pc \in {"chk.dec", "chk.clear"}

\* The kernel calls catcher on top of whatever runs, with sig masked.
Deliver(s) ==
  /\ pc # "exited"
  /\ s \in pend \ masked
  /\ apart => ~Bookkeeping
  /\ pend' = pend \ {s}
  /\ masked' = masked \cup {s}
  /\ frames' = Append(frames, [sig |-> s, at |-> "enter", reg |-> 0])
  /\ UNCHANGED <<program, pc, idx, reg, io, outcome, arrivals, apart>>

(***************************************************************************)
(* catcher, in the innermost frame                                         *)
(***************************************************************************)

frame == frames[Len(frames)]
Goto(at) == frames' = [frames EXCEPT ![Len(frames)].at = at]

\* A child exits whatever it was doing.
CatchInChild ==
  /\ frame.at = "enter" /\ hasforked
  /\ pc' = "exited" /\ frames' = <<>>
  /\ UNCHANGED <<program, pend, masked, idx, reg, io, outcome, arrivals, apart>>

\* Fault: catcher jumps before it counts.
MarkedOrSlow == frame.sig \in caught \/ slow

Marked == frame.sig \in caught

\* if (caught[sig] == 0) caught[sig] = TRUE
CatchMark ==
  /\ frame.at = "enter" /\ ~hasforked
  /\ Goto(IF Marked THEN "leave" ELSE "load")
  /\ caught' = caught \cup {frame.sig}
  /\ UNCHANGED <<sigeffect, sigcount, slow, interrupted, blocked, hasforked,
                 pend, masked, pc, idx, reg, io, outcome, arrivals, apart>>

\* ++sigcount: the load ...
CatchLoad ==
  /\ frame.at = "load"
  /\ frames' = [frames EXCEPT ![Len(frames)].at = "store",
                              ![Len(frames)].reg = sigcount]
  /\ UNCHANGED <<program, pend, masked, pc, idx, reg, io, outcome, arrivals, apart>>

\* ... and the store.
CatchStore ==
  /\ frame.at = "store"
  /\ sigcount' = frame.reg + 1
  /\ Goto("leave")
  /\ UNCHANGED <<sigeffect, caught, slow, interrupted, blocked, hasforked,
                 pend, masked, pc, idx, reg, io, outcome, arrivals, apart>>

\* interrupted = TRUE, then return, or jump out of a slow system call. The
\* jump abandons every frame of catcher below this one too.
CatchLeave ==
  /\ frame.at = "leave"
  /\ interrupted' = TRUE
  /\ io' = [io EXCEPT !.came = @ \cup {frame.sig},
                      !.res = IF slow THEN "interrupted" ELSE @]
  /\ IF slow
       THEN /\ frames' = <<>>
            /\ masked' = IF JumpRestoresMask THEN {} ELSE masked
            /\ pc' = "io.end"
       ELSE /\ frames' = SubSeq(frames, 1, Len(frames) - 1)
            /\ masked' = masked \ {frame.sig}
            /\ pc' = pc
  /\ UNCHANGED <<sigeffect, caught, sigcount, slow, blocked, hasforked,
                 pend, idx, reg, outcome, arrivals, apart>>

Catcher ==
  /\ pc # "exited" /\ frames # <<>>
  /\ CatchInChild \/ CatchMark \/ CatchLoad \/ CatchStore \/ CatchLeave

(***************************************************************************)
(* sigchk                                                                  *)
(***************************************************************************)

Main(at) == pc = at /\ frames = <<>>

\* The call under way, if any, is over.
EndCall(how) == io' = NoCall /\ outcome' = IF io.call = "none" THEN outcome ELSE how

\* What the caller of eread or ewrite gets that returns normally.
HowEnded ==
  CASE io.call = "read" /\ io.res # "interrupted" -> "whole"
    [] io.call = "write" /\ io.remain = 0 -> "whole"
    [] io.call = "write" /\ io.error -> "error"
    [] io.call = "read" /\ ~io.got /\ io.came # {} -> "retry"  \* fdfill reads again
    [] OTHER ->
         IF io.came = {} THEN "unexplained"
         ELSE IF \A s \in io.came : sigeffect[s] = "noop" THEN "noop" ELSE "signal"

\* Back to the caller.
Resume == pc' = "run" /\ EndCall(HowEnded)

\* SIGCHK, from the program or as the last thing eread and ewrite do.
Sigchk ==
  /\ Main("run") \/ Main("io.chk")
  /\ \/ /\ sigcount = 0 \/ blocked > 0
        /\ Resume /\ UNCHANGED idx
     \/ /\ sigcount > 0 /\ blocked = 0 /\ hasforked
        /\ pc' = "exited" /\ UNCHANGED <<idx, io, outcome>>
     \/ /\ sigcount > 0 /\ blocked = 0 /\ ~hasforked
        /\ pc' = "chk.scan" /\ idx' = 0 /\ UNCHANGED <<io, outcome>>
  /\ UNCHANGED <<program, kernel, reg, arrivals, apart>>

\* One turn of the loop: caught[sig] is looked at before sig is compared with
\* NSIG. A signal that is found is counted down: load ...
Scan ==
  /\ Main("chk.scan")
  /\ \/ /\ idx \in caught
        /\ reg' = sigcount /\ pc' = "chk.dec"
        /\ UNCHANGED <<idx, sigcount, io, outcome>>
     \/ /\ idx \notin caught /\ idx < NSIG
        /\ idx' = idx + 1
        /\ UNCHANGED <<reg, pc, sigcount, io, outcome>>
     \/ /\ idx \notin caught /\ idx >= NSIG
        /\ sigcount' = 0 /\ Resume
        /\ UNCHANGED <<reg, idx>>
  /\ UNCHANGED <<sigeffect, caught, slow, interrupted, blocked, hasforked, kernel,
                 arrivals, apart>>

\* ... and store ...
CountDown ==
  /\ Main("chk.dec")
  /\ sigcount' = reg - 1
  /\ pc' = "chk.clear"
  /\ UNCHANGED <<sigeffect, caught, slow, interrupted, blocked, hasforked, kernel,
                 idx, reg, io, outcome, arrivals, apart>>

\* Fault: a signal that was taken stays marked.
TakenStill == caught
Taken == caught \ {idx}

\* ... then it is marked as taken and thrown, or dropped.
Take ==
  /\ Main("chk.clear")
  /\ caught' = Taken
  /\ IF sigeffect[idx] \in {"catch", "special"}
       THEN pc' = "run" /\ EndCall("thrown")
       ELSE Resume
  /\ idx' = 0 /\ reg' = 0
  /\ UNCHANGED <<sigeffect, sigcount, slow, interrupted, blocked, hasforked, kernel,
                 arrivals, apart>>

(***************************************************************************)
(* eread and ewrite                                                        *)
(***************************************************************************)

IoUnchanged == UNCHANGED <<sigeffect, caught, sigcount, blocked, hasforked, kernel,
                           idx, reg, outcome, arrivals, apart>>

\* Fault: slow is left set.
SlowLeft == slow' = slow
SlowOff == slow' = FALSE

CallRead ==
  /\ Main("run")
  /\ io' = [NoCall EXCEPT !.call = "read"] /\ pc' = "io.arm"
  /\ IoUnchanged /\ UNCHANGED <<slow, interrupted>>

CallWrite(n) ==
  /\ Main("run")
  /\ io' = [NoCall EXCEPT !.call = "write", !.remain = n] /\ pc' = "io.arm"
  /\ IoUnchanged /\ UNCHANGED <<slow, interrupted>>

\* Fault: an earlier signal is left noted.
ResetMissing == interrupted' = interrupted
Reset == interrupted' = FALSE

\* interrupted = FALSE; setjmp(slowlabel)
Arm ==
  /\ Main("io.arm")
  /\ Reset /\ pc' = "io.slow"
  /\ IoUnchanged /\ UNCHANGED <<slow, io>>

\* slow = TRUE: from here on catcher jumps
SetSlow ==
  /\ Main("io.slow")
  /\ slow' = TRUE /\ pc' = "io.test"
  /\ IoUnchanged /\ UNCHANGED <<interrupted, io>>

\* if (interrupted): a signal came before slow was set
Test ==
  /\ Main("io.test")
  /\ IF interrupted
       THEN pc' = "io.end" /\ io' = [io EXCEPT !.res = "interrupted"]
       ELSE pc' = "io.wait" /\ io' = io
  /\ IoUnchanged /\ UNCHANGED <<slow, interrupted>>

\* read returns
ReadReturns ==
  /\ Main("io.wait") /\ io.call = "read"
  /\ io' = [io EXCEPT !.got = TRUE, !.res = "data"] /\ pc' = "io.end"
  /\ IoUnchanged /\ UNCHANGED <<slow, interrupted>>

\* write takes some or all of what remains ...
WriteReturns(n) ==
  /\ Main("io.wait") /\ io.call = "write"
  /\ n \in 1 .. io.remain
  /\ io' = [io EXCEPT !.i = n] /\ pc' = "io.more"
  /\ IoUnchanged /\ UNCHANGED <<slow, interrupted>>

\* ... or fails.
WriteFails ==
  /\ Main("io.wait") /\ io.call = "write"
  /\ io' = [io EXCEPT !.error = TRUE] /\ pc' = "io.end"
  /\ IoUnchanged /\ UNCHANGED <<slow, interrupted>>

\* slow = FALSE; bufp += i, remain -= i
WriteMore ==
  /\ Main("io.more")
  /\ SlowOff
  /\ io' = [io EXCEPT !.remain = @ - io.i, !.i = 0]
  /\ pc' = IF io.remain > io.i THEN "io.arm" ELSE "io.end"
  /\ IoUnchanged /\ UNCHANGED interrupted

\* slow = FALSE
EndSlow ==
  /\ Main("io.end")
  /\ SlowOff /\ pc' = "io.chk"
  /\ IoUnchanged /\ UNCHANGED <<interrupted, io>>

(***************************************************************************)
(* The rest of the program                                                 *)
(***************************************************************************)

RunUnchanged == UNCHANGED <<caught, sigcount, slow, interrupted, masked, frames, idx, reg,
                            io, outcome, arrivals, apart>>

Blocksignals ==
  /\ Main("run") /\ blocked < MaxBlocked
  /\ blocked' = blocked + 1
  /\ RunUnchanged /\ UNCHANGED <<sigeffect, hasforked, pend, pc>>

IsBlocked == blocked > 0

Unblocksignals ==
  /\ Main("run") /\ IsBlocked
  /\ blocked' = blocked - 1
  /\ RunUnchanged /\ UNCHANGED <<sigeffect, hasforked, pend, pc>>

\* $&setsignals. The kernel drops a pending signal that becomes ignored; one
\* that gets its default back ends the shell.
SetSignals(new) ==
  /\ Main("run")
  /\ sigeffect' = Setsigeffects(sigeffect, new)
  /\ \A s \in pend \ masked : sigeffect'[s] # "default"
  /\ pend' = {s \in pend : sigeffect'[s] # "ignore"}
  /\ RunUnchanged /\ UNCHANGED <<hasforked, blocked, pc>>

\* The child's side of efork: it inherits everything but what is pending.
Fork ==
  /\ Main("run") /\ ~hasforked
  /\ hasforked' = TRUE /\ pend' = {} /\ pc' = "forked"
  /\ RunUnchanged /\ UNCHANGED <<sigeffect, blocked>>

SetDefaults ==
  /\ Main("forked")
  /\ pend \subseteq masked
  /\ sigeffect' = Setsigdefaults(sigeffect)
  /\ pc' = "run"
  /\ RunUnchanged /\ UNCHANGED <<hasforked, blocked, pend>>

(***************************************************************************)
(* The specification                                                       *)
(***************************************************************************)

MaxWrite == 2     \* bound: bytes, or blocks, of one ewrite

\* What the program does of itself once a call has begun.
Program ==
  \/ Scan \/ CountDown \/ Take
  \/ Arm \/ SetSlow \/ Test \/ WriteMore \/ EndSlow \/ SetDefaults

Next ==
  \/ \E s \in Arriving : Arrive(s) \/ Deliver(s)
  \/ Catcher
  \/ Sigchk \/ Program
  \/ CallRead \/ ReadReturns \/ WriteFails
  \/ \E n \in 1 .. MaxWrite : CallWrite(n) \/ WriteReturns(n)
  \/ Blocksignals \/ Unblocksignals
  \/ \E new \in Settings : SetSignals(new)
  \/ Fork
  \/ pc = "exited" /\ UNCHANGED vars

\* The processor runs catcher and the code around a system call to the end,
\* and the kernel delivers what is pending; nothing is promised of read and
\* write, which may wait for ever. The evaluator calls SIGCHK at every form
\* it evaluates, and blocksignals is always undone.
Fairness ==
  /\ WF_vars(Catcher) /\ WF_vars(Program)
  /\ \A s \in Arriving : SF_vars(Deliver(s))
  /\ SF_vars(Sigchk /\ sigcount > 0 /\ blocked = 0) /\ SF_vars(Unblocksignals)
  /\ WF_vars(Sigchk /\ io.call # "none")

Spec == Init /\ [][Next]_vars /\ Fairness

(***************************************************************************)
(* Properties                                                              *)
(***************************************************************************)

Calls == [call : {"none", "read", "write"}, got : BOOLEAN,
          res : {"none", "data", "interrupted"}, i : 0 .. MaxWrite, remain : 0 .. MaxWrite,
          error : BOOLEAN, came : SUBSET Arriving]

\* The counters stay in range and every signal that is marked was sent.
TypeOK ==
  /\ sigeffect \in [Signal -> Effects]
  /\ caught \in SUBSET Arriving /\ sigcount \in 0 .. Cardinality(Arriving)
  /\ slow \in BOOLEAN /\ interrupted \in BOOLEAN /\ hasforked \in BOOLEAN
  /\ blocked \in 0 .. MaxBlocked
  /\ pend \in SUBSET Arriving /\ masked \in SUBSET Arriving
  /\ \A k \in DOMAIN frames :
       frames[k] \in [sig : Arriving, at : {"enter", "load", "store", "leave"},
                      reg : 0 .. Cardinality(Arriving)]
  /\ pc \in {"run", "forked", "exited", "chk.scan", "chk.dec", "chk.clear", "io.arm",
             "io.slow", "io.test", "io.wait", "io.more", "io.end", "io.chk"}
  /\ idx \in 0 .. NSIG /\ reg \in 0 .. Cardinality(Arriving)
  /\ io \in Calls
  /\ outcome \in {"whole", "error", "retry", "unexplained", "noop", "signal", "thrown"}
  /\ arrivals \in 0 .. MaxSignals /\ apart \in BOOLEAN

\* However signals interleave with the bookkeeping, sigcount never exceeds the
\* number of marks, so sigchk's loop always meets a mark and never gets to
\* caught[NSIG], which is beyond the array.
ScanInBounds ==
  /\ pc = "chk.scan" => idx < NSIG /\ \E s \in caught : s >= idx
  /\ frames = <<>> /\ pc \notin {"chk.dec", "chk.clear"} => sigcount <= Cardinality(caught)

\* When the signals come apart, the count is exact whenever nobody is in the
\* middle of changing it, so that no signal is forgotten.
CountExact ==
  apart /\ ~Bookkeeping /\ pc # "exited" => sigcount = Cardinality(caught)

\* catcher jumps only while the frame that called setjmp(slowlabel) is live,
\* and a shell that waits in a system call has no signal it has not noticed.
SlowFrameLive ==
  /\ slow => pc \in {"io.test", "io.wait", "io.more", "io.end", "exited"}
  /\ pc = "io.wait" /\ frames = <<>> => slow /\ ~interrupted

\* Neither catcher nor sigchk touches what is not there.
CatcherSafe == TypeOK /\ ScanInBounds /\ SlowFrameLive

\* A read or a write is cut short only by an error or by a signal that was
\* caught while it was under way: an older signal does not interrupt it.
ShortOnlyBySignal == outcome # "unexplained"

\* A signal that is ignored in the shell ("/" in $signals) leaves the shell's
\* own output and input alone.
NoopIgnored == outcome # "noop"

\* Once no handler is active the kernel blocks no signal, so that the next one
\* is delivered too. This is so where longjmp puts the mask back only.
MaskRestored == frames = <<>> => masked = {}

\* When the signals come apart, a signal that is marked is taken sooner or
\* later, if no read or write waits for ever ...
SignalsTaken ==
  []<>(pc # "io.wait") =>
    \A s \in Arriving : apart /\ s \in caught ~> s \notin caught \/ pc = "exited"

\* ... and so it is without that condition, since catcher interrupts the call.
\* It is not: a signal caught after the last SIGCHK and before eread or ewrite
\* resets interrupted is counted, but the call waits all the same.
SignalsWake ==
  \A s \in Arriving : apart /\ s \in caught ~> s \notin caught \/ pc = "exited"

=============================================================================
