----------------------------- MODULE Exceptions -----------------------------
(***************************************************************************)
(* Exceptions (except.c), and the constructs that live with them: the      *)
(* handlers of eval, loops, redirections, inputs and catch, local          *)
(* variables with their settors, the limit on the depth of evaluation, and *)
(* the blocking of signals (prim-ctl.c, signal.c).                         *)
(*                                                                         *)
(* The state is the C stack, as far as its frames hold a Handler or a      *)
(* Push, and the global variables that point into it.  An address is the   *)
(* position of a frame, so a pointer to a frame that has been left points  *)
(* past the stack or to another frame.  What the shell evaluates is any    *)
(* sequence of entering and leaving constructs and of throwing.  throw     *)
(* pops the local variables it passes, and so runs their settors, on top   *)
(* of the frames it is about to leave.                                     *)
(***************************************************************************)
EXTENDS Integers, Sequences, FiniteSets

CONSTANTS Scopes,          \* the constructs that are used: redirections, inputs, ...
          Thrown,          \* the exceptions that commands throw
          MaxEvalDepth,    \* $max-eval-depth
          MaxFrames        \* bound on the frames that are entered

ASSUME ExceptionsAssumption ==
  /\ Scopes \subseteq {"loop", "redir", "input", "catch"}
  /\ Thrown \subseteq {"return", "break", "retry", "error"}
  /\ MaxEvalDepth \in Nat
  /\ MaxFrames \in Nat

VARIABLES
  frames,       \* the C stack, main first
  tophandler,
  pushlist,
  evaldepth,
  blocked,      \* signal.c
  input,        \* input.c: the innermost Input
  defcount,     \* fd.c: pending deferrals
  applied,      \* how many of them a failed remapfds has applied and unregistered
  child,        \* hasforked
  ended,        \* "no", "exit", or the function that has aborted: "throw", "undefer"
  skipped       \* did an exception pass a handler that had cleaning up to do? (history)

vars == <<frames, tophandler, pushlist, evaldepth, blocked, input, defcount, applied,
          child, ended, skipped>>

NULL == 0
roothandler == 1   \* in the frame of main

Exceptions == Thrown \cup {"error", "signal"}

HandlerKinds == Scopes \cup {"main", "lambda", "catcher"}
PushKinds == {"local", "pushing", "popping"}
EvalKinds == {"eval", "lambda", "pushing", "popping"}

\* The exception that a construct takes as its own way out ("break" stands for batchloop's
\* eof too).
Stops(kind, e) == <<kind, e>> \in {<<"lambda", "return">>, <<"loop", "break">>}

\* A frame.  up, push and depth are the fields of a Handler; push is also the next of
\* a Push, and up the handler a throw is going to; prev is the prev of an Input, or the
\* ticket of a redirection.
Frame(kind) == [kind |-> kind, up |-> NULL, push |-> NULL, depth |-> 0, prev |-> NULL,
                set |-> FALSE, exc |-> "none"]

\* ExceptionHandler
Handler(kind, depth) ==
  [Frame(kind) EXCEPT !.up = tophandler, !.push = pushlist, !.depth = depth]

\* A Push in its frame; set says whether the variable has a settor.
Push(kind, set) == [Frame(kind) EXCEPT !.push = pushlist, !.set = set]

Here == Len(frames)
Top == frames[Here]
Below(k) == SubSeq(frames, 1, k)

Init ==
  /\ frames = <<Frame("main")>>
  /\ tophandler = roothandler
  /\ pushlist = NULL
  /\ evaldepth = 0 /\ blocked = 0 /\ input = NULL /\ defcount = 0
  /\ applied = 0
  /\ child = FALSE /\ ended = "no" /\ skipped = FALSE

Running == ended = "no" /\ Top.kind # "throw"
\* Bounds: MaxFrames, and no more is entered once cleaning up has gone wrong.
Entering == Running /\ Here < MaxFrames /\ ~skipped /\ applied = 0

-----------------------------------------------------------------------------
\* The start of throw(e), called on top of fs.
Raise(fs, e) ==
  IF tophandler = NULL
    THEN frames' = fs /\ ended' = "throw" /\ UNCHANGED tophandler
    ELSE /\ frames' = Append(fs, [Frame("throw") EXCEPT !.up = tophandler, !.exc = e])
         /\ tophandler' = fs[tophandler].up
         /\ UNCHANGED ended

\* eval of frame f: it fails if the limit is reached.
Evaluate(f) ==
  /\ evaldepth' = evaldepth + 1
  /\ IF evaldepth + 1 >= MaxEvalDepth
       THEN Raise(Append(frames, f), "error")
       ELSE frames' = Append(frames, f) /\ UNCHANGED <<tophandler, ended>>

\* callsettor: a Push for $0, and eval of the settor.
CallSettor(kind) ==
  /\ pushlist' = Here + 1
  /\ Evaluate(Push(kind, FALSE))

\* eval of a thunk, a primitive or the body of some construct,
EnterEval ==
  /\ Entering
  /\ Evaluate(Frame("eval"))
  /\ UNCHANGED <<pushlist, blocked, input, defcount, applied, child, skipped>>

\* and of a lambda, which has a handler.
EnterLambda ==
  /\ Entering
  /\ evaldepth + 1 < MaxEvalDepth
  /\ evaldepth' = evaldepth + 1
  /\ frames' = Append(frames, Handler("lambda", evaldepth + 1))
  /\ tophandler' = Here + 1
  /\ UNCHANGED <<pushlist, blocked, input, defcount, applied, child, ended, skipped>>

\* for and batchloop, redir, runinput, and the body of catch.
EnterScope(kind) ==
  /\ Entering
  /\ frames' = Append(frames, [Handler(kind, evaldepth) EXCEPT
                               !.prev = CASE kind = "input" -> input
                                          [] kind = "redir" -> defcount
                                          [] OTHER -> NULL])
  /\ tophandler' = Here + 1
  /\ input' = IF kind = "input" THEN Here + 1 ELSE input
  /\ defcount' = IF kind = "redir" THEN defcount + 1 ELSE defcount
  /\ UNCHANGED <<pushlist, evaldepth, blocked, applied, child, ended, skipped>>

\* varpush, with and without a settor.
EnterLocal(set) ==
  /\ Entering
  /\ IF set THEN CallSettor("pushing")
     ELSE /\ frames' = Append(frames, Push("local", FALSE))
          /\ pushlist' = Here + 1
          /\ UNCHANGED <<tophandler, evaldepth, ended>>
  /\ UNCHANGED <<blocked, input, defcount, applied, child, skipped>>

-----------------------------------------------------------------------------
LeaveEval ==
  /\ Running
  /\ Top.kind = "eval"
  /\ evaldepth' = evaldepth - 1
  /\ frames' = Below(Here - 1)
  /\ UNCHANGED <<tophandler, pushlist, blocked, input, defcount, applied, child, ended,
                 skipped>>

\* What leaving scope f does to blocked, input and defcount, normally or by exception.
Unblock(f) == blocked' = IF f.kind = "catcher" THEN blocked - 1 ELSE blocked

\* Fault: a deferral outlives its redirection.
UndeferMissing(f) == UNCHANGED defcount

Undefer(f) == defcount' = IF f.kind = "redir" THEN defcount - 1 ELSE defcount

\* undefer asserts that the ticket is the last one, and that it is still registered.
UndeferFails(f) ==
  /\ f.kind = "redir"
  /\ f.prev # defcount - 1 \/ applied = defcount

\* pophandler
LeaveScope ==
  /\ Running
  /\ Top.kind \in HandlerKinds \ {"main"}
  /\ ~UndeferFails(Top)
  /\ tophandler' = Top.up
  /\ evaldepth' = IF Top.kind = "lambda" THEN evaldepth - 1 ELSE evaldepth
  /\ Unblock(Top) /\ Undefer(Top)
  /\ input' = IF Top.kind = "input" THEN Top.prev ELSE input
  /\ frames' = Below(Here - 1)
  /\ UNCHANGED <<pushlist, applied, child, ended, skipped>>

\* varpop
LeaveLocal ==
  /\ Running
  /\ Top.kind = "local"
  /\ IF Top.set THEN CallSettor("popping")
     ELSE /\ pushlist' = Top.push
          /\ frames' = Below(Here - 1)
          /\ UNCHANGED <<tophandler, evaldepth, ended>>
  /\ UNCHANGED <<blocked, input, defcount, applied, child, skipped>>

\* The settor returns to varpush, or to varpop, which localbind or throw has called.
SettorReturns ==
  /\ Running
  /\ evaldepth' = evaldepth - 1
  /\ \/ /\ Top.kind = "pushing"
        /\ frames' = Append(Below(Here - 1), [Push("local", TRUE) EXCEPT !.push = Top.push])
        /\ pushlist' = Here
     \/ /\ Top.kind = "popping"
        /\ pushlist' = frames[Top.push].push
        /\ frames' = Below(IF frames[Here - 1].kind = "local" THEN Here - 2 ELSE Here - 1)
  /\ UNCHANGED <<tophandler, blocked, input, defcount, applied, child, ended, skipped>>

-----------------------------------------------------------------------------
Throw(e) ==
  /\ Running
  /\ Raise(frames, e)
  /\ UNCHANGED <<pushlist, evaldepth, blocked, input, defcount, applied, child, skipped>>

Unwinding == ended = "no" /\ Top.kind = "throw"
Target == frames[Top.up]

\* One turn of the loop of throw: varpop of the innermost Push.
Unwind ==
  /\ Unwinding
  /\ pushlist # Target.push
  /\ IF frames[pushlist].set THEN CallSettor("popping")
     ELSE /\ pushlist' = frames[pushlist].push
          /\ UNCHANGED <<frames, tophandler, evaldepth, ended>>
  /\ UNCHANGED <<blocked, input, defcount, applied, child, skipped>>

\* Does this throw leave frames that have not cleaned up?  main does not miss it.
Skips ==
  /\ Target.kind # "main"
  /\ \E k \in (Top.up + 1) .. Here : frames[k].kind \in {"redir", "input", "catcher"}

\* Fault: the locals bound inside the handler are not undone.
JumpAtOnce ==
  /\ Unwinding
  /\ skipped' = (skipped \/ Skips)
  /\ UNCHANGED <<pushlist, applied, child>>

\* The jump: every frame above the handler is gone.
Jump ==
  /\ Unwinding
  /\ pushlist = Target.push
  /\ skipped' = (skipped \/ Skips)
  /\ UNCHANGED <<pushlist, applied, child>>

\* evaldepth after the jump to f.
Restored(f) == f.depth

\* return in a lambda, and break in a loop, are the end of it.
CatchOwn ==
  /\ Jump
  /\ Stops(Target.kind, Top.exc)
  /\ evaldepth' = IF Target.kind = "lambda" THEN Restored(Target) - 1 ELSE Restored(Target)
  /\ frames' = Below(Top.up - 1)
  /\ UNCHANGED <<tophandler, blocked, input, defcount, ended>>

\* prim_catch's frame goes on as kind, with a new handler.
Again(kind) ==
  /\ evaldepth' = Restored(Target)
  /\ frames' = Append(Below(Top.up - 1), [Target EXCEPT !.kind = kind, !.up = tophandler])
  /\ tophandler' = Top.up
  /\ UNCHANGED <<input, defcount, ended>>

\* An exception from the body of catch: the catcher runs, with signals blocked.
CatchBody ==
  /\ Jump
  /\ Target.kind = "catch"
  /\ blocked' = blocked + 1
  /\ Again("catcher")

\* Fault: a retry leaves signals blocked.
RetryBlocked ==
  /\ Jump
  /\ Target.kind = "catcher"
  /\ Top.exc = "retry"
  /\ UNCHANGED blocked
  /\ Again("catch")

\* retry from the catcher: the body is run again.
Retry ==
  /\ Jump
  /\ Target.kind = "catcher"
  /\ Top.exc = "retry"
  /\ blocked' = blocked - 1
  /\ Again("catch")

\* A frame whose handler has thrown again; a lambda's is that of an eval still.
Passed(kind) == IF kind = "lambda" THEN "eval" ELSE "passed"

\* Every other handler cleans up and throws again.  The handler of an input takes the
\* prev of whatever input points to, which, if handlers were skipped, may be anything.
PassOn ==
  /\ Jump
  /\ Target.kind \in HandlerKinds \ {"main", "catch"}
  /\ ~Stops(Target.kind, Top.exc)
  /\ ~(Target.kind = "catcher" /\ Top.exc = "retry")
  /\ ~UndeferFails(Target)
  /\ evaldepth' = Restored(Target)
  /\ Unblock(Target) /\ Undefer(Target)
  /\ input' \in IF Target.kind # "input" THEN {input}
                ELSE IF input = Top.up THEN {Target.prev}
                ELSE 0 .. Top.up
  /\ Raise([Below(Top.up) EXCEPT ![Top.up].kind = Passed(@)], Top.exc)

\* The assertion or the panic in undefer, when a redirection is left either way.
UndeferAborts ==
  /\ \/ Running /\ UndeferFails(Top) /\ UNCHANGED skipped
     \/ Unwinding /\ pushlist = Target.push /\ UndeferFails(Target)
        /\ skipped' = (skipped \/ Skips)
  /\ ended' = "undefer"
  /\ UNCHANGED <<frames, tophandler, pushlist, evaldepth, blocked, input, defcount, applied,
                 child>>

\* main reports the exception and exits.
Uncaught ==
  /\ Jump
  /\ Target.kind = "main"
  /\ evaldepth' = Restored(Target)
  /\ frames' = Below(Top.up)
  /\ ended' = "exit"
  /\ UNCHANGED <<tophandler, blocked, input, defcount>>

-----------------------------------------------------------------------------
\* sigchk, for a signal that is caught and that may have come at any time before; it exits
\* in a child.
SigChk ==
  /\ Running
  /\ blocked = 0
  /\ IF child THEN ended' = "exit" /\ UNCHANGED <<frames, tophandler>>
              ELSE Raise(frames, "signal")
  /\ UNCHANGED <<pushlist, evaldepth, blocked, input, defcount, applied, child, skipped>>

\* Fault: the handlers of the parent stay in force.
NewChildCatcherMissing == UNCHANGED tophandler

NewChildCatcher == tophandler' = roothandler

\* efork: on with the child, if parent is set, or on in the shell itself.
Fork(parent) ==
  /\ Entering
  /\ child' = (child \/ parent)
  /\ frames' = Append(frames, Frame("fork"))
  /\ defcount' = 0
  /\ NewChildCatcher
  /\ UNCHANGED <<pushlist, evaldepth, blocked, input, applied, ended, skipped>>

\* remapfds cannot apply one of the deferrals: newchildcatcher is not reached.
ForkFails(parent) ==
  /\ Entering
  /\ applied' \in 1 .. defcount
  /\ child' = (child \/ parent)
  /\ Raise(Append(frames, Frame("efork")), "error")
  /\ UNCHANGED <<pushlist, evaldepth, blocked, input, defcount, skipped>>

\* The child exits after its command, the shell at the end of main.
Exit ==
  /\ Running
  /\ Top.kind \in {"fork", "main"}
  /\ ended' = "exit"
  /\ UNCHANGED <<frames, tophandler, pushlist, evaldepth, blocked, input, defcount, applied,
                 child, skipped>>

Next ==
  \/ EnterEval \/ EnterLambda
  \/ \E kind \in Scopes : EnterScope(kind)
  \/ \E set \in BOOLEAN : EnterLocal(set)
  \/ LeaveEval \/ LeaveScope \/ LeaveLocal \/ SettorReturns
  \/ \E e \in Thrown : Throw(e)
  \/ Unwind \/ CatchOwn \/ CatchBody \/ Retry \/ PassOn \/ Uncaught
  \/ UndeferAborts \/ SigChk
  \/ \E parent \in BOOLEAN : Fork(parent) \/ ForkFails(parent)
  \/ Exit

Spec == Init /\ [][Next]_vars

-----------------------------------------------------------------------------
(***************************************************************************)
(* Properties.                                                             *)
(***************************************************************************)
FrameType ==
  [kind : HandlerKinds \cup PushKinds \cup {"eval", "throw", "fork", "efork", "passed"},
   up : Nat, push : Nat, depth : Nat, prev : Nat, set : BOOLEAN,
   exc : Exceptions \cup {"none"}]

\* Types; pointers are null or point into the stack.
TypeOK ==
  /\ frames \in Seq(FrameType)
  /\ frames # <<>> /\ frames[1].kind = "main"
  /\ tophandler \in 0 .. Here
  /\ pushlist \in 0 .. Here
  /\ input \in Nat
  /\ evaldepth \in Nat /\ blocked \in Nat /\ defcount \in Nat
  /\ applied \in 0 .. defcount
  /\ child \in BOOLEAN /\ skipped \in BOOLEAN
  /\ ended \in {"no", "exit", "throw", "undefer"}

OfKind(kinds) == {k \in DOMAIN frames : frames[k].kind \in kinds}

Last(S) == IF S = {} THEN NULL ELSE CHOOSE k \in S : \A j \in S : j <= k

LastFork == Last(OfKind({"fork"}))

\* Handlers that an exception raised now can reach: not those that an unfinished throw
\* is going to or has passed; in a child, those of its own and main's.
Armed ==
  {k \in OfKind(HandlerKinds) :
     /\ k = roothandler \/ k > LastFork
     /\ \A j \in OfKind({"throw"}) : j > k /\ j > LastFork => k < frames[j].up}

\* The assertions of pophandler and throw: the chain that starts at tophandler links
\* exactly the armed handlers of the stack, innermost first, through every return,
\* throw, retry and fork, and in whatever settors run in between.
HandlersExact ==
  ended = "no" =>
  /\ tophandler = Last(Armed)
  /\ \A k \in Armed : frames[k].up = Last({j \in Armed : j < k})

\* pushlist and what hangs on it, as far as there are frames to lead through.
Pushed ==
  LET walk[i \in 0 .. Here] ==
        IF i = 0 THEN pushlist
        ELSE IF walk[i - 1] \in DOMAIN frames THEN frames[walk[i - 1]].push ELSE NULL
  IN {walk[i] : i \in DOMAIN walk} \ {NULL}

\* pushlist links local variables that are on the stack, each handler remembers the
\* innermost one outside it, and one that is no longer linked is inside the handler
\* that some throw is going to: throw's loop ends, with exactly the locals undone
\* that were bound inside the handler.
PushesExact ==
  /\ Pushed \subseteq OfKind(PushKinds)
  /\ \A k \in OfKind(PushKinds) \ Pushed :
       \E j \in OfKind({"throw"}) : frames[j].up < k /\ k < j
  /\ \A k \in OfKind(HandlerKinds) :
       frames[k].push = Last({j \in OfKind(PushKinds) : j < k})

\* The depth of evaluation is the number of evaluations on the stack: exceptions,
\* returns and retries make it drift neither up nor down.
DepthExact == evaldepth = Cardinality(OfKind(EvalKinds))

\* The three stacks that throw unwinds by (the handlers, the locals and the
\* evaluations) are those of the constructs that are really under way.
StacksExact == TypeOK /\ HandlersExact /\ PushesExact /\ DepthExact

\* Unless a handler was skipped: signals are blocked once for each catcher on the
\* stack, each redirection on the stack has its deferral, and input is the innermost Input.
CleanupExact ==
  ended = "no" /\ ~skipped =>
              /\ blocked = Cardinality(OfKind({"catcher"}))
              /\ defcount = Cardinality({k \in OfKind({"redir"}) : k > LastFork})
              /\ input = Last(OfKind({"input"}))

\* assert(handler != NULL) in throw (except.c).
HandlerFound == ended # "throw"

\* It fails only for an exception from a settor that throw has called on its way to
\* main, and undefer's assertion and panic only where a handler was skipped or closefds
\* has failed: no other sequence of returns, throws, retries and forks aborts the shell.
AbortsExplained ==
  /\ ended = "throw" => \E k \in OfKind({"throw"}) : frames[k].up = roothandler
  /\ ended = "undefer" => skipped \/ applied > 0

\* "remove the current handler chain for a new child" (except.c): a child never gets
\* back into the frames of its parent, but for main's.
ChildContained ==
  child /\ ended = "no" => OfKind({"fork", "efork"}) # {}

\* It does so only where closefds has failed.
ChildEscapes ==
  child /\ ended = "no" /\ applied = 0 => OfKind({"fork"}) # {}

=============================================================================
