------------------------------ MODULE Children ------------------------------
(***************************************************************************)
(* The shell's record of its child processes (proc.c): the doubly linked   *)
(* list of Proc structures, efork's insertion, and ewait with the wait3    *)
(* wrapper that signals can jump out of.  The kernel's side, which         *)
(* children exist and which have exited, is modelled with it.  The shell   *)
(* is one thread; what interleaves with it are exits and signals.          *)
(***************************************************************************)
EXTENDS Integers, FiniteSets

CONSTANTS Pids,        \* process ids the kernel hands out
          Procs,       \* storage for Proc structures
          NULL,        \* the null Proc pointer
          Statuses,    \* exit statuses
          Unset,       \* a status field nobody has written yet
          Recycle,     \* may fork return the id of a dead process that is still listed?
          MaxForks, MaxSignals   \* bounds of the model

ASSUME ChildrenAssumption ==
  /\ Pids \subseteq Nat \ {0}
  /\ IsFiniteSet(Procs) /\ NULL \notin Procs
  /\ Unset \notin Statuses
  /\ Recycle \in BOOLEAN
  /\ MaxForks \in Nat /\ MaxSignals \in Nat

AnyPid == 0      \* ewait's pid when any process will do
NoChild == -1    \* wait3 failed with ECHILD
Interrupted == -2

VARIABLES
  kernel,       \* what the kernel knows of each id: "none", "running" or "zombie"
  exitStatus,   \* the status each process exited with (history, kept after wait3)
  heap,         \* the Proc structures
  allocated,    \* those of them that are allocated
  proclist,     \* the head of the list
  pc,           \* where the shell stands in ewait and dowait; "run" outside
  want,         \* ewait's pid
  interruptible,
  proc,         \* the Proc that ewait found, NULL in its loop for any process
  n, status,    \* what dowait returned, and the status when proc is NULL
  slow, interrupted, pending,   \* signal.c: in a slow call; caught; sigcount > 0
  owed,         \* processes forked and not yet returned by ewait (history)
  lost,         \* processes whose status a signal threw away (history)
  forks, signals

listVars == <<heap, allocated, proclist>>
waitVars == <<pc, want, interruptible, proc, n, status>>
signalVars == <<slow, interrupted, pending>>
counters == <<forks, signals>>
vars == <<kernel, exitStatus, listVars, waitVars, signalVars, owed, lost, counters>>

\* Storage that is not in use.
Blank == [pid |-> 0, status |-> Unset, alive |-> FALSE, next |-> NULL, prev |-> NULL]

\* Locals that nothing reads outside ewait are given fixed values there.
Leaving ==
  /\ pc' = "run" /\ want' = AnyPid /\ interruptible' = FALSE
  /\ proc' = NULL /\ n' = 0 /\ status' = Unset

Init ==
  /\ kernel = [p \in Pids |-> "none"]
  /\ exitStatus = [p \in Pids |-> Unset]
  /\ heap = [x \in Procs |-> Blank]
  /\ allocated = {}
  /\ proclist = NULL
  /\ pc = "run" /\ want = AnyPid /\ interruptible = FALSE
  /\ proc = NULL /\ n = 0 /\ status = Unset
  /\ slow = FALSE /\ interrupted = FALSE /\ pending = FALSE
  /\ owed = {} /\ lost = {}
  /\ forks = 0 /\ signals = 0

\* The list in order, as far as Cardinality(Procs) links lead.
Chain ==
  LET walk[i \in 0 .. Cardinality(Procs)] ==
        IF i = 0 THEN proclist
        ELSE IF walk[i - 1] = NULL THEN NULL ELSE heap[walk[i - 1]].next
  IN walk

Listed == {Chain[i] : i \in DOMAIN Chain} \ {NULL}

\* The first listed Proc in S, the way the loops of proc.c find it; NULL if none.
FirstIn(S) ==
  LET at == {i \in DOMAIN Chain : Chain[i] \in S} IN
  IF at = {} THEN NULL ELSE Chain[CHOOSE i \in at : \A j \in at : i <= j]

WithPid(p) == {x \in Procs : heap[x].pid = p}
Dead == {x \in Procs : ~heap[x].alive}

-----------------------------------------------------------------------------
(***************************************************************************)
(* efork, in the parent: mkproc, then the new Proc goes to the head.       *)
(***************************************************************************)

\* mkproc: a listed Proc with this id is taken over as it stands, links included.
MkProc(x, p) ==
  [heap[x] EXCEPT !.pid = p, !.alive = TRUE, !.prev = NULL,
                  !.next = IF x \in allocated THEN heap[x].next ELSE proclist]

\* Fault: the old head does not point back to the new one.
PushUnlinked(x, node) == [heap EXCEPT ![x] = node]

Push(x, node) ==
  IF proclist = NULL THEN [heap EXCEPT ![x] = node]
  ELSE [[heap EXCEPT ![x] = node] EXCEPT ![proclist].prev = x]

\* The ids that fork may return.  Ids that are not listed are interchangeable, so one
\* of them, the least, stands for all.
Unlisted(p) == kernel[p] = "none" /\ FirstIn(WithPid(p)) = NULL

Fresh(p) ==
  \/ Unlisted(p) /\ \A q \in Pids : Unlisted(q) => p <= q
  \/ Recycle /\ kernel[p] = "none"

Fork(p) ==
  LET old == FirstIn(WithPid(p))
      x == IF old # NULL THEN old ELSE CHOOSE y \in Procs \ allocated : TRUE IN
  /\ pc = "run"
  /\ forks < MaxForks
  /\ Fresh(p)
  /\ old = NULL => Procs \ allocated # {}
  /\ heap' = Push(x, MkProc(x, p))
  /\ allocated' = allocated \cup {x}
  /\ proclist' = x
  /\ kernel' = [kernel EXCEPT ![p] = "running"]
  /\ owed' = owed \cup {p}
  /\ forks' = forks + 1
  /\ UNCHANGED <<exitStatus, waitVars, signalVars, lost, signals>>

-----------------------------------------------------------------------------
(***************************************************************************)
(* The environment.                                                        *)
(***************************************************************************)

Exit(p) ==
  /\ kernel[p] = "running"
  /\ kernel' = [kernel EXCEPT ![p] = "zombie"]
  /\ \E s \in Statuses : exitStatus' = [exitStatus EXCEPT ![p] = s]
  /\ UNCHANGED <<listVars, waitVars, signalVars, owed, lost, counters>>

\* catcher: it jumps to dowait's setjmp whenever slow is set, so also after wait3
\* has returned a child and before dowait has said so.
Signal ==
  /\ signals < MaxSignals
  /\ signals' = signals + 1
  /\ pending' = TRUE
  /\ interrupted' = TRUE
  /\ pc' = IF slow THEN "jumped" ELSE pc
  /\ lost' = IF slow /\ pc = "back" /\ n > 0 THEN lost \cup {n} ELSE lost
  /\ UNCHANGED <<kernel, exitStatus, listVars, want, interruptible, proc, n, status,
                 slow, owed, forks>>

\* SIGCHK at a safe point outside ewait.
Deliver ==
  /\ pc = "run"
  /\ pending
  /\ pending' = FALSE
  /\ UNCHANGED <<kernel, exitStatus, listVars, waitVars, slow, interrupted, owed, lost,
                 counters>>

-----------------------------------------------------------------------------
(***************************************************************************)
(* ewait.                                                                  *)
(***************************************************************************)

\* ewaitfor(p) after a fork, $&wait p or $&wait.
Ewait(p, i) ==
  /\ pc = "run"
  /\ want' = p
  /\ interruptible' = i
  /\ pc' = "top"
  /\ UNCHANGED <<kernel, exitStatus, listVars, proc, n, status, signalVars, owed, lost,
                 counters>>

\* Fault: a process that was reaped earlier is passed over.
WantedAlive == FirstIn((IF want = AnyPid THEN Dead ELSE WithPid(want)) \ Dead)

\* What the search at label top finds.
Wanted == FirstIn(IF want = AnyPid THEN Dead ELSE WithPid(want))

Top ==
  /\ pc = "top"
  /\ proc' = Wanted
  /\ pc' = IF Wanted = NULL THEN IF want = AnyPid THEN "enter" ELSE "fail"
           ELSE IF heap[Wanted].alive THEN "enter" ELSE "finish"
  /\ UNCHANGED <<kernel, exitStatus, listVars, want, interruptible, n, status, signalVars,
                 owed, lost, counters>>

\* dowait, line by line.
Enter ==
  /\ pc = "enter"
  /\ interrupted' = FALSE
  /\ pc' = "arm"
  /\ UNCHANGED <<kernel, exitStatus, listVars, want, interruptible, proc, n, status, slow,
                 pending, owed, lost, counters>>

Arm ==
  /\ pc = "arm"
  /\ slow' = TRUE
  /\ pc' = "test"
  /\ UNCHANGED <<kernel, exitStatus, listVars, want, interruptible, proc, n, status,
                 interrupted, pending, owed, lost, counters>>

Test ==
  /\ pc = "test"
  /\ IF interrupted THEN n' = Interrupted /\ pc' = "back"
                    ELSE n' = n /\ pc' = "block"
  /\ UNCHANGED <<kernel, exitStatus, listVars, want, interruptible, proc, status,
                 signalVars, owed, lost, counters>>

\* wait3's status goes to the awaited Proc, or to a local of the loop for any process.
Store(s) ==
  IF proc = NULL THEN status' = s /\ UNCHANGED heap
  ELSE heap' = [heap EXCEPT ![proc].status = s] /\ UNCHANGED status

\* wait3 returns a child that has exited and forgets it,
Wait3(p) ==
  /\ pc = "block"
  /\ kernel[p] = "zombie"
  /\ kernel' = [kernel EXCEPT ![p] = "none"]
  /\ Store(exitStatus[p])
  /\ n' = p
  /\ pc' = "back"
  /\ UNCHANGED <<exitStatus, allocated, proclist, want, interruptible, proc, signalVars,
                 owed, lost, counters>>

\* or finds that there are no children at all.
Wait3Fails ==
  /\ pc = "block"
  /\ \A p \in Pids : kernel[p] = "none"
  /\ n' = NoChild
  /\ pc' = "back"
  /\ UNCHANGED <<kernel, exitStatus, listVars, want, interruptible, proc, status,
                 signalVars, owed, lost, counters>>

Back ==
  /\ pc = "back"
  /\ slow' = FALSE
  /\ pc' = "returned"
  /\ UNCHANGED <<kernel, exitStatus, listVars, want, interruptible, proc, n, status,
                 interrupted, pending, owed, lost, counters>>

Jumped ==
  /\ pc = "jumped"
  /\ n' = Interrupted
  /\ slow' = FALSE
  /\ pc' = "returned"
  /\ UNCHANGED <<kernel, exitStatus, listVars, want, interruptible, proc, status,
                 interrupted, pending, owed, lost, counters>>

\* Fault: the status of a process other than the awaited one is not kept.
ReapedBare(x, s) == [heap EXCEPT ![x].alive = FALSE]

\* reap: mark a process as dead and attach its exit status.
Reaped(x, s) == [heap EXCEPT ![x].alive = FALSE, ![x].status = s]

\* dowait returned a process: reap it, or finish if it is the awaited one.
GotChild ==
  LET s == IF proc = NULL THEN status ELSE heap[proc].status
      dead == FirstIn(WithPid(n)) IN
  /\ pc = "returned"
  /\ n > 0
  /\ IF n = want
       THEN /\ heap' = [heap EXCEPT ![proc].alive = FALSE]
            /\ pc' = "finish"
       ELSE /\ heap' = IF dead = NULL THEN heap ELSE Reaped(dead, s)
            /\ pc' = IF want = AnyPid THEN "top" ELSE "enter"
  /\ UNCHANGED <<kernel, exitStatus, allocated, proclist, want, interruptible, proc, n,
                 status, signalVars, owed, lost, counters>>

\* EINTR.  If the wait is interruptible a pending signal is taken now, and either
\* thrown as an exception or, if it is to be ignored, dropped.
GotInterrupt ==
  /\ pc = "returned"
  /\ n = Interrupted
  /\ pending' = (pending /\ ~interruptible)
  /\ \/ pc' = "enter" /\ UNCHANGED <<want, interruptible, proc, n, status>>
     \/ interruptible /\ pending /\ Leaving
  /\ UNCHANGED <<kernel, exitStatus, listVars, slow, interrupted, owed, lost, counters>>

\* Fault: every error of wait3 is taken for an interruption.
GotNoneRetried ==
  /\ pc = "returned"
  /\ n = NoChild
  /\ pc' = "enter"
  /\ UNCHANGED <<kernel, exitStatus, listVars, want, interruptible, proc, n, status,
                 signalVars, owed, lost, counters>>

GotNone ==
  /\ pc = "returned"
  /\ n = NoChild
  /\ pc' = "fail"
  /\ UNCHANGED <<kernel, exitStatus, listVars, want, interruptible, proc, n, status,
                 signalVars, owed, lost, counters>>

\* The Proc is unlinked, its status returned and its storage freed.  (A Proc whose
\* id was taken over while it was listed may be unlinked through stale pointers.)
Finish ==
  LET x == heap[proc]
      h1 == IF x.next # NULL THEN [heap EXCEPT ![x.next].prev = x.prev] ELSE heap IN
  /\ pc = "finish"
  /\ heap' = [IF x.prev # NULL THEN [h1 EXCEPT ![x.prev].next = x.next] ELSE h1
               EXCEPT ![proc] = Blank]
  /\ proclist' = IF x.prev # NULL THEN proclist ELSE x.next
  /\ allocated' = allocated \ {proc}
  /\ owed' = owed \ {x.pid}
  /\ lost' = lost \ {x.pid}
  /\ exitStatus' = [exitStatus EXCEPT ![x.pid] = Unset]
  /\ Leaving
  /\ UNCHANGED <<kernel, signalVars, counters>>

\* fail: an error exception.
Fail ==
  /\ pc = "fail"
  /\ Leaving
  /\ UNCHANGED <<kernel, exitStatus, listVars, signalVars, owed, lost, counters>>

ShellStep ==
  \/ Top \/ Enter \/ Arm \/ Test
  \/ \E p \in Pids : Wait3(p)
  \/ Wait3Fails \/ Back \/ Jumped
  \/ GotChild \/ GotInterrupt \/ GotNone \/ Finish \/ Fail

Next ==
  \/ \E p \in Pids : Fork(p)
  \/ \E p \in Pids \cup {AnyPid}, i \in BOOLEAN : Ewait(p, i)
  \/ ShellStep
  \/ \E p \in Pids : Exit(p)
  \/ Signal \/ Deliver

\* The shell goes on whenever it can, and every child exits some day.
Fairness ==
  /\ WF_vars(ShellStep)
  /\ \A p \in Pids : WF_vars(Exit(p))

Spec == Init /\ [][Next]_vars /\ Fairness

-----------------------------------------------------------------------------
(***************************************************************************)
(* Properties.                                                             *)
(***************************************************************************)

Proc == [pid : Pids \cup {0}, status : Statuses \cup {Unset}, alive : BOOLEAN,
         next : Procs \cup {NULL}, prev : Procs \cup {NULL}]

\* Types; and slow is set only inside dowait, whose frame catcher would jump into.
TypeOK ==
  /\ kernel \in [Pids -> {"none", "running", "zombie"}]
  /\ exitStatus \in [Pids -> Statuses \cup {Unset}]
  /\ heap \in [Procs -> Proc]
  /\ allocated \subseteq Procs
  /\ proclist \in Procs \cup {NULL}
  /\ pc \in {"run", "top", "enter", "arm", "test", "block", "back", "jumped", "returned",
             "finish", "fail"}
  /\ want \in Pids \cup {AnyPid}
  /\ interruptible \in BOOLEAN
  /\ proc \in Procs \cup {NULL}
  /\ n \in Pids \cup {0, NoChild, Interrupted}
  /\ status \in Statuses \cup {Unset}
  /\ slow => pc \in {"test", "block", "back", "jumped"}
  /\ slow \in BOOLEAN /\ interrupted \in BOOLEAN /\ pending \in BOOLEAN
  /\ owed \subseteq Pids /\ lost \subseteq Pids
  /\ forks \in 0 .. MaxForks /\ signals \in 0 .. MaxSignals

\* The list is a proper doubly linked list of exactly the allocated structures, with
\* at most one per process id: unlinking in ewait never follows a stale pointer.
ListWellFormed ==
  /\ Chain[Cardinality(Procs)] = NULL
  /\ Listed = allocated
  /\ proclist # NULL => heap[proclist].prev = NULL
  /\ \A x \in Listed : heap[x].next # NULL => heap[heap[x].next].prev = x
  /\ \A x, y \in Listed : heap[x].pid = heap[y].pid => x = y

\* The list and the kernel agree: every child the kernel still has is listed as
\* alive, and what is listed as alive is such a child, or one that dowait has just
\* been given, or one whose status a signal threw away.
ListMatchesKernel ==
  /\ \A p \in Pids : kernel[p] # "none" =>
       \E x \in Listed : heap[x].pid = p /\ heap[x].alive
  /\ \A x \in Listed : heap[x].alive =>
       \/ kernel[heap[x].pid] # "none"
       \/ heap[x].pid \in lost
       \/ pc \in {"back", "returned"} /\ n = heap[x].pid

\* The process list is what it should be, whatever signals and exits interrupt.
ListExact == TypeOK /\ ListWellFormed /\ ListMatchesKernel

\* The status kept for a dead process is the one it exited with, although wait3
\* first stores it in the structure of whatever process is being waited for; and
\* ewait returns the process it was asked for.
StatusTrue ==
  /\ \A x \in Listed : ~heap[x].alive => heap[x].status = exitStatus[heap[x].pid]
  /\ pc = "finish" => /\ ~heap[proc].alive
                      /\ want # AnyPid => heap[proc].pid = want

\* "%d is not a child of this shell", and wait3's "No child processes", are said only
\* of a process the shell did not start or has already waited for.
NeverDenied ==
  pc = "fail" => IF want = AnyPid THEN owed = {} ELSE want \notin owed

\* The same, but for processes whose status a signal threw away.
NeverDeniedUnlessLost ==
  pc = "fail" => IF want = AnyPid THEN owed \subseteq lost ELSE want \notin owed \ lost

\* An ewait ends, with a status, an error or a signal's exception, once the children
\* that are left have exited, however signals interrupt it.
WaitEnds == (pc = "top") ~> (pc = "run")

=============================================================================
