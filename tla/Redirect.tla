------------------------------ MODULE Redirect ------------------------------
(***************************************************************************)
(* How the shell implements redirection scopes (fd.c, the redir functions  *)
(* of prim-io.c, the input and history descriptors of input.c, and the     *)
(* descriptor part of efork in proc.c).                                    *)
(*                                                                         *)
(* In the shell itself a redirection is only deferred: the file is opened  *)
(* at whatever number is free and deftab records which user number it      *)
(* stands for.  Commands evaluated "in child" (after a fork, or under      *)
(* exec) move descriptors directly.  closefds applies deftab after a fork  *)
(* and closes the shell's own descriptors, which it finds on a list of     *)
(* pointers to the variables that hold them.  The module follows one       *)
(* process: Fork continues as the child, since what the child does to its  *)
(* table the parent never sees.                                            *)
(***************************************************************************)
EXTENDS FileTable, Sequences, FiniteSets

CONSTANTS UserFds,     \* numbers that redirections name
          Tty,         \* what 0, 1 and 2 denote when the shell starts
          UserFiles,   \* files that redirections open
          ShellFile,   \* scripts and the history file, opened for the shell itself
          Interactive, \* does the first shell read commands from descriptor 0?
          Closable,    \* numbers that >[u=] or the end of an input may close
          GrowBy,      \* how many entries deftab grows by (10 in fd.c)
          MaxDefers, MaxFrames, MaxForks   \* bounds of the model

ASSUME RedirectAssumption ==
  /\ UserFds \subseteq Nat
  /\ Files = {Tty, ShellFile} \cup UserFiles
  /\ Closable \subseteq Nat
  /\ Interactive \in BOOLEAN
  /\ GrowBy \in Nat \ {0}
  /\ MaxDefers \in Nat /\ MaxFrames \in Nat /\ MaxForks \in Nat

VARIABLES
  fdt,        \* the kernel's table of this process
  deftab,     \* deferred redirections [realfd, userfd], oldest first; Len is defcount
  defmax,     \* entries allocated for deftab; also names the current allocation
  reserved,   \* pointers on the registered descriptor list
  historyfd,
  frames,     \* the C frames that hold a ticket (redir) or an Input (runfd), outermost first
  forks,      \* forks between the first shell and this process
  pc,         \* "run", or where a fork or exec stands
  at,         \* deferrals that remapfds has already applied
  orphans     \* open numbers that a failed direct redirection left without an owner

vars == <<fdt, deftab, defmax, reserved, historyfd, frames, forks, pc, at, orphans>>

UNREGISTERED == -1

(***************************************************************************)
(* Pointers.  The list holds addresses of int variables; an address is     *)
(* written <<kind, block, index>>.  Growing deftab moves its entries.      *)
(***************************************************************************)
Slot(m, i) == <<"deftab", m, i>>
HistoryPtr == <<"history", 0, 0>>
InputPtr(k) == <<"input", 0, k>>

Dots == {k \in DOMAIN frames : frames[k].kind = "dot"}

\* Reserved variables that hold descriptor number u.
SlotsHolding(R, u) ==
  {i \in DOMAIN deftab : Slot(defmax, i) \in R /\ deftab[i].realfd = u}
InputsHolding(R, u) == {k \in Dots : InputPtr(k) \in R /\ frames[k].n = u}

\* Fault: initinput does not register historyfd.
HistoryForgotten(R, u) == FALSE

HistoryHolds(R, u) == HistoryPtr \in R /\ historyfd = u

Holds(R, u) ==
  SlotsHolding(R, u) # {} \/ InputsHolding(R, u) # {} \/ HistoryHolds(R, u)

(***************************************************************************)
(* releasefd(u) with list R: a reserved variable that holds u gets a dup   *)
(* of it, and u is closed.  A failed dup leaves -1 in the variable, and    *)
(* the close is not reached.                                               *)
(***************************************************************************)
DupFails(t, R, u) == Holds(R, u) /\ FreeFds(t) = {}

Released(t, R, u) ==
  IF Holds(R, u) /\ FreeFds(t) # {}
    THEN CloseFd(OpenAt(t, LowestFree(t), t[u]), u)
    ELSE t

MoveHolders(t, R, u) ==
  LET n == LowestFree(t) IN
  /\ deftab' = [i \in DOMAIN deftab |->
                  IF i \in SlotsHolding(R, u)
                    THEN [deftab[i] EXCEPT !.realfd = n] ELSE deftab[i]]
  /\ frames' = [k \in DOMAIN frames |->
                  IF k \in InputsHolding(R, u)
                    THEN [frames[k] EXCEPT !.n = n] ELSE frames[k]]
  /\ historyfd' = IF HistoryHolds(R, u) THEN n ELSE historyfd

\* dodeferred after its releasefd: can it finish, and the table if it does.
Fits(t, R, real, u) ==
  ~DupFails(t, R, u) /\ (real # NoFd => MvfdOk(Released(t, R, u), real, u))

Applied(t, R, real, u) ==
  IF real = NoFd THEN CloseFd(Released(t, R, u), u)
                 ELSE Mvfd(Released(t, R, u), real, u)

-----------------------------------------------------------------------------
(***************************************************************************)
(* Entering and leaving scopes.                                            *)
(***************************************************************************)

\* A script is opened before anything else, so at 3.
Init ==
  /\ fdt = [n \in Fd |-> IF n < 3 THEN Tty
                         ELSE IF n = 3 /\ ~Interactive THEN ShellFile ELSE Closed]
  /\ frames = <<[kind |-> "dot", n |-> IF Interactive THEN 0 ELSE 3]>>
  /\ deftab = <<>> /\ defmax = 0
  /\ historyfd = NoFd
  /\ reserved = {HistoryPtr, InputPtr(1)}
  /\ forks = 0 /\ pc = "run" /\ at = 0 /\ orphans = {}

\* Bound: after a failed move the process only unwinds, forks or execs.
Running == pc = "run" /\ Len(frames) + forks < MaxFrames /\ orphans = {}

Enter(kind, n) == frames' = Append(frames, [kind |-> kind, n |-> n])

\* Fault: the table is grown one entry too late.
GrowsLate(n) == n > defmax

\* Is the table full with n entries?
Grows(n) == n >= defmax

Slots(m, n) == {Slot(m, j) : j \in 1 .. n}

\* Fault: the entries are not registered again after they moved.
NotMoved(R, m, n) == R

\* n entries move to a block of m: unregistered, and registered at the new addresses.
Reregistered(R, m, n) == (R \ Slots(defmax, n)) \cup Slots(m, n)

\* pushdefer(TRUE, real, u), t being the table after the source was opened.
Defer(t, real, u) ==
  LET i == Len(deftab)
      m == IF Grows(i) THEN defmax + GrowBy ELSE defmax IN
  /\ i < MaxDefers
  /\ fdt' = t
  /\ defmax' = m
  /\ deftab' = Append(deftab, [realfd |-> real, userfd |-> u])
  /\ reserved' = Reregistered(reserved, m, i) \cup {Slot(m, i + 1)}
  /\ Enter("redir", i)
  /\ UNCHANGED <<historyfd, forks, pc, at, orphans>>

\* Fault: a direct redirection returns a ticket as well.
MovedTicketWrong == Len(deftab) - 1

MovedTicket == UNREGISTERED

\* pushdefer(FALSE, real, u): the descriptor is moved now.
MoveNow(t, real, u) ==
  LET n == LowestFree(t) IN
  /\ Fits(t, reserved, real, u)
  /\ fdt' = Applied(t, reserved, real, u)
  /\ deftab' = [i \in DOMAIN deftab |->
                  IF i \in SlotsHolding(reserved, u)
                    THEN [deftab[i] EXCEPT !.realfd = n] ELSE deftab[i]]
  /\ frames' = Append([k \in DOMAIN frames |->
                         IF k \in InputsHolding(reserved, u)
                           THEN [frames[k] EXCEPT !.n = n] ELSE frames[k]],
                      [kind |-> "redir", n |-> MovedTicket])
  /\ historyfd' = IF HistoryHolds(reserved, u) THEN n ELSE historyfd
  /\ orphans' = orphans \ {u}
  /\ UNCHANGED <<defmax, reserved, forks, pc, at>>

\* The same, when dup or dup2 fails: no ticket was set, so the handler in redir
\* closes nothing and the source descriptor stays open.
MoveFails(t, real, u) ==
  LET left == {n \in {real} : n # NoFd}
                \cup {n \in {u} : DupFails(t, reserved, u)} IN
  /\ ~Fits(t, reserved, real, u)
  /\ fdt' = Released(t, reserved, u)
  /\ MoveHolders(t, reserved, u)
  /\ orphans' = orphans \cup left
  /\ UNCHANGED <<defmax, reserved, forks, pc, at>>

\* redir: eval_inchild may be set in any scope, since exec sets it without a fork.
Redir(t, real, u) ==
  Defer(t, real, u) \/ MoveNow(t, real, u) \/ MoveFails(t, real, u)

\* %open and its relatives: the file is opened at the lowest free number.
OpenFile(u, f) ==
  /\ Running
  /\ FreeFds(fdt) # {}
  /\ Redir(OpenAt(fdt, LowestFree(fdt), f), LowestFree(fdt), u)

\* Fault: oldest entry first.
FdMapOldest(u) ==
  LET scan[i \in 0 .. Len(deftab)] ==
        IF i = 0 THEN u
        ELSE IF scan[i - 1] = deftab[i].userfd THEN deftab[i].realfd ELSE scan[i - 1]
  IN scan[Len(deftab)]

\* fdmap: newest entry first, and every entry below a match is tried on the result.
FdMap(u) ==
  LET scan[i \in 0 .. Len(deftab)] ==
        IF i = Len(deftab) THEN u
        ELSE IF scan[i + 1] = deftab[i + 1].userfd THEN deftab[i + 1].realfd
             ELSE scan[i + 1]
  IN scan[0]

\* %dup u o: a dup of whatever fdmap says o is; it fails if that is not open.
DupFd(u, o) ==
  LET s == FdMap(o)
      n == LowestFree(fdt) IN
  /\ Running
  /\ s \in Fd
  /\ fdt[s] # Closed
  /\ FreeFds(fdt) # {}
  /\ Redir(OpenAt(fdt, n, fdt[s]), n, u)

\* %close u
CloseUser(u) ==
  /\ Running
  /\ u \in Closable
  /\ Redir(fdt, NoFd, u)

\* Fault: the descriptor behind a deferral stays open.
UndeferredOpen == fdt

\* The table after undefer of the last entry.
Undeferred == CloseFd(fdt, deftab[Len(deftab)].realfd)

Top == frames[Len(frames)]

\* undefer at the end of redir, on return or in its exception handler.
LeaveRedir ==
  /\ pc = "run"
  /\ frames # <<>>
  /\ Top.kind = "redir"
  /\ IF Top.n = UNREGISTERED
       THEN UNCHANGED <<fdt, deftab, reserved>>
       ELSE /\ fdt' = Undeferred
            /\ reserved' = reserved \ {Slot(defmax, Len(deftab))}
            /\ deftab' = SubSeq(deftab, 1, Len(deftab) - 1)
  /\ frames' = SubSeq(frames, 1, Len(frames) - 1)
  /\ UNCHANGED <<defmax, historyfd, forks, pc, at, orphans>>
-----------------------------------------------------------------------------
(***************************************************************************)
(* The shell's own descriptors.                                            *)
(***************************************************************************)

\* A script is opened by `.' and run: runfd registers its Input.
Dot ==
  /\ Running
  /\ FreeFds(fdt) # {}
  /\ fdt' = OpenAt(fdt, LowestFree(fdt), ShellFile)
  /\ Enter("dot", LowestFree(fdt))
  /\ reserved' = reserved \cup {InputPtr(Len(frames) + 1)}
  /\ UNCHANGED <<deftab, defmax, historyfd, forks, pc, at, orphans>>

\* fdfill reads end of file from the innermost input, closes it and marks it.
EndOfInput ==
  /\ pc = "run"
  /\ \E k \in Dots :
       /\ \A j \in Dots : j <= k
       /\ frames[k].n # NoFd
       /\ frames[k].n >= 3 \/ frames[k].n \in Closable
       /\ fdt' = CloseFd(fdt, frames[k].n)
       /\ frames' = [frames EXCEPT ![k].n = NoFd]
  /\ UNCHANGED <<deftab, defmax, reserved, historyfd, forks, pc, at, orphans>>

\* fdcleanup, when an input other than the shell's first one is done.
LeaveDot ==
  /\ pc = "run"
  /\ frames # <<>>
  /\ Top.kind = "dot"
  /\ forks > 0 \/ Len(frames) > 1
  /\ fdt' = IF Top.n = NoFd THEN fdt ELSE CloseFd(fdt, Top.n)
  /\ reserved' = reserved \ {InputPtr(Len(frames))}
  /\ frames' = SubSeq(frames, 1, Len(frames) - 1)
  /\ UNCHANGED <<deftab, defmax, historyfd, forks, pc, at, orphans>>

\* loghistory opens the history file the first time it has a line to log.  Only the
\* first shell is taken to read interactively.
LogHistory ==
  /\ pc = "run"
  /\ forks = 0
  /\ historyfd = NoFd
  /\ FreeFds(fdt) # {}
  /\ historyfd' = LowestFree(fdt)
  /\ fdt' = OpenAt(fdt, LowestFree(fdt), ShellFile)
  /\ UNCHANGED <<deftab, defmax, reserved, frames, forks, pc, at, orphans>>

\* sethistory, run when $history is assigned.
SetHistory ==
  /\ pc = "run"
  /\ historyfd # NoFd
  /\ fdt' = CloseFd(fdt, historyfd)
  /\ historyfd' = NoFd
  /\ UNCHANGED <<deftab, defmax, reserved, frames, forks, pc, at, orphans>>

-----------------------------------------------------------------------------
(***************************************************************************)
(* efork and closefds.                                                     *)
(***************************************************************************)

\* efork(TRUE), seen from the child.
Fork ==
  /\ pc = "run"
  /\ forks < MaxForks
  /\ forks' = forks + 1
  /\ pc' = "remapFork"
  /\ UNCHANGED <<fdt, deftab, defmax, reserved, historyfd, frames, at, orphans>>

\* efork(FALSE) of forkexec: an external program run by an in-child command.
Exec ==
  /\ pc = "run"
  /\ pc' = "remapExec"
  /\ UNCHANGED <<fdt, deftab, defmax, reserved, historyfd, frames, forks, at, orphans>>

Remapping == pc \in {"remapFork", "remapExec"}

\* One turn of the loop of remapfds.  If dodeferred fails its exception leaves
\* the loop, and the process unwinds through frames of the shell it came from.
RemapOne ==
  LET d == deftab[at + 1]
      R == reserved \ {Slot(defmax, at + 1)}
      ok == Fits(fdt, R, d.realfd, d.userfd) IN
  /\ Remapping
  /\ at < Len(deftab)
  /\ reserved' = R
  /\ MoveHolders(fdt, R, d.userfd)
  /\ fdt' = IF ok THEN Applied(fdt, R, d.realfd, d.userfd) ELSE Released(fdt, R, d.userfd)
  /\ at' = IF ok THEN at + 1 ELSE at
  /\ pc' = IF ok THEN pc ELSE "torn"
  /\ orphans' = IF ok THEN orphans \ {d.userfd} ELSE orphans
  /\ UNCHANGED <<defmax, forks>>

\* Fault: the history descriptor is missed.
RegisteredInputs == {frames[k].n : k \in {j \in Dots : InputPtr(j) \in reserved}}

\* What the registered variables hold once deftab is applied.
Registered == {frames[k].n : k \in {j \in Dots : InputPtr(j) \in reserved}}
                \cup (IF HistoryPtr \in reserved THEN {historyfd} ELSE {})

\* The rest of closefds, setsigdefaults and newchildcatcher.  The frames of the
\* parent are not returned to; its Inputs stay registered with fd -1, which
\* nothing matches, and are dropped here with their frames.
CloseReserved ==
  /\ Remapping
  /\ at = Len(deftab)
  /\ fdt' = [n \in Fd |-> IF n >= 3 /\ n \in Registered THEN Closed ELSE fdt[n]]
  /\ historyfd' = NoFd
  /\ frames' = <<>>
  /\ deftab' = <<>>
  /\ at' = 0
  /\ reserved' = {HistoryPtr}
  /\ pc' = IF pc = "remapFork" THEN "run" ELSE "image"
  /\ UNCHANGED <<defmax, forks, orphans>>

Next ==
  \/ \E u \in UserFds, f \in UserFiles : OpenFile(u, f)
  \/ \E u \in UserFds, o \in UserFds : DupFd(u, o)
  \/ \E u \in UserFds : CloseUser(u)
  \/ LeaveRedir
  \/ Dot \/ EndOfInput \/ LeaveDot
  \/ LogHistory \/ SetHistory
  \/ Fork \/ Exec \/ RemapOne \/ CloseReserved

Spec == Init /\ [][Next]_vars

-----------------------------------------------------------------------------
(***************************************************************************)
(* Properties.                                                             *)
(***************************************************************************)

Deferral == [realfd : Fd \cup {NoFd}, userfd : UserFds]
FrameType == [kind : {"redir", "dot"}, n : Int]

\* Every variable holds a value of its C type that the code can store in it.
TypeOK ==
  /\ fdt \in Table
  /\ deftab \in Seq(Deferral)
  /\ defmax \in Nat
  /\ Len(deftab) <= defmax
  /\ historyfd \in Fd \cup {NoFd}
  /\ frames \in Seq(FrameType)
  /\ \A k \in Dots : frames[k].n \in Fd \cup {NoFd}
  /\ forks \in Nat
  /\ pc \in {"run", "remapFork", "remapExec", "image", "torn"}
  /\ at \in 0 .. Len(deftab)
  /\ orphans \subseteq Fd

Pending == (at + 1) .. Len(deftab)

\* The list holds the address of the history descriptor, of every pending deferral
\* in the current allocation of deftab, and of every live Input: no address that
\* an unregisterfd would not find (a panic), and none into a freed block or frame.
ReservedExact ==
  reserved = {HistoryPtr} \cup {InputPtr(k) : k \in Dots}
               \cup {Slot(defmax, i) : i \in IF pc = "torn" THEN Pending \ {at + 1} ELSE Pending}

\* No two of the shell's variables ever hold the same descriptor, each number held
\* is open, and none of them is one that lost its owner: closing one can never
\* close a file under another.
OwnersApart ==
  /\ \A i \in Pending :
       LET n == deftab[i].realfd IN
       n # NoFd => /\ fdt[n] # Closed
                   /\ n # historyfd
                   /\ \A j \in Pending \ {i} : deftab[j].realfd # n
                   /\ \A k \in Dots : frames[k].n # n
                   /\ n \notin orphans
  /\ \A k \in Dots :
       LET n == frames[k].n IN
       n # NoFd => /\ fdt[n] # Closed
                   /\ n # historyfd
                   /\ \A j \in Dots \ {k} : frames[j].n # n
                   /\ n \notin orphans
  /\ historyfd # NoFd => fdt[historyfd] # Closed /\ historyfd \notin orphans

\* Frames of redir that have a deferral to undo.
Ticketed == {k \in DOMAIN frames : frames[k].kind = "redir" /\ frames[k].n # UNREGISTERED}

\* The assertions of undefer: the frames of redir hold the tickets of the entries of
\* deftab in the order in which they were pushed, so the innermost scope always
\* pops the last entry, whatever was run or failed inside it.
TicketsInOrder ==
  pc = "run" =>
    /\ {frames[k].n : k \in Ticketed} = 0 .. (Len(deftab) - 1)
    /\ \A j, k \in Ticketed : j < k => frames[j].n < frames[k].n

\* Numbers that are open for the shell and not for the user.
Hidden ==
  {deftab[i].realfd : i \in Pending}
    \cup {n \in {frames[k].n : k \in Dots} \cup {historyfd} : n >= 3} \cup orphans

FileAt(n) == IF n \in Fd THEN fdt[n] ELSE Closed

Base == [n \in Fd |-> IF n \in Hidden THEN Closed ELSE fdt[n]]

Layers ==
  [i \in 1 .. (Len(deftab) - at) |->
     [fd |-> deftab[at + i].userfd, file |-> FileAt(deftab[at + i].realfd)]]

Scopes == INSTANCE RedirScopes WITH base <- Base, layers <- Layers

\* The deferral table, the private descriptors and the steps of closefds implement
\* a stack of redirection scopes.
ImplementsScopes == Scopes!ScopesSpec

\* From the fork to the last line of closefds no number changes what it denotes to
\* the user: the process starts with the files its scopes gave it and with nothing
\* of the shell's.
ViewKept ==
  [][(Remapping \/ pc' = "remapFork" \/ pc' = "remapExec")
       => \A u \in Fd : Scopes!View(u)' = Scopes!View(u)]_vars

\* Numbers a user can mean: those of a scope, and those the shell does not use itself.
Nameable == {u \in UserFds : u \notin Hidden \/ \E d \in DOMAIN deftab : deftab[d].userfd = u}

\* fdmap "turns a deferred (user) fd into a real fd": what the shell itself reads,
\* writes or dups as number u is what a command run here would find there.
FdMapAgrees ==
  pc = "run" => \A u \in Nameable : FileAt(FdMap(u)) = Scopes!View(u)

\* Some descriptor behind a deferral has the number an earlier deferral stands for.
Reused ==
  \E i, j \in DOMAIN deftab : i < j /\ deftab[j].realfd = deftab[i].userfd

\* fdmap is right as long as no number is reused like that.
FdMapAgreesUnlessReused ==
  pc = "run" /\ ~Reused => \A u \in Nameable : FileAt(FdMap(u)) = Scopes!View(u)

=============================================================================
