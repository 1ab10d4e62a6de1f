------------------------------ MODULE Pipeline ------------------------------
(***************************************************************************)
(* Pipelines and backquotes (pipefork, prim_pipe and prim_backquote of     *)
(* prim-io.c, with efork, closefds and releasefd as they meet a pipe).     *)
(*                                                                         *)
(* The shell forks one child per command, and a pipe between each two.     *)
(* Every process has its own descriptor table; a pipe ends for its reader  *)
(* when no process has its write end in its table, and for its writer when *)
(* no process has its read end.  Each child applies the redirections       *)
(* around the pipeline, then moves its ends of the pipes to the numbers    *)
(* the command line names, while the shell and the other children go on.   *)
(* The commands are the environment: they read and write those numbers.    *)
(***************************************************************************)
EXTENDS FileTable, Sequences, FiniteSets

CONSTANTS Tty,         \* what 0, 1 and 2 denote in the shell
          UserFile,    \* what a redirection opens
          OutFds,      \* numbers that a pipeline names on the left of a pipe
          InFds,       \* and on the right
          UserFds,     \* numbers that redirections around it name
          MaxStages,   \* bound on the commands of a pipeline
          MaxDefers,   \* bound on the redirections around it
          Room,        \* items that a pipe holds
          MaxWrites    \* items that a command writes before it is done

WriteEnd(k) == <<"write", k>>
ReadEnd(k) == <<"read", k>>

Stages == 1 .. MaxStages

ASSUME PipelineAssumption ==
  /\ Files = {Tty, UserFile} \cup {WriteEnd(k) : k \in Stages} \cup {ReadEnd(k) : k \in Stages}
  /\ OutFds \subseteq Fd /\ InFds \subseteq Fd /\ UserFds \subseteq Fd
  /\ MaxStages \in Nat \ {0} /\ MaxDefers \in Nat /\ Room \in Nat \ {0} /\ MaxWrites \in Nat

VARIABLES
  fdt,      \* the shell's descriptor table
  deftab,   \* redirections around the pipeline, outermost first
  links,    \* the arguments outfd and infd between commands
  quoted,   \* is it a backquote?  Then the shell is the last reader.
  pc,       \* the shell: "fork", "close", "read", "wait", "done", "failed"
  stage,    \* n, counted from 1
  inpipe, p, \* variables of prim_pipe
  result,
  proc,     \* the children
  data      \* items in each pipe

vars == <<fdt, deftab, links, quoted, pc, stage, inpipe, p, result, proc, data>>
shell == <<fdt, deftab, links, quoted, pc, stage, inpipe, p, result>>

NStages == IF quoted THEN 1 ELSE Len(links) + 1
IsLast(i) == ~quoted /\ i = NStages
OutFd(i) == links[i].out
InFd(i) == links[i - 1].in

\* The shell's table inside these redirections; each opened its file at the lowest
\* free number, or is of the form >[u=].
Opened(ds) ==
  LET t[n \in 0 .. Len(ds)] ==
        IF n = 0 THEN [u \in Fd |-> IF u < 3 THEN Tty ELSE Closed]
        ELSE IF ds[n].realfd = NoFd THEN t[n - 1]
        ELSE OpenAt(t[n - 1], ds[n].realfd, UserFile)
  IN t[Len(ds)]

Link == [out : OutFds, in : InFds]
Defer == [realfd : {NoFd} \cup Fd, userfd : UserFds]
Upto(n, S) == UNION {[1 .. m -> S] : m \in 0 .. n}

NoProc == [state |-> "none", t |-> [u \in Fd |-> Closed],
           v |-> [inpipe |-> NoFd, p0 |-> NoFd, p1 |-> NoFd],
           left |-> 0, eof |-> FALSE, reused |-> FALSE, status |-> "none"]

Init ==
  /\ deftab \in Upto(MaxDefers, Defer)
  /\ \A n \in DOMAIN deftab :
       deftab[n].realfd \in {NoFd, LowestFree(Opened(SubSeq(deftab, 1, n - 1)))}
  /\ fdt = Opened(deftab)
  /\ \/ quoted = FALSE /\ links \in Upto(MaxStages - 1, Link)
     \/ quoted = TRUE /\ links = <<[out |-> 1, in |-> 0]>>
  /\ pc = "fork" /\ stage = 1
  /\ inpipe = NoFd /\ p = <<NoFd, NoFd>> /\ result = <<>>
  /\ proc = [i \in Stages |-> NoProc]
  /\ data = [k \in Stages |-> 0]

-----------------------------------------------------------------------------
(***************************************************************************)
(* The shell.                                                              *)
(***************************************************************************)
NewChild(i, t, q) ==
  proc' = [proc EXCEPT ![i] =
    [@ EXCEPT !.state = "new", !.t = t, !.left = MaxWrites, !.eof = (i = 1),
              !.v = [inpipe |-> inpipe, p0 |-> q[1], p1 |-> q[2]]]]

\* pipe(p)
MakePipe ==
  LET r == LowestFree(fdt)
      t == OpenAt(fdt, r, ReadEnd(stage))
      w == LowestFree(t)
  IN /\ r # NoFd /\ w # NoFd
     /\ p' = <<r, w>>
     /\ fdt' = OpenAt(t, w, WriteEnd(stage))

\* pipe, and the fork in pipefork, or the plain fork of the last command.
Fork ==
  /\ pc = "fork"
  /\ pc' = "close"
  /\ IF IsLast(stage) THEN UNCHANGED <<fdt, p>> ELSE MakePipe
  /\ NewChild(stage, fdt', p')
  /\ UNCHANGED <<deftab, links, quoted, stage, inpipe, result, data>>

\* The exception leaves the construct; the commands that were forked go on.
PipeFails ==
  /\ pc = "fork" /\ ~IsLast(stage)
  /\ pc' = "failed"
  /\ UNCHANGED <<fdt, deftab, links, quoted, stage, inpipe, p, result, proc, data>>

ForkFails ==
  /\ pc = "fork"
  /\ pc' = "failed"
  /\ IF IsLast(stage) THEN UNCHANGED <<fdt, p>> ELSE MakePipe
  /\ UNCHANGED <<deftab, links, quoted, stage, inpipe, result, proc, data>>

\* Fault: the write end is kept.
AfterForkOpen(t) == CloseFd(t, inpipe)

\* Fault: the read end of the pipe before is kept.
AfterForkLeaky(t) == CloseFd(t, p[2])

\* What the shell closes after a fork, the last one excepted.
AfterFork(t) == CloseFd(CloseFd(t, inpipe), p[2])

\* pids[--n], n having been counted up for every command.
FirstWaited == stage

CloseEnds ==
  /\ pc = "close"
  /\ IF IsLast(stage)
       THEN /\ fdt' = CloseFd(fdt, inpipe)
            /\ pc' = "wait"
            /\ stage' = FirstWaited
            /\ UNCHANGED inpipe
       ELSE /\ fdt' = AfterFork(fdt)
            /\ inpipe' = p[1]
            /\ IF quoted THEN pc' = "read" /\ UNCHANGED stage
                         ELSE pc' = "fork" /\ stage' = stage + 1
  /\ UNCHANGED <<deftab, links, quoted, p, result, proc, data>>

\* Processes that have a copy of end e.
ChildHolds(i, e) == proc[i].state \in {"new", "run"} /\ \E u \in Fd : proc[i].t[u] = e
ShellHolds(e) == \E u \in Fd : fdt[u] = e
Held(e) == ShellHolds(e) \/ \E i \in Stages : ChildHolds(i, e)

\* bqinput: one read, and the end of the input.
ReadBack ==
  /\ pc = "read"
  /\ \/ /\ data[1] > 0
        /\ data' = [data EXCEPT ![1] = @ - 1]
        /\ UNCHANGED <<fdt, pc>>
     \/ /\ data[1] = 0 /\ ~Held(WriteEnd(1))
        /\ fdt' = CloseFd(fdt, inpipe)
        /\ pc' = "wait"
        /\ UNCHANGED data
  /\ UNCHANGED <<deftab, links, quoted, stage, inpipe, p, result, proc>>

\* The exception leaves the construct here too: after a read error the end is closed,
\* after a signal it is not; neither time is the command waited for.
ReadFails ==
  /\ pc = "read"
  /\ pc' = "failed"
  /\ fdt' = CloseFd(fdt, inpipe) \/ UNCHANGED fdt
  /\ UNCHANGED <<deftab, links, quoted, stage, inpipe, p, result, proc, data>>

InFront(s) == <<s>> \o result

\* ewaitfor the last command first.
Wait ==
  /\ pc = "wait"
  /\ proc[stage].state = "dead"
  /\ result' = InFront(proc[stage].status)
  /\ IF stage = 1 THEN pc' = "done" /\ UNCHANGED stage
                  ELSE stage' = stage - 1 /\ UNCHANGED pc
  /\ UNCHANGED <<fdt, deftab, links, quoted, inpipe, p, proc, data>>

-----------------------------------------------------------------------------
(***************************************************************************)
(* A child until it runs its command.  c is its table t, its copy v of     *)
(* inpipe and p, and the deferrals d that are still to be applied.         *)
(***************************************************************************)

\* Fault: the end of the pipe before is not registered.
RegisteredTwo(i) == IF IsLast(i) THEN {} ELSE {"p0", "p1"}

\* The variables that pipefork registers for the fork.
Registered(i) == IF IsLast(i) THEN {} ELSE {"p0", "p1", "inpipe"}

\* releasefd(u)
Release(c, R, u) ==
  LET n == LowestFree(c.t)
      vs == {x \in R : c.v[x] = u}
      ds == {k \in DOMAIN c.d : c.d[k].realfd = u}
  IN IF vs \cup ds = {} THEN c
     ELSE [t |-> CloseFd(OpenAt(c.t, n, c.t[u]), u),
           v |-> [x \in DOMAIN c.v |-> IF x \in vs THEN n ELSE c.v[x]],
           d |-> [k \in DOMAIN c.d |-> IF k \in ds THEN [c.d[k] EXCEPT !.realfd = n]
                                       ELSE c.d[k]]]

\* One turn of remapfds.
RemapOne(c, R) ==
  LET first == Head(c.d)
      r == Release([c EXCEPT !.d = Tail(@)], R, first.userfd)
  IN [r EXCEPT !.t = IF first.realfd = NoFd THEN CloseFd(@, first.userfd)
                                            ELSE Mvfd(@, first.realfd, first.userfd)]

\* The child after efork.
Remapped(i) ==
  LET c[n \in 0 .. Len(deftab)] ==
        IF n = 0 THEN [t |-> proc[i].t, v |-> proc[i].v, d |-> deftab]
        ELSE RemapOne(c[n - 1], Registered(i))
  IN c[Len(deftab)]

\* Then inpipe is moved to the number the command reads, and p[1] to the one it writes.
InMoved(i, c) == IF i = 1 THEN c.t ELSE Mvfd(c.t, c.v.inpipe, InFd(i))

\* Fault: the child keeps the read end of its own pipe.
OutMovedOpen(i, c) == IF IsLast(i) THEN InMoved(i, c)
                      ELSE Mvfd(InMoved(i, c), c.v.p1, OutFd(i))

OutMoved(i, c) == IF IsLast(i) THEN InMoved(i, c)
                  ELSE CloseFd(Mvfd(InMoved(i, c), c.v.p1, OutFd(i)), c.v.p0)

Moves(i, c) ==
  /\ i = 1 \/ MvfdOk(c.t, c.v.inpipe, InFd(i))
  /\ IsLast(i) \/ MvfdOk(InMoved(i, c), c.v.p1, OutFd(i))

\* Does a number that the user names hit one that the child does not protect?
Reused(i, c) ==
  IF IsLast(i)
    THEN i > 1 /\ \E k \in DOMAIN deftab : deftab[k].userfd = c.v.inpipe
    ELSE \/ i > 1 /\ InFd(i) \in {c.v.p0, c.v.p1}
         \/ OutFd(i) = c.v.p0

\* It runs its command, or fails to move a descriptor and exits.
SetUp(i) ==
  /\ proc[i].state = "new"
  /\ LET c == Remapped(i) IN
     proc' = [proc EXCEPT ![i] =
       IF Moves(i, c)
         THEN [@ EXCEPT !.state = "run", !.t = OutMoved(i, c), !.reused = Reused(i, c)]
         ELSE [@ EXCEPT !.state = "dead", !.status = "failed", !.reused = Reused(i, c)]]
  /\ UNCHANGED <<shell, data>>

-----------------------------------------------------------------------------
(***************************************************************************)
(* The commands, and the kernel's pipes.                                   *)
(***************************************************************************)
Source(i) == proc[i].t[InFd(i)]
Sink(i) == proc[i].t[OutFd(i)]

Die(i, status) == proc' = [proc EXCEPT ![i].state = "dead", ![i].status = status]

\* read; it waits for an item or for the end.
Read(i) ==
  /\ proc[i].state = "run" /\ ~proc[i].eof
  /\ \/ \E k \in Stages :
          /\ Source(i) = ReadEnd(k) /\ data[k] > 0
          /\ data' = [data EXCEPT ![k] = @ - 1]
          /\ UNCHANGED proc
     \/ /\ \A k \in Stages : Source(i) = ReadEnd(k) => data[k] = 0 /\ ~Held(WriteEnd(k))
        /\ proc' = [proc EXCEPT ![i].eof = TRUE]
        /\ UNCHANGED data
  /\ UNCHANGED shell

\* write; it waits for room, and is a fatal signal if nobody can read.
Write(i) ==
  /\ proc[i].state = "run" /\ proc[i].left > 0
  /\ IF IsLast(i) \/ \A k \in Stages : Sink(i) # WriteEnd(k)
       THEN proc' = [proc EXCEPT ![i].left = @ - 1] /\ UNCHANGED data
       ELSE \E k \in Stages :
              /\ Sink(i) = WriteEnd(k)
              /\ IF Held(ReadEnd(k))
                   THEN /\ data[k] < Room
                        /\ data' = [data EXCEPT ![k] = @ + 1]
                        /\ proc' = [proc EXCEPT ![i].left = @ - 1]
                   ELSE Die(i, "sigpipe") /\ UNCHANGED data
  /\ UNCHANGED shell

\* The command has read and written all it wants,
Finish(i) ==
  /\ proc[i].state = "run" /\ proc[i].eof /\ proc[i].left = 0
  /\ Die(i, "true")
  /\ UNCHANGED <<shell, data>>

\* or stops earlier.
Quit(i) ==
  /\ proc[i].state = "run"
  /\ Die(i, "false")
  /\ UNCHANGED <<shell, data>>

Shell == Fork \/ CloseEnds \/ ReadBack \/ Wait
Command(i) == SetUp(i) \/ Read(i) \/ Write(i) \/ Finish(i)

Next == \/ Shell \/ PipeFails \/ ForkFails \/ ReadFails
        \/ \E i \in Stages : Command(i) \/ Quit(i)

Fairness == WF_vars(Shell) /\ \A i \in Stages : WF_vars(Command(i))

Spec == Init /\ [][Next]_vars /\ Fairness

-----------------------------------------------------------------------------
(***************************************************************************)
(* Properties.                                                             *)
(***************************************************************************)
TypeOK ==
  /\ fdt \in Table
  /\ pc \in {"fork", "close", "read", "wait", "done", "failed"}
  /\ stage \in Stages
  /\ inpipe \in Fd \cup {NoFd}
  /\ data \in [Stages -> 0 .. Room]
  /\ \A i \in Stages :
       /\ proc[i].state \in {"none", "new", "run", "dead"}
       /\ proc[i].t \in Table
       /\ proc[i].left \in 0 .. MaxWrites

\* What number u denotes inside the redirections.
Around(u) ==
  LET ks == {k \in DOMAIN deftab : deftab[k].userfd = u} IN
  IF ks = {} THEN (IF u < 3 THEN Tty ELSE Closed)
  ELSE IF deftab[CHOOSE k \in ks : \A j \in ks : j <= k].realfd = NoFd THEN Closed
  ELSE UserFile

Expected(i) ==
  [u \in Fd |-> IF ~IsLast(i) /\ u = OutFd(i) THEN WriteEnd(i)
                ELSE IF i > 1 /\ u = InFd(i) THEN ReadEnd(i - 1)
                ELSE Around(u)]

\* "the file descriptor outfd in the left-hand process connected by a pipe to the file
\* descriptor infd in the right-hand process" (nxes.1): a command starts with exactly
\* the pipes of its place at the numbers given, the redirections around the pipeline at
\* the others, and no copy of any other end.
StageTables ==
  \A i \in Stages : proc[i].state = "run" => proc[i].t = Expected(i)

\* That holds, unless a number that the user names is one that the child's unprotected
\* ends of pipes have.
StageTablesUnlessReused ==
  \A i \in Stages :
    ~proc[i].reused => /\ proc[i].state = "run" => proc[i].t = Expected(i)
                       /\ proc[i].status # "failed"
\* With it, every variable has its type.
TablesSound == TypeOK /\ StageTablesUnlessReused

\* When the construct returns, the shell has the descriptors it had before, every
\* child has ended, and the result has the status of each, in the order of the commands.
\* When a pipe, a fork or a read failed instead, the shell keeps no end but those in inpipe and p.
ShellRestored ==
  /\ pc = "done" =>
       /\ fdt = Opened(deftab) /\ \A i \in Stages : proc[i].state \in {"none", "dead"}
       /\ result = [i \in 1 .. NStages |-> proc[i].status]
  /\ pc = "failed" =>
       \A u \in Fd \ {inpipe, p[1], p[2]} : fdt[u] = Opened(deftab)[u]

\* No process waits for ever: commands that read to the end and write a bounded amount
\* let the pipeline end, whatever order the processes run in.
PipelineReturns == <>(pc \in {"done", "failed"} \/ \E i \in Stages : proc[i].reused)

\* What one would expect of a pipe or a fork that fails (prim-io.c:149, :158): the
\* shell has the descriptors it had,
FailureRestores == pc = "failed" => fdt = Opened(deftab)

\* and the commands that were forked before it end.
CommandsEnd ==
  <>[](\A i \in Stages : proc[i].state \in {"none", "dead"} \/ proc[i].reused)

=============================================================================
