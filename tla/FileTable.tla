------------------------------ MODULE FileTable ------------------------------
(***************************************************************************)
(* A process's file descriptor table as the kernel keeps it, and the one   *)
(* helper of fd.c that only moves entries of it.  A table maps every       *)
(* descriptor number to the open file it denotes, or to Closed.  Calls     *)
(* that allocate a number take the lowest free one (POSIX open, dup).      *)
(***************************************************************************)
EXTENDS Integers

CONSTANTS NFds,      \* the descriptor limit of the process
          Files,     \* open files a descriptor can denote
          Closed     \* what a free number denotes

ASSUME TableAssumption ==
  /\ NFds \in Nat
  /\ 4 <= NFds
  /\ Closed \notin Files

Fd == 0 .. (NFds - 1)

\* What open(), dup() and friends return on failure; es also stores it for "no fd".
NoFd == -1

Table == [Fd -> Files \cup {Closed}]

FreeFds(t) == {n \in Fd : t[n] = Closed}

LowestFree(t) ==
  IF FreeFds(t) = {} THEN NoFd
  ELSE CHOOSE n \in FreeFds(t) : \A m \in FreeFds(t) : n <= m

\* open() or dup() put file f at number n; an unsuccessful call changes nothing.
OpenAt(t, n, f) == [t EXCEPT ![n] = f]

\* close(); on a number that is not open it fails with EBADF and changes nothing.
CloseFd(t, n) == [t EXCEPT ![n] = Closed]

\* mvfd: dup2(old, new) succeeds for a number below the limit and an open source.
MvfdOk(t, old, new) ==
  old = new \/ (old \in Fd /\ new \in Fd /\ t[old] # Closed)

Mvfd(t, old, new) ==
  IF old = new THEN t ELSE [t EXCEPT ![new] = t[old], ![old] = Closed]

=============================================================================
