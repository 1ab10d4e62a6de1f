----------------------------- MODULE RedirScopes -----------------------------
(***************************************************************************)
(* What redirection promises the user of the shell.  A command runs in a   *)
(* stack of redirection scopes over a base table: a scope replaces what    *)
(* one descriptor number denotes, the innermost scope that names a number  *)
(* wins, and leaving a scope uncovers what was there before.  Scopes are   *)
(* not applied to the shell's own table: a process that is about to run    *)
(* on its own settles them into its base table, from the outermost one.    *)
(***************************************************************************)
EXTENDS Integers, Sequences

CONSTANTS Fd,        \* descriptor numbers a process can have open
          UserFds,   \* numbers that redirections name
          Files, Closed

VARIABLES base,      \* what a number denotes outside every scope
          layers     \* the open scopes, outermost first

scopeVars == <<base, layers>>

Scope == [fd : UserFds, file : Files \cup {Closed}]

Layered(u) == {i \in DOMAIN layers : layers[i].fd = u}

\* What number u denotes to a command run here.
View(u) ==
  IF Layered(u) # {}
    THEN layers[CHOOSE i \in Layered(u) : \A j \in Layered(u) : j <= i].file
    ELSE IF u \in Fd THEN base[u] ELSE Closed

Innermost(s) == s[Len(s)]

ScopesInit ==
  /\ base \in [Fd -> Files \cup {Closed}]
  /\ layers = <<>>

\* A command is entered under a redirection of u to f (Closed for >[u=]).
Redirect ==
  /\ UNCHANGED base
  /\ layers' # <<>>
  /\ Innermost(layers') \in Scope
  /\ layers' = Append(layers, Innermost(layers'))

\* The command is left, normally or by an exception.
Leave ==
  /\ layers # <<>>
  /\ layers' = SubSeq(layers, 1, Len(layers) - 1)
  /\ UNCHANGED base

\* A process that will not return changes its own table.
Rebase ==
  /\ UNCHANGED layers
  /\ \E u \in Fd : /\ base'[u] \in Files \cup {Closed}
                   /\ base' = [base EXCEPT ![u] = base'[u]]

\* A process that has started to run on its own applies its outermost scope; a number
\* that no file can be open at only ever has a scope that closes it.
Settle ==
  /\ layers # <<>>
  /\ layers[1].fd \in Fd \/ layers[1].file = Closed
  /\ base' = [base EXCEPT ![layers[1].fd] = layers[1].file]
  /\ layers' = Tail(layers)

ScopesNext == Redirect \/ Leave \/ Rebase \/ Settle

ScopesSpec == ScopesInit /\ [][ScopesNext]_scopeVars

=============================================================================
