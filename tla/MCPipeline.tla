----------------------------- MODULE MCPipeline -----------------------------
(***************************************************************************)
(* Pipeline on a table of ten descriptors.  The shell's pipes get numbers  *)
(* from 3 up, so that 4 is, in turn, each of the numbers of a child's ends. *)
(***************************************************************************)
EXTENDS Pipeline

CONSTANTS tty, file, closed

MCFiles == {tty, file} \cup {WriteEnd(k) : k \in Stages} \cup {ReadEnd(k) : k \in Stages}

=============================================================================
