----------------------------- MODULE MCCollector -----------------------------
(***************************************************************************)
(* Collector with two variables, one of which is on both lists of roots.   *)
(***************************************************************************)
EXTENDS Collector

CONSTANTS x, y

MCRoots == <<x, y, x>>

=============================================================================
