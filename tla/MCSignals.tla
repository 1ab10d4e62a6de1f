------------------------------ MODULE MCSignals ------------------------------
(***************************************************************************)
(* Signals with two signals that arrive: SIGINT, and one that the default  *)
(* settings ignore. Programs assign two other settings to $signals.        *)
(***************************************************************************)
EXTENDS Signals

MCSettings ==
  {[s \in Signal |-> IF s = 1 THEN "catch" ELSE "ignore"],
   [s \in Signal |-> IF s = 1 THEN "noop" ELSE "catch"]}

=============================================================================
