------------------------------- MODULE DictMap -------------------------------
(***************************************************************************)
(* What a dictionary promises: a finite map from names to values, changed  *)
(* one name at a time. A value of NULL takes the name out.                 *)
(***************************************************************************)
CONSTANTS Names, Values

VARIABLE map

Init == map = [n \in {} |-> {}]

\* The name is bound to the value, whether it was bound before or not.
Bind(n, v) ==
  map' = [x \in DOMAIN map \cup {n} |-> IF x = n THEN v ELSE map[x]]

Unbind(n) ==
  map' = [x \in DOMAIN map \ {n} |-> map[x]]

Next == \E n \in Names : Unbind(n) \/ \E v \in Values : Bind(n, v)

Spec == Init /\ [][Next]_map

=============================================================================
