---------------------------- MODULE MCDictionary ----------------------------
(***************************************************************************)
(* Dictionary with four names, every way in which they can share the start *)
(* of their search, and two values.                                        *)
(***************************************************************************)
EXTENDS Dictionary

CONSTANTS a, b

MCNames == {<<a>>, <<b>>, <<a, b>>, <<b, a>>}
MCHashes == [MCNames -> {0, 2, 7}]

=============================================================================
