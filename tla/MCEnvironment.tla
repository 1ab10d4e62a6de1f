--------------------------- MODULE MCEnvironment ---------------------------
(***************************************************************************)
(* A function f with a settor and a variable x without, one plain value    *)
(* and one closure over a lexical variable.                                *)
(***************************************************************************)
EXTENDS Environment, TLC

CONSTANTS x, f, word, closure, null, c1, c2

MCNames == {x, f}
MCPlain == {word}
MCClosures == {closure}
MCFunctions == {f}
MCLexValues == {c1, c2}
LexSymmetry == Permutations(MCLexValues)
MCAnswers == {word, null}

\* Sets of names for $noexport, without and with names that hold closures.
HideX == {{}, {x}}
HideF == {{}, {f}}

=============================================================================
