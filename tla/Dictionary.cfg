SPECIFICATION Spec
CONSTANTS
  a = a
  b = b
  Letters = {a, b}
  Names <- MCNames
  Values = {v, w}
  Hashes <- MCHashes
  NULL = NULL
  DEAD = DEAD
  MaxSize = 16
INVARIANTS SearchesExact
PROPERTIES ImplementsMap
