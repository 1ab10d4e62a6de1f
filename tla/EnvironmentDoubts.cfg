SPECIFICATION Spec
CONSTANTS
  x = x
  f = f
  word = word
  closure = closure
  null = null
  Names <- MCNames
  Plain <- MCPlain
  Closures <- MCClosures
  Capturing <- MCFunctions
  NULL <- null
  c1 = c1
  c2 = c2
  LexValues <- MCLexValues
  Settable <- MCFunctions
  Answers <- MCAnswers
  Commanding = TRUE
  HideSets <- HideF
  MaxDepth = 3
SYMMETRY LexSymmetry
INVARIANTS EnvironmentTrue
