SPECIFICATION Spec
CONSTANTS
  NullNames = FALSE
  Codes <- MCCodes
  Pieces <- MCPieces
  MaxPieces = 3
  Commands <- MCCommands
  Strings <- MCStrings
  Names <- MCNames
  Values <- MCValues
  Closures <- MCClosures
  Lines <- MCLines
  NameLengths <- MCNameLengths
INVARIANTS ParsesAsWritten PrintsBack EncodingsUndone EachLineAlone
CHECK_DEADLOCK FALSE
