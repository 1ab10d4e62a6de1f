SPECIFICATION Spec
CONSTANTS
  NullNames = FALSE
  Codes <- MCCodes
  Pieces <- OddPieces
  MaxPieces = 3
  Commands <- TwoDocuments
  Strings <- MCStrings
  Names <- MCNames
  Values <- AllValues
  Closures <- RawClosures
  Lines <- OddLines
  NameLengths <- LongNames
INVARIANTS ParsesAsWritten EncodingsUndone EachLineAlone PrintsBackAlways LexerFresh NeverAsserts NamesFit
CHECK_DEADLOCK FALSE
