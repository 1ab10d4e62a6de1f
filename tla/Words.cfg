SPECIFICATION Spec
CONSTANTS
  CharOrder <- MCCharOrder
  ReadsQuoted = FALSE
  Files <- MCFiles
  Dirs <- MCDirs
  Closed <- MCClosed
  Patterns <- MCPatterns
  Subjects <- MCSubjects
  PathPatterns <- MCPathPatterns
  Homes <- MCHomes
  Trees <- MCTrees
  Env <- MCEnv
  Seps <- MCSeps
  Chunks <- MCChunks
  MaxText = 5
  CacheSize = 3
INVARIANTS MatchExact ExtractExact GlobExact WordsExact SplitExact
CHECK_DEADLOCK FALSE
