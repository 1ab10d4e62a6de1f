\* Three process ids and storage for as many structures.
SPECIFICATION Spec
CONSTANTS
  Pids = {1, 2, 3}
  Procs = {A, B, C}
  NULL = null
  Unset = unset
  Statuses = {0, 1}
  Recycle = FALSE
  MaxForks = 3
  MaxSignals = 2
INVARIANTS ListExact StatusTrue NeverDeniedUnlessLost
PROPERTIES WaitEnds
