SPECIFICATION Spec
CONSTANTS
  Pids = {1, 2, 3}
  Procs = {A, B, C}
  NULL = null
  Unset = unset
  Statuses = {0, 1}
  Recycle = TRUE
  MaxForks = 4
  MaxSignals = 1
INVARIANTS NeverDenied
