SPECIFICATION Spec
CONSTANTS
  NSIG = 4
  SIGINT = 1
  SIGQUIT = 2
  SIGTERM = 3
  Arriving = {1, 2}
  Uncatchable = {}
  Settings <- MCSettings
  MaxSignals = 2
  MaxBlocked = 1
  JumpRestoresMask = FALSE
INVARIANTS NoopIgnored MaskRestored
PROPERTIES SignalsWake
