SPECIFICATION Spec
CONSTANTS
  NFds = 8
  Files = {tty, own, file}
  Closed = closed
  Tty = tty
  ShellFile = own
  UserFiles = {file}
  UserFds = {0, 1, 4}
  Closable = {1, 4}
  Interactive = TRUE
  GrowBy = 1
  MaxDefers = 2
  MaxFrames = 3
  MaxForks = 1
CHECK_DEADLOCK FALSE
INVARIANTS FdMapAgrees
PROPERTIES ViewKept
