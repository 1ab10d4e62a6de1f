SPECIFICATION Spec
CONSTANTS
  tty = tty
  file = file
  closed = closed
  NFds = 10
  Files <- MCFiles
  Closed = closed
  Tty = tty
  UserFile = file
  OutFds = {1, 4}
  InFds = {0, 4}
  UserFds = {1, 4}
  MaxStages = 3
  MaxDefers = 1
  Room = 1
  MaxWrites = 2
CHECK_DEADLOCK FALSE
INVARIANTS TablesSound ShellRestored
PROPERTIES PipelineReturns
