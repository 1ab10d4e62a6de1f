SPECIFICATION Spec
CONSTANTS
  tty = tty
  file = file
  closed = closed
  NFds = 10
  Files <- MCFiles
  Closed = closed
  Tty = tty
  UserFile = file
  OutFds = {1}
  InFds = {0}
  UserFds = {4}
  MaxStages = 3
  MaxDefers = 1
  Room = 1
  MaxWrites = 2
CHECK_DEADLOCK FALSE
INVARIANTS StageTables FailureRestores
PROPERTY CommandsEnd
