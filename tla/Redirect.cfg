\* User number 4 is one that the shell also takes for itself, 11 is beyond the
\* limit.  Two scopes can stand for different files: one opens file, the other
\* is a dup of tty.
SPECIFICATION Spec
CONSTANTS
  NFds = 10
  Files = {tty, own, file}
  Closed = closed
  Tty = tty
  ShellFile = own
  UserFiles = {file}
  UserFds = {0, 4, 11}
  Closable = {4}
  Interactive = TRUE
  GrowBy = 1
  MaxDefers = 2
  MaxFrames = 3
  MaxForks = 1
CHECK_DEADLOCK FALSE
INVARIANTS TypeOK ReservedExact OwnersApart TicketsInOrder FdMapAgreesUnlessReused
PROPERTIES ImplementsScopes ViewKept
