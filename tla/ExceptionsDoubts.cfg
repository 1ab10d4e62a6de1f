SPECIFICATION Spec
CONSTANTS
  Scopes = {"loop", "redir", "input", "catch"}
  Thrown = {"return", "break", "retry", "error"}
  MaxEvalDepth = 3
  MaxFrames = 5
CHECK_DEADLOCK FALSE
INVARIANTS HandlerFound ChildContained
