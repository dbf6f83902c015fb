CONSTANTS
  Main = m
  Subagents = {}
  First = f
  Resumes = {h1}
  MaxAsks = 2
SPECIFICATION Spec
CHECK_DEADLOCK FALSE
INVARIANT
  AskNeverPanics
