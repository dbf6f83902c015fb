CONSTANTS
  Main = m
  Subagents = {s}
  First = f
  Resumes = {h1}
  MaxAsks = 2
SPECIFICATION Spec
CHECK_DEADLOCK FALSE
INVARIANT
  OrderlyNeverPanics
