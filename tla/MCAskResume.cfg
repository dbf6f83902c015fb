CONSTANTS
  Main = m
  Subagents = {s}
  First = f
  Resumes = {h1, h2}
  MaxAsks = 2
SPECIFICATION MCSpec
CHECK_DEADLOCK FALSE
INVARIANTS
  TypeOK
  AnswersMatch
  PendingIsCurrent
  RequiresActionIsAnswerable
  OneAskerNeverPanics
  OrderlyAnswersAtOnce
PROPERTIES
  OrderlyPauseEndsStreams
  AsksEndWithTheRun
