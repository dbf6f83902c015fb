CONSTANTS
  Events = {e1, e2, e3}
  Fences = {f1, f2}
  BufferSize = 1
  BatchSize = 2
  Threshold = 2
  Latched = FALSE
SPECIFICATION Spec
SYMMETRY Symmetry
INVARIANTS TypeOK NoSilentLoss FenceMeansDecided ProbeEnds ClosedMeansBelowThreshold
CHECK_DEADLOCK FALSE
