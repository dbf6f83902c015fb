CONSTANTS
  Events = {e1, e2}
  Fences = {f1}
  BufferSize = 1
  BatchSize = 2
  Threshold = 1
  Latched = FALSE
SPECIFICATION FairSpec
PROPERTIES EventuallyDecided FlushSyncReturns ShutdownReturns
CHECK_DEADLOCK FALSE
