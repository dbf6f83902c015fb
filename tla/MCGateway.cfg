CONSTANTS
  Runs = {r1}
  Tenants = {t1}
  NoTenant = NoTenant
  MaxRuns = 2
  MaxRunsPerTenant = 1
  AskRuns = {r1}
  CancelRuns = {r1}
SPECIFICATION GwFairSpec
CHECK_DEADLOCK FALSE
INVARIANTS
  TypeOK
  RemovedIsTornDown
  NoOrphanProducer
PROPERTIES
  EveryRunEnds
  EveryRowLeaves
