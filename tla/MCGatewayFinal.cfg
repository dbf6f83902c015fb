CONSTANTS
  Runs = {r1}
  Tenants = {t1}
  NoTenant = NoTenant
  MaxRuns = 2
  MaxRunsPerTenant = 1
  AskRuns = {}
  CancelRuns = {r1}
SPECIFICATION GwSpec
CHECK_DEADLOCK FALSE
PROPERTIES
  FinalStatusIsFinal
