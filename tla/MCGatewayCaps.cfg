CONSTANTS
  Runs = {r1, r2, r3}
  MaxCreated = 3
  Tenants = {t1}
  NoTenant = NoTenant
  MaxRuns = 2
  MaxRunsPerTenant = 1
  AskRuns = {}
  CancelRuns = {}
SPECIFICATION MCSpec
SYMMETRY Symmetry
CHECK_DEADLOCK FALSE
INVARIANTS
  TenantAccounting
  CapsRespected
