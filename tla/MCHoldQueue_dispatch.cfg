SPECIFICATION Spec
CONSTANTS
  own = own
  other = other
  blank = blank
  id1 = id1
  admin = admin
  t2 = t2
  Entries = {own, other, blank}
  Ids = {id1}
  Tenants = {admin, t2}
  ExecOf <- MCExecOf
  TenantOf <- MCTenantOf
  Blank = {blank}
  Default = admin
  Dispatches = {d1, d2, d3}
  MaxRuns = 2
  NoId = NoId
  NoTenant = NoTenant
  NoEntry = NoEntry
SYMMETRY Symmetry
INVARIANTS TypeOK RunsOnce CopiesBounded
PROPERTIES NoneLost ImplementsHeldWork
CHECK_DEADLOCK FALSE
