SPECIFICATION Spec
CONSTANTS
  acme = acme
  h = h
  k = k
  Invalid = Invalid
  Tenants = {acme, admin}
  Admin = admin
  ExecIds = {e1}
  HashesOf <- MCHashesOf
  Genesis = Genesis
  NoHash = NoHash
  SeedSize = 2
  SignatureLists <- MCSignatureLists
  Unpaired = Unpaired
  Readers = {r1, r2}
  Applies = {a1}
  NoTenant = NoTenant
  NoId = NoId
  NoRow = NoRow
SYMMETRY ReaderSymmetry
INVARIANTS RunsSigned
