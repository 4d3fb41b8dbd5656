SPECIFICATION Spec
CONSTANTS
  ann = ann
  bob = bob
  m2m = m2m
  annBox = annBox
  bobBox = bobBox
  bobMail = bobMail
  bobMAIL = bobMAIL
  w1 = w1
  NoUser = NoUser
  NoWs = NoWs
  NoEmail = NoEmail
  NoInvite = NoInvite
  Users = {ann, m2m}
  Agent = m2m
  Tenants = {w1, annBox}
  Requests = {r1, r2}
  Shared = {w1}
  DefaultWs = defaultWs
  PersonalOf <- MCPersonalOf
  Emails = {bobMail}
  Fold <- MCFold
  Invites = {i1}
  GrantRoles = {"Viewer"}
  TargetLists = {{annBox, w1}}
  Endpoints = {"create", "delete", "remove", "users", "invite"}
SYMMETRY RequestSymmetry
INVARIANTS OwnerIsMember SandboxFound Consistent
PROPERTIES ImplementsDirectory
