SPECIFICATION Spec
CONSTANTS
  ann = ann
  bob = bob
  m2m = m2m
  annBox = annBox
  bobBox = bobBox
  bobMail = bobMail
  bobMAIL = bobMAIL
  w1 = w1
  NoUser = NoUser
  NoWs = NoWs
  NoEmail = NoEmail
  NoInvite = NoInvite
  Users = {ann, bob}
  Agent = m2m
  Tenants = {}
  Requests = {r1, r2}
  Shared = {}
  DefaultWs = defaultWs
  PersonalOf <- MCPersonalOf
  Emails = {bobMail, bobMAIL}
  Fold <- MCFold
  Invites = {i1, i2}
  GrantRoles = {"Admin"}
  TargetLists = {{annBox}}
  Endpoints = {"invite", "accept", "revoke", "add"}
SYMMETRY RequestSymmetry
PROPERTIES ImplementsInvitationBook
