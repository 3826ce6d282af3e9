SPECIFICATION Spec
CONSTANTS
  ann = ann
  bob = bob
  eve = eve
  old = old
  new = new
  Requests = {r1, r2, r3}
  Users = {ann, bob, eve}
  Passwords = {old, new}
  Roles <- RoleCodes
  PermissionSets <- Choices
  Drivers = {d1}
  Clients = {c1}
  None = none
  Accounts <- People
  RolesAtStart <- AdminRole
  GrantsAtStart <- Admins
SYMMETRY Symmetry
INVARIANTS
  AccessAudited
  SessionsEnded
PROPERTIES
  ExchangedOnce
  LinkTakenByOverlapOnly
