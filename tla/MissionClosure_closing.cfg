SPECIFICATION MCSpec
CONSTANTS
  pod = pod
  s1 = s1
  s2 = s2
  ann = ann
  bob = bob
  Editors = {ann, bob}
  NoUser = nobody
  acme = acme
  other = other
  Clients = {acme, other}
  Stages <- AcmeStages
  RequirementSets <- PodPolicies
  PolicyRequests = {p1, p2}
  MaxVersions = 2
  DocumentIds = {d1}
  DocumentTypes = {pod}
  Places = {s1, s2, none}
  NoStop = none
  NoDocument = null
  Staff = {ann, bob}
  Nobody = nobody
  DocumentRequests = {q1}
  Stops = {s1, s2}
  ClosingRequests = {c1}
CHECK_DEADLOCK FALSE
SYMMETRY Symmetry
INVARIANTS
  DraftIsLatest
  FilesAccounted
  ClosedUnderPolicy
  ClosureEvidenced
PROPERTIES
  PolicyHistory
