SPECIFICATION Spec
CONSTANTS
  Alerts = {a1}
  Users = {u1, u2}
  Deliveries = {d1, d2}
  Sweeps = {s1, s2}
  Jobs = {s1}
  MaxTime = 3
  Grace = 1
  RetryInterval = 1
  Limit = 1
  MaxFailures = 1
SYMMETRY Symmetry
INVARIANTS
  AttemptsAccounted
PROPERTIES
  RefinesPromise
  ResolvedStaysQuiet
