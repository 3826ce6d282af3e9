SPECIFICATION FairSpec
CONSTANTS
  Alerts = {a1, a2}
  Users = {u1}
  Deliveries = {d1}
  Sweeps = {s1}
  Jobs = {s1}
  MaxTime = 2
  Grace = 1
  RetryInterval = 1
  Limit = 1
  MaxFailures = 1
PROPERTIES
  EveryDueEscalated
