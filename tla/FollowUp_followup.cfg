SPECIFICATION FollowUpSpec
CONSTANTS
  ann = ann
  bob = bob
  dan = dan
  e1 = e1
  d1 = d1
  d2 = d2
  a1 = a1
  a2 = a2
  c1 = c1
  c2 = c2
  t1 = t1
  t2 = t2
  m1 = m1
  p1 = p1
  k1 = k1
  k2 = k2
  all = all
  Requests = {r1, r2, r3}
  Users = {ann, bob, dan}
  Tickets = {t1, t2}
  Clients = {k1, k2}
  Everywhere = all
  ReadScopes <- Scopes
  Drivers = {dan, bob}
  DriverMissions <- Missions
  Images <- Pictures
  Assigned <- Ticket
  Nobody = nobody
  Exceptions = {e1}
  Severities = {"HIGH"}
  Documents = {p1}
  RootCauses = {x1}
  Decisions = {d1, d2}
  Actions = {a1, a2}
  Alerts = {l1}
  Categories = {c1, c2}
  DecidedOn <- Decision
  Undertaken <- Action
  Classified = {c1}
SYMMETRY Symmetry
INVARIANTS
  AssigneeOnRecord
  FollowUpReplays
