SPECIFICATION Spec
CONSTANTS
  c1 = c1
  c2 = c2
  c3 = c3
  w1 = w1
  w2 = w2
  w3 = w3
  b1 = b1
  b2 = b2
  k1 = k1
  k2 = k2
  v1 = v1
  v2 = v2
  d1 = d1
  d2 = d2
  t1 = t1
  x = x
  y = y
  z = z
  Requests = {r1, r2}
  Clients = {c1, c2, c3}
  Carriers = {k1, k2}
  Warehouses = {w1, w2, w3}
  Branches = {b1, b2}
  Vehicles = {v1, v2}
  Drivers = {d1, d2}
  Routes = {t1}
  RouteStops <- StopLists
  Existing <- Rows
  Nobody = nobody
  Keep = keep
  Contracts = {x, y, z}
  ContractOrder <- Order
  Signed <- ActiveContracts
  PartySets <- Parties
  EndOfTime = 1
  Limit = 2
  None = none
  Starts <- Missions
SYMMETRY Symmetry
INVARIANTS
  ContractHistory
  ExpiryNeverDeadlocks
  PlannedConsistently
  OneWaybill
PROPERTIES
  RevivedByOverlapOnly
