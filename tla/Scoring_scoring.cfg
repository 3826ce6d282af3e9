SPECIFICATION MCSpec
CONSTANTS
  rule = rule
  kpi = kpi
  m1 = m1
  s1 = s1
  i1 = i1
  i2 = i2
  Requests = {r1, r2}
  RuleKeys = {rule}
  KpiKeys = {kpi}
  Perishable = {rule}
  Missions = {m1}
  Stops = {s1}
  InScope <- Scopes
  SnapshotKeys = {i1, i2}
  PeriodTypes = {"DAILY"}
  Versions <- InForce
  Starts <- Beginnings
  EndOfTime = 1
  MaxChanges = 2
  Missing = missing
SYMMETRY Symmetry
INVARIANTS
  PeriodsDisjoint
  CutoffKept
  ResultsStand
