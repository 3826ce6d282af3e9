SPECIFICATION MCSpec
CONSTANTS
  Requests = {r1, r2}
  StopIds = {s1, s2}
  Crews = {c1, c2}
  Positions = {1, 2, 3}
  Times = {1, 2}
  MaxAssignments = 2
  NoCrew = NoCrew
SYMMETRY Symmetry
INVARIANTS
  CrewAccounted
  TimesInOrder
  NotifiedOnce
  DeliveredWithEvidence
  IndInv
PROPERTIES
  TimelineReplays
  RecordedTimesFinal
  RefinesProtocol
