SPECIFICATION MCSpec
CONSTANTS
  loading = loading
  departure = departure
  shortage = shortage
  Requests = {r1, r2}
  Candidates = {loading, departure, shortage}
  MissionLevel = {loading, departure}
  Quantities = {shortage}
  Events <- MissionEvents
  Before <- MissionBefore
  Sweep <- MissionSweep
  DeviationTimes = {1}
  MaxExceptions = 2
SYMMETRY Symmetry
INVARIANTS
  OccurrenceOnce
  ClosedWithoutDeviation
  ClosureAccounted
PROPERTIES
  ResolutionFinal
  RefinesRegister
