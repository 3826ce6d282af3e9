SPECIFICATION MCSpec
CONSTANTS
  Requests = {r1, r2}
  StopIds = {s1, s2}
  Crews = {c1}
  Positions = {1, 2}
  Times = {1}
  MaxAssignments = 1
  NoCrew = NoCrew
SYMMETRY Symmetry
PROPERTIES
  StopsArriveInOrder
