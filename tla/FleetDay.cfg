SPECIFICATION FleetSpec
CONSTANTS
  v1 = v1
  v2 = v2
  v3 = v3
  h1 = h1
  h2 = h2
  r1 = r1
  r2 = r2
  r3 = r3
  r4 = r4
  n1 = n1
  n2 = n2
  n3 = n3
  None = None
  north = north
  south = south
  Vehicles = {v1, v2, v3}
  MaxTime = 3
  Requests = {r1, r2, r3, r4}
  Cars = {h1, h2, v1}
  HV = {h1, h2}
  Zones = {north, south}
  Zone <- OriginZone
  Stress <- StressValue
  StressShare = 100
  MinServiceRate = 60
  MaxTarget = 2
  MaxEdges = 4
  MaxEpochs = 2
  Fleet = {v1, v2, v3}
  Nodes = {n1, n2, n3}
  Start <- ShiftStart
  End <- ShiftEnd
  Interval = 2
  Every = 4
  MaxMoves = 2
  Etas = {3, 5}
  Services = {2}
  DayEnd = 6
  LastDispatch = 4
  DrainLimit = 10
SYMMETRY Symmetry
PROPERTIES AnswersTheWindows MatchingIsSound MovementsAreSound
CHECK_DEADLOCK FALSE
