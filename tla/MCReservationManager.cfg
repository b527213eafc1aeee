CONSTANTS
  Requests = {r1, r2}
  Vehicles = {v1, v2}
  NoVehicle = NoVehicle
  NoRequest = NoRequest
  NoTime <- NoTimeValue
  Microsecond = 2
  MaxTime = 4
  MaxRecords = 3
SPECIFICATION Spec
SYMMETRY Symmetry
INVARIANTS TypeOK Audit LifetimesDisjoint ExpiredIsDue FailureLedger
PROPERTIES ClosedForever BookSpec
