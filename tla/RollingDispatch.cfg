SPECIFICATION FairSpec
CONSTANTS
  r1 = r1
  r2 = r2
  r3 = r3
  hv = hv
  av = av
  None = None
  Requests <- MCRequests
  Vehicles <- MCVehicles
  AV <- MCAV
  Session <- MCSession
  Start <- MCStart
  End <- MCEnd
  RequestTime <- MCRequestTime
  Excesses = {0, 1, 2}
  Gamma = 1
  Predicted = 1
  Services = {1, 4}
  Etas = {2}
  Overhead = 1
  Interval = 2
  MaxWait = 6
  DemandEnd = 2
INVARIANTS ExposureWithinBudget RidesAgree PatienceIsFair
PROPERTIES EveryoneIsAnswered
CHECK_DEADLOCK FALSE
