CONSTANTS
  r1 = r1
  r2 = r2
  r3 = r3
  h1 = h1
  h2 = h2
  a1 = a1
  Requests = {r1, r2, r3}
  HVs = {h1, h2}
  AVs = {a1}
  NoVehicle = NoVehicle
  NoRequest = NoRequest
  NoTime <- NoTimeValue
  FleetController = FleetController
  RequestTime <- FleetRequestTime
  LatestPickup <- FleetLatestPickup
  PredictedService <- FleetPredicted
  RealizedService <- FleetRealized
  OddFeasible = {r1, r2, r3}
  OnlineStart <- FleetOnlineStart
  OnlineEnd <- FleetOnlineEnd
  End = 24
  EpochSec = 3
  PreassignSec = 6
  PreassignmentEnabled = TRUE
  PreassignHorizon = 30
  MaxOffers = 2
  SafeOffsets <- FleetSafeOffsets
  ResponseDelay = 1
  IdleEnabled = TRUE
  IdleSec = 6
  MinHvIdleSec = 6
  MaxSharePercent = 10
  PickupEtas = {1, 2}
  MoveTimes = {2}
  MinLeg = 1
SPECIFICATION Spec
INVARIANTS TypeOK NoHandlerRaises RideRecordsAgree CopiesAgree DeadlinesHonoured EconomicsOfTheDriver DayIsClosed
PROPERTIES EventOrder LegsStartInSession ServiceSpec PointersSpec EveryRequestCloses
