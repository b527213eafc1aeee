SPECIFICATION JobsSpec
CONSTANTS
  s1 = s1
  s2 = s2
  Scenarios <- MCScenarios
  Registry <- MCRegistry
  Phases <- MCPhases
  Products <- MCProducts
  MaxParallel = 2
  MaxHead = 2
  MaxStarts = 2
  MaxWorkers = 4
  OrphansSurvive = FALSE
  Scores = {1, 2, 3}
  Unstable = Unstable
  None = None
  Splits = {validation, calibration}
  MaximumEpochs = 4
  Patience = 2
  Reproducible = TRUE
  ByHand = FALSE
  MaxLaunches = 3
  Runs = {r1, r2, r3, r4}
  Configs = {c1, c2}
  Absent = Absent
  Header = Header
  Torn = Torn
  a = a
  b = b
  c = c
  d = d
  e = e
  Events = {a, b, c, d, e}
  Time <- CutTime
  Initial <- CutInitial
  Spawns <- CutSpawns
  Cuts <- CutTimes
  MaxSaves = 3
  MaxCrashes = 2
  Orders = 6
  BucketSize = 2
  Target = 3
  MaxFailures = 3
  Resumes = {TRUE}
  MaxDeaths = 2
INVARIANTS BatchIsSound TrainingIsSound DateIsSound ResumedIsUncut
PROPERTIES LifecycleSpec BatchEnds RegistryIsSound
CHECK_DEADLOCK FALSE
