SPECIFICATION Spec
CONSTANTS
  s1 = s1
  s2 = s2
  Scenarios <- MCScenarios
  Registry <- MCRegistry
  Phases <- MCPhases
  Products <- MCProducts
  MaxParallel = 2
  MaxHead = 2
  MaxStarts = 2
  MaxWorkers = 4
  OrphansSurvive = TRUE
INVARIANTS OneWorkerPerScenario
CHECK_DEADLOCK FALSE
