SPECIFICATION RoutesSpec
CONSTANTS
  Keys = {k1, k2, k3}
  MaxEntries = 2
  FlushAt = 2
  QueueSize = 1
  MaxRemember = 1
  MaxOpens = 2
  a1 = a1
  a2 = a2
  a3 = a3
  x = x
  y = y
  NoArc = NoArc
  p1 = p1
  p2 = p2
  q1 = q1
  s1 = s1
  RouteKeys <- RouteArcs
  Arcs <- DispatchArcs
  Aliases = {x, y}
  Alias <- ArcAlias
  CacheSize = 2
  Batches <- BatchLists
  Modes = {"queue", "demand"}
  Breakable = {a1}
  MaxEpochs <- EpochBounds
  MaxCapacity = 3
  Positions <- Points
  Cells = {"p", "q", "s"}
  Cell <- CellOf
  Capacity = 2
  MaxQueries = 6
INVARIANTS CountsTheRows BankIsAccounted EpochIsFaithful CachesAreFaithful
PROPERTIES CallsReturn
CHECK_DEADLOCK FALSE
