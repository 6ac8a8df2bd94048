SPECIFICATION Spec
CONSTANTS
  Trees <- MCTrees
  Paths <- MCPaths
  Ops = {"Stat", "ReadFile", "OpenFile", "ListDir", "ReadLink"}
  Root = "root"
  MaxSymlinkHops = 2
  Fuel = 40
  Targets <- AllTargets
CHECK_DEADLOCK FALSE
INVARIANTS
  TypeOK
  ResolvesLikeTextbook
PROPERTIES
  LookupReturns
