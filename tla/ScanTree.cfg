CONSTANTS
  Paths <- MCPaths
  Data = {"x", "y"}
  Targets <- MCTargets
  MaxEdits = 2
SPECIFICATION Spec
INVARIANTS
  UndisturbedIncluded
  NodesWitnessed
  ImageIntact
