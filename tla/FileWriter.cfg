SPECIFICATION Spec
CONSTANTS
  Trees <- MCTrees
  Options <- MCOptions
  BlockSize = 3
  RawBit = 4
  DataStart = 1
  FragPerMetaBlock = 2
  Width = 12
  SizeLimit = 1000
  NoFrag = NoFrag
  FileSizes = {0, 1, 2, 4, 6}
  MaxFiles = 3
CHECK_DEADLOCK FALSE
INVARIANTS
  TypeOK
  ReadsBack
  TailsPlaced
