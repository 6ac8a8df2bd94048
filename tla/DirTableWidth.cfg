SPECIFICATION Spec
CONSTANTS
  MetaBlockMax = 4
  HeaderSize = 2
  Shrunk = {1}
  Trees <- MCTrees
  Root = 1
  DirHeader = 3
  EntryHeader = 2
  MaxPerHeader = 2
  MaxName = 2
  SizeBias = 3
  SizeWidth = 16
  DeltaWidth = 8
  MaxDirEntries = 3
  ForeignDirs <- MCForeign
  TablesStart = 1
  LeafSizes = {1, 3}
  NameLengths = {1, 2}
  MaxLeaves = 3
  ForeignNames = {1, 3}
  ForeignSizes = {0, 5, 6, 8, 9, 10, 12, 14, 21, 24}
CHECK_DEADLOCK FALSE
INVARIANT
  ListsChildren
