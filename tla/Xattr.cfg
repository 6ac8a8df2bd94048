CONSTANTS
  Images <- MCImages
  Indexes = {0, 1, 2, 3, 99}
  NoXattr = 99
  NoTable = 1000
  IndexHeader = 2
  PtrSize = 1
  PerBlock = 2
  PrefixLen <- MCPrefixLen
  MetaBlockMax = 3
  RefSize = 2
  PairCost = 3
  MaxXattrBytes = 12
SPECIFICATION Spec
INVARIANTS
  AttributesExact
  EntryAtIndex
  BoundedOutput
  SoundListReturned
