SPECIFICATION Spec
CONSTANTS
  Callers = {c1, c2}
  p1 = p1
  p2 = p2
  p3 = p3
  p4 = p4
  Offsets <- MCOffsets
  Blocks <- AllKindsBlocks
  Payloads <- MCPayloads
  Content <- AllKinds
  Cap <- MCCap
  None = None
  BlockSize = 3
  MetaBlockMax = 2
  ImageSize = 5
SYMMETRY Symmetric
INVARIANTS
  TypeOK
  KeysMatchMap
  WithinCap
  CacheFaithful
PROPERTIES
  NeverShrinks
  ServesLikeStore
