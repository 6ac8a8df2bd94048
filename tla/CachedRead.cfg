SPECIFICATION CachedSpec
CONSTANTS
  Readers = {r1, r2}
  BlockSize = 2
  RawBit = 4
  ImageSize = 6
  SizeLimit = 16
  Image <- MCImage
  FragCount = 1
  FragPerMetaBlock = 2
  FragTable <- MCFragTable
  Inodes <- MCInodes
  Offsets = {0, 5}
  Lengths = {4}
  Ceilings <- MCCeilings
  Blocks <- MCBlocks
  CacheOffsets = {0, 1, 3, 4, 5}
  Payloads = {"a", "b", "tail", "short"}
  Content <- MCContent
  Bytes <- MCBytes
  Cap <- MCCap
  MetaBlockMax = 2
  NoFrag = NoFrag
  None = None
PROPERTIES
  ReadsLikeUncached
  BlocksArrive
