SPECIFICATION Spec
CONSTANTS
  Readers = {r1}
  BlockSize = 2
  RawBit = 4
  ImageSize = 6
  Image <- MCImage
  FragCount = 5
  FragPerMetaBlock = 2
  FragTable <- MCFragTable
  SizeLimit = 16
  Inodes <- MCInodes
  Offsets <- MCOffsets
  Lengths = {0, 1, 2, 3, 5}
  Ceilings <- MCCeilings
  NoFrag = NoFrag
  Words = {0, 1, 3, 6}
  Starts = {0, 2, 15}
  Sizes = {0, 1, 2, 3, 4, 5}
  FragIdxs = {0, 1, 2, 3, 4, 5}
  FragOffsets = {0, 1}
INVARIANTS
  TypeOK
  ReadAtContract
  ReadFileExact
  OpenAgreesWithReadFile
PROPERTIES
  ReadsReturn
