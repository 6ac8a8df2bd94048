CONSTANTS
  Disk <- MCDisk
  BlockSize = 2
  SizeLimit = 64
  NoFrag = 99
  NoXattr = 98
  MetaBlockMax = 6
  MaxBlocks = 5
  Chunk = 2
  WordSize = 2
SPECIFICATION Spec
INVARIANTS
  DecodesInode
  ListExact
  SoundInodeDecodes
  ListBacked
