CONSTANTS
  Foreign <- MCForeign
  Options <- MCOptions
  BlockSize = 4
  MaxBlockSize = 8
  MaxBlockLog = 3
  SuperblockSize = 4
  OptionsSize = 2
  MetaBlockMax = 5
  TablesLen = 3
  MaxCloses = 2
  Streams <- MCStreams
  MinDictCap = 3
  DefaultDict = 20
SPECIFICATION BlockSpec
INVARIANTS
  AllOrNothing
  WholeOrNothing
  SoundStreamDecodes
  WrittenReadsBack
