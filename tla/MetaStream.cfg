SPECIFICATION Spec
CONSTANTS
  MetaBlockMax = 2
  HeaderSize = 2
  Shrunk = {1}
  RecordLengths = {0, 1, 3}
  MaxRecords = 3
  ReadLengths = {1, 3}
  MaxRead = 4
  TablesStart = 1
  ForeignAreas <- MCForeign
  MaxForeign = 3
  NoCursor = NoCursor
INVARIANTS
  TypeOK
  CursorFollowsStream
  RecordsReadBack
