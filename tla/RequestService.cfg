SPECIFICATION Spec
CONSTANTS
  CoordBits = 8
  DropBits = 2
  CacheSize = 4
  Window = 2
  Block = 2
  NoKey = NoKey
  Indexes <- MCIndexes
  LocaleNames <- MCLocaleNames
  LexicalKey <- MCLexicalKey
  Members <- MCMembers
  MaxMembers = 4
  Searches <- MCSearches
  MaxMatches = 2
  MaxAreas = 3
  MaxAnswers = 2
  Loaders = {t1, t2}
  PointOf <- MCPointOf
  MaxPoints = 2
  Scripts <- MCScripts
  Enabled <- MCEnabled
  MaxContentLength = 2
  ReadSize = 4
  ReadLimit = 7
  SendErrors = 2
  AnswerLengths = {3}
  BufferLength = 4
  IntBits = 10
  LongBits = 12
  Tiles <- MCTiles
  Calls <- MCCalls
  Pages <- MCPages
INVARIANTS
  TileIsComplete
  
  ScoresAreRight
  PartsAreMet
  SegmentsAreKept
  OpenEndsAreOdd
  CacheIsConsistent
  FramesAreRequests
  AnswersAreWhole
  TextIsWhole
