CONSTANTS
  NoKey = NoKey
  Keys <- MCKeys
  Queries <- MCQueries
  FlushSize = 2
  CacheSize = 4
  Window = 2
  Block = 2
  MaxItems = 5
  MaxQuery = 2
SPECIFICATION Spec
INVARIANTS ItemsAreKept DisorderIsEarly FindIsRight RangeIsCovered FindKeysIsRight
CHECK_DEADLOCK FALSE
