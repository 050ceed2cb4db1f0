CONSTANTS
  Keys <- MCKeys
  Buffers <- MCBuffers
  MaxItems = 7
SPECIFICATION Spec
INVARIANTS PairsAreKept PartsAreIndependent
PROPERTY SortEnds
