CONSTANTS
  NoKey = NoKey
  NodeIds <- MCNodeIds
  WayIds = {1, 2}
  RelationIds = {1, 2}
  Place <- MCPlace
  References <- MCReferences
  Strings = {2}
  ShapeParts <- MCShapeParts
  ShapePlaces <- MCShapePlaces
  ShapeTags = 4
  CountLimit = 4
  FlushSize = 2
  CacheSize = 2
  MaxRefs = 2
  MaxMembers = 1
  MaxBytes = 8
  MaxShapes = 2
SPECIFICATION Spec
INVARIANTS TypeOK RecordsAreTheirOwn WaysHaveTheirPoints MembersAreTheirs ShapesAreWhole AttributesAreTheirs
CHECK_DEADLOCK FALSE
