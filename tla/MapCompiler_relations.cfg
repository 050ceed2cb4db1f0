CONSTANTS
  NoKey = NoKey
  NodeIds = {}
  WayIds = {}
  RelationIds = {1, 2, 3, 4, 5}
  Place <- MCPlace
  References = {1, 2}
  Strings = {2}
  ShapeParts <- MCShapeParts
  ShapePlaces <- MCShapePlaces
  ShapeTags = 4
  CountLimit = 4
  FlushSize = 2
  CacheSize = 2
  MaxRefs = 0
  MaxMembers = 2
  MaxBytes = 0
  MaxShapes = 2
SPECIFICATION Spec
INVARIANTS RelationMembersAreTheirs
CHECK_DEADLOCK FALSE
