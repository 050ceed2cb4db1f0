CONSTANTS
  t1 = t1
  t2 = t2
  svg = svg
  small = small
  png = png
  Absent = Absent
  NoTile = NoTile
  NoThread = NoThread
  Hole = Hole
  Threads <- MCThreads
  SvgTiles <- MCSvgTiles
  PngTiles <- MCPngTiles
  SmallTiles <- MCSmallTiles
  Blocks = 2
  MaxFaults = 0
SPECIFICATION Spec
INVARIANT CachedForNextUse
