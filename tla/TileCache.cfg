CONSTANTS
  t1 = t1
  t2 = t2
  svg = svg
  small = small
  png = png
  Absent = Absent
  NoTile = NoTile
  NoThread = NoThread
  Hole = Hole
  Threads <- MCThreads
  SvgTiles <- MCSvgTiles
  PngTiles <- MCPngTiles
  SmallTiles <- MCSmallTiles
  Blocks = 3
  MaxFaults = 2
SPECIFICATION Spec
INVARIANTS FilesAreBeginnings AnswersAreBeginnings ShortFilesAreExplained
PROPERTY RequestsAreAnswered
