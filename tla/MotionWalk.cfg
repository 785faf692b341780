\* The own player: three squares by two, two of them not free, in eighths of a
\* tile.  Another entity: four ticks of four units, over two tiles.
SPECIFICATION MotionSpec
CONSTANTS
  Tile = 8
  Threshold = 3
  Nudge = 1
  Width = 3
  Height = 2
  Strides = {0, 2, 7}
  MaxObstacles = 2
  Coords = {0, 16}
  TickTime = 4
  Frames = {1, 2}
  MaxTicks = 4
  MaxFrames = 3
  MaxGotos = 1
  NaN = NaN
CHECK_DEADLOCK FALSE
INVARIANTS StepSound Follows NowhereOnlyIfRaced
PROPERTIES StaysFitting
