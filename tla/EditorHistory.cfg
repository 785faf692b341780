\* Maps of one tile and of four, one ground and two objects; a preview of one
\* tile, and ids that do not reach the player's.
SPECIFICATION EditorSpec
CONSTANTS
  Sizes = {1, 2}
  DefaultSize = 2
  Grounds = {grass}
  Void = Void
  Objects = {pirate, wall}
  NoObject = NoObject
  PlayerId = 3
  ErasedId = 4
  MaxId = 3
  MaxCommands = 2
  MaxMaps = 2
  MaxBrush = 1
  Pointed <- Corners
SYMMETRY Symmetry
CHECK_DEADLOCK FALSE
INVARIANTS UndoRestores  
