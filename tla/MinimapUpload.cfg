\* The minimap's uploads beside updates and clears.
SPECIFICATION Spec
CONSTANTS
  Width = 2
  Height = 1
  Colors = {c1}
  NoColor = none
  MaxPaints = 2
  MaxUpdates = 2
  MaxClears = 1
CHECK_DEADLOCK FALSE
INVARIANTS
  OnlyOverlapsLost
  StopsOnlyIfRaced
PROPERTIES
  EventuallyUploaded
