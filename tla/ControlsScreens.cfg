\* Six presses, five screens.
SPECIFICATION ControlsSpec
CONSTANTS
  MaxEvents = 6
  MaxScreens = 5
  MaxWorld = 1
CHECK_DEADLOCK FALSE
INVARIANTS WalksByKey DisabledForReason 
PROPERTIES ClosesOrHangs
