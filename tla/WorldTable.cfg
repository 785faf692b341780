\* An object of the server and two shots.
SPECIFICATION Spec
CONSTANTS
  Objects = {o1}
  Shots = {s1, s2}
  Slots = 4
  Nothing = Nothing
CHECK_DEADLOCK FALSE
INVARIANTS TableSound TicksReach
