\* Words of six bits, two seeds, volleys of two shots; three attacks, and the
\* player leaves three times.
SPECIFICATION Spec
CONSTANTS
  Half = 8
  Multiplier = 3
  Seeds = {1, 5}
  BulletIds = 2
  Volley = 2
  Delay = 1
  Mana = 10
  Cost = 10
  None = None
  Conditions = {"none", "stasis"}
  MaxLeaves = 3
  MaxAttacks = 3
CHECK_DEADLOCK FALSE
INVARIANTS InStep DrawsFromMap
