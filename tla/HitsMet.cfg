\* One enemy, one cover, the own player.
SPECIFICATION Spec
CONSTANTS
  Enemies = {e1}
  Covers = {c1}
  Players = {me}
  Me = me
  Damage = 2
  Defence = 1
  MaxHp = 2
  StartHp <- Started
  Conditions = {"armored"}
  Kinds <- Fired
  Lifetime = 3
  Interval = 0
  MaxShots = 2
  MaxTime = 3
  MaxEvents = 2
CHECK_DEADLOCK FALSE
INVARIANTS EachHitOnce  
