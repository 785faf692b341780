CONSTANTS
  Inv = 3
  Backpack = 3
  HasBackpack = FALSE
  Box = 1
  bag = bag
  other = other
  sword = sword
  potion = potion
  Containers = {bag, other}
  Items = {sword, potion}
  Consumables = {potion}
  EquipSlot <- MCEquipSlot
  InitialItems <- MCInitialItems
  Portal = Portal
  Me = Me
  Empty = Empty
  None = None
  Outside = Outside
  MaxClicks = 2
  MaxChanges = 1

SPECIFICATION InventorySpec
INVARIANTS SettledShowsServer NamesTheShown 
CHECK_DEADLOCK FALSE
