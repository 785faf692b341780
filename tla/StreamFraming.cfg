\* A buffer of 6 bytes and packets of 1 or 2 bytes after the header: up to
\* two packets and a part of a third fit.
\* Inside a packet: two objects with three stats in all.
SPECIFICATION StreamSpec
CONSTANTS
  Cap = 6
  MaxLen = 2
  MaxPackets = 3
  None = None
  Classes = {"both", "player", "none"}
  MaxObjects = 2
  MaxStats = 3
CHECK_DEADLOCK FALSE
INVARIANTS InOrder NothingLeftBehind OnlySplitHeaderPanics IInv StatsReach
PROPERTIES EventuallyHandled
