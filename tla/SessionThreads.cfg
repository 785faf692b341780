\* Two connections, two packets from the server on each, and one thing the
\* player does: plays, escapes or disconnects.
SPECIFICATION FairSpec
CONSTANTS
  MaxConn = 2
  MaxServed = 2
  MaxActs = 1
  WindowOps = {"act", "escape", "disconnect"}
CHECK_DEADLOCK FALSE
INVARIANTS Greetings LeftoversFailed OneSocket TouchesWhenGone
PROPERTIES EventuallyGreeted
