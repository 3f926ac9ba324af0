CONSTANTS
  a = a
  b = b
  Tracks = {a, b}
  None = None
  h1 = h1
  Hosts = {h1}
  Dealer = Dealer
  d1 = d1
  d2 = d2
  Helpers = {d1, d2}
  MaxHistory = 1
  MaxQueue = 2
  MaxCommands = 3
SPECIFICATION FairSpec
INVARIANTS TypeOK LaunchSafe StopFlag
PROPERTIES QueueKept GoesOn
CHECK_DEADLOCK FALSE
