CONSTANTS
  a = a
  b = b
  Tracks = {a, b}
  None = None
  h1 = h1
  Hosts = {}
  Dealer = Dealer
  d1 = d1
  d2 = d2
  Helpers = {d1, d2}
  MaxHistory = 1
  MaxQueue = 1
  MaxCommands = 3
SPECIFICATION Spec
INVARIANTS StaysStopped
CHECK_DEADLOCK FALSE
