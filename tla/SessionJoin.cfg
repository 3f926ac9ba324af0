CONSTANTS
  h1 = h1
  Hosts = {h1}
  Player = player
  Helper = helper
  d1 = d1
  d2 = d2
  Devices = {d1, d2}
  None = none
  MaxCommands = 1
  MaxFaults = 1
  MaxMessages = 2
SPECIFICATION Spec
INVARIANT NoCycle
\* A circle of threads, a crash or an idle session stops the system.
CHECK_DEADLOCK FALSE
