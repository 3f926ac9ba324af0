CONSTANTS
  h1 = h1
  h2 = h2
  Hosts = {h1, h2}
  Player = player
  Helper = helper
  d1 = d1
  d2 = d2
  d3 = d3
  Devices = {d1, d2, d3}
  None = none
  MaxCommands = 2
  MaxFaults = 1
  MaxMessages = 1
SPECIFICATION FairSpec
INVARIANTS TypeOK ProvidersOutliveDevice ContextKept
PROPERTIES DispatcherInUse HaltsEnd
\* A circle of threads, a crash or an idle session stops the system.
CHECK_DEADLOCK FALSE
