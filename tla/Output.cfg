CONSTANTS
  h1 = h1
  h2 = h2
  Hosts = {h1, h2}
  Chunks = 2
  ChunkSize = 2
  Urls = 2
  Rate = 3
  ResumeRate = 3
  Ticks = 2
  MaxCommands = 3
SPECIFICATION FairSpec
INVARIANTS TypeOK PauseHolds
PROPERTIES InOrder StopEndsOrLost
CHECK_DEADLOCK FALSE
