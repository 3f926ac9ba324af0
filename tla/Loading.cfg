CONSTANTS
  a = a
  b = b
  c = c
  d = d
  episode = episode
  Player = player
  Helper = helper
  None = none
  Uris = {a, b, episode}
  Gids = {a, b, c, d}
  Catalogue <- MCCatalogue
  Prefer = 1
  MaxLoads = 2
  MaxKicks = 1
  MaxFaults = 1
  MaxTurns = 1
SPECIFICATION FairSpec
INVARIANTS TypeOK SourceMatches RetryRenews SurvivesOneFault
PROPERTIES LoadsEnd
\* The bounds, or an idle player, stop the system.
CHECK_DEADLOCK FALSE
