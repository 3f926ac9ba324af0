CONSTANTS
  h1 = h1
  Hosts = {h1}
  List <- MCList
  None = "none"
  Requests <- MCRequests
  Clusters <- MCClusters
  ItemTracks = {"t1", "t2", "q"}
  Volumes = {2}
  NoteTracks = {"t1", "q"}
  InitialVolume = 1
  DefaultVolume = 3
  MaxVolume = 3
  PutLimit = 1
  Window = 1
  ItemLimit = 2
  MaxNotes = 2
  MaxEvents = 3
SPECIFICATION FairSpec
INVARIANTS TypeOK CommandsOnce SettingsReported QueueAdvertised
PROPERTIES NewestGoesOut StopEnds
\* A stopped device has nothing left to do.
CHECK_DEADLOCK FALSE
