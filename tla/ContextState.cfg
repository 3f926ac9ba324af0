CONSTANTS
  Tracks <- MCTracks
  Contexts = {"x", "y"}
  Lists <- MCLists
  Continuations <- MCContinuations
  CloudOrders <- MCCloudOrders
  Hints <- MCHints
  MaxTracks = 4
SPECIFICATION Spec
INVARIANTS TypeOK IndexInRange OrderComplete RoundTrip
PROPERTIES AppendKeepsPlace ToggleKeepsTrack
