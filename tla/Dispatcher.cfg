CONSTANTS
  c1 = c1
  c2 = c2
  Callers = {c1, c2}
  MaxCalls = 3
  NoReq = NoReq
SPECIFICATION FairSpec
INVARIANTS TypeOK NoLeak
PROPERTIES ImplementsExchange CallsReturnOrCycle StopEnds
\* A stopped dispatcher has nothing left to do; neither has one at its bound.
CHECK_DEADLOCK FALSE
