CONSTANTS
  c1 = c1
  Callers = {c1}
  MaxCalls = 1
  NoReq = NoReq
SPECIFICATION FairSpec
PROPERTY CallsReturn
CHECK_DEADLOCK FALSE
