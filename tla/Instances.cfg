SPECIFICATION FairSpec
CONSTANTS
  r1 = r1  r2 = r2
  None = None
  Runs = {r1, r2}
  Backlog = 0
  Clients = {c1, c2}
  c1 = c1  c2 = c2
INVARIANTS TypeOK  StoppedOnRequest
PROPERTIES StopEnds InvocationsEnd
CHECK_DEADLOCK FALSE
