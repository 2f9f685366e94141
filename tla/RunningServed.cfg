SPECIFICATION Spec
CONSTANTS
  r1 = r1  r2 = r2
  None = None
  Runs = {r1, r2}
  Backlog = 0
  Clients = {c1, c2}
  c1 = c1  c2 = c2
PROPERTY RunningMeansServed
SYMMETRY Symmetry
CHECK_DEADLOCK FALSE
