SPECIFICATION Spec
CONSTANTS
  c1 = c1  c2 = c2
  None = None
  Clients = {c1, c2}
  Fds = {4, 5}
  Listen = 3
  Backlog = 2
  MaxTtys = 1
  MaxLines <- MCOneLine
INVARIANT EachOnce
CHECK_DEADLOCK FALSE
