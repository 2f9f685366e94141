SPECIFICATION FairSpec
CONSTANTS
  c1 = c1  c2 = c2
  None = None
  Clients = {c1, c2}
  Fds = {4, 5}
  Listen = 3
  Backlog = 2
  MaxTtys = 2
  MaxLines <- MCMaxLines
INVARIANTS TypeOK SocketsOwned BlocksOnlyThere OneShell
PROPERTIES ImplementsCommandServer PollEnds Served Accepted StopsUnlessBlocked
CHECK_DEADLOCK FALSE
