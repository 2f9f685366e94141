SPECIFICATION Spec
CONSTANTS
  d = d  p1 = p1  p2 = p2  p3 = p3
  tty0 = tty0  full = full  f1 = f1  f2 = f2  sys = sys  bin = bin
  None = None
  Daemon = d
  StdDevices = {full}
  FullDevice = full
  TtyNames <- MCTtyNames
  SysDir = sys
  BinDir = sys
  Dirs = {sys}
  Posix = {d, p1, p2, p3}
  Files = {}
  KernelFds = {}
  Recycle = TRUE
  CloseFails = FALSE
  CwdFails = FALSE
  Observe = FALSE
  MaxProcs = 5
  MaxSlots = 0
  MaxEntries = 0
  MaxRefs = 0
INVARIANT CallerIdentified
PROPERTY PidStable
SYMMETRY Symmetry
CHECK_DEADLOCK FALSE
