SPECIFICATION Spec
CONSTANTS
  d = d  p1 = p1  p2 = p2  p3 = p3
  tty0 = tty0  full = full  f1 = f1  f2 = f2  sys = sys  bin = bin
  None = None
  Daemon = d
  StdDevices = {full}
  FullDevice = full
  TtyNames <- MCNoTty
  SysDir = sys
  BinDir = bin
  Dirs = {sys, bin}
  Posix = {d, p1, p2}
  Files = {f1}
  KernelFds = {3}
  Recycle = FALSE
  CloseFails = FALSE
  CwdFails = FALSE
  Observe = TRUE
  MaxProcs = 3
  MaxSlots = 2
  MaxEntries = 2
  MaxRefs = 1
INVARIANTS EntriesOwned KernelFdsOwned
PROPERTY ImplementsApi
VIEW View
SYMMETRY Symmetry
CHECK_DEADLOCK FALSE
