SPECIFICATION Spec
CONSTANTS
  d = d  p1 = p1  p2 = p2  p3 = p3
  tty0 = tty0  full = full  f1 = f1  f2 = f2  sys = sys  bin = bin
  None = None
  Daemon = d
  StdDevices = {full}
  FullDevice = full
  TtyNames <- MCTtyNames
  SysDir = sys
  BinDir = sys
  Dirs = {sys}
  Posix = {d, p1, p2}
  Files = {f1}
  KernelFds = {3, 4}
  Recycle = FALSE
  CloseFails = TRUE
  CwdFails = TRUE
  Observe = FALSE
  MaxProcs = 3
  MaxSlots = 2
  MaxEntries = 2
  MaxRefs = 2
INVARIANTS TypeOK SlotsUnique SlotsBacked DeviceRefsCover KernelFdsRecorded
SYMMETRY Symmetry
CHECK_DEADLOCK FALSE
