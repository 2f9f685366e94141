SPECIFICATION Spec
CONSTANTS
  shell = shell  cat = cat
  None = None
  Libs = {shell, cat}
  MaxObjs = 8
INVARIANTS TypeOK HandlesBalanced TableUsable
SYMMETRY Symmetry
CHECK_DEADLOCK FALSE
