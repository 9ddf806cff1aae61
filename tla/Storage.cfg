SPECIFICATION StorageSpec
CONSTANTS
  p1 = p1
  p2 = p2
  o1 = o1
  o2 = o2
  l1 = l1
  l2 = l2
  l3 = l3
  l4 = l4
  Procs = {p1, p2}
  Ops = {o1, o2}
  Lines = {l1, l2, l3, l4}
  NoProc = NoProc
  NoOp = NoOp
  NoLine = NoLine
  MaxSize = 2
  MaxInodes = 3
  MaxCalls = 4
SYMMETRY Symmetry
CHECK_DEADLOCK FALSE
INVARIANTS NoLineLost
PROPERTIES AtomicUpdates
