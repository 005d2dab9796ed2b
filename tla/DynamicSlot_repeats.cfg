SPECIFICATION Spec
CONSTANTS
  Senders = {s1}
  Signals = {g1}
  o1 = o1
  o2 = o2
  f1 = f1
  f2 = f2
  Objects = {o1, o2}
  Functions = {f1, f2}
  NoObject = NoObject
  NoConn = NoConn
  Callbacks <- MethodAndIndex
  ConnIds = {c1, c2}
  Threads = {t1}
  MaxQueued = 1
  Repeats = TRUE
  Contexts = FALSE
  OtherRoutes = FALSE
  CrossThread = FALSE
  AppRestarts = FALSE
SYMMETRY ConnSymmetry
INVARIANTS NoDanglingSelf
CHECK_DEADLOCK FALSE
