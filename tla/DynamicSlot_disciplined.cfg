SPECIFICATION Spec
CONSTANTS
  Senders = {s1, s2}
  Signals = {g1}
  o1 = o1
  o2 = o2
  f1 = f1
  f2 = f2
  Objects = {o1, o2}
  Functions = {f1, f2}
  NoObject = NoObject
  NoConn = NoConn
  Callbacks <- Decorated
  ConnIds = {c1, c2, c3}
  Threads = {t1, t2}
  MaxQueued = 1
  Repeats = FALSE
  Contexts = FALSE
  OtherRoutes = TRUE
  CrossThread = FALSE
  AppRestarts = FALSE
SYMMETRY ConnSymmetry
INVARIANTS LiveConnectionsTracked NoDanglingSelf EntrySendersKnown
PROPERTIES ImplementsRegistry
CHECK_DEADLOCK FALSE
