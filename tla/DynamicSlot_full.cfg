SPECIFICATION Spec
CONSTANTS
  Senders = {s1}
  Signals = {g1}
  o1 = o1
  o2 = o2
  f1 = f1
  f2 = f2
  Objects = {o1, o2}
  Functions = {f1, f2}
  NoObject = NoObject
  NoConn = NoConn
  Callbacks <- Decorated
  ConnIds = {c1, c2, c3}
  Threads = {t1, t2}
  MaxQueued = 1
  Repeats = TRUE
  Contexts = TRUE
  OtherRoutes = TRUE
  CrossThread = TRUE
  AppRestarts = TRUE
SYMMETRY ConnSymmetry
INVARIANTS TrackedSelfAlive EntryLeadsHome
CHECK_DEADLOCK FALSE
