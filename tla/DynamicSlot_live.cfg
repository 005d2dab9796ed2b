SPECIFICATION FairSpec
CONSTANTS
  Senders = {s1, s2}
  Signals = {g1}
  o1 = o1
  o2 = o2
  f1 = f1
  f2 = f2
  Objects = {o1, o2}
  Functions = {f1, f2}
  NoObject = NoObject
  NoConn = NoConn
  Callbacks <- MethodAndIndex
  ConnIds = {c1, c2}
  Threads = {t1}
  MaxQueued = 2
  Repeats = TRUE
  Contexts = FALSE
  OtherRoutes = TRUE
  CrossThread = TRUE
  AppRestarts = FALSE
PROPERTIES DeadSendersForgotten
CHECK_DEADLOCK FALSE
