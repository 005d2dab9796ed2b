SPECIFICATION MCSpec
CONSTANTS
  Threads = {t1, t2}
  NoThread = NoThread
  Addresses = {a1, a2}
  NoAddress = NoAddress
  MaxFrames = 2
  Programs = {{}, {"foreign"}, {"events"}, {"lazy"}, {"owners"}}
  o1 = o1
  o2 = o2
  Objects = {o1, o2}
  MaxDepth = 3
  MaxErrors = 2
  MetaPrograms = {{"qml", "pending"}, {"drops", "unknownTypes"}}
  Names = {"a", "b"}
  Types = {"i", "s"}
  Slots <- SomeSlots
  Layouts <- SomeLayouts
  MaxConnections = 3
  Early = FALSE
  f1 = f1
  f2 = f2
  p1 = p1
  p2 = p2
  Null = Null
  Accessor = {f1, f2}
  PropertyObjects = {p1, p2}
  RefersTo <- SomeReferences
  MaxAccesses = 1
  AccessorPrograms = {{}, {"lists"}}
  Widgets = {w1, w2}
  Boxes = {l1, l2}
  NoParent = NoParent
  Titles = {"a", "b"}
  LayoutPrograms = {{"parents"}, {"renames"}}
  Chars = {"x", "y"}
  MaxArray = 3
  Unset = Unset
  NoValue = NoValue
  Itself = Itself
  Failed = Failed
  Crashed = Crashed
  ArrayPrograms = {{}}
  o3 = o3
  k1 = k1
  k2 = k2
  k3 = k3
  k4 = k4
  Receivers = {o1, o2, o3}
  Keys = {k1, k2, k3, k4}
  ObjectOf <- ReceiverOfKey
  Buckets = 8
  Homes <- SomeHomes
  MaxSweeps = 2
INVARIANTS WrappersMatchObjects QuitDestroysOnce ErrorsPrintedOnce OverloadsFit LookupFindsItsSignal DisconnectFindsIt AccessorsHeld LayoutsHoldTheirItems SlicesAsInPython SweepIsComplete
PROPERTIES CallsReachTheirMethod SweepEnds
CHECK_DEADLOCK FALSE
