SPECIFICATION MCSpec
CONSTANTS
  Threads = {t1, t2}
  NoThread = NoThread
  Blocks = {b1, b2}
  NoBlock = NoBlock
  CreationPrograms = {{}, {"helpers", "others"}, {"nested"}, {"keepsGil"}}
  Reps <- SomeReps
  Items = {0, 1}
  MaxRequests = 3
  MaxConnections = 2
  MaxBuffer = 3
  Chunk = 2
  MaxBytes <- SomeBytes
  MaxWrites = 2
  MaxOpens = 2
  Functions = {f1, f2}
  NoFunction = NoFunction
  Curves = {c1, c2}
  MaxFunctions = 3
  Calls = {k1, k2}
  Values = {v1, v2}
  Unmade = Unmade
  MaxRoutines = 2
  MaxCount = 4
  HoldPrograms = {{"curves", "raises"}, {"curves", "copies"}, {"calls", "drops"}, {"calls", "plain"}, {"calls", "raises", "others"}, {"calls"}, {"routines"}, {"routines", "adds"}, {"routines", "apps"}, {"handlers", "removes", "threads"}, {"handlers", "threads"}, {"values"}, {"values", "moves"}}
INVARIANTS MemoryKeptApart ReplicaFollowsSource CallablesHeld
PROPERTIES CreationEnds ReplicaConverges PipeIsFifo
CHECK_DEADLOCK FALSE
