SPECIFICATION SweepSpec
CONSTANTS
  o1 = o1
  o2 = o2
  o3 = o3
  k1 = k1
  k2 = k2
  k3 = k3
  k4 = k4
  Receivers = {o1, o2, o3}
  Keys = {k1, k2, k3, k4}
  ObjectOf <- ReceiverOfKey
  Buckets = 8
  Homes <- SomeHomes
  MaxSweeps = 3
INVARIANT SweepSparesTheLiving
CHECK_DEADLOCK FALSE
