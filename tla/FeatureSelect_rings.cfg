SPECIFICATION Spec
CONSTANTS
  base = base
  derived = derived
  Wrapped = {base}
  WrappedMro <- OneClass
  UserTypes = {u}
  NoType = NoType
  Modules = {m1}
  NoModule = NoModule
  Ids = {0, 1, 2}
  TrueProperty = {2}
  Plain = Plain
  NoDict = NoDict
  Inherit = Inherit
  Threads = {th1, th2}
  Idle = Idle
  TypesDie = TRUE
  Switches = TRUE
INVARIANTS RingWhole
