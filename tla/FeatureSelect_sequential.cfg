SPECIFICATION Spec
CONSTANTS
  base = base
  derived = derived
  Wrapped = {base, derived}
  WrappedMro <- TwoClasses
  UserTypes = {u}
  NoType = NoType
  Modules = {m1, m2}
  NoModule = NoModule
  Ids = {0, 1}
  TrueProperty = {1}
  Plain = Plain
  NoDict = NoDict
  Inherit = Inherit
  Threads = {th}
  Idle = Idle
  TypesDie = FALSE
  Switches = FALSE
PROPERTIES AccessSeesItsFeatures
