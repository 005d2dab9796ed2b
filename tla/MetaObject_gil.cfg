SPECIFICATION Spec
CONSTANTS
  n1 = n1
  n2 = n2
  n3 = n3
  Names = {n1, n2, n3}
  QtClass = QtClass
  QtMethods <- Static
  PyClasses = {c1, c2}
  Bodies <- SomeBodies
  Objects = {o1, o2}
  Foreign = {o2}
  NoClass = NoClass
  NoBuilder = NoBuilder
  Threads = {t1}
  Idle = Idle
  PythonRuns = FALSE
INVARIANTS IndexHolds OneIndex ClassesOrdered
