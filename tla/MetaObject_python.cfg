SPECIFICATION Spec
CONSTANTS
  n1 = n1
  n2 = n2
  n3 = n3
  Names = {n1, n2, n3}
  QtClass = QtClass
  QtMethods <- Static
  PyClasses = {c1}
  Bodies <- SomeBodies
  Objects = {o1}
  Foreign = {}
  NoClass = NoClass
  NoBuilder = NoBuilder
  Threads = {t1, t2}
  Idle = Idle
  PythonRuns = TRUE
PROPERTIES MethodsOnlyGrow
