SPECIFICATION MCSpec
CONSTANTS
  Hierarchies <- SomeHierarchies
  PythonMro <- LastOfEach
  QObjectTypes = {"Qt", "A", "B", "C", "D"}
  Offered <- SomeProperties
  Root = "Qt"
  MaxProperties = 2
  PropertyPrograms = {{}, {"redeclares"}, {"inherits"}}
  Lower <- Letters
  Mros <- SomeMros
  Keywords <- SomeKeywords
  MaxKeywords = 2
  Visits = FALSE
  Modules = {m1, m2}
  MaxClasses = 2
  MaxLines = 4
  ClassPrograms = {{}, {"plain"}, {"raises"}, {"imports"}, {"factories"}, {"refuses"}, {"reuses"}}
  Classes = {1, 2, 3}
  Derived = {1, 2, 3}
  NoClass = 0
  QmlPrograms <- SomeQmlPrograms
  MaxAttaching = 2
  MaxTypes = 3
  Repeats = FALSE
  Shares = FALSE
  Forgets = FALSE
  Asts <- SomeAsts
  MaxFiles = 2
  Sources = {s1, s2}
  Values = {0, 1}
  Default = 0
  Bindings <- SomeBindings
  RemotePrograms = {{}, {"mistakes"}, {"keeps"}, {"converts"}}
INVARIANTS QmlFindsItsClasses PropertiesAgree DeclarationsReachTheirClass CapsulesReturn BindingsSettle
PROPERTIES RegisteredAsDecorated KeywordsReachSetters
CHECK_DEADLOCK FALSE
