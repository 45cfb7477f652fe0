CONSTANTS
  Names <- MCNames
  Owners <- MCOwners
  Outer <- MCOuter
  Home <- MCHome
  Local <- MCLocal
  RootApi <- MCRootApi
  RootApis = {"default", "api_m"}
  Objs = {o1, o2}
  Strings = {"v"}
  Values = {"v"}
  MaxCallbacks = 2
  MaxDepth = 2
SPECIFICATION Spec
INVARIANTS PointersSound ToldOnce
PROPERTIES LockHolds
SYMMETRY Symmetry
CHECK_DEADLOCK FALSE
