\* Tables of up to three methods, and any number of methods added later.
SPECIFICATION Spec
CONSTANTS
  Ids = {1, 2, 3, 4}
  Names = {n1, n2, n3, n4}
  Registries <- MCRegistries
  None = None
INVARIANTS
  MapsAgree
  DefaultsAnswerAsTheTable
PROPERTY
  ImplementsMethodNames
CHECK_DEADLOCK FALSE
