SPECIFICATION Spec
CONSTANTS
  Kinds = {"Object", "Array", "Map", "Set"}
  Views = {"reactive", "readonly", "over"}
  MaxLength = 2
INVARIANTS Fresh ReadonlyIsDeep
PROPERTIES NoProxyStored
CHECK_DEADLOCK FALSE
