SPECIFICATION Spec
CONSTANTS
  Components <- MCComponents
  Templates <- MCTemplates
  Compilation <- MCCompilation
  Mounted <- MCMounted
  Updated <- MCUpdated
  Parsing <- MCParsing
  MaxUpdates = 2
INVARIANTS Settles SameAsByHand SameAsFresh AliveWhileThere ParsesLikeMarkup
CHECK_DEADLOCK FALSE
