SPECIFICATION Spec
CONSTANTS
  MaxMixed = 3
  MaxRenders = 1
  Keys = {"a", "b", "c", "d", "e"}
  NoKey = NoKey
  Types = {"div", "span", "frag"}
  Fragments = {"frag"}
  Lists <- MCLists
  First <- MCFirst
INVARIANTS
  DomMatches
PROPERTIES
  NodesKept
CHECK_DEADLOCK FALSE
