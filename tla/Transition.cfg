SPECIFICATION Spec
CONSTANTS
  Apps <- MCApps
  Nothing = Nothing
  MaxRenders = 4
INVARIANTS ShowsLastView ModeKept HooksPaired KeptAlive
CHECK_DEADLOCK FALSE
