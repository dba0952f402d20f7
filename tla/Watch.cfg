\* Two watchers with any options.
CONSTANTS
  Watchers = {1, 2}
  Cells = {"a", "b"}
  Setups <- MCSetups
  Rendered = {"a"}
  Owner = Owner
  Parent = Parent
  IsUnmounted = IsUnmounted
  Undefined = Undefined
  Initial = Initial
  SelfWrites = FALSE
  MaxWrites = 2
  MaxStops = 1
SPECIFICATION Spec
INVARIANTS ToldTheLatest CleanedUp
PROPERTIES OldIsPrevious PostSeesDom
CHECK_DEADLOCK FALSE
