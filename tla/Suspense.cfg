\* a1 and b1 are there from the start; a2 and the synchronous d may come late;
\* the promise of x1 never settles, and x1 may be removed while it is pending.
SPECIFICATION Spec
CONSTANTS
  S1 = S1
  S2 = S2
  a1 = a1
  a2 = a2
  b1 = b1
  x1 = x1
  d = d
  None = None
  Bounds = {S1, S2}
  Comps = {a1, a2, b1, x1, d}
  Async = {a1, a2, b1, x1}
  Settles = {a1, a2, b1}
  Late = {a2, d}
  Abandon = {x1}
  Replaced = {}
  Outer <- MCOuter
  Home <- MCHome
INVARIANTS
  DepsCounted
  ShowsOne
  HooksWait
  EffectsKept
CHECK_DEADLOCK FALSE
PROPERTIES
  Resolves
