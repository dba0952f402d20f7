\* Anything may be written, stopped and thrown during a run.
CONSTANTS
  s1 = s1
  s2 = s2
  c1 = c1
  c2 = c2
  e1 = e1
  e2 = e2
  Srcs = {s1}
  Comps = {c1}
  Effs = {e1, e2}
  Lazy = {e2}
  Sched = {e2}
  CanRead <- Read1
  CanWrite <- Feedback1
  CanCall <- Calls1
  CanStop = {e1}
  MayThrow = {c1, e1, e2}
  None = None
  MaxDepth = 4
  MaxLost = 1
SPECIFICATION Spec
INVARIANTS DepsMirror TrackingFollowsCalls
