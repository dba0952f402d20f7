\* e1 runs as soon as it is triggered, e2 has a scheduler; no effect writes a source
\* of a computed it reads.
CONSTANTS
  s1 = s1
  s2 = s2
  c1 = c1
  c2 = c2
  e1 = e1
  e2 = e2
  Srcs = {s1, s2}
  Comps = {c1, c2}
  Effs = {e1, e2}
  Lazy = {}
  Sched = {e2}
  CanRead <- MCCanRead
  CanWrite <- NoFeedback
  CanCall <- OuterCalls
  CanStop = {}
  MayThrow = {}
  None = None
  MaxDepth = 4
  MaxLost = 0
SPECIFICATION Spec
INVARIANTS EffectsCurrent StoppedUnsubscribed FreshOutsideTrigger
