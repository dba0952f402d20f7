SPECIFICATION Spec
CONSTANTS
  Components <- MCComponents
  Templates <- MCTemplates
  Compilation <- MCCompilation
  Mounted <- MCMounted
  Updated <- MCUpdated
  Render <- MCRender
  Resolve <- MCResolve
  Sent <- MCSent
  StartFrom <- MCStartFrom
  Receive <- MCReceive
  Async <- MCAsync
  Drifting <- MCDrifting
  MaxUpdates = 2
INVARIANTS PageIgnoresOrder Adopted LikeMounted Usable
CHECK_DEADLOCK FALSE
