CONSTANTS
  Purpose <- Purposes
  Estimates <- OneEstimate
  Usages <- LowAndHigh
  MaxUpstream = 2
  MaxController = 1
  MaxPrivate = 2
  MaxInput = 4
  MaxGenerated = 4
  MaxModel = 7
  MaxBodies = 4
  MaxRungs = 2
  MaxLoop = 1
  MaxRegenerations = 1
  MaxReplans = 1
  MaxPrimaryTurns = 2
  MaxControllerTurns = 2
SPECIFICATION Spec
INVARIANT NoPhantomEstimate
