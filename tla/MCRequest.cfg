CONSTANTS
  Purpose <- Purposes
  Estimates <- OneEstimate
  Usages <- LowAndHigh
  MaxUpstream = 3
  MaxController = 1
  MaxPrivate = 2
  MaxInput = 5
  MaxGenerated = 5
  MaxModel = 9
  MaxBodies = 5
  MaxRungs = 2
  MaxLoop = 1
  MaxRegenerations = 1
  MaxReplans = 1
  MaxPrimaryTurns = 1
  MaxControllerTurns = 2
SPECIFICATION FairSpec
INVARIANTS TypeOK CountedExactly OverrunBounded GenerationsBounded ToolChoiceHonoured
PROPERTIES ImplementsLedger RequestEnds
