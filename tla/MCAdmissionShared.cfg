CONSTANTS
  t1 = t1
  t2 = t2
  t3 = t3
  Task <- MCTask
  Context <- MCTask
  ContextOf <- MCGathered
  GlobalCap = 1
  MaxQueued = 2
  MaxDepth = 1
SPECIFICATION Spec
INVARIANTS
  CapRespected
