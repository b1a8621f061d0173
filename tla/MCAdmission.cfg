CONSTANTS
  t1 = t1
  t2 = t2
  t3 = t3
  t4 = t4
  Task <- MCTask
  Context <- MCTask
  ContextOf <- MCPrivate
  GlobalCap = 2
  MaxQueued = 2
  MaxDepth = 2
SPECIFICATION FairSpec
INVARIANTS
  TypeOK
  PermitConservation
  CountersExact
  NoLostWakeUp
PROPERTIES
  ImplementsPool
  WaiterServed
