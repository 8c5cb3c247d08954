CONSTANTS
  t1 = t1
  t2 = t2
  t3 = t3
  Backends <- BothStores
  Threads <- ThreeThreads
  ProcessOf <- OneStore
  MaxOrder = 3
SPECIFICATION CursorSpec
INVARIANT AnsweredSoundly
PROPERTY NeverBackwards
