SPECIFICATION FairSpec
CONSTANTS
  k1 = k1
  k2 = k2
  k3 = k3
  Keys = {k1, k2, k3}
  PutKeys = {k1, k2}
  Workers = {1}
  QueueSize = 4
  MaxTasks = 1
INVARIANTS
  TypeOK
  ListedOnce
PROPERTIES
  WaitingIsQueried
  HookedIsForgotten
