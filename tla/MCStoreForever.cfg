SPECIFICATION Spec
CONSTANTS
  k1 = k1
  k2 = k2
  k3 = k3
  Keys = {k1}
  PutKeys = {k1}
  Workers = {1}
  QueueSize = 3
  MaxTasks = 1
PROPERTY ForeverStays
