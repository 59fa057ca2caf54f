SPECIFICATION FairSpec
CONSTANTS
  NumThreads = 2
  NodeSize = 2
  Offset = 1
  MaxTasks = 3
  MaxStops = 2
INVARIANTS
  TypeOK
  TasksInOrder
  NoWorkAfterLeaving
PROPERTIES
  StopOfRunningEnds
  TaskRuns
CHECK_DEADLOCK FALSE
