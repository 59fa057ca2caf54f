SPECIFICATION FairSpec
CONSTANTS
  Bytes = {0, 1, 2, 5, 6, 7, 8, 9}
  Zero = 0
  BufferLength = 5
  BufferMax = 7
  Packets = {8, 9}
  Body <- MCBody
  ExecuteCount = 2
  MaxPending = 2
INVARIANTS
  TypeOK
  Framed
  BodyIsReceived
PROPERTIES
  ImplementsByteQueue
  PacketsAreExecuted
