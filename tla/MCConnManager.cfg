SPECIFICATION NetFairSpec
CONSTANTS
  MaxSize = 3
  RemoveLimit = 2
  CountWidth = 4
  SizeWidth = 8
  Before = 0
  MaxDrops = 1
  MaxAgain = 1
  MaxBusy = 1
  OneStepAccept = 2
  MaxBacklog = 1
INVARIANTS
  NetTypeOK
  LiveAreManaged
  Packed
  ConnectorFreeIsCounted
PROPERTIES
  ConnectTakesFreeSlot
  ConnectorSendIsServed
