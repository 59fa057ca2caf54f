SPECIFICATION OutputSpec
CONSTANTS
  Bytes = {0, 1}
  Zero = 0
  BufferLength = 4
  BufferMax = 6
  Values <- MCValues
  MaxLength = 6
INVARIANT OutputOK
PROPERTIES
  FlushKeepsOrder
  WriteBeforeSendAppends
