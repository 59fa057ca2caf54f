SPECIFICATION FlushSpec
CONSTANTS
  k1 = k1
  k2 = k2
  t1 = t1
  Keys = {k1, k2}
  Tables = {t1}
  TableOf <- MCTableOf
  Size <- MCSize
  Rows = {r1}
  Selects = {s1}
  DeleteText = DeleteText
  NoRow = NoRow
  NoColumns = NoColumns
  Partial = Partial
  Statuses = {"invalid", "error", "insert", "delete", "select", "update", "success"}
  Blank = Blank
PROPERTY FlushRemovesAll
