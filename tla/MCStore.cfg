SPECIFICATION Spec
CONSTANTS
  k1 = k1
  k2 = k2
  k3 = k3
  t1 = t1
  Keys = {k1, k2, k3}
  Tables = {t1}
  TableOf <- MCTableOf
  Size <- MCSize
  Rows = {r1}
  s1 = s1
  s2 = s2
  Selects = {s1, s2}
  DeleteText = DeleteText
  NoRow = NoRow
  NoColumns = NoColumns
  Partial = Partial
  Statuses = {"invalid", "error", "insert", "delete", "select", "update", "success"}
  Blank = Blank
INVARIANTS
  TypeOK
  SlotsMatchKeys
PROPERTIES
  ImplementsCache
  StatementRunsOnce
SYMMETRY KeySymmetry
