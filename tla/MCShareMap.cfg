SPECIFICATION Spec
CONSTANTS
  Keys = {k1, k2, k3, k4, k5}
  Alone = k5
  Values = {v1, v2}
  Empty = empty
  Size = 4
  Hash <- MCHash
SYMMETRY Symmetric
INVARIANTS
  TypeOK
  ChainsAgree
PROPERTY ImplementsDictionary
