SPECIFICATION Spec
CONSTANTS
  Replicas = {a, b}
  Writers = {a}
  Ids = {0, 8, 16, 64}
  Heads = {1, 2}
  None = 0
  MaxHash = 255
  DivideFactor = 2
  CompareThreshold = 2
  MaxOps = 3
INVARIANTS SameHashSameElements DiffIsRight
CHECK_DEADLOCK FALSE
