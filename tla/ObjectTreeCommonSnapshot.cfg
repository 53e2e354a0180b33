SPECIFICATION Spec
CONSTANTS
  Peers = {p, q}
  Ids = {1, 2, 3}
  LateReducers = {q}
INVARIANTS CommonSnapshotMeets
CHECK_DEADLOCK FALSE
