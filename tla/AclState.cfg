SPECIFICATION Spec
CONSTANTS
  own = own
  ann = ann
  bob = bob
  Accounts = {own, ann, bob}
  Creator = own
  GivenPerms = {"none", "reader", "admin"}
  ReadMembers = 3
  WriteMembers = 3
  MaxRecords = 6
SYMMETRY Others
INVARIANTS OneOwner RequestsMatch KeysFollowMembers
PROPERTIES AdminByOwner HistoryIsKept
CHECK_DEADLOCK FALSE
