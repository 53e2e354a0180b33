SPECIFICATION Spec
CONSTANTS
  Peers = {p, q}
  Owners = {p}
  Keys <- MCKeys
  DeletePrefixes <- MCPrefixes
  Syncers = {p}
  MaxIncoming = 1
  ApplyBatch = 2
  MaxTime = 3
  MaxWrites = 3
  MaxAcl = 0
  MaxFaults = 0
INVARIANT StoredIsAdvertised
CHECK_DEADLOCK FALSE
