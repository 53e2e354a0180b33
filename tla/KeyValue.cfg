SPECIFICATION FairSpec
CONSTANTS
  Peers = {p, q}
  Owners = {p}
  Keys <- MCKeys
  DeletePrefixes <- MCPrefixes
  Syncers = {p}
  MaxIncoming = 1
  ApplyBatch = 2
  MaxTime = 2
  MaxWrites = 2
  MaxAcl = 1
  MaxFaults = 1
INVARIANTS AdvertisedIsStored
PROPERTIES DeletedStaysDeleted RowsConverge
CHECK_DEADLOCK FALSE
