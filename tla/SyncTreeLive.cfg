SPECIFICATION FairSpec
CONSTANTS
    p = p
    q = q
    Peers = {p, q}
    Changes = {0, 1, 2}
    Root = 0
    ResponsiblePeers <- OneSyncs
    QueueSize = 1
    MaxLoss = 1
PROPERTIES Converges Quiesces
CHECK_DEADLOCK FALSE
