SPECIFICATION Spec
CONSTANTS
    p = p
    q = q
    Peers = {p, q}
    Changes = {0, 1, 2}
    Root = 0
    ResponsiblePeers <- BothSync
    QueueSize = 1
    MaxLoss = 1
PROPERTIES BatchesAttach ImplementsChangeDag
CHECK_DEADLOCK FALSE
