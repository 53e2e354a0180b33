SPECIFICATION FairSpec
CONSTANTS
  Callers = {c1, c2}
  Workers = {w1, w2}
  Objects = {o1, o2}
  NoRequest = NoRequest
  QueueSize = 1
  MaxRequests = 3
  MaxQueues = 2
CHECK_DEADLOCK FALSE
INVARIANTS OneAtATime
PROPERTIES RemovedOnce EveryRequestEnds
