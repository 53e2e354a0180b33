SPECIFICATION Spec
CONSTANTS
  Peers = {p, q}
  Ids = {1, 2, 3}
  LateReducers = {q}
INVARIANTS NoPanic AgreedOrder MemoryIsSuffix
  AnswerSuffices FetchSuffices HistoryIsThePast
PROPERTIES AppendIsSuffix ImplementsChangeDag
CHECK_DEADLOCK FALSE
