SPECIFICATION FairSpec
CONSTANTS
  a = a
  c = c
  Ids <- MCIds
  Child <- MCChild
  Parent <- MCParent
  NoId = NoId
  MaxHeads = 2
  MaxFaults = 1
  MaxEvents = 3
CHECK_DEADLOCK FALSE
INVARIANTS DiffFollowsStorage DeletedIsGone
PROPERTIES DeletionIsForever SettingsAreApplied
