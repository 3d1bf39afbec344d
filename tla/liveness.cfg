\* Two passes that may crash at every step, two attempts and one recovery.
SPECIFICATION FairSpec
CONSTANTS
  NumUnits = 1
  MaxVersion = 1
  MaxGen = 2
  MaxAttempts = 2
  Workers = {w1, w2}
  Clients = {c1}
  Words = {}
  CorruptionMayHappen = FALSE
  RefreshMayFail = TRUE
CHECK_DEADLOCK FALSE
PROPERTIES
  EveryJobEnds
  SessionSettles
