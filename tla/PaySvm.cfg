SPECIFICATION FairSpec
CONSTANTS
  Intent = {i1}
  Worker = {w1, w2}
  Tx = {t1, t2, t3}
  NoTx = NoTx
  NoTask = NoTask
  NoIntent = NoIntent
  Family = "svm"
  MaxNonce = 0
  MaxFaults = 2
  LeaseOutlastsHandler = TRUE
  Freezes = TRUE
  NodeLags = TRUE
  Reorgs = TRUE
INVARIANTS
  AtMostOnce
  SettledIsFinal
PROPERTIES
  UsesTaskPool
  ApprovedEnds
CHECK_DEADLOCK FALSE
