SPECIFICATION Spec
CONSTANTS
  Intent = {i1}
  Worker = {w1, w2}
  Tx = {t1, t2}
  NoTx = NoTx
  NoTask = NoTask
  NoIntent = NoIntent
  Family = "evm"
  MaxNonce = 2
  MaxFaults = 0
  LeaseOutlastsHandler = FALSE
  Freezes = FALSE
  NodeLags = FALSE
  Reorgs = FALSE
INVARIANTS
  AtMostOnce
CHECK_DEADLOCK FALSE
