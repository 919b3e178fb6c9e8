SPECIFICATION Spec
CONSTANTS
  Intent = {i1}
  Worker = {w1}
  Tx = {t1}
  NoTx = NoTx
  NoTask = NoTask
  NoIntent = NoIntent
  Family = "evm"
  MaxNonce = 2
  MaxFaults = 1
  LeaseOutlastsHandler = TRUE
  Freezes = FALSE
  NodeLags = TRUE
  Reorgs = FALSE
INVARIANTS
  FailedMeansUnpaid
CHECK_DEADLOCK FALSE
