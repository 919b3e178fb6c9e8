SPECIFICATION Spec
CONSTANTS
  Intent = {i1, i2}
  Worker = {w1, w2}
  Tx = {t1, t2, t3}
  NoTx = NoTx
  NoTask = NoTask
  NoIntent = NoIntent
  Family = "evm"
  MaxNonce = 4
  MaxFaults = 2
  LeaseOutlastsHandler = TRUE
  Freezes = FALSE
  NodeLags = FALSE
  Reorgs = FALSE
SYMMETRY Symmetry
INVARIANTS
  TypeOK
  PersistedBeforeBroadcast
  FailedMeansUnpaid
  PendingMatchesStatus
PROPERTIES
  ImplementsPayment
CHECK_DEADLOCK FALSE
