\* One event and the periodic job are done within their leases, the other event need not be.
SPECIFICATION FairSpec
CONSTANTS
  Worker = {w1, w2}
  Event = {e1, e2}
  Bucket = {b1}
  Brief = {e1, b1}
  NoJob = NoJob
  MaxAttempts = 2
  MaxFaults = 3
  MaxDefers = 2
INVARIANTS
  NoLostWork
  HolderOwnsRow
PROPERTIES
  EndedIsFinal
  EmittedEnds
  ImplementsTaskPool
CHECK_DEADLOCK FALSE
