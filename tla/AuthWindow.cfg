\* The limit over the 24 hours before the start, by when payments were committed.
SPECIFICATION Spec
CONSTANTS
  i1 = i1  i2 = i2  i3 = i3
  Intent = {i1, i2, i3}
  Worker = {w1, w2}
  Approver = {a1}
  NoIntent = NoIntent
  Amount <- AmountOf
  Lifetime <- LifetimeOf
  DailyLimit = 3
  AutoUpTo = 1
  MinApprovals = 1
  Day = 2
  MaxTime = 3
  MaxFaults = 0
  MaxSwitches = 0
SYMMETRY Workers
INVARIANTS CommittedWithinLimit
CHECK_DEADLOCK FALSE
