\* Two payments within one day that together exceed the limit; two approvers must agree.
SPECIFICATION Spec
CONSTANTS
  i1 = i1  i2 = i2  i3 = i3
  Intent = {i1, i2}
  Worker = {w1, w2}
  Approver = {a1, a2}
  NoIntent = NoIntent
  Amount <- AmountOf
  Lifetime <- OneLifetime
  DailyLimit = 3
  AutoUpTo = 2
  MinApprovals = 2
  Day = 3
  MaxTime = 1
  MaxFaults = 1
  MaxSwitches = 1
SYMMETRY Workers
INVARIANTS
  TypeOK
  QuorumOrDelegated
  NeverAbandoned
PROPERTIES
  TerminalIsFinal
  ImplementsBudget
CHECK_DEADLOCK FALSE
