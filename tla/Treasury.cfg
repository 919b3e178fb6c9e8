SPECIFICATION Spec
CONSTANTS
  None = None
  Intent = {i1, i2}
  Payout = {q1, q2}
  Rotation = {r1}
  Key = {k1, k2}
  Owner = {o1, o2, o3}
  Payee = {a1, a2}
  Invoice = {v1}
  Receipt = {t1, t2}
  Payment = {p1}
  Worker = {w1, w2}
  Approver = {m1}
  Threshold = 2
  MinApprovals = 1
  Price = {1, 2}
  MaxAmount = 1
  Executor = {k1}
  Governed = {{}, {i1}}
  Interval = 2
  Me = me
  Other = {other}
  Delay = {0, 1}
  Limit = 1
  Recent = 1
  MaxBlocks = 1
  MaxChain = 2
  MaxNonce = 2
  MaxIndex = 2
  MaxFaults = 1
  MaxAttempts = 2
  MaxTicks = 9
  MaxChanges = 2
  MaxFlows = 1
  MaxDelay = 1
  MaxMonth = 2
  Subtotal = 3
  Tag = {1}
  Transferred = {2}
  Inbound = {i1}
  NativeAmount = 2
  Fee = 1
  Rent = 3
  Funds = {0, 6}
  AmountOf <- TwoAmounts
  LifetimeOf <- TwoLifetimes
  DailyLimit = 3
  AutoUpTo = 1
  Day = 2
  MaxDays = 3
  MaxErrors = 0
  MaxSwitches = 0
SYMMETRY Symmetry
INVARIANTS
  OneProposalEach
  
  
  OutcomeMatchesSafe
  PurchasesSettled
  AllocationsAddUp
  LedgerAccountsForChain
  SyncAccounts
  SchedulesKept
  TimeLockTold
  WithinDailyLimit
CHECK_DEADLOCK FALSE
