SPECIFICATION Spec
CONSTANTS
  Invoice = {v1}
  Receipt = {t1}
  Payment = {}
  Subtotal = 2
  Tag = {1}
  Amount = {1, 3}
  None = None
INVARIANTS BookedOnce
CHECK_DEADLOCK FALSE
