SPECIFICATION Spec
CONSTANTS
  Intent = {i1, i2}
  Rotation = {}
  Key = {k1}
  None = None
  MaxIndex = 3
  MaxFaults = 1
INVARIANTS ProposalIsOwn
CHECK_DEADLOCK FALSE
