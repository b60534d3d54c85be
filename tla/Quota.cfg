CONSTANTS
  h1 = h1
  h2 = h2
  minute = minute
  hour = hour
  Handler = {h1, h2}
  Window = {minute, hour}
  Max <- Caps
  Length <- Lengths
  MaxDrift = 2
  None = None
  MaxTime = 2
  MaxRequests = 7
  MaxFaults = 1
SYMMETRY Interchangeable
SPECIFICATION Spec
CHECK_DEADLOCK FALSE
INVARIANTS
  TypeOK
  RefusalDurable
  DriftBounded
  BudgetKept
