\* One request at a time, one failure.
SPECIFICATION Spec
CONSTANTS
  r1 = r1  r2 = r2
  Requests = {r1}
  Plain = Plain
  None = None
  MaxKeys = 2
  MaxWrites = 0
  MaxFaults = 1
CHECK_DEADLOCK FALSE
INVARIANT RecordedDekOpens
