\* A rotation and a master change by two administrators, no failure.
SPECIFICATION Spec
CONSTANTS
  r1 = r1  r2 = r2
  Requests = {r1, r2}
  Plain = Plain
  None = None
  MaxKeys = 2
  MaxWrites = 0
  MaxFaults = 0
CHECK_DEADLOCK FALSE
INVARIANT ServedDekRecorded
