\* Two requests, three DEKs, two writes, two faults.
SPECIFICATION FairSpec
CONSTANTS
  r1 = r1  r2 = r2
  Requests = {r1, r2}
  Plain = Plain
  None = None
  MaxKeys = 3
  MaxWrites = 2
  MaxFaults = 2
CHECK_DEADLOCK FALSE
INVARIANTS TypeOK HandleFits ServesRecorded RecordedCopy NothingErased QuietlyCurrent
PROPERTIES EveryOperationEnds
