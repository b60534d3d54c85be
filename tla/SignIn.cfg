CONSTANTS
  q1 = q1
  q2 = q2
  s1 = s1
  s2 = s2
  c1 = c1
  c2 = c2
  Request = {q1, q2}
  Session = {s1, s2}
  Challenge = {c1, c2}
  None = None
  Threshold <- Thresholds
  LockFor = 1
  ChallengeTtl = 2
  MaxAge = {2, 4}
  Absolute = 4
  MaxClock = 3
  MaxRequests = 4
SPECIFICATION Spec
SYMMETRY Symmetric
CHECK_DEADLOCK FALSE
INVARIANTS
  SessionsSound
  FailuresCounted
  AdminSessionsHold
PROPERTY
  RenewalKeeps
