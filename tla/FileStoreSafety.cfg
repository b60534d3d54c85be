\* Two uploads and two releases at once, against the sweeper, in either mode.
SPECIFICATION Spec
CONSTANTS
  a = a  b = b  c = c  k = k  doc = doc  u1 = u1  u2 = u2  d1 = d1  d2 = d2
  Contents = {a, b, c}
  Comments = {k}
  Documents = {}
  Uploaders = {u1, u2}
  Deleters = {d1, d2}
  Sweeper = Sweeper
  None = None
  MaxAttachments = 1
  GCModes = {"async", "sync"}
  MaxFiles = 3
  MaxRefs = 3
  MaxFaults = 1
SYMMETRY Interchangeable
CHECK_DEADLOCK FALSE
INVARIANTS TypeOK NoDanglingReference NeverOvercounted OverrunBounded NoOrphanBlob OneRowPerContent
