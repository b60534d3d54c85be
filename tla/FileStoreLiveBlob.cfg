\* An upload of the same content meets a sweep that has already listed its file.
SPECIFICATION Spec
CONSTANTS
  a = a  b = b  c = c  k = k  doc = doc  u1 = u1  u2 = u2  d1 = d1  d2 = d2
  Contents = {a}
  Comments = {k}
  Documents = {doc}
  Uploaders = {u1}
  Deleters = {d1}
  Sweeper = Sweeper
  None = None
  MaxAttachments = 1
  GCModes = {"async"}
  MaxFiles = 2
  MaxRefs = 2
  MaxFaults = 0
CHECK_DEADLOCK FALSE
INVARIANT LiveBlobPresent
