CONSTANTS
  ann = ann
  bob = bob
  staff = staff
  d1 = d1
  d2 = d2
  d3 = d3
  q1 = q1
  q2 = q2
  User = {ann, bob}
  Group = {staff}
  Doc = {d1, d2, d3}
  Admin = {ann}
  Creator = {ann}
  Grantee = {bob, staff}
  Request = {q1, q2}
  None = None
  MaxDepth = 3
  MaxBudget = 100
  MaxRequests = 3
SPECIFICATION Spec
SYMMETRY Symmetric
CHECK_DEADLOCK FALSE
INVARIANTS
  TreeSound
  TuplesFollow
  AttachmentsFollow
  EngineExact
