SPECIFICATION Spec
CONSTANTS
  j1 = j1
  j2 = j2
  c1 = c1
  u1 = u1
  h1 = h1
  h2 = h2
  Job = {j1, j2}
  Content = {c1}
  ContentOf <- OneContent
  User = {u1}
  RequesterOf <- OneRequester
  Horse = {h1, h2}
  None = None
  MaxAttempts = 2
  Version = {1, 2}
  ChecksumKept = FALSE
  Faults = {"soft_delete", "lost_worker", "commit", "commit_lost", "reject"}
SYMMETRY Twins
INVARIANTS NoOrphanObject VersionsDoNotCollide LeftoversAreSweepable
CHECK_DEADLOCK FALSE
