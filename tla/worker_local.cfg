SPECIFICATION Spec
CONSTANTS
  j1 = j1
  j2 = j2
  c1 = c1
  u1 = u1
  h1 = h1
  h2 = h2
  Job = {j1, j2}
  Content = {c1}
  ContentOf <- OneContent
  User = {u1}
  RequesterOf <- OneRequester
  Horse = {h1, h2}
  None = None
  MaxAttempts = 2
  Version = {1, 2}
  ChecksumKept = TRUE
  Faults <- CrashFaults
SYMMETRY Twins
INVARIANTS TypeOK ImageObjectIntact AttemptsWithinBudget
PROPERTIES KeepsPromise
CHECK_DEADLOCK FALSE
