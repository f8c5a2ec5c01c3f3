SPECIFICATION FairSpec
CONSTANTS
  r1 = r1
  r2 = r2
  k1 = k1
  c1 = c1
  i1 = i1
  s1 = s1
  s2 = s2
  Request = {r1, r2}
  Key = {k1}
  Content = {c1}
  Image = {i1}
  ContentOf <- ImageContent
  StyleOf <- ImageStyle
  Style = {s1, s2}
  None = None
  Faults <- AllFaults
INVARIANTS TypeOK OneJobPerKey AcceptedJobMatches RefusedLeavesNothing RepeatedStyleNeverConflicts
PROPERTIES EveryRequestAnswered
CHECK_DEADLOCK FALSE
