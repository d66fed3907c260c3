CONSTANTS
  Session = {s1, s2}
  LeaseId = {i1, i2, i3}
  MaxPending = 2
SPECIFICATION FairSpec
PROPERTIES FencedAuthority EndedSessionLosesControl
CHECK_DEADLOCK FALSE
