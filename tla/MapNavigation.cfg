CONSTANTS
  Drive = {d1, d2}
  Relocate = {l1}
  Release = {z1}
  Halt = {s1}
  None = None
SPECIFICATION FairSpec
INVARIANTS RefusedIsHalted NoDriveFromBeforeStop
PROPERTIES GateStarts
CHECK_DEADLOCK FALSE
