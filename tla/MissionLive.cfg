CONSTANTS
  Mission = {m1}
  NoMission = NoMission
  LastWaypoint = 0
  LastLap = 0
  QueueLimit = 2
  Boot = {"NONE", "DRAFT"}
  MaxRequests = 4
  MaxAlerts = 0
  MaxRestarts = 1
SPECIFICATION FairSpec
INVARIANTS MotionNeedsOperator StartingIsServed
PROPERTIES CommandsFinish HaltCompletes TimeoutFires
CHECK_DEADLOCK FALSE
