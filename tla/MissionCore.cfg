CONSTANTS
  Mission = {m1}
  NoMission = NoMission
  LastWaypoint = 1
  LastLap = 0
  QueueLimit = 2
  Boot = {"READY"}
  MaxRequests = 3
  MaxAlerts = 1
  MaxRestarts = 0
SPECIFICATION Spec
INVARIANTS AcknowledgedPauseHolds ActiveIsLive OneDriver RunningHasGoal
PROPERTIES EndedForGood
CHECK_DEADLOCK FALSE
