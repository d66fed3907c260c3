CONSTANTS
  Mission = {m1}
  NoMission = NoMission
  LastWaypoint = 0
  LastLap = 0
  QueueLimit = 1
  Boot = {"READY"}
  MaxRequests = 2
  MaxAlerts = 1
  MaxRestarts = 0
SPECIFICATION Spec
PROPERTIES LifecycleKept
CHECK_DEADLOCK FALSE
