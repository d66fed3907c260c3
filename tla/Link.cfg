CONSTANTS
  Call = {n1}
  Navigation = {n1}
  NoCall = NoCall
  Delays = 1
  MaxSockets = 2
  Viewer = {v1, v2}
  Scaled = {v1}
SPECIFICATION FairCameraSpec
INVARIANTS AcceptedWasDone GoalOfThisConnection WorkerFollowsViewers
PROPERTIES LateAnswersAreSilent CameraShowsPresent CallsConclude
CHECK_DEADLOCK FALSE
