CONSTANTS
  Command = {c1, c2}
  NoCommand = NoCommand
  TargetSets = {{"robot_1"}, {"robot_1", "robot_2"}}
  QueueLimit = 1
  MaxRequests = 3
  MaxRestarts = 1
SPECIFICATION FairSpec
INVARIANTS LanesMatchRows RunningIsOwned NoFalseSuccess
PROPERTIES JournalKept CommandsConclude
CHECK_DEADLOCK FALSE
