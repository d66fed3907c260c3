CONSTANTS
  Goal = {g1, g2}
  NoGoal = NoGoal
SPECIFICATION FairSpec
INVARIANTS LatchHolds OrphanFree NoGoalSurvivesStop
PROPERTIES StopReachesNav2 Deadman
