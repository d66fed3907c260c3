CONSTANTS
  Session = {s1}
  LeaseId = {i1}
  Tab = {t1, t2}
  Tick = Tick
  MaxSeq = 2
SPECIFICATION FairSpec
INVARIANTS MovingIsSupervised
PROPERTIES NewestWins InputEnds LossStopsBoth
