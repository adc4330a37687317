SPECIFICATION FairSpec

CONSTANTS
  d1 = d1
  d2 = d2
  Reqs = {1, 2, 3, 4}
  Repos = {d1, d2}
  Touched <- Span
  Scored <- Span
  Conflicts <- Clash
  MaxConcurrent = 3
  MaxGate = 2
  MaxRebase = 1
  Answers = {2}
  Faults = {"drop"}
  NoReq = NoReq

CHECK_DEADLOCK FALSE

INVARIANTS
  TypeOK
  
  HaltedIsNotLanded
  OneLandingPerRepo

PROPERTIES
  
  RunEnds
