SPECIFICATION Spec

CONSTANTS
  d1 = d1
  d2 = d2
  Reqs = {1, 2}
  Repos = {d1, d2}
  Touched <- One
  Scored <- One
  Conflicts <- Clash
  MaxConcurrent = 2
  MaxGate = 1
  MaxRebase = 1
  Answers = {2}
  Faults = {}
  NoReq = NoReq

CHECK_DEADLOCK FALSE

INVARIANTS
  UnresolvedIsNotMerged
