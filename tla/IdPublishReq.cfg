SPECIFICATION Spec

CONSTANTS
  m1 = m1
  m2 = m2
  r1 = r1
  r2 = r2
  a = a
  b = b
  Machine = {m1, m2}
  Repo = {r1, r2}
  Item = {a, b}
  MachineOf <- TwoMachines
  RepoOf <- BOnR2
  ScanOrder <- ScanAll
  IsReq = TRUE
  HasBranches = TRUE
  MaxNum = 2
  Faults = {"derive", "push"}

CHECK_DEADLOCK FALSE

INVARIANTS
  TypeOK
  QuietMeansFree
  NoFalseHalt
