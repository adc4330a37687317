SPECIFICATION Spec

CONSTANTS
  m1 = m1
  m2 = m2
  r1 = r1
  r2 = r2
  a = a
  b = b
  Machine = {m1, m2}
  Repo = {r1}
  Item = {a, b}
  MachineOf <- TwoMachines
  RepoOf <- AllOnR1
  ScanOrder <- ScanR1
  IsReq = TRUE
  HasBranches = TRUE
  MaxNum = 2
  Faults = {"probe", "push", "reply"}

CHECK_DEADLOCK FALSE

SYMMETRY Swap

INVARIANTS
  FreshTarget
  WonDistinct
