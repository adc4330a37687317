SPECIFICATION FairSpec

CONSTANTS
  m1 = m1
  m2 = m2
  m3 = m3
  r1 = r1
  r2 = r2
  p1 = p1
  p2 = p2
  p3 = p3
  NoRepo = NoRepo
  Machine = {m1}
  Repo = {r1, r2}
  Run = {p1, p2, p3}
  MachineOf <- SharedMachine
  RepoOf <- OneNoRepo
  ScanOrder <- ScanR1
  LocalHigh <- Disk
  OldBranches <- SeedBranches
  OldArtifacts <- SeedArtifacts
  OldCounters = {}
  HasBranches = FALSE
  MaxTries = 2
  Faults = {}
  WaitExpires = TRUE
  HolderCrashes = TRUE

CHECK_DEADLOCK FALSE

PROPERTY
  RunsEnd
