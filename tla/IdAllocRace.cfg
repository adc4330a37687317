SPECIFICATION Spec

CONSTANTS
  m1 = m1
  m2 = m2
  m3 = m3
  r1 = r1
  r2 = r2
  p1 = p1
  p2 = p2
  p3 = p3
  NoRepo = NoRepo
  Machine = {m1, m2, m3}
  Repo = {r1}
  Run = {p1, p2, p3}
  MachineOf <- OwnMachine
  RepoOf <- AllOnR1
  ScanOrder <- ScanR1
  LocalHigh <- Disk
  OldBranches <- SeedBranches
  OldArtifacts <- SeedArtifacts
  OldCounters = {}
  HasBranches = TRUE
  MaxTries = 2
  Faults = {"push", "reply"}
  WaitExpires = FALSE
  HolderCrashes = FALSE

CHECK_DEADLOCK FALSE

INVARIANTS
  TypeOK
  ReservedDistinct
  FreshAboveFloor
  LedgerSound
  NoLeakedLock

PROPERTY
  ClaimSpec
