SPECIFICATION Spec
CONSTANTS
  a1 = a1
  a2 = a2
  n1 = n1
  n2 = n2
  n3 = n3
  n4 = n4
  spec = spec
  Agent = {a1, a2}
  Note = {n1, n2, n3, n4}
  Untracked = {n3}
  Beside = {n4}
  Artifact = spec
  Shipped <- MCShipped
  Order <- MCOrder
  Settings <- MCSettings
  Scenarios <- MCScenarios
  MaxEdits = 1
  MaxKills = 1
  MaxRuns = 2
  MaxFences = 2
  MAX_FINDINGS_EXIT = 2
  VACUOUS_SCAN_EXIT = 3
INVARIANTS
  TypeOK
  AlwaysWhole
  RenderSettles
  RefusalLeavesTree
  AppliedAsPlanned
  CleanFileRuns
  GreenMeansChecked
CHECK_DEADLOCK FALSE
