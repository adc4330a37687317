SPECIFICATION Spec
CONSTANTS
  Configs <- MCConfigs
  Scenarios <- MCScenarios
  MaxSaves = 1
INVARIANTS
  TypeOK
  SentByConsent
  KeyOfItsEndpoint
  GateAgreesWithCall
  OneVerdictPerFile
  CleanBillMeansWorking
  OverrideIsReported
CHECK_DEADLOCK FALSE
