SPECIFICATION Spec
CONSTANTS
  sdk = sdk
  e2e = e2e
  new = new
  Files <- MCFiles
  Discovered <- MCDiscovered
  E2e <- MCE2e
  FullRun <- MCFullRun
  Changes <- MCChanges
  NoCmd = NoCmd
  MaxRuns = 2
  MaxFaults = 1
INVARIANTS
  IInv
  RunningHasCause
  StatusMatchesResult
  SerialIsExact
PROPERTY
  RunMetadataEnds
