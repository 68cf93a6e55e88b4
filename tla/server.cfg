SPECIFICATION FairSpec
CONSTANTS
  Clients = {c1, c2}
  MaxRuns = 2
INVARIANTS
  TypeOK
  LastCanBeAborted
  DoneMeansOver
  QuietIsDark
  OnlyKilledLeavesOutputs
  StartsAfterLoad
PROPERTIES
  TrigCollectReturns
