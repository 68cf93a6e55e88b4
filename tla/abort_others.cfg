SPECIFICATION Spec
CONSTANTS
  Clients = {c1, c2}
  MaxRuns = 2
INVARIANTS
  AbortSparesOthers
