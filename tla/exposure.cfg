SPECIFICATION Spec
CONSTANTS
  Clients = {c1, c2}
  PinWidth = 2
  Exposures <- MCExposures
INVARIANTS
  TypeOK
  LitMeansDue
  UndisturbedShowsDue
  OnForItsTime
  NotLonger
  QuietIsDark
