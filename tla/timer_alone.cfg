\* One run of dsp has the timer to itself.
CONSTANTS
  p1 = p1
  self = p1
  Procs = {p1}
  LoRange = 3
  MaxTime = 13
SPECIFICATION Spec
PROPERTIES ImplementsStopwatch
