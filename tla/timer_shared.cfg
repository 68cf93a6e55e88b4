\* Two runs of dsp share the timer.
CONSTANTS
  p1 = p1
  p2 = p2
  Procs = {p1, p2}
  LoRange = 2
  MaxTime = 4
SPECIFICATION Spec
SYMMETRY Symmetry
INVARIANTS TypeOK NeverAhead FreshReading
