\* Any two-line file, with every failure, SIGINT and SIGKILL, under a fair scheduler.
CONSTANTS
  CountsPerSecond = 3
  NanosPerSecond = 8
  WordSize = 32
  Values = {0, 1}
  FileRows <- AllLines
  Garbage = Garbage
  MaxLines = 2
  MaxTime = 5
SPECIFICATION FairSpec
INVARIANTS TypeOK ExitClears PlaysReadRows NeverEarly CrashCauses ZeroMeansPlayed
PROPERTIES HandlerOnlyClears ImplementsPlayback EveryRunEnds
