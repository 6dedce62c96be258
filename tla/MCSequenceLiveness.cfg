CONSTANTS
  MaxReading = 2
  TicksPerPrecisionUnit = 1
  TicksPerSecond = 1
  MaxAllowedDriftSeconds = 2
  Threads = {t1, t2}
  MaxSequence = 0
  MaxIds = 3
  ReadGapIsShort = FALSE
SPECIFICATION FairSpec
INVARIANTS NoFutureScope CounterStaysBounded
PROPERTIES CallsEndOrSleep DriftReleasesThreads
