CONSTANTS
  MaxReading = 2
  TicksPerPrecisionUnit = 1
  TicksPerSecond = 1
  MaxAllowedDriftSeconds = 2
  Threads = {t1, t2}
  MaxSequence = 1
  MaxIds = 4
  ReadGapIsShort = FALSE
SPECIFICATION Spec
INVARIANT Unique
