CONSTANTS
  MaxReading = 13
  TicksPerPrecisionUnit = 2
  TicksPerSecond = 4
  MaxAllowedDriftSeconds = 2
SPECIFICATION MCSpec
INVARIANTS ClockTypeOK FlagHasException ServedTimeTracksClock
PROPERTIES TimeIsMonotone DriftStopsHost
