\* Three pool threads: one executing, one about to be skipped, one still queued.
CONSTANTS
  Workers = {w1, w2, w3}
SPECIFICATION FairSpec
INVARIANTS TypeOK NoOverlap NoLostSchedule StopHolds
PROPERTIES RunsOnWhileStarted Quiesces
