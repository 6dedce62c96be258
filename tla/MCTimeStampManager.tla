------------------------ MODULE MCTimeStampManager --------------------------
(***************************************************************************)
(* Model checking of the cached clock on its own, with a history variable: *)
(* the last reading of the system clock that an update observed.           *)
(***************************************************************************)
EXTENDS TimeStampManager

VARIABLE lastReading

mcVars == <<clockVars, lastReading>>

MCInit ==
  /\ ClockInit
  /\ lastReading \in Readings
  /\ cachedUtcNowTicks = Truncated(lastReading)

Observing(Step(_)) ==
  \E now \in Readings : Step(now) /\ lastReading' = now

MCNext ==
  \/ Observing(Advance)
  \/ Observing(Freeze)
  \/ Observing(DetectDrift)
  \/ RaiseFlag /\ UNCHANGED lastReading
  \/ RequestShutdown /\ UNCHANGED lastReading
  \/ RegisterShutdownAction /\ UNCHANGED lastReading

MCSpec == MCInit /\ [][MCNext]_mcVars /\ ClockFairness

(* Until a drift is detected the served time is the last truncated reading  *)
(* or leads it by less than the allowed drift: a freeze never hides a step  *)
(* back of MaxAllowedDriftSeconds or more, and it ends as soon as the       *)
(* system clock has caught up.                                             *)
ServedTimeTracksClock ==
  ~driftException =>
    LET lead == cachedUtcNowTicks - Truncated(lastReading)
    IN  lead >= 0 /\ lead < MaxAllowedDriftSeconds * TicksPerSecond

=============================================================================
