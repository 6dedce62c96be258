-------------------------- MODULE TimeStampManager --------------------------
(***************************************************************************)
(* The process-wide cached clock (TimeStampManager) and the shutdown hook   *)
(* it uses (ApplicationLifetime).                                          *)
(*                                                                         *)
(* A recurring action reads the system clock, truncates it to a precision  *)
(* unit and publishes it.  A small step back of the system clock freezes   *)
(* the published value; a large one raises a drift exception, after which  *)
(* every reader throws, and asks the host to stop.                         *)
(*                                                                         *)
(* The system clock is not a variable: an update observes any reading in   *)
(* 0..MaxReading, so the clock may jump either way between two updates.    *)
(* Readings are counted from the epoch.  Updates do not overlap: the       *)
(* module RecurringAction shows that of the timer that runs them.          *)
(***************************************************************************)
EXTENDS Integers

CONSTANTS
  MaxReading,             \* bound: the largest reading of the system clock
  TicksPerPrecisionUnit,  \* clock ticks in one 250 ms unit
  TicksPerSecond,         \* clock ticks in one second
  MaxAllowedDriftSeconds  \* a step back this large is critical

ASSUME ClockAssumption ==
  /\ MaxReading \in Nat
  /\ TicksPerPrecisionUnit \in Nat \ {0}
  /\ TicksPerSecond \in Nat \ {0}
  /\ MaxAllowedDriftSeconds \in Nat \ {0}

VARIABLES
  cachedUtcNowTicks,  \* the published time
  driftException,     \* TRUE once the exception object exists
  driftDetected,      \* the flag every reader tests first
  update,             \* where Update stands: "idle", "flag" or "request"
  shutdownAction,     \* TRUE once the host has registered its stop action
  shutdownRequested   \* TRUE once that action has been invoked

clockVars == <<cachedUtcNowTicks, driftException, driftDetected, update,
               shutdownAction, shutdownRequested>>

Readings == 0..MaxReading

(* Mutant: rounds up instead of down.                                      *)
RoundedUp(now) == now + (TicksPerPrecisionUnit - (now % TicksPerPrecisionUnit))

Truncated(now) == now - (now % TicksPerPrecisionUnit)

DriftSeconds(now) == (cachedUtcNowTicks - Truncated(now)) \div TicksPerSecond

(* CurrentTimestamp(epoch): whole units since the epoch.  A reader may call *)
(* it only while Readable holds; otherwise it throws.                       *)
Readable == ~driftDetected

CurrentTimestamp == cachedUtcNowTicks \div TicksPerPrecisionUnit

(* The static initializer runs Update once before any reader.              *)
ClockInit ==
  /\ cachedUtcNowTicks \in {Truncated(now) : now \in Readings}
  /\ driftException = FALSE
  /\ driftDetected = FALSE
  /\ update = "idle"
  /\ shutdownAction = FALSE
  /\ shutdownRequested = FALSE

(* Mutant: publishes every reading.                                        *)
AdvanceAlways(now) ==
  /\ update = "idle"
  /\ cachedUtcNowTicks' = Truncated(now)
  /\ UNCHANGED <<driftException, driftDetected, update, shutdownAction,
                 shutdownRequested>>

(* Mutant: tolerates one second more.                                      *)
FreezeLonger(now) ==
  /\ update = "idle"
  /\ Truncated(now) < cachedUtcNowTicks
  /\ DriftSeconds(now) <= MaxAllowedDriftSeconds
  /\ UNCHANGED clockVars

(* Mutant: raises the flag before the exception exists.                    *)
FlagBeforeException(now) ==
  /\ update = "idle"
  /\ Truncated(now) < cachedUtcNowTicks
  /\ DriftSeconds(now) >= MaxAllowedDriftSeconds
  /\ driftDetected' = TRUE
  /\ update' = "flag"
  /\ UNCHANGED <<cachedUtcNowTicks, driftException, shutdownAction,
                 shutdownRequested>>

(* The three outcomes of reading the clock in Update.                      *)
Advance(now) ==
  /\ update = "idle"
  /\ Truncated(now) >= cachedUtcNowTicks
  /\ cachedUtcNowTicks' = Truncated(now)
  /\ UNCHANGED <<driftException, driftDetected, update, shutdownAction,
                 shutdownRequested>>

Freeze(now) ==
  /\ update = "idle"
  /\ Truncated(now) < cachedUtcNowTicks
  /\ DriftSeconds(now) < MaxAllowedDriftSeconds
  /\ UNCHANGED clockVars

DetectDrift(now) ==
  /\ update = "idle"
  /\ Truncated(now) < cachedUtcNowTicks
  /\ DriftSeconds(now) >= MaxAllowedDriftSeconds
  /\ driftException' = TRUE
  /\ update' = "flag"
  /\ UNCHANGED <<cachedUtcNowTicks, driftDetected, shutdownAction,
                 shutdownRequested>>

(* Mutant: returns without requesting the shutdown.                        *)
RaiseFlagOnly ==
  /\ update = "flag"
  /\ driftDetected' = TRUE
  /\ update' = "idle"
  /\ UNCHANGED <<cachedUtcNowTicks, driftException, shutdownAction,
                 shutdownRequested>>

(* The exception is stored before the flag that makes readers throw it.    *)
RaiseFlag ==
  /\ update = "flag"
  /\ driftDetected' = TRUE
  /\ update' = "request"
  /\ UNCHANGED <<cachedUtcNowTicks, driftException, shutdownAction,
                 shutdownRequested>>

(* ShutdownAction?.Invoke(): nothing happens when none is registered.      *)
RequestShutdown ==
  /\ update = "request"
  /\ shutdownRequested' = (shutdownRequested \/ shutdownAction)
  /\ update' = "idle"
  /\ UNCHANGED <<cachedUtcNowTicks, driftException, driftDetected,
                 shutdownAction>>

(* The host assigns the stop action while it builds the application.       *)
RegisterShutdownAction ==
  /\ ~shutdownAction
  /\ shutdownAction' = TRUE
  /\ UNCHANGED <<cachedUtcNowTicks, driftException, driftDetected, update,
                 shutdownRequested>>

ClockNext ==
  \/ \E now \in Readings : Advance(now)
  \/ \E now \in Readings : Freeze(now)
  \/ \E now \in Readings : DetectDrift(now)
  \/ RaiseFlag
  \/ RequestShutdown
  \/ RegisterShutdownAction

ClockFairness == WF_clockVars(RaiseFlag) /\ WF_clockVars(RequestShutdown)

ClockSpec == ClockInit /\ [][ClockNext]_clockVars /\ ClockFairness

-----------------------------------------------------------------------------
(* Types of the clock's variables.                                         *)
ClockTypeOK ==
  /\ cachedUtcNowTicks \in Readings
  /\ driftException \in BOOLEAN
  /\ driftDetected \in BOOLEAN
  /\ update \in {"idle", "flag", "request"}
  /\ shutdownAction \in BOOLEAN
  /\ shutdownRequested \in BOOLEAN

(* A reader that sees the drift flag finds an exception to throw, whichever *)
(* of the two plain writes of Update it falls between.                     *)
FlagHasException == driftDetected => driftException

(* The served time never goes back, whatever the system clock does, and     *)
(* the drift verdict is final: what the id generator relies on.            *)
TimeIsMonotone ==
  [][ /\ cachedUtcNowTicks' >= cachedUtcNowTicks
      /\ driftDetected => driftDetected' ]_clockVars

(* A drift that is detected while the host has its stop action registered  *)
(* ends with the host asked to stop.                                       *)
DriftStopsHost == (update = "flag" /\ shutdownAction) ~> shutdownRequested

=============================================================================
