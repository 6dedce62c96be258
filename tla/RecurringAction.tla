--------------------------- MODULE RecurringAction --------------------------
(***************************************************************************)
(* RecurringAction: a one-shot timer that a callback arms again after it    *)
(* has run the action.  Start, Stop, Dispose and the rescheduling share     *)
(* _scheduleLock, so each is one step; the claim on _isRunning is taken     *)
(* outside that lock.                                                       *)
(*                                                                         *)
(* The timer is .NET's: a firing hands a callback to the thread pool and    *)
(* disarms the timer, and neither Change nor Dispose recalls a callback     *)
(* already handed over.  Delays are not modelled: an armed timer may fire  *)
(* at any moment, whether it was armed with 0 or with the period.          *)
(***************************************************************************)
CONSTANT Workers  \* bound: the pool threads that can hold a callback

VARIABLES
  isStarted,  \* _isStarted
  disposed,   \* _disposed
  isRunning,  \* _isRunning, the claim that keeps executions apart
  timer,      \* "armed" or "off"
  callback    \* where the callback that a worker holds stands

vars == <<isStarted, disposed, isRunning, timer, callback>>

Stages == {"none", "queued", "running", "failed", "release", "reschedule"}

(* The callback of worker w goes from one stage to another.                *)
Move(w, from, to) ==
  /\ callback[w] = from
  /\ callback' = [callback EXCEPT ![w] = to]

Scheduled(armed) == IF armed THEN "armed" ELSE "off"

(* The constructor arms the timer when it is asked to start.               *)
Init ==
  /\ isStarted \in BOOLEAN
  /\ disposed = FALSE
  /\ isRunning = FALSE
  /\ timer = Scheduled(isStarted)
  /\ callback = [w \in Workers |-> "none"]

-----------------------------------------------------------------------------
(* The owner's calls.                                                      *)

Start ==
  /\ ~disposed
  /\ isStarted' = TRUE
  /\ timer' = Scheduled(TRUE)
  /\ UNCHANGED <<disposed, isRunning, callback>>

(* Mutant: leaves the timer armed.                                         *)
StopFlagOnly ==
  /\ isStarted' = FALSE
  /\ UNCHANGED <<disposed, isRunning, timer, callback>>

Stop ==
  /\ isStarted' = FALSE
  /\ timer' = IF disposed THEN timer ELSE Scheduled(FALSE)
  /\ UNCHANGED <<disposed, isRunning, callback>>

Dispose ==
  /\ ~disposed
  /\ disposed' = TRUE
  /\ isStarted' = FALSE
  /\ timer' = Scheduled(FALSE)
  /\ UNCHANGED <<isRunning, callback>>

-----------------------------------------------------------------------------
(* The timer.                                                              *)

Fire(w) ==
  /\ timer = "armed"
  /\ timer' = "off"
  /\ Move(w, "none", "queued")
  /\ UNCHANGED <<isStarted, disposed, isRunning>>

(* A disposed timer may discard a callback that has not begun.             *)
Discard(w) ==
  /\ disposed
  /\ Move(w, "queued", "none")
  /\ UNCHANGED <<isStarted, disposed, isRunning, timer>>

-----------------------------------------------------------------------------
(* TimerCallbackAsync.                                                     *)

Claim(w) ==
  /\ ~isRunning
  /\ Move(w, "queued", "running")
  /\ isRunning' = TRUE
  /\ UNCHANGED <<isStarted, disposed, timer>>

(* Mutant: the finally block also runs for a callback without the claim.   *)
SkipAndRelease(w) ==
  /\ isRunning
  /\ Move(w, "queued", "none")
  /\ isRunning' = FALSE
  /\ UNCHANGED <<isStarted, disposed, timer>>

Skip(w) ==
  /\ isRunning
  /\ Move(w, "queued", "none")
  /\ UNCHANGED <<isStarted, disposed, isRunning, timer>>

Succeed(w) ==
  /\ Move(w, "running", "release")
  /\ UNCHANGED <<isStarted, disposed, isRunning, timer>>

Fail(w) ==
  /\ Move(w, "running", "failed")
  /\ UNCHANGED <<isStarted, disposed, isRunning, timer>>

(* Mutant: a failure ends the callback without rescheduling.               *)
ReportAndEnd(w) ==
  /\ Move(w, "failed", "none")
  /\ isRunning' = FALSE
  /\ UNCHANGED <<isStarted, disposed, timer>>

(* Mutant: a failure leaves the callback in a state of its own.            *)
ReportAndHang(w) ==
  /\ Move(w, "failed", "hung")
  /\ UNCHANGED <<isStarted, disposed, isRunning, timer>>

(* OnActionFailed has run; an exception of its own is swallowed.           *)
Report(w) ==
  /\ Move(w, "failed", "release")
  /\ UNCHANGED <<isStarted, disposed, isRunning, timer>>

(* Mutant: the claim is never given back.                                  *)
ReleaseNothing(w) ==
  /\ Move(w, "release", "reschedule")
  /\ UNCHANGED <<isStarted, disposed, isRunning, timer>>

Release(w) ==
  /\ Move(w, "release", "reschedule")
  /\ isRunning' = FALSE
  /\ UNCHANGED <<isStarted, disposed, timer>>

(* Mutant: reschedules a stopped action too.                               *)
RescheduleStopped(w) ==
  /\ Move(w, "reschedule", "none")
  /\ timer' = IF ~disposed THEN Scheduled(TRUE) ELSE timer
  /\ UNCHANGED <<isStarted, disposed, isRunning>>

Reschedule(w) ==
  /\ Move(w, "reschedule", "none")
  /\ timer' = IF ~disposed /\ isStarted THEN Scheduled(TRUE) ELSE timer
  /\ UNCHANGED <<isStarted, disposed, isRunning>>

-----------------------------------------------------------------------------
Advance(w) ==
  \/ Claim(w) \/ Skip(w) \/ Succeed(w) \/ Fail(w) \/ Report(w)
  \/ Release(w) \/ Reschedule(w)

Next ==
  \/ Start \/ Stop \/ Dispose
  \/ \E w \in Workers : Fire(w) \/ Discard(w) \/ Advance(w)

Spec == Init /\ [][Next]_vars

(* An armed timer fires, the pool runs what it was given, and the action    *)
(* ends (the library's own action is a short synchronous function).  The   *)
(* owner owes no call.                                                     *)
Fairness ==
  /\ WF_vars(\E w \in Workers : Fire(w))
  /\ \A w \in Workers : WF_vars(Advance(w))

FairSpec == Spec /\ Fairness

-----------------------------------------------------------------------------
(* Types of the variables.                                                 *)
TypeOK ==
  /\ isStarted \in BOOLEAN
  /\ disposed \in BOOLEAN
  /\ isRunning \in BOOLEAN
  /\ timer \in {"armed", "off"}
  /\ callback \in [Workers -> Stages]

(* A worker executes: its callback holds the claim.                        *)
Executes(w) == callback[w] \in {"running", "failed", "release"}

(* Executions never overlap, although Start can make the timer fire while   *)
(* an earlier callback is still at work.                                   *)
NoOverlap == \A v, w \in Workers : Executes(v) /\ Executes(w) => v = w

(* A started action is never forgotten: the timer is armed, or some         *)
(* callback is on its way that will run or rearm it.  A callback skipped   *)
(* because of an execution leaves that execution behind to reschedule.     *)
NoLostSchedule ==
  isStarted => timer = "armed" \/ \E w \in Workers : callback[w] # "none"

(* After Stop or Dispose the timer is off, and it stays off until Start: a  *)
(* callback still at work does not arm it again.                           *)
StopHolds == ~isStarted => timer = "off"

(* An action that stays started is executed again and again.               *)
RunsOnWhileStarted ==
  <>[]isStarted => []<>(\E w \in Workers : callback[w] = "running")

(* A stopped or disposed action comes to rest unless it is started again.  *)
AtRest == timer = "off" /\ \A w \in Workers : callback[w] = "none"

Quiesces == ~isStarted ~> (isStarted \/ AtRest)

=============================================================================
