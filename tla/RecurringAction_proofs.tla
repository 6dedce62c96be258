----------------------- MODULE RecurringAction_proofs -----------------------
(***************************************************************************)
(* Proofs about RecurringAction for any number of pool threads.            *)
(***************************************************************************)
EXTENDS RecurringAction, TLAPS

(* The claim is taken exactly while some worker executes; without this the  *)
(* claim could outlive every execution, and a skipped callback could be    *)
(* the last one.                                                           *)
ClaimIsHeld == isRunning <=> \E w \in Workers : Executes(w)

DisposedIsStopped == disposed => ~isStarted

IInv ==
  /\ TypeOK
  /\ ClaimIsHeld
  /\ NoOverlap
  /\ NoLostSchedule
  /\ StopHolds
  /\ DisposedIsStopped

LEMMA InitInv == Init => IInv
BY DEF Init, IInv, TypeOK, ClaimIsHeld, NoOverlap, NoLostSchedule, StopHolds,
       DisposedIsStopped, Executes, Scheduled, Stages

(* The owner's calls touch no callback.                                    *)
LEMMA OwnerKeepsInv ==
  ASSUME IInv, Start \/ Stop \/ Dispose
  PROVE  IInv'
<1> USE DEF IInv, TypeOK, Scheduled
<1>1. UNCHANGED <<isRunning, callback>>
  BY DEF Start, Stop, Dispose
<1>2. ClaimIsHeld' /\ NoOverlap'
  BY <1>1 DEF ClaimIsHeld, NoOverlap, Executes
<1>3. CASE Start
  BY <1>2, <1>3 DEF Start, NoLostSchedule, StopHolds, DisposedIsStopped
<1>4. CASE Stop
  BY <1>2, <1>4 DEF Stop, NoLostSchedule, StopHolds, DisposedIsStopped
<1>5. CASE Dispose
  BY <1>2, <1>5 DEF Dispose, NoLostSchedule, StopHolds, DisposedIsStopped
<1>6. QED
  BY <1>3, <1>4, <1>5

(* What a worker's move does to who executes.                              *)
LEMMA MoveFacts ==
  ASSUME TypeOK, NEW w \in Workers, NEW from \in Stages, NEW to \in Stages,
         Move(w, from, to)
  PROVE  /\ callback' \in [Workers -> Stages]
         /\ callback[w] = from /\ callback'[w] = to
         /\ \A v \in Workers \ {w} : callback'[v] = callback[v]
BY DEF TypeOK, Move

(* The timer hands over a callback, or takes one back once it is disposed.  *)
LEMMA TimerKeepsInv ==
  ASSUME IInv, NEW w \in Workers, Fire(w) \/ Discard(w)
  PROVE  IInv'
<1> USE DEF IInv, TypeOK, Stages
<1>1. CASE Fire(w)
  <2>1. /\ callback' \in [Workers -> Stages] /\ callback'[w] = "queued"
        /\ callback[w] = "none"
        /\ \A v \in Workers \ {w} : callback'[v] = callback[v]
    BY <1>1, MoveFacts DEF Fire
  <2>2. QED
    BY <1>1, <2>1 DEF Fire, ClaimIsHeld, NoOverlap, NoLostSchedule, StopHolds,
                      DisposedIsStopped, Executes
<1>2. CASE Discard(w)
  <2>1. /\ callback' \in [Workers -> Stages] /\ callback'[w] = "none"
        /\ callback[w] = "queued"
        /\ \A v \in Workers \ {w} : callback'[v] = callback[v]
    BY <1>2, MoveFacts DEF Discard
  <2>2. QED
    BY <1>2, <2>1 DEF Discard, ClaimIsHeld, NoOverlap, NoLostSchedule, StopHolds,
                      DisposedIsStopped, Executes
<1>3. QED
  BY <1>1, <1>2

LEMMA AdvanceKeepsInv ==
  ASSUME IInv, NEW w \in Workers, Advance(w)
  PROVE  IInv'
<1> USE DEF IInv, TypeOK, Stages, ClaimIsHeld, NoOverlap, NoLostSchedule, StopHolds,
            DisposedIsStopped, Executes
<1>1. CASE Claim(w)
  <2>1. /\ callback' \in [Workers -> Stages] /\ callback'[w] = "running"
        /\ \A v \in Workers \ {w} : callback'[v] = callback[v]
    BY <1>1, MoveFacts DEF Claim
  <2>2. QED
    BY <1>1, <2>1 DEF Claim
<1>2. CASE Skip(w)
  <2>1. /\ callback' \in [Workers -> Stages] /\ callback'[w] = "none"
        /\ callback[w] = "queued"
        /\ \A v \in Workers \ {w} : callback'[v] = callback[v]
    BY <1>2, MoveFacts DEF Skip
  <2>2. PICK v \in Workers : Executes(v)
    BY <1>2 DEF Skip
  <2>3. v # w /\ callback'[v] = callback[v]
    BY <2>1, <2>2
  <2>4. NoLostSchedule' /\ ClaimIsHeld'
    BY <1>2, <2>1, <2>2, <2>3 DEF Skip
  <2>5. NoOverlap'
    BY <2>1
  <2>6. QED
    BY <1>2, <2>1, <2>4, <2>5 DEF Skip
<1>3. ASSUME NEW from \in {"running", "failed"}, NEW to \in {"failed", "release"},
             Move(w, from, to), UNCHANGED <<isStarted, disposed, isRunning, timer>>
      PROVE  IInv'
  <2>1. /\ callback' \in [Workers -> Stages] /\ callback[w] = from /\ callback'[w] = to
        /\ \A v \in Workers \ {w} : callback'[v] = callback[v]
    BY <1>3, MoveFacts
  <2>2. \A v \in Workers : Executes(v)' <=> Executes(v)
    BY <1>3, <2>1
  <2>3. ClaimIsHeld' /\ NoOverlap'
    BY <1>3, <2>2
  <2>4. QED
    BY <1>3, <2>1, <2>3
<1>4. CASE Release(w)
  <2>1. /\ callback' \in [Workers -> Stages] /\ callback'[w] = "reschedule"
        /\ callback[w] = "release"
        /\ \A v \in Workers \ {w} : callback'[v] = callback[v]
    BY <1>4, MoveFacts DEF Release
  <2>2. \A v \in Workers : ~Executes(v)'
    BY <2>1
  <2>3. QED
    BY <1>4, <2>1, <2>2 DEF Release
<1>5. CASE Reschedule(w)
  <2>1. /\ callback' \in [Workers -> Stages] /\ callback'[w] = "none"
        /\ callback[w] = "reschedule"
        /\ \A v \in Workers \ {w} : callback'[v] = callback[v]
    BY <1>5, MoveFacts DEF Reschedule
  <2>2. QED
    BY <1>5, <2>1 DEF Reschedule, Scheduled
<1>6. QED
  BY <1>1, <1>2, <1>3, <1>4, <1>5 DEF Advance, Succeed, Fail, Report

(* The inductive invariant of the recurring action.                        *)
THEOREM Invariance == Spec => []IInv
<1>1. IInv /\ [Next]_vars => IInv'
  <2>1. CASE UNCHANGED vars
    BY <2>1 DEF vars, IInv, TypeOK, ClaimIsHeld, NoOverlap, NoLostSchedule,
                StopHolds, DisposedIsStopped, Executes
  <2>2. QED
    BY <2>1, OwnerKeepsInv, TimerKeepsInv, AdvanceKeepsInv DEF Next
<1>2. QED
  BY <1>1, InitInv, PTL DEF Spec

(* Executions of the action never overlap, however many threads the pool    *)
(* has and whenever the owner calls Start, Stop and Dispose.               *)
THEOREM ExecutionsDoNotOverlap == Spec => []NoOverlap
<1>1. IInv => NoOverlap
  BY DEF IInv
<1>2. QED
  BY <1>1, Invariance, PTL

(* A started action always has an armed timer or a callback on its way.    *)
THEOREM ScheduleIsNeverLost == Spec => []NoLostSchedule
<1>1. IInv => NoLostSchedule
  BY DEF IInv
<1>2. QED
  BY <1>1, Invariance, PTL

(* A stopped or disposed action is not armed again by a late callback.     *)
THEOREM StopIsRespected == Spec => []StopHolds
<1>1. IInv => StopHolds
  BY DEF IInv
<1>2. QED
  BY <1>1, Invariance, PTL

(* The variables of the recurring action keep their types.                 *)
THEOREM TypeCorrect == Spec => []TypeOK
<1>1. IInv => TypeOK
  BY DEF IInv
<1>2. QED
  BY <1>1, Invariance, PTL

=============================================================================
