----------------------- MODULE SequenceManager_proofs -----------------------
(***************************************************************************)
(* Proofs about the cached clock for any readings of the system clock, and *)
(* about the id generator for any number of threads, any capacity and any  *)
(* clock: types and the bound of the counters always, and under the timing *)
(* assumption ReadGapIsShort the uniqueness of ids and the refinement of   *)
(* UniqueIds.                                                              *)
(***************************************************************************)
EXTENDS SequenceManager, MCTimeStampManager, FiniteSetTheorems, TLAPS

Scopes == [ts : Nat, lastId : Nat \cup {-1}]

IdRecords == [ts : Nat, seq : Nat]

-----------------------------------------------------------------------------
(* Integer division as the clock uses it.                                  *)

LEMMA DivMod ==
  ASSUME NEW a \in Nat, NEW d \in Nat \ {0}
  PROVE  /\ a % d \in 0..(d - 1)
         /\ a \div d \in Int
         /\ a = d * (a \div d) + (a % d)
OBVIOUS

LEMMA DivIsNat ==
  ASSUME NEW a \in Nat, NEW d \in Nat \ {0}
  PROVE  a \div d \in Nat
BY DivMod

LEMMA ModAtMost ==
  ASSUME NEW a \in Nat, NEW d \in Nat \ {0}
  PROVE  a % d \in 0..a
BY DivMod

LEMMA DivMonotone ==
  ASSUME NEW a \in Nat, NEW b \in Nat, a <= b, NEW d \in Nat \ {0}
  PROVE  a \div d <= b \div d
BY DivMod

(* A truncated reading is a reading.                                       *)
LEMMA TruncatedIsReading ==
  ASSUME NEW now \in Readings
  PROVE  Truncated(now) \in Readings
BY ModAtMost, ClockAssumption DEF Readings, Truncated

(* Publishing a scope, and counting in one, as the sequence of scopes sees  *)
(* them: no step changes the stamp of a published scope.                   *)
LEMMA AppendedScope ==
  ASSUME NEW s \in Seq(Scopes), NEW n \in Nat
  PROVE  LET r == Append(s, NewScope(n)) IN
         /\ r \in Seq(Scopes)
         /\ Len(r) = Len(s) + 1
         /\ \A i \in 1..Len(s) : r[i] = s[i]
         /\ r[Len(r)].ts = n
         /\ r[Len(r)].lastId = -1
BY DEF Scopes, NewScope

LEMMA ScopeFields ==
  ASSUME NEW s \in Seq(Scopes), NEW i \in 1..Len(s)
  PROVE  s[i] \in Scopes /\ s[i].ts \in Nat /\ s[i].lastId \in Nat \cup {-1}
<1>1. s[i] \in Scopes
  OBVIOUS
<1>2. QED
  BY <1>1 DEF Scopes

LEMMA CountedScope ==
  ASSUME NEW s \in Seq(Scopes), NEW c \in 1..Len(s), NEW n \in Nat
  PROVE  LET r == [s EXCEPT ![c].lastId = n] IN
         /\ r \in Seq(Scopes)
         /\ Len(r) = Len(s)
         /\ \A i \in 1..Len(s) : r[i].ts = s[i].ts
         /\ \A i \in 1..Len(s) : i # c => r[i] = s[i]
         /\ r[c].lastId = n
<1> DEFINE e == [s[c] EXCEPT !.lastId = n]
<1>1. s[c] \in Scopes
  BY ScopeFields
<1>2. e \in Scopes /\ e.ts = s[c].ts /\ e.lastId = n
  BY <1>1 DEF Scopes
<1> HIDE DEF e
<1>3. [s EXCEPT ![c] = e] \in Seq(Scopes) /\ Len([s EXCEPT ![c] = e]) = Len(s)
  BY <1>2
<1>4. \A i \in 1..Len(s) : [s EXCEPT ![c] = e][i] = IF i = c THEN e ELSE s[i]
  BY <1>2
<1>5. QED
  BY <1>2, <1>3, <1>4 DEF e

-----------------------------------------------------------------------------
(* The clock.                                                              *)

(* A step of the clock keeps its types and never takes the served time      *)
(* back, whatever the readings of the system clock are.                    *)
LEMMA ClockStepFacts ==
  ASSUME ClockTypeOK, ClockNext
  PROVE  ClockTypeOK' /\ cachedUtcNowTicks' >= cachedUtcNowTicks
<1> USE DEF ClockTypeOK
<1>1. ASSUME NEW now \in Readings, Advance(now)
      PROVE  ClockTypeOK' /\ cachedUtcNowTicks' >= cachedUtcNowTicks
  BY <1>1, TruncatedIsReading DEF Advance
<1>2. ASSUME NEW now \in Readings, Freeze(now)
      PROVE  ClockTypeOK' /\ cachedUtcNowTicks' >= cachedUtcNowTicks
  BY <1>2 DEF Freeze, clockVars, Readings
<1>3. ASSUME NEW now \in Readings, DetectDrift(now)
      PROVE  ClockTypeOK' /\ cachedUtcNowTicks' >= cachedUtcNowTicks
  BY <1>3 DEF DetectDrift, Readings
<1>4. CASE RaiseFlag
  BY <1>4 DEF RaiseFlag, Readings
<1>5. CASE RequestShutdown
  BY <1>5 DEF RequestShutdown, Readings
<1>6. CASE RegisterShutdownAction
  BY <1>6 DEF RegisterShutdownAction, Readings
<1>7. QED
  BY <1>1, <1>2, <1>3, <1>4, <1>5, <1>6 DEF ClockNext

LEMMA TimestampFacts ==
  ASSUME ClockTypeOK
  PROVE  CurrentTimestamp \in Nat /\ CurrentTimestamp <= MaxTimestamp
BY DivIsNat, DivMonotone, ClockAssumption
   DEF ClockTypeOK, Readings, CurrentTimestamp, MaxTimestamp

LEMMA TimestampMonotone ==
  ASSUME ClockTypeOK, ClockTypeOK', cachedUtcNowTicks' >= cachedUtcNowTicks
  PROVE  /\ CurrentTimestamp \in Nat /\ CurrentTimestamp' \in Nat
         /\ CurrentTimestamp' >= CurrentTimestamp
<1>1. cachedUtcNowTicks \in Nat /\ cachedUtcNowTicks' \in Nat
  BY ClockAssumption DEF ClockTypeOK, Readings
<1>2. cachedUtcNowTicks \div TicksPerPrecisionUnit
        <= cachedUtcNowTicks' \div TicksPerPrecisionUnit
  BY <1>1, DivMonotone, ClockAssumption
<1>3. /\ cachedUtcNowTicks \div TicksPerPrecisionUnit \in Nat
      /\ cachedUtcNowTicks' \div TicksPerPrecisionUnit \in Nat
  BY <1>1, DivIsNat, ClockAssumption
<1>4. QED
  BY <1>2, <1>3 DEF CurrentTimestamp

-----------------------------------------------------------------------------
(* The clock on its own, with the last reading of the system clock.        *)

LEMMA TimesMonotone ==
  ASSUME NEW a \in Nat, NEW b \in Nat, a <= b, NEW d \in Nat
  PROVE  a * d \in Nat /\ b * d \in Nat /\ a * d <= b * d
<1>1. PICK k \in Nat : b = a + k
  BY b - a \in Nat
<1>2. b * d = a * d + k * d /\ a * d \in Nat /\ k * d \in Nat
  BY <1>1
<1> QED BY <1>2

(* A drift of fewer than m whole seconds is a drift of less than m seconds. *)
LEMMA DivBelow ==
  ASSUME NEW a \in Nat, NEW d \in Nat \ {0}, NEW m \in Nat, a \div d < m
  PROVE  a < m * d
<1>1. /\ a \div d \in Nat /\ a % d \in 0..(d - 1)
      /\ a = d * (a \div d) + (a % d)
  OBVIOUS
<1> DEFINE q == a \div d
<1>2. /\ (q + 1) * d \in Nat /\ m * d \in Nat /\ (q + 1) * d <= m * d
  BY <1>1, TimesMonotone
<1>3. (q + 1) * d = d * q + d
  BY <1>1
<1> QED BY <1>1, <1>2, <1>3

(* The exception exists from the detection on, before the flag is raised,  *)
(* and nothing takes either back.                                          *)
ClockInv ==
  /\ ClockTypeOK
  /\ lastReading \in Readings
  /\ FlagHasException
  /\ update = "flag" => driftException
  /\ ServedTimeTracksClock

LEMMA ClockInvInit == MCInit => ClockInv
<1> SUFFICES ASSUME MCInit PROVE ClockInv
  OBVIOUS
<1>1. ClockTypeOK /\ lastReading \in Readings
  BY TruncatedIsReading DEF MCInit, ClockInit, ClockTypeOK
<1>2. cachedUtcNowTicks = Truncated(lastReading) /\ cachedUtcNowTicks \in Int
  BY <1>1 DEF MCInit, ClockTypeOK, Readings
<1>3. 0 < MaxAllowedDriftSeconds * TicksPerSecond
  BY ClockAssumption, TimesMonotone, 1 <= MaxAllowedDriftSeconds
<1> QED
  BY <1>1, <1>2, <1>3
     DEF MCInit, ClockInit, ClockInv, FlagHasException, ServedTimeTracksClock

LEMMA ObservingIsClockStep == MCNext => ClockNext
BY DEF MCNext, Observing, ClockNext

LEMMA ClockInvStep == ClockInv /\ [MCNext]_mcVars => ClockInv'
<1> SUFFICES ASSUME ClockInv, [MCNext]_mcVars PROVE ClockInv'
  OBVIOUS
<1> DEFINE limit == MaxAllowedDriftSeconds * TicksPerSecond
<1>1. limit \in Nat /\ 0 < limit
  BY ClockAssumption, TimesMonotone, 1 <= MaxAllowedDriftSeconds
<1>2. CASE UNCHANGED mcVars
  BY <1>2 DEF mcVars, clockVars, ClockInv, ClockTypeOK, FlagHasException,
     ServedTimeTracksClock
<1>3. CASE MCNext
  <2>1. ClockTypeOK'
    BY <1>3, ObservingIsClockStep, ClockStepFacts DEF ClockInv
  <2>2. ASSUME NEW now \in Readings, Advance(now), lastReading' = now
        PROVE  ClockInv'
    <3>1. Truncated(now) \in Readings
      BY TruncatedIsReading
    <3>2. cachedUtcNowTicks' - Truncated(lastReading') = 0
      BY <2>2, <3>1 DEF Advance, Readings
    <3> QED
      BY <1>1, <2>1, <2>2, <3>2
         DEF ClockInv, FlagHasException, ServedTimeTracksClock, Advance
  <2>3. ASSUME NEW now \in Readings, Freeze(now), lastReading' = now
        PROVE  ClockInv'
    <3> DEFINE lead == cachedUtcNowTicks - Truncated(now)
    <3>1. lead \in Nat
      BY <2>3, TruncatedIsReading DEF ClockInv, ClockTypeOK, Freeze, Readings
    <3>2. lead < limit
      BY <2>3, <3>1, DivBelow, ClockAssumption DEF Freeze, DriftSeconds
    <3> QED
      BY <2>1, <2>3, <3>1, <3>2
         DEF ClockInv, FlagHasException, ServedTimeTracksClock, Freeze, clockVars
  <2>4. ASSUME NEW now \in Readings, DetectDrift(now), lastReading' = now
        PROVE  ClockInv'
    BY <2>1, <2>4
       DEF ClockInv, FlagHasException, ServedTimeTracksClock, DetectDrift
  <2>5. CASE RaiseFlag /\ UNCHANGED lastReading
    BY <2>1, <2>5
       DEF ClockInv, FlagHasException, ServedTimeTracksClock, RaiseFlag
  <2>6. CASE RequestShutdown /\ UNCHANGED lastReading
    BY <2>1, <2>6
       DEF ClockInv, FlagHasException, ServedTimeTracksClock, RequestShutdown
  <2>7. CASE RegisterShutdownAction /\ UNCHANGED lastReading
    BY <2>1, <2>7
       DEF ClockInv, FlagHasException, ServedTimeTracksClock,
           RegisterShutdownAction
  <2> QED
    BY <1>3, <2>2, <2>3, <2>4, <2>5, <2>6, <2>7 DEF MCNext, Observing
<1> QED BY <1>2, <1>3

LEMMA ClockInvariant == MCSpec => []ClockInv
BY ClockInvInit, ClockInvStep, PTL DEF MCSpec

(* The clock's variables keep their types for every clock and limit.       *)
THEOREM ClockTypeCorrect == MCSpec => []ClockTypeOK
<1>1. ClockInv => ClockTypeOK
  BY DEF ClockInv
<1> QED BY <1>1, ClockInvariant, PTL

(* Whoever sees the drift flag finds the exception to throw.               *)
THEOREM ExceptionBeforeFlag == MCSpec => []FlagHasException
<1>1. ClockInv => FlagHasException
  BY DEF ClockInv
<1> QED BY <1>1, ClockInvariant, PTL

(* Until drift is detected the served time leads the system clock by less  *)
(* than the allowed drift, for every precision and every limit.            *)
THEOREM ClockIsTracked == MCSpec => []ServedTimeTracksClock
<1>1. ClockInv => ServedTimeTracksClock
  BY DEF ClockInv
<1> QED BY <1>1, ClockInvariant, PTL

(* The served time never goes back and drift is final, for every clock.    *)
THEOREM ServedTimeIsMonotone == MCSpec => TimeIsMonotone
<1> DEFINE A == /\ cachedUtcNowTicks' >= cachedUtcNowTicks
                /\ driftDetected => driftDetected'
<1>1. ClockInv /\ [MCNext]_mcVars => [A]_clockVars
  <2> SUFFICES ASSUME ClockInv, MCNext PROVE A
    BY DEF mcVars
  <2>1. cachedUtcNowTicks' >= cachedUtcNowTicks
    BY ObservingIsClockStep, ClockStepFacts DEF ClockInv
  <2>2. driftDetected => driftDetected'
    BY DEF MCNext, Observing, Advance, Freeze, DetectDrift, RaiseFlag,
       RequestShutdown, RegisterShutdownAction, clockVars
  <2> QED BY <2>1, <2>2
<1> QED BY <1>1, ClockInvariant, PTL DEF MCSpec, TimeIsMonotone

-----------------------------------------------------------------------------
(* Types.                                                                  *)

LEMMA InitTyped == Init => TypeOK
<1> SUFFICES ASSUME Init PROVE TypeOK
  OBVIOUS
<1>1. ClockTypeOK
  BY TruncatedIsReading DEF Init, ClockInit, ClockTypeOK
<1>2. SeqTypeOK
  BY <1>1, TimestampFacts
     DEF Init, SeqInit, SeqTypeOK, NewScope, Steps, NotCalling
<1>3. QED
  BY <1>1, <1>2 DEF TypeOK

(* The steps that touch only a thread's own locals.                        *)
LocalStep(t) ==
  \/ Begin(t) \/ CheckScope(t) \/ Load(t) \/ AwaitTick(t) \/ ReadStamp(t)
  \/ ReadExpected(t) \/ SwapLost(t) \/ Reread(t) \/ Compare(t) \/ Renew(t)
  \/ Throw(t)

LEMMA LocalStepTyped ==
  ASSUME TypeOK, NEW t \in Threads, LocalStep(t)
  PROVE  SeqTypeOK' /\ UNCHANGED <<scopes, issued>>
<1> USE TimestampFacts DEF TypeOK, SeqTypeOK, Goto, Steps, TimeScope
<1>1. CASE Begin(t)
  BY <1>1 DEF Begin
<1>2. CASE CheckScope(t)
  BY <1>2 DEF CheckScope
<1>3. CASE Load(t)
  BY <1>3 DEF Load
<1>4. CASE AwaitTick(t)
  BY <1>4 DEF AwaitTick
<1>5. CASE ReadStamp(t)
  BY <1>5 DEF ReadStamp
<1>6. CASE ReadExpected(t)
  BY <1>6 DEF ReadExpected
<1>7. CASE SwapLost(t)
  BY <1>7 DEF SwapLost
<1>8. CASE Reread(t)
  BY <1>8 DEF Reread
<1>9. CASE Compare(t)
  BY <1>9 DEF Compare
<1>10. CASE Renew(t)
  BY <1>10 DEF Renew
<1>11. CASE Throw(t)
  BY <1>11 DEF Throw, End, NotCalling
<1>12. QED
  BY <1>1, <1>2, <1>3, <1>4, <1>5, <1>6, <1>7, <1>8, <1>9, <1>10, <1>11
     DEF LocalStep

-----------------------------------------------------------------------------
(* The invariant that needs no timing assumption.                          *)

(* A thread past a read of _timeScope holds a published scope.             *)
HoldsScope ==
  \A t \in Threads :
    pc[t] \in {"swap", "reread", "compare", "renew", "take"}
      => currentScope[t] \in 1..Len(scopes)

(* The stamp of a scope about to be published has been served.             *)
StampServed ==
  \A t \in Threads :
    pc[t] \in {"expect", "swap"} => newTimestamp[t] <= CurrentTimestamp

(* Every id out is at or below the counter of a scope with its stamp.      *)
Covered(id, sc) == id.ts = sc.ts /\ id.seq <= sc.lastId

IssuedFromScope ==
  \A k \in 1..Len(issued) :
    /\ issued[k].seq <= MaxSequence
    /\ \E i \in 1..Len(scopes) : Covered(issued[k], scopes[i])

(* The history of a thread says whether a call is in progress.             *)
CallsMarked ==
  \A t \in Threads :
    /\ pc[t] = "idle" <=> begunAt[t] = NotCalling
    /\ begunAt[t] <= Len(issued)

BaseInv ==
  /\ TypeOK
  /\ HoldsScope
  /\ StampServed
  /\ NoFutureScope
  /\ IssuedFromScope
  /\ CallsMarked

LEMMA InitBase == Init => BaseInv
<1> SUFFICES ASSUME Init PROVE BaseInv
  OBVIOUS
<1>1. TypeOK
  BY InitTyped
<1>2. /\ Len(scopes) = 1 /\ scopes[1].ts = CurrentTimestamp
      /\ issued = <<>>
      /\ \A t \in Threads : pc[t] = "idle" /\ begunAt[t] = NotCalling
  BY DEF Init, SeqInit, NewScope
<1>3. HoldsScope /\ StampServed /\ IssuedFromScope /\ CallsMarked
  BY <1>2 DEF HoldsScope, StampServed, IssuedFromScope, CallsMarked, NotCalling
<1>4. NoFutureScope
  BY <1>1, <1>2, TimestampFacts DEF NoFutureScope, TypeOK
<1>5. QED
  BY <1>1, <1>3, <1>4 DEF BaseInv

(* The clock leaves the generator alone, and later times keep every        *)
(* comparison with the current one.                                        *)
LEMMA ClockKeepsBase ==
  ASSUME BaseInv, ClockNext, UNCHANGED seqVars
  PROVE  BaseInv' /\ CurrentTimestamp' >= CurrentTimestamp
<1>1. ClockTypeOK' /\ cachedUtcNowTicks' >= cachedUtcNowTicks
  BY ClockStepFacts DEF BaseInv, TypeOK
<1>2. /\ CurrentTimestamp' >= CurrentTimestamp
      /\ CurrentTimestamp \in Nat /\ CurrentTimestamp' \in Nat
  BY <1>1, TimestampMonotone DEF BaseInv, TypeOK
<1>3. TypeOK'
  BY <1>1 DEF BaseInv, TypeOK, SeqTypeOK, seqVars
<1>4. HoldsScope' /\ IssuedFromScope' /\ CallsMarked'
  BY DEF BaseInv, HoldsScope, IssuedFromScope, CallsMarked, seqVars
<1>5. StampServed'
  BY <1>2 DEF BaseInv, TypeOK, SeqTypeOK, StampServed, seqVars
<1>6. NoFutureScope'
  BY <1>2, ScopeFields
     DEF BaseInv, TypeOK, SeqTypeOK, NoFutureScope, seqVars, Scopes
<1>7. QED
  BY <1>2, <1>3, <1>4, <1>5, <1>6 DEF BaseInv

(* Only the stamp of "expect" and "swap" and the scope read from the field  *)
(* matter in a step that publishes and returns nothing.                    *)
LEMMA LocalKeepsBase ==
  ASSUME BaseInv, NEW t \in Threads, LocalStep(t), UNCHANGED clockVars
  PROVE  BaseInv'
<1> USE DEF BaseInv
<1>1. SeqTypeOK' /\ UNCHANGED <<scopes, issued, cachedUtcNowTicks>>
  BY LocalStepTyped DEF clockVars
<1>2. CurrentTimestamp' = CurrentTimestamp /\ CurrentTimestamp \in Nat
  BY <1>1, TimestampFacts DEF CurrentTimestamp, TypeOK
<1>3. TypeOK'
  BY <1>1 DEF TypeOK, ClockTypeOK, clockVars
<1>4. NoFutureScope' /\ IssuedFromScope'
  BY <1>1, <1>2 DEF NoFutureScope, IssuedFromScope
<1>5. HoldsScope' /\ StampServed' /\ CallsMarked'
  <2> USE <1>1, <1>2 DEF TypeOK, SeqTypeOK, Goto, TimeScope, HoldsScope,
                         StampServed, CallsMarked, NotCalling
  <2>1. CASE Begin(t)
    BY <2>1 DEF Begin
  <2>2. CASE CheckScope(t)
    BY <2>2 DEF CheckScope
  <2>3. CASE Load(t)
    BY <2>3 DEF Load
  <2>4. CASE AwaitTick(t)
    BY <2>4 DEF AwaitTick
  <2>5. CASE ReadStamp(t)
    BY <2>5 DEF ReadStamp
  <2>6. CASE ReadExpected(t)
    BY <2>6 DEF ReadExpected
  <2>7. CASE SwapLost(t)
    BY <2>7 DEF SwapLost
  <2>8. CASE Reread(t)
    BY <2>8 DEF Reread
  <2>9. CASE Compare(t)
    BY <2>9 DEF Compare
  <2>10. CASE Renew(t)
    BY <2>10 DEF Renew
  <2>11. CASE Throw(t)
    BY <2>11 DEF Throw, End
  <2>12. QED
    BY <2>1, <2>2, <2>3, <2>4, <2>5, <2>6, <2>7, <2>8, <2>9, <2>10, <2>11
       DEF LocalStep
<1>6. QED
  BY <1>3, <1>4, <1>5

(* What the three steps that touch the scopes do to them: published scopes  *)
(* keep their stamps and their counters only grow.                         *)
ScopesGrow ==
  /\ Len(scopes') >= Len(scopes)
  /\ \A i \in 1..Len(scopes) :
       scopes'[i].ts = scopes[i].ts /\ scopes'[i].lastId >= scopes[i].lastId

LEMMA CountingFacts ==
  ASSUME TypeOK, NEW t \in Threads, currentScope[t] \in 1..Len(scopes), Increment(t)
  PROVE  /\ NextId(t) \in Nat
         /\ scopes' \in Seq(Scopes)
         /\ Len(scopes') = Len(scopes)
         /\ ScopesGrow
         /\ scopes'[currentScope[t]].lastId = NextId(t)
         /\ scopes[currentScope[t]].lastId < NextId(t)
<1>1. scopes \in Seq(Scopes)
  BY DEF TypeOK, SeqTypeOK, Scopes
<1>2. NextId(t) \in Nat /\ scopes[currentScope[t]].lastId < NextId(t)
  BY <1>1, ScopeFields DEF NextId
<1> DEFINE r == [scopes EXCEPT ![currentScope[t]].lastId = NextId(t)]
<1>3. /\ r \in Seq(Scopes) /\ Len(r) = Len(scopes)
      /\ \A i \in 1..Len(scopes) : r[i].ts = scopes[i].ts
      /\ \A i \in 1..Len(scopes) : i # currentScope[t] => r[i] = scopes[i]
      /\ r[currentScope[t]].lastId = NextId(t)
  BY <1>1, <1>2, CountedScope
<1>4. scopes' = r
  BY DEF Increment
<1> HIDE DEF r
<1>5. \A i \in 1..Len(scopes) : r[i].lastId >= scopes[i].lastId
  BY <1>1, <1>2, <1>3, ScopeFields
<1>6. Len(scopes) \in Nat
  BY <1>1
<1>7. QED
  BY <1>2, <1>3, <1>4, <1>5, <1>6 DEF ScopesGrow

LEMMA SwapFacts ==
  ASSUME TypeOK, NEW t \in Threads, Swap(t)
  PROVE  /\ scopes' \in Seq(Scopes)
         /\ Len(scopes') = Len(scopes) + 1
         /\ ScopesGrow
         /\ scopes'[Len(scopes')].ts = newTimestamp[t]
         /\ scopes'[Len(scopes')].lastId = -1
<1>1. scopes \in Seq(Scopes) /\ newTimestamp[t] \in Nat
  BY DEF TypeOK, SeqTypeOK, Scopes
<1>2. scopes' = Append(scopes, NewScope(newTimestamp[t]))
  BY DEF Swap
<1>3. /\ scopes' \in Seq(Scopes) /\ Len(scopes') = Len(scopes) + 1
      /\ \A i \in 1..Len(scopes) : scopes'[i] = scopes[i]
      /\ scopes'[Len(scopes')].ts = newTimestamp[t]
      /\ scopes'[Len(scopes')].lastId = -1
  BY <1>1, <1>2, AppendedScope
<1>4. QED
  BY <1>1, <1>3, ScopeFields DEF ScopesGrow

LEMMA CoveredStays ==
  ASSUME TypeOK, scopes' \in Seq(Scopes), ScopesGrow,
         NEW id \in IdRecords,
         \E i \in 1..Len(scopes) : Covered(id, scopes[i])
  PROVE  \E i \in 1..Len(scopes') : Covered(id, scopes'[i])
<1>1. scopes \in Seq(Scopes)
  BY DEF TypeOK, SeqTypeOK, Scopes
<1>2. PICK i \in 1..Len(scopes) : Covered(id, scopes[i])
  OBVIOUS
<1>3. i \in 1..Len(scopes') /\ scopes'[i].ts = scopes[i].ts
      /\ scopes'[i].lastId >= scopes[i].lastId
  BY <1>1 DEF ScopesGrow
<1>4. /\ scopes[i].lastId \in Int /\ scopes'[i].lastId \in Int
      /\ id.seq \in Nat
  BY <1>1, <1>3, ScopeFields DEF IdRecords
<1>5. Covered(id, scopes'[i])
  BY <1>2, <1>3, <1>4 DEF Covered
<1>6. QED
  BY <1>3, <1>5

LEMMA TakeKeepsBase ==
  ASSUME BaseInv, NEW t \in Threads, Take(t), UNCHANGED clockVars
  PROVE  BaseInv'
<1> USE DEF BaseInv
<1> DEFINE c == currentScope[t]
           id == Id(scopes[c].ts, NextId(t))
<1>1. c \in 1..Len(scopes) /\ scopes \in Seq(Scopes)
  BY DEF Take, HoldsScope, TypeOK, SeqTypeOK, Scopes
<1>2. /\ NextId(t) \in Nat /\ scopes' \in Seq(Scopes)
      /\ Len(scopes') = Len(scopes) /\ ScopesGrow
      /\ scopes'[c].lastId = NextId(t)
  BY <1>1, CountingFacts DEF Take
<1>3. id \in IdRecords /\ scopes'[c].ts = id.ts
      /\ id.seq = NextId(t)
  BY <1>1, <1>2, ScopeFields DEF Id, ScopesGrow, IdRecords
<1>4. /\ issued' = Append(issued, id)
      /\ issued \in Seq(IdRecords)
      /\ issued' \in Seq(IdRecords)
      /\ Len(issued') = Len(issued) + 1
      /\ \A k \in 1..Len(issued) : issued'[k] = issued[k]
      /\ issued'[Len(issued')] = id
  BY <1>3 DEF Take, TypeOK, SeqTypeOK, IdRecords
<1> HIDE DEF c, id
<1>5. CurrentTimestamp' = CurrentTimestamp
  BY DEF CurrentTimestamp, clockVars
<1>6. TypeOK'
  <2>1. ClockTypeOK'
    BY DEF TypeOK, ClockTypeOK, clockVars
  <2>2. SeqTypeOK'
    BY <1>2, <1>4 DEF Take, End, TypeOK, SeqTypeOK, Steps, Scopes, IdRecords
  <2>3. QED
    BY <2>1, <2>2 DEF TypeOK
<1>7. HoldsScope' /\ StampServed'
  BY <1>2, <1>5 DEF Take, End, HoldsScope, StampServed, TypeOK, SeqTypeOK
<1>8. CallsMarked'
  BY <1>4 DEF Take, End, CallsMarked, TypeOK, SeqTypeOK, NotCalling
<1>9. NoFutureScope'
  BY <1>1, <1>2, <1>5 DEF NoFutureScope, ScopesGrow
<1>10. IssuedFromScope'
  <2> SUFFICES ASSUME NEW k \in 1..Len(issued')
               PROVE  /\ issued'[k].seq <= MaxSequence
                      /\ \E i \in 1..Len(scopes') : Covered(issued'[k], scopes'[i])
    BY DEF IssuedFromScope
  <2>1. CASE k = Len(issued')
    <3>1. issued'[k].seq <= MaxSequence
      BY <2>1, <1>3, <1>4 DEF Take
    <3>2. Covered(issued'[k], scopes'[c])
      BY <2>1, <1>2, <1>3, <1>4 DEF Covered
    <3>3. QED
      BY <3>1, <3>2, <1>1, <1>2
  <2>2. CASE k \in 1..Len(issued)
    <3>0. issued'[k] = issued[k]
      BY <2>2, <1>4
    <3>1. issued'[k] = issued[k] /\ issued[k] \in IdRecords
      BY <3>0, <2>2, <1>4
    <3>2. /\ issued[k].seq <= MaxSequence
          /\ \E i \in 1..Len(scopes) : Covered(issued[k], scopes[i])
      BY <2>2 DEF IssuedFromScope
    <3>3. QED
      BY <3>1, <3>2, <1>2, CoveredStays
  <2>3. Len(issued) \in Nat
    BY <1>4
  <2>4. QED
    BY <2>1, <2>2, <2>3, <1>4
<1>11. QED
  BY <1>6, <1>7, <1>8, <1>9, <1>10

(* Publishing a scope, and counting in an exhausted one, return no id.     *)
LEMMA CoveredIdsStay ==
  ASSUME BaseInv, scopes' \in Seq(Scopes), ScopesGrow, issued' = issued
  PROVE  IssuedFromScope'
<1>1. issued \in Seq(IdRecords)
  BY DEF BaseInv, TypeOK, SeqTypeOK, IdRecords
<1> SUFFICES ASSUME NEW k \in 1..Len(issued)
             PROVE  /\ issued[k].seq <= MaxSequence
                    /\ \E i \in 1..Len(scopes') : Covered(issued[k], scopes'[i])
  BY DEF IssuedFromScope
<1>2. issued[k] \in IdRecords
  BY <1>1
<1>3. /\ issued[k].seq <= MaxSequence
      /\ \E i \in 1..Len(scopes) : Covered(issued[k], scopes[i])
  BY DEF BaseInv, IssuedFromScope
<1>4. QED
  BY <1>2, <1>3, CoveredStays DEF BaseInv

LEMMA ExhaustedKeepsBase ==
  ASSUME BaseInv, NEW t \in Threads, Exhausted(t), UNCHANGED clockVars
  PROVE  BaseInv'
<1> USE DEF BaseInv
<1>1. currentScope[t] \in 1..Len(scopes) /\ scopes \in Seq(Scopes)
  BY DEF Exhausted, Goto, HoldsScope, TypeOK, SeqTypeOK, Scopes
<1>2. /\ scopes' \in Seq(Scopes) /\ Len(scopes') = Len(scopes) /\ ScopesGrow
  BY <1>1, CountingFacts DEF Exhausted
<1>3. CurrentTimestamp' = CurrentTimestamp /\ issued' = issued
  BY DEF CurrentTimestamp, clockVars, Exhausted
<1>4. TypeOK'
  <2>1. ClockTypeOK'
    BY DEF TypeOK, ClockTypeOK, clockVars
  <2>2. SeqTypeOK'
    BY <1>2 DEF Exhausted, Goto, TypeOK, SeqTypeOK, Steps, Scopes
  <2>3. QED
    BY <2>1, <2>2 DEF TypeOK
<1>5. HoldsScope' /\ StampServed' /\ CallsMarked'
  BY <1>2, <1>3 DEF Exhausted, Goto, HoldsScope, StampServed, CallsMarked,
                    TypeOK, SeqTypeOK
<1>6. NoFutureScope'
  BY <1>1, <1>2, <1>3 DEF NoFutureScope, ScopesGrow
<1>7. IssuedFromScope'
  BY <1>2, <1>3, CoveredIdsStay
<1>8. QED
  BY <1>4, <1>5, <1>6, <1>7

LEMMA SwapKeepsBase ==
  ASSUME BaseInv, NEW t \in Threads, Swap(t), UNCHANGED clockVars
  PROVE  BaseInv'
<1> USE DEF BaseInv
<1>1. /\ scopes' \in Seq(Scopes) /\ Len(scopes') = Len(scopes) + 1
      /\ ScopesGrow /\ scopes'[Len(scopes')].ts = newTimestamp[t]
      /\ scopes \in Seq(Scopes)
  BY SwapFacts DEF TypeOK, SeqTypeOK, Scopes
<1>2. CurrentTimestamp' = CurrentTimestamp /\ issued' = issued
  BY DEF CurrentTimestamp, clockVars, Swap
<1>3. TypeOK'
  <2>1. ClockTypeOK'
    BY DEF TypeOK, ClockTypeOK, clockVars
  <2>2. SeqTypeOK'
    BY <1>1 DEF Swap, Goto, TypeOK, SeqTypeOK, Steps, Scopes
  <2>3. QED
    BY <2>1, <2>2 DEF TypeOK
<1>4. HoldsScope' /\ StampServed' /\ CallsMarked'
  BY <1>1, <1>2 DEF Swap, Goto, HoldsScope, StampServed, CallsMarked,
                    TypeOK, SeqTypeOK
<1>5. newTimestamp[t] <= CurrentTimestamp
  BY DEF Swap, Goto, StampServed
<1>6. NoFutureScope'
  BY <1>1, <1>2, <1>5 DEF NoFutureScope, ScopesGrow
<1>7. IssuedFromScope'
  BY <1>1, <1>2, CoveredIdsStay
<1>8. QED
  BY <1>3, <1>4, <1>6, <1>7

LEMMA ThreadCases ==
  ASSUME NEW t \in Threads, Begin(t) \/ ThreadStep(t)
  PROVE  LocalStep(t) \/ Take(t) \/ Exhausted(t) \/ Swap(t)
BY DEF ThreadStep, LocalStep

LEMMA BaseInductive == BaseInv /\ [Next]_vars => BaseInv'
<1> SUFFICES ASSUME BaseInv, [Next]_vars PROVE BaseInv'
  OBVIOUS
<1>1. CASE ClockStep
  BY <1>1, ClockKeepsBase DEF ClockStep
<1>2. ASSUME NEW t \in Threads, Begin(t) \/ ThreadStep(t), UNCHANGED clockVars
      PROVE  BaseInv'
  BY <1>2, ThreadCases, LocalKeepsBase, TakeKeepsBase, ExhaustedKeepsBase,
     SwapKeepsBase
<1>3. CASE UNCHANGED vars
  BY <1>3 DEF vars, clockVars, seqVars, BaseInv, TypeOK, ClockTypeOK, SeqTypeOK,
     HoldsScope, StampServed, NoFutureScope, IssuedFromScope, CallsMarked,
     CurrentTimestamp
<1>4. QED
  BY <1>1, <1>2, <1>3 DEF Next

(* What holds of the generator whether or not threads are delayed: types,  *)
(* held scopes exist, published stamps were served, ids come from scopes.  *)
THEOREM BaseInvariant == Spec => []BaseInv
<1>1. QED
  BY InitBase, BaseInductive, PTL DEF Spec

(* The variables of the clock and of the generator keep their types.       *)
THEOREM TypeCorrect == Spec => []TypeOK
<1>1. BaseInv => TypeOK
  BY DEF BaseInv
<1>2. QED
  BY <1>1, BaseInvariant, PTL

(* No scope carries a time the clock has not served, whether or not threads *)
(* are delayed.                                                            *)
THEOREM ScopesNotInFuture == Spec => []NoFutureScope
<1>1. BaseInv => NoFutureScope
  BY DEF BaseInv
<1>2. QED
  BY <1>1, BaseInvariant, PTL

-----------------------------------------------------------------------------
(* How often exhausted scopes are counted in.                              *)

(* Time stamps that threads hold were served.                              *)
TimesServed == \A t \in Threads : timeStamp[t] <= CurrentTimestamp

(* Thread t may yet count in scope i.  A thread that has found scope i     *)
(* exhausted comes back to it only if it holds an older time stamp than    *)
(* that of i, and has that of i then; in a scope that is not the newest    *)
(* only those count that have loaded it.                                   *)
MayTake(t, i) ==
  /\ i < TimeScope => pc[t] = "take" /\ currentScope[t] = i
  /\ pc[t] = "idle" => Readable
  /\ currentScope[t] = i =>
       /\ pc[t] # "swap"
       /\ pc[t] = "wait" => timeStamp[t] < scopes[i].ts
       /\ pc[t] = "stamp" => timeStamp[t] <= scopes[i].ts
       /\ pc[t] = "expect" => newTimestamp[t] <= scopes[i].ts

(* Thread t may yet count in scope i twice.                                *)
MayTakeAgain(t, i) ==
  /\ i = TimeScope
  /\ pc[t] = "idle" => Readable
  /\ currentScope[t] = i =>
       /\ pc[t] \notin {"wait", "swap"}
       /\ pc[t] \in {"stamp", "expect", "load", "take"}
            => timeStamp[t] < scopes[i].ts

Takers(i) == {t \in Threads : MayTake(t, i)}
RepeatedTakers(i) == {t \in Threads : MayTakeAgain(t, i)}

(* What a counter has and what may still come stay within the bound.       *)
HasRoom(i) ==
  scopes[i].lastId + Cardinality(Takers(i)) + Cardinality(RepeatedTakers(i))
    <= MaxSequence + 2 * Cardinality(Threads)

CountersHaveRoom == \A i \in 1..Len(scopes) : HasRoom(i)

CounterInv == BaseInv /\ TimesServed /\ CountersHaveRoom

LEMMA SmallerSet ==
  ASSUME NEW T, IsFiniteSet(T), NEW A \in SUBSET T, NEW B \in SUBSET A
  PROVE  /\ Cardinality(A) \in Nat /\ Cardinality(B) \in Nat
         /\ Cardinality(B) <= Cardinality(A)
         /\ B # A => Cardinality(B) + 1 <= Cardinality(A)
<1>1. IsFiniteSet(A) /\ IsFiniteSet(B)
  BY FS_Subset
<1>2. Cardinality(A) \in Nat /\ Cardinality(B) \in Nat
  BY <1>1, FS_CardinalityType
<1>3. Cardinality(B) <= Cardinality(A) /\ (Cardinality(A) = Cardinality(B) => A = B)
  BY <1>1, FS_Subset
<1> QED BY <1>2, <1>3

LEMMA RoomArithmetic ==
  ASSUME NEW a \in Nat, NEW b \in Nat, NEW x \in Nat, NEW y \in Nat,
         NEW last \in Int, NEW next \in Int, NEW bound \in Int,
         last + a + b <= bound, x <= a, y <= b,
         next = last \/ (next = last + 1 /\ (x + 1 <= a \/ y + 1 <= b))
  PROVE  next + x + y <= bound
OBVIOUS

(* Room is kept by a step that lets nobody in, and by one that counts and  *)
(* lets somebody out.                                                      *)
LEMMA RoomKept ==
  ASSUME IsFiniteSet(Threads), TypeOK, TypeOK',
         NEW i \in 1..Len(scopes), i \in 1..Len(scopes'), HasRoom(i),
         Takers(i)' \subseteq Takers(i),
         RepeatedTakers(i)' \subseteq RepeatedTakers(i),
         \/ scopes'[i].lastId = scopes[i].lastId
         \/ /\ scopes'[i].lastId = scopes[i].lastId + 1
            /\ \/ Takers(i)' # Takers(i)
               \/ RepeatedTakers(i)' # RepeatedTakers(i)
  PROVE  HasRoom(i)'
<1>1. scopes[i].lastId \in Int /\ scopes'[i].lastId \in Int
  BY ScopeFields DEF TypeOK, SeqTypeOK, Scopes
<1>2. /\ Takers(i) \subseteq Threads /\ RepeatedTakers(i) \subseteq Threads
      /\ Cardinality(Threads) \in Nat
  BY FS_CardinalityType DEF Takers, RepeatedTakers
<1>3. /\ Cardinality(Takers(i)) \in Nat /\ Cardinality(Takers(i)') \in Nat
      /\ Cardinality(Takers(i)') <= Cardinality(Takers(i))
      /\ Takers(i)' # Takers(i) =>
           Cardinality(Takers(i)') + 1 <= Cardinality(Takers(i))
  BY <1>2, SmallerSet
<1>4. /\ Cardinality(RepeatedTakers(i)) \in Nat
      /\ Cardinality(RepeatedTakers(i)') \in Nat
      /\ Cardinality(RepeatedTakers(i)') <= Cardinality(RepeatedTakers(i))
      /\ RepeatedTakers(i)' # RepeatedTakers(i) =>
           Cardinality(RepeatedTakers(i)') + 1 <= Cardinality(RepeatedTakers(i))
  BY <1>2, SmallerSet
<1>5. Cardinality(Takers(i))' = Cardinality(Takers(i)')
      /\ Cardinality(RepeatedTakers(i))' = Cardinality(RepeatedTakers(i)')
  OBVIOUS
<1>6. MaxSequence + 2 * Cardinality(Threads) \in Int
  BY <1>2, SequenceAssumption
<1> DEFINE a == Cardinality(Takers(i))
           b == Cardinality(RepeatedTakers(i))
           x == Cardinality(Takers(i)')
           y == Cardinality(RepeatedTakers(i)')
           last == scopes[i].lastId
           next == scopes'[i].lastId
           bound == MaxSequence + 2 * Cardinality(Threads)
<1>7. last + a + b <= bound
  BY DEF HasRoom
<1>8. a \in Nat /\ b \in Nat /\ x \in Nat /\ y \in Nat /\ last \in Int
      /\ next \in Int /\ bound \in Int /\ x <= a /\ y <= b
  BY <1>1, <1>3, <1>4, <1>6
<1>9. next = last \/ (next = last + 1 /\ (x + 1 <= a \/ y + 1 <= b))
  BY <1>3, <1>4
<1> HIDE DEF a, b, x, y, last, next, bound
<1>10. next + x + y <= bound
  BY <1>7, <1>8, <1>9, RoomArithmetic
<1> QED
  BY <1>5, <1>10 DEF HasRoom, x, y, next, bound

(* A scope that is not used up has room for everybody.                     *)
LEMMA UnusedHasRoom ==
  IsFiniteSet(Threads) /\ TypeOK =>
    \A i \in 1..Len(scopes) : scopes[i].lastId <= MaxSequence => HasRoom(i)
<1> SUFFICES ASSUME IsFiniteSet(Threads), TypeOK, NEW i \in 1..Len(scopes),
                    scopes[i].lastId <= MaxSequence
             PROVE  HasRoom(i)
  OBVIOUS
<1>1. scopes[i].lastId \in Int
  BY ScopeFields DEF TypeOK, SeqTypeOK, Scopes
<1>2. /\ Takers(i) \in SUBSET Threads /\ RepeatedTakers(i) \in SUBSET Threads
      /\ Threads \in SUBSET Threads
  BY DEF Takers, RepeatedTakers
<1>3. /\ Cardinality(Threads) \in Nat
      /\ Cardinality(Takers(i)) \in Nat
      /\ Cardinality(RepeatedTakers(i)) \in Nat
      /\ Cardinality(Takers(i)) <= Cardinality(Threads)
      /\ Cardinality(RepeatedTakers(i)) <= Cardinality(Threads)
  BY <1>2, SmallerSet
<1> DEFINE n == Cardinality(Threads)
           a == Cardinality(Takers(i))
           b == Cardinality(RepeatedTakers(i))
           last == scopes[i].lastId
<1>4. /\ n \in Nat /\ a \in Nat /\ b \in Nat /\ a <= n /\ b <= n
      /\ last \in Int /\ last <= MaxSequence
  BY <1>1, <1>3
<1> HIDE DEF n, a, b, last
<1>5. last + a + b <= MaxSequence + 2 * n
  BY <1>4, SequenceAssumption
<1> QED
  BY <1>5 DEF HasRoom, n, a, b, last

LEMMA UnusedHasRoomNext ==
  IsFiniteSet(Threads)' /\ TypeOK' =>
    (\A i \in 1..Len(scopes) : scopes[i].lastId <= MaxSequence => HasRoom(i))'
BY UnusedHasRoom, PTL

LEMMA LocalKeepsRoom ==
  ASSUME IsFiniteSet(Threads), CounterInv, BaseInv',
         NEW t \in Threads, LocalStep(t), UNCHANGED clockVars
  PROVE  TimesServed' /\ CountersHaveRoom'
<1>1. /\ UNCHANGED <<scopes, issued>>
      /\ TypeOK /\ TypeOK'
      /\ CurrentTimestamp' = CurrentTimestamp /\ CurrentTimestamp \in Nat
      /\ Readable' = Readable
  BY LocalStepTyped, TimestampFacts
     DEF CounterInv, BaseInv, TypeOK, clockVars, CurrentTimestamp, Readable
<1>2. TimesServed'
  <2>1. \A u \in Threads : timeStamp'[u] \in {timeStamp[u], CurrentTimestamp, 0}
    BY <1>1 DEF TypeOK, SeqTypeOK, Goto, LocalStep, Begin, CheckScope, Load,
           AwaitTick, ReadStamp, ReadExpected, SwapLost, Reread, Compare, Renew,
           Throw, End
  <2>2. \A u \in Threads : timeStamp[u] <= CurrentTimestamp
    BY DEF CounterInv, TimesServed
  <2>3. \A u \in Threads : timeStamp'[u] <= CurrentTimestamp
    BY <1>1, <2>1, <2>2
  <2> QED BY <1>1, <2>3 DEF TimesServed
<1>3. ASSUME NEW i \in 1..Len(scopes), NEW u \in Threads
      PROVE  /\ MayTake(u, i)' => MayTake(u, i)
             /\ MayTakeAgain(u, i)' => MayTakeAgain(u, i)
  <2>1. /\ scopes[i].ts \in Nat /\ scopes[i].ts <= CurrentTimestamp
        /\ timeStamp[u] \in Nat /\ timeStamp[u] <= CurrentTimestamp
        /\ newTimestamp[u] \in Nat /\ currentScope[u] \in Nat
        /\ Len(scopes) \in Nat /\ scopes[Len(scopes)].ts \in Nat
        /\ scopes' = scopes
    BY <1>1, ScopeFields, SMTT(30)
       DEF CounterInv, BaseInv, TimesServed, NoFutureScope, TypeOK, SeqTypeOK, Scopes
  <2>2. CASE u # t
    <3>1. /\ pc'[u] = pc[u] /\ currentScope'[u] = currentScope[u]
          /\ timeStamp'[u] = timeStamp[u] /\ newTimestamp'[u] = newTimestamp[u]
      BY <1>1, <2>2
         DEF LocalStep, Begin, CheckScope, Load, AwaitTick, ReadStamp, ReadExpected,
             SwapLost, Reread, Compare, Renew, Throw, End, Goto, TypeOK, SeqTypeOK
    <3> QED BY <1>1, <2>1, <3>1 DEF MayTake, MayTakeAgain, TimeScope
  <2>3. CASE u = t
    <3> USE <1>1, <2>1, <2>3 DEF MayTake, MayTakeAgain, TimeScope, Goto, TypeOK, SeqTypeOK
    <3>1. CASE Begin(t)
      BY <3>1 DEF Begin
    <3>2. CASE CheckScope(t)
      BY <3>2 DEF CheckScope
    <3>3. CASE Load(t)
      BY <3>3 DEF Load
    <3>4. CASE AwaitTick(t)
      BY <3>4 DEF AwaitTick
    <3>5. CASE ReadStamp(t)
      BY <3>5 DEF ReadStamp
    <3>6. CASE ReadExpected(t)
      BY <3>6 DEF ReadExpected
    <3>7. CASE SwapLost(t)
      BY <3>7 DEF SwapLost
    <3>8. CASE Reread(t)
      BY <3>8 DEF Reread
    <3>9. CASE Compare(t)
      BY <3>9 DEF Compare
    <3>10. CASE Renew(t)
      BY <3>10 DEF Renew
    <3>11. CASE Throw(t)
      BY <3>11 DEF Throw, End
    <3> QED
      BY <3>1, <3>2, <3>3, <3>4, <3>5, <3>6, <3>7, <3>8, <3>9, <3>10, <3>11
         DEF LocalStep
  <2> QED BY <2>2, <2>3
<1>4. ASSUME NEW i \in 1..Len(scopes)
      PROVE  HasRoom(i)'
  <2>1. Takers(i)' \subseteq Takers(i) /\ RepeatedTakers(i)' \subseteq RepeatedTakers(i)
    BY <1>3 DEF Takers, RepeatedTakers
  <2> QED BY <1>1, <2>1, RoomKept DEF CounterInv, CountersHaveRoom
<1> QED BY <1>1, <1>2, <1>4 DEF CountersHaveRoom

LEMMA ClockKeepsRoom ==
  ASSUME IsFiniteSet(Threads), CounterInv, BaseInv', ClockNext, UNCHANGED seqVars
  PROVE  TimesServed' /\ CountersHaveRoom'
<1>1. /\ TypeOK /\ TypeOK'
      /\ CurrentTimestamp' >= CurrentTimestamp
      /\ CurrentTimestamp \in Nat /\ CurrentTimestamp' \in Nat
      /\ UNCHANGED <<scopes, pc, timeStamp, newTimestamp, currentScope>>
  BY ClockStepFacts, TimestampMonotone DEF CounterInv, BaseInv, TypeOK, seqVars
<1>2. Readable' => Readable
  BY DEF ClockNext, Advance, Freeze, DetectDrift, RaiseFlag, RequestShutdown,
     RegisterShutdownAction, clockVars, Readable
<1>3. TimesServed'
  BY <1>1 DEF CounterInv, TimesServed, TypeOK, SeqTypeOK
<1>4. ASSUME NEW i \in 1..Len(scopes)
      PROVE  HasRoom(i)'
  <2>1. Takers(i)' \subseteq Takers(i) /\ RepeatedTakers(i)' \subseteq RepeatedTakers(i)
    BY <1>1, <1>2 DEF Takers, RepeatedTakers, MayTake, MayTakeAgain, TimeScope
  <2> QED BY <1>1, <2>1, RoomKept DEF CounterInv, CountersHaveRoom
<1> QED BY <1>1, <1>3, <1>4 DEF CountersHaveRoom

(* Counting in a scope that is not used up.                                *)
LEMMA TakeKeepsRoom ==
  ASSUME IsFiniteSet(Threads), CounterInv, BaseInv',
         NEW t \in Threads, Take(t), UNCHANGED clockVars
  PROVE  TimesServed' /\ CountersHaveRoom'
<1> DEFINE c == currentScope[t]
<1>1. /\ TypeOK /\ TypeOK' /\ c \in 1..Len(scopes)
      /\ CurrentTimestamp' = CurrentTimestamp /\ CurrentTimestamp \in Nat
      /\ Readable' = Readable
  BY TimestampFacts
     DEF CounterInv, BaseInv, HoldsScope, Take, TypeOK, clockVars,
         CurrentTimestamp, Readable
<1>2. scopes \in Seq(Scopes) /\ NextId(t) \in Nat
  BY <1>1, CountingFacts DEF Take, TypeOK, SeqTypeOK, Scopes
<1>3. /\ Len(scopes') = Len(scopes)
      /\ \A i \in 1..Len(scopes) : scopes'[i].ts = scopes[i].ts
      /\ \A i \in 1..Len(scopes) : i # c => scopes'[i] = scopes[i]
      /\ scopes'[c].lastId = NextId(t)
  BY <1>1, <1>2, CountedScope DEF Take, Increment
<1>4. TimesServed'
  BY <1>1 DEF CounterInv, TimesServed, Take, End, TypeOK, SeqTypeOK
<1>5. ASSUME NEW i \in 1..Len(scopes), i # c
      PROVE  HasRoom(i)'
  <2>1. ASSUME NEW u \in Threads
        PROVE  /\ MayTake(u, i)' => MayTake(u, i)
               /\ MayTakeAgain(u, i)' => MayTakeAgain(u, i)
    <3>1. CASE u = t
      BY <1>1, <1>3, <1>5, <3>1
         DEF Take, End, MayTake, MayTakeAgain, TimeScope, TypeOK, SeqTypeOK
    <3>2. CASE u # t
      <4>1. /\ pc'[u] = pc[u] /\ currentScope'[u] = currentScope[u]
            /\ timeStamp'[u] = timeStamp[u] /\ newTimestamp'[u] = newTimestamp[u]
        BY <1>1, <3>2 DEF Take, End, TypeOK, SeqTypeOK
      <4> QED BY <1>1, <1>3, <4>1 DEF MayTake, MayTakeAgain, TimeScope
    <3> QED BY <3>1, <3>2
  <2>2. Takers(i)' \subseteq Takers(i) /\ RepeatedTakers(i)' \subseteq RepeatedTakers(i)
    BY <2>1 DEF Takers, RepeatedTakers
  <2> QED BY <1>1, <1>3, <1>5, <2>2, RoomKept DEF CounterInv, CountersHaveRoom
<1>6. ASSUME NEW i \in 1..Len(scopes), i = c
      PROVE  HasRoom(i)'
  <2>1. scopes'[i].lastId <= MaxSequence /\ i \in 1..Len(scopes')
    BY <1>3, <1>6 DEF Take
  <2>2. \A j \in 1..Len(scopes') : scopes'[j].lastId <= MaxSequence => HasRoom(j)'
    BY <1>1, UnusedHasRoomNext
  <2> QED BY <2>1, <2>2
<1>7. \A i \in 1..Len(scopes') : HasRoom(i)'
  BY <1>3, <1>5, <1>6
<1> QED BY <1>4, <1>7 DEF CountersHaveRoom

(* Counting in an exhausted scope uses up one of the two times.            *)
LEMMA ExhaustedKeepsRoom ==
  ASSUME IsFiniteSet(Threads), CounterInv, BaseInv',
         NEW t \in Threads, Exhausted(t), UNCHANGED clockVars
  PROVE  TimesServed' /\ CountersHaveRoom'
<1> DEFINE c == currentScope[t]
<1>1. /\ TypeOK /\ TypeOK' /\ c \in 1..Len(scopes)
      /\ CurrentTimestamp' = CurrentTimestamp /\ CurrentTimestamp \in Nat
      /\ Readable' = Readable
  BY TimestampFacts
     DEF CounterInv, BaseInv, HoldsScope, Exhausted, Goto, TypeOK, clockVars,
         CurrentTimestamp, Readable
<1>2. scopes \in Seq(Scopes) /\ NextId(t) \in Nat /\ NextId(t) = scopes[c].lastId + 1
  BY <1>1, CountingFacts DEF Exhausted, NextId, TypeOK, SeqTypeOK, Scopes
<1>3. /\ Len(scopes') = Len(scopes)
      /\ \A i \in 1..Len(scopes) : scopes'[i].ts = scopes[i].ts
      /\ \A i \in 1..Len(scopes) : i # c => scopes'[i] = scopes[i]
      /\ scopes'[c].lastId = scopes[c].lastId + 1
  BY <1>1, <1>2, CountedScope DEF Exhausted, Increment
<1>4. TimesServed'
  BY <1>1 DEF CounterInv, TimesServed, Exhausted, TypeOK, SeqTypeOK
<1>5. ASSUME NEW i \in 1..Len(scopes)
      PROVE  HasRoom(i)'
  <2>0. scopes[i].ts \in Nat /\ timeStamp[t] \in Nat
    BY <1>1, ScopeFields DEF TypeOK, SeqTypeOK, Scopes
  <2>1. ASSUME NEW u \in Threads
        PROVE  /\ MayTake(u, i)' => MayTake(u, i)
               /\ MayTakeAgain(u, i)' => MayTakeAgain(u, i)
    <3>1. CASE u = t
      BY <1>1, <1>3, <2>0, <3>1
         DEF Exhausted, Goto, MayTake, MayTakeAgain, TimeScope, TypeOK, SeqTypeOK
    <3>2. CASE u # t
      <4>1. /\ pc'[u] = pc[u] /\ currentScope'[u] = currentScope[u]
            /\ timeStamp'[u] = timeStamp[u] /\ newTimestamp'[u] = newTimestamp[u]
        BY <1>1, <3>2 DEF Exhausted, Goto, TypeOK, SeqTypeOK
      <4> QED BY <1>1, <1>3, <4>1 DEF MayTake, MayTakeAgain, TimeScope
    <3> QED BY <3>1, <3>2
  <2>2. Takers(i)' \subseteq Takers(i) /\ RepeatedTakers(i)' \subseteq RepeatedTakers(i)
    BY <2>1 DEF Takers, RepeatedTakers
  <2>3. CASE i # c
    BY <1>1, <1>3, <2>2, <2>3, RoomKept DEF CounterInv, CountersHaveRoom
  <2>4. CASE i = c
    <3>1. MayTake(t, i)
      BY <1>1, <2>4 DEF Exhausted, Goto, MayTake
    <3>2. \/ ~MayTake(t, i)'
          \/ MayTakeAgain(t, i) /\ ~MayTakeAgain(t, i)'
      BY <1>1, <1>3, <2>0, <2>4
         DEF Exhausted, Goto, MayTake, MayTakeAgain, TimeScope, TypeOK, SeqTypeOK
    <3>3. Takers(i)' # Takers(i) \/ RepeatedTakers(i)' # RepeatedTakers(i)
      BY <3>1, <3>2 DEF Takers, RepeatedTakers
    <3> QED
      BY <1>1, <1>3, <2>2, <2>4, <3>3, RoomKept DEF CounterInv, CountersHaveRoom
  <2> QED BY <2>3, <2>4
<1>6. \A i \in 1..Len(scopes') : HasRoom(i)'
  BY <1>3, <1>5
<1> QED BY <1>4, <1>6 DEF CountersHaveRoom

(* A new scope closes the one before it to all that have not loaded it.    *)
LEMMA SwapKeepsRoom ==
  ASSUME IsFiniteSet(Threads), CounterInv, BaseInv',
         NEW t \in Threads, Swap(t), UNCHANGED clockVars
  PROVE  TimesServed' /\ CountersHaveRoom'
<1>1. /\ TypeOK /\ TypeOK'
      /\ CurrentTimestamp' = CurrentTimestamp /\ CurrentTimestamp \in Nat
      /\ Readable' = Readable
      /\ scopes \in Seq(Scopes) /\ newTimestamp[t] \in Nat
  BY TimestampFacts
     DEF CounterInv, BaseInv, TypeOK, SeqTypeOK, clockVars, CurrentTimestamp,
         Readable, Scopes
<1>2. /\ Len(scopes') = Len(scopes) + 1 /\ Len(scopes) \in Nat
      /\ \A i \in 1..Len(scopes) : scopes'[i] = scopes[i]
      /\ scopes'[Len(scopes')].lastId = -1
  BY <1>1, AppendedScope DEF Swap
<1>3. TimesServed'
  BY <1>1 DEF CounterInv, TimesServed, Swap, TypeOK, SeqTypeOK
<1>4. ASSUME NEW i \in 1..Len(scopes)
      PROVE  HasRoom(i)'
  <2>1. \A u \in Threads : /\ MayTake(u, i)' => MayTake(u, i)
                           /\ ~MayTakeAgain(u, i)'
    BY <1>1, <1>2
       DEF Swap, Goto, MayTake, MayTakeAgain, TimeScope, TypeOK, SeqTypeOK
  <2>2. Takers(i)' \subseteq Takers(i) /\ RepeatedTakers(i)' \subseteq RepeatedTakers(i)
    BY <2>1 DEF Takers, RepeatedTakers
  <2> QED BY <1>1, <1>2, <2>2, RoomKept DEF CounterInv, CountersHaveRoom
<1>5. ASSUME NEW i \in 1..Len(scopes'), i = Len(scopes')
      PROVE  HasRoom(i)'
  <2>1. scopes'[i].lastId <= MaxSequence
    BY <1>2, <1>5, SequenceAssumption
  <2>2. \A j \in 1..Len(scopes') : scopes'[j].lastId <= MaxSequence => HasRoom(j)'
    BY <1>1, UnusedHasRoomNext
  <2> QED BY <2>1, <2>2
<1>6. \A i \in 1..Len(scopes') : i \in 1..Len(scopes) \/ i = Len(scopes')
  BY <1>2
<1>7. \A i \in 1..Len(scopes') : HasRoom(i)'
  BY <1>4, <1>5, <1>6
<1> QED BY <1>3, <1>7 DEF CountersHaveRoom

LEMMA CounterInductive ==
  ASSUME IsFiniteSet(Threads)
  PROVE  /\ Init => CounterInv
         /\ CounterInv /\ [Next]_vars => CounterInv'
<1>1. ASSUME Init PROVE CounterInv
  <2>1. BaseInv /\ TypeOK
    BY <1>1, InitBase DEF BaseInv
  <2>2. Len(scopes) = 1 /\ scopes[1].lastId = -1 /\ CurrentTimestamp \in Nat
    BY <1>1, <2>1, TimestampFacts DEF Init, SeqInit, NewScope, TypeOK
  <2>3. TimesServed
    BY <1>1, <2>2 DEF Init, SeqInit, TimesServed
  <2>4. \A i \in 1..Len(scopes) : HasRoom(i)
    BY <2>1, <2>2, UnusedHasRoom, SequenceAssumption
  <2> QED BY <2>1, <2>3, <2>4 DEF CounterInv, CountersHaveRoom
<1>2. ASSUME CounterInv, [Next]_vars PROVE CounterInv'
  <2>1. BaseInv'
    BY <1>2, BaseInductive DEF CounterInv
  <2>2. CASE ClockStep
    BY <1>2, <2>1, <2>2, ClockKeepsRoom DEF ClockStep, CounterInv
  <2>3. ASSUME NEW t \in Threads, Begin(t) \/ ThreadStep(t), UNCHANGED clockVars
        PROVE  CounterInv'
    BY <1>2, <2>1, <2>3, ThreadCases, LocalKeepsRoom, TakeKeepsRoom,
       ExhaustedKeepsRoom, SwapKeepsRoom DEF CounterInv
  <2>4. CASE UNCHANGED vars
    BY <1>2, <2>1, <2>4
       DEF vars, clockVars, seqVars, CounterInv, TimesServed, CountersHaveRoom,
           HasRoom, Takers, RepeatedTakers, MayTake, MayTakeAgain, TimeScope,
           Readable, CurrentTimestamp
  <2> QED BY <1>2, <2>2, <2>3, <2>4 DEF Next
<1> QED BY <1>1, <1>2

(* The counter of a scope exceeds its limit by at most two for each thread *)
(* of the process, for any number of threads, any limit and any clock,     *)
(* whether or not threads are delayed.                                     *)
THEOREM CountersBounded == IsFiniteSet(Threads) => (Spec => []CounterStaysBounded)
<1> SUFFICES ASSUME IsFiniteSet(Threads) PROVE Spec => []CounterStaysBounded
  OBVIOUS
<1>1. CounterInv => CounterStaysBounded
  <2> SUFFICES ASSUME CounterInv, NEW i \in 1..Len(scopes)
               PROVE  scopes[i].lastId <= MaxSequence + 2 * Cardinality(Threads)
    BY DEF CounterStaysBounded
  <2>1. scopes[i].lastId \in Int
    BY ScopeFields DEF CounterInv, BaseInv, TypeOK, SeqTypeOK, Scopes
  <2>2. /\ Takers(i) \in SUBSET Threads /\ RepeatedTakers(i) \in SUBSET Threads
        /\ Threads \in SUBSET Threads
    BY DEF Takers, RepeatedTakers
  <2>3. /\ Cardinality(Threads) \in Nat
        /\ Cardinality(Takers(i)) \in Nat
        /\ Cardinality(RepeatedTakers(i)) \in Nat
    BY <2>2, SmallerSet
  <2> QED
    BY <2>1, <2>3, SequenceAssumption DEF CounterInv, CountersHaveRoom, HasRoom
<1> QED BY <1>1, CounterInductive, PTL DEF Spec

-----------------------------------------------------------------------------
(* The invariant under the timing assumption: stamps of published scopes    *)
(* increase, because a thread about to swap holds a stamp above that of the *)
(* scope it expects to replace.                                            *)
ScopesIncrease ==
  \A i, j \in 1..Len(scopes) : i < j => scopes[i].ts < scopes[j].ts

StampAt(t) == scopes[currentScope[t]].ts

SwapAdvances ==
  \A t \in Threads :
    /\ pc[t] = "expect" => newTimestamp[t] = CurrentTimestamp
    /\ pc[t] = "swap" => StampAt(t) < newTimestamp[t]
    /\ pc[t] = "renew" => StampAt(t) < CurrentTimestamp

(* A thread about to take an id holds a scope no older than any id that was *)
(* out when its call began.                                                *)
TakesLater ==
  \A t \in Threads :
    pc[t] = "take" => \A k \in 1..begunAt[t] : issued[k].ts <= StampAt(t)

OrderInv ==
  /\ ScopesIncrease
  /\ SwapAdvances
  /\ TakesLater
  /\ Unique

LEMMA InitOrder == Init => OrderInv
<1> SUFFICES ASSUME Init PROVE OrderInv
  OBVIOUS
<1>1. /\ Len(scopes) = 1 /\ issued = <<>>
      /\ \A t \in Threads : pc[t] = "idle"
  BY DEF Init, SeqInit
<1>2. ScopesIncrease /\ SwapAdvances /\ TakesLater /\ Unique
  BY <1>1 DEF ScopesIncrease, SwapAdvances, TakesLater, Unique
<1>3. QED
  BY <1>2 DEF OrderInv

LEMMA ClockKeepsOrder ==
  ASSUME ReadGapIsShort, BaseInv, OrderInv, ClockStep
  PROVE  OrderInv'
<1>1. CurrentTimestamp' >= CurrentTimestamp
  BY ClockKeepsBase DEF ClockStep
<1>2. ScopesIncrease' /\ TakesLater' /\ Unique'
  BY DEF ClockStep, OrderInv, ScopesIncrease, TakesLater, StampAt, Unique, seqVars
<1>3. SwapAdvances'
  <2> SUFFICES ASSUME NEW t \in Threads
               PROVE  /\ pc[t] = "expect" => newTimestamp[t] = CurrentTimestamp'
                      /\ pc[t] = "swap" => StampAt(t) < newTimestamp[t]
                      /\ pc[t] = "renew" => StampAt(t) < CurrentTimestamp'
    BY DEF ClockStep, SwapAdvances, StampAt, seqVars
  <2>1. /\ pc[t] = "expect" => newTimestamp[t] = CurrentTimestamp
        /\ pc[t] = "swap" => StampAt(t) < newTimestamp[t]
        /\ pc[t] = "renew" => StampAt(t) < CurrentTimestamp
    BY DEF OrderInv, SwapAdvances
  <2>2. pc[t] = "expect" => CurrentTimestamp' = CurrentTimestamp
    BY DEF ClockStep, GapHolds
  <2>3. pc[t] = "renew" => StampAt(t) \in Nat
    BY ScopeFields DEF BaseInv, TypeOK, SeqTypeOK, HoldsScope, StampAt, Scopes
  <2>4. CurrentTimestamp \in Nat /\ CurrentTimestamp' \in Nat
    BY ClockKeepsBase, TimestampFacts, ClockStepFacts, TimestampMonotone
       DEF ClockStep, BaseInv, TypeOK
  <2>5. QED
    BY <1>1, <2>1, <2>2, <2>3, <2>4
<1>4. QED
  BY <1>2, <1>3 DEF OrderInv

(* An id out never carries a stamp above that of the current scope.        *)
LEMMA IssuedAtMostCurrent ==
  ASSUME BaseInv, ScopesIncrease, NEW k \in 1..Len(issued)
  PROVE  issued[k].ts <= scopes[TimeScope].ts
<1>1. scopes \in Seq(Scopes) /\ TimeScope \in 1..Len(scopes)
  BY DEF BaseInv, TypeOK, SeqTypeOK, Scopes, TimeScope
<1>2. PICK i \in 1..Len(scopes) : Covered(issued[k], scopes[i])
  BY DEF BaseInv, IssuedFromScope
<1>3. i = TimeScope \/ scopes[i].ts < scopes[TimeScope].ts
  BY <1>1 DEF ScopesIncrease, TimeScope
<1>4. scopes[i].ts \in Nat /\ scopes[TimeScope].ts \in Nat
  BY <1>1, ScopeFields
<1>5. QED
  BY <1>2, <1>3, <1>4 DEF Covered

(* What a call counted when it began is still there.                       *)
LEMMA BegunRange ==
  ASSUME BaseInv, NEW t \in Threads, NEW k \in 1..begunAt[t]
  PROVE  k \in 1..Len(issued)
<1>1. issued \in Seq(IdRecords) /\ begunAt[t] \in Nat \cup {-1}
  BY DEF BaseInv, TypeOK, SeqTypeOK, IdRecords, NotCalling
<1>2. Len(issued) \in Nat
  BY <1>1
<1>3. begunAt[t] <= Len(issued)
  BY DEF BaseInv, CallsMarked
<1>4. QED
  BY <1>1, <1>2, <1>3

LEMMA LocalKeepsOrder ==
  ASSUME BaseInv, OrderInv, NEW t \in Threads, LocalStep(t), UNCHANGED clockVars
  PROVE  OrderInv'
<1>1. UNCHANGED <<scopes, issued, cachedUtcNowTicks>>
  BY LocalStepTyped DEF clockVars, BaseInv
<1>2. CurrentTimestamp' = CurrentTimestamp /\ CurrentTimestamp \in Nat
  BY <1>1, TimestampFacts DEF CurrentTimestamp, BaseInv, TypeOK
<1>3. ScopesIncrease' /\ Unique'
  BY <1>1 DEF OrderInv, ScopesIncrease, Unique
<1>4. scopes \in Seq(Scopes) /\ TimeScope \in 1..Len(scopes)
  BY DEF BaseInv, TypeOK, SeqTypeOK, Scopes, TimeScope
<1>5. /\ \A i \in 1..Len(scopes) : scopes[i].ts \in Nat
      /\ \A i \in 1..Len(scopes) : scopes[i].ts <= CurrentTimestamp
  BY <1>4, ScopeFields DEF BaseInv, NoFutureScope
<1>6. SwapAdvances'
  <2> USE <1>1, <1>2, <1>4, <1>5
      DEF BaseInv, OrderInv, TypeOK, SeqTypeOK, Goto, SwapAdvances, StampAt,
          StampServed, HoldsScope
  <2>1. CASE Begin(t)
    BY <2>1 DEF Begin
  <2>2. CASE CheckScope(t)
    BY <2>2 DEF CheckScope
  <2>3. CASE Load(t)
    BY <2>3 DEF Load
  <2>4. CASE AwaitTick(t)
    BY <2>4 DEF AwaitTick
  <2>5. CASE ReadStamp(t)
    BY <2>5 DEF ReadStamp
  <2>6. CASE ReadExpected(t)
    BY <2>6 DEF ReadExpected
  <2>7. CASE SwapLost(t)
    BY <2>7 DEF SwapLost
  <2>8. CASE Reread(t)
    BY <2>8 DEF Reread
  <2>9. CASE Compare(t)
    BY <2>9 DEF Compare
  <2>10. CASE Renew(t)
    BY <2>10 DEF Renew
  <2>11. CASE Throw(t)
    BY <2>11 DEF Throw, End
  <2>12. QED
    BY <2>1, <2>2, <2>3, <2>4, <2>5, <2>6, <2>7, <2>8, <2>9, <2>10, <2>11
       DEF LocalStep
<1>7. TakesLater'
  <2> USE <1>1 DEF BaseInv, OrderInv, TypeOK, SeqTypeOK, Goto, TakesLater, StampAt
  <2>1. CASE Load(t)
    <3>1. \A k \in 1..begunAt[t] : k \in 1..Len(issued)
      BY BegunRange
    <3>2. \A k \in 1..begunAt[t] : issued[k].ts <= scopes[TimeScope].ts
      BY <3>1, IssuedAtMostCurrent
    <3>3. QED
      BY <2>1, <3>2 DEF Load
  <2>2. CASE ~Load(t)
    BY <2>2 DEF LocalStep, Begin, CheckScope, AwaitTick, ReadStamp, ReadExpected,
         SwapLost, Reread, Compare, Renew, Throw, End
  <2>3. QED
    BY <2>1, <2>2
<1>8. QED
  BY <1>3, <1>6, <1>7 DEF OrderInv

(* The id that Take returns is new, and above every id out when the call    *)
(* began: the scope it comes from has a stamp no lower, and its counter has *)
(* covered every id with the same stamp.                                   *)
LEMMA TakenIdFacts ==
  ASSUME BaseInv, OrderInv, NEW t \in Threads, Take(t)
  PROVE  LET id == Id(StampAt(t), NextId(t)) IN
         /\ \A k \in 1..Len(issued) : issued[k] # id
         /\ \A k \in 1..begunAt[t] :
              \/ issued[k].ts < id.ts
              \/ issued[k].ts = id.ts /\ issued[k].seq < id.seq
<1> DEFINE c == currentScope[t]
<1>1. c \in 1..Len(scopes) /\ scopes \in Seq(Scopes) /\ issued \in Seq(IdRecords)
  BY DEF Take, HoldsScope, BaseInv, TypeOK, SeqTypeOK, Scopes, IdRecords
<1>2. NextId(t) \in Nat /\ NextId(t) = scopes[c].lastId + 1
      /\ scopes[c].lastId \in Int /\ scopes[c].ts \in Nat
  BY <1>1, ScopeFields DEF NextId
<1>3. ASSUME NEW k \in 1..Len(issued), issued[k].ts = scopes[c].ts
      PROVE  issued[k].seq < NextId(t)
  <2>1. PICK i \in 1..Len(scopes) : Covered(issued[k], scopes[i])
    BY DEF BaseInv, IssuedFromScope
  <2>2. i = c
    <3>1. /\ scopes[i].ts \in Nat /\ scopes[i].ts = scopes[c].ts
      BY <1>1, <1>3, <2>1, ScopeFields DEF Covered
    <3>2. i < c => scopes[i].ts < scopes[c].ts
      BY <1>1 DEF OrderInv, ScopesIncrease
    <3>3. c < i => scopes[c].ts < scopes[i].ts
      BY <1>1 DEF OrderInv, ScopesIncrease
    <3>4. QED
      BY <1>1, <1>2, <3>1, <3>2, <3>3
  <2>3. issued[k] \in IdRecords
    BY <1>1
  <2>4. issued[k].seq \in Nat
    BY <2>3 DEF IdRecords
  <2>5. QED
    BY <1>2, <2>1, <2>2, <2>4 DEF Covered
<1>4. ASSUME NEW k \in 1..Len(issued)
      PROVE  issued[k] # Id(StampAt(t), NextId(t))
  <2>1. issued[k] \in IdRecords
    BY <1>1
  <2>2. issued[k].seq \in Nat
    BY <2>1 DEF IdRecords
  <2>3. issued[k].ts = scopes[c].ts => issued[k].seq # NextId(t)
    BY <1>2, <1>3, <2>2
  <2>4. QED
    BY <2>3 DEF Id, StampAt
<1>5. ASSUME NEW k \in 1..begunAt[t]
      PROVE  \/ issued[k].ts < StampAt(t)
             \/ issued[k].ts = StampAt(t) /\ issued[k].seq < NextId(t)
  <2>1. k \in 1..Len(issued)
    BY BegunRange
  <2>2. issued[k] \in IdRecords
    BY <1>1, <2>1
  <2>3. issued[k].ts \in Nat
    BY <2>2 DEF IdRecords
  <2>4. issued[k].ts <= StampAt(t)
    BY DEF OrderInv, TakesLater, Take
  <2>5. QED
    BY <1>2, <1>3, <2>1, <2>3, <2>4 DEF StampAt
<1>6. QED
  BY <1>4, <1>5 DEF Id

(* No step but Take adds an id, and no step but Swap adds a scope.         *)
LEMMA TakeKeepsOrder ==
  ASSUME BaseInv, OrderInv, NEW t \in Threads, Take(t), UNCHANGED clockVars
  PROVE  OrderInv'
<1> DEFINE id == Id(StampAt(t), NextId(t))
<1>1. /\ currentScope[t] \in 1..Len(scopes)
      /\ scopes \in Seq(Scopes) /\ issued \in Seq(IdRecords)
  BY DEF Take, HoldsScope, BaseInv, TypeOK, SeqTypeOK, Scopes, IdRecords
<1>2. /\ Len(scopes') = Len(scopes) /\ ScopesGrow /\ NextId(t) \in Nat
  BY <1>1, CountingFacts DEF Take, BaseInv
<1>3. id \in IdRecords
  BY <1>1, <1>2, ScopeFields DEF Id, IdRecords, StampAt
<1>4. issued' = Append(issued, id)
  BY DEF Take, StampAt
<1>5. \A k \in 1..Len(issued) : issued[k] # id
  BY TakenIdFacts
<1> HIDE DEF id
<1>6. /\ Len(issued') = Len(issued) + 1 /\ Len(issued) \in Nat
      /\ \A k \in 1..Len(issued) : issued'[k] = issued[k]
      /\ issued'[Len(issued')] = id
  BY <1>1, <1>3, <1>4
<1>7. Unique'
  <2> SUFFICES ASSUME NEW i \in 1..Len(issued'), NEW j \in 1..Len(issued'), i # j
               PROVE  issued'[i] # issued'[j]
    BY DEF Unique
  <2>1. CASE i = Len(issued')
    BY <2>1, <1>5, <1>6
  <2>2. CASE j = Len(issued')
    BY <2>2, <1>5, <1>6
  <2>3. CASE i \in 1..Len(issued) /\ j \in 1..Len(issued)
    BY <2>3, <1>6 DEF OrderInv, Unique
  <2>4. QED
    BY <2>1, <2>2, <2>3, <1>6
<1>8. ScopesIncrease'
  BY <1>2 DEF OrderInv, ScopesIncrease, ScopesGrow
<1>9. CurrentTimestamp' = CurrentTimestamp
  BY DEF CurrentTimestamp, clockVars
<1>10. SwapAdvances'
  <2> SUFFICES ASSUME NEW u \in Threads, u # t
               PROVE  /\ pc[u] = "expect" => newTimestamp[u] = CurrentTimestamp
                      /\ pc[u] = "swap" => StampAt(u)' < newTimestamp[u]
                      /\ pc[u] = "renew" => StampAt(u)' < CurrentTimestamp
    BY <1>9 DEF Take, End, SwapAdvances, BaseInv, TypeOK, SeqTypeOK
  <2>1. pc[u] \in {"swap", "renew"} => StampAt(u)' = StampAt(u)
    BY <1>2 DEF Take, End, StampAt, ScopesGrow, BaseInv, HoldsScope, TypeOK, SeqTypeOK
  <2>2. QED
    BY <2>1 DEF OrderInv, SwapAdvances
<1>11. TakesLater'
  <2> SUFFICES ASSUME NEW u \in Threads, u # t, pc[u] = "take",
                      NEW k \in 1..begunAt[u]
               PROVE  issued'[k].ts <= StampAt(u)'
    BY DEF Take, End, TakesLater, BaseInv, TypeOK, SeqTypeOK
  <2>1. StampAt(u)' = StampAt(u)
    BY <1>2 DEF Take, End, StampAt, ScopesGrow, BaseInv, HoldsScope, TypeOK, SeqTypeOK
  <2>2. k \in 1..Len(issued)
    BY BegunRange
  <2>3. QED
    BY <2>1, <2>2, <1>6 DEF OrderInv, TakesLater
<1>12. QED
  BY <1>7, <1>8, <1>10, <1>11 DEF OrderInv

(* A thread that keeps its scope keeps the stamp it holds.                 *)
LEMMA HeldStampsStay ==
  ASSUME BaseInv, ScopesGrow, NEW u \in Threads, UNCHANGED <<currentScope[u]>>,
         pc[u] \in {"swap", "renew", "take"}
  PROVE  StampAt(u)' = StampAt(u)
BY DEF StampAt, ScopesGrow, BaseInv, HoldsScope

LEMMA ExhaustedKeepsOrder ==
  ASSUME BaseInv, OrderInv, NEW t \in Threads, Exhausted(t), UNCHANGED clockVars
  PROVE  OrderInv'
<1>1. Len(scopes') = Len(scopes) /\ ScopesGrow
  BY CountingFacts DEF Exhausted, Goto, BaseInv, HoldsScope
<1>2. /\ UNCHANGED <<newTimestamp, currentScope, issued, begunAt>>
      /\ CurrentTimestamp' = CurrentTimestamp
      /\ pc'[t] = "wait"
      /\ \A u \in Threads \ {t} : pc'[u] = pc[u]
  BY DEF Exhausted, Goto, CurrentTimestamp, clockVars, BaseInv, TypeOK, SeqTypeOK
<1>3. ScopesIncrease'
  BY <1>1 DEF OrderInv, ScopesIncrease, ScopesGrow
<1>4. Unique'
  BY <1>2 DEF OrderInv, Unique
<1>5. \A u \in Threads :
        pc'[u] \in {"swap", "renew", "take"} =>
          pc'[u] = pc[u] /\ StampAt(u)' = StampAt(u)
  BY <1>1, <1>2, HeldStampsStay
<1>6. SwapAdvances'
  BY <1>2, <1>5 DEF OrderInv, SwapAdvances
<1>7. TakesLater'
  BY <1>2, <1>5 DEF OrderInv, TakesLater
<1>8. QED
  BY <1>3, <1>4, <1>6, <1>7 DEF OrderInv

(* The scope that Swap publishes is later than the one it replaces, which   *)
(* was the latest.                                                         *)
LEMMA SwapKeepsOrder ==
  ASSUME BaseInv, OrderInv, NEW t \in Threads, Swap(t), UNCHANGED clockVars
  PROVE  OrderInv'
<1>1. /\ scopes' \in Seq(Scopes)
      /\ Len(scopes') = Len(scopes) + 1
      /\ ScopesGrow
      /\ scopes'[Len(scopes')].ts = newTimestamp[t]
  BY SwapFacts DEF BaseInv
<1>2. /\ UNCHANGED <<newTimestamp, currentScope, issued, begunAt>>
      /\ CurrentTimestamp' = CurrentTimestamp
      /\ pc[t] = "swap" /\ pc'[t] = "load"
      /\ \A u \in Threads \ {t} : pc'[u] = pc[u]
  BY DEF Swap, Goto, CurrentTimestamp, clockVars, BaseInv, TypeOK, SeqTypeOK
<1>3. ScopesIncrease'
  <2>1. /\ scopes \in Seq(Scopes) /\ Len(scopes) \in Nat
        /\ Len(scopes) \in 1..Len(scopes)
        /\ newTimestamp[t] \in Nat
    BY DEF BaseInv, TypeOK, SeqTypeOK, Scopes
  <2>2. scopes[Len(scopes)].ts < newTimestamp[t]
    BY <1>2 DEF OrderInv, SwapAdvances, StampAt, Swap, TimeScope
  <2>3. \A i \in 1..Len(scopes) : scopes[i].ts < newTimestamp[t]
    <3> SUFFICES ASSUME NEW i \in 1..Len(scopes) PROVE scopes[i].ts < newTimestamp[t]
      OBVIOUS
    <3>1. i = Len(scopes) \/ scopes[i].ts < scopes[Len(scopes)].ts
      BY <2>1 DEF OrderInv, ScopesIncrease
    <3>2. scopes[i].ts \in Nat /\ scopes[Len(scopes)].ts \in Nat
      BY <2>1, ScopeFields
    <3>3. QED
      BY <2>1, <2>2, <3>1, <3>2
  <2>4. ASSUME NEW i \in 1..Len(scopes'), NEW j \in 1..Len(scopes'), i < j
        PROVE  scopes'[i].ts < scopes'[j].ts
    <3>1. i \in 1..Len(scopes) /\ scopes'[i].ts = scopes[i].ts
      BY <1>1, <2>1, <2>4 DEF ScopesGrow
    <3>2. CASE j = Len(scopes')
      BY <1>1, <2>3, <3>1, <3>2
    <3>3. CASE j \in 1..Len(scopes)
      <4>1. scopes'[j].ts = scopes[j].ts
        BY <1>1, <3>3 DEF ScopesGrow
      <4>2. scopes[i].ts < scopes[j].ts
        BY <2>4, <3>1, <3>3 DEF OrderInv, ScopesIncrease
      <4>3. QED
        BY <3>1, <4>1, <4>2
    <3>4. QED
      BY <1>1, <2>1, <3>2, <3>3
  <2>5. QED
    BY <2>4 DEF ScopesIncrease
<1>4. Unique'
  BY <1>2 DEF OrderInv, Unique
<1>5. \A u \in Threads :
        pc'[u] \in {"swap", "renew", "take"} =>
          pc'[u] = pc[u] /\ StampAt(u)' = StampAt(u)
  BY <1>1, <1>2, HeldStampsStay
<1>6. SwapAdvances'
  BY <1>2, <1>5 DEF OrderInv, SwapAdvances
<1>7. TakesLater'
  BY <1>2, <1>5 DEF OrderInv, TakesLater
<1>8. QED
  BY <1>3, <1>4, <1>6, <1>7 DEF OrderInv

LEMMA OrderInductive ==
  ReadGapIsShort /\ BaseInv /\ OrderInv /\ [Next]_vars => OrderInv'
<1> SUFFICES ASSUME ReadGapIsShort, BaseInv, OrderInv, [Next]_vars PROVE OrderInv'
  OBVIOUS
<1>1. CASE ClockStep
  BY <1>1, ClockKeepsOrder
<1>2. ASSUME NEW t \in Threads, Begin(t) \/ ThreadStep(t), UNCHANGED clockVars
      PROVE  OrderInv'
  BY <1>2, ThreadCases, LocalKeepsOrder, TakeKeepsOrder, ExhaustedKeepsOrder,
     SwapKeepsOrder
<1>3. CASE UNCHANGED vars
  BY <1>3 DEF vars, clockVars, seqVars, OrderInv, ScopesIncrease, SwapAdvances,
     StampAt, TakesLater, Unique, CurrentTimestamp
<1>4. QED
  BY <1>1, <1>2, <1>3 DEF Next

(* What the timing assumption adds: stamps increase, and calls take ids     *)
(* from scopes no older than the ids out when they began.                  *)
THEOREM OrderInvariant == ReadGapIsShort => (Spec => []OrderInv)
<1> SUFFICES ASSUME ReadGapIsShort PROVE Spec => []OrderInv
  OBVIOUS
<1>1. BaseInv /\ OrderInv /\ [Next]_vars => OrderInv'
  BY OrderInductive
<1>2. QED
  BY <1>1, InitOrder, BaseInvariant, PTL DEF Spec

(* Under the timing assumption no two calls return the same id, for any     *)
(* number of threads and any capacity of a scope.                          *)
THEOREM UniqueIfGapShort == ReadGapIsShort => (Spec => []Unique)
<1> SUFFICES ASSUME ReadGapIsShort PROVE Spec => []Unique
  OBVIOUS
<1>1. OrderInv => Unique
  BY DEF OrderInv
<1>2. QED
  BY <1>1, OrderInvariant, PTL

-----------------------------------------------------------------------------
(* Refinement: each step is a step of UniqueIds or leaves its view alone.   *)

LEMMA InitRefines == Init => Promise!Init
BY DEF Init, SeqInit, Promise!Init, NotCalling, Promise!NotCalling

LEMMA TakeRefines ==
  ASSUME BaseInv, OrderInv, NEW t \in Threads, Take(t)
  PROVE  Promise!Next
<1> DEFINE id == Id(StampAt(t), NextId(t))
<1>1. /\ currentScope[t] \in 1..Len(scopes) /\ scopes \in Seq(Scopes)
      /\ begunAt[t] # NotCalling
      /\ StampAt(t) <= CurrentTimestamp
  BY DEF Take, BaseInv, HoldsScope, CallsMarked, NoFutureScope, StampAt, TypeOK,
         SeqTypeOK, Scopes
<1>2. /\ StampAt(t) \in Nat
      /\ NextId(t) \in Nat /\ NextId(t) <= MaxSequence
  BY <1>1, ScopeFields, CountingFacts DEF Take, BaseInv, StampAt
<1>3. CurrentTimestamp \in Nat /\ CurrentTimestamp <= MaxTimestamp
  BY TimestampFacts DEF BaseInv, TypeOK
<1>4. MaxTimestamp \in Nat
  BY DivIsNat, ClockAssumption DEF MaxTimestamp
<1>5. id \in [ts : 0..MaxTimestamp, seq : 0..MaxSequence]
  BY <1>1, <1>2, <1>3, <1>4, SequenceAssumption DEF Id
<1>6. /\ \A k \in 1..Len(issued) : issued[k] # id
      /\ \A k \in 1..begunAt[t] : Promise!Precedes(issued[k], id)
  BY TakenIdFacts DEF Promise!Precedes
<1>7. issued' = Append(issued, id) /\ begunAt' = [begunAt EXCEPT ![t] = NotCalling]
  BY DEF Take, End, StampAt
<1> HIDE DEF id
<1>8. Promise!Return(t, id)
  BY <1>1, <1>6, <1>7 DEF Promise!Return, NotCalling, Promise!NotCalling
<1>9. QED
  BY <1>5, <1>8 DEF Promise!Next

LEMMA StepRefines ==
  BaseInv /\ OrderInv /\ [Next]_vars => [Promise!Next]_Promise!vars
<1> SUFFICES ASSUME BaseInv, OrderInv, [Next]_vars
             PROVE  Promise!Next \/ UNCHANGED Promise!vars
  OBVIOUS
<1> USE DEF Promise!vars
<1>1. CASE ClockStep \/ UNCHANGED vars
  BY <1>1 DEF ClockStep, vars, seqVars
<1>2. ASSUME NEW t \in Threads, Begin(t)
      PROVE  Promise!Next
  BY <1>2 DEF Begin, Goto, BaseInv, CallsMarked, Promise!Next, Promise!Begin,
              NotCalling, Promise!NotCalling
<1>3. ASSUME NEW t \in Threads, Take(t)
      PROVE  Promise!Next
  BY <1>3, TakeRefines
<1>4. ASSUME NEW t \in Threads, Throw(t)
      PROVE  Promise!Next
  <2>1. pc[t] # "idle"
    BY <1>4 DEF Throw
  <2>2. begunAt[t] # NotCalling
    BY <2>1 DEF BaseInv, CallsMarked
  <2>3. Promise!Fail(t)
    BY <1>4, <2>2 DEF Throw, End, Promise!Fail, NotCalling, Promise!NotCalling
  <2>4. QED
    BY <2>3 DEF Promise!Next
<1>5. ASSUME NEW t \in Threads, ThreadStep(t), ~Take(t), ~Throw(t)
      PROVE  UNCHANGED <<issued, begunAt>>
  BY <1>5 DEF ThreadStep, CheckScope, Load, Exhausted, AwaitTick, ReadStamp,
              ReadExpected, Swap, SwapLost, Reread, Compare, Renew
<1>6. QED
  BY <1>1, <1>2, <1>3, <1>4, <1>5 DEF Next

(* Under the timing assumption the generator implements the abstract id     *)
(* source: every id is new and above all ids out when its call began.      *)
THEOREM Refinement == ReadGapIsShort => (Spec => ImplementsUniqueIds)
<1> SUFFICES ASSUME ReadGapIsShort PROVE Spec => ImplementsUniqueIds
  OBVIOUS
<1>1. Spec => []OrderInv
  BY OrderInvariant
<1>2. QED
  BY <1>1, InitRefines, StepRefines, BaseInvariant, PTL
     DEF Spec, ImplementsUniqueIds, Promise!Spec

=============================================================================
