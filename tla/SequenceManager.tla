-------------------------- MODULE SequenceManager ---------------------------
(***************************************************************************)
(* The generator of time-scoped ids of one entity type: the static field    *)
(* _timeScope of SequenceManager<TEntity>, the atomic counter of each       *)
(* SequenceTimeScope, and the threads that run GetTimeScopedId, one step    *)
(* per access to shared state.  The clock is that of TimeStampManager; all  *)
(* callers pass the one application epoch.                                 *)
(*                                                                         *)
(* A scope becomes shared only when a compare-and-swap publishes it, and no *)
(* scope is published twice, so scopes is the sequence of all published     *)
(* ones and _timeScope is always the last.                                 *)
(***************************************************************************)
EXTENDS TimeStampManager, Sequences, FiniteSets

CONSTANTS
  Threads,        \* the threads that ask for ids
  MaxSequence,    \* SequenceTimeScope.MaxValue
  MaxIds,         \* bound: ids handed out plus calls in progress
  ReadGapIsShort  \* TRUE: the clock does not tick between lines 86 and 87

ASSUME SequenceAssumption ==
  /\ MaxSequence \in Nat
  /\ MaxIds \in Nat
  /\ ReadGapIsShort \in BOOLEAN

NotCalling == -1

VARIABLES
  scopes,        \* every published scope: its time stamp and its counter
  pc,            \* the next step of each thread
  timeStamp,     \* local of GetTimeScopedId
  newTimestamp,  \* local of UpdateTimeScope: the stamp of its new scope
  currentScope,  \* local of both: a scope read from _timeScope (its index)
  issued,        \* history: the ids returned, in order
  begunAt        \* history: Len(issued) when the thread's call began

seqVars == <<scopes, pc, timeStamp, newTimestamp, currentScope, issued, begunAt>>

vars == <<clockVars, seqVars>>

Steps == {"idle", "check", "stamp", "expect", "swap", "reread", "compare",
          "renew", "load", "take", "wait"}

TimeScope == Len(scopes)

(* Mutant: the counter starts one too low.                                 *)
NewScopeTooLow(stamp) == [ts |-> stamp, lastId |-> -2]

NewScope(stamp) == [ts |-> stamp, lastId |-> -1]

Id(stamp, sequence) == [ts |-> stamp, seq |-> sequence]

Calls == Len(issued) + Cardinality({t \in Threads : pc[t] # "idle"})

(* Moves thread t from one step to the next.                               *)
Goto(t, from, to) ==
  /\ pc[t] = from
  /\ pc' = [pc EXCEPT ![t] = to]

(* The call of thread t ends: its locals die.                              *)
End(t) ==
  /\ pc' = [pc EXCEPT ![t] = "idle"]
  /\ timeStamp' = [timeStamp EXCEPT ![t] = 0]
  /\ newTimestamp' = [newTimestamp EXCEPT ![t] = 0]
  /\ currentScope' = [currentScope EXCEPT ![t] = 0]
  /\ begunAt' = [begunAt EXCEPT ![t] = NotCalling]

SeqInit ==
  /\ scopes = <<NewScope(CurrentTimestamp)>>
  /\ pc = [t \in Threads |-> "idle"]
  /\ timeStamp = [t \in Threads |-> 0]
  /\ newTimestamp = [t \in Threads |-> 0]
  /\ currentScope = [t \in Threads |-> 0]
  /\ issued = <<>>
  /\ begunAt = [t \in Threads |-> NotCalling]

Init == ClockInit /\ SeqInit

-----------------------------------------------------------------------------
(* GetTimeScopedId.                                                        *)

Begin(t) ==
  /\ Readable
  /\ Calls < MaxIds
  /\ Goto(t, "idle", "check")
  /\ timeStamp' = [timeStamp EXCEPT ![t] = CurrentTimestamp]
  /\ begunAt' = [begunAt EXCEPT ![t] = Len(issued)]
  /\ UNCHANGED <<scopes, newTimestamp, currentScope, issued>>

CheckScope(t) ==
  /\ Goto(t, "check",
          IF scopes[TimeScope].ts # timeStamp[t] THEN "stamp" ELSE "load")
  /\ UNCHANGED <<scopes, timeStamp, newTimestamp, currentScope, issued, begunAt>>

Load(t) ==
  /\ Goto(t, "load", "take")
  /\ currentScope' = [currentScope EXCEPT ![t] = TimeScope]
  /\ UNCHANGED <<scopes, timeStamp, newTimestamp, issued, begunAt>>

(* TryGetNextId increments the counter whether or not it is exhausted.     *)
NextId(t) == scopes[currentScope[t]].lastId + 1

Increment(t) == scopes' = [scopes EXCEPT ![currentScope[t]].lastId = NextId(t)]

Take(t) ==
  /\ pc[t] = "take"
  /\ NextId(t) <= MaxSequence
  /\ Increment(t)
  /\ issued' = Append(issued, Id(scopes[currentScope[t]].ts, NextId(t)))
  /\ End(t)

Exhausted(t) ==
  /\ Goto(t, "take", "wait")
  /\ NextId(t) > MaxSequence
  /\ Increment(t)
  /\ UNCHANGED <<timeStamp, newTimestamp, currentScope, issued, begunAt>>

(* Mutant: does not wait for the clock to move.                            *)
AwaitNothing(t) ==
  /\ Readable
  /\ Goto(t, "wait", "stamp")
  /\ timeStamp' = [timeStamp EXCEPT ![t] = CurrentTimestamp]
  /\ UNCHANGED <<scopes, newTimestamp, currentScope, issued, begunAt>>

(* The sleep loop leaves when the clock has moved on.  The assignment of    *)
(* line 80 is made here: nothing reads timeStamp in between.               *)
AwaitTick(t) ==
  /\ Readable
  /\ CurrentTimestamp # timeStamp[t]
  /\ Goto(t, "wait", "stamp")
  /\ timeStamp' = [timeStamp EXCEPT ![t] = CurrentTimestamp]
  /\ UNCHANGED <<scopes, newTimestamp, currentScope, issued, begunAt>>

-----------------------------------------------------------------------------
(* UpdateTimeScope.                                                        *)

(* Mutant: opens the scope of the next unit.                               *)
ReadNextStamp(t) ==
  /\ Readable
  /\ Goto(t, "stamp", "expect")
  /\ newTimestamp' = [newTimestamp EXCEPT ![t] = CurrentTimestamp + 1]
  /\ UNCHANGED <<scopes, timeStamp, currentScope, issued, begunAt>>

ReadStamp(t) ==
  /\ Readable
  /\ Goto(t, "stamp", "expect")
  /\ newTimestamp' = [newTimestamp EXCEPT ![t] = CurrentTimestamp]
  /\ UNCHANGED <<scopes, timeStamp, currentScope, issued, begunAt>>

ReadExpected(t) ==
  /\ Goto(t, "expect",
          IF scopes[TimeScope].ts = newTimestamp[t] THEN "load" ELSE "swap")
  /\ currentScope' = [currentScope EXCEPT ![t] = TimeScope]
  /\ UNCHANGED <<scopes, timeStamp, newTimestamp, issued, begunAt>>

(* Mutant: assigns the new scope without comparing.                        *)
SwapBlindly(t) ==
  /\ Goto(t, "swap", "load")
  /\ scopes' = Append(scopes, NewScope(newTimestamp[t]))
  /\ UNCHANGED <<timeStamp, newTimestamp, currentScope, issued, begunAt>>

Swap(t) ==
  /\ currentScope[t] = TimeScope
  /\ Goto(t, "swap", "load")
  /\ scopes' = Append(scopes, NewScope(newTimestamp[t]))
  /\ UNCHANGED <<timeStamp, newTimestamp, currentScope, issued, begunAt>>

(* Mutant: tries again with the scope it already holds.                    *)
SwapLostForGood(t) ==
  /\ currentScope[t] # TimeScope
  /\ Goto(t, "swap", "swap")
  /\ UNCHANGED <<scopes, timeStamp, newTimestamp, currentScope, issued, begunAt>>

SwapLost(t) ==
  /\ currentScope[t] # TimeScope
  /\ Goto(t, "swap", "reread")
  /\ UNCHANGED <<scopes, timeStamp, newTimestamp, currentScope, issued, begunAt>>

Reread(t) ==
  /\ Goto(t, "reread", "compare")
  /\ currentScope' = [currentScope EXCEPT ![t] = TimeScope]
  /\ UNCHANGED <<scopes, timeStamp, newTimestamp, issued, begunAt>>

Compare(t) ==
  /\ Readable
  /\ Goto(t, "compare",
          IF scopes[currentScope[t]].ts = CurrentTimestamp THEN "load" ELSE "renew")
  /\ UNCHANGED <<scopes, timeStamp, newTimestamp, currentScope, issued, begunAt>>

(* Mutant: tries again with the stamp of the first attempt.                *)
RenewNothing(t) ==
  /\ Readable
  /\ Goto(t, "renew", "swap")
  /\ UNCHANGED <<scopes, timeStamp, newTimestamp, currentScope, issued, begunAt>>

Renew(t) ==
  /\ Readable
  /\ Goto(t, "renew", "swap")
  /\ newTimestamp' = [newTimestamp EXCEPT ![t] = CurrentTimestamp]
  /\ UNCHANGED <<scopes, timeStamp, currentScope, issued, begunAt>>

(* Mutant: the sleep loop compares without reading the clock's flag.       *)
ThrowAwake(t) ==
  /\ pc[t] \in {"stamp", "compare", "renew"}
  /\ ~Readable
  /\ End(t)
  /\ UNCHANGED <<scopes, issued>>

(* Every read of the clock throws once the drift flag is up.               *)
Throw(t) ==
  /\ pc[t] \in {"stamp", "compare", "renew", "wait"}
  /\ ~Readable
  /\ End(t)
  /\ UNCHANGED <<scopes, issued>>

-----------------------------------------------------------------------------
ThreadStep(t) ==
  \/ CheckScope(t) \/ Load(t) \/ Take(t) \/ Exhausted(t) \/ AwaitTick(t)
  \/ ReadStamp(t) \/ ReadExpected(t) \/ Swap(t) \/ SwapLost(t)
  \/ Reread(t) \/ Compare(t) \/ Renew(t) \/ Throw(t)

(* The timing assumption under which ids are unique: a thread does not      *)
(* lose the processor for a whole clock unit between reading the stamp of   *)
(* its new scope (line 86) and reading the scope to replace (line 87).     *)
GapHolds ==
  ReadGapIsShort =>
    (\A t \in Threads : pc[t] # "expect") \/ CurrentTimestamp' = CurrentTimestamp

ClockStep == ClockNext /\ GapHolds /\ UNCHANGED seqVars

Next ==
  \/ ClockStep
  \/ \E t \in Threads : Begin(t) /\ UNCHANGED clockVars
  \/ \E t \in Threads : ThreadStep(t) /\ UNCHANGED clockVars

Spec == Init /\ [][Next]_vars

(* Threads are scheduled, and a drift that Update has detected is flagged.  *)
(* The clock itself owes nothing: it may stand still for ever.             *)
Fairness ==
  /\ \A t \in Threads : WF_vars(ThreadStep(t) /\ UNCHANGED clockVars)
  /\ WF_vars(RaiseFlag /\ GapHolds /\ UNCHANGED seqVars)
  /\ WF_vars(RequestShutdown /\ GapHolds /\ UNCHANGED seqVars)

FairSpec == Spec /\ Fairness

-----------------------------------------------------------------------------
MaxTimestamp == MaxReading \div TicksPerPrecisionUnit

(* Types of the generator's variables.                                     *)
SeqTypeOK ==
  /\ scopes \in Seq([ts : Nat, lastId : Nat \cup {-1}])
  /\ Len(scopes) >= 1
  /\ pc \in [Threads -> Steps]
  /\ timeStamp \in [Threads -> Nat]
  /\ newTimestamp \in [Threads -> Nat]
  /\ currentScope \in [Threads -> Nat]
  /\ issued \in Seq([ts : Nat, seq : Nat])
  /\ begunAt \in [Threads -> Nat \cup {NotCalling}]

TypeOK == ClockTypeOK /\ SeqTypeOK

(* No two calls return the same time stamp and sequence number.            *)
Unique == \A i, j \in 1..Len(issued) : i # j => issued[i] # issued[j]

(* The generator implements the abstract id source: ids are unique, and an  *)
(* id is greater than every id returned before its call began, so that      *)
(* sorting by id respects the order in which calls happened.               *)
Promise == INSTANCE UniqueIds WITH Ids <- [ts : 0..MaxTimestamp, seq : 0..MaxSequence]

ImplementsUniqueIds == Promise!Spec

(* No scope, and so no id, carries a time the clock has not served yet.    *)
NoFutureScope == \A i \in 1..Len(scopes) : scopes[i].ts <= CurrentTimestamp

(* The counter of an exhausted scope is still incremented by every thread   *)
(* that tries, but at most twice by each: it never comes near the 32-bit    *)
(* limit past which a negative counter would pass the range test again.    *)
CounterStaysBounded ==
  \A i \in 1..Len(scopes) :
    scopes[i].lastId <= MaxSequence + 2 * Cardinality(Threads)

(* A call ends, with an id or an exception, or sleeps because the unit it    *)
(* last saw is used up; the retry loops around the compare-and-swap never   *)
(* go round for ever, and a sleeper is woken when the clock ticks.         *)
Asleep(t) == pc[t] = "wait" /\ timeStamp[t] = CurrentTimestamp

CallsEndOrSleep ==
  \A t \in Threads : pc[t] # "idle" ~> (pc[t] = "idle" \/ Asleep(t))

(* Critical drift never leaves a thread asleep: threads waiting for a tick  *)
(* leave with the exception although the clock may never move again.       *)
DriftReleasesThreads == \A t \in Threads : driftDetected ~> pc[t] = "idle"

=============================================================================
