----------------------------- MODULE UniqueIds ------------------------------
(***************************************************************************)
(* What an id source promises its callers, whatever the implementation:    *)
(* no id is handed out twice, and an id is greater than every id that was  *)
(* handed out before its call began.  Calls that overlap may return their  *)
(* ids in any order, and a call may fail.                                  *)
(***************************************************************************)
EXTENDS Integers, Sequences

CONSTANTS
  Threads,  \* the callers
  Ids       \* records with a time stamp ts and a sequence number seq

NotCalling == -1

VARIABLES
  issued,   \* the ids in the order in which they were handed out
  begunAt   \* for a call in progress, how many ids were out when it began

vars == <<issued, begunAt>>

Precedes(a, b) == a.ts < b.ts \/ (a.ts = b.ts /\ a.seq < b.seq)

Init ==
  /\ issued = <<>>
  /\ begunAt = [t \in Threads |-> NotCalling]

Begin(t) ==
  /\ begunAt[t] = NotCalling
  /\ begunAt' = [begunAt EXCEPT ![t] = Len(issued)]
  /\ UNCHANGED issued

Return(t, id) ==
  /\ begunAt[t] # NotCalling
  /\ \A k \in 1..Len(issued) : issued[k] # id
  /\ \A k \in 1..begunAt[t] : Precedes(issued[k], id)
  /\ issued' = Append(issued, id)
  /\ begunAt' = [begunAt EXCEPT ![t] = NotCalling]

Fail(t) ==
  /\ begunAt[t] # NotCalling
  /\ begunAt' = [begunAt EXCEPT ![t] = NotCalling]
  /\ UNCHANGED issued

Next ==
  \E t \in Threads :
    \/ Begin(t)
    \/ \E id \in Ids : Return(t, id)
    \/ Fail(t)

Spec == Init /\ [][Next]_vars

=============================================================================
