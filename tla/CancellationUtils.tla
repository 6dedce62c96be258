-------------------------- MODULE CancellationUtils -------------------------
(***************************************************************************)
(* CancellationUtils: the root scope and the keyed child scopes of one      *)
(* dependency-injection scope, and what its users do with them.  A user     *)
(* calls from any thread, and also from a callback of a token it knows,     *)
(* while that token's source is notifying.                                 *)
(***************************************************************************)
EXTENDS CancellationScope

NoThread == "noThread"

CONSTANTS
  Root,      \* the scope _root
  MaxCalls   \* bound: the calls that users make

ASSUME UtilsAssumption ==
  /\ Root \in Scopes
  /\ MaxCalls \in Nat

ASSUME ThreadsAssumption == NoThread \notin Threads

Keys == Scopes \ {Root}

VARIABLES
  lock,          \* the thread that holds _lock of CancellationUtils
  keyedScopes,
  utilsDisposed, \* _isDisposed of CancellationUtils
  known,         \* the scopes users have seen
  asked,         \* history: the tokens users have asked to cancel
  calls          \* how many calls users have made

utilsVars == <<lock, keyedScopes, utilsDisposed, known, asked, calls>>

vars == <<scopeVars, utilsVars>>

Init ==
  /\ ScopeInit
  /\ lock = NoThread
  /\ keyedScopes = {}
  /\ utilsDisposed = FALSE
  /\ known = {Root}
  /\ asked = {}
  /\ calls = 0

-----------------------------------------------------------------------------
(* GetOrCreateScope holds _lock from end to end.                           *)

LockFree == lock = NoThread

(* Mutant: an early return leaves the lock taken.                          *)
GetWithoutUnlock(t) ==
  /\ At(t, "get")
  /\ LockFree
  /\ lock' = t
  /\ IF utilsDisposed \/ Me(t) \in keyedScopes
     THEN Return(t)
     ELSE Enter(t, Frame("add", Me(t)), [Frame("merge", Me(t)) EXCEPT !.held = {Root}])
  /\ UNCHANGED <<sourceVars, lockedVars, observed, keyedScopes, utilsDisposed, known,
                 asked, calls>>

(* Throws when disposed, returns the scope when the key has one, otherwise  *)
(* merges the root's token into a new scope.                               *)
GetOrCreateScope(t) ==
  /\ At(t, "get")
  /\ LockFree
  /\ IF utilsDisposed \/ Me(t) \in keyedScopes
     THEN Return(t) /\ UNCHANGED lock
     ELSE /\ lock' = t
          /\ Enter(t, Frame("add", Me(t)), [Frame("merge", Me(t)) EXCEPT !.held = {Root}])
  /\ UNCHANGED <<sourceVars, lockedVars, observed, keyedScopes, utilsDisposed, known,
                 asked, calls>>

(* Mutant: stores the root under the key.                                  *)
AddRoot(t) ==
  /\ At(t, "add")
  /\ keyedScopes' = keyedScopes \cup {Root}
  /\ known' = known \cup {Me(t)}
  /\ lock' = NoThread
  /\ Return(t)
  /\ UNCHANGED <<sourceVars, lockedVars, observed, utilsDisposed, asked, calls>>

AddScope(t) ==
  /\ At(t, "add")
  /\ keyedScopes' = keyedScopes \cup {Me(t)}
  /\ known' = known \cup {Me(t)}
  /\ lock' = NoThread
  /\ Return(t)
  /\ UNCHANGED <<sourceVars, lockedVars, observed, utilsDisposed, asked, calls>>

(* Mutant: disposes the children without asking the root.                  *)
DisposeChildrenFirst(t) ==
  /\ At(t, "dispose")
  /\ LockFree
  /\ IF utilsDisposed
     THEN Return(t) /\ UNCHANGED <<keyedScopes, utilsDisposed>>
     ELSE /\ utilsDisposed' = TRUE
          /\ keyedScopes' = {}
          /\ Become(t, [Frame("before", Root) EXCEPT !.children = keyedScopes])
  /\ UNCHANGED <<sourceVars, lockedVars, observed, lock, known, asked, calls>>

Dispose(t) ==
  /\ At(t, "dispose")
  /\ LockFree
  /\ IF utilsDisposed
     THEN Return(t) /\ UNCHANGED <<keyedScopes, utilsDisposed>>
     ELSE /\ utilsDisposed' = TRUE
          /\ keyedScopes' = {}
          /\ Become(t, [Frame("release", Root) EXCEPT !.children = keyedScopes])
  /\ UNCHANGED <<sourceVars, lockedVars, observed, lock, known, asked, calls>>

-----------------------------------------------------------------------------
(* The users.                                                              *)

(* User code runs on a free thread, or in a callback of a token it knows.   *)
CallFrom(t, f) ==
  /\ calls < MaxCalls
  /\ calls' = calls + 1
  /\ \/ stack[t] = <<>> /\ UNCHANGED executing
     \/ /\ At(t, "notify")
        /\ Me(t) \in known \cup Foreign
        /\ executing' = [executing EXCEPT ![Me(t)] = UserCode]
  /\ stack' = [stack EXCEPT ![t] = <<f>> \o @]
  /\ UNCHANGED <<source, callbacks, sourceDisposed, lockedVars, observed, lock,
                 keyedScopes, utilsDisposed, known>>

CallCancel(t) ==
  \E k \in known \cup Foreign :
    /\ CallFrom(t, Frame(IF k \in Foreign THEN "signal" ELSE "cancel", k))
    /\ asked' = asked \cup {k}

CallMerge(t) ==
  \E s \in known, k \in known \cup Foreign :
    /\ CallFrom(t, [Frame("merge", s) EXCEPT !.held = {k}])
    /\ UNCHANGED asked

CallGetOrCreateScope(t) ==
  \E s \in Keys : CallFrom(t, Frame("get", s)) /\ UNCHANGED asked

CallDispose(t) == CallFrom(t, Frame("dispose", Root)) /\ UNCHANGED asked

-----------------------------------------------------------------------------
Step(t) ==
  \/ ScopeStep(t) /\ UNCHANGED utilsVars
  \/ GetOrCreateScope(t)
  \/ AddScope(t)
  \/ Dispose(t)

Call(t) ==
  CallCancel(t) \/ CallMerge(t) \/ CallGetOrCreateScope(t) \/ CallDispose(t)

(* Every user may stop calling.                                            *)
Quiet == \A t \in Threads : stack[t] = <<>>

Rest == Quiet /\ UNCHANGED vars

Next == (\E t \in Threads : Step(t) \/ Call(t)) \/ Rest

Spec == Init /\ [][Next]_vars

(* Threads are scheduled; users owe no call.                               *)
FairSpec == Spec /\ \A t \in Threads : WF_vars(Step(t))

-----------------------------------------------------------------------------
(* Types of the variables.                                                 *)
TypeOK ==
  /\ ScopeTypeOK
  /\ lock \in Threads \cup {NoThread}
  /\ keyedScopes \subseteq Keys
  /\ utilsDisposed \in BOOLEAN
  /\ known \subseteq Scopes
  /\ asked \subseteq Tokens
  /\ calls \in 0..MaxCalls

(* Once the root has told everyone, every child is cancelled or being       *)
(* cancelled: also one created while the root was telling them, and one     *)
(* whose registration raced with it.                                       *)
RootReachesChildren ==
  source[Root] = "canceled" =>
    \A c \in known : IsCancellationRequested(c) \/ isCancellationInProgress[c]

(* A scope is cancelled only because a user asked for it, or for a token    *)
(* that it merged, directly or through other scopes: it is in every set    *)
(* that has what users asked for, and with a token the scopes that merged  *)
(* it.  So a child never cancels the root or a sibling.                    *)
Caused(K) == asked \subseteq K /\ \A s \in Scopes : observed[s] \cap K # {} => s \in K

HasCause(k) == \A K \in SUBSET Tokens : Caused(K) => k \in K

CancellationHasCause == \A s \in Scopes : IsCancellationRequested(s) => HasCause(s)

(* Disposing from a callback of the root leaves the children alive until    *)
(* the root has run its callbacks.                                         *)
ChildrenOutliveRootCallbacks ==
  source[Root] = "notifying" => \A c \in Keys : ~isDisposed[c]

(* When no call is running, a scope that is cancelled or disposed is        *)
(* registered nowhere, and disposing has disposed every scope's source.    *)
LetsGo(s) == registrations[s] = {} /\ \A k \in Tokens : s \notin callbacks[k]

NothingLeaks ==
  Quiet =>
    \A s \in known :
      /\ IsCancellationRequested(s) \/ isDisposed[s] => LetsGo(s)
      /\ utilsDisposed => sourceDisposed[s]

(* No call waits for ever: not for the lock, and not for a callback that    *)
(* another thread runs.                                                    *)
CallsReturn == \A t \in Threads : (stack[t] # <<>>) ~> (stack[t] = <<>>)

=============================================================================
