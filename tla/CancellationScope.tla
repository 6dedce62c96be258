-------------------------- MODULE CancellationScope -------------------------
(***************************************************************************)
(* CancellationScope: a terminal cancellation scope over one .NET token     *)
(* source, used by any number of threads.  Each critical section under the  *)
(* scope's _lock is one step, and so is each call of the token source made  *)
(* outside it.                                                              *)
(*                                                                         *)
(* Calls nest: cancelling a source runs its callbacks on the same thread,   *)
(* and each callback cancels another scope.  So a thread has a stack of     *)
(* frames, the innermost first.  A frame stands at a step, of a scope, with *)
(* the registrations (held, by token) and child scopes it still has to      *)
(* deal with.                                                              *)
(*                                                                         *)
(* Callbacks of a source run here in any order; .NET runs the last first.  *)
(* An exception of a callback changes no state of the scope (every path out *)
(* of Cancel is the finally block) and is left out.                        *)
(***************************************************************************)
EXTENDS Naturals, Sequences

CONSTANTS
  Threads,
  Scopes,   \* the scopes; the token of a scope is the scope itself
  Foreign   \* tokens whose sources belong to callers

ASSUME TokensAssumption == Scopes \cap Foreign = {}

Tokens == Scopes \cup Foreign

NoCallback == "none"
UserCode == "userCode"

VARIABLES
  source,       \* each token source: "live", "notifying" or "canceled"
  callbacks,    \* the scopes that a source will cancel when it is cancelled
  executing,    \* the callback a notifying source has begun last
  sourceDisposed,
  mergedTokens,
  registrations,             \* by token
  beforeScopeResources,      \* the child scopes the disposal releases first
  isCancellationInProgress,
  disposeAfterCancellation,
  isDisposed,
  stack,
  observed      \* history: the tokens each scope has ever merged

sourceVars == <<source, callbacks, executing, sourceDisposed>>

lockedVars == <<mergedTokens, registrations, beforeScopeResources,
                isCancellationInProgress, disposeAfterCancellation, isDisposed>>

scopeVars == <<sourceVars, lockedVars, stack, observed>>

Frame(step, s) == [step |-> step, of |-> s, held |-> {}, children |-> {}]

At(t, step) == stack[t] # <<>> /\ Head(stack[t]).step = step

Me(t) == Head(stack[t]).of
Held(t) == Head(stack[t]).held
Children(t) == Head(stack[t]).children

(* The innermost frame of t returns, becomes another frame, or calls one.  *)
Return(t) == stack' = [stack EXCEPT ![t] = Tail(@)]
Become(t, f) == stack' = [stack EXCEPT ![t] = <<f>> \o Tail(@)]
Continue(t, step) == Become(t, [Head(stack[t]) EXCEPT !.step = step])
Enter(t, f, g) == stack' = [stack EXCEPT ![t] = <<g, f>> \o Tail(@)]

ScopeInit ==
  /\ source = [k \in Tokens |-> "live"]
  /\ callbacks = [k \in Tokens |-> {}]
  /\ executing = [k \in Tokens |-> NoCallback]
  /\ sourceDisposed = [s \in Scopes |-> FALSE]
  /\ mergedTokens = [s \in Scopes |-> {}]
  /\ registrations = [s \in Scopes |-> {}]
  /\ beforeScopeResources = [s \in Scopes |-> {}]
  /\ isCancellationInProgress = [s \in Scopes |-> FALSE]
  /\ disposeAfterCancellation = [s \in Scopes |-> FALSE]
  /\ isDisposed = [s \in Scopes |-> FALSE]
  /\ stack = [t \in Threads |-> <<>>]
  /\ observed = [s \in Scopes |-> {}]

IsCancellationRequested(k) == source[k] # "live"

CanAcceptCancellation(s) ==
  /\ ~isDisposed[s]
  /\ ~isCancellationInProgress[s]
  /\ ~IsCancellationRequested(s)

-----------------------------------------------------------------------------
(* Cancel.                                                                 *)

TryBeginCancellation(t) ==
  /\ At(t, "cancel")
  /\ LET s == Me(t) IN
     IF CanAcceptCancellation(s)
     THEN /\ isCancellationInProgress' = [isCancellationInProgress EXCEPT ![s] = TRUE]
          /\ Continue(t, "signal")
     ELSE /\ Return(t)
          /\ UNCHANGED isCancellationInProgress
  /\ UNCHANGED <<sourceVars, mergedTokens, registrations, beforeScopeResources,
                 disposeAfterCancellation, isDisposed, observed>>

(* _source.Cancel(), or the owner of a foreign source cancelling it: the    *)
(* first to arrive notifies, a later one returns.                          *)
Signal(t) ==
  /\ At(t, "signal")
  /\ IF source[Me(t)] = "live"
     THEN /\ source' = [source EXCEPT ![Me(t)] = "notifying"]
          /\ Continue(t, "notify")
     ELSE Return(t) /\ UNCHANGED source
  /\ UNCHANGED <<callbacks, executing, sourceDisposed, lockedVars, observed>>

(* The source runs a callback: it cancels the scope that registered it.    *)
Notify(t) ==
  /\ At(t, "notify")
  /\ \E s \in callbacks[Me(t)] :
       /\ callbacks' = [callbacks EXCEPT ![Me(t)] = @ \ {s}]
       /\ executing' = [executing EXCEPT ![Me(t)] = s]
       /\ Enter(t, Head(stack[t]), Frame("cancel", s))
  /\ UNCHANGED <<source, sourceDisposed, lockedVars, observed>>

NotifyEnd(t) ==
  /\ At(t, "notify")
  /\ callbacks[Me(t)] = {}
  /\ source' = [source EXCEPT ![Me(t)] = "canceled"]
  /\ executing' = [executing EXCEPT ![Me(t)] = NoCallback]
  /\ IF Me(t) \in Foreign THEN Return(t) ELSE Continue(t, "finish")
  /\ UNCHANGED <<callbacks, sourceDisposed, lockedVars, observed>>

(* TakeResourcesUnderLock and TakeRegistrationsUnderLock.                  *)
TakeRegistrations(s) ==
  /\ registrations' = [registrations EXCEPT ![s] = {}]
  /\ mergedTokens' = [mergedTokens EXCEPT ![s] = {}]

FinishCancellation(t) ==
  /\ At(t, "finish")
  /\ LET s == Me(t)
         f == [Head(stack[t]) EXCEPT !.held = registrations[s]]
     IN
     /\ isCancellationInProgress' = [isCancellationInProgress EXCEPT ![s] = FALSE]
     /\ disposeAfterCancellation' = [disposeAfterCancellation EXCEPT ![s] = FALSE]
     /\ TakeRegistrations(s)
     /\ IF disposeAfterCancellation[s]
        THEN /\ Become(t, [f EXCEPT !.step = "before", !.children = beforeScopeResources[s]])
             /\ beforeScopeResources' = [beforeScopeResources EXCEPT ![s] = {}]
        ELSE /\ Become(t, [f EXCEPT !.step = "unregister"])
             /\ UNCHANGED beforeScopeResources
  /\ UNCHANGED <<sourceVars, isDisposed, observed>>

(* Unregister removes a callback and does not wait for one that runs.      *)
Unregister(t) ==
  /\ At(t, "unregister")
  /\ \E k \in Held(t) :
       /\ callbacks' = [callbacks EXCEPT ![k] = @ \ {Me(t)}]
       /\ Become(t, [Head(stack[t]) EXCEPT !.held = @ \ {k}])
  /\ UNCHANGED <<source, executing, sourceDisposed, lockedVars, observed>>

CancelEnd(t) ==
  /\ At(t, "unregister")
  /\ Held(t) = {}
  /\ Return(t)
  /\ UNCHANGED <<sourceVars, lockedVars, observed>>

-----------------------------------------------------------------------------
(* Merge: the token to merge is the one member of Held.                    *)

CanMerge(s, k) == CanAcceptCancellation(s) /\ k # s /\ k \notin mergedTokens[s]

(* Mutant: takes a token that is already cancelled for nothing to observe.  *)
MergeLiveOnly(t) ==
  /\ At(t, "merge")
  /\ \E k \in Held(t) :
       IF CanMerge(Me(t), k) /\ ~IsCancellationRequested(k)
       THEN /\ mergedTokens' = [mergedTokens EXCEPT ![Me(t)] = @ \cup {k}]
            /\ observed' = [observed EXCEPT ![Me(t)] = @ \cup {k}]
            /\ Continue(t, "register")
       ELSE Return(t) /\ UNCHANGED <<mergedTokens, observed>>
  /\ UNCHANGED <<sourceVars, registrations, beforeScopeResources,
                 isCancellationInProgress, disposeAfterCancellation, isDisposed>>

MergeBegin(t) ==
  /\ At(t, "merge")
  /\ \E k \in Held(t) :
       IF CanMerge(Me(t), k)
       THEN /\ mergedTokens' = [mergedTokens EXCEPT ![Me(t)] = @ \cup {k}]
            /\ observed' = [observed EXCEPT ![Me(t)] = @ \cup {k}]
            /\ Continue(t, "register")
       ELSE Return(t) /\ UNCHANGED <<mergedTokens, observed>>
  /\ UNCHANGED <<sourceVars, registrations, beforeScopeResources,
                 isCancellationInProgress, disposeAfterCancellation, isDisposed>>

(* Mutant: swaps who observes whom.                                        *)
RegisterSwapped(t) ==
  /\ At(t, "register")
  /\ \E k \in Held(t) : callbacks' = [callbacks EXCEPT ![Me(t)] = @ \cup ({k} \cap Scopes)]
  /\ Continue(t, "accept")
  /\ UNCHANGED <<source, executing, sourceDisposed, lockedVars, observed>>

(* UnsafeRegister: on a cancelled source the callback runs at once, on a    *)
(* disposed one it is forgotten, and neither leaves a registration.        *)
Register(t) ==
  /\ At(t, "register")
  /\ LET s == Me(t)
         f == Head(stack[t])
     IN
     \E k \in Held(t) :
       \/ /\ IsCancellationRequested(k)
          /\ Enter(t, [f EXCEPT !.step = "accept", !.held = {}], Frame("cancel", s))
          /\ UNCHANGED callbacks
       \/ /\ ~IsCancellationRequested(k)
          /\ k \in Scopes /\ sourceDisposed[k]
          /\ Become(t, [f EXCEPT !.step = "accept", !.held = {}])
          /\ UNCHANGED callbacks
       \/ /\ ~IsCancellationRequested(k)
          /\ ~(k \in Scopes /\ sourceDisposed[k])
          /\ callbacks' = [callbacks EXCEPT ![k] = @ \cup {s}]
          /\ Continue(t, "accept")
  /\ UNCHANGED <<source, executing, sourceDisposed, lockedVars, observed>>

(* Mutant: keeps the registration without looking again.                   *)
AcceptAlways(t) ==
  /\ At(t, "accept")
  /\ registrations' = [registrations EXCEPT ![Me(t)] = @ \cup Held(t)]
  /\ Return(t)
  /\ UNCHANGED <<sourceVars, mergedTokens, beforeScopeResources,
                 isCancellationInProgress, disposeAfterCancellation, isDisposed, observed>>

(* A scope that was cancelled or disposed meanwhile drops the registration. *)
(* Its merged tokens were, or will be, cleared by whoever got there first.  *)
Accept(t) ==
  /\ At(t, "accept")
  /\ LET s == Me(t) IN
     IF CanAcceptCancellation(s)
     THEN /\ registrations' = [registrations EXCEPT ![s] = @ \cup Held(t)]
          /\ Return(t)
          /\ UNCHANGED mergedTokens
     ELSE /\ mergedTokens' = [mergedTokens EXCEPT ![s] = @ \ Held(t)]
          /\ Continue(t, "drop")
          /\ UNCHANGED registrations
  /\ UNCHANGED <<sourceVars, beforeScopeResources, isCancellationInProgress,
                 disposeAfterCancellation, isDisposed, observed>>

(* Disposing a registration waits for its callback while another thread     *)
(* runs it.                                                                *)
Notifies(t, k) ==
  \E i \in 1..Len(stack[t]) : stack[t][i].step = "notify" /\ stack[t][i].of = k

CallbackDone(t, k, s) == executing[k] = s => Notifies(t, k) \/ s \in callbacks[k]

DisposeRegistration(t) ==
  /\ At(t, "drop") \/ At(t, "registrations")
  /\ \E k \in Held(t) :
       /\ CallbackDone(t, k, Me(t))
       /\ callbacks' = [callbacks EXCEPT ![k] = @ \ {Me(t)}]
       /\ Become(t, [Head(stack[t]) EXCEPT !.held = @ \ {k}])
  /\ UNCHANGED <<source, executing, sourceDisposed, lockedVars, observed>>

DropEnd(t) ==
  /\ At(t, "drop")
  /\ Held(t) = {}
  /\ Return(t)
  /\ UNCHANGED <<sourceVars, lockedVars, observed>>

-----------------------------------------------------------------------------
(* ReleaseResources(beforeScopeResources): the children to release first    *)
(* are those of the frame.                                                 *)

(* Mutant: does not leave the source to a cancellation under way.          *)
ReleaseAtOnce(t) ==
  /\ At(t, "release")
  /\ LET s == Me(t) IN
     IF isDisposed[s]
     THEN Return(t) /\ UNCHANGED lockedVars
     ELSE /\ isDisposed' = [isDisposed EXCEPT ![s] = TRUE]
          /\ TakeRegistrations(s)
          /\ Become(t, [Head(stack[t]) EXCEPT !.step = "before", !.held = registrations[s]])
          /\ UNCHANGED <<isCancellationInProgress, disposeAfterCancellation,
                         beforeScopeResources>>
  /\ UNCHANGED <<sourceVars, observed>>

ReleaseResources(t) ==
  /\ At(t, "release")
  /\ LET s == Me(t)
         f == Head(stack[t])
     IN
     \/ /\ isDisposed[s]
        /\ Return(t)
        /\ UNCHANGED lockedVars
     \/ /\ ~isDisposed[s]
        /\ isCancellationInProgress[s]
        /\ isDisposed' = [isDisposed EXCEPT ![s] = TRUE]
        /\ disposeAfterCancellation' = [disposeAfterCancellation EXCEPT ![s] = TRUE]
        /\ beforeScopeResources' = [beforeScopeResources EXCEPT ![s] = Children(t)]
        /\ Return(t)
        /\ UNCHANGED <<mergedTokens, registrations, isCancellationInProgress>>
     \/ /\ ~isDisposed[s]
        /\ ~isCancellationInProgress[s]
        /\ isDisposed' = [isDisposed EXCEPT ![s] = TRUE]
        /\ TakeRegistrations(s)
        /\ Become(t, [f EXCEPT !.step = "before", !.held = registrations[s]])
        /\ UNCHANGED <<isCancellationInProgress, disposeAfterCancellation,
                       beforeScopeResources>>
  /\ UNCHANGED <<sourceVars, observed>>

(* DisposeResources: the children, then the registrations, then the source. *)
ReleaseChild(t) ==
  /\ At(t, "before")
  /\ \E c \in Children(t) :
       Enter(t, [Head(stack[t]) EXCEPT !.children = @ \ {c}], Frame("release", c))
  /\ UNCHANGED <<sourceVars, lockedVars, observed>>

ChildrenReleased(t) ==
  /\ At(t, "before")
  /\ Children(t) = {}
  /\ Continue(t, "registrations")
  /\ UNCHANGED <<sourceVars, lockedVars, observed>>

DisposeSource(t) ==
  /\ At(t, "registrations")
  /\ Held(t) = {}
  /\ sourceDisposed' = [sourceDisposed EXCEPT ![Me(t)] = TRUE]
  /\ callbacks' = [callbacks EXCEPT ![Me(t)] = {}]
  /\ Return(t)
  /\ UNCHANGED <<source, executing, lockedVars, observed>>

-----------------------------------------------------------------------------
ScopeStep(t) ==
  \/ TryBeginCancellation(t) \/ Signal(t) \/ Notify(t) \/ NotifyEnd(t)
  \/ FinishCancellation(t) \/ Unregister(t) \/ CancelEnd(t)
  \/ MergeBegin(t) \/ Register(t) \/ Accept(t) \/ DropEnd(t)
  \/ DisposeRegistration(t)
  \/ ReleaseResources(t) \/ ReleaseChild(t) \/ ChildrenReleased(t)
  \/ DisposeSource(t)

-----------------------------------------------------------------------------
Frames ==
  [ step : {"cancel", "signal", "notify", "finish", "unregister", "merge", "register",
            "accept", "drop", "release", "before", "registrations", "get", "add",
            "dispose"},
    of : Tokens, held : SUBSET Tokens, children : SUBSET Scopes ]

(* Types of the variables.                                                 *)
ScopeTypeOK ==
  /\ source \in [Tokens -> {"live", "notifying", "canceled"}]
  /\ callbacks \in [Tokens -> SUBSET Scopes]
  /\ executing \in [Tokens -> Scopes \cup {NoCallback, UserCode}]
  /\ sourceDisposed \in [Scopes -> BOOLEAN]
  /\ mergedTokens \in [Scopes -> SUBSET Tokens]
  /\ registrations \in [Scopes -> SUBSET Tokens]
  /\ beforeScopeResources \in [Scopes -> SUBSET Scopes]
  /\ isCancellationInProgress \in [Scopes -> BOOLEAN]
  /\ disposeAfterCancellation \in [Scopes -> BOOLEAN]
  /\ isDisposed \in [Scopes -> BOOLEAN]
  /\ stack \in [Threads -> Seq(Frames)]
  /\ observed \in [Scopes -> SUBSET Tokens]

(* A source is disposed at most once, never while it notifies, and is not   *)
(* cancelled once it is gone: a disposal that finds a cancellation under    *)
(* way leaves the source to it.                                            *)
SourceUsedSafely ==
  \A s \in Scopes :
    sourceDisposed[s] =>
      /\ source[s] # "notifying"
      /\ \A t \in Threads :
           ~(stack[t] # <<>> /\ Me(t) = s
               /\ Head(stack[t]).step \in {"signal", "finish", "before", "registrations"})

=============================================================================
