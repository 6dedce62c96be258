---------------------- MODULE CancellationUtils_proofs ----------------------
(***************************************************************************)
(* Proofs about the cancellation scopes, for any number of threads, scopes *)
(* and foreign tokens and any nesting of calls: sources are used safely,   *)
(* the root reaches its children, which live until it has run its          *)
(* callbacks, a cancellation has a cause, and nothing leaks.               *)
(***************************************************************************)
EXTENDS CancellationUtils, TLAPS

-----------------------------------------------------------------------------
(* The frames of all stacks; those of a thread by their height, with the   *)
(* outermost at height 1.                                                  *)

Running == UNION {{stack[t][i] : i \in 1..Len(stack[t])} : t \in Threads}

Heights(t) == 1..Len(stack[t])
FrameAt(t, d) == stack[t][Len(stack[t]) + 1 - d]

Matches(f, S, steps) == f.of \in S /\ f.step \in steps

Some(s, steps) == \E f \in Running : Matches(f, {s}, steps)

Single(S, steps) ==
  \A t, u \in Threads : \A d \in Heights(t), e \in Heights(u) :
    Matches(FrameAt(t, d), S, steps) /\ Matches(FrameAt(u, e), S, steps)
      => t = u /\ d = e

(* What the frames of every step are like.                                 *)
FrameFits(f) ==
  /\ f.of \in Foreign => f.step \in {"signal", "notify"}
  /\ f.step \in {"get", "add"} => f.of \in Keys
  /\ f.step \in {"merge", "register"} => \E k \in Tokens : f.held = {k}
  /\ f.children # {} => f.of = Root /\ f.step \in {"release", "before"}

FramesFit ==
  /\ \A f \in Running : FrameFits(f)
  /\ \A s \in Scopes : beforeScopeResources[s] # {} => s = Root

-----------------------------------------------------------------------------
(* The inductive invariant.                                                *)

Cancelling == {"signal", "notify", "finish"}
Disposing == {"before", "registrations"}

(* A scope that is being cancelled has one frame that does it, and the     *)
(* source is as far as that frame.                                         *)
CancelAt(s) ==
  /\ isCancellationInProgress[s] <=> Some(s, Cancelling)
  /\ Single({s}, Cancelling)
  /\ Some(s, {"signal"}) => source[s] = "live"
  /\ Some(s, {"finish"}) => source[s] = "canceled"
  /\ source[s] = "notifying" <=> Some(s, {"notify"})

CancelInv == \A s \in Scopes : CancelAt(s)

(* Of a disposed scope, the source is disposed, or one frame will do it,   *)
(* or the cancellation under way will.                                     *)
DisposeAt(s) ==
  /\ Some(s, Disposing) => /\ isDisposed[s] /\ ~isCancellationInProgress[s]
                           /\ ~sourceDisposed[s]
  /\ Single({s}, Disposing)
  /\ disposeAfterCancellation[s] => isDisposed[s] /\ isCancellationInProgress[s]
  /\ sourceDisposed[s] => isDisposed[s] /\ ~isCancellationInProgress[s]
  /\ isDisposed[s] =>
       sourceDisposed[s] \/ disposeAfterCancellation[s] \/ Some(s, Disposing)

DisposeInv == \A s \in Scopes : DisposeAt(s)

(* The root will not be cancelled any more.                                *)
RootGone == isDisposed[Root] /\ ~isCancellationInProgress[Root]

(* Children are disposed when the root is gone, and only those that users  *)
(* know.                                                                   *)
ChildInv ==
  \A c \in Keys : isDisposed[c] \/ Some(c, {"release"}) => RootGone /\ c \in known

(* The lock and the scopes by their keys.                                  *)
LockInv ==
  /\ \A c \in Keys :
       Some(c, {"add"}) => lock # NoThread /\ c \notin known /\ ~utilsDisposed
  /\ Single(Keys, {"add"})
  /\ Root \in known
  /\ utilsDisposed \/ known = keyedScopes \cup {Root}

(* The children that frames have to release, and that scopes leave to a     *)
(* cancellation.                                                           *)
Postponed ==
  \A s \in Scopes : /\ beforeScopeResources[s] \subseteq known \ {Root}
                    /\ beforeScopeResources[s] # {} => disposeAfterCancellation[s]

ChildrenInv ==
  /\ \A f \in Running : f.children \subseteq known \ {Root}
  /\ Postponed

(* The one disposal of the root.                                           *)
RootInv ==
  /\ Some(Root, {"release"}) => utilsDisposed /\ ~isDisposed[Root]
  /\ Single({Root}, {"release"})
  /\ isDisposed[Root] => utilsDisposed

(* Whom the disposal of the root has still to release.                     *)
Awaits(f, c) == c \in f.children \/ Matches(f, {c}, {"release"})

Awaited(c) == c \in beforeScopeResources[Root] \/ \E f \in Running : Awaits(f, c)

LeftInv ==
  utilsDisposed =>
    /\ isDisposed[Root] \/ Some(Root, {"release"})
    /\ \A c \in known \ {Root} : isDisposed[c] \/ Awaited(c)

(* A frame of s has still to see to its registration with k.               *)
SeesTo(f, s, k) ==
  /\ Matches(f, {s}, {"accept", "drop", "unregister", "before", "registrations"})
  /\ k \in f.held

Seen(s, k) == k \in registrations[s] \/ \E f \in Running : SeesTo(f, s, k)

RegisteredInv ==
  /\ \A k \in Tokens : \A s \in callbacks[k] : Seen(s, k)
  /\ \A s \in Scopes :
       IsCancellationRequested(s) \/ isDisposed[s] =>
         isCancellationInProgress[s] \/ registrations[s] = {}

(* The frames that cancel, and the registrations that will.                *)
CauseFits(f) ==
  /\ f.step \in {"cancel"} \cup Cancelling => HasCause(f.of)
  /\ f.step = "register" => f.held \subseteq observed[f.of]

CauseInv ==
  /\ \A k \in Tokens : IsCancellationRequested(k) => HasCause(k)
  /\ \A f \in Running : CauseFits(f)
  /\ \A k \in Tokens : \A s \in callbacks[k] : k \in observed[s]

(* A frame of s somewhere under one of c, in one stack.                    *)
Below(s, J, c, K) ==
  \E t \in Threads : \E d, e \in Heights(t) :
    /\ d < e
    /\ Matches(FrameAt(t, d), {s}, J)
    /\ Matches(FrameAt(t, e), {c}, K)

Linking == {"merge", "register", "accept", "drop"}

(* A scope that users do not know yet, and that has not merged the root's   *)
(* token, is as it was made.                                               *)
Untouched(c) ==
  /\ CanAcceptCancellation(c) /\ mergedTokens[c] = {}
  /\ \A k \in Tokens : c \notin callbacks[k]
  /\ \A f \in Running : f.of = c => f.step \in {"get", "add", "merge"}

(* Only the call that makes such a scope merges something into it, and      *)
(* only the root's token.                                                  *)
MakeInv ==
  /\ \A c \in Keys \ known : Single({c}, Linking) /\ (Some(c, Linking) => Some(c, {"add"}))
  /\ \A f \in Running : f.of \notin known /\ f.step \in {"merge", "register"} => f.held = {Root}
  /\ \A c \in Keys \ known : (Some(c, {"add"}) => Some(c, {"merge"})) => Untouched(c)

Reached(c) == IsCancellationRequested(c) \/ isCancellationInProgress[c]

(* Cancelled, or never to be, or known to the root's source, which has not  *)
(* told everyone, or about to be cancelled by it.                          *)
WillBeReached(c) ==
  \/ Reached(c)
  \/ RootGone /\ source[Root] = "live"
  \/ /\ source[Root] # "canceled"
     /\ c \in callbacks[Root] \/ Below(Root, {"notify"}, c, {"cancel"})

(* The call that makes c has still to link it to the root, or is about to  *)
(* cancel it because the root is cancelled.                                *)
Joining(c) == Below(c, {"add"}, c, {"merge", "register"}) \/ Below(c, {"add"}, c, {"cancel"})

Withdrawn(f) ==
  /\ f.step = "drop" => ~CanAcceptCancellation(f.of)
  /\ f.step = "unregister" => source[f.of] = "canceled"

ReachInv ==
  /\ \A c \in known \ {Root} : WillBeReached(c)
  /\ \A c \in Keys : Some(c, {"add"}) => WillBeReached(c) \/ Joining(c)
  /\ \A f \in Running : Withdrawn(f)


-----------------------------------------------------------------------------
(* Stacks.                                                                 *)

StackType == stack \in [Threads -> Seq(Frames)]

(* Of t's stack the h outermost frames stay; a frame above them, if there  *)
(* is one, gives way to the n first of f, g.                               *)
Moves(t, h, n, f, g) ==
  /\ h \in Nat
  /\ Len(stack[t]) \in {h, h + 1}
  /\ Len(stack'[t]) = h + n
  /\ \A d \in 1..h : FrameAt(t, d)' = FrameAt(t, d)
  /\ n \in {1, 2} => FrameAt(t, h + 1)' = f
  /\ n = 2 => FrameAt(t, h + 2)' = g
  /\ \A u \in Threads \ {t} : stack'[u] = stack[u]

NewFrames(n, f, g) == {x \in {f, g} : n = 2 \/ (n = 1 /\ x = f)}

LEMMA RunningAt ==
  ASSUME StackType
  PROVE  \A x : x \in Running <=> \E u \in Threads : \E d \in Heights(u) : x = FrameAt(u, d)
<1> SUFFICES ASSUME NEW x PROVE x \in Running <=> \E u \in Threads : \E d \in Heights(u) : x = FrameAt(u, d)
  OBVIOUS
<1>1. ASSUME NEW u \in Threads, NEW d \in Heights(u)
      PROVE  /\ Len(stack[u]) + 1 - d \in 1..Len(stack[u])
             /\ Len(stack[u]) + 1 - (Len(stack[u]) + 1 - d) = d
  BY DEF StackType, Heights
<1>2. ASSUME x \in Running
      PROVE  \E u \in Threads : \E d \in Heights(u) : x = FrameAt(u, d)
  <2>1. PICK u \in Threads : x \in {stack[u][i] : i \in 1..Len(stack[u])}
    BY <1>2 DEF Running
  <2>2. PICK i \in 1..Len(stack[u]) : x = stack[u][i]
    BY <2>1
  <2>3. /\ Len(stack[u]) + 1 - i \in Heights(u)
        /\ Len(stack[u]) + 1 - (Len(stack[u]) + 1 - i) = i
    BY <1>1 DEF Heights
  <2>4. x = FrameAt(u, Len(stack[u]) + 1 - i)
    BY <2>2, <2>3 DEF FrameAt
  <2> QED BY <2>3, <2>4
<1>3. ASSUME NEW u \in Threads, NEW d \in Heights(u), x = FrameAt(u, d)
      PROVE  x \in Running
  BY <1>1, <1>3 DEF Running, FrameAt
<1> QED BY <1>2, <1>3

LEMMA TopFrame ==
  ASSUME StackType, NEW t \in Threads, stack[t] # <<>>
  PROVE  /\ Len(stack[t]) \in Nat \ {0}
         /\ Len(stack[t]) \in Heights(t)
         /\ Head(stack[t]) = FrameAt(t, Len(stack[t]))
         /\ Head(stack[t]) \in Frames
         /\ Head(stack[t]) \in Running
<1>1. /\ Len(stack[t]) \in Nat \ {0} /\ Head(stack[t]) = stack[t][1]
      /\ Head(stack[t]) \in Frames /\ 1 \in 1..Len(stack[t])
  BY DEF StackType
<1>2. Head(stack[t]) \in Running
  BY <1>1 DEF Running
<1> QED BY <1>1, <1>2 DEF Heights, FrameAt

LEMMA Moving ==
  ASSUME StackType, NEW t \in Threads, NEW h, h = Len(stack[t])
  PROVE  /\ h \in Nat
         /\ stack[t] # <<>> /\ Return(t) => StackType' /\ \A f, g : Moves(t, h - 1, 0, f, g)
         /\ \A f \in Frames : stack[t] # <<>> /\ Become(t, f) =>
              StackType' /\ \A g : Moves(t, h - 1, 1, f, g)
         /\ \A f, g \in Frames : stack[t] # <<>> /\ Enter(t, f, g) =>
              StackType' /\ Moves(t, h - 1, 2, f, g)
         /\ \A f \in Frames : stack' = [stack EXCEPT ![t] = <<f>> \o @] =>
              StackType' /\ \A g : Moves(t, h, 1, f, g)
<1>1. stack \in [Threads -> Seq(Frames)] /\ stack[t] \in Seq(Frames) /\ h \in Nat
  BY DEF StackType
<1>2. ASSUME NEW s \in Seq(Frames), stack' = [stack EXCEPT ![t] = s]
      PROVE  /\ StackType' /\ stack'[t] = s
             /\ \A u \in Threads \ {t} : stack'[u] = stack[u]
             /\ \A d : FrameAt(t, d)' = s[Len(s) + 1 - d]
  BY <1>1, <1>2 DEF StackType, FrameAt
<1> DEFINE Ends(k, n, f, g) ==
             /\ k \in Nat /\ Len(stack[t]) \in {k, k + 1} /\ Len(stack'[t]) = k + n
             /\ n \in {1, 2} => FrameAt(t, k + 1)' = f
             /\ n = 2 => FrameAt(t, k + 2)' = g
<1>3. ASSUME stack[t] # <<>>, Return(t)
      PROVE  StackType' /\ \A f, g : Moves(t, h - 1, 0, f, g)
  <2>1. PICK s : s = Tail(stack[t])
    OBVIOUS
  <2>2. s \in Seq(Frames) /\ Len(s) = h - 1 /\ h - 1 \in Nat
        /\ \A d \in 1..(h - 1) : s[Len(s) + 1 - d] = FrameAt(t, d)
    BY <1>1, <1>3, <2>1 DEF FrameAt
  <2>3. stack' = [stack EXCEPT ![t] = s]
    BY <1>3, <2>1 DEF Return
  <2>4. StackType' /\ stack'[t] = s
        /\ (\A u \in Threads \ {t} : stack'[u] = stack[u])
        /\ \A d : FrameAt(t, d)' = s[Len(s) + 1 - d]
    BY <1>2, <2>2, <2>3
  <2>5. \A f, g : Ends(h - 1, 0, f, g)
    BY <1>1, <2>2, <2>4
  <2>6. \A d \in 1..(h - 1) : FrameAt(t, d)' = FrameAt(t, d)
    BY <2>2, <2>4
  <2> QED BY <2>4, <2>5, <2>6 DEF Moves
<1>4. ASSUME NEW f \in Frames, stack[t] # <<>>, Become(t, f)
      PROVE  StackType' /\ \A g : Moves(t, h - 1, 1, f, g)
  <2>1. PICK s : s = <<f>> \o Tail(stack[t])
    OBVIOUS
  <2>2. s \in Seq(Frames) /\ Len(s) = h /\ h - 1 \in Nat
        /\ s[Len(s) + 1 - (h - 1 + 1)] = f
        /\ \A d \in 1..(h - 1) : s[Len(s) + 1 - d] = FrameAt(t, d)
    BY <1>1, <1>4, <2>1 DEF FrameAt
  <2>3. stack' = [stack EXCEPT ![t] = s]
    BY <1>4, <2>1 DEF Become
  <2>4. StackType' /\ stack'[t] = s
        /\ (\A u \in Threads \ {t} : stack'[u] = stack[u])
        /\ \A d : FrameAt(t, d)' = s[Len(s) + 1 - d]
    BY <1>2, <2>2, <2>3
  <2>7. h - 1 \in Nat /\ Len(stack[t]) \in {h - 1, h - 1 + 1} /\ Len(stack'[t]) = h - 1 + 1
    BY <1>1, <2>2, <2>4
  <2>8. FrameAt(t, h - 1 + 1)' = f
    BY <2>2, <2>4
  <2>5. \A g : Ends(h - 1, 1, f, g)
    BY <2>7, <2>8
  <2>6. \A d \in 1..(h - 1) : FrameAt(t, d)' = FrameAt(t, d)
    BY <2>2, <2>4
  <2> QED BY <2>4, <2>5, <2>6 DEF Moves
<1>5. ASSUME NEW f \in Frames, NEW g \in Frames, stack[t] # <<>>, Enter(t, f, g)
      PROVE  StackType' /\ Moves(t, h - 1, 2, f, g)
  <2>1. PICK s : s = <<g, f>> \o Tail(stack[t])
    OBVIOUS
  <2>2. s \in Seq(Frames) /\ Len(s) = h + 1 /\ h - 1 \in Nat
        /\ s[Len(s) + 1 - (h - 1 + 1)] = f /\ s[Len(s) + 1 - (h - 1 + 2)] = g
        /\ \A d \in 1..(h - 1) : s[Len(s) + 1 - d] = FrameAt(t, d)
    BY <1>1, <1>5, <2>1 DEF FrameAt
  <2>3. stack' = [stack EXCEPT ![t] = s]
    BY <1>5, <2>1 DEF Enter
  <2>4. StackType' /\ stack'[t] = s
        /\ (\A u \in Threads \ {t} : stack'[u] = stack[u])
        /\ \A d : FrameAt(t, d)' = s[Len(s) + 1 - d]
    BY <1>2, <2>2, <2>3
  <2>7. h - 1 \in Nat /\ Len(stack[t]) = h - 1 + 1 /\ Len(stack'[t]) = h - 1 + 2
    BY <1>1, <2>2, <2>4
  <2>8. FrameAt(t, h - 1 + 1)' = f
    BY <2>2, <2>4
  <2>9. FrameAt(t, h - 1 + 2)' = g
    BY <2>2, <2>4
  <2>5. Ends(h - 1, 2, f, g)
    BY <2>7, <2>8, <2>9
  <2>6. \A d \in 1..(h - 1) : FrameAt(t, d)' = FrameAt(t, d)
    BY <2>2, <2>4
  <2> QED BY <2>4, <2>5, <2>6 DEF Moves
<1>6. ASSUME NEW f \in Frames, stack' = [stack EXCEPT ![t] = <<f>> \o @]
      PROVE  StackType' /\ \A g : Moves(t, h, 1, f, g)
  <2>1. PICK s : s = <<f>> \o stack[t]
    OBVIOUS
  <2>2. s \in Seq(Frames) /\ Len(s) = h + 1 /\ s[Len(s) + 1 - (h + 1)] = f
        /\ \A d \in 1..h : s[Len(s) + 1 - d] = FrameAt(t, d)
    BY <1>1, <2>1 DEF FrameAt
  <2>3. stack' = [stack EXCEPT ![t] = s]
    BY <1>6, <2>1
  <2>4. StackType' /\ stack'[t] = s
        /\ (\A u \in Threads \ {t} : stack'[u] = stack[u])
        /\ \A d : FrameAt(t, d)' = s[Len(s) + 1 - d]
    BY <1>2, <2>2, <2>3
  <2>7. h \in Nat /\ Len(stack[t]) \in {h, h + 1} /\ Len(stack'[t]) = h + 1
    BY <1>1, <2>2, <2>4
  <2>8. FrameAt(t, h + 1)' = f
    BY <2>2, <2>4
  <2>5. \A g : Ends(h, 1, f, g)
    BY <2>7, <2>8
  <2>6. \A d \in 1..(h) : FrameAt(t, d)' = FrameAt(t, d)
    BY <2>2, <2>4
  <2> QED BY <2>4, <2>5, <2>6 DEF Moves
<1> QED BY <1>1, <1>3, <1>4, <1>5, <1>6

(* A frame of a step's new stacks is an old one or a new one, and an old    *)
(* one stays where it is unless it was on top of t's stack.                *)
Placed(t, h, n, f, g) ==
  /\ \A u \in Threads : \A d \in Heights(u)' :
       \/ d \in Heights(u) /\ ~(u = t /\ d >= h + 1) /\ FrameAt(u, d)' = FrameAt(u, d)
       \/ u = t /\ d = h + 1 /\ n \in {1, 2} /\ FrameAt(u, d)' = f
       \/ u = t /\ d = h + 2 /\ n = 2 /\ FrameAt(u, d)' = g
  /\ \A u \in Threads : \A d \in Heights(u) :
       \/ d \in Heights(u)' /\ FrameAt(u, d)' = FrameAt(u, d)
       \/ u = t /\ d = h + 1
  /\ h \in Nat
  /\ n \in {1, 2} => h + 1 \in Heights(t)' /\ FrameAt(t, h + 1)' = f
  /\ n = 2 => h + 2 \in Heights(t)' /\ FrameAt(t, h + 2)' = g
  /\ h + 1 \in Heights(t) => stack[t] # <<>> /\ FrameAt(t, h + 1) = Head(stack[t])

LEMMA MovedFrames ==
  ASSUME StackType, StackType', NEW t \in Threads, NEW h, NEW n \in {0, 1, 2}, NEW f, NEW g,
         Moves(t, h, n, f, g)
  PROVE  Placed(t, h, n, f, g)
<1>1. h \in Nat /\ Len(stack[t]) \in {h, h + 1} /\ Len(stack'[t]) = h + n
  BY DEF Moves
<1>2. ASSUME NEW u \in Threads, u # t
      PROVE  Heights(u)' = Heights(u) /\ \A d : FrameAt(u, d)' = FrameAt(u, d)
  BY <1>2 DEF Moves, Heights, FrameAt
<1>3. ASSUME NEW d \in Heights(t)'
      PROVE  \/ d \in Heights(t) /\ d < h + 1 /\ FrameAt(t, d)' = FrameAt(t, d)
             \/ d = h + 1 /\ n \in {1, 2} /\ FrameAt(t, d)' = f
             \/ d = h + 2 /\ n = 2 /\ FrameAt(t, d)' = g
  <2>1. d \in 1..(h + n)
    BY <1>1 DEF Heights
  <2>2. CASE d \in 1..h
    BY <1>1, <2>2 DEF Moves, Heights
  <2>3. CASE d = h + 1 /\ n \in {1, 2}
    BY <2>3 DEF Moves
  <2>4. CASE d = h + 2 /\ n = 2
    BY <2>4 DEF Moves
  <2> QED BY <1>1, <2>1, <2>2, <2>3, <2>4
<1>4. ASSUME NEW d \in Heights(t)
      PROVE  \/ d \in Heights(t)' /\ FrameAt(t, d)' = FrameAt(t, d)
             \/ d = h + 1
  <2>1. d \in 1..h \/ d = h + 1
    BY <1>1 DEF Heights
  <2> QED BY <1>1, <2>1 DEF Heights, Moves
<1>5. h + 1 \in Heights(t) => stack[t] # <<>> /\ FrameAt(t, h + 1) = Head(stack[t])
  <2> SUFFICES ASSUME h + 1 \in Heights(t)
               PROVE  stack[t] # <<>> /\ FrameAt(t, h + 1) = Head(stack[t])
    OBVIOUS
  <2>1. Len(stack[t]) = h + 1 /\ stack[t] # <<>>
    BY <1>1 DEF Heights, StackType
  <2> QED BY <2>1, TopFrame
<1>6. /\ n \in {1, 2} => h + 1 \in Heights(t)' /\ FrameAt(t, h + 1)' = f
      /\ n = 2 => h + 2 \in Heights(t)' /\ FrameAt(t, h + 2)' = g
  BY <1>1 DEF Moves, Heights
<1>7. ASSUME NEW u \in Threads, NEW d \in Heights(u)'
      PROVE  \/ d \in Heights(u) /\ ~(u = t /\ d >= h + 1) /\ FrameAt(u, d)' = FrameAt(u, d)
             \/ u = t /\ d = h + 1 /\ n \in {1, 2} /\ FrameAt(u, d)' = f
             \/ u = t /\ d = h + 2 /\ n = 2 /\ FrameAt(u, d)' = g
  <2>1. CASE u = t
    BY <1>1, <1>3, <2>1 DEF Heights
  <2>2. CASE u # t
    BY <1>2, <2>2
  <2> QED BY <2>1, <2>2
<1>8. ASSUME NEW u \in Threads, NEW d \in Heights(u)
      PROVE  \/ d \in Heights(u)' /\ FrameAt(u, d)' = FrameAt(u, d)
             \/ u = t /\ d = h + 1
  BY <1>2, <1>4
<1> QED BY <1>1, <1>5, <1>6, <1>7, <1>8 DEF Placed

LEMMA MovedRunning ==
  ASSUME StackType, StackType', NEW t \in Threads, NEW h, NEW n \in {0, 1, 2}, NEW f, NEW g,
         Moves(t, h, n, f, g)
  PROVE  /\ \A x \in Running' : x \in Running \/ x \in NewFrames(n, f, g)
         /\ \A x \in NewFrames(n, f, g) : x \in Running'
         /\ \A x \in Running :
              x \in Running' \/ (h + 1 \in Heights(t) /\ x = Head(stack[t]))
<1>0. Placed(t, h, n, f, g)
  BY MovedFrames
<1>1. /\ \A x : x \in Running <=> \E u \in Threads : \E d \in Heights(u) : x = FrameAt(u, d)
      /\ \A x : x \in Running' <=> \E u \in Threads : \E d \in Heights(u)' : x = FrameAt(u, d)'
  <2>1. \A x : x \in Running <=> \E u \in Threads : \E d \in Heights(u) : x = FrameAt(u, d)
    BY RunningAt
  <2>2. (\A x : x \in Running <=> \E u \in Threads : \E d \in Heights(u) : x = FrameAt(u, d))'
    BY RunningAt, PTL
  <2> QED BY <2>1, <2>2
<1>2. ASSUME NEW x \in Running' PROVE x \in Running \/ x \in NewFrames(n, f, g)
  <2>1. PICK u \in Threads : \E d \in Heights(u)' : x = FrameAt(u, d)'
    BY <1>1
  <2>2. PICK d \in Heights(u)' : x = FrameAt(u, d)'
    BY <2>1
  <2> QED BY <1>0, <1>1, <2>2 DEF NewFrames, Placed
<1>3. ASSUME NEW x \in NewFrames(n, f, g) PROVE x \in Running'
  BY <1>0, <1>1 DEF NewFrames, Placed
<1>4. ASSUME NEW x \in Running
      PROVE  x \in Running' \/ (h + 1 \in Heights(t) /\ x = Head(stack[t]))
  <2>1. PICK u \in Threads : \E d \in Heights(u) : x = FrameAt(u, d)
    BY <1>1
  <2>2. PICK d \in Heights(u) : x = FrameAt(u, d)
    BY <2>1
  <2> QED BY <1>0, <1>1, <2>2 DEF Placed
<1> QED BY <1>2, <1>3, <1>4

(* How the frames that match change, when at most one may match.           *)
LEMMA MovedSingle ==
  ASSUME StackType, StackType', NEW t \in Threads, NEW h, NEW n \in {0, 1, 2}, NEW f, NEW g,
         Moves(t, h, n, f, g), NEW S, NEW steps,
         ~(n = 2 /\ Matches(f, S, steps) /\ Matches(g, S, steps))
  PROVE  /\ Single(S, steps) /\ (\A x \in NewFrames(n, f, g) : ~Matches(x, S, steps))
              => Single(S, steps)'
         /\ (\A x \in Running : ~Matches(x, S, steps)) => Single(S, steps)'
         /\ Single(S, steps) /\ h + 1 \in Heights(t) /\ Matches(Head(stack[t]), S, steps) =>
              /\ Single(S, steps)'
              /\ \A x \in Running' : Matches(x, S, steps) => x \in NewFrames(n, f, g)
<1> DEFINE Hit(x) == Matches(x, S, steps)
<1>R. (\A x : x \in Running <=> \E u \in Threads : \E d \in Heights(u) : x = FrameAt(u, d))'
  BY RunningAt, PTL
<1>0. Placed(t, h, n, f, g)
  BY MovedFrames
<1>1. ASSUME NEW u \in Threads, NEW v \in Threads, NEW d \in Heights(u)', NEW e \in Heights(v)',
             Matches(FrameAt(u, d), S, steps)', Matches(FrameAt(v, e), S, steps)',
             \/ Single(S, steps) /\ (\A x \in NewFrames(n, f, g) : ~Hit(x))
             \/ \A x \in Running : ~Hit(x)
             \/ Single(S, steps) /\ h + 1 \in Heights(t) /\ Hit(Head(stack[t]))
      PROVE  u = v /\ d = e
  <2>1. Hit(FrameAt(u, d)') /\ Hit(FrameAt(v, e)')
    BY <1>1 DEF Matches
  <2>2. /\ \/ d \in Heights(u) /\ ~(u = t /\ d >= h + 1) /\ FrameAt(u, d)' = FrameAt(u, d)
           \/ u = t /\ d = h + 1 /\ n \in {1, 2} /\ FrameAt(u, d)' = f
           \/ u = t /\ d = h + 2 /\ n = 2 /\ FrameAt(u, d)' = g
        /\ \/ e \in Heights(v) /\ ~(v = t /\ e >= h + 1) /\ FrameAt(v, e)' = FrameAt(v, e)
           \/ v = t /\ e = h + 1 /\ n \in {1, 2} /\ FrameAt(v, e)' = f
           \/ v = t /\ e = h + 2 /\ n = 2 /\ FrameAt(v, e)' = g
    BY <1>0 DEF Placed
  <2>3. h \in Nat
    BY <1>0 DEF Placed
  <2>4. CASE Single(S, steps) /\ (\A x \in NewFrames(n, f, g) : ~Hit(x))
    BY <2>1, <2>2, <2>4 DEF NewFrames, Single
  <2>5. CASE \A x \in Running : ~Hit(x)
    <3>1. \A w \in Threads : \A i \in Heights(w) : FrameAt(w, i) \in Running
      BY RunningAt
    <3> QED BY <2>1, <2>2, <2>5, <3>1
  <2>6. CASE Single(S, steps) /\ h + 1 \in Heights(t) /\ Hit(Head(stack[t]))
    <3>1. Hit(FrameAt(t, h + 1))
      BY <1>0, <2>6 DEF Placed
    <3>2. \A w \in Threads : \A i \in Heights(w) : Hit(FrameAt(w, i)) => w = t /\ i = h + 1
      BY <2>6, <3>1 DEF Single
    <3> QED BY <2>1, <2>2, <2>3, <3>2
  <2> QED BY <1>1, <2>4, <2>5, <2>6
<1>2. ASSUME Single(S, steps), h + 1 \in Heights(t), Hit(Head(stack[t])), NEW x \in Running', Hit(x)
      PROVE  x \in NewFrames(n, f, g)
  <2>1. PICK u \in Threads : \E d \in Heights(u)' : x = FrameAt(u, d)'
    BY <1>R
  <2>2. PICK d \in Heights(u)' : x = FrameAt(u, d)'
    BY <2>1
  <2>3. Hit(FrameAt(t, h + 1)) /\ h \in Nat
    BY <1>0, <1>2 DEF Placed
  <2>4. \A w \in Threads : \A i \in Heights(w) : Hit(FrameAt(w, i)) => w = t /\ i = h + 1
    BY <1>2, <2>3 DEF Single
  <2>5. \/ d \in Heights(u) /\ ~(u = t /\ d >= h + 1) /\ FrameAt(u, d)' = FrameAt(u, d)
        \/ u = t /\ d = h + 1 /\ n \in {1, 2} /\ FrameAt(u, d)' = f
        \/ u = t /\ d = h + 2 /\ n = 2 /\ FrameAt(u, d)' = g
    BY <1>0 DEF Placed
  <2> QED BY <1>2, <2>2, <2>3, <2>4, <2>5 DEF NewFrames
<1>3. \/ Single(S, steps) /\ (\A x \in NewFrames(n, f, g) : ~Hit(x))
      \/ \A x \in Running : ~Hit(x)
      \/ Single(S, steps) /\ h + 1 \in Heights(t) /\ Hit(Head(stack[t]))
      => Single(S, steps)'
  BY <1>1 DEF Single
<1> QED BY <1>2, <1>3

(* What is under a frame stays there; a frame on top of the stack is        *)
(* replaced by frames that have the same ones under them.                  *)
Shifts(old, new) ==
  \A s, J, c, K : Below(s, J, c, K) =>
    \/ Below(s, J, c, K)'
    \/ \E z \in old :
         /\ Matches(z, {c}, K)
         /\ \A L : (\E x \in new : Matches(x, {c}, L)) => Below(s, J, c, L)'

LEMMA MovesShift ==
  ASSUME StackType, StackType', NEW t \in Threads, NEW h, NEW n \in {0, 1, 2}, NEW f, NEW g,
         Moves(t, h, n, f, g), NEW old, NEW new, new = NewFrames(n, f, g),
         old = IF Len(stack[t]) = h THEN {} ELSE {Head(stack[t])}
  PROVE  Shifts(old, new)
<1>1. h \in Nat /\ Len(stack[t]) \in {h, h + 1}
  BY DEF Moves
<1>2. Placed(t, h, n, f, g)
  BY MovedFrames
<1>3. h + 1 \in Heights(t) => old = {FrameAt(t, h + 1)}
  <2>1. h + 1 \in Heights(t) => Len(stack[t]) # h
    BY <1>1 DEF Heights
  <2> QED BY <1>2, <2>1 DEF Placed
<1>4. \A u \in Threads : \A d \in Heights(u) :
        \/ d \in Heights(u)' /\ FrameAt(u, d)' = FrameAt(u, d)
        \/ u = t /\ d = h + 1
  BY <1>2 DEF Placed
<1>5. ASSUME NEW s, NEW J, NEW c, NEW K, Below(s, J, c, K), ~Below(s, J, c, K)'
      PROVE  \E z \in old :
               /\ Matches(z, {c}, K)
               /\ \A L : (\E x \in new : Matches(x, {c}, L)) => Below(s, J, c, L)'
  <2>1. PICK u, d, e : /\ u \in Threads /\ d \in Heights(u) /\ e \in Heights(u) /\ d < e
                                  /\ Matches(FrameAt(u, d), {s}, J)
                                  /\ Matches(FrameAt(u, e), {c}, K)
    BY <1>5 DEF Below
  <2>2. d \in Nat /\ e \in Nat /\ (u = t => e <= h + 1)
    BY <1>1, <2>1 DEF Heights
  <2>3. d \in Heights(u)' /\ FrameAt(u, d)' = FrameAt(u, d)
    <3>1. ~(u = t /\ d = h + 1)
      BY <1>1, <2>1, <2>2
    <3> QED BY <1>4, <2>1, <3>1
  <2>4. u = t /\ e = h + 1
    <3>1. ASSUME ~(u = t /\ e = h + 1) PROVE FALSE
      <4>1. e \in Heights(u)' /\ FrameAt(u, e)' = FrameAt(u, e)
        BY <1>4, <2>1, <3>1
      <4> QED BY <1>5, <2>1, <2>3, <4>1 DEF Below
    <3> QED BY <3>1
  <2>5. FrameAt(t, h + 1) \in old /\ Matches(FrameAt(t, h + 1), {c}, K)
    BY <1>3, <2>1, <2>4
  <2>6. ASSUME NEW L, NEW x \in new, Matches(x, {c}, L)
        PROVE  Below(s, J, c, L)'
    <3>1. \E i : i \in Heights(t)' /\ d < i /\ FrameAt(t, i)' = x
      <4>1. n \in {1, 2} /\ (x = f \/ (n = 2 /\ x = g))
        BY <2>6 DEF NewFrames
      <4>2. h + 1 \in Heights(t)' /\ FrameAt(t, h + 1)' = f
        BY <1>2, <4>1 DEF Placed
      <4>3. n = 2 => h + 2 \in Heights(t)' /\ FrameAt(t, h + 2)' = g
        BY <1>2 DEF Placed
      <4>4. d < h + 1 /\ d < h + 2
        BY <1>1, <2>1, <2>2, <2>4
      <4> QED BY <4>1, <4>2, <4>3, <4>4
    <3> QED BY <2>1, <2>3, <2>4, <2>6, <3>1 DEF Below
  <2> QED BY <2>5, <2>6
<1> QED BY <1>5 DEF Shifts

(* A frame that another is called from is below it.                        *)
LEMMA Entered ==
  ASSUME StackType, NEW t \in Threads, stack[t] # <<>>, NEW f \in Frames, NEW g \in Frames,
         Enter(t, f, g), NEW s, NEW J, NEW c, NEW K, Matches(f, {s}, J), Matches(g, {c}, K)
  PROVE  Below(s, J, c, K)'
<1>1. PICK h : h = Len(stack[t]) - 1
  OBVIOUS
<1>2. StackType' /\ Moves(t, h, 2, f, g)
  BY <1>1, Moving
<1>3. Placed(t, h, 2, f, g)
  BY <1>2, MovedFrames
<1>4. /\ h \in Nat
      /\ h + 1 \in Heights(t)' /\ FrameAt(t, h + 1)' = f
      /\ h + 2 \in Heights(t)' /\ FrameAt(t, h + 2)' = g
  BY <1>3 DEF Placed
<1>5. h + 1 < h + 2
  BY <1>4
<1> QED BY <1>4, <1>5 DEF Below

(* The only frame of its kind is below none when it is on top.             *)
LEMMA TopIsNotBelow ==
  ASSUME StackType, NEW t \in Threads, stack[t] # <<>>, NEW s, NEW J, Single({s}, J),
         Matches(Head(stack[t]), {s}, J)
  PROVE  \A c, K : ~Below(s, J, c, K)
<1>1. /\ Len(stack[t]) \in Nat \ {0} /\ Len(stack[t]) \in Heights(t)
      /\ Head(stack[t]) = FrameAt(t, Len(stack[t]))
  BY TopFrame
<1> SUFFICES ASSUME NEW c, NEW K, Below(s, J, c, K) PROVE FALSE
  OBVIOUS
<1>2. PICK u, d, e : /\ u \in Threads /\ d \in Heights(u) /\ e \in Heights(u) /\ d < e
                                /\ Matches(FrameAt(u, d), {s}, J)
  BY DEF Below
<1>3. u = t /\ d = Len(stack[t])
  BY <1>1, <1>2 DEF Single
<1> QED BY <1>1, <1>2, <1>3 DEF Heights

(* The frames in old give way to those in new.                             *)
Changes(old, new) ==
  /\ Shifts(old, new)
  /\ \A x \in Running' : x \in Running \/ x \in new
  /\ new \subseteq Running'
  /\ \A x \in Running : x \in Running' \/ x \in old
  /\ old \subseteq Running
  /\ \A S, steps :
       (\A x, y \in new : Matches(x, S, steps) /\ Matches(y, S, steps) => x = y) =>
         /\ Single(S, steps) /\ (\A x \in new : ~Matches(x, S, steps)) => Single(S, steps)'
         /\ (\A x \in Running : ~Matches(x, S, steps)) => Single(S, steps)'
         /\ \A z \in old : Single(S, steps) /\ Matches(z, S, steps) =>
              /\ Single(S, steps)'
              /\ \A x \in Running' : Matches(x, S, steps) => x \in new

LEMMA MovesChange ==
  ASSUME StackType, StackType', NEW t \in Threads, NEW h, NEW n \in {0, 1, 2}, NEW f, NEW g,
         Moves(t, h, n, f, g), n = 2 => f # g,
         NEW old, NEW new, new = NewFrames(n, f, g),
         old = IF Len(stack[t]) = h THEN {} ELSE {Head(stack[t])}
  PROVE  Changes(old, new)
<1>1. h \in Nat /\ Len(stack[t]) \in {h, h + 1}
  BY DEF Moves
<1>2. h + 1 \in Heights(t) <=> Len(stack[t]) # h
  BY <1>1 DEF Heights
<1>3. /\ \A x \in Running' : x \in Running \/ x \in new
      /\ \A x \in new : x \in Running'
      /\ \A x \in Running : x \in Running' \/ (h + 1 \in Heights(t) /\ x = Head(stack[t]))
  BY MovedRunning
<1>4. old \subseteq Running
  <2>1. CASE Len(stack[t]) = h
    BY <2>1
  <2>2. CASE Len(stack[t]) # h
    <3>1. stack[t] # <<>>
      BY <1>1, <2>2
    <3> QED BY <2>2, <3>1, TopFrame
  <2> QED BY <2>1, <2>2
<1>5. ASSUME NEW S, NEW steps,
             \A x, y \in new : Matches(x, S, steps) /\ Matches(y, S, steps) => x = y
      PROVE  /\ Single(S, steps) /\ (\A x \in new : ~Matches(x, S, steps)) => Single(S, steps)'
             /\ (\A x \in Running : ~Matches(x, S, steps)) => Single(S, steps)'
             /\ \A z \in old : Single(S, steps) /\ Matches(z, S, steps) =>
                  /\ Single(S, steps)'
                  /\ \A x \in Running' : Matches(x, S, steps) => x \in new
  <2>1. ~(n = 2 /\ Matches(f, S, steps) /\ Matches(g, S, steps))
    BY <1>5 DEF NewFrames
  <2>2. /\ Single(S, steps) /\ (\A x \in new : ~Matches(x, S, steps)) => Single(S, steps)'
        /\ (\A x \in Running : ~Matches(x, S, steps)) => Single(S, steps)'
        /\ Single(S, steps) /\ h + 1 \in Heights(t) /\ Matches(Head(stack[t]), S, steps) =>
             /\ Single(S, steps)'
             /\ \A x \in Running' : Matches(x, S, steps) => x \in new
    BY <2>1, MovedSingle
  <2> QED BY <1>2, <2>2
<1>6. Shifts(old, new)
  BY MovesShift
<1> QED BY <1>2, <1>3, <1>4, <1>5, <1>6 DEF Changes

(* The forms in which the actions change a stack.                          *)
LEMMA StackChanges ==
  ASSUME StackType, NEW t \in Threads
  PROVE  /\ stack[t] # <<>> =>
              /\ Head(stack[t]) \in Frames /\ Head(stack[t]) \in Running
              /\ Return(t) => StackType' /\ Changes({Head(stack[t])}, {})
              /\ \A f \in Frames : Become(t, f) =>
                   StackType' /\ Changes({Head(stack[t])}, {f})
              /\ \A f, g \in Frames : f # g /\ Enter(t, f, g) =>
                   StackType' /\ Changes({Head(stack[t])}, {f, g})
         /\ \A f \in Frames : stack' = [stack EXCEPT ![t] = <<f>> \o @] =>
              StackType' /\ Changes({}, {f})
<1>1. PICK h : h = Len(stack[t])
  OBVIOUS
<1>2. /\ h \in Nat
      /\ stack[t] # <<>> /\ Return(t) => StackType' /\ \A f, g : Moves(t, h - 1, 0, f, g)
      /\ \A f \in Frames : stack[t] # <<>> /\ Become(t, f) =>
           StackType' /\ \A g : Moves(t, h - 1, 1, f, g)
      /\ \A f, g \in Frames : stack[t] # <<>> /\ Enter(t, f, g) =>
           StackType' /\ Moves(t, h - 1, 2, f, g)
      /\ \A f \in Frames : stack' = [stack EXCEPT ![t] = <<f>> \o @] =>
           StackType' /\ \A g : Moves(t, h, 1, f, g)
  BY <1>1, Moving
<1>3. ASSUME stack[t] # <<>>
      PROVE  /\ Head(stack[t]) \in Frames /\ Head(stack[t]) \in Running
             /\ {Head(stack[t])} = IF Len(stack[t]) = h - 1 THEN {} ELSE {Head(stack[t])}
  BY <1>1, <1>2, <1>3, TopFrame
<1>4. ASSUME stack[t] # <<>>, Return(t)
      PROVE  StackType' /\ Changes({Head(stack[t])}, {})
  <2>1. {} = NewFrames(0, {}, {})
    BY DEF NewFrames
  <2>2. StackType' /\ Moves(t, h - 1, 0, {}, {}) /\ h - 1 \in Nat
    BY <1>2, <1>4 DEF Moves
  <2>3. 0 \in {0, 1, 2} /\ (0 = 2 => {} # {})
    OBVIOUS
  <2>4. {Head(stack[t])} = IF Len(stack[t]) = h - 1 THEN {} ELSE {Head(stack[t])}
    BY <1>3, <1>4
  <2> QED BY <2>1, <2>2, <2>3, <2>4, MovesChange
<1>5. ASSUME stack[t] # <<>>, NEW f \in Frames, Become(t, f)
      PROVE  StackType' /\ Changes({Head(stack[t])}, {f})
  <2>1. {f} = NewFrames(1, f, f)
    BY DEF NewFrames
  <2>2. StackType' /\ Moves(t, h - 1, 1, f, f)
    BY <1>2, <1>5
  <2>3. 1 \in {0, 1, 2} /\ (1 = 2 => f # f)
    OBVIOUS
  <2>4. {Head(stack[t])} = IF Len(stack[t]) = h - 1 THEN {} ELSE {Head(stack[t])}
    BY <1>3, <1>5
  <2> QED BY <2>1, <2>2, <2>3, <2>4, MovesChange
<1>6. ASSUME stack[t] # <<>>, NEW f \in Frames, NEW g \in Frames, f # g, Enter(t, f, g)
      PROVE  StackType' /\ Changes({Head(stack[t])}, {f, g})
  <2>1. {f, g} = NewFrames(2, f, g)
    BY DEF NewFrames
  <2>2. StackType' /\ Moves(t, h - 1, 2, f, g)
    BY <1>2, <1>6
  <2> QED BY <1>3, <1>6, <2>1, <2>2, MovesChange
<1>7. ASSUME NEW f \in Frames, stack' = [stack EXCEPT ![t] = <<f>> \o @]
      PROVE  StackType' /\ Changes({}, {f})
  <2>1. {f} = NewFrames(1, f, f)
    BY DEF NewFrames
  <2>2. StackType' /\ Moves(t, h, 1, f, f)
    BY <1>2, <1>7
  <2>3. 1 \in {0, 1, 2} /\ (1 = 2 => f # f)
    OBVIOUS
  <2>4. {} = IF Len(stack[t]) = h THEN {} ELSE {Head(stack[t])}
    BY <1>1
  <2> QED BY <2>1, <2>2, <2>3, <2>4, MovesChange
<1> QED BY <1>3, <1>4, <1>5, <1>6, <1>7

-----------------------------------------------------------------------------
(* What each action does to the stacks, F being the frame it starts from.   *)

ScopeSteps == {"cancel", "finish", "unregister", "merge", "register", "accept", "drop",
               "release", "before", "registrations", "get", "add", "dispose"}

TopIs(t, F, steps) ==
  /\ stack[t] # <<>> /\ F = Head(stack[t])
  /\ F \in Frames /\ F \in Running /\ FrameFits(F)
  /\ F.of \in Tokens /\ F.held \subseteq Tokens /\ F.children \subseteq Scopes
  /\ F.step \in steps
  /\ F.step \in ScopeSteps => F.of \in Scopes

LEMMA TopFits ==
  ASSUME TypeOK, FramesFit, NEW t \in Threads, NEW steps, stack[t] # <<>>,
         Head(stack[t]).step \in steps
  PROVE  TopIs(t, Head(stack[t]), steps)
<1>1. PICK F : F = Head(stack[t])
  OBVIOUS
<1>2. F \in Frames /\ F \in Running
  BY <1>1, StackChanges DEF TypeOK, ScopeTypeOK, StackType
<1>3. FrameFits(F)
  BY <1>2 DEF FramesFit
<1>4. F.of \in Foreign => F.step \in {"signal", "notify"}
  BY <1>3 DEF FrameFits
<1>5. F.step \in ScopeSteps => F.of \in Scopes
  BY <1>2, <1>4 DEF Frames, Tokens, ScopeSteps
<1>6. F.of \in Tokens /\ F.held \subseteq Tokens /\ F.children \subseteq Scopes
  BY <1>2 DEF Frames
<1> QED BY <1>1, <1>2, <1>3, <1>5, <1>6 DEF TopIs

LEMMA CancelShapes ==
  ASSUME TypeOK, FramesFit, NEW t \in Threads, NEW F, F = Head(stack[t])
  PROVE  /\ TryBeginCancellation(t) =>
              /\ TopIs(t, F, {"cancel"}) /\ StackType'
              /\ \/ /\ CanAcceptCancellation(F.of)
                    /\ Changes({F}, {[F EXCEPT !.step = "signal"]})
                 \/ ~CanAcceptCancellation(F.of) /\ Changes({F}, {})
         /\ Signal(t) =>
              /\ TopIs(t, F, {"signal"}) /\ StackType'
              /\ \/ source[F.of] = "live" /\ Changes({F}, {[F EXCEPT !.step = "notify"]})
                 \/ source[F.of] # "live" /\ Changes({F}, {})
         /\ Notify(t) =>
              /\ TopIs(t, F, {"notify"}) /\ StackType'
              /\ \A s \in Scopes : Enter(t, F, Frame("cancel", s)) =>
                   Changes({F}, {F, Frame("cancel", s)})
         /\ NotifyEnd(t) =>
              /\ TopIs(t, F, {"notify"}) /\ StackType'
              /\ \/ F.of \in Foreign /\ Changes({F}, {})
                 \/ F.of \notin Foreign /\ Changes({F}, {[F EXCEPT !.step = "finish"]})
         /\ FinishCancellation(t) =>
              /\ TopIs(t, F, {"finish"}) /\ StackType'
              /\ \/ /\ disposeAfterCancellation[F.of]
                    /\ Changes({F}, {[F EXCEPT !.held = registrations[F.of], !.step = "before",
                                               !.children = beforeScopeResources[F.of]]})
                 \/ /\ ~disposeAfterCancellation[F.of]
                    /\ Changes({F}, {[F EXCEPT !.held = registrations[F.of],
                                               !.step = "unregister"]})
         /\ Unregister(t) =>
              /\ TopIs(t, F, {"unregister"}) /\ StackType'
              /\ \A k : Become(t, [F EXCEPT !.held = @ \ {k}]) =>
                   Changes({F}, {[F EXCEPT !.held = @ \ {k}]})
         /\ CancelEnd(t) =>
              TopIs(t, F, {"unregister"}) /\ StackType' /\ Changes({F}, {})
<1> USE DEF At, Me, Held, Children, Continue
<1>1. ASSUME stack[t] # <<>>
      PROVE  /\ F \in Frames
             /\ Return(t) => StackType' /\ Changes({F}, {})
             /\ \A f \in Frames : Become(t, f) => StackType' /\ Changes({F}, {f})
             /\ \A f, g \in Frames : f # g /\ Enter(t, f, g) =>
                  StackType' /\ Changes({F}, {f, g})
  BY <1>1, StackChanges DEF TypeOK, ScopeTypeOK, StackType
<1>2. \A steps : stack[t] # <<>> /\ F.step \in steps => TopIs(t, F, steps)
  BY TopFits
<1>3. ASSUME TryBeginCancellation(t)
      PROVE  /\ TopIs(t, F, {"cancel"}) /\ StackType'
             /\ \/ /\ CanAcceptCancellation(F.of)
                   /\ Changes({F}, {[F EXCEPT !.step = "signal"]})
                \/ ~CanAcceptCancellation(F.of) /\ Changes({F}, {})
  <2>1. stack[t] # <<>> /\ TopIs(t, F, {"cancel"})
    BY <1>2, <1>3 DEF TryBeginCancellation
  <2>2. [F EXCEPT !.step = "signal"] \in Frames
    BY <1>1, <2>1 DEF Frames
  <2> QED BY <1>1, <1>3, <2>1, <2>2 DEF TryBeginCancellation
<1>4. ASSUME Signal(t)
      PROVE  /\ TopIs(t, F, {"signal"}) /\ StackType'
             /\ \/ source[F.of] = "live" /\ Changes({F}, {[F EXCEPT !.step = "notify"]})
                \/ source[F.of] # "live" /\ Changes({F}, {})
  <2>1. stack[t] # <<>> /\ TopIs(t, F, {"signal"})
    BY <1>2, <1>4 DEF Signal
  <2>2. [F EXCEPT !.step = "notify"] \in Frames
    BY <1>1, <2>1 DEF Frames
  <2> QED BY <1>1, <1>4, <2>1, <2>2 DEF Signal
<1>5. ASSUME Notify(t)
      PROVE  /\ TopIs(t, F, {"notify"}) /\ StackType'
             /\ \A s \in Scopes : Enter(t, F, Frame("cancel", s)) =>
                  Changes({F}, {F, Frame("cancel", s)})
  <2>1. stack[t] # <<>> /\ TopIs(t, F, {"notify"})
    BY <1>2, <1>5 DEF Notify
  <2>2. \A s \in Scopes : Frame("cancel", s) \in Frames /\ F # Frame("cancel", s)
    BY <1>1, <2>1 DEF Frames, Frame, TopIs, Tokens
  <2>3. \E s \in Scopes : Enter(t, F, Frame("cancel", s))
    <3>1. callbacks[Me(t)] \subseteq Scopes
      BY <2>1 DEF TypeOK, ScopeTypeOK, TopIs, Frames
    <3> QED BY <1>5, <3>1 DEF Notify
  <2> QED BY <1>1, <2>1, <2>2, <2>3
<1>6. ASSUME NotifyEnd(t)
      PROVE  /\ TopIs(t, F, {"notify"}) /\ StackType'
             /\ \/ F.of \in Foreign /\ Changes({F}, {})
                \/ F.of \notin Foreign /\ Changes({F}, {[F EXCEPT !.step = "finish"]})
  <2>1. stack[t] # <<>> /\ TopIs(t, F, {"notify"})
    BY <1>2, <1>6 DEF NotifyEnd
  <2>2. [F EXCEPT !.step = "finish"] \in Frames
    BY <1>1, <2>1 DEF Frames
  <2> QED BY <1>1, <1>6, <2>1, <2>2 DEF NotifyEnd
<1>7. ASSUME FinishCancellation(t)
      PROVE  /\ TopIs(t, F, {"finish"}) /\ StackType'
             /\ \/ /\ disposeAfterCancellation[F.of]
                   /\ Changes({F}, {[F EXCEPT !.held = registrations[F.of], !.step = "before",
                                              !.children = beforeScopeResources[F.of]]})
                \/ /\ ~disposeAfterCancellation[F.of]
                   /\ Changes({F}, {[F EXCEPT !.held = registrations[F.of],
                                              !.step = "unregister"]})
  <2>1. stack[t] # <<>> /\ TopIs(t, F, {"finish"}) /\ F.of \in Scopes
    BY <1>2, <1>7 DEF FinishCancellation, TopIs, ScopeSteps
  <2>2. PICK f : f = [F EXCEPT !.held = registrations[F.of], !.step = "before",
                               !.children = beforeScopeResources[F.of]]
    OBVIOUS
  <2>3. PICK g : g = [F EXCEPT !.held = registrations[F.of], !.step = "unregister"]
    OBVIOUS
  <2>4. registrations[F.of] \subseteq Tokens /\ beforeScopeResources[F.of] \subseteq Scopes
    BY <2>1 DEF TypeOK, ScopeTypeOK
  <2>5. f \in Frames /\ g \in Frames
    BY <1>1, <2>1, <2>2, <2>3, <2>4 DEF Frames
  <2>6. /\ disposeAfterCancellation[F.of] => Become(t, f)
        /\ ~disposeAfterCancellation[F.of] => Become(t, g)
    <3>1. f = [[F EXCEPT !.held = registrations[F.of]]
                 EXCEPT !.step = "before", !.children = beforeScopeResources[F.of]]
      BY <1>1, <2>1, <2>2 DEF Frames
    <3>2. g = [[F EXCEPT !.held = registrations[F.of]] EXCEPT !.step = "unregister"]
      BY <1>1, <2>1, <2>3 DEF Frames
    <3> QED BY <1>7, <3>1, <3>2 DEF FinishCancellation
  <2> QED BY <1>1, <2>1, <2>2, <2>3, <2>5, <2>6
<1>8. ASSUME Unregister(t)
      PROVE  /\ TopIs(t, F, {"unregister"}) /\ StackType'
             /\ \A k : Become(t, [F EXCEPT !.held = @ \ {k}]) =>
                  Changes({F}, {[F EXCEPT !.held = @ \ {k}]})
  <2>1. stack[t] # <<>> /\ TopIs(t, F, {"unregister"})
    BY <1>2, <1>8 DEF Unregister
  <2>2. \A k : [F EXCEPT !.held = @ \ {k}] \in Frames
    BY <1>1, <2>1 DEF Frames
  <2>3. \E k : Become(t, [F EXCEPT !.held = @ \ {k}])
    BY <1>8 DEF Unregister
  <2> QED BY <1>1, <2>1, <2>2, <2>3
<1>9. ASSUME CancelEnd(t)
      PROVE  TopIs(t, F, {"unregister"}) /\ StackType' /\ Changes({F}, {})
  BY <1>1, <1>2, <1>9 DEF CancelEnd
<1> QED BY <1>3, <1>4, <1>5, <1>6, <1>7, <1>8, <1>9

LEMMA MergeShapes ==
  ASSUME TypeOK, FramesFit, NEW t \in Threads, NEW F, F = Head(stack[t])
  PROVE  /\ MergeBegin(t) =>
              /\ TopIs(t, F, {"merge"}) /\ StackType'
              /\ \A k \in F.held :
                   \/ CanMerge(F.of, k) /\ Changes({F}, {[F EXCEPT !.step = "register"]})
                   \/ ~CanMerge(F.of, k) /\ Changes({F}, {})
         /\ Register(t) =>
              /\ TopIs(t, F, {"register"}) /\ StackType'
              /\ \A k \in F.held :
                   \/ /\ IsCancellationRequested(k)
                      /\ Changes({F}, {[F EXCEPT !.step = "accept", !.held = {}],
                                       Frame("cancel", F.of)})
                      /\ UNCHANGED callbacks
                   \/ /\ ~IsCancellationRequested(k)
                      /\ k \in Scopes /\ sourceDisposed[k]
                      /\ Changes({F}, {[F EXCEPT !.step = "accept", !.held = {}]})
                      /\ UNCHANGED callbacks
                   \/ /\ ~IsCancellationRequested(k)
                      /\ ~(k \in Scopes /\ sourceDisposed[k])
                      /\ Changes({F}, {[F EXCEPT !.step = "accept"]})
                      /\ callbacks' = [callbacks EXCEPT ![k] = @ \cup {F.of}]
         /\ Accept(t) =>
              /\ TopIs(t, F, {"accept"}) /\ StackType'
              /\ \/ CanAcceptCancellation(F.of) /\ Changes({F}, {})
                 \/ /\ ~CanAcceptCancellation(F.of)
                    /\ Changes({F}, {[F EXCEPT !.step = "drop"]})
         /\ DisposeRegistration(t) =>
              /\ TopIs(t, F, {"drop", "registrations"}) /\ StackType'
              /\ \A k : Become(t, [F EXCEPT !.held = @ \ {k}]) =>
                   Changes({F}, {[F EXCEPT !.held = @ \ {k}]})
         /\ DropEnd(t) =>
              TopIs(t, F, {"drop"}) /\ StackType' /\ Changes({F}, {})
<1> USE DEF At, Me, Held, Children, Continue
<1>1. ASSUME stack[t] # <<>>
      PROVE  /\ F \in Frames
             /\ Return(t) => StackType' /\ Changes({F}, {})
             /\ \A f \in Frames : Become(t, f) => StackType' /\ Changes({F}, {f})
             /\ \A f, g \in Frames : f # g /\ Enter(t, f, g) =>
                  StackType' /\ Changes({F}, {f, g})
  BY <1>1, StackChanges DEF TypeOK, ScopeTypeOK, StackType
<1>2. \A steps : stack[t] # <<>> /\ F.step \in steps => TopIs(t, F, steps)
  BY TopFits
<1>3. ASSUME MergeBegin(t)
      PROVE  /\ TopIs(t, F, {"merge"}) /\ StackType'
             /\ \A k \in F.held :
                  \/ CanMerge(F.of, k) /\ Changes({F}, {[F EXCEPT !.step = "register"]})
                  \/ ~CanMerge(F.of, k) /\ Changes({F}, {})
  <2>1. stack[t] # <<>> /\ TopIs(t, F, {"merge"})
    BY <1>2, <1>3 DEF MergeBegin
  <2>2. [F EXCEPT !.step = "register"] \in Frames
    BY <1>1, <2>1 DEF Frames
  <2>3. \E k : F.held = {k}
    BY <2>1 DEF TopIs, FrameFits
  <2> QED BY <1>1, <1>3, <2>1, <2>2, <2>3 DEF MergeBegin
<1>4. ASSUME Register(t)
      PROVE  /\ TopIs(t, F, {"register"}) /\ StackType'
             /\ \A k \in F.held :
                  \/ /\ IsCancellationRequested(k)
                     /\ Changes({F}, {[F EXCEPT !.step = "accept", !.held = {}],
                                      Frame("cancel", F.of)})
                     /\ UNCHANGED callbacks
                  \/ /\ ~IsCancellationRequested(k)
                     /\ k \in Scopes /\ sourceDisposed[k]
                     /\ Changes({F}, {[F EXCEPT !.step = "accept", !.held = {}]})
                     /\ UNCHANGED callbacks
                  \/ /\ ~IsCancellationRequested(k)
                     /\ ~(k \in Scopes /\ sourceDisposed[k])
                     /\ Changes({F}, {[F EXCEPT !.step = "accept"]})
                     /\ callbacks' = [callbacks EXCEPT ![k] = @ \cup {F.of}]
  <2>1. stack[t] # <<>> /\ TopIs(t, F, {"register"}) /\ F.of \in Scopes
    BY <1>2, <1>4 DEF Register, TopIs, ScopeSteps
  <2>2. PICK f : f = [F EXCEPT !.step = "accept", !.held = {}]
    OBVIOUS
  <2>3. PICK g : g = [F EXCEPT !.step = "accept"]
    OBVIOUS
  <2>4. PICK c : c = Frame("cancel", F.of)
    OBVIOUS
  <2>5. f \in Frames /\ g \in Frames /\ c \in Frames /\ f # c
    BY <1>1, <2>1, <2>2, <2>3, <2>4 DEF Frames, Frame, Tokens
  <2>6. PICK k : F.held = {k}
    BY <2>1 DEF TopIs, FrameFits
  <2>7. \/ /\ IsCancellationRequested(k)
           /\ Enter(t, f, c)
           /\ UNCHANGED callbacks
        \/ /\ ~IsCancellationRequested(k)
           /\ k \in Scopes /\ sourceDisposed[k]
           /\ Become(t, f)
           /\ UNCHANGED callbacks
        \/ /\ ~IsCancellationRequested(k)
           /\ ~(k \in Scopes /\ sourceDisposed[k])
           /\ Become(t, g)
           /\ callbacks' = [callbacks EXCEPT ![k] = @ \cup {F.of}]
    BY <1>4, <2>2, <2>3, <2>4, <2>6 DEF Register
  <2>8. /\ StackType'
        /\ \/ /\ IsCancellationRequested(k)
              /\ Changes({F}, {f, c})
              /\ UNCHANGED callbacks
           \/ /\ ~IsCancellationRequested(k)
              /\ k \in Scopes /\ sourceDisposed[k]
              /\ Changes({F}, {f})
              /\ UNCHANGED callbacks
           \/ /\ ~IsCancellationRequested(k)
              /\ ~(k \in Scopes /\ sourceDisposed[k])
              /\ Changes({F}, {g})
              /\ callbacks' = [callbacks EXCEPT ![k] = @ \cup {F.of}]
    BY <1>1, <2>1, <2>5, <2>7
  <2> QED BY <2>1, <2>2, <2>3, <2>4, <2>6, <2>8
<1>5. ASSUME Accept(t)
      PROVE  /\ TopIs(t, F, {"accept"}) /\ StackType'
             /\ \/ CanAcceptCancellation(F.of) /\ Changes({F}, {})
                \/ /\ ~CanAcceptCancellation(F.of)
                   /\ Changes({F}, {[F EXCEPT !.step = "drop"]})
  <2>1. stack[t] # <<>> /\ TopIs(t, F, {"accept"})
    BY <1>2, <1>5 DEF Accept
  <2>2. [F EXCEPT !.step = "drop"] \in Frames
    BY <1>1, <2>1 DEF Frames
  <2> QED BY <1>1, <1>5, <2>1, <2>2 DEF Accept
<1>6. ASSUME DisposeRegistration(t)
      PROVE  /\ TopIs(t, F, {"drop", "registrations"}) /\ StackType'
             /\ \A k : Become(t, [F EXCEPT !.held = @ \ {k}]) =>
                  Changes({F}, {[F EXCEPT !.held = @ \ {k}]})
  <2>1. stack[t] # <<>> /\ TopIs(t, F, {"drop", "registrations"})
    BY <1>2, <1>6 DEF DisposeRegistration
  <2>2. \A k : [F EXCEPT !.held = @ \ {k}] \in Frames
    BY <1>1, <2>1 DEF Frames
  <2>3. \E k : Become(t, [F EXCEPT !.held = @ \ {k}])
    BY <1>6 DEF DisposeRegistration
  <2> QED BY <1>1, <2>1, <2>2, <2>3
<1>7. ASSUME DropEnd(t)
      PROVE  TopIs(t, F, {"drop"}) /\ StackType' /\ Changes({F}, {})
  BY <1>1, <1>2, <1>7 DEF DropEnd
<1> QED BY <1>3, <1>4, <1>5, <1>6, <1>7

LEMMA ReleaseShapes ==
  ASSUME TypeOK, FramesFit, NEW t \in Threads, NEW F, F = Head(stack[t])
  PROVE  /\ ReleaseResources(t) =>
              /\ TopIs(t, F, {"release"}) /\ StackType'
              /\ \/ /\ isDisposed[F.of] \/ isCancellationInProgress[F.of]
                    /\ Changes({F}, {})
                 \/ /\ ~isDisposed[F.of] /\ ~isCancellationInProgress[F.of]
                    /\ Changes({F}, {[F EXCEPT !.held = registrations[F.of],
                                               !.step = "before"]})
         /\ ReleaseChild(t) =>
              /\ TopIs(t, F, {"before"}) /\ StackType'
              /\ \E c \in F.children :
                   Changes({F}, {[F EXCEPT !.children = @ \ {c}], Frame("release", c)})
         /\ ChildrenReleased(t) =>
              /\ TopIs(t, F, {"before"}) /\ StackType'
              /\ Changes({F}, {[F EXCEPT !.step = "registrations"]})
         /\ DisposeSource(t) =>
              TopIs(t, F, {"registrations"}) /\ StackType' /\ Changes({F}, {})
<1> USE DEF At, Me, Held, Children, Continue
<1>1. ASSUME stack[t] # <<>>
      PROVE  /\ F \in Frames
             /\ Return(t) => StackType' /\ Changes({F}, {})
             /\ \A f \in Frames : Become(t, f) => StackType' /\ Changes({F}, {f})
             /\ \A f, g \in Frames : f # g /\ Enter(t, f, g) =>
                  StackType' /\ Changes({F}, {f, g})
  BY <1>1, StackChanges DEF TypeOK, ScopeTypeOK, StackType
<1>2. \A steps : stack[t] # <<>> /\ F.step \in steps => TopIs(t, F, steps)
  BY TopFits
<1>3. ASSUME ReleaseResources(t)
      PROVE  /\ TopIs(t, F, {"release"}) /\ StackType'
             /\ \/ /\ isDisposed[F.of] \/ isCancellationInProgress[F.of]
                   /\ Changes({F}, {})
                \/ /\ ~isDisposed[F.of] /\ ~isCancellationInProgress[F.of]
                   /\ Changes({F}, {[F EXCEPT !.held = registrations[F.of],
                                              !.step = "before"]})
  <2>1. stack[t] # <<>> /\ TopIs(t, F, {"release"}) /\ F.of \in Scopes
    BY <1>2, <1>3 DEF ReleaseResources, TopIs, ScopeSteps
  <2>2. PICK f : f = [F EXCEPT !.held = registrations[F.of], !.step = "before"]
    OBVIOUS
  <2>3. registrations[F.of] \subseteq Tokens
    BY <2>1 DEF TypeOK, ScopeTypeOK
  <2>4. f \in Frames /\ f = [F EXCEPT !.step = "before", !.held = registrations[F.of]]
    BY <1>1, <2>1, <2>2, <2>3 DEF Frames
  <2>5. \/ (isDisposed[F.of] \/ isCancellationInProgress[F.of]) /\ Return(t)
        \/ ~isDisposed[F.of] /\ ~isCancellationInProgress[F.of] /\ Become(t, f)
    BY <1>3, <2>4 DEF ReleaseResources
  <2> QED BY <1>1, <2>1, <2>2, <2>4, <2>5
<1>4. ASSUME ReleaseChild(t)
      PROVE  /\ TopIs(t, F, {"before"}) /\ StackType'
             /\ \E c \in F.children :
                  Changes({F}, {[F EXCEPT !.children = @ \ {c}], Frame("release", c)})
  <2>1. stack[t] # <<>> /\ TopIs(t, F, {"before"})
    BY <1>2, <1>4 DEF ReleaseChild
  <2>2. PICK c \in F.children :
          Enter(t, [F EXCEPT !.children = @ \ {c}], Frame("release", c))
    BY <1>4 DEF ReleaseChild
  <2>3. /\ [F EXCEPT !.children = @ \ {c}] \in Frames /\ Frame("release", c) \in Frames
        /\ [F EXCEPT !.children = @ \ {c}] # Frame("release", c)
    BY <1>1, <2>1 DEF Frames, Frame, Tokens, TopIs
  <2> QED BY <1>1, <2>1, <2>2, <2>3
<1>5. ASSUME ChildrenReleased(t)
      PROVE  /\ TopIs(t, F, {"before"}) /\ StackType'
             /\ Changes({F}, {[F EXCEPT !.step = "registrations"]})
  <2>1. stack[t] # <<>> /\ TopIs(t, F, {"before"})
    BY <1>2, <1>5 DEF ChildrenReleased
  <2>2. [F EXCEPT !.step = "registrations"] \in Frames
    BY <1>1, <2>1 DEF Frames
  <2> QED BY <1>1, <1>5, <2>1, <2>2 DEF ChildrenReleased
<1>6. ASSUME DisposeSource(t)
      PROVE  TopIs(t, F, {"registrations"}) /\ StackType' /\ Changes({F}, {})
  BY <1>1, <1>2, <1>6 DEF DisposeSource
<1> QED BY <1>3, <1>4, <1>5, <1>6

LEMMA UtilsShapes ==
  ASSUME TypeOK, FramesFit, NEW t \in Threads, NEW F, F = Head(stack[t])
  PROVE  /\ GetOrCreateScope(t) =>
              /\ TopIs(t, F, {"get"}) /\ StackType'
              /\ \/ /\ utilsDisposed \/ F.of \in keyedScopes
                    /\ Changes({F}, {})
                 \/ /\ ~utilsDisposed /\ F.of \notin keyedScopes
                    /\ Changes({F}, {Frame("add", F.of),
                                     [Frame("merge", F.of) EXCEPT !.held = {Root}]})
         /\ AddScope(t) =>
              TopIs(t, F, {"add"}) /\ StackType' /\ Changes({F}, {})
         /\ Dispose(t) =>
              /\ TopIs(t, F, {"dispose"}) /\ StackType'
              /\ \/ utilsDisposed /\ Changes({F}, {})
                 \/ /\ ~utilsDisposed
                    /\ Changes({F}, {[Frame("release", Root) EXCEPT !.children = keyedScopes]})
         /\ \A f \in Frames : CallFrom(t, f) => StackType' /\ Changes({}, {f})
<1> USE DEF At, Me, Held, Children, Continue
<1>1. ASSUME stack[t] # <<>>
      PROVE  /\ F \in Frames
             /\ Return(t) => StackType' /\ Changes({F}, {})
             /\ \A f \in Frames : Become(t, f) => StackType' /\ Changes({F}, {f})
             /\ \A f, g \in Frames : f # g /\ Enter(t, f, g) =>
                  StackType' /\ Changes({F}, {f, g})
  BY <1>1, StackChanges DEF TypeOK, ScopeTypeOK, StackType
<1>2. \A steps : stack[t] # <<>> /\ F.step \in steps => TopIs(t, F, steps)
  BY TopFits
<1>3. ASSUME GetOrCreateScope(t)
      PROVE  /\ TopIs(t, F, {"get"}) /\ StackType'
             /\ \/ /\ utilsDisposed \/ F.of \in keyedScopes
                   /\ Changes({F}, {})
                \/ /\ ~utilsDisposed /\ F.of \notin keyedScopes
                   /\ Changes({F}, {Frame("add", F.of),
                                    [Frame("merge", F.of) EXCEPT !.held = {Root}]})
  <2>1. stack[t] # <<>> /\ TopIs(t, F, {"get"}) /\ F.of \in Scopes
    BY <1>2, <1>3 DEF GetOrCreateScope, TopIs, ScopeSteps
  <2>2. /\ Frame("add", F.of) \in Frames
        /\ [Frame("merge", F.of) EXCEPT !.held = {Root}] \in Frames
        /\ Frame("add", F.of) # [Frame("merge", F.of) EXCEPT !.held = {Root}]
    BY <2>1, UtilsAssumption DEF Frames, Frame, Tokens
  <2> QED BY <1>1, <1>3, <2>1, <2>2 DEF GetOrCreateScope
<1>4. ASSUME AddScope(t)
      PROVE  TopIs(t, F, {"add"}) /\ StackType' /\ Changes({F}, {})
  BY <1>1, <1>2, <1>4 DEF AddScope
<1>5. ASSUME Dispose(t)
      PROVE  /\ TopIs(t, F, {"dispose"}) /\ StackType'
             /\ \/ utilsDisposed /\ Changes({F}, {})
                \/ /\ ~utilsDisposed
                   /\ Changes({F}, {[Frame("release", Root) EXCEPT !.children = keyedScopes]})
  <2>1. stack[t] # <<>> /\ TopIs(t, F, {"dispose"})
    BY <1>2, <1>5 DEF Dispose
  <2>2. [Frame("release", Root) EXCEPT !.children = keyedScopes] \in Frames
    BY UtilsAssumption DEF Frames, Frame, Tokens, TypeOK, Keys
  <2> QED BY <1>1, <1>5, <2>1, <2>2 DEF Dispose
<1>6. ASSUME NEW f \in Frames, CallFrom(t, f)
      PROVE  StackType' /\ Changes({}, {f})
  BY <1>6, StackChanges DEF CallFrom, TypeOK, ScopeTypeOK, StackType
<1> QED BY <1>3, <1>4, <1>5, <1>6

Adds(k, s) == callbacks' = [callbacks EXCEPT ![k] = @ \cup {s}]
Drops(k, s) == callbacks' = [callbacks EXCEPT ![k] = @ \ {s}]

(* The same, by the fields of the frames, where these are what matters.    *)
LEMMA FinishFrame ==
  ASSUME TypeOK, FramesFit, NEW t \in Threads, NEW F, F = Head(stack[t]), FinishCancellation(t)
  PROVE  /\ TopIs(t, F, {"finish"}) /\ F.of \in Scopes
         /\ \E f \in Frames :
              /\ Changes({F}, {f})
              /\ f.of = F.of /\ f.held = registrations[F.of]
              /\ disposeAfterCancellation[F.of] =>
                   f.step = "before" /\ f.children = beforeScopeResources[F.of]
              /\ ~disposeAfterCancellation[F.of] =>
                   f.step = "unregister" /\ f.children = F.children
<1>1. /\ TopIs(t, F, {"finish"}) /\ F \in Frames /\ F.of \in Scopes
      /\ registrations[F.of] \subseteq Tokens /\ beforeScopeResources[F.of] \subseteq Scopes
  BY CancelShapes DEF TopIs, ScopeSteps, TypeOK, ScopeTypeOK
<1>2. PICK f : f = [F EXCEPT !.held = registrations[F.of], !.step = "before",
                             !.children = beforeScopeResources[F.of]]
  OBVIOUS
<1>3. PICK g : g = [F EXCEPT !.held = registrations[F.of], !.step = "unregister"]
  OBVIOUS
<1>4. /\ f \in Frames /\ f.of = F.of /\ f.held = registrations[F.of]
      /\ f.step = "before" /\ f.children = beforeScopeResources[F.of]
  BY <1>1, <1>2 DEF Frames
<1>5. /\ g \in Frames /\ g.of = F.of /\ g.held = registrations[F.of]
      /\ g.step = "unregister" /\ g.children = F.children
  BY <1>1, <1>3 DEF Frames
<1>6. \/ disposeAfterCancellation[F.of] /\ Changes({F}, {f})
      \/ ~disposeAfterCancellation[F.of] /\ Changes({F}, {g})
  BY <1>2, <1>3, CancelShapes
<1> QED BY <1>1, <1>4, <1>5, <1>6

Registers(F, f, c, k) ==
  /\ k \in Tokens /\ F.held = {k}
  /\ f \in Frames /\ f.step = "accept" /\ f.of = F.of /\ f.children = F.children
  /\ c \in Frames /\ c.step = "cancel" /\ c.of = F.of /\ c.held = {} /\ c.children = {}
  /\ \/ /\ IsCancellationRequested(k)
        /\ f.held = {} /\ Changes({F}, {f, c}) /\ UNCHANGED callbacks
     \/ /\ ~IsCancellationRequested(k) /\ k \in Scopes /\ sourceDisposed[k]
        /\ f.held = {} /\ Changes({F}, {f}) /\ UNCHANGED callbacks
     \/ /\ ~IsCancellationRequested(k) /\ ~(k \in Scopes /\ sourceDisposed[k])
        /\ f.held = {k} /\ Changes({F}, {f}) /\ Adds(k, F.of)

LEMMA RegisterFrames ==
  ASSUME TypeOK, FramesFit, NEW t \in Threads, NEW F, F = Head(stack[t]), Register(t)
  PROVE  /\ TopIs(t, F, {"register"}) /\ F.of \in Scopes
         /\ \E f, c, k : Registers(F, f, c, k)
<1>1. TopIs(t, F, {"register"}) /\ F \in Frames /\ F.of \in Scopes
  BY MergeShapes DEF TopIs, ScopeSteps
<1>2. PICK k \in Tokens : F.held = {k}
  BY <1>1 DEF TopIs, FrameFits
<1>3. PICK f : f = [F EXCEPT !.step = "accept", !.held = {}]
  OBVIOUS
<1>4. PICK g : g = [F EXCEPT !.step = "accept"]
  OBVIOUS
<1>5. PICK c : c = Frame("cancel", F.of)
  OBVIOUS
<1>6. /\ f \in Frames /\ f.step = "accept" /\ f.of = F.of /\ f.children = F.children
      /\ f.held = {}
  BY <1>1, <1>3 DEF Frames
<1>7. /\ g \in Frames /\ g.step = "accept" /\ g.of = F.of /\ g.children = F.children
      /\ g.held = {k}
  BY <1>1, <1>2, <1>4 DEF Frames
<1>8. /\ c \in Frames
      /\ c.step = "cancel" /\ c.of = F.of /\ c.held = {} /\ c.children = {}
  BY <1>1, <1>5 DEF Frames, Frame, Tokens
<1>9. \/ /\ IsCancellationRequested(k)
         /\ Changes({F}, {f, c}) /\ UNCHANGED callbacks
      \/ /\ ~IsCancellationRequested(k) /\ k \in Scopes /\ sourceDisposed[k]
         /\ Changes({F}, {f}) /\ UNCHANGED callbacks
      \/ /\ ~IsCancellationRequested(k) /\ ~(k \in Scopes /\ sourceDisposed[k])
         /\ Changes({F}, {g})
         /\ Adds(k, F.of)
  BY <1>2, <1>3, <1>4, <1>5, MergeShapes DEF Adds
<1>10. Registers(F, f, c, k) \/ Registers(F, g, c, k)
  BY <1>2, <1>6, <1>7, <1>8, <1>9 DEF Registers
<1> QED BY <1>1, <1>10

LEMMA HeldFrame ==
  ASSUME TypeOK, FramesFit, NEW t \in Threads, NEW F, F = Head(stack[t]),
         Unregister(t) \/ DisposeRegistration(t)
  PROVE  /\ TopIs(t, F, {"unregister", "drop", "registrations"}) /\ F.of \in Scopes
         /\ \E f \in Frames, k \in Tokens :
              /\ Changes({F}, {f})
              /\ k \in F.held /\ Drops(k, F.of)
              /\ f.step = F.step /\ f.of = F.of /\ f.children = F.children
              /\ f.held = F.held \ {k}
<1>1. TopIs(t, F, {"unregister", "drop", "registrations"}) /\ F \in Frames /\ F.of \in Scopes
  BY CancelShapes, MergeShapes DEF TopIs, ScopeSteps
<1>2. PICK k \in F.held : /\ Drops(k, F.of)
                          /\ Become(t, [F EXCEPT !.held = @ \ {k}])
  BY DEF Unregister, DisposeRegistration, Held, Me, Drops
<1>3. PICK f : f = [F EXCEPT !.held = @ \ {k}]
  OBVIOUS
<1>4. /\ f \in Frames /\ f.step = F.step /\ f.of = F.of /\ f.children = F.children
      /\ f.held = F.held \ {k}
  BY <1>1, <1>3 DEF Frames
<1>5. Changes({F}, {f})
  BY <1>2, <1>3, CancelShapes, MergeShapes
<1>6. k \in Tokens
  BY <1>1 DEF TopIs
<1> QED BY <1>1, <1>2, <1>4, <1>5, <1>6

-----------------------------------------------------------------------------
(* Types, and what frames are like.                                        *)

LEMMA FitChanges ==
  ASSUME FramesFit, NEW old, NEW new, Changes(old, new), \A x \in new : FrameFits(x),
         (\A s \in Scopes : beforeScopeResources[s] # {} => s = Root)'
  PROVE  FramesFit'
BY DEF FramesFit, Changes

LEMMA TypeInit == Init => TypeOK /\ FramesFit
<1> SUFFICES ASSUME Init PROVE TypeOK /\ FramesFit
  OBVIOUS
<1>1. StackType
  <2>1. <<>> \in Seq(Frames)
    OBVIOUS
  <2> QED BY <2>1 DEF Init, ScopeInit, StackType
<1>2. ScopeTypeOK
  BY <1>1 DEF Init, ScopeInit, ScopeTypeOK, StackType, NoCallback
<1>3. TypeOK
  <2>1. lock \in Threads \cup {NoThread} /\ keyedScopes \subseteq Keys /\ asked \subseteq Tokens
    BY DEF Init
  <2>2. utilsDisposed \in BOOLEAN
    BY DEF Init
  <2>3. known \subseteq Scopes /\ calls \in 0..MaxCalls
    BY UtilsAssumption DEF Init
  <2> QED BY <1>2, <2>1, <2>2, <2>3 DEF TypeOK
<1>4. Running = {}
  BY DEF Init, ScopeInit, Running
<1>5. \A s \in Scopes : beforeScopeResources[s] = {}
  BY DEF Init, ScopeInit
<1> QED BY <1>3, <1>4, <1>5 DEF FramesFit

TypeAfter == TypeOK' /\ FramesFit'

LEMMA CancelTypes ==
  ASSUME TypeOK, FramesFit, NEW t \in Threads, UNCHANGED utilsVars
  PROVE  /\ TryBeginCancellation(t) => TypeAfter
         /\ Signal(t) => TypeAfter
         /\ Notify(t) => TypeAfter
         /\ NotifyEnd(t) => TypeAfter
         /\ FinishCancellation(t) => TypeAfter
         /\ Unregister(t) => TypeAfter
         /\ CancelEnd(t) => TypeAfter
<1> PICK F : F = Head(stack[t])
  OBVIOUS
<1> USE DEF Me, Held, Children, TypeAfter
<1>1. ASSUME TryBeginCancellation(t) PROVE TypeAfter
  <2>1. /\ TopIs(t, F, {"cancel"}) /\ StackType' /\ F.of \in Scopes
        /\ Changes({F}, {[F EXCEPT !.step = "signal"]}) \/ Changes({F}, {})
    BY <1>1, CancelShapes DEF TopIs, ScopeSteps
  <2>2. FrameFits([F EXCEPT !.step = "signal"])
    BY <1>1, <2>1, TokensAssumption, UtilsAssumption DEF TopIs, Frames, FrameFits
  <2>3. (\A s \in Scopes : beforeScopeResources[s] # {} => s = Root)'
    BY <1>1 DEF TryBeginCancellation, lockedVars, FramesFit
  <2>4. FramesFit'
    BY <2>1, <2>2, <2>3, FitChanges
  <2>6. TypeOK'
    BY <1>1, <2>1 DEF TryBeginCancellation, TypeOK, ScopeTypeOK, StackType, sourceVars, lockedVars, utilsVars, TopIs
  <2> QED BY <2>4, <2>6
<1>2. ASSUME Signal(t) PROVE TypeAfter
  <2>1. /\ TopIs(t, F, {"signal"}) /\ StackType'
        /\ Changes({F}, {[F EXCEPT !.step = "notify"]}) \/ Changes({F}, {})
    BY <1>2, CancelShapes DEF TopIs, ScopeSteps
  <2>2. FrameFits([F EXCEPT !.step = "notify"])
    BY <1>2, <2>1, TokensAssumption, UtilsAssumption DEF TopIs, Frames, FrameFits
  <2>3. (\A s \in Scopes : beforeScopeResources[s] # {} => s = Root)'
    BY <1>2 DEF Signal, lockedVars, FramesFit
  <2>4. FramesFit'
    BY <2>1, <2>2, <2>3, FitChanges
  <2>6. TypeOK'
    BY <1>2, <2>1 DEF Signal, TypeOK, ScopeTypeOK, StackType, sourceVars, lockedVars, utilsVars, TopIs
  <2> QED BY <2>4, <2>6
<1>3. ASSUME Notify(t) PROVE TypeAfter
  <2>1. TopIs(t, F, {"notify"}) /\ StackType'
    BY <1>3, CancelShapes
  <2>2. PICK s \in Scopes : Changes({F}, {F, Frame("cancel", s)})
    <3>1. callbacks[F.of] \subseteq Scopes
      BY <2>1 DEF TopIs, Frames, TypeOK, ScopeTypeOK
    <3> QED BY <1>3, <3>1, CancelShapes DEF Notify
  <2>5. FrameFits(F) /\ FrameFits(Frame("cancel", s))
    BY <2>1, TokensAssumption, UtilsAssumption DEF TopIs, Frame, FrameFits
  <2>3. (\A r \in Scopes : beforeScopeResources[r] # {} => r = Root)'
    BY <1>3 DEF Notify, lockedVars, FramesFit
  <2>4. FramesFit'
    BY <2>2, <2>3, <2>5, FitChanges
  <2>6. TypeOK'
    BY <1>3, <2>1 DEF Notify, TypeOK, ScopeTypeOK, StackType, sourceVars, lockedVars, utilsVars, TopIs
  <2> QED BY <2>4, <2>6
<1>4. ASSUME NotifyEnd(t) PROVE TypeAfter
  <2>1. /\ TopIs(t, F, {"notify"}) /\ StackType'
        /\ \/ F.of \notin Foreign /\ Changes({F}, {[F EXCEPT !.step = "finish"]})
           \/ Changes({F}, {})
    BY <1>4, CancelShapes
  <2>2. F.of \notin Foreign => FrameFits([F EXCEPT !.step = "finish"])
    BY <2>1, TokensAssumption, UtilsAssumption DEF TopIs, Frames, FrameFits
  <2>3. (\A s \in Scopes : beforeScopeResources[s] # {} => s = Root)'
    BY <1>4 DEF NotifyEnd, lockedVars, FramesFit
  <2>4. FramesFit'
    BY <2>1, <2>2, <2>3, FitChanges
  <2>6. TypeOK'
    BY <1>4, <2>1 DEF NotifyEnd, TypeOK, ScopeTypeOK, StackType, sourceVars, lockedVars, utilsVars, TopIs
  <2> QED BY <2>4, <2>6
<1>5. ASSUME FinishCancellation(t) PROVE TypeAfter
  <2>1. TopIs(t, F, {"finish"}) /\ StackType' /\ F.of \in Scopes
    BY <1>5, CancelShapes DEF TopIs, ScopeSteps
  <2>2. \/ /\ Changes({F}, {[F EXCEPT !.held = registrations[F.of], !.step = "before",
                                          !.children = beforeScopeResources[F.of]]})
           /\ beforeScopeResources[F.of] # {} => F.of = Root
        \/ Changes({F}, {[F EXCEPT !.held = registrations[F.of], !.step = "unregister"]})
    BY <1>5, <2>1, CancelShapes DEF FramesFit
  <2>5. /\ FrameFits([F EXCEPT !.held = registrations[F.of], !.step = "unregister"])
        /\ (beforeScopeResources[F.of] # {} => F.of = Root) =>
             FrameFits([F EXCEPT !.held = registrations[F.of], !.step = "before",
                                 !.children = beforeScopeResources[F.of]])
    BY <2>1, TokensAssumption, UtilsAssumption DEF TopIs, Frames, FrameFits
  <2>3. (\A s \in Scopes : beforeScopeResources[s] # {} => s = Root)'
    BY <1>5, <2>1 DEF FinishCancellation, FramesFit, TypeOK, ScopeTypeOK
  <2>4. FramesFit'
    BY <2>2, <2>3, <2>5, FitChanges
  <2>8. F.of \in Scopes /\ F.held \subseteq Tokens /\ F.children \subseteq Scopes
    BY <2>1 DEF TopIs
  <2>9. isCancellationInProgress' \in [Scopes -> BOOLEAN]
    BY <1>5, <2>8 DEF FinishCancellation, TypeOK, ScopeTypeOK, TakeRegistrations, lockedVars
  <2>10. disposeAfterCancellation' \in [Scopes -> BOOLEAN]
    BY <1>5, <2>8 DEF FinishCancellation, TypeOK, ScopeTypeOK, TakeRegistrations, lockedVars
  <2>11. registrations' \in [Scopes -> SUBSET Tokens]
    BY <1>5, <2>8 DEF FinishCancellation, TypeOK, ScopeTypeOK, TakeRegistrations, lockedVars
  <2>12. mergedTokens' \in [Scopes -> SUBSET Tokens]
    BY <1>5, <2>8 DEF FinishCancellation, TypeOK, ScopeTypeOK, TakeRegistrations, lockedVars
  <2>13. beforeScopeResources' \in [Scopes -> SUBSET Scopes]
    BY <1>5, <2>8 DEF FinishCancellation, TypeOK, ScopeTypeOK, TakeRegistrations, lockedVars
  <2>6. TypeOK'
    BY <1>5, <2>1, <2>9, <2>10, <2>11, <2>12, <2>13 DEF FinishCancellation, TakeRegistrations, TypeOK, ScopeTypeOK, StackType, sourceVars, lockedVars, utilsVars
  <2> QED BY <2>4, <2>6
<1>6. ASSUME Unregister(t) PROVE TypeAfter
  <2>1. TopIs(t, F, {"unregister"}) /\ StackType' /\ F.of \in Scopes
    BY <1>6, CancelShapes DEF TopIs, ScopeSteps
  <2>2. PICK f : Changes({F}, {f}) /\ \E k : f = [F EXCEPT !.held = @ \ {k}]
    <3>1. \E k : Become(t, [F EXCEPT !.held = @ \ {k}])
      BY <1>6 DEF Unregister
    <3> QED BY <1>6, <3>1, CancelShapes
  <2>5. FrameFits(f)
    BY <2>1, <2>2, TokensAssumption, UtilsAssumption DEF TopIs, Frames, FrameFits
  <2>3. (\A s \in Scopes : beforeScopeResources[s] # {} => s = Root)'
    BY <1>6 DEF Unregister, lockedVars, FramesFit
  <2>7. Changes({F}, {f})
    BY <2>2
  <2>4. FramesFit'
    BY <2>3, <2>5, <2>7, FitChanges
  <2>6. TypeOK'
    BY <1>6, <2>1 DEF Unregister, TypeOK, ScopeTypeOK, StackType, sourceVars, lockedVars, utilsVars, TopIs
  <2> QED BY <2>4, <2>6
<1>7. ASSUME CancelEnd(t) PROVE TypeAfter
  <2>1. /\ TopIs(t, F, {"unregister"}) /\ StackType' /\ F.of \in Scopes
        /\ Changes({F}, {})
    BY <1>7, CancelShapes DEF TopIs, ScopeSteps
  <2>3. (\A s \in Scopes : beforeScopeResources[s] # {} => s = Root)'
    BY <1>7 DEF CancelEnd, lockedVars, FramesFit
  <2>4. FramesFit'
    BY <2>1, <2>3, FitChanges
  <2>6. TypeOK'
    BY <1>7, <2>1 DEF CancelEnd, TypeOK, ScopeTypeOK, StackType, sourceVars, lockedVars, utilsVars, TopIs
  <2> QED BY <2>4, <2>6
<1> QED BY <1>1, <1>2, <1>3, <1>4, <1>5, <1>6, <1>7

LEMMA MergeTypes ==
  ASSUME TypeOK, FramesFit, NEW t \in Threads, UNCHANGED utilsVars
  PROVE  /\ MergeBegin(t) => TypeAfter
         /\ Register(t) => TypeAfter
         /\ Accept(t) => TypeAfter
         /\ DisposeRegistration(t) => TypeAfter
         /\ DropEnd(t) => TypeAfter
<1> PICK F : F = Head(stack[t])
  OBVIOUS
<1> USE DEF Me, Held, Children, TypeAfter
<1>1. ASSUME MergeBegin(t) PROVE TypeAfter
  <2>1. /\ TopIs(t, F, {"merge"}) /\ StackType' /\ F.of \in Scopes
        /\ Changes({F}, {[F EXCEPT !.step = "register"]}) \/ Changes({F}, {})
    BY <1>1, MergeShapes DEF TopIs, ScopeSteps, MergeBegin
  <2>2. FrameFits([F EXCEPT !.step = "register"])
    BY <1>1, <2>1, TokensAssumption, UtilsAssumption DEF TopIs, Frames, FrameFits
  <2>3. (\A s \in Scopes : beforeScopeResources[s] # {} => s = Root)'
    BY <1>1 DEF MergeBegin, lockedVars, FramesFit
  <2>4. FramesFit'
    BY <2>1, <2>2, <2>3, FitChanges
  <2>8. F.of \in Scopes /\ F.held \subseteq Tokens /\ F.children \subseteq Scopes
    BY <2>1 DEF TopIs
  <2>11. PICK k \in F.held :
           \/ UNCHANGED <<mergedTokens, observed>>
           \/ /\ mergedTokens' = [mergedTokens EXCEPT ![F.of] = @ \cup {k}]
              /\ observed' = [observed EXCEPT ![F.of] = @ \cup {k}]
    BY <1>1 DEF MergeBegin
  <2>12. k \in Tokens
    BY <2>8, <2>11
  <2>13. mergedTokens \in [Scopes -> SUBSET Tokens] /\ observed \in [Scopes -> SUBSET Tokens]
    BY DEF TypeOK, ScopeTypeOK
  <2>14. \A m \in [Scopes -> SUBSET Tokens] : [m EXCEPT ![F.of] = @ \cup {k}] \in [Scopes -> SUBSET Tokens]
    BY <2>8, <2>12
  <2>9. mergedTokens' \in [Scopes -> SUBSET Tokens]
    BY <2>11, <2>13, <2>14
  <2>10. observed' \in [Scopes -> SUBSET Tokens]
    BY <2>11, <2>13, <2>14
  <2>6. TypeOK'
    BY <1>1, <2>1, <2>9, <2>10 DEF MergeBegin, TakeRegistrations, TypeOK, ScopeTypeOK, StackType, sourceVars, lockedVars, utilsVars
  <2> QED BY <2>4, <2>6
<1>2. ASSUME Register(t) PROVE TypeAfter
  <2>1. TopIs(t, F, {"register"}) /\ StackType' /\ F.of \in Scopes
    BY <1>2, MergeShapes DEF TopIs, ScopeSteps
  <2>2. PICK new : /\ new \in SUBSET {[F EXCEPT !.step = "accept", !.held = {}],
                                     Frame("cancel", F.of), [F EXCEPT !.step = "accept"]}
                   /\ Changes({F}, new)
    <3>1. \E k : k \in F.held
      BY <2>1 DEF TopIs, FrameFits
    <3> QED BY <1>2, <3>1, MergeShapes
  <2>7. /\ FrameFits([F EXCEPT !.step = "accept", !.held = {}])
        /\ FrameFits(Frame("cancel", F.of)) /\ FrameFits([F EXCEPT !.step = "accept"])
    BY <2>1, TokensAssumption, UtilsAssumption DEF TopIs, Frames, FrameFits, Frame
  <2>5. \A x \in new : FrameFits(x)
    BY <2>2, <2>7
  <2>3. (\A s \in Scopes : beforeScopeResources[s] # {} => s = Root)'
    BY <1>2 DEF Register, lockedVars, FramesFit
  <2>4. FramesFit'
    BY <2>2, <2>3, <2>5, FitChanges
  <2>6. TypeOK'
    BY <1>2, <2>1, SMTT(30)
    DEF Register, TypeOK, ScopeTypeOK, StackType, sourceVars, lockedVars, utilsVars, TopIs
  <2> QED BY <2>4, <2>6
<1>3. ASSUME Accept(t) PROVE TypeAfter
  <2>1. /\ TopIs(t, F, {"accept"}) /\ StackType' /\ F.of \in Scopes
        /\ Changes({F}, {[F EXCEPT !.step = "drop"]}) \/ Changes({F}, {})
    BY <1>3, MergeShapes DEF TopIs, ScopeSteps
  <2>2. FrameFits([F EXCEPT !.step = "drop"])
    BY <1>3, <2>1, TokensAssumption, UtilsAssumption DEF TopIs, Frames, FrameFits
  <2>3. (\A s \in Scopes : beforeScopeResources[s] # {} => s = Root)'
    BY <1>3 DEF Accept, lockedVars, FramesFit
  <2>4. FramesFit'
    BY <2>1, <2>2, <2>3, FitChanges
  <2>8. F.of \in Scopes /\ F.held \subseteq Tokens /\ F.children \subseteq Scopes
    BY <2>1 DEF TopIs
  <2>7. \/ registrations' = registrations
        \/ registrations' = [registrations EXCEPT ![F.of] = @ \cup F.held]
    BY <1>3 DEF Accept
  <2>9. registrations' \in [Scopes -> SUBSET Tokens]
    BY <2>7, <2>8 DEF TypeOK, ScopeTypeOK
  <2>10. mergedTokens' \in [Scopes -> SUBSET Tokens]
    BY <1>3, <2>8 DEF Accept, TypeOK, ScopeTypeOK, TakeRegistrations, lockedVars
  <2>6. TypeOK'
    BY <1>3, <2>1, <2>9, <2>10 DEF Accept, TakeRegistrations, TypeOK, ScopeTypeOK, StackType, sourceVars, lockedVars, utilsVars
  <2> QED BY <2>4, <2>6
<1>4. ASSUME DisposeRegistration(t) PROVE TypeAfter
  <2>1. TopIs(t, F, {"drop", "registrations"}) /\ StackType' /\ F.of \in Scopes
    BY <1>4, MergeShapes DEF TopIs, ScopeSteps
  <2>2. PICK f : Changes({F}, {f}) /\ \E k : f = [F EXCEPT !.held = @ \ {k}]
    <3>1. \E k : Become(t, [F EXCEPT !.held = @ \ {k}])
      BY <1>4 DEF DisposeRegistration
    <3> QED BY <1>4, <3>1, MergeShapes
  <2>5. FrameFits(f)
    BY <2>1, <2>2, TokensAssumption, UtilsAssumption DEF TopIs, Frames, FrameFits
  <2>3. (\A s \in Scopes : beforeScopeResources[s] # {} => s = Root)'
    BY <1>4 DEF DisposeRegistration, lockedVars, FramesFit
  <2>7. Changes({F}, {f})
    BY <2>2
  <2>4. FramesFit'
    BY <2>3, <2>5, <2>7, FitChanges
  <2>6. TypeOK'
    BY <1>4, <2>1 DEF DisposeRegistration, TypeOK, ScopeTypeOK, StackType, sourceVars, lockedVars, utilsVars, TopIs
  <2> QED BY <2>4, <2>6
<1>5. ASSUME DropEnd(t) PROVE TypeAfter
  <2>1. /\ TopIs(t, F, {"drop"}) /\ StackType' /\ F.of \in Scopes
        /\ Changes({F}, {})
    BY <1>5, MergeShapes DEF TopIs, ScopeSteps
  <2>3. (\A s \in Scopes : beforeScopeResources[s] # {} => s = Root)'
    BY <1>5 DEF DropEnd, lockedVars, FramesFit
  <2>4. FramesFit'
    BY <2>1, <2>3, FitChanges
  <2>6. TypeOK'
    BY <1>5, <2>1 DEF DropEnd, TypeOK, ScopeTypeOK, StackType, sourceVars, lockedVars, utilsVars, TopIs
  <2> QED BY <2>4, <2>6
<1> QED BY <1>1, <1>2, <1>3, <1>4, <1>5

LEMMA ReleaseTypes ==
  ASSUME TypeOK, FramesFit, NEW t \in Threads, UNCHANGED utilsVars
  PROVE  /\ ReleaseResources(t) => TypeAfter
         /\ ReleaseChild(t) => TypeAfter
         /\ ChildrenReleased(t) => TypeAfter
         /\ DisposeSource(t) => TypeAfter
<1> PICK F : F = Head(stack[t])
  OBVIOUS
<1> USE DEF Me, Held, Children, TypeAfter
<1>1. ASSUME ReleaseResources(t) PROVE TypeAfter
  <2>1. /\ TopIs(t, F, {"release"}) /\ StackType' /\ F.of \in Scopes
        /\ Changes({F}, {[F EXCEPT !.held = registrations[F.of], !.step = "before"]})
           \/ Changes({F}, {})
    BY <1>1, ReleaseShapes DEF TopIs, ScopeSteps
  <2>2. FrameFits([F EXCEPT !.held = registrations[F.of], !.step = "before"])
    BY <2>1, TokensAssumption, UtilsAssumption DEF TopIs, Frames, FrameFits
  <2>3. (\A s \in Scopes : beforeScopeResources[s] # {} => s = Root)'
    BY <1>1, <2>1 DEF ReleaseResources, TopIs, FrameFits, FramesFit, TypeOK, ScopeTypeOK,
                        lockedVars
  <2>4. FramesFit'
    BY <2>1, <2>2, <2>3, FitChanges
  <2>8. F.of \in Scopes /\ F.held \subseteq Tokens /\ F.children \subseteq Scopes
    BY <2>1 DEF TopIs
  <2>9. isDisposed' \in [Scopes -> BOOLEAN]
    BY <1>1, <2>8 DEF ReleaseResources, TypeOK, ScopeTypeOK, TakeRegistrations, lockedVars
  <2>10. disposeAfterCancellation' \in [Scopes -> BOOLEAN]
    BY <1>1, <2>8 DEF ReleaseResources, TypeOK, ScopeTypeOK, TakeRegistrations, lockedVars
  <2>11. beforeScopeResources' \in [Scopes -> SUBSET Scopes]
    BY <1>1, <2>8 DEF ReleaseResources, TypeOK, ScopeTypeOK, TakeRegistrations, lockedVars
  <2>12. mergedTokens' \in [Scopes -> SUBSET Tokens]
    BY <1>1, <2>8 DEF ReleaseResources, TypeOK, ScopeTypeOK, TakeRegistrations, lockedVars
  <2>13. registrations' \in [Scopes -> SUBSET Tokens]
    BY <1>1, <2>8 DEF ReleaseResources, TypeOK, ScopeTypeOK, TakeRegistrations, lockedVars
  <2>6. TypeOK'
    BY <1>1, <2>1, <2>9, <2>10, <2>11, <2>12, <2>13 DEF ReleaseResources, TakeRegistrations, TypeOK, ScopeTypeOK, StackType, sourceVars, lockedVars, utilsVars
  <2> QED BY <2>4, <2>6
<1>2. ASSUME ReleaseChild(t) PROVE TypeAfter
  <2>1. TopIs(t, F, {"before"}) /\ StackType' /\ F.of \in Scopes /\ F.children \subseteq Scopes
    BY <1>2, ReleaseShapes DEF TopIs, ScopeSteps, Frames
  <2>2. PICK c \in F.children :
          Changes({F}, {[F EXCEPT !.children = @ \ {c}], Frame("release", c)})
    BY <1>2, ReleaseShapes
  <2>5. FrameFits([F EXCEPT !.children = @ \ {c}]) /\ FrameFits(Frame("release", c))
    BY <2>1, TokensAssumption, UtilsAssumption DEF TopIs, Frames, FrameFits, Frame
  <2>3. (\A s \in Scopes : beforeScopeResources[s] # {} => s = Root)'
    BY <1>2 DEF ReleaseChild, lockedVars, FramesFit
  <2>4. FramesFit'
    BY <2>2, <2>3, <2>5, FitChanges
  <2>6. TypeOK'
    BY <1>2, <2>1 DEF ReleaseChild, TypeOK, ScopeTypeOK, StackType, sourceVars, lockedVars, utilsVars, TopIs
  <2> QED BY <2>4, <2>6
<1>3. ASSUME ChildrenReleased(t) PROVE TypeAfter
  <2>1. /\ TopIs(t, F, {"before"}) /\ StackType' /\ F.of \in Scopes
        /\ Changes({F}, {[F EXCEPT !.step = "registrations"]})
    BY <1>3, ReleaseShapes DEF TopIs, ScopeSteps
  <2>2. FrameFits([F EXCEPT !.step = "registrations"])
    BY <1>3, <2>1, TokensAssumption, UtilsAssumption DEF TopIs, Frames, FrameFits, ChildrenReleased, At, Children
  <2>3. (\A s \in Scopes : beforeScopeResources[s] # {} => s = Root)'
    BY <1>3 DEF ChildrenReleased, lockedVars, FramesFit
  <2>4. FramesFit'
    BY <2>1, <2>2, <2>3, FitChanges
  <2>6. TypeOK'
    BY <1>3, <2>1 DEF ChildrenReleased, TypeOK, ScopeTypeOK, StackType, sourceVars, lockedVars, utilsVars, TopIs
  <2> QED BY <2>4, <2>6
<1>4. ASSUME DisposeSource(t) PROVE TypeAfter
  <2>1. /\ TopIs(t, F, {"registrations"}) /\ StackType' /\ F.of \in Scopes
        /\ Changes({F}, {})
    BY <1>4, ReleaseShapes DEF TopIs, ScopeSteps
  <2>3. (\A s \in Scopes : beforeScopeResources[s] # {} => s = Root)'
    BY <1>4 DEF DisposeSource, lockedVars, FramesFit
  <2>4. FramesFit'
    BY <2>1, <2>3, FitChanges
  <2>6. TypeOK'
    BY <1>4, <2>1 DEF DisposeSource, TypeOK, ScopeTypeOK, StackType, sourceVars, lockedVars, utilsVars, TopIs
  <2> QED BY <2>4, <2>6
<1> QED BY <1>1, <1>2, <1>3, <1>4

LEMMA UtilsTypes ==
  ASSUME TypeOK, FramesFit, NEW t \in Threads
  PROVE  /\ GetOrCreateScope(t) => TypeAfter
         /\ AddScope(t) => TypeAfter
         /\ Dispose(t) => TypeAfter
<1> PICK F : F = Head(stack[t])
  OBVIOUS
<1> USE DEF Me, Held, Children, TypeAfter
<1>1. ASSUME GetOrCreateScope(t) PROVE TypeAfter
  <2>1. /\ TopIs(t, F, {"get"}) /\ StackType' /\ F.of \in Keys
        /\ \/ Changes({F}, {})
           \/ Changes({F}, {Frame("add", F.of), [Frame("merge", F.of) EXCEPT !.held = {Root}]})
    BY <1>1, UtilsShapes DEF TopIs, FrameFits
  <2>2. /\ FrameFits(Frame("add", F.of))
        /\ FrameFits([Frame("merge", F.of) EXCEPT !.held = {Root}])
    BY <2>1, TokensAssumption, UtilsAssumption DEF FrameFits, Frame, Keys, Tokens
  <2>3. (\A s \in Scopes : beforeScopeResources[s] # {} => s = Root)'
    BY <1>1 DEF GetOrCreateScope, lockedVars, FramesFit
  <2>4. FramesFit'
    BY <2>1, <2>2, <2>3, FitChanges
  <2>6. TypeOK'
    BY <1>1, <2>1 DEF GetOrCreateScope, TypeOK, ScopeTypeOK, StackType, sourceVars, lockedVars, utilsVars, TopIs
  <2> QED BY <2>4, <2>6
<1>2. ASSUME AddScope(t) PROVE TypeAfter
  <2>1. /\ TopIs(t, F, {"add"}) /\ StackType' /\ F.of \in Scopes
        /\ Changes({F}, {})
    BY <1>2, UtilsShapes DEF TopIs, ScopeSteps
  <2>3. (\A s \in Scopes : beforeScopeResources[s] # {} => s = Root)'
    BY <1>2 DEF AddScope, lockedVars, FramesFit
  <2>4. FramesFit'
    BY <2>1, <2>3, FitChanges
  <2>6. TypeOK'
    BY <1>2, <2>1 DEF AddScope, FrameFits, TypeOK, ScopeTypeOK, StackType, sourceVars, lockedVars, utilsVars, TopIs
  <2> QED BY <2>4, <2>6
<1>3. ASSUME Dispose(t) PROVE TypeAfter
  <2>1. /\ TopIs(t, F, {"dispose"}) /\ StackType'
        /\ \/ Changes({F}, {})
           \/ Changes({F}, {[Frame("release", Root) EXCEPT !.children = keyedScopes]})
    BY <1>3, UtilsShapes
  <2>2. FrameFits([Frame("release", Root) EXCEPT !.children = keyedScopes])
    BY TokensAssumption, UtilsAssumption DEF FrameFits, Frame
  <2>3. (\A s \in Scopes : beforeScopeResources[s] # {} => s = Root)'
    BY <1>3 DEF Dispose, lockedVars, FramesFit
  <2>4. FramesFit'
    BY <2>1, <2>2, <2>3, FitChanges
  <2>6. TypeOK'
    BY <1>3, <2>1 DEF Dispose, TypeOK, ScopeTypeOK, StackType, sourceVars, lockedVars, utilsVars, TopIs
  <2> QED BY <2>4, <2>6
<1> QED BY <1>1, <1>2, <1>3

(* The frames that users' calls start with.                                *)
CallFrame(f) ==
  /\ f.step \in {"signal", "cancel", "merge", "get", "dispose"}
  /\ f.step = "signal" => f.of \in Foreign
  /\ f.step \in {"cancel", "merge"} => f.of \in known
  /\ f.step = "get" => f.of \in Keys
  /\ f.step = "merge" => \E k \in Tokens : f.held = {k}
  /\ f.step = "dispose" => f.of = Root
  /\ f.children = {}

LEMMA CallShape ==
  ASSUME TypeOK, FramesFit, NEW t \in Threads, Call(t)
  PROVE  \E f \in Frames :
           /\ CallFrame(f) /\ CallFrom(t, f)
           /\ StackType' /\ Changes({}, {f})
           /\ f.step \in {"cancel", "signal"} => asked' = asked \cup {f.of}
           /\ f.step \notin {"cancel", "signal"} => asked' = asked
<1>1. known \subseteq Scopes
  BY DEF TypeOK
<1>2. \A f \in Frames : CallFrom(t, f) => StackType' /\ Changes({}, {f})
  BY UtilsShapes
<1>3. ASSUME CallCancel(t)
      PROVE  \E f \in Frames : /\ CallFrame(f) /\ CallFrom(t, f)
                               /\ f.step \in {"cancel", "signal"}
                               /\ asked' = asked \cup {f.of}
  <2>1. PICK k \in known \cup Foreign :
          /\ CallFrom(t, Frame(IF k \in Foreign THEN "signal" ELSE "cancel", k))
          /\ asked' = asked \cup {k}
    BY <1>3 DEF CallCancel
  <2>2. PICK f : f = Frame(IF k \in Foreign THEN "signal" ELSE "cancel", k)
    OBVIOUS
  <2>3. CASE k \in Foreign
    <3>1. f = Frame("signal", k)
      BY <2>2, <2>3
    <3>2. f \in Frames /\ CallFrame(f) /\ f.step = "signal" /\ f.of = k
      BY <2>3, <3>1 DEF Frames, Frame, CallFrame, Tokens
    <3> QED BY <2>1, <2>2, <3>2
  <2>4. CASE k \notin Foreign
    <3>1. f = Frame("cancel", k) /\ k \in known
      BY <2>1, <2>2, <2>4
    <3>2. f \in Frames /\ CallFrame(f) /\ f.step = "cancel" /\ f.of = k
      BY <1>1, <3>1 DEF Frames, Frame, CallFrame, Tokens
    <3> QED BY <2>1, <2>2, <3>2
  <2> QED BY <2>3, <2>4
<1>4. ASSUME CallMerge(t)
      PROVE  \E f \in Frames : /\ CallFrame(f) /\ CallFrom(t, f)
                               /\ f.step = "merge" /\ asked' = asked
  <2>1. PICK s \in known : \E k \in known \cup Foreign :
          CallFrom(t, [Frame("merge", s) EXCEPT !.held = {k}]) /\ asked' = asked
    BY <1>4 DEF CallMerge
  <2>2. PICK k \in known \cup Foreign :
          CallFrom(t, [Frame("merge", s) EXCEPT !.held = {k}]) /\ asked' = asked
    BY <2>1
  <2>3. PICK f : f = [Frame("merge", s) EXCEPT !.held = {k}]
    OBVIOUS
  <2>4. k \in Tokens /\ s \in Scopes
    BY <1>1 DEF Tokens
  <2>5. f \in Frames /\ CallFrame(f) /\ f.step = "merge"
    BY <2>3, <2>4 DEF Frames, Frame, CallFrame, Tokens
  <2> QED BY <2>2, <2>3, <2>5
<1>5. ASSUME CallGetOrCreateScope(t)
      PROVE  \E f \in Frames : /\ CallFrame(f) /\ CallFrom(t, f)
                               /\ f.step = "get" /\ asked' = asked
  <2>1. PICK s \in Keys : CallFrom(t, Frame("get", s)) /\ asked' = asked
    BY <1>5 DEF CallGetOrCreateScope
  <2>2. Frame("get", s) \in Frames /\ CallFrame(Frame("get", s))
        /\ Frame("get", s).step = "get"
    BY DEF Frames, Frame, CallFrame, Tokens, Keys
  <2> QED BY <2>1, <2>2
<1>6. ASSUME CallDispose(t)
      PROVE  \E f \in Frames : /\ CallFrame(f) /\ CallFrom(t, f)
                               /\ f.step = "dispose" /\ asked' = asked
  <2>1. CallFrom(t, Frame("dispose", Root)) /\ asked' = asked
    BY <1>6 DEF CallDispose
  <2>2. Frame("dispose", Root) \in Frames
        /\ CallFrame(Frame("dispose", Root))
        /\ Frame("dispose", Root).step = "dispose"
    BY UtilsAssumption DEF Frames, Frame, CallFrame, Tokens
  <2> QED BY <2>1, <2>2
<1> QED BY <1>2, <1>3, <1>4, <1>5, <1>6 DEF Call

LEMMA CallTypes ==
  ASSUME TypeOK, FramesFit, NEW t \in Threads, Call(t)
  PROVE  TypeAfter
<1>1. PICK f \in Frames :
        /\ CallFrame(f) /\ CallFrom(t, f)
        /\ StackType' /\ Changes({}, {f})
        /\ f.step \in {"cancel", "signal"} => asked' = asked \cup {f.of}
        /\ f.step \notin {"cancel", "signal"} => asked' = asked
  BY CallShape
<1>2. FrameFits(f)
  BY <1>1, TokensAssumption, UtilsAssumption DEF CallFrame, FrameFits, TypeOK, Keys
<1>3. (\A s \in Scopes : beforeScopeResources[s] # {} => s = Root)'
  BY <1>1 DEF CallFrom, lockedVars, FramesFit
<1>4. FramesFit'
  BY <1>1, <1>2, <1>3, FitChanges
<1>5. asked' \subseteq Tokens /\ f.of \in Tokens
  BY <1>1 DEF Frames, TypeOK
<1>6. executing' \in [Tokens -> Scopes \cup {NoCallback, UserCode}]
  BY <1>1 DEF CallFrom, TypeOK, ScopeTypeOK
<1>7. calls' \in 0..MaxCalls
  BY <1>1, UtilsAssumption DEF CallFrom, TypeOK
<1>8. TypeOK'
  BY <1>1, <1>5, <1>6, <1>7 DEF CallFrom, TypeOK, ScopeTypeOK, StackType, lockedVars
<1> QED BY <1>4, <1>8 DEF TypeAfter

LEMMA StandStill ==
  ASSUME UNCHANGED vars
  PROVE  /\ UNCHANGED <<source, callbacks, executing, sourceDisposed, stack, observed>>
         /\ UNCHANGED <<mergedTokens, registrations, beforeScopeResources,
                        isCancellationInProgress, disposeAfterCancellation, isDisposed>>
         /\ UNCHANGED <<lock, keyedScopes, utilsDisposed, known, asked, calls>>
         /\ Running' = Running
BY DEF vars, scopeVars, sourceVars, lockedVars, utilsVars, Running

LEMMA TypeStep == TypeOK /\ FramesFit /\ [Next]_vars => TypeOK' /\ FramesFit'
<1> SUFFICES ASSUME TypeOK, FramesFit, [Next]_vars
             PROVE  TypeAfter
  BY DEF TypeAfter
<1>1. ASSUME NEW t \in Threads, Step(t)
      PROVE  TypeAfter
  BY <1>1, CancelTypes, MergeTypes, ReleaseTypes, UtilsTypes DEF Step, ScopeStep
<1>2. ASSUME UNCHANGED vars
      PROVE  TypeAfter
  <2>1. TypeOK'
    BY <1>2, StandStill DEF TypeOK, ScopeTypeOK
  <2>2. FramesFit'
    BY <1>2, StandStill DEF FramesFit
  <2> QED BY <2>1, <2>2 DEF TypeAfter
<1> QED BY <1>1, <1>2, CallTypes DEF Next, Rest

(* The variables keep their types: the locked state of every scope, the    *)
(* frames of the calls on every thread's stack and the counters of the      *)
(* users.                                                                  *)
THEOREM TypeCorrect == Spec => []TypeOK
<1>1. TypeOK /\ FramesFit /\ [Next]_vars => (TypeOK /\ FramesFit)'
  BY TypeStep
<1> QED BY <1>1, TypeInit, PTL DEF Spec

-----------------------------------------------------------------------------
(* The frames of scopes at the steps that an action does not touch.        *)

Alike(old, new, steps) ==
  /\ \A x \in new : x.of \in Scopes /\ x.step \in steps =>
       \E z \in old : z.of = x.of /\ z.step = x.step
  /\ \A z \in old : z.of \in Scopes /\ z.step \in steps =>
       \E x \in new : x.of = z.of /\ x.step = z.step
  /\ \A x, y \in new : /\ x.of \in Scopes /\ x.step \in steps
                       /\ y.of \in Scopes /\ y.step \in steps
                       => x = y

SameFrames(steps) ==
  /\ \A s \in Scopes : \A k \in SUBSET steps : Some(s, k)' <=> Some(s, k)
  /\ \A S \in SUBSET Scopes : Single(S, steps) => Single(S, steps)'

LEMMA SomeChanges ==
  ASSUME NEW old, NEW new, Changes(old, new), NEW s, NEW k
  PROVE  /\ Some(s, k)' => Some(s, k) \/ \E x \in new : Matches(x, {s}, k)
         /\ (\E x \in new : Matches(x, {s}, k)) => Some(s, k)'
         /\ Some(s, k) => Some(s, k)' \/ \E z \in old : Matches(z, {s}, k)
         /\ (\E z \in old : Matches(z, {s}, k)) => Some(s, k)
         /\ \A K : k \subseteq K /\ Single({s}, K) /\ (\E z \in old : Matches(z, {s}, K))
                     /\ (\A x, y \in new : Matches(x, {s}, K) /\ Matches(y, {s}, K) => x = y)
                   => (Some(s, k)' <=> \E x \in new : Matches(x, {s}, k))
<1>1. /\ Some(s, k)' => \E x \in Running' : Matches(x, {s}, k)
      /\ (\E x \in Running' : Matches(x, {s}, k)) => Some(s, k)'
  BY DEF Some, Matches
<1>2. /\ \A x \in Running' : x \in Running \/ x \in new
      /\ \A x \in new : x \in Running'
      /\ \A x \in Running : x \in Running' \/ x \in old
      /\ \A x \in old : x \in Running
  BY DEF Changes
<1>3. ASSUME NEW K, k \subseteq K, Single({s}, K), \E z \in old : Matches(z, {s}, K),
             \A x, y \in new : Matches(x, {s}, K) /\ Matches(y, {s}, K) => x = y
      PROVE  Some(s, k)' <=> \E x \in new : Matches(x, {s}, k)
  <2>1. \A x \in Running' : Matches(x, {s}, K) => x \in new
    BY <1>3 DEF Changes
  <2>2. \A x : Matches(x, {s}, k) => Matches(x, {s}, K)
    BY <1>3 DEF Matches
  <2> QED BY <1>1, <1>2, <2>1, <2>2
<1> QED BY <1>1, <1>2, <1>3 DEF Some

LEMMA AlikeFrames ==
  ASSUME NEW old, NEW new, NEW steps, Changes(old, new), Alike(old, new, steps)
  PROVE  SameFrames(steps)
<1>1. ASSUME NEW s \in Scopes, NEW k \in SUBSET steps
      PROVE  Some(s, k)' <=> Some(s, k)
  <2>1. (\E x \in new : Matches(x, {s}, k)) <=> \E z \in old : Matches(z, {s}, k)
    BY DEF Alike, Matches
  <2> QED BY <2>1, SomeChanges
<1>2. ASSUME NEW S \in SUBSET Scopes, Single(S, steps)
      PROVE  Single(S, steps)'
  <2>1. \A x, y \in new : Matches(x, S, steps) /\ Matches(y, S, steps) => x = y
    BY DEF Alike, Matches
  <2>2. /\ Single(S, steps) /\ (\A x \in new : ~Matches(x, S, steps)) => Single(S, steps)'
        /\ \A z \in old : Single(S, steps) /\ Matches(z, S, steps) => Single(S, steps)'
    BY <2>1 DEF Changes
  <2>3. (\E x \in new : Matches(x, S, steps)) => \E z \in old : Matches(z, S, steps)
    BY DEF Alike, Matches
  <2> QED BY <1>2, <2>2, <2>3
<1> QED BY <1>1, <1>2 DEF SameFrames

LEMMA OtherFrames ==
  ASSUME TypeOK, FramesFit, NEW t \in Threads, NEW steps
  PROVE  /\ TryBeginCancellation(t) /\ steps \cap {"cancel", "signal"} = {} => SameFrames(steps)
         /\ Signal(t) /\ steps \cap {"signal", "notify"} = {} => SameFrames(steps)
         /\ Notify(t) /\ steps \cap {"cancel"} = {} => SameFrames(steps)
         /\ NotifyEnd(t) /\ steps \cap {"notify", "finish"} = {} => SameFrames(steps)
         /\ FinishCancellation(t) /\ steps \cap {"finish", "before", "unregister"} = {} => SameFrames(steps)
         /\ Unregister(t) => SameFrames(steps)
         /\ CancelEnd(t) /\ steps \cap {"unregister"} = {} => SameFrames(steps)
         /\ MergeBegin(t) /\ steps \cap {"merge", "register"} = {} => SameFrames(steps)
         /\ Register(t) /\ steps \cap {"register", "accept", "cancel"} = {} => SameFrames(steps)
         /\ Accept(t) /\ steps \cap {"accept", "drop"} = {} => SameFrames(steps)
         /\ DisposeRegistration(t) => SameFrames(steps)
         /\ DropEnd(t) /\ steps \cap {"drop"} = {} => SameFrames(steps)
         /\ ReleaseResources(t) /\ steps \cap {"release", "before"} = {} => SameFrames(steps)
         /\ ReleaseChild(t) /\ steps \cap {"release"} = {} => SameFrames(steps)
         /\ ChildrenReleased(t) /\ steps \cap {"before", "registrations"} = {} => SameFrames(steps)
         /\ DisposeSource(t) /\ steps \cap {"registrations"} = {} => SameFrames(steps)
         /\ GetOrCreateScope(t) /\ steps \cap {"get", "add", "merge"} = {} => SameFrames(steps)
         /\ AddScope(t) /\ steps \cap {"add"} = {} => SameFrames(steps)
         /\ Dispose(t) /\ steps \cap {"dispose", "release"} = {} => SameFrames(steps)
         /\ Call(t) /\ steps \cap {"cancel", "merge", "get", "dispose"} = {} => SameFrames(steps)
<1> PICK F : F = Head(stack[t])
  OBVIOUS
<1>1. ASSUME TryBeginCancellation(t), steps \cap {"cancel", "signal"} = {}
      PROVE  SameFrames(steps)
  <2>1. F \in Frames /\ F.step \in {"cancel"}
    BY <1>1, CancelShapes DEF TopIs
  <2>2. Changes({F}, {[F EXCEPT !.step = "signal"]}) \/ Changes({F}, {})
    BY <1>1, CancelShapes
  <2>3. Alike({F}, {[F EXCEPT !.step = "signal"]}, steps) /\ Alike({F}, {}, steps)
    BY <1>1, <2>1 DEF Alike, Frames
  <2> QED BY <2>2, <2>3, AlikeFrames
<1>2. ASSUME Signal(t), steps \cap {"signal", "notify"} = {}
      PROVE  SameFrames(steps)
  <2>1. F \in Frames /\ F.step \in {"signal"}
    BY <1>2, CancelShapes DEF TopIs
  <2>2. Changes({F}, {[F EXCEPT !.step = "notify"]}) \/ Changes({F}, {})
    BY <1>2, CancelShapes
  <2>3. Alike({F}, {[F EXCEPT !.step = "notify"]}, steps) /\ Alike({F}, {}, steps)
    BY <1>2, <2>1 DEF Alike, Frames
  <2> QED BY <2>2, <2>3, AlikeFrames
<1>3. ASSUME Notify(t), steps \cap {"cancel"} = {}
      PROVE  SameFrames(steps)
  <2>1. F \in Frames /\ F.step \in {"notify"} /\ F.of \in Tokens
    BY <1>3, CancelShapes DEF TopIs
  <2>2. PICK s \in Scopes : Changes({F}, {F, Frame("cancel", s)})
    <3>1. callbacks[F.of] \subseteq Scopes
      BY <2>1 DEF TypeOK, ScopeTypeOK
    <3> QED BY <1>3, <3>1, CancelShapes DEF Notify, Me
  <2>3. Alike({F}, {F, Frame("cancel", s)}, steps)
    BY <1>3, <2>1 DEF Alike, Frames, Frame
  <2> QED BY <2>2, <2>3, AlikeFrames
<1>4. ASSUME NotifyEnd(t), steps \cap {"notify", "finish"} = {}
      PROVE  SameFrames(steps)
  <2>1. F \in Frames /\ F.step \in {"notify"}
    BY <1>4, CancelShapes DEF TopIs
  <2>2. Changes({F}, {[F EXCEPT !.step = "finish"]}) \/ Changes({F}, {})
    BY <1>4, CancelShapes
  <2>3. Alike({F}, {[F EXCEPT !.step = "finish"]}, steps) /\ Alike({F}, {}, steps)
    BY <1>4, <2>1 DEF Alike, Frames
  <2> QED BY <2>2, <2>3, AlikeFrames
<1>5. ASSUME FinishCancellation(t), steps \cap {"finish", "before", "unregister"} = {}
      PROVE  SameFrames(steps)
  <2>1. F \in Frames /\ F.step \in {"finish"}
    BY <1>5, CancelShapes DEF TopIs
  <2>2. PICK f : Changes({F}, {f}) /\ f.step \in {"before", "unregister"}
    BY <1>5, FinishFrame
  <2>3. Alike({F}, {f}, steps)
    BY <1>5, <2>1, <2>2 DEF Alike
  <2> QED BY <2>2, <2>3, AlikeFrames
<1>6. ASSUME Unregister(t)
      PROVE  SameFrames(steps)
  <2>2. PICK f : Changes({F}, {f}) /\ f.step = F.step /\ f.of = F.of
    BY <1>6, HeldFrame
  <2>3. Alike({F}, {f}, steps)
    BY <2>2 DEF Alike
  <2> QED BY <2>2, <2>3, AlikeFrames
<1>7. ASSUME CancelEnd(t), steps \cap {"unregister"} = {}
      PROVE  SameFrames(steps)
  <2>1. F \in Frames /\ F.step \in {"unregister"}
    BY <1>7, CancelShapes DEF TopIs
  <2>2. Changes({F}, {})
    BY <1>7, CancelShapes
  <2>3. Alike({F}, {}, steps)
    BY <1>7, <2>1 DEF Alike, Frames
  <2> QED BY <2>2, <2>3, AlikeFrames
<1>8. ASSUME MergeBegin(t), steps \cap {"merge", "register"} = {}
      PROVE  SameFrames(steps)
  <2>1. F \in Frames /\ F.step \in {"merge"} /\ FrameFits(F)
    BY <1>8, MergeShapes DEF TopIs
  <2>2. Changes({F}, {[F EXCEPT !.step = "register"]}) \/ Changes({F}, {})
    <3>1. \E k : k \in F.held
      BY <2>1 DEF FrameFits
    <3> QED BY <1>8, <3>1, MergeShapes
  <2>3. Alike({F}, {[F EXCEPT !.step = "register"]}, steps) /\ Alike({F}, {}, steps)
    BY <1>8, <2>1 DEF Alike, Frames
  <2> QED BY <2>2, <2>3, AlikeFrames
<1>9. ASSUME Register(t), steps \cap {"register", "accept", "cancel"} = {}
      PROVE  SameFrames(steps)
  <2>1. F \in Frames /\ F.step \in {"register"}
    BY <1>9, MergeShapes DEF TopIs
  <2>2. PICK f, c, k : Registers(F, f, c, k)
    BY <1>9, RegisterFrames
  <2>4. /\ Changes({F}, {f, c}) \/ Changes({F}, {f})
        /\ f.step = "accept" /\ c.step = "cancel"
    BY <2>2 DEF Registers
  <2>3. Alike({F}, {f, c}, steps) /\ Alike({F}, {f}, steps)
    BY <1>9, <2>1, <2>4 DEF Alike
  <2> QED BY <2>3, <2>4, AlikeFrames
<1>10. ASSUME Accept(t), steps \cap {"accept", "drop"} = {}
      PROVE  SameFrames(steps)
  <2>1. F \in Frames /\ F.step \in {"accept"}
    BY <1>10, MergeShapes DEF TopIs
  <2>2. Changes({F}, {[F EXCEPT !.step = "drop"]}) \/ Changes({F}, {})
    BY <1>10, MergeShapes
  <2>3. Alike({F}, {[F EXCEPT !.step = "drop"]}, steps) /\ Alike({F}, {}, steps)
    BY <1>10, <2>1 DEF Alike, Frames
  <2> QED BY <2>2, <2>3, AlikeFrames
<1>11. ASSUME DisposeRegistration(t)
      PROVE  SameFrames(steps)
  <2>2. PICK f : Changes({F}, {f}) /\ f.step = F.step /\ f.of = F.of
    BY <1>11, HeldFrame
  <2>3. Alike({F}, {f}, steps)
    BY <2>2 DEF Alike
  <2> QED BY <2>2, <2>3, AlikeFrames
<1>12. ASSUME DropEnd(t), steps \cap {"drop"} = {}
      PROVE  SameFrames(steps)
  <2>1. F \in Frames /\ F.step \in {"drop"}
    BY <1>12, MergeShapes DEF TopIs
  <2>2. Changes({F}, {})
    BY <1>12, MergeShapes
  <2>3. Alike({F}, {}, steps)
    BY <1>12, <2>1 DEF Alike, Frames
  <2> QED BY <2>2, <2>3, AlikeFrames
<1>13. ASSUME ReleaseResources(t), steps \cap {"release", "before"} = {}
      PROVE  SameFrames(steps)
  <2>1. F \in Frames /\ F.step \in {"release"}
    BY <1>13, ReleaseShapes DEF TopIs
  <2>2. \/ Changes({F}, {[F EXCEPT !.held = registrations[F.of], !.step = "before"]})
        \/ Changes({F}, {})
    BY <1>13, ReleaseShapes
  <2>3. /\ Alike({F}, {[F EXCEPT !.held = registrations[F.of], !.step = "before"]}, steps)
        /\ Alike({F}, {}, steps)
    BY <1>13, <2>1 DEF Alike, Frames
  <2> QED BY <2>2, <2>3, AlikeFrames
<1>14. ASSUME ReleaseChild(t), steps \cap {"release"} = {}
      PROVE  SameFrames(steps)
  <2>1. F \in Frames /\ F.step \in {"before"}
    BY <1>14, ReleaseShapes DEF TopIs
  <2>2. PICK c \in F.children :
          Changes({F}, {[F EXCEPT !.children = @ \ {c}], Frame("release", c)})
    BY <1>14, ReleaseShapes
  <2>3. Alike({F}, {[F EXCEPT !.children = @ \ {c}], Frame("release", c)}, steps)
    BY <1>14, <2>1 DEF Alike, Frames, Frame
  <2> QED BY <2>2, <2>3, AlikeFrames
<1>15. ASSUME ChildrenReleased(t), steps \cap {"before", "registrations"} = {}
      PROVE  SameFrames(steps)
  <2>1. F \in Frames /\ F.step \in {"before"}
    BY <1>15, ReleaseShapes DEF TopIs
  <2>2. Changes({F}, {[F EXCEPT !.step = "registrations"]})
    BY <1>15, ReleaseShapes
  <2>3. Alike({F}, {[F EXCEPT !.step = "registrations"]}, steps)
    BY <1>15, <2>1 DEF Alike, Frames
  <2> QED BY <2>2, <2>3, AlikeFrames
<1>16. ASSUME DisposeSource(t), steps \cap {"registrations"} = {}
      PROVE  SameFrames(steps)
  <2>1. F \in Frames /\ F.step \in {"registrations"}
    BY <1>16, ReleaseShapes DEF TopIs
  <2>2. Changes({F}, {})
    BY <1>16, ReleaseShapes
  <2>3. Alike({F}, {}, steps)
    BY <1>16, <2>1 DEF Alike, Frames
  <2> QED BY <2>2, <2>3, AlikeFrames
<1>17. ASSUME GetOrCreateScope(t), steps \cap {"get", "add", "merge"} = {}
      PROVE  SameFrames(steps)
  <2>1. F \in Frames /\ F.step \in {"get"}
    BY <1>17, UtilsShapes DEF TopIs
  <2>2. \/ Changes({F}, {})
        \/ Changes({F}, {Frame("add", F.of), [Frame("merge", F.of) EXCEPT !.held = {Root}]})
    BY <1>17, UtilsShapes
  <2>3. /\ Alike({F}, {}, steps)
        /\ Alike({F}, {Frame("add", F.of), [Frame("merge", F.of) EXCEPT !.held = {Root}]}, steps)
    BY <1>17, <2>1 DEF Alike, Frame
  <2> QED BY <2>2, <2>3, AlikeFrames
<1>18. ASSUME AddScope(t), steps \cap {"add"} = {}
      PROVE  SameFrames(steps)
  <2>1. F \in Frames /\ F.step \in {"add"}
    BY <1>18, UtilsShapes DEF TopIs
  <2>2. Changes({F}, {})
    BY <1>18, UtilsShapes
  <2>3. Alike({F}, {}, steps)
    BY <1>18, <2>1 DEF Alike, Frames
  <2> QED BY <2>2, <2>3, AlikeFrames
<1>19. ASSUME Dispose(t), steps \cap {"dispose", "release"} = {}
      PROVE  SameFrames(steps)
  <2>1. F \in Frames /\ F.step \in {"dispose"}
    BY <1>19, UtilsShapes DEF TopIs
  <2>2. \/ Changes({F}, {})
        \/ Changes({F}, {[Frame("release", Root) EXCEPT !.children = keyedScopes]})
    BY <1>19, UtilsShapes
  <2>3. /\ Alike({F}, {}, steps)
        /\ Alike({F}, {[Frame("release", Root) EXCEPT !.children = keyedScopes]}, steps)
    BY <1>19, <2>1 DEF Alike, Frame
  <2> QED BY <2>2, <2>3, AlikeFrames
<1>20. ASSUME Call(t), steps \cap {"cancel", "merge", "get", "dispose"} = {}
      PROVE  SameFrames(steps)
  <2>1. PICK f \in Frames : CallFrame(f) /\ Changes({}, {f})
    BY <1>20, CallShape
  <2>2. Alike({}, {f}, steps)
    BY <1>20, <2>1, TokensAssumption DEF Alike, CallFrame
  <2> QED BY <2>1, <2>2, AlikeFrames
<1> QED BY <1>1, <1>2, <1>3, <1>4, <1>5, <1>6, <1>7, <1>8, <1>9, <1>10, <1>11, <1>12, <1>13, <1>14, <1>15, <1>16, <1>17, <1>18, <1>19, <1>20

LEMMA SingleFrame ==
  ASSUME StackType, NEW S, NEW K, Single(S, K), NEW x \in Running, NEW y \in Running,
         Matches(x, S, K), Matches(y, S, K)
  PROVE  x = y
<1>1. PICK u \in Threads : \E d \in Heights(u) : x = FrameAt(u, d)
  BY RunningAt
<1>2. PICK v \in Threads : \E e \in Heights(v) : y = FrameAt(v, e)
  BY RunningAt
<1>3. PICK d \in Heights(u) : x = FrameAt(u, d)
  BY <1>1
<1>4. PICK e \in Heights(v) : y = FrameAt(v, e)
  BY <1>2
<1> QED BY <1>3, <1>4 DEF Single

(* The frames of one scope: none of them moves, the only one gives way, or  *)
(* there was none.                                                         *)
LEMMA FramesOfOthers ==
  ASSUME NEW old, NEW new, Changes(old, new), NEW s, \A x \in old \cup new : x.of # s
  PROVE  /\ \A k : Some(s, k)' <=> Some(s, k)
         /\ \A K : Single({s}, K) => Single({s}, K)'
<1>1. \A K : \A x \in old \cup new : ~Matches(x, {s}, K)
  BY DEF Matches
<1>2. ASSUME NEW k PROVE Some(s, k)' <=> Some(s, k)
  BY <1>1, SomeChanges
<1>3. ASSUME NEW K PROVE Single({s}, K) => Single({s}, K)'
  BY <1>1 DEF Changes
<1> QED BY <1>2, <1>3

Alone(new, s, K) ==
  \A x, y \in new : x.of = s /\ x.step \in K /\ y.of = s /\ y.step \in K => x = y

Has(new, s, k) == \E x \in new : x.of = s /\ x.step \in k

LEMMA OwnFrame ==
  ASSUME StackType, NEW F, NEW new, Changes({F}, new), NEW s, F.of = s,
         NEW K, Single({s}, K), F.step \in K,
         Alone(new, s, K)
  PROVE  /\ Single({s}, K)'
         /\ \A k \in SUBSET K : Some(s, k) <=> F.step \in k
         /\ \A k \in SUBSET K : Some(s, k)' <=> Has(new, s, k)
<1>1. Matches(F, {s}, K)
  BY DEF Matches
<1>2. \A x, y \in new : Matches(x, {s}, K) /\ Matches(y, {s}, K) => x = y
  BY DEF Matches, Alone
<1>3. Single({s}, K)'
  BY <1>1, <1>2 DEF Changes
<1>4. ASSUME NEW k \in SUBSET K
      PROVE  Some(s, k) <=> F.step \in k
  <2>1. F \in Running
    BY DEF Changes
  <2>2. ASSUME NEW x \in Running, Matches(x, {s}, k) PROVE F.step \in k
    <3>1. Matches(x, {s}, K)
      BY <2>2 DEF Matches
    <3>2. x = F
      BY <1>1, <2>1, <3>1, SingleFrame
    <3> QED BY <2>2, <3>2 DEF Matches
  <2> QED BY <2>1, <2>2 DEF Some, Matches
<1>5. ASSUME NEW k \in SUBSET K
      PROVE  Some(s, k)' <=> Has(new, s, k)
  <2>1. Some(s, k)' <=> \E x \in new : Matches(x, {s}, k)
    BY <1>1, <1>2, SomeChanges
  <2> QED BY <2>1 DEF Matches, Has
<1> QED BY <1>3, <1>4, <1>5

LEMMA FreshFrame ==
  ASSUME NEW old, NEW new, Changes(old, new), NEW s, NEW K, ~Some(s, K),
         Alone(new, s, K)
  PROVE  /\ Single({s}, K)'
         /\ \A k \in SUBSET K : Some(s, k)' <=> Has(new, s, k)
<1>1. \A x \in Running : ~Matches(x, {s}, K)
  BY DEF Some
<1>2. \A x, y \in new : Matches(x, {s}, K) /\ Matches(y, {s}, K) => x = y
  BY DEF Matches, Alone
<1>3. Single({s}, K)'
  BY <1>1, <1>2 DEF Changes
<1>4. ASSUME NEW k \in SUBSET K
      PROVE  Some(s, k)' <=> Has(new, s, k)
  <2>1. ~Some(s, k)
    BY <1>1 DEF Some, Matches
  <2>2. Some(s, k)' <=> \E x \in new : Matches(x, {s}, k)
    BY <2>1, SomeChanges
  <2> QED BY <2>2 DEF Matches, Has
<1> QED BY <1>3, <1>4

(* The same, where one frame gives way to one frame of its scope, or       *)
(* returns.                                                                *)
LEMMA OtherFrame ==
  ASSUME NEW F, NEW f, Changes({F}, {f}) \/ Changes({F}, {}), f.of = F.of, NEW s, F.of # s
  PROVE  /\ \A k : Some(s, k)' <=> Some(s, k)
         /\ \A K : Single({s}, K) => Single({s}, K)'
<1>1. (\A x \in {F} \cup {f} : x.of # s) /\ (\A x \in {F} \cup {} : x.of # s)
  OBVIOUS
<1>2. CASE Changes({F}, {f})
  BY <1>1, <1>2, FramesOfOthers
<1>3. CASE Changes({F}, {})
  BY <1>1, <1>3, FramesOfOthers
<1> QED BY <1>2, <1>3

LEMMA NextFrame ==
  ASSUME StackType, NEW F, NEW f, Changes({F}, {f}), f.of = F.of, NEW s, F.of = s,
         NEW K, Single({s}, K), F.step \in K
  PROVE  /\ Single({s}, K)'
         /\ \A k \in SUBSET K : Some(s, k) <=> F.step \in k
         /\ \A k \in SUBSET K : Some(s, k)' <=> f.step \in k
<1>1. Alone({f}, s, K)
  BY DEF Alone
<1>2. /\ Single({s}, K)'
      /\ \A k \in SUBSET K : Some(s, k) <=> F.step \in k
      /\ \A k \in SUBSET K : Some(s, k)' <=> Has({f}, s, k)
  BY <1>1, OwnFrame
<1> QED BY <1>2 DEF Has

LEMMA FirstFrame ==
  ASSUME NEW F, NEW f, Changes({F}, {f}), NEW s, f.of = s, NEW K, ~Some(s, K)
  PROVE  /\ Single({s}, K)'
         /\ \A k \in SUBSET K : Some(s, k)' <=> f.step \in k
<1>1. Alone({f}, s, K)
  BY DEF Alone
<1>2. /\ Single({s}, K)'
      /\ \A k \in SUBSET K : Some(s, k)' <=> Has({f}, s, k)
  BY <1>1, FreshFrame
<1> QED BY <1>2 DEF Has

LEMMA LastFrame ==
  ASSUME StackType, NEW F, Changes({F}, {}), NEW s, F.of = s,
         NEW K, Single({s}, K), F.step \in K
  PROVE  /\ Single({s}, K)'
         /\ \A k \in SUBSET K : Some(s, k) <=> F.step \in k
         /\ \A k \in SUBSET K : ~Some(s, k)'
<1>1. Alone({}, s, K)
  BY DEF Alone
<1>2. /\ Single({s}, K)'
      /\ \A k \in SUBSET K : Some(s, k) <=> F.step \in k
      /\ \A k \in SUBSET K : Some(s, k)' <=> Has({}, s, k)
  BY <1>1, OwnFrame
<1> QED BY <1>2 DEF Has

-----------------------------------------------------------------------------
(* Cancelling a scope.                                                     *)

LEMMA CancelSame ==
  ASSUME NEW s \in Scopes, CancelAt(s), SameFrames(Cancelling),
         source'[s] = source[s], isCancellationInProgress'[s] = isCancellationInProgress[s]
  PROVE  CancelAt(s)'
<1>1. \A k \in SUBSET Cancelling : Some(s, k)' <=> Some(s, k)
  BY DEF SameFrames
<1>2. Single({s}, Cancelling) => Single({s}, Cancelling)'
  BY DEF SameFrames
<1>3. Cancelling' = Cancelling
  BY DEF Cancelling
<1> QED BY <1>1, <1>2, <1>3 DEF CancelAt, Cancelling

LEMMA CancelOthers ==
  ASSUME NEW s \in Scopes, CancelAt(s), \A k : Some(s, k)' <=> Some(s, k),
         Single({s}, Cancelling) => Single({s}, Cancelling)',
         source'[s] = source[s], isCancellationInProgress'[s] = isCancellationInProgress[s]
  PROVE  CancelAt(s)'
BY DEF CancelAt, Cancelling

LEMMA CancelStep ==
  ASSUME TypeOK, FramesFit, CancelInv, NEW t \in Threads, Step(t) \/ Call(t)
  PROVE  CancelInv'
<1> SUFFICES ASSUME NEW s \in Scopes PROVE CancelAt(s)'
  BY DEF CancelInv
<1>1. /\ CancelAt(s) /\ s \in Tokens
      /\ source \in [Tokens -> {"live", "notifying", "canceled"}]
      /\ isCancellationInProgress \in [Scopes -> BOOLEAN]
  BY DEF CancelInv, TypeOK, ScopeTypeOK, Tokens
<1>S. StackType
  BY DEF TypeOK, ScopeTypeOK, StackType
<1>0. PICK F : F = Head(stack[t])
  OBVIOUS
<1>2. ASSUME TryBeginCancellation(t)
      PROVE  CancelAt(s)'
  <2>1. F \in Frames /\ F.step = "cancel" /\ F.of \in Scopes
    BY <1>0, <1>2, CancelShapes DEF TopIs, ScopeSteps
  <2>2. UNCHANGED source
    BY <1>2 DEF TryBeginCancellation, sourceVars
  <2>3. CASE ~CanAcceptCancellation(F.of)
    <3>1. Changes({F}, {}) /\ UNCHANGED isCancellationInProgress
      BY <1>0, <1>2, <2>3, CancelShapes DEF TryBeginCancellation, Me
    <3>2. Alike({F}, {}, Cancelling)
      BY <2>1 DEF Alike, Cancelling
    <3>3. SameFrames(Cancelling)
      BY <3>1, <3>2, AlikeFrames
    <3> QED BY <1>1, <2>2, <3>1, <3>3, CancelSame
  <2>4. CASE CanAcceptCancellation(F.of)
    <3>1. PICK f : f = [F EXCEPT !.step = "signal"]
      OBVIOUS
    <3>2. f.step = "signal" /\ f.of = F.of
      BY <2>1, <3>1 DEF Frames
    <3>3. Changes({F}, {f})
      BY <1>0, <1>2, <2>4, <3>1, CancelShapes
    <3>4. isCancellationInProgress' = [isCancellationInProgress EXCEPT ![F.of] = TRUE]
      BY <1>0, <1>2, <2>4 DEF TryBeginCancellation, Me
    <3>5. CASE s # F.of
      <4>1. isCancellationInProgress'[s] = isCancellationInProgress[s]
        BY <1>1, <3>4, <3>5
      <4>2. /\ \A k : Some(s, k)' <=> Some(s, k)
            /\ \A K : Single({s}, K) => Single({s}, K)'
        BY <1>1, <3>2, <3>3, <3>5, OtherFrame
      <4> QED BY <1>1, <2>2, <4>1, <4>2, CancelOthers
    <3>6. CASE s = F.of
      <4>1. ~isCancellationInProgress[s] /\ source[s] = "live"
        BY <2>4, <3>6 DEF CanAcceptCancellation, IsCancellationRequested
      <4>2. ~Some(s, Cancelling)
        BY <1>1, <4>1 DEF CancelAt
      <4>3. /\ Single({s}, Cancelling)'
            /\ \A k \in SUBSET Cancelling : Some(s, k)' <=> f.step \in k
        BY <1>1, <3>2, <3>3, <3>6, <4>2, FirstFrame
      <4>4. isCancellationInProgress'[s]
        BY <1>1, <3>4, <3>6
      <4> QED BY <2>2, <3>2, <4>1, <4>3, <4>4 DEF CancelAt, Cancelling
    <3> QED BY <3>5, <3>6
  <2> QED BY <2>3, <2>4
<1>3. ASSUME Signal(t)
      PROVE  CancelAt(s)'
  <2>1. F \in Frames /\ F.step = "signal" /\ F.of \in Tokens
    BY <1>0, <1>3, CancelShapes DEF TopIs
  <2>2. UNCHANGED isCancellationInProgress
    BY <1>3 DEF Signal, lockedVars
  <2>3. PICK f : f = [F EXCEPT !.step = "notify"]
    OBVIOUS
  <2>4. f.step = "notify" /\ f.of = F.of
    BY <2>1, <2>3 DEF Frames
  <2>5. \/ source[F.of] = "live" /\ Changes({F}, {f})
        \/ source[F.of] # "live" /\ Changes({F}, {})
    BY <1>0, <1>3, <2>3, CancelShapes
  <2>6. /\ source[F.of] = "live" => source' = [source EXCEPT ![F.of] = "notifying"]
        /\ source[F.of] # "live" => source' = source
    BY <1>0, <1>3 DEF Signal, Me
  <2>7. CASE s # F.of
    <3>1. source'[s] = source[s]
      BY <1>1, <2>6, <2>7
    <3>2. /\ \A k : Some(s, k)' <=> Some(s, k)
          /\ \A K : Single({s}, K) => Single({s}, K)'
      BY <1>1, <2>4, <2>5, <2>7, OtherFrame
    <3> QED BY <1>1, <2>2, <3>1, <3>2, CancelOthers
  <2>8. CASE s = F.of
    <3>1. F \in Running
      BY <2>5 DEF Changes
    <3>2. Some(s, {"signal"})
      BY <2>1, <2>8, <3>1 DEF Some, Matches
    <3>3. source[s] = "live" /\ Changes({F}, {f})
      BY <1>1, <2>5, <2>8, <3>2 DEF CancelAt
    <3>4. source'[s] = "notifying"
      BY <1>1, <2>6, <2>8, <3>3
    <3>5. Single({s}, Cancelling) /\ F.step \in Cancelling
      BY <1>1, <2>1 DEF CancelAt, Cancelling
    <3>6. /\ Single({s}, Cancelling)'
          /\ \A k \in SUBSET Cancelling : Some(s, k) <=> F.step \in k
          /\ \A k \in SUBSET Cancelling : Some(s, k)' <=> f.step \in k
      BY <1>S, <2>4, <2>8, <3>3, <3>5, NextFrame
    <3> QED BY <1>1, <2>1, <2>2, <2>4, <3>4, <3>6 DEF CancelAt, Cancelling
  <2> QED BY <2>7, <2>8
<1>4. ASSUME NotifyEnd(t)
      PROVE  CancelAt(s)'
  <2>1. F \in Frames /\ F.step = "notify" /\ F.of \in Tokens
    BY <1>0, <1>4, CancelShapes DEF TopIs
  <2>2. UNCHANGED isCancellationInProgress /\ source' = [source EXCEPT ![F.of] = "canceled"]
    BY <1>0, <1>4 DEF NotifyEnd, lockedVars, Me
  <2>3. PICK f : f = [F EXCEPT !.step = "finish"]
    OBVIOUS
  <2>4. f.step = "finish" /\ f.of = F.of
    BY <2>1, <2>3 DEF Frames
  <2>5. \/ F.of \in Foreign /\ Changes({F}, {})
        \/ F.of \notin Foreign /\ Changes({F}, {f})
    BY <1>0, <1>4, <2>3, CancelShapes
  <2>6. CASE s # F.of
    <3>1. source'[s] = source[s]
      BY <1>1, <2>2, <2>6
    <3>2. /\ \A k : Some(s, k)' <=> Some(s, k)
          /\ \A K : Single({s}, K) => Single({s}, K)'
      BY <1>1, <2>4, <2>5, <2>6, OtherFrame
    <3> QED BY <1>1, <2>2, <3>1, <3>2, CancelOthers
  <2>7. CASE s = F.of
    <3>1. Changes({F}, {f})
      BY <2>5, <2>7, TokensAssumption
    <3>2. source'[s] = "canceled"
      BY <1>1, <2>2, <2>7
    <3>3. Single({s}, Cancelling) /\ F.step \in Cancelling
      BY <1>1, <2>1 DEF CancelAt, Cancelling
    <3>4. /\ Single({s}, Cancelling)'
          /\ \A k \in SUBSET Cancelling : Some(s, k) <=> F.step \in k
          /\ \A k \in SUBSET Cancelling : Some(s, k)' <=> f.step \in k
      BY <1>S, <2>4, <2>7, <3>1, <3>3, NextFrame
    <3> QED BY <1>1, <2>1, <2>2, <2>4, <3>2, <3>4 DEF CancelAt, Cancelling
  <2> QED BY <2>6, <2>7
<1>5. ASSUME FinishCancellation(t)
      PROVE  CancelAt(s)'
  <2>1. F.step = "finish" /\ F.of \in Scopes
    BY <1>0, <1>5, FinishFrame DEF TopIs
  <2>2. /\ isCancellationInProgress' = [isCancellationInProgress EXCEPT ![F.of] = FALSE]
        /\ UNCHANGED source
    BY <1>0, <1>5 DEF FinishCancellation, sourceVars, Me
  <2>3. PICK f \in Frames : Changes({F}, {f}) /\ f.of = F.of /\ f.step \in {"before", "unregister"}
    BY <1>0, <1>5, FinishFrame
  <2>4. CASE s # F.of
    <3>1. isCancellationInProgress'[s] = isCancellationInProgress[s]
      BY <1>1, <2>2, <2>4
    <3>2. /\ \A k : Some(s, k)' <=> Some(s, k)
          /\ \A K : Single({s}, K) => Single({s}, K)'
      BY <1>1, <2>3, <2>4, OtherFrame
    <3> QED BY <1>1, <2>2, <3>1, <3>2, CancelOthers
  <2>5. CASE s = F.of
    <3>1. ~isCancellationInProgress'[s]
      BY <1>1, <2>2, <2>5
    <3>2. Single({s}, Cancelling) /\ F.step \in Cancelling
      BY <1>1, <2>1 DEF CancelAt, Cancelling
    <3>3. /\ Single({s}, Cancelling)'
          /\ \A k \in SUBSET Cancelling : Some(s, k) <=> F.step \in k
          /\ \A k \in SUBSET Cancelling : Some(s, k)' <=> f.step \in k
      BY <1>S, <2>3, <2>5, <3>2, NextFrame
    <3> QED BY <1>1, <2>1, <2>2, <2>3, <3>1, <3>3 DEF CancelAt, Cancelling
  <2> QED BY <2>4, <2>5
<1>6. ASSUME SameFrames(Cancelling), UNCHANGED <<source, isCancellationInProgress>>
      PROVE  CancelAt(s)'
  BY <1>1, <1>6, CancelSame
<1>7. ASSUME \/ Notify(t) \/ Unregister(t) \/ CancelEnd(t) \/ MergeBegin(t) \/ Register(t)
             \/ Accept(t) \/ DropEnd(t) \/ DisposeRegistration(t) \/ ReleaseResources(t)
             \/ ReleaseChild(t) \/ ChildrenReleased(t) \/ DisposeSource(t)
             \/ GetOrCreateScope(t) \/ AddScope(t) \/ Dispose(t) \/ Call(t)
      PROVE  SameFrames(Cancelling)
  BY <1>7, OtherFrames DEF Cancelling
<1>8. ASSUME Notify(t) \/ Unregister(t) \/ CancelEnd(t) \/ MergeBegin(t) \/ Register(t)
             \/ Accept(t) \/ DropEnd(t) \/ DisposeRegistration(t)
      PROVE  UNCHANGED <<source, isCancellationInProgress>>
  BY <1>8 DEF Notify, Unregister, CancelEnd, MergeBegin, Register, Accept, DropEnd,
     DisposeRegistration, sourceVars, lockedVars
<1>9. ASSUME \/ ReleaseResources(t) \/ ReleaseChild(t) \/ ChildrenReleased(t)
             \/ DisposeSource(t) \/ GetOrCreateScope(t) \/ AddScope(t) \/ Dispose(t)
      PROVE  UNCHANGED <<source, isCancellationInProgress>>
  BY <1>9 DEF ReleaseResources, ReleaseChild, ChildrenReleased, DisposeSource,
     GetOrCreateScope, AddScope, Dispose, sourceVars, lockedVars
<1>10. ASSUME Call(t)
       PROVE  UNCHANGED <<source, isCancellationInProgress>>
  BY <1>10, CallShape DEF CallFrom, lockedVars
<1> QED BY <1>2, <1>3, <1>4, <1>5, <1>6, <1>7, <1>8, <1>9, <1>10 DEF Step, ScopeStep

-----------------------------------------------------------------------------
(* Disposing a scope.                                                      *)

DisposeKept(s) ==
  /\ Some(s, Disposing)' <=> Some(s, Disposing)
  /\ Single({s}, Disposing) => Single({s}, Disposing)'
  /\ isDisposed'[s] = isDisposed[s]
  /\ isCancellationInProgress'[s] = isCancellationInProgress[s]
  /\ sourceDisposed'[s] = sourceDisposed[s]
  /\ disposeAfterCancellation'[s] = disposeAfterCancellation[s]

LEMMA DisposeSame ==
  ASSUME NEW s \in Scopes, DisposeAt(s), DisposeKept(s)
  PROVE  DisposeAt(s)'
BY DEF DisposeAt, DisposeKept, Disposing

LEMMA SameDisposing ==
  ASSUME NEW s \in Scopes, SameFrames(Disposing)
  PROVE  /\ Some(s, Disposing)' <=> Some(s, Disposing)
         /\ Single({s}, Disposing) => Single({s}, Disposing)'
BY DEF SameFrames, Disposing

LEMMA DisposeCancel ==
  ASSUME TypeOK, FramesFit, CancelInv, NEW s \in Scopes, DisposeAt(s), NEW t \in Threads
  PROVE  /\ TryBeginCancellation(t) => DisposeAt(s)'
         /\ FinishCancellation(t) => DisposeAt(s)'
<1>0. PICK F : F = Head(stack[t])
  OBVIOUS
<1>1. /\ isCancellationInProgress \in [Scopes -> BOOLEAN]
      /\ disposeAfterCancellation \in [Scopes -> BOOLEAN]
  BY DEF TypeOK, ScopeTypeOK
<1>2. ASSUME TryBeginCancellation(t)
      PROVE  DisposeAt(s)'
  <2>1. UNCHANGED <<isDisposed, sourceDisposed, disposeAfterCancellation>>
    BY <1>2 DEF TryBeginCancellation, sourceVars
  <2>2. /\ Some(s, Disposing)' <=> Some(s, Disposing)
        /\ Single({s}, Disposing) => Single({s}, Disposing)'
    BY <1>2, OtherFrames, SameDisposing DEF Disposing
  <2>3. \/ isCancellationInProgress'[s] = isCancellationInProgress[s]
        \/ ~isDisposed[s]
    <3>1. IF CanAcceptCancellation(F.of)
          THEN isCancellationInProgress' = [isCancellationInProgress EXCEPT ![F.of] = TRUE]
          ELSE UNCHANGED isCancellationInProgress
      BY <1>0, <1>2 DEF TryBeginCancellation, Me
    <3> QED BY <1>1, <3>1 DEF CanAcceptCancellation
  <2>4. CASE isCancellationInProgress'[s] = isCancellationInProgress[s]
    <3>1. DisposeKept(s)
      BY <2>1, <2>2, <2>4 DEF DisposeKept
    <3> QED BY <3>1, DisposeSame
  <2>5. CASE ~isDisposed[s]
    BY <2>1, <2>2, <2>5 DEF DisposeAt
  <2> QED BY <2>3, <2>4, <2>5
<1>3. ASSUME FinishCancellation(t)
      PROVE  DisposeAt(s)'
  <2>1. F.step = "finish" /\ F.of \in Scopes /\ F \in Running
    BY <1>0, <1>3, FinishFrame DEF TopIs
  <2>2. UNCHANGED <<isDisposed, sourceDisposed>>
    BY <1>3 DEF FinishCancellation, sourceVars
  <2>3. /\ isCancellationInProgress' = [isCancellationInProgress EXCEPT ![F.of] = FALSE]
        /\ disposeAfterCancellation' = [disposeAfterCancellation EXCEPT ![F.of] = FALSE]
    BY <1>0, <1>3 DEF FinishCancellation, Me
  <2>4. PICK f \in Frames : /\ Changes({F}, {f}) /\ f.of = F.of
                            /\ disposeAfterCancellation[F.of] => f.step = "before"
                            /\ ~disposeAfterCancellation[F.of] => f.step = "unregister"
    BY <1>0, <1>3, FinishFrame
  <2>5. Changes({F}, {f})
    BY <2>4
  <2>6. CASE s # F.of
    <3>1. f.of = F.of
      BY <2>4
    <3>2. /\ Some(s, Disposing)' <=> Some(s, Disposing)
          /\ Single({s}, Disposing) => Single({s}, Disposing)'
      BY <2>5, <2>6, <3>1, OtherFrame
    <3>3. DisposeKept(s)
      BY <1>1, <2>2, <2>3, <2>6, <3>2 DEF DisposeKept
    <3> QED BY <3>3, DisposeSame
  <2>7. CASE s = F.of
    <3>1. isCancellationInProgress[s]
      <4>1. Some(s, Cancelling)
        BY <2>1, <2>7 DEF Some, Matches, Cancelling
      <4> QED BY <4>1 DEF CancelInv, CancelAt
    <3>2. ~Some(s, Disposing) /\ ~sourceDisposed[s]
      BY <3>1 DEF DisposeAt
    <3>3. f.of = s
      BY <2>4, <2>7
    <3>4. /\ Single({s}, Disposing)'
          /\ \A k \in SUBSET Disposing : Some(s, k)' <=> f.step \in k
      BY <2>5, <3>2, <3>3, FirstFrame
    <3>5. ~isCancellationInProgress'[s] /\ ~disposeAfterCancellation'[s]
      BY <1>1, <2>1, <2>3, <2>7
    <3>6. CASE disposeAfterCancellation[s]
      <4>1. f.step = "before"
        BY <2>4, <2>7, <3>6
      <4>2. Some(s, Disposing)' /\ isDisposed[s]
        BY <3>4, <3>6, <4>1 DEF Disposing, DisposeAt
      <4> QED BY <2>2, <3>2, <3>4, <3>5, <4>2 DEF DisposeAt, Disposing
    <3>7. CASE ~disposeAfterCancellation[s]
      <4>1. f.step = "unregister"
        BY <2>4, <2>7, <3>7
      <4>2. ~Some(s, Disposing)' /\ ~isDisposed[s]
        BY <3>2, <3>4, <3>7, <4>1 DEF Disposing, DisposeAt
      <4> QED BY <2>2, <3>2, <3>4, <3>5, <4>2 DEF DisposeAt, Disposing
    <3> QED BY <3>6, <3>7
  <2> QED BY <2>6, <2>7
<1> QED BY <1>2, <1>3

LEMMA DisposeRelease ==
  ASSUME TypeOK, FramesFit, NEW s \in Scopes, DisposeAt(s), NEW t \in Threads
  PROVE  /\ ReleaseResources(t) => DisposeAt(s)'
         /\ ChildrenReleased(t) => DisposeAt(s)'
         /\ DisposeSource(t) => DisposeAt(s)'
<1>0. PICK F : F = Head(stack[t])
  OBVIOUS
<1>S. StackType
  BY DEF TypeOK, ScopeTypeOK, StackType
<1>1. /\ isDisposed \in [Scopes -> BOOLEAN]
      /\ disposeAfterCancellation \in [Scopes -> BOOLEAN]
      /\ sourceDisposed \in [Scopes -> BOOLEAN]
  BY DEF TypeOK, ScopeTypeOK
<1>2. ASSUME ReleaseResources(t)
      PROVE  DisposeAt(s)'
  <2>1. F \in Frames /\ F.step = "release" /\ F.of \in Scopes
    BY <1>0, <1>2, ReleaseShapes DEF TopIs, ScopeSteps
  <2>2. UNCHANGED <<sourceDisposed, isCancellationInProgress>>
    BY <1>2 DEF ReleaseResources, sourceVars, lockedVars
  <2>3. PICK f : f = [F EXCEPT !.held = registrations[F.of], !.step = "before"]
    OBVIOUS
  <2>4. f.of = F.of /\ f.step = "before"
    BY <2>1, <2>3 DEF Frames
  <2>5. \/ /\ isDisposed[F.of] /\ Changes({F}, {})
           /\ UNCHANGED <<isDisposed, disposeAfterCancellation>>
        \/ /\ ~isDisposed[F.of] /\ isCancellationInProgress[F.of] /\ Changes({F}, {})
           /\ isDisposed' = [isDisposed EXCEPT ![F.of] = TRUE]
           /\ disposeAfterCancellation' = [disposeAfterCancellation EXCEPT ![F.of] = TRUE]
        \/ /\ ~isDisposed[F.of] /\ ~isCancellationInProgress[F.of] /\ Changes({F}, {f})
           /\ isDisposed' = [isDisposed EXCEPT ![F.of] = TRUE]
           /\ UNCHANGED disposeAfterCancellation
    BY <1>0, <1>2, <2>3, ReleaseShapes DEF ReleaseResources, Me, lockedVars
  <2>6. CASE s # F.of
    <3>1. Changes({F}, {f}) \/ Changes({F}, {})
      BY <2>5
    <3>2. f.of = F.of
      BY <2>4
    <3>3. /\ Some(s, Disposing)' <=> Some(s, Disposing)
          /\ Single({s}, Disposing) => Single({s}, Disposing)'
      BY <2>6, <3>1, <3>2, OtherFrame
    <3>4. /\ isDisposed'[s] = isDisposed[s]
          /\ disposeAfterCancellation'[s] = disposeAfterCancellation[s]
      BY <1>1, <2>5, <2>6
    <3>5. DisposeKept(s)
      BY <2>2, <3>3, <3>4 DEF DisposeKept
    <3> QED BY <3>5, DisposeSame
  <2>7. ASSUME Changes({F}, {})
        PROVE  /\ Some(s, Disposing)' <=> Some(s, Disposing)
               /\ Single({s}, Disposing) => Single({s}, Disposing)'
    <3>1. Alike({F}, {}, Disposing)
      BY <2>1 DEF Alike, Disposing
    <3>2. SameFrames(Disposing)
      BY <2>7, <3>1, AlikeFrames
    <3> QED BY <3>2, SameDisposing
  <2>8. CASE s = F.of /\ isDisposed[s]
    <3>1. DisposeKept(s)
      BY <2>2, <2>5, <2>7, <2>8 DEF DisposeKept
    <3> QED BY <3>1, DisposeSame
  <2>9. CASE s = F.of /\ ~isDisposed[s] /\ isCancellationInProgress[s]
    <3>1. /\ isDisposed'[s] /\ disposeAfterCancellation'[s]
          /\ Some(s, Disposing)' <=> Some(s, Disposing)
          /\ Single({s}, Disposing) => Single({s}, Disposing)'
      BY <1>1, <2>5, <2>7, <2>9
    <3> QED BY <2>2, <2>9, <3>1 DEF DisposeAt
  <2>10. CASE s = F.of /\ ~isDisposed[s] /\ ~isCancellationInProgress[s]
    <3>1. Changes({F}, {f})
      BY <2>5, <2>10
    <3>2. isDisposed'[s] /\ ~disposeAfterCancellation'[s]
      BY <1>1, <2>5, <2>10 DEF DisposeAt
    <3>3. ~Some(s, Disposing) /\ ~sourceDisposed[s]
      BY <2>10 DEF DisposeAt
    <3>4. f.of = s
      BY <2>4, <2>10
    <3>5. /\ Single({s}, Disposing)'
          /\ \A k \in SUBSET Disposing : Some(s, k)' <=> f.step \in k
      BY <3>1, <3>3, <3>4, FirstFrame
    <3>6. Some(s, Disposing)'
      BY <2>4, <3>5 DEF Disposing
    <3> QED BY <2>2, <2>10, <3>2, <3>3, <3>5, <3>6 DEF DisposeAt, Disposing
  <2> QED BY <2>6, <2>8, <2>9, <2>10
<1>3. ASSUME ChildrenReleased(t)
      PROVE  DisposeAt(s)'
  <2>1. F \in Frames /\ F.step = "before"
    BY <1>0, <1>3, ReleaseShapes DEF TopIs
  <2>2. PICK f : f = [F EXCEPT !.step = "registrations"]
    OBVIOUS
  <2>3. f.of = F.of /\ f.step = "registrations"
    BY <2>1, <2>2 DEF Frames
  <2>4. Changes({F}, {f})
    BY <1>0, <1>3, <2>2, ReleaseShapes
  <2>5. f.of = F.of
    BY <2>3
  <2>6. Single({s}, Disposing) /\ F.step \in Disposing /\ f.step \in Disposing
    BY <2>1, <2>3 DEF DisposeAt, Disposing
  <2>7. /\ Some(s, Disposing)' <=> Some(s, Disposing)
        /\ Single({s}, Disposing) => Single({s}, Disposing)'
    <3>1. CASE F.of # s
      BY <2>4, <2>5, <3>1, OtherFrame
    <3>2. CASE F.of = s
      <4>1. /\ Single({s}, Disposing)'
            /\ \A k \in SUBSET Disposing : Some(s, k) <=> F.step \in k
            /\ \A k \in SUBSET Disposing : Some(s, k)' <=> f.step \in k
        BY <1>S, <2>4, <2>5, <2>6, <3>2, NextFrame
      <4> QED BY <2>6, <4>1 DEF Disposing
    <3> QED BY <3>1, <3>2
  <2>8. UNCHANGED <<isDisposed, isCancellationInProgress, sourceDisposed,
                    disposeAfterCancellation>>
    BY <1>3 DEF ChildrenReleased, sourceVars, lockedVars
  <2>9. DisposeKept(s)
    BY <2>7, <2>8 DEF DisposeKept
  <2> QED BY <2>9, DisposeSame
<1>4. ASSUME DisposeSource(t)
      PROVE  DisposeAt(s)'
  <2>1. F \in Frames /\ F.step = "registrations" /\ F.of \in Scopes /\ F \in Running
    BY <1>0, <1>4, ReleaseShapes DEF TopIs, ScopeSteps
  <2>2. Changes({F}, {})
    BY <1>0, <1>4, ReleaseShapes
  <2>3. UNCHANGED <<isDisposed, isCancellationInProgress, disposeAfterCancellation>>
    BY <1>4 DEF DisposeSource, lockedVars
  <2>4. sourceDisposed' = [sourceDisposed EXCEPT ![F.of] = TRUE]
    BY <1>0, <1>4 DEF DisposeSource, Me
  <2>5. CASE s # F.of
    <3>1. /\ Some(s, Disposing)' <=> Some(s, Disposing)
          /\ Single({s}, Disposing) => Single({s}, Disposing)'
      <4>1. PICK f : f = F
        OBVIOUS
      <4>2. f.of = F.of
        BY <4>1
      <4> QED BY <2>2, <2>5, <4>2, OtherFrame
    <3>2. DisposeKept(s)
      BY <1>1, <2>3, <2>4, <2>5, <3>1 DEF DisposeKept
    <3> QED BY <3>2, DisposeSame
  <2>6. CASE s = F.of
    <3>1. Single({s}, Disposing) /\ F.step \in Disposing
      BY <2>1 DEF DisposeAt, Disposing
    <3>2. /\ Single({s}, Disposing)'
          /\ \A k \in SUBSET Disposing : Some(s, k) <=> F.step \in k
          /\ \A k \in SUBSET Disposing : ~Some(s, k)'
      BY <1>S, <2>2, <2>6, <3>1, LastFrame
    <3>3. Some(s, Disposing) /\ ~Some(s, Disposing)'
      BY <3>1, <3>2 DEF Disposing
    <3>4. sourceDisposed'[s]
      BY <1>1, <2>1, <2>4, <2>6
    <3> QED BY <2>3, <3>2, <3>3, <3>4 DEF DisposeAt, Disposing
  <2> QED BY <2>5, <2>6
<1> QED BY <1>2, <1>3, <1>4

LEMMA DisposeStep ==
  ASSUME TypeOK, FramesFit, CancelInv, DisposeInv, NEW t \in Threads, Step(t) \/ Call(t)
  PROVE  DisposeInv'
<1> SUFFICES ASSUME NEW s \in Scopes PROVE DisposeAt(s)'
  BY DEF DisposeInv
<1>1. DisposeAt(s)
  BY DEF DisposeInv
<1>2. ASSUME SameFrames(Disposing),
             UNCHANGED <<isDisposed, isCancellationInProgress, sourceDisposed,
                         disposeAfterCancellation>>
      PROVE  DisposeAt(s)'
  <2>1. DisposeKept(s)
    BY <1>2, SameDisposing DEF DisposeKept
  <2> QED BY <1>1, <2>1, DisposeSame
<1>3. ASSUME \/ Signal(t) \/ Notify(t) \/ NotifyEnd(t) \/ Unregister(t) \/ CancelEnd(t)
             \/ MergeBegin(t) \/ Register(t) \/ Accept(t) \/ DropEnd(t)
             \/ DisposeRegistration(t) \/ ReleaseChild(t)
             \/ GetOrCreateScope(t) \/ AddScope(t) \/ Dispose(t) \/ Call(t)
      PROVE  SameFrames(Disposing)
  BY <1>3, OtherFrames DEF Disposing
<1>4. ASSUME \/ Signal(t) \/ Notify(t) \/ NotifyEnd(t) \/ Unregister(t) \/ CancelEnd(t)
             \/ MergeBegin(t) \/ Register(t)
      PROVE  UNCHANGED <<isDisposed, isCancellationInProgress, sourceDisposed,
                         disposeAfterCancellation>>
  BY <1>4 DEF Signal, Notify, NotifyEnd, Unregister, CancelEnd, MergeBegin, Register,
     sourceVars, lockedVars
<1>5. ASSUME \/ Accept(t) \/ DropEnd(t) \/ DisposeRegistration(t) \/ ReleaseChild(t)
             \/ GetOrCreateScope(t) \/ AddScope(t) \/ Dispose(t)
      PROVE  UNCHANGED <<isDisposed, isCancellationInProgress, sourceDisposed,
                         disposeAfterCancellation>>
  BY <1>5 DEF Accept, DropEnd, DisposeRegistration, ReleaseChild, GetOrCreateScope, AddScope,
     Dispose, sourceVars, lockedVars
<1>6. ASSUME Call(t)
      PROVE  UNCHANGED <<isDisposed, isCancellationInProgress, sourceDisposed,
                         disposeAfterCancellation>>
  BY <1>6, CallShape DEF CallFrom, lockedVars
<1> QED BY <1>1, <1>2, <1>3, <1>4, <1>5, <1>6, DisposeCancel, DisposeRelease DEF Step, ScopeStep

LEMMA NoFrames ==
  ASSUME Init
  PROVE  /\ Running = {}
         /\ \A s, k : ~Some(s, k)
         /\ \A S, K : Single(S, K)
<1>1. \A t \in Threads : stack[t] = <<>> /\ Len(stack[t]) = 0
  BY DEF Init, ScopeInit
<1>2. Running = {}
  BY <1>1 DEF Running
<1>3. ASSUME NEW t \in Threads PROVE Heights(t) = {}
  <2>1. Len(stack[t]) = 0 /\ 1..0 = {}
    BY <1>1
  <2> QED BY <2>1 DEF Heights
<1>4. \A S, K : Single(S, K)
  BY <1>3 DEF Single
<1> QED BY <1>2, <1>4 DEF Some

LEMMA SafetyInit == Init => CancelInv /\ DisposeInv
<1> SUFFICES ASSUME Init PROVE CancelInv /\ DisposeInv
  OBVIOUS
<1> SUFFICES ASSUME NEW s \in Scopes PROVE CancelAt(s) /\ DisposeAt(s)
  BY DEF CancelInv, DisposeInv
<1>1. /\ source[s] = "live" /\ ~isCancellationInProgress[s] /\ ~isDisposed[s]
      /\ ~sourceDisposed[s] /\ ~disposeAfterCancellation[s]
  BY DEF Init, ScopeInit, Tokens
<1>2. CancelAt(s)
  BY <1>1, NoFrames DEF CancelAt
<1>3. DisposeAt(s)
  BY <1>1, NoFrames DEF DisposeAt
<1> QED BY <1>2, <1>3

LEMMA SafetyStill == UNCHANGED vars => (CancelInv /\ DisposeInv => CancelInv' /\ DisposeInv')
<1> SUFFICES ASSUME UNCHANGED vars, CancelInv, DisposeInv PROVE CancelInv' /\ DisposeInv'
  OBVIOUS
<1>1. /\ \A s, k : Some(s, k)' <=> Some(s, k)
      /\ \A S, K : Single(S, K)' <=> Single(S, K)
  BY StandStill DEF Some, Single, Heights, FrameAt
<1>2. CancelInv'
  BY <1>1, StandStill DEF CancelInv, CancelAt, Cancelling
<1>3. DisposeInv'
  BY <1>1, StandStill DEF DisposeInv, DisposeAt, Disposing
<1> QED BY <1>2, <1>3

SafetyInv == TypeOK /\ FramesFit /\ CancelInv /\ DisposeInv

LEMMA SafetyStep == SafetyInv /\ [Next]_vars => SafetyInv'
<1> SUFFICES ASSUME SafetyInv, [Next]_vars PROVE SafetyInv'
  OBVIOUS
<1>1. TypeOK /\ FramesFit /\ CancelInv /\ DisposeInv
  BY DEF SafetyInv
<1>2. TypeOK' /\ FramesFit'
  BY <1>1, TypeStep
<1>3. ASSUME NEW t \in Threads, Step(t) \/ Call(t)
      PROVE  CancelInv' /\ DisposeInv'
  BY <1>1, <1>3, CancelStep, DisposeStep
<1>4. ASSUME UNCHANGED vars
      PROVE  CancelInv' /\ DisposeInv'
  BY <1>1, <1>4, SafetyStill
<1> QED BY <1>2, <1>3, <1>4 DEF Next, Rest, SafetyInv

(* Every scope's cancellation and its disposal are as far as the one frame  *)
(* that carries them out.                                                  *)
THEOREM SafetyInvariant == Spec => []SafetyInv
<1>1. Init => SafetyInv
  BY TypeInit, SafetyInit DEF SafetyInv
<1> QED BY <1>1, SafetyStep, PTL DEF Spec

(* A source is disposed only when no cancellation is under way that uses    *)
(* it, only once, and never while it runs callbacks, whatever calls users  *)
(* nest and on however many threads.                                       *)
THEOREM SourcesAreSafe == Spec => []SourceUsedSafely
<1>1. SafetyInv => SourceUsedSafely
  <2> SUFFICES ASSUME SafetyInv, NEW s \in Scopes, sourceDisposed[s]
               PROVE  /\ source[s] # "notifying"
                      /\ \A t \in Threads :
                           ~(stack[t] # <<>> /\ Me(t) = s
                               /\ Head(stack[t]).step
                                    \in {"signal", "finish", "before", "registrations"})
    BY DEF SourceUsedSafely
  <2>1. CancelAt(s) /\ DisposeAt(s) /\ StackType
    BY DEF SafetyInv, CancelInv, DisposeInv, TypeOK, ScopeTypeOK, StackType
  <2>2. ~Some(s, Cancelling) /\ ~Some(s, Disposing)
    BY <2>1 DEF CancelAt, DisposeAt
  <2>3. \A x \in Running : ~Matches(x, {s}, Cancelling) /\ ~Matches(x, {s}, Disposing)
    BY <2>2 DEF Some
  <2>4. ASSUME NEW t \in Threads, stack[t] # <<>>, Me(t) = s
        PROVE  Head(stack[t]).step \notin {"signal", "finish", "before", "registrations"}
    <3>1. Head(stack[t]) \in Running
      BY <2>1, <2>4, StackChanges
    <3> QED BY <2>3, <2>4, <3>1 DEF Matches, Me, Cancelling, Disposing
  <2>5. source[s] # "notifying"
    <3>1. ~Some(s, {"notify"})
      BY <2>3 DEF Some, Matches, Cancelling
    <3> QED BY <2>1, <3>1 DEF CancelAt
  <2> QED BY <2>4, <2>5
<1> QED BY <1>1, SafetyInvariant, PTL

-----------------------------------------------------------------------------
(* The frames that the actions leave, by their fields.                     *)

Becomes(F, f, step) ==
  /\ Changes({F}, {f})
  /\ f \in Frames /\ f.step = step /\ f.of = F.of
  /\ f.held = F.held /\ f.children = F.children

LEMMA BeginFrame ==
  ASSUME TypeOK, FramesFit, NEW t \in Threads, NEW F, F = Head(stack[t]), TryBeginCancellation(t)
  PROVE  /\ TopIs(t, F, {"cancel"})
         /\ \/ CanAcceptCancellation(F.of) /\ \E f : Becomes(F, f, "signal")
            \/ ~CanAcceptCancellation(F.of) /\ Changes({F}, {})
<1>1. TopIs(t, F, {"cancel"}) /\ F \in Frames
  BY CancelShapes DEF TopIs
<1>2. PICK f : f = [F EXCEPT !.step = "signal"]
  OBVIOUS
<1>3. f \in Frames /\ f.step = "signal" /\ f.of = F.of /\ f.held = F.held /\ f.children = F.children
  BY <1>1, <1>2 DEF Frames
<1>4. \/ CanAcceptCancellation(F.of) /\ Changes({F}, {f})
      \/ ~CanAcceptCancellation(F.of) /\ Changes({F}, {})
  BY <1>2, CancelShapes
<1> QED BY <1>1, <1>3, <1>4 DEF Becomes

LEMMA SignalFrame ==
  ASSUME TypeOK, FramesFit, NEW t \in Threads, NEW F, F = Head(stack[t]), Signal(t)
  PROVE  /\ TopIs(t, F, {"signal"})
         /\ \/ source[F.of] = "live" /\ \E f : Becomes(F, f, "notify")
            \/ source[F.of] # "live" /\ Changes({F}, {})
<1>1. TopIs(t, F, {"signal"}) /\ F \in Frames
  BY CancelShapes DEF TopIs
<1>2. PICK f : f = [F EXCEPT !.step = "notify"]
  OBVIOUS
<1>3. f \in Frames /\ f.step = "notify" /\ f.of = F.of /\ f.held = F.held /\ f.children = F.children
  BY <1>1, <1>2 DEF Frames
<1>4. \/ source[F.of] = "live" /\ Changes({F}, {f})
      \/ source[F.of] # "live" /\ Changes({F}, {})
  BY <1>2, CancelShapes
<1> QED BY <1>1, <1>3, <1>4 DEF Becomes

LEMMA NotifyEndFrame ==
  ASSUME TypeOK, FramesFit, NEW t \in Threads, NEW F, F = Head(stack[t]), NotifyEnd(t)
  PROVE  /\ TopIs(t, F, {"notify"})
         /\ \/ F.of \notin Foreign /\ \E f : Becomes(F, f, "finish")
            \/ F.of \in Foreign /\ Changes({F}, {})
<1>1. TopIs(t, F, {"notify"}) /\ F \in Frames
  BY CancelShapes DEF TopIs
<1>2. PICK f : f = [F EXCEPT !.step = "finish"]
  OBVIOUS
<1>3. f \in Frames /\ f.step = "finish" /\ f.of = F.of /\ f.held = F.held /\ f.children = F.children
  BY <1>1, <1>2 DEF Frames
<1>4. \/ F.of \notin Foreign /\ Changes({F}, {f})
      \/ F.of \in Foreign /\ Changes({F}, {})
  BY <1>2, CancelShapes
<1> QED BY <1>1, <1>3, <1>4 DEF Becomes

LEMMA AcceptFrame ==
  ASSUME TypeOK, FramesFit, NEW t \in Threads, NEW F, F = Head(stack[t]), Accept(t)
  PROVE  /\ TopIs(t, F, {"accept"})
         /\ \/ ~CanAcceptCancellation(F.of) /\ \E f : Becomes(F, f, "drop")
            \/ CanAcceptCancellation(F.of) /\ Changes({F}, {})
<1>1. TopIs(t, F, {"accept"}) /\ F \in Frames
  BY MergeShapes DEF TopIs
<1>2. PICK f : f = [F EXCEPT !.step = "drop"]
  OBVIOUS
<1>3. f \in Frames /\ f.step = "drop" /\ f.of = F.of /\ f.held = F.held /\ f.children = F.children
  BY <1>1, <1>2 DEF Frames
<1>4. \/ ~CanAcceptCancellation(F.of) /\ Changes({F}, {f})
      \/ CanAcceptCancellation(F.of) /\ Changes({F}, {})
  BY <1>2, MergeShapes
<1> QED BY <1>1, <1>3, <1>4 DEF Becomes

LEMMA ChildrenReleasedFrame ==
  ASSUME TypeOK, FramesFit, NEW t \in Threads, NEW F, F = Head(stack[t]), ChildrenReleased(t)
  PROVE  /\ TopIs(t, F, {"before"})
         /\ \E f : Becomes(F, f, "registrations")
<1>1. TopIs(t, F, {"before"}) /\ F \in Frames
  BY ReleaseShapes DEF TopIs
<1>2. PICK f : f = [F EXCEPT !.step = "registrations"]
  OBVIOUS
<1>3. f \in Frames /\ f.step = "registrations" /\ f.of = F.of /\ f.held = F.held /\ f.children = F.children
  BY <1>1, <1>2 DEF Frames
<1>4. Changes({F}, {f})
  BY <1>2, ReleaseShapes
<1> QED BY <1>1, <1>3, <1>4 DEF Becomes

LEMMA NotifyFrames ==
  ASSUME TypeOK, FramesFit, NEW t \in Threads, NEW F, F = Head(stack[t]), Notify(t)
  PROVE  /\ TopIs(t, F, {"notify"})
         /\ \E s \in Scopes, c \in Frames :
              /\ s \in callbacks[F.of] /\ Drops(F.of, s)
              /\ c.step = "cancel" /\ c.of = s /\ c.held = {} /\ c.children = {}
              /\ Changes({F}, {F, c})
<1>1. TopIs(t, F, {"notify"}) /\ F.of \in Tokens
  BY CancelShapes DEF TopIs
<1>2. callbacks[F.of] \subseteq Scopes
  BY <1>1 DEF TypeOK, ScopeTypeOK
<1>3. PICK s \in callbacks[F.of] : Drops(F.of, s) /\ Enter(t, F, Frame("cancel", s))
  BY DEF Notify, Drops, Me
<1>4. s \in Scopes
  BY <1>2
<1>5. PICK c : c = Frame("cancel", s)
  OBVIOUS
<1>6. c \in Frames /\ c.step = "cancel" /\ c.of = s /\ c.held = {} /\ c.children = {}
  BY <1>4, <1>5 DEF Frames, Frame, Tokens
<1>7. Changes({F}, {F, c})
  BY <1>3, <1>4, <1>5, CancelShapes
<1> QED BY <1>1, <1>3, <1>4, <1>6, <1>7

LEMMA MergeFrame ==
  ASSUME TypeOK, FramesFit, NEW t \in Threads, NEW F, F = Head(stack[t]), MergeBegin(t)
  PROVE  /\ TopIs(t, F, {"merge"}) /\ F.of \in Scopes
         /\ \E k \in Tokens :
              /\ F.held = {k}
              /\ \/ /\ CanMerge(F.of, k) /\ \E f : Becomes(F, f, "register")
                    /\ mergedTokens' = [mergedTokens EXCEPT ![F.of] = @ \cup {k}]
                    /\ observed' = [observed EXCEPT ![F.of] = @ \cup {k}]
                 \/ /\ ~CanMerge(F.of, k) /\ Changes({F}, {})
                    /\ UNCHANGED <<mergedTokens, observed>>
<1>1. TopIs(t, F, {"merge"}) /\ F \in Frames /\ F.of \in Scopes
  BY MergeShapes DEF TopIs, ScopeSteps
<1>2. PICK k \in Tokens : F.held = {k}
  BY <1>1 DEF TopIs, FrameFits
<1>3. PICK f : f = [F EXCEPT !.step = "register"]
  OBVIOUS
<1>4. f \in Frames /\ f.step = "register" /\ f.of = F.of /\ f.held = F.held /\ f.children = F.children
  BY <1>1, <1>3 DEF Frames
<1>5. \/ CanMerge(F.of, k) /\ Changes({F}, {f})
      \/ ~CanMerge(F.of, k) /\ Changes({F}, {})
  BY <1>2, <1>3, MergeShapes
<1>6. IF CanMerge(F.of, k)
      THEN /\ mergedTokens' = [mergedTokens EXCEPT ![F.of] = @ \cup {k}]
           /\ observed' = [observed EXCEPT ![F.of] = @ \cup {k}]
      ELSE UNCHANGED <<mergedTokens, observed>>
  <2>1. \E x \in {k} : IF CanMerge(F.of, x)
          THEN /\ mergedTokens' = [mergedTokens EXCEPT ![F.of] = @ \cup {x}]
               /\ observed' = [observed EXCEPT ![F.of] = @ \cup {x}]
          ELSE UNCHANGED <<mergedTokens, observed>>
    BY <1>2 DEF MergeBegin, Me, Held
  <2> QED BY <2>1
<1> QED BY <1>1, <1>2, <1>4, <1>5, <1>6 DEF Becomes

Starts(F, f) ==
  /\ Changes({F}, {f})
  /\ f \in Frames /\ f.step = "before" /\ f.of = F.of
  /\ f.held = registrations[F.of] /\ f.children = F.children

LEMMA ReleaseFrame ==
  ASSUME TypeOK, FramesFit, NEW t \in Threads, NEW F, F = Head(stack[t]), ReleaseResources(t)
  PROVE  /\ TopIs(t, F, {"release"}) /\ F.of \in Scopes
         /\ \/ /\ isDisposed[F.of] /\ Changes({F}, {}) /\ UNCHANGED lockedVars
            \/ /\ ~isDisposed[F.of] /\ isCancellationInProgress[F.of] /\ Changes({F}, {})
               /\ isDisposed' = [isDisposed EXCEPT ![F.of] = TRUE]
               /\ disposeAfterCancellation' = [disposeAfterCancellation EXCEPT ![F.of] = TRUE]
               /\ beforeScopeResources' = [beforeScopeResources EXCEPT ![F.of] = F.children]
               /\ UNCHANGED <<mergedTokens, registrations>>
            \/ /\ ~isDisposed[F.of] /\ ~isCancellationInProgress[F.of]
               /\ \E f : Starts(F, f)
               /\ isDisposed' = [isDisposed EXCEPT ![F.of] = TRUE]
               /\ TakeRegistrations(F.of)
               /\ UNCHANGED <<disposeAfterCancellation, beforeScopeResources>>
<1>1. TopIs(t, F, {"release"}) /\ F \in Frames /\ F.of \in Scopes
  BY ReleaseShapes DEF TopIs, ScopeSteps
<1>2. PICK f : f = [F EXCEPT !.held = registrations[F.of], !.step = "before"]
  OBVIOUS
<1>3. registrations[F.of] \subseteq Tokens
  BY <1>1 DEF TypeOK, ScopeTypeOK
<1>4. /\ f \in Frames /\ f.step = "before" /\ f.of = F.of
      /\ f.held = registrations[F.of] /\ f.children = F.children
  BY <1>1, <1>2, <1>3 DEF Frames
<1>5. \/ /\ isDisposed[F.of] \/ isCancellationInProgress[F.of]
         /\ Changes({F}, {})
      \/ /\ ~isDisposed[F.of] /\ ~isCancellationInProgress[F.of]
         /\ Changes({F}, {f})
  BY <1>2, ReleaseShapes
<1>6. \/ isDisposed[F.of] /\ UNCHANGED lockedVars
      \/ /\ ~isDisposed[F.of] /\ isCancellationInProgress[F.of]
         /\ isDisposed' = [isDisposed EXCEPT ![F.of] = TRUE]
         /\ disposeAfterCancellation' = [disposeAfterCancellation EXCEPT ![F.of] = TRUE]
         /\ beforeScopeResources' = [beforeScopeResources EXCEPT ![F.of] = F.children]
         /\ UNCHANGED <<mergedTokens, registrations>>
      \/ /\ ~isDisposed[F.of] /\ ~isCancellationInProgress[F.of]
         /\ isDisposed' = [isDisposed EXCEPT ![F.of] = TRUE]
         /\ TakeRegistrations(F.of)
         /\ UNCHANGED <<disposeAfterCancellation, beforeScopeResources>>
  BY DEF ReleaseResources, Me, Children
<1>7. CASE isDisposed[F.of]
  BY <1>1, <1>5, <1>6, <1>7
<1>8. CASE ~isDisposed[F.of] /\ isCancellationInProgress[F.of]
  BY <1>1, <1>5, <1>6, <1>8
<1>9. CASE ~isDisposed[F.of] /\ ~isCancellationInProgress[F.of]
  <2>1. Starts(F, f)
    BY <1>4, <1>5, <1>9 DEF Starts
  <2> QED BY <1>1, <1>6, <1>9, <2>1
<1> QED BY <1>7, <1>8, <1>9

Releases(F, f, r, c) ==
  /\ Changes({F}, {f, r})
  /\ f \in Frames /\ f.step = "before" /\ f.of = F.of /\ f.held = F.held
  /\ c \in F.children /\ f.children = F.children \ {c}
  /\ r \in Frames /\ r.step = "release" /\ r.of = c /\ r.held = {} /\ r.children = {}

LEMMA ChildFrames ==
  ASSUME TypeOK, FramesFit, NEW t \in Threads, NEW F, F = Head(stack[t]), ReleaseChild(t)
  PROVE  /\ TopIs(t, F, {"before"})
         /\ \E f, r, c : Releases(F, f, r, c)
<1>1. TopIs(t, F, {"before"}) /\ F \in Frames /\ F.children \subseteq Scopes /\ F.step = "before"
  BY ReleaseShapes DEF TopIs
<1>2. PICK c \in F.children :
        Changes({F}, {[F EXCEPT !.children = @ \ {c}], Frame("release", c)})
  BY ReleaseShapes
<1>3. PICK f : f = [F EXCEPT !.children = @ \ {c}]
  OBVIOUS
<1>4. PICK r : r = Frame("release", c)
  OBVIOUS
<1>5. /\ f \in Frames /\ f.step = "before" /\ f.of = F.of /\ f.held = F.held
      /\ f.children = F.children \ {c}
  BY <1>1, <1>3 DEF Frames
<1>6. r \in Frames /\ r.step = "release" /\ r.of = c /\ r.held = {} /\ r.children = {}
  BY <1>1, <1>4 DEF Frames, Frame, Tokens
<1>7. Changes({F}, {f, r})
  BY <1>2, <1>3, <1>4
<1>8. Releases(F, f, r, c)
  BY <1>5, <1>6, <1>7 DEF Releases
<1> QED BY <1>1, <1>8

Makes(F, a, m) ==
  /\ Changes({F}, {a, m})
  /\ a \in Frames /\ a.step = "add" /\ a.of = F.of /\ a.held = {} /\ a.children = {}
  /\ m \in Frames /\ m.step = "merge" /\ m.of = F.of /\ m.held = {Root} /\ m.children = {}

LEMMA GetFrames ==
  ASSUME TypeOK, FramesFit, NEW t \in Threads, NEW F, F = Head(stack[t]), GetOrCreateScope(t)
  PROVE  /\ TopIs(t, F, {"get"}) /\ F.of \in Keys
         /\ \/ /\ utilsDisposed \/ F.of \in keyedScopes
               /\ Changes({F}, {}) /\ UNCHANGED lock
            \/ /\ ~utilsDisposed /\ F.of \notin keyedScopes /\ lock = NoThread /\ lock' = t
               /\ \E a, m : Makes(F, a, m)
<1>1. TopIs(t, F, {"get"}) /\ F.of \in Keys
  BY UtilsShapes DEF TopIs, FrameFits
<1>2. PICK a : a = Frame("add", F.of)
  OBVIOUS
<1>3. PICK m : m = [Frame("merge", F.of) EXCEPT !.held = {Root}]
  OBVIOUS
<1>4. /\ a \in Frames /\ a.step = "add" /\ a.of = F.of /\ a.held = {} /\ a.children = {}
      /\ m \in Frames /\ m.step = "merge" /\ m.of = F.of /\ m.held = {Root} /\ m.children = {}
  BY <1>1, <1>2, <1>3, UtilsAssumption DEF Frames, Frame, Tokens, Keys
<1>5. \/ /\ utilsDisposed \/ F.of \in keyedScopes
         /\ Changes({F}, {})
      \/ /\ ~utilsDisposed /\ F.of \notin keyedScopes
         /\ Changes({F}, {a, m})
  BY <1>2, <1>3, UtilsShapes
<1>6. /\ utilsDisposed \/ F.of \in keyedScopes => UNCHANGED lock
      /\ ~utilsDisposed /\ F.of \notin keyedScopes => lock = NoThread /\ lock' = t
  BY DEF GetOrCreateScope, LockFree, Me
<1>7. CASE utilsDisposed \/ F.of \in keyedScopes
  BY <1>1, <1>5, <1>6, <1>7
<1>8. CASE ~utilsDisposed /\ F.of \notin keyedScopes
  <2>1. Makes(F, a, m)
    BY <1>4, <1>5, <1>8 DEF Makes
  <2> QED BY <1>1, <1>6, <1>8, <2>1
<1> QED BY <1>7, <1>8

LEMMA DisposeFrame ==
  ASSUME TypeOK, FramesFit, NEW t \in Threads, NEW F, F = Head(stack[t]), Dispose(t)
  PROVE  /\ TopIs(t, F, {"dispose"})
         /\ \/ /\ utilsDisposed /\ Changes({F}, {})
               /\ UNCHANGED <<keyedScopes, utilsDisposed>>
            \/ /\ ~utilsDisposed /\ utilsDisposed' /\ keyedScopes' = {}
               /\ \E r \in Frames :
                    /\ Changes({F}, {r})
                    /\ r.step = "release" /\ r.of = Root
                    /\ r.held = {} /\ r.children = keyedScopes
<1>1. TopIs(t, F, {"dispose"})
  BY UtilsShapes
<1>2. PICK r : r = [Frame("release", Root) EXCEPT !.children = keyedScopes]
  OBVIOUS
<1>3. /\ r \in Frames /\ r.step = "release" /\ r.of = Root
      /\ r.held = {} /\ r.children = keyedScopes
  BY <1>2, UtilsAssumption DEF Frames, Frame, Tokens, TypeOK, Keys
<1>4. \/ utilsDisposed /\ Changes({F}, {})
      \/ ~utilsDisposed /\ Changes({F}, {r})
  BY <1>2, UtilsShapes
<1>5. /\ utilsDisposed => UNCHANGED <<keyedScopes, utilsDisposed>>
      /\ ~utilsDisposed => utilsDisposed' /\ keyedScopes' = {}
  BY DEF Dispose
<1> QED BY <1>1, <1>3, <1>4, <1>5

LEMMA ReturnFrame ==
  ASSUME TypeOK, FramesFit, NEW t \in Threads, NEW F, F = Head(stack[t])
  PROVE  /\ CancelEnd(t) => TopIs(t, F, {"unregister"}) /\ Changes({F}, {})
         /\ DropEnd(t) => TopIs(t, F, {"drop"}) /\ Changes({F}, {})
         /\ DisposeSource(t) => TopIs(t, F, {"registrations"}) /\ Changes({F}, {})
         /\ AddScope(t) => TopIs(t, F, {"add"}) /\ Changes({F}, {})
BY CancelShapes, MergeShapes, ReleaseShapes, UtilsShapes

-----------------------------------------------------------------------------
(* Every cancellation has a cause.                                         *)

LEMMA FrameOfScope ==
  ASSUME TypeOK, FramesFit, NEW x \in Running
  PROVE  /\ x \in Frames /\ x.of \in Tokens /\ x.held \subseteq Tokens
         /\ x.step \in ScopeSteps => x.of \in Scopes
<1>1. StackType
  BY DEF TypeOK, ScopeTypeOK, StackType
<1>2. PICK t \in Threads : x \in {stack[t][i] : i \in 1..Len(stack[t])}
  BY DEF Running
<1>3. x \in Frames
  BY <1>1, <1>2 DEF StackType
<1>4. x.of \in Foreign => x.step \in {"signal", "notify"}
  BY DEF FramesFit, FrameFits
<1> QED BY <1>3, <1>4 DEF Frames, Tokens, ScopeSteps

Grows == asked \subseteq asked' /\ \A s \in Scopes : observed[s] \subseteq observed'[s]

LEMMA CauseGrows ==
  ASSUME Grows
  PROVE  \A k : HasCause(k) => HasCause(k)'
<1> SUFFICES ASSUME NEW k, HasCause(k), NEW K \in SUBSET Tokens, Caused(K)'
             PROVE  k \in K
  BY DEF HasCause
<1>1. Caused(K)
  BY DEF Caused, Grows
<1> QED BY <1>1 DEF HasCause

LEMMA CauseSpreads ==
  ASSUME NEW s \in Scopes, NEW k, k \in observed[s], HasCause(k)
  PROVE  HasCause(s)
BY DEF HasCause, Caused

LEMMA CauseKept ==
  ASSUME TypeOK, FramesFit, CauseInv, NEW old, NEW new, Changes(old, new), Grows,
         \A x \in new : CauseFits(x)',
         \A k \in Tokens : source'[k] # "live" => HasCause(k)',
         \A k \in Tokens : \A s \in callbacks'[k] : k \in observed'[s]
  PROVE  CauseInv'
<1>1. ASSUME NEW x \in Running' PROVE CauseFits(x)'
  <2>1. CASE x \in new
    BY <2>1
  <2>2. CASE x \in Running
    <3>1. CauseFits(x)
      BY <2>2 DEF CauseInv
    <3>2. x.step = "register" => x.of \in Scopes
      BY <2>2, FrameOfScope DEF ScopeSteps
    <3>3. HasCause(x.of) => HasCause(x.of)'
      BY CauseGrows
    <3>4. x.step \in {"cancel"} \cup Cancelling => HasCause(x.of)'
      BY <3>1, <3>3 DEF CauseFits
    <3>5. x.step = "register" => x.held \subseteq observed'[x.of]
      BY <3>1, <3>2 DEF CauseFits, Grows
    <3> QED BY <3>4, <3>5 DEF CauseFits, Cancelling
  <2> QED BY <2>1, <2>2 DEF Changes
<1>2. \A k \in Tokens : IsCancellationRequested(k)' => HasCause(k)'
  BY DEF IsCancellationRequested
<1> QED BY <1>1, <1>2 DEF CauseInv

(* The steps that cancel nothing and register nothing.                     *)
Calm(x) == x.step \notin {"cancel", "signal", "notify", "finish", "register"}

LEMMA CauseSame ==
  ASSUME TypeOK, FramesFit, CauseInv, NEW old, NEW new, Changes(old, new),
         \A x \in new : Calm(x), UNCHANGED <<source, observed>>, asked \subseteq asked',
         \A k \in Tokens : callbacks'[k] \subseteq callbacks[k]
  PROVE  CauseInv'
<1>1. Grows
  BY DEF Grows
<1>2. \A x \in new : CauseFits(x)'
  BY DEF Calm, CauseFits, Cancelling
<1>3. \A k \in Tokens : source'[k] # "live" => HasCause(k)'
  BY <1>1, CauseGrows DEF CauseInv, IsCancellationRequested
<1>4. \A k \in Tokens : \A s \in callbacks'[k] : k \in observed'[s]
  BY DEF CauseInv
<1> QED BY <1>1, <1>2, <1>3, <1>4, CauseKept

LEMMA DropsShrink ==
  ASSUME TypeOK, NEW k, NEW s, Drops(k, s)
  PROVE  \A j \in Tokens : callbacks'[j] \subseteq callbacks[j]
BY DEF Drops, TypeOK, ScopeTypeOK

LEMMA CauseCancel ==
  ASSUME TypeOK, FramesFit, CauseInv, NEW t \in Threads, UNCHANGED asked
  PROVE  /\ TryBeginCancellation(t) => CauseInv'
         /\ Signal(t) => CauseInv'
         /\ Notify(t) => CauseInv'
         /\ NotifyEnd(t) => CauseInv'
<1>0. PICK F : F = Head(stack[t])
  OBVIOUS
<1>1. /\ \A k \in Tokens : source[k] # "live" => HasCause(k)
      /\ \A k \in Tokens : \A s \in callbacks[k] : k \in observed[s]
      /\ F \in Running /\ F.step \in {"cancel", "signal", "notify"} => HasCause(F.of)
  BY DEF CauseInv, CauseFits, Cancelling, IsCancellationRequested
<1>2. UNCHANGED observed => Grows
  BY DEF Grows
<1>3. ASSUME TryBeginCancellation(t) PROVE CauseInv'
  <2>1. /\ F \in Running /\ F.step = "cancel"
        /\ (\E f : Becomes(F, f, "signal")) \/ Changes({F}, {})
    BY <1>0, <1>3, BeginFrame DEF TopIs
  <2>2. UNCHANGED <<source, callbacks, observed>>
    BY <1>3 DEF TryBeginCancellation, sourceVars
  <2>3. HasCause(F.of)' /\ \A k \in Tokens : source'[k] # "live" => HasCause(k)'
    BY <1>1, <1>2, <2>1, <2>2, CauseGrows
  <2>4. \A k \in Tokens : \A s \in callbacks'[k] : k \in observed'[s]
    BY <1>1, <2>2
  <2>5. CASE Changes({F}, {})
    <3>1. \A x \in {} : CauseFits(x)'
      OBVIOUS
    <3> QED BY <1>2, <2>2, <2>3, <2>4, <2>5, <3>1, CauseKept
  <2>6. ASSUME NEW f, Becomes(F, f, "signal") PROVE CauseInv'
    <3>1. \A x \in {f} : CauseFits(x)'
      BY <2>3, <2>6 DEF CauseFits, Becomes
    <3>2. Changes({F}, {f})
      BY <2>6 DEF Becomes
    <3> QED BY <1>2, <2>2, <2>3, <2>4, <3>1, <3>2, CauseKept
  <2> QED BY <2>1, <2>5, <2>6
<1>4. ASSUME Signal(t) PROVE CauseInv'
  <2>1. /\ F \in Running /\ F.step = "signal" /\ F.of \in Tokens
        /\ (\E f : Becomes(F, f, "notify")) \/ Changes({F}, {})
    BY <1>0, <1>4, SignalFrame DEF TopIs
  <2>2. UNCHANGED <<callbacks, observed>>
    BY <1>4 DEF Signal
  <2>3. \A k \in Tokens : source'[k] # "live" => source[k] # "live" \/ k = F.of
    <3>1. source' = source \/ source' = [source EXCEPT ![F.of] = "notifying"]
      BY <1>0, <1>4 DEF Signal, Me
    <3> QED BY <3>1 DEF TypeOK, ScopeTypeOK
  <2>4. HasCause(F.of)' /\ \A k \in Tokens : source'[k] # "live" => HasCause(k)'
    BY <1>1, <1>2, <2>1, <2>2, <2>3, CauseGrows
  <2>5. \A k \in Tokens : \A s \in callbacks'[k] : k \in observed'[s]
    BY <1>1, <2>2
  <2>6. CASE Changes({F}, {})
    <3>1. \A x \in {} : CauseFits(x)'
      OBVIOUS
    <3> QED BY <1>2, <2>2, <2>4, <2>5, <2>6, <3>1, CauseKept
  <2>7. ASSUME NEW f, Becomes(F, f, "notify") PROVE CauseInv'
    <3>1. \A x \in {f} : CauseFits(x)'
      BY <2>4, <2>7 DEF CauseFits, Becomes
    <3>2. Changes({F}, {f})
      BY <2>7 DEF Becomes
    <3> QED BY <1>2, <2>2, <2>4, <2>5, <3>1, <3>2, CauseKept
  <2> QED BY <2>1, <2>6, <2>7
<1>5. ASSUME Notify(t) PROVE CauseInv'
  <2>1. F \in Running /\ F.step = "notify" /\ F.of \in Tokens
    BY <1>0, <1>5, NotifyFrames DEF TopIs
  <2>2. PICK s \in Scopes : \E c \in Frames :
          /\ s \in callbacks[F.of] /\ Drops(F.of, s)
          /\ c.step = "cancel" /\ c.of = s
          /\ Changes({F}, {F, c})
    BY <1>0, <1>5, NotifyFrames
  <2>3. PICK c \in Frames : /\ c.step = "cancel" /\ c.of = s
                            /\ Changes({F}, {F, c})
    BY <2>2
  <2>4. UNCHANGED <<source, observed>>
    BY <1>5 DEF Notify
  <2>5. HasCause(F.of) /\ HasCause(s)
    BY <1>1, <2>1, <2>2, CauseSpreads
  <2>6. /\ HasCause(F.of)' /\ HasCause(s)'
        /\ \A k \in Tokens : source'[k] # "live" => HasCause(k)'
    BY <1>1, <1>2, <2>4, <2>5, CauseGrows
  <2>7. \A k \in Tokens : \A x \in callbacks'[k] : k \in observed'[x]
    BY <1>1, <2>2, <2>4, DropsShrink
  <2>8. CauseFits(F)' /\ CauseFits(c)'
    BY <2>1, <2>3, <2>6 DEF CauseFits
  <2>9. \A x \in {F, c} : CauseFits(x)'
    BY <2>8
  <2>10. Changes({F}, {F, c})
    BY <2>3
  <2> QED BY <1>2, <2>4, <2>6, <2>7, <2>9, <2>10, CauseKept
<1>6. ASSUME NotifyEnd(t) PROVE CauseInv'
  <2>1. /\ F \in Running /\ F.step = "notify" /\ F.of \in Tokens
        /\ (\E f : Becomes(F, f, "finish")) \/ Changes({F}, {})
    BY <1>0, <1>6, NotifyEndFrame DEF TopIs
  <2>2. UNCHANGED <<callbacks, observed>>
    BY <1>6 DEF NotifyEnd
  <2>3. \A k \in Tokens : source'[k] # "live" => source[k] # "live" \/ k = F.of
    <3>1. source' = [source EXCEPT ![F.of] = "canceled"]
      BY <1>0, <1>6 DEF NotifyEnd, Me
    <3> QED BY <3>1 DEF TypeOK, ScopeTypeOK
  <2>4. HasCause(F.of)' /\ \A k \in Tokens : source'[k] # "live" => HasCause(k)'
    BY <1>1, <1>2, <2>1, <2>2, <2>3, CauseGrows
  <2>5. \A k \in Tokens : \A s \in callbacks'[k] : k \in observed'[s]
    BY <1>1, <2>2
  <2>6. CASE Changes({F}, {})
    <3>1. \A x \in {} : CauseFits(x)'
      OBVIOUS
    <3> QED BY <1>2, <2>2, <2>4, <2>5, <2>6, <3>1, CauseKept
  <2>7. ASSUME NEW f, Becomes(F, f, "finish") PROVE CauseInv'
    <3>1. \A x \in {f} : CauseFits(x)'
      BY <2>4, <2>7 DEF CauseFits, Becomes
    <3>2. Changes({F}, {f})
      BY <2>7 DEF Becomes
    <3> QED BY <1>2, <2>2, <2>4, <2>5, <3>1, <3>2, CauseKept
  <2> QED BY <2>1, <2>6, <2>7
<1> QED BY <1>3, <1>4, <1>5, <1>6

LEMMA CauseMerge ==
  ASSUME TypeOK, FramesFit, CauseInv, NEW t \in Threads, UNCHANGED asked
  PROVE  /\ MergeBegin(t) => CauseInv'
         /\ Register(t) => CauseInv'
<1>0. PICK F : F = Head(stack[t])
  OBVIOUS
<1>1. /\ \A k \in Tokens : source[k] # "live" => HasCause(k)
      /\ \A k \in Tokens : \A s \in callbacks[k] : s \in Scopes /\ k \in observed[s]
  BY DEF CauseInv, IsCancellationRequested, TypeOK, ScopeTypeOK
<1>2. ASSUME MergeBegin(t) PROVE CauseInv'
  <2>1. F \in Running /\ F.of \in Scopes
    BY <1>0, <1>2, MergeFrame DEF TopIs
  <2>2. PICK k \in Tokens :
          /\ F.held = {k}
          /\ \/ /\ \E f : Becomes(F, f, "register")
                /\ observed' = [observed EXCEPT ![F.of] = @ \cup {k}]
             \/ Changes({F}, {}) /\ UNCHANGED observed
    BY <1>0, <1>2, MergeFrame
  <2>3. UNCHANGED <<source, callbacks>>
    BY <1>2 DEF MergeBegin, sourceVars
  <2>4. CASE Changes({F}, {}) /\ UNCHANGED observed
    <3>1. \A x \in {} : Calm(x)
      OBVIOUS
    <3> QED BY <2>3, <2>4, <3>1, CauseSame
  <2>5. ASSUME NEW f, Becomes(F, f, "register"),
               observed' = [observed EXCEPT ![F.of] = @ \cup {k}]
        PROVE  CauseInv'
    <3>1. /\ \A s \in Scopes : observed[s] \subseteq observed'[s]
          /\ k \in observed'[F.of]
      BY <2>1, <2>5 DEF TypeOK, ScopeTypeOK
    <3>2. Grows
      BY <3>1 DEF Grows
    <3>3. CauseFits(f)'
      BY <2>2, <2>5, <3>1 DEF CauseFits, Becomes, Cancelling
    <3>4. \A x \in {f} : CauseFits(x)'
      BY <3>3
    <3>5. \A j \in Tokens : source'[j] # "live" => HasCause(j)'
      BY <1>1, <2>3, <3>2, CauseGrows
    <3>6. \A j \in Tokens : \A s \in callbacks'[j] : j \in observed'[s]
      BY <1>1, <2>3, <3>1
    <3>7. Changes({F}, {f})
      BY <2>5 DEF Becomes
    <3> QED BY <3>2, <3>4, <3>5, <3>6, <3>7, CauseKept
  <2> QED BY <2>2, <2>4, <2>5
<1>3. ASSUME Register(t) PROVE CauseInv'
  <2>1. F \in Running /\ F.of \in Scopes /\ F.step = "register"
    BY <1>0, <1>3, RegisterFrames DEF TopIs
  <2>2. PICK f : \E c, k : Registers(F, f, c, k)
    BY <1>0, <1>3, RegisterFrames
  <2>3. PICK c : \E k : Registers(F, f, c, k)
    BY <2>2
  <2>4. PICK k : Registers(F, f, c, k)
    BY <2>3
  <2>5. k \in Tokens /\ k \in observed[F.of]
    BY <2>1, <2>4 DEF Registers, CauseInv, CauseFits
  <2>6. UNCHANGED <<source, observed>>
    BY <1>3 DEF Register
  <2>7. Grows
    BY <2>6 DEF Grows
  <2>8. \A j \in Tokens : source'[j] # "live" => HasCause(j)'
    BY <1>1, <2>6, <2>7, CauseGrows
  <2>9. \A j \in Tokens : \A s \in callbacks'[j] : j \in observed'[s]
    <3>1. callbacks' = callbacks \/ Adds(k, F.of)
      BY <2>4 DEF Registers
    <3>2. \A j \in Tokens : \A s \in callbacks'[j] : s \in callbacks[j] \/ (j = k /\ s = F.of)
      BY <2>5, <3>1 DEF Adds, TypeOK, ScopeTypeOK
    <3> QED BY <1>1, <2>5, <2>6, <3>2
  <2>10. CauseFits(f)'
    BY <2>4 DEF Registers, CauseFits, Cancelling
  <2>11. CASE IsCancellationRequested(k)
    <3>1. HasCause(F.of)
      BY <1>1, <2>1, <2>5, <2>11, CauseSpreads DEF IsCancellationRequested
    <3>2. HasCause(F.of)'
      BY <2>7, <3>1, CauseGrows
    <3>3. c.of = F.of /\ c.step = "cancel"
      BY <2>4 DEF Registers
    <3>4. CauseFits(c)'
      BY <3>2, <3>3 DEF CauseFits
    <3>5. \A x \in {f, c} : CauseFits(x)'
      BY <2>10, <3>4
    <3>6. Changes({F}, {f, c})
      BY <2>4, <2>11 DEF Registers
    <3> QED BY <2>7, <2>8, <2>9, <3>5, <3>6, CauseKept
  <2>12. CASE ~IsCancellationRequested(k)
    <3>1. Changes({F}, {f})
      BY <2>4, <2>12 DEF Registers
    <3>2. \A x \in {f} : CauseFits(x)'
      BY <2>10
    <3> QED BY <2>7, <2>8, <2>9, <3>1, <3>2, CauseKept
  <2> QED BY <2>11, <2>12
<1> QED BY <1>2, <1>3

LEMMA CauseCall ==
  ASSUME TypeOK, FramesFit, CauseInv, NEW t \in Threads, Call(t)
  PROVE  CauseInv'
<1>1. PICK f \in Frames :
        /\ CallFrame(f) /\ CallFrom(t, f) /\ Changes({}, {f})
        /\ f.step \in {"cancel", "signal"} => asked' = asked \cup {f.of}
        /\ f.step \notin {"cancel", "signal"} => asked' = asked
  BY CallShape
<1>2. UNCHANGED <<source, callbacks, observed>>
  BY <1>1 DEF CallFrom
<1>3. Grows
  BY <1>1, <1>2 DEF Grows
<1>4. f.step \in {"cancel", "signal"} => HasCause(f.of)'
  BY <1>1 DEF HasCause, Caused
<1>5. CauseFits(f)'
  BY <1>1, <1>4 DEF CauseFits, CallFrame, Cancelling
<1>6. \A x \in {f} : CauseFits(x)'
  BY <1>5
<1>7. \A j \in Tokens : source'[j] # "live" => HasCause(j)'
  BY <1>2, <1>3, CauseGrows DEF CauseInv, IsCancellationRequested
<1>8. \A j \in Tokens : \A s \in callbacks'[j] : j \in observed'[s]
  BY <1>2 DEF CauseInv
<1>9. Changes({}, {f})
  BY <1>1
<1> QED BY <1>3, <1>6, <1>7, <1>8, <1>9, CauseKept

(* What the other actions do to the frames.                                *)
LEMMA CalmFrames ==
  ASSUME TypeOK, FramesFit, NEW t \in Threads
  PROVE  /\ FinishCancellation(t) => \E old, new : Changes(old, new) /\ \A x \in new : Calm(x)
         /\ Unregister(t) => \E old, new : Changes(old, new) /\ \A x \in new : Calm(x)
         /\ CancelEnd(t) => \E old, new : Changes(old, new) /\ \A x \in new : Calm(x)
         /\ Accept(t) => \E old, new : Changes(old, new) /\ \A x \in new : Calm(x)
         /\ DisposeRegistration(t) => \E old, new : Changes(old, new) /\ \A x \in new : Calm(x)
         /\ DropEnd(t) => \E old, new : Changes(old, new) /\ \A x \in new : Calm(x)
         /\ ReleaseResources(t) => \E old, new : Changes(old, new) /\ \A x \in new : Calm(x)
         /\ ReleaseChild(t) => \E old, new : Changes(old, new) /\ \A x \in new : Calm(x)
         /\ ChildrenReleased(t) => \E old, new : Changes(old, new) /\ \A x \in new : Calm(x)
         /\ DisposeSource(t) => \E old, new : Changes(old, new) /\ \A x \in new : Calm(x)
         /\ GetOrCreateScope(t) => \E old, new : Changes(old, new) /\ \A x \in new : Calm(x)
         /\ AddScope(t) => \E old, new : Changes(old, new) /\ \A x \in new : Calm(x)
         /\ Dispose(t) => \E old, new : Changes(old, new) /\ \A x \in new : Calm(x)
<1>0. PICK F : F = Head(stack[t])
  OBVIOUS
<1> DEFINE CalmChange == \E old, new : Changes(old, new) /\ \A x \in new : Calm(x)
<1>1. Changes({F}, {}) => CalmChange
  OBVIOUS
<1>2. ASSUME NEW f, Changes({F}, {f}), Calm(f)
      PROVE  CalmChange
  BY <1>2
<1>3. ASSUME NEW f, NEW g, Changes({F}, {f, g}), Calm(f), Calm(g)
      PROVE  CalmChange
  <2>1. \A x \in {f, g} : Calm(x)
    BY <1>3
  <2> QED BY <1>3, <2>1
<1> HIDE DEF CalmChange
<1>4. FinishCancellation(t) => CalmChange
  BY <1>0, <1>2, FinishFrame DEF Calm
<1>5. Unregister(t) \/ DisposeRegistration(t) => CalmChange
  <2> SUFFICES ASSUME Unregister(t) \/ DisposeRegistration(t) PROVE CalmChange
    OBVIOUS
  <2>1. F.step \in {"unregister", "drop", "registrations"}
    BY <1>0, HeldFrame DEF TopIs
  <2>2. PICK f \in Frames : Changes({F}, {f}) /\ f.step = F.step
    BY <1>0, HeldFrame
  <2> QED BY <1>2, <2>1, <2>2 DEF Calm
<1>6. CancelEnd(t) \/ DropEnd(t) \/ DisposeSource(t) \/ AddScope(t) => CalmChange
  BY <1>0, <1>1, ReturnFrame
<1>7. Accept(t) => CalmChange
  BY <1>0, <1>1, <1>2, AcceptFrame DEF Calm, Becomes
<1>8. ReleaseResources(t) => CalmChange
  BY <1>0, <1>1, <1>2, ReleaseFrame DEF Calm, Starts
<1>9. ReleaseChild(t) => CalmChange
  BY <1>0, <1>3, ChildFrames DEF Calm, Releases
<1>10. ChildrenReleased(t) => CalmChange
  BY <1>0, <1>2, ChildrenReleasedFrame DEF Calm, Becomes
<1>11. GetOrCreateScope(t) => CalmChange
  BY <1>0, <1>1, <1>3, GetFrames DEF Calm, Makes
<1>12. Dispose(t) => CalmChange
  BY <1>0, <1>1, <1>2, DisposeFrame DEF Calm
<1> QED BY <1>4, <1>5, <1>6, <1>7, <1>8, <1>9, <1>10, <1>11, <1>12 DEF CalmChange

LEMMA CallbacksShrink ==
  ASSUME TypeOK, FramesFit, NEW t \in Threads,
         \/ FinishCancellation(t) \/ Unregister(t) \/ CancelEnd(t) \/ Accept(t)
         \/ DisposeRegistration(t) \/ DropEnd(t) \/ ReleaseResources(t) \/ ReleaseChild(t)
         \/ ChildrenReleased(t) \/ DisposeSource(t)
         \/ GetOrCreateScope(t) \/ AddScope(t) \/ Dispose(t)
  PROVE  /\ UNCHANGED <<source, observed>>
         /\ \A k \in Tokens : callbacks'[k] \subseteq callbacks[k]
<1>0. PICK F : F = Head(stack[t])
  OBVIOUS
<1>1. ASSUME Unregister(t) \/ DisposeRegistration(t)
      PROVE  \A k \in Tokens : callbacks'[k] \subseteq callbacks[k]
  <2>1. PICK k \in Tokens : Drops(k, F.of)
    BY <1>0, <1>1, HeldFrame
  <2> QED BY <2>1, DropsShrink
<1>2. ASSUME DisposeSource(t)
      PROVE  \A k \in Tokens : callbacks'[k] \subseteq callbacks[k]
  BY <1>2 DEF DisposeSource, TypeOK, ScopeTypeOK
<1>3. ASSUME Unregister(t) \/ DisposeRegistration(t) \/ DisposeSource(t)
      PROVE  UNCHANGED <<source, observed>>
  BY <1>3 DEF Unregister, DisposeRegistration, DisposeSource
<1>4. ASSUME \/ FinishCancellation(t) \/ CancelEnd(t) \/ Accept(t) \/ DropEnd(t)
             \/ ReleaseResources(t) \/ ReleaseChild(t) \/ ChildrenReleased(t)
      PROVE  UNCHANGED <<source, observed, callbacks>>
  BY <1>4 DEF FinishCancellation, CancelEnd, Accept, DropEnd, ReleaseResources, ReleaseChild,
     ChildrenReleased, sourceVars
<1>5. ASSUME GetOrCreateScope(t) \/ AddScope(t) \/ Dispose(t)
      PROVE  UNCHANGED <<source, observed, callbacks>>
  BY <1>5 DEF GetOrCreateScope, AddScope, Dispose, sourceVars
<1> QED BY <1>1, <1>2, <1>3, <1>4, <1>5

LEMMA CauseStep ==
  ASSUME TypeOK, FramesFit, CauseInv, NEW t \in Threads, Step(t) \/ Call(t)
  PROVE  CauseInv'
<1>1. Step(t) => UNCHANGED asked
  BY DEF Step, utilsVars, GetOrCreateScope, AddScope, Dispose
<1>2. ASSUME \/ FinishCancellation(t) \/ Unregister(t) \/ CancelEnd(t) \/ Accept(t)
             \/ DisposeRegistration(t) \/ DropEnd(t) \/ ReleaseResources(t) \/ ReleaseChild(t)
             \/ ChildrenReleased(t) \/ DisposeSource(t)
             \/ GetOrCreateScope(t) \/ AddScope(t) \/ Dispose(t),
             UNCHANGED asked
      PROVE  CauseInv'
  <2>1. \E old, new : Changes(old, new) /\ \A x \in new : Calm(x)
    BY <1>2, CalmFrames
  <2>2. PICK old : \E new : Changes(old, new) /\ \A x \in new : Calm(x)
    BY <2>1
  <2>3. PICK new : Changes(old, new) /\ \A x \in new : Calm(x)
    BY <2>2
  <2>4. Changes(old, new)
    BY <2>3
  <2>5. \A x \in new : Calm(x)
    BY <2>3
  <2>6. UNCHANGED <<source, observed>> /\ \A k \in Tokens : callbacks'[k] \subseteq callbacks[k]
    BY <1>2, CallbacksShrink
  <2> QED BY <1>2, <2>4, <2>5, <2>6, CauseSame
<1> QED BY <1>1, <1>2, CauseCancel, CauseMerge, CauseCall DEF Step, ScopeStep

LEMMA CauseStill == UNCHANGED vars /\ CauseInv => CauseInv'
<1> SUFFICES ASSUME UNCHANGED vars, CauseInv PROVE CauseInv'
  OBVIOUS
<1>1. \A k : HasCause(k) => HasCause(k)'
  BY StandStill, CauseGrows DEF Grows
<1>2. Cancelling' = Cancelling
  BY DEF Cancelling
<1> QED BY <1>1, <1>2, StandStill DEF CauseInv, CauseFits, IsCancellationRequested

(* A scope is cancelled only for a reason: a user asked for it, or for a    *)
(* token that it merged, directly or through other scopes.                 *)
THEOREM CancellationIsCaused == Spec => []CancellationHasCause
<1> DEFINE I == TypeOK /\ FramesFit /\ CauseInv
<1>1. Init => I
  <2> SUFFICES ASSUME Init PROVE CauseInv
    BY TypeInit
  <2>1. \A k \in Tokens : source[k] = "live" /\ callbacks[k] = {}
    BY DEF Init, ScopeInit
  <2> QED BY <2>1, NoFrames DEF CauseInv, IsCancellationRequested
<1>2. I /\ [Next]_vars => I'
  <2> SUFFICES ASSUME I, [Next]_vars PROVE CauseInv'
    BY TypeStep
  <2>1. CASE UNCHANGED vars
    BY <2>1, CauseStill
  <2>2. ASSUME NEW t \in Threads, Step(t) \/ Call(t)
        PROVE  CauseInv'
    BY <2>2, CauseStep
  <2> QED BY <2>1, <2>2 DEF Next, Rest
<1>3. I => CancellationHasCause
  BY DEF CauseInv, CancellationHasCause, Tokens
<1> QED BY <1>1, <1>2, <1>3, PTL DEF Spec

-----------------------------------------------------------------------------
(* The lock and the scopes by their keys.                                  *)

LEMMA LockKept ==
  ASSUME LockInv, SameFrames({"add"}), UNCHANGED <<lock, keyedScopes, utilsDisposed, known>>
  PROVE  LockInv'
<1>1. \A c \in Keys : Some(c, {"add"})' <=> Some(c, {"add"})
  BY DEF SameFrames, Keys
<1>2. Single(Keys, {"add"})'
  BY DEF SameFrames, Keys, LockInv
<1> QED BY <1>1, <1>2 DEF LockInv

LEMMA LockStep ==
  ASSUME TypeOK, FramesFit, LockInv, NEW t \in Threads, Step(t) \/ Call(t)
  PROVE  LockInv' /\ known \subseteq known' /\ (utilsDisposed => utilsDisposed')
<1>0. PICK F : F = Head(stack[t])
  OBVIOUS
<1>S. StackType
  BY DEF TypeOK, ScopeTypeOK, StackType
<1>1. ASSUME ScopeStep(t) /\ UNCHANGED utilsVars
      PROVE  LockInv' /\ known \subseteq known' /\ (utilsDisposed => utilsDisposed')
  <2>1. SameFrames({"add"})
    BY <1>1, OtherFrames DEF ScopeStep
  <2>2. UNCHANGED <<lock, keyedScopes, utilsDisposed, known>>
    BY <1>1 DEF utilsVars
  <2> QED BY <2>1, <2>2, LockKept
<1>2. ASSUME Call(t)
      PROVE  LockInv' /\ known \subseteq known' /\ (utilsDisposed => utilsDisposed')
  <2>1. SameFrames({"add"})
    BY <1>2, OtherFrames
  <2>2. UNCHANGED <<lock, keyedScopes, utilsDisposed, known>>
    BY <1>2, CallShape DEF CallFrom
  <2> QED BY <2>1, <2>2, LockKept
<1>3. ASSUME GetOrCreateScope(t)
      PROVE  LockInv' /\ known \subseteq known' /\ (utilsDisposed => utilsDisposed')
  <2>1. UNCHANGED <<keyedScopes, utilsDisposed, known>>
    BY <1>3 DEF GetOrCreateScope
  <2>2. F.step = "get" /\ F.of \in Keys
    BY <1>0, <1>3, GetFrames DEF TopIs
  <2>3. CASE Changes({F}, {}) /\ UNCHANGED lock
    <3>1. Alike({F}, {}, {"add"})
      BY <2>2 DEF Alike
    <3>2. SameFrames({"add"})
      BY <2>3, <3>1, AlikeFrames
    <3> QED BY <2>1, <2>3, <3>2, LockKept
  <2>4. ASSUME ~utilsDisposed, F.of \notin keyedScopes, lock = NoThread, lock' = t,
               NEW a, NEW m, Makes(F, a, m)
        PROVE  LockInv' /\ known \subseteq known' /\ (utilsDisposed => utilsDisposed')
    <3>2. a.step = "add" /\ a.of = F.of /\ m.step = "merge" /\ m.of = F.of
      BY <2>4 DEF Makes
    <3>3. Changes({F}, {a, m})
      BY <2>4 DEF Makes
    <3>4. \A c \in Keys : ~Some(c, {"add"})
      BY <2>4 DEF LockInv
    <3>5. \A x \in Running : ~Matches(x, Keys, {"add"})
      BY <3>4 DEF Some, Matches
    <3>6. \A x, y \in {a, m} : Matches(x, Keys, {"add"}) /\ Matches(y, Keys, {"add"}) => x = y
      BY <3>2 DEF Matches
    <3>7. Single(Keys, {"add"})'
      <4>1. Single(Keys, {"add"})' 
        BY <3>3, <3>5, <3>6 DEF Changes
      <4> QED BY <4>1
    <3>8. ASSUME NEW c \in Keys, Some(c, {"add"})'
          PROVE  c = F.of
      <4>1. PICK x \in Running' : Matches(x, {c}, {"add"})
        BY <3>8 DEF Some, Matches
      <4>2. x \notin Running
        BY <3>5, <4>1 DEF Matches
      <4>3. x \in {a, m}
        BY <3>3, <4>2 DEF Changes
      <4> QED BY <3>2, <4>1, <4>3 DEF Matches
    <3>9. F.of \notin known /\ lock' # NoThread
      BY <2>2, <2>4, ThreadsAssumption DEF LockInv, Keys
    <3> QED BY <2>1, <2>4, <3>7, <3>8, <3>9 DEF LockInv
  <2> QED BY <1>0, <1>3, <2>3, <2>4, GetFrames
<1>4. ASSUME AddScope(t)
      PROVE  LockInv' /\ known \subseteq known' /\ (utilsDisposed => utilsDisposed')
  <2>1. TopIs(t, F, {"add"}) /\ Changes({F}, {})
    BY <1>0, <1>4, ReturnFrame
  <2>2. F.step = "add" /\ F.of \in Keys
    BY <2>1 DEF TopIs, FrameFits
  <2>3. Matches(F, Keys, {"add"})
    BY <2>2 DEF Matches
  <2>4. \A x, y \in {} : Matches(x, Keys, {"add"}) /\ Matches(y, Keys, {"add"}) => x = y
    OBVIOUS
  <2>5. Single(Keys, {"add"})
    BY DEF LockInv
  <2>6. Single(Keys, {"add"})' /\ \A x \in Running' : Matches(x, Keys, {"add"}) => x \in {}
    BY <2>1, <2>3, <2>4, <2>5 DEF Changes
  <2>7. \A c \in Keys : ~Some(c, {"add"})'
    BY <2>6 DEF Some, Matches
  <2>8. /\ keyedScopes' = keyedScopes \cup {F.of} /\ known' = known \cup {F.of}
        /\ UNCHANGED utilsDisposed
    BY <1>0, <1>4 DEF AddScope, Me
  <2> QED BY <2>6, <2>7, <2>8 DEF LockInv
<1>5. ASSUME Dispose(t)
      PROVE  LockInv' /\ known \subseteq known' /\ (utilsDisposed => utilsDisposed')
  <2>1. SameFrames({"add"})
    BY <1>5, OtherFrames
  <2>2. lock = NoThread /\ UNCHANGED <<lock, known>>
    BY <1>5 DEF Dispose, LockFree
  <2>3. utilsDisposed' /\ (utilsDisposed => keyedScopes' = keyedScopes)
    BY <1>5 DEF Dispose
  <2>4. \A c \in Keys : ~Some(c, {"add"})'
    BY <2>1, <2>2 DEF SameFrames, LockInv, Keys
  <2>5. Single(Keys, {"add"})'
    BY <2>1 DEF SameFrames, Keys, LockInv
  <2> QED BY <2>2, <2>3, <2>4, <2>5 DEF LockInv
<1> QED BY <1>1, <1>2, <1>3, <1>4, <1>5 DEF Step

-----------------------------------------------------------------------------
(* The children that are still to be released.                             *)

KnownChildren(x) == x.children \subseteq known \ {Root}

LEMMA ChildrenFrames ==
  ASSUME TypeOK, FramesFit, LockInv, ChildrenInv, NEW t \in Threads, Step(t) \/ Call(t)
  PROVE  \A x \in Running' : KnownChildren(x)
<1>0. PICK F : F = Head(stack[t])
  OBVIOUS
<1> DEFINE All == \A x \in Running' : KnownChildren(x)
<1>1. ASSUME NEW old, NEW new, Changes(old, new), \A x \in new : KnownChildren(x)
      PROVE  All
  BY <1>1 DEF Changes, ChildrenInv, KnownChildren
<1>2. Changes({F}, {}) => All
  <2> SUFFICES ASSUME Changes({F}, {}) PROVE All
    OBVIOUS
  <2>1. \A x \in {} : KnownChildren(x)
    OBVIOUS
  <2> QED BY <1>1, <2>1
<1>3. ASSUME NEW f, Changes({F}, {f}), KnownChildren(f)
      PROVE  All
  <2>1. \A x \in {f} : KnownChildren(x)
    BY <1>3
  <2> QED BY <1>1, <1>3, <2>1
<1>4. ASSUME NEW f, NEW g, Changes({F}, {f, g}), KnownChildren(f), KnownChildren(g)
      PROVE  All
  <2>1. \A x \in {f, g} : KnownChildren(x)
    BY <1>4
  <2> QED BY <1>1, <1>4, <2>1
<1>5. F \in Running => KnownChildren(F)
  BY DEF ChildrenInv, KnownChildren
<1> HIDE DEF All
<1>6. TryBeginCancellation(t) => All
  BY <1>0, <1>2, <1>3, <1>5, BeginFrame DEF Becomes, TopIs, KnownChildren
<1>7. Signal(t) => All
  BY <1>0, <1>2, <1>3, <1>5, SignalFrame DEF Becomes, TopIs, KnownChildren
<1>8. NotifyEnd(t) => All
  BY <1>0, <1>2, <1>3, <1>5, NotifyEndFrame DEF Becomes, TopIs, KnownChildren
<1>9. Accept(t) => All
  BY <1>0, <1>2, <1>3, <1>5, AcceptFrame DEF Becomes, TopIs, KnownChildren
<1>10. ChildrenReleased(t) => All
  BY <1>0, <1>2, <1>3, <1>5, ChildrenReleasedFrame DEF Becomes, TopIs, KnownChildren
<1>11. ASSUME Notify(t) PROVE All
  <2>1. F \in Running
    BY <1>0, <1>11, NotifyFrames DEF TopIs
  <2>2. PICK s \in Scopes : \E c \in Frames : c.children = {} /\ Changes({F}, {F, c})
    BY <1>0, <1>11, NotifyFrames
  <2>3. PICK c \in Frames : c.children = {} /\ Changes({F}, {F, c})
    BY <2>2
  <2> QED BY <1>4, <1>5, <2>1, <2>3 DEF KnownChildren
<1>12. ASSUME FinishCancellation(t) PROVE All
  <2>1. F \in Running /\ F.of \in Scopes
    BY <1>0, <1>12, FinishFrame DEF TopIs
  <2>2. PICK f \in Frames : /\ Changes({F}, {f})
                            /\ f.children \in {F.children, beforeScopeResources[F.of]}
    BY <1>0, <1>12, FinishFrame
  <2>3. KnownChildren(f)
    BY <1>5, <2>1, <2>2 DEF KnownChildren, ChildrenInv, Postponed
  <2> QED BY <1>3, <2>2, <2>3
<1>13. Unregister(t) \/ DisposeRegistration(t) => All
  BY <1>0, <1>3, <1>5, HeldFrame DEF TopIs, KnownChildren
<1>14. CancelEnd(t) \/ DropEnd(t) \/ DisposeSource(t) \/ AddScope(t) => All
  BY <1>0, <1>2, ReturnFrame
<1>15. MergeBegin(t) => All
  BY <1>0, <1>2, <1>3, <1>5, MergeFrame DEF Becomes, TopIs, KnownChildren
<1>16. ASSUME Register(t) PROVE All
  <2>1. F \in Running
    BY <1>0, <1>16, RegisterFrames DEF TopIs
  <2>2. PICK f : \E c, k : Registers(F, f, c, k)
    BY <1>0, <1>16, RegisterFrames
  <2>3. PICK c : \E k : Registers(F, f, c, k)
    BY <2>2
  <2>4. PICK k : Registers(F, f, c, k)
    BY <2>3
  <2>5. KnownChildren(f) /\ KnownChildren(c)
    BY <1>5, <2>1, <2>4 DEF Registers, KnownChildren
  <2>6. Changes({F}, {f}) \/ Changes({F}, {f, c})
    BY <2>4 DEF Registers
  <2> QED BY <1>3, <1>4, <2>5, <2>6
<1>17. ReleaseResources(t) => All
  BY <1>0, <1>2, <1>3, <1>5, ReleaseFrame DEF Starts, TopIs, KnownChildren
<1>18. ReleaseChild(t) => All
  BY <1>0, <1>4, <1>5, ChildFrames DEF Releases, TopIs, KnownChildren
<1>19. GetOrCreateScope(t) => All
  BY <1>0, <1>2, <1>4, GetFrames DEF Makes, KnownChildren
<1>20. ASSUME Dispose(t) PROVE All
  <2>1. \/ Changes({F}, {})
        \/ /\ ~utilsDisposed
           /\ \E r \in Frames : Changes({F}, {r}) /\ r.children = keyedScopes
    BY <1>0, <1>20, DisposeFrame
  <2>2. ~utilsDisposed => keyedScopes \subseteq known \ {Root}
    BY DEF LockInv, TypeOK, Keys
  <2> QED BY <1>2, <1>3, <2>1, <2>2 DEF KnownChildren
<1>21. ASSUME Call(t) PROVE All
  <2>1. PICK f \in Frames : CallFrame(f) /\ Changes({}, {f})
    BY <1>21, CallShape
  <2>2. \A x \in {f} : KnownChildren(x)
    BY <2>1 DEF CallFrame, KnownChildren
  <2> QED BY <1>1, <2>1, <2>2
<1> QED
  BY <1>6, <1>7, <1>8, <1>9, <1>10, <1>11, <1>12, <1>13, <1>14, <1>15, <1>16, <1>17, <1>18,
     <1>19, <1>20, <1>21 DEF All, Step, ScopeStep

LEMMA StaysPostponed ==
  ASSUME TypeOK, FramesFit, NEW t \in Threads, Step(t) \/ Call(t),
         ~FinishCancellation(t), ~ReleaseResources(t)
  PROVE  UNCHANGED <<beforeScopeResources, disposeAfterCancellation>>
<1>1. ASSUME \/ Signal(t) \/ Notify(t) \/ NotifyEnd(t) \/ Unregister(t) \/ CancelEnd(t)
             \/ Register(t) \/ TryBeginCancellation(t)
      PROVE  UNCHANGED <<beforeScopeResources, disposeAfterCancellation>>
  BY <1>1 DEF Signal, Notify, NotifyEnd, Unregister, CancelEnd, Register,
     TryBeginCancellation, lockedVars
<1>2. ASSUME \/ MergeBegin(t) \/ Accept(t) \/ DropEnd(t) \/ DisposeRegistration(t)
      PROVE  UNCHANGED <<beforeScopeResources, disposeAfterCancellation>>
  BY <1>2 DEF MergeBegin, Accept, DropEnd, DisposeRegistration, lockedVars
<1>3. ASSUME \/ ReleaseChild(t) \/ ChildrenReleased(t) \/ DisposeSource(t)
             \/ GetOrCreateScope(t) \/ AddScope(t) \/ Dispose(t)
      PROVE  UNCHANGED <<beforeScopeResources, disposeAfterCancellation>>
  BY <1>3 DEF ReleaseChild, ChildrenReleased, DisposeSource, GetOrCreateScope, AddScope,
     Dispose, lockedVars
<1>4. ASSUME Call(t)
      PROVE  UNCHANGED <<beforeScopeResources, disposeAfterCancellation>>
  BY <1>4, CallShape DEF CallFrom, lockedVars
<1> QED BY <1>1, <1>2, <1>3, <1>4 DEF Step, ScopeStep

LEMMA PostponedStep ==
  ASSUME TypeOK, FramesFit, ChildrenInv, NEW t \in Threads, Step(t) \/ Call(t),
         known \subseteq known'
  PROVE  Postponed'
<1>0. PICK F : F = Head(stack[t])
  OBVIOUS
<1>1. /\ beforeScopeResources \in [Scopes -> SUBSET Scopes]
      /\ disposeAfterCancellation \in [Scopes -> BOOLEAN]
  BY DEF TypeOK, ScopeTypeOK
<1>P. Postponed
  BY DEF ChildrenInv
<1>2. ASSUME UNCHANGED <<beforeScopeResources, disposeAfterCancellation>>
      PROVE  Postponed'
  BY <1>2, <1>P DEF Postponed
<1>3. ASSUME FinishCancellation(t)
      PROVE  Postponed'
  <2>1. /\ disposeAfterCancellation' = [disposeAfterCancellation EXCEPT ![F.of] = FALSE]
        /\ \/ beforeScopeResources' = [beforeScopeResources EXCEPT ![F.of] = {}]
           \/ ~disposeAfterCancellation[F.of] /\ beforeScopeResources' = beforeScopeResources
    BY <1>0, <1>3 DEF FinishCancellation, Me
  <2> QED BY <1>1, <1>P, <2>1 DEF Postponed
<1>4. ASSUME ReleaseResources(t)
      PROVE  Postponed'
  <2>1. \/ UNCHANGED <<beforeScopeResources, disposeAfterCancellation>>
        \/ /\ disposeAfterCancellation' = [disposeAfterCancellation EXCEPT ![F.of] = TRUE]
           /\ beforeScopeResources' = [beforeScopeResources EXCEPT ![F.of] = F.children]
    BY <1>0, <1>4 DEF ReleaseResources, Me, Children, lockedVars
  <2>2. F.children \subseteq known \ {Root}
    BY <1>0, <1>4, ReleaseFrame DEF TopIs, ChildrenInv
  <2> QED BY <1>1, <1>2, <1>P, <2>1, <2>2 DEF Postponed
<1> QED BY <1>2, <1>3, <1>4, StaysPostponed

LEMMA ChildrenStep ==
  ASSUME TypeOK, FramesFit, LockInv, ChildrenInv, NEW t \in Threads, Step(t) \/ Call(t)
  PROVE  ChildrenInv'
<1>1. known \subseteq known'
  BY LockStep
<1>2. Postponed'
  BY <1>1, PostponedStep
<1>3. \A x \in Running' : x.children \subseteq known' \ {Root}
  BY <1>1, ChildrenFrames DEF KnownChildren
<1> QED BY <1>2, <1>3 DEF ChildrenInv

-----------------------------------------------------------------------------
(* The disposals of the root and of its children.                          *)

LEMMA NewFrame ==
  ASSUME NEW old, NEW new, Changes(old, new), NEW s, NEW k, Some(s, k)'
  PROVE  Some(s, k) \/ Has(new, s, k)
<1>1. PICK x \in Running' : x.of = s /\ x.step \in k
  BY DEF Some, Matches
<1>2. CASE x \in Running
  BY <1>1, <1>2 DEF Some, Matches
<1>3. CASE x \in new
  BY <1>1, <1>3 DEF Has
<1> QED BY <1>2, <1>3 DEF Changes

LEMMA StaysDisposed ==
  ASSUME TypeOK, NEW t \in Threads, Step(t) \/ Call(t)
  PROVE  /\ ~ReleaseResources(t) => UNCHANGED isDisposed
         /\ \A s \in Scopes : isDisposed[s] => isDisposed'[s]
<1>1. ASSUME \/ Signal(t) \/ Notify(t) \/ NotifyEnd(t) \/ Unregister(t) \/ CancelEnd(t)
             \/ Register(t) \/ TryBeginCancellation(t) \/ FinishCancellation(t)
      PROVE  UNCHANGED isDisposed
  BY <1>1 DEF Signal, Notify, NotifyEnd, Unregister, CancelEnd, Register,
     TryBeginCancellation, FinishCancellation, lockedVars
<1>2. ASSUME \/ MergeBegin(t) \/ Accept(t) \/ DropEnd(t) \/ DisposeRegistration(t)
      PROVE  UNCHANGED isDisposed
  BY <1>2 DEF MergeBegin, Accept, DropEnd, DisposeRegistration, lockedVars
<1>3. ASSUME \/ ReleaseChild(t) \/ ChildrenReleased(t) \/ DisposeSource(t)
             \/ GetOrCreateScope(t) \/ AddScope(t) \/ Dispose(t)
      PROVE  UNCHANGED isDisposed
  BY <1>3 DEF ReleaseChild, ChildrenReleased, DisposeSource, GetOrCreateScope, AddScope,
     Dispose, lockedVars
<1>4. ASSUME Call(t)
      PROVE  UNCHANGED isDisposed
  BY <1>4 DEF Call, CallCancel, CallMerge, CallGetOrCreateScope, CallDispose, CallFrom, lockedVars
<1>5. ASSUME ReleaseResources(t)
      PROVE  \A s \in Scopes : isDisposed[s] => isDisposed'[s]
  <2>1. UNCHANGED isDisposed \/ isDisposed' = [isDisposed EXCEPT ![Me(t)] = TRUE]
    BY <1>5 DEF ReleaseResources, lockedVars
  <2> QED BY <2>1 DEF TypeOK, ScopeTypeOK
<1> QED BY <1>1, <1>2, <1>3, <1>4, <1>5 DEF Step, ScopeStep

LEMMA RootStaysGone ==
  ASSUME TypeOK, FramesFit, RootGone, NEW t \in Threads, Step(t) \/ Call(t)
  PROVE  RootGone'
<1>0. PICK F : F = Head(stack[t])
  OBVIOUS
<1>1. isDisposed'[Root]
  BY StaysDisposed, UtilsAssumption DEF RootGone
<1>2. ASSUME TryBeginCancellation(t)
      PROVE  ~isCancellationInProgress'[Root]
  <2>1. IF CanAcceptCancellation(F.of)
        THEN isCancellationInProgress' = [isCancellationInProgress EXCEPT ![F.of] = TRUE]
        ELSE UNCHANGED isCancellationInProgress
    BY <1>0, <1>2 DEF TryBeginCancellation, Me
  <2> QED BY <2>1, UtilsAssumption DEF RootGone, CanAcceptCancellation, TypeOK, ScopeTypeOK
<1>3. ASSUME FinishCancellation(t)
      PROVE  ~isCancellationInProgress'[Root]
  <2>1. isCancellationInProgress' = [isCancellationInProgress EXCEPT ![F.of] = FALSE]
    BY <1>0, <1>3 DEF FinishCancellation, Me
  <2> QED BY <2>1, UtilsAssumption DEF RootGone, TypeOK, ScopeTypeOK
<1>4. ASSUME \/ Signal(t) \/ Notify(t) \/ NotifyEnd(t) \/ Unregister(t) \/ CancelEnd(t)
             \/ Register(t)
      PROVE  UNCHANGED isCancellationInProgress
  BY <1>4 DEF Signal, Notify, NotifyEnd, Unregister, CancelEnd, Register, lockedVars
<1>5. ASSUME MergeBegin(t) \/ Accept(t) \/ DropEnd(t) \/ DisposeRegistration(t)
      PROVE  UNCHANGED isCancellationInProgress
  BY <1>5 DEF MergeBegin, Accept, DropEnd, DisposeRegistration, lockedVars
<1>6. ASSUME \/ ReleaseChild(t) \/ ChildrenReleased(t) \/ DisposeSource(t)
             \/ GetOrCreateScope(t) \/ AddScope(t) \/ Dispose(t) \/ ReleaseResources(t)
      PROVE  UNCHANGED isCancellationInProgress
  BY <1>6 DEF ReleaseChild, ChildrenReleased, DisposeSource, GetOrCreateScope, AddScope,
     Dispose, ReleaseResources, lockedVars
<1>7. ASSUME Call(t)
      PROVE  UNCHANGED isCancellationInProgress
  BY <1>7, CallShape DEF CallFrom, lockedVars
<1> QED BY <1>1, <1>2, <1>3, <1>4, <1>5, <1>6, <1>7 DEF RootGone, Step, ScopeStep

(* Where no frame begins or ends to release.                               *)
LEMMA SameReleases ==
  ASSUME TypeOK, FramesFit, NEW t \in Threads, Step(t) \/ Call(t),
         ~ReleaseResources(t), ~ReleaseChild(t), ~Dispose(t)
  PROVE  SameFrames({"release"})
BY OtherFrames DEF Step, ScopeStep

LEMMA RootStep ==
  ASSUME TypeOK, FramesFit, LockInv, ChildrenInv, RootInv, NEW t \in Threads, Step(t) \/ Call(t)
  PROVE  RootInv'
<1>0. PICK F : F = Head(stack[t])
  OBVIOUS
<1>1. (utilsDisposed => utilsDisposed') /\ Root \in Scopes
  BY LockStep, UtilsAssumption
<1>S. StackType
  BY DEF TypeOK, ScopeTypeOK, StackType
<1>2. ASSUME UNCHANGED isDisposed,
             Some(Root, {"release"})' => Some(Root, {"release"}),
             Single({Root}, {"release"})'
      PROVE  RootInv'
  BY <1>1, <1>2 DEF RootInv
<1>3. ASSUME ~ReleaseResources(t), ~ReleaseChild(t), ~Dispose(t)
      PROVE  RootInv'
  <2>1. SameFrames({"release"}) /\ UNCHANGED isDisposed
    BY <1>3, SameReleases, StaysDisposed
  <2> QED BY <1>1, <1>2, <2>1 DEF SameFrames, RootInv
<1>4. ASSUME ReleaseResources(t)
      PROVE  RootInv'
  <2>1. F.step = "release" /\ F.of \in Scopes /\ F \in Running
    BY <1>0, <1>4, ReleaseFrame DEF TopIs
  <2>2. \/ Changes({F}, {})
        \/ \E f : Starts(F, f)
    BY <1>0, <1>4, ReleaseFrame
  <2>3. UNCHANGED isDisposed \/ isDisposed' = [isDisposed EXCEPT ![F.of] = TRUE]
    BY <1>0, <1>4 DEF ReleaseResources, Me, lockedVars
  <2>4. CASE F.of # Root
    <3>1. isDisposed'[Root] = isDisposed[Root]
      BY <1>1, <2>3, <2>4 DEF TypeOK, ScopeTypeOK
    <3>2. (Some(Root, {"release"})' <=> Some(Root, {"release"})) /\ Single({Root}, {"release"})'
      <4>1. Single({Root}, {"release"})
        BY DEF RootInv
      <4>2. CASE Changes({F}, {})
        <5>1. F.of = F.of
          OBVIOUS
        <5> QED BY <2>4, <4>1, <4>2, <5>1, OtherFrame
      <4>3. ASSUME NEW f, Changes({F}, {f}), f.of = F.of
            PROVE  /\ Some(Root, {"release"})' <=> Some(Root, {"release"})
                   /\ Single({Root}, {"release"})'
        BY <2>4, <4>1, <4>3, OtherFrame
      <4> QED BY <2>2, <4>2, <4>3 DEF Starts
    <3> QED BY <1>1, <3>1, <3>2 DEF RootInv
  <2>5. CASE F.of = Root
    <3>1. Some(Root, {"release"})
      BY <2>1, <2>5 DEF Some, Matches
    <3>2. utilsDisposed'
      BY <1>1, <3>1 DEF RootInv
    <3>3. Single({Root}, {"release"}) /\ F.step \in {"release"}
      BY <2>1 DEF RootInv
    <3>4. ~Some(Root, {"release"})' /\ Single({Root}, {"release"})'
      <4>1. CASE Changes({F}, {})
        <5>1. /\ Single({Root}, {"release"})'
              /\ \A k \in SUBSET {"release"} : ~Some(Root, k)'
          BY <1>S, <2>5, <3>3, <4>1, LastFrame
        <5> QED BY <5>1
      <4>2. ASSUME NEW f, Changes({F}, {f}), f.of = F.of, f.step = "before"
            PROVE  ~Some(Root, {"release"})' /\ Single({Root}, {"release"})'
        <5>1. /\ Single({Root}, {"release"})'
              /\ \A k \in SUBSET {"release"} : Some(Root, k)' <=> f.step \in k
          BY <1>S, <2>5, <3>3, <4>2, NextFrame
        <5> QED BY <4>2, <5>1
      <4> QED BY <2>2, <4>1, <4>2 DEF Starts
    <3> QED BY <3>2, <3>4 DEF RootInv
  <2> QED BY <2>4, <2>5
<1>5. ASSUME ReleaseChild(t)
      PROVE  RootInv'
  <2>1. F.step = "before" /\ F.children \subseteq known \ {Root}
    BY <1>0, <1>5, ChildFrames DEF TopIs, ChildrenInv
  <2>2. PICK f, r, c : Releases(F, f, r, c)
    BY <1>0, <1>5, ChildFrames
  <2>4. f.step = "before" /\ r.of = c /\ c \in F.children
    BY <2>2 DEF Releases
  <2>5. Changes({F}, {f, r})
    BY <2>2 DEF Releases
  <2>6. \A x \in {f, r} : ~Matches(x, {Root}, {"release"})
    BY <2>1, <2>4 DEF Matches
  <2>7. UNCHANGED isDisposed
    BY <1>5 DEF ReleaseChild, lockedVars
  <2>8. Some(Root, {"release"})' => Some(Root, {"release"})
    BY <2>5, <2>6, NewFrame DEF Has, Matches
  <2>9. Single({Root}, {"release"})'
    BY <2>5, <2>6 DEF RootInv, Changes
  <2> QED BY <1>2, <2>7, <2>8, <2>9
<1>6. ASSUME Dispose(t)
      PROVE  RootInv'
  <2>1. F.step = "dispose" /\ UNCHANGED isDisposed
    BY <1>0, <1>6, DisposeFrame DEF TopIs, Dispose, lockedVars
  <2>2. CASE Changes({F}, {})
    <3>1. Alike({F}, {}, {"release"})
      BY <2>1 DEF Alike
    <3>2. SameFrames({"release"})
      BY <2>2, <3>1, AlikeFrames
    <3> QED BY <1>1, <1>2, <2>1, <3>2 DEF SameFrames, RootInv
  <2>3. ASSUME ~utilsDisposed, utilsDisposed', NEW r, Changes({F}, {r}), r.of = Root
        PROVE  RootInv'
    <3>1. ~Some(Root, {"release"}) /\ ~isDisposed[Root]
      BY <2>3 DEF RootInv
    <3>2. ~Some(Root, {"release"})
      BY <3>1
    <3>3. /\ Single({Root}, {"release"})'
          /\ \A k \in SUBSET {"release"} : Some(Root, k)' <=> r.step \in k
      BY <2>3, <3>2, FirstFrame
    <3> QED BY <2>1, <2>3, <3>1, <3>3 DEF RootInv
  <2> QED BY <1>0, <1>6, <2>2, <2>3, DisposeFrame
<1> QED BY <1>3, <1>4, <1>5, <1>6

LEMMA ChildStep ==
  ASSUME TypeOK, FramesFit, DisposeInv, LockInv, ChildrenInv, ChildInv,
         NEW t \in Threads, Step(t) \/ Call(t)
  PROVE  ChildInv'
<1> SUFFICES ASSUME NEW c \in Keys, isDisposed'[c] \/ Some(c, {"release"})'
             PROVE  RootGone' /\ c \in known'
  BY DEF ChildInv
<1>0. PICK F : F = Head(stack[t])
  OBVIOUS
<1>1. RootGone /\ c \in known => RootGone' /\ c \in known'
  BY RootStaysGone, LockStep
<1>2. isDisposed[c] \/ Some(c, {"release"}) => RootGone /\ c \in known
  BY DEF ChildInv
<1>3. c \in Scopes /\ c # Root
  BY DEF Keys
<1>4. CASE ~ReleaseResources(t) /\ ~ReleaseChild(t) /\ ~Dispose(t)
  <2>1. SameFrames({"release"}) /\ UNCHANGED isDisposed
    BY <1>4, SameReleases, StaysDisposed
  <2> QED BY <1>1, <1>2, <1>3, <2>1 DEF SameFrames
<1>5. CASE ReleaseResources(t)
  <2>1. F.step = "release" /\ F.of \in Scopes /\ F \in Running
    BY <1>0, <1>5, ReleaseFrame DEF TopIs
  <2>2. Some(F.of, {"release"})
    BY <2>1 DEF Some, Matches
  <2>3. Some(c, {"release"})' => Some(c, {"release"})
    <3>1. CASE Changes({F}, {})
      BY <3>1, NewFrame DEF Has
    <3>2. ASSUME NEW f, Changes({F}, {f}), f.step = "before"
          PROVE  Some(c, {"release"})' => Some(c, {"release"})
      <4>1. ~Has({f}, c, {"release"})
        BY <3>2 DEF Has
      <4> QED BY <3>2, <4>1, NewFrame
    <3> QED BY <1>0, <1>5, <3>1, <3>2, ReleaseFrame DEF Starts
  <2>4. UNCHANGED isDisposed \/ isDisposed' = [isDisposed EXCEPT ![F.of] = TRUE]
    BY <1>0, <1>5 DEF ReleaseResources, Me, lockedVars
  <2>5. isDisposed'[c] => isDisposed[c] \/ c = F.of
    BY <1>3, <2>4 DEF TypeOK, ScopeTypeOK
  <2> QED BY <1>1, <1>2, <2>2, <2>3, <2>5
<1>6. CASE ReleaseChild(t)
  <2>1. /\ F.step = "before" /\ F \in Running /\ FrameFits(F)
        /\ F.children \subseteq known \ {Root}
    BY <1>0, <1>6, ChildFrames DEF TopIs, ChildrenInv
  <2>2. PICK f, r, d : Releases(F, f, r, d)
    BY <1>0, <1>6, ChildFrames
  <2>4. f.step = "before" /\ r.of = d /\ d \in F.children
    BY <2>2 DEF Releases
  <2>5. Changes({F}, {f, r})
    BY <2>2 DEF Releases
  <2>6. F.of = Root
    BY <2>1, <2>4 DEF FrameFits
  <2>7. Some(Root, Disposing)
    BY <2>1, <2>6 DEF Some, Matches, Disposing
  <2>8. RootGone
    BY <2>7, UtilsAssumption DEF DisposeInv, DisposeAt, RootGone
  <2>9. UNCHANGED isDisposed
    BY <1>6 DEF ReleaseChild, lockedVars
  <2>10. Some(c, {"release"})' => Some(c, {"release"}) \/ c = d
    <3>1. Has({f, r}, c, {"release"}) => c = d
      BY <2>4 DEF Has
    <3> QED BY <2>5, <3>1, NewFrame
  <2> QED BY <1>1, <1>2, <2>1, <2>4, <2>8, <2>9, <2>10
<1>7. CASE Dispose(t)
  <2>1. UNCHANGED isDisposed
    BY <1>7 DEF Dispose, lockedVars
  <2>2. Some(c, {"release"})' => Some(c, {"release"})
    <3>1. CASE Changes({F}, {})
      BY <3>1, NewFrame DEF Has
    <3>2. ASSUME NEW r, Changes({F}, {r}), r.of = Root
          PROVE  Some(c, {"release"})' => Some(c, {"release"})
      <4>1. ~Has({r}, c, {"release"})
        BY <1>3, <3>2 DEF Has
      <4> QED BY <3>2, <4>1, NewFrame
    <3> QED BY <1>0, <1>7, <3>1, <3>2, DisposeFrame
  <2> QED BY <1>1, <1>2, <2>1, <2>2
<1> QED BY <1>4, <1>5, <1>6, <1>7

FamilyInv == SafetyInv /\ LockInv /\ ChildrenInv /\ RootInv /\ ChildInv

LEMMA FamilyInit == Init => FamilyInv
<1> SUFFICES ASSUME Init PROVE FamilyInv
  OBVIOUS
<1>1. SafetyInv
  BY TypeInit, SafetyInit DEF SafetyInv
<1>2. /\ Running = {} /\ (\A s, k : ~Some(s, k)) /\ (\A S, K : Single(S, K))
  BY NoFrames
<1>3. /\ known = {Root} /\ keyedScopes = {} /\ ~utilsDisposed
      /\ \A s \in Scopes : ~isDisposed[s] /\ beforeScopeResources[s] = {}
  BY DEF Init, ScopeInit
<1>4. Root \in Scopes /\ Keys \subseteq Scopes
  BY UtilsAssumption DEF Keys
<1>5. LockInv
  BY <1>2, <1>3 DEF LockInv
<1>6. ChildrenInv
  BY <1>2, <1>3 DEF ChildrenInv, Postponed
<1>7. RootInv
  BY <1>2, <1>3, <1>4 DEF RootInv
<1>8. ChildInv
  BY <1>2, <1>3, <1>4 DEF ChildInv
<1> QED BY <1>1, <1>5, <1>6, <1>7, <1>8 DEF FamilyInv

LEMMA FamilyStill ==
  UNCHANGED vars =>
    (LockInv /\ ChildrenInv /\ RootInv /\ ChildInv
       => LockInv' /\ ChildrenInv' /\ RootInv' /\ ChildInv')
<1> SUFFICES ASSUME UNCHANGED vars, LockInv, ChildrenInv, RootInv, ChildInv
             PROVE  LockInv' /\ ChildrenInv' /\ RootInv' /\ ChildInv'
  OBVIOUS
<1>1. /\ \A s, k : Some(s, k)' <=> Some(s, k)
      /\ \A S, K : Single(S, K)' <=> Single(S, K)
  BY StandStill DEF Some, Single, Heights, FrameAt
<1>2. LockInv'
  BY <1>1, StandStill DEF LockInv
<1>3. ChildrenInv'
  BY StandStill DEF ChildrenInv, Postponed
<1>4. RootInv'
  BY <1>1, StandStill DEF RootInv
<1>5. ChildInv'
  BY <1>1, StandStill DEF ChildInv, RootGone
<1> QED BY <1>2, <1>3, <1>4, <1>5

LEMMA FamilyStep == FamilyInv /\ [Next]_vars => FamilyInv'
<1> SUFFICES ASSUME FamilyInv, [Next]_vars PROVE FamilyInv'
  OBVIOUS
<1>1. SafetyInv /\ LockInv /\ ChildrenInv /\ RootInv /\ ChildInv
  BY DEF FamilyInv
<1>2. SafetyInv'
  BY <1>1, SafetyStep
<1>3. TypeOK /\ FramesFit /\ DisposeInv
  BY <1>1 DEF SafetyInv
<1>4. ASSUME NEW t \in Threads, Step(t) \/ Call(t)
      PROVE  LockInv' /\ ChildrenInv' /\ RootInv' /\ ChildInv'
  BY <1>1, <1>3, <1>4, LockStep, ChildrenStep, RootStep, ChildStep
<1>5. ASSUME UNCHANGED vars
      PROVE  LockInv' /\ ChildrenInv' /\ RootInv' /\ ChildInv'
  BY <1>1, <1>5, FamilyStill
<1> QED BY <1>2, <1>4, <1>5 DEF Next, Rest, FamilyInv

(* One thread at a time makes a scope, a scope has one key, the root is     *)
(* disposed once, and its children only after its cancellation, and not     *)
(* one that users have not been given.                                     *)
THEOREM FamilyInvariant == Spec => []FamilyInv
<1>1. Init => FamilyInv
  BY FamilyInit
<1> QED BY <1>1, FamilyStep, PTL DEF Spec

(* While the root's source runs its callbacks no child is disposed, also    *)
(* when one of those callbacks, or another thread, disposes everything.     *)
THEOREM ChildrenOutlive == Spec => []ChildrenOutliveRootCallbacks
<1>1. FamilyInv => ChildrenOutliveRootCallbacks
  <2> SUFFICES ASSUME FamilyInv, source[Root] = "notifying", NEW c \in Keys
               PROVE  ~isDisposed[c]
    BY DEF ChildrenOutliveRootCallbacks
  <2>1. CancelAt(Root) /\ ChildInv
    BY UtilsAssumption DEF FamilyInv, SafetyInv, CancelInv
  <2>2. Some(Root, Cancelling)
    BY <2>1 DEF CancelAt, Some, Matches, Cancelling
  <2>3. ~RootGone
    BY <2>1, <2>2 DEF CancelAt, RootGone
  <2> QED BY <2>1, <2>3 DEF ChildInv
<1> QED BY <1>1, FamilyInvariant, PTL

-----------------------------------------------------------------------------
(* The disposal of the root gets to every child.                           *)

Misses(old, s, k) == \A z \in old : ~Matches(z, {s}, k)

LEMMA KeptFrame ==
  ASSUME NEW old, NEW new, Changes(old, new), NEW s, NEW k, Misses(old, s, k), Some(s, k)
  PROVE  Some(s, k)'
<1>1. PICK x \in Running : Matches(x, {s}, k)
  BY DEF Some
<1>2. x \in Running'
  BY <1>1 DEF Changes, Misses
<1> QED BY <1>1, <1>2 DEF Some, Matches

LEMMA AwaitedKept ==
  ASSUME NEW old, NEW new, Changes(old, new), NEW c, Awaited(c),
         c \in beforeScopeResources[Root] =>
           c \in beforeScopeResources'[Root] \/ \E x \in new : Awaits(x, c),
         \A z \in old : Awaits(z, c) =>
           c \in beforeScopeResources'[Root] \/ \E x \in new : Awaits(x, c)
  PROVE  Awaited(c)'
<1>1. /\ new \subseteq Running'
      /\ \A x \in Running : x \in Running' \/ x \in old
  BY DEF Changes
<1>2. (\E x \in Running' : Awaits(x, c)) => Awaited(c)'
  BY DEF Awaited, Awaits, Matches
<1>3. c \in beforeScopeResources'[Root] => Awaited(c)'
  BY DEF Awaited
<1> QED BY <1>1, <1>2, <1>3 DEF Awaited

Idle(x) == \A c : ~Awaits(x, c)

LEMMA IdleFrame ==
  ASSUME NEW x, FrameFits(x), x.step \notin {"release", "before"}
  PROVE  Idle(x)
BY DEF FrameFits, Idle, Awaits, Matches

LEMMA IdleFrames ==
  ASSUME TypeOK, FramesFit, NEW t \in Threads, Step(t) \/ Call(t),
         ~FinishCancellation(t), ~ReleaseResources(t), ~ReleaseChild(t),
         ~AddScope(t), utilsDisposed \/ ~Dispose(t)
  PROVE  \E old, new : Changes(old, new) /\ \A z \in old : Idle(z)
<1>0. PICK F : F = Head(stack[t])
  OBVIOUS
<1> DEFINE IdleChange == \E old, new : Changes(old, new) /\ \A z \in old : Idle(z)
<1>1. ASSUME NEW new, Changes({F}, new), FrameFits(F), F.step \notin {"release", "before"}
      PROVE  IdleChange
  <2>1. \A z \in {F} : Idle(z)
    BY <1>1, IdleFrame
  <2> QED BY <1>1, <2>1
<1>2. ASSUME NEW f, Changes({}, {f})
      PROVE  IdleChange
  <2>1. \A z \in {} : Idle(z)
    OBVIOUS
  <2> QED BY <1>2, <2>1
<1> HIDE DEF IdleChange
<1>3. TryBeginCancellation(t) => IdleChange
  BY <1>0, <1>1, BeginFrame DEF Becomes, TopIs
<1>4. Signal(t) => IdleChange
  BY <1>0, <1>1, SignalFrame DEF Becomes, TopIs
<1>5. NotifyEnd(t) => IdleChange
  BY <1>0, <1>1, NotifyEndFrame DEF Becomes, TopIs
<1>6. Accept(t) => IdleChange
  BY <1>0, <1>1, AcceptFrame DEF Becomes, TopIs
<1>7. Notify(t) => IdleChange
  BY <1>0, <1>1, NotifyFrames DEF TopIs
<1>8. Unregister(t) \/ DisposeRegistration(t) => IdleChange
  BY <1>0, <1>1, HeldFrame DEF TopIs
<1>9. CancelEnd(t) \/ DropEnd(t) \/ DisposeSource(t) => IdleChange
  BY <1>0, <1>1, ReturnFrame DEF TopIs
<1>10. MergeBegin(t) => IdleChange
  BY <1>0, <1>1, MergeFrame DEF Becomes, TopIs
<1>11. Register(t) => IdleChange
  BY <1>0, <1>1, RegisterFrames DEF Registers, TopIs
<1>12. GetOrCreateScope(t) => IdleChange
  BY <1>0, <1>1, GetFrames DEF Makes, TopIs
<1>13. Dispose(t) => IdleChange
  BY <1>0, <1>1, DisposeFrame DEF TopIs
<1>14. Call(t) => IdleChange
  BY <1>2, CallShape
<1>15. ASSUME ChildrenReleased(t) PROVE IdleChange
  <2>1. TopIs(t, F, {"before"}) /\ \E f : Changes({F}, {f})
    BY <1>0, <1>15, ChildrenReleasedFrame DEF Becomes
  <2>2. F.children = {} /\ F.step = "before"
    BY <1>0, <1>15, <2>1 DEF ChildrenReleased, Children, TopIs
  <2>3. \A z \in {F} : Idle(z)
    BY <2>2 DEF Idle, Awaits, Matches
  <2> QED BY <2>1, <2>3 DEF IdleChange
<1> QED
  BY <1>3, <1>4, <1>5, <1>6, <1>7, <1>8, <1>9, <1>10, <1>11, <1>12, <1>13, <1>14, <1>15
  DEF IdleChange, Step, ScopeStep

LEMMA SameKnown ==
  ASSUME TypeOK, FramesFit, NEW t \in Threads, Step(t) \/ Call(t), ~AddScope(t)
  PROVE  /\ UNCHANGED known
         /\ utilsDisposed \/ ~Dispose(t) => UNCHANGED utilsDisposed
<1>1. Call(t) => UNCHANGED <<known, utilsDisposed>>
  BY CallShape DEF CallFrom
<1>2. Dispose(t) => UNCHANGED known /\ (utilsDisposed => UNCHANGED utilsDisposed)
  BY DEF Dispose
<1> QED BY <1>1, <1>2 DEF Step, utilsVars, GetOrCreateScope

RootLeft == isDisposed[Root] \/ Some(Root, {"release"})
ChildLeft(c) == isDisposed[c] \/ Awaited(c)

LEMMA LeftRelease ==
  ASSUME TypeOK, FramesFit, DisposeInv, LockInv, ChildrenInv, RootInv, LeftInv, utilsDisposed,
         NEW t \in Threads, Step(t) \/ Call(t), ReleaseResources(t)
  PROVE  RootLeft' /\ \A c \in known \ {Root} : ChildLeft(c)'
<1>0. PICK F : F = Head(stack[t])
  OBVIOUS
<1>1. F.step = "release" /\ F.of \in Scopes /\ F \in Running /\ FrameFits(F)
  BY <1>0, ReleaseFrame DEF TopIs
<1>2. /\ isDisposed \in [Scopes -> BOOLEAN] /\ beforeScopeResources \in [Scopes -> SUBSET Scopes]
      /\ known \subseteq Scopes /\ Root \in Scopes
  BY UtilsAssumption DEF TypeOK, ScopeTypeOK
<1>3. RootLeft /\ \A c \in known \ {Root} : ChildLeft(c)
  BY DEF LeftInv, RootLeft, ChildLeft, Awaited
<1>4. isDisposed'[F.of]
  <2>1. \/ isDisposed[F.of] /\ isDisposed' = isDisposed
        \/ isDisposed' = [isDisposed EXCEPT ![F.of] = TRUE]
    BY <1>0, ReleaseFrame DEF lockedVars
  <2> QED BY <1>1, <1>2, <2>1
<1>5. \A s \in Scopes : isDisposed[s] => isDisposed'[s]
  BY StaysDisposed
<1>6. \E new : Changes({F}, new)
  BY <1>0, ReleaseFrame DEF Starts
<1>7. F.of # Root => F.children = {}
  BY <1>1 DEF FrameFits
<1>8. RootLeft'
  <2>1. CASE F.of = Root
    BY <1>4, <2>1 DEF RootLeft
  <2>2. CASE F.of # Root
    <3>1. Some(Root, {"release"}) => Some(Root, {"release"})'
      <4>1. PICK new : Changes({F}, new)
        BY <1>6
      <4>2. Misses({F}, Root, {"release"})
        BY <2>2 DEF Matches, Misses
      <4> QED BY <4>1, <4>2, KeptFrame
    <3> QED BY <1>2, <1>3, <1>5, <3>1 DEF RootLeft
  <2> QED BY <2>1, <2>2
<1>9. ASSUME NEW c \in known \ {Root}, ~isDisposed'[c]
      PROVE  Awaited(c)'
  <2>1. Awaited(c) /\ c # F.of /\ c \in Scopes
    BY <1>2, <1>3, <1>4, <1>5, <1>9 DEF ChildLeft
  <2>2. Awaits(F, c) => c \in F.children /\ F.of = Root
    BY <1>7, <2>1 DEF Awaits, Matches
  <2>3. ~isDisposed[Root] => c \notin beforeScopeResources[Root]
    <3>1. Postponed /\ DisposeAt(Root)
      BY <1>2 DEF ChildrenInv, DisposeInv
    <3> QED BY <1>2, <3>1 DEF Postponed, DisposeAt
  <2>4. F.of = Root => ~isDisposed[Root]
    <3>1. F.of = Root => Some(Root, {"release"})
      BY <1>1 DEF Some, Matches
    <3> QED BY <3>1 DEF RootInv
  <2>5. CASE UNCHANGED beforeScopeResources /\ Changes({F}, {}) /\ isDisposed[F.of]
    <3>1. \A z \in {F} : ~Awaits(z, c)
      BY <2>2, <2>4, <2>5
    <3> QED BY <2>1, <2>5, <3>1, AwaitedKept
  <2>6. CASE /\ beforeScopeResources' = [beforeScopeResources EXCEPT ![F.of] = F.children]
             /\ Changes({F}, {})
    <3>1. c \in beforeScopeResources[Root] => c \in beforeScopeResources'[Root]
      BY <1>1, <1>2, <2>3, <2>4, <2>6
    <3>2. \A z \in {F} : Awaits(z, c) => c \in beforeScopeResources'[Root]
      BY <1>1, <1>2, <2>2, <2>6
    <3> QED BY <2>1, <2>6, <3>1, <3>2, AwaitedKept
  <2>7. ASSUME NEW f, Changes({F}, {f}), f.children = F.children, UNCHANGED beforeScopeResources
        PROVE  Awaited(c)'
    <3>1. \A z \in {F} : Awaits(z, c) => \E x \in {f} : Awaits(x, c)
      BY <2>2, <2>7 DEF Awaits
    <3> QED BY <2>1, <2>7, <3>1, AwaitedKept
  <2> QED BY <1>0, <2>5, <2>6, <2>7, ReleaseFrame DEF Starts, lockedVars
<1> QED BY <1>8, <1>9 DEF ChildLeft

LEMMA LeftFinish ==
  ASSUME TypeOK, FramesFit, LeftInv, utilsDisposed,
         NEW t \in Threads, Step(t) \/ Call(t), FinishCancellation(t)
  PROVE  RootLeft' /\ \A c \in known \ {Root} : ChildLeft(c)'
<1>0. PICK F : F = Head(stack[t])
  OBVIOUS
<1>1. F.step = "finish" /\ F.of \in Scopes /\ FrameFits(F)
  BY <1>0, FinishFrame DEF TopIs
<1>2. PICK f \in Frames :
        /\ Changes({F}, {f})
        /\ disposeAfterCancellation[F.of] => f.children = beforeScopeResources[F.of]
  BY <1>0, FinishFrame
<1>3. RootLeft /\ \A c \in known \ {Root} : ChildLeft(c)
  BY DEF LeftInv, RootLeft, ChildLeft, Awaited
<1>4. /\ beforeScopeResources \in [Scopes -> SUBSET Scopes]
      /\ known \subseteq Scopes /\ Root \in Scopes
  BY UtilsAssumption DEF TypeOK, ScopeTypeOK
<1>5. \/ /\ disposeAfterCancellation[F.of]
         /\ beforeScopeResources' = [beforeScopeResources EXCEPT ![F.of] = {}]
      \/ UNCHANGED beforeScopeResources
  BY <1>0 DEF FinishCancellation, Me
<1>6. UNCHANGED isDisposed
  BY DEF FinishCancellation
<1>7. Misses({F}, Root, {"release"})
  BY <1>1 DEF Matches, Misses
<1>8. Some(Root, {"release"}) => Some(Root, {"release"})'
  BY <1>2, <1>7, KeptFrame
<1>9. ASSUME NEW c \in known \ {Root}, Awaited(c)
      PROVE  Awaited(c)'
  <2>1. \A z \in {F} : ~Awaits(z, c)
    BY <1>1, IdleFrame DEF Idle
  <2>2. c \in beforeScopeResources[Root] =>
          c \in beforeScopeResources'[Root] \/ \E x \in {f} : Awaits(x, c)
    BY <1>1, <1>2, <1>4, <1>5 DEF Awaits
  <2> QED BY <1>2, <1>9, <2>1, <2>2, AwaitedKept
<1> QED BY <1>3, <1>6, <1>8, <1>9 DEF RootLeft, ChildLeft

LEMMA LeftReleaseChild ==
  ASSUME TypeOK, FramesFit, LeftInv, utilsDisposed,
         NEW t \in Threads, Step(t) \/ Call(t), ReleaseChild(t)
  PROVE  RootLeft' /\ \A c \in known \ {Root} : ChildLeft(c)'
<1>0. PICK F : F = Head(stack[t])
  OBVIOUS
<1>1. F.step = "before"
  BY <1>0, ChildFrames DEF TopIs
<1>2. PICK f, r, d : Releases(F, f, r, d)
  BY <1>0, ChildFrames
<1>3. RootLeft /\ \A c \in known \ {Root} : ChildLeft(c)
  BY DEF LeftInv, RootLeft, ChildLeft, Awaited
<1>4. UNCHANGED <<isDisposed, beforeScopeResources>>
  BY DEF ReleaseChild, lockedVars
<1>5. Changes({F}, {f, r})
  BY <1>2 DEF Releases
<1>6. Misses({F}, Root, {"release"})
  BY <1>1 DEF Matches, Misses
<1>7. Some(Root, {"release"}) => Some(Root, {"release"})'
  BY <1>5, <1>6, KeptFrame
<1>8. ASSUME NEW c \in known \ {Root}, Awaited(c)
      PROVE  Awaited(c)'
  <2>1. Awaits(F, c) => Awaits(f, c) \/ Awaits(r, c)
    BY <1>1, <1>2 DEF Awaits, Releases, Matches
  <2>2. \A z \in {F} : Awaits(z, c) => \E x \in {f, r} : Awaits(x, c)
    BY <2>1
  <2> QED BY <1>4, <1>5, <1>8, <2>2, AwaitedKept
<1> QED BY <1>3, <1>4, <1>7, <1>8 DEF RootLeft, ChildLeft

LEMMA LeftIdle ==
  ASSUME TypeOK, FramesFit, LeftInv, utilsDisposed, NEW t \in Threads, Step(t) \/ Call(t),
         ~FinishCancellation(t), ~ReleaseResources(t), ~ReleaseChild(t), ~AddScope(t)
  PROVE  RootLeft' /\ \A c \in known \ {Root} : ChildLeft(c)'
<1>1. PICK old, new : Changes(old, new) /\ \A z \in old : Idle(z)
  BY IdleFrames
<1>2. Changes(old, new)
  BY <1>1
<1>3. \A z \in old : Idle(z)
  BY <1>1
<1>4. RootLeft /\ \A c \in known \ {Root} : ChildLeft(c)
  BY DEF LeftInv, RootLeft, ChildLeft, Awaited
<1>5. UNCHANGED isDisposed
  BY StaysDisposed
<1>6. UNCHANGED beforeScopeResources
  BY StaysPostponed
<1>7. Misses(old, Root, {"release"})
  BY <1>3 DEF Idle, Awaits, Misses
<1>8. Some(Root, {"release"}) => Some(Root, {"release"})'
  BY <1>2, <1>7, KeptFrame
<1>9. ASSUME NEW c \in known \ {Root}, Awaited(c)
      PROVE  Awaited(c)'
  <2>1. \A z \in old : ~Awaits(z, c)
    BY <1>3 DEF Idle
  <2> QED BY <1>2, <1>6, <1>9, <2>1, AwaitedKept
<1> QED BY <1>4, <1>5, <1>8, <1>9 DEF RootLeft, ChildLeft

LEMMA LeftStep ==
  ASSUME TypeOK, FramesFit, DisposeInv, LockInv, ChildrenInv, RootInv, LeftInv,
         NEW t \in Threads, Step(t) \/ Call(t)
  PROVE  LeftInv'
<1>0. PICK F : F = Head(stack[t])
  OBVIOUS
<1>1. ASSUME UNCHANGED known, RootLeft' /\ \A c \in known \ {Root} : ChildLeft(c)'
      PROVE  LeftInv'
  BY <1>1 DEF LeftInv, RootLeft, ChildLeft, Awaited
<1>2. CASE AddScope(t)
  <2>1. F.step = "add" /\ F.of \in Keys /\ F \in Running
    BY <1>0, <1>2, ReturnFrame DEF TopIs, FrameFits
  <2>2. Some(F.of, {"add"})
    BY <2>1 DEF Some, Matches
  <2>3. ~utilsDisposed /\ UNCHANGED utilsDisposed
    BY <1>2, <2>1, <2>2 DEF LockInv, AddScope
  <2> QED BY <2>3 DEF LeftInv
<1>3. CASE ~AddScope(t) /\ utilsDisposed
  <2>1. UNCHANGED known
    BY <1>3, SameKnown
  <2>3. RootLeft' /\ \A c \in known \ {Root} : ChildLeft(c)'
    BY <1>3, LeftFinish, LeftRelease, LeftReleaseChild, LeftIdle
  <2> QED BY <1>1, <2>1, <2>3
<1>4. CASE ~AddScope(t) /\ ~utilsDisposed /\ ~Dispose(t)
  <2>1. UNCHANGED utilsDisposed
    BY <1>4, SameKnown
  <2> QED BY <1>4, <2>1 DEF LeftInv
<1>5. CASE ~utilsDisposed /\ Dispose(t)
  <2>1. PICK r \in Frames : /\ Changes({F}, {r}) /\ r.step = "release" /\ r.of = Root
                            /\ r.children = keyedScopes
    BY <1>0, <1>5, DisposeFrame
  <2>2. r \in Running'
    BY <2>1 DEF Changes
  <2>3. RootLeft'
    BY <2>1, <2>2 DEF RootLeft, Some, Matches
  <2>4. known \ {Root} \subseteq r.children
    BY <1>5, <2>1 DEF LockInv
  <2>5. \A c \in known \ {Root} : Awaits(r, c)
    BY <2>4 DEF Awaits
  <2>6. \A c \in known \ {Root} : Awaited(c)'
    BY <2>2, <2>5 DEF Awaited, Awaits, Matches
  <2>7. UNCHANGED known
    BY <1>5 DEF Dispose
  <2> QED BY <1>1, <2>3, <2>6, <2>7 DEF ChildLeft
<1> QED BY <1>2, <1>3, <1>4, <1>5

-----------------------------------------------------------------------------
(* A registration is with the scope, or with a frame that sees to it.      *)

SeenAfter(new, s, k) == k \in registrations'[s] \/ \E x \in new : SeesTo(x, s, k)

LEMMA SeenKept ==
  ASSUME NEW old, NEW new, Changes(old, new), NEW s, NEW k,
         Seen(s, k), k \in registrations[s] => SeenAfter(new, s, k),
         \A z \in old : SeesTo(z, s, k) => SeenAfter(new, s, k)
  PROVE  Seen(s, k)'
<1>1. /\ new \subseteq Running'
      /\ \A x \in Running : x \in Running' \/ x \in old
  BY DEF Changes
<1>2. (\E x \in Running' : SeesTo(x, s, k)) => Seen(s, k)'
  BY DEF Seen, SeesTo, Matches
<1>3. SeenAfter(new, s, k) => Seen(s, k)'
  BY <1>1, <1>2 DEF SeenAfter, Seen
<1> QED BY <1>1, <1>2, <1>3 DEF Seen

Replaces(old, new) ==
  \A z \in old : \A s, k : SeesTo(z, s, k) => \E x \in new : SeesTo(x, s, k)

AllSeen == \A k \in Tokens : \A s \in callbacks[k] : Seen(s, k)

LEMMA SeenSame ==
  ASSUME NEW old, NEW new, Changes(old, new), Replaces(old, new), AllSeen,
         UNCHANGED registrations, \A k \in Tokens : callbacks'[k] \subseteq callbacks[k]
  PROVE  AllSeen'
<1> SUFFICES ASSUME NEW k \in Tokens, NEW s \in callbacks'[k] PROVE Seen(s, k)'
  BY DEF AllSeen, Tokens
<1>1. Seen(s, k)
  BY DEF AllSeen
<1>2. k \in registrations[s] => SeenAfter(new, s, k)
  BY DEF SeenAfter
<1>3. \A z \in old : SeesTo(z, s, k) => SeenAfter(new, s, k)
  BY DEF SeenAfter, Replaces
<1> QED BY <1>1, <1>2, <1>3, SeenKept

LEMMA Replacing ==
  ASSUME NEW F, NEW f, F.of = f.of, F.held = f.held,
         \/ F.step \notin {"accept", "drop", "unregister", "before", "registrations"}
         \/ f.step \in {"accept", "drop", "unregister", "before", "registrations"}
  PROVE  /\ Replaces({F}, {f})
         /\ \A g : Replaces({F}, {f, g})
<1>1. \A s, k : SeesTo(F, s, k) => SeesTo(f, s, k)
  BY DEF SeesTo, Matches
<1> QED BY <1>1 DEF Replaces

LEMMA Unseeing ==
  ASSUME NEW F,
         \/ F.step \notin {"accept", "drop", "unregister", "before", "registrations"}
         \/ F.held = {}
  PROVE  \A new : Replaces({F}, new)
<1>1. \A s, k : ~SeesTo(F, s, k)
  BY DEF SeesTo, Matches
<1> QED BY <1>1 DEF Replaces

LEMMA ReplacedFrames ==
  ASSUME TypeOK, FramesFit, NEW t \in Threads, Step(t) \/ Call(t),
         ~FinishCancellation(t), ~ReleaseResources(t), ~Register(t), ~Accept(t),
         ~Unregister(t), ~DisposeRegistration(t)
  PROVE  \E old, new : Changes(old, new) /\ Replaces(old, new)
<1>0. PICK F : F = Head(stack[t])
  OBVIOUS
<1> DEFINE All == \E old, new : Changes(old, new) /\ Replaces(old, new)
<1>1. ASSUME NEW new, Changes({F}, new), \A n : Replaces({F}, n)
      PROVE  All
  BY <1>1
<1>2. ASSUME NEW new, Changes({F}, new), Replaces({F}, new)
      PROVE  All
  BY <1>2
<1>3. ASSUME NEW new, Changes({}, new)
      PROVE  All
  BY <1>3 DEF Replaces
<1>4. ASSUME NEW new, Changes({F}, new),
             F.step \notin {"accept", "drop", "unregister", "before", "registrations"}
      PROVE  All
  BY <1>1, <1>4, Unseeing
<1> HIDE DEF All
<1>5. TryBeginCancellation(t) => All
  BY <1>0, <1>4, BeginFrame DEF Becomes, TopIs
<1>6. Signal(t) => All
  BY <1>0, <1>4, SignalFrame DEF Becomes, TopIs
<1>7. NotifyEnd(t) => All
  BY <1>0, <1>4, NotifyEndFrame DEF Becomes, TopIs
<1>8. Notify(t) => All
  BY <1>0, <1>4, NotifyFrames DEF TopIs
<1>9. MergeBegin(t) => All
  BY <1>0, <1>4, MergeFrame DEF Becomes, TopIs
<1>10. GetOrCreateScope(t) => All
  BY <1>0, <1>4, GetFrames DEF Makes, TopIs
<1>11. Dispose(t) => All
  BY <1>0, <1>4, DisposeFrame DEF TopIs
<1>12. AddScope(t) => All
  BY <1>0, <1>4, ReturnFrame DEF TopIs
<1>13. ASSUME CancelEnd(t) \/ DropEnd(t) \/ DisposeSource(t)
       PROVE  All
  <2>1. Changes({F}, {})
    BY <1>0, <1>13, ReturnFrame
  <2>2. F.held = {}
    BY <1>0, <1>13 DEF CancelEnd, DropEnd, DisposeSource, Held
  <2>3. \A n : Replaces({F}, n)
    BY <2>2, Unseeing
  <2> QED BY <1>1, <2>1, <2>3
<1>14. ASSUME ChildrenReleased(t) PROVE All
  <2>1. PICK f : Becomes(F, f, "registrations")
    BY <1>0, <1>14, ChildrenReleasedFrame
  <2>2. Changes({F}, {f}) /\ F.of = f.of /\ F.held = f.held /\ f.step = "registrations"
    BY <2>1 DEF Becomes
  <2>3. Replaces({F}, {f})
    BY <2>2, Replacing
  <2> QED BY <1>2, <2>2, <2>3
<1>15. ASSUME ReleaseChild(t) PROVE All
  <2>1. PICK f, r, c : Releases(F, f, r, c)
    BY <1>0, <1>15, ChildFrames
  <2>2. Changes({F}, {f, r}) /\ F.of = f.of /\ F.held = f.held /\ f.step = "before"
    BY <2>1 DEF Releases
  <2>3. Replaces({F}, {f, r})
    BY <2>2, Replacing
  <2> QED BY <1>2, <2>2, <2>3
<1>16. Call(t) => All
  BY <1>3, CallShape
<1> QED
  BY <1>5, <1>6, <1>7, <1>8, <1>9, <1>10, <1>11, <1>12, <1>13, <1>14, <1>15, <1>16
  DEF All, Step, ScopeStep

LEMMA StaysRegistered ==
  ASSUME TypeOK, FramesFit, NEW t \in Threads, Step(t) \/ Call(t),
         ~FinishCancellation(t), ~ReleaseResources(t), ~Accept(t)
  PROVE  UNCHANGED registrations
<1>1. ASSUME \/ Signal(t) \/ Notify(t) \/ NotifyEnd(t) \/ Unregister(t) \/ CancelEnd(t)
             \/ Register(t) \/ TryBeginCancellation(t)
      PROVE  UNCHANGED registrations
  BY <1>1 DEF Signal, Notify, NotifyEnd, Unregister, CancelEnd, Register,
     TryBeginCancellation, lockedVars
<1>2. ASSUME MergeBegin(t) \/ DropEnd(t) \/ DisposeRegistration(t)
      PROVE  UNCHANGED registrations
  BY <1>2 DEF MergeBegin, DropEnd, DisposeRegistration, lockedVars
<1>3. ASSUME \/ ReleaseChild(t) \/ ChildrenReleased(t) \/ DisposeSource(t)
             \/ GetOrCreateScope(t) \/ AddScope(t) \/ Dispose(t)
      PROVE  UNCHANGED registrations
  BY <1>3 DEF ReleaseChild, ChildrenReleased, DisposeSource, GetOrCreateScope, AddScope,
     Dispose, lockedVars
<1>4. ASSUME Call(t)
      PROVE  UNCHANGED registrations
  BY <1>4, CallShape DEF CallFrom, lockedVars
<1> QED BY <1>1, <1>2, <1>3, <1>4 DEF Step, ScopeStep

LEMMA CallbacksStay ==
  ASSUME TypeOK, FramesFit, NEW t \in Threads, Step(t) \/ Call(t), ~Register(t)
  PROVE  \A k \in Tokens : callbacks'[k] \subseteq callbacks[k]
<1>0. PICK F : F = Head(stack[t])
  OBVIOUS
<1>1. ASSUME TryBeginCancellation(t) \/ Signal(t) \/ NotifyEnd(t) \/ MergeBegin(t)
      PROVE  UNCHANGED callbacks
  BY <1>1 DEF TryBeginCancellation, Signal, NotifyEnd, MergeBegin, sourceVars
<1>2. ASSUME Notify(t)
      PROVE  \A k \in Tokens : callbacks'[k] \subseteq callbacks[k]
  <2>1. PICK s \in Scopes : Drops(F.of, s)
    BY <1>0, <1>2, NotifyFrames
  <2> QED BY <2>1, DropsShrink
<1>3. ASSUME Call(t)
      PROVE  UNCHANGED callbacks
  BY <1>3, CallShape DEF CallFrom
<1>4. UNCHANGED callbacks => \A k \in Tokens : callbacks'[k] \subseteq callbacks[k]
  OBVIOUS
<1> QED BY <1>1, <1>2, <1>3, <1>4, CallbacksShrink DEF Step, ScopeStep

LEMMA SeenHeld ==
  ASSUME TypeOK, FramesFit, AllSeen, NEW t \in Threads,
         Unregister(t) \/ DisposeRegistration(t)
  PROVE  AllSeen'
<1>0. PICK F : F = Head(stack[t])
  OBVIOUS
<1>1. PICK f \in Frames, k \in Tokens :
        /\ Changes({F}, {f})
        /\ k \in F.held /\ Drops(k, F.of)
        /\ f.step = F.step /\ f.of = F.of /\ f.children = F.children
        /\ f.held = F.held \ {k}
  BY <1>0, HeldFrame
<1>2. UNCHANGED registrations
  BY DEF Unregister, DisposeRegistration, lockedVars
<1>3. \A j \in Tokens : callbacks'[j] \subseteq callbacks[j]
  BY <1>1, DropsShrink
<1>4. F.of \notin callbacks'[k]
  BY <1>1 DEF Drops, TypeOK, ScopeTypeOK
<1> SUFFICES ASSUME NEW j \in Tokens, NEW s \in callbacks'[j] PROVE Seen(s, j)'
  BY DEF AllSeen, Tokens
<1>5. Seen(s, j)
  BY <1>3 DEF AllSeen
<1>6. j \in registrations[s] => SeenAfter({f}, s, j)
  BY <1>2 DEF SeenAfter
<1>7. SeesTo(F, s, j) => SeesTo(f, s, j)
  <2>1. SeesTo(F, s, j) => j # k
    BY <1>4 DEF SeesTo, Matches
  <2> QED BY <1>1, <2>1 DEF SeesTo, Matches
<1>8. \A z \in {F} : SeesTo(z, s, j) => SeenAfter({f}, s, j)
  BY <1>7 DEF SeenAfter
<1>9. Changes({F}, {f})
  BY <1>1
<1> QED BY <1>5, <1>6, <1>8, <1>9, SeenKept

LEMMA SeenRegister ==
  ASSUME TypeOK, FramesFit, AllSeen, NEW t \in Threads, Register(t)
  PROVE  AllSeen'
<1>0. PICK F : F = Head(stack[t])
  OBVIOUS
<1>1. PICK f, c, k : Registers(F, f, c, k)
  BY <1>0, RegisterFrames
<1>2. F.step = "register"
  BY <1>0, RegisterFrames DEF TopIs
<1>3. UNCHANGED registrations
  BY DEF Register, lockedVars
<1>4. CASE UNCHANGED callbacks
  <2>1. \A j \in Tokens : callbacks'[j] \subseteq callbacks[j]
    BY <1>4
  <2>2. \A new : Replaces({F}, new)
    BY <1>2, Unseeing
  <2>3. Changes({F}, {f}) \/ Changes({F}, {f, c})
    BY <1>1 DEF Registers
  <2>4. \E new : Changes({F}, new)
    BY <2>3
  <2>5. PICK new : Changes({F}, new)
    BY <2>4
  <2> QED BY <1>3, <2>1, <2>2, <2>5, SeenSame
<1>5. CASE f.held = {k} /\ Changes({F}, {f}) /\ Adds(k, F.of)
  <2>1. f.step = "accept" /\ f.of = F.of /\ k \in Tokens
    BY <1>1 DEF Registers
  <2>2. \A j \in Tokens : \A s \in callbacks'[j] : s \in callbacks[j] \/ (s = F.of /\ j = k)
    BY <1>5, <2>1 DEF Adds, TypeOK, ScopeTypeOK
  <2> SUFFICES ASSUME NEW j \in Tokens, NEW s \in callbacks'[j] PROVE Seen(s, j)'
    BY DEF AllSeen, Tokens
  <2>3. CASE s = F.of /\ j = k
    <3>1. SeesTo(f, s, j) /\ f \in Running'
      BY <1>5, <2>1, <2>3 DEF SeesTo, Matches, Changes
    <3> QED BY <3>1 DEF Seen, SeesTo, Matches
  <2>4. CASE s \in callbacks[j]
    <3>1. Seen(s, j)
      BY <2>4 DEF AllSeen
    <3>2. j \in registrations[s] => SeenAfter({f}, s, j)
      BY <1>3 DEF SeenAfter
    <3>3. \A z \in {F} : ~SeesTo(z, s, j)
      BY <1>2 DEF SeesTo, Matches
    <3>4. Changes({F}, {f})
      BY <1>5
    <3> QED BY <3>1, <3>2, <3>3, <3>4, SeenKept
  <2> QED BY <2>2, <2>3, <2>4
<1> QED BY <1>1, <1>4, <1>5 DEF Registers

LEMMA SeenAccept ==
  ASSUME TypeOK, FramesFit, AllSeen, NEW t \in Threads, Accept(t)
  PROVE  AllSeen'
<1>0. PICK F : F = Head(stack[t])
  OBVIOUS
<1>1. F.step = "accept" /\ F.of \in Scopes /\ F.held \subseteq Tokens
  BY <1>0, AcceptFrame DEF TopIs, ScopeSteps
<1>2. UNCHANGED callbacks
  BY DEF Accept, sourceVars
<1>3. ASSUME NEW f, Becomes(F, f, "drop"), UNCHANGED registrations
      PROVE  AllSeen'
  <2>1. Changes({F}, {f}) /\ F.of = f.of /\ F.held = f.held /\ f.step = "drop"
    BY <1>3 DEF Becomes
  <2>2. Replaces({F}, {f})
    BY <2>1, Replacing
  <2>3. \A j \in Tokens : callbacks'[j] \subseteq callbacks[j]
    BY <1>2
  <2> QED BY <1>3, <2>1, <2>2, <2>3, SeenSame
<1>4. ASSUME Changes({F}, {}),
             registrations' = [registrations EXCEPT ![F.of] = @ \cup F.held]
      PROVE  AllSeen'
  <2>1. \A s \in Scopes : registrations[s] \subseteq registrations'[s]
    BY <1>1, <1>4 DEF TypeOK, ScopeTypeOK
  <2>2. F.held \subseteq registrations'[F.of]
    BY <1>1, <1>4 DEF TypeOK, ScopeTypeOK
  <2> SUFFICES ASSUME NEW j \in Tokens, NEW s \in callbacks'[j] PROVE Seen(s, j)'
    BY DEF AllSeen, Tokens
  <2>3. Seen(s, j) /\ s \in Scopes
    BY <1>2 DEF AllSeen, TypeOK, ScopeTypeOK
  <2>4. j \in registrations[s] => SeenAfter({}, s, j)
    BY <2>1, <2>3 DEF SeenAfter
  <2>5. SeesTo(F, s, j) => SeenAfter({}, s, j)
    BY <2>2 DEF SeenAfter, SeesTo, Matches
  <2>6. \A z \in {F} : SeesTo(z, s, j) => SeenAfter({}, s, j)
    BY <2>5
  <2> QED BY <1>4, <2>3, <2>4, <2>6, SeenKept
<1>5. \/ ~CanAcceptCancellation(F.of) /\ UNCHANGED registrations
      \/ /\ CanAcceptCancellation(F.of)
         /\ registrations' = [registrations EXCEPT ![F.of] = @ \cup F.held]
  BY <1>0 DEF Accept, Me, Held
<1> QED BY <1>0, <1>3, <1>4, <1>5, AcceptFrame

(* The registrations of a scope go to the frame that disposes of them.     *)
LEMMA SeenTaken ==
  ASSUME TypeOK, AllSeen, NEW F, NEW f, Changes({F}, {f}), F.step \in {"finish", "release"},
         F.of \in Scopes, f.of = F.of, f.step \in {"unregister", "before"},
         f.held = registrations[F.of], registrations' = [registrations EXCEPT ![F.of] = {}],
         UNCHANGED callbacks
  PROVE  AllSeen'
<1> SUFFICES ASSUME NEW j \in Tokens, NEW s \in callbacks'[j] PROVE Seen(s, j)'
  BY DEF AllSeen, Tokens
<1>1. Seen(s, j) /\ s \in Scopes
  BY DEF AllSeen, TypeOK, ScopeTypeOK
<1>2. j \in registrations[s] => SeenAfter({f}, s, j)
  <2>1. s = F.of /\ j \in registrations[s] => SeesTo(f, s, j)
    BY DEF SeesTo, Matches
  <2>2. s # F.of => registrations'[s] = registrations[s]
    BY <1>1 DEF TypeOK, ScopeTypeOK
  <2> QED BY <2>1, <2>2 DEF SeenAfter
<1>3. \A z \in {F} : ~SeesTo(z, s, j)
  BY DEF SeesTo, Matches
<1> QED BY <1>1, <1>2, <1>3, SeenKept

LEMMA SeenFinish ==
  ASSUME TypeOK, FramesFit, AllSeen, NEW t \in Threads, FinishCancellation(t)
  PROVE  AllSeen'
<1>0. PICK F : F = Head(stack[t])
  OBVIOUS
<1>1. F.step = "finish" /\ F.of \in Scopes
  BY <1>0, FinishFrame DEF TopIs
<1>2. PICK f \in Frames : /\ Changes({F}, {f})
                          /\ f.of = F.of /\ f.held = registrations[F.of]
                          /\ f.step \in {"unregister", "before"}
  BY <1>0, FinishFrame
<1>3. registrations' = [registrations EXCEPT ![F.of] = {}] /\ UNCHANGED callbacks
  BY <1>0 DEF FinishCancellation, TakeRegistrations, Me, sourceVars
<1> QED BY <1>1, <1>2, <1>3, SeenTaken

LEMMA SeenRelease ==
  ASSUME TypeOK, FramesFit, AllSeen, NEW t \in Threads, ReleaseResources(t)
  PROVE  AllSeen'
<1>0. PICK F : F = Head(stack[t])
  OBVIOUS
<1>1. F.step = "release" /\ F.of \in Scopes
  BY <1>0, ReleaseFrame DEF TopIs
<1>2. UNCHANGED callbacks
  BY DEF ReleaseResources, sourceVars
<1>3. ASSUME Changes({F}, {}), UNCHANGED registrations
      PROVE  AllSeen'
  <2>1. Replaces({F}, {})
    BY <1>1, Unseeing
  <2>2. \A j \in Tokens : callbacks'[j] \subseteq callbacks[j]
    BY <1>2
  <2> QED BY <1>3, <2>1, <2>2, SeenSame
<1>4. ASSUME NEW f, Starts(F, f), TakeRegistrations(F.of)
      PROVE  AllSeen'
  <2>1. /\ Changes({F}, {f}) /\ f.of = F.of /\ f.step = "before"
        /\ f.held = registrations[F.of]
    BY <1>4 DEF Starts
  <2>2. registrations' = [registrations EXCEPT ![F.of] = {}]
    BY <1>4 DEF TakeRegistrations
  <2> QED BY <1>1, <1>2, <2>1, <2>2, SeenTaken
<1> QED BY <1>0, <1>3, <1>4, ReleaseFrame DEF lockedVars

LEMMA SeenStep ==
  ASSUME TypeOK, FramesFit, AllSeen, NEW t \in Threads, Step(t) \/ Call(t)
  PROVE  AllSeen'
<1>1. ASSUME ~FinishCancellation(t), ~ReleaseResources(t), ~Register(t), ~Accept(t),
             ~Unregister(t), ~DisposeRegistration(t)
      PROVE  AllSeen'
  <2>1. PICK old, new : Changes(old, new) /\ Replaces(old, new)
    BY <1>1, ReplacedFrames
  <2>2. UNCHANGED registrations
    BY <1>1, StaysRegistered
  <2>3. \A k \in Tokens : callbacks'[k] \subseteq callbacks[k]
    BY <1>1, CallbacksStay
  <2> QED BY <2>1, <2>2, <2>3, SeenSame
<1> QED BY <1>1, SeenFinish, SeenRelease, SeenRegister, SeenAccept, SeenHeld

LEMMA SourceStays ==
  ASSUME TypeOK, FramesFit, NEW t \in Threads, Step(t) \/ Call(t), ~Signal(t), ~NotifyEnd(t)
  PROVE  UNCHANGED source
<1>1. ASSUME TryBeginCancellation(t) \/ Notify(t) \/ MergeBegin(t) \/ Register(t)
      PROVE  UNCHANGED source
  BY <1>1 DEF TryBeginCancellation, Notify, MergeBegin, Register, sourceVars
<1>2. ASSUME Call(t)
      PROVE  UNCHANGED source
  BY <1>2, CallShape DEF CallFrom
<1> QED BY <1>1, <1>2, CallbacksShrink DEF Step, ScopeStep

LEMMA ProgressStays ==
  ASSUME TypeOK, FramesFit, NEW t \in Threads, Step(t) \/ Call(t),
         ~TryBeginCancellation(t), ~FinishCancellation(t)
  PROVE  UNCHANGED isCancellationInProgress
<1>1. ASSUME \/ Signal(t) \/ Notify(t) \/ NotifyEnd(t) \/ Unregister(t) \/ CancelEnd(t)
             \/ Register(t)
      PROVE  UNCHANGED isCancellationInProgress
  BY <1>1 DEF Signal, Notify, NotifyEnd, Unregister, CancelEnd, Register, lockedVars
<1>2. ASSUME MergeBegin(t) \/ Accept(t) \/ DropEnd(t) \/ DisposeRegistration(t)
      PROVE  UNCHANGED isCancellationInProgress
  BY <1>2 DEF MergeBegin, Accept, DropEnd, DisposeRegistration, lockedVars
<1>3. ASSUME \/ ReleaseChild(t) \/ ChildrenReleased(t) \/ DisposeSource(t)
             \/ GetOrCreateScope(t) \/ AddScope(t) \/ Dispose(t) \/ ReleaseResources(t)
      PROVE  UNCHANGED isCancellationInProgress
  BY <1>3 DEF ReleaseChild, ChildrenReleased, DisposeSource, GetOrCreateScope, AddScope,
     Dispose, ReleaseResources, lockedVars
<1>4. ASSUME Call(t)
      PROVE  UNCHANGED isCancellationInProgress
  BY <1>4, CallShape DEF CallFrom, lockedVars
<1> QED BY <1>1, <1>2, <1>3, <1>4 DEF Step, ScopeStep

LetGo(s) ==
  IsCancellationRequested(s) \/ isDisposed[s] =>
    isCancellationInProgress[s] \/ registrations[s] = {}

LEMMA LetGoStep ==
  ASSUME TypeOK, FramesFit, CancelInv, \A s \in Scopes : LetGo(s),
         NEW t \in Threads, Step(t) \/ Call(t)
  PROVE  \A s \in Scopes : LetGo(s)'
<1>0. PICK F : F = Head(stack[t])
  OBVIOUS
<1> SUFFICES ASSUME NEW s \in Scopes PROVE LetGo(s)'
  OBVIOUS
<1>1. LetGo(s) /\ CancelAt(s) /\ s \in Tokens
  BY DEF CancelInv, Tokens
<1>2. /\ source \in [Tokens -> {"live", "notifying", "canceled"}]
      /\ isDisposed \in [Scopes -> BOOLEAN]
      /\ isCancellationInProgress \in [Scopes -> BOOLEAN]
      /\ registrations \in [Scopes -> SUBSET Tokens]
  BY DEF TypeOK, ScopeTypeOK
<1>3. CASE Signal(t)
  <2>1. F.step = "signal" /\ F \in Running
    BY <1>0, <1>3, SignalFrame DEF TopIs
  <2>2. source' = [source EXCEPT ![F.of] = "notifying"] \/ UNCHANGED source
    BY <1>0, <1>3 DEF Signal, Me
  <2>3. F.of = s => isCancellationInProgress[s]
    <3>1. F.of = s => Some(s, Cancelling)
      BY <2>1 DEF Some, Matches, Cancelling
    <3> QED BY <1>1, <3>1 DEF CancelAt
  <2>4. F.of # s => source'[s] = source[s]
    BY <1>1, <1>2, <2>2
  <2>5. UNCHANGED <<isDisposed, isCancellationInProgress, registrations>>
    BY <1>3 DEF Signal, lockedVars
  <2> QED BY <1>1, <2>3, <2>4, <2>5 DEF LetGo, IsCancellationRequested
<1>4. CASE NotifyEnd(t)
  <2>1. F.step = "notify" /\ F \in Running
    BY <1>0, <1>4, NotifyEndFrame DEF TopIs
  <2>2. source' = [source EXCEPT ![F.of] = "canceled"]
    BY <1>0, <1>4 DEF NotifyEnd, Me
  <2>3. F.of = s => isCancellationInProgress[s]
    <3>1. F.of = s => Some(s, Cancelling)
      BY <2>1 DEF Some, Matches, Cancelling
    <3> QED BY <1>1, <3>1 DEF CancelAt
  <2>4. F.of # s => source'[s] = source[s]
    BY <1>1, <1>2, <2>2
  <2>5. UNCHANGED <<isDisposed, isCancellationInProgress, registrations>>
    BY <1>4 DEF NotifyEnd, lockedVars
  <2> QED BY <1>1, <2>3, <2>4, <2>5 DEF LetGo, IsCancellationRequested
<1>5. CASE TryBeginCancellation(t)
  <2>1. F.of \in Scopes
    BY <1>0, <1>5, BeginFrame DEF TopIs, ScopeSteps
  <2>2. \/ isCancellationInProgress' = [isCancellationInProgress EXCEPT ![F.of] = TRUE]
        \/ UNCHANGED isCancellationInProgress
    BY <1>0, <1>5 DEF TryBeginCancellation, Me
  <2>3. UNCHANGED <<source, isDisposed, registrations>>
    BY <1>5 DEF TryBeginCancellation, sourceVars
  <2>4. isCancellationInProgress[s] => isCancellationInProgress'[s]
    BY <1>2, <2>1, <2>2
  <2> QED BY <1>1, <2>3, <2>4 DEF LetGo, IsCancellationRequested
<1>6. CASE FinishCancellation(t)
  <2>1. F.of \in Scopes
    BY <1>0, <1>6, FinishFrame
  <2>2. /\ isCancellationInProgress' = [isCancellationInProgress EXCEPT ![F.of] = FALSE]
        /\ registrations' = [registrations EXCEPT ![F.of] = {}]
        /\ UNCHANGED <<source, isDisposed>>
    BY <1>0, <1>6 DEF FinishCancellation, TakeRegistrations, Me, sourceVars
  <2>3. CASE F.of = s
    <3>1. registrations'[s] = {}
      BY <1>2, <2>1, <2>2, <2>3
    <3> QED BY <3>1 DEF LetGo
  <2>4. CASE F.of # s
    <3>1. /\ registrations'[s] = registrations[s]
          /\ isCancellationInProgress'[s] = isCancellationInProgress[s]
      BY <1>2, <2>1, <2>2, <2>4
    <3> QED BY <1>1, <2>2, <3>1 DEF LetGo, IsCancellationRequested
  <2> QED BY <2>3, <2>4
<1>7. CASE ReleaseResources(t)
  <2>1. F.of \in Scopes
    BY <1>0, <1>7, ReleaseFrame
  <2>2. UNCHANGED <<source, isCancellationInProgress>>
    BY <1>7 DEF ReleaseResources, sourceVars, lockedVars
  <2>3. \/ UNCHANGED <<isDisposed, registrations>>
        \/ /\ isCancellationInProgress[F.of] /\ UNCHANGED registrations
           /\ isDisposed' = [isDisposed EXCEPT ![F.of] = TRUE]
        \/ /\ isDisposed' = [isDisposed EXCEPT ![F.of] = TRUE]
           /\ registrations' = [registrations EXCEPT ![F.of] = {}]
    BY <1>0, <1>7, ReleaseFrame DEF TakeRegistrations, lockedVars
  <2>4. CASE F.of = s
    <3>1. \/ isDisposed'[s] = isDisposed[s] /\ registrations'[s] = registrations[s]
          \/ isCancellationInProgress[s]
          \/ registrations'[s] = {}
      BY <1>2, <2>1, <2>3, <2>4
    <3> QED BY <1>1, <2>2, <3>1 DEF LetGo, IsCancellationRequested
  <2>5. CASE F.of # s
    <3>1. isDisposed'[s] = isDisposed[s] /\ registrations'[s] = registrations[s]
      BY <1>2, <2>1, <2>3, <2>5
    <3> QED BY <1>1, <2>2, <3>1 DEF LetGo, IsCancellationRequested
  <2> QED BY <2>4, <2>5
<1>8. CASE Accept(t)
  <2>1. F.of \in Scopes
    BY <1>0, <1>8, AcceptFrame DEF TopIs, ScopeSteps
  <2>2. UNCHANGED <<source, isCancellationInProgress, isDisposed>>
    BY <1>8 DEF Accept, sourceVars
  <2>3. \/ UNCHANGED registrations
        \/ /\ CanAcceptCancellation(F.of)
           /\ registrations' = [registrations EXCEPT ![F.of] = @ \cup F.held]
    BY <1>0, <1>8 DEF Accept, Me, Held
  <2>4. registrations'[s] = registrations[s] \/ CanAcceptCancellation(s)
    BY <1>2, <2>1, <2>3
  <2> QED BY <1>1, <2>2, <2>4 DEF LetGo, IsCancellationRequested, CanAcceptCancellation
<1>9. CASE /\ ~Signal(t) /\ ~NotifyEnd(t) /\ ~TryBeginCancellation(t)
           /\ ~FinishCancellation(t) /\ ~ReleaseResources(t) /\ ~Accept(t)
  <2>1. UNCHANGED <<source, isCancellationInProgress, isDisposed, registrations>>
    BY <1>9, SourceStays, ProgressStays, StaysDisposed, StaysRegistered
  <2> QED BY <1>1, <2>1 DEF LetGo, IsCancellationRequested
<1> QED BY <1>3, <1>4, <1>5, <1>6, <1>7, <1>8, <1>9

LeftoverInv == FamilyInv /\ LeftInv /\ RegisteredInv

LEMMA LeftoverStill ==
  UNCHANGED vars => (LeftInv /\ RegisteredInv => LeftInv' /\ RegisteredInv')
<1> SUFFICES ASSUME UNCHANGED vars, LeftInv, RegisteredInv PROVE LeftInv' /\ RegisteredInv'
  OBVIOUS
<1>1. \A s, k : Some(s, k)' <=> Some(s, k)
  BY StandStill DEF Some
<1>2. \A c : Awaited(c)' <=> Awaited(c)
  BY StandStill DEF Awaited, Awaits, Matches
<1>3. \A s, k : Seen(s, k)' <=> Seen(s, k)
  BY StandStill DEF Seen, SeesTo, Matches
<1>4. LeftInv'
  BY <1>1, <1>2, StandStill DEF LeftInv
<1>5. RegisteredInv'
  BY <1>3, StandStill DEF RegisteredInv, IsCancellationRequested
<1> QED BY <1>4, <1>5

(* What is left of a disposal and of a registration is with a frame, or    *)
(* with the cancellation that a disposal was left to.                      *)
THEOREM LeftoverInvariant == Spec => []LeftoverInv
<1>1. Init => LeftoverInv
  <2> SUFFICES ASSUME Init PROVE LeftInv /\ RegisteredInv
    BY FamilyInit DEF LeftoverInv
  <2>1. /\ ~utilsDisposed
        /\ \A s \in Scopes : registrations[s] = {}
        /\ \A k \in Tokens : callbacks[k] = {}
    BY DEF Init, ScopeInit
  <2> QED BY <2>1 DEF LeftInv, RegisteredInv
<1>2. LeftoverInv /\ [Next]_vars => LeftoverInv'
  <2> SUFFICES ASSUME LeftoverInv, [Next]_vars PROVE LeftoverInv'
    OBVIOUS
  <2>1. FamilyInv /\ LeftInv /\ RegisteredInv
    BY DEF LeftoverInv
  <2>2. FamilyInv'
    BY <2>1, FamilyStep
  <2>3. TypeOK /\ FramesFit /\ CancelInv /\ DisposeInv /\ LockInv /\ ChildrenInv /\ RootInv
    BY <2>1 DEF FamilyInv, SafetyInv
  <2>4. AllSeen /\ \A s \in Scopes : LetGo(s)
    BY <2>1 DEF RegisteredInv, AllSeen, LetGo
  <2>5. ASSUME NEW t \in Threads, Step(t) \/ Call(t)
        PROVE  LeftInv' /\ RegisteredInv'
    <3>1. LeftInv'
      BY <2>1, <2>3, <2>5, LeftStep
    <3>2. AllSeen'
      BY <2>3, <2>4, <2>5, SeenStep
    <3>3. \A s \in Scopes : LetGo(s)'
      BY <2>3, <2>4, <2>5, LetGoStep
    <3> QED BY <3>1, <3>2, <3>3 DEF RegisteredInv, AllSeen, LetGo
  <2>6. ASSUME UNCHANGED vars
        PROVE  LeftInv' /\ RegisteredInv'
    BY <2>1, <2>6, LeftoverStill
  <2> QED BY <2>2, <2>5, <2>6 DEF Next, Rest, LeftoverInv
<1> QED BY <1>1, <1>2, PTL DEF Spec

(* When no call is running, a cancelled or disposed scope is registered     *)
(* with no source, and the disposal has disposed every scope's source: also *)
(* when it came while sources were cancelled, or raced with the creation    *)
(* of a scope or with a merge.                                             *)
THEOREM NothingIsLeft == Spec => []NothingLeaks
<1>1. LeftoverInv => NothingLeaks
  <2> SUFFICES ASSUME LeftoverInv, Quiet, NEW s \in known
               PROVE  /\ IsCancellationRequested(s) \/ isDisposed[s] => LetsGo(s)
                      /\ utilsDisposed => sourceDisposed[s]
    BY DEF NothingLeaks
  <2>1. Running = {}
    <3>1. \A t \in Threads : stack[t] = <<>>
      BY DEF Quiet
    <3>2. ASSUME NEW t \in Threads PROVE 1..Len(stack[t]) = {}
      <4>1. Len(stack[t]) = 0 /\ 1..0 = {}
        BY <3>1
      <4> QED BY <4>1
    <3> QED BY <3>2 DEF Running
  <2>2. s \in Scopes /\ Root \in Scopes
    BY UtilsAssumption DEF LeftoverInv, FamilyInv, SafetyInv, TypeOK
  <2>3. \A r, k : ~Some(r, k)
    BY <2>1 DEF Some
  <2>4. \A r \in Scopes : ~isCancellationInProgress[r] /\ ~disposeAfterCancellation[r]
    BY <2>3 DEF LeftoverInv, FamilyInv, SafetyInv, CancelInv, CancelAt, DisposeInv, DisposeAt
  <2>5. IsCancellationRequested(s) \/ isDisposed[s] => LetsGo(s)
    BY <2>1, <2>2, <2>4 DEF LeftoverInv, RegisteredInv, Seen, LetsGo
  <2>6. utilsDisposed => isDisposed[Root]
    BY <2>3 DEF LeftoverInv, LeftInv
  <2>7. utilsDisposed /\ s # Root => isDisposed[s]
    <3>1. beforeScopeResources[Root] = {}
      BY <2>2, <2>4 DEF LeftoverInv, FamilyInv, ChildrenInv, Postponed
    <3>2. ~Awaited(s)
      BY <2>1, <3>1 DEF Awaited
    <3> QED BY <3>2 DEF LeftoverInv, LeftInv
  <2>8. isDisposed[s] => sourceDisposed[s]
    BY <2>2, <2>3, <2>4 DEF LeftoverInv, FamilyInv, SafetyInv, DisposeInv, DisposeAt
  <2> QED BY <2>5, <2>6, <2>7, <2>8
<1> QED BY <1>1, LeftoverInvariant, PTL

-----------------------------------------------------------------------------
(* What frames give way to, and where the frames come from that take their  *)
(* place.                                                                  *)

Leaves(t, z) ==
  /\ stack[t] # <<>> /\ z = Head(stack[t]) /\ z.of = Me(t)
  /\ z.step = "cancel" => TryBeginCancellation(t)
  /\ z.step = "merge" => MergeBegin(t)
  /\ z.step = "register" => Register(t)
  /\ z.step = "add" => AddScope(t)
  /\ z.step = "get" => GetOrCreateScope(t)

RootLinks(x) == x.of \notin known /\ x.step \in {"merge", "register"} => x.held = {Root}

Origin(t, x) ==
  \/ x.step = "get"
  \/ x.of \in known \cup Foreign
  \/ \E k \in Tokens : x.of \in callbacks[k]
  \/ Step(t) /\ x.of = Me(t)

Arrives(t, x) ==
  /\ RootLinks(x) /\ Origin(t, x) /\ Withdrawn(x)
  /\ x.step = "merge" => x.of \in known \/ lock = NoThread

(* A frame of the same scope at a step of no interest here.                *)
LEMMA PlainFrame ==
  ASSUME NEW t, NEW F, NEW x, Step(t), F = Head(stack[t]), x.of = F.of,
         x.step \notin {"merge", "register", "drop", "unregister"}
  PROVE  Arrives(t, x)
BY DEF Arrives, RootLinks, Origin, Withdrawn, Me

LEMMA TurnFrames ==
  ASSUME TypeOK, FramesFit, CancelInv, LockInv, ChildrenInv,
         \A f \in Running : RootLinks(f), \A f \in Running : Withdrawn(f),
         NEW t \in Threads, Step(t) \/ Call(t)
  PROVE  \E old, new : /\ Changes(old, new)
                       /\ \A z \in old : Leaves(t, z)
                       /\ \A x \in new : Arrives(t, x)
<1>0. PICK F : F = Head(stack[t])
  OBVIOUS
<1>K. Root \in known /\ known \subseteq Scopes
  BY DEF LockInv, TypeOK
<1> DEFINE All == \E old, new : /\ Changes(old, new)
                                /\ \A z \in old : Leaves(t, z)
                                /\ \A x \in new : Arrives(t, x)
           Goes(step) == stack[t] # <<>> /\ F.step = step /\ F \in Running
<1>1. ASSUME NEW new, Changes({F}, new), Leaves(t, F), \A x \in new : Arrives(t, x)
      PROVE  All
  BY <1>1
<1>2. ASSUME NEW f, Changes({}, {f}), Arrives(t, f)
      PROVE  All
  BY <1>2
<1>3. ASSUME Changes({F}, {}), Leaves(t, F)
      PROVE  All
  BY <1>3
<1> HIDE DEF All
<1>C. Call(t) => All
  <2> SUFFICES ASSUME Call(t) PROVE All
    OBVIOUS
  <2>1. PICK f \in Frames : CallFrame(f) /\ Changes({}, {f})
    BY CallShape
  <2>2. /\ f.step \in {"signal", "cancel", "merge", "get", "dispose"}
        /\ f.of \in known \cup Foreign \/ f.step = "get"
        /\ f.step = "merge" => f.of \in known
    BY <1>K, <2>1 DEF CallFrame
  <2>3. Arrives(t, f)
    BY <2>2 DEF Arrives, RootLinks, Origin, Withdrawn
  <2> QED BY <1>2, <2>1, <2>3
<1> SUFFICES ASSUME Step(t) PROVE All
  BY <1>C DEF All
<1>4. ASSUME NEW f, Changes({F}, {f}), Leaves(t, F), f.of = F.of,
             f.step \notin {"merge", "register", "drop", "unregister"}
      PROVE  All
  <2>1. Arrives(t, f)
    BY <1>0, <1>4, PlainFrame DEF Leaves
  <2> QED BY <1>1, <1>4, <2>1
<1>5. ASSUME stack[t] # <<>>, F.step \notin {"cancel", "merge", "register", "add", "get"}
      PROVE  Leaves(t, F)
  BY <1>0, <1>5 DEF Leaves, Me
<1>6. TryBeginCancellation(t) => All
  <2> SUFFICES ASSUME TryBeginCancellation(t) PROVE All
    OBVIOUS
  <2>1. Leaves(t, F)
    BY <1>0, BeginFrame DEF TopIs, Leaves, Me
  <2> QED BY <1>0, <1>3, <1>4, <2>1, BeginFrame DEF Becomes
<1>7. Signal(t) => All
  <2> SUFFICES ASSUME Signal(t) PROVE All
    OBVIOUS
  <2>1. Leaves(t, F)
    BY <1>0, <1>5, SignalFrame DEF TopIs
  <2> QED BY <1>0, <1>3, <1>4, <2>1, SignalFrame DEF Becomes
<1>8. NotifyEnd(t) => All
  <2> SUFFICES ASSUME NotifyEnd(t) PROVE All
    OBVIOUS
  <2>1. Leaves(t, F)
    BY <1>0, <1>5, NotifyEndFrame DEF TopIs
  <2> QED BY <1>0, <1>3, <1>4, <2>1, NotifyEndFrame DEF Becomes
<1>9. Accept(t) => All
  <2> SUFFICES ASSUME Accept(t) PROVE All
    OBVIOUS
  <2>1. Leaves(t, F)
    BY <1>0, <1>5, AcceptFrame DEF TopIs
  <2>2. ASSUME NEW f, Becomes(F, f, "drop"), ~CanAcceptCancellation(F.of)
        PROVE  All
    <3>1. Arrives(t, f)
      BY <1>0, <2>1, <2>2 DEF Arrives, RootLinks, Origin, Withdrawn, Becomes, Leaves
    <3> QED BY <1>1, <2>1, <2>2, <3>1 DEF Becomes
  <2>3. \/ ~CanAcceptCancellation(F.of) /\ \E f : Becomes(F, f, "drop")
        \/ Changes({F}, {})
    BY <1>0, AcceptFrame
  <2> QED BY <1>3, <2>1, <2>2, <2>3
<1>10. ChildrenReleased(t) => All
  <2> SUFFICES ASSUME ChildrenReleased(t) PROVE All
    OBVIOUS
  <2>1. Leaves(t, F)
    BY <1>0, <1>5, ChildrenReleasedFrame DEF TopIs
  <2> QED BY <1>0, <1>4, <2>1, ChildrenReleasedFrame DEF Becomes
<1>11. CancelEnd(t) \/ DropEnd(t) \/ DisposeSource(t) => All
  <2> SUFFICES ASSUME CancelEnd(t) \/ DropEnd(t) \/ DisposeSource(t) PROVE All
    OBVIOUS
  <2>1. Leaves(t, F)
    BY <1>0, <1>5, ReturnFrame DEF TopIs
  <2> QED BY <1>0, <1>3, <2>1, ReturnFrame
<1>12. AddScope(t) => All
  <2> SUFFICES ASSUME AddScope(t) PROVE All
    OBVIOUS
  <2>1. Leaves(t, F)
    BY <1>0, ReturnFrame DEF TopIs, Leaves, Me
  <2> QED BY <1>0, <1>3, <2>1, ReturnFrame
<1>13. Notify(t) => All
  <2> SUFFICES ASSUME Notify(t) PROVE All
    OBVIOUS
  <2>1. TopIs(t, F, {"notify"})
    BY <1>0, NotifyFrames
  <2>2. Leaves(t, F)
    BY <1>5, <2>1 DEF TopIs
  <2>3. PICK s, c : /\ s \in callbacks[F.of] /\ c.step = "cancel" /\ c.of = s
                    /\ Changes({F}, {F, c})
    BY <1>0, NotifyFrames
  <2>4. F.of \in Tokens /\ F.step = "notify" /\ stack[t] # <<>>
    BY <2>1 DEF TopIs
  <2>5. Arrives(t, F)
    BY <1>0, <2>4, PlainFrame
  <2>6. Arrives(t, c)
    BY <2>3, <2>4 DEF Arrives, RootLinks, Origin, Withdrawn
  <2>7. \A x \in {F, c} : Arrives(t, x)
    BY <2>5, <2>6
  <2> QED BY <1>1, <2>2, <2>3, <2>7
<1>14. FinishCancellation(t) => All
  <2> SUFFICES ASSUME FinishCancellation(t) PROVE All
    OBVIOUS
  <2>1. TopIs(t, F, {"finish"}) /\ F.of \in Scopes
    BY <1>0, FinishFrame
  <2>2. Leaves(t, F)
    BY <1>5, <2>1 DEF TopIs
  <2>3. PICK f : Changes({F}, {f}) /\ f.of = F.of /\ f.step \in {"before", "unregister"}
    BY <1>0, FinishFrame
  <2>4. source[F.of] = "canceled"
    BY <2>1 DEF CancelInv, CancelAt, Some, Matches, TopIs
  <2>5. Arrives(t, f)
    BY <2>2, <2>3, <2>4 DEF Arrives, RootLinks, Origin, Withdrawn, Leaves
  <2> QED BY <1>1, <2>2, <2>3, <2>5
<1>15. Unregister(t) \/ DisposeRegistration(t) => All
  <2> SUFFICES ASSUME Unregister(t) \/ DisposeRegistration(t) PROVE All
    OBVIOUS
  <2>1. TopIs(t, F, {"unregister", "drop", "registrations"})
    BY <1>0, HeldFrame
  <2>2. Leaves(t, F)
    BY <1>5, <2>1 DEF TopIs
  <2>3. PICK f : Changes({F}, {f}) /\ f.of = F.of /\ f.step = F.step
    BY <1>0, HeldFrame
  <2>4. F \in Running /\ Withdrawn(F) /\ F.step \in {"unregister", "drop", "registrations"}
    BY <2>1 DEF TopIs
  <2>5. Arrives(t, f)
    BY <2>2, <2>3, <2>4 DEF Arrives, RootLinks, Origin, Withdrawn, Leaves
  <2> QED BY <1>1, <2>2, <2>3, <2>5
<1>16. MergeBegin(t) => All
  <2> SUFFICES ASSUME MergeBegin(t) PROVE All
    OBVIOUS
  <2>1. TopIs(t, F, {"merge"})
    BY <1>0, MergeFrame
  <2>2. Leaves(t, F)
    BY <1>0, <2>1 DEF TopIs, Leaves, Me
  <2>3. ASSUME NEW f, Becomes(F, f, "register")
        PROVE  All
    <3>1. RootLinks(F) /\ F.step = "merge"
      BY <2>1 DEF TopIs
    <3>2. Arrives(t, f)
      BY <2>2, <2>3, <3>1 DEF Arrives, RootLinks, Origin, Withdrawn, Leaves, Becomes
    <3> QED BY <1>1, <2>2, <2>3, <3>2 DEF Becomes
  <2>4. (\E f : Becomes(F, f, "register")) \/ Changes({F}, {})
    BY <1>0, MergeFrame
  <2> QED BY <1>3, <2>2, <2>3, <2>4
<1>17. Register(t) => All
  <2> SUFFICES ASSUME Register(t) PROVE All
    OBVIOUS
  <2>1. TopIs(t, F, {"register"})
    BY <1>0, RegisterFrames
  <2>2. Leaves(t, F)
    BY <1>0, <2>1 DEF TopIs, Leaves, Me
  <2>3. PICK f, c, k : Registers(F, f, c, k)
    BY <1>0, RegisterFrames
  <2>4. Changes({F}, {f, c}) \/ Changes({F}, {f})
    BY <2>3 DEF Registers
  <2>5. f.of = F.of /\ f.step = "accept" /\ c.of = F.of /\ c.step = "cancel"
    BY <2>3 DEF Registers
  <2>6. Arrives(t, f) /\ Arrives(t, c)
    BY <1>0, <2>2, <2>5, PlainFrame DEF Leaves
  <2>7. (\A x \in {f, c} : Arrives(t, x)) /\ \A x \in {f} : Arrives(t, x)
    BY <2>6
  <2> QED BY <1>1, <2>2, <2>4, <2>7
<1>18. ReleaseResources(t) => All
  <2> SUFFICES ASSUME ReleaseResources(t) PROVE All
    OBVIOUS
  <2>1. Leaves(t, F)
    BY <1>0, <1>5, ReleaseFrame DEF TopIs
  <2>2. Changes({F}, {}) \/ \E f : Changes({F}, {f}) /\ f.step = "before" /\ f.of = F.of
    BY <1>0, ReleaseFrame DEF Starts
  <2> QED BY <1>3, <1>4, <2>1, <2>2
<1>19. ReleaseChild(t) => All
  <2> SUFFICES ASSUME ReleaseChild(t) PROVE All
    OBVIOUS
  <2>1. TopIs(t, F, {"before"})
    BY <1>0, ChildFrames
  <2>2. Leaves(t, F)
    BY <1>5, <2>1 DEF TopIs
  <2>3. PICK f, r, c : Releases(F, f, r, c)
    BY <1>0, ChildFrames
  <2>4. Changes({F}, {f, r}) /\ f.of = F.of /\ f.step = "before"
    BY <2>3 DEF Releases
  <2>5. r.of \in known /\ r.step = "release"
    BY <2>1, <2>3 DEF Releases, TopIs, ChildrenInv
  <2>6. Arrives(t, f)
    BY <1>0, <2>2, <2>4, PlainFrame DEF Leaves
  <2>7. Arrives(t, r)
    BY <2>5 DEF Arrives, RootLinks, Origin, Withdrawn
  <2>8. \A x \in {f, r} : Arrives(t, x)
    BY <2>6, <2>7
  <2> QED BY <1>1, <2>2, <2>4, <2>8
<1>20. GetOrCreateScope(t) => All
  <2> SUFFICES ASSUME GetOrCreateScope(t) PROVE All
    OBVIOUS
  <2>1. Leaves(t, F)
    BY <1>0, GetFrames DEF TopIs, Leaves, Me
  <2>2. ASSUME NEW a, NEW m, Makes(F, a, m), lock = NoThread
        PROVE  All
    <3>1. /\ Changes({F}, {a, m}) /\ a.of = F.of /\ a.step = "add"
          /\ m.of = F.of /\ m.step = "merge" /\ m.held = {Root}
      BY <2>2 DEF Makes
    <3>2. Arrives(t, a)
      BY <1>0, <2>1, <3>1, PlainFrame DEF Leaves
    <3>3. Arrives(t, m)
      BY <2>1, <2>2, <3>1 DEF Arrives, RootLinks, Origin, Withdrawn, Leaves
    <3>4. \A x \in {a, m} : Arrives(t, x)
      BY <3>2, <3>3
    <3> QED BY <1>1, <2>1, <3>1, <3>4
  <2>3. Changes({F}, {}) \/ (lock = NoThread /\ \E a, m : Makes(F, a, m))
    BY <1>0, GetFrames
  <2> QED BY <1>3, <2>1, <2>2, <2>3
<1>21. Dispose(t) => All
  <2> SUFFICES ASSUME Dispose(t) PROVE All
    OBVIOUS
  <2>1. Leaves(t, F)
    BY <1>0, <1>5, DisposeFrame DEF TopIs
  <2>2. Changes({F}, {}) \/ \E r : Changes({F}, {r}) /\ r.step = "release" /\ r.of = Root
    BY <1>0, DisposeFrame
  <2>3. ASSUME NEW r, r.step = "release", r.of = Root
        PROVE  Arrives(t, r)
    BY <1>K, <2>3 DEF Arrives, RootLinks, Origin, Withdrawn
  <2> QED BY <1>1, <1>3, <2>1, <2>2, <2>3
<1>22. ScopeStep(t) => All
  BY <1>6, <1>7, <1>8, <1>9, <1>10, <1>11, <1>13, <1>14, <1>15, <1>16, <1>17, <1>18, <1>19
  DEF ScopeStep
<1> QED BY <1>12, <1>20, <1>21, <1>22 DEF Step

(* A scope that has begun to be cancelled, and one that accepts nothing any *)
(* more, stay so.                                                          *)
LEMMA StaysReached ==
  ASSUME TypeOK, FramesFit, CancelInv, NEW t \in Threads, Step(t) \/ Call(t), NEW s \in Scopes
  PROVE  /\ source[s] = "canceled" => source'[s] = "canceled"
         /\ Reached(s) => Reached(s)'
         /\ ~CanAcceptCancellation(s) => ~CanAcceptCancellation(s)'
<1>0. PICK F : F = Head(stack[t])
  OBVIOUS
<1>1. CancelAt(s) /\ s \in Tokens
  BY DEF CancelInv, Tokens
<1>2. /\ source \in [Tokens -> {"live", "notifying", "canceled"}]
      /\ isCancellationInProgress \in [Scopes -> BOOLEAN]
  BY DEF TypeOK, ScopeTypeOK
<1>3. /\ source[s] = "canceled" => source'[s] = "canceled"
      /\ source[s] # "live" => source'[s] # "live"
  <2>1. CASE Signal(t)
    <3>1. (source[F.of] = "live" /\ source' = [source EXCEPT ![F.of] = "notifying"])
          \/ UNCHANGED source
      BY <1>0, <2>1 DEF Signal, Me
    <3> QED BY <1>1, <1>2, <3>1
  <2>2. CASE NotifyEnd(t)
    <3>1. source' = [source EXCEPT ![F.of] = "canceled"]
      BY <1>0, <2>2 DEF NotifyEnd, Me
    <3> QED BY <1>1, <1>2, <3>1
  <2> QED BY <2>1, <2>2, SourceStays
<1>4. \/ isCancellationInProgress[s] => isCancellationInProgress'[s]
      \/ source[s] = "canceled"
  <2>1. CASE TryBeginCancellation(t)
    <3>1. F.of \in Scopes
      BY <1>0, <2>1, BeginFrame DEF TopIs, ScopeSteps
    <3>2. \/ isCancellationInProgress' = [isCancellationInProgress EXCEPT ![F.of] = TRUE]
          \/ UNCHANGED isCancellationInProgress
      BY <1>0, <2>1 DEF TryBeginCancellation, Me
    <3> QED BY <1>2, <3>1, <3>2
  <2>2. CASE FinishCancellation(t)
    <3>1. TopIs(t, F, {"finish"}) /\ F.of \in Scopes
      BY <1>0, <2>2, FinishFrame
    <3>2. isCancellationInProgress' = [isCancellationInProgress EXCEPT ![F.of] = FALSE]
      BY <1>0, <2>2 DEF FinishCancellation, Me
    <3>3. CASE F.of = s
      BY <1>1, <3>1, <3>3 DEF CancelAt, Some, Matches, TopIs
    <3>4. CASE F.of # s
      BY <1>2, <3>1, <3>2, <3>4
    <3> QED BY <3>3, <3>4
  <2> QED BY <2>1, <2>2, ProgressStays
<1>5. isDisposed[s] => isDisposed'[s]
  BY StaysDisposed
<1> QED BY <1>3, <1>4, <1>5 DEF Reached, CanAcceptCancellation, IsCancellationRequested

LEMMA ScopesOfFrames ==
  TypeOK /\ FramesFit => \A x \in Running : x.step \in ScopeSteps => x.of \in Scopes
BY FrameOfScope

(* The frames of registrations that are withdrawn, and of merges into       *)
(* scopes that users do not know.                                          *)
LEMMA WithdrawnStep ==
  ASSUME TypeOK, FramesFit, CancelInv, LockInv, ChildrenInv,
         \A f \in Running : RootLinks(f), \A f \in Running : Withdrawn(f),
         NEW t \in Threads, Step(t) \/ Call(t), TypeOK', FramesFit'
  PROVE  /\ \A f \in Running' : Withdrawn(f)'
         /\ \A f \in Running' : RootLinks(f)'
<1>1. PICK old, new : /\ Changes(old, new) /\ \A x \in new : Arrives(t, x)
  BY TurnFrames
<1>2. \A x \in Running' : Withdrawn(x) /\ RootLinks(x)
  BY <1>1 DEF Changes, Arrives
<1>3. \A x \in Running' : x.step \in ScopeSteps => x.of \in Scopes
  <2>1. (TypeOK /\ FramesFit => \A x \in Running : x.step \in ScopeSteps => x.of \in Scopes)'
    BY ScopesOfFrames, PTL
  <2> QED BY <2>1
<1>4. known \subseteq known'
  BY LockStep
<1>5. ASSUME NEW x \in Running' PROVE Withdrawn(x)'
  <2>1. CASE x.step = "drop"
    <3>1. x.of \in Scopes /\ ~CanAcceptCancellation(x.of)
      BY <1>2, <1>3, <1>5, <2>1 DEF Withdrawn, ScopeSteps
    <3>2. ~CanAcceptCancellation(x.of)'
      BY <3>1, StaysReached
    <3> QED BY <2>1, <3>2 DEF Withdrawn, CanAcceptCancellation, IsCancellationRequested
  <2>2. CASE x.step = "unregister"
    <3>1. x.of \in Scopes /\ source[x.of] = "canceled"
      BY <1>2, <1>3, <1>5, <2>2 DEF Withdrawn, ScopeSteps
    <3>2. source'[x.of] = "canceled"
      BY <3>1, StaysReached
    <3> QED BY <2>2, <3>2 DEF Withdrawn
  <2> QED BY <2>1, <2>2 DEF Withdrawn
<1>6. \A x \in Running' : RootLinks(x)'
  BY <1>2, <1>4 DEF RootLinks
<1> QED BY <1>5, <1>6

LEMMA NoNewFrame ==
  ASSUME NEW old, NEW new, Changes(old, new), NEW c, NEW K, \A x \in new : ~Matches(x, {c}, K)
  PROVE  /\ Single({c}, K) => Single({c}, K)'
         /\ Some(c, K)' => Some(c, K)
<1>1. \A x, y \in new : Matches(x, {c}, K) /\ Matches(y, {c}, K) => x = y
  OBVIOUS
<1>2. Single({c}, K) => Single({c}, K)'
  BY <1>1 DEF Changes
<1>3. Some(c, K)' => Some(c, K)
  BY SomeChanges
<1> QED BY <1>2, <1>3

(* The frame that adds a scope stays until users know the scope.           *)
LEMMA AddStays ==
  ASSUME TypeOK, FramesFit, CancelInv, LockInv, ChildrenInv,
         \A f \in Running : RootLinks(f), \A f \in Running : Withdrawn(f),
         NEW t \in Threads, Step(t) \/ Call(t), NEW c, c \notin known', Some(c, {"add"})
  PROVE  Some(c, {"add"})'
<1>1. PICK old, new : /\ Changes(old, new) /\ \A z \in old : Leaves(t, z)
  BY TurnFrames
<1>2. Misses(old, c, {"add"})
  <2> SUFFICES ASSUME NEW z \in old, z.of = c, z.step = "add" PROVE FALSE
    BY DEF Misses, Matches
  <2>1. AddScope(t) /\ Me(t) = c
    BY <1>1 DEF Leaves
  <2>2. c \in known'
    BY <2>1 DEF AddScope
  <2> QED BY <2>2
<1> QED BY <1>1, <1>2, KeptFrame

(* Merges and registrations of a scope that users do not know.             *)
LinkAt(c) == Single({c}, Linking) /\ (Some(c, Linking) => Some(c, {"add"}))

LEMMA LinkOwn ==
  ASSUME TypeOK, FramesFit, NEW F, NEW new, Changes({F}, new), \A x \in new : x.of = F.of,
         F.step \in Linking, NEW c, LinkAt(c), Alone(new, c, Linking)
  PROVE  /\ Single({c}, Linking)'
         /\ Some(c, Linking)' => Some(c, {"add"})
<1>1. CASE F.of = c
  <2>1. StackType
    BY DEF TypeOK, ScopeTypeOK, StackType
  <2>2. Single({c}, Linking)'
    BY <1>1, <2>1, OwnFrame DEF LinkAt
  <2>3. Some(c, Linking)
    BY <1>1 DEF Changes, Some, Matches
  <2> QED BY <2>2, <2>3 DEF LinkAt
<1>2. CASE F.of # c
  <2>1. \A x \in {F} \cup new : x.of # c
    BY <1>2
  <2> QED BY <2>1, FramesOfOthers DEF LinkAt
<1> QED BY <1>1, <1>2

LEMMA LinkFrames ==
  ASSUME TypeOK, FramesFit, LockInv, NEW c \in Keys \ known, LinkAt(c),
         NEW t \in Threads, Step(t) \/ Call(t)
  PROVE  /\ Single({c}, Linking)'
         /\ Some(c, Linking)' => Some(c, {"add"}) \/ Some(c, {"add"})'
<1>0. PICK F : F = Head(stack[t])
  OBVIOUS
<1> DEFINE All == /\ Single({c}, Linking)'
                  /\ Some(c, Linking)' => Some(c, {"add"}) \/ Some(c, {"add"})'
<1>A. c \in Scopes
  BY DEF Keys
<1>1. SameFrames(Linking) => All
  <2> SUFFICES ASSUME SameFrames(Linking) PROVE All
    OBVIOUS
  <2>1. {c} \in SUBSET Scopes /\ Linking \in SUBSET Linking
    BY <1>A
  <2>2. Single({c}, Linking)' /\ (Some(c, Linking)' => Some(c, Linking))
    BY <1>A, <2>1 DEF SameFrames, LinkAt
  <2> QED BY <2>2 DEF LinkAt
<1>2. ASSUME NEW new, Changes({F}, new), \A x \in new : x.of = F.of, F.step \in Linking,
             Alone(new, c, Linking)
      PROVE  All
  BY <1>2, LinkOwn
<1>3. ASSUME NEW old, NEW new, Changes(old, new), \A x \in new : ~Matches(x, {c}, Linking)
      PROVE  All
  <2>1. Single({c}, Linking)' /\ (Some(c, Linking)' => Some(c, Linking))
    BY <1>3, NoNewFrame DEF LinkAt
  <2> QED BY <2>1 DEF LinkAt
<1> HIDE DEF All
<1>4. ASSUME Changes({F}, {}), F.step \in Linking
      PROVE  All
  <2>1. Alone({}, c, Linking)
    BY DEF Alone
  <2> QED BY <1>2, <1>4, <2>1
<1>5. ASSUME NEW f, Changes({F}, {f}), f.of = F.of, F.step \in Linking
      PROVE  All
  <2>1. Alone({f}, c, Linking)
    BY DEF Alone
  <2> QED BY <1>2, <1>5, <2>1
<1>6. ASSUME MergeBegin(t) PROVE All
  <2>1. F.step \in Linking
    BY <1>0, <1>6, MergeFrame DEF TopIs, Linking
  <2>2. Changes({F}, {}) \/ \E f : Changes({F}, {f}) /\ f.of = F.of
    BY <1>0, <1>6, MergeFrame DEF Becomes
  <2> QED BY <1>4, <1>5, <2>1, <2>2
<1>7. ASSUME Accept(t) PROVE All
  <2>1. F.step \in Linking
    BY <1>0, <1>7, AcceptFrame DEF TopIs, Linking
  <2>2. Changes({F}, {}) \/ \E f : Changes({F}, {f}) /\ f.of = F.of
    BY <1>0, <1>7, AcceptFrame DEF Becomes
  <2> QED BY <1>4, <1>5, <2>1, <2>2
<1>8. ASSUME DropEnd(t) PROVE All
  <2>1. F.step \in Linking /\ Changes({F}, {})
    BY <1>0, <1>8, ReturnFrame DEF TopIs, Linking
  <2> QED BY <1>4, <2>1
<1>9. ASSUME Register(t) PROVE All
  <2>1. F.step \in Linking
    BY <1>0, <1>9, RegisterFrames DEF TopIs, Linking
  <2>2. PICK f, g, k : Registers(F, f, g, k)
    BY <1>0, <1>9, RegisterFrames
  <2>3. /\ Changes({F}, {f, g}) \/ Changes({F}, {f})
        /\ f.of = F.of /\ g.of = F.of /\ g.step = "cancel"
    BY <2>2 DEF Registers
  <2>4. Alone({f, g}, c, Linking)
    BY <2>3 DEF Alone, Linking
  <2>5. \A x \in {f, g} : x.of = F.of
    BY <2>3
  <2> QED BY <1>2, <1>5, <2>1, <2>3, <2>4, <2>5
<1>10. ASSUME GetOrCreateScope(t) PROVE All
  <2>1. CASE Changes({F}, {})
    BY <1>3, <2>1
  <2>2. ASSUME NEW a, NEW m, Makes(F, a, m), lock = NoThread
        PROVE  All
    <3>1. /\ Changes({F}, {a, m}) /\ a.of = F.of /\ a.step = "add"
          /\ m.of = F.of /\ m.step = "merge"
      BY <2>2 DEF Makes
    <3>2. CASE F.of # c
      <4>1. \A x \in {a, m} : ~Matches(x, {c}, Linking)
        BY <3>1, <3>2 DEF Matches
      <4> QED BY <1>3, <3>1, <4>1
    <3>3. CASE F.of = c
      <4>1. ~Some(c, Linking)
        BY <2>2 DEF LinkAt, LockInv
      <4>2. Alone({a, m}, c, Linking)
        BY <3>1 DEF Alone, Linking
      <4>3. Single({c}, Linking)'
        BY <3>1, <4>1, <4>2, FreshFrame
      <4>4. Some(c, {"add"})'
        BY <3>1, <3>3 DEF Changes, Some, Matches
      <4> QED BY <4>3, <4>4 DEF All
    <3> QED BY <3>2, <3>3
  <2>3. Changes({F}, {}) \/ (lock = NoThread /\ \E a, m : Makes(F, a, m))
    BY <1>0, <1>10, GetFrames
  <2> QED BY <2>1, <2>2, <2>3
<1>11. ASSUME Call(t) PROVE All
  <2>1. PICK f \in Frames : CallFrame(f) /\ Changes({}, {f})
    BY <1>11, CallShape
  <2>2. ~Matches(f, {c}, Linking)
    BY <2>1 DEF CallFrame, Matches, Linking
  <2>3. \A x \in {f} : ~Matches(x, {c}, Linking)
    BY <2>2
  <2> QED BY <1>3, <2>1, <2>3
<1>12. CASE /\ ~MergeBegin(t) /\ ~Accept(t) /\ ~DropEnd(t) /\ ~Register(t)
            /\ ~GetOrCreateScope(t) /\ ~Call(t)
  <2>1. SameFrames(Linking)
    <3>1. /\ Linking \cap {"cancel", "signal"} = {} /\ Linking \cap {"signal", "notify"} = {}
          /\ Linking \cap {"cancel"} = {} /\ Linking \cap {"notify", "finish"} = {}
          /\ Linking \cap {"finish", "before", "unregister"} = {} /\ Linking \cap {"unregister"} = {}
          /\ Linking \cap {"release", "before"} = {} /\ Linking \cap {"release"} = {}
          /\ Linking \cap {"before", "registrations"} = {} /\ Linking \cap {"registrations"} = {}
          /\ Linking \cap {"add"} = {} /\ Linking \cap {"dispose", "release"} = {}
      BY DEF Linking
    <3> QED BY <1>12, <3>1, OtherFrames DEF Step, ScopeStep
  <2> QED BY <1>1, <2>1 DEF All
<1> QED BY <1>6, <1>7, <1>8, <1>9, <1>10, <1>11, <1>12 DEF All

(* What a step does to a scope other than the one whose frame takes it.     *)
LEMMA MergedStays ==
  ASSUME TypeOK, FramesFit, NEW t \in Threads, Step(t) \/ Call(t),
         ~FinishCancellation(t), ~ReleaseResources(t), ~Accept(t), ~MergeBegin(t)
  PROVE  UNCHANGED mergedTokens
<1>1. ASSUME \/ Signal(t) \/ Notify(t) \/ NotifyEnd(t) \/ Unregister(t) \/ CancelEnd(t)
             \/ Register(t) \/ TryBeginCancellation(t)
      PROVE  UNCHANGED mergedTokens
  BY <1>1 DEF Signal, Notify, NotifyEnd, Unregister, CancelEnd, Register,
     TryBeginCancellation, lockedVars
<1>2. ASSUME DropEnd(t) \/ DisposeRegistration(t)
      PROVE  UNCHANGED mergedTokens
  BY <1>2 DEF DropEnd, DisposeRegistration, lockedVars
<1>3. ASSUME \/ ReleaseChild(t) \/ ChildrenReleased(t) \/ DisposeSource(t)
             \/ GetOrCreateScope(t) \/ AddScope(t) \/ Dispose(t)
      PROVE  UNCHANGED mergedTokens
  BY <1>3 DEF ReleaseChild, ChildrenReleased, DisposeSource, GetOrCreateScope, AddScope,
     Dispose, lockedVars
<1>4. ASSUME Call(t)
      PROVE  UNCHANGED mergedTokens
  BY <1>4, CallShape DEF CallFrom, lockedVars
<1> QED BY <1>1, <1>2, <1>3, <1>4 DEF Step, ScopeStep

LEMMA OthersStay ==
  ASSUME TypeOK, FramesFit, NEW c \in Scopes, NEW t \in Threads, Step(t) \/ Call(t),
         Call(t) \/ Me(t) # c
  PROVE  /\ source'[c] = source[c]
         /\ isCancellationInProgress'[c] = isCancellationInProgress[c]
         /\ isDisposed'[c] = isDisposed[c]
         /\ mergedTokens'[c] = mergedTokens[c]
         /\ \A k \in Tokens : c \notin callbacks[k] => c \notin callbacks'[k]
<1>0. PICK F : F = Head(stack[t])
  OBVIOUS
<1>1. /\ source \in [Tokens -> {"live", "notifying", "canceled"}]
      /\ isCancellationInProgress \in [Scopes -> BOOLEAN]
      /\ isDisposed \in [Scopes -> BOOLEAN]
      /\ mergedTokens \in [Scopes -> SUBSET Tokens]
      /\ callbacks \in [Tokens -> SUBSET Scopes]
      /\ c \in Tokens
  BY DEF TypeOK, ScopeTypeOK, Tokens
<1>C. ASSUME Call(t)
      PROVE  UNCHANGED <<source, isCancellationInProgress, isDisposed, mergedTokens, callbacks>>
  BY <1>C, CallShape DEF CallFrom, lockedVars
<1> SUFFICES ASSUME ~Call(t), F.of # c, Step(t)
             PROVE  /\ source'[c] = source[c]
                    /\ isCancellationInProgress'[c] = isCancellationInProgress[c]
                    /\ isDisposed'[c] = isDisposed[c]
                    /\ mergedTokens'[c] = mergedTokens[c]
                    /\ \A k \in Tokens : c \notin callbacks[k] => c \notin callbacks'[k]
  BY <1>0, <1>C DEF Me
<1>2. source'[c] = source[c]
  <2>1. Signal(t) => source' = [source EXCEPT ![F.of] = "notifying"] \/ UNCHANGED source
    BY <1>0 DEF Signal, Me
  <2>2. NotifyEnd(t) => source' = [source EXCEPT ![F.of] = "canceled"]
    BY <1>0 DEF NotifyEnd, Me
  <2> QED BY <1>1, <2>1, <2>2, SourceStays
<1>3. isCancellationInProgress'[c] = isCancellationInProgress[c]
  <2>1. TryBeginCancellation(t) =>
          \/ isCancellationInProgress' = [isCancellationInProgress EXCEPT ![F.of] = TRUE]
          \/ UNCHANGED isCancellationInProgress
    BY <1>0 DEF TryBeginCancellation, Me
  <2>2. FinishCancellation(t) =>
          isCancellationInProgress' = [isCancellationInProgress EXCEPT ![F.of] = FALSE]
    BY <1>0 DEF FinishCancellation, Me
  <2> QED BY <1>1, <2>1, <2>2, ProgressStays
<1>4. isDisposed'[c] = isDisposed[c]
  <2>1. ReleaseResources(t) =>
          isDisposed' = [isDisposed EXCEPT ![F.of] = TRUE] \/ UNCHANGED isDisposed
    BY <1>0 DEF ReleaseResources, Me, lockedVars
  <2> QED BY <1>1, <2>1, StaysDisposed
<1>5. mergedTokens'[c] = mergedTokens[c]
  <2>1. FinishCancellation(t) => mergedTokens' = [mergedTokens EXCEPT ![F.of] = {}]
    BY <1>0 DEF FinishCancellation, Me, TakeRegistrations
  <2>2. ReleaseResources(t) =>
          mergedTokens' = [mergedTokens EXCEPT ![F.of] = {}] \/ UNCHANGED mergedTokens
    BY <1>0 DEF ReleaseResources, Me, lockedVars, TakeRegistrations
  <2>3. Accept(t) =>
          mergedTokens' = [mergedTokens EXCEPT ![F.of] = @ \ F.held] \/ UNCHANGED mergedTokens
    BY <1>0 DEF Accept, Me, Held
  <2>4. ASSUME MergeBegin(t)
        PROVE  \/ \E k : mergedTokens' = [mergedTokens EXCEPT ![F.of] = @ \cup {k}]
               \/ UNCHANGED mergedTokens
    BY <1>0, <2>4, MergeFrame
  <2>5. CASE MergeBegin(t)
    BY <1>1, <2>4, <2>5
  <2> QED BY <1>1, <2>1, <2>2, <2>3, <2>5, MergedStays
<1>6. ASSUME NEW k \in Tokens, c \notin callbacks[k]
      PROVE  c \notin callbacks'[k]
  <2>1. CASE Register(t)
    <3>1. PICK f, g, j : Registers(F, f, g, j)
      BY <1>0, <2>1, RegisterFrames
    <3>2. UNCHANGED callbacks \/ callbacks' = [callbacks EXCEPT ![j] = @ \cup {F.of}]
      BY <3>1 DEF Registers, Adds
    <3> QED BY <1>1, <1>6, <3>2
  <2> QED BY <1>6, <2>1, CallbacksStay
<1> QED BY <1>2, <1>3, <1>4, <1>5, <1>6

LEMMA UntouchedStep ==
  ASSUME TypeOK, FramesFit, CancelInv, LockInv, ChildrenInv, MakeInv,
         \A f \in Running : Withdrawn(f), NEW t \in Threads, Step(t) \/ Call(t),
         NEW c \in Keys, c \notin known', (Some(c, {"add"}) => Some(c, {"merge"}))'
  PROVE  Untouched(c)'
<1>0. PICK F : F = Head(stack[t])
  OBVIOUS
<1>A. c \in Scopes /\ c \in Tokens /\ c \notin Foreign /\ c # Root
  BY TokensAssumption DEF Keys, Tokens
<1>R. \A f \in Running : RootLinks(f)
  BY DEF MakeInv, RootLinks
<1>K. c \notin known
  BY LockStep
<1>L. LinkAt(c)
  BY <1>K DEF MakeInv, LinkAt
<1>T. StackType
  BY DEF TypeOK, ScopeTypeOK, StackType
<1>1. PICK old, new : /\ Changes(old, new)
                      /\ \A z \in old : Leaves(t, z)
                      /\ \A x \in new : Arrives(t, x)
  BY <1>R, TurnFrames
<1>2. Some(c, {"add"}) => Some(c, {"add"})'
  BY <1>R, AddStays
<1>3. Some(c, {"add"}) => Some(c, {"merge"})
  <2>1. ASSUME Has(new, c, {"merge"}) PROVE ~Some(c, {"add"})
    <3>1. lock = NoThread
      BY <1>1, <1>K, <2>1 DEF Has, Arrives
    <3> QED BY <1>A, <3>1 DEF LockInv
  <2>2. Some(c, {"merge"})' => Some(c, {"merge"}) \/ Has(new, c, {"merge"})
    BY <1>1, NewFrame
  <2> QED BY <1>2, <2>1, <2>2
<1>4. Untouched(c)
  BY <1>3, <1>K DEF MakeInv
<1>5. ASSUME NEW x \in new, x.of = c, ~(Step(t) /\ Me(t) = c)
      PROVE  x.step = "get"
  <2>1. Origin(t, x) /\ \A k \in Tokens : c \notin callbacks[k]
    BY <1>1, <1>4 DEF Arrives, Untouched
  <2> QED BY <1>5, <1>A, <1>K, <2>1 DEF Origin
<1>6. CASE ~(Step(t) /\ Me(t) = c)
  <2>1. /\ source'[c] = source[c] /\ isDisposed'[c] = isDisposed[c]
        /\ isCancellationInProgress'[c] = isCancellationInProgress[c]
        /\ mergedTokens'[c] = mergedTokens[c]
        /\ \A k \in Tokens : c \notin callbacks[k] => c \notin callbacks'[k]
    BY <1>6, <1>A, OthersStay
  <2>2. \A x \in Running' : x.of = c => x.step \in {"get", "add", "merge"}
    BY <1>1, <1>4, <1>5, <1>6 DEF Changes, Untouched
  <2> QED BY <1>4, <2>1, <2>2 DEF Untouched, CanAcceptCancellation, IsCancellationRequested
<1>7. CASE Step(t) /\ Me(t) = c
  <2>1. stack[t] # <<>>
    BY <1>7 DEF Step, ScopeStep, At, TryBeginCancellation, Signal, Notify, NotifyEnd,
       FinishCancellation, Unregister, CancelEnd, MergeBegin, Register, Accept, DropEnd,
       DisposeRegistration, ReleaseResources, ReleaseChild, ChildrenReleased, DisposeSource,
       GetOrCreateScope, AddScope, Dispose
  <2>2. F \in Running /\ F.of = c
    BY <1>0, <1>7, <1>T, <2>1, TopFrame DEF Me
  <2>3. F.step \in {"get", "add", "merge"}
    BY <1>4, <2>2 DEF Untouched
  <2>4. \/ GetOrCreateScope(t) /\ F.step = "get"
        \/ AddScope(t)
        \/ MergeBegin(t)
    BY <1>0, <1>7, <2>1, <2>3 DEF Step, ScopeStep, At, TryBeginCancellation, Signal, Notify,
       NotifyEnd, FinishCancellation, Unregister, CancelEnd, MergeBegin, Register, Accept,
       DropEnd, DisposeRegistration, ReleaseResources, ReleaseChild, ChildrenReleased,
       DisposeSource, GetOrCreateScope, AddScope, Dispose
  <2>5. ~AddScope(t)
    BY <1>7 DEF AddScope
  <2>6. ~MergeBegin(t)
    <3> SUFFICES ASSUME MergeBegin(t) PROVE FALSE
      OBVIOUS
    <3>1. F.step = "merge" /\ RootLinks(F)
      BY <1>0, <1>R, <2>2, MergeFrame DEF TopIs
    <3>2. CanMerge(c, Root)
      BY <1>4, <1>A DEF Untouched, CanMerge
    <3>3. F.held = {Root}
      BY <1>K, <2>2, <3>1 DEF RootLinks
    <3>4. PICK f : Becomes(F, f, "register")
      BY <1>0, <2>2, <3>2, <3>3, MergeFrame
    <3>5. Changes({F}, {f}) /\ f.of = F.of /\ f.step = "register" /\ F.step \in Linking
      BY <3>1, <3>4 DEF Becomes, Linking
    <3>6. {"merge"} \in SUBSET Linking
      BY DEF Linking
    <3>7. ~Some(c, {"merge"})'
      BY <1>L, <1>T, <2>2, <3>5, <3>6, NextFrame DEF LinkAt
    <3>8. Some(c, {"add"})'
      <4>1. Some(c, Linking)
        BY <2>2, <3>5 DEF Some, Matches
      <4> QED BY <1>2, <1>L, <4>1 DEF LinkAt
    <3> QED BY <3>7, <3>8
  <2>7. CASE GetOrCreateScope(t)
    <3>1. UNCHANGED <<source, callbacks, mergedTokens, isDisposed, isCancellationInProgress>>
      BY <2>7 DEF GetOrCreateScope, sourceVars, lockedVars
    <3>2. \A x \in Running' : x.of = c => x.step \in {"get", "add", "merge"}
      <4>1. Changes({F}, {}) \/ \E a, m : Makes(F, a, m)
        BY <1>0, <2>7, GetFrames
      <4>2. CASE Changes({F}, {})
        BY <1>4, <4>2 DEF Changes, Untouched
      <4>3. ASSUME NEW a, NEW m, Makes(F, a, m)
            PROVE  \A x \in Running' : x.of = c => x.step \in {"get", "add", "merge"}
        <5>1. a.step = "add" /\ m.step = "merge" /\ Changes({F}, {a, m})
          BY <4>3 DEF Makes
        <5> QED BY <1>4, <5>1 DEF Changes, Untouched
      <4> QED BY <4>1, <4>2, <4>3
    <3> QED BY <1>4, <3>1, <3>2 DEF Untouched, CanAcceptCancellation, IsCancellationRequested
  <2> QED BY <2>4, <2>5, <2>6, <2>7
<1> QED BY <1>6, <1>7

LEMMA MakeStep ==
  ASSUME TypeOK, FramesFit, CancelInv, LockInv, ChildrenInv, MakeInv,
         \A f \in Running : Withdrawn(f), NEW t \in Threads, Step(t) \/ Call(t),
         TypeOK', FramesFit'
  PROVE  MakeInv' /\ \A f \in Running' : Withdrawn(f)'
<1>1. known \subseteq known'
  BY LockStep
<1>2. \A f \in Running : RootLinks(f)
  BY DEF MakeInv, RootLinks
<1>3. (\A f \in Running' : Withdrawn(f)') /\ \A f \in Running' : RootLinks(f)'
  BY <1>2, WithdrawnStep
<1>4. ASSUME NEW c \in Keys \ known'
      PROVE  Single({c}, Linking)' /\ (Some(c, Linking) => Some(c, {"add"}))'
  <2>1. c \in Keys \ known /\ LinkAt(c)
    BY <1>1 DEF MakeInv, LinkAt
  <2>2. Some(c, {"add"}) => Some(c, {"add"})'
    BY <1>2, AddStays
  <2> QED BY <2>1, <2>2, LinkFrames
<1>5. ASSUME NEW c \in Keys \ known', (Some(c, {"add"}) => Some(c, {"merge"}))'
      PROVE  Untouched(c)'
  BY <1>5, UntouchedStep
<1> QED BY <1>3, <1>4, <1>5 DEF MakeInv, RootLinks

-----------------------------------------------------------------------------
(* The root's cancellation gets to every child.                            *)

ReachAll == FamilyInv /\ MakeInv /\ ReachInv

LEMMA ReachParts ==
  ASSUME ReachAll
  PROVE  /\ TypeOK /\ FramesFit /\ CancelInv /\ DisposeInv /\ LockInv /\ ChildrenInv
         /\ RootInv /\ ChildInv /\ MakeInv /\ ReachInv
         /\ (\A f \in Running : RootLinks(f)) /\ \A f \in Running : Withdrawn(f)
         /\ Root \in Scopes /\ Root \in Tokens /\ StackType
         /\ Keys \subseteq Scopes /\ \A c \in Keys : c # Root
<1>1. TypeOK /\ FramesFit /\ CancelInv /\ DisposeInv
  BY DEF ReachAll, FamilyInv, SafetyInv
<1>2. \A f \in Running : RootLinks(f)
  BY DEF ReachAll, MakeInv, RootLinks
<1>3. StackType
  BY <1>1 DEF TypeOK, ScopeTypeOK, StackType
<1>4. Root \in Scopes /\ Root \in Tokens /\ Keys \subseteq Scopes /\ \A c \in Keys : c # Root
  BY UtilsAssumption DEF Tokens, Keys
<1> QED BY <1>1, <1>2, <1>3, <1>4 DEF ReachAll, FamilyInv, ReachInv

LEMMA BelowStays ==
  ASSUME ReachAll, NEW t \in Threads, Step(t) \/ Call(t), NEW s, NEW J, NEW c, NEW K,
         Below(s, J, c, K),
         \/ K = {"cancel"} /\ ~(TryBeginCancellation(t) /\ Me(t) = c)
         \/ K = {"merge", "register"} /\ ~((MergeBegin(t) \/ Register(t)) /\ Me(t) = c)
  PROVE  Below(s, J, c, K)'
<1>1. PICK old, new : Changes(old, new) /\ \A z \in old : Leaves(t, z)
  BY ReachParts, TurnFrames
<1>2. Shifts(old, new)
  BY <1>1 DEF Changes
<1>3. ASSUME NEW z \in old, Matches(z, {c}, K) PROVE FALSE
  BY <1>1, <1>3 DEF Leaves, Matches
<1> QED BY <1>2, <1>3 DEF Shifts

(* What begins to run below what.                                          *)
LEMMA GetBelow ==
  ASSUME TypeOK, FramesFit, NEW t \in Threads, NEW F, F = Head(stack[t]), GetOrCreateScope(t)
  PROVE  \/ Changes({F}, {})
         \/ /\ Below(F.of, {"add"}, F.of, {"merge", "register"})'
            /\ \E a, m : Makes(F, a, m)
<1>1. TopIs(t, F, {"get"}) /\ F.of \in Keys
  BY GetFrames
<1>2. StackType /\ stack[t] # <<>> /\ F.of \in Tokens
  BY <1>1 DEF TypeOK, ScopeTypeOK, StackType, TopIs
<1>3. PICK a, m : a = Frame("add", F.of) /\ m = [Frame("merge", F.of) EXCEPT !.held = {Root}]
  OBVIOUS
<1>4. /\ a \in Frames /\ m \in Frames
      /\ Matches(a, {F.of}, {"add"}) /\ Matches(m, {F.of}, {"merge", "register"})
  BY <1>2, <1>3, UtilsAssumption DEF Frame, Frames, Matches, Tokens
<1>5. CASE utilsDisposed \/ Me(t) \in keyedScopes
  BY <1>5, GetFrames DEF Me
<1>6. CASE ~(utilsDisposed \/ Me(t) \in keyedScopes)
  <2>1. Enter(t, a, m)
    BY <1>3, <1>6 DEF GetOrCreateScope, Me
  <2>2. Below(F.of, {"add"}, F.of, {"merge", "register"})'
    BY <1>2, <1>4, <2>1, Entered
  <2> QED BY <1>6, <2>2, GetFrames DEF Me
<1> QED BY <1>5, <1>6

LEMMA NotifyBelow ==
  ASSUME TypeOK, FramesFit, NEW t \in Threads, NEW F, F = Head(stack[t]), Notify(t)
  PROVE  \E s \in Scopes : Drops(F.of, s) /\ Below(F.of, {"notify"}, s, {"cancel"})'
<1>1. TopIs(t, F, {"notify"})
  BY NotifyFrames
<1>2. StackType /\ stack[t] # <<>> /\ F \in Frames /\ F.step = "notify" /\ F.of \in Tokens
  BY <1>1 DEF TypeOK, ScopeTypeOK, StackType, TopIs
<1>3. callbacks[F.of] \subseteq Scopes
  BY <1>2 DEF TypeOK, ScopeTypeOK
<1>4. PICK s \in callbacks[F.of] : Drops(F.of, s) /\ Enter(t, F, Frame("cancel", s))
  BY DEF Notify, Me, Drops
<1>5. PICK c : c = Frame("cancel", s)
  OBVIOUS
<1>6. c \in Frames /\ Matches(c, {s}, {"cancel"}) /\ Matches(F, {F.of}, {"notify"})
  BY <1>2, <1>3, <1>5 DEF Frame, Frames, Matches, Tokens
<1>7. Below(F.of, {"notify"}, s, {"cancel"})'
  BY <1>2, <1>4, <1>5, <1>6, Entered
<1> QED BY <1>3, <1>4, <1>7

(* Where no callback is taken off.                                         *)
LEMMA CallbacksKept ==
  ASSUME TypeOK, FramesFit, NEW t \in Threads, Step(t) \/ Call(t),
         ~Notify(t), ~Unregister(t), ~DisposeRegistration(t), ~DisposeSource(t)
  PROVE  \A k \in Tokens : callbacks[k] \subseteq callbacks'[k]
<1>1. ASSUME \/ TryBeginCancellation(t) \/ Signal(t) \/ NotifyEnd(t) \/ FinishCancellation(t)
             \/ CancelEnd(t) \/ MergeBegin(t) \/ Accept(t) \/ DropEnd(t)
      PROVE  UNCHANGED callbacks
  BY <1>1 DEF TryBeginCancellation, Signal, NotifyEnd, FinishCancellation, CancelEnd,
     MergeBegin, Accept, DropEnd, sourceVars
<1>2. ASSUME \/ ReleaseResources(t) \/ ReleaseChild(t) \/ ChildrenReleased(t)
             \/ GetOrCreateScope(t) \/ AddScope(t) \/ Dispose(t)
      PROVE  UNCHANGED callbacks
  BY <1>2 DEF ReleaseResources, ReleaseChild, ChildrenReleased, GetOrCreateScope, AddScope,
     Dispose, sourceVars
<1>3. ASSUME Call(t)
      PROVE  UNCHANGED callbacks
  BY <1>3, CallShape DEF CallFrom
<1>4. ASSUME Register(t)
      PROVE  \A k \in Tokens : callbacks[k] \subseteq callbacks'[k]
  <2>1. PICK F : F = Head(stack[t])
    OBVIOUS
  <2>2. PICK f, g, j : Registers(F, f, g, j)
    BY <1>4, <2>1, RegisterFrames
  <2>3. UNCHANGED callbacks \/ callbacks' = [callbacks EXCEPT ![j] = @ \cup {F.of}]
    BY <2>2 DEF Registers, Adds
  <2>4. callbacks \in [Tokens -> SUBSET Scopes]
    BY DEF TypeOK, ScopeTypeOK
  <2> QED BY <2>3, <2>4
<1> QED BY <1>1, <1>2, <1>3, <1>4 DEF Step, ScopeStep

(* Once the root is gone it is not cancelled.                              *)
LEMMA GoneIsQuiet ==
  ASSUME ReachAll, RootGone
  PROVE  /\ source[Root] # "notifying"
         /\ \A f \in Running : f.of = Root => f.step \notin {"signal", "notify"}
<1>1. CancelAt(Root) /\ ~isCancellationInProgress[Root]
  BY ReachParts DEF CancelInv, RootGone
<1>2. ~Some(Root, Cancelling)
  BY <1>1 DEF CancelAt
<1> QED BY <1>1, <1>2 DEF CancelAt, Some, Matches, Cancelling

LEMMA GoneStays ==
  ASSUME ReachAll, RootGone, source[Root] # "canceled", NEW t \in Threads, Step(t) \/ Call(t)
  PROVE  RootGone' /\ source'[Root] = "live"
<1>0. PICK F : F = Head(stack[t])
  OBVIOUS
<1>1. RootGone'
  BY ReachParts, RootStaysGone
<1>2. source \in [Tokens -> {"live", "notifying", "canceled"}] /\ Root \in Tokens
  BY ReachParts DEF TypeOK, ScopeTypeOK
<1>3. source[Root] = "live"
  BY <1>2, GoneIsQuiet
<1>4. \A f \in Running : f.of = Root => f.step \notin {"signal", "notify"}
  BY GoneIsQuiet
<1>5. CASE Signal(t)
  <2>1. F \in Running /\ F.step = "signal"
    BY <1>0, <1>5, SignalFrame, ReachParts DEF TopIs
  <2>2. source' = [source EXCEPT ![F.of] = "notifying"] \/ UNCHANGED source
    BY <1>0, <1>5 DEF Signal, Me
  <2> QED BY <1>1, <1>2, <1>3, <1>4, <2>1, <2>2
<1>6. CASE NotifyEnd(t)
  <2>1. F \in Running /\ F.step = "notify"
    BY <1>0, <1>6, NotifyEndFrame, ReachParts DEF TopIs
  <2>2. source' = [source EXCEPT ![F.of] = "canceled"]
    BY <1>0, <1>6 DEF NotifyEnd, Me
  <2> QED BY <1>1, <1>2, <1>3, <1>4, <2>1, <2>2
<1> QED BY <1>1, <1>3, <1>5, <1>6, SourceStays, ReachParts

(* The root's source still has the callback, or is running it, until it has *)
(* told everyone.                                                          *)
Telling(c) == c \in callbacks[Root] \/ Below(Root, {"notify"}, c, {"cancel"})

LEMMA NotOverYet ==
  ASSUME ReachAll, NEW c, Telling(c), source[Root] # "canceled",
         NEW t \in Threads, Step(t) \/ Call(t)
  PROVE  source'[Root] # "canceled"
<1>0. PICK F : F = Head(stack[t])
  OBVIOUS
<1>1. source \in [Tokens -> {"live", "notifying", "canceled"}] /\ Root \in Tokens
  BY ReachParts DEF TypeOK, ScopeTypeOK
<1>2. CASE Signal(t)
  <2>1. source' = [source EXCEPT ![F.of] = "notifying"] \/ UNCHANGED source
    BY <1>0, <1>2 DEF Signal, Me
  <2> QED BY <1>1, <2>1
<1>3. CASE NotifyEnd(t)
  <2>1. source' = [source EXCEPT ![F.of] = "canceled"] /\ callbacks[F.of] = {}
    BY <1>0, <1>3 DEF NotifyEnd, Me
  <2>2. stack[t] # <<>> /\ F.step = "notify"
    BY <1>0, <1>3, NotifyEndFrame, ReachParts DEF TopIs
  <2>3. F.of # Root
    <3> SUFFICES ASSUME F.of = Root PROVE FALSE
      OBVIOUS
    <3>1. Below(Root, {"notify"}, c, {"cancel"})
      BY <2>1 DEF Telling
    <3>2. Single({Root}, {"notify"})
      BY ReachParts DEF CancelInv, CancelAt, Single, Matches, Cancelling
    <3>3. Matches(Head(stack[t]), {Root}, {"notify"})
      BY <1>0, <2>2 DEF Matches
    <3> QED BY <2>2, <3>1, <3>2, <3>3, TopIsNotBelow, ReachParts
  <2> QED BY <1>1, <2>1, <2>3
<1> QED BY <1>2, <1>3, SourceStays, ReachParts

(* A scope that begins to be cancelled, where it is not disposed.          *)
LEMMA BeginReaches ==
  ASSUME ReachAll, NEW t \in Threads, TryBeginCancellation(t), NEW c \in Scopes, Me(t) = c,
         ~isDisposed[c]
  PROVE  Reached(c) \/ Reached(c)'
<1>1. CASE CanAcceptCancellation(c)
  <2>1. isCancellationInProgress' = [isCancellationInProgress EXCEPT ![c] = TRUE]
    BY <1>1 DEF TryBeginCancellation
  <2>2. isCancellationInProgress \in [Scopes -> BOOLEAN]
    BY ReachParts DEF TypeOK, ScopeTypeOK
  <2> QED BY <2>1, <2>2 DEF Reached
<1>2. CASE ~CanAcceptCancellation(c)
  BY <1>2 DEF CanAcceptCancellation, Reached
<1> QED BY <1>1, <1>2

LEMMA TellingStep ==
  ASSUME ReachAll, NEW c \in Keys, Telling(c), ~Reached(c), ~Reached(c)', ~RootGone,
         source[Root] # "canceled", NEW t \in Threads, Step(t) \/ Call(t)
  PROVE  Telling(c)'
<1>0. PICK F : F = Head(stack[t])
  OBVIOUS
<1>1. callbacks \in [Tokens -> SUBSET Scopes] /\ Root \in Tokens /\ c \in Scopes
  BY ReachParts DEF TypeOK, ScopeTypeOK
<1>2. ~isDisposed[c]
  BY ReachParts DEF ChildInv
<1>3. CASE Below(Root, {"notify"}, c, {"cancel"})
  <2>1. ~(TryBeginCancellation(t) /\ Me(t) = c)
    BY <1>1, <1>2, BeginReaches
  <2>2. Below(Root, {"notify"}, c, {"cancel"})'
    BY <1>3, <2>1, BelowStays
  <2> QED BY <2>2 DEF Telling
<1>4. CASE c \in callbacks[Root]
  <2>1. CASE Notify(t)
    <3>1. PICK s \in Scopes : Drops(F.of, s) /\ Below(F.of, {"notify"}, s, {"cancel"})'
      BY <1>0, <2>1, NotifyBelow, ReachParts
    <3>2. callbacks' = [callbacks EXCEPT ![F.of] = @ \ {s}]
      BY <3>1 DEF Drops
    <3>3. CASE F.of = Root /\ s = c
      BY <3>1, <3>3 DEF Telling
    <3>4. CASE ~(F.of = Root /\ s = c)
      <4>1. c \in callbacks'[Root]
        BY <1>1, <1>4, <3>2, <3>4
      <4> QED BY <4>1 DEF Telling
    <3> QED BY <3>3, <3>4
  <2>2. CASE Unregister(t) \/ DisposeRegistration(t)
    <3>1. /\ TopIs(t, F, {"unregister", "drop", "registrations"}) /\ F.of \in Scopes
          /\ \E k \in Tokens : Drops(k, F.of)
      BY <1>0, <2>2, HeldFrame, ReachParts
    <3>2. PICK k \in Tokens : callbacks' = [callbacks EXCEPT ![k] = @ \ {F.of}]
      BY <3>1 DEF Drops
    <3>3. F.of # c
      <4> SUFFICES ASSUME F.of = c PROVE FALSE
        OBVIOUS
      <4>1. F \in Running /\ Withdrawn(F) /\ F.step \in {"unregister", "drop", "registrations"}
        BY <3>1, ReachParts DEF TopIs
      <4>2. CASE F.step = "unregister"
        BY <4>1, <4>2 DEF Withdrawn, Reached, IsCancellationRequested
      <4>3. CASE F.step = "drop"
        BY <1>2, <4>1, <4>3 DEF Withdrawn, Reached, CanAcceptCancellation
      <4>4. CASE F.step = "registrations"
        <5>1. Some(c, Disposing)
          BY <4>1, <4>4 DEF Some, Matches, Disposing
        <5> QED BY <1>1, <1>2, <5>1, ReachParts DEF DisposeInv, DisposeAt
      <4> QED BY <4>1, <4>2, <4>3, <4>4
    <3>4. c \in callbacks'[Root]
      BY <1>1, <1>4, <3>2, <3>3
    <3> QED BY <3>4 DEF Telling
  <2>3. CASE DisposeSource(t)
    <3>1. TopIs(t, F, {"registrations"}) /\ callbacks' = [callbacks EXCEPT ![F.of] = {}]
      BY <1>0, <2>3, ReturnFrame, ReachParts DEF DisposeSource, Me
    <3>2. F.of # Root
      <4> SUFFICES ASSUME F.of = Root PROVE FALSE
        OBVIOUS
      <4>1. Some(Root, Disposing)
        BY <3>1 DEF TopIs, Some, Matches, Disposing
      <4> QED BY <4>1, ReachParts DEF DisposeInv, DisposeAt, RootGone
    <3>3. c \in callbacks'[Root]
      BY <1>1, <1>4, <3>1, <3>2
    <3> QED BY <3>3 DEF Telling
  <2>4. CASE ~Notify(t) /\ ~Unregister(t) /\ ~DisposeRegistration(t) /\ ~DisposeSource(t)
    <3>1. c \in callbacks'[Root]
      BY <1>1, <1>4, <2>4, CallbacksKept, ReachParts
    <3> QED BY <3>1 DEF Telling
  <2> QED BY <2>1, <2>2, <2>3, <2>4
<1> QED BY <1>3, <1>4 DEF Telling

LEMMA WillStay ==
  ASSUME ReachAll, NEW c \in Keys, WillBeReached(c), NEW t \in Threads, Step(t) \/ Call(t)
  PROVE  WillBeReached(c)'
<1>1. ASSUME Reached(c) PROVE Reached(c)'
  BY <1>1, StaysReached, ReachParts
<1>2. ASSUME RootGone, source[Root] # "canceled" PROVE WillBeReached(c)'
  BY <1>2, GoneStays DEF WillBeReached
<1>3. ASSUME ~Reached(c), ~Reached(c)', ~RootGone
      PROVE  WillBeReached(c)'
  <2>1. source[Root] # "canceled" /\ Telling(c)
    BY <1>3 DEF WillBeReached, Telling
  <2>2. Telling(c)' /\ source'[Root] # "canceled"
    BY <1>3, <2>1, TellingStep, NotOverYet
  <2> QED BY <2>2 DEF WillBeReached, Telling
<1>4. RootGone /\ ~Reached(c) => source[Root] # "canceled"
  BY DEF WillBeReached
<1>5. Reached(c)' => WillBeReached(c)'
  BY DEF WillBeReached
<1> QED BY <1>1, <1>2, <1>3, <1>4, <1>5

(* A call that makes c links it to the root before it adds it.             *)
LEMMA JoinCancel ==
  ASSUME ReachAll, NEW c \in Keys, Some(c, {"add"}), NEW t \in Threads, Step(t) \/ Call(t),
         Below(c, {"add"}, c, {"cancel"})
  PROVE  Reached(c) \/ Reached(c)' \/ Below(c, {"add"}, c, {"cancel"})'
<1>1. ~isDisposed[c] /\ c \in Scopes
  BY ReachParts DEF LockInv, ChildInv
<1>2. CASE TryBeginCancellation(t) /\ Me(t) = c
  BY <1>1, <1>2, BeginReaches
<1>3. CASE ~(TryBeginCancellation(t) /\ Me(t) = c)
  BY <1>3, BelowStays
<1> QED BY <1>2, <1>3

LEMMA JoinMerge ==
  ASSUME ReachAll, NEW c \in Keys, Some(c, {"add"}), NEW t \in Threads, Step(t) \/ Call(t),
         MergeBegin(t), Me(t) = c, Below(c, {"add"}, c, {"merge", "register"})
  PROVE  Below(c, {"add"}, c, {"merge", "register"})'
<1>0. PICK F : F = Head(stack[t])
  OBVIOUS
<1>1. TopIs(t, F, {"merge"})
  BY <1>0, MergeFrame, ReachParts
<1>2. F \in Running /\ F.step = "merge" /\ F.of = c /\ RootLinks(F)
  BY <1>0, <1>1, ReachParts DEF TopIs, Me
<1>3. c \notin known /\ c # Root /\ Root \in Tokens
  BY ReachParts DEF LockInv
<1>4. Untouched(c)
  <2>1. Some(c, {"merge"})
    BY <1>2 DEF Some, Matches
  <2> QED BY <1>3, <2>1, ReachParts DEF MakeInv
<1>5. CanMerge(c, Root)
  BY <1>3, <1>4 DEF Untouched, CanMerge
<1>6. F.held = {Root}
  BY <1>2, <1>3 DEF RootLinks
<1>7. PICK f : Becomes(F, f, "register")
  BY <1>0, <1>2, <1>5, <1>6, MergeFrame, ReachParts
<1>8. Shifts({F}, {f}) /\ Matches(f, {c}, {"merge", "register"})
  BY <1>2, <1>7 DEF Becomes, Changes, Matches
<1> QED BY <1>8 DEF Shifts

LEMMA JoinRegister ==
  ASSUME ReachAll, NEW c \in Keys, Some(c, {"add"}), NEW t \in Threads, Step(t) \/ Call(t),
         Register(t), Me(t) = c, Below(c, {"add"}, c, {"merge", "register"})
  PROVE  WillBeReached(c)' \/ Joining(c)'
<1>0. PICK F : F = Head(stack[t])
  OBVIOUS
<1>1. TopIs(t, F, {"register"})
  BY <1>0, RegisterFrames, ReachParts
<1>2. F \in Running /\ F.step = "register" /\ F.of = c /\ RootLinks(F)
  BY <1>0, <1>1, ReachParts DEF TopIs, Me
<1>3. F.held = {Root}
  BY <1>2, ReachParts DEF RootLinks, LockInv
<1>4. UNCHANGED source
  BY DEF Register
<1>5. PICK f, g, k : Registers(F, f, g, k)
  BY <1>0, RegisterFrames, ReachParts
<1>6. k = Root
  BY <1>3, <1>5 DEF Registers
<1>7. CASE IsCancellationRequested(Root)
  <2>1. Changes({F}, {f, g}) /\ Matches(g, {c}, {"cancel"})
    BY <1>2, <1>5, <1>6, <1>7 DEF Registers, Matches
  <2>2. Shifts({F}, {f, g})
    BY <2>1 DEF Changes
  <2>3. \/ Below(c, {"add"}, c, {"merge", "register"})'
        \/ Below(c, {"add"}, c, {"cancel"})'
    BY <2>1, <2>2 DEF Shifts
  <2> QED BY <2>3 DEF Joining
<1>8. CASE ~IsCancellationRequested(Root) /\ sourceDisposed[Root]
  <2>1. RootGone
    BY <1>8, ReachParts DEF DisposeInv, DisposeAt, RootGone
  <2>2. RootGone' /\ source'[Root] = "live"
    BY <1>8, <2>1, GoneStays DEF IsCancellationRequested
  <2> QED BY <2>2 DEF WillBeReached
<1>9. CASE ~IsCancellationRequested(Root) /\ ~sourceDisposed[Root]
  <2>1. callbacks' = [callbacks EXCEPT ![Root] = @ \cup {c}]
    BY <1>2, <1>5, <1>6, <1>9 DEF Registers, Adds
  <2>2. callbacks \in [Tokens -> SUBSET Scopes] /\ Root \in Tokens
    BY ReachParts DEF TypeOK, ScopeTypeOK
  <2>3. c \in callbacks'[Root]
    BY <2>1, <2>2
  <2>4. source'[Root] # "canceled"
    BY <1>4, <1>9 DEF IsCancellationRequested
  <2> QED BY <2>3, <2>4 DEF WillBeReached
<1> QED BY <1>7, <1>8, <1>9

LEMMA JoinStays ==
  ASSUME ReachAll, NEW c \in Keys, Some(c, {"add"}), NEW t \in Threads, Step(t) \/ Call(t)
  PROVE  WillBeReached(c)' \/ Joining(c)'
<1>1. CASE WillBeReached(c)
  BY <1>1, WillStay
<1>2. CASE ~WillBeReached(c) /\ Below(c, {"add"}, c, {"cancel"})
  <2>1. ~Reached(c)
    BY <1>2 DEF WillBeReached
  <2>2. Reached(c)' \/ Below(c, {"add"}, c, {"cancel"})'
    BY <1>2, <2>1, JoinCancel
  <2> QED BY <2>2 DEF WillBeReached, Joining
<1>3. CASE Below(c, {"add"}, c, {"merge", "register"})
  <2>1. CASE MergeBegin(t) /\ Me(t) = c
    BY <1>3, <2>1, JoinMerge DEF Joining
  <2>2. CASE Register(t) /\ Me(t) = c
    BY <1>3, <2>2, JoinRegister
  <2>3. CASE ~((MergeBegin(t) \/ Register(t)) /\ Me(t) = c)
    BY <1>3, <2>3, BelowStays DEF Joining
  <2> QED BY <2>1, <2>2, <2>3
<1> QED BY <1>1, <1>2, <1>3, ReachParts DEF ReachInv, Joining

LEMMA JoinBegins ==
  ASSUME ReachAll, NEW c \in Keys, ~Some(c, {"add"}), Some(c, {"add"})',
         NEW t \in Threads, Step(t) \/ Call(t)
  PROVE  Joining(c)'
<1>0. PICK F : F = Head(stack[t])
  OBVIOUS
<1>1. ~SameFrames({"add"})
  <2>1. c \in Scopes /\ {"add"} \in SUBSET {"add"}
    BY ReachParts
  <2> QED BY <2>1 DEF SameFrames
<1>2. ~Changes({F}, {})
  <2> SUFFICES ASSUME Changes({F}, {}) PROVE FALSE
    OBVIOUS
  <2>1. \A x \in Running' : x \in Running
    BY DEF Changes
  <2> QED BY <2>1 DEF Some, Matches
<1>3. ~AddScope(t)
  BY <1>0, <1>2, ReturnFrame, ReachParts
<1>4. GetOrCreateScope(t)
  <2>1. /\ {"add"} \cap {"cancel", "signal"} = {} /\ {"add"} \cap {"signal", "notify"} = {}
        /\ {"add"} \cap {"cancel"} = {} /\ {"add"} \cap {"notify", "finish"} = {}
        /\ {"add"} \cap {"finish", "before", "unregister"} = {} /\ {"add"} \cap {"unregister"} = {}
        /\ {"add"} \cap {"merge", "register"} = {} /\ {"add"} \cap {"accept", "drop"} = {}
        /\ {"add"} \cap {"register", "accept", "cancel"} = {} /\ {"add"} \cap {"drop"} = {}
        /\ {"add"} \cap {"release", "before"} = {} /\ {"add"} \cap {"release"} = {}
        /\ {"add"} \cap {"before", "registrations"} = {} /\ {"add"} \cap {"registrations"} = {}
        /\ {"add"} \cap {"dispose", "release"} = {}
        /\ {"add"} \cap {"cancel", "merge", "get", "dispose"} = {}
    OBVIOUS
  <2>2. TypeOK /\ FramesFit
    BY ReachParts
  <2> QED BY <1>1, <1>3, <2>1, <2>2, OtherFrames DEF Step, ScopeStep
<1>5. /\ Below(F.of, {"add"}, F.of, {"merge", "register"})'
      /\ \E a, m : Makes(F, a, m)
  BY <1>0, <1>2, <1>4, GetBelow, ReachParts
<1>6. PICK a, m : Makes(F, a, m)
  BY <1>5
<1>7. Changes({F}, {a, m}) /\ a.of = F.of /\ m.of = F.of
  BY <1>6 DEF Makes
<1>8. F.of = c
  <2>1. ~\A x \in {a, m} : ~Matches(x, {c}, {"add"})
    BY <1>7, NoNewFrame
  <2> QED BY <1>7, <2>1 DEF Matches
<1> QED BY <1>5, <1>8 DEF Joining

LEMMA ReachStep ==
  ASSUME ReachAll, NEW t \in Threads, Step(t) \/ Call(t)
  PROVE  /\ \A c \in known' \ {Root} : WillBeReached(c)'
         /\ \A c \in Keys : Some(c, {"add"})' => WillBeReached(c)' \/ Joining(c)'
<1>0. PICK F : F = Head(stack[t])
  OBVIOUS
<1>1. ASSUME NEW c \in Keys, Some(c, {"add"})'
      PROVE  WillBeReached(c)' \/ Joining(c)'
  BY <1>1, JoinStays, JoinBegins
<1>2. ASSUME NEW c \in known', c # Root
      PROVE  WillBeReached(c)'
  <2>1. CASE c \in known
    <3>1. c \in Keys /\ WillBeReached(c)
      BY <1>2, <2>1, ReachParts DEF TypeOK, Keys, ReachInv
    <3> QED BY <3>1, WillStay
  <2>2. CASE c \notin known
    <3>1. AddScope(t) /\ Me(t) = c
      <4>1. AddScope(t)
        BY <1>2, <2>2, SameKnown, ReachParts
      <4> QED BY <1>2, <2>2, <4>1 DEF AddScope
    <3>2. TopIs(t, F, {"add"})
      BY <1>0, <3>1, ReturnFrame, ReachParts
    <3>3. stack[t] # <<>> /\ F \in Running /\ F.of = c /\ F.step = "add" /\ c \in Scopes
      BY <1>0, <3>1, <3>2 DEF TopIs, ScopeSteps, Me
    <3>4. c \in Keys /\ Some(c, {"add"}) /\ Matches(Head(stack[t]), {c}, {"add"})
      BY <1>0, <1>2, <3>3 DEF Keys, Some, Matches
    <3>5. Single({c}, {"add"})
      BY <3>4, ReachParts DEF LockInv, Single, Matches
    <3>6. ~Joining(c)
      BY <3>3, <3>4, <3>5, TopIsNotBelow, ReachParts DEF Joining
    <3>7. WillBeReached(c)
      BY <3>4, <3>6, ReachParts DEF ReachInv
    <3> QED BY <3>4, <3>7, WillStay
  <2> QED BY <2>1, <2>2
<1> QED BY <1>1, <1>2

LEMMA ReachStill == UNCHANGED vars /\ MakeInv /\ ReachInv => MakeInv' /\ ReachInv'
<1> SUFFICES ASSUME UNCHANGED vars, MakeInv, ReachInv PROVE MakeInv' /\ ReachInv'
  OBVIOUS
<1>1. /\ \A s, k : Some(s, k)' <=> Some(s, k)
      /\ \A S, k : Single(S, k)' <=> Single(S, k)
      /\ \A s, J, c, K : Below(s, J, c, K)' <=> Below(s, J, c, K)
  BY StandStill DEF Some, Single, Below, Heights, FrameAt
<1>2. MakeInv'
  BY <1>1, StandStill DEF MakeInv, Untouched, CanAcceptCancellation, IsCancellationRequested
<1>3. ReachInv'
  BY <1>1, StandStill DEF ReachInv, WillBeReached, Joining, Withdrawn, Reached, RootGone,
     CanAcceptCancellation, IsCancellationRequested
<1> QED BY <1>2, <1>3

(* Of every child that users know, or that a call is making, the root's     *)
(* cancellation is taken care of: by the child itself, by the source of the *)
(* root, or by the call.                                                   *)
THEOREM ReachInvariant == Spec => []ReachAll
<1>1. Init => ReachAll
  <2> SUFFICES ASSUME Init PROVE MakeInv /\ ReachInv
    BY FamilyInit DEF ReachAll
  <2>1. /\ Running = {} /\ (\A s, k : ~Some(s, k)) /\ \A S, K : Single(S, K)
    BY NoFrames
  <2>2. \A c \in Keys : Untouched(c)
    <3>1. \A s \in Scopes : /\ ~isDisposed[s] /\ ~isCancellationInProgress[s]
                            /\ source[s] = "live" /\ mergedTokens[s] = {}
      BY DEF Init, ScopeInit, Tokens
    <3>2. \A k \in Tokens : callbacks[k] = {}
      BY DEF Init, ScopeInit
    <3> QED BY <2>1, <3>1, <3>2 DEF Untouched, CanAcceptCancellation, IsCancellationRequested, Keys
  <2>3. known = {Root}
    BY DEF Init
  <2>4. MakeInv
    BY <2>1, <2>2 DEF MakeInv
  <2> QED BY <2>1, <2>3, <2>4 DEF ReachInv
<1>2. ReachAll /\ [Next]_vars => ReachAll'
  <2> SUFFICES ASSUME ReachAll, [Next]_vars PROVE ReachAll'
    OBVIOUS
  <2>1. FamilyInv'
    BY FamilyStep DEF ReachAll
  <2>2. ASSUME NEW t \in Threads, Step(t) \/ Call(t)
        PROVE  MakeInv' /\ ReachInv'
    <3>1. TypeOK' /\ FramesFit'
      BY <2>1 DEF FamilyInv, SafetyInv
    <3>2. MakeInv' /\ \A f \in Running' : Withdrawn(f)'
      BY <2>2, <3>1, MakeStep, ReachParts
    <3>3. /\ \A c \in known' \ {Root} : WillBeReached(c)'
          /\ \A c \in Keys : Some(c, {"add"})' => WillBeReached(c)' \/ Joining(c)'
      BY <2>2, ReachStep
    <3> QED BY <3>2, <3>3 DEF ReachInv
  <2>3. ASSUME UNCHANGED vars
        PROVE  MakeInv' /\ ReachInv'
    BY <2>3, ReachStill DEF ReachAll
  <2> QED BY <2>1, <2>2, <2>3 DEF Next, Rest, ReachAll
<1> QED BY <1>1, <1>2, PTL DEF Spec

(* Once the root's source has run its callbacks every child that users know *)
(* is cancelled or being cancelled: also one that was made, or that merged  *)
(* the root's token, while the root was cancelled.                         *)
THEOREM ChildrenAreReached == Spec => []RootReachesChildren
<1>1. ReachAll => RootReachesChildren
  <2> SUFFICES ASSUME ReachAll, source[Root] = "canceled", NEW c \in known
               PROVE  Reached(c)
    BY DEF RootReachesChildren, Reached
  <2>1. CASE c = Root
    BY <2>1 DEF Reached, IsCancellationRequested
  <2>2. CASE c # Root
    BY <2>2 DEF ReachAll, ReachInv, WillBeReached
  <2> QED BY <2>1, <2>2
<1> QED BY <1>1, ReachInvariant, PTL
=============================================================================
