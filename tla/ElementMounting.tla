-------------------------- MODULE ElementMounting --------------------------
(***************************************************************************)
(* The life of page components in the browser.  Scripts register           *)
(* behaviours for selectors through drnOnmount, onmount initialises and    *)
(* tears them down when it is polled, React islands keep a root per        *)
(* element (reactBundle), and htmx replaces the content of the body        *)
(* without loading a new document.                                         *)
(*                                                                         *)
(* The browser runs one step at a time.  External, as the code relies on   *)
(* them: a swap inserts the new content, runs its classic scripts at once, *)
(* and removes all old children and whatever was appended behind them;     *)
(* module scripts run later; htmx:load is fired on the new content later   *)
(* still, and reaches the document only if that content is still there.    *)
(* Each registration gives an unregister callback that ends in             *)
(* drnOnmount.unregister, as those of the pages do, and that does not      *)
(* throw.  An initialiser may return false or throw; it then leaves        *)
(* nothing of its own behind.                                              *)
(***************************************************************************)
EXTENDS Integers, Sequences

CONSTANTS
  Pages,     \* the pages a user can go to
  Slots,     \* the places on pages that selectors match
  Content,   \* Content[p]: the slots of page p
  Names,     \* the behaviours: a selector with its idempotency key
  Matches,   \* Matches[b]: the slots the selector of b matches
  Global,    \* the behaviour appPostload registers
  Inline,    \* Inline[p]: the behaviours that classic scripts of p register
  Deferred,  \* Deferred[p]: those that module scripts of p register
  Appending, \* the behaviours that append an element to the body
  Islands,   \* the behaviours that mount a React component
  Variant,   \* Variant[b]: the component name and useShadow of island b
  Fallible,  \* the behaviours whose initialiser may return false or throw
  MaxSwaps   \* bound: the number of swaps

ASSUME MountingAssumption ==
  /\ Content \in [Pages -> (SUBSET Slots) \ {{}}]
  /\ Matches \in [Names -> SUBSET Slots]
  /\ {Inline, Deferred} \subseteq [Pages -> SUBSET Names]
  /\ Global \in Names
  /\ \A B \in {Appending, Islands, Fallible} : B \subseteq Names
  /\ \A p \in Pages : Inline[p] \cap Deferred[p] = {}
  /\ MaxSwaps \in Nat

VARIABLES
  readyState, \* document.readyState: "loading", "interactive", "complete"
  listeners,  \* the behaviours DOMContentLoaded will register, in order
  registry,   \* drnOnmount._registry
  behaviors,  \* the behaviours onmount knows, in order
  page,       \* page[n]: the page of the n-th content, 0 the first
  body,       \* the elements attached to the document
  swapping,   \* TRUE while the body has the class htmx-swapping
  scripts,    \* the scripts that did not run yet: <<content, behaviour>>
  loads,      \* the contents whose htmx:load is still to be fired
  ui,         \* ui[e]: what onmount and reactBundle did to element e
  complete    \* history: in the last poll every initialiser succeeded

vars == <<readyState, listeners, registry, behaviors, page, body, swapping,
          scripts, loads, ui, complete>>

(* An element is the slot of one content; removed ones never come back.    *)
Elements == (0..MaxSwaps) \X Slots
Current == Len(page) - 1
ElementsOf(n, p) == {n} \X Content[p]

-----------------------------------------------------------------------------
(* What onmount and reactBundle do to an element is kept in ui[e].  The    *)
(* component of the i-th behaviour, and the root it created, is called i.  *)
ElementState ==
  [loaded   : SUBSET Nat,          \* the components that are initialised
   inits    : [Names -> Nat],      \* history: the initialisations so far
   appended : SUBSET Nat,          \* those with an appended child of the body
   root     : Nat,                 \* the entry of rootMap, 0 for none
   handle   : SUBSET (Nat \X Nat), \* <<component, the root it captured>>
   live     : SUBSET Nat,          \* the roots that are not unmounted
   misused  : BOOLEAN]             \* a root was used after its unmount

Untouched == [loaded |-> {}, inits |-> [b \in Names |-> 0], appended |-> {},
              root |-> 0, handle |-> {}, live |-> {}, misused |-> FALSE]

Render(s, r) == [s EXCEPT !.misused = @ \/ r \notin s.live]
Unmount(s, r) == [Render(s, r) EXCEPT !.live = @ \ {r}, !.root = 0]

(* createRoot and rootMap.set, unless there is a root to use; then render. *)
Rendered(s, i) ==
  LET r == IF s.root = 0 THEN i ELSE s.root
  IN Render([s EXCEPT !.root = r, !.live = @ \cup {r},
                      !.handle = @ \cup {<<i, r>>}], r)

SameComponent(bs, i, r) == Variant[bs[i]] = Variant[bs[r]]

(* DRN.React.mount: the root of the element is used again if it shows the  *)
(* same component, and unmounted otherwise.                                *)
UnmountOther(s, i, bs) ==
  IF s.root # 0 /\ ~SameComponent(bs, i, s.root) THEN Unmount(s, s.root) ELSE s

Mount(s, i, bs) == Rendered(UnmountOther(s, i, bs), i)

(* A handle works as long as the map holds the root it captured.           *)
Holds(s, i) == <<i, s.root>> \in s.handle

DisposeHandle(s, i) == IF Holds(s, i) THEN Unmount(s, s.root) ELSE s

(* Mutant: a handle works for ever.                                        *)
UpdateAlways(s, i) ==
  [s EXCEPT !.misused = @ \/ \E h \in s.handle : h[1] = i /\ h[2] \notin s.live]

UpdateHandle(s, i) == IF Holds(s, i) THEN Render(s, s.root) ELSE s

-----------------------------------------------------------------------------
(* onmount.                                                                *)

(* The initialiser of behaviour i succeeds.                                *)
Enter(s, i, bs) ==
  [(IF bs[i] \in Islands THEN Mount(s, i, bs) ELSE s)
     EXCEPT !.loaded = @ \cup {i},
            !.inits[bs[i]] = @ + 1,
            !.appended = IF bs[i] \in Appending THEN @ \cup {i} ELSE @]

(* It returns false or throws, that of an island in createRoot: onmount     *)
(* does not mark the element.                                              *)
Fail(s, i, bs) == IF bs[i] \in Islands THEN UnmountOther(s, i, bs) ELSE s

(* The exit handler is the unregister callback.                            *)
Leave(s, i) ==
  [DisposeHandle(s, i) EXCEPT !.loaded = @ \ {i}, !.appended = @ \ {i}]

(* Mutant: the mark of an element is not looked at.                        *)
DueAgain(s, e, i, bs) == e \in body /\ e[2] \in Matches[bs[i]]

(* Behaviour i is to be initialised on e: its selector matches e, and e    *)
(* does not have its mark.                                                 *)
Due(s, e, i, bs) == e \in body /\ e[2] \in Matches[bs[i]] /\ i \notin s.loaded

(* What behaviour i does at element e: it leaves an element that is no     *)
(* longer attached and enters one where it is due.                         *)
Visit(s, e, i, bs, fails) ==
  CASE i \in s.loaded /\ e \notin body -> Leave(s, i)
    [] Due(s, e, i, bs) -> IF fails THEN Fail(s, i, bs) ELSE Enter(s, i, bs)
    [] OTHER -> s

(* A poll lets every behaviour visit, in order: visited[i] is the state     *)
(* after the first i of them.  At the visits in failed the initialiser     *)
(* fails, and those in cut do not take place.  The visits of different     *)
(* elements do not touch each other.                                       *)
Poll(bs, failed, cut) ==
  [e \in Elements |->
     LET visited[i \in 0..Len(bs)] ==
           IF i = 0 THEN ui[e]
           ELSE IF <<e, i>> \in cut THEN visited[i - 1]
           ELSE Visit(visited[i - 1], e, i, bs, <<e, i>> \in failed)
     IN visited[Len(bs)]]

MayFail(bs) == {v \in body \X (1..Len(bs)) :
                  Due(ui[v[1]], v[1], v[2], bs) /\ bs[v[2]] \in Fallible}

(* A poll that visits everything, though some initialisers return false.   *)
PollEnds(bs) ==
  \E failed \in SUBSET MayFail(bs) :
    /\ complete' = (failed = {})
    /\ ui' = Poll(bs, failed, {})

(* The initialiser of behaviour v[2] throws at v[1]: the attached elements *)
(* it did not reach are not visited, nor is any by the behaviours that     *)
(* follow.                                                                 *)
PollThrows(bs) ==
  \E failed \in SUBSET MayFail(bs) : \E v \in failed :
    \E unreached \in SUBSET (body \ {v[1]}) :
      /\ complete' = FALSE
      /\ ui' = Poll(bs, failed,
                    {w \in Elements \X (1..Len(bs)) :
                       w[2] > v[2] \/ (w[2] = v[2] /\ w[1] \in unreached)})

Polled(bs) == PollEnds(bs) \/ PollThrows(bs)

-----------------------------------------------------------------------------
(* drnOnmount.                                                             *)

(* executeRegistration, at once or on DOMContentLoaded.                    *)
Add(b) ==
  /\ registry' = registry \cup {b}
  /\ IF readyState = "loading"
     THEN /\ listeners' = Append(listeners, b)
          /\ behaviors' = behaviors
     ELSE /\ behaviors' = Append(behaviors, b)
          /\ listeners' = listeners

(* The poll that ends a registration by content n; what it throws ends the *)
(* script, with the registrations that were to follow.                     *)
PollScript(n, b) ==
  \/ /\ PollEnds(behaviors')
     /\ scripts' = scripts \ {<<n, b>>}
  \/ /\ PollThrows(behaviors')
     /\ \E rest \in SUBSET {t \in scripts : t[1] = n} :
          scripts' = scripts \ (rest \cup {<<n, b>>})

(* Mutant: onmount is polled in the middle of a swap.                      *)
RegisterAndPoll(n, b) ==
  /\ IF b \in registry THEN UNCHANGED <<registry, listeners, behaviors>>
     ELSE Add(b)
  /\ PollScript(n, b)

(* register and registerFull, called by a script of content n.             *)
Register(n, b) ==
  /\ IF b \in registry THEN UNCHANGED <<registry, listeners, behaviors>>
     ELSE Add(b)
  /\ IF swapping THEN UNCHANGED <<ui, complete>> /\ scripts' = scripts \ {<<n, b>>}
     ELSE PollScript(n, b)

Init ==
  /\ readyState = "loading"
  /\ listeners = <<>>
  /\ registry = {}
  /\ behaviors = <<>>
  /\ page \in [{1} -> Pages]
  /\ body = ElementsOf(0, page[1])
  /\ swapping = FALSE
  /\ scripts = {0} \X (Inline[page[1]] \cup Deferred[page[1]])
  /\ loads = {}
  /\ ui = [e \in Elements |-> Untouched]
  /\ complete = TRUE

(* A classic script runs where the parser or the swap meets it.            *)
RunInline(b) ==
  /\ <<Current, b>> \in scripts /\ b \in Inline[page[Current + 1]]
  /\ readyState = "loading" \/ swapping
  /\ Register(Current, b)
  /\ UNCHANGED <<readyState, page, body, swapping, loads>>

InlineDone == \A b \in Inline[page[Current + 1]] : <<Current, b>> \notin scripts

(* The document is parsed; the deferred appPostload runs first.  Listeners *)
(* come before what may throw.                                             *)
Postload ==
  /\ readyState = "loading" /\ InlineDone
  /\ readyState' = "interactive"
  /\ registry' = registry \cup {Global}
  /\ behaviors' = IF Global \in registry THEN behaviors ELSE Append(behaviors, Global)
  /\ Polled(behaviors')
  /\ UNCHANGED <<listeners, page, body, swapping, scripts, loads>>

(* A module script runs after the parsing, or any time after the swap that *)
(* inserted it.                                                            *)
RunDeferred(n, b) ==
  /\ <<n, b>> \in scripts /\ b \in Deferred[page[n + 1]]
  /\ readyState # "loading" /\ ~swapping
  /\ Register(n, b)
  /\ UNCHANGED <<readyState, page, body, swapping, loads>>

(* DOMContentLoaded: the listeners in order, onmount the last of them, and *)
(* then htmx, which will fire htmx:load on the body.                       *)
ContentLoaded ==
  /\ readyState = "interactive"
  /\ scripts = {}
  /\ readyState' = "complete"
  /\ listeners' = <<>>
  /\ behaviors' = behaviors \o listeners
  /\ Polled(behaviors')
  /\ loads' = loads \cup {0}
  /\ UNCHANGED <<registry, page, body, swapping, scripts>>

(* A boosted link: the new content is inserted before the old.             *)
SwapInsert(p) ==
  /\ readyState = "complete" /\ ~swapping
  /\ Current < MaxSwaps
  /\ swapping' = TRUE
  /\ page' = Append(page, p)
  /\ body' = body \cup ElementsOf(Current + 1, p)
  /\ scripts' = scripts \cup {Current + 1} \X (Inline[p] \cup Deferred[p])
  /\ UNCHANGED <<readyState, listeners, registry, behaviors, loads, ui, complete>>

(* The old children go, with everything appended to the body so far.       *)
SwapRemove ==
  /\ swapping /\ InlineDone
  /\ swapping' = FALSE
  /\ body' = {e \in body : e[1] = Current}
  /\ ui' = [e \in Elements |-> [ui[e] EXCEPT !.appended = {}]]
  /\ loads' = loads \cup {Current}
  /\ UNCHANGED <<readyState, listeners, registry, behaviors, page, scripts, complete>>

(* Mutant: appPostload does not listen to htmx:load.                       *)
LoadUnheard(n) ==
  /\ n \in loads /\ ~swapping
  /\ loads' = loads \ {n}
  /\ UNCHANGED <<readyState, listeners, registry, behaviors, page, body,
                 swapping, scripts, ui, complete>>

(* htmx:load, which an element that was removed meanwhile does not pass on.*)
(* The first one is fired on the body.                                     *)
Load(n) ==
  /\ n \in loads /\ ~swapping
  /\ loads' = loads \ {n}
  /\ IF n \in {0, Current} THEN Polled(behaviors) ELSE UNCHANGED <<ui, complete>>
  /\ UNCHANGED <<readyState, listeners, registry, behaviors, page, body,
                 swapping, scripts>>

(* A timer or listener of component i of e, possibly a late one, uses its  *)
(* handle.                                                                 *)
Update(e, i) ==
  /\ ~swapping
  /\ ui' = [ui EXCEPT ![e] = UpdateHandle(@, i)]
  /\ UNCHANGED <<readyState, listeners, registry, behaviors, page, body,
                 swapping, scripts, loads, complete>>

PageStep ==
  \/ \E b \in Names : RunInline(b)
  \/ \E n \in 0..MaxSwaps, b \in Names : RunDeferred(n, b)
  \/ Postload \/ ContentLoaded \/ SwapRemove
  \/ \E n \in 0..MaxSwaps : Load(n)

Next ==
  \/ PageStep
  \/ \E p \in Pages : SwapInsert(p)
  \/ \E e \in Elements : \E h \in ui[e].handle : Update(e, h[1])

(* The browser gets to what it queued; the user need not go anywhere.      *)
Spec == Init /\ [][Next]_vars /\ WF_vars(PageStep)

-----------------------------------------------------------------------------
Mounted(b, e) == \E i \in ui[e].loaded : behaviors[i] = b

(* No behaviour is initialised twice on an element, however often the      *)
(* scripts of its page run and onmount is polled, also again after polls   *)
(* that failed; and what is initialised and attached is known to onmount,  *)
(* or it could never be torn down.                                         *)
MountedOnce ==
  \A e \in Elements, b \in Names :
    /\ ui[e].inits[b] <= 1
    /\ e \in body /\ ui[e].inits[b] = 1 => Mounted(b, e)

(* What a component of the shown page appended to the body is still there: *)
(* the swap that showed the page did not remove it.                        *)
AppendedStays ==
  ~swapping => \A e \in body : \A i \in ui[e].loaded :
                 behaviors[i] \in Appending => i \in ui[e].appended

(* Roots: none is rendered or unmounted after its unmount, also by a late  *)
(* timer, each element shows at most one, and none outlives the components *)
(* that can dispose it.                                                    *)
RootsUsedSafely ==
  \A e \in Elements : /\ ~ui[e].misused
                      /\ ui[e].live \subseteq {ui[e].root}
                      /\ ui[e].live # {} => \E i \in ui[e].loaded : Holds(ui[e], i)

Settled ==
  /\ \A b \in registry : \A e \in body : e[2] \in Matches[b] => Mounted(b, e)
  /\ \A e \in Elements : ui[e].loaded # {} => e \in body

(* Every registered behaviour gets to the elements of the page that it     *)
(* matches, also if its registration was not followed by a poll because of *)
(* a swap, or only by polls that failed, and leaves the elements that were *)
(* removed: again and again the components are those of the page, or the   *)
(* user is on the way elsewhere, or an initialiser failed in the last poll.*)
ComponentsFollowThePage == []<>(Settled \/ swapping \/ ~complete)

=============================================================================
