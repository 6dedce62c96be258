----------------------- MODULE ElementMounting_proofs -----------------------
(***************************************************************************)
(* Proofs about page components, for any pages, elements and behaviours    *)
(* and any order of scripts, swaps, timers and failing initialisers: a     *)
(* behaviour is mounted once on an element, what it appends stays, and     *)
(* roots are used safely.                                                  *)
(***************************************************************************)
EXTENDS ElementMounting, Functions, WellFoundedInduction, TLAPS

---------------------------------------------------------------------------------
(* The inductive invariant.                                                *)

(* A behaviour is known to onmount or to a listener, once, as soon as it   *)
(* is registered.                                                          *)
RegistryInv ==
  /\ behaviors \in Seq(registry) /\ listeners \in Seq(registry)
  /\ registry \subseteq Names
  /\ IsInjective(behaviors) /\ IsInjective(listeners)
  /\ \A i \in 1..Len(behaviors), j \in 1..Len(listeners) : behaviors[i] # listeners[j]

(* The elements of contents to come are untouched, and those of the newest *)
(* one until the swap that shows it is over.                               *)
Unseen(e) == e[1] > Current \/ (swapping /\ e[1] = Current)
Fresh(s) == s.loaded = {} /\ \A b \in Names : s.inits[b] = 0

ContentInv ==
  /\ page \in Seq(Pages) /\ page # <<>> /\ Len(page) <= MaxSwaps + 1
  /\ body \subseteq Elements
  /\ swapping \in BOOLEAN
  /\ swapping => readyState = "complete"
  /\ \A e \in body : e[1] <= Current
  /\ \A e \in Elements : Unseen(e) => Fresh(ui[e])

(* A root that an element has is live, and some component can dispose it.  *)
RootFits(s) ==
  /\ ~s.misused
  /\ \A h \in s.handle : h[2] # 0
  /\ s.live = IF s.root = 0 THEN {} ELSE {s.root}
  /\ s.root # 0 => \E i \in s.loaded : Holds(s, i)

(* What was initialised once and is attached is still initialised.         *)
InitsFit(s, e, bs) ==
  \A b \in Names :
    /\ s.inits[b] <= 1
    /\ e \in body /\ s.inits[b] = 1 => \E i \in s.loaded : bs[i] = b

(* What behaviours bs make of element e.                                   *)
ElementFits(s, e, bs) ==
  /\ s \in ElementState
  /\ s.loaded \subseteq 1..Len(bs)
  /\ RootFits(s)
  /\ InitsFit(s, e, bs)
  /\ e \in body => \A i \in s.loaded : bs[i] \in Appending => i \in s.appended

ElementsInv ==
  /\ ui = [e \in Elements |-> ui[e]]
  /\ \A e \in Elements : ElementFits(ui[e], e, behaviors)

MountingInv == RegistryInv /\ ContentInv /\ ElementsInv

-----------------------------------------------------------------------------
(* A poll.                                                                 *)

(* A set of naturals that is not empty has a least element.                *)
LEMMA LeastNatural ==
  ASSUME NEW N \in SUBSET Nat, N # {}
  PROVE  \E n \in N : \A m \in N : n <= m
<1> DEFINE R == OpToRel(<, Nat)
<1>1. IsWellFoundedOn(R, Nat)
  BY NatLessThanWellFounded
<1>2. \A m, n \in Nat : m < n => <<m, n>> \in R
  BY DEF OpToRel
<1> HIDE DEF R
<1>3. PICK n \in N : \A m \in N : ~(<<m, n>> \in R)
  BY <1>1, WFMin, Zenon
<1>4. ASSUME NEW m \in N PROVE n <= m
  <2>1. m \in Nat /\ n \in Nat
    OBVIOUS
  <2>2. ~(m < n)
    BY <1>2, <1>3, <2>1, Zenon
  <2> QED BY <2>1, <2>2
<1>5. QED
  BY <1>4

(* The states of an element while the first n behaviours visit it.         *)
Step(s, e, i, bs, failed, cut) ==
  IF <<e, i>> \in cut THEN s ELSE Visit(s, e, i, bs, <<e, i>> \in failed)

Visits(f, n, e, bs, failed, cut) ==
  /\ f = [i \in 0..n |-> f[i]]
  /\ f[0] = ui[e]
  /\ \A i \in 1..n : f[i] = Step(f[i - 1], e, i, bs, failed, cut)

LEMMA VisitsExist ==
  ASSUME NEW e, NEW bs, NEW failed, NEW cut, NEW n \in Nat
  PROVE  \E f : Visits(f, n, e, bs, failed, cut)
<1> DEFINE N == {m \in Nat : ~\E f : Visits(f, m, e, bs, failed, cut)}
<1> SUFFICES ASSUME N # {} PROVE FALSE
  OBVIOUS
<1>1. PICK m \in N : \A k \in N : m <= k
  BY LeastNatural
<1>2. CASE m = 0
  <2>1. Visits([i \in 0..0 |-> ui[e]], 0, e, bs, failed, cut)
    BY DEF Visits
  <2> QED BY <1>2, <2>1
<1>3. CASE m # 0
  <2>1. m - 1 \in Nat /\ m - 1 \notin N
    BY <1>1, <1>3
  <2>2. PICK g : Visits(g, m - 1, e, bs, failed, cut)
    BY <2>1
  <2>3. PICK f : f = [i \in 0..m |-> 
                 IF i = m THEN Step(g[m - 1], e, m, bs, failed, cut) ELSE g[i]]
    OBVIOUS
  <2>4. m \in Nat /\ f = [i \in 0..m |-> f[i]] /\ f[0] = ui[e]
    BY <1>3, <2>2, <2>3 DEF Visits
  <2>5. ASSUME NEW i \in 1..m PROVE f[i] = Step(f[i - 1], e, i, bs, failed, cut)
    <3>1. f[i - 1] = g[i - 1]
      BY <2>3, <2>4
    <3>2. CASE i = m
      BY <2>3, <2>4, <3>1, <3>2
    <3>3. CASE i # m
      <4>1. i \in 1..(m - 1) /\ f[i] = g[i]
        BY <2>3, <2>4, <3>3
      <4> QED BY <2>2, <3>1, <4>1 DEF Visits
    <3> QED BY <3>2, <3>3
  <2>6. Visits(f, m, e, bs, failed, cut)
    BY <2>4, <2>5 DEF Visits
  <2> QED BY <2>6
<1> QED BY <1>2, <1>3

LEMMA PollIsLastVisit ==
  ASSUME NEW bs, NEW failed, NEW cut, Len(bs) \in Nat, NEW e \in Elements
  PROVE  \E f : Visits(f, Len(bs), e, bs, failed, cut) /\ Poll(bs, failed, cut)[e] = f[Len(bs)]
<1> DEFINE Law(f) == f = [i \in 0..Len(bs) |->
                            IF i = 0 THEN ui[e]
                            ELSE IF <<e, i>> \in cut THEN f[i - 1]
                            ELSE Visit(f[i - 1], e, i, bs, <<e, i>> \in failed)]
<1>1. PICK g : Visits(g, Len(bs), e, bs, failed, cut)
  BY VisitsExist
<1>2. Law(g)
  <2>1. g = [i \in 0..Len(bs) |-> g[i]]
    BY <1>1 DEF Visits
  <2>2. \A i \in 0..Len(bs) : g[i] = IF i = 0 THEN ui[e]
                                ELSE IF <<e, i>> \in cut THEN g[i - 1]
                                ELSE Visit(g[i - 1], e, i, bs, <<e, i>> \in failed)
    <3>1. \A i \in 0..Len(bs) : i = 0 \/ i \in 1..Len(bs)
      OBVIOUS
    <3> QED BY <1>1, <3>1 DEF Visits, Step
  <2> QED BY <2>1, <2>2
<1>3. PICK f : f = CHOOSE h : Law(h)
  OBVIOUS
<1>4. Law(f)
  BY <1>2, <1>3
<1>5. Poll(bs, failed, cut)[e] = f[Len(bs)]
  BY <1>3 DEF Poll
<1>6. Visits(f, Len(bs), e, bs, failed, cut)
  <2>1. f = [i \in 0..Len(bs) |-> f[i]] /\ f[0] = ui[e]
    BY <1>4
  <2>2. \A i \in 1..Len(bs) : f[i] = Step(f[i - 1], e, i, bs, failed, cut)
    <3>1. \A i \in 1..Len(bs) : i \in 0..Len(bs) /\ i # 0
      OBVIOUS
    <3> QED BY <1>4, <3>1 DEF Step
  <2> QED BY <2>1, <2>2 DEF Visits
<1> QED BY <1>5, <1>6

(* What is done to the root of an element.                                 *)
LEMMA RootUnmounted ==
  ASSUME NEW s \in ElementState, RootFits(s), s.root # 0
  PROVE  /\ Unmount(s, s.root) \in ElementState
         /\ Unmount(s, s.root) = [s EXCEPT !.live = {}, !.root = 0]
         /\ RootFits(Unmount(s, s.root))
<1>1. s.root \in s.live /\ s.live \ {s.root} = {} /\ s.misused = FALSE
  BY DEF RootFits, ElementState
<1>2. Unmount(s, s.root) = [s EXCEPT !.live = {}, !.root = 0]
  BY <1>1 DEF Unmount, Render, ElementState
<1>3. PICK u : u = [s EXCEPT !.live = {}, !.root = 0]
  OBVIOUS
<1>4. u \in ElementState /\ u.misused = s.misused /\ u.handle = s.handle /\ u.live = {} /\ u.root = 0
  BY <1>3 DEF ElementState
<1>5. RootFits(u)
  BY <1>1, <1>4 DEF RootFits
<1> QED BY <1>2, <1>3, <1>4, <1>5

LEMMA RootRendered ==
  ASSUME NEW s \in ElementState, RootFits(s), NEW i \in Nat \ {0}
  PROVE  /\ Rendered(s, i) \in ElementState
         /\ ~Rendered(s, i).misused
         /\ \A h \in Rendered(s, i).handle : h[2] # 0
         /\ Rendered(s, i).root # 0
         /\ Rendered(s, i).live = {Rendered(s, i).root}
         /\ <<i, Rendered(s, i).root>> \in Rendered(s, i).handle
         /\ Rendered(s, i).loaded = s.loaded /\ Rendered(s, i).appended = s.appended
         /\ Rendered(s, i).inits = s.inits
<1>1. PICK r : r = IF s.root = 0 THEN i ELSE s.root
  OBVIOUS
<1>2. r \in Nat /\ r # 0 /\ s.live \cup {r} = {r} /\ s.misused = FALSE
  BY <1>1 DEF RootFits, ElementState
<1>3. PICK u : u = [s EXCEPT !.root = r, !.live = {r}, !.handle = s.handle \cup {<<i, r>>}]
  OBVIOUS
<1>4. Rendered(s, i) = Render([s EXCEPT !.root = r, !.live = @ \cup {r},
                                        !.handle = @ \cup {<<i, r>>}], r)
  BY <1>1 DEF Rendered
<1>8. s.handle \cup {<<i, r>>} \in SUBSET (Nat \X Nat)
  BY <1>2 DEF ElementState
<1>9. {r} \in SUBSET Nat
  BY <1>2
<1>5. /\ u \in ElementState /\ u.root = r /\ u.live = {r} /\ u.misused = FALSE
      /\ u.handle = s.handle \cup {<<i, r>>}
      /\ u.loaded = s.loaded /\ u.appended = s.appended /\ u.inits = s.inits
  BY <1>2, <1>3, <1>8, <1>9 DEF ElementState
<1>6. Rendered(s, i) = u
  <2>1. [s EXCEPT !.root = r, !.live = @ \cup {r}, !.handle = @ \cup {<<i, r>>}] = u
    BY <1>2, <1>3 DEF ElementState
  <2>2. Render(u, r) = u
    BY <1>5 DEF Render, ElementState
  <2> QED BY <1>4, <2>1, <2>2
<1>7. \A h \in u.handle : h[2] # 0
  BY <1>2, <1>5 DEF RootFits
<1> QED BY <1>2, <1>5, <1>6, <1>7

LEMMA OtherUnmounted ==
  ASSUME NEW s \in ElementState, RootFits(s), NEW i, NEW bs
  PROVE  /\ UnmountOther(s, i, bs) \in ElementState /\ RootFits(UnmountOther(s, i, bs))
         /\ UnmountOther(s, i, bs).loaded = s.loaded
         /\ UnmountOther(s, i, bs).appended = s.appended
         /\ UnmountOther(s, i, bs).inits = s.inits
<1>1. CASE s.root # 0 /\ ~SameComponent(bs, i, s.root)
  <2>1. PICK u : u = Unmount(s, s.root)
    OBVIOUS
  <2>2. u \in ElementState /\ RootFits(u) /\ u = [s EXCEPT !.live = {}, !.root = 0]
    BY <1>1, <2>1, RootUnmounted
  <2>3. u.loaded = s.loaded /\ u.appended = s.appended /\ u.inits = s.inits
    BY <2>2 DEF ElementState
  <2> QED BY <1>1, <2>1, <2>2, <2>3 DEF UnmountOther
<1>2. CASE ~(s.root # 0 /\ ~SameComponent(bs, i, s.root))
  BY <1>2 DEF UnmountOther
<1> QED BY <1>1, <1>2

LEMMA RootMounted ==
  ASSUME NEW s \in ElementState, RootFits(s), NEW i \in Nat \ {0}, NEW bs
  PROVE  /\ Mount(s, i, bs) \in ElementState
         /\ ~Mount(s, i, bs).misused
         /\ \A h \in Mount(s, i, bs).handle : h[2] # 0
         /\ Mount(s, i, bs).root # 0
         /\ Mount(s, i, bs).live = {Mount(s, i, bs).root}
         /\ <<i, Mount(s, i, bs).root>> \in Mount(s, i, bs).handle
         /\ Mount(s, i, bs).loaded = s.loaded /\ Mount(s, i, bs).appended = s.appended
         /\ Mount(s, i, bs).inits = s.inits
<1>1. PICK u : u = UnmountOther(s, i, bs)
  OBVIOUS
<1>2. /\ u \in ElementState /\ RootFits(u)
      /\ u.loaded = s.loaded /\ u.appended = s.appended /\ u.inits = s.inits
  BY <1>1, OtherUnmounted
<1>3. Mount(s, i, bs) = Rendered(u, i)
  BY <1>1 DEF Mount
<1>4. /\ Rendered(u, i) \in ElementState
      /\ ~Rendered(u, i).misused
      /\ \A h \in Rendered(u, i).handle : h[2] # 0
      /\ Rendered(u, i).root # 0
      /\ Rendered(u, i).live = {Rendered(u, i).root}
      /\ <<i, Rendered(u, i).root>> \in Rendered(u, i).handle
      /\ Rendered(u, i).loaded = u.loaded /\ Rendered(u, i).appended = u.appended
      /\ Rendered(u, i).inits = u.inits
  BY <1>2, RootRendered
<1> QED BY <1>2, <1>3, <1>4

LEMMA HandleDisposed ==
  ASSUME NEW s \in ElementState, RootFits(s), NEW i
  PROVE  /\ DisposeHandle(s, i) \in ElementState
         /\ RootFits(DisposeHandle(s, i))
         /\ DisposeHandle(s, i).loaded = s.loaded
         /\ DisposeHandle(s, i).appended = s.appended
         /\ DisposeHandle(s, i).inits = s.inits
         /\ DisposeHandle(s, i).root # 0 => ~Holds(DisposeHandle(s, i), i)
<1>1. CASE Holds(s, i)
  <2>1. s.root # 0
    BY <1>1 DEF Holds, RootFits
  <2>2. PICK u : u = Unmount(s, s.root)
    OBVIOUS
  <2>3. u \in ElementState /\ RootFits(u) /\ u = [s EXCEPT !.live = {}, !.root = 0]
    BY <2>1, <2>2, RootUnmounted
  <2>4. u.loaded = s.loaded /\ u.appended = s.appended /\ u.inits = s.inits /\ u.root = 0
    BY <2>3 DEF ElementState
  <2> QED BY <1>1, <2>2, <2>3, <2>4 DEF DisposeHandle
<1>2. CASE ~Holds(s, i)
  BY <1>2 DEF DisposeHandle
<1> QED BY <1>1, <1>2

LEMMA HandleUpdated ==
  ASSUME NEW s \in ElementState, RootFits(s), NEW i
  PROVE  UpdateHandle(s, i) = s
<1>1. Holds(s, i) => s.root \in s.live /\ s.misused = FALSE
  BY DEF Holds, RootFits, ElementState
<1> QED BY <1>1 DEF UpdateHandle, Render, ElementState

(* Behaviours that are known once, by their names.                         *)
Distinct(bs) ==
  /\ Len(bs) \in Nat
  /\ \A i \in 1..Len(bs) : bs[i] \in Names
  /\ \A i, j \in 1..Len(bs) : bs[i] = bs[j] => i = j

(* A visit that changes only the root of an element.                       *)
LEMMA OnlyRootFits ==
  ASSUME NEW e, NEW bs, NEW s, ElementFits(s, e, bs), NEW v \in ElementState, RootFits(v),
         v.loaded = s.loaded, v.appended = s.appended, v.inits = s.inits
  PROVE  ElementFits(v, e, bs)
BY DEF ElementFits, InitsFit

(* Nothing is initialised.                                                 *)
Keeps(u, s) == u.loaded \subseteq s.loaded /\ u.inits = s.inits

(* A behaviour that leaves an element disposes of its root.                *)
LEMMA LeaveFits ==
  ASSUME NEW e, e \notin body, NEW bs, NEW i, NEW s, ElementFits(s, e, bs)
  PROVE  ElementFits(Leave(s, i), e, bs) /\ Keeps(Leave(s, i), s)
<1>1. s \in ElementState /\ RootFits(s) /\ s.loaded \subseteq 1..Len(bs)
  BY DEF ElementFits
<1>2. PICK d : d = DisposeHandle(s, i)
  OBVIOUS
<1>3. /\ d \in ElementState /\ RootFits(d)
      /\ d.loaded = s.loaded /\ d.appended = s.appended /\ d.inits = s.inits
      /\ d.root # 0 => ~Holds(d, i)
  BY <1>1, <1>2, HandleDisposed
<1>4. PICK v : v = [d EXCEPT !.loaded = @ \ {i}, !.appended = @ \ {i}]
  OBVIOUS
<1>5. /\ v \in ElementState /\ v.loaded = s.loaded \ {i} /\ v.inits = s.inits
      /\ v.root = d.root /\ v.live = d.live /\ v.handle = d.handle /\ v.misused = d.misused
  BY <1>3, <1>4 DEF ElementState
<1>6. RootFits(v)
  BY <1>3, <1>5 DEF RootFits, Holds
<1>7. ElementFits(v, e, bs)
  BY <1>1, <1>5, <1>6 DEF ElementFits, InitsFit
<1>8. Leave(s, i) = v
  BY <1>2, <1>4 DEF Leave
<1>9. Keeps(v, s)
  BY <1>5 DEF Keeps
<1> QED BY <1>7, <1>8, <1>9

(* A behaviour that is due was not initialised before: what was is still   *)
(* initialised, and there is no other behaviour of its name.               *)
LEMMA EnterFits ==
  ASSUME NEW e, NEW bs, Distinct(bs), NEW i \in 1..Len(bs), NEW s, ElementFits(s, e, bs),
         Due(s, e, i, bs)
  PROVE  ElementFits(Enter(s, i, bs), e, bs)
<1>1. /\ s \in ElementState /\ RootFits(s) /\ InitsFit(s, e, bs)
      /\ s.loaded \subseteq 1..Len(bs) /\ i \in Nat \ {0} /\ bs[i] \in Names
      /\ i \notin s.loaded /\ e \in body
  BY DEF ElementFits, Due, Distinct
<1>2. PICK m : m = IF bs[i] \in Islands THEN Mount(s, i, bs) ELSE s
  OBVIOUS
<1>3. /\ m \in ElementState /\ m.loaded = s.loaded /\ m.appended = s.appended
      /\ m.inits = s.inits
      /\ ~m.misused
      /\ \A h \in m.handle : h[2] # 0
      /\ m.live = IF m.root = 0 THEN {} ELSE {m.root}
      /\ m.root # 0 => Holds(m, i) \/ \E j \in m.loaded : Holds(m, j)
  <2>1. CASE bs[i] \in Islands
    <3>1. m = Mount(s, i, bs)
      BY <1>2, <2>1
    <3>2. /\ m \in ElementState /\ ~m.misused /\ \A h \in m.handle : h[2] # 0
          /\ m.root # 0 /\ m.live = {m.root} /\ <<i, m.root>> \in m.handle
          /\ m.loaded = s.loaded /\ m.appended = s.appended /\ m.inits = s.inits
      <4>1. i \in Nat \ {0} /\ s \in ElementState /\ RootFits(s)
        BY <1>1
      <4> QED BY <3>1, <4>1, RootMounted
    <3> QED BY <3>2, Zenon DEF Holds
  <2>2. CASE bs[i] \notin Islands
    <3>1. m = s
      BY <1>2, <2>2
    <3> QED BY <1>1, <3>1 DEF RootFits
  <2> QED BY <2>1, <2>2
<1>4. PICK counts : counts = [s.inits EXCEPT ![bs[i]] = @ + 1]
  OBVIOUS
<1>5. /\ counts \in [Names -> Nat] /\ counts[bs[i]] = s.inits[bs[i]] + 1
      /\ \A b \in Names : b # bs[i] => counts[b] = s.inits[b]
  <2>1. s.inits \in [Names -> Nat]
    BY <1>1 DEF ElementState
  <2> QED BY <1>1, <1>4, <2>1
<1>6. PICK v : v = [m EXCEPT !.loaded = @ \cup {i}, !.inits = counts,
                             !.appended = IF bs[i] \in Appending THEN @ \cup {i} ELSE @]
  OBVIOUS
<1>7. /\ v \in ElementState /\ v.loaded = s.loaded \cup {i} /\ v.inits = counts
      /\ v.appended = IF bs[i] \in Appending THEN s.appended \cup {i} ELSE s.appended
      /\ v.root = m.root /\ v.live = m.live /\ v.handle = m.handle /\ v.misused = m.misused
  BY <1>1, <1>3, <1>5, <1>6 DEF ElementState
<1>8. Enter(s, i, bs) = v
  <2>1. [m.inits EXCEPT ![bs[i]] = @ + 1] = counts
    BY <1>3, <1>4
  <2>2. Enter(s, i, bs) =
          [m EXCEPT !.loaded = @ \cup {i}, !.inits[bs[i]] = @ + 1,
                    !.appended = IF bs[i] \in Appending THEN @ \cup {i} ELSE @]
    BY <1>2 DEF Enter
  <2> QED BY <1>3, <1>6, <2>1, <2>2 DEF ElementState
<1>9. RootFits(v)
  BY <1>3, <1>7 DEF RootFits, Holds
<1>10. InitsFit(v, e, bs)
  <2>1. s.inits[bs[i]] = 0
    <3>1. s.inits[bs[i]] # 1
      <4> SUFFICES ASSUME s.inits[bs[i]] = 1 PROVE FALSE
        OBVIOUS
      <4>1. PICK j \in s.loaded : bs[j] = bs[i]
        BY <1>1 DEF InitsFit
      <4>2. j = i
        BY <1>1, <4>1 DEF Distinct
      <4> QED BY <1>1, <4>2
    <3>2. s.inits[bs[i]] \in Nat /\ s.inits[bs[i]] <= 1
      BY <1>1 DEF InitsFit, ElementState
    <3> QED BY <3>1, <3>2
  <2>2. ASSUME NEW b \in Names
        PROVE  v.inits[b] <= 1 /\ (v.inits[b] = 1 => \E j \in v.loaded : bs[j] = b)
    <3>1. CASE b = bs[i]
      BY <1>5, <1>7, <2>1, <3>1
    <3>2. CASE b # bs[i]
      BY <1>1, <1>5, <1>7, <3>2 DEF InitsFit
    <3> QED BY <3>1, <3>2
  <2> QED BY <2>2 DEF InitsFit
<1>11. \A j \in v.loaded : bs[j] \in Appending => j \in v.appended
  BY <1>1, <1>7 DEF ElementFits
<1>12. ElementFits(v, e, bs)
  BY <1>1, <1>7, <1>9, <1>10, <1>11 DEF ElementFits
<1> QED BY <1>8, <1>12

(* A visit leaves an element in order, also one that fails, and does not   *)
(* mount anything on one that is not attached.                             *)
LEMMA VisitFits ==
  ASSUME NEW e, NEW bs, Distinct(bs), NEW i \in 1..Len(bs), NEW s, ElementFits(s, e, bs),
         NEW fails
  PROVE  /\ ElementFits(Visit(s, e, i, bs, fails), e, bs)
         /\ e \notin body => Keeps(Visit(s, e, i, bs, fails), s)
<1>1. CASE i \in s.loaded /\ e \notin body
  <2>1. Visit(s, e, i, bs, fails) = Leave(s, i)
    BY <1>1 DEF Visit, Due
  <2> QED BY <1>1, <2>1, LeaveFits
<1>2. CASE Due(s, e, i, bs) /\ ~fails
  <2>1. Visit(s, e, i, bs, fails) = Enter(s, i, bs) /\ e \in body
    BY <1>2 DEF Visit, Due
  <2> QED BY <1>2, <2>1, EnterFits
<1>3. CASE Due(s, e, i, bs) /\ fails
  <2>1. PICK v : v = Fail(s, i, bs)
    OBVIOUS
  <2>2. s \in ElementState /\ RootFits(s)
    BY DEF ElementFits
  <2>3. /\ v \in ElementState /\ RootFits(v)
        /\ v.loaded = s.loaded /\ v.appended = s.appended /\ v.inits = s.inits
    <3>1. v = UnmountOther(s, i, bs) \/ v = s
      BY <2>1 DEF Fail
    <3> QED BY <2>2, <3>1, OtherUnmounted
  <2>4. ElementFits(v, e, bs)
    BY <2>3, OnlyRootFits
  <2>5. Visit(s, e, i, bs, fails) = v /\ e \in body
    BY <1>3, <2>1 DEF Visit, Due
  <2> QED BY <2>4, <2>5
<1>4. CASE ~(i \in s.loaded /\ e \notin body) /\ ~Due(s, e, i, bs)
  <2>1. Visit(s, e, i, bs, fails) = s
    BY <1>4 DEF Visit
  <2> QED BY <2>1 DEF Keeps
<1> QED BY <1>1, <1>2, <1>3, <1>4

(* A poll leaves every element in order, and does not mount anything on an *)
(* element that is not attached.                                           *)
LEMMA PollFits ==
  ASSUME NEW bs, Distinct(bs), NEW failed, NEW cut, NEW e \in Elements, ElementFits(ui[e], e, bs)
  PROVE  /\ ElementFits(Poll(bs, failed, cut)[e], e, bs)
         /\ e \notin body => Keeps(Poll(bs, failed, cut)[e], ui[e])
<1> Len(bs) \in Nat
  BY DEF Distinct
<1>1. PICK f : Visits(f, Len(bs), e, bs, failed, cut) /\ Poll(bs, failed, cut)[e] = f[Len(bs)]
  BY PollIsLastVisit
<1> DEFINE Good(n) == /\ ElementFits(f[n], e, bs)
                      /\ e \notin body => Keeps(f[n], ui[e])
           N == {n \in 0..Len(bs) : ~Good(n)}
<1> SUFFICES ASSUME N # {} PROVE FALSE
  BY <1>1
<1>2. PICK n \in N : \A m \in N : n <= m
  <2>1. N \in SUBSET Nat
    OBVIOUS
  <2> HIDE DEF N
  <2> QED BY <2>1, LeastNatural
<1>3. n # 0
  BY <1>1 DEF Visits, Keeps
<1>4. n \in 1..Len(bs) /\ Good(n - 1)
  <2>1. n \in 1..Len(bs) /\ n - 1 \in 0..Len(bs)
    BY <1>3
  <2>2. n - 1 \notin N
    BY <1>2, <2>1
  <2> QED BY <2>1, <2>2
<1>5. f[n] = Step(f[n - 1], e, n, bs, failed, cut)
  BY <1>1, <1>4 DEF Visits
<1>6. /\ ElementFits(f[n], e, bs)
      /\ e \notin body => Keeps(f[n], f[n - 1])
  <2>1. CASE <<e, n>> \in cut
    BY <1>4, <1>5, <2>1 DEF Step, Keeps
  <2>2. CASE <<e, n>> \notin cut
    <3>1. f[n] = Visit(f[n - 1], e, n, bs, <<e, n>> \in failed)
      BY <1>5, <2>2 DEF Step
    <3> QED BY <1>4, <3>1, VisitFits
  <2> QED BY <2>1, <2>2
<1>7. Good(n)
  BY <1>4, <1>6 DEF Keeps
<1> QED BY <1>2, <1>7

(* An element fits more behaviours that follow the others.                 *)
LEMMA MoreBehaviors ==
  ASSUME NEW e, NEW s, NEW bs, NEW cs, Len(bs) \in Nat, Len(cs) \in Nat, Len(bs) <= Len(cs),
         \A i \in 1..Len(bs) : cs[i] = bs[i], ElementFits(s, e, bs)
  PROVE  ElementFits(s, e, cs)
<1>1. \A i \in s.loaded : i \in 1..Len(bs)
  BY DEF ElementFits
<1>2. s.loaded \subseteq 1..Len(cs) /\ \A i \in s.loaded : cs[i] = bs[i]
  BY <1>1
<1>3. InitsFit(s, e, cs)
  BY <1>2 DEF ElementFits, InitsFit
<1> QED BY <1>2, <1>3 DEF ElementFits

(* What is needed of a step: onmount polls all elements, or none.           *)
Grows(bs, cs) ==
  Len(bs) \in Nat /\ Len(cs) \in Nat /\ Len(bs) <= Len(cs) /\ \A i \in 1..Len(bs) : cs[i] = bs[i]

LEMMA KnownOnce ==
  ASSUME NEW R, R \subseteq Names, NEW bs \in Seq(R), IsInjective(bs)
  PROVE  Distinct(bs)
<1>1. Len(bs) \in Nat /\ DOMAIN bs = 1..Len(bs) /\ \A i \in 1..Len(bs) : bs[i] \in Names
  OBVIOUS
<1> QED BY <1>1 DEF Distinct, IsInjective

(* A poll, whatever fails in it, or none.                                  *)
Polls(bs) ==
  {ui} \cup {Poll(bs, c[1], c[2]) :
               c \in (SUBSET MayFail(bs)) \X SUBSET (Elements \X (1..Len(bs)))}

LEMMA PolledOutcome ==
  ASSUME NEW bs, Polled(bs)
  PROVE  ui' \in Polls(bs)
<1>1. ASSUME NEW failed \in SUBSET MayFail(bs), NEW cut \in SUBSET (Elements \X (1..Len(bs)))
      PROVE  Poll(bs, failed, cut) \in Polls(bs)
  <2>1. PICK c : c = <<failed, cut>>
    OBVIOUS
  <2>2. c \in (SUBSET MayFail(bs)) \X SUBSET (Elements \X (1..Len(bs)))
    BY <2>1
  <2>3. Poll(bs, failed, cut) = Poll(bs, c[1], c[2])
    BY <2>1
  <2> QED BY <2>2, <2>3 DEF Polls
<1>2. CASE PollEnds(bs)
  <2>1. PICK failed \in SUBSET MayFail(bs) : ui' = Poll(bs, failed, {})
    BY <1>2 DEF PollEnds
  <2> QED BY <1>1, <2>1
<1>3. CASE PollThrows(bs)
  <2> DEFINE Cut(v, unreached) == {w \in Elements \X (1..Len(bs)) :
                                     w[2] > v[2] \/ (w[2] = v[2] /\ w[1] \in unreached)}
  <2>1. PICK failed \in SUBSET MayFail(bs) :
          \E v \in failed : \E unreached \in SUBSET (body \ {v[1]}) :
            ui' = Poll(bs, failed, Cut(v, unreached))
    BY <1>3 DEF PollThrows
  <2>2. PICK v \in failed : \E unreached \in SUBSET (body \ {v[1]}) :
            ui' = Poll(bs, failed, Cut(v, unreached))
    BY <2>1
  <2>3. PICK unreached \in SUBSET (body \ {v[1]}) : ui' = Poll(bs, failed, Cut(v, unreached))
    BY <2>2
  <2>4. Cut(v, unreached) \in SUBSET (Elements \X (1..Len(bs)))
    OBVIOUS
  <2> QED BY <1>1, <2>3, <2>4
<1> QED BY <1>2, <1>3 DEF Polled

LEMMA PollStep ==
  ASSUME ContentInv, ElementsInv, RegistryInv', Grows(behaviors, behaviors'),
         ~swapping, UNCHANGED <<page, body, swapping>>,
         ui' \in Polls(behaviors')
  PROVE  /\ ElementsInv'
         /\ \A e \in Elements : Unseen(e)' => Fresh(ui'[e])
<1> DEFINE bs == behaviors'
<1>1. \A e \in Elements : ElementFits(ui[e], e, bs)
  BY MoreBehaviors DEF ElementsInv, Grows
<1>2. Distinct(bs)
  BY KnownOnce DEF RegistryInv
<1>3. /\ ui' = [e \in Elements |-> ui'[e]]
      /\ \A e \in Elements : ElementFits(ui'[e], e, bs) /\ (e \notin body => Keeps(ui'[e], ui[e]))
  <2>1. CASE ui' = ui
    BY <1>1, <2>1 DEF ElementsInv, Keeps
  <2>2. ASSUME NEW failed, NEW cut, ui' = Poll(bs, failed, cut)
        PROVE  /\ ui' = [e \in Elements |-> ui'[e]]
               /\ \A e \in Elements : ElementFits(ui'[e], e, bs) /\ (e \notin body => Keeps(ui'[e], ui[e]))
    <3>1. ui' = [e \in Elements |-> ui'[e]]
      BY <2>2 DEF Poll
    <3> HIDE DEF bs
    <3>2. ASSUME NEW e \in Elements
          PROVE  /\ ElementFits(ui'[e], e, bs)
                 /\ e \notin body => Keeps(ui'[e], ui[e])
      <4>1. ElementFits(ui[e], e, bs)
        BY <1>1
      <4> QED BY <1>2, <2>2, <4>1, PollFits
    <3> QED BY <3>1, <3>2
  <2>3. ui' = ui \/ \E failed, cut : ui' = Poll(bs, failed, cut)
    BY DEF Polls
  <2> QED BY <2>1, <2>2, <2>3
<1>4. ElementsInv'
  <2>1. \A e \in Elements : ElementFits(ui[e], e, behaviors)'
    <3> SUFFICES ASSUME NEW e \in Elements PROVE ElementFits(ui[e], e, behaviors)'
      OBVIOUS
    <3>1. ElementFits(ui'[e], e, behaviors') /\ body' = body
      BY <1>3
    <3> QED BY <3>1 DEF ElementFits, InitsFit
  <2> QED BY <1>3, <2>1 DEF ElementsInv
<1>5. ASSUME NEW e \in Elements, Unseen(e)' PROVE Fresh(ui'[e])
  <2>1. Unseen(e) /\ ~swapping
    BY <1>5 DEF Unseen, Current
  <2>2. e[1] > Current /\ e[1] \in Int /\ Current \in Int
    BY <2>1 DEF Unseen, Elements, Current, ContentInv
  <2>3. e \notin body
    BY <2>2 DEF ContentInv
  <2>4. Fresh(ui[e])
    BY <2>1 DEF ContentInv
  <2>5. Keeps(ui'[e], ui[e])
    BY <1>3, <2>3
  <2> QED BY <2>4, <2>5 DEF Fresh, Keeps
<1> QED BY <1>4, <1>5

-----------------------------------------------------------------------------
(* Behaviours are registered once.                                         *)

(* A sequence of other values, each once, follows an injective one.        *)
LEMMA InjectiveConcat ==
  ASSUME NEW S, NEW s \in Seq(S), NEW t \in Seq(S), IsInjective(s), IsInjective(t),
         \A i \in 1..Len(s), j \in 1..Len(t) : s[i] # t[j]
  PROVE  s \o t \in Seq(S) /\ IsInjective(s \o t)
<1> DEFINE u == s \o t
<1>1. u \in Seq(S) /\ Len(u) = Len(s) + Len(t) /\ Len(s) \in Nat /\ Len(t) \in Nat
      /\ DOMAIN s = 1..Len(s) /\ DOMAIN t = 1..Len(t) /\ DOMAIN u = 1..Len(u)
  OBVIOUS
<1>2. \A i \in 1..Len(u) : u[i] = IF i <= Len(s) THEN s[i] ELSE t[i - Len(s)]
  OBVIOUS
<1> HIDE DEF u
<1>3. ASSUME NEW i \in 1..Len(u), NEW j \in 1..Len(u), u[i] = u[j] PROVE i = j
  <2>1. CASE i <= Len(s) /\ j <= Len(s)
    BY <1>1, <1>2, <1>3, <2>1 DEF IsInjective
  <2>2. CASE i > Len(s) /\ j > Len(s)
    <3>1. i - Len(s) \in 1..Len(t) /\ j - Len(s) \in 1..Len(t)
      BY <1>1, <2>2
    <3>2. t[i - Len(s)] = t[j - Len(s)]
      BY <1>1, <1>2, <1>3, <2>2
    <3>3. i - Len(s) = j - Len(s)
      BY <1>1, <3>1, <3>2 DEF IsInjective
    <3> QED BY <1>1, <3>3
  <2>3. CASE i <= Len(s) /\ j > Len(s)
    <3>1. i \in 1..Len(s) /\ j - Len(s) \in 1..Len(t)
      BY <1>1, <2>3
    <3> QED BY <1>1, <1>2, <1>3, <2>3, <3>1
  <2>4. CASE i > Len(s) /\ j <= Len(s)
    <3>1. j \in 1..Len(s) /\ i - Len(s) \in 1..Len(t)
      BY <1>1, <2>4
    <3> QED BY <1>1, <1>2, <1>3, <2>4, <3>1
  <2> QED BY <1>1, <2>1, <2>2, <2>3, <2>4
<1>4. IsInjective(u)
  BY <1>1, <1>3 DEF IsInjective
<1> QED BY <1>1, <1>4 DEF u

LEMMA InjectiveAppend ==
  ASSUME NEW S, NEW s \in Seq(S), IsInjective(s), NEW b \in S,
         \A i \in 1..Len(s) : s[i] # b
  PROVE  Append(s, b) \in Seq(S) /\ IsInjective(Append(s, b))
<1>1. <<b>> \in Seq(S) /\ Len(<<b>>) = 1 /\ <<b>>[1] = b
  OBVIOUS
<1>2. IsInjective(<<b>>)
  BY DEF IsInjective
<1>3. \A i \in 1..Len(s), j \in 1..Len(<<b>>) : s[i] # <<b>>[j]
  OBVIOUS
<1>4. s \o <<b>> \in Seq(S) /\ IsInjective(s \o <<b>>)
  BY <1>1, <1>2, <1>3, InjectiveConcat
<1>5. Append(s, b) = s \o <<b>>
  OBVIOUS
<1> QED BY <1>4, <1>5

(* A behaviour that is not registered becomes the last one.                *)
LEMMA BehaviorAppended ==
  ASSUME RegistryInv, NEW b \in Names, b \notin registry,
         registry' = registry \cup {b}, listeners' = listeners,
         behaviors' = Append(behaviors, b)
  PROVE  RegistryInv' /\ Grows(behaviors, behaviors')
<1>1. /\ registry' \subseteq Names /\ b \in registry'
      /\ behaviors \in Seq(registry') /\ listeners \in Seq(registry')
      /\ Len(behaviors) \in Nat /\ Len(listeners) \in Nat
  <2>1. Seq(registry) \subseteq Seq(registry')
    OBVIOUS
  <2> QED BY <2>1 DEF RegistryInv
<1>2. /\ \A i \in 1..Len(behaviors) : behaviors[i] # b
      /\ \A i \in 1..Len(listeners) : listeners[i] # b
  BY DEF RegistryInv
<1>3. behaviors' \in Seq(registry') /\ IsInjective(behaviors')
  BY <1>1, <1>2, InjectiveAppend DEF RegistryInv
<1>4. Len(behaviors') = Len(behaviors) + 1
      /\ \A j \in 1..Len(behaviors') :
           behaviors'[j] = IF j \in 1..Len(behaviors) THEN behaviors[j] ELSE b
  BY <1>1
<1>5. \A i \in 1..Len(behaviors'), j \in 1..Len(listeners) : behaviors'[i] # listeners[j]
  BY <1>2, <1>4 DEF RegistryInv
<1>6. Grows(behaviors, behaviors')
  BY <1>1, <1>4 DEF Grows
<1> QED BY <1>1, <1>3, <1>5, <1>6 DEF RegistryInv

(* Or the last one that DOMContentLoaded will register.                    *)
LEMMA ListenerAppended ==
  ASSUME RegistryInv, NEW b \in Names, b \notin registry,
         registry' = registry \cup {b}, listeners' = Append(listeners, b),
         behaviors' = behaviors
  PROVE  RegistryInv' /\ Grows(behaviors, behaviors')
<1>1. /\ registry' \subseteq Names /\ b \in registry'
      /\ behaviors \in Seq(registry') /\ listeners \in Seq(registry')
      /\ Len(behaviors) \in Nat /\ Len(listeners) \in Nat
  <2>1. Seq(registry) \subseteq Seq(registry')
    OBVIOUS
  <2> QED BY <2>1 DEF RegistryInv
<1>2. /\ \A i \in 1..Len(behaviors) : behaviors[i] # b
      /\ \A i \in 1..Len(listeners) : listeners[i] # b
  BY DEF RegistryInv
<1>3. listeners' \in Seq(registry') /\ IsInjective(listeners')
  BY <1>1, <1>2, InjectiveAppend DEF RegistryInv
<1>4. Len(listeners') = Len(listeners) + 1
      /\ \A j \in 1..Len(listeners') :
           listeners'[j] = IF j \in 1..Len(listeners) THEN listeners[j] ELSE b
  BY <1>1
<1>5. \A i \in 1..Len(behaviors), j \in 1..Len(listeners') : behaviors[i] # listeners'[j]
  BY <1>2, <1>4 DEF RegistryInv
<1> QED BY <1>1, <1>3, <1>5 DEF RegistryInv, Grows

LEMMA NothingAdded ==
  ASSUME RegistryInv, UNCHANGED <<registry, listeners, behaviors>>
  PROVE  RegistryInv' /\ Grows(behaviors, behaviors')
BY DEF RegistryInv, Grows

(* Registering a behaviour, now or with a listener.                         *)
LEMMA RegisterStep ==
  ASSUME RegistryInv, NEW n, NEW b \in Names, Register(n, b)
  PROVE  /\ RegistryInv'
         /\ Grows(behaviors, behaviors')
         /\ ui' \in Polls(behaviors') /\ (swapping => ui' = ui)
<1>1. RegistryInv' /\ Grows(behaviors, behaviors')
  <2>1. CASE b \in registry
    BY <2>1, NothingAdded DEF Register
  <2>2. CASE b \notin registry /\ readyState = "loading"
    BY <2>2, ListenerAppended DEF Register, Add
  <2>3. CASE b \notin registry /\ readyState # "loading"
    BY <2>3, BehaviorAppended DEF Register, Add
  <2> QED BY <2>1, <2>2, <2>3
<1>2. CASE swapping
  BY <1>1, <1>2 DEF Register, Polls
<1>3. CASE ~swapping
  <2>1. PollScript(n, b)
    BY <1>3 DEF Register
  <2>2. Polled(behaviors')
    BY <2>1 DEF PollScript, Polled
  <2> QED BY <1>1, <1>3, <2>2, PolledOutcome
<1> QED BY <1>2, <1>3

(* appPostload registers the global behaviour unless a page did.            *)
LEMMA PostloadStep ==
  ASSUME MountingAssumption, RegistryInv, Postload
  PROVE  RegistryInv' /\ Grows(behaviors, behaviors')
<1>1. /\ registry' = registry \cup {Global} /\ listeners' = listeners
      /\ behaviors' = IF Global \in registry THEN behaviors ELSE Append(behaviors, Global)
  BY DEF Postload
<1>2. CASE Global \in registry
  <2>1. registry' = registry /\ behaviors' = behaviors
    BY <1>1, <1>2
  <2> QED BY <1>1, <2>1, NothingAdded
<1>3. CASE Global \notin registry
  BY <1>1, <1>3, BehaviorAppended DEF MountingAssumption
<1> QED BY <1>2, <1>3

(* The listeners register what they wait for.                               *)
LEMMA ListenersStep ==
  ASSUME RegistryInv, ContentLoaded
  PROVE  RegistryInv' /\ Grows(behaviors, behaviors')
<1>1. behaviors' = behaviors \o listeners /\ listeners' = <<>> /\ registry' = registry
  BY DEF ContentLoaded
<1>2. behaviors' \in Seq(registry) /\ IsInjective(behaviors')
  BY <1>1, InjectiveConcat DEF RegistryInv
<1>3. Grows(behaviors, behaviors')
  BY <1>1 DEF Grows, RegistryInv
<1>4. listeners' \in Seq(registry) /\ IsInjective(listeners') /\ Len(listeners') = 0
  BY <1>1 DEF IsInjective
<1> QED BY <1>1, <1>2, <1>3, <1>4 DEF RegistryInv

-----------------------------------------------------------------------------
(* The invariant.                                                          *)

(* A step in which onmount polls, or might, but the content stays.          *)
LEMMA PollingStep ==
  ASSUME MountingInv, RegistryInv', Grows(behaviors, behaviors'),
         UNCHANGED <<page, body, swapping>>, ~swapping,
         ui' \in Polls(behaviors')
  PROVE  MountingInv'
<1>1. ElementsInv' /\ \A e \in Elements : Unseen(e)' => Fresh(ui'[e])
  BY PollStep DEF MountingInv
<1>2. ContentInv'
  BY <1>1 DEF MountingInv, ContentInv, Current, Fresh
<1> QED BY <1>1, <1>2 DEF MountingInv

(* Registering in the middle of a swap.                                     *)
LEMMA SilentStep ==
  ASSUME MountingInv, RegistryInv', Grows(behaviors, behaviors'),
         UNCHANGED <<readyState, page, body, swapping, ui>>
  PROVE  MountingInv'
<1>1. \A e \in Elements : ElementFits(ui[e], e, behaviors')
  BY MoreBehaviors DEF MountingInv, ElementsInv, Grows
<1>2. ElementsInv'
  BY <1>1 DEF MountingInv, ElementsInv, ElementFits, InitsFit
<1>3. ContentInv'
  BY DEF MountingInv, ContentInv, Current, Unseen, Fresh
<1> QED BY <1>2, <1>3 DEF MountingInv

LEMMA InsertStep ==
  ASSUME MountingAssumption, MountingInv, NEW p \in Pages, SwapInsert(p)
  PROVE  MountingInv'
<1>1. /\ readyState = "complete" /\ readyState' = readyState /\ ~swapping /\ swapping' = TRUE
      /\ Current < MaxSwaps /\ page' = Append(page, p)
      /\ body' = body \cup ElementsOf(Current + 1, p)
      /\ UNCHANGED <<listeners, registry, behaviors, ui>>
  BY DEF SwapInsert
<1>2. Len(page) \in Nat \ {0} /\ Current = Len(page) - 1 /\ MaxSwaps \in Nat
  BY DEF MountingInv, ContentInv, MountingAssumption, Current
<1>3. page' \in Seq(Pages) /\ page' # <<>> /\ Len(page') = Len(page) + 1
  BY <1>1 DEF MountingInv, ContentInv
<1>4. Current' = Current + 1
  BY <1>2, <1>3 DEF Current
<1>5. \A e \in ElementsOf(Current + 1, p) : e \in Elements /\ e[1] = Current + 1
  <2>1. Content[p] \subseteq Slots
    BY DEF MountingAssumption
  <2>2. Current + 1 \in 0..MaxSwaps
    BY <1>1, <1>2
  <2> QED BY <2>1, <2>2 DEF ElementsOf, Elements
<1>6. ASSUME NEW e \in Elements, Unseen(e)' PROVE Unseen(e)
  <2>1. e[1] \in Int
    BY DEF Elements
  <2>2. e[1] > Current
    BY <1>2, <1>4, <1>6, <2>1 DEF Unseen
  <2> QED BY <2>2 DEF Unseen
<1>7. ContentInv'
  <2>1. body' \subseteq Elements
    BY <1>1, <1>5 DEF MountingInv, ContentInv
  <2>2. \A e \in body' : e[1] <= Current'
    <3>1. ASSUME NEW e \in body PROVE e[1] <= Current + 1
      <4>1. e[1] \in Int /\ e[1] <= Current
        BY DEF MountingInv, ContentInv, Elements
      <4> QED BY <1>2, <4>1
    <3> QED BY <1>1, <1>2, <1>4, <1>5, <3>1
  <2>3. Len(page') <= MaxSwaps + 1
    BY <1>1, <1>2, <1>3
  <2>4. \A e \in Elements : Unseen(e)' => Fresh(ui[e])'
    BY <1>1, <1>6 DEF MountingInv, ContentInv, Fresh
  <2> QED BY <1>1, <1>3, <2>1, <2>2, <2>3, <2>4 DEF ContentInv
<1>8. ASSUME NEW e \in Elements PROVE ElementFits(ui[e], e, behaviors)'
  <2>1. CASE e \in body
    BY <1>1, <2>1 DEF MountingInv, ElementsInv, ElementFits, InitsFit
  <2>2. CASE e \notin body /\ e \in body'
    <3>1. Unseen(e)
      BY <1>1, <1>2, <1>5, <2>2 DEF Unseen
    <3>2. ui[e].loaded = {} /\ \A b \in Names : ui[e].inits[b] = 0
      BY <3>1 DEF MountingInv, ContentInv, Fresh
    <3> QED BY <1>1, <3>2 DEF MountingInv, ElementsInv, ElementFits, InitsFit
  <2>3. CASE e \notin body'
    BY <1>1, <2>3 DEF MountingInv, ElementsInv, ElementFits, InitsFit
  <2> QED BY <2>1, <2>2, <2>3
<1>9. ElementsInv'
  BY <1>1, <1>8 DEF MountingInv, ElementsInv
<1>10. RegistryInv'
  BY <1>1 DEF MountingInv, RegistryInv
<1> QED BY <1>7, <1>9, <1>10 DEF MountingInv

(* No component of the new content is initialised before the swap is over, *)
(* so that the elements the swap removes are not theirs.                   *)
LEMMA RemoveStep ==
  ASSUME MountingInv, SwapRemove
  PROVE  MountingInv'
<1>1. /\ swapping /\ swapping' = FALSE
      /\ body' = {e \in body : e[1] = Current}
      /\ ui' = [e \in Elements |-> [ui[e] EXCEPT !.appended = {}]]
      /\ UNCHANGED <<readyState, listeners, registry, behaviors, page>>
  BY DEF SwapRemove
<1>2. Current' = Current /\ Current \in Int
  BY <1>1 DEF Current, MountingInv, ContentInv
<1>3. \A e \in body' : e \in body /\ Unseen(e)
  BY <1>1 DEF Unseen
<1>4. ASSUME NEW e \in Elements
      PROVE  /\ ui'[e] \in ElementState /\ ui'[e].loaded = ui[e].loaded
             /\ ui'[e].root = ui[e].root /\ ui'[e].live = ui[e].live
             /\ ui'[e].handle = ui[e].handle /\ ui'[e].misused = ui[e].misused
             /\ ui'[e].inits = ui[e].inits
  <2>1. ui'[e] = [ui[e] EXCEPT !.appended = {}]
    BY <1>1
  <2>2. ui[e] \in ElementState
    BY DEF MountingInv, ElementsInv, ElementFits
  <2> QED BY <2>1, <2>2 DEF ElementState
<1>5. ASSUME NEW e \in Elements PROVE ElementFits(ui[e], e, behaviors)'
  <2>1. RootFits(ui[e]) /\ ui[e].loaded \subseteq 1..Len(behaviors)
    BY DEF MountingInv, ElementsInv, ElementFits
  <2>2. RootFits(ui'[e])
    BY <1>4, <2>1 DEF RootFits, Holds
  <2>3. e \in body' => ui'[e].loaded = {}
    BY <1>3, <1>4 DEF MountingInv, ContentInv, Fresh
  <2>4. \A b \in Names : ui'[e].inits[b] <= 1 /\ (e \in body' => ui'[e].inits[b] = 0)
    BY <1>3, <1>4 DEF MountingInv, ContentInv, Fresh, ElementsInv, ElementFits, InitsFit
  <2>5. InitsFit(ui[e], e, behaviors)'
    BY <2>4 DEF InitsFit
  <2> QED BY <1>1, <1>4, <2>1, <2>2, <2>3, <2>5 DEF ElementFits
<1>6. ElementsInv'
  BY <1>1, <1>5 DEF ElementsInv
<1>7. ContentInv'
  <2>1. \A e \in Elements : Unseen(e)' => Fresh(ui[e])'
    BY <1>1, <1>2, <1>4 DEF MountingInv, ContentInv, Unseen, Fresh
  <2>2. body' \subseteq Elements /\ \A e \in body' : e[1] <= Current'
    BY <1>1, <1>2 DEF MountingInv, ContentInv
  <2> QED BY <1>1, <2>1, <2>2 DEF MountingInv, ContentInv
<1>8. RegistryInv'
  BY <1>1 DEF MountingInv, RegistryInv
<1> QED BY <1>6, <1>7, <1>8 DEF MountingInv

(* A timer changes nothing: the map still holds the root it uses, or the   *)
(* handle does nothing.                                                    *)
LEMMA UpdateStep ==
  ASSUME MountingInv, NEW e \in Elements, NEW i, Update(e, i)
  PROVE  MountingInv'
<1>1. ui[e] \in ElementState /\ RootFits(ui[e])
  BY DEF MountingInv, ElementsInv, ElementFits
<1>2. UpdateHandle(ui[e], i) = ui[e]
  BY <1>1, HandleUpdated
<1>3. ui' = ui /\ UNCHANGED <<readyState, listeners, registry, behaviors, page, body, swapping>>
  BY <1>2 DEF Update, MountingInv, ElementsInv
<1> QED BY <1>3 DEF MountingInv, RegistryInv, ContentInv, ElementsInv, ElementFits, InitsFit,
                    Unseen, Fresh, Current

LEMMA InitFits ==
  ASSUME MountingAssumption, Init
  PROVE  MountingInv
<1>1. /\ behaviors = <<>> /\ listeners = <<>> /\ registry = {} /\ swapping = FALSE
      /\ page \in [{1} -> Pages] /\ body = ElementsOf(0, page[1])
      /\ ui = [e \in Elements |-> Untouched]
  BY DEF Init
<1>2. RegistryInv
  <2>1. <<>> \in Seq({}) /\ Len(<<>>) = 0 /\ IsInjective(<<>>)
    BY DEF IsInjective
  <2> QED BY <1>1, <2>1 DEF RegistryInv
<1>3. page \in Seq(Pages) /\ Len(page) = 1 /\ page[1] \in Pages
  <2>1. PICK n \in Nat : n = 1
    OBVIOUS
  <2>2. page \in [1..n -> Pages]
    <3>1. {1} = 1..n
      BY <2>1
    <3> QED BY <1>1, <3>1
  <2>3. page \in Seq(Pages) /\ Len(page) = n
    BY <2>2
  <2> QED BY <1>1, <2>1, <2>3
<1>4. Current = 0
  BY <1>3 DEF Current
<1>5. ContentInv
  <2>1. \A e \in body : e \in Elements /\ e[1] = 0
    <3>1. Content[page[1]] \subseteq Slots /\ 0 \in 0..MaxSwaps
      BY <1>3 DEF MountingAssumption
    <3> QED BY <1>1, <3>1 DEF ElementsOf, Elements
  <2>2. \A e \in Elements : Fresh(ui[e])
    <3>1. Fresh(Untouched)
      BY DEF Untouched, Fresh
    <3> QED BY <1>1, <3>1
  <2>3. page # <<>> /\ Len(page) <= MaxSwaps + 1
    <3>1. Len(<<>>) = 0 /\ MaxSwaps \in Nat
      BY DEF MountingAssumption
    <3>2. Len(page) # 0 /\ Len(page) <= MaxSwaps + 1
      BY <1>3, <3>1
    <3> QED BY <3>1, <3>2
  <2>4. body \subseteq Elements /\ \A e \in body : e[1] <= Current
    BY <1>4, <2>1
  <2>5. swapping \in BOOLEAN /\ ~swapping
    BY <1>1
  <2> QED BY <1>3, <2>2, <2>3, <2>4, <2>5 DEF ContentInv
<1>6. ASSUME NEW e \in Elements PROVE ElementFits(ui[e], e, behaviors)
  <2>1. Untouched \in ElementState
    BY DEF Untouched, ElementState
  <2>2. RootFits(Untouched)
    BY DEF Untouched, RootFits
  <2>3. /\ ui[e] = Untouched /\ Untouched.loaded = {}
        /\ \A b \in Names : Untouched.inits[b] = 0
    BY <1>1 DEF Untouched
  <2> QED BY <2>1, <2>2, <2>3 DEF ElementFits, InitsFit
<1>7. ElementsInv
  BY <1>1, <1>6 DEF ElementsInv
<1> QED BY <1>2, <1>5, <1>7 DEF MountingInv

LEMMA StepFits ==
  ASSUME MountingAssumption, MountingInv, Next
  PROVE  MountingInv'
<1> USE DEF MountingInv
<1>1. swapping => readyState = "complete"
  BY DEF ContentInv
<1>2. ASSUME NEW b \in Names, RunInline(b) PROVE MountingInv'
  <2>1. Register(Current, b) /\ UNCHANGED <<readyState, page, body, swapping>>
    BY <1>2 DEF RunInline
  <2>2. RegistryInv' /\ Grows(behaviors, behaviors')
        /\ ui' \in Polls(behaviors') /\ (swapping => ui' = ui)
    BY <2>1, RegisterStep
  <2>3. CASE swapping
    BY <2>1, <2>2, <2>3, SilentStep
  <2>4. CASE ~swapping
    BY <2>1, <2>2, <2>4, PollingStep
  <2> QED BY <2>3, <2>4
<1>3. ASSUME NEW n, NEW b \in Names, RunDeferred(n, b) PROVE MountingInv'
  <2>1. Register(n, b) /\ ~swapping /\ UNCHANGED <<readyState, page, body, swapping>>
    BY <1>3 DEF RunDeferred
  <2>2. RegistryInv' /\ Grows(behaviors, behaviors') /\ ui' \in Polls(behaviors')
    BY <2>1, RegisterStep
  <2> QED BY <2>1, <2>2, PollingStep
<1>4. CASE Postload
  <2>1. RegistryInv' /\ Grows(behaviors, behaviors')
    BY <1>4, PostloadStep
  <2>2. ~swapping /\ UNCHANGED <<page, body, swapping>> /\ ui' \in Polls(behaviors')
    BY <1>1, <1>4, PolledOutcome DEF Postload
  <2> QED BY <2>1, <2>2, PollingStep
<1>5. CASE ContentLoaded
  <2>1. RegistryInv' /\ Grows(behaviors, behaviors')
    BY <1>5, ListenersStep
  <2>2. ~swapping /\ UNCHANGED <<page, body, swapping>> /\ ui' \in Polls(behaviors')
    BY <1>1, <1>5, PolledOutcome DEF ContentLoaded
  <2> QED BY <2>1, <2>2, PollingStep
<1>6. CASE SwapRemove
  BY <1>6, RemoveStep
<1>7. ASSUME NEW n, Load(n) PROVE MountingInv'
  <2>1. /\ ~swapping
        /\ UNCHANGED <<readyState, listeners, registry, behaviors, page, body, swapping>>
        /\ Polled(behaviors) \/ ui' = ui
    BY <1>7 DEF Load
  <2>2. RegistryInv' /\ Grows(behaviors, behaviors')
    BY <2>1, NothingAdded
  <2>3. ui' \in Polls(behaviors)
    BY <2>1, PolledOutcome DEF Polls
  <2>4. ui' \in Polls(behaviors')
    BY <2>1, <2>3
  <2> QED BY <2>1, <2>2, <2>4, PollingStep
<1>8. ASSUME NEW p \in Pages, SwapInsert(p) PROVE MountingInv'
  BY <1>8, InsertStep
<1>9. ASSUME NEW e \in Elements, NEW i, Update(e, i) PROVE MountingInv'
  BY <1>9, UpdateStep
<1> QED
  BY <1>2, <1>3, <1>4, <1>5, <1>6, <1>7, <1>8, <1>9 DEF Next, PageStep

(* In every state the behaviours are registered once, every element is in  *)
(* order, and contents to come are untouched: drnOnmount.js, onmount.js    *)
(* and reactBundle.js together, whatever order scripts, swaps and timers   *)
(* come in, and whichever initialisers fail.                               *)
THEOREM MountingInvariant == Spec => []MountingInv
<1>1. Init => MountingInv
  BY MountingAssumption, InitFits
<1>2. MountingInv /\ [Next]_vars => MountingInv'
  <2> SUFFICES ASSUME MountingInv, [Next]_vars PROVE MountingInv'
    OBVIOUS
  <2>1. CASE Next
    BY <2>1, MountingAssumption, StepFits
  <2>2. CASE UNCHANGED vars
    BY <2>2 DEF vars, MountingInv, RegistryInv, ContentInv, ElementsInv, ElementFits,
                InitsFit, Unseen, Fresh, Current
  <2> QED BY <2>1, <2>2
<1> QED BY <1>1, <1>2, PTL DEF Spec

(* No behaviour is initialised twice on an element, however often the      *)
(* scripts of its page run, onmount is polled and polls fail, and what was *)
(* initialised on an attached element is known to onmount: drnOnmount      *)
(* keeps a registry, and onmount a mark on each element, by the key of the *)
(* behaviour, which it sets after an initialiser that succeeded.           *)
THEOREM MountedOnceHolds == Spec => []MountedOnce
<1>1. MountingInv => MountedOnce
  <2> SUFFICES ASSUME MountingInv, NEW e \in Elements, NEW b \in Names
               PROVE  /\ ui[e].inits[b] <= 1
                      /\ e \in body /\ ui[e].inits[b] = 1 => Mounted(b, e)
    BY DEF MountedOnce
  <2>1. InitsFit(ui[e], e, behaviors)
    BY DEF MountingInv, ElementsInv, ElementFits
  <2> QED BY <2>1 DEF InitsFit, Mounted
<1> QED BY <1>1, MountingInvariant, PTL

(* What a component of the shown page appended to the body is still there: *)
(* register does not poll while the body has the class htmx-swapping, and  *)
(* so nothing of a page is appended before the swap to it is over.         *)
THEOREM AppendedStaysHolds == Spec => []AppendedStays
<1>1. MountingInv => AppendedStays
  <2> SUFFICES ASSUME MountingInv, NEW e \in body, NEW i \in ui[e].loaded,
                      behaviors[i] \in Appending
               PROVE  i \in ui[e].appended
    BY DEF AppendedStays
  <2>1. e \in Elements
    BY DEF MountingInv, ContentInv
  <2> QED BY <2>1 DEF MountingInv, ElementsInv, ElementFits
<1> QED BY <1>1, MountingInvariant, PTL

(* No root is rendered or unmounted after its unmount, also by a late      *)
(* timer, an element shows at most one, and each can be disposed of by a   *)
(* component that is still initialised: the handles of DRN.React.mount     *)
(* check the root map before they use the root they captured.              *)
THEOREM RootsUsedSafelyHolds == Spec => []RootsUsedSafely
<1>1. MountingInv => RootsUsedSafely
  <2> SUFFICES ASSUME MountingInv, NEW e \in Elements
               PROVE  /\ ~ui[e].misused
                      /\ ui[e].live \subseteq {ui[e].root}
                      /\ ui[e].live # {} => \E i \in ui[e].loaded : Holds(ui[e], i)
    BY DEF RootsUsedSafely
  <2>1. RootFits(ui[e])
    BY DEF MountingInv, ElementsInv, ElementFits
  <2> QED BY <2>1 DEF RootFits
<1> QED BY <1>1, MountingInvariant, PTL

=============================================================================
