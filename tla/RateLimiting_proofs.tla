------------------------- MODULE RateLimiting_proofs -------------------------
(***************************************************************************)
(* Proofs about rate limiting for any rules, policies, permits and         *)
(* requests: the chains hold every rule once and in order, permits and the *)
(* gauge are accounted for, and only requests that were judged are served. *)
(***************************************************************************)
EXTENDS RateLimiting, FiniteSetTheorems, SequenceTheorems,
        WellFoundedInduction, TLAPS

-----------------------------------------------------------------------------
(* The chains.                                                             *)

(* E can be listed in order.                                               *)
Listed(E, s) ==
  /\ s \in [1..Cardinality(E) -> E]
  /\ \A i, j \in 1..Cardinality(E) : i < j => EntryBefore(s[i], s[j])

Listable(E) == \E s : Listed(E, s)

LEMMA EntriesAreOrdered ==
  ASSUME NEW ph \in Phases
  PROVE  /\ \A e \in Entries(ph) : ~EntryBefore(e, e)
         /\ \A e, f \in Entries(ph) :
              e # f => EntryBefore(e, f) \/ EntryBefore(f, e)
         /\ \A e, f, g \in Entries(ph) :
              EntryBefore(e, f) /\ EntryBefore(f, g) => EntryBefore(e, g)
<1>1. \A e \in Entries(ph) :
        /\ e.order \in Int /\ e.shortCircuit \in BOOLEAN /\ e.index \in Nat
        /\ \/ e = ResetEntry /\ e.index = 0
           \/ \E r \in Rules :
                /\ e.index = Rule[r].index /\ e.index # 0
                /\ e = [link |-> r, order |-> Rule[r].order,
                        shortCircuit |-> Rule[r].shortCircuit,
                        index |-> Rule[r].index]
  <2>1. \A r \in Rules :
          /\ Rule[r].order \in Int /\ Rule[r].shortCircuit \in BOOLEAN
          /\ Rule[r].index \in Nat /\ Rule[r].index # 0
    BY RateLimitingAssumption DEF RuleType
  <2>2. /\ ResetEntry.order \in Int /\ ResetEntry.shortCircuit \in BOOLEAN
        /\ ResetEntry.index = 0
    BY RateLimitingAssumption DEF ResetEntry
  <2> QED BY <2>1, <2>2 DEF Entries
<1>2. \A e, f \in Entries(ph) : e.index = f.index => e = f
  BY <1>1, RateLimitingAssumption
<1>3. QED
  BY <1>1, <1>2 DEF EntryBefore

LEMMA EntriesAreFinite ==
  ASSUME NEW ph \in Phases
  PROVE  IsFiniteSet(Entries(ph))
<1> DEFINE R == {s \in Rules : ph = "PostAuth" \/ ~Rule[s].scoped}
           entry(r) == [link |-> r, order |-> Rule[r].order,
                        shortCircuit |-> Rule[r].shortCircuit,
                        index |-> Rule[r].index]
           E == {entry(r) : r \in R}
<1>1. IsFiniteSet(R)
  BY RateLimitingAssumption, FS_Subset
<1>2. [r \in R |-> entry(r)] \in Surjection(R, E)
  BY DEF Surjection
<1>3. IsFiniteSet(E)
  BY <1>1, <1>2, FS_Surjection
<1>4. IsFiniteSet(E \cup {ResetEntry})
  BY <1>3, FS_AddElement
<1> QED
  BY <1>4 DEF Entries

(* A set of naturals that is not empty has a least element.                *)
LEMMA LeastNatural ==
  ASSUME NEW N \in SUBSET Nat, N # {}
  PROVE  \E n \in N : \A m \in N : n <= m
<1> DEFINE R == OpToRel(<, Nat)
<1>1. IsWellFoundedOn(R, Nat)
  BY NatLessThanWellFounded
<1>2. \A m, n \in Nat : m < n => <<m, n>> \in R
  BY DEF OpToRel
<1> HIDE DEF R
<1>3. PICK n \in N : \A m \in N : ~(<<m, n>> \in R)
  BY <1>1, WFMin, Zenon
<1>4. ASSUME NEW m \in N PROVE n <= m
  <2>1. m \in Nat /\ n \in Nat
    OBVIOUS
  <2>2. ~(m < n)
    BY <1>2, <1>3, <2>1, Zenon
  <2> QED BY <2>1, <2>2
<1>5. QED
  BY <1>4

(* One more entry finds its place in a list.                               *)
LEMMA InsertEntry ==
  ASSUME NEW ph \in Phases, NEW E \in SUBSET Entries(ph), NEW x \in E,
         NEW n \in Nat, Cardinality(E) = n + 1, Cardinality(E \ {x}) = n,
         NEW f, Listed(E \ {x}, f)
  PROVE  Listable(E)
<1> DEFINE later == {i \in 1..n : EntryBefore(x, f[i])}
<1>1. /\ f \in [1..n -> E \ {x}]
      /\ \A i, j \in 1..n : i < j => EntryBefore(f[i], f[j])
  BY DEF Listed
<1>2. \A i \in 1..n : f[i] \in Entries(ph) /\ f[i] # x /\ f[i] \in E
  BY <1>1
<1>3. \E k \in 1..(n + 1) :
        /\ \A i \in 1..n : i < k => EntryBefore(f[i], x)
        /\ \A i \in 1..n : i >= k => EntryBefore(x, f[i])
  <2>1. CASE later = {}
    <3>1. \A i \in 1..n : EntryBefore(f[i], x)
      BY <1>2, <2>1, EntriesAreOrdered
    <3> QED BY <3>1
  <2>2. CASE later # {}
    <3>1. PICK k \in later : \A m \in later : k <= m
      <4>1. later \in SUBSET Nat
        OBVIOUS
      <4> HIDE DEF later
      <4> QED BY <2>2, <4>1, LeastNatural
    <3>2. \A i \in 1..n : i < k => EntryBefore(f[i], x)
      BY <1>2, <3>1, EntriesAreOrdered
    <3>3. \A i \in 1..n : i >= k => EntryBefore(x, f[i])
      <4> SUFFICES ASSUME NEW i \in 1..n, i > k PROVE EntryBefore(x, f[i])
        BY <3>1
      <4>1. EntryBefore(f[k], f[i]) /\ EntryBefore(x, f[k])
        BY <1>1, <3>1
      <4> QED BY <1>2, <3>1, <4>1, EntriesAreOrdered
    <3> QED BY <3>1, <3>2, <3>3
  <2> QED BY <2>1, <2>2
<1>4. PICK k \in 1..(n + 1) :
        /\ \A i \in 1..n : i < k => EntryBefore(f[i], x)
        /\ \A i \in 1..n : i >= k => EntryBefore(x, f[i])
  BY <1>3
<1> DEFINE g == [i \in 1..(n + 1) |-> IF i < k THEN f[i]
                                     ELSE IF i = k THEN x ELSE f[i - 1]]
<1>5. g \in [1..(n + 1) -> E]
  BY <1>2
<1>6. ASSUME NEW i \in 1..(n + 1), NEW j \in 1..(n + 1), i < j
      PROVE  EntryBefore(g[i], g[j])
  <2>1. CASE j < k
    BY <1>1, <1>6, <2>1
  <2>2. CASE j = k
    BY <1>4, <1>6, <2>2
  <2>3. CASE i = k
    BY <1>4, <1>6, <2>3
  <2>4. CASE i < k /\ j > k
    <3>1. i < j - 1 \/ i = j - 1
      BY <1>6
    <3>2. i \in 1..n /\ j - 1 \in 1..n /\ j - 1 >= k
      BY <2>4
    <3>3. EntryBefore(f[i], x) /\ EntryBefore(x, f[j - 1])
      BY <1>4, <2>4, <3>2
    <3>4. EntryBefore(f[i], f[j - 1])
      BY <1>2, <3>2, <3>3, EntriesAreOrdered
    <3> QED BY <2>4, <3>4
  <2>5. CASE i > k
    <3>1. i - 1 \in 1..n /\ j - 1 \in 1..n /\ i - 1 < j - 1
      BY <1>6, <2>5
    <3> QED BY <1>1, <1>6, <2>5, <3>1
  <2> QED BY <1>6, <2>1, <2>2, <2>3, <2>4, <2>5
<1> QED
  <2>1. Listed(E, g)
    BY <1>5, <1>6 DEF Listed
  <2> QED BY <2>1 DEF Listable

LEMMA EntriesAreListable ==
  ASSUME NEW ph \in Phases
  PROVE  Listable(Entries(ph))
<1> DEFINE N == {n \in Nat : \E E \in SUBSET Entries(ph) :
                               Cardinality(E) = n /\ ~Listable(E)}
<1>1. \A E \in SUBSET Entries(ph) : IsFiniteSet(E) /\ Cardinality(E) \in Nat
  BY EntriesAreFinite, FS_Subset, FS_CardinalityType
<1>2. SUFFICES N = {}
  BY <1>1
<1>3. SUFFICES ASSUME N # {} PROVE FALSE
  OBVIOUS
<1>4. PICK n \in N : \A m \in N : n <= m
  BY <1>3, LeastNatural
<1>5. PICK E \in SUBSET Entries(ph) : Cardinality(E) = n /\ ~Listable(E)
  BY <1>4
<1>6. CASE E = {}
  <2>1. Listed(E, [i \in {} |-> 0])
    <3>1. Cardinality(E) = 0
      BY <1>6, FS_EmptySet
    <3> QED BY <3>1, <1>6 DEF Listed
  <2> QED BY <1>5, <2>1 DEF Listable
<1>7. CASE E # {}
  <2>1. PICK x \in E : TRUE
    BY <1>7
  <2>2. Cardinality(E \ {x}) = n - 1 /\ n - 1 \in Nat
    <3>1. IsFiniteSet(E) /\ Cardinality(E) = n /\ E \ {x} \in SUBSET Entries(ph)
      BY <1>1, <1>5
    <3>2. Cardinality(E \ {x}) = Cardinality(E) - 1
      BY <2>1, <3>1, FS_RemoveElement
    <3> QED BY <1>1, <3>1, <3>2
  <2>3. n - 1 \notin N
    BY <1>4, <2>2
  <2>4. Listable(E \ {x})
    BY <2>2, <2>3
  <2>5. PICK f : Listed(E \ {x}, f)
    BY <2>4 DEF Listable
  <2> QED BY <1>4, <1>5, <2>1, <2>2, <2>5, InsertEntry
<1> QED BY <1>6, <1>7

Links(ph) == {Reset} \cup {r \in Rules : Rule[r].scoped => ph = "PostAuth"}

(* The chain of a phase holds the link that clears the selection and every *)
(* rule of the phase exactly once, in ascending order and with the         *)
(* short-circuiting rules of an order before the others, and the clearing  *)
(* link comes first whatever the orders of the rules are                   *)
(* (RateLimitRuleChainFactory.Create).                                     *)
THEOREM ChainInOrder ==
  ASSUME NEW ph \in Phases
  PROVE  /\ Len(Chain[ph]) \in Nat \ {0}
         /\ \A i \in 1..Len(Chain[ph]) : Chain[ph][i].link \in Links(ph)
         /\ \A l \in Links(ph) : \E i \in 1..Len(Chain[ph]) : Chain[ph][i].link = l
         /\ \A i, j \in 1..Len(Chain[ph]) :
              Chain[ph][i].link = Chain[ph][j].link => i = j
         /\ Chain[ph][1].link = Reset
         /\ \A i, j \in 2..Len(Chain[ph]) :
              i < j => Precedes(Chain[ph][i].link, Chain[ph][j].link)
<1> DEFINE E == Entries(ph)
           n == Cardinality(E)
           s == Chain[ph]
<1>1. n \in Nat
  BY EntriesAreFinite, FS_CardinalityType
<1>2. \E f \in SetToSeqs(E) :
        \A i, j \in DOMAIN f : i < j => EntryBefore(f[i], f[j])
  <2>1. PICK f : Listed(E, f)
    BY EntriesAreListable DEF Listable
  <2>2. /\ f \in [1..n -> E]
        /\ \A i, j \in 1..n : i < j => EntryBefore(f[i], f[j])
    BY <2>1 DEF Listed
  <2>3. \A i, j \in 1..n : i # j => f[i] # f[j]
    <3>1. \A i, j \in 1..n : i < j => f[i] # f[j]
      BY <2>2, EntriesAreOrdered
    <3> QED BY <1>1, <3>1
  <2> QED BY <2>2, <2>3 DEF SetToSeqs
<1>3. /\ s \in SetToSeqs(E)
      /\ \A i, j \in DOMAIN s : i < j => EntryBefore(s[i], s[j])
  BY <1>2 DEF Chain
<1>4. /\ s \in [1..n -> E]
      /\ \A i, j \in 1..n : i # j => s[i] # s[j]
      /\ \A i, j \in 1..n : i < j => EntryBefore(s[i], s[j])
  BY <1>3 DEF SetToSeqs
<1> HIDE DEF s
<1>5. Len(s) = n
  BY <1>1, <1>4
<1>6. \A e \in E : \E i \in 1..n : s[i] = e
  <2>1. s \in Injection(1..n, E)
    BY <1>4 DEF Injection, IsInjective
  <2>2. Cardinality(1..n) = n
    BY <1>1, FS_Interval
  <2>3. s \in Surjection(1..n, E)
    BY <2>1, <2>2, EntriesAreFinite, FS_Injection
  <2> QED BY <2>3 DEF Surjection
<1>7. \A e \in E :
        \/ e = ResetEntry /\ e.link = Reset
        \/ \E r \in Rules :
             /\ Rule[r].scoped => ph = "PostAuth"
             /\ e = [link |-> r, order |-> Rule[r].order,
                     shortCircuit |-> Rule[r].shortCircuit,
                     index |-> Rule[r].index]
  BY RateLimitingAssumption DEF Entries, ResetEntry, RuleType
<1>8. \A e \in E :
        /\ e.link \in Links(ph)
        /\ \/ e.link = Reset /\ e = ResetEntry
           \/ /\ e.link \in Rules
              /\ e = [link |-> e.link, order |-> Rule[e.link].order,
                      shortCircuit |-> Rule[e.link].shortCircuit,
                      index |-> Rule[e.link].index]
  BY <1>7 DEF Links
<1>9. \A l \in Links(ph) : \E e \in E : e.link = l
  <2>1. ASSUME NEW r \in Rules, Rule[r].scoped => ph = "PostAuth"
        PROVE  \E e \in E : e.link = r
    <3> DEFINE e == [link |-> r, order |-> Rule[r].order,
                     shortCircuit |-> Rule[r].shortCircuit,
                     index |-> Rule[r].index]
    <3>1. e \in E
      BY <2>1 DEF Entries
    <3>2. e.link = r
      OBVIOUS
    <3> QED BY <3>1, <3>2
  <2>2. ResetEntry \in E /\ ResetEntry.link = Reset
    BY DEF Entries, ResetEntry
  <2> QED BY <2>1, <2>2 DEF Links
<1>10. \A e, f \in E : e.link = f.link => e = f
  BY <1>8, LinkNames
<1>11. ResetEntry \in E /\ ResetEntry.link = Reset
  BY DEF Entries, ResetEntry
<1>12. \A e \in E : ~EntryBefore(e, ResetEntry)
  <2>1. \A r \in Rules : /\ Rule[r].order \in Int /\ Rule[r].order >= MinOrder
                         /\ Rule[r].shortCircuit \in BOOLEAN
                         /\ Rule[r].index \in Nat \ {0}
    BY RateLimitingAssumption DEF RuleType
  <2>2. ~EntryBefore(ResetEntry, ResetEntry)
    BY <1>11, EntriesAreOrdered
  <2>3. ASSUME NEW e \in E, NEW r \in Rules,
               e = [link |-> r, order |-> Rule[r].order,
                    shortCircuit |-> Rule[r].shortCircuit,
                    index |-> Rule[r].index]
        PROVE  ~EntryBefore(e, ResetEntry)
    <3>1. /\ e.order >= MinOrder /\ e.order \in Int
          /\ e.shortCircuit \in BOOLEAN /\ e.index \in Nat \ {0}
      BY <2>1, <2>3
    <3>2. /\ ResetEntry.order = MinOrder /\ ResetEntry.shortCircuit
          /\ ResetEntry.index = 0
      BY DEF ResetEntry
    <3>3. ~(e.order < ResetEntry.order) /\ ~(e.index < ResetEntry.index)
      BY <3>1, <3>2, RateLimitingAssumption
    <3> QED BY <3>2, <3>3 DEF EntryBefore
  <2> QED BY <1>7, <2>2, <2>3
<1>13. PICK k \in 1..n : s[k] = ResetEntry
  BY <1>6, <1>11
<1>14. k = 1
  <2>1. k > 1 => EntryBefore(s[1], s[k]) /\ s[1] \in E
    BY <1>1, <1>4
  <2> QED BY <1>1, <1>12, <1>13, <2>1
<1>15. \A i \in 2..n : s[i] # ResetEntry /\ s[i] \in E
  BY <1>1, <1>4, <1>13, <1>14
<1>16. ASSUME NEW i \in 2..n, NEW j \in 2..n, i < j
       PROVE  Precedes(s[i].link, s[j].link)
  <2>1. EntryBefore(s[i], s[j])
    BY <1>1, <1>4, <1>16
  <2>2. /\ s[i].order = Rule[s[i].link].order
        /\ s[i].shortCircuit = Rule[s[i].link].shortCircuit
        /\ s[j].order = Rule[s[j].link].order
        /\ s[j].shortCircuit = Rule[s[j].link].shortCircuit
    BY <1>8, <1>15
  <2> QED BY <2>1, <2>2 DEF EntryBefore, Precedes
<1>17. n # 0
  BY <1>1, <1>13
<1>18. \A i \in 1..n : s[i] \in E
  BY <1>4
<1>19. \A i, j \in 1..n : s[i].link = s[j].link => i = j
  BY <1>4, <1>10, <1>18
<1>20. \A l \in Links(ph) : \E i \in 1..n : s[i].link = l
  BY <1>6, <1>9
<1>21. s[1].link = Reset
  BY <1>11, <1>13, <1>14
<1> HIDE DEF n, E
<1>22. QED
  BY <1>1, <1>5, <1>8, <1>16, <1>17, <1>18, <1>19, <1>20, <1>21 DEF s

-----------------------------------------------------------------------------
(* Limiters and the requests that hold permits of them.                    *)

Kinds == {"deny", "bucket", "concurrency"}

(* What is true of the limiter l of partition p while the requests in held *)
(* have permits of it.                                                     *)
LimiterFits(l, p, held) ==
  /\ l \in [kind : Kinds, left : 0..Permits]
  /\ l.kind \in {"deny", Rule[p.rule].kind}
  /\ l.kind = "deny" => l.left = 0
  /\ l.kind = "concurrency" => l.left = Permits - Cardinality(held)
  /\ p.key = DenyKey /\ DenyKey # Client => l.kind = "deny"

(* A concurrency limiter stays as long as someone has a permit of it; a    *)
(* token bucket need not.                                                  *)
StaysWhileHeld(all, p, held) ==
  /\ IsFiniteSet(held)
  /\ Rule[p.rule].kind = "concurrency" /\ held # {} =>
       p \in DOMAIN all /\ all[p].kind = "concurrency"

LimitersFit(all, holders) ==
  /\ DOMAIN all \subseteq Partitions
  /\ \A p \in DOMAIN all : LimiterFits(all[p], p, holders[p])
  /\ \A p \in Partitions : StaysWhileHeld(all, p, holders[p])

LEMMA RuleFacts ==
  ASSUME NEW r \in Rules
  PROVE  /\ Rule[r].kind \in {"bucket", "concurrency"}
         /\ Rule[r].scoped \in BOOLEAN /\ Rule[r].shortCircuit \in BOOLEAN
         /\ Rule[r].order \in Int
         /\ Rule[r].actions \subseteq Actions
BY RateLimitingAssumption DEF RuleType

LEMMA PartitionFacts ==
  ASSUME NEW p \in Partitions
  PROVE  p.phase \in Phases /\ p.rule \in Rules /\ p.key \in {Client, DenyKey}
BY DEF Partitions

LEMMA PartitionOf ==
  ASSUME NEW ph \in Phases, NEW r \in Rules, NEW action \in Actions
  PROVE  /\ Partition(ph, r, action) \in Partitions
         /\ Partition(ph, r, action).phase = ph
         /\ Partition(ph, r, action).rule = r
         /\ action = "deny" => Partition(ph, r, action).key = DenyKey
         /\ action # "deny" => Partition(ph, r, action).key = Client
BY DEF Partition, Partitions

(* The limiter of a partition is made.                                     *)
LEMMA MakingFits ==
  ASSUME NEW holders, LimitersFit(limiters, holders),
         NEW ph \in Phases, NEW r \in Rules, NEW action \in Actions,
         NEW p, p = Partition(ph, r, action)
  PROVE  /\ LimitersFit(WithLimiter(p, action), holders)
         /\ p \in DOMAIN WithLimiter(p, action)
<1> DEFINE all == WithLimiter(p, action)
<1>1. /\ p \in Partitions /\ p.rule = r
      /\ p.key = DenyKey /\ DenyKey # Client => action = "deny"
  BY PartitionOf
<1>2. /\ DOMAIN all = DOMAIN limiters \cup {p}
      /\ \A x \in DOMAIN limiters : all[x] = limiters[x]
      /\ p \notin DOMAIN limiters => all[p] = Made(r, action)
  BY <1>1 DEF WithLimiter
<1>3. /\ DOMAIN limiters \subseteq Partitions
      /\ \A x \in DOMAIN limiters : LimiterFits(limiters[x], x, holders[x])
      /\ \A x \in Partitions : StaysWhileHeld(limiters, x, holders[x])
  BY DEF LimitersFit
<1>4. p \notin DOMAIN limiters => LimiterFits(Made(r, action), p, holders[p])
  <2> SUFFICES ASSUME p \notin DOMAIN limiters
               PROVE  LimiterFits(Made(r, action), p, holders[p])
    OBVIOUS
  <2>1. CASE action = "deny"
    BY <1>1, <2>1, RateLimitingAssumption DEF Made, LimiterFits, Kinds
  <2>2. CASE action # "deny"
    <3>1. Rule[r].kind = "concurrency" => holders[p] = {}
      BY <1>1, <1>3 DEF StaysWhileHeld
    <3>2. Rule[r].kind = "concurrency" => Cardinality(holders[p]) = 0
      BY <3>1, FS_EmptySet
    <3> QED
      BY <1>1, <2>2, <3>2, RuleFacts, RateLimitingAssumption
         DEF Made, LimiterFits, Kinds
  <2> QED BY <2>1, <2>2
<1> HIDE DEF all
<1>5. DOMAIN all \subseteq Partitions
  BY <1>1, <1>2, <1>3
<1>6. \A x \in DOMAIN all : LimiterFits(all[x], x, holders[x])
  BY <1>2, <1>3, <1>4
<1>7. \A x \in Partitions : StaysWhileHeld(all, x, holders[x])
  BY <1>2, <1>3 DEF StaysWhileHeld
<1> QED
  BY <1>2, <1>5, <1>6, <1>7 DEF LimitersFit, all

(* A request that has no permit of a limiter takes one.                    *)
LEMMA TakingFits ==
  ASSUME NEW all, NEW holders \in [Partitions -> SUBSET Requests],
         LimitersFit(all, holders),
         NEW p \in DOMAIN all, all[p].left > 0,
         NEW q \in Requests, q \notin holders[p]
  PROVE  LimitersFit(Taken(all, p), [holders EXCEPT ![p] = @ \cup {q}])
<1> DEFINE after == Taken(all, p)
           held == [holders EXCEPT ![p] = @ \cup {q}]
<1>1. /\ DOMAIN all \subseteq Partitions
      /\ \A x \in DOMAIN all : LimiterFits(all[x], x, holders[x])
      /\ \A x \in Partitions : StaysWhileHeld(all, x, holders[x])
  BY DEF LimitersFit
<1>2. /\ p \in Partitions
      /\ held[p] = holders[p] \cup {q}
      /\ \A x \in Partitions \ {p} : held[x] = holders[x]
  BY <1>1
<1>3. /\ all[p] \in [kind : Kinds, left : 0..Permits]
      /\ LimiterFits(all[p], p, holders[p])
  BY <1>1 DEF LimiterFits
<1>4. /\ DOMAIN after = DOMAIN all
      /\ \A x \in DOMAIN all \ {p} : after[x] = all[x]
      /\ after[p] = [all[p] EXCEPT !.left = @ - 1]
  BY DEF Taken
<1>5. /\ IsFiniteSet(holders[p])
      /\ Cardinality(holders[p]) \in Nat
      /\ IsFiniteSet(held[p])
      /\ Cardinality(held[p]) = Cardinality(holders[p]) + 1
  BY <1>1, <1>2, FS_AddElement, FS_CardinalityType DEF StaysWhileHeld
<1>6. /\ after[p].kind = all[p].kind /\ after[p].left = all[p].left - 1
      /\ after[p] \in [kind : Kinds, left : 0..Permits]
  BY <1>3, <1>4, RateLimitingAssumption
<1> HIDE DEF after, held
<1>7. LimiterFits(after[p], p, held[p])
  BY <1>3, <1>5, <1>6, RateLimitingAssumption DEF LimiterFits
<1>8. all[p].kind # "deny"
  BY <1>3 DEF LimiterFits
<1>9. StaysWhileHeld(after, p, held[p])
  BY <1>3, <1>4, <1>5, <1>6, <1>8 DEF StaysWhileHeld, LimiterFits
<1>10. \A x \in DOMAIN after : LimiterFits(after[x], x, held[x])
  BY <1>1, <1>2, <1>4, <1>7
<1>11. \A x \in Partitions \ {p} : StaysWhileHeld(after, x, held[x])
  BY <1>1, <1>2, <1>4 DEF StaysWhileHeld
<1> QED
  BY <1>1, <1>4, <1>9, <1>10, <1>11 DEF LimitersFit, after, held

(* A request gives back all it has of one phase.                           *)
LEMMA ReturningFits ==
  ASSUME NEW all, NEW holders \in [Partitions -> SUBSET Requests],
         LimitersFit(all, holders),
         NEW held \in SUBSET Partitions,
         NEW q \in Requests, \A p \in held : q \in holders[p]
  PROVE  LimitersFit(Returned(all, held),
           [p \in Partitions |-> IF p \in held THEN holders[p] \ {q}
                                               ELSE holders[p]])
<1> DEFINE after == Returned(all, held)
           rest == [p \in Partitions |-> IF p \in held THEN holders[p] \ {q}
                                                       ELSE holders[p]]
<1>1. /\ DOMAIN all \subseteq Partitions
      /\ \A x \in DOMAIN all : LimiterFits(all[x], x, holders[x])
      /\ \A x \in Partitions : StaysWhileHeld(all, x, holders[x])
  BY DEF LimitersFit
<1>2. DOMAIN after = DOMAIN all
  BY DEF Returned
<1>3. ASSUME NEW p \in Partitions
      PROVE  /\ IsFiniteSet(rest[p])
             /\ rest[p] \subseteq holders[p]
             /\ Cardinality(holders[p]) \in Nat
             /\ Cardinality(rest[p]) =
                  IF p \in held THEN Cardinality(holders[p]) - 1
                                ELSE Cardinality(holders[p])
             /\ Cardinality(rest[p]) \in Nat
  <2>1. IsFiniteSet(holders[p])
    BY <1>1 DEF StaysWhileHeld
  <2>2. /\ IsFiniteSet(holders[p] \ {q})
        /\ q \in holders[p] =>
             Cardinality(holders[p] \ {q}) = Cardinality(holders[p]) - 1
    BY <2>1, FS_RemoveElement
  <2> QED BY <2>1, <2>2, FS_CardinalityType
<1>4. ASSUME NEW p \in DOMAIN all
      PROVE  /\ after[p].kind = all[p].kind
             /\ p \in held /\ all[p].kind = "concurrency" =>
                  after[p] = [all[p] EXCEPT !.left = @ + 1]
             /\ ~(p \in held /\ all[p].kind = "concurrency") => after[p] = all[p]
  <2>1. LimiterFits(all[p], p, holders[p])
    BY <1>1
  <2> QED BY <2>1 DEF Returned, LimiterFits
<1> HIDE DEF after, rest
<1>5. ASSUME NEW p \in DOMAIN all
      PROVE  LimiterFits(after[p], p, rest[p])
  <2>1. LimiterFits(all[p], p, holders[p]) /\ p \in Partitions
    BY <1>1
  <2>2. CASE p \in held /\ all[p].kind = "concurrency"
    <3>1. /\ all[p] \in [kind : Kinds, left : 0..Permits]
          /\ all[p].left = Permits - Cardinality(holders[p])
          /\ after[p] = [all[p] EXCEPT !.left = @ + 1]
      BY <1>4, <2>1, <2>2 DEF LimiterFits
    <3>2. Cardinality(rest[p]) = Cardinality(holders[p]) - 1
          /\ Cardinality(holders[p]) \in Nat /\ Cardinality(rest[p]) \in Nat
      BY <1>3, <2>1, <2>2
    <3>3. /\ after[p].left = Permits - Cardinality(rest[p])
          /\ after[p].left \in 0..Permits
          /\ after[p] \in [kind : Kinds, left : 0..Permits]
      BY <3>1, <3>2, RateLimitingAssumption
    <3> QED BY <1>4, <2>1, <2>2, <3>3 DEF LimiterFits
  <2>3. CASE ~(p \in held /\ all[p].kind = "concurrency")
    <3>1. after[p] = all[p]
      BY <1>4, <2>3
    <3>2. p \notin held => Cardinality(rest[p]) = Cardinality(holders[p])
      BY <1>3, <2>1
    <3> QED BY <2>1, <2>3, <3>1, <3>2 DEF LimiterFits
  <2> QED BY <2>2, <2>3
<1>6. ASSUME NEW p \in Partitions
      PROVE  StaysWhileHeld(after, p, rest[p])
  <2>1. StaysWhileHeld(all, p, holders[p])
    BY <1>1
  <2> QED BY <1>2, <1>3, <1>4, <2>1 DEF StaysWhileHeld
<1> QED
  BY <1>1, <1>2, <1>5, <1>6 DEF LimitersFit, after, rest

-----------------------------------------------------------------------------
(* The invariant of the requests.                                          *)

Progress == {"coming", "asking", "askingAgain", "authenticating", "serving",
             "leaving", "done"}

PolicyNames == Policies \cup {Global, "disabled"}
Positive == Nat \ {0}
Selections == [last : Matches, rejected : Matches, stop : BOOLEAN]
Leases == [Phases -> SUBSET Partitions]
Answers == Seq([rule : Rules, action : Actions])
Dialogues == [Phases -> Answers]

Typed ==
  /\ pc \in [Requests -> Progress]
  /\ policy \in [Requests -> PolicyNames]
  /\ phase \in [Requests -> Phases]
  /\ link \in [Requests -> Positive]
  /\ selection \in [Requests -> Selections]
  /\ leases \in [Requests -> Leases]
  /\ match \in [Requests -> Matches]
  /\ active \in [Matches -> Int]
  /\ asked \in [Requests -> Dialogues]

(* The links before the next one.                                          *)
Behind(q) == {Chain[phase[q]][i].link : i \in {j \in 1..Len(Chain[phase[q]]) :
                                                 j < link[q]}}

(* An endpoint without limits is never asked about; before a chain is      *)
(* asked nothing of it is held, and then only permits of links behind.     *)
WellHeld(q) ==
  /\ policy[q] = "disabled" => pc[q] \in {"coming", "serving", "done"}
  /\ \A ph \in Phases : \A p \in leases[q][ph] : p.phase = ph
  /\ pc[q] = "coming" => leases[q] = [ph \in Phases |-> {}]
  /\ pc[q] = "authenticating" => leases[q]["PostAuth"] = {}
  /\ Asking(q) => /\ \A p \in leases[q][phase[q]] : p.rule \in Behind(q)
                  /\ phase[q] = "PreAuth" => leases[q]["PostAuth"] = {}

Holders == [p \in Partitions |->
              {q \in Requests : \E ph \in Phases : p \in leases[q][ph]}]

PermitInv ==
  /\ Typed
  /\ \A q \in Requests : WellHeld(q)
  /\ LimitersFit(limiters, Holders)

LEMMA TypedOnes ==
  ASSUME Typed, NEW q \in Requests
  PROVE  /\ NoSelection \in Selections
         /\ "PreAuth" \in Phases /\ "PostAuth" \in Phases
         /\ 1 \in Positive /\ link[q] + 1 \in Positive
         /\ \A ph \in Phases : /\ [leases[q] EXCEPT ![ph] = {}] \in Leases
                              /\ [asked[q] EXCEPT ![ph] = <<>>] \in Dialogues
         /\ selection[q].last \in Matches
         /\ \A m \in Matches : active[m] + 1 \in Int /\ active[m] - 1 \in Int
<1>1. NoSelection \in Selections
  BY DEF NoSelection, Selections, Matches
<1>2. "PreAuth" \in Phases /\ "PostAuth" \in Phases
  BY DEF Phases
<1>3. 1 \in Positive /\ link[q] + 1 \in Positive
  BY DEF Typed, Positive
<1>4. \A ph \in Phases : [leases[q] EXCEPT ![ph] = {}] \in Leases
  BY DEF Typed, Leases
<1>5. <<>> \in Answers
  BY DEF Answers
<1>6. \A ph \in Phases : [asked[q] EXCEPT ![ph] = <<>>] \in Dialogues
  BY <1>5 DEF Typed, Dialogues
<1>7. selection[q].last \in Matches
  BY DEF Typed, Selections
<1>8. \A m \in Matches : active[m] + 1 \in Int /\ active[m] - 1 \in Int
  BY DEF Typed
<1> QED
  BY <1>1, <1>2, <1>3, <1>4, <1>6, <1>7, <1>8

LEMMA SelectionTyped ==
  ASSUME Typed, NEW q \in Requests, NEW action \in Actions \ {"skip"},
         NEW rejected \in BOOLEAN, Link(q) \in Rules, Select(q, action, rejected)
  PROVE  selection' \in [Requests -> Selections]
<1>1. Rule[Link(q)].shortCircuit \in BOOLEAN
  BY RuleFacts
<1>2. [rule |-> Link(q), action |-> action] \in Matches
  BY DEF Matches
<1>3. selection[q] \in [last : Matches, rejected : Matches, stop : BOOLEAN]
  BY DEF Typed, Selections
<1> DEFINE s == [last |-> [rule |-> Link(q), action |-> action],
                 rejected |-> IF rejected THEN [rule |-> Link(q), action |-> action]
                              ELSE selection[q].rejected,
                 stop |-> \/ selection[q].stop \/ Rule[Link(q)].shortCircuit
                          \/ action \in {"allow", "deny", "limitAndStop"}]
<1>4. s \in Selections
  BY <1>1, <1>2, <1>3 DEF Selections
<1>5. selection' = [selection EXCEPT ![q] = s]
  BY DEF Select
<1> HIDE DEF s
<1> QED BY <1>4, <1>5 DEF Typed

LEMMA AskedTyped ==
  ASSUME Typed, NEW q \in Requests, NEW action, Evaluate(q, action)
  PROVE  /\ asked' \in [Requests -> Dialogues]
         /\ action \in Actions
         /\ Link(q) \in Rules
<1>1. Link(q) \in Rules /\ action \in Actions
  BY RuleFacts DEF Evaluate
<1>2. phase[q] \in Phases /\ asked[q] \in Dialogues
      /\ asked[q][phase[q]] \in Answers
  BY DEF Typed, Dialogues
<1> DEFINE said == Append(asked[q][phase[q]], [rule |-> Link(q), action |-> action])
<1>3. said \in Answers
  BY <1>1, <1>2 DEF Answers
<1>4. asked' = [asked EXCEPT ![q] = [asked[q] EXCEPT ![phase[q]] = said]]
  BY DEF Evaluate
<1> HIDE DEF said
<1>5. [asked[q] EXCEPT ![phase[q]] = said] \in Dialogues
  BY <1>2, <1>3 DEF Dialogues
<1> QED BY <1>1, <1>4, <1>5 DEF Typed

LEMMA TypedStep ==
  ASSUME Typed, NEW q \in Requests, RequestStep(q)
  PROVE  Typed'
<1>1. CASE Arrive(q)
  BY <1>1, TypedOnes DEF Arrive, Ask, Typed, Progress
<1>2. CASE ClearSelection(q)
  BY <1>2, TypedOnes DEF ClearSelection, Typed
<1>3. CASE PassBy(q)
  BY <1>3, TypedOnes DEF PassBy, Typed
<1>4. CASE Skip(q)
  BY <1>4, AskedTyped, TypedOnes DEF Skip, Typed
<1>5. CASE Allow(q)
  <2>1. "allow" \in Actions \ {"skip"} /\ Link(q) \in Rules /\ FALSE \in BOOLEAN
    BY <1>5 DEF Allow, Evaluate, Actions
  <2>2. selection' \in [Requests -> Selections] /\ asked' \in [Requests -> Dialogues]
    BY <1>5, <2>1, AskedTyped, SelectionTyped DEF Allow
  <2> QED BY <1>5, <2>2, TypedOnes DEF Allow, Typed
<1>6. CASE Fail(q)
  <2>1. [leases[q] EXCEPT ![phase[q]] = {}] \in Leases
    BY TypedOnes DEF Typed
  <2> QED BY <1>6, <2>1 DEF Fail, Typed, Progress
<1>7. ASSUME NEW action \in Actions, Acquire(q, action)
      PROVE  Typed'
  <2>1. action \in Actions \ {"skip"} /\ Link(q) \in Rules /\ FALSE \in BOOLEAN
    BY <1>7 DEF Acquire, Evaluate
  <2>2. phase[q] \in Phases
    BY DEF Typed
  <2> DEFINE p == Partition(phase[q], Link(q), action)
             l == [leases[q] EXCEPT ![phase[q]] = @ \cup {p}]
  <2>3. p \in Partitions
    BY <2>1, <2>2, PartitionOf
  <2>4. l \in Leases
    BY <2>2, <2>3 DEF Typed, Leases
  <2>5. selection' \in [Requests -> Selections] /\ asked' \in [Requests -> Dialogues]
    BY <1>7, <2>1, AskedTyped, SelectionTyped DEF Acquire
  <2>6. leases' = [leases EXCEPT ![q] = l]
    BY <1>7 DEF Acquire
  <2> HIDE DEF l
  <2> QED BY <1>7, <2>4, <2>5, <2>6, TypedOnes DEF Acquire, Typed
<1>8. ASSUME NEW action \in Actions, Refuse(q, action)
      PROVE  Typed'
  <2>1. action \in Actions \ {"skip"} /\ Link(q) \in Rules /\ TRUE \in BOOLEAN
    BY <1>8 DEF Refuse, Evaluate
  <2>2. pc' \in [Requests -> Progress]
    BY <1>8 DEF Refuse, Typed, Progress
  <2>3. [leases[q] EXCEPT ![phase[q]] = {}] \in Leases
    BY TypedOnes DEF Typed
  <2>4. selection' \in [Requests -> Selections] /\ asked' \in [Requests -> Dialogues]
    BY <1>8, <2>1, AskedTyped, SelectionTyped DEF Refuse
  <2> QED BY <1>8, <2>2, <2>3, <2>4, TypedOnes DEF Refuse, Typed
<1>9. CASE Admit(q)
  BY <1>9, TypedOnes DEF Admit, Typed, Progress
<1>10. CASE Authenticate(q)
  BY <1>10, TypedOnes DEF Authenticate, Ask, Typed, Progress
<1>11. CASE AnswerEarly(q)
  BY <1>11 DEF AnswerEarly, Typed, Progress
<1>12. CASE AdmitPostAuth(q)
  BY <1>12 DEF AdmitPostAuth, Typed, Progress
<1>13. CASE Respond(q)
  BY <1>13, TypedOnes DEF Respond, Typed, Progress
<1>14. CASE Leave(q)
  BY <1>14, TypedOnes DEF Leave, Typed, Progress
<1> QED
  BY <1>1, <1>2, <1>3, <1>4, <1>5, <1>6, <1>7, <1>8, <1>9, <1>10, <1>11, <1>12,
     <1>13, <1>14 DEF RequestStep

LEMMA OthersUnchanged ==
  ASSUME Typed, NEW q \in Requests, RequestStep(q)
  PROVE  /\ policy' = policy
         /\ \A u \in Requests \ {q} :
              /\ pc'[u] = pc[u] /\ phase'[u] = phase[u] /\ link'[u] = link[u]
              /\ leases'[u] = leases[u] /\ match'[u] = match[u]
              /\ selection'[u] = selection[u] /\ asked'[u] = asked[u]
<1> USE DEF Typed
<1>1. CASE Arrive(q)
  BY <1>1 DEF Arrive, Ask
<1>2. CASE ClearSelection(q) \/ PassBy(q)
  BY <1>2 DEF ClearSelection, PassBy
<1>3. CASE Skip(q) \/ Allow(q)
  BY <1>3 DEF Skip, Allow, Evaluate, Select
<1>4. CASE Fail(q)
  BY <1>4 DEF Fail
<1>5. ASSUME NEW action, Acquire(q, action) \/ Refuse(q, action)
      PROVE  /\ policy' = policy
             /\ \A u \in Requests \ {q} :
                  /\ pc'[u] = pc[u] /\ phase'[u] = phase[u] /\ link'[u] = link[u]
                  /\ leases'[u] = leases[u] /\ match'[u] = match[u]
                  /\ selection'[u] = selection[u] /\ asked'[u] = asked[u]
  BY <1>5 DEF Acquire, Refuse, Evaluate, Select
<1>6. CASE Admit(q) \/ Authenticate(q) \/ AnswerEarly(q) \/ AdmitPostAuth(q)
  BY <1>6 DEF Admit, Authenticate, AnswerEarly, AdmitPostAuth, Ask
<1>7. CASE Respond(q) \/ Leave(q)
  BY <1>7 DEF Respond, Leave
<1> QED
  BY <1>1, <1>2, <1>3, <1>4, <1>5, <1>6, <1>7 DEF RequestStep

(* The next link is none of those behind.                                  *)
LEMMA LinkFacts ==
  ASSUME Typed, NEW q \in Requests, Link(q) \in Rules \cup {Reset}
  PROVE  /\ link[q] \in 1..Len(Chain[phase[q]])
         /\ Link(q) = Chain[phase[q]][link[q]].link
         /\ Link(q) \in Links(phase[q])
         /\ Link(q) \notin Behind(q)
         /\ link[q] = 1 <=> Link(q) = Reset
<1>1. phase[q] \in Phases /\ link[q] \in Nat \ {0}
  BY DEF Typed, Positive
<1>2. Link(q) # None
  BY LinkNames DEF Reset, None
<1>3. link[q] \in 1..Len(Chain[phase[q]]) /\ Link(q) = Chain[phase[q]][link[q]].link
  BY <1>1, <1>2, ChainInOrder DEF Link
<1> QED
  BY <1>1, <1>3, ChainInOrder DEF Behind

LEMMA BehindGrows ==
  ASSUME Typed, NEW q \in Requests, Link(q) \in Rules \cup {Reset},
         phase' = phase, link' = [link EXCEPT ![q] = @ + 1]
  PROVE  Behind(q)' = Behind(q) \cup {Link(q)}
<1>1. /\ link[q] \in 1..Len(Chain[phase[q]])
      /\ Link(q) = Chain[phase[q]][link[q]].link
      /\ link'[q] = link[q] + 1
  BY LinkFacts DEF Typed
<1>2. phase[q] \in Phases /\ Len(Chain[phase[q]]) \in Nat
  BY ChainInOrder DEF Typed
<1>3. \A j \in 1..Len(Chain[phase[q]]) : j < link'[q] <=> j < link[q] \/ j = link[q]
  BY <1>1, <1>2
<1> QED
  BY <1>1, <1>3 DEF Behind

LEMMA WellHeldStep ==
  ASSUME Typed, Typed', \A u \in Requests : WellHeld(u),
         NEW q \in Requests, RequestStep(q)
  PROVE  \A u \in Requests : WellHeld(u)'
<1>1. ASSUME NEW u \in Requests \ {q} PROVE WellHeld(u)'
  <2>1. /\ policy'[u] = policy[u] /\ pc'[u] = pc[u] /\ phase'[u] = phase[u]
        /\ link'[u] = link[u] /\ leases'[u] = leases[u]
    BY OthersUnchanged
  <2>2. Behind(u)' = Behind(u)
    BY <2>1 DEF Behind
  <2>3. WellHeld(u)
    OBVIOUS
  <2> HIDE DEF Behind
  <2> QED BY <2>1, <2>2, <2>3 DEF WellHeld, Asking
<1>2. WellHeld(q)'
  <2>0. WellHeld(q) /\ phase[q] \in Phases /\ leases[q] \in [Phases -> SUBSET Partitions]
    BY DEF Typed, Leases
  <2>1. CASE Arrive(q)
    <3>1. /\ leases' = leases /\ policy' = policy
          /\ leases[q] = [ph \in Phases |-> {}]
          /\ \/ policy[q] = "disabled" /\ pc'[q] = "serving"
             \/ policy[q] # "disabled" /\ pc'[q] = "asking" /\ phase'[q] = "PreAuth"
      BY <2>0, <2>1 DEF Arrive, Ask, Typed, WellHeld
    <3> QED BY <3>1 DEF WellHeld, Asking, Phases
  <2>2. CASE ClearSelection(q) \/ PassBy(q) \/ Skip(q) \/ Allow(q)
    <3>1. /\ Link(q) \in Rules \cup {Reset} /\ phase' = phase
          /\ link' = [link EXCEPT ![q] = @ + 1]
          /\ pc' = pc /\ leases' = leases /\ policy' = policy
      BY <2>2 DEF ClearSelection, PassBy, Skip, Allow, Evaluate
    <3>2. Behind(q) \subseteq Behind(q)'
      BY <3>1, BehindGrows
    <3> HIDE DEF Behind
    <3> QED BY <2>0, <3>1, <3>2 DEF WellHeld, Asking
  <2>3. ASSUME NEW action \in Actions, Acquire(q, action)
        PROVE  WellHeld(q)'
    <3> DEFINE p == Partition(phase[q], Link(q), action)
    <3>1. /\ Link(q) \in Rules /\ phase' = phase
          /\ link' = [link EXCEPT ![q] = @ + 1]
          /\ pc' = pc /\ policy' = policy
          /\ Asking(q)
          /\ leases' = [leases EXCEPT ![q][phase[q]] = @ \cup {p}]
      BY <2>3 DEF Acquire, Evaluate
    <3>2. Behind(q)' = Behind(q) \cup {Link(q)}
      BY <3>1, BehindGrows
    <3>3. p.phase = phase[q] /\ p.rule = Link(q)
      BY <2>0, <3>1, PartitionOf
    <3>4. /\ leases'[q] \in [Phases -> SUBSET Partitions]
          /\ leases'[q][phase[q]] = leases[q][phase[q]] \cup {p}
          /\ \A ph \in Phases \ {phase[q]} : leases'[q][ph] = leases[q][ph]
      BY <2>0, <3>1 DEF Typed, Leases
    <3> HIDE DEF p
    <3> QED BY <2>0, <3>1, <3>2, <3>3, <3>4 DEF WellHeld, Asking, Phases
  <2>4. CASE Fail(q) \/ \E action \in Actions : Refuse(q, action)
    <3>1. /\ Asking(q) /\ phase' = phase /\ policy' = policy
          /\ pc'[q] \in {"askingAgain", "leaving", "done"}
          /\ pc'[q] = "askingAgain" => phase[q] = "PostAuth"
          /\ leases' = [leases EXCEPT ![q][phase[q]] = {}]
      BY <2>4 DEF Fail, Refuse, Evaluate, Typed
    <3>2. /\ leases'[q] \in [Phases -> SUBSET Partitions]
          /\ leases'[q][phase[q]] = {}
          /\ \A ph \in Phases \ {phase[q]} : leases'[q][ph] = leases[q][ph]
      BY <2>0, <3>1 DEF Typed, Leases
    <3> QED BY <2>0, <3>1, <3>2 DEF WellHeld, Asking, Phases
  <2>5. CASE Admit(q)
    <3>1. pc'[q] = "authenticating" /\ UNCHANGED <<policy, leases>>
          /\ Asking(q) /\ phase[q] = "PreAuth"
      BY <2>5 DEF Admit, Typed
    <3> QED BY <2>0, <3>1 DEF WellHeld, Asking
  <2>6. CASE Authenticate(q)
    <3>1. pc'[q] = "asking" /\ UNCHANGED <<policy, leases>>
          /\ phase'[q] = "PostAuth" /\ pc[q] = "authenticating"
      BY <2>6 DEF Authenticate, Ask, Typed
    <3> QED BY <2>0, <3>1 DEF WellHeld, Asking
  <2>7. CASE AnswerEarly(q) \/ AdmitPostAuth(q)
    <3>1. /\ pc'[q] \in {"leaving", "serving"} /\ UNCHANGED <<policy, leases>>
          /\ pc[q] \in {"authenticating", "asking", "askingAgain"}
      BY <2>7 DEF AnswerEarly, AdmitPostAuth, Typed, Asking
    <3> QED BY <2>0, <3>1 DEF WellHeld, Asking
  <2>8. CASE Respond(q) \/ Leave(q)
    <3>1. /\ pc'[q] \in {"leaving", "done"} /\ policy' = policy
          /\ policy[q] = "disabled" => pc'[q] = "done"
          /\ \A ph \in Phases : leases'[q][ph] \subseteq leases[q][ph]
      BY <2>0, <2>8 DEF Respond, Leave, Typed, Phases, WellHeld
    <3> QED BY <2>0, <3>1 DEF WellHeld, Asking
  <2> QED
    BY <2>1, <2>2, <2>3, <2>4, <2>5, <2>6, <2>7, <2>8 DEF RequestStep
<1> QED BY <1>1, <1>2

(* A request gives back what it holds of a phase, with or without a        *)
(* limiter made just before.                                               *)
LEMMA ReturnStep ==
  ASSUME Typed, NEW q \in Requests, WellHeld(q), NEW ph \in Phases,
         NEW all, LimitersFit(all, Holders),
         limiters' = Returned(all, leases[q][ph]),
         leases' = [leases EXCEPT ![q][ph] = {}]
  PROVE  LimitersFit(limiters, Holders)'
<1> DEFINE held == leases[q][ph]
           rest == [p \in Partitions |-> IF p \in held THEN Holders[p] \ {q}
                                                       ELSE Holders[p]]
<1>1. /\ leases[q] \in [Phases -> SUBSET Partitions]
      /\ \A p \in held : q \in Holders[p]
      /\ held \in SUBSET Partitions
      /\ Holders \in [Partitions -> SUBSET Requests]
  BY DEF Typed, Leases, Holders
<1>2. /\ \A x \in Phases \ {ph} : leases'[q][x] = leases[q][x]
      /\ leases'[q][ph] = {}
      /\ \A u \in Requests \ {q} : leases'[u] = leases[u]
  BY <1>1 DEF Typed
<1>3. \A x \in Phases : \A p \in leases[q][x] : p.phase = x
  BY DEF WellHeld
<1>4. ASSUME NEW p \in Partitions
      PROVE  Holders'[p] = rest[p]
  <2>1. Holders'[p] = {u \in Requests : \E x \in Phases : p \in leases'[u][x]}
    BY DEF Holders
  <2>2. Holders[p] = {u \in Requests : \E x \in Phases : p \in leases[u][x]}
    BY DEF Holders
  <2>3. CASE p \in held
    <3>1. p.phase = ph
      BY <1>3, <2>3
    <3>2. ~\E x \in Phases : p \in leases'[q][x]
      BY <1>2, <1>3, <3>1
    <3> QED BY <1>2, <2>1, <2>2, <2>3, <3>2
  <2>4. CASE p \notin held
    BY <1>2, <2>1, <2>2, <2>4
  <2> QED BY <2>3, <2>4
<1>5. Holders' = rest
  BY <1>4 DEF Holders
<1>6. LimitersFit(Returned(all, held), rest)
  BY <1>1, ReturningFits
<1> QED
  BY <1>5, <1>6 DEF LimitersFit, LimiterFits, StaysWhileHeld

LEMMA LimitersStep ==
  ASSUME PermitInv, NEW q \in Requests, RequestStep(q)
  PROVE  LimitersFit(limiters, Holders)'
<1>1. Typed /\ WellHeld(q) /\ LimitersFit(limiters, Holders) /\ phase[q] \in Phases
  BY DEF PermitInv, Typed
<1>2. Holders \in [Partitions -> SUBSET Requests]
  BY DEF Holders
<1>3. CASE UNCHANGED <<limiters, leases>>
  <2>1. Holders' = Holders
    BY <1>3 DEF Holders
  <2> QED BY <1>1, <1>3, <2>1 DEF LimitersFit, LimiterFits, StaysWhileHeld
<1>4. ASSUME NEW action \in Actions, Acquire(q, action)
      PROVE  LimitersFit(limiters, Holders)'
  <2> DEFINE p == Partition(phase[q], Link(q), action)
             all == WithLimiter(p, action)
             more == [Holders EXCEPT ![p] = @ \cup {q}]
  <2>1. /\ Link(q) \in Rules /\ Asking(q)
        /\ all[p].left > 0
        /\ limiters' = Taken(all, p)
        /\ leases' = [leases EXCEPT ![q][phase[q]] = @ \cup {p}]
    BY <1>4 DEF Acquire, Evaluate
  <2>2. p \in Partitions /\ p.phase = phase[q] /\ p.rule = Link(q)
    BY <1>1, <2>1, PartitionOf
  <2>3. LimitersFit(all, Holders) /\ p \in DOMAIN all
    BY <1>1, <2>1, MakingFits
  <2>4. q \notin Holders[p]
    <3>1. \A ph \in Phases : p \in leases[q][ph] => ph = phase[q]
      BY <1>1, <2>2 DEF WellHeld
    <3>2. p \in leases[q][phase[q]] => Link(q) \in Behind(q)
      BY <1>1, <2>1, <2>2 DEF WellHeld
    <3>3. Link(q) \notin Behind(q)
      BY <1>1, <2>1, LinkFacts
    <3> HIDE DEF p
    <3> QED BY <2>2, <3>1, <3>2, <3>3 DEF Holders
  <2>5. LimitersFit(Taken(all, p), more)
    <3> HIDE DEF p, all
    <3> QED BY <1>2, <2>1, <2>3, <2>4, TakingFits
  <2>6. Holders' = more
    <3>1. leases[q] \in [Phases -> SUBSET Partitions]
      BY <1>1 DEF Typed, Leases
    <3>2. /\ leases'[q][phase[q]] = leases[q][phase[q]] \cup {p}
          /\ \A ph \in Phases \ {phase[q]} : leases'[q][ph] = leases[q][ph]
          /\ \A u \in Requests \ {q} : leases'[u] = leases[u]
      BY <1>1, <2>1, <3>1 DEF Typed
    <3> HIDE DEF p, all
    <3>3. ASSUME NEW x \in Partitions
          PROVE  Holders'[x] = more[x]
      <4>1. Holders'[x] = {u \in Requests : \E ph \in Phases : x \in leases'[u][ph]}
        BY DEF Holders
      <4>2. Holders[x] = {u \in Requests : \E ph \in Phases : x \in leases[u][ph]}
        BY DEF Holders
      <4>3. more[x] = IF x = p THEN Holders[x] \cup {q} ELSE Holders[x]
        BY <1>2, <2>2
      <4>4. \A u \in Requests : \A ph \in Phases :
              x \in leases'[u][ph] <=>
                x \in leases[u][ph] \/ (u = q /\ ph = phase[q] /\ x = p)
        BY <3>2
      <4>5. Holders'[x] = {u \in Requests : (\E ph \in Phases : x \in leases[u][ph])
                                            \/ (u = q /\ x = p)}
        BY <1>1, <4>1, <4>4
      <4> HIDE DEF more
      <4> QED BY <4>2, <4>3, <4>5
    <3>4. more \in [Partitions -> SUBSET Requests] /\ DOMAIN Holders' = Partitions
      BY <1>2, <2>2 DEF Holders
    <3> QED BY <3>3, <3>4 DEF Holders
  <2> HIDE DEF more, p, all
  <2> QED BY <2>1, <2>5, <2>6 DEF LimitersFit, LimiterFits, StaysWhileHeld
<1>5. ASSUME NEW action \in Actions, Refuse(q, action)
      PROVE  LimitersFit(limiters, Holders)'
  <2> DEFINE p == Partition(phase[q], Link(q), action)
             all == WithLimiter(p, action)
  <2>1. /\ Link(q) \in Rules
        /\ limiters' = Returned(all, leases[q][phase[q]])
        /\ leases' = [leases EXCEPT ![q][phase[q]] = {}]
    BY <1>5 DEF Refuse, Evaluate
  <2>2. LimitersFit(all, Holders)
    BY <1>1, <2>1, MakingFits
  <2> HIDE DEF all
  <2> QED BY <1>1, <2>1, <2>2, ReturnStep
<1>6. CASE Fail(q)
  BY <1>1, <1>6, ReturnStep DEF Fail
<1>7. CASE Respond(q)
  BY <1>1, <1>7, ReturnStep DEF Respond, Phases
<1>8. CASE Leave(q)
  BY <1>1, <1>8, ReturnStep DEF Leave, Phases
<1> QED
  BY <1>3, <1>4, <1>5, <1>6, <1>7, <1>8
     DEF RequestStep, Arrive, ClearSelection, PassBy, Skip, Allow, Admit,
         Authenticate, AnswerEarly, AdmitPostAuth

LEMMA LimiterTimersStep ==
  ASSUME PermitInv, NEW p \in DOMAIN limiters, Replenish(p) \/ Evict(p)
  PROVE  LimitersFit(limiters, Holders)'
<1>1. Holders' = Holders
  BY DEF Replenish, Evict, Holders
<1>2. /\ DOMAIN limiters \subseteq Partitions
      /\ \A x \in DOMAIN limiters : LimiterFits(limiters[x], x, Holders[x])
      /\ \A x \in Partitions : StaysWhileHeld(limiters, x, Holders[x])
  BY DEF PermitInv, LimitersFit
<1>3. CASE Replenish(p)
  <2>1. limiters[p] \in [kind : Kinds, left : 0..Permits] /\ limiters[p].kind = "bucket"
    BY <1>2, <1>3 DEF Replenish, LimiterFits
  <2>2. /\ DOMAIN limiters' = DOMAIN limiters
        /\ \A x \in DOMAIN limiters \ {p} : limiters'[x] = limiters[x]
        /\ limiters'[p] = [limiters[p] EXCEPT !.left = Permits]
    BY <1>3 DEF Replenish
  <2>3. /\ limiters'[p] \in [kind : Kinds, left : 0..Permits]
        /\ limiters'[p].kind = "bucket"
    BY <2>1, <2>2, RateLimitingAssumption
  <2>4. LimiterFits(limiters'[p], p, Holders[p])
    BY <1>2, <2>1, <2>3 DEF LimiterFits
  <2>5. \A x \in Partitions : StaysWhileHeld(limiters', x, Holders[x])
    BY <1>2, <2>1, <2>2, <2>3 DEF StaysWhileHeld
  <2>6. LimitersFit(limiters', Holders)
    BY <1>2, <2>2, <2>4, <2>5 DEF LimitersFit
  <2> QED BY <1>1, <2>6 DEF LimitersFit, LimiterFits, StaysWhileHeld
<1>4. CASE Evict(p)
  <2>1. /\ DOMAIN limiters' = DOMAIN limiters \ {p}
        /\ \A x \in DOMAIN limiters' : limiters'[x] = limiters[x]
        /\ limiters[p].left = Permits
    BY <1>4 DEF Evict
  <2>2. StaysWhileHeld(limiters', p, Holders[p])
    <3> SUFFICES ASSUME Rule[p.rule].kind = "concurrency", Holders[p] # {}
                 PROVE  FALSE
      BY <1>2 DEF StaysWhileHeld
    <3>1. LimiterFits(limiters[p], p, Holders[p]) /\ limiters[p].kind = "concurrency"
          /\ IsFiniteSet(Holders[p])
      BY <1>2 DEF StaysWhileHeld
    <3>2. Cardinality(Holders[p]) \in Nat /\ Cardinality(Holders[p]) # 0
      BY <3>1, FS_CardinalityType, FS_EmptySet
    <3> QED BY <2>1, <3>1, <3>2, RateLimitingAssumption DEF LimiterFits
  <2>3. \A x \in Partitions \ {p} : StaysWhileHeld(limiters', x, Holders[x])
    BY <1>2, <2>1 DEF StaysWhileHeld
  <2>4. LimitersFit(limiters', Holders)
    BY <1>2, <2>1, <2>2, <2>3 DEF LimitersFit
  <2> QED BY <1>1, <2>4 DEF LimitersFit, LimiterFits, StaysWhileHeld
<1> QED BY <1>3, <1>4

LEMMA HoldingsStay ==
  ASSUME UNCHANGED <<pc, policy, phase, link, leases>>,
         \A q \in Requests : WellHeld(q)
  PROVE  \A q \in Requests : WellHeld(q)'
<1> SUFFICES ASSUME NEW q \in Requests PROVE WellHeld(q)'
  OBVIOUS
<1>1. Behind(q)' = Behind(q)
  BY DEF Behind
<1>2. WellHeld(q)
  OBVIOUS
<1> QED BY <1>1, <1>2 DEF WellHeld, Asking

LEMMA PermitInvInductive ==
  /\ Init => PermitInv
  /\ PermitInv /\ [Next]_vars => PermitInv'
<1>1. ASSUME Init PROVE PermitInv
  <2>1. Typed
    <3>1. /\ NoSelection \in Selections /\ NoMatch \in Matches /\ 1 \in Positive
          /\ [ph \in Phases |-> {}] \in Leases
      BY DEF NoSelection, Selections, Matches, Positive, Leases
    <3>2. <<>> \in Answers
      BY DEF Answers
    <3>3. [ph \in Phases |-> <<>>] \in Dialogues
      BY <3>2 DEF Dialogues
    <3>4. "coming" \in Progress /\ "PreAuth" \in Phases
      BY DEF Progress, Phases
    <3> QED BY <1>1, <3>1, <3>3, <3>4 DEF Init, Typed, PolicyNames
  <2>2. \A q \in Requests : WellHeld(q)
    BY <1>1 DEF Init, WellHeld, Asking
  <2>3. LimitersFit(limiters, Holders)
    <3>1. \A p \in Partitions : Holders[p] = {}
      BY <1>1 DEF Init, Holders
    <3>2. DOMAIN limiters = {}
      BY <1>1 DEF Init
    <3> QED BY <3>1, <3>2, FS_EmptySet DEF LimitersFit, StaysWhileHeld
  <2> QED BY <2>1, <2>2, <2>3 DEF PermitInv
<1>2. ASSUME PermitInv, [Next]_vars PROVE PermitInv'
  <2>1. ASSUME NEW q \in Requests, RequestStep(q) PROVE PermitInv'
    BY <1>2, <2>1, TypedStep, WellHeldStep, LimitersStep DEF PermitInv
  <2>2. ASSUME NEW p \in DOMAIN limiters, Replenish(p) \/ Evict(p) PROVE PermitInv'
    <3>1. UNCHANGED <<pc, policy, phase, link, selection, leases, match, active,
                      asked>>
      BY <2>2 DEF Replenish, Evict
    <3>2. Typed'
      BY <1>2, <3>1 DEF PermitInv, Typed
    <3>3. \A q \in Requests : WellHeld(q)'
      BY <1>2, <3>1, HoldingsStay DEF PermitInv
    <3>4. LimitersFit(limiters, Holders)'
      BY <1>2, <2>2, LimiterTimersStep
    <3> QED BY <3>2, <3>3, <3>4 DEF PermitInv
  <2>3. CASE UNCHANGED vars
    <3>1. Typed' /\ \A q \in Requests : WellHeld(q)'
      BY <1>2, <2>3, HoldingsStay DEF PermitInv, Typed, vars
    <3>2. Holders' = Holders /\ limiters' = limiters
      BY <2>3 DEF Holders, vars
    <3>3. LimitersFit(limiters, Holders)'
      BY <1>2, <3>2 DEF PermitInv, LimitersFit, LimiterFits, StaysWhileHeld
    <3> QED BY <3>1, <3>3 DEF PermitInv
  <2> QED BY <1>2, <2>1, <2>2, <2>3 DEF Next
<1> QED BY <1>1, <1>2

THEOREM PermitInvariant == Spec => []PermitInv
BY PermitInvInductive, PTL DEF Spec

(* A limiter never hands out more permits than it has and never holds more *)
(* than its limit, and the records of requests stay well formed, whatever  *)
(* the rules say and in whatever order requests pass the middlewares.      *)
THEOREM TypeCorrect == Spec => []TypeOK
<1>1. PermitInv => TypeOK
  BY DEF PermitInv, Typed, Progress, Selections, Leases, LimitersFit, LimiterFits,
         TypeOK
<1> QED BY <1>1, PermitInvariant, PTL

(* What a concurrency limiter has left and what requests hold of it add up *)
(* to its permits, for any rules and any number of requests: refused,      *)
(* failed and repeated attempts lose none and return none twice.           *)
THEOREM PermitsAreConserved == Spec => []PermitsComeBack
<1>1. PermitInv => PermitsComeBack
  <2> SUFFICES ASSUME PermitInv, NEW p \in DOMAIN limiters,
                      limiters[p].kind = "concurrency"
               PROVE  limiters[p].left =
                        Permits - Cardinality({q \in Requests : \E ph \in Phases :
                                                 p \in leases[q][ph]})
    BY DEF PermitsComeBack
  <2>1. p \in Partitions /\ LimiterFits(limiters[p], p, Holders[p])
    BY DEF PermitInv, LimitersFit
  <2>2. Holders[p] = {q \in Requests : \E ph \in Phases : p \in leases[q][ph]}
    BY <2>1 DEF Holders
  <2> QED BY <2>1, <2>2 DEF LimiterFits
<1> QED BY <1>1, PermitInvariant, PTL

-----------------------------------------------------------------------------
(* The gauge of active leases.                                             *)

InFlight(q) ==
  \/ pc[q] \in {"authenticating", "leaving"}
  \/ pc[q] = "serving" /\ policy[q] # "disabled"
  \/ Asking(q) /\ phase[q] = "PostAuth"

Admitted == [m \in Matches |-> {q \in Requests : match[q] = m /\ InFlight(q)}]

GaugeInv ==
  \A m \in Matches :
    IsFiniteSet(Admitted[m]) /\ active[m] = Cardinality(Admitted[m])

LEMMA GaugeStep ==
  ASSUME PermitInv, PermitInv', GaugeInv, NEW q \in Requests, RequestStep(q)
  PROVE  GaugeInv'
<1>1. /\ Typed /\ WellHeld(q) /\ policy' = policy
      /\ \A u \in Requests \ {q} :
           /\ pc'[u] = pc[u] /\ phase'[u] = phase[u] /\ match'[u] = match[u]
  BY OthersUnchanged DEF PermitInv
<1>2. \A u \in Requests \ {q} : InFlight(u)' <=> InFlight(u)
  BY <1>1 DEF InFlight, Asking
<1>3. CASE UNCHANGED <<active, match>> /\ (InFlight(q)' <=> InFlight(q))
  <2>1. Admitted' = Admitted
    BY <1>2, <1>3 DEF Admitted
  <2> QED BY <1>3, <2>1 DEF GaugeInv
<1>4. CASE Admit(q)
  <2> DEFINE m == selection[q].last
  <2>1. /\ match' = [match EXCEPT ![q] = m]
        /\ active' = [active EXCEPT ![m] = @ + 1]
        /\ ~InFlight(q) /\ InFlight(q)'
        /\ m \in Matches
    BY <1>1, <1>4, TypedOnes DEF Admit, InFlight, Asking, Typed
  <2> HIDE DEF m
  <2>2. /\ q \notin Admitted[m]
        /\ Admitted'[m] = Admitted[m] \cup {q}
        /\ \A x \in Matches \ {m} : Admitted'[x] = Admitted[x]
    BY <1>1, <1>2, <2>1 DEF Admitted, Typed
  <2>3. /\ IsFiniteSet(Admitted'[m])
        /\ Cardinality(Admitted'[m]) = Cardinality(Admitted[m]) + 1
    <3>1. IsFiniteSet(Admitted[m])
      BY <2>1 DEF GaugeInv
    <3> QED BY <2>2, <3>1, FS_AddElement
  <2>4. /\ active'[m] = active[m] + 1
        /\ \A x \in Matches \ {m} : active'[x] = active[x]
    BY <1>1, <2>1 DEF Typed
  <2>5. \A x \in Matches : IsFiniteSet(Admitted'[x])
                           /\ active'[x] = Cardinality(Admitted'[x])
    BY <2>2, <2>3, <2>4 DEF GaugeInv
  <2> QED BY <2>5 DEF GaugeInv
<1>5. CASE Leave(q)
  <2> DEFINE m == match[q]
  <2>1. /\ match' = match
        /\ active' = [active EXCEPT ![m] = @ - 1]
        /\ InFlight(q) /\ ~InFlight(q)'
        /\ m \in Matches
    BY <1>1, <1>5 DEF Leave, InFlight, Asking, Typed
  <2>2. m = match[q]
    OBVIOUS
  <2> HIDE DEF m
  <2>3. /\ q \in Admitted[m]
        /\ Admitted'[m] = Admitted[m] \ {q}
        /\ \A x \in Matches \ {m} : Admitted'[x] = Admitted[x]
    BY <1>1, <1>2, <2>1, <2>2 DEF Admitted
  <2>4. /\ IsFiniteSet(Admitted'[m])
        /\ Cardinality(Admitted'[m]) = Cardinality(Admitted[m]) - 1
    <3>1. IsFiniteSet(Admitted[m])
      BY <2>1 DEF GaugeInv
    <3> QED BY <2>3, <3>1, FS_RemoveElement
  <2>5. /\ active'[m] = active[m] - 1
        /\ \A x \in Matches \ {m} : active'[x] = active[x]
    BY <1>1, <2>1 DEF Typed
  <2>6. \A x \in Matches : IsFiniteSet(Admitted'[x])
                           /\ active'[x] = Cardinality(Admitted'[x])
    BY <2>3, <2>4, <2>5 DEF GaugeInv
  <2> QED BY <2>6 DEF GaugeInv
<1> USE DEF InFlight, Asking, Typed
<1>6. CASE Arrive(q)
  BY <1>1, <1>3, <1>6 DEF Arrive, Ask, WellHeld
<1>7. CASE ClearSelection(q) \/ PassBy(q) \/ Skip(q) \/ Allow(q)
  BY <1>3, <1>7 DEF ClearSelection, PassBy, Skip, Allow, Evaluate
<1>8. CASE Fail(q)
  BY <1>1, <1>3, <1>8 DEF Fail, Phases
<1>9. CASE \E action \in Actions : Acquire(q, action)
  BY <1>3, <1>9 DEF Acquire, Evaluate
<1>10. CASE \E action \in Actions : Refuse(q, action)
  BY <1>1, <1>3, <1>10 DEF Refuse, Evaluate, Phases
<1>11. CASE Authenticate(q) \/ AnswerEarly(q)
  BY <1>1, <1>3, <1>11 DEF Authenticate, AnswerEarly, Ask
<1>12. CASE AdmitPostAuth(q)
  BY <1>1, <1>3, <1>12 DEF AdmitPostAuth, WellHeld
<1>13. CASE Respond(q)
  BY <1>1, <1>3, <1>13 DEF Respond
<1> QED
  BY <1>4, <1>5, <1>6, <1>7, <1>8, <1>9, <1>10, <1>11, <1>12, <1>13 DEF RequestStep

(* The gauge of active request leases counts, under each rule, exactly the *)
(* requests that were admitted under it and have not left, for any rules   *)
(* and any number of requests and however their processing ends.           *)
THEOREM GaugeIsExact == Spec => []GaugeCountsAdmitted
<1>1. Init => GaugeInv
  BY FS_EmptySet DEF Init, GaugeInv, Admitted, InFlight, Asking
<1>2. GaugeInv /\ PermitInv /\ PermitInv' /\ [Next]_vars => GaugeInv'
  <2> SUFFICES ASSUME GaugeInv, PermitInv, PermitInv', [Next]_vars
               PROVE  GaugeInv'
    OBVIOUS
  <2>1. ASSUME NEW q \in Requests, RequestStep(q) PROVE GaugeInv'
    BY <2>1, GaugeStep
  <2>2. CASE UNCHANGED <<pc, policy, phase, match, active>>
    <3>1. Admitted' = Admitted
      BY <2>2 DEF Admitted, InFlight, Asking
    <3> QED BY <2>2, <3>1 DEF GaugeInv
  <2> QED BY <2>1, <2>2 DEF Next, vars, Replenish, Evict
<1>3. GaugeInv => GaugeCountsAdmitted
  BY DEF GaugeInv, GaugeCountsAdmitted, Admitted, InFlight
<1> QED BY <1>1, <1>2, <1>3, PermitInvariant, PTL DEF Spec

-----------------------------------------------------------------------------
(* Who is served.                                                          *)

Ended(said) == said # <<>> /\ Ends(Last(said))

(* Of the concerned rules behind, all were asked and none denied, up to    *)
(* one that ended the matter.                                              *)
JudgedBy(concerned, behind, said) ==
  LET by == {said[i].rule : i \in DOMAIN said}
  IN /\ by \subseteq behind
     /\ \A i \in DOMAIN said : said[i].action # "deny"
     /\ \A i, j \in DOMAIN said :
          i < j => ~Ends(said[i]) /\ Precedes(said[i].rule, said[j].rule)
     /\ \A r \in (behind \cap concerned) \ by :
          Ended(said) /\ Precedes(Last(said).rule, r)

JudgeInv(q) ==
  /\ \A ph \in Passed(q) : JudgedBy(Concerned(q, ph), Links(ph), asked[q][ph])
  /\ Asking(q) /\ link[q] # 1 =>
       /\ JudgedBy(Concerned(q, phase[q]), Behind(q), asked[q][phase[q]])
       /\ selection[q].stop <=> Ended(asked[q][phase[q]])

LEMMA SequenceFacts ==
  ASSUME NEW T, NEW s \in Seq(T)
  PROVE  /\ Len(s) \in Nat /\ DOMAIN s = 1..Len(s)
         /\ \A i \in 1..Len(s) : s[i] \in T
         /\ s = <<>> <=> Len(s) = 0
<1>1. Len(s) \in Nat /\ DOMAIN s = 1..Len(s) /\ \A i \in 1..Len(s) : s[i] \in T
  BY LenProperties, ElementOfSeq
<1>2. s = <<>> <=> Len(s) = 0
  BY EmptySeq
<1> QED BY <1>1, <1>2

LEMMA AppendFacts ==
  ASSUME NEW T, NEW s \in Seq(T), NEW e \in T, NEW more, more = Append(s, e)
  PROVE  /\ Len(more) = Len(s) + 1 /\ DOMAIN more = 1..(Len(s) + 1)
         /\ \A i \in 1..Len(s) : more[i] = s[i]
         /\ more[Len(s) + 1] = e
         /\ more \in Seq(T) /\ more # <<>>
<1>1. /\ Len(more) = Len(s) + 1 /\ more \in Seq(T)
      /\ \A i \in 1..Len(s) : more[i] = s[i]
      /\ more[Len(s) + 1] = e
  OBVIOUS
<1> QED BY <1>1, SequenceFacts

(* A rule is passed by.                                                    *)
LEMMA PassedByOne ==
  ASSUME NEW c, NEW b, NEW said \in Answers, JudgedBy(c, b, said),
         NEW r, r \notin c \/ Ended(said),
         \A x \in b \cap Rules : Precedes(x, r)
  PROVE  JudgedBy(c, b \cup {r}, said)
<1>1. Ended(said) => /\ Len(said) \in DOMAIN said /\ Last(said) = said[Len(said)]
                     /\ Last(said).rule \in Rules
  <2>1. /\ Len(said) \in Nat /\ DOMAIN said = 1..Len(said)
        /\ \A i \in 1..Len(said) : said[i] \in [rule : Rules, action : Actions]
        /\ said = <<>> <=> Len(said) = 0
    BY SequenceFacts DEF Answers
  <2>2. said # <<>> => Len(said) \in 1..Len(said)
    BY <2>1
  <2> QED BY <2>1, <2>2 DEF Ended, Last
<1>2. Ended(said) => Precedes(Last(said).rule, r)
  BY <1>1 DEF JudgedBy
<1> QED
  BY <1>2 DEF JudgedBy

(* A rule is asked and does not deny.                                      *)
LEMMA HeardOne ==
  ASSUME NEW c, NEW b, NEW said \in Answers, JudgedBy(c, b, said), ~Ended(said),
         NEW r \in Rules, NEW action \in Actions \ {"deny"},
         \A x \in b \cap Rules : Precedes(x, r)
  PROVE  LET more == Append(said, [rule |-> r, action |-> action])
         IN /\ JudgedBy(c, b \cup {r}, more)
            /\ Ended(more) <=> Ends([rule |-> r, action |-> action])
<1> DEFINE one == [rule |-> r, action |-> action]
           more == Append(said, one)
           n == Len(said)
<1>1. /\ n \in Nat /\ DOMAIN said = 1..n /\ DOMAIN more = 1..(n + 1)
      /\ \A i \in 1..n : more[i] = said[i] /\ said[i].rule \in Rules
      /\ more[n + 1] = one /\ Len(more) = n + 1 /\ more # <<>>
  <2>1. one \in [rule : Rules, action : Actions]
    OBVIOUS
  <2>2. /\ n \in Nat /\ DOMAIN said = 1..n
        /\ \A i \in 1..n : said[i] \in [rule : Rules, action : Actions]
    BY SequenceFacts DEF Answers
  <2>3. /\ Len(more) = n + 1 /\ DOMAIN more = 1..(n + 1)
        /\ \A i \in 1..n : more[i] = said[i]
        /\ more[n + 1] = one /\ more # <<>>
    <3> HIDE DEF one
    <3> QED BY <2>1, AppendFacts DEF Answers
  <2> QED BY <2>2, <2>3
<1>0. said = <<>> <=> n = 0
  BY SequenceFacts DEF Answers
<1>2. Ended(more) <=> Ends(one)
  BY <1>1 DEF Ended, Last
<1>3. \A i \in 1..n : ~Ends(said[i])
  <2>1. n # 0 => ~Ends(said[n])
    BY <1>0 DEF Ended, Last
  <2>2. \A i \in 1..n : i < n => ~Ends(said[i])
    BY <1>1 DEF JudgedBy
  <2> QED BY <1>1, <2>1, <2>2
<1>4. \A i \in 1..n : Precedes(said[i].rule, r)
  BY <1>1 DEF JudgedBy
<1> DEFINE by == {said[i].rule : i \in DOMAIN said}
           byMore == {more[i].rule : i \in DOMAIN more}
<1>5. one.rule = r /\ one.action # "deny"
  OBVIOUS
<1> HIDE DEF one, more, n
<1>6. byMore = by \cup {r}
  BY <1>1, <1>5
<1>7. b \cap c \subseteq by
  BY DEF JudgedBy
<1>8. \A i, j \in 1..(n + 1) :
        i < j => ~Ends(more[i]) /\ Precedes(more[i].rule, more[j].rule)
  <2> SUFFICES ASSUME NEW i \in 1..(n + 1), NEW j \in 1..(n + 1), i < j
               PROVE  ~Ends(more[i]) /\ Precedes(more[i].rule, more[j].rule)
    OBVIOUS
  <2>1. i \in 1..n /\ (j \in 1..n \/ j = n + 1)
    BY <1>1
  <2>2. CASE j \in 1..n
    BY <1>1, <2>1, <2>2 DEF JudgedBy
  <2>3. CASE j = n + 1
    BY <1>1, <1>3, <1>4, <1>5, <2>1, <2>3
  <2> QED BY <2>1, <2>2, <2>3
<1>9. \A i \in 1..(n + 1) : more[i].action # "deny"
  <2>1. \A i \in 1..n : more[i].action # "deny"
    BY <1>1 DEF JudgedBy
  <2> QED BY <1>1, <1>5, <2>1
<1>10. by \subseteq b
  BY DEF JudgedBy
<1>11. JudgedBy(c, b \cup {r}, more)
  BY <1>1, <1>6, <1>7, <1>8, <1>9, <1>10 DEF JudgedBy
<1> QED
  BY <1>2, <1>11 DEF more, one

(* Rules behind the next link come before it.                              *)
LEMMA BehindPrecedes ==
  ASSUME Typed, NEW q \in Requests, Link(q) \in Rules
  PROVE  \A x \in Behind(q) \cap Rules : Precedes(x, Link(q))
<1> DEFINE chain == Chain[phase[q]]
<1>1. phase[q] \in Phases /\ link[q] \in Nat \ {0}
  BY DEF Typed, Positive
<1>2. link[q] \in 1..Len(chain) /\ Link(q) = chain[link[q]].link
  BY LinkFacts
<1> HIDE DEF chain
<1>6. /\ Len(chain) \in Nat
      /\ chain[1].link = Reset
      /\ \A i, j \in 2..Len(chain) : i < j => Precedes(chain[i].link, chain[j].link)
  BY <1>1, ChainInOrder DEF chain
<1>3. chain[1].link \notin Rules
  BY <1>6, LinkNames
<1> USE DEF chain
<1> SUFFICES ASSUME NEW i \in 1..Len(chain), i < link[q], chain[i].link \in Rules
             PROVE  Precedes(chain[i].link, Link(q))
  BY SMTT(30) DEF Behind
<1>4. i # 1
  BY <1>3
<1>5. i \in 2..Len(chain) /\ link[q] \in 2..Len(chain)
  BY <1>1, <1>2, <1>3, <1>4
<1> HIDE DEF chain
<1>7. i < link[q] => Precedes(chain[i].link, chain[link[q]].link)
  BY <1>5, <1>6
<1> QED BY <1>2, <1>7

(* A denying partition has no permits when its key is its own.             *)
LEMMA DeniedNeverAcquires ==
  ASSUME PermitInv, DenyKey # Client, NEW q \in Requests, Acquire(q, "deny")
  PROVE  FALSE
<1> DEFINE p == Partition(phase[q], Link(q), "deny")
           all == WithLimiter(p, "deny")
<1>1. Link(q) \in Rules /\ all[p].left > 0 /\ phase[q] \in Phases /\ "deny" \in Actions
  BY DEF Acquire, Evaluate, PermitInv, Typed, Actions
<1>2. LimitersFit(all, Holders) /\ p \in DOMAIN all /\ p.key = DenyKey
  BY <1>1, MakingFits, PartitionOf DEF PermitInv
<1> HIDE DEF p, all
<1>3. LimiterFits(all[p], p, Holders[p])
  BY <1>2 DEF LimitersFit
<1> QED BY <1>1, <1>2, <1>3 DEF LimiterFits

LEMMA JudgeStep ==
  ASSUME PermitInv, PermitInv', DenyKey # Client,
         \A u \in Requests : JudgeInv(u),
         NEW q \in Requests, RequestStep(q)
  PROVE  \A u \in Requests : JudgeInv(u)'
<1>1. /\ Typed /\ Typed' /\ WellHeld(q) /\ JudgeInv(q) /\ policy' = policy
      /\ phase[q] \in Phases /\ asked[q] \in [Phases -> Answers]
      /\ phase'[q] \in Phases
  BY OthersUnchanged DEF PermitInv, Typed, Dialogues
<1>2. ASSUME NEW u \in Requests \ {q} PROVE JudgeInv(u)'
  <2>1. /\ pc'[u] = pc[u] /\ phase'[u] = phase[u] /\ link'[u] = link[u]
        /\ selection'[u] = selection[u] /\ asked'[u] = asked[u]
        /\ policy'[u] = policy[u]
    BY <1>1, OthersUnchanged
  <2>2. /\ Behind(u)' = Behind(u) /\ Passed(u)' = Passed(u)
        /\ Asking(u)' <=> Asking(u)
    BY <2>1 DEF Behind, Passed, Asking
  <2>3. \A ph \in Phases : Concerned(u, ph)' = Concerned(u, ph)
    BY <2>1 DEF Concerned, IsPolicyMatch
  <2>4. phase[u] \in Phases /\ Passed(u) \subseteq Phases
    BY <1>1 DEF Typed, Passed, Phases
  <2>5. JudgeInv(u)
    OBVIOUS
  <2>6. \A ph \in Passed(u)' :
          JudgedBy(Concerned(u, ph)', Links(ph), asked'[u][ph])
    BY <2>1, <2>2, <2>3, <2>4, <2>5 DEF JudgeInv
  <2>7. (Asking(u) /\ link[u] # 1)' =>
          /\ JudgedBy(Concerned(u, phase[u])', Behind(u)', asked'[u][phase'[u]])
          /\ selection'[u].stop <=> Ended(asked'[u][phase'[u]])
    BY <2>1, <2>2, <2>3, <2>4, <2>5 DEF JudgeInv
  <2>8. Concerned(u, phase[u])' = Concerned(u, phase[u])
    BY <2>1 DEF Concerned, IsPolicyMatch
  <2> QED
    BY <2>1, <2>6, <2>7, <2>8 DEF JudgeInv, JudgedBy, Ended
<1>3. JudgeInv(q)'
  <2> DEFINE said == asked[q][phase[q]]
             r == Link(q)
             Kept == \A ph \in Passed(q)' :
                       JudgedBy(Concerned(q, ph)', Links(ph), asked'[q][ph])
             Going == (Asking(q) /\ link[q] # 1)' =>
                /\ JudgedBy(Concerned(q, phase[q])', Behind(q)', asked'[q][phase'[q]])
                /\ selection'[q].stop <=> Ended(asked'[q][phase'[q]])
  <2>1. SUFFICES Kept /\ Going
    BY DEF JudgeInv, JudgedBy, Ended
  <2>2. \A ph : Concerned(q, ph)' = Concerned(q, ph)
    BY <1>1 DEF Concerned, IsPolicyMatch
  <2>3. ASSUME \A ph \in Passed(q)' : ph \in Passed(q) /\ asked'[q][ph] = asked[q][ph]
        PROVE  Kept
    BY <1>1, <2>2, <2>3 DEF JudgeInv
  <2>4. ASSUME Asking(q), \A ph \in Phases \ {phase[q]} : asked'[q][ph] = asked[q][ph],
               \/ UNCHANGED <<pc, phase>>
               \/ pc'[q] \in {"leaving", "done"}
               \/ phase' = phase /\ pc'[q] = "askingAgain"
        PROVE  Kept
    <3>1. Passed(q)' \subseteq Passed(q) /\ Passed(q) \subseteq Phases \ {phase[q]}
      BY <1>1, <2>4 DEF Passed, Asking, Phases
    <3> HIDE DEF Kept
    <3> QED BY <2>3, <2>4, <3>1
  <2>5. ASSUME r \in Rules, Asking(q)
        PROVE  /\ said \in Answers
               /\ JudgedBy(Concerned(q, phase[q]), Behind(q), said)
               /\ selection[q].stop <=> Ended(said)
               /\ \A x \in Behind(q) \cap Rules : Precedes(x, r)
    BY <1>1, <2>5, LinkFacts, LinkNames, BehindPrecedes DEF JudgeInv
  <2>6. CASE Arrive(q)
    <3>1. Passed(q)' = {} /\ (Asking(q)' => link'[q] = 1)
      BY <1>1, <2>6 DEF Arrive, Ask, Typed, Passed, Asking
    <3> QED BY <3>1
  <2>7. CASE ClearSelection(q)
    <3>1. /\ Asking(q) /\ r = Reset /\ UNCHANGED <<pc, phase>>
          /\ link' = [link EXCEPT ![q] = @ + 1]
          /\ asked'[q][phase[q]] = <<>>
          /\ \A ph \in Phases \ {phase[q]} : asked'[q][ph] = asked[q][ph]
          /\ ~selection'[q].stop
      BY <1>1, <2>7 DEF ClearSelection, Typed, NoSelection
    <3>2. Kept
      BY <2>4, <3>1
    <3>3. Behind(q)' = {Reset}
      <4>1. Behind(q)' = Behind(q) \cup {Reset}
        BY <1>1, <3>1, BehindGrows
      <4>2. link[q] = 1
        BY <1>1, <3>1, LinkFacts
      <4>3. Behind(q) = {}
        BY <4>2 DEF Behind
      <4> QED BY <4>1, <4>3
    <3>4. Reset \notin Concerned(q, phase[q])
      BY LinkNames DEF Concerned
    <3>5. ~Ended(<<>>) /\ JudgedBy(Concerned(q, phase[q]), {Reset}, <<>>)
      BY <3>4 DEF JudgedBy, Ended
    <3>6. Going
      BY <2>2, <3>1, <3>3, <3>5
    <3> HIDE DEF Kept, Going
    <3> QED BY <3>2, <3>6
  <2>8. CASE PassBy(q)
    <3>1. /\ Asking(q) /\ r \in Rules /\ UNCHANGED <<pc, phase, asked, selection>>
          /\ selection[q].stop \/ ~IsPolicyMatch(q, r)
          /\ link' = [link EXCEPT ![q] = @ + 1]
      BY <2>8 DEF PassBy
    <3>2. Kept
      BY <2>4, <3>1
    <3>3. Behind(q)' = Behind(q) \cup {r}
      BY <1>1, <3>1, BehindGrows
    <3>4. r \notin Concerned(q, phase[q]) \/ Ended(said)
      BY <2>5, <3>1 DEF Concerned
    <3>5. JudgedBy(Concerned(q, phase[q]), Behind(q) \cup {r}, said)
      <4> HIDE DEF r, said
      <4> QED BY <2>5, <3>1, <3>4, PassedByOne
    <3>6. Going
      BY <2>2, <2>5, <3>1, <3>3, <3>5
    <3> HIDE DEF Kept, Going
    <3> QED BY <3>2, <3>6
  <2>9. ASSUME NEW action \in Actions \ {"deny"}, Evaluate(q, action),
               UNCHANGED <<pc, phase>>,
               link' = [link EXCEPT ![q] = @ + 1],
               selection'[q].stop <=> Ends([rule |-> r, action |-> action])
        PROVE  Kept /\ Going
    <3>1. /\ Asking(q) /\ r \in Rules /\ ~selection[q].stop
          /\ asked'[q][phase[q]] = Append(said, [rule |-> r, action |-> action])
          /\ \A ph \in Phases \ {phase[q]} : asked'[q][ph] = asked[q][ph]
      BY <1>1, <2>9 DEF Evaluate, Typed
    <3>2. Kept
      BY <2>4, <2>9, <3>1
    <3>3. Behind(q)' = Behind(q) \cup {r}
      BY <1>1, <2>9, <3>1, BehindGrows
    <3> DEFINE more == Append(said, [rule |-> r, action |-> action])
    <3>4. /\ JudgedBy(Concerned(q, phase[q]), Behind(q) \cup {r}, more)
          /\ Ended(more) <=> Ends([rule |-> r, action |-> action])
      <4> HIDE DEF r, said
      <4> QED BY <2>5, <3>1, HeardOne
    <3> HIDE DEF more
    <3>5. asked'[q][phase[q]] = more
      BY <3>1 DEF more
    <3>6. Going
      BY <2>2, <2>9, <3>3, <3>4, <3>5
    <3> HIDE DEF Kept, Going
    <3> QED BY <3>2, <3>6
  <2>10. CASE Skip(q)
    <3>1. /\ "skip" \in Actions \ {"deny"} /\ Evaluate(q, "skip")
          /\ UNCHANGED <<pc, phase, selection>>
          /\ link' = [link EXCEPT ![q] = @ + 1]
      BY <2>10 DEF Skip, Actions
    <3>2. ~selection[q].stop /\ ~Ends([rule |-> r, action |-> "skip"])
      BY <3>1 DEF Evaluate, Ends
    <3> HIDE DEF Kept, Going, r, said
    <3> QED BY <2>9, <3>1, <3>2
  <2>11. CASE Allow(q)
    <3>1. /\ "allow" \in Actions \ {"deny"} /\ Evaluate(q, "allow")
          /\ UNCHANGED <<pc, phase>>
          /\ link' = [link EXCEPT ![q] = @ + 1]
      BY <2>11 DEF Allow, Actions
    <3>2. selection'[q].stop /\ Ends([rule |-> r, action |-> "allow"])
      BY <1>1, <2>11 DEF Allow, Select, Ends, Typed
    <3> HIDE DEF Kept, Going, r, said
    <3> QED BY <2>9, <3>1, <3>2
  <2>12. ASSUME NEW action \in Actions, Acquire(q, action)
         PROVE  Kept /\ Going
    <3>1. /\ action \in {"limit", "limitAndStop"} /\ Evaluate(q, action)
          /\ UNCHANGED <<pc, phase>>
          /\ link' = [link EXCEPT ![q] = @ + 1]
      BY <2>12, DeniedNeverAcquires DEF Acquire
    <3>2. ~selection[q].stop
      BY <3>1 DEF Evaluate
    <3>3. selection'[q].stop <=> Rule[r].shortCircuit \/ action = "limitAndStop"
      BY <1>1, <2>12, <3>1, <3>2 DEF Acquire, Select, Typed
    <3>4. Ends([rule |-> r, action |-> action]) <=>
            Rule[r].shortCircuit \/ action = "limitAndStop"
      BY <3>1 DEF Ends
    <3>5. action \in Actions \ {"deny"}
      BY <3>1 DEF Actions
    <3> HIDE DEF Kept, Going, r, said
    <3> QED BY <2>9, <3>1, <3>3, <3>4, <3>5
  <2>13. CASE Fail(q) \/ \E action \in Actions : Refuse(q, action)
    <3>1. /\ Asking(q) /\ phase' = phase
          /\ \A ph \in Phases \ {phase[q]} : asked'[q][ph] = asked[q][ph]
          /\ \/ pc'[q] \in {"leaving", "done"}
             \/ pc'[q] = "askingAgain" /\ link'[q] = 1
      <4>1. CASE Fail(q)
        BY <1>1, <4>1 DEF Fail, Typed
      <4>2. ASSUME NEW action, Refuse(q, action)
            PROVE  /\ Asking(q) /\ phase' = phase
                   /\ \A ph \in Phases \ {phase[q]} : asked'[q][ph] = asked[q][ph]
                   /\ \/ pc'[q] \in {"leaving", "done"}
                      \/ pc'[q] = "askingAgain" /\ link'[q] = 1
        <5>1. /\ Asking(q) /\ phase' = phase
              /\ asked' = [asked EXCEPT ![q][phase[q]] =
                             Append(@, [rule |-> Link(q), action |-> action])]
              /\ link' = [link EXCEPT ![q] = 1]
          BY <4>2 DEF Refuse, Evaluate
        <5>2. pc'[q] \in {"askingAgain", "leaving", "done"}
          BY <1>1, <4>2 DEF Refuse, Typed
        <5> QED BY <1>1, <5>1, <5>2 DEF Typed
      <4> QED BY <2>13, <4>1, <4>2
    <3>2. Kept
      BY <2>4, <3>1
    <3>3. Going
      BY <3>1 DEF Asking
    <3> QED BY <3>2, <3>3
  <2>14. ASSUME Asking(q), Link(q) = None
         PROVE  JudgedBy(Concerned(q, phase[q]), Links(phase[q]), said)
    <3>1. /\ Len(Chain[phase[q]]) \in Nat \ {0}
          /\ \A i \in 1..Len(Chain[phase[q]]) : Chain[phase[q]][i].link \in Links(phase[q])
          /\ \A l \in Links(phase[q]) :
               \E i \in 1..Len(Chain[phase[q]]) : Chain[phase[q]][i].link = l
      BY <1>1, ChainInOrder
    <3>2. link[q] \in Nat \ {0} /\ ~(link[q] <= Len(Chain[phase[q]]))
      <4>1. None \notin Links(phase[q])
        <5>1. Reset # None
          BY DEF Reset, None
        <5> QED BY <5>1, LinkNames DEF Links
      <4>2. link[q] \in Nat \ {0}
        BY <1>1 DEF Typed, Positive
      <4> QED BY <2>14, <3>1, <4>1, <4>2 DEF Link
    <3> DEFINE chain == Chain[phase[q]]
               n == Len(chain)
    <3>3. link[q] # 1 /\ \A j \in 1..n : j < link[q]
      BY <3>1, <3>2
    <3>4. Behind(q) = {chain[j].link : j \in 1..n}
      BY <3>3 DEF Behind
    <3>5. {chain[j].link : j \in 1..n} = Links(phase[q])
      <4> HIDE DEF n, chain
      <4> SUFFICES /\ \A i \in 1..n : chain[i].link \in Links(phase[q])
                   /\ \A l \in Links(phase[q]) : \E i \in 1..n : chain[i].link = l
        OBVIOUS
      <4> QED BY <3>1 DEF n, chain
    <3> QED BY <1>1, <2>14, <3>3, <3>4, <3>5 DEF JudgeInv
  <2>15. CASE Admit(q)
    <3>1. /\ Asking(q) /\ Link(q) = None /\ phase[q] = "PreAuth"
          /\ pc'[q] = "authenticating" /\ asked' = asked
      BY <1>1, <2>15 DEF Admit, Typed
    <3>2. Passed(q)' = {"PreAuth"}
      BY <3>1 DEF Passed
    <3>3. Kept
      BY <2>2, <2>14, <3>1, <3>2
    <3>4. Going
      BY <3>1 DEF Asking
    <3> QED BY <3>3, <3>4
  <2>16. CASE Authenticate(q) \/ AnswerEarly(q)
    <3>1. /\ pc[q] = "authenticating" /\ asked' = asked
          /\ \/ pc'[q] = "asking" /\ phase'[q] = "PostAuth" /\ link'[q] = 1
             \/ pc'[q] = "leaving"
      BY <1>1, <2>16 DEF Authenticate, AnswerEarly, Ask, Typed
    <3>2. Passed(q) = {"PreAuth"} /\ Passed(q)' \subseteq {"PreAuth"}
      BY <3>1 DEF Passed, Asking
    <3>3. Kept
      BY <2>3, <3>1, <3>2
    <3>4. Going
      BY <3>1 DEF Asking
    <3> QED BY <3>3, <3>4
  <2>17. CASE AdmitPostAuth(q)
    <3>1. /\ Asking(q) /\ Link(q) = None /\ phase[q] = "PostAuth"
          /\ pc'[q] = "serving" /\ asked' = asked /\ policy[q] # "disabled"
      BY <1>1, <2>17 DEF AdmitPostAuth, Typed, WellHeld, Asking
    <3>2. Passed(q) = {"PreAuth"} /\ Passed(q)' = {"PreAuth", "PostAuth"}
      BY <1>1, <3>1 DEF Passed, Asking, Phases
    <3>3. Kept
      BY <1>1, <2>2, <2>14, <3>1, <3>2 DEF JudgeInv
    <3>4. Going
      BY <3>1 DEF Asking
    <3> QED BY <3>3, <3>4
  <2>18. CASE Respond(q) \/ Leave(q)
    <3>1. pc'[q] \in {"leaving", "done"}
      BY <1>1, <2>18 DEF Respond, Leave, Typed
    <3>2. Passed(q)' = {} /\ ~Asking(q)'
      BY <3>1 DEF Passed, Asking
    <3> QED BY <3>2
  <2> HIDE DEF Kept, Going
  <2> QED
    BY <2>6, <2>7, <2>8, <2>10, <2>11, <2>12, <2>13, <2>15, <2>16, <2>17, <2>18
       DEF RequestStep
<1> QED BY <1>2, <1>3

(* With a partition key of its own for denied requests, a request that     *)
(* passed a phase was asked about in order by the rules that concern it,   *)
(* was denied by none, and skipped only those behind one that ended the    *)
(* matter: for any rules, any orders and any interleaving of requests.     *)
THEOREM OnlyJudgedPass ==
  DenyKey # Client => (Spec => []OnlyJudgedAreServed)
<1> SUFFICES ASSUME DenyKey # Client PROVE Spec => []OnlyJudgedAreServed
  OBVIOUS
<1> DEFINE Inv == \A q \in Requests : JudgeInv(q)
<1>1. Init => Inv
  BY DEF Init, JudgeInv, Passed, Asking
<1>2. Inv /\ PermitInv /\ PermitInv' /\ [Next]_vars => Inv'
  <2> SUFFICES ASSUME Inv, PermitInv, PermitInv', [Next]_vars PROVE Inv'
    OBVIOUS
  <2>1. ASSUME NEW q \in Requests, RequestStep(q) PROVE Inv'
    BY <2>1, JudgeStep
  <2>2. CASE UNCHANGED <<pc, policy, phase, link, selection, asked>>
    <3> SUFFICES ASSUME NEW q \in Requests PROVE JudgeInv(q)'
      OBVIOUS
    <3>1. /\ Behind(q)' = Behind(q) /\ Passed(q)' = Passed(q)
          /\ Asking(q)' <=> Asking(q)
      BY <2>2 DEF Behind, Passed, Asking
    <3>2. \A ph : Concerned(q, ph)' = Concerned(q, ph)
      BY <2>2 DEF Concerned, IsPolicyMatch
    <3>3. JudgeInv(q)
      OBVIOUS
    <3> HIDE DEF Inv
    <3> QED BY <2>2, <3>1, <3>2, <3>3 DEF JudgeInv, JudgedBy, Ended
  <2> QED BY <2>1, <2>2 DEF Next, vars, Replenish, Evict
<1>3. Inv /\ PermitInv => OnlyJudgedAreServed
  <2> SUFFICES ASSUME Inv, PermitInv, NEW q \in Requests, NEW ph \in Passed(q)
               PROVE  /\ \A i \in DOMAIN asked[q][ph] : asked[q][ph][i].action # "deny"
                      /\ \A i, j \in DOMAIN asked[q][ph] :
                           i < j => /\ ~Ends(asked[q][ph][i])
                                    /\ Precedes(asked[q][ph][i].rule,
                                                asked[q][ph][j].rule)
                      /\ \A r \in Concerned(q, ph)
                                  \ {asked[q][ph][i].rule : i \in DOMAIN asked[q][ph]} :
                           /\ asked[q][ph] # <<>> /\ Ends(Last(asked[q][ph]))
                           /\ Precedes(Last(asked[q][ph]).rule, r)
    BY DEF OnlyJudgedAreServed, DeniedIsRejected
  <2>1. JudgedBy(Concerned(q, ph), Links(ph), asked[q][ph])
    BY DEF JudgeInv
  <2>2. Concerned(q, ph) \subseteq Links(ph)
    BY DEF Concerned, Links
  <2> QED BY <2>1, <2>2 DEF JudgedBy, Ended
<1> QED BY <1>1, <1>2, <1>3, PermitInvariant, PTL DEF Spec
=============================================================================
