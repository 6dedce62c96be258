------------------------- MODULE Pagination_proofs -------------------------
(***************************************************************************)
(* Proofs about pagination, for any rows, page sizes, jumps and changes of *)
(* other transactions: a walk sees what stays, page n shows the n-th group *)
(* of rows, and HasNext is exact.                                          *)
(***************************************************************************)
EXTENDS Pagination, FiniteSetTheorems, SequenceTheorems, TLAPS

-----------------------------------------------------------------------------
(* The order of the client.                                                *)

LEMMA BeforeIsOrder ==
  ASSUME NEW o, NEW a \in Int, NEW b \in Int
  PROVE  /\ ~Before(o, a, a)
         /\ Before(o, a, b) => a # b /\ ~Before(o, b, a)
         /\ a = b \/ Before(o, a, b) \/ Before(o, b, a)
BY DEF Before

LEMMA BeforeIsTransitive ==
  ASSUME NEW o, NEW a \in Int, NEW b \in Int, NEW c \in Int,
         Before(o, a, b), Before(o, b, c)
  PROVE  Before(o, a, c)
BY DEF Before

Ordered(o, f) == \A i, j \in 1..Len(f) : i < j => Before(o, f[i], f[j])

(* f lists the rows of S in the order o.                                    *)
Lists(f, S, o) ==
  /\ f \in Seq(S)
  /\ Ordered(o, f)
  /\ \A r \in S : \E i \in 1..Len(f) : f[i] = r

(* The positions of an ordered sequence follow its rows.                    *)
LEMMA OrderedPositions ==
  ASSUME NEW o, NEW f \in Seq(Int), Ordered(o, f), NEW i \in 1..Len(f), NEW j \in 1..Len(f)
  PROVE  /\ Before(o, f[i], f[j]) <=> i < j
         /\ f[i] = f[j] <=> i = j
<1>1. f[i] \in Int /\ f[j] \in Int
  OBVIOUS
<1>2. i < j => Before(o, f[i], f[j])
  BY DEF Ordered
<1>3. j < i => Before(o, f[j], f[i])
  BY DEF Ordered
<1>4. i < j \/ j < i \/ i = j
  OBVIOUS
<1>5. ~Before(o, f[i], f[i])
  BY <1>1, BeforeIsOrder
<1>6. Before(o, f[i], f[j]) => f[i] # f[j] /\ ~Before(o, f[j], f[i])
  BY <1>1, BeforeIsOrder
<1>7. Before(o, f[j], f[i]) => f[i] # f[j] /\ ~Before(o, f[i], f[j])
  BY <1>1, BeforeIsOrder
<1>8. i = j => f[i] = f[j] /\ ~(i < j)
  OBVIOUS
<1> QED BY <1>2, <1>3, <1>4, <1>5, <1>6, <1>7, <1>8

-----------------------------------------------------------------------------
(* The rank of a row, by which Sorted is defined.                           *)

Ahead(S, o, r) == {x \in S : Before(o, x, r)}

LEMMA RankBelow ==
  ASSUME NEW S \in SUBSET Int, IsFiniteSet(S), NEW o, NEW r \in S
  PROVE  IsFiniteSet(Ahead(S, o, r)) /\ Cardinality(Ahead(S, o, r)) \in 0..(Cardinality(S) - 1)
<1>1. r \notin Ahead(S, o, r) /\ Ahead(S, o, r) \in SUBSET (S \ {r})
  BY BeforeIsOrder DEF Ahead
<1>2. IsFiniteSet(S \ {r}) /\ Cardinality(S \ {r}) = Cardinality(S) - 1 /\ Cardinality(S) \in Nat
  BY FS_RemoveElement, FS_CardinalityType
<1>3. IsFiniteSet(Ahead(S, o, r)) /\ Cardinality(Ahead(S, o, r)) <= Cardinality(S) - 1
  BY <1>1, <1>2, FS_Subset
<1>4. Cardinality(Ahead(S, o, r)) \in Nat
  BY <1>3, FS_CardinalityType
<1> QED BY <1>2, <1>3, <1>4

LEMMA RankGrows ==
  ASSUME NEW S \in SUBSET Int, IsFiniteSet(S), NEW o, NEW r \in S, NEW s \in S, Before(o, r, s)
  PROVE  Cardinality(Ahead(S, o, r)) < Cardinality(Ahead(S, o, s))
<1>1. Ahead(S, o, r) \in SUBSET Ahead(S, o, s)
  BY BeforeIsTransitive DEF Ahead
<1>2. r \in Ahead(S, o, s) /\ r \notin Ahead(S, o, r)
  BY BeforeIsOrder DEF Ahead
<1>3. Ahead(S, o, r) # Ahead(S, o, s)
  BY <1>2
<1>4. /\ Cardinality(Ahead(S, o, r)) <= Cardinality(Ahead(S, o, s))
      /\ Cardinality(Ahead(S, o, s)) # Cardinality(Ahead(S, o, r))
  <2>1. IsFiniteSet(Ahead(S, o, s))
    BY RankBelow
  <2> QED BY <1>1, <1>3, <2>1, FS_Subset
<1>5. Cardinality(Ahead(S, o, r)) \in Int /\ Cardinality(Ahead(S, o, s)) \in Int
  BY RankBelow
<1> QED BY <1>4, <1>5

LEMMA RankIsUnique ==
  ASSUME NEW S \in SUBSET Int, IsFiniteSet(S), NEW o, NEW r \in S, NEW s \in S,
         Cardinality(Ahead(S, o, r)) = Cardinality(Ahead(S, o, s))
  PROVE  r = s
<1>1. Cardinality(Ahead(S, o, r)) \in Int /\ Cardinality(Ahead(S, o, s)) \in Int
  BY RankBelow
<1>2. ~Before(o, r, s)
  BY <1>1, RankGrows
<1>3. ~Before(o, s, r)
  BY <1>1, RankGrows
<1> QED BY <1>2, <1>3, BeforeIsOrder

(* Every rank below the number of rows is that of a row.                    *)
LEMMA RankIsTaken ==
  ASSUME NEW S \in SUBSET Int, IsFiniteSet(S), NEW o, NEW k \in 0..(Cardinality(S) - 1)
  PROVE  \E r \in S : Cardinality(Ahead(S, o, r)) = k
<1> DEFINE n == Cardinality(S)
           R == 0..(n - 1)
           f == [r \in S |-> Cardinality(Ahead(S, o, r))]
<1>1. n \in Nat
  BY FS_CardinalityType
<1>2. IsFiniteSet(R) /\ Cardinality(R) = n
  BY <1>1, FS_Interval
<1>3. f \in [S -> R]
  BY RankBelow
<1>4. f \in Injection(S, R)
  BY <1>3, RankIsUnique DEF Injection, IsInjective
<1> HIDE DEF f, R
<1>5. f \in Surjection(S, R)
  BY <1>2, <1>4, FS_Injection
<1>6. \E r \in S : f[r] = k
  BY <1>5 DEF Surjection, R
<1> QED BY <1>6 DEF f

LEMMA SortedLists ==
  ASSUME NEW S \in SUBSET Int, IsFiniteSet(S), NEW o
  PROVE  Lists(Sorted(S, o), S, o) /\ Len(Sorted(S, o)) = Cardinality(S)
<1> DEFINE n == Cardinality(S)
<1>1. n \in Nat
  BY FS_CardinalityType
<1>2. PICK f : f = Sorted(S, o)
  OBVIOUS
<1>3. f = [i \in 1..n |-> CHOOSE r \in S : Cardinality(Ahead(S, o, r)) = i - 1]
  BY <1>2 DEF Sorted, Ahead
<1>4. \A i \in 1..n : f[i] \in S /\ Cardinality(Ahead(S, o, f[i])) = i - 1
  <2> TAKE i \in 1..n
  <2>1. i - 1 \in 0..(Cardinality(S) - 1)
    BY <1>1
  <2>2. \E r \in S : Cardinality(Ahead(S, o, r)) = i - 1
    BY <2>1, RankIsTaken
  <2>3. f[i] = CHOOSE r \in S : Cardinality(Ahead(S, o, r)) = i - 1
    BY <1>3
  <2> QED BY <2>2, <2>3
<1>5. f \in Seq(S) /\ Len(f) = n
  <2>1. f \in [1..n -> S]
    BY <1>3, <1>4
  <2> QED BY <1>1, <2>1
<1>6. ASSUME NEW i \in 1..n, NEW j \in 1..n, i < j PROVE Before(o, f[i], f[j])
  <2>1. f[i] \in S /\ f[j] \in S /\ f[i] \in Int /\ f[j] \in Int
    BY <1>4
  <2>2. f[i] # f[j]
    BY <1>4, <1>6
  <2>3. ~Before(o, f[j], f[i])
    <3> SUFFICES ASSUME Before(o, f[j], f[i]) PROVE FALSE
      OBVIOUS
    <3>1. Cardinality(Ahead(S, o, f[j])) < Cardinality(Ahead(S, o, f[i]))
      BY <2>1, RankGrows
    <3> QED BY <1>4, <1>6, <3>1
  <2> QED BY <2>1, <2>2, <2>3, BeforeIsOrder
<1>7. ASSUME NEW r \in S PROVE \E i \in 1..n : f[i] = r
  <2>1. PICK k \in 0..(n - 1) : k = Cardinality(Ahead(S, o, r))
    BY RankBelow
  <2>2. k + 1 \in 1..n /\ (k + 1) - 1 = k
    BY <1>1
  <2>3. f[k + 1] \in S /\ Cardinality(Ahead(S, o, f[k + 1])) = k
    BY <1>4, <2>2
  <2>4. f[k + 1] = r
    BY <2>1, <2>3, RankIsUnique
  <2> QED BY <2>2, <2>4
<1> QED BY <1>2, <1>5, <1>6, <1>7 DEF Lists, Ordered

LEMMA ListType ==
  ASSUME NEW S \in SUBSET Int, NEW o, NEW f, Lists(f, S, o)
  PROVE  /\ f \in Seq(S) /\ f \in Seq(Int) /\ Len(f) \in Nat /\ Ordered(o, f)
         /\ \A i \in 1..Len(f) : f[i] \in S
         /\ \A r \in S : \E i \in 1..Len(f) : f[i] = r
<1>1. f \in Seq(S) /\ Ordered(o, f) /\ \A r \in S : \E i \in 1..Len(f) : f[i] = r
  BY DEF Lists
<1>2. S \subseteq Int
  OBVIOUS
<1>3. Len(f) \in Nat /\ \A i \in 1..Len(f) : f[i] \in S
  BY <1>1
<1>4. f = [i \in 1..Len(f) |-> f[i]]
  BY <1>1
<1>5. f \in [1..Len(f) -> Int]
  BY <1>2, <1>3, <1>4
<1>6. f \in Seq(Int)
  BY <1>3, <1>5
<1> QED BY <1>1, <1>3, <1>6

(* In a list of rows the i-th has i - 1 rows ahead, and so there is one      *)
(* list of them.                                                           *)
LEMMA ListRank ==
  ASSUME NEW S \in SUBSET Int, IsFiniteSet(S), NEW o, NEW f, Lists(f, S, o), NEW i \in 1..Len(f)
  PROVE  Cardinality(Ahead(S, o, f[i])) = i - 1
<1> DEFINE A == Ahead(S, o, f[i])
           g == [j \in 1..(i - 1) |-> f[j]]
<1>1. f \in Seq(S) /\ f \in Seq(Int) /\ Len(f) \in Nat /\ Ordered(o, f) /\ i - 1 \in Nat
  BY ListType
<1>2. \A j \in 1..Len(f) : f[j] \in A <=> j < i
  BY <1>1, OrderedPositions DEF Ahead
<1>3. g \in [1..(i - 1) -> A]
  <2>1. \A j \in 1..(i - 1) : j \in 1..Len(f) /\ j < i
    BY <1>1
  <2> QED BY <1>2, <2>1
<1>4. IsInjective(g)
  <2>1. \A j, k \in 1..(i - 1) : f[j] = f[k] => j = k
    <3> TAKE j, k \in 1..(i - 1)
    <3>1. j \in 1..Len(f) /\ k \in 1..Len(f)
      BY <1>1
    <3> QED BY <1>1, <3>1, OrderedPositions
  <2> QED BY <2>1 DEF IsInjective
<1>5. \A r \in A : \E j \in 1..(i - 1) : g[j] = r
  <2> TAKE r \in A
  <2>1. PICK j \in 1..Len(f) : f[j] = r
    BY DEF Ahead, Lists
  <2>2. j < i
    BY <1>2, <2>1
  <2>3. j \in 1..(i - 1)
    BY <1>1, <2>2
  <2> QED BY <2>1, <2>3
<1> HIDE DEF A, g
<1>6. g \in Bijection(1..(i - 1), A)
  BY <1>3, <1>4, <1>5 DEF Bijection, Injection, Surjection
<1>7. Cardinality(A) = i - 1
  BY <1>1, <1>6, FS_CountingElements DEF ExistsBijection
<1> QED BY <1>7 DEF A

LEMMA ListIsSorted ==
  ASSUME NEW S \in SUBSET Int, IsFiniteSet(S), NEW o, NEW f, Lists(f, S, o)
  PROVE  f = Sorted(S, o) /\ Len(f) = Cardinality(S)
<1>1. f \in Seq(S) /\ f \in Seq(Int) /\ Len(f) \in Nat /\ Ordered(o, f)
  BY ListType
<1>2. Len(f) = Cardinality(S)
  <2>1. f \in [1..Len(f) -> S] /\ \A r \in S : \E i \in 1..Len(f) : f[i] = r
    BY <1>1 DEF Lists
  <2>2. \A i, j \in 1..Len(f) : f[i] = f[j] => i = j
    BY <1>1, OrderedPositions
  <2>3. f \in Bijection(1..Len(f), S)
    BY <2>1, <2>2 DEF Bijection, Injection, Surjection, IsInjective
  <2> QED BY <1>1, <2>3, FS_CountingElements DEF ExistsBijection
<1>3. PICK s : s = Sorted(S, o)
  OBVIOUS
<1>4. s \in Seq(S) /\ Len(s) = Cardinality(S) /\ Lists(s, S, o)
  BY <1>3, SortedLists DEF Lists
<1>5. ASSUME NEW i \in 1..Len(f) PROVE f[i] = s[i]
  <2>1. i \in 1..Len(s) /\ f[i] \in S /\ s[i] \in S
    BY <1>1, <1>2, <1>4
  <2>2. Cardinality(Ahead(S, o, f[i])) = i - 1 /\ Cardinality(Ahead(S, o, s[i])) = i - 1
    BY <1>4, <2>1, ListRank
  <2> QED BY <2>1, <2>2, RankIsUnique
<1>6. f = s
  BY <1>1, <1>2, <1>4, <1>5
<1> QED BY <1>2, <1>3, <1>6

(* The rows from the a-th to the b-th.                                      *)
LEMMA SortedWindow ==
  ASSUME NEW S \in SUBSET Int, IsFiniteSet(S), NEW o,
         NEW a \in Nat \ {0}, NEW b \in 0..Cardinality(S), NEW W \in SUBSET S,
         \A i \in 1..Cardinality(S) : Sorted(S, o)[i] \in W <=> a <= i /\ i <= b
  PROVE  /\ Sorted(W, o) = SubSeq(Sorted(S, o), a, b)
         /\ Len(Sorted(W, o)) = IF a <= b THEN b - a + 1 ELSE 0
<1>1. PICK s : s = Sorted(S, o)
  OBVIOUS
<1>2. s \in Seq(S) /\ s \in Seq(Int) /\ Len(s) = Cardinality(S) /\ Len(s) \in Nat /\ Ordered(o, s)
      /\ (\A i \in 1..Len(s) : s[i] \in S) /\ \A r \in S : \E i \in 1..Len(s) : s[i] = r
  BY <1>1, SortedLists, ListType
<1>3. PICK w : w = SubSeq(s, a, b)
  OBVIOUS
<1>4. \A i \in a..b : i \in 1..Len(s) /\ s[i] \in W
  BY <1>1, <1>2
<1>5. /\ w \in Seq(W) /\ Len(w) = IF a <= b THEN b - a + 1 ELSE 0
      /\ \A i \in 1..(b - a + 1) : w[i] = s[a + i - 1]
  BY <1>3, <1>4, SubSeqProperties
<1>6. ASSUME NEW i \in 1..Len(w), NEW j \in 1..Len(w), i < j PROVE Before(o, w[i], w[j])
  <2>1. w[i] = s[a + i - 1] /\ w[j] = s[a + j - 1]
    BY <1>5
  <2>2. a + i - 1 \in 1..Len(s) /\ a + j - 1 \in 1..Len(s) /\ a + i - 1 < a + j - 1
    BY <1>2, <1>5, <1>6
  <2> QED BY <1>2, <2>1, <2>2 DEF Ordered
<1>7. ASSUME NEW r \in W PROVE \E i \in 1..Len(w) : w[i] = r
  <2>1. PICK k \in 1..Len(s) : s[k] = r
    BY <1>2
  <2>2. a <= k /\ k <= b
    BY <1>1, <1>2, <2>1
  <2>3. k - a + 1 \in 1..Len(w) /\ k - a + 1 \in 1..(b - a + 1) /\ a + (k - a + 1) - 1 = k
    BY <1>5, <2>2
  <2>4. w[k - a + 1] = r
    BY <1>5, <2>1, <2>3
  <2> QED BY <2>3, <2>4
<1>8. Lists(w, W, o)
  BY <1>5, <1>6, <1>7 DEF Lists, Ordered
<1>9. IsFiniteSet(W) /\ W \in SUBSET Int
  BY FS_Subset
<1>10. w = Sorted(W, o)
  BY <1>8, <1>9, ListIsSorted
<1> QED BY <1>1, <1>3, <1>5, <1>10

-----------------------------------------------------------------------------
(* Windows of sequences.                                                    *)

LEMMA Window ==
  ASSUME NEW S, NEW f \in Seq(S), NEW a \in Nat \ {0}, NEW b \in Int, b <= Len(f)
  PROVE  /\ SubSeq(f, a, b) \in Seq(S)
         /\ Len(SubSeq(f, a, b)) = IF a <= b THEN b - a + 1 ELSE 0
         /\ \A i \in 1..Len(SubSeq(f, a, b)) :
              SubSeq(f, a, b)[i] = f[a + i - 1] /\ a + i - 1 \in 1..Len(f)
         /\ \A k \in a..b : k - a + 1 \in 1..Len(SubSeq(f, a, b))
                            /\ SubSeq(f, a, b)[k - a + 1] = f[k]
<1>1. Len(f) \in Nat /\ \A i \in a..b : i \in 1..Len(f) /\ f[i] \in S
  OBVIOUS
<1>2. PICK w : w = SubSeq(f, a, b)
  OBVIOUS
<1>3. /\ w \in Seq(S) /\ Len(w) = IF a <= b THEN b - a + 1 ELSE 0
      /\ \A i \in 1..(b - a + 1) : w[i] = f[a + i - 1]
  BY <1>1, <1>2, SubSeqProperties
<1>4. \A i \in 1..Len(w) : w[i] = f[a + i - 1] /\ a + i - 1 \in 1..Len(f)
  <2> TAKE i \in 1..Len(w)
  <2>1. i \in 1..(b - a + 1) /\ a + i - 1 \in a..b
    BY <1>3
  <2> QED BY <1>1, <1>3, <2>1
<1>5. \A k \in a..b : k - a + 1 \in 1..Len(w) /\ w[k - a + 1] = f[k]
  <2> TAKE k \in a..b
  <2>1. k - a + 1 \in 1..(b - a + 1) /\ a <= b /\ a + (k - a + 1) - 1 = k
    OBVIOUS
  <2> QED BY <1>3, <2>1
<1> QED BY <1>2, <1>3, <1>4, <1>5

LEMMA WindowOrdered ==
  ASSUME NEW S, NEW o, NEW f \in Seq(S), Ordered(o, f),
         NEW a \in Nat \ {0}, NEW b \in Int, b <= Len(f)
  PROVE  Ordered(o, SubSeq(f, a, b))
<1>1. PICK w : w = SubSeq(f, a, b)
  OBVIOUS
<1>2. Len(w) \in Nat /\ \A i \in 1..Len(w) : w[i] = f[a + i - 1] /\ a + i - 1 \in 1..Len(f)
  BY <1>1, Window
<1>3. ASSUME NEW i \in 1..Len(w), NEW j \in 1..Len(w), i < j PROVE Before(o, w[i], w[j])
  <2>1. a + i - 1 < a + j - 1
    BY <1>2, <1>3
  <2> QED BY <1>2, <2>1 DEF Ordered
<1> QED BY <1>1, <1>3 DEF Ordered

(* A window of a window.                                                    *)
LEMMA WindowOfWindow ==
  ASSUME NEW S, NEW f \in Seq(S), NEW a \in Nat \ {0}, NEW b \in Int, b <= Len(f),
         NEW c \in Nat \ {0}, NEW d \in Int, d <= Len(SubSeq(f, a, b))
  PROVE  SubSeq(SubSeq(f, a, b), c, d) = SubSeq(f, a + c - 1, a + d - 1)
<1>1. PICK w : w = SubSeq(f, a, b)
  OBVIOUS
<1>2. /\ w \in Seq(S) /\ Len(w) = IF a <= b THEN b - a + 1 ELSE 0
      /\ \A i \in 1..Len(w) : w[i] = f[a + i - 1] /\ a + i - 1 \in 1..Len(f)
  BY <1>1, Window
<1>3. CASE c > d
  <2>1. SubSeq(w, c, d) = <<>>
    BY <1>3, SubSeqEmpty
  <2>2. SubSeq(f, a + c - 1, a + d - 1) = <<>>
    BY <1>3, SubSeqEmpty
  <2> QED BY <1>1, <2>1, <2>2
<1>4. CASE c <= d
  <2>1. d \in 1..Len(w) /\ a + d - 1 \in Int /\ a + d - 1 <= Len(f) /\ a + c - 1 \in Nat \ {0}
    <3>1. d \in 1..Len(w)
      BY <1>1, <1>4
    <3> QED BY <1>2, <3>1
  <2>2. PICK u, v : u = SubSeq(w, c, d) /\ v = SubSeq(f, a + c - 1, a + d - 1)
    OBVIOUS
  <2>3. /\ u \in Seq(S) /\ Len(u) = d - c + 1
        /\ \A i \in 1..Len(u) : u[i] = w[c + i - 1] /\ c + i - 1 \in 1..Len(w)
    BY <1>2, <1>4, <2>1, <2>2, Window
  <2>4. /\ v \in Seq(S) /\ Len(v) = d - c + 1
        /\ \A i \in 1..Len(v) : v[i] = f[(a + c - 1) + i - 1]
    <3>1. PICK a2 \in Nat \ {0}, b2 \in Int : a2 = a + c - 1 /\ b2 = a + d - 1
      BY <2>1
    <3>2. b2 <= Len(f) /\ v = SubSeq(f, a2, b2)
      BY <2>1, <2>2, <3>1
    <3>3. /\ v \in Seq(S) /\ Len(v) = IF a2 <= b2 THEN b2 - a2 + 1 ELSE 0
          /\ \A i \in 1..Len(v) : v[i] = f[a2 + i - 1]
      BY <3>2, Window
    <3> QED BY <1>4, <3>1, <3>3
  <2>5. \A i \in 1..Len(u) : u[i] = v[i]
    <3> TAKE i \in 1..Len(u)
    <3>1. u[i] = f[a + (c + i - 1) - 1]
      BY <1>2, <2>3
    <3>2. a + (c + i - 1) - 1 = (a + c - 1) + i - 1 /\ i \in 1..Len(v)
      BY <2>3, <2>4
    <3> QED BY <2>4, <3>1, <3>2
  <2>6. u = v
    BY <2>3, <2>4, <2>5
  <2> QED BY <1>1, <2>2, <2>6
<1> QED BY <1>3, <1>4

(* A previous page is read from the cursor backwards: of the rows before    *)
(* it the last, less those that are skipped.                               *)
LEMMA ReverseWindow ==
  ASSUME NEW S, NEW f \in Seq(S), NEW k \in Nat, NEW m \in Nat
  PROVE  Reverse(SkipTake(Reverse(f), k, m))
           = SubSeq(f, IF k + m < Len(f) THEN Len(f) - k - m + 1 ELSE 1, Len(f) - k)
<1>1. PICK n \in Nat : n = Len(f)
  OBVIOUS
<1>2. PICK h \in Nat : h = IF k + m < n THEN k + m ELSE n
  <2>1. k + m \in Nat /\ n \in Nat
    OBVIOUS
  <2> QED BY <2>1
<1>3. PICK r : r = Reverse(f)
  OBVIOUS
<1>4. r \in Seq(S) /\ Len(r) = n /\ \A i \in 1..n : r[i] = f[n - i + 1]
  <2>1. r = [i \in 1..n |-> f[n - i + 1]]
    BY <1>1, <1>3 DEF Reverse
  <2>2. \A i \in 1..n : n - i + 1 \in 1..n /\ f[n - i + 1] \in S
    BY <1>1
  <2>3. r \in [1..n -> S]
    BY <2>1, <2>2
  <2> QED BY <1>1, <2>1, <2>3
<1>5. PICK w : w = SubSeq(r, k + 1, h)
  OBVIOUS
<1>6. w = SkipTake(Reverse(f), k, m)
  BY <1>2, <1>3, <1>4, <1>5 DEF SkipTake
<1>7. /\ w \in Seq(S) /\ Len(w) = IF k + 1 <= h THEN h - k ELSE 0
      /\ \A i \in 1..Len(w) : w[i] = r[k + i] /\ k + i \in 1..n
  BY <1>2, <1>4, <1>5, Window
<1>8. PICK u, v : u = Reverse(w) /\ v = SubSeq(f, n - h + 1, n - k)
  OBVIOUS
<1>9. u \in Seq(S) /\ Len(u) = Len(w) /\ \A i \in 1..Len(w) : u[i] = w[Len(w) - i + 1]
  <2>1. u = [i \in 1..Len(w) |-> w[Len(w) - i + 1]]
    BY <1>8 DEF Reverse
  <2>2. \A i \in 1..Len(w) : Len(w) - i + 1 \in 1..Len(w) /\ w[Len(w) - i + 1] \in S
    BY <1>7
  <2>3. u \in [1..Len(w) -> S] /\ Len(w) \in Nat
    BY <1>7, <2>1, <2>2
  <2> QED BY <2>1, <2>3
<1>10. /\ v \in Seq(S) /\ Len(v) = IF n - h + 1 <= n - k THEN h - k ELSE 0
       /\ \A i \in 1..Len(v) : v[i] = f[(n - h + 1) + i - 1]
  <2>1. PICK a \in Nat \ {0}, b \in Int : a = n - h + 1 /\ b = n - k
    <3>1. h <= n
      BY <1>2
    <3>2. n - h + 1 \in Nat \ {0} /\ n - k \in Int
      BY <3>1
    <3> QED BY <3>2
  <2>2. b <= Len(f) /\ v = SubSeq(f, a, b)
    BY <1>1, <1>8, <2>1
  <2>3. /\ v \in Seq(S) /\ Len(v) = IF a <= b THEN b - a + 1 ELSE 0
        /\ \A i \in 1..Len(v) : v[i] = f[a + i - 1]
    BY <2>2, Window
  <2> QED BY <2>1, <2>3
<1>11. Len(u) = Len(v)
  BY <1>2, <1>7, <1>9, <1>10
<1>12. \A i \in 1..Len(u) : u[i] = v[i]
  <2> TAKE i \in 1..Len(u)
  <2>1. Len(w) = h - k /\ i \in 1..Len(w) /\ i \in 1..Len(v)
    BY <1>2, <1>7, <1>9, <1>11
  <2>2. PICK j \in 1..Len(w) : j = Len(w) - i + 1
    BY <2>1
  <2>3. u[i] = r[k + j] /\ k + j \in 1..n
    BY <1>7, <1>9, <2>1, <2>2
  <2>4. r[k + j] = f[n - (k + j) + 1]
    BY <1>4, <2>3
  <2>5. n - (k + j) + 1 = (n - h + 1) + i - 1
    BY <1>2, <2>1, <2>2
  <2> QED BY <1>10, <2>1, <2>3, <2>4, <2>5
<1>13. u = v
  BY <1>9, <1>10, <1>11, <1>12
<1>14. n - h + 1 = IF k + m < n THEN n - k - m + 1 ELSE 1
  BY <1>2
<1> QED BY <1>1, <1>6, <1>8, <1>13, <1>14

-----------------------------------------------------------------------------
(* Requests and what they read.                                             *)

Ids == Rows \cup {NoId}
Totals == {NotSpecified} \cup 0..Cardinality(Rows)
Cursors == [page : 1..MaxPage, first : Ids, last : Ids, order : Orders]
Requests == [page : 1..MaxPage, size : Nat \ {0}, cursor : Cursors, total : Totals,
             update : BOOLEAN, mark : BOOLEAN]

LEMMA RowSets ==
  ASSUME PaginationAssumption, NEW S \in SUBSET Rows
  PROVE  /\ S \in SUBSET Int /\ IsFiniteSet(S) /\ Cardinality(S) \in 0..Cardinality(Rows)
         /\ Cardinality(Rows) \in Nat /\ NoId \notin S
<1>1. IsFiniteSet(Rows) /\ Rows \subseteq Nat \ {0}
  BY DEF PaginationAssumption
<1>2. IsFiniteSet(S) /\ Cardinality(S) <= Cardinality(Rows)
  BY <1>1, FS_Subset
<1>3. Cardinality(S) \in Nat /\ Cardinality(Rows) \in Nat
  BY <1>1, <1>2, FS_CardinalityType
<1> QED BY <1>1, <1>2, <1>3 DEF NoId

LEMMA ProductType ==
  ASSUME NEW a \in Nat, NEW b \in Nat
  PROVE  a * b \in Nat
OBVIOUS

LEMMA RequestType ==
  ASSUME PaginationAssumption, NEW req \in Requests
  PROVE  /\ req.page \in Nat \ {0} /\ req.size \in Nat \ {0}
         /\ req.cursor.page \in Nat \ {0} /\ req.cursor.page \in Int
         /\ PageDifference(req) \in Nat
         /\ SkipSize(req) \in Nat
         /\ Direction(req) \in {"next", "previous", "refresh"}
<1>1. /\ req.page \in 1..MaxPage /\ req.size \in Nat \ {0} /\ req.cursor.page \in 1..MaxPage
      /\ MaxPage \in Nat
  BY DEF Requests, Cursors, PaginationAssumption
<1>2. PageDifference(req) \in Nat
  BY <1>1 DEF PageDifference
<1>3. PageDifference(req) > 1 => PageDifference(req) - 1 \in Nat
  BY <1>2
<1>4. SkipSize(req) \in Nat
  BY <1>1, <1>3, ProductType DEF SkipSize
<1>5. Direction(req) \in {"next", "previous", "refresh"}
  BY DEF Direction
<1> QED BY <1>1, <1>2, <1>4, <1>5

(* What a request reads is a window of the sorted rows of its query.        *)
Query(rows, req) == Sorted(FilterQueryByCursor(rows, req), req.cursor.order)

Windowed(read, s, k, m, back) ==
  read = IF back
         THEN SubSeq(s, IF k + m < Len(s) THEN Len(s) - k - m + 1 ELSE 1, Len(s) - k)
         ELSE SubSeq(s, k + 1, IF k + m < Len(s) THEN k + m ELSE Len(s))

LEMMA QueryLists ==
  ASSUME PaginationAssumption, NEW rows \in SUBSET Rows, NEW req \in Requests
  PROVE  /\ FilterQueryByCursor(rows, req) \in SUBSET rows
         /\ Lists(Query(rows, req), FilterQueryByCursor(rows, req), req.cursor.order)
         /\ Query(rows, req) \in Seq(FilterQueryByCursor(rows, req))
         /\ Len(Query(rows, req)) \in Nat
         /\ Len(Query(rows, req)) = Cardinality(FilterQueryByCursor(rows, req))
<1> DEFINE F == FilterQueryByCursor(rows, req)
<1>1. F \in SUBSET rows
  BY DEF FilterQueryByCursor
<1>2. F \in SUBSET Int /\ IsFiniteSet(F)
  <2>1. F \in SUBSET Rows
    BY <1>1
  <2> HIDE DEF F
  <2> QED BY <2>1, RowSets
<1>3. Cardinality(F) \in Nat
  BY <1>2, FS_CardinalityType
<1> HIDE DEF F
<1>4. Lists(Sorted(F, req.cursor.order), F, req.cursor.order)
      /\ Len(Sorted(F, req.cursor.order)) = Cardinality(F)
  BY <1>2, SortedLists
<1> QED BY <1>1, <1>3, <1>4 DEF F, Query, Lists

LEMMA Entities ==
  ASSUME PaginationAssumption, NEW rows \in SUBSET Rows, NEW req \in Requests
  PROVE  Windowed(GetEntities(rows, req), Query(rows, req), SkipSize(req), req.size + 1,
                  Direction(req) = "previous")
<1>1. PICK F, s : F = FilterQueryByCursor(rows, req) /\ s = Query(rows, req)
  OBVIOUS
<1>2. PICK k \in Nat, m \in Nat : k = SkipSize(req) /\ m = req.size + 1
  BY RequestType
<1>3. s \in Seq(F) /\ s = Sorted(F, req.cursor.order)
  BY <1>1, QueryLists DEF Query
<1>4. CASE Direction(req) = "previous"
  <2>1. SortByEntityId(F, req) = Reverse(s)
    BY <1>3, <1>4 DEF SortByEntityId
  <2>2. GetEntities(rows, req) = Reverse(SkipTake(Reverse(s), k, m))
    BY <1>1, <1>2, <1>4, <2>1 DEF GetEntities
  <2>3. GetEntities(rows, req) = SubSeq(s, IF k + m < Len(s) THEN Len(s) - k - m + 1 ELSE 1,
                                        Len(s) - k)
    BY <1>3, <2>2, ReverseWindow
  <2> QED BY <1>1, <1>2, <1>4, <2>3 DEF Windowed
<1>5. CASE Direction(req) # "previous"
  <2>1. SortByEntityId(F, req) = s
    BY <1>3, <1>5 DEF SortByEntityId
  <2>2. GetEntities(rows, req) = SubSeq(s, k + 1, IF k + m < Len(s) THEN k + m ELSE Len(s))
    BY <1>1, <1>2, <1>5, <2>1 DEF GetEntities, SkipTake
  <2> QED BY <1>1, <1>2, <1>5, <2>2 DEF Windowed
<1> QED BY <1>4, <1>5

(* It is in the order of the client, and at most one row too long.          *)
LEMMA EntitiesOrdered ==
  ASSUME PaginationAssumption, NEW rows \in SUBSET Rows, NEW req \in Requests
  PROVE  /\ GetEntities(rows, req) \in Seq(FilterQueryByCursor(rows, req))
         /\ Ordered(req.cursor.order, GetEntities(rows, req))
         /\ Len(GetEntities(rows, req)) <= req.size + 1
<1> DEFINE read == GetEntities(rows, req)
           o == req.cursor.order
<1>1. PICK F, s : F = FilterQueryByCursor(rows, req) /\ s = Query(rows, req)
  OBVIOUS
<1>2. PICK k \in Nat : k = SkipSize(req)
  BY RequestType
<1>3. PICK m \in Nat : m = req.size + 1
  BY RequestType
<1>4. /\ Lists(s, F, o) /\ Len(s) \in Nat
      /\ Direction(req) = "previous" =>
           read = SubSeq(s, IF k + m < Len(s) THEN Len(s) - k - m + 1 ELSE 1, Len(s) - k)
      /\ Direction(req) # "previous" =>
           read = SubSeq(s, k + 1, IF k + m < Len(s) THEN k + m ELSE Len(s))
  <2>1. Windowed(read, s, k, m, Direction(req) = "previous")
    BY <1>1, <1>2, <1>3, Entities
  <2> QED BY <1>1, <2>1, QueryLists DEF Windowed
<1>5. s \in Seq(F) /\ Ordered(o, s)
  BY <1>4 DEF Lists
<1> HIDE DEF read, o
<1>6. \E a \in Nat \ {0}, b \in Int : b <= Len(s) /\ b - a + 1 <= m /\ read = SubSeq(s, a, b)
  <2>1. CASE Direction(req) = "previous"
    <3>1. PICK a \in Nat \ {0} : a = IF k + m < Len(s) THEN Len(s) - k - m + 1 ELSE 1
      <4>1. CASE k + m < Len(s)
        <5>1. Len(s) - k - m + 1 \in Nat \ {0}
          BY <1>4, <4>1
        <5> QED BY <4>1, <5>1
      <4>2. CASE ~(k + m < Len(s))
        BY <4>2
      <4> QED BY <4>1, <4>2
    <3>2. Len(s) - k \in Int /\ Len(s) - k <= Len(s) /\ Len(s) - k - a + 1 <= m
      BY <1>4, <3>1
    <3>3. read = SubSeq(s, a, Len(s) - k)
      BY <1>4, <2>1, <3>1
    <3> QED BY <3>2, <3>3
  <2>2. CASE Direction(req) # "previous"
    <3>1. PICK b \in Int : b = IF k + m < Len(s) THEN k + m ELSE Len(s)
      <4>1. k + m \in Int /\ Len(s) \in Int
        BY <1>4
      <4> QED BY <4>1
    <3>2. k + 1 \in Nat \ {0} /\ b <= Len(s) /\ b - (k + 1) + 1 <= m
      BY <1>4, <3>1
    <3>3. read = SubSeq(s, k + 1, b)
      BY <1>4, <2>2, <3>1
    <3> QED BY <3>2, <3>3
  <2> QED BY <2>1, <2>2
<1>7. PICK a \in Nat \ {0}, b \in Int : b <= Len(s) /\ b - a + 1 <= m /\ read = SubSeq(s, a, b)
  BY <1>6
<1>8. read \in Seq(F) /\ Len(read) = (IF a <= b THEN b - a + 1 ELSE 0) /\ Ordered(o, read)
  BY <1>5, <1>7, Window, WindowOrdered
<1>9. Len(read) <= m
  BY <1>7, <1>8
<1> QED BY <1>1, <1>3, <1>8, <1>9 DEF read, o

(* What a client that only moves forward asks for: all rows of the query,   *)
(* or as many as fit and one more that says that there are others.          *)
LEMMA ForwardRead ==
  ASSUME PaginationAssumption, NEW rows \in SUBSET Rows, NEW req \in Requests,
         Direction(req) = "next", SkipSize(req) = 0,
         NEW read, read = GetEntities(rows, req),
         NEW r \in FilterQueryByCursor(rows, req)
  PROVE  \/ \E i \in 1..Len(read) : read[i] = r
         \/ Len(read) = req.size + 1 /\ Before(req.cursor.order, Last(read), r)
<1> DEFINE o == req.cursor.order
<1>1. PICK F, s : F = FilterQueryByCursor(rows, req) /\ s = Query(rows, req)
  OBVIOUS
<1>2. PICK m \in Nat \ {0} : m = req.size + 1
  BY RequestType
<1>3. /\ Lists(s, F, o) /\ Len(s) \in Nat
      /\ read = SubSeq(s, 1, IF m < Len(s) THEN m ELSE Len(s))
  <2>1. PICK k \in Nat : k = SkipSize(req)
    BY RequestType
  <2>4. Windowed(read, s, k, m, Direction(req) = "previous")
    BY <1>1, <1>2, <2>1, Entities
  <2>2. /\ Lists(s, F, o) /\ Len(s) \in Nat
        /\ read = SubSeq(s, k + 1, IF k + m < Len(s) THEN k + m ELSE Len(s))
    BY <1>1, <2>4, QueryLists DEF Windowed
  <2>3. k + 1 = 1 /\ k + m = m
    BY <2>1
  <2> QED BY <2>2, <2>3
<1> HIDE DEF o
<1>4. s \in Seq(F) /\ Ordered(o, s) /\ \A x \in F : \E i \in 1..Len(s) : s[i] = x
  BY <1>3 DEF Lists
<1>5. PICK b \in Nat : b = IF m < Len(s) THEN m ELSE Len(s)
  <2>1. m \in Nat /\ Len(s) \in Nat
    BY <1>3
  <2> QED BY <2>1
<1>6. read = SubSeq(s, 1, b) /\ b <= Len(s)
  BY <1>3, <1>5
<1>7. Len(read) = b /\ \A k \in 1..b : k - 1 + 1 \in 1..Len(read) /\ read[k - 1 + 1] = s[k]
  BY <1>4, <1>5, <1>6, Window
<1>8. \A k \in 1..b : read[k] = s[k]
  BY <1>7
<1>9. PICK k \in 1..Len(s) : s[k] = r
  BY <1>1, <1>4
<1>10. CASE k <= b
  <2>1. k \in 1..Len(read) /\ read[k] = r
    BY <1>5, <1>7, <1>8, <1>9, <1>10
  <2> QED BY <2>1
<1>11. CASE k > b
  <2>1. b = m /\ m \in 1..Len(s) /\ m < k
    BY <1>3, <1>5, <1>11
  <2>2. Last(read) = s[m]
    BY <1>7, <1>8, <2>1 DEF Last
  <2>3. Before(o, s[m], s[k])
    BY <1>4, <2>1 DEF Ordered
  <2> QED BY <1>2, <1>7, <1>9, <2>1, <2>2, <2>3 DEF o
<1> QED BY <1>5, <1>10, <1>11

-----------------------------------------------------------------------------
(* Types.                                                                   *)

(* The rows of a result, of what was read for it.                           *)
Shown(read, req) == IF Len(read) = req.size + 1 THEN TrimExcess(read, req) ELSE read

FirstOf(s) == IF s = <<>> THEN NoId ELSE Head(s)
LastOf(s) == IF s = <<>> THEN NoId ELSE Last(s)

ResultFits(res) ==
  /\ res.request \in Requests
  /\ res.items \in Seq(Rows) /\ Len(res.items) <= res.request.size
  /\ Ordered(res.request.cursor.order, res.items)
  /\ res.first = FirstOf(res.items) /\ res.last = LastOf(res.items)
  /\ res.total \in Totals /\ res.hasNext \in BOOLEAN
  /\ res.hasPrevious <=> res.request.page > 1

Walks == [stayed : SUBSET Rows, shown : Seq(Rows), path : {"none", "next", "back", "jump"},
          fresh : BOOLEAN]

TypeInv ==
  /\ table \in SUBSET Rows /\ writable \in SUBSET Rows
  /\ pc \in {"idle", "items", "count"}
  /\ request \in Requests
  /\ pc = "count" => /\ items \in Seq(Rows) /\ Len(items) <= request.size + 1
                     /\ Ordered(request.cursor.order, items)
  /\ ResultFits(result)
  /\ walk \in Walks

LEMMA ShownFits ==
  ASSUME PaginationAssumption, NEW S, NEW read \in Seq(S), NEW req \in Requests, NEW o,
         Ordered(o, read), Len(read) <= req.size + 1
  PROVE  /\ Shown(read, req) \in Seq(S) /\ Len(Shown(read, req)) <= req.size
         /\ Ordered(o, Shown(read, req))
<1>1. req.size \in Nat \ {0} /\ Len(read) \in Nat
  BY RequestType
<1>2. CASE Len(read) # req.size + 1
  BY <1>1, <1>2 DEF Shown
<1>3. CASE Len(read) = req.size + 1
  <2>1. PICK a \in Nat \ {0}, b \in Int :
          b <= Len(read) /\ b - a + 1 = req.size /\ Shown(read, req) = SubSeq(read, a, b)
    <3>1. CASE Direction(req) = "previous"
      <4>1. PICK a \in Nat \ {0}, b \in Int : a = 2 /\ b = Len(read)
        BY <1>1
      <4>2. b <= Len(read) /\ b - a + 1 = req.size /\ Shown(read, req) = SubSeq(read, a, b)
        BY <1>1, <1>3, <3>1, <4>1 DEF Shown, TrimExcess
      <4> QED BY <4>2
    <3>2. CASE Direction(req) # "previous"
      <4>1. PICK b \in Int : b = Len(read) - 1
        BY <1>1
      <4>2. b <= Len(read) /\ b - 1 + 1 = req.size /\ Shown(read, req) = SubSeq(read, 1, b)
        BY <1>1, <1>3, <3>2, <4>1 DEF Shown, TrimExcess
      <4> QED BY <4>2
    <3> QED BY <3>1, <3>2
  <2>2. /\ SubSeq(read, a, b) \in Seq(S) /\ Ordered(o, SubSeq(read, a, b))
        /\ Len(SubSeq(read, a, b)) = IF a <= b THEN b - a + 1 ELSE 0
    BY <2>1, Window, WindowOrdered
  <2> QED BY <1>1, <2>1, <2>2
<1> QED BY <1>2, <1>3

LEMMA ResultIs ==
  ASSUME NEW read, NEW req, NEW total
  PROVE  /\ Result(read, req, total).request = req
         /\ Result(read, req, total).items = Shown(read, req)
         /\ Result(read, req, total).first = FirstOf(Shown(read, req))
         /\ Result(read, req, total).last = LastOf(Shown(read, req))
         /\ Result(read, req, total).total = total
         /\ Result(read, req, total).hasPrevious <=> req.page > 1
BY DEF Result, Shown, FirstOf, LastOf

LEMMA HasNextIs ==
  ASSUME NEW read, NEW req, NEW total
  PROVE  Result(read, req, total).hasNext <=>
           \/ Direction(req) = "previous"
           \/ Direction(req) = "next" /\ Len(read) = req.size + 1
           \/ total = NotSpecified /\ req.mark = TRUE /\ Direction(req) = "refresh"
           \/ total # NotSpecified /\ req.page < Pages(total, req.size)
BY DEF Result, HasExcess

LEMMA ResultType ==
  ASSUME PaginationAssumption, NEW read \in Seq(Rows), NEW req \in Requests,
         Ordered(req.cursor.order, read), Len(read) <= req.size + 1, NEW total \in Totals
  PROVE  ResultFits(Result(read, req, total))
<1>1. PICK res : res = Result(read, req, total)
  OBVIOUS
<1>2. /\ res.request = req /\ res.items = Shown(read, req)
      /\ res.first = FirstOf(res.items) /\ res.last = LastOf(res.items)
      /\ res.total = total /\ (res.hasPrevious <=> req.page > 1)
  BY <1>1, ResultIs
<1>3. res.hasNext \in BOOLEAN
  BY <1>1 DEF Result
<1>4. /\ res.items \in Seq(Rows) /\ Len(res.items) <= req.size
      /\ Ordered(req.cursor.order, res.items)
  BY <1>2, ShownFits
<1> QED BY <1>1, <1>2, <1>3, <1>4 DEF ResultFits

LEMMA FirstIsId ==
  ASSUME NEW s \in Seq(Rows)
  PROVE  FirstOf(s) \in Ids /\ LastOf(s) \in Ids
<1>1. CASE s = <<>>
  BY <1>1 DEF FirstOf, LastOf, Ids
<1>2. CASE s # <<>>
  <2>1. Len(s) \in 1..Len(s) /\ 1 \in 1..Len(s) /\ Head(s) = s[1]
    BY <1>2
  <2>2. s[1] \in Rows /\ s[Len(s)] \in Rows
    BY <2>1
  <2> QED BY <1>2, <2>1, <2>2 DEF FirstOf, LastOf, Ids, Last
<1> QED BY <1>1, <1>2

LEMMA DefaultIs ==
  ASSUME PaginationAssumption, NEW size \in Nat \ {0}, NEW order \in Orders,
         NEW total \in Totals, NEW update \in BOOLEAN
  PROVE  LET req == DefaultWith(size, order, total, update)
         IN  /\ req \in Requests /\ req.page = 1 /\ req.size = size /\ req.total = total
             /\ req.cursor = InitialCursor(order) /\ req.cursor.order = order
             /\ IsFirstRequest(req.cursor)
<1>1. AtLeastOne(1) = 1 /\ 1 \in 1..MaxPage
  BY DEF AtLeastOne, PaginationAssumption
<1>2. InitialCursor(order) \in Cursors
  BY <1>1 DEF InitialCursor, Cursor, Cursors, Ids
<1> QED BY <1>1, <1>2 DEF DefaultWith, Request, Requests, InitialCursor, Cursor, IsFirstRequest

LEMMA RequestPageIs ==
  ASSUME PaginationAssumption, NEW res, ResultFits(res), NEW page \in Int,
         NEW update \in BOOLEAN, NEW mark \in BOOLEAN
  PROVE  LET req == RequestPage(res, page, update, mark)
         IN  /\ req.page = AtLeastOne(page) /\ req.page \in Nat \ {0}
             /\ req.size = res.request.size
             /\ req.total = res.total /\ req.mark = mark
             /\ req.cursor.page = res.request.page
             /\ req.cursor.first = res.first /\ req.cursor.last = res.last
             /\ req.cursor.order = res.request.cursor.order
             /\ req.page <= MaxPage => req \in Requests
<1>1. AtLeastOne(page) \in Nat \ {0}
  BY DEF AtLeastOne
<1>2. res.first \in Ids /\ res.last \in Ids
  BY FirstIsId DEF ResultFits
<1>3. /\ res.request.page \in 1..MaxPage /\ res.request.size \in Nat \ {0}
      /\ res.request.cursor.order \in Orders /\ res.total \in Totals
  BY DEF ResultFits, Requests, Cursors
<1>4. Cursor(res.request.page, res.first, res.last, res.request.cursor.order) \in Cursors
  BY <1>2, <1>3 DEF Cursor, Cursors
<1>5. AtLeastOne(page) <= MaxPage => AtLeastOne(page) \in 1..MaxPage
  BY <1>1 DEF PaginationAssumption
<1> QED BY <1>1, <1>3, <1>4, <1>5 DEF RequestPage, Request, Requests, Cursor

(* A request that is asked, or refused.                                     *)
Accepted(req) ==
  \/ IsFirstRequest(req.cursor)
  \/ CursorId(req) # NoId /\ req.cursor.first # NoId /\ req.cursor.last # NoId

LEMMA AskIs ==
  ASSUME NEW req, Ask(req)
  PROVE  /\ req.page <= MaxPage
         /\ UNCHANGED <<table, writable, items, result>>
         /\ Accepted(req) => pc' = "items" /\ request' = req /\ refused' = FALSE
         /\ ~Accepted(req) => pc' = "idle" /\ request' = request /\ refused' = TRUE
BY DEF Ask, Accepted

LEMMA AskType ==
  ASSUME TypeInv, NEW req, Ask(req), req \in Requests, walk' \in Walks
  PROVE  TypeInv'
<1>1. /\ UNCHANGED <<table, writable, items, result>>
      /\ pc' \in {"idle", "items"} /\ request' \in {req, request}
  BY DEF Ask
<1> QED BY <1>1 DEF TypeInv

LEMMA MovedIs ==
  ASSUME NEW w \in Walks, walk = w, NEW path \in {"next", "back", "jump"}
  PROVE  /\ Moved(path) \in Walks
         /\ Moved(path).fresh = walk.fresh
         /\ Moved(path).path \in {walk.path, path}
         /\ Moved(path).path = "next" => Moved(path) = walk /\ path = "next"
         /\ path = "jump" => Moved(path).path = "jump"
<1>1. CASE walk.path = "next" /\ path # "next"
  <2>1. Moved(path) = [walk EXCEPT !.path = path, !.shown = <<>>, !.stayed = {}]
    BY <1>1 DEF Moved
  <2>2. {} \in SUBSET Rows /\ <<>> \in Seq(Rows)
    OBVIOUS
  <2> QED BY <1>1, <2>1, <2>2 DEF Walks
<1>2. CASE ~(walk.path = "next" /\ path # "next") /\ path = "jump"
  <2>1. Moved(path) = [walk EXCEPT !.path = path]
    BY <1>2 DEF Moved
  <2> QED BY <1>2, <2>1 DEF Walks
<1>3. CASE ~(walk.path = "next" /\ path # "next") /\ path # "jump"
  <2>1. Moved(path) = walk
    BY <1>3 DEF Moved
  <2> QED BY <1>3, <2>1 DEF Walks
<1> QED BY <1>1, <1>2, <1>3

LEMMA OpenedIs ==
  ASSUME TypeInv, NEW fresh \in BOOLEAN
  PROVE  /\ Opened \in Walks /\ [Opened EXCEPT !.fresh = fresh] \in Walks
         /\ [Opened EXCEPT !.fresh = fresh]
              = [stayed |-> table, shown |-> <<>>, path |-> "next", fresh |-> fresh]
         /\ Opened = [stayed |-> table, shown |-> <<>>, path |-> "next", fresh |-> TRUE]
<1>1. <<>> \in Seq(Rows) /\ table \in SUBSET Rows
  BY DEF TypeInv
<1>2. [Opened EXCEPT !.fresh = fresh]
        = [stayed |-> table, shown |-> <<>>, path |-> "next", fresh |-> fresh]
  BY DEF Opened
<1>3. \A b \in BOOLEAN :
        [stayed |-> table, shown |-> <<>>, path |-> "next", fresh |-> b] \in Walks
  BY <1>1 DEF Walks
<1> QED BY <1>2, <1>3 DEF Opened

(* The request of a jump.                                                   *)
FromFits(req, res, size, order, update) ==
  /\ req \in Requests /\ req.total = res.total
  /\ \/ /\ order # res.request.cursor.order \/ size # res.request.size
        /\ req = DefaultWith(size, order, res.total, update)
     \/ /\ ~(order # res.request.cursor.order \/ size # res.request.size)
        /\ \E page \in Int, mark \in BOOLEAN : req = RequestPage(res, page, update, mark)

LEMMA FromIs ==
  ASSUME PaginationAssumption, NEW res, ResultFits(res), NEW jumpTo \in Int,
         NEW size \in Nat \ {0}, NEW order \in Orders, NEW update \in BOOLEAN,
         From(res, jumpTo, size, order, update).page <= MaxPage
  PROVE  FromFits(From(res, jumpTo, size, order, update), res, size, order, update)
<1> PICK req : req = From(res, jumpTo, size, order, update)
  OBVIOUS
<1> SUFFICES FromFits(req, res, size, order, update)
  OBVIOUS
<1>0. req.page <= MaxPage
  OBVIOUS
<1>1. /\ res.total \in Totals /\ res.hasNext \in BOOLEAN /\ res.request.page \in Int
      /\ MaxJump \in Int
  BY DEF ResultFits, Requests, PaginationAssumption
<1>2. CASE order # res.request.cursor.order \/ size # res.request.size
  <2>1. req = DefaultWith(size, order, res.total, update)
    BY <1>2 DEF From
  <2> QED BY <1>1, <1>2, <2>1, DefaultIs DEF FromFits
<1>3. CASE ~(order # res.request.cursor.order \/ size # res.request.size)
  <2>1. \E page \in Int, mark \in BOOLEAN : req = RequestPage(res, page, update, mark)
    <3>1. CASE res.request.page = jumpTo
      <4>1. req = RequestPage(res, res.request.page, update, res.hasNext)
        BY <1>3, <3>1 DEF From, RequestRefresh
      <4> QED BY <1>1, <4>1
    <3>2. CASE res.request.page # jumpTo
      <4>1. PICK target \in Int :
              target = CASE res.request.page - jumpTo > MaxJump  -> res.request.page + MaxJump
                         [] res.request.page - jumpTo < -MaxJump -> res.request.page - MaxJump
                         [] OTHER -> jumpTo
        <5>1. res.request.page + MaxJump \in Int /\ res.request.page - MaxJump \in Int
          BY <1>1
        <5> QED BY <5>1
      <4>2. req = RequestPage(res, AtLeastOne(target), update, FALSE)
        BY <1>3, <3>2, <4>1 DEF From
      <4>3. AtLeastOne(target) \in Int
        BY DEF AtLeastOne
      <4> QED BY <4>2, <4>3
    <3> QED BY <3>1, <3>2
  <2>2. PICK page \in Int, mark \in BOOLEAN : req = RequestPage(res, page, update, mark)
    BY <2>1
  <2>3. req \in Requests /\ req.total = res.total
    BY <1>0, <2>2, RequestPageIs
  <2> QED BY <1>3, <2>1, <2>3 DEF FromFits
<1> QED BY <1>2, <1>3

LEMMA InitType ==
  ASSUME PaginationAssumption, Init
  PROVE  TypeInv /\ walk.path = "none" /\ walk.fresh = FALSE
<1>1. DefaultWith(1, "asc", NotSpecified, FALSE) \in Requests
  <2>1. AtLeastOne(1) = 1 /\ 1 \in 1..MaxPage /\ "asc" \in Orders
    BY DEF AtLeastOne, PaginationAssumption, Orders
  <2>2. InitialCursor("asc") \in Cursors
    BY <2>1 DEF InitialCursor, Cursor, Cursors, Ids
  <2> QED BY <2>1, <2>2 DEF DefaultWith, Request, Requests, Totals
<1>2. PICK req \in Requests : /\ req = DefaultWith(1, "asc", NotSpecified, FALSE)
                              /\ req.page = 1 /\ req.size = 1
  BY <1>1 DEF DefaultWith, Request, AtLeastOne
<1>3. result = [request |-> req, items |-> <<>>, first |-> NoId, last |-> NoId,
                total |-> NotSpecified, hasPrevious |-> FALSE, hasNext |-> FALSE]
      /\ request = req
  BY <1>2 DEF Init, NoResult
<1>4. <<>> \in Seq(Rows) /\ Len(<<>>) = 0 /\ Len(<<>>) <= 1
  OBVIOUS
<1>5. Ordered(req.cursor.order, <<>>)
  BY <1>4 DEF Ordered
<1>6. ResultFits(result)
  <2>1. /\ result.request = req /\ result.items = <<>> /\ result.first = NoId
        /\ result.last = NoId /\ result.total = NotSpecified
        /\ result.hasPrevious = FALSE /\ result.hasNext = FALSE
    BY <1>3
  <2>2. result.hasPrevious <=> result.request.page > 1
    <3>1. ~result.hasPrevious
      BY <2>1, Zenon
    <3>2. ~(result.request.page > 1)
      <4>1. result.request.page = 1
        BY <1>2, <2>1, Zenon
      <4> QED BY <4>1
    <3> QED BY <3>1, <3>2
  <2>3. result.items \in Seq(Rows) /\ Len(result.items) <= result.request.size
    BY <1>2, <1>4, <2>1
  <2>4. Ordered(result.request.cursor.order, result.items)
    BY <1>5, <2>1
  <2>5. result.first = FirstOf(result.items) /\ result.last = LastOf(result.items)
    BY <2>1 DEF FirstOf, LastOf
  <2>6. result.total \in Totals /\ result.hasNext \in BOOLEAN
    BY <2>1 DEF Totals
  <2> QED BY <2>1, <2>2, <2>3, <2>4, <2>5, <2>6 DEF ResultFits
<1>7. walk \in Walks /\ walk.path = "none" /\ walk.fresh = FALSE
  BY <1>4 DEF Init, Unopened, Walks
<1> QED BY <1>3, <1>6, <1>7 DEF Init, TypeInv

LEMMA PublishType ==
  ASSUME PaginationAssumption, TypeInv, NEW read \in Seq(Rows), NEW total \in Totals,
         Publish(read, total), Ordered(request.cursor.order, read),
         Len(read) <= request.size + 1, UNCHANGED <<table, writable, request>>
  PROVE  TypeInv' /\ result' = Result(read, request, total)
<1>1. /\ pc' = "idle" /\ result' = Result(read, request, total)
      /\ walk' = IF walk.path = "next" THEN [walk EXCEPT !.shown = @ \o result'.items] ELSE walk
  BY DEF Publish
<1>2. ResultFits(result')
  BY <1>1, ResultType DEF TypeInv
<1>3. walk' \in Walks
  <2>1. result'.items \in Seq(Rows) /\ walk \in Walks
    BY <1>2 DEF ResultFits, TypeInv
  <2>2. walk.shown \o result'.items \in Seq(Rows)
    BY <2>1 DEF Walks
  <2> QED BY <1>1, <2>1, <2>2 DEF Walks
<1>4. ResultFits(result)'
  BY <1>2 DEF ResultFits
<1> QED BY <1>1, <1>3, <1>4 DEF TypeInv

LEMMA SeqGrows ==
  ASSUME NEW S, NEW T, S \subseteq T
  PROVE  Seq(S) \subseteq Seq(T)
<1> SUFFICES ASSUME NEW f \in Seq(S) PROVE f \in Seq(T)
  OBVIOUS
<1>1. Len(f) \in Nat /\ f = [i \in 1..Len(f) |-> f[i]] /\ \A i \in 1..Len(f) : f[i] \in T
  OBVIOUS
<1>2. f \in [1..Len(f) -> T]
  BY <1>1
<1> QED BY <1>1, <1>2

LEMMA ReadType ==
  ASSUME PaginationAssumption, TypeInv
  PROVE  /\ GetEntities(table, request) \in Seq(Rows)
         /\ Ordered(request.cursor.order, GetEntities(table, request))
         /\ Len(GetEntities(table, request)) <= request.size + 1
<1>1. table \in SUBSET Rows /\ request \in Requests
  BY DEF TypeInv
<1>2. PICK F : F = FilterQueryByCursor(table, request)
  OBVIOUS
<1>3. F \subseteq Rows
  BY <1>1, <1>2, QueryLists
<1>4. /\ GetEntities(table, request) \in Seq(F)
      /\ Ordered(request.cursor.order, GetEntities(table, request))
      /\ Len(GetEntities(table, request)) <= request.size + 1
  BY <1>1, <1>2, EntitiesOrdered
<1>5. Seq(F) \subseteq Seq(Rows)
  BY <1>3, SeqGrows
<1> QED BY <1>4, <1>5

LEMMA CountType ==
  ASSUME PaginationAssumption, TypeInv
  PROVE  Cardinality(table) \in Totals /\ request.total \in Totals
<1>1. table \in SUBSET Rows /\ request \in Requests
  BY DEF TypeInv
<1>2. Cardinality(table) \in 0..Cardinality(Rows)
  BY <1>1, RowSets
<1> QED BY <1>1, <1>2 DEF Totals, Requests

(* The requests a client can make, with what they do to its walk.           *)
Asks(req) ==
  \/ \E size \in PageSizes, order \in Orders, update \in BOOLEAN :
       /\ req = DefaultWith(size, order, NotSpecified, update)
       /\ walk' = Opened
  \/ \E size \in PageSizes, order \in Orders, update \in BOOLEAN :
       /\ result # NoResult
       /\ req = DefaultWith(size, order, result.total, update)
       /\ walk' = [Opened EXCEPT !.fresh = walk.fresh]
  \/ \E page \in Int, update \in BOOLEAN, mark \in BOOLEAN :
       /\ result # NoResult
       /\ req = RequestPage(result, page, update, mark)
       /\ walk' = Moved("jump")
  \/ \E update \in BOOLEAN :
       /\ result.hasNext
       /\ req = RequestPage(result, result.request.page + 1, update, FALSE)
       /\ walk' = Moved("next")
  \/ \E update \in BOOLEAN :
       /\ result.hasPrevious
       /\ req = RequestPage(result, result.request.page - 1, update, FALSE)
       /\ walk' = Moved("back")
  \/ \E update \in BOOLEAN :
       /\ result # NoResult
       /\ req = RequestPage(result, result.request.page, update, result.hasNext)
       /\ walk' = Moved("back")

LEMMA Steps ==
  ASSUME PaginationAssumption, TypeInv, Next
  PROVE  \/ \E req \in Requests : pc = "idle" /\ Asks(req) /\ Ask(req)
         \/ ReadItems
         \/ CountRows
         \/ \E r \in Rows : Insert(r) \/ Delete(r)
<1>1. ResultFits(result)
  BY DEF TypeInv
<1>2. /\ result.request.page \in Nat /\ result.request.page + 1 \in Int
      /\ result.request.page - 1 \in Int /\ result.request.page \in Int
      /\ result.hasNext \in BOOLEAN /\ result.total \in Totals
  BY <1>1 DEF ResultFits, Requests
<1>3. \A size \in PageSizes : size \in Nat \ {0}
  BY DEF PaginationAssumption
<1>4. ASSUME NEW size \in PageSizes, NEW order \in Orders, NEW update \in BOOLEAN,
             Start(size, order, update)
      PROVE  \E req \in Requests : pc = "idle" /\ Asks(req) /\ Ask(req)
  <2>1. PICK req : req = DefaultWith(size, order, NotSpecified, update)
    OBVIOUS
  <2>2. req \in Requests
    BY <1>3, <2>1, DefaultIs DEF Totals
  <2>3. pc = "idle" /\ Ask(req) /\ walk' = Opened
    BY <1>4, <2>1 DEF Start
  <2> QED BY <2>1, <2>2, <2>3 DEF Asks
<1>5. ASSUME NEW size \in PageSizes, NEW order \in Orders, NEW update \in BOOLEAN,
             NEW jumpTo \in JumpTargets, Jump(jumpTo, size, order, update)
      PROVE  \E req \in Requests : pc = "idle" /\ Asks(req) /\ Ask(req)
  <2>1. PICK req : req = From(result, jumpTo, size, order, update)
    OBVIOUS
  <2>2. pc = "idle" /\ Ask(req) /\ result # NoResult
        /\ walk' = IF order # result.request.cursor.order \/ size # result.request.size
                   THEN [Opened EXCEPT !.fresh = walk.fresh] ELSE Moved("jump")
    BY <1>5, <2>1 DEF Jump
  <2>3. req.page <= MaxPage /\ jumpTo \in Int /\ size \in Nat \ {0}
    BY <1>3, <2>2, AskIs DEF PaginationAssumption
  <2>4. /\ req \in Requests /\ req.total = result.total
        /\ \/ /\ order # result.request.cursor.order \/ size # result.request.size
              /\ req = DefaultWith(size, order, result.total, update)
           \/ /\ ~(order # result.request.cursor.order \/ size # result.request.size)
              /\ \E page \in Int, mark \in BOOLEAN : req = RequestPage(result, page, update, mark)
    BY <1>1, <2>1, <2>3, FromIs DEF FromFits
  <2>5. Asks(req)
    BY <2>2, <2>4 DEF Asks
  <2> QED BY <2>2, <2>4, <2>5
<1>6. ASSUME NEW update \in BOOLEAN, NextPage(update)
      PROVE  \E req \in Requests : pc = "idle" /\ Asks(req) /\ Ask(req)
  <2>1. PICK req : req = RequestPage(result, result.request.page + 1, update, FALSE)
    OBVIOUS
  <2>2. pc = "idle" /\ Ask(req) /\ result.hasNext /\ walk' = Moved("next")
    BY <1>6, <2>1 DEF NextPage
  <2>3. req \in Requests
    BY <1>1, <1>2, <2>1, <2>2, RequestPageIs, AskIs
  <2> QED BY <2>1, <2>2, <2>3 DEF Asks
<1>7. ASSUME NEW update \in BOOLEAN, PreviousPage(update)
      PROVE  \E req \in Requests : pc = "idle" /\ Asks(req) /\ Ask(req)
  <2>1. PICK req : req = RequestPage(result, result.request.page - 1, update, FALSE)
    OBVIOUS
  <2>2. pc = "idle" /\ Ask(req) /\ result.hasPrevious /\ walk' = Moved("back")
    BY <1>7, <2>1 DEF PreviousPage
  <2>3. req \in Requests
    BY <1>1, <1>2, <2>1, <2>2, RequestPageIs, AskIs
  <2> QED BY <2>1, <2>2, <2>3 DEF Asks
<1>8. ASSUME NEW update \in BOOLEAN, Refresh(update)
      PROVE  \E req \in Requests : pc = "idle" /\ Asks(req) /\ Ask(req)
  <2>1. PICK req : req = RequestPage(result, result.request.page, update, result.hasNext)
    OBVIOUS
  <2>2. pc = "idle" /\ Ask(req) /\ result # NoResult /\ walk' = Moved("back")
    BY <1>8, <2>1 DEF Refresh, RequestRefresh
  <2>3. req \in Requests
    BY <1>1, <1>2, <2>1, <2>2, RequestPageIs, AskIs
  <2> QED BY <2>1, <2>2, <2>3 DEF Asks
<1> QED BY <1>4, <1>5, <1>6, <1>7, <1>8 DEF Next

LEMMA AsksType ==
  ASSUME TypeInv, NEW req, Asks(req)
  PROVE  walk' \in Walks
<1>1. walk \in Walks /\ walk.fresh \in BOOLEAN
  BY DEF TypeInv, Walks
<1>2. /\ Opened \in Walks /\ [Opened EXCEPT !.fresh = walk.fresh] \in Walks
      /\ \A path \in {"next", "back", "jump"} : Moved(path) \in Walks
  BY <1>1, OpenedIs, MovedIs
<1> QED BY <1>2 DEF Asks

(* Another transaction inserts or deletes a row.                            *)
LEMMA ChangeType ==
  ASSUME TypeInv, NEW r \in Rows, Insert(r) \/ Delete(r)
  PROVE  /\ TypeInv' /\ UNCHANGED <<pc, request, items, result, refused>>
         /\ walk'.fresh = FALSE /\ walk'.path = walk.path /\ walk'.shown = walk.shown
         /\ walk'.stayed \subseteq walk.stayed
         /\ walk.stayed \subseteq table => walk'.stayed \subseteq table'
<1>1. walk \in Walks
  BY DEF TypeInv
<1>2. CASE Insert(r)
  <2>1. table' = table \cup {r} /\ walk' = [walk EXCEPT !.fresh = FALSE]
        /\ UNCHANGED <<writable, pc, request, items, result, refused>>
    BY <1>2 DEF Insert
  <2>2. walk' \in Walks /\ walk'.fresh = FALSE /\ walk'.path = walk.path
        /\ walk'.shown = walk.shown /\ walk'.stayed = walk.stayed
    BY <1>1, <2>1 DEF Walks
  <2> QED BY <2>1, <2>2 DEF TypeInv
<1>3. CASE Delete(r)
  <2>1. table' = table \ {r} /\ writable' = writable \ {r}
        /\ walk' = [walk EXCEPT !.stayed = @ \ {r}, !.fresh = FALSE]
        /\ UNCHANGED <<pc, request, items, result, refused>>
    BY <1>3 DEF Delete
  <2>2. walk' \in Walks /\ walk'.fresh = FALSE /\ walk'.path = walk.path
        /\ walk'.shown = walk.shown /\ walk'.stayed = walk.stayed \ {r}
    BY <1>1, <2>1 DEF Walks
  <2> QED BY <2>1, <2>2 DEF TypeInv
<1> QED BY <1>2, <1>3

LEMMA TypeStep ==
  ASSUME PaginationAssumption, TypeInv, [Next]_vars
  PROVE  TypeInv'
<1>1. CASE UNCHANGED vars
  BY <1>1 DEF vars, TypeInv, ResultFits
<1>2. CASE Next
  <2>1. ASSUME NEW req \in Requests, Asks(req), Ask(req) PROVE TypeInv'
    BY <2>1, AskType, AsksType
  <2>2. CASE ReadItems
    <3>1. PICK read : read = GetEntities(table, request)
      OBVIOUS
    <3>2. UNCHANGED <<table, writable, request>>
      BY <2>2 DEF ReadItems
    <3>3. CASE request.update
      <4>1. pc' = "count" /\ items' = read /\ UNCHANGED <<result, walk>>
        BY <2>2, <3>1, <3>3 DEF ReadItems
      <4> QED BY <3>1, <3>2, <4>1, ReadType DEF TypeInv, ResultFits
    <3>4. CASE ~request.update
      <4>1. Publish(read, request.total)
        BY <2>2, <3>1, <3>4 DEF ReadItems
      <4> QED BY <3>1, <3>2, <4>1, ReadType, CountType, PublishType
    <3> QED BY <3>3, <3>4
  <2>3. CASE CountRows
    <3>1. pc = "count" /\ Publish(items, Cardinality(table)) /\ UNCHANGED <<table, writable, request>>
      BY <2>3 DEF CountRows
    <3>2. items \in Seq(Rows) /\ Len(items) <= request.size + 1
          /\ Ordered(request.cursor.order, items)
      BY <3>1 DEF TypeInv
    <3> QED BY <3>1, <3>2, CountType, PublishType
  <2>4. ASSUME NEW r \in Rows, Insert(r) \/ Delete(r) PROVE TypeInv'
    BY <2>4, ChangeType
  <2> QED BY <1>2, <2>1, <2>2, <2>3, <2>4, Steps
<1> QED BY <1>1, <1>2

LEMMA TypeInvariant == Spec => []TypeInv
<1>1. Init => TypeInv
  BY PaginationAssumption, InitType
<1>2. TypeInv /\ [Next]_vars => TypeInv'
  BY PaginationAssumption, TypeStep
<1> QED BY <1>1, <1>2, PTL DEF Spec

(* A page holds at most as many rows as the client asked for, in its order, *)
(* the ids a result continues from are those of rows, and a request is for  *)
(* a page from one on (PaginationRequest, PaginationResult).                *)
THEOREM TypeCorrect == Spec => []TypeOK
<1>1. TypeInv => TypeOK
  <2> SUFFICES ASSUME TypeInv PROVE TypeOK
    OBVIOUS
  <2>1. ResultFits(result)
    BY DEF TypeInv
  <2>2. result.first \in Rows \cup {NoId} /\ result.last \in Rows \cup {NoId}
    BY <2>1, FirstIsId DEF ResultFits, Ids
  <2>3. DOMAIN result.items = 1..Len(result.items)
    BY <2>1 DEF ResultFits
  <2>4. \A i, j \in DOMAIN result.items :
          i < j => Before(result.request.cursor.order, result.items[i], result.items[j])
    BY <2>1, <2>3 DEF ResultFits, Ordered
  <2> QED BY <2>1, <2>2, <2>4 DEF TypeInv, TypeOK, ResultFits, Requests, Totals, Walks
<1> QED BY <1>1, TypeInvariant, PTL

-----------------------------------------------------------------------------
(* A client that moves from page to page sees what stays.                   *)

Listed(r, s) == \E i \in 1..Len(s) : s[i] = r
Follows(o, s, r) == s = <<>> \/ Before(o, Last(s), r)

(* Every row that stayed was shown, or stands after those that were.        *)
StayedFits(o, shown, stayed) ==
  \A r \in stayed : Listed(r, shown) \/ Follows(o, shown, r)

(* The request for the page after the rows that were shown.                 *)
WalkAsks(req, shown) ==
  /\ Direction(req) = "next" /\ SkipSize(req) = 0
  /\ req.page = 1 => shown = <<>>
  /\ \/ IsFirstRequest(req.cursor) /\ shown = <<>>
     \/ ~IsFirstRequest(req.cursor) /\ shown # <<>> /\ req.cursor.last = Last(shown)

(* What was read stands after what was shown; of the rows that stayed none  *)
(* is skipped, and others follow only if one row too many was read.         *)
ReadFits(read, req, shown, stayed) ==
  /\ Direction(req) = "next"
  /\ req.page = 1 => shown = <<>>
  /\ \A i \in 1..Len(read) : Follows(req.cursor.order, shown, read[i])
  /\ \A r \in stayed :
       \/ Listed(r, shown)
       \/ Listed(r, read)
       \/ Len(read) = req.size + 1 /\ Before(req.cursor.order, Last(read), r)

(* A result continues from the last row that was shown.                     *)
PageFits(res, shown, stayed) ==
  /\ res.items # <<>> => shown # <<>> /\ res.last = Last(shown)
  /\ res.items = <<>> /\ res.request.page = 1 => shown = <<>>
  /\ res.hasNext \/ \A r \in stayed : Listed(r, shown)

WalkInv == walk.path = "next" =>
  /\ walk.stayed \subseteq table
  /\ Ordered(request.cursor.order, walk.shown)
  /\ pc = "items" => WalkAsks(request, walk.shown)
  /\ pc = "count" => ReadFits(items, request, walk.shown, walk.stayed)
  /\ pc # "count" => StayedFits(request.cursor.order, walk.shown, walk.stayed)
  /\ pc = "idle" => request = result.request /\ PageFits(result, walk.shown, walk.stayed)

LEMMA Concatenation ==
  ASSUME NEW o, NEW f \in Seq(Rows), NEW g \in Seq(Rows)
  PROVE  /\ f \o g \in Seq(Rows)
         /\ \A r : Listed(r, f) \/ Listed(r, g) => Listed(r, f \o g)
         /\ g # <<>> => f \o g # <<>> /\ Last(f \o g) = Last(g)
         /\ g = <<>> => f \o g = f
<1>1. PICK h : h = f \o g
  OBVIOUS
<1>2. /\ h \in Seq(Rows) /\ Len(h) = Len(f) + Len(g) /\ Len(f) \in Nat /\ Len(g) \in Nat
      /\ \A i \in 1..Len(h) : h[i] = IF i <= Len(f) THEN f[i] ELSE g[i - Len(f)]
  BY <1>1
<1>3. ASSUME NEW r, Listed(r, f) PROVE Listed(r, h)
  <2>1. PICK i \in 1..Len(f) : f[i] = r
    BY <1>3 DEF Listed
  <2>2. i \in 1..Len(h) /\ h[i] = r
    BY <1>2, <2>1
  <2> QED BY <2>2 DEF Listed
<1>4. ASSUME NEW r, Listed(r, g) PROVE Listed(r, h)
  <2>1. PICK i \in 1..Len(g) : g[i] = r
    BY <1>4 DEF Listed
  <2>2. PICK j \in 1..Len(h) : j = Len(f) + i
    BY <1>2
  <2>3. h[j] = r
    BY <1>2, <2>1, <2>2
  <2> QED BY <2>3 DEF Listed
<1>5. ASSUME g # <<>> PROVE h # <<>> /\ Last(h) = Last(g)
  <2>1. Len(g) > 0
    BY <1>2, <1>5
  <2>2. Len(h) \in 1..Len(h) /\ ~(Len(h) <= Len(f)) /\ Len(h) - Len(f) = Len(g)
    BY <1>2, <2>1
  <2> QED BY <1>2, <2>2 DEF Last
<1>6. g = <<>> => h = f
  BY <1>1
<1> QED BY <1>1, <1>2, <1>3, <1>4, <1>5, <1>6

LEMMA OrderedConcatenation ==
  ASSUME PaginationAssumption, NEW o, NEW f \in Seq(Rows), NEW g \in Seq(Rows),
         Ordered(o, f), Ordered(o, g), \A i \in 1..Len(g) : Follows(o, f, g[i])
  PROVE  Ordered(o, f \o g)
<1>1. PICK h : h = f \o g
  OBVIOUS
<1>2. /\ h \in Seq(Rows) /\ Len(h) = Len(f) + Len(g) /\ Len(f) \in Nat /\ Len(g) \in Nat
      /\ \A i \in 1..Len(h) : h[i] = IF i <= Len(f) THEN f[i] ELSE g[i - Len(f)]
  BY <1>1
<1>3. \A i \in 1..Len(f), j \in 1..Len(g) : Before(o, f[i], g[j])
  <2> TAKE i \in 1..Len(f), j \in 1..Len(g)
  <2>1. /\ f[i] \in Rows /\ g[j] \in Rows /\ f[Len(f)] \in Rows /\ Rows \subseteq Int
        /\ f # <<>> /\ Len(f) \in 1..Len(f)
    BY <1>2 DEF PaginationAssumption
  <2>2. Before(o, f[Len(f)], g[j])
    BY <2>1 DEF Follows, Last
  <2>3. i = Len(f) \/ Before(o, f[i], f[Len(f)])
    BY <2>1 DEF Ordered
  <2> QED BY <2>1, <2>2, <2>3, BeforeIsTransitive
<1>4. ASSUME NEW i \in 1..Len(h), NEW j \in 1..Len(h), i < j PROVE Before(o, h[i], h[j])
  <2>1. CASE j <= Len(f)
    <3>1. i \in 1..Len(f) /\ j \in 1..Len(f)
      BY <1>2, <1>4, <2>1
    <3>2. h[i] = f[i] /\ h[j] = f[j]
      BY <1>2, <3>1
    <3> QED BY <1>4, <3>1, <3>2 DEF Ordered
  <2>2. CASE i <= Len(f) /\ j > Len(f)
    <3>1. i \in 1..Len(f) /\ j - Len(f) \in 1..Len(g)
      BY <1>2, <2>2
    <3>2. h[i] = f[i] /\ h[j] = g[j - Len(f)]
      BY <1>2, <2>2
    <3> QED BY <1>3, <3>1, <3>2
  <2>3. CASE i > Len(f)
    <3>1. i - Len(f) \in 1..Len(g) /\ j - Len(f) \in 1..Len(g) /\ i - Len(f) < j - Len(f)
      BY <1>2, <1>4, <2>3
    <3>2. h[i] = g[i - Len(f)] /\ h[j] = g[j - Len(f)]
      BY <1>2, <1>4, <2>3
    <3> QED BY <3>1, <3>2 DEF Ordered
  <2> QED BY <1>2, <2>1, <2>2, <2>3
<1> QED BY <1>1, <1>4 DEF Ordered

LEMMA WalkReads ==
  ASSUME PaginationAssumption, NEW rows \in SUBSET Rows, NEW req \in Requests,
         NEW shown, NEW stayed, stayed \subseteq rows,
         WalkAsks(req, shown), StayedFits(req.cursor.order, shown, stayed)
  PROVE  ReadFits(GetEntities(rows, req), req, shown, stayed)
<1> DEFINE o == req.cursor.order
<1>1. PICK F, read : F = FilterQueryByCursor(rows, req) /\ read = GetEntities(rows, req)
  OBVIOUS
<1>2. read \in Seq(F) /\ \A i \in 1..Len(read) : read[i] \in F
  BY <1>1, EntitiesOrdered
<1>5. ASSUME NEW r \in F
      PROVE  Listed(r, read) \/ (Len(read) = req.size + 1 /\ Before(o, Last(read), r))
  <2>1. Direction(req) = "next" /\ SkipSize(req) = 0 /\ r \in FilterQueryByCursor(rows, req)
    BY <1>1 DEF WalkAsks
  <2> QED BY <1>1, <2>1, ForwardRead DEF Listed
<1>3. CASE IsFirstRequest(req.cursor) /\ shown = <<>>
  <2>1. F = rows
    BY <1>1, <1>3 DEF FilterQueryByCursor
  <2>2. \A i \in 1..Len(read) : Follows(o, shown, read[i])
    BY <1>3 DEF Follows
  <2>3. \A r \in stayed : r \in F
    BY <2>1
  <2>4. \A r \in stayed : Listed(r, read) \/ (Len(read) = req.size + 1 /\ Before(o, Last(read), r))
    BY <1>5, <2>3
  <2> QED BY <1>1, <2>2, <2>4 DEF ReadFits, WalkAsks
<1>4. CASE ~IsFirstRequest(req.cursor) /\ shown # <<>> /\ req.cursor.last = Last(shown)
  <2>1. F = {r \in rows : Before(o, Last(shown), r)}
    BY <1>1, <1>4 DEF FilterQueryByCursor, WalkAsks
  <2>2. \A i \in 1..Len(read) : Follows(o, shown, read[i])
    BY <1>2, <2>1 DEF Follows
  <2>3. \A r \in stayed : Listed(r, shown) \/ r \in F
    BY <1>4, <2>1 DEF StayedFits, Follows
  <2>4. \A r \in stayed : \/ Listed(r, shown)
                          \/ Listed(r, read)
                          \/ Len(read) = req.size + 1 /\ Before(o, Last(read), r)
    BY <1>5, <2>3
  <2> QED BY <1>1, <2>2, <2>4 DEF ReadFits, WalkAsks
<1> QED BY <1>3, <1>4 DEF WalkAsks

(* A result shows what was read, but for the excess row, which then follows *)
(* and of which HasNext tells.                                             *)
LEMMA WalkShows ==
  ASSUME PaginationAssumption, NEW req \in Requests, NEW read \in Seq(Rows),
         Ordered(req.cursor.order, read), Len(read) <= req.size + 1, NEW total,
         NEW shown \in Seq(Rows), Ordered(req.cursor.order, shown),
         NEW stayed \in SUBSET Rows, ReadFits(read, req, shown, stayed),
         NEW res, res = Result(read, req, total),
         NEW after, after = shown \o res.items
  PROVE  /\ Ordered(req.cursor.order, after)
         /\ StayedFits(req.cursor.order, after, stayed)
         /\ PageFits(res, after, stayed)
<1> DEFINE o == req.cursor.order
<1>1. PICK sh : sh = Shown(read, req)
  OBVIOUS
<1>2. res.items = sh /\ res.request = req /\ res.last = LastOf(sh)
  BY <1>1, ResultIs
<1>3. sh \in Seq(Rows) /\ Ordered(o, sh) /\ req.size \in Nat \ {0} /\ Len(read) \in Nat
  BY <1>1, ShownFits, RequestType
<1>4. \A i \in 1..Len(read) : Follows(o, shown, read[i])
  BY DEF ReadFits
<1>5. /\ after \in Seq(Rows)
      /\ \A r : Listed(r, shown) \/ Listed(r, sh) => Listed(r, after)
      /\ sh # <<>> => after # <<>> /\ Last(after) = Last(sh)
      /\ sh = <<>> => after = shown
  BY <1>2, <1>3, Concatenation
<1>6. PageFits(res, after, {})
  <2>1. res.items # <<>> => after # <<>> /\ res.last = Last(after)
    BY <1>2, <1>5 DEF LastOf
  <2>2. res.items = <<>> /\ res.request.page = 1 => after = <<>>
    BY <1>2, <1>5 DEF ReadFits
  <2> QED BY <2>1, <2>2 DEF PageFits
<1>7. CASE Len(read) = req.size + 1
  <2>1. sh = SubSeq(read, 1, Len(read) - 1)
    BY <1>1, <1>7 DEF Shown, TrimExcess, ReadFits
  <2>2. PICK z \in Nat \ {0} : z = req.size /\ Len(read) - 1 = z
    BY <1>3, <1>7
  <2>3. Len(sh) = z /\ \A i \in 1..z : sh[i] = read[i]
    <3>1. sh = SubSeq(read, 1, z) /\ z <= Len(read)
      BY <1>3, <2>1, <2>2
    <3>2. Len(sh) = z /\ \A i \in 1..z : sh[i] = read[1 + i - 1]
      BY <3>1, Window
    <3> QED BY <3>2
  <2>4. \A i \in 1..Len(sh) : Follows(o, shown, sh[i])
    BY <1>4, <1>7, <2>2, <2>3
  <2>5. Ordered(o, after)
    BY <1>2, <1>3, <2>4, OrderedConcatenation
  <2>6. sh # <<>> /\ Last(after) = read[z] /\ after # <<>>
    <3>1. sh # <<>>
      BY <2>2, <2>3
    <3>2. Last(sh) = read[z]
      <4>1. z \in 1..z
        OBVIOUS
      <4> QED BY <2>3, <4>1 DEF Last
    <3> QED BY <1>5, <3>1, <3>2
  <2>7. read[z] \in Rows /\ read[z + 1] \in Rows /\ Last(read) = read[z + 1]
        /\ Before(o, read[z], read[z + 1]) /\ Rows \subseteq Int
    <3>1. z \in 1..Len(read) /\ z + 1 \in 1..Len(read) /\ z < z + 1 /\ Len(read) = z + 1
      BY <1>3, <2>2
    <3>2. read[z] \in Rows /\ read[z + 1] \in Rows /\ Last(read) = read[z + 1]
      BY <3>1 DEF Last
    <3>3. Before(o, read[z], read[z + 1])
      BY <3>1 DEF Ordered
    <3> QED BY <3>2, <3>3 DEF PaginationAssumption
  <2>8. ASSUME NEW r \in stayed PROVE Listed(r, after) \/ Follows(o, after, r)
    <3>1. CASE Listed(r, shown)
      BY <1>5, <3>1
    <3>2. CASE Listed(r, read)
      <4>1. PICK i \in 1..Len(read) : read[i] = r
        BY <3>2 DEF Listed
      <4>2. CASE i <= z
        <5>1. i \in 1..Len(sh) /\ sh[i] = r
          BY <2>3, <4>1, <4>2
        <5> QED BY <1>5, <5>1 DEF Listed
      <4>3. CASE i > z
        <5>1. i = z + 1
          BY <1>7, <2>2, <4>1, <4>3
        <5> QED BY <2>6, <2>7, <4>1, <5>1 DEF Follows
      <4> QED BY <2>2, <4>2, <4>3
    <3>3. CASE Before(o, Last(read), r)
      <4>1. Before(o, read[z], r) /\ r \in Int
        BY <2>7, <3>3, BeforeIsTransitive
      <4> QED BY <2>6, <4>1 DEF Follows
    <3> QED BY <3>1, <3>2, <3>3 DEF ReadFits
  <2>9. res.hasNext
    BY <1>7, HasNextIs DEF ReadFits
  <2> QED BY <1>6, <2>5, <2>8, <2>9 DEF StayedFits, PageFits
<1>8. CASE Len(read) # req.size + 1
  <2>1. sh = read
    BY <1>1, <1>8 DEF Shown
  <2>2. Ordered(o, after)
    BY <1>2, <1>3, <1>4, <2>1, OrderedConcatenation
  <2>3. \A r \in stayed : Listed(r, after)
    BY <1>5, <1>8, <2>1 DEF ReadFits
  <2> QED BY <1>6, <2>2, <2>3 DEF StayedFits, PageFits
<1> QED BY <1>7, <1>8

(* The fields of a request that continues from a result.                    *)
PageOf(req, res, page, mark) ==
  /\ req.page = AtLeastOne(page) /\ req.size = res.request.size
  /\ req.total = res.total /\ req.mark = mark /\ req.cursor.page = res.request.page
  /\ req.cursor.first = res.first /\ req.cursor.last = res.last
  /\ req.cursor.order = res.request.cursor.order

LEMMA PageOfResult ==
  ASSUME NEW res, NEW page, NEW update, NEW mark
  PROVE  PageOf(RequestPage(res, page, update, mark), res, page, mark)
BY DEF PageOf, RequestPage, Request, Cursor

(* The next page of a result continues from the last row shown.             *)
LEMMA WalkContinues ==
  ASSUME PaginationAssumption, NEW res, ResultFits(res),
         NEW req, PageOf(req, res, res.request.page + 1, FALSE),
         Accepted(req), NEW shown, NEW stayed, PageFits(res, shown, stayed)
  PROVE  WalkAsks(req, shown) /\ req.cursor.order = res.request.cursor.order
<1>1. PICK q \in Nat \ {0} : q = res.request.page
  BY RequestType DEF ResultFits
<1>2. /\ req.page = q + 1 /\ req.cursor.page = q /\ req.cursor.last = res.last
      /\ req.cursor.order = res.request.cursor.order
  <2>1. AtLeastOne(q + 1) = q + 1
    BY DEF AtLeastOne
  <2> QED BY <1>1, <2>1 DEF PageOf
<1>3. Direction(req) = "next"
  BY <1>2 DEF Direction
<1>4. SkipSize(req) = 0
  <2>1. PageDifference(req) = 1
    <3>1. q + 1 > q /\ q + 1 - q = 1
      OBVIOUS
    <3> QED BY <1>2, <3>1 DEF PageDifference
  <2> QED BY <2>1 DEF SkipSize
<1>5. res.items # <<>> => res.last # NoId /\ shown # <<>> /\ res.last = Last(shown)
  <2> SUFFICES ASSUME res.items # <<>> PROVE res.last # NoId
    BY DEF PageFits
  <2>1. Len(res.items) \in 1..Len(res.items) /\ res.items \in Seq(Rows)
    BY DEF ResultFits
  <2>2. res.last \in Rows
    BY <2>1 DEF ResultFits, LastOf, Last
  <2> QED BY <2>2 DEF PaginationAssumption, NoId
<1>6. res.items = <<>> => res.last = NoId
  BY DEF ResultFits, LastOf
<1>7. CASE IsFirstRequest(req.cursor)
  <2>1. q = 1 /\ res.items = <<>>
    BY <1>2, <1>5, <1>7 DEF IsFirstRequest
  <2>2. shown = <<>>
    BY <1>1, <2>1 DEF PageFits
  <2> QED BY <1>2, <1>3, <1>4, <1>7, <2>2 DEF WalkAsks
<1>8. CASE ~IsFirstRequest(req.cursor)
  <2>1. res.items # <<>>
    BY <1>2, <1>6, <1>8 DEF Accepted
  <2>2. req.page # 1
    BY <1>2
  <2> QED BY <1>2, <1>3, <1>4, <1>5, <1>8, <2>1, <2>2 DEF WalkAsks
<1> QED BY <1>7, <1>8

LEMMA WalkBegins ==
  ASSUME NEW req \in Requests, req.page = 1, req.cursor.page = 1, IsFirstRequest(req.cursor)
  PROVE  WalkAsks(req, <<>>) /\ Accepted(req)
<1>1. Direction(req) = "next"
  BY DEF Direction
<1>2. SkipSize(req) = 0
  <2>1. PageDifference(req) = 0
    BY DEF PageDifference
  <2> QED BY <2>1 DEF SkipSize
<1> QED BY <1>1, <1>2 DEF WalkAsks, Accepted

LEMMA WalkInit ==
  ASSUME PaginationAssumption, Init
  PROVE  WalkInv
BY InitType DEF WalkInv

(* A session that begins has shown nothing.                                 *)
LEMMA WalkOpens ==
  ASSUME NEW req \in Requests, Ask(req),
         req.page = 1, req.cursor.page = 1, IsFirstRequest(req.cursor),
         walk'.stayed = table, walk'.shown = <<>>
  PROVE  WalkInv'
<1>1. WalkAsks(req, <<>>) /\ Accepted(req)
  BY WalkBegins
<1>2. table' = table /\ pc' = "items" /\ request' = req
  BY <1>1, AskIs
<1>3. Ordered(req.cursor.order, <<>>) /\ StayedFits(req.cursor.order, <<>>, table)
  <2>1. Len(<<>>) = 0
    OBVIOUS
  <2> QED BY <2>1 DEF Ordered, StayedFits, Follows
<1> QED BY <1>1, <1>2, <1>3 DEF WalkInv

LEMMA WalkAsksStep ==
  ASSUME PaginationAssumption, TypeInv, WalkInv, pc = "idle",
         NEW req \in Requests, Asks(req), Ask(req)
  PROVE  WalkInv'
<1>1. ResultFits(result) /\ walk \in Walks /\ walk.fresh \in BOOLEAN /\ result.total \in Totals
  BY DEF TypeInv, Walks, ResultFits
<1>2. ASSUME NEW size \in PageSizes, NEW order \in Orders, NEW update \in BOOLEAN,
             NEW total \in Totals, req = DefaultWith(size, order, total, update),
             walk'.stayed = table, walk'.shown = <<>>
      PROVE  WalkInv'
  <2>1. req.page = 1 /\ req.cursor = InitialCursor(order)
    BY <1>2 DEF DefaultWith, Request, AtLeastOne
  <2>2. req.cursor.page = 1 /\ IsFirstRequest(req.cursor)
    BY <2>1 DEF InitialCursor, Cursor, IsFirstRequest
  <2> QED BY <1>2, <2>1, <2>2, WalkOpens
<1>3. ASSUME NEW path \in {"back", "jump"}, walk' = Moved(path)
      PROVE  WalkInv'
  <2>1. Moved(path).path # "next"
    BY <1>1, MovedIs
  <2> QED BY <1>3, <2>1 DEF WalkInv
<1>4. ASSUME NEW update \in BOOLEAN, walk' = Moved("next"),
             req = RequestPage(result, result.request.page + 1, update, FALSE)
      PROVE  WalkInv'
  <2> SUFFICES ASSUME walk'.path = "next"
               PROVE  WalkInv'
    BY DEF WalkInv
  <2>1. walk' = walk
    BY <1>1, <1>4, MovedIs
  <2>2. /\ walk.stayed \subseteq table
        /\ Ordered(request.cursor.order, walk.shown)
        /\ StayedFits(request.cursor.order, walk.shown, walk.stayed)
        /\ request = result.request /\ PageFits(result, walk.shown, walk.stayed)
    BY <2>1 DEF WalkInv
  <2>3. PageOf(req, result, result.request.page + 1, FALSE)
    BY <1>4, PageOfResult
  <2>4. CASE Accepted(req)
    <3>1. WalkAsks(req, walk.shown) /\ req.cursor.order = result.request.cursor.order
      BY <1>1, <2>2, <2>3, <2>4, WalkContinues
    <3>2. table' = table /\ pc' = "items" /\ request' = req
      BY <2>4, AskIs
    <3> QED BY <2>1, <2>2, <3>1, <3>2 DEF WalkInv
  <2>5. CASE ~Accepted(req)
    <3>1. table' = table /\ pc' = "idle" /\ request' = request /\ result' = result
      BY <2>5, AskIs
    <3> QED BY <2>1, <2>2, <3>1 DEF WalkInv
  <2> QED BY <2>4, <2>5
<1>5. /\ \A fresh \in BOOLEAN : /\ [Opened EXCEPT !.fresh = fresh].stayed = table
                                /\ [Opened EXCEPT !.fresh = fresh].shown = <<>>
      /\ Opened.stayed = table /\ Opened.shown = <<>> /\ NotSpecified \in Totals
  BY DEF Opened, Totals
<1> QED BY <1>1, <1>2, <1>3, <1>4, <1>5 DEF Asks

(* A page is shown.                                                         *)
LEMMA WalkPublishes ==
  ASSUME PaginationAssumption, TypeInv, NEW read \in Seq(Rows), NEW total,
         Publish(read, total), Ordered(request.cursor.order, read),
         Len(read) <= request.size + 1, UNCHANGED <<table, writable, request>>,
         walk.path = "next" => /\ ReadFits(read, request, walk.shown, walk.stayed)
                               /\ walk.stayed \subseteq table
                               /\ Ordered(request.cursor.order, walk.shown)
  PROVE  WalkInv'
<1> SUFFICES ASSUME walk'.path = "next"
             PROVE  WalkInv'
  BY DEF WalkInv
<1>1. walk \in Walks /\ request \in Requests
  BY DEF TypeInv
<1>2. pc' = "idle" /\ result' = Result(read, request, total)
  BY DEF Publish
<1>3. walk.path = "next" /\ walk' = [walk EXCEPT !.shown = @ \o result'.items]
  BY DEF Publish
<1>4. walk'.shown = walk.shown \o result'.items /\ walk'.stayed = walk.stayed
  BY <1>1, <1>3 DEF Walks
<1>5. walk.shown \in Seq(Rows) /\ walk.stayed \in SUBSET Rows
  BY <1>1 DEF Walks
<1>6. /\ Ordered(request.cursor.order, walk'.shown)
      /\ StayedFits(request.cursor.order, walk'.shown, walk.stayed)
      /\ PageFits(result', walk'.shown, walk.stayed)
  BY <1>1, <1>2, <1>3, <1>4, <1>5, WalkShows
<1>7. result'.request = request
  BY <1>2, ResultIs
<1>8. PageFits(result, walk.shown, walk.stayed)'
  BY <1>4, <1>6 DEF PageFits
<1> QED BY <1>2, <1>3, <1>4, <1>6, <1>7, <1>8 DEF WalkInv

LEMMA WalkStep ==
  ASSUME PaginationAssumption, TypeInv, WalkInv, [Next]_vars
  PROVE  WalkInv'
<1>0. walk \in Walks /\ request \in Requests /\ table \in SUBSET Rows
  BY DEF TypeInv
<1>1. CASE UNCHANGED vars
  BY <1>1 DEF vars, WalkInv, PageFits
<1>2. CASE Next
  <2>1. ASSUME NEW req \in Requests, pc = "idle", Asks(req), Ask(req) PROVE WalkInv'
    BY <2>1, WalkAsksStep
  <2>2. CASE ReadItems
    <3>1. PICK read : read = GetEntities(table, request)
      OBVIOUS
    <3>2. pc = "items" /\ UNCHANGED <<table, writable, request>>
      BY <2>2 DEF ReadItems
    <3>3. walk.path = "next" => /\ ReadFits(read, request, walk.shown, walk.stayed)
                                /\ walk.stayed \subseteq table
                                /\ Ordered(request.cursor.order, walk.shown)
      BY <1>0, <3>1, <3>2, WalkReads DEF WalkInv
    <3>4. CASE request.update
      <4>1. pc' = "count" /\ items' = read /\ UNCHANGED <<result, walk>>
        BY <2>2, <3>1, <3>4 DEF ReadItems
      <4> QED BY <3>2, <3>3, <4>1 DEF WalkInv
    <3>5. CASE ~request.update
      <4>1. Publish(read, request.total)
        BY <2>2, <3>1, <3>5 DEF ReadItems
      <4> QED BY <3>1, <3>2, <3>3, <4>1, ReadType, WalkPublishes
    <3> QED BY <3>4, <3>5
  <2>3. CASE CountRows
    <3>1. pc = "count" /\ Publish(items, Cardinality(table)) /\ UNCHANGED <<table, writable, request>>
      BY <2>3 DEF CountRows
    <3>2. items \in Seq(Rows) /\ Len(items) <= request.size + 1
          /\ Ordered(request.cursor.order, items)
      BY <3>1 DEF TypeInv
    <3>3. walk.path = "next" => /\ ReadFits(items, request, walk.shown, walk.stayed)
                                /\ walk.stayed \subseteq table
                                /\ Ordered(request.cursor.order, walk.shown)
      BY <3>1 DEF WalkInv
    <3> QED BY <3>1, <3>2, <3>3, WalkPublishes
  <2>4. ASSUME NEW r \in Rows, Insert(r) \/ Delete(r) PROVE WalkInv'
    <3>1. /\ UNCHANGED <<pc, request, items, result, refused>>
          /\ walk'.path = walk.path /\ walk'.shown = walk.shown
          /\ walk'.stayed \subseteq walk.stayed
          /\ walk.stayed \subseteq table => walk'.stayed \subseteq table'
      BY <2>4, ChangeType
    <3> SUFFICES ASSUME walk.path = "next"
                 PROVE  WalkInv'
      BY <3>1 DEF WalkInv
    <3>2. /\ walk'.stayed \subseteq table'
          /\ Ordered(request.cursor.order, walk.shown)
          /\ pc = "items" => WalkAsks(request, walk.shown)
          /\ pc = "count" => ReadFits(items, request, walk.shown, walk'.stayed)
          /\ pc # "count" => StayedFits(request.cursor.order, walk.shown, walk'.stayed)
          /\ pc = "idle" => request = result.request /\ PageFits(result, walk.shown, walk'.stayed)
      BY <3>1 DEF WalkInv, ReadFits, StayedFits, PageFits
    <3>3. pc = "idle" => PageFits(result, walk.shown, walk.stayed)'
      BY <3>1, <3>2 DEF PageFits
    <3> QED BY <3>1, <3>2, <3>3 DEF WalkInv
  <2> QED BY <1>2, <2>1, <2>2, <2>3, <2>4, Steps
<1> QED BY <1>1, <1>2

(* A client that moves from page to page with the next page of each result  *)
(* sees the rows in order, none twice, and misses none that stays, whatever *)
(* other transactions insert and delete between the queries; and it has     *)
(* seen them all when a result says that there is no next page              *)
(* (SourceKnownRepository.PaginateAllAsync).                                *)
THEOREM WalkSeesWhatStaysHolds == Spec => []WalkSeesWhatStays
<1>1. Init => WalkInv
  BY PaginationAssumption, WalkInit
<1>2. TypeInv /\ WalkInv /\ [Next]_vars => WalkInv'
  BY PaginationAssumption, WalkStep
<1>3. TypeInv /\ WalkInv => WalkSeesWhatStays
  <2> SUFFICES ASSUME TypeInv, WalkInv, walk.path = "next" PROVE WalkSeesWhatStays
    BY DEF WalkSeesWhatStays
  <2>1. /\ DOMAIN walk.shown = 1..Len(walk.shown)
        /\ \A r : Listed(r, walk.shown) => r \in Range(walk.shown)
    BY DEF TypeInv, Walks, Listed, Range
  <2>2. \A i, j \in DOMAIN walk.shown :
          i < j => Before(request.cursor.order, walk.shown[i], walk.shown[j])
    BY <2>1 DEF WalkInv, Ordered
  <2>3. ASSUME NEW r \in walk.stayed
        PROVE  \/ r \in Range(walk.shown)
               \/ walk.shown = <<>>
               \/ Before(request.cursor.order, Last(walk.shown), r)
    <3>1. CASE pc = "count"
      <4>1. ReadFits(items, request, walk.shown, walk.stayed)
        BY <3>1 DEF WalkInv
      <4>2. CASE Listed(r, walk.shown)
        BY <2>1, <4>2
      <4>3. CASE Listed(r, items)
        BY <4>1, <4>3 DEF ReadFits, Listed, Follows
      <4>4. CASE Len(items) = request.size + 1 /\ Before(request.cursor.order, Last(items), r)
        <5>1. /\ items \in Seq(Rows) /\ request.size \in Nat /\ r \in Int /\ Rows \subseteq Int
              /\ walk.shown \in Seq(Rows)
          BY <3>1, RequestType, PaginationAssumption DEF TypeInv, Walks, PaginationAssumption
        <5>2. Len(items) \in 1..Len(items)
          BY <4>4, <5>1
        <5>3. Last(items) = items[Len(items)] /\ items[Len(items)] \in Int
          <6>1. items[Len(items)] \in Rows
            BY <5>1, <5>2
          <6> QED BY <5>1, <6>1 DEF Last
        <5>4. Follows(request.cursor.order, walk.shown, items[Len(items)])
          BY <4>1, <5>2 DEF ReadFits
        <5>5. CASE walk.shown # <<>>
          <6>1. Last(walk.shown) \in Int
            <7>1. PICK shown \in Seq(Rows) : shown = walk.shown /\ shown # <<>>
              BY <5>1, <5>5
            <7>2. Len(shown) \in 1..Len(shown)
              BY <7>1
            <7>3. shown[Len(shown)] \in Rows
              BY <7>2
            <7> QED BY <5>1, <7>1, <7>3 DEF Last
          <6> QED BY <4>4, <5>1, <5>3, <5>4, <6>1, BeforeIsTransitive DEF Follows
        <5> QED BY <5>5
      <4> QED BY <4>1, <4>2, <4>3, <4>4 DEF ReadFits
    <3>2. CASE pc # "count"
      BY <2>1, <3>2 DEF WalkInv, StayedFits, Follows
    <3> QED BY <3>1, <3>2
  <2>4. pc = "idle" /\ ~refused /\ ~result.hasNext => walk.stayed \subseteq Range(walk.shown)
    BY <2>1 DEF WalkInv, PageFits
  <2> QED BY <2>2, <2>3, <2>4 DEF WalkSeesWhatStays
<1> QED BY <1>1, <1>2, <1>3, TypeInvariant, PTL DEF Spec

-----------------------------------------------------------------------------
(* The pages of a table that does not change.                               *)

LEMMA TableSorted ==
  ASSUME PaginationAssumption, NEW rows \in SUBSET Rows, NEW o
  PROVE  /\ Sorted(rows, o) \in Seq(rows) /\ Sorted(rows, o) \in Seq(Int)
         /\ Len(Sorted(rows, o)) = Cardinality(rows) /\ Cardinality(rows) \in Nat
         /\ \A i \in 1..Cardinality(rows) :
              Sorted(rows, o)[i] \in rows /\ Sorted(rows, o)[i] # NoId
         /\ \A i, j \in 1..Cardinality(rows) :
              Before(o, Sorted(rows, o)[i], Sorted(rows, o)[j]) <=> i < j
<1>1. rows \in SUBSET Int /\ IsFiniteSet(rows) /\ Cardinality(rows) \in Nat /\ NoId \notin rows
  BY RowSets
<1>2. PICK s : s = Sorted(rows, o)
  OBVIOUS
<1>3. Lists(s, rows, o) /\ Len(s) = Cardinality(rows)
  BY <1>1, <1>2, SortedLists
<1>4. s \in Seq(rows) /\ s \in Seq(Int) /\ Ordered(o, s) /\ \A i \in 1..Len(s) : s[i] \in rows
  BY <1>1, <1>3, ListType
<1>5. \A i, j \in 1..Len(s) : Before(o, s[i], s[j]) <=> i < j
  BY <1>4, OrderedPositions
<1> QED BY <1>1, <1>2, <1>3, <1>4, <1>5

LEMMA EmptyWindow ==
  ASSUME NEW S, NEW f \in Seq(S), NEW a \in Nat \ {0}, NEW b \in Int, b <= Len(f), b < a
  PROVE  SubSeq(f, a, b) = <<>>
<1>1. SubSeq(f, a, b) \in Seq(S) /\ Len(SubSeq(f, a, b)) = 0
  BY Window
<1> QED BY <1>1

(* The rows from one on are a suffix of the table, and a page of the suffix *)
(* is a page of the table.                                                  *)
IsTail(W, rows, o, h) ==
  \A i \in 1..Cardinality(rows) : Sorted(rows, o)[i] \in W <=> h < i

LEMMA Suffix ==
  ASSUME PaginationAssumption, NEW rows \in SUBSET Rows, NEW o,
         NEW h \in 0..Cardinality(rows), NEW W \in SUBSET rows, IsTail(W, rows, o, h),
         NEW k \in Nat, NEW m \in Nat
  PROVE  SkipTake(Sorted(W, o), k, m) = SkipTake(Sorted(rows, o), h + k, m)
<1>1. PICK n \in Nat, s \in Seq(rows) :
        /\ n = Cardinality(rows) /\ s = Sorted(rows, o) /\ Len(s) = n
        /\ h \in Nat /\ h <= n
  <2>1. /\ Cardinality(rows) \in Nat /\ Sorted(rows, o) \in Seq(rows)
        /\ Len(Sorted(rows, o)) = Cardinality(rows)
    BY TableSorted
  <2> QED BY <2>1
<1>2. /\ Sorted(W, o) = SubSeq(s, h + 1, n)
      /\ Len(Sorted(W, o)) = IF h + 1 <= n THEN n - (h + 1) + 1 ELSE 0
  <2>1. PICK a \in Nat \ {0} : a = h + 1
    BY <1>1
  <2>2. rows \in SUBSET Int /\ IsFiniteSet(rows) /\ n \in 0..Cardinality(rows)
    BY <1>1, RowSets
  <2>3. \A i \in 1..Cardinality(rows) : Sorted(rows, o)[i] \in W <=> a <= i /\ i <= n
    <3> SUFFICES ASSUME NEW i \in 1..n PROVE Sorted(rows, o)[i] \in W <=> a <= i /\ i <= n
      BY <1>1
    <3>1. Sorted(rows, o)[i] \in W <=> h < i
      BY <1>1 DEF IsTail
    <3>2. h < i <=> a <= i /\ i <= n
      BY <1>1, <2>1
    <3> QED BY <3>1, <3>2
  <2>4. /\ Sorted(W, o) = SubSeq(Sorted(rows, o), a, n)
        /\ Len(Sorted(W, o)) = IF a <= n THEN n - a + 1 ELSE 0
    BY <2>2, <2>3, SortedWindow
  <2> QED BY <1>1, <2>1, <2>4
<1>3. Len(Sorted(W, o)) = n - h
  BY <1>1, <1>2
<1>4. PICK d \in Nat : d = IF k + m < n - h THEN k + m ELSE n - h
  <2>1. k + m \in Nat /\ n - h \in Nat
    BY <1>1
  <2> QED BY <2>1
<1>5. SkipTake(Sorted(W, o), k, m) = SubSeq(SubSeq(s, h + 1, n), k + 1, d)
  BY <1>2, <1>3, <1>4 DEF SkipTake
<1>6. SubSeq(SubSeq(s, h + 1, n), k + 1, d) = SubSeq(s, (h + 1) + (k + 1) - 1, (h + 1) + d - 1)
  <2>1. h + 1 \in Nat \ {0} /\ k + 1 \in Nat \ {0} /\ n \in Int /\ n <= Len(s) /\ d \in Int
        /\ d <= Len(SubSeq(s, h + 1, n))
    BY <1>1, <1>2, <1>3, <1>4
  <2> QED BY <2>1, WindowOfWindow
<1>7. /\ (h + 1) + (k + 1) - 1 = h + k + 1
      /\ (h + 1) + d - 1 = IF h + k + m < n THEN h + k + m ELSE n
  <2>0. h \in Nat /\ h <= n
    BY <1>1
  <2>1. (h + 1) + (k + 1) - 1 = h + k + 1 /\ (h + 1) + d - 1 = h + d
    BY <2>0
  <2>2. CASE k + m < n - h
    <3>1. d = k + m
      BY <1>4, <2>2
    <3>2. h + k + m < n /\ h + d = h + k + m
      BY <2>0, <2>2, <3>1
    <3> QED BY <2>1, <3>2
  <2>3. CASE ~(k + m < n - h)
    <3>1. d = n - h
      BY <1>4, <2>3
    <3>2. ~(h + k + m < n) /\ h + d = n
      BY <2>0, <2>3, <3>1
    <3> QED BY <2>1, <3>2
  <2> QED BY <2>2, <2>3
<1> QED BY <1>1, <1>5, <1>6, <1>7 DEF SkipTake

(* What is shown of a page read forward with one row more.                  *)
TrimsTo(read, f, low, z) ==
  /\ Len(read) = z + 1 <=> low + z < Len(f)
  /\ (IF Len(read) = z + 1 THEN SubSeq(read, 1, Len(read) - 1) ELSE read) = SkipTake(f, low, z)

LEMMA ForwardShown ==
  ASSUME NEW S, NEW f \in Seq(S), NEW low \in Nat, NEW z \in Nat \ {0}
  PROVE  TrimsTo(SkipTake(f, low, z + 1), f, low, z)
<1>0. PICK read : read = SkipTake(f, low, z + 1)
  OBVIOUS
<1>1. PICK n \in Nat, a \in Nat \ {0} : n = Len(f) /\ a = low + 1
  OBVIOUS
<1>2. CASE low + z < n
  <2>1. PICK b \in Nat : b = low + z + 1 /\ b <= n
    BY <1>1, <1>2
  <2>2. (IF low + (z + 1) < n THEN low + (z + 1) ELSE n) = b
    BY <1>1, <1>2, <2>1
  <2>3. read = SubSeq(f, a, b)
    BY <1>0, <1>1, <2>2 DEF SkipTake
  <2>4. Len(read) = z + 1
    BY <1>1, <2>1, <2>3, Window
  <2>5. SubSeq(read, 1, z) = SubSeq(f, a + 1 - 1, a + z - 1)
    <3>1. z <= Len(SubSeq(f, a, b)) /\ z \in Int /\ 1 \in Nat \ {0} /\ b \in Int /\ b <= Len(f)
      BY <1>1, <2>1, <2>3, <2>4
    <3> QED BY <2>3, <3>1, WindowOfWindow
  <2>6. a + 1 - 1 = low + 1 /\ a + z - 1 = low + z /\ Len(read) - 1 = z
    BY <1>1, <2>4
  <2>7. SkipTake(f, low, z) = SubSeq(f, low + 1, low + z)
    BY <1>1, <1>2 DEF SkipTake
  <2> QED BY <1>0, <1>1, <1>2, <2>4, <2>5, <2>6, <2>7 DEF TrimsTo
<1>3. CASE ~(low + z < n)
  <2>1. ~(low + (z + 1) < n)
    BY <1>1, <1>3
  <2>2. read = SubSeq(f, a, n) /\ SkipTake(f, low, z) = SubSeq(f, a, n)
    BY <1>0, <1>1, <1>3, <2>1 DEF SkipTake
  <2>3. Len(read) = IF a <= n THEN n - a + 1 ELSE 0
    BY <1>1, <2>2, Window
  <2>4. Len(read) # z + 1
    BY <1>1, <1>3, <2>3
  <2> QED BY <1>0, <1>1, <1>3, <2>2, <2>4 DEF TrimsTo
<1> QED BY <1>2, <1>3

(* Where pages begin: page q, and page p of the cursor, of z rows each.     *)
LEMMA PageBegins ==
  ASSUME NEW q \in Nat \ {0}, NEW z \in Nat \ {0}
  PROVE  /\ (q - 1) * z \in Nat /\ q * z = (q - 1) * z + z
         /\ q = 1 => (q - 1) * z = 0
         /\ q # 1 => (q - 1) * z >= z
<1>1. q - 1 \in Nat /\ q * z = (q - 1) * z + z
  OBVIOUS
<1>2. q # 1 => /\ q - 2 \in Nat /\ (q - 1) * z = (q - 2) * z + z
  OBVIOUS
<1>3. q # 1 => (q - 2) * z \in Nat
  BY <1>2, ProductType
<1>4. q = 1 => (q - 1) * z = 0
  OBVIOUS
<1> QED BY <1>1, <1>2, <1>3, <1>4, ProductType

Skipped(k, q, p, z) ==
  /\ q > p => k + (p - 1) * z + z = (q - 1) * z
  /\ q = p => k = 0
  /\ q < p => (q - 1) * z + z + k = (p - 1) * z

PagesAre(req, q, p, z) == req.page = q /\ req.cursor.page = p /\ req.size = z

LEMMA Skips ==
  ASSUME NEW q \in Nat \ {0}, NEW p \in Nat \ {0}, NEW z \in Nat \ {0},
         NEW req, PagesAre(req, q, p, z)
  PROVE  Skipped(SkipSize(req), q, p, z)
<1>1. CASE q > p
  <2>1. PageDifference(req) = q - p
    BY <1>1 DEF PageDifference, PagesAre
  <2>2. SkipSize(req) = (q - p - 1) * z
    <3>1. CASE q - p > 1
      BY <2>1, <3>1 DEF SkipSize, PagesAre
    <3>2. CASE q - p = 1
      <4>1. SkipSize(req) = 0
        BY <2>1, <3>2 DEF SkipSize, PagesAre
      <4> QED BY <3>2, <4>1
    <3> QED BY <1>1, <3>1, <3>2
  <2>3. (q - p - 1) * z + (p - 1) * z + z = (q - 1) * z
    OBVIOUS
  <2> QED BY <1>1, <2>2, <2>3 DEF Skipped
<1>2. CASE q = p
  <2>1. PageDifference(req) = 0
    BY <1>2 DEF PageDifference, PagesAre
  <2> QED BY <1>2, <2>1 DEF SkipSize, PagesAre, Skipped
<1>3. CASE q < p
  <2>1. PageDifference(req) = p - q
    BY <1>3 DEF PageDifference, PagesAre
  <2>2. SkipSize(req) = (p - q - 1) * z
    <3>1. CASE p - q > 1
      BY <2>1, <3>1 DEF SkipSize, PagesAre
    <3>2. CASE p - q = 1
      <4>1. SkipSize(req) = 0
        BY <2>1, <3>2 DEF SkipSize, PagesAre
      <4> QED BY <3>2, <4>1
    <3> QED BY <1>3, <3>1, <3>2
  <2>3. (q - 1) * z + z + (p - q - 1) * z = (p - 1) * z
    OBVIOUS
  <2> QED BY <1>3, <2>2, <2>3 DEF Skipped
<1> QED BY <1>1, <1>2, <1>3

Least(a, b) == IF a <= b THEN a ELSE b

PageRows(rows, o, page, size) == SkipTake(Sorted(rows, o), (page - 1) * size, size)

(* The cursor of a request stands on the page it names.                     *)
Positioned(rows, req) ==
  \/ IsFirstRequest(req.cursor) /\ (req.page = 1 \/ rows = {})
  \/ LET s == Sorted(rows, req.cursor.order)
         n == Cardinality(rows)
         low == (req.cursor.page - 1) * req.size
     IN  /\ low < n
         /\ req.cursor.first = s[low + 1]
         /\ req.cursor.last = s[Least(low + req.size, n)]

(* What is read is the page the request asks for, and one row too many      *)
(* exactly when rows follow.                                                *)
ReadIsPage(read, req, rows) ==
  /\ Shown(read, req) = PageRows(rows, req.cursor.order, req.page, req.size)
  /\ Direction(req) = "next" =>
       (Len(read) = req.size + 1 <=> req.page * req.size < Cardinality(rows))
  /\ Direction(req) = "previous" => req.page * req.size < Cardinality(rows)

LEMMA Beyond ==
  ASSUME NEW S, NEW f \in Seq(S), NEW k \in Nat, NEW m \in Nat, k >= Len(f)
  PROVE  SkipTake(f, k, m) = <<>>
<1>1. PICK a \in Nat \ {0}, b \in Int : a = k + 1 /\ b = Len(f)
  OBVIOUS
<1>2. b <= Len(f) /\ b < a /\ ~(k + m < b)
  BY <1>1
<1>3. SubSeq(f, a, b) = <<>>
  BY <1>1, <1>2, EmptyWindow
<1> QED BY <1>1, <1>2, <1>3 DEF SkipTake

LEMMA GetForward ==
  ASSUME PaginationAssumption, NEW rows \in SUBSET Rows, NEW req \in Requests,
         Direction(req) # "previous"
  PROVE  GetEntities(rows, req) = SkipTake(Query(rows, req), SkipSize(req), req.size + 1)
<1>1. Windowed(GetEntities(rows, req), Query(rows, req), SkipSize(req), req.size + 1,
               Direction(req) = "previous")
  BY Entities
<1> QED BY <1>1 DEF Windowed, SkipTake

LEMMA ForwardIsPage ==
  ASSUME PaginationAssumption, NEW rows \in SUBSET Rows, NEW req \in Requests,
         Direction(req) # "previous",
         NEW read, read = SkipTake(Sorted(rows, req.cursor.order),
                                   (req.page - 1) * req.size, req.size + 1)
  PROVE  ReadIsPage(read, req, rows)
<1>1. PICK q \in Nat \ {0}, z \in Nat \ {0} : q = req.page /\ z = req.size
  BY RequestType
<1>2. PICK n \in Nat, s \in Seq(rows) :
        s = Sorted(rows, req.cursor.order) /\ n = Cardinality(rows)
  BY TableSorted
<1>3. s \in Seq(rows) /\ Len(s) = n
  BY <1>2, TableSorted
<1>4. PICK low \in Nat : low = (q - 1) * z /\ q * z = low + z
  BY PageBegins
<1>5. read = SkipTake(s, low, z + 1)
  BY <1>1, <1>2, <1>4
<1>6. /\ Len(read) = z + 1 <=> low + z < Len(s)
      /\ (IF Len(read) = z + 1 THEN SubSeq(read, 1, Len(read) - 1) ELSE read) = SkipTake(s, low, z)
  <2>1. TrimsTo(read, s, low, z)
    BY <1>3, <1>5, ForwardShown
  <2> QED BY <2>1 DEF TrimsTo
<1>7. Shown(read, req) = SkipTake(s, low, z)
  BY <1>1, <1>6 DEF Shown, TrimExcess
<1> QED BY <1>1, <1>2, <1>3, <1>4, <1>6, <1>7 DEF ReadIsPage, PageRows

LEMMA FirstRead ==
  ASSUME PaginationAssumption, NEW rows \in SUBSET Rows, NEW req \in Requests,
         IsFirstRequest(req.cursor), req.page = 1 \/ rows = {}
  PROVE  ReadIsPage(GetEntities(rows, req), req, rows)
<1>1. Direction(req) = "next" /\ FilterQueryByCursor(rows, req) = rows /\ req.cursor.page = 1
  <2>1. Direction(req) = "next"
    <3>1. req.cursor.page = 1 /\ req.page \in Nat \ {0}
      BY RequestType DEF IsFirstRequest
    <3>2. ~(req.page < req.cursor.page)
      BY <3>1
    <3> QED BY <3>2 DEF Direction
  <2>2. FilterQueryByCursor(rows, req) = rows
    BY DEF FilterQueryByCursor
  <2> QED BY <2>1, <2>2 DEF IsFirstRequest
<1>2. PICK s : s = Sorted(rows, req.cursor.order)
  OBVIOUS
<1>3. PICK q \in Nat \ {0}, z \in Nat \ {0} : q = req.page /\ z = req.size
  BY RequestType
<1>4. PICK k \in Nat : k = SkipSize(req)
  BY RequestType
<1>5. GetEntities(rows, req) = SkipTake(s, k, z + 1)
  BY <1>1, <1>2, <1>3, <1>4, GetForward DEF Query
<1>6. SkipTake(s, k, z + 1) = SkipTake(s, (q - 1) * z, z + 1)
  <2>1. CASE req.page = 1
    <3>1. k = 0
      <4>1. PagesAre(req, 1, 1, z)
        BY <1>1, <1>3, <2>1 DEF PagesAre
      <4>2. Skipped(k, 1, 1, z)
        BY <1>4, <4>1, Skips
      <4> QED BY <4>2 DEF Skipped
    <3> QED BY <1>3, <2>1, <3>1, PageBegins
  <2>2. CASE rows = {}
    <3>1. Cardinality(rows) = 0
      BY <2>2, FS_EmptySet
    <3>2. s \in Seq(rows) /\ Len(s) = 0
      BY <1>2, <3>1, TableSorted
    <3>3. PICK low \in Nat : low = (q - 1) * z
      BY PageBegins
    <3>4. z + 1 \in Nat /\ k >= Len(s) /\ low >= Len(s)
      BY <3>2
    <3> QED BY <3>2, <3>3, <3>4, Beyond
  <2> QED BY <2>1, <2>2
<1> QED BY <1>1, <1>2, <1>3, <1>5, <1>6, ForwardIsPage

LEMMA NextRead ==
  ASSUME PaginationAssumption, NEW rows \in SUBSET Rows, NEW req \in Requests,
         ~IsFirstRequest(req.cursor), Positioned(rows, req), Direction(req) = "next"
  PROVE  ReadIsPage(GetEntities(rows, req), req, rows)
<1> DEFINE o == req.cursor.order
<1>1. PICK q \in Nat \ {0}, p \in Nat \ {0}, z \in Nat \ {0}, k \in Nat :
        /\ q = req.page /\ p = req.cursor.page /\ z = req.size /\ k = SkipSize(req)
        /\ PagesAre(req, q, p, z)
  BY RequestType DEF PagesAre
<1>2. PICK n \in Nat, s \in Seq(rows) : s = Sorted(rows, o) /\ n = Cardinality(rows)
  BY TableSorted
<1>3. /\ s \in Seq(rows) /\ Len(s) = n
      /\ \A i, j \in 1..n : Before(o, s[i], s[j]) <=> i < j
      /\ \A i \in 1..n : s[i] \in rows
  BY <1>2, TableSorted
<1>4. PICK low \in Nat, base \in Nat : low = (q - 1) * z /\ base = (p - 1) * z
  BY PageBegins
<1>5. q > p
  BY <1>1 DEF Direction
<1>6. k + base + z = low
  <2>1. Skipped(k, q, p, z)
    BY <1>1, Skips
  <2> QED BY <1>4, <1>5, <2>1 DEF Skipped
<1>7. PICK h \in 1..n : h = Least(base + z, n)
  <2>1. base < n
    BY <1>1, <1>2, <1>4 DEF Positioned
  <2>2. CASE base + z <= n
    <3>1. base + z \in 1..n
      BY <2>2
    <3> QED BY <2>2, <3>1 DEF Least
  <2>3. CASE ~(base + z <= n)
    <3>1. n \in 1..n
      BY <2>1
    <3> QED BY <2>3, <3>1 DEF Least
  <2> QED BY <2>2, <2>3
<1>8. PICK F \in SUBSET rows : F = {r \in rows : Before(o, req.cursor.last, r)}
  OBVIOUS
<1>9. F = FilterQueryByCursor(rows, req)
  BY <1>8 DEF FilterQueryByCursor
<1>10. \A i \in 1..n : s[i] \in F <=> h < i
  <2>1. req.cursor.last = s[h]
    BY <1>1, <1>2, <1>4, <1>7 DEF Positioned
  <2> QED BY <1>3, <1>7, <1>8, <2>1
<1>11. GetEntities(rows, req) = SkipTake(Sorted(F, o), k, z + 1)
  BY <1>1, <1>9, GetForward DEF Query
<1>12. SkipTake(Sorted(F, o), k, z + 1) = SkipTake(s, h + k, z + 1)
  <2>0. PICK m \in Nat : m = z + 1
    OBVIOUS
  <2>1. h \in 0..Cardinality(rows)
    BY <1>2
  <2>2. IsTail(F, rows, o, h)
    BY <1>2, <1>10 DEF IsTail
  <2> HIDE DEF o
  <2>3. SkipTake(Sorted(F, o), k, m) = SkipTake(Sorted(rows, o), h + k, m)
    BY <2>1, <2>2, Suffix
  <2> QED BY <1>2, <2>0, <2>3
<1>13. SkipTake(s, h + k, z + 1) = SkipTake(s, low, z + 1)
  <2>1. CASE base + z <= n
    BY <1>6, <1>7, <2>1 DEF Least
  <2>2. CASE ~(base + z <= n)
    <3>1. h = n
      BY <1>7, <2>2 DEF Least
    <3>2. h + k \in Nat /\ h + k >= Len(s) /\ low >= Len(s) /\ z + 1 \in Nat
      BY <1>3, <1>6, <2>2, <3>1
    <3> QED BY <1>3, <3>2, Beyond
  <2> QED BY <2>1, <2>2
<1> QED BY <1>1, <1>2, <1>4, <1>11, <1>12, <1>13, ForwardIsPage

LEMMA RefreshRead ==
  ASSUME PaginationAssumption, NEW rows \in SUBSET Rows, NEW req \in Requests,
         ~IsFirstRequest(req.cursor), Positioned(rows, req), Direction(req) = "refresh"
  PROVE  ReadIsPage(GetEntities(rows, req), req, rows)
<1> DEFINE o == req.cursor.order
<1>1. PICK q \in Nat \ {0}, p \in Nat \ {0}, z \in Nat \ {0}, k \in Nat :
        /\ q = req.page /\ p = req.cursor.page /\ z = req.size /\ k = SkipSize(req)
        /\ PagesAre(req, q, p, z)
  BY RequestType DEF PagesAre
<1>2. PICK n \in Nat, s \in Seq(rows) : s = Sorted(rows, o) /\ n = Cardinality(rows)
  BY TableSorted
<1>3. /\ s \in Seq(rows) /\ Len(s) = n
      /\ \A i, j \in 1..n : Before(o, s[i], s[j]) <=> i < j
      /\ \A i \in 1..n : s[i] \in rows
  BY <1>2, TableSorted
<1>4. PICK low \in Nat : low = (q - 1) * z
  BY PageBegins
<1>5. q = p
  BY <1>1 DEF Direction
<1>6. k = 0
  <2>1. Skipped(k, q, p, z)
    BY <1>1, Skips
  <2> QED BY <1>5, <2>1 DEF Skipped
<1>7. low < n /\ req.cursor.first = s[low + 1]
  BY <1>1, <1>2, <1>4, <1>5 DEF Positioned
<1>8. PICK F \in SUBSET rows : F = {r \in rows : ~Before(o, r, req.cursor.first)}
  OBVIOUS
<1>9. F = FilterQueryByCursor(rows, req)
  BY <1>8 DEF FilterQueryByCursor
<1>10. \A i \in 1..n : s[i] \in F <=> low < i
  <2>1. low + 1 \in 1..n
    BY <1>7
  <2>2. ASSUME NEW i \in 1..n PROVE s[i] \in F <=> low < i
    <3>1. s[i] \in F <=> ~(i < low + 1)
      BY <1>3, <1>7, <1>8, <2>1
    <3> QED BY <3>1
  <2> QED BY <2>2
<1>11. GetEntities(rows, req) = SkipTake(Sorted(F, o), k, z + 1)
  BY <1>1, <1>9, GetForward DEF Query
<1>12. SkipTake(Sorted(F, o), k, z + 1) = SkipTake(s, low + k, z + 1)
  <2>0. PICK m \in Nat : m = z + 1
    OBVIOUS
  <2>1. low \in 0..Cardinality(rows)
    BY <1>2, <1>7
  <2>2. IsTail(F, rows, o, low)
    BY <1>2, <1>10 DEF IsTail
  <2> HIDE DEF o
  <2>3. SkipTake(Sorted(F, o), k, m) = SkipTake(Sorted(rows, o), low + k, m)
    BY <2>1, <2>2, Suffix
  <2> QED BY <1>2, <2>0, <2>3
<1>13. low + k = low
  BY <1>6
<1> QED BY <1>1, <1>2, <1>4, <1>11, <1>12, <1>13, ForwardIsPage

LEMMA PreviousRead ==
  ASSUME PaginationAssumption, NEW rows \in SUBSET Rows, NEW req \in Requests,
         ~IsFirstRequest(req.cursor), Positioned(rows, req), Direction(req) = "previous"
  PROVE  ReadIsPage(GetEntities(rows, req), req, rows)
<1> DEFINE o == req.cursor.order
<1>1. PICK q \in Nat \ {0}, p \in Nat \ {0}, z \in Nat \ {0}, k \in Nat :
        /\ q = req.page /\ p = req.cursor.page /\ z = req.size /\ k = SkipSize(req)
        /\ PagesAre(req, q, p, z)
  BY RequestType DEF PagesAre
<1>2. PICK n \in Nat, s \in Seq(rows) : s = Sorted(rows, o) /\ n = Cardinality(rows)
  BY TableSorted
<1>3. /\ s \in Seq(rows) /\ Len(s) = n
      /\ \A i, j \in 1..n : Before(o, s[i], s[j]) <=> i < j
      /\ \A i \in 1..n : s[i] \in rows
  BY <1>2, TableSorted
<1>4. PICK low \in Nat, h \in Nat : low = (q - 1) * z /\ h = (p - 1) * z
  BY PageBegins
<1>5. q * z = low + z /\ (q = 1 => low = 0) /\ (q # 1 => low >= z)
  BY <1>4, PageBegins
<1>6. q < p
  BY <1>1 DEF Direction
<1>7. low + z + k = h
  <2>1. Skipped(k, q, p, z)
    BY <1>1, Skips
  <2> QED BY <1>4, <1>6, <2>1 DEF Skipped
<1>8. h < n /\ req.cursor.first = s[h + 1]
  BY <1>1, <1>2, <1>4 DEF Positioned
<1>9. PICK F \in SUBSET rows : F = {r \in rows : Before(o, r, req.cursor.first)}
  OBVIOUS
<1>10. F = FilterQueryByCursor(rows, req)
  BY <1>9 DEF FilterQueryByCursor
<1>11. \A i \in 1..n : s[i] \in F <=> 1 <= i /\ i <= h
  <2>1. h + 1 \in 1..n
    BY <1>8
  <2>2. ASSUME NEW i \in 1..n PROVE s[i] \in F <=> 1 <= i /\ i <= h
    <3>1. s[i] \in F <=> i < h + 1
      BY <1>3, <1>8, <1>9, <2>1
    <3> QED BY <3>1
  <2> QED BY <2>2
<1>12. Query(rows, req) = SubSeq(s, 1, h) /\ Len(Query(rows, req)) = h
  <2>1. Query(rows, req) = Sorted(F, o)
    BY <1>10 DEF Query
  <2>2. rows \in SUBSET Int /\ IsFiniteSet(rows) /\ h \in 0..Cardinality(rows)
    BY <1>2, <1>8, RowSets
  <2>3. PICK e \in Nat \ {0} : e = 1
    OBVIOUS
  <2>4. \A i \in 1..Cardinality(rows) : Sorted(rows, o)[i] \in F <=> e <= i /\ i <= h
    BY <1>2, <1>11, <2>3
  <2> HIDE DEF o
  <2>6. /\ Sorted(F, o) = SubSeq(Sorted(rows, o), e, h)
        /\ Len(Sorted(F, o)) = IF e <= h THEN h - e + 1 ELSE 0
    BY <2>2, <2>4, SortedWindow
  <2>5. Len(Sorted(F, o)) = h
    BY <2>3, <2>6
  <2> QED BY <1>2, <2>1, <2>3, <2>5, <2>6
<1>13. PICK a \in Nat \ {0} : a = IF q = 1 THEN 1 ELSE low
  <2>1. q # 1 => low \in Nat \ {0}
    BY <1>5
  <2> QED BY <2>1
<1>14. GetEntities(rows, req) = SubSeq(Query(rows, req), a, low + z)
  <2>1. Windowed(GetEntities(rows, req), Query(rows, req), k, z + 1, TRUE)
    BY <1>1, Entities
  <2>2. GetEntities(rows, req) =
          SubSeq(Query(rows, req), IF k + (z + 1) < h THEN h - k - (z + 1) + 1 ELSE 1, h - k)
    BY <1>12, <2>1 DEF Windowed
  <2>3. (IF k + (z + 1) < h THEN h - k - (z + 1) + 1 ELSE 1) = a
    <3>1. CASE k + (z + 1) < h
      <4>1. h - k - (z + 1) + 1 = low /\ low > 1
        BY <1>7, <3>1
      <4>2. a = low
        BY <1>5, <1>13, <4>1
      <4> QED BY <3>1, <4>1, <4>2
    <3>2. CASE ~(k + (z + 1) < h)
      <4>1. low <= 1
        BY <1>7, <3>2
      <4>2. a = 1
        BY <1>5, <1>13, <4>1
      <4> QED BY <3>2, <4>2
    <3> QED BY <3>1, <3>2
  <2>4. h - k = low + z
    BY <1>7
  <2> QED BY <2>2, <2>3, <2>4
<1>15. PICK b \in Nat : b = low + z /\ b <= h /\ b < n
  BY <1>7, <1>8
<1>16. PICK read : read = GetEntities(rows, req) /\ read = SubSeq(s, a, b)
  <2>1. SubSeq(SubSeq(s, 1, h), a, b) = SubSeq(s, 1 + a - 1, 1 + b - 1)
    <3>1. 1 \in Nat \ {0} /\ h \in Int /\ h <= Len(s) /\ b \in Int /\ b <= Len(SubSeq(s, 1, h))
      BY <1>3, <1>8, <1>12, <1>15
    <3> QED BY <1>3, <3>1, WindowOfWindow
  <2>2. 1 + a - 1 = a /\ 1 + b - 1 = b
    OBVIOUS
  <2> QED BY <1>12, <1>14, <1>15, <2>1, <2>2
<1>17. PageRows(rows, o, req.page, req.size) = SubSeq(s, low + 1, b)
  <2>1. PageRows(rows, o, req.page, req.size) = SkipTake(s, low, z)
    BY <1>1, <1>2, <1>4 DEF PageRows
  <2>2. SkipTake(s, low, z) = SubSeq(s, low + 1, b)
    BY <1>3, <1>15 DEF SkipTake
  <2> QED BY <2>1, <2>2
<1>18. Len(read) = IF a <= b THEN b - a + 1 ELSE 0
  <2>1. b \in Int /\ b <= Len(s)
    BY <1>3, <1>15
  <2> QED BY <1>3, <1>16, <2>1, Window
<1>19. Shown(read, req) = SubSeq(s, low + 1, b)
  <2>1. CASE q = 1
    <3>1. a = 1 /\ low = 0 /\ b = z
      BY <1>5, <1>13, <1>15, <2>1
    <3>2. Len(read) # z + 1
      BY <1>18, <3>1
    <3> QED BY <1>1, <1>16, <3>1, <3>2 DEF Shown
  <2>2. CASE q # 1
    <3>1. a = low
      BY <1>13, <2>2
    <3>2. Len(read) = z + 1
      BY <1>15, <1>18, <3>1
    <3>3. Shown(read, req) = SubSeq(read, 2, z + 1)
      BY <1>1, <3>2 DEF Shown, TrimExcess
    <3>4. SubSeq(SubSeq(s, a, b), 2, z + 1) = SubSeq(s, a + 2 - 1, a + (z + 1) - 1)
      <4>1. 2 \in Nat \ {0} /\ b \in Int /\ b <= Len(s) /\ z + 1 \in Int
            /\ z + 1 <= Len(SubSeq(s, a, b))
        BY <1>3, <1>15, <1>16, <3>2
      <4> QED BY <1>3, <4>1, WindowOfWindow
    <3>5. a + 2 - 1 = low + 1 /\ a + (z + 1) - 1 = b
      BY <1>15, <3>1
    <3> QED BY <1>16, <3>3, <3>4, <3>5
  <2> QED BY <2>1, <2>2
<1>20. q * z < n
  BY <1>5, <1>15
<1> QED BY <1>1, <1>2, <1>16, <1>17, <1>19, <1>20 DEF ReadIsPage

LEMMA PositionedRead ==
  ASSUME PaginationAssumption, NEW rows \in SUBSET Rows, NEW req \in Requests,
         Positioned(rows, req)
  PROVE  ReadIsPage(GetEntities(rows, req), req, rows)
<1>1. CASE IsFirstRequest(req.cursor) /\ (req.page = 1 \/ rows = {})
  BY <1>1, FirstRead
<1>2. CASE ~(IsFirstRequest(req.cursor) /\ (req.page = 1 \/ rows = {}))
  <2>1. ~IsFirstRequest(req.cursor)
    <3>1. PICK p \in Nat \ {0}, z \in Nat \ {0} : p = req.cursor.page /\ z = req.size
      BY RequestType
    <3>2. PICK low \in Nat, n \in Nat : low = (p - 1) * z /\ n = Cardinality(rows)
      BY PageBegins, TableSorted
    <3>3. /\ low < n
          /\ req.cursor.last = Sorted(rows, req.cursor.order)[Least(low + z, n)]
      BY <1>2, <3>1, <3>2 DEF Positioned
    <3>4. Least(low + z, n) \in 1..n
      <4>1. low + z \in 1..n \/ low + z > n
        OBVIOUS
      <4> QED BY <3>3, <4>1 DEF Least
    <3>5. req.cursor.last # NoId
      <4>1. \A i \in 1..n : Sorted(rows, req.cursor.order)[i] # NoId
        BY <3>2, TableSorted
      <4>2. PICK i \in 1..n : i = Least(low + z, n)
        BY <3>4
      <4> QED BY <3>3, <4>1, <4>2
    <3> QED BY <3>5 DEF IsFirstRequest
  <2> QED BY <2>1, NextRead, RefreshRead, PreviousRead, RequestType
<1> QED BY <1>1, <1>2

(* What HasNext says, and the total tells.                                  *)
FreshTotals(rows) == {NotSpecified, Cardinality(rows)}
RowsFollow(rows, req) == req.page * req.size < Cardinality(rows)
OnPage(rows, req) == req.page = 1 \/ (req.page - 1) * req.size < Cardinality(rows)
MarkExact(rows, req) ==
  Direction(req) = "refresh" => (req.mark = TRUE <=> RowsFollow(rows, req))

LEMMA Divided ==
  ASSUME NEW t \in Nat, NEW z \in Nat \ {0}
  PROVE  t \div z \in Nat /\ (t \div z) * z <= t /\ t < (t \div z) * z + z
OBVIOUS

LEMMA TimesGrows ==
  ASSUME NEW a \in Nat, NEW b \in Nat, NEW z \in Nat, a <= b
  PROVE  a * z <= b * z
<1>1. PICK c \in Nat : b = a + c
  <2>1. b - a \in Nat /\ b = a + (b - a)
    OBVIOUS
  <2> QED BY <2>1
<1>2. b * z = a * z + c * z /\ c * z \in Nat /\ a * z \in Nat
  BY <1>1, ProductType
<1> QED BY <1>2

LEMMA PagesTells ==
  ASSUME NEW n \in Nat, NEW q \in Nat \ {0}, NEW z \in Nat \ {0}
  PROVE  q < Pages(n, z) <=> q * z < n
<1>1. PICK t \in Nat : t = n + z - 1
  <2>1. n + z - 1 \in Nat
    OBVIOUS
  <2> QED BY <2>1
<1>2. PICK d \in Nat : d = t \div z /\ d * z <= t /\ t < d * z + z
  BY Divided
<1>3. Pages(n, z) = d
  BY <1>1, <1>2 DEF Pages
<1>4. CASE q < d
  <2>1. PICK e \in Nat : e = q + 1 /\ e <= d
    BY <1>4
  <2>2. e * z <= d * z
    BY <2>1, TimesGrows
  <2>3. e * z = q * z + z
    BY <2>1
  <2>4. q * z \in Nat /\ d * z \in Nat
    BY ProductType
  <2> QED BY <1>1, <1>2, <1>3, <1>4, <2>2, <2>3, <2>4
<1>5. CASE ~(q < d)
  <2>1. d * z <= q * z
    BY <1>5, TimesGrows
  <2>2. q * z \in Nat /\ d * z \in Nat
    BY ProductType
  <2> QED BY <1>1, <1>2, <1>3, <1>5, <2>1, <2>2
<1> QED BY <1>4, <1>5

LEMMA HasNextTells ==
  ASSUME PaginationAssumption, NEW rows \in SUBSET Rows, NEW req \in Requests, NEW read,
         ReadIsPage(read, req, rows), MarkExact(rows, req), NEW total \in FreshTotals(rows)
  PROVE  Result(read, req, total).hasNext <=> RowsFollow(rows, req)
<1>1. PICK q \in Nat \ {0}, z \in Nat \ {0} : q = req.page /\ z = req.size
  BY RequestType
<1>2. PICK n \in Nat : n = Cardinality(rows)
  BY RowSets
<1>3. /\ Direction(req) \in {"next", "previous", "refresh"}
      /\ Direction(req) = "next" => (Len(read) = req.size + 1 <=> RowsFollow(rows, req))
      /\ Direction(req) = "previous" => RowsFollow(rows, req)
      /\ Direction(req) = "refresh" => (req.mark = TRUE <=> RowsFollow(rows, req))
  BY RequestType DEF ReadIsPage, RowsFollow, MarkExact
<1>4. n # NotSpecified
  BY DEF NotSpecified
<1>5. CASE total = NotSpecified
  BY <1>3, <1>5, HasNextIs, Zenon
<1>6. CASE total = n
  <2>1. req.page < Pages(total, req.size) <=> RowsFollow(rows, req)
    BY <1>1, <1>2, <1>6, PagesTells DEF RowsFollow
  <2>2. total # NotSpecified
    BY <1>4, <1>6
  <2> QED BY <1>3, <2>1, <2>2, HasNextIs, Zenon
<1> QED BY <1>2, <1>5, <1>6 DEF FreshTotals

(* The ids of a page that has rows, and of one that has none.               *)
EndsAre(first, last, s, n, low, z) ==
  /\ low < n => /\ first = s[low + 1] /\ first # NoId
                /\ last = s[Least(low + z, n)] /\ last # NoId
  /\ low >= n => first = NoId /\ last = NoId

LEMMA PageEnds ==
  ASSUME PaginationAssumption, NEW rows \in SUBSET Rows, NEW o,
         NEW low \in Nat, NEW z \in Nat \ {0}
  PROVE  LET f == SkipTake(Sorted(rows, o), low, z)
         IN  EndsAre(FirstOf(f), LastOf(f), Sorted(rows, o), Cardinality(rows), low, z)
<1>0. PICK f : f = SkipTake(Sorted(rows, o), low, z)
  OBVIOUS
<1>1. PICK n \in Nat, s \in Seq(rows) :
        s = Sorted(rows, o) /\ n = Cardinality(rows) /\ Len(s) = n
  BY TableSorted
<1> SUFFICES EndsAre(FirstOf(f), LastOf(f), s, n, low, z)
  BY <1>0, <1>1
<1>2. \A i \in 1..n : s[i] # NoId
  BY <1>1, TableSorted
<1>3. CASE low < n
  <2>1. PICK a \in Nat \ {0}, b \in Nat : a = low + 1 /\ b = Least(low + z, n)
    BY DEF Least
  <2>2. a <= b /\ b <= n /\ b \in Int /\ a \in 1..n /\ b \in 1..n
    BY <1>3, <2>1 DEF Least
  <2>3. f = SubSeq(s, a, b)
    <3>1. (IF low + z < n THEN low + z ELSE n) = b
      BY <2>1 DEF Least
    <3> QED BY <1>0, <1>1, <2>1, <3>1 DEF SkipTake
  <2>4. /\ Len(f) = b - a + 1 /\ f \in Seq(rows)
        /\ \A i \in 1..Len(f) : f[i] = s[a + i - 1]
    BY <1>1, <2>2, <2>3, Window
  <2>5. PICK l \in Nat \ {0} : l = Len(f) /\ a + l - 1 = b /\ a + 1 - 1 = a
    BY <2>2, <2>4
  <2>6. 1 \in 1..l /\ l \in 1..l
    OBVIOUS
  <2>7. f[1] = s[a] /\ f[l] = s[b]
    BY <2>4, <2>5, <2>6
  <2>8. f # <<>> /\ Head(f) = f[1] /\ Last(f) = f[l]
    BY <2>4, <2>5 DEF Last
  <2>9. FirstOf(f) = s[low + 1] /\ LastOf(f) = s[Least(low + z, n)]
    BY <2>1, <2>7, <2>8 DEF FirstOf, LastOf
  <2>10. FirstOf(f) # NoId /\ LastOf(f) # NoId
    BY <1>2, <2>1, <2>2, <2>9
  <2> QED BY <1>3, <2>9, <2>10 DEF EndsAre
<1>4. CASE low >= n
  <2>1. f = <<>>
    BY <1>0, <1>1, <1>4, Beyond
  <2> QED BY <1>4, <2>1 DEF FirstOf, LastOf, EndsAre
<1> QED BY <1>3, <1>4

ShowsPage(rows, res) ==
  res.items = PageRows(rows, res.request.cursor.order, res.request.page, res.request.size)

LEMMA ResultEnds ==
  ASSUME PaginationAssumption, NEW rows \in SUBSET Rows, NEW res, ResultFits(res),
         ShowsPage(rows, res)
  PROVE  EndsAre(res.first, res.last, Sorted(rows, res.request.cursor.order),
                 Cardinality(rows), (res.request.page - 1) * res.request.size,
                 res.request.size)
<1>1. PICK p \in Nat \ {0}, z \in Nat \ {0} : p = res.request.page /\ z = res.request.size
  BY RequestType DEF ResultFits
<1>2. PICK low \in Nat : low = (p - 1) * z
  BY PageBegins
<1>3. res.items = SkipTake(Sorted(rows, res.request.cursor.order), low, z)
  BY <1>1, <1>2 DEF ShowsPage, PageRows
<1>4. EndsAre(FirstOf(res.items), LastOf(res.items), Sorted(rows, res.request.cursor.order),
              Cardinality(rows), low, z)
  BY <1>2, <1>3, PageEnds
<1>5. res.first = FirstOf(res.items) /\ res.last = LastOf(res.items)
  BY DEF ResultFits
<1> QED BY <1>1, <1>2, <1>4, <1>5

(* A request that continues from a page stands on it.                       *)
LEMMA ContinuesPositioned ==
  ASSUME PaginationAssumption, NEW rows \in SUBSET Rows, NEW res, ResultFits(res),
         ShowsPage(rows, res), NEW req, NEW page, NEW mark,
         PageOf(req, res, page, mark), Accepted(req)
  PROVE  Positioned(rows, req)
<1>1. PICK p \in Nat \ {0}, z \in Nat \ {0} : p = res.request.page /\ z = res.request.size
  BY RequestType DEF ResultFits
<1>2. PICK low \in Nat, n \in Nat : low = (p - 1) * z /\ n = Cardinality(rows)
  BY PageBegins, TableSorted
<1>3. EndsAre(res.first, res.last, Sorted(rows, res.request.cursor.order), n, low, z)
  BY <1>1, <1>2, ResultEnds
<1>4. /\ req.cursor.page = p /\ req.size = z /\ req.cursor.order = res.request.cursor.order
      /\ req.cursor.first = res.first /\ req.cursor.last = res.last
  BY <1>1 DEF PageOf
<1>5. CASE low < n
  <2>1. /\ res.first = Sorted(rows, res.request.cursor.order)[low + 1]
        /\ res.last = Sorted(rows, res.request.cursor.order)[Least(low + z, n)]
    BY <1>3, <1>5 DEF EndsAre
  <2> QED BY <1>2, <1>4, <1>5, <2>1 DEF Positioned
<1>6. CASE ~(low < n)
  <2>1. low >= n
    BY <1>6
  <2>2. res.first = NoId /\ res.last = NoId
    BY <1>3, <2>1 DEF EndsAre
  <2>3. IsFirstRequest(req.cursor)
    BY <1>4, <2>2 DEF Accepted
  <2>4. p = 1
    BY <1>4, <2>3 DEF IsFirstRequest
  <2>5. low = 0
    BY <1>2, <2>4, PageBegins
  <2>6. Cardinality(rows) = 0 /\ IsFiniteSet(rows)
    BY <1>2, <2>1, <2>5, RowSets
  <2>7. rows = {}
    BY <2>6, FS_EmptySet
  <2> QED BY <2>3, <2>7 DEF Positioned
<1> QED BY <1>5, <1>6

LEMMA NeverRefused ==
  ASSUME PaginationAssumption, NEW rows \in SUBSET Rows, NEW res, ResultFits(res),
         ShowsPage(rows, res), OnPage(rows, res.request), NEW req, NEW page, NEW mark,
         PageOf(req, res, page, mark)
  PROVE  Accepted(req)
<1>1. PICK p \in Nat \ {0}, z \in Nat \ {0} : p = res.request.page /\ z = res.request.size
  BY RequestType DEF ResultFits
<1>2. PICK low \in Nat, n \in Nat : low = (p - 1) * z /\ n = Cardinality(rows)
  BY PageBegins, TableSorted
<1>3. EndsAre(res.first, res.last, Sorted(rows, res.request.cursor.order), n, low, z)
  BY <1>1, <1>2, ResultEnds
<1>4. req.cursor.page = p /\ req.cursor.first = res.first /\ req.cursor.last = res.last
  BY <1>1 DEF PageOf
<1>5. CASE low < n
  <2>1. res.first # NoId /\ res.last # NoId
    BY <1>3, <1>5 DEF EndsAre
  <2> QED BY <1>4, <2>1 DEF Accepted, CursorId
<1>6. CASE ~(low < n)
  <2>1. p = 1
    BY <1>1, <1>2, <1>6 DEF OnPage
  <2>2. low >= n
    BY <1>6
  <2>3. res.last = NoId
    BY <1>3, <2>2 DEF EndsAre
  <2> QED BY <1>4, <2>1, <2>3 DEF Accepted, IsFirstRequest
<1> QED BY <1>5, <1>6

(* In a table that did not change since the session began: a request stands *)
(* on the page of its cursor, what was read for it and what a result shows  *)
(* are pages, and a client that did not jump is on a page that has rows and *)
(* knows whether others follow.                                             *)
AsksPage(rows, req) == req.total \in FreshTotals(rows) /\ Positioned(rows, req)

QuietInv == walk.fresh = TRUE =>
  /\ pc # "idle" => AsksPage(table, request) /\ refused = FALSE
  /\ pc = "count" => ReadIsPage(items, request, table)
  /\ pc = "idle" => result.total \in FreshTotals(table) /\ ShowsPage(table, result)
  /\ walk.path # "jump" =>
       /\ pc # "idle" => OnPage(table, request) /\ MarkExact(table, request)
       /\ pc = "idle" => /\ refused = FALSE /\ OnPage(table, result.request)
                         /\ result.hasNext <=> RowsFollow(table, result.request)

LEMMA MovedStays ==
  ASSUME NEW path, Moved(path).path # "jump", NEW w \in Walks, walk = w
  PROVE  walk.path # "jump"
BY DEF Moved, Walks

LEMMA QuietInit ==
  ASSUME PaginationAssumption, Init
  PROVE  QuietInv
BY InitType DEF QuietInv

(* An accepted request, and a refused one.                                  *)
LEMMA QuietAccepted ==
  ASSUME NEW req, Ask(req), Accepted(req), AsksPage(table, req),
         walk'.path # "jump" => OnPage(table, req) /\ MarkExact(table, req)
  PROVE  QuietInv'
<1>1. /\ table' = table /\ pc' = "items" /\ request' = req /\ refused' = FALSE
  BY AskIs
<1> QED BY <1>1 DEF QuietInv

(* A session that begins asks for the first page.                           *)
LEMMA QuietOpens ==
  ASSUME PaginationAssumption, TypeInv, NEW size \in Nat \ {0}, NEW order \in Orders,
         NEW update \in BOOLEAN, NEW total \in Totals, total \in FreshTotals(table),
         Ask(DefaultWith(size, order, total, update))
  PROVE  QuietInv'
<1>1. PICK req : req = DefaultWith(size, order, total, update)
  OBVIOUS
<1>2. req.page = 1 /\ req.total = total /\ req.cursor = InitialCursor(order)
  BY <1>1 DEF DefaultWith, Request, AtLeastOne
<1>3. req.cursor.page = 1 /\ IsFirstRequest(req.cursor)
  BY <1>2 DEF InitialCursor, Cursor, IsFirstRequest
<1>4. Direction(req) = "next"
  BY <1>2, <1>3 DEF Direction
<1>5. Accepted(req) /\ AsksPage(table, req) /\ OnPage(table, req) /\ MarkExact(table, req)
  BY <1>2, <1>3, <1>4 DEF Accepted, AsksPage, Positioned, OnPage, MarkExact
<1> QED BY <1>1, <1>5, QuietAccepted

(* A client that goes on from a result.                                     *)
LEMMA QuietMoves ==
  ASSUME PaginationAssumption, TypeInv, QuietInv, pc = "idle", walk.fresh = TRUE,
         NEW req, NEW page, NEW mark, PageOf(req, result, page, mark), Ask(req),
         walk'.path # "jump" => /\ walk.path # "jump"
                                /\ OnPage(table, req) /\ MarkExact(table, req)
  PROVE  QuietInv'
<1>1. table \in SUBSET Rows /\ ResultFits(result)
  BY DEF TypeInv
<1>2. result.total \in FreshTotals(table) /\ ShowsPage(table, result)
  BY DEF QuietInv
<1>3. CASE Accepted(req)
  <2>1. Positioned(table, req)
    BY <1>1, <1>2, <1>3, ContinuesPositioned
  <2>2. AsksPage(table, req)
    BY <1>2, <2>1 DEF AsksPage, PageOf
  <2> QED BY <1>3, <2>2, QuietAccepted
<1>4. CASE ~Accepted(req)
  <2>1. walk'.path = "jump"
    <3> SUFFICES ASSUME walk'.path # "jump" PROVE FALSE
      OBVIOUS
    <3>1. OnPage(table, result.request)
      BY DEF QuietInv
    <3> QED BY <1>1, <1>2, <1>4, <3>1, NeverRefused
  <2>2. table' = table /\ pc' = "idle" /\ result' = result
    BY <1>4, AskIs
  <2>3. ShowsPage(table, result)'
    BY <1>2, <2>2 DEF ShowsPage
  <2> QED BY <1>2, <2>1, <2>2, <2>3 DEF QuietInv
<1> QED BY <1>3, <1>4

LEMMA QuietAsks ==
  ASSUME PaginationAssumption, TypeInv, QuietInv, pc = "idle",
         NEW req \in Requests, Asks(req), Ask(req)
  PROVE  QuietInv'
<1> SUFFICES ASSUME walk'.fresh = TRUE
             PROVE  QuietInv'
  BY DEF QuietInv
<1>1. /\ ResultFits(result) /\ walk \in Walks /\ walk.fresh \in BOOLEAN
      /\ table \in SUBSET Rows /\ result.total \in Totals
  BY DEF TypeInv, Walks, ResultFits
<1>2. \A size \in PageSizes : size \in Nat \ {0}
  BY DEF PaginationAssumption
<1>3. PICK p \in Nat \ {0}, z \in Nat \ {0} : p = result.request.page /\ z = result.request.size
  BY <1>1, RequestType DEF ResultFits
<1>4. PICK n \in Nat : n = Cardinality(table)
  BY <1>1, RowSets
<1>5. \A path \in {"next", "back", "jump"} :
        walk' = Moved(path) => /\ walk.fresh = TRUE
                               /\ walk'.path # "jump" => walk.path # "jump"
                               /\ path = "jump" => walk'.path = "jump"
  BY <1>1, MovedIs, MovedStays
<1>6. walk.fresh = TRUE /\ walk.path # "jump" =>
        /\ OnPage(table, result.request)
        /\ result.hasNext <=> RowsFollow(table, result.request)
  BY DEF QuietInv
<1>7. ASSUME NEW size \in PageSizes, NEW order \in Orders, NEW update \in BOOLEAN,
             req = DefaultWith(size, order, NotSpecified, update)
      PROVE  QuietInv'
  <2>1. NotSpecified \in Totals /\ NotSpecified \in FreshTotals(table)
    BY DEF Totals, FreshTotals
  <2> QED BY <1>2, <1>7, <2>1, QuietOpens
<1>8. ASSUME NEW size \in PageSizes, NEW order \in Orders, NEW update \in BOOLEAN,
             req = DefaultWith(size, order, result.total, update),
             walk' = [Opened EXCEPT !.fresh = walk.fresh]
      PROVE  QuietInv'
  <2>1. walk.fresh = TRUE
    BY <1>8 DEF Opened
  <2>2. result.total \in FreshTotals(table)
    BY <2>1 DEF QuietInv
  <2> QED BY <1>1, <1>2, <1>8, <2>2, QuietOpens
<1>9. ASSUME NEW page \in Int, NEW update \in BOOLEAN, NEW mark \in BOOLEAN,
             req = RequestPage(result, page, update, mark), walk' = Moved("jump")
      PROVE  QuietInv'
  <2>1. PageOf(req, result, page, mark)
    BY <1>9, PageOfResult
  <2> QED BY <1>5, <1>9, <2>1, QuietMoves
<1>10. ASSUME NEW update \in BOOLEAN, result.hasNext,
              req = RequestPage(result, result.request.page + 1, update, FALSE),
              walk' = Moved("next")
       PROVE  QuietInv'
  <2>1. PageOf(req, result, result.request.page + 1, FALSE)
    BY <1>10, PageOfResult
  <2>2. PICK q \in Nat \ {0} : q = p + 1 /\ req.page = q /\ req.size = z /\ req.cursor.page = p
    <3>1. AtLeastOne(p + 1) = p + 1 /\ p + 1 \in Nat \ {0}
      BY DEF AtLeastOne
    <3> QED BY <1>3, <2>1, <3>1 DEF PageOf
  <2>3. Direction(req) = "next"
    BY <2>2 DEF Direction
  <2>4. walk'.path # "jump" => OnPage(table, req)
    <3> SUFFICES ASSUME walk'.path # "jump" PROVE OnPage(table, req)
      OBVIOUS
    <3>1. RowsFollow(table, result.request)
      BY <1>5, <1>6, <1>10
    <3>2. p * z < n
      BY <1>3, <1>4, <3>1 DEF RowsFollow
    <3>3. (q - 1) * z < n
      <4>1. q - 1 = p
        BY <2>2
      <4> QED BY <3>2, <4>1
    <3> QED BY <1>4, <2>2, <3>3 DEF OnPage
  <2>5. MarkExact(table, req)
    BY <2>3 DEF MarkExact
  <2> QED BY <1>5, <1>10, <2>1, <2>4, <2>5, QuietMoves
<1>11. ASSUME NEW update \in BOOLEAN, result.hasPrevious,
              req = RequestPage(result, result.request.page - 1, update, FALSE),
              walk' = Moved("back")
       PROVE  QuietInv'
  <2>1. PageOf(req, result, result.request.page - 1, FALSE)
    BY <1>11, PageOfResult
  <2>2. PICK q \in Nat \ {0} : q = p - 1 /\ req.page = q /\ req.size = z /\ req.cursor.page = p
    <3>1. p > 1
      BY <1>1, <1>3, <1>11 DEF ResultFits
    <3>2. AtLeastOne(p - 1) = p - 1 /\ p - 1 \in Nat \ {0}
      BY <3>1 DEF AtLeastOne
    <3> QED BY <1>3, <2>1, <3>2 DEF PageOf
  <2>3. Direction(req) # "refresh"
    <3>1. q < p /\ ~(q > p)
      BY <2>2
    <3>2. ~IsFirstRequest(req.cursor)
      BY <2>2 DEF IsFirstRequest
    <3> QED BY <2>2, <3>1, <3>2 DEF Direction
  <2>4. walk'.path # "jump" => OnPage(table, req)
    <3> SUFFICES ASSUME walk'.path # "jump" PROVE OnPage(table, req)
      OBVIOUS
    <3>1. OnPage(table, result.request)
      BY <1>5, <1>6, <1>11
    <3>2. (p - 1) * z < n
      BY <1>3, <1>4, <2>2, <3>1 DEF OnPage
    <3>3. (q - 1) * z < n
      <4>1. PICK a \in Nat, b \in Nat : a = q - 1 /\ b = p - 1 /\ a <= b
        BY <2>2
      <4>2. a * z <= b * z /\ a * z \in Nat /\ b * z \in Nat
        BY <4>1, TimesGrows, ProductType
      <4> QED BY <3>2, <4>1, <4>2
    <3> QED BY <1>4, <2>2, <3>3 DEF OnPage
  <2>5. MarkExact(table, req)
    BY <2>3 DEF MarkExact
  <2> QED BY <1>5, <1>11, <2>1, <2>4, <2>5, QuietMoves
<1>12. ASSUME NEW update \in BOOLEAN,
              req = RequestPage(result, result.request.page, update, result.hasNext),
              walk' = Moved("back")
       PROVE  QuietInv'
  <2>1. PageOf(req, result, result.request.page, result.hasNext)
    BY <1>12, PageOfResult
  <2>2. req.page = p /\ req.size = z
    <3>1. AtLeastOne(p) = p
      BY DEF AtLeastOne
    <3> QED BY <1>3, <2>1, <3>1 DEF PageOf
  <2>3. req.mark = TRUE <=> result.hasNext
    BY <1>1, <2>1 DEF PageOf, ResultFits
  <2>4. walk'.path # "jump" => OnPage(table, req) /\ MarkExact(table, req)
    BY <1>3, <1>5, <1>6, <1>12, <2>2, <2>3 DEF OnPage, MarkExact, RowsFollow
  <2> QED BY <1>5, <1>12, <2>1, <2>4, QuietMoves
<1> QED BY <1>7, <1>8, <1>9, <1>10, <1>11, <1>12 DEF Asks

LEMMA QuietPublishes ==
  ASSUME PaginationAssumption, TypeInv, NEW read, NEW total,
         Publish(read, total), UNCHANGED <<table, request, refused>>, pc # "idle", QuietInv,
         walk.fresh = TRUE => total \in FreshTotals(table) /\ ReadIsPage(read, request, table)
  PROVE  QuietInv'
<1> SUFFICES ASSUME walk'.fresh = TRUE
             PROVE  QuietInv'
  BY DEF QuietInv
<1>1. walk \in Walks /\ request \in Requests /\ table \in SUBSET Rows
  BY DEF TypeInv
<1>2. pc' = "idle" /\ result' = Result(read, request, total)
      /\ walk' = IF walk.path = "next" THEN [walk EXCEPT !.shown = @ \o result'.items] ELSE walk
  BY DEF Publish
<1>3. walk'.fresh = walk.fresh /\ walk'.path = walk.path
  <2>1. CASE walk.path = "next"
    BY <1>1, <1>2, <2>1 DEF Walks
  <2>2. CASE walk.path # "next"
    BY <1>2, <2>2
  <2> QED BY <2>1, <2>2
<1>4. total \in FreshTotals(table) /\ ReadIsPage(read, request, table)
  BY <1>3
<1>5. /\ result'.request = request /\ result'.items = Shown(read, request)
      /\ result'.total = total
  BY <1>2, ResultIs
<1>6. ShowsPage(table, result)'
  BY <1>4, <1>5 DEF ShowsPage, ReadIsPage, PageRows
<1>7. ASSUME walk.path # "jump"
      PROVE  /\ refused = FALSE /\ OnPage(table, request)
             /\ result'.hasNext <=> RowsFollow(table, request)
  <2>1. refused = FALSE /\ OnPage(table, request) /\ MarkExact(table, request)
    BY <1>3, <1>7 DEF QuietInv
  <2>2. Result(read, request, total).hasNext <=> RowsFollow(table, request)
    BY <1>1, <1>4, <2>1, HasNextTells
  <2> QED BY <1>2, <2>1, <2>2, Zenon
<1> QED BY <1>2, <1>3, <1>4, <1>5, <1>6, <1>7 DEF QuietInv

LEMMA QuietStep ==
  ASSUME PaginationAssumption, TypeInv, QuietInv, [Next]_vars
  PROVE  QuietInv'
<1>0. request \in Requests /\ table \in SUBSET Rows
  BY DEF TypeInv
<1>1. CASE UNCHANGED vars
  BY <1>1 DEF vars, QuietInv, ShowsPage
<1>2. CASE Next
  <2>1. ASSUME NEW req \in Requests, pc = "idle", Asks(req), Ask(req) PROVE QuietInv'
    BY <2>1, QuietAsks
  <2>2. CASE ReadItems
    <3>1. PICK read : read = GetEntities(table, request)
      OBVIOUS
    <3>2. pc = "items" /\ UNCHANGED <<table, request, refused>>
      BY <2>2 DEF ReadItems
    <3>3. walk.fresh = TRUE => /\ request.total \in FreshTotals(table)
                               /\ ReadIsPage(read, request, table)
      BY <1>0, <3>1, <3>2, PositionedRead DEF QuietInv, AsksPage
    <3>4. CASE request.update
      <4>1. pc' = "count" /\ items' = read /\ UNCHANGED <<result, walk>>
        BY <2>2, <3>1, <3>4 DEF ReadItems
      <4> QED BY <3>2, <3>3, <4>1 DEF QuietInv
    <3>5. CASE ~request.update
      <4>1. Publish(read, request.total)
        BY <2>2, <3>1, <3>5 DEF ReadItems
      <4> QED BY <3>2, <3>3, <4>1, QuietPublishes
    <3> QED BY <3>4, <3>5
  <2>3. CASE CountRows
    <3>1. /\ pc = "count" /\ Publish(items, Cardinality(table))
          /\ UNCHANGED <<table, request, refused>>
      BY <2>3 DEF CountRows
    <3>2. walk.fresh = TRUE => /\ Cardinality(table) \in FreshTotals(table)
                               /\ ReadIsPage(items, request, table)
      BY <3>1 DEF QuietInv, FreshTotals
    <3> QED BY <3>1, <3>2, QuietPublishes
  <2>4. ASSUME NEW r \in Rows, Insert(r) \/ Delete(r) PROVE QuietInv'
    BY <2>4, ChangeType DEF QuietInv
  <2> QED BY <1>2, <2>1, <2>2, <2>3, <2>4, Steps
<1> QED BY <1>1, <1>2

LEMMA QuietInvariant == Spec => [](TypeInv /\ QuietInv)
<1>1. Init => QuietInv
  BY PaginationAssumption, QuietInit
<1>2. TypeInv /\ QuietInv /\ [Next]_vars => QuietInv'
  BY PaginationAssumption, QuietStep
<1> QED BY <1>1, <1>2, TypeInvariant, PTL DEF Spec

(* In a table that did not change since the session began, page n shows the *)
(* n-th group of rows, whichever way the client came to it, forward, back,  *)
(* by a refresh or by jumps (PaginationUtils.GetResultAsync).               *)
THEOREM PageNumberIsPositionHolds == Spec => []PageNumberIsPosition
<1>1. TypeInv /\ QuietInv => PageNumberIsPosition
  BY DEF TypeInv, Walks, QuietInv, ShowsPage, PageRows, PageNumberIsPosition
<1> QED BY <1>1, QuietInvariant, PTL

(* In such a table a client that follows HasNext and HasPrevious and does   *)
(* not jump is told exactly whether rows follow its page, and is never      *)
(* refused one (PaginationResult, PaginationTotal.Pages).                   *)
THEOREM HasNextIsExactHolds == Spec => []HasNextIsExact
<1>1. TypeInv /\ QuietInv => HasNextIsExact
  <2> SUFFICES ASSUME TypeInv, QuietInv, walk.fresh, walk.path # "jump", pc = "idle"
               PROVE  /\ ~refused
                      /\ result.hasNext <=>
                           Cardinality(table) > result.request.page * result.request.size
    BY DEF HasNextIsExact
  <2>1. walk.fresh = TRUE
    BY DEF TypeInv, Walks
  <2>2. refused = FALSE /\ (result.hasNext <=> RowsFollow(table, result.request))
    BY <2>1 DEF QuietInv
  <2>3. /\ result.request.page \in Nat /\ result.request.size \in Nat
        /\ Cardinality(table) \in Nat
    BY PaginationAssumption, RequestType, RowSets DEF TypeInv, ResultFits
  <2>4. RowsFollow(table, result.request) <=>
          Cardinality(table) > result.request.page * result.request.size
    BY <2>3, ProductType DEF RowsFollow
  <2> QED BY <2>2, <2>4, Zenon
<1> QED BY <1>1, QuietInvariant, PTL

(* A jump leads at most MaxJump pages away, wherever it was aimed at, so    *)
(* that a query skips less than MaxJump pages of rows: what holds of the    *)
(* limit of PaginationRequest.From although the direction may be wrong.     *)
THEOREM JumpsAreShort ==
  ASSUME NEW res, ResultFits(res), NEW jumpTo \in Int, NEW size \in Nat \ {0},
         NEW order \in Orders, NEW update \in BOOLEAN
  PROVE  PageDifference(From(res, jumpTo, size, order, update)) <= MaxJump
<1>1. PICK p \in Nat \ {0}, limit \in Nat : p = res.request.page /\ limit = MaxJump
  BY PaginationAssumption, RequestType DEF ResultFits, PaginationAssumption
<1>2. PICK req : req = From(res, jumpTo, size, order, update)
  OBVIOUS
<1>3. CASE order # res.request.cursor.order \/ size # res.request.size
  <2>1. req = DefaultWith(size, order, res.total, update)
    BY <1>2, <1>3 DEF From
  <2>2. req.page = 1 /\ req.cursor.page = 1
    BY <2>1 DEF DefaultWith, Request, AtLeastOne, InitialCursor, Cursor
  <2>3. PageDifference(req) = 0
    BY <2>2 DEF PageDifference
  <2> QED BY <1>1, <1>2, <2>3
<1>4. CASE ~(order # res.request.cursor.order \/ size # res.request.size)
  <2>1. PICK target \in Int :
          target = CASE p - jumpTo > limit  -> p + limit
                     [] p - jumpTo < -limit -> p - limit
                     [] OTHER -> jumpTo
    <3>1. p + limit \in Int /\ p - limit \in Int
      OBVIOUS
    <3> QED BY <3>1
  <2>2. target - p <= limit /\ p - target <= limit
    <3>1. CASE p - jumpTo > limit
      <4>1. ~(p - jumpTo < -limit)
        BY <3>1
      <4>2. target = p + limit
        BY <2>1, <3>1, <4>1
      <4> QED BY <4>2
    <3>2. CASE p - jumpTo < -limit
      <4>1. ~(p - jumpTo > limit)
        BY <3>2
      <4>2. target = p - limit
        BY <2>1, <3>2, <4>1
      <4> QED BY <4>2
    <3>3. CASE ~(p - jumpTo > limit) /\ ~(p - jumpTo < -limit)
      <4>1. target = jumpTo
        BY <2>1, <3>3
      <4> QED BY <3>3, <4>1
    <3> QED BY <3>1, <3>2, <3>3
  <2>3. \E page \in Int, mark \in BOOLEAN :
          /\ req = RequestPage(res, page, update, mark)
          /\ page - p <= limit /\ p - page <= limit
    <3>1. CASE p = jumpTo
      <4>1. req = RequestPage(res, p, update, res.hasNext)
        BY <1>1, <1>2, <1>4, <3>1 DEF From, RequestRefresh
      <4>2. p \in Int /\ res.hasNext \in BOOLEAN /\ p - p <= limit
        BY DEF ResultFits
      <4> QED BY <4>1, <4>2
    <3>2. CASE p # jumpTo
      <4>1. req = RequestPage(res, AtLeastOne(target), update, FALSE)
        BY <1>1, <1>2, <1>4, <2>1, <3>2 DEF From
      <4>2. AtLeastOne(target) \in Int /\ AtLeastOne(target) - p <= limit
            /\ p - AtLeastOne(target) <= limit
        BY <2>2 DEF AtLeastOne
      <4> QED BY <4>1, <4>2
    <3> QED BY <3>1, <3>2
  <2>4. PICK page \in Int, mark \in BOOLEAN :
          /\ req = RequestPage(res, page, update, mark)
          /\ page - p <= limit /\ p - page <= limit
    BY <2>3
  <2>5. req.page = AtLeastOne(page) /\ req.cursor.page = p
    BY <1>1, <2>4, PageOfResult DEF PageOf
  <2>6. AtLeastOne(page) - p <= limit /\ p - AtLeastOne(page) <= limit
    BY <2>4 DEF AtLeastOne
  <2> QED BY <1>1, <1>2, <2>5, <2>6 DEF PageDifference
<1> QED BY <1>3, <1>4
=============================================================================
