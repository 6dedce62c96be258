------------------------- MODULE EntitySaving_proofs -------------------------
(***************************************************************************)
(* Proofs about the life of entities, for any number of app instances,     *)
(* entities, restarts and faults, any key rings and any cipher: an id      *)
(* stands for one entity for ever, no update is lost, and entity ids are   *)
(* read back.                                                              *)
(***************************************************************************)
EXTENDS EntitySaving, SourceKnownIds_proofs,
        FiniteSetTheorems, WellFoundedInduction

-----------------------------------------------------------------------------
(* Types.                                                                  *)

States == {"Added", "Unchanged", "Modified", "Deleted"}
Stamps == {NoStamp} \cup (Int \X Int)

Guids == {EmptyGuid} \cup
         {EntityIdFor(c, id, type) : c \in Configs, id \in Ids, type \in EntityTypes}

EntrySet ==
  [object : Nat, type : EntityTypes, id : Ids, guid : Guids, state : States,
   modifiedAt : Stamps, original : Stamps, seen : Nat]

RowSet == [object : Nat, type : EntityTypes, id : Ids, modifiedAt : Stamps,
           version : Nat]

HandedSet == [guid : Guids, key : Keys, secure : BOOLEAN, id : Ids,
              type : EntityTypes, object : Nat]

LastIds == [ts : TimeStamps \cup {-1}, seq : SequenceIds]

Typed ==
  /\ now \in TimeStamps
  /\ up \in SUBSET Processes
  /\ config \in [Processes -> Configs]
  /\ lastId \in [Processes -> [EntityTypes -> LastIds]]
  /\ tracked \in [Processes -> Seq(EntrySet)]
  /\ saving \in SUBSET Processes
  /\ rows \in SUBSET RowSet
  /\ readings \in [Processes -> Nat]
  /\ objects \in Nat
  /\ known \in SUBSET HandedSet

-----------------------------------------------------------------------------
(* The inductive invariant.                                                *)

(* p may have used the id for the type: in an earlier time unit, or in     *)
(* this one and not after its last.                                        *)
UsedBy(p, type, id) ==
  \E ts \in 0..now, seq \in SequenceIds :
    /\ id = Generate(ts, AppId, p, seq)
    /\ ts = now => lastId[p][type].ts = now /\ seq <= lastId[p][type].seq

Used(type, id) == \E p \in Processes : UsedBy(p, type, id)

(* The generators are not ahead of the time.                               *)
ClockInv == \A p \in Processes : \A t \in EntityTypes : lastId[p][t].ts <= now

IsNaming(x) ==
  \/ \E r \in rows : x = Named(r)
  \/ \E h \in known : x = Named(h)
  \/ \E p \in Processes : \E i \in 1..Len(tracked[p]) : x = Named(tracked[p][i])

(* Whatever bears an id bears one that was used, ids that are not set      *)
(* included, and ids and entities of a type belong to each other.          *)
NamesInv ==
  /\ \A x : IsNaming(x) => Used(x.type, x.id) /\ x.object <= objects
  /\ \A x, y : IsNaming(x) /\ IsNaming(y) /\ x.type = y.type
       => (x.id = y.id <=> x.object = y.object)

(* An entry without id is one that was added and not marked yet.           *)
IdFits(p, e) ==
  IF e.id = Unset
  THEN e.state = "Added" /\ e.guid = EmptyGuid /\ UsedBy(p, e.type, Unset)
       /\ p \notin saving
  ELSE \/ e.guid = EmptyGuid
       \/ e.guid = EntityIdFor(config[p], e.id, e.type)
            /\ ~GenerateFails(config[p], e.id, e.type)

StampFits(e) ==
  /\ e.state = "Added" => e.seen = 0
  /\ e.state = "Unchanged" => e.modifiedAt = e.original

(* A unit of work holds an entity once, and nothing when its process is    *)
(* down.                                                                   *)
UnitFits(p) ==
  /\ p \notin up => tracked[p] = <<>>
  /\ \A e \in Entries(p) : IdFits(p, e) /\ StampFits(e)
  /\ \A i, j \in 1..Len(tracked[p]) :
       tracked[p][i].type = tracked[p][j].type /\ tracked[p][i].id = tracked[p][j].id
         => i = j

TrackerInv == saving \subseteq up /\ \A p \in Processes : UnitFits(p)

RowsInv ==
  /\ \A r \in rows : r.id # Unset
  /\ \A r, s \in rows : Matching(r, s.id, s.type) => r = s

(* What was handed out is what its generator made.                         *)
MadeRight(h) ==
  /\ h.id # Unset
  /\ h.secure => ~Jackpot(h.key, h.id, h.type)
  /\ h.guid = IF h.secure THEN GenerateSecure(h.key, h.id, h.type)
                          ELSE GeneratePlain(h.key, h.id, h.type)

KnownInv == \A h \in known : MadeRight(h)

(* The stamps that a row has, that an entry was read with, and that a row  *)
(* will have when its save succeeds, each with the version it stands for.  *)
RowStamp(r) ==
  [type |-> r.type, id |-> r.id, stamp |-> r.modifiedAt, version |-> r.version]
ReadStamp(e) ==
  [type |-> e.type, id |-> e.id, stamp |-> e.original, version |-> e.seen]
NextStamp(e) ==
  [type |-> e.type, id |-> e.id, stamp |-> e.modifiedAt, version |-> Version(e)]

IsStamping(s) ==
  \/ \E r \in rows : s = RowStamp(r)
  \/ \E p \in Processes : \E i \in 1..Len(tracked[p]) :
       \/ tracked[p][i].state # "Added" /\ s = ReadStamp(tracked[p][i])
       \/ /\ p \in saving /\ tracked[p][i].state # "Deleted"
          /\ s = NextStamp(tracked[p][i])

Dated(s) ==
  \/ s.stamp = CreatedAt(s.id) /\ s.version = 1
  \/ \E q \in Processes : \E n \in 1..readings[q] : s.stamp = Reading(q, n)

(* A stamp stands for one version of its row.                              *)
SameStamp(s, u) ==
  s.type = u.type /\ s.id = u.id /\ s.stamp = u.stamp => s.version = u.version

StampInv ==
  /\ \A s : IsStamping(s) => Dated(s)
  /\ \A s, u : IsStamping(s) /\ IsStamping(u) => SameStamp(s, u)

SavingInv ==
  /\ Typed /\ ClockInv
  /\ NamesInv /\ TrackerInv /\ RowsInv /\ KnownInv
  /\ StampInv

-----------------------------------------------------------------------------
(* The entries that stay, in their order.                                  *)

(* A set of naturals that is not empty has a least element.                *)
LEMMA LeastNatural ==
  ASSUME NEW N \in SUBSET Nat, N # {}
  PROVE  \E n \in N : \A m \in N : n <= m
<1> DEFINE R == OpToRel(<, Nat)
<1>1. IsWellFoundedOn(R, Nat)
  BY NatLessThanWellFounded
<1>2. \A m, n \in Nat : m < n => <<m, n>> \in R
  BY DEF OpToRel
<1> HIDE DEF R
<1>3. PICK n \in N : \A m \in N : ~(<<m, n>> \in R)
  BY <1>1, WFMin, Zenon
<1>4. ASSUME NEW m \in N PROVE n <= m
  <2>1. m \in Nat /\ n \in Nat
    OBVIOUS
  <2>2. ~(m < n)
    BY <1>2, <1>3, <2>1, Zenon
  <2> QED BY <2>1, <2>2
<1>5. QED
  BY <1>4

Ascending(S, f) ==
  /\ f \in [1..Cardinality(S) -> S]
  /\ \A i, j \in 1..Cardinality(S) : i < j => f[i] < f[j]

(* A finite set of naturals can be listed in ascending order.              *)
LEMMA AscendingExists ==
  ASSUME NEW N \in Nat, NEW K \in SUBSET (1..N)
  PROVE  \E f : Ascending(K, f)
<1> DEFINE upTo(n) == {k \in K : k <= n}
           bad == {n \in 0..N : ~\E f : Ascending(upTo(n), f)}
<1>1. /\ \A k \in K : k \in 1..N /\ k \in Nat \ {0}
      /\ upTo(N) = K
  <2>1. \A k \in K : k \in 1..N
    OBVIOUS
  <2>2. \A k \in K : k \in Nat \ {0} /\ k <= N
    BY <2>1
  <2> QED BY <2>1, <2>2
<1>2. SUFFICES bad = {}
  BY <1>1
<1>3. SUFFICES ASSUME bad # {} PROVE FALSE
  OBVIOUS
<1>4. PICK n \in bad : \A m \in bad : n <= m
  <2>1. bad \in SUBSET Nat
    OBVIOUS
  <2> HIDE DEF bad
  <2> QED BY <1>3, <2>1, LeastNatural
<1>5. n \in 0..N /\ ~\E f : Ascending(upTo(n), f)
  BY <1>4
<1>6. n # 0
  <2>1. SUFFICES ASSUME n = 0 PROVE FALSE
    OBVIOUS
  <2>2. upTo(0) = {}
    <3>1. \A k \in K : ~(k <= 0)
      BY <1>1
    <3> QED BY <3>1
  <2>3. Ascending({}, [i \in {} |-> 0])
    BY FS_EmptySet DEF Ascending
  <2> QED BY <1>5, <2>1, <2>2, <2>3
<1>7. PICK f : Ascending(upTo(n - 1), f)
  <2>1. n - 1 \in 0..N /\ ~(n <= n - 1)
    BY <1>5, <1>6
  <2>2. n - 1 \notin bad
    BY <1>4, <2>1
  <2> QED BY <2>1, <2>2
<1>8. CASE n \notin K
  <2>1. \A k \in K : k <= n <=> k <= n - 1
    BY <1>1, <1>5, <1>8
  <2>2. upTo(n) = upTo(n - 1)
    BY <2>1
  <2> QED BY <1>5, <1>7, <2>2
<1>9. CASE n \in K
  <2> DEFINE S == upTo(n - 1)
             m == Cardinality(S)
  <2>1. IsFiniteSet(S) /\ m \in Nat /\ n \notin S /\ \A k \in S : k < n
    <3>1. S \in SUBSET (1..N) /\ n \notin S /\ \A k \in S : k < n
      <4>1. n \in Nat /\ \A k \in K : k <= n - 1 => k < n
        BY <1>1, <1>5
      <4>2. ~(n <= n - 1)
        BY <4>1
      <4> QED BY <4>1, <4>2
    <3>2. IsFiniteSet(1..N)
      BY FS_Interval
    <3> HIDE DEF S
    <3> QED BY <3>1, <3>2, FS_Subset, FS_CardinalityType
  <2>2. upTo(n) = S \cup {n}
    <3>1. \A k \in K : k <= n <=> k <= n - 1 \/ k = n
      BY <1>1, <1>5
    <3> QED BY <1>5, <1>9, <3>1
  <2> HIDE DEF S
  <2>3. Cardinality(S \cup {n}) = m + 1
    BY <2>1, FS_AddElement
  <2> DEFINE g == [i \in 1..(m + 1) |-> IF i <= m THEN f[i] ELSE n]
  <2>4. f \in [1..m -> S] /\ \A i, j \in 1..m : i < j => f[i] < f[j]
    BY <1>7 DEF Ascending, S
  <2> HIDE DEF m
  <2>5. g \in [1..(m + 1) -> S \cup {n}]
    BY <2>1, <2>4
  <2>6. ASSUME NEW i \in 1..(m + 1), NEW j \in 1..(m + 1), i < j
        PROVE  g[i] < g[j]
    <3>1. i \in 1..m
      BY <2>1, <2>6
    <3>2. f[i] < n
      BY <2>1, <2>4, <3>1
    <3> QED BY <2>1, <2>4, <2>6, <3>1, <3>2
  <2>7. Ascending(S \cup {n}, g)
    BY <2>3, <2>5, <2>6 DEF Ascending
  <2> QED BY <1>5, <2>2, <2>7
<1> QED BY <1>8, <1>9

(* What a settled tracker holds: entries that were not deleted, settled,   *)
(* each where it stood among the others.                                   *)
LEMMA SettledShape ==
  ASSUME NEW es \in Seq(EntrySet)
  PROVE  \E m \in Nat : \E f \in [1..m -> 1..Len(es)] :
           /\ Settled(es) = [i \in 1..m |-> Settle(es[f[i]])]
           /\ \A i \in 1..m : es[f[i]].state # "Deleted"
           /\ \A i, j \in 1..m : f[i] = f[j] => i = j
<1> DEFINE kept == {i \in 1..Len(es) : es[i].state # "Deleted"}
           n == Cardinality(kept)
           order == CHOOSE f \in [1..n -> kept] :
                      \A i, j \in 1..n : i < j => f[i] < f[j]
<1>1. Len(es) \in Nat /\ kept \in SUBSET (1..Len(es))
  OBVIOUS
<1>2. n \in Nat
  <2>1. IsFiniteSet(1..Len(es))
    BY <1>1, FS_Interval
  <2> HIDE DEF kept
  <2> QED BY <1>1, <2>1, FS_Subset, FS_CardinalityType
<1>3. \E f \in [1..n -> kept] : \A i, j \in 1..n : i < j => f[i] < f[j]
  <2> HIDE DEF kept
  <2>1. PICK f : Ascending(kept, f)
    BY <1>1, AscendingExists
  <2> QED BY <2>1 DEF Ascending
<1>4. /\ order \in [1..n -> kept]
      /\ \A i, j \in 1..n : i < j => order[i] < order[j]
  <2> HIDE DEF kept, n
  <2> QED BY <1>3
<1>5. Settled(es) = [i \in 1..n |-> Settle(es[order[i]])]
  BY DEF Settled
<1>6. /\ order \in [1..n -> 1..Len(es)]
      /\ \A i \in 1..n : es[order[i]].state # "Deleted"
  <2> HIDE DEF n, order
  <2> QED BY <1>4
<1> HIDE DEF order, n
<1>7. \A i, j \in 1..n : order[i] = order[j] => i = j
  <2>1. \A i \in 1..n : order[i] \in Int
    BY <1>1, <1>6
  <2> QED BY <1>2, <1>4, <2>1
<1> QED BY <1>2, <1>5, <1>6, <1>7

-----------------------------------------------------------------------------
(* Ids that were used.                                                     *)

LEMMA FieldTypes ==
  /\ TicksPerHalf \in Nat \ {0} /\ Apps \in Nat \ {0}
  /\ AppInstances \in Nat \ {0} /\ Sequences \in Nat \ {0}
  /\ Payloads \in Nat \ {0}
  /\ AppId \in AppIds
  /\ Ids = SourceKnownIdSet
  /\ 0 \in SequenceIds
  /\ \A n \in SequenceIds : n \in Nat
  /\ \A n \in Processes : n \in Nat
  /\ \A n \in TimeStamps : n \in Nat /\ n \in 0..n /\ 0..n \subseteq TimeStamps
  /\ \A l \in LastIds : l.ts \in Int /\ l.seq \in Nat /\ l.seq \in SequenceIds
<1>1. /\ TicksPerHalf \in Nat \ {0} /\ Apps \in Nat \ {0}
      /\ AppInstances \in Nat \ {0} /\ Sequences \in Nat \ {0}
  BY FieldAssumption
<1>2. Payloads \in Nat \ {0}
  BY <1>1, ProductOfThree DEF Payloads
<1>3. /\ 0 \in SequenceIds /\ \A n \in SequenceIds : n \in Nat
      /\ \A n \in TimeStamps : n \in Nat
      /\ \A n \in Processes : n \in Nat
  BY <1>1 DEF SequenceIds, TimeStamps, Processes, AppInstanceIds
<1>4. ASSUME NEW n \in TimeStamps
      PROVE  n \in Nat /\ n \in 0..n /\ 0..n \subseteq TimeStamps
  <2>1. n \in Nat /\ n <= 2 * TicksPerHalf - 1
    BY <1>1 DEF TimeStamps
  <2>2. \A m \in 0..n : m \in 0..(2 * TicksPerHalf - 1)
    BY <1>1, <2>1
  <2> QED BY <2>1, <2>2 DEF TimeStamps
<1>5. ASSUME NEW l \in LastIds
      PROVE  l.ts \in Int /\ l.seq \in Nat /\ l.seq \in SequenceIds
  <2>1. l.seq \in SequenceIds /\ (l.ts \in TimeStamps \/ l.ts = -1)
    BY DEF LastIds
  <2>2. l.ts \in Int
    BY <1>3, <2>1
  <2> QED BY <1>3, <2>1, <2>2
<1> QED
  BY <1>1, <1>2, <1>3, <1>4, <1>5, SavingAssumption

(* A generated id is a number of 64 bits with sign.                        *)
LEMMA GenerateIsId ==
  ASSUME NEW ts \in TimeStamps, NEW p \in Processes, NEW seq \in SequenceIds
  PROVE  Generate(ts, AppId, p, seq) \in Ids
<1> DEFINE low == Payload(AppId, p, seq)
           high == ts - TicksPerHalf
<1>1. low \in 0..(Payloads - 1) /\ Payloads \in Nat \ {0}
  BY FieldTypes, PayloadBound DEF Processes
<1>2. Generate(ts, AppId, p, seq) = high * Payloads + low
  BY <1>1, GenerateIsPositional
<1> HIDE DEF low
<1>3. high \in (-TicksPerHalf)..(TicksPerHalf - 1) /\ TicksPerHalf \in Nat \ {0}
  BY FieldTypes DEF TimeStamps
<1> HIDE DEF high
<1>4. /\ high * Payloads >= -(TicksPerHalf * Payloads)
      /\ high * Payloads + Payloads <= TicksPerHalf * Payloads
  <2>1. high + TicksPerHalf \in Nat /\ TicksPerHalf - 1 - high \in Nat
    BY <1>3
  <2>2. ASSUME NEW a \in Nat PROVE a * Payloads \in Nat
    BY <1>1
  <2>3. /\ (high + TicksPerHalf) * Payloads = high * Payloads + TicksPerHalf * Payloads
        /\ (TicksPerHalf - 1 - high) * Payloads
             = TicksPerHalf * Payloads - Payloads - high * Payloads
    BY <1>1, <1>3
  <2>4. /\ high * Payloads \in Int /\ TicksPerHalf * Payloads \in Int
    BY <1>1, <1>3
  <2> QED BY <1>1, <2>1, <2>2, <2>3, <2>4
<1>5. high * Payloads \in Int /\ TicksPerHalf * Payloads \in Int
  BY <1>1, <1>3
<1> QED BY <1>1, <1>2, <1>4, <1>5, FieldTypes DEF SourceKnownIdSet

(* An id names the process that used it.                                   *)
LEMMA UsedByOne ==
  ASSUME Typed, NEW p \in Processes, NEW q \in Processes, NEW t, NEW u, NEW id,
         UsedBy(p, t, id), UsedBy(q, u, id)
  PROVE  p = q
<1>1. 0..now \subseteq TimeStamps
  BY FieldTypes DEF Typed
<1>2. PICK ts \in 0..now, seq \in SequenceIds : id = Generate(ts, AppId, p, seq)
  BY DEF UsedBy
<1>3. PICK us \in 0..now, sen \in SequenceIds : id = Generate(us, AppId, q, sen)
  BY DEF UsedBy
<1>4. ParseId(id) = [ts |-> ts, app |-> AppId, instance |-> p, seq |-> seq]
  BY <1>1, <1>2, FieldTypes, ParseInvertsGenerate DEF Processes
<1>5. ParseId(id) = [ts |-> us, app |-> AppId, instance |-> q, seq |-> sen]
  BY <1>1, <1>3, FieldTypes, ParseInvertsGenerate DEF Processes
<1> QED BY <1>4, <1>5

LEMMA FollowingType ==
  ASSUME Typed, ClockInv, NEW p \in Processes, NEW t \in EntityTypes,
         MayUseNext(p, t)
  PROVE  /\ Following(p, t) \in LastIds
         /\ Following(p, t).ts = now
         /\ Following(p, t).seq \in SequenceIds
         /\ lastId[p][t].ts = now => Following(p, t).seq > lastId[p][t].seq
<1>1. /\ lastId[p][t] \in LastIds /\ lastId[p][t].ts <= now
      /\ now \in TimeStamps
  BY DEF Typed, ClockInv
<1>2. CASE lastId[p][t].ts < now
  <2>1. Following(p, t) = [ts |-> now, seq |-> 0]
    BY <1>2 DEF Following
  <2> QED BY <1>1, <1>2, <2>1, FieldTypes DEF LastIds
<1>3. CASE ~(lastId[p][t].ts < now)
  <2>1. lastId[p][t].ts = now
    BY <1>1, <1>3, FieldTypes
  <2>2. /\ Following(p, t) = [lastId[p][t] EXCEPT !.seq = @ + 1]
        /\ Following(p, t).seq \in SequenceIds
    BY <1>3 DEF Following, MayUseNext
  <2> QED BY <1>1, <2>1, <2>2, FieldTypes DEF LastIds
<1> QED BY <1>2, <1>3

(* The next id was used by no process, for no entity of the type.          *)
LEMMA NextIdIsFresh ==
  ASSUME Typed, ClockInv, NEW p \in Processes, NEW t \in EntityTypes,
         MayUseNext(p, t)
  PROVE  NextId(p, t) \in Ids /\ ~Used(t, NextId(p, t))
<1> DEFINE n == Following(p, t).seq
<1>1. /\ now \in TimeStamps /\ n \in SequenceIds
      /\ lastId[p][t].ts = now => n > lastId[p][t].seq
      /\ lastId[p][t].seq \in SequenceIds
  BY FollowingType DEF Typed, LastIds
<1>2. NextId(p, t) = Generate(now, AppId, p, n)
  BY DEF NextId
<1> HIDE DEF n
<1>3. NextId(p, t) \in Ids
  BY <1>1, <1>2, GenerateIsId
<1>4. ASSUME NEW q \in Processes, UsedBy(q, t, NextId(p, t)) PROVE FALSE
  <2>1. PICK ts \in 0..now, seq \in SequenceIds :
          /\ NextId(p, t) = Generate(ts, AppId, q, seq)
          /\ ts = now => lastId[q][t].ts = now /\ seq <= lastId[q][t].seq
    BY <1>4 DEF UsedBy
  <2>2. ts \in TimeStamps
    BY <1>1, FieldTypes
  <2>3. ParseId(NextId(p, t)) = [ts |-> now, app |-> AppId, instance |-> p, seq |-> n]
    BY <1>1, <1>2, FieldTypes, ParseInvertsGenerate DEF Processes
  <2>4. ParseId(NextId(p, t)) = [ts |-> ts, app |-> AppId, instance |-> q, seq |-> seq]
    BY <2>1, <2>2, FieldTypes, ParseInvertsGenerate DEF Processes
  <2>5. ts = now /\ p = q /\ seq = n
    BY <2>3, <2>4
  <2>6. n \in Nat /\ lastId[p][t].seq \in Nat
    BY <1>1, FieldTypes
  <2> QED BY <1>1, <2>1, <2>5, <2>6
<1> QED BY <1>3, <1>4 DEF Used

(* Time, generators and restarts go on such that a used id stays used.     *)
LEMMA UsedStays ==
  ASSUME Typed, Typed', ClockInv,
         \/ now' = now + 1 /\ lastId' = lastId
         \/ now' = now
            /\ \A p \in Processes : \A t \in EntityTypes :
                 \/ lastId'[p][t] = lastId[p][t]
                 \/ MayUseNext(p, t) /\ lastId'[p][t] = Following(p, t)
                 \/ lastId[p][t].ts < now /\ lastId'[p][t].ts <= now
  PROVE  /\ ClockInv'
         /\ \A p \in Processes : \A t \in EntityTypes : \A id :
              UsedBy(p, t, id) => UsedBy(p, t, id)'
         /\ \A t \in EntityTypes : \A id : Used(t, id) => Used(t, id)'
<1>1. /\ now \in Nat /\ now' \in Nat
      /\ \A p \in Processes : \A t \in EntityTypes :
           lastId[p][t] \in LastIds /\ lastId'[p][t] \in LastIds
  BY FieldTypes DEF Typed
<1>2. ASSUME NEW p \in Processes, NEW t \in EntityTypes
      PROVE  /\ lastId'[p][t].ts <= now'
             /\ \A id : UsedBy(p, t, id) => UsedBy(p, t, id)'
  <2>1. CASE now' = now + 1 /\ lastId' = lastId
    <3>1. lastId'[p][t].ts <= now'
      <4>1. lastId[p][t].ts <= now /\ lastId[p][t].ts \in Int
        BY <1>1, FieldTypes DEF ClockInv
      <4> QED BY <1>1, <2>1, <4>1
    <3>2. 0..now \subseteq 0..now' /\ \A ts \in 0..now : ts # now'
      BY <1>1, <2>1
    <3> QED BY <3>1, <3>2 DEF UsedBy
  <2>2. CASE now' = now /\ lastId'[p][t] = lastId[p][t]
    BY <2>2 DEF UsedBy, ClockInv
  <2>3. CASE now' = now /\ MayUseNext(p, t) /\ lastId'[p][t] = Following(p, t)
    <3>1. /\ lastId'[p][t].ts = now
          /\ lastId[p][t].ts = now => lastId'[p][t].seq > lastId[p][t].seq
          /\ lastId'[p][t].seq \in Nat /\ lastId[p][t].seq \in Nat
      BY <1>1, <2>3, FollowingType, FieldTypes DEF LastIds
    <3>2. \A seq \in SequenceIds :
            lastId[p][t].ts = now /\ seq <= lastId[p][t].seq
              => seq <= lastId'[p][t].seq
      BY <3>1, FieldTypes
    <3> QED BY <1>1, <2>3, <3>1, <3>2 DEF UsedBy
  <2>4. CASE now' = now /\ lastId[p][t].ts < now /\ lastId'[p][t].ts <= now
    <3>1. lastId[p][t].ts # now
      BY <1>1, <2>4, FieldTypes DEF LastIds
    <3> QED BY <2>4, <3>1 DEF UsedBy
  <2> QED BY <2>1, <2>2, <2>3, <2>4
<1>3. ClockInv'
  BY <1>2 DEF ClockInv
<1>4. ASSUME NEW t \in EntityTypes, NEW id, Used(t, id) PROVE Used(t, id)'
  <2>1. PICK p \in Processes : UsedBy(p, t, id)
    BY <1>4 DEF Used
  <2>2. UsedBy(p, t, id)'
    BY <1>2, <2>1
  <2> QED BY <2>2 DEF Used, Processes
<1> QED BY <1>2, <1>3, <1>4

(* The id that was taken is used.                                          *)
LEMMA TakenIsUsed ==
  ASSUME Typed, ClockInv, NEW p \in Processes, NEW t \in EntityTypes,
         MayUseNext(p, t), now' = now, lastId'[p][t] = Following(p, t)
  PROVE  \A id : id = NextId(p, t) => UsedBy(p, t, id)'
<1>1. /\ now \in 0..now /\ Following(p, t).seq \in SequenceIds
      /\ Following(p, t).ts = now /\ Following(p, t).seq \in Nat
  <2>1. now \in TimeStamps
    BY DEF Typed
  <2>2. /\ Following(p, t).seq \in SequenceIds
        /\ Following(p, t).ts = now
    BY FollowingType
  <2> QED BY <2>1, <2>2, FieldTypes
<1> DEFINE n == Following(p, t).seq
<1>2. NextId(p, t) = Generate(now, AppId, p, n)
  BY DEF NextId
<1>3. lastId'[p][t].ts = now' /\ lastId'[p][t].seq = n
  BY <1>1
<1> HIDE DEF n
<1>4. n <= n /\ n \in SequenceIds
  BY <1>1 DEF n
<1> SUFFICES ASSUME NEW id, id = NextId(p, t) PROVE UsedBy(p, t, id)'
  OBVIOUS
<1> SUFFICES \E ts \in 0..now', seq \in SequenceIds :
               /\ id = Generate(ts, AppId, p, seq)
               /\ ts = now' => lastId'[p][t].ts = now' /\ seq <= lastId'[p][t].seq
  BY DEF UsedBy
<1> QED BY <1>1, <1>2, <1>3, <1>4

-----------------------------------------------------------------------------
(* What keeps the parts of the invariant.                                  *)

LEMMA NamingsAre == \A x : x \in Namings <=> IsNaming(x)
<1> TAKE x
<1>1. ASSUME x \in Namings PROVE IsNaming(x)
  <2>1. PICK y \in rows \cup known \cup UNION {Entries(p) : p \in Processes} :
          x = Named(y)
    BY <1>1 DEF Namings
  <2>2. CASE y \in UNION {Entries(p) : p \in Processes}
    <3>1. PICK p \in Processes : y \in Entries(p)
      BY <2>2
    <3>2. PICK i \in 1..Len(tracked[p]) : y = tracked[p][i]
      BY <3>1 DEF Entries
    <3> QED BY <2>1, <3>2 DEF IsNaming
  <2> QED BY <2>1, <2>2 DEF IsNaming
<1>2. ASSUME IsNaming(x) PROVE x \in Namings
  <2>1. CASE \E r \in rows : x = Named(r)
    BY <2>1 DEF Namings
  <2>2. CASE \E h \in known : x = Named(h)
    BY <2>2 DEF Namings
  <2>3. ASSUME NEW p \in Processes, NEW i \in 1..Len(tracked[p]),
               x = Named(tracked[p][i])
        PROVE  x \in Namings
    <3>1. tracked[p][i] \in Entries(p)
      BY DEF Entries
    <3> QED BY <2>3, <3>1 DEF Namings
  <2> QED BY <1>2, <2>1, <2>2, <2>3 DEF IsNaming
<1> QED BY <1>1, <1>2

LEMMA NamingTypes ==
  Typed => \A x : IsNaming(x) => x.object \in Nat /\ x.type \in EntityTypes /\ x.id \in Ids
<1> SUFFICES ASSUME Typed, NEW x, IsNaming(x)
             PROVE  x.object \in Nat /\ x.type \in EntityTypes /\ x.id \in Ids
  OBVIOUS
<1>1. CASE \E r \in rows : x = Named(r)
  BY <1>1 DEF Typed, RowSet, Named
<1>2. CASE \E h \in known : x = Named(h)
  BY <1>2 DEF Typed, HandedSet, Named
<1>3. ASSUME NEW p \in Processes, NEW i \in 1..Len(tracked[p]),
             x = Named(tracked[p][i])
      PROVE  x.object \in Nat /\ x.type \in EntityTypes /\ x.id \in Ids
  <2>1. tracked[p][i] \in EntrySet
    BY DEF Typed
  <2> QED BY <1>3, <2>1 DEF EntrySet, Named
<1> QED BY <1>1, <1>2, <1>3 DEF IsNaming

(* No naming is new: the names stay right.                                 *)
LEMMA NamesKept ==
  ASSUME Typed, NamesInv, objects' = objects,
         \A x : IsNaming(x)' => IsNaming(x),
         \A t \in EntityTypes : \A id : Used(t, id) => Used(t, id)'
  PROVE  NamesInv'
<1>1. ASSUME NEW x, IsNaming(x)' PROVE Used(x.type, x.id)' /\ x.object <= objects'
  <2>1. IsNaming(x) /\ x.type \in EntityTypes
    BY <1>1, NamingTypes
  <2> QED BY <2>1 DEF NamesInv
<1>2. ASSUME NEW x, NEW y, IsNaming(x)', IsNaming(y)', x.type = y.type
      PROVE  x.id = y.id <=> x.object = y.object
  BY <1>2 DEF NamesInv
<1> QED BY <1>1, <1>2 DEF NamesInv

(* No stamping is new: a stamp goes on to stand for one version.           *)
LEMMA StampsKept ==
  ASSUME Typed, Typed', StampInv,
         \A p \in Processes : readings'[p] >= readings[p],
         \A s : IsStamping(s)' => IsStamping(s)
  PROVE  StampInv'
<1>1. ASSUME NEW s, Dated(s) PROVE Dated(s)'
  <2>1. \A q \in Processes : readings[q] \in Nat /\ readings'[q] \in Nat
    BY DEF Typed, Processes
  <2>2. \A q \in Processes : \A n \in 1..readings[q] : n \in 1..readings'[q]
    BY <2>1
  <2> QED BY <1>1, <2>2 DEF Dated, Processes
<1>2. \A s : IsStamping(s)' => Dated(s)'
  BY <1>1 DEF StampInv
<1>3. \A s, u : IsStamping(s)' /\ IsStamping(u)' => SameStamp(s, u)
  BY DEF StampInv
<1> QED BY <1>2, <1>3 DEF StampInv

LEMMA UsedIdFits ==
  ASSUME NEW p \in Processes, NEW e \in EntrySet, IdFits(p, e),
         config'[p] = config[p], p \in saving' => p \in saving,
         \A t \in EntityTypes : \A id : UsedBy(p, t, id) => UsedBy(p, t, id)'
  PROVE  IdFits(p, e)'
<1>1. e.type \in EntityTypes
  BY DEF EntrySet
<1>2. UsedBy(p, e.type, Unset) => UsedBy(p, e.type, Unset)'
  BY <1>1
<1> QED BY <1>2 DEF IdFits

(* A unit of work that does nothing stays right.                           *)
LEMMA UnitKept ==
  ASSUME Typed, NEW p \in Processes, UnitFits(p),
         tracked'[p] = tracked[p], config'[p] = config[p],
         p \in up => p \in up', p \in saving' => p \in saving,
         \A t \in EntityTypes : \A id : UsedBy(p, t, id) => UsedBy(p, t, id)'
  PROVE  UnitFits(p)'
<1>1. Entries(p)' = Entries(p) /\ \A e \in Entries(p) : e \in EntrySet
  BY DEF Typed, Entries
<1>2. ASSUME NEW e \in Entries(p)
      PROVE  IdFits(p, e)' /\ StampFits(e)
  <2>1. e \in EntrySet /\ IdFits(p, e) /\ StampFits(e)
    BY <1>1 DEF UnitFits
  <2> QED BY <2>1, UsedIdFits
<1> QED BY <1>1, <1>2 DEF UnitFits

(* Every used id stays used.                                               *)
UsesKept ==
  /\ ClockInv'
  /\ \A p \in Processes : \A t \in EntityTypes : \A id :
       UsedBy(p, t, id) => UsedBy(p, t, id)'
  /\ \A t \in EntityTypes : \A id : Used(t, id) => Used(t, id)'

LEMMA SameGenerators ==
  ASSUME Typed, Typed', ClockInv, now' = now, lastId' = lastId
  PROVE  UsesKept
BY UsedStays DEF UsesKept

(* An entry comes from one that says the same of its entity and its row.   *)
ComesFrom(q, f, e) ==
  /\ Named(f) = Named(e)
  /\ f.state # "Added" => e.state # "Added" /\ ReadStamp(f) = ReadStamp(e)
  /\ q \in saving' => f = e

(* Nothing is handed out, no row is written and no save begins.            *)
LEMMA QuietStep ==
  ASSUME SavingInv, Typed', UsesKept,
         rows' \in SUBSET rows, known' = known, objects' = objects,
         readings' = readings, saving' \subseteq saving, saving' \subseteq up',
         \A q \in Processes : UnitFits(q)',
         \A q \in Processes : \A j \in 1..Len(tracked'[q]) :
           \E i \in 1..Len(tracked[q]) : ComesFrom(q, tracked'[q][j], tracked[q][i])
  PROVE  SavingInv'
<1>1. Typed /\ NamesInv /\ RowsInv /\ KnownInv /\ StampInv
  BY DEF SavingInv
<1>2. ASSUME NEW x, IsNaming(x)' PROVE IsNaming(x)
  <2>1. CASE \E r \in rows' : x = Named(r)
    BY <2>1 DEF IsNaming
  <2>2. CASE \E h \in known' : x = Named(h)
    BY <2>2 DEF IsNaming
  <2>3. ASSUME NEW q \in Processes, NEW j \in 1..Len(tracked'[q]),
               x = Named(tracked'[q][j])
        PROVE  IsNaming(x)
    <3>1. PICK i \in 1..Len(tracked[q]) : ComesFrom(q, tracked'[q][j], tracked[q][i])
      OBVIOUS
    <3> QED BY <2>3, <3>1 DEF ComesFrom, IsNaming
  <2> QED BY <1>2, <2>1, <2>2, <2>3 DEF IsNaming, Processes
<1>3. NamesInv'
  BY <1>1, <1>2, NamesKept DEF UsesKept
<1>4. ASSUME NEW s, IsStamping(s)' PROVE IsStamping(s)
  <2>1. CASE \E r \in rows' : s = RowStamp(r)
    BY <2>1 DEF IsStamping
  <2>2. ASSUME NEW q \in Processes, NEW j \in 1..Len(tracked'[q]),
               \/ tracked'[q][j].state # "Added" /\ s = ReadStamp(tracked'[q][j])
               \/ /\ q \in saving' /\ tracked'[q][j].state # "Deleted"
                  /\ s = NextStamp(tracked'[q][j])
        PROVE  IsStamping(s)
    <3>1. PICK i \in 1..Len(tracked[q]) : ComesFrom(q, tracked'[q][j], tracked[q][i])
      OBVIOUS
    <3>2. CASE tracked'[q][j].state # "Added" /\ s = ReadStamp(tracked'[q][j])
      BY <3>1, <3>2 DEF ComesFrom, IsStamping
    <3>3. CASE /\ q \in saving' /\ tracked'[q][j].state # "Deleted"
               /\ s = NextStamp(tracked'[q][j])
      <4>1. tracked'[q][j] = tracked[q][i] /\ q \in saving
        BY <3>1, <3>3 DEF ComesFrom
      <4> QED BY <3>3, <4>1 DEF IsStamping
    <3> QED BY <2>2, <3>2, <3>3
  <2>3. \/ \E r \in rows' : s = RowStamp(r)
        \/ \E p \in Processes : \E i \in 1..Len(tracked'[p]) :
             \/ tracked'[p][i].state # "Added" /\ s = ReadStamp(tracked'[p][i])
             \/ /\ p \in saving' /\ tracked'[p][i].state # "Deleted"
                /\ s = NextStamp(tracked'[p][i])
    BY <1>4 DEF IsStamping, Processes, ReadStamp, NextStamp, RowStamp
  <2> QED BY <2>1, <2>2, <2>3
<1>5. StampInv'
  <2>1. \A p \in Processes : readings'[p] >= readings[p]
    BY <1>1 DEF Typed
  <2> QED BY <1>1, <1>4, <2>1, StampsKept
<1>6. RowsInv' /\ KnownInv'
  BY <1>1 DEF RowsInv, KnownInv
<1>7. TrackerInv'
  BY DEF TrackerInv, Processes
<1> QED BY <1>3, <1>5, <1>6, <1>7 DEF SavingInv, UsesKept

LEMMA EntryComesFromItself ==
  \A q : \A e : ComesFrom(q, e, e)
BY DEF ComesFrom

-----------------------------------------------------------------------------
(* The steps one by one.                                                   *)

LEMMA TickStep ==
  ASSUME SavingInv, Tick
  PROVE  SavingInv'
<1>1. Typed /\ ClockInv /\ TrackerInv
  BY DEF SavingInv
<1>2. /\ now' = now + 1
      /\ UNCHANGED <<up, config, lastId, tracked, saving, rows, readings, objects, known>>
  BY DEF Tick
<1>3. Typed'
  <2>1. now' \in TimeStamps
    <3>1. now \in TimeStamps /\ now < MaxTime /\ MaxTime \in TimeStamps
      BY <1>1, SavingAssumption DEF Typed, Tick
    <3>2. now \in Nat /\ MaxTime \in Nat /\ 0..MaxTime \subseteq TimeStamps
      BY <3>1, FieldTypes
    <3>3. now + 1 \in 0..MaxTime
      BY <3>1, <3>2
    <3> QED BY <1>2, <3>2, <3>3
  <2> QED BY <1>1, <1>2, <2>1 DEF Typed, Processes
<1>4. UsesKept
  BY <1>1, <1>2, <1>3, UsedStays DEF UsesKept
<1>5. \A q \in Processes : UnitFits(q)'
  BY <1>1, <1>2, <1>4, UnitKept DEF TrackerInv, UsesKept
<1> QED
  BY <1>1, <1>2, <1>3, <1>4, <1>5, QuietStep, EntryComesFromItself DEF TrackerInv

LEMMA DeleteByIdStep ==
  ASSUME SavingInv, NEW p \in Processes, NEW h \in known, DeleteById(p, h)
  PROVE  SavingInv'
<1>1. Typed /\ ClockInv /\ TrackerInv
  BY DEF SavingInv
<1>2. /\ rows' \in SUBSET rows
      /\ UNCHANGED <<now, up, config, lastId, tracked, saving, readings, objects, known>>
  BY DEF DeleteById
<1>3. Typed'
  BY <1>1, <1>2 DEF Typed, Processes
<1>4. UsesKept
  BY <1>1, <1>2, <1>3, SameGenerators
<1>5. \A q \in Processes : UnitFits(q)'
  BY <1>1, <1>2, <1>4, UnitKept DEF TrackerInv, UsesKept
<1> QED
  BY <1>1, <1>2, <1>3, <1>4, <1>5, QuietStep, EntryComesFromItself DEF TrackerInv

LEMMA ChangeStep ==
  ASSUME SavingInv, NEW p \in Processes, NEW i \in 1..Len(tracked[p]),
         Edit(p, i) \/ Remove(p, i)
  PROVE  SavingInv'
<1>1. Typed /\ ClockInv /\ TrackerInv
  BY DEF SavingInv
<1>2. /\ p \in up \ saving /\ tracked[p][i].state \in {"Unchanged", "Modified"}
      /\ UNCHANGED <<now, up, config, lastId, saving, rows, readings, objects, known>>
  BY DEF Edit, Remove, Working
<1>3. PICK s \in {"Modified", "Deleted"} :
        tracked' = [tracked EXCEPT ![p][i].state = s]
  BY DEF Edit, Remove
<1> DEFINE e == tracked[p][i]
           f == [e EXCEPT !.state = s]
<1>4. /\ tracked[p] \in Seq(EntrySet) /\ e \in EntrySet
      /\ tracked'[p] = [tracked[p] EXCEPT ![i] = f]
      /\ \A q \in Processes \ {p} : tracked'[q] = tracked[q]
  BY <1>1, <1>3 DEF Typed
<1>5. /\ f \in EntrySet /\ f.state = s /\ Named(f) = Named(e)
      /\ ReadStamp(f) = ReadStamp(e) /\ f.id = e.id /\ f.type = e.type
      /\ f.guid = e.guid
  <2>1. e \in EntrySet /\ s \in States
    BY <1>4 DEF States
  <2> HIDE DEF e
  <2> QED BY <2>1 DEF EntrySet, Named, ReadStamp
<1> HIDE DEF f
<1>6. /\ Len(tracked'[p]) = Len(tracked[p])
      /\ tracked'[p] \in Seq(EntrySet)
      /\ tracked'[p][i] = f
      /\ \A j \in 1..Len(tracked[p]) : j # i => tracked'[p][j] = tracked[p][j]
  BY <1>4, <1>5
<1>7. Typed'
  <2>1. tracked' \in [Processes -> Seq(EntrySet)]
    BY <1>1, <1>3, <1>4, <1>6 DEF Typed
  <2> QED BY <1>1, <1>2, <2>1 DEF Typed, Processes
<1>8. UsesKept
  BY <1>1, <1>2, <1>7, SameGenerators
<1>9. UnitFits(p)
  BY <1>1 DEF TrackerInv
<1>10. UnitFits(p)'
  <2>1. \A g \in Entries(p)' : g = f \/ g \in Entries(p)
    BY <1>6 DEF Entries
  <2>2. ASSUME NEW g \in Entries(p)' PROVE IdFits(p, g)' /\ StampFits(g)
    <3>1. CASE g = f
      <4>1. e \in Entries(p)
        BY DEF Entries
      <4>2. IdFits(p, e) /\ e.state # "Added"
        BY <1>2, <1>9, <4>1 DEF UnitFits
      <4>3. IdFits(p, f)
        BY <1>5, <4>2 DEF IdFits
      <4>4. StampFits(f)
        BY <1>5 DEF StampFits
      <4>5. IdFits(p, g) /\ StampFits(g) /\ g \in EntrySet
        BY <1>5, <3>1, <4>3, <4>4
      <4> QED BY <1>2, <1>8, <4>5, UsedIdFits DEF UsesKept
    <3>2. CASE g \in Entries(p)
      <4>1. IdFits(p, g) /\ StampFits(g) /\ g \in EntrySet
        BY <1>4, <1>9, <3>2 DEF UnitFits, Entries
      <4> QED BY <1>2, <1>8, <4>1, UsedIdFits DEF UsesKept
    <3> QED BY <2>1, <3>1, <3>2
  <2>3. ASSUME NEW j \in 1..Len(tracked[p])
        PROVE  tracked'[p][j].type = tracked[p][j].type /\ tracked'[p][j].id = tracked[p][j].id
    BY <1>5, <1>6
  <2> QED BY <1>2, <1>6, <1>9, <2>2, <2>3 DEF UnitFits
<1>11. \A q \in Processes : UnitFits(q)'
  <2>1. ASSUME NEW q \in Processes \ {p} PROVE UnitFits(q)'
    BY <1>1, <1>2, <1>4, <1>8, UnitKept DEF TrackerInv, UsesKept
  <2> QED BY <1>10, <2>1
<1>12. ASSUME NEW q \in Processes, NEW j \in 1..Len(tracked'[q])
       PROVE  \E k \in 1..Len(tracked[q]) : ComesFrom(q, tracked'[q][j], tracked[q][k])
  <2>1. CASE q = p /\ j = i
    <3>1. ComesFrom(p, f, e)
      BY <1>2, <1>5 DEF ComesFrom
    <3> QED BY <1>6, <2>1, <3>1
  <2>2. CASE ~(q = p /\ j = i)
    <3>1. j \in 1..Len(tracked[q]) /\ tracked'[q][j] = tracked[q][j]
      BY <1>4, <1>6, <2>2
    <3> QED BY <3>1, EntryComesFromItself
  <2> QED BY <2>1, <2>2
<1> QED
  BY <1>1, <1>2, <1>7, <1>8, <1>11, <1>12, QuietStep DEF TrackerInv

(* The tracker of p is cleared, or p no longer waits for the database.     *)
LEMMA EndStep ==
  ASSUME SavingInv, NEW p \in Processes,
         Leave(p) \/ SaveThrows(p) \/ Crash(p)
  PROVE  SavingInv'
<1>1. Typed /\ ClockInv /\ TrackerInv
  BY DEF SavingInv
<1>2. /\ UNCHANGED <<now, config, lastId, rows, readings, objects, known>>
      /\ \/ tracked' = tracked /\ up' = up
         \/ tracked' = [tracked EXCEPT ![p] = <<>>] /\ up' \in {up, up \ {p}}
      /\ saving' \in {saving, saving \ {p}}
      /\ up' = up \ {p} => saving' = saving \ {p}
      /\ up' \in {up, up \ {p}}
  BY <1>1 DEF Leave, SaveThrows, Crash, Working, TrackerInv
<1>3. /\ \A q \in Processes \ {p} : tracked'[q] = tracked[q]
      /\ \/ tracked'[p] = tracked[p] /\ up' = up
         \/ tracked'[p] = <<>>
      /\ tracked' \in [Processes -> Seq(EntrySet)]
  <2>1. tracked \in [Processes -> Seq(EntrySet)]
    BY <1>1 DEF Typed
  <2>2. CASE tracked' = tracked /\ up' = up
    BY <2>1, <2>2
  <2>3. CASE tracked' = [tracked EXCEPT ![p] = <<>>]
    <3>1. <<>> \in Seq(EntrySet)
      OBVIOUS
    <3> QED BY <2>1, <2>3, <3>1
  <2> QED BY <1>2, <2>2, <2>3
<1>4. saving' \in SUBSET Processes /\ up' \in SUBSET Processes
      /\ saving' \subseteq saving /\ saving' \subseteq up'
      /\ \A q \in Processes \ {p} : q \in up => q \in up'
  BY <1>1, <1>2 DEF TrackerInv, Typed
<1>5. Typed'
  BY <1>1, <1>2, <1>3, <1>4 DEF Typed, Processes
<1>6. UsesKept
  BY <1>1, <1>2, <1>5, SameGenerators
<1>7. ASSUME NEW q \in Processes PROVE UnitFits(q)'
  <2>1. CASE tracked'[q] = tracked[q] /\ (q \in up => q \in up')
    BY <1>1, <1>2, <1>4, <1>6, <2>1, UnitKept DEF TrackerInv, UsesKept
  <2>2. CASE tracked'[q] = <<>>
    BY <2>2 DEF UnitFits, Entries
  <2> QED BY <1>3, <1>4, <2>1, <2>2
<1>8. ASSUME NEW q \in Processes, NEW j \in 1..Len(tracked'[q])
      PROVE  \E k \in 1..Len(tracked[q]) : ComesFrom(q, tracked'[q][j], tracked[q][k])
  <2>1. tracked'[q] = tracked[q]
    BY <1>3
  <2> QED BY <2>1, EntryComesFromItself
<1> QED
  BY <1>1, <1>2, <1>4, <1>5, <1>6, <1>7, <1>8, QuietStep

LEMMA StartStep ==
  ASSUME SavingInv, NEW p \in Processes, Start(p)
  PROVE  SavingInv'
<1>1. Typed /\ ClockInv /\ TrackerInv
  BY DEF SavingInv
<1>2. /\ p \notin up /\ up' = up \cup {p}
      /\ UNCHANGED <<now, tracked, saving, rows, readings, objects, known>>
      /\ \A t \in EntityTypes : lastId[p][t].ts < now
      /\ lastId' = [lastId EXCEPT ![p] = [t \in EntityTypes |-> [ts |-> -1, seq |-> 0]]]
  BY DEF Start
<1>3. PICK c \in Configs : config' = [config EXCEPT ![p] = c]
  BY DEF Start
<1>4. /\ config' \in [Processes -> Configs]
      /\ \A q \in Processes \ {p} : config'[q] = config[q]
  BY <1>1, <1>3 DEF Typed
<1>5. /\ lastId' \in [Processes -> [EntityTypes -> LastIds]]
      /\ \A q \in Processes \ {p} : lastId'[q] = lastId[q]
      /\ \A t \in EntityTypes : lastId'[p][t].ts <= now
  <2>1. [ts |-> -1, seq |-> 0] \in LastIds
    BY FieldTypes DEF LastIds
  <2>2. now \in Nat
    BY <1>1, FieldTypes DEF Typed
  <2>3. lastId \in [Processes -> [EntityTypes -> LastIds]]
    BY <1>1 DEF Typed
  <2> DEFINE l == [ts |-> -1, seq |-> 0]
  <2>4. l.ts <= now
    BY <2>2
  <2> HIDE DEF l
  <2> QED BY <1>2, <2>1, <2>3, <2>4 DEF l
<1>6. Typed'
  BY <1>1, <1>2, <1>4, <1>5 DEF Typed, Processes
<1>7. UsesKept
  <2>1. \A q \in Processes : \A t \in EntityTypes :
          \/ lastId'[q][t] = lastId[q][t]
          \/ lastId[q][t].ts < now /\ lastId'[q][t].ts <= now
    BY <1>2, <1>5
  <2> QED BY <1>1, <1>2, <1>6, <2>1, UsedStays DEF UsesKept
<1>8. ASSUME NEW q \in Processes PROVE UnitFits(q)'
  <2>1. CASE q = p
    <3>1. tracked'[q] = <<>>
      BY <1>1, <1>2, <2>1 DEF TrackerInv, UnitFits
    <3> QED BY <3>1 DEF UnitFits, Entries
  <2>2. CASE q # p
    BY <1>1, <1>2, <1>4, <1>7, <2>2, UnitKept DEF TrackerInv, UsesKept
  <2> QED BY <2>1, <2>2
<1> QED
  BY <1>1, <1>2, <1>6, <1>7, <1>8, QuietStep, EntryComesFromItself DEF TrackerInv

(* A unit of work that takes up another entity.                            *)
LEMMA UnitWithOneMore ==
  ASSUME Typed, UsesKept, NEW p \in Processes, UnitFits(p), p \in up',
         NEW e \in EntrySet, tracked'[p] = Append(tracked[p], e),
         IdFits(p, e)', StampFits(e),
         \A i \in 1..Len(tracked[p]) :
           ~(tracked[p][i].type = e.type /\ tracked[p][i].id = e.id),
         config'[p] = config[p], p \in saving' => p \in saving
  PROVE  UnitFits(p)'
<1>1. /\ tracked[p] \in Seq(EntrySet)
      /\ Len(tracked'[p]) = Len(tracked[p]) + 1
      /\ tracked'[p][Len(tracked[p]) + 1] = e
      /\ \A i \in 1..Len(tracked[p]) : tracked'[p][i] = tracked[p][i]
      /\ \A i \in 1..Len(tracked'[p]) :
           i \in 1..Len(tracked[p]) \/ i = Len(tracked[p]) + 1
  BY DEF Typed
<1>2. ASSUME NEW f \in Entries(p)' PROVE IdFits(p, f)' /\ StampFits(f)
  <2>1. f = e \/ f \in Entries(p)
    BY <1>1 DEF Entries
  <2>2. CASE f \in Entries(p)
    <3>1. IdFits(p, f) /\ StampFits(f) /\ f \in EntrySet
      BY <1>1, <2>2 DEF UnitFits, Entries
    <3> QED BY <3>1, UsedIdFits DEF UsesKept
  <2> QED BY <2>1, <2>2
<1>3. ASSUME NEW i \in 1..Len(tracked'[p]), NEW j \in 1..Len(tracked'[p]),
             tracked'[p][i].type = tracked'[p][j].type,
             tracked'[p][i].id = tracked'[p][j].id
      PROVE  i = j
  BY <1>1, <1>3 DEF UnitFits
<1> QED BY <1>2, <1>3 DEF UnitFits

LEMMA AddStep ==
  ASSUME SavingInv, NEW p \in Processes, NEW type \in EntityTypes, Add(p, type)
  PROVE  SavingInv'
<1>1. Typed /\ ClockInv /\ TrackerInv /\ NamesInv /\ RowsInv /\ KnownInv /\ StampInv
  BY DEF SavingInv
<1>2. /\ p \in up \ saving /\ MayUseNext(p, type) /\ UseNext(p, type)
      /\ objects' = objects + 1
      /\ tracked' = [tracked EXCEPT ![p] = Append(@,
           Entry(objects + 1, type, NextId(p, type), EmptyGuid, "Added", NoStamp, 0))]
      /\ UNCHANGED <<now, up, config, saving, rows, readings, known>>
  BY DEF Add, Working
<1>3. PICK e : e = Entry(objects + 1, type, NextId(p, type), EmptyGuid, "Added",
                         NoStamp, 0)
  OBVIOUS
<1>4. /\ e.object = objects + 1 /\ e.type = type /\ e.id = NextId(p, type)
       /\ e.guid = EmptyGuid /\ e.state = "Added" /\ e.seen = 0
       /\ e = [object |-> objects + 1, type |-> type, id |-> NextId(p, type),
               guid |-> EmptyGuid, state |-> "Added", modifiedAt |-> NoStamp,
               original |-> NoStamp, seen |-> 0]
  BY <1>3 DEF Entry
<1>5. NextId(p, type) \in Ids /\ ~Used(type, NextId(p, type)) /\ objects \in Nat
  BY <1>1, <1>2, NextIdIsFresh DEF Typed
<1>6. e \in EntrySet
  <2>1. /\ EmptyGuid \in Guids /\ NoStamp \in Stamps /\ "Added" \in States
    BY DEF Guids, Stamps, States
  <2>2. objects + 1 \in Nat
    BY <1>5
  <2> QED BY <1>4, <1>5, <2>1, <2>2 DEF EntrySet
<1>7. /\ tracked' \in [Processes -> Seq(EntrySet)]
      /\ tracked'[p] = Append(tracked[p], e)
      /\ \A q \in Processes \ {p} : tracked'[q] = tracked[q]
  <2>1. tracked \in [Processes -> Seq(EntrySet)]
    BY <1>1 DEF Typed
  <2>2. Append(tracked[p], e) \in Seq(EntrySet)
    BY <1>6, <2>1
  <2> QED BY <1>2, <1>3, <2>1, <2>2
<1>8. /\ lastId' \in [Processes -> [EntityTypes -> LastIds]]
      /\ lastId'[p][type] = Following(p, type)
      /\ \A q \in Processes : \A t \in EntityTypes :
           ~(q = p /\ t = type) => lastId'[q][t] = lastId[q][t]
  <2>1. Following(p, type) \in LastIds
    BY <1>1, <1>2, FollowingType
  <2>2. lastId' = [lastId EXCEPT ![p][type] = Following(p, type)]
    BY <1>2 DEF UseNext
  <2>3. lastId \in [Processes -> [EntityTypes -> LastIds]]
    BY <1>1 DEF Typed
  <2> QED BY <2>1, <2>2, <2>3
<1>9. Typed'
  BY <1>1, <1>2, <1>5, <1>7, <1>8 DEF Typed, Processes
<1>10. UsesKept
  <2>1. \A q \in Processes : \A t \in EntityTypes :
          \/ lastId'[q][t] = lastId[q][t]
          \/ MayUseNext(q, t) /\ lastId'[q][t] = Following(q, t)
    BY <1>2, <1>8
  <2> QED BY <1>1, <1>2, <1>9, <2>1, UsedStays DEF UsesKept
<1>11. \A id : id = NextId(p, type) => UsedBy(p, type, id)'
  BY <1>1, <1>2, <1>8, TakenIsUsed
<1>12. ASSUME NEW x, IsNaming(x)' PROVE IsNaming(x) \/ x = Named(e)
  <2>1. ASSUME NEW q \in Processes, NEW j \in 1..Len(tracked'[q]),
               x = Named(tracked'[q][j])
        PROVE  IsNaming(x) \/ x = Named(e)
    <3>1. tracked'[q][j] = e \/ (j \in 1..Len(tracked[q]) /\ tracked'[q][j] = tracked[q][j])
      <4>1. CASE q # p
        BY <1>7, <4>1
      <4>2. CASE q = p
        <5>1. tracked[p] \in Seq(EntrySet)
          BY <1>1 DEF Typed
        <5> QED BY <1>6, <1>7, <4>2, <5>1
      <4> QED BY <4>1, <4>2
    <3> QED BY <2>1, <3>1 DEF IsNaming
  <2> QED BY <1>2, <1>12, <2>1 DEF IsNaming, Processes
<1>13. /\ Named(e).object = objects + 1 /\ Named(e).type = type
       /\ Named(e).id = NextId(p, type)
  BY <1>4 DEF Named
<1>14. NamesInv'
  <2>1. ASSUME NEW x, IsNaming(x)' PROVE Used(x.type, x.id)' /\ x.object <= objects'
    <3>1. CASE IsNaming(x)
      <4>1. x.type \in EntityTypes /\ x.object \in Nat
        BY <1>1, <3>1, NamingTypes
      <4>2. Used(x.type, x.id) /\ x.object <= objects
        BY <1>1, <3>1 DEF NamesInv
      <4> QED BY <1>2, <1>5, <1>10, <4>1, <4>2 DEF UsesKept
    <3>2. CASE x = Named(e)
      <4>1. UsedBy(p, type, x.id)' /\ x.type = type
        BY <1>11, <1>13, <3>2
      <4>2. Used(type, x.id)'
        BY <4>1 DEF Used, Processes
      <4> QED BY <1>2, <1>5, <1>13, <3>2, <4>1, <4>2
    <3> QED BY <1>12, <2>1, <3>1, <3>2
  <2>2. ASSUME NEW x, IsNaming(x), x.type = type
        PROVE  x.id # NextId(p, type) /\ x.object # objects + 1
    <3>1. x.object \in Nat /\ Used(x.type, x.id) /\ x.object <= objects
      BY <1>1, <2>2, NamingTypes DEF NamesInv
    <3> QED BY <1>5, <2>2, <3>1
  <2>3. ASSUME NEW x, NEW y, IsNaming(x)', IsNaming(y)', x.type = y.type
        PROVE  x.id = y.id <=> x.object = y.object
    BY <1>1, <1>12, <1>13, <2>2, <2>3 DEF NamesInv
  <2> QED BY <2>1, <2>3 DEF NamesInv
<1>15. UnitFits(p)'
  <2>1. \A i \in 1..Len(tracked[p]) :
          ~(tracked[p][i].type = e.type /\ tracked[p][i].id = e.id)
    <3> SUFFICES ASSUME NEW i \in 1..Len(tracked[p]),
                        tracked[p][i].type = e.type, tracked[p][i].id = e.id
                 PROVE  FALSE
      OBVIOUS
    <3>1. IsNaming(Named(tracked[p][i]))
      BY DEF IsNaming
    <3>2. Used(Named(tracked[p][i]).type, Named(tracked[p][i]).id)
      BY <1>1, <3>1 DEF NamesInv
    <3> QED BY <1>4, <1>5, <3>2 DEF Named
  <2>2. IdFits(p, e)'
    <3>1. e.id = NextId(p, type) /\ UsedBy(p, type, e.id)'
      BY <1>4, <1>11
    <3>2. e.id = Unset => UsedBy(p, e.type, Unset)'
      <4> SUFFICES ASSUME e.id = Unset PROVE UsedBy(p, e.type, Unset)'
        OBVIOUS
      <4>1. Unset = NextId(p, type)
        BY <3>1
      <4> QED BY <1>4, <1>11, <4>1
    <3> QED BY <1>2, <1>4, <3>2 DEF IdFits
  <2>3. StampFits(e)
    BY <1>4 DEF StampFits
  <2>4. UnitFits(p)
    BY <1>1 DEF TrackerInv
  <2> QED BY <1>1, <1>2, <1>6, <1>7, <1>10, <2>1, <2>2, <2>3, <2>4, UnitWithOneMore
<1>16. TrackerInv'
  <2>1. ASSUME NEW q \in Processes \ {p} PROVE UnitFits(q)'
    BY <1>1, <1>2, <1>7, <1>10, UnitKept DEF TrackerInv, UsesKept
  <2> QED BY <1>1, <1>2, <1>15, <2>1 DEF TrackerInv, Processes
<1>17. RowsInv' /\ KnownInv'
  BY <1>1, <1>2 DEF RowsInv, KnownInv
<1>18. ASSUME NEW s, IsStamping(s)' PROVE IsStamping(s)
  <2>1. ASSUME NEW q \in Processes, NEW j \in 1..Len(tracked'[q]),
               \/ tracked'[q][j].state # "Added" /\ s = ReadStamp(tracked'[q][j])
               \/ /\ q \in saving' /\ tracked'[q][j].state # "Deleted"
                  /\ s = NextStamp(tracked'[q][j])
        PROVE  IsStamping(s)
    <3>1. CASE q = p
      <4>1. tracked[p] \in Seq(EntrySet)
        BY <1>1 DEF Typed
      <4>2. j \in 1..Len(tracked[p]) /\ tracked'[p][j] = tracked[p][j]
        BY <1>2, <1>4, <1>6, <1>7, <2>1, <3>1, <4>1
      <4> QED BY <1>2, <2>1, <3>1, <4>2 DEF IsStamping
    <3>2. CASE q # p
      BY <1>2, <1>7, <2>1, <3>2 DEF IsStamping
    <3> QED BY <3>1, <3>2
  <2>2. CASE \E r \in rows' : s = RowStamp(r)
    BY <1>2, <2>2 DEF IsStamping
  <2>3. \/ \E r \in rows' : s = RowStamp(r)
        \/ \E q \in Processes : \E i \in 1..Len(tracked'[q]) :
             \/ tracked'[q][i].state # "Added" /\ s = ReadStamp(tracked'[q][i])
             \/ /\ q \in saving' /\ tracked'[q][i].state # "Deleted"
                /\ s = NextStamp(tracked'[q][i])
    BY <1>18 DEF IsStamping, Processes, ReadStamp, NextStamp, RowStamp
  <2> QED BY <2>1, <2>2, <2>3
<1>19. StampInv'
  <2>1. \A q \in Processes : readings'[q] >= readings[q]
    BY <1>1, <1>2 DEF Typed
  <2> QED BY <1>1, <1>9, <1>18, <2>1, StampsKept
<1> QED
  BY <1>9, <1>10, <1>14, <1>16, <1>17, <1>19 DEF SavingInv, UsesKept

(* What p hands out for an entity, under the settings it has.              *)
LEMMA HandedIsMadeRight ==
  ASSUME Typed, NEW p \in Processes, NEW o \in Nat, NEW id \in Ids, id # Unset,
         NEW type \in EntityTypes, ~GenerateFails(config[p], id, type)
  PROVE  LET h == Handed(p, o, id, type, EntityIdFor(config[p], id, type)) IN
         /\ h \in HandedSet /\ MadeRight(h)
         /\ Named(h) = [object |-> o, type |-> type, id |-> id]
<1> DEFINE c == config[p]
           guid == EntityIdFor(c, id, type)
           h == Handed(p, o, id, type, guid)
<1>1. c \in Configs
  BY DEF Typed
<1>2. c.ring[1] \in Keys /\ c.secure \in BOOLEAN
  <2>1. c.ring \in Seq(Keys) /\ c.ring # <<>> /\ c.secure \in BOOLEAN
    BY <1>1, SavingAssumption
  <2> QED BY <2>1
<1>3. guid \in Guids
  BY <1>1 DEF Guids
<1>4. h = [guid |-> guid, key |-> c.ring[1], secure |-> c.secure,
           id |-> id, type |-> type, object |-> o]
  BY DEF Handed
<1>5. c.secure => ~Jackpot(c.ring[1], id, type)
  BY DEF GenerateFails
<1>6. guid = IF c.secure THEN GenerateSecure(c.ring[1], id, type)
                         ELSE GeneratePlain(c.ring[1], id, type)
  BY DEF EntityIdFor
<1> HIDE DEF c, guid, h
<1>7. h \in HandedSet
  BY <1>2, <1>3, <1>4 DEF HandedSet
<1>8. MadeRight(h)
  BY <1>4, <1>5, <1>6 DEF MadeRight
<1>9. Named(h) = [object |-> o, type |-> type, id |-> id]
  BY <1>4 DEF Named
<1> QED BY <1>7, <1>8, <1>9 DEF h, guid, c

LEMMA GetStep ==
  ASSUME SavingInv, NEW p \in Processes, NEW h \in known, Get(p, h)
  PROVE  SavingInv'
<1>1. Typed /\ ClockInv /\ TrackerInv /\ NamesInv /\ RowsInv /\ KnownInv /\ StampInv
  BY DEF SavingInv
<1>2. PICK r \in rows :
        LET guid == EntityIdFor(config[p], r.id, r.type) IN
        /\ \A i \in 1..Len(tracked[p]) :
             ~(tracked[p][i].id = r.id /\ tracked[p][i].type = r.type)
        /\ ~GenerateFails(config[p], r.id, r.type)
        /\ tracked' = [tracked EXCEPT ![p] = Append(@,
             Entry(r.object, r.type, r.id, guid, "Unchanged", r.modifiedAt, r.version))]
        /\ known' = known \cup {Handed(p, r.object, r.id, r.type, guid)}
  BY DEF Get, Matching
<1>3. /\ p \in up \ saving
      /\ UNCHANGED <<now, up, config, lastId, saving, rows, readings, objects>>
  BY DEF Get, Working
<1>4. /\ r \in RowSet /\ r.id # Unset /\ r.object \in Nat /\ r.type \in EntityTypes
      /\ r.id \in Ids /\ r.modifiedAt \in Stamps /\ r.version \in Nat
  BY <1>1 DEF Typed, RowsInv, RowSet
<1>5. PICK guid : guid = EntityIdFor(config[p], r.id, r.type)
  OBVIOUS
<1>6. PICK e : e = Entry(r.object, r.type, r.id, guid, "Unchanged", r.modifiedAt,
                         r.version)
  OBVIOUS
<1>7. PICK g : g = Handed(p, r.object, r.id, r.type, guid)
  OBVIOUS
<1>8. /\ e = [object |-> r.object, type |-> r.type, id |-> r.id, guid |-> guid,
              state |-> "Unchanged", modifiedAt |-> r.modifiedAt,
              original |-> r.modifiedAt, seen |-> r.version]
      /\ e.id = r.id /\ e.type = r.type /\ e.guid = guid /\ e.state = "Unchanged"
      /\ e.modifiedAt = e.original
  BY <1>6 DEF Entry
<1>9. e \in EntrySet
  <2>1. guid \in Guids /\ "Unchanged" \in States
    BY <1>1, <1>4, <1>5 DEF Guids, Typed, States
  <2> QED BY <1>4, <1>8, <2>1 DEF EntrySet
<1>10. g \in HandedSet /\ MadeRight(g) /\ Named(g) = Named(r)
  <2>1. Named(r) = [object |-> r.object, type |-> r.type, id |-> r.id]
    BY DEF Named
  <2> QED BY <1>1, <1>2, <1>4, <1>5, <1>7, <2>1, HandedIsMadeRight
<1>11. Named(e) = Named(r) /\ ReadStamp(e) = RowStamp(r)
  BY <1>8 DEF Named, ReadStamp, RowStamp
<1>12. /\ tracked' \in [Processes -> Seq(EntrySet)]
       /\ tracked'[p] = Append(tracked[p], e)
       /\ \A q \in Processes \ {p} : tracked'[q] = tracked[q]
       /\ known' = known \cup {g}
  <2>1. tracked \in [Processes -> Seq(EntrySet)]
    BY <1>1 DEF Typed
  <2>2. Append(tracked[p], e) \in Seq(EntrySet)
    BY <1>9, <2>1
  <2>3. tracked' = [tracked EXCEPT ![p] = Append(@, e)] /\ known' = known \cup {g}
    BY <1>2, <1>5, <1>6, <1>7
  <2> QED BY <2>1, <2>2, <2>3
<1>13. Typed'
  <2>1. known' \in SUBSET HandedSet
    BY <1>1, <1>10, <1>12 DEF Typed
  <2> QED BY <1>1, <1>3, <1>12, <2>1 DEF Typed, Processes
<1>14. UsesKept
  BY <1>1, <1>3, <1>13, SameGenerators
<1>15. ASSUME NEW q \in Processes, NEW j \in 1..Len(tracked'[q])
       PROVE  \/ q = p /\ tracked'[q][j] = e
              \/ j \in 1..Len(tracked[q]) /\ tracked'[q][j] = tracked[q][j]
  <2>1. CASE q # p
    BY <1>12, <2>1
  <2>2. CASE q = p
    <3>1. tracked[p] \in Seq(EntrySet)
      BY <1>1 DEF Typed
    <3> QED BY <1>9, <1>12, <2>2, <3>1
  <2> QED BY <2>1, <2>2
<1>16. NamesInv'
  <2>1. ASSUME NEW x, IsNaming(x)' PROVE IsNaming(x)
    <3>1. ASSUME NEW q \in Processes, NEW j \in 1..Len(tracked'[q]),
                 x = Named(tracked'[q][j])
          PROVE  IsNaming(x)
      BY <1>11, <1>15, <3>1 DEF IsNaming
    <3>2. ASSUME NEW k \in known', x = Named(k) PROVE IsNaming(x)
      BY <1>10, <1>12, <3>2 DEF IsNaming
    <3> QED BY <1>3, <2>1, <3>1, <3>2 DEF IsNaming, Processes
  <2> QED BY <1>1, <1>3, <1>14, <2>1, NamesKept DEF UsesKept
<1>17. UnitFits(p)'
  <2>1. \A i \in 1..Len(tracked[p]) :
          ~(tracked[p][i].type = e.type /\ tracked[p][i].id = e.id)
    BY <1>2, <1>8
  <2>2. IdFits(p, e)'
    <3>1. /\ e.guid = EntityIdFor(config[p], e.id, e.type)
          /\ ~GenerateFails(config[p], e.id, e.type)
      BY <1>2, <1>5, <1>8
    <3> QED BY <1>3, <1>4, <1>8, <3>1 DEF IdFits
  <2>3. StampFits(e)
    BY <1>8 DEF StampFits
  <2>4. UnitFits(p)
    BY <1>1 DEF TrackerInv
  <2> QED BY <1>1, <1>3, <1>9, <1>12, <1>14, <2>1, <2>2, <2>3, <2>4, UnitWithOneMore
<1>18. TrackerInv'
  <2>1. ASSUME NEW q \in Processes \ {p} PROVE UnitFits(q)'
    BY <1>1, <1>3, <1>12, <1>14, UnitKept DEF TrackerInv, UsesKept
  <2> QED BY <1>1, <1>3, <1>17, <2>1 DEF TrackerInv, Processes
<1>19. RowsInv' /\ KnownInv'
  BY <1>1, <1>3, <1>10, <1>12 DEF RowsInv, KnownInv
<1>20. ASSUME NEW s, IsStamping(s)' PROVE IsStamping(s)
  <2>1. ASSUME NEW q \in Processes, NEW j \in 1..Len(tracked'[q]),
               \/ tracked'[q][j].state # "Added" /\ s = ReadStamp(tracked'[q][j])
               \/ /\ q \in saving' /\ tracked'[q][j].state # "Deleted"
                  /\ s = NextStamp(tracked'[q][j])
        PROVE  IsStamping(s)
    <3>1. CASE q = p /\ tracked'[q][j] = e
      BY <1>3, <1>11, <2>1, <3>1 DEF IsStamping
    <3>2. CASE j \in 1..Len(tracked[q]) /\ tracked'[q][j] = tracked[q][j]
      BY <1>3, <2>1, <3>2 DEF IsStamping
    <3> QED BY <1>15, <3>1, <3>2
  <2>2. CASE \E u \in rows' : s = RowStamp(u)
    BY <1>3, <2>2 DEF IsStamping
  <2>3. \/ \E u \in rows' : s = RowStamp(u)
        \/ \E q \in Processes : \E i \in 1..Len(tracked'[q]) :
             \/ tracked'[q][i].state # "Added" /\ s = ReadStamp(tracked'[q][i])
             \/ /\ q \in saving' /\ tracked'[q][i].state # "Deleted"
                /\ s = NextStamp(tracked'[q][i])
    BY <1>20 DEF IsStamping, Processes, ReadStamp, NextStamp, RowStamp
  <2> QED BY <2>1, <2>2, <2>3
<1>21. StampInv'
  <2>1. \A q \in Processes : readings'[q] >= readings[q]
    BY <1>1, <1>3 DEF Typed
  <2> QED BY <1>1, <1>13, <1>20, <2>1, StampsKept
<1> QED
  BY <1>13, <1>14, <1>16, <1>18, <1>19, <1>21 DEF SavingInv, UsesKept

-----------------------------------------------------------------------------
(* Saving.                                                                 *)

(* The entries that are marked get readings of the clock of their own.     *)
LEMMA ReadingsInOrder ==
  ASSUME Typed, NEW p \in Processes, NEW i \in 1..Len(tracked[p])
  PROVE  /\ ModifiedUpTo(p, i) \in Nat
         /\ ModifiedUpTo(p, Len(tracked[p])) \in Nat
         /\ ModifiedUpTo(p, i) <= ModifiedUpTo(p, Len(tracked[p]))
         /\ tracked[p][i].state = "Modified" => ModifiedUpTo(p, i) >= 1
<1> DEFINE n == Len(tracked[p])
           M(k) == {j \in 1..k : tracked[p][j].state = "Modified"}
<1>1. n \in Nat /\ i \in 1..n
  BY DEF Typed
<1> HIDE DEF n
<1>2. IsFiniteSet(1..n) /\ M(n) \in SUBSET (1..n) /\ M(i) \in SUBSET M(n)
  <2>1. IsFiniteSet(1..n)
    BY <1>1, FS_Interval
  <2>2. \A j \in 1..i : j \in 1..n
    BY <1>1
  <2> QED BY <2>1, <2>2
<1> HIDE DEF M
<1>3. IsFiniteSet(M(n)) /\ Cardinality(M(n)) \in Nat
  BY <1>2, FS_Subset, FS_CardinalityType
<1>4. IsFiniteSet(M(i)) /\ Cardinality(M(i)) \in Nat
      /\ Cardinality(M(i)) <= Cardinality(M(n))
  BY <1>2, <1>3, FS_Subset, FS_CardinalityType
<1>5. ASSUME tracked[p][i].state = "Modified" PROVE Cardinality(M(i)) >= 1
  <2>1. i \in M(i)
    BY <1>1, <1>5 DEF M
  <2>2. Cardinality(M(i)) # 0
    BY <1>4, <2>1, FS_EmptySet
  <2> QED BY <1>4, <2>2
<1> QED BY <1>3, <1>4, <1>5 DEF ModifiedUpTo, M, n

LEMMA CreatedAtType ==
  ASSUME NEW id \in Ids
  PROVE  CreatedAt(id) \in Stamps
<1>1. /\ id \in Int /\ Payloads \in Nat \ {0} /\ TicksPerHalf \in Nat \ {0}
  BY FieldTypes DEF SourceKnownIdSet
<1>2. (id \div Payloads) % TicksPerHalf \in Int
  BY <1>1
<1>3. ParseId(id).ts \in Int
  BY <1>1, <1>2 DEF ParseId
<1> QED BY <1>3 DEF CreatedAt, Stamps

(* An entry without id, once it is marked, has one that no other has.      *)
LEMMA UnsetGetsId ==
  ASSUME SavingInv, NEW p \in Processes, NEW e \in Entries(p), NeedsId(e),
         MayUseNext(p, e.type)
  PROVE  /\ UsedBy(p, e.type, Unset)
         /\ NextId(p, e.type) # Unset
         /\ NextId(p, e.type) \in Ids
         /\ ~Used(e.type, NextId(p, e.type))
<1>1. Typed /\ ClockInv /\ UnitFits(p)
  BY DEF SavingInv, TrackerInv
<1>2. e.type \in EntityTypes /\ e.id = Unset /\ IdFits(p, e)
  <2>1. e \in EntrySet
    BY <1>1 DEF Typed, Entries
  <2>2. IdFits(p, e)
    BY <1>1 DEF UnitFits
  <2> QED BY <2>1, <2>2 DEF EntrySet, NeedsId
<1>3. UsedBy(p, e.type, Unset)
  BY <1>2 DEF IdFits
<1>4. NextId(p, e.type) \in Ids /\ ~Used(e.type, NextId(p, e.type))
  BY <1>1, <1>2, NextIdIsFresh
<1>5. NextId(p, e.type) # Unset
  BY <1>3, <1>4 DEF Used
<1> QED BY <1>3, <1>4, <1>5

(* Marking an entry: an id, an entity id that was made of it, a stamp.     *)
MarksRight(p, i, e, m) ==
  /\ m \in EntrySet
  /\ m.object = e.object /\ m.type = e.type /\ m.state = e.state
  /\ m.original = e.original /\ m.seen = e.seen
  /\ m.id = IF NeedsId(e) THEN NextId(p, e.type) ELSE e.id
  /\ m.id # Unset
  /\ m.state = "Added" =>
       /\ m.guid = EntityIdFor(config[p], m.id, m.type)
       /\ ~GenerateFails(config[p], m.id, m.type)
       /\ m.modifiedAt = CreatedAt(m.id)
  /\ m.state # "Added" => m.guid = e.guid
  /\ m.state = "Modified" => m.modifiedAt = Stamp(p, i)
  /\ m.state \notin {"Added", "Modified"} => m = e

LEMMA MarkedRight ==
  ASSUME SavingInv, NEW p \in Processes, NEW i \in 1..Len(tracked[p]),
         NeedsId(tracked[p][i]) => MayUseNext(p, tracked[p][i].type),
         ~Throws(p, tracked[p][i])
  PROVE  MarksRight(p, i, tracked[p][i], Marked(p, i))
<1> DEFINE m == Marked(p, i)
<1>1. PICK e : e = tracked[p][i]
  OBVIOUS
<1>2. Typed /\ UnitFits(p) /\ config[p] \in Configs /\ readings[p] \in Nat
  BY DEF SavingInv, TrackerInv, Typed
<1>3. e \in Entries(p) /\ e \in EntrySet /\ IdFits(p, e)
  BY <1>1, <1>2 DEF Entries, UnitFits, Typed
<1>4. PICK id : id = IdOf(p, e)
  OBVIOUS
<1>5. id = (IF NeedsId(e) THEN NextId(p, e.type) ELSE e.id) /\ id \in Ids
      /\ e.type \in EntityTypes /\ e.guid \in Guids /\ e.state \in States
  <2>1. e.id \in Ids /\ e.type \in EntityTypes /\ e.guid \in Guids /\ e.state \in States
    BY <1>3 DEF EntrySet
  <2> QED BY <1>1, <1>3, <1>4, <2>1, UnsetGetsId DEF IdOf
<1>6. id # Unset
  <2>1. CASE NeedsId(e)
    BY <1>1, <1>3, <1>5, <2>1, UnsetGetsId
  <2>2. CASE ~NeedsId(e)
    BY <1>3, <1>5, <2>2 DEF NeedsId, IdFits
  <2> QED BY <2>1, <2>2
<1>7. PICK guid : guid = IF NeedsGuid(e) THEN EntityIdFor(config[p], id, e.type)
                                         ELSE e.guid
  OBVIOUS
<1>8. guid \in Guids
  BY <1>2, <1>5, <1>7 DEF Guids
<1>9. ASSUME e.state = "Added"
      PROVE  /\ guid = EntityIdFor(config[p], id, e.type)
             /\ ~GenerateFails(config[p], id, e.type)
  <2>1. CASE NeedsGuid(e)
    BY <1>1, <1>4, <1>7, <2>1 DEF Throws
  <2>2. CASE ~NeedsGuid(e)
    <3>1. e.guid # EmptyGuid /\ guid = e.guid
      BY <1>7, <1>9, <2>2 DEF NeedsGuid
    <3>2. e.id # Unset /\ id = e.id
      BY <1>3, <1>5, <3>1 DEF IdFits, NeedsId
    <3> QED BY <1>3, <3>1, <3>2 DEF IdFits
  <2> QED BY <2>1, <2>2
<1>10. CASE e.state = "Added"
  <2>1. m = [e EXCEPT !.id = id, !.guid = guid, !.modifiedAt = CreatedAt(id)]
    BY <1>1, <1>4, <1>7, <1>10 DEF Marked
  <2>2. CreatedAt(id) \in Stamps
    BY <1>5, CreatedAtType
  <2> HIDE DEF m
  <2>3. /\ m \in EntrySet /\ m.object = e.object /\ m.type = e.type
        /\ m.state = e.state /\ m.original = e.original /\ m.seen = e.seen
        /\ m.id = id /\ m.guid = guid /\ m.modifiedAt = CreatedAt(id)
    BY <1>3, <1>5, <1>8, <2>1, <2>2 DEF EntrySet
  <2>4. MarksRight(p, i, e, m)
    BY <1>5, <1>6, <1>9, <1>10, <2>3 DEF MarksRight
  <2> QED BY <1>1, <2>4 DEF m
<1>11. CASE e.state = "Modified"
  <2>1. m = [e EXCEPT !.modifiedAt = Stamp(p, i)]
    BY <1>1, <1>11 DEF Marked
  <2>2. Stamp(p, i) \in Stamps
    <3>1. p \in Int /\ readings[p] + ModifiedUpTo(p, i) \in Int
      BY <1>2, ReadingsInOrder, FieldTypes
    <3> QED BY <3>1 DEF Stamp, Reading, Stamps
  <2>3. ~NeedsId(e)
    BY <1>11 DEF NeedsId
  <2> HIDE DEF m
  <2>4. /\ m \in EntrySet /\ m.object = e.object /\ m.type = e.type
        /\ m.state = e.state /\ m.original = e.original /\ m.seen = e.seen
        /\ m.id = e.id /\ m.guid = e.guid /\ m.modifiedAt = Stamp(p, i)
    BY <1>3, <2>1, <2>2 DEF EntrySet
  <2>5. MarksRight(p, i, e, m)
    BY <1>5, <1>6, <1>11, <2>3, <2>4 DEF MarksRight
  <2> QED BY <1>1, <2>5 DEF m
<1>12. CASE e.state \notin {"Added", "Modified"}
  <2>1. m = e /\ ~NeedsId(e)
    BY <1>1, <1>12 DEF Marked, NeedsId
  <2> HIDE DEF m
  <2>2. MarksRight(p, i, e, m)
    BY <1>3, <1>5, <1>6, <1>12, <2>1 DEF MarksRight
  <2> QED BY <1>1, <2>2 DEF m
<1> QED BY <1>10, <1>11, <1>12

LEMMA SaveBegins ==
  ASSUME SavingInv, NEW p \in Processes, Save(p)
  PROVE  SavingInv'
<1>1. /\ Typed /\ ClockInv /\ TrackerInv /\ NamesInv /\ RowsInv /\ KnownInv /\ StampInv
      /\ UnitFits(p)
  BY DEF SavingInv, TrackerInv
<1> DEFINE Reached(i) == \A j \in 1..i : ~Throws(p, tracked[p][j])
<1>2. PICK es : es = tracked[p]
  OBVIOUS
<1>3. PICK N : N = Len(tracked[p])
  OBVIOUS
<1>4. PICK marks : marks = [i \in 1..N |-> IF Reached(i) THEN Marked(p, i)
                                           ELSE tracked[p][i]]
  OBVIOUS
<1>5. /\ es \in Seq(EntrySet) /\ N \in Nat /\ Len(es) = N
      /\ \A i \in 1..N : es[i] \in EntrySet /\ es[i] \in Entries(p)
  <2>1. es \in Seq(EntrySet)
    BY <1>1, <1>2 DEF Typed
  <2> QED BY <1>2, <1>3, <2>1 DEF Entries
<1>6. /\ p \in up \ saving
      /\ UNCHANGED <<now, up, config, rows, objects>>
      /\ readings' = [readings EXCEPT ![p] = @ + ModifiedUpTo(p, N)]
      /\ \A i \in 1..N : NeedsId(es[i]) => MayUseNext(p, es[i].type)
      /\ lastId' = [lastId EXCEPT ![p] = [t \in EntityTypes |->
           IF \E i \in 1..N : NeedsId(es[i]) /\ es[i].type = t
           THEN Following(p, t) ELSE @[t]]]
      /\ tracked' = [tracked EXCEPT ![p] = marks]
      /\ known' = known \cup
           {Handed(p, marks[i].object, marks[i].id, marks[i].type, marks[i].guid) :
              i \in {j \in 1..N : Reached(j) /\ marks[j].state = "Added"}}
      /\ saving' = IF Reached(N) THEN saving \cup {p} ELSE saving
  BY <1>2, <1>3, <1>4 DEF Save, Working
<1>7. ASSUME NEW i \in 1..N
      PROVE  IF Reached(i) THEN MarksRight(p, i, es[i], marks[i])
                           ELSE marks[i] = es[i]
  <2>1. CASE Reached(i)
    <3>1. ~Throws(p, tracked[p][i])
      BY <1>5, <2>1
    <3>2. marks[i] = Marked(p, i)
      BY <1>4, <2>1
    <3> QED BY <1>2, <1>3, <1>6, <2>1, <3>1, <3>2, MarkedRight
  <2>2. CASE ~Reached(i)
    BY <1>2, <1>4, <2>2
  <2> QED BY <2>1, <2>2
<1>8. \A i \in 1..N : Reached(N) => Reached(i)
  BY <1>5
<1>9. PICK reached : reached = {i \in 1..N : Reached(i)}
  OBVIOUS
<1>10. /\ \A i \in reached : i \in 1..N /\ MarksRight(p, i, es[i], marks[i])
       /\ \A i \in 1..N : i \notin reached => marks[i] = es[i]
       /\ known' = known \cup
            {Handed(p, marks[i].object, marks[i].id, marks[i].type, marks[i].guid) :
               i \in {j \in reached : marks[j].state = "Added"}}
       /\ \/ saving' = saving \cup {p} /\ reached = 1..N
          \/ saving' = saving
  <2>1. /\ \A i \in reached : i \in 1..N /\ MarksRight(p, i, es[i], marks[i])
        /\ \A i \in 1..N : i \notin reached => marks[i] = es[i]
    BY <1>7, <1>9
  <2>2. {j \in 1..N : Reached(j) /\ marks[j].state = "Added"}
          = {j \in reached : marks[j].state = "Added"}
    BY <1>9
  <2>3. Reached(N) => reached = 1..N
    BY <1>8, <1>9
  <2> HIDE DEF Reached
  <2> QED BY <1>6, <2>1, <2>2, <2>3
<1> HIDE DEF Reached
<1>11. \A i \in 1..N : /\ marks[i] \in EntrySet /\ marks[i].object = es[i].object
                       /\ marks[i].type = es[i].type /\ marks[i].state = es[i].state
                       /\ marks[i].original = es[i].original
                       /\ marks[i].seen = es[i].seen
                       /\ ~NeedsId(es[i]) => marks[i].id = es[i].id
  BY <1>5, <1>10 DEF MarksRight
<1>12. /\ tracked' \in [Processes -> Seq(EntrySet)]
       /\ tracked'[p] = marks /\ Len(marks) = N
       /\ marks \in Seq(EntrySet)
       /\ \A q \in Processes \ {p} : tracked'[q] = tracked[q]
  <2>1. marks \in Seq(EntrySet) /\ Len(marks) = N
    BY <1>4, <1>5, <1>11
  <2>2. tracked \in [Processes -> Seq(EntrySet)]
    BY <1>1 DEF Typed
  <2> QED BY <1>6, <2>1, <2>2
<1>13. /\ lastId' \in [Processes -> [EntityTypes -> LastIds]]
       /\ \A q \in Processes : \A t \in EntityTypes :
            \/ lastId'[q][t] = lastId[q][t]
            \/ MayUseNext(q, t) /\ lastId'[q][t] = Following(q, t)
       /\ \A i \in 1..N : NeedsId(es[i]) =>
            /\ MayUseNext(p, es[i].type) /\ es[i].type \in EntityTypes
            /\ lastId'[p][es[i].type] = Following(p, es[i].type)
  <2>1. lastId \in [Processes -> [EntityTypes -> LastIds]]
    BY <1>1 DEF Typed
  <2>2. \A i \in 1..N : es[i].type \in EntityTypes
    BY <1>5 DEF EntrySet
  <2>3. \A t \in EntityTypes : MayUseNext(p, t) => Following(p, t) \in LastIds
    BY <1>1, FollowingType
  <2>4. ASSUME NEW t \in EntityTypes
        PROVE  lastId'[p][t] = IF \E i \in 1..N : NeedsId(es[i]) /\ es[i].type = t
                               THEN Following(p, t) ELSE lastId[p][t]
    BY <1>6, <2>1
  <2>5. \A q \in Processes \ {p} : lastId'[q] = lastId[q]
    BY <1>6, <2>1
  <2>6. ASSUME NEW t \in EntityTypes
        PROVE  /\ lastId'[p][t] \in LastIds
               /\ \/ lastId'[p][t] = lastId[p][t]
                  \/ MayUseNext(p, t) /\ lastId'[p][t] = Following(p, t)
    <3>1. lastId[p][t] \in LastIds
      BY <2>1
    <3> QED BY <1>6, <2>3, <2>4, <3>1
  <2>7. lastId' \in [Processes -> [EntityTypes -> LastIds]]
    <3>1. lastId'[p] \in [EntityTypes -> LastIds]
      <4>1. lastId'[p] = [t \in EntityTypes |-> lastId'[p][t]]
        BY <1>6, <2>1
      <4> QED BY <2>6, <4>1
    <3> QED BY <1>6, <2>1, <3>1
  <2> QED BY <1>6, <2>2, <2>4, <2>5, <2>6, <2>7
<1>14. ASSUME NEW h \in known'
       PROVE  \/ h \in known
              \/ \E i \in reached : Named(h) = Named(marks[i])
                                    /\ h \in HandedSet /\ MadeRight(h)
  <2> SUFFICES ASSUME h \notin known
               PROVE  \E i \in reached : Named(h) = Named(marks[i])
                                         /\ h \in HandedSet /\ MadeRight(h)
    OBVIOUS
  <2>1. PICK i \in reached :
          /\ marks[i].state = "Added"
          /\ h = Handed(p, marks[i].object, marks[i].id, marks[i].type, marks[i].guid)
    BY <1>10
  <2>2. PICK m : m = marks[i]
    OBVIOUS
  <2>3. /\ m.object \in Nat /\ m.id \in Ids /\ m.type \in EntityTypes
    BY <1>10, <1>11, <2>2 DEF EntrySet
  <2>4. /\ m.guid = EntityIdFor(config[p], m.id, m.type)
        /\ ~GenerateFails(config[p], m.id, m.type) /\ m.id # Unset
    BY <1>10, <2>1, <2>2 DEF MarksRight
  <2>5. h = Handed(p, m.object, m.id, m.type, EntityIdFor(config[p], m.id, m.type))
    BY <2>1, <2>2, <2>4
  <2>6. h \in HandedSet /\ MadeRight(h)
        /\ Named(h) = [object |-> m.object, type |-> m.type, id |-> m.id]
    BY <1>1, <2>3, <2>4, <2>5, HandedIsMadeRight
  <2> QED BY <2>2, <2>6 DEF Named
<1>15. Typed'
  <2>1. readings' \in [Processes -> Nat]
    <3>1. ModifiedUpTo(p, N) \in Nat
      <4>1. CASE N = 0
        BY <4>1, FS_EmptySet DEF ModifiedUpTo
      <4>2. CASE N # 0
        BY <1>1, <1>3, <1>5, <4>2, ReadingsInOrder
      <4> QED BY <4>1, <4>2
    <3>2. readings \in [Processes -> Nat]
      BY <1>1 DEF Typed
    <3> QED BY <1>6, <3>1, <3>2
  <2>2. known' \in SUBSET HandedSet
    BY <1>1, <1>14 DEF Typed
  <2>3. saving' \in SUBSET Processes
    BY <1>1, <1>10 DEF Typed
  <2> QED BY <1>1, <1>6, <1>12, <1>13, <2>1, <2>2, <2>3 DEF Typed, Processes
<1>16. UsesKept
  BY <1>1, <1>6, <1>13, <1>15, UsedStays DEF UsesKept
<1> DEFINE Renamed(i) == i \in reached /\ NeedsId(es[i])
<1>17. ASSUME NEW i \in 1..N, Renamed(i)
       PROVE  /\ es[i].id = Unset /\ UsedBy(p, es[i].type, Unset)
              /\ marks[i].id = NextId(p, es[i].type) /\ marks[i].id # Unset
              /\ ~Used(es[i].type, marks[i].id)
              /\ UsedBy(p, es[i].type, marks[i].id)'
              /\ Used(es[i].type, marks[i].id)'
  <2>1. /\ MayUseNext(p, es[i].type) /\ es[i].type \in EntityTypes
        /\ lastId'[p][es[i].type] = Following(p, es[i].type) /\ es[i] \in Entries(p)
    BY <1>5, <1>13, <1>17
  <2>2. /\ UsedBy(p, es[i].type, Unset) /\ NextId(p, es[i].type) # Unset
        /\ ~Used(es[i].type, NextId(p, es[i].type))
    BY <1>17, <2>1, UnsetGetsId
  <2>3. marks[i].id = NextId(p, es[i].type)
    BY <1>10, <1>17 DEF MarksRight
  <2>4. UsedBy(p, es[i].type, marks[i].id)'
    BY <1>1, <1>6, <2>1, <2>3, TakenIsUsed
  <2>5. Used(es[i].type, marks[i].id)'
    BY <2>4 DEF Used, Processes
  <2> QED BY <1>17, <2>2, <2>3, <2>4, <2>5 DEF NeedsId
<1>18. ASSUME NEW i \in 1..N, ~Renamed(i)
       PROVE  /\ marks[i].id = es[i].id /\ Named(marks[i]) = Named(es[i])
              /\ marks[i].id = Unset => i \notin reached
  BY <1>10, <1>11, <1>18 DEF MarksRight, Named
<1>19. \A i, j \in 1..N : es[i].type = es[j].type /\ es[i].id = es[j].id => i = j
  BY <1>1, <1>2, <1>3 DEF UnitFits
<1>20. \A i \in 1..N : IsNaming(Named(es[i]))
  BY <1>2, <1>3 DEF IsNaming
<1>21. ASSUME NEW x, IsNaming(x)'
       PROVE  IsNaming(x) \/ \E i \in 1..N : Renamed(i) /\ x = Named(marks[i])
  <2>1. ASSUME NEW i \in 1..N, x = Named(marks[i])
        PROVE  IsNaming(x) \/ \E k \in 1..N : Renamed(k) /\ x = Named(marks[k])
    BY <1>18, <1>20, <2>1
  <2>2. ASSUME NEW h \in known', x = Named(h)
        PROVE  IsNaming(x) \/ \E k \in 1..N : Renamed(k) /\ x = Named(marks[k])
    <3>1. CASE h \in known
      BY <2>2, <3>1 DEF IsNaming
    <3>2. CASE \E i \in reached : Named(h) = Named(marks[i])
      BY <1>10, <2>1, <2>2, <3>2
    <3> HIDE DEF Renamed
    <3> QED BY <1>14, <3>1, <3>2
  <2>3. ASSUME NEW q \in Processes, NEW j \in 1..Len(tracked'[q]),
               x = Named(tracked'[q][j])
        PROVE  IsNaming(x) \/ \E k \in 1..N : Renamed(k) /\ x = Named(marks[k])
    <3>1. CASE q = p
      BY <1>12, <2>1, <2>3, <3>1
    <3>2. CASE q # p
      BY <1>12, <2>3, <3>2 DEF IsNaming
    <3> QED BY <3>1, <3>2
  <2>4. CASE \E r \in rows' : x = Named(r)
    BY <1>6, <2>4 DEF IsNaming
  <2> HIDE DEF Renamed
  <2> QED BY <1>21, <2>2, <2>3, <2>4 DEF IsNaming, Processes
(* No naming of a renamed entity is left that bears the id not set.        *)
<1>22. ASSUME NEW x, IsNaming(x)', NEW i \in 1..N, Renamed(i), x.type = es[i].type
       PROVE  x.id # Unset
  <2> SUFFICES ASSUME x.id = Unset PROVE FALSE
    OBVIOUS
  <2>1. CASE \E r \in rows' : x = Named(r)
    BY <1>1, <1>6, <2>1 DEF RowsInv, Named
  <2>2. ASSUME NEW j \in 1..N, x = Named(marks[j]) PROVE FALSE
    <3>1. marks[j].id = Unset /\ marks[j].type = es[i].type
      BY <1>22, <2>2 DEF Named
    <3>2. ~Renamed(j)
      BY <1>17, <3>1
    <3>3. es[j].id = Unset /\ es[j].type = es[i].type /\ j \notin reached
      BY <1>11, <1>18, <3>1, <3>2
    <3>4. es[i].id = Unset
      BY <1>17, <1>22
    <3>5. i = j
      BY <1>19, <3>3, <3>4
    <3> QED BY <1>22, <3>3, <3>5
  <2>3. ASSUME NEW h \in known', x = Named(h) PROVE FALSE
    <3>1. h.id = Unset
      BY <2>3 DEF Named
    <3>2. MadeRight(h)
      BY <1>1, <1>14 DEF KnownInv
    <3> QED BY <3>1, <3>2 DEF MadeRight
  <2>4. ASSUME NEW q \in Processes, NEW j \in 1..Len(tracked'[q]),
               x = Named(tracked'[q][j])
        PROVE  FALSE
    <3>1. CASE q = p
      BY <1>12, <2>2, <2>4, <3>1
    <3>2. CASE q # p
      <4>1. PICK e : e = tracked[q][j]
        OBVIOUS
      <4>2. e \in Entries(q) /\ x = Named(e)
        BY <1>12, <2>4, <3>2, <4>1 DEF Entries
      <4>3. e.id = Unset /\ e.type = es[i].type
        BY <1>22, <4>2 DEF Named
      <4>4. IdFits(q, e)
        BY <1>1, <4>2 DEF TrackerInv, UnitFits
      <4>5. UsedBy(q, es[i].type, Unset)
        BY <4>3, <4>4 DEF IdFits
      <4>6. UsedBy(p, es[i].type, Unset)
        BY <1>17, <1>22
      <4> QED BY <1>1, <3>2, <4>5, <4>6, UsedByOne
    <3> QED BY <3>1, <3>2
  <2> HIDE DEF Renamed
  <2> QED BY <1>22, <2>1, <2>3, <2>4 DEF IsNaming, Processes
<1>23. ASSUME NEW i \in 1..N, Renamed(i), NEW y, IsNaming(y), IsNaming(y)',
              y.type = es[i].type
       PROVE  y.id # marks[i].id /\ y.object # es[i].object
  <2>1. Used(y.type, y.id)
    BY <1>1, <1>23 DEF NamesInv
  <2>2. y.id # marks[i].id
    BY <1>17, <1>23, <2>1
  <2>3. /\ Named(es[i]).type = es[i].type /\ Named(es[i]).id = es[i].id
        /\ Named(es[i]).object = es[i].object
    BY DEF Named
  <2>4. y.object = es[i].object => y.id = es[i].id
    BY <1>1, <1>20, <1>23, <2>3 DEF NamesInv
  <2>5. es[i].id = Unset
    BY <1>17, <1>23
  <2>6. y.id # Unset
    BY <1>22, <1>23
  <2> QED BY <2>2, <2>4, <2>5, <2>6
<1>24. NamesInv'
  <2>1. ASSUME NEW i \in 1..N
        PROVE  /\ Named(marks[i]).type = es[i].type
               /\ Named(marks[i]).object = es[i].object
               /\ Named(marks[i]).id = marks[i].id
    BY <1>11 DEF Named
  <2>2. ASSUME NEW x, IsNaming(x)' PROVE Used(x.type, x.id)' /\ x.object <= objects'
    <3>1. CASE IsNaming(x)
      <4>1. x.type \in EntityTypes /\ Used(x.type, x.id) /\ x.object <= objects
        BY <1>1, <3>1, NamingTypes DEF NamesInv
      <4> QED BY <1>6, <1>16, <4>1 DEF UsesKept
    <3>2. ASSUME NEW i \in 1..N, Renamed(i), x = Named(marks[i])
          PROVE  Used(x.type, x.id)' /\ x.object <= objects'
      <4>1. \A id : id = marks[i].id => Used(es[i].type, id)'
        BY <1>17, <3>2
      <4>2. x.type = es[i].type /\ x.id = marks[i].id /\ x.object = es[i].object
        BY <2>1, <3>2
      <4>3. Used(es[i].type, x.id)'
        BY <4>1, <4>2
      <4>4. Named(es[i]).object <= objects /\ Named(es[i]).object = es[i].object
        BY <1>1, <1>20 DEF NamesInv, Named
      <4> QED BY <1>6, <4>2, <4>3, <4>4
    <3> HIDE DEF Renamed
    <3> QED BY <1>21, <2>2, <3>1, <3>2
  <2>3. ASSUME NEW x, NEW y, IsNaming(x)', IsNaming(y)', x.type = y.type,
               NEW i \in 1..N, Renamed(i), x = Named(marks[i])
        PROVE  x.id = y.id <=> x.object = y.object
    <3>1. CASE IsNaming(y)
      BY <1>23, <2>1, <2>3, <3>1
    <3>2. ASSUME NEW j \in 1..N, Renamed(j), y = Named(marks[j])
          PROVE  x.id = y.id <=> x.object = y.object
      <4>1. es[i].type = es[j].type /\ es[i].id = Unset /\ es[j].id = Unset
        BY <1>17, <2>1, <2>3, <3>2
      <4>2. i = j
        BY <1>19, <4>1
      <4> QED BY <2>3, <3>2, <4>2
    <3> HIDE DEF Renamed
    <3> QED BY <1>21, <2>3, <3>1, <3>2
  <2>4. ASSUME NEW x, NEW y, IsNaming(x)', IsNaming(y)', x.type = y.type
        PROVE  x.id = y.id <=> x.object = y.object
    <3> HIDE DEF Renamed
    <3>1. CASE IsNaming(x) /\ IsNaming(y)
      BY <1>1, <2>4, <3>1 DEF NamesInv
    <3>2. CASE \E i \in 1..N : Renamed(i) /\ x = Named(marks[i])
      BY <2>3, <2>4, <3>2
    <3>3. CASE \E i \in 1..N : Renamed(i) /\ y = Named(marks[i])
      BY <2>3, <2>4, <3>3
    <3> QED BY <1>21, <2>4, <3>1, <3>2, <3>3
  <2> QED BY <2>2, <2>4 DEF NamesInv
<1>25. ASSUME NEW i \in 1..N, NEW j \in 1..N,
              marks[i].type = marks[j].type, marks[i].id = marks[j].id
       PROVE  i = j
  <2>1. es[i].type = es[j].type
    BY <1>11, <1>25
  <2>2. ASSUME NEW k \in 1..N, NEW l \in 1..N, es[k].type = es[l].type,
               Renamed(k), ~Renamed(l)
        PROVE  marks[k].id # marks[l].id
    <3>1. Used(Named(es[l]).type, Named(es[l]).id)
      BY <1>1, <1>20 DEF NamesInv
    <3>2. Used(es[l].type, es[l].id)
      BY <3>1 DEF Named
    <3> QED BY <1>17, <1>18, <2>2, <3>2
  <2>3. CASE Renamed(i) /\ Renamed(j)
    BY <1>17, <1>19, <2>1, <2>3
  <2>4. CASE ~Renamed(i) /\ ~Renamed(j)
    BY <1>18, <1>19, <1>25, <2>1, <2>4
  <2> HIDE DEF Renamed
  <2> QED BY <1>25, <2>1, <2>2, <2>3, <2>4
<1>26. UnitFits(p)'
  <2>1. ASSUME NEW e \in Entries(p)' PROVE IdFits(p, e)' /\ StampFits(e)
    <3>1. PICK i \in 1..N : e = marks[i]
      BY <1>12 DEF Entries
    <3>2. IdFits(p, es[i]) /\ StampFits(es[i])
      BY <1>1, <1>5 DEF UnitFits
    <3>3. StampFits(e)
      <4>1. e.state = es[i].state /\ e.seen = es[i].seen
        BY <1>11, <3>1
      <4>2. e.state = "Unchanged" => e = es[i]
        BY <1>10, <3>1 DEF MarksRight
      <4> QED BY <3>2, <4>1, <4>2 DEF StampFits
    <3>4. CASE i \in reached
      <4>1. MarksRight(p, i, es[i], e)
        BY <1>10, <3>1, <3>4
      <4>2. /\ e.id # Unset
            /\ \/ e.guid = EmptyGuid
               \/ /\ e.guid = EntityIdFor(config[p], e.id, e.type)
                  /\ ~GenerateFails(config[p], e.id, e.type)
        <5>1. CASE e.state = "Added"
          BY <4>1, <5>1 DEF MarksRight
        <5>2. CASE e.state # "Added"
          <6>1. e.id = es[i].id /\ e.guid = es[i].guid /\ e.id # Unset
                /\ e.type = es[i].type
            BY <4>1, <5>2 DEF MarksRight, NeedsId
          <6> QED BY <3>2, <6>1 DEF IdFits
        <5> QED BY <5>1, <5>2
      <4>3. IdFits(p, e)'
        BY <1>6, <4>2 DEF IdFits
      <4> QED BY <3>3, <4>3
    <3>5. CASE i \notin reached
      <4>1. e = es[i] /\ e \in EntrySet /\ saving' = saving
        BY <1>5, <1>10, <3>1, <3>5
      <4>2. IdFits(p, e)
        BY <3>2, <4>1
      <4>3. config'[p] = config[p] /\ (p \in saving' => p \in saving)
        BY <1>6, <4>1
      <4> QED BY <1>16, <3>3, <4>1, <4>2, <4>3, UsedIdFits DEF UsesKept
    <3> QED BY <3>4, <3>5
  <2> QED BY <1>6, <1>12, <1>25, <2>1 DEF UnitFits
<1>27. TrackerInv'
  <2>1. ASSUME NEW q \in Processes \ {p} PROVE UnitFits(q)'
    <3>1. q \in saving' => q \in saving
      BY <1>10
    <3> QED BY <1>1, <1>6, <1>12, <1>16, <3>1, UnitKept DEF TrackerInv, UsesKept
  <2>2. saving' \subseteq up'
    BY <1>1, <1>6, <1>10 DEF TrackerInv
  <2> QED BY <1>26, <2>1, <2>2 DEF TrackerInv, Processes
<1>28. RowsInv' /\ KnownInv'
  <2>1. RowsInv'
    BY <1>1, <1>6 DEF RowsInv
  <2>2. KnownInv'
    BY <1>1, <1>14 DEF KnownInv
  <2> QED BY <2>1, <2>2
(* A stamping that was none before is that of an entry that was marked.    *)
<1> DEFINE Fresh(i, s) == /\ i \in reached /\ es[i].state \in {"Added", "Modified"}
                          /\ s = NextStamp(marks[i])
<1>29. ASSUME NEW s, IsStamping(s)'
       PROVE  IsStamping(s) \/ \E i \in 1..N : Fresh(i, s)
  <2>1. ASSUME NEW q \in Processes, NEW j \in 1..Len(tracked'[q]),
               \/ tracked'[q][j].state # "Added" /\ s = ReadStamp(tracked'[q][j])
               \/ /\ q \in saving' /\ tracked'[q][j].state # "Deleted"
                  /\ s = NextStamp(tracked'[q][j])
        PROVE  IsStamping(s) \/ \E i \in 1..N : Fresh(i, s)
    <3>1. CASE q # p
      <4>1. tracked'[q] = tracked[q] /\ (q \in saving' => q \in saving)
        BY <1>10, <1>12, <3>1
      <4> QED BY <2>1, <4>1 DEF IsStamping
    <3>2. CASE q = p /\ marks[j].state # "Added" /\ s = ReadStamp(marks[j])
      <4>1. j \in 1..N /\ es[j].state # "Added"
        BY <1>11, <1>12, <3>2
      <4>2. marks[j].id = es[j].id
        BY <1>11, <4>1 DEF NeedsId
      <4>3. s = ReadStamp(es[j])
        BY <1>11, <3>2, <4>1, <4>2 DEF ReadStamp
      <4> QED BY <1>2, <1>3, <4>1, <4>3 DEF IsStamping
    <3>3. CASE q = p /\ p \in saving' /\ marks[j].state # "Deleted" /\ s = NextStamp(marks[j])
      <4>1. j \in 1..N /\ j \in reached /\ es[j].state # "Deleted"
        BY <1>6, <1>10, <1>11, <1>12, <3>3
      <4>2. CASE es[j].state = "Unchanged"
        <5>1. marks[j] = es[j]
          BY <1>10, <1>11, <4>1, <4>2 DEF MarksRight
        <5>2. es[j].modifiedAt = es[j].original
          BY <1>1, <1>5, <4>1, <4>2 DEF UnitFits, StampFits
        <5>3. s = ReadStamp(es[j])
          BY <3>3, <4>2, <5>1, <5>2 DEF ReadStamp, NextStamp, Version
        <5> QED BY <1>2, <1>3, <4>1, <4>2, <5>3 DEF IsStamping
      <4>3. CASE es[j].state # "Unchanged"
        <5>1. es[j].state \in {"Added", "Modified"}
          BY <1>5, <4>1, <4>3 DEF EntrySet, States
        <5> QED BY <3>3, <4>1, <5>1
      <4> QED BY <4>2, <4>3
    <3> HIDE DEF Fresh
    <3> QED BY <1>12, <2>1, <3>1, <3>2, <3>3
  <2>2. CASE \E u \in rows' : s = RowStamp(u)
    BY <1>6, <2>2 DEF IsStamping
  <2>3. \/ \E u \in rows' : s = RowStamp(u)
        \/ \E q \in Processes : \E i \in 1..Len(tracked'[q]) :
             \/ tracked'[q][i].state # "Added" /\ s = ReadStamp(tracked'[q][i])
             \/ /\ q \in saving' /\ tracked'[q][i].state # "Deleted"
                /\ s = NextStamp(tracked'[q][i])
    BY <1>29 DEF IsStamping, Processes, ReadStamp, NextStamp, RowStamp
  <2> HIDE DEF Fresh
  <2> QED BY <2>1, <2>2, <2>3
<1>30. ASSUME NEW i \in 1..N, NEW s, Fresh(i, s)
       PROVE  /\ s.type = marks[i].type /\ s.id = marks[i].id
              /\ \/ s.stamp = CreatedAt(s.id) /\ s.version = 1
                 \/ \E n \in Nat : /\ n > readings[p] /\ n <= readings'[p]
                                   /\ s.stamp = Reading(p, n)
  <2>1. /\ s.type = marks[i].type /\ s.id = marks[i].id
        /\ s.stamp = marks[i].modifiedAt /\ s.version = Version(marks[i])
    BY <1>30 DEF NextStamp
  <2>2. MarksRight(p, i, es[i], marks[i]) /\ marks[i].state = es[i].state
    BY <1>10, <1>11, <1>30
  <2>3. CASE es[i].state = "Added"
    <3>1. marks[i].seen = 0
      BY <1>1, <1>5, <1>11, <2>3 DEF UnitFits, StampFits
    <3>2. s.version = 1
      BY <2>1, <2>2, <2>3, <3>1 DEF Version
    <3>3. s.stamp = CreatedAt(s.id)
      BY <2>1, <2>2, <2>3 DEF MarksRight
    <3> QED BY <2>1, <3>2, <3>3
  <2>4. CASE es[i].state = "Modified"
    <3>1. PICK m : m = ModifiedUpTo(p, i)
      OBVIOUS
    <3>2. PICK M : M = ModifiedUpTo(p, N)
      OBVIOUS
    <3>3. m \in Nat /\ M \in Nat /\ m <= M /\ m >= 1 /\ readings[p] \in Nat
      BY <1>1, <1>2, <1>3, <2>4, <3>1, <3>2, ReadingsInOrder DEF Typed
    <3>4. readings'[p] = readings[p] + M
      BY <1>1, <1>6, <3>2 DEF Typed
    <3>5. s.stamp = Reading(p, readings[p] + m)
      BY <2>1, <2>2, <2>4, <3>1 DEF MarksRight, Stamp
    <3> QED BY <2>1, <3>3, <3>4, <3>5
  <2> QED BY <1>30, <2>1, <2>3, <2>4
<1> HIDE DEF Fresh
<1>31. \A q \in Processes : /\ readings[q] \in Nat /\ readings'[q] \in Nat
                           /\ readings'[q] >= readings[q] /\ q # -1
  <2>1. ASSUME NEW q \in Processes
        PROVE readings[q] \in Nat /\ readings'[q] \in Nat /\ q # -1
    BY <1>1, <1>15, FieldTypes DEF Typed, Processes
  <2>2. ModifiedUpTo(p, N) \in Nat
    <3>1. CASE N = 0
      BY <3>1, FS_EmptySet DEF ModifiedUpTo
    <3>2. CASE N # 0
      BY <1>1, <1>3, <1>5, <3>2, ReadingsInOrder
    <3> QED BY <3>1, <3>2
  <2>3. readings \in [Processes -> Nat]
    BY <1>1 DEF Typed
  <2> QED BY <1>6, <2>1, <2>2, <2>3
<1>32. \A s : Dated(s) => Dated(s)'
  <2>1. \A q \in Processes : \A n \in 1..readings[q] : n \in 1..readings'[q]
    BY <1>31
  <2> QED BY <2>1 DEF Dated, Processes
<1>33. ASSUME NEW i \in 1..N, NEW s, Fresh(i, s)
       PROVE  Dated(s)'
  <2>1. CASE s.stamp = CreatedAt(s.id) /\ s.version = 1
    BY <2>1 DEF Dated
  <2>2. ASSUME NEW n \in Nat, n > readings[p], n <= readings'[p],
               s.stamp = Reading(p, n)
        PROVE  Dated(s)'
    <3>1. n \in 1..readings'[p]
      BY <1>31, <2>2
    <3> QED BY <2>2, <3>1 DEF Dated, Processes
  <2> QED BY <1>30, <1>33, <2>1, <2>2
<1>34. ASSUME NEW i \in 1..N, NEW s, Fresh(i, s), NEW u, IsStamping(u)
       PROVE  SameStamp(s, u) /\ SameStamp(u, s)
  <2>1. \/ u.stamp = CreatedAt(u.id) /\ u.version = 1
        \/ \E q \in Processes : \E n \in 1..readings[q] : u.stamp = Reading(q, n)
    BY <1>1, <1>34 DEF StampInv, Dated
  <2>2. \A q \in Processes : \A n : Reading(q, n) # CreatedAt(s.id)
                                    /\ Reading(q, n) # CreatedAt(u.id)
    BY <1>31 DEF Reading, CreatedAt
  <2>3. \A q \in Processes : \A n \in 1..readings[q] : \A m \in Nat :
          m > readings[p] => Reading(p, m) # Reading(q, n)
    BY <1>31 DEF Reading
  <2> QED BY <1>30, <1>34, <2>1, <2>2, <2>3 DEF SameStamp
<1>35. ASSUME NEW i \in 1..N, NEW s, Fresh(i, s), NEW j \in 1..N, NEW u, Fresh(j, u)
       PROVE  SameStamp(s, u)
  <2>1. /\ s.type = marks[i].type /\ s.id = marks[i].id
        /\ u.type = marks[j].type /\ u.id = marks[j].id
    BY <1>30, <1>35
  <2>2. s.type = u.type /\ s.id = u.id => s = u
    BY <1>25, <1>35, <2>1 DEF Fresh
  <2> QED BY <2>2 DEF SameStamp
<1>36. StampInv'
  <2>1. \A s : IsStamping(s)' => Dated(s)'
    BY <1>1, <1>29, <1>32, <1>33 DEF StampInv
  <2>2. \A s, u : IsStamping(s)' /\ IsStamping(u)' => SameStamp(s, u)
    BY <1>1, <1>29, <1>34, <1>35 DEF StampInv
  <2> QED BY <2>1, <2>2 DEF StampInv
<1> QED
  BY <1>15, <1>16, <1>24, <1>27, <1>28, <1>36 DEF SavingInv, UsesKept

(* A row that a save may write over is still the one that was read.        *)
LEMMA WrittenOverWasRead ==
  ASSUME SavingInv, NEW p \in Processes, Writable(p),
         NEW e \in Entries(p), e.state \in {"Modified", "Deleted"},
         NEW r \in rows, Matching(r, e.id, e.type)
  PROVE  r.version = e.seen
<1>1. RowsInv /\ StampInv
  BY DEF SavingInv
<1>2. r.modifiedAt = e.original
  <2>1. PICK s \in rows : Matching(s, e.id, e.type) /\ s.modifiedAt = e.original
    BY DEF Writable
  <2>2. Matching(r, s.id, s.type)
    BY <2>1 DEF Matching
  <2>3. r = s
    BY <1>1, <2>2 DEF RowsInv
  <2> QED BY <2>1, <2>3
<1>3. IsStamping(RowStamp(r)) /\ IsStamping(ReadStamp(e))
  BY DEF IsStamping, Entries
<1>4. SameStamp(RowStamp(r), ReadStamp(e))
  BY <1>1, <1>3 DEF StampInv
<1> QED BY <1>2, <1>4 DEF SameStamp, RowStamp, ReadStamp, Matching

(* What a save leaves in the tables.                                       *)
LEMMA WrittenRows ==
  ASSUME SavingInv, NEW p \in Processes, Writable(p), NEW r \in Written(p)
  PROVE  \/ /\ r \in rows
            /\ \A e \in Entries(p) : e.state # "Unchanged" => ~Matching(r, e.id, e.type)
         \/ \E e \in Entries(p) :
              e.state \in {"Added", "Modified"} /\ r = Row(e, e.seen + 1)
<1> DEFINE changed == {e \in Entries(p) : e.state # "Unchanged"}
<1>1. \/ r \in rows /\ \A e \in changed : ~Matching(r, e.id, e.type)
      \/ \E e \in changed : e.state = "Added" /\ r = Row(e, 1)
      \/ \E e \in changed : e.state = "Modified" /\ r = Row(e, RowOf(e).version + 1)
  BY DEF Written
<1>2. ASSUME NEW e \in Entries(p), e.state = "Added", r = Row(e, 1)
      PROVE  r = Row(e, e.seen + 1)
  BY <1>2 DEF SavingInv, TrackerInv, UnitFits, StampFits
<1>3. ASSUME NEW e \in Entries(p), e.state = "Modified", r = Row(e, RowOf(e).version + 1)
      PROVE  r = Row(e, e.seen + 1)
  <2>1. \E s \in rows : Matching(s, e.id, e.type)
    BY <1>3 DEF Writable
  <2>2. RowOf(e) \in rows /\ Matching(RowOf(e), e.id, e.type)
    BY <2>1 DEF RowOf
  <2> QED BY <1>3, <2>2, WrittenOverWasRead
<1> QED BY <1>1, <1>2, <1>3

(* An entry after a commit: as it was, or settled.                         *)
CommittedFrom(q, f, e) ==
  \/ f = e
  \/ q \notin saving' /\ e.state # "Deleted" /\ f = Settle(e)

LEMMA CommitStep ==
  ASSUME SavingInv, NEW p \in Processes, Commit(p) \/ CommitUnanswered(p)
  PROVE  SavingInv'
<1>1. Typed /\ ClockInv /\ TrackerInv /\ NamesInv /\ RowsInv /\ KnownInv /\ StampInv
      /\ UnitFits(p)
  BY DEF SavingInv, TrackerInv
<1>2. /\ p \in saving /\ Writable(p) /\ rows' = Written(p) /\ saving' = saving \ {p}
      /\ UNCHANGED <<now, up, config, lastId, readings, objects, known>>
      /\ \/ tracked' = tracked
         \/ tracked' = [tracked EXCEPT ![p] = Settled(tracked[p])]
  BY DEF Commit, CommitUnanswered
<1>3. PICK es : es = tracked[p]
  OBVIOUS
<1>4. es \in Seq(EntrySet) /\ \A i \in 1..Len(es) : es[i] \in Entries(p)
  BY <1>1, <1>3 DEF Typed, Entries
<1>5. ASSUME NEW e \in Entries(p)
      PROVE  /\ e \in EntrySet /\ e.id # Unset /\ IdFits(p, e) /\ StampFits(e)
             /\ e.object \in Nat /\ e.type \in EntityTypes /\ e.id \in Ids
             /\ e.modifiedAt \in Stamps /\ e.seen \in Nat /\ e.state \in States
  <2>1. e \in EntrySet
    BY <1>1 DEF Typed, Entries
  <2>2. IdFits(p, e) /\ StampFits(e)
    BY <1>1 DEF UnitFits
  <2> QED BY <1>2, <2>1, <2>2 DEF EntrySet, IdFits
<1>6. ASSUME NEW e \in EntrySet
      PROVE  /\ Settle(e) \in EntrySet /\ Settle(e).state = "Unchanged"
             /\ Named(Settle(e)) = Named(e) /\ Settle(e).id = e.id
             /\ Settle(e).type = e.type /\ Settle(e).guid = e.guid
             /\ Settle(e).modifiedAt = Settle(e).original
             /\ ReadStamp(Settle(e)) = NextStamp(e)
  <2>1. Version(e) \in Nat
    BY DEF Version, EntrySet
  <2>2. PICK f : f = Settle(e)
    OBVIOUS
  <2>3. /\ f \in EntrySet /\ f.object = e.object /\ f.type = e.type /\ f.id = e.id
        /\ f.guid = e.guid /\ f.state = "Unchanged" /\ f.modifiedAt = e.modifiedAt
        /\ f.original = e.modifiedAt /\ f.seen = Version(e)
    BY <2>1, <2>2 DEF EntrySet, Settle, States
  <2> QED BY <2>2, <2>3 DEF Named, ReadStamp, NextStamp
<1> DEFINE Shape(n, h) == /\ Settled(es) = [i \in 1..n |-> Settle(es[h[i]])]
                          /\ \A i \in 1..n : es[h[i]].state # "Deleted"
                          /\ \A i, j \in 1..n : h[i] = h[j] => i = j
<1>7. PICK m \in Nat : \E h \in [1..m -> 1..Len(es)] : Shape(m, h)
  BY <1>4, SettledShape
<1>8. PICK f \in [1..m -> 1..Len(es)] :
        /\ Settled(es) = [i \in 1..m |-> Settle(es[f[i]])]
        /\ \A i \in 1..m : es[f[i]].state # "Deleted"
        /\ \A i, j \in 1..m : f[i] = f[j] => i = j
  BY <1>7
<1> HIDE DEF Shape
<1>9. /\ Settled(es) \in Seq(EntrySet) /\ Len(Settled(es)) = m
      /\ \A i \in 1..m : f[i] \in 1..Len(es) /\ Settled(es)[i] = Settle(es[f[i]])
  <2>1. \A i \in 1..m : f[i] \in 1..Len(es) /\ Settle(es[f[i]]) \in EntrySet
    BY <1>4, <1>6, <1>8
  <2> QED BY <1>8, <2>1
<1>10. /\ tracked' \in [Processes -> Seq(EntrySet)]
       /\ \A q \in Processes \ {p} : tracked'[q] = tracked[q]
       /\ tracked'[p] \in {es, Settled(es)}
  <2>1. tracked \in [Processes -> Seq(EntrySet)]
    BY <1>1 DEF Typed
  <2> QED BY <1>2, <1>3, <1>9, <2>1
<1>11. ASSUME NEW q \in Processes, NEW j \in 1..Len(tracked'[q])
       PROVE  \E i \in 1..Len(tracked[q]) : CommittedFrom(q, tracked'[q][j], tracked[q][i])
  <2>1. CASE tracked'[q] = tracked[q]
    BY <2>1 DEF CommittedFrom
  <2>2. CASE q = p /\ tracked'[p] = Settled(es)
    <3>1. /\ f[j] \in 1..Len(es) /\ es[f[j]].state # "Deleted"
          /\ tracked'[p][j] = Settle(es[f[j]])
      BY <1>8, <1>9, <2>2
    <3> QED BY <1>2, <1>3, <2>2, <3>1 DEF CommittedFrom
  <2> QED BY <1>3, <1>10, <2>1, <2>2
<1>12. ASSUME NEW r \in rows'
       PROVE  \/ /\ r \in rows
                 /\ \A e \in Entries(p) :
                      e.state # "Unchanged" => ~Matching(r, e.id, e.type)
              \/ \E e \in Entries(p) :
                   e.state \in {"Added", "Modified"} /\ r = Row(e, e.seen + 1)
  <2>1. r \in Written(p)
    BY <1>2
  <2> QED BY <1>2, <2>1, WrittenRows
<1>13. ASSUME NEW e \in Entries(p), e.state \in {"Added", "Modified"},
              NEW r, r = Row(e, e.seen + 1)
       PROVE  /\ r \in RowSet /\ Named(r) = Named(e) /\ RowStamp(r) = NextStamp(e)
              /\ r.id = e.id /\ r.type = e.type /\ r.id # Unset
  <2>1. r = [object |-> e.object, type |-> e.type, id |-> e.id,
             modifiedAt |-> e.modifiedAt, version |-> e.seen + 1]
    BY <1>13 DEF Row
  <2>2. Version(e) = e.seen + 1 /\ e.seen + 1 \in Nat
    BY <1>5, <1>13 DEF Version
  <2> QED BY <1>5, <2>1, <2>2 DEF RowSet, Named, RowStamp, NextStamp
<1>14. Typed'
  <2>1. rows' \in SUBSET RowSet
    BY <1>1, <1>12, <1>13 DEF Typed
  <2> QED BY <1>1, <1>2, <1>10, <2>1 DEF Typed, Processes
<1>15. UsesKept
  BY <1>1, <1>2, <1>14, SameGenerators
<1>16. RowsInv'
  <2>1. ASSUME NEW r \in rows' PROVE r.id # Unset
    BY <1>1, <1>12, <1>13 DEF RowsInv
  <2>2. ASSUME NEW r \in rows', NEW s \in rows', r.id = s.id, r.type = s.type
        PROVE  r = s
    <3>1. CASE r \in rows /\ s \in rows
      BY <1>1, <2>2, <3>1 DEF RowsInv, Matching
    <3>2. ASSUME NEW e \in Entries(p), e.state \in {"Added", "Modified"},
                 r = Row(e, e.seen + 1),
                 NEW g \in Entries(p), g.state \in {"Added", "Modified"},
                 s = Row(g, g.seen + 1)
          PROVE  r = s
      <4>1. e.id = g.id /\ e.type = g.type
        BY <1>13, <2>2, <3>2
      <4>2. e = g
        BY <1>1, <4>1 DEF UnitFits, Entries
      <4> QED BY <3>2, <4>2
    <3>3. ASSUME NEW e \in Entries(p), e.state \in {"Added", "Modified"},
                 r = Row(e, e.seen + 1) \/ s = Row(e, e.seen + 1)
          PROVE  Matching(r, e.id, e.type) /\ Matching(s, e.id, e.type)
      BY <1>13, <2>2, <3>3 DEF Matching
    <3> QED BY <1>12, <3>1, <3>2, <3>3
  <2> QED BY <2>1, <2>2 DEF RowsInv, Matching
<1>17. NamesInv'
  <2>1. ASSUME NEW x, IsNaming(x)' PROVE IsNaming(x)
    <3>1. ASSUME NEW q \in Processes, NEW j \in 1..Len(tracked'[q]),
                 x = Named(tracked'[q][j])
          PROVE  IsNaming(x)
      <4>1. PICK i \in 1..Len(tracked[q]) : CommittedFrom(q, tracked'[q][j], tracked[q][i])
        BY <1>11
      <4>2. Named(tracked'[q][j]) = Named(tracked[q][i])
        <5>1. tracked[q][i] \in EntrySet
          BY <1>1 DEF Typed
        <5> QED BY <1>6, <4>1, <5>1 DEF CommittedFrom
      <4> QED BY <3>1, <4>2 DEF IsNaming
    <3>2. ASSUME NEW r \in rows', x = Named(r) PROVE IsNaming(x)
      <4>1. CASE r \in rows
        BY <3>2, <4>1 DEF IsNaming
      <4>2. CASE \E e \in Entries(p) : Named(r) = Named(e)
        BY <3>2, <4>2 DEF IsNaming, Entries
      <4> QED BY <1>12, <1>13, <4>1, <4>2
    <3>3. CASE \E h \in known' : x = Named(h)
      BY <1>2, <3>3 DEF IsNaming
    <3> QED BY <2>1, <3>1, <3>2, <3>3 DEF IsNaming, Processes
  <2> QED BY <1>1, <1>2, <1>15, <2>1, NamesKept DEF UsesKept
<1>18. UnitFits(p)'
  <2>1. CASE tracked'[p] = es
    BY <1>1, <1>2, <1>3, <1>15, <2>1, UnitKept DEF UsesKept
  <2>2. CASE tracked'[p] = Settled(es)
    <3>1. ASSUME NEW g \in Entries(p)' PROVE IdFits(p, g)' /\ StampFits(g)
      <4>1. PICK i \in 1..m : g = Settle(es[f[i]])
        BY <1>9, <2>2 DEF Entries
      <4>2. PICK e : e = es[f[i]]
        OBVIOUS
      <4>3. e \in Entries(p) /\ g = Settle(e)
        BY <1>4, <1>9, <4>1, <4>2
      <4>4. /\ g.id # Unset /\ g.id = e.id /\ g.type = e.type /\ g.guid = e.guid
            /\ g.state = "Unchanged" /\ g.modifiedAt = g.original
        BY <1>5, <1>6, <4>3
      <4>5. \/ g.guid = EmptyGuid
            \/ /\ g.guid = EntityIdFor(config[p], g.id, g.type)
               /\ ~GenerateFails(config[p], g.id, g.type)
        BY <1>5, <4>3, <4>4 DEF IdFits
      <4>6. IdFits(p, g)'
        BY <1>2, <4>4, <4>5 DEF IdFits
      <4> QED BY <4>4, <4>6 DEF StampFits
    <3>2. ASSUME NEW i \in 1..m, NEW j \in 1..m,
                 Settled(es)[i].type = Settled(es)[j].type,
                 Settled(es)[i].id = Settled(es)[j].id
          PROVE  i = j
      <4>1. \A k \in 1..m : /\ Settled(es)[k].type = es[f[k]].type
                            /\ Settled(es)[k].id = es[f[k]].id
        BY <1>4, <1>6, <1>9
      <4>2. es[f[i]].type = es[f[j]].type /\ es[f[i]].id = es[f[j]].id
        BY <3>2, <4>1
      <4>3. f[i] = f[j]
        BY <1>1, <1>3, <1>9, <4>2 DEF UnitFits
      <4> QED BY <1>8, <4>3
    <3>3. p \in up'
      BY <1>1, <1>2 DEF TrackerInv
    <3> QED BY <1>9, <2>2, <3>1, <3>2, <3>3 DEF UnitFits
  <2> QED BY <1>10, <2>1, <2>2
<1>19. TrackerInv'
  <2>1. ASSUME NEW q \in Processes \ {p} PROVE UnitFits(q)'
    BY <1>1, <1>2, <1>10, <1>15, UnitKept DEF TrackerInv, UsesKept
  <2> QED BY <1>1, <1>2, <1>18, <2>1 DEF TrackerInv, Processes
<1>20. ASSUME NEW s, IsStamping(s)' PROVE IsStamping(s)
  <2>1. ASSUME NEW q \in Processes, NEW j \in 1..Len(tracked'[q]),
               \/ tracked'[q][j].state # "Added" /\ s = ReadStamp(tracked'[q][j])
               \/ /\ q \in saving' /\ tracked'[q][j].state # "Deleted"
                  /\ s = NextStamp(tracked'[q][j])
        PROVE  IsStamping(s)
    <3>1. CASE tracked'[q] = tracked[q]
      BY <1>2, <2>1, <3>1 DEF IsStamping
    <3>2. CASE q = p /\ tracked'[p] = Settled(es)
      <4>1. j \in 1..m /\ s = ReadStamp(Settle(es[f[j]]))
        BY <1>2, <1>9, <2>1, <3>2
      <4>2. f[j] \in 1..Len(es) /\ es[f[j]].state # "Deleted" /\ es[f[j]] \in Entries(p)
        BY <1>4, <1>8, <1>9, <4>1
      <4>3. s = NextStamp(es[f[j]])
        BY <1>5, <1>6, <4>1, <4>2
      <4> QED BY <1>2, <1>3, <4>2, <4>3 DEF IsStamping
    <3> QED BY <1>3, <1>10, <3>1, <3>2
  <2>2. ASSUME NEW r \in rows', s = RowStamp(r) PROVE IsStamping(s)
    <3>1. CASE r \in rows
      BY <2>2, <3>1 DEF IsStamping
    <3>2. ASSUME NEW e \in Entries(p), e.state \in {"Added", "Modified"},
                 r = Row(e, e.seen + 1)
          PROVE  IsStamping(s)
      <4>1. s = NextStamp(e) /\ e.state # "Deleted"
        BY <1>13, <2>2, <3>2
      <4> QED BY <1>2, <4>1 DEF IsStamping, Entries
    <3> QED BY <1>12, <3>1, <3>2
  <2>3. \/ \E r \in rows' : s = RowStamp(r)
        \/ \E q \in Processes : \E i \in 1..Len(tracked'[q]) :
             \/ tracked'[q][i].state # "Added" /\ s = ReadStamp(tracked'[q][i])
             \/ /\ q \in saving' /\ tracked'[q][i].state # "Deleted"
                /\ s = NextStamp(tracked'[q][i])
    BY <1>20 DEF IsStamping, Processes, ReadStamp, NextStamp, RowStamp
  <2> QED BY <2>1, <2>2, <2>3
<1>21. StampInv'
  <2>1. \A q \in Processes : readings'[q] >= readings[q]
    BY <1>1, <1>2 DEF Typed
  <2> QED BY <1>1, <1>14, <1>20, <2>1, StampsKept
<1>22. KnownInv'
  BY <1>1, <1>2 DEF KnownInv
<1> QED
  BY <1>14, <1>15, <1>16, <1>17, <1>19, <1>21, <1>22 DEF SavingInv, UsesKept

-----------------------------------------------------------------------------
(* The invariant.                                                          *)

LEMMA InitSaving == Init => SavingInv
<1> SUFFICES ASSUME Init PROVE SavingInv
  OBVIOUS
<1>1. /\ now = 0 /\ up = Processes /\ config = [p \in Processes |-> FirstConfig]
      /\ lastId = [p \in Processes |-> [t \in EntityTypes |-> [ts |-> -1, seq |-> 0]]]
      /\ tracked = [p \in Processes |-> <<>>]
      /\ saving = {} /\ rows = {} /\ known = {} /\ objects = 0
      /\ readings = [p \in Processes |-> 0]
  BY DEF Init
<1>2. Typed
  <2>1. now \in TimeStamps
    <3>1. MaxTime \in TimeStamps
      BY SavingAssumption
    <3>2. MaxTime \in Nat /\ 0..MaxTime \subseteq TimeStamps
      BY <3>1, FieldTypes
    <3>3. 0 \in 0..MaxTime
      BY <3>2
    <3> QED BY <1>1, <3>2, <3>3
  <2>2. lastId \in [Processes -> [EntityTypes -> LastIds]]
    <3>1. [ts |-> -1, seq |-> 0] \in LastIds
      BY FieldTypes DEF LastIds
    <3> QED BY <1>1, <3>1
  <2>3. tracked \in [Processes -> Seq(EntrySet)]
    <3>1. <<>> \in Seq(EntrySet)
      OBVIOUS
    <3> QED BY <1>1, <3>1
  <2>4. config \in [Processes -> Configs]
    BY <1>1, SavingAssumption
  <2> QED BY <1>1, <2>1, <2>2, <2>3, <2>4 DEF Typed
<1>3. ClockInv
  <2>1. \A p \in Processes : \A t \in EntityTypes : lastId[p][t].ts = -1
    BY <1>1
  <2> QED BY <1>1, <2>1 DEF ClockInv
<1>4. \A p \in Processes : tracked[p] = <<>> /\ Entries(p) = {}
  BY <1>1 DEF Entries
<1>5. \A x : ~IsNaming(x)
  BY <1>1, <1>4 DEF IsNaming
<1>6. \A s : ~IsStamping(s)
  BY <1>1, <1>4 DEF IsStamping
<1>7. TrackerInv
  BY <1>1, <1>4 DEF TrackerInv, UnitFits
<1> QED
  BY <1>1, <1>2, <1>3, <1>5, <1>6, <1>7
     DEF SavingInv, NamesInv, StampInv, RowsInv, KnownInv

LEMMA NextSaving == SavingInv /\ [Next]_vars => SavingInv'
<1> SUFFICES ASSUME SavingInv, [Next]_vars PROVE SavingInv'
  OBVIOUS
<1>1. CASE Tick
  BY <1>1, TickStep
<1>2. ASSUME NEW p \in Processes, NEW t \in EntityTypes, Add(p, t) PROVE SavingInv'
  BY <1>2, AddStep
<1>3. ASSUME NEW p \in Processes, NEW h \in known, Get(p, h) PROVE SavingInv'
  BY <1>3, GetStep
<1>4. ASSUME NEW p \in Processes, NEW h \in known, DeleteById(p, h) PROVE SavingInv'
  BY <1>4, DeleteByIdStep
<1>5. ASSUME NEW p \in Processes, NEW i \in 1..Len(tracked[p]), Edit(p, i) \/ Remove(p, i)
      PROVE  SavingInv'
  BY <1>5, ChangeStep
<1>6. ASSUME NEW p \in Processes, Leave(p) \/ SaveThrows(p) \/ Crash(p) PROVE SavingInv'
  BY <1>6, EndStep
<1>7. ASSUME NEW p \in Processes, Save(p) PROVE SavingInv'
  BY <1>7, SaveBegins
<1>8. ASSUME NEW p \in Processes, Commit(p) \/ CommitUnanswered(p) PROVE SavingInv'
  BY <1>8, CommitStep
<1>9. ASSUME NEW p \in Processes, Start(p) PROVE SavingInv'
  BY <1>9, StartStep
<1>10. CASE UNCHANGED vars
  <2>1. /\ UNCHANGED <<now, up, config, lastId, tracked, saving, rows, readings,
                       objects, known>>
        /\ Typed /\ ClockInv /\ TrackerInv
    BY <1>10 DEF vars, SavingInv
  <2>2. Typed'
    BY <2>1 DEF Typed, Processes
  <2>3. UsesKept
    BY <2>1, <2>2, SameGenerators
  <2>4. \A q \in Processes : UnitFits(q)'
    BY <2>1, <2>3, UnitKept DEF TrackerInv, UsesKept
  <2> QED
    BY <2>1, <2>2, <2>3, <2>4, QuietStep, EntryComesFromItself DEF TrackerInv
<1> QED
  BY <1>1, <1>2, <1>3, <1>4, <1>5, <1>6, <1>7, <1>8, <1>9, <1>10 DEF Next, SaveStep

(* The invariant of the life of entities holds throughout.                 *)
THEOREM SavingInvariant == Spec => []SavingInv
<1> QED BY InitSaving, NextSaving, PTL DEF Spec

(* Repository, the interceptors and the value generator: an id stands for  *)
(* one entity of its type for ever, and an entity has one id.              *)
THEOREM IdentityHolds == Spec => []IdIsIdentity
<1>1. SavingInv => IdIsIdentity
  BY NamingsAre DEF SavingInv, NamesInv, IdIsIdentity
<1> QED BY <1>1, SavingInvariant, PTL

(* The concurrency check on ModifiedAt: what a save writes over or deletes *)
(* is what its unit of work has read.                                      *)
THEOREM UpdatesAreKept == Spec => NoLostUpdate
<1> DEFINE Kept ==
      \A p \in Processes :
        p \in saving /\ p \notin saving' =>
          \A r \in rows \ rows' :
            \E e \in Entries(p) : Matching(r, e.id, e.type) /\ e.seen = r.version
<1>1. ASSUME SavingInv, NEW p \in Processes, Commit(p) \/ CommitUnanswered(p),
             NEW r \in rows \ rows'
      PROVE  \E e \in Entries(p) : Matching(r, e.id, e.type) /\ e.seen = r.version
  <2>1. Writable(p) /\ r \notin Written(p)
    BY <1>1 DEF Commit, CommitUnanswered
  <2>2. PICK e \in Entries(p) : e.state # "Unchanged" /\ Matching(r, e.id, e.type)
    BY <2>1 DEF Written
  <2>3. e.state \in {"Modified", "Deleted"}
    <3>1. e \in EntrySet
      BY <1>1 DEF SavingInv, Typed, Entries
    <3>2. e.state # "Added"
      BY <2>1, <2>2 DEF Writable
    <3> QED BY <2>2, <3>1, <3>2 DEF EntrySet, States
  <2> QED BY <1>1, <2>1, <2>2, <2>3, WrittenOverWasRead
<1>2. ASSUME Next, NEW p \in Processes, p \in saving, p \notin saving'
      PROVE  Commit(p) \/ CommitUnanswered(p) \/ rows' = rows
  <2>1. ASSUME NEW q \in Processes, Save(q) PROVE FALSE
    <3>1. saving' \in {saving, saving \cup {q}}
      BY <2>1 DEF Save
    <3> QED BY <1>2, <3>1
  <2>2. ASSUME NEW q \in Processes, Commit(q) \/ CommitUnanswered(q)
        PROVE  q = p
    BY <1>2, <2>2 DEF Commit, CommitUnanswered
  <2>3. ASSUME NEW q \in Processes, SaveThrows(q) \/ Crash(q) \/ Leave(q) \/ Start(q)
        PROVE  rows' = rows
    BY <2>3 DEF SaveThrows, Crash, Leave, Start
  <2>4. CASE Tick
    BY <1>2, <2>4 DEF Tick
  <2>5. ASSUME NEW q \in Processes, NEW t \in EntityTypes, Add(q, t) PROVE rows' = rows
    BY <2>5 DEF Add
  <2>6. ASSUME NEW q \in Processes, NEW h \in known, Get(q, h) \/ DeleteById(q, h)
        PROVE  FALSE
    BY <1>2, <2>6 DEF Get, DeleteById
  <2>7. ASSUME NEW q \in Processes, NEW i \in 1..Len(tracked[q]),
               Edit(q, i) \/ Remove(q, i)
        PROVE  rows' = rows
    BY <2>7 DEF Edit, Remove
  <2> QED
    BY <1>2, <2>1, <2>2, <2>3, <2>4, <2>5, <2>6, <2>7 DEF Next, SaveStep
<1>3. SavingInv /\ [Next]_vars => [Kept]_vars
  <2> SUFFICES ASSUME SavingInv, Next PROVE Kept
    BY Zenon
  <2> QED BY <1>1, <1>2
<1>4. NoLostUpdate <=> [][Kept]_vars
  BY DEF NoLostUpdate
<1> HIDE DEF Kept
<1> QED BY <1>3, <1>4, SavingInvariant, PTL DEF Spec

(* SourceKnownEntityIdUtils: an entity id that was handed out is read back *)
(* by every process that has its key, as long as no key takes an entity id *)
(* of another one for its own.                                             *)
THEOREM HandedOutIsRead == Spec /\ []NoCoincidence => []EntityIdsAreRead
<1>1. ASSUME SavingInv, NoCoincidence, NEW h \in known, NEW p \in up,
             NEW c, c = config[p], NEW k \in DOMAIN c.ring, c.ring[k] = h.key
      PROVE  Parse(c.ring, h.guid) = Valid(h.id, h.type, h.secure)
  <2>1. PICK ring : ring = c.ring
    OBVIOUS
  <2>2. PICK n \in Nat : DOMAIN ring = 1..n /\ ring \in [1..n -> Keys]
    <3>1. c \in Configs
      BY <1>1 DEF SavingInv, Typed
    <3>2. ring \in Seq(Keys)
      BY <2>1, <3>1, SavingAssumption
    <3> QED BY <3>2
  <2>3. /\ h.key \in Keys /\ h.id \in Ids /\ h.type \in EntityTypes
        /\ h.secure \in BOOLEAN /\ MadeRight(h)
    BY <1>1 DEF SavingInv, Typed, HandedSet, KnownInv
  <2>4. PICK I : I = {j \in 1..n : ring[j] = h.key}
    OBVIOUS
  <2>5. PICK i \in I : \A j \in I : i <= j
    <3>1. I \in SUBSET Nat /\ I # {}
      BY <1>1, <2>1, <2>2, <2>4
    <3> QED BY <3>1, LeastNatural
  <2>6. i \in 1..n /\ ring[i] = h.key
    BY <2>4
  <2>7. ASSUME NEW j \in 1..n, j < i PROVE ~ParseWithKey(ring[j], h.guid).valid
    <3>1. ring[j] \in Keys /\ ring[j] # h.key
      BY <2>2, <2>4, <2>5, <2>6, <2>7
    <3> QED BY <1>1, <3>1 DEF NoCoincidence
  <2>8. /\ h.secure => ~Jackpot(ring[i], h.id, h.type)
        /\ h.guid = IF h.secure THEN GenerateSecure(ring[i], h.id, h.type)
                                ELSE GeneratePlain(ring[i], h.id, h.type)
    BY <2>3, <2>6 DEF MadeRight
  <2>9. \A guid, id, type, secure :
          /\ id \in Ids /\ type \in EntityTypes /\ secure \in BOOLEAN
          /\ secure => ~Jackpot(ring[i], id, type)
          /\ guid = IF secure THEN GenerateSecure(ring[i], id, type)
                              ELSE GeneratePlain(ring[i], id, type)
          /\ \A j \in 1..n : j < i => ~ParseWithKey(ring[j], guid).valid
          => Parse(ring, guid) = Valid(id, type, secure)
    BY <2>2, <2>6, FallbackKeysRead
  <2> QED BY <2>1, <2>3, <2>7, <2>8, <2>9
<1>2. SavingInv /\ NoCoincidence => EntityIdsAreRead
  BY <1>1 DEF EntityIdsAreRead
<1> QED BY <1>2, SavingInvariant, PTL
=============================================================================
