------------------------ MODULE SourceKnownIds_proofs -----------------------
(***************************************************************************)
(* What the fields of an id survive, for every width of the fields; and    *)
(* entity ids are read back right, for every cipher and every MAC: the     *)
(* collision guard of the generator, its proof in the parser and the order *)
(* in which the parser tries its two readings fit together.                *)
(***************************************************************************)
EXTENDS SourceKnownIds, SourceKnownEntityIds, TLAPS

-----------------------------------------------------------------------------
(* The id of 64 bits.                                                      *)

LEMMA DivMod ==
  ASSUME NEW n \in Nat \ {0}, NEW a \in Int, NEW b \in 0..(n - 1)
  PROVE  (a * n + b) \div n = a /\ (a * n + b) % n = b
OBVIOUS

(* The remainder of a number that is less than one divisor away.           *)
LEMMA NearRemainder ==
  ASSUME NEW n \in Nat \ {0}, NEW x \in (-n)..(2 * n - 1)
  PROVE  x % n = IF x < 0 THEN x + n ELSE IF x < n THEN x ELSE x - n
OBVIOUS

(* A digit and a lower part below n fit below m times n.                   *)
LEMMA DigitBound ==
  ASSUME NEW n \in Nat \ {0}, NEW m \in Nat \ {0},
         NEW a \in 0..(m - 1), NEW b \in 0..(n - 1)
  PROVE  /\ a * n + b \in 0..(m * n - 1)
         /\ m * n \in Nat \ {0}
OBVIOUS

LEMMA SmallerDigit ==
  ASSUME NEW n \in Nat \ {0}, NEW a \in Int, NEW c \in Int, a < c,
         NEW b \in 0..(n - 1), NEW d \in Nat
  PROVE  a * n + b < c * n + d
OBVIOUS

LEMMA ProductOfThree ==
  ASSUME NEW a \in Nat \ {0}, NEW b \in Nat \ {0}, NEW c \in Nat \ {0}
  PROVE  a * b \in Nat \ {0} /\ b * c \in Nat \ {0}
         /\ a * b * c \in Nat \ {0} /\ a * b * c = a * (b * c)
OBVIOUS

-----------------------------------------------------------------------------
(* An id is the digits of its fields, the time stamp first, moved down by  *)
(* one half of the epoch.                                                  *)
LEMMA GenerateIsPositional ==
  ASSUME NEW ts \in TimeStamps, NEW app, NEW instance, NEW seq,
         Payload(app, instance, seq) \in Int
  PROVE  Generate(ts, app, instance, seq)
           = (ts - TicksPerHalf) * Payloads + Payload(app, instance, seq)
<1>1. TicksPerHalf \in Nat \ {0} /\ Payloads \in Nat \ {0}
  BY FieldAssumption, ProductOfThree DEF Payloads
<1>2. CASE IsSecondHalf(ts)
  <2>1. StoredTimestamp(ts) = ts - TicksPerHalf
    BY <1>1, <1>2, NearRemainder DEF StoredTimestamp, TimeStamps, IsSecondHalf
  <2>2. Generate(ts, app, instance, seq)
          = (ts - TicksPerHalf) * Payloads + Payload(app, instance, seq) - 0
    BY <1>2, <2>1 DEF Generate
  <2>3. (ts - TicksPerHalf) * Payloads \in Int
    BY <1>1 DEF TimeStamps
  <2> QED BY <2>2, <2>3
<1>3. CASE ~IsSecondHalf(ts)
  <2>1. StoredTimestamp(ts) = ts
    BY <1>1, <1>3, NearRemainder DEF StoredTimestamp, TimeStamps, IsSecondHalf
  <2>2. Generate(ts, app, instance, seq)
          = ts * Payloads + Payload(app, instance, seq) - TicksPerHalf * Payloads
    BY <1>3, <2>1 DEF Generate
  <2> QED BY <1>1, <2>2 DEF TimeStamps
<1> QED BY <1>2, <1>3

LEMMA PayloadBound ==
  ASSUME NEW app \in AppIds, NEW instance \in AppInstanceIds,
         NEW seq \in SequenceIds
  PROVE  Payload(app, instance, seq) \in 0..(Payloads - 1)
<1>1. /\ app * AppInstances + instance \in 0..(Apps * AppInstances - 1)
      /\ Apps * AppInstances \in Nat \ {0}
  BY FieldAssumption, DigitBound DEF AppIds, AppInstanceIds
<1> QED BY <1>1, FieldAssumption, DigitBound DEF Payload, Payloads, SequenceIds

(* Reading an id gives back exactly what it was made of: the sign bit, the *)
(* mask of the time stamp and the shifts of builder and parser agree, also *)
(* on both sides of the half of the epoch (SourceKnownIdUtils.Generate and *)
(* ParseId).                                                               *)
THEOREM ParseInvertsGenerate ==
  ASSUME NEW ts \in TimeStamps, NEW app \in AppIds,
         NEW instance \in AppInstanceIds, NEW seq \in SequenceIds
  PROVE  ParseId(Generate(ts, app, instance, seq))
           = [ts |-> ts, app |-> app, instance |-> instance, seq |-> seq]
<1> DEFINE id == Generate(ts, app, instance, seq)
           p == Payload(app, instance, seq)
           high == ts - TicksPerHalf
<1>1. /\ TicksPerHalf \in Nat \ {0} /\ Apps \in Nat \ {0}
      /\ AppInstances \in Nat \ {0} /\ Sequences \in Nat \ {0}
  BY FieldAssumption
<1>2. p \in 0..(Payloads - 1) /\ Payloads \in Nat \ {0} /\ high \in Int
  BY <1>1, PayloadBound, ProductOfThree DEF Payloads, TimeStamps
<1>3. id = high * Payloads + p
  BY <1>2, GenerateIsPositional
<1>4. id \div Payloads = high
  BY <1>2, <1>3, DivMod
<1>5. ParseId(id).ts = ts
  <2>1. CASE IsSecondHalf(ts)
    <3>1. high \in 0..(TicksPerHalf - 1) /\ id >= 0
      BY <1>1, <1>2, <1>3, <2>1, DigitBound DEF TimeStamps, IsSecondHalf
    <3>2. high % TicksPerHalf = high
      BY <1>1, <3>1, NearRemainder
    <3> QED BY <1>1, <1>4, <3>1, <3>2 DEF ParseId, TimeStamps
  <2>2. CASE ~IsSecondHalf(ts)
    <3>1. high < 0 /\ ts \in 0..(TicksPerHalf - 1)
      BY <1>1, <2>2 DEF TimeStamps, IsSecondHalf
    <3>2. id < 0 * Payloads + 0
      BY <1>2, <1>3, <3>1, SmallerDigit
    <3>3. high % TicksPerHalf = ts
      BY <1>1, <3>1, NearRemainder
    <3>4. ~(id >= 0)
      BY <1>2, <1>3, <3>2
    <3> QED BY <1>4, <3>3, <3>4 DEF ParseId
  <2> QED BY <2>1, <2>2
<1> DEFINE pair == app * AppInstances + instance
           upper == high * (Apps * AppInstances) + pair
<1>6. /\ pair \in 0..(Apps * AppInstances - 1)
      /\ Apps * AppInstances \in Nat \ {0}
  BY <1>1, DigitBound DEF AppIds, AppInstanceIds
<1>7. upper \in Int /\ id = upper * Sequences + seq
  BY <1>1, <1>2, <1>3, <1>6 DEF Payload, Payloads, SequenceIds
<1>8. id \div Sequences = upper /\ id % Sequences = seq
  BY <1>1, <1>7, DivMod DEF SequenceIds
<1> DEFINE top == high * Apps + app
<1>9. top \in Int /\ upper = top * AppInstances + instance
  BY <1>1, <1>2, <1>6 DEF AppIds, AppInstanceIds
<1>10. upper % AppInstances = instance
  BY <1>1, <1>9, DivMod DEF AppInstanceIds
<1>11. /\ id = top * (AppInstances * Sequences) + (instance * Sequences + seq)
       /\ instance * Sequences + seq \in 0..(AppInstances * Sequences - 1)
       /\ AppInstances * Sequences \in Nat \ {0}
  BY <1>1, <1>7, <1>9, DigitBound DEF AppInstanceIds, SequenceIds
<1>12. id \div (AppInstances * Sequences) = top
  BY <1>9, <1>11, DivMod
<1>13. top % Apps = app
  BY <1>1, <1>2, DivMod DEF AppIds
<1> QED BY <1>5, <1>8, <1>10, <1>12, <1>13 DEF ParseId

(* A later time stamp gives a greater id, whatever generated the two, also *)
(* across the half of the epoch; with the same time stamp the sequence     *)
(* number decides between the ids of one instance.  Sorting by id is       *)
(* sorting by creation.                                                    *)
THEOREM LaterIsGreater ==
  ASSUME NEW s \in TimeStamps, NEW t \in TimeStamps,
         NEW a \in AppIds, NEW b \in AppIds,
         NEW i \in AppInstanceIds, NEW j \in AppInstanceIds,
         NEW m \in SequenceIds, NEW n \in SequenceIds,
         s < t \/ (s = t /\ a = b /\ i = j /\ m < n)
  PROVE  Generate(s, a, i, m) < Generate(t, b, j, n)
<1>1. /\ Payload(a, i, m) \in 0..(Payloads - 1)
      /\ Payload(b, j, n) \in 0..(Payloads - 1)
  BY PayloadBound
<1>2. TicksPerHalf \in Nat \ {0} /\ Payloads \in Nat \ {0}
  BY FieldAssumption, ProductOfThree DEF Payloads
<1>3. /\ Generate(s, a, i, m) = (s - TicksPerHalf) * Payloads + Payload(a, i, m)
      /\ Generate(t, b, j, n) = (t - TicksPerHalf) * Payloads + Payload(b, j, n)
  BY <1>1, GenerateIsPositional
<1>4. CASE s < t
  <2>1. s - TicksPerHalf < t - TicksPerHalf
    BY <1>2, <1>4 DEF TimeStamps
  <2> QED BY <1>1, <1>2, <1>3, <2>1, SmallerDigit DEF TimeStamps
<1>5. CASE s = t /\ a = b /\ i = j /\ m < n
  <2>1. Payload(a, i, m) < Payload(b, j, n)
    BY <1>5, FieldAssumption DEF Payload, AppIds, AppInstanceIds, SequenceIds
  <2> QED BY <1>1, <1>2, <1>3, <1>5, <2>1 DEF TimeStamps
<1> QED BY <1>4, <1>5

-----------------------------------------------------------------------------
(* The bounds of a date enclose exactly the ids of its time stamp.         *)
LEMMA TickBounds ==
  ASSUME NEW ts \in TimeStamps, NEW date \in TimeStamps, NEW app \in AppIds,
         NEW instance \in AppInstanceIds, NEW seq \in SequenceIds
  PROVE  /\ Generate(ts, app, instance, seq) >= MinId(date) <=> ts >= date
         /\ Generate(ts, app, instance, seq) <= MaxId(date) <=> ts <= date
         /\ MinId(date) \in Int /\ MaxId(date) \in Int
         /\ Generate(ts, app, instance, seq) \in Int
<1> DEFINE id == Generate(ts, app, instance, seq)
           p == Payload(app, instance, seq)
<1>1. p \in 0..(Payloads - 1) /\ Payload(0, 0, 0) = 0
  BY PayloadBound, FieldAssumption DEF Payload
<1>2. TicksPerHalf \in Nat \ {0} /\ Payloads \in Nat \ {0}
  BY FieldAssumption, ProductOfThree DEF Payloads
<1>3. /\ id = (ts - TicksPerHalf) * Payloads + p
      /\ MinId(date) = (date - TicksPerHalf) * Payloads
      /\ MaxId(date) = (date - TicksPerHalf) * Payloads + (Payloads - 1)
  BY <1>1, <1>2, GenerateIsPositional
  DEF MinId, MaxId, ConvertToSourceKnownIdTimeStamp, TimeStamps
<1>4. id \in Int /\ MinId(date) \in Int /\ MaxId(date) \in Int
  BY <1>1, <1>2, <1>3 DEF TimeStamps
<1>5. CASE ts < date
  <2>1. id < MinId(date)
    BY <1>1, <1>2, <1>3, <1>5, SmallerDigit DEF TimeStamps
  <2> QED BY <1>2, <1>3, <1>4, <1>5, <2>1 DEF TimeStamps
<1>6. CASE ts = date
  BY <1>1, <1>2, <1>3, <1>4, <1>6 DEF TimeStamps
<1>7. CASE ts > date
  <2>1. MaxId(date) < id
    BY <1>1, <1>2, <1>3, <1>7, SmallerDigit DEF TimeStamps
  <2> QED BY <1>2, <1>3, <1>4, <1>7, <2>1 DEF TimeStamps
<1> QED BY <1>5, <1>6, <1>7 DEF TimeStamps

(* The filters on the creation time compare ids only, and still select by  *)
(* the time stamp, to the tick and across the half of the epoch, also when *)
(* the bounds come in the wrong order (EntityDateTimeUtils).               *)
THEOREM FiltersFollowTheTime ==
  ASSUME NEW ts \in TimeStamps, NEW app \in AppIds,
         NEW instance \in AppInstanceIds, NEW seq \in SequenceIds,
         NEW begin \in TimeStamps, NEW end \in TimeStamps, begin <= end
  PROVE  LET id == Generate(ts, app, instance, seq) IN
         /\ CreatedAfter(id, begin, TRUE) <=> ts >= begin
         /\ CreatedAfter(id, begin, FALSE) <=> ts > begin
         /\ CreatedBefore(id, begin, TRUE) <=> ts <= begin
         /\ CreatedBefore(id, begin, FALSE) <=> ts < begin
         /\ \A x, y \in {begin, end} : x # y \/ begin = end =>
              /\ CreatedBetween(id, x, y, TRUE) <=> ts >= begin /\ ts <= end
              /\ CreatedBetween(id, x, y, FALSE) <=> ts > begin /\ ts < end
              /\ CreatedOutside(id, x, y, TRUE) <=> ts <= begin \/ ts >= end
              /\ CreatedOutside(id, x, y, FALSE) <=> ts < begin \/ ts > end
<1> DEFINE id == Generate(ts, app, instance, seq)
<1>1. /\ 0 \in AppIds /\ 0 \in AppInstanceIds /\ 0 \in SequenceIds
  BY FieldAssumption DEF AppIds, AppInstanceIds, SequenceIds
<1>2. /\ id >= MinId(begin) <=> ts >= begin
      /\ id <= MaxId(begin) <=> ts <= begin
      /\ id >= MinId(end) <=> ts >= end
      /\ id <= MaxId(end) <=> ts <= end
      /\ {id, MinId(begin), MaxId(begin), MinId(end), MaxId(end)} \subseteq Int
  BY TickBounds
<1>3. /\ id > MaxId(begin) <=> ts > begin
      /\ id < MinId(begin) <=> ts < begin
      /\ id > MaxId(end) <=> ts > end
      /\ id < MinId(end) <=> ts < end
  BY <1>2 DEF TimeStamps
<1>4. MinId(end) >= MinId(begin)
  BY <1>1, TickBounds DEF MinId, ConvertToSourceKnownIdTimeStamp
<1>5. begin # end => MinId(end) > MinId(begin)
  <2> SUFFICES ASSUME begin # end PROVE MinId(end) > MinId(begin)
    OBVIOUS
  <2>1. ~(MinId(begin) >= MinId(end))
    BY <1>1, TickBounds DEF MinId, ConvertToSourceKnownIdTimeStamp, TimeStamps
  <2> QED BY <1>2, <2>1
<1>6. ASSUME NEW x \in {begin, end}, NEW y \in {begin, end},
             x # y \/ begin = end
      PROVE  Earlier(x, y) = begin /\ Later(x, y) = end
  BY <1>2, <1>4, <1>5, <1>6 DEF Earlier, Later
<1>7. ASSUME NEW x \in {begin, end}, NEW y \in {begin, end},
             x # y \/ begin = end
      PROVE  /\ CreatedBetween(id, x, y, TRUE) <=> ts >= begin /\ ts <= end
             /\ CreatedBetween(id, x, y, FALSE) <=> ts > begin /\ ts < end
             /\ CreatedOutside(id, x, y, TRUE) <=> ts <= begin \/ ts >= end
             /\ CreatedOutside(id, x, y, FALSE) <=> ts < begin \/ ts > end
  <2> HIDE DEF id
  <2>1. Earlier(x, y) = begin /\ Later(x, y) = end
    BY <1>6, <1>7
  <2> QED BY <1>2, <1>3, <2>1 DEF CreatedBetween, CreatedOutside
<1> QED BY <1>2, <1>3, <1>7 DEF CreatedAfter, CreatedBefore

-----------------------------------------------------------------------------
(* The entity id of 128 bits.                                              *)

LEMMA BlockType ==
  ASSUME NEW k \in Keys, NEW id \in Ids, NEW type \in EntityTypes,
         NEW v \in WrittenVariants
  PROVE  /\ Block(k, id, type, v) \in Blocks
         /\ Block(k, id, type, v).content
              = [id |-> id, type |-> type, version |-> TRUE, variant |-> v]
         /\ Block(k, id, type, v).mac = Mac[k][Block(k, id, type, v).content]
         /\ Dec[k][Encrypted(k, id, type, v)] = Block(k, id, type, v)
<1>1. [id |-> id, type |-> type, version |-> TRUE, variant |-> v] \in Contents
  BY DEF Contents
<1>2. Mac[k][[id |-> id, type |-> type, version |-> TRUE, variant |-> v]] \in Macs
  BY <1>1, CryptoAssumption
<1>3. Block(k, id, type, v) \in Blocks
  BY <1>1, <1>2 DEF Block, Blocks
<1>4. /\ Block(k, id, type, v).content
           = [id |-> id, type |-> type, version |-> TRUE, variant |-> v]
      /\ Block(k, id, type, v).mac = Mac[k][Block(k, id, type, v).content]
  BY DEF Block
<1>5. Dec[k][Encrypted(k, id, type, v)] = Block(k, id, type, v)
  BY <1>3, CryptoAssumption DEF Encrypted
<1> QED BY <1>3, <1>4, <1>5

(* A plain entity id gives back the id and the type it was made of         *)
(* (GeneratePlain, ParseWithKey).                                          *)
THEOREM PlainIsReadBack ==
  ASSUME NEW k \in Keys, NEW id \in Ids, NEW type \in EntityTypes
  PROVE  ParseWithKey(k, GeneratePlain(k, id, type)) = Valid(id, type, FALSE)
<1> DEFINE b == Block(k, id, type, DefaultVariant)
<1>1. DefaultVariant \in WrittenVariants
  BY CryptoAssumption DEF DefaultVariant, WrittenVariants
<1>2. /\ b.content = [id |-> id, type |-> type, version |-> TRUE,
                      variant |-> DefaultVariant]
      /\ b.mac = Mac[k][b.content]
  BY <1>1, BlockType
<1> HIDE DEF b
<1>3. LooksPlain(k, b) /\ b.content.id = id /\ b.content.type = type
  BY <1>2 DEF LooksPlain, HasValidMarkers, HasCoincidentalMacMatch
<1>4. ParseWithKey(k, b) = Valid(id, type, FALSE)
  BY <1>3 DEF ParseWithKey, VerifyAndParse, LooksPlain
<1> QED BY <1>4 DEF GeneratePlain, b

(* The variant that the guard stopped at passes the parser's proof: the    *)
(* one before it collided.                                                 *)
LEMMA ProofOfUsableVariant ==
  ASSUME NEW k \in Keys, NEW id \in Ids, NEW type \in EntityTypes,
         NEW v \in UsableVariants(k, id, type)
  PROVE  /\ v \in WrittenVariants
         /\ ~LooksPlain(k, Encrypted(k, id, type, v))
         /\ v > DefaultVariant => Collides(k, id, type, v - 1)
<1>1. v \in WrittenVariants /\ ~Collides(k, id, type, v)
  BY DEF UsableVariants
<1>2. ASSUME v > DefaultVariant PROVE Collides(k, id, type, v - 1)
  <2>1. v - 1 \in WrittenVariants /\ v - 1 < v
    BY <1>1, <1>2, CryptoAssumption DEF WrittenVariants, DefaultVariant
  <2> QED BY <2>1 DEF UsableVariants
<1> QED BY <1>1, <1>2 DEF Collides

(* A secure entity id gives back the id and the type it was made of, and   *)
(* is never taken for a plain one, also when a cipher text looks plain:    *)
(* unless all variants collide, where the generator fails instead          *)
(* (GenerateSecure, ParseWithKey, VerifyCollisionGuardProof).              *)
THEOREM SecureIsReadBack ==
  ASSUME NEW k \in Keys, NEW id \in Ids, NEW type \in EntityTypes,
         ~Jackpot(k, id, type)
  PROVE  ParseWithKey(k, GenerateSecure(k, id, type)) = Valid(id, type, TRUE)
<1>1. PICK v \in UsableVariants(k, id, type) :
        GenerateSecure(k, id, type) = Encrypted(k, id, type, v)
  BY DEF Jackpot, GenerateSecure
<1> DEFINE b == Block(k, id, type, v)
           guid == Encrypted(k, id, type, v)
<1>2. /\ v \in WrittenVariants
      /\ ~LooksPlain(k, guid)
      /\ v > DefaultVariant => Collides(k, id, type, v - 1)
  BY ProofOfUsableVariant
<1>3. /\ b.content = [id |-> id, type |-> type, version |-> TRUE,
                      variant |-> v]
      /\ b.mac = Mac[k][b.content]
      /\ Dec[k][guid] = b
  BY <1>2, BlockType
<1> HIDE DEF b, guid
<1>4. IsLegitimate(k, b)
  BY <1>2, <1>3 DEF IsLegitimate, VerifyCollisionGuardProof
<1>5. VerifyAndParse(k, b, TRUE) = Valid(id, type, TRUE)
  BY <1>3 DEF VerifyAndParse, HasCoincidentalMacMatch
<1>6. ParseWithKey(k, guid) = Valid(id, type, TRUE)
  BY <1>2, <1>3, <1>4, <1>5 DEF ParseWithKey, DecryptAndParse
<1> QED BY <1>1, <1>6 DEF guid

(* The first key of the ring that accepts an entity id decides.            *)
LEMMA FirstFitDecides ==
  ASSUME NEW ring, NEW n \in Nat, DOMAIN ring = 1..n, NEW i \in 1..n,
         NEW guid, ParseWithKey(ring[i], guid).valid,
         \A j \in 1..n : j < i => ~ParseWithKey(ring[j], guid).valid
  PROVE  Parse(ring, guid) = ParseWithKey(ring[i], guid)
<1> DEFINE fits == {j \in DOMAIN ring : ParseWithKey(ring[j], guid).valid}
<1>1. i \in fits /\ fits \subseteq 1..n
  OBVIOUS
<1>2. \A j \in fits : i <= j
  OBVIOUS
<1> HIDE DEF fits
<1>3. \A m \in fits : (\A j \in fits : m <= j) => m = i
  BY <1>1, <1>2
<1>4. (CHOOSE m \in fits : \A j \in fits : m <= j) = i
  BY <1>1, <1>2, <1>3
<1> QED BY <1>1, <1>4 DEF Parse, fits

(* A rotated key: an entity id made in either form under a key that is now *)
(* a fallback is read back as what it was made of, as long as the keys     *)
(* before it in the ring do not take it for one of theirs, a coincidence   *)
(* of MACs (Parse, AllWithDefaultAsFirstItem).                             *)
THEOREM FallbackKeysRead ==
  ASSUME NEW n \in Nat, NEW ring \in [1..n -> Keys], NEW i \in 1..n,
         NEW id \in Ids, NEW type \in EntityTypes, NEW secure \in BOOLEAN,
         secure => ~Jackpot(ring[i], id, type),
         NEW guid, guid = IF secure THEN GenerateSecure(ring[i], id, type)
                                    ELSE GeneratePlain(ring[i], id, type),
         \A j \in 1..n : j < i => ~ParseWithKey(ring[j], guid).valid
  PROVE  Parse(ring, guid) = Valid(id, type, secure)
<1>1. ring[i] \in Keys
  OBVIOUS
<1>2. CASE secure
  <2>1. ParseWithKey(ring[i], guid) = Valid(id, type, TRUE)
    BY <1>1, <1>2, SecureIsReadBack
  <2>2. ParseWithKey(ring[i], guid).valid
    BY <2>1 DEF Valid
  <2> QED BY <1>2, <2>1, <2>2, FirstFitDecides
<1>3. CASE ~secure
  <2>1. ParseWithKey(ring[i], guid) = Valid(id, type, FALSE)
    BY <1>1, <1>3, PlainIsReadBack
  <2>2. ParseWithKey(ring[i], guid).valid
    BY <2>1 DEF Valid
  <2> QED BY <1>3, <2>1, <2>2, FirstFitDecides
<1> QED BY <1>2, <1>3

=============================================================================
