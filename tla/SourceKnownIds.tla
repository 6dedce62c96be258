--------------------------- MODULE SourceKnownIds ---------------------------
(***************************************************************************)
(* The 64-bit source known id: SourceKnownIdUtils.Generate packs a time    *)
(* stamp, the app, its instance and a sequence number into one signed      *)
(* number, ParseId takes it apart, and EntityDateTimeUtils turns a filter  *)
(* on the creation time into a comparison of ids.                          *)
(*                                                                         *)
(* The fields have 32, 7, 6 and 18 bits in the code; here the number of    *)
(* values of each field is a parameter.  The top bit says which half of    *)
(* the epoch the time stamp is in: it is set in the first half, so the ids *)
(* of the first half are negative.                                         *)
(***************************************************************************)
EXTENDS Integers

CONSTANTS
  TicksPerHalf,  \* SourceKnownIdUtils.TicksPerHalf
  Apps,          \* MaxAppId + 1
  AppInstances,  \* MaxAppInstanceId + 1
  Sequences      \* SequenceTimeScope.MaxValue + 1

ASSUME FieldAssumption ==
  {TicksPerHalf, Apps, AppInstances, Sequences} \subseteq Nat \ {0}

TimeStamps == 0..(2 * TicksPerHalf - 1)
AppIds == 0..(Apps - 1)
AppInstanceIds == 0..(AppInstances - 1)
SequenceIds == 0..(Sequences - 1)

(* The bits below the time stamp.                                          *)
Payloads == Apps * AppInstances * Sequences
Payload(app, instance, seq) == (app * AppInstances + instance) * Sequences + seq

StoredTimestamp(ts) == ts % TicksPerHalf
IsSecondHalf(ts) == ts >= TicksPerHalf

(* The builder starts with the sign bit set; MakePositive clears it.       *)
Generate(ts, app, instance, seq) ==
  StoredTimestamp(ts) * Payloads + Payload(app, instance, seq)
    - (IF IsSecondHalf(ts) THEN 0 ELSE TicksPerHalf * Payloads)

SourceKnownIdSet ==
  (-(TicksPerHalf * Payloads))..(TicksPerHalf * Payloads - 1)

ParseId(id) ==
  LET stored == (id \div Payloads) % TicksPerHalf
  IN [ts       |-> IF id >= 0 THEN stored + TicksPerHalf ELSE stored,
      app      |-> (id \div (AppInstances * Sequences)) % Apps,
      instance |-> (id \div Sequences) % AppInstances,
      seq      |-> id % Sequences]

-----------------------------------------------------------------------------
(* The filters on the creation time.                                       *)

ConvertToSourceKnownIdTimeStamp(ts) == Generate(ts, 0, 0, 0)

(* ConvertToTickBounds: the least and the greatest id of a time stamp.     *)
MinId(ts) == ConvertToSourceKnownIdTimeStamp(ts)
MaxId(ts) == ConvertToSourceKnownIdTimeStamp(ts) + Payloads - 1

CreatedAfter(id, date, inclusive) ==
  IF inclusive THEN id >= MinId(date) ELSE id > MaxId(date)

CreatedBefore(id, date, inclusive) ==
  IF inclusive THEN id <= MaxId(date) ELSE id < MinId(date)

(* The bounds are swapped if they come in the wrong order.                 *)
Earlier(begin, end) == IF MinId(begin) > MinId(end) THEN end ELSE begin
Later(begin, end) == IF MinId(begin) > MinId(end) THEN begin ELSE end

CreatedBetween(id, begin, end, inclusive) ==
  LET b == Earlier(begin, end)
      e == Later(begin, end)
  IN IF inclusive THEN id >= MinId(b) /\ id <= MaxId(e)
                  ELSE id > MaxId(b) /\ id < MinId(e)

CreatedOutside(id, begin, end, inclusive) ==
  LET b == Earlier(begin, end)
      e == Later(begin, end)
  IN IF inclusive THEN id <= MaxId(b) \/ id >= MinId(e)
                  ELSE id < MinId(b) \/ id > MaxId(e)

=============================================================================
