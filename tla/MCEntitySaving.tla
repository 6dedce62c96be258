--------------------------- MODULE MCEntitySaving ---------------------------
(***************************************************************************)
(* Two app instances, one entity type, and keys 0 and 1 of which the      *)
(* second replaces the first.  The cipher numbers the blocks and moves the *)
(* numbers round; its parameters are such that the cipher text of some ids *)
(* looks plain under key 1, for some of them in every variant, and that no *)
(* entity id of one key is taken for one of the other.                     *)
(***************************************************************************)
EXTENDS EntitySaving

MCIds == (-4)..3
MCKeys == {0, 1}
MCTypes == {1}
MCMacs == 0..2

Digit(version) == IF version THEN 1 ELSE 0

MCMac ==
  [k \in MCKeys |->
     [c \in Contents |->
        (4 * (c.id + 4) + 2 * (c.type + c.variant + 1) + Digit(c.version) + k) % 3]]

Number(b) ==
  ((((b.content.id + 4) * 2 + Digit(b.content.version)) * 3
      + b.content.variant + 1) * 3) + b.mac

Numbers == 144
Numbered(n) ==
  [content |-> [id      |-> (n \div 18) - 4,
                type    |-> 1,
                version |-> (n \div 9) % 2 = 1,
                variant |-> ((n \div 3) % 3) - 1],
   mac |-> n % 3]

Offset == [k \in MCKeys |-> IF k = 0 THEN 28 ELSE 115]
Factor == 137
InverseFactor == 41  \* Factor * InverseFactor % Numbers = 1
MCEnc == [k \in MCKeys |->
            [b \in Blocks |-> Numbered((Number(b) * Factor + Offset[k]) % Numbers)]]
MCDec == [k \in MCKeys |->
            [b \in Blocks |-> Numbered(((Number(b) - Offset[k]) * InverseFactor) % Numbers)]]

MCFirstConfig == [ring |-> <<1, 0>>, secure |-> TRUE]
MCConfigs == {MCFirstConfig, [ring |-> <<0, 1>>, secure |-> FALSE]}

(* No key takes an entity id that another key made for one of its own, so   *)
(* that NoCoincidence holds whatever is handed out.                        *)
ASSUME KeysApart ==
  \A k, l \in Keys, id \in Ids, type \in EntityTypes :
    k # l => /\ ~ParseWithKey(l, GeneratePlain(k, id, type)).valid
             /\ ~Jackpot(k, id, type)
                  => ~ParseWithKey(l, GenerateSecure(k, id, type)).valid

MCMaxTracked == [p \in {0, 1} |-> IF p = 0 THEN 1 ELSE 2]
MCMaxFaults == [p \in {0, 1} |-> IF p = 0 THEN 0 ELSE 1]

=============================================================================
