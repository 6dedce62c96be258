------------------------ MODULE SourceKnownEntityIds ------------------------
(***************************************************************************)
(* The 128-bit entity id (SourceKnownEntityIdUtils): a block that holds an *)
(* id, an entity type, two marker bytes and a MAC.  A plain entity id is   *)
(* the block itself, a secure one is the block encrypted.  Parse finds out *)
(* which of the two it has, and under which key it was made.               *)
(*                                                                         *)
(* A cipher text may look like a plain entity id by coincidence; the       *)
(* generator then tries the next value of the variant byte, and the parser *)
(* accepts such a value only with the proof that the one before it was     *)
(* unusable.  Cipher and MAC are parameters: whatever they are, nothing    *)
(* but the decryption of what was encrypted is assumed of them.            *)
(***************************************************************************)
EXTENDS Integers

CONSTANTS
  Ids,          \* the source known ids
  EntityTypes,  \* the entity type bytes
  Macs,         \* the values of the MAC
  Keys,         \* the keys of the key ring
  Mac,          \* Mac[k]: ComputeMac with key k over a block without MAC
  Enc,          \* Enc[k]: EncryptGuidBlock
  Dec,          \* Dec[k]: DecryptGuidBlock
  MaxVariant    \* 0xBF, with 0x8D as 0

(* The variant byte: 0 is 0x8D, 1 to MaxVariant are 0x8E to 0xBF, and      *)
(* OtherVariant is any value that is never written.                        *)
DefaultVariant == 0
OtherVariant == -1
WrittenVariants == DefaultVariant..MaxVariant

Contents ==
  [id : Ids, type : EntityTypes, version : BOOLEAN,
   variant : WrittenVariants \cup {OtherVariant}]
Blocks == [content : Contents, mac : Macs]

ASSUME CryptoAssumption ==
  /\ MaxVariant \in Nat \ {0}
  /\ \A k \in Keys : /\ Mac[k] \in [Contents -> Macs]
                     /\ Enc[k] \in [Blocks -> Blocks]
                     /\ Dec[k] \in [Blocks -> Blocks]
                     /\ \A b \in Blocks : Dec[k][Enc[k][b]] = b

-----------------------------------------------------------------------------
(* WriteIdAndMarkers, ComputeMac and WriteMacToGuid.                       *)
Block(k, id, type, variant) ==
  LET content == [id |-> id, type |-> type, version |-> TRUE,
                  variant |-> variant]
  IN [content |-> content, mac |-> Mac[k][content]]

HasValidMarkers(b) ==
  b.content.version /\ b.content.variant = DefaultVariant

HasCoincidentalMacMatch(k, b) == b.mac = Mac[k][b.content]

LooksPlain(k, b) == HasValidMarkers(b) /\ HasCoincidentalMacMatch(k, b)

Encrypted(k, id, type, variant) == Enc[k][Block(k, id, type, variant)]

Collides(k, id, type, variant) ==
  LooksPlain(k, Encrypted(k, id, type, variant))

(* The variants that the guard may stop at: the first that does not        *)
(* collide, none if all do.                                                *)
UsableVariants(k, id, type) ==
  {v \in WrittenVariants : /\ ~Collides(k, id, type, v)
                           /\ \A w \in WrittenVariants :
                                w < v => Collides(k, id, type, w)}

Jackpot(k, id, type) == UsableVariants(k, id, type) = {}

GeneratePlain(k, id, type) == Block(k, id, type, DefaultVariant)

(* Mutant: no collision guard.                                             *)
GenerateUnguarded(k, id, type) == Encrypted(k, id, type, DefaultVariant)

GenerateSecure(k, id, type) ==
  Encrypted(k, id, type, CHOOSE v \in UsableVariants(k, id, type) : TRUE)

-----------------------------------------------------------------------------
Invalid == [valid |-> FALSE]
Valid(id, type, secure) ==
  [valid |-> TRUE, id |-> id, type |-> type, secure |-> secure]

VerifyAndParse(k, b, secure) ==
  IF HasCoincidentalMacMatch(k, b)
  THEN Valid(b.content.id, b.content.type, secure)
  ELSE Invalid

VerifyCollisionGuardProof(k, b, variant) ==
  Collides(k, b.content.id, b.content.type, variant)

(* HasValidMarkersSecure and the test of the variant that follows it.      *)
IsLegitimate(k, b) ==
  /\ b.content.version
  /\ b.content.variant \in WrittenVariants
  /\ b.content.variant > DefaultVariant
       => VerifyCollisionGuardProof(k, b, b.content.variant - 1)

DecryptAndParse(k, guid) ==
  IF IsLegitimate(k, Dec[k][guid]) THEN VerifyAndParse(k, Dec[k][guid], TRUE)
                                   ELSE Invalid

ParseWithKey(k, guid) ==
  IF LooksPlain(k, guid) THEN VerifyAndParse(k, guid, FALSE)
                         ELSE DecryptAndParse(k, guid)

(* The keys of the ring, the default first; the first that fits decides.   *)
Parse(ring, guid) ==
  LET fits == {i \in DOMAIN ring : ParseWithKey(ring[i], guid).valid}
  IN IF fits = {} THEN Invalid
     ELSE ParseWithKey(ring[CHOOSE i \in fits : \A j \in fits : i <= j], guid)

=============================================================================
