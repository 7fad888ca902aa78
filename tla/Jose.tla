--------------------------------- MODULE Jose ---------------------------------
(****************************************************************************)
(* Assertions as compact serializations (jose/jose.go, mda/parse.go): what  *)
(* Parse and ParseClaims read of the bytes, what Sign makes of claims, and  *)
(* what a KeyRing takes to be signed by an issuer.                          *)
(*                                                                          *)
(* A serialization is known by what the code tells apart in it.  The number *)
(* raw stands for its bytes and input for those of its first two parts,     *)
(* which a signature covers; equal numbers are equal bytes.                 *)
(****************************************************************************)
EXTENDS Grants

CONSTANTS Principal, Id,
          KeyId,     \* key identifiers, the empty one among them
          PublicKey,
          Holder,    \* Holder[key]: who holds its private half
          Added      \* the calls of KeyRing.Add, all before the ring is used

\* known: it decodes and has no unknown member.
Header == [known : BOOLEAN, alg : {"EdDSA", "other"}, typ : {"mdt+jwt", "other"}, kid : KeyId,
           crit : BOOLEAN]

\* rest: what follows the claims object in the payload.
Payload == [known : BOOLEAN, rest : {"nothing", "value", "bracket"}]

Signature == [key : PublicKey, over : Nat]

\* Nil where a part is no base64url, or decodes to nothing of the kind; claims
\* are those of the payload, and mean nothing where it cannot be read.
Assertion == [raw : Nat, input : Nat, parts : Nat, header : Header \cup {Nil},
              payload : Payload \cup {Nil}, claims : Claims(Principal, Id),
              signature : Signature \cup {Nil}]

\* A key is registered for whoever holds it; Nil has the wrong size.
ASSUME JoseAssumption ==
  /\ Nil \notin PublicKey /\ Nil \notin Header \cup Payload \cup Signature
  /\ Empty \in KeyId
  /\ Holder \in [PublicKey -> Principal]
  /\ Added \in Seq([iss : Principal, kid : KeyId, key : PublicKey \cup {Nil}])
  /\ \A i \in DOMAIN Added : Added[i].key # Nil => Holder[Added[i].key] = Added[i].iss

(****************************************************************************)
(* Parse and ParseClaims.                                                   *)
(****************************************************************************)
\* Header.check: one algorithm, one media type, no critical extension.
HeaderPasses(h) == h.alg = "EdDSA" /\ h.typ = "mdt+jwt" /\ ~ h.crit

HeaderReads(a) == a.parts = 3 /\ a.header # Nil /\ a.header.known

Parses(a) == HeaderReads(a) /\ HeaderPasses(a.header) /\ a.payload # Nil

\* unmarshalStrict: unknown claims are refused, and data after the object
\* where the decoder sees more of it, which a closing bracket is not.
ClaimsRead(a) == Parses(a) /\ a.payload.known /\ a.payload.rest # "value"

\* A header that is refused is told from what cannot be read at all.
HeaderRefused(a) == HeaderReads(a) /\ ~ HeaderPasses(a.header)

(****************************************************************************)
(* The key ring: the last key added for an issuer and a kid.                *)
(****************************************************************************)
Taken(i, iss, kid) ==
  /\ i \in DOMAIN Added
  /\ Added[i].iss # Empty /\ Added[i].key # Nil
  /\ Added[i].iss = iss /\ Added[i].kid = kid

\* Mutated: a key once registered stays.
Stands_first(i, iss, kid) == Taken(i, iss, kid) /\ \A j \in DOMAIN Added : j < i => ~ Taken(j, iss, kid)

Stands(i, iss, kid) == Taken(i, iss, kid) /\ \A j \in DOMAIN Added : j > i => ~ Taken(j, iss, kid)

\* Mutated: the token names its key, whoever that was registered for.
KeyOf_byKid(iss, kid) ==
  IF \E i \in DOMAIN Added : Added[i].kid = kid
  THEN Added[CHOOSE i \in DOMAIN Added : Added[i].kid = kid].key ELSE Nil

KeyOf(iss, kid) ==
  IF \E i \in DOMAIN Added : Stands(i, iss, kid)
  THEN Added[CHOOSE i \in DOMAIN Added : Stands(i, iss, kid)].key ELSE Nil

\* Ed25519 verifies nothing but what was signed, with the key's private half.
Ed25519Verify(key, input, signature) == signature.key = key /\ signature.over = input

\* The issuer is the one the chain asserts.
VerifySignature(iss, a) ==
  /\ Parses(a)
  /\ KeyOf(iss, a.header.kid) # Nil
  /\ a.signature # Nil
  /\ Ed25519Verify(KeyOf(iss, a.header.kid), a.input, a.signature)

\* The serialization, numbered n, of claims signed with a key.
Sign(claims, key, kid, n) ==
  [raw |-> n, input |-> n, parts |-> 3,
   header |-> [known |-> TRUE, alg |-> "EdDSA", typ |-> "mdt+jwt", kid |-> kid, crit |-> FALSE],
   payload |-> [known |-> TRUE, rest |-> "nothing"], claims |-> claims,
   signature |-> [key |-> key, over |-> n]]

\* Who can have made the signature on an assertion.
SignedBy(a, who) == a.signature # Nil /\ Holder[a.signature.key] = who /\ a.signature.over = a.input
=============================================================================
