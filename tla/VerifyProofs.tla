---------------------------- MODULE VerifyProofs ----------------------------
(****************************************************************************)
(* Theorems about Verify: whatever is presented, and however the clock and  *)
(* the revocations move during a call, what is accepted narrows along the   *)
(* whole chain, is in custody from the sponsor down, and was live when the  *)
(* call began; and rule V7 never decides.                                   *)
(*                                                                          *)
(* Checked says what a verification has established when it is at link k of *)
(* check p.  The loops establish their conclusion one link at a time, which *)
(* is what carries a rule about neighbours to all pairs of links.           *)
(****************************************************************************)
EXTENDS Verify, GrantsProofs

PastRevocation  == {"audience", "ok"}
PastDepth       == PastRevocation \cup {"revocation"}
PastRoot        == PastDepth \cup {"depth"}
PastAttenuation == PastRoot \cup {"root"}
PastTime        == PastAttenuation \cup {"attenuation"}
PastSignatures  == PastTime \cup {"time"}
PastStructure   == PastSignatures \cup {"signatures"}
PastValidate    == PastStructure \cup {"structure"}
PastParse       == PastValidate \cup {"validate"}

\* The links a loop has seen: all of them once it is past.
Seen(ch, p, k, loop, past) ==
  IF p \in past THEN 1 .. Len(ch) ELSE IF p = loop THEN 1 .. (k - 1) ELSE {}

Joined(ch, i) ==
  i > 1 => /\ ch[i].claims.parent = ch[i - 1].raw
           /\ ch[i].claims.iss = ch[i - 1].claims.sub

ValidSoFar(ch, p) ==
  /\ p \in PastParse => Len(ch) > 0 /\ \A i \in 1 .. Len(ch) : ClaimsRead(ch[i])
  /\ p \in PastValidate => /\ \A i \in 1 .. Len(ch) : ValidClaims(ch[i].claims)
                          /\ ch[1].claims.parent = NoParent

LinkedSoFar(ch, p, k) ==
  \A i \in Seen(ch, p, k, "structure", PastStructure) :
    ch[i].claims.depth = i - 1 /\ Joined(ch, i)

SignedSoFar(ch, p, k) ==
  \A i \in Seen(ch, p, k, "signatures", PastSignatures) : VerifySignature(ch[i].claims.iss, ch[i])

TimelySoFar(ch, p, b) ==
  p \in PastTime =>
    \E t \in b.clock .. b.now : \A i \in 1 .. Len(ch) : CurrentAt(t, ch[i].claims)

NarrowsSoFar(ch, p, k) ==
  /\ \A i \in Seen(ch, p, k, "attenuation", PastAttenuation) :
       i > 1 => Attenuates(ch[i - 1].claims, ch[i].claims)
  /\ \A i, j \in Seen(ch, p, k, "attenuation", PastAttenuation) :
       i <= j => Bounds(ch[i].claims, ch[j].claims)

RootedSoFar(ch, p) ==
  p \in PastRoot => \A i \in 1 .. Len(ch) : ch[i].claims.root = ch[1].claims.root

LiveSoFar(ch, p, k, b) ==
  \A i \in Seen(ch, p, k, "revocation", PastRevocation) : ch[i].claims.jti \notin b.revoked

Checked(ch, p, k, b) ==
  /\ ValidSoFar(ch, p)
  /\ p \in {"structure", "attenuation"} => k >= 2
  /\ p \in {"structure", "attenuation", "signatures", "revocation"} => k <= Len(ch)
  /\ LinkedSoFar(ch, p, k)
  /\ SignedSoFar(ch, p, k)
  /\ TimelySoFar(ch, p, b)
  /\ NarrowsSoFar(ch, p, k)
  /\ RootedSoFar(ch, p)
  /\ LiveSoFar(ch, p, k, b)

\* The world when a call began, and the time until which it has taken.
Window(c) == [clock |-> began[c].clock, now |-> clock, revoked |-> began[c].revoked]

Inv(c) ==
  /\ pc[c] # "done" => verdict[c] = "none"
  /\ HasCause(c, verdict[c])
  /\ began[c].clock <= clock /\ began[c].revoked \subseteq revoked
  /\ Checked(chain[c], IF Accepted(c) THEN "ok" ELSE pc[c], at[c], Window(c))

IInv == TypeOK /\ \A c \in Call : Inv(c)

-----------------------------------------------------------------------------
(****************************************************************************)
(* The key ring and signatures.                                             *)
(****************************************************************************)
\* The key found is one that stands: it was added for this issuer and kid, and
\* is the last that was.
LEMMA KeyStands ==
  ASSUME NEW iss, NEW kid, KeyOf(iss, kid) # Nil
  PROVE  \E i \in DOMAIN Added : Stands(i, iss, kid) /\ KeyOf(iss, kid) = Added[i].key
<1>1. \E i \in DOMAIN Added : Stands(i, iss, kid)
  BY DEF KeyOf
<1>2. PICK i \in DOMAIN Added : /\ Stands(i, iss, kid)
                               /\ i = CHOOSE j \in DOMAIN Added : Stands(j, iss, kid)
  BY <1>1
<1> QED
  BY <1>1, <1>2 DEF KeyOf

\* There is at most one.
LEMMA KeyIsTheLast ==
  ASSUME NEW iss, NEW kid, NEW i \in DOMAIN Added, Stands(i, iss, kid)
  PROVE  KeyOf(iss, kid) = Added[i].key
<1>1. ASSUME NEW j \in DOMAIN Added, Stands(j, iss, kid) PROVE j = i
  <2>1. DOMAIN Added = 1 .. Len(Added) /\ Len(Added) \in Nat
    BY JoseAssumption
  <2>2. i \in Int /\ j \in Int /\ ~ (i > j) /\ ~ (j > i)
    BY <1>1, <2>1 DEF Stands
  <2> QED
    BY <2>2
<1>2. (CHOOSE j \in DOMAIN Added : Stands(j, iss, kid)) = i
  BY <1>1
<1> QED
  BY <1>2 DEF KeyOf

\* A signature that verifies for an issuer was made by that issuer, over the
\* bytes presented.
LEMMA VerifiedIsSigned ==
  ASSUME NEW iss, NEW a, VerifySignature(iss, a)
  PROVE  SignedBy(a, iss)
<1>1. PICK i \in DOMAIN Added : Stands(i, iss, a.header.kid) /\ a.signature.key = Added[i].key
  BY KeyStands DEF VerifySignature, Ed25519Verify
<1>2. Added[i].iss = iss /\ Holder[Added[i].key] = Added[i].iss
  BY <1>1, JoseAssumption DEF Stands, Taken
<1> QED
  BY <1>1, <1>2 DEF SignedBy, VerifySignature, Ed25519Verify

-----------------------------------------------------------------------------
(****************************************************************************)
(* From one check to the next.                                              *)
(****************************************************************************)
\* Nothing is established about a call that is refused or has not begun.
LEMMA NothingChecked ==
  ASSUME NEW ch, NEW k, NEW b, NEW p \in {"idle", "parse", "done"}
  PROVE  Checked(ch, p, k, b)
BY DEF Checked, ValidSoFar, LinkedSoFar, SignedSoFar, TimelySoFar, NarrowsSoFar, RootedSoFar,
       LiveSoFar, Seen, PastParse, PastValidate, PastStructure, PastSignatures, PastTime,
       PastAttenuation, PastRoot, PastDepth, PastRevocation

USE DEF PastParse, PastValidate, PastStructure, PastSignatures, PastTime, PastAttenuation, PastRoot,
        PastDepth, PastRevocation

LEMMA LinkType ==
  ASSUME NEW ch \in Seq(Assertion)
  PROVE  /\ Len(ch) \in Nat /\ DOMAIN ch = 1 .. Len(ch)
         /\ \A i \in 1 .. Len(ch) : /\ ch[i] \in Assertion
                                    /\ ch[i].claims \in Claims(Principal, Id)
<1>1. \A i \in 1 .. Len(ch) : ch[i] \in Assertion
  OBVIOUS
<1> QED
  BY <1>1 DEF Assertion

LEMMA ParseChecked ==
  ASSUME NEW ch \in Seq(Assertion), NEW b, Len(ch) > 0, \A i \in 1 .. Len(ch) : ClaimsRead(ch[i])
  PROVE  Checked(ch, "validate", 1, b)
BY DEF Checked, ValidSoFar, LinkedSoFar, SignedSoFar, TimelySoFar, NarrowsSoFar, RootedSoFar,
       LiveSoFar, Seen

LEMMA ValidateChecked ==
  ASSUME NEW ch \in Seq(Assertion), NEW b, NEW k, Checked(ch, "validate", k, b),
         \A i \in 1 .. Len(ch) : ValidClaims(ch[i].claims),
         ch[1].claims.depth = 0, ch[1].claims.parent = NoParent
  PROVE  /\ Len(ch) > 1 => Checked(ch, "structure", 2, b)
         /\ Len(ch) <= 1 => Checked(ch, "signatures", 1, b)
<1>1. Len(ch) \in Nat /\ Len(ch) > 0
  BY DEF Checked, ValidSoFar
<1>2. 1 .. (2 - 1) = {1} /\ 1 .. (1 - 1) = {} /\ (Len(ch) <= 1 => 1 .. Len(ch) = {1})
  BY <1>1
<1>3. ch[1].claims.depth = 1 - 1 /\ Joined(ch, 1)
  BY DEF Joined
<1> QED
  BY <1>1, <1>2, <1>3
  DEF Checked, ValidSoFar, LinkedSoFar, SignedSoFar, TimelySoFar, NarrowsSoFar, RootedSoFar,
      LiveSoFar, Seen

LEMMA StructureChecked ==
  ASSUME NEW ch \in Seq(Assertion), NEW b, NEW k \in Nat, Checked(ch, "structure", k, b),
         Joined(ch, k), ch[k].claims.depth = ch[k - 1].claims.depth + 1
  PROVE  /\ k < Len(ch) => Checked(ch, "structure", k + 1, b)
         /\ k >= Len(ch) => Checked(ch, "signatures", 1, b)
<1>1. Len(ch) \in Nat /\ k >= 2 /\ k <= Len(ch)
  BY DEF Checked
<1>2. \A i \in 1 .. k : ch[i].claims.depth = i - 1 /\ Joined(ch, i)
  <2>1. \A i \in 1 .. (k - 1) : ch[i].claims.depth = i - 1 /\ Joined(ch, i)
    BY DEF Checked, LinkedSoFar, Seen
  <2>2. ch[k].claims.depth = k - 1
    BY <1>1, <2>1
  <2> QED
    BY <2>1, <2>2
<1>3. 1 .. ((k + 1) - 1) = 1 .. k /\ 1 .. (1 - 1) = {}
  BY <1>1
<1>4. ValidSoFar(ch, "structure")
  BY DEF Checked
<1>5. CASE k < Len(ch)
  <2>1. LinkedSoFar(ch, "structure", k + 1)
    BY <1>2, <1>3, <1>5 DEF LinkedSoFar, Seen
  <2>2. /\ ValidSoFar(ch, "structure") /\ SignedSoFar(ch, "structure", k + 1) /\ TimelySoFar(ch, "structure", b)
        /\ NarrowsSoFar(ch, "structure", k + 1) /\ RootedSoFar(ch, "structure") /\ LiveSoFar(ch, "structure", k + 1, b)
    BY <1>2, <1>3, <1>5 DEF Checked, ValidSoFar, SignedSoFar, TimelySoFar, NarrowsSoFar, RootedSoFar,
           LiveSoFar, Seen
  <2> QED
    BY <1>1, <1>5, <2>1, <2>2 DEF Checked
<1>6. CASE k >= Len(ch)
  <2>1. LinkedSoFar(ch, "signatures", 1)
    BY <1>1, <1>2, <1>3, <1>4, <1>6 DEF LinkedSoFar, Seen
  <2>2. /\ ValidSoFar(ch, "signatures") /\ SignedSoFar(ch, "signatures", 1) /\ TimelySoFar(ch, "signatures", b)
        /\ NarrowsSoFar(ch, "signatures", 1) /\ RootedSoFar(ch, "signatures") /\ LiveSoFar(ch, "signatures", 1, b)
    BY <1>1, <1>2, <1>3, <1>4, <1>6 DEF Checked, ValidSoFar, SignedSoFar, TimelySoFar, NarrowsSoFar, RootedSoFar,
           LiveSoFar, Seen
  <2> QED
    BY <1>1, <1>6, <2>1, <2>2 DEF Checked
<1> QED
  BY <1>1, <1>5, <1>6

LEMMA SignatureChecked ==
  ASSUME NEW ch \in Seq(Assertion), NEW b, NEW k \in Nat \ {0}, Checked(ch, "signatures", k, b),
         VerifySignature(ch[k].claims.iss, ch[k])
  PROVE  /\ k < Len(ch) => Checked(ch, "signatures", k + 1, b)
         /\ k >= Len(ch) => Checked(ch, "time", 1, b)
<1>1. Len(ch) \in Nat /\ k <= Len(ch)
  BY DEF Checked
<1>2. \A i \in 1 .. k : VerifySignature(ch[i].claims.iss, ch[i])
  <2>1. \A i \in 1 .. (k - 1) : VerifySignature(ch[i].claims.iss, ch[i])
    BY DEF Checked, SignedSoFar, Seen
  <2> QED
    BY <2>1
<1>3. 1 .. ((k + 1) - 1) = 1 .. k
  BY <1>1
<1>4. CASE k < Len(ch)
  <2>1. SignedSoFar(ch, "signatures", k + 1)
    BY <1>2, <1>3, <1>4 DEF SignedSoFar, Seen
  <2>2. /\ ValidSoFar(ch, "signatures") /\ LinkedSoFar(ch, "signatures", k + 1) /\ TimelySoFar(ch, "signatures", b)
        /\ NarrowsSoFar(ch, "signatures", k + 1) /\ RootedSoFar(ch, "signatures") /\ LiveSoFar(ch, "signatures", k + 1, b)
    BY <1>2, <1>3, <1>4 DEF Checked, ValidSoFar, LinkedSoFar, TimelySoFar, NarrowsSoFar, RootedSoFar,
           LiveSoFar, Seen
  <2> QED
    BY <1>1, <1>4, <2>1, <2>2 DEF Checked
<1>5. CASE k >= Len(ch)
  <2>1. SignedSoFar(ch, "time", 1)
    BY <1>1, <1>2, <1>5 DEF SignedSoFar, Seen
  <2>2. /\ ValidSoFar(ch, "time") /\ LinkedSoFar(ch, "time", 1) /\ TimelySoFar(ch, "time", b)
        /\ NarrowsSoFar(ch, "time", 1) /\ RootedSoFar(ch, "time") /\ LiveSoFar(ch, "time", 1, b)
    BY <1>1, <1>2, <1>5 DEF Checked, ValidSoFar, LinkedSoFar, TimelySoFar, NarrowsSoFar, RootedSoFar,
           LiveSoFar, Seen
  <2> QED
    BY <1>1, <1>5, <2>1, <2>2 DEF Checked
<1> QED
  BY <1>1, <1>4, <1>5

LEMMA TimeChecked ==
  ASSUME NEW ch \in Seq(Assertion), NEW b, NEW k, Checked(ch, "time", k, b),
         \E t \in b.clock .. b.now : \A i \in 1 .. Len(ch) : CurrentAt(t, ch[i].claims)
  PROVE  /\ Len(ch) > 1 => Checked(ch, "attenuation", 2, b)
         /\ Len(ch) <= 1 => Checked(ch, "root", 1, b)
<1>1. Len(ch) \in Nat /\ Len(ch) > 0 /\ ValidClaims(ch[1].claims)
  BY DEF Checked, ValidSoFar
<1>2. Bounds(ch[1].claims, ch[1].claims)
  BY <1>1, LinkType, BoundsReflexive
<1>3. 1 .. (2 - 1) = {1} /\ (Len(ch) <= 1 => 1 .. Len(ch) = {1})
  BY <1>1
<1> QED
  BY <1>1, <1>2, <1>3
  DEF Checked, ValidSoFar, LinkedSoFar, SignedSoFar, TimelySoFar, NarrowsSoFar, RootedSoFar,
      LiveSoFar, Seen

\* The step that carries attenuation from neighbours to all pairs.
LEMMA AttenuationChecked ==
  ASSUME NEW ch \in Seq(Assertion), NEW b, NEW k \in Nat, Checked(ch, "attenuation", k, b),
         Attenuates(ch[k - 1].claims, ch[k].claims)
  PROVE  /\ k < Len(ch) => Checked(ch, "attenuation", k + 1, b)
         /\ k >= Len(ch) => Checked(ch, "root", 1, b)
<1>1. Len(ch) \in Nat /\ k >= 2 /\ k <= Len(ch)
  BY DEF Checked
<1>2. \A i \in 1 .. Len(ch) : ValidClaims(ch[i].claims) /\ ch[i].claims.depth = i - 1
  BY DEF Checked, ValidSoFar, LinkedSoFar, Seen
<1>3. \A i, j \in 1 .. (k - 1) : i <= j => Bounds(ch[i].claims, ch[j].claims)
  BY DEF Checked, NarrowsSoFar, Seen
<1>4. ASSUME NEW i \in 1 .. k PROVE Bounds(ch[i].claims, ch[k].claims)
  <2>1. CASE i = k
    BY <1>1, <1>2, <2>1, LinkType, BoundsReflexive
  <2>2. CASE i # k
    <3>1. i \in 1 .. (k - 1) /\ k - 1 \in 1 .. (k - 1) /\ i <= k - 1
      BY <1>1, <2>2
    <3>2. Bounds(ch[i].claims, ch[k - 1].claims)
      BY <1>3, <3>1
    <3>3. i \in 1 .. Len(ch) /\ k - 1 \in 1 .. Len(ch) /\ k \in 1 .. Len(ch)
      BY <1>1
    <3>4. ch[k].claims.depth = ch[k - 1].claims.depth + 1
      BY <1>1, <1>2, <3>3
    <3> QED
      BY <1>2, <3>2, <3>3, <3>4, LinkType, BoundsAttenuates
  <2> QED
    BY <2>1, <2>2
<1>5. \A i, j \in 1 .. k : i <= j => Bounds(ch[i].claims, ch[j].claims)
  <2> SUFFICES ASSUME NEW i \in 1 .. k, NEW j \in 1 .. k, i <= j
               PROVE  Bounds(ch[i].claims, ch[j].claims)
    OBVIOUS
  <2>1. CASE j = k
    BY <1>4, <2>1
  <2>2. CASE j # k
    <3>1. i \in 1 .. (k - 1) /\ j \in 1 .. (k - 1)
      BY <2>2
    <3> QED
      BY <1>3, <3>1
  <2> QED
    BY <2>1, <2>2
<1>6. /\ 1 .. ((k + 1) - 1) = 1 .. k /\ (k >= Len(ch) => 1 .. Len(ch) = 1 .. k)
      /\ \A i \in 1 .. k : i > 1 => Attenuates(ch[i - 1].claims, ch[i].claims)
  <2>1. 1 .. ((k + 1) - 1) = 1 .. k /\ (k >= Len(ch) => 1 .. Len(ch) = 1 .. k)
    BY <1>1
  <2>2. \A i \in 1 .. (k - 1) : i > 1 => Attenuates(ch[i - 1].claims, ch[i].claims)
    BY DEF Checked, NarrowsSoFar, Seen
  <2>3. \A i \in 1 .. k : i \in 1 .. (k - 1) \/ i = k
    OBVIOUS
  <2> QED
    BY <2>1, <2>2, <2>3
<1>7. CASE k < Len(ch)
  <2>1. NarrowsSoFar(ch, "attenuation", k + 1)
    BY <1>1, <1>5, <1>6, <1>7 DEF NarrowsSoFar, Seen
  <2>2. /\ ValidSoFar(ch, "attenuation") /\ LinkedSoFar(ch, "attenuation", k + 1) /\ SignedSoFar(ch, "attenuation", k + 1)
        /\ TimelySoFar(ch, "attenuation", b) /\ RootedSoFar(ch, "attenuation") /\ LiveSoFar(ch, "attenuation", k + 1, b)
    BY <1>1, <1>7 DEF Checked, ValidSoFar, LinkedSoFar, SignedSoFar, TimelySoFar, RootedSoFar,
           LiveSoFar, Seen
  <2> QED
    BY <1>1, <1>7, <2>1, <2>2 DEF Checked
<1>8. CASE k >= Len(ch)
  <2>1. NarrowsSoFar(ch, "root", 1)
    BY <1>1, <1>5, <1>6, <1>8 DEF NarrowsSoFar, Seen
  <2>2. /\ ValidSoFar(ch, "root") /\ LinkedSoFar(ch, "root", 1) /\ SignedSoFar(ch, "root", 1)
        /\ TimelySoFar(ch, "root", b) /\ RootedSoFar(ch, "root") /\ LiveSoFar(ch, "root", 1, b)
    BY <1>1, <1>8 DEF Checked, ValidSoFar, LinkedSoFar, SignedSoFar, TimelySoFar, RootedSoFar,
           LiveSoFar, Seen
  <2> QED
    BY <1>1, <1>8, <2>1, <2>2 DEF Checked
<1> QED
  BY <1>1, <1>7, <1>8

LEMMA RootChecked ==
  ASSUME NEW ch \in Seq(Assertion), NEW b, NEW k, Checked(ch, "root", k, b),
         \A i \in 1 .. Len(ch) : ch[i].claims.root = ch[1].claims.root
  PROVE  Checked(ch, "depth", 1, b)
BY DEF Checked, ValidSoFar, LinkedSoFar, SignedSoFar, TimelySoFar, NarrowsSoFar, RootedSoFar,
       LiveSoFar, Seen

\* V5 bounded the last link's depth by the sponsor's limit.
LEMMA DepthFollows ==
  ASSUME NEW ch \in Seq(Assertion), NEW b, NEW k, NEW p \in PastAttenuation, Checked(ch, p, k, b)
  PROVE  Len(ch) - 1 <= ch[1].claims.maxDepth
<1>1. Len(ch) \in Nat /\ Len(ch) > 0
  BY LinkType DEF Checked, ValidSoFar
<1>2. \A i \in 1 .. Len(ch) : ValidClaims(ch[i].claims) /\ ch[i].claims.depth = i - 1
  BY DEF Checked, ValidSoFar, LinkedSoFar, Seen
<1>3. Bounds(ch[1].claims, ch[Len(ch)].claims)
  <2>1. 1 \in 1 .. Len(ch) /\ Len(ch) \in 1 .. Len(ch) /\ 1 <= Len(ch)
    BY <1>1
  <2> QED
    BY <2>1 DEF Checked, NarrowsSoFar, Seen
<1>4. /\ ch[Len(ch)].claims.maxDepth \in Int /\ ch[Len(ch)].claims.maxDepth >= 0
      /\ ch[1].claims.maxDepth \in Int
  BY <1>1, <1>2, LinkType, ClaimsType
<1> QED
  BY <1>1, <1>2, <1>3, <1>4 DEF Bounds

LEMMA DepthChecked ==
  ASSUME NEW ch \in Seq(Assertion), NEW b, NEW k, Checked(ch, "depth", k, b)
  PROVE  Checked(ch, "revocation", 1, b)
<1>1. Len(ch) \in Nat /\ 1 <= Len(ch) /\ 1 .. (1 - 1) = {}
  BY LinkType DEF Checked, ValidSoFar
<1> QED
  BY <1>1
  DEF Checked, ValidSoFar, LinkedSoFar, SignedSoFar, TimelySoFar, NarrowsSoFar, RootedSoFar,
      LiveSoFar, Seen

LEMMA RevocationChecked ==
  ASSUME NEW ch \in Seq(Assertion), NEW b, NEW k \in Nat \ {0}, Checked(ch, "revocation", k, b),
         ch[k].claims.jti \notin b.revoked
  PROVE  /\ k < Len(ch) => Checked(ch, "revocation", k + 1, b)
         /\ k >= Len(ch) => Checked(ch, "audience", 1, b)
<1>1. Len(ch) \in Nat /\ k <= Len(ch)
  BY DEF Checked
<1>2. \A i \in 1 .. k : ch[i].claims.jti \notin b.revoked
  <2>1. \A i \in 1 .. (k - 1) : ch[i].claims.jti \notin b.revoked
    BY DEF Checked, LiveSoFar, Seen
  <2> QED
    BY <2>1
<1>3. 1 .. ((k + 1) - 1) = 1 .. k
  BY <1>1
<1>4. CASE k < Len(ch)
  <2>1. LiveSoFar(ch, "revocation", k + 1, b)
    BY <1>2, <1>3, <1>4 DEF LiveSoFar, Seen
  <2>2. /\ ValidSoFar(ch, "revocation") /\ LinkedSoFar(ch, "revocation", k + 1) /\ SignedSoFar(ch, "revocation", k + 1)
        /\ TimelySoFar(ch, "revocation", b) /\ NarrowsSoFar(ch, "revocation", k + 1) /\ RootedSoFar(ch, "revocation")
    BY <1>2, <1>3, <1>4 DEF Checked, ValidSoFar, LinkedSoFar, SignedSoFar, TimelySoFar, NarrowsSoFar,
           RootedSoFar, Seen
  <2> QED
    BY <1>1, <1>4, <2>1, <2>2 DEF Checked
<1>5. CASE k >= Len(ch)
  <2>1. LiveSoFar(ch, "audience", 1, b)
    BY <1>1, <1>2, <1>5 DEF LiveSoFar, Seen
  <2>2. /\ ValidSoFar(ch, "audience") /\ LinkedSoFar(ch, "audience", 1) /\ SignedSoFar(ch, "audience", 1)
        /\ TimelySoFar(ch, "audience", b) /\ NarrowsSoFar(ch, "audience", 1) /\ RootedSoFar(ch, "audience")
    BY <1>1, <1>2, <1>5 DEF Checked, ValidSoFar, LinkedSoFar, SignedSoFar, TimelySoFar, NarrowsSoFar,
           RootedSoFar, Seen
  <2> QED
    BY <1>1, <1>5, <2>1, <2>2 DEF Checked
<1> QED
  BY <1>1, <1>4, <1>5

LEMMA AudienceChecked ==
  ASSUME NEW ch \in Seq(Assertion), NEW b, NEW k, Checked(ch, "audience", k, b), NEW j
  PROVE  Checked(ch, "ok", j, b)
BY DEF Checked, ValidSoFar, LinkedSoFar, SignedSoFar, TimelySoFar, NarrowsSoFar, RootedSoFar,
       LiveSoFar, Seen

-----------------------------------------------------------------------------
(****************************************************************************)
(* The invariant is inductive.                                              *)
(****************************************************************************)
LEMMA InitInv == Init => IInv
<1> SUFFICES ASSUME Init PROVE IInv
  OBVIOUS
<1>1. TypeOK
  <2>1. << >> \in Seq(Assertion)
    OBVIOUS
  <2> QED
    BY <2>1 DEF Init, TypeOK, Looping
<1>2. ASSUME NEW c \in Call PROVE Inv(c)
  <2>1. Checked(chain[c], "idle", at[c], Window(c))
    BY NothingChecked
  <2> QED
    BY <2>1 DEF Init, Inv, Accepted, HasCause
<1> QED
  BY <1>1, <1>2 DEF IInv

\* What is established stays so as time passes.
LEMMA TimePasses ==
  ASSUME NEW ch, NEW p, NEW k, NEW b, NEW later, Checked(ch, p, k, b),
         b.clock \in Nat, b.now \in Nat, later.now \in Nat, b.now <= later.now,
         later.clock = b.clock, later.revoked = b.revoked
  PROVE  Checked(ch, p, k, later)
<1>1. b.clock .. b.now \subseteq later.clock .. later.now
  OBVIOUS
<1>2. TimelySoFar(ch, p, later) /\ LiveSoFar(ch, p, k, later)
  BY <1>1 DEF Checked, TimelySoFar, LiveSoFar
<1> QED
  BY <1>2 DEF Checked

\* A call that does not move keeps what it has established.
LEMMA Kept ==
  ASSUME NEW c \in Call, Inv(c), clock \in Nat, clock' \in Nat, clock <= clock',
         began[c].clock \in Nat, revoked \subseteq revoked',
         pc'[c] = pc[c], chain'[c] = chain[c], at'[c] = at[c], verdict'[c] = verdict[c],
         began'[c] = began[c]
  PROVE  Inv(c)'
<1>1. HasCause(c, verdict[c])'
  <2>1. ~ CurrentThroughout(c) => ~ CurrentThroughout(c)'
    BY DEF CurrentThroughout, CurrentAt, Links, Link
  <2> QED
    BY <2>1 DEF Inv, HasCause, WellFormed, Descends, Signed, StepsDown, OneSponsor, Leaf, Committed, Custody,
                Links, Link
<1>2. Checked(chain[c], IF Accepted(c) THEN "ok" ELSE pc[c], at[c], Window(c)')
  BY TimePasses DEF Inv, Window
<1> QED
  BY <1>1, <1>2 DEF Inv, Accepted

\* What moving one call does to the others, and to its own invariant.
LEMMA MoveInv ==
  ASSUME IInv, TypeOK', NEW c \in Call, UNCHANGED world,
         \A d \in Call \ {c} : /\ pc'[d] = pc[d] /\ chain'[d] = chain[d] /\ at'[d] = at[d]
                               /\ verdict'[d] = verdict[d] /\ began'[d] = began[d],
         Inv(c)'
  PROVE  IInv'
<1>1. ASSUME NEW d \in Call, d # c PROVE Inv(d)'
  <2>1. clock \in Nat /\ began[d].clock \in Nat
    BY DEF IInv, TypeOK
  <2> QED
    BY <1>1, <2>1, Kept DEF IInv, world
<1> QED
  BY <1>1 DEF IInv

Checks == {"idle", "parse", "validate", "time", "root", "depth", "audience", "done"} \cup Looping

LEMMA GoToInv ==
  ASSUME IInv, NEW c \in Call, pc[c] # "done", NEW p \in Checks \ {"done"}, NEW k \in Nat \ {0},
         GoTo(c, p, k), UNCHANGED world, Checked(chain[c], p, k, Window(c))
  PROVE  IInv'
<1>1. verdict[c] = "none" /\ began[c].clock <= clock /\ began[c].revoked \subseteq revoked
  BY DEF IInv, Inv
<1>2. Inv(c)'
  <2>1. /\ pc'[c] = p /\ at'[c] = k /\ verdict'[c] = verdict[c] /\ chain'[c] = chain[c]
        /\ began'[c] = began[c] /\ clock' = clock /\ revoked' = revoked
    BY DEF GoTo, IInv, TypeOK, world
  <2>2. Window(c)' = Window(c)
    BY <2>1 DEF Window
  <2> QED
    BY <1>1, <2>1, <2>2 DEF Inv, Accepted, HasCause
<1>3. TypeOK'
  <2>1. p \in Looping => k <= Len(chain[c])
    BY DEF Checked, Looping
  <2> QED
    BY <2>1 DEF GoTo, IInv, TypeOK, Checks, world, Looping
<1> QED
  BY <1>2, <1>3, MoveInv DEF GoTo, IInv, TypeOK

LEMMA ConcludeInv ==
  ASSUME IInv, NEW c \in Call, NEW v \in {"ok", "V1", "V2", "V3", "V4", "V5", "V6", "V8", "V9"},
         Conclude(c, v), UNCHANGED world, pc[c] # "done",
         HasCause(c, v), v = "ok" => Checked(chain[c], "ok", at[c], Window(c))
  PROVE  IInv'
<1>1. began[c].clock <= clock /\ began[c].revoked \subseteq revoked
  BY DEF IInv, Inv
<1>2. /\ pc'[c] = "done" /\ at'[c] = at[c] /\ verdict'[c] = v /\ chain'[c] = chain[c]
      /\ began'[c] = began[c] /\ clock' = clock /\ revoked' = revoked
  BY DEF Conclude, IInv, TypeOK, world
<1>3. Inv(c)'
  <2>1. HasCause(c, verdict[c])'
    BY <1>2 DEF HasCause, WellFormed, Descends, Signed, StepsDown, OneSponsor, CurrentThroughout, CurrentAt,
                Leaf, Committed, Custody, Links, Link
  <2>2. Window(c)' = Window(c)
    BY <1>2 DEF Window
  <2> QED
    BY <1>1, <1>2, <2>1, <2>2, NothingChecked DEF Inv, Accepted
<1>4. TypeOK'
  BY DEF Conclude, IInv, TypeOK, world, Looping
<1> QED
  BY <1>3, <1>4, MoveInv DEF Conclude, IInv, TypeOK

\* The state of one call before a step.
LEMMA CallState ==
  ASSUME IInv, NEW c \in Call, pc[c] # "done"
  PROVE  /\ chain[c] \in Seq(Assertion) /\ Len(chain[c]) \in Nat
         /\ Links(c) = 1 .. Len(chain[c])
         /\ at[c] \in Nat \ {0}
         /\ Checked(chain[c], pc[c], at[c], Window(c))
BY LinkType DEF IInv, TypeOK, Inv, Accepted, Links

\* What the checks before this one leave to refuse the chain for.
LEMMA SoFar ==
  ASSUME NEW c \in Call, NEW p, NEW k, chain[c] \in Seq(Assertion),
         Checked(chain[c], p, k, Window(c))
  PROVE  /\ p \in PastStructure => WellFormed(c) /\ Descends(c)
         /\ p \in PastSignatures => Signed(c)
         /\ p \in PastAttenuation => StepsDown(c)
         /\ p \in PastRoot => OneSponsor(c)
<1>1. /\ Len(chain[c]) \in Nat /\ Links(c) = 1 .. Len(chain[c])
      /\ \A i \in Links(c) \ {1} : i \in 1 .. Len(chain[c]) /\ i > 1 /\ i - 1 \in 1 .. Len(chain[c])
  BY LinkType DEF Links
<1>2. ASSUME p \in PastStructure PROVE WellFormed(c) /\ Descends(c)
  <2>1. /\ Len(chain[c]) > 0 /\ chain[c] # << >>
        /\ \A i \in 1 .. Len(chain[c]) : ClaimsRead(chain[c][i]) /\ ValidClaims(chain[c][i].claims)
        /\ chain[c][1].claims.parent = NoParent
    BY <1>1, <1>2 DEF Checked, ValidSoFar
  <2>2. \A i \in 1 .. Len(chain[c]) : chain[c][i].claims.depth = i - 1 /\ Joined(chain[c], i)
    BY <1>2 DEF Checked, LinkedSoFar, Seen
  <2>3. chain[c][1].claims.depth = 0
    BY <1>1, <2>1, <2>2
  <2>4. ASSUME NEW i \in Links(c) \ {1} PROVE Committed(c, i) /\ Custody(c, i)
    BY <1>1, <2>2 DEF Committed, Custody, Joined, Link
  <2> QED
    BY <1>1, <2>1, <2>3, <2>4 DEF WellFormed, Descends, Link
<1>3. p \in PastSignatures => Signed(c)
  BY <1>1 DEF Checked, SignedSoFar, Seen, Signed, Link
<1>4. p \in PastAttenuation => StepsDown(c)
  BY <1>1 DEF Checked, NarrowsSoFar, Seen, StepsDown, Link
<1>5. p \in PastRoot => OneSponsor(c)
  BY <1>1 DEF Checked, RootedSoFar, OneSponsor, Link
<1> QED
  BY <1>2, <1>3, <1>4, <1>5

LEMMA CheckInv ==
  ASSUME IInv, NEW c \in Call, Check(c)
  PROVE  IInv'
<1>0. /\ pc[c] # "done"
      /\ UNCHANGED world
  BY DEF Check, Parse, Validate, Structure, CheckSignature, Time, Attenuation, Root, Depth, Revocation,
         AddressedTo, world
<1>1. /\ chain[c] \in Seq(Assertion) /\ Len(chain[c]) \in Nat
      /\ Links(c) = 1 .. Len(chain[c]) /\ DOMAIN chain[c] = 1 .. Len(chain[c])
      /\ at[c] \in Nat \ {0} /\ at[c] + 1 \in Nat \ {0}
      /\ Checked(chain[c], pc[c], at[c], Window(c))
  BY <1>0, CallState DEF Links
<1>2. CASE Parse(c)
  <2>1. CASE /\ GoTo(c, "validate", 1) /\ chain[c] # << >>
             /\ \A i \in DOMAIN chain[c] : ClaimsRead(chain[c][i])
    <3>1. Len(chain[c]) > 0 /\ \A i \in 1 .. Len(chain[c]) : ClaimsRead(chain[c][i])
      BY <1>1, <2>1
    <3>2. Checked(chain[c], "validate", 1, Window(c))
      BY <1>1, <3>1, ParseChecked
    <3>3. "validate" \in Checks \ {"done"} /\ 1 \in Nat \ {0}
      BY DEF Checks
    <3> QED
      BY <1>0, <2>1, <3>2, <3>3, GoToInv
  <2>2. ASSUME NEW v \in {"V1", "V3"}, Conclude(c, v), ~ WellFormed(c) PROVE IInv'
    <3>1. HasCause(c, v)
      BY <2>2 DEF HasCause
    <3> QED
      BY <1>0, <2>2, <3>1, ConcludeInv
  <2>3. chain[c] = << >> \/ (\E i \in DOMAIN chain[c] : ~ ClaimsRead(chain[c][i])) => ~ WellFormed(c)
    BY DEF WellFormed, Links
  <2> QED
    BY <1>2, <2>1, <2>2, <2>3 DEF Parse, Unreadable
<1>3. CASE Validate(c)
  <2>1. CASE Conclude(c, "V1")
    <3>1. pc[c] = "validate" /\ pc'[c] = "done"
      BY <1>3, <2>1 DEF Validate, Conclude, IInv, TypeOK
    <3>2. ~ WellFormed(c)
      BY <1>3, <3>1 DEF Validate, GoTo, WellFormed, Links, IInv, TypeOK
    <3> QED
      BY <1>0, <2>1, <3>2, ConcludeInv DEF HasCause
  <2>2. CASE ~ Conclude(c, "V1")
    <3>1. /\ \A i \in 1 .. Len(chain[c]) : ValidClaims(chain[c][i].claims)
          /\ chain[c][1].claims.depth = 0 /\ chain[c][1].claims.parent = NoParent
          /\ Checked(chain[c], "validate", at[c], Window(c))
      BY <1>1, <1>3, <2>2 DEF Validate, Link
    <3> QED
      BY <1>0, <1>1, <1>3, <2>2, <3>1, ValidateChecked, GoToInv DEF Validate, Checks, Looping
  <2> QED
    BY <2>1, <2>2
<1>4. CASE Structure(c)
  <2>1. CASE Conclude(c, "V1") \/ Conclude(c, "V2")
    <3>1. /\ pc[c] = "structure" /\ pc'[c] = "done" /\ at[c] \in Links(c) \ {1}
          /\ verdict'[c] = "V1" \/ verdict'[c] = "V2"
      BY <1>1, <1>4, <2>1 DEF Structure, Conclude, IInv, TypeOK, Checked
    <3>2. \/ Conclude(c, "V1") /\ ~ Committed(c, at[c])
          \/ Conclude(c, "V2") /\ ~ Custody(c, at[c])
      BY <1>4, <3>1 DEF Structure, NextLink, GoTo, IInv, TypeOK
    <3>3. ASSUME NEW v \in {"V1", "V2"}, Conclude(c, v), HasCause(c, v) PROVE IInv'
      BY <1>0, <3>3, ConcludeInv
    <3> QED
      BY <3>1, <3>2, <3>3 DEF HasCause, WellFormed, Descends
  <2>2. CASE ~ (Conclude(c, "V1") \/ Conclude(c, "V2"))
    <3>1. /\ Joined(chain[c], at[c])
          /\ chain[c][at[c]].claims.depth = chain[c][at[c] - 1].claims.depth + 1
          /\ Checked(chain[c], "structure", at[c], Window(c))
          /\ pc[c] = "structure" /\ NextLink(c, "signatures", 1)
      BY <1>1, <1>4, <2>2 DEF Structure, Committed, Custody, Joined, Link
    <3>2. CASE at[c] < Len(chain[c])
      <4>1. GoTo(c, "structure", at[c] + 1) /\ Checked(chain[c], "structure", at[c] + 1, Window(c))
        BY <1>1, <3>1, <3>2, StructureChecked DEF NextLink
      <4> QED
        BY <1>0, <1>1, <4>1, GoToInv DEF Checks, Looping
    <3>3. CASE ~ (at[c] < Len(chain[c]))
      <4>1. GoTo(c, "signatures", 1) /\ Checked(chain[c], "signatures", 1, Window(c))
        BY <1>1, <3>1, <3>3, StructureChecked DEF NextLink
      <4> QED
        BY <1>0, <4>1, GoToInv DEF Checks, Looping
    <3> QED
      BY <3>2, <3>3
  <2> QED
    BY <2>1, <2>2
<1>5. CASE CheckSignature(c)
  <2>1. CASE Conclude(c, "V3")
    BY <1>0, <2>1, ConcludeInv DEF HasCause
  <2>2. CASE ~ Conclude(c, "V3")
    <3>1. /\ VerifySignature(chain[c][at[c]].claims.iss, chain[c][at[c]])
          /\ Checked(chain[c], "signatures", at[c], Window(c))
          /\ pc[c] = "signatures" /\ NextLink(c, "time", 1)
      BY <1>1, <1>5, <2>2 DEF CheckSignature, Link
    <3> QED
      BY <1>0, <1>1, <3>1, SignatureChecked, GoToInv DEF NextLink, Checks, Looping
  <2> QED
    BY <2>1, <2>2
<1>6. CASE Time(c)
  <2>1. CASE Conclude(c, "V4")
    <3>1. pc[c] = "time" /\ pc'[c] = "done" /\ Checked(chain[c], "time", at[c], Window(c))
      BY <1>1, <1>6, <2>1 DEF Time, Conclude, IInv, TypeOK
    <3>2. PICK i \in Links(c) : ~ CurrentAt(clock, Link(c, i))
      BY <1>6, <3>1 DEF Time, TimeIsGood, GoTo, Links, IInv, TypeOK
    <3>3. clock \in began[c].clock .. clock
      BY DEF IInv, TypeOK, Inv
    <3>4. HasCause(c, "V4")
      BY <1>1, <3>1, <3>2, <3>3, SoFar DEF HasCause, CurrentThroughout
    <3> QED
      BY <1>0, <2>1, <3>4, ConcludeInv
  <2>2. CASE ~ Conclude(c, "V4")
    <3>1. \A i \in 1 .. Len(chain[c]) : CurrentAt(clock, chain[c][i].claims)
      BY <1>1, <1>6, <2>2 DEF Time, Link
    <3>2. clock \in Window(c).clock .. Window(c).now
      <4>1. clock \in Nat /\ began[c].clock \in Nat /\ began[c].clock <= clock
        BY DEF IInv, TypeOK, Inv
      <4> QED
        BY <4>1 DEF Window
    <3>3. \E t \in Window(c).clock .. Window(c).now :
             \A i \in 1 .. Len(chain[c]) : CurrentAt(t, chain[c][i].claims)
      BY <3>1, <3>2
    <3>4. Checked(chain[c], "time", at[c], Window(c)) /\ TimeIsGood(c)
      BY <1>1, <1>6, <2>2 DEF Time
    <3> QED
      BY <1>0, <1>1, <3>3, <3>4, TimeChecked, GoToInv DEF TimeIsGood, Checks, Looping
  <2> QED
    BY <2>1, <2>2
<1>7. CASE Attenuation(c)
  <2>1. CASE Conclude(c, "V5")
    <3>1. pc[c] = "attenuation" /\ pc'[c] = "done" /\ Checked(chain[c], "attenuation", at[c], Window(c))
      BY <1>1, <1>7, <2>1 DEF Attenuation, Conclude, IInv, TypeOK
    <3>2. ~ Attenuates(Link(c, at[c] - 1), Link(c, at[c]))
      BY <1>7, <3>1 DEF Attenuation, NextLink, GoTo, IInv, TypeOK
    <3>3. at[c] \in Links(c) \ {1}
      BY <1>1, <3>1 DEF Checked
    <3>4. HasCause(c, "V5")
      BY <1>1, <3>1, <3>2, <3>3, SoFar DEF HasCause, StepsDown
    <3> QED
      BY <1>0, <2>1, <3>4, ConcludeInv
  <2>2. CASE ~ Conclude(c, "V5")
    <3>1. /\ Attenuates(chain[c][at[c] - 1].claims, chain[c][at[c]].claims)
          /\ Checked(chain[c], "attenuation", at[c], Window(c))
          /\ pc[c] = "attenuation" /\ NextLink(c, "root", 1)
      BY <1>1, <1>7, <2>2 DEF Attenuation, Link
    <3>2. CASE at[c] < Len(chain[c])
      <4>1. Checked(chain[c], "attenuation", at[c] + 1, Window(c)) /\ GoTo(c, "attenuation", at[c] + 1)
        BY <1>1, <3>1, <3>2, AttenuationChecked DEF NextLink
      <4>2. "attenuation" \in Checks \ {"done"}
        BY DEF Checks, Looping
      <4> QED
        BY <1>0, <1>1, <4>1, <4>2, GoToInv
    <3>3. CASE ~ (at[c] < Len(chain[c]))
      <4>1. Checked(chain[c], "root", 1, Window(c)) /\ GoTo(c, "root", 1)
        BY <1>1, <3>1, <3>3, AttenuationChecked DEF NextLink
      <4>2. "root" \in Checks \ {"done"} /\ 1 \in Nat \ {0}
        BY DEF Checks
      <4> QED
        BY <1>0, <4>1, <4>2, GoToInv
    <3> QED
      BY <3>2, <3>3
  <2> QED
    BY <2>1, <2>2
<1>8. CASE Root(c)
  <2>1. CASE Conclude(c, "V6")
    <3>1. pc[c] = "root" /\ pc'[c] = "done" /\ Checked(chain[c], "root", at[c], Window(c))
      BY <1>1, <1>8, <2>1 DEF Root, Conclude, IInv, TypeOK
    <3>2. ~ OneSponsor(c)
      BY <1>8, <3>1 DEF Root, GoTo, OneSponsor, Links, IInv, TypeOK
    <3>3. HasCause(c, "V6")
      BY <1>1, <3>1, <3>2, SoFar DEF HasCause
    <3> QED
      BY <1>0, <2>1, <3>3, ConcludeInv
  <2>2. CASE ~ Conclude(c, "V6")
    <3>1. /\ \A i \in 1 .. Len(chain[c]) : chain[c][i].claims.root = chain[c][1].claims.root
          /\ Checked(chain[c], "root", at[c], Window(c))
          /\ GoTo(c, "depth", 1)
      BY <1>1, <1>8, <2>2 DEF Root, Link
    <3>2. Checked(chain[c], "depth", 1, Window(c))
      BY <1>1, <3>1, RootChecked
    <3>3. "depth" \in Checks \ {"done"} /\ 1 \in Nat \ {0}
      BY DEF Checks
    <3> QED
      BY <1>0, <3>1, <3>2, <3>3, GoToInv
  <2> QED
    BY <2>1, <2>2
<1>9. CASE Depth(c)
  <2>1. Checked(chain[c], "depth", at[c], Window(c))
    BY <1>1, <1>9 DEF Depth
  <2>2. ~ (Len(chain[c]) - 1 > Link(c, 1).maxDepth)
    <3>1. Len(chain[c]) - 1 <= chain[c][1].claims.maxDepth
      BY <1>1, <2>1, DepthFollows
    <3>2. chain[c][1].claims.maxDepth \in Int
      <4>1. 1 \in 1 .. Len(chain[c])
        BY <1>1, <2>1 DEF Checked, ValidSoFar
      <4> QED
        BY <1>1, <4>1, LinkType DEF Claims
    <3> QED
      BY <1>1, <3>1, <3>2 DEF Link
  <2>3. GoTo(c, "revocation", 1)
    BY <1>9, <2>2 DEF Depth
  <2> QED
    BY <1>0, <1>1, <2>1, <2>3, DepthChecked, GoToInv DEF Checks, Looping
<1>10. CASE Revocation(c)
  <2>1. CASE Conclude(c, "V8")
    <3>1. HasCause(c, "V8")
      BY <1>1, <1>10, SoFar DEF Revocation, HasCause
    <3> QED
      BY <1>0, <2>1, <3>1, ConcludeInv
  <2>2. CASE ~ Conclude(c, "V8")
    <3>1. chain[c][at[c]].claims.jti \notin Window(c).revoked
      BY <1>10, <2>2 DEF Revocation, Link, IInv, Inv, Window
    <3>2. /\ Checked(chain[c], "revocation", at[c], Window(c))
          /\ pc[c] = "revocation" /\ NextLink(c, "audience", 1)
      BY <1>1, <1>10, <2>2 DEF Revocation
    <3> QED
      BY <1>0, <1>1, <3>1, <3>2, RevocationChecked, GoToInv DEF NextLink, Checks, Looping
  <2> QED
    BY <2>1, <2>2
<1>11. CASE AddressedTo(c)
  <2>1. Checked(chain[c], "ok", at[c], Window(c))
    BY <1>1, <1>11, AudienceChecked DEF AddressedTo
  <2>2. PICK v \in {"ok", "V9"} : Conclude(c, v) /\ (v = "V9" <=> Leaf(c).aud # Audience)
    BY <1>11 DEF AddressedTo
  <2>3. HasCause(c, v)
    BY <1>1, <1>11, <2>2, SoFar DEF AddressedTo, HasCause
  <2> QED
    BY <1>0, <2>1, <2>2, <2>3, ConcludeInv
<1> QED
  BY <1>2, <1>3, <1>4, <1>5, <1>6, <1>7, <1>8, <1>9, <1>10, <1>11 DEF Check

LEMMA CallInv ==
  ASSUME IInv, NEW c \in Call, NEW ch \in Presented, Verify(c, ch)
  PROVE  IInv'
<1>1. /\ pc'[c] = "parse" /\ verdict'[c] = verdict[c] /\ verdict[c] = "none"
      /\ began'[c] = [clock |-> clock, revoked |-> revoked]
      /\ clock \in Nat /\ clock' = clock /\ revoked' = revoked
  BY DEF Verify, IInv, TypeOK, Inv, world
<1>2. Inv(c)'
  BY <1>1, NothingChecked DEF Inv, Accepted, HasCause
<1>3. TypeOK'
  BY VerifyAssumption DEF Verify, IInv, TypeOK, world, Looping
<1> QED
  BY <1>2, <1>3, MoveInv DEF Verify, IInv, TypeOK

LEMMA ReturnInv ==
  ASSUME IInv, NEW c \in Call, Return(c)
  PROVE  IInv'
<1>1. /\ pc'[c] = "idle" /\ verdict'[c] = "none" /\ began'[c] = began[c]
      /\ clock' = clock /\ revoked' = revoked
      /\ began[c].clock <= clock /\ began[c].revoked \subseteq revoked
  BY DEF Return, IInv, TypeOK, Inv, world
<1>2. Inv(c)'
  BY <1>1, NothingChecked DEF Inv, Accepted, HasCause
<1>3. TypeOK'
  <2>1. << >> \in Seq(Assertion)
    OBVIOUS
  <2> QED
    BY <2>1 DEF Return, IInv, TypeOK, world, Looping
<1> QED
  BY <1>2, <1>3, MoveInv DEF Return, IInv, TypeOK

LEMMA WorldInv ==
  ASSUME IInv, Tick \/ (\E id \in Id : Revoke(id)) \/ UNCHANGED vars
  PROVE  IInv'
<1>1. /\ TypeOK' /\ clock \in Nat /\ clock' \in Nat /\ clock <= clock' /\ revoked \subseteq revoked'
      /\ UNCHANGED <<pc, chain, at, verdict, began>>
  BY DEF IInv, TypeOK, Tick, Revoke, vars, Looping
<1>2. ASSUME NEW c \in Call PROVE Inv(c)'
  <2>1. began[c].clock \in Nat
    BY DEF IInv, TypeOK
  <2> QED
    BY <1>1, <2>1, Kept DEF IInv
<1> QED
  BY <1>1, <1>2 DEF IInv

THEOREM Invariance == Spec => []IInv
<1>1. IInv /\ [Next]_vars => IInv'
  BY CallInv, CheckInv, ReturnInv, WorldInv DEF Next
<1> QED
  BY InitInv, <1>1, PTL DEF Spec

-----------------------------------------------------------------------------
\* Every variable has its type, and no loop runs past the last link.
THEOREM TypeCorrect == Spec => []TypeOK
<1>1. IInv => TypeOK
  BY DEF IInv
<1> QED
  BY <1>1, Invariance, PTL

\* What an accepted chain has established.
LEMMA AcceptedChecked ==
  ASSUME IInv, NEW c \in Call, Accepted(c)
  PROVE  /\ chain[c] \in Seq(Assertion) /\ Len(chain[c]) \in Nat \ {0}
         /\ Links(c) = 1 .. Len(chain[c])
         /\ Checked(chain[c], "ok", at[c], Window(c))
BY LinkType DEF IInv, TypeOK, Inv, Links, Checked, ValidSoFar

\* An accepted chain narrows from every link to every link below it.
THEOREM Narrows == Spec => []AcceptedNarrows
<1>1. IInv => AcceptedNarrows
  <2> SUFFICES ASSUME IInv, NEW c \in Call, Accepted(c)
               PROVE  /\ Len(chain[c]) - 1 <= Link(c, 1).maxDepth
                      /\ \A i, j \in Links(c) : i <= j => Within(Link(c, i), Link(c, j))
    BY DEF AcceptedNarrows
  <2>1. Len(chain[c]) - 1 <= Link(c, 1).maxDepth
    BY AcceptedChecked, DepthFollows DEF Link
  <2>2. \A i, j \in Links(c) : i <= j => Bounds(Link(c, i), Link(c, j))
    BY AcceptedChecked DEF Checked, NarrowsSoFar, Seen, Link
  <2>3. \A i, j \in Links(c) : Link(c, i).root = Link(c, j).root
    BY AcceptedChecked DEF Checked, RootedSoFar, Link
  <2> QED
    BY <2>1, <2>2, <2>3 DEF Within
<1> QED
  BY <1>1, Invariance, PTL

\* No request is permitted at the end of an accepted chain that is not
\* permitted at every link of it.
THEOREM GainsNothing == Spec => []AcceptedGainsNothing
<1>1. IInv => AcceptedGainsNothing
  <2> SUFFICES ASSUME IInv, NEW c \in Call, Accepted(c), NEW i \in Links(c), NEW req \in Asked,
                      Permits(Leaf(c).caps, req)
               PROVE  Permits(Link(c, i).caps, req)
    BY DEF AcceptedGainsNothing
  <2>1. PICK n \in Nat \ {0} : n = Len(chain[c])
    BY AcceptedChecked
  <2>2. n \in Links(c) /\ i <= n /\ i \in 1 .. n
    BY <2>1, AcceptedChecked
  <2>3. CapsEntailed(Link(c, i).caps, Link(c, n).caps)
    BY <2>1, <2>2, AcceptedChecked DEF Checked, NarrowsSoFar, Seen, Link, Bounds
  <2>4. /\ Link(c, i) \in Claims(Principal, Id) /\ Link(c, n) \in Claims(Principal, Id)
        /\ ValidClaims(Link(c, i)) /\ ValidClaims(Link(c, n))
    BY <2>1, <2>2, AcceptedChecked, LinkType DEF Checked, ValidSoFar, Link
  <2>5. /\ Link(c, i).caps \in SUBSET Capability /\ Link(c, n).caps \in SUBSET Capability
        /\ \A k \in Link(c, i).caps \cup Link(c, n).caps : ValidCapability(k)
    BY <2>4, ClaimsType
  <2>6. req \in Request
    BY VerifyAssumption
  <2> QED
    BY <2>1, <2>3, <2>5, <2>6, PermitsSound DEF Leaf
<1> QED
  BY <1>1, Invariance, PTL

\* Every link was signed by the one to whom the link above delegated.
THEOREM InCustody == Spec => []AcceptedInCustody
<1>1. IInv => AcceptedInCustody
  <2> SUFFICES ASSUME IInv, NEW c \in Call, Accepted(c)
               PROVE  /\ SignedBy(chain[c][1], Link(c, 1).iss)
                      /\ \A i \in Links(c) \ {1} :
                           /\ SignedBy(chain[c][i], Link(c, i - 1).sub)
                           /\ Link(c, i).parent = chain[c][i - 1].raw
    BY DEF AcceptedInCustody
  <2>1. \A i \in 1 .. Len(chain[c]) : /\ SignedBy(chain[c][i], Link(c, i).iss)
                                      /\ Joined(chain[c], i)
    BY AcceptedChecked, VerifiedIsSigned DEF Checked, SignedSoFar, LinkedSoFar, Seen, Link
  <2>2. \A i \in Links(c) : i \in 1 .. Len(chain[c]) /\ (i # 1 => i > 1)
    BY AcceptedChecked
  <2>3. 1 \in 1 .. Len(chain[c])
    BY AcceptedChecked
  <2> QED
    BY <2>1, <2>2, <2>3 DEF Joined, Link
<1> QED
  BY <1>1, Invariance, PTL

\* The key that signed a link of an accepted chain is the last one added for
\* some issuer and kid: a key that was replaced signs nothing.
THEOREM ReplacedSignsNothing == Spec => []ReplacedKeySignsNothing
<1>1. IInv => ReplacedKeySignsNothing
  <2> SUFFICES ASSUME IInv, NEW c \in Call, Accepted(c), NEW i \in Links(c)
               PROVE  \E j \in DOMAIN Added :
                        /\ Added[j].key = chain[c][i].signature.key
                        /\ \A k \in DOMAIN Added : k > j /\ Added[k].key # Nil =>
                             <<Added[k].iss, Added[k].kid>> # <<Added[j].iss, Added[j].kid>>
    BY DEF ReplacedKeySignsNothing
  <2>1. VerifySignature(Link(c, i).iss, chain[c][i])
    BY AcceptedChecked DEF Checked, SignedSoFar, Seen, Link
  <2>2. PICK j \in DOMAIN Added : /\ Stands(j, Link(c, i).iss, chain[c][i].header.kid)
                                 /\ Added[j].key = chain[c][i].signature.key
    BY <2>1, KeyStands DEF VerifySignature, Ed25519Verify
  <2>3. ASSUME NEW k \in DOMAIN Added, k > j, Added[k].key # Nil
        PROVE  <<Added[k].iss, Added[k].kid>> # <<Added[j].iss, Added[j].kid>>
    BY <2>2, <2>3 DEF Stands, Taken
  <2> QED
    BY <2>2, <2>3
<1> QED
  BY <1>1, Invariance, PTL

\* What Sign makes with the last key added for an issuer and kid is read back
\* and verifies for that issuer, whatever the claims (jose.go:51-77).
THEOREM SignedIsVerified ==
  ASSUME NEW iss, NEW kid, NEW claims, NEW n \in Nat, NEW i \in DOMAIN Added, Stands(i, iss, kid)
  PROVE  /\ ClaimsRead(Sign(claims, Added[i].key, kid, n))
         /\ VerifySignature(iss, Sign(claims, Added[i].key, kid, n))
<1> DEFINE a == Sign(claims, Added[i].key, kid, n)
<1>1. a.header # Nil /\ a.payload # Nil /\ a.signature # Nil
  <2>1. Added[i].key \in PublicKey /\ Added[i].key # Nil /\ Added[i].kid = kid /\ kid \in KeyId
    <3>1. Added[i] \in [iss : Principal, kid : KeyId, key : PublicKey \cup {Nil}]
      <4> DEFINE S == [iss : Principal, kid : KeyId, key : PublicKey \cup {Nil}]
      <4>1. Added \in Seq(S)
        BY JoseAssumption
      <4> HIDE DEF S
      <4>2. Added[i] \in S
        BY <4>1
      <4> QED
        BY <4>2 DEF S
    <3>2. Added[i].key # Nil /\ Added[i].kid = kid
      BY DEF Stands, Taken
    <3> QED
      BY <3>1, <3>2
  <2>2. a.header \in Header /\ a.payload \in Payload /\ a.signature \in Signature
    BY <2>1 DEF Sign, Header, Payload, Signature
  <2> QED
    BY <2>2, JoseAssumption
<1>2. ClaimsRead(a) /\ Parses(a)
  BY <1>1 DEF Sign, ClaimsRead, Parses, HeaderReads, HeaderPasses
<1>3. KeyOf(iss, a.header.kid) = Added[i].key /\ Added[i].key # Nil
  BY KeyIsTheLast DEF Sign, Stands, Taken
<1>4. Ed25519Verify(KeyOf(iss, a.header.kid), a.input, a.signature)
  BY <1>3 DEF Sign, Ed25519Verify
<1> QED
  BY <1>1, <1>2, <1>3, <1>4 DEF VerifySignature

\* No accepted chain was revoked when the call began, and all of it was current at
\* one instant of the call.
THEOREM WasLive == Spec => []AcceptedWasLive
<1>1. IInv => AcceptedWasLive
  BY AcceptedChecked DEF AcceptedWasLive, Checked, TimelySoFar, LiveSoFar, Seen, Link, Window
<1> QED
  BY <1>1, Invariance, PTL

\* The promise verification makes to whoever builds on it: Enforcer and Gateway
\* take nothing else from it.
THEOREM KeepsThePromise == Spec => []AcceptsTheAcceptable
<1>1. IInv /\ AcceptedNarrows /\ AcceptedWasLive => AcceptsTheAcceptable
  <2> SUFFICES ASSUME IInv, AcceptedNarrows, AcceptedWasLive, NEW c \in Call, Accepted(c)
               PROVE  Acceptable(ClaimsOf(c), began[c])
    BY DEF AcceptsTheAcceptable
  <2>1. PICK n \in Nat \ {0} : n = Len(chain[c])
    BY AcceptedChecked
  <2>2. /\ Links(c) = 1 .. n /\ DOMAIN ClaimsOf(c) = 1 .. n
        /\ \A i \in 1 .. n : ClaimsOf(c)[i] = Link(c, i)
    BY <2>1, AcceptedChecked DEF ClaimsOf
  <2>3. Len(ClaimsOf(c)) = n /\ ClaimsOf(c) # << >> /\ 1 \in 1 .. n /\ n \in 1 .. n
    <3>1. ClaimsOf(c) = [i \in 1 .. n |-> Link(c, i)]
      BY <2>2 DEF ClaimsOf
    <3>2. Len(ClaimsOf(c)) = n /\ 1 \in DOMAIN ClaimsOf(c)
      BY <2>2, <3>1
    <3> QED
      BY <2>1, <3>2
  <2>4. /\ n - 1 <= Link(c, 1).maxDepth
        /\ \A i, j \in 1 .. n : i <= j => Within(Link(c, i), Link(c, j))
        /\ \A i \in 1 .. n : Link(c, i).jti \notin began[c].revoked
    BY <2>1, <2>2 DEF AcceptedNarrows, AcceptedWasLive
  <2>7. ASSUME NEW i \in 1 .. n
        PROVE  began[c].clock - Skew < Link(c, i).exp * Second
    <3>1. PICK t \in began[c].clock .. clock : CurrentAt(t, Link(c, i))
      BY <2>2 DEF AcceptedWasLive
    <3>2. PICK e \in Int : e = Link(c, i).exp * Second
      <4>1. Link(c, i).exp \in Int
        BY <2>1, AcceptedChecked, LinkType DEF Link, Claims
      <4> QED
        BY <4>1, VerifyAssumption
    <3>3. began[c].clock \in Int /\ clock \in Int
      BY DEF IInv, TypeOK
    <3>4. t - Skew < e
      BY <3>1, <3>2 DEF CurrentAt
    <3> QED
      BY <3>2, <3>3, <3>4, VerifyAssumption
  <2>5. \A i \in 1 .. n : ValidClaims(Link(c, i))
    BY <2>1, AcceptedChecked DEF Checked, ValidSoFar, Link
  <2>6. Link(c, n).aud = Audience
    BY <2>1 DEF IInv, Inv, HasCause, Accepted, Leaf
  <2> QED
    BY <2>2, <2>3, <2>4, <2>5, <2>6, <2>7 DEF Acceptable
<1> QED
  BY <1>1, Invariance, Narrows, WasLive, PTL

\* A chain is refused for a rule it breaks, and for the first that it breaks.
THEOREM RefusesForCause == Spec => []VerdictHasCause
<1>1. IInv => VerdictHasCause
  BY DEF IInv, Inv, VerdictHasCause
<1> QED
  BY <1>1, Invariance, PTL

\* A descent that reads back is not refused for its claims: what stands between
\* it and acceptance is a key, the time, a revocation and the address.
PassesButFor(rules) ==
  \A c \in Call :
    /\ \A i \in Links(c) : ClaimsRead(chain[c][i])
    /\ Descent(ClaimsOf(c), [i \in Links(c) |-> chain[c][i].raw])
    => verdict[c] \in {"none", "ok"} \cup rules

\* What issue makes, and only that, gets as far as a decision about the moment:
\* with IssueProofs!PathsDescend, no issued path is malformed, off custody,
\* wider, or off its sponsor.
THEOREM DescentsPass == Spec => []PassesButFor({"V3", "V4", "V8", "V9"})
<1>1. IInv => PassesButFor({"V3", "V4", "V8", "V9"})
  <2> SUFFICES ASSUME IInv, NEW c \in Call,
                      \A i \in Links(c) : ClaimsRead(chain[c][i]),
                      Descent(ClaimsOf(c), [i \in Links(c) |-> chain[c][i].raw])
               PROVE  verdict[c] \in {"none", "ok", "V3", "V4", "V8", "V9"}
    BY DEF PassesButFor
  <2>1. PICK n \in Nat : n = Len(chain[c]) /\ Links(c) = 1 .. n
    BY LinkType DEF IInv, TypeOK, Links
  <2>2. /\ DOMAIN ClaimsOf(c) = 1 .. n
        /\ \A i \in 1 .. n : ClaimsOf(c)[i] = Link(c, i)
    BY <2>1 DEF ClaimsOf
  <2>3. n > 0 /\ chain[c] # << >> /\ Link(c, 1).parent = NoParent
    <3>1. ClaimsOf(c) # << >>
      BY DEF Descent
    <3>2. n # 0
      BY <2>1, <2>2, <3>1 DEF ClaimsOf
    <3> QED
      BY <2>1, <2>2, <3>2 DEF Descent
  <2>4. \A i \in 1 .. n : ValidClaims(Link(c, i))
    BY <2>2 DEF Descent
  <2>5. \A i \in Links(c) \ {1} :
          /\ Link(c, i).parent = chain[c][i - 1].raw /\ Link(c, i).depth = Link(c, i - 1).depth + 1
          /\ Link(c, i).iss = Link(c, i - 1).sub /\ Link(c, i).root = Link(c, 1).root
          /\ Attenuates(Link(c, i - 1), Link(c, i))
    <3>1. /\ 1 \in 1 .. n
          /\ \A i \in Links(c) \ {1} : i \in 1 .. n /\ i - 1 \in 1 .. n /\ i - 1 \in Links(c)
      BY <2>1, <2>3
    <3> DEFINE raw == [i \in Links(c) |-> chain[c][i].raw]
    <3> TAKE i \in Links(c) \ {1}
    <3>2. i \in DOMAIN ClaimsOf(c) \ {1} /\ raw[i - 1] = chain[c][i - 1].raw
      BY <2>2, <3>1
    <3>3. ClaimsOf(c)[i] = Link(c, i) /\ ClaimsOf(c)[i - 1] = Link(c, i - 1) /\ ClaimsOf(c)[1] = Link(c, 1)
      BY <2>2, <3>1
    <3>4. Descent(ClaimsOf(c), raw)
      OBVIOUS
    <3> HIDE DEF raw
    <3> QED
      BY <3>2, <3>3, <3>4 DEF Descent
  <2>6. Link(c, 1).depth = 0
    BY <2>1, <2>3, <2>4 DEF ValidClaims
  <2>7. WellFormed(c) /\ Descends(c) /\ StepsDown(c)
    BY <2>1, <2>3, <2>4, <2>5, <2>6 DEF WellFormed, Descends, StepsDown, Committed, Custody
  <2>8. OneSponsor(c)
    BY <2>5 DEF OneSponsor
  <2> QED
    BY <2>7, <2>8, ZenonT(30) DEF IInv, Inv, HasCause, TypeOK
<1> QED
  BY <1>1, Invariance, PTL
=============================================================================
