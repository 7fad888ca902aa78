------------------------------- MODULE Grants -------------------------------
(****************************************************************************)
(* The pure rules of delegated authority: which requests a capability       *)
(* admits (verify/permits.go), when one capability is no wider than         *)
(* another (verify/attenuation.go), and what is structurally valid          *)
(* (mda/mda.go).                                                            *)
(*                                                                          *)
(* A string a rule looks into (identifiers, condition values) is a sequence *)
(* of characters; a float is an integer.  A capability set is a set: its    *)
(* order decides only which error is reported.                              *)
(****************************************************************************)
EXTENDS SequenceRules

CONSTANTS Char,   \* the characters identifiers and values are made of
          Star,   \* "*", which ends a prefix pattern
          Zero,   \* the NUL byte
          Type,   \* resource types, capability action names
          Key     \* condition keys, attribute names

ASSUME CharAssumption == Star \in Char /\ Zero \in Char /\ Zero # Star

Str == Seq(Char)

Condition == [eq : Str \cup {Nil}, in : Seq(Str) \cup {Nil}, prefix : Str \cup {Nil},
              min : Int \cup {Nil}, max : Int \cup {Nil}]

Capability == [rtype : Type, id : Str, tags : SUBSET Tag, action : Type,
               conditions : [Key -> Condition \cup {Nil}]]

\* A key with no condition or no attribute maps to Nil.  An attribute is what a decoded JSON value is to a condition.
Value == [kind : {"string"}, val : Str] \cup [kind : {"number"}, val : Int]
           \cup [kind : {"other"}, val : {Nil}]

Request == [rtype : Type, id : Str, tags : SUBSET Tag, action : Type,
            attributes : [Key -> Value \cup {Nil}]]

(****************************************************************************)
(* Identifiers: a trailing star makes a prefix pattern.                     *)
(****************************************************************************)
HasPrefix(s, p) == Len(p) <= Len(s) /\ \A k \in 1 .. Len(p) : s[k] = p[k]

IsPattern(s) == Len(s) > 0 /\ s[Len(s)] = Star
Stem(s) == IF IsPattern(s) THEN [k \in 1 .. (Len(s) - 1) |-> s[k]] ELSE s

\* Mutated: a literal may delegate its own prefix pattern.
IdCovers_literalCoversPattern(p, c) ==
  IF IsPattern(p) THEN HasPrefix(Stem(c), Stem(p)) ELSE Stem(c) = p

IdCovers(p, c) ==
  IF IsPattern(p) THEN HasPrefix(Stem(c), Stem(p)) ELSE ~ IsPattern(c) /\ p = c

\* A request's identifier is literal even where it ends in a star.
Literal(id) == IF IsPattern(id) THEN Append(id, Zero) ELSE id

(****************************************************************************)
(* Conditions.                                                              *)
(****************************************************************************)
IsRange(c) == c.min # Nil \/ c.max # Nil

\* Exactly one comparison is set.
InFragment(c) ==
  \/ c.eq # Nil /\ c.in = Nil /\ c.prefix = Nil /\ ~ IsRange(c)
  \/ c.eq = Nil /\ c.in # Nil /\ c.prefix = Nil /\ ~ IsRange(c)
  \/ c.eq = Nil /\ c.in = Nil /\ c.prefix # Nil /\ ~ IsRange(c)
  \/ c.eq = Nil /\ c.in = Nil /\ c.prefix = Nil /\ IsRange(c)

InSet(s, v) == \E k \in 1 .. Len(s) : s[k] = v

\* Mutated: a side the child leaves open passes.
RangeCovers_openSide(p, c) ==
  /\ IsRange(c)
  /\ p.min # Nil /\ c.min # Nil => c.min >= p.min
  /\ p.max # Nil /\ c.max # Nil => c.max <= p.max

RangeCovers(p, c) ==
  /\ IsRange(c)
  /\ p.min # Nil => c.min # Nil /\ c.min >= p.min
  /\ p.max # Nil => c.max # Nil /\ c.max <= p.max

\* The parent's comparisons are tried in the code's order, so that the rule
\* is defined outside the fragment as well.  An empty in grants nothing.
CondCovers(p, c) ==
  IF c.in # Nil /\ c.in = << >> THEN InFragment(p)
  ELSE IF p.eq # Nil THEN c.eq # Nil /\ c.eq = p.eq
  ELSE IF p.in # Nil THEN
    IF c.eq # Nil THEN InSet(p.in, c.eq)
    ELSE c.in # Nil /\ \A k \in 1 .. Len(c.in) : InSet(p.in, c.in[k])
  ELSE IF p.prefix # Nil THEN
    IF c.eq # Nil THEN HasPrefix(c.eq, p.prefix)
    ELSE IF c.prefix # Nil THEN HasPrefix(c.prefix, p.prefix)
    ELSE c.in # Nil /\ \A k \in 1 .. Len(c.in) : HasPrefix(c.in[k], p.prefix)
  ELSE IsRange(p) /\ RangeCovers(p, c)

Satisfies(c, v) ==
  IF c.eq # Nil THEN v.kind = "string" /\ v.val = c.eq
  ELSE IF c.in # Nil THEN v.kind = "string" /\ InSet(c.in, v.val)
  ELSE IF c.prefix # Nil THEN v.kind = "string" /\ HasPrefix(v.val, c.prefix)
  ELSE /\ IsRange(c)
       /\ v.kind = "number"
       /\ c.min # Nil => v.val >= c.min
       /\ c.max # Nil => v.val <= c.max

(****************************************************************************)
(* Capabilities.  A tag or a condition of a capability is a requirement.    *)
(****************************************************************************)
ValidCapability(c) ==
  \A k \in Key : c.conditions[k] # Nil => InFragment(c.conditions[k])

Entails(p, c) ==
  /\ p.rtype = c.rtype
  /\ IdCovers(p.id, c.id)
  /\ p.tags \subseteq c.tags
  /\ p.action = c.action
  /\ \A k \in Key : p.conditions[k] # Nil =>
       c.conditions[k] # Nil /\ CondCovers(p.conditions[k], c.conditions[k])

Covers(c, req) ==
  /\ c.rtype = req.rtype
  /\ IdCovers(c.id, Literal(req.id))
  /\ c.tags \subseteq req.tags
  /\ c.action = req.action
  /\ \A k \in Key : c.conditions[k] # Nil =>
       req.attributes[k] # Nil /\ Satisfies(c.conditions[k], req.attributes[k])

CapsEntailed(parent, child) == \A c \in child : \E p \in parent : Entails(p, c)

\* Result.Permits: an empty set of capabilities permits nothing.
Permits(caps, req) ==
  /\ req.rtype # Empty /\ req.id # << >> /\ req.action # Empty
  /\ \E c \in caps : Covers(c, req)

(****************************************************************************)
(* Claims.  Each rule about one link or about a pair of links; a chain      *)
(* holds to them link by link.  Nil stands for the nil capability slice,    *)
(* Empty for a missing string.  A parent commitment is the number of the    *)
(* assertion it commits to (a hash is injective), NoParent if there is none.*)
(****************************************************************************)
NoParent == 0

Claims(Principal, Id) ==
  [iss : Principal, sub : Principal, aud : Principal, iat : Int, exp : Int, jti : Id,
   root : [iss : Principal, sub : Principal], depth : Int, maxDepth : Int, parent : Nat,
   caps : (SUBSET Capability) \cup {Nil}, seq : Sequence \cup {Nil}]

\* Claims.Validate, per link.
ValidClaims(c) ==
  /\ c.iss # Empty /\ c.sub # Empty /\ c.jti # Empty
  /\ c.exp # 0
  /\ c.root.iss # Empty /\ c.root.sub # Empty
  /\ c.depth >= 0
  /\ (c.depth = 0) <=> (c.parent = NoParent)
  /\ c.maxDepth >= 0
  /\ c.caps # Nil
  /\ Compiles(c.seq)
  /\ \A k \in c.caps : k.rtype # Empty /\ k.action # Empty /\ ValidCapability(k)

\* Mutated: a delegation may outlive its parent.
Attenuates_outlives(p, c) ==
  /\ c.aud = p.aud
  /\ c.maxDepth <= p.maxDepth - 1
  /\ CapsEntailed(p.caps, c.caps)
  /\ SeqNoWider(p.seq, c.seq)

\* Attenuates: the rules of section 6 that a pair of links answers to alone.
Attenuates(p, c) ==
  /\ c.aud = p.aud
  /\ c.exp <= p.exp
  /\ c.maxDepth <= p.maxDepth - 1
  /\ CapsEntailed(p.caps, c.caps)
  /\ SeqNoWider(p.seq, c.seq)

(****************************************************************************)
(* What an assertion r bounds in an assertion c anywhere below it:          *)
(* lifetime, audience, sponsor, depth, capabilities and sequence.           *)
(****************************************************************************)
Bounds(r, c) ==
  /\ c.aud = r.aud
  /\ c.exp <= r.exp
  /\ c.depth + c.maxDepth <= r.depth + r.maxDepth
  /\ CapsEntailed(r.caps, c.caps)
  /\ SeqNoWider(r.seq, c.seq)

Within(r, c) == c.root = r.root /\ Bounds(r, c)

(****************************************************************************)
(* A descent is a sponsor's grant and delegations below it, each made for   *)
(* the one above: what issue makes and what verification looks for.  raw    *)
(* numbers the serializations.                                              *)
(****************************************************************************)
Descent(ch, raw) ==
  /\ ch # << >> /\ ch[1].parent = NoParent
  /\ \A i \in DOMAIN ch : ValidClaims(ch[i])
  /\ \A i \in DOMAIN ch \ {1} :
       /\ ch[i].parent = raw[i - 1] /\ ch[i].depth = ch[i - 1].depth + 1
       /\ ch[i].iss = ch[i - 1].sub /\ ch[i].root = ch[1].root
       /\ Attenuates(ch[i - 1], ch[i])
=============================================================================
