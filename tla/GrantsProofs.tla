---------------------------- MODULE GrantsProofs ----------------------------
(****************************************************************************)
(* Theorems about the pure rules of delegated authority, for all names,     *)
(* strings, tags, keys and numbers: what recording an action returns, that  *)
(* no wider is transitive for sequences, and that entailment between        *)
(* capabilities is transitive and sound for requests, and so is entailment  *)
(* between sets of them.                                                    *)
(****************************************************************************)
EXTENDS Grants, TLAPS

-----------------------------------------------------------------------------
(****************************************************************************)
(* Sequences.                                                               *)
(****************************************************************************)

\* The constraints of a sequence, by position and as a set.
LEMMA ConstraintsType ==
  ASSUME NEW s \in Sequence
  PROVE  /\ s.constraints \in Seq(Constraint)
         /\ DOMAIN s.constraints = 1 .. Len(s.constraints)
         /\ \A i \in DOMAIN s.constraints : s.constraints[i] \in Constraint
         /\ Rules(s) \subseteq Constraint
<1>1. s.constraints \in Seq(Constraint)
  BY DEF Sequence
<1>2. \A q \in Seq(Constraint) : /\ DOMAIN q = 1 .. Len(q)
                                /\ \A i \in DOMAIN q : q[i] \in Constraint
  OBVIOUS
<1>3. \A i \in DOMAIN s.constraints : s.constraints[i] \in Constraint
  BY <1>1, <1>2
<1>4. Rules(s) \subseteq Constraint
  BY <1>3 DEF Rules
<1> QED
  BY <1>1, <1>2, <1>3, <1>4

\* Triggers fired are constraint ids.
LEMMA FiredType ==
  ASSUME NEW s \in Sequence, NEW x
  PROVE  Fired(s, x) \subseteq ConstraintId
BY ConstraintsType DEF Fired, Constraint

\* Recording an action keeps the state well typed.
LEMMA RecordType ==
  ASSUME NEW st \in State, NEW s \in Sequence, NEW x
  PROVE  Record(st, s, x) \in State
BY FiredType DEF Record, State

\* A sequence that compiles is no wider than itself: its ids are distinct.
LEMMA SeqNoWiderReflexive ==
  ASSUME NEW s \in Sequence \cup {Nil}, Compiles(s)
  PROVE  SeqNoWider(s, s)
<1> SUFFICES ASSUME s # Nil PROVE SeqNoWider(s, s)
  BY DEF SeqNoWider
<1>1. s \in Sequence /\ DOMAIN s.constraints = 1 .. Len(s.constraints)
  BY ConstraintsType
<1>2. s.max \in Int
  BY <1>1 DEF Sequence
<1>3. ASSUME NEW i \in DOMAIN s.constraints
      PROVE  \A k \in 1 .. (i - 1) : s.constraints[k].id # s.constraints[i].id
  <2>1. \A k \in 1 .. (i - 1) : k \in DOMAIN s.constraints /\ k # i
    BY <1>1, <1>3
  <2> QED
    BY <2>1 DEF Compiles
<1> QED
  BY <1>2, <1>3 DEF SeqNoWider, SameMatcher

\* Narrowing a sequence is transitive, although the search for an inherited
\* rule stops at the first one of its id.
THEOREM SeqNoWiderTransitive ==
  ASSUME NEW p \in Sequence \cup {Nil}, NEW q \in Sequence \cup {Nil}, NEW c \in Sequence \cup {Nil},
         SeqNoWider(p, q), SeqNoWider(q, c)
  PROVE  SeqNoWider(p, c)
<1> SUFFICES ASSUME p # Nil PROVE SeqNoWider(p, c)
  BY DEF SeqNoWider
<1>1. q # Nil /\ c # Nil /\ p \in Sequence /\ q \in Sequence /\ c \in Sequence
  BY DEF SeqNoWider
<1>2. p.max > 0 => c.max > 0 /\ c.max <= p.max
  BY <1>1 DEF SeqNoWider, Sequence
<1>3. ASSUME NEW i \in DOMAIN p.constraints
      PROVE  \E j \in DOMAIN c.constraints :
               /\ c.constraints[j].id = p.constraints[i].id
               /\ \A k \in 1 .. (j - 1) : c.constraints[k].id # p.constraints[i].id
               /\ SameMatcher(c.constraints[j].forbid, p.constraints[i].forbid)
               /\ SameMatcher(c.constraints[j].after, p.constraints[i].after)
  <2>1. PICK m \in DOMAIN q.constraints :
          /\ q.constraints[m].id = p.constraints[i].id
          /\ SameMatcher(q.constraints[m].forbid, p.constraints[i].forbid)
          /\ SameMatcher(q.constraints[m].after, p.constraints[i].after)
    BY <1>3, <1>1 DEF SeqNoWider
  <2>2. PICK j \in DOMAIN c.constraints :
          /\ c.constraints[j].id = q.constraints[m].id
          /\ \A k \in 1 .. (j - 1) : c.constraints[k].id # q.constraints[m].id
          /\ SameMatcher(c.constraints[j].forbid, q.constraints[m].forbid)
          /\ SameMatcher(c.constraints[j].after, q.constraints[m].after)
    BY <1>1 DEF SeqNoWider
  <2>3. /\ SameMatcher(c.constraints[j].forbid, p.constraints[i].forbid)
        /\ SameMatcher(c.constraints[j].after, p.constraints[i].after)
    BY <2>1, <2>2 DEF SameMatcher
  <2> QED
    BY <2>1, <2>2, <2>3
<1> QED
  BY <1>1, <1>2, <1>3 DEF SeqNoWider

\* What seqNoWider is for: whatever the state of the root, what a child's
\* sequence admits its parent's admits too, and a trigger of the parent's is
\* recorded under the child's (attenuation.go:253-297, sequence.go:146-180).
THEOREM SeqNoWiderSound ==
  ASSUME NEW p \in Sequence, NEW c \in Sequence, SeqNoWider(p, c), NEW st \in State, NEW x
  PROVE  /\ Admits(st, c, x) => Admits(st, p, x)
         /\ Fired(p, x) \subseteq Fired(c, x)
<1>0. p # Nil /\ p.max \in Int /\ c.max \in Int /\ st.invocations \in Int
  BY NilAssumption DEF Sequence, State
<1>1. p.max > 0 => c.max > 0 /\ c.max <= p.max
  BY <1>0 DEF SeqNoWider
<1>2. ASSUME NEW i \in DOMAIN p.constraints
      PROVE  \E j \in DOMAIN c.constraints :
               /\ c.constraints[j].id = p.constraints[i].id
               /\ SameMatcher(c.constraints[j].forbid, p.constraints[i].forbid)
               /\ SameMatcher(c.constraints[j].after, p.constraints[i].after)
  BY <1>0, <1>2 DEF SeqNoWider
<1>3. Exhausted(st, p) => Exhausted(st, c)
  BY <1>0, <1>1 DEF Exhausted
<1>4. ASSUME NEW i \in Forbidding(st, p, x) PROVE Forbidding(st, c, x) # {}
  <2>1. PICK j \in DOMAIN c.constraints :
          /\ c.constraints[j].id = p.constraints[i].id
          /\ SameMatcher(c.constraints[j].forbid, p.constraints[i].forbid)
    BY <1>2, <1>4 DEF Forbidding
  <2>2. Matches(c.constraints[j].forbid, x)
    BY <1>4, <2>1 DEF Forbidding, SameMatcher, Matches
  <2>3. j \in Forbidding(st, c, x)
    BY <1>4, <2>1, <2>2 DEF Forbidding
  <2> QED
    BY <2>3
<1>5. Fired(p, x) \subseteq Fired(c, x)
  <2> SUFFICES ASSUME NEW i \in DOMAIN p.constraints, Matches(p.constraints[i].after, x)
               PROVE  p.constraints[i].id \in Fired(c, x)
    BY DEF Fired, Rules
  <2>1. PICK j \in DOMAIN c.constraints :
          /\ c.constraints[j].id = p.constraints[i].id
          /\ SameMatcher(c.constraints[j].after, p.constraints[i].after)
    BY <1>2
  <2>2. Matches(c.constraints[j].after, x)
    BY <2>1 DEF SameMatcher, Matches
  <2> QED
    BY <2>1, <2>2 DEF Fired, Rules
<1> QED
  BY <1>3, <1>4, <1>5 DEF Admits

-----------------------------------------------------------------------------
(****************************************************************************)
(* Capabilities and claims.                                                 *)
(****************************************************************************)

\* A stem is a string, and a pattern's stem is shorter by its star.
LEMMA StemType ==
  ASSUME NEW s \in Str
  PROVE  /\ Stem(s) \in Str
         /\ IsPattern(s) => Len(Stem(s)) = Len(s) - 1
         /\ ~ IsPattern(s) => Stem(s) = s
<1>1. CASE IsPattern(s)
  <2>1. Len(s) \in Nat /\ Len(s) > 0
    BY <1>1 DEF IsPattern, Str
  <2>2. PICK n \in Nat : n = Len(s) - 1
    BY <2>1
  <2>3. [k \in 1 .. n |-> s[k]] \in Seq(Char) /\ Len([k \in 1 .. n |-> s[k]]) = n
    <3>1. \A k \in 1 .. n : s[k] \in Char
      BY <2>1, <2>2 DEF Str
    <3> QED
      BY <3>1, <2>2
  <2> QED
    BY <1>1, <2>2, <2>3 DEF Stem, Str
<1>2. CASE ~ IsPattern(s)
  BY <1>2 DEF Stem
<1> QED
  BY <1>1, <1>2

\* Being a prefix is transitive.
LEMMA PrefixTransitive ==
  ASSUME NEW s \in Str, NEW t \in Str, NEW u \in Str, HasPrefix(s, t), HasPrefix(t, u)
  PROVE  HasPrefix(s, u)
BY DEF HasPrefix, Str

\* Identifier patterns: what covers a cover covers what it covers.
LEMMA IdCoversTransitive ==
  ASSUME NEW p \in Str, NEW q \in Str, NEW c \in Str, IdCovers(p, q), IdCovers(q, c)
  PROVE  IdCovers(p, c)
<1>1. CASE IsPattern(p) /\ IsPattern(q)
  BY <1>1, StemType, PrefixTransitive DEF IdCovers
<1>2. CASE IsPattern(p) /\ ~ IsPattern(q)
  BY <1>2 DEF IdCovers
<1>3. CASE ~ IsPattern(p)
  BY <1>3 DEF IdCovers
<1> QED
  BY <1>1, <1>2, <1>3

\* A request's literal is a string.
LEMMA LiteralType ==
  ASSUME NEW id \in Str
  PROVE  Literal(id) \in Str
BY CharAssumption DEF Literal, Str

-----------------------------------------------------------------------------
(****************************************************************************)
(* Conditions.                                                              *)
(****************************************************************************)

\* Every comparison is empty, or of its kind.
LEMMA ConditionType ==
  ASSUME NEW c \in Condition
  PROVE  /\ c.eq # Nil => c.eq \in Str
         /\ c.in # Nil => c.in \in Seq(Str)
         /\ c.prefix # Nil => c.prefix \in Str
         /\ c.min # Nil => c.min \in Int
         /\ c.max # Nil => c.max \in Int
BY DEF Condition

LEMMA CondCoversTransitive ==
  ASSUME NEW p \in Condition, NEW q \in Condition, NEW c \in Condition,
         InFragment(p), InFragment(q), InFragment(c), CondCovers(p, q), CondCovers(q, c)
  PROVE  CondCovers(p, c)
<1>1. CASE c.in # Nil /\ c.in = << >>
  BY <1>1 DEF CondCovers
<1>2. CASE ~ (c.in # Nil /\ c.in = << >>)
  <2>1. ~ (q.in # Nil /\ q.in = << >>)
    <3> SUFFICES ASSUME q.in # Nil, q.in = << >>, c.in # << >> \/ c.in = Nil PROVE FALSE
      BY <1>2
    <3>1. q.eq = Nil /\ Len(q.in) = 0
      BY DEF InFragment
    <3>2. c.in # Nil /\ c.in # << >> /\ \A k \in 1 .. Len(c.in) : InSet(q.in, c.in[k])
      BY <1>2, <3>1 DEF CondCovers, InSet
    <3>3. c.in \in Seq(Str) /\ 1 \in 1 .. Len(c.in)
      BY <3>2, ConditionType
    <3> QED
      BY <3>1, <3>2, <3>3 DEF InSet
  <2>2. CASE p.eq # Nil
    <3>1. q.eq # Nil /\ q.eq = p.eq
      BY <2>1, <2>2 DEF CondCovers
    <3>2. c.eq # Nil /\ c.eq = q.eq
      BY <1>2, <3>1 DEF CondCovers
    <3> QED
      BY <1>2, <2>2, <3>1, <3>2 DEF CondCovers
  <2>3. CASE p.in # Nil
    <3>1. p.eq = Nil
      BY <2>3 DEF InFragment
    <3>2. CASE q.eq # Nil
      BY <1>2, <2>1, <2>3, <3>1, <3>2 DEF CondCovers
    <3>3. CASE q.eq = Nil
      <4>1. q.in # Nil /\ \A k \in 1 .. Len(q.in) : InSet(p.in, q.in[k])
        BY <2>1, <2>3, <3>1, <3>3 DEF CondCovers
      <4>2. \A v : InSet(q.in, v) => InSet(p.in, v)
        BY <4>1 DEF InSet
      <4> QED
        BY <1>2, <2>3, <3>1, <3>3, <4>1, <4>2 DEF CondCovers
    <3> QED
      BY <3>2, <3>3
  <2>4. CASE p.prefix # Nil
    <3>1. p.eq = Nil /\ p.in = Nil /\ p.prefix \in Str
      BY <2>4, ConditionType DEF InFragment
    <3>2. CASE q.eq # Nil
      BY <1>2, <2>1, <2>4, <3>1, <3>2 DEF CondCovers
    <3>3. CASE q.eq = Nil /\ q.in # Nil
      <4>1. \A k \in 1 .. Len(q.in) : HasPrefix(q.in[k], p.prefix)
        BY <2>1, <2>4, <3>1, <3>3 DEF CondCovers, InFragment
      <4>2. \A v : InSet(q.in, v) => HasPrefix(v, p.prefix)
        BY <4>1 DEF InSet
      <4> QED
        BY <1>2, <2>4, <3>1, <3>3, <4>2 DEF CondCovers, InFragment
    <3>4. CASE q.eq = Nil /\ q.in = Nil
      <4>1. q.prefix # Nil /\ q.prefix \in Str /\ HasPrefix(q.prefix, p.prefix)
        BY <2>1, <2>4, <3>1, <3>4, ConditionType DEF CondCovers
      <4>2. \A v \in Str : HasPrefix(v, q.prefix) => HasPrefix(v, p.prefix)
        BY <3>1, <4>1, PrefixTransitive
      <4>3. CASE c.eq # Nil
        BY <1>2, <2>4, <3>1, <3>4, <4>1, <4>2, <4>3, ConditionType DEF CondCovers
      <4>4. CASE c.eq = Nil /\ c.prefix # Nil
        BY <1>2, <2>4, <3>1, <3>4, <4>1, <4>2, <4>4, ConditionType DEF CondCovers
      <4>5. CASE c.eq = Nil /\ c.prefix = Nil
        <5>1. c.in \in Seq(Str) /\ c.in # Nil
               /\ \A k \in 1 .. Len(c.in) : HasPrefix(c.in[k], q.prefix)
          BY <1>2, <3>4, <4>1, <4>5, ConditionType DEF CondCovers
        <5>2. \A k \in 1 .. Len(c.in) : c.in[k] \in Str
          BY <5>1
        <5> QED
          BY <1>2, <2>4, <3>1, <4>2, <4>5, <5>1, <5>2 DEF CondCovers
      <4> QED
        BY <4>3, <4>4, <4>5
    <3> QED
      BY <3>2, <3>3, <3>4
  <2>5. CASE p.eq = Nil /\ p.in = Nil /\ p.prefix = Nil
    <3>1. IsRange(p) /\ RangeCovers(p, q)
      BY <2>1, <2>5 DEF CondCovers
    <3>2. q.eq = Nil /\ q.in = Nil /\ q.prefix = Nil
      BY <3>1 DEF InFragment, RangeCovers
    <3>3. RangeCovers(q, c)
      BY <1>2, <3>2 DEF CondCovers
    <3>4. RangeCovers(p, c)
      BY <3>1, <3>3, ConditionType DEF RangeCovers
    <3> QED
      BY <1>2, <2>5, <3>1, <3>4 DEF CondCovers
  <2> QED
    BY <2>2, <2>3, <2>4, <2>5
<1> QED
  BY <1>1, <1>2

\* A value that meets the child's condition meets the parent's.
LEMMA CondCoversSound ==
  ASSUME NEW p \in Condition, NEW c \in Condition, InFragment(p), InFragment(c),
         CondCovers(p, c), NEW v \in Value, Satisfies(c, v)
  PROVE  Satisfies(p, v)
<1>1. v.kind = "string" => v.val \in Str
  BY DEF Value
<1>2. v.kind = "number" => v.val \in Int
  BY DEF Value
<1>3. ~ (c.in # Nil /\ c.in = << >>)
  BY DEF Satisfies, InSet, InFragment
<1>4. CASE p.eq # Nil
  BY <1>3, <1>4 DEF CondCovers, Satisfies
<1>5. CASE p.in # Nil
  BY <1>3, <1>5 DEF CondCovers, Satisfies, InFragment, InSet
<1>6. CASE p.prefix # Nil
  <2>1. p.eq = Nil /\ p.in = Nil /\ p.prefix \in Str
    BY <1>6, ConditionType DEF InFragment
  <2>2. v.kind = "string"
    BY <1>3, <1>6, <2>1 DEF CondCovers, Satisfies
  <2>3. HasPrefix(v.val, p.prefix)
    <3>1. CASE c.eq # Nil
      BY <1>3, <1>6, <2>1, <3>1 DEF CondCovers, Satisfies
    <3>2. CASE c.eq = Nil /\ c.prefix # Nil
      <4>1. HasPrefix(v.val, c.prefix) /\ HasPrefix(c.prefix, p.prefix)
        BY <1>3, <1>6, <2>1, <3>2 DEF CondCovers, Satisfies, InFragment
      <4> QED
        BY <1>1, <2>1, <2>2, <3>2, <4>1, ConditionType, PrefixTransitive
    <3>3. CASE c.eq = Nil /\ c.prefix = Nil
      BY <1>3, <1>6, <2>1, <3>3 DEF CondCovers, Satisfies, InSet
    <3> QED
      BY <3>1, <3>2, <3>3
  <2> QED
    BY <2>1, <2>2, <2>3, <1>6 DEF Satisfies
<1>7. CASE p.eq = Nil /\ p.in = Nil /\ p.prefix = Nil
  <2>1. IsRange(p) /\ RangeCovers(p, c)
    BY <1>3, <1>7 DEF CondCovers
  <2>2. c.eq = Nil /\ c.in = Nil /\ c.prefix = Nil
    BY <2>1 DEF InFragment, RangeCovers
  <2> QED
    BY <1>2, <1>7, <2>1, <2>2, ConditionType DEF Satisfies, RangeCovers
<1> QED
  BY <1>4, <1>5, <1>6, <1>7

-----------------------------------------------------------------------------
(****************************************************************************)
(* Capabilities.                                                            *)
(****************************************************************************)
LEMMA ConditionsType ==
  ASSUME NEW c \in Capability, NEW k \in Key, c.conditions[k] # Nil, ValidCapability(c)
  PROVE  c.conditions[k] \in Condition /\ InFragment(c.conditions[k])
BY DEF Capability, ValidCapability

\* Entailment is transitive: whatever two delegations in a row may grant,
\* one could have.
THEOREM EntailsTransitive ==
  ASSUME NEW p \in Capability, NEW q \in Capability, NEW c \in Capability,
         ValidCapability(p), ValidCapability(q), ValidCapability(c),
         Entails(p, q), Entails(q, c)
  PROVE  Entails(p, c)
<1>1. IdCovers(p.id, c.id)
  BY IdCoversTransitive DEF Entails, Capability
<1>2. ASSUME NEW k \in Key, p.conditions[k] # Nil
      PROVE  c.conditions[k] # Nil /\ CondCovers(p.conditions[k], c.conditions[k])
  <2>1. /\ q.conditions[k] # Nil /\ CondCovers(p.conditions[k], q.conditions[k])
        /\ c.conditions[k] # Nil /\ CondCovers(q.conditions[k], c.conditions[k])
    BY <1>2 DEF Entails
  <2>2. /\ p.conditions[k] \in Condition /\ InFragment(p.conditions[k])
        /\ q.conditions[k] \in Condition /\ InFragment(q.conditions[k])
        /\ c.conditions[k] \in Condition /\ InFragment(c.conditions[k])
    BY <1>2, <2>1, ConditionsType
  <2> QED
    BY <2>1, <2>2, CondCoversTransitive
<1> QED
  BY <1>1, <1>2 DEF Entails

\* Entailment is sound: every request a child capability admits, the parent
\* capability that entails it admits too.
THEOREM EntailsSound ==
  ASSUME NEW p \in Capability, NEW c \in Capability, NEW req \in Request,
         ValidCapability(p), ValidCapability(c), Entails(p, c), Covers(c, req)
  PROVE  Covers(p, req)
<1>1. IdCovers(p.id, Literal(req.id))
  BY IdCoversTransitive, LiteralType DEF Entails, Covers, Capability, Request
<1>2. ASSUME NEW k \in Key, p.conditions[k] # Nil
      PROVE  req.attributes[k] # Nil /\ Satisfies(p.conditions[k], req.attributes[k])
  <2>1. /\ c.conditions[k] # Nil /\ CondCovers(p.conditions[k], c.conditions[k])
        /\ req.attributes[k] # Nil /\ Satisfies(c.conditions[k], req.attributes[k])
    BY <1>2 DEF Entails, Covers
  <2>2. /\ p.conditions[k] \in Condition /\ InFragment(p.conditions[k])
        /\ c.conditions[k] \in Condition /\ InFragment(c.conditions[k])
    BY <1>2, <2>1, ConditionsType
  <2>3. req.attributes[k] \in Value
    BY <2>1 DEF Request
  <2> QED
    BY <2>1, <2>2, <2>3, CondCoversSound
<1> QED
  BY <1>1, <1>2 DEF Entails, Covers

\* What a set of capabilities permits, any set that entails it permits.
THEOREM PermitsSound ==
  ASSUME NEW parent \in SUBSET Capability, NEW child \in SUBSET Capability, NEW req \in Request,
         \A c \in parent \cup child : ValidCapability(c),
         CapsEntailed(parent, child), Permits(child, req)
  PROVE  Permits(parent, req)
BY EntailsSound DEF CapsEntailed, Permits

\* Sets of capabilities narrow transitively.
LEMMA CapsEntailedTransitive ==
  ASSUME NEW P \in SUBSET Capability, NEW Q \in SUBSET Capability, NEW C \in SUBSET Capability,
         \A c \in P \cup Q \cup C : ValidCapability(c),
         CapsEntailed(P, Q), CapsEntailed(Q, C)
  PROVE  CapsEntailed(P, C)
BY EntailsTransitive DEF CapsEntailed

-----------------------------------------------------------------------------
(****************************************************************************)
(* What is valid entails itself.                                            *)
(****************************************************************************)
LEMMA CondCoversReflexive ==
  ASSUME NEW c \in Condition, InFragment(c)
  PROVE  CondCovers(c, c)
<1>1. \A s \in Str : HasPrefix(s, s)
  BY DEF HasPrefix, Str
<1>2. CASE c.prefix # Nil
  BY <1>1, <1>2, ConditionType DEF CondCovers, InFragment
<1>3. CASE c.min # Nil \/ c.max # Nil
  BY <1>3, ConditionType DEF CondCovers, InFragment, IsRange, RangeCovers
<1>4. CASE c.eq # Nil \/ c.in # Nil
  BY <1>4 DEF CondCovers, InFragment, InSet
<1> QED
  BY <1>2, <1>3, <1>4 DEF InFragment, IsRange

LEMMA EntailsReflexive ==
  ASSUME NEW c \in Capability, ValidCapability(c)
  PROVE  Entails(c, c)
<1>1. IdCovers(c.id, c.id)
  <2>1. c.id \in Str /\ Stem(c.id) \in Str
    BY StemType DEF Capability
  <2> QED
    BY <2>1 DEF IdCovers, HasPrefix, Str
<1> QED
  BY <1>1, ConditionsType, CondCoversReflexive DEF Entails

(****************************************************************************)
(* Assertions.  Bounding is reflexive and is carried over one link.         *)
(****************************************************************************)
LEMMA ClaimsType ==
  ASSUME NEW Who, NEW Jti, NEW c \in Claims(Who, Jti), ValidClaims(c)
  PROVE  /\ c.exp \in Int /\ c.depth \in Int /\ c.maxDepth \in Int /\ c.maxDepth >= 0
         /\ c.seq \in Sequence \cup {Nil}
         /\ c.caps \in SUBSET Capability
         /\ \A k \in c.caps : ValidCapability(k)
BY DEF Claims, ValidClaims

LEMMA BoundsReflexive ==
  ASSUME NEW Who, NEW Jti, NEW c \in Claims(Who, Jti), ValidClaims(c)
  PROVE  Bounds(c, c)
<1>1. CapsEntailed(c.caps, c.caps)
  BY ClaimsType, EntailsReflexive DEF CapsEntailed
<1>2. SeqNoWider(c.seq, c.seq)
  BY ClaimsType, SeqNoWiderReflexive DEF ValidClaims
<1> QED
  BY <1>1, <1>2, ClaimsType DEF Bounds

LEMMA BoundsAttenuates ==
  ASSUME NEW Who, NEW Jti,
         NEW r \in Claims(Who, Jti), NEW p \in Claims(Who, Jti), NEW c \in Claims(Who, Jti),
         ValidClaims(r), ValidClaims(p), ValidClaims(c),
         Bounds(r, p), Attenuates(p, c), c.depth = p.depth + 1
  PROVE  Bounds(r, c)
<1>1. CapsEntailed(r.caps, c.caps)
  <2>1. CapsEntailed(r.caps, p.caps) /\ CapsEntailed(p.caps, c.caps)
    BY DEF Bounds, Attenuates
  <2>2. /\ r.caps \in SUBSET Capability /\ p.caps \in SUBSET Capability
        /\ c.caps \in SUBSET Capability
        /\ \A k \in r.caps \cup p.caps \cup c.caps : ValidCapability(k)
    BY ClaimsType
  <2> QED
    BY <2>1, <2>2, CapsEntailedTransitive
<1>2. SeqNoWider(r.seq, c.seq)
  <2>1. SeqNoWider(r.seq, p.seq) /\ SeqNoWider(p.seq, c.seq)
    BY DEF Bounds, Attenuates
  <2>2. r.seq \in Sequence \cup {Nil} /\ p.seq \in Sequence \cup {Nil} /\ c.seq \in Sequence \cup {Nil}
    BY ClaimsType
  <2> QED
    BY <2>1, <2>2, SeqNoWiderTransitive
<1>3. /\ r.exp \in Int /\ p.exp \in Int /\ c.exp \in Int
      /\ r.depth \in Int /\ p.depth \in Int /\ c.depth \in Int
      /\ r.maxDepth \in Int /\ p.maxDepth \in Int /\ c.maxDepth \in Int
  BY ClaimsType
<1>4. c.exp <= r.exp /\ c.depth + c.maxDepth <= r.depth + r.maxDepth
  BY <1>3 DEF Bounds, Attenuates
<1> QED
  BY <1>1, <1>2, <1>4 DEF Bounds, Attenuates
=============================================================================
