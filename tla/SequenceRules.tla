---------------------------- MODULE SequenceRules ----------------------------
(****************************************************************************)
(* The pure rules of pkg/sequence and of the sequence half of attenuation:  *)
(* what a constraint matches, which sequence claims compile, what one       *)
(* admission does to the state of a chain root (sequence.go), and when a    *)
(* child's constraints are no wider than its parent's (attenuation.go).     *)
(*                                                                          *)
(* An action's tags are a set and a matcher's tags a sequence: the code     *)
(* matches tags by membership but compares two matchers element by element. *)
(****************************************************************************)
EXTENDS Integers, Sequences

CONSTANTS Name,         \* action names and resource types
          Tag,          \* resource tags
          ConstraintId, \* constraint ids
          Empty,        \* the empty string
          Nil           \* the nil *mda.Sequence

ASSUME NamesAssumption == Empty \in Name /\ Empty \in ConstraintId

Matcher    == [action : Name, rtype : Name, tags : Seq(Tag)]
Constraint == [id : ConstraintId, forbid : Matcher, after : Matcher]
Sequence   == [max : Int, constraints : Seq(Constraint)]
Action     == [name : Name, rtype : Name, tags : SUBSET Tag]
State      == [invocations : Nat, triggered : SUBSET ConstraintId]

ASSUME NilAssumption == Nil \notin Sequence

Rules(s) == {s.constraints[i] : i \in DOMAIN s.constraints}

(****************************************************************************)
(* Matchers.                                                                *)
(****************************************************************************)
MatchesEverything(m) == m.action = Empty /\ m.rtype = Empty /\ m.tags = << >>

Matches(m, x) ==
  /\ m.action \in {Empty, x.name}
  /\ m.rtype \in {Empty, x.rtype}
  /\ \A k \in DOMAIN m.tags : m.tags[k] \in x.tags

SameMatcher(m, n) == m.action = n.action /\ m.rtype = n.rtype /\ m.tags = n.tags

(****************************************************************************)
(* Validate: the sequence claims that compile to one bit per constraint.    *)
(* A nil sequence is valid; it constrains nothing and says so.              *)
(****************************************************************************)
Compiles(s) ==
  s # Nil =>
    /\ s.max >= 0
    /\ s.max > 0 \/ s.constraints # << >>
    /\ \A i \in DOMAIN s.constraints :
         /\ s.constraints[i].id # Empty
         /\ ~ MatchesEverything(s.constraints[i].after)
         /\ \A j \in DOMAIN s.constraints :
              s.constraints[i].id = s.constraints[j].id => i = j

(****************************************************************************)
(* admit: the decision on one action against the state of its chain root.   *)
(****************************************************************************)
NoHistory == [invocations |-> 0, triggered |-> {}]

\* Mutated: the budget admits one action too many.
Exhausted_offByOne(st, s) == s.max > 0 /\ st.invocations > s.max

Exhausted(st, s) == s.max > 0 /\ st.invocations >= s.max

Forbidding(st, s, x) ==
  {i \in DOMAIN s.constraints :
     s.constraints[i].id \in st.triggered /\ Matches(s.constraints[i].forbid, x)}

Admits(st, s, x) == ~ Exhausted(st, s) /\ Forbidding(st, s, x) = {}

Fired(s, x) == {c.id : c \in {d \in Rules(s) : Matches(d.after, x)}}

\* Mutated: keeps only the triggers of the latest action.
Record_forgetsTriggers(st, s, x) ==
  [invocations |-> st.invocations + 1, triggered |-> Fired(s, x)]

Record(st, s, x) ==
  [invocations |-> st.invocations + 1, triggered |-> st.triggered \cup Fired(s, x)]

\* admit refuses, naming id: Empty for the budget, else the first rule that fired.
Denies(st, s, x, id) ==
  \/ Exhausted(st, s) /\ id = Empty
  \/ /\ ~ Exhausted(st, s)
     /\ \E i \in Forbidding(st, s, x) :
          /\ id = s.constraints[i].id
          /\ \A j \in Forbidding(st, s, x) : i <= j

(****************************************************************************)
(* seqNoWider: parent and child are sequences or Nil.                       *)
(****************************************************************************)
\* Mutated: compares budgets and lets the child drop inherited constraints.
SeqNoWider_budgetOnly(parent, child) ==
  parent # Nil =>
    /\ child # Nil
    /\ parent.max > 0 => child.max > 0 /\ child.max <= parent.max

SeqNoWider(parent, child) ==
  parent # Nil =>
    /\ child # Nil
    /\ parent.max > 0 => child.max > 0 /\ child.max <= parent.max
    /\ \A i \in DOMAIN parent.constraints :
         \E j \in DOMAIN child.constraints :
           /\ child.constraints[j].id = parent.constraints[i].id
           /\ \A k \in 1 .. (j - 1) :
                child.constraints[k].id # parent.constraints[i].id
           /\ SameMatcher(child.constraints[j].forbid, parent.constraints[i].forbid)
           /\ SameMatcher(child.constraints[j].after, parent.constraints[i].after)
=============================================================================
