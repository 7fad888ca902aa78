--------------------------- MODULE EnforcerProofs ---------------------------
(****************************************************************************)
(* Theorems about Enforcer, for every set of calls, chains, tools, roots    *)
(* and facts: what passes the checks is within every grant above it, what   *)
(* is refused leaves no trace, and the sponsor's budget and rules bind all  *)
(* calls below a grant together.                                            *)
(*                                                                          *)
(* Staged says what a call has established at its stage.  Folded and        *)
(* Entries* relate the store to the histories, as in SequenceStoreProofs;   *)
(* here an entry is no wider than any link because its whole chain is.      *)
(*                                                                          *)
(* The lemmas about the histories ask only what a step does to the store    *)
(* and that whoever is admitted presents a chain that narrows: they serve   *)
(* Gateway as well, whose calls go through other places.                    *)
(****************************************************************************)
EXTENDS Enforcer, GrantsProofs, FiniteSetTheorems, SequenceTheorems

PastPermits == {"mapping", "policy", "sequence"}
PastVerify  == PastPermits \cup {"permits"}

Narrow(ch) ==
  /\ ch # << >>
  /\ \A i \in DOMAIN ch : ValidClaims(ch[i])
  /\ \A i, j \in DOMAIN ch : i <= j => Within(ch[i], ch[j])

Staged(c) ==
  /\ pc[c] # "idle" => call[c].chain \in Presented /\ call[c].tool \in Tool
  /\ pc[c] = "policy" => todo[c] > 0
  /\ pc[c] # "done" => outcome[c] = "none"
  /\ pc[c] \in PastVerify \cup {"catalog"} \/ outcome[c] \in PastVerify \cup {"authorized"} =>
       Narrow(call[c].chain)
  /\ pc[c] \in PastPermits \/ outcome[c] \in PastPermits \cup {"authorized"} =>
       Permits(Leaf(c).caps, RequestOf(c))

Stages == \A c \in Call : Staged(c)

ForgottenOK == \A r \in Roots : forgotten[r] <= Len(history[r])

\* What is stored about a root is the fold of its remembered history.
Folded ==
  \A r \in Roots :
    /\ StateOf(r).invocations = Len(history[r]) - forgotten[r]
    /\ StateOf(r).triggered =
         {id \in ConstraintId :
            \E i \in Remembered(r) : id \in Fired(history[r][i].seq, history[r][i].action)}

Carried(c) == call[c].chain \in Presented /\ Narrow(call[c].chain)

\* Every entry is of a call below the root, with the claim of its leaf.
CarriedEntry(r, e) == Carried(e.call) /\ RootId(e.call) = r /\ e.seq = Leaf(e.call).seq

EntriesCarried == \A r \in Roots : \A i \in DOMAIN history[r] : CarriedEntry(r, history[r][i])

EntriesInBudget ==
  \A r \in Roots : \A i \in Remembered(r) :
    history[r][i].seq.max > 0 => i - forgotten[r] <= history[r][i].seq.max

EntriesKeepRules ==
  \A r \in Roots : \A i, j \in Remembered(r) : i < j =>
    \A c \in Rules(history[r][j].seq) :
      c.id \in Fired(history[r][i].seq, history[r][i].action) =>
        ~ Matches(c.forbid, history[r][j].action)

Histories == ForgottenOK /\ Folded /\ EntriesCarried /\ EntriesInBudget /\ EntriesKeepRules

StoreTypes ==
  /\ call \in [Call -> [chain : Seq(Claims(Principal, Id)), tool : Str]]
  /\ facts \in [Call -> Facts]
  /\ DOMAIN states \subseteq Roots /\ states \in [DOMAIN states -> State]
  /\ history \in [Roots -> Seq(Entry)]
  /\ forgotten \in [Roots -> Nat]

\* What admits a call.
Admitted(c) ==
  /\ Carried(c) /\ Leaf(c).seq # Nil
  /\ Admits(StateOf(RootId(c)), Leaf(c).seq, ActionOf(c))
  /\ Recorded(c)
  /\ call' = call

StoreStep ==
  \/ UNCHANGED <<states, history, forgotten>>
  \/ \E c \in Call : Admitted(c)
  \/ \E r \in Roots : Forget(r)

\* Calls that were recorded present what they presented.
RecordedKept ==
  \A r \in Roots : \A i \in DOMAIN history[r] : call'[history[r][i].call] = call[history[r][i].call]

IInv == TypeOK /\ Stages /\ RefusedNeverHappened /\ Histories

-----------------------------------------------------------------------------
(****************************************************************************)
(* The calls.                                                               *)
(****************************************************************************)
USE DEF world, store, vars

LEMMA ChainType ==
  ASSUME NEW ch \in Seq(Claims(Principal, Id)), ch # << >>
  PROVE  /\ Len(ch) \in Nat \ {0} /\ DOMAIN ch = 1 .. Len(ch)
         /\ 1 \in DOMAIN ch /\ Len(ch) \in DOMAIN ch
         /\ \A i \in DOMAIN ch : ch[i] \in Claims(Principal, Id)
<1> DEFINE S == Claims(Principal, Id)
<1> HIDE DEF S
<1>1. \A s \in Seq(S) : s # << >> => /\ Len(s) \in Nat \ {0} /\ DOMAIN s = 1 .. Len(s)
                                     /\ 1 \in DOMAIN s /\ Len(s) \in DOMAIN s
                                     /\ \A i \in DOMAIN s : s[i] \in S
  OBVIOUS
<1> QED
  BY <1>1 DEF S

LEMMA StateOfType ==
  ASSUME StoreTypes, NEW r PROVE StateOf(r) \in State
BY DEF StoreTypes, StateOf, NoHistory, State

LEMMA TypesOfStore == TypeOK => StoreTypes
BY DEF TypeOK, StoreTypes

\* The leaf of a call that passed verification, and what the links make of it.
LEMMA LeafType ==
  ASSUME NEW c \in Call, Carried(c)
  PROVE  /\ call[c].chain \in Seq(Claims(Principal, Id)) /\ call[c].chain # << >>
         /\ 1 \in DOMAIN call[c].chain
         /\ RootId(c) \in Roots
         /\ Leaf(c) \in Claims(Principal, Id) /\ ValidClaims(Leaf(c))
         /\ Leaf(c).seq \in Sequence \cup {Nil}
         /\ \A n \in DOMAIN call[c].chain :
              /\ call[c].chain[n] \in Claims(Principal, Id) /\ ValidClaims(call[c].chain[n])
              /\ Within(call[c].chain[n], Leaf(c))
<1> DEFINE ch == call[c].chain
<1>1. ch \in Presented /\ ch \in Seq(Claims(Principal, Id)) /\ ch # << >>
  BY EnforcerAssumption DEF Carried, Narrow
<1>2. RootId(c) \in Roots
  BY <1>1 DEF RootId, Roots
<1>3. /\ Len(ch) \in DOMAIN ch /\ 1 \in DOMAIN ch
      /\ \A n \in DOMAIN ch : ch[n] \in Claims(Principal, Id) /\ n <= Len(ch)
  BY <1>1, ChainType
<1>4. \A n \in DOMAIN ch : ValidClaims(ch[n]) /\ Within(ch[n], ch[Len(ch)])
  BY <1>3 DEF Carried, Narrow
<1>5. Leaf(c) = ch[Len(ch)]
  BY DEF Leaf
<1> HIDE DEF ch
<1>6. Leaf(c) \in Claims(Principal, Id) /\ ValidClaims(Leaf(c))
  BY <1>3, <1>4, <1>5
<1> QED
  BY <1>1, <1>2, <1>3, <1>4, <1>5, <1>6, ClaimsType DEF ch

LEMMA InitInv == Init => IInv
<1> SUFFICES ASSUME Init PROVE IInv
  OBVIOUS
<1>1. << >> \in Seq(Claims(Principal, Id)) /\ << >> \in Str /\ << >> \in Seq(Entry)
  BY DEF Str
<1>2. NoFacts \in Facts
  BY DEF NoFacts, Facts
<1>3. TypeOK
  <2>1. states \in [DOMAIN states -> State] /\ DOMAIN states \subseteq Roots
    BY DEF Init
  <2>2. call \in [Call -> [chain : Seq(Claims(Principal, Id)), tool : Str]]
    BY <1>1 DEF Init, NoCall
  <2>3. history \in [Roots -> Seq(Entry)] /\ forgotten \in [Roots -> Nat]
    BY <1>1 DEF Init
  <2>4. began \in [Call -> [clock : Nat, revoked : SUBSET Id]]
    BY DEF Init, AtRest
  <2> QED
    BY <1>2, <2>1, <2>2, <2>3, <2>4 DEF Init, TypeOK
<1>4. Stages
  BY DEF Init, Stages, Staged, PastVerify, PastPermits
<1>5. \A r \in Roots : /\ Len(history[r]) = 0 /\ DOMAIN history[r] = {} /\ forgotten[r] = 0
                       /\ Remembered(r) = {} /\ StateOf(r) = NoHistory
  BY DEF Init, Remembered, StateOf
<1>6. RefusedNeverHappened
  BY <1>5 DEF RefusedNeverHappened
<1>7. Histories
  BY <1>5 DEF Histories, ForgottenOK, Folded, EntriesCarried, EntriesInBudget, EntriesKeepRules, NoHistory
<1> QED
  BY <1>3, <1>4, <1>6, <1>7 DEF IInv

\* What a check does to the call it is about.
Checked(c) ==
  /\ pc[c] # "idle" /\ pc[c] # "done"
  /\ call' = call /\ revoked' = revoked /\ clock' = clock
  /\ began' = [began EXCEPT ![c] = AtRest]
  /\ \A d \in Call \ {c} : /\ pc'[d] = pc[d] /\ outcome'[d] = outcome[d]
                           /\ facts'[d] = facts[d]

LEMMA CheckIsChecked ==
  ASSUME TypeOK, NEW c \in Call, Step(c)
  PROVE  Checked(c)
BY DEF Step, NoTool, Verify, Describe, Permit, Map, Evaluate, AdmitUnconstrained, Admit, RefuseSequence,
       Refuse, Finish, GoTo, Checked, TypeOK

-----------------------------------------------------------------------------
(****************************************************************************)
(* Type correctness.                                                        *)
(****************************************************************************)
\* What admission does to the store and the histories.
LEMMA AdmitAppends ==
  ASSUME StoreTypes, NEW c \in Call, Admitted(c),
         NEW r, NEW s, NEW x, r = RootId(c), s = Leaf(c).seq, x = ActionOf(c)
  PROVE  /\ r \in Roots /\ s \in Sequence /\ x \in Action
         /\ Admits(StateOf(r), s, x)
         /\ StateOf(r)' = Record(StateOf(r), s, x)
         /\ history[r] \in Seq(Entry)
         /\ history'[r] \in Seq(Entry)
         /\ Len(history'[r]) = Len(history[r]) + 1
         /\ history'[r][Len(history[r]) + 1] = [call |-> c, seq |-> s, action |-> x]
         /\ \A i \in 1 .. Len(history[r]) : history'[r][i] = history[r][i]
         /\ \A q \in Roots \ {r} : StateOf(q)' = StateOf(q) /\ history'[q] = history[q]
         /\ forgotten' = forgotten
<1>1. Carried(c) /\ Leaf(c).seq # Nil
  BY DEF Admitted
<1>2. r \in Roots /\ s \in Sequence
  BY <1>1, LeafType
<1>3. x \in Action
  <2>1. facts[c].tags \in SUBSET Tag
    BY DEF StoreTypes, Facts
  <2> QED
    BY <2>1, EnforcerAssumption DEF ActionOf, Action
<1>4. /\ Admits(StateOf(r), s, x)
      /\ states' = [q \in DOMAIN states \cup {r} |->
                      IF q = r THEN Record(StateOf(r), s, x) ELSE states[q]]
      /\ history' = [history EXCEPT ![r] = Append(@, [call |-> c, seq |-> s, action |-> x])]
      /\ forgotten' = forgotten
  BY DEF Admitted, Recorded
<1>5. history \in [Roots -> Seq(Entry)]
  BY DEF StoreTypes
<1>6. [call |-> c, seq |-> s, action |-> x] \in Entry
  BY <1>2, <1>3 DEF Entry
<1>7. StateOf(r)' = Record(StateOf(r), s, x) /\ \A q \in Roots \ {r} : StateOf(q)' = StateOf(q)
  BY <1>4 DEF StateOf
<1>8. /\ history'[r] = Append(history[r], [call |-> c, seq |-> s, action |-> x])
      /\ \A q \in Roots \ {r} : history'[q] = history[q]
  BY <1>2, <1>4, <1>5
<1>9. history[r] \in Seq(Entry)
  BY <1>2, <1>5
<1>10. /\ history'[r] \in Seq(Entry)
       /\ Len(history'[r]) = Len(history[r]) + 1
       /\ history'[r][Len(history[r]) + 1] = [call |-> c, seq |-> s, action |-> x]
       /\ \A i \in 1 .. Len(history[r]) : history'[r][i] = history[r][i]
  BY <1>6, <1>8, <1>9
<1> QED
  BY <1>2, <1>3, <1>4, <1>7, <1>8, <1>9, <1>10

\* Admit admits.
LEMMA AdmitIsAdmitted ==
  ASSUME NEW c \in Call, Staged(c), Admit(c)
  PROVE  Admitted(c)
<1>1. pc[c] = "sequence"
  BY DEF Admit
<1>2. Carried(c)
  BY <1>1 DEF Staged, PastVerify, PastPermits, Carried
<1> QED
  BY <1>2 DEF Admit, Admitted, Finish

LEMMA NextStoreTypes ==
  ASSUME StoreTypes, StoreStep
  PROVE  /\ DOMAIN states' \subseteq Roots /\ states' \in [DOMAIN states' -> State]
         /\ history' \in [Roots -> Seq(Entry)]
         /\ forgotten' \in [Roots -> Nat]
<1> USE DEF StoreTypes
<1>1. ASSUME NEW c \in Call, Admitted(c)
      PROVE  /\ DOMAIN states' \subseteq Roots /\ states' \in [DOMAIN states' -> State]
             /\ history' \in [Roots -> Seq(Entry)] /\ forgotten' = forgotten
  <2>0. PICK r, s, x : r = RootId(c) /\ s = Leaf(c).seq /\ x = ActionOf(c)
    OBVIOUS
  <2>1. r \in Roots /\ s \in Sequence /\ history'[r] \in Seq(Entry) /\ forgotten' = forgotten
    BY <1>1, <2>0, AdmitAppends
  <2>2. Record(StateOf(r), s, x) \in State
    BY <2>1, StateOfType, RecordType
  <2>3. /\ states' = [q \in DOMAIN states \cup {r} |-> IF q = r THEN Record(StateOf(r), s, x) ELSE states[q]]
        /\ history' = [history EXCEPT ![r] = Append(@, [call |-> c, seq |-> s, action |-> x])]
    BY <1>1, <2>0 DEF Admitted, Recorded
  <2>4. \A q \in DOMAIN states : q \in Roots /\ states[q] \in State
    OBVIOUS
  <2> QED
    BY <2>1, <2>2, <2>3, <2>4
<1>2. ASSUME NEW r \in Roots, Forget(r)
      PROVE  /\ DOMAIN states' \subseteq Roots /\ states' \in [DOMAIN states' -> State]
             /\ history' = history /\ forgotten' \in [Roots -> Nat]
  <2>1. history[r] \in Seq(Entry)
    OBVIOUS
  <2>2. Len(history[r]) \in Nat
    BY <2>1
  <2> QED
    BY <1>2, <2>2 DEF Forget
<1> QED
  BY <1>1, <1>2 DEF StoreStep

\* What a check leaves typed, given what it does to facts, todo and the store.
LEMMA NextType ==
  ASSUME TypeOK, Stages, [Next]_vars
  PROVE  TypeOK'
<1>1. ASSUME NEW c \in Call, NEW ch \in Presented, NEW tool \in Tool, Authorize(c, ch, tool)
      PROVE  TypeOK'
  <2>1. [chain |-> ch, tool |-> tool] \in [chain : Seq(Claims(Principal, Id)), tool : Str]
    BY EnforcerAssumption
  <2>2. [clock |-> clock, revoked |-> revoked] \in [clock : Nat, revoked : SUBSET Id]
    BY DEF TypeOK
  <2>3. /\ call' \in [Call -> [chain : Seq(Claims(Principal, Id)), tool : Str]]
        /\ began' \in [Call -> [clock : Nat, revoked : SUBSET Id]]
    BY <1>1, <2>1, <2>2 DEF Authorize, TypeOK
  <2>4. pc' \in [Call -> {"idle", "verify", "catalog", "permits", "mapping", "policy", "sequence", "done"}]
    BY <1>1 DEF Authorize, TypeOK
  <2> QED
    BY <1>1, <2>3, <2>4 DEF Authorize, TypeOK
<1>2. ASSUME NEW c \in Call, Step(c), UNCHANGED <<facts, todo, states, history, forgotten>>
      PROVE  TypeOK'
  <2>1. AtRest \in [clock : Nat, revoked : SUBSET Id]
    BY DEF AtRest
  <2>2. Checked(c)
    BY <1>2, CheckIsChecked
  <2>3. \/ /\ \E p \in {"catalog", "permits", "mapping", "policy", "sequence"} : pc' = [pc EXCEPT ![c] = p]
           /\ outcome' = outcome
        \/ /\ pc' = [pc EXCEPT ![c] = "done"]
           /\ \E how \in {"verify", "catalog", "permits", "mapping", "policy", "sequence", "authorized"} :
                outcome' = [outcome EXCEPT ![c] = how]
    BY <1>2 DEF Step, NoTool, Verify, Describe, Permit, Map, Evaluate, AdmitUnconstrained, Admit, RefuseSequence,
           Refuse, Finish, GoTo
  <2>4. /\ pc' \in [Call -> {"idle", "verify", "catalog", "permits", "mapping", "policy", "sequence", "done"}]
        /\ outcome' \in [Call -> {"none", "verify", "catalog", "permits", "mapping", "policy", "sequence", "authorized"}]
    <3>1. /\ pc \in [Call -> {"idle", "verify", "catalog", "permits", "mapping", "policy", "sequence", "done"}]
          /\ outcome \in [Call -> {"none", "verify", "catalog", "permits", "mapping", "policy", "sequence", "authorized"}]
      BY DEF TypeOK
    <3>2. CASE \E p \in {"catalog", "permits", "mapping", "policy", "sequence"} :
                 pc' = [pc EXCEPT ![c] = p] /\ outcome' = outcome
      BY <3>1, <3>2
    <3>3. CASE pc' = [pc EXCEPT ![c] = "done"]
      BY <2>3, <3>1, <3>3
    <3> QED
      BY <2>3, <3>2, <3>3
  <2>5. /\ clock' = clock /\ revoked' = revoked /\ call' = call
        /\ began' \in [Call -> [clock : Nat, revoked : SUBSET Id]]
    BY <2>1, <2>2 DEF Checked, TypeOK
  <2> QED
    BY <1>2, <2>4, <2>5 DEF TypeOK
<1>3. ASSUME NEW c \in Call, NEW f \in Facts, NEW n \in Nat,
             NEW p \in {"catalog", "permits", "mapping", "policy", "sequence"}, GoTo(c, p),
             facts' = [facts EXCEPT ![c] = f] \/ facts' = facts,
             todo' = [todo EXCEPT ![c] = n] \/ todo' = todo,
             UNCHANGED <<clock, revoked, states, history, forgotten>>
      PROVE  TypeOK'
  <2>1. AtRest \in [clock : Nat, revoked : SUBSET Id]
    BY DEF AtRest
  <2>2. /\ pc' \in [Call -> {"idle", "verify", "catalog", "permits", "mapping", "policy", "sequence", "done"}]
        /\ began' \in [Call -> [clock : Nat, revoked : SUBSET Id]]
        /\ outcome' = outcome /\ call' = call
    BY <1>3, <2>1 DEF GoTo, TypeOK
  <2>3. facts' \in [Call -> Facts] /\ todo' \in [Call -> Nat]
    <3>1. facts \in [Call -> Facts] /\ todo \in [Call -> Nat]
      BY DEF TypeOK
    <3>2. facts' \in [Call -> Facts]
      BY <1>3, <3>1
    <3>3. todo' \in [Call -> Nat]
      BY <1>3, <3>1
    <3> QED
      BY <3>2, <3>3
  <2> QED
    BY <1>3, <2>2, <2>3 DEF TypeOK
<1>4. ASSUME NEW c \in Call, Describe(c) PROVE TypeOK'
  <2>1. CASE Refuse(c, "catalog")
    BY <1>2, <1>4, <2>1 DEF Refuse, Step
  <2>2. ASSUME NEW f \in Described[call[c].tool], facts' = [facts EXCEPT ![c] = f], GoTo(c, "permits"),
               UNCHANGED <<world, todo, store>>
        PROVE  TypeOK'
    <3>1. call[c].tool \in Tool
      BY <1>4 DEF Describe, Stages, Staged
    <3>2. f \in Facts
      BY <2>2, <3>1, EnforcerAssumption
    <3> QED
      BY <1>3, <2>2, <3>2
  <2> QED
    BY <1>4, <2>1, <2>2 DEF Describe
<1>5. ASSUME NEW c \in Call, Map(c) PROVE TypeOK'
  <2>1. CASE Refuse(c, "mapping")
    BY <1>2, <1>5, <2>1 DEF Refuse, Step
  <2>2. facts[c].requests \in Nat
    BY DEF TypeOK, Facts
  <2>3. PICK n \in Nat : n = IF facts[c].requests = 0 THEN 1 ELSE facts[c].requests
    BY <2>2
  <2>4. ASSUME GoTo(c, "policy"), todo' = [todo EXCEPT ![c] = n], UNCHANGED <<world, facts, store>>
        PROVE  TypeOK'
    <3>1. facts[c] \in Facts
      BY DEF TypeOK
    <3> QED
      BY <1>3, <2>4, <3>1
  <2> QED
    BY <1>5, <2>1, <2>3, <2>4 DEF Map
<1>6. ASSUME NEW c \in Call, Evaluate(c) PROVE TypeOK'
  <2>1. CASE Refuse(c, "policy")
    BY <1>2, <1>6, <2>1 DEF Refuse, Step
  <2>2. todo \in [Call -> Nat] /\ todo[c] > 0
    BY <1>6 DEF Evaluate, Stages, Staged, TypeOK
  <2>3. PICK n \in Nat : n = todo[c] - 1
    BY <2>2
  <2>4. ASSUME NEW p \in {"policy", "sequence"}, GoTo(c, p), todo' = [todo EXCEPT ![c] = n],
               UNCHANGED <<world, facts, store>>
        PROVE  TypeOK'
    <3>1. facts[c] \in Facts
      BY DEF TypeOK
    <3> QED
      BY <1>3, <2>4, <3>1
  <2> QED
    BY <1>6, <2>1, <2>2, <2>3, <2>4 DEF Evaluate
<1>7. ASSUME NEW c \in Call, Admit(c) PROVE TypeOK'
  <2>1. StoreTypes /\ StoreStep
    BY <1>7, AdmitIsAdmitted, TypesOfStore DEF StoreStep, Stages
  <2>2. /\ DOMAIN states' \subseteq Roots /\ states' \in [DOMAIN states' -> State]
        /\ history' \in [Roots -> Seq(Entry)] /\ forgotten' \in [Roots -> Nat]
    BY <2>1, NextStoreTypes
  <2>3. AtRest \in [clock : Nat, revoked : SUBSET Id]
    BY DEF AtRest
  <2> QED
    BY <1>7, <2>2, <2>3 DEF Admit, Finish, TypeOK
<1>8. ASSUME NEW c \in Call, NoTool(c) \/ Verify(c) \/ Permit(c) \/ AdmitUnconstrained(c) \/ RefuseSequence(c)
      PROVE  TypeOK'
  <2>1. UNCHANGED <<facts, todo, states, history, forgotten>>
    BY <1>8 DEF NoTool, Verify, Permit, AdmitUnconstrained, RefuseSequence, Refuse
  <2> QED
    BY <1>2, <1>8, <2>1 DEF Step
<1>9. ASSUME Tick \/ (\E id \in Id \ {Empty} : Revoke(id)) \/ UNCHANGED vars
      PROVE  TypeOK'
  BY <1>9 DEF Tick, Revoke, TypeOK
<1>10. ASSUME NEW r \in Roots, Forget(r)
       PROVE  TypeOK'
  <2>1. /\ DOMAIN states' \subseteq Roots /\ states' \in [DOMAIN states' -> State]
        /\ history' \in [Roots -> Seq(Entry)] /\ forgotten' \in [Roots -> Nat]
    BY <1>10, NextStoreTypes, TypesOfStore DEF StoreStep
  <2> QED
    BY <1>10, <2>1 DEF Forget, TypeOK
<1> QED
  BY <1>1, <1>4, <1>5, <1>6, <1>7, <1>8, <1>9, <1>10 DEF Next, Step

-----------------------------------------------------------------------------
(****************************************************************************)
(* The stages.                                                              *)
(****************************************************************************)
\* What is acceptable has been compared link by link.
LEMMA AcceptableNarrows ==
  ASSUME NEW ch, NEW b, Acceptable(ch, b)
  PROVE  Narrow(ch)
BY DEF Acceptable, Narrow

\* A call that no step is about keeps what it has established.
LEMMA OtherStaged ==
  ASSUME NEW c \in Call, Staged(c),
         pc'[c] = pc[c], call'[c] = call[c], outcome'[c] = outcome[c], todo'[c] = todo[c], facts'[c] = facts[c]
  PROVE  Staged(c)'
BY DEF Staged, Leaf, RequestOf

LEMMA NextStages ==
  ASSUME TypeOK, Stages, [Next]_vars
  PROVE  Stages'
<1> USE DEF PastVerify, PastPermits
<1>1. ASSUME NEW c \in Call, NEW ch \in Presented, NEW tool \in Tool, Authorize(c, ch, tool)
      PROVE  Stages'
  <2>1. ASSUME NEW d \in Call, d # c PROVE Staged(d)'
    BY <1>1, <2>1, OtherStaged DEF Authorize, TypeOK, Stages
  <2>2. pc'[c] = "verify" /\ call'[c].chain = ch /\ call'[c].tool = tool /\ outcome'[c] = "none"
    BY <1>1 DEF Authorize, TypeOK, Stages, Staged
  <2> QED
    BY <2>1, <2>2 DEF Stages, Staged
<1>2. ASSUME NEW c \in Call, Step(c), Staged(c)' PROVE Stages'
  <2>1. \A d \in Call \ {c} : /\ pc'[d] = pc[d] /\ call'[d] = call[d] /\ outcome'[d] = outcome[d]
                              /\ todo'[d] = todo[d] /\ facts'[d] = facts[d]
    <3>1. \A d \in Call \ {c} : todo'[d] = todo[d]
      BY <1>2 DEF Step, NoTool, Verify, Describe, Permit, Map, Evaluate, AdmitUnconstrained, Admit,
         RefuseSequence, Refuse, TypeOK
    <3> QED
      BY <1>2, <3>1, CheckIsChecked DEF Checked
  <2>2. ASSUME NEW d \in Call, d # c PROVE Staged(d)'
    BY <2>1, <2>2, OtherStaged DEF Stages
  <2> QED
    BY <1>2, <2>2 DEF Stages
\* A refusal is in the name of the stage it happens at.
<1>3. ASSUME NEW c \in Call, Step(c), NEW how \in {"verify", "catalog", pc[c]}, Refuse(c, how)
      PROVE  Staged(c)'
  <2>1. pc'[c] = "done" /\ call'[c] = call[c] /\ facts'[c] = facts[c] /\ todo'[c] = todo[c] /\ outcome'[c] = how
    BY <1>3 DEF Refuse, Finish, TypeOK
  <2>2. pc[c] # "idle" /\ pc[c] # "done" /\ Staged(c) /\ outcome[c] = "none"
    BY <1>3, CheckIsChecked DEF Checked, Stages, Staged
  <2>3. Leaf(c)' = Leaf(c) /\ RequestOf(c)' = RequestOf(c)
    BY <2>1 DEF Leaf, RequestOf
  <2>4. \/ how = pc[c] /\ pc[c] # "authorized"
        \/ how \notin PastVerify \cup {"authorized"}
    BY <1>3 DEF TypeOK
  <2>5. call'[c].chain \in Presented /\ call'[c].tool \in Tool
    BY <2>1, <2>2 DEF Staged
  <2>6. outcome'[c] \in PastVerify \cup {"authorized"} => Narrow(call'[c].chain)
    BY <2>1, <2>2, <2>4 DEF Staged
  <2>7. outcome'[c] \in PastPermits \cup {"authorized"} => Permits(Leaf(c).caps, RequestOf(c))'
    BY <2>1, <2>2, <2>3, <2>4 DEF Staged
  <2>8. pc'[c] = "done"
    BY <2>1
  <2> QED
    BY <2>5, <2>6, <2>7, <2>8 DEF Staged
<1>4. ASSUME NEW c \in Call, NEW p, GoTo(c, p)
      PROVE  pc'[c] = p /\ call'[c] = call[c] /\ outcome'[c] = outcome[c]
  BY <1>4 DEF GoTo, TypeOK
<1>5. ASSUME NEW c \in Call, NoTool(c) \/ RefuseSequence(c) PROVE Stages'
  <2>1. Step(c) /\ \E how \in {"verify", "catalog", pc[c]} : Refuse(c, how)
    BY <1>5 DEF NoTool, RefuseSequence, Step
  <2>2. Staged(c)'
    BY <1>3, <2>1
  <2> QED
    BY <1>2, <2>1, <2>2
<1>6. ASSUME NEW c \in Call, Verify(c) PROVE Stages'
  <2>1. CASE Refuse(c, "verify")
    BY <1>2, <1>3, <1>6, <2>1 DEF Step
  <2>2. CASE Acceptable(call[c].chain, began[c]) /\ GoTo(c, "catalog")
    <3>1. Staged(c)'
      BY <1>4, <1>6, <2>2, AcceptableNarrows DEF Verify, Stages, Staged
    <3> QED
      BY <1>2, <1>6, <3>1 DEF Step
  <2> QED
    BY <1>6, <2>1, <2>2 DEF Verify
<1>7. ASSUME NEW c \in Call, Describe(c) PROVE Stages'
  <2>1. CASE Refuse(c, "catalog")
    BY <1>2, <1>3, <1>7, <2>1 DEF Step
  <2>2. CASE GoTo(c, "permits")
    <3>1. Staged(c)'
      BY <1>4, <1>7, <2>2 DEF Describe, Stages, Staged
    <3> QED
      BY <1>2, <1>7, <3>1 DEF Step
  <2> QED
    BY <1>7, <2>1, <2>2 DEF Describe
<1>8. ASSUME NEW c \in Call, Permit(c) PROVE Stages'
  <2>1. CASE Refuse(c, "permits")
    <3>1. pc[c] = "permits"
      BY <1>8 DEF Permit
    <3> QED
      BY <1>2, <1>3, <1>8, <2>1, <3>1 DEF Step
  <2>2. CASE Permits(Leaf(c).caps, RequestOf(c)) /\ GoTo(c, "mapping") /\ facts' = facts
    <3>1. Staged(c)'
      BY <1>4, <1>8, <2>2 DEF Permit, Stages, Staged, Leaf, RequestOf
    <3> QED
      BY <1>2, <1>8, <3>1 DEF Step
  <2> QED
    BY <1>8, <2>1, <2>2 DEF Permit
<1>9. ASSUME NEW c \in Call, Map(c) PROVE Stages'
  <2>1. CASE Refuse(c, "mapping")
    <3>1. pc[c] = "mapping"
      BY <1>9 DEF Map
    <3> QED
      BY <1>2, <1>3, <1>9, <2>1, <3>1 DEF Step
  <2>2. CASE /\ GoTo(c, "policy") /\ facts' = facts
             /\ todo' = [todo EXCEPT ![c] = IF facts[c].requests = 0 THEN 1 ELSE facts[c].requests]
    <3>1. todo'[c] > 0
      <4>1. facts[c].requests \in Nat
        BY DEF TypeOK, Facts
      <4> QED
        BY <2>2, <4>1 DEF TypeOK
    <3>2. Staged(c)'
      BY <1>4, <1>9, <2>2, <3>1 DEF Map, Stages, Staged, Leaf, RequestOf
    <3> QED
      BY <1>2, <1>9, <3>2 DEF Step
  <2> QED
    BY <1>9, <2>1, <2>2 DEF Map
<1>10. ASSUME NEW c \in Call, Evaluate(c) PROVE Stages'
  <2>1. CASE Refuse(c, "policy")
    <3>1. pc[c] = "policy"
      BY <1>10 DEF Evaluate
    <3> QED
      BY <1>2, <1>3, <1>10, <2>1, <3>1 DEF Step
  <2>2. ASSUME GoTo(c, IF todo[c] = 1 THEN "sequence" ELSE "policy"), facts' = facts,
               todo' = [todo EXCEPT ![c] = @ - 1]
        PROVE  Stages'
    <3>1. todo[c] \in Nat /\ todo[c] > 0 /\ todo'[c] = todo[c] - 1
      BY <1>10, <2>2 DEF Evaluate, Stages, Staged, TypeOK
    <3>2. pc'[c] = (IF todo[c] = 1 THEN "sequence" ELSE "policy") /\ call'[c] = call[c] /\ outcome'[c] = outcome[c]
      BY <1>4, <2>2
    <3>3. Staged(c)'
      BY <1>10, <2>2, <3>1, <3>2 DEF Evaluate, Stages, Staged, Leaf, RequestOf
    <3> QED
      BY <1>2, <1>10, <3>3 DEF Step
  <2> QED
    BY <1>10, <2>1, <2>2 DEF Evaluate
<1>11. ASSUME NEW c \in Call, AdmitUnconstrained(c) \/ Admit(c) PROVE Stages'
  <2>1. /\ pc[c] = "sequence" /\ Finish(c, "authorized") /\ facts' = facts /\ Step(c)
    BY <1>11 DEF AdmitUnconstrained, Admit, Step
  <2>2. pc'[c] = "done" /\ call'[c] = call[c] /\ outcome'[c] = "authorized"
    BY <2>1 DEF Finish, TypeOK
  <2>3. Staged(c)'
    BY <2>1, <2>2 DEF Stages, Staged, Leaf, RequestOf
  <2> QED
    BY <1>2, <2>1, <2>3
<1>12. CASE UNCHANGED <<pc, call, outcome, todo, facts>>
  BY <1>12, OtherStaged DEF Stages
<1>13. ASSUME Tick \/ (\E id \in Id \ {Empty} : Revoke(id)) \/ (\E r \in Roots : Forget(r)) \/ UNCHANGED vars
       PROVE  Stages'
  BY <1>12, <1>13 DEF Tick, Revoke, Forget
<1> QED
  BY <1>1, <1>5, <1>6, <1>7, <1>8, <1>9, <1>10, <1>11, <1>13 DEF Next, Step

-----------------------------------------------------------------------------
(****************************************************************************)
(* The histories: only Admit and Forget touch them or the store.            *)
(****************************************************************************)
LEMMA OthersKeepHistory ==
  ASSUME [Next]_vars
  PROVE  \/ UNCHANGED <<states, history, forgotten>>
         \/ \E c \in Call : Admit(c)
         \/ \E r \in Roots : Forget(r)
BY DEF Next, Step, Authorize, NoTool, Verify, Describe, Permit, Map, Evaluate, AdmitUnconstrained,
       RefuseSequence, Refuse, Tick, Revoke

\* A step is one of the store, and leaves alone what recorded calls presented.
LEMMA NextStore ==
  ASSUME Stages, RefusedNeverHappened, TypeOK, [Next]_vars
  PROVE  StoreStep /\ RecordedKept
<1>1. StoreStep
  BY OthersKeepHistory, AdmitIsAdmitted DEF StoreStep, Stages
<1>2. ASSUME NEW r \in Roots, NEW i \in DOMAIN history[r]
      PROVE  call'[history[r][i].call] = call[history[r][i].call]
  <2> DEFINE d == history[r][i].call
  <2>1. history[r] \in Seq(Entry)
    BY DEF TypeOK
  <2>2. d \in Call
    <3>1. history[r][i] \in Entry
      BY <1>2, <2>1
    <3> QED
      BY <3>1 DEF Entry
  <2>3. pc[d] = "done"
    <3>1. outcome[d] = "authorized"
      BY <1>2 DEF RefusedNeverHappened
    <3> QED
      BY <2>2, <3>1 DEF Stages, Staged
  <2> HIDE DEF d
  <2>4. ASSUME NEW c \in Call, NEW ch \in Presented, NEW tool \in Tool, Authorize(c, ch, tool)
        PROVE  call'[d] = call[d]
    BY <2>2, <2>3, <2>4 DEF Authorize, TypeOK
  <2>5. ASSUME NEW c \in Call, Step(c) PROVE call'[d] = call[d]
    BY <2>5, CheckIsChecked DEF Checked
  <2>6. call'[d] = call[d]
    BY <2>4, <2>5 DEF Next, Tick, Revoke, Forget
  <2> QED
    BY <2>6 DEF d
<1> QED
  BY <1>1, <1>2 DEF RecordedKept

LEMMA NextFold ==
  ASSUME StoreTypes, ForgottenOK, Folded, StoreStep
  PROVE  ForgottenOK' /\ Folded'
<1>1. CASE UNCHANGED <<states, history, forgotten>>
  BY <1>1 DEF ForgottenOK, Folded, StateOf, Remembered
<1>2. ASSUME NEW c \in Call, Admitted(c)
      PROVE  ForgottenOK' /\ Folded'
  <2>0. PICK r, s, x : r = RootId(c) /\ s = Leaf(c).seq /\ x = ActionOf(c)
    OBVIOUS
  <2>1. /\ r \in Roots /\ s \in Sequence
        /\ StateOf(r)' = Record(StateOf(r), s, x)
        /\ history[r] \in Seq(Entry)
        /\ Len(history'[r]) = Len(history[r]) + 1
        /\ history'[r][Len(history[r]) + 1] = [call |-> c, seq |-> s, action |-> x]
        /\ \A i \in 1 .. Len(history[r]) : history'[r][i] = history[r][i]
        /\ \A q \in Roots \ {r} : StateOf(q)' = StateOf(q) /\ history'[q] = history[q]
        /\ forgotten' = forgotten
    BY <1>2, <2>0, AdmitAppends
  <2>2. Len(history[r]) \in Nat /\ forgotten[r] \in Nat /\ forgotten[r] <= Len(history[r])
    BY <2>1 DEF StoreTypes, ForgottenOK
  <2>3. ForgottenOK'
    BY <2>1, <2>2 DEF ForgottenOK
  <2>4. Remembered(r)' = Remembered(r) \cup {Len(history[r]) + 1}
    BY <2>1, <2>2 DEF Remembered
  <2>5. \A i \in Remembered(r) : history'[r][i] = history[r][i]
    BY <2>1, <2>2 DEF Remembered
  <2>6. StateOf(r)'.invocations = Len(history'[r]) - forgotten'[r]
    <3>1. StateOf(r).invocations = Len(history[r]) - forgotten[r]
      BY <2>1 DEF Folded
    <3>2. StateOf(r)'.invocations = StateOf(r).invocations + 1
      BY <2>1 DEF Record
    <3> QED
      BY <2>1, <2>2, <3>1, <3>2
  <2>7. StateOf(r)'.triggered =
          {id \in ConstraintId :
             \E i \in Remembered(r)' : id \in Fired(history'[r][i].seq, history'[r][i].action)}
    <3>1. Fired(history'[r][Len(history[r]) + 1].seq, history'[r][Len(history[r]) + 1].action)
            = Fired(s, x)
      BY <2>1
    <3>2. StateOf(r)'.triggered = StateOf(r).triggered \cup Fired(s, x)
      BY <2>1 DEF Record
    <3>3. Fired(s, x) \subseteq ConstraintId
      BY <2>1, FiredType
    <3>4. StateOf(r).triggered =
            {id \in ConstraintId :
               \E i \in Remembered(r) : id \in Fired(history'[r][i].seq, history'[r][i].action)}
      BY <2>1, <2>5 DEF Folded
    <3> QED
      BY <2>4, <3>1, <3>2, <3>3, <3>4
  <2>8. ASSUME NEW q \in Roots \ {r}
        PROVE  /\ StateOf(q)'.invocations = Len(history'[q]) - forgotten'[q]
               /\ StateOf(q)'.triggered =
                    {id \in ConstraintId : \E i \in Remembered(q)' :
                       id \in Fired(history'[q][i].seq, history'[q][i].action)}
    BY <2>1 DEF Folded, Remembered
  <2>9. Folded'
    BY <2>6, <2>7, <2>8 DEF Folded
  <2> QED
    BY <2>3, <2>9
<1>3. ASSUME NEW r \in Roots, Forget(r)
      PROVE  ForgottenOK' /\ Folded'
  <2>1. /\ history' = history
        /\ forgotten' = [forgotten EXCEPT ![r] = Len(history[r])]
        /\ StateOf(r)' = NoHistory
        /\ \A q \in Roots \ {r} : StateOf(q)' = StateOf(q)
    BY <1>3 DEF Forget, StateOf
  <2>2. Len(history[r]) \in Nat
    <3>1. history[r] \in Seq(Entry)
      BY DEF StoreTypes
    <3> QED
      BY <3>1
  <2>3. Remembered(r)' = {} /\ \A q \in Roots \ {r} : Remembered(q)' = Remembered(q)
    BY <2>1, <2>2 DEF Remembered, StoreTypes
  <2>4. forgotten'[r] = Len(history[r]) /\ \A q \in Roots \ {r} : forgotten'[q] = forgotten[q]
    BY <2>1 DEF StoreTypes
  <2>5. ForgottenOK'
    BY <2>1, <2>2, <2>4 DEF ForgottenOK
  <2>6. ASSUME NEW q \in Roots
        PROVE  /\ StateOf(q)'.invocations = Len(history'[q]) - forgotten'[q]
               /\ StateOf(q)'.triggered =
                    {id \in ConstraintId : \E i \in Remembered(q)' :
                       id \in Fired(history'[q][i].seq, history'[q][i].action)}
    <3>1. CASE q = r
      BY <3>1, <2>1, <2>2, <2>3, <2>4 DEF NoHistory
    <3>2. CASE q # r
      BY <3>2, <2>1, <2>3, <2>4 DEF Folded
    <3> QED
      BY <3>1, <3>2
  <2> QED
    BY <2>5, <2>6 DEF Folded
<1> QED
  BY <1>1, <1>2, <1>3 DEF StoreStep


EntryParts == EntriesCarried /\ EntriesInBudget /\ EntriesKeepRules

LEMMA NextEntries ==
  ASSUME StoreTypes, ForgottenOK, Folded, EntryParts, StoreStep, RecordedKept
  PROVE  EntryParts'
<1> USE DEF EntryParts
\* What was recorded of a call stays true of it.
<1>a. ASSUME NEW r \in Roots, NEW i \in DOMAIN history[r], NEW e, e = history[r][i]
      PROVE  CarriedEntry(r, e)'
  <2>1. CarriedEntry(r, e) /\ call'[e.call] = call[e.call]
    BY <1>a DEF EntriesCarried, RecordedKept
  <2> QED
    BY <2>1 DEF CarriedEntry, Carried, RootId, Leaf
<1>b. UNCHANGED history => EntriesCarried'
  BY <1>a DEF EntriesCarried, CarriedEntry, Carried, RootId, Leaf
<1>1. CASE UNCHANGED <<states, history, forgotten>>
  BY <1>b, <1>1 DEF EntriesInBudget, EntriesKeepRules, Remembered
<1>2. ASSUME NEW c \in Call, Admitted(c)
      PROVE  EntryParts'
  <2>0. PICK r, s, x : r = RootId(c) /\ s = Leaf(c).seq /\ x = ActionOf(c)
    OBVIOUS
  <2> DEFINE n == Len(history[r]) + 1
  <2>1. /\ r \in Roots /\ s \in Sequence 
        /\ Admits(StateOf(r), s, x)
        /\ history[r] \in Seq(Entry)
        /\ Len(history'[r]) = n
        /\ history'[r][n] = [call |-> c, seq |-> s, action |-> x]
        /\ \A i \in 1 .. Len(history[r]) : history'[r][i] = history[r][i]
        /\ \A q \in Roots \ {r} : history'[q] = history[q]
        /\ forgotten' = forgotten
    BY <1>2, <2>0, AdmitAppends
  <2>2. Len(history[r]) \in Nat /\ forgotten[r] \in Nat /\ forgotten[r] <= Len(history[r])
    BY <2>1 DEF StoreTypes, ForgottenOK
  <2>4. /\ Remembered(r)' = Remembered(r) \cup {n}
        /\ Remembered(r) \subseteq 1 .. Len(history[r])
        /\ \A q \in Roots \ {r} : Remembered(q)' = Remembered(q)
    BY <2>1, <2>2 DEF Remembered
  <2>5. EntriesCarried'
    <3>1. ASSUME NEW e, e.call = c, e.seq = s PROVE CarriedEntry(r, e)'
      BY <1>2, <2>0, <3>1 DEF Admitted, CarriedEntry, Carried, RootId, Leaf
    <3>2. /\ DOMAIN history[r] = 1 .. Len(history[r])
          /\ DOMAIN history'[r] = DOMAIN history[r] \cup {n}
      BY <2>1
    <3>3. ASSUME NEW q \in Roots, NEW i \in DOMAIN history'[q]
          PROVE  \/ q = r /\ history'[q][i].call = c /\ history'[q][i].seq = s
                 \/ i \in DOMAIN history[q] /\ history'[q][i] = history[q][i]
      <4>1. CASE q = r
        BY <2>1, <3>2, <3>3, <4>1
      <4>2. CASE q # r
        BY <2>1, <3>3, <4>2
      <4> QED
        BY <4>1, <4>2
    <3>4. ASSUME NEW q \in Roots, NEW i \in DOMAIN history'[q], NEW e, e = history'[q][i]
          PROVE  CarriedEntry(q, e)'
      BY <1>a, <3>1, <3>3, <3>4
    <3> QED
      BY <3>4 DEF EntriesCarried, CarriedEntry, Carried, RootId, Leaf
  <2>6. EntriesInBudget'
    <3>1. s.max > 0 => n - forgotten[r] <= s.max
      <4>1. s.max > 0 => StateOf(r).invocations < s.max
        <5>1. StateOf(r).invocations \in Int /\ s.max \in Int
          BY <2>1, StateOfType DEF State, Sequence
        <5> QED
          BY <2>1, <5>1 DEF Admits, Exhausted
      <4>2. StateOf(r).invocations = Len(history[r]) - forgotten[r]
        BY <2>1 DEF Folded
      <4> QED
        BY <2>1, <2>2, <4>1, <4>2 DEF Sequence
    <3>2. ASSUME NEW i \in Remembered(r)'
          PROVE  history'[r][i].seq.max > 0 => i - forgotten[r] <= history'[r][i].seq.max
      <4>1. CASE i = n
        BY <2>1, <3>1, <4>1
      <4>2. CASE i \in Remembered(r)
        BY <2>1, <2>4, <4>2 DEF EntriesInBudget
      <4> QED
        BY <2>4, <4>1, <4>2
    <3> QED
      BY <2>1, <2>4, <3>2 DEF EntriesInBudget
  <2>7. EntriesKeepRules'
    <3>1. \A rule \in Rules(s) : rule.id \in StateOf(r).triggered => ~ Matches(rule.forbid, x)
      BY <2>1 DEF Admits, Forbidding, Rules
    <3>2. \A i \in Remembered(r) :
            Fired(history[r][i].seq, history[r][i].action) \subseteq StateOf(r).triggered
      <4>1. ASSUME NEW i \in Remembered(r)
            PROVE  Fired(history[r][i].seq, history[r][i].action) \subseteq ConstraintId
        <5>1. history[r][i] \in Entry
          BY <2>1, <2>4, <4>1
        <5> QED
          BY <5>1, FiredType DEF Entry
      <4> QED
        BY <2>1, <4>1 DEF Folded
    <3>3. ASSUME NEW i \in Remembered(r)', NEW j \in Remembered(r)', i < j,
                 NEW rule \in Rules(history'[r][j].seq),
                 rule.id \in Fired(history'[r][i].seq, history'[r][i].action)
          PROVE  ~ Matches(rule.forbid, history'[r][j].action)
      <4>1. i \in Remembered(r) /\ history'[r][i] = history[r][i]
        BY <2>1, <2>2, <2>4, <3>3
      <4>2. CASE j = n
        BY <2>1, <3>1, <3>2, <3>3, <4>1, <4>2
      <4>3. CASE j \in Remembered(r)
        <5>1. history'[r][j] = history[r][j]
          BY <2>1, <2>4, <4>3
        <5> QED
          BY <2>1, <3>3, <4>1, <4>3, <5>1 DEF EntriesKeepRules
      <4> QED
        BY <2>4, <4>2, <4>3
    <3>4. ASSUME NEW q \in Roots \ {r}, NEW i \in Remembered(q)', NEW j \in Remembered(q)', i < j,
                 NEW rule \in Rules(history'[q][j].seq),
                 rule.id \in Fired(history'[q][i].seq, history'[q][i].action)
          PROVE  ~ Matches(rule.forbid, history'[q][j].action)
      BY <2>1, <2>4, <3>4 DEF EntriesKeepRules
    <3> QED
      BY <3>3, <3>4 DEF EntriesKeepRules
  <2> QED
    BY <2>5, <2>6, <2>7
<1>3. ASSUME NEW r \in Roots, Forget(r)
      PROVE  EntryParts'
  <2>1. /\ history' = history
        /\ forgotten' = [forgotten EXCEPT ![r] = Len(history[r])]
    BY <1>3 DEF Forget
  <2>2. Len(history[r]) \in Nat
    <3>1. history[r] \in Seq(Entry)
      BY DEF StoreTypes
    <3> QED
      BY <3>1
  <2>3. Remembered(r)' = {}
    BY <2>1, <2>2 DEF Remembered, StoreTypes
  <2>4. \A q \in Roots \ {r} : Remembered(q)' = Remembered(q) /\ forgotten'[q] = forgotten[q]
    BY <2>1 DEF Remembered, StoreTypes
  <2>5. EntriesCarried'
    BY <1>b, <2>1
  <2>6. EntriesInBudget'
    BY <2>1, <2>3, <2>4 DEF EntriesInBudget
  <2>7. EntriesKeepRules'
    BY <2>1, <2>3, <2>4 DEF EntriesKeepRules
  <2> QED
    BY <2>5, <2>6, <2>7
<1> QED
  BY <1>1, <1>2, <1>3 DEF StoreStep

\* A call is recorded in the step that authorizes it, and in no other.
LEMMA NextRefused ==
  ASSUME TypeOK, Stages, RefusedNeverHappened, [Next]_vars
  PROVE  RefusedNeverHappened'
<1>1. ASSUME NEW r \in Roots, NEW i \in DOMAIN history[r]
      PROVE  history[r][i].call \in Call
  <2>1. history[r] \in Seq(Entry)
    BY DEF TypeOK
  <2>2. history[r][i] \in Entry
    BY <1>1, <2>1
  <2> QED
    BY <2>2 DEF Entry
\* Whose entry is there is done, so no later step is about that call.
<1>2. ASSUME NEW r \in Roots, NEW i \in DOMAIN history[r]
      PROVE  pc[history[r][i].call] = "done" /\ outcome[history[r][i].call] = "authorized"
  <2>1. history[r][i].call \in Call /\ outcome[history[r][i].call] = "authorized"
    BY <1>1, <1>2 DEF RefusedNeverHappened
  <2> QED
    BY <2>1 DEF Stages, Staged
<1>3. ASSUME NEW c \in Call, pc[c] = "done"
      PROVE  outcome'[c] = outcome[c]
  <2>1. ASSUME NEW d \in Call, Step(d) PROVE outcome'[c] = outcome[c]
    BY <1>3, <2>1, CheckIsChecked DEF Checked
  <2> QED
    BY <1>3, <2>1 DEF Next, Authorize, Tick, Revoke, Forget
<1>4. CASE UNCHANGED history
  BY <1>1, <1>2, <1>3, <1>4 DEF RefusedNeverHappened
<1>5. ASSUME NEW c \in Call, Admit(c)
      PROVE  RefusedNeverHappened'
  <2>0. PICK r, s, x : r = RootId(c) /\ s = Leaf(c).seq /\ x = ActionOf(c)
    OBVIOUS
  <2> DEFINE n == Len(history[r]) + 1
  <2>1. /\ r \in Roots /\ history[r] \in Seq(Entry) /\ history'[r] \in Seq(Entry)
        /\ Len(history'[r]) = n
        /\ history'[r][n] = [call |-> c, seq |-> s, action |-> x]
        /\ \A i \in 1 .. Len(history[r]) : history'[r][i] = history[r][i]
        /\ \A q \in Roots \ {r} : history'[q] = history[q]
    BY <1>5, <2>0, AdmitIsAdmitted, AdmitAppends, TypesOfStore DEF Stages
  <2>2. /\ DOMAIN history[r] = 1 .. Len(history[r]) /\ Len(history[r]) \in Nat
        /\ DOMAIN history'[r] = DOMAIN history[r] \cup {n} /\ n \notin DOMAIN history[r]
    BY <2>1
  <2>3. pc[c] = "sequence" /\ outcome'[c] = "authorized"
    BY <1>5 DEF Admit, Finish, TypeOK
  <2>4. \A q \in Roots : \A i \in DOMAIN history[q] : history[q][i].call # c
    BY <1>2, <2>3
  <2>5. ASSUME NEW q \in Roots, NEW i \in DOMAIN history'[q]
        PROVE  \/ q = r /\ i = n /\ history'[q][i].call = c
               \/ /\ i \in DOMAIN history[q] /\ history'[q][i] = history[q][i]
                  /\ history'[q][i].call # c
    BY <2>1, <2>2, <2>4, <2>5
  <2>6. ASSUME NEW q \in Roots, NEW i \in DOMAIN history'[q]
        PROVE  outcome'[history'[q][i].call] = "authorized"
    BY <1>1, <1>2, <1>3, <2>3, <2>5
  <2>7. ASSUME NEW p \in Roots, NEW q \in Roots, NEW i \in DOMAIN history'[p], NEW j \in DOMAIN history'[q],
               history'[p][i].call = history'[q][j].call
        PROVE  p = q /\ i = j
    BY <2>5, <2>7 DEF RefusedNeverHappened
  <2> QED
    BY <2>6, <2>7 DEF RefusedNeverHappened
<1>6. CASE \E r \in Roots : Forget(r)
  BY <1>4, <1>6 DEF Forget
<1> QED
  BY <1>4, <1>5, <1>6, OthersKeepHistory

-----------------------------------------------------------------------------
(****************************************************************************)
(* The inductive invariant and what follows from it.                        *)
(****************************************************************************)
LEMMA NextInv == IInv /\ [Next]_vars => IInv'
<1> SUFFICES ASSUME IInv, [Next]_vars PROVE IInv'
  OBVIOUS
<1>1. TypeOK' /\ Stages' /\ RefusedNeverHappened'
  BY NextType, NextStages, NextRefused DEF IInv
<1>2. StoreTypes /\ StoreStep /\ RecordedKept
  BY NextStore, TypesOfStore DEF IInv
<1>3. ForgottenOK' /\ Folded'
  BY <1>2, NextFold DEF IInv, Histories
<1>4. EntryParts'
  BY <1>2, NextEntries DEF IInv, Histories, EntryParts
<1> QED
  BY <1>1, <1>3, <1>4 DEF IInv, Histories, EntryParts

THEOREM Invariance == Spec => []IInv
<1> QED
  BY InitInv, NextInv, PTL DEF Spec

\* Every variable has its type.
THEOREM TypeCorrect == Spec => []TypeOK
<1>1. IInv => TypeOK
  BY DEF IInv
<1> QED
  BY <1>1, Invariance, PTL

\* What the leaf of a chain that narrows permits, every link permits.
LEMMA LinksPermit ==
  ASSUME StoreTypes, NEW c \in Call, Narrow(call[c].chain), Permits(Leaf(c).caps, RequestOf(c)),
         NEW i \in DOMAIN call[c].chain
  PROVE  Permits(call[c].chain[i].caps, RequestOf(c))
<1> DEFINE ch == call[c].chain  n == Len(ch)
<1>1. /\ ch \in Seq(Claims(Principal, Id)) /\ ch # << >>
      /\ i \in 1 .. n /\ n \in DOMAIN ch /\ i <= n
  BY ChainType DEF StoreTypes, Narrow
<1>2. /\ ch[i] \in Claims(Principal, Id) /\ ch[n] \in Claims(Principal, Id)
      /\ ValidClaims(ch[i]) /\ ValidClaims(ch[n])
      /\ CapsEntailed(ch[i].caps, ch[n].caps)
  BY <1>1, ChainType DEF Narrow, Within, Bounds
<1>3. /\ ch[i].caps \in SUBSET Capability /\ ch[n].caps \in SUBSET Capability
      /\ \A k \in ch[i].caps \cup ch[n].caps : ValidCapability(k)
  BY <1>2, ClaimsType
<1>4. RequestOf(c) \in Request
  <2>1. /\ call[c].tool \in Str
        /\ facts[c].tags \in SUBSET Tag /\ facts[c].attributes \in [Key -> Value \cup {Nil}]
    BY DEF StoreTypes, Facts
  <2> QED
    BY <2>1, EnforcerAssumption DEF RequestOf, Request
<1>5. Permits(ch[n].caps, RequestOf(c))
  BY DEF Leaf
<1> HIDE DEF ch, n
<1>6. Permits(ch[i].caps, RequestOf(c))
  BY <1>2, <1>3, <1>4, <1>5, PermitsSound
<1> QED
  BY <1>6 DEF ch

\* Organizational policy is asked about, and the history sees, nothing that
\* any link of the chain does not permit itself.
THEOREM WithinGrant == Spec => []PolicyAskedWithinGrant
<1>1. IInv => PolicyAskedWithinGrant
  <2> SUFFICES ASSUME IInv, NEW c \in Call, NEW i \in DOMAIN call[c].chain,
                      \/ pc[c] \in {"policy", "sequence"}
                      \/ outcome[c] \in {"policy", "sequence", "authorized"}
               PROVE  Permits(call[c].chain[i].caps, RequestOf(c))
    BY DEF PolicyAskedWithinGrant
  <2>1. Staged(c) /\ StoreTypes
    BY TypesOfStore DEF IInv, Stages
  <2>2. Narrow(call[c].chain) /\ Permits(Leaf(c).caps, RequestOf(c))
    BY <2>1 DEF Staged, PastVerify, PastPermits
  <2> QED
    BY <2>1, <2>2, LinksPermit
<1> QED
  BY <1>1, Invariance, PTL

\* What was refused left no trace, and what was admitted is recorded once.
THEOREM NothingRefusedIsRecorded == Spec => []RefusedNeverHappened
<1>1. IInv => RefusedNeverHappened
  BY DEF IInv
<1> QED
  BY <1>1, Invariance, PTL

-----------------------------------------------------------------------------
(****************************************************************************)
(* The links bind the calls they carry.  Of the step this needs only what   *)
(* Histories says.                                                          *)
(****************************************************************************)
\* An entry, the links above it, and its place.
LEMMA EntryFacts ==
  ASSUME StoreTypes, ForgottenOK, EntriesCarried, NEW r \in Roots, NEW j \in Remembered(r)
  PROVE  /\ history[r][j] \in Entry /\ j \in DOMAIN history[r]
         /\ j \in Nat /\ forgotten[r] \in Nat /\ Len(history[r]) \in Nat
         /\ forgotten[r] < j /\ j <= Len(history[r])
         /\ Carried(history[r][j].call) /\ RootId(history[r][j].call) = r
         /\ \A link \in LinksOf(history[r][j]) :
              /\ link \in Claims(Principal, Id) /\ ValidClaims(link)
              /\ SeqNoWider(link.seq, history[r][j].seq)
<1>1. history[r] \in Seq(Entry) /\ forgotten[r] \in Nat
  BY DEF StoreTypes
<1>2. Len(history[r]) \in Nat /\ DOMAIN history[r] = 1 .. Len(history[r])
  BY <1>1
<1>3. j \in 1 .. Len(history[r]) /\ forgotten[r] < j
  BY <1>1, <1>2 DEF Remembered
<1>4. history[r][j] \in Entry
  BY <1>1, <1>3
<1> DEFINE d == history[r][j].call
<1>5. d \in Call /\ Carried(d) /\ RootId(d) = r /\ history[r][j].seq = Leaf(d).seq
  BY <1>2, <1>3, <1>4 DEF EntriesCarried, CarriedEntry, Entry
<1>6. ASSUME NEW link \in LinksOf(history[r][j])
      PROVE  /\ link \in Claims(Principal, Id) /\ ValidClaims(link)
             /\ SeqNoWider(link.seq, history[r][j].seq)
  <2>1. PICK n \in DOMAIN call[d].chain : link = call[d].chain[n]
    BY <1>6 DEF LinksOf
  <2> HIDE DEF d
  <2>2. /\ link \in Claims(Principal, Id) /\ ValidClaims(link)
        /\ Within(link, Leaf(d))
    BY <1>5, <2>1, LeafType
  <2> QED
    BY <1>5, <2>2 DEF Within, Bounds
<1> QED
  BY <1>1, <1>2, <1>3, <1>4, <1>5, <1>6

\* A rule of a claim is one of every claim no wider than it.
LEMMA RuleInherited ==
  ASSUME NEW s \in Sequence, NEW t, SeqNoWider(s, t), NEW rule \in Rules(s)
  PROVE  \E inherited \in Rules(t) : /\ inherited.id = rule.id
                                     /\ SameMatcher(inherited.forbid, rule.forbid)
                                     /\ SameMatcher(inherited.after, rule.after)
<1>1. PICK k \in DOMAIN s.constraints : rule = s.constraints[k]
  BY DEF Rules
<1>2. s # Nil
  BY NilAssumption
<1> QED
  BY <1>1, <1>2 DEF SeqNoWider, Rules

LEMMA LinksBind ==
  ASSUME StoreTypes, Histories
  PROVE  LinksBindCalls
<1> SUFFICES ASSUME NEW r \in Roots, NEW j \in Remembered(r), NEW link \in LinksOf(history[r][j]),
                    link.seq # Nil
             PROVE  /\ link.seq.max > 0 => j - forgotten[r] <= link.seq.max
                    /\ \A rule \in Rules(link.seq), i \in Remembered(r) :
                         i < j /\ link \in LinksOf(history[r][i]) =>
                           ~ (/\ Matches(rule.after, history[r][i].action)
                              /\ Matches(rule.forbid, history[r][j].action))
  BY DEF LinksBindCalls
<1> USE DEF Histories
<1>1. /\ history[r][j] \in Entry /\ j \in Nat /\ forgotten[r] \in Nat
      /\ link \in Claims(Principal, Id) /\ SeqNoWider(link.seq, history[r][j].seq)
  BY EntryFacts
<1>2. link.seq \in Sequence /\ history[r][j].seq \in Sequence
  BY <1>1 DEF Claims, Entry
\* The sequence of the leaf has a budget where a link above it has one, and a smaller one.
<1>3. ASSUME link.seq.max > 0 PROVE j - forgotten[r] <= link.seq.max
  <2>1. history[r][j].seq.max > 0 /\ history[r][j].seq.max <= link.seq.max
    BY <1>1, <1>3 DEF SeqNoWider
  <2>2. j - forgotten[r] <= history[r][j].seq.max
    BY <2>1 DEF EntriesInBudget
  <2>3. link.seq.max \in Int /\ history[r][j].seq.max \in Int
    BY <1>2 DEF Sequence
  <2> QED
    BY <1>1, <2>1, <2>2, <2>3
\* The leaves of both calls have the rule, so that the one fires what the other is held to.
<1>4. ASSUME NEW rule \in Rules(link.seq), NEW i \in Remembered(r), i < j, link \in LinksOf(history[r][i]),
             Matches(rule.after, history[r][i].action), Matches(rule.forbid, history[r][j].action)
      PROVE  FALSE
  <2>1. SeqNoWider(link.seq, history[r][i].seq)
    BY <1>4, EntryFacts
  <2>2. PICK ri \in Rules(history[r][i].seq) : ri.id = rule.id /\ SameMatcher(ri.after, rule.after)
    BY <1>2, <2>1, RuleInherited
  <2>3. PICK rj \in Rules(history[r][j].seq) : rj.id = rule.id /\ SameMatcher(rj.forbid, rule.forbid)
    BY <1>1, <1>2, RuleInherited
  <2>4. rj.id \in Fired(history[r][i].seq, history[r][i].action)
    BY <1>4, <2>2, <2>3 DEF Fired, SameMatcher, Matches
  <2>5. ~ Matches(rj.forbid, history[r][j].action)
    BY <1>4, <2>3, <2>4 DEF EntriesKeepRules
  <2> QED
    BY <1>4, <2>3, <2>5 DEF SameMatcher, Matches
<1> QED
  BY <1>3, <1>4

\* A jti names one grant, so every call under the root passed through it.
LEMMA GrantIsLink ==
  ASSUME StoreTypes, ForgottenOK, EntriesCarried,
         NEW r \in Roots, NEW g \in Grants(r), NEW j \in Remembered(r)
  PROVE  g \in LinksOf(history[r][j])
<1> DEFINE d == history[r][j].call  ch == call[d].chain
<1>1. d \in Call /\ Carried(d) /\ RootId(d) = r
  BY EntryFacts DEF Entry
<1>2. ch \in Presented \ {<< >>} /\ 1 \in DOMAIN ch /\ ch[1].jti = r
  BY <1>1, LeafType DEF Carried, RootId
<1>3. g = ch[1]
  <2>1. PICK e \in Presented \ {<< >>} : e[1].jti = r /\ g = e[1]
    BY DEF Grants
  <2> QED
    BY <1>2, <2>1, EnforcerAssumption
<1> QED
  BY <1>2, <1>3 DEF LinksOf

\* So no more is remembered under a root than its grant has a budget for.
LEMMA GrantCounts ==
  ASSUME StoreTypes, Histories, NEW r \in Roots, NEW g \in Grants(r), g.seq # Nil, g.seq.max > 0
  PROVE  /\ Len(history[r]) \in Nat /\ forgotten[r] \in Nat /\ forgotten[r] <= Len(history[r])
         /\ g.seq.max \in Int
         /\ Len(history[r]) - forgotten[r] <= g.seq.max
<1> DEFINE n == Len(history[r])
<1>1. n \in Nat /\ forgotten[r] \in Nat /\ forgotten[r] <= n
  <2>1. history[r] \in Seq(Entry)
    BY DEF StoreTypes
  <2> QED
    BY <2>1 DEF StoreTypes, Histories, ForgottenOK
<1>2. g.seq.max \in Int
  <2>1. PICK ch \in Presented \ {<< >>} : g = ch[1]
    BY DEF Grants
  <2>2. ch \in Seq(Claims(Principal, Id)) /\ ch # << >>
    BY <2>1, EnforcerAssumption
  <2>3. g \in Claims(Principal, Id)
    BY <2>1, <2>2, ChainType
  <2> QED
    BY <2>3 DEF Claims, Sequence
<1>3. CASE forgotten[r] = n
  BY <1>1, <1>2, <1>3
<1>4. CASE forgotten[r] < n
  <2>1. n \in Remembered(r)
    BY <1>1, <1>4 DEF Remembered
  <2>2. g \in LinksOf(history[r][n])
    BY <2>1, GrantIsLink DEF Histories
  <2>3. LinksBindCalls
    BY LinksBind
  <2> QED
    BY <1>1, <1>2, <2>1, <2>2, <2>3 DEF LinksBindCalls
<1> QED
  BY <1>1, <1>3, <1>4

\* And the sponsor's rules bind all calls below the grant together.
LEMMA GrantBound ==
  ASSUME StoreTypes, Histories
  PROVE  GrantBindsCalls
<1> SUFFICES ASSUME NEW r \in Roots, NEW g \in Grants(r), g.seq # Nil
             PROVE  /\ g.seq.max > 0 => Cardinality(Remembered(r)) <= g.seq.max
                    /\ \A rule \in Rules(g.seq), i, j \in Remembered(r) :
                         i < j => ~ (/\ Matches(rule.after, history[r][i].action)
                                     /\ Matches(rule.forbid, history[r][j].action))
  BY DEF GrantBindsCalls
<1>1. ASSUME g.seq.max > 0 PROVE Cardinality(Remembered(r)) <= g.seq.max
  <2> DEFINE a == forgotten[r] + 1  b == Len(history[r])
  <2>1. b \in Nat /\ forgotten[r] \in Nat /\ forgotten[r] <= b /\ b - forgotten[r] <= g.seq.max
    BY <1>1, GrantCounts
  <2>2. a \in Int /\ b \in Int
    BY <2>1
  <2>3. Cardinality(a .. b) = IF a > b THEN 0 ELSE b - a + 1
    <3> HIDE DEF a, b
    <3> QED
      BY <2>2, FS_Interval, Zenon
  <2>4. Remembered(r) = a .. b
    BY DEF Remembered
  <2>5. Cardinality(Remembered(r)) = b - forgotten[r]
    BY <2>1, <2>3, <2>4
  <2> QED
    BY <2>1, <2>5
<1>2. ASSUME NEW rule \in Rules(g.seq), NEW i \in Remembered(r), NEW j \in Remembered(r), i < j
      PROVE  ~ (Matches(rule.after, history[r][i].action) /\ Matches(rule.forbid, history[r][j].action))
  <2>1. \A k \in Remembered(r) : g \in LinksOf(history[r][k])
    BY GrantIsLink DEF Histories
  <2>2. LinksBindCalls
    BY LinksBind
  <2> QED
    BY <1>2, <2>1, <2>2 DEF LinksBindCalls
<1> QED
  BY <1>1, <1>2

\* Whatever budget or rule a delegator anywhere on the chain adds binds the
\* calls that pass through its assertion (sequence.go:168-177).
THEOREM EveryLinkBinds == Spec => []LinksBindCalls
<1>1. IInv => LinksBindCalls
  BY LinksBind, TypesOfStore DEF IInv
<1> QED
  BY <1>1, Invariance, PTL

\* The sponsor's budget and rules bind all calls below the grant together.
THEOREM GrantBinds == Spec => []GrantBindsCalls
<1>1. IInv => GrantBindsCalls
  BY GrantBound, TypesOfStore DEF IInv
<1> QED
  BY <1>1, Invariance, PTL

-----------------------------------------------------------------------------
(****************************************************************************)
(* Refinement: admission is sequence evaluation, in one step.               *)
(****************************************************************************)
\* The abstract module means by its rules what admission does.
LEMMA SameRules ==
  /\ Evaluation!Sequence = Sequence /\ Evaluation!Action = Action
  /\ \A s : Evaluation!Rules(s) = Rules(s) /\ (Evaluation!Compiles(s) <=> Compiles(s))
  /\ \A m, x : Evaluation!Matches(m, x) <=> Matches(m, x)
  /\ \A s, x : Evaluation!Fired(s, x) = Fired(s, x)
<1>1. Evaluation!Sequence = Sequence /\ Evaluation!Action = Action
  BY DEF Evaluation!Sequence, Sequence, Evaluation!Constraint, Constraint, Evaluation!Matcher, Matcher,
         Evaluation!Action, Action
<1>2. \A m, x : Evaluation!Matches(m, x) <=> Matches(m, x)
  BY DEF Evaluation!Matches, Matches
<1>3. \A s : Evaluation!Rules(s) = Rules(s)
  BY DEF Evaluation!Rules, Rules
<1>4. \A s : Evaluation!Compiles(s) <=> Compiles(s)
  BY DEF Evaluation!Compiles, Compiles, Evaluation!MatchesEverything, MatchesEverything
<1>5. \A s, x : Evaluation!Fired(s, x) = Fired(s, x)
  BY <1>2, <1>3 DEF Evaluation!Fired, Fired
<1> QED
  BY <1>1, <1>2, <1>3, <1>4, <1>5

\* The histories without the calls, entry by entry.
LEMMA PlainType ==
  ASSUME NEW h \in Seq(Entry)
  PROVE  /\ Len(h) \in Nat /\ Plain(h) \in Seq([seq : Sequence, action : Action])
         /\ Len(Plain(h)) = Len(h)
         /\ \A i \in 1 .. Len(h) : Plain(h)[i] = [seq |-> h[i].seq, action |-> h[i].action]
<1> DEFINE S == [seq : Sequence, action : Action]
           n == Len(h)
           p == Plain(h)
<1>1. n \in Nat /\ DOMAIN h = 1 .. n /\ \A i \in 1 .. n : h[i] \in Entry
  OBVIOUS
<1>2. p = [i \in 1 .. n |-> [seq |-> h[i].seq, action |-> h[i].action]]
  BY <1>1 DEF Plain
<1>3. \A i \in 1 .. n : p[i] \in S
  BY <1>1, <1>2 DEF Entry
<1>4. DOMAIN p = 1 .. n /\ p = [i \in 1 .. n |-> p[i]]
  BY <1>2
<1> HIDE DEF p, n, S
<1>5. p \in Seq(S) /\ Len(p) = n
  BY <1>1, <1>3, <1>4
<1> QED
  BY <1>1, <1>2, <1>5 DEF p, n, S

\* What moving one call means to the abstract calls and outcomes.
Moves(c) == \A d \in Call \ {c} : /\ pc'[d] = pc[d] /\ outcome'[d] = outcome[d]
                                  /\ call'[d] = call[d] /\ facts'[d] = facts[d]

LEMMA CallMoves ==
  ASSUME NEW c \in Call, Moves(c)
  PROVE  /\ EvaluatedCalls' = [EvaluatedCalls EXCEPT ![c] =
                                 IF pc'[c] = "sequence" THEN Evaluated(c)' ELSE Nil]
         /\ Verdicts' = [Verdicts EXCEPT ![c] = [verdict |-> Verdict(c)', rule |-> Empty]]
<1>1. \A d \in Call \ {c} : Evaluated(d)' = Evaluated(d) /\ Verdict(d)' = Verdict(d)
  BY DEF Moves, Evaluated, Verdict, RootId, Leaf, ActionOf
<1> QED
  BY <1>1 DEF Moves, EvaluatedCalls, Verdicts

\* What the stored state says of a root is what its history says.
LEMMA StateIsHistory ==
  ASSUME StoreTypes, Histories, NEW r \in Roots, NEW s \in Sequence, NEW x
  PROVE  /\ Exhausted(StateOf(r), s) <=> Evaluation!Spent(r, s)
         /\ \A i \in DOMAIN s.constraints :
              i \in Forbidding(StateOf(r), s, x) <=> s.constraints[i] \in Evaluation!Violated(r, s, x)
<1>1. /\ StateOf(r).invocations = Len(history[r]) - forgotten[r]
      /\ StateOf(r).triggered =
           {id \in ConstraintId :
              \E i \in Remembered(r) : id \in Fired(history[r][i].seq, history[r][i].action)}
  BY DEF Histories, Folded
<1>2. /\ Len(PlainHistory[r]) = Len(history[r]) /\ Len(history[r]) \in Nat /\ forgotten[r] \in Nat
      /\ \A i \in 1 .. Len(history[r]) :
           PlainHistory[r][i] = [seq |-> history[r][i].seq, action |-> history[r][i].action]
  <2>1. history[r] \in Seq(Entry) /\ PlainHistory[r] = Plain(history[r]) /\ forgotten[r] \in Nat
    BY DEF StoreTypes, PlainHistory
  <2> QED
    BY <2>1, PlainType
<1>3. Evaluation!Happened(r) = Remembered(r) /\ Remembered(r) \subseteq 1 .. Len(history[r])
  BY <1>2 DEF Evaluation!Happened, Remembered
<1>4. ASSUME NEW id \in ConstraintId
      PROVE  id \in StateOf(r).triggered <=> Evaluation!Tripped(r, id)
  <2>1. \A i \in Remembered(r) : Evaluation!Fired(PlainHistory[r][i].seq, PlainHistory[r][i].action)
                                   = Fired(history[r][i].seq, history[r][i].action)
    <3>1. ASSUME NEW i \in Remembered(r)
          PROVE  /\ PlainHistory[r][i].seq = history[r][i].seq
                 /\ PlainHistory[r][i].action = history[r][i].action
      <4>1. i \in 1 .. Len(history[r])
        BY <1>3
      <4>2. PlainHistory[r][i] = [seq |-> history[r][i].seq, action |-> history[r][i].action]
        BY <1>2, <4>1
      <4> QED
        BY <4>2
    <3> QED
      BY <3>1, SameRules
  <2> QED
    BY <1>1, <1>3, <2>1 DEF Evaluation!Tripped
<1>5. \A i \in DOMAIN s.constraints :
        i \in Forbidding(StateOf(r), s, x) <=> s.constraints[i] \in Evaluation!Violated(r, s, x)
  <2>1. \A i \in DOMAIN s.constraints : s.constraints[i].id \in ConstraintId
    BY ConstraintsType DEF Constraint
  <2>2. Evaluation!Violated(r, s, x) = {c \in Rules(s) : Matches(c.forbid, x) /\ Evaluation!Tripped(r, c.id)}
    BY SameRules DEF Evaluation!Violated
  <2> QED
    BY <1>4, <2>1, <2>2 DEF Forbidding, Rules
<1> QED
  BY <1>1, <1>2, <1>5 DEF Exhausted, Evaluation!Spent

\* Admission appends to the plain history too.
LEMMA PlainAppends ==
  ASSUME NEW h \in Seq(Entry), NEW g \in Seq(Entry), NEW e \in Entry,
         Len(g) = Len(h) + 1, g[Len(h) + 1] = e, \A i \in 1 .. Len(h) : g[i] = h[i]
  PROVE  Plain(g) = Append(Plain(h), [seq |-> e.seq, action |-> e.action])
<1> DEFINE S == [seq : Sequence, action : Action]
           x == [seq |-> e.seq, action |-> e.action]
           n == Len(h)
           p == Plain(h)
           q == Plain(g)
<1>1. n \in Nat /\ p \in Seq(S) /\ Len(p) = n /\ q \in Seq(S) /\ Len(q) = n + 1 /\ x \in S
  BY PlainType DEF Entry
<1>2. \A i \in 1 .. (n + 1) : q[i] = IF i = n + 1 THEN x ELSE p[i]
  <2>1. \A i \in 1 .. n : p[i] = [seq |-> h[i].seq, action |-> h[i].action]
    BY PlainType
  <2>2. \A i \in 1 .. (n + 1) : q[i] = [seq |-> g[i].seq, action |-> g[i].action]
    BY PlainType
  <2>3. \A i \in 1 .. (n + 1) : i = n + 1 \/ i \in 1 .. n
    BY <1>1
  <2>4. q[n + 1] = x /\ n + 1 \notin 1 .. n
    BY <1>1, <2>2
  <2>5. \A i \in 1 .. n : q[i] = p[i]
    BY <1>1, <2>1, <2>2
  <2> HIDE DEF n, x, p, q
  <2> QED
    BY <2>3, <2>4, <2>5
<1> HIDE DEF S, x, n, p, q
<1>3. /\ Append(p, x) \in Seq(S) /\ Len(Append(p, x)) = n + 1
      /\ \A i \in 1 .. (n + 1) : Append(p, x)[i] = IF i = n + 1 THEN x ELSE p[i]
  BY <1>1
<1>4. \A i \in 1 .. (n + 1) : q[i] = Append(p, x)[i]
  BY <1>2, <1>3
<1>5. q = Append(p, x)
  BY <1>1, <1>3, <1>4, SeqEqual
<1> QED
  BY <1>5 DEF p, q, x

\* The steps of one call, whoever takes them: Enforcer, or the gateway around it.
LEMMA EvaluationInit == Init => Evaluation!AbsInit
<1> SUFFICES ASSUME Init PROVE Evaluation!AbsInit
  OBVIOUS
<1>1. EvaluatedCalls = [c \in Call |-> Nil] /\ Verdicts = [c \in Call |-> [verdict |-> "none", rule |-> Empty]]
  BY DEF Init, EvaluatedCalls, Verdicts, Verdict
<1>2. PlainHistory = [r \in Roots |-> << >>]
  <2>1. \A r \in Roots : Plain(history[r]) = << >>
    BY DEF Init, Plain
  <2> QED
    BY <2>1 DEF PlainHistory
<1> QED
  BY <1>1, <1>2 DEF Init, Evaluation!AbsInit

LEMMA HistoryKept == history' = history => PlainHistory' = PlainHistory
BY DEF PlainHistory, Plain

LEMMA StandingStep ==
  ASSUME UNCHANGED <<pc, call, facts, outcome>>
  PROVE  UNCHANGED <<EvaluatedCalls, Verdicts>>
BY DEF EvaluatedCalls, Verdicts, Verdict, Evaluated, RootId, Leaf, ActionOf

\* Before the last stage, and after it, nothing is evaluated.
LEMMA HiddenStep ==
  ASSUME NEW c \in Call, Moves(c), pc[c] # "sequence", pc'[c] # "sequence",
         \/ outcome'[c] = outcome[c]
         \/ outcome[c] \notin {"sequence", "authorized"} /\ outcome'[c] \notin {"sequence", "authorized"},
         UNCHANGED <<history, forgotten>>
  PROVE  UNCHANGED <<EvaluatedCalls, Verdicts, PlainHistory, forgotten>>
<1>1. Verdict(c)' = Verdict(c)
  BY DEF Verdict
<1> QED
  BY <1>1, CallMoves, HistoryKept DEF EvaluatedCalls, Verdicts

\* Coming to the last stage puts the call.
LEMMA StartStep ==
  ASSUME StoreTypes, NEW c \in Call, Moves(c), Carried(c), pc[c] # "sequence", pc'[c] = "sequence",
         outcome[c] = "none", UNCHANGED <<call, facts, history, forgotten>>
  PROVE  Evaluation!Start(c)
<1>1. Verdict(c) = "none" /\ Verdict(c)' = "pending" /\ Evaluated(c)' = Evaluated(c)
  BY DEF Verdict, Evaluated, RootId, Leaf, ActionOf
<1>2. Evaluated(c) \in Evaluation!Evaluable
  <2>1. RootId(c) \in Roots /\ Leaf(c).seq \in Sequence \cup {Nil}
    BY LeafType
  <2>2. ActionOf(c) \in Action
    BY EnforcerAssumption DEF ActionOf, Action, StoreTypes, Facts
  <2> QED
    BY <2>1, <2>2, SameRules DEF Evaluated, Evaluation!Evaluable
<1>3. /\ EvaluatedCalls' = [EvaluatedCalls EXCEPT ![c] = Evaluated(c)] /\ EvaluatedCalls'[c] = Evaluated(c)
      /\ Verdicts' = [Verdicts EXCEPT ![c] = [verdict |-> "pending", rule |-> Empty]]
  BY <1>1, CallMoves DEF EvaluatedCalls
<1>4. ~ Evaluation!Pending(c)
  BY <1>1 DEF Evaluation!Pending, Verdicts
<1> QED
  BY <1>2, <1>3, <1>4, HistoryKept DEF Evaluation!Start

\* The last stage decides it.
LEMMA DecidedStep ==
  ASSUME NEW c \in Call, Moves(c), pc[c] = "sequence", pc'[c] = "done", forgotten' = forgotten
  PROVE  /\ Evaluation!Pending(c) /\ EvaluatedCalls[c] = Evaluated(c)
         /\ outcome'[c] = "authorized" => Evaluation!Decided(c, "admitted", Empty)
         /\ outcome'[c] = "sequence" => Evaluation!Decided(c, "fault", Empty)
<1>1. Evaluation!Pending(c) /\ EvaluatedCalls[c] = Evaluated(c)
  BY DEF Evaluation!Pending, EvaluatedCalls, Verdicts, Verdict
<1>2. /\ outcome'[c] = "authorized" => Verdict(c)' = "admitted"
      /\ outcome'[c] = "sequence" => Verdict(c)' = "fault"
  BY DEF Verdict
<1> QED
  BY <1>1, <1>2, CallMoves DEF Evaluation!Decided

LEMMA AdmitStep ==
  ASSUME StoreTypes, Histories, NEW c \in Call, Moves(c), pc[c] = "sequence", pc'[c] = "done",
         outcome'[c] = "authorized", Admitted(c)
  PROVE  Evaluation!Admitted(c)
<1>1. PICK r, s, x : r = RootId(c) /\ s = Leaf(c).seq /\ x = ActionOf(c)
  OBVIOUS
<1>2. /\ r \in Roots /\ s \in Sequence /\ x \in Action /\ Admits(StateOf(r), s, x)
      /\ history[r] \in Seq(Entry) /\ history'[r] \in Seq(Entry)
      /\ Len(history'[r]) = Len(history[r]) + 1
      /\ history'[r][Len(history[r]) + 1] = [call |-> c, seq |-> s, action |-> x]
      /\ \A i \in 1 .. Len(history[r]) : history'[r][i] = history[r][i]
      /\ \A q \in Roots \ {r} : history'[q] = history[q]
      /\ forgotten' = forgotten
  BY <1>1, AdmitAppends
<1>3. PlainHistory' = [PlainHistory EXCEPT ![r] = Append(@, [seq |-> s, action |-> x])]
  <2>1. [call |-> c, seq |-> s, action |-> x] \in Entry
    BY <1>2 DEF Entry
  <2>2. Plain(history'[r]) = Append(Plain(history[r]), [seq |-> s, action |-> x])
    BY <1>2, <2>1, PlainAppends
  <2>3. \A q \in Roots \ {r} : Plain(history'[q]) = Plain(history[q])
    BY <1>2
  <2>4. PlainHistory' = [q \in Roots |-> Plain(history'[q])]
    BY DEF PlainHistory, Plain
  <2> QED
    BY <1>2, <2>2, <2>3, <2>4 DEF PlainHistory
<1>4. /\ Evaluation!Pending(c) /\ EvaluatedCalls[c] = [root |-> r, seq |-> s, action |-> x]
      /\ Evaluation!Decided(c, "admitted", Empty)
  BY <1>1, <1>2, DecidedStep DEF Evaluated
<1>5. Compiles(s) /\ s # Nil
  <2>1. Leaf(c) \in Claims(Principal, Id) /\ ValidClaims(Leaf(c))
    BY LeafType DEF Admitted
  <2> QED
    BY <1>1, <1>2, <2>1, NilAssumption DEF ValidClaims
<1>6. ~ Evaluation!Spent(r, s)
  BY <1>2, StateIsHistory DEF Admits
<1>7. Evaluation!Violated(r, s, x) = {}
  <2>1. \A i \in DOMAIN s.constraints : s.constraints[i] \notin Evaluation!Violated(r, s, x)
    BY <1>2, StateIsHistory DEF Admits
  <2> QED
    BY <2>1, SameRules DEF Evaluation!Violated, Rules
<1> QED
  BY <1>2, <1>3, <1>4, <1>5, <1>6, <1>7, SameRules DEF Evaluation!Admitted

LEMMA AdmissionStep ==
  ASSUME StoreTypes, Histories, NEW c \in Call, Moves(c), Carried(c),
         pc[c] = "sequence", pc'[c] = "done",
         \/ AdmitUnconstrained(c) /\ outcome'[c] = "authorized"
         \/ Admit(c) /\ outcome'[c] = "authorized"
         \/ RefuseSequence(c) /\ outcome'[c] = "sequence"
  PROVE  Evaluation!AbsNext
<1>1. Evaluated(c).seq = Leaf(c).seq
  BY DEF Evaluated
<1>2. CASE AdmitUnconstrained(c) /\ outcome'[c] = "authorized"
  <2>1. Leaf(c).seq = Nil /\ UNCHANGED <<history, forgotten>>
    BY <1>2 DEF AdmitUnconstrained
  <2>2. Evaluation!Unconstrained(c)
    BY <1>1, <1>2, <2>1, DecidedStep, HistoryKept DEF Evaluation!Unconstrained
  <2> QED
    BY <2>2 DEF Evaluation!AbsNext
<1>3. CASE Admit(c) /\ outcome'[c] = "authorized"
  <2>1. Admitted(c)
    BY <1>3 DEF Admit, Admitted, Finish
  <2>2. Evaluation!Admitted(c)
    BY <1>3, <2>1, AdmitStep
  <2> QED
    BY <2>2 DEF Evaluation!AbsNext
<1>4. CASE RefuseSequence(c) /\ outcome'[c] = "sequence"
  <2>1. Leaf(c).seq # Nil /\ UNCHANGED <<history, forgotten>>
    BY <1>4 DEF RefuseSequence, Refuse
  <2>2. Evaluation!Fault(c)
    BY <1>1, <1>4, <2>1, DecidedStep, HistoryKept DEF Evaluation!Fault
  <2> QED
    BY <2>2 DEF Evaluation!AbsNext
<1> QED
  BY <1>2, <1>3, <1>4

LEMMA DiscardStep ==
  ASSUME StoreTypes, NEW r \in Roots, Forget(r)
  PROVE  Evaluation!AbsNext
<1>1. Len(PlainHistory[r]) = Len(history[r])
  <2>1. history[r] \in Seq(Entry) /\ PlainHistory[r] = Plain(history[r])
    BY DEF StoreTypes, PlainHistory
  <2> QED
    BY <2>1, PlainType
<1>2. UNCHANGED <<EvaluatedCalls, Verdicts, PlainHistory>>
  BY StandingStep, HistoryKept DEF Forget
<1>3. Evaluation!Discard(r)
  BY <1>1, <1>2 DEF Forget, Evaluation!Discard
<1> QED
  BY <1>3 DEF Evaluation!AbsNext

\* Every call is decided in one step against the history of its root.
THEOREM Implements == Spec => ImplementsEvaluation
<1>1. IInv /\ [Next]_vars => [Evaluation!AbsNext]_(Evaluation!absVars)
  <2> SUFFICES ASSUME IInv, [Next]_vars
               PROVE  Evaluation!AbsNext \/ UNCHANGED <<EvaluatedCalls, Verdicts, PlainHistory, forgotten>>
    BY DEF Evaluation!absVars
  <2>1. TypeOK /\ Stages /\ StoreTypes /\ Histories
    BY TypesOfStore DEF IInv
  <2>2. ASSUME NEW c \in Call, NEW ch \in Presented, NEW tool \in Tool, Authorize(c, ch, tool)
        PROVE  UNCHANGED <<EvaluatedCalls, Verdicts, PlainHistory, forgotten>>
    <3>1. /\ Moves(c) /\ pc[c] = "idle" /\ pc'[c] = "verify" /\ outcome'[c] = outcome[c]
          /\ UNCHANGED <<history, forgotten>>
      BY <2>1, <2>2 DEF Authorize, TypeOK, Moves
    <3> QED
      BY <3>1, HiddenStep
  <2>3. ASSUME NEW c \in Call, Step(c) PROVE Moves(c) /\ outcome[c] = "none"
    BY <2>1, <2>3, CheckIsChecked DEF Checked, Moves, Stages, Staged
  <2>4. ASSUME NEW c \in Call, NoTool(c) \/ Verify(c) \/ Describe(c) \/ Permit(c) \/ Map(c)
        PROVE  UNCHANGED <<EvaluatedCalls, Verdicts, PlainHistory, forgotten>>
    <3>1. Step(c) /\ pc[c] \in {"verify", "catalog", "permits", "mapping"}
      BY <2>4 DEF Step, NoTool, Verify, Describe, Permit, Map
    <3>2. /\ pc'[c] # "sequence" /\ UNCHANGED <<history, forgotten>>
          /\ outcome'[c] \in {"none", "verify", "catalog", "permits", "mapping"}
      BY <2>1, <2>3, <2>4, <3>1 DEF NoTool, Verify, Describe, Permit, Map, Refuse, Finish, GoTo, TypeOK
    <3> QED
      BY <2>3, <3>1, <3>2, HiddenStep
  <2>5. ASSUME NEW c \in Call, Evaluate(c)
        PROVE  Evaluation!AbsNext \/ UNCHANGED <<EvaluatedCalls, Verdicts, PlainHistory, forgotten>>
    <3>1. /\ Step(c) /\ pc[c] = "policy" /\ UNCHANGED <<history, forgotten, facts>>
      BY <2>5 DEF Step, Evaluate, Refuse
    <3>2. call' = call /\ outcome'[c] \in {"none", "policy"}
      BY <2>1, <2>3, <2>5, <3>1 DEF Evaluate, Refuse, Finish, GoTo, TypeOK
    <3>3. CASE pc'[c] # "sequence"
      BY <2>3, <3>1, <3>2, <3>3, HiddenStep
    <3>4. CASE pc'[c] = "sequence"
      <4>1. Carried(c)
        BY <2>1, <3>1 DEF Stages, Staged, Carried, PastVerify, PastPermits
      <4>2. Evaluation!Start(c)
        BY <2>1, <2>3, <3>1, <3>2, <3>4, <4>1, StartStep
      <4> QED
        BY <4>2 DEF Evaluation!AbsNext
    <3> QED
      BY <3>3, <3>4
  <2>6. ASSUME NEW c \in Call, AdmitUnconstrained(c) \/ Admit(c) \/ RefuseSequence(c)
        PROVE  Evaluation!AbsNext
    <3>1. Step(c) /\ pc[c] = "sequence"
      BY <2>6 DEF Step, AdmitUnconstrained, Admit, RefuseSequence
    <3>2. Carried(c)
      BY <2>1, <3>1 DEF Stages, Staged, Carried, PastVerify, PastPermits
    <3>3. /\ pc'[c] = "done"
          /\ AdmitUnconstrained(c) \/ Admit(c) => outcome'[c] = "authorized"
          /\ RefuseSequence(c) => outcome'[c] = "sequence"
      BY <2>1, <2>6 DEF AdmitUnconstrained, Admit, RefuseSequence, Refuse, Finish, TypeOK
    <3> QED
      BY <2>1, <2>3, <2>6, <3>1, <3>2, <3>3, AdmissionStep
  <2>7. ASSUME NEW r \in Roots, Forget(r) PROVE Evaluation!AbsNext
    BY <2>1, <2>7, DiscardStep
  <2>8. ASSUME Tick \/ (\E id \in Id \ {Empty} : Revoke(id)) \/ UNCHANGED vars
        PROVE  UNCHANGED <<EvaluatedCalls, Verdicts, PlainHistory, forgotten>>
    BY <2>8, StandingStep, HistoryKept DEF Tick, Revoke
  <2> QED
    BY <2>2, <2>4, <2>5, <2>6, <2>7, <2>8 DEF Next, Step
<1> QED
  BY <1>1, EvaluationInit, Invariance, PTL DEF Spec, ImplementsEvaluation, Evaluation!AbsSpec
=============================================================================
