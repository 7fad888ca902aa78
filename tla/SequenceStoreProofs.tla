------------------------- MODULE SequenceStoreProofs -------------------------
(****************************************************************************)
(* Theorems about SequenceStore, for every set of agents and roots, every   *)
(* sequence an assertion may carry and every limit.                         *)
(*                                                                          *)
(* The state of a root is the fold of its history (StateIsFold) because     *)
(* what a caller read under the mutex is still stored when it persists      *)
(* (LockedReadIsCurrent), which holds because the mutex has one holder.     *)
(* Budgets and rules then follow from the fold, entry by entry.             *)
(****************************************************************************)
EXTENDS SequenceStore, GrantsProofs, FiniteSetTheorems

\* A call in flight presents what Admit was called with: a leaf that the
\* chain's grant covers, and past Admit's checks one that compiles.
InFlight ==
  \A a \in Agent : pc[a] # "idle" =>
    /\ call[a] \in [root : Root \cup {Empty}, seq : Offered, action : Attempted]
    /\ call[a].root \in Root => SeqNoWider(granted[call[a].root], call[a].seq)
    /\ pc[a] # "admit" => call[a].seq # Nil /\ call[a].root \in Root

OneHolder == \A a \in Agent : pc[a] \in {"locked", "decide"} => mu = a

ForgottenOK == \A r \in Root : forgotten[r] <= Len(history[r])

\* Every admitted entry was presented by a leaf no wider than the grant.
EntriesNoWider ==
  \A r \in Root : \A i \in 1 .. Len(history[r]) : SeqNoWider(granted[r], history[r][i].seq)

\* Every remembered entry was within its own budget when admitted ...
EntriesInBudget ==
  \A r \in Root : \A i \in Remembered(r) :
    history[r][i].seq.max > 0 => i - forgotten[r] <= history[r][i].seq.max

\* ... and matched no prohibition that an earlier entry had triggered.
EntriesKeepRules ==
  \A r \in Root : \A i, j \in Remembered(r) : i < j =>
    \A c \in Rules(history[r][j].seq) :
      c.id \in Fired(history[r][i].seq, history[r][i].action) =>
        ~ Matches(c.forbid, history[r][j].action)

IInv ==
  /\ TypeOK
  /\ InFlight
  /\ OneHolder
  /\ LockedReadIsCurrent
  /\ ForgottenOK
  /\ StateIsFold
  /\ EntriesNoWider
  /\ EntriesInBudget
  /\ EntriesKeepRules

-----------------------------------------------------------------------------
(****************************************************************************)
(* Type correctness.                                                        *)
(****************************************************************************)
USE DEF roots, callers, ghosts, vars

LEMMA InitType == Init => TypeOK /\ InFlight
<1> SUFFICES ASSUME Init PROVE TypeOK /\ InFlight
  OBVIOUS
<1>1. NoHistory \in State
  BY DEF NoHistory, State
<1>2. granted \in [Root -> Sequence \cup {Nil}]
  BY StoreAssumption DEF Init
<1>3. states \in [DOMAIN states -> State] /\ DOMAIN states \subseteq Root
  BY DEF Init
<1>4. history \in [Root -> Seq(Entry)] /\ forgotten \in [Root -> Nat]
  <2>1. << >> \in Seq(Entry)
    OBVIOUS
  <2> QED
    BY <2>1 DEF Init
<1> QED
  BY <1>1, <1>2, <1>3, <1>4, NamesAssumption DEF Init, TypeOK, InFlight

LEMMA StateOfType ==
  ASSUME TypeOK, NEW r PROVE StateOf(r) \in State
BY DEF TypeOK, StateOf, NoHistory, State

LEMMA NextType ==
  ASSUME TypeOK, InFlight, [Next]_vars
  PROVE  TypeOK' /\ InFlight'
<1> USE StoreAssumption, NamesAssumption, NilAssumption
<1> USE StoreAssumption, NamesAssumption, NilAssumption
<1>1. ASSUME NEW a \in Agent, NEW r \in Root \cup {Empty}, NEW s \in Offered, NEW x \in Attempted,
             Admit(a, r, s, x)
      PROVE  TypeOK' /\ InFlight'
  <2>1. [root |-> r, seq |-> s, action |-> x] \in CallType
    BY DEF CallType
  <2>2. TypeOK'
    <3>1. call' \in [Agent -> CallType \cup {Nil}]
      BY <1>1, <2>1 DEF Admit, TypeOK
    <3>2. outcome' \in [Agent -> [verdict : {"none", "pending", "admitted", "denied", "fault"},
                                 rule : ConstraintId]]
      BY <1>1 DEF Admit, TypeOK
    <3>3. pc' \in [Agent -> {"idle", "admit", "update", "locked", "decide"}] /\ calls' \in Nat
      BY <1>1 DEF Admit, TypeOK
    <3> QED
      BY <1>1, <3>1, <3>2, <3>3 DEF Admit, TypeOK
  <2>3. InFlight'
    BY <1>1 DEF Admit, TypeOK, InFlight
  <2> QED
    BY <2>2, <2>3
\* A return clears the caller's arguments, which touches nobody else's.
<1>2. ASSUME NEW a \in Agent, pc[a] # "idle", UNCHANGED <<roots, calls, forgotten>>,
             mu' \in Agent \cup {NoAgent},
             states' \in [DOMAIN states' -> State], DOMAIN states' \subseteq Root,
             history' \in [Root -> Seq(Entry)],
             NEW v \in {"admitted", "denied", "fault"}, NEW rule \in ConstraintId,
             Returns(a, v, rule)
      PROVE  TypeOK' /\ InFlight'
  <2>1. NoHistory \in State
    BY DEF NoHistory, State
  <2>2. TypeOK'
    BY <1>2, <2>1 DEF Returns, TypeOK
  <2>3. InFlight'
    BY <1>2 DEF Returns, TypeOK, InFlight
  <2> QED
    BY <2>2, <2>3
<1>3. ASSUME NEW a \in Agent, AdmitUnconstrained(a) \/ RefuseCall(a) \/ ContextDone(a)
      PROVE  TypeOK' /\ InFlight'
  <2>1. /\ pc[a] # "idle"
        /\ UNCHANGED <<roots, states, mu, calls, ghosts>>
        /\ Returns(a, "admitted", Empty) \/ Returns(a, "fault", Empty)
    BY <1>3 DEF AdmitUnconstrained, RefuseCall, ContextDone
  <2> QED
    BY <2>1, <1>2 DEF TypeOK
<1>4. ASSUME NEW a \in Agent, CallUpdate(a)
      PROVE  TypeOK' /\ InFlight'
  BY <1>4 DEF CallUpdate, TypeOK, InFlight
<1>5. ASSUME NEW a \in Agent, Lock(a)
      PROVE  TypeOK' /\ InFlight'
  BY <1>5 DEF Lock, TypeOK, InFlight
<1>6. ASSUME NEW a \in Agent, RefuseFull(a)
      PROVE  TypeOK' /\ InFlight'
  BY <1>6, <1>2 DEF RefuseFull, TypeOK
<1>7. ASSUME NEW a \in Agent, Read(a)
      PROVE  TypeOK' /\ InFlight'
  <2>1. StateOf(call[a].root) \in State
    BY StateOfType
  <2> QED
    BY <1>7, <2>1 DEF Read, TypeOK, InFlight
<1>8. ASSUME NEW a \in Agent, Persist(a)
      PROVE  TypeOK' /\ InFlight'
  <2> DEFINE r == call[a].root  s == call[a].seq  x == call[a].action
  <2>0. pc[a] = "decide" /\ UNCHANGED <<roots, calls, forgotten>>
    BY <1>8 DEF Persist
  <2>1. r \in Root /\ s \in Sequence /\ x \in Action
    BY <2>0 DEF InFlight
  <2>2. Record(local[a], s, x) \in State
    BY <2>1, RecordType DEF TypeOK
  <2>3. states' \in [DOMAIN states' -> State] /\ DOMAIN states' \subseteq Root
    <3>1. states' = [q \in DOMAIN states \cup {r} |->
                       IF q = r THEN Record(local[a], s, x) ELSE states[q]]
      BY <1>8 DEF Persist
    <3>2. DOMAIN states \subseteq Root /\ \A q \in DOMAIN states : states[q] \in State
      BY DEF TypeOK
    <3> HIDE DEF r, s, x
    <3> QED
      BY <2>1, <2>2, <3>1, <3>2
  <2>4. history' \in [Root -> Seq(Entry)]
    <3>1. [seq |-> s, action |-> x] \in Entry
      BY <2>1 DEF Entry
    <3>2. history' = [history EXCEPT ![r] = Append(@, [seq |-> s, action |-> x])]
      BY <1>8 DEF Persist
    <3>3. history \in [Root -> Seq(Entry)]
      BY DEF TypeOK
    <3>4. Append(history[r], [seq |-> s, action |-> x]) \in Seq(Entry)
      BY <2>1, <3>1, <3>3
    <3> QED
      BY <2>1, <3>2, <3>3, <3>4
  <2>5. Returns(a, "admitted", Empty) /\ mu' = NoAgent
    BY <1>8 DEF Persist
  <2> QED
    BY <2>0, <2>3, <2>4, <2>5, <1>2
<1>9. ASSUME NEW a \in Agent, Deny(a)
      PROVE  TypeOK' /\ InFlight'
  <2>1. call[a].seq \in Sequence
    BY <1>9 DEF Deny, InFlight
  <2>2. \A c \in Rules(call[a].seq) : c.id \in ConstraintId
    BY <2>1, ConstraintsType DEF Constraint
  <2>3. PICK rule \in ConstraintId : Returns(a, "denied", rule)
    BY <1>9, <2>2 DEF Deny
  <2> QED
    BY <1>9, <1>2, <2>3 DEF Deny, TypeOK
<1>10. ASSUME NEW r \in Root, Die(r)
       PROVE  TypeOK' /\ InFlight'
  BY <1>10 DEF Die, TypeOK, InFlight
<1>11. ASSUME NEW r \in Root, Forget(r)
       PROVE  TypeOK' /\ InFlight'
  <2>1. forgotten' \in [Root -> Nat]
    <3>1. history[r] \in Seq(Entry)
      BY DEF TypeOK
    <3>2. Len(history[r]) \in Nat
      BY <3>1
    <3> QED
      BY <1>11, <3>2 DEF Forget, TypeOK
  <2>2. DOMAIN states' \subseteq Root /\ states' \in [DOMAIN states' -> State]
    BY <1>11 DEF Forget, TypeOK
  <2>3. TypeOK'
    BY <1>11, <2>1, <2>2 DEF Forget, TypeOK
  <2>4. InFlight'
    BY <1>11 DEF Forget, InFlight
  <2> QED
    BY <2>3, <2>4
<1>12. CASE UNCHANGED vars
  BY <1>12 DEF TypeOK, InFlight
<1> QED
  BY <1>1, <1>3, <1>4, <1>5, <1>6, <1>7, <1>8, <1>9, <1>10, <1>11, <1>12 DEF Next, Run

\* Every reachable state is well typed, and every call in flight presents a
\* leaf that its chain's grant covers.
THEOREM TypeCorrect == Spec => [](TypeOK /\ InFlight)
<1> QED
  BY InitType, NextType, PTL DEF Spec
-----------------------------------------------------------------------------
(****************************************************************************)
(* The mutex: what a caller decides on is what is stored.                   *)
(****************************************************************************)
LEMMA NextCurrent ==
  ASSUME TypeOK, InFlight, OneHolder, LockedReadIsCurrent, [Next]_vars
  PROVE  OneHolder' /\ LockedReadIsCurrent'
<1> USE StoreAssumption DEF OneHolder, LockedReadIsCurrent, TypeOK
<1>1. ASSUME NEW a \in Agent, NEW r \in Root \cup {Empty}, NEW s \in Offered, NEW x \in Attempted,
             Admit(a, r, s, x)
      PROVE  OneHolder' /\ LockedReadIsCurrent'
  BY <1>1 DEF Admit, StateOf
<1>2. ASSUME NEW a \in Agent, AdmitUnconstrained(a) \/ RefuseCall(a) \/ ContextDone(a)
      PROVE  OneHolder' /\ LockedReadIsCurrent'
  BY <1>2 DEF AdmitUnconstrained, RefuseCall, ContextDone, Returns, StateOf
<1>3. ASSUME NEW a \in Agent, CallUpdate(a)
      PROVE  OneHolder' /\ LockedReadIsCurrent'
  BY <1>3 DEF CallUpdate, StateOf
<1>4. ASSUME NEW a \in Agent, Lock(a)
      PROVE  OneHolder' /\ LockedReadIsCurrent'
  BY <1>4 DEF Lock, StateOf
<1>5. ASSUME NEW a \in Agent, RefuseFull(a) \/ Deny(a)
      PROVE  OneHolder' /\ LockedReadIsCurrent'
  <2>1. /\ mu = a /\ mu' = NoAgent /\ states' = states
        /\ \E v, rule : Returns(a, v, rule)
    BY <1>5 DEF RefuseFull, Deny
  <2> QED
    BY <2>1 DEF Returns, StateOf
<1>6. ASSUME NEW a \in Agent, Read(a)
      PROVE  OneHolder' /\ LockedReadIsCurrent'
  BY <1>6 DEF Read, StateOf
<1>7. ASSUME NEW a \in Agent, Persist(a)
      PROVE  OneHolder' /\ LockedReadIsCurrent'
  <2>1. /\ mu = a /\ mu' = NoAgent
        /\ Returns(a, "admitted", Empty)
    BY <1>7 DEF Persist
  <2>2. \A b \in Agent : pc'[b] \notin {"locked", "decide"}
    BY <2>1 DEF Returns
  <2> QED
    BY <2>2
<1>8. ASSUME NEW r \in Root, Die(r)
      PROVE  OneHolder' /\ LockedReadIsCurrent'
  BY <1>8 DEF Die, StateOf
<1>9. ASSUME NEW r \in Root, Forget(r)
      PROVE  OneHolder' /\ LockedReadIsCurrent'
  BY <1>9 DEF Forget
<1>10. CASE UNCHANGED vars
  BY <1>10 DEF StateOf
<1> QED
  BY <1>1, <1>2, <1>3, <1>4, <1>5, <1>6, <1>7, <1>8, <1>9, <1>10 DEF Next, Run

-----------------------------------------------------------------------------
(****************************************************************************)
(* The history: only Persist and Forget touch it or the stored states.      *)
(****************************************************************************)
LEMMA OthersKeepHistory ==
  ASSUME [Next]_vars
  PROVE  /\ granted' = granted
         /\ \/ UNCHANGED <<states, history, forgotten>>
            \/ \E a \in Agent : Persist(a)
            \/ \E r \in Root : Forget(r)
BY DEF Next, Run, Admit, AdmitUnconstrained, RefuseCall, CallUpdate, ContextDone, Lock,
       RefuseFull, Read, Persist, Deny, Die, Forget

\* What Persist does to the history of the root it acts on, and to the others'.
LEMMA PersistAppends ==
  ASSUME TypeOK, InFlight, LockedReadIsCurrent, NEW a \in Agent, Persist(a),
         NEW r, NEW s, NEW x, r = call[a].root, s = call[a].seq, x = call[a].action
  PROVE  /\ r \in Root /\ s \in Sequence /\ x \in Action
         /\ SeqNoWider(granted[r], s)
         /\ Admits(StateOf(r), s, x)
         /\ StateOf(r)' = Record(StateOf(r), s, x)
         /\ history[r] \in Seq(Entry)
         /\ history'[r] \in Seq(Entry)
         /\ Len(history'[r]) = Len(history[r]) + 1
         /\ history'[r][Len(history[r]) + 1] = [seq |-> s, action |-> x]
         /\ \A i \in 1 .. Len(history[r]) : history'[r][i] = history[r][i]
         /\ \A q \in Root \ {r} : StateOf(q)' = StateOf(q) /\ history'[q] = history[q]
         /\ forgotten' = forgotten
<1>1. pc[a] = "decide"
  BY DEF Persist
<1>2. r \in Root /\ s \in Sequence /\ x \in Action /\ SeqNoWider(granted[r], s)
  BY <1>1, StoreAssumption DEF InFlight
<1>3. local[a] = StateOf(r)
  BY <1>1 DEF LockedReadIsCurrent
<1>4. /\ Admits(StateOf(r), s, x)
      /\ states' = [q \in DOMAIN states \cup {r} |->
                      IF q = r THEN Record(StateOf(r), s, x) ELSE states[q]]
      /\ history' = [history EXCEPT ![r] = Append(@, [seq |-> s, action |-> x])]
      /\ forgotten' = forgotten
  BY <1>3 DEF Persist
<1>5. history \in [Root -> Seq(Entry)]
  BY DEF TypeOK
<1>6. [seq |-> s, action |-> x] \in Entry
  BY <1>2 DEF Entry
<1>7. StateOf(r)' = Record(StateOf(r), s, x) /\ \A q \in Root \ {r} : StateOf(q)' = StateOf(q)
  BY <1>4 DEF StateOf
<1>8. /\ history'[r] = Append(history[r], [seq |-> s, action |-> x])
      /\ \A q \in Root \ {r} : history'[q] = history[q]
  BY <1>2, <1>4, <1>5
<1>9. history[r] \in Seq(Entry)
  BY <1>2, <1>5
<1>10. /\ history'[r] \in Seq(Entry)
       /\ Len(history'[r]) = Len(history[r]) + 1
       /\ history'[r][Len(history[r]) + 1] = [seq |-> s, action |-> x]
       /\ \A i \in 1 .. Len(history[r]) : history'[r][i] = history[r][i]
  BY <1>6, <1>8, <1>9
<1> QED
  BY <1>2, <1>4, <1>7, <1>8, <1>9, <1>10

LEMMA NextFold ==
  ASSUME TypeOK, InFlight, LockedReadIsCurrent, ForgottenOK, StateIsFold, [Next]_vars
  PROVE  ForgottenOK' /\ StateIsFold'
<1>1. CASE UNCHANGED <<states, history, forgotten>>
  BY <1>1 DEF ForgottenOK, StateIsFold, StateOf, Remembered
<1>2. ASSUME NEW a \in Agent, Persist(a)
      PROVE  ForgottenOK' /\ StateIsFold'
  <2>0. PICK r, s, x : r = call[a].root /\ s = call[a].seq /\ x = call[a].action
    OBVIOUS
  <2>1. /\ r \in Root /\ s \in Sequence
        /\ StateOf(r)' = Record(StateOf(r), s, x)
        /\ history[r] \in Seq(Entry)
        /\ Len(history'[r]) = Len(history[r]) + 1
        /\ history'[r][Len(history[r]) + 1] = [seq |-> s, action |-> x]
        /\ \A i \in 1 .. Len(history[r]) : history'[r][i] = history[r][i]
        /\ \A q \in Root \ {r} : StateOf(q)' = StateOf(q) /\ history'[q] = history[q]
        /\ forgotten' = forgotten
    BY <1>2, <2>0, PersistAppends
  <2>2. Len(history[r]) \in Nat /\ forgotten[r] \in Nat /\ forgotten[r] <= Len(history[r])
    BY <2>1 DEF TypeOK, ForgottenOK
  <2>3. ForgottenOK'
    BY <2>1, <2>2 DEF ForgottenOK
  <2>4. Remembered(r)' = Remembered(r) \cup {Len(history[r]) + 1}
    BY <2>1, <2>2 DEF Remembered
  <2>5. \A i \in Remembered(r) : history'[r][i] = history[r][i]
    BY <2>1, <2>2 DEF Remembered
  <2>6. StateOf(r)'.invocations = Len(history'[r]) - forgotten'[r]
    <3>1. StateOf(r).invocations = Len(history[r]) - forgotten[r]
      BY <2>1 DEF StateIsFold
    <3>2. StateOf(r)'.invocations = StateOf(r).invocations + 1
      BY <2>1 DEF Record
    <3> QED
      BY <2>1, <2>2, <3>1, <3>2
  <2>7. StateOf(r)'.triggered =
          {id \in ConstraintId :
             \E i \in Remembered(r)' : id \in Fired(history'[r][i].seq, history'[r][i].action)}
    <3>1. Fired(history'[r][Len(history[r]) + 1].seq, history'[r][Len(history[r]) + 1].action)
            = Fired(s, x)
      BY <2>1
    <3>2. StateOf(r)'.triggered = StateOf(r).triggered \cup Fired(s, x)
      BY <2>1 DEF Record
    <3>3. Fired(s, x) \subseteq ConstraintId
      BY <2>1, FiredType
    <3>4. StateOf(r).triggered =
            {id \in ConstraintId :
               \E i \in Remembered(r) : id \in Fired(history'[r][i].seq, history'[r][i].action)}
      BY <2>1, <2>5 DEF StateIsFold
    <3> QED
      BY <2>4, <3>1, <3>2, <3>3, <3>4
  <2>8. ASSUME NEW q \in Root \ {r}
        PROVE  /\ StateOf(q)'.invocations = Len(history'[q]) - forgotten'[q]
               /\ StateOf(q)'.triggered =
                    {id \in ConstraintId : \E i \in Remembered(q)' :
                       id \in Fired(history'[q][i].seq, history'[q][i].action)}
    BY <2>1 DEF StateIsFold, Remembered
  <2>9. StateIsFold'
    BY <2>6, <2>7, <2>8 DEF StateIsFold
  <2> QED
    BY <2>3, <2>9
<1>3. ASSUME NEW r \in Root, Forget(r)
      PROVE  ForgottenOK' /\ StateIsFold'
  <2>1. /\ history' = history
        /\ forgotten' = [forgotten EXCEPT ![r] = Len(history[r])]
        /\ StateOf(r)' = NoHistory
        /\ \A q \in Root \ {r} : StateOf(q)' = StateOf(q)
    BY <1>3 DEF Forget, StateOf
  <2>2. Len(history[r]) \in Nat
    <3>1. history[r] \in Seq(Entry)
      BY DEF TypeOK
    <3> QED
      BY <3>1
  <2>3. Remembered(r)' = {} /\ \A q \in Root \ {r} : Remembered(q)' = Remembered(q)
    BY <2>1, <2>2 DEF Remembered, TypeOK
  <2>4. forgotten'[r] = Len(history[r]) /\ \A q \in Root \ {r} : forgotten'[q] = forgotten[q]
    BY <2>1 DEF TypeOK
  <2>5. ForgottenOK'
    BY <2>1, <2>2, <2>4 DEF ForgottenOK
  <2>6. ASSUME NEW q \in Root
        PROVE  /\ StateOf(q)'.invocations = Len(history'[q]) - forgotten'[q]
               /\ StateOf(q)'.triggered =
                    {id \in ConstraintId : \E i \in Remembered(q)' :
                       id \in Fired(history'[q][i].seq, history'[q][i].action)}
    <3>1. CASE q = r
      BY <3>1, <2>1, <2>2, <2>3, <2>4 DEF NoHistory
    <3>2. CASE q # r
      BY <3>2, <2>1, <2>3, <2>4 DEF StateIsFold
    <3> QED
      BY <3>1, <3>2
  <2> QED
    BY <2>5, <2>6 DEF StateIsFold
<1> QED
  BY <1>1, <1>2, <1>3, OthersKeepHistory

-----------------------------------------------------------------------------
(****************************************************************************)
(* The entries: each was admitted under its leaf's budget and rules.        *)
(****************************************************************************)
EntryParts == EntriesNoWider /\ EntriesInBudget /\ EntriesKeepRules

LEMMA NextEntries ==
  ASSUME TypeOK, InFlight, LockedReadIsCurrent, ForgottenOK, StateIsFold, EntryParts, [Next]_vars
  PROVE  EntryParts'
<1> USE DEF EntryParts
<1>1. CASE UNCHANGED <<states, history, forgotten>>
  BY <1>1, OthersKeepHistory DEF EntriesNoWider, EntriesInBudget, EntriesKeepRules, Remembered
<1>2. ASSUME NEW a \in Agent, Persist(a)
      PROVE  EntryParts'
  <2>0. PICK r, s, x : r = call[a].root /\ s = call[a].seq /\ x = call[a].action
    OBVIOUS
  <2> DEFINE n == Len(history[r]) + 1
  <2>1. /\ r \in Root /\ s \in Sequence /\ SeqNoWider(granted[r], s)
        /\ Admits(StateOf(r), s, x)
        /\ history[r] \in Seq(Entry)
        /\ Len(history'[r]) = n
        /\ history'[r][n] = [seq |-> s, action |-> x]
        /\ \A i \in 1 .. Len(history[r]) : history'[r][i] = history[r][i]
        /\ \A q \in Root \ {r} : history'[q] = history[q]
        /\ forgotten' = forgotten
    BY <1>2, <2>0, PersistAppends
  <2>2. Len(history[r]) \in Nat /\ forgotten[r] \in Nat /\ forgotten[r] <= Len(history[r])
    BY <2>1 DEF TypeOK, ForgottenOK
  <2>3. granted' = granted
    BY OthersKeepHistory
  <2>4. /\ Remembered(r)' = Remembered(r) \cup {n}
        /\ Remembered(r) \subseteq 1 .. Len(history[r])
        /\ \A q \in Root \ {r} : Remembered(q)' = Remembered(q)
    BY <2>1, <2>2 DEF Remembered
  <2>5. EntriesNoWider'
    <3>1. ASSUME NEW i \in 1 .. n PROVE SeqNoWider(granted[r], history'[r][i].seq)
      BY <2>1, <2>2, <3>1 DEF EntriesNoWider
    <3> QED
      BY <2>1, <2>3, <3>1 DEF EntriesNoWider
  <2>6. EntriesInBudget'
    <3>1. s.max > 0 => n - forgotten[r] <= s.max
      <4>1. s.max > 0 => StateOf(r).invocations < s.max
        <5>1. StateOf(r).invocations \in Int /\ s.max \in Int
          BY <2>1, StateOfType DEF State, Sequence
        <5> QED
          BY <2>1, <5>1 DEF Admits, Exhausted
      <4>2. StateOf(r).invocations = Len(history[r]) - forgotten[r]
        BY <2>1 DEF StateIsFold
      <4> QED
        BY <2>1, <2>2, <4>1, <4>2 DEF Sequence
    <3>2. ASSUME NEW i \in Remembered(r)'
          PROVE  history'[r][i].seq.max > 0 => i - forgotten[r] <= history'[r][i].seq.max
      <4>1. CASE i = n
        BY <2>1, <3>1, <4>1
      <4>2. CASE i \in Remembered(r)
        BY <2>1, <2>4, <4>2 DEF EntriesInBudget
      <4> QED
        BY <2>4, <4>1, <4>2
    <3> QED
      BY <2>1, <2>4, <3>2 DEF EntriesInBudget
  <2>7. EntriesKeepRules'
    <3>1. \A c \in Rules(s) : c.id \in StateOf(r).triggered => ~ Matches(c.forbid, x)
      BY <2>1 DEF Admits, Forbidding, Rules
    <3>2. \A i \in Remembered(r) :
            Fired(history[r][i].seq, history[r][i].action) \subseteq StateOf(r).triggered
      <4>1. ASSUME NEW i \in Remembered(r)
            PROVE  Fired(history[r][i].seq, history[r][i].action) \subseteq ConstraintId
        <5>1. history[r][i] \in Entry
          BY <2>1, <2>4, <4>1
        <5> QED
          BY <5>1, FiredType DEF Entry
      <4> QED
        BY <2>1, <4>1 DEF StateIsFold
    <3>3. ASSUME NEW i \in Remembered(r)', NEW j \in Remembered(r)', i < j,
                 NEW c \in Rules(history'[r][j].seq),
                 c.id \in Fired(history'[r][i].seq, history'[r][i].action)
          PROVE  ~ Matches(c.forbid, history'[r][j].action)
      <4>1. i \in Remembered(r) /\ history'[r][i] = history[r][i]
        BY <2>1, <2>2, <2>4, <3>3
      <4>2. CASE j = n
        BY <2>1, <3>1, <3>2, <3>3, <4>1, <4>2
      <4>3. CASE j \in Remembered(r)
        <5>1. history'[r][j] = history[r][j]
          BY <2>1, <2>4, <4>3
        <5> QED
          BY <2>1, <3>3, <4>1, <4>3, <5>1 DEF EntriesKeepRules
      <4> QED
        BY <2>4, <4>2, <4>3
    <3>4. ASSUME NEW q \in Root \ {r}, NEW i \in Remembered(q)', NEW j \in Remembered(q)', i < j,
                 NEW c \in Rules(history'[q][j].seq),
                 c.id \in Fired(history'[q][i].seq, history'[q][i].action)
          PROVE  ~ Matches(c.forbid, history'[q][j].action)
      BY <2>1, <2>4, <3>4 DEF EntriesKeepRules
    <3> QED
      BY <3>3, <3>4 DEF EntriesKeepRules
  <2> QED
    BY <2>5, <2>6, <2>7
<1>3. ASSUME NEW r \in Root, Forget(r)
      PROVE  EntryParts'
  <2>1. /\ history' = history /\ granted' = granted
        /\ forgotten' = [forgotten EXCEPT ![r] = Len(history[r])]
    BY <1>3 DEF Forget
  <2>2. Len(history[r]) \in Nat
    <3>1. history[r] \in Seq(Entry)
      BY DEF TypeOK
    <3> QED
      BY <3>1
  <2>3. Remembered(r)' = {}
    BY <2>1, <2>2 DEF Remembered, TypeOK
  <2>4. \A q \in Root \ {r} : Remembered(q)' = Remembered(q) /\ forgotten'[q] = forgotten[q]
    BY <2>1 DEF Remembered, TypeOK
  <2>5. EntriesNoWider'
    BY <2>1 DEF EntriesNoWider
  <2>6. EntriesInBudget'
    BY <2>1, <2>3, <2>4 DEF EntriesInBudget
  <2>7. EntriesKeepRules'
    BY <2>1, <2>3, <2>4 DEF EntriesKeepRules
  <2> QED
    BY <2>5, <2>6, <2>7
<1> QED
  BY <1>1, <1>2, <1>3, OthersKeepHistory

-----------------------------------------------------------------------------
(****************************************************************************)
(* The inductive invariant and what follows from it.                        *)
(****************************************************************************)
LEMMA InitInv == Init => IInv
<1> SUFFICES ASSUME Init PROVE IInv
  OBVIOUS
<1>1. \A r \in Root : /\ Len(history[r]) = 0 /\ forgotten[r] = 0
                      /\ Remembered(r) = {} /\ StateOf(r) = NoHistory
  BY DEF Init, Remembered, StateOf
<1>2. OneHolder /\ LockedReadIsCurrent
  BY DEF Init, OneHolder, LockedReadIsCurrent
<1>3. ForgottenOK /\ EntriesNoWider /\ EntriesInBudget /\ EntriesKeepRules
  BY <1>1 DEF ForgottenOK, EntriesNoWider, EntriesInBudget, EntriesKeepRules
<1>4. StateIsFold
  BY <1>1 DEF StateIsFold, NoHistory
<1> QED
  BY <1>2, <1>3, <1>4, InitType DEF IInv

LEMMA NextInv == IInv /\ [Next]_vars => IInv'
<1> SUFFICES ASSUME IInv, [Next]_vars PROVE IInv'
  OBVIOUS
<1>1. TypeOK' /\ InFlight'
  BY NextType DEF IInv
<1>2. OneHolder' /\ LockedReadIsCurrent'
  BY NextCurrent DEF IInv
<1>3. ForgottenOK' /\ StateIsFold'
  BY NextFold DEF IInv
<1>4. EntryParts'
  BY NextEntries DEF IInv, EntryParts
<1> QED
  BY <1>1, <1>2, <1>3, <1>4 DEF IInv, EntryParts

\* Every reachable state satisfies the inductive invariant.
THEOREM Invariance == Spec => []IInv
<1> QED
  BY InitInv, NextInv, PTL DEF Spec

\* No caller ever decides on a state that another caller has replaced.
THEOREM DecisionsAreCurrent == Spec => []LockedReadIsCurrent
<1>1. IInv => LockedReadIsCurrent
  BY DEF IInv
<1> QED
  BY <1>1, Invariance, PTL

\* The compiled state of every root is the fold of its history.
THEOREM FoldCorrect == Spec => []StateIsFold
<1>1. IInv => StateIsFold
  BY DEF IInv
<1> QED
  BY <1>1, Invariance, PTL

\* A sponsor's budget bounds what all chains below the grant do together.
THEOREM BudgetCorrect == Spec => []BudgetBindsSiblings
<1>1. IInv => BudgetBindsSiblings
  <2> SUFFICES ASSUME IInv, NEW r \in Root, granted[r] # Nil, granted[r].max > 0
               PROVE  Len(history[r]) - forgotten[r] <= granted[r].max
    BY DEF BudgetBindsSiblings
  <2>1. granted[r] \in Sequence
    BY DEF IInv, TypeOK
  <2>2. granted[r].max \in Int
    BY <2>1 DEF Sequence
  <2>3. /\ history[r] \in Seq(Entry)
        /\ Len(history[r]) \in Nat /\ forgotten[r] \in Nat /\ forgotten[r] <= Len(history[r])
    <3>1. history[r] \in Seq(Entry)
      BY DEF IInv, TypeOK
    <3> QED
      BY <3>1 DEF IInv, TypeOK, ForgottenOK
  <2>4. CASE forgotten[r] = Len(history[r])
    BY <2>2, <2>3, <2>4
  <2>5. CASE forgotten[r] < Len(history[r])
    <3> DEFINE n == Len(history[r])  last == history[r][n].seq
    <3>1. n \in Remembered(r) /\ n \in 1 .. Len(history[r])
      BY <2>3, <2>5 DEF Remembered
    <3>2. last.max \in Int
      <4>1. history[r][n] \in Entry
        BY <2>3, <3>1
      <4> QED
        BY <4>1 DEF Entry, Sequence
    <3>3. last.max > 0 /\ last.max <= granted[r].max
      BY <3>1 DEF IInv, EntriesNoWider, SeqNoWider
    <3>4. n - forgotten[r] <= last.max
      BY <3>1, <3>3 DEF IInv, EntriesInBudget
    <3> QED
      BY <2>2, <2>3, <3>2, <3>3, <3>4
  <2> QED
    BY <2>3, <2>4, <2>5
<1> QED
  BY <1>1, Invariance, PTL

\* A rule of the sponsor's grant binds every agent below it: what it forbids
\* never follows what triggers it.
THEOREM RulesCorrect == Spec => []GrantedRulesBind
<1>1. IInv => GrantedRulesBind
  <2> SUFFICES ASSUME IInv, NEW r \in Root, granted[r] # Nil, NEW c \in Rules(granted[r]),
                      NEW i \in Remembered(r), NEW j \in Remembered(r), i < j,
                      Matches(c.after, history[r][i].action),
                      Matches(c.forbid, history[r][j].action)
               PROVE  FALSE
    BY DEF GrantedRulesBind
  <2>1. i \in 1 .. Len(history[r]) /\ j \in 1 .. Len(history[r])
    <3>1. history[r] \in Seq(Entry) /\ forgotten[r] \in Nat
      BY DEF IInv, TypeOK
    <3> QED
      BY <3>1 DEF Remembered
  <2>2. PICK ci \in Rules(history[r][i].seq) :
          ci.id = c.id /\ SameMatcher(ci.after, c.after)
    BY <2>1 DEF IInv, EntriesNoWider, SeqNoWider, Rules
  <2>3. PICK cj \in Rules(history[r][j].seq) :
          cj.id = c.id /\ SameMatcher(cj.forbid, c.forbid)
    BY <2>1 DEF IInv, EntriesNoWider, SeqNoWider, Rules
  <2>4. cj.id \in Fired(history[r][i].seq, history[r][i].action)
    BY <2>2, <2>3 DEF Fired, SameMatcher, Matches
  <2>5. ~ Matches(cj.forbid, history[r][j].action)
    BY <2>3, <2>4 DEF IInv, EntriesKeepRules
  <2> QED
    BY <2>3, <2>5 DEF SameMatcher, Matches
<1> QED
  BY <1>1, Invariance, PTL

-----------------------------------------------------------------------------
(****************************************************************************)
(* The limit, and what is never lost.                                       *)
(****************************************************************************)
\* A caller that was told there is room still has it when it persists.
Room ==
  /\ IsFiniteSet(DOMAIN states)
  /\ StoreBounded
  /\ \A a \in Agent : pc[a] = "decide" => call[a].root \in DOMAIN states \/ ~ Full

LEMMA NextRoom ==
  ASSUME IInv, Room, [Next]_vars
  PROVE  Room'
<1> USE StoreAssumption
<1>0. TypeOK /\ OneHolder
  BY DEF IInv
<1>1. CASE /\ DOMAIN states' = DOMAIN states
           /\ \A a \in Agent : pc'[a] = "decide" => pc[a] = "decide" /\ call'[a] = call[a]
  BY <1>1 DEF Room, StoreBounded, Full
<1>2. ASSUME NEW a \in Agent, Read(a) PROVE Room'
  BY <1>0, <1>2 DEF Read, TypeOK, Room, StoreBounded, Full
<1>3. ASSUME NEW a \in Agent, Persist(a) PROVE Room'
  <2> DEFINE r == call[a].root  D == DOMAIN states
  <2>1. pc[a] = "decide" /\ DOMAIN states' = D \cup {r}
    BY <1>3 DEF Persist
  <2>2. IsFiniteSet(D) /\ Cardinality(D) \in Nat
    BY FS_CardinalityType DEF Room
  <2>3. /\ IsFiniteSet(D \cup {r})
        /\ Cardinality(D \cup {r}) = IF r \in D THEN Cardinality(D) ELSE Cardinality(D) + 1
    <3> HIDE DEF D, r
    <3> QED
      BY <2>2, FS_AddElement
  <2>4. r \in D \/ ~ Full
    BY <2>1 DEF Room
  <2>5. StoreBounded'
    <3>1. Limit \in Int
      BY DEF Limit, DefaultMaxRoots
    <3>2. Limit > 0 => Cardinality(D \cup {r}) <= Limit
      BY <2>2, <2>3, <2>4, <3>1 DEF Room, StoreBounded, Full
    <3> QED
      BY <2>1, <3>2 DEF StoreBounded
  <2>6. ASSUME NEW b \in Agent PROVE pc'[b] # "decide"
    <3>1. mu = a /\ Returns(a, "admitted", Empty)
      BY <1>0, <1>3, <2>1 DEF OneHolder, Persist
    <3>2. pc' = [pc EXCEPT ![a] = "idle"] /\ (b # a => pc[b] # "decide")
      BY <1>0, <3>1 DEF Returns, OneHolder
    <3> QED
      BY <1>0, <3>2 DEF TypeOK
  <2> QED
    BY <2>1, <2>3, <2>5, <2>6 DEF Room
<1>4. ASSUME NEW r \in Root, Forget(r) PROVE Room'
  <2>1. DOMAIN states' = DOMAIN states \ {r} /\ mu = NoAgent /\ pc' = pc
    BY <1>4 DEF Forget
  <2>2. \A b \in Agent : pc'[b] # "decide"
    BY <1>0, <2>1 DEF OneHolder
  <2>3. IsFiniteSet(DOMAIN states) /\ DOMAIN states' \subseteq DOMAIN states
    BY <2>1 DEF Room
  <2>4. /\ IsFiniteSet(DOMAIN states') /\ Cardinality(DOMAIN states') <= Cardinality(DOMAIN states)
        /\ Cardinality(DOMAIN states') \in Nat /\ Cardinality(DOMAIN states) \in Nat
    BY <2>3, FS_Subset, FS_CardinalityType
  <2>5. StoreBounded'
    <3>1. Limit \in Int
      BY DEF Limit, DefaultMaxRoots
    <3> QED
      BY <2>4, <3>1 DEF Room, StoreBounded
  <2> QED
    BY <2>2, <2>4, <2>5 DEF Room
<1>5. ASSUME NEW a \in Agent, NEW r \in Root \cup {Empty}, NEW s \in Offered, NEW x \in Attempted,
             Admit(a, r, s, x)
      PROVE  Room'
  BY <1>0, <1>1, <1>5 DEF Admit, TypeOK
<1>6. ASSUME NEW a \in Agent, AdmitUnconstrained(a) \/ RefuseCall(a) \/ ContextDone(a) \/ RefuseFull(a) \/ Deny(a)
      PROVE  Room'
  <2>1. states' = states /\ \E v, rule : Returns(a, v, rule)
    BY <1>6 DEF AdmitUnconstrained, RefuseCall, ContextDone, RefuseFull, Deny
  <2> QED
    BY <1>0, <1>1, <2>1 DEF Returns, TypeOK
<1>7. ASSUME NEW a \in Agent, CallUpdate(a) \/ Lock(a) PROVE Room'
  BY <1>0, <1>1, <1>7 DEF CallUpdate, Lock, TypeOK
<1>8. ASSUME (\E r \in Root : Die(r)) \/ UNCHANGED vars PROVE Room'
  BY <1>1, <1>8 DEF Die
<1> QED
  BY <1>2, <1>3, <1>4, <1>5, <1>6, <1>7, <1>8 DEF Next, Run

\* The store never holds more roots than its limit.
THEOREM Bounded == Spec => []StoreBounded
<1>1. Init => Room
  <2> SUFFICES ASSUME Init PROVE Room
    OBVIOUS
  <2>1. DOMAIN states = {} /\ \A a \in Agent : pc[a] = "idle"
    BY DEF Init
  <2>2. IsFiniteSet({}) /\ Cardinality({}) = 0
    BY FS_EmptySet
  <2> QED
    BY <2>1, <2>2, StoreAssumption DEF Room, StoreBounded, Limit, DefaultMaxRoots
<1>2. IInv /\ Room /\ [Next]_vars => Room'
  BY NextRoom
<1>3. Room => StoreBounded
  BY DEF Room
<1> QED
  BY <1>1, <1>2, <1>3, Invariance, PTL DEF Spec

\* No step drops a live root's state, or takes an invocation or a trigger
\* from it.
THEOREM OnlyGrows == Spec => LiveStateOnlyGrows
<1>1. IInv /\ [Next]_vars =>
        [\A r \in DOMAIN states : live[r] =>
           /\ r \in DOMAIN states'
           /\ states'[r].invocations >= states[r].invocations
           /\ states[r].triggered \subseteq states'[r].triggered]_vars
  <2> SUFFICES ASSUME IInv, [Next]_vars, NEW r \in DOMAIN states, live[r]
               PROVE  /\ r \in DOMAIN states'
                      /\ states'[r].invocations >= states[r].invocations
                      /\ states[r].triggered \subseteq states'[r].triggered
    OBVIOUS
  <2>1. states[r] \in State /\ states[r].invocations \in Nat
    BY DEF IInv, TypeOK, State
  <2>2. CASE UNCHANGED <<states, history, forgotten>>
    BY <2>1, <2>2
  <2>3. ASSUME NEW a \in Agent, Persist(a)
        PROVE  /\ r \in DOMAIN states'
               /\ states'[r].invocations >= states[r].invocations
               /\ states[r].triggered \subseteq states'[r].triggered
    <3>1. local[a] = StateOf(call[a].root)
      BY <2>3 DEF Persist, IInv, LockedReadIsCurrent
    <3>2. states' = [q \in DOMAIN states \cup {call[a].root} |->
                       IF q = call[a].root THEN Record(local[a], call[a].seq, call[a].action) ELSE states[q]]
      BY <2>3 DEF Persist
    <3>3. CASE r = call[a].root
      BY <2>1, <3>1, <3>2, <3>3 DEF StateOf, Record
    <3>4. CASE r # call[a].root
      BY <2>1, <3>2, <3>4
    <3> QED
      BY <3>3, <3>4
  <2>4. ASSUME NEW q \in Root, Forget(q)
        PROVE  /\ r \in DOMAIN states'
               /\ states'[r].invocations >= states[r].invocations
               /\ states[r].triggered \subseteq states'[r].triggered
    BY <2>1, <2>4 DEF Forget
  <2> QED
    BY <2>2, <2>3, <2>4, OthersKeepHistory
<1> QED
  BY <1>1, Invariance, PTL DEF Spec, LiveStateOnlyGrows

-----------------------------------------------------------------------------
(****************************************************************************)
(* Refinement: every call is one step against the history of its root.      *)
(****************************************************************************)
\* A call is pending from its start to its return, and past Admit's checks
\* its constraints compile.
CallsPend ==
  \A a \in Agent :
    /\ History!Pending(a) <=> pc[a] # "idle"
    /\ pc[a] \notin {"idle", "admit"} => Compiles(call[a].seq)

\* The abstract module means by its rules what the store does.
LEMMA SameRules ==
  /\ History!Sequence = Sequence /\ History!Action = Action
  /\ \A s : History!Rules(s) = Rules(s) /\ (History!Compiles(s) <=> Compiles(s))
  /\ \A m, x : History!Matches(m, x) <=> Matches(m, x)
  /\ \A s, x : History!Fired(s, x) = Fired(s, x)
<1>1. History!Sequence = Sequence /\ History!Action = Action
  BY DEF History!Sequence, Sequence, History!Constraint, Constraint, History!Matcher, Matcher,
         History!Action, Action
<1>2. \A m, x : History!Matches(m, x) <=> Matches(m, x)
  BY DEF History!Matches, Matches
<1>3. \A s : History!Rules(s) = Rules(s)
  BY DEF History!Rules, Rules
<1>4. \A s : History!Compiles(s) <=> Compiles(s)
  BY DEF History!Compiles, Compiles, History!MatchesEverything, MatchesEverything
<1>5. \A s, x : History!Fired(s, x) = Fired(s, x)
  BY <1>2, <1>3 DEF History!Fired, Fired
<1> QED
  BY <1>1, <1>2, <1>3, <1>4, <1>5

LEMMA NextPend ==
  ASSUME TypeOK, CallsPend, [Next]_vars
  PROVE  CallsPend'
<1> USE DEF History!Pending
<1>1. ASSUME NEW a \in Agent, NEW r \in Root \cup {Empty}, NEW s \in Offered, NEW x \in Attempted,
             Admit(a, r, s, x)
      PROVE  CallsPend'
  BY <1>1 DEF Admit, TypeOK, CallsPend
<1>2. ASSUME NEW a \in Agent, NEW v \in {"admitted", "denied", "fault"}, NEW rule, Returns(a, v, rule)
      PROVE  CallsPend'
  BY <1>2 DEF Returns, TypeOK, CallsPend
<1>3. ASSUME NEW a \in Agent, AdmitUnconstrained(a) \/ RefuseCall(a) \/ ContextDone(a) \/ RefuseFull(a)
                              \/ Deny(a) \/ Persist(a)
      PROVE  CallsPend'
  <2>1. \E v \in {"admitted", "denied", "fault"} : \E rule : Returns(a, v, rule)
    BY <1>3 DEF AdmitUnconstrained, RefuseCall, ContextDone, RefuseFull, Deny, Persist
  <2> QED
    BY <1>2, <2>1
<1>4. ASSUME NEW a \in Agent, CallUpdate(a) \/ Lock(a) \/ Read(a) PROVE CallsPend'
  BY <1>4 DEF CallUpdate, Lock, Read, TypeOK, CallsPend
<1>5. CASE UNCHANGED <<pc, call, outcome>>
  BY <1>5 DEF CallsPend
<1>6. ASSUME (\E r \in Root : Die(r) \/ Forget(r)) \/ UNCHANGED vars PROVE CallsPend'
  BY <1>5, <1>6 DEF Die, Forget
<1> QED
  BY <1>1, <1>3, <1>4, <1>6 DEF Next, Run

\* What the stored state says of a root is what its history says.
LEMMA StateIsHistory ==
  ASSUME IInv, NEW r \in Root, NEW s \in Sequence, NEW x
  PROVE  /\ Exhausted(StateOf(r), s) <=> History!Spent(r, s)
         /\ \A i \in DOMAIN s.constraints :
              i \in Forbidding(StateOf(r), s, x) <=> s.constraints[i] \in History!Violated(r, s, x)
<1>1. StateOf(r).invocations = Len(history[r]) - forgotten[r]
  BY DEF IInv, StateIsFold
<1>2. ASSUME NEW i \in DOMAIN s.constraints
      PROVE  s.constraints[i].id \in StateOf(r).triggered <=> History!Tripped(r, s.constraints[i].id)
  <2>1. s.constraints[i].id \in ConstraintId
    BY <1>2, ConstraintsType DEF Constraint
  <2> QED
    BY <2>1, SameRules DEF IInv, StateIsFold, Remembered, History!Tripped, History!Happened
<1>3. \A i \in DOMAIN s.constraints :
        i \in Forbidding(StateOf(r), s, x) <=> s.constraints[i] \in History!Violated(r, s, x)
  <2>1. Rules(s) = {s.constraints[i] : i \in DOMAIN s.constraints}
    BY DEF Rules
  <2>2. History!Violated(r, s, x) = {c \in Rules(s) : Matches(c.forbid, x) /\ History!Tripped(r, c.id)}
    BY SameRules DEF History!Violated
  <2> QED
    BY <1>2, <2>1, <2>2 DEF Forbidding
<1> QED
  BY <1>1, <1>3 DEF Exhausted, History!Spent

\* Every call takes effect in one step between its start and its return.
THEOREM Implements == Spec => ImplementsHistory
<1>1. Init => CallsPend /\ History!AbsInit
  BY DEF Init, CallsPend, History!Pending, History!AbsInit
<1>2. IInv /\ CallsPend /\ [Next]_vars => CallsPend'
  BY NextPend DEF IInv
<1>3. IInv /\ CallsPend /\ [Next]_vars => [History!AbsNext]_(History!absVars)
  <2> SUFFICES ASSUME IInv, CallsPend, [Next]_vars
               PROVE  History!AbsNext \/ UNCHANGED <<call, outcome, history, forgotten>>
    BY DEF History!absVars
  <2>0. TypeOK /\ InFlight /\ LockedReadIsCurrent
    BY DEF IInv
  <2>1. ASSUME NEW a \in Agent, NEW r \in Root \cup {Empty}, NEW s \in Offered, NEW x \in Attempted,
               Admit(a, r, s, x)
        PROVE  History!Start(a)
    <3>1. [root |-> r, seq |-> s, action |-> x] \in History!Evaluable
      BY <2>1, SameRules, StoreAssumption DEF History!Evaluable
    <3>2. ~ History!Pending(a)
      BY <2>1 DEF Admit, CallsPend
    <3>3. /\ call' = [call EXCEPT ![a] = [root |-> r, seq |-> s, action |-> x]]
          /\ call'[a] = [root |-> r, seq |-> s, action |-> x]
          /\ outcome' = [outcome EXCEPT ![a] = [verdict |-> "pending", rule |-> Empty]]
          /\ UNCHANGED <<history, forgotten>>
      BY <2>0, <2>1 DEF Admit, TypeOK
    <3> QED
      BY <3>1, <3>2, <3>3 DEF History!Start
  <2>2. ASSUME NEW a \in Agent, NEW v, NEW rule, Returns(a, v, rule), forgotten' = forgotten
        PROVE  History!Decided(a, v, rule)
    BY <2>2 DEF Returns, History!Decided
  <2>3. ASSUME NEW a \in Agent, AdmitUnconstrained(a) PROVE History!Unconstrained(a)
    BY <2>2, <2>3 DEF AdmitUnconstrained, CallsPend, History!Unconstrained
  <2>4. ASSUME NEW a \in Agent, RefuseCall(a) \/ ContextDone(a) \/ RefuseFull(a) PROVE History!Fault(a)
    <3>1. /\ Returns(a, "fault", Empty) /\ UNCHANGED <<history, forgotten>>
          /\ pc[a] # "idle" /\ call[a].seq # Nil
      BY <2>0, <2>4 DEF RefuseCall, ContextDone, RefuseFull, InFlight
    <3> QED
      BY <2>2, <3>1 DEF CallsPend, History!Fault
  <2>5. ASSUME NEW a \in Agent, Persist(a) PROVE History!Admitted(a)
    <3>0. PICK r, s, x : r = call[a].root /\ s = call[a].seq /\ x = call[a].action
      OBVIOUS
    <3>1. /\ pc[a] = "decide" /\ Returns(a, "admitted", Empty) /\ forgotten' = forgotten
          /\ history' = [history EXCEPT ![r] = Append(@, [seq |-> s, action |-> x])]
      BY <2>5, <3>0 DEF Persist
    <3>2. r \in Root /\ s \in Sequence /\ Admits(StateOf(r), s, x)
      BY <2>0, <2>5, <3>0, PersistAppends
    <3>3. s # Nil /\ Compiles(s) /\ History!Pending(a)
      BY <2>0, <3>0, <3>1 DEF CallsPend, InFlight
    <3>4. ~ History!Spent(r, s)
      BY <3>2, StateIsHistory DEF Admits
    <3>5. History!Violated(r, s, x) = {}
      <4>1. \A i \in DOMAIN s.constraints : s.constraints[i] \notin History!Violated(r, s, x)
        BY <3>2, StateIsHistory DEF Admits
      <4> QED
        BY <4>1, SameRules DEF History!Violated, Rules
    <3> QED
      BY <2>2, <3>0, <3>1, <3>2, <3>3, <3>4, <3>5, SameRules DEF History!Admitted
  <2>6. ASSUME NEW a \in Agent, Deny(a) PROVE History!Denied(a)
    <3>0. PICK r, s, x : r = call[a].root /\ s = call[a].seq /\ x = call[a].action
      OBVIOUS
    <3>1. PICK id : /\ Denies(local[a], s, x, id) /\ Returns(a, "denied", id)
                    /\ pc[a] = "decide" /\ UNCHANGED <<history, forgotten>>
      BY <2>6, <3>0 DEF Deny
    <3>2. r \in Root /\ s \in Sequence /\ s # Nil /\ local[a] = StateOf(r) /\ History!Pending(a)
      BY <2>0, <3>0, <3>1, StoreAssumption, NilAssumption DEF InFlight, LockedReadIsCurrent, CallsPend
    <3>3. History!Decided(a, "denied", id)
      BY <2>2, <3>1
    <3>4. CASE Exhausted(StateOf(r), s) /\ id = Empty
      <4>1. History!Spent(r, s)
        BY <3>2, <3>4, StateIsHistory
      <4> QED
        BY <3>0, <3>1, <3>2, <3>3, <3>4, <4>1 DEF History!Denied
    <3>5. CASE ~ Exhausted(StateOf(r), s) /\ \E i \in Forbidding(StateOf(r), s, x) : id = s.constraints[i].id
      <4>1. PICK i \in Forbidding(StateOf(r), s, x) : id = s.constraints[i].id
        BY <3>5
      <4>2. s.constraints[i] \in History!Violated(r, s, x) /\ ~ History!Spent(r, s)
        BY <3>2, <3>5, <4>1, StateIsHistory DEF Forbidding
      <4> QED
        BY <3>0, <3>1, <3>2, <3>3, <4>1, <4>2 DEF History!Denied
    <3> QED
      BY <3>1, <3>2, <3>4, <3>5 DEF Denies
  <2>7. ASSUME NEW r \in Root, Forget(r) PROVE History!Discard(r)
    BY <2>7 DEF Forget, History!Discard
  <2>8. ASSUME \/ \E a \in Agent : CallUpdate(a) \/ Lock(a) \/ Read(a)
               \/ \E r \in Root : Die(r)
               \/ UNCHANGED vars
        PROVE  UNCHANGED <<call, outcome, history, forgotten>>
    BY <2>8 DEF CallUpdate, Lock, Read, Die
  <2> QED
    BY <2>1, <2>3, <2>4, <2>5, <2>6, <2>7, <2>8 DEF Next, Run, History!AbsNext
<1> QED
  BY <1>1, <1>2, <1>3, Invariance, PTL DEF Spec, ImplementsHistory, History!AbsSpec
=============================================================================
