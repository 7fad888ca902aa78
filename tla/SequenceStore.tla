---------------------------- MODULE SequenceStore ----------------------------
(****************************************************************************)
(* sequence.Evaluator over sequence.MemoryStore, under concurrent callers.  *)
(*                                                                          *)
(* Each agent is one goroutine inside Evaluator.Admit at a time, presenting *)
(* the leaf constraints of some chain below a root.  Admit's own checks,    *)
(* taking the store's lock, reading the root's state under it, and deciding *)
(* and persisting are separate steps, so every interleaving the mutex       *)
(* admits is explored.  Roots die (expire or are revoked) at any moment and *)
(* the store's owner may then call Forget, also while calls are in flight.  *)
(*                                                                          *)
(* granted[r] is the sponsor's grant at depth 0: verification lets only     *)
(* leaves through whose constraints are no wider (verify.seqNoWider).       *)
(* history and forgotten are history variables; the code has neither.       *)
(****************************************************************************)
EXTENDS SequenceRules, FiniteSets

CONSTANTS Agent,     \* concurrent callers
          Root,      \* chain roots, the jti of depth-0 assertions
          NoAgent,   \* the mutex is free
          Offered,   \* the sequence claims assertions carry, Nil among them
          Attempted, \* the actions agents attempt
          MaxRoots,  \* MemoryStore.MaxRoots
          MaxCalls   \* bound: calls started in one behaviour

ASSUME StoreAssumption ==
  /\ Empty \notin Root
  /\ NoAgent \notin Agent
  /\ Offered \subseteq Sequence \cup {Nil}
  /\ Attempted \subseteq Action
  /\ MaxRoots \in Int
  /\ MaxCalls \in Nat

VARIABLES granted, live,          \* the roots
          states, mu,             \* the store: its map and its mutex
          pc, call, local, outcome, calls,
          history, forgotten

roots == <<granted, live>>
callers == <<pc, call, local, outcome, calls>>
ghosts == <<history, forgotten>>
vars == <<granted, live, states, mu, pc, call, local, outcome, calls, history, forgotten>>

DefaultMaxRoots == 100000
Limit == IF MaxRoots = 0 THEN DefaultMaxRoots ELSE MaxRoots
\* Mutated: the limit is passed by one.
Full_offByOne == Limit > 0 /\ Cardinality(DOMAIN states) > Limit

Full == Limit > 0 /\ Cardinality(DOMAIN states) >= Limit

\* m.states[root]: a missing key reads as the zero State.
StateOf(r) == IF r \in DOMAIN states THEN states[r] ELSE NoHistory

\* Admit returns: its arguments and locals go out of scope.
Returns(a, v, rule) ==
  /\ outcome' = [outcome EXCEPT ![a] = [verdict |-> v, rule |-> rule]]
  /\ pc' = [pc EXCEPT ![a] = "idle"]
  /\ call' = [call EXCEPT ![a] = Nil]
  /\ local' = [local EXCEPT ![a] = NoHistory]

Init ==
  /\ granted \in [Root -> {s \in Offered : Compiles(s)}]
  /\ live = [r \in Root |-> TRUE]
  /\ states = [r \in {} |-> NoHistory]
  /\ mu = NoAgent
  /\ pc = [a \in Agent |-> "idle"]
  /\ call = [a \in Agent |-> Nil]
  /\ local = [a \in Agent |-> NoHistory]
  /\ outcome = [a \in Agent |-> [verdict |-> "none", rule |-> Empty]]
  /\ calls = 0
  /\ history = [r \in Root |-> << >>]
  /\ forgotten = [r \in Root |-> 0]

(****************************************************************************)
(* Evaluator.Admit, up to the call of store.Update.  A verified chain names *)
(* a live root and a leaf no wider than its grant; Admit itself also meets  *)
(* callers that name no root.                                               *)
(****************************************************************************)
Admit(a, r, s, x) ==
  /\ pc[a] = "idle"
  /\ calls < MaxCalls
  /\ r \in Root => live[r] /\ SeqNoWider(granted[r], s)
  /\ calls' = calls + 1
  /\ call' = [call EXCEPT ![a] = [root |-> r, seq |-> s, action |-> x]]
  /\ pc' = [pc EXCEPT ![a] = "admit"]
  /\ outcome' = [outcome EXCEPT ![a] = [verdict |-> "pending", rule |-> Empty]]
  /\ UNCHANGED <<roots, states, mu, local, ghosts>>

AdmitUnconstrained(a) ==
  /\ pc[a] = "admit"
  /\ call[a].seq = Nil
  /\ Returns(a, "admitted", Empty)
  /\ UNCHANGED <<roots, states, mu, calls, ghosts>>

RefuseCall(a) ==
  /\ pc[a] = "admit"
  /\ call[a].seq # Nil
  /\ call[a].root = Empty \/ ~ Compiles(call[a].seq)
  /\ Returns(a, "fault", Empty)
  /\ UNCHANGED <<roots, states, mu, calls, ghosts>>

CallUpdate(a) ==
  /\ pc[a] = "admit"
  /\ call[a].seq # Nil
  /\ call[a].root # Empty
  /\ Compiles(call[a].seq)
  /\ pc' = [pc EXCEPT ![a] = "update"]
  /\ UNCHANGED <<roots, states, mu, call, local, outcome, calls, ghosts>>

(****************************************************************************)
(* MemoryStore.Update.  The context is looked at once, before the lock.     *)
(****************************************************************************)
ContextDone(a) ==
  /\ pc[a] = "update"
  /\ Returns(a, "fault", Empty)
  /\ UNCHANGED <<roots, states, mu, calls, ghosts>>

\* Mutated: reads and writes without holding the mutex.
Lock_shared(a) ==
  /\ pc[a] = "update"
  /\ mu' = a
  /\ pc' = [pc EXCEPT ![a] = "locked"]
  /\ UNCHANGED <<roots, states, call, local, outcome, calls, ghosts>>

Lock(a) ==
  /\ pc[a] = "update"
  /\ mu = NoAgent
  /\ mu' = a
  /\ pc' = [pc EXCEPT ![a] = "locked"]
  /\ UNCHANGED <<roots, states, call, local, outcome, calls, ghosts>>

\* Mutated: a full store makes room by dropping another root.
RefuseFull_evicts(a) ==
  /\ pc[a] = "locked"
  /\ call[a].root \notin DOMAIN states
  /\ Full
  /\ \E q \in DOMAIN states : states' = [p \in DOMAIN states \ {q} |-> states[p]]
  /\ UNCHANGED <<roots, mu, callers, ghosts>>

\* Mutated: the error return does not release the mutex.
RefuseFull_keepsLock(a) ==
  /\ pc[a] = "locked"
  /\ call[a].root \notin DOMAIN states
  /\ Full
  /\ Returns(a, "fault", Empty)
  /\ UNCHANGED <<roots, states, mu, calls, ghosts>>

\* Refuse rather than evict: a full store takes no further root.
RefuseFull(a) ==
  /\ pc[a] = "locked"
  /\ call[a].root \notin DOMAIN states
  /\ Full
  /\ Returns(a, "fault", Empty)
  /\ mu' = NoAgent
  /\ UNCHANGED <<roots, states, calls, ghosts>>

Read(a) ==
  /\ pc[a] = "locked"
  /\ call[a].root \in DOMAIN states \/ ~ Full
  /\ local' = [local EXCEPT ![a] = StateOf(call[a].root)]
  /\ pc' = [pc EXCEPT ![a] = "decide"]
  /\ UNCHANGED <<roots, states, mu, call, outcome, calls, ghosts>>

Persist(a) ==
  LET r == call[a].root  s == call[a].seq  x == call[a].action
  IN  /\ pc[a] = "decide"
      /\ Admits(local[a], s, x)
      /\ states' = [q \in DOMAIN states \cup {r} |->
                      IF q = r THEN Record(local[a], s, x) ELSE states[q]]
      /\ history' = [history EXCEPT ![r] = Append(@, [seq |-> s, action |-> x])]
      /\ mu' = NoAgent
      /\ Returns(a, "admitted", Empty)
      /\ UNCHANGED <<roots, calls, forgotten>>

\* Mutated: a refused action is counted and fires its triggers.
Deny_recorded(a) ==
  LET r == call[a].root  s == call[a].seq  x == call[a].action
  IN  /\ pc[a] = "decide"
      /\ states' = [q \in DOMAIN states \cup {r} |->
                      IF q = r THEN Record(local[a], s, x) ELSE states[q]]
      /\ mu' = NoAgent
      /\ \E id \in {Empty} \cup {c.id : c \in Rules(s)} :
           Denies(local[a], s, x, id) /\ Returns(a, "denied", id)
      /\ UNCHANGED <<roots, calls, ghosts>>

\* Nothing is persisted on a denial: a refused action did not happen.
Deny(a) ==
  LET s == call[a].seq  x == call[a].action
  IN  /\ pc[a] = "decide"
      /\ mu' = NoAgent
      /\ \E id \in {Empty} \cup {c.id : c \in Rules(s)} :
           Denies(local[a], s, x, id) /\ Returns(a, "denied", id)
      /\ UNCHANGED <<roots, states, calls, ghosts>>

(****************************************************************************)
(* A root expires or is revoked; the owner of the store forgets it later.   *)
(****************************************************************************)
Die(r) ==
  /\ live[r]
  /\ live' = [live EXCEPT ![r] = FALSE]
  /\ UNCHANGED <<granted, states, mu, callers, ghosts>>

Forget(r) ==
  /\ mu = NoAgent
  /\ ~ live[r]
  /\ states' = [q \in DOMAIN states \ {r} |-> states[q]]
  /\ forgotten' = [forgotten EXCEPT ![r] = Len(history[r])]
  /\ UNCHANGED <<roots, mu, callers, history>>

Run(a) ==
  \/ AdmitUnconstrained(a) \/ RefuseCall(a) \/ CallUpdate(a)
  \/ Lock(a) \/ RefuseFull(a) \/ Read(a) \/ Persist(a) \/ Deny(a)

Next ==
  \/ \E a \in Agent, r \in Root \cup {Empty}, s \in Offered, x \in Attempted : Admit(a, r, s, x)
  \/ \E a \in Agent : Run(a) \/ ContextDone(a)
  \/ \E r \in Root : Die(r) \/ Forget(r)

Spec == Init /\ [][Next]_vars

\* A goroutine that can run does, and sync.Mutex hands itself to a waiter
\* that has starved, so taking the lock is strongly fair.  No context need
\* ever be done, and the environment owes nothing.
Fairness == \A a \in Agent : WF_vars(Run(a)) /\ SF_vars(Lock(a))

FairSpec == Spec /\ Fairness

(****************************************************************************)
(* Properties.                                                              *)
(****************************************************************************)
Remembered(r) == (forgotten[r] + 1) .. Len(history[r])

CallType == [root : Root \cup {Empty}, seq : Sequence \cup {Nil}, action : Action]
Entry == [seq : Sequence, action : Action]

\* Every variable has its type.
TypeOK ==
  /\ granted \in [Root -> Sequence \cup {Nil}]
  /\ live \in [Root -> BOOLEAN]
  /\ DOMAIN states \subseteq Root /\ states \in [DOMAIN states -> State]
  /\ mu \in Agent \cup {NoAgent}
  /\ pc \in [Agent -> {"idle", "admit", "update", "locked", "decide"}]
  /\ call \in [Agent -> CallType \cup {Nil}]
  /\ local \in [Agent -> State]
  /\ outcome \in [Agent -> [verdict : {"none", "pending", "admitted", "denied", "fault"},
                            rule : ConstraintId]]
  /\ calls \in Nat
  /\ history \in [Root -> Seq(Entry)]
  /\ forgotten \in [Root -> Nat]

\* The state Update hands to admit is the stored one for as long as admit
\* works on it: no other caller writes between the read and the write.
LockedReadIsCurrent ==
  \A a \in Agent : pc[a] = "decide" => mu = a /\ local[a] = StateOf(call[a].root)

\* The compiled state of a root, one counter and one bit per constraint, is
\* the fold of the whole remembered history (specification section 9).
StateIsFold ==
  \A r \in Root :
    /\ StateOf(r).invocations = Len(history[r]) - forgotten[r]
    /\ StateOf(r).triggered =
         {id \in ConstraintId :
            \E i \in Remembered(r) : id \in Fired(history[r][i].seq, history[r][i].action)}

\* A sponsor's budget is spent once, by all the chains below the grant
\* together, whatever leaf each of the concurrent callers presents.
BudgetBindsSiblings ==
  \A r \in Root :
    granted[r] # Nil /\ granted[r].max > 0 =>
      Len(history[r]) - forgotten[r] <= granted[r].max

\* Once an action matching a granted rule's trigger was admitted under the
\* root, by any agent, no later action matching its prohibition is, by any.
GrantedRulesBind ==
  \A r \in Root : granted[r] # Nil =>
    \A c \in Rules(granted[r]), i, j \in Remembered(r) :
      i < j => ~ (/\ Matches(c.after, history[r][i].action)
                  /\ Matches(c.forbid, history[r][j].action))

\* The store never holds more roots than its limit, although concurrent
\* first calls of several roots all find room.
StoreBounded == Limit > 0 => Cardinality(DOMAIN states) <= Limit

\* A live root's state is never evicted, and never loses an invocation or a
\* trigger, however full the store is and whoever else calls.
LiveStateOnlyGrows ==
  [][\A r \in DOMAIN states : live[r] =>
       /\ r \in DOMAIN states'
       /\ states'[r].invocations >= states[r].invocations
       /\ states[r].triggered \subseteq states'[r].triggered]_vars

\* Every call takes effect in one step between its start and its return: it
\* is admitted exactly when its predicates over the history allow it, and a
\* denial names a constraint that the history violates.
History == INSTANCE SequenceHistory WITH call <- call, outcome <- outcome,
                                        history <- history, forgotten <- forgotten
ImplementsHistory == History!AbsSpec

\* Every call returns: no path out of Update keeps the mutex.
EveryCallReturns == \A a \in Agent : (pc[a] # "idle") ~> (pc[a] = "idle")

\* sequence.go:8-9 for every rule, also one that a delegation added below
\* the grant: once an action matching After has happened under this chain,
\* any action matching Forbid is denied.
EveryCarriedRuleBinds ==
  \A r \in Root : \A i, j \in Remembered(r) : i < j =>
    \A c \in Rules(history[r][j].seq) :
      Matches(c.after, history[r][i].action) => ~ Matches(c.forbid, history[r][j].action)
=============================================================================
