------------------------------ MODULE Enforcer ------------------------------
(****************************************************************************)
(* mcp.Enforcer: concurrent tool calls through the four checks of           *)
(* Authorize, against one history store, while the clock advances,          *)
(* assertions are revoked and the store's owner forgets dead roots.         *)
(*                                                                          *)
(* The two components below are composed by what is established about them. *)
(* Verification accepts a chain only if it is Acceptable, which is what      *)
(* VerifyProofs shows of Verify.  Admission takes effect in one step, as    *)
(* SequenceStore implements SequenceHistory.  The catalog and the Policy    *)
(* Decision Point answer as they please.                                    *)
(*                                                                          *)
(* history and forgotten are history variables; the code has neither.       *)
(****************************************************************************)
EXTENDS Acceptance, FiniteSets

CONSTANTS Principal, Id,
          Call,         \* tool calls, each made once
          Presented,    \* the chains presented with them, as claims; a jti names one grant
          Tool,         \* tool names, the missing one among them
          Described,    \* Described[tool]: the facts its catalog may report; none if unknown
          ResourceType, \* Enforcer.resourceType
          ActionName,   \* Enforcer.action
          Limit,        \* MemoryStore.MaxRoots, a positive one
          MaxClock      \* bound: the last tick

\* requests is the number of evaluations the tool's declared mapping constructs
\* unless it fails, and 0 for a tool that declares none.
Facts == [tags : SUBSET Tag, attributes : [Key -> Value \cup {Nil}], requests : Nat]

ASSUME EnforcerAssumption ==
  /\ Presented \subseteq Seq(Claims(Principal, Id))
  /\ \A ch, d \in Presented \ {<< >>} : ch[1].jti = d[1].jti => ch[1] = d[1]
  /\ Tool \subseteq Str
  /\ Described \in [Tool -> SUBSET Facts]
  /\ ResourceType \in (Type \cap Name) \ {Empty} /\ ActionName \in (Type \cap Name) \ {Empty}
  /\ Audience \in Principal
  /\ Limit \in Nat \ {0} /\ Skew \in Nat /\ Second \in Nat \ {0} /\ MaxClock \in Nat

VARIABLES clock, revoked,
          pc, call, began, facts, todo, outcome, \* Authorize, per call
          states,                                \* the store
          history, forgotten

world == <<clock, revoked>>
store == <<states, history, forgotten>>
vars == <<clock, revoked, pc, call, began, facts, todo, outcome, states, history, forgotten>>

Roots == {ch[1].jti : ch \in Presented \ {<< >>}}
NoCall == [chain |-> << >>, tool |-> << >>]
\* What the call began with matters until verification returns.
AtRest == [clock |-> 0, revoked |-> {}]
NoFacts == [tags |-> {}, attributes |-> [k \in Key |-> Nil], requests |-> 0]

Init ==
  /\ clock = 0 /\ revoked = {}
  /\ pc = [c \in Call |-> "idle"]
  /\ call = [c \in Call |-> NoCall]
  /\ began = [c \in Call |-> AtRest]
  /\ facts = [c \in Call |-> NoFacts]
  /\ todo = [c \in Call |-> 0]
  /\ outcome = [c \in Call |-> "none"]
  /\ states = [r \in {} |-> NoHistory]
  /\ history = [r \in Roots |-> << >>]
  /\ forgotten = [r \in Roots |-> 0]

Leaf(c) == call[c].chain[Len(call[c].chain)]
RootId(c) == call[c].chain[1].jti
StateOf(r) == IF r \in DOMAIN states THEN states[r] ELSE NoHistory

GoTo(c, check) ==
  /\ pc' = [pc EXCEPT ![c] = check]
  /\ began' = [began EXCEPT ![c] = AtRest]
  /\ UNCHANGED <<outcome, call>>

Finish(c, how) ==
  /\ pc' = [pc EXCEPT ![c] = "done"]
  /\ outcome' = [outcome EXCEPT ![c] = how]
  /\ began' = [began EXCEPT ![c] = AtRest]
  /\ UNCHANGED call

\* Every refusal names the stage that refused.
Refuse(c, stage) == Finish(c, stage) /\ UNCHANGED <<world, facts, todo, store>>

Authorize(c, ch, tool) ==
  /\ pc[c] = "idle"
  /\ pc' = [pc EXCEPT ![c] = "verify"]
  /\ call' = [call EXCEPT ![c] = [chain |-> ch, tool |-> tool]]
  /\ began' = [began EXCEPT ![c] = [clock |-> clock, revoked |-> revoked]]
  /\ UNCHANGED <<world, facts, todo, outcome, store>>

(****************************************************************************)
(* 1. The chain.  Verification may refuse any chain: a key or a revocation  *)
(* may not resolve, and a link may have died by now.                        *)
(****************************************************************************)
NoTool(c) == pc[c] = "verify" /\ call[c].tool = << >> /\ Refuse(c, "catalog")

Verify(c) ==
  /\ pc[c] = "verify"
  /\ call[c].tool # << >>
  /\ \/ Refuse(c, "verify")
     \/ /\ Acceptable(call[c].chain, began[c])
        /\ GoTo(c, "catalog")
        /\ UNCHANGED <<world, facts, todo, store>>

\* 2a. What the tool is.  A tool the catalog cannot describe is a denial.
Describe(c) ==
  /\ pc[c] = "catalog"
  /\ \/ Refuse(c, "catalog")
     \/ \E f \in Described[call[c].tool] :
          /\ facts' = [facts EXCEPT ![c] = f]
          /\ GoTo(c, "permits")
          /\ UNCHANGED <<world, todo, store>>

(****************************************************************************)
(* 2b. The chain's own grant.                                               *)
(****************************************************************************)
RequestOf(c) ==
  [rtype |-> ResourceType, id |-> call[c].tool, tags |-> facts[c].tags, action |-> ActionName,
   attributes |-> facts[c].attributes]

Permit(c) ==
  /\ pc[c] = "permits"
  /\ IF Permits(Leaf(c).caps, RequestOf(c))
     THEN GoTo(c, "mapping") /\ UNCHANGED <<world, facts, todo, store>>
     ELSE Refuse(c, "permits")

(****************************************************************************)
(* 3. Organizational policy: every request the mapping constructs is        *)
(* evaluated in order, and each must be allowed.                            *)
(****************************************************************************)
Map(c) ==
  /\ pc[c] = "mapping"
  /\ \/ facts[c].requests # 0 /\ Refuse(c, "mapping")
     \/ /\ todo' = [todo EXCEPT ![c] = IF facts[c].requests = 0 THEN 1 ELSE facts[c].requests]
        /\ GoTo(c, "policy")
        /\ UNCHANGED <<world, facts, store>>

Evaluate(c) ==
  /\ pc[c] = "policy"
  /\ \/ Refuse(c, "policy")
     \/ /\ todo' = [todo EXCEPT ![c] = @ - 1]
        /\ GoTo(c, IF todo[c] = 1 THEN "sequence" ELSE "policy")
        /\ UNCHANGED <<world, facts, store>>

(****************************************************************************)
(* 4. The history, keyed by the root's jti.  Without a sequence there is    *)
(* nothing to keep; a full store takes no further root; the context may     *)
(* have ended.                                                              *)
(****************************************************************************)
ActionOf(c) == [name |-> ActionName, rtype |-> ResourceType, tags |-> facts[c].tags]

Recorded(c) ==
  LET r == RootId(c)  s == Leaf(c).seq
  IN  /\ states' = [q \in DOMAIN states \cup {r} |->
                      IF q = r THEN Record(StateOf(r), s, ActionOf(c)) ELSE states[q]]
      /\ history' = [history EXCEPT ![r] = Append(@, [call |-> c, seq |-> s, action |-> ActionOf(c)])]
      /\ UNCHANGED forgotten

Room(r) == r \in DOMAIN states \/ Cardinality(DOMAIN states) < Limit

AdmitUnconstrained(c) ==
  /\ pc[c] = "sequence"
  /\ Leaf(c).seq = Nil
  /\ Finish(c, "authorized")
  /\ UNCHANGED <<world, facts, todo, store>>

\* Mutated: a call is recorded before it is decided.
Admit_recordsFirst(c) ==
  /\ pc[c] = "sequence"
  /\ Leaf(c).seq # Nil
  /\ Room(RootId(c))
  /\ Finish(c, IF Admits(StateOf(RootId(c)), Leaf(c).seq, ActionOf(c)) THEN "authorized" ELSE "sequence")
  /\ Recorded(c)
  /\ UNCHANGED <<world, facts, todo>>

\* Mutated: admission is decided by the sponsor's claim.
Admit_byGrant(c) ==
  /\ pc[c] = "sequence"
  /\ Leaf(c).seq # Nil
  /\ Room(RootId(c))
  /\ LET s == call[c].chain[1].seq IN s # Nil => Admits(StateOf(RootId(c)), s, ActionOf(c))
  /\ Recorded(c)
  /\ Finish(c, "authorized")
  /\ UNCHANGED <<world, facts, todo>>

Admit(c) ==
  /\ pc[c] = "sequence"
  /\ Leaf(c).seq # Nil
  /\ Room(RootId(c))
  /\ Admits(StateOf(RootId(c)), Leaf(c).seq, ActionOf(c))
  /\ Recorded(c)
  /\ Finish(c, "authorized")
  /\ UNCHANGED <<world, facts, todo>>

\* A denial, a full store, or a context that has ended.
RefuseSequence(c) ==
  /\ pc[c] = "sequence"
  /\ Leaf(c).seq # Nil
  /\ Refuse(c, "sequence")

(****************************************************************************)
(* The world, and the store's owner: a root is forgotten once it has        *)
(* expired or is revoked (memory.go:103-108).                               *)
(****************************************************************************)
Tick ==
  /\ clock < MaxClock
  /\ clock' = clock + 1
  /\ UNCHANGED <<revoked, pc, call, began, facts, todo, outcome, store>>

Revoke(id) ==
  /\ id \notin revoked
  /\ revoked' = revoked \cup {id}
  /\ UNCHANGED <<clock, pc, call, began, facts, todo, outcome, store>>

Grants(r) == {ch[1] : ch \in {d \in Presented \ {<< >>} : d[1].jti = r}}

Dead(r) == r \in revoked \/ \A g \in Grants(r) : clock - Skew >= g.exp * Second

Forget(r) ==
  /\ Dead(r)
  /\ r \in DOMAIN states
  /\ states' = [q \in DOMAIN states \ {r} |-> states[q]]
  /\ forgotten' = [forgotten EXCEPT ![r] = Len(history[r])]
  /\ UNCHANGED <<world, pc, call, began, facts, todo, outcome, history>>

Step(c) ==
  \/ NoTool(c) \/ Verify(c) \/ Describe(c) \/ Permit(c) \/ Map(c) \/ Evaluate(c)
  \/ AdmitUnconstrained(c) \/ Admit(c) \/ RefuseSequence(c)

Next ==
  \/ \E c \in Call, ch \in Presented, tool \in Tool : Authorize(c, ch, tool)
  \/ \E c \in Call : Step(c)
  \/ Tick
  \/ \E id \in Id \ {Empty} : Revoke(id)
  \/ \E r \in Roots : Forget(r)

Spec == Init /\ [][Next]_vars

(****************************************************************************)
(* Properties.                                                              *)
(****************************************************************************)
Entry == [call : Call, seq : Sequence, action : Action]

TypeOK ==
  /\ clock \in Nat /\ revoked \subseteq Id
  /\ pc \in [Call -> {"idle", "verify", "catalog", "permits", "mapping", "policy", "sequence", "done"}]
  /\ call \in [Call -> [chain : Seq(Claims(Principal, Id)), tool : Str]]
  /\ began \in [Call -> [clock : Nat, revoked : SUBSET Id]]
  /\ facts \in [Call -> Facts]
  /\ todo \in [Call -> Nat]
  /\ outcome \in [Call -> {"none", "verify", "catalog", "permits", "mapping", "policy", "sequence", "authorized"}]
  /\ DOMAIN states \subseteq Roots /\ states \in [DOMAIN states -> State]
  /\ history \in [Roots -> Seq(Entry)]
  /\ forgotten \in [Roots -> Nat]

\* The PDP is asked about, and the history sees, only what every link of the
\* chain grants, the sponsor's first of all (specification section 8): what
\* the PDP answers cannot widen it.
PolicyAskedWithinGrant ==
  \A c \in Call :
    pc[c] \in {"policy", "sequence"} \/ outcome[c] \in {"policy", "sequence", "authorized"} =>
      \A i \in DOMAIN call[c].chain : Permits(call[c].chain[i].caps, RequestOf(c))

\* A refused call never happened: every recorded action is one of a call that
\* was authorized, and no call is recorded twice.
RefusedNeverHappened ==
  /\ \A r \in Roots : \A i \in DOMAIN history[r] : outcome[history[r][i].call] = "authorized"
  /\ \A r, q \in Roots : \A i \in DOMAIN history[r], j \in DOMAIN history[q] :
       history[r][i].call = history[q][j].call => r = q /\ i = j

Remembered(r) == (forgotten[r] + 1) .. Len(history[r])

\* The sponsor's budget and rules bind all calls below the grant together,
\* whichever delegated chains carry them and however the calls interleave
\* with each other, as long as the root is not forgotten.
GrantBindsCalls ==
  \A r \in Roots : \A g \in Grants(r) : g.seq # Nil =>
    /\ g.seq.max > 0 => Cardinality(Remembered(r)) <= g.seq.max
    /\ \A rule \in Rules(g.seq), i, j \in Remembered(r) :
         i < j => ~ (/\ Matches(rule.after, history[r][i].action)
                     /\ Matches(rule.forbid, history[r][j].action))

\* The links that carried a recorded call.
LinksOf(entry) ==
  LET ch == call[entry.call].chain IN {ch[n] : n \in DOMAIN ch}

\* Not only the sponsor's: whatever budget or rule a delegator anywhere on the
\* chain adds binds the calls that pass through its assertion.  Its budget
\* counts all that was done under the root, by siblings too; its rules hold
\* between any two calls it carried (sequence.go:168-177).
LinksBindCalls ==
  \A r \in Roots : \A j \in Remembered(r) : \A link \in LinksOf(history[r][j]) : link.seq # Nil =>
    /\ link.seq.max > 0 => j - forgotten[r] <= link.seq.max
    /\ \A rule \in Rules(link.seq), i \in Remembered(r) :
         i < j /\ link \in LinksOf(history[r][i]) =>
           ~ (/\ Matches(rule.after, history[r][i].action)
              /\ Matches(rule.forbid, history[r][j].action))

\* What admission keeps of the calls is what sequence evaluation promises: a
\* call that comes to the last stage is decided in one step against the ordered
\* history of its root, whatever became of other calls since it was verified.
Evaluated(c) == [root |-> RootId(c), seq |-> Leaf(c).seq, action |-> ActionOf(c)]

Verdict(c) ==
  IF pc[c] = "sequence" THEN "pending"
  ELSE IF outcome[c] = "authorized" THEN "admitted"
  ELSE IF outcome[c] = "sequence" THEN "fault" ELSE "none"

EvaluatedCalls == [c \in Call |-> IF pc[c] = "sequence" THEN Evaluated(c) ELSE Nil]
Verdicts       == [c \in Call |-> [verdict |-> Verdict(c), rule |-> Empty]]
Plain(h)       == [i \in DOMAIN h |-> [seq |-> h[i].seq, action |-> h[i].action]]
PlainHistory   == [r \in Roots |-> Plain(history[r])]

Evaluation == INSTANCE SequenceHistory WITH Agent <- Call, Root <- Roots,
                call <- EvaluatedCalls, outcome <- Verdicts, history <- PlainHistory
ImplementsEvaluation == Evaluation!AbsSpec

\* memory.go:105-106: the state of a chain that has expired or been revoked
\* is dead weight.  Then forgetting it changes nothing, and the sponsor's
\* budget is not exceeded over all calls ever admitted either.
DeadStateIsDeadWeight ==
  \A r \in Roots : \A g \in Grants(r) :
    g.seq # Nil /\ g.seq.max > 0 => Len(history[r]) <= g.seq.max
=============================================================================
