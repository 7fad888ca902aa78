---------------------------- MODULE GatewayProofs ----------------------------
(****************************************************************************)
(* Theorems about Gateway, for every set of calls, tools, mappings, budgets *)
(* and PDPs: what the Policy Decision Point is asked about a call is all    *)
(* that the tool's mapping stands for, about the chain of that call; an     *)
(* allow counts only for the request it was given for; and the gateway does *)
(* nothing to a call that the enforcer would not.                           *)
(*                                                                          *)
(* Drafted relates the requests constructed so far, and those sent, to the  *)
(* requests that the mapping stands for.  Known says which request an       *)
(* identifier can be taken for.                                             *)
(****************************************************************************)
EXTENDS Gateway, EnforcerProofs

-----------------------------------------------------------------------------
(****************************************************************************)
(* Requests and templates.                                                  *)
(****************************************************************************)
\* What a request says of whom it is about.
AboutChain(request, v, ch) ==
  LET says == request.says
      Reads(m, f) == {says[m][g] : g \in {h \in Field : Fold[h] = Fold[f]}} \ {Nil}
  IN  /\ says["subject"]["id"] = v.sub
      /\ Reads("subject", "iss") = {v.iss}
      /\ Reads("context", "agent") = {v.client_id}
      /\ Reads("context", "delegation") = {}
      /\ request.delegation = ch

\* What is written makes an object.
LEMMA PutType ==
  ASSUME NEW o \in Object \cup {Nil}, NEW f \in Field, NEW d \in Datum
  PROVE  Put(o, f, d) \in Object
<1>1. \A g \in Field : Says(o, g) \in Datum \cup {Nil}
  BY DEF Says, Object
<1> QED
  BY <1>1 DEF Put, Object

LEMMA AnchoredIsAbout ==
  ASSUME NEW v \in Established, NEW ch, NEW r \in [Member -> Object \cup {Nil}],
         SubjectHolds(r["subject"], v), ContextHolds(r["context"], v)
  PROVE  /\ Anchored(r, v, ch).says \in [Member -> Object \cup {Nil}]
         /\ Anchored(r, v, ch) = [says |-> Anchored(r, v, ch).says, delegation |-> ch]
         /\ AboutChain(Anchored(r, v, ch), v, ch)
<1> DEFINE s == r["subject"]  x == r["context"]
           kind == IF Says(s, "type") = Nil THEN "identity" ELSE s["type"]
           sub == v.sub  iss == v.iss  agent == v.client_id
           s1 == Put(s, "type", kind)  s2 == Put(s1, "id", sub)  s3 == Put(s2, "iss", iss)
           x1 == Put(x, "agent", agent)
           q == Anchored(r, v, ch)
<1>1. /\ "type" \in Field /\ "id" \in Field /\ "iss" \in Field /\ "agent" \in Field
      /\ "delegation" \in Field
      /\ sub \in Datum /\ iss \in Datum /\ agent \in Datum
      /\ Nil \notin Datum /\ "identity" \in Datum
  BY MappingAssumption DEF Established, Datum, Field
<1>2. s \in Object \cup {Nil} /\ x \in Object \cup {Nil}
  BY DEF Member
<1>3. kind \in Datum
  BY <1>1, <1>2 DEF Says, Object
<1>4. /\ s1 \in Object /\ s2 \in Object /\ s3 \in Object /\ x1 \in Object
      /\ s3["iss"] = iss /\ s3["id"] = sub
      /\ \A g \in Field : g \notin {"type", "id", "iss"} => s3[g] = Says(s, g)
      /\ x1["agent"] = agent
      /\ \A g \in Field : g # "agent" => x1[g] = Says(x, g)
  <2> HIDE DEF s, x, kind, sub, iss, agent
  <2>0. Nil \notin Object
    BY MappingAssumption
  <2>1. s1 = Put(s, "type", kind) /\ s1 \in Object
    BY <1>1, <1>2, <1>3, PutType
  <2>2. s2 = Put(s1, "id", sub) /\ s2 \in Object
    <3> HIDE DEF s1
    <3> QED
      BY <1>1, <2>1, PutType
  <2>3. s3 = Put(s2, "iss", iss) /\ s3 \in Object
    <3> HIDE DEF s2
    <3> QED
      BY <1>1, <2>2, PutType
  <2>4. x1 = Put(x, "agent", agent) /\ x1 \in Object
    BY <1>1, <1>2, PutType
  <2> HIDE DEF s1, s2, s3, x1
  <2>5. \A g \in Field : s1[g] = IF g = "type" THEN kind ELSE Says(s, g)
    BY <2>1 DEF Put
  <2>6. \A g \in Field : s2[g] = IF g = "id" THEN sub ELSE s1[g]
    BY <2>0, <2>1, <2>2 DEF Put, Says
  <2>7. \A g \in Field : s3[g] = IF g = "iss" THEN iss ELSE s2[g]
    BY <2>0, <2>2, <2>3 DEF Put, Says
  <2>8. \A g \in Field : x1[g] = IF g = "agent" THEN agent ELSE Says(x, g)
    BY <2>4 DEF Put
  <2> QED
    BY <1>1, <2>1, <2>2, <2>3, <2>4, <2>5, <2>6, <2>7, <2>8
<1>5. /\ q.says \in [Member -> Object \cup {Nil}]
      /\ q.says["subject"] = s3 /\ q.says["context"] = x1
      /\ q.delegation = ch /\ q = [says |-> q.says, delegation |-> ch]
  BY <1>4 DEF Anchored, Member
<1>6. /\ Fold["type"] # Fold["iss"] /\ Fold["id"] # Fold["iss"]
      /\ Fold["agent"] # Fold["delegation"]
  BY MappingAssumption
\* What a case-insensitive decoder takes for an anchored field is that field or a twin.
<1>7. /\ \A g \in Field : Fold[g] = Fold["iss"] /\ g # "iss" => Says(s, g) = Nil
      /\ \A g \in Field : Fold[g] \in {Fold["agent"], Fold["delegation"]} /\ g # "agent" =>
           Says(x, g) = Nil
  BY DEF SubjectHolds, ContextHolds, NoFoldTwins, Twins
<1>8. \A g \in Field : Fold[g] = Fold["iss"] /\ g # "iss" => s3[g] = Nil
  <2> HIDE DEF s, s3
  <2> QED
    BY <1>4, <1>6, <1>7
<1>9. \A g \in Field : Fold[g] \in {Fold["agent"], Fold["delegation"]} /\ g # "agent" => x1[g] = Nil
  <2> HIDE DEF x, x1
  <2> QED
    BY <1>4, <1>7
<1> HIDE DEF s3, x1, q
<1>10. AboutChain(q, v, ch)
  <2>1. {s3[g] : g \in {h \in Field : Fold[h] = Fold["iss"]}} \ {Nil} = {v.iss}
    BY <1>1, <1>4, <1>8
  <2>2. {x1[g] : g \in {h \in Field : Fold[h] = Fold["agent"]}} \ {Nil} = {v.client_id}
    BY <1>1, <1>4, <1>9
  <2>3. {x1[g] : g \in {h \in Field : Fold[h] = Fold["delegation"]}} \ {Nil} = {}
    BY <1>1, <1>6, <1>9
  <2> QED
    BY <1>4, <1>5, <2>1, <2>2, <2>3 DEF AboutChain
<1> QED
  BY <1>5, <1>10 DEF q

\* What resolving a template yields, and that it spends a number.
LEMMA ResolvedType ==
  ASSUME NEW t \in Template, NEW v \in Established, NEW args \in Arguments
  PROVE  Resolved(t, v, args) \in [Member -> Object \cup {Nil}]
<1>1. \A n \in Node \cup {Nil} : Yields(n, v, args) \in Datum \cup {Nil}
  <2> SUFFICES ASSUME NEW n \in Node, n # Nil PROVE Yields(n, v, args) \in Datum \cup {Nil}
    BY DEF Yields
  <2>1. CASE n.reads = "literal"
    BY <2>1 DEF Yields, Node
  <2>2. CASE n.reads = "token"
    <3>1. n.what \in {"sub", "iss", "client_id"}
      BY <2>2 DEF Node
    <3>2. v["sub"] \in Text /\ v["iss"] \in Text /\ v["client_id"] \in Text
      BY DEF Established
    <3>3. v[n.what] \in Datum
      BY <3>1, <3>2 DEF Datum
    <3> QED
      BY <2>2, <3>3 DEF Yields
  <2>3. CASE n.reads \in {"argument", "optional"}
    <3>1. n.what \in Argument
      BY <2>3 DEF Node
    <3>2. args[n.what] = Nil \/ args[n.what].is \in Datum
      BY <3>1 DEF Arguments
    <3> QED
      BY <2>3, <3>2 DEF Yields
  <2> QED
    BY <2>1, <2>2, <2>3 DEF Node
<1>2. ASSUME NEW m \in Member, t[m] # Nil
      PROVE  [f \in Field |-> Yields(t[m][f], v, args)] \in Object
  <2>1. t[m] \in [Field -> Node \cup {Nil}]
    BY <1>2 DEF Template
  <2> QED
    BY <1>1, <2>1 DEF Object
<1> QED
  BY <1>2 DEF Resolved

LEMMA CostType ==
  ASSUME NEW n \in Node, n.reads # "literal", NEW args \in Arguments
  PROVE  Cost(n, args) \in Nat
<1>1. CASE n.reads = "token"
  BY <1>1 DEF Cost
<1>2. CASE n.reads # "token"
  <2>1. n.what \in Argument
    BY <1>2 DEF Node
  <2>2. args[n.what] = Nil \/ args[n.what].values \in Nat
    BY <2>1 DEF Arguments
  <2> QED
    BY <1>2, <2>2 DEF Cost
<1> QED
  BY <1>1, <1>2

LEMMA SpendsType ==
  ASSUME NEW t \in Template, NEW args \in Arguments
  PROVE  IsFiniteSet(Produced(t, args)) /\ Spends(t, args) \in Nat
<1> DEFINE P == Member \X Field
<1>1. IsFiniteSet(P)
  <2>0. \A a, b : IsFiniteSet({a, b})
    <3> SUFFICES ASSUME NEW a, NEW b PROVE IsFiniteSet({a, b})
      OBVIOUS
    <3>1. IsFiniteSet({a}) /\ IsFiniteSet({b}) /\ {a, b} = {a} \cup {b}
      BY FS_Singleton
    <3> QED
      BY <3>1, FS_Union
  <2>1. IsFiniteSet({"type", "id", "name"})
    <3>1. {"type", "id", "name"} = {"type", "id"} \cup {"id", "name"}
      OBVIOUS
    <3>2. IsFiniteSet({"type", "id"}) /\ IsFiniteSet({"id", "name"})
      BY <2>0, Zenon
    <3> QED
      BY <3>1, <3>2, FS_Union
  <2>2. IsFiniteSet({"subject", "action", "resource", "context"})
    <3>1. {"subject", "action", "resource", "context"} = {"subject", "action"} \cup {"resource", "context"}
      OBVIOUS
    <3>2. IsFiniteSet({"subject", "action"}) /\ IsFiniteSet({"resource", "context"})
      BY <2>0, Zenon
    <3> QED
      BY <3>1, <3>2, FS_Union
  <2> QED
    BY <2>1, <2>2, FS_Union, FS_Product, MappingAssumption DEF Field, Member
<1>2. IsFiniteSet(Expressions(t))
  <2>1. Expressions(t) \subseteq P
    BY DEF Expressions
  <2> QED
    BY <1>1, <2>1, FS_Subset
<1>3. \A p \in Expressions(t) : Cost(t[p[1]][p[2]], args) \in Nat
  <2> SUFFICES ASSUME NEW p \in Expressions(t)
               PROVE  Cost(t[p[1]][p[2]], args) \in Nat
    OBVIOUS
  <2>1. t[p[1]][p[2]] \in Node /\ t[p[1]][p[2]].reads # "literal"
    BY DEF Expressions, Template
  <2> QED
    BY <2>1, CostType
<1> DEFINE f == [p \in Expressions(t) |-> {p} \X (1 .. Cost(t[p[1]][p[2]], args))]
<1>4. \A p \in Expressions(t) : IsFiniteSet(f[p])
  <2> SUFFICES ASSUME NEW p \in Expressions(t) PROVE IsFiniteSet(f[p])
    OBVIOUS
  <2>1. IsFiniteSet({p})
    BY FS_Singleton
  <2>2. IsFiniteSet(1 .. Cost(t[p[1]][p[2]], args))
    BY <1>3, FS_Interval
  <2> QED
    BY <2>1, <2>2, FS_Product
<1>5. IsFiniteSet({f[p] : p \in Expressions(t)})
  <2> DEFINE T == {f[p] : p \in Expressions(t)}
  <2>1. f \in Surjection(Expressions(t), T)
    <3>1. f \in [Expressions(t) -> T]
      OBVIOUS
    <3> HIDE DEF f
    <3> QED
      BY <3>1 DEF Surjection
  <2> HIDE DEF f, T
  <2>2. IsFiniteSet(T)
    BY <1>2, <2>1, FS_Surjection
  <2> QED
    BY <2>2 DEF T
<1>6. IsFiniteSet(UNION {f[p] : p \in Expressions(t)})
  BY <1>4, <1>5, FS_UNION
<1>7. Produced(t, args) = UNION {f[p] : p \in Expressions(t)}
  BY DEF Produced
<1> QED
  BY <1>6, <1>7, FS_CardinalityType DEF Spends

\* The entries of a mapping are templates, and there is one.
LEMMA EntriesType ==
  ASSUME NEW d \in Declaration
  PROVE  /\ d.top \in Template
         /\ Entries(d) \in Seq(Template) /\ Len(Entries(d)) \in Nat \ {0}
         /\ DOMAIN Entries(d) = 1 .. Len(Entries(d))
         /\ \A i \in DOMAIN Entries(d) : Entries(d)[i] \in Template
<1>1. Blank \in Template
  BY DEF Blank, Template
<1>2. d.top \in Template /\ d.list \in Seq(Template)
  BY DEF Declaration
<1> DEFINE S == Template
<1> HIDE DEF S
<1>3. \A s \in Seq(S) : s # << >> => /\ Len(s) \in Nat \ {0} /\ DOMAIN s = 1 .. Len(s)
                                     /\ \A i \in DOMAIN s : s[i] \in S
  OBVIOUS
<1>4. \A b \in S : <<b>> \in Seq(S) /\ <<b>> # << >>
  OBVIOUS
<1>5. Entries(d) \in Seq(Template) /\ Entries(d) # << >>
  BY <1>1, <1>2, <1>4 DEF S, Entries
<1> QED
  BY <1>2, <1>3, <1>5 DEF S

-----------------------------------------------------------------------------
(****************************************************************************)
(* The invariant of the gateway.                                            *)
(****************************************************************************)
USE DEF world, store, vars, mapper, wire, outer, gateVars

Unmapped == {"idle", "verify", "catalog", "permits", "mapping", "closed"}
Late     == {"permits", "mapping", "entries", "policy", "asked", "sequence"}
Outcomes == {"none", "verify", "catalog", "permits", "mapping", "policy", "sequence", "authorized"}

\* The variables of Authorize, as in Enforcer.
CallTypes ==
  /\ clock \in Nat /\ revoked \subseteq Id
  /\ call \in [Call -> [chain : Seq(Claims(Principal, Id)), tool : Str]]
  /\ began \in [Call -> [clock : Nat, revoked : SUBSET Id]]
  /\ facts \in [Call -> Facts]
  /\ todo \in [Call -> Nat]
  /\ outcome \in [Call -> Outcomes]

Placed(c) ==
  /\ pc[c] \notin {"idle", "closed"} => call[c].chain \in Presented \ {<< >>} /\ call[c].tool \in Tool
  /\ pc[c] \notin {"done", "closed"} => outcome[c] = "none"
  /\ pc[c] = "done" => outcome[c] # "none"
  /\ pc[c] # "verify" => began[c] = AtRest
  /\ pc[c] \in Late => facts[c] \in Described[call[c].tool]
  /\ pc[c] = "entries" => Mapped(c) # Nil

\* The requests constructed so far, and those put to the PDP, are the first of
\* those the mapping stands for.
Drafted(c) ==
  /\ pc[c] \in Unmapped => made[c] = << >> /\ asked[c] = << >>
  /\ pc[c] = "entries" =>
       /\ asked[c] = << >> /\ Len(made[c]) < Len(EntriesOf(c))
       /\ top[c] = Resolved(Mapped(c).top, VerifiedOf(c), Args(c))
  /\ \A k \in DOMAIN made[c] :
       /\ k \in DOMAIN Whole(c) /\ made[c][k] = Whole(c)[k]
       /\ AboutChain(made[c][k], VerifiedOf(c), call[c].chain)
  /\ \A k \in DOMAIN asked[c] :
       k \in DOMAIN made[c] /\ asked[c][k].request = made[c][k] /\ asked[c][k].to = endpoint
  /\ pc[c] \in {"policy", "asked"} \/ (PolicyPassed(c) /\ pc[c] # "closed") => DOMAIN made[c] = DOMAIN Whole(c)
  /\ pc[c] = "policy" => todo[c] > 0 /\ Len(asked[c]) + todo[c] = Len(made[c])
  /\ pc[c] = "asked" =>
       todo[c] \in 1 .. Len(made[c]) /\ Len(asked[c]) + todo[c] = Len(made[c]) + 1
  /\ PolicyPassed(c) /\ pc[c] # "closed" => Len(asked[c]) = Len(made[c]) /\ Len(made[c]) > 0

\* What an identifier can be taken for.
Known(c) ==
  /\ \A k \in DOMAIN asked[c] : asked[c][k].id \in {<<c, k>>, Nil}
  /\ pc[c] # "closed" =>
       \A a \in answers, k \in Nat : a.id = <<c, k>> =>
         k \in DOMAIN asked[c] /\ asked[c][k].id = a.id /\ asked[c][k].request = a.request

GateInv ==
  /\ GateTypeOK /\ CallTypes /\ endpoint \in Endpoints
  /\ \A c \in Call : Placed(c) /\ Drafted(c) /\ Known(c)
  /\ AllowIsForThisRequest

\* What a step leaves alone of a call that it is not about.
Same(d) ==
  /\ pc'[d] = pc[d] /\ call'[d] = call[d] /\ began'[d] = began[d] /\ facts'[d] = facts[d]
  /\ todo'[d] = todo[d] /\ outcome'[d] = outcome[d] /\ input'[d] = input[d]
  /\ top'[d] = top[d] /\ made'[d] = made[d] /\ asked'[d] = asked[d]

LEMMA SameKeeps ==
  ASSUME NEW d \in Call, Same(d), endpoint' = endpoint, Placed(d), Drafted(d)
  PROVE  Placed(d)' /\ Drafted(d)'
<1>1. /\ Mapped(d)' = Mapped(d) /\ EntriesOf(d)' = EntriesOf(d) /\ VerifiedOf(d)' = VerifiedOf(d)
      /\ Args(d)' = Args(d) /\ PolicyPassed(d)' = PolicyPassed(d)
  BY DEF Same, Mapped, EntriesOf, VerifiedOf, Leaf, Args, PolicyPassed
<1>2. Whole(d)' = Whole(d)
  BY DEF Same, Whole, Alone, Mapped, EntriesOf, VerifiedOf, Leaf, Args
<1>3. Placed(d)'
  BY <1>1 DEF Same, Placed
<1>4. Drafted(d)'
  BY <1>1, <1>2 DEF Same, Drafted
<1> QED
  BY <1>3, <1>4

LEMMA EndpointType == Endpoints \subseteq Url
BY GatewayAssumption DEF Endpoints, Discovers

LEMMA GateInitInv == GateInit => GateInv
<1> SUFFICES ASSUME GateInit PROVE GateInv
  OBVIOUS
<1>1. << >> \in Seq(Claims(Principal, Id)) /\ << >> \in Str /\ << >> \in Seq(Requested)
      /\ << >> \in Seq([id : Identified, request : Requested, to : Url])
  BY DEF Str
<1>2. CallTypes
  BY <1>1 DEF GateInit, Init, CallTypes, NoCall, AtRest, NoFacts, Facts, Outcomes
<1>3. Unread \in Input /\ Blank \in [Member -> Object \cup {Nil}] /\ MaxValues \in 0 .. MaxValues
  BY <1>1, MappingAssumption DEF Unread, Input, NoArguments, Arguments, Blank
<1>4. GateTypeOK /\ endpoint \in Endpoints
  BY <1>1, <1>3, EndpointType DEF GateInit, Init, GateTypeOK
<1>5. \A c \in Call : Placed(c) /\ Drafted(c) /\ Known(c)
  BY DEF GateInit, Init, Placed, Drafted, Known, Late, Unmapped, PolicyPassed
<1>6. AllowIsForThisRequest
  BY DEF GateInit, AllowIsForThisRequest
<1> QED
  BY <1>2, <1>4, <1>5, <1>6 DEF GateInv

\* The call of a step past its beginning.
LEMMA CallFacts ==
  ASSUME GateInv, NEW c \in Call, pc[c] \notin {"idle", "closed"}
  PROVE  /\ call[c].chain \in Presented \ {<< >>} /\ call[c].tool \in Tool
         /\ VerifiedOf(c) \in Established
         /\ Args(c) \in Arguments
         /\ Mapped(c) \in Declaration \cup {Nil}
         /\ \A f \in Described[call[c].tool] :
              f.requests = IF Mapped(c) = Nil THEN 0 ELSE Len(EntriesOf(c))
<1>1. call[c].chain \in Presented \ {<< >>} /\ call[c].tool \in Tool
  BY DEF GateInv, Placed
<1>2. Leaf(c) \in Claims(Principal, Id)
  BY <1>1, ChainType, EnforcerAssumption DEF Leaf
<1>3. VerifiedOf(c) \in Established
  <2>1. Leaf(c).root.sub \in Principal /\ Leaf(c).root.iss \in Principal /\ Leaf(c).sub \in Principal
    BY <1>2 DEF Claims
  <2> QED
    BY <2>1, GatewayAssumption DEF VerifiedOf, Established
<1>4. Args(c) \in Arguments
  BY DEF GateInv, GateTypeOK, Input, Args
<1> QED
  BY <1>1, <1>3, <1>4, GatewayAssumption DEF Mapped, EntriesOf

\* A step is about one call.
LEMMA OthersSame ==
  ASSUME GateInv, NEW c \in Call,
         (\E i \in Offered : Receive(c, i)) \/ Serve(c)
  PROVE  endpoint' = endpoint /\ \A d \in Call \ {c} : Same(d)
<1> USE DEF Same, GateInv, GateTypeOK, CallTypes, GoTo, Finish, Refuse
<1>1. ASSUME NEW i \in Offered, Receive(c, i)
      PROVE  endpoint' = endpoint /\ \A d \in Call \ {c} : Same(d)
  BY <1>1 DEF Receive, Authorize
<1>2. CASE Checks(c)
  BY <1>2 DEF Checks, NoTool, Verify, Permit
<1>3. CASE LookUp(c)
  BY <1>3 DEF LookUp, Describe
<1>4. CASE DefaultMapping(c)
  BY <1>4 DEF DefaultMapping
<1>5. CASE ResolveDefaults(c)
  <2>1. CASE ResolutionFails(c, Mapped(c).top)
    BY <1>5, <2>1 DEF ResolveDefaults
  <2>2. CASE ~ ResolutionFails(c, Mapped(c).top)
    BY <1>5, <2>2 DEF ResolveDefaults
  <2> QED
    BY <2>1, <2>2
<1>6. CASE Construct(c)
  <2>1. CASE Refuse(c, "mapping") /\ UNCHANGED mapper
    BY <1>6, <2>1 DEF Construct
  <2>2. CASE \E request : Constructed(c, request) /\ UNCHANGED top
    <3>1. UNCHANGED <<wire, outer>>
      BY <1>6 DEF Construct
    <3> QED
      BY <2>2, <3>1 DEF Constructed
  <2> QED
    BY <1>6, <2>1, <2>2 DEF Construct
<1>7. CASE Send(c)
  BY <1>7 DEF Send
<1>8. CASE Allowed(c)
  BY <1>8 DEF Allowed
<1>9. CASE Unallowed(c)
  BY <1>9 DEF Unallowed
<1>10. CASE Admission(c)
  BY <1>10 DEF Admission, AdmitUnconstrained, Admit, RefuseSequence
<1>11. CASE Reply(c)
  BY <1>11 DEF Reply
<1> QED
  BY <1>1, <1>2, <1>3, <1>4, <1>5, <1>6, <1>7, <1>8, <1>9, <1>10, <1>11 DEF Serve

\* Neither the PDP, nor a caller that leaves, nor the world changes a call.
LEMMA NobodysStep ==
  ASSUME GateInv,
         (\E c \in Call : Allow(c) \/ HangUp(c)) \/ World \/ UNCHANGED gateVars
  PROVE  /\ endpoint' = endpoint /\ \A d \in Call : Same(d)
         /\ (\E c \in Call : Allow(c)) \/ answers' = answers
         /\ <<pc, call, began, facts, todo, outcome, input, top, left, made, asked, reply>>'
              = <<pc, call, began, facts, todo, outcome, input, top, left, made, asked, reply>>
         /\ gone' \subseteq Call
BY DEF Same, Allow, HangUp, World, Tick, Revoke, Forget, GateInv, GateTypeOK

\* The request that an entry stands for.
LEMMA ConstructedRequest ==
  ASSUME GateInv, NEW c \in Call, pc[c] = "entries",
         Anchors(Fields(c, EntryAt(c)), VerifiedOf(c)),
         NEW q, q = Anchored(Fields(c, EntryAt(c)), VerifiedOf(c), call[c].chain)
  PROVE  /\ q \in Requested
         /\ AboutChain(q, VerifiedOf(c), call[c].chain)
         /\ Len(made[c]) + 1 \in DOMAIN Whole(c) /\ q = Whole(c)[Len(made[c]) + 1]
         /\ EntryAt(c) \in Template
         /\ Mapped(c) \in Declaration /\ DOMAIN Whole(c) = 1 .. Len(EntriesOf(c))
         /\ Len(EntriesOf(c)) \in Nat
<1> DEFINE v == VerifiedOf(c)  n == Len(made[c]) + 1  t == EntryAt(c)
<1>1. /\ v \in Established /\ Args(c) \in Arguments /\ call[c].chain \in Seq(Claims(Principal, Id))
      /\ Mapped(c) \in Declaration \cup {Nil} /\ Mapped(c) # Nil
  BY CallFacts, EnforcerAssumption DEF GateInv, Placed
<1>2. /\ Mapped(c).top \in Template
      /\ Len(EntriesOf(c)) \in Nat /\ DOMAIN EntriesOf(c) = 1 .. Len(EntriesOf(c))
      /\ \A i \in DOMAIN EntriesOf(c) : EntriesOf(c)[i] \in Template
  BY <1>1, EntriesType DEF EntriesOf
<1>3. n \in 1 .. Len(EntriesOf(c))
  <2>1. made[c] \in Seq(Requested)
    BY DEF GateInv, GateTypeOK
  <2>2. Len(made[c]) \in Nat
    BY <2>1
  <2> QED
    BY <1>2, <2>2 DEF GateInv, Drafted
<1>4. t \in Template /\ t = EntriesOf(c)[n]
  BY <1>2, <1>3 DEF EntryAt
<1>5. top[c] = Resolved(Mapped(c).top, v, Args(c))
  BY DEF GateInv, Drafted
<1>6. Fields(c, t) = Alone(c, t)
  BY <1>5 DEF Fields, Alone
<1>7. Fields(c, t) \in [Member -> Object \cup {Nil}]
  <2>1. /\ Resolved(t, v, Args(c)) \in [Member -> Object \cup {Nil}]
        /\ top[c] \in [Member -> Object \cup {Nil}]
    <3> HIDE DEF t, v
    <3> QED
      BY <1>1, <1>2, <1>4, <1>5, ResolvedType
  <2> QED
    BY <2>1 DEF Fields, Effective
<1>8. SubjectHolds(Fields(c, t)["subject"], v) /\ ContextHolds(Fields(c, t)["context"], v)
  BY DEF Anchors
<1>9. q.says \in [Member -> Object \cup {Nil}] /\ q = [says |-> q.says, delegation |-> call[c].chain]
      /\ AboutChain(q, v, call[c].chain)
  <2> DEFINE r == Fields(c, t)
  <2>1. q = Anchored(r, v, call[c].chain)
    OBVIOUS
  <2> HIDE DEF r, v
  <2> QED
    BY <1>1, <1>7, <1>8, <2>1, AnchoredIsAbout DEF r
<1>10. q \in Requested
  BY <1>1, <1>9 DEF Requested
<1>11. Whole(c) = [i \in DOMAIN EntriesOf(c) |-> Anchored(Alone(c, EntriesOf(c)[i]), v, call[c].chain)]
  BY <1>1 DEF Whole
<1>12. q = Whole(c)[n]
  BY <1>2, <1>3, <1>4, <1>6, <1>11
<1> QED
  BY <1>1, <1>2, <1>3, <1>4, <1>9, <1>10, <1>11, <1>12

\* The request of a tool that declares no mapping.
LEMMA DefaultRequest ==
  ASSUME GateInv, NEW c \in Call, pc[c] = "mapping", Mapped(c) = Nil,
         NEW q, q = ToolCallRequest(VerifiedOf(c), Spelled[call[c].tool], call[c].chain)
  PROVE  /\ q \in Requested
         /\ AboutChain(q, VerifiedOf(c), call[c].chain)
         /\ Whole(c) = <<q>>
<1> DEFINE v == VerifiedOf(c)  name == Spelled[call[c].tool]
           r == [m \in Member |->
                   CASE m = "action" -> Put(Nil, "name", "tools/call")
                     [] m = "resource" -> Put(Put(Nil, "type", "tool"), "id", name)
                     [] OTHER -> Nil]
<1>1. /\ v \in Established /\ name \in Datum /\ call[c].chain \in Seq(Claims(Principal, Id))
  BY CallFacts, EnforcerAssumption, GatewayAssumption DEF Datum
<1>2. r \in [Member -> Object \cup {Nil}] /\ r["subject"] = Nil /\ r["context"] = Nil
  <2>1. /\ "name" \in Field /\ "type" \in Field /\ "id" \in Field
        /\ "tools/call" \in Datum /\ "tool" \in Datum
    BY MappingAssumption DEF Field, Datum
  <2>2. Put(Nil, "name", "tools/call") \in Object /\ Put(Nil, "type", "tool") \in Object
    BY <2>1, PutType
  <2>3. Put(Put(Nil, "type", "tool"), "id", name) \in Object
    <3> DEFINE o == Put(Nil, "type", "tool")
    <3>1. o \in Object \cup {Nil}
      BY <2>2
    <3> HIDE DEF o, name
    <3>2. Put(o, "id", name) \in Object
      BY <1>1, <2>1, <3>1, PutType
    <3> QED
      BY <3>2 DEF o
  <2> QED
    BY <2>2, <2>3 DEF Member
<1> HIDE DEF r
<1>3. SubjectHolds(r["subject"], v) /\ ContextHolds(r["context"], v)
  BY <1>2 DEF SubjectHolds, ContextHolds, OnlyMembers, Optional, NoFoldTwins, Says
<1>4. q = Anchored(r, v, call[c].chain)
  BY DEF ToolCallRequest, r
<1>5. q.says \in [Member -> Object \cup {Nil}] /\ q = [says |-> q.says, delegation |-> call[c].chain]
      /\ AboutChain(q, v, call[c].chain)
  <2> HIDE DEF v
  <2> QED
    BY <1>1, <1>2, <1>3, <1>4, AnchoredIsAbout
<1>6. q \in Requested
  BY <1>1, <1>5 DEF Requested
<1> QED
  BY <1>5, <1>6 DEF Whole

-----------------------------------------------------------------------------
(****************************************************************************)
(* What each action leaves of the call it is about.                         *)
(****************************************************************************)
Kept(c) == GateTypeOK' /\ CallTypes' /\ Placed(c)' /\ Drafted(c)'

\* A call that has no requests yet.
LEMMA UnmappedDrafted ==
  ASSUME NEW c \in Call, pc[c] \in Unmapped, made[c] = << >>, asked[c] = << >>,
         pc[c] = "closed" \/ outcome[c] = "none"
  PROVE  Drafted(c)
BY DEF Drafted, Unmapped, PolicyPassed

LEMMA ReceiveKeeps ==
  ASSUME GateInv, NEW c \in Call, NEW i \in Offered, Receive(c, i)
  PROVE  Kept(c)
<1> USE DEF GateInv
<1>1. i \in Input /\ pc[c] = "idle"
  BY GatewayAssumption DEF Receive
<1>2. made[c] = << >> /\ asked[c] = << >> /\ outcome[c] = "none" /\ began[c] = AtRest
  BY <1>1 DEF Drafted, Placed, Unmapped
<1>3. /\ made' = made /\ asked' = asked /\ top' = top /\ left' = left /\ answers' = answers
      /\ endpoint' = endpoint /\ gone' = gone /\ input' \in [Call -> Input]
  BY <1>1 DEF Receive, GateTypeOK
<1>4. CASE i.kind = "call"
  <2>1. Authorize(c, i.chain, i.tool) /\ reply' = reply
    BY <1>4 DEF Receive
  <2>2. i.chain \in Presented \ {<< >>} /\ i.tool \in Tool
    BY <1>4, GatewayAssumption
  <2>3. i.chain \in Seq(Claims(Principal, Id)) /\ i.tool \in Str
    BY <1>1, <2>2, EnforcerAssumption DEF Input
  <2>4. GateTypeOK' /\ CallTypes'
    <3>1. GateTypeOK'
      BY <1>3, <2>1 DEF Authorize, GateTypeOK
    <3>2. [chain |-> i.chain, tool |-> i.tool] \in [chain : Seq(Claims(Principal, Id)), tool : Str]
      BY <2>3
    <3>3. call' \in [Call -> [chain : Seq(Claims(Principal, Id)), tool : Str]]
      BY <2>1, <3>2 DEF Authorize, CallTypes
    <3>4. [clock |-> clock, revoked |-> revoked] \in [clock : Nat, revoked : SUBSET Id]
      BY DEF CallTypes
    <3>5. began' \in [Call -> [clock : Nat, revoked : SUBSET Id]]
      BY <2>1, <3>4 DEF Authorize, CallTypes
    <3> QED
      BY <2>1, <3>1, <3>3, <3>5 DEF Authorize, CallTypes
  <2>5. pc'[c] = "verify" /\ outcome'[c] = "none" /\ made'[c] = << >> /\ asked'[c] = << >>
    BY <1>2, <1>3, <2>1 DEF Authorize, GateTypeOK, CallTypes
  <2>6. Placed(c)'
    BY <2>1, <2>2, <2>5 DEF Authorize, Placed, CallTypes, Late
  <2>7. Drafted(c)'
    BY <2>5, UnmappedDrafted DEF Drafted, Unmapped, PolicyPassed
  <2> QED
    BY <2>4, <2>6, <2>7 DEF Kept
<1>5. CASE i.kind # "call"
  <2>1. /\ pc' = [pc EXCEPT ![c] = "closed"]
        /\ reply' = [reply EXCEPT ![c] = IF i.kind = "other" THEN "forwarded" ELSE "refused"]
        /\ UNCHANGED <<world, call, began, facts, todo, outcome, store>>
    BY <1>5 DEF Receive
  <2>2. GateTypeOK' /\ CallTypes'
    BY <1>3, <2>1 DEF GateTypeOK, CallTypes
  <2>3. Placed(c)' /\ Drafted(c)'
    BY <1>2, <1>3, <2>1 DEF GateTypeOK, Placed, Drafted, Unmapped, PolicyPassed, Late
  <2> QED
    BY <2>2, <2>3 DEF Kept
<1> QED
  BY <1>4, <1>5

LEMMA ReplyKeeps ==
  ASSUME GateInv, NEW c \in Call, Reply(c)
  PROVE  Kept(c)
<1> USE DEF GateInv
<1>1. Unread \in Input /\ Blank \in [Member -> Object \cup {Nil}] /\ MaxValues \in 0 .. MaxValues
      /\ << >> \in Seq(Requested) /\ << >> \in Seq([id : Identified, request : Requested, to : Url])
  <2>1. << >> \in Seq(Claims(Principal, Id)) /\ << >> \in Str
    BY DEF Str
  <2> QED
    BY <2>1, MappingAssumption DEF Unread, Input, NoArguments, Arguments, Blank
<1>2. GateTypeOK'
  BY <1>1 DEF Reply, GateTypeOK
<1>3. CallTypes'
  BY DEF Reply, CallTypes
<1>4. /\ pc'[c] = "closed" /\ made'[c] = << >> /\ asked'[c] = << >>
      /\ began'[c] = AtRest
  BY DEF Reply, GateTypeOK, Placed
<1>5. Placed(c)' /\ Drafted(c)'
  BY <1>4 DEF Placed, Drafted, Unmapped, PolicyPassed, Late
<1> QED
  BY <1>2, <1>3, <1>5 DEF Kept

\* A refusal keeps what was constructed.
LEMMA RefuseKeeps ==
  ASSUME GateInv, NEW c \in Call, NEW stage \in Outcomes \ {"none", "authorized"},
         pc[c] \notin {"idle", "closed", "done"}, stage = "sequence" => pc[c] = "sequence",
         Refuse(c, stage), UNCHANGED <<mapper, wire, outer>>
  PROVE  Kept(c)
<1> USE DEF GateInv
<1>1. /\ pc' = [pc EXCEPT ![c] = "done"] /\ outcome' = [outcome EXCEPT ![c] = stage]
      /\ began' = [began EXCEPT ![c] = AtRest]
      /\ UNCHANGED <<clock, revoked, call, facts, todo, endpoint, input, gone, top, left, made, asked, answers, reply>>
  BY DEF Refuse, Finish
<1>2. AtRest \in [clock : Nat, revoked : SUBSET Id]
  BY DEF AtRest
<1>3. GateTypeOK' /\ CallTypes'
  BY <1>1, <1>2 DEF GateTypeOK, CallTypes
<1>4. pc'[c] = "done" /\ outcome'[c] = stage /\ began'[c] = AtRest
  BY <1>1 DEF GateTypeOK, CallTypes
<1>5. Placed(c)'
  BY <1>1, <1>4 DEF Placed, Late
<1>6. /\ Mapped(c)' = Mapped(c) /\ EntriesOf(c)' = EntriesOf(c) /\ VerifiedOf(c)' = VerifiedOf(c)
      /\ Whole(c)' = Whole(c)
  BY <1>1 DEF Whole, Alone, Mapped, EntriesOf, VerifiedOf, Leaf, Args
<1>7. Drafted(c)'
  <2>1. CASE stage = "sequence"
    BY <1>1, <1>4, <1>6, <2>1 DEF Drafted, Unmapped, PolicyPassed
  <2>2. CASE stage # "sequence"
    BY <1>1, <1>4, <1>6, <2>2 DEF Drafted, Unmapped, PolicyPassed
  <2> QED
    BY <2>1, <2>2
<1> QED
  BY <1>3, <1>5, <1>7 DEF Kept

LEMMA ChecksKeep ==
  ASSUME GateInv, NEW c \in Call, Checks(c) \/ LookUp(c)
  PROVE  Kept(c)
<1> USE DEF GateInv
<1>1. /\ UNCHANGED <<mapper, wire, outer>>
      /\ NoTool(c) \/ Verify(c) \/ Permit(c) \/ Describe(c)
  BY DEF Checks, LookUp
<1>2. CASE \E stage \in {"verify", "catalog", "permits"} :
             pc[c] \in {"verify", "catalog", "permits"} /\ Refuse(c, stage)
  BY <1>1, <1>2, RefuseKeeps DEF Outcomes
<1>3. CASE \/ pc[c] = "verify" /\ GoTo(c, "catalog") /\ UNCHANGED <<world, facts, todo>>
           \/ pc[c] = "permits" /\ GoTo(c, "mapping") /\ UNCHANGED <<world, facts, todo>>
           \/ /\ pc[c] = "catalog" /\ GoTo(c, "permits") /\ UNCHANGED <<world, todo>>
              /\ \E f \in Described[call[c].tool] : facts' = [facts EXCEPT ![c] = f]
  <2>1. AtRest \in [clock : Nat, revoked : SUBSET Id]
    BY DEF AtRest
  <2>2. call[c].tool \in Tool /\ made[c] = << >> /\ asked[c] = << >> /\ outcome[c] = "none"
    BY <1>3 DEF Placed, Drafted, Unmapped
  <2>3. Described[call[c].tool] \subseteq Facts
    BY <2>2, EnforcerAssumption
  <2>4. GateTypeOK' /\ CallTypes'
    <3>1. GateTypeOK'
      BY <1>1, <1>3 DEF GoTo, GateTypeOK
    <3>2. facts' \in [Call -> Facts]
      BY <1>3, <2>3 DEF CallTypes
    <3>3. began' \in [Call -> [clock : Nat, revoked : SUBSET Id]]
      BY <1>3, <2>1 DEF GoTo, CallTypes
    <3>4. UNCHANGED <<clock, revoked, call, todo, outcome>>
      BY <1>3 DEF GoTo
    <3> QED
      BY <3>1, <3>2, <3>3, <3>4 DEF CallTypes
  <2>5. /\ pc'[c] \in {"catalog", "permits", "mapping"} /\ began'[c] = AtRest /\ outcome'[c] = "none"
        /\ call'[c] = call[c] /\ made'[c] = << >> /\ asked'[c] = << >>
        /\ pc'[c] \in Late => facts'[c] \in Described[call[c].tool]
    BY <1>1, <1>3, <2>2 DEF GoTo, GateTypeOK, CallTypes, Placed, Late
  <2>6. Placed(c)'
    BY <1>3, <2>5 DEF Placed, Late
  <2>7. Drafted(c)'
    BY <2>5 DEF Drafted, Unmapped, PolicyPassed
  <2> QED
    BY <2>4, <2>6, <2>7 DEF Kept
<1> QED
  BY <1>1, <1>2, <1>3 DEF NoTool, Verify, Permit, Describe

LEMMA DefaultMappingKeeps ==
  ASSUME GateInv, NEW c \in Call, DefaultMapping(c)
  PROVE  Kept(c)
<1> USE DEF GateInv
<1> DEFINE q == ToolCallRequest(VerifiedOf(c), Spelled[call[c].tool], call[c].chain)
<1>1. /\ pc[c] = "mapping" /\ Mapped(c) = Nil
      /\ made' = [made EXCEPT ![c] = <<q>>] /\ todo' = [todo EXCEPT ![c] = 1]
      /\ pc' = [pc EXCEPT ![c] = "policy"] /\ began' = [began EXCEPT ![c] = AtRest]
      /\ UNCHANGED <<clock, revoked, call, outcome, facts, endpoint, input, gone, top, left, asked, answers, reply>>
  BY DEF DefaultMapping, GoTo
<1>2. q \in Requested /\ AboutChain(q, VerifiedOf(c), call[c].chain) /\ Whole(c) = <<q>>
  BY <1>1, DefaultRequest
<1> HIDE DEF q
<1>3. made[c] = << >> /\ asked[c] = << >> /\ outcome[c] = "none" /\ facts[c] \in Described[call[c].tool]
      /\ call[c].chain \in Presented \ {<< >>} /\ call[c].tool \in Tool
  BY <1>1 DEF Placed, Drafted, Unmapped, Late
<1>4. <<q>> \in Seq(Requested) /\ AtRest \in [clock : Nat, revoked : SUBSET Id]
  BY <1>2 DEF AtRest
<1>5. GateTypeOK'
  BY <1>1, <1>4 DEF GateTypeOK
<1>6. CallTypes'
  BY <1>1, <1>4 DEF CallTypes
<1>7. pc'[c] = "policy" /\ began'[c] = AtRest /\ made'[c] = <<q>> /\ todo'[c] = 1
  BY <1>1 DEF GateTypeOK, CallTypes
<1>8. Placed(c)'
  BY <1>1, <1>3, <1>7 DEF Placed, Late
<1>9. /\ Mapped(c)' = Mapped(c) /\ EntriesOf(c)' = EntriesOf(c) /\ VerifiedOf(c)' = VerifiedOf(c)
      /\ Whole(c)' = Whole(c)
  BY <1>1 DEF Whole, Alone, Mapped, EntriesOf, VerifiedOf, Leaf, Args
<1>10. Drafted(c)'
  BY <1>1, <1>2, <1>3, <1>7, <1>9 DEF Drafted, Unmapped, PolicyPassed
<1> QED
  BY <1>5, <1>6, <1>8, <1>10 DEF Kept

LEMMA ResolveDefaultsKeeps ==
  ASSUME GateInv, NEW c \in Call, ResolveDefaults(c)
  PROVE  Kept(c)
<1> USE DEF GateInv
<1>1. pc[c] = "mapping" /\ Mapped(c) # Nil
  BY DEF ResolveDefaults
<1>2. CASE Refuse(c, "mapping") /\ UNCHANGED <<mapper, wire, outer>>
  BY <1>1, <1>2, RefuseKeeps DEF Outcomes
<1>3. CASE ~ ResolutionFails(c, Mapped(c).top)
  <2> DEFINE t == Mapped(c).top  r == Resolved(t, VerifiedOf(c), Args(c))
             n == left[c] - Spends(t, Args(c))
  <2>1. /\ top' = [top EXCEPT ![c] = r] /\ left' = [left EXCEPT ![c] = n]
        /\ pc' = [pc EXCEPT ![c] = "entries"] /\ began' = [began EXCEPT ![c] = AtRest]
        /\ UNCHANGED <<clock, revoked, call, outcome, facts, todo, endpoint, input, gone, made, asked, answers, reply>>
    BY <1>3 DEF ResolveDefaults, GoTo
  <2>2. /\ Mapped(c) \in Declaration /\ VerifiedOf(c) \in Established /\ Args(c) \in Arguments
    BY <1>1, CallFacts
  <2>3. /\ t \in Template /\ Len(EntriesOf(c)) \in Nat \ {0}
    BY <2>2, EntriesType DEF EntriesOf
  <2>4. r \in [Member -> Object \cup {Nil}] /\ Spends(t, Args(c)) \in Nat
    <3> HIDE DEF t
    <3> QED
      BY <2>2, <2>3, ResolvedType, SpendsType
  <2>5. n \in 0 .. MaxValues
    <3>1. Spends(t, Args(c)) <= left[c]
      <4>1. Spends(t, Args(c)) \in Nat /\ left[c] \in 0 .. MaxValues /\ MaxValues \in Nat
        BY <2>4, MappingAssumption DEF GateTypeOK
      <4>2. ~ (Spends(t, Args(c)) > left[c])
        BY <1>3 DEF ResolutionFails
      <4> QED
        BY <4>1, <4>2
    <3> QED
      BY <2>4, <3>1, MappingAssumption DEF GateTypeOK
  <2>6. made[c] = << >> /\ asked[c] = << >> /\ outcome[c] = "none" /\ facts[c] \in Described[call[c].tool]
        /\ call[c].chain \in Presented \ {<< >>} /\ call[c].tool \in Tool
    BY <1>1 DEF Placed, Drafted, Unmapped, Late
  <2>7. GateTypeOK' /\ CallTypes'
    <3>1. AtRest \in [clock : Nat, revoked : SUBSET Id]
      BY DEF AtRest
    <3> HIDE DEF r, n
    <3> QED
      BY <2>1, <2>4, <2>5, <3>1 DEF GateTypeOK, CallTypes
  <2>8. pc'[c] = "entries" /\ began'[c] = AtRest /\ top'[c] = r
    BY <2>1 DEF GateTypeOK, CallTypes
  <2>9. /\ Mapped(c)' = Mapped(c) /\ EntriesOf(c)' = EntriesOf(c) /\ VerifiedOf(c)' = VerifiedOf(c)
        /\ Args(c)' = Args(c)
    BY <2>1 DEF Mapped, EntriesOf, VerifiedOf, Leaf, Args
  <2>10. Placed(c)'
    BY <1>1, <2>1, <2>6, <2>8, <2>9 DEF Placed, Late
  <2>11. Drafted(c)'
    BY <1>1, <2>1, <2>3, <2>6, <2>8, <2>9 DEF Drafted, Unmapped, PolicyPassed
  <2> QED
    BY <2>7, <2>10, <2>11 DEF Kept
<1> QED
  BY <1>2, <1>3 DEF ResolveDefaults

LEMMA ConstructKeeps ==
  ASSUME GateInv, NEW c \in Call, Construct(c)
  PROVE  Kept(c)
<1> USE DEF GateInv
<1> DEFINE t == EntryAt(c)  fs == Fields(c, t)  q == Anchored(fs, VerifiedOf(c), call[c].chain)
           n == Len(made[c])  l == left[c] - Spends(t, Args(c))
<1>1. pc[c] = "entries" /\ Mapped(c) # Nil
  BY DEF Construct, Placed
<1>2. CASE Refuse(c, "mapping") /\ UNCHANGED <<mapper, wire, outer>>
  BY <1>1, <1>2, RefuseKeeps DEF Outcomes
<1>3. CASE ~ ResolutionFails(c, t) /\ Anchors(fs, VerifiedOf(c))
  <2>1. /\ made' = [made EXCEPT ![c] = Append(made[c], q)] /\ left' = [left EXCEPT ![c] = l]
        /\ began' = [began EXCEPT ![c] = AtRest]
        /\ \/ /\ n + 1 = Len(EntriesOf(c))
              /\ todo' = [todo EXCEPT ![c] = Len(EntriesOf(c))] /\ pc' = [pc EXCEPT ![c] = "policy"]
           \/ n + 1 # Len(EntriesOf(c)) /\ pc' = [pc EXCEPT ![c] = "entries"] /\ todo' = todo
        /\ UNCHANGED <<clock, revoked, call, outcome, facts, top, endpoint, input, gone, asked, answers, reply>>
    BY <1>3 DEF Construct, Constructed, GoTo, GateTypeOK
  <2>2. /\ q \in Requested /\ AboutChain(q, VerifiedOf(c), call[c].chain)
        /\ n + 1 \in DOMAIN Whole(c) /\ q = Whole(c)[n + 1] /\ t \in Template
        /\ DOMAIN Whole(c) = 1 .. Len(EntriesOf(c)) /\ Len(EntriesOf(c)) \in Nat
    BY <1>1, <1>3, ConstructedRequest
  <2>3. Args(c) \in Arguments
    BY <1>1, CallFacts
  <2>4. Spends(t, Args(c)) \in Nat
    <3> HIDE DEF t
    <3> QED
      BY <2>2, <2>3, SpendsType
  <2>5. l \in 0 .. MaxValues
    <3>1. left[c] \in 0 .. MaxValues /\ MaxValues \in Nat
      BY MappingAssumption DEF GateTypeOK
    <3>2. ~ (Spends(t, Args(c)) > left[c])
      BY <1>3 DEF ResolutionFails
    <3> QED
      BY <2>4, <3>1, <3>2
  <2> HIDE DEF q, l, t, fs
  <2>6. /\ made[c] \in Seq(Requested) /\ n \in Nat /\ DOMAIN made[c] = 1 .. n
        /\ Append(made[c], q) \in Seq(Requested)
    <3>1. made[c] \in Seq(Requested)
      BY DEF GateTypeOK
    <3> QED
      BY <2>2, <3>1
  <2>7. GateTypeOK' /\ CallTypes'
    <3>1. AtRest \in [clock : Nat, revoked : SUBSET Id]
      BY DEF AtRest
    <3>2. GateTypeOK'
      <4> DEFINE s == Append(made[c], q)
      <4>1. s \in Seq(Requested) /\ made' = [made EXCEPT ![c] = s]
        BY <2>1, <2>6
      <4> HIDE DEF s
      <4>2. made' \in [Call -> Seq(Requested)]
        BY <4>1 DEF GateTypeOK
      <4>3. left' \in [Call -> 0 .. MaxValues]
        BY <2>1, <2>5 DEF GateTypeOK
      <4>4. pc' = [pc EXCEPT ![c] = "policy"] \/ pc' = [pc EXCEPT ![c] = "entries"]
        BY <2>1
      <4> QED
        BY <2>1, <4>2, <4>3, <4>4 DEF GateTypeOK
    <3>3. CallTypes'
      BY <2>1, <2>2, <3>1 DEF CallTypes
    <3> QED
      BY <3>2, <3>3
  <2>8. /\ asked[c] = << >> /\ outcome[c] = "none" /\ facts[c] \in Described[call[c].tool]
        /\ call[c].chain \in Presented \ {<< >>} /\ call[c].tool \in Tool
    BY <1>1 DEF Placed, Drafted, Late
  <2>9. /\ began'[c] = AtRest /\ made'[c] = Append(made[c], q)
        /\ \/ n + 1 = Len(EntriesOf(c)) /\ pc'[c] = "policy" /\ todo'[c] = n + 1
           \/ n + 1 # Len(EntriesOf(c)) /\ pc'[c] = "entries"
    BY <2>1 DEF GateTypeOK, CallTypes
  <2>10. /\ Mapped(c)' = Mapped(c) /\ EntriesOf(c)' = EntriesOf(c) /\ VerifiedOf(c)' = VerifiedOf(c)
         /\ Args(c)' = Args(c) /\ Whole(c)' = Whole(c)
    BY <2>1 DEF Whole, Alone, Mapped, EntriesOf, VerifiedOf, Leaf, Args
  <2>11. Placed(c)'
    BY <1>1, <2>1, <2>8, <2>9, <2>10 DEF Placed, Late
  <2>12. /\ Len(made'[c]) = n + 1 /\ DOMAIN made'[c] = 1 .. (n + 1)
         /\ made'[c][n + 1] = q /\ \A k \in 1 .. n : made'[c][k] = made[c][k]
    BY <2>2, <2>6, <2>9
  <2>13. \A k \in DOMAIN made'[c] :
           /\ k \in DOMAIN Whole(c) /\ made'[c][k] = Whole(c)[k]
           /\ AboutChain(made'[c][k], VerifiedOf(c), call[c].chain)
    <3> SUFFICES ASSUME NEW k \in 1 .. (n + 1)
                 PROVE  /\ k \in DOMAIN Whole(c) /\ made'[c][k] = Whole(c)[k]
                        /\ AboutChain(made'[c][k], VerifiedOf(c), call[c].chain)
      BY <2>12
    <3>1. CASE k = n + 1
      BY <2>2, <2>12, <3>1
    <3>2. CASE k # n + 1
      <4>1. k \in 1 .. n
        BY <2>6, <3>2
      <4> QED
        BY <2>6, <2>12, <4>1 DEF Drafted
    <3> QED
      BY <3>1, <3>2
  <2>14. Drafted(c)'
    <3>1. asked'[c] = << >> /\ call'[c] = call[c] /\ outcome'[c] = "none"
      BY <2>1, <2>8
    <3>2. pc'[c] = "entries" =>
            /\ n + 1 < Len(EntriesOf(c))
            /\ top'[c] = Resolved(Mapped(c).top, VerifiedOf(c), Args(c))
      BY <1>1, <2>1, <2>2, <2>6, <2>9 DEF Drafted
    <3>3. \A k \in DOMAIN made'[c] :
            /\ k \in (DOMAIN Whole(c))' /\ made'[c][k] = Whole(c)'[k]
            /\ AboutChain(made[c][k], VerifiedOf(c), call[c].chain)'
      BY <2>10, <2>13, <3>1 DEF AboutChain
    <3>4. pc'[c] = "policy" => DOMAIN made'[c] = (DOMAIN Whole(c))'
      BY <2>2, <2>9, <2>10, <2>12
    <3>5. ~ PolicyPassed(c)' /\ pc'[c] \in {"entries", "policy"}
      BY <2>9, <3>1 DEF PolicyPassed
    <3>6. pc'[c] = "policy" => todo'[c] > 0 /\ Len(asked'[c]) + todo'[c] = Len(made'[c])
      BY <2>6, <2>9, <2>12, <3>1
    <3> QED
      BY <2>10, <2>12, <3>1, <3>2, <3>3, <3>4, <3>5, <3>6 DEF Drafted, Unmapped
  <2> QED
    BY <2>7, <2>11, <2>14 DEF Kept
<1> QED
  BY <1>2, <1>3 DEF Construct

\* What Send appends to what was asked.
LEMMA SendAppends ==
  ASSUME GateInv, NEW c \in Call, Send(c)
  PROVE  \E id \in {<<c, Len(asked[c]) + 1>>, Nil} :
           LET k == Len(asked[c]) + 1
               x == [id |-> id, request |-> made[c][k], to |-> endpoint]
           IN  /\ pc[c] = "policy" /\ k \in DOMAIN made[c] /\ k + todo[c] = Len(made[c]) + 1
               /\ asked[c] \in Seq([id : Identified, request : Requested, to : Url])
               /\ x \in [id : Identified, request : Requested, to : Url]
               /\ asked' = [asked EXCEPT ![c] = Append(asked[c], x)]
               /\ pc' = [pc EXCEPT ![c] = "asked"] /\ began' = [began EXCEPT ![c] = AtRest]
               /\ UNCHANGED <<clock, revoked, call, outcome, facts, todo, endpoint, input, gone, top, left, made, answers, reply>>
<1> USE DEF GateInv
<1> DEFINE k == Len(asked[c]) + 1
<1>1. /\ pc[c] = "policy"
      /\ pc' = [pc EXCEPT ![c] = "asked"] /\ began' = [began EXCEPT ![c] = AtRest]
      /\ UNCHANGED <<clock, revoked, call, outcome, facts, todo, endpoint, input, gone, top, left, made, answers, reply>>
  BY DEF Send, GoTo
<1>2. /\ made[c] \in Seq(Requested) /\ asked[c] \in Seq([id : Identified, request : Requested, to : Url])
      /\ todo[c] \in Nat /\ todo[c] > 0 /\ Len(asked[c]) + todo[c] = Len(made[c])
  BY <1>1 DEF GateTypeOK, CallTypes, Drafted
<1>3. Len(asked[c]) \in Nat /\ Len(made[c]) \in Nat /\ DOMAIN made[c] = 1 .. Len(made[c])
  BY <1>2
<1>4. k = Len(made[c]) - todo[c] + 1 /\ k \in Nat /\ k \in DOMAIN made[c] /\ k + todo[c] = Len(made[c]) + 1
  <2> DEFINE a == Len(asked[c])  t == todo[c]  n == Len(made[c])
  <2>1. a \in Nat /\ t \in Nat /\ n \in Nat /\ t > 0 /\ a + t = n /\ DOMAIN made[c] = 1 .. n
    BY <1>2, <1>3
  <2> HIDE DEF a, t, n, GateInv
  <2>2. a + 1 = n - t + 1 /\ a + 1 \in Nat /\ a + 1 \in 1 .. n /\ (a + 1) + t = n + 1
    BY <2>1
  <2> QED
    BY <2>1, <2>2 DEF a, t, n
<1>5. PICK id \in {<<c, k>>, Nil} :
        asked' = [asked EXCEPT ![c] =
          Append(asked[c], [id |-> id, request |-> made[c][k], to |-> endpoint])]
  BY <1>4 DEF Send, GateTypeOK
<1>6. id \in Identified
  BY <1>4, <1>5 DEF Identified
<1>7. made[c][k] \in Requested
  BY <1>2, <1>4
<1>8. endpoint \in Url
  BY DEF GateTypeOK
<1> QED
  BY <1>1, <1>2, <1>4, <1>5, <1>6, <1>7, <1>8

LEMMA SendKeeps ==
  ASSUME GateInv, NEW c \in Call, Send(c)
  PROVE  Kept(c)
<1> USE DEF GateInv
<1> DEFINE k == Len(asked[c]) + 1
           S == [id : Identified, request : Requested, to : Url]
<1>1. PICK id \in {<<c, k>>, Nil}, x \in S :
        /\ x = [id |-> id, request |-> made[c][k], to |-> endpoint]
        /\ pc[c] = "policy" /\ k \in DOMAIN made[c] /\ k + todo[c] = Len(made[c]) + 1
        /\ asked[c] \in Seq(S) /\ x \in S
        /\ asked' = [asked EXCEPT ![c] = Append(asked[c], x)]
        /\ pc' = [pc EXCEPT ![c] = "asked"] /\ began' = [began EXCEPT ![c] = AtRest]
        /\ UNCHANGED <<clock, revoked, call, outcome, facts, todo, endpoint, input, gone, top, left, made, answers, reply>>
  BY SendAppends
<1>2. /\ Append(asked[c], x) \in Seq(S) /\ Len(asked[c]) \in Nat
      /\ DOMAIN asked[c] = 1 .. Len(asked[c])
      /\ Len(Append(asked[c], x)) = k /\ DOMAIN Append(asked[c], x) = 1 .. k
      /\ Append(asked[c], x)[k] = x
      /\ \A j \in 1 .. Len(asked[c]) : Append(asked[c], x)[j] = asked[c][j]
  <2> HIDE DEF S
  <2> QED
    BY <1>1
<1>3. asked' \in [Call -> Seq(S)]
  <2> DEFINE q == Append(asked[c], x)
  <2>1. q \in Seq(S) /\ asked' = [asked EXCEPT ![c] = q] /\ asked \in [Call -> Seq(S)]
    BY <1>1, <1>2 DEF GateTypeOK
  <2> HIDE DEF q, S
  <2> QED
    BY <2>1
<1>4. AtRest \in [clock : Nat, revoked : SUBSET Id]
  BY DEF AtRest
<1>5. GateTypeOK' /\ CallTypes'
  BY <1>1, <1>3, <1>4 DEF GateTypeOK, CallTypes
<1>6. pc'[c] = "asked" /\ began'[c] = AtRest /\ asked'[c] = Append(asked[c], x)
  BY <1>1 DEF GateTypeOK, CallTypes
<1>7. Placed(c)'
  BY <1>1, <1>6 DEF Placed, Late
<1>8. /\ Mapped(c)' = Mapped(c) /\ EntriesOf(c)' = EntriesOf(c) /\ VerifiedOf(c)' = VerifiedOf(c)
      /\ Whole(c)' = Whole(c) /\ Args(c)' = Args(c)
  BY <1>1 DEF Whole, Alone, Mapped, EntriesOf, VerifiedOf, Leaf, Args
<1>9. Drafted(c)'
  <2>1. \A j \in DOMAIN asked'[c] :
          j \in DOMAIN made[c] /\ asked'[c][j].request = made[c][j] /\ asked'[c][j].to = endpoint
    <3> SUFFICES ASSUME NEW j \in 1 .. k
                 PROVE  j \in DOMAIN made[c] /\ asked'[c][j].request = made[c][j] /\ asked'[c][j].to = endpoint
      BY <1>2, <1>6
    <3>1. CASE j = k
      BY <1>1, <1>2, <1>6, <3>1
    <3>2. CASE j # k
      <4>1. j \in 1 .. Len(asked[c])
        BY <1>2, <3>2
      <4> QED
        BY <1>2, <1>6, <4>1 DEF Drafted
    <3> QED
      BY <3>1, <3>2
  <2>2. todo[c] \in Nat /\ todo[c] > 0 /\ outcome[c] = "none"
    BY <1>1 DEF CallTypes, Drafted, Placed
  <2>3. Len(asked'[c]) + todo[c] = Len(made[c]) + 1 /\ todo[c] \in 1 .. Len(made[c])
    <3>1. made[c] \in Seq(Requested) /\ Len(asked'[c]) = k
      BY <1>2, <1>6 DEF GateTypeOK
    <3>2. Len(made[c]) \in Nat
      BY <3>1
    <3> QED
      BY <1>1, <1>2, <2>2, <3>1, <3>2
  <2>4. UNCHANGED <<made, todo, outcome, call, endpoint>>
    BY <1>1
  <2>5. /\ \A j \in DOMAIN made[c] :
             /\ j \in DOMAIN Whole(c) /\ made[c][j] = Whole(c)[j]
             /\ AboutChain(made[c][j], VerifiedOf(c), call[c].chain)
        /\ DOMAIN made[c] = DOMAIN Whole(c)
    BY <1>1 DEF Drafted
  <2>6. ~ PolicyPassed(c)' /\ pc'[c] \notin Unmapped
    BY <1>6, <2>2, <2>4 DEF Unmapped, PolicyPassed
  <2>7. /\ made'[c] = made[c] /\ todo'[c] = todo[c] /\ Whole(c)' = Whole(c) /\ VerifiedOf(c)' = VerifiedOf(c)
        /\ call'[c] = call[c] /\ endpoint' = endpoint
    BY <1>8, <2>4
  <2>8. \A j \in DOMAIN made'[c] :
          /\ j \in DOMAIN Whole(c)' /\ made'[c][j] = Whole(c)'[j]
          /\ AboutChain(made[c][j], VerifiedOf(c), call[c].chain)'
    <3> SUFFICES ASSUME NEW j \in DOMAIN made[c]
                 PROVE  /\ j \in DOMAIN Whole(c)' /\ made'[c][j] = Whole(c)'[j]
                        /\ AboutChain(made[c][j], VerifiedOf(c), call[c].chain)'
      BY <2>7
    <3>1. AboutChain(made[c][j], VerifiedOf(c), call[c].chain)' = AboutChain(made[c][j], VerifiedOf(c), call[c].chain)
      BY <2>7 DEF AboutChain
    <3> QED
      BY <2>5, <2>7, <3>1
  <2> HIDE DEF GateInv
  <2> QED
    BY <1>6, <2>1, <2>3, <2>5, <2>6, <2>7, <2>8 DEF Drafted, Unmapped
<1> QED
  BY <1>5, <1>7, <1>9 DEF Kept

LEMMA AllowedKeeps ==
  ASSUME GateInv, NEW c \in Call, Allowed(c)
  PROVE  Kept(c)
<1> USE DEF GateInv
<1>1. /\ pc[c] = "asked"
      /\ todo' = [todo EXCEPT ![c] = todo[c] - 1]
      /\ pc' = [pc EXCEPT ![c] = IF todo[c] = 1 THEN "sequence" ELSE "policy"]
      /\ began' = [began EXCEPT ![c] = AtRest]
      /\ UNCHANGED <<clock, revoked, call, outcome, facts, endpoint, input, gone, top, left, made, asked, answers, reply>>
  BY DEF Allowed, GoTo, CallTypes
<1>2. /\ todo[c] \in 1 .. Len(made[c]) /\ Len(asked[c]) + todo[c] = Len(made[c]) + 1
      /\ outcome[c] = "none" /\ DOMAIN made[c] = DOMAIN Whole(c)
  BY <1>1 DEF CallTypes, Drafted, Placed
<1>3. todo[c] - 1 \in Nat /\ AtRest \in [clock : Nat, revoked : SUBSET Id]
  BY <1>2 DEF AtRest
<1>4. pc' = [pc EXCEPT ![c] = "sequence"] \/ pc' = [pc EXCEPT ![c] = "policy"]
  BY <1>1
<1>5. GateTypeOK'
  BY <1>1, <1>4 DEF GateTypeOK
<1>6. CallTypes'
  BY <1>1, <1>3 DEF CallTypes
<1>7. /\ began'[c] = AtRest /\ todo'[c] = todo[c] - 1
      /\ pc'[c] = IF todo[c] = 1 THEN "sequence" ELSE "policy"
  BY <1>1 DEF GateTypeOK, CallTypes
<1>8. Placed(c)'
  BY <1>1, <1>2, <1>7 DEF Placed, Late
<1>9. /\ Mapped(c)' = Mapped(c) /\ EntriesOf(c)' = EntriesOf(c) /\ VerifiedOf(c)' = VerifiedOf(c)
      /\ Whole(c)' = Whole(c) /\ Args(c)' = Args(c)
  BY <1>1 DEF Whole, Alone, Mapped, EntriesOf, VerifiedOf, Leaf, Args
<1>10. Drafted(c)'
  <2>1. Len(asked[c]) \in Nat /\ Len(made[c]) \in Nat
    <3>1. made[c] \in Seq(Requested) /\ asked[c] \in Seq([id : Identified, request : Requested, to : Url])
      BY DEF GateTypeOK
    <3> QED
      BY <3>1
  <2>2. Len(made[c]) > 0
    BY <1>2, <2>1
  <2>3. \/ pc'[c] = "policy" /\ todo'[c] > 0 /\ Len(asked[c]) + todo'[c] = Len(made[c])
        \/ pc'[c] = "sequence" /\ Len(asked[c]) = Len(made[c])
    <3> DEFINE a == Len(asked[c])  t == todo[c]  n == Len(made[c])  u == todo'[c]
    <3>1. a \in Nat /\ n \in Nat /\ t \in 1 .. n /\ a + t = n + 1 /\ u = t - 1
      BY <1>2, <1>7, <2>1
    <3>2. pc'[c] = IF t = 1 THEN "sequence" ELSE "policy"
      BY <1>7
    <3> HIDE DEF a, t, n, u, GateInv
    <3>3. t = 1 => a = n
      BY <3>1
    <3>4. t # 1 => u > 0 /\ a + u = n
      BY <3>1
    <3> QED
      BY <3>2, <3>3, <3>4 DEF a, t, n, u
  <2>4. UNCHANGED <<made, asked, outcome, call, endpoint>>
    BY <1>1
  <2>5. /\ \A j \in DOMAIN made[c] :
             /\ j \in DOMAIN Whole(c) /\ made[c][j] = Whole(c)[j]
             /\ AboutChain(made[c][j], VerifiedOf(c), call[c].chain)
        /\ \A j \in DOMAIN asked[c] :
             j \in DOMAIN made[c] /\ asked[c][j].request = made[c][j] /\ asked[c][j].to = endpoint
    BY DEF Drafted
  <2>6. PolicyPassed(c)' => pc'[c] = "sequence"
    BY <1>2, <2>4 DEF PolicyPassed
  <2>7. /\ made'[c] = made[c] /\ asked'[c] = asked[c] /\ Whole(c)' = Whole(c) /\ VerifiedOf(c)' = VerifiedOf(c)
        /\ call'[c] = call[c] /\ endpoint' = endpoint
    BY <1>9, <2>4
  <2>8. \A j \in DOMAIN made'[c] :
          /\ j \in DOMAIN Whole(c)' /\ made'[c][j] = Whole(c)'[j]
          /\ AboutChain(made[c][j], VerifiedOf(c), call[c].chain)'
    <3> SUFFICES ASSUME NEW j \in DOMAIN made[c]
                 PROVE  /\ j \in DOMAIN Whole(c)' /\ made'[c][j] = Whole(c)'[j]
                        /\ AboutChain(made[c][j], VerifiedOf(c), call[c].chain)'
      BY <2>7
    <3>1. AboutChain(made[c][j], VerifiedOf(c), call[c].chain)' = AboutChain(made[c][j], VerifiedOf(c), call[c].chain)
      BY <2>7 DEF AboutChain
    <3> QED
      BY <2>5, <2>7, <3>1
  <2> HIDE DEF GateInv
  <2> QED
    BY <1>2, <2>2, <2>3, <2>5, <2>6, <2>7, <2>8 DEF Drafted, Unmapped
<1> QED
  BY <1>5, <1>6, <1>8, <1>10 DEF Kept

\* Admission concludes; what was asked stays.
LEMMA AdmissionKeeps ==
  ASSUME GateInv, NEW c \in Call, Admission(c) \/ Unallowed(c)
  PROVE  Kept(c)
<1> USE DEF GateInv
<1>1. UNCHANGED <<mapper, wire, outer>>
  BY DEF Admission, Unallowed
<1>2. CASE pc[c] \in {"policy", "asked"} /\ Refuse(c, "policy")
  BY <1>1, <1>2, RefuseKeeps DEF Outcomes
<1>3. CASE pc[c] = "sequence" /\ Refuse(c, "sequence")
  BY <1>1, <1>3, RefuseKeeps DEF Outcomes
<1>4. CASE pc[c] = "sequence" /\ Finish(c, "authorized") /\ UNCHANGED <<world, facts, todo>>
  <2>1. /\ pc' = [pc EXCEPT ![c] = "done"] /\ outcome' = [outcome EXCEPT ![c] = "authorized"]
        /\ began' = [began EXCEPT ![c] = AtRest]
        /\ UNCHANGED <<clock, revoked, call, facts, todo, endpoint, input, gone, top, left, made, asked, answers, reply>>
    BY <1>1, <1>4 DEF Finish
  <2>2. AtRest \in [clock : Nat, revoked : SUBSET Id]
    BY DEF AtRest
  <2>3. GateTypeOK' /\ CallTypes'
    BY <2>1, <2>2 DEF GateTypeOK, CallTypes, Outcomes
  <2>4. pc'[c] = "done" /\ outcome'[c] = "authorized" /\ began'[c] = AtRest
    BY <2>1 DEF GateTypeOK, CallTypes
  <2>5. Placed(c)'
    BY <1>4, <2>1, <2>4 DEF Placed, Late
  <2>6. /\ Mapped(c)' = Mapped(c) /\ EntriesOf(c)' = EntriesOf(c) /\ VerifiedOf(c)' = VerifiedOf(c)
        /\ Whole(c)' = Whole(c)
    BY <2>1 DEF Whole, Alone, Mapped, EntriesOf, VerifiedOf, Leaf, Args
  <2>7. Drafted(c)'
    BY <1>4, <2>1, <2>4, <2>6 DEF Drafted, Unmapped, PolicyPassed
  <2> QED
    BY <2>3, <2>5, <2>7 DEF Kept
<1> QED
  BY <1>2, <1>3, <1>4 DEF Admission, Unallowed, AdmitUnconstrained, Admit, RefuseSequence

\* Whoever moves, every call keeps its place and its requests.
LEMMA NextKeeps ==
  ASSUME GateInv, [GateNext]_gateVars
  PROVE  GateTypeOK' /\ CallTypes' /\ endpoint' = endpoint /\ \A c \in Call : Placed(c)' /\ Drafted(c)'
<1>1. ASSUME NEW c \in Call, (\E i \in Offered : Receive(c, i)) \/ Serve(c)
      PROVE  GateTypeOK' /\ CallTypes' /\ endpoint' = endpoint /\ \A d \in Call : Placed(d)' /\ Drafted(d)'
  <2>1. Kept(c)
    BY <1>1, ReceiveKeeps, ChecksKeep, DefaultMappingKeeps, ResolveDefaultsKeeps, ConstructKeeps,
       SendKeeps, AllowedKeeps, AdmissionKeeps, ReplyKeeps DEF Serve
  <2>2. endpoint' = endpoint /\ \A d \in Call \ {c} : Same(d)
    BY <1>1, OthersSame
  <2>3. \A d \in Call \ {c} : Placed(d)' /\ Drafted(d)'
    BY <2>2, SameKeeps DEF GateInv
  <2> QED
    BY <2>1, <2>2, <2>3 DEF Kept
<1>2. ASSUME (\E c \in Call : Allow(c) \/ HangUp(c)) \/ World \/ UNCHANGED gateVars
      PROVE  GateTypeOK' /\ CallTypes' /\ endpoint' = endpoint /\ \A d \in Call : Placed(d)' /\ Drafted(d)'
  <2>1. /\ endpoint' = endpoint /\ \A d \in Call : Same(d)
        /\ (\E c \in Call : Allow(c)) \/ answers' = answers
        /\ UNCHANGED <<pc, call, began, facts, todo, outcome, input, top, left, made, asked, reply>>
        /\ gone' \subseteq Call
    BY <1>2, NobodysStep
  <2>2. answers' \subseteq [id : Identified, request : Requested]
    <3>1. ASSUME NEW c \in Call, Allow(c) PROVE answers' \subseteq [id : Identified, request : Requested]
      <4>1. Query(c) \in [id : Identified, request : Requested, to : Url]
        <5>1. asked[c] \in Seq([id : Identified, request : Requested, to : Url]) /\ asked[c] # << >>
          BY <3>1 DEF GateInv, GateTypeOK, Allow
        <5> DEFINE S == [id : Identified, request : Requested, to : Url]
        <5>2. \A q \in Seq(S) : q # << >> => q[Len(q)] \in S
          <6> HIDE DEF S
          <6> QED
            OBVIOUS
        <5> QED
          BY <5>1, <5>2 DEF Query
      <4> QED
        BY <3>1, <4>1 DEF Allow, GateInv, GateTypeOK
    <3> QED
      BY <2>1, <3>1 DEF GateInv, GateTypeOK
  <2>3. GateTypeOK'
    BY <2>1, <2>2 DEF GateInv, GateTypeOK
  <2>4. clock' \in Nat /\ revoked' \subseteq Id
    <3>1. clock \in Nat /\ revoked \subseteq Id
      BY DEF GateInv, CallTypes
    <3>2. CASE Tick
      BY <3>1, <3>2 DEF Tick
    <3>3. ASSUME NEW id \in Id \ {Empty}, Revoke(id) PROVE clock' \in Nat /\ revoked' \subseteq Id
      BY <3>1, <3>3 DEF Revoke
    <3>4. ASSUME NEW r \in Roots, Forget(r) PROVE clock' \in Nat /\ revoked' \subseteq Id
      BY <3>1, <3>4 DEF Forget
    <3>5. ASSUME NEW c \in Call, Allow(c) \/ HangUp(c) PROVE clock' \in Nat /\ revoked' \subseteq Id
      BY <3>1, <3>5 DEF Allow, HangUp
    <3> QED
      BY <1>2, <3>1, <3>2, <3>3, <3>4, <3>5 DEF World
  <2>5. CallTypes'
    BY <2>1, <2>4 DEF GateInv, CallTypes
  <2> QED
    BY <2>1, <2>3, <2>5, SameKeeps DEF GateInv
<1> QED
  BY <1>1, <1>2 DEF GateNext

-----------------------------------------------------------------------------
(****************************************************************************)
(* Answers and the requests they are for.                                   *)
(****************************************************************************)
Answered(c) ==
  \A k \in DOMAIN asked[c] :
    asked[c][k].id # Nil /\ (k < Len(asked[c]) \/ pc[c] = "policy" \/ PolicyPassed(c)) =>
      [id |-> asked[c][k].id, request |-> asked[c][k].request] \in answers

LEMMA AnsweredIsAllow == AllowIsForThisRequest <=> \A c \in Call : Answered(c)
BY DEF AllowIsForThisRequest, Answered

\* A step that sends nothing and is allowed nothing passes no evaluation.
Silent(c) ==
  \/ pc'[c] = "closed" /\ asked'[c] = << >>
  \/ /\ pc[c] # "closed" /\ asked'[c] = asked[c]
     /\ (pc'[c] = "policy" \/ PolicyPassed(c)') => asked[c] = << >> \/ PolicyPassed(c)

LEMMA SilentKeeps ==
  ASSUME NEW c \in Call, Silent(c), answers' = answers, Known(c), Answered(c)
  PROVE  Known(c)' /\ Answered(c)'
<1>1. CASE pc'[c] = "closed" /\ asked'[c] = << >>
  BY <1>1 DEF Known, Answered
<1>2. CASE /\ pc[c] # "closed" /\ asked'[c] = asked[c]
           /\ (pc'[c] = "policy" \/ PolicyPassed(c)') => asked[c] = << >> \/ PolicyPassed(c)
  <2>1. Known(c)'
    BY <1>2 DEF Known
  <2>2. Answered(c)'
    BY <1>2 DEF Answered
  <2> QED
    BY <2>1, <2>2
<1> QED
  BY <1>1, <1>2 DEF Silent

LEMMA ServeAnswers ==
  ASSUME GateInv, NEW c \in Call, (\E i \in Offered : Receive(c, i)) \/ Serve(c)
  PROVE  answers' = answers /\ (Silent(c) \/ Send(c) \/ Allowed(c))
<1> USE DEF GateInv
<1>1. pc \in [Call -> {"idle", "verify", "catalog", "permits", "mapping", "entries", "policy", "asked",
                       "sequence", "done", "closed"}]
      /\ asked \in [Call -> Seq([id : Identified, request : Requested, to : Url])]
      /\ outcome \in [Call -> Outcomes]
  BY DEF GateTypeOK, CallTypes
<1>2. pc[c] \in Unmapped \cup {"entries"} => asked[c] = << >>
  BY DEF Drafted
<1> HIDE DEF GateInv
<1>3. ASSUME NEW i \in Offered, Receive(c, i) PROVE answers' = answers /\ Silent(c)
  BY <1>1, <1>2, <1>3 DEF Receive, Silent, Unmapped
<1>4. CASE Checks(c)
  <2>1. pc[c] \in Unmapped \ {"closed"} /\ asked' = asked /\ answers' = answers
    BY <1>4 DEF Checks, NoTool, Verify, Permit, Unmapped
  <2> QED
    BY <1>2, <2>1 DEF Silent, Unmapped
<1>5. CASE LookUp(c)
  BY <1>2, <1>5 DEF LookUp, Describe, Unmapped, Silent
<1>6. CASE DefaultMapping(c) \/ ResolveDefaults(c)
  BY <1>2, <1>6 DEF DefaultMapping, ResolveDefaults, Unmapped, Silent
<1>7. CASE Construct(c)
  BY <1>2, <1>7 DEF Construct, Silent
<1>8. CASE Send(c)
  BY <1>8 DEF Send
<1>9. CASE Allowed(c)
  BY <1>9 DEF Allowed
<1>10. CASE Unallowed(c)
  <2>1. /\ pc[c] # "closed" /\ asked' = asked /\ answers' = answers
        /\ pc'[c] = "done" /\ outcome'[c] = "policy"
    BY <1>1, <1>10 DEF Unallowed, Refuse, Finish
  <2> QED
    BY <2>1 DEF Silent, PolicyPassed
<1>11. CASE Admission(c)
  <2>1. pc[c] = "sequence" /\ asked' = asked /\ answers' = answers
    BY <1>11 DEF Admission, AdmitUnconstrained, Admit, RefuseSequence
  <2> QED
    BY <2>1 DEF Silent, PolicyPassed
<1>12. CASE Reply(c)
  BY <1>1, <1>12 DEF Reply, Silent
<1> QED
  BY <1>3, <1>4, <1>5, <1>6, <1>7, <1>8, <1>9, <1>10, <1>11, <1>12 DEF Serve

\* A new request has a new identifier, and no answer yet.
LEMMA SendAnswers ==
  ASSUME GateInv, NEW c \in Call, Send(c)
  PROVE  Known(c)' /\ Answered(c)'
<1> DEFINE k == Len(asked[c]) + 1
           S == [id : Identified, request : Requested, to : Url]
<1>1. PICK id \in {<<c, k>>, Nil}, x \in S :
        /\ x = [id |-> id, request |-> made[c][k], to |-> endpoint]
        /\ pc[c] = "policy" /\ asked[c] \in Seq(S)
        /\ asked' = [asked EXCEPT ![c] = Append(asked[c], x)]
        /\ pc' = [pc EXCEPT ![c] = "asked"]
        /\ outcome' = outcome /\ answers' = answers /\ x \in S
  BY SendAppends
<1>2. /\ Len(asked[c]) \in Nat /\ DOMAIN asked[c] = 1 .. Len(asked[c])
      /\ DOMAIN Append(asked[c], x) = 1 .. k /\ Len(Append(asked[c], x)) = k
      /\ Append(asked[c], x)[k] = x
      /\ \A j \in 1 .. Len(asked[c]) : Append(asked[c], x)[j] = asked[c][j]
  <2> HIDE DEF S
  <2> QED
    BY <1>1
<1>3. asked'[c] = Append(asked[c], x) /\ pc'[c] = "asked" /\ outcome'[c] = "none"
  BY <1>1 DEF GateInv, GateTypeOK, Placed
<1>4. Known(c) /\ Answered(c)
  BY AnsweredIsAllow DEF GateInv
<1>5. Known(c)'
  <2>1. ASSUME NEW j \in 1 .. k PROVE asked'[c][j].id \in {<<c, j>>, Nil}
    <3>1. CASE j = k
      BY <1>1, <1>2, <1>3, <3>1
    <3>2. CASE j # k
      <4>1. j \in DOMAIN asked[c]
        BY <1>2, <3>2
      <4> QED
        BY <1>2, <1>3, <1>4, <4>1 DEF Known
    <3> QED
      BY <3>1, <3>2
  <2>2. ASSUME NEW a \in answers, NEW j \in Nat, a.id = <<c, j>>
        PROVE  j \in DOMAIN asked'[c] /\ asked'[c][j].id = a.id /\ asked'[c][j].request = a.request
    <3>1. j \in DOMAIN asked[c] /\ asked[c][j].id = a.id /\ asked[c][j].request = a.request
      BY <1>1, <1>4, <2>2 DEF Known
    <3>2. j \in 1 .. k
      BY <1>2, <3>1
    <3> QED
      BY <1>2, <1>3, <3>1, <3>2
  <2> QED
    BY <1>1, <1>2, <1>3, <2>1, <2>2 DEF Known
<1>6. Answered(c)'
  <2>1. ~ PolicyPassed(c)' /\ Len(asked'[c]) = k
    BY <1>2, <1>3 DEF PolicyPassed
  <2> SUFFICES ASSUME NEW j \in 1 .. k, asked'[c][j].id # Nil, j < k
               PROVE  [id |-> asked'[c][j].id, request |-> asked'[c][j].request] \in answers
    BY <1>1, <1>2, <1>3, <2>1 DEF Answered
  <2>2. j \in DOMAIN asked[c] /\ asked'[c][j] = asked[c][j]
    BY <1>2, <1>3
  <2> QED
    BY <1>1, <1>4, <2>2 DEF Answered
<1> QED
  BY <1>5, <1>6

\* An allow that is taken for this request was given for it.
LEMMA AllowedAnswers ==
  ASSUME GateInv, NEW c \in Call, Allowed(c)
  PROVE  Known(c)' /\ Answered(c)'
<1> DEFINE n == Len(asked[c])
<1>1. /\ pc[c] = "asked" /\ asked' = asked /\ answers' = answers
      /\ \E a \in answers : \E echoed \in {a.id, Nil} : Correlated(Query(c).id, echoed)
  BY DEF Allowed
<1>2. Known(c) /\ Answered(c)
  BY AnsweredIsAllow DEF GateInv
<1>3. n \in Nat /\ DOMAIN asked[c] = 1 .. n
  <2>1. asked[c] \in Seq([id : Identified, request : Requested, to : Url])
    BY DEF GateInv, GateTypeOK
  <2> QED
    BY <2>1
<1>4. n > 0
  <2>1. todo[c] \in 1 .. Len(made[c]) /\ Len(asked[c]) + todo[c] = Len(made[c]) + 1
    BY <1>1 DEF GateInv, Drafted
  <2>2. made[c] \in Seq(Requested)
    BY DEF GateInv, GateTypeOK
  <2>3. Len(made[c]) \in Nat
    BY <2>2
  <2> QED
    BY <1>3, <2>1, <2>3
<1>5. asked[c][n].id # Nil => [id |-> asked[c][n].id, request |-> asked[c][n].request] \in answers
  <2> SUFFICES ASSUME asked[c][n].id # Nil
               PROVE  [id |-> asked[c][n].id, request |-> asked[c][n].request] \in answers
    OBVIOUS
  <2>1. PICK a \in answers : \E echoed \in {a.id, Nil} : Correlated(asked[c][n].id, echoed)
    BY <1>1 DEF Query
  <2>2. a.id = asked[c][n].id
    BY <2>1 DEF Correlated
  <2>3. asked[c][n].id = <<c, n>>
    BY <1>2, <1>3, <1>4 DEF Known
  <2>4. asked[c][n].request = a.request
    BY <1>1, <1>2, <1>3, <2>2, <2>3 DEF Known
  <2>5. a \in [id : Identified, request : Requested]
    BY DEF GateInv, GateTypeOK
  <2> QED
    BY <2>2, <2>4, <2>5
<1>6. Known(c)'
  BY <1>1, <1>2 DEF Known
<1>7. Answered(c)'
  <2> SUFFICES ASSUME NEW j \in 1 .. n, asked[c][j].id # Nil
               PROVE  [id |-> asked[c][j].id, request |-> asked[c][j].request] \in answers
    BY <1>1, <1>3 DEF Answered
  <2>1. CASE j = n
    BY <1>5, <2>1
  <2>2. CASE j # n
    <3>1. j < n
      BY <1>3, <2>2
    <3> QED
      BY <1>2, <1>3, <3>1 DEF Answered
  <2> QED
    BY <2>1, <2>2
<1> QED
  BY <1>6, <1>7

\* What another call does, or the PDP allows, answers no other request.
LEMMA AllowAnswers ==
  ASSUME GateInv, NEW c \in Call, Allow(c), NEW d \in Call
  PROVE  Known(d)' /\ Answered(d)'
<1>1. /\ asked[c] # << >> /\ pc' = pc /\ asked' = asked /\ outcome' = outcome
      /\ answers' = answers \cup {[id |-> Query(c).id, request |-> Query(c).request]}
  BY DEF Allow
<1>2. Known(d) /\ Answered(d) /\ Known(c)
  BY AnsweredIsAllow DEF GateInv
<1>3. Answered(d)'
  BY <1>1, <1>2 DEF Answered, PolicyPassed
<1>4. Len(asked[c]) \in DOMAIN asked[c] /\ Len(asked[c]) \in Nat
  <2> DEFINE S == [id : Identified, request : Requested, to : Url]
  <2>1. asked[c] \in Seq(S) /\ asked[c] # << >>
    BY <1>1 DEF GateInv, GateTypeOK
  <2> HIDE DEF S
  <2> QED
    BY <2>1
<1>5. Query(c).id \in {<<c, Len(asked[c])>>, Nil}
  BY <1>2, <1>4 DEF Known, Query
<1>6. ASSUME NEW a \in answers', NEW k \in Nat, pc[d] # "closed", a.id = <<d, k>>
      PROVE  k \in DOMAIN asked[d] /\ asked[d][k].id = a.id /\ asked[d][k].request = a.request
  <2>1. CASE a \in answers
    BY <1>2, <1>6, <2>1 DEF Known
  <2>2. CASE a = [id |-> Query(c).id, request |-> Query(c).request]
    <3>1. Query(c).id = <<d, k>> /\ Query(c).request = a.request
      BY <1>6, <2>2
    <3>2. <<d, k>> \in Call \X Nat
      OBVIOUS
    <3>3. <<d, k>> = <<c, Len(asked[c])>>
      BY <1>5, <3>1, <3>2, GatewayAssumption
    <3>4. d = c /\ k = Len(asked[c])
      BY <3>3
    <3> QED
      BY <1>4, <1>6, <3>1, <3>4 DEF Query
  <2> QED
    BY <1>1, <2>1, <2>2
<1>7. Known(d)'
  BY <1>1, <1>2, <1>6 DEF Known
<1> QED
  BY <1>3, <1>7

LEMMA NextGateInv == GateInv /\ [GateNext]_gateVars => GateInv'
<1> SUFFICES ASSUME GateInv, [GateNext]_gateVars PROVE GateInv'
  OBVIOUS
<1>1. GateTypeOK' /\ CallTypes' /\ endpoint' = endpoint /\ \A c \in Call : Placed(c)' /\ Drafted(c)'
  BY NextKeeps
<1>2. \A c \in Call : Known(c) /\ Answered(c)
  BY AnsweredIsAllow DEF GateInv
<1>3. \A c \in Call : Known(c)' /\ Answered(c)'
  <2>1. ASSUME NEW c \in Call, (\E i \in Offered : Receive(c, i)) \/ Serve(c), NEW d \in Call
        PROVE  Known(d)' /\ Answered(d)'
    <3>1. answers' = answers /\ (Silent(c) \/ Send(c) \/ Allowed(c))
      BY <2>1, ServeAnswers
    <3>2. CASE d = c
      BY <1>2, <3>1, <3>2, SilentKeeps, SendAnswers, AllowedAnswers
    <3>3. CASE d # c
      <4>1. Same(d)
        BY <2>1, <3>3, OthersSame
      <4> QED
        BY <1>2, <3>1, <4>1 DEF Same, Known, Answered, PolicyPassed
    <3> QED
      BY <3>2, <3>3
  <2>2. ASSUME NEW c \in Call, Allow(c), NEW d \in Call PROVE Known(d)' /\ Answered(d)'
    BY <2>2, AllowAnswers
  <2>3. ASSUME (\E c \in Call : HangUp(c)) \/ World \/ UNCHANGED gateVars, NEW d \in Call
        PROVE  Known(d)' /\ Answered(d)'
    <3>1. pc' = pc /\ asked' = asked /\ outcome' = outcome /\ answers' = answers
      BY <2>3 DEF HangUp, World, Tick, Revoke, Forget
    <3> QED
      BY <1>2, <3>1 DEF Known, Answered, PolicyPassed
  <2> QED
    BY <2>1, <2>2, <2>3 DEF GateNext
<1>4. AllowIsForThisRequest'
  BY <1>3, AnsweredIsAllow DEF AllowIsForThisRequest, Answered
<1> QED
  BY <1>1, <1>3, <1>4 DEF GateInv

THEOREM GateInvariance == GateSpec => []GateInv
BY GateInitInv, NextGateInv, PTL DEF GateSpec

\* Type correctness of the gateway, and with it that the budget of a call is
\* never overdrawn (declared.go:490-510).
THEOREM GateTypeCorrect == GateSpec => []GateTypeOK
<1>1. GateInv => GateTypeOK
  BY DEF GateInv
<1> QED
  BY <1>1, GateInvariance, PTL

\* An evaluation taken to be allowed was allowed for the request that was sent
\* (authzen.go:215-231).
THEOREM AllowCorrelates == GateSpec => []AllowIsForThisRequest
<1>1. GateInv => AllowIsForThisRequest
  BY DEF GateInv
<1> QED
  BY <1>1, GateInvariance, PTL

\* Each request that reaches the PDP is about the chain of its call
\* (declared.go:310-399, mapping.go:93-138).
THEOREM AsksAboutTheChain == GateSpec => []AskedAboutTheChain
<1>1. GateInv => AskedAboutTheChain
  <2> SUFFICES ASSUME GateInv, NEW c \in Call, NEW k \in DOMAIN asked[c]
               PROVE  AboutChain(asked[c][k].request, VerifiedOf(c), call[c].chain)
    BY DEF AskedAboutTheChain, AboutChain
  <2>1. k \in DOMAIN made[c] /\ asked[c][k].request = made[c][k]
    BY DEF GateInv, Drafted
  <2>2. AboutChain(made[c][k], VerifiedOf(c), call[c].chain)
    BY <2>1 DEF GateInv, Drafted
  <2> QED
    BY <2>1, <2>2
<1> QED
  BY <1>1, GateInvariance, PTL

\* What passes policy was put to the PDP whole (declared.go:236-279,
\* mcp.go:329-350).
THEOREM HearsTheWholeMapping == GateSpec => []PolicyHeardTheWholeMapping
<1>1. GateInv => PolicyHeardTheWholeMapping
  <2> SUFFICES ASSUME GateInv, NEW c \in Call, PolicyPassed(c), pc[c] # "closed"
               PROVE  asked[c] # << >> /\ [k \in DOMAIN asked[c] |-> asked[c][k].request] = Whole(c)
    BY DEF PolicyHeardTheWholeMapping
  <2>1. Drafted(c) /\ Len(asked[c]) = Len(made[c]) /\ Len(made[c]) > 0 /\ DOMAIN made[c] = DOMAIN Whole(c)
    BY DEF GateInv, Drafted
  <2>2. DOMAIN asked[c] = 1 .. Len(asked[c]) /\ DOMAIN made[c] = 1 .. Len(made[c]) /\ Len(made[c]) \in Nat
    <3>1. made[c] \in Seq(Requested) /\ asked[c] \in Seq([id : Identified, request : Requested, to : Url])
      BY DEF GateInv, GateTypeOK
    <3> QED
      BY <3>1
  <2>3. \A k \in DOMAIN asked[c] : asked[c][k].request = Whole(c)[k]
    BY <2>1 DEF Drafted
  <2>4. Whole(c) = [k \in DOMAIN Whole(c) |-> Whole(c)[k]]
    BY DEF Whole
  <2>5. DOMAIN asked[c] = DOMAIN Whole(c) /\ asked[c] # << >>
    BY <2>1, <2>2
  <2> QED
    BY <2>3, <2>4, <2>5
<1> QED
  BY <1>1, GateInvariance, PTL

\* What is asked goes only to the PDP's own endpoint, and not in the clear over
\* a network (authzen.go:125-162, discovery.go:40-113).
THEOREM AsksInConfidence == GateSpec => []AskedInConfidence
<1>1. GateInv => AskedInConfidence
  <2>1. \A u \in Endpoints : SafeUrl(u) /\ \E d \in Metadata : d.pdp.url = Pdp.url /\ d.endpoint = u
    BY DEF Endpoints, Discovers
  <2> QED
    BY <2>1 DEF AskedInConfidence, GateInv, Drafted
<1> QED
  BY <1>1, GateInvariance, PTL

-----------------------------------------------------------------------------
(****************************************************************************)
(* The gateway implements the enforcer.                                     *)
(****************************************************************************)
\* The enforcer that is implemented means by its rules what the gateway does.
LEMMA SameGrants ==
  /\ \A r, x : Core!Within(r, x) <=> Within(r, x)
  /\ \A x : Core!ValidClaims(x) <=> ValidClaims(x)
  /\ \A caps, req : Core!Permits(caps, req) <=> Permits(caps, req)
<1>1. \A x, p : /\ Core!HasPrefix(x, p) <=> HasPrefix(x, p)
                /\ Core!InSet(x, p) <=> InSet(x, p)
  BY DEF Core!HasPrefix, HasPrefix, Core!InSet, InSet
<1>2. \A x : /\ Core!IsPattern(x) <=> IsPattern(x)
             /\ Core!IsRange(x) <=> IsRange(x)
  BY DEF Core!IsPattern, IsPattern, Core!IsRange, IsRange
<1>3. \A x : /\ Core!Stem(x) = Stem(x)
             /\ Core!Literal(x) = Literal(x)
             /\ Core!InFragment(x) <=> InFragment(x)
  BY <1>2 DEF Core!Stem, Stem, Core!Literal, Literal, Core!InFragment, InFragment
<1>4. \A p, x : /\ Core!IdCovers(p, x) <=> IdCovers(p, x)
                /\ Core!RangeCovers(p, x) <=> RangeCovers(p, x)
                /\ Core!Satisfies(p, x) <=> Satisfies(p, x)
  BY <1>1, <1>2, <1>3 DEF Core!IdCovers, IdCovers, Core!RangeCovers, RangeCovers, Core!Satisfies, Satisfies
<1>5. \A p, x : Core!CondCovers(p, x) <=> CondCovers(p, x)
  BY <1>1, <1>2, <1>3, <1>4 DEF Core!CondCovers, CondCovers
<1>6. \A p, x : /\ Core!Entails(p, x) <=> Entails(p, x)
                /\ Core!Covers(p, x) <=> Covers(p, x)
                /\ Core!ValidCapability(x) <=> ValidCapability(x)
  BY <1>3, <1>4, <1>5 DEF Core!Entails, Entails, Core!Covers, Covers, Core!ValidCapability, ValidCapability
<1>7. \A p, x : Core!CapsEntailed(p, x) <=> CapsEntailed(p, x)
  BY <1>6 DEF Core!CapsEntailed, CapsEntailed
<1>8. \A p, x : Core!SeqNoWider(p, x) <=> SeqNoWider(p, x)
  BY DEF Core!SeqNoWider, SeqNoWider, Core!SameMatcher, SameMatcher
<1>9. \A x : Core!Compiles(x) <=> Compiles(x)
  BY DEF Core!Compiles, Compiles, Core!MatchesEverything, MatchesEverything
<1>10. \A r, x : Core!Within(r, x) <=> Within(r, x)
  BY <1>7, <1>8 DEF Core!Within, Within, Core!Bounds, Bounds
<1>11. \A x : Core!ValidClaims(x) <=> ValidClaims(x)
  BY <1>6, <1>9 DEF Core!ValidClaims, ValidClaims, Core!NoParent, NoParent
<1>12. \A caps, req : Core!Permits(caps, req) <=> Permits(caps, req)
  BY <1>6 DEF Core!Permits, Permits
<1> QED
  BY <1>10, <1>11, <1>12

LEMMA SameSequences ==
  /\ Core!NoHistory = NoHistory
  /\ \A st, x, y : Core!Admits(st, x, y) <=> Admits(st, x, y)
  /\ \A st, x, y : Core!Record(st, x, y) = Record(st, x, y)
<1>1. \A m, x : Core!Matches(m, x) <=> Matches(m, x)
  BY DEF Core!Matches, Matches
<1>2. \A x : Core!Rules(x) = Rules(x)
  BY DEF Core!Rules, Rules
<1>3. \A x, y : Core!Fired(x, y) = Fired(x, y)
  BY <1>1, <1>2 DEF Core!Fired, Fired
<1>4. \A st, x, y : Core!Forbidding(st, x, y) = Forbidding(st, x, y)
  BY <1>1 DEF Core!Forbidding, Forbidding
<1> QED
  BY <1>3, <1>4 DEF Core!Admits, Admits, Core!Exhausted, Exhausted, Core!Record, Record,
                    Core!NoHistory, NoHistory

LEMMA SameCalls ==
  /\ Core!Roots = Roots /\ Core!AtRest = AtRest /\ Core!NoCall = NoCall /\ Core!NoFacts = NoFacts
  /\ \A c : /\ Core!Leaf(c) = Leaf(c) /\ Core!RootId(c) = RootId(c)
            /\ Core!RequestOf(c) = RequestOf(c) /\ Core!ActionOf(c) = ActionOf(c)
  /\ \A r : /\ Core!StateOf(r) = StateOf(r)
            /\ Core!Room(r) <=> Room(r)
            /\ Core!Dead(r) <=> Dead(r)
  /\ \A ch, b : Core!Acceptable(ch, b) <=> Acceptable(ch, b)
<1>1. /\ Core!Roots = Roots /\ Core!AtRest = AtRest /\ Core!NoCall = NoCall /\ Core!NoFacts = NoFacts
  BY DEF Core!Roots, Roots, Core!AtRest, AtRest, Core!NoCall, NoCall, Core!NoFacts, NoFacts
<1>2. \A c : /\ Core!Leaf(c) = Leaf(c) /\ Core!RootId(c) = RootId(c)
             /\ Core!RequestOf(c) = RequestOf(c) /\ Core!ActionOf(c) = ActionOf(c)
  BY DEF Core!Leaf, Leaf, Core!RootId, RootId, Core!RequestOf, RequestOf, Core!ActionOf, ActionOf
<1>3. \A r : Core!StateOf(r) = StateOf(r)
  BY SameSequences DEF Core!StateOf, StateOf
<1>4. \A r : Core!Room(r) <=> Room(r)
  BY DEF Core!Room, Room, Core!Cardinality, Cardinality
<1>5. \A r : Core!Grants(r) = Grants(r)
  BY DEF Core!Grants, Grants
<1>6. \A r : Core!Dead(r) <=> Dead(r)
  BY <1>5 DEF Core!Dead, Dead
<1>7. \A ch, b : Core!Acceptable(ch, b) <=> Acceptable(ch, b)
  BY SameGrants DEF Core!Acceptable, Acceptable
<1> QED
  BY <1>1, <1>2, <1>3, <1>4, <1>6, <1>7

\* Where the enforcer is with a call.
Stage(c) ==
  CASE pc[c] = "entries" -> "mapping"
    [] pc[c] = "asked" -> "policy"
    [] pc[c] = "closed" -> IF outcome[c] = "none" THEN "idle" ELSE "done"
    [] OTHER -> pc[c]

LEMMA PhaseMoves ==
  ASSUME GateInv, NEW c \in Call, (\E i \in Offered : Receive(c, i)) \/ Serve(c)
  PROVE  /\ Phase' = [Phase EXCEPT ![c] = Stage(c)']
         /\ Phase[c] = Stage(c)
         /\ Stage(c)' = Stage(c) => Phase' = Phase
<1>1. Phase = [d \in Call |-> Stage(d)] /\ Phase' = [d \in Call |-> Stage(d)']
  BY DEF Phase, Stage
<1>2. \A d \in Call \ {c} : Stage(d)' = Stage(d)
  BY OthersSame DEF Same, Stage
<1> QED
  BY <1>1, <1>2

LEMMA CoreMoves ==
  ASSUME GateInv, NEW c \in Call, Serve(c)
  PROVE  /\ \A check \in {"verify", "catalog", "permits", "mapping", "policy", "sequence"} :
              GoTo(c, check) => Core!GoTo(c, check)
         /\ \A how : Finish(c, how) => Core!Finish(c, how)
         /\ \A stage : Refuse(c, stage) => Core!Refuse(c, stage)
<1>1. pc \in [Call -> {"idle", "verify", "catalog", "permits", "mapping", "entries", "policy", "asked",
                       "sequence", "done", "closed"}]
  BY DEF GateInv, GateTypeOK
<1>2. Phase' = [Phase EXCEPT ![c] = Stage(c)']
  BY PhaseMoves
<1>3. ASSUME NEW check \in {"verify", "catalog", "permits", "mapping", "policy", "sequence"}, GoTo(c, check)
      PROVE  Core!GoTo(c, check)
  <2>1. pc'[c] = check
    BY <1>1, <1>3 DEF GoTo
  <2>2. Stage(c)' = check
    BY <2>1 DEF Stage
  <2> QED
    BY <1>2, <1>3, <2>2, SameCalls DEF GoTo, Core!GoTo
<1>4. ASSUME NEW how, Finish(c, how) PROVE Core!Finish(c, how)
  <2>1. pc'[c] = "done"
    BY <1>1, <1>4 DEF Finish
  <2>2. Stage(c)' = "done"
    BY <2>1 DEF Stage
  <2> QED
    BY <1>2, <1>4, <2>2, SameCalls DEF Finish, Core!Finish
<1>5. ASSUME NEW stage, Refuse(c, stage) PROVE Core!Refuse(c, stage)
  BY <1>4, <1>5 DEF Refuse, Core!Refuse, Core!world, Core!store
<1> QED
  BY <1>3, <1>4, <1>5

LEMMA CoreInit == GateInit => Core!Init
<1> SUFFICES ASSUME GateInit PROVE Core!Init
  OBVIOUS
<1>1. Phase = [c \in Call |-> "idle"]
  BY DEF GateInit, Init, Phase
<1> QED
  BY <1>1, SameCalls, SameSequences DEF GateInit, Init, Core!Init

\* The steps that the enforcer does not see.
LEMMA HiddenSteps ==
  ASSUME GateInv, NEW c \in Call, Serve(c),
         \/ ResolveDefaults(c) /\ pc'[c] = "entries"
         \/ Construct(c) /\ pc'[c] = "entries"
         \/ Send(c) \/ Reply(c)
  PROVE  UNCHANGED Core!vars
<1> USE DEF GateInv
<1>1. pc \in [Call -> {"idle", "verify", "catalog", "permits", "mapping", "entries", "policy", "asked",
                       "sequence", "done", "closed"}]
      /\ Placed(c) /\ began \in [Call -> [clock : Nat, revoked : SUBSET Id]]
  BY DEF GateTypeOK, CallTypes
<1>2. UNCHANGED <<clock, revoked, call, began, facts, todo, outcome, states, history, forgotten>>
  <2>1. CASE ResolveDefaults(c) /\ pc'[c] = "entries"
    BY <1>1, <2>1 DEF ResolveDefaults, Refuse, Finish, GoTo, Placed
  <2>2. CASE Construct(c) /\ pc'[c] = "entries"
    BY <1>1, <2>2 DEF Construct, Constructed, Refuse, Finish, GoTo, Placed
  <2>3. CASE Send(c)
    BY <1>1, <2>3 DEF Send, GoTo, Placed
  <2>4. CASE Reply(c)
    BY <2>4 DEF Reply
  <2> QED
    BY <2>1, <2>2, <2>3, <2>4
<1>3. Stage(c)' = Stage(c)
  <2>1. CASE ResolveDefaults(c) /\ pc'[c] = "entries"
    BY <2>1 DEF ResolveDefaults, Stage
  <2>2. CASE Construct(c) /\ pc'[c] = "entries"
    BY <2>2 DEF Construct, Stage
  <2>3. CASE Send(c)
    BY <1>1, <2>3 DEF Send, GoTo, Stage
  <2>4. CASE Reply(c)
    BY <1>1, <1>2, <2>4 DEF Reply, Placed, Stage
  <2> QED
    BY <2>1, <2>2, <2>3, <2>4
<1>4. Phase' = Phase
  BY <1>3, PhaseMoves
<1> QED
  BY <1>2, <1>4 DEF Core!vars

\* The checks are the enforcer's.
LEMMA CheckSteps ==
  ASSUME GateInv, NEW c \in Call, Checks(c) \/ LookUp(c) \/ Unallowed(c) \/ Admission(c)
  PROVE  Core!Step(c)
<1> USE DEF Core!world, Core!store
<1>0. Serve(c)
  BY DEF Serve
<1>1. Phase[c] = Stage(c)
  BY <1>0, PhaseMoves
<1>2. CASE NoTool(c)
  BY <1>0, <1>1, <1>2, CoreMoves DEF NoTool, Core!NoTool, Core!Step, Stage
<1>3. CASE Verify(c)
  <2>1. Phase[c] = "verify" /\ call[c].tool # << >>
    BY <1>1, <1>3 DEF Verify, Stage
  <2>2. CASE Refuse(c, "verify")
    BY <1>0, <2>1, <2>2, CoreMoves DEF Core!Verify, Core!Step
  <2>3. CASE /\ Acceptable(call[c].chain, began[c]) /\ GoTo(c, "catalog")
             /\ UNCHANGED <<world, facts, todo, store>>
    BY <1>0, <2>1, <2>3, CoreMoves, SameCalls DEF Core!Verify, Core!Step
  <2> QED
    BY <1>3, <2>2, <2>3 DEF Verify
<1>4. CASE Permit(c)
  <2>1. Phase[c] = "permits"
    BY <1>1, <1>4 DEF Permit, Stage
  <2>2. Core!Permits(Core!Leaf(c).caps, Core!RequestOf(c)) <=> Permits(Leaf(c).caps, RequestOf(c))
    BY SameCalls, SameGrants
  <2>3. CASE Permits(Leaf(c).caps, RequestOf(c))
    BY <1>0, <1>4, <2>1, <2>2, <2>3, CoreMoves DEF Permit, Core!Permit, Core!Step
  <2>4. CASE ~ Permits(Leaf(c).caps, RequestOf(c))
    BY <1>0, <1>4, <2>1, <2>2, <2>4, CoreMoves DEF Permit, Core!Permit, Core!Step
  <2> QED
    BY <2>3, <2>4
<1>5. CASE LookUp(c)
  <2>1. Phase[c] = "catalog" /\ Describe(c)
    BY <1>1, <1>5 DEF LookUp, Describe, Stage
  <2>2. CASE Refuse(c, "catalog")
    BY <1>0, <2>1, <2>2, CoreMoves DEF Core!Describe, Core!Step
  <2>3. ASSUME NEW f \in Described[call[c].tool], facts' = [facts EXCEPT ![c] = f], GoTo(c, "permits"),
               UNCHANGED <<world, todo, store>>
        PROVE  Core!Step(c)
    BY <1>0, <2>1, <2>3, CoreMoves DEF Core!Describe, Core!Step
  <2> QED
    BY <2>1, <2>2, <2>3 DEF Describe
<1>6. CASE Unallowed(c)
  <2>1. Phase[c] = "policy" /\ Refuse(c, "policy")
    BY <1>1, <1>6 DEF Unallowed, Stage
  <2> QED
    BY <1>0, <2>1, CoreMoves DEF Core!Evaluate, Core!Step
<1>7. CASE Admission(c)
  <2>1. Phase[c] = "sequence"
    BY <1>1, <1>7 DEF Admission, AdmitUnconstrained, Admit, RefuseSequence, Stage
  <2>2. CASE AdmitUnconstrained(c)
    BY <1>0, <2>1, <2>2, CoreMoves, SameCalls DEF AdmitUnconstrained, Core!AdmitUnconstrained, Core!Step
  <2>3. CASE RefuseSequence(c)
    BY <1>0, <2>1, <2>3, CoreMoves, SameCalls DEF RefuseSequence, Core!RefuseSequence, Core!Step
  <2>4. CASE Admit(c)
    <3>1. Core!Recorded(c)
      BY <2>4, SameCalls, SameSequences DEF Admit, Recorded, Core!Recorded
    <3> QED
      BY <1>0, <2>1, <2>4, <3>1, CoreMoves, SameCalls, SameSequences DEF Admit, Core!Admit, Core!Step
  <2> QED
    BY <1>7, <2>2, <2>3, <2>4 DEF Admission
<1> QED
  BY <1>2, <1>3, <1>4, <1>5, <1>6, <1>7 DEF Checks

\* A mapping that fails, or whose last request is constructed, is one check;
\* each evaluation that is allowed is another.
LEMMA PolicySteps ==
  ASSUME GateInv, NEW c \in Call,
         \/ DefaultMapping(c)
         \/ (ResolveDefaults(c) \/ Construct(c)) /\ pc'[c] # "entries"
         \/ Allowed(c)
  PROVE  Core!Step(c)
<1> USE DEF Core!world, Core!store
<1>0. Serve(c)
  BY DEF Serve
<1>1. /\ Phase[c] = Stage(c)
      /\ pc \in [Call -> {"idle", "verify", "catalog", "permits", "mapping", "entries", "policy", "asked",
                       "sequence", "done", "closed"}]
  BY <1>0, PhaseMoves DEF GateInv, GateTypeOK
<1>2. CASE DefaultMapping(c)
  <2>1. Phase[c] = "mapping" /\ facts[c].requests = 0
    BY <1>1, <1>2, CallFacts DEF DefaultMapping, Stage, GateInv, Placed, Late
  <2> QED
    BY <1>0, <1>2, <2>1, CoreMoves DEF DefaultMapping, Core!Map, Core!Step
<1>3. CASE (ResolveDefaults(c) \/ Construct(c)) /\ pc'[c] # "entries"
  <2>1. Phase[c] = "mapping" /\ pc[c] \in {"mapping", "entries"} /\ Mapped(c) # Nil
    BY <1>1, <1>3 DEF ResolveDefaults, Construct, Stage, GateInv, Placed
  <2>2. facts[c].requests = Len(EntriesOf(c)) /\ Len(EntriesOf(c)) \in Nat \ {0}
    <3>1. Mapped(c) \in Declaration /\ facts[c] \in Described[call[c].tool]
      BY <2>1, CallFacts DEF GateInv, Placed, Late
    <3> QED
      BY <2>1, <3>1, CallFacts, EntriesType DEF EntriesOf
  <2>3. CASE Refuse(c, "mapping")
    BY <1>0, <2>1, <2>2, <2>3, CoreMoves DEF Core!Map, Core!Step
  <2>4. CASE ~ Refuse(c, "mapping")
    <3>1. /\ todo' = [todo EXCEPT ![c] = Len(EntriesOf(c))] /\ GoTo(c, "policy")
          /\ UNCHANGED <<world, facts, store>>
      BY <1>1, <1>3, <2>4 DEF ResolveDefaults, Construct, Constructed, GoTo
    <3> QED
      BY <1>0, <2>1, <2>2, <3>1, CoreMoves DEF Core!Map, Core!Step
  <2> QED
    BY <2>3, <2>4
<1>4. CASE Allowed(c)
  <2>1. /\ Phase[c] = "policy"
        /\ todo' = [todo EXCEPT ![c] = @ - 1]
        /\ GoTo(c, IF todo[c] = 1 THEN "sequence" ELSE "policy")
        /\ UNCHANGED <<clock, revoked, facts, states, history, forgotten>>
    BY <1>1, <1>4 DEF Allowed, Stage
  <2>2. Core!GoTo(c, IF todo[c] = 1 THEN "sequence" ELSE "policy")
    BY <1>0, <2>1, CoreMoves
  <2> QED
    BY <2>1, <2>2 DEF Core!Evaluate, Core!Step
<1> QED
  BY <1>2, <1>3, <1>4

LEMMA ReceiveStep ==
  ASSUME GateInv, NEW c \in Call, NEW i \in Offered, Receive(c, i)
  PROVE  Core!Next \/ UNCHANGED Core!vars
<1> USE DEF Core!world, Core!store
<1>1. /\ Phase' = [Phase EXCEPT ![c] = Stage(c)'] /\ Phase[c] = Stage(c)
      /\ Stage(c)' = Stage(c) => Phase' = Phase
  BY PhaseMoves
<1>2. pc \in [Call -> {"idle", "verify", "catalog", "permits", "mapping", "entries", "policy", "asked",
                       "sequence", "done", "closed"}]
      /\ pc[c] = "idle" /\ outcome[c] = "none"
  BY DEF GateInv, GateTypeOK, Receive, Placed
<1>3. CASE i.kind = "call"
  <2>1. Authorize(c, i.chain, i.tool) /\ i.chain \in Presented /\ i.tool \in Tool
    BY <1>3, GatewayAssumption DEF Receive
  <2>2. pc'[c] = "verify"
    BY <1>2, <2>1 DEF Authorize
  <2>3. Stage(c)' = "verify" /\ Stage(c) = "idle"
    BY <1>2, <2>2 DEF Stage
  <2>4. Core!Authorize(c, i.chain, i.tool)
    BY <1>1, <2>1, <2>3 DEF Authorize, Core!Authorize
  <2> QED
    BY <2>1, <2>4 DEF Core!Next
<1>4. CASE i.kind # "call"
  <2>1. pc'[c] = "closed" /\ UNCHANGED <<clock, revoked, call, began, facts, todo, outcome, states, history, forgotten>>
    BY <1>2, <1>4 DEF Receive
  <2>2. Stage(c)' = Stage(c)
    BY <1>2, <2>1 DEF Stage
  <2> QED
    BY <1>1, <2>1, <2>2 DEF Core!vars
<1> QED
  BY <1>3, <1>4

LEMMA OtherSteps ==
  ASSUME GateInv, (\E c \in Call : Allow(c) \/ HangUp(c)) \/ World \/ UNCHANGED gateVars
  PROVE  Core!Next \/ UNCHANGED Core!vars
<1> USE DEF Core!world, Core!store
<1>1. Phase' = Phase
  <2>1. pc' = pc /\ outcome' = outcome
    BY DEF Allow, HangUp, World, Tick, Revoke, Forget
  <2> QED
    BY <2>1 DEF Phase
<1>2. CASE (\E c \in Call : Allow(c) \/ HangUp(c)) \/ UNCHANGED gateVars
  BY <1>1, <1>2 DEF Allow, HangUp, Core!vars
<1>3. CASE Tick
  BY <1>1, <1>3 DEF Tick, Core!Tick, Core!Next
<1>4. ASSUME NEW id \in Id \ {Empty}, Revoke(id) PROVE Core!Next
  BY <1>1, <1>4 DEF Revoke, Core!Revoke, Core!Next
<1>5. ASSUME NEW r \in Roots, Forget(r) PROVE Core!Next
  <2>1. Core!Dead(r) /\ r \in Core!Roots
    BY <1>5, SameCalls DEF Forget
  <2>2. Core!Forget(r)
    BY <1>1, <1>5, <2>1 DEF Forget, Core!Forget
  <2> QED
    BY <2>1, <2>2 DEF Core!Next
<1> QED
  BY <1>2, <1>3, <1>4, <1>5 DEF World

\* Whatever the mappings, the client, caches, proxies and callers do, the
\* gateway does nothing to a call that the enforcer would not.
THEOREM Refines == GateSpec => ImplementsEnforcer
<1>1. GateInv /\ [GateNext]_gateVars => [Core!Next]_(Core!vars)
  <2> SUFFICES ASSUME GateInv, [GateNext]_gateVars PROVE Core!Next \/ UNCHANGED Core!vars
    OBVIOUS
  <2>1. ASSUME NEW c \in Call, Serve(c) PROVE Core!Next \/ UNCHANGED Core!vars
    <3>1. Core!Step(c) \/ UNCHANGED Core!vars
      BY <2>1, HiddenSteps, CheckSteps, PolicySteps DEF Serve
    <3> QED
      BY <3>1 DEF Core!Next
  <2> QED
    BY <2>1, ReceiveStep, OtherSteps DEF GateNext
<1> QED
  BY <1>1, CoreInit, GateInvariance, PTL DEF GateSpec, ImplementsEnforcer, Core!Spec

-----------------------------------------------------------------------------
(****************************************************************************)
(* The budget of resolved values.                                           *)
(****************************************************************************)
PartOf(c, i) == IF i = 0 THEN Mapped(c).top ELSE EntriesOf(c)[i]
Values(c, i) == {i} \X Produced(PartOf(c, i), Args(c))

\* Each entry adds what it produces to what the call holds.
LEMMA TotalGrows ==
  ASSUME NEW c \in Call, Mapped(c) \in Declaration, Args(c) \in Arguments,
         NEW n \in 0 .. Len(EntriesOf(c))
  PROVE  /\ Total(c, n) \in Nat
         /\ Total(c, 0) = Spends(Mapped(c).top, Args(c))
         /\ \A m \in 0 .. n : Total(c, m) <= Total(c, n)
         /\ n > 0 => Total(c, n) = Total(c, n - 1) + Spends(EntriesOf(c)[n], Args(c))
<1> DEFINE U(m) == UNION {Values(c, i) : i \in 0 .. m}
<1>1. /\ Len(EntriesOf(c)) \in Nat
      /\ \A i \in 0 .. Len(EntriesOf(c)) : PartOf(c, i) \in Template
  <2>1. /\ Mapped(c).top \in Template /\ Len(EntriesOf(c)) \in Nat
        /\ DOMAIN EntriesOf(c) = 1 .. Len(EntriesOf(c))
        /\ \A i \in DOMAIN EntriesOf(c) : EntriesOf(c)[i] \in Template
    BY EntriesType DEF EntriesOf
  <2> QED
    BY <2>1 DEF PartOf
<1>2. ASSUME NEW i \in 0 .. Len(EntriesOf(c))
      PROVE  /\ IsFiniteSet(Values(c, i))
             /\ Cardinality(Values(c, i)) = Spends(PartOf(c, i), Args(c))
             /\ Spends(PartOf(c, i), Args(c)) \in Nat
  <2>1. /\ IsFiniteSet(Produced(PartOf(c, i), Args(c)))
        /\ Spends(PartOf(c, i), Args(c)) \in Nat
    BY <1>1, SpendsType
  <2>2. IsFiniteSet({i}) /\ Cardinality({i}) = 1
    BY FS_Singleton
  <2>3. /\ IsFiniteSet(Values(c, i))
        /\ Cardinality(Values(c, i)) = 1 * Cardinality(Produced(PartOf(c, i), Args(c)))
    BY <2>1, <2>2, FS_Product DEF Values
  <2> QED
    BY <2>1, <2>3 DEF Spends
<1>3. ASSUME NEW m \in 0 .. Len(EntriesOf(c))
      PROVE  /\ IsFiniteSet(U(m)) /\ Total(c, m) = Cardinality(U(m)) /\ Total(c, m) \in Nat
  <2>1. Total(c, m) = Cardinality(U(m))
    BY DEF Total, Values, PartOf
  <2>2. IsFiniteSet({Values(c, i) : i \in 0 .. m})
    <3> DEFINE f == [i \in 0 .. m |-> Values(c, i)]
               T == {Values(c, i) : i \in 0 .. m}
    <3>1. f \in Surjection(0 .. m, T)
      BY DEF Surjection
    <3>2. IsFiniteSet(0 .. m)
      BY <1>1, FS_Interval
    <3> HIDE DEF f, T
    <3>3. IsFiniteSet(T)
      BY <3>1, <3>2, FS_Surjection
    <3> QED
      BY <3>3 DEF T
  <2>3. IsFiniteSet(U(m))
    <3>1. \A T \in {Values(c, i) : i \in 0 .. m} : IsFiniteSet(T)
      BY <1>1, <1>2
    <3> QED
      BY <2>2, <3>1, FS_UNION
  <2> QED
    BY <2>1, <2>3, FS_CardinalityType
<1>4. Total(c, 0) = Spends(Mapped(c).top, Args(c))
  <2>1. U(0) = Values(c, 0)
    <3>1. 0 .. 0 = {0}
      OBVIOUS
    <3> QED
      BY <3>1
  <2> QED
    BY <1>1, <1>2, <1>3, <2>1 DEF PartOf
<1>5. ASSUME NEW m \in 0 .. n PROVE Total(c, m) <= Total(c, n)
  <2>1. m \in 0 .. Len(EntriesOf(c)) /\ U(m) \subseteq U(n)
    BY <1>1
  <2> HIDE DEF U
  <2> QED
    BY <1>3, <2>1, FS_Subset
<1>6. ASSUME n > 0 PROVE Total(c, n) = Total(c, n - 1) + Spends(EntriesOf(c)[n], Args(c))
  <2>1. n - 1 \in 0 .. Len(EntriesOf(c)) /\ PartOf(c, n) = EntriesOf(c)[n]
    BY <1>1, <1>6 DEF PartOf
  <2>2. 0 .. n = (0 .. (n - 1)) \cup {n}
    BY <1>1, <1>6
  <2>3. U(n) = U(n - 1) \cup Values(c, n)
    <3>1. U(n) \subseteq U(n - 1) \cup Values(c, n)
      BY <2>2
    <3>2. U(n - 1) \cup Values(c, n) \subseteq U(n)
      BY <2>2
    <3> QED
      BY <3>1, <3>2
  <2>4. U(n - 1) \cap Values(c, n) = {}
    <3> SUFFICES ASSUME NEW x \in U(n - 1), x \in Values(c, n) PROVE FALSE
      OBVIOUS
    <3>1. PICK i \in 0 .. (n - 1) : x \in Values(c, i)
      OBVIOUS
    <3>2. x[1] = i
      BY <3>1 DEF Values
    <3>3. x[1] = n
      BY DEF Values
    <3> QED
      BY <1>1, <3>1, <3>2, <3>3
  <2> HIDE DEF U
  <2>5. Cardinality(U(n)) = Cardinality(U(n - 1)) + Cardinality(Values(c, n)) - Cardinality({})
    <3>1. IsFiniteSet(U(n - 1)) /\ IsFiniteSet(Values(c, n))
      BY <1>2, <1>3, <2>1
    <3> QED
      BY <2>3, <2>4, <3>1, FS_Union
  <2>6. Total(c, n) = Total(c, n - 1) + Cardinality(Values(c, n))
    BY <1>2, <1>3, <2>1, <2>5, FS_EmptySet
  <2> QED
    BY <1>2, <2>1, <2>6
<1> QED
  BY <1>3, <1>4, <1>5, <1>6

\* What is wrong with a mapping that is refused.
Cause(c) ==
  \/ c \in gone
  \/ Fails(Mapped(c).top, Args(c))
  \/ \E i \in DOMAIN EntriesOf(c) : \/ Fails(EntriesOf(c)[i], Args(c))
                                   \/ ~ Anchors(Alone(c, EntriesOf(c)[i]), VerifiedOf(c))
  \/ Total(c, Len(EntriesOf(c))) > MaxValues

\* What is left of the budget is what the parts so far have not spent.
Budgeted(c) ==
  /\ pc[c] \in Unmapped => left[c] = MaxValues
  /\ pc[c] = "entries" => left[c] + Total(c, Len(made[c])) = MaxValues
  /\ made[c] # << >> /\ Mapped(c) # Nil => Total(c, Len(made[c])) <= MaxValues
  /\ pc[c] = "done" /\ outcome[c] = "mapping" => Cause(c)

LEMMA ResolveDefaultsBudget ==
  ASSUME GateInv, NEW c \in Call, ResolveDefaults(c), Budgeted(c)
  PROVE  Budgeted(c)'
<1> USE DEF GateInv
<1> DEFINE t == Mapped(c).top
<1>1. /\ pc[c] = "mapping" /\ Mapped(c) \in Declaration /\ Args(c) \in Arguments
      /\ left[c] = MaxValues /\ made[c] = << >> /\ MaxValues \in Nat
  BY CallFacts, MappingAssumption DEF ResolveDefaults, Budgeted, Drafted, Unmapped
<1>2. Len(EntriesOf(c)) \in Nat
  BY <1>1, EntriesType DEF EntriesOf
<1>3. /\ Total(c, 0) = Spends(t, Args(c)) /\ Total(c, 0) \in Nat
      /\ Total(c, Len(EntriesOf(c))) \in Nat /\ Total(c, 0) <= Total(c, Len(EntriesOf(c)))
  <2>1. 0 \in 0 .. Len(EntriesOf(c)) /\ Len(EntriesOf(c)) \in 0 .. Len(EntriesOf(c))
    BY <1>2
  <2> QED
    BY <1>1, <2>1, TotalGrows
<1>4. /\ call' = call /\ input' = input /\ gone' = gone /\ made' = made
  BY DEF ResolveDefaults, Refuse, Finish, GoTo
<1>5. /\ Mapped(c)' = Mapped(c) /\ \A n : Total(c, n)' = Total(c, n)
      /\ Cause(c)' = Cause(c)
  BY <1>4 DEF Mapped, Total, EntriesOf, Args, Cause, Alone, VerifiedOf, Leaf
<1>6. CASE ResolutionFails(c, t)
  <2>1. pc'[c] = "done" /\ outcome'[c] = "mapping" /\ left' = left
    BY <1>6 DEF ResolveDefaults, Refuse, Finish, GateTypeOK, CallTypes
  <2>2. Cause(c)
    <3>1. CASE Spends(t, Args(c)) > left[c]
      BY <1>1, <1>3, <3>1 DEF Cause
    <3>2. CASE Fails(t, Args(c)) \/ c \in gone
      BY <3>2 DEF Cause
    <3> QED
      BY <1>6, <3>1, <3>2 DEF ResolutionFails
  <2> QED
    BY <1>1, <1>4, <1>5, <2>1, <2>2 DEF Budgeted, Unmapped
<1>7. CASE ~ ResolutionFails(c, t)
  <2>1. pc'[c] = "entries" /\ left'[c] = left[c] - Spends(t, Args(c))
    BY <1>7 DEF ResolveDefaults, GoTo, GateTypeOK
  <2>2. Len(made'[c]) = 0 /\ made'[c] = << >>
    BY <1>1, <1>4
  <2>3. left'[c] + Total(c, 0) = MaxValues
    BY <1>1, <1>3, <2>1
  <2>4. Total(c, Len(made[c]))' = Total(c, 0)
    BY <1>5, <2>2
  <2> QED
    BY <2>1, <2>2, <2>3, <2>4 DEF Budgeted, Unmapped
<1> QED
  BY <1>6, <1>7

LEMMA ConstructBudget ==
  ASSUME GateInv, NEW c \in Call, Construct(c), Budgeted(c)
  PROVE  Budgeted(c)'
<1> USE DEF GateInv
<1> DEFINE n == Len(made[c])  t == EntryAt(c)
<1>1. /\ pc[c] = "entries" /\ Mapped(c) \in Declaration /\ Args(c) \in Arguments
      /\ MaxValues \in Nat /\ left[c] \in 0 .. MaxValues
  BY CallFacts, MappingAssumption DEF Construct, Placed, GateTypeOK
<1>2. /\ Len(EntriesOf(c)) \in Nat /\ DOMAIN EntriesOf(c) = 1 .. Len(EntriesOf(c))
  BY <1>1, EntriesType DEF EntriesOf
<1>3. n \in Nat /\ n < Len(EntriesOf(c)) /\ n + 1 \in 1 .. Len(EntriesOf(c)) /\ t = EntriesOf(c)[n + 1]
  <2>1. made[c] \in Seq(Requested)
    BY DEF GateTypeOK
  <2>2. n \in Nat
    BY <2>1
  <2>3. n < Len(EntriesOf(c))
    BY <1>1 DEF Drafted
  <2> QED
    BY <1>2, <2>2, <2>3 DEF EntryAt
<1>4. /\ Total(c, n) \in Nat /\ Total(c, n + 1) \in Nat /\ Total(c, Len(EntriesOf(c))) \in Nat
      /\ Total(c, n + 1) = Total(c, n) + Spends(t, Args(c))
      /\ Total(c, n + 1) <= Total(c, Len(EntriesOf(c)))
      /\ left[c] + Total(c, n) = MaxValues
  <2>1. /\ n \in 0 .. Len(EntriesOf(c)) /\ n + 1 \in 0 .. Len(EntriesOf(c)) /\ (n + 1) - 1 = n /\ n + 1 > 0
        /\ Len(EntriesOf(c)) \in 0 .. Len(EntriesOf(c))
    BY <1>2, <1>3
  <2>2. Total(c, n) \in Nat
    BY <1>1, <2>1, TotalGrows
  <2>3. Total(c, n + 1) \in Nat /\ Total(c, n + 1) = Total(c, n) + Spends(t, Args(c))
    <3>1. Total(c, n + 1) = Total(c, (n + 1) - 1) + Spends(EntriesOf(c)[n + 1], Args(c))
      BY <1>1, <2>1, TotalGrows
    <3> QED
      BY <1>1, <1>3, <2>1, <3>1, TotalGrows
  <2>4. Total(c, Len(EntriesOf(c))) \in Nat /\ Total(c, n + 1) <= Total(c, Len(EntriesOf(c)))
    BY <1>1, <2>1, TotalGrows
  <2> QED
    BY <1>1, <2>2, <2>3, <2>4 DEF Budgeted
<1>5. /\ call' = call /\ input' = input /\ gone' = gone
  BY DEF Construct, Constructed, Refuse, Finish, GoTo
<1>6. /\ Mapped(c)' = Mapped(c) /\ \A m : Total(c, m)' = Total(c, m)
      /\ Cause(c)' = Cause(c)
  BY <1>5 DEF Mapped, Total, EntriesOf, Args, Cause, Alone, VerifiedOf, Leaf
<1>7. CASE ResolutionFails(c, t) \/ ~ Anchors(Fields(c, t), VerifiedOf(c))
  <2>1. pc'[c] = "done" /\ outcome'[c] = "mapping" /\ made' = made
    BY <1>7 DEF Construct, Refuse, Finish, GateTypeOK, CallTypes
  <2>2. Fields(c, t) = Alone(c, t)
    BY <1>1 DEF Fields, Alone, Drafted
  <2>3. Cause(c)
    <3>1. CASE Spends(t, Args(c)) > left[c]
      <4> DEFINE a == Total(c, n)  b == Total(c, n + 1)  z == Total(c, Len(EntriesOf(c)))
                 x == Spends(t, Args(c))
      <4>1. a \in Nat /\ b \in Nat /\ z \in Nat /\ b = a + x /\ b <= z
            /\ left[c] + a = MaxValues /\ x > left[c] /\ left[c] \in Nat
        BY <1>1, <1>4, <3>1
      <4>2. x \in Int
        BY <1>1, <1>2, <1>3, EntriesType, SpendsType DEF EntriesOf
      <4> HIDE DEF a, b, z, x
      <4>3. z > MaxValues
        BY <1>1, <4>1, <4>2
      <4> QED
        BY <4>3 DEF Cause, z
    <3>2. CASE Fails(t, Args(c)) \/ c \in gone
      BY <1>2, <1>3, <3>2 DEF Cause
    <3>3. CASE ~ Anchors(Fields(c, t), VerifiedOf(c))
      BY <1>2, <1>3, <2>2, <3>3 DEF Cause
    <3> QED
      BY <1>7, <3>1, <3>2, <3>3 DEF ResolutionFails
  <2>4. made[c] # << >> => Total(c, n) <= MaxValues
    BY <1>1, <1>4
  <2> QED
    BY <1>6, <2>1, <2>3, <2>4 DEF Budgeted, Unmapped
<1>8. CASE ~ ResolutionFails(c, t) /\ Anchors(Fields(c, t), VerifiedOf(c))
  <2> DEFINE x == Spends(t, Args(c))
  <2>1. /\ Constructed(c, Anchored(Fields(c, t), VerifiedOf(c), call[c].chain))
        /\ left' = [left EXCEPT ![c] = left[c] - x]
    BY <1>8 DEF Construct
  <2>2. /\ pc'[c] \in {"entries", "policy"} /\ left'[c] = left[c] - x
        /\ Len(made'[c]) = n + 1
    BY <2>1 DEF Constructed, GoTo, GateTypeOK
  <2>3. x \in Nat /\ x <= left[c]
    <3>1. x \in Nat
      BY <1>1, <1>2, <1>3, EntriesType, SpendsType DEF EntriesOf
    <3>2. ~ (x > left[c])
      BY <1>8 DEF ResolutionFails
    <3> QED
      BY <1>1, <3>1, <3>2
  <2>4. Total(c, n + 1) <= MaxValues /\ left'[c] + Total(c, n + 1) = MaxValues
    <3> DEFINE a == Total(c, n)  b == Total(c, n + 1)  l == left'[c]  k == left[c]
    <3>1. a \in Nat /\ b \in Nat /\ b = a + x /\ k + a = MaxValues /\ k \in Nat /\ l = k - x
      BY <1>1, <1>4, <2>2
    <3> HIDE DEF a, b, l, k, x
    <3>2. b <= MaxValues /\ l + b = MaxValues
      BY <1>1, <2>3, <3>1 DEF k
    <3> QED
      BY <3>2 DEF a, b, l, k
  <2>5. Total(c, Len(made[c]))' = Total(c, n + 1)
    BY <1>6, <2>2
  <2> QED
    BY <2>2, <2>4, <2>5 DEF Budgeted, Unmapped
<1> QED
  BY <1>7, <1>8

\* The other steps of a call resolve nothing.
LEMMA OtherBudget ==
  ASSUME GateInv, NEW c \in Call, Budgeted(c),
         (\E i \in Offered : Receive(c, i)) \/ (Serve(c) /\ ~ ResolveDefaults(c) /\ ~ Construct(c))
  PROVE  Budgeted(c)'
<1> USE DEF GateInv
<1>1. pc \in [Call -> {"idle", "verify", "catalog", "permits", "mapping", "entries", "policy", "asked",
                       "sequence", "done", "closed"}]
      /\ outcome \in [Call -> Outcomes] /\ left \in [Call -> 0 .. MaxValues]
      /\ made \in [Call -> Seq(Requested)]
  BY DEF GateTypeOK, CallTypes
<1>2. pc[c] \in Unmapped => made[c] = << >> /\ left[c] = MaxValues
  BY DEF Drafted, Budgeted
<1> HIDE DEF GateInv
<1>3. CASE /\ pc[c] \in Unmapped /\ left' = left /\ made' = made
           /\ pc'[c] \in Unmapped \/ (pc'[c] = "done" /\ outcome'[c] # "mapping")
  BY <1>2, <1>3 DEF Budgeted, Unmapped
<1>4. CASE /\ call' = call /\ input' = input /\ left' = left /\ made' = made
           /\ pc'[c] \in {"policy", "asked", "sequence", "done"}
           /\ pc'[c] = "done" => outcome'[c] # "mapping"
  <2>1. Mapped(c)' = Mapped(c) /\ Total(c, Len(made[c]))' = Total(c, Len(made[c]))
    BY <1>4 DEF Mapped, Total, EntriesOf, Args
  <2> QED
    BY <1>4, <2>1 DEF Budgeted, Unmapped
<1>5. ASSUME NEW i \in Offered, Receive(c, i) PROVE Budgeted(c)'
  <2>1. /\ pc[c] \in Unmapped /\ left' = left /\ made' = made
        /\ pc'[c] \in Unmapped
    <3>1. pc[c] = "idle" /\ left' = left /\ made' = made
      BY <1>5 DEF Receive
    <3>2. pc'[c] \in {"verify", "closed"}
      BY <1>1, <1>5 DEF Receive, Authorize
    <3> QED
      BY <3>1, <3>2 DEF Unmapped
  <2> QED
    BY <1>3, <2>1
<1>6. CASE Checks(c) \/ LookUp(c)
  <2>1. /\ pc[c] \in Unmapped /\ left' = left /\ made' = made
        /\ pc'[c] \in Unmapped \/ (pc'[c] = "done" /\ outcome'[c] # "mapping")
    <3>1. pc[c] \in Unmapped /\ left' = left /\ made' = made
      BY <1>6 DEF Checks, NoTool, Verify, Permit, LookUp, Describe, Unmapped
    <3>2. \/ GoTo(c, "catalog") \/ GoTo(c, "permits") \/ GoTo(c, "mapping")
          \/ Finish(c, "verify") \/ Finish(c, "catalog") \/ Finish(c, "permits")
      BY <1>6 DEF Checks, NoTool, Verify, Permit, LookUp, Describe, Refuse
    <3> QED
      BY <1>1, <3>1, <3>2 DEF GoTo, Finish, Unmapped
  <2> QED
    BY <1>3, <2>1
<1>7. CASE DefaultMapping(c)
  <2>1. /\ pc'[c] = "policy" /\ Mapped(c)' = Nil /\ left' = left
    BY <1>1, <1>7 DEF DefaultMapping, GoTo, Mapped
  <2> QED
    BY <2>1 DEF Budgeted, Unmapped
<1>8. CASE Send(c) \/ Allowed(c) \/ Unallowed(c)
  <2>1. /\ call' = call /\ input' = input /\ left' = left /\ made' = made
        /\ pc'[c] \in {"policy", "asked", "sequence", "done"}
        /\ pc'[c] = "done" => outcome'[c] # "mapping"
    <3>1. CASE Send(c) \/ Allowed(c)
      BY <1>1, <3>1 DEF Send, Allowed, GoTo
    <3>2. CASE Unallowed(c)
      BY <1>1, <3>2 DEF Unallowed, Refuse, Finish
    <3> QED
      BY <1>8, <3>1, <3>2
  <2> QED
    BY <1>4, <2>1
<1>9. CASE Admission(c)
  <2>1. /\ call' = call /\ input' = input /\ left' = left /\ made' = made
        /\ pc'[c] = "done" /\ outcome'[c] # "mapping"
    <3>1. /\ call' = call /\ input' = input /\ left' = left /\ made' = made
          /\ Finish(c, "authorized") \/ Finish(c, "sequence")
      BY <1>9 DEF Admission, AdmitUnconstrained, Admit, RefuseSequence, Refuse, Finish
    <3> QED
      BY <1>1, <3>1 DEF Finish
  <2> QED
    BY <1>4, <2>1
<1>10. CASE Reply(c)
  BY <1>1, <1>10 DEF Reply, Budgeted, Unmapped
<1> QED
  BY <1>5, <1>6, <1>7, <1>8, <1>9, <1>10 DEF Serve

\* What a call holds of its budget, nobody else touches.
LEMMA SameBudget ==
  ASSUME NEW d \in Call, Same(d), left'[d] = left[d], d \in gone => d \in gone', Budgeted(d)
  PROVE  Budgeted(d)'
<1>1. /\ Mapped(d)' = Mapped(d) /\ \A n : Total(d, n)' = Total(d, n)
      /\ EntriesOf(d)' = EntriesOf(d) /\ Args(d)' = Args(d) /\ VerifiedOf(d)' = VerifiedOf(d)
  BY DEF Same, Mapped, Total, EntriesOf, Args, VerifiedOf, Leaf
<1>2. Cause(d) => Cause(d)'
  BY <1>1 DEF Cause, Alone
<1> QED
  BY <1>1, <1>2 DEF Same, Budgeted

LEMMA NextBudget ==
  ASSUME GateInv, \A c \in Call : Budgeted(c), [GateNext]_gateVars
  PROVE  \A c \in Call : Budgeted(c)'
<1>1. ASSUME NEW c \in Call, (\E i \in Offered : Receive(c, i)) \/ Serve(c), NEW d \in Call
      PROVE  Budgeted(d)'
  <2>1. CASE d = c
    BY <1>1, <2>1, ResolveDefaultsBudget, ConstructBudget, OtherBudget
  <2>2. CASE d # c
    <3>1. left'[d] = left[d] /\ (d \in gone => d \in gone')
      BY <1>1, <2>2 DEF GateInv, GateTypeOK, Serve, Receive, Checks, LookUp, DefaultMapping, ResolveDefaults,
         Construct, Send, Allowed, Unallowed, Admission, Reply
    <3> QED
      BY <1>1, <2>2, <3>1, OthersSame, SameBudget
  <2> QED
    BY <2>1, <2>2
<1>2. ASSUME (\E c \in Call : Allow(c) \/ HangUp(c)) \/ World \/ UNCHANGED gateVars, NEW d \in Call
      PROVE  Budgeted(d)'
  <2>1. left'[d] = left[d] /\ (d \in gone => d \in gone')
    BY <1>2 DEF Allow, HangUp, World
  <2> QED
    BY <1>2, <2>1, NobodysStep, SameBudget
<1> QED
  BY <1>1, <1>2 DEF GateNext

LEMMA BudgetInvariance == GateSpec => [](\A c \in Call : Budgeted(c))
<1>1. GateInit => \A c \in Call : Budgeted(c)
  BY DEF GateInit, Init, Budgeted, Unmapped
<1>2. GateInv /\ (\A c \in Call : Budgeted(c)) /\ [GateNext]_gateVars => (\A c \in Call : Budgeted(c))'
  BY NextBudget
<1> QED
  BY <1>1, <1>2, GateInvariance, PTL DEF GateSpec

\* The budget bounds what all requests of a call hold together
\* (declared.go:36-47, 490-510).
THEOREM BudgetBounds == GateSpec => []ResolvedWithinBudget
<1>1. (\A c \in Call : Budgeted(c)) => ResolvedWithinBudget
  BY DEF Budgeted, ResolvedWithinBudget
<1> QED
  BY <1>1, BudgetInvariance, PTL

\* A mapping is refused for what is wrong with a part of it, or with all of it,
\* or because its caller left (declared.go:236-279, 431-441).
THEOREM RefusedForCause == GateSpec => []MappingRefusedForCause
<1>1. (\A c \in Call : Budgeted(c)) => MappingRefusedForCause
  BY DEF Budgeted, Cause, MappingRefusedForCause
<1> QED
  BY <1>1, BudgetInvariance, PTL

-----------------------------------------------------------------------------
(****************************************************************************)
(* What is forwarded is spent, once.                                        *)
(****************************************************************************)
Credited(c) == \E r \in Roots : \E i \in DOMAIN history[r] : history[r][i].call = c

OnceEach ==
  \A r, q \in Roots : \A i \in DOMAIN history[r], j \in DOMAIN history[q] :
    history[r][i].call = history[q][j].call => r = q /\ i = j

Ledger(c) ==
  /\ Credited(c) <=> (outcome[c] = "authorized" /\ Leaf(c).seq # Nil)
  /\ pc[c] = "idle" => call[c].chain = << >>
  /\ outcome[c] # "none" => call[c].chain # << >>
  /\ pc[c] = "closed" /\ outcome[c] = "none" => call[c].chain = << >>
  /\ pc[c] = "closed" /\ outcome[c] # "none" => (reply[c] = "forwarded" <=> outcome[c] = "authorized")

Books == history \in [Roots -> Seq(Entry)] /\ OnceEach /\ \A c \in Call : Ledger(c)

\* A call that is admitted is written down, and was not before.
LEMMA AdmitBooks ==
  ASSUME GateInv, Books, NEW c \in Call, Admission(c), Admit(c)
  PROVE  Books'
<1> USE DEF GateInv
<1> DEFINE r == RootId(c)  n == Len(history[r]) + 1
           e == [call |-> c, seq |-> Leaf(c).seq, action |-> ActionOf(c)]
<1>1. /\ pc[c] = "sequence" /\ Leaf(c).seq # Nil
      /\ pc' = [pc EXCEPT ![c] = "done"] /\ outcome' = [outcome EXCEPT ![c] = "authorized"]
      /\ history' = [history EXCEPT ![r] = Append(@, e)]
      /\ call' = call /\ reply' = reply
  BY DEF Admission, Admit, Recorded, Finish
<1>2. /\ call[c].chain \in Presented \ {<< >>} /\ outcome[c] = "none"
  BY <1>1 DEF Placed
<1>3. r \in Roots /\ Leaf(c).seq \in Sequence
  <2>1. Leaf(c) \in Claims(Principal, Id)
    BY <1>2, ChainType, EnforcerAssumption DEF Leaf
  <2>2. Leaf(c).seq \in Sequence \cup {Nil}
    BY <2>1 DEF Claims
  <2> QED
    BY <1>1, <1>2, <2>2 DEF RootId, Roots
<1>4. e \in Entry
  <2>1. facts[c].tags \in SUBSET Tag
    BY DEF CallTypes, Facts
  <2>2. ActionOf(c) \in Action
    BY <2>1, EnforcerAssumption DEF ActionOf, Action
  <2> QED
    BY <1>3, <2>2 DEF Entry
<1>5. /\ history[r] \in Seq(Entry) /\ Len(history[r]) \in Nat /\ DOMAIN history[r] = 1 .. Len(history[r])
      /\ Append(history[r], e) \in Seq(Entry) /\ DOMAIN Append(history[r], e) = 1 .. n
      /\ Append(history[r], e)[n] = e
      /\ \A i \in 1 .. Len(history[r]) : Append(history[r], e)[i] = history[r][i]
  <2> HIDE DEF e, r
  <2>1. history[r] \in Seq(Entry)
    BY <1>3 DEF Books
  <2> QED
    BY <1>4, <2>1
<1>6. /\ history' \in [Roots -> Seq(Entry)] /\ history'[r] = Append(history[r], e)
      /\ \A q \in Roots \ {r} : history'[q] = history[q]
  <2> DEFINE h == Append(history[r], e)
  <2>1. h \in Seq(Entry) /\ history' = [history EXCEPT ![r] = h] /\ history \in [Roots -> Seq(Entry)]
    BY <1>1, <1>5 DEF Books
  <2> HIDE DEF h, r
  <2> QED
    BY <1>3, <2>1 DEF h
<1>7. ~ Credited(c)
  BY <1>2 DEF Books, Ledger
<1>8. ASSUME NEW q \in Roots, NEW i \in DOMAIN history'[q]
      PROVE  \/ q = r /\ i = n /\ history'[q][i].call = c
             \/ i \in DOMAIN history[q] /\ history'[q][i] = history[q][i] /\ history'[q][i].call # c
  <2>1. CASE q = r /\ i = n
    BY <1>5, <1>6, <2>1
  <2>2. CASE ~ (q = r /\ i = n)
    <3>1. i \in DOMAIN history[q] /\ history'[q][i] = history[q][i]
      <4>1. CASE q = r
        <5>1. i \in 1 .. n /\ i # n
          BY <1>5, <1>6, <1>8, <2>2, <4>1
        <5>2. i \in 1 .. Len(history[r])
          BY <1>5, <5>1
        <5> QED
          BY <1>5, <1>6, <4>1, <5>2
      <4>2. CASE q # r
        BY <1>6, <1>8, <4>2
      <4> QED
        BY <4>1, <4>2
    <3> QED
      BY <1>7, <3>1 DEF Credited
  <2> QED
    BY <2>1, <2>2
<1> HIDE DEF GateInv, r, n, e
<1>9. OnceEach'
  <2> SUFFICES ASSUME NEW p \in Roots, NEW q \in Roots, NEW i \in DOMAIN history'[p], NEW j \in DOMAIN history'[q],
                      history'[p][i].call = history'[q][j].call
               PROVE  p = q /\ i = j
    BY DEF OnceEach
  <2>1. \/ p = r /\ i = n /\ history'[p][i].call = c
        \/ i \in DOMAIN history[p] /\ history'[p][i] = history[p][i] /\ history'[p][i].call # c
    BY <1>8
  <2>2. \/ q = r /\ j = n /\ history'[q][j].call = c
        \/ j \in DOMAIN history[q] /\ history'[q][j] = history[q][j] /\ history'[q][j].call # c
    BY <1>8
  <2> QED
    BY <2>1, <2>2 DEF Books, OnceEach
<1>10. Credited(c)'
  <2>1. n \in DOMAIN history'[r] /\ history'[r][n].call = c
    BY <1>5, <1>6 DEF e, n
  <2> QED
    BY <1>3, <2>1 DEF Credited
<1>11. ASSUME NEW d \in Call, d # c PROVE Credited(d)' <=> Credited(d)
  <2>1. ASSUME NEW q \in Roots, NEW i \in DOMAIN history'[q], history'[q][i].call = d
        PROVE  i \in DOMAIN history[q] /\ history[q][i].call = d
    BY <1>8, <1>11, <2>1
  <2>2. ASSUME NEW q \in Roots, NEW i \in DOMAIN history[q], history[q][i].call = d
        PROVE  i \in DOMAIN history'[q] /\ history'[q][i].call = d
    <3>1. CASE q = r
      <4>1. i \in 1 .. Len(history[r]) /\ i \in 1 .. n
        BY <1>5, <2>2, <3>1 DEF n
      <4> QED
        BY <1>5, <1>6, <2>2, <3>1, <4>1
    <3>2. CASE q # r
      BY <1>6, <2>2, <3>2
    <3> QED
      BY <3>1, <3>2
  <2> QED
    BY <2>1, <2>2 DEF Credited
<1>12. ASSUME NEW d \in Call PROVE Ledger(d)'
  <2>1. pc \in [Call -> {"idle", "verify", "catalog", "permits", "mapping", "entries", "policy", "asked",
                         "sequence", "done", "closed"}] /\ outcome \in [Call -> Outcomes]
    BY DEF GateInv, GateTypeOK, CallTypes
  <2>2. Leaf(d)' = Leaf(d) /\ call'[d] = call[d] /\ reply'[d] = reply[d]
    BY <1>1 DEF Leaf
  <2>3. CASE d = c
    <3>1. pc'[c] = "done" /\ outcome'[c] = "authorized"
      BY <1>1, <2>1
    <3> QED
      BY <1>1, <1>2, <1>10, <2>2, <2>3, <3>1 DEF Ledger
  <2>4. CASE d # c
    <3>1. pc'[d] = pc[d] /\ outcome'[d] = outcome[d]
      BY <1>1, <2>1, <2>4
    <3> QED
      BY <1>11, <2>2, <2>4, <3>1 DEF Ledger, Books
  <2> QED
    BY <2>3, <2>4
<1> QED
  BY <1>6, <1>9, <1>12 DEF Books

\* No other step writes a call down, or authorizes one that has to be.
LEMMA OtherBooks ==
  ASSUME GateInv, NEW c \in Call, Ledger(c),
         (\E i \in Offered : Receive(c, i)) \/ (Serve(c) /\ ~ (Admission(c) /\ Admit(c)))
  PROVE  history' = history /\ Ledger(c)'
<1> USE DEF GateInv
<1>1. pc \in [Call -> {"idle", "verify", "catalog", "permits", "mapping", "entries", "policy", "asked",
                       "sequence", "done", "closed"}]
      /\ outcome \in [Call -> Outcomes] /\ reply \in [Call -> {"none", "refused", "forwarded"}]
      /\ call \in [Call -> [chain : Seq(Claims(Principal, Id)), tool : Str]]
  BY DEF GateTypeOK, CallTypes
<1>2. Placed(c)
  OBVIOUS
<1> HIDE DEF GateInv
\* On its way through the checks a call is not yet authorized.
<1>3. CASE /\ pc[c] \notin {"idle", "done", "closed"} /\ call' = call /\ history' = history
           /\ pc'[c] \notin {"idle", "closed"}
           /\ outcome'[c] = "authorized" => Leaf(c).seq = Nil
  <2>1. outcome[c] = "none" /\ call[c].chain # << >> /\ ~ Credited(c)
    BY <1>2, <1>3 DEF Placed, Ledger
  <2>2. ~ Credited(c)' /\ Leaf(c)' = Leaf(c) /\ call'[c] = call[c]
    BY <1>3, <2>1 DEF Credited, Leaf
  <2> QED
    BY <1>3, <2>1, <2>2 DEF Ledger
<1>4. ASSUME NEW i \in Offered, Receive(c, i) PROVE history' = history /\ Ledger(c)'
  <2>1. /\ pc[c] = "idle" /\ outcome[c] = "none" /\ call[c].chain = << >> /\ ~ Credited(c)
        /\ history' = history /\ outcome' = outcome
    BY <1>2, <1>4 DEF Receive, Authorize, Placed, Ledger
  <2>2. ~ Credited(c)'
    BY <2>1 DEF Credited
  <2>3. CASE i.kind = "call"
    <3>1. pc'[c] = "verify"
      BY <1>1, <1>4, <2>3 DEF Receive, Authorize
    <3> QED
      BY <2>1, <2>2, <3>1 DEF Ledger
  <2>4. CASE i.kind # "call"
    <3>1. pc'[c] = "closed" /\ call' = call
      BY <1>1, <1>4, <2>4 DEF Receive
    <3> QED
      BY <2>1, <2>2, <3>1 DEF Ledger
  <2> QED
    BY <2>3, <2>4
<1>5. CASE Checks(c) \/ LookUp(c) \/ DefaultMapping(c)
  <2>1. /\ pc[c] \notin {"idle", "done", "closed"} /\ call' = call /\ history' = history
    BY <1>5 DEF Checks, NoTool, Verify, Permit, LookUp, Describe, DefaultMapping, Refuse, Finish, GoTo
  <2>2. \/ GoTo(c, "catalog") \/ GoTo(c, "permits") \/ GoTo(c, "mapping") \/ GoTo(c, "policy")
        \/ Finish(c, "verify") \/ Finish(c, "catalog") \/ Finish(c, "permits")
    BY <1>5 DEF Checks, NoTool, Verify, Permit, LookUp, Describe, DefaultMapping, Refuse
  <2>3. pc'[c] \notin {"idle", "closed"} /\ outcome'[c] # "authorized"
    <3>1. outcome[c] = "none"
      BY <1>2, <2>1 DEF Placed
    <3> QED
      BY <1>1, <2>2, <3>1 DEF GoTo, Finish
  <2> QED
    BY <1>3, <2>1, <2>3
<1>6. CASE ResolveDefaults(c) \/ Construct(c)
  <2>1. /\ pc[c] \notin {"idle", "done", "closed"} /\ call' = call /\ history' = history
    BY <1>6 DEF ResolveDefaults, Construct, Constructed, Refuse, Finish, GoTo
  <2>2. GoTo(c, "entries") \/ GoTo(c, "policy") \/ Finish(c, "mapping")
    BY <1>6 DEF ResolveDefaults, Construct, Constructed, Refuse
  <2>3. pc'[c] \notin {"idle", "closed"} /\ outcome'[c] # "authorized"
    <3>1. outcome[c] = "none"
      BY <1>2, <2>1 DEF Placed
    <3> QED
      BY <1>1, <2>2, <3>1 DEF GoTo, Finish
  <2> QED
    BY <1>3, <2>1, <2>3
<1>7. CASE Send(c) \/ Allowed(c) \/ Unallowed(c)
  <2>1. /\ pc[c] \notin {"idle", "done", "closed"} /\ call' = call /\ history' = history
    BY <1>7 DEF Send, Allowed, Unallowed, Refuse, Finish, GoTo
  <2>2. GoTo(c, "asked") \/ GoTo(c, "sequence") \/ GoTo(c, "policy") \/ Finish(c, "policy")
    BY <1>7 DEF Send, Allowed, Unallowed, Refuse
  <2>3. pc'[c] \notin {"idle", "closed"} /\ outcome'[c] # "authorized"
    <3>1. outcome[c] = "none"
      BY <1>2, <2>1 DEF Placed
    <3> QED
      BY <1>1, <2>2, <3>1 DEF GoTo, Finish
  <2> QED
    BY <1>3, <2>1, <2>3
<1>8. CASE Admission(c) /\ ~ Admit(c)
  <2>1. /\ pc[c] \notin {"idle", "done", "closed"} /\ call' = call /\ history' = history
        /\ (Finish(c, "authorized") /\ Leaf(c).seq = Nil) \/ Finish(c, "sequence")
    BY <1>8 DEF Admission, AdmitUnconstrained, RefuseSequence, Refuse, Finish
  <2>2. pc'[c] \notin {"idle", "closed"} /\ (outcome'[c] = "authorized" => Leaf(c).seq = Nil)
    BY <1>1, <2>1 DEF Finish
  <2> QED
    BY <1>3, <2>1, <2>2
<1>9. CASE Reply(c)
  <2>1. /\ history' = history /\ call' = call /\ outcome' = outcome /\ pc[c] = "done"
        /\ pc'[c] = "closed"
        /\ reply'[c] = IF outcome[c] = "authorized" THEN "forwarded" ELSE "refused"
    BY <1>1, <1>9 DEF Reply
  <2>2. outcome[c] # "none" /\ call[c].chain # << >>
    BY <1>2, <2>1 DEF Placed
  <2>3. (Credited(c)' <=> Credited(c)) /\ Leaf(c)' = Leaf(c)
    BY <2>1 DEF Credited, Leaf
  <2> QED
    BY <2>1, <2>2, <2>3 DEF Ledger
<1> QED
  BY <1>4, <1>5, <1>6, <1>7, <1>8, <1>9 DEF Serve

LEMMA NextBooks ==
  ASSUME GateInv, Books, [GateNext]_gateVars
  PROVE  Books'
<1>1. ASSUME NEW c \in Call,
             (\E i \in Offered : Receive(c, i)) \/ (Serve(c) /\ ~ (Admission(c) /\ Admit(c)))
      PROVE  Books'
  <2>1. history' = history /\ Ledger(c)'
    BY <1>1, OtherBooks DEF Books
  <2>2. ASSUME NEW d \in Call, d # c PROVE Ledger(d)'
    <3>1. Same(d) /\ reply'[d] = reply[d]
      <4>1. reply'[d] = reply[d]
        BY <1>1, <2>2 DEF GateInv, GateTypeOK, Serve, Receive, Checks, LookUp, DefaultMapping, ResolveDefaults,
           Construct, Send, Allowed, Unallowed, Admission, Reply
      <4> QED
        BY <1>1, <2>2, <4>1, OthersSame
    <3>2. Leaf(d)' = Leaf(d) /\ (Credited(d)' <=> Credited(d))
      BY <2>1, <3>1 DEF Same, Leaf, Credited
    <3> QED
      BY <3>1, <3>2 DEF Books, Same, Ledger
  <2> QED
    BY <2>1, <2>2 DEF Books, OnceEach
<1>2. ASSUME NEW c \in Call, Admission(c), Admit(c) PROVE Books'
  BY <1>2, AdmitBooks
<1>3. ASSUME (\E c \in Call : Allow(c) \/ HangUp(c)) \/ World \/ UNCHANGED gateVars
      PROVE  Books'
  <2>1. UNCHANGED <<history, call, outcome, pc, reply>>
    BY <1>3 DEF Allow, HangUp, World, Tick, Revoke, Forget
  <2>2. ASSUME NEW d \in Call PROVE Ledger(d)'
    <3>1. Leaf(d)' = Leaf(d) /\ (Credited(d)' <=> Credited(d))
      BY <2>1 DEF Leaf, Credited
    <3> QED
      BY <2>1, <3>1 DEF Books, Ledger
  <2> QED
    BY <2>1, <2>2 DEF Books, OnceEach
<1> QED
  BY <1>1, <1>2, <1>3 DEF GateNext

LEMMA BooksInvariance == GateSpec => []Books
<1>1. GateInit => Books
  BY DEF GateInit, Init, Books, OnceEach, Ledger, Credited, NoCall
<1> QED
  BY <1>1, NextBooks, GateInvariance, PTL DEF GateSpec

\* A history is no longer than there are calls.
LEMMA HistoriesAreShort ==
  ASSUME Books, IsFiniteSet(Call), NEW r \in Roots
  PROVE  DOMAIN history[r] \subseteq 1 .. Cardinality(Call)
<1> DEFINE n == Len(history[r])  f == [i \in 1 .. n |-> history[r][i].call]
<1>1. history[r] \in Seq(Entry)
  BY DEF Books
<1>2. n \in Nat /\ DOMAIN history[r] = 1 .. n /\ \A i \in 1 .. n : history[r][i].call \in Call
  <2>1. \A h \in Seq(Entry) : /\ Len(h) \in Nat /\ DOMAIN h = 1 .. Len(h)
                             /\ \A i \in 1 .. Len(h) : h[i] \in Entry
    OBVIOUS
  <2> QED
    BY <1>1, <2>1 DEF Entry
<1>3. f \in Injection(1 .. n, Call)
  BY <1>2 DEF Injection, Books, OnceEach, IsInjective
<1>4. Cardinality(1 .. n) <= Cardinality(Call) /\ Cardinality(Call) \in Nat
  <2> HIDE DEF f, n
  <2> QED
    BY <1>3, FS_Injection, FS_CardinalityType
<1>5. Cardinality(1 .. n) = n
  BY <1>2, FS_Interval
<1> QED
  BY <1>2, <1>4, <1>5

\* A call that reached the server is in the history exactly once if its chain
\* carries a sequence, and one that was refused is not in it (http.go:86-131,
\* mcp.go:351-363).
THEOREM ForwardsAreSpentOnce == IsFiniteSet(Call) => (GateSpec => []OneSpendPerForward)
<1> SUFFICES ASSUME IsFiniteSet(Call) PROVE GateSpec => []OneSpendPerForward
  OBVIOUS
<1>1. Books => OneSpendPerForward
  <2> SUFFICES ASSUME Books, NEW c \in Call, pc[c] = "closed"
               PROVE  Cardinality({x \in Roots \X (1 .. Cardinality(Call)) :
                                     x[2] \in DOMAIN history[x[1]] /\ history[x[1]][x[2]].call = c})
                        = IF reply[c] = "forwarded" /\ call[c].chain # << >> /\ Leaf(c).seq # Nil THEN 1 ELSE 0
    BY DEF OneSpendPerForward
  <2> DEFINE S == {x \in Roots \X (1 .. Cardinality(Call)) :
                     x[2] \in DOMAIN history[x[1]] /\ history[x[1]][x[2]].call = c}
  <2>1. CASE Credited(c)
    <3>1. reply[c] = "forwarded" /\ call[c].chain # << >> /\ Leaf(c).seq # Nil
      BY <2>1 DEF Books, Ledger
    <3>2. PICK r \in Roots : \E i \in DOMAIN history[r] : history[r][i].call = c
      BY <2>1 DEF Credited
    <3>3. PICK i \in DOMAIN history[r] : history[r][i].call = c
      BY <3>2
    <3>4. <<r, i>> \in S
      BY <3>3, HistoriesAreShort
    <3>5. ASSUME NEW x \in S PROVE x = <<r, i>>
      <4>1. x[1] \in Roots /\ x[2] \in DOMAIN history[x[1]] /\ history[x[1]][x[2]].call = c /\ x = <<x[1], x[2]>>
        OBVIOUS
      <4>2. x[1] = r /\ x[2] = i
        BY <3>3, <4>1 DEF Books, OnceEach
      <4> QED
        BY <4>1, <4>2
    <3>6. S = {<<r, i>>}
      <4> HIDE DEF S
      <4> QED
        BY <3>4, <3>5
    <3>7. Cardinality(S) = 1
      BY <3>6, FS_Singleton
    <3> QED
      BY <3>1, <3>7
  <2>2. CASE ~ Credited(c)
    <3>1. ~ (reply[c] = "forwarded" /\ call[c].chain # << >> /\ Leaf(c).seq # Nil)
      BY <2>2 DEF Books, Ledger
    <3>2. S = {}
      BY <2>2 DEF Credited
    <3>3. Cardinality(S) = 0
      BY <3>2, FS_EmptySet
    <3> QED
      BY <3>1, <3>3
  <2> QED
    BY <2>1, <2>2
<1> QED
  BY <1>1, BooksInvariance, PTL

-----------------------------------------------------------------------------
(****************************************************************************)
(* From the HTTP request to the grant: what holds of Enforcer's calls holds *)
(* of what the PDP is asked and of what reaches the server.                 *)
(****************************************************************************)
BehindPermits == {"mapping", "entries", "policy", "asked", "sequence"}
BehindVerify  == BehindPermits \cup {"permits"}

Approved(c) ==
  /\ pc[c] \in BehindVerify \cup {"catalog"} \/ outcome[c] \in BehindVerify \cup {"authorized"} =>
       Carried(c)
  /\ pc[c] \in BehindPermits \/ outcome[c] \in BehindPermits \cup {"authorized"} =>
       Permits(Leaf(c).caps, RequestOf(c))
  /\ asked[c] # << >> =>
       pc[c] \in BehindPermits \/ outcome[c] \in BehindPermits \cup {"authorized"}

Approvals == \A c \in Call : Approved(c)

\* A call that goes from one of the stages behind permission to another, or
\* ends there, is still approved.
LEMMA ApprovedGoesOn ==
  ASSUME GateInv, NEW c \in Call, Approved(c), call' = call, facts' = facts,
         pc[c] \in BehindPermits,
         (\E p \in BehindPermits : GoTo(c, p)) \/ (\E how \in BehindPermits \cup {"authorized"} : Finish(c, how))
  PROVE  Approved(c)'
<1>1. Leaf(c)' = Leaf(c) /\ RequestOf(c)' = RequestOf(c) /\ (Carried(c) => Carried(c)')
  BY DEF Leaf, RequestOf, Carried
<1>2. Carried(c) /\ Permits(Leaf(c).caps, RequestOf(c))
  BY DEF Approved, BehindVerify
<1>3. pc'[c] \in BehindPermits \/ outcome'[c] \in BehindPermits \cup {"authorized"}
  BY DEF GoTo, Finish, GateInv, GateTypeOK, CallTypes
<1> QED
  BY <1>1, <1>2, <1>3 DEF Approved

LEMMA ServeApproves ==
  ASSUME GateInv, NEW c \in Call, Approved(c),
         (\E i \in Offered : Receive(c, i)) \/ Serve(c)
  PROVE  Approved(c)'
<1> USE DEF BehindPermits, BehindVerify
<1>1. /\ pc \in [Call -> {"idle", "verify", "catalog", "permits", "mapping", "entries", "policy", "asked",
                          "sequence", "done", "closed"}]
      /\ outcome \in [Call -> Outcomes]
      /\ Placed(c)
  BY DEF GateInv, GateTypeOK, CallTypes
\* Before the third check nothing is asked.
<1>0. ASSUME (\E i \in Offered : Receive(c, i)) \/ Checks(c) \/ LookUp(c) \/ Reply(c)
      PROVE  asked'[c] = << >>
  <2>1. pc[c] \in Unmapped => asked[c] = << >>
    BY DEF GateInv, Drafted
  <2>2. CASE Reply(c)
    BY <2>2 DEF Reply, GateInv, GateTypeOK
  <2>3. CASE (\E i \in Offered : Receive(c, i)) \/ Checks(c) \/ LookUp(c)
    BY <2>1, <2>3 DEF Receive, Authorize, Checks, NoTool, Verify, Permit, LookUp, Describe, Unmapped
  <2> QED
    BY <1>0, <2>2, <2>3
<1>2. ASSUME NEW i \in Offered, Receive(c, i) PROVE Approved(c)'
  <2>1. pc[c] = "idle" /\ outcome'[c] = "none" /\ pc'[c] \in {"verify", "closed"}
    BY <1>1, <1>2 DEF Receive, Authorize, Placed
  <2> QED
    BY <1>0, <1>2, <2>1 DEF Approved, Carried
<1>3. CASE NoTool(c) /\ Checks(c)
  <2>1. pc'[c] = "done" /\ outcome'[c] = "catalog"
    BY <1>1, <1>3 DEF NoTool, Refuse, Finish
  <2> QED
    BY <1>0, <1>3, <2>1 DEF Approved, Carried
<1>4. CASE Verify(c) /\ Checks(c)
  <2>1. CASE Refuse(c, "verify")
    <3>1. pc'[c] = "done" /\ outcome'[c] = "verify"
      BY <1>1, <2>1 DEF Refuse, Finish
    <3> QED
      BY <1>0, <1>4, <3>1 DEF Approved, Carried
  <2>2. CASE Acceptable(call[c].chain, began[c]) /\ GoTo(c, "catalog")
    <3>1. pc'[c] = "catalog" /\ outcome'[c] = "none" /\ call'[c] = call[c]
      BY <1>1, <1>4, <2>2 DEF GoTo, Placed, Verify
    <3>2. Carried(c)'
      BY <1>1, <1>4, <2>2, <3>1, AcceptableNarrows DEF Placed, Verify, Carried
    <3> QED
      BY <1>0, <1>4, <2>2, <3>1, <3>2 DEF Approved, Carried
  <2> QED
    BY <1>4, <2>1, <2>2 DEF Verify
<1>5. CASE Permit(c) /\ Checks(c)
  <2>1. CASE Refuse(c, "permits")
    <3>1. pc[c] = "permits" /\ pc'[c] = "done" /\ outcome'[c] = "permits" /\ call'[c] = call[c]
      BY <1>1, <1>5, <2>1 DEF Permit, Refuse, Finish
    <3> QED
      BY <1>0, <1>5, <3>1 DEF Approved, Carried
  <2>2. CASE Permits(Leaf(c).caps, RequestOf(c)) /\ GoTo(c, "mapping") /\ facts' = facts
    <3>1. /\ pc[c] = "permits" /\ pc'[c] = "mapping" /\ outcome'[c] = outcome[c] /\ call'[c] = call[c]
          /\ Leaf(c)' = Leaf(c) /\ RequestOf(c)' = RequestOf(c)
      BY <1>1, <1>5, <2>2 DEF Permit, GoTo, Leaf, RequestOf
    <3> QED
      BY <1>0, <1>5, <2>2, <3>1 DEF Approved, Carried
  <2> QED
    BY <1>5, <2>1, <2>2 DEF Permit
<1>6. CASE LookUp(c)
  <2>1. CASE Refuse(c, "catalog")
    <3>1. pc'[c] = "done" /\ outcome'[c] = "catalog"
      BY <1>1, <2>1 DEF Refuse, Finish
    <3> QED
      BY <1>0, <1>6, <3>1 DEF Approved, Carried
  <2>2. CASE GoTo(c, "permits")
    <3>1. pc[c] = "catalog" /\ pc'[c] = "permits" /\ outcome'[c] = "none" /\ call'[c] = call[c]
      BY <1>1, <1>6, <2>2 DEF LookUp, Describe, GoTo, Placed
    <3> QED
      BY <1>0, <1>6, <3>1 DEF Approved, Carried
  <2> QED
    BY <1>6, <2>1, <2>2 DEF LookUp, Describe
<1>7. CASE DefaultMapping(c)
  BY <1>7, ApprovedGoesOn DEF DefaultMapping, GoTo
<1>8. CASE ResolveDefaults(c)
  BY <1>8, ApprovedGoesOn DEF ResolveDefaults, Refuse, GoTo, Finish
<1>9. CASE Construct(c)
  BY <1>9, ApprovedGoesOn DEF Construct, Constructed, Refuse, GoTo, Finish
<1>10. CASE Send(c) \/ Allowed(c)
  BY <1>10, ApprovedGoesOn DEF Send, Allowed, GoTo
<1>11. CASE Unallowed(c)
  BY <1>11, ApprovedGoesOn DEF Unallowed, Refuse, Finish
<1>12. CASE Admission(c)
  BY <1>12, ApprovedGoesOn DEF Admission, AdmitUnconstrained, Admit, RefuseSequence, Refuse, Finish
<1>13. CASE Reply(c)
  <2>1. /\ pc[c] = "done" /\ pc'[c] = "closed" /\ outcome'[c] = outcome[c] /\ call'[c] = call[c]
        /\ Leaf(c)' = Leaf(c) /\ RequestOf(c)' = RequestOf(c)
    BY <1>1, <1>13 DEF Reply, Leaf, RequestOf
  <2> QED
    BY <1>0, <1>13, <2>1 DEF Approved, Carried
<1> QED
  BY <1>2, <1>3, <1>4, <1>5, <1>6, <1>7, <1>8, <1>9, <1>10, <1>11, <1>12, <1>13 DEF Serve, Checks

LEMMA SameApproved ==
  ASSUME NEW c \in Call, Same(c), Approved(c)
  PROVE  Approved(c)'
BY DEF Same, Approved, Leaf, RequestOf, Carried

LEMMA NextApproved ==
  ASSUME GateInv, Approvals, [GateNext]_gateVars
  PROVE  Approvals'
<1>1. ASSUME NEW c \in Call, (\E i \in Offered : Receive(c, i)) \/ Serve(c)
      PROVE  \A d \in Call : Approved(d)'
  BY <1>1, OthersSame, ServeApproves, SameApproved DEF Approvals
<1>2. ASSUME (\E c \in Call : Allow(c) \/ HangUp(c)) \/ World \/ UNCHANGED gateVars
      PROVE  \A d \in Call : Approved(d)'
  BY <1>2, NobodysStep, SameApproved DEF Approvals
<1>3. \A d \in Call : Approved(d)'
  BY <1>1, <1>2 DEF GateNext
<1> QED
  BY <1>3 DEF Approvals

\* The store, as in EnforcerProofs.
Spent == StoreTypes /\ Histories

LEMMA GateNextStore ==
  ASSUME GateInv, Books, Approvals, [GateNext]_gateVars
  PROVE  StoreStep /\ RecordedKept
<1>1. ASSUME NEW c \in Call, Admission(c), Admit(c) PROVE Admitted(c)
  <2>1. pc[c] = "sequence"
    BY <1>1 DEF Admit
  <2>2. Carried(c)
    BY <2>1 DEF Approvals, Approved, BehindVerify, BehindPermits
  <2> QED
    BY <1>1, <2>2 DEF Admit, Admitted, Finish
<1>2. ASSUME NEW c \in Call, (\E i \in Offered : Receive(c, i)) \/ (Serve(c) /\ ~ (Admission(c) /\ Admit(c)))
      PROVE  UNCHANGED <<states, history, forgotten>>
  BY <1>2 DEF Receive, Authorize, Serve, Checks, NoTool, Verify, Permit, LookUp, Describe, DefaultMapping,
     ResolveDefaults, Construct, Constructed, Send, Allowed, Unallowed, Admission, AdmitUnconstrained,
     RefuseSequence, Reply, Refuse
<1>3. ASSUME (\E c \in Call : Allow(c) \/ HangUp(c)) \/ World \/ UNCHANGED gateVars
      PROVE  StoreStep
  BY <1>3 DEF Allow, HangUp, World, Tick, Revoke, StoreStep
<1>4. StoreStep
  BY <1>1, <1>2, <1>3 DEF GateNext, StoreStep, Serve
\* Whose call is recorded has been authorized, and is not received again.
<1>5. ASSUME NEW r \in Roots, NEW i \in DOMAIN history[r]
      PROVE  call'[history[r][i].call] = call[history[r][i].call]
  <2> DEFINE d == history[r][i].call
  <2>1. d \in Call
    <3>1. history[r] \in Seq(Entry)
      BY DEF Books
    <3>2. history[r][i] \in Entry
      BY <1>5, <3>1
    <3> QED
      BY <3>2 DEF Entry
  <2>2. outcome[d] = "authorized"
    BY <1>5, <2>1 DEF Books, Ledger, Credited
  <2>3. pc[d] # "idle"
    BY <2>1, <2>2 DEF GateInv, Placed
  <2> HIDE DEF d
  <2>4. ASSUME NEW c \in Call, NEW j \in Offered, Receive(c, j) PROVE call'[d] = call[d]
    <3>1. c # d
      BY <2>3, <2>4 DEF Receive
    <3> QED
      BY <2>1, <2>4, <3>1, OthersSame DEF Same
  <2>5. ASSUME NEW c \in Call, Serve(c) PROVE call'[d] = call[d]
    BY <2>5 DEF Serve, Checks, NoTool, Verify, Permit, LookUp, Describe, DefaultMapping,
       ResolveDefaults, Construct, Constructed, Send, Allowed, Unallowed, Admission, AdmitUnconstrained, Admit,
       RefuseSequence, Reply, Refuse, Finish, GoTo
  <2>6. ASSUME (\E c \in Call : Allow(c) \/ HangUp(c)) \/ World \/ UNCHANGED gateVars
        PROVE  call'[d] = call[d]
    BY <2>6, NobodysStep
  <2> QED
    BY <2>4, <2>5, <2>6 DEF GateNext, d
<1> QED
  BY <1>4, <1>5 DEF RecordedKept

LEMMA NextSpent ==
  ASSUME GateInv, Books, Approvals, Spent, [GateNext]_gateVars
  PROVE  Spent'
<1>1. StoreStep /\ RecordedKept
  BY GateNextStore
<1>2. ForgottenOK' /\ Folded' /\ EntryParts'
  BY <1>1, NextFold, NextEntries DEF Spent, Histories, EntryParts
<1>3. CallTypes'
  BY NextKeeps
<1>4. StoreTypes'
  BY <1>1, <1>3, NextStoreTypes DEF StoreTypes, Spent, CallTypes
<1> QED
  BY <1>2, <1>4 DEF Spent, Histories, EntryParts

LEMMA SpentInvariance == GateSpec => [](Approvals /\ Spent)
<1>1. GateInit => Approvals /\ Spent
  <2> SUFFICES ASSUME GateInit PROVE Approvals /\ Spent
    OBVIOUS
  <2>1. IInv
    BY InitInv DEF GateInit
  <2>2. Spent
    BY <2>1, TypesOfStore DEF IInv, Spent
  <2>3. \A c \in Call : pc[c] = "idle" /\ outcome[c] = "none"
    BY DEF GateInit, Init
  <2>4. \A c \in Call : asked[c] = << >>
    BY DEF GateInit
  <2> QED
    BY <2>2, <2>3, <2>4 DEF Approvals, Approved, BehindVerify, BehindPermits
<1> QED
  BY <1>1, NextApproved, NextSpent, GateInvariance, BooksInvariance, PTL DEF GateSpec

\* Nothing is asked of the PDP, and no tool call reaches the server, that some
\* link of its chain does not permit (mcp.go:319-363, http.go:86-131).
THEOREM ReachesWithinGrant == GateSpec => []ReachedWithinGrant
<1>1. Books /\ Spent /\ Approvals => ReachedWithinGrant
  <2> SUFFICES ASSUME Books, Spent, NEW c \in Call, Approved(c),
                      asked[c] # << >> \/ Forwarded(c),
                      NEW i \in DOMAIN call[c].chain
               PROVE  Permits(call[c].chain[i].caps, RequestOf(c))
    BY DEF ReachedWithinGrant, Approvals
  <2>1. pc[c] \in BehindPermits \/ outcome[c] \in BehindPermits \cup {"authorized"}
    <3>1. CASE asked[c] # << >>
      BY <3>1 DEF Approved
    <3>2. CASE Forwarded(c)
      BY <3>2 DEF Forwarded, Books, Ledger
    <3> QED
      BY <3>1, <3>2
  <2>2. Narrow(call[c].chain) /\ Permits(Leaf(c).caps, RequestOf(c))
    BY <2>1 DEF Approved, BehindVerify, Carried
  <2> QED
    BY <2>2, LinksPermit DEF Spent
<1> QED
  BY <1>1, SpentInvariance, BooksInvariance, PTL

\* Every budget and rule on the chain binds the calls it carries through the
\* whole gateway (sequence.go:168-177).
THEOREM GateLinksBind == GateSpec => []LinksBindCalls
<1>1. Spent => LinksBindCalls
  BY LinksBind DEF Spent
<1> QED
  BY <1>1, SpentInvariance, PTL

\* The sponsor's budget and rules bind all HTTP requests below the grant together.
THEOREM GateGrantBinds == GateSpec => []GrantBindsCalls
<1>1. Spent => GrantBindsCalls
  BY GrantBound DEF Spent
<1> QED
  BY <1>1, SpentInvariance, PTL

\* What was forwarded below a grant with a budget is in the history of its root.
LEMMA ForwardedIsRecorded ==
  ASSUME Books, Spent, Approvals, NEW r \in Roots, NEW g \in Grants(r), g.seq # Nil,
         NEW c \in Call, Forwarded(c), RootId(c) = r
  PROVE  \E i \in 1 .. Len(history[r]) : history[r][i].call = c
<1>1. outcome[c] = "authorized"
  BY DEF Forwarded, Books, Ledger
<1>2. Carried(c)
  BY <1>1 DEF Approvals, Approved
<1>3. Leaf(c).seq # Nil
  <2>1. 1 \in DOMAIN call[c].chain /\ call[c].chain # << >> /\ Within(call[c].chain[1], Leaf(c))
    BY <1>2, LeafType
  <2>2. PICK d \in Presented \ {<< >>} : d[1].jti = r /\ g = d[1]
    BY DEF Grants
  <2>3. g = call[c].chain[1]
    BY <1>2, <2>1, <2>2, EnforcerAssumption DEF RootId, Carried
  <2> QED
    BY <2>1, <2>3 DEF Within, Bounds, SeqNoWider
<1>4. PICK q \in Roots : \E i \in DOMAIN history[q] : history[q][i].call = c
  BY <1>1, <1>3 DEF Books, Ledger, Credited
<1>5. PICK i \in DOMAIN history[q] : history[q][i].call = c
  BY <1>4
<1>6. q = r
  BY <1>5 DEF Spent, Histories, EntriesCarried, CarriedEntry
<1>7. DOMAIN history[r] = 1 .. Len(history[r])
  <2>1. history[r] \in Seq(Entry)
    BY DEF Books
  <2> QED
    BY <2>1
<1> QED
  BY <1>5, <1>6, <1>7

\* No more tool calls reach the server below a grant than its budget allows,
\* besides those that were forgotten (sequence.go:149, http.go:86-131).
THEOREM ForwardsWithinBudget == GateSpec => []ForwardedWithinBudget
<1>1. Books /\ Spent /\ Approvals => ForwardedWithinBudget
  <2> SUFFICES ASSUME Books, Spent, Approvals, NEW r \in Roots, NEW g \in Grants(r),
                      g.seq # Nil, g.seq.max > 0
               PROVE  Cardinality({c \in Call : Forwarded(c) /\ RootId(c) = r}) <= forgotten[r] + g.seq.max
    BY DEF ForwardedWithinBudget
  <2> DEFINE n == Len(history[r])  S == {c \in Call : Forwarded(c) /\ RootId(c) = r}
             place == [c \in S |-> CHOOSE i \in 1 .. n : history[r][i].call = c]
  <2>1. \A c \in S : place[c] \in 1 .. n /\ history[r][place[c]].call = c
    <3>1. \A c \in S : \E i \in 1 .. n : history[r][i].call = c
      BY ForwardedIsRecorded
    <3> QED
      BY <3>1
  <2>2. place \in Injection(S, 1 .. n)
    <3> HIDE DEF n
    <3>1. place \in [S -> 1 .. n]
      BY <2>1
    <3>2. \A a, b \in S : place[a] = place[b] => a = b
      BY <2>1
    <3> HIDE DEF place, S
    <3> QED
      BY <3>1, <3>2 DEF Injection, IsInjective
  <2>3. /\ n \in Nat /\ forgotten[r] \in Nat
        /\ g.seq.max \in Int /\ n - forgotten[r] <= g.seq.max
    BY GrantCounts DEF Spent
  <2>4. IsFiniteSet(1 .. n) /\ Cardinality(1 .. n) = n
    <3> HIDE DEF n, S, place
    <3>1. n \in Int /\ 1 \in Int /\ (IF 1 > n THEN 0 ELSE n - 1 + 1) = n
      BY <2>3
    <3> QED
      BY <3>1, FS_Interval
  <2>5. Cardinality(S) <= n /\ Cardinality(S) \in Nat
    <3> HIDE DEF S, n, place
    <3> QED
      BY <2>2, <2>3, <2>4, FS_Injection, FS_CardinalityType
  <2> HIDE DEF n, S
  <2>6. Cardinality(S) <= forgotten[r] + g.seq.max
    BY <2>3, <2>5
  <2> QED
    BY <2>6 DEF S
<1> QED
  BY <1>1, SpentInvariance, BooksInvariance, PTL

-----------------------------------------------------------------------------
(****************************************************************************)
(* From the HTTP request to the history.                                    *)
(****************************************************************************)
LEMMA ServeEvaluates ==
  ASSUME GateInv, Approvals, Spent, NEW c \in Call, Serve(c)
  PROVE  Evaluation!AbsNext \/ UNCHANGED <<EvaluatedCalls, Verdicts, PlainHistory, forgotten>>
<1>1. /\ pc \in [Call -> {"idle", "verify", "catalog", "permits", "mapping", "entries", "policy", "asked",
                          "sequence", "done", "closed"}]
      /\ outcome \in [Call -> Outcomes]
      /\ Placed(c) /\ Approved(c)
  BY DEF GateInv, GateTypeOK, CallTypes, Approvals
<1>2. Moves(c)
  BY OthersSame DEF Same, Moves
<1>3. CASE Admission(c)
  <2>1. pc[c] = "sequence" /\ Carried(c)
    BY <1>1, <1>3 DEF Admission, AdmitUnconstrained, Admit, RefuseSequence, Approved, BehindVerify, BehindPermits
  <2>2. /\ pc'[c] = "done"
        /\ AdmitUnconstrained(c) \/ Admit(c) => outcome'[c] = "authorized"
        /\ RefuseSequence(c) => outcome'[c] = "sequence"
    BY <1>1, <1>3 DEF Admission, AdmitUnconstrained, Admit, RefuseSequence, Refuse, Finish
  <2> QED
    BY <1>2, <1>3, <2>1, <2>2, AdmissionStep DEF Admission, Spent
<1>4. CASE Allowed(c) /\ pc'[c] = "sequence"
  <2>1. pc[c] = "asked" /\ UNCHANGED <<call, facts, history, forgotten>>
    BY <1>4 DEF Allowed, GoTo
  <2>2. outcome[c] = "none" /\ Carried(c)
    BY <1>1, <2>1 DEF Placed, Approved, BehindVerify, BehindPermits
  <2>3. Evaluation!Start(c)
    BY <1>2, <1>4, <2>1, <2>2, StartStep DEF Spent
  <2> QED
    BY <2>3 DEF Evaluation!AbsNext
<1>5. CASE ~ Admission(c) /\ ~ (Allowed(c) /\ pc'[c] = "sequence")
  <2>1. pc[c] # "sequence" /\ pc'[c] # "sequence" /\ UNCHANGED <<history, forgotten>>
    BY <1>1, <1>5 DEF Serve, Checks, NoTool, Verify, Permit, LookUp, Describe, DefaultMapping, ResolveDefaults,
       Construct, Constructed, Send, Allowed, Unallowed, Reply, Refuse, Finish, GoTo
  <2>2. \/ outcome'[c] = outcome[c]
        \/ outcome[c] = "none" /\ outcome'[c] \in {"verify", "catalog", "permits", "mapping", "policy"}
    BY <1>1, <1>5 DEF Serve, Checks, NoTool, Verify, Permit, LookUp, Describe, DefaultMapping, ResolveDefaults,
       Construct, Constructed, Send, Allowed, Unallowed, Reply, Refuse, Finish, GoTo, Placed
  <2> QED
    BY <1>2, <2>1, <2>2, HiddenStep
<1> QED
  BY <1>3, <1>4, <1>5

\* Whatever becomes of requests, mappings, answers and callers around it, every
\* HTTP request that comes to the last check is decided in one step against
\* the ordered history of its root, and no other step touches a history
\* (http.go:86-131, mcp.go:352-362, sequence.go:116-180).
THEOREM GateEvaluates == GateSpec => ImplementsEvaluation
<1>1. GateInit => Evaluation!AbsInit
  BY EvaluationInit DEF GateInit
<1>2. GateInv /\ Approvals /\ Spent /\ [GateNext]_gateVars => [Evaluation!AbsNext]_(Evaluation!absVars)
  <2> SUFFICES ASSUME GateInv, Approvals, Spent, [GateNext]_gateVars
               PROVE  Evaluation!AbsNext \/ UNCHANGED <<EvaluatedCalls, Verdicts, PlainHistory, forgotten>>
    BY DEF Evaluation!absVars
  <2>1. ASSUME NEW c \in Call, NEW i \in Offered, Receive(c, i)
        PROVE  UNCHANGED <<EvaluatedCalls, Verdicts, PlainHistory, forgotten>>
    <3>1. Moves(c)
      BY <2>1, OthersSame DEF Same, Moves
    <3>2. /\ pc[c] = "idle" /\ pc'[c] \in {"verify", "closed"} /\ outcome'[c] = outcome[c]
          /\ UNCHANGED <<history, forgotten>>
      BY <2>1 DEF Receive, Authorize, GateInv, GateTypeOK
    <3> QED
      BY <3>1, <3>2, HiddenStep
  <2>2. ASSUME \/ \E c \in Call : Allow(c) \/ HangUp(c)
               \/ Tick \/ (\E id \in Id \ {Empty} : Revoke(id)) \/ UNCHANGED gateVars
        PROVE  UNCHANGED <<EvaluatedCalls, Verdicts, PlainHistory, forgotten>>
    BY <2>2, StandingStep, HistoryKept DEF Allow, HangUp, Tick, Revoke
  <2>3. ASSUME NEW r \in Roots, Forget(r) PROVE Evaluation!AbsNext
    BY <2>3, DiscardStep DEF Spent
  <2> QED
    BY <2>1, <2>2, <2>3, ServeEvaluates DEF GateNext, World
<1> QED
  BY <1>1, <1>2, GateInvariance, SpentInvariance, PTL DEF GateSpec, ImplementsEvaluation, Evaluation!AbsSpec
=============================================================================
