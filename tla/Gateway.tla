------------------------------- MODULE Gateway -------------------------------
(****************************************************************************)
(* The enforcement point in front of an MCP server: the HTTP middleware     *)
(* (mcp/http.go) around Authorize, with the third check in full: the        *)
(* requests the tool's mapping constructs (Mapping), and the AuthZEN client *)
(* (authzen/authzen.go) that puts each of them to the Policy Decision       *)
(* Point.  Between the client and the PDP stand caches and proxies: they    *)
(* lose, delay and repeat answers and drop headers.  They do not forge the  *)
(* identifier of a request they have not seen.  A caller may hang up.       *)
(*                                                                          *)
(* The other checks are those of Enforcer, which this module implements.    *)
(* asked and answers are history variables; asked is also what is on its    *)
(* way to the PDP.                                                          *)
(****************************************************************************)
EXTENDS Enforcer, Mapping

CONSTANTS Offered,  \* the HTTP requests that callers send
          Declared, \* Declared[tool]: its x-authzen-mapping, or Nil
          Spelled,  \* Spelled[tool]: its name as a datum
          Metadata, \* the documents a PDP may publish about itself
          Pdp       \* the PDP identifier the operator configured

\* host is where it leads; a loopback address is one whatever its spelling.
Url == [host : Text, https : BOOLEAN, loopback : BOOLEAN]
\* slash: whether it is spelled with a trailing one.
Identifier == [url : Url, slash : BOOLEAN]

\* Methods other than tools/call, calls, and what cannot be read as either:
\* a body too large or broken off, no single JSON object, no params, no chain.
NoArguments == [a \in Argument |-> Nil]
Unread == [kind |-> "unreadable", chain |-> << >>, tool |-> << >>, args |-> NoArguments]
Input == [kind : {"unreadable", "other", "call"}, chain : Seq(Claims(Principal, Id)), tool : Str,
          args : Arguments]

ASSUME GatewayAssumption ==
  /\ Offered \subseteq Input
  /\ \A i \in Offered : i.kind = "call" => i.chain \in Presented \ {<< >>} /\ i.tool \in Tool
  /\ Declared \in [Tool -> Declaration \cup {Nil}]
  /\ \A t \in Tool : \A f \in Described[t] :
       f.requests = IF Declared[t] = Nil THEN 0 ELSE Len(Entries(Declared[t]))
  /\ Spelled \in [Tool -> Text \ {Empty}]
  /\ Metadata \subseteq [pdp : Identifier, endpoint : Url \cup {Nil}] /\ Pdp \in Identifier
  /\ Principal \subseteq Text
  /\ Nil \notin Call \X Nat

VARIABLES endpoint,        \* Client.endpoint
          input, gone,     \* the HTTP request of each call, and whose caller hung up
          top, left, made, \* ToolCallRequests: the resolved defaults, the budget, the requests
          asked, answers,  \* what the client sent, and what the PDP allowed
          reply            \* what became of the HTTP request

mapper == <<top, left, made>>
wire == <<asked, answers>>
outer == <<endpoint, input, gone, reply>>
gateVars == <<clock, revoked, pc, call, began, facts, todo, outcome, states, history, forgotten,
              endpoint, input, gone, top, left, made, asked, answers, reply>>

(****************************************************************************)
(* Discover and New: the client is pointed at the endpoint that the         *)
(* configured PDP publishes, if bodies may be sent there.                   *)
(****************************************************************************)
SafeUrl(u) == u.https \/ u.loopback

\* Identifiers are compared without their trailing slash.
Discovers(doc) == SafeUrl(Pdp.url) /\ doc.pdp.url = Pdp.url /\ doc.endpoint # Nil

Endpoints == {u \in {doc.endpoint : doc \in {d \in Metadata : Discovers(d)}} : SafeUrl(u)}

GateInit ==
  /\ Init
  /\ endpoint \in Endpoints
  /\ input = [c \in Call |-> Unread]
  /\ gone = {}
  /\ top = [c \in Call |-> Blank]
  /\ left = [c \in Call |-> MaxValues]
  /\ made = [c \in Call |-> << >>]
  /\ asked = [c \in Call |-> << >>] /\ answers = {}
  /\ reply = [c \in Call |-> "none"]

(****************************************************************************)
(* Middleware.  What cannot be read is refused, another method is passed    *)
(* on unexamined.                                                           *)
(****************************************************************************)
Receive(c, i) ==
  /\ pc[c] = "idle"
  /\ input' = [input EXCEPT ![c] = i]
  /\ IF i.kind = "call"
     THEN Authorize(c, i.chain, i.tool) /\ UNCHANGED reply
     ELSE /\ pc' = [pc EXCEPT ![c] = "closed"]
          /\ reply' = [reply EXCEPT ![c] = IF i.kind = "other" THEN "forwarded" ELSE "refused"]
          /\ UNCHANGED <<world, call, began, facts, todo, outcome, store>>
  /\ UNCHANGED <<endpoint, gone, mapper, wire>>

\* Mutated: a request whose caller has left is not handed on.
Reply_dropsAbandoned(c) ==
  /\ pc[c] = "done"
  /\ pc' = [pc EXCEPT ![c] = "closed"]
  /\ reply' = [reply EXCEPT ![c] = IF outcome[c] = "authorized" /\ c \notin gone THEN "forwarded" ELSE "refused"]
  /\ gone' = gone \ {c}
  /\ top' = [top EXCEPT ![c] = Blank]
  /\ left' = [left EXCEPT ![c] = MaxValues]
  /\ made' = [made EXCEPT ![c] = << >>]
  /\ asked' = [asked EXCEPT ![c] = << >>]
  /\ input' = [input EXCEPT ![c] = Unread]
  /\ UNCHANGED <<world, call, began, facts, todo, outcome, store, endpoint, answers>>

\* What the request's goroutine held goes with it; an answer on its way to it
\* later is one Allow gave before.
Reply(c) ==
  /\ pc[c] = "done"
  /\ pc' = [pc EXCEPT ![c] = "closed"]
  /\ reply' = [reply EXCEPT ![c] = IF outcome[c] = "authorized" THEN "forwarded" ELSE "refused"]
  /\ gone' = gone \ {c}
  /\ top' = [top EXCEPT ![c] = Blank]
  /\ left' = [left EXCEPT ![c] = MaxValues]
  /\ made' = [made EXCEPT ![c] = << >>]
  /\ asked' = [asked EXCEPT ![c] = << >>]
  /\ input' = [input EXCEPT ![c] = Unread]
  /\ UNCHANGED <<world, call, began, facts, todo, outcome, store, endpoint, answers>>

\* The checks of Enforcer around the third.
Checks(c) ==
  /\ NoTool(c) \/ Verify(c) \/ Permit(c)
  /\ UNCHANGED <<mapper, wire, outer>>

\* A tool whose declaration does not parse is described by no catalog.
LookUp(c) ==
  /\ Describe(c)
  /\ (pc'[c] = "permits" /\ Declared[call[c].tool] # Nil) => Accepts(Declared[call[c].tool])
  /\ UNCHANGED <<mapper, wire, outer>>

(****************************************************************************)
(* ToolCallRequests.  A conversion notices an ended context and an          *)
(* exhausted budget; literals convert nothing.                              *)
(****************************************************************************)
VerifiedOf(c) ==
  [sub |-> Leaf(c).root.sub, iss |-> Leaf(c).root.iss, client_id |-> Leaf(c).sub]
Mapped(c) == Declared[call[c].tool]
EntriesOf(c) == Entries(Mapped(c))
Args(c) == input[c].args

ResolutionFails(c, t) ==
  \/ Fails(t, Args(c))
  \/ Spends(t, Args(c)) > left[c]
  \/ c \in gone /\ Spends(t, Args(c)) > 0

DefaultMapping(c) ==
  /\ pc[c] = "mapping"
  /\ Mapped(c) = Nil
  /\ made' = [made EXCEPT ![c] = <<ToolCallRequest(VerifiedOf(c), Spelled[call[c].tool], call[c].chain)>>]
  /\ todo' = [todo EXCEPT ![c] = 1]
  /\ GoTo(c, "policy")
  /\ UNCHANGED <<world, facts, store, top, left, wire, outer>>

ResolveDefaults(c) ==
  /\ pc[c] = "mapping"
  /\ Mapped(c) # Nil
  /\ IF ResolutionFails(c, Mapped(c).top)
     THEN Refuse(c, "mapping") /\ UNCHANGED mapper
     ELSE /\ top' = [top EXCEPT ![c] = Resolved(Mapped(c).top, VerifiedOf(c), Args(c))]
          /\ left' = [left EXCEPT ![c] = @ - Spends(Mapped(c).top, Args(c))]
          /\ GoTo(c, "entries")
          /\ UNCHANGED <<world, facts, todo, store, made>>
  /\ UNCHANGED <<wire, outer>>

EntryAt(c) == EntriesOf(c)[Len(made[c]) + 1]
Fields(c, entry) == Effective(top[c], Resolved(entry, VerifiedOf(c), Args(c)))

Constructed(c, request) ==
  /\ made' = [made EXCEPT ![c] = Append(@, request)]
  /\ IF Len(made[c]) + 1 = Len(EntriesOf(c))
     THEN todo' = [todo EXCEPT ![c] = Len(EntriesOf(c))] /\ GoTo(c, "policy")
     ELSE GoTo(c, "entries") /\ UNCHANGED todo
  /\ UNCHANGED <<world, facts, store>>

\* Mutated: the budget is renewed for each request.
Construct_renewsBudget(c) ==
  /\ pc[c] = "entries"
  /\ LET r == Fields(c, EntryAt(c))
     IN  IF ResolutionFails(c, EntryAt(c)) \/ ~ Anchors(r, VerifiedOf(c))
         THEN Refuse(c, "mapping") /\ UNCHANGED mapper
         ELSE /\ Constructed(c, Anchored(r, VerifiedOf(c), call[c].chain))
              /\ left' = [left EXCEPT ![c] = MaxValues]
              /\ UNCHANGED top
  /\ UNCHANGED <<wire, outer>>

\* Mutated: the identities are written into the defaults all entries share.
Construct_sharesDefaults(c) ==
  /\ pc[c] = "entries"
  /\ LET r == Fields(c, EntryAt(c))
     IN  IF ResolutionFails(c, EntryAt(c)) \/ ~ Anchors(r, VerifiedOf(c))
         THEN Refuse(c, "mapping") /\ UNCHANGED mapper
         ELSE /\ Constructed(c, Anchored(r, VerifiedOf(c), call[c].chain))
              /\ left' = [left EXCEPT ![c] = @ - Spends(EntryAt(c), Args(c))]
              /\ top' = IF EntryAt(c)["context"] # Nil \/ top[c]["context"] = Nil THEN top
                        ELSE [top EXCEPT ![c]["context"] = Put(@, "delegation", NotText)]
  /\ UNCHANGED <<wire, outer>>

\* Mutated: an entry that fails is left out.
Construct_skips(c) ==
  /\ pc[c] = "entries"
  /\ LET r == Fields(c, EntryAt(c))
     IN  IF ResolutionFails(c, EntryAt(c)) \/ ~ Anchors(r, VerifiedOf(c))
         THEN /\ todo' = [todo EXCEPT ![c] = Len(made[c])]
              /\ GoTo(c, IF made[c] = << >> THEN "sequence" ELSE "policy")
              /\ UNCHANGED <<world, facts, store, mapper>>
         ELSE /\ Constructed(c, Anchored(r, VerifiedOf(c), call[c].chain))
              /\ left' = [left EXCEPT ![c] = @ - Spends(EntryAt(c), Args(c))]
              /\ UNCHANGED top
  /\ UNCHANGED <<wire, outer>>

Construct(c) ==
  /\ pc[c] = "entries"
  /\ LET r == Fields(c, EntryAt(c))
     IN  IF ResolutionFails(c, EntryAt(c)) \/ ~ Anchors(r, VerifiedOf(c))
         THEN Refuse(c, "mapping") /\ UNCHANGED mapper
         ELSE /\ Constructed(c, Anchored(r, VerifiedOf(c), call[c].chain))
              /\ left' = [left EXCEPT ![c] = @ - Spends(EntryAt(c), Args(c))]
              /\ UNCHANGED top
  /\ UNCHANGED <<wire, outer>>

(****************************************************************************)
(* Client.Evaluate, per request in order.  The identifier is new for each   *)
(* request, and Nil where the entropy source fails.                         *)
(****************************************************************************)
Query(c) == asked[c][Len(asked[c])]

Send(c) ==
  /\ pc[c] = "policy"
  /\ c \notin gone
  /\ \E id \in {<<c, Len(asked[c]) + 1>>, Nil} :
       asked' = [asked EXCEPT ![c] =
         Append(@, [id |-> id, request |-> made[c][Len(made[c]) - todo[c] + 1], to |-> endpoint])]
  /\ GoTo(c, "asked")
  /\ UNCHANGED <<world, facts, todo, store, mapper, answers, outer>>

\* The PDP allows a request, now or after the client has given up.
Allow(c) ==
  /\ asked[c] # << >>
  /\ [id |-> Query(c).id, request |-> Query(c).request] \notin answers
  /\ answers' = answers \cup {[id |-> Query(c).id, request |-> Query(c).request]}
  /\ UNCHANGED <<world, pc, call, began, facts, todo, outcome, store, mapper, asked, outer>>

\* Mutated: an answer without an identifier passes.
Correlated_missingPasses(sent, echoed) == sent # Nil /\ echoed # Nil => echoed = sent

Correlated(sent, echoed) == sent # Nil => echoed = sent

\* Mutated: the first allow decides the call.
Allowed_firstDecides(c) ==
  /\ pc[c] = "asked"
  /\ \E a \in answers : \E echoed \in {a.id, Nil} : Correlated(Query(c).id, echoed)
  /\ GoTo(c, "sequence")
  /\ UNCHANGED <<world, facts, todo, store, mapper, wire, outer>>

\* Some allow arrives, for this request or for another, its header kept or dropped.
Allowed(c) ==
  /\ pc[c] = "asked"
  /\ \E a \in answers : \E echoed \in {a.id, Nil} : Correlated(Query(c).id, echoed)
  /\ todo' = [todo EXCEPT ![c] = @ - 1]
  /\ GoTo(c, IF todo[c] = 1 THEN "sequence" ELSE "policy")
  /\ UNCHANGED <<world, facts, store, mapper, wire, outer>>

\* Mutated: a redirect is followed, body and all.
Unallowed_followsRedirect(c) ==
  \/ /\ pc[c] = "asked"
     /\ Query(c).to = endpoint
     /\ \E u \in {d.endpoint : d \in Metadata} \ {Nil} :
          asked' = [asked EXCEPT ![c][Len(asked[c])].to = u]
     /\ UNCHANGED <<world, pc, call, began, facts, todo, outcome, store, mapper, answers, outer>>
  \/ /\ pc[c] \in {"policy", "asked"}
     /\ Refuse(c, "policy")
     /\ UNCHANGED <<mapper, wire, outer>>

\* Mutated: the client waits for an answer as long as it takes.
Unallowed_noTimeout(c) ==
  /\ pc[c] \in {"policy", "asked"}
  /\ c \in gone
  /\ Refuse(c, "policy")
  /\ UNCHANGED <<mapper, wire, outer>>

\* A denial, an error, a timeout, a redirect, another status than 200, a
\* body that does not decode, or an answer to another request.
Unallowed(c) ==
  /\ pc[c] \in {"policy", "asked"}
  /\ pc[c] = "policy" => c \in gone
  /\ Refuse(c, "policy")
  /\ UNCHANGED <<mapper, wire, outer>>

(****************************************************************************)
(* The history.  The store looks at the context first.                      *)
(****************************************************************************)
Admission(c) ==
  /\ AdmitUnconstrained(c) \/ (c \notin gone /\ Admit(c)) \/ RefuseSequence(c)
  /\ UNCHANGED <<mapper, wire, outer>>

\* A caller that leaves shows where the context is looked at; verification may
\* refuse for it or for anything else, and a refusal does not look.
HangUp(c) ==
  /\ pc[c] \in {"mapping", "entries", "policy", "asked", "sequence", "done"}
  /\ outcome[c] \in {"none", "authorized"}
  /\ c \notin gone
  /\ gone' = gone \cup {c}
  /\ UNCHANGED <<world, pc, call, began, facts, todo, outcome, store, mapper, wire, endpoint, input, reply>>

World ==
  /\ Tick \/ (\E id \in Id \ {Empty} : Revoke(id)) \/ (\E r \in Roots : Forget(r))
  /\ UNCHANGED <<mapper, wire, outer>>

Serve(c) ==
  \/ Checks(c) \/ LookUp(c) \/ DefaultMapping(c) \/ ResolveDefaults(c) \/ Construct(c)
  \/ Send(c) \/ Allowed(c) \/ Unallowed(c) \/ Admission(c) \/ Reply(c)

GateNext ==
  \/ \E c \in Call, i \in Offered : Receive(c, i)
  \/ \E c \in Call : Serve(c) \/ Allow(c) \/ HangUp(c)
  \/ World

GateSpec == GateInit /\ [][GateNext]_gateVars

\* A request runs in its own goroutine, and each wait of the client ends by
\* its timeout.  The PDP need not answer.
FairGateSpec == GateSpec /\ \A c \in Call : WF_gateVars(Serve(c))

(****************************************************************************)
(* Properties.                                                              *)
(****************************************************************************)
Requested == [says : [Member -> Object \cup {Nil}], delegation : Seq(Claims(Principal, Id))]
Identified == (Call \X Nat) \cup {Nil}

GateTypeOK ==
  /\ endpoint \in Url
  /\ pc \in [Call -> {"idle", "verify", "catalog", "permits", "mapping", "entries", "policy", "asked",
                      "sequence", "done", "closed"}]
  /\ input \in [Call -> Input] /\ gone \subseteq Call
  /\ top \in [Call -> [Member -> Object \cup {Nil}]] /\ left \in [Call -> 0 .. MaxValues]
  /\ made \in [Call -> Seq(Requested)]
  /\ asked \in [Call -> Seq([id : Identified, request : Requested, to : Url])]
  /\ answers \subseteq [id : Identified, request : Requested]
  /\ reply \in [Call -> {"none", "refused", "forwarded"}]

PolicyPassed(c) == pc[c] = "sequence" \/ outcome[c] \in {"sequence", "authorized"}

\* An evaluation taken to be allowed was allowed by the PDP, for the very
\* request that was sent, whatever a cache repeats or a proxy strips, if the
\* request carried an identifier (authzen.go:215-219).
AllowIsForThisRequest ==
  \A c \in Call : \A k \in DOMAIN asked[c] :
    asked[c][k].id # Nil /\ (k < Len(asked[c]) \/ pc[c] = "policy" \/ PolicyPassed(c)) =>
      [id |-> asked[c][k].id, request |-> asked[c][k].request] \in answers

\* Whatever a server's mapping says, each request names the sponsor, its
\* issuer, the acting agent and the chain of the call it is made for, also to
\* a PDP that decodes keys without regard to case (declared.go:401-405).
AskedAboutTheChain ==
  \A c \in Call : \A k \in DOMAIN asked[c] :
    LET says == asked[c][k].request.says
        Reads(m, f) == {says[m][g] : g \in {h \in Field : Fold[h] = Fold[f]}} \ {Nil}
    IN  /\ says["subject"]["id"] = VerifiedOf(c).sub
        /\ Reads("subject", "iss") = {VerifiedOf(c).iss}
        /\ Reads("context", "agent") = {VerifiedOf(c).client_id}
        /\ Reads("context", "delegation") = {}
        /\ asked[c][k].request.delegation = call[c].chain

\* The members of the request that an entry stands for by itself.
Alone(c, entry) ==
  Effective(Resolved(Mapped(c).top, VerifiedOf(c), Args(c)), Resolved(entry, VerifiedOf(c), Args(c)))

Whole(c) ==
  IF Mapped(c) = Nil THEN <<ToolCallRequest(VerifiedOf(c), Spelled[call[c].tool], call[c].chain)>>
  ELSE [i \in DOMAIN EntriesOf(c) |-> Anchored(Alone(c, EntriesOf(c)[i]), VerifiedOf(c), call[c].chain)]

\* Policy is passed only once every request that the mapping stands for was
\* put to the PDP, in order and as its entry and the defaults alone say; and
\* there is at least one (declared.go:127-129).
PolicyHeardTheWholeMapping ==
  \A c \in Call : PolicyPassed(c) /\ pc[c] # "closed" =>
    asked[c] # << >> /\ [k \in DOMAIN asked[c] |-> asked[c][k].request] = Whole(c)

\* The values that the defaults and the first n entries make for the call.
Total(c, n) ==
  Cardinality(UNION {{i} \X Produced(IF i = 0 THEN Mapped(c).top ELSE EntriesOf(c)[i], Args(c)) : i \in 0 .. n})

\* A mapping is refused only for what is wrong with one of its parts, for
\* what it produces altogether, or because the caller left; never for what
\* an earlier entry left behind (declared.go:431-434).
MappingRefusedForCause ==
  \A c \in Call : pc[c] = "done" /\ outcome[c] = "mapping" =>
    \/ c \in gone
    \/ Fails(Mapped(c).top, Args(c))
    \/ \E i \in DOMAIN EntriesOf(c) : \/ Fails(EntriesOf(c)[i], Args(c))
                                     \/ ~ Anchors(Alone(c, EntriesOf(c)[i]), VerifiedOf(c))
    \/ Total(c, Len(EntriesOf(c))) > MaxValues

\* The budget of a call bounds what all its requests hold together
\* (declared.go:36-37).
ResolvedWithinBudget ==
  \A c \in Call : made[c] # << >> /\ Mapped(c) # Nil => Total(c, Len(made[c])) <= MaxValues

\* What is asked, which names the subject, goes only where the configured PDP
\* is at home, and never in the clear over a network, redirects included.
AskedInConfidence ==
  \A c \in Call : \A k \in DOMAIN asked[c] :
    /\ SafeUrl(asked[c][k].to)
    /\ \E d \in Metadata : d.pdp.url = Pdp.url /\ d.endpoint = asked[c][k].to

\* Budget and tool are spent together: a call that reached the server is in
\* the history exactly once if its chain carries a sequence, and one that was
\* refused is not in it.
OneSpendPerForward ==
  \A c \in Call : pc[c] = "closed" =>
    Cardinality({x \in Roots \X (1 .. Cardinality(Call)) :
                   x[2] \in DOMAIN history[x[1]] /\ history[x[1]][x[2]].call = c})
      = IF reply[c] = "forwarded" /\ call[c].chain # << >> /\ Leaf(c).seq # Nil THEN 1 ELSE 0

\* A tool call that reached the server; other methods carry no chain.
Forwarded(c) == pc[c] = "closed" /\ reply[c] = "forwarded" /\ call[c].chain # << >>

\* Nothing is asked of the PDP, and no tool call reaches the server, that some
\* link of its chain does not permit (mcp.go:319-363, http.go:86-131).
ReachedWithinGrant ==
  \A c \in Call : asked[c] # << >> \/ Forwarded(c) =>
    \A i \in DOMAIN call[c].chain : Permits(call[c].chain[i].caps, RequestOf(c))

\* No more tool calls reach the server below a grant than its budget allows,
\* besides those that were forgotten (sequence.go:149, http.go:86-131).
ForwardedWithinBudget ==
  \A r \in Roots : \A g \in Grants(r) : g.seq # Nil /\ g.seq.max > 0 =>
    Cardinality({c \in Call : Forwarded(c) /\ RootId(c) = r}) <= forgotten[r] + g.seq.max

\* Authorize, seen from outside: mapping and evaluations are one check each.
Phase ==
  [c \in Call |->
     CASE pc[c] = "entries" -> "mapping"
       [] pc[c] = "asked" -> "policy"
       [] pc[c] = "closed" -> IF outcome[c] = "none" THEN "idle" ELSE "done"
       [] OTHER -> pc[c]]

Core == INSTANCE Enforcer WITH pc <- Phase
\* The middleware, the mappings and the client are an implementation of the
\* enforcer whose Policy Decision Point answers as it pleases.
ImplementsEnforcer == Core!Spec

\* Every HTTP request is refused or handed on, whatever the PDP does.
EveryRequestAnswered == \A c \in Call : (pc[c] = "verify") ~> (pc[c] = "closed")
=============================================================================
