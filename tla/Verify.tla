------------------------------- MODULE Verify -------------------------------
(****************************************************************************)
(* verify.Verifier: a presented chain against rules V1 to V9, in the order  *)
(* and with the early returns of the code, one step per check and one per   *)
(* link where the check asks or compares link by link.                      *)
(*                                                                          *)
(* While a chain is verified the clock advances and assertions are revoked. *)
(* A presented assertion may be anything: malformed, signed by somebody     *)
(* else, broader than its parent, or taken from another chain.  A child     *)
(* commits to the number raw of its parent's serialization.                 *)
(****************************************************************************)
EXTENDS Jose, Acceptance

CONSTANTS Call,      \* verifications in progress
          Presented, \* the chains callers present
          Asked,     \* requests to compare grants by
          MaxClock   \* bound: the last tick

ASSUME VerifyAssumption ==
  /\ Presented \subseteq Seq(Assertion)
  /\ Asked \subseteq Request
  /\ Audience \in Principal \ {Empty}
  /\ Skew \in Nat /\ Second \in Nat \ {0} /\ MaxClock \in Nat

ASSUME NilNotInInt == Nil \notin Int

VARIABLES clock, revoked,         \* the world: time, and the jti values revoked so far
          pc, chain, at, verdict, \* Verify: the check it is in, its argument, the link, the result
          began                   \* history: the world when the call began

world == <<clock, revoked>>
vars == <<clock, revoked, pc, chain, at, verdict, began>>

Init ==
  /\ clock = 0
  /\ revoked = {}
  /\ pc = [c \in Call |-> "idle"]
  /\ chain = [c \in Call |-> << >>]
  /\ at = [c \in Call |-> 1]
  /\ verdict = [c \in Call |-> "none"]
  /\ began = [c \in Call |-> [clock |-> 0, revoked |-> {}]]

Link(c, i) == chain[c][i].claims
Leaf(c) == Link(c, Len(chain[c]))

\* The next check starts at the link it starts at in the code.
GoTo(c, check, first) ==
  /\ pc' = [pc EXCEPT ![c] = check]
  /\ at' = [at EXCEPT ![c] = first]
  /\ UNCHANGED <<verdict, chain, began>>

Conclude(c, v) ==
  /\ pc' = [pc EXCEPT ![c] = "done"]
  /\ verdict' = [verdict EXCEPT ![c] = v]
  /\ UNCHANGED <<at, chain, began>>

\* One link of a loop is in order: on to the next link, or to the next check.
NextLink(c, check, first) ==
  IF at[c] < Len(chain[c]) THEN GoTo(c, pc[c], at[c] + 1) ELSE GoTo(c, check, first)

Verify(c, ch) ==
  /\ pc[c] = "idle"
  /\ chain' = [chain EXCEPT ![c] = ch]
  /\ began' = [began EXCEPT ![c] = [clock |-> clock, revoked |-> revoked]]
  /\ pc' = [pc EXCEPT ![c] = "parse"]
  /\ UNCHANGED <<world, at, verdict>>

(****************************************************************************)
(* Claims are derived again from the bytes; a header the allowlist refuses  *)
(* is V3's business, any other unreadable serialization is V1's.            *)
(****************************************************************************)
Unreadable(ch, i) == ~ ClaimsRead(ch[i]) /\ \A j \in 1 .. (i - 1) : ClaimsRead(ch[j])

Parse(c) ==
  /\ pc[c] = "parse"
  /\ \/ chain[c] = << >> /\ Conclude(c, "V1")
     \/ \E i \in DOMAIN chain[c] :
          /\ Unreadable(chain[c], i)
          /\ Conclude(c, IF HeaderRefused(chain[c][i]) THEN "V3" ELSE "V1")
     \/ /\ chain[c] # << >> /\ \A i \in DOMAIN chain[c] : ClaimsRead(chain[c][i])
        /\ GoTo(c, "validate", 1)
  /\ UNCHANGED world

\* Claims.Validate on every link, then the root's half of checkStructure.
Validate(c) ==
  /\ pc[c] = "validate"
  /\ IF /\ \A i \in DOMAIN chain[c] : ValidClaims(Link(c, i))
        /\ Link(c, 1).depth = 0
        /\ Link(c, 1).parent = NoParent
     THEN IF Len(chain[c]) > 1 THEN GoTo(c, "structure", 2) ELSE GoTo(c, "signatures", 1)
     ELSE Conclude(c, "V1")
  /\ UNCHANGED world

(****************************************************************************)
(* V1 and V2: a link commits to the one above, and its issuer is the        *)
(* subject of the one above.                                                *)
(****************************************************************************)
Committed(c, i) ==
  /\ Link(c, i).parent = chain[c][i - 1].raw
  /\ Link(c, i).depth = Link(c, i - 1).depth + 1

Custody(c, i) == Link(c, i).iss = Link(c, i - 1).sub

Structure(c) ==
  /\ pc[c] = "structure"
  /\ IF ~ Committed(c, at[c]) THEN Conclude(c, "V1")
     ELSE IF ~ Custody(c, at[c]) THEN Conclude(c, "V2")
     ELSE NextLink(c, "signatures", 1)
  /\ UNCHANGED world

\* V3: the signature verifies with the issuer's key, or it does not.  Keys that
\* are not in a ring but fetched (Jwks) may also fail to resolve.
CheckSignature(c) ==
  /\ pc[c] = "signatures"
  /\ \/ /\ VerifySignature(Link(c, at[c]).iss, chain[c][at[c]])
        /\ NextLink(c, "time", 1)
     \/ Conclude(c, "V3")
  /\ UNCHANGED world

(****************************************************************************)
(* V4: the clock is read once for all links.                                *)
(****************************************************************************)
CurrentAt(t, claims) ==
  /\ t + Skew >= claims.iat * Second
  /\ t - Skew < claims.exp * Second

TimeIsGood(c) ==
  IF Len(chain[c]) > 1 THEN GoTo(c, "attenuation", 2) ELSE GoTo(c, "root", 1)

Time(c) ==
  /\ pc[c] = "time"
  /\ IF \A i \in DOMAIN chain[c] : CurrentAt(clock, Link(c, i)) THEN TimeIsGood(c) ELSE Conclude(c, "V4")
  /\ UNCHANGED world

\* Mutated: compares each link with the grant and forgets the links between.
Attenuation_skipsMiddle(c) ==
  /\ pc[c] = "attenuation"
  /\ IF Attenuates(Link(c, 1), Link(c, at[c])) THEN NextLink(c, "root", 1) ELSE Conclude(c, "V5")
  /\ UNCHANGED world

\* V5: a link attenuates the one above.
Attenuation(c) ==
  /\ pc[c] = "attenuation"
  /\ IF Attenuates(Link(c, at[c] - 1), Link(c, at[c])) THEN NextLink(c, "root", 1) ELSE Conclude(c, "V5")
  /\ UNCHANGED world

\* V6: every link names the sponsor of the first.
Root(c) ==
  /\ pc[c] = "root"
  /\ IF \A i \in DOMAIN chain[c] : Link(c, i).root = Link(c, 1).root
     THEN GoTo(c, "depth", 1) ELSE Conclude(c, "V6")
  /\ UNCHANGED world

\* Mutated: the sponsor's limit counts links, not hops.
Depth_offByOne(c) ==
  /\ pc[c] = "depth"
  /\ IF Len(chain[c]) > Link(c, 1).maxDepth THEN Conclude(c, "V7") ELSE GoTo(c, "revocation", 1)
  /\ UNCHANGED world

\* V7: no more hops than the sponsor permitted.
Depth(c) ==
  /\ pc[c] = "depth"
  /\ IF Len(chain[c]) - 1 > Link(c, 1).maxDepth THEN Conclude(c, "V7") ELSE GoTo(c, "revocation", 1)
  /\ UNCHANGED world

(****************************************************************************)
(* V8: the checker is asked about every link.  It may err on the side of    *)
(* "revoked" and may be unable to answer; it never calls a revoked jti      *)
(* clear.                                                                   *)
(****************************************************************************)
\* Mutated: an unanswered check starts over with the first link.
Revocation_retries(c) ==
  /\ pc[c] = "revocation"
  /\ \/ Link(c, at[c]).jti \notin revoked /\ NextLink(c, "audience", 1)
     \/ Conclude(c, "V8")
     \/ GoTo(c, "revocation", 1)
  /\ UNCHANGED world

\* Mutated: asks about the assertion that is presented only.
Revocation_leafOnly(c) ==
  /\ pc[c] = "revocation"
  /\ \/ Leaf(c).jti \notin revoked /\ GoTo(c, "audience", 1)
     \/ Conclude(c, "V8")
  /\ UNCHANGED world

Revocation(c) ==
  /\ pc[c] = "revocation"
  /\ \/ Link(c, at[c]).jti \notin revoked /\ NextLink(c, "audience", 1)
     \/ Conclude(c, "V8")
  /\ UNCHANGED world

\* V9: the leaf is addressed to this resource server.
AddressedTo(c) ==
  /\ pc[c] = "audience"
  /\ Conclude(c, IF Leaf(c).aud = Audience THEN "ok" ELSE "V9")
  /\ UNCHANGED world

Return(c) ==
  /\ pc[c] = "done"
  /\ pc' = [pc EXCEPT ![c] = "idle"]
  /\ chain' = [chain EXCEPT ![c] = << >>]
  /\ at' = [at EXCEPT ![c] = 1]
  /\ verdict' = [verdict EXCEPT ![c] = "none"]
  /\ UNCHANGED <<world, began>>

(****************************************************************************)
(* The world.                                                               *)
(****************************************************************************)
Tick ==
  /\ clock < MaxClock
  /\ clock' = clock + 1
  /\ UNCHANGED <<revoked, pc, chain, at, verdict, began>>

Revoke(id) ==
  /\ id \notin revoked
  /\ revoked' = revoked \cup {id}
  /\ UNCHANGED <<clock, pc, chain, at, verdict, began>>

Check(c) ==
  \/ Parse(c) \/ Validate(c) \/ Structure(c) \/ CheckSignature(c) \/ Time(c) \/ Attenuation(c)
  \/ Root(c) \/ Depth(c) \/ Revocation(c) \/ AddressedTo(c)

Next ==
  \/ \E c \in Call, ch \in Presented : Verify(c, ch)
  \/ \E c \in Call : Check(c) \/ Return(c)
  \/ Tick
  \/ \E id \in Id \ {Empty} : Revoke(id)

Spec == Init /\ [][Next]_vars

\* A goroutine in Verify runs, and what it calls returns: both interfaces
\* have an error for a question that cannot be answered.
FairSpec == Spec /\ \A c \in Call : WF_vars(Check(c))

(****************************************************************************)
(* Properties.                                                              *)
(****************************************************************************)
Looping == {"signatures", "attenuation", "revocation", "structure"}

TypeOK ==
  /\ clock \in Nat
  /\ revoked \subseteq Id
  /\ pc \in [Call -> {"idle", "parse", "validate", "time", "root", "depth", "audience", "done"} \cup Looping]
  /\ chain \in [Call -> Seq(Assertion)]
  /\ at \in [Call -> Nat \ {0}]
  /\ \A c \in Call : pc[c] \in Looping => at[c] <= Len(chain[c])
  /\ verdict \in [Call -> {"none", "ok", "V1", "V2", "V3", "V4", "V5", "V6", "V7", "V8", "V9"}]
  /\ began \in [Call -> [clock : Nat, revoked : SUBSET Id]]

Accepted(c) == verdict[c] = "ok"
Links(c) == DOMAIN chain[c]

\* Every link of an accepted chain is within every link above it, the
\* sponsor's grant included, and the chain has no more hops than that grant
\* allows, although each check compares neighbours only.
AcceptedNarrows ==
  \A c \in Call : Accepted(c) =>
    /\ Len(chain[c]) - 1 <= Link(c, 1).maxDepth
    /\ \A i, j \in Links(c) : i <= j => Within(Link(c, i), Link(c, j))

\* No request is permitted by an accepted leaf that any link above it does
\* not permit itself.
AcceptedGainsNothing ==
  \A c \in Call : Accepted(c) =>
    \A i \in Links(c), req \in Asked : Permits(Leaf(c).caps, req) => Permits(Link(c, i).caps, req)

\* Every link of an accepted chain below the first was signed by the one to
\* whom the link above delegated, over exactly the bytes presented and for
\* exactly that link: nobody off the path signed, whatever key identifier the
\* link names, and no link was lifted from another chain.
AcceptedInCustody ==
  \A c \in Call : Accepted(c) =>
    /\ SignedBy(chain[c][1], Link(c, 1).iss)
    /\ \A i \in Links(c) \ {1} :
         SignedBy(chain[c][i], Link(c, i - 1).sub) /\ Link(c, i).parent = chain[c][i - 1].raw

\* Rotation takes: a key that was replaced for its issuer and kid, and added
\* nowhere else since, signs no link of an accepted chain (jose.go:158-160).
ReplacedKeySignsNothing ==
  \A c \in Call : Accepted(c) =>
    \A i \in Links(c) : \E j \in DOMAIN Added :
      /\ Added[j].key = chain[c][i].signature.key
      /\ \A k \in DOMAIN Added : k > j /\ Added[k].key # Nil =>
           <<Added[k].iss, Added[k].kid>> # <<Added[j].iss, Added[j].kid>>

\* No accepted chain has a link that was revoked when the call began, and at one
\* instant of the call all its links were current together, neither before their
\* issue nor expired, however long the call took and whatever happened meanwhile.
AcceptedWasLive ==
  \A c \in Call : Accepted(c) =>
    /\ \A i \in Links(c) : Link(c, i).jti \notin began[c].revoked
    /\ \E t \in began[c].clock .. clock : \A i \in Links(c) : CurrentAt(t, Link(c, i))

\* What an accepted chain claims is Acceptable: the promise that whoever builds
\* on verification relies on.
ClaimsOf(c) == [i \in Links(c) |-> Link(c, i)]
AcceptsTheAcceptable == \A c \in Call : Accepted(c) => Acceptable(ClaimsOf(c), began[c])

(****************************************************************************)
(* What a verdict says of the chain it was reached on.                      *)
(****************************************************************************)
WellFormed(c) ==
  /\ chain[c] # << >>
  /\ \A i \in Links(c) : ClaimsRead(chain[c][i]) /\ ValidClaims(Link(c, i))
  /\ Link(c, 1).depth = 0 /\ Link(c, 1).parent = NoParent
  /\ \A i \in Links(c) \ {1} : Committed(c, i)

Descends(c)   == \A i \in Links(c) \ {1} : Custody(c, i)
Signed(c)     == \A i \in Links(c) : VerifySignature(Link(c, i).iss, chain[c][i])
StepsDown(c)  == \A i \in Links(c) \ {1} : Attenuates(Link(c, i - 1), Link(c, i))
OneSponsor(c) == \A i \in Links(c) : Link(c, i).root = Link(c, 1).root

CurrentThroughout(c) ==
  \A i \in Links(c), t \in began[c].clock .. clock : CurrentAt(t, Link(c, i))

HasCause(c, v) ==
  /\ v = "V1" => ~ WellFormed(c)
  /\ v = "V2" => ~ Descends(c)
  /\ v = "V4" => ~ CurrentThroughout(c)
  /\ v = "V5" => ~ StepsDown(c)
  /\ v = "V6" => ~ OneSponsor(c)
  /\ v # "V7"
  /\ v = "V9" => Leaf(c).aud # Audience
  /\ v = "ok" => Leaf(c).aud = Audience
  /\ v \in {"V4", "V5", "V6", "V8", "V9", "ok"} => WellFormed(c) /\ Descends(c) /\ Signed(c)
  /\ v \in {"V6", "V8", "V9", "ok"} => StepsDown(c)
  /\ v \in {"V8", "V9", "ok"} => OneSponsor(c)

\* A chain is refused for a rule it breaks: one that keeps the rules about its
\* claims and is current from the call to the answer can only be refused over
\* a key that is not found (V3) or a revocation (V8).  The rules are tried in
\* order: what is not authentic is compared with nothing, and no checker is
\* asked about a chain that does not narrow.  V7 never decides, V5 and the
\* structural rules leave nothing for it (verify.go:306-308).
VerdictHasCause == \A c \in Call : HasCause(c, verdict[c])

\* parse.go:59-64: data after the claims object is refused, as it is how one
\* payload gets read two ways by two implementations.
NothingFollowsTheClaims ==
  \A c \in Call : Accepted(c) => \A i \in Links(c) : chain[c][i].payload.rest = "nothing"

\* Every verification comes to a verdict.
EveryVerificationReturns == \A c \in Call : (pc[c] = "parse") ~> (pc[c] = "done")
=============================================================================
