-------------------------------- MODULE Issue --------------------------------
(****************************************************************************)
(* pkg/issue: sponsors and agents issue delegation assertions.              *)
(*                                                                          *)
(* issued lists every assertion in the order it was signed, and the number  *)
(* of an assertion stands for its serialization: a child commits to the     *)
(* number of its parent.  Anyone may delegate below any assertion, at any   *)
(* time, in any order, so the assertions form a forest of grants.  A call   *)
(* that issue refuses returns an error and signs nothing.                   *)
(****************************************************************************)
EXTENDS Grants, FiniteSets

CONSTANTS Principal, \* issuers, subjects, audiences, sponsors; Empty among them
          Id,        \* jti values, Empty among them
          Human,     \* the sponsors, an issuer and a subject each
          Offer,     \* the grants callers ask for
          Asked,     \* the requests made under them
          Second,    \* clock ticks in a second: claims count seconds
          MaxIssued  \* bound: assertions issued in one behaviour

Grant == [sub : Principal, aud : Principal, jti : Id, iat : Nat, lifetime : Int,
          maxDepth : Int \cup {Nil}, caps : (SUBSET Capability) \cup {Nil},
          seq : Sequence \cup {Nil}]

ASSUME IssueAssumption ==
  /\ Empty \in Principal /\ Empty \in Id
  /\ Human \subseteq [iss : Principal, sub : Principal]
  /\ Offer \subseteq Grant
  /\ Asked \subseteq Request
  /\ Second \in Nat \ {0}
  /\ MaxIssued \in Nat

ASSUME NilIsNoInt == Nil \notin Int

VARIABLES issued,  \* the assertions, by number
          rootOf   \* history: the number of the sponsor grant each descends from

vars == <<issued, rootOf>>

Init == issued = << >> /\ rootOf = << >>

(****************************************************************************)
(* Grant.claims: the claims of the new assertion, and when there are none.  *)
(****************************************************************************)
WellFormed(g) == g.sub # Empty /\ g.jti # Empty /\ g.caps # Nil /\ g.lifetime > 0

ClaimsOf(g, iss, aud, root, depth, maxDepth, parent, seq) ==
  [iss |-> iss, sub |-> g.sub, aud |-> aud,
   iat |-> g.iat \div Second, exp |-> (g.iat + g.lifetime) \div Second,
   jti |-> g.jti, root |-> root, depth |-> depth, maxDepth |-> maxDepth, parent |-> parent,
   caps |-> g.caps, seq |-> seq]

\* sign: nothing that could never verify is signed.
Sign(claims, root) ==
  /\ ValidClaims(claims)
  /\ issued' = Append(issued, claims)
  /\ rootOf' = Append(rootOf, root)

(****************************************************************************)
(* A sponsor's grant starts a chain.                                        *)
(****************************************************************************)
Sponsor(signer, sponsor, g) ==
  /\ Len(issued) < MaxIssued
  /\ signer # Empty
  /\ sponsor.iss # Empty /\ sponsor.sub # Empty
  /\ g.aud # Empty
  /\ g.maxDepth # Nil /\ g.maxDepth >= 0
  /\ WellFormed(g)
  /\ Sign(ClaimsOf(g, signer, g.aud, sponsor, 0, g.maxDepth, NoParent, g.seq), Len(issued) + 1)

(****************************************************************************)
(* A sub-delegation derives depth, sponsor and commitment from its parent;  *)
(* what the grant leaves unset it inherits.                                 *)
(****************************************************************************)
Inherited(g, p) ==
  [aud |-> IF g.aud = Empty THEN p.aud ELSE g.aud,
   maxDepth |-> IF g.maxDepth = Nil THEN p.maxDepth - 1 ELSE g.maxDepth,
   seq |-> IF g.seq = Nil THEN p.seq ELSE g.seq]

\* Mutated: any agent may delegate what another was granted.
Delegate_anySigner(signer, n, g) ==
  LET p == issued[n]  got == Inherited(g, p)
      child == ClaimsOf(g, signer, got.aud, p.root, p.depth + 1, got.maxDepth, n, got.seq)
  IN  /\ Len(issued) < MaxIssued
      /\ signer # Empty
      /\ p.maxDepth >= 1
      /\ got.maxDepth <= p.maxDepth - 1 /\ got.maxDepth >= 0
      /\ WellFormed(g)
      /\ Attenuates(p, child)
      /\ Sign(child, rootOf[n])

Delegate(signer, n, g) ==
  LET p == issued[n]  got == Inherited(g, p)
      child == ClaimsOf(g, signer, got.aud, p.root, p.depth + 1, got.maxDepth, n, got.seq)
  IN  /\ Len(issued) < MaxIssued
      /\ signer # Empty /\ signer = p.sub
      /\ p.maxDepth >= 1
      /\ got.maxDepth <= p.maxDepth - 1 /\ got.maxDepth >= 0
      /\ WellFormed(g)
      /\ Attenuates(p, child)
      /\ Sign(child, rootOf[n])

Next ==
  \/ \E signer \in Principal, sponsor \in Human, g \in Offer : Sponsor(signer, sponsor, g)
  \/ \E signer \in Principal, n \in 1 .. Len(issued), g \in Offer : Delegate(signer, n, g)

Spec == Init /\ [][Next]_vars

(****************************************************************************)
(* Properties.                                                              *)
(****************************************************************************)
Numbers == 1 .. Len(issued)

TypeOK ==
  /\ issued \in Seq(Claims(Principal, Id))
  /\ rootOf \in Seq(Nat)
  /\ Len(rootOf) = Len(issued)
  /\ \A n \in Numbers : rootOf[n] \in 1 .. n /\ issued[n].parent \in 0 .. (n - 1)

\* issue.go:9-17: nothing is signed that verification would refuse on grounds
\* an issuer can determine.  Every link is valid, and follows its parent.
EveryLinkVerifies ==
  \A n \in Numbers :
    /\ ValidClaims(issued[n])
    /\ issued[n].parent = NoParent => issued[n].depth = 0 /\ issued[n].aud # Empty
    /\ issued[n].parent # NoParent =>
         LET p == issued[issued[n].parent]
         IN  /\ issued[n].depth = p.depth + 1
             /\ issued[n].iss = p.sub
             /\ issued[n].root = p.root
             /\ Attenuates(p, issued[n])

\* A sponsor's grant bounds everything below it, however long the path:
\* every issued assertion is within the sponsor grant it descends from.
GrantBoundsDescendants ==
  \A n \in Numbers : issued[rootOf[n]].depth = 0 /\ Within(issued[rootOf[n]], issued[n])

\* No request is permitted below a sponsor grant that the grant does not
\* permit itself.
NothingGainedBelow ==
  \A n \in Numbers, req \in Asked :
    Permits(issued[n].caps, req) => Permits(issued[rootOf[n]].caps, req)
=============================================================================
