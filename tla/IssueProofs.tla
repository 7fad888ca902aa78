----------------------------- MODULE IssueProofs -----------------------------
(****************************************************************************)
(* Theorems about Issue: whatever grants are offered and in whatever order  *)
(* agents delegate, every assertion that is signed follows its parent and   *)
(* stays within the sponsor grant at the root of its path.  The step from   *)
(* one link to the whole path is the transitivity of attenuation            *)
(* (GrantsProofs); nothing here bounds the length of a path.                *)
(****************************************************************************)
EXTENDS Issue, GrantsProofs

Link == Claims(Principal, Id)

-----------------------------------------------------------------------------
(****************************************************************************)
(* The inductive invariant is the conjunction of the run's invariants.      *)
(****************************************************************************)
IInv == TypeOK /\ EveryLinkVerifies /\ GrantBoundsDescendants

\* What signing does to the list.
LEMMA SignAppends ==
  ASSUME TypeOK, NEW c, NEW r, c \in Link, r \in 1 .. (Len(issued) + 1), Sign(c, r),
         c.parent \in 0 .. Len(issued)
  PROVE  /\ TypeOK'
         /\ ValidClaims(c)
         /\ Len(issued) \in Nat
         /\ Len(issued') = Len(issued) + 1
         /\ issued'[Len(issued) + 1] = c /\ rootOf'[Len(issued) + 1] = r
         /\ \A n \in Numbers : /\ issued[n] \in Link
                               /\ issued'[n] = issued[n] /\ rootOf'[n] = rootOf[n]
<1>1. issued \in Seq(Link) /\ rootOf \in Seq(Nat) /\ Len(rootOf) = Len(issued)
  BY DEF TypeOK, Link
<1>2. /\ issued' = Append(issued, c) /\ rootOf' = Append(rootOf, r) /\ ValidClaims(c)
      /\ r \in Nat
  BY <1>1 DEF Sign
<1>3. /\ Len(issued) \in Nat
      /\ Len(issued') = Len(issued) + 1 /\ Len(rootOf') = Len(issued) + 1
      /\ issued' \in Seq(Link) /\ rootOf' \in Seq(Nat)
      /\ issued'[Len(issued) + 1] = c /\ rootOf'[Len(issued) + 1] = r
      /\ \A n \in 1 .. Len(issued) : /\ issued[n] \in Link
                                     /\ issued'[n] = issued[n] /\ rootOf'[n] = rootOf[n]
  BY <1>1, <1>2
<1>4. TypeOK'
  <2>1. ASSUME NEW n \in 1 .. (Len(issued) + 1)
        PROVE  rootOf'[n] \in 1 .. n /\ issued'[n].parent \in 0 .. (n - 1)
    <3>1. CASE n = Len(issued) + 1
      BY <3>1, <1>3
    <3>2. CASE n # Len(issued) + 1
      <4>1. n \in 1 .. Len(issued) /\ issued'[n] = issued[n] /\ rootOf'[n] = rootOf[n]
        BY <3>2, <1>3
      <4> QED
        BY <4>1 DEF TypeOK, Numbers
    <3> QED
      BY <3>1, <3>2
  <2> QED
    BY <1>3, <2>1 DEF TypeOK, Numbers, Link
<1> QED
  BY <1>2, <1>3, <1>4 DEF Numbers

LEMMA SponsorType ==
  ASSUME NEW signer \in Principal, NEW sponsor \in Human, NEW g \in Offer, Sponsor(signer, sponsor, g)
  PROVE  ClaimsOf(g, signer, g.aud, sponsor, 0, g.maxDepth, NoParent, g.seq) \in Link
<1>1. g \in Grant /\ sponsor \in [iss : Principal, sub : Principal]
  BY IssueAssumption
<1>2. g.iat \div Second \in Int /\ (g.iat + g.lifetime) \div Second \in Int
  BY <1>1, IssueAssumption DEF Grant
<1>3. g.maxDepth \in Int
  BY <1>1 DEF Sponsor, Grant
<1> QED
  BY <1>1, <1>2, <1>3 DEF ClaimsOf, Link, Claims, Grant, NoParent

LEMMA DelegateType ==
  ASSUME TypeOK, NEW signer \in Principal, NEW n \in Numbers, NEW g \in Offer,
         Delegate(signer, n, g)
  PROVE  ClaimsOf(g, signer, Inherited(g, issued[n]).aud, issued[n].root, issued[n].depth + 1,
                  Inherited(g, issued[n]).maxDepth, n, Inherited(g, issued[n]).seq) \in Link
<1>1. g \in Grant
  BY IssueAssumption
<1>2. issued[n] \in Link /\ n \in Nat
  BY DEF TypeOK, Numbers, Link
<1>3. g.iat \div Second \in Int /\ (g.iat + g.lifetime) \div Second \in Int
  BY <1>1, IssueAssumption DEF Grant
<1>4. /\ Inherited(g, issued[n]).aud \in Principal
      /\ Inherited(g, issued[n]).maxDepth \in Int
      /\ Inherited(g, issued[n]).seq \in Sequence \cup {Nil}
  BY <1>1, <1>2 DEF Inherited, Grant, Link, Claims
<1> QED
  BY <1>1, <1>2, <1>3, <1>4 DEF ClaimsOf, Link, Claims, Grant

LEMMA InitInv == Init => IInv
BY DEF Init, IInv, TypeOK, EveryLinkVerifies, GrantBoundsDescendants, Numbers

\* What EveryLinkVerifies says of assertion n, among the assertions links.
Follows(links, n) ==
  /\ ValidClaims(links[n])
  /\ links[n].parent = NoParent => links[n].depth = 0 /\ links[n].aud # Empty
  /\ links[n].parent # NoParent =>
       /\ links[n].depth = links[links[n].parent].depth + 1
       /\ links[n].iss = links[links[n].parent].sub
       /\ links[n].root = links[links[n].parent].root
       /\ Attenuates(links[links[n].parent], links[n])

\* What was issued before goes on to follow its parent.
LEMMA OldLinksFollow ==
  ASSUME IInv, \A n \in Numbers : issued'[n] = issued[n]
  PROVE  \A n \in Numbers : Follows(issued', n)
<1> SUFFICES ASSUME NEW n \in Numbers PROVE Follows(issued', n)
  OBVIOUS
<1>1. issued[n].parent # NoParent => issued[n].parent \in Numbers
  BY DEF IInv, TypeOK, Numbers, NoParent
<1>2. Follows(issued, n)
  BY DEF IInv, EveryLinkVerifies, Follows
<1>3. issued'[n] = issued[n]
  OBVIOUS
<1>4. issued[n].parent # NoParent => issued'[issued[n].parent] = issued[issued[n].parent]
  BY <1>1
<1> QED
  BY <1>2, <1>3, <1>4 DEF Follows

LEMMA SponsorInv ==
  ASSUME IInv, NEW signer \in Principal, NEW sponsor \in Human, NEW g \in Offer,
         Sponsor(signer, sponsor, g)
  PROVE  IInv'
<1>1. PICK c \in Link : c = ClaimsOf(g, signer, g.aud, sponsor, 0, g.maxDepth, NoParent, g.seq)
  BY SponsorType
<1>2. Sign(c, Len(issued) + 1) /\ g.aud # Empty
  BY <1>1 DEF Sponsor
<1>3. PICK new \in Nat : new = Len(issued) + 1
  BY DEF IInv, TypeOK
<1>4. c.parent = NoParent /\ c.depth = 0 /\ c.aud = g.aud
  BY <1>1 DEF ClaimsOf
<1>5. /\ TypeOK' /\ ValidClaims(c)
      /\ Len(issued) \in Nat /\ Len(issued') = new
      /\ issued'[new] = c /\ rootOf'[new] = new
      /\ \A n \in Numbers : issued[n] \in Link /\ issued'[n] = issued[n] /\ rootOf'[n] = rootOf[n]
  BY <1>2, <1>3, <1>4, SignAppends DEF IInv, TypeOK, NoParent
<1>6. Numbers' = Numbers \cup {new} /\ new \notin Numbers
  BY <1>3, <1>5 DEF Numbers
<1>7. Within(c, c)
  BY <1>5, BoundsReflexive DEF Link, Within
<1>8. EveryLinkVerifies'
  <2>1. Follows(issued', new)
    BY <1>2, <1>4, <1>5 DEF Follows
  <2> QED
    BY <1>5, <1>6, <2>1, OldLinksFollow DEF EveryLinkVerifies, Follows
<1>9. GrantBoundsDescendants'
  <2>1. \A n \in Numbers : rootOf[n] \in Numbers
    BY DEF IInv, TypeOK, Numbers
  <2> QED
    BY <1>4, <1>5, <1>6, <1>7, <2>1 DEF IInv, GrantBoundsDescendants
<1> QED
  BY <1>5, <1>8, <1>9 DEF IInv

LEMMA DelegateInv ==
  ASSUME IInv, NEW signer \in Principal, NEW m \in Numbers, NEW g \in Offer,
         Delegate(signer, m, g)
  PROVE  IInv'
<1> DEFINE got == Inherited(g, issued[m])
<1>1. PICK c \in Link : c = ClaimsOf(g, signer, got.aud, issued[m].root, issued[m].depth + 1,
                                  got.maxDepth, m, got.seq)
  BY DelegateType DEF IInv
<1>2. /\ Sign(c, rootOf[m]) /\ Attenuates(issued[m], c) /\ signer = issued[m].sub
  BY <1>1 DEF Delegate
<1>3. PICK new \in Nat : new = Len(issued) + 1
  BY DEF IInv, TypeOK
<1>4. /\ c.parent = m /\ c.depth = issued[m].depth + 1 /\ c.root = issued[m].root
      /\ c.iss = signer
  BY <1>1 DEF ClaimsOf
<1>5. rootOf[m] \in Numbers /\ m \in 1 .. Len(issued)
  BY DEF IInv, TypeOK, Numbers
<1>6. /\ TypeOK' /\ ValidClaims(c)
      /\ Len(issued) \in Nat /\ Len(issued') = new
      /\ issued'[new] = c /\ rootOf'[new] = rootOf[m]
      /\ \A n \in Numbers : issued[n] \in Link /\ issued'[n] = issued[n] /\ rootOf'[n] = rootOf[n]
  <2>1. TypeOK /\ Len(issued) \in Nat
    BY DEF IInv, TypeOK
  <2>2. rootOf[m] \in 1 .. (Len(issued) + 1) /\ c.parent \in 0 .. Len(issued)
    BY <1>4, <1>5, <2>1 DEF Numbers
  <2> QED
    BY <1>2, <1>3, <2>1, <2>2, SignAppends
<1>7. Numbers' = Numbers \cup {new} /\ new \notin Numbers
  BY <1>3, <1>6 DEF Numbers
<1>8. Within(issued[rootOf[m]], c)
  <2>1. /\ ValidClaims(issued[m]) /\ ValidClaims(issued[rootOf[m]])
        /\ Within(issued[rootOf[m]], issued[m])
    BY <1>5 DEF IInv, EveryLinkVerifies, GrantBoundsDescendants
  <2> QED
    BY <1>2, <1>4, <1>5, <1>6, <2>1, BoundsAttenuates DEF Link, Within
<1>9. EveryLinkVerifies'
  <2>1. m # NoParent /\ issued'[m] = issued[m]
    BY <1>5, <1>6 DEF NoParent
  <2>2. Follows(issued', new)
    BY <1>2, <1>4, <1>6, <2>1 DEF Follows
  <2> QED
    BY <1>6, <1>7, <2>2, OldLinksFollow DEF EveryLinkVerifies, Follows
<1>10. GrantBoundsDescendants'
  <2>1. \A n \in Numbers : rootOf[n] \in Numbers
    BY DEF IInv, TypeOK, Numbers
  <2> QED
    BY <1>5, <1>6, <1>7, <1>8, <2>1 DEF IInv, GrantBoundsDescendants
<1> QED
  BY <1>6, <1>9, <1>10 DEF IInv

LEMMA NextInv == IInv /\ [Next]_vars => IInv'
<1> SUFFICES ASSUME IInv, [Next]_vars PROVE IInv'
  OBVIOUS
<1>1. CASE UNCHANGED vars
  BY <1>1 DEF vars, IInv, TypeOK, EveryLinkVerifies, GrantBoundsDescendants, Numbers
<1> QED
  BY <1>1, SponsorInv, DelegateInv DEF Next, Numbers

-----------------------------------------------------------------------------
\* Every issued assertion is well typed, and its parent was issued before it.
THEOREM TypeCorrect == Spec => []TypeOK
<1>1. IInv => TypeOK
  BY DEF IInv
<1> QED
  BY <1>1, InitInv, NextInv, PTL DEF Spec

\* Every issued assertion is valid and follows its parent.
THEOREM LinksCorrect == Spec => []EveryLinkVerifies
<1>1. IInv => EveryLinkVerifies
  BY DEF IInv
<1> QED
  BY <1>1, InitInv, NextInv, PTL DEF Spec

\* A sponsor's grant bounds everything below it.
THEOREM GrantBounds == Spec => []GrantBoundsDescendants
<1>1. IInv => GrantBoundsDescendants
  BY DEF IInv
<1> QED
  BY <1>1, InitInv, NextInv, PTL DEF Spec

\* No delegation, and no sequence of delegations, lets an agent ask for what
\* the sponsor's grant does not permit.
THEOREM NothingGained == Spec => []NothingGainedBelow
<1>1. IInv => NothingGainedBelow
  <2> SUFFICES ASSUME IInv, NEW n \in Numbers, NEW req \in Asked, Permits(issued[n].caps, req)
               PROVE  Permits(issued[rootOf[n]].caps, req)
    BY DEF NothingGainedBelow
  <2>1. rootOf[n] \in Numbers /\ issued[n] \in Link /\ issued[rootOf[n]] \in Link
    BY DEF IInv, TypeOK, Numbers, Link
  <2>2. ValidClaims(issued[n]) /\ ValidClaims(issued[rootOf[n]])
    BY <2>1 DEF IInv, EveryLinkVerifies
  <2>3. /\ issued[n].caps \in SUBSET Capability /\ issued[rootOf[n]].caps \in SUBSET Capability
        /\ \A k \in issued[n].caps \cup issued[rootOf[n]].caps : ValidCapability(k)
    BY <2>1, <2>2 DEF Link, Claims, ValidClaims
  <2>4. CapsEntailed(issued[rootOf[n]].caps, issued[n].caps)
    BY DEF IInv, GrantBoundsDescendants, Within, Bounds
  <2>5. req \in Request
    BY IssueAssumption
  <2> QED
    BY <2>3, <2>4, <2>5, PermitsSound
<1> QED
  BY <1>1, InitInv, NextInv, PTL DEF Spec

\* The assertions from a sponsor's grant down to one of its descendants.
Paths == {s \in Seq(Numbers) : /\ s # << >> /\ issued[s[1]].parent = NoParent
                               /\ \A i \in DOMAIN s : rootOf[s[i]] = s[1]
                               /\ \A i \in DOMAIN s \ {1} : issued[s[i]].parent = s[i - 1]}

\* Every path that was issued is a descent, whoever delegated in whatever
\* order; VerifyProofs shows that a descent is refused for no rule about its
\* claims (issue.go:9-17).
THEOREM PathsDescend == Spec => [](\A s \in Paths : Descent([i \in DOMAIN s |-> issued[s[i]]], s))
<1>1. IInv => \A s \in Paths : Descent([i \in DOMAIN s |-> issued[s[i]]], s)
  <2> SUFFICES ASSUME IInv, NEW s \in Paths
               PROVE  Descent([i \in DOMAIN s |-> issued[s[i]]], s)
    OBVIOUS
  <2> DEFINE ch == [i \in DOMAIN s |-> issued[s[i]]]
  <2>1. /\ s \in Seq(Numbers) /\ s # << >> /\ issued[s[1]].parent = NoParent
        /\ \A i \in DOMAIN s : rootOf[s[i]] = s[1]
        /\ \A i \in DOMAIN s \ {1} : issued[s[i]].parent = s[i - 1]
    BY DEF Paths
  <2>2. /\ \A i \in DOMAIN s : s[i] \in Numbers /\ ch[i] = issued[s[i]]
        /\ 1 \in DOMAIN s /\ \A i \in DOMAIN s \ {1} : i - 1 \in DOMAIN s
    BY <2>1
  <2>3. \A n \in Numbers : n # NoParent
    BY DEF Numbers, NoParent
  <2>4. \A i \in DOMAIN ch : ValidClaims(ch[i])
    BY <2>2 DEF IInv, EveryLinkVerifies
  <2>5. ASSUME NEW i \in DOMAIN ch \ {1}
        PROVE  /\ ch[i].parent = s[i - 1] /\ ch[i].depth = ch[i - 1].depth + 1
               /\ ch[i].iss = ch[i - 1].sub /\ ch[i].root = ch[1].root
               /\ Attenuates(ch[i - 1], ch[i])
    <3>1. /\ s[i] \in Numbers /\ s[i - 1] \in Numbers
          /\ ch[i] = issued[s[i]] /\ ch[i - 1] = issued[s[i - 1]] /\ ch[i].parent = s[i - 1]
      BY <2>1, <2>2, <2>5
    <3>2. ch[i].root = ch[1].root
      BY <2>1, <2>2, <3>1 DEF IInv, GrantBoundsDescendants, Within
    <3> QED
      BY <2>3, <3>1, <3>2 DEF IInv, EveryLinkVerifies
  <2>6. ch # << >> /\ ch[1].parent = NoParent
    BY <2>1, <2>2
  <2> QED
    BY <2>4, <2>5, <2>6 DEF Descent
<1> QED
  BY <1>1, InitInv, NextInv, PTL DEF Spec
=============================================================================
