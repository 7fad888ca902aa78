------------------------------- MODULE MCIssue -------------------------------
(****************************************************************************)
(* An instance of Issue for TLC: one human and two agents.                  *)
(****************************************************************************)
EXTENDS Issue, MCGrants

Who    == {"", "idp", "ann", "bob"}
Jtis   == {"", "j"}
Humans == {[iss |-> "idp", sub |-> "ann"], [iss |-> "", sub |-> "ann"]}

G(sub, aud, life, depth, caps, seq) ==
  [sub |-> sub, aud |-> aud, jti |-> "j", iat |-> 5, lifetime |-> life,
   maxDepth |-> depth, caps |-> caps, seq |-> seq]

Offers ==
  { G("ann", "idp", 20, 2, {AnyA, Pathed}, Sq(2, <<Once>>)),
    G("ann", "idp", 25, 2, {Sized, Exact}, Nil),
    G("ann", "", 18, Nil, {AnyAB, Listed, Nowhere}, Nil),
    G("ann", "", 14, Nil, {Smaller}, Sq(1, <<Once>>)),
    G("bob", "idp", 20, 0, {Smallest, JustA}, Sq(0, <<Once>>)),
    G("bob", "", 9, Nil, {Exact}, Sq(1, << >>)),
    G("bob", "", 25, Nil, {JustA}, Nil),
    G("bob", "bob", 20, 0, Nil, Nil) }
=============================================================================
