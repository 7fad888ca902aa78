------------------------------- MODULE MCVerify -------------------------------
(****************************************************************************)
(* An instance of Verify for TLC: one sound chain of three links, presented *)
(* whole and in part, and chains that break one rule each.                  *)
(****************************************************************************)
EXTENDS Verify, MCGrants

Who  == {"", "idp", "ann", "bob", "cyd", "res"}
Jtis == {"", "r", "c", "d"}
Human == [iss |-> "idp", sub |-> "ann"]

\* One key each, and two of ann's: "1" was replaced by "2", and there is one
\* without a kid as well.  One key was refused for its size.
Keyholders == [k \in {"idp", "ann1", "ann2", "bob", "cyd"} |-> IF k \in {"ann1", "ann2"} THEN "ann" ELSE k]
Ring(iss, kid, key) == [iss |-> iss, kid |-> kid, key |-> key]
Rings == <<Ring("idp", "1", "idp"), Ring("ann", "1", "ann1"), Ring("bob", "1", "bob"), Ring("cyd", "1", "cyd"),
           Ring("ann", "1", "ann2"), Ring("ann", "", "ann2"), Ring("ann", "1", Nil)>>

A(raw, key, claims) == Sign(claims, IF key = "ann" THEN "ann2" ELSE key, "1", raw)

Granted == [iss |-> "idp", sub |-> "ann", aud |-> "res", iat |-> 1, exp |-> 2, jti |-> "r",
            root |-> Human, depth |-> 0, maxDepth |-> 2, parent |-> 0,
            caps |-> {AnyA, Pathed}, seq |-> Sq(2, <<Once>>)]
Lent    == [Granted EXCEPT !.iss = "ann", !.sub = "bob", !.jti = "c", !.depth = 1, !.maxDepth = 1,
            !.parent = 1, !.caps = {AnyAB, Sized}, !.seq = Sq(1, <<Once>>)]
Relent  == [Lent EXCEPT !.iss = "bob", !.sub = "cyd", !.jti = "d", !.depth = 2, !.maxDepth = 0,
            !.parent = 2, !.caps = {Smaller}]

R == A(1, "idp", Granted)
C == A(2, "ann", Lent)
D == A(3, "bob", Relent)

\* Another grant, under which the same agents stand, and one that allows no hop.
Elsewhere == A(4, "idp", [Granted EXCEPT !.caps = {JustA}])
Final     == A(5, "idp", [Granted EXCEPT !.maxDepth = 0])

Under(claims, parent) == [claims EXCEPT !.parent = parent]

Chains ==
  { << >>, <<R>>, <<R, C>>, <<R, C, D>>,
    <<C, D>>, <<R, D>>, <<Elsewhere, C>>,
    <<[R EXCEPT !.header.alg = "other"]>>, <<[R EXCEPT !.header.typ = "other"]>>, <<[R EXCEPT !.header.crit = TRUE]>>,
    <<[R EXCEPT !.header.known = FALSE]>>, <<[R EXCEPT !.parts = 2]>>, <<[R EXCEPT !.header = Nil]>>,
    <<R, [C EXCEPT !.payload = Nil]>>, <<R, [C EXCEPT !.payload.known = FALSE]>>, <<R, [C EXCEPT !.payload.rest = "value"]>>,
    <<[R EXCEPT !.signature.key = "ann2"], C>>, <<R, [C EXCEPT !.signature.key = "bob"]>>, <<R, [C EXCEPT !.signature.key = "ann1"]>>,
    <<R, [C EXCEPT !.header.kid = ""]>>, <<R, [C EXCEPT !.header.kid = "2"]>>, <<R, [C EXCEPT !.signature = Nil]>>,
    <<R, [C EXCEPT !.signature.over = 1]>>, <<R, A(17, "idp", Lent)>>,
    <<R, A(6, "cyd", [Lent EXCEPT !.iss = "cyd"])>>,
    <<R, A(7, "ann", [Lent EXCEPT !.root.sub = "bob"])>>,
    <<R, A(8, "ann", [Lent EXCEPT !.exp = 3])>>,
    <<R, C, A(9, "bob", [Relent EXCEPT !.caps = {AnyA}])>>,
    <<R, C, A(10, "bob", [Relent EXCEPT !.caps = {Smaller, Cap(<<"a", "*">>, {}, On("size", AtMost(3)))}])>>,
    <<R, A(11, "ann", [Lent EXCEPT !.seq = Sq(3, <<Once>>)])>>,
    <<R, A(12, "ann", [Lent EXCEPT !.seq = Sq(1, << >>)])>>,
    <<Final, A(13, "ann", [Under(Lent, 5) EXCEPT !.maxDepth = 0])>>,
    <<Final, A(14, "ann", [Under(Lent, 5) EXCEPT !.maxDepth = -1])>>,
    <<Elsewhere, A(16, "ann", [Under(Lent, 4) EXCEPT !.caps = {AnyA}])>>,
    <<A(15, "idp", [Granted EXCEPT !.aud = "ann"])>> }

\* The sponsor's grant with a closing bracket after the claims.
Bracketed == { <<[R EXCEPT !.payload.rest = "bracket"]>>, <<R>> }
=============================================================================
