------------------------------ MODULE MCEnforcer ------------------------------
(****************************************************************************)
(* Instances of Enforcer for TLC: a grant with a budget, one with a rule    *)
(* and one with neither; delegations below them, one that does not narrow,  *)
(* and two siblings that give the same name to different rules.             *)
(****************************************************************************)
EXTENDS Enforcer, MCGrants, TLC

Who  == {"idp", "ann", "bob", "res", ""}
\* Assertions that no chain has together share identifiers, to keep revocations few.
Jtis == {"", "r", "q", "c"}
Human == [iss |-> "idp", sub |-> "ann"]

Spender == [iss |-> "idp", sub |-> "ann", aud |-> "res", iat |-> 0, exp |-> 1, jti |-> "r",
            root |-> Human, depth |-> 0, maxDepth |-> 1, parent |-> 0,
            caps |-> {AnyAB, Listed, Sized}, seq |-> Sq(1, << >>)]
Lent    == [Spender EXCEPT !.iss = "ann", !.sub = "bob", !.jti = "c", !.depth = 1, !.maxDepth = 0,
            !.parent = 1, !.caps = {Smaller}]
Widened == [Lent EXCEPT !.caps = {AnyA}, !.seq = Nil]
Bound   == [Spender EXCEPT !.jti = "q", !.exp = 3, !.caps = {AnyA}, !.seq = Sq(0, <<Once>>)]
Hired   == [Bound EXCEPT !.iss = "ann", !.sub = "bob", !.jti = "c", !.depth = 1, !.maxDepth = 0,
            !.parent = 1]
\* A grant without a history, and two below it that each add a rule named once.
Free1   == [Bound EXCEPT !.jti = "c", !.seq = Nil]
Careful == [Hired EXCEPT !.jti = "r", !.seq = Sq(1, <<Once>>)]
Shy     == [Careful EXCEPT !.seq = Sq(0, <<[id |-> "once", forbid |-> OnExt, after |-> OnInvoke]>>)]

Chains == { <<Spender>>, <<Spender, Lent>>, <<Spender, Widened>>, <<Bound, Hired>>,
            <<Free1>>, <<Free1, Careful>>, <<Free1, Shy>> }
Spending == { <<Spender>>, <<Spender, Lent>> }

F(tags, k, v, n) == [tags |-> tags, attributes |-> On(k, v), requests |-> n]
Size(n) == [kind |-> "number", val |-> n]

Tools == {<< >>, <<"a">>, <<"a", "b">>}
OneTool == {<<"a", "b">>}

Catalog ==
  [t \in Tools |->
     CASE t = <<"a">> -> {F({"ext"}, "path", [kind |-> "string", val |-> <<"b">>], 1), F({}, "size", Size(3), 0)}
       [] t = <<"a", "b">> -> {F({"ext"}, "size", Size(2), 2)}
       [] OTHER -> {}]
OneCatalog == [t \in OneTool |-> {F({}, "size", Size(2), 1)}]

Calls == Permutations(Call)
=============================================================================
