------------------------------- MODULE MCGateway -------------------------------
(****************************************************************************)
(* An instance of Gateway for TLC: one grant with a budget of one call, an  *)
(* agent and a subagent under it, and tools with every kind of mapping.     *)
(****************************************************************************)
EXTENDS Gateway, MCGrants

Who   == {"", "idp", "ann", "bob", "res"}
Jtis  == {"", "r"}
Texts == Who \cup {"identity", "tool", "tools/call", "read", "write"}
Open  == {"iss", "ISS", "agent", "delegation", "amount"}
Folds == [f \in {"type", "id", "name"} \cup Open |-> IF f = "ISS" THEN "iss" ELSE f]

Grant == [iss |-> "idp", sub |-> "ann", aud |-> "res", iat |-> 0, exp |-> 1, jti |-> "r",
          root |-> [iss |-> "idp", sub |-> "ann"], depth |-> 0, maxDepth |-> 1, parent |-> 0,
          caps |-> {AnyA}, seq |-> Sq(1, << >>)]
Lent  == [Grant EXCEPT !.iss = "ann", !.sub = "bob", !.depth = 1, !.maxDepth = 0, !.parent = 1]
Chains == { <<Grant>>, <<Grant, Lent>> }

Default == <<"a">>
Pair  == <<"a", "a">>
Twin  == <<"a", "b">>
Bare  == <<"a", "0">>
Tools == {<< >>, Default, Pair, Twin, Bare, <<"b">>}
Names1 == [t \in Tools |-> IF t = Default THEN "read" ELSE "write"]

Lit(d)  == [reads |-> "literal", what |-> d]
Tok(k)  == [reads |-> "token", what |-> k]
Arg(a)  == [reads |-> "argument", what |-> a]
Opt(a)  == [reads |-> "optional", what |-> a]
Obj(fs) == [f \in {"type", "id", "name"} \cup Open |-> IF f \in DOMAIN fs THEN fs[f] ELSE Nil]
Of(ms)  == [m \in {"subject", "action", "resource", "context"} |-> IF m \in DOMAIN ms THEN Obj(ms[m]) ELSE Nil]
Env(kind, defaults, list) ==
  [members |-> 1, envelope |-> kind, options |-> FALSE, top |-> defaults, list |-> list]

Top == Of([subject |-> [id |-> Tok("sub")], action |-> [name |-> Lit("read")],
           context |-> [agent |-> Tok("client_id")]])
From == Of([resource |-> [type |-> Lit("tool"), id |-> Arg("path")]])
To   == Of([resource |-> [type |-> Lit("tool"), id |-> Lit("write"), amount |-> Opt("size")],
            action |-> [name |-> Lit("write")]])
Mappings ==
  [t \in Tools |->
     CASE t = Pair -> Env("evaluations", Top, <<From, To>>)
       [] t = Twin -> Env("evaluation", Of([subject |-> [ISS |-> Lit("bob")], action |-> [name |-> Lit("read")],
                                            resource |-> [type |-> Lit("tool"), id |-> Lit("read")]]), << >>)
       [] t = Bare -> Env("evaluations", Top, << >>)
       [] OTHER -> Nil]

Fact(n) == {[tags |-> {}, attributes |-> None, requests |-> n]}
Catalog == [t \in Tools |-> CASE t = Pair -> Fact(2) [] t \in {Twin, Bare} -> Fact(1) [] t = Default -> Fact(0) [] OTHER -> {}]

NoArgs == [a \in {"path", "size"} |-> Nil]
V(d, n) == [is |-> d, values |-> n]
With(p, s) == [a \in {"path", "size"} |-> IF a = "path" THEN p ELSE s]
Ask(ch, t, args) == [kind |-> "call", chain |-> ch, tool |-> t, args |-> args]
Junk(k) == [kind |-> k, chain |-> << >>, tool |-> << >>, args |-> NoArgs]

Inputs ==
  { Junk("unreadable"), Junk("other"),
    Ask(<<Grant>>, Default, NoArgs), Ask(<<Grant>>, Twin, NoArgs),
    Ask(<<Grant, Lent>>, Pair, With(V("read", 1), Nil)),
    Ask(<<Grant, Lent>>, Pair, With(Nil, Nil)),
    Ask(<<Grant, Lent>>, Pair, With(V("read", 1), V("", 3))) }

Home == [host |-> "idp", https |-> TRUE, loopback |-> FALSE]
Away == [host |-> "bob", https |-> TRUE, loopback |-> FALSE]
Open1 == [host |-> "idp", https |-> FALSE, loopback |-> FALSE]
PdpId == [url |-> Home, slash |-> FALSE]
Documents ==
  { [pdp |-> [PdpId EXCEPT !.slash = TRUE], endpoint |-> Home], [pdp |-> [PdpId EXCEPT !.url = Away], endpoint |-> Away],
    [pdp |-> PdpId, endpoint |-> Open1], [pdp |-> PdpId, endpoint |-> Nil] }
=============================================================================
