------------------------------ MODULE MCGrants ------------------------------
(****************************************************************************)
(* Values for the constants of Grants: tools addressed by name and by       *)
(* prefix, with conditions of every kind, on one kind of resource.          *)
(****************************************************************************)
EXTENDS Grants

Chars  == {"a", "b", "*", "0"}
Types  == {"", "tool", "invoke"}
Keys   == {"size", "path"}
Tags   == {"ext"}
Names  == {"", "invoke", "tool"}
Rules1 == {"", "once"}

Free == [eq |-> Nil, in |-> Nil, prefix |-> Nil, min |-> Nil, max |-> Nil]
Eq(v)     == [Free EXCEPT !.eq = v]
In(vs)    == [Free EXCEPT !.in = vs]
Prefix(v) == [Free EXCEPT !.prefix = v]
AtMost(n) == [Free EXCEPT !.max = n]
Between(m, n) == [Free EXCEPT !.min = m, !.max = n]

Cap(id, tags, conditions) ==
  [rtype |-> "tool", id |-> id, tags |-> tags, action |-> "invoke", conditions |-> conditions]
None    == [k \in Keys |-> Nil]
On(k, v) == [None EXCEPT ![k] = v]

AnyA     == Cap(<<"a", "*">>, {}, None)
AnyAB    == Cap(<<"a", "b", "*">>, {}, None)
JustA    == Cap(<<"a">>, {}, None)
Sized    == Cap(<<"a", "*">>, {}, On("size", Between(1, 3)))
Smaller  == Cap(<<"a", "b">>, {}, On("size", AtMost(2)))
Smallest == Cap(<<"a">>, {"ext"}, On("size", Between(2, 2)))
Pathed   == Cap(<<"*">>, {}, On("path", Prefix(<<"a">>)))
Listed   == Cap(<<"a">>, {}, On("path", In(<< <<"a">>, <<"a", "b">> >>)))
Exact    == Cap(<<"a", "*">>, {}, On("path", Eq(<<"a", "b">>)))
Nowhere  == Cap(<<"b">>, {}, On("path", In(<< >>)))

OnInvoke == [action |-> "invoke", rtype |-> "", tags |-> << >>]
OnExt == [action |-> "", rtype |-> "", tags |-> <<"ext">>]
Once  == [id |-> "once", forbid |-> OnExt, after |-> OnExt]
Sq(max, rules) == [max |-> max, constraints |-> rules]

Values == {[kind |-> "string", val |-> v] : v \in {<<"a">>, <<"a", "b">>, <<"b">>}}
            \cup {[kind |-> "number", val |-> n] : n \in 0 .. 3}

Requests ==
  [rtype : {"tool"}, id : {<<"a">>, <<"a", "b">>, <<"a", "*">>, <<"b">>}, tags : SUBSET Tags,
   action : {"invoke"}, attributes : {None} \cup {On(k, v) : k \in Keys, v \in Values}]
=============================================================================
