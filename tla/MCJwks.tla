-------------------------------- MODULE MCJwks --------------------------------
(****************************************************************************)
(* An instance of Jwks for TLC: a source that rotates a to b and whose old  *)
(* document may still be served, stripped of its sequence too, and another  *)
(* source that publishes one key without a kid and never counts.            *)
(****************************************************************************)
EXTENDS Jwks, TLC

K(kid, key) == [kid |-> kid, key |-> key, usable |-> TRUE]
Foreign(kid, key) == [kid |-> kid, key |-> key, usable |-> FALSE]
Doc(keys, sequence) == [keys |-> keys, sequence |-> sequence]

Rotated == {"s1", "s2"}
Published ==
  [s \in Rotated |->
     IF s = "s1"
     THEN {Doc(<<K("a", "ka"), Foreign("b", "kb")>>, 1),
           Doc(<<K("a", "ka")>>, 0),
           Doc(<<K("a", "kb"), K("b", "kb")>>, 2),
           Doc(<<K("a", "ka"), K("", "kb")>>, 3)}
     ELSE {Doc(<<K("", "ka")>>, 0)}]

\* One source that answers with one document.
Steady == {"s1"}
Unchanging == [s \in Steady |-> {Doc(<<K("a", "ka")>>, 0)}]

Callers == Permutations(Caller)
=============================================================================
