------------------------------- MODULE MCRevoke -------------------------------
(****************************************************************************)
(* An instance of Revoke for TLC: two shapes of set, identifiers that share *)
(* positions, a sum that wraps, and documents that break one rule each.     *)
(****************************************************************************)
EXTENDS Revoke

Jtis == {"j", "k"}
Hashes == [j \in Jtis |-> IF j = "j" THEN <<1, 2>> ELSE <<9, 10>>]
Shapes == {[bytes |-> 1, hashes |-> 1], [bytes |-> 2, hashes |-> 3]}

W(version, hashes, bytes, generatedAt) ==
  [version |-> version, sequence |-> 9, generatedAt |-> generatedAt, hashes |-> hashes,
   bytes |-> bytes, bits |-> {}, covers |-> {}]
Broken == {W(2, 1, 1, 1), W(1, 0, 1, 1), W(1, 4, 1, 1), W(1, 1, 0, 1), W(1, 1, 1, 0)}
=============================================================================
