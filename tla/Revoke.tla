------------------------------- MODULE Revoke -------------------------------
(****************************************************************************)
(* The compact revocation set of pkg/revoke: a publisher builds a Bloom     *)
(* filter over what is revoked and encodes it, the network delivers sets    *)
(* late, twice or out of order, and a Checker replaces the set it holds and *)
(* answers V8 from it.                                                      *)
(*                                                                          *)
(* A Checker does not order Replace against IsRevoked: its users do, so no  *)
(* set is replaced while a lookup is under way.  The publisher is outside   *)
(* pkg/revoke: what is revoked stays revoked, and it orders its sets, by    *)
(* sequence or, within a sequence, by the second they are built in.         *)
(****************************************************************************)
EXTENDS Integers, FiniteSets

CONSTANTS Jti, Empty,  \* identifiers, and the one that is left out
          Nil,
          Hash,        \* Hash[jti] = <<h1, h2>>: two halves of SHA-256(jti)
          Wrap,        \* an unsigned integer wraps at Wrap
          MaxHashes,
          Shape,       \* [bytes, hashes] of the sets the publisher builds
          Corrupt,     \* documents that are delivered and are no set
          MaxAge, Second,
          MaxClock,    \* bound: the last tick
          MaxSequence  \* bound: the publisher's last sequence

Never == -1
Version == 1
Wire == [version : Nat, sequence : Nat, generatedAt : Nat, hashes : Nat, bytes : Nat,
         bits : SUBSET Nat, covers : SUBSET Jti]   \* covers is history: what it was built over

ASSUME RevokeAssumption ==
  /\ Empty \notin Jti
  /\ Hash \in [Jti -> Nat \X Nat]
  /\ Wrap \in Nat \ {0} /\ MaxHashes \in Nat \ {0}
  /\ Shape \subseteq [bytes : Nat \ {0}, hashes : 1 .. MaxHashes]
  /\ Corrupt \subseteq Wire
  /\ \A w \in Corrupt : \/ w.version # Version \/ w.hashes \notin 1 .. MaxHashes
                        \/ w.generatedAt = 0 \/ w.bytes = 0
  /\ MaxAge \in Nat \ {0} /\ Second \in Nat \ {0}
  /\ MaxClock \in Nat /\ MaxSequence \in Nat
  /\ Nil \notin {"live", "revoked", "error"} /\ Nil \notin Jti

VARIABLES clock,
          revokedAt,            \* when the sponsor revoked each jti
          latest, wires,        \* the publisher's last set, and all that may be delivered
          set, exact,           \* the set the Checker holds; whether it was given WithExact
          pc, jti, answer,      \* a lookup
          accepted              \* history: what the sets the Checker held so far covered

publisher == <<revokedAt, latest, wires>>
lookup == <<pc, jti, answer>>
vars == <<clock, revokedAt, latest, wires, set, exact, pc, jti, answer, accepted>>

Revoked == {j \in Jti : revokedAt[j] # Never}

(****************************************************************************)
(* The filter.  h1 + i h2 wraps at the width of an integer.                 *)
(****************************************************************************)
Indices(s, j) ==
  {((Hash[j][1] + i * Hash[j][2]) % Wrap) % (8 * s.bytes) : i \in 0 .. s.hashes - 1}

MayContain(s, j) == s.bytes # 0 /\ Indices(s, j) \subseteq s.bits

Seconds(t) == t - (t % Second)

\* Mutated: the filter keeps one position of each identifier.
NewSet_onePosition(revoked, shape, sequence, time) ==
  [version |-> Version, sequence |-> sequence, generatedAt |-> Seconds(time),
   hashes |-> shape.hashes, bytes |-> shape.bytes,
   bits |-> UNION {Indices([shape EXCEPT !.hashes = 1], j) : j \in revoked}, covers |-> revoked]

\* NewSet and Encode.
NewSet(revoked, shape, sequence, time) ==
  [version |-> Version, sequence |-> sequence, generatedAt |-> Seconds(time),
   hashes |-> shape.hashes, bytes |-> shape.bytes,
   bits |-> UNION {Indices(shape, j) : j \in revoked}, covers |-> revoked]

\* What ParseSet takes for a set.
Readable(w) ==
  w.version = Version /\ w.hashes \in 1 .. MaxHashes /\ w.generatedAt > 0 /\ w.bytes # 0

Init ==
  /\ clock = Second
  /\ revokedAt = [j \in Jti |-> Never]
  /\ \E shape \in Shape : latest = NewSet({}, shape, 0, clock)
  /\ wires = {latest} \cup Corrupt
  /\ set = latest /\ exact \in BOOLEAN
  /\ pc = "idle" /\ jti = Nil /\ answer = Nil
  /\ accepted = {}

(****************************************************************************)
(* The sponsor and the publisher.                                           *)
(****************************************************************************)
Revoke(j) ==
  /\ revokedAt[j] = Never
  /\ revokedAt' = [revokedAt EXCEPT ![j] = clock]
  /\ UNCHANGED <<clock, latest, wires, set, exact, lookup, accepted>>

Publish(shape) ==
  \E sequence \in {latest.sequence, latest.sequence + 1} :
    /\ sequence <= MaxSequence
    /\ sequence = latest.sequence => Seconds(clock) > latest.generatedAt
    /\ latest' = NewSet(Revoked, shape, sequence, clock)
    /\ wires' = wires \cup {latest'}
    /\ UNCHANGED <<clock, revokedAt, set, exact, lookup, accepted>>

(****************************************************************************)
(* Checker.Replace, of whatever arrives.                                    *)
(****************************************************************************)
\* Mutated: within a sequence, any set will do.
Older_bySequence(next) == next.sequence < set.sequence

Older(next) ==
  \/ next.sequence < set.sequence
  \/ next.sequence = set.sequence /\ next.generatedAt < set.generatedAt

Replace(w) ==
  /\ pc = "idle"
  /\ Readable(w)
  /\ ~ Older(w)
  /\ set' = w
  /\ accepted' = accepted \cup w.covers
  /\ UNCHANGED <<clock, publisher, exact, lookup>>

(****************************************************************************)
(* Checker.IsRevoked.                                                       *)
(****************************************************************************)
Stale == clock - set.generatedAt > MaxAge

Answers(a) ==
  /\ answer' = a
  /\ pc' = "done"

\* Mutated: the age of the set is not looked at.
Look_ageless(j) ==
  /\ pc = "idle"
  /\ jti' = j
  /\ \/ j = Empty /\ Answers("error")
     \/ j # Empty /\ ~ MayContain(set, j) /\ Answers("live")
     \/ j # Empty /\ MayContain(set, j) /\ ~ exact /\ Answers("revoked")
     \/ j # Empty /\ MayContain(set, j) /\ exact /\ pc' = "exact" /\ UNCHANGED answer
  /\ UNCHANGED <<clock, publisher, set, exact, accepted>>

Look(j) ==
  /\ pc = "idle"
  /\ jti' = j
  /\ \/ (j = Empty \/ Stale) /\ Answers("error")
     \/ j # Empty /\ ~ Stale /\ ~ MayContain(set, j) /\ Answers("live")
     \/ j # Empty /\ ~ Stale /\ MayContain(set, j) /\ ~ exact /\ Answers("revoked")
     \/ j # Empty /\ ~ Stale /\ MayContain(set, j) /\ exact /\ pc' = "exact" /\ UNCHANGED answer
  /\ UNCHANGED <<clock, publisher, set, exact, accepted>>

\* Mutated: a lookup that fails counts as a hit.
AskExact_failsToHit ==
  /\ pc = "exact"
  /\ \E a \in {IF jti \in Revoked THEN "revoked" ELSE "live", "revoked"} : Answers(a)
  /\ UNCHANGED <<clock, publisher, set, exact, jti, accepted>>

\* The authoritative lookup answers, or fails.
AskExact ==
  /\ pc = "exact"
  /\ \/ Answers(IF jti \in Revoked THEN "revoked" ELSE "live")
     \/ Answers("error")
  /\ UNCHANGED <<clock, publisher, set, exact, jti, accepted>>

Return ==
  /\ pc = "done"
  /\ pc' = "idle" /\ jti' = Nil /\ answer' = Nil
  /\ UNCHANGED <<clock, publisher, set, exact, accepted>>

Tick ==
  /\ clock < MaxClock
  /\ clock' = clock + 1
  /\ UNCHANGED <<publisher, set, exact, lookup, accepted>>

Next ==
  \/ \E j \in Jti : Revoke(j)
  \/ \E shape \in Shape : Publish(shape)
  \/ \E w \in wires : Replace(w)
  \/ \E j \in Jti \cup {Empty} : Look(j)
  \/ AskExact
  \/ Return
  \/ Tick

Spec == Init /\ [][Next]_vars

(****************************************************************************)
(* Properties.                                                              *)
(****************************************************************************)
TypeOK ==
  /\ clock \in Nat
  /\ revokedAt \in [Jti -> Nat \cup {Never}]
  /\ latest \in Wire /\ wires \subseteq Wire /\ set \in Wire /\ exact \in BOOLEAN
  /\ pc \in {"idle", "exact", "done"}
  /\ jti \in Jti \cup {Empty, Nil}
  /\ answer \in {"live", "revoked", "error", Nil}
  /\ accepted \subseteq Jti

\* Nothing is reinstated: an identifier that a set this Checker once held was
\* built over is not answered live again, in whatever order, however often and
\* however late sets arrive, and whatever the shape of the set held now.
NothingReinstated == answer = "live" => jti \notin accepted

\* A revocation is enforced within MaxAge of the sponsor's call, whether or
\* not a set that contains it ever arrives: past that, either the set held is
\* too old to answer from or it was built after the call.
RevocationTakesHold ==
  [][answer # "live" /\ answer' = "live" /\ jti' \in Revoked
       => clock - revokedAt[jti'] <= MaxAge]_vars

\* With an exact lookup no identifier is refused for a collision: the answer
\* revoked is only given of one that is.
ExactSettlesCollisions == answer = "revoked" /\ exact => jti \in Revoked

\* The Checker never steps back to a set built over less than the one it holds.
HeldSetOnlyGrows == [][set.covers \subseteq set'.covers]_set
=============================================================================
