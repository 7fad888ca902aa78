----------------------------- MODULE RevokeProofs -----------------------------
(****************************************************************************)
(* Theorems about Revoke, for every hash, every shape of set and every      *)
(* order of delivery.                                                       *)
(*                                                                          *)
(* The argument: what can be delivered is ordered as it was built, and a    *)
(* set built later covers more.  So the set a Checker holds covers all that *)
(* the sets it held before covered, a filter rejects nothing it was built   *)
(* over, and what the set held does not cover was revoked after it was      *)
(* built.                                                                   *)
(****************************************************************************)
EXTENDS Revoke, TLAPS

Sets(ws) == {w \in ws : Readable(w)}

NoLater(v, w) ==
  \/ v.sequence < w.sequence
  \/ v.sequence = w.sequence /\ v.generatedAt <= w.generatedAt

\* The filter of w has no false negatives.
Rejects(w) == \A j \in w.covers : MayContain(w, j)

\* Everything that was revoked before w was built is in it.
Covers(w, when) ==
  \A j \in Jti : when[j] # Never => j \in w.covers \/ when[j] >= w.generatedAt

Ordered(ws, last, when) ==
  /\ last \in Sets(ws)
  /\ \A w \in Sets(ws) : /\ NoLater(w, last)
                         /\ Rejects(w)
                         /\ w.covers \subseteq {j \in Jti : when[j] # Never}
                         /\ Covers(w, when)
  /\ \A v, w \in Sets(ws) : NoLater(v, w) => v.covers \subseteq w.covers

Timed == clock >= Second /\ \A w \in Sets(wires) : w.generatedAt <= clock

Holds == set \in Sets(wires) /\ accepted \subseteq set.covers

Answered ==
  /\ pc = "idle" => answer = Nil
  /\ pc = "exact" => jti \in Jti /\ answer = Nil
  /\ answer = "live" => jti \notin accepted
  /\ answer = "revoked" /\ exact => jti \in Revoked

IInv == TypeOK /\ Ordered(wires, latest, revokedAt) /\ Timed /\ Holds /\ Answered

(****************************************************************************)
(* The filter.                                                              *)
(****************************************************************************)
LEMMA IndicesType ==
  ASSUME NEW j \in Jti, NEW s, s.bytes \in Nat \ {0}, s.hashes \in Nat
  PROVE  Indices(s, j) \subseteq Nat
<1> SUFFICES ASSUME NEW i \in 0 .. s.hashes - 1
             PROVE  ((Hash[j][1] + i * Hash[j][2]) % Wrap) % (8 * s.bytes) \in Nat
  BY DEF Indices
<1>1. i \in Nat /\ Hash[j][1] \in Nat /\ Hash[j][2] \in Nat
  BY RevokeAssumption
<1>2. Hash[j][1] + i * Hash[j][2] \in Nat
  BY <1>1
<1>3. (Hash[j][1] + i * Hash[j][2]) % Wrap \in Nat
  BY <1>2, RevokeAssumption
<1>4. 8 * s.bytes \in Nat \ {0}
  OBVIOUS
<1> QED BY <1>3, <1>4

LEMMA SecondsType ==
  ASSUME NEW t \in Nat
  PROVE  /\ Seconds(t) \in Nat /\ Seconds(t) <= t
         /\ t >= Second => Seconds(t) > 0
<1>1. t % Second \in Nat /\ t % Second < Second /\ t % Second <= t
  BY RevokeAssumption
<1> QED BY <1>1, RevokeAssumption DEF Seconds

\* A new set can be read, covers what is revoked and rejects none of it.
LEMMA NewSetBuilt ==
  ASSUME NEW revoked \in SUBSET Jti, NEW shape \in Shape, NEW sequence \in Nat, NEW t \in Nat,
         t >= Second
  PROVE  LET w == NewSet(revoked, shape, sequence, t)
         IN  /\ w \in Wire /\ Readable(w) /\ Rejects(w)
             /\ w.covers = revoked /\ w.sequence = sequence /\ w.generatedAt = Seconds(t)
<1> DEFINE w == NewSet(revoked, shape, sequence, t)
<1>1. shape.bytes \in Nat \ {0} /\ shape.hashes \in 1 .. MaxHashes /\ shape.hashes \in Nat
  BY RevokeAssumption
<1>2. \A j \in Jti : Indices(shape, j) \subseteq Nat
  BY <1>1, IndicesType
<1>3. Seconds(t) \in Nat /\ Seconds(t) > 0
  BY SecondsType
<1>4. UNION {Indices(shape, j) : j \in revoked} \subseteq Nat
  BY <1>2
<1>5. w \in Wire
  BY <1>1, <1>3, <1>4 DEF NewSet, Wire, Version
<1>6. Readable(w)
  BY <1>1, <1>3 DEF NewSet, Readable
<1>7. ASSUME NEW j \in revoked
      PROVE  MayContain(w, j)
  <2>1. Indices(w, j) = Indices(shape, j)
    BY DEF Indices, NewSet
  <2> QED BY <2>1, <1>1 DEF MayContain, NewSet
<1> QED BY <1>5, <1>6, <1>7 DEF Rejects, NewSet

(****************************************************************************)
(* The invariant.                                                           *)
(****************************************************************************)
LEMMA CorruptUnread == \A w \in Corrupt : ~ Readable(w)
  BY RevokeAssumption DEF Readable

LEMMA InitCorrect == Init => IInv
<1> SUFFICES ASSUME Init PROVE IInv
  OBVIOUS
<1> USE DEF Init
<1>0. Second \in Nat /\ Second >= Second /\ Second > 0
  BY RevokeAssumption
<1>1. PICK shape \in Shape : latest = NewSet({}, shape, 0, Second)
  OBVIOUS
<1>2. /\ latest \in Wire /\ Readable(latest) /\ Rejects(latest)
      /\ latest.covers = {} /\ latest.sequence = 0 /\ latest.generatedAt = Seconds(Second)
  BY <1>0, <1>1, NewSetBuilt
<1>3. Sets(wires) = {latest}
  BY <1>2, CorruptUnread DEF Sets
<1>4. latest.generatedAt \in Nat /\ latest.generatedAt <= clock
  BY <1>0, <1>2, SecondsType
<1>5. TypeOK
  BY <1>0, <1>2, RevokeAssumption DEF TypeOK, Never
<1>6. Ordered(wires, latest, revokedAt)
  BY <1>2, <1>3, <1>4 DEF Ordered, NoLater, Covers, Never
<1>7. Timed
  BY <1>0, <1>3, <1>4 DEF Timed
<1>8. Holds
  BY <1>3 DEF Holds
<1>9. Answered
  BY RevokeAssumption DEF Answered
<1> QED BY <1>5, <1>6, <1>7, <1>8, <1>9 DEF IInv

\* What happens to the set held.
LEMMA Rejected ==
  ASSUME IInv, NEW j \in Jti, ~ MayContain(set, j)
  PROVE  j \notin set.covers /\ j \notin accepted
  BY DEF IInv, Ordered, Holds, Rejects

LEMMA StepCorrect == IInv /\ [Next]_vars => IInv'
<1> SUFFICES ASSUME IInv, [Next]_vars PROVE IInv'
  OBVIOUS
<1> USE DEF IInv
<1>1. ASSUME NEW j \in Jti, Revoke(j)
      PROVE  IInv'
  <2>1. clock \in Nat /\ clock # Never
    BY DEF TypeOK, Never
  <2>2. revokedAt' = [revokedAt EXCEPT ![j] = clock]
        /\ UNCHANGED <<clock, latest, wires, set, exact, pc, jti, answer, accepted>>
    BY <1>1 DEF Revoke, lookup
  <2>3. TypeOK'
    BY <2>1, <2>2 DEF TypeOK
  <2>4. \A k \in Jti : revokedAt[k] # Never => revokedAt'[k] = revokedAt[k]
    BY <1>1, <2>2 DEF Revoke, TypeOK
  <2>5. Ordered(wires, latest, revokedAt')
    <3>1. ASSUME NEW w \in Sets(wires)
          PROVE  w.covers \subseteq {k \in Jti : revokedAt'[k] # Never}
      BY <2>4 DEF Ordered
    <3>2. ASSUME NEW w \in Sets(wires)
          PROVE  Covers(w, revokedAt')
      <4>1. clock >= w.generatedAt
        BY DEF Timed
      <4> QED BY <1>1, <2>1, <2>2, <2>4, <4>1 DEF Ordered, Covers, Revoke, TypeOK
    <3> QED BY <3>1, <3>2 DEF Ordered
  <2>6. Timed' /\ Holds'
    BY <2>2 DEF Timed, Holds
  <2>7. Answered'
    BY <2>2, <2>4 DEF Answered, Revoked
  <2> QED BY <2>2, <2>3, <2>5, <2>6, <2>7
<1>2. ASSUME NEW shape \in Shape, Publish(shape)
      PROVE  IInv'
  <2>1. PICK sequence \in {latest.sequence, latest.sequence + 1} :
          /\ sequence = latest.sequence => Seconds(clock) > latest.generatedAt
          /\ latest' = NewSet(Revoked, shape, sequence, clock)
          /\ wires' = wires \cup {latest'}
          /\ UNCHANGED <<clock, revokedAt, set, exact, pc, jti, answer, accepted>>
    BY <1>2 DEF Publish, lookup
  <2>2. clock \in Nat /\ clock >= Second /\ sequence \in Nat /\ latest.sequence \in Nat
        /\ latest.generatedAt \in Nat
    BY DEF TypeOK, Wire, Timed
  <2>3. Revoked \in SUBSET Jti
    BY DEF Revoked
  <2>4. /\ latest' \in Wire /\ Readable(latest') /\ Rejects(latest')
        /\ latest'.covers = Revoked /\ latest'.sequence = sequence
        /\ latest'.generatedAt = Seconds(clock)
    BY <2>1, <2>2, <2>3, NewSetBuilt
  <2>5. Seconds(clock) \in Nat /\ Seconds(clock) <= clock
    BY <2>2, SecondsType
  <2>6. Sets(wires') = Sets(wires) \cup {latest'}
    BY <2>1, <2>4 DEF Sets
  <2>7. ASSUME NEW v \in Sets(wires)
        PROVE  NoLater(v, latest') /\ ~ NoLater(latest', v)
    <3>1. v.sequence \in Nat /\ v.generatedAt \in Nat
      BY DEF Sets, TypeOK, Wire
    <3>2. NoLater(v, latest)
      BY DEF Ordered
    <3> QED BY <2>1, <2>2, <2>4, <2>5, <3>1, <3>2 DEF NoLater
  <2>8. NoLater(latest', latest') /\ Covers(latest', revokedAt)
    BY <2>2, <2>4, <2>5 DEF NoLater, Covers, Revoked
  <2>9. \A v \in Sets(wires) : v.covers \subseteq latest'.covers
    BY <2>4 DEF Ordered, Revoked
  <2>10. Ordered(wires', latest', revokedAt)
    <3>1. latest' \in Sets(wires')
      BY <2>6
    <3>2. ASSUME NEW w \in Sets(wires')
          PROVE  /\ NoLater(w, latest') /\ Rejects(w)
                 /\ w.covers \subseteq {j \in Jti : revokedAt[j] # Never}
                 /\ Covers(w, revokedAt)
      <4>1. CASE w \in Sets(wires)
        BY <4>1, <2>7 DEF Ordered
      <4>2. CASE w = latest'
        BY <4>2, <2>4, <2>8 DEF Revoked
      <4> QED BY <4>1, <4>2, <2>6
    <3>3. ASSUME NEW v \in Sets(wires'), NEW w \in Sets(wires'), NoLater(v, w)
          PROVE  v.covers \subseteq w.covers
      <4>1. CASE v \in Sets(wires) /\ w \in Sets(wires)
        BY <4>1, <3>3 DEF Ordered
      <4>2. CASE v \in Sets(wires) /\ w = latest'
        BY <4>2, <2>9
      <4>3. CASE v = latest' /\ w \in Sets(wires)
        BY <4>3, <3>3, <2>7
      <4>4. CASE v = latest' /\ w = latest'
        BY <4>4
      <4> QED BY <4>1, <4>2, <4>3, <4>4, <2>6
    <3> QED BY <3>1, <3>2, <3>3 DEF Ordered
  <2>11. TypeOK'
    BY <2>1, <2>4 DEF TypeOK
  <2>12. Timed'
    BY <2>1, <2>2, <2>4, <2>5, <2>6 DEF Timed
  <2>13. Holds'
    BY <2>1, <2>6 DEF Holds
  <2>14. Answered'
    BY <2>1 DEF Answered, Revoked
  <2> QED BY <2>1, <2>10, <2>11, <2>12, <2>13, <2>14
<1>3. ASSUME NEW w \in wires, Replace(w)
      PROVE  IInv'
  <2>1. /\ pc = "idle" /\ Readable(w) /\ ~ Older(w)
        /\ set' = w /\ accepted' = accepted \cup w.covers
        /\ UNCHANGED <<clock, revokedAt, latest, wires, exact, pc, jti, answer>>
    BY <1>3 DEF Replace, publisher, lookup
  <2>2. w \in Sets(wires) /\ w \in Wire /\ set \in Sets(wires) /\ set \in Wire
    BY <2>1 DEF Sets, TypeOK, Holds
  <2>3. NoLater(set, w)
    BY <2>1, <2>2 DEF Older, NoLater, Wire
  <2>4. set.covers \subseteq w.covers
    BY <2>2, <2>3 DEF Ordered
  <2>5. TypeOK'
    BY <2>1, <2>2 DEF TypeOK, Wire
  <2>6. Ordered(wires, latest, revokedAt)' /\ Timed'
    BY <2>1 DEF Timed
  <2>7. Holds'
    BY <2>1, <2>2, <2>4 DEF Holds
  <2>8. Answered'
    BY <2>1, RevokeAssumption DEF Answered
  <2> QED BY <2>5, <2>6, <2>7, <2>8
<1>4. ASSUME NEW j \in Jti \cup {Empty}, Look(j)
      PROVE  IInv'
  <2>1. pc = "idle" /\ jti' = j /\ UNCHANGED <<clock, revokedAt, latest, wires, set, exact, accepted>>
    BY <1>4 DEF Look, publisher
  <2>2. \/ answer' = "error" /\ pc' = "done"
        \/ j \in Jti /\ ~ MayContain(set, j) /\ answer' = "live" /\ pc' = "done"
        \/ ~ exact /\ answer' = "revoked" /\ pc' = "done"
        \/ j \in Jti /\ pc' = "exact" /\ answer' = answer
    BY <1>4 DEF Look, Answers
  <2>3. TypeOK'
    BY <2>1, <2>2 DEF TypeOK
  <2>4. Ordered(wires, latest, revokedAt)' /\ Timed' /\ Holds'
    BY <2>1 DEF Timed, Holds
  <2>5. Answered'
    <3>1. answer' = "live" => jti' \notin accepted'
      BY <2>1, <2>2, Rejected, RevokeAssumption DEF Answered
    <3> QED BY <2>1, <2>2, <3>1, RevokeAssumption DEF Answered
  <2> QED BY <2>3, <2>4, <2>5
<1>5. CASE AskExact
  <2>1. /\ pc = "exact" /\ pc' = "done"
        /\ answer' \in {IF jti \in Revoked THEN "revoked" ELSE "live", "error"}
        /\ UNCHANGED <<clock, revokedAt, latest, wires, set, exact, jti, accepted>>
    BY <1>5 DEF AskExact, Answers, publisher
  <2>2. TypeOK'
    BY <2>1 DEF TypeOK
  <2>3. Ordered(wires, latest, revokedAt)' /\ Timed' /\ Holds'
    BY <2>1 DEF Timed, Holds
  <2>4. accepted \subseteq Revoked
    BY DEF Holds, Ordered, Revoked
  <2>5. Answered'
    BY <2>1, <2>4 DEF Answered, Revoked
  <2> QED BY <2>2, <2>3, <2>5
<1>6. CASE Return
  <2>1. /\ pc' = "idle" /\ jti' = Nil /\ answer' = Nil
        /\ UNCHANGED <<clock, revokedAt, latest, wires, set, exact, accepted>>
    BY <1>6 DEF Return, publisher
  <2>2. TypeOK' /\ Ordered(wires, latest, revokedAt)' /\ Timed' /\ Holds'
    BY <2>1 DEF TypeOK, Timed, Holds
  <2>3. Answered'
    BY <2>1, RevokeAssumption DEF Answered
  <2> QED BY <2>2, <2>3
<1>7. CASE Tick
  <2>1. clock' = clock + 1
        /\ UNCHANGED <<revokedAt, latest, wires, set, exact, pc, jti, answer, accepted>>
    BY <1>7 DEF Tick, publisher, lookup
  <2>2. clock \in Nat /\ Second \in Nat /\ \A w \in Sets(wires) : w.generatedAt \in Nat
    BY RevokeAssumption DEF TypeOK, Wire, Sets
  <2>3. TypeOK' /\ Timed'
    BY <2>1, <2>2 DEF TypeOK, Timed
  <2>4. Ordered(wires, latest, revokedAt)' /\ Holds' /\ Answered'
    BY <2>1 DEF Holds, Answered, Revoked
  <2> QED BY <2>3, <2>4
<1>8. CASE UNCHANGED vars
  <2>1. UNCHANGED <<clock, revokedAt, latest, wires, set, exact, pc, jti, answer, accepted>>
    BY <1>8 DEF vars
  <2> QED BY <2>1 DEF TypeOK, Timed, Holds, Answered, Revoked
<1> QED BY <1>1, <1>2, <1>3, <1>4, <1>5, <1>6, <1>7, <1>8 DEF Next

\* The invariant holds throughout.
THEOREM RevokeInvariance == Spec => []IInv
  BY InitCorrect, StepCorrect, PTL DEF Spec

(****************************************************************************)
(* What follows.                                                            *)
(****************************************************************************)
\* Revoke keeps its types: no call leaves the Checker without a set.
THEOREM RevokeTypeCorrect == Spec => []TypeOK
<1>1. IInv => TypeOK
  BY DEF IInv
<1> QED BY <1>1, RevokeInvariance, PTL

\* Checker.Replace and IsRevoked: an identifier once covered by a set that was
\* held is never answered live again, for every hash and order of delivery.
THEOREM NothingIsReinstated == Spec => []NothingReinstated
<1>1. IInv => NothingReinstated
  BY DEF IInv, Answered, NothingReinstated
<1> QED BY <1>1, RevokeInvariance, PTL

\* IsRevoked with WithExact: no identifier is refused for a collision.
THEOREM CollisionsAreSettled == Spec => []ExactSettlesCollisions
<1>1. IInv => ExactSettlesCollisions
  BY DEF IInv, Answered, ExactSettlesCollisions
<1> QED BY <1>1, RevokeInvariance, PTL

\* IsRevoked: a revocation is enforced within MaxAge, whatever is delivered.
THEOREM RevocationIsTimely == Spec => RevocationTakesHold
<1>1. ASSUME IInv, [Next]_vars, answer # "live", answer' = "live", jti' \in Revoked
      PROVE  clock - revokedAt[jti'] <= MaxAge
  <2>1. CASE AskExact
    BY <2>1, <1>1 DEF AskExact, Answers
  <2>2. ASSUME NEW j \in Jti \cup {Empty}, Look(j)
        PROVE  clock - revokedAt[jti'] <= MaxAge
    <3>1. jti' = j /\ j \in Jti /\ ~ Stale /\ ~ MayContain(set, j)
      BY <1>1, <2>2 DEF Look, Answers, IInv, Answered, Revoked
    <3>2. j \notin set.covers
      BY <1>1, <3>1, Rejected
    <3>3. revokedAt[j] # Never /\ revokedAt[j] \in Nat
      BY <1>1, <3>1 DEF Revoked, IInv, TypeOK
    <3>4. revokedAt[j] >= set.generatedAt
      BY <1>1, <3>1, <3>2, <3>3 DEF IInv, Ordered, Holds, Covers
    <3>5. set.generatedAt \in Nat /\ clock \in Nat /\ MaxAge \in Nat
      BY <1>1, RevokeAssumption DEF IInv, TypeOK, Wire
    <3> QED BY <3>1, <3>3, <3>4, <3>5 DEF Stale
  <2>3. CASE UNCHANGED answer
    BY <2>3, <1>1
  <2>4. CASE Return
    BY <2>4, <1>1, RevokeAssumption DEF Return
  <2> QED
    BY <1>1, <2>1, <2>2, <2>3, <2>4
       DEF Next, Revoke, Publish, Replace, Tick, publisher, lookup, vars
<1>2. IInv /\ [Next]_vars
        => (answer # "live" /\ answer' = "live" /\ jti' \in Revoked
              => clock - revokedAt[jti'] <= MaxAge)
  BY <1>1
<1> QED BY <1>2, RevokeInvariance, PTL DEF Spec, RevocationTakesHold

\* Checker.Replace: the set held is never replaced by one that covers less.
THEOREM HeldSetNeverShrinks == Spec => HeldSetOnlyGrows
<1>1. ASSUME IInv, [Next]_vars, set' # set
      PROVE  set.covers \subseteq set'.covers
  <2>1. PICK w \in wires : Replace(w)
    BY <1>1 DEF Next, Revoke, Publish, Look, AskExact, Return, Tick, publisher, vars
  <2>2. w \in Sets(wires) /\ set \in Sets(wires) /\ set' = w
    BY <1>1, <2>1 DEF Replace, Sets, IInv, Holds
  <2>3. NoLater(set, w)
    BY <1>1, <2>1, <2>2 DEF Replace, Older, NoLater, IInv, TypeOK, Wire, Sets
  <2> QED BY <1>1, <2>2, <2>3 DEF IInv, Ordered
<1>2. IInv /\ [Next]_vars => [set.covers \subseteq set'.covers]_set
  BY <1>1
<1> QED BY <1>2, RevokeInvariance, PTL DEF Spec, HeldSetOnlyGrows
=============================================================================
