------------------------------ MODULE JwksProofs ------------------------------
(****************************************************************************)
(* Theorems about Jwks, for any number of callers, kids, sources and        *)
(* documents: whatever the requests return and in whatever order they end,  *)
(* the key a caller is answered is fresh, not replayed, and published by    *)
(* the source that was registered when it called.                           *)
(*                                                                          *)
(* The argument: the floor of a state never falls and the set a state holds *)
(* never sits below it, so neither does an answer; and a state is written   *)
(* only by callers that read the same source, since a new source makes a    *)
(* new state.                                                               *)
(****************************************************************************)
EXTENDS Jwks, TLAPS

Active(c) == pc[c] # "idle"

\* What holds of the state of an issuer.
StateIsGood(s) ==
  /\ set[s] # Nil => set[s].sequence >= floor[s] /\ set[s].received = set[s].fetchedAt
  /\ s > cache => set[s] = Nil
  /\ s = cache /\ set[s] # Nil => set[s].origin = source
  /\ attempted[s] <= lastTried[s]
  /\ lastTried[s] <= clock

\* What holds of a caller while it calls.
CallIsGood(c) ==
  Active(c) =>
    /\ call[c] \in CallType
    /\ call[c].state <= cache
    /\ call[c].state = cache => call[c].source = source
    /\ began[c].clock <= clock
    /\ began[c].floor <= floor[call[c].state]
    /\ set[call[c].state] # Nil => set[call[c].state].origin = call[c].source

FetchIsGood(c) ==
  pc[c] = "store" => /\ fetched[c] \in KeySet
                     /\ fetched[c].fetchedAt >= began[c].clock
                     /\ fetched[c].received = fetched[c].fetchedAt
                     /\ fetched[c].origin = call[c].source

AnswerIsGood(c) ==
  answer[c] # Nil => /\ pc[c] = "done"
                     /\ answer[c].from.received > began[c].clock - Ttl
                     /\ answer[c].from.sequence >= began[c].floor
                     /\ answer[c].from.origin = call[c].source

OneSource ==
  \A c, d \in Caller : Active(c) /\ Active(d) /\ call[c].state = call[d].state
                         => call[c].source = call[d].source

IInv ==
  /\ TypeOK
  /\ \A s \in States : StateIsGood(s)
  /\ \A c \in Caller : CallIsGood(c) /\ FetchIsGood(c) /\ AnswerIsGood(c)
  /\ OneSource

(****************************************************************************)
(* Answers and key sets.                                                    *)
(****************************************************************************)
LEMMA FoundType ==
  ASSUME NEW ks \in KeySet, NEW kid \in Kids
  PROVE  /\ Found(ks, kid) \in AnswerType \cup {Nil}
         /\ Found(ks, kid) # Nil => Found(ks, kid).from = ks
  BY DEF Found, AnswerType, KeySet

LEMMA CachedIsFresh ==
  ASSUME TypeOK, NEW s \in States, NEW kid \in Kids
  PROVE  /\ Cached(s, kid) \in AnswerType \cup {Nil}
         /\ Cached(s, kid) # Nil => /\ set[s] # Nil /\ set[s] \in KeySet
                                    /\ Cached(s, kid).from = set[s]
                                    /\ clock - set[s].fetchedAt < Ttl
<1>1. CASE Known(s, kid)
  <2>1. set[s] # Nil /\ set[s] \in KeySet /\ clock - set[s].fetchedAt < Ttl
    BY <1>1 DEF Known, Fresh, TypeOK
  <2> QED BY <1>1, <2>1, FoundType DEF Cached
<1>2. CASE ~ Known(s, kid)
  BY <1>2 DEF Cached
<1> QED BY <1>1, <1>2

LEMMA KeysOfType ==
  ASSUME NEW d \in Document
  PROVE  KeysOf(d) \in [Kids -> Key \cup {Nil}]
<1>1. \A k \in Usable(d) : k.key \in Key
  <2>1. d.keys \in Seq(Jwk)
    BY DEF Document
  <2>2. \A i \in DOMAIN d.keys : d.keys[i] \in Jwk
    BY <2>1
  <2> QED BY <2>2 DEF Usable, Jwk
<1> SUFFICES ASSUME NEW kid \in Kids,
                    NEW named, named = {k.key : k \in {l \in Usable(d) : l.kid = kid \/ (kid = Empty /\ Count(d) = 1)}}
             PROVE  (IF named = {} THEN Nil ELSE CHOOSE k \in named : TRUE) \in Key \cup {Nil}
  BY DEF KeysOf
<1>2. named \subseteq Key
  BY <1>1
<1>3. named # {} => (CHOOSE k \in named : TRUE) \in named
  OBVIOUS
<1> QED BY <1>2, <1>3

(****************************************************************************)
(* The invariant.                                                           *)
(****************************************************************************)
LEMMA InitCorrect == Init => IInv
<1> SUFFICES ASSUME Init PROVE IInv
  OBVIOUS
<1> USE DEF Init
<1>1. TypeOK
  BY JwksAssumption DEF TypeOK, States, Never, Kids
<1>2. \A s \in States : StateIsGood(s)
  BY JwksAssumption DEF StateIsGood, Never
<1>3. \A c \in Caller : CallIsGood(c) /\ FetchIsGood(c) /\ AnswerIsGood(c)
  BY DEF CallIsGood, FetchIsGood, AnswerIsGood, Active
<1>4. OneSource
  BY DEF OneSource, Active
<1> QED BY <1>1, <1>2, <1>3, <1>4 DEF IInv

\* A caller ends its call with the answer a, and the issuer's state stays.
LEMMA AnswerStep ==
  ASSUME IInv, NEW c \in Caller, Active(c), NEW a \in AnswerType \cup {Nil}, Answers(c, a),
         UNCHANGED <<clock, source, cache, set, lastTried, floor, attempted, began>>,
         fetchMu' \in [States -> Caller \cup {Nil}],
         a # Nil => /\ a.from.received > began[c].clock - Ttl
                    /\ a.from.sequence >= began[c].floor
                    /\ a.from.origin = call[c].source
  PROVE  IInv'
<1> USE DEF IInv
<1>1. /\ answer' = [answer EXCEPT ![c] = a] /\ pc' = [pc EXCEPT ![c] = "done"]
      /\ UNCHANGED <<call, fetched, calls>>
  BY DEF Answers
<1>2. TypeOK'
  BY <1>1 DEF TypeOK, Active
<1>3. \A s \in States : StateIsGood(s)'
  BY DEF StateIsGood
<1>4. ASSUME NEW d \in Caller
      PROVE  /\ (pc'[d] # "idle") = Active(d)
             /\ pc'[d] = "store" => pc[d] = "store"
             /\ answer'[d] = IF d = c THEN a ELSE answer[d]
             /\ d = c => pc'[d] = "done"
             /\ d # c => pc'[d] = pc[d]
  <2>1. pc \in [Caller -> {"idle", "wait", "fetch", "store", "done"}] /\ DOMAIN answer = Caller
    BY DEF TypeOK
  <2> QED BY <1>1, <2>1 DEF Active
<1>5. ASSUME NEW d \in Caller
      PROVE  CallIsGood(d)' /\ FetchIsGood(d)' /\ AnswerIsGood(d)'
  <2>1. CallIsGood(d)'
    BY <1>1, <1>4 DEF CallIsGood, Active
  <2>2. FetchIsGood(d)'
    BY <1>1, <1>4 DEF FetchIsGood
  <2>3. AnswerIsGood(d)'
    BY <1>1, <1>4 DEF AnswerIsGood
  <2> QED BY <2>1, <2>2, <2>3
<1>6. OneSource'
  BY <1>1, <1>4 DEF OneSource, Active
<1> QED BY <1>2, <1>3, <1>5, <1>6

LEMMA BeginStep ==
  ASSUME IInv, NEW c \in Caller, NEW kid \in Kids, Begin(c, kid)
  PROVE  IInv'
<1> USE DEF IInv
<1> DEFINE new == [kid |-> kid, source |-> source, state |-> cache]
           now == [clock |-> clock, floor |-> floor[cache]]
<1>1. /\ pc[c] = "idle"
      /\ call' = [call EXCEPT ![c] = new]
      /\ began' = [began EXCEPT ![c] = now]
      /\ calls' = calls + 1
      /\ UNCHANGED <<clock, source, cache, set, lastTried, floor, fetchMu, fetched, attempted>>
  BY DEF Begin, issuer
<1>2. \/ answer' = [answer EXCEPT ![c] = Cached(cache, kid)] /\ pc' = [pc EXCEPT ![c] = "done"]
      \/ answer' = answer /\ pc' = [pc EXCEPT ![c] = "wait"]
  BY DEF Begin
<1>3. cache \in States /\ source \in Source /\ clock \in Nat /\ floor[cache] \in Nat
  BY DEF TypeOK
<1>4. new \in CallType /\ now \in [clock : Nat, floor : Nat]
  BY <1>3 DEF CallType
<1>5. /\ Cached(cache, kid) \in AnswerType \cup {Nil}
      /\ Cached(cache, kid) # Nil => /\ set[cache] # Nil /\ set[cache] \in KeySet
                                     /\ Cached(cache, kid).from = set[cache]
                                     /\ clock - set[cache].fetchedAt < Ttl
  BY <1>3, CachedIsFresh
<1>6. TypeOK'
  <2>1. answer' \in [Caller -> AnswerType \cup {Nil}]
    BY <1>2, <1>5 DEF TypeOK
  <2>2. pc' \in [Caller -> {"idle", "wait", "fetch", "store", "done"}]
    BY <1>2 DEF TypeOK
  <2>3. call' \in [Caller -> CallType \cup {Nil}]
    BY <1>1, <1>4 DEF TypeOK
  <2>4. began' \in [Caller -> [clock : Nat, floor : Nat]]
    BY <1>1, <1>4 DEF TypeOK
  <2>5. calls' \in Nat
    BY <1>1 DEF TypeOK
  <2> QED BY <1>1, <2>1, <2>2, <2>3, <2>4, <2>5 DEF TypeOK
<1>7. \A s \in States : StateIsGood(s)'
  BY <1>1 DEF StateIsGood
<1>8. \A d \in Caller : d # c => /\ pc'[d] = pc[d] /\ call'[d] = call[d] /\ began'[d] = began[d]
                                 /\ answer'[d] = answer[d] /\ fetched'[d] = fetched[d]
  BY <1>1, <1>2 DEF TypeOK
<1>9. call'[c] = new /\ began'[c] = now /\ pc'[c] \in {"wait", "done"}
  BY <1>1, <1>2 DEF TypeOK
<1>10. ASSUME NEW d \in Caller
       PROVE  CallIsGood(d)' /\ FetchIsGood(d)' /\ AnswerIsGood(d)'
  <2>1. CASE d # c
    BY <1>1, <1>8, <2>1 DEF CallIsGood, FetchIsGood, AnswerIsGood, Active
  <2>2. CASE d = c
    <3>1. CallIsGood(c)'
      <4>1. StateIsGood(cache)
        BY <1>3
      <4>2. cache <= cache /\ clock <= clock /\ floor[cache] <= floor[cache]
        BY <1>3 DEF States
      <4> QED BY <1>1, <1>3, <1>4, <1>9, <4>1, <4>2 DEF CallIsGood, StateIsGood
    <3>2. FetchIsGood(c)'
      BY <1>9 DEF FetchIsGood
    <3>3. AnswerIsGood(c)'
      <4>1. CASE answer' = answer
        BY <1>1, <4>1 DEF AnswerIsGood
      <4>2. CASE answer' = [answer EXCEPT ![c] = Cached(cache, kid)] /\ pc' = [pc EXCEPT ![c] = "done"]
        <5>1. answer'[c] = Cached(cache, kid) /\ pc'[c] = "done"
          BY <4>2 DEF TypeOK
        <5>2. ASSUME Cached(cache, kid) # Nil
              PROVE  /\ set[cache].received > clock - Ttl
                     /\ set[cache].sequence >= floor[cache]
                     /\ set[cache].origin = source
          <6>1. set[cache].fetchedAt \in Nat /\ Ttl \in Nat
            BY <1>5, <5>2, JwksAssumption DEF KeySet
          <6>2. StateIsGood(cache)
            BY <1>3
          <6> QED BY <1>3, <1>5, <5>2, <6>1, <6>2 DEF StateIsGood
        <5> QED BY <1>5, <1>9, <5>1, <5>2 DEF AnswerIsGood
      <4> QED BY <1>2, <4>1, <4>2
    <3> QED BY <2>2, <3>1, <3>2, <3>3
  <2> QED BY <2>1, <2>2
<1>11. OneSource'
  <2> SUFFICES ASSUME NEW d \in Caller, NEW e \in Caller, pc'[d] # "idle", pc'[e] # "idle",
                      call'[d].state = call'[e].state
               PROVE  call'[d].source = call'[e].source
    BY DEF OneSource, Active
  <2>1. CASE d # c /\ e # c
    BY <1>8, <2>1 DEF OneSource, Active
  <2>2. CASE d = c /\ e # c
    BY <1>8, <1>9, <2>2 DEF CallIsGood, Active
  <2>3. CASE d # c /\ e = c
    BY <1>8, <1>9, <2>3 DEF CallIsGood, Active
  <2>4. CASE d = c /\ e = c
    BY <2>4
  <2> QED BY <2>1, <2>2, <2>3, <2>4
<1> QED BY <1>6, <1>7, <1>10, <1>11

LEMMA LookAgainStep ==
  ASSUME IInv, NEW c \in Caller, LookAgain(c)
  PROVE  IInv'
<1> DEFINE s == call[c].state
           kid == call[c].kid
<1>1. pc[c] = "wait" /\ Active(c) /\ UNCHANGED <<clock, source, cache, began>>
  BY DEF LookAgain, Active
<1>2. call[c] \in CallType /\ s \in States /\ kid \in Kids
  BY <1>1 DEF IInv, CallIsGood, CallType
<1>3. CASE Answers(c, Cached(s, kid)) /\ UNCHANGED <<issuer, fetchMu, attempted>>
  <2>1. /\ Cached(s, kid) \in AnswerType \cup {Nil}
        /\ Cached(s, kid) # Nil => /\ set[s] # Nil /\ set[s] \in KeySet
                                   /\ Cached(s, kid).from = set[s]
                                   /\ clock - set[s].fetchedAt < Ttl
    BY <1>2, CachedIsFresh DEF IInv
  <2>2. ASSUME Cached(s, kid) # Nil
        PROVE  /\ set[s].received > began[c].clock - Ttl
               /\ set[s].sequence >= began[c].floor
               /\ set[s].origin = call[c].source
    <3>1. StateIsGood(s) /\ CallIsGood(c)
      BY <1>2 DEF IInv
    <3>2. /\ set[s].fetchedAt \in Nat /\ set[s].sequence \in Nat /\ Ttl \in Nat /\ clock \in Nat
          /\ began[c].clock \in Nat /\ began[c].floor \in Nat /\ floor[s] \in Nat
      BY <1>2, <2>1, <2>2, JwksAssumption DEF IInv, TypeOK, KeySet
    <3>3. began[c].clock <= clock /\ began[c].floor <= floor[s] /\ set[s].origin = call[c].source
      BY <1>1, <2>1, <2>2, <3>1 DEF CallIsGood
    <3> QED BY <2>1, <2>2, <3>1, <3>2, <3>3 DEF StateIsGood
  <2>3. fetchMu' \in [States -> Caller \cup {Nil}]
    BY <1>3 DEF IInv, TypeOK
  <2> QED BY <1>1, <1>3, <2>1, <2>2, <2>3, AnswerStep DEF issuer
<1>4. CASE StartFetch(c, s)
  <2> USE DEF IInv
  <2>1. /\ fetchMu' = [fetchMu EXCEPT ![s] = c]
        /\ lastTried' = [lastTried EXCEPT ![s] = clock]
        /\ attempted' = [attempted EXCEPT ![s] = clock]
        /\ pc' = [pc EXCEPT ![c] = "fetch"]
        /\ UNCHANGED <<clock, source, cache, set, floor, call, fetched, answer, calls, began>>
    BY <1>1, <1>4 DEF StartFetch
  <2>2. TypeOK'
    BY <1>2, <2>1 DEF TypeOK
  <2>3. \A t \in States : StateIsGood(t)'
    BY <2>1 DEF StateIsGood, TypeOK
  <2>4. \A d \in Caller : /\ (pc'[d] # "idle") = Active(d)
                          /\ pc'[d] = "store" => pc[d] = "store"
                          /\ d = c => answer[d] = Nil
                          /\ d # c => pc'[d] = pc[d]
    <3>1. pc \in [Caller -> {"idle", "wait", "fetch", "store", "done"}]
      BY DEF TypeOK
    <3>2. answer[c] = Nil
      BY <1>1 DEF AnswerIsGood
    <3> QED BY <1>1, <2>1, <3>1, <3>2 DEF Active
  <2>5. \A d \in Caller : CallIsGood(d)' /\ FetchIsGood(d)' /\ AnswerIsGood(d)'
    BY <2>1, <2>4 DEF CallIsGood, FetchIsGood, AnswerIsGood, Active
  <2>6. OneSource'
    BY <2>1, <2>4 DEF OneSource, Active
  <2> QED BY <2>2, <2>3, <2>5, <2>6
<1> QED BY <1>3, <1>4 DEF LookAgain

LEMMA FetchStep ==
  ASSUME IInv, NEW c \in Caller, Fetch(c)
  PROVE  IInv'
<1> USE DEF IInv
<1>1. PICK d \in Documents[call[c].source] :
        /\ fetched' = [fetched EXCEPT ![c] =
                         [keys |-> KeysOf(d), fetchedAt |-> clock, sequence |-> d.sequence,
                          origin |-> call[c].source, received |-> clock]]
        /\ pc' = [pc EXCEPT ![c] = "store"]
  BY DEF Fetch
<1>2. /\ pc[c] = "fetch" /\ Active(c)
      /\ UNCHANGED <<clock, source, cache, set, lastTried, floor, fetchMu, call, answer, calls,
                     attempted, began>>
  BY DEF Fetch, Active, issuer
<1>3. call[c] \in CallType /\ call[c].source \in Source
  BY <1>2 DEF CallIsGood, CallType
<1>4. d \in Document
  BY <1>3, JwksAssumption
<1> DEFINE ks == [keys |-> KeysOf(d), fetchedAt |-> clock, sequence |-> d.sequence,
                  origin |-> call[c].source, received |-> clock]
<1>5. ks \in KeySet
  <2>1. d.sequence \in Nat /\ clock \in Nat
    BY <1>4 DEF Document, TypeOK
  <2> QED BY <1>3, <1>4, <2>1, KeysOfType DEF KeySet
<1> HIDE DEF ks
<1>6. fetched' = [fetched EXCEPT ![c] = ks]
  BY <1>1 DEF ks
<1>7. ks.fetchedAt = clock /\ ks.received = clock /\ ks.origin = call[c].source
  BY DEF ks
<1>8. TypeOK'
  BY <1>1, <1>2, <1>5, <1>6 DEF TypeOK
<1>9. \A s \in States : StateIsGood(s)'
  BY <1>2 DEF StateIsGood
<1>10. \A e \in Caller : /\ (pc'[e] # "idle") = Active(e)
                         /\ e = c => answer[e] = Nil /\ fetched'[e] = ks
                         /\ e # c => pc'[e] = pc[e] /\ fetched'[e] = fetched[e]
  <2>1. pc \in [Caller -> {"idle", "wait", "fetch", "store", "done"}]
        /\ fetched \in [Caller -> KeySet \cup {Nil}]
    BY DEF TypeOK
  <2>2. answer[c] = Nil
    BY <1>2 DEF AnswerIsGood
  <2> QED BY <1>1, <1>2, <1>6, <2>1, <2>2 DEF Active
<1>11. ASSUME NEW e \in Caller
       PROVE  CallIsGood(e)' /\ FetchIsGood(e)' /\ AnswerIsGood(e)'
  <2>1. CallIsGood(e)' /\ AnswerIsGood(e)'
    BY <1>2, <1>10 DEF CallIsGood, AnswerIsGood, Active
  <2>2. CASE e = c
    <3>1. ks.fetchedAt >= began[c].clock
      BY <1>2, <1>7 DEF CallIsGood, TypeOK
    <3> QED BY <1>2, <1>5, <1>7, <1>10, <2>1, <2>2, <3>1 DEF FetchIsGood
  <2>3. CASE e # c
    BY <1>2, <1>10, <2>1, <2>3 DEF FetchIsGood
  <2> QED BY <2>2, <2>3, <2>1
<1>12. OneSource'
  BY <1>2, <1>10 DEF OneSource, Active
<1> QED BY <1>8, <1>9, <1>11, <1>12

LEMMA FetchFailsStep ==
  ASSUME IInv, NEW c \in Caller, FetchFails(c)
  PROVE  IInv'
<1>1. /\ Active(c) /\ Answers(c, Nil)
      /\ UNCHANGED <<clock, source, cache, set, lastTried, floor, attempted, began>>
  BY DEF FetchFails, Active, issuer
<1>2. fetchMu' \in [States -> Caller \cup {Nil}]
  BY DEF FetchFails, Unlock, IInv, TypeOK
<1> QED BY <1>1, <1>2, AnswerStep

LEMMA StoreStep ==
  ASSUME IInv, NEW c \in Caller, Store(c)
  PROVE  IInv'
<1> DEFINE s == call[c].state
           ks == fetched[c]
           a == Found(ks, call[c].kid)
<1>1. pc[c] = "store" /\ Active(c) /\ UNCHANGED <<clock, source, cache, attempted, began>>
  BY DEF Store, Active
<1>2. fetchMu' \in [States -> Caller \cup {Nil}]
  BY DEF Store, Unlock, IInv, TypeOK
<1>3. CASE Backwards(s, ks)
  <2>1. Answers(c, Nil) /\ UNCHANGED <<set, lastTried, floor>>
    BY <1>3 DEF Store, issuer
  <2> QED BY <1>1, <1>2, <2>1, AnswerStep
<1>4. CASE ~ Backwards(s, ks)
  <2> USE DEF IInv
  <2>1. /\ floor' = [floor EXCEPT ![s] = IF ks.sequence > @ THEN ks.sequence ELSE @]
        /\ set' = [set EXCEPT ![s] = ks]
        /\ lastTried' = [lastTried EXCEPT ![s] = clock]
        /\ answer' = [answer EXCEPT ![c] = a] /\ pc' = [pc EXCEPT ![c] = "done"]
        /\ UNCHANGED <<call, fetched, calls>>
    BY <1>4 DEF Store, Answers
  <2>2. call[c] \in CallType /\ s \in States /\ call[c].kid \in Kids
    BY <1>1 DEF CallIsGood, CallType
  <2>3. /\ ks \in KeySet /\ ks.fetchedAt >= began[c].clock /\ ks.origin = call[c].source
        /\ ks.received = ks.fetchedAt
    BY <1>1 DEF FetchIsGood
  <2>4. /\ ks.sequence \in Nat /\ ks.fetchedAt \in Nat /\ floor[s] \in Nat /\ clock \in Nat
        /\ began[c].clock \in Nat /\ began[c].floor \in Nat /\ Ttl \in Nat \ {0}
    BY <2>2, <2>3, JwksAssumption DEF KeySet, TypeOK
  <2>5. ks.sequence >= floor[s]
    BY <1>4, <2>4 DEF Backwards
  <2>6. /\ s <= cache /\ began[c].floor <= floor[s]
        /\ s = cache => call[c].source = source
    BY <1>1 DEF CallIsGood
  <2>7. a \in AnswerType \cup {Nil} /\ (a # Nil => a.from = ks)
    BY <2>2, <2>3, FoundType
  <2>8. /\ set'[s] = ks /\ floor'[s] = ks.sequence /\ lastTried'[s] = clock
        /\ \A t \in States \ {s} : /\ set'[t] = set[t] /\ floor'[t] = floor[t]
                                   /\ lastTried'[t] = lastTried[t]
    <3>1. set'[s] = ks /\ \A t \in States \ {s} : set'[t] = set[t]
      BY <2>1, <2>2 DEF TypeOK
    <3>2. lastTried'[s] = clock /\ \A t \in States \ {s} : lastTried'[t] = lastTried[t]
      BY <2>1, <2>2 DEF TypeOK
    <3>3. /\ floor'[s] = IF ks.sequence > floor[s] THEN ks.sequence ELSE floor[s]
          /\ \A t \in States \ {s} : floor'[t] = floor[t]
      BY <2>1, <2>2 DEF TypeOK
    <3>4. floor'[s] = ks.sequence
      BY <2>4, <2>5, <3>3
    <3> QED BY <3>1, <3>2, <3>3, <3>4
  <2>9. \A t \in States : floor[t] <= floor'[t]
    BY <2>4, <2>5, <2>8 DEF TypeOK
  <2>10. TypeOK'
    <3>1. floor' \in [States -> Nat] /\ lastTried' \in [States -> Nat]
      BY <2>1, <2>4 DEF TypeOK
    <3>2. set' \in [States -> KeySet \cup {Nil}]
      BY <2>1, <2>3 DEF TypeOK
    <3>3. answer' \in [Caller -> AnswerType \cup {Nil}]
      BY <2>1, <2>7 DEF TypeOK
    <3>4. pc' \in [Caller -> {"idle", "wait", "fetch", "store", "done"}]
      BY <2>1 DEF TypeOK
    <3> QED BY <1>1, <1>2, <2>1, <3>1, <3>2, <3>3, <3>4 DEF TypeOK
  <2>11. ASSUME NEW t \in States
         PROVE  StateIsGood(t)'
    <3>1. CASE t # s
      BY <1>1, <2>8, <3>1 DEF StateIsGood
    <3>2. CASE t = s
      <4>1. attempted[s] <= clock
        BY <2>2, <2>4 DEF StateIsGood, TypeOK, Never
      <4>2. ~ (s > cache)
        BY <2>2, <2>6 DEF TypeOK, States
      <4> QED BY <1>1, <2>3, <2>4, <2>6, <2>8, <3>2, <4>1, <4>2 DEF StateIsGood
    <3> QED BY <3>1, <3>2
  <2>12. \A d \in Caller : /\ (pc'[d] # "idle") = Active(d)
                           /\ pc'[d] = "store" => pc[d] = "store"
                           /\ d = c => answer'[d] = a /\ pc'[d] = "done"
                           /\ d # c => pc'[d] = pc[d] /\ answer'[d] = answer[d]
    <3>1. pc \in [Caller -> {"idle", "wait", "fetch", "store", "done"}] /\ DOMAIN answer = Caller
      BY DEF TypeOK
    <3> QED BY <1>1, <2>1, <3>1 DEF Active
  <2>13. ASSUME NEW d \in Caller
         PROVE  CallIsGood(d)' /\ FetchIsGood(d)' /\ AnswerIsGood(d)'
    <3>1. CallIsGood(d)'
      <4> SUFFICES ASSUME Active(d)
                   PROVE  /\ began[d].floor <= floor'[call[d].state]
                          /\ set'[call[d].state] # Nil => set'[call[d].state].origin = call[d].source
        BY <1>1, <2>1, <2>12 DEF CallIsGood, Active
      <4>1. call[d].state \in States /\ began[d].floor <= floor[call[d].state]
        BY DEF CallIsGood, CallType
      <4>2. began[d].floor \in Nat /\ floor[call[d].state] \in Nat /\ floor'[call[d].state] \in Nat
        BY <2>10, <4>1 DEF TypeOK
      <4>3. began[d].floor <= floor'[call[d].state]
        BY <2>9, <4>1, <4>2
      <4>4. CASE call[d].state = s
        BY <1>1, <2>3, <2>8, <4>3, <4>4 DEF OneSource
      <4>5. CASE call[d].state # s
        BY <2>8, <4>1, <4>3, <4>5 DEF CallIsGood
      <4> QED BY <4>4, <4>5
    <3>2. FetchIsGood(d)'
      BY <1>1, <2>1, <2>12 DEF FetchIsGood
    <3>3. AnswerIsGood(d)'
      <4>1. CASE d = c
        BY <1>1, <2>1, <2>3, <2>4, <2>5, <2>6, <2>7, <2>12, <4>1 DEF AnswerIsGood
      <4>2. CASE d # c
        BY <1>1, <2>1, <2>12, <4>2 DEF AnswerIsGood
      <4> QED BY <4>1, <4>2
    <3> QED BY <3>1, <3>2, <3>3
  <2>14. OneSource'
    BY <2>1, <2>12 DEF OneSource, Active
  <2> QED BY <2>10, <2>11, <2>13, <2>14
<1> QED BY <1>3, <1>4

LEMMA ReturnStep ==
  ASSUME IInv, NEW c \in Caller, Return(c)
  PROVE  IInv'
<1> USE DEF IInv
<1>1. /\ pc' = [pc EXCEPT ![c] = "idle"] /\ call' = [call EXCEPT ![c] = Nil]
      /\ fetched' = [fetched EXCEPT ![c] = Nil] /\ answer' = [answer EXCEPT ![c] = Nil]
      /\ UNCHANGED <<clock, source, cache, set, lastTried, floor, fetchMu, calls, attempted, began>>
  BY DEF Return, issuer
<1>2. TypeOK'
  BY <1>1 DEF TypeOK
<1>3. \A s \in States : StateIsGood(s)'
  BY <1>1 DEF StateIsGood
<1>4. \A d \in Caller : /\ d = c => pc'[d] = "idle" /\ answer'[d] = Nil
                        /\ d # c => /\ pc'[d] = pc[d] /\ call'[d] = call[d]
                                    /\ fetched'[d] = fetched[d] /\ answer'[d] = answer[d]
  BY <1>1 DEF TypeOK
<1>5. \A d \in Caller : CallIsGood(d)' /\ FetchIsGood(d)' /\ AnswerIsGood(d)'
  BY <1>1, <1>4 DEF CallIsGood, FetchIsGood, AnswerIsGood, Active
<1>6. OneSource'
  BY <1>4 DEF OneSource, Active
<1> QED BY <1>2, <1>3, <1>5, <1>6

LEMMA AddSourceStep ==
  ASSUME IInv, NEW src \in Source, AddSource(src)
  PROVE  IInv'
<1> USE DEF IInv
<1>1. /\ cache < MaxSources /\ source' = src /\ cache' = cache + 1 /\ calls' = calls + 1
      /\ UNCHANGED <<clock, set, lastTried, floor, fetchMu, pc, call, fetched, answer,
                     attempted, began>>
  BY DEF AddSource, issuer
<1>2. cache \in Nat /\ cache' \in States /\ cache < cache'
  BY <1>1, JwksAssumption DEF TypeOK, States
<1>3. TypeOK'
  BY <1>1, <1>2 DEF TypeOK
<1>4. \A s \in States : StateIsGood(s)'
  BY <1>1, <1>2 DEF StateIsGood, States
<1>5. \A d \in Caller : Active(d) => call[d].state <= cache' /\ call[d].state # cache'
  BY <1>2 DEF CallIsGood, CallType, States
<1>6. \A d \in Caller : CallIsGood(d)' /\ FetchIsGood(d)' /\ AnswerIsGood(d)'
  BY <1>1, <1>5 DEF CallIsGood, FetchIsGood, AnswerIsGood, Active
<1>7. OneSource'
  BY <1>1 DEF OneSource, Active
<1> QED BY <1>3, <1>4, <1>6, <1>7

LEMMA TickStep ==
  ASSUME IInv, Tick
  PROVE  IInv'
<1> USE DEF IInv
<1>1. /\ clock' = clock + 1 /\ clock \in Nat
      /\ UNCHANGED <<source, cache, set, lastTried, floor, fetchMu, pc, call, fetched, answer, calls,
                     attempted, began>>
  BY DEF Tick, issuer, callers, TypeOK
<1>2. TypeOK'
  BY <1>1 DEF TypeOK
<1>3. \A s \in States : StateIsGood(s)'
  BY <1>1 DEF StateIsGood, TypeOK
<1>4. ASSUME NEW c \in Caller
      PROVE  CallIsGood(c)' /\ FetchIsGood(c)' /\ AnswerIsGood(c)'
  <2>1. began[c].clock \in Nat
    BY DEF TypeOK
  <2> QED BY <1>1, <2>1 DEF CallIsGood, FetchIsGood, AnswerIsGood, Active
<1>5. OneSource'
  BY <1>1 DEF OneSource, Active
<1> QED BY <1>2, <1>3, <1>4, <1>5

LEMMA StutterStep == IInv /\ UNCHANGED vars => IInv'
<1> SUFFICES ASSUME IInv, UNCHANGED vars PROVE IInv'
  OBVIOUS
<1>1. UNCHANGED <<clock, source, cache, set, lastTried, floor, fetchMu, pc, call, fetched, answer,
                  calls, attempted, began>>
  BY DEF vars
<1> QED
  BY <1>1 DEF IInv, TypeOK, StateIsGood, CallIsGood, FetchIsGood, AnswerIsGood, OneSource, Active

LEMMA StepCorrect == IInv /\ [Next]_vars => IInv'
  BY BeginStep, LookAgainStep, FetchStep, FetchFailsStep, StoreStep, ReturnStep, AddSourceStep,
     TickStep, StutterStep
     DEF Next, Resolve

\* The invariant holds throughout.
THEOREM JwksInvariance == Spec => []IInv
  BY InitCorrect, StepCorrect, PTL DEF Spec

(****************************************************************************)
(* What follows.                                                            *)
(****************************************************************************)
\* The resolver keeps its types: an answer always is a key some set holds.
THEOREM JwksTypeCorrect == Spec => []TypeOK
<1>1. IInv => TypeOK
  BY DEF IInv
<1> QED BY <1>1, JwksInvariance, PTL

\* JWKS.key: no caller is answered from a document older than the Ttl.
THEOREM AnswersAreFresh == Spec => []AnswerIsFresh
<1>1. IInv => AnswerIsFresh
  BY DEF IInv, AnswerIsGood, AnswerIsFresh
<1> QED BY <1>1, JwksInvariance, PTL

\* JWKS.key: no caller is answered from a document below one already seen.
THEOREM AnswersAreNotReplayed == Spec => []AnswerIsNotReplayed
<1>1. IInv => AnswerIsNotReplayed
  BY DEF IInv, AnswerIsGood, AnswerIsNotReplayed
<1> QED BY <1>1, JwksInvariance, PTL

\* JWKS.AddSource: what the old source published never answers a new call.
THEOREM AnswersAreFromTheirSource == Spec => []AnswerIsFromItsSource
<1>1. IInv => AnswerIsFromItsSource
  BY DEF IInv, AnswerIsGood, AnswerIsFromItsSource
<1> QED BY <1>1, JwksInvariance, PTL

\* JWKS.lookupLocked: under a fresh document, requests for unknown kids are
\* MinRefresh apart, for any number of callers.
THEOREM RequestsAreLimited == Spec => UnknownKidsAreLimited
<1>1. ASSUME IInv, [Next]_vars, NEW s \in States, Fresh(s), Requests(s)
      PROVE  clock - attempted[s] >= MinRefresh
  <2>1. PICK c \in Caller : LookAgain(c)
    BY <1>1 DEF Next, Resolve, Requests, Begin, Fetch, FetchFails, Store, Return, AddSource, Tick,
                vars, Unlock, IInv, TypeOK
  <2>2. call[c] \in CallType /\ call[c].state \in States
    BY <1>1, <2>1 DEF LookAgain, IInv, CallIsGood, CallType, Active
  <2>3. ~ Done(call[c].state, call[c].kid) /\ StartFetch(c, call[c].state)
    BY <1>1, <2>1 DEF LookAgain, Requests
  <2>4. call[c].state = s
    BY <1>1, <2>2, <2>3 DEF StartFetch, Requests, IInv, TypeOK
  <2>5. ~ (clock - lastTried[s] < MinRefresh)
    BY <1>1, <2>3, <2>4 DEF Done, Limited
  <2>6. /\ attempted[s] <= lastTried[s] /\ clock \in Nat /\ lastTried[s] \in Nat
        /\ attempted[s] \in Int /\ MinRefresh \in Nat
    BY <1>1, JwksAssumption DEF IInv, StateIsGood, TypeOK, Never
  <2> QED BY <2>5, <2>6
<1>2. IInv /\ [Next]_vars
        => [\A s \in States : Fresh(s) /\ Requests(s) /\ attempted[s] # Never
                                => clock - attempted[s] >= MinRefresh]_vars
  BY <1>1
<1> QED BY <1>2, JwksInvariance, PTL DEF Spec, UnknownKidsAreLimited
=============================================================================
