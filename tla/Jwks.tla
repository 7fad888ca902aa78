-------------------------------- MODULE Jwks --------------------------------
(****************************************************************************)
(* jose.JWKS: verification keys of one issuer, fetched from the document it *)
(* publishes, cached, and fetched again when the cache is stale or does not *)
(* know a kid, by concurrent callers.                                       *)
(*                                                                          *)
(* The sections under JWKS.mu are single steps.  Between them a caller may  *)
(* wait for the issuer's fetchMu, and a request may take any time: the      *)
(* clock advances, other callers look up, and an operator may register      *)
(* another source, which drops the issuer's state but not the references to *)
(* it of callers under way.  So states of an issuer are numbered, and cache *)
(* holds the number of the current one.                                     *)
(*                                                                          *)
(* A request may fail and may return any document of its source: the        *)
(* current one, or an older one that a cache on the way still holds.        *)
(****************************************************************************)
EXTENDS Integers, Sequences, FiniteSets

CONSTANTS Caller, Source, Kid, Key,
          Empty,      \* a kid that is left out
          Nil,        \* no key set, no state
          Documents,  \* Documents[source]: what a request to it may return
          Ttl, MinRefresh,
          MaxClock,   \* bound: the last tick
          MaxCalls,   \* bound: lookups and registrations of one behaviour
          MaxSources  \* bound: sources registered, the first one included

\* A document is a list of keys, of which some are not for this verifier.
Jwk == [kid : Kid \cup {Empty}, key : Key, usable : BOOLEAN]
Document == [keys : Seq(Jwk), sequence : Nat]

ASSUME JwksAssumption ==
  /\ Empty \notin Kid
  /\ Nil \notin Key
  /\ Documents \in [Source -> SUBSET Document]
  /\ Ttl \in Nat \ {0} /\ MinRefresh \in Nat
  /\ MaxClock \in Nat /\ MaxCalls \in Nat /\ MaxSources \in Nat \ {0}

Kids == Kid \cup {Empty}

\* origin and received are history: where the set came from, and when.
KeySet == [keys : [Kids -> Key \cup {Nil}], fetchedAt : Nat, sequence : Nat,
           origin : Source, received : Nat]
States == 1 .. MaxSources

VARIABLES clock,
          source, cache,                      \* the issuer's source, and the number of its state
          set, lastTried, floor, fetchMu,     \* issuerState, by number
          pc, call, fetched, answer, calls,   \* key, per caller
          attempted, began                    \* history: when a fetch of a state last began;
                                              \* clock and floor when a call began

issuer == <<set, lastTried, floor>>
callers == <<pc, call, fetched, answer, calls>>
vars == <<clock, source, cache, set, lastTried, floor, fetchMu, pc, call, fetched, answer, calls,
          attempted, began>>

Never == -1

Init ==
  /\ clock = Ttl
  /\ source \in Source
  /\ cache = 1
  /\ set = [s \in States |-> Nil]
  /\ lastTried = [s \in States |-> 0]
  /\ floor = [s \in States |-> 0]
  /\ fetchMu = [s \in States |-> Nil]
  /\ pc = [c \in Caller |-> "idle"]
  /\ call = [c \in Caller |-> Nil]
  /\ fetched = [c \in Caller |-> Nil]
  /\ answer = [c \in Caller |-> Nil]
  /\ calls = 0
  /\ attempted = [s \in States |-> Never]
  /\ began = [c \in Caller |-> [clock |-> 0, floor |-> 0]]

(****************************************************************************)
(* lookupLocked: what the cache of state s answers for a kid.               *)
(****************************************************************************)
Fresh(s) == set[s] # Nil /\ clock - set[s].fetchedAt < Ttl
Known(s, kid) == Fresh(s) /\ set[s].keys[kid] # Nil

Limited(s, kid) == Fresh(s) /\ ~ Known(s, kid) /\ clock - lastTried[s] < MinRefresh

Done(s, kid) == Known(s, kid) \/ Limited(s, kid)

\* The answer names the key set it comes from; no key is an error.
Found(ks, kid) == IF ks.keys[kid] # Nil THEN [key |-> ks.keys[kid], from |-> ks] ELSE Nil
Cached(s, kid) == IF Known(s, kid) THEN Found(set[s], kid) ELSE Nil

Answers(c, a) ==
  /\ answer' = [answer EXCEPT ![c] = a]
  /\ pc' = [pc EXCEPT ![c] = "done"]
  /\ UNCHANGED <<call, fetched, calls>>

Unlock(s) == fetchMu' = [fetchMu EXCEPT ![s] = Nil]

(****************************************************************************)
(* key, up to fetchMu.                                                      *)
(****************************************************************************)
Begin(c, kid) ==
  /\ pc[c] = "idle" /\ calls < MaxCalls
  /\ calls' = calls + 1
  /\ call' = [call EXCEPT ![c] = [kid |-> kid, source |-> source, state |-> cache]]
  /\ began' = [began EXCEPT ![c] = [clock |-> clock, floor |-> floor[cache]]]
  /\ IF Done(cache, kid)
     THEN answer' = [answer EXCEPT ![c] = Cached(cache, kid)] /\ pc' = [pc EXCEPT ![c] = "done"]
     ELSE pc' = [pc EXCEPT ![c] = "wait"] /\ UNCHANGED answer
  /\ UNCHANGED <<clock, source, cache, issuer, fetchMu, fetched, attempted>>

(****************************************************************************)
(* Having waited, a caller looks again at what the one before it stored.    *)
(****************************************************************************)
StartFetch(c, s) ==
  /\ fetchMu' = [fetchMu EXCEPT ![s] = c]
  /\ lastTried' = [lastTried EXCEPT ![s] = clock]
  /\ attempted' = [attempted EXCEPT ![s] = clock]
  /\ pc' = [pc EXCEPT ![c] = "fetch"]
  /\ UNCHANGED <<set, floor, call, fetched, answer, calls>>

\* Mutated: a caller that has waited fetches without looking again.
LookAgain_blind(c) ==
  LET s == call[c].state
  IN  /\ pc[c] = "wait"
      /\ fetchMu[s] = Nil
      /\ StartFetch(c, s)
      /\ UNCHANGED <<clock, source, cache, began>>

LookAgain(c) ==
  LET s == call[c].state
  IN  /\ pc[c] = "wait"
      /\ fetchMu[s] = Nil
      /\ IF Done(s, call[c].kid)
         THEN Answers(c, Cached(s, call[c].kid)) /\ UNCHANGED <<issuer, fetchMu, attempted>>
         ELSE StartFetch(c, s)
      /\ UNCHANGED <<clock, source, cache, began>>

(****************************************************************************)
(* fetch: the key set of a document, if the document makes one.             *)
(****************************************************************************)
Usable(d) == {d.keys[i] : i \in {j \in DOMAIN d.keys : d.keys[j].usable}}
Count(d) == Cardinality({j \in DOMAIN d.keys : d.keys[j].usable})

WellFormed(d) ==
  /\ Usable(d) # {}
  /\ Count(d) > 1 => \A k \in Usable(d) : k.kid # Empty
  /\ \A k, l \in Usable(d) : k.kid = l.kid => k.key = l.key

\* A single key answers for a kid that is left out as well.
KeysOf(d) ==
  [kid \in Kids |->
     LET named == {k.key : k \in {l \in Usable(d) : l.kid = kid \/ (kid = Empty /\ Count(d) = 1)}}
     IN  IF named = {} THEN Nil ELSE CHOOSE k \in named : TRUE]

Fetch(c) ==
  /\ pc[c] = "fetch"
  /\ \E d \in Documents[call[c].source] :
       /\ WellFormed(d)
       /\ fetched' = [fetched EXCEPT ![c] =
                        [keys |-> KeysOf(d), fetchedAt |-> clock, sequence |-> d.sequence,
                         origin |-> call[c].source, received |-> clock]]
       /\ pc' = [pc EXCEPT ![c] = "store"]
  /\ UNCHANGED <<clock, source, cache, issuer, fetchMu, call, answer, calls, attempted, began>>

\* Mutated: the error return does not release fetchMu.
FetchFails_keepsLock(c) ==
  /\ pc[c] = "fetch"
  /\ Answers(c, Nil)
  /\ UNCHANGED <<clock, source, cache, issuer, fetchMu, attempted, began>>

\* No answer, an error, or a document that makes no key set.
FetchFails(c) ==
  /\ pc[c] = "fetch"
  /\ Answers(c, Nil)
  /\ Unlock(call[c].state)
  /\ UNCHANGED <<clock, source, cache, issuer, attempted, began>>

(****************************************************************************)
(* A document below the highest sequence seen for the issuer is a replay.   *)
(****************************************************************************)
\* Mutated: a document that declares no sequence passes.
Backwards_strippedPasses(s, ks) == floor[s] > 0 /\ ks.sequence > 0 /\ ks.sequence < floor[s]

Backwards(s, ks) == floor[s] > 0 /\ ks.sequence < floor[s]

\* Mutated: a document that is refused renews the one that is held.
Store_renewsHeld(c) ==
  LET s == call[c].state  ks == fetched[c]
  IN  /\ pc[c] = "store"
      /\ IF Backwards(s, ks)
         THEN /\ set' = [set EXCEPT ![s].fetchedAt = clock]
              /\ Answers(c, Nil) /\ UNCHANGED <<lastTried, floor>>
         ELSE /\ floor' = [floor EXCEPT ![s] = IF ks.sequence > @ THEN ks.sequence ELSE @]
              /\ set' = [set EXCEPT ![s] = ks]
              /\ lastTried' = [lastTried EXCEPT ![s] = clock]
              /\ Answers(c, Found(ks, call[c].kid))
      /\ Unlock(s)
      /\ UNCHANGED <<clock, source, cache, attempted, began>>

Store(c) ==
  LET s == call[c].state  ks == fetched[c]
  IN  /\ pc[c] = "store"
      /\ IF Backwards(s, ks)
         THEN Answers(c, Nil) /\ UNCHANGED issuer
         ELSE /\ floor' = [floor EXCEPT ![s] = IF ks.sequence > @ THEN ks.sequence ELSE @]
              /\ set' = [set EXCEPT ![s] = ks]
              /\ lastTried' = [lastTried EXCEPT ![s] = clock]
              /\ Answers(c, Found(ks, call[c].kid))
      /\ Unlock(s)
      /\ UNCHANGED <<clock, source, cache, attempted, began>>

Return(c) ==
  /\ pc[c] = "done"
  /\ pc' = [pc EXCEPT ![c] = "idle"]
  /\ call' = [call EXCEPT ![c] = Nil]
  /\ fetched' = [fetched EXCEPT ![c] = Nil]
  /\ answer' = [answer EXCEPT ![c] = Nil]
  /\ UNCHANGED <<clock, source, cache, issuer, fetchMu, calls, attempted, began>>

(****************************************************************************)
(* The operator and the clock.                                              *)
(****************************************************************************)
\* Mutated: a new source inherits what was cached under the old one.
AddSource_keepsCache(src) ==
  /\ cache < MaxSources /\ calls < MaxCalls
  /\ calls' = calls + 1
  /\ source' = src
  /\ UNCHANGED <<clock, cache, issuer, fetchMu, pc, call, fetched, answer, attempted, began>>

\* What was cached under the old source no longer applies, the floor included.
AddSource(src) ==
  /\ cache < MaxSources /\ calls < MaxCalls
  /\ calls' = calls + 1
  /\ source' = src
  /\ cache' = cache + 1
  /\ UNCHANGED <<clock, issuer, fetchMu, pc, call, fetched, answer, attempted, began>>

Tick ==
  /\ clock < MaxClock
  /\ clock' = clock + 1
  /\ UNCHANGED <<source, cache, issuer, fetchMu, callers, attempted, began>>

Resolve(c) == LookAgain(c) \/ Fetch(c) \/ FetchFails(c) \/ Store(c)

Next ==
  \/ \E c \in Caller, kid \in Kids : Begin(c, kid)
  \/ \E c \in Caller : Resolve(c) \/ Return(c)
  \/ \E src \in Source : AddSource(src)
  \/ Tick

Spec == Init /\ [][Next]_vars

\* A request ends, if only by the client's timeout; sync.Mutex hands itself
\* to a waiter that has starved.
FairSpec == Spec /\ \A c \in Caller : WF_vars(Resolve(c)) /\ SF_vars(LookAgain(c))

(****************************************************************************)
(* Properties.                                                              *)
(****************************************************************************)
CallType == [kid : Kids, source : Source, state : States]
AnswerType == [key : Key, from : KeySet]

TypeOK ==
  /\ clock \in Nat /\ source \in Source /\ cache \in States
  /\ set \in [States -> KeySet \cup {Nil}]
  /\ lastTried \in [States -> Nat] /\ floor \in [States -> Nat]
  /\ fetchMu \in [States -> Caller \cup {Nil}]
  /\ pc \in [Caller -> {"idle", "wait", "fetch", "store", "done"}]
  /\ call \in [Caller -> CallType \cup {Nil}]
  /\ fetched \in [Caller -> KeySet \cup {Nil}]
  /\ answer \in [Caller -> AnswerType \cup {Nil}]
  /\ calls \in Nat
  /\ attempted \in [States -> Nat \cup {Never}]
  /\ began \in [Caller -> [clock : Nat, floor : Nat]]

\* A step that begins a request for state s.
Requests(s) == fetchMu[s] = Nil /\ fetchMu'[s] # Nil

\* A key that is answered comes from a document that was received less than a
\* Ttl before the call began or during it, whatever else was fetched, refused
\* or replayed meanwhile: nothing but a new document makes the cache younger.
AnswerIsFresh ==
  \A c \in Caller : answer[c] # Nil => answer[c].from.received > began[c].clock - Ttl

\* A key that is answered does not come from a document below one that was
\* already seen for the issuer when the call began: a retired key does not
\* come back with an old document, nor with one stripped of its sequence.
AnswerIsNotReplayed ==
  \A c \in Caller : answer[c] # Nil => answer[c].from.sequence >= began[c].floor

\* Under a document that is still fresh, unknown kids cause no more than one
\* request in MinRefresh, however many callers ask at once and wait.
UnknownKidsAreLimited ==
  [][\A s \in States : Fresh(s) /\ Requests(s) /\ attempted[s] # Never
                         => clock - attempted[s] >= MinRefresh]_vars

\* A key that is answered was published by the source that was registered when
\* the call began: what the old one published does not outlive it, not even by
\* a request that was under way.
AnswerIsFromItsSource ==
  \A c \in Caller : answer[c] # Nil => answer[c].from.origin = call[c].source

\* Every caller is answered: no path keeps fetchMu.
EveryCallerAnswered == \A c \in Caller : (pc[c] = "wait") ~> (pc[c] = "done")

\* jwks.go:51-52: a burst of assertions naming an unseen key costs one
\* request rather than one each.
BurstCostsOneRequest ==
  [][\A s \in States : Requests(s) /\ attempted[s] # Never
                         => clock - attempted[s] >= MinRefresh]_vars
=============================================================================
