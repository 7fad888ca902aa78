# mandatum, specified

mandatum is a Go library for delegated authority between agents. A sponsor signs
a grant; whoever holds it may sign a narrower one for somebody else; a resource
server is shown the whole chain and decides whether one tool call may happen.
This directory holds TLA+ modules of its components, TLC configurations that
check them on small instances, and proofs that TLAPS checks for every value of
the constants. Paths below are under `src/pkg/`.

To check a run: `tlc -workers 2 -config SequenceRoot.cfg MCSequenceStore`.
To check a proof: `tlapm SequenceStoreProofs.tla`. `PROJECT.json` lists the
runs, a mutant of the code for every property, the lines each definition
translates, and the theorems.

## 1. The system

A call passes through the components in this order; an arrow is a call.

    issue (offline) ---> chain ---> mcp.Middleware ---> mcp.Enforcer.Authorize
        |  1. verify.Verifier ---> jose.KeyRing or jose.JWKS  (keys, V3)
        |                     ---> revoke.Checker             (V8)
        |  2. catalog, verify.Permits
        |  3. authzen mapping ---> authzen client ---> PDP
        |  4. sequence.Evaluator ---> sequence.MemoryStore
        `---> the MCP server behind

| component | source | state it keeps | operations |
|---|---|---|---|
| assertion format | `mda/mda.go`, `mda/parse.go` | none | parse, validate, digest |
| issuance | `issue/issue.go` | none; what was signed is in the world | Sponsor, Delegate |
| attenuation, permission | `verify/attenuation.go`, `verify/permits.go` | none | is a child no wider; does a grant cover a request |
| chain verification | `verify/verify.go` | one verification: the link and rule it is at | Verify (V1 to V9) |
| key resolution | `jose/jwks.go` | per issuer: key set, last attempt, sequence floor, two mutexes | AddSource, VerifySignature |
| signatures, key ring | `jose/jose.go` | a map filled before use | Sign, Parse, Add, VerifySignature |
| revocation sets | `revoke/revoke.go` | the set held | NewSet, Encode, ParseSet, MayContain, Replace, IsRevoked |
| sequence evaluation | `sequence/sequence.go`, `sequence/memory.go` | per chain root: a counter and a bit per constraint, under one mutex | Admit, Update, Forget |
| tool call enforcement | `mcp/mcp.go` | one call: its stage | Authorize |
| HTTP middleware | `mcp/http.go` | one request | read, authorize, forward or refuse |
| AuthZEN client | `authzen/authzen.go`, `discovery.go` | none between calls | Evaluate, Discover |
| AuthZEN mappings | `authzen/mapping.go`, `declared.go` | compiled templates; per call a budget | ParseMapping, ToolCallRequests |

What is hard, and what makes each component correct:

* **Sequence evaluation.** Any number of agents below one grant act at once, each
  with the constraints of its own leaf, against one history. Correct: every call
  is one indivisible step against that history, the compiled state is the fold of
  it, the sponsor's budget and rules bind all agents together, a full store
  refuses and never evicts, a refused action did not happen, every call returns.
* **Attenuation, issuance, verification.** Only neighbours are compared, although
  what is wanted is a statement about the whole chain. Correct: a sponsor grant
  bounds every descendant, in claims and in the requests permitted; only the
  holder of an assertion extends it, with a key that was not replaced since;
  nothing expired or revoked when a verification began is accepted, and an accepted
  chain was current as a whole at one instant, though time passes and links are
  revoked while it runs.
* **Enforcement.** Four stages with other parties asked in between. Correct: the
  PDP is only asked within the grant and cannot widen it; a call is recorded if
  and only if it is authorized; budget and rules hold across interleaved calls.
* **The third check.** A tool's own template, written by the server, says what the
  PDP is asked; several requests come out of shared defaults and one budget; the
  PDP is behind caches and proxies; the caller may leave. Correct: every request
  is about the verified chain, policy is passed only when every request was
  allowed by an answer given for it, no entry suffers from what another left
  behind, nothing is sent in the clear or elsewhere, and an answer reaches the
  caller though the PDP may be silent.
* **Key resolution.** A cache with expiry, a rate limit, replay protection, a
  fetch that takes arbitrarily long, and an operator who replaces the source
  meanwhile. Correct: a key answered is fresh, not from a replayed document, and
  from the source registered when the call began; requests are limited; every
  caller is answered.
* **Revocation sets.** Sets come late, twice, out of order or corrupt, and the
  filter has collisions and wrapping arithmetic. Correct: nothing is reinstated,
  a revocation takes hold within the maximum age, the exact lookup settles
  collisions.

## 2. The modules

| module | models | over |
|---|---|---|
| `SequenceRules` | matching, validation, `admit`, recording, `seqNoWider` (pure) | |
| `SequenceHistory` | the promise of sequence evaluation: atomic calls against histories | `SequenceRules` |
| `SequenceStore` | `Evaluator.Admit`, `MemoryStore.Update` and `Forget` | `SequenceRules`, implements `SequenceHistory` |
| `Grants` | capabilities, conditions, attenuation, permission, `Claims.Validate` (pure) | `SequenceRules` |
| `Issue` | `Sponsor`, `Delegate` | `Grants` |
| `Jose` | `Sign`, `Parse`, `ParseClaims`, the key ring (pure) | `Grants` |
| `Acceptance` | what verification promises of a chain it accepts (pure) | `Grants` |
| `Verify` | `Verifier.Verify` | `Jose`; keeps the promise of `Acceptance` |
| `Enforcer` | `Enforcer.Authorize` over verification and the store | `Acceptance`; implements `SequenceHistory` |
| `Mapping` | default and declared mappings, anchoring (pure) | `Grants` |
| `Gateway` | `Middleware`, `Authorize` with mapping and AuthZEN client, caches, callers | `Enforcer`, `Mapping`; implements `Enforcer` |
| `Jwks` | `JWKS`: `AddSource`, `key`, `fetch` | |
| `Revoke` | filter, publisher, delivery, `Checker` | |

Each with a state, but for `SequenceHistory`, has an `MC` module with values for
its constants and a `...Proofs` module; `GrantsProofs` holds the lemmas about
`Grants` and `SequenceRules` that the others cite, and `MCGrants` the strings,
capabilities and requests that several instances share. An operator whose name has
a suffix after an underscore (`Exhausted_offByOne`) is a plausible bug in the definition below it; no
specification uses it, and it is what shows that a property can fail.

### SequenceStore

`states` is `MemoryStore.states`, `mu` its mutex (`NoAgent` when free). `pc[a]` is
where agent `a`'s goroutine is in `Admit` and `Update`: `admit` (Admit's own
checks), `update` (before the lock), `locked`, `decide` (state read, `admit` not
yet run). `call[a]` holds the arguments, `local[a]` the state read. `Lock`, `Read`
and `Persist`/`Deny` are separate steps, so that every interleaving the mutex
allows happens. `ContextDone` is the one look `Update` takes at its context.
`granted[r]` is the sponsor's sequence claim; a caller presents any leaf no wider
than it, which is what verification lets through. `history` and `forgotten` are
history variables: what was admitted per root, and how much of it `Forget` threw
away. `ImplementsHistory` is the refinement: `SequenceHistory` has no store, lock
or compiled state and its predicates range over the history itself.

### Grants

A string that rules look into is a sequence of characters, so that prefixes and
trailing stars behave as in the code; a name that is only compared is a model
value. Numbers in conditions are integers. Nil and an empty list differ, as they
do in the code.

### Issue

An assertion is its claims and a number for its serialization; a digest is that
number (SHA-256 is taken to be injective). `Issue` keeps all assertions signed so
far, as a forest: anybody may delegate below any of them at any time.

### Jose and Verify

A serialization is what the code tells apart in it: how many parts it has, the
header's members, whether each part decodes, what follows the claims in the
payload, and a signature, which is a key and the bytes it was made over.
`raw` numbers the bytes a child commits to, `input` those a signature covers.
`Added` is the sequence of calls of `KeyRing.Add`; the map they leave is `KeyOf`,
where the last call for an issuer and kid stands. The map has no lock, so the ring
is filled before it is used. `Holder` says who holds the private half of a key;
Ed25519 verifies what that half signed and nothing else, and `SignedIsVerified`
shows that what `Sign` makes does verify.

`Verify` takes the rules in the order of the code, with its early returns: one
step per rule, and one per link where the code asks or compares link by link.
`CheckSignature` may fail also where a ring would not, as keys may be fetched
(`Jwks`); asking for revocation may fail at any link. `began` remembers the world
when a verification started. `revoked` is what the checker knows; how far that may lag
behind the sponsor is `RevocationTakesHold` of `Revoke`.

`VerdictHasCause` reads a verdict backwards: V1, V2, V5 and V6 are only given of a chain
that breaks that rule, V4 of one that was not current at some moment of the call, V7
never; and a chain that gets as far as a rule keeps the ones before it.

### Enforcer

`pc[c]` is the stage of call `c`; the outcome of a refusal names it. The parts
below are taken by what is established about them: a chain passes stage 1 only
if it is `Acceptable`, which is the promise `Verify` keeps (`KeepsThePromise`), and
admission is one step (`ImplementsHistory`). `ImplementsEvaluation` says that this adds
up: a call at the last stage is one call of `SequenceHistory`, with the root, the leaf's
constraints and the action that the earlier stages fixed, whatever happened since. The catalog,
the mapping and the PDP answer whatever their interfaces allow. The clock,
revocations and the store's owner move between any two stages.

### Mapping and Gateway

`Mapping` has the pure part. A template is a function from members and fields to
nodes; a node is a literal or an expression, and an expression is known by what it
reads: a member of the token, an argument, or an argument if it is there. It fails,
yields nothing, or yields a datum, and costs as many values as the code counts when
it converts the result to JSON. The limit on bytes works alike and is not a second
counter. `Fold` says which field a decoder that ignores case takes a key for. The
fields under `properties` are written among those of their object.

`Gateway` is the enforcement point around it. `input[c]` is the HTTP request,
`gone` the callers that have hung up, as seen by the context of the request.
`top`, `left` and `made` are the locals of `ToolCallRequests`: resolved defaults,
the budget that is left, the requests so far. `asked[c]` is what the client sent,
with identifier and address; `answers` is all that the PDP ever allowed, and may be
delivered to any request any number of times with its identifier kept or dropped,
which is what caches and proxies do. They do not invent an identifier. The checks
1, 2 and 4 are the actions of `Enforcer`; where the code looks at the context of
the request, a caller that left is noticed.

`ImplementsEnforcer` is the refinement: `Phase` shows resolving and constructing as
"mapping" and a request on its way as "policy"; what the middleware does after
`Authorize` returned, and what the caller and the PDP do, are stutters. So what
`EnforcerProofs` proves of `Enforcer` holds of the whole.

Three things a reader should know. Where the entropy source fails, the request has
no identifier and the code makes no correlation check (`authzen.go:220`), so
`AllowIsForThisRequest` speaks of requests that carried one. `Request.validate`
never refuses here: anchoring and the claims of a verified chain leave none of its
fields empty. `json.Unmarshal` of the request body ignores case too; what a server
behind makes of a second spelling is not looked at.

### Jwks

`AddSource` drops an issuer's state while callers may still hold a reference to
the old one, so states are numbered and `cache` is the current number. What runs
under `JWKS.mu` is one step; `fetchMu` is held over a request, which takes
arbitrarily long and returns any document its source ever published, in any
order, or nothing. `Begin` is the first look at the cache, `LookAgain` the one
after `fetchMu` is taken, `Store` the section after the request. `origin` and
`received`, where and when a key set was received, are history fields; age is
computed from `fetchedAt`, and `AnswerIsFresh` is about `received`.

### Revoke

The publisher builds sets of any of the shapes over what is revoked so far. All
it ever built, and documents that are no sets, stay deliverable (`wires`), so
delivery may lose, repeat, delay and reorder. `exact` says whether the Checker
was given `WithExact`. `covers`, the identifiers a set was built over, is a
history field that no guard reads.

## 3. Runs

Sizes are distinct states. Deadlock is checked in all runs but those marked (d),
where a bound ends the behaviour.

| run | states | instance | shows |
|---|---|---|---|
| `SequenceRoot` | 329,720 | 2 agents, 1 root, 3 calls, 6 leaf claims, 3 actions | decisions on current state, fold, budget, rules, refinement |
| `SequenceCap` | 85,640 | 2 agents, 2 roots, room for 1, 3 calls | the limit holds, no live root is evicted, every call returns |
| `SequenceSiblingRule` | violation | as `SequenceRoot` | finding 1 |
| `Issue` (d) | 13,357 | 8 offers, 4 assertions | every forest of four assertions stays within its sponsor grants |
| `Verify` | 140,443 | 35 chains of up to 3 links, 7 keys added, clock to 5, skew 1, 2 ticks a second | what is accepted holds end to end, what is refused breaks the rule it is refused for, every verification ends |
| `VerifyTrailing` | violation | one grant with a bracket after its claims | finding 4 |
| `Enforcer` (d) | 677,890 | 2 calls, 7 chains, 3 tools, store for 1 root | stages interleave: asked within the grant, refused means unrecorded, every link binds the calls below it; refinement |
| `EnforcerForget` | violation | 2 calls on one grant with a budget of 1 | finding 2 |
| `Gateway` (d) | 126,957 | 2 calls, 7 HTTP requests, 6 tools, budget of 6 values, 4 metadata documents | asked about the chain, about every entry, in confidence; answers correlate; forwarded means spent once; refinement; every request is answered |
| `Jwks` (d) | 584,466 | 2 callers, 2 sources, 5 documents, 3 lookups or 2 and a registration, clock to 4 | freshness, replay, change of source, rate limit, every caller is answered |
| `JwksBurst` | violation | 3 callers | finding 3 |
| `Revoke` | 3,750,508 | 2 identifiers, 2 shapes, integers wrap at 16, clock to 6, maximum age 2, with and without exact lookup | nothing reinstated, revocation takes hold, collisions settled, the held set only grows |

Why the bounds are enough to be interesting:

* Two agents and three calls are the least in which one call's read and write
  can surround another's and a third sees the result. `RichOffered` has rules
  with one trigger and two prohibitions, one whose prohibition is also its
  trigger, two that share a name and differ in both matchers, as siblings may add
  them, budgets that are the parent's and unlimited, and a nil claim.
  `MaxRoots = 0` takes the default of 100000, which is never reached; room for
  one root against two is what reaches the limit.
* Four assertions give two sponsor grants with a child each, or a path of four;
  ten ticks a second with an issue time of 5 make truncation of issue time and
  expiry differ.
* Three links are the least with a link that is neither root nor leaf. The clock
  passes both ends of every validity period, skew included. The ring replaces a
  key, registers one under two kids and refuses one.
* In `Gateway`, two calls are the least in which an answer can reach the wrong one
  and a budget of one call is contended; two entries the least in which a later one
  finds what an earlier one left. The declared mappings have an argument that may be
  missing, one whose value takes part of the budget twice over, a subject with a key
  that differs by case only, and an empty list, which is refused by the parser.
  Time is left to `Enforcer`, whose calls are the same.
* `Ttl` 2, `MinRefresh` 1 and four ticks reach both sides of every comparison of
  ages; the documents rotate a key, step back in sequence, drop the sequence and
  omit a kid. Three lookups are the least in which one stores a document, one is
  refused a replay, and one is answered from the cache after it: a replay that
  renewed the document held would be found. A registration takes the place of one
  of them.
* `Enforcer` has a grant without a history whose two delegates each add a rule of
  the same name, so that one's action sets off the other's bit.
* Integers that wrap at 16 make `h1 + i * h2` overflow for one of the two
  identifiers; a set of one byte makes them collide.

Names of bounds: `MaxCalls`, `MaxIssued`, `MaxClock`, `MaxSources`,
`MaxSequence`. Symmetry over agents, calls and callers is used in safety runs
only.

**Fairness.** A goroutine that can take its next step does (weak fairness of each
caller's own steps): what it waits for is a request that ends, if only by the
HTTP client's timeout (`authzen.New` demands a positive one), or an interface with
an error to return. Taking a mutex is
strongly fair: `sync.Mutex` hands itself to a waiter that has starved. Nothing is
owed by the environment: the clock, revocations, the operator, the store's owner,
the PDP, the caller and the end of a context.

## 4. Findings

Each is a run in which the code does otherwise than one of its comments says.

1. `SequenceSiblingRule`. A rule that a delegation added below the grant does not
   see actions admitted for a sibling whose leaf does not carry the rule
   (`sequence.go:173`), against "under this chain" and "land in the same history"
   (`sequence.go:8-9`, `15-17`). For rules of the sponsor grant it does hold, and
   is proved (`RulesCorrect`).
2. `EnforcerForget`. The state of a dead root is not dead weight
   (`memory.go:105-106`) while a call that was verified earlier is still to be
   admitted: after `Forget` it is admitted on a fresh budget.
3. `JwksBurst`. A burst costs one request (`jwks.go:51-52`) only when that request
   succeeds; after a failure every caller that waited makes its own, at once.
4. `VerifyTrailing`. `unmarshalStrict` says that it refuses trailing data, as "one
   payload gets read two ways by two implementations" (`mda/parse.go:59-64`). It
   asks `Decoder.More` (`parse.go:71`), which is false before a closing bracket or
   brace, so a payload with one of these after the claims object is accepted.
   Another value after the object is refused.

## 5. Proofs

Every theorem is for any values of the constants that the named assumptions
allow: any number of agents, roots, links, callers, identifiers and documents.

**SequenceStore** (`TypeCorrect`, `DecisionsAreCurrent`, `FoldCorrect`,
`BudgetCorrect`, `RulesCorrect`, `Bounded`, `OnlyGrows`, `Implements`). None of the invariants is inductive alone: that
the budget binds follows from the counter, which is only the length of the
history if every write was based on a current read, which needs the mutex. So
`IInv` adds: only the holder of the mutex is past `Lock`; a call in flight has a
claim no wider than its grant; what was admitted had such a claim and was within
its budget. `Implements` maps every step to a step of `SequenceHistory`: `Persist`
and `Deny` are where a call takes effect, and that they decide on the fold of the
history is the invariant; locking and reading are stutters.

**Grants** (`SeqNoWiderTransitive`, `SeqNoWiderSound`, `EntailsTransitive`,
`EntailsSound`, `PermitsSound`). By cases over the kinds of condition and of identifier
pattern. Transitivity is what makes comparing neighbours enough; soundness is that the
comparison means what it should: what the narrower admits, of requests or of actions in
any state of the history, the wider admits.

**Issue** (`TypeCorrect`, `LinksCorrect`, `GrantBounds`, `NothingGained`,
`PathsDescend`). `IInv` is the type
invariant with "every link verifies" and "the grant bounds its descendants": a
new assertion attenuates its parent, which its sponsor grant bounds already, and
boundedness is transitive. `PathsDescend` collects it for a whole path: what was issued
from a sponsor grant down to any descendant is a `Descent`.

**Verify** (`TypeCorrect`, `Narrows`, `GainsNothing`, `InCustody`,
`ReplacedSignsNothing`, `WasLive`, `RefusesForCause`, `KeepsThePromise`,
`DescentsPass`; of `Jose`, `SignedIsVerified`). The invariant says, for every check,
what it has established about the links it has passed; one lemma per check. In a chain
of any length the accepted verdict then gives narrowing between neighbours, and
`GrantsProofs` between all pairs.

`RefusesForCause` is the other direction: each refusal is justified from what the
checks before it established, so `HasCause` is part of the invariant and `CheckInv`
goes through the exits of every check. It contains the comment at
`verify/verify.go:305-309` that V7's explicit check is implied by V5. `DescentsPass`
applies it to a `Descent`: only a key, the time, a revocation or the address can
refuse one. With `PathsDescend` this is what `issue.go:9-17` claims: nothing
is signed that would fail on grounds an issuer can determine. The two are joined by the
definition of `Descent`, not in one specification; that an issued path is read back as it
was signed is `SignedIsVerified`, link by link.

`KeepsThePromise` joins components: `Acceptable` is all that `Enforcer` assumes of stage
1, and it is an invariant of `Verify`.

**Enforcer** (`TypeCorrect`, `WithinGrant`, `NothingRefusedIsRecorded`,
`EveryLinkBinds`, `GrantBinds`, `Implements`). `IInv` says what each stage has established (the chain is acceptable,
its leaf permits the request) and, of the history, that the stored counter and bits
are the fold of what is remembered and that every entry was admitted under the leaf of
the chain of its call, within the budget and rules of that leaf. A leaf is no wider than
any link above it, so `EveryLinkBinds` follows for all of them, not for the sponsor grant
alone: a budget anywhere on the chain counts everything done under the root, and a rule
binds any two calls that pass through the link that adds it. `GrantBinds` is the case of
the first link, which all calls of a root share. `Implements` maps `Admit` and
`RefuseSequence` to the step of `SequenceHistory` that decides, `Forget` to `Discard`, a
call that comes to the last stage to `Start`, and all else to stutters; that counter and
bits give the verdict the history would give is `StateIsHistory`, from the fold. A
refusal is mapped to `Fault`, as `Enforcer` lets the store refuse for any reason; that
denials are deserved is `ImplementsHistory` of `SequenceStore`.

**Gateway** (`GateTypeCorrect`, `AllowCorrelates`, `AsksAboutTheChain`,
`HearsTheWholeMapping`, `RefusedForCause`, `BudgetBounds`, `AsksInConfidence`,
`ForwardsAreSpentOnce`, `ReachesWithinGrant`, `GateLinksBind`, `GateGrantBinds`,
`ForwardsWithinBudget`, `Refines`, `GateEvaluates`). `GateInv` has three parts for each call: what its
place implies (`Placed`); that the defaults are those of its declaration, that the
requests made are those of the first entries, each anchored in its chain, and that
what was asked is a prefix of what was made (`Drafted`); and that the identifiers of
answers are of requests that were sent (`Known`). Correlation then excludes every
answer but the right one. What is left of the budget, and what the history has of a
call, have an invariant of their own on top of it. `Refines` goes action by action.
`ForwardsAreSpentOnce` is for finitely many calls, as it counts them.

Four results are about the whole, from the HTTP request to the server behind.
`ReachesWithinGrant`: what is asked of the PDP or forwarded, every link of the verified
chain permits. `GateLinksBind` and `GateGrantBinds`: budget and rules bind what passes
the middleware; the invariant of the store is a conjunction over roots and
entries that mentions no stage, so the lemmas of `EnforcerProofs` about one admission
carry over. `ForwardsWithinBudget`: the calls forwarded below a grant are at most its
budget, for any number of calls, by an injection of the forwarded ones into the history.
`GateEvaluates`: the middleware implements `SequenceHistory`, which is what
`SequenceStore` implements below it; the lemmas about one step (`HiddenStep`,
`StartStep`, `AdmissionStep`, `DiscardStep`) are those of `Implements`, as they speak of
the step's effect on one call and not of who takes it.

**Jwks** (`JwksTypeCorrect`, `AnswersAreFresh`, `AnswersAreNotReplayed`,
`AnswersAreFromTheirSource`, `RequestsAreLimited`). `IInv` relates the set a state
holds to its floor, its last attempt and the one source all its callers have, and
the same for a set being fetched and for an answer.

**Revoke** (`RevokeTypeCorrect`, `NothingIsReinstated`, `CollisionsAreSettled`,
`RevocationIsTimely`, `HeldSetNeverShrinks`). What can be delivered is ordered as
it was built, and what was built later covers more; so the set held covers all
that earlier ones covered, and a filter rejects nothing it was built over,
whatever the hash functions and the width of integers.

**Assumed**, besides the types of constants: `MaxAge`, `Ttl` and a second are
positive; a jti names one grant (`Enforcer`); a
key is registered for whoever holds it, identifiers contain no NUL, by which the ring
separates issuer and kid, and the ring is filled before use (`Jose`); no two anchored
keys fold to one another (`Mapping`); the publisher never builds two sets
of one sequence in one second and its clock does not run ahead (`Revoke`, where
the code cannot tell two such sets apart, nor the age of one from the future);
`Replace` does not run while `IsRevoked` does, as its comment demands.

**Only model-checked.** The liveness properties (`EveryCallReturns`,
`EveryVerificationReturns`, `EveryRequestAnswered`, `EveryCallerAnswered`), as
liveness under fairness is out of TLAPS's reach, and the four findings. Every other
property of a run is a theorem, and so is the type invariant of every module. Results about recursively defined data are out of
reach too, and no module declares a recursive operator.

## 6. Not modelled

* The grammar of JSON and base64url and the arithmetic of Ed25519, which are the
  standard library's, and the texts of errors and logs.
* The CEL language (`compileExpression`, `environment`): a library. `Mapping` has what
  its results do to a request. Templates whose expressions do not compile are those a
  catalog does not describe.
* `mcp.Facts` from a catalog document: the interface is modelled, with any facts.
* `Evaluator.Len` and `Get` of the store read and change nothing.
* Several issuers in `Jwks`: they share only the maps, under one mutex.
* A sponsor that signs two grants with one jti, so that they share a history:
  forbidden to it (`issue.go:68-71`) and nowhere checked.
* `Replace` of a revocation set during `IsRevoked`: a data race, forbidden by the
  comment at `revoke.go:291-292`.
* What becomes of a call after `forward`: the server behind may fail, and the budget
  remains spent.
* Data that no property tells apart: the version of an assertion, the sponsor's `amr`
  and `auth_time`, and CEL expressions that yield a whole member of a request.
* Configurations: an HTTP client of `JWKS` without a timeout, which gives up the
  liveness of `Jwks`, and a maximum age of zero, which switches off the age check of
  a revocation set and with it `RevocationTakesHold`.
* The exact lookup of revocation is an interface (`revoke.go:207-210`); the model lets
  it answer by what is revoked, or fail.
* `test/interop`: a harness without state.

## 7. Plan

Written, in this order: sequence evaluation (the only mutable state a decision
rests on), grants, issuance and verification, enforcement over them, key
resolution, revocation, then serializations and keys, mappings, and the enforcement
point as a whole. What would come next:

1. `Issue` with `Verify` in one specification: a path that was issued, with its keys
   in the ring, presented in time and unrevoked, is accepted.
2. `Gateway` over `SequenceStore` in place of one-step admission. Both implement
   `SequenceHistory`; composed, one refinement would reach from HTTP to the mutex.
3. `Jwks` as the resolver of `Verify`, with rotation during a verification.
