----------------------------- MODULE Acceptance -----------------------------
(****************************************************************************)
(* What a verification promises about a chain it accepts, in one formula.   *)
(* Verify checks link by link, over many steps, and is shown to keep the    *)
(* promise (VerifyProofs); Enforcer and Gateway are built on the promise.   *)
(* A chain is the sequence of its claims, b the world when the call began.  *)
(****************************************************************************)
EXTENDS Grants

CONSTANTS Audience, \* Verifier.audience
          Skew,     \* Verifier.skew, in clock ticks
          Second    \* clock ticks in a second: claims count seconds

\* Mutated: verification does not compare the links.
Acceptable_signedOnly(ch, b) ==
  /\ ch # << >> /\ Len(ch) - 1 <= ch[1].maxDepth
  /\ \A i \in DOMAIN ch : /\ ValidClaims(ch[i]) /\ ch[i].jti \notin b.revoked
                          /\ b.clock - Skew < ch[i].exp * Second
  /\ ch[Len(ch)].aud = Audience

Acceptable(ch, b) ==
  /\ ch # << >> /\ Len(ch) - 1 <= ch[1].maxDepth
  /\ \A i, j \in DOMAIN ch : i <= j => Within(ch[i], ch[j])
  /\ \A i \in DOMAIN ch : /\ ValidClaims(ch[i]) /\ ch[i].jti \notin b.revoked
                          /\ b.clock - Skew < ch[i].exp * Second
  /\ ch[Len(ch)].aud = Audience
=============================================================================
