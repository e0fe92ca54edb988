----------------------------- MODULE MCCallPath -----------------------------
(* Model checking of CallPath. *)
EXTENDS CallPath, TLC

CONSTANTS r1, r2, p1, p2, p3

TwoRequests    == {r1, r2}
TwoProviders   == {p1, p2}
ThreeProviders == {p1, p2, p3}

Eager   == Policy(1, 1, Categories, FALSE)
Patient == Policy(2, 1, Categories, FALSE)
Off     == Policy(0, 0, {}, TRUE)

\* p1 retries, p2 does not and is the fallback; p3 is not registered and its
\* breaker is disabled.
MCMaxAttempts == (p1 :> 2) @@ (p2 :> 0) @@ (p3 :> 1)
MCPolicyOf    == (p1 :> Patient) @@ (p2 :> Eager) @@ (p3 :> Off)

RequestSymmetry == Permutations(TwoRequests)
=============================================================================
