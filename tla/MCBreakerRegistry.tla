------------------------- MODULE MCBreakerRegistry -------------------------
(* Model checking of BreakerRegistry. *)
EXTENDS BreakerRegistry, TLC

CONSTANTS g1, g2, p1, p2, lenient, strict

MCGoroutines == {g1, g2}
MCProviders  == {p1, p2}
MCPolicies   == {lenient, strict}

Symmetry == Permutations(MCGoroutines) \cup Permutations(MCProviders)
=============================================================================
