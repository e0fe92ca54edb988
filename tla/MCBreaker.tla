----------------------------- MODULE MCBreaker -----------------------------
(* Model checking of Breaker: one breaker, a handful of callers. *)
EXTENDS Breaker, TLC

CONSTANTS c1, c2, c3

MCCallers == {c1, c2, c3}

\* One caller streams, with a client that has no timeout.
MCStreaming == {c3}

BothCategories == {"upstream_failure", "provider_unavailable"}
=============================================================================
