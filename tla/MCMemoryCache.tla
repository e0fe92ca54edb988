--------------------------- MODULE MCMemoryCache ---------------------------
(* Model checking of MemoryCache. *)
EXTENDS MemoryCache, TLC

CONSTANTS k1, k2, k3, t1, t2, body

MCKeys    == {k1, k2, k3}
MCThreads == {t1, t2}
MCValues  == {body}

Symmetry == Permutations(MCKeys) \cup Permutations(MCThreads)
=============================================================================
