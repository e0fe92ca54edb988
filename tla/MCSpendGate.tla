---------------------------- MODULE MCSpendGate ----------------------------
(* Model checking of SpendGate. *)
EXTENDS SpendGate, TLC

CONSTANTS r1, r2

TwoRequests == {r1, r2}

Untagged == {{}}
AllTags  == {{"team"}, {"project", "agent"}}

LimitOf(global, team, project, agent) ==
  ("global" :> global) @@ ("team" :> team) @@ ("project" :> project)
    @@ ("agent" :> agent)

AllLimits  == LimitOf(5, 3, 3, 4)
Small      == LimitOf(5, 0, 0, 0)

Symmetry == Permutations(TwoRequests)
=============================================================================
