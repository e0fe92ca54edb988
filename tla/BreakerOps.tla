----------------------------- MODULE BreakerOps -----------------------------
(***************************************************************************)
(* The circuit breaker object of internal/breaker/breaker.go, as operators *)
(* from a breaker record and a policy record to the next breaker record.   *)
(* Breaker.tla drives one object, CallPath.tla one object per provider.    *)
(*                                                                         *)
(* Every method of the Go type holds b.mu for its whole body, so a method  *)
(* is one atomic step.  Two pieces of data are abstracted:                 *)
(*                                                                         *)
(*  - tripTime and the clock are kept as their difference sinceTrip, which *)
(*    saturates at the cooldown: Allow only compares it with the cooldown; *)
(*  - failures saturates at FailureCap, a bound of the model: past the     *)
(*    threshold the counter is only reported by Stats.                     *)
(***************************************************************************)
EXTENDS Integers

CONSTANT FailureCap     \* where the model stops counting failures

State == {"closed", "open", "half_open"}

\* A Policy; the set TripOn is what isRelevant searches.
Policy(threshold, cooldown, tripOn, disabled) ==
  [FailureThreshold |-> threshold, CooldownDuration |-> cooldown,
   TripOn |-> tripOn, Disabled |-> disabled]

New == [state |-> "closed", failures |-> 0, probeInFlight |-> FALSE,
        sinceTrip |-> 0]

CountFailure(n) == IF n < FailureCap THEN n + 1 ELSE n

\* The clock moves: only an open breaker's cooldown is ever looked at.
Elapse(b, p) ==
  [b EXCEPT !.sinceTrip = IF @ < p.CooldownDuration THEN @ + 1 ELSE @]

-----------------------------------------------------------------------------
(* Allow *)

\* Open -> half-open, evaluated first by every Allow call.
Cooled(b, p) ==
  IF b.state = "open" /\ b.sinceTrip >= p.CooldownDuration
  THEN [b EXCEPT !.state = "half_open"]
  ELSE b

\* Mutation: half-open admits every caller.
AdmitsAnyProbe(b, p) == p.Disabled \/ Cooled(b, p).state # "open"

\* Mutation: an open breaker admits.
AdmitsWhileOpen(b, p) == Cooled(b, p).state # "half_open" \/ ~b.probeInFlight

\* The answer of Allow.
Admits(b, p) ==
  \/ p.Disabled
  \/ Cooled(b, p).state = "closed"
  \/ Cooled(b, p).state = "half_open" /\ ~b.probeInFlight

\* Mutation: the probe slot is not taken.
AllowKeepsSlotFree(b, p) == IF p.Disabled THEN b ELSE Cooled(b, p)

\* The breaker after Allow: a half-open breaker has its probe slot taken,
\* by this caller or by the one before it.
AfterAllow(b, p) ==
  IF p.Disabled THEN b
  ELSE [Cooled(b, p) EXCEPT
          !.probeInFlight = @ \/ Cooled(b, p).state = "half_open"]

\* Does this Allow hand out the probe slot?
TakesProbe(b, p) ==
  ~p.Disabled /\ Admits(b, p) /\ Cooled(b, p).state = "half_open"

-----------------------------------------------------------------------------
(* RecordSuccess and RecordFailure *)

\* Mutations: RecordSuccess leaves the slot taken or the state as it is, or takes
\* one failure off the counter.
SuccessKeepsSlot(b, p) ==
  IF p.Disabled THEN b ELSE [b EXCEPT !.state = "closed", !.failures = 0]
SuccessKeepsState(b, p) ==
  IF p.Disabled THEN b ELSE [b EXCEPT !.failures = 0, !.probeInFlight = FALSE]
SuccessTakesOneOff(b, p) ==
  IF p.Disabled THEN b
  ELSE [state |-> "closed", failures |-> b.failures - 1,
        probeInFlight |-> FALSE, sinceTrip |-> b.sinceTrip]

AfterSuccess(b, p) ==
  IF p.Disabled THEN b
  ELSE [state |-> "closed", failures |-> 0, probeInFlight |-> FALSE,
        sinceTrip |-> b.sinceTrip]

\* A disabled breaker records nothing; an irrelevant category is ignored.
Ignores(p, category) == p.Disabled \/ category \notin p.TripOn

\* Mutation: a failed probe does not reopen the breaker.
TripsFromClosedOnly(b, p, category) ==
  /\ ~Ignores(p, category)
  /\ b.state = "closed" /\ CountFailure(b.failures) >= p.FailureThreshold

\* Does recording this failure (re)open the breaker?
Trips(b, p, category) ==
  /\ ~Ignores(p, category)
  /\ \/ b.state = "half_open"
     \/ b.state = "closed" /\ CountFailure(b.failures) >= p.FailureThreshold

AfterFailure(b, p, category) ==
  CASE Ignores(p, category) -> b
    [] Trips(b, p, category) ->
         [state |-> "open", failures |-> CountFailure(b.failures),
          probeInFlight |-> FALSE, sinceTrip |-> 0]
    [] OTHER ->
         [state |-> b.state,
          failures |-> IF b.state = "open" THEN b.failures
                       ELSE CountFailure(b.failures),
          probeInFlight |-> FALSE, sinceTrip |-> b.sinceTrip]
=============================================================================
