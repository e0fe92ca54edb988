------------------------------ MODULE Breaker ------------------------------
(***************************************************************************)
(* One circuit breaker shared by concurrent callers.                       *)
(*                                                                         *)
(* A caller is a goroutine inside gateway.callThroughBreaker: it asks      *)
(* Allow, makes its upstream call when admitted, and reports the outcome   *)
(* with RecordSuccess or RecordFailure.  The upstream call takes any time, *)
(* so an outcome may be reported long after the breaker has moved on.      *)
(***************************************************************************)
EXTENDS Integers, FiniteSets

CONSTANTS Callers,            \* goroutines that call through this breaker
          Streaming,          \* those whose http.Client has no timeout
          Categories,         \* error categories a caller may report
          TripOn,             \* Policy.TripOn: the relevant ones
          FailureThreshold,   \* Policy.FailureThreshold
          CooldownDuration,   \* Policy.CooldownDuration, in ticks
          FailureCap          \* bound: where the model stops counting failures

ASSUME StreamingAssumption  == Streaming \subseteq Callers
ASSUME CategoriesAssumption == TripOn \subseteq Categories
ASSUME ThresholdAssumption  == FailureThreshold \in Nat \ {0}
ASSUME CooldownAssumption   == CooldownDuration \in Nat \ {0}
ASSUME CapAssumption == FailureCap \in Nat /\ FailureCap >= FailureThreshold

INSTANCE BreakerOps

policy == Policy(FailureThreshold, CooldownDuration, TripOn, FALSE)

VARIABLES
  breaker,    \* the Breaker object
  call,       \* per caller: idle, or running a "normal" or a "probe" call
  stale,      \* callers whose running call was admitted before the last trip
  upstream    \* "flaky": calls may fail; "healthy": every call succeeds

vars == <<breaker, call, stale, upstream>>

Init ==
  /\ breaker = New
  /\ call = [c \in Callers |-> "idle"]
  /\ stale = {}
  /\ upstream = "flaky"

Running == {c \in Callers : call[c] # "idle"}

\* The calls admitted since the breaker last tripped (or was created).
Fresh == Running \ stale

-----------------------------------------------------------------------------
\* Allow: admitted callers go upstream, the others return at once.
Allow(c) ==
  /\ call[c] = "idle"
  /\ breaker' = AfterAllow(breaker, policy)
  /\ call' = [call EXCEPT ![c] =
                CASE ~Admits(breaker, policy)      -> "idle"
                  [] TakesProbe(breaker, policy)   -> "probe"
                  [] OTHER                         -> "normal"]
  /\ UNCHANGED <<stale, upstream>>

Finish(c) ==
  /\ call[c] # "idle"
  /\ call' = [call EXCEPT ![c] = "idle"]

\* The upstream call of c succeeded: RecordSuccess.
Success(c) ==
  /\ Finish(c)
  /\ breaker' = AfterSuccess(breaker, policy)
  /\ stale' = stale \ {c}
  /\ UNCHANGED upstream

\* The upstream call of c failed: RecordFailure(category).  When this trips
\* the breaker, every call still running was admitted before the trip.
Failure(c, category) ==
  /\ upstream = "flaky"
  /\ Finish(c)
  /\ breaker' = AfterFailure(breaker, policy, category)
  /\ stale' = IF Trips(breaker, policy, category) THEN Running \ {c}
              ELSE stale \ {c}
  /\ UNCHANGED upstream

\* The clock advances; past the cooldown it makes no difference.
Tick ==
  /\ breaker.sinceTrip < CooldownDuration
  /\ breaker' = Elapse(breaker, policy)
  /\ UNCHANGED <<call, stale, upstream>>

\* Environment: the provider recovers for good.
Heal ==
  /\ upstream = "flaky"
  /\ upstream' = "healthy"
  /\ UNCHANGED <<breaker, call, stale>>

Next ==
  \/ \E c \in Callers : \/ Allow(c)
                        \/ Success(c)
                        \/ \E category \in Categories : Failure(c, category)
  \/ Tick
  \/ Heal

Spec == Init /\ [][Next]_vars

-----------------------------------------------------------------------------
(***************************************************************************)
(* Fairness.  The clock runs.  Clients keep sending requests: a caller     *)
(* that is idle asks again.  An upstream call returns where the provider's *)
(* http.Client has a timeout, after which the call has failed or, once the *)
(* provider is healthy, has succeeded.  The clients that stream from       *)
(* Anthropic and Gemini (streamHC) have none, and neither has the server:  *)
(* nothing is assumed of a streaming call, which may wait for response     *)
(* headers as long as its client waits.                                    *)
(***************************************************************************)
Return(c) == Success(c) \/ \E category \in Categories : Failure(c, category)

Fairness ==
  /\ WF_vars(Tick)
  /\ \A c \in Callers : WF_vars(Allow(c))
  /\ \A c \in Callers \ Streaming : WF_vars(Return(c))

FairSpec == Spec /\ Fairness

-----------------------------------------------------------------------------
(* Properties *)

TypeOK ==
  /\ breaker \in [state : State, failures : 0..FailureCap,
                  probeInFlight : BOOLEAN, sinceTrip : 0..CooldownDuration]
  /\ call \in [Callers -> {"idle", "normal", "probe"}]
  /\ stale \subseteq Running
  /\ upstream \in {"flaky", "healthy"}

\* The three fields of the breaker never disagree, whatever late outcomes
\* arrive.  The probe slot is taken exactly in the half-open state: a free slot
\* in half-open would admit a second caller, a taken one outside it would be
\* inherited by the next half-open episode.  And the breaker is closed exactly
\* while the failure counter is below the threshold.
StateConsistent ==
  /\ breaker.state = "half_open" <=> breaker.probeInFlight
  /\ breaker.state = "closed" <=> breaker.failures < FailureThreshold

\* Load shedding, the point of the breaker: once tripped, no call that was
\* admitted after the trip is upstream while it is open, and at most the one
\* probe while it is half-open.
LoadShed ==
  /\ breaker.state = "open" => Fresh = {}
  /\ breaker.state = "half_open" =>
       \A c, d \in Fresh : c = d /\ call[c] = "probe"

\* One trip hands out one probe: two probes upstream at the same time belong
\* to different trips, even when late outcomes close and reopen the breaker.
OneProbePerTrip ==
  \A c, d \in Fresh : call[c] = "probe" /\ call[d] = "probe" => c = d

\* The probe slot never leaks: when every category trips the breaker, a taken
\* slot belongs to a call that is still upstream and will report its outcome.
\* (A category outside TripOn leaves the slot taken with nobody to free it.)
SlotHasOwner ==
  TripOn = Categories /\ breaker.probeInFlight =>
    \E c \in Fresh : call[c] = "probe"

\* Only evidence younger than the trip, or a call the trip outran, closes a
\* tripped breaker: the caller whose success closes it held the probe or was
\* admitted before the trip.
ClosingStep ==
  breaker.state # "closed" /\ breaker'.state = "closed" =>
    \E c \in Running : /\ call'[c] = "idle"
                       /\ c \in stale \/ call[c] = "probe"

ClosedByProbeOrStale == [][ClosingStep]_vars

\* The call of c is the probe that the breaker is waiting for.
HoldsSlot(c) == breaker.probeInFlight /\ c \in Fresh /\ call[c] = "probe"

\* Liveness: a half-open episode ends when its probe is a call with a timeout,
\* however many callers are turned away meanwhile and whatever streaming calls
\* hang.  (A streaming probe promises nothing of the kind.)
ProbeResolves ==
  breaker.state = "half_open" /\ (\E c \in Callers \ Streaming : HoldsSlot(c))
    ~> breaker.state # "half_open"

\* Liveness: once the provider answers every call, the breaker closes and
\* stays closed, unless a streaming probe holds the slot for good.  Streaming
\* calls that hang without the slot, or that lost it to a late success, delay
\* nothing.
Recovery ==
  (\A c \in Streaming : []<>~HoldsSlot(c)) =>
    (upstream = "healthy" ~> [](breaker.state = "closed"))
=============================================================================
