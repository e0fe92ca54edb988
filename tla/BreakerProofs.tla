--------------------------- MODULE BreakerProofs ---------------------------
(***************************************************************************)
(* The package internal/breaker: the safety properties of one Breaker, for *)
(* any set of callers, any TripOn, threshold and cooldown, and those of    *)
(* BreakerRegistry, which hands the breakers out, for any providers, any   *)
(* goroutines and any policies.                                            *)
(*                                                                         *)
(* StateConsistent and LoadShed are inductive only together: which calls   *)
(* may be fresh depends on the state, and which state an outcome leads to  *)
(* depends on the slot and on the counter.  Of the registry, CurrentPolicy *)
(* is inductive beside the types and OutcomeReachesGate is not: it needs   *)
(* that the breaker that admitted a request stays registered for as long   *)
(* as nobody replaces it.                                                  *)
(***************************************************************************)
EXTENDS Breaker, BreakerRegistry, TLAPS

IInv == /\ TypeOK
        /\ StateConsistent
        /\ LoadShed
        /\ OneProbePerTrip

\* The records the breaker methods return.
BreakerRecord == [state : State, failures : 0..FailureCap,
                  probeInFlight : BOOLEAN, sinceTrip : 0..CooldownDuration]

-----------------------------------------------------------------------------
(* Lemmas about the methods of the breaker object *)

\* The policy of this breaker is enabled and carries the constants.
LEMMA PolicyFields ==
  /\ policy.FailureThreshold = FailureThreshold
  /\ policy.CooldownDuration = CooldownDuration
  /\ policy.TripOn = TripOn
  /\ ~policy.Disabled
BY DEF policy, Policy

\* Allow returns a breaker; it only ever moves open to half-open, it leaves
\* the counter alone, and after it a half-open breaker has its slot taken.
LEMMA AllowEffect ==
  ASSUME NEW b \in BreakerRecord,
         b.state = "half_open" <=> b.probeInFlight
  PROVE  LET n == AfterAllow(b, policy) IN
         /\ n \in BreakerRecord
         /\ n.failures = b.failures
         /\ n.state = "half_open" <=> n.probeInFlight
         /\ n.state = b.state \/ (b.state = "open" /\ n.state = "half_open")
         /\ TakesProbe(b, policy) => b.state = "open" /\ n.state = "half_open"
         /\ n.state # b.state => TakesProbe(b, policy)
         /\ Admits(b, policy) /\ ~TakesProbe(b, policy) => b.state = "closed"
<1> USE PolicyFields
<1>1. CASE b.state = "open" /\ b.sinceTrip >= CooldownDuration
  <2>1. Cooled(b, policy) = [b EXCEPT !.state = "half_open"]
    BY <1>1 DEF Cooled
  <2>2. /\ ~b.probeInFlight
        /\ Cooled(b, policy) \in BreakerRecord
        /\ Cooled(b, policy).state = "half_open"
        /\ Cooled(b, policy).failures = b.failures
    BY <1>1, <2>1 DEF BreakerRecord, State
  <2>3. AfterAllow(b, policy) = [Cooled(b, policy) EXCEPT !.probeInFlight = TRUE]
    BY <2>2 DEF AfterAllow, BreakerRecord
  <2> QED BY <1>1, <2>2, <2>3 DEF Admits, TakesProbe, BreakerRecord, State
<1>2. CASE ~(b.state = "open" /\ b.sinceTrip >= CooldownDuration)
  <2>1. Cooled(b, policy) = b
    BY <1>2 DEF Cooled
  <2>2. AfterAllow(b, policy) =
          [b EXCEPT !.probeInFlight = b.probeInFlight \/ b.state = "half_open"]
    BY <2>1 DEF AfterAllow, BreakerRecord
  <2>3. AfterAllow(b, policy) = b
    BY <2>2 DEF BreakerRecord
  <2> QED BY <2>1, <2>3 DEF Admits, TakesProbe, BreakerRecord
<1> QED BY <1>1, <1>2

\* RecordSuccess returns a closed breaker with a free slot and a zero counter.
LEMMA SuccessEffect ==
  ASSUME NEW b \in BreakerRecord
  PROVE  LET n == AfterSuccess(b, policy) IN
         /\ n \in BreakerRecord
         /\ n.state = "closed" /\ n.failures = 0 /\ ~n.probeInFlight
<1>1. AfterSuccess(b, policy) =
        [state |-> "closed", failures |-> 0, probeInFlight |-> FALSE,
         sinceTrip |-> b.sinceTrip]
  BY PolicyFields DEF AfterSuccess
<1> QED BY <1>1, CapAssumption, ThresholdAssumption DEF BreakerRecord, State

\* RecordFailure of a relevant category frees the slot and keeps the state in
\* agreement with the counter; it opens the breaker exactly when it trips.
LEMMA FailureEffect ==
  ASSUME NEW b \in BreakerRecord, NEW category \in Categories,
         b.state = "half_open" <=> b.probeInFlight,
         b.state = "closed" <=> b.failures < FailureThreshold
  PROVE  LET n == AfterFailure(b, policy, category) IN
         /\ n \in BreakerRecord
         /\ n.state = "half_open" <=> n.probeInFlight
         /\ n.state = "closed" <=> n.failures < FailureThreshold
         /\ Trips(b, policy, category) => n.state = "open"
         /\ ~Trips(b, policy, category) => n.state = b.state
         /\ category \in TripOn /\ b.state = "half_open"
              => Trips(b, policy, category)
<1> DEFINE n == AfterFailure(b, policy, category)
<1>0. /\ CountFailure(b.failures) \in 0..FailureCap
      /\ b.failures >= FailureThreshold
           => CountFailure(b.failures) >= FailureThreshold
  BY CapAssumption, ThresholdAssumption DEF CountFailure, BreakerRecord
<1>1. CASE Ignores(policy, category)
  <2>1. n = b /\ ~Trips(b, policy, category) /\ category \notin TripOn
    BY <1>1, PolicyFields DEF AfterFailure, Trips, Ignores
  <2> QED BY <2>1
<1>2. CASE Trips(b, policy, category)
  <2>1. n = [state |-> "open", failures |-> CountFailure(b.failures),
             probeInFlight |-> FALSE, sinceTrip |-> 0]
    BY <1>2 DEF AfterFailure, Trips
  <2>2. CountFailure(b.failures) >= FailureThreshold
    BY <1>0, <1>2, PolicyFields, ThresholdAssumption
    DEF Trips, BreakerRecord
  <2> QED BY <1>0, <1>2, <2>1, <2>2, CapAssumption, ThresholdAssumption,
             CooldownAssumption DEF BreakerRecord, State
<1>3. CASE ~Ignores(policy, category) /\ ~Trips(b, policy, category)
  <2>1. n = [state |-> b.state,
             failures |-> IF b.state = "open" THEN b.failures
                          ELSE CountFailure(b.failures),
             probeInFlight |-> FALSE, sinceTrip |-> b.sinceTrip]
    BY <1>3 DEF AfterFailure
  <2>2. b.state # "half_open"
    BY <1>3 DEF Trips
  <2>3. b.state = "closed" => CountFailure(b.failures) < FailureThreshold
    BY <1>0, <1>3, PolicyFields, CapAssumption, ThresholdAssumption
    DEF Trips, BreakerRecord
  <2>4. n \in BreakerRecord /\ n.state = b.state /\ ~n.probeInFlight
    BY <1>0, <2>1 DEF BreakerRecord, State
  <2>5. n.state = "closed" <=> n.failures < FailureThreshold
    BY <1>0, <2>1, <2>2, <2>3 DEF BreakerRecord, State
  <2> QED BY <1>3, <2>2, <2>4, <2>5
<1> QED BY <1>1, <1>2, <1>3

-----------------------------------------------------------------------------
(* The inductive invariant *)

\* A new breaker without callers satisfies the invariant.
LEMMA InitInv == Init => IInv
BY CapAssumption, ThresholdAssumption, CooldownAssumption
DEF Init, New, IInv, TypeOK, StateConsistent,
    LoadShed, OneProbePerTrip, Fresh, Running, State

\* What an Allow call does to the breaker and to the set of fresh calls.
LEMMA AllowPreserves ==
  ASSUME IInv, NEW c \in Callers, Allow(c)
  PROVE  IInv'
<1> USE DEF IInv
<1>1. /\ breaker \in BreakerRecord /\ breaker' = AfterAllow(breaker, policy)
      /\ breaker.state = "half_open" <=> breaker.probeInFlight
  BY DEF Allow, TypeOK, BreakerRecord, StateConsistent
<1>2. /\ breaker' \in BreakerRecord
      /\ breaker'.failures = breaker.failures
      /\ breaker'.state = "half_open" <=> breaker'.probeInFlight
      /\ \/ breaker'.state = breaker.state
         \/ breaker.state = "open" /\ breaker'.state = "half_open"
      /\ TakesProbe(breaker, policy)
           => breaker.state = "open" /\ breaker'.state = "half_open"
      /\ breaker'.state # breaker.state => TakesProbe(breaker, policy)
      /\ Admits(breaker, policy) /\ ~TakesProbe(breaker, policy)
           => breaker.state = "closed"
  BY <1>1, AllowEffect
<1>3. /\ call \in [Callers -> {"idle", "normal", "probe"}] /\ call[c] = "idle"
      /\ call' = [call EXCEPT ![c] =
                    CASE ~Admits(breaker, policy)    -> "idle"
                      [] TakesProbe(breaker, policy) -> "probe"
                      [] OTHER                       -> "normal"]
      /\ stale' = stale /\ stale \subseteq Running /\ c \notin stale
      /\ TakesProbe(breaker, policy) => Admits(breaker, policy)
  BY DEF Allow, TypeOK, Running, TakesProbe
<1>4. CASE TakesProbe(breaker, policy)
  <2>1. call' = [call EXCEPT ![c] = "probe"]
    BY <1>3, <1>4
  <2>2. Fresh = {} /\ Fresh' = {c}
    BY <1>2, <1>3, <1>4, <2>1 DEF LoadShed, Fresh, Running
  <2>3. TypeOK'
    BY <1>2, <1>3, <2>1 DEF TypeOK, Allow, Running, BreakerRecord
  <2>4. StateConsistent'
    BY <1>2, <1>4 DEF StateConsistent
  <2>5. LoadShed' /\ OneProbePerTrip'
    BY <1>2, <1>3, <1>4, <2>1, <2>2 DEF LoadShed, OneProbePerTrip
  <2> QED BY <2>3, <2>4, <2>5
<1>5. CASE ~TakesProbe(breaker, policy) /\ Admits(breaker, policy)
  <2>1. call' = [call EXCEPT ![c] = "normal"]
    BY <1>3, <1>5
  <2>2. breaker.state = "closed" /\ breaker'.state = "closed"
    BY <1>2, <1>5
  <2>3. TypeOK'
    BY <1>2, <1>3, <2>1 DEF TypeOK, Allow, Running, BreakerRecord
  <2>4. StateConsistent'
    BY <1>2, <2>2 DEF StateConsistent
  <2>5. LoadShed' /\ OneProbePerTrip'
    BY <1>3, <2>1, <2>2 DEF LoadShed, OneProbePerTrip, Fresh, Running
  <2> QED BY <2>3, <2>4, <2>5
<1>6. CASE ~Admits(breaker, policy)
  <2>1. call' = call /\ breaker'.state = breaker.state
    BY <1>2, <1>3, <1>6
  <2>2. TypeOK'
    BY <1>2, <1>3, <2>1 DEF TypeOK, Allow, Running, BreakerRecord
  <2>3. StateConsistent'
    BY <1>2, <2>1 DEF StateConsistent
  <2>4. LoadShed' /\ OneProbePerTrip'
    BY <1>3, <2>1 DEF LoadShed, OneProbePerTrip, Fresh, Running
  <2> QED BY <2>2, <2>3, <2>4
<1> QED BY <1>4, <1>5, <1>6

\* A success closes the breaker, where every caller may be upstream.
LEMMA SuccessPreserves ==
  ASSUME IInv, NEW c \in Callers, Success(c)
  PROVE  IInv'
<1> USE DEF IInv
<1>1. breaker' \in BreakerRecord /\ breaker'.state = "closed"
      /\ breaker'.failures = 0 /\ ~breaker'.probeInFlight
  BY SuccessEffect DEF Success, TypeOK, BreakerRecord
<1>2. /\ call \in [Callers -> {"idle", "normal", "probe"}]
      /\ call' = [call EXCEPT ![c] = "idle"]
      /\ stale' = stale \ {c} /\ stale \subseteq Running
  BY DEF Success, Finish, TypeOK
<1>3. Fresh' \subseteq Fresh /\ \A d \in Fresh' : call'[d] = call[d]
  BY <1>2 DEF Fresh, Running
<1>4. TypeOK'
  BY <1>1, <1>2 DEF TypeOK, Success, Running, BreakerRecord
<1>5. StateConsistent'
  BY <1>1, ThresholdAssumption DEF StateConsistent
<1>6. LoadShed' /\ OneProbePerTrip'
  BY <1>1, <1>3 DEF LoadShed, OneProbePerTrip
<1> QED BY <1>4, <1>5, <1>6

\* A failure that trips the breaker makes every running call a stale one; any
\* other leaves the state as it is.
LEMMA FailurePreserves ==
  ASSUME IInv, NEW c \in Callers, NEW category \in Categories,
         Failure(c, category)
  PROVE  IInv'
<1> USE DEF IInv
<1>1. /\ breaker' \in BreakerRecord
      /\ breaker'.state = "half_open" <=> breaker'.probeInFlight
      /\ breaker'.state = "closed" <=> breaker'.failures < FailureThreshold
      /\ Trips(breaker, policy, category) => breaker'.state = "open"
      /\ ~Trips(breaker, policy, category) => breaker'.state = breaker.state
  BY FailureEffect
  DEF Failure, TypeOK, BreakerRecord, StateConsistent
<1>2. /\ call \in [Callers -> {"idle", "normal", "probe"}]
      /\ call' = [call EXCEPT ![c] = "idle"]
      /\ stale' = IF Trips(breaker, policy, category) THEN Running \ {c}
                  ELSE stale \ {c}
      /\ stale \subseteq Running /\ Running' = Running \ {c}
  BY DEF Failure, Finish, TypeOK, Running
<1>3. /\ Fresh' \subseteq Fresh
      /\ \A d \in Fresh' : call'[d] = call[d]
      /\ Trips(breaker, policy, category) => Fresh' = {}
  BY <1>2 DEF Fresh, Running
<1>4. TypeOK'
  BY <1>1, <1>2 DEF TypeOK, Failure, BreakerRecord
<1>5. StateConsistent'
  BY <1>1 DEF StateConsistent
<1>6. LoadShed' /\ OneProbePerTrip'
  BY <1>1, <1>3 DEF LoadShed, OneProbePerTrip
<1> QED BY <1>4, <1>5, <1>6

\* The clock and the provider's recovery touch no state the invariant reads
\* but the type of sinceTrip.
LEMMA EnvironmentPreserves ==
  ASSUME IInv, Tick \/ Heal \/ UNCHANGED vars
  PROVE  IInv'
<1> USE DEF IInv
<1>1. /\ breaker' \in BreakerRecord /\ breaker'.state = breaker.state
      /\ breaker'.failures = breaker.failures
      /\ breaker'.probeInFlight = breaker.probeInFlight
  BY PolicyFields, CooldownAssumption
  DEF Tick, Heal, vars, Elapse, TypeOK, BreakerRecord
<1>2. call' = call /\ stale' = stale /\ upstream' \in {"flaky", "healthy"}
  BY DEF Tick, Heal, vars, TypeOK
<1>3. TypeOK'
  BY <1>1, <1>2 DEF TypeOK, Running, BreakerRecord
<1>4. StateConsistent'
  BY <1>1 DEF StateConsistent
<1>5. LoadShed' /\ OneProbePerTrip'
  BY <1>1, <1>2 DEF LoadShed, OneProbePerTrip, Fresh, Running
<1> QED BY <1>3, <1>4, <1>5

\* The invariant is inductive.
LEMMA NextInv == IInv /\ [Next]_vars => IInv'
BY AllowPreserves, SuccessPreserves, FailurePreserves, EnvironmentPreserves
DEF Next

-----------------------------------------------------------------------------
(* The theorems *)

\* The invariant holds throughout.
LEMMA SpecInv == Spec => []IInv
<1>1. Init => IInv
  BY InitInv
<1>2. IInv /\ [Next]_vars => IInv'
  BY NextInv
<1> QED BY <1>1, <1>2, PTL DEF Spec

\* The breaker, its callers and the clock stay in their types.
THEOREM TypeCorrect == Spec => []TypeOK
<1>1. IInv => TypeOK
  BY DEF IInv
<1> QED BY <1>1, SpecInv, PTL

\* Whatever outcomes arrive late, the state, the probe slot and the failure
\* counter of a breaker agree.
THEOREM FieldsAgree == Spec => []StateConsistent
<1>1. IInv => StateConsistent
  BY DEF IInv
<1> QED BY <1>1, SpecInv, PTL

\* A tripped breaker sheds load: no call admitted after the trip is upstream
\* while it is open and at most the probe while it is half-open, for any
\* number of concurrent callers.
THEOREM LoadIsShed == Spec => []LoadShed
<1>1. IInv => LoadShed
  BY DEF IInv
<1> QED BY <1>1, SpecInv, PTL

\* One trip hands out one probe, for any number of concurrent callers.
THEOREM TripHandsOutOneProbe == Spec => []OneProbePerTrip
<1>1. IInv => OneProbePerTrip
  BY DEF IInv
<1> QED BY <1>1, SpecInv, PTL

-----------------------------------------------------------------------------
(* The probe slot does not leak *)

\* The probe slot always has an owner that will free it, provided every
\* category the callers report trips the breaker.
THEOREM SlotNeverLeaks == Spec => []SlotHasOwner
<1>1. Init => SlotHasOwner
  BY DEF Init, New, SlotHasOwner
<1>2. IInv /\ SlotHasOwner /\ [Next]_vars => SlotHasOwner'
  <2> SUFFICES ASSUME IInv, SlotHasOwner, [Next]_vars,
                      TripOn = Categories, breaker'.probeInFlight
               PROVE  \E c \in Fresh' : call'[c] = "probe"
    BY DEF SlotHasOwner
  <2> USE DEF IInv
  <2>0. /\ breaker \in BreakerRecord
        /\ call \in [Callers -> {"idle", "normal", "probe"}]
        /\ stale \subseteq Running
        /\ breaker.state = "half_open" <=> breaker.probeInFlight
        /\ breaker.state = "closed" <=> breaker.failures < FailureThreshold
        /\ IInv'
    BY NextInv DEF TypeOK, BreakerRecord, StateConsistent
  <2>1. breaker'.state = "half_open"
    BY <2>0 DEF StateConsistent
  <2>2. ASSUME NEW c \in Callers, Allow(c)
        PROVE  \E d \in Fresh' : call'[d] = "probe"
    <3>1. /\ breaker' = AfterAllow(breaker, policy)
          /\ TakesProbe(breaker, policy) \/ breaker.probeInFlight
      BY <2>0, <2>1, <2>2, AllowEffect DEF Allow
    <3>2. CASE TakesProbe(breaker, policy)
      <4>1. Admits(breaker, policy)
        BY <3>2 DEF TakesProbe
      <4>2. call' = [call EXCEPT ![c] = "probe"] /\ stale' = stale
            /\ c \notin stale
        BY <2>0, <2>2, <3>2, <4>1 DEF Allow, Running
      <4> QED BY <2>0, <4>2 DEF Fresh, Running
    <3>3. CASE breaker.probeInFlight
      <4>1. ~Admits(breaker, policy) /\ ~TakesProbe(breaker, policy)
        BY <2>0, <3>3, AllowEffect DEF TakesProbe
      <4>2. /\ call[c] = "idle" /\ call' = [call EXCEPT ![c] = "idle"]
            /\ stale' = stale
        BY <2>2, <4>1 DEF Allow
      <4>3. call' = call
        BY <2>0, <4>2
      <4> QED BY <3>3, <4>2, <4>3 DEF SlotHasOwner, Fresh, Running
    <3> QED BY <3>1, <3>2, <3>3
  <2>3. ASSUME NEW c \in Callers, Success(c)
        PROVE  FALSE
    BY <2>0, <2>1, <2>3, SuccessEffect DEF Success
  <2>4. ASSUME NEW c \in Callers, NEW category \in Categories,
               Failure(c, category)
        PROVE  FALSE
    <3>1. breaker' = AfterFailure(breaker, policy, category)
      BY <2>4 DEF Failure
    <3> QED BY <2>0, <2>1, <3>1, FailureEffect
  <2>5. CASE Tick \/ Heal \/ UNCHANGED vars
    <3>1. breaker'.probeInFlight = breaker.probeInFlight
      BY <2>0, <2>5 DEF Tick, Heal, vars, Elapse, BreakerRecord
    <3>2. call' = call /\ stale' = stale
      BY <2>5 DEF Tick, Heal, vars
    <3> QED BY <3>1, <3>2 DEF SlotHasOwner, Fresh, Running
  <2> QED BY <2>2, <2>3, <2>4, <2>5 DEF Next
<1> QED BY <1>1, <1>2, SpecInv, PTL DEF Spec

-----------------------------------------------------------------------------
(* What may close a tripped breaker *)

\* A tripped breaker is closed only by its probe or by a call that was already
\* upstream when it tripped.
THEOREM ClosingEvidence == Spec => ClosedByProbeOrStale
<1>1. IInv /\ [Next]_vars => [ClosingStep]_vars
  <2> SUFFICES ASSUME IInv, [Next]_vars PROVE ClosingStep
    OBVIOUS
  <2> USE DEF ClosingStep
  <2> HAVE breaker.state # "closed" /\ breaker'.state = "closed"
  <2> USE DEF IInv
  <2>0. /\ breaker \in BreakerRecord
        /\ call \in [Callers -> {"idle", "normal", "probe"}]
        /\ breaker.state = "half_open" <=> breaker.probeInFlight
        /\ breaker.state = "closed" <=> breaker.failures < FailureThreshold
    BY DEF TypeOK, BreakerRecord, StateConsistent
  <2>1. ASSUME NEW c \in Callers, Allow(c)
        PROVE  FALSE
    BY <2>0, <2>1, AllowEffect DEF Allow
  <2>2. ASSUME NEW c \in Callers, Success(c)
        PROVE  c \in Running /\ call'[c] = "idle"
               /\ (c \in stale \/ call[c] = "probe")
    <3>1. c \in Running /\ call'[c] = "idle"
      BY <2>0, <2>2 DEF Success, Finish, Running
    <3>2. breaker.state \in {"open", "half_open"}
      BY <2>0 DEF BreakerRecord, State
    <3> QED BY <3>1, <3>2 DEF LoadShed, Fresh
  <2>3. ASSUME NEW c \in Callers, NEW category \in Categories,
               Failure(c, category)
        PROVE  FALSE
    <3>1. breaker' = AfterFailure(breaker, policy, category)
      BY <2>3 DEF Failure
    <3> QED BY <2>0, <3>1, FailureEffect
  <2>4. CASE Tick \/ Heal \/ UNCHANGED vars
    BY <2>0, <2>4 DEF Tick, Heal, vars, Elapse, BreakerRecord
  <2> QED BY <2>1, <2>2, <2>3, <2>4 DEF Next
<1> QED BY <1>1, SpecInv, PTL DEF Spec, ClosedByProbeOrStale
-----------------------------------------------------------------------------
(* The registry *)

\* What holds of a request between its two lookups: its outcome is not recorded,
\* and unless replaced, the breaker that admitted it is the registered one.
GateKept ==
  \A g \in Goroutines :
    /\ pc[g] # "idle" => recordedOn[g] = None
    /\ pc[g] \in {"upstream", "record", "record_create"} /\ g \notin replaced =>
         admittedBy[g] # None /\ breakers[target[g]] = admittedBy[g]

RegistryInv == RegistryTypes /\ CurrentPolicy /\ GateKept /\ OutcomeReachesGate

LEMMA InitRegistryInv == RegistryInit => RegistryInv
<1> SUFFICES ASSUME RegistryInit PROVE RegistryInv
  OBVIOUS
<1>1. RegistryTypes
  BY BoundAssumption DEF RegistryInit, RegistryTypes, Allocated
<1>2. CurrentPolicy /\ GateKept /\ OutcomeReachesGate
  BY DEF RegistryInit, CurrentPolicy, GateKept, OutcomeReachesGate
<1> QED BY <1>1, <1>2 DEF RegistryInv

\* A lookup that returns the registered breaker, in either role.
LEMMA HandOutKeeps ==
  ASSUME RegistryInv, NEW g \in Goroutines,
         pc[g] \in {"gate", "gate_create", "record", "record_create"},
         breakers[target[g]] # None,
         HandOut(g, breakers[target[g]]),
         UNCHANGED <<breakers, overrides, policyOf, target>>
  PROVE  RegistryInv'
<1> USE DEF RegistryInv, RegistryTypes
<1>1. breakers[target[g]] \in Allocated
  OBVIOUS
<1>2. CASE pc[g] \in {"gate", "gate_create"}
  <2>1. RegistryTypes'
    BY <1>1, <1>2 DEF HandOut, Allocated
  <2>2. CurrentPolicy'
    BY DEF CurrentPolicy, Effective
  <2>3. GateKept'
    BY <1>1, <1>2 DEF HandOut, GateKept
  <2>4. OutcomeReachesGate'
    BY <1>2 DEF HandOut, GateKept, OutcomeReachesGate
  <2> QED BY <2>1, <2>2, <2>3, <2>4
<1>3. CASE pc[g] \in {"record", "record_create"}
  <2>1. RegistryTypes'
    BY <1>1, <1>3 DEF HandOut, Allocated
  <2>2. CurrentPolicy'
    BY DEF CurrentPolicy, Effective
  <2>3. GateKept'
    BY <1>3 DEF HandOut, GateKept
  <2>4. OutcomeReachesGate'
    BY <1>3 DEF HandOut, GateKept, OutcomeReachesGate
  <2> QED BY <2>1, <2>2, <2>3, <2>4
<1> QED BY <1>2, <1>3

\* A breaker that is created is the newest, runs the policy in force, and leaves
\* the others as they were.
LEMMA CreateKeeps ==
  ASSUME RegistryInv, NEW g \in Goroutines, Create(g)
  PROVE  RegistryInv'
<1> USE DEF RegistryInv, RegistryTypes
<1> DEFINE new == Len(policyOf) + 1
<1>1. /\ Effective(target[g]) \in Policies
      /\ Len(policyOf) \in Nat /\ new \in Nat /\ new # None
  BY PolicyAssumption, NoneAssumption DEF Effective
<1>2. /\ policyOf' \in Seq(Policies)
      /\ Len(policyOf') = new
      /\ policyOf'[new] = Effective(target[g])
      /\ \A b \in Allocated : policyOf'[b] = policyOf[b]
  BY <1>1 DEF Create, Allocated
<1>3. Allocated' = Allocated \cup {new}
  BY <1>1, <1>2 DEF Allocated
<1>4. breakers' \in [Providers -> Allocated' \cup {None}]
  BY <1>3 DEF Create
<1>5. CurrentPolicy'
  <2> SUFFICES ASSUME NEW p \in Providers, breakers'[p] # None
               PROVE  policyOf'[breakers'[p]] = Effective(p)'
    BY DEF CurrentPolicy
  <2>1. Effective(p)' = Effective(p)
    BY DEF Create, Effective
  <2>2. CASE p = target[g]
    BY <1>2, <2>1, <2>2 DEF Create
  <2>3. CASE p # target[g]
    <3>1. breakers'[p] = breakers[p] /\ breakers[p] \in Allocated
      BY <2>3 DEF Create
    <3> QED BY <1>2, <2>1, <3>1 DEF CurrentPolicy
  <2> QED BY <2>2, <2>3
<1>6. CASE pc[g] = "gate_create"
  <2>1. /\ pc' = [pc EXCEPT ![g] = "upstream"]
        /\ admittedBy' = [admittedBy EXCEPT ![g] = new]
        /\ replaced' = replaced \ {g}
        /\ recordedOn' = recordedOn
    BY <1>6 DEF Create, HandOut
  <2>2. RegistryTypes'
    BY <1>1, <1>2, <1>3, <1>4, <2>1, BoundAssumption DEF Create
  <2>3. GateKept'
    BY <1>1, <1>6, <2>1 DEF Create, GateKept
  <2>4. OutcomeReachesGate'
    BY <1>6, <2>1 DEF GateKept, OutcomeReachesGate
  <2> QED BY <1>5, <2>2, <2>3, <2>4
<1>7. CASE pc[g] = "record_create"
  <2>1. g \in replaced
    BY <1>7 DEF Create, GateKept
  <2>2. /\ pc' = [pc EXCEPT ![g] = "idle"]
        /\ recordedOn' = [recordedOn EXCEPT ![g] = new]
        /\ admittedBy' = admittedBy /\ replaced' = replaced
    BY <1>7 DEF Create, HandOut
  <2>3. RegistryTypes'
    BY <1>1, <1>2, <1>3, <1>4, <2>2, BoundAssumption DEF Create
  <2>4. GateKept'
    BY <1>7, <2>2 DEF Create, GateKept
  <2>5. OutcomeReachesGate'
    BY <2>1, <2>2 DEF OutcomeReachesGate
  <2> QED BY <1>5, <2>3, <2>4, <2>5
<1> QED BY <1>6, <1>7 DEF Create

LEMMA NextRegistryInv == RegistryInv /\ [RegistryNext]_registryVars => RegistryInv'
<1> SUFFICES ASSUME RegistryInv, [RegistryNext]_registryVars PROVE RegistryInv'
  OBVIOUS
<1> USE DEF RegistryInv, RegistryTypes
<1>1. ASSUME NEW g \in Goroutines, NEW p \in Providers, Start(g, p)
      PROVE  RegistryInv'
  BY <1>1 DEF Start, Allocated, CurrentPolicy, Effective, GateKept,
              OutcomeReachesGate
<1>2. ASSUME NEW g \in Goroutines, Answered(g) PROVE RegistryInv'
  BY <1>2 DEF Answered, Allocated, CurrentPolicy, Effective, GateKept,
              OutcomeReachesGate
<1>3. ASSUME NEW g \in Goroutines, Found(g) \/ FoundLate(g) PROVE RegistryInv'
  BY <1>3, HandOutKeeps DEF Found, FoundLate
<1>4. ASSUME NEW g \in Goroutines, Missed(g) PROVE RegistryInv'
  <2>1. RegistryTypes' /\ CurrentPolicy'
    BY <1>4 DEF Missed, Allocated, CurrentPolicy, Effective
  <2>2. GateKept' /\ OutcomeReachesGate'
    BY <1>4 DEF Missed, GateKept, OutcomeReachesGate
  <2> QED BY <2>1, <2>2
<1>5. ASSUME NEW g \in Goroutines, Create(g) PROVE RegistryInv'
  BY <1>5, CreateKeeps
<1>6. ASSUME NEW p \in Providers, NEW override \in Policies, SetPolicy(p, override)
      PROVE  RegistryInv'
  <2>1. RegistryTypes' /\ CurrentPolicy'
    BY <1>6 DEF SetPolicy, Allocated, CurrentPolicy, Effective
  <2>2. GateKept' /\ OutcomeReachesGate'
    BY <1>6 DEF SetPolicy, GateKept, OutcomeReachesGate
  <2> QED BY <2>1, <2>2
<1>7. CASE UNCHANGED registryVars
  BY <1>7 DEF registryVars, Allocated, CurrentPolicy, Effective, GateKept,
              OutcomeReachesGate
<1> QED BY <1>1, <1>2, <1>3, <1>4, <1>5, <1>6, <1>7 DEF RegistryNext

LEMMA SpecRegistryInv == RegistrySpec => []RegistryInv
BY InitRegistryInv, NextRegistryInv, PTL DEF RegistrySpec

\* The registry, its breakers and the requests under way stay in their types: what
\* a request holds is a breaker that exists.
THEOREM RegistryTypeCorrect == RegistrySpec => []RegistryTypes
<1>1. RegistryInv => RegistryTypes
  BY DEF RegistryInv
<1> QED BY <1>1, SpecRegistryInv, PTL

\* A registered breaker runs the policy in force, whatever goroutines create and
\* whenever SetPolicy runs between For's two critical sections.
THEOREM PolicyInForce == RegistrySpec => []CurrentPolicy
<1>1. RegistryInv => CurrentPolicy
  BY DEF RegistryInv
<1> QED BY <1>1, SpecRegistryInv, PTL

\* The breaker that hears of an outcome is the one that admitted the call, unless
\* it was discarded in between.
THEOREM OutcomeReachesItsGate == RegistrySpec => []OutcomeReachesGate
<1>1. RegistryInv => OutcomeReachesGate
  BY DEF RegistryInv
<1> QED BY <1>1, SpecRegistryInv, PTL
=============================================================================
