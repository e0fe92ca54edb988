-------------------------- MODULE BreakerRegistry --------------------------
(***************************************************************************)
(* internal/breaker/registry.go: one Breaker object per provider, created  *)
(* on first access by whichever goroutine gets there first.                *)
(*                                                                         *)
(* A goroutine is a request inside gateway.callThroughBreaker: it looks    *)
(* the breaker up with For, calls the provider, and looks it up again to   *)
(* record the outcome.  For is two critical sections, a lookup under the   *)
(* read lock and a creation under the write lock, with the lock released   *)
(* in between; SetPolicy may run at any point.                             *)
(***************************************************************************)
EXTENDS Naturals, Sequences

CONSTANTS Providers,       \* provider names
          Goroutines,      \* requests that look breakers up
          Policies,        \* policies an override may carry
          DefaultPolicy,   \* NewRegistry's defaultPolicy
          None,            \* an absent map entry, a local not yet assigned
          MaxBreakers      \* bound: Breaker objects the model may allocate

ASSUME PolicyAssumption == DefaultPolicy \in Policies
ASSUME NoneAssumption   == None \notin Policies \cup Nat
ASSUME BoundAssumption  == MaxBreakers \in Nat

VARIABLES
  breakers,    \* provider -> the Breaker registered for it, or None
  overrides,   \* provider -> overriding policy, or None
  policyOf,    \* the policy of each allocated Breaker, in allocation order
  pc,          \* goroutine -> idle, For's two sections twice, or upstream
  target,      \* goroutine -> the provider it calls
  admittedBy,  \* goroutine -> the Breaker its first For returned
  recordedOn,  \* goroutine -> the Breaker its second For returned
  replaced     \* goroutines that had their provider's policy set since

registryVars == <<breakers, overrides, policyOf, pc, target, admittedBy,
                  recordedOn, replaced>>

Allocated == 1..Len(policyOf)

\* The policy For gives a new breaker.
Effective(p) == IF overrides[p] = None THEN DefaultPolicy ELSE overrides[p]

RegistryInit ==
  /\ breakers = [p \in Providers |-> None]
  /\ overrides = [p \in Providers |-> None]
  /\ policyOf = <<>>
  /\ pc = [g \in Goroutines |-> "idle"]
  /\ target \in [Goroutines -> Providers]
  /\ admittedBy = [g \in Goroutines |-> None]
  /\ recordedOn = [g \in Goroutines |-> None]
  /\ replaced = {}

-----------------------------------------------------------------------------
\* A request for provider p enters callThroughBreaker.
Start(g, p) ==
  /\ pc[g] = "idle"
  /\ pc' = [pc EXCEPT ![g] = "gate"]
  /\ target' = [target EXCEPT ![g] = p]
  /\ admittedBy' = [admittedBy EXCEPT ![g] = None]
  /\ recordedOn' = [recordedOn EXCEPT ![g] = None]
  /\ UNCHANGED <<breakers, overrides, policyOf, replaced>>

\* The provider call is over; the goroutine looks the breaker up again.
Answered(g) ==
  /\ pc[g] = "upstream"
  /\ pc' = [pc EXCEPT ![g] = "record"]
  /\ UNCHANGED <<breakers, overrides, policyOf, target, admittedBy,
                 recordedOn, replaced>>

\* For returns breaker b to a goroutine at the gate or recording its outcome.
HandOut(g, b) ==
  IF pc[g] \in {"gate", "gate_create"}
  THEN /\ pc' = [pc EXCEPT ![g] = "upstream"]
       /\ admittedBy' = [admittedBy EXCEPT ![g] = b]
       /\ replaced' = replaced \ {g}
       /\ UNCHANGED recordedOn
  ELSE /\ pc' = [pc EXCEPT ![g] = "idle"]
       /\ recordedOn' = [recordedOn EXCEPT ![g] = b]
       /\ UNCHANGED <<admittedBy, replaced>>

\* For, under the read lock: the breaker exists.
Found(g) ==
  /\ pc[g] \in {"gate", "record"}
  /\ breakers[target[g]] # None
  /\ HandOut(g, breakers[target[g]])
  /\ UNCHANGED <<breakers, overrides, policyOf, target>>

\* For, under the read lock: it does not; go on to take the write lock.
Missed(g) ==
  /\ pc[g] \in {"gate", "record"}
  /\ breakers[target[g]] = None
  /\ pc' = [pc EXCEPT ![g] = IF @ = "gate" THEN "gate_create"
                             ELSE "record_create"]
  /\ UNCHANGED <<breakers, overrides, policyOf, target, admittedBy,
                 recordedOn, replaced>>

\* For, under the write lock: another goroutine created it in between, ...
FoundLate(g) ==
  /\ pc[g] \in {"gate_create", "record_create"}
  /\ breakers[target[g]] # None
  /\ HandOut(g, breakers[target[g]])
  /\ UNCHANGED <<breakers, overrides, policyOf, target>>

\* Mutation: the map is not looked at again under the write lock.
CreateUnchecked(g) ==
  /\ pc[g] \in {"gate_create", "record_create"}
  /\ Len(policyOf) < MaxBreakers
  /\ policyOf' = Append(policyOf, Effective(target[g]))
  /\ breakers' = [breakers EXCEPT ![target[g]] = Len(policyOf) + 1]
  /\ HandOut(g, Len(policyOf) + 1)
  /\ UNCHANGED <<overrides, target>>

\* ... or this one creates it with the policy in force.
Create(g) ==
  /\ pc[g] \in {"gate_create", "record_create"}
  /\ breakers[target[g]] = None
  /\ Len(policyOf) < MaxBreakers
  /\ policyOf' = Append(policyOf, Effective(target[g]))
  /\ breakers' = [breakers EXCEPT ![target[g]] = Len(policyOf) + 1]
  /\ HandOut(g, Len(policyOf) + 1)
  /\ UNCHANGED <<overrides, target>>

\* Mutation: the provider's breaker is kept.
SetPolicyKeepsBreaker(p, policy) ==
  /\ overrides' = [overrides EXCEPT ![p] = policy]
  /\ replaced' = replaced \cup {g \in Goroutines : target[g] = p}
  /\ UNCHANGED <<breakers, policyOf, pc, target, admittedBy, recordedOn>>

\* SetPolicy stores the override and discards the provider's breaker.
SetPolicy(p, policy) ==
  /\ overrides' = [overrides EXCEPT ![p] = policy]
  /\ breakers' = [breakers EXCEPT ![p] = None]
  /\ replaced' = replaced \cup {g \in Goroutines : target[g] = p}
  /\ UNCHANGED <<policyOf, pc, target, admittedBy, recordedOn>>

RegistryNext ==
  \/ \E g \in Goroutines : \/ \E p \in Providers : Start(g, p)
                           \/ Answered(g)
                           \/ Found(g)
                           \/ Missed(g)
                           \/ FoundLate(g)
                           \/ Create(g)
  \/ \E p \in Providers, policy \in Policies : SetPolicy(p, policy)

RegistrySpec == RegistryInit /\ [][RegistryNext]_registryVars

-----------------------------------------------------------------------------
(* Properties *)

RegistryTypes ==
  /\ breakers \in [Providers -> Allocated \cup {None}]
  /\ overrides \in [Providers -> Policies \cup {None}]
  /\ policyOf \in Seq(Policies) /\ Len(policyOf) <= MaxBreakers
  /\ pc \in [Goroutines -> {"idle", "gate", "gate_create", "upstream",
                            "record", "record_create"}]
  /\ target \in [Goroutines -> Providers]
  /\ admittedBy \in [Goroutines -> Allocated \cup {None}]
  /\ recordedOn \in [Goroutines -> Allocated \cup {None}]
  /\ replaced \subseteq Goroutines

\* A registered breaker always runs the policy in force for its provider: a
\* breaker built from an older policy can neither survive SetPolicy nor be
\* registered after it by a goroutine that missed before it.
CurrentPolicy ==
  \A p \in Providers : breakers[p] # None =>
    policyOf[breakers[p]] = Effective(p)

\* A request's outcome is recorded on the very breaker that admitted it,
\* unless SetPolicy discarded that breaker meanwhile: two goroutines that both
\* miss do not each create one.
OutcomeReachesGate ==
  \A g \in Goroutines :
    recordedOn[g] # None /\ g \notin replaced => recordedOn[g] = admittedBy[g]
=============================================================================
