------------------------------ MODULE Failover ------------------------------
(***************************************************************************)
(* What the call path promises the rest of the gateway, with breakers,     *)
(* retries, timers and cancellation hidden: a request is answered once, by *)
(* the provider it was routed to or, after a single failover, by the       *)
(* fallback; and the answer names the provider it came from.  CallPath     *)
(* implements it.                                                          *)
(***************************************************************************)
CONSTANTS Requests, Providers, Fallback, NoProvider

VARIABLES
  routed,   \* request -> the provider it was routed to, or NoProvider
  asked,    \* request -> the provider now responsible for it
  verdict   \* request -> "none" while it waits, "served" or "failed"

vars == <<routed, asked, verdict>>

Waiting(r) == routed[r] # NoProvider /\ verdict[r] = "none"

MayFailOver(r) ==
  asked[r] = routed[r] /\ routed[r] # Fallback /\ Fallback # NoProvider

Init ==
  /\ routed  = [r \in Requests |-> NoProvider]
  /\ asked   = [r \in Requests |-> NoProvider]
  /\ verdict = [r \in Requests |-> "none"]

Accept(r, p) ==
  /\ routed[r] = NoProvider
  /\ routed' = [routed EXCEPT ![r] = p]
  /\ asked' = [asked EXCEPT ![r] = p]
  /\ UNCHANGED verdict

FailOver(r) ==
  /\ Waiting(r) /\ MayFailOver(r)
  /\ asked' = [asked EXCEPT ![r] = Fallback]
  /\ UNCHANGED <<routed, verdict>>

Serve(r) ==
  /\ Waiting(r)
  /\ verdict' = [verdict EXCEPT ![r] = "served"]
  /\ UNCHANGED <<routed, asked>>

\* A request may also fail while it is being handed to the fallback.
Fail(r) ==
  /\ Waiting(r)
  /\ verdict' = [verdict EXCEPT ![r] = "failed"]
  /\ \/ UNCHANGED asked
     \/ MayFailOver(r) /\ asked' = [asked EXCEPT ![r] = Fallback]
  /\ UNCHANGED routed

Release(r) ==
  /\ verdict[r] # "none"
  /\ routed' = [routed EXCEPT ![r] = NoProvider]
  /\ asked' = [asked EXCEPT ![r] = NoProvider]
  /\ verdict' = [verdict EXCEPT ![r] = "none"]

Next ==
  \E r \in Requests : \/ \E p \in Providers : Accept(r, p)
                      \/ FailOver(r)
                      \/ Serve(r)
                      \/ Fail(r)
                      \/ Release(r)

Spec == Init /\ [][Next]_vars
=============================================================================
