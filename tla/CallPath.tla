------------------------------ MODULE CallPath ------------------------------
(***************************************************************************)
(* The call path of the gateway (internal/gateway/provider.go, retry.go):  *)
(* callProviderWithFallback, callThroughBreaker, callSingleProvider and    *)
(* callWithRetry, run by concurrent requests that share one breaker and    *)
(* one health window per provider.                                         *)
(*                                                                         *)
(* A request asks its provider's breaker, attempts the call up to the      *)
(* provider's attempt limit, records the outcome on the breaker, and may   *)
(* then go through the same steps once more for the fallback provider.     *)
(* The client may disconnect at any moment, which cancels the request's    *)
(* context.                                                                *)
(***************************************************************************)
EXTENDS Integers, FiniteSets

CONSTANTS Requests,         \* concurrent requests
          Providers,        \* provider names requests may be routed to
          Registered,       \* those the provider registry knows
          Fallback,         \* the fallback provider's name, or NoProvider
          NoProvider,
          MaxAttempts,      \* provider -> RetryPolicy.MaxAttempts
          RetryOn5xx,       \* providers whose policy retries upstream 5xx
          RetryOnTimeout,   \* providers whose policy retries timeouts
          PolicyOf,         \* provider -> breaker policy
          FailureCap        \* bound: where a breaker stops counting failures

ASSUME RegisteredAssumption == Registered \subseteq Providers
ASSUME FallbackAssumption   == /\ NoProvider \notin Providers
                               /\ Fallback \in Providers \cup {NoProvider}
ASSUME AttemptsAssumption   == MaxAttempts \in [Providers -> Nat]

INSTANCE BreakerOps

\* No configuration names the categories a breaker trips on: every policy starts
\* from DefaultPolicy, which names both.
Categories == {"upstream_failure", "provider_unavailable"}

ASSUME PolicyAssumption ==
  /\ FailureCap \in Nat
  /\ \A p \in Providers :
       /\ PolicyOf[p] \in [FailureThreshold : Nat, CooldownDuration : Nat,
                           TripOn : SUBSET Categories, Disabled : BOOLEAN]
       /\ PolicyOf[p].Disabled \/ PolicyOf[p].TripOn = Categories

VARIABLES
  pc,        \* request -> where it is on the call path
  primary,   \* request -> the provider it was routed to, or NoProvider
  target,    \* request -> the provider being called, or NoProvider
  attempt,   \* request -> attempt number of the retry loop, from 0
  outcome,   \* request -> what the calls have returned so far
  gone,      \* requests whose client disconnected: their context is cancelled
  breakers,  \* provider -> Breaker object
  failed,    \* providers with a failure recorded in the health tracker
  ticket,    \* history: request -> how the target's breaker admitted it
  stale,     \* history: requests admitted before that breaker's last trip
  calls,     \* history: request -> upstream calls made, per provider
  paid,      \* history: requests a provider has answered with ok
  everGone   \* history: some client has disconnected

progress == <<pc, primary, target, attempt, outcome>>
history  == <<ticket, stale, calls, paid>>
clients  == <<gone, everGone>>
vars     == <<progress, clients, breakers, failed, history>>

-----------------------------------------------------------------------------
(* Outcomes of a call and how the code classifies them *)

\* Responses: callSingleProvider returned no error.
Response == {"ok", "client_error", "rate_limited"}

\* Errors an upstream exchange ends in.  "aborted" is the url.Error of an
\* exchange whose context was cancelled; "malformed" is a body that could not
\* be read or normalised.
UpstreamError == {"server_error", "timeout", "unreachable", "malformed",
                  "aborted"}

\* Errors made up by the gateway.  "cancelled" is ctx.Err().
LocalError == {"circuit_open", "not_found", "cancelled", "rewrite_failed"}

Outcome == Response \cup UpstreamError \cup LocalError \cup {"none"}

\* gatewayErrorCategoryAndType: timeouts and net errors, which a url.Error is,
\* are provider_unavailable; everything else is upstream_failure.
Category(o) == IF o \in {"timeout", "unreachable", "aborted"}
               THEN "provider_unavailable" ELSE "upstream_failure"

\* isRetryableProviderError: the errors that send a request to the fallback.
FallsBack(o) == o \in {"timeout", "unreachable", "aborted", "server_error",
                       "circuit_open", "not_found"}

\* The retry reasons of callWithRetry for an attempt at provider p.
Retries(o, p) == \/ o = "rate_limited"
                 \/ o = "timeout" /\ p \in RetryOnTimeout
                 \/ o = "server_error" /\ p \in RetryOn5xx

\* MaxAttempts of 0 executes a single call.
Attempts(p) == IF MaxAttempts[p] = 0 THEN 1 ELSE MaxAttempts[p]

-----------------------------------------------------------------------------
Init ==
  /\ pc = [r \in Requests |-> "idle"]
  /\ primary = [r \in Requests |-> NoProvider]
  /\ target = [r \in Requests |-> NoProvider]
  /\ attempt = [r \in Requests |-> 0]
  /\ outcome = [r \in Requests |-> "none"]
  /\ gone = {}
  /\ breakers = [p \in Providers |-> New]
  /\ failed = {}
  /\ ticket = [r \in Requests |-> "none"]
  /\ stale = {}
  /\ calls = [r \in Requests |-> [p \in Providers |-> 0]]
  /\ paid = {}
  /\ everGone = FALSE

\* A request arrives and is routed to provider p.
Submit(r, p) ==
  /\ pc[r] = "idle"
  /\ pc' = [pc EXCEPT ![r] = "gate"]
  /\ primary' = [primary EXCEPT ![r] = p]
  /\ target' = [target EXCEPT ![r] = p]
  /\ UNCHANGED <<attempt, outcome, clients, breakers, failed, history>>

\* Mutation: the result is attributed to the primary, whoever gave it.
ConcludeForPrimary(r, o) ==
  IF /\ o \notin Response
     /\ Fallback # NoProvider
     /\ target[r] = primary[r] /\ primary[r] # Fallback
     /\ FallsBack(o)
  THEN /\ target' = [target EXCEPT ![r] = Fallback]
       /\ pc' = [pc EXCEPT ![r] = "gate"]
       /\ outcome' = [outcome EXCEPT ![r] = "none"]
  ELSE /\ pc' = [pc EXCEPT ![r] = "done"]
       /\ outcome' = [outcome EXCEPT ![r] = o]
       /\ target' = [target EXCEPT ![r] = primary[r]]

\* callThroughBreaker returned o for the target: callProviderWithFallback
\* goes on to the fallback or returns.  Adapting the body to the fallback's
\* model may fail.
Conclude(r, o) ==
  IF /\ o \notin Response
     /\ Fallback # NoProvider
     /\ target[r] = primary[r] /\ primary[r] # Fallback
     /\ FallsBack(o)
  THEN /\ target' = [target EXCEPT ![r] = Fallback]
       /\ \/ /\ pc' = [pc EXCEPT ![r] = "gate"]
             /\ outcome' = [outcome EXCEPT ![r] = "none"]
          \/ /\ pc' = [pc EXCEPT ![r] = "done"]
             /\ outcome' = [outcome EXCEPT ![r] = "rewrite_failed"]
  ELSE /\ pc' = [pc EXCEPT ![r] = "done"]
       /\ outcome' = [outcome EXCEPT ![r] = o]
       /\ UNCHANGED target

\* callThroughBreaker: Allow admits the request, ...
Admit(r) ==
  LET p == target[r]
      b == breakers[p] IN
  /\ pc[r] = "gate"
  /\ Admits(b, PolicyOf[p])
  /\ breakers' = [breakers EXCEPT ![p] = AfterAllow(b, PolicyOf[p])]
  /\ ticket' = [ticket EXCEPT ![r] =
                  IF TakesProbe(b, PolicyOf[p]) THEN "probe" ELSE "normal"]
  /\ pc' = [pc EXCEPT ![r] = "loop"]
  /\ attempt' = [attempt EXCEPT ![r] = 0]
  /\ UNCHANGED <<primary, target, outcome, clients, failed, stale, calls,
                 paid>>

\* ... or turns it away, and nothing is recorded.
Reject(r) ==
  /\ pc[r] = "gate"
  /\ ~Admits(breakers[target[r]], PolicyOf[target[r]])
  /\ Conclude(r, "circuit_open")
  /\ UNCHANGED <<primary, attempt, clients, breakers, failed, history>>

\* callSingleProvider returned o to callThroughBreaker.
Settle(r, o) ==
  /\ pc' = [pc EXCEPT ![r] = "record"]
  /\ outcome' = [outcome EXCEPT ![r] = o]

\* Top of the retry loop: the context is done, ...
GiveUp(r) ==
  /\ pc[r] = "loop"
  /\ r \in gone
  /\ Settle(r, "cancelled")
  /\ UNCHANGED <<primary, target, attempt, clients, breakers, failed, history>>

\* ... or the provider is not registered, ...
NotFound(r) ==
  /\ pc[r] = "loop"
  /\ r \notin gone
  /\ target[r] \notin Registered
  /\ Settle(r, "not_found")
  /\ UNCHANGED <<primary, target, attempt, clients, breakers, failed, history>>

\* Mutation: the context is not looked at before an attempt.
CallForAnyone(r) ==
  /\ pc[r] = "loop"
  /\ target[r] \in Registered
  /\ pc' = [pc EXCEPT ![r] = "upstream"]
  /\ calls' = [calls EXCEPT ![r][target[r]] = @ + 1]
  /\ UNCHANGED <<primary, target, attempt, outcome, clients, breakers,
                 failed, ticket, stale, paid>>

\* ... or its Do is called.
Call(r) ==
  /\ pc[r] = "loop"
  /\ r \notin gone
  /\ target[r] \in Registered
  /\ pc' = [pc EXCEPT ![r] = "upstream"]
  /\ calls' = [calls EXCEPT ![r][target[r]] = @ + 1]
  /\ UNCHANGED <<primary, target, attempt, outcome, clients, breakers,
                 failed, ticket, stale, paid>>

\* Mutation: one attempt too many.
ReplyRetriesOnceMore(r, o) ==
  /\ pc[r] = "upstream"
  /\ o = "aborted" => r \in gone
  /\ failed' = IF o = "ok" THEN failed ELSE failed \cup {target[r]}
  /\ IF Retries(o, target[r]) /\ attempt[r] < Attempts(target[r])
     THEN pc' = [pc EXCEPT ![r] = "backoff"] /\ UNCHANGED outcome
     ELSE Settle(r, o)
  /\ paid' = IF o = "ok" THEN paid \cup {r} ELSE paid
  /\ UNCHANGED <<primary, target, attempt, clients, breakers, ticket, stale,
                 calls>>

\* The exchange ends in o.  Its outcome goes to the health tracker, then the
\* retry loop decides: another attempt after a backoff, or return.
Reply(r, o) ==
  /\ pc[r] = "upstream"
  /\ o = "aborted" => r \in gone
  /\ failed' = IF o = "ok" THEN failed ELSE failed \cup {target[r]}
  /\ IF Retries(o, target[r]) /\ attempt[r] < Attempts(target[r]) - 1
     THEN pc' = [pc EXCEPT ![r] = "backoff"] /\ UNCHANGED outcome
     ELSE Settle(r, o)
  /\ paid' = IF o = "ok" THEN paid \cup {r} ELSE paid
  /\ UNCHANGED <<primary, target, attempt, clients, breakers, ticket, stale,
                 calls>>

\* The backoff timer fires, ...
BackoffOver(r) ==
  /\ pc[r] = "backoff"
  /\ pc' = [pc EXCEPT ![r] = "loop"]
  /\ attempt' = [attempt EXCEPT ![r] = @ + 1]
  /\ UNCHANGED <<primary, target, outcome, clients, breakers, failed, history>>

\* ... or the context is done first.
BackoffCancelled(r) ==
  /\ pc[r] = "backoff"
  /\ r \in gone
  /\ Settle(r, "cancelled")
  /\ UNCHANGED <<primary, target, attempt, clients, breakers, failed, history>>

\* Mutations: an error made up by the gateway is not recorded; the outcome is
\* recorded on the fallback's breaker, as if the target had moved on already.
RecordSkipsLocalErrors(r) ==
  LET p  == target[r]
      b  == breakers[p]
      ok == outcome[r] \in Response IN
  /\ pc[r] = "record"
  /\ breakers' = [breakers EXCEPT ![p] =
       CASE ok                         -> AfterSuccess(b, PolicyOf[p])
         [] outcome[r] \in LocalError  -> b
         [] OTHER -> AfterFailure(b, PolicyOf[p], Category(outcome[r]))]
  /\ ticket' = [ticket EXCEPT ![r] = "none"]
  /\ stale' = stale \ {r}
  /\ Conclude(r, outcome[r])
  /\ UNCHANGED <<primary, attempt, clients, failed, calls, paid>>
RecordOnFallback(r) ==
  LET p  == IF Fallback = NoProvider THEN target[r] ELSE Fallback
      b  == breakers[p]
      ok == outcome[r] \in Response IN
  /\ pc[r] = "record"
  /\ breakers' = [breakers EXCEPT ![p] =
       IF ok THEN AfterSuccess(b, PolicyOf[p])
       ELSE AfterFailure(b, PolicyOf[p], Category(outcome[r]))]
  /\ ticket' = [ticket EXCEPT ![r] = "none"]
  /\ stale' = stale \ {r}
  /\ Conclude(r, outcome[r])
  /\ UNCHANGED <<primary, attempt, clients, failed, calls, paid>>

\* callThroughBreaker records the outcome on the target's breaker.
Record(r) ==
  LET p  == target[r]
      b  == breakers[p]
      ok == outcome[r] \in Response IN
  /\ pc[r] = "record"
  /\ breakers' = [breakers EXCEPT ![p] =
       IF ok THEN AfterSuccess(b, PolicyOf[p])
       ELSE AfterFailure(b, PolicyOf[p], Category(outcome[r]))]
  /\ ticket' = [ticket EXCEPT ![r] = "none"]
  /\ stale' =
       IF ~ok /\ Trips(b, PolicyOf[p], Category(outcome[r]))
       THEN (stale \cup {q \in Requests : target[q] = p /\ ticket[q] # "none"})
              \ {r}
       ELSE stale \ {r}
  /\ Conclude(r, outcome[r])
  /\ UNCHANGED <<primary, attempt, clients, failed, calls, paid>>

\* The answer is on its way and the goroutine ends, its locals with it.
Return(r) ==
  /\ pc[r] = "done"
  /\ pc' = [pc EXCEPT ![r] = "idle"]
  /\ primary' = [primary EXCEPT ![r] = NoProvider]
  /\ target' = [target EXCEPT ![r] = NoProvider]
  /\ attempt' = [attempt EXCEPT ![r] = 0]
  /\ outcome' = [outcome EXCEPT ![r] = "none"]
  /\ calls' = [calls EXCEPT ![r] = [p \in Providers |-> 0]]
  /\ gone' = gone \ {r}
  /\ paid' = paid \ {r}
  /\ UNCHANGED <<breakers, failed, ticket, stale, everGone>>

\* The client disconnects.
Disconnect(r) ==
  /\ pc[r] \notin {"idle", "done"}
  /\ r \notin gone
  /\ gone' = gone \cup {r}
  /\ everGone' = TRUE
  /\ UNCHANGED <<progress, breakers, failed, history>>

\* The clock advances for every breaker.
Tick ==
  /\ \E p \in Providers : breakers[p].sinceTrip < PolicyOf[p].CooldownDuration
  /\ breakers' = [p \in Providers |-> Elapse(breakers[p], PolicyOf[p])]
  /\ UNCHANGED <<progress, clients, failed, history>>

\* Everything a request does once it is submitted.
Step(r) ==
  \/ Admit(r)
  \/ Reject(r)
  \/ GiveUp(r)
  \/ NotFound(r)
  \/ Call(r)
  \/ \E o \in (Response \cup UpstreamError) : Reply(r, o)
  \/ BackoffOver(r)
  \/ BackoffCancelled(r)
  \/ Record(r)

Next ==
  \/ \E r \in Requests : \/ \E p \in Providers : Submit(r, p)
                         \/ Step(r)
                         \/ Return(r)
                         \/ Disconnect(r)
  \/ Tick

Spec == Init /\ [][Next]_vars

-----------------------------------------------------------------------------
(* Properties *)

TypeOK ==
  /\ pc \in [Requests -> {"idle", "gate", "loop", "upstream", "backoff",
                          "record", "done"}]
  /\ primary \in [Requests -> Providers \cup {NoProvider}]
  /\ target \in [Requests -> Providers \cup {NoProvider}]
  /\ attempt \in [Requests -> Nat]
  /\ outcome \in [Requests -> Outcome]
  /\ gone \subseteq Requests
  /\ \A p \in Providers : breakers[p] \in
       [state : State, failures : 0..FailureCap, probeInFlight : BOOLEAN,
        sinceTrip : 0..PolicyOf[p].CooldownDuration]
  /\ failed \subseteq Providers
  /\ ticket \in [Requests -> {"none", "normal", "probe"}]
  /\ stale \subseteq {r \in Requests : ticket[r] # "none"}
  /\ calls \in [Requests -> [Providers -> Nat]]
  /\ paid \subseteq Requests
  /\ everGone \in BOOLEAN

\* The requests at provider p admitted since its breaker last tripped.
Fresh(p) == {r \in Requests \ stale : target[r] = p /\ ticket[r] # "none"}

\* A probe slot never leaks, whatever ends the call that took it: a response,
\* an exhausted retry loop, an unregistered provider or a client that leaves
\* during the exchange, during a backoff or before the first attempt.
ProbeSlotHasOwner ==
  \A p \in Providers : breakers[p].probeInFlight =>
    \E r \in Fresh(p) : ticket[r] = "probe"

\* A tripped breaker sheds load from both sides, requests routed to the
\* provider and requests that fall back to it: none admitted after the trip
\* while it is open, and one probe while it is half-open.
TrippedSheds ==
  \A p \in Providers :
    /\ breakers[p].state = "open" => Fresh(p) = {}
    /\ breakers[p].state = "half_open" => Cardinality(Fresh(p)) <= 1

\* A request costs at most the attempt limit of its primary plus that of the
\* fallback, and never reaches any other provider.
BoundedCalls ==
  \A r \in Requests, p \in Providers :
    calls[r][p] <= IF p \in {primary[r], Fallback} THEN Attempts(p) ELSE 0

\* No call is wasted: once the client is gone no further exchange is started for
\* it, neither a retry nor the fallback's, and a request that got an ok never
\* calls a provider again, so no completion is paid for twice.
CallIsWanted ==
  \A r \in gone \cup paid : calls'[r] = calls[r] \/ pc'[r] = "idle"

NoWastedCall == [][CallIsWanted]_vars

\* A breaker is not open for nothing: as long as every client waits for its
\* answer, a registered provider's breaker leaves closed only if a call to
\* that provider failed.
OpenHasFailedCall ==
  \A p \in Registered :
    breakers[p].state # "closed" /\ ~everGone => p \in failed

-----------------------------------------------------------------------------
(* Refinement *)

\* What the caller of callProviderWithFallback sees of a request.
Verdict(r) == IF pc[r] # "done" THEN "none"
              ELSE IF outcome[r] \in Response THEN "served" ELSE "failed"

Contract == INSTANCE Failover WITH
  routed  <- primary,
  asked   <- target,
  verdict <- [r \in Requests |-> Verdict(r)]

\* Whatever the breakers, the retries and the clients do, a request gets one
\* answer, fails over at most once, and its answer names the provider that was
\* responsible for it.  (When the answer comes is up to the provider: an exchange
\* by a streaming client, which has no timeout, may wait as long as its client.)
ImplementsFailover == Contract!Spec
=============================================================================
