----------------------------- MODULE CallProofs -----------------------------
(***************************************************************************)
(* The safety properties of CallPath, and its refinement of Failover,      *)
(* proved for any requests, providers, fallback, attempt limits and        *)
(* breaker policies.                                                       *)
(*                                                                         *)
(* The invariant says, for every place on the call path, whom a request    *)
(* asks and what it has spent, and for every provider which requests may   *)
(* be fresh in each state of its breaker.  The two sides need each other:  *)
(* a half-open breaker is not left behind only because the probe's owner   *)
(* is on its way to recording an outcome.                                  *)
(***************************************************************************)
EXTENDS CallPath, FiniteSetTheorems, TLAPS

Places == {"idle", "gate", "loop", "upstream", "backoff", "record", "done"}

\* A request between Admit and Record.
Admitted == {"loop", "upstream", "backoff", "record"}

Recordable == Response \cup UpstreamError \cup {"cancelled", "not_found"}

BreakerRecord(p) ==
  [state : State, failures : 0..FailureCap, probeInFlight : BOOLEAN,
   sinceTrip : 0..PolicyOf[p].CooldownDuration]

\* Whom a request asks, with which ticket, and what it has heard.
Located(r) ==
  /\ pc[r] = "idle" => primary[r] = NoProvider /\ target[r] = NoProvider
  /\ pc[r] # "idle" => /\ primary[r] \in Providers
                       /\ target[r] \in Providers
                       /\ target[r] \in {primary[r], Fallback}
  /\ ticket[r] # "none" <=> pc[r] \in Admitted
  /\ outcome[r] = "none" <=> pc[r] \notin {"record", "done"}
  /\ pc[r] = "record" => outcome[r] \in Recordable

\* Calls to the target so far: one for each attempt, and one that is running or
\* over.
Spent(r) == calls[r][target[r]]

Counted(r) ==
  /\ pc[r] = "idle" => \A p \in Providers : calls[r][p] = 0
  /\ pc[r] # "idle" =>
       /\ \A p \in Providers :
            p # target[r] =>
              calls[r][p] <= IF target[r] # primary[r] /\ p = primary[r]
                             THEN Attempts(p) ELSE 0
       /\ pc[r] = "gate" => Spent(r) = 0
       /\ pc[r] = "loop" => Spent(r) <= attempt[r] /\ attempt[r] < Attempts(target[r])
       /\ pc[r] = "upstream" => Spent(r) <= attempt[r] + 1
                                /\ attempt[r] < Attempts(target[r])
       /\ pc[r] = "backoff" => Spent(r) <= attempt[r] + 1
                               /\ attempt[r] + 1 < Attempts(target[r])
       /\ Spent(r) <= Attempts(target[r])

\* An ok is never followed by another call, and a failure that reaches a breaker
\* was reported to the health tracker, unless no client had to leave for it.
Answered(r) ==
  /\ r \in paid => pc[r] \in {"record", "done"} /\ outcome[r] = "ok"
  /\ pc[r] = "record" /\ outcome[r] \notin Response /\ ~everGone
     /\ target[r] \in Registered => target[r] \in failed

RequestInv(r) == Located(r) /\ Counted(r) /\ Answered(r)

\* The state of a breaker, its slot, and the requests that may be fresh.
BreakerInv(p) ==
  LET b == breakers[p] IN
  /\ PolicyOf[p].Disabled => b.state = "closed"
  /\ b.state = "half_open" <=> b.probeInFlight
  /\ b.state = "open" => Fresh(p) = {}
  /\ b.state = "half_open" =>
       \E r \in Requests : Fresh(p) = {r} /\ ticket[r] = "probe"
  /\ b.state # "closed" /\ ~everGone /\ p \in Registered => p \in failed

IInv == /\ TypeOK
        /\ DOMAIN breakers = Providers
        /\ gone # {} => everGone
        /\ \A r \in Requests : RequestInv(r)
        /\ \A p \in Providers : BreakerInv(p)

-----------------------------------------------------------------------------
(* Lemmas about the constants and the breaker object *)

LEMMA AttemptsPositive ==
  ASSUME NEW p \in Providers PROVE Attempts(p) \in Nat /\ Attempts(p) >= 1
BY AttemptsAssumption DEF Attempts

LEMMA NewIsBreaker == \A p \in Providers : New \in BreakerRecord(p)
BY PolicyAssumption DEF New, BreakerRecord, State

\* Allow admits to a closed breaker, which it leaves closed, or to an open one
\* that has cooled down, whose slot it hands out.
LEMMA AllowEffect ==
  ASSUME NEW p \in Providers, NEW b \in BreakerRecord(p),
         b.state = "half_open" <=> b.probeInFlight,
         PolicyOf[p].Disabled => b.state = "closed",
         Admits(b, PolicyOf[p])
  PROVE  LET n == AfterAllow(b, PolicyOf[p]) IN
         /\ n \in BreakerRecord(p)
         /\ n.state = "half_open" <=> n.probeInFlight
         /\ IF TakesProbe(b, PolicyOf[p])
            THEN /\ b.state = "open" /\ n.state = "half_open"
                 /\ ~PolicyOf[p].Disabled
            ELSE b.state = "closed" /\ n.state = "closed"
<1> DEFINE q == PolicyOf[p]
<1>1. CASE q.Disabled
  BY <1>1 DEF AfterAllow, TakesProbe
<1>2. CASE ~q.Disabled /\ b.state = "open" /\ b.sinceTrip >= q.CooldownDuration
  <2>1. Cooled(b, q) = [b EXCEPT !.state = "half_open"]
    BY <1>2 DEF Cooled
  <2>2. /\ ~b.probeInFlight /\ Cooled(b, q) \in BreakerRecord(p)
        /\ Cooled(b, q).state = "half_open"
    BY <1>2, <2>1 DEF BreakerRecord, State
  <2>3. AfterAllow(b, q) = [Cooled(b, q) EXCEPT !.probeInFlight = TRUE]
    BY <1>2, <2>2 DEF AfterAllow, BreakerRecord
  <2> QED BY <1>2, <2>2, <2>3 DEF Admits, TakesProbe, BreakerRecord, State
<1>3. CASE ~q.Disabled /\ ~(b.state = "open" /\ b.sinceTrip >= q.CooldownDuration)
  <2>1. Cooled(b, q) = b
    BY <1>3 DEF Cooled
  <2>2. b.state = "closed" /\ ~b.probeInFlight
    BY <1>3, <2>1 DEF Admits
  <2>3. AfterAllow(b, q) =
          [b EXCEPT !.probeInFlight = b.probeInFlight \/ b.state = "half_open"]
    BY <1>3, <2>1 DEF AfterAllow, BreakerRecord
  <2>4. AfterAllow(b, q) = b
    BY <2>2, <2>3 DEF BreakerRecord
  <2> QED BY <2>1, <2>2, <2>4 DEF TakesProbe
<1> QED BY <1>1, <1>2, <1>3

LEMMA SuccessEffect ==
  ASSUME NEW p \in Providers, NEW b \in BreakerRecord(p),
         b.state = "half_open" <=> b.probeInFlight,
         PolicyOf[p].Disabled => b.state = "closed"
  PROVE  LET n == AfterSuccess(b, PolicyOf[p]) IN
         /\ n \in BreakerRecord(p)
         /\ n.state = "closed" /\ ~n.probeInFlight
<1>1. CASE PolicyOf[p].Disabled
  BY <1>1 DEF AfterSuccess
<1>2. CASE ~PolicyOf[p].Disabled
  <2>1. AfterSuccess(b, PolicyOf[p]) =
          [state |-> "closed", failures |-> 0, probeInFlight |-> FALSE,
           sinceTrip |-> b.sinceTrip]
    BY <1>2 DEF AfterSuccess
  <2> QED BY <2>1, PolicyAssumption DEF BreakerRecord, State
<1> QED BY <1>1, <1>2

\* Every failure frees the slot, and opens a breaker that is half-open.
LEMMA FailureEffect ==
  ASSUME NEW p \in Providers, NEW b \in BreakerRecord(p),
         NEW category \in Categories,
         b.state = "half_open" <=> b.probeInFlight,
         PolicyOf[p].Disabled => b.state = "closed"
  PROVE  LET n == AfterFailure(b, PolicyOf[p], category) IN
         /\ n \in BreakerRecord(p)
         /\ ~n.probeInFlight /\ n.state # "half_open"
         /\ PolicyOf[p].Disabled => n.state = "closed"
         /\ IF Trips(b, PolicyOf[p], category) THEN n.state = "open"
            ELSE n.state = b.state
<1> DEFINE q == PolicyOf[p]
           n == AfterFailure(b, q, category)
<1>0. CountFailure(b.failures) \in 0..FailureCap
  BY PolicyAssumption DEF CountFailure, BreakerRecord
<1>1. CASE Ignores(q, category)
  <2>1. n = b /\ ~Trips(b, q, category)
    BY <1>1 DEF AfterFailure, Trips
  <2>2. q.Disabled
    BY <1>1, PolicyAssumption DEF Ignores
  <2> QED BY <2>1, <2>2
<1>2. CASE Trips(b, q, category)
  <2>1. n = [state |-> "open", failures |-> CountFailure(b.failures),
             probeInFlight |-> FALSE, sinceTrip |-> 0]
    BY <1>2 DEF AfterFailure, Trips
  <2>2. ~q.Disabled
    BY <1>2 DEF Trips, Ignores
  <2> QED BY <1>0, <1>2, <2>1, <2>2, PolicyAssumption DEF BreakerRecord, State
<1>3. CASE ~Ignores(q, category) /\ ~Trips(b, q, category)
  <2>1. n = [state |-> b.state,
             failures |-> IF b.state = "open" THEN b.failures
                          ELSE CountFailure(b.failures),
             probeInFlight |-> FALSE, sinceTrip |-> b.sinceTrip]
    BY <1>3 DEF AfterFailure
  <2>2. b.state # "half_open"
    BY <1>3 DEF Trips
  <2>3. ~q.Disabled
    BY <1>3 DEF Ignores
  <2>4. n \in BreakerRecord(p) /\ n.state = b.state /\ ~n.probeInFlight
    BY <1>0, <2>1 DEF BreakerRecord, State
  <2> QED BY <1>3, <2>2, <2>3, <2>4
<1> QED BY <1>1, <1>2, <1>3

LEMMA ElapseEffect ==
  ASSUME NEW p \in Providers, NEW b \in BreakerRecord(p)
  PROVE  LET n == Elapse(b, PolicyOf[p]) IN
         /\ n \in BreakerRecord(p)
         /\ n.state = b.state /\ n.probeInFlight = b.probeInFlight
BY PolicyAssumption DEF Elapse, BreakerRecord

-----------------------------------------------------------------------------
(* Steps, as seen by a request and by a provider *)

LEMMA InitIInv == Init => IInv
<1> SUFFICES ASSUME Init PROVE IInv
  OBVIOUS
<1> USE DEF Init
<1>1. TypeOK
  BY NewIsBreaker DEF TypeOK, BreakerRecord, Outcome
<1>2. ASSUME NEW r \in Requests PROVE RequestInv(r)
  BY DEF RequestInv, Located, Counted, Answered, Admitted
<1>3. ASSUME NEW p \in Providers PROVE BreakerInv(p)
  BY DEF BreakerInv, New
<1> QED BY <1>1, <1>2, <1>3 DEF IInv

\* What a request's invariant is made of.
SameFor(q) ==
  /\ pc'[q] = pc[q] /\ primary'[q] = primary[q] /\ target'[q] = target[q]
  /\ attempt'[q] = attempt[q] /\ outcome'[q] = outcome[q]
  /\ ticket'[q] = ticket[q] /\ calls'[q] = calls[q]
  /\ q \in paid' <=> q \in paid

\* Failures are remembered, and so is that a client left.
Remembers == failed \subseteq failed' /\ (everGone => everGone')

LEMMA OthersKeep ==
  ASSUME NEW q \in Requests, RequestInv(q), SameFor(q), Remembers
  PROVE  RequestInv(q)'
<1>1. Located(q)'
  BY DEF RequestInv, SameFor, Located
<1>2. Counted(q)'
  BY DEF RequestInv, SameFor, Counted, Spent
<1>3. Answered(q)'
  BY DEF RequestInv, SameFor, Remembers, Answered
<1> QED BY <1>1, <1>2, <1>3 DEF RequestInv

\* A provider keeps its invariant while its breaker and its fresh requests are
\* left alone.
LEMMA BreakerKeeps ==
  ASSUME NEW p \in Providers, BreakerInv(p), Remembers,
         breakers'[p].state = breakers[p].state,
         breakers'[p].probeInFlight = breakers[p].probeInFlight,
         Fresh(p)' = Fresh(p),
         \A q \in Fresh(p) : ticket'[q] = ticket[q]
  PROVE  BreakerInv(p)'
BY DEF BreakerInv, Remembers

\* A step that records nothing moves no request that holds a ticket to another
\* provider.
LEMMA NothingRecorded ==
  ASSUME IInv, Remembers, UNCHANGED <<breakers, ticket, stale>>,
         \A q \in Requests : ticket[q] # "none" => target'[q] = target[q]
  PROVE  \A p \in Providers : BreakerInv(p)'
<1> SUFFICES ASSUME NEW p \in Providers PROVE BreakerInv(p)'
  OBVIOUS
<1>1. Fresh(p)' = Fresh(p)
  BY DEF Fresh
<1> QED BY <1>1, BreakerKeeps DEF IInv

\* How callThroughBreaker's answer moves a request on.
LEMMA ConcludeEffect ==
  ASSUME TypeOK, NEW r \in Requests, NEW o \in Outcome, Conclude(r, o)
  PROVE  /\ pc' \in [Requests -> Places]
         /\ target' \in [Requests -> Providers \cup {NoProvider}]
         /\ outcome' \in [Requests -> Outcome]
         /\ \A q \in Requests \ {r} : /\ pc'[q] = pc[q]
                                      /\ target'[q] = target[q]
                                      /\ outcome'[q] = outcome[q]
         /\ \/ pc'[r] = "done" /\ target'[r] = target[r] /\ outcome'[r] = o
            \/ /\ o \notin Response
               /\ Fallback \in Providers /\ target'[r] = Fallback
               /\ target[r] = primary[r] /\ primary[r] # Fallback
               /\ \/ pc'[r] = "gate" /\ outcome'[r] = "none"
                  \/ pc'[r] = "done" /\ outcome'[r] = "rewrite_failed"
<1> USE DEF TypeOK, Places
<1>1. CASE o \notin Response /\ Fallback # NoProvider /\ target[r] = primary[r]
           /\ primary[r] # Fallback /\ FallsBack(o)
  <2>1. target' = [target EXCEPT ![r] = Fallback] /\ Fallback \in Providers
    BY <1>1, FallbackAssumption DEF Conclude
  <2>2. CASE /\ pc' = [pc EXCEPT ![r] = "gate"]
             /\ outcome' = [outcome EXCEPT ![r] = "none"]
    BY <1>1, <2>1, <2>2 DEF Outcome
  <2>3. CASE /\ pc' = [pc EXCEPT ![r] = "done"]
             /\ outcome' = [outcome EXCEPT ![r] = "rewrite_failed"]
    BY <1>1, <2>1, <2>3 DEF Outcome, LocalError
  <2> QED BY <1>1, <2>2, <2>3 DEF Conclude
<1>2. CASE ~(o \notin Response /\ Fallback # NoProvider /\ target[r] = primary[r]
             /\ primary[r] # Fallback /\ FallsBack(o))
  <2>1. /\ pc' = [pc EXCEPT ![r] = "done"]
        /\ outcome' = [outcome EXCEPT ![r] = o]
        /\ UNCHANGED target
    BY <1>2 DEF Conclude
  <2> QED BY <2>1
<1> QED BY <1>1, <1>2

LEMMA ConcludeKeeps ==
  ASSUME IInv, NEW r \in Requests, pc[r] \in {"gate", "record"},
         NEW o \in Outcome \ {"none"}, Conclude(r, o),
         UNCHANGED <<primary, attempt, calls, paid, failed, everGone>>,
         ticket'[r] = "none",
         r \in paid => o = "ok"
  PROVE  RequestInv(r)'
<1>0. TypeOK /\ Located(r) /\ Counted(r) /\ Answered(r)
  BY DEF IInv, RequestInv
<1>1. \/ pc'[r] = "done" /\ target'[r] = target[r] /\ outcome'[r] = o
      \/ /\ o \notin Response
         /\ Fallback \in Providers /\ target'[r] = Fallback
         /\ target[r] = primary[r] /\ primary[r] # Fallback
         /\ \/ pc'[r] = "gate" /\ outcome'[r] = "none"
            \/ pc'[r] = "done" /\ outcome'[r] = "rewrite_failed"
  BY <1>0, ConcludeEffect
<1>2. Located(r)'
  BY <1>0, <1>1 DEF Located, Admitted
<1>3. Answered(r)'
  BY <1>0, <1>1 DEF Answered, Response
<1>4. Counted(r)'
  <2>1. CASE target'[r] = target[r]
    BY <1>0, <1>1, <2>1 DEF Counted, Spent
  <2>2. CASE target'[r] # target[r]
    <3>1. /\ Fallback \in Providers /\ target'[r] = Fallback
          /\ target[r] = primary[r] /\ primary[r] # Fallback
          /\ pc'[r] \in {"gate", "done"}
      BY <1>1, <2>2
    <3>2. /\ calls[r][Fallback] <= 0 /\ calls[r][Fallback] \in Nat
          /\ primary[r] \in Providers
      BY <1>0, <3>1 DEF Counted, Located, TypeOK
    <3>3. /\ calls[r][primary[r]] <= Attempts(primary[r])
          /\ \A p \in Providers : p # primary[r] => calls[r][p] <= 0
      BY <1>0, <3>1 DEF Counted, Spent
    <3>4. Spent(r)' = 0
      BY <3>1, <3>2 DEF Spent
    <3> QED BY <3>1, <3>2, <3>3, <3>4, AttemptsPositive DEF Counted
  <2> QED BY <2>1, <2>2
<1> QED BY <1>2, <1>3, <1>4 DEF RequestInv

\* The moves of one request that record nothing.
Moves(r) ==
  \/ \E p \in Providers : Submit(r, p)
  \/ Reject(r) \/ GiveUp(r) \/ NotFound(r) \/ Call(r)
  \/ \E o \in Response \cup UpstreamError : Reply(r, o)
  \/ BackoffOver(r) \/ BackoffCancelled(r) \/ Return(r)

LEMMA MoveTyped ==
  ASSUME TypeOK, NEW r \in Requests, Located(r), Moves(r)
  PROVE  TypeOK'
<1> USE DEF TypeOK
<1>1. ASSUME NEW p \in Providers, Submit(r, p) PROVE TypeOK'
  BY <1>1 DEF Submit, clients, history
<1>2. CASE Reject(r)
  <2>1. /\ pc' \in [Requests -> Places]
        /\ target' \in [Requests -> Providers \cup {NoProvider}]
        /\ outcome' \in [Requests -> Outcome]
    BY <1>2, ConcludeEffect DEF Reject, Outcome, LocalError
  <2> QED BY <1>2, <2>1 DEF Reject, clients, history, Places
<1>3. CASE GiveUp(r)
  BY <1>3 DEF GiveUp, Settle, clients, history, Outcome, LocalError
<1>4. CASE NotFound(r)
  BY <1>4 DEF NotFound, Settle, clients, history, Outcome, LocalError
<1>5. CASE Call(r)
  <2>1. target[r] \in Providers
    BY <1>5, RegisteredAssumption DEF Call
  <2>2. calls' \in [Requests -> [Providers -> Nat]]
    BY <1>5, <2>1 DEF Call
  <2> QED BY <1>5, <2>2 DEF Call, clients
<1>6. ASSUME NEW o \in Response \cup UpstreamError, Reply(r, o) PROVE TypeOK'
  <2>1. pc' \in [Requests -> Places] /\ outcome' \in [Requests -> Outcome]
    BY <1>6 DEF Reply, Settle, Places, Outcome
  <2>2. paid' \subseteq Requests
    BY <1>6 DEF Reply
  <2>3. target[r] \in Providers
    BY <1>6 DEF Reply, Located
  <2>4. failed' \subseteq Providers
    BY <1>6, <2>3 DEF Reply
  <2> QED BY <1>6, <2>1, <2>2, <2>4 DEF Reply, clients, Places
<1>7. CASE BackoffOver(r)
  BY <1>7 DEF BackoffOver, clients, history
<1>8. CASE BackoffCancelled(r)
  BY <1>8 DEF BackoffCancelled, Settle, clients, history, Outcome, LocalError
<1>9. CASE Return(r)
  BY <1>9 DEF Return, Outcome
<1> QED BY <1>1, <1>2, <1>3, <1>4, <1>5, <1>6, <1>7, <1>8, <1>9 DEF Moves

\* A move keeps the invariant of the request that makes it, ...
LEMMA MoveKeepsRequest ==
  ASSUME IInv, NEW r \in Requests, Moves(r)
  PROVE  RequestInv(r)'
<1>0. TypeOK /\ RequestInv(r) /\ Located(r) /\ Counted(r) /\ Answered(r)
  BY DEF IInv, RequestInv
<1> USE DEF RequestInv
<1>1. ASSUME NEW p \in Providers, Submit(r, p) PROVE RequestInv(r)'
  <2>1. /\ pc'[r] = "gate" /\ primary'[r] = p /\ target'[r] = p /\ pc[r] = "idle"
        /\ UNCHANGED <<attempt, outcome, ticket, calls, paid, failed, everGone>>
    BY <1>0, <1>1 DEF Submit, TypeOK, clients, history
  <2>2. Located(r)'
    BY <1>0, <2>1 DEF Located, Admitted
  <2>3. Counted(r)'
    BY <1>0, <2>1, AttemptsPositive DEF Counted, Spent
  <2>4. Answered(r)'
    BY <1>0, <2>1 DEF Answered
  <2> QED BY <2>2, <2>3, <2>4
<1>2. CASE Reject(r)
  <2>1. /\ Conclude(r, "circuit_open") /\ pc[r] = "gate"
        /\ UNCHANGED <<primary, attempt, calls, paid, failed, everGone, ticket>>
    BY <1>2 DEF Reject, history, clients
  <2>2. ticket[r] = "none" /\ r \notin paid
    BY <1>0, <2>1 DEF Located, Answered, Admitted
  <2>3. "circuit_open" \in Outcome \ {"none"}
    BY DEF Outcome, LocalError
  <2> QED BY <2>1, <2>2, <2>3, ConcludeKeeps
<1>3. CASE GiveUp(r) \/ NotFound(r) \/ BackoffCancelled(r)
  <2>1. /\ pc[r] \in {"loop", "backoff"} /\ pc'[r] = "record"
        /\ outcome'[r] \in {"cancelled", "not_found"}
        /\ outcome'[r] = "cancelled" => gone # {}
        /\ outcome'[r] = "not_found" => target[r] \notin Registered
        /\ UNCHANGED <<primary, target, attempt, ticket, calls, paid, failed,
                       gone, everGone>>
    BY <1>0, <1>3
    DEF GiveUp, NotFound, BackoffCancelled, Settle, TypeOK, clients, history
  <2>2. Located(r)'
    BY <1>0, <2>1 DEF Located, Admitted, Recordable
  <2>3. Counted(r)'
    BY <1>0, <2>1 DEF Counted, Spent
  <2>4. Answered(r)'
    BY <1>0, <2>1 DEF IInv, Answered
  <2> QED BY <2>2, <2>3, <2>4
<1>4. CASE Call(r)
  <2>1. /\ pc[r] = "loop" /\ pc'[r] = "upstream" /\ target[r] \in Providers
        /\ calls' = [calls EXCEPT ![r][target[r]] = @ + 1]
        /\ UNCHANGED <<primary, target, attempt, outcome, ticket, paid, failed,
                       everGone>>
    BY <1>0, <1>4, RegisteredAssumption DEF Call, TypeOK, clients
  <2>2. /\ calls'[r][target[r]] = calls[r][target[r]] + 1
        /\ \A p \in Providers : p # target[r] => calls'[r][p] = calls[r][p]
    BY <1>0, <2>1 DEF TypeOK
  <2>3. /\ Attempts(target[r]) \in Nat /\ attempt[r] \in Nat
        /\ calls[r][target[r]] \in Nat
    BY <1>0, <2>1, AttemptsPositive DEF TypeOK
  <2>4. Located(r)'
    BY <1>0, <2>1 DEF Located, Admitted
  <2>5. Counted(r)'
    BY <1>0, <2>1, <2>2, <2>3 DEF Counted, Spent
  <2>6. Answered(r)'
    BY <1>0, <2>1 DEF Answered
  <2> QED BY <2>4, <2>5, <2>6
<1>5. ASSUME NEW o \in Response \cup UpstreamError, Reply(r, o)
      PROVE  RequestInv(r)'
  <2>1. /\ pc[r] = "upstream"
        /\ failed' = IF o = "ok" THEN failed ELSE failed \cup {target[r]}
        /\ paid' = IF o = "ok" THEN paid \cup {r} ELSE paid
        /\ UNCHANGED <<primary, target, attempt, ticket, calls, everGone>>
    BY <1>5 DEF Reply, clients
  <2>2. /\ attempt[r] \in Nat /\ Attempts(target[r]) \in Nat /\ r \notin paid
        /\ target[r] \in Providers
    BY <1>0, <2>1, AttemptsPositive DEF TypeOK, Located, Answered
  <2>3. CASE Retries(o, target[r]) /\ attempt[r] < Attempts(target[r]) - 1
    <3>1. pc'[r] = "backoff" /\ outcome'[r] = outcome[r] /\ o # "ok"
      BY <1>0, <1>5, <2>3 DEF Reply, Retries, TypeOK
    <3>2. Located(r)'
      BY <1>0, <2>1, <3>1 DEF Located, Admitted
    <3>3. Counted(r)'
      BY <1>0, <2>1, <2>2, <2>3, <3>1 DEF Counted, Spent
    <3>4. Answered(r)'
      BY <2>1, <2>2, <3>1 DEF Answered
    <3> QED BY <3>2, <3>3, <3>4
  <2>4. CASE ~(Retries(o, target[r]) /\ attempt[r] < Attempts(target[r]) - 1)
    <3>1. pc'[r] = "record" /\ outcome'[r] = o
      BY <1>0, <1>5, <2>4 DEF Reply, Settle, TypeOK
    <3>2. Located(r)'
      BY <1>0, <2>1, <3>1 DEF Located, Admitted, Recordable, Response,
                              UpstreamError
    <3>3. Counted(r)'
      BY <1>0, <2>1, <2>2, <3>1 DEF Counted, Spent
    <3>4. Answered(r)'
      BY <2>1, <2>2, <3>1 DEF Answered, Response
    <3> QED BY <3>2, <3>3, <3>4
  <2> QED BY <2>3, <2>4
<1>6. CASE BackoffOver(r)
  <2>1. /\ pc[r] = "backoff" /\ pc'[r] = "loop" /\ attempt'[r] = attempt[r] + 1
        /\ attempt[r] \in Nat
        /\ UNCHANGED <<primary, target, outcome, ticket, calls, paid, failed,
                       everGone>>
    BY <1>0, <1>6 DEF BackoffOver, TypeOK, clients, history
  <2>2. Located(r)'
    BY <1>0, <2>1 DEF Located, Admitted
  <2>3. Counted(r)'
    BY <1>0, <2>1 DEF Counted, Spent
  <2>4. Answered(r)'
    BY <1>0, <2>1 DEF Answered
  <2> QED BY <2>2, <2>3, <2>4
<1>7. CASE Return(r)
  <2>1. /\ pc[r] = "done" /\ pc'[r] = "idle" /\ primary'[r] = NoProvider
        /\ target'[r] = NoProvider /\ outcome'[r] = "none"
        /\ calls'[r] = [p \in Providers |-> 0] /\ r \notin paid'
        /\ ticket' = ticket
    BY <1>0, <1>7 DEF Return, TypeOK
  <2>2. Located(r)'
    BY <1>0, <2>1 DEF Located, Admitted
  <2>3. Counted(r)'
    BY <2>1 DEF Counted
  <2>4. Answered(r)'
    BY <2>1 DEF Answered
  <2> QED BY <2>2, <2>3, <2>4
<1> QED BY <1>1, <1>2, <1>3, <1>4, <1>5, <1>6, <1>7 DEF Moves

\* ... of the others, and of the providers.
LEMMA MoveKeeps ==
  ASSUME IInv, NEW r \in Requests, Moves(r)
  PROVE  IInv'
<1>0. TypeOK /\ RequestInv(r) /\ Located(r)
  BY DEF IInv, RequestInv
<1>1. /\ UNCHANGED <<breakers, ticket, stale, everGone>> /\ Remembers
      /\ \A q \in Requests \ {r} : SameFor(q)
      /\ gone' \subseteq gone
  <2>1. ASSUME NEW p \in Providers, Submit(r, p) PROVE <1>1!:
    BY <1>0, <2>1 DEF Submit, Remembers, SameFor, TypeOK, clients, history
  <2>2. CASE Reject(r)
    <3>1. \A q \in Requests \ {r} : /\ pc'[q] = pc[q]
                                    /\ target'[q] = target[q]
                                    /\ outcome'[q] = outcome[q]
      BY <1>0, <2>2, ConcludeEffect DEF Reject, Outcome, LocalError
    <3> QED BY <2>2, <3>1 DEF Reject, Remembers, SameFor, clients, history
  <2>3. CASE GiveUp(r) \/ NotFound(r) \/ BackoffCancelled(r) \/ BackoffOver(r)
    BY <1>0, <2>3 DEF GiveUp, NotFound, BackoffCancelled, BackoffOver, Settle,
                      Remembers, SameFor, TypeOK, clients, history
  <2>4. CASE Call(r)
    BY <1>0, <2>4 DEF Call, Remembers, SameFor, TypeOK, clients
  <2>5. ASSUME NEW o \in Response \cup UpstreamError, Reply(r, o) PROVE <1>1!:
    BY <1>0, <2>5 DEF Reply, Settle, Remembers, SameFor, TypeOK, clients
  <2>6. CASE Return(r)
    BY <1>0, <2>6 DEF Return, Remembers, SameFor, TypeOK
  <2> QED BY <2>1, <2>2, <2>3, <2>4, <2>5, <2>6 DEF Moves
<1>2. TypeOK'
  BY <1>0, MoveTyped
<1>3. ASSUME NEW q \in Requests PROVE RequestInv(q)'
  <2>1. CASE q = r
    BY <2>1, MoveKeepsRequest
  <2>2. CASE q # r
    BY <1>1, <2>2, OthersKeep DEF IInv
  <2> QED BY <2>1, <2>2
<1>4. ASSUME ticket[r] # "none" PROVE target'[r] = target[r]
  <2>1. pc[r] \in Admitted
    BY <1>0, <1>4 DEF Located
  <2> QED BY <2>1 DEF Moves, Admitted, Submit, Reject, GiveUp, NotFound, Call,
                      Reply, BackoffOver, BackoffCancelled, Return
<1>5. \A p \in Providers : BreakerInv(p)'
  BY <1>1, <1>4, NothingRecorded DEF SameFor
<1> QED BY <1>1, <1>2, <1>3, <1>5 DEF IInv

\* Admission: by a closed breaker, or with the slot of one that has cooled down
\* and that no fresh request is left at.
LEMMA AdmitKeeps ==
  ASSUME IInv, NEW r \in Requests, Admit(r)
  PROVE  IInv'
<1> DEFINE p == target[r]
           b == breakers[p]
           n == AfterAllow(b, PolicyOf[p])
           taken == TakesProbe(b, PolicyOf[p])
<1>0. /\ TypeOK /\ RequestInv(r) /\ Located(r) /\ Counted(r) /\ Answered(r)
      /\ DOMAIN breakers = Providers
  BY DEF IInv, RequestInv
<1>1. /\ pc[r] = "gate" /\ p \in Providers /\ ticket[r] = "none"
      /\ breakers' = [breakers EXCEPT ![p] = n]
      /\ ticket' = [ticket EXCEPT ![r] = IF taken THEN "probe" ELSE "normal"]
      /\ pc' = [pc EXCEPT ![r] = "loop"]
      /\ attempt' = [attempt EXCEPT ![r] = 0]
      /\ UNCHANGED <<primary, target, outcome, gone, everGone, failed, stale,
                     calls, paid>>
  BY <1>0 DEF Admit, Located, Admitted, clients
<1>2. b \in BreakerRecord(p) /\ BreakerInv(p) /\ Admits(b, PolicyOf[p])
  BY <1>0, <1>1 DEF IInv, TypeOK, BreakerRecord, Admit
<1>3. /\ n \in BreakerRecord(p)
      /\ n.state = "half_open" <=> n.probeInFlight
      /\ IF taken
         THEN /\ b.state = "open" /\ n.state = "half_open"
              /\ ~PolicyOf[p].Disabled
         ELSE b.state = "closed" /\ n.state = "closed"
  <2>1. /\ b.state = "half_open" <=> b.probeInFlight
        /\ PolicyOf[p].Disabled => b.state = "closed"
    BY <1>2 DEF BreakerInv
  <2> QED BY <1>1, <1>2, <2>1, AllowEffect
<1>4. TypeOK'
  BY <1>0, <1>1, <1>3 DEF TypeOK, BreakerRecord
<1>5. ASSUME NEW q \in Requests PROVE RequestInv(q)'
  <2>1. CASE q # r
    <3>1. SameFor(q) /\ Remembers
      BY <1>0, <1>1, <2>1 DEF SameFor, Remembers, TypeOK
    <3> QED BY <3>1, OthersKeep DEF IInv
  <2>2. CASE q = r
    <3>1. pc'[r] = "loop" /\ ticket'[r] # "none" /\ attempt'[r] = 0
      BY <1>0, <1>1 DEF TypeOK
    <3>2. Located(r)'
      BY <1>0, <1>1, <3>1 DEF Located, Admitted
    <3>3. Counted(r)'
      BY <1>0, <1>1, <3>1, AttemptsPositive DEF Counted, Spent
    <3>4. Answered(r)'
      BY <1>0, <1>1, <3>1 DEF Answered
    <3> QED BY <2>2, <3>2, <3>3, <3>4 DEF RequestInv
  <2> QED BY <2>1, <2>2
<1>6. r \notin stale
  BY <1>0, <1>1 DEF TypeOK
<1>7. ASSUME NEW q \in Providers PROVE BreakerInv(q)'
  <2>1. CASE q # p
    <3>1. breakers'[q] = breakers[q]
      BY <1>0, <1>1, <2>1
    <3>2. Fresh(q)' = Fresh(q) /\ \A x \in Fresh(q) : ticket'[x] = ticket[x]
      BY <1>0, <1>1, <2>1 DEF Fresh, TypeOK
    <3> QED BY <1>1, <3>1, <3>2, BreakerKeeps DEF IInv, Remembers
  <2>2. CASE q = p
    <3>1. breakers'[p] = n
      BY <1>0, <1>1
    <3>2. CASE ~taken
      BY <1>2, <1>3, <2>2, <3>1, <3>2 DEF BreakerInv
    <3>3. CASE taken
      <4>1. Fresh(p) = {}
        BY <1>2, <1>3, <3>3 DEF BreakerInv
      <4>2. ticket'[r] = "probe" /\ \A x \in Requests \ {r} : ticket'[x] = ticket[x]
        BY <1>0, <1>1, <3>3 DEF TypeOK
      <4>3. Fresh(p)' = {r}
        BY <1>1, <1>6, <4>1, <4>2 DEF Fresh
      <4>4. ~everGone /\ p \in Registered => p \in failed
        BY <1>2, <1>3, <3>3 DEF BreakerInv
      <4> QED BY <1>1, <1>3, <2>2, <3>1, <3>3, <4>2, <4>3, <4>4 DEF BreakerInv
    <3> QED BY <3>2, <3>3
  <2> QED BY <2>1, <2>2
<1> QED BY <1>0, <1>1, <1>4, <1>5, <1>7 DEF IInv

\* An outcome goes to the breaker that admitted the call: a success closes it, and
\* a failure that trips it makes every request it has admitted stale.
LEMMA RecordKeeps ==
  ASSUME IInv, NEW r \in Requests, Record(r)
  PROVE  IInv'
<1> DEFINE p == target[r]
           b == breakers[p]
           o == outcome[r]
           ok == o \in Response
           n == IF ok THEN AfterSuccess(b, PolicyOf[p])
                ELSE AfterFailure(b, PolicyOf[p], Category(o))
           trips == ~ok /\ Trips(b, PolicyOf[p], Category(o))
           atP == {q \in Requests : target[q] = p /\ ticket[q] # "none"}
<1>0. /\ TypeOK /\ RequestInv(r) /\ Located(r) /\ Counted(r) /\ Answered(r)
      /\ DOMAIN breakers = Providers
  BY DEF IInv, RequestInv
<1>1. /\ pc[r] = "record" /\ p \in Providers /\ o \in Outcome \ {"none"}
      /\ breakers' = [breakers EXCEPT ![p] = n]
      /\ ticket' = [ticket EXCEPT ![r] = "none"]
      /\ stale' = IF trips THEN (stale \cup atP) \ {r} ELSE stale \ {r}
      /\ Conclude(r, o)
      /\ UNCHANGED <<primary, attempt, gone, everGone, failed, calls, paid>>
  BY <1>0 DEF Record, Located, clients, Recordable, Outcome, LocalError, TypeOK
<1>2. b \in BreakerRecord(p) /\ BreakerInv(p)
  BY <1>0, <1>1 DEF IInv, TypeOK, BreakerRecord
<1>3. /\ b.state = "half_open" <=> b.probeInFlight
      /\ PolicyOf[p].Disabled => b.state = "closed"
  BY <1>2 DEF BreakerInv
<1>4. /\ n \in BreakerRecord(p)
      /\ ~n.probeInFlight /\ n.state # "half_open"
      /\ PolicyOf[p].Disabled => n.state = "closed"
      /\ IF ok THEN n.state = "closed"
         ELSE IF trips THEN n.state = "open" ELSE n.state = b.state
  <2>1. CASE ok
    BY <1>1, <1>2, <1>3, <2>1, SuccessEffect
  <2>2. CASE ~ok
    <3>1. Category(o) \in Categories
      BY DEF Category, Categories
    <3> QED BY <1>1, <1>2, <1>3, <2>2, <3>1, FailureEffect
  <2> QED BY <2>1, <2>2
<1>5. /\ pc' \in [Requests -> Places]
      /\ target' \in [Requests -> Providers \cup {NoProvider}]
      /\ outcome' \in [Requests -> Outcome]
      /\ \A q \in Requests \ {r} : /\ pc'[q] = pc[q]
                                   /\ target'[q] = target[q]
                                   /\ outcome'[q] = outcome[q]
  BY <1>0, <1>1, ConcludeEffect
<1>6. /\ ticket'[r] = "none"
      /\ \A q \in Requests \ {r} : ticket'[q] = ticket[q]
  BY <1>0, <1>1 DEF TypeOK
<1>7. TypeOK'
  <2>1. stale' \subseteq {q \in Requests : ticket'[q] # "none"}
    BY <1>0, <1>1, <1>6 DEF TypeOK
  <2>2. ticket' \in [Requests -> {"none", "normal", "probe"}]
    BY <1>0, <1>1 DEF TypeOK
  <2>3. \A q \in Providers : breakers'[q] \in BreakerRecord(q)
    BY <1>0, <1>1, <1>4 DEF TypeOK, BreakerRecord
  <2> QED BY <1>0, <1>1, <1>5, <2>1, <2>2, <2>3
          DEF TypeOK, BreakerRecord, Places
<1>8. ASSUME NEW q \in Requests PROVE RequestInv(q)'
  <2>1. CASE q # r
    <3>1. SameFor(q) /\ Remembers
      BY <1>1, <1>5, <1>6, <2>1 DEF SameFor, Remembers
    <3> QED BY <3>1, OthersKeep DEF IInv
  <2>2. CASE q = r
    <3>1. r \in paid => o = "ok"
      BY <1>0 DEF Answered
    <3> QED BY <1>1, <1>6, <2>2, <3>1, ConcludeKeeps
  <2> QED BY <2>1, <2>2
<1>9. ASSUME NEW q \in Providers PROVE BreakerInv(q)'
  <2>1. CASE q # p
    <3>1. breakers'[q] = breakers[q]
      BY <1>0, <1>1, <2>1
    <3>2. Fresh(q)' = Fresh(q) /\ \A x \in Fresh(q) : ticket'[x] = ticket[x]
      BY <1>0, <1>1, <1>5, <1>6, <2>1 DEF Fresh, TypeOK
    <3> QED BY <1>1, <3>1, <3>2, BreakerKeeps DEF IInv, Remembers
  <2>2. CASE q = p
    <3>1. breakers'[q] = n /\ breakers[q] = b
      BY <1>0, <1>1, <2>2
    <3>2. Fresh(q)' \subseteq Fresh(q) /\ (trips => Fresh(q)' = {})
      BY <1>0, <1>1, <1>5, <1>6, <2>2 DEF Fresh, TypeOK
    <3>3. b.state = "open" => Fresh(q) = {}
      BY <1>2, <2>2 DEF BreakerInv
    <3>4. ~ok /\ ~everGone /\ q \in Registered => q \in failed
      BY <1>0, <1>1, <2>2 DEF Answered
    <3> HIDE DEF n, b, trips, ok
    <3>5. /\ n.state = "open" => Fresh(q)' = {}
          /\ PolicyOf[q].Disabled => n.state = "closed"
      BY <1>4, <2>2, <3>2, <3>3
    <3>6. n.state # "closed" => ~ok
      BY <1>4
    <3> QED BY <1>1, <1>4, <3>1, <3>4, <3>5, <3>6 DEF BreakerInv
  <2> QED BY <2>1, <2>2
<1> QED BY <1>0, <1>1, <1>7, <1>8, <1>9 DEF IInv

\* A client leaves, or time passes.
LEMMA BesideKeeps ==
  ASSUME IInv, (\E r \in Requests : Disconnect(r)) \/ Tick
  PROVE  IInv'
<1>0. TypeOK /\ DOMAIN breakers = Providers
  BY DEF IInv
<1>1. UNCHANGED <<pc, primary, target, attempt, outcome, failed, ticket, stale,
                  calls, paid>>
  BY DEF Disconnect, Tick, progress, history
<1>2. (everGone => everGone') /\ (gone' # {} => everGone')
      /\ gone' \subseteq Requests /\ everGone' \in BOOLEAN
  BY <1>0 DEF Disconnect, Tick, clients, IInv, TypeOK
<1>3. DOMAIN breakers' = Providers /\
      \A p \in Providers :
        /\ breakers'[p] \in BreakerRecord(p)
        /\ breakers'[p].state = breakers[p].state
        /\ breakers'[p].probeInFlight = breakers[p].probeInFlight
  <2>1. \A p \in Providers : breakers[p] \in BreakerRecord(p)
    BY <1>0 DEF TypeOK, BreakerRecord
  <2>2. CASE Tick
    <3>1. breakers' = [p \in Providers |-> Elapse(breakers[p], PolicyOf[p])]
      BY <2>2 DEF Tick
    <3> QED BY <2>1, <3>1, ElapseEffect
  <2>3. CASE \E r \in Requests : Disconnect(r)
    BY <1>0, <2>1, <2>3 DEF Disconnect
  <2> QED BY <2>2, <2>3
<1>4. TypeOK'
  BY <1>0, <1>1, <1>2, <1>3 DEF TypeOK, BreakerRecord
<1>5. Remembers
  BY <1>1, <1>2 DEF Remembers
<1>6. ASSUME NEW q \in Requests PROVE RequestInv(q)'
  BY <1>1, <1>5, OthersKeep DEF IInv, SameFor
<1>7. ASSUME NEW p \in Providers PROVE BreakerInv(p)'
  <2>1. Fresh(p)' = Fresh(p)
    BY <1>1 DEF Fresh
  <2> QED BY <1>1, <1>3, <1>5, <2>1, BreakerKeeps DEF IInv
<1> QED BY <1>2, <1>3, <1>4, <1>6, <1>7 DEF IInv

LEMMA NextIInv == IInv /\ [Next]_vars => IInv'
<1> SUFFICES ASSUME IInv, [Next]_vars PROVE IInv'
  OBVIOUS
<1>1. CASE UNCHANGED vars
  <2> USE <1>1 DEF vars, progress, history, clients
  <2>1. TypeOK'
    BY DEF IInv, TypeOK
  <2>2. Remembers
    BY DEF Remembers
  <2>3. ASSUME NEW q \in Requests PROVE RequestInv(q)'
    BY <2>2, OthersKeep DEF IInv, SameFor
  <2>4. \A p \in Providers : BreakerInv(p)'
    BY <2>2, NothingRecorded
  <2> QED BY <2>1, <2>3, <2>4 DEF IInv
<1>2. CASE Next
  BY <1>2, MoveKeeps, AdmitKeeps, RecordKeeps, BesideKeeps DEF Next, Step, Moves
<1> QED BY <1>1, <1>2

LEMMA Invariance == Spec => []IInv
BY InitIInv, NextIInv, PTL DEF Spec

-----------------------------------------------------------------------------
\* Every state has the types the program gives its values.
THEOREM TypeCorrect == Spec => []TypeOK
<1>1. IInv => TypeOK
  BY DEF IInv
<1> QED BY <1>1, Invariance, PTL

\* Wherever a call that took the probe slot ends, the slot comes back.
THEOREM SlotHasOwner == Spec => []ProbeSlotHasOwner
<1>1. IInv => ProbeSlotHasOwner
  BY DEF IInv, BreakerInv, ProbeSlotHasOwner
<1> QED BY <1>1, Invariance, PTL

\* An open breaker has let nobody through since it tripped, and a half-open one a
\* single probe, whichever requests are routed or fall back to its provider.
THEOREM BreakersShed == Spec => []TrippedSheds
<1>1. ASSUME IInv, NEW p \in Providers, breakers[p].state = "half_open"
      PROVE  Cardinality(Fresh(p)) <= 1
  <2>1. PICK r \in Requests : Fresh(p) = {r}
    BY <1>1 DEF IInv, BreakerInv
  <2>2. Cardinality({r}) = 1
    BY FS_Singleton
  <2> QED BY <2>1, <2>2
<1>2. IInv => TrippedSheds
  BY <1>1 DEF IInv, BreakerInv, TrippedSheds
<1> QED BY <1>2, Invariance, PTL

\* No interleaving of retries, backoffs and a failover costs more calls than the
\* two attempt limits.
THEOREM CallsBounded == Spec => []BoundedCalls
<1>1. ASSUME IInv, NEW r \in Requests, NEW p \in Providers
      PROVE  calls[r][p] <= IF p \in {primary[r], Fallback}
                            THEN Attempts(p) ELSE 0
  <2>1. TypeOK /\ Located(r) /\ Counted(r) /\ Attempts(p) \in Nat
    BY <1>1, AttemptsPositive DEF IInv, RequestInv
  <2>2. calls[r][p] \in Nat
    BY <2>1 DEF TypeOK
  <2>3. CASE pc[r] = "idle"
    BY <2>1, <2>2, <2>3 DEF Counted
  <2>4. CASE pc[r] # "idle"
    BY <2>1, <2>2, <2>4 DEF Counted, Spent, Located
  <2> QED BY <2>3, <2>4
<1>2. IInv => BoundedCalls
  BY <1>1 DEF BoundedCalls
<1> QED BY <1>2, Invariance, PTL

\* Nobody is called for a client who has left, or again for one who was served.
THEOREM CallsAreWanted == Spec => NoWastedCall
<1>1. ASSUME IInv, [Next]_vars, NEW r \in gone \cup paid
      PROVE  calls'[r] = calls[r] \/ pc'[r] = "idle"
  <2>0. /\ TypeOK /\ r \in Requests
        /\ r \in paid => pc[r] \in {"record", "done"}
    BY <1>1 DEF IInv, TypeOK, RequestInv, Answered
  <2>1. ASSUME NEW q \in Requests, Call(q) PROVE calls'[r] = calls[r]
    <3>1. q # r
      BY <1>1, <2>0, <2>1 DEF Call
    <3> QED BY <2>0, <2>1, <3>1 DEF Call, TypeOK
  <2>2. ASSUME NEW q \in Requests, Return(q)
        PROVE  calls'[r] = calls[r] \/ pc'[r] = "idle"
    BY <2>0, <2>2 DEF Return, TypeOK
  <2>3. CASE UNCHANGED calls
    BY <2>3
  <2> QED BY <1>1, <2>1, <2>2, <2>3
          DEF Next, Step, Submit, Admit, Reject, GiveUp, NotFound, Reply,
              BackoffOver, BackoffCancelled, Record, Disconnect, Tick, history,
              vars
<1>2. IInv /\ [Next]_vars => CallIsWanted
  BY <1>1 DEF CallIsWanted
<1> QED BY <1>2, Invariance, PTL DEF Spec, NoWastedCall

\* While every client waits, no breaker opens on a provider that never failed.
THEOREM OpenForAReason == Spec => []OpenHasFailedCall
<1>1. IInv => OpenHasFailedCall
  BY RegisteredAssumption DEF IInv, BreakerInv, OpenHasFailedCall
<1> QED BY <1>1, Invariance, PTL

-----------------------------------------------------------------------------
(* The refinement *)

Verdicts == [r \in Requests |-> Verdict(r)]

LEMMA VerdictOf ==
  ASSUME NEW r \in Requests
  PROVE  /\ Verdicts[r] = Verdict(r)
         /\ pc[r] # "done" => Verdict(r) = "none"
         /\ pc[r] = "done" =>
              Verdict(r) = IF outcome[r] \in Response THEN "served" ELSE "failed"
BY DEF Verdicts, Verdict

LEMMA InitRefines == Init => Contract!Init
<1> SUFFICES ASSUME Init PROVE Contract!Init
  OBVIOUS
<1>1. [r \in Requests |-> Verdict(r)] = [r \in Requests |-> "none"]
  BY DEF Init, Verdict
<1> QED BY <1>1 DEF Init, Contract!Init

\* Steps of a request that is neither being answered nor let go.
LEMMA VerdictsSame ==
  ASSUME \A r \in Requests : (pc[r] = "done" <=> pc'[r] = "done")
                             /\ (pc[r] = "done" => outcome'[r] = outcome[r])
  PROVE  Verdicts' = Verdicts
<1>1. ASSUME NEW r \in Requests PROVE Verdict(r)' = Verdict(r)
  BY <1>1 DEF Verdict
<1> QED BY <1>1 DEF Verdicts

\* An answer of callThroughBreaker serves or fails the request, or hands it to
\* the fallback.
LEMMA ConcludeRefines ==
  ASSUME TypeOK, NEW r \in Requests, Located(r), pc[r] \in {"gate", "record"},
         NEW o \in Outcome \ {"none"}, Conclude(r, o), UNCHANGED primary
  PROVE  Contract!FailOver(r) \/ Contract!Serve(r) \/ Contract!Fail(r)
<1>1. /\ \A q \in Requests \ {r} : /\ pc'[q] = pc[q] /\ target'[q] = target[q]
                                   /\ outcome'[q] = outcome[q]
      /\ target' \in [Requests -> Providers \cup {NoProvider}]
      /\ \/ pc'[r] = "done" /\ target'[r] = target[r] /\ outcome'[r] = o
         \/ /\ o \notin Response
            /\ Fallback \in Providers /\ target'[r] = Fallback
            /\ target[r] = primary[r] /\ primary[r] # Fallback
            /\ \/ pc'[r] = "gate" /\ outcome'[r] = "none"
               \/ pc'[r] = "done" /\ outcome'[r] = "rewrite_failed"
  BY ConcludeEffect
<1>2. /\ primary[r] # NoProvider /\ Verdicts[r] = "none"
      /\ target \in [Requests -> Providers \cup {NoProvider}]
  BY FallbackAssumption, VerdictOf DEF Located, TypeOK
<1>3. ASSUME NEW v, Verdict(r)' = v
      PROVE  Verdicts' = [Verdicts EXCEPT ![r] = v]
  <2>1. \A q \in Requests \ {r} : Verdict(q)' = Verdict(q)
    BY <1>1 DEF Verdict
  <2> QED BY <1>3, <2>1 DEF Verdicts
<1>4. CASE pc'[r] = "done" /\ target'[r] = target[r] /\ outcome'[r] = o
  <2>1. target' = target
    BY <1>1, <1>2, <1>4
  <2>2. CASE o \in Response
    <3>1. Verdict(r)' = "served"
      BY <1>4, <2>2 DEF Verdict
    <3>2. Verdicts' = [Verdicts EXCEPT ![r] = "served"]
      BY <1>3, <3>1
    <3> QED BY <1>2, <2>1, <3>2 DEF Contract!Serve, Contract!Waiting, Verdicts
  <2>3. CASE o \notin Response
    <3>1. Verdict(r)' = "failed"
      BY <1>4, <2>3 DEF Verdict
    <3>2. Verdicts' = [Verdicts EXCEPT ![r] = "failed"]
      BY <1>3, <3>1
    <3> QED BY <1>2, <2>1, <3>2 DEF Contract!Fail, Contract!Waiting, Verdicts
  <2> QED BY <2>2, <2>3
<1>5. CASE /\ Fallback \in Providers /\ target'[r] = Fallback
           /\ target[r] = primary[r] /\ primary[r] # Fallback
           /\ \/ pc'[r] = "gate"
              \/ pc'[r] = "done" /\ outcome'[r] = "rewrite_failed"
  <2>1. target' = [target EXCEPT ![r] = Fallback]
    BY <1>1, <1>2, <1>5
  <2>2. Contract!MayFailOver(r)
    BY <1>5, FallbackAssumption DEF Contract!MayFailOver
  <2>3. CASE pc'[r] = "gate"
    <3>1. Verdicts' = Verdicts
      BY <1>1, <2>3, VerdictsSame
    <3> QED BY <1>2, <2>1, <2>2, <3>1
            DEF Contract!FailOver, Contract!Waiting, Verdicts
  <2>4. CASE pc'[r] = "done" /\ outcome'[r] = "rewrite_failed"
    <3>1. Verdict(r)' = "failed"
      BY <2>4 DEF Verdict, Response
    <3>2. Verdicts' = [Verdicts EXCEPT ![r] = "failed"]
      BY <1>3, <3>1
    <3> QED BY <1>2, <2>1, <2>2, <3>2
            DEF Contract!Fail, Contract!Waiting, Verdicts
  <2> QED BY <1>5, <2>3, <2>4
<1> QED BY <1>1, <1>4, <1>5

LEMMA StepRefines ==
  ASSUME IInv, [Next]_vars
  PROVE  [Contract!Next]_(Contract!vars)
<1>0. TypeOK /\ \A r \in Requests : Located(r)
  BY DEF IInv, RequestInv
<1>1. ASSUME UNCHANGED <<primary, target>>, Verdicts' = Verdicts
      PROVE  UNCHANGED Contract!vars
  BY <1>1 DEF Contract!vars, Verdicts
<1>2. ASSUME NEW r \in Requests, NEW p \in Providers, Submit(r, p)
      PROVE  Contract!Next
  <2>1. primary[r] = NoProvider /\ Verdicts' = Verdicts
    BY <1>0, <1>2, VerdictsSame DEF Submit, Located, TypeOK
  <2>2. Contract!Accept(r, p)
    BY <1>2, <2>1 DEF Contract!Accept, Submit, Verdicts
  <2> QED BY <2>2 DEF Contract!Next
<1>3. ASSUME NEW r \in Requests, Reject(r) \/ Record(r) PROVE Contract!Next
  <2>1. PICK o \in Outcome \ {"none"} :
          Conclude(r, o) /\ pc[r] \in {"gate", "record"} /\ UNCHANGED primary
    BY <1>0, <1>3 DEF Reject, Record, Located, Recordable, Outcome, LocalError,
                      TypeOK
  <2> QED BY <1>0, <2>1, ConcludeRefines DEF Contract!Next
<1>4. ASSUME NEW r \in Requests, Return(r) PROVE Contract!Next
  <2>1. Verdicts[r] # "none" /\ Verdict(r)' = "none"
    BY <1>0, <1>4, VerdictOf DEF Return, Verdict, TypeOK
  <2>2. \A q \in Requests \ {r} : Verdict(q)' = Verdict(q)
    BY <1>0, <1>4 DEF Return, Verdict, TypeOK
  <2>3. Verdicts' = [Verdicts EXCEPT ![r] = "none"]
    BY <2>1, <2>2 DEF Verdicts
  <2>4. Contract!Release(r)
    BY <1>4, <2>1, <2>3 DEF Contract!Release, Return, Verdicts
  <2> QED BY <2>4 DEF Contract!Next
<1>5. ASSUME NEW r \in Requests,
             \/ Admit(r) \/ GiveUp(r) \/ NotFound(r) \/ Call(r)
             \/ BackoffOver(r) \/ BackoffCancelled(r)
             \/ \E o \in Response \cup UpstreamError : Reply(r, o)
             \/ Disconnect(r)
      PROVE  UNCHANGED Contract!vars
  <2>1. UNCHANGED <<primary, target>>
    BY <1>5 DEF Admit, GiveUp, NotFound, Call, BackoffOver, BackoffCancelled,
                Reply, Settle, Disconnect, progress
  <2>2. \A q \in Requests : (pc[q] = "done" <=> pc'[q] = "done")
                            /\ (pc[q] = "done" => outcome'[q] = outcome[q])
    BY <1>0, <1>5 DEF Admit, GiveUp, NotFound, Call, BackoffOver,
                BackoffCancelled, Reply, Settle, Disconnect, progress, TypeOK
  <2> QED BY <1>1, <2>1, <2>2, VerdictsSame
<1>6. ASSUME UNCHANGED vars PROVE UNCHANGED Contract!vars
  BY <1>1, <1>6, VerdictsSame DEF vars, progress
<1>7. ASSUME Tick PROVE UNCHANGED Contract!vars
  BY <1>1, <1>7, VerdictsSame DEF Tick, progress
<1> QED BY <1>2, <1>3, <1>4, <1>5, <1>6, <1>7 DEF Next, Step

\* Breakers, retries and cancellation hidden, the call path answers a request at
\* most once, by its provider or after one failover by the fallback, and says who
\* it was.
THEOREM Refinement == Spec => ImplementsFailover
<1>1. IInv /\ [Next]_vars => [Contract!Next]_(Contract!vars)
  BY StepRefines
<1> QED BY <1>1, InitRefines, Invariance, PTL
        DEF Spec, ImplementsFailover, Contract!Spec
=============================================================================
