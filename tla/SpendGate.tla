----------------------------- MODULE SpendGate -----------------------------
(***************************************************************************)
(* Budget enforcement and budget alerts: the part of gateway.Proxy,        *)
(* ProxyAudio/ProxySpeech and ProxyEmbeddings that reads and feeds the     *)
(* usage table (internal/budget/service.go, internal/gateway/alerts.go,    *)
(* metering.go), run by concurrent requests over a shared database.        *)
(*                                                                         *)
(* A request reads the spend of the month it arrived in, may send alerts,  *)
(* is refused or goes upstream, and saves what it cost under the month in  *)
(* which it was answered.  Each database query and each e-mail is a step   *)
(* of its own, with the steps of other requests, failures and restarts of  *)
(* the gateway in between.                                                 *)
(***************************************************************************)
EXTENDS Integers, FiniteSets, Sequences, Functions

CONSTANTS Requests,     \* goroutines of the gateway
          Kinds,        \* "chat", "media" (audio, speech), "embedding"
          TagSets,      \* which of team, project, agent a request may carry
          Limit,        \* scope -> monthly limit, 0 for none
          Costs,        \* what an answer may cost
          HasNotifier,  \* g.notifier # nil
          HasLog,       \* g.log # nil
          MaxMonth,     \* bound: the months the model lives through
          MaxCrashes,   \* bound: restarts of the gateway
          MaxFaults     \* bound: failed queries and e-mails

Scopes     == <<"global", "team", "project", "agent">>
Thresholds == {"80", "90", "100"}
Months     == 0..MaxMonth

ASSUME SlotAssumption  == IsFiniteSet(Requests)
ASSUME LimitAssumption == Limit \in [Range(Scopes) -> Nat]
ASSUME CostAssumption  == /\ Costs \subseteq Nat
                          /\ \E c \in Costs : \A d \in Costs : d <= c
ASSUME TagAssumption   == TagSets \subseteq SUBSET {"team", "project", "agent"}
ASSUME KindAssumption  == Kinds \subseteq {"chat", "media", "embedding"}
ASSUME FlagAssumption  == HasNotifier \in BOOLEAN /\ HasLog \in BOOLEAN
ASSUME BoundAssumption == {MaxMonth, MaxCrashes, MaxFaults} \subseteq Nat

VARIABLES
  month,      \* the current month
  spend,      \* usage_records: month -> scope -> sum of the saved costs
  sent,       \* budget_alerts: rows <<month, alert>>
  delivered,  \* history: month -> threshold -> e-mails that reached the inbox
  pc,         \* request -> where it is
  req,        \* request -> its kind, its tags, the month it arrived in
  due,        \* request -> the alerts it still has to handle
  unchecked,  \* request -> the scopes CheckRequestBudget has not yet read
  bill,       \* request -> the usage record it is about to save
  crashes,    \* history: restarts so far
  faults      \* history: failed queries and e-mails so far

database == <<spend, sent>>
local    == <<req, due, unchecked, bill>>
vars == <<month, database, delivered, pc, local, crashes, faults>>

NoRequest == [kind |-> "none", tags |-> {}, month |-> 0]
NoBill    == [month |-> 0, cost |-> 0]

Init ==
  /\ month = 0
  /\ spend = [m \in Months |-> [s \in Range(Scopes) |-> 0]]
  /\ sent = {}
  /\ delivered = [m \in Months |-> [t \in Thresholds |-> 0]]
  /\ pc = [r \in Requests |-> "idle"]
  /\ req = [r \in Requests |-> NoRequest]
  /\ due = [r \in Requests |-> <<>>]
  /\ unchecked = [r \in Requests |-> <<>>]
  /\ bill = [r \in Requests |-> NoBill]
  /\ crashes = 0
  /\ faults = 0

\* A query or an e-mail fails.
Fault == faults < MaxFaults /\ faults' = faults + 1

Goto(r, label) == pc' = [pc EXCEPT ![r] = label]

\* The handler returns, and its locals are gone.
Finish(r) ==
  /\ Goto(r, "idle")
  /\ req' = [req EXCEPT ![r] = NoRequest]
  /\ due' = [due EXCEPT ![r] = <<>>]
  /\ unchecked' = [unchecked EXCEPT ![r] = <<>>]
  /\ bill' = [bill EXCEPT ![r] = NoBill]

-----------------------------------------------------------------------------
(* Arrival: Proxy, ProxyAudio/ProxySpeech, ProxyEmbeddings *)

\* The scopes that CheckRequestBudget reads for a request, in its order.
ToCheck(tags) ==
  LET IfTagged(s) == IF s \in tags THEN <<s>> ELSE <<>>
  IN <<"global">> \o IfTagged("team") \o IfTagged("project") \o IfTagged("agent")

\* The handlers read the clock once.  Embeddings consult no budget, and neither
\* does audio that goes to a local server.
Arrive(r, kind, tags) ==
  /\ pc[r] = "idle"
  /\ Goto(r, CASE kind = "chat"  -> "monthly"
               [] kind = "media" -> "check"
               [] OTHER          -> "upstream")
  /\ req' = [req EXCEPT ![r] = [kind |-> kind, tags |-> tags, month |-> month]]
  /\ unchecked' = [unchecked EXCEPT ![r] = ToCheck(tags)]
  /\ UNCHANGED <<month, database, delivered, due, bill, crashes, faults>>

\* The least whole amount that is at least this share of the global limit.
Trigger(threshold) ==
  LET percent == CASE threshold = "80"  -> 80
                   [] threshold = "90"  -> 90
                   [] threshold = "100" -> 100
  IN (percent * Limit["global"] + 99) \div 100

\* CheckMonthlyBudget: has the month's spend reached this share of the limit?
Reached(threshold, m) ==
  Limit["global"] > 0 /\ spend[m]["global"] >= Trigger(threshold)

\* Proxy's switch on its result: the alerts for the thresholds crossed, except
\* the 100% one.
MonthlyAlerts(m) ==
  LET IfReached(t) == IF Reached(t, m) THEN <<t>> ELSE <<>>
  IN IfReached("80") \o IfReached("90")

Monthly(r) ==
  LET alerts == MonthlyAlerts(req[r].month) IN
  /\ pc[r] = "monthly"
  /\ due' = [due EXCEPT ![r] = alerts]
  /\ Goto(r, IF alerts = <<>> THEN "check" ELSE "alert")
  /\ UNCHANGED <<month, database, delivered, req, unchecked, bill, crashes,
                 faults>>

\* The query, made only when there is a limit, failed: no alert, and the request
\* goes on.
MonthlyFailed(r) ==
  /\ pc[r] = "monthly"
  /\ Limit["global"] > 0
  /\ Fault
  /\ Goto(r, "check")
  /\ UNCHANGED <<month, database, delivered, local, crashes>>

-----------------------------------------------------------------------------
(* emitMonthlyBudgetAlertOnce and emitAgentBudgetAlertOnce *)

\* Mutation: the alert is filed under the current month, not the request's.
RowOfToday(r) == <<month, Head(due[r])>>

Row(r) == <<req[r].month, Head(due[r])>>

\* The alert at hand is dealt with: on to the next one, or back in Proxy to the
\* request check, or, when that check raised the alert, to the refusal.
NextAlert(r) ==
  IF Len(due[r]) = 1 /\ unchecked[r] = <<>> THEN Finish(r)
  ELSE /\ due' = [due EXCEPT ![r] = Tail(@)]
       /\ Goto(r, IF Len(due[r]) > 1 THEN "alert" ELSE "check")
       /\ UNCHANGED <<req, unchecked, bill>>

\* WasSent: the alert has a row, ...
AlertKnown(r) ==
  /\ pc[r] = "alert"
  /\ Row(r) \in sent
  /\ NextAlert(r)
  /\ UNCHANGED <<month, database, delivered, crashes, faults>>

\* ... or has none: an e-mail is due.  The agent alert is only logged, and
\* without a notifier a monthly alert is left for later.
AlertNew(r) ==
  /\ pc[r] = "alert"
  /\ Row(r) \notin sent
  /\ IF Head(due[r]) = "agent" THEN Goto(r, "mark") /\ UNCHANGED local
     ELSE IF HasNotifier THEN Goto(r, "send") /\ UNCHANGED local
     ELSE NextAlert(r)
  /\ UNCHANGED <<month, database, delivered, crashes, faults>>

\* WasSent failed: the alert is skipped.
LookupFailed(r) ==
  /\ pc[r] = "alert"
  /\ Fault
  /\ NextAlert(r)
  /\ UNCHANGED <<month, database, delivered, crashes>>

Deliver(r) ==
  delivered' = [delivered EXCEPT ![req[r].month][Head(due[r])] = @ + 1]

\* notifier.Send returned no error.
Send(r) ==
  /\ pc[r] = "send"
  /\ Deliver(r)
  /\ Goto(r, "mark")
  /\ UNCHANGED <<month, database, local, crashes, faults>>

\* Mutation: the error is dropped.
SendFailedSilently(r) ==
  /\ pc[r] = "send"
  /\ Fault
  /\ Deliver(r) \/ UNCHANGED delivered
  /\ Goto(r, "mark") /\ UNCHANGED local
  /\ UNCHANGED <<month, database, crashes>>

\* notifier.Send returned an error, before or after the server took the mail.
\* sendBudgetAlertEmail returns that error only when there is a log.
SendFailed(r) ==
  /\ pc[r] = "send"
  /\ Fault
  /\ Deliver(r) \/ UNCHANGED delivered
  /\ IF HasLog THEN NextAlert(r) ELSE Goto(r, "mark") /\ UNCHANGED local
  /\ UNCHANGED <<month, database, crashes>>

\* Mutation: no row is inserted.
MarkNothing(r) ==
  /\ pc[r] = "mark"
  /\ NextAlert(r)
  /\ UNCHANGED <<month, database, delivered, crashes, faults>>

\* MarkSent; inserting a row twice leaves one.
Mark(r) ==
  /\ pc[r] = "mark"
  /\ sent' = sent \cup {Row(r)}
  /\ NextAlert(r)
  /\ UNCHANGED <<month, spend, delivered, crashes, faults>>

MarkFailed(r) ==
  /\ pc[r] = "mark"
  /\ Fault
  /\ NextAlert(r)
  /\ UNCHANGED <<month, database, delivered, crashes>>

-----------------------------------------------------------------------------
(* CheckRequestBudget *)

\* Mutation: a budget that is spent to the cent still has room.
ExceededAfter(s, m) == Limit[s] > 0 /\ spend[m][s] > Limit[s]

Exceeded(s, m) == Limit[s] > 0 /\ spend[m][s] >= Limit[s]

\* Mutation: one check too many.
ScopeOpenOnceMore(r) ==
  /\ pc[r] = "check"
  /\ ~Exceeded(Head(unchecked[r]), req[r].month)
  /\ unchecked' = [unchecked EXCEPT ![r] = Tail(@)]
  /\ Goto(r, IF unchecked[r] = <<>> THEN "upstream" ELSE "check")
  /\ UNCHANGED <<month, database, delivered, req, due, bill, crashes, faults>>

\* The next scope has money left; after the last one the request may proceed.
ScopeOpen(r) ==
  /\ pc[r] = "check"
  /\ ~Exceeded(Head(unchecked[r]), req[r].month)
  /\ unchecked' = [unchecked EXCEPT ![r] = Tail(@)]
  /\ Goto(r, IF Len(unchecked[r]) = 1 THEN "upstream" ELSE "check")
  /\ UNCHANGED <<month, database, delivered, req, due, bill, crashes, faults>>

\* Mutation: no alert.
RefuseSilently(r) ==
  /\ pc[r] = "check"
  /\ Exceeded(Head(unchecked[r]), req[r].month)
  /\ Finish(r)
  /\ UNCHANGED <<month, database, delivered, crashes, faults>>

\* The next scope is exhausted: the request is refused, in Proxy after an alert
\* for the global limit and for an agent's.
Refuse(r) ==
  LET s      == Head(unchecked[r])
      alerts == IF req[r].kind # "chat" THEN <<>>
                ELSE CASE s = "global" -> <<"100">>
                       [] s = "agent"  -> <<"agent">>
                       [] OTHER        -> <<>> IN
  /\ pc[r] = "check"
  /\ Exceeded(s, req[r].month)
  /\ IF alerts = <<>> THEN Finish(r)
     ELSE /\ unchecked' = [unchecked EXCEPT ![r] = <<>>]
          /\ due' = [due EXCEPT ![r] = alerts]
          /\ Goto(r, "alert")
          /\ UNCHANGED <<req, bill>>
  /\ UNCHANGED <<month, database, delivered, crashes, faults>>

\* The query, made only for a scope with a limit, failed: the request is refused.
CheckFailed(r) ==
  /\ pc[r] = "check"
  /\ Limit[Head(unchecked[r])] > 0
  /\ Fault
  /\ Finish(r)
  /\ UNCHANGED <<month, database, delivered, crashes>>

-----------------------------------------------------------------------------
(* The call and its metering *)

\* The provider answers and the answer is priced and stamped.  Only completions
\* have a price: media and embeddings are recorded with cost 0.
Answer(r, cost) ==
  /\ pc[r] = "upstream"
  /\ req[r].kind # "chat" => cost = 0
  /\ bill' = [bill EXCEPT ![r] = [month |-> month, cost |-> cost]]
  /\ Goto(r, "save")
  /\ UNCHANGED <<month, database, delivered, req, due, unchecked, crashes,
                 faults>>

\* It fails, rejects the request, or the answer comes from the cache: no cost.
Unbilled(r) ==
  /\ pc[r] = "upstream"
  /\ Finish(r)
  /\ UNCHANGED <<month, database, delivered, crashes, faults>>

Save(r) ==
  LET b == bill[r] IN
  /\ pc[r] = "save"
  /\ spend' = [spend EXCEPT ![b.month] =
       [s \in Range(Scopes) |->
          @[s] + IF s = "global" \/ s \in req[r].tags THEN b.cost ELSE 0]]
  /\ Finish(r)
  /\ UNCHANGED <<month, sent, delivered, crashes, faults>>

\* The record is lost; a cancelled request context does that too.
SaveFailed(r) ==
  /\ pc[r] = "save"
  /\ Fault
  /\ Finish(r)
  /\ UNCHANGED <<month, database, delivered, crashes>>

-----------------------------------------------------------------------------
\* The gateway restarts: the requests are gone, the database and the inbox stay.
Crash ==
  /\ crashes < MaxCrashes
  /\ crashes' = crashes + 1
  /\ pc' = [r \in Requests |-> "idle"]
  /\ req' = [r \in Requests |-> NoRequest]
  /\ due' = [r \in Requests |-> <<>>]
  /\ unchecked' = [r \in Requests |-> <<>>]
  /\ bill' = [r \in Requests |-> NoBill]
  /\ UNCHANGED <<month, database, delivered, faults>>

NextMonth ==
  /\ month < MaxMonth
  /\ month' = month + 1
  /\ UNCHANGED <<database, delivered, pc, local, crashes, faults>>

\* What a request does once it has arrived.
Step(r) ==
  \/ Monthly(r) \/ MonthlyFailed(r)
  \/ AlertKnown(r) \/ AlertNew(r) \/ LookupFailed(r)
  \/ Send(r) \/ SendFailed(r)
  \/ Mark(r) \/ MarkFailed(r)
  \/ ScopeOpen(r) \/ Refuse(r) \/ CheckFailed(r)
  \/ (\E cost \in Costs \cup {0} : Answer(r, cost)) \/ Unbilled(r)
  \/ Save(r) \/ SaveFailed(r)

Next ==
  \/ \E r \in Requests :
       \/ \E kind \in Kinds, tags \in TagSets : Arrive(r, kind, tags)
       \/ Step(r)
  \/ Crash
  \/ NextMonth

Spec == Init /\ [][Next]_vars

(***************************************************************************)
(* Fairness.  Chat requests keep arriving, and one that has arrived is     *)
(* carried on: its call has a timeout (so it is not a stream asked of a    *)
(* provider that stays silent), the database answers, and so does the mail *)
(* server, for which the sender sets no deadline.  Nothing forces the      *)
(* month to end, a fault or a restart.                                     *)
(***************************************************************************)
ChatArrives(r) == \E tags \in TagSets : Arrive(r, "chat", tags)

FairSpec ==
  Spec /\ \A r \in Requests : WF_vars(Step(r)) /\ WF_vars(ChatArrives(r))

-----------------------------------------------------------------------------
(* Properties *)

TypeOK ==
  /\ month \in Months
  /\ spend \in [Months -> [Range(Scopes) -> Nat]]
  /\ sent \subseteq Months \X (Thresholds \cup {"agent"})
  /\ delivered \in [Months -> [Thresholds -> Nat]]
  /\ pc \in [Requests -> {"idle", "monthly", "alert", "send", "mark", "check",
                          "upstream", "save"}]
  /\ req \in [Requests -> [kind : Kinds \cup {"none"}, month : Months,
                           tags : SUBSET Range(Scopes)]]
  /\ \A r \in Requests :
       /\ due[r] \in Seq(Thresholds \cup {"agent"})
       /\ unchecked[r] \in Seq(Range(Scopes))
       /\ pc[r] \in {"alert", "send", "mark"} => due[r] # <<>>
       /\ pc[r] = "check" => unchecked[r] # <<>>
  /\ bill \in [Requests -> [month : Months, cost : Nat]]
  /\ crashes \in 0..MaxCrashes /\ faults \in 0..MaxFaults

MostExpensive == CHOOSE c \in Costs : \A d \in Costs : d <= c

\* Checking the budget and adding to it are far apart, but the overshoot has a
\* limit: a month exceeds no scope's budget by more than the requests that were
\* in flight when it was reached, requests of the previous month included.
OvershootBounded ==
  \A m \in Months, s \in Range(Scopes) : Limit[s] > 0 =>
    spend[m][s] < Limit[s] + Cardinality(Requests) * MostExpensive

\* An alert is about something that happened: no e-mail and no row, not even
\* around the turn of the month, unless the spend of that month reached it.
AlertsAreTrue ==
  \A m \in Months :
    /\ \A t \in Thresholds :
         delivered[m][t] > 0 \/ <<m, t>> \in sent => Reached(t, m)
    /\ <<m, "agent">> \in sent => Exceeded("agent", m)

\* A row of budget_alerts suppresses an alert for the rest of the month, so
\* there is none before the e-mail has arrived.  (Without a log a failed e-mail
\* counts as delivered.)
MarkedWasDelivered ==
  HasLog => \A m \in Months, t \in Thresholds :
              <<m, t>> \in sent => delivered[m][t] > 0

\* "Once": the lookup, the e-mail and the row are separate steps, so an alert
\* may arrive several times, but no more than once per concurrent request and
\* gateway life, and once more per fault.
DuplicatesBounded ==
  \A m \in Months, t \in Thresholds :
    delivered[m][t] <= Cardinality(Requests) * (1 + crashes) + faults

\* Liveness: every threshold crossed is announced, also one that a concurrent
\* request crosses between a request's two budget checks, unless the month
\* ends first.
CrossingAnnounced ==
  \A m \in Months : \A t \in Thresholds :
    (month = m /\ Reached(t, m)) ~> (delivered[m][t] > 0 \/ month # m)
=============================================================================
