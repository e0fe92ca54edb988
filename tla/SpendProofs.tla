---------------------------- MODULE SpendProofs -----------------------------
(***************************************************************************)
(* What SpendGate says about alerts and budgets, proved for any requests,  *)
(* limits, costs and tags, any number of months, restarts and faults.      *)
(*                                                                         *)
(* IInv carries the truth of an alert from the query that raised it to the *)
(* row that files it: what a request still has to announce is true of the  *)
(* month it arrived in, and stays true because spend never falls.          *)
(* OvershootInv charges to each budget what the requests in flight may     *)
(* still cost, DuplicateInv to each alert the e-mails still to be filed.   *)
(***************************************************************************)
EXTENDS SpendGate, FiniteSetTheorems, SequenceTheorems, TLAPS

Alerts == Thresholds \cup {"agent"}
ScopeSet == Range(Scopes)

\* What an alert says.
True(alert, m) == IF alert = "agent" THEN Exceeded("agent", m)
                  ELSE Reached(alert, m)

Shared ==
  /\ month \in Months
  /\ spend \in [Months -> [ScopeSet -> Nat]]
  /\ sent \subseteq Months \X Alerts
  /\ delivered \in [Months -> [Thresholds -> Nat]]

Locals ==
  /\ DOMAIN pc = Requests /\ DOMAIN req = Requests /\ DOMAIN due = Requests
  /\ DOMAIN unchecked = Requests
  /\ \A r \in Requests : req[r].month \in Months
  /\ bill \in [Requests -> [month : Months, cost : Nat]]

Typed == Shared /\ Locals

\* What a request still has to announce is true, and it files an alert as sent
\* only after it has been delivered.
Announces(r) ==
  /\ due[r] \in Seq(Alerts)
  /\ pc[r] \in {"alert", "send", "mark"} <=> due[r] # <<>>
  /\ pc[r] = "send" => Head(due[r]) \in Thresholds
  /\ \A i \in DOMAIN due[r] : True(due[r][i], req[r].month)
  /\ HasLog /\ pc[r] = "mark" /\ Head(due[r]) \in Thresholds =>
       delivered[req[r].month][Head(due[r])] > 0

IInv == /\ Typed
        /\ AlertsAreTrue
        /\ MarkedWasDelivered
        /\ \A r \in Requests : Announces(r)

-----------------------------------------------------------------------------
LEMMA ScopeNames == {"global", "agent"} \subseteq ScopeSet
<1>1. "global" = Scopes[1] /\ "agent" = Scopes[4] /\ DOMAIN Scopes = 1..4
  BY DEF Scopes
<1> QED BY <1>1 DEF ScopeSet, Range

LEMMA MonthZero == 0 \in Months
BY BoundAssumption DEF Months

LEMMA LimitsAreNat == Limit["global"] \in Nat /\ Limit["agent"] \in Nat
BY LimitAssumption, ScopeNames DEF ScopeSet

\* The state of the counters only grows: true alerts stay true.
Grows ==
  /\ \A m \in Months, s \in ScopeSet : spend[m][s] <= spend'[m][s]
  /\ \A m \in Months, t \in Thresholds : delivered[m][t] <= delivered'[m][t]

LEMMA TriggerIsNat ==
  \A t \in Thresholds : Trigger(t) \in Int
BY LimitsAreNat DEF Trigger, Thresholds

LEMMA TruthStays ==
  ASSUME Typed, Typed', Grows, NEW m \in Months, NEW alert \in Alerts,
         True(alert, m)
  PROVE  True(alert, m)'
<1>1. \A s \in {"global", "agent"} :
        spend[m][s] \in Nat /\ spend'[m][s] \in Nat /\ spend[m][s] <= spend'[m][s]
  BY ScopeNames DEF Typed, Shared, Locals, Grows
<1>2. CASE alert = "agent"
  BY <1>1, <1>2, LimitsAreNat DEF True, Exceeded
<1>3. CASE alert \in Thresholds
  <2>1. Trigger(alert)' = Trigger(alert) /\ Trigger(alert) \in Int
    BY <1>3, TriggerIsNat DEF Trigger
  <2> QED BY <1>1, <1>3, <2>1 DEF True, Reached, Thresholds
<1> QED BY <1>2, <1>3 DEF Alerts

\* Alerts stay true and delivered when nothing is filed or delivered anew.
LEMMA NothingFiled ==
  ASSUME Typed, Typed', Grows, AlertsAreTrue, MarkedWasDelivered,
         delivered' = delivered, sent' = sent
  PROVE  AlertsAreTrue' /\ MarkedWasDelivered'
<1>1. ASSUME NEW m \in Months, NEW t \in Thresholds,
             delivered[m][t] > 0 \/ <<m, t>> \in sent
      PROVE  Reached(t, m)'
  <2>1. t \in Alerts /\ True(t, m)
    BY <1>1 DEF AlertsAreTrue, True, Alerts, Thresholds
  <2>2. True(t, m)'
    BY <2>1, TruthStays
  <2> QED BY <2>2 DEF True, Thresholds
<1>2. ASSUME NEW m \in Months, <<m, "agent">> \in sent
      PROVE  Exceeded("agent", m)'
  <2>1. "agent" \in Alerts /\ True("agent", m)
    BY <1>2 DEF AlertsAreTrue, True, Alerts
  <2>2. True("agent", m)'
    BY <2>1, TruthStays
  <2> QED BY <2>2 DEF True
<1>3. AlertsAreTrue'
  BY <1>1, <1>2 DEF AlertsAreTrue
<1> QED BY <1>3 DEF MarkedWasDelivered

\* A request that stands still still announces the truth.
LEMMA OthersKeep ==
  ASSUME Typed, Typed', Grows, NEW q \in Requests, Announces(q),
         pc'[q] = pc[q], req'[q] = req[q], due'[q] = due[q]
  PROVE  Announces(q)'
<1>1. \A a \in Alerts, m \in Months : True(a, m) => True(a, m)'
  BY TruthStays
<1>2. ASSUME NEW i \in DOMAIN due'[q] PROVE True(due[q][i], req[q].month)'
  <2>1. due'[q][i] = due[q][i] /\ i \in DOMAIN due[q]
    BY <1>2
  <2>2. due[q][i] \in Alerts /\ req[q].month \in Months
        /\ True(due[q][i], req[q].month)
    BY <2>1 DEF Announces, Typed, Shared, Locals
  <2>3. PICK a \in Alerts : a = due[q][i]
    BY <2>2
  <2>4. PICK m \in Months : m = req[q].month
    BY <2>2
  <2>5. True(a, m)'
    BY <2>2, <2>3, <2>4, <1>1
  <2>6. a = due'[q][i] /\ m = req'[q].month
    BY <2>1, <2>3, <2>4
  <2> QED BY <2>5, <2>6
<1>3. HasLog /\ pc'[q] = "mark" /\ Head(due'[q]) \in Thresholds =>
        delivered'[req'[q].month][Head(due'[q])] > 0
  <2> SUFFICES ASSUME HasLog, pc[q] = "mark", Head(due[q]) \in Thresholds
               PROVE  delivered'[req[q].month][Head(due[q])] > 0
    OBVIOUS
  <2>1. PICK m \in Months, t \in Thresholds :
          m = req[q].month /\ t = Head(due[q])
    BY DEF Typed, Shared, Locals
  <2>2. delivered[m][t] > 0 /\ delivered[m][t] <= delivered'[m][t]
        /\ delivered[m][t] \in Nat /\ delivered'[m][t] \in Nat
    BY <2>1 DEF Announces, Typed, Shared, Locals, Grows
  <2> QED BY <2>1, <2>2
<1> QED BY <1>2, <1>3 DEF Announces

\* Only request r moves.
Only(r) == \A q \in Requests \ {r} :
  pc'[q] = pc[q] /\ req'[q] = req[q] /\ due'[q] = due[q]

LEMMA Frozen ==
  ASSUME Typed, spend' = spend, delivered' = delivered
  PROVE  Grows
<1>1. \A m \in Months, s \in ScopeSet : spend[m][s] \in Nat
  BY DEF Typed, Shared
<1>2. \A m \in Months, t \in Thresholds : delivered[m][t] \in Nat
  BY DEF Typed, Shared
<1> QED BY <1>1, <1>2 DEF Grows

LEMMA AllAnnounce ==
  ASSUME Typed, Typed', Grows, NEW r \in Requests, Only(r), Announces(r)',
         \A q \in Requests : Announces(q)
  PROVE  \A q \in Requests : Announces(q)'
<1> SUFFICES ASSUME NEW q \in Requests, q # r PROVE Announces(q)'
  OBVIOUS
<1>1. pc'[q] = pc[q] /\ req'[q] = req[q] /\ due'[q] = due[q]
  BY DEF Only
<1> QED BY <1>1, OthersKeep

LEMMA HeadIsTrue ==
  ASSUME Typed, NEW r \in Requests, Announces(r), due[r] # <<>>
  PROVE  Head(due[r]) \in Alerts /\ True(Head(due[r]), req[r].month)
<1>1. due[r] \in Seq(Alerts) /\ 1 \in DOMAIN due[r] /\ Head(due[r]) = due[r][1]
  BY DEF Announces
<1>2. due[r][1] \in Alerts /\ True(due[r][1], req[r].month)
  BY <1>1 DEF Announces
<1> QED BY <1>1, <1>2

\* The handler's return leaves nothing to announce.
LEMMA FinishKeeps ==
  ASSUME Typed, NEW r \in Requests, Finish(r)
  PROVE  Announces(r)' /\ Only(r) /\ Locals'
<1>1. pc'[r] = "idle" /\ due'[r] = <<>> /\ Only(r)
  BY DEF Finish, Goto, Typed, Shared, Locals, Only
<1>2. due'[r] \in Seq(Alerts) /\ DOMAIN due'[r] = {}
  BY <1>1
<1>3. 0 \in Months /\ NoBill \in [month : Months, cost : Nat]
  BY MonthZero DEF NoBill
<1>4. Locals'
  BY <1>3 DEF Finish, Goto, Typed, Locals, NoRequest
<1> QED BY <1>1, <1>2, <1>4 DEF Announces

\* Going on to the next alert keeps the rest of them true.
LEMMA NextAlertKeeps ==
  ASSUME Typed, Shared', Grows, NEW r \in Requests, Announces(r), due[r] # <<>>,
         NextAlert(r)
  PROVE  Announces(r)' /\ Only(r) /\ Locals'
<1>1. CASE Finish(r)
  BY <1>1, FinishKeeps
<1>2. CASE ~Finish(r)
  <2>1. /\ due' = [due EXCEPT ![r] = Tail(@)]
        /\ pc' = [pc EXCEPT ![r] = IF Len(due[r]) > 1 THEN "alert" ELSE "check"]
        /\ req' = req
    BY <1>2 DEF NextAlert, Goto
  <2>0. Locals' /\ Typed'
    BY <1>2 DEF NextAlert, Goto, Typed, Locals
  <2>2. /\ due[r] \in Seq(Alerts)
        /\ due'[r] = Tail(due[r]) /\ req'[r] = req[r]
        /\ pc'[r] = IF Len(due[r]) > 1 THEN "alert" ELSE "check"
    BY <2>1 DEF Typed, Shared, Locals, Announces
  <2>3. /\ due'[r] \in Seq(Alerts)
        /\ pc'[r] \in {"alert", "check"}
        /\ pc'[r] = "alert" <=> due'[r] # <<>>
    <3>1. Tail(due[r]) \in Seq(Alerts)
      BY <2>2, HeadTailProperties
    <3>2. ASSUME Len(due[r]) > 1 PROVE Tail(due[r]) # <<>>
      <4>1. 1 \in DOMAIN Tail(due[r])
        BY <2>2, <3>2
      <4>2. \A t : t = <<>> => DOMAIN t = {}
        OBVIOUS
      <4> QED BY <4>1, <4>2, Zenon
    <3>3. ASSUME ~(Len(due[r]) > 1) PROVE Tail(due[r]) = <<>>
      <4>1. DOMAIN Tail(due[r]) = {}
        BY <2>2, <3>3
      <4>2. \A t \in Seq(Alerts) : DOMAIN t = {} => t = <<>>
        OBVIOUS
      <4> QED BY <3>1, <4>1, <4>2, Zenon
    <3> QED BY <2>2, <3>1, <3>2, <3>3
  <2>4. \A i \in DOMAIN due'[r] :
          i + 1 \in DOMAIN due[r] /\ due'[r][i] = due[r][i + 1]
    BY <2>2
  <2>5. \A a \in Alerts, m \in Months : True(a, m) => True(a, m)'
    BY <2>0, TruthStays
  <2>6. ASSUME NEW i \in DOMAIN due'[r] PROVE True(due[r][i], req[r].month)'
    <3>1. due[r][i + 1] \in Alerts /\ req[r].month \in Months
          /\ True(due[r][i + 1], req[r].month)
      BY <2>2, <2>4 DEF Announces, Typed, Shared, Locals
    <3>2. PICK a \in Alerts, m \in Months :
            a = due[r][i + 1] /\ m = req[r].month
      BY <3>1
    <3>3. a = due'[r][i] /\ m = req'[r].month
      BY <2>2, <2>4, <3>2
    <3>4. True(a, m)'
      BY <3>1, <3>2, <2>5
    <3> QED BY <3>3, <3>4
  <2>7. Announces(r)'
    BY <2>3, <2>6 DEF Announces
  <2> QED BY <2>0, <2>1, <2>7 DEF Only, Typed, Shared, Locals
<1> QED BY <1>1, <1>2

-----------------------------------------------------------------------------
(* The actions *)

\* Steps that touch neither the database nor the inbox.
Silent(r) == /\ UNCHANGED <<month, database, delivered>>
             /\ Locals' /\ Only(r) /\ Announces(r)'

LEMMA SilentInv ==
  ASSUME IInv, NEW r \in Requests, Silent(r)
  PROVE  IInv'
<1>1. Typed' /\ Grows /\ sent' = sent /\ delivered' = delivered
  BY Frozen DEF IInv, Silent, Typed, Shared, database
<1>2. \A q \in Requests : Announces(q)'
  BY <1>1, AllAnnounce DEF IInv, Silent
<1>3. AlertsAreTrue' /\ MarkedWasDelivered'
  BY <1>1, NothingFiled DEF IInv
<1> QED BY <1>1, <1>2, <1>3 DEF IInv

\* A handler that returns is silent, ...
LEMMA FinishInv ==
  ASSUME IInv, NEW r \in Requests, Finish(r),
         UNCHANGED <<month, database, delivered>>
  PROVE  IInv'
BY FinishKeeps, SilentInv DEF IInv, Silent

\* ... and so is one that turns to its next alert, ...
LEMMA NextAlertInv ==
  ASSUME IInv, NEW r \in Requests, due[r] # <<>>, NextAlert(r),
         UNCHANGED <<month, database, delivered>>
  PROVE  IInv'
<1>1. Grows /\ Shared'
  BY Frozen DEF IInv, Typed, Shared, database
<1> QED BY <1>1, NextAlertKeeps, SilentInv DEF IInv, Silent

\* ... or that goes on with nothing to announce, ...
LEMMA GoOnInv ==
  ASSUME IInv, NEW r \in Requests, NEW label,
         label \notin {"alert", "send", "mark"}, Goto(r, label),
         pc[r] \notin {"alert", "send", "mark"},
         UNCHANGED <<month, database, delivered>>, Locals', Only(r),
         due'[r] \in {due[r], <<>>}
  PROVE  IInv'
<1>1. pc'[r] = label /\ due'[r] = <<>>
  BY DEF Goto, IInv, Typed, Locals, Announces
<1>2. <<>> \in Seq(Alerts) /\ DOMAIN <<>> = {}
  OBVIOUS
<1> QED BY <1>1, <1>2, SilentInv DEF Announces, Silent

\* ... or with something true, ...
LEMMA RaiseInv ==
  ASSUME IInv, NEW r \in Requests, NEW alerts \in Seq(Alerts), alerts # <<>>,
         \A i \in DOMAIN alerts : True(alerts[i], req[r].month),
         Goto(r, "alert"), due' = [due EXCEPT ![r] = alerts],
         UNCHANGED <<month, database, delivered, req, bill>>,
         DOMAIN unchecked' = Requests
  PROVE  IInv'
<1>1. pc'[r] = "alert" /\ due'[r] = alerts /\ req'[r] = req[r]
      /\ spend' = spend /\ Locals' /\ Only(r)
  BY DEF Goto, IInv, Typed, Locals, Only, database
<1>2. ASSUME NEW i \in DOMAIN due'[r] PROVE True(due[r][i], req[r].month)'
  <2>1. PICK a, m : a = alerts[i] /\ m = req[r].month
    OBVIOUS
  <2>2. True(a, m) /\ a = due'[r][i] /\ m = req'[r].month
    BY <1>1, <1>2, <2>1
  <2>3. True(a, m)'
    BY <1>1, <2>2 DEF True, Exceeded, Reached, Trigger
  <2> QED BY <2>2, <2>3
<1>3. Announces(r)'
  BY <1>1, <1>2 DEF Announces
<1> QED BY <1>1, <1>3, SilentInv DEF Silent

\* ... or moves on with the alert it is at.
LEMMA HandOnInv ==
  ASSUME IInv, NEW r \in Requests, NEW label \in {"send", "mark"},
         pc[r] \in {"alert", "send", "mark"}, Goto(r, label),
         label = "send" => Head(due[r]) \in Thresholds,
         label = "mark" => ~HasLog \/ Head(due[r]) \notin Thresholds,
         UNCHANGED <<month, database, delivered, local>>
  PROVE  IInv'
<1>1. pc'[r] = label /\ due'[r] = due[r] /\ req'[r] = req[r]
      /\ spend' = spend /\ Locals' /\ Only(r)
  BY DEF Goto, IInv, Typed, Locals, Only, database, local
<1>2. ASSUME NEW i \in DOMAIN due'[r] PROVE True(due[r][i], req[r].month)'
  <2>1. PICK a, m : a = due[r][i] /\ m = req[r].month
    OBVIOUS
  <2>2. True(a, m) /\ a = due'[r][i] /\ m = req'[r].month
    BY <1>1, <1>2, <2>1 DEF IInv, Announces
  <2>3. True(a, m)'
    BY <1>1, <2>2 DEF True, Exceeded, Reached, Trigger
  <2> QED BY <2>2, <2>3
<1>3. Announces(r)'
  BY <1>1, <1>2 DEF Announces, IInv
<1> QED BY <1>1, <1>3, SilentInv DEF Silent

-----------------------------------------------------------------------------
LEMMA ArriveInv ==
  ASSUME IInv, NEW r \in Requests, NEW kind, NEW tags, Arrive(r, kind, tags)
  PROVE  IInv'
<1>1. PICK label \in {"monthly", "check", "upstream"} : Goto(r, label)
  BY DEF Arrive
<1>2. Locals' /\ Only(r) /\ pc[r] = "idle"
  BY DEF Arrive, Goto, IInv, Typed, Shared, Locals, Only
<1> QED BY <1>1, <1>2, GoOnInv DEF Arrive

LEMMA Pair == \A a, b : <<a>> \o <<b>> = <<a, b>>
<1> TAKE a, b
<1> DEFINE S == {a, b}
           p == <<a>>
           q == <<b>>
<1>1. p \in Seq(S) /\ Len(p) = 1 /\ p[1] = a
  OBVIOUS
<1>2. q \in Seq(S) /\ Len(q) = 1 /\ q[1] = b
  OBVIOUS
<1>3. <<a, b>> \in Seq(S) /\ Len(<<a, b>>) = 2
      /\ <<a, b>>[1] = a /\ <<a, b>>[2] = b
  OBVIOUS
<1> HIDE DEF p, q
<1>4. p \o q \in Seq(S) /\ Len(p \o q) = 2
      /\ \A i \in 1..2 : (p \o q)[i] = IF i <= 1 THEN p[i] ELSE q[i - 1]
  BY <1>1, <1>2, ConcatProperties
<1>5. (p \o q)[1] = a /\ (p \o q)[2] = b
  BY <1>1, <1>2, <1>4
<1>6. PICK t \in Seq(S) : t = p \o q
  BY <1>4
<1>7. PICK u \in Seq(S) : u = <<a, b>>
  BY <1>3
<1>8. Len(t) = 2 /\ t[1] = a /\ t[2] = b /\ Len(u) = 2 /\ u[1] = a /\ u[2] = b
  BY <1>3, <1>4, <1>5, <1>6, <1>7
<1>9. t = u
  <2>1. \A i \in 1..Len(t) : t[i] = u[i]
    BY <1>8
  <2> QED BY <1>8, <2>1, SeqEqual
<1> QED BY <1>6, <1>7, <1>9 DEF p, q

LEMMA MonthlyInv ==
  ASSUME IInv, NEW r \in Requests, Monthly(r)
  PROVE  IInv'
<1> DEFINE alerts == MonthlyAlerts(req[r].month)
<1>1. /\ pc[r] = "monthly" /\ due' = [due EXCEPT ![r] = alerts]
      /\ Goto(r, IF alerts = <<>> THEN "check" ELSE "alert")
      /\ UNCHANGED <<month, database, delivered, req, unchecked, bill>>
  BY DEF Monthly
<1>2. alerts \in Seq(Alerts)
      /\ \A i \in DOMAIN alerts : True(alerts[i], req[r].month)
  <2> DEFINE IfReached(t) ==
        IF Reached(t, req[r].month) THEN <<t>> ELSE <<>>
  <2>1. alerts = IfReached("80") \o IfReached("90")
    BY DEF MonthlyAlerts
  <2>2. \A t \in {"80", "90"} :
          \/ IfReached(t) = <<t>> /\ True(t, req[r].month)
          \/ IfReached(t) = <<>>
    BY DEF True
  <2>3. /\ <<>> \o <<>> = <<>> /\ <<"80">> \o <<>> = <<"80">>
        /\ <<>> \o <<"90">> = <<"90">> /\ <<"80">> \o <<"90">> = <<"80", "90">>
    <3>1. <<>> \o <<>> = <<>> /\ <<"80">> \o <<>> = <<"80">>
          /\ <<>> \o <<"90">> = <<"90">>
      <4>1. <<>> \in Seq(Alerts) /\ <<"80">> \in Seq(Alerts)
            /\ <<"90">> \in Seq(Alerts)
        BY DEF Alerts, Thresholds
      <4> QED BY <4>1, ConcatEmptySeq
    <3>2. <<"80">> \o <<"90">> = <<"80", "90">>
      BY Pair
    <3> QED BY <3>1, <3>2
  <2>4. \/ alerts = <<>>
        \/ alerts = <<"80">> /\ True("80", req[r].month)
        \/ alerts = <<"90">> /\ True("90", req[r].month)
        \/ /\ alerts = <<"80", "90">> /\ True("80", req[r].month)
           /\ True("90", req[r].month)
    BY <2>1, <2>2, <2>3
  <2> HIDE DEF alerts
  <2>5. CASE alerts = <<>>
    BY <2>5
  <2>6. CASE alerts = <<"80">> /\ True("80", req[r].month)
    BY <2>6 DEF Alerts, Thresholds
  <2>7. CASE alerts = <<"90">> /\ True("90", req[r].month)
    BY <2>7 DEF Alerts, Thresholds
  <2>8. CASE /\ alerts = <<"80", "90">> /\ True("80", req[r].month)
             /\ True("90", req[r].month)
    BY <2>8 DEF Alerts, Thresholds
  <2> QED BY <2>4, <2>5, <2>6, <2>7, <2>8
<1> HIDE DEF alerts
<1>3. CASE alerts = <<>>
  <2>1. due'[r] = <<>> /\ Locals' /\ Only(r)
    BY <1>1, <1>3 DEF Goto, IInv, Typed, Locals, Announces, Only
  <2> QED BY <1>1, <1>3, <2>1, GoOnInv
<1>4. CASE alerts # <<>>
  <2>1. DOMAIN unchecked' = Requests
    BY <1>1 DEF IInv, Typed, Locals
  <2> QED BY <1>1, <1>2, <1>4, <2>1, RaiseInv
<1> QED BY <1>3, <1>4

LEMMA MonthlyFailedInv ==
  ASSUME IInv, NEW r \in Requests, MonthlyFailed(r)
  PROVE  IInv'
<1>1. Locals' /\ Only(r)
  BY DEF MonthlyFailed, Goto, IInv, Typed, Locals, Only, local
<1> QED BY <1>1, GoOnInv DEF MonthlyFailed, local

\* Skipping an alert: its row is there already, or the lookup or the row failed.
LEMMA SkipInv ==
  ASSUME IInv, NEW r \in Requests,
         AlertKnown(r) \/ LookupFailed(r) \/ MarkFailed(r)
  PROVE  IInv'
<1>1. pc[r] \in {"alert", "mark"} /\ NextAlert(r)
      /\ UNCHANGED <<month, database, delivered>>
  BY DEF AlertKnown, LookupFailed, MarkFailed
<1>2. due[r] # <<>>
  BY <1>1 DEF IInv, Announces
<1> QED BY <1>1, <1>2, NextAlertInv

LEMMA AlertNewInv ==
  ASSUME IInv, NEW r \in Requests, AlertNew(r)
  PROVE  IInv'
<1>1. pc[r] = "alert" /\ due[r] # <<>> /\ Head(due[r]) \in Alerts
  BY HeadIsTrue DEF AlertNew, IInv, Announces
<1>2. CASE Head(due[r]) = "agent"
  BY <1>1, <1>2, HandOnInv DEF AlertNew, Thresholds
<1>3. CASE Head(due[r]) # "agent" /\ HasNotifier
  BY <1>1, <1>3, HandOnInv DEF AlertNew, Alerts
<1>4. CASE Head(due[r]) # "agent" /\ ~HasNotifier
  BY <1>1, <1>4, NextAlertInv DEF AlertNew
<1> QED BY <1>2, <1>3, <1>4

\* The steps before the call and around it.
LEMMA QuietInv ==
  ASSUME IInv, NEW r \in Requests,
         ScopeOpen(r) \/ \E cost \in Costs \cup {0} : Answer(r, cost)
  PROVE  IInv'
<1>1. CASE ScopeOpen(r)
  <2>1. PICK label \in {"upstream", "check"} : Goto(r, label)
    BY <1>1 DEF ScopeOpen
  <2>2. Locals' /\ Only(r)
    BY <1>1 DEF ScopeOpen, Goto, IInv, Typed, Locals, Only
  <2> QED BY <1>1, <2>1, <2>2, GoOnInv DEF ScopeOpen
<1>2. ASSUME NEW cost \in Costs \cup {0}, Answer(r, cost) PROVE IInv'
  <2>1. cost \in Nat
    BY CostAssumption
  <2>2. Locals' /\ Only(r)
    BY <1>2, <2>1 DEF Answer, Goto, IInv, Typed, Shared, Locals, Only
  <2> QED BY <1>2, <2>2, GoOnInv DEF Answer
<1> QED BY <1>1, <1>2

LEMMA ReturnInv ==
  ASSUME IInv, NEW r \in Requests,
         CheckFailed(r) \/ Unbilled(r) \/ SaveFailed(r)
  PROVE  IInv'
BY FinishInv DEF CheckFailed, Unbilled, SaveFailed

\* A refusal announces the limit it refers to: the last mark is the limit.
LEMMA RefuseInv ==
  ASSUME IInv, NEW r \in Requests, Refuse(r)
  PROVE  IInv'
<1> DEFINE s == Head(unchecked[r])
           alerts == IF req[r].kind # "chat" THEN <<>>
                     ELSE CASE s = "global" -> <<"100">>
                            [] s = "agent"  -> <<"agent">>
                            [] OTHER        -> <<>>
<1>1. CASE Finish(r)
  BY <1>1, FinishInv DEF Refuse
<1>2. CASE ~Finish(r)
  <2>1. /\ alerts # <<>> /\ Exceeded(s, req[r].month)
        /\ due' = [due EXCEPT ![r] = alerts] /\ Goto(r, "alert")
        /\ unchecked' = [unchecked EXCEPT ![r] = <<>>]
        /\ UNCHANGED <<month, database, delivered, req, bill>>
    BY <1>2 DEF Refuse
  <2>2. \/ s = "global" /\ alerts = <<"100">>
        \/ s = "agent" /\ alerts = <<"agent">>
    BY <2>1
  <2>3. DOMAIN unchecked' = Requests
    BY <2>1 DEF IInv, Typed, Locals
  <2> HIDE DEF s, alerts
  <2>4. CASE s = "global" /\ alerts = <<"100">>
    <3>1. Trigger("100") = Limit["global"]
      BY LimitsAreNat DEF Trigger
    <3>2. True("100", req[r].month)
      BY <2>1, <2>4, <3>1 DEF True, Exceeded, Reached
    <3>3. alerts \in Seq(Alerts)
          /\ \A i \in DOMAIN alerts : True(alerts[i], req[r].month)
      BY <2>4, <3>2 DEF Alerts, Thresholds
    <3> QED BY <2>1, <2>3, <3>3, RaiseInv
  <2>5. CASE s = "agent" /\ alerts = <<"agent">>
    <3>1. alerts \in Seq(Alerts)
          /\ \A i \in DOMAIN alerts : True(alerts[i], req[r].month)
      BY <2>1, <2>5 DEF Alerts, True
    <3> QED BY <2>1, <2>3, <3>1, RaiseInv
  <2> QED BY <2>2, <2>4, <2>5
<1> QED BY <1>1, <1>2

-----------------------------------------------------------------------------
(* The steps that leave something behind *)

LEMMA Assemble ==
  ASSUME IInv, NEW r \in Requests, Typed', Grows, Only(r), Announces(r)',
         AlertsAreTrue', MarkedWasDelivered'
  PROVE  IInv'
<1>1. \A q \in Requests : Announces(q)'
  BY AllAnnounce DEF IInv
<1> QED BY <1>1 DEF IInv

\* An e-mail says what the request found to be true.
LEMMA DeliverEffect ==
  ASSUME IInv, NEW r \in Requests, pc[r] = "send", Deliver(r),
         UNCHANGED <<month, database>>
  PROVE  /\ Shared' /\ Grows /\ AlertsAreTrue' /\ MarkedWasDelivered'
         /\ delivered'[req[r].month][Head(due[r])] > 0
<1>1. due[r] # <<>> /\ Head(due[r]) \in Thresholds /\ req[r].month \in Months
  BY DEF IInv, Announces, Typed, Locals
<1>2. PICK n \in Months, a \in Thresholds : n = req[r].month /\ a = Head(due[r])
  BY <1>1
<1>3. True(a, n)
  BY <1>1, <1>2, HeadIsTrue DEF IInv
<1>4. /\ delivered' = [delivered EXCEPT ![n][a] = @ + 1]
      /\ delivered \in [Months -> [Thresholds -> Nat]]
  BY <1>2 DEF Deliver, IInv, Typed, Shared
<1>5. /\ delivered' \in [Months -> [Thresholds -> Nat]]
      /\ \A m \in Months, t \in Thresholds :
           delivered'[m][t] = IF m = n /\ t = a THEN delivered[m][t] + 1
                              ELSE delivered[m][t]
  BY <1>4
<1>6. /\ \A m \in Months, t \in Thresholds : delivered[m][t] \in Nat
      /\ \A m \in Months, s \in ScopeSet : spend[m][s] \in Nat
  BY DEF IInv, Typed, Shared
<1>7. spend' = spend /\ sent' = sent /\ month' = month
  BY DEF database
<1>8. Shared' /\ Grows
  BY <1>5, <1>6, <1>7 DEF IInv, Typed, Shared, Grows
<1>9. AlertsAreTrue'
  <2>1. ASSUME NEW m \in Months, NEW t \in Thresholds,
               delivered'[m][t] > 0 \/ <<m, t>> \in sent
        PROVE  Reached(t, m)
    <3>1. CASE m = n /\ t = a
      BY <1>3, <3>1 DEF True, Thresholds
    <3>2. CASE ~(m = n /\ t = a)
      BY <1>5, <2>1, <3>2 DEF IInv, AlertsAreTrue
    <3> QED BY <3>1, <3>2
  <2>2. ASSUME NEW m \in Months, NEW t \in Thresholds
        PROVE  Reached(t, m)' <=> Reached(t, m)
    BY <1>7 DEF Reached, Trigger
  <2>3. ASSUME NEW m \in Months
        PROVE  Exceeded("agent", m)' <=> Exceeded("agent", m)
    BY <1>7 DEF Exceeded
  <2> QED BY <2>1, <2>2, <2>3, <1>7 DEF IInv, AlertsAreTrue
<1>10. MarkedWasDelivered'
  BY <1>5, <1>6, <1>7 DEF IInv, MarkedWasDelivered
<1>11. delivered'[n][a] > 0
  BY <1>5, <1>6
<1> QED BY <1>2, <1>8, <1>9, <1>10, <1>11

\* After the e-mail the request files the alert.
LEMMA FileNext ==
  ASSUME IInv, NEW r \in Requests, pc[r] = "send", Goto(r, "mark"),
         UNCHANGED <<month, database, local>>, Typed', Grows,
         HasLog => delivered'[req[r].month][Head(due[r])] > 0
  PROVE  Announces(r)' /\ Only(r)
<1>1. pc'[r] = "mark" /\ due'[r] = due[r] /\ req'[r] = req[r] /\ spend' = spend
      /\ Only(r)
  BY DEF Goto, IInv, Typed, Locals, local, database, Only
<1>2. ASSUME NEW i \in DOMAIN due'[r] PROVE True(due[r][i], req[r].month)'
  <2>1. PICK a, m : a = due[r][i] /\ m = req[r].month
    OBVIOUS
  <2>2. True(a, m) /\ a = due'[r][i] /\ m = req'[r].month
    BY <1>1, <1>2, <2>1 DEF IInv, Announces
  <2>3. True(a, m)'
    BY <1>1, <2>2 DEF True, Exceeded, Reached, Trigger
  <2> QED BY <2>2, <2>3
<1> QED BY <1>1, <1>2 DEF Announces, IInv

LEMMA SendInv ==
  ASSUME IInv, NEW r \in Requests, Send(r)
  PROVE  IInv'
<1>1. pc[r] = "send" /\ Deliver(r) /\ Goto(r, "mark")
      /\ UNCHANGED <<month, database, local>>
  BY DEF Send
<1>2. Shared' /\ Grows /\ AlertsAreTrue' /\ MarkedWasDelivered'
      /\ delivered'[req[r].month][Head(due[r])] > 0
  BY <1>1, DeliverEffect
<1>3. Typed'
  BY <1>1, <1>2 DEF Goto, IInv, Typed, Locals, local
<1> QED BY <1>1, <1>2, <1>3, FileNext, Assemble

LEMMA SendFailedInv ==
  ASSUME IInv, NEW r \in Requests, SendFailed(r)
  PROVE  IInv'
<1>1. pc[r] = "send" /\ UNCHANGED <<month, database>> /\ due[r] # <<>>
  BY DEF SendFailed, IInv, Announces
<1>2. Shared' /\ Grows /\ AlertsAreTrue' /\ MarkedWasDelivered'
  <2>1. CASE Deliver(r)
    BY <1>1, <2>1, DeliverEffect
  <2>2. CASE UNCHANGED delivered
    <3>1. Shared' /\ Grows
      BY <1>1, <2>2, Frozen DEF IInv, Typed, Shared, database
    <3>2. spend' = spend /\ sent' = sent /\ delivered' = delivered
      BY <1>1, <2>2 DEF database
    <3>3. ASSUME NEW m \in Months, NEW t \in Thresholds
          PROVE  Reached(t, m)' <=> Reached(t, m)
      BY <3>2 DEF Reached, Trigger
    <3>4. ASSUME NEW m \in Months
          PROVE  Exceeded("agent", m)' <=> Exceeded("agent", m)
      BY <3>2 DEF Exceeded
    <3> QED BY <3>1, <3>2, <3>3, <3>4
            DEF IInv, AlertsAreTrue, MarkedWasDelivered
  <2> QED BY <2>1, <2>2 DEF SendFailed
<1>3. CASE HasLog
  <2>1. NextAlert(r)
    BY <1>3 DEF SendFailed
  <2>2. Announces(r)' /\ Only(r) /\ Locals'
    BY <1>1, <1>2, <2>1, NextAlertKeeps DEF IInv
  <2> QED BY <1>2, <2>2, Assemble DEF Typed
<1>4. CASE ~HasLog
  <2>1. Goto(r, "mark") /\ UNCHANGED local
    BY <1>4 DEF SendFailed
  <2>2. Typed'
    BY <1>2, <2>1 DEF Goto, IInv, Typed, Locals, local
  <2> QED BY <1>1, <1>2, <1>4, <2>1, <2>2, FileNext, Assemble
<1> QED BY <1>3, <1>4

\* The row that is filed is true, and its e-mail has been delivered.
LEMMA MarkInv ==
  ASSUME IInv, NEW r \in Requests, Mark(r)
  PROVE  IInv'
<1>1. /\ pc[r] = "mark" /\ due[r] # <<>> /\ NextAlert(r)
      /\ sent' = sent \cup {Row(r)}
      /\ UNCHANGED <<month, spend, delivered>>
  BY DEF Mark, IInv, Announces
<1>2. Head(due[r]) \in Alerts /\ True(Head(due[r]), req[r].month)
      /\ req[r].month \in Months
  BY <1>1, HeadIsTrue DEF IInv, Typed, Locals
<1>3. PICK n \in Months, a \in Alerts : n = req[r].month /\ a = Head(due[r])
  BY <1>2
<1>4. sent' = sent \cup {<<n, a>>} /\ True(a, n)
  BY <1>1, <1>2, <1>3 DEF Row
<1>5. Shared' /\ Grows
  BY <1>1, <1>4, Frozen DEF IInv, Typed, Shared
<1>6. Announces(r)' /\ Only(r) /\ Locals'
  BY <1>1, <1>5, NextAlertKeeps DEF IInv
<1>7. AlertsAreTrue'
  <2>1. ASSUME NEW m \in Months, NEW t \in Thresholds,
               delivered[m][t] > 0 \/ <<m, t>> \in sent'
        PROVE  Reached(t, m)'
    <3>1. Reached(t, m)
      <4>1. CASE m = n /\ t = a
        BY <1>4, <4>1 DEF True, Thresholds
      <4>2. CASE ~(m = n /\ t = a)
        BY <1>4, <2>1, <4>2 DEF IInv, AlertsAreTrue
      <4> QED BY <4>1, <4>2
    <3> QED BY <1>1, <3>1 DEF Reached, Trigger
  <2>2. ASSUME NEW m \in Months, <<m, "agent">> \in sent'
        PROVE  Exceeded("agent", m)'
    <3>1. Exceeded("agent", m)
      <4>1. CASE m = n /\ "agent" = a
        BY <1>4, <4>1 DEF True
      <4>2. CASE ~(m = n /\ "agent" = a)
        BY <1>4, <2>2, <4>2 DEF IInv, AlertsAreTrue
      <4> QED BY <4>1, <4>2
    <3> QED BY <1>1, <3>1 DEF Exceeded
  <2> QED BY <1>1, <2>1, <2>2 DEF AlertsAreTrue
<1>8. MarkedWasDelivered'
  <2> SUFFICES ASSUME HasLog, NEW m \in Months, NEW t \in Thresholds,
                      <<m, t>> \in sent'
               PROVE  delivered'[m][t] > 0
    BY DEF MarkedWasDelivered
  <2>1. CASE m = n /\ t = a
    BY <1>1, <1>3, <2>1 DEF IInv, Announces
  <2>2. CASE ~(m = n /\ t = a)
    BY <1>1, <1>4, <2>2 DEF IInv, MarkedWasDelivered
  <2> QED BY <2>1, <2>2
<1> QED BY <1>5, <1>6, <1>7, <1>8, Assemble DEF Typed

\* Spend only grows.
LEMMA SaveInv ==
  ASSUME IInv, NEW r \in Requests, Save(r)
  PROVE  IInv'
<1>1. PICK n \in Months, c \in Nat : n = bill[r].month /\ c = bill[r].cost
  BY DEF IInv, Typed, Locals
<1>2. /\ spend' = [spend EXCEPT ![n] = [s \in ScopeSet |->
                     @[s] + IF s = "global" \/ s \in req[r].tags THEN c ELSE 0]]
      /\ spend \in [Months -> [ScopeSet -> Nat]]
      /\ Finish(r) /\ UNCHANGED <<month, sent, delivered>>
  BY <1>1 DEF Save, IInv, Typed, Shared, ScopeSet
<1>3. /\ spend' \in [Months -> [ScopeSet -> Nat]]
      /\ \A m \in Months, s \in ScopeSet : spend[m][s] <= spend'[m][s]
  <2>1. \A s \in ScopeSet :
          /\ spend[n][s] \in Nat
          /\ (IF s = "global" \/ s \in req[r].tags THEN c ELSE 0) \in Nat
    BY <1>2
  <2> QED BY <1>2, <2>1
<1>4. \A m \in Months, t \in Thresholds : delivered[m][t] \in Nat
  BY DEF IInv, Typed, Shared
<1>5. Grows /\ Shared'
  BY <1>2, <1>3, <1>4 DEF Grows, IInv, Typed, Shared
<1>6. Announces(r)' /\ Only(r) /\ Locals'
  BY <1>2, FinishKeeps DEF IInv
<1>7. AlertsAreTrue' /\ MarkedWasDelivered'
  BY <1>2, <1>5, <1>6, NothingFiled DEF IInv, Typed
<1> QED BY <1>5, <1>6, <1>7, Assemble DEF Typed

\* A restart forgets the requests, the turn of the month changes only the clock.
LEMMA OutsideInv ==
  ASSUME IInv, Crash \/ NextMonth
  PROVE  IInv'
<1>1. UNCHANGED <<spend, sent, delivered>> /\ month' \in Months
  BY BoundAssumption DEF Crash, NextMonth, database, IInv, Typed, Shared, Months
<1>2. Shared' /\ Grows
  BY <1>1, Frozen DEF IInv, Typed, Shared
<1>3. CASE Crash
  <2>1. 0 \in Months /\ NoBill \in [month : Months, cost : Nat]
    BY MonthZero DEF NoBill
  <2>2. Locals'
    BY <1>3, <2>1 DEF Crash, Locals, NoRequest
  <2>3. ASSUME NEW q \in Requests PROVE Announces(q)'
    <3>1. pc'[q] = "idle" /\ due'[q] = <<>> /\ DOMAIN due'[q] = {}
          /\ due'[q] \in Seq(Alerts)
      BY <1>3 DEF Crash
    <3> QED BY <3>1 DEF Announces
  <2>4. AlertsAreTrue' /\ MarkedWasDelivered'
    BY <1>1, <1>2, <2>2, NothingFiled DEF IInv, Typed
  <2> QED BY <1>2, <2>2, <2>3, <2>4 DEF IInv, Typed
<1>4. CASE NextMonth
  <2>1. Locals' /\ Typed'
    BY <1>2, <1>4 DEF NextMonth, IInv, Typed, Locals, local
  <2>2. ASSUME NEW q \in Requests PROVE Announces(q)'
    BY <1>2, <1>4, <2>1, OthersKeep DEF NextMonth, local, IInv
  <2>3. AlertsAreTrue' /\ MarkedWasDelivered'
    BY <1>1, <1>2, <2>1, NothingFiled DEF IInv
  <2> QED BY <2>1, <2>2, <2>3 DEF IInv
<1> QED BY <1>3, <1>4

-----------------------------------------------------------------------------
LEMMA InitInv == Init => IInv
<1> SUFFICES ASSUME Init PROVE IInv
  OBVIOUS
<1>1. Shared
  BY MonthZero DEF Init, Shared, ScopeSet
<1>2. Locals
  <2>1. NoBill \in [month : Months, cost : Nat] /\ 0 \in Months
    BY MonthZero DEF NoBill
  <2> QED BY <2>1 DEF Init, Locals, NoRequest
<1>3. AlertsAreTrue /\ MarkedWasDelivered
  BY DEF Init, AlertsAreTrue, MarkedWasDelivered
<1>4. ASSUME NEW q \in Requests PROVE Announces(q)
  <2>1. pc[q] = "idle" /\ due[q] = <<>> /\ DOMAIN due[q] = {}
        /\ due[q] \in Seq(Alerts)
    BY DEF Init
  <2> QED BY <2>1 DEF Announces
<1> QED BY <1>1, <1>2, <1>3, <1>4 DEF IInv, Typed

LEMMA NextInv == IInv /\ [Next]_vars => IInv'
<1> SUFFICES ASSUME IInv, [Next]_vars PROVE IInv'
  OBVIOUS
<1>1. ASSUME NEW r \in Requests, NEW kind \in Kinds, NEW tags \in TagSets,
             Arrive(r, kind, tags)
      PROVE  IInv'
  BY <1>1, ArriveInv
<1>2. ASSUME NEW r \in Requests, Step(r) PROVE IInv'
  <2>1. CASE Monthly(r) \/ MonthlyFailed(r)
    BY <2>1, MonthlyInv, MonthlyFailedInv
  <2>2. CASE AlertKnown(r) \/ LookupFailed(r) \/ MarkFailed(r)
    BY <2>2, SkipInv
  <2>3. CASE AlertNew(r)
    BY <2>3, AlertNewInv
  <2>4. CASE Send(r) \/ SendFailed(r)
    BY <2>4, SendInv, SendFailedInv
  <2>5. CASE Mark(r)
    BY <2>5, MarkInv
  <2>6. CASE ScopeOpen(r) \/ \E cost \in Costs \cup {0} : Answer(r, cost)
    BY <2>6, QuietInv
  <2>7. CASE Refuse(r)
    BY <2>7, RefuseInv
  <2>8. CASE CheckFailed(r) \/ Unbilled(r) \/ SaveFailed(r)
    BY <2>8, ReturnInv
  <2>9. CASE Save(r)
    BY <2>9, SaveInv
  <2> QED BY <1>2, <2>1, <2>2, <2>3, <2>4, <2>5, <2>6, <2>7, <2>8, <2>9 DEF Step
<1>3. CASE Crash \/ NextMonth
  BY <1>3, OutsideInv
<1>4. CASE UNCHANGED vars
  <2>1. UNCHANGED <<month, spend, sent, delivered, pc, req, due, bill>>
        /\ DOMAIN unchecked' = DOMAIN unchecked
    BY <1>4 DEF vars, database, local
  <2>2. Grows /\ Typed'
    BY <2>1, Frozen DEF IInv, Typed, Shared, Locals
  <2>3. ASSUME NEW q \in Requests PROVE Announces(q)'
    BY <2>1, <2>2, OthersKeep DEF IInv
  <2>4. AlertsAreTrue' /\ MarkedWasDelivered'
    BY <2>1, <2>2, NothingFiled DEF IInv
  <2> QED BY <2>2, <2>3, <2>4 DEF IInv
<1> QED BY <1>1, <1>2, <1>3, <1>4 DEF Next

LEMMA SpecInv == Spec => []IInv
BY InitInv, NextInv, PTL DEF Spec

\* No alert is sent or filed that is not true of its month, whatever the
\* interleaving of requests, restarts, faults and the turn of the month: an
\* alert is raised only after a query that found it true (alerts.go, proxy.go),
\* and the spend of a month never falls.
THEOREM AlertsTellTheTruth == Spec => []AlertsAreTrue
<1>1. IInv => AlertsAreTrue
  BY DEF IInv
<1> QED BY <1>1, SpecInv, PTL

\* A row that silences an alert for the rest of the month is filed only after the
\* e-mail has been delivered (emitMonthlyBudgetAlertOnce: lookup, send, mark).
THEOREM NothingMarkedUnsent == Spec => []MarkedWasDelivered
<1>1. IInv => MarkedWasDelivered
  BY DEF IInv
<1> QED BY <1>1, SpecInv, PTL

-----------------------------------------------------------------------------
(***************************************************************************)
(* What a request carries with it.  Until it has come to the request check *)
(* it still has every scope to check that concerns it, unless that check   *)
(* itself raised the alert it is at; and what it is about to save has the  *)
(* price of an answer and a month that has come.                           *)
(***************************************************************************)
Labels   == {"idle", "monthly", "alert", "send", "mark", "check", "upstream",
             "save"}
Incoming == [kind : Kinds \cup {"none"}, month : Months, tags : SUBSET ScopeSet]

Relevant(r) == {"global"} \cup req[r].tags
Whole(r)    == Relevant(r) \subseteq Range(unchecked[r])

Carried(r) ==
  /\ pc[r] \in Labels
  /\ req[r] \in Incoming /\ req[r].month <= month
  /\ unchecked[r] \in Seq(ScopeSet)
  /\ pc[r] = "check" => unchecked[r] # <<>>
  /\ pc[r] = "monthly" => Whole(r)
  /\ pc[r] \in {"alert", "send", "mark"} =>
       Whole(r) \/ (Len(due[r]) = 1 /\ unchecked[r] = <<>>)
  /\ pc[r] = "save" =>
       /\ bill[r].month <= month
       /\ bill[r].cost \in Costs \cup {0}
       /\ req[r].kind # "chat" => bill[r].cost = 0

\* These are functions, not merely defined where they are looked at.
Functional == /\ pc = [r \in Requests |-> pc[r]]
              /\ req = [r \in Requests |-> req[r]]

CarryInv == /\ IInv
            /\ Functional
            /\ crashes \in 0..MaxCrashes /\ faults \in 0..MaxFaults
            /\ \A r \in Requests : Carried(r)

LEMMA ScopeList ==
  /\ Scopes \in Seq(ScopeSet)
  /\ ScopeSet = {"global", "team", "project", "agent"}
<1>1. /\ DOMAIN Scopes = 1..4 /\ Scopes[1] = "global" /\ Scopes[2] = "team"
      /\ Scopes[3] = "project" /\ Scopes[4] = "agent"
  BY DEF Scopes
<1>2. ScopeSet = {Scopes[i] : i \in 1..4}
  BY <1>1 DEF ScopeSet, Range
<1>3. ScopeSet = {"global", "team", "project", "agent"}
  BY <1>1, <1>2
<1> QED BY <1>3 DEF Scopes

LEMMA RangeOfOne == \A a : Range(<<a>>) = {a}
BY DEF Range

LEMMA RangeOfNone == Range(<<>>) = {}
BY DEF Range

LEMMA Joined ==
  \A s, t \in Seq(ScopeSet) :
    s \o t \in Seq(ScopeSet) /\ Range(s \o t) = Range(s) \cup Range(t)
BY ConcatProperties, RangeConcatenation

\* The scopes to check are those that concern the request.
LEMMA ToCheckProperties ==
  ASSUME NEW tags \in TagSets
  PROVE  ToCheck(tags) \in Seq(ScopeSet) /\ Range(ToCheck(tags)) = {"global"} \cup tags
<1> DEFINE IfTagged(s) == IF s \in tags THEN <<s>> ELSE <<>>
           a == <<"global">> \o IfTagged("team")
           b == a \o IfTagged("project")
           c == b \o IfTagged("agent")
<1>1. ToCheck(tags) = c
  BY DEF ToCheck
<1>2. \A s \in ScopeSet : IfTagged(s) \in Seq(ScopeSet)
                          /\ Range(IfTagged(s)) = {s} \cap tags
  <2> TAKE s \in ScopeSet
  <2>1. CASE s \in tags
    BY <2>1, RangeOfOne
  <2>2. CASE s \notin tags
    BY <2>2, RangeOfNone
  <2> QED BY <2>1, <2>2
<1> HIDE DEF IfTagged
<1>3. /\ <<"global">> \in Seq(ScopeSet) /\ Range(<<"global">>) = {"global"}
      /\ {"team", "project", "agent"} \subseteq ScopeSet
  BY ScopeList, RangeOfOne
<1>4. a \in Seq(ScopeSet) /\ Range(a) = {"global"} \cup ({"team"} \cap tags)
  BY <1>2, <1>3, Joined
<1> HIDE DEF a
<1>5. b \in Seq(ScopeSet) /\ Range(b) = Range(a) \cup ({"project"} \cap tags)
  BY <1>2, <1>3, <1>4, Joined
<1> HIDE DEF b
<1>6. c \in Seq(ScopeSet) /\ Range(c) = Range(b) \cup ({"agent"} \cap tags)
  BY <1>2, <1>3, <1>5, Joined
<1>7. tags \subseteq {"team", "project", "agent"}
  BY TagAssumption
<1> QED BY <1>1, <1>4, <1>5, <1>6, <1>7

LEMMA TailRange ==
  ASSUME NEW s \in Seq(ScopeSet), s # <<>>
  PROVE  /\ Tail(s) \in Seq(ScopeSet) /\ Len(s) \in Nat /\ Len(s) > 0
         /\ Len(Tail(s)) = Len(s) - 1
         /\ Range(s) \subseteq {Head(s)} \cup Range(Tail(s))
         /\ Head(s) \in ScopeSet
<1>1. /\ Head(s) \in ScopeSet /\ Tail(s) \in Seq(ScopeSet)
      /\ Len(Tail(s)) = Len(s) - 1 /\ Len(s) \in Nat /\ Len(s) > 0
      /\ \A i \in 1..Len(Tail(s)) : Tail(s)[i] = s[i + 1]
      /\ Head(s) = s[1] /\ DOMAIN s = 1..Len(s)
      /\ DOMAIN Tail(s) = 1..Len(Tail(s))
  BY HeadTailProperties, LenProperties
<1>2. ASSUME NEW i \in 1..Len(s) PROVE s[i] \in {Head(s)} \cup Range(Tail(s))
  <2>1. CASE i = 1
    BY <1>1, <2>1
  <2>2. CASE i # 1
    <3>1. i - 1 \in 1..Len(Tail(s)) /\ Tail(s)[i - 1] = s[i]
      BY <1>1, <1>2, <2>2
    <3> QED BY <1>1, <3>1 DEF Range
  <2> QED BY <2>1, <2>2
<1> QED BY <1>1, <1>2 DEF Range

\* Whoever has a scope to check has something to check.
LEMMA WholeIsNonempty == \A r \in Requests : Whole(r) => unchecked[r] # <<>>
BY RangeOfNone DEF Whole, Relevant

\* A step of r leaves the locals of the others alone.
Alone(r) == \A q \in Requests \ {r} :
  /\ pc'[q] = pc[q] /\ req'[q] = req[q] /\ due'[q] = due[q]
  /\ unchecked'[q] = unchecked[q] /\ bill'[q] = bill[q]

LEMMA FinishAlone ==
  ASSUME Typed, NEW r \in Requests, Finish(r)
  PROVE  /\ Alone(r)
         /\ pc'[r] = "idle" /\ req'[r] = NoRequest /\ due'[r] = <<>>
         /\ unchecked'[r] = <<>> /\ bill'[r] = NoBill
BY DEF Finish, Goto, Typed, Locals, Alone

LEMMA NextAlertAlone ==
  ASSUME Typed, NEW r \in Requests, NextAlert(r)
  PROVE  /\ Alone(r)
         /\ \/ Finish(r)
            \/ /\ ~(Len(due[r]) = 1 /\ unchecked[r] = <<>>)
               /\ pc'[r] = IF Len(due[r]) > 1 THEN "alert" ELSE "check"
               /\ due'[r] = Tail(due[r])
               /\ req'[r] = req[r] /\ unchecked'[r] = unchecked[r]
               /\ bill'[r] = bill[r]
<1>1. CASE Finish(r)
  BY <1>1, FinishAlone
<1>2. CASE ~Finish(r)
  BY <1>2 DEF NextAlert, Goto, Typed, Locals, Alone
<1> QED BY <1>1, <1>2

-----------------------------------------------------------------------------
(* The shapes a step of a request can have *)

Comes(r) ==
  /\ pc[r] = "idle" /\ bill'[r] = bill[r]
  /\ \E kind \in Kinds, tags \in TagSets :
       /\ req'[r] = [kind |-> kind, tags |-> tags, month |-> month]
       /\ pc'[r] = CASE kind = "chat"  -> "monthly"
                     [] kind = "media" -> "check"
                     [] OTHER          -> "upstream"
       /\ unchecked'[r] = ToCheck(tags)

Returns(r) == /\ pc'[r] = "idle" /\ req'[r] = NoRequest /\ due'[r] = <<>>
              /\ unchecked'[r] = <<>> /\ bill'[r] = NoBill

\* The monthly check and the alerts.
TurnsTo(r) ==
  /\ req'[r] = req[r] /\ unchecked'[r] = unchecked[r] /\ bill'[r] = bill[r]
  /\ pc[r] \in {"monthly", "alert", "send", "mark"}
  /\ pc'[r] \in {"alert", "send", "mark", "check"}
  /\ pc'[r] \in {"send", "mark"} =>
       pc[r] \in {"alert", "send"} /\ due'[r] = due[r]
  /\ pc'[r] \in {"alert", "check"} =>
       pc[r] = "monthly" \/ ~(Len(due[r]) = 1 /\ unchecked[r] = <<>>)

Passes(r) ==
  /\ req'[r] = req[r] /\ bill'[r] = bill[r]
  /\ pc[r] = "check" /\ ~Exceeded(Head(unchecked[r]), req[r].month)
  /\ unchecked'[r] = Tail(unchecked[r])
  /\ pc'[r] = IF Len(unchecked[r]) = 1 THEN "upstream" ELSE "check"

Refuses(r) ==
  /\ req'[r] = req[r] /\ bill'[r] = bill[r] /\ pc[r] = "check"
  /\ pc'[r] = "alert" /\ unchecked'[r] = <<>> /\ Len(due'[r]) = 1

Answers(r) ==
  /\ req'[r] = req[r] /\ unchecked'[r] = unchecked[r]
  /\ pc[r] = "upstream" /\ pc'[r] = "save"
  /\ \E cost \in Costs \cup {0} :
       /\ bill'[r] = [month |-> month, cost |-> cost]
       /\ req[r].kind # "chat" => cost = 0

Shape(r) == \/ Comes(r) \/ Returns(r) \/ TurnsTo(r)
            \/ Passes(r) \/ Refuses(r) \/ Answers(r)

LEMMA NextAlertShape ==
  ASSUME Typed, NEW r \in Requests, NextAlert(r),
         pc[r] \in {"alert", "send", "mark"}
  PROVE  Alone(r) /\ (Returns(r) \/ TurnsTo(r))
<1>1. CASE Finish(r)
  BY <1>1, FinishAlone DEF Returns
<1>2. CASE ~Finish(r)
  BY <1>2, NextAlertAlone DEF TurnsTo
<1> QED BY <1>1, <1>2

LEMMA StepShape ==
  ASSUME IInv, NEW r \in Requests,
         Step(r) \/ \E kind \in Kinds, tags \in TagSets : Arrive(r, kind, tags)
  PROVE  Alone(r) /\ Shape(r) /\ month' = month
<1>1. /\ DOMAIN pc = Requests /\ DOMAIN req = Requests /\ DOMAIN due = Requests
      /\ DOMAIN unchecked = Requests /\ DOMAIN bill = Requests /\ Typed
  BY DEF IInv, Typed, Locals
<1>2. month' = month
  BY DEF Step, Arrive, Monthly, MonthlyFailed, AlertKnown, AlertNew, LookupFailed,
         Send, SendFailed, Mark, MarkFailed, ScopeOpen, Refuse, CheckFailed,
         Answer, Unbilled, Save, SaveFailed
<1>3. ASSUME Finish(r) PROVE Alone(r) /\ Shape(r)
  BY <1>1, <1>3, FinishAlone DEF Shape, Returns
<1>4. ASSUME NextAlert(r), pc[r] \in {"alert", "send", "mark"}
      PROVE  Alone(r) /\ Shape(r)
  BY <1>1, <1>4, NextAlertShape DEF Shape
<1>5. ASSUME Goto(r, "send") \/ Goto(r, "mark"), UNCHANGED local,
             pc[r] \in {"alert", "send"}
      PROVE  Alone(r) /\ Shape(r)
  <2>1. Alone(r) /\ TurnsTo(r)
    BY <1>1, <1>5 DEF Goto, local, Alone, TurnsTo
  <2> QED BY <2>1 DEF Shape
<1>6. ASSUME NEW kind \in Kinds, NEW tags \in TagSets, Arrive(r, kind, tags)
      PROVE  Alone(r) /\ Shape(r)
  <2>1. Alone(r) /\ Comes(r)
    BY <1>1, <1>6 DEF Arrive, Goto, Alone, Comes
  <2> QED BY <2>1 DEF Shape
<1>7. CASE Monthly(r) \/ MonthlyFailed(r)
  <2>1. Alone(r) /\ TurnsTo(r)
    BY <1>1, <1>7 DEF Monthly, MonthlyFailed, Goto, local, Alone, TurnsTo
  <2> QED BY <1>2, <2>1 DEF Shape
<1>8. CASE AlertKnown(r) \/ LookupFailed(r) \/ Mark(r) \/ MarkFailed(r)
  BY <1>4, <1>8 DEF AlertKnown, LookupFailed, Mark, MarkFailed
<1>9. CASE AlertNew(r)
  BY <1>4, <1>5, <1>9 DEF AlertNew
<1>10. CASE Send(r) \/ SendFailed(r)
  BY <1>4, <1>5, <1>10 DEF Send, SendFailed
<1>11. CASE ScopeOpen(r)
  <2>1. Alone(r) /\ Passes(r)
    BY <1>1, <1>11 DEF ScopeOpen, Goto, Alone, Passes
  <2> QED BY <1>2, <2>1 DEF Shape
<1>12. CASE Refuse(r) /\ ~Finish(r)
  <2> DEFINE alerts == IF req[r].kind # "chat" THEN <<>>
                       ELSE CASE Head(unchecked[r]) = "global" -> <<"100">>
                              [] Head(unchecked[r]) = "agent"  -> <<"agent">>
                              [] OTHER                         -> <<>>
  <2>1. /\ pc[r] = "check" /\ alerts # <<>>
        /\ due' = [due EXCEPT ![r] = alerts] /\ Goto(r, "alert")
        /\ unchecked' = [unchecked EXCEPT ![r] = <<>>]
        /\ UNCHANGED <<req, bill>>
    BY <1>12 DEF Refuse
  <2>2. Len(alerts) = 1
    BY <2>1
  <2> HIDE DEF alerts
  <2>3. Alone(r) /\ Refuses(r)
    BY <1>1, <2>1, <2>2 DEF Goto, Alone, Refuses
  <2> QED BY <1>2, <2>3 DEF Shape
<1>13. CASE CheckFailed(r) \/ Unbilled(r) \/ Save(r) \/ SaveFailed(r)
  BY <1>3, <1>13 DEF CheckFailed, Unbilled, Save, SaveFailed
<1>14. ASSUME NEW cost \in Costs \cup {0}, Answer(r, cost)
       PROVE  Alone(r) /\ Shape(r)
  <2>1. Alone(r) /\ Answers(r)
    BY <1>1, <1>14 DEF Answer, Goto, Alone, Answers
  <2> QED BY <2>1 DEF Shape
<1> QED BY <1>2, <1>3, <1>6, <1>7, <1>8, <1>9, <1>10, <1>11, <1>12, <1>13, <1>14
        DEF Step

LEMMA CarriedStep ==
  ASSUME CarryInv, IInv', NEW r \in Requests, Alone(r), Shape(r), month' = month
  PROVE  \A q \in Requests : Carried(q)'
<1>1. \A q \in Requests \ {r} : Carried(q)'
  BY DEF CarryInv, Alone, Carried, Whole, Relevant
<1> SUFFICES Carried(r)'
  BY <1>1
<1>2. Carried(r) /\ Typed /\ month \in Months /\ month \in Nat /\ 0 <= month
  BY BoundAssumption DEF CarryInv, IInv, Typed, Shared, Months
<1>3. CASE Comes(r)
  <2>1. PICK kind \in Kinds, tags \in TagSets :
          /\ req'[r] = [kind |-> kind, tags |-> tags, month |-> month]
          /\ pc'[r] = CASE kind = "chat"  -> "monthly"
                        [] kind = "media" -> "check"
                        [] OTHER          -> "upstream"
          /\ unchecked'[r] = ToCheck(tags)
    BY <1>3 DEF Comes
  <2>2. tags \in SUBSET ScopeSet
    BY TagAssumption, ScopeList
  <2>3. req'[r] \in Incoming /\ Whole(r)' /\ unchecked'[r] \in Seq(ScopeSet)
    BY <1>2, <2>1, <2>2, ToCheckProperties DEF Incoming, Whole, Relevant
  <2>4. unchecked'[r] # <<>>
    BY <2>3, RangeOfNone DEF Whole, Relevant
  <2>5. pc'[r] \in {"monthly", "check", "upstream"}
    BY <2>1
  <2>6. req'[r].month <= month
    BY <1>2, <2>1
  <2> QED BY <2>3, <2>4, <2>5, <2>6 DEF Carried, Labels
<1>4. CASE Returns(r)
  <2>1. NoRequest \in Incoming
    BY MonthZero DEF NoRequest, Incoming
  <2>2. NoRequest.month = 0
    BY DEF NoRequest
  <2> QED BY <1>2, <1>4, <2>1, <2>2 DEF Returns, Carried, Labels
<1>5. CASE TurnsTo(r)
  <2>1. pc'[r] \in {"alert", "check"} => Whole(r)
    BY <1>2, <1>5 DEF TurnsTo, Carried
  <2>2. Whole(r)' = Whole(r)
    BY <1>5 DEF TurnsTo, Whole, Relevant
  <2> QED BY <1>2, <1>5, <2>1, <2>2, WholeIsNonempty DEF TurnsTo, Carried, Labels
<1>6. CASE Passes(r)
  <2>1. unchecked[r] \in Seq(ScopeSet) /\ unchecked[r] # <<>>
    BY <1>2, <1>6 DEF Passes, Carried
  <2>2. Tail(unchecked[r]) \in Seq(ScopeSet)
        /\ Len(Tail(unchecked[r])) = Len(unchecked[r]) - 1
        /\ Len(unchecked[r]) \in Nat /\ Len(unchecked[r]) > 0
    BY <2>1, TailRange
  <2>3. Len(unchecked[r]) # 1 => Tail(unchecked[r]) # <<>>
    <3>1. Len(<<>>) = 0
      OBVIOUS
    <3>2. Len(unchecked[r]) # 1 => Len(Tail(unchecked[r])) # 0
      BY <2>2
    <3> QED BY <3>1, <3>2, Zenon
  <2> QED BY <1>2, <1>6, <2>2, <2>3 DEF Passes, Carried, Labels
<1>7. CASE Refuses(r)
  BY <1>2, <1>7 DEF Refuses, Carried, Labels
<1>8. CASE Answers(r)
  BY <1>2, <1>8 DEF Answers, Carried, Labels
<1> QED BY <1>1, <1>3, <1>4, <1>5, <1>6, <1>7, <1>8 DEF Shape

\* A restart and the turn of the month.
LEMMA CarriedOutside ==
  ASSUME CarryInv, Crash \/ NextMonth \/ UNCHANGED vars
  PROVE  \A q \in Requests : Carried(q)'
<1>1. /\ month \in Nat /\ month' \in Nat /\ month <= month'
      /\ \A q \in Requests : bill[q].month \in Nat /\ req[q].month \in Nat
      /\ 0 <= month'
  BY BoundAssumption
     DEF CarryInv, IInv, Typed, Shared, Locals, Months, Crash, NextMonth, vars
<1>2. CASE Crash
  <2>1. NoRequest \in Incoming
    BY MonthZero DEF NoRequest, Incoming
  <2>2. <<>> \in Seq(ScopeSet) /\ NoRequest.month = 0
    BY DEF NoRequest
  <2> QED BY <1>1, <1>2, <2>1, <2>2 DEF Crash, Carried, Labels
<1>3. CASE NextMonth \/ UNCHANGED vars
  <2>1. UNCHANGED <<pc, req, due, unchecked, bill>>
    BY <1>3 DEF NextMonth, vars, local
  <2>2. ASSUME NEW q \in Requests PROVE Carried(q)'
    <3>1. Carried(q)
      BY DEF CarryInv
    <3>2. /\ bill[q].month <= month => bill'[q].month <= month'
          /\ req[q].month <= month => req'[q].month <= month'
      <4>1. \A a, b, c \in Nat : a <= b /\ b <= c => a <= c
        OBVIOUS
      <4> QED BY <1>1, <2>1, <4>1
    <3> QED BY <2>1, <3>1, <3>2 DEF Carried, Whole, Relevant
  <2> QED BY <2>2
<1> QED BY <1>2, <1>3

\* The counters of faults and restarts stay within their bounds.
LEMMA CountersStep ==
  ASSUME CarryInv, [Next]_vars
  PROVE  /\ crashes' \in 0..MaxCrashes /\ faults' \in 0..MaxFaults
         /\ \/ faults' = faults
            \/ faults' = faults + 1
<1>1. /\ crashes \in 0..MaxCrashes /\ faults \in 0..MaxFaults
      /\ MaxCrashes \in Nat /\ MaxFaults \in Nat
  BY BoundAssumption DEF CarryInv
<1>2. \/ faults' = faults
      \/ faults < MaxFaults /\ faults' = faults + 1
  BY DEF Next, Step, Arrive, Monthly, MonthlyFailed, AlertKnown, AlertNew,
         LookupFailed, Send, SendFailed, Mark, MarkFailed, ScopeOpen, Refuse,
         CheckFailed, Answer, Unbilled, Save, SaveFailed, Crash, NextMonth, Fault,
         vars
<1>3. \/ crashes' = crashes
      \/ crashes < MaxCrashes /\ crashes' = crashes + 1
  BY DEF Next, Step, Arrive, Monthly, MonthlyFailed, AlertKnown, AlertNew,
         LookupFailed, Send, SendFailed, Mark, MarkFailed, ScopeOpen, Refuse,
         CheckFailed, Answer, Unbilled, Save, SaveFailed, Crash, NextMonth, vars
<1> QED BY <1>1, <1>2, <1>3

LEMMA FunctionalStep ==
  ASSUME CarryInv, [Next]_vars
  PROVE  Functional'
<1>1. ASSUME NEW r \in Requests, NEW x, pc' = [pc EXCEPT ![r] = x]
      PROVE  pc' = [q \in Requests |-> pc'[q]]
  BY <1>1 DEF CarryInv, Functional
<1>2. ASSUME NEW r \in Requests, NEW x, req' = [req EXCEPT ![r] = x]
      PROVE  req' = [q \in Requests |-> req'[q]]
  BY <1>2 DEF CarryInv, Functional
<1>3. ASSUME NEW r \in Requests,
             Step(r) \/ \E kind \in Kinds, tags \in TagSets : Arrive(r, kind, tags)
      PROVE  /\ \E x : pc' = [pc EXCEPT ![r] = x]
             /\ req' = req \/ \E x : req' = [req EXCEPT ![r] = x]
  <2>1. Finish(r) => /\ \E x : pc' = [pc EXCEPT ![r] = x]
                     /\ req' = req \/ \E x : req' = [req EXCEPT ![r] = x]
    BY DEF Finish, Goto
  <2>2. NextAlert(r) => /\ \E x : pc' = [pc EXCEPT ![r] = x]
                        /\ req' = req \/ \E x : req' = [req EXCEPT ![r] = x]
    BY <2>1 DEF NextAlert, Goto
  <2> QED BY <1>3, <2>1, <2>2
          DEF Step, Arrive, Monthly, MonthlyFailed, AlertKnown, AlertNew,
              LookupFailed, Send, SendFailed, Mark, MarkFailed, ScopeOpen, Refuse,
              CheckFailed, Answer, Unbilled, Save, SaveFailed, Goto, local
<1>4. CASE Crash \/ NextMonth \/ UNCHANGED vars
  BY <1>4 DEF Crash, NextMonth, vars, local, CarryInv, Functional
<1> QED BY <1>1, <1>2, <1>3, <1>4 DEF Next, CarryInv, Functional

LEMMA CarryStep == CarryInv /\ [Next]_vars => CarryInv'
<1> SUFFICES ASSUME CarryInv, [Next]_vars PROVE CarryInv'
  OBVIOUS
<1>1. IInv /\ IInv'
  BY NextInv DEF CarryInv
<1>2. ASSUME NEW r \in Requests,
             Step(r) \/ \E kind \in Kinds, tags \in TagSets : Arrive(r, kind, tags)
      PROVE  \A q \in Requests : Carried(q)'
  BY <1>1, <1>2, StepShape, CarriedStep
<1>3. \A q \in Requests : Carried(q)'
  BY <1>2, CarriedOutside DEF Next
<1> QED BY <1>1, <1>3, CountersStep, FunctionalStep DEF CarryInv

LEMMA CarryInit == Init => CarryInv
<1> SUFFICES ASSUME Init PROVE CarryInv
  OBVIOUS
<1>1. NoRequest \in Incoming /\ <<>> \in Seq(ScopeSet) /\ NoRequest.month = 0
  BY MonthZero DEF NoRequest, Incoming
<1>2. \A r \in Requests : Carried(r)
  BY <1>1 DEF Init, Carried, Labels
<1>3. crashes \in 0..MaxCrashes /\ faults \in 0..MaxFaults
  BY BoundAssumption DEF Init
<1>4. Functional
  BY DEF Init, Functional
<1> QED BY <1>2, <1>3, <1>4, InitInv DEF CarryInv

LEMMA SpecCarry == Spec => []CarryInv
BY CarryInit, CarryStep, PTL DEF Spec

\* Every variable of SpendGate stays within its type; in particular a request at
\* the request check has a scope to check, and one at an alert has an alert.
THEOREM TypeCorrect == Spec => []TypeOK
<1>1. CarryInv => TypeOK
  <2> SUFFICES ASSUME CarryInv PROVE TypeOK
    OBVIOUS
  <2>1. pc \in [Requests -> Labels] /\ req \in [Requests -> Incoming]
    BY DEF CarryInv, Functional, Carried
  <2>2. ASSUME NEW r \in Requests
        PROVE  /\ due[r] \in Seq(Thresholds \cup {"agent"})
               /\ unchecked[r] \in Seq(ScopeSet)
               /\ pc[r] \in {"alert", "send", "mark"} => due[r] # <<>>
               /\ pc[r] = "check" => unchecked[r] # <<>>
    BY DEF CarryInv, IInv, Announces, Carried, Alerts
  <2> QED BY <2>1, <2>2 DEF CarryInv, IInv, Typed, Shared, Locals, Labels, Incoming,
                            ScopeSet, Alerts, TypeOK
<1> QED BY <1>1, SpecCarry, PTL

-----------------------------------------------------------------------------
(***************************************************************************)
(* The overshoot.  For every scope and every month that has come, count    *)
(* the requests that may still add to it without checking it again.  What  *)
(* is spent, together with the price of an answer for each of them, stays  *)
(* below the limit and the price of an answer for every slot: a request is *)
(* counted only from the moment a check finds money left, and then all the *)
(* slots together are within the bound.                                    *)
(***************************************************************************)
C == MostExpensive
Slots == Cardinality(Requests)

MayCost(r, m, s) ==
  /\ req[r].kind = "chat" /\ s \in Relevant(r)
  /\ \/ pc[r] = "save" /\ bill[r].month = m
     \/ /\ pc[r] \notin {"idle", "save"} /\ m = month
        /\ \/ req[r].month < m
           \/ pc[r] = "upstream"
           \/ pc[r] = "check" /\ s \notin Range(unchecked[r])

InFlight(m, s) == {r \in Requests : MayCost(r, m, s)}

Within(m, s) ==
  /\ m > month => spend[m][s] = 0
  /\ m <= month => spend[m][s] + C * Cardinality(InFlight(m, s))
                     < Limit[s] + C * Slots

OvershootInv == /\ CarryInv
                /\ \A m \in Months, s \in ScopeSet : Limit[s] > 0 => Within(m, s)

LEMMA PriceOfAnAnswer == C \in Nat /\ \A cost \in Costs \cup {0} : cost <= C
<1>1. PICK c \in Costs : \A d \in Costs : d <= c
  BY CostAssumption
<1>2. C \in Costs /\ \A d \in Costs : d <= C
  BY <1>1 DEF C, MostExpensive
<1> QED BY <1>2, CostAssumption

LEMMA LimitIsNat == \A s \in ScopeSet : Limit[s] \in Nat
BY LimitAssumption DEF ScopeSet

\* How the cardinality of a finite set changes by one.
LEMMA Fewer ==
  ASSUME NEW S, IsFiniteSet(S), NEW T, T \subseteq S
  PROVE  /\ IsFiniteSet(T) /\ Cardinality(T) \in Nat /\ Cardinality(S) \in Nat
         /\ Cardinality(T) <= Cardinality(S)
<1>1. T \in SUBSET S
  OBVIOUS
<1>2. IsFiniteSet(T) /\ Cardinality(T) <= Cardinality(S)
  BY <1>1, FS_Subset
<1> QED BY <1>2, FS_CardinalityType

LEMMA OneLess ==
  ASSUME NEW S, IsFiniteSet(S), NEW x \in S, NEW T, T \subseteq S \ {x}
  PROVE  /\ IsFiniteSet(T) /\ Cardinality(T) \in Nat /\ Cardinality(S) \in Nat
         /\ Cardinality(T) + 1 <= Cardinality(S)
<1>1. IsFiniteSet(S \ {x}) /\ Cardinality(S \ {x}) = Cardinality(S) - 1
  BY FS_RemoveElement
<1>2. Cardinality(S) \in Nat
  BY FS_CardinalityType
<1>3. /\ IsFiniteSet(T) /\ Cardinality(T) \in Nat
      /\ Cardinality(T) <= Cardinality(S \ {x})
  BY <1>1, Fewer
<1> QED BY <1>1, <1>2, <1>3

LEMMA FiniteInFlight ==
  ASSUME NEW m, NEW s
  PROVE  /\ IsFiniteSet(InFlight(m, s)) /\ Cardinality(InFlight(m, s)) \in Nat
         /\ Slots \in Nat /\ Cardinality(InFlight(m, s)) <= Slots
<1>1. InFlight(m, s) \subseteq Requests
  BY DEF InFlight
<1> QED BY <1>1, SlotAssumption, Fewer DEF Slots

LEMMA FiniteInFlightNext ==
  ASSUME NEW m, NEW s
  PROVE  /\ IsFiniteSet(InFlight(m, s)') /\ Cardinality(InFlight(m, s)') \in Nat
         /\ Slots \in Nat /\ Cardinality(InFlight(m, s)') <= Slots
<1>1. InFlight(m, s)' \subseteq Requests
  BY DEF InFlight
<1> QED BY <1>1, SlotAssumption, Fewer DEF Slots

LEMMA Times ==
  \A a, b \in Nat : a <= b =>
    /\ C * a \in Nat /\ C * b \in Nat /\ C * a <= C * b
    /\ C * (a + 1) = C * a + C
<1> SUFFICES ASSUME NEW a \in Nat, NEW b \in Nat, a <= b
             PROVE  /\ C * a \in Nat /\ C * b \in Nat /\ C * a <= C * b
                    /\ C * (a + 1) = C * a + C
  OBVIOUS
<1>1. PICK d \in Nat : b = a + d
  <2>1. b - a \in Nat /\ b = a + (b - a)
    OBVIOUS
  <2> QED BY <2>1
<1>2. PICK c \in Nat : c = C
  BY PriceOfAnAnswer
<1>3. c * a \in Nat /\ c * b \in Nat /\ c * d \in Nat
  OBVIOUS
<1>4. c * b = c * a + c * d /\ c * (a + 1) = c * a + c
  BY <1>1
<1> QED BY <1>2, <1>3, <1>4

\* Below the limit there is room for an answer to every request.
LEMMA Room ==
  ASSUME NEW m \in Months, NEW s \in ScopeSet, spend'[m][s] \in Nat,
         m <= month', spend'[m][s] < Limit[s], month' \in Nat
  PROVE  Within(m, s)'
<1>1. C * Cardinality(InFlight(m, s)') <= C * Slots
      /\ C * Cardinality(InFlight(m, s)') \in Nat /\ C * Slots \in Nat
  BY FiniteInFlightNext, Times
<1>2. spend'[m][s] + C * Cardinality(InFlight(m, s)') < Limit[s] + C * Slots
  BY <1>1, LimitIsNat
<1>3. m \in Nat
  BY BoundAssumption DEF Months
<1> QED BY <1>2, <1>3 DEF Within, Slots, C

\* With fewer in flight and nothing spent, the bound stays.
LEMMA FewerStay ==
  ASSUME NEW m \in Months, NEW s \in ScopeSet, spend[m][s] \in Nat,
         spend'[m][s] = spend[m][s], m <= month, month' \in Nat, month \in Nat,
         month <= month', Within(m, s), InFlight(m, s)' \subseteq InFlight(m, s)
  PROVE  Within(m, s)'
<1>1. Cardinality(InFlight(m, s)') <= Cardinality(InFlight(m, s))
      /\ Cardinality(InFlight(m, s)') \in Nat /\ Cardinality(InFlight(m, s)) \in Nat
      /\ Slots \in Nat
  BY FiniteInFlight, Fewer
<1>2. /\ C * Cardinality(InFlight(m, s)') <= C * Cardinality(InFlight(m, s))
      /\ C * Cardinality(InFlight(m, s)') \in Nat
      /\ C * Cardinality(InFlight(m, s)) \in Nat
  BY <1>1, Times
<1>3. C * Slots \in Nat
  BY <1>1, Times
<1>4. spend[m][s] + C * Cardinality(InFlight(m, s)) < Limit[s] + C * Slots
  BY DEF Within
<1>5. spend'[m][s] + C * Cardinality(InFlight(m, s)') < Limit[s] + C * Slots
  BY <1>2, <1>3, <1>4, LimitIsNat
<1>6. m \in Nat /\ ~(m > month')
  BY BoundAssumption DEF Months
<1> QED BY <1>5, <1>6 DEF Within, Slots, C

\* Whoever may cost after a step of the handlers might before, or has just found
\* money left.
LEMMA MayCostStep ==
  ASSUME CarryInv, NEW r \in Requests, Shape(r), month' = month,
         NEW m \in Months, NEW s \in ScopeSet, Limit[s] > 0, MayCost(r, m, s)'
  PROVE  \/ MayCost(r, m, s)
         \/ m = month /\ spend[m][s] < Limit[s]
<1>1. Carried(r) /\ month \in Months /\ month \in Nat
  BY BoundAssumption DEF CarryInv, IInv, Typed, Shared, Months
<1>2. ~Returns(r)
  BY DEF MayCost, Returns
<1>3. CASE Comes(r)
  <2>1. PICK kind \in Kinds, tags \in TagSets :
          /\ req'[r] = [kind |-> kind, tags |-> tags, month |-> month]
          /\ pc'[r] = CASE kind = "chat"  -> "monthly"
                        [] kind = "media" -> "check"
                        [] OTHER          -> "upstream"
    BY <1>3 DEF Comes
  <2>2. kind = "chat" /\ pc'[r] = "monthly" /\ req'[r].month = month
    BY <2>1 DEF MayCost
  <2> QED BY <1>1, <2>2 DEF MayCost
<1>4. CASE TurnsTo(r)
  <2>1. pc'[r] = "check" => Whole(r)
    BY <1>1, <1>4 DEF TurnsTo, Carried
  <2> QED BY <1>4, <2>1 DEF TurnsTo, MayCost, Relevant, Whole
<1>5. CASE Passes(r)
  <2>1. unchecked[r] \in Seq(ScopeSet) /\ unchecked[r] # <<>>
    BY <1>1, <1>5 DEF Passes, Carried
  <2>2. /\ Range(unchecked[r]) \subseteq
             {Head(unchecked[r])} \cup Range(Tail(unchecked[r]))
        /\ Tail(unchecked[r]) \in Seq(ScopeSet)
        /\ Len(Tail(unchecked[r])) = Len(unchecked[r]) - 1
        /\ Len(unchecked[r]) \in Nat
    BY <2>1, TailRange
  <2>3. Len(unchecked[r]) = 1 => Range(Tail(unchecked[r])) = {}
    <3>1. ASSUME Len(unchecked[r]) = 1 PROVE Tail(unchecked[r]) = <<>>
      <4>1. Len(Tail(unchecked[r])) = 0
        BY <2>2, <3>1
      <4> QED BY <2>2, <4>1, EmptySeq
    <3> QED BY <3>1, RangeOfNone
  <2>4. m = month /\ pc[r] = "check" /\ req'[r] = req[r]
    BY <1>5 DEF Passes, MayCost
  <2>5. CASE req[r].month < m \/ s \notin Range(unchecked[r])
    BY <2>4, <2>5 DEF MayCost, Relevant
  <2>6. CASE ~(req[r].month < m) /\ s \in Range(unchecked[r])
    <3>1. s \notin Range(Tail(unchecked[r]))
      BY <1>5, <2>3, <2>4, <2>6 DEF Passes, MayCost
    <3>2. s = Head(unchecked[r])
      BY <2>2, <2>6, <3>1
    <3>3. ~Exceeded(s, req[r].month)
      BY <1>5, <3>2 DEF Passes
    <3>4. req[r].month = m
      <4>1. req[r].month \in Nat /\ req[r].month <= month
        BY <1>1, BoundAssumption DEF Carried, Incoming, Months
      <4> QED BY <1>1, <2>4, <2>6, <4>1
    <3>5. spend[m][s] \in Nat /\ Limit[s] \in Nat
      BY LimitIsNat DEF CarryInv, IInv, Typed, Shared
    <3> QED BY <2>4, <3>3, <3>4, <3>5 DEF Exceeded
  <2> QED BY <2>5, <2>6
<1>6. CASE Refuses(r)
  BY <1>6 DEF Refuses, MayCost, Relevant
<1>7. CASE Answers(r)
  BY <1>7 DEF Answers, MayCost, Relevant
<1> QED BY <1>2, <1>3, <1>4, <1>5, <1>6, <1>7 DEF Shape

\* What the invariant says of one month and scope.
LEMMA Known ==
  ASSUME OvershootInv, NEW m \in Months, NEW s \in ScopeSet
  PROVE  /\ CarryInv /\ Typed /\ month \in Nat /\ m \in Nat
         /\ spend[m][s] \in Nat /\ Limit[s] \in Nat
         /\ \A r \in Requests : Carried(r)
         /\ Limit[s] > 0 => Within(m, s)
<1>1. CarryInv /\ Typed /\ \A r \in Requests : Carried(r)
  BY DEF OvershootInv, CarryInv, IInv
<1>2. Limit[s] > 0 => Within(m, s)
  BY DEF OvershootInv
<1>3. /\ month \in Months
      /\ spend \in [Months -> [ScopeSet -> Nat]]
  BY <1>1 DEF Typed, Shared
<1>4. month \in Nat /\ m \in Nat
  BY <1>3, BoundAssumption DEF Months
<1> QED BY <1>1, <1>2, <1>3, <1>4, LimitIsNat

\* A step that spends nothing.
LEMMA UnspentStep ==
  ASSUME OvershootInv, CarryInv', NEW r \in Requests, Alone(r), Shape(r),
         month' = month, spend' = spend,
         NEW m \in Months, NEW s \in ScopeSet, Limit[s] > 0
  PROVE  Within(m, s)'
<1>1. /\ month \in Nat /\ m \in Nat /\ spend[m][s] \in Nat /\ CarryInv
      /\ Within(m, s)
  BY Known
<1>2. CASE m > month
  BY <1>1, <1>2 DEF Within
<1>3. CASE m <= month /\ spend[m][s] < Limit[s]
  BY <1>1, <1>3, Room
<1>4. CASE m <= month /\ ~(spend[m][s] < Limit[s])
  <2>1. ASSUME NEW q \in Requests, MayCost(q, m, s)' PROVE MayCost(q, m, s)
    <3>1. CASE q = r
      BY <1>1, <1>4, <2>1, <3>1, MayCostStep
    <3>2. CASE q # r
      BY <2>1, <3>2 DEF Alone, MayCost, Relevant
    <3> QED BY <3>1, <3>2
  <2>2. InFlight(m, s)' \subseteq InFlight(m, s)
    BY <2>1 DEF InFlight
  <2> QED BY <1>1, <1>4, <2>2, FewerStay
<1> QED BY <1>1, <1>2, <1>3, <1>4

\* A record is saved: what is spent now was allowed for.
LEMMA SaveStep ==
  ASSUME OvershootInv, CarryInv', NEW r \in Requests, Save(r),
         NEW m \in Months, NEW s \in ScopeSet, Limit[s] > 0
  PROVE  Within(m, s)'
<1>1. /\ month \in Nat /\ m \in Nat /\ spend[m][s] \in Nat /\ CarryInv /\ Typed
      /\ Within(m, s) /\ Carried(r) /\ spend'[m][s] \in Nat
  <2>1. spend' \in [Months -> [ScopeSet -> Nat]]
    BY DEF CarryInv, IInv, Typed, Shared
  <2> QED BY <2>1, Known
<1>2. PICK n \in Months, c \in Nat : n = bill[r].month /\ c = bill[r].cost
  BY <1>1 DEF Typed, Locals
<1>3. /\ pc[r] = "save" /\ Finish(r) /\ month' = month
      /\ spend' = [spend EXCEPT ![n] = [x \in ScopeSet |->
           @[x] + IF x = "global" \/ x \in req[r].tags THEN c ELSE 0]]
  BY <1>2 DEF Save, ScopeSet
<1>4. spend'[m][s] = IF m = n /\ s \in Relevant(r) THEN spend[m][s] + c
                     ELSE spend[m][s]
  <2>1. spend \in [Months -> [ScopeSet -> Nat]]
    BY <1>1 DEF Typed, Shared
  <2> QED BY <1>1, <1>3, <2>1 DEF Relevant
<1>5. /\ n <= month /\ c \in Costs \cup {0} /\ c <= C
      /\ req[r].kind # "chat" => c = 0
  BY <1>1, <1>2, <1>3, PriceOfAnAnswer DEF Carried
<1>6. InFlight(m, s)' \subseteq InFlight(m, s) \ {r}
  <2>1. Alone(r) /\ pc'[r] = "idle"
    BY <1>1, <1>3, FinishAlone
  <2> QED BY <1>3, <2>1 DEF InFlight, MayCost, Alone, Relevant
<1>7. CASE m > month
  BY <1>1, <1>2, <1>3, <1>4, <1>5, <1>7 DEF Within, Months
<1>8. CASE m <= month /\ spend'[m][s] = spend[m][s]
  BY <1>1, <1>3, <1>6, <1>8, FewerStay
<1>9. CASE m <= month /\ spend'[m][s] # spend[m][s]
  <2>1. /\ m = n /\ s \in Relevant(r) /\ spend'[m][s] = spend[m][s] + c
        /\ req[r].kind = "chat"
    BY <1>1, <1>4, <1>5, <1>9
  <2>2. r \in InFlight(m, s)
    BY <1>2, <1>3, <2>1 DEF InFlight, MayCost
  <2>3. /\ Cardinality(InFlight(m, s)') + 1 <= Cardinality(InFlight(m, s))
        /\ Cardinality(InFlight(m, s)') \in Nat
        /\ Cardinality(InFlight(m, s)) \in Nat
        /\ Slots \in Nat
    BY <1>6, <2>2, FiniteInFlight, OneLess
  <2>4. PICK a, b \in Nat : /\ a = Cardinality(InFlight(m, s)')
                            /\ b = Cardinality(InFlight(m, s)) /\ a + 1 <= b
    BY <2>3
  <2>5. C * (a + 1) <= C * b /\ C * (a + 1) = C * a + C
        /\ C * a \in Nat /\ C * b \in Nat
    <3>1. a + 1 \in Nat /\ a <= a + 1
      OBVIOUS
    <3> QED BY <2>4, <3>1, Times
  <2>6. C \in Nat /\ C * Slots \in Nat /\ Limit[s] \in Nat
    BY <2>3, PriceOfAnAnswer, Times, LimitIsNat
  <2>7. spend[m][s] + C * b < Limit[s] + C * Slots
    BY <1>1, <1>9, <2>4 DEF Within
  <2>8. spend'[m][s] + C * a < Limit[s] + C * Slots
    BY <1>1, <1>5, <2>1, <2>5, <2>6, <2>7
  <2> QED BY <1>1, <1>3, <1>9, <2>4, <2>8 DEF Within, Slots, C
<1> QED BY <1>1, <1>7, <1>8, <1>9

\* A restart forgets the requests; a new month begins with nothing spent.
LEMMA OvershootOutside ==
  ASSUME OvershootInv, CarryInv', Crash \/ NextMonth \/ UNCHANGED vars,
         NEW m \in Months, NEW s \in ScopeSet, Limit[s] > 0
  PROVE  Within(m, s)'
<1>1. /\ month \in Nat /\ month' \in Nat /\ m \in Nat /\ month <= month'
      /\ spend[m][s] \in Nat /\ CarryInv /\ Within(m, s) /\ spend' = spend
      /\ Limit[s] \in Nat
  <2>1. spend' = spend /\ (month' = month \/ month' = month + 1)
    BY DEF Crash, NextMonth, vars, database
  <2> QED BY <2>1, Known
<1>2. CASE m > month /\ m > month'
  BY <1>1, <1>2 DEF Within
<1>3. CASE m > month /\ ~(m > month')
  BY <1>1, <1>3, Room DEF Within
<1>4. CASE m <= month
  <2>1. InFlight(m, s)' \subseteq InFlight(m, s)
    <3>1. CASE Crash
      BY <3>1 DEF Crash, InFlight, MayCost
    <3>2. CASE NextMonth
      BY <1>1, <1>4, <3>2 DEF NextMonth, local, InFlight, MayCost, Relevant
    <3>3. CASE UNCHANGED vars
      BY <3>3 DEF vars, local, InFlight, MayCost, Relevant
    <3> QED BY <3>1, <3>2, <3>3
  <2> QED BY <1>1, <1>4, <2>1, FewerStay
<1> QED BY <1>1, <1>2, <1>3, <1>4

LEMMA OvershootStep == OvershootInv /\ [Next]_vars => OvershootInv'
<1> SUFFICES ASSUME OvershootInv, [Next]_vars PROVE OvershootInv'
  OBVIOUS
<1>1. CarryInv /\ CarryInv'
  BY CarryStep DEF OvershootInv
<1>2. ASSUME NEW m \in Months, NEW s \in ScopeSet, Limit[s] > 0
      PROVE  Within(m, s)'
  <2>1. ASSUME NEW r \in Requests, Step(r) \/
                 \E kind \in Kinds, tags \in TagSets : Arrive(r, kind, tags),
               ~Save(r)
        PROVE  Within(m, s)'
    <3>1. spend' = spend
      BY <2>1 DEF Step, Arrive, Monthly, MonthlyFailed, AlertKnown, AlertNew,
         LookupFailed, Send, SendFailed, Mark, MarkFailed, ScopeOpen, Refuse,
         CheckFailed, Answer, Unbilled, SaveFailed, database
    <3>2. Alone(r) /\ Shape(r) /\ month' = month
      BY <1>1, <2>1, StepShape DEF CarryInv
    <3> QED BY <1>1, <1>2, <3>1, <3>2, UnspentStep
  <2>2. ASSUME NEW r \in Requests, Save(r) PROVE Within(m, s)'
    BY <1>1, <1>2, <2>2, SaveStep
  <2>3. CASE Crash \/ NextMonth \/ UNCHANGED vars
    BY <1>1, <1>2, <2>3, OvershootOutside
  <2> QED BY <2>1, <2>2, <2>3 DEF Next
<1> QED BY <1>1, <1>2 DEF OvershootInv

LEMMA SpecOvershoot == Spec => []OvershootInv
<1>1. Init => OvershootInv
  <2> SUFFICES ASSUME Init PROVE OvershootInv
    OBVIOUS
  <2>1. CarryInv
    BY CarryInit
  <2>2. ASSUME NEW m \in Months, NEW s \in ScopeSet, Limit[s] > 0
        PROVE  Within(m, s)
    <3>1. spend[m][s] = 0 /\ month = 0 /\ m \in Nat
      BY <2>2, BoundAssumption DEF Init, ScopeSet, Months
    <3>2. PICK n \in Nat : n = Cardinality(InFlight(m, s)) /\ n <= Slots
      BY FiniteInFlight
    <3>3. C * n \in Nat /\ C * Slots \in Nat /\ C * n <= C * Slots
      BY <3>2, FiniteInFlight, Times
    <3>4. 0 + C * n < Limit[s] + C * Slots
      BY <2>2, <3>3, LimitIsNat
    <3> QED BY <3>1, <3>2, <3>4 DEF Within
  <2> QED BY <2>1, <2>2 DEF OvershootInv
<1> QED BY <1>1, OvershootStep, PTL DEF Spec

\* No budget is overshot by more than the most expensive answer for each request
\* that may be in flight: whatever reads and saves interleave, across the turn of
\* the month too (CheckRequestBudget reads, meterResponse saves).
THEOREM OvershootAlwaysBounded == Spec => []OvershootBounded
<1>1. OvershootInv => OvershootBounded
  <2> SUFFICES ASSUME OvershootInv, NEW m \in Months, NEW s \in ScopeSet,
                      Limit[s] > 0
               PROVE  spend[m][s] < Limit[s] + Slots * C
    BY DEF OvershootBounded, ScopeSet, Slots, C
  <2>1. /\ Within(m, s) /\ spend[m][s] \in Nat /\ m \in Nat /\ month \in Nat
        /\ Limit[s] \in Nat
    BY BoundAssumption, LimitIsNat
       DEF OvershootInv, CarryInv, IInv, Typed, Shared, Months
  <2>2. PICK n \in Nat : n = Cardinality(InFlight(m, s)) /\ Slots \in Nat
    BY FiniteInFlight
  <2>3. C * n \in Nat /\ C * Slots \in Nat /\ C * Slots = Slots * C
    <3>1. \A a, b \in Nat : a * b = b * a
      OBVIOUS
    <3> QED BY <2>2, <3>1, Times, PriceOfAnAnswer
  <2>4. \/ spend[m][s] = 0
        \/ spend[m][s] + C * n < Limit[s] + C * Slots
    BY <2>1, <2>2 DEF Within
  <2> QED BY <2>1, <2>3, <2>4
<1> QED BY <1>1, SpecOvershoot, PTL

-----------------------------------------------------------------------------
(***************************************************************************)
(* The duplicates.  As long as an alert has no row, every e-mail about it  *)
(* is one that a request is about to file, one whose request was cut off   *)
(* by a restart, or one that failed.  Once it has a row no request starts  *)
(* another: what was delivered and what is being sent fits the requests    *)
(* that were at the alert when it was filed.                               *)
(***************************************************************************)
AtAlert(r, label, m, t) == pc[r] = label /\ req[r].month = m /\ Head(due[r]) = t

Sending(m, t) == {r \in Requests : AtAlert(r, "send", m, t)}
Marking(m, t) == {r \in Requests : AtAlert(r, "mark", m, t)}

Accounted(m, t) ==
  IF <<m, t>> \in sent
  THEN delivered[m][t] + Cardinality(Sending(m, t))
         <= Slots + Slots * crashes + faults
  ELSE delivered[m][t] <= Cardinality(Marking(m, t)) + Slots * crashes + faults

DuplicateInv == /\ CarryInv
                /\ \A m \in Months, t \in Thresholds : Accounted(m, t)

LEMMA Multiples ==
  \A a, b \in Nat : /\ a * b \in Nat /\ a * 0 = 0
                    /\ a * (1 + b) = a + a * b /\ a * (b + 1) = a * b + a
OBVIOUS

LEMMA Counts ==
  ASSUME CarryInv, NEW m \in Months, NEW t \in Thresholds
  PROVE  /\ delivered[m][t] \in Nat /\ crashes \in Nat /\ faults \in Nat
         /\ Slots \in Nat /\ Slots * crashes \in Nat
<1>1. delivered \in [Months -> [Thresholds -> Nat]]
  BY DEF CarryInv, IInv, Typed, Shared
<1>2. crashes \in Nat /\ faults \in Nat
  BY BoundAssumption DEF CarryInv
<1>3. Slots \in Nat
  BY SlotAssumption, FS_CardinalityType DEF Slots
<1> QED BY <1>1, <1>2, <1>3, Multiples

\* Two separate groups of requests are together no more than all of them.
LEMMA Disjoint ==
  ASSUME NEW A, A \subseteq Requests, NEW B, B \subseteq Requests, A \cap B = {}
  PROVE  /\ IsFiniteSet(A) /\ IsFiniteSet(B)
         /\ Cardinality(A) \in Nat /\ Cardinality(B) \in Nat
         /\ Cardinality(A) + Cardinality(B) <= Slots
<1>1. /\ IsFiniteSet(A) /\ Cardinality(A) \in Nat
      /\ IsFiniteSet(B) /\ Cardinality(B) \in Nat
  BY SlotAssumption, Fewer
<1>2. /\ IsFiniteSet(A \cup B)
      /\ Cardinality(A \cup B) = Cardinality(A) + Cardinality(B)
                                 - Cardinality(A \cap B)
  BY <1>1, FS_Union
<1>3. Cardinality(A \cap B) = 0
  BY FS_EmptySet
<1>4. A \cup B \subseteq Requests
  OBVIOUS
<1>5. Cardinality(A \cup B) <= Slots
  BY <1>4, SlotAssumption, Fewer DEF Slots
<1> QED BY <1>1, <1>2, <1>3, <1>5

\* What a step of r does to the account of an alert: nothing that matters, ...
Unmoved(r, m, t) ==
  /\ delivered'[m][t] = delivered[m][t]
  /\ <<m, t>> \in sent' <=> <<m, t>> \in sent
  /\ \/ faults' = faults
     \/ faults' = faults + 1
  /\ <<m, t>> \in sent => ~AtAlert(r, "send", m, t)' \/ AtAlert(r, "send", m, t)
  /\ <<m, t>> \notin sent => \/ faults' = faults + 1
                             \/ ~AtAlert(r, "mark", m, t)
                             \/ AtAlert(r, "mark", m, t)'

\* ... an e-mail that is now to be filed, ...
Mailed(r, m, t) ==
  /\ delivered'[m][t] = delivered[m][t] + 1 /\ sent' = sent /\ faults' = faults
  /\ AtAlert(r, "send", m, t) /\ AtAlert(r, "mark", m, t)'

\* ... one whose sending failed, ...
Failed(r, m, t) ==
  /\ delivered'[m][t] \in {delivered[m][t], delivered[m][t] + 1}
  /\ sent' = sent /\ faults' = faults + 1
  /\ AtAlert(r, "send", m, t) /\ ~AtAlert(r, "send", m, t)'

\* ... or the first row.
Filed(r, m, t) ==
  /\ delivered'[m][t] = delivered[m][t] /\ faults' = faults
  /\ <<m, t>> \notin sent /\ <<m, t>> \in sent'
  /\ AtAlert(r, "mark", m, t) /\ ~AtAlert(r, "send", m, t)'

Effect(r, m, t) == \/ Unmoved(r, m, t) \/ Mailed(r, m, t)
                   \/ Failed(r, m, t) \/ Filed(r, m, t)

LEMMA AccountedStep ==
  ASSUME CarryInv, CarryInv', NEW r \in Requests, Alone(r), crashes' = crashes,
         NEW m \in Months, NEW t \in Thresholds, Effect(r, m, t), Accounted(m, t)
  PROVE  Accounted(m, t)'
<1> DEFINE S == Sending(m, t)
           M == Marking(m, t)
           S1 == Sending(m, t)'
           M1 == Marking(m, t)'
<1>1. /\ S \subseteq Requests /\ M \subseteq Requests /\ S \cap M = {}
      /\ S1 \subseteq Requests /\ M1 \subseteq Requests /\ S1 \cap M1 = {}
  BY DEF Sending, Marking, AtAlert
<1>2. /\ S1 \ {r} = S \ {r} /\ M1 \ {r} = M \ {r}
  BY DEF Sending, Marking, AtAlert, Alone
<1>3. /\ r \in S <=> AtAlert(r, "send", m, t)
      /\ r \in M <=> AtAlert(r, "mark", m, t)
      /\ r \in S1 <=> AtAlert(r, "send", m, t)'
      /\ r \in M1 <=> AtAlert(r, "mark", m, t)'
  BY DEF Sending, Marking
<1>4. /\ IsFiniteSet(S) /\ IsFiniteSet(M) /\ IsFiniteSet(S1) /\ IsFiniteSet(M1)
  BY <1>1, SlotAssumption, Fewer
<1>5. PICK d \in Nat, d1 \in Nat, k \in Nat, n \in Nat, f \in Nat, f1 \in Nat :
        /\ d = delivered[m][t] /\ d1 = delivered'[m][t] /\ f = faults
        /\ f1 = faults' /\ n = Slots /\ k = Slots * crashes
  <2>1. delivered'[m][t] \in Nat /\ faults' \in Nat
    <3>1. delivered' \in [Months -> [Thresholds -> Nat]]
      BY DEF CarryInv, IInv, Typed, Shared
    <3>2. faults' \in Nat
      BY BoundAssumption DEF CarryInv
    <3> QED BY <3>1, <3>2
  <2> QED BY <2>1, Counts
<1>6. PICK s \in Nat, s1 \in Nat, c \in Nat, c1 \in Nat :
        /\ s = Cardinality(S) /\ s1 = Cardinality(S1)
        /\ c = Cardinality(M) /\ c1 = Cardinality(M1)
  BY <1>4, FS_CardinalityType
<1>7. /\ <<m, t>> \in sent => d + s <= n + k + f
      /\ <<m, t>> \notin sent => d <= c + k + f
  BY <1>5, <1>6 DEF Accounted
<1>8. SUFFICES /\ <<m, t>> \in sent' => d1 + s1 <= n + k + f1
               /\ <<m, t>> \notin sent' => d1 <= c1 + k + f1
  BY <1>5, <1>6 DEF Accounted
<1> HIDE DEF S, M, S1, M1
<1>9. CASE Unmoved(r, m, t)
  <2>1. d1 = d /\ (f1 = f \/ f1 = f + 1)
        /\ (<<m, t>> \in sent' <=> <<m, t>> \in sent)
    BY <1>5, <1>9 DEF Unmoved
  <2>2. CASE <<m, t>> \in sent
    <3>1. S1 \subseteq S
      BY <1>2, <1>3, <1>9, <2>2 DEF Unmoved
    <3>2. s1 <= s
      BY <1>4, <1>6, <3>1, Fewer
    <3> QED BY <1>7, <2>1, <2>2, <3>2
  <2>3. CASE <<m, t>> \notin sent /\ f1 = f + 1
    <3>1. M \ {r} \subseteq M1
      BY <1>2
    <3>2. c <= c1 + 1
      <4>1. Cardinality(M \ {r}) <= c1 /\ Cardinality(M \ {r}) \in Nat
        BY <1>4, <1>6, <3>1, Fewer
      <4>2. r \notin M => M \ {r} = M
        OBVIOUS
      <4>3. r \in M => Cardinality(M \ {r}) = c - 1
        BY <1>4, <1>6, FS_RemoveElement
      <4> QED BY <1>6, <4>1, <4>2, <4>3
    <3> QED BY <1>7, <2>1, <2>3, <3>2
  <2>4. CASE <<m, t>> \notin sent /\ f1 = f
    <3>1. M \subseteq M1
      BY <1>2, <1>3, <1>5, <1>9, <2>4 DEF Unmoved
    <3>2. c <= c1
      BY <1>4, <1>6, <3>1, Fewer
    <3> QED BY <1>7, <2>1, <2>4, <3>2
  <2> QED BY <2>1, <2>2, <2>3, <2>4
<1>10. CASE Mailed(r, m, t)
  <2>1. d1 = d + 1 /\ f1 = f /\ sent' = sent
    BY <1>5, <1>10 DEF Mailed
  <2>2. r \in S /\ r \in M1 /\ r \notin S1 /\ r \notin M
    BY <1>1, <1>3, <1>10 DEF Mailed
  <2>3. S1 \subseteq S \ {r} /\ M \subseteq M1 \ {r}
    BY <1>2, <2>2
  <2>4. s1 + 1 <= s /\ c + 1 <= c1
    BY <1>4, <1>6, <2>2, <2>3, OneLess
  <2> QED BY <1>7, <2>1, <2>4
<1>11. CASE Failed(r, m, t)
  <2>1. (d1 = d \/ d1 = d + 1) /\ f1 = f + 1 /\ sent' = sent
    BY <1>5, <1>11 DEF Failed
  <2>2. r \in S /\ r \notin S1 /\ r \notin M
    BY <1>1, <1>3, <1>11 DEF Failed
  <2>3. S1 \subseteq S \ {r} /\ M \subseteq M1
    BY <1>2, <2>2
  <2>4. s1 + 1 <= s
    BY <1>4, <1>6, <2>2, <2>3, OneLess
  <2>5. c <= c1
    BY <1>4, <1>6, <2>3, Fewer
  <2> QED BY <1>7, <2>1, <2>4, <2>5
<1>12. CASE Filed(r, m, t)
  <2>1. d1 = d /\ f1 = f /\ <<m, t>> \notin sent /\ <<m, t>> \in sent'
    BY <1>5, <1>12 DEF Filed
  <2>2. S1 \cap M = {}
    BY <1>1, <1>2, <1>3, <1>12 DEF Filed
  <2>3. s1 + c <= n
    BY <1>1, <1>5, <1>6, <2>2, Disjoint
  <2> QED BY <1>7, <2>1, <2>3
<1> QED BY <1>9, <1>10, <1>11, <1>12 DEF Effect

\* The steps of a request that is not at an e-mail or a row.
LEMMA ElsewhereEffect ==
  ASSUME NEW r \in Requests, pc[r] \notin {"send", "mark"},
         pc'[r] \notin {"send", "mark"}, UNCHANGED <<sent, delivered>>,
         faults' = faults \/ faults' = faults + 1
  PROVE  \A m \in Months, t \in Thresholds : Effect(r, m, t)
BY DEF Effect, Unmoved, AtAlert

LEMMA NextAlertLeaves ==
  ASSUME CarryInv, NEW r \in Requests, NextAlert(r)
  PROVE  pc'[r] \in {"idle", "alert", "check"}
<1>1. Typed
  BY DEF CarryInv, IInv
<1> QED BY <1>1, NextAlertAlone, FinishAlone

LEMMA DeliveredOnce ==
  ASSUME CarryInv, NEW r \in Requests, Deliver(r), pc[r] = "send",
         NEW m \in Months, NEW t \in Thresholds
  PROVE  delivered'[m][t] = IF AtAlert(r, "send", m, t) THEN delivered[m][t] + 1
                            ELSE delivered[m][t]
<1>1. /\ delivered \in [Months -> [Thresholds -> Nat]]
      /\ req[r].month \in Months /\ Head(due[r]) \in Thresholds
  BY DEF CarryInv, IInv, Typed, Shared, Locals, Announces
<1> QED BY <1>1 DEF Deliver, AtAlert

LEMMA StepEffect ==
  ASSUME CarryInv, NEW r \in Requests,
         Step(r) \/ \E kind \in Kinds, tags \in TagSets : Arrive(r, kind, tags)
  PROVE  /\ crashes' = crashes
         /\ \A m \in Months, t \in Thresholds : Effect(r, m, t)
<1>1. crashes' = crashes /\ (faults' = faults \/ faults' = faults + 1)
  BY DEF Step, Arrive, Monthly, MonthlyFailed, AlertKnown, AlertNew, LookupFailed,
         Send, SendFailed, Mark, MarkFailed, ScopeOpen, Refuse, CheckFailed,
         Answer, Unbilled, Save, SaveFailed, Fault
<1>2. /\ Typed /\ IInv /\ DOMAIN pc = Requests
  BY DEF CarryInv, IInv, Typed, Locals
<1>3. CASE AlertKnown(r) \/ LookupFailed(r) \/ (AlertNew(r) /\ NextAlert(r))
  <2>1. pc'[r] \notin {"send", "mark"} /\ pc[r] = "alert"
    BY <1>3, NextAlertLeaves DEF AlertKnown, LookupFailed, AlertNew
  <2>2. UNCHANGED <<sent, delivered>>
    BY <1>3 DEF AlertKnown, LookupFailed, AlertNew, database
  <2> QED BY <1>1, <2>1, <2>2, ElsewhereEffect
<1>4. CASE AlertNew(r) /\ ~NextAlert(r)
  <2>1. /\ pc[r] = "alert" /\ Row(r) \notin sent
        /\ UNCHANGED <<sent, delivered, faults, req, due>>
    BY <1>4 DEF AlertNew, local, database
  <2>2. SUFFICES ASSUME NEW m \in Months, NEW t \in Thresholds
                 PROVE  Effect(r, m, t)
    BY <1>1
  <2>3. <<m, t>> \in sent => ~AtAlert(r, "send", m, t)'
    BY <2>1 DEF AtAlert, Row
  <2> QED BY <2>1, <2>3 DEF Effect, Unmoved, AtAlert
<1>5. CASE Send(r)
  <2>1. /\ pc[r] = "send" /\ Deliver(r) /\ pc'[r] = "mark"
        /\ UNCHANGED <<sent, faults, req, due>>
    BY <1>2, <1>5 DEF Send, Goto, local, database
  <2>2. SUFFICES ASSUME NEW m \in Months, NEW t \in Thresholds
                 PROVE  Effect(r, m, t)
    BY <1>1
  <2>3. CASE AtAlert(r, "send", m, t)
    <3>1. delivered'[m][t] = delivered[m][t] + 1
      BY <2>1, <2>3, DeliveredOnce
    <3> QED BY <2>1, <2>3, <3>1 DEF Effect, Mailed, AtAlert
  <2>4. CASE ~AtAlert(r, "send", m, t)
    <3>1. delivered'[m][t] = delivered[m][t]
      BY <2>1, <2>4, DeliveredOnce
    <3> QED BY <2>1, <2>4, <3>1 DEF Effect, Unmoved, AtAlert
  <2> QED BY <2>3, <2>4
<1>6. CASE SendFailed(r)
  <2>1. /\ pc[r] = "send" /\ faults' = faults + 1 /\ UNCHANGED sent
        /\ Deliver(r) \/ UNCHANGED delivered
    BY <1>6 DEF SendFailed, Fault, database
  <2>2. pc'[r] # "send"
    BY <1>2, <1>6, NextAlertLeaves DEF SendFailed, Goto
  <2>3. SUFFICES ASSUME NEW m \in Months, NEW t \in Thresholds
                 PROVE  Effect(r, m, t)
    BY <1>1
  <2>4. CASE AtAlert(r, "send", m, t)
    <3>1. delivered'[m][t] \in {delivered[m][t], delivered[m][t] + 1}
      BY <2>1, <2>4, DeliveredOnce
    <3> QED BY <2>1, <2>2, <2>4, <3>1 DEF Effect, Failed, AtAlert
  <2>5. CASE ~AtAlert(r, "send", m, t)
    <3>1. delivered'[m][t] = delivered[m][t]
      BY <2>1, <2>5, DeliveredOnce
    <3> QED BY <2>1, <2>2, <2>5, <3>1 DEF Effect, Unmoved, AtAlert
  <2> QED BY <2>4, <2>5
<1>7. CASE Mark(r)
  <2>1. /\ pc[r] = "mark" /\ sent' = sent \cup {Row(r)}
        /\ UNCHANGED <<delivered, faults>> /\ pc'[r] \notin {"send", "mark"}
    BY <1>7, NextAlertLeaves DEF Mark
  <2>2. SUFFICES ASSUME NEW m \in Months, NEW t \in Thresholds
                 PROVE  Effect(r, m, t)
    BY <1>1
  <2>3. CASE Row(r) = <<m, t>> /\ <<m, t>> \notin sent
    <3>1. AtAlert(r, "mark", m, t)
      BY <2>1, <2>3 DEF AtAlert, Row
    <3> QED BY <2>1, <2>3, <3>1 DEF Effect, Filed, AtAlert
  <2>4. CASE Row(r) = <<m, t>> /\ <<m, t>> \in sent
    BY <2>1, <2>4 DEF Effect, Unmoved, AtAlert
  <2>5. CASE Row(r) # <<m, t>>
    <3>1. ~AtAlert(r, "mark", m, t)
      BY <2>5 DEF AtAlert, Row
    <3> QED BY <2>1, <2>5, <3>1 DEF Effect, Unmoved, AtAlert
  <2> QED BY <2>3, <2>4, <2>5
<1>8. CASE MarkFailed(r)
  <2>1. /\ pc[r] = "mark" /\ UNCHANGED <<sent, delivered>>
        /\ faults' = faults + 1 /\ pc'[r] \notin {"send", "mark"}
    BY <1>8, NextAlertLeaves DEF MarkFailed, Fault, database
  <2> QED BY <1>1, <2>1 DEF Effect, Unmoved, AtAlert
<1>9. CASE \/ Monthly(r) \/ MonthlyFailed(r) \/ ScopeOpen(r) \/ Refuse(r)
           \/ CheckFailed(r) \/ Unbilled(r) \/ Save(r) \/ SaveFailed(r)
           \/ \E cost \in Costs \cup {0} : Answer(r, cost)
           \/ \E kind \in Kinds, tags \in TagSets : Arrive(r, kind, tags)
  <2>1. UNCHANGED <<sent, delivered>> /\ pc[r] \notin {"send", "mark"}
    BY <1>9 DEF Monthly, MonthlyFailed, ScopeOpen, Refuse, CheckFailed, Unbilled,
                Save, SaveFailed, Answer, Arrive, database
  <2>2. pc'[r] \notin {"send", "mark"}
    BY <1>2, <1>9 DEF Monthly, MonthlyFailed, ScopeOpen, Refuse, CheckFailed,
                      Unbilled, Save, SaveFailed, Answer, Arrive, Goto, Finish
  <2> QED BY <1>1, <2>1, <2>2, ElsewhereEffect
<1> QED BY <1>3, <1>4, <1>5, <1>6, <1>7, <1>8, <1>9 DEF Step

LEMMA AccountedOutside ==
  ASSUME DuplicateInv, CarryInv', Crash \/ NextMonth \/ UNCHANGED vars,
         NEW m \in Months, NEW t \in Thresholds
  PROVE  Accounted(m, t)'
<1>1. CarryInv /\ Accounted(m, t)
  BY DEF DuplicateInv
<1>2. CASE Crash
  <2>1. /\ crashes' = crashes + 1 /\ UNCHANGED <<sent, delivered, faults>>
        /\ Sending(m, t)' = {}
    BY <1>2 DEF Crash, database, Sending, AtAlert
  <2>2. /\ Cardinality(Marking(m, t)) \in Nat
        /\ Cardinality(Marking(m, t)) <= Slots
        /\ Cardinality(Marking(m, t)') \in Nat
        /\ Cardinality(Sending(m, t)) \in Nat
    <3>1. /\ Marking(m, t) \subseteq Requests /\ Marking(m, t)' \subseteq Requests
          /\ Sending(m, t) \subseteq Requests
      BY DEF Marking, Sending
    <3> QED BY <3>1, SlotAssumption, Fewer DEF Slots
  <2>3. Cardinality(Sending(m, t)') = 0
    BY <2>1, FS_EmptySet
  <2>4. PICK d \in Nat, k \in Nat, n \in Nat, f \in Nat :
          /\ d = delivered[m][t] /\ f = faults /\ n = Slots /\ k = Slots * crashes
          /\ Slots * crashes' = k + n
    <3>1. /\ delivered[m][t] \in Nat /\ crashes \in Nat /\ faults \in Nat
          /\ Slots \in Nat /\ Slots * crashes \in Nat
      BY <1>1, Counts
    <3>2. Slots * (crashes + 1) = Slots * crashes + Slots
      BY <3>1, Multiples
    <3> QED BY <2>1, <3>1, <3>2
  <2>5. PICK a \in Nat, b \in Nat, c \in Nat :
          /\ a = Cardinality(Marking(m, t)) /\ b = Cardinality(Marking(m, t)')
          /\ c = Cardinality(Sending(m, t)) /\ a <= n
    BY <2>2, <2>4
  <2>6. /\ <<m, t>> \in sent => d + c <= n + k + f
        /\ <<m, t>> \notin sent => d <= a + k + f
    BY <1>1, <2>4, <2>5 DEF Accounted
  <2>7. /\ <<m, t>> \in sent => d + 0 <= n + (k + n) + f
        /\ <<m, t>> \notin sent => d <= b + (k + n) + f
    BY <2>4, <2>5, <2>6
  <2> QED BY <2>1, <2>3, <2>4, <2>5, <2>7 DEF Accounted
<1>3. CASE NextMonth \/ UNCHANGED vars
  BY <1>1, <1>3 DEF NextMonth, vars, local, database, Accounted, Sending, Marking,
                    AtAlert
<1> QED BY <1>2, <1>3

LEMMA DuplicateStep == DuplicateInv /\ [Next]_vars => DuplicateInv'
<1> SUFFICES ASSUME DuplicateInv, [Next]_vars PROVE DuplicateInv'
  OBVIOUS
<1>1. CarryInv /\ IInv /\ CarryInv'
  BY CarryStep DEF DuplicateInv, CarryInv
<1>2. ASSUME NEW m \in Months, NEW t \in Thresholds PROVE Accounted(m, t)'
  <2>1. ASSUME NEW r \in Requests, Step(r) \/
                 \E kind \in Kinds, tags \in TagSets : Arrive(r, kind, tags)
        PROVE  Accounted(m, t)'
    <3>1. Alone(r)
      BY <1>1, <2>1, StepShape
    <3>2. Effect(r, m, t) /\ crashes' = crashes
      BY <1>1, <2>1, StepEffect
    <3>3. Accounted(m, t)
      BY DEF DuplicateInv
    <3> QED BY <1>1, <3>1, <3>2, <3>3, AccountedStep
  <2>2. CASE Crash \/ NextMonth \/ UNCHANGED vars
    BY <1>1, <2>2, AccountedOutside
  <2> QED BY <2>1, <2>2 DEF Next
<1> QED BY <1>1, <1>2 DEF DuplicateInv

LEMMA SpecDuplicates == Spec => []DuplicateInv
<1>1. Init => DuplicateInv
  <2> SUFFICES ASSUME Init PROVE DuplicateInv
    OBVIOUS
  <2>1. CarryInv
    BY CarryInit
  <2>2. ASSUME NEW m \in Months, NEW t \in Thresholds PROVE Accounted(m, t)
    <3>1. /\ delivered[m][t] = 0 /\ sent = {} /\ faults = 0
          /\ Slots * crashes \in Nat
      BY <2>1, Counts DEF Init
    <3>2. Marking(m, t) \subseteq Requests
      BY DEF Marking
    <3>3. Cardinality(Marking(m, t)) \in Nat
      BY <3>2, SlotAssumption, Fewer
    <3> QED BY <3>1, <3>3 DEF Accounted
  <2> QED BY <2>1, <2>2 DEF DuplicateInv
<1> QED BY <1>1, DuplicateStep, PTL DEF Spec

\* However the lookups, e-mails and rows of concurrent requests interleave, an
\* alert is delivered at most once per request and gateway life, and once more per
\* fault (emitMonthlyBudgetAlertOnce).
THEOREM DuplicatesAlwaysBounded == Spec => []DuplicatesBounded
<1>1. DuplicateInv => DuplicatesBounded
  <2> SUFFICES ASSUME DuplicateInv, NEW m \in Months, NEW t \in Thresholds
               PROVE  delivered[m][t] <= Slots * (1 + crashes) + faults
    BY DEF DuplicatesBounded, Slots
  <2>1. CarryInv /\ Accounted(m, t)
    BY DEF DuplicateInv
  <2>2. /\ delivered[m][t] \in Nat /\ crashes \in Nat /\ faults \in Nat
        /\ Slots \in Nat /\ Slots * crashes \in Nat
    BY <2>1, Counts
  <2>3. /\ Cardinality(Sending(m, t)) \in Nat
        /\ Cardinality(Marking(m, t)) \in Nat
        /\ Cardinality(Marking(m, t)) <= Slots
    <3>1. Sending(m, t) \subseteq Requests /\ Marking(m, t) \subseteq Requests
      BY DEF Sending, Marking
    <3> QED BY <3>1, SlotAssumption, Fewer DEF Slots
  <2>4. delivered[m][t] <= Slots + Slots * crashes + faults
    BY <2>1, <2>2, <2>3 DEF Accounted
  <2>5. Slots * (1 + crashes) = Slots + Slots * crashes
    BY <2>2, Multiples
  <2> QED BY <2>4, <2>5
<1> QED BY <1>1, SpecDuplicates, PTL
=============================================================================
