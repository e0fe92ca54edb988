---------------------------- MODULE ReportProofs ----------------------------
(***************************************************************************)
(* What Reporting says about the monthly report, proved for any number of  *)
(* instances, requests, months, failures, restarts and reports by hand.    *)
(*                                                                         *)
(* A report is put together section by section.  IInv says of a report in  *)
(* the making what the property says of one in the inbox: the sections so  *)
(* far are in order, and none exceeds what the table holds by now.  AgreeInv *)
(* bounds how far they are behind it by the requests whose record is still *)
(* to be saved, CountInv the deliveries by what has caused them.           *)
(***************************************************************************)
EXTENDS Reporting, FiniteSetTheorems, TLAPS

Amounts == [total : Nat, team : Nat, provider : Nat, model : Nat]
Jobs    == [at : Places \cup {"idle"}, month : 0..MaxMonth, report : Amounts]

Typed ==
  /\ month \in Months
  /\ usage \in [0..MaxMonth -> Nat]
  /\ delivered \in [Months -> Nat]
  /\ marked \subseteq Months
  /\ job \in [Threads -> Jobs]
  /\ inbox \subseteq [month : Months, report : Amounts]
  /\ DOMAIN request = Requests
  /\ \A r \in Requests : request[r].stamp \in 0..MaxMonth

\* The sections read so far are in order, and the last is at most u.
SoFar(j, u) ==
  LET s == j.report IN
  CASE j.at = "team"     -> s.total <= u
    [] j.at = "provider" -> s.total <= s.team /\ s.team <= u
    [] j.at = "model"    -> /\ s.total <= s.team /\ s.team <= s.provider
                            /\ s.provider <= u
    [] j.at = "send"     -> /\ s.total <= s.team /\ s.team <= s.provider
                            /\ s.provider <= s.model /\ s.model <= u
    [] OTHER             -> TRUE

\* A report in the making.
InTheMaking(t) ==
  /\ job[t].at # "idle" => job[t].month \in Months
  /\ job[t].at # "idle" => SoFar(job[t], usage[job[t].month - 1])
  /\ job[t].at = "mark" => delivered[job[t].month] > 0

IInv == /\ Typed
        /\ \A t \in Threads : InTheMaking(t)
        /\ SectionsInOrder
        /\ MarkedWasDelivered

-----------------------------------------------------------------------------
\* The table and the number of deliveries only grow.
Grows == /\ \A m \in 0..MaxMonth : usage[m] <= usage'[m]
         /\ \A m \in Months : delivered[m] <= delivered'[m]

LEMMA Frozen ==
  ASSUME Typed, usage' = usage, delivered' = delivered
  PROVE  Grows
<1>1. \A m \in 0..MaxMonth : usage[m] \in Nat
  BY DEF Typed
<1>2. \A m \in Months : delivered[m] \in Nat
  BY DEF Typed
<1> QED BY <1>1, <1>2 DEF Grows

LEMMA CoveredMonth == \A m \in Months : m - 1 \in 0..MaxMonth
BY BoundAssumption DEF Months

\* A report that is not touched stays in order.
LEMMA OthersKeep ==
  ASSUME Typed, Typed', Grows, NEW t \in Threads, InTheMaking(t),
         job'[t] = job[t]
  PROVE  InTheMaking(t)'
<1>1. CASE job[t].at = "idle"
  BY <1>1 DEF InTheMaking
<1>2. CASE job[t].at # "idle"
  <2>1. PICK m \in Months : m = job[t].month
    BY <1>2 DEF InTheMaking
  <2>2. PICK u, v \in Nat : u = usage[m - 1] /\ v = usage'[m - 1] /\ u <= v
    BY <2>1, CoveredMonth DEF Typed, Grows
  <2>3. PICK j \in Jobs : j = job[t]
    BY DEF Typed
  <2>4. SoFar(j, u)
    BY <1>2, <2>1, <2>2, <2>3 DEF InTheMaking
  <2>5. /\ j.report.total \in Nat /\ j.report.team \in Nat
        /\ j.report.provider \in Nat /\ j.report.model \in Nat
    BY <2>3 DEF Jobs, Amounts
  <2>6. SoFar(j, v)
    BY <2>2, <2>4, <2>5 DEF SoFar
  <2>7. SoFar(job'[t], usage'[job'[t].month - 1])
    BY <2>1, <2>2, <2>3, <2>6
  <2>8. delivered[m] \in Nat /\ delivered'[m] \in Nat
        /\ delivered[m] <= delivered'[m]
    BY <2>1 DEF Typed, Grows
  <2> QED BY <2>1, <2>7, <2>8 DEF InTheMaking, SoFar
<1> QED BY <1>1, <1>2

\* The mails that are in the inbox stay in order.
LEMMA MailsKeep ==
  ASSUME Typed, Typed', Grows, SectionsInOrder, inbox' = inbox
  PROVE  SectionsInOrder'
<1> SUFFICES ASSUME NEW mail \in inbox
             PROVE  /\ mail.report.total <= mail.report.team
                    /\ mail.report.team <= mail.report.provider
                    /\ mail.report.provider <= mail.report.model
                    /\ mail.report.model <= usage'[mail.month - 1]
  BY DEF SectionsInOrder
<1>1. mail.month \in Months /\ mail.report.model \in Nat
  BY DEF Typed, Amounts
<1>2. usage[mail.month - 1] \in Nat /\ usage'[mail.month - 1] \in Nat
      /\ usage[mail.month - 1] <= usage'[mail.month - 1]
  BY <1>1, CoveredMonth DEF Typed, Grows
<1>3. /\ mail.report.total <= mail.report.team
      /\ mail.report.team <= mail.report.provider
      /\ mail.report.provider <= mail.report.model
      /\ mail.report.model <= usage[mail.month - 1]
  BY DEF SectionsInOrder
<1> QED BY <1>1, <1>2, <1>3

LEMMA MarksKeep ==
  ASSUME Typed, Typed', Grows, MarkedWasDelivered, marked' = marked
  PROVE  MarkedWasDelivered'
<1> SUFFICES ASSUME NEW m \in marked PROVE delivered'[m] > 0
  BY DEF MarkedWasDelivered
<1>1. m \in Months /\ delivered[m] > 0
  BY DEF MarkedWasDelivered, Typed
<1>2. delivered[m] \in Nat /\ delivered'[m] \in Nat /\ delivered[m] <= delivered'[m]
  BY <1>1 DEF Typed, Grows
<1> QED BY <1>1, <1>2

-----------------------------------------------------------------------------
(* The steps that put no section into a report *)

\* A job that has read nothing yet.
Blank(j) == /\ j \in Jobs /\ j.at \in {"idle", "look", "total"}
            /\ j.at # "idle" => j.month \in Months

LEMMA IdleIsBlank == Blank(Idle)
<1>1. NoReport \in Amounts
  BY DEF NoReport, Amounts
<1>2. 0 \in 0..MaxMonth
  BY BoundAssumption
<1>3. Idle \in Jobs
  BY <1>1, <1>2 DEF Idle, Jobs
<1> QED BY <1>3 DEF Blank, Idle

LEMMA BlankStep ==
  ASSUME IInv, Typed', Grows, inbox' = inbox, marked' = marked,
         \A t \in Threads : job'[t] = job[t] \/ Blank(job'[t])
  PROVE  IInv'
<1>1. ASSUME NEW t \in Threads PROVE InTheMaking(t)'
  <2>1. CASE job'[t] = job[t]
    BY <2>1, OthersKeep DEF IInv
  <2>2. CASE Blank(job'[t])
    BY <2>2 DEF Blank, InTheMaking, SoFar
  <2> QED BY <2>1, <2>2
<1>2. SectionsInOrder' /\ MarkedWasDelivered'
  BY MailsKeep, MarksKeep DEF IInv
<1> QED BY <1>1, <1>2 DEF IInv

\* The requests and the calendar.
Stamps == /\ DOMAIN request' = Requests
          /\ \A r \in Requests : request'[r].stamp \in 0..MaxMonth

LEMMA RequestInv ==
  ASSUME IInv, NEW r \in Requests, RequestStep(r)
  PROVE  IInv'
<1>1. UNCHANGED <<month, marked, job, inbox, delivered>>
  BY DEF RequestStep, Begin, Stamp, Save, NotSaved, database, records, history
<1>2. request[r].stamp \in 0..MaxMonth
  BY DEF IInv, Typed
<1>3. Stamps
  <2>1. ASSUME NEW v, v.stamp \in 0..MaxMonth,
               request' = [request EXCEPT ![r] = v]
        PROVE  Stamps
    BY <2>1 DEF IInv, Typed, Stamps
  <2>2. ASSUME NEW i \in Instances, NEW stream \in BOOLEAN, Begin(r, i, stream)
        PROVE  Stamps
    <3>1. PICK v : /\ request' = [request EXCEPT ![r] = v]
                   /\ v = [at |-> "active", instance |-> i, stream |-> stream,
                           stamp |-> 0]
      BY <2>2 DEF Begin
    <3>2. v.stamp \in 0..MaxMonth
      BY <3>1, BoundAssumption
    <3> QED BY <2>1, <3>1, <3>2
  <2>3. CASE Stamp(r)
    <3>1. month \in 0..MaxMonth
      BY BoundAssumption DEF IInv, Typed, Months
    <3>2. request' = [request EXCEPT ![r] =
            [@ EXCEPT !.at = IF request[r].stream THEN "detached" ELSE "saving",
                      !.stamp = month]]
      BY <2>3 DEF Stamp
    <3>3. request'[r].stamp = month \/ request'[r].stamp = request[r].stamp
      BY <3>2 DEF IInv, Typed
    <3>4. \A q \in Requests \ {r} : request'[q] = request[q]
      BY <3>2 DEF IInv, Typed
    <3> QED BY <1>2, <3>1, <3>2, <3>3, <3>4 DEF IInv, Typed, Stamps
  <2>4. CASE Save(r) \/ NotSaved(r)
    <3>1. request' = [request EXCEPT ![r] = Free] /\ Free.stamp \in 0..MaxMonth
      BY <2>4, BoundAssumption DEF Save, NotSaved, Free
    <3> QED BY <3>1, <2>1
  <2> QED BY <2>2, <2>3, <2>4 DEF RequestStep
<1>4. usage' \in [0..MaxMonth -> Nat]
      /\ \A m \in 0..MaxMonth : usage[m] <= usage'[m]
  <2>1. usage \in [0..MaxMonth -> Nat]
    BY DEF IInv, Typed
  <2>2. usage' = usage \/ usage' = [usage EXCEPT ![request[r].stamp] = @ + 1]
    BY DEF RequestStep, Begin, Stamp, Save, NotSaved, database, records
  <2>3. \A m \in 0..MaxMonth : usage[m] \in Nat
    BY <2>1
  <2>4. CASE usage' = usage
    BY <2>1, <2>3, <2>4
  <2>5. CASE usage' = [usage EXCEPT ![request[r].stamp] = @ + 1]
    <3>1. PICK k \in 0..MaxMonth : k = request[r].stamp
      BY <1>2
    <3>2. \A m \in 0..MaxMonth :
            usage'[m] = IF m = k THEN usage[m] + 1 ELSE usage[m]
      BY <2>1, <2>5, <3>1
    <3>3. usage' \in [0..MaxMonth -> Nat]
      BY <2>1, <2>3, <2>5, <3>1
    <3> QED BY <2>3, <3>2, <3>3
  <2> QED BY <2>2, <2>4, <2>5
<1>5. \A m \in Months : delivered[m] \in Nat
  BY DEF IInv, Typed
<1>6. Typed' /\ Grows
  BY <1>1, <1>3, <1>4, <1>5 DEF IInv, Typed, Grows, Stamps
<1> QED BY <1>1, <1>6, BlankStep

LEMMA MonthInv ==
  ASSUME IInv, NextMonth
  PROVE  IInv'
<1>1. month' \in Months
  BY BoundAssumption DEF NextMonth, IInv, Typed, Months
<1>2. Typed' /\ Grows
  BY <1>1, Frozen DEF NextMonth, database, records, history, IInv, Typed
<1> QED BY <1>2, BlankStep DEF NextMonth, database, records, history

\* The scheduler, the admin endpoint, and the process around them.
Blanks == /\ job' \in [Threads -> Jobs]
          /\ \A t \in Threads : job'[t] = job[t] \/ Blank(job'[t])

LEMMA InstanceInv ==
  ASSUME IInv, NEW i \in Instances, InstanceStep(i)
  PROVE  IInv'
<1>1. UNCHANGED <<month, usage, marked, inbox, delivered>>
  BY DEF InstanceStep, Start, Listen, Tick, AskByHand, Signal, ShutdownReturns,
         ShutdownTimesOut, Crash, database, records, history
<1>2. ASSUME NEW place \in {"look", "total"}
      PROVE  Blank([at |-> place, month |-> month, report |-> NoReport])
  <2>1. month \in Months /\ month \in 0..MaxMonth
    BY BoundAssumption DEF IInv, Typed, Months
  <2>2. NoReport \in Amounts /\ place \in Places
    BY DEF NoReport, Amounts, Places
  <2>3. [at |-> place, month |-> month, report |-> NoReport] \in Jobs
    BY <2>1, <2>2 DEF Jobs
  <2> QED BY <2>1, <2>3 DEF Blank
<1>3. Blanks
  <2>1. CASE job' = job
    BY <2>1 DEF IInv, Typed, Blanks
  <2>2. ASSUME NEW t \in Threads, NEW j, Blank(j), job' = [job EXCEPT ![t] = j]
        PROVE  Blanks
    BY <2>2 DEF IInv, Typed, Blank, Blanks
  <2>3. CASE job' = [t \in Threads |-> IF t[1] = i THEN Idle ELSE job[t]]
    BY <2>3, IdleIsBlank DEF IInv, Typed, Blank, Blanks
  <2>4. CASE RunOnce(i)
    BY <2>2, <2>4, <1>2 DEF RunOnce, Threads
  <2>5. CASE AskByHand(i)
    BY <2>2, <2>5, <1>2 DEF AskByHand, Threads
  <2> QED BY <2>1, <2>3, <2>4, <2>5
          DEF InstanceStep, Start, Listen, Tick, Signal, ShutdownReturns,
              ShutdownTimesOut, Crash, Exit
<1>4. Stamps
  <2>1. Free.stamp \in 0..MaxMonth
    BY BoundAssumption DEF Free
  <2>2. CASE request' = request
    BY <2>2 DEF IInv, Typed, Stamps
  <2>3. CASE request' = [r \in Requests |-> IF request[r].instance = i
                                            THEN Free ELSE request[r]]
    BY <2>1, <2>3 DEF IInv, Typed, Stamps
  <2> QED BY <2>2, <2>3
          DEF InstanceStep, Start, Listen, Tick, AskByHand, Signal,
              ShutdownReturns, ShutdownTimesOut, Crash, Exit
<1>5. Typed' /\ Grows
  BY <1>1, <1>3, <1>4, Frozen DEF IInv, Typed, Stamps, Blanks
<1> QED BY <1>1, <1>3, <1>5, BlankStep DEF Blanks

-----------------------------------------------------------------------------
(* The steps of a report *)

\* The job of one thread moves on, with what it has so far in order.
LEMMA MoveOn ==
  ASSUME IInv, NEW t \in Threads, NEW k \in Jobs, job' = [job EXCEPT ![t] = k],
         UNCHANGED <<month, usage, marked, inbox, delivered, request>>,
         k.month \in Months, SoFar(k, usage[k.month - 1]), k.at # "mark"
  PROVE  IInv'
<1>1. Typed' /\ Grows
  BY Frozen DEF IInv, Typed
<1>2. job'[t] = k /\ \A q \in Threads \ {t} : job'[q] = job[q]
  BY DEF IInv, Typed
<1>3. InTheMaking(t)'
  BY <1>2 DEF InTheMaking
<1>4. \A q \in Threads : InTheMaking(q)'
  BY <1>1, <1>2, <1>3, OthersKeep DEF IInv
<1>5. SectionsInOrder' /\ MarkedWasDelivered'
  BY <1>1, MailsKeep, MarksKeep DEF IInv
<1> QED BY <1>1, <1>4, <1>5 DEF IInv

LEMMA BlankMove ==
  ASSUME IInv, NEW t \in Threads, NEW k, Blank(k), job' = [job EXCEPT ![t] = k],
         UNCHANGED <<month, usage, marked, inbox, delivered, request>>
  PROVE  IInv'
<1>1. Typed' /\ Grows
  BY Frozen DEF IInv, Typed, Blank
<1>2. \A q \in Threads : job'[q] = job[q] \/ Blank(job'[q])
  BY DEF IInv, Typed
<1> QED BY <1>1, <1>2, BlankStep

LEMMA LookInv ==
  ASSUME IInv, NEW t \in Threads, Look(t) \/ QueryFails(t)
  PROVE  IInv'
<1>1. UNCHANGED <<month, usage, marked, inbox, delivered, request>>
  BY DEF Look, QueryFails, database, records, history
<1>2. CASE job' = [job EXCEPT ![t] = Idle]
  BY <1>1, <1>2, IdleIsBlank, BlankMove
<1>3. CASE job' = [job EXCEPT ![t].at = "total"] /\ job[t].at # "idle"
  <2>1. PICK k : k = [job[t] EXCEPT !.at = "total"]
    OBVIOUS
  <2>2. job[t] \in Jobs /\ job[t].month \in Months
    BY <1>3 DEF IInv, Typed, InTheMaking
  <2>3. Blank(k)
    BY <2>1, <2>2 DEF Blank, Jobs, Places
  <2>4. job' = [job EXCEPT ![t] = k]
    BY <1>3, <2>1
  <2> QED BY <1>1, <2>3, <2>4, BlankMove
<1> QED BY <1>2, <1>3 DEF Look, QueryFails, Drop, Goto, At

\* A section is added that is at least the one before and at most the sum.
LEMMA QueryInv ==
  ASSUME IInv, NEW t \in Threads,
         \/ GetTotalSpend(t) \/ GetSpendByTeam(t)
         \/ GetSpendByProvider(t) \/ GetSpendByModel(t)
  PROVE  IInv'
<1>1. UNCHANGED <<month, usage, marked, inbox, delivered, request>>
  BY DEF GetTotalSpend, GetSpendByTeam, GetSpendByProvider, GetSpendByModel,
         Query, database, records, history
<1>2. PICK j \in Jobs : j = job[t]
  BY DEF IInv, Typed
<1>3. j.at # "idle"
  BY <1>2 DEF GetTotalSpend, GetSpendByTeam, GetSpendByProvider,
              GetSpendByModel, Query, At
<1>4. j.month \in Months /\ SoFar(j, usage[j.month - 1])
  BY <1>2, <1>3 DEF IInv, InTheMaking
<1>5. PICK u \in Nat : u = usage[j.month - 1]
  BY <1>4, CoveredMonth DEF IInv, Typed
<1>6. u = usage[Period(t)]
  BY <1>2, <1>5 DEF Period
<1>7. /\ j.report \in Amounts
      /\ j.report.total \in Nat /\ j.report.team \in Nat
      /\ j.report.provider \in Nat /\ j.report.model \in Nat
  BY DEF Jobs, Amounts
<1>8. ASSUME NEW k \in Jobs, job' = [job EXCEPT ![t] = k],
             k.month = j.month, SoFar(k, u), k.at # "mark"
      PROVE  IInv'
  BY <1>1, <1>4, <1>5, <1>8, MoveOn
<1>9. CASE GetTotalSpend(t)
  <2>1. PICK k : k = [j EXCEPT !.at = "team", !.report["total"] = u]
    OBVIOUS
  <2>2. k \in Jobs /\ k.month = j.month /\ k.at = "team" /\ k.report.total = u
    BY <1>7, <2>1 DEF Jobs, Amounts, Places
  <2>3. SoFar(k, u)
    BY <2>2 DEF SoFar
  <2>5. job' = [job EXCEPT ![t] = k]
    BY <1>2, <1>6, <1>9, <2>1 DEF GetTotalSpend, Query
  <2> QED BY <1>8, <2>2, <2>3, <2>5
<1>10. CASE GetSpendByTeam(t)
  <2>1. PICK k : k = [j EXCEPT !.at = "provider", !.report["team"] = u]
    OBVIOUS
  <2>2. /\ k \in Jobs /\ k.month = j.month /\ k.at = "provider"
        /\ k.report.team = u /\ k.report.total = j.report.total
    BY <1>7, <2>1 DEF Jobs, Amounts, Places
  <2>3. j.at = "team"
    BY <1>2, <1>10 DEF GetSpendByTeam, Query, At
  <2>4. SoFar(k, u)
    BY <1>4, <1>5, <2>2, <2>3 DEF SoFar
  <2>5. job' = [job EXCEPT ![t] = k]
    BY <1>2, <1>6, <1>10, <2>1 DEF GetSpendByTeam, Query
  <2> QED BY <1>8, <2>2, <2>4, <2>5
<1>11. CASE GetSpendByProvider(t)
  <2>1. PICK k : k = [j EXCEPT !.at = "model", !.report["provider"] = u]
    OBVIOUS
  <2>2. /\ k \in Jobs /\ k.month = j.month /\ k.at = "model"
        /\ k.report.provider = u
        /\ k.report.team = j.report.team /\ k.report.total = j.report.total
    BY <1>7, <2>1 DEF Jobs, Amounts, Places
  <2>3. j.at = "provider"
    BY <1>2, <1>11 DEF GetSpendByProvider, Query, At
  <2>4. SoFar(k, u)
    BY <1>4, <1>5, <2>2, <2>3 DEF SoFar
  <2>5. job' = [job EXCEPT ![t] = k]
    BY <1>2, <1>6, <1>11, <2>1 DEF GetSpendByProvider, Query
  <2> QED BY <1>8, <2>2, <2>4, <2>5
<1>12. CASE GetSpendByModel(t)
  <2>1. PICK k : k = [j EXCEPT !.at = "send", !.report["model"] = u]
    OBVIOUS
  <2>2. /\ k \in Jobs /\ k.month = j.month /\ k.at = "send"
        /\ k.report.model = u /\ k.report.provider = j.report.provider
        /\ k.report.team = j.report.team /\ k.report.total = j.report.total
    BY <1>7, <2>1 DEF Jobs, Amounts, Places
  <2>3. j.at = "model"
    BY <1>2, <1>12 DEF GetSpendByModel, Query, At
  <2>4. SoFar(k, u)
    BY <1>4, <1>5, <2>2, <2>3 DEF SoFar
  <2>5. job' = [job EXCEPT ![t] = k]
    BY <1>2, <1>6, <1>12, <2>1 DEF GetSpendByModel, Query
  <2> QED BY <1>8, <2>2, <2>4, <2>5
<1> QED BY <1>9, <1>10, <1>11, <1>12

\* The mail that goes out has its four sections in order.
LEMMA DeliverEffect ==
  ASSUME IInv, NEW t \in Threads, At(t, "send"), Deliver(t),
         UNCHANGED <<usage, marked>>
  PROVE  /\ delivered' \in [Months -> Nat]
         /\ inbox' \subseteq [month : Months, report : Amounts]
         /\ Grows /\ SectionsInOrder' /\ MarkedWasDelivered'
         /\ delivered'[job[t].month] > 0
<1>1. PICK j \in Jobs : j = job[t]
  BY DEF IInv, Typed
<1>2. j.at = "send" /\ j.month \in Months /\ SoFar(j, usage[j.month - 1])
  BY <1>1 DEF At, IInv, InTheMaking
<1>3. /\ inbox' = inbox \cup {[month |-> j.month, report |-> j.report]}
      /\ delivered' = [delivered EXCEPT ![j.month] = @ + 1]
  BY <1>1 DEF Deliver
<1>4. /\ delivered' \in [Months -> Nat] /\ delivered'[j.month] > 0
      /\ \A m \in Months : delivered[m] \in Nat /\ delivered[m] <= delivered'[m]
  <2>1. delivered \in [Months -> Nat]
    BY DEF IInv, Typed
  <2>2. \A m \in Months : delivered[m] \in Nat
    BY <2>1
  <2>3. PICK n \in Months : n = j.month
    BY <1>2
  <2>4. delivered' = [delivered EXCEPT ![n] = @ + 1]
    BY <1>3, <2>3
  <2>5. /\ delivered' \in [Months -> Nat]
        /\ \A m \in Months : delivered'[m] = IF m = n THEN delivered[m] + 1
                                             ELSE delivered[m]
    BY <2>1, <2>2, <2>4
  <2> QED BY <2>2, <2>3, <2>5
<1>5. Grows
  <2>1. \A m \in 0..MaxMonth : usage[m] \in Nat
    BY DEF IInv, Typed
  <2>2. \A m \in 0..MaxMonth : usage[m] <= usage'[m]
    BY <2>1
  <2> QED BY <1>4, <2>2 DEF Grows
<1>6. inbox' \subseteq [month : Months, report : Amounts]
  BY <1>2, <1>3 DEF IInv, Typed, Jobs
<1>7. SectionsInOrder'
  <2>1. /\ j.report.total <= j.report.team
        /\ j.report.team <= j.report.provider
        /\ j.report.provider <= j.report.model
        /\ j.report.model <= usage[j.month - 1]
    BY <1>2 DEF SoFar
  <2> QED BY <1>3, <2>1 DEF IInv, SectionsInOrder
<1>8. MarkedWasDelivered'
  <2> SUFFICES ASSUME NEW m \in marked PROVE delivered'[m] > 0
    BY DEF MarkedWasDelivered
  <2>1. m \in Months /\ delivered[m] > 0
    BY DEF IInv, Typed, MarkedWasDelivered
  <2>2. delivered'[m] \in Nat
    BY <1>4, <2>1
  <2> QED BY <1>4, <2>1, <2>2
<1> QED BY <1>1, <1>4, <1>5, <1>6, <1>7, <1>8

LEMMA SendInv ==
  ASSUME IInv, NEW t \in Threads, Send(t) \/ SendFails(t)
  PROVE  IInv'
<1>1. At(t, "send") /\ UNCHANGED <<month, usage, marked, request>>
  BY DEF Send, SendFails, database, records
<1>2. PICK j \in Jobs : j = job[t] /\ j.month \in Months
  BY <1>1 DEF IInv, Typed, InTheMaking, At
<1>3. CASE UNCHANGED <<inbox, delivered>> /\ Drop(t)
  BY <1>1, <1>3, IdleIsBlank, BlankMove DEF Drop
<1>4. CASE Deliver(t)
  <2>1. /\ delivered' \in [Months -> Nat]
        /\ inbox' \subseteq [month : Months, report : Amounts]
        /\ Grows /\ SectionsInOrder' /\ MarkedWasDelivered'
        /\ delivered'[j.month] > 0
    BY <1>1, <1>2, <1>4, DeliverEffect
  <2>2. ASSUME NEW k \in Jobs, job' = [job EXCEPT ![t] = k],
               k = Idle \/ (k.at = "mark" /\ k.month = j.month)
        PROVE  IInv'
    <3>1. Typed'
      BY <1>1, <2>1, <2>2 DEF IInv, Typed
    <3>2. job'[t] = k /\ \A q \in Threads \ {t} : job'[q] = job[q]
      BY <2>2 DEF IInv, Typed
    <3>3. InTheMaking(t)'
      BY <1>2, <2>1, <2>2, <3>2 DEF InTheMaking, SoFar, Idle
    <3>4. \A q \in Threads : InTheMaking(q)'
      BY <2>1, <3>1, <3>2, <3>3, OthersKeep DEF IInv
    <3> QED BY <2>1, <3>1, <3>4 DEF IInv
  <2>3. CASE Drop(t)
    <3>1. Idle \in Jobs /\ job' = [job EXCEPT ![t] = Idle]
      BY <2>3, IdleIsBlank DEF Drop, Blank
    <3>2. PICK k \in Jobs : k = Idle
      BY <3>1
    <3>3. job' = [job EXCEPT ![t] = k]
      BY <3>1, <3>2
    <3> QED BY <2>2, <3>2, <3>3
  <2>4. CASE Goto(t, "mark")
    <3>1. PICK k : k = [j EXCEPT !.at = "mark"]
      OBVIOUS
    <3>2. k \in Jobs /\ k.at = "mark" /\ k.month = j.month
      BY <3>1 DEF Jobs, Places
    <3>3. job' = [job EXCEPT ![t] = k]
      BY <1>2, <2>4, <3>1 DEF Goto
    <3> QED BY <2>2, <3>2, <3>3
  <2> QED BY <2>3, <2>4 DEF Send, SendFails
<1> QED BY <1>3, <1>4 DEF Send, SendFails

LEMMA MarkInv ==
  ASSUME IInv, NEW t \in Threads, Mark(t)
  PROVE  IInv'
<1>1. /\ marked' = marked \cup {job[t].month}
      /\ job' = [job EXCEPT ![t] = Idle]
      /\ UNCHANGED <<month, usage, inbox, delivered, request>>
      /\ job[t].at = "mark"
  BY DEF Mark, Drop, At, records, history
<1>2. job[t].month \in Months /\ delivered[job[t].month] > 0
  BY <1>1 DEF IInv, InTheMaking
<1>3. Typed' /\ Grows
  BY <1>1, <1>2, IdleIsBlank, Frozen DEF IInv, Typed, Blank
<1>4. ASSUME NEW q \in Threads PROVE InTheMaking(q)'
  <2>1. CASE q = t
    BY <1>1, <2>1 DEF IInv, Typed, InTheMaking, Idle
  <2>2. CASE q # t
    BY <1>1, <1>3, <2>2, OthersKeep DEF IInv, Typed
  <2> QED BY <2>1, <2>2
<1>5. SectionsInOrder'
  BY <1>1, <1>3, MailsKeep DEF IInv
<1>6. MarkedWasDelivered'
  BY <1>1, <1>2 DEF IInv, MarkedWasDelivered
<1> QED BY <1>3, <1>4, <1>5, <1>6 DEF IInv

-----------------------------------------------------------------------------
LEMMA InitInv == Init => IInv
<1> SUFFICES ASSUME Init PROVE IInv
  OBVIOUS
<1>1. month \in Months /\ 0 \in 0..MaxMonth
  BY BoundAssumption DEF Init, Months
<1>2. \A r \in Requests : request[r].stamp \in 0..MaxMonth
  BY <1>1 DEF Init, Free
<1>3. job \in [Threads -> Jobs]
  BY IdleIsBlank DEF Init, Blank
<1>4. Typed
  BY <1>1, <1>2, <1>3 DEF Init, Typed
<1>5. \A t \in Threads : InTheMaking(t)
  BY DEF Init, InTheMaking, Idle
<1>6. SectionsInOrder /\ MarkedWasDelivered
  BY DEF Init, SectionsInOrder, MarkedWasDelivered
<1> QED BY <1>4, <1>5, <1>6 DEF IInv

LEMMA NextInv == IInv /\ [Next]_vars => IInv'
<1> SUFFICES ASSUME IInv, [Next]_vars PROVE IInv'
  OBVIOUS
<1>1. CASE NextMonth
  BY <1>1, MonthInv
<1>2. ASSUME NEW r \in Requests, RequestStep(r) PROVE IInv'
  BY <1>2, RequestInv
<1>3. ASSUME NEW t \in Threads, Work(t) PROVE IInv'
  BY <1>3, LookInv, QueryInv, SendInv, MarkInv DEF Work
<1>4. ASSUME NEW i \in Instances, InstanceStep(i) PROVE IInv'
  BY <1>4, InstanceInv
<1>5. CASE UNCHANGED vars
  <2>1. UNCHANGED <<month, usage, marked, job, inbox, delivered, request>>
    BY <1>5 DEF vars, database, records, history
  <2>2. Typed' /\ Grows
    BY <2>1, Frozen DEF IInv, Typed
  <2> QED BY <2>1, <2>2, BlankStep
<1> QED BY <1>1, <1>2, <1>3, <1>4, <1>5 DEF Next

LEMMA SpecInv == Spec => []IInv
BY InitInv, NextInv, PTL DEF Spec

\* The sections of every report that goes out are in order, and none exceeds what
\* the usage table holds: whatever requests save between the queries of
\* BuildMonthlySummary, and whichever instance, restart or failure comes between.
THEOREM ReportsInOrder == Spec => []SectionsInOrder
<1>1. IInv => SectionsInOrder
  BY DEF IInv
<1> QED BY <1>1, SpecInv, PTL

\* The scheduler marks a month as reported only after its report was delivered
\* (report/sender.go: look, send, mark), also when it is cut off in between.
THEOREM NothingMarkedUnsent == Spec => []MarkedWasDelivered
<1>1. IInv => MarkedWasDelivered
  BY DEF IInv
<1> QED BY <1>1, SpecInv, PTL

-----------------------------------------------------------------------------
(***************************************************************************)
(* The type invariant.  The table is bounded because a request begins only *)
(* when there is room for the records of all those in flight.              *)
(***************************************************************************)
Booked ==
  /\ saved \in Nat
  /\ \A m \in 0..MaxMonth : usage[m] <= saved
  /\ saved + Cardinality(InFlight) <= MaxRecords

\* What TypeOK says of one thread and of one request.
JobTyped(t) == \/ job[t] = Idle
               \/ job[t].at \in Places /\ job[t].month \in 1..month
RequestTyped(r) ==
  \/ request[r] = Free
  \/ /\ request[r].at \in {"active", "saving", "detached"}
     /\ process[request[r].instance] \in {"up", "draining"}
     /\ request[r].stamp \in 0..month

Processes == process \in [Instances -> {"down", "starting", "up", "draining"}]

TInv == /\ IInv
        /\ Booked
        /\ Processes
        /\ \A t \in Threads : JobTyped(t)
        /\ \A r \in Requests : RequestTyped(r)

\* How the cardinality of a finite set changes by one.
LEMMA Fewer ==
  ASSUME NEW S, IsFiniteSet(S), NEW T, T \subseteq S
  PROVE  /\ IsFiniteSet(T) /\ Cardinality(T) \in Nat /\ Cardinality(S) \in Nat
         /\ Cardinality(T) <= Cardinality(S)
<1>1. T \in SUBSET S
  OBVIOUS
<1>2. IsFiniteSet(T) /\ Cardinality(T) <= Cardinality(S)
  BY <1>1, FS_Subset
<1> QED BY <1>2, FS_CardinalityType

LEMMA OneMore ==
  ASSUME NEW S, IsFiniteSet(S), NEW x, NEW T, T \subseteq S \cup {x}
  PROVE  /\ IsFiniteSet(T) /\ Cardinality(T) \in Nat /\ Cardinality(S) \in Nat
         /\ Cardinality(T) <= Cardinality(S) + 1
<1>1. IsFiniteSet(S \cup {x})
  BY FS_AddElement
<1>2. Cardinality(S \cup {x}) \in {Cardinality(S), Cardinality(S) + 1}
  BY FS_AddElement
<1>3. Cardinality(S) \in Nat
  BY FS_CardinalityType
<1>4. /\ IsFiniteSet(T) /\ Cardinality(T) \in Nat
      /\ Cardinality(T) <= Cardinality(S \cup {x})
  BY <1>1, Fewer
<1> QED BY <1>2, <1>3, <1>4

LEMMA OneLess ==
  ASSUME NEW S, IsFiniteSet(S), NEW x \in S, NEW T, T \subseteq S \ {x}
  PROVE  /\ IsFiniteSet(T) /\ Cardinality(T) \in Nat /\ Cardinality(S) \in Nat
         /\ Cardinality(T) + 1 <= Cardinality(S)
<1>1. IsFiniteSet(S \ {x}) /\ Cardinality(S \ {x}) = Cardinality(S) - 1
  BY FS_RemoveElement
<1>2. Cardinality(S) \in Nat
  BY FS_CardinalityType
<1>3. /\ IsFiniteSet(T) /\ Cardinality(T) \in Nat
      /\ Cardinality(T) <= Cardinality(S \ {x})
  BY <1>1, Fewer
<1> QED BY <1>1, <1>2, <1>3

LEMMA FiniteFlight == IsFiniteSet(InFlight) /\ Cardinality(InFlight) \in Nat
BY SlotAssumption, Fewer DEF InFlight

\* The requests leave the flight, or stay in it, and the table stays.
LEMMA BookedStays ==
  ASSUME Booked, saved' = saved, usage' = usage, InFlight' \subseteq InFlight
  PROVE  Booked'
<1>2. Cardinality(InFlight) \in Nat /\ Cardinality(InFlight') \in Nat
      /\ Cardinality(InFlight') <= Cardinality(InFlight)
  BY FiniteFlight, Fewer
<1>3. saved' + Cardinality(InFlight') <= MaxRecords
  BY <1>2, BoundAssumption DEF Booked
<1> QED BY <1>3 DEF Booked

LEMMA RequestBooked ==
  ASSUME TInv, NEW r \in Requests, RequestStep(r)
  PROVE  Booked'
<1>1. IsFiniteSet(InFlight) /\ Cardinality(InFlight) \in Nat
      /\ DOMAIN request = Requests /\ saved \in Nat /\ MaxRecords \in Nat
  BY FiniteFlight, BoundAssumption DEF TInv, IInv, Typed, Booked
<1>2. ASSUME NEW i \in Instances, NEW stream \in BOOLEAN, Begin(r, i, stream)
      PROVE  Booked'
  <2>1. /\ request[r] = Free /\ saved + Cardinality(InFlight) < MaxRecords
        /\ saved' = saved /\ usage' = usage
        /\ InFlight' \subseteq InFlight \cup {r}
    BY <1>1, <1>2 DEF Begin, InFlight, database, records
  <2>4. Cardinality(InFlight') <= Cardinality(InFlight) + 1
        /\ Cardinality(InFlight') \in Nat
    BY <1>1, <2>1, OneMore
  <2>5. saved' + Cardinality(InFlight') <= MaxRecords
    BY <1>1, <2>1, <2>4
  <2> QED BY <2>1, <2>5 DEF Booked, TInv
<1>3. CASE Stamp(r)
  <2>1. request[r].at = "active" /\ request[r] # Free
    BY <1>3 DEF Stamp, Free
  <2>2. \A q \in Requests \ {r} : request'[q] = request[q]
    BY <1>1, <1>3 DEF Stamp
  <2>3. InFlight' \subseteq InFlight
    BY <2>1, <2>2 DEF InFlight
  <2>4. saved' = saved /\ usage' = usage
    BY <1>3 DEF Stamp, database, records
  <2> QED BY <2>3, <2>4, BookedStays DEF TInv
<1>4. CASE Save(r)
  <2>1. request[r].at \in {"saving", "detached"} /\ request[r] # Free
        /\ saved' = saved + 1 /\ request' = [request EXCEPT ![r] = Free]
        /\ usage' = [usage EXCEPT ![request[r].stamp] = @ + 1]
    BY <1>4 DEF Save, Free
  <2>2. r \in InFlight /\ InFlight' = InFlight \ {r}
    BY <1>1, <2>1 DEF InFlight
  <2>3. Cardinality(InFlight') + 1 <= Cardinality(InFlight)
        /\ Cardinality(InFlight') \in Nat
    BY <1>1, <2>2, OneLess
  <2>4. \A m \in 0..MaxMonth : usage[m] \in Nat /\ usage[m] <= saved
    BY DEF TInv, IInv, Typed, Booked
  <2>5. usage \in [0..MaxMonth -> Nat]
    BY DEF TInv, IInv, Typed
  <2>6. \A m \in 0..MaxMonth : usage'[m] <= saved'
    BY <1>1, <2>1, <2>4, <2>5
  <2> QED BY <1>1, <2>1, <2>3, <2>6 DEF Booked, TInv
<1>5. CASE NotSaved(r)
  <2>1. InFlight' \subseteq InFlight
    BY <1>1, <1>5 DEF NotSaved, InFlight
  <2>2. saved' = saved /\ usage' = usage
    BY <1>5 DEF NotSaved, database, records
  <2> QED BY <2>1, <2>2, BookedStays DEF TInv
<1> QED BY <1>2, <1>3, <1>4, <1>5 DEF RequestStep

LEMMA RequestTypes ==
  ASSUME TInv, IInv', NEW r \in Requests, RequestStep(r)
  PROVE  TInv'
<1>1. Booked'
  BY RequestBooked
<1>2. process' = process /\ job' = job /\ month' = month
  BY DEF RequestStep, Begin, Stamp, Save, NotSaved, database, history
<1>3. \A t \in Threads : JobTyped(t)'
  BY <1>2 DEF TInv, JobTyped
<1>4. DOMAIN request = Requests /\ month \in Nat
  BY DEF TInv, IInv, Typed, Months
<1>5. \A q \in Requests \ {r} : request'[q] = request[q]
  BY <1>4 DEF RequestStep, Begin, Stamp, Save, NotSaved
<1>6. RequestTyped(r)'
  <2>1. ASSUME NEW i \in Instances, NEW stream \in BOOLEAN, Begin(r, i, stream)
        PROVE  RequestTyped(r)'
    BY <1>2, <1>4, <2>1 DEF Begin, RequestTyped, Listening
  <2>2. CASE Stamp(r)
    <3>1. request'[r] = [request[r] EXCEPT
            !.at = IF request[r].stream THEN "detached" ELSE "saving",
            !.stamp = month]
      BY <1>4, <2>2 DEF Stamp
    <3>2. request[r].at = "active" /\ RequestTyped(r)
      BY <2>2 DEF Stamp, TInv
    <3>3. request[r] # Free
      BY <3>2 DEF Free
    <3>4. /\ request'[r].at \in {"saving", "detached", request[r].at}
          /\ request'[r].stamp \in {month, request[r].stamp}
          /\ request'[r].instance = request[r].instance
      BY <3>1
    <3> QED BY <1>2, <1>4, <3>2, <3>3, <3>4 DEF RequestTyped
  <2>3. CASE Save(r) \/ NotSaved(r)
    BY <1>4, <2>3 DEF Save, NotSaved, RequestTyped
  <2> QED BY <2>1, <2>2, <2>3 DEF RequestStep
<1>7. \A q \in Requests : RequestTyped(q)'
  BY <1>2, <1>5, <1>6 DEF TInv, RequestTyped
<1> QED BY <1>1, <1>2, <1>3, <1>7 DEF TInv, Processes

\* Nothing about the requests changes, and no process of theirs goes down.
LEMMA RequestsStay ==
  ASSUME TInv, UNCHANGED <<request, saved, usage>>, month <= month',
         month' \in Nat,
         \A i \in Instances : process[i] \in {"up", "draining"} =>
                                process'[i] \in {"up", "draining"},
         \A i : i \notin Instances => process'[i] = process[i]
  PROVE  Booked' /\ \A r \in Requests : RequestTyped(r)'
<1>1. Booked'
  BY BookedStays DEF TInv, InFlight
<1>2. month \in Nat
  BY DEF TInv, IInv, Typed, Months
<1>3. ASSUME NEW r \in Requests PROVE RequestTyped(r)'
  <2>1. RequestTyped(r)
    BY DEF TInv
  <2>2. process[request[r].instance] \in {"up", "draining"} =>
          process'[request[r].instance] \in {"up", "draining"}
    OBVIOUS
  <2> QED BY <1>2, <2>1, <2>2 DEF RequestTyped
<1> QED BY <1>1, <1>3

LEMMA WorkTypes ==
  ASSUME TInv, IInv', NEW t \in Threads, Work(t)
  PROVE  TInv'
<1>1. UNCHANGED <<month, process, request, saved, usage>>
  BY DEF Work, Look, GetTotalSpend, GetSpendByTeam, GetSpendByProvider,
         GetSpendByModel, Query, QueryFails, Send, SendFails, Mark, database,
         records, history
<1>2. Booked' /\ Processes' /\ \A r \in Requests : RequestTyped(r)'
  BY <1>1, BookedStays DEF TInv, InFlight, Processes, RequestTyped
<1>3. DOMAIN job = Threads
  BY DEF TInv, IInv, Typed
<1>4. \A q \in Threads \ {t} : job'[q] = job[q]
  BY <1>3 DEF Work, Look, GetTotalSpend, GetSpendByTeam, GetSpendByProvider,
              GetSpendByModel, Query, QueryFails, Send, SendFails, Mark, Goto, Drop
<1>5. job'[t] = Idle \/ /\ job[t].at # "idle"
                        /\ job'[t].at \in Places /\ job'[t].month = job[t].month
  <2>1. CASE job' = [job EXCEPT ![t] = Idle]
    BY <1>3, <2>1
  <2>2. ASSUME NEW place \in Places, job' = [job EXCEPT ![t].at = place],
               job[t].at # "idle"
        PROVE  <1>5!2
    <3>1. job'[t] = [job[t] EXCEPT !.at = place]
      BY <1>3, <2>2
    <3>2. job[t] \in Jobs
      BY DEF TInv, IInv, Typed
    <3>3. job'[t].at = place /\ job'[t].month = job[t].month
      BY <3>1, <3>2 DEF Jobs
    <3> QED BY <2>2, <3>3
  <2>3. ASSUME NEW place, NEW section, NEW next \in Places,
               Query(t, place, section, next), place # "idle"
        PROVE  <1>5!2
    <3>1. job'[t] = [job[t] EXCEPT !.at = next,
                                   !.report[section] = usage[Period(t)]]
      BY <1>3, <2>3 DEF Query
    <3>2. job[t] \in Jobs
      BY DEF TInv, IInv, Typed
    <3>3. job'[t].at = next /\ job'[t].month = job[t].month
      BY <3>1, <3>2 DEF Jobs
    <3> QED BY <2>3, <3>3 DEF Query, At
  <2>4. CASE Look(t)
    BY <2>1, <2>2, <2>4 DEF Look, Drop, Goto, At, Places
  <2>5. CASE Send(t)
    BY <2>1, <2>2, <2>5 DEF Send, Drop, Goto, At, Places
  <2>6. CASE QueryFails(t) \/ SendFails(t) \/ Mark(t)
    BY <2>1, <2>6 DEF QueryFails, SendFails, Mark, Drop
  <2>7. CASE \/ GetTotalSpend(t) \/ GetSpendByTeam(t)
             \/ GetSpendByProvider(t) \/ GetSpendByModel(t)
    BY <2>3, <2>7 DEF GetTotalSpend, GetSpendByTeam, GetSpendByProvider,
                      GetSpendByModel, Places
  <2> QED BY <2>4, <2>5, <2>6, <2>7 DEF Work
<1>6. JobTyped(t)'
  BY <1>1, <1>5 DEF TInv, JobTyped, Idle
<1>7. \A q \in Threads : JobTyped(q)'
  BY <1>1, <1>4, <1>6 DEF TInv, JobTyped
<1> QED BY <1>2, <1>7 DEF TInv

LEMMA InstanceTypes ==
  ASSUME TInv, IInv', NEW i \in Instances, InstanceStep(i)
  PROVE  TInv'
<1>1. /\ UNCHANGED <<month, saved, usage>> /\ month \in Nat /\ 1 <= month
      /\ DOMAIN job = Threads /\ DOMAIN request = Requests
      /\ process \in [Instances -> {"down", "starting", "up", "draining"}]
  BY DEF InstanceStep, Start, Listen, Tick, AskByHand, Signal, ShutdownReturns,
         ShutdownTimesOut, Crash, database, records, history, TInv, IInv, Typed,
         Months, Processes
<1>2. CASE ShutdownReturns(i) \/ ShutdownTimesOut(i) \/ Crash(i)
  <2>1. Exit(i)
    BY <1>2 DEF ShutdownReturns, ShutdownTimesOut, Crash
  <2>2. Processes'
    BY <1>1, <2>1 DEF Exit, Processes
  <2>3. \A t \in Threads : JobTyped(t)'
    BY <1>1, <2>1 DEF Exit, TInv, JobTyped
  <2>4. InFlight' \subseteq InFlight
    BY <2>1 DEF Exit, InFlight
  <2>5. Booked'
    BY <1>1, <2>4, BookedStays DEF TInv
  <2>6. ASSUME NEW r \in Requests PROVE RequestTyped(r)'
    <3>1. request'[r] = IF request[r].instance = i THEN Free ELSE request[r]
      BY <2>1 DEF Exit
    <3>2. \A j : j # i => process'[j] = process[j]
      BY <1>1, <2>1 DEF Exit
    <3> QED BY <1>1, <3>1, <3>2 DEF TInv, RequestTyped
  <2> QED BY <2>2, <2>3, <2>5, <2>6 DEF TInv
<1>3. CASE ~(ShutdownReturns(i) \/ ShutdownTimesOut(i) \/ Crash(i))
  <2>1. CASE Start(i) \/ Listen(i) \/ Signal(i)
    <3>0. PICK place \in {"starting", "up", "draining"} :
            /\ process' = [process EXCEPT ![i] = place]
            /\ process[i] \in {"up", "draining"} => place # "starting"
      BY <2>1 DEF Start, Listen, Signal, Listening
    <3>1. /\ request' = request /\ Processes'
          /\ \A j \in Instances : process[j] \in {"up", "draining"} =>
                                    process'[j] \in {"up", "draining"}
          /\ \A j : j \notin Instances => process'[j] = process[j]
      <4>1. request' = request
        BY <2>1 DEF Start, Listen, Signal
      <4>2. Processes'
        BY <1>1, <3>0 DEF Processes
      <4>3. \A j : j # i => process'[j] = process[j]
        BY <1>1, <3>0
      <4>4. process'[i] = place
        BY <1>1, <3>0
      <4> QED BY <3>0, <4>1, <4>2, <4>3, <4>4
    <3>2. Booked' /\ \A r \in Requests : RequestTyped(r)'
      BY <1>1, <3>1, RequestsStay
    <3>3. \A t \in Threads :
            job'[t] = job[t] \/ (job'[t].at = "look" /\ job'[t].month = month)
      BY <1>1, <2>1 DEF Start, Listen, Signal, RunOnce
    <3>4. \A t \in Threads : JobTyped(t)'
      BY <1>1, <3>3 DEF TInv, JobTyped, Places
    <3> QED BY <3>1, <3>2, <3>4 DEF TInv
  <2>2. CASE Tick(i) \/ AskByHand(i)
    <3>1. request' = request /\ process' = process
      BY <2>2 DEF Tick, AskByHand
    <3>2. Booked' /\ \A r \in Requests : RequestTyped(r)'
      BY <1>1, <3>1, RequestsStay
    <3>3. \A t \in Threads :
            \/ job'[t] = job[t]
            \/ job'[t].at \in {"look", "total"} /\ job'[t].month = month
      BY <1>1, <2>2 DEF Tick, AskByHand, RunOnce
    <3>4. \A t \in Threads : JobTyped(t)'
      BY <1>1, <3>3 DEF TInv, JobTyped, Places
    <3> QED BY <3>1, <3>2, <3>4 DEF TInv, Processes
  <2> QED BY <1>3, <2>1, <2>2 DEF InstanceStep
<1> QED BY <1>2, <1>3

LEMMA OtherTypes ==
  ASSUME TInv, IInv', NextMonth \/ UNCHANGED vars
  PROVE  TInv'
<1>1. /\ UNCHANGED <<job, process, request, saved, usage>>
      /\ month \in Nat /\ month' \in Nat /\ month <= month'
  BY DEF NextMonth, vars, database, records, history, TInv, IInv, Typed, Months
<1>2. Booked' /\ \A r \in Requests : RequestTyped(r)'
  BY <1>1, RequestsStay
<1>3. \A t \in Threads : JobTyped(t)'
  BY <1>1 DEF TInv, JobTyped
<1> QED BY <1>1, <1>2, <1>3 DEF TInv, Processes

LEMMA TypeStep == TInv /\ [Next]_vars => TInv'
<1> SUFFICES ASSUME TInv, [Next]_vars PROVE TInv'
  OBVIOUS
<1>1. IInv'
  BY NextInv DEF TInv
<1> QED BY <1>1, RequestTypes, WorkTypes, InstanceTypes, OtherTypes DEF Next

LEMMA TypeInit == Init => TInv
<1> SUFFICES ASSUME Init PROVE TInv
  OBVIOUS
<1>1. IInv
  BY InitInv
<1>2. InFlight = {} /\ saved = 0 /\ \A m \in 0..MaxMonth : usage[m] = 0
  BY DEF Init, InFlight
<1>3. Booked
  BY <1>2, FS_EmptySet, BoundAssumption DEF Booked
<1>4. Processes
  BY DEF Init, Processes
<1>5. \A t \in Threads : JobTyped(t)
  BY DEF Init, JobTyped
<1>6. \A r \in Requests : RequestTyped(r)
  BY DEF Init, RequestTyped
<1> QED BY <1>1, <1>3, <1>4, <1>5, <1>6 DEF TInv

LEMMA SpecTypes == Spec => []TInv
BY TypeInit, TypeStep, PTL DEF Spec

\* Every variable of Reporting stays within its type; in particular the table
\* never holds more records than requests were let in.
THEOREM TypeCorrect == Spec => []TypeOK
<1>1. TInv => TypeOK
  <2> SUFFICES ASSUME TInv PROVE TypeOK
    OBVIOUS
  <2>1. saved \in Nat /\ saved <= MaxRecords
    BY FiniteFlight, BoundAssumption DEF TInv, Booked
  <2>2. usage \in [0..MaxMonth -> 0..MaxRecords]
    <3>1. \A m \in 0..MaxMonth : usage[m] \in Nat /\ usage[m] <= saved
      BY DEF TInv, IInv, Typed, Booked
    <3>2. \A m \in 0..MaxMonth : usage[m] \in 0..MaxRecords
      BY <2>1, <3>1, BoundAssumption
    <3>3. usage \in [0..MaxMonth -> Nat]
      BY DEF TInv, IInv, Typed
    <3> QED BY <3>2, <3>3
  <2> QED BY <2>2 DEF TInv, IInv, Typed, Processes, JobTyped, RequestTyped, TypeOK
<1> QED BY <1>1, SpecTypes, PTL

-----------------------------------------------------------------------------
(***************************************************************************)
(* How far the sections may be apart.  A report covers a month that is     *)
(* over, and a record gets its timestamp before it is saved: what can      *)
(* still be added to the month are the records that wait to be saved with  *)
(* a timestamp in it.  Sum and waiting records together only shrink.       *)
(***************************************************************************)
Pending(m) == {r \in Requests : /\ request[r].at \in {"saving", "detached"}
                                /\ request[r].stamp = m}

Behind(m, total) ==
  usage[m] - total + Cardinality(Pending(m)) <= Cardinality(Requests)

HasTotal == {"team", "provider", "model", "send"}

AgreeInv ==
  /\ TInv
  /\ \A t \in Threads : job[t].at \in HasTotal =>
       Behind(job[t].month - 1, job[t].report.total)
  /\ \A mail \in inbox :
       mail.month <= month /\ Behind(mail.month - 1, mail.report.total)

LEMMA FinitePending ==
  ASSUME NEW m
  PROVE  /\ IsFiniteSet(Pending(m)) /\ Cardinality(Pending(m)) \in Nat
         /\ Cardinality(Requests) \in Nat
         /\ Cardinality(Pending(m)) <= Cardinality(Requests)
<1>1. Pending(m) \subseteq Requests
  BY DEF Pending
<1> QED BY <1>1, SlotAssumption, Fewer

\* What has been saved of a month that is over, and what still may be.
Closing == \A m \in 0..MaxMonth : m < month =>
  usage'[m] + Cardinality(Pending(m)') <= usage[m] + Cardinality(Pending(m))

LEMMA PendingShrinks ==
  ASSUME TInv, UNCHANGED usage,
         \A m \in 0..MaxMonth : m < month => Pending(m)' \subseteq Pending(m)
  PROVE  Closing
<1> SUFFICES ASSUME NEW m \in 0..MaxMonth, m < month
             PROVE  usage[m] + Cardinality(Pending(m)')
                      <= usage[m] + Cardinality(Pending(m))
  BY DEF Closing
<1>1. /\ Cardinality(Pending(m)') \in Nat /\ Cardinality(Pending(m)) \in Nat
      /\ Cardinality(Pending(m)') <= Cardinality(Pending(m))
  BY FinitePending, Fewer
<1>2. usage[m] \in Nat
  BY DEF TInv, IInv, Typed
<1> QED BY <1>1, <1>2

LEMMA SaveCloses ==
  ASSUME TInv, NEW r \in Requests, Save(r)
  PROVE  Closing
<1> SUFFICES ASSUME NEW m \in 0..MaxMonth, m < month
             PROVE  usage'[m] + Cardinality(Pending(m)')
                      <= usage[m] + Cardinality(Pending(m))
  BY DEF Closing
<1>1. /\ usage \in [0..MaxMonth -> Nat] /\ usage[m] \in Nat
      /\ request[r].stamp \in 0..MaxMonth /\ DOMAIN request = Requests
  BY DEF TInv, IInv, Typed
<1>2. /\ request[r].at \in {"saving", "detached"}
      /\ usage' = [usage EXCEPT ![request[r].stamp] = @ + 1]
      /\ request' = [request EXCEPT ![r] = Free]
  BY DEF Save
<1>3. Pending(m)' \subseteq Pending(m) \ {r}
  BY <1>1, <1>2 DEF Pending, Free
<1>4. CASE request[r].stamp = m
  <2>1. r \in Pending(m)
    BY <1>2, <1>4 DEF Pending
  <2>2. Cardinality(Pending(m)') + 1 <= Cardinality(Pending(m))
        /\ Cardinality(Pending(m)') \in Nat /\ Cardinality(Pending(m)) \in Nat
    BY <1>3, <2>1, FinitePending, OneLess
  <2>3. usage'[m] = usage[m] + 1
    BY <1>1, <1>2, <1>4
  <2> QED BY <1>1, <2>2, <2>3
<1>5. CASE request[r].stamp # m
  <2>1. Cardinality(Pending(m)') <= Cardinality(Pending(m))
        /\ Cardinality(Pending(m)') \in Nat /\ Cardinality(Pending(m)) \in Nat
    BY <1>3, FinitePending, Fewer
  <2>2. usage'[m] = usage[m]
    BY <1>1, <1>2, <1>5
  <2> QED BY <1>1, <2>1, <2>2
<1> QED BY <1>4, <1>5

LEMMA StepCloses ==
  ASSUME TInv, [Next]_vars
  PROVE  Closing
<1>1. DOMAIN request = Requests /\ month \in Nat
  BY DEF TInv, IInv, Typed, Months
<1>2. ASSUME NEW r \in Requests, NEW i \in Instances, NEW stream \in BOOLEAN,
             Begin(r, i, stream)
      PROVE  Closing
  <2>1. /\ \A q \in Requests \ {r} : request'[q] = request[q]
        /\ request'[r].at = "active" /\ usage' = usage
    BY <1>1, <1>2 DEF Begin, database, records
  <2> QED BY <2>1, PendingShrinks DEF Pending
<1>3. ASSUME NEW r \in Requests, Stamp(r)
      PROVE  Closing
  <2>1. /\ request' = [request EXCEPT ![r] =
             [request[r] EXCEPT
                !.at = IF request[r].stream THEN "detached" ELSE "saving",
                !.stamp = month]]
        /\ usage' = usage /\ request[r].at = "active"
    BY <1>3 DEF Stamp, database, records
  <2>2. request[r] # Free
    BY <2>1 DEF Free
  <2>3. /\ \A q \in Requests \ {r} : request'[q] = request[q]
        /\ request'[r] = [request[r] EXCEPT
             !.at = IF request[r].stream THEN "detached" ELSE "saving",
             !.stamp = month]
    BY <1>1, <2>1
  <2>4. request'[r].stamp = month \/ request'[r].at = request[r].at
    BY <2>3
  <2> QED BY <1>1, <2>1, <2>3, <2>4, PendingShrinks DEF Pending
<1>4. ASSUME NEW r \in Requests, NotSaved(r)
      PROVE  Closing
  <2>1. /\ \A q \in Requests \ {r} : request'[q] = request[q]
        /\ request'[r].at = "idle" /\ usage' = usage
    BY <1>1, <1>4 DEF NotSaved, Free, database, records
  <2> QED BY <2>1, PendingShrinks DEF Pending
<1>5. ASSUME NEW r \in Requests, RequestStep(r)
      PROVE  Closing
  BY <1>2, <1>3, <1>4, <1>5, SaveCloses DEF RequestStep
<1>6. ASSUME NEW i \in Instances, InstanceStep(i)
      PROVE  Closing
  <2>1. usage' = usage
    BY <1>6 DEF InstanceStep, Start, Listen, Tick, AskByHand, Signal,
                ShutdownReturns, ShutdownTimesOut, Crash, database, records
  <2>2. request' = request \/ Exit(i)
    BY <1>6 DEF InstanceStep, Start, Listen, Tick, AskByHand, Signal,
                ShutdownReturns, ShutdownTimesOut, Crash
  <2>3. \A m : Pending(m)' \subseteq Pending(m)
    <3>1. CASE request' = request
      BY <3>1 DEF Pending
    <3>2. CASE Exit(i)
      <4>1. \A r \in Requests : request'[r] = Free \/ request'[r] = request[r]
        BY <3>2 DEF Exit
      <4> QED BY <4>1 DEF Pending, Free
    <3> QED BY <2>2, <3>1, <3>2
  <2> QED BY <2>1, <2>3, PendingShrinks
<1>7. ASSUME NEW t \in Threads, Work(t)
      PROVE  Closing
  <2>1. UNCHANGED <<usage, request>>
    BY <1>7 DEF Work, Look, GetTotalSpend, GetSpendByTeam, GetSpendByProvider,
         GetSpendByModel, Query, QueryFails, Send, SendFails, Mark, database,
         records
  <2> QED BY <2>1, PendingShrinks DEF Pending
<1>8. CASE NextMonth \/ UNCHANGED vars
  <2>1. UNCHANGED <<usage, request>>
    BY <1>8 DEF NextMonth, vars, database, records
  <2> QED BY <2>1, PendingShrinks DEF Pending
<1> QED BY <1>5, <1>6, <1>7, <1>8 DEF Next

\* What is behind by little stays so.
LEMMA BehindStays ==
  ASSUME TInv, TInv', Closing, NEW m \in 0..MaxMonth, m < month,
         NEW total \in Nat, Behind(m, total)
  PROVE  Behind(m, total)'
<1>1. usage[m] \in Nat /\ usage'[m] \in Nat
  BY DEF TInv, IInv, Typed
<1>2. /\ Cardinality(Pending(m)) \in Nat /\ Cardinality(Pending(m)') \in Nat
      /\ Cardinality(Requests) \in Nat
  <2>1. Pending(m)' \subseteq Requests
    BY DEF Pending
  <2> QED BY <2>1, FinitePending, SlotAssumption, Fewer
<1>3. usage'[m] + Cardinality(Pending(m)') <= usage[m] + Cardinality(Pending(m))
  BY DEF Closing
<1>4. usage[m] - total + Cardinality(Pending(m)) <= Cardinality(Requests)
  BY DEF Behind
<1>5. usage'[m] - total + Cardinality(Pending(m)') <= Cardinality(Requests)
  BY <1>1, <1>2, <1>3, <1>4
<1> QED BY <1>5 DEF Behind

\* The total is what the table holds, and stays in the report.
LEMMA TotalSteps ==
  ASSUME TInv, [Next]_vars, NEW t \in Threads, job'[t].at \in HasTotal
  PROVE  \/ /\ job[t].at \in HasTotal
            /\ job'[t].month = job[t].month
            /\ job'[t].report.total = job[t].report.total
         \/ /\ job[t].at = "total" /\ UNCHANGED <<usage, request>>
            /\ job'[t].month = job[t].month
            /\ job'[t].report.total = usage[job[t].month - 1]
<1>1. DOMAIN job = Threads /\ \A q \in Threads : job[q] \in Jobs
  BY DEF TInv, IInv, Typed
<1>2. CASE job'[t] = job[t]
  BY <1>2
<1>3. ASSUME NEW q \in Threads, Work(q), job'[t] # job[t]
      PROVE  \/ /\ job[t].at \in HasTotal
                /\ job'[t].month = job[t].month
                /\ job'[t].report.total = job[t].report.total
             \/ /\ job[t].at = "total" /\ UNCHANGED <<usage, request>>
                /\ job'[t].month = job[t].month
                /\ job'[t].report.total = usage[job[t].month - 1]
  <2>1. t = q
    BY <1>1, <1>3 DEF Work, Look, GetTotalSpend, GetSpendByTeam,
       GetSpendByProvider, GetSpendByModel, Query, QueryFails, Send, SendFails,
       Mark, Goto, Drop
  <2>2. PICK j \in Jobs : j = job[t]
    BY <1>1
  <2>3. CASE GetTotalSpend(t)
    <3>1. job'[t] = [j EXCEPT !.at = "team", !.report["total"] = usage[j.month - 1]]
          /\ job[t].at = "total" /\ UNCHANGED <<usage, request>>
      BY <1>1, <2>2, <2>3 DEF GetTotalSpend, Query, At, Period, database, records
    <3> QED BY <2>2, <3>1 DEF Jobs, Amounts
  <2>4. ASSUME NEW section \in {"team", "provider", "model"}, NEW place, NEW next,
               Query(t, place, section, next), place \in HasTotal
        PROVE  /\ job[t].at \in HasTotal
               /\ job'[t].month = job[t].month
               /\ job'[t].report.total = job[t].report.total
    <3>1. job'[t] = [j EXCEPT !.at = next, !.report[section] = usage[Period(t)]]
          /\ job[t].at = place
      BY <1>1, <2>2, <2>4 DEF Query, At
    <3> QED BY <2>2, <2>4, <3>1 DEF Jobs, Amounts
  <2>5. CASE GetSpendByTeam(t) \/ GetSpendByProvider(t) \/ GetSpendByModel(t)
    BY <2>4, <2>5 DEF GetSpendByTeam, GetSpendByProvider, GetSpendByModel, HasTotal
  <2>6. CASE Look(t) \/ QueryFails(t) \/ Send(t) \/ SendFails(t) \/ Mark(t)
    <3>1. job'[t] = Idle \/ (\E place \in {"total", "mark"} :
                               job'[t] = [j EXCEPT !.at = place])
      BY <1>1, <2>2, <2>6 DEF Look, QueryFails, Send, SendFails, Mark, Goto, Drop
    <3>2. job'[t].at \in {"idle", "total", "mark"}
      BY <2>2, <3>1 DEF Idle, Jobs
    <3> QED BY <3>2 DEF HasTotal
  <2> QED BY <1>3, <2>1, <2>3, <2>5, <2>6 DEF Work
<1>4. ASSUME NEW i \in Instances, InstanceStep(i), job'[t] # job[t]
      PROVE  FALSE
  <2>1. job'[t].at \in {"idle", "look", "total"}
    BY <1>1, <1>4 DEF InstanceStep, Start, Listen, Tick, AskByHand, Signal,
       ShutdownReturns, ShutdownTimesOut, Crash, Exit, RunOnce, Idle
  <2> QED BY <2>1 DEF HasTotal
<1>5. ASSUME NEW r \in Requests, RequestStep(r)
      PROVE  job'[t] = job[t]
  BY <1>5 DEF RequestStep, Begin, Stamp, Save, NotSaved
<1>6. CASE NextMonth \/ UNCHANGED vars
  BY <1>2, <1>6 DEF NextMonth, vars
<1> QED BY <1>2, <1>3, <1>4, <1>5, <1>6 DEF Next

\* The only new mail is the report of a thread that sends.
LEMMA NewMail ==
  ASSUME [Next]_vars, NEW mail \in inbox', mail \notin inbox
  PROVE  \E t \in Threads : /\ job[t].at = "send"
                            /\ mail.month = job[t].month
                            /\ mail.report = job[t].report
<1>1. ASSUME NEW t \in Threads, Work(t)
      PROVE  At(t, "send") /\ Deliver(t)
  BY <1>1 DEF Work, Look, GetTotalSpend, GetSpendByTeam, GetSpendByProvider,
     GetSpendByModel, Query, QueryFails, Send, SendFails, Mark, history
<1>2. \/ \E t \in Threads : Work(t)
      \/ inbox' = inbox
  BY DEF Next, NextMonth, RequestStep, Begin, Stamp, Save, NotSaved, InstanceStep,
     Start, Listen, Tick, AskByHand, Signal, ShutdownReturns, ShutdownTimesOut,
     Crash, history, vars
<1> QED BY <1>1, <1>2 DEF At, Deliver

LEMMA AgreeStep == AgreeInv /\ [Next]_vars => AgreeInv'
<1> SUFFICES ASSUME AgreeInv, [Next]_vars PROVE AgreeInv'
  OBVIOUS
<1>1. TInv /\ TInv' /\ Closing
  BY TypeStep, StepCloses DEF AgreeInv
<1>2. month \in Nat /\ month <= MaxMonth /\ month' \in Nat /\ month <= month'
      /\ MaxMonth \in Nat
  <2>1. month \in Months /\ month' \in Months
    BY <1>1 DEF TInv, IInv, Typed
  <2>2. month' = month \/ month' = month + 1
    BY DEF Next, NextMonth, RequestStep, Begin, Stamp, Save, NotSaved, Work, Look,
       GetTotalSpend, GetSpendByTeam, GetSpendByProvider, GetSpendByModel, Query,
       QueryFails, Send, SendFails, Mark, InstanceStep, Start, Listen, Tick,
       AskByHand, Signal, ShutdownReturns, ShutdownTimesOut, Crash, vars
  <2> QED BY <2>1, <2>2, BoundAssumption DEF Months
<1>3. ASSUME NEW t \in Threads, job[t].at \in HasTotal \cup {"total"}
      PROVE  /\ job[t].month \in 1..month
             /\ job[t].month - 1 \in 0..MaxMonth /\ job[t].month - 1 < month
             /\ job[t].report.total \in Nat
  <2>1. job[t] # Idle
    BY <1>3 DEF HasTotal, Idle
  <2>2. job[t].month \in 1..month
    BY <1>1, <2>1 DEF TInv, JobTyped
  <2>3. job[t].report.total \in Nat
    BY <1>1 DEF TInv, IInv, Typed, Jobs, Amounts
  <2> QED BY <1>2, <2>2, <2>3
<1>4. ASSUME NEW t \in Threads, job'[t].at \in HasTotal
      PROVE  Behind(job[t].month - 1, job[t].report.total)'
  <2>1. CASE /\ job[t].at \in HasTotal
             /\ job'[t].month = job[t].month
             /\ job'[t].report.total = job[t].report.total
    <3>1. PICK m \in 0..MaxMonth, total \in Nat :
            m = job[t].month - 1 /\ total = job[t].report.total /\ m < month
      BY <1>3, <2>1
    <3>2. Behind(m, total)
      BY <2>1, <3>1 DEF AgreeInv
    <3>3. Behind(m, total)'
      BY <1>1, <3>1, <3>2, BehindStays
    <3>4. m = job'[t].month - 1 /\ total = job'[t].report.total
      BY <2>1, <3>1
    <3> QED BY <3>3, <3>4 DEF Behind, Pending
  <2>2. CASE /\ job[t].at = "total" /\ UNCHANGED <<usage, request>>
             /\ job'[t].month = job[t].month
             /\ job'[t].report.total = usage[job[t].month - 1]
    <3>1. PICK m \in 0..MaxMonth : m = job[t].month - 1
      BY <1>3, <2>2
    <3>2. PICK u \in Nat : u = usage[m]
      BY <1>1 DEF TInv, IInv, Typed
    <3>3. u - u + Cardinality(Pending(m)) <= Cardinality(Requests)
      BY FinitePending
    <3>4. m = job'[t].month - 1 /\ u = job'[t].report.total /\ u = usage'[m]
      BY <2>2, <3>1, <3>2
    <3>5. Pending(m)' = Pending(m)
      BY <2>2 DEF Pending
    <3>6. usage'[m] - u + Cardinality(Pending(m)') <= Cardinality(Requests)
      BY <3>3, <3>4, <3>5
    <3> QED BY <3>4, <3>6 DEF Behind, Pending
  <2> QED BY <1>1, <1>4, <2>1, <2>2, TotalSteps
<1>5. ASSUME NEW mail \in inbox'
      PROVE  mail.month <= month' /\ Behind(mail.month - 1, mail.report.total)'
  <2>1. PICK m \in 0..MaxMonth, total \in Nat :
          /\ m = mail.month - 1 /\ total = mail.report.total /\ m < month
          /\ mail.month <= month /\ mail.month \in Nat /\ Behind(m, total)
    <3>1. CASE mail \in inbox
      <4>1. mail.month \in Months /\ mail.report.total \in Nat
            /\ mail.month <= month /\ Behind(mail.month - 1, mail.report.total)
        BY <1>1, <3>1 DEF AgreeInv, TInv, IInv, Typed, Amounts
      <4>2. mail.month - 1 \in 0..MaxMonth /\ mail.month - 1 < month
            /\ mail.month \in Nat
        BY <1>2, <4>1 DEF Months
      <4> QED BY <4>1, <4>2
    <3>2. CASE mail \notin inbox
      <4>1. PICK t \in Threads : /\ job[t].at = "send"
                                 /\ mail.month = job[t].month
                                 /\ mail.report = job[t].report
        BY <3>2, NewMail
      <4>2. /\ job[t].month \in 1..month
            /\ job[t].month - 1 \in 0..MaxMonth /\ job[t].month - 1 < month
            /\ job[t].report.total \in Nat
        BY <1>3, <4>1 DEF HasTotal
      <4>3. Behind(job[t].month - 1, job[t].report.total)
        BY <4>1 DEF AgreeInv, HasTotal
      <4> QED BY <1>2, <4>1, <4>2, <4>3
    <3> QED BY <3>1, <3>2
  <2>2. Behind(m, total)'
    BY <1>1, <2>1, BehindStays
  <2> QED BY <1>2, <2>1, <2>2
<1> QED BY <1>1, <1>4, <1>5 DEF AgreeInv

LEMMA SpecAgree == Spec => []AgreeInv
<1>1. Init => AgreeInv
  BY TypeInit DEF Init, AgreeInv, Idle, HasTotal
<1> QED BY <1>1, AgreeStep, PTL DEF Spec

\* The sections of a report never disagree, with each other or with the usage
\* table, by more than the records of the requests in flight when the month ended.
THEOREM SectionsAlwaysAgree == Spec => []SectionsAgree
<1>1. AgreeInv => SectionsAgree
  <2> SUFFICES ASSUME AgreeInv, NEW mail \in inbox
               PROVE  usage[mail.month - 1] - mail.report.total
                        <= Cardinality(Requests)
    BY DEF AgreeInv, TInv, IInv, SectionsAgree
  <2>1. mail.month \in Months /\ mail.report.total \in Nat
        /\ Behind(mail.month - 1, mail.report.total)
    BY DEF AgreeInv, TInv, IInv, Typed, Amounts
  <2>2. PICK u \in Nat : u = usage[mail.month - 1]
    BY <2>1, CoveredMonth DEF AgreeInv, TInv, IInv, Typed
  <2> QED BY <2>1, <2>2, FinitePending DEF Behind
<1> QED BY <1>1, SpecAgree, PTL

-----------------------------------------------------------------------------
(***************************************************************************)
(* How often a report is delivered.  Until its month is marked, every      *)
(* delivery has a cause that is over (a failure, a stop, a report asked    *)
(* for by hand) or is that of a scheduler about to mark it; a run that is  *)
(* cut off by a shutdown is accounted to that stop.  Once it is marked, no *)
(* scheduler starts on it, and those that had can deliver it once more.    *)
(***************************************************************************)
Sched(i) == job[<<i, "scheduler">>]
Admin(i) == job[<<i, "admin">>]

Underway == HasTotal \cup {"total"}

Making(m)  == {i \in Instances : Sched(i).at \in Underway /\ Sched(i).month = m}
Marking(m) == {i \in Instances : Sched(i).at = "mark" /\ Sched(i).month = m}
ByHand(m)  == {i \in Instances : Admin(i).at # "idle" /\ Admin(i).month = m}
CutOff     == {i \in Instances : /\ process[i] = "draining"
                                 /\ Sched(i).at # "idle"}

Causes == manual + faults + stops

Accounted(m) ==
  /\ m \notin marked =>
       delivered[m] + Cardinality(ByHand(m)) + Cardinality(CutOff)
         <= Cardinality(Marking(m)) + Causes
  /\ m \in marked =>
       delivered[m] + Cardinality(ByHand(m)) + Cardinality(Making(m))
         <= Cardinality(Instances) + Causes

\* The admin endpoint neither looks nor marks, and nothing runs in a process that
\* is down.
Lives == \A i \in Instances :
  /\ Admin(i).at \notin {"look", "mark"}
  /\ process[i] = "down" => Sched(i) = Idle /\ Admin(i) = Idle

Counters == manual \in Nat /\ faults \in Nat /\ stops \in Nat

CountInv == TInv /\ Counters /\ Lives /\ \A m \in Months : Accounted(m)

\* One where i is in S.
In(i, S) == IF i \in S THEN 1 ELSE 0

\* Two sets of instances that differ at i at most.
LEMMA Apart ==
  ASSUME NEW S \in SUBSET Instances, NEW T \in SUBSET Instances, NEW i,
         S \ {i} = T \ {i}
  PROVE  \E n \in Nat : /\ Cardinality(S) = n + In(i, S)
                        /\ Cardinality(T) = n + In(i, T)
<1>1. ASSUME NEW U \in SUBSET Instances
      PROVE  /\ IsFiniteSet(U \ {i}) /\ Cardinality(U \ {i}) \in Nat
             /\ Cardinality(U) = Cardinality(U \ {i}) + In(i, U)
  <2>1. IsFiniteSet(U) /\ Cardinality(U) \in Nat
        /\ IsFiniteSet(U \ {i}) /\ Cardinality(U \ {i}) \in Nat
    BY SlotAssumption, Fewer
  <2>2. CASE i \in U
    <3>1. Cardinality(U \ {i}) = Cardinality(U) - 1
      BY <2>1, <2>2, FS_RemoveElement
    <3> QED BY <2>1, <2>2, <3>1 DEF In
  <2>3. CASE i \notin U
    <3>1. Cardinality(U \ {i}) = Cardinality(U)
      <4>1. U \ {i} = U
        BY <2>3
      <4> QED BY <4>1
    <3>2. In(i, U) = 0
      BY <2>3 DEF In
    <3> QED BY <2>1, <3>1, <3>2
  <2> QED BY <2>1, <2>2, <2>3
<1>2. Cardinality(S \ {i}) = Cardinality(T \ {i})
  OBVIOUS
<1> QED BY <1>1, <1>2

LEMMA CausesCounted ==
  /\ Counters => Causes \in Nat
  /\ Counters' => Causes' \in Nat
<1>1. \A a, b, c \in Nat : a + b + c \in Nat
  OBVIOUS
<1> QED BY <1>1 DEF Counters, Causes

\* The schedulers that are putting a report together and those that mark it are
\* different ones.
LEMMA MakersAndMarkers ==
  ASSUME NEW m
  PROVE  /\ Cardinality(Making(m)) \in Nat /\ Cardinality(Marking(m)) \in Nat
         /\ Cardinality(Instances) \in Nat
         /\ Cardinality(Making(m)) + Cardinality(Marking(m))
              <= Cardinality(Instances)
<1>1. /\ Making(m) \subseteq Instances /\ Marking(m) \subseteq Instances
      /\ Making(m) \cap Marking(m) = {}
  BY DEF Making, Marking, Underway, HasTotal
<1>2. /\ IsFiniteSet(Making(m)) /\ IsFiniteSet(Marking(m))
      /\ Cardinality(Making(m)) \in Nat /\ Cardinality(Marking(m)) \in Nat
      /\ Cardinality(Instances) \in Nat
  BY <1>1, SlotAssumption, Fewer
<1>3. Cardinality(Making(m) \cup Marking(m))
        = Cardinality(Making(m)) + Cardinality(Marking(m))
          - Cardinality(Making(m) \cap Marking(m))
  BY <1>2, FS_Union
<1>4. Cardinality(Making(m) \cap Marking(m)) = 0
  BY <1>1, FS_EmptySet
<1>5. Making(m) \cup Marking(m) \subseteq Instances
  BY <1>1
<1>6. Cardinality(Making(m) \cup Marking(m)) <= Cardinality(Instances)
  BY <1>5, SlotAssumption, Fewer
<1> QED BY <1>2, <1>3, <1>4, <1>6

\* What a step of instance i may do to the deliveries of month m.
Balanced(i, m) ==
  /\ m \notin marked /\ m \notin marked' =>
       delivered'[m] + In(i, ByHand(m)') + In(i, CutOff')
           + In(i, Marking(m)) + Causes
         <= delivered[m] + In(i, ByHand(m)) + In(i, CutOff)
           + In(i, Marking(m)') + Causes'
  /\ m \in marked =>
       /\ m \in marked'
       /\ delivered'[m] + In(i, ByHand(m)') + In(i, Making(m)') + Causes
            <= delivered[m] + In(i, ByHand(m)) + In(i, Making(m)) + Causes'
  /\ m \notin marked /\ m \in marked' =>
       /\ delivered'[m] = delivered[m] /\ Causes' = Causes
       /\ In(i, ByHand(m)') = In(i, ByHand(m))
       /\ In(i, Making(m)') = In(i, Making(m))

\* The other instances take no part in it.
OthersRest(i) == \A j \in Instances \ {i} :
  /\ process'[j] = process[j]
  /\ job'[<<j, "scheduler">>] = job[<<j, "scheduler">>]
  /\ job'[<<j, "admin">>] = job[<<j, "admin">>]

LEMMA BalancedStep ==
  ASSUME TInv, TInv', Counters, Counters', NEW i \in Instances, OthersRest(i),
         NEW m \in Months, Balanced(i, m), Accounted(m)
  PROVE  Accounted(m)'
<1>1. /\ delivered[m] \in Nat /\ delivered'[m] \in Nat
      /\ Causes \in Nat /\ Causes' \in Nat
  <2>1. delivered[m] \in Nat /\ delivered'[m] \in Nat
    BY DEF TInv, IInv, Typed
  <2>2. Causes \in Nat /\ Causes' \in Nat
    BY CausesCounted
  <2> QED BY <2>1, <2>2
<1>2. PICK b \in Nat : /\ Cardinality(ByHand(m)) = b + In(i, ByHand(m))
                       /\ Cardinality(ByHand(m)') = b + In(i, ByHand(m)')
  <2>1. ByHand(m) \ {i} = ByHand(m)' \ {i}
        /\ ByHand(m) \in SUBSET Instances /\ ByHand(m)' \in SUBSET Instances
    BY DEF ByHand, Admin, OthersRest
  <2> QED BY <2>1, Apart
<1>3. PICK c \in Nat : /\ Cardinality(CutOff) = c + In(i, CutOff)
                       /\ Cardinality(CutOff') = c + In(i, CutOff')
  <2>1. CutOff \ {i} = CutOff' \ {i}
        /\ CutOff \in SUBSET Instances /\ CutOff' \in SUBSET Instances
    BY DEF CutOff, Sched, OthersRest
  <2> QED BY <2>1, Apart
<1>4. PICK a \in Nat : /\ Cardinality(Marking(m)) = a + In(i, Marking(m))
                       /\ Cardinality(Marking(m)') = a + In(i, Marking(m)')
  <2>1. Marking(m) \ {i} = Marking(m)' \ {i}
        /\ Marking(m) \in SUBSET Instances /\ Marking(m)' \in SUBSET Instances
    BY DEF Marking, Sched, OthersRest
  <2> QED BY <2>1, Apart
<1>5. PICK p \in Nat : /\ Cardinality(Making(m)) = p + In(i, Making(m))
                       /\ Cardinality(Making(m)') = p + In(i, Making(m)')
  <2>1. Making(m) \ {i} = Making(m)' \ {i}
        /\ Making(m) \in SUBSET Instances /\ Making(m)' \in SUBSET Instances
    BY DEF Making, Sched, OthersRest
  <2> QED BY <2>1, Apart
<1>6. /\ Cardinality(Instances) \in Nat
      /\ Cardinality(Making(m)) + Cardinality(Marking(m))
           <= Cardinality(Instances)
  BY MakersAndMarkers
<1>7. \A S : In(i, S) \in {0, 1}
  BY DEF In
<1>8. CASE m \notin marked /\ m \notin marked'
  BY <1>1, <1>2, <1>3, <1>4, <1>7, <1>8 DEF Balanced, Accounted
<1>9. CASE m \in marked
  <2>1. delivered[m] + Cardinality(ByHand(m)) + Cardinality(Making(m))
          <= Cardinality(Instances) + Causes
    BY <1>9 DEF Accounted
  <2>2. /\ m \in marked'
        /\ delivered'[m] + In(i, ByHand(m)') + In(i, Making(m)') + Causes
             <= delivered[m] + In(i, ByHand(m)) + In(i, Making(m)) + Causes'
    BY <1>9 DEF Balanced
  <2>3. delivered'[m] + Cardinality(ByHand(m)') + Cardinality(Making(m)')
          <= Cardinality(Instances) + Causes'
    BY <1>1, <1>2, <1>5, <1>6, <1>7, <2>1, <2>2
  <2> QED BY <2>2, <2>3 DEF Accounted
<1>10. CASE m \notin marked /\ m \in marked'
  <2>1. delivered[m] + Cardinality(ByHand(m)) + Cardinality(CutOff)
          <= Cardinality(Marking(m)) + Causes
    BY <1>10 DEF Accounted
  <2>2. /\ Cardinality(ByHand(m)') = Cardinality(ByHand(m))
        /\ Cardinality(Making(m)') = Cardinality(Making(m))
        /\ Causes' = Causes /\ delivered'[m] = delivered[m]
    BY <1>2, <1>5, <1>10 DEF Balanced
  <2>3. Cardinality(ByHand(m)) \in Nat /\ Cardinality(CutOff) \in Nat
        /\ Cardinality(Marking(m)) \in Nat /\ Cardinality(Making(m)) \in Nat
    BY <1>2, <1>3, <1>4, <1>5, <1>7
  <2>4. delivered'[m] + Cardinality(ByHand(m)') + Cardinality(Making(m)')
          <= Cardinality(Instances) + Causes'
    BY <1>1, <1>6, <2>1, <2>2, <2>3
  <2> QED BY <1>10, <2>4 DEF Accounted
<1> QED BY <1>8, <1>9, <1>10

\* What the four sets say of one instance.
LEMMA OneInstance ==
  ASSUME NEW i \in Instances, NEW m
  PROVE  /\ In(i, ByHand(m)) = IF Admin(i).at # "idle" /\ Admin(i).month = m
                               THEN 1 ELSE 0
         /\ In(i, Making(m)) = IF Sched(i).at \in Underway /\ Sched(i).month = m
                               THEN 1 ELSE 0
         /\ In(i, Marking(m)) = IF Sched(i).at = "mark" /\ Sched(i).month = m
                                THEN 1 ELSE 0
         /\ In(i, CutOff) = IF process[i] = "draining" /\ Sched(i).at # "idle"
                            THEN 1 ELSE 0
         /\ In(i, ByHand(m)') = IF Admin(i)'.at # "idle" /\ Admin(i)'.month = m
                                THEN 1 ELSE 0
         /\ In(i, Making(m)') = IF /\ Sched(i)'.at \in Underway
                                   /\ Sched(i)'.month = m
                                THEN 1 ELSE 0
         /\ In(i, Marking(m)') = IF Sched(i)'.at = "mark" /\ Sched(i)'.month = m
                                 THEN 1 ELSE 0
         /\ In(i, CutOff') = IF process'[i] = "draining" /\ Sched(i)'.at # "idle"
                             THEN 1 ELSE 0
BY DEF In, ByHand, Making, Marking, CutOff

-----------------------------------------------------------------------------
(* What a step of a report does to the books *)

Once(m) == delivered' = [delivered EXCEPT ![m] = @ + 1]

\* The run goes on: it found its month unmarked, or reads another section.
GoesOn(t) ==
  /\ UNCHANGED <<marked, delivered, faults>>
  /\ job'[t].at \in Underway /\ job'[t].month = job[t].month
  /\ \/ job[t].at \in Underway
     \/ job[t].at = "look" /\ job[t].month \notin marked

\* It ends: its month is marked, something failed, or it is cut off.
Ends(t) ==
  /\ UNCHANGED marked /\ job'[t] = Idle
  /\ \/ faults' = faults + 1 /\ UNCHANGED delivered
     \/ faults' = faults + 1 /\ job[t].at = "send" /\ Once(job[t].month)
     \/ /\ UNCHANGED <<faults, delivered>>
        /\ Cancelled(t) \/ job[t].at = "look"

Sends(t) ==
  /\ UNCHANGED <<marked, faults>>
  /\ job[t].at = "send" /\ Once(job[t].month)
  /\ \/ Scheduled(t) /\ job'[t].at = "mark" /\ job'[t].month = job[t].month
     \/ ~Scheduled(t) /\ job'[t] = Idle

Marks(t) ==
  /\ UNCHANGED <<faults, delivered>>
  /\ job[t].at = "mark" /\ ~Cancelled(t)
  /\ marked' = marked \cup {job[t].month} /\ job'[t] = Idle

LEMMA WorkEffect ==
  ASSUME TInv, NEW t \in Threads, Work(t)
  PROVE  /\ UNCHANGED <<process, manual, stops>>
         /\ \A q \in Threads \ {t} : job'[q] = job[q]
         /\ job[t].at # "idle"
         /\ GoesOn(t) \/ Ends(t) \/ Sends(t) \/ Marks(t)
<1>1. DOMAIN job = Threads
  BY DEF TInv, IInv, Typed
<1>2. PICK j \in Jobs : j = job[t]
  BY DEF TInv, IInv, Typed
<1>3. UNCHANGED <<process, manual, stops>>
  BY DEF Work, Look, GetTotalSpend, GetSpendByTeam, GetSpendByProvider,
         GetSpendByModel, Query, QueryFails, Send, SendFails, Mark, history
<1>4. \A q \in Threads \ {t} : job'[q] = job[q]
  BY <1>1 DEF Work, Look, GetTotalSpend, GetSpendByTeam, GetSpendByProvider,
              GetSpendByModel, Query, QueryFails, Send, SendFails, Mark, Goto, Drop
<1>5. job[t].at # "idle"
  BY DEF Work, Look, GetTotalSpend, GetSpendByTeam, GetSpendByProvider,
         GetSpendByModel, Query, QueryFails, Send, SendFails, Mark, At
<1>6. CASE Look(t)
  <2>1. UNCHANGED <<marked, delivered, faults>> /\ job[t].at = "look"
    BY <1>6 DEF Look, At, database, history
  <2>2. CASE job[t].month \in marked
    BY <1>1, <1>3, <1>4, <1>5, <1>6, <2>1, <2>2 DEF Look, Drop, Ends
  <2>3. CASE job[t].month \notin marked
    <3>1. job'[t] = [j EXCEPT !.at = "total"]
      BY <1>1, <1>2, <1>6, <2>3 DEF Look, Goto
    <3>2. job'[t].at \in Underway /\ job'[t].month = job[t].month
      BY <1>2, <3>1 DEF Jobs, Underway
    <3> QED BY <1>3, <1>4, <1>5, <2>1, <2>3, <3>2 DEF GoesOn
  <2> QED BY <2>2, <2>3
<1>7. CASE \/ GetTotalSpend(t) \/ GetSpendByTeam(t)
           \/ GetSpendByProvider(t) \/ GetSpendByModel(t)
  <2>1. ASSUME NEW place \in Underway, NEW section, NEW next \in Underway,
               Query(t, place, section, next)
        PROVE  GoesOn(t)
    <3>1. /\ UNCHANGED <<marked, delivered, faults>> /\ job[t].at = place
          /\ job'[t] = [j EXCEPT !.at = next, !.report[section] = usage[Period(t)]]
      BY <1>1, <1>2, <2>1 DEF Query, At, database, history
    <3>2. job'[t].at = next /\ job'[t].month = j.month
      BY <3>1 DEF Jobs
    <3> QED BY <1>2, <2>1, <3>1, <3>2 DEF GoesOn
  <2>2. GoesOn(t)
    BY <1>7, <2>1 DEF GetTotalSpend, GetSpendByTeam, GetSpendByProvider,
                      GetSpendByModel, Underway, HasTotal
  <2> QED BY <1>3, <1>4, <1>5, <2>2
<1>8. CASE QueryFails(t)
  <2>1. /\ job'[t] = Idle /\ UNCHANGED <<marked, delivered>>
        /\ (Cancelled(t) /\ faults' = faults) \/ faults' = faults + 1
    BY <1>1, <1>8 DEF QueryFails, Drop, Fault, database
  <2> QED BY <1>3, <1>4, <1>5, <2>1 DEF Ends
<1>9. CASE Send(t)
  <2>1. /\ UNCHANGED <<marked, faults>> /\ job[t].at = "send"
        /\ Once(job[t].month)
    BY <1>9 DEF Send, At, Deliver, Once, database
  <2>2. CASE Scheduled(t)
    <3>1. job'[t] = [j EXCEPT !.at = "mark"]
      BY <1>1, <1>2, <1>9, <2>2 DEF Send, Goto
    <3>2. job'[t].at = "mark" /\ job'[t].month = job[t].month
      BY <1>2, <3>1 DEF Jobs
    <3> QED BY <1>3, <1>4, <1>5, <2>1, <2>2, <3>2 DEF Sends
  <2>3. CASE ~Scheduled(t)
    <3>1. job'[t] = Idle
      BY <1>1, <1>9, <2>3 DEF Send, Drop
    <3> QED BY <1>3, <1>4, <1>5, <2>1, <2>3, <3>1 DEF Sends
  <2> QED BY <2>2, <2>3
<1>10. CASE SendFails(t)
  <2>1. /\ job'[t] = Idle /\ UNCHANGED marked /\ faults' = faults + 1
        /\ job[t].at = "send"
        /\ Once(job[t].month) \/ UNCHANGED delivered
    BY <1>1, <1>10 DEF SendFails, At, Drop, Fault, Deliver, Once, database
  <2> QED BY <1>3, <1>4, <1>5, <2>1 DEF Ends
<1>11. CASE Mark(t)
  <2>1. /\ job'[t] = Idle /\ UNCHANGED <<faults, delivered>>
        /\ job[t].at = "mark" /\ ~Cancelled(t)
        /\ marked' = marked \cup {job[t].month}
    BY <1>1, <1>11 DEF Mark, At, Drop, history
  <2> QED BY <1>3, <1>4, <1>5, <2>1 DEF Marks
<1> QED BY <1>6, <1>7, <1>8, <1>9, <1>10, <1>11 DEF Work

LEMMA OnceMore ==
  ASSUME TInv, NEW n \in Months, Once(n), NEW m \in Months
  PROVE  /\ delivered[m] \in Nat
         /\ delivered'[m] = IF m = n THEN delivered[m] + 1 ELSE delivered[m]
<1>1. delivered \in [Months -> Nat]
  BY DEF TInv, IInv, Typed
<1> QED BY <1>1 DEF Once

\* A step of the thread t of instance i keeps the books.
LEMMA WorkBalanced ==
  ASSUME CountInv, NEW i \in Instances, NEW kind \in {"scheduler", "admin"},
         Work(<<i, kind>>)
  PROVE  /\ Counters' /\ Lives' /\ OthersRest(i)
         /\ \A m \in Months : Balanced(i, m)
<1> DEFINE t == <<i, kind>>
<1>1. t \in Threads
  BY DEF Threads
<1>2. /\ UNCHANGED <<process, manual, stops>>
      /\ \A q \in Threads \ {t} : job'[q] = job[q]
      /\ job[t].at # "idle"
      /\ GoesOn(t) \/ Ends(t) \/ Sends(t) \/ Marks(t)
  BY <1>1, WorkEffect DEF CountInv
<1> HIDE DEF t
<1>3. /\ job[t].month \in Months
      /\ \A m \in Months : delivered[m] \in Nat
  BY <1>1, <1>2 DEF CountInv, TInv, IInv, Typed, InTheMaking
<1>4. Counters'
  BY <1>2 DEF CountInv, Counters, GoesOn, Ends, Sends, Marks
<1>5. /\ Causes \in Nat /\ Causes' \in Nat
      /\ faults' = faults => Causes' = Causes
      /\ faults' = faults + 1 => Causes' = Causes + 1
  <2>1. manual \in Nat /\ faults \in Nat /\ stops \in Nat
    BY DEF CountInv, Counters
  <2>2. manual' = manual /\ stops' = stops
    BY <1>2
  <2>3. Causes \in Nat /\ Causes' \in Nat
    BY <1>4, CausesCounted DEF CountInv
  <2> QED BY <2>1, <2>2, <2>3 DEF Causes
<1>6. OthersRest(i)
  <2>1. \A j \in Instances \ {i}, k \in {"scheduler", "admin"} :
          <<j, k>> \in Threads \ {t}
    BY DEF t, Threads
  <2> QED BY <1>2, <2>1 DEF OthersRest
<1>7. /\ t[1] = i
      /\ Scheduled(t) <=> kind = "scheduler"
      /\ kind = "scheduler" => job[t] = Sched(i) /\ job'[t] = Sched(i)'
                               /\ Admin(i)' = Admin(i)
      /\ kind = "admin" => job[t] = Admin(i) /\ job'[t] = Admin(i)'
                           /\ Sched(i)' = Sched(i)
  <2>1. /\ kind = "scheduler" => <<i, "admin">> \in Threads \ {t}
        /\ kind = "admin" => <<i, "scheduler">> \in Threads \ {t}
    BY DEF t, Threads
  <2> QED BY <1>2, <2>1 DEF t, Scheduled, Sched, Admin
<1>8. Lives'
  <2>1. Admin(i)'.at \notin {"look", "mark"}
    BY <1>2, <1>7 DEF CountInv, Lives, GoesOn, Ends, Sends, Marks, Underway,
                      HasTotal, Idle
  <2>2. process'[i] # "down"
    BY <1>2, <1>7 DEF CountInv, Lives, Idle
  <2> QED BY <1>6, <2>1, <2>2 DEF CountInv, Lives, OthersRest, Sched, Admin
<1>9. ASSUME NEW m \in Months PROVE Balanced(i, m)
  <2> DEFINE n == job[t].month
  <2>1. /\ UNCHANGED delivered => delivered'[m] = delivered[m]
        /\ Once(n) => delivered'[m] = IF m = n THEN delivered[m] + 1
                                      ELSE delivered[m]
    BY <1>3, OnceMore DEF CountInv
  <2>2. process'[i] = process[i]
        /\ (Cancelled(t) <=> kind = "scheduler" /\ process[i] = "draining")
    BY <1>2, <1>7 DEF Cancelled
  <2>3. CASE kind = "scheduler"
    <3>1. /\ job[t] = Sched(i) /\ job'[t] = Sched(i)' /\ Admin(i)' = Admin(i)
          /\ Scheduled(t)
      BY <1>7, <2>3
    <3>2. CASE GoesOn(t)
      BY <1>2, <1>3, <1>5, <2>1, <2>2, <3>1, <3>2, OneInstance
         DEF GoesOn, Balanced, Underway, HasTotal
    <3>3. CASE Ends(t)
      <4>1. Sched(i)'.at = "idle" /\ UNCHANGED marked
        BY <3>1, <3>3 DEF Ends, Idle
      <4>2. /\ In(i, ByHand(m)') = In(i, ByHand(m))
            /\ In(i, Making(m)') = 0 /\ In(i, Marking(m)') = 0
            /\ In(i, CutOff') = 0
        BY <3>1, <4>1, OneInstance DEF Underway, HasTotal
      <4>3. CASE faults' = faults + 1
        <5>1. delivered'[m] = delivered[m]
              \/ /\ delivered'[m] = delivered[m] + 1 /\ m = n
                 /\ Sched(i).at = "send"
          BY <2>1, <3>1, <3>3, <4>3 DEF Ends
        <5> QED BY <1>3, <1>5, <2>1, <3>1, <4>1, <4>2, <4>3, <5>1, OneInstance
                DEF Balanced, Underway, HasTotal
      <4>4. CASE /\ UNCHANGED <<faults, delivered>>
                 /\ Cancelled(t) \/ job[t].at = "look"
        <5>1. In(i, Marking(m)) <= In(i, CutOff)
          BY <1>2, <2>2, <3>1, <4>4, OneInstance
        <5> QED BY <1>3, <1>5, <2>1, <4>1, <4>2, <4>4, <5>1, OneInstance
                DEF Balanced
      <4> QED BY <3>3, <4>3, <4>4 DEF Ends
    <3>4. CASE Sends(t)
      BY <1>2, <1>3, <1>5, <2>1, <2>2, <3>1, <3>4, OneInstance
         DEF Sends, Balanced, Underway, HasTotal
    <3>5. CASE Marks(t)
      <4>1. /\ Sched(i)'.at = "idle" /\ Sched(i).at = "mark"
            /\ process[i] # "draining"
            /\ Causes' = Causes /\ delivered'[m] = delivered[m]
            /\ marked' = marked \cup {n}
        BY <1>5, <2>1, <2>2, <2>3, <3>1, <3>5 DEF Marks, Idle
      <4>2. /\ In(i, ByHand(m)') = In(i, ByHand(m))
            /\ In(i, Making(m)') = 0 /\ In(i, Making(m)) = 0
            /\ In(i, CutOff') = 0 /\ In(i, CutOff) = 0
            /\ m # n => In(i, Marking(m)) = 0 /\ In(i, Marking(m)') = 0
        BY <2>2, <3>1, <4>1, OneInstance DEF Underway, HasTotal
      <4> QED BY <1>3, <1>5, <4>1, <4>2, OneInstance DEF Balanced
    <3> QED BY <1>2, <3>2, <3>3, <3>4, <3>5
  <2>4. CASE kind = "admin"
    <3>1. /\ job[t] = Admin(i) /\ job'[t] = Admin(i)' /\ Sched(i)' = Sched(i)
          /\ ~Scheduled(t) /\ Admin(i).at \notin {"look", "mark"}
      BY <1>7, <2>4 DEF CountInv, Lives
    <3>2. CASE GoesOn(t)
      BY <1>2, <1>3, <1>5, <2>1, <2>2, <3>1, <3>2, OneInstance
         DEF GoesOn, Balanced, Underway, HasTotal
    <3>3. CASE Ends(t)
      BY <1>2, <1>3, <1>5, <2>1, <2>2, <2>4, <3>1, <3>3, OneInstance
         DEF Ends, Balanced, Underway, HasTotal, Idle
    <3>4. CASE Sends(t)
      BY <1>2, <1>3, <1>5, <2>1, <2>2, <3>1, <3>4, OneInstance
         DEF Sends, Balanced, Underway, HasTotal, Idle
    <3>5. ~Marks(t)
      BY <3>1 DEF Marks
    <3> QED BY <1>2, <3>2, <3>3, <3>4, <3>5
  <2> QED BY <2>3, <2>4
<1> QED BY <1>4, <1>6, <1>8, <1>9

\* And so does a step of its process.
Exits(i) == /\ process'[i] = "down" /\ Sched(i)' = Idle /\ Admin(i)' = Idle
            /\ \/ process[i] = "draining" /\ UNCHANGED stops
               \/ process[i] # "draining" /\ stops' = stops + 1
            /\ UNCHANGED manual
Begins(i) == /\ Sched(i) = Idle /\ Sched(i)'.at = "look" /\ Admin(i)' = Admin(i)
             /\ process'[i] \notin {"down", "draining"} /\ UNCHANGED <<manual, stops>>
Listens(i) == /\ Sched(i)' = Sched(i) /\ Admin(i)' = Admin(i)
              /\ process'[i] \notin {"down", "draining"}
              /\ UNCHANGED <<manual, stops>>
Asked(i) == /\ Admin(i) = Idle /\ Admin(i)'.at = "total" /\ Sched(i)' = Sched(i)
            /\ process'[i] = process[i] /\ process[i] # "down"
            /\ manual' = manual + 1 /\ UNCHANGED stops
Drains(i) == /\ Sched(i)' = Sched(i) /\ Admin(i)' = Admin(i)
             /\ process'[i] = "draining" /\ stops' = stops + 1 /\ UNCHANGED manual

LEMMA InstanceEffect ==
  ASSUME TInv, Lives, NEW i \in Instances, InstanceStep(i)
  PROVE  /\ UNCHANGED <<marked, delivered, faults>> /\ OthersRest(i)
         /\ Exits(i) \/ Begins(i) \/ Listens(i) \/ Asked(i) \/ Drains(i)
<1>1. /\ DOMAIN job = Threads /\ DOMAIN process = Instances
      /\ \A j \in Instances : <<j, "scheduler">> \in Threads
                              /\ <<j, "admin">> \in Threads
  BY DEF TInv, IInv, Typed, Processes, Threads
<1>2. UNCHANGED <<marked, delivered, faults>>
  BY DEF InstanceStep, Start, Listen, Tick, AskByHand, Signal, ShutdownReturns,
         ShutdownTimesOut, Crash, database, history
<1>3. CASE ShutdownReturns(i) \/ ShutdownTimesOut(i) \/ Crash(i)
  <2>1. Exit(i)
    BY <1>3 DEF ShutdownReturns, ShutdownTimesOut, Crash
  <2>2. /\ process'[i] = "down" /\ Sched(i)' = Idle /\ Admin(i)' = Idle
        /\ OthersRest(i)
    BY <1>1, <2>1 DEF Exit, Sched, Admin, OthersRest
  <2>3. /\ \/ process[i] = "draining" /\ UNCHANGED stops
           \/ process[i] # "draining" /\ stops' = stops + 1
        /\ UNCHANGED manual
    BY <1>3 DEF ShutdownReturns, ShutdownTimesOut, Crash, history
  <2> QED BY <1>2, <2>2, <2>3 DEF Exits
<1>4. CASE Tick(i) \/ (Start(i) /\ RunOnStartup)
  <2>1. RunOnce(i) /\ UNCHANGED <<manual, stops>>
    BY <1>4 DEF Tick, Start, history
  <2>2. /\ Sched(i)'.at = "look" /\ Admin(i)' = Admin(i)
        /\ \A t \in Threads : t # <<i, "scheduler">> => job'[t] = job[t]
    BY <1>1, <2>1 DEF RunOnce, Sched, Admin
  <2>3. /\ process'[i] \notin {"down", "draining"}
        /\ \A j \in Instances \ {i} : process'[j] = process[j]
    BY <1>1, <1>4 DEF Tick, Start, Listening
  <2>4. Sched(i) = Idle
    <3>1. CASE Tick(i)
      BY <3>1 DEF Tick, Sched
    <3>2. CASE Start(i)
      BY <3>2 DEF Start, Lives
    <3> QED BY <1>4, <3>1, <3>2
  <2>5. OthersRest(i)
    BY <1>1, <2>2, <2>3 DEF OthersRest
  <2> QED BY <1>2, <2>1, <2>2, <2>3, <2>4, <2>5 DEF Begins
<1>5. CASE Listen(i) \/ (Start(i) /\ ~RunOnStartup)
  <2>1. UNCHANGED <<job, manual, stops>>
    BY <1>5 DEF Listen, Start, history
  <2>2. /\ process'[i] \notin {"down", "draining"}
        /\ \A j \in Instances \ {i} : process'[j] = process[j]
    BY <1>1, <1>5 DEF Listen, Start
  <2> QED BY <1>2, <2>1, <2>2 DEF Listens, Sched, Admin, OthersRest
<1>6. CASE AskByHand(i)
  <2>1. /\ UNCHANGED <<process, stops>> /\ manual' = manual + 1
        /\ Admin(i) = Idle /\ process[i] # "down"
    BY <1>6 DEF AskByHand, Admin, Listening
  <2>2. /\ Admin(i)'.at = "total" /\ Sched(i)' = Sched(i)
        /\ \A t \in Threads : t # <<i, "admin">> => job'[t] = job[t]
    BY <1>1, <1>6 DEF AskByHand, Sched, Admin
  <2>3. OthersRest(i)
    BY <1>1, <2>1, <2>2 DEF OthersRest
  <2> QED BY <1>2, <2>1, <2>2, <2>3 DEF Asked
<1>7. CASE Signal(i)
  <2>1. UNCHANGED <<job, manual>> /\ stops' = stops + 1
    BY <1>7 DEF Signal
  <2>2. /\ process'[i] = "draining"
        /\ \A j \in Instances \ {i} : process'[j] = process[j]
    BY <1>1, <1>7 DEF Signal
  <2> QED BY <1>2, <2>1, <2>2 DEF Drains, Sched, Admin, OthersRest
<1> QED BY <1>3, <1>4, <1>5, <1>6, <1>7 DEF InstanceStep

LEMMA InstanceBalanced ==
  ASSUME CountInv, NEW i \in Instances, InstanceStep(i)
  PROVE  /\ Counters' /\ Lives' /\ OthersRest(i)
         /\ \A m \in Months : Balanced(i, m)
<1>1. /\ UNCHANGED <<marked, delivered, faults>> /\ OthersRest(i)
      /\ Exits(i) \/ Begins(i) \/ Listens(i) \/ Asked(i) \/ Drains(i)
  BY InstanceEffect DEF CountInv
<1>2. Counters'
  BY <1>1 DEF CountInv, Counters, Exits, Begins, Listens, Asked, Drains
<1>3. /\ Causes \in Nat /\ Causes' \in Nat
      /\ manual' + stops' = manual + stops => Causes' = Causes
      /\ manual' + stops' = manual + stops + 1 => Causes' = Causes + 1
  <2>1. /\ manual \in Nat /\ faults \in Nat /\ stops \in Nat
        /\ manual' \in Nat /\ stops' \in Nat /\ faults' = faults
    BY <1>1, <1>2 DEF CountInv, Counters
  <2>2. Causes \in Nat /\ Causes' \in Nat
    BY <1>2, CausesCounted DEF CountInv
  <2>3. PICK a, b, c, d, e \in Nat : /\ manual = a /\ faults = b /\ stops = c
                                     /\ manual' = d /\ stops' = e
    BY <2>1
  <2>4. Causes = a + b + c /\ Causes' = d + b + e
    BY <2>1, <2>3 DEF Causes
  <2>5. /\ d + e = a + c => d + b + e = a + b + c
        /\ d + e = a + c + 1 => d + b + e = a + b + c + 1
    OBVIOUS
  <2> QED BY <2>2, <2>3, <2>4, <2>5
<1>4. manual \in Nat /\ stops \in Nat /\ \A m \in Months : delivered[m] \in Nat
  BY DEF CountInv, Counters, TInv, IInv, Typed
<1>5. Lives'
  <2>1. /\ Admin(i)'.at \notin {"look", "mark"}
        /\ process'[i] = "down" => Sched(i)' = Idle /\ Admin(i)' = Idle
    BY <1>1 DEF CountInv, Lives, Exits, Begins, Listens, Asked, Drains, Idle
  <2> QED BY <1>1, <2>1 DEF CountInv, Lives, OthersRest, Sched, Admin
<1>6. ASSUME NEW m \in Months PROVE Balanced(i, m)
  <2>1. delivered[m] \in Nat /\ delivered'[m] = delivered[m]
        /\ (m \in marked' <=> m \in marked)
    BY <1>1, <1>4
  <2>2. CASE Exits(i)
    <3>1. In(i, Marking(m)) + Causes <= In(i, CutOff) + Causes'
      BY <1>3, <1>4, <2>2, OneInstance DEF Exits
    <3>2. /\ In(i, ByHand(m)') = 0 /\ In(i, Making(m)') = 0
          /\ In(i, Marking(m)') = 0 /\ In(i, CutOff') = 0
      <4>1. Sched(i)'.at = "idle" /\ Admin(i)'.at = "idle"
        BY <2>2 DEF Exits, Idle
      <4> QED BY <4>1, OneInstance DEF Underway, HasTotal
    <3>3. Causes <= Causes'
      BY <1>3, <1>4, <2>2 DEF Exits
    <3> QED BY <1>3, <2>1, <3>1, <3>2, <3>3, OneInstance DEF Balanced
  <2>3. CASE Begins(i)
    <3>1. /\ In(i, ByHand(m)') = In(i, ByHand(m)) /\ In(i, Making(m)') = 0
          /\ In(i, Marking(m)) = 0 /\ In(i, CutOff') = 0 /\ Causes' = Causes
      BY <1>3, <1>4, <2>3, OneInstance DEF Begins, Idle, Underway, HasTotal
    <3> QED BY <1>3, <2>1, <3>1, OneInstance DEF Balanced
  <2>4. CASE Listens(i)
    <3>1. /\ In(i, ByHand(m)') = In(i, ByHand(m))
          /\ In(i, Making(m)') = In(i, Making(m))
          /\ In(i, Marking(m)') = In(i, Marking(m))
          /\ In(i, CutOff') = 0 /\ Causes' = Causes
      BY <1>3, <1>4, <2>4, OneInstance DEF Listens
    <3> QED BY <1>3, <2>1, <3>1, OneInstance DEF Balanced
  <2>5. CASE Asked(i)
    <3>1. /\ In(i, ByHand(m)') <= 1 /\ In(i, ByHand(m)) = 0
          /\ In(i, Making(m)') = In(i, Making(m))
          /\ In(i, Marking(m)') = In(i, Marking(m))
          /\ In(i, CutOff') = In(i, CutOff) /\ Causes' = Causes + 1
      BY <1>3, <1>4, <2>5, OneInstance DEF Asked, Idle
    <3> QED BY <1>3, <2>1, <3>1, OneInstance DEF Balanced
  <2>6. CASE Drains(i)
    <3>1. /\ In(i, ByHand(m)') = In(i, ByHand(m))
          /\ In(i, Making(m)') = In(i, Making(m))
          /\ In(i, Marking(m)') = In(i, Marking(m))
          /\ In(i, CutOff') <= 1 /\ Causes' = Causes + 1
      BY <1>3, <1>4, <2>6, OneInstance DEF Drains
    <3> QED BY <1>3, <2>1, <3>1, OneInstance DEF Balanced
  <2> QED BY <1>1, <2>2, <2>3, <2>4, <2>5, <2>6
<1> QED BY <1>1, <1>2, <1>5, <1>6

-----------------------------------------------------------------------------
LEMMA CountStep == CountInv /\ [Next]_vars => CountInv'
<1> SUFFICES ASSUME CountInv, [Next]_vars PROVE CountInv'
  OBVIOUS
<1>1. TInv /\ TInv'
  BY TypeStep DEF CountInv
<1>2. ASSUME NEW i \in Instances, Counters', Lives', OthersRest(i),
             \A m \in Months : Balanced(i, m)
      PROVE  CountInv'
  <2>1. \A m \in Months : Accounted(m)'
    BY <1>1, <1>2, BalancedStep DEF CountInv
  <2> QED BY <1>1, <1>2, <2>1 DEF CountInv, Months
<1>3. CASE UNCHANGED <<process, job, marked, delivered, manual, faults, stops>>
  <2>1. Counters' /\ Lives'
    BY <1>3 DEF CountInv, Counters, Lives, Sched, Admin
  <2>2. ASSUME NEW m \in Months PROVE Accounted(m)'
    <3>1. Accounted(m)
      BY DEF CountInv
    <3> QED BY <1>3, <3>1 DEF Accounted, ByHand, CutOff, Marking, Making, Sched,
                              Admin, Causes
  <2> QED BY <1>1, <2>1, <2>2 DEF CountInv, Months
<1>4. ASSUME NEW t \in Threads, Work(t) PROVE CountInv'
  <2>1. PICK i \in Instances, kind \in {"scheduler", "admin"} : t = <<i, kind>>
    BY DEF Threads
  <2>2. Work(<<i, kind>>)
    BY <1>4, <2>1
  <2> QED BY <1>2, <2>2, WorkBalanced
<1>5. ASSUME NEW i \in Instances, InstanceStep(i) PROVE CountInv'
  BY <1>2, <1>5, InstanceBalanced
<1>6. ASSUME NEW r \in Requests, RequestStep(r)
      PROVE  UNCHANGED <<process, job, marked, delivered, manual, faults, stops>>
  BY <1>6 DEF RequestStep, Begin, Stamp, Save, NotSaved, database, history
<1>7. CASE NextMonth \/ UNCHANGED vars
  BY <1>3, <1>7 DEF NextMonth, vars, database, history
<1> QED BY <1>3, <1>4, <1>5, <1>6, <1>7 DEF Next

LEMMA SpecCount == Spec => []CountInv
<1>1. Init => CountInv
  <2> SUFFICES ASSUME Init PROVE CountInv
    OBVIOUS
  <2>1. Counters /\ Lives
    BY DEF Init, Counters, Lives, Sched, Admin, Threads, Idle
  <2>2. ASSUME NEW m \in Months PROVE Accounted(m)
    <3>1. ByHand(m) = {} /\ CutOff = {} /\ marked = {} /\ delivered[m] = 0
      BY DEF Init, ByHand, CutOff, Sched, Admin, Threads, Idle
    <3>2. Cardinality({}) = 0
      BY FS_EmptySet
    <3>3. Cardinality(Marking(m)) \in Nat
      BY MakersAndMarkers
    <3>4. Causes \in Nat
      BY <2>1, CausesCounted
    <3> QED BY <3>1, <3>2, <3>3, <3>4 DEF Accounted
  <2> QED BY <2>1, <2>2, TypeInit DEF CountInv
<1> QED BY <1>1, CountStep, PTL DEF Spec

\* A report is delivered no more often than there are instances, plus one for each
\* failure, stop and report asked for by hand: the look at monthly_reports before
\* and the mark after it keep every other run from sending it again.
THEOREM DeliveriesAlwaysExplained == Spec => []DeliveriesExplained
<1>1. CountInv => DeliveriesExplained
  <2> SUFFICES ASSUME CountInv, NEW m \in Months
               PROVE  delivered[m]
                        <= Cardinality(Instances) + manual + faults + stops
    BY DEF CountInv, TInv, IInv, DeliveriesExplained
  <2>1. delivered[m] <= Cardinality(Instances) + Causes
    <3>1. /\ delivered[m] \in Nat /\ Causes \in Nat
          /\ Cardinality(Making(m)) \in Nat /\ Cardinality(Marking(m)) \in Nat
          /\ Cardinality(Instances) \in Nat
          /\ Cardinality(Making(m)) + Cardinality(Marking(m))
               <= Cardinality(Instances)
      BY MakersAndMarkers, CausesCounted DEF CountInv, TInv, IInv, Typed
    <3>2. Cardinality(ByHand(m)) \in Nat /\ Cardinality(CutOff) \in Nat
      <4>1. ByHand(m) \subseteq Instances /\ CutOff \subseteq Instances
        BY DEF ByHand, CutOff
      <4> QED BY <4>1, SlotAssumption, Fewer
    <3>3. Accounted(m)
      BY DEF CountInv
    <3> QED BY <3>1, <3>2, <3>3 DEF Accounted
  <2>2. manual \in Nat /\ faults \in Nat /\ stops \in Nat
        /\ Cardinality(Instances) \in Nat
    BY MakersAndMarkers DEF CountInv, Counters
  <2>3. Cardinality(Instances) + Causes
          = Cardinality(Instances) + manual + faults + stops
    BY <2>2 DEF Causes
  <2> QED BY <2>1, <2>3
<1> QED BY <1>1, SpecCount, PTL

\* Reports agree with themselves, are explained, and are marked only once they are
\* out, whatever requests, schedulers and reports by hand do at the same time and
\* whatever fails or stops (report/scheduler.go, sender.go, monthly.go).
THEOREM ReportsAlwaysSound == Spec => []ReportsSound
BY SectionsAlwaysAgree, DeliveriesAlwaysExplained, PTL DEF ReportsSound
=============================================================================
