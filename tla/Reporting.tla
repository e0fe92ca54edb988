----------------------------- MODULE Reporting ------------------------------
(***************************************************************************)
(* The monthly report and the life of the process that sends it:           *)
(* internal/report (scheduler, e-mail service, summary, delivery store),   *)
(* the admin endpoint that sends the report by hand, and App.Run with its  *)
(* start-up run and its graceful shutdown.  Several instances of the       *)
(* gateway may share the database, and requests go on saving usage records *)
(* while a report is put together from four separate queries.              *)
(*                                                                         *)
(* The report of a month covers the month before it.  Every record costs   *)
(* one unit, so each section of a report is known by its sum.              *)
(***************************************************************************)
EXTENDS Integers, FiniteSets

CONSTANTS Instances,    \* processes on the one database
          Requests,     \* request slots of all the instances together
          RunOnStartup, \* cfg.Reports.RunOnStartup
          MaxMonth,     \* bound: the last month
          MaxRecords,   \* bound: usage records
          MaxEvents     \* bound: failures, stops and reports asked for by hand

ASSUME SlotAssumption == IsFiniteSet(Instances) /\ IsFiniteSet(Requests)
ASSUME FlagAssumption == RunOnStartup \in BOOLEAN
ASSUME BoundAssumption == MaxMonth \in Nat \ {0} /\ MaxRecords \in Nat

Months  == 1..MaxMonth
Threads == Instances \X {"scheduler", "admin"}

VARIABLES
  month,      \* the current month
  usage,      \* usage_records: month -> sum
  saved,      \* history: the number of rows of usage_records
  marked,     \* monthly_reports: the months whose report is recorded as sent
  process,    \* instance -> "down", "starting", "up" or "draining"
  job,        \* thread -> the report it is working on
  request,    \* request slot -> the request in it
  inbox,      \* history: the reports that were delivered, with their month
  delivered,  \* history: month -> number of deliveries
  manual,     \* history: reports asked for by hand so far
  faults,     \* history: failures so far
  stops       \* history: crashes and shutdowns so far

records  == <<usage, saved>>
database == <<records, marked>>
history  == <<inbox, delivered, manual, faults, stops>>
vars == <<month, database, process, job, request, history>>

NoReport == [total |-> 0, team |-> 0, provider |-> 0, model |-> 0]
Idle     == [at |-> "idle", month |-> 0, report |-> NoReport]
Free     == [at |-> "idle", instance |-> "none", stream |-> FALSE, stamp |-> 0]

Init ==
  /\ month = 1
  /\ usage = [m \in 0..MaxMonth |-> 0]
  /\ saved = 0
  /\ marked = {}
  /\ process = [i \in Instances |-> "down"]
  /\ job = [t \in Threads |-> Idle]
  /\ request = [r \in Requests |-> Free]
  /\ inbox = {}
  /\ delivered = [m \in Months |-> 0]
  /\ manual = 0
  /\ faults = 0
  /\ stops = 0

Listening(i) == process[i] = "up"

Bounded == faults + stops + manual < MaxEvents

\* A new month begins.
NextMonth ==
  /\ month < MaxMonth
  /\ month' = month + 1
  /\ UNCHANGED <<database, process, job, request, history>>

-----------------------------------------------------------------------------
(* Requests, as far as their usage records go *)

\* The requests in a handler, and those whose record is still to be saved.
InFlight == {r \in Requests : request[r] # Free}

\* A request enters the handler.
Begin(r, i, stream) ==
  /\ request[r] = Free
  /\ saved + Cardinality(InFlight) < MaxRecords
  /\ Listening(i)
  /\ request' = [request EXCEPT ![r] =
       [at |-> "active", instance |-> i, stream |-> stream, stamp |-> 0]]
  /\ UNCHANGED <<month, database, process, job, history>>

\* It is answered, and its record gets its timestamp.  A streamed answer's record
\* is saved by a goroutine of its own, which nobody waits for.
Stamp(r) ==
  /\ request[r].at = "active"
  /\ request' = [request EXCEPT ![r] =
       [@ EXCEPT !.at = IF request[r].stream THEN "detached" ELSE "saving",
                 !.stamp = month]]
  /\ UNCHANGED <<month, database, process, job, history>>

\* Mutation: an insert that was made is tried again.
SaveTwice(r) ==
  /\ request[r].at \in {"saving", "detached"}
  /\ usage' = [usage EXCEPT ![request[r].stamp] = @ + 2]
  /\ saved' = saved + 1
  /\ request' = [request EXCEPT ![r] = Free]
  /\ UNCHANGED <<month, marked, process, job, history>>

\* usage.PostgresStore.Save.
Save(r) ==
  /\ request[r].at \in {"saving", "detached"}
  /\ usage' = [usage EXCEPT ![request[r].stamp] = @ + 1]
  /\ saved' = saved + 1
  /\ request' = [request EXCEPT ![r] = Free]
  /\ UNCHANGED <<month, marked, process, job, history>>

\* The insert fails, is cancelled with the request, or there is none to make.
NotSaved(r) ==
  /\ request[r].at \in {"active", "saving", "detached"}
  /\ request' = [request EXCEPT ![r] = Free]
  /\ UNCHANGED <<month, database, process, job, history>>

-----------------------------------------------------------------------------
(* EmailService *)

Fault == Bounded /\ faults' = faults + 1

Goto(t, place) == job' = [job EXCEPT ![t].at = place]
Drop(t)        == job' = [job EXCEPT ![t] = Idle]

Scheduled(t) == t[2] = "scheduler"
At(t, place) == job[t].at = place

\* The scheduler's context, cancelled at shutdown; the admin handler's is the
\* request's own.
Cancelled(t) == Scheduled(t) /\ process[t[1]] = "draining"

\* WasMonthlyReportSent.
Look(t) ==
  /\ At(t, "look")
  /\ ~Cancelled(t)
  /\ IF job[t].month \in marked THEN Drop(t) ELSE Goto(t, "total")
  /\ UNCHANGED <<month, database, process, request, history>>

\* Mutation: the report covers the running month.
PeriodRunning(t) == job[t].month

\* The month a report covers.
Period(t) == job[t].month - 1

\* BuildMonthlySummary, one query after the other.
Query(t, place, section, next) ==
  /\ At(t, place)
  /\ ~Cancelled(t)
  /\ job' = [job EXCEPT ![t] = [@ EXCEPT !.at = next,
                                         !.report[section] = usage[Period(t)]]]
  /\ UNCHANGED <<month, database, process, request, history>>

GetTotalSpend(t)      == Query(t, "total", "total", "team")
GetSpendByTeam(t)     == Query(t, "team", "team", "provider")
GetSpendByProvider(t) == Query(t, "provider", "provider", "model")
GetSpendByModel(t)    == Query(t, "model", "model", "send")

\* A query fails, or its context is cancelled: the run is over.
QueryFails(t) ==
  /\ job[t].at \in {"look", "total", "team", "provider", "model", "mark"}
  /\ IF Cancelled(t) THEN UNCHANGED faults ELSE Fault
  /\ Drop(t)
  /\ UNCHANGED <<month, database, process, request, inbox, delivered, manual,
                 stops>>

Deliver(t) ==
  LET m == job[t].month IN
  /\ inbox' = inbox \cup {[month |-> m, report |-> job[t].report]}
  /\ delivered' = [delivered EXCEPT ![m] = @ + 1]

\* The e-mail is sent, whatever has become of the context.
Send(t) ==
  /\ At(t, "send")
  /\ Deliver(t)
  /\ IF Scheduled(t) THEN Goto(t, "mark") ELSE Drop(t)
  /\ UNCHANGED <<month, database, process, request, manual, faults, stops>>

\* The mail server refuses it, or takes it and the answer is lost.
SendFails(t) ==
  /\ At(t, "send")
  /\ Fault
  /\ Deliver(t) \/ UNCHANGED <<inbox, delivered>>
  /\ Drop(t)
  /\ UNCHANGED <<month, database, process, request, manual, stops>>

\* MarkMonthlyReportSent.
Mark(t) ==
  /\ At(t, "mark")
  /\ ~Cancelled(t)
  /\ marked' = marked \cup {job[t].month}
  /\ Drop(t)
  /\ UNCHANGED <<month, records, process, request, history>>

-----------------------------------------------------------------------------
(* Scheduler, the admin endpoint and App.Run *)

\* runOnce: the clock is read once for the whole run.
RunOnce(i) ==
  job' = [job EXCEPT ![<<i, "scheduler">>] =
            [at |-> "look", month |-> month, report |-> NoReport]]

\* Mutation: the loop ends once a report is out.
TickUntilSent(i) ==
  /\ Listening(i)
  /\ job[<<i, "scheduler">>] = Idle
  /\ \A m \in Months : delivered[m] = 0
  /\ RunOnce(i)
  /\ UNCHANGED <<month, database, process, request, history>>

\* The ticker fires.
Tick(i) ==
  /\ Listening(i)
  /\ job[<<i, "scheduler">>] = Idle
  /\ RunOnce(i)
  /\ UNCHANGED <<month, database, process, request, history>>

\* SendMonthlyReport of the admin API: neither looks nor marks.
AskByHand(i) ==
  /\ Listening(i)
  /\ job[<<i, "admin">>] = Idle
  /\ Bounded
  /\ manual' = manual + 1
  /\ job' = [job EXCEPT ![<<i, "admin">>] =
               [at |-> "total", month |-> month, report |-> NoReport]]
  /\ UNCHANGED <<month, database, process, request, inbox, delivered, faults,
                 stops>>

\* The process starts; with RunOnStartup, the first run comes before the server
\* listens.
Start(i) ==
  /\ process[i] = "down"
  /\ process' = [process EXCEPT ![i] = "starting"]
  /\ IF RunOnStartup THEN RunOnce(i) ELSE UNCHANGED job
  /\ UNCHANGED <<month, database, request, history>>

Listen(i) ==
  /\ process[i] = "starting"
  /\ job[<<i, "scheduler">>] = Idle
  /\ process' = [process EXCEPT ![i] = "up"]
  /\ UNCHANGED <<month, database, job, request, history>>

\* SIGTERM: the scheduler's context is cancelled, and Shutdown waits for the open
\* requests.
Signal(i) ==
  /\ Listening(i)
  /\ Bounded
  /\ stops' = stops + 1
  /\ process' = [process EXCEPT ![i] = "draining"]
  /\ UNCHANGED <<month, database, job, request, inbox, delivered, manual,
                 faults>>

\* The process is gone, with every goroutine of it.
Exit(i) ==
  /\ process' = [process EXCEPT ![i] = "down"]
  /\ job' = [t \in Threads |-> IF t[1] = i THEN Idle ELSE job[t]]
  /\ request' = [r \in Requests |->
                   IF request[r].instance = i THEN Free ELSE request[r]]

\* A handler that is still running; a goroutine it left behind is not waited for.
Open(i) ==
  \/ job[<<i, "admin">>] # Idle
  \/ \E r \in Requests :
       request[r].instance = i /\ request[r].at \in {"active", "saving"}

\* Shutdown returns when no handler is running, and main with it: the scheduler
\* may still be sending.
ShutdownReturns(i) ==
  /\ process[i] = "draining"
  /\ ~Open(i)
  /\ Exit(i)
  /\ UNCHANGED <<month, database, history>>

\* Ten seconds have passed with a handler still running: it is dropped.
ShutdownTimesOut(i) ==
  /\ process[i] = "draining"
  /\ Open(i)
  /\ Exit(i)
  /\ UNCHANGED <<month, database, history>>

\* The process is killed, or its server fails.
Crash(i) ==
  /\ process[i] \in {"starting", "up"}
  /\ Bounded
  /\ stops' = stops + 1
  /\ Exit(i)
  /\ UNCHANGED <<month, database, inbox, delivered, manual, faults>>

Work(t) ==
  \/ Look(t)
  \/ GetTotalSpend(t) \/ GetSpendByTeam(t) \/ GetSpendByProvider(t)
  \/ GetSpendByModel(t)
  \/ QueryFails(t)
  \/ Send(t) \/ SendFails(t)
  \/ Mark(t)

InstanceStep(i) ==
  \/ Start(i) \/ Listen(i) \/ Tick(i) \/ AskByHand(i)
  \/ Signal(i) \/ ShutdownReturns(i) \/ ShutdownTimesOut(i) \/ Crash(i)

RequestStep(r) ==
  \/ \E i \in Instances, stream \in BOOLEAN : Begin(r, i, stream)
  \/ Stamp(r) \/ Save(r) \/ NotSaved(r)

Next ==
  \/ NextMonth
  \/ \E r \in Requests : RequestStep(r)
  \/ \E t \in Threads : Work(t)
  \/ \E i \in Instances : InstanceStep(i)

\* A goroutine that can run does, the ticker fires again and again, and a server
\* comes up once its start-up run is over.  The database and the mail server answer,
\* if only with an error: the sender sets no deadline.  Nothing makes anybody start
\* the process, keep it running, or send it a request.
Fairness ==
  /\ \A t \in Threads : WF_vars(Work(t))
  /\ \A i \in Instances : WF_vars(Tick(i)) /\ WF_vars(Listen(i))

Spec == Init /\ [][Next]_vars /\ Fairness

-----------------------------------------------------------------------------
Places == {"look", "total", "team", "provider", "model", "send", "mark"}

(* Properties *)

\* Type invariant.
TypeOK ==
  /\ month \in Months
  /\ usage \in [0..MaxMonth -> 0..MaxRecords]
  /\ marked \subseteq Months
  /\ process \in [Instances -> {"down", "starting", "up", "draining"}]
  /\ \A t \in Threads : \/ job[t] = Idle
                        \/ job[t].at \in Places /\ job[t].month \in 1..month
  /\ \A r \in Requests : \/ request[r] = Free
                         \/ /\ request[r].at \in {"active", "saving", "detached"}
                            /\ process[request[r].instance] \in {"up", "draining"}
                            /\ request[r].stamp \in 0..month

\* The sections of a report come from four queries, and a record of the month may
\* be saved between two of them or later: a later section is never below an
\* earlier one.
SectionsInOrder ==
  \A mail \in inbox :
    LET sent == mail.report IN
    /\ sent.total <= sent.team /\ sent.team <= sent.provider
    /\ sent.provider <= sent.model /\ sent.model <= usage[mail.month - 1]

\* And they never disagree, with each other or with the table, by more than the
\* requests that were in flight as the month ended.
SectionsAgree ==
  /\ SectionsInOrder
  /\ \A mail \in inbox :
       usage[mail.month - 1] - mail.report.total <= Cardinality(Requests)

\* A month is marked only if its report was delivered.
MarkedWasDelivered == \A m \in marked : delivered[m] > 0

\* A report is delivered again only if another instance was sending it too,
\* somebody asked for it, or the run that sent it failed or was cut off before it
\* could mark the month.
DeliveriesExplained ==
  /\ MarkedWasDelivered
  /\ \A m \in Months :
       delivered[m] <= Cardinality(Instances) + manual + faults + stops

\* What the mails and the deliveries table say (internal/report/sender.go).
ReportsSound == SectionsAgree /\ DeliveriesExplained

\* If an instance is up for good, the report of the month that goes on is
\* delivered and recorded: a failed run is tried again at the next tick.
EventuallyReported ==
  (\E i \in Instances : <>[](process[i] = "up")) => []<>(month \in marked)
=============================================================================
