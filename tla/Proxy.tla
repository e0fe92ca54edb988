-------------------------------- MODULE Proxy --------------------------------
(***************************************************************************)
(* A request from the handler to the last byte, as far as caching and      *)
(* metering go: internal/gateway (Proxy, maybeStoreAndReturn, ProxyAudio,  *)
(* ProxySpeech, ProxyEmbeddings and their metering) under the handlers of  *)
(* internal/server/openai.                                                 *)
(*                                                                         *)
(* The stages that have modules of their own are here by what they promise:*)
(* Router (a provider is selected), SpendGate (the request may be refused),*)
(* CallPath (Failover: one answer, by the selected provider or by the      *)
(* fallback), MemoryCache (TTLCache: an atomic store that may drop an      *)
(* entry), Stream (a stream is billed once, when it is over).              *)
(***************************************************************************)
EXTENDS Integers, Sequences

CONSTANTS Requests,   \* goroutines of the server
          Asks,       \* request -> what it may ask for, and the provider that
                      \*   is selected for it then
          LocalMedia, \* which of Media cfg.Audio gives to the local server
          Providers,  \* registered providers
          Fallback,   \* Options.FallbackProvider, or NoProvider
          NoProvider,
          Local,      \* the local audio server
          Prompts,    \* bodies, with the hints and the model they come with
          TTL,        \* Options.CacheTTL, in ticks
          MaxTime,    \* bound: the model's clock
          None        \* no cache entry

Chats == {"chat", "stream", "responses"}
Media == {"transcription", "speech"}

Kinds == Chats \cup Media \cup {"embedding"}

ASSUME AskAssumption  == /\ \A r \in Requests : Asks[r] \subseteq
                              [kind : Kinds, prompt : Prompts, provider : Providers]
                         /\ LocalMedia \subseteq Media
ASSUME NameAssumption == /\ NoProvider \notin Providers
                         /\ Local \notin Providers \cup {NoProvider}
                         /\ Fallback \in Providers \cup {NoProvider}
ASSUME TTLAssumption  == TTL \in Nat \ {0} /\ MaxTime \in Nat

VARIABLES
  clock,    \* time.Now()
  store,    \* the cache: key -> entry, or None
  pc,       \* request -> where it is
  req,      \* request -> its kind, its prompt and the provider selected for it
  gone,     \* request -> its client has left, and its context is cancelled
  answer,   \* request -> the answer it has
  reply,    \* request -> the status the client gets
  records,  \* request -> the usage records saved for it
  failed    \* history: request -> its insert failed, or its body broke off

vars == <<clock, store, pc, req, gone, answer, reply, records, failed>>

NoRequest == [kind |-> "none", prompt |-> None, provider |-> NoProvider]
NoAnswer  == [by |-> NoProvider, outcome |-> "none", parsed |-> FALSE,
              sse |-> FALSE, source |-> None]

Hit(r) == answer[r].source # None

Init ==
  /\ clock = 0
  /\ store = [k \in Prompts \X Providers |-> None]
  /\ pc = [r \in Requests |-> "idle"]
  /\ req = [r \in Requests |-> NoRequest]
  /\ gone = [r \in Requests |-> FALSE]
  /\ answer = [r \in Requests |-> NoAnswer]
  /\ reply = [r \in Requests |-> "none"]
  /\ records = [r \in Requests |-> <<>>]
  /\ failed = [r \in Requests |-> FALSE]

Goto(r, place) == pc' = [pc EXCEPT ![r] = place]

Fault(r) == failed' = [failed EXCEPT ![r] = TRUE]

-----------------------------------------------------------------------------
(* Before the call *)

\* isCacheableRequest: a chat completion that is no stream.
Cacheable(kind) == kind = "chat"

\* A request arrives and a provider is selected, or the local server; it passes
\* the budget.
Arrive(r, ask) ==
  /\ pc[r] = "idle"
  /\ Goto(r, IF Cacheable(ask.kind) THEN "lookup" ELSE "call")
  /\ req' = [req EXCEPT ![r] =
       [ask EXCEPT !.provider = IF ask.kind \in LocalMedia THEN Local ELSE @]]
  /\ UNCHANGED <<clock, store, gone, answer, reply, records, failed>>

\* A hint or the budget refuses it, or the budget cannot be checked, which is an
\* error of the gateway; the local server is asked before any of them.
Refuse(r, ask, status) ==
  /\ pc[r] = "idle"
  /\ ask.kind \notin LocalMedia
  /\ Goto(r, "done")
  /\ req' = [req EXCEPT ![r] = [ask EXCEPT !.provider = NoProvider]]
  /\ reply' = [reply EXCEPT ![r] = status]
  /\ UNCHANGED <<clock, store, gone, answer, records, failed>>

\* Mutation: the key forgets which provider was selected.
KeyOfPrompt(r) == <<req[r].prompt, CHOOSE p \in Providers : TRUE>>

\* buildCacheKey, made of the selected provider even if the fallback answers.
Key(r) == <<req[r].prompt, req[r].provider>>

Live(k) == store[k] # None /\ store[k].expires >= clock

\* g.cache.Get: a hit is an answer without a call, by whoever gave it once.
LookUp(r) ==
  /\ pc[r] = "lookup"
  /\ IF Live(Key(r))
     THEN /\ Goto(r, "meter")
          /\ answer' = [answer EXCEPT ![r] =
               [by |-> store[Key(r)].by, outcome |-> "ok", parsed |-> TRUE,
                sse |-> FALSE,
                source |-> [entry |-> store[Key(r)], since |-> clock]]]
     ELSE Goto(r, "call") /\ UNCHANGED answer
  /\ UNCHANGED <<clock, store, req, gone, reply, records, failed>>

-----------------------------------------------------------------------------
(* The call *)

\* Who may answer: embeddings and local calls have no fallback.
Responsible(r) ==
  {req[r].provider} \cup
  IF req[r].kind = "embedding" \/ req[r].provider = Local
  THEN {} ELSE {Fallback} \ {NoProvider}

\* An answer with status 200, 4xx or 5xx, or none at all: an error of another
\* kind, a circuit that is open, a context that was cancelled.  Whether metering
\* can parse the body, and whether the body is declared to be an event stream, is
\* up to the provider, whatever was asked for; an error is made a JSON body.
Answered(r, p, outcome, parsed, sse) ==
  /\ pc[r] = "call"
  /\ p \in Responsible(r)
  /\ sse \/ ~parsed => outcome = "ok" /\ req[r].kind \in Chats
  /\ sse => parsed
  /\ Goto(r, "meter")
  /\ answer' = [answer EXCEPT ![r] =
       [by |-> p, outcome |-> outcome, parsed |-> parsed, sse |-> sse,
        source |-> None]]
  /\ UNCHANGED <<clock, store, req, gone, reply, records, failed>>

-----------------------------------------------------------------------------
(* Metering, storing and replying *)

Cost(r) ==
  IF req[r].kind \in Chats /\ answer[r].outcome = "ok" /\ ~Hit(r) THEN 1 ELSE 0

\* Mutation: a chat completion is billed to the provider it was routed to.
RecordOfRouted(r) ==
  [provider |-> req[r].provider, status |-> answer[r].outcome, cost |-> Cost(r)]

\* What is saved: only a chat completion from a provider costs anything.  Who gave
\* the answer of a hit is not known any more: its record names the provider that
\* was selected.
Record(r) ==
  [provider |-> IF Hit(r) THEN req[r].provider ELSE answer[r].by,
   status |-> answer[r].outcome, cost |-> Cost(r)]

\* isStreamingResponse: what the answer is declared to be, not what was asked for.
Streams(r) == answer[r].sse

\* Which answers a usage record is saved for.
MeterResponse(r) ==
  /\ req[r].kind \in Chats
  /\ answer[r].outcome = "ok"
  /\ answer[r].parsed
MeterFailedResponse(r) ==
  req[r].kind \in Chats /\ answer[r].outcome \in {"client_error", "server_error"}
MeterEmbeddingResponse(r) ==
  req[r].kind = "embedding" /\ answer[r].outcome \in {"ok", "client_error"}
MeterAudioResponse(r) ==
  req[r].kind = "transcription" /\ answer[r].outcome = "ok"
MeterSpeechResponse(r) == req[r].kind = "speech" /\ answer[r].outcome = "ok"

Metered(r) ==
  \/ MeterResponse(r) \/ MeterFailedResponse(r)
  \/ MeterEmbeddingResponse(r) \/ MeterAudioResponse(r) \/ MeterSpeechResponse(r)

\* A 5xx of a provider and a call without an answer are errors of the gateway.
Status(r) ==
  IF \/ answer[r].outcome = "none"
     \/ answer[r].outcome = "server_error" /\ req[r].provider # Local
  THEN "bad_gateway" ELSE answer[r].outcome

\* The body of an answer cannot be read to its end: nothing is metered.  Speech and
\* event streams are passed on unread.
Unreadable(r) ==
  /\ pc[r] = "meter"
  /\ answer[r].outcome = "ok" /\ ~Hit(r)
  /\ req[r].kind # "speech" /\ ~Streams(r)
  /\ Fault(r)
  /\ Goto(r, "done")
  /\ reply' = [reply EXCEPT ![r] = "bad_gateway"]
  /\ UNCHANGED <<clock, store, req, gone, answer, records>>

\* There is nothing to save.
Unmetered(r) ==
  /\ pc[r] = "meter"
  /\ ~Metered(r)
  /\ Goto(r, "store")
  /\ UNCHANGED <<clock, store, req, gone, answer, reply, records, failed>>

PassStream(r) ==
  /\ pc[r] = "meter"
  /\ Streams(r)
  /\ Goto(r, "stream")
  /\ UNCHANGED <<clock, store, req, gone, answer, reply, records, failed>>

\* The stream was read to its end, or closed.
StreamEnds(r) ==
  /\ pc[r] = "stream"
  /\ Goto(r, "save")
  /\ reply' = [reply EXCEPT ![r] = "ok"]
  /\ UNCHANGED <<clock, store, req, gone, answer, records, failed>>

Saving(r) == IF Streams(r) THEN pc[r] = "save" ELSE pc[r] = "meter" /\ Metered(r)
Saved(r)  == Goto(r, IF Streams(r) THEN "done" ELSE "store")

\* usageStore.Save, under the request's context; only a stream's record is saved
\* under one that outlives the request.
Save(r) ==
  /\ Saving(r)
  /\ ~gone[r] \/ Streams(r)
  /\ records' = [records EXCEPT ![r] = Append(@, Record(r))]
  /\ Saved(r)
  /\ UNCHANGED <<clock, store, req, gone, answer, reply, failed>>

\* The insert fails, as it must once the client is gone, or the process ends
\* before it: the record is lost.
SaveFails(r) ==
  /\ Saving(r)
  /\ Fault(r)
  /\ Saved(r)
  /\ UNCHANGED <<clock, store, req, gone, answer, reply, records>>

\* maybeStoreAndReturn: an event stream has been passed on before.
Stores(r) ==
  Cacheable(req[r].kind) /\ ~Hit(r) /\ answer[r].outcome = "ok" /\ ~Streams(r)

\* Mutation: the time to live is taken for another unit of time.
EntryForAges(r) ==
  [by |-> answer[r].by, asked |-> req[r], outcome |-> answer[r].outcome,
   at |-> clock, expires |-> clock + 1000 * TTL]

\* What is stored, and under which request.
Entry(r) ==
  [by |-> answer[r].by, asked |-> req[r], outcome |-> answer[r].outcome,
   at |-> clock, expires |-> clock + TTL]

\* The answer is stored, and the handler writes it or an error of its own.
Reply(r) ==
  /\ pc[r] = "store"
  /\ Goto(r, "done")
  /\ reply' = [reply EXCEPT ![r] = Status(r)]
  /\ store' = IF Stores(r) THEN [store EXCEPT ![Key(r)] = Entry(r)] ELSE store
  /\ UNCHANGED <<clock, req, gone, answer, records, failed>>

Leave(r) ==
  /\ pc[r] = "done"
  /\ pc' = [pc EXCEPT ![r] = "idle"]
  /\ req' = [req EXCEPT ![r] = NoRequest]
  /\ gone' = [gone EXCEPT ![r] = FALSE]
  /\ answer' = [answer EXCEPT ![r] = NoAnswer]
  /\ reply' = [reply EXCEPT ![r] = "none"]
  /\ records' = [records EXCEPT ![r] = <<>>]
  /\ failed' = [failed EXCEPT ![r] = FALSE]
  /\ UNCHANGED <<clock, store>>

\* The client leaves.
Disconnect(r) ==
  /\ pc[r] \notin {"idle", "done"}
  /\ gone' = [gone EXCEPT ![r] = TRUE]
  /\ UNCHANGED <<clock, store, pc, req, answer, reply, records, failed>>

\* The cache drops an entry: it has expired, or makes room for another.
Evict(k) ==
  /\ store[k] # None
  /\ store' = [store EXCEPT ![k] = None]
  /\ UNCHANGED <<clock, pc, req, gone, answer, reply, records, failed>>

Tick ==
  /\ clock < MaxTime
  /\ clock' = clock + 1
  /\ UNCHANGED <<store, pc, req, gone, answer, reply, records, failed>>

Outcomes == {"ok", "client_error", "server_error", "none"}

Step(r) ==
  \/ LookUp(r)
  \/ \E p \in Providers \cup {Local}, o \in Outcomes, parsed, sse \in BOOLEAN :
       Answered(r, p, o, parsed, sse)
  \/ Unreadable(r) \/ Unmetered(r) \/ PassStream(r) \/ StreamEnds(r)
  \/ Save(r) \/ SaveFails(r) \/ Reply(r) \/ Leave(r)

Next ==
  \/ \E r \in Requests :
       \/ \E ask \in Asks[r] :
            \/ Arrive(r, ask)
            \/ \E status \in {"client_error", "bad_gateway"} : Refuse(r, ask, status)
       \/ Step(r)
       \/ Disconnect(r)
  \/ \E k \in Prompts \X Providers : Evict(k)
  \/ Tick

Spec == Init /\ [][Next]_vars

-----------------------------------------------------------------------------
Places == {"idle", "lookup", "call", "meter", "stream", "save", "store",
           "done"}

(* Properties *)

\* Type invariant.
TypeOK ==
  /\ clock \in 0..MaxTime
  /\ DOMAIN store = Prompts \X Providers
  /\ \A k \in DOMAIN store :
       store[k] # None => store[k].expires \in TTL..(clock + TTL)
  /\ pc \in [Requests -> Places]
  /\ \A r \in Requests : pc[r] # "idle" => /\ req[r].kind \in Kinds
                                           /\ req[r].prompt \in Prompts
  /\ gone \in [Requests -> BOOLEAN]
  /\ reply \in [Requests -> {"ok", "client_error", "server_error", "bad_gateway",
                             "none"}]

\* An answer from the cache was given with status 200, no longer ago than the time
\* to live, to a request for the same chat completion that had been routed to the
\* same provider: by it, or by the fallback that stood in for it (which the README
\* denies, see NoCrossProviderReuse).
CacheSound ==
  \A r \in Requests : Hit(r) =>
    LET e == answer[r].source.entry IN
    /\ e.outcome = "ok"
    /\ e.asked = req[r]
    /\ e.by \in Responsible(r)
    /\ answer[r].source.since - e.at <= TTL

\* README.md:168, "Cache keys include routing context (provider, mode, model) to
\* prevent cross-provider reuse": a cached answer was given by the provider that
\* the request it is served to is routed to.
NoCrossProviderReuse ==
  \A r \in Requests : Hit(r) => answer[r].by = req[r].provider

\* A request leaves at most one usage record.  One that is made of a provider's
\* answer names the provider that gave it, be it the selected one or the fallback;
\* one that costs something stands for a chat that a provider completed and the
\* client got, and never for an answer of the cache.  Whoever gets a 200 has a
\* record, unless the insert failed, as it does for a client who left, or metering
\* could not read what the provider said.
BilledOnce ==
  \A r \in Requests : pc[r] = "done" =>
    /\ Len(records[r]) <= 1
    /\ \A i \in DOMAIN records[r] :
         /\ ~Hit(r) => records[r][i].provider = answer[r].by
         /\ records[r][i].cost > 0 => reply[r] = "ok" /\ ~Hit(r)
    /\ reply[r] = "ok" /\ Len(records[r]) = 0 => failed[r] \/ ~answer[r].parsed
=============================================================================
