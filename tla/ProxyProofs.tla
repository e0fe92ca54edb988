---------------------------- MODULE ProxyProofs -----------------------------
(***************************************************************************)
(* The properties of Proxy, proved for any requests, prompts, providers,   *)
(* fallback and time to live, and with no bound on the clock but MaxTime.  *)
(*                                                                         *)
(* None of the three is inductive alone.  A cached answer is sound because *)
(* every entry of the cache is, at the key it is stored under; and a       *)
(* request's records are right at its end because they are at every place  *)
(* on its way.                                                             *)
(***************************************************************************)
EXTENDS Proxy, TLAPS

AnyKind == Kinds \cup {"none"}

\* An entry was stored for the request its key stands for, and lives for TTL.
EntrySound(k) ==
  LET e == store[k] IN
  /\ e.outcome = "ok"
  /\ e.asked = [kind |-> "chat", prompt |-> k[1], provider |-> k[2]]
  /\ e.by \in {k[2]} \cup ({Fallback} \ {NoProvider})
  /\ e.at \in 0..clock
  /\ e.expires = e.at + TTL

StoreSound ==
  /\ DOMAIN store = Prompts \X Providers
  /\ \A k \in Prompts \X Providers : store[k] # None => EntrySound(k)

\* Who was selected for a request, and who answered it.
RequestSound(r) ==
  /\ req[r] \in [kind : AnyKind, prompt : Prompts \cup {None},
                 provider : Providers \cup {NoProvider, Local}]
  /\ pc[r] # "idle" => req[r].kind \in Kinds /\ req[r].prompt \in Prompts
  /\ pc[r] = "lookup" => req[r].kind = "chat"
  /\ req[r].kind = "chat" /\ pc[r] \notin {"idle", "done"} =>
       req[r].provider \in Providers
  /\ pc[r] \in {"meter", "stream", "save", "store"} =>
       /\ answer[r].by \in Responsible(r)
       /\ answer[r].outcome \in Outcomes
       /\ Streams(r) => /\ req[r].kind \in Chats /\ answer[r].outcome = "ok"
                        /\ answer[r].parsed

\* A hit is a sound entry that was alive when it was found.
HitSound(r) ==
  /\ pc[r] \in {"idle", "lookup", "call"} => ~Hit(r)
  /\ Hit(r) =>
    LET e == answer[r].source.entry IN
    /\ ~Streams(r)
    /\ e.outcome = "ok"
    /\ e.asked = req[r]
    /\ e.by \in Responsible(r)
    /\ answer[r].source.since - e.at <= TTL

\* The records of a request at every place on its way.
Ledger(r) ==
  /\ pc[r] \in {"idle", "lookup", "call", "meter"} => records[r] = <<>>
  /\ pc[r] \in {"stream", "save"} => records[r] = <<>> /\ Streams(r)
  /\ pc[r] = "save" => reply[r] = "ok"
  /\ pc[r] \in {"store", "done"} => records[r] \in {<<>>, <<Record(r)>>}
  /\ pc[r] = "store" /\ records[r] = <<>> => ~Metered(r) \/ failed[r]
  /\ pc[r] = "done" /\ records[r] # <<>> /\ answer[r].outcome = "ok" =>
       reply[r] = "ok"
  /\ pc[r] = "done" /\ records[r] = <<>> /\ reply[r] = "ok" =>
       failed[r] \/ ~answer[r].parsed

Typed ==
  /\ clock \in 0..MaxTime
  /\ pc \in [Requests -> Places]
  /\ gone \in [Requests -> BOOLEAN]
  /\ reply \in [Requests -> {"ok", "client_error", "server_error",
                             "bad_gateway", "none"}]
  /\ failed \in [Requests -> BOOLEAN]
  /\ DOMAIN req = Requests
  /\ DOMAIN answer = Requests
  /\ DOMAIN records = Requests

RequestInv(r) == RequestSound(r) /\ HitSound(r) /\ Ledger(r)

IInv == /\ Typed
        /\ StoreSound
        /\ \A r \in Requests : RequestInv(r)

-----------------------------------------------------------------------------
LEMMA InitIInv == Init => IInv
<1> SUFFICES ASSUME Init PROVE IInv
  OBVIOUS
<1>1. Typed
  BY TTLAssumption DEF Init, Typed, Places
<1>2. StoreSound
  BY DEF Init, StoreSound
<1>3. ASSUME NEW r \in Requests PROVE RequestInv(r)
  <2>1. RequestSound(r)
    BY DEF Init, RequestSound, NoRequest, AnyKind
  <2>2. HitSound(r)
    BY DEF Init, HitSound, Hit, NoAnswer
  <2>3. Ledger(r)
    BY DEF Init, Ledger
  <2> QED BY <2>1, <2>2, <2>3 DEF RequestInv
<1> QED BY <1>1, <1>2, <1>3 DEF IInv

\* A step that leaves a request's components alone leaves its invariant alone.
LEMMA OthersKeep ==
  ASSUME NEW q \in Requests, RequestInv(q),
         pc'[q] = pc[q], req'[q] = req[q], answer'[q] = answer[q],
         reply'[q] = reply[q], records'[q] = records[q], failed'[q] = failed[q]
  PROVE  RequestInv(q)'
<1>1. RequestSound(q)'
  BY DEF RequestInv, RequestSound, Responsible, Streams
<1>2. HitSound(q)'
  BY DEF RequestInv, HitSound, Hit, Responsible, Streams
<1>3. Ledger(q)'
  BY DEF RequestInv, Ledger, Streams, Record, Cost, Metered, MeterResponse,
         MeterFailedResponse, MeterEmbeddingResponse, MeterAudioResponse,
         MeterSpeechResponse, Hit
<1> QED BY <1>1, <1>2, <1>3 DEF RequestInv

\* The cache stays sound while nothing is stored and time goes on.
LEMMA StoreKept ==
  ASSUME StoreSound, clock \in Nat, clock' \in Nat, clock <= clock',
         DOMAIN store' = DOMAIN store,
         \A k \in Prompts \X Providers :
           store'[k] # None => store'[k] = store[k]
  PROVE  StoreSound'
<1> SUFFICES ASSUME NEW k \in Prompts \X Providers, store'[k] # None
             PROVE  EntrySound(k)'
  BY DEF StoreSound
<1>1. store'[k] = store[k] /\ EntrySound(k)
  BY DEF StoreSound
<1> QED BY <1>1 DEF EntrySound

\* The other requests keep their invariant when a step is of one request only.
LEMMA StepOfOne ==
  ASSUME IInv, NEW r \in Requests, Typed', StoreSound', RequestInv(r)',
         \A q \in Requests \ {r} :
           /\ pc'[q] = pc[q] /\ req'[q] = req[q] /\ answer'[q] = answer[q]
           /\ reply'[q] = reply[q] /\ records'[q] = records[q]
           /\ failed'[q] = failed[q]
  PROVE  IInv'
<1> SUFFICES ASSUME NEW q \in Requests PROVE RequestInv(q)'
  BY DEF IInv
<1>1. CASE q = r
  BY <1>1
<1>2. CASE q # r
  <2>1. RequestInv(q)
    BY DEF IInv
  <2> QED BY <1>2, <2>1, OthersKeep
<1> QED BY <1>1, <1>2

LEMMA SameStore ==
  ASSUME IInv, UNCHANGED <<clock, store>> PROVE StoreSound'
BY StoreKept, TTLAssumption DEF IInv, Typed, StoreSound

LEMMA ArriveKeeps ==
  ASSUME IInv, NEW r \in Requests, NEW ask \in Asks[r], Arrive(r, ask)
  PROVE  IInv'
<1> USE DEF Arrive, Goto, Cacheable
<1>0. RequestInv(r) /\ Typed
  BY DEF IInv
<1>1. Typed'
  BY <1>0 DEF Typed, Places
<1>2. StoreSound'
  BY SameStore
<1>3. ask \in [kind : Kinds, prompt : Prompts, provider : Providers]
  BY AskAssumption
<1>4. /\ pc'[r] = IF ask.kind = "chat" THEN "lookup" ELSE "call"
      /\ req'[r] = [kind |-> ask.kind, prompt |-> ask.prompt,
                    provider |-> IF ask.kind \in LocalMedia
                                 THEN Local ELSE ask.provider]
      /\ answer'[r] = answer[r] /\ records'[r] = records[r]
  BY <1>0, <1>3 DEF Typed
<1>5. RequestSound(r)'
  BY <1>3, <1>4, AskAssumption DEF RequestSound, AnyKind, Kinds, Chats, Media
<1>6. HitSound(r)'
  BY <1>0, <1>4 DEF RequestInv, HitSound, Hit
<1>7. Ledger(r)'
  BY <1>0, <1>4 DEF RequestInv, Ledger
<1>8. RequestInv(r)'
  BY <1>5, <1>6, <1>7 DEF RequestInv
<1> QED BY <1>0, <1>1, <1>2, <1>8, StepOfOne DEF Typed

LEMMA RefuseKeeps ==
  ASSUME IInv, NEW r \in Requests, NEW ask \in Asks[r],
         NEW status \in {"client_error", "bad_gateway"}, Refuse(r, ask, status)
  PROVE  IInv'
<1> USE DEF Refuse, Goto
<1>0. RequestInv(r) /\ Typed
  BY DEF IInv
<1>1. Typed'
  BY <1>0 DEF Typed, Places
<1>2. StoreSound'
  BY SameStore
<1>3. ask \in [kind : Kinds, prompt : Prompts, provider : Providers]
  BY AskAssumption
<1>4. /\ pc'[r] = "done" /\ reply'[r] # "ok"
      /\ req'[r] = [kind |-> ask.kind, prompt |-> ask.prompt,
                    provider |-> NoProvider]
      /\ answer'[r] = answer[r] /\ records'[r] = records[r]
  BY <1>0, <1>3 DEF Typed
<1>5. RequestSound(r)'
  BY <1>3, <1>4 DEF RequestSound, AnyKind
<1>6. HitSound(r)'
  BY <1>0, <1>4 DEF RequestInv, HitSound, Hit
<1>7. Ledger(r)'
  BY <1>0, <1>4 DEF RequestInv, Ledger
<1>8. RequestInv(r)'
  BY <1>5, <1>6, <1>7 DEF RequestInv
<1> QED BY <1>0, <1>1, <1>2, <1>8, StepOfOne DEF Typed

\* A hit: the entry at the request's key was stored for the same request.
LEMMA LookUpKeeps ==
  ASSUME IInv, NEW r \in Requests, LookUp(r)
  PROVE  IInv'
<1> USE DEF LookUp, Goto
<1>0. RequestInv(r) /\ Typed /\ StoreSound
  BY DEF IInv
<1>1. Typed'
  BY <1>0 DEF Typed, Places
<1>2. StoreSound'
  BY SameStore
<1>3. /\ req'[r] = req[r] /\ records'[r] = records[r] /\ pc[r] = "lookup"
      /\ req[r].kind = "chat" /\ req[r].provider \in Providers
      /\ req[r].prompt \in Prompts
      /\ req[r] \in [kind : AnyKind, prompt : Prompts \cup {None},
                     provider : Providers \cup {NoProvider, Local}]
  BY <1>0 DEF RequestInv, RequestSound
<1>4. CASE ~Live(Key(r))
  <2>1. pc'[r] = "call" /\ answer'[r] = answer[r]
    BY <1>0, <1>4 DEF Typed
  <2>2. RequestSound(r)'
    BY <1>0, <1>3, <2>1 DEF RequestInv, RequestSound
  <2>3. HitSound(r)'
    BY <1>0, <1>3, <2>1 DEF RequestInv, HitSound, Hit
  <2>4. Ledger(r)'
    BY <1>0, <1>3, <2>1 DEF RequestInv, Ledger
  <2> QED BY <1>0, <1>1, <1>2, <2>2, <2>3, <2>4, StepOfOne DEF Typed, RequestInv
<1>5. CASE Live(Key(r))
  <2> DEFINE e == store[Key(r)]
  <2>1. /\ pc'[r] = "meter"
        /\ answer'[r] = [by |-> e.by, outcome |-> "ok",
                         parsed |-> TRUE, sse |-> FALSE,
                         source |-> [entry |-> e, since |-> clock]]
    BY <1>0, <1>5 DEF Typed
  <2>2. /\ e.outcome = "ok"
        /\ e.asked = [kind |-> "chat", prompt |-> req[r].prompt,
                      provider |-> req[r].provider]
        /\ e.by \in {req[r].provider} \cup ({Fallback} \ {NoProvider})
        /\ e.at \in 0..clock /\ e.expires = e.at + TTL
        /\ e.expires >= clock
    BY <1>0, <1>3, <1>5 DEF Live, Key, StoreSound, EntrySound
  <2>3. e.asked = req[r]
    BY <1>3, <2>2
  <2>4. e.by \in Responsible(r) /\ Responsible(r)' = Responsible(r)
    BY <1>3, <2>2, NameAssumption DEF Responsible
  <2>5. clock - e.at <= TTL
    BY <1>0, <2>2, TTLAssumption DEF Typed
  <2>6. RequestSound(r)'
    <3>1. "ok" \in Outcomes
      BY DEF Outcomes
    <3>2. ~Streams(r)'
      BY <2>1 DEF Streams
    <3> QED BY <1>0, <1>3, <2>1, <2>4, <3>1, <3>2 DEF RequestInv, RequestSound
  <2>7. HitSound(r)'
    BY <1>3, <2>1, <2>2, <2>3, <2>4, <2>5 DEF HitSound, Streams
  <2>8. Ledger(r)'
    BY <1>0, <1>3, <2>1 DEF RequestInv, Ledger
  <2> QED BY <1>0, <1>1, <1>2, <2>6, <2>7, <2>8, StepOfOne DEF Typed, RequestInv
<1> QED BY <1>4, <1>5

LEMMA AnsweredKeeps ==
  ASSUME IInv, NEW r \in Requests, NEW p \in Providers \cup {Local},
         NEW o \in Outcomes, NEW parsed \in BOOLEAN, NEW sse \in BOOLEAN,
         Answered(r, p, o, parsed, sse)
  PROVE  IInv'
<1> USE DEF Answered, Goto
<1>0. RequestInv(r) /\ Typed
  BY DEF IInv
<1>1. Typed'
  BY <1>0 DEF Typed, Places
<1>2. StoreSound'
  BY SameStore
<1>3. /\ pc'[r] = "meter" /\ req'[r] = req[r] /\ records'[r] = records[r]
      /\ answer'[r] = [by |-> p, outcome |-> o, parsed |-> parsed,
                       sse |-> sse, source |-> None]
  BY <1>0 DEF Typed
<1>4. RequestSound(r)'
  BY <1>0, <1>3 DEF RequestInv, RequestSound, Responsible, Streams
<1>5. HitSound(r)'
  BY <1>3 DEF HitSound, Hit
<1>6. Ledger(r)'
  BY <1>0, <1>3 DEF RequestInv, Ledger
<1> QED BY <1>0, <1>1, <1>2, <1>4, <1>5, <1>6, StepOfOne DEF Typed, RequestInv

\* An answer that cannot be read, or that nothing is saved for, or a stream: the
\* request moves on without a record.
LEMMA UnreadableKeeps ==
  ASSUME IInv, NEW r \in Requests, Unreadable(r)
  PROVE  IInv'
<1> USE DEF Unreadable, Goto, Fault
<1>0. RequestInv(r) /\ Typed
  BY DEF IInv
<1>1. Typed'
  BY <1>0 DEF Typed, Places
<1>2. StoreSound'
  BY SameStore
<1>3. /\ pc'[r] = "done" /\ reply'[r] = "bad_gateway"
      /\ UNCHANGED <<req[r], answer[r], records[r]>>
  BY <1>0 DEF Typed
<1>4. RequestSound(r)'
  BY <1>0, <1>3 DEF RequestInv, RequestSound
<1>5. HitSound(r)'
  BY <1>0, <1>3 DEF RequestInv, HitSound, Hit, Responsible, Streams
<1>6. Ledger(r)'
  BY <1>0, <1>3 DEF RequestInv, Ledger
<1> QED BY <1>0, <1>1, <1>2, <1>4, <1>5, <1>6, StepOfOne DEF Typed, RequestInv

LEMMA UnmeteredKeeps ==
  ASSUME IInv, NEW r \in Requests, Unmetered(r)
  PROVE  IInv'
<1> USE DEF Unmetered, Goto
<1>0. RequestInv(r) /\ Typed
  BY DEF IInv
<1>1. Typed'
  BY <1>0 DEF Typed, Places
<1>2. StoreSound'
  BY SameStore
<1>3. /\ pc'[r] = "store"
      /\ UNCHANGED <<req[r], answer[r], reply[r], records[r], failed[r]>>
  BY <1>0 DEF Typed
<1>4. RequestSound(r)'
  BY <1>0, <1>3 DEF RequestInv, RequestSound, Responsible, Streams
<1>5. HitSound(r)'
  BY <1>0, <1>3 DEF RequestInv, HitSound, Hit, Responsible, Streams
<1>6. ~Metered(r)'
  BY <1>3 DEF Metered, MeterResponse, MeterFailedResponse,
     MeterEmbeddingResponse, MeterAudioResponse, MeterSpeechResponse, Streams
<1>7. Ledger(r)'
  BY <1>0, <1>3, <1>6 DEF RequestInv, Ledger
<1> QED BY <1>0, <1>1, <1>2, <1>4, <1>5, <1>7, StepOfOne DEF Typed, RequestInv

LEMMA PassStreamKeeps ==
  ASSUME IInv, NEW r \in Requests, PassStream(r)
  PROVE  IInv'
<1> USE DEF PassStream, Goto
<1>0. RequestInv(r) /\ Typed
  BY DEF IInv
<1>1. Typed'
  BY <1>0 DEF Typed, Places
<1>2. StoreSound'
  BY SameStore
<1>3. /\ pc'[r] = "stream" /\ Streams(r)
      /\ UNCHANGED <<req[r], answer[r], reply[r], records[r], failed[r]>>
  BY <1>0 DEF Typed
<1>4. RequestSound(r)'
  BY <1>0, <1>3 DEF RequestInv, RequestSound, Responsible, Streams
<1>5. HitSound(r)'
  BY <1>0, <1>3 DEF RequestInv, HitSound, Hit, Responsible, Streams
<1>6. Ledger(r)'
  BY <1>0, <1>3 DEF RequestInv, Ledger, Streams
<1> QED BY <1>0, <1>1, <1>2, <1>4, <1>5, <1>6, StepOfOne DEF Typed, RequestInv

LEMMA StreamEndsKeeps ==
  ASSUME IInv, NEW r \in Requests, StreamEnds(r)
  PROVE  IInv'
<1> USE DEF StreamEnds, Goto
<1>0. RequestInv(r) /\ Typed
  BY DEF IInv
<1>1. Typed'
  BY <1>0 DEF Typed, Places
<1>2. StoreSound'
  BY SameStore
<1>3. /\ pc'[r] = "save" /\ reply'[r] = "ok"
      /\ UNCHANGED <<req[r], answer[r], records[r], failed[r]>>
  BY <1>0 DEF Typed
<1>4. RequestSound(r)'
  BY <1>0, <1>3 DEF RequestInv, RequestSound, Responsible, Streams
<1>5. HitSound(r)'
  BY <1>0, <1>3 DEF RequestInv, HitSound, Hit, Responsible, Streams
<1>6. Ledger(r)'
  BY <1>0, <1>3 DEF RequestInv, Ledger, Streams
<1> QED BY <1>0, <1>1, <1>2, <1>4, <1>5, <1>6, StepOfOne DEF Typed, RequestInv

\* A record is saved in one place only: no request has one before it is there.
LEMMA SaveKeeps ==
  ASSUME IInv, NEW r \in Requests, Save(r)
  PROVE  IInv'
<1> USE DEF Save, Saving, Saved, Goto
<1>0. RequestInv(r) /\ Typed
  BY DEF IInv
<1>1. Typed'
  BY <1>0 DEF Typed, Places
<1>2. StoreSound'
  BY SameStore
<1>3. /\ pc'[r] = IF Streams(r) THEN "done" ELSE "store"
      /\ pc[r] = IF Streams(r) THEN "save" ELSE "meter"
      /\ UNCHANGED <<req[r], answer[r], reply[r], failed[r]>>
      /\ Record(r)' = Record(r)
  BY <1>0 DEF Typed, Record, Cost, Hit
<1>4. records[r] = <<>>
  BY <1>0, <1>3 DEF RequestInv, Ledger
<1>5. records'[r] = <<Record(r)'>> /\ records'[r] # <<>>
  BY <1>0, <1>3, <1>4 DEF Typed
<1>6. RequestSound(r)'
  BY <1>0, <1>3 DEF RequestInv, RequestSound, Responsible, Streams
<1>7. HitSound(r)'
  BY <1>0, <1>3 DEF RequestInv, HitSound, Hit, Responsible, Streams
<1>8. Ledger(r)'
  BY <1>0, <1>3, <1>5 DEF RequestInv, Ledger
<1> QED BY <1>0, <1>1, <1>2, <1>6, <1>7, <1>8, StepOfOne DEF Typed, RequestInv

LEMMA SaveFailsKeeps ==
  ASSUME IInv, NEW r \in Requests, SaveFails(r)
  PROVE  IInv'
<1> USE DEF SaveFails, Saving, Saved, Goto, Fault
<1>0. RequestInv(r) /\ Typed
  BY DEF IInv
<1>1. Typed'
  BY <1>0 DEF Typed, Places
<1>2. StoreSound'
  BY SameStore
<1>3. /\ pc'[r] = IF Streams(r) THEN "done" ELSE "store"
      /\ pc[r] = IF Streams(r) THEN "save" ELSE "meter"
      /\ failed'[r] = TRUE
      /\ UNCHANGED <<req[r], answer[r], reply[r], records[r]>>
  BY <1>0 DEF Typed
<1>6. RequestSound(r)'
  BY <1>0, <1>3 DEF RequestInv, RequestSound, Responsible, Streams
<1>7. HitSound(r)'
  BY <1>0, <1>3 DEF RequestInv, HitSound, Hit, Responsible, Streams
<1>8. Ledger(r)'
  BY <1>0, <1>3 DEF RequestInv, Ledger
<1> QED BY <1>0, <1>1, <1>2, <1>6, <1>7, <1>8, StepOfOne DEF Typed, RequestInv

\* What is stored is an answer to the request its key stands for.
LEMMA ReplyStores ==
  ASSUME IInv, NEW r \in Requests, Reply(r)
  PROVE  StoreSound'
<1>0. RequestInv(r) /\ Typed /\ StoreSound
  BY DEF IInv
<1>1. CASE ~Stores(r)
  BY <1>1, SameStore DEF Reply
<1>2. CASE Stores(r)
  <2>1. /\ req[r].kind = "chat" /\ req[r].provider \in Providers
        /\ req[r].prompt \in Prompts /\ answer[r].outcome = "ok"
        /\ answer[r].by \in Responsible(r)
        /\ req[r] \in [kind : AnyKind, prompt : Prompts \cup {None},
                       provider : Providers \cup {NoProvider, Local}]
        /\ clock \in Nat /\ clock' = clock
    BY <1>0, <1>2 DEF Reply, Stores, Cacheable, RequestInv, RequestSound, Typed
  <2>2. /\ Key(r) \in Prompts \X Providers
        /\ Key(r)[1] = req[r].prompt /\ Key(r)[2] = req[r].provider
        /\ store' = [store EXCEPT ![Key(r)] = Entry(r)]
    BY <1>2, <2>1 DEF Key, Reply
  <2>3. SUFFICES ASSUME NEW k \in Prompts \X Providers, store'[k] # None
                 PROVE  EntrySound(k)'
    BY <1>0, <2>2 DEF StoreSound
  <2>4. CASE k # Key(r)
    <3>1. store'[k] = store[k]
      BY <1>0, <2>2, <2>4 DEF StoreSound
    <3> QED BY <1>0, <2>1, <2>3, <3>1 DEF StoreSound, EntrySound
  <2>5. CASE k = Key(r)
    <3>1. store'[k] = Entry(r)
      BY <1>0, <2>2, <2>5 DEF StoreSound
    <3>2. req[r] = [kind |-> "chat", prompt |-> k[1], provider |-> k[2]]
      BY <2>1, <2>2, <2>5
    <3>3. answer[r].by \in {k[2]} \cup ({Fallback} \ {NoProvider})
      BY <2>1, <2>2, <2>5 DEF Responsible
    <3> QED BY <2>1, <3>1, <3>2, <3>3, TTLAssumption DEF EntrySound, Entry
  <2> QED BY <2>4, <2>5
<1> QED BY <1>1, <1>2

LEMMA ReplyKeeps ==
  ASSUME IInv, NEW r \in Requests, Reply(r)
  PROVE  IInv'
<1> USE DEF Reply, Goto
<1>0. RequestInv(r) /\ Typed
  BY DEF IInv
<1>1. RequestSound(r) /\ HitSound(r) /\ Ledger(r) /\ pc[r] = "store"
  BY <1>0 DEF RequestInv
<1>2. answer[r].outcome \in Outcomes
  BY <1>1 DEF RequestSound
<1>3. Typed'
  BY <1>0, <1>2 DEF Typed, Places, Status, Outcomes
<1>4. StoreSound'
  BY ReplyStores
<1>5. /\ pc'[r] = "done" /\ reply'[r] = Status(r)
      /\ UNCHANGED <<req[r], answer[r], records[r], failed[r]>>
      /\ Record(r)' = Record(r)
  BY <1>0 DEF Typed, Record, Cost, Hit
<1>6. RequestSound(r)'
  BY <1>1, <1>5 DEF RequestSound
<1>7. HitSound(r)'
  BY <1>1, <1>5 DEF HitSound, Hit, Responsible, Streams
<1>8. ASSUME records[r] = <<>>, Status(r) = "ok"
      PROVE  failed[r] \/ ~answer[r].parsed
  <2>1. answer[r].outcome = "ok" /\ (~Metered(r) \/ failed[r])
    BY <1>1, <1>8 DEF Status, Ledger
  <2>2. req[r].kind \in Kinds
    BY <1>1 DEF RequestSound
  <2> QED BY <2>1, <2>2 DEF Metered, MeterResponse, MeterEmbeddingResponse,
             MeterAudioResponse, MeterSpeechResponse, Kinds, Media
<1>9. Ledger(r)'
  BY <1>1, <1>5, <1>8 DEF Ledger, Status
<1> QED BY <1>0, <1>3, <1>4, <1>6, <1>7, <1>9, StepOfOne DEF Typed, RequestInv

LEMMA LeaveKeeps ==
  ASSUME IInv, NEW r \in Requests, Leave(r)
  PROVE  IInv'
<1> USE DEF Leave
<1>0. RequestInv(r) /\ Typed
  BY DEF IInv
<1>1. Typed'
  BY <1>0 DEF Typed, Places
<1>2. StoreSound'
  BY SameStore
<1>3. /\ pc'[r] = "idle" /\ req'[r] = NoRequest /\ answer'[r] = NoAnswer
      /\ records'[r] = <<>>
  BY <1>0 DEF Typed
<1>4. RequestSound(r)'
  BY <1>3 DEF RequestSound, NoRequest, AnyKind
<1>5. HitSound(r)'
  BY <1>3 DEF HitSound, Hit, NoAnswer
<1>6. Ledger(r)'
  BY <1>3 DEF Ledger
<1> QED BY <1>0, <1>1, <1>2, <1>4, <1>5, <1>6, StepOfOne DEF Typed, RequestInv

\* What happens beside the requests' own steps.
LEMMA BesideKeeps ==
  ASSUME IInv, \/ \E r \in Requests : Disconnect(r)
               \/ \E k \in Prompts \X Providers : Evict(k)
               \/ Tick
  PROVE  IInv'
<1>0. Typed /\ StoreSound
  BY DEF IInv
<1>1. UNCHANGED <<pc, req, answer, reply, records, failed>>
  BY DEF Disconnect, Evict, Tick
<1>2. /\ Typed' /\ clock <= clock'
      /\ DOMAIN store' = DOMAIN store
      /\ \A k \in Prompts \X Providers :
           store'[k] # None => store'[k] = store[k]
  <2>1. CASE \E r \in Requests : Disconnect(r)
    BY <1>0, <1>1, <2>1 DEF Typed, Disconnect
  <2>2. CASE \E k \in Prompts \X Providers : Evict(k)
    <3>1. PICK k \in Prompts \X Providers : Evict(k)
      BY <2>2
    <3>2. store' = [store EXCEPT ![k] = None] /\ UNCHANGED <<clock, gone>>
      BY <3>1 DEF Evict
    <3>3. DOMAIN store = Prompts \X Providers
      BY <1>0 DEF StoreSound
    <3>4. DOMAIN store' = DOMAIN store
      BY <3>2, <3>3
    <3>5. ASSUME NEW j \in Prompts \X Providers, store'[j] # None
          PROVE  store'[j] = store[j]
      BY <3>2, <3>3, <3>5
    <3>6. Typed' /\ clock <= clock'
      BY <1>0, <1>1, <3>2 DEF Typed
    <3> QED BY <3>4, <3>5, <3>6
  <2>3. CASE Tick
    <3>1. clock' \in 0..MaxTime /\ clock <= clock' /\ UNCHANGED <<store, gone>>
      BY <1>0, <2>3, TTLAssumption DEF Typed, Tick
    <3> QED BY <1>0, <1>1, <3>1 DEF Typed
  <2> QED BY <2>1, <2>2, <2>3
<1>3. StoreSound'
  <2>1. clock \in Nat /\ clock' \in Nat
    BY <1>0, <1>2, TTLAssumption DEF Typed
  <2> QED BY <1>0, <1>2, <2>1, StoreKept
<1>4. ASSUME NEW q \in Requests PROVE RequestInv(q)'
  BY <1>1, OthersKeep DEF IInv
<1> QED BY <1>2, <1>3, <1>4 DEF IInv

LEMMA NextIInv == IInv /\ [Next]_vars => IInv'
<1> SUFFICES ASSUME IInv, [Next]_vars PROVE IInv'
  OBVIOUS
<1>1. CASE UNCHANGED vars
  <2>1. Typed'
    BY <1>1 DEF IInv, Typed, vars
  <2>2. StoreSound'
    BY <1>1, SameStore DEF vars
  <2>3. ASSUME NEW q \in Requests PROVE RequestInv(q)'
    BY <1>1, OthersKeep DEF IInv, vars
  <2> QED BY <2>1, <2>2, <2>3 DEF IInv
<1>2. ASSUME NEW r \in Requests, NEW ask \in Asks[r],
             \/ Arrive(r, ask)
             \/ \E status \in {"client_error", "bad_gateway"} :
                  Refuse(r, ask, status)
      PROVE  IInv'
  BY <1>2, ArriveKeeps, RefuseKeeps
<1>3. ASSUME NEW r \in Requests, Step(r) PROVE IInv'
  BY <1>3, LookUpKeeps, AnsweredKeeps, UnreadableKeeps, UnmeteredKeeps,
     PassStreamKeeps, StreamEndsKeeps, SaveKeeps, SaveFailsKeeps, ReplyKeeps,
     LeaveKeeps DEF Step
<1> QED BY <1>1, <1>2, <1>3, BesideKeeps DEF Next

LEMMA Invariance == Spec => []IInv
BY InitIInv, NextIInv, PTL DEF Spec

-----------------------------------------------------------------------------
\* Every state has the types the program gives its values.
THEOREM TypeCorrect == Spec => []TypeOK
<1>1. ASSUME IInv, NEW k \in Prompts \X Providers, store[k] # None
      PROVE  store[k].expires \in TTL..(clock + TTL)
  <2>1. EntrySound(k)
    BY <1>1 DEF IInv, StoreSound
  <2>2. store[k].at \in 0..clock /\ store[k].expires = store[k].at + TTL
    BY <2>1 DEF EntrySound
  <2>3. clock \in Nat
    BY <1>1, TTLAssumption DEF IInv, Typed
  <2> QED BY <2>2, <2>3, TTLAssumption
<1>2. ASSUME IInv, NEW r \in Requests, pc[r] # "idle"
      PROVE  req[r].kind \in Kinds /\ req[r].prompt \in Prompts
  BY <1>2 DEF IInv, RequestInv, RequestSound
<1>3. IInv => Typed /\ DOMAIN store = Prompts \X Providers
  BY DEF IInv, StoreSound
<1>4. IInv => TypeOK
  BY <1>1, <1>2, <1>3 DEF Typed, TypeOK
<1> QED BY <1>4, Invariance, PTL

\* The cache never answers a request with what was said to another one, what
\* another provider said unless as its fallback, or what is too old.
THEOREM CacheNeverLies == Spec => []CacheSound
<1>1. IInv => CacheSound
  BY DEF IInv, RequestInv, HitSound, CacheSound
<1> QED BY <1>1, Invariance, PTL

\* However requests, disconnects and failing inserts interleave, and whatever a
\* provider declares its answer to be, what a request leaves in the usage store is
\* at most one record, of the provider that answered if one did, at no cost if none
\* did, and none is missing but for a failed insert or an answer beyond parsing.
THEOREM EveryAnswerBilledOnce == Spec => []BilledOnce
<1>1. ASSUME IInv, NEW r \in Requests, pc[r] = "done"
      PROVE  /\ Len(records[r]) <= 1
             /\ \A i \in DOMAIN records[r] :
                  /\ ~Hit(r) => records[r][i].provider = answer[r].by
                  /\ records[r][i].cost > 0 => reply[r] = "ok" /\ ~Hit(r)
             /\ reply[r] = "ok" /\ Len(records[r]) = 0 =>
                  failed[r] \/ ~answer[r].parsed
  <2>1. Ledger(r)
    BY <1>1 DEF IInv, RequestInv
  <2>2. CASE records[r] = <<>>
    BY <1>1, <2>1, <2>2 DEF Ledger
  <2>3. CASE records[r] = <<Record(r)>> /\ records[r] # <<>>
    <3>1. Len(records[r]) = 1 /\ DOMAIN records[r] = {1}
          /\ records[r][1] = Record(r)
      BY <2>3
    <3>2. Record(r).cost > 0 => answer[r].outcome = "ok" /\ ~Hit(r)
      BY DEF Record, Cost
    <3> QED BY <1>1, <2>1, <2>3, <3>1, <3>2 DEF Ledger, Record
  <2> QED BY <1>1, <2>1, <2>2, <2>3 DEF Ledger
<1>2. IInv => BilledOnce
  BY <1>1 DEF BilledOnce
<1> QED BY <1>2, Invariance, PTL
=============================================================================
