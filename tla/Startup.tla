------------------------------ MODULE Startup -------------------------------
(***************************************************************************)
(* From a configuration file to a gateway that serves: config.Load,        *)
(* app.New and gateway.New, for every order in which Go may range over the *)
(* maps they read, and the restarts in between.                            *)
(*                                                                         *)
(* A setting of the file is "" or some text, or it refers to a variable of *)
(* the environment.  A text is "text", "blank" (spaces only) or            *)
(* "malformed" (a base URL url.Parse refuses).  Durations are valid or     *)
(* not.  The four provider sections of the file are the families below.    *)
(***************************************************************************)
EXTENDS Router

CONSTANTS Files,        \* the configuration files
          Environments, \* what the process may find in its environment
          EnvRefs,      \* the settings that refer to the environment
          Requests      \* the requests whose routing is looked at

Sections == <<"openai", "anthropic", "gemini", "openai_compatible">>
Section  == Range(Sections)

\* NameOrder has every configured provider, priorities are integers, and
\* configured rates are integers apart from the one that stands for "no price".
ASSUME FileAssumption ==
  \A f \in Files :
    /\ \A s \in Section : \A n \in DOMAIN f.providers[s] :
         /\ n \in Range(NameOrder)
         /\ "priority" \in DOMAIN f.providers[s][n]
         /\ f.providers[s][n].priority \in Int
    /\ \A family \in DOMAIN f.prices : \A m \in DOMAIN f.prices[family] :
         f.prices[family][m] \in [input : Int \ {Unpriced.input}, output : Int]

DefaultRetry   == [attempts |-> 1, backoff |-> 500, cap |-> 10000]
DefaultBreaker == [disabled |-> FALSE, threshold |-> 5, cooldown |-> 30]

ASSUME RequestAssumption ==
  \A r \in Requests : r.kind \in {"chat", "audio", "speech", "embedding"}

VARIABLES
  file,       \* the configuration file
  env,        \* the environment
  phase,      \* "load", "register", "connect", "serve" or "exited"
  config,     \* what Load made of the file
  loop,       \* the section app.New is registering, by number
  todo,       \* the names of that section it has not reached yet
  registry,   \* provider -> the section its adapter comes from
  available,  \* availableProviders
  catalog,    \* provider -> its metadata
  retries,    \* provider -> its retry policy
  breakers,   \* provider -> its breaker policy
  modes,      \* gateway.modeToProvider
  embedder,   \* gateway.embeddingProviderName
  before      \* history: request -> where the process before this one sent it

built  == <<registry, available, catalog, retries, breakers, modes, embedder>>
vars   == <<file, env, phase, config, loop, todo, built, before>>

EmptyMap == <<>>
NoConfig == EmptyMap
NoBefore == EmptyMap

-----------------------------------------------------------------------------
(* config.Load *)

Text(value) == value \notin {"", "blank"}           \* strings.TrimSpace(v) # ""

ResolveEnvIfPresent(e, setting) ==
  IF setting \in EnvRefs THEN e.vars[setting] ELSE setting

\* resolveEnv panics when the variable is not set.
Missing(e, setting) == setting \in EnvRefs /\ e.vars[setting] = ""

\* The settings that must resolve: the database, the admin key and, whether
\* e-mail is enabled or not, its account and addresses.
MustResolve(f) ==
  {f.dsn, f.adminKey, f.email.username, f.email.password, f.email.from}
    \cup f.email.to

EmailValid(f) ==
  f.email.enabled =>
    /\ f.email.host # "" /\ f.email.port > 0
    /\ "" \notin {f.email.username, f.email.password, f.email.from}
    /\ f.email.to # {}

DurationsValid(f) ==
  f.cacheTTLValid /\ f.reportIntervalValid

\* One provider section: its durations are parsed, its keys resolved.
EntriesValid(entries) ==
  \A n \in DOMAIN entries : entries[n].timeoutValid /\ entries[n].retryValid

LoadEntries(e, entries) ==
  [n \in DOMAIN entries |->
     [entries[n] EXCEPT !.apiKey = ResolveEnvIfPresent(e, @)]]

LoadOpenAI(e, f)     == LoadEntries(e, f.providers["openai"])
LoadAnthropic(e, f)  == LoadEntries(e, f.providers["anthropic"])
LoadGemini(e, f)     == LoadEntries(e, f.providers["gemini"])
LoadCompatible(e, f) == LoadEntries(e, f.providers["openai_compatible"])

LoadProviders(e, f) ==
  [s \in Section |-> CASE s = "openai"            -> LoadOpenAI(e, f)
                       [] s = "anthropic"         -> LoadAnthropic(e, f)
                       [] s = "gemini"            -> LoadGemini(e, f)
                       [] s = "openai_compatible" -> LoadCompatible(e, f)]

\* Mutation: a provider without a key counts, whatever its section.
UsableWithoutKey(section, entry) == Text(entry.baseURL)

Usable(section, entry) ==
  /\ Text(entry.baseURL)
  /\ section # "openai_compatible" => Text(entry.apiKey)

HasUsableProvider(providers) ==
  \E s \in Section : \E n \in DOMAIN providers[s] : Usable(s, providers[s][n])

\* loadAudioConfig and ValidateAudioConfig, for each of the two audio endpoints.
AudioProvider(server) ==
  IF Text(server.provider) THEN server.provider ELSE "openai"
AudioValid(e) ==
  \A k \in {"audio", "speech"} :
    /\ AudioProvider(e[k]) \in {"openai", "local"}
    /\ AudioProvider(e[k]) = "local" => Text(e[k].url)

EmbeddingProvider(e) == IF Text(e.embedding) THEN e.embedding ELSE "ollama"
EmbeddingValid(e)    == EmbeddingProvider(e) \in {"ollama", "openai"}

LoadConfig(e, f) ==
  [providers |-> LoadProviders(e, f),
   routing   |-> f.routing,
   prices    |-> f.prices,
   local     |-> {k \in {"audio", "speech"} : AudioProvider(e[k]) = "local"},
   override  |-> e.override,
   embedding |-> EmbeddingProvider(e)]

Loads(e, f) ==
  /\ \A setting \in MustResolve(f) : ~Missing(e, setting)
  /\ EmailValid(f)
  /\ DurationsValid(f)
  /\ \A s \in Section : EntriesValid(f.providers[s])
  /\ f.routing.default # NoProvider
  /\ HasUsableProvider(LoadProviders(e, f))
  /\ AudioValid(e) /\ EmbeddingValid(e)

Init ==
  /\ file \in Files
  /\ env \in Environments
  /\ phase = "load"
  /\ config = NoConfig
  /\ loop = 1
  /\ todo = {}
  /\ registry = EmptyMap
  /\ available = {}
  /\ catalog = EmptyMap
  /\ retries = EmptyMap
  /\ breakers = EmptyMap
  /\ modes = EmptyMap
  /\ embedder = NoProvider
  /\ before = NoBefore

\* main loads the file, ...
Load ==
  /\ phase = "load"
  /\ Loads(env, file)
  /\ config' = LoadConfig(env, file)
  /\ phase' = "register"
  /\ loop' = 1
  /\ todo' = DOMAIN config'.providers["openai"]
  /\ UNCHANGED <<file, env, built, before>>

\* ... and exits when Load returns an error or panics.
LoadFails ==
  /\ phase = "load"
  /\ ~Loads(env, file)
  /\ phase' = "exited"
  /\ UNCHANGED <<file, env, config, loop, todo, built, before>>

-----------------------------------------------------------------------------
(* app.New: the registration loops *)

Metadata(section, entry, enabled, skip) ==
  [type |-> section, enabled |-> enabled, skip |-> skip,
   priority |-> entry.priority, models |-> entry.models]

\* m[key] = value
Put(m, key, value) ==
  [k \in DOMAIN m \cup {key} |-> IF k = key THEN value ELSE m[k]]

Set(name, metadata) == catalog' = Put(catalog, name, metadata)

\* The entry is listed in the catalog as disabled; a provider registered under
\* the same name from an earlier section stays registered.
Skip(section, name, reason) ==
  /\ Set(name,
         Metadata(section, config.providers[section][name], FALSE, reason))
  /\ todo' = todo \ {name}
  /\ UNCHANGED <<phase, registry, available>>

\* Mutation: the provider's metadata are forgotten.
RegisterUnlisted(section, name) ==
  /\ registry' = Put(registry, name, section)
  /\ available' = available \cup {name}
  /\ todo' = todo \ {name}
  /\ UNCHANGED <<phase, catalog>>

\* Register overwrites the adapter of an earlier section.
Register(section, name) ==
  /\ registry' = Put(registry, name, section)
  /\ available' = available \cup {name}
  /\ Set(name, Metadata(section, config.providers[section][name], TRUE, ""))
  /\ todo' = todo \ {name}
  /\ UNCHANGED phase

\* NewClient refuses the base URL: app.New returns the error and main exits.
Refuse == phase' = "exited" /\ UNCHANGED <<registry, available, catalog, todo>>

\* Mutation: a skipped entry ends the loop over its section.
EntryBreaks(section, needsKey, name) ==
  LET entry == config.providers[section][name] IN
  /\ phase = "register"
  /\ Sections[loop] = section
  /\ name \in todo
  /\ IF entry.baseURL = "" \/ (needsKey /\ entry.apiKey = "")
     THEN todo' = {} /\ UNCHANGED <<phase, registry, available, catalog>>
     ELSE IF entry.baseURL = "malformed" THEN Refuse
     ELSE Register(section, name)
  /\ UNCHANGED <<file, env, config, loop, retries, breakers, modes, embedder,
                 before>>

\* One entry, whichever the range over the map yields next.
Entry(section, needsKey, name) ==
  LET entry == config.providers[section][name] IN
  /\ phase = "register"
  /\ Sections[loop] = section
  /\ name \in todo
  /\ IF entry.baseURL = "" THEN Skip(section, name, "missing_base_url")
     ELSE IF needsKey /\ entry.apiKey = "" THEN
       Skip(section, name, "missing_api_key")
     ELSE IF entry.baseURL = "malformed" THEN Refuse
     ELSE Register(section, name)
  /\ UNCHANGED <<file, env, config, loop, retries, breakers, modes, embedder,
                 before>>

OpenAIEntry(name)     == Entry("openai", TRUE, name)
AnthropicEntry(name)  == Entry("anthropic", TRUE, name)
GeminiEntry(name)     == Entry("gemini", TRUE, name)
CompatibleEntry(name) == Entry("openai_compatible", FALSE, name)

NextSection ==
  /\ phase = "register"
  /\ todo = {}
  /\ loop < Len(Sections)
  /\ loop' = loop + 1
  /\ todo' = DOMAIN config.providers[Sections[loop + 1]]
  /\ UNCHANGED <<file, env, phase, config, built, before>>

-----------------------------------------------------------------------------
(* app.New: policies, database, gateway *)

ApplyRetryDefaults(retry) ==
  [attempts |-> IF retry.attempts <= 0 THEN DefaultRetry.attempts
                ELSE retry.attempts,
   backoff  |-> IF retry.backoff <= 0 THEN DefaultRetry.backoff
                ELSE retry.backoff,
   cap      |-> IF retry.cap <= 0 THEN DefaultRetry.cap ELSE retry.cap]

ApplyBreakerPolicy(policy) ==
  IF policy.disabled THEN [disabled |-> TRUE, threshold |-> 0, cooldown |-> 0]
  ELSE [disabled  |-> FALSE,
        threshold |-> IF policy.threshold > 0 THEN policy.threshold
                      ELSE DefaultBreaker.threshold,
        cooldown  |-> IF policy.cooldown > 0 THEN policy.cooldown
                      ELSE DefaultBreaker.cooldown]

Configured == UNION {DOMAIN config.providers[s] : s \in Section}

\* The last section that configures the name: its policies are the ones kept.
LastEntry(name) ==
  LET last == Max({i \in DOMAIN Sections :
                     name \in DOMAIN config.providers[Sections[i]]})
  IN config.providers[Sections[last]][name]

Policies ==
  /\ phase = "register"
  /\ loop = Len(Sections)
  /\ todo = {}
  /\ retries' = [n \in Configured |-> ApplyRetryDefaults(LastEntry(n).retry)]
  /\ breakers' = [n \in Configured |-> ApplyBreakerPolicy(LastEntry(n).breaker)]
  /\ phase' = "connect"
  /\ UNCHANGED <<file, env, config, loop, todo, registry, available, catalog,
                 modes, embedder, before>>

\* The maps that writing every mode in lower case may give: of two spellings of
\* a mode, the one ranged over last is kept.
ModeMaps(raw) ==
  LET lower(mode)    == IF mode = "CHEAP" THEN "cheap" ELSE mode
      spellings(key) == {mode \in DOMAIN raw : lower(mode) = key}
      keys           == {lower(mode) : mode \in DOMAIN raw}
  IN {m \in [keys -> Range(raw)] :
        \A key \in keys : m[key] \in {raw[mode] : mode \in spellings(key)}}

Named(part, section) ==
  {n \in DOMAIN config.providers[section] : part \in Range(n)} \cap available

\* resolveEmbeddingProviderName: any available provider of the section, those
\* named after the backend first.
Embedders ==
  LET section == IF config.embedding = "ollama" THEN "openai_compatible"
                 ELSE "openai"
      named   == Named(config.embedding, section)
      all     == DOMAIN config.providers[section] \cap available
  IN CASE named # {}               -> named
       [] named = {} /\ all # {}   -> all
       [] OTHER                    -> {NoProvider}

\* The database answers, the gateway is built, and the server listens.
Serve ==
  /\ phase = "connect"
  /\ embedder' \in Embedders
  /\ modes' \in ModeMaps(config.routing.modes)
  /\ phase' = "serve"
  /\ UNCHANGED <<file, env, config, loop, todo, registry, available, catalog,
                 retries, breakers, before>>

\* The database or the feedback log cannot be opened: main exits.
ConnectFails ==
  /\ phase = "connect"
  /\ phase' = "exited"
  /\ UNCHANGED <<file, env, config, loop, todo, built, before>>

-----------------------------------------------------------------------------
\* What the requests see of a gateway that serves.
Wiring ==
  [registry |-> registry, available |-> available, catalog |-> catalog,
   routing |-> config.routing, prices |-> config.prices, modes |-> modes,
   local |-> config.local, override |-> config.override,
   embedder |-> embedder]

\* The process dies, or is stopped, and is started again with the same file and
\* environment.  (An edited file is another initial state.)
Restart ==
  /\ phase \in {"serve", "exited"}
  /\ before' = IF phase = "serve"
               THEN [r \in Requests |-> Route(Wiring, r)] ELSE before
  /\ phase' = "load"
  /\ config' = NoConfig
  /\ loop' = 1
  /\ todo' = {}
  /\ registry' = EmptyMap
  /\ available' = {}
  /\ catalog' = EmptyMap
  /\ retries' = EmptyMap
  /\ breakers' = EmptyMap
  /\ modes' = EmptyMap
  /\ embedder' = NoProvider
  /\ UNCHANGED <<file, env>>

Next ==
  \/ Load
  \/ LoadFails
  \/ \E name \in todo : \/ OpenAIEntry(name)
                        \/ AnthropicEntry(name)
                        \/ GeminiEntry(name)
                        \/ CompatibleEntry(name)
  \/ NextSection
  \/ Policies
  \/ Serve
  \/ ConnectFails
  \/ Restart

Spec == Init /\ [][Next]_vars

-----------------------------------------------------------------------------
(* Properties *)

\* Type invariant.
TypeOK ==
  /\ phase \in {"load", "register", "connect", "serve", "exited"}
  /\ loop \in DOMAIN Sections
  /\ phase = "register" =>
       todo \subseteq DOMAIN config.providers[Sections[loop]]
  /\ \A n \in DOMAIN registry : registry[n] \in Section
  /\ DOMAIN registry \subseteq DOMAIN catalog
  /\ DOMAIN retries = DOMAIN breakers

\* A gateway that serves has a provider registered, and knows as available just
\* the registered ones.  Load judges the providers usable, with spaces trimmed;
\* app.New decides again, without trimming; and the router, left with no
\* available provider at all, would take every name for an available one.
ServingIsWired ==
  phase = "serve" => available # {} /\ available = DOMAIN registry

\* The models a provider registered under this name may be asked for.  (Nobody
\* can be routed to an entry without a name.)
Serves(name, model) ==
  /\ name \in DOMAIN registry /\ name # NoProvider
  /\ LastEntry(name).models = {} \/ model \in LastEntry(name).models

PriceAt(name, model) == InputPricePer1M(config.prices, name, model)

\* What a token of the prompt will be billed at, for a model that has a price.
PromptCost(name, model) ==
  EstimateCost(config.prices, name, model,
    [cacheHit |-> FALSE, prompt |-> 1, completion |-> 0, read |-> 0,
     write |-> 0])

\* Of two providers that could both take the model, q is the one to choose.
Preferable(q, p, model) ==
  \/ LastEntry(q).priority > LastEntry(p).priority
  \/ /\ LastEntry(q).priority = LastEntry(p).priority
     /\ PriceAt(q, model) # Unpriced.input
     /\ \/ PriceAt(p, model) = Unpriced.input
        \/ PromptCost(q, model) < PromptCost(p, model)

\* What the router answers agrees with the configuration, through availability
\* map, catalog and price table: a request it routes gets a provider that is
\* registered and configured for the model; the one mapped to the model whenever
\* that one can serve it; and otherwise none is passed over that can serve it,
\* has a higher priority or, at the same priority, bills a prompt at a lower
\* known price.
RoutingSound ==
  phase = "serve" =>
    \A r \in {q \in Requests : q.kind = "chat"} :
      LET p      == PickProvider(Wiring, r.model)
          mapped == PickFromExactMapping(Wiring, r.model)
          others == {MatchProviderByModel(r.model), config.routing.default}
      IN /\ p # NoProvider => Serves(p, r.model)
         /\ Serves(mapped, r.model) => p = mapped
         /\ ~Serves(mapped, r.model) =>
              \A q \in others : Serves(q, r.model) =>
                p # NoProvider /\ ~Preferable(q, p, r.model)

Several(S) == \E a, b \in S : a # b

\* A choice that Go's map order leaves open.
Open(r) ==
  \/ r.kind = "embedding" /\ Several(Embedders)
  \/ r.mode # "" /\ Several(ModeMaps(config.routing.modes))

\* A restart sends every request where it went before, whatever the order in
\* which the maps of the configuration are ranged over this time.  The two
\* exceptions are the code's: which of several embedding providers is taken, and
\* which of two spellings of a mode.
RoutesSurviveRestart ==
  phase = "serve" /\ before # NoBefore =>
    \A r \in Requests : Open(r) \/ Route(Wiring, r) = before[r]

\* "Config prices take precedence over the built-in Prices table"
\* (internal/metering/estimator.go:15): a price configured for a model is the
\* price of that model.
ConfiguredPriceUsed ==
  phase = "serve" =>
    \A family \in DOMAIN config.prices :
      \A model \in DOMAIN config.prices[family] :
        PriceAt(family, model) = config.prices[family][model].input
=============================================================================
