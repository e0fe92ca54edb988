----------------------------- MODULE MCStartup ------------------------------
(* Model checking of Startup. *)
EXTENDS Startup

OpenAI    == <<"openai", "primary">>
Backup    == <<"openai", "backup">>
Anthropic == <<"anthropic", "primary">>
Google    == <<"google", "primary">>
Ollama    == <<"ollama", "local">>
Vllm      == <<"vllm", "local">>

MCNameOrder == <<Anthropic, Google, Ollama, Backup, OpenAI, Vllm>>

GPT4o    == <<"gpt", "4o">>
GPT4oAs  == <<"GPT", "4o">>
Mini     == <<"gpt", "4o", "mini", "2024">>
Sonnet   == <<"claude", "sonnet", "4", "6">>
Flash    == <<"gemini", "2.5", "flash">>
Llama    == <<"llama3">>

Models == {NoModel, GPT4o, GPT4oAs, Mini, Sonnet, Flash, Llama}

Chat(m) == [kind |-> "chat", model |-> m, hint |-> NoProvider, mode |-> ""]
MCRequests ==
  {Chat(m) : m \in Models}
    \cup {[Chat(GPT4o) EXCEPT !.hint = p] : p \in {OpenAI, Google}}
    \cup {[Chat(GPT4o) EXCEPT !.mode = m] : m \in {"cheap", "private", "fast"}}
    \cup {[Chat(GPT4o) EXCEPT !.kind = k] :
            k \in {"audio", "speech", "embedding"}}

MCEnvRefs == {"env:DSN", "env:GOOGLE", "env:SMTP"}

Vars(dsn, google, smtp) ==
  ("env:DSN" :> dsn) @@ ("env:GOOGLE" :> google) @@ ("env:SMTP" :> smtp)

Env(settings, embedding) ==
  [vars |-> settings, embedding |-> embedding,
   audio |-> [provider |-> "", url |-> ""],
   speech |-> [provider |-> "local", url |-> "text"],
   override |-> [audio |-> NoModel, speech |-> Llama, embedding |-> NoModel]]

Good == Env(Vars("text", "text", ""), "")

\* The last four do not start: the database is not set, the local transcription
\* server has no URL, and two services are unknown.
MCEnvironments ==
  {Good, Env(Vars("text", "", ""), "openai"),
   Env(Vars("", "text", ""), ""),
   [Good EXCEPT !.audio = [provider |-> "local", url |-> ""]],
   [Good EXCEPT !.speech = [provider |-> "remote", url |-> "text"]],
   Env(Vars("text", "text", ""), "cohere")}

Provider(url, key, priority, models) ==
  [baseURL |-> url, apiKey |-> key, priority |-> priority, models |-> models,
   timeoutValid |-> TRUE, retryValid |-> TRUE,
   retry |-> [attempts |-> 0, backoff |-> 0, cap |-> 0],
   breaker |-> [disabled |-> FALSE, threshold |-> 0, cooldown |-> 0]]

\* Up to one entry under each of the two names.
Entries(a, as, b, bs) ==
  {(a :> x) @@ (b :> y) : x \in as, y \in bs}
    \cup {(a :> x) : x \in as} \cup {(b :> y) : y \in bs} \cup {EmptyMap}

OpenAISection ==
  Entries(OpenAI, {Provider("text", "text", 0, {}),
                   Provider("text", "", 5, {}),
                   Provider("text", "blank", 0, {GPT4o})},
          Backup, {Provider("text", "text", 0, {GPT4o, Llama}),
                   Provider("", "text", 0, {})})
AnthropicSection ==
  {EmptyMap, Anthropic :> Provider("text", "text", 1, {Sonnet, GPT4o}),
   Anthropic :> Provider("malformed", "text", 0, {})}
GeminiSection ==
  {EmptyMap, Google :> Provider("text", "env:GOOGLE", 0, {})}
CompatibleSection ==
  {EmptyMap, Ollama :> Provider("text", "", 1, {}),
   (Ollama :> Provider("text", "", 0, {Llama}))
     @@ (OpenAI :> Provider("text", "text", 0, {})),
   (Vllm :> Provider("text", "", 0, {})) @@ (OpenAI :> Provider("", "", 2, {}))}

Sectioned(a, b, c, d) ==
  ("openai" :> a) @@ ("anthropic" :> b) @@ ("gemini" :> c)
    @@ ("openai_compatible" :> d)

Routing(default, modeMap) ==
  [default |-> default,
   exact |-> (GPT4o :> Backup) @@ (Llama :> Ollama),
   compatible |-> GPT4o :> (Google :> Flash),
   modes |-> modeMap]

OneSpelling  == ("cheap" :> Google) @@ ("private" :> Ollama)
TwoSpellings == ("cheap" :> Google) @@ ("CHEAP" :> OpenAI)

NoEmail == [enabled |-> FALSE, host |-> "", port |-> 0, username |-> "",
            password |-> "", from |-> "", to |-> {}]
Email   == [enabled |-> TRUE, host |-> "text", port |-> 25, username |-> "text",
            password |-> "env:SMTP", from |-> "text", to |-> {"text"}]

File(providers, routing, email, prices) ==
  [dsn |-> "env:DSN", adminKey |-> "text", email |-> email,
   cacheTTLValid |-> TRUE, reportIntervalValid |-> TRUE, routing |-> routing,
   prices |-> prices, providers |-> providers]

Priced(model, input) == model :> Rate(input, 0)
ByOpenAI(rates) == <<"openai">> :> rates

TheFile ==
  File(Sectioned(OpenAI :> Provider("text", "text", 0, {}), EmptyMap, EmptyMap,
                 EmptyMap), Routing(OpenAI, OneSpelling), NoEmail, EmptyMap)

MCFiles ==
  {File(Sectioned(a, b, c, d), routing, NoEmail, prices) :
     a \in OpenAISection, b \in AnthropicSection, c \in GeminiSection,
     d \in CompatibleSection,
     prices \in {EmptyMap},
     routing \in {Routing(OpenAI, OneSpelling), Routing(Ollama, TwoSpellings)}}
    \cup {File(Sectioned(a, b, EmptyMap, d), Routing(Anthropic, OneSpelling),
               NoEmail, ByOpenAI(Priced(GPT4o, 100))) :
            a \in OpenAISection, b \in AnthropicSection,
            d \in CompatibleSection}
    \cup {File(Sectioned(a, EmptyMap, EmptyMap, EmptyMap),
               Routing(default, OneSpelling), email, EmptyMap) :
            a \in OpenAISection, default \in {OpenAI, NoProvider},
            email \in {NoEmail, Email}}
    \cup {[TheFile EXCEPT !.cacheTTLValid = FALSE],
          [TheFile EXCEPT !.providers["openai"][OpenAI].retryValid = FALSE]}

\* The price configured for gpt-5.4-mini in the repository's config.json.
ShippedPrice ==
  {File(Sectioned(a, EmptyMap, EmptyMap, EmptyMap),
        Routing(OpenAI, OneSpelling), NoEmail,
        ByOpenAI(Priced(<<"gpt", "5.4", "mini">>, 750)
                   @@ Priced(<<"gpt", "5.4">>, 2500))) : a \in OpenAISection}
=============================================================================
