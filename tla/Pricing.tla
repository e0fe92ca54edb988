------------------------------ MODULE Pricing -------------------------------
(***************************************************************************)
(* What a model costs at a provider: the package internal/metering, which  *)
(* the router asks before a request and the metering code after it.        *)
(*                                                                         *)
(* A name is the tuple of its parts: model "gpt-5.4-mini" is split at the  *)
(* dashes, provider "openai_primary" at the underscores.  Then m = x or    *)
(* HasPrefix(m, x + "-") says that x is a prefix of the tuple m, and a     *)
(* provider's family is told from its first part.  Rates are in thousandths*)
(* of a dollar per million tokens, so the table's prices are integers.     *)
(***************************************************************************)
EXTENDS Integers, FiniteSets, Sequences, SequencesExt, TLC

NoModel    == <<>>
NoProvider == <<>>

Families == {<<"openai">>, <<"anthropic">>, <<"google">>, <<"xai">>}

NormalizeProvider(provider) ==
  IF provider # NoProvider /\ <<Head(provider)>> \in Families
  THEN <<Head(provider)>>
  ELSE provider

\* The known models of a family, in the order in which they are tried.
OpenAIModels ==
  << <<"gpt", "4o", "mini">>, <<"gpt", "4o">>, <<"gpt", "4.1", "nano">>,
     <<"gpt", "4.1", "mini">>, <<"gpt", "4.1">>, <<"gpt", "5.4">>,
     <<"gpt", "5.4", "mini">>, <<"gpt", "5.4", "nano">> >>

AnthropicModels ==
  << <<"claude", "sonnet", "4", "6">>, <<"claude", "opus", "4", "6">>,
     <<"claude", "sonnet", "4", "5">>, <<"claude", "haiku", "4", "5">> >>

GoogleModels ==
  << <<"gemini", "2.5", "flash", "lite">>, <<"gemini", "2.5", "flash">>,
     <<"gemini", "2.5", "pro">> >>

KnownModels ==
  (<<"openai">> :> OpenAIModels) @@ (<<"anthropic">> :> AnthropicModels)
    @@ (<<"google">> :> GoogleModels) @@ (<<"xai">> :> <<>>)

Rules(family) ==
  IF family \in DOMAIN KnownModels THEN KnownModels[family] ELSE <<>>

\* The first known model that is a prefix of this one, or else the model itself.
NormalizeModel(family, model) ==
  LET hits == {i \in DOMAIN Rules(family) : IsPrefix(Rules(family)[i], model)}
  IN IF hits = {} THEN model ELSE Rules(family)[Min(hits)]

-----------------------------------------------------------------------------
\* The built-in table.  Its third rate, for cached input, is never read.
Rate(input, output) == [input |-> input, output |-> output]

OpenAIPrices ==
  (<<"gpt", "5.4">> :> Rate(2500, 15000))
    @@ (<<"gpt", "5.4", "mini">> :> Rate(750, 4500))
    @@ (<<"gpt", "5">> :> Rate(1250, 10000))
    @@ (<<"gpt", "5", "mini">> :> Rate(250, 2000))
    @@ (<<"gpt", "5", "nano">> :> Rate(50, 400))
    @@ (<<"gpt", "4o">> :> Rate(2500, 10000))
    @@ (<<"gpt", "4o", "mini">> :> Rate(150, 600))
    @@ (<<"gpt", "4.1">> :> Rate(2000, 8000))
    @@ (<<"gpt", "4.1", "mini">> :> Rate(400, 1600))
    @@ (<<"gpt", "4.1", "nano">> :> Rate(100, 400))
    @@ (<<"o3">> :> Rate(2000, 8000))
    @@ (<<"o4", "mini">> :> Rate(1100, 4400))

AnthropicPrices ==
  (<<"claude", "haiku", "4", "5">> :> Rate(1000, 5000))
    @@ (<<"claude", "sonnet", "4", "5">> :> Rate(3000, 15000))
    @@ (<<"claude", "sonnet", "4", "6">> :> Rate(3000, 15000))
    @@ (<<"claude", "opus", "4", "6">> :> Rate(5000, 25000))

GooglePrices ==
  (<<"gemini", "2.5", "flash", "lite">> :> Rate(100, 400))
    @@ (<<"gemini", "2.5", "flash">> :> Rate(300, 2500))
    @@ (<<"gemini", "2.5", "pro">> :> Rate(1250, 10000))

XAIPrices ==
  (<<"grok", "4", "1", "fast", "reasoning">> :> Rate(200, 500))
    @@ (<<"grok", "4", "1", "fast", "non", "reasoning">> :> Rate(200, 500))

Prices ==
  (<<"openai">> :> OpenAIPrices) @@ (<<"anthropic">> :> AnthropicPrices)
    @@ (<<"google">> :> GooglePrices) @@ (<<"xai">> :> XAIPrices)

Unpriced == [input |-> -1, output |-> -1]

ASSUME RateAssumption ==
  \A family \in DOMAIN Prices : \A model \in DOMAIN Prices[family] :
    Prices[family][model] \in [input : Nat, output : Nat]

In(table, family, model) ==
  family \in DOMAIN table /\ model \in DOMAIN table[family]

\* The rate of a model: the configured one, if any, or else the table's.
RateOf(configPrices, provider, model) ==
  LET family == NormalizeProvider(provider)
      known  == NormalizeModel(family, model)
  IN CASE In(configPrices, family, known) -> configPrices[family][known]
       [] ~In(configPrices, family, known) /\ In(Prices, family, known) ->
            Prices[family][known]
       [] OTHER -> Unpriced

InputPricePer1M(configPrices, provider, model) ==
  RateOf(configPrices, provider, model).input

\* Twenty times the cost of a call: cache reads cost a tenth of the input rate,
\* cache writes five quarters of it.  An unpriced model costs nothing.
EstimateCost(configPrices, provider, model, usage) ==
  LET rate == RateOf(configPrices, provider, model) IN
  IF usage.cacheHit \/ rate = Unpriced THEN 0
  ELSE rate.input * (20 * usage.prompt + 2 * usage.read + 25 * usage.write)
         + rate.output * 20 * usage.completion
=============================================================================
