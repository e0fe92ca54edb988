------------------------------- MODULE Router -------------------------------
(***************************************************************************)
(* The choice of a provider for a request: router.Router, the provider     *)
(* Catalog it consults, and the routing stage of gateway.Proxy.  All of it *)
(* reads what application start-up left behind, and changes nothing, so it *)
(* is a set of operators on the wiring w, a record of                      *)
(*   registry   provider -> its adapter                                    *)
(*   available  the providers app.New registered                           *)
(*   catalog    provider -> its metadata                                   *)
(*   routing    the routing section of the configuration                   *)
(*   prices     the configured prices                                      *)
(*   modes      mode -> the provider it stands for                         *)
(*   local      the audio endpoints that have a server of their own        *)
(*   override   endpoint -> the model to ask for there, NoModel for none   *)
(*   embedder   the provider for embeddings, NoProvider if there is none.  *)
(***************************************************************************)
EXTENDS Pricing

CONSTANT NameOrder      \* the provider names in alphabetical order

ASSUME NameAssumption == /\ NameOrder \in Seq(Range(NameOrder))
                         /\ IsInjective(NameOrder)

Rank(provider) == CHOOSE i \in DOMAIN NameOrder : NameOrder[i] = provider

-----------------------------------------------------------------------------
(* Catalog *)

Priority(w, provider) ==
  IF provider \in DOMAIN w.catalog THEN w.catalog[provider].priority ELSE 0

\* A provider that lists no models supports every one.
ModelSupported(w, provider, model) ==
  /\ provider \in DOMAIN w.catalog
  /\ \/ w.catalog[provider].models = {}
     \/ model \in w.catalog[provider].models

-----------------------------------------------------------------------------
(* Router *)

\* strings.ToLower, on the one spelling with capitals that the model has.
ToLower(part) == IF part = "GPT" THEN "gpt" ELSE part

Matchers ==
  ("gpt" :> <<"openai", "primary">>) @@ ("claude" :> <<"anthropic", "primary">>)
    @@ ("gemini" :> <<"google", "primary">>)

MatchProviderByModel(model) ==
  IF Len(model) > 1 /\ ToLower(Head(model)) \in DOMAIN Matchers
  THEN Matchers[ToLower(Head(model))]
  ELSE NoProvider

PickFromExactMapping(w, model) ==
  IF model # NoModel /\ model \in DOMAIN w.routing.exact
  THEN w.routing.exact[model]
  ELSE NoProvider

\* With no provider registered at all, every name counts as available.
IsAvailable(w, provider) ==
  /\ provider # NoProvider
  /\ w.available = {} \/ provider \in w.available

Eligible(w, provider, model) ==
  IsAvailable(w, provider) /\ ModelSupported(w, provider, model)

\* p sorts before q: higher priority, then lower price, where an unknown price
\* is infinite, then name.
Before(w, model, p, q) ==
  LET cost(x) == InputPricePer1M(w.prices, x, model)
      known(x) == cost(x) # Unpriced.input
      cheaper(x, y) == known(x) /\ (known(y) => cost(x) < cost(y))
  IN \/ Priority(w, p) > Priority(w, q)
     \/ /\ Priority(w, p) = Priority(w, q)
        /\ \/ cheaper(p, q)
           \/ ~cheaper(q, p) /\ Rank(p) < Rank(q)

Candidates(w, model) ==
  {p \in {MatchProviderByModel(model), w.routing.default} :
     Eligible(w, p, model)}

\* Mutation: a mapped provider is taken although it cannot serve.
PickMapped(w, model) ==
  LET mapped == PickFromExactMapping(w, model) IN
  IF mapped # NoProvider THEN mapped
  ELSE IF Candidates(w, model) = {} THEN NoProvider
  ELSE CHOOSE p \in Candidates(w, model) :
         \A q \in Candidates(w, model) \ {p} : Before(w, model, p, q)

\* pickWithPriority: the mapped provider when it can serve the model, or else the
\* first of the candidates.  (The legacy order, for a router without priorities,
\* is not reachable: app.New always passes the catalog as their source.)
PickProvider(w, model) ==
  LET mapped == PickFromExactMapping(w, model) IN
  IF Eligible(w, mapped, model) THEN mapped
  ELSE IF Candidates(w, model) = {} THEN NoProvider
  ELSE CHOOSE p \in Candidates(w, model) :
         \A q \in Candidates(w, model) \ {p} : Before(w, model, p, q)

-----------------------------------------------------------------------------
(* The routing stage of a request [kind, model, hint, mode] *)

Modes == {"cheap", "balanced", "best", "private"}

\* An audio server of our own, outside the registry.
Local == <<"local">>

Refused(status) ==
  [status |-> status, provider |-> NoProvider, model |-> NoModel]
Routed(provider, model) ==
  [status |-> 200, provider |-> provider, model |-> model]

\* The model a provider is to be asked for in place of the requested one.
CompatibleModel(w, model, provider) ==
  LET compatible == w.routing.compatible IN
  IF /\ model # NoModel /\ provider # NoProvider
     /\ model \in DOMAIN compatible
     /\ provider \in DOMAIN compatible[model]
  THEN compatible[model][provider]
  ELSE NoModel

ModeProvider(w, mode) ==
  IF mode \in DOMAIN w.modes THEN w.modes[mode] ELSE NoProvider

\* A provider hint, else a mode hint, else the router.  A hinted provider has to
\* be registered, no more: the catalog is not asked.
RouteByHints(w, r) ==
  CASE r.hint # NoProvider ->
         IF r.hint \in DOMAIN w.registry THEN Routed(r.hint, r.model)
         ELSE Refused(400)
    [] r.hint = NoProvider /\ r.mode # "" ->
         IF r.mode \in Modes /\ ModeProvider(w, r.mode) \in DOMAIN w.registry
         THEN Routed(ModeProvider(w, r.mode), r.model)
         ELSE Refused(400)
    [] OTHER -> Routed(PickProvider(w, r.model), r.model)

\* Proxy, which then rewrites the model for the provider.
RouteChat(w, r) ==
  LET routed == RouteByHints(w, r)
      model  == CompatibleModel(w, r.model, routed.provider)
  IN IF model = NoModel THEN routed ELSE [routed EXCEPT !.model = model]

\* The model asked for where a configured one replaces the client's.
ModelAt(w, r) ==
  IF w.override[r.kind] = NoModel THEN r.model ELSE w.override[r.kind]

\* ProxyAudio and ProxySpeech, which go to a local server when told so.
RouteAudio(w, r) ==
  IF "audio" \in w.local THEN Routed(Local, ModelAt(w, r))
  ELSE RouteByHints(w, r)
RouteSpeech(w, r) ==
  IF "speech" \in w.local THEN Routed(Local, ModelAt(w, r))
  ELSE RouteByHints(w, r)

\* ProxyEmbeddings: a provider hint, else the provider chosen at start-up.
RouteEmbedding(w, r) ==
  CASE r.hint # NoProvider ->
         IF r.hint \in DOMAIN w.registry THEN Routed(r.hint, ModelAt(w, r))
         ELSE Refused(400)
    [] r.hint = NoProvider /\ w.embedder \in DOMAIN w.registry ->
         Routed(w.embedder, ModelAt(w, r))
    [] OTHER -> Refused(503)

Route(w, r) ==
  CASE r.kind = "chat"      -> RouteChat(w, r)
    [] r.kind = "audio"     -> RouteAudio(w, r)
    [] r.kind = "speech"    -> RouteSpeech(w, r)
    [] r.kind = "embedding" -> RouteEmbedding(w, r)
=============================================================================
