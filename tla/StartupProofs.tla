--------------------------- MODULE StartupProofs ----------------------------
(***************************************************************************)
(* What Startup says about a gateway that serves and about the next one with *)
(* the same file, proved for any configuration files and environments.     *)
(*                                                                         *)
(* config.Load and app.New judge a provider by different tests.  IInv relates *)
(* them across the four registration loops: whatever Load found usable is  *)
(* available once its loop has reached it, or the process has exited, so a *)
(* loop that is over has missed none.  BuiltInv says that what the loops have *)
(* built so far depends on the file and the environment alone, not on the  *)
(* order of Go's maps; routing before and after a restart follows from it. *)
(***************************************************************************)
EXTENDS Startup, TLAPS

\* What app.New has already reached of the section with number i.
Reached(i, name) == i < loop \/ (i = loop /\ name \notin todo)

\* Of the usable entries it has reached, none was passed over.
NoneMissed ==
  \A i \in 1..4 : \A n \in DOMAIN config.providers[Sections[i]] :
    Usable(Sections[i], config.providers[Sections[i]][n]) /\ Reached(i, n)
      => n \in available

IInv ==
  /\ available = DOMAIN registry
  /\ phase = "register" => /\ loop \in 1..4
                           /\ HasUsableProvider(config.providers)
                           /\ NoneMissed
  /\ phase \in {"connect", "serve"} => available # {}

-----------------------------------------------------------------------------
LEMMA FourSections ==
  /\ Len(Sections) = 4 /\ DOMAIN Sections = 1..4
  /\ \A s \in Section : \E i \in 1..4 : s = Sections[i]
<1>1. Len(Sections) = 4 /\ DOMAIN Sections = 1..4
  BY DEF Sections
<1> QED BY <1>1 DEF Section, Range

\* Load hands over a configuration with a usable provider, and nothing reached.
LEMMA LoadInv ==
  ASSUME IInv, Load
  PROVE  IInv'
<1>1. /\ phase' = "register" /\ loop' = 1
      /\ todo' = DOMAIN config'.providers["openai"]
      /\ registry' = registry /\ available' = available
      /\ config' = LoadConfig(env, file)
      /\ HasUsableProvider(LoadProviders(env, file))
  BY DEF Load, Loads, built
<1>2. config'.providers = LoadProviders(env, file)
  BY <1>1 DEF LoadConfig
<1>3. HasUsableProvider(config'.providers)
  BY <1>1, <1>2
<1>4. Sections[1] = "openai"
  BY DEF Sections
<1>5. NoneMissed'
  BY <1>1, <1>4 DEF NoneMissed, Reached
<1>6. HasUsableProvider(config.providers)'
  BY <1>3
<1>7. available' = DOMAIN registry'
  BY <1>1 DEF IInv
<1> QED BY <1>1, <1>5, <1>6, <1>7 DEF IInv

\* An entry of the loop at hand: skipped only if it is not usable.
LEMMA EntryInv ==
  ASSUME IInv, NEW section, NEW needsKey \in BOOLEAN, NEW name,
         needsKey => section # "openai_compatible",
         Entry(section, needsKey, name)
  PROVE  IInv'
<1> DEFINE entry == config.providers[section][name]
<1>1. /\ phase = "register" /\ section = Sections[loop] /\ name \in todo
      /\ UNCHANGED <<config, loop>>
  BY DEF Entry
<1>2. CASE Refuse
  BY <1>1, <1>2 DEF Refuse, IInv
<1>3. CASE ~Refuse
  <2>1. \/ Register(section, name)
        \/ /\ entry.baseURL = "" \/ (needsKey /\ entry.apiKey = "")
           /\ todo' = todo \ {name}
           /\ UNCHANGED <<phase, registry, available>>
    BY <1>3 DEF Entry, Skip
  <2>2. /\ todo' = todo \ {name} /\ phase' = phase
        /\ available \subseteq available' /\ available' = DOMAIN registry'
        /\ Usable(section, entry) => name \in available'
    <3>1. CASE Register(section, name)
      <4>1. /\ todo' = todo \ {name} /\ phase' = phase
            /\ available' = available \cup {name}
            /\ registry' = Put(registry, name, section)
        BY <3>1 DEF Register
      <4>2. DOMAIN registry' = DOMAIN registry \cup {name}
        BY <4>1 DEF Put
      <4> QED BY <4>1, <4>2 DEF IInv
    <3>2. CASE ~Register(section, name)
      BY <2>1, <3>2 DEF IInv, Usable, Text
    <3> QED BY <3>1, <3>2
  <2>3. NoneMissed'
    <3> SUFFICES ASSUME NEW i \in 1..4,
                        NEW n \in DOMAIN config.providers[Sections[i]],
                        Usable(Sections[i], config.providers[Sections[i]][n]),
                        Reached(i, n)'
                 PROVE  n \in available'
      BY <1>1 DEF NoneMissed, Usable, Text
    <3>1. CASE Reached(i, n)
      BY <1>1, <2>2, <3>1 DEF IInv, NoneMissed
    <3>2. CASE ~Reached(i, n)
      <4>1. i = loop /\ n = name
        BY <1>1, <2>2, <3>2 DEF Reached
      <4> QED BY <1>1, <2>2, <4>1
    <3> QED BY <3>1, <3>2
  <2>4. HasUsableProvider(config.providers)' /\ loop' \in 1..4
    BY <1>1 DEF IInv, HasUsableProvider, Usable, Text
  <2> QED BY <1>1, <2>2, <2>3, <2>4 DEF IInv
<1> QED BY <1>2, <1>3

\* The next loop begins with nothing of it reached.
LEMMA NextSectionInv ==
  ASSUME IInv, NextSection
  PROVE  IInv'
<1>1. /\ phase = "register" /\ phase' = phase /\ todo = {} /\ loop' = loop + 1
      /\ todo' = DOMAIN config.providers[Sections[loop + 1]]
      /\ registry' = registry /\ available' = available /\ config' = config
      /\ loop \in 1..4 /\ loop < 4
  BY FourSections DEF NextSection, built, IInv
<1>2. NoneMissed'
  <2> SUFFICES ASSUME NEW i \in 1..4,
                      NEW n \in DOMAIN config.providers[Sections[i]],
                      Usable(Sections[i], config.providers[Sections[i]][n]),
                      Reached(i, n)'
               PROVE  n \in available
    BY <1>1 DEF NoneMissed, Usable, Text
  <2>1. i <= loop
    BY <1>1 DEF Reached
  <2>2. Reached(i, n)
    BY <1>1, <2>1 DEF Reached
  <2> QED BY <1>1, <2>2 DEF IInv, NoneMissed
<1>3. HasUsableProvider(config.providers)' /\ available' = DOMAIN registry'
  BY <1>1 DEF IInv, HasUsableProvider, Usable, Text
<1> QED BY <1>1, <1>2, <1>3 DEF IInv

\* After the last loop the provider Load found usable is available.
LEMMA PoliciesInv ==
  ASSUME IInv, Policies
  PROVE  IInv'
<1>1. /\ phase = "register" /\ phase' = "connect" /\ loop = 4 /\ todo = {}
      /\ registry' = registry /\ available' = available
  BY FourSections DEF Policies
<1>2. PICK s \in Section : \E n \in DOMAIN config.providers[s] :
        Usable(s, config.providers[s][n])
  BY <1>1 DEF IInv, HasUsableProvider
<1>3. PICK i \in 1..4 : s = Sections[i]
  BY FourSections
<1>4. \A n : Reached(i, n)
  BY <1>1 DEF Reached
<1>5. available # {}
  BY <1>1, <1>2, <1>3, <1>4 DEF IInv, NoneMissed
<1> QED BY <1>1, <1>5 DEF IInv

-----------------------------------------------------------------------------
LEMMA InitInv == Init => IInv
BY DEF Init, IInv, EmptyMap

LEMMA NextInv == IInv /\ [Next]_vars => IInv'
<1> SUFFICES ASSUME IInv, [Next]_vars PROVE IInv'
  OBVIOUS
<1>1. CASE Load
  BY <1>1, LoadInv
<1>2. ASSUME NEW name \in todo,
             \/ OpenAIEntry(name) \/ AnthropicEntry(name)
             \/ GeminiEntry(name) \/ CompatibleEntry(name)
      PROVE  IInv'
  BY <1>2, EntryInv
     DEF OpenAIEntry, AnthropicEntry, GeminiEntry, CompatibleEntry
<1>3. CASE NextSection
  BY <1>3, NextSectionInv
<1>4. CASE Policies
  BY <1>4, PoliciesInv
<1>5. CASE LoadFails \/ ConnectFails
  BY <1>5 DEF LoadFails, ConnectFails, built, IInv
<1>6. CASE Serve
  BY <1>6 DEF Serve, IInv
<1>7. CASE Restart
  BY <1>7 DEF Restart, IInv, EmptyMap
<1>8. CASE UNCHANGED vars
  BY <1>8 DEF vars, built, IInv, NoneMissed, Reached, HasUsableProvider, Usable,
              Text
<1> QED BY <1>1, <1>2, <1>3, <1>4, <1>5, <1>6, <1>7, <1>8 DEF Next

LEMMA SpecInv == Spec => []IInv
BY InitInv, NextInv, PTL DEF Spec

\* A gateway that serves has a provider, and its availability map is the set of
\* registered ones, for any configuration file, environment and map order:
\* config.HasUsableProvider trims its settings, the tests of app.New do not, and
\* an entry that passes the first is registered or ends the process.
THEOREM WiredWhenServing == Spec => []ServingIsWired
<1>1. IInv => ServingIsWired
  BY DEF IInv, ServingIsWired
<1> QED BY <1>1, SpecInv, PTL

-----------------------------------------------------------------------------
(***************************************************************************)
(* What the loops leave behind.  Of a provider that several sections       *)
(* configure, the adapter is that of the last section that registers it    *)
(* and the metadata are those of the last section that lists it, in        *)
(* whatever order the entries of a section are reached.                    *)
(***************************************************************************)
Lists(c, i, n) == n \in DOMAIN c.providers[Sections[i]]

Takes(c, i, n) ==
  /\ Lists(c, i, n)
  /\ c.providers[Sections[i]][n].baseURL # ""
  /\ i # 4 => c.providers[Sections[i]][n].apiKey # ""

Shown(c, i, n) ==
  LET entry == c.providers[Sections[i]][n] IN
  IF entry.baseURL = ""
  THEN Metadata(Sections[i], entry, FALSE, "missing_base_url")
  ELSE IF i # 4 /\ entry.apiKey = ""
  THEN Metadata(Sections[i], entry, FALSE, "missing_api_key")
  ELSE Metadata(Sections[i], entry, TRUE, "")

LastTaken(c, i, n) == Takes(c, i, n) /\ \A j \in 1..4 : j > i => ~Takes(c, j, n)
LastListed(c, i, n) == Lists(c, i, n) /\ \A j \in 1..4 : j > i => ~Lists(c, j, n)

IsAFunction(f) == f = [n \in DOMAIN f |-> f[n]]

\* The registry and the catalog that app.New makes of a configuration.
RegistryOf(reg, c) ==
  /\ IsAFunction(reg)
  /\ \A n : n \in DOMAIN reg <=> \E i \in 1..4 : Takes(c, i, n)
  /\ \A i \in 1..4, n \in DOMAIN reg : LastTaken(c, i, n) => reg[n] = Sections[i]

CatalogOf(cat, c) ==
  /\ IsAFunction(cat)
  /\ \A n : n \in DOMAIN cat <=> \E i \in 1..4 : Lists(c, i, n)
  /\ \A i \in 1..4, n \in DOMAIN cat : LastListed(c, i, n) => cat[n] = Shown(c, i, n)

\* Both are determined by it.
LEMMA LastOnes ==
  ASSUME NEW c, NEW n
  PROVE  /\ (\E i \in 1..4 : Takes(c, i, n)) => \E i \in 1..4 : LastTaken(c, i, n)
         /\ (\E i \in 1..4 : Lists(c, i, n)) => \E i \in 1..4 : LastListed(c, i, n)
<1>1. 1..4 = {1, 2, 3, 4}
  OBVIOUS
<1>2. ASSUME NEW i \in 1..4, Takes(c, i, n)
      PROVE  \E j \in 1..4 : LastTaken(c, j, n)
  BY <1>1, <1>2 DEF LastTaken
<1>3. ASSUME NEW i \in 1..4, Lists(c, i, n)
      PROVE  \E j \in 1..4 : LastListed(c, j, n)
  BY <1>1, <1>3 DEF LastListed
<1> QED BY <1>2, <1>3

LEMMA OneRegistry ==
  ASSUME NEW c, NEW a, NEW b, RegistryOf(a, c), RegistryOf(b, c)
  PROVE  a = b
<1>1. DOMAIN a = DOMAIN b
  BY DEF RegistryOf
<1>2. ASSUME NEW n \in DOMAIN a PROVE a[n] = b[n]
  <2>1. PICK i \in 1..4 : LastTaken(c, i, n)
    BY LastOnes DEF RegistryOf
  <2> QED BY <1>1, <2>1 DEF RegistryOf
<1>3. IsAFunction(a) /\ IsAFunction(b)
  BY DEF RegistryOf
<1> QED BY <1>1, <1>2, <1>3 DEF IsAFunction

LEMMA OneCatalog ==
  ASSUME NEW c, NEW a, NEW b, CatalogOf(a, c), CatalogOf(b, c)
  PROVE  a = b
<1>1. DOMAIN a = DOMAIN b
  BY DEF CatalogOf
<1>2. ASSUME NEW n \in DOMAIN a PROVE a[n] = b[n]
  <2>1. PICK i \in 1..4 : LastListed(c, i, n)
    BY LastOnes DEF CatalogOf
  <2> QED BY <1>1, <2>1 DEF CatalogOf
<1>3. IsAFunction(a) /\ IsAFunction(b)
  BY DEF CatalogOf
<1> QED BY <1>1, <1>2, <1>3 DEF IsAFunction

\* The same of the entries that have been reached.
Took(i, n) == Reached(i, n) /\ Takes(config, i, n)
Saw(i, n)  == Reached(i, n) /\ Lists(config, i, n)

LastTook(i, n) == Took(i, n) /\ \A j \in 1..4 : j > i => ~Took(j, n)
LastSaw(i, n)  == Saw(i, n) /\ \A j \in 1..4 : j > i => ~Saw(j, n)

RegistrySoFar ==
  /\ IsAFunction(registry)
  /\ \A n : n \in DOMAIN registry <=> \E i \in 1..4 : Took(i, n)
  /\ \A i \in 1..4, n \in DOMAIN registry : LastTook(i, n) => registry[n] = Sections[i]

CatalogSoFar ==
  /\ IsAFunction(catalog)
  /\ \A n : n \in DOMAIN catalog <=> \E i \in 1..4 : Saw(i, n)
  /\ \A i \in 1..4, n \in DOMAIN catalog :
       LastSaw(i, n) => catalog[n] = Shown(config, i, n)

\* What a process remembers of the one before it: the routes of some gateway that
\* app.New could have built from the same file and environment.
WiringOf(c, reg, cat, m, e) ==
  [registry |-> reg, available |-> DOMAIN reg, catalog |-> cat,
   routing |-> c.routing, prices |-> c.prices, modes |-> m,
   local |-> c.local, override |-> c.override, embedder |-> e]

NamedOf(c, names, part, section) ==
  {n \in DOMAIN c.providers[section] : part \in Range(n)} \cap names

EmbeddersOf(c, names) ==
  LET section == IF c.embedding = "ollama" THEN "openai_compatible" ELSE "openai"
      named   == NamedOf(c, names, c.embedding, section)
      all     == DOMAIN c.providers[section] \cap names
  IN CASE named # {}               -> named
       [] named = {} /\ all # {}   -> all
       [] OTHER                    -> {NoProvider}

RoutedAs(c) ==
  \E reg, cat, m, e :
    /\ RegistryOf(reg, c) /\ CatalogOf(cat, c)
    /\ m \in ModeMaps(c.routing.modes) /\ e \in EmbeddersOf(c, DOMAIN reg)
    /\ before = [r \in Requests |-> Route(WiringOf(c, reg, cat, m, e), r)]

BuiltInv ==
  /\ IInv
  /\ TypeOK
  /\ file \in Files
  /\ phase = "load" => registry = EmptyMap /\ catalog = EmptyMap
  /\ phase \in {"register", "connect", "serve"} => config = LoadConfig(env, file)
  /\ phase = "register" => RegistrySoFar /\ CatalogSoFar
  /\ phase \in {"connect", "serve"} =>
       RegistryOf(registry, config) /\ CatalogOf(catalog, config)
  /\ phase = "serve" => /\ modes \in ModeMaps(config.routing.modes)
                        /\ embedder \in EmbeddersOf(config, DOMAIN registry)
  /\ before # NoBefore => RoutedAs(LoadConfig(env, file))

LEMMA EmptyIsAFunction == IsAFunction(EmptyMap) /\ DOMAIN EmptyMap = {}
BY DEF EmptyMap, IsAFunction

LEMMA SameEmbedders == available = DOMAIN registry =>
                         Embedders = EmbeddersOf(config, DOMAIN registry)
BY DEF Embedders, EmbeddersOf, Named, NamedOf

LEMMA LoadBuilds ==
  ASSUME BuiltInv, Load
  PROVE  BuiltInv'
<1>1. /\ phase = "load" /\ phase' = "register" /\ loop' = 1
      /\ todo' = DOMAIN config'.providers["openai"]
      /\ config' = LoadConfig(env, file)
      /\ UNCHANGED <<file, env, before, registry, catalog, retries, breakers>>
  BY DEF Load, built
<1>2. IInv'
  BY LoadInv DEF BuiltInv
<1>3. Sections[1] = "openai" /\ 1 \in DOMAIN Sections
  BY DEF Sections
<1>4. TypeOK'
  BY <1>1, <1>3 DEF BuiltInv, TypeOK
<1>5. \A i \in 1..4 : \A n : ~Took(i, n)' /\ ~Saw(i, n)'
  <2> SUFFICES ASSUME NEW i \in 1..4, NEW n, Reached(i, n)', Lists(config, i, n)'
               PROVE  FALSE
    BY DEF Took, Saw, Takes, Lists
  <2>1. i = 1 /\ n \notin todo'
    BY <1>1 DEF Reached
  <2> QED BY <1>1, <1>3, <2>1 DEF Lists
<1>6. registry' = EmptyMap /\ catalog' = EmptyMap
  BY <1>1 DEF BuiltInv
<1>7. RegistrySoFar' /\ CatalogSoFar'
  BY <1>5, <1>6, EmptyIsAFunction DEF RegistrySoFar, CatalogSoFar
<1>8. (before # NoBefore => RoutedAs(LoadConfig(env, file)))'
  BY <1>1 DEF BuiltInv, RoutedAs
<1> QED BY <1>1, <1>2, <1>4, <1>7, <1>8 DEF BuiltInv

\* An entry more: it is the last one seen of its name, and, if it is registered,
\* the last one taken.
LEMMA EntryBuilds ==
  ASSUME BuiltInv, NEW section, NEW needsKey \in BOOLEAN, NEW name,
         needsKey <=> section # "openai_compatible",
         Entry(section, needsKey, name)
  PROVE  BuiltInv'
<1> DEFINE entry == config.providers[section][name]
<1>1. /\ phase = "register" /\ section = Sections[loop] /\ name \in todo
      /\ UNCHANGED <<config, loop, file, env, before, retries, breakers>>
      /\ loop \in 1..4 /\ TypeOK /\ IInv
  BY FourSections DEF Entry, BuiltInv, TypeOK
<1>2. IInv'
  BY <1>1, EntryInv
<1>3. (before # NoBefore => RoutedAs(LoadConfig(env, file)))'
      /\ (file \in Files)'
  BY <1>1 DEF BuiltInv, RoutedAs
<1>4. section \in Section /\ needsKey = (loop # 4)
  BY <1>1 DEF Section, Sections, Range
<1>5. CASE Refuse
  <2>1. TypeOK'
    BY <1>1, <1>5 DEF Refuse, TypeOK
  <2> QED BY <1>2, <1>3, <1>5, <2>1 DEF Refuse, BuiltInv
<1>6. CASE ~Refuse
  <2>1. /\ phase' = phase /\ todo' = todo \ {name}
        /\ \/ /\ Takes(config, loop, name)
              /\ registry' = Put(registry, name, section)
           \/ ~Takes(config, loop, name) /\ registry' = registry
        /\ catalog' = Put(catalog, name, Shown(config, loop, name))
    <3>1. name \in DOMAIN config.providers[section]
      BY <1>1 DEF TypeOK
    <3>2. CASE entry.baseURL = ""
      BY <1>1, <3>2 DEF Entry, Skip, Set, Shown, Takes
    <3>3. CASE entry.baseURL # "" /\ needsKey /\ entry.apiKey = ""
      BY <1>1, <1>4, <3>3 DEF Entry, Skip, Set, Shown, Takes
    <3>4. CASE entry.baseURL # "" /\ ~(needsKey /\ entry.apiKey = "")
      <4>1. Register(section, name)
        BY <1>6, <3>4 DEF Entry
      <4> QED BY <1>1, <1>4, <3>1, <3>4, <4>1
              DEF Register, Set, Shown, Takes, Lists
    <3> QED BY <3>2, <3>3, <3>4
  <2>2. Lists(config, loop, name)
    BY <1>1 DEF TypeOK, Lists
  <2>3. \A i \in 1..4 : \A n :
          /\ Reached(i, n)' <=> Reached(i, n) \/ (i = loop /\ n = name)
          /\ Reached(i, n) => i <= loop /\ ~(i = loop /\ n = name)
    BY <1>1, <2>1 DEF Reached
  <2>4. \A i \in 1..4 : \A n :
          /\ Saw(i, n)' <=> Saw(i, n) \/ (i = loop /\ n = name)
          /\ Saw(i, n) => i <= loop /\ ~(i = loop /\ n = name)
          /\ Took(i, n)' <=> Took(i, n) \/ (i = loop /\ n = name
                                            /\ Takes(config, loop, name))
          /\ Took(i, n) => i <= loop /\ ~(i = loop /\ n = name)
    BY <1>1, <2>2, <2>3 DEF Saw, Took, Lists, Takes
  <2>5. CatalogSoFar'
    <3>1. CatalogSoFar
      BY <1>1 DEF BuiltInv
    <3>2. /\ IsAFunction(catalog') /\ DOMAIN catalog' = DOMAIN catalog \cup {name}
          /\ \A n \in DOMAIN catalog' :
               catalog'[n] = IF n = name THEN Shown(config, loop, name)
                             ELSE catalog[n]
      BY <2>1 DEF Put, IsAFunction
    <3>3. \A n : n \in DOMAIN catalog' <=> \E i \in 1..4 : Saw(i, n)'
      BY <1>1, <2>4, <3>1, <3>2 DEF CatalogSoFar
    <3>4. ASSUME NEW i \in 1..4, NEW n \in DOMAIN catalog', LastSaw(i, n)'
          PROVE  catalog'[n] = Shown(config, i, n)
      <4>1. CASE n = name
        <5>1. i = loop
          BY <1>1, <2>4, <3>4, <4>1 DEF LastSaw
        <5> QED BY <3>2, <4>1, <5>1
      <4>2. CASE n # name
        <5>1. LastSaw(i, n) /\ n \in DOMAIN catalog
          BY <2>4, <3>2, <3>4, <4>2 DEF LastSaw
        <5> QED BY <3>1, <3>2, <4>2, <5>1 DEF CatalogSoFar
      <4> QED BY <4>1, <4>2
    <3>5. \A i \in 1..4 : \A n : Shown(config, i, n)' = Shown(config, i, n)
      BY <1>1 DEF Shown
    <3> QED BY <3>2, <3>3, <3>4, <3>5 DEF CatalogSoFar
  <2>6. RegistrySoFar'
    <3>1. RegistrySoFar
      BY <1>1 DEF BuiltInv
    <3>2. CASE ~Takes(config, loop, name)
      <4>1. /\ registry' = registry
            /\ \A i \in 1..4 : \A n : Took(i, n)' <=> Took(i, n)
        BY <2>1, <2>4, <3>2
      <4>2. \A i \in 1..4 : \A n : LastTook(i, n)' <=> LastTook(i, n)
        BY <4>1 DEF LastTook
      <4> QED BY <3>1, <4>1, <4>2 DEF RegistrySoFar
    <3>3. CASE Takes(config, loop, name)
      <4>1. /\ IsAFunction(registry')
            /\ DOMAIN registry' = DOMAIN registry \cup {name}
            /\ \A n \in DOMAIN registry' :
                 registry'[n] = IF n = name THEN Sections[loop] ELSE registry[n]
        BY <1>1, <2>1, <3>3 DEF Put, IsAFunction
      <4>2. \A n : n \in DOMAIN registry' <=> \E i \in 1..4 : Took(i, n)'
        BY <1>1, <2>4, <3>1, <3>3, <4>1 DEF RegistrySoFar
      <4>3. ASSUME NEW i \in 1..4, NEW n \in DOMAIN registry', LastTook(i, n)'
            PROVE  registry'[n] = Sections[i]
        <5>1. CASE n = name
          <6>1. i = loop
            BY <1>1, <2>4, <3>3, <4>3, <5>1 DEF LastTook
          <6> QED BY <4>1, <5>1, <6>1
        <5>2. CASE n # name
          <6>1. LastTook(i, n) /\ n \in DOMAIN registry
            BY <2>4, <4>1, <4>3, <5>2 DEF LastTook
          <6> QED BY <3>1, <4>1, <5>2, <6>1 DEF RegistrySoFar
        <5> QED BY <5>1, <5>2
      <4> QED BY <4>1, <4>2, <4>3 DEF RegistrySoFar
    <3> QED BY <3>2, <3>3
  <2>7. TypeOK'
    <3>1. /\ DOMAIN registry \subseteq DOMAIN catalog
          /\ \A n \in DOMAIN registry : registry[n] \in Section
      BY <1>1 DEF TypeOK
    <3>2. DOMAIN catalog' = DOMAIN catalog \cup {name}
      BY <2>1 DEF Put
    <3>3. /\ DOMAIN registry' \subseteq DOMAIN catalog'
          /\ \A n \in DOMAIN registry' : registry'[n] \in Section
      <4>1. CASE registry' = registry
        BY <3>1, <3>2, <4>1
      <4>2. CASE registry' = Put(registry, name, section)
        BY <1>4, <3>1, <3>2, <4>2 DEF Put
      <4> QED BY <2>1, <4>1, <4>2
    <3> QED BY <1>1, <2>1, <3>3 DEF TypeOK
  <2>8. phase' = "register" /\ (config = LoadConfig(env, file))'
    BY <1>1, <2>1 DEF BuiltInv
  <2> QED BY <1>2, <1>3, <2>5, <2>6, <2>7, <2>8 DEF BuiltInv
<1> QED BY <1>5, <1>6

LEMMA NextSectionBuilds ==
  ASSUME BuiltInv, NextSection
  PROVE  BuiltInv'
<1>1. /\ phase = "register" /\ phase' = phase /\ todo = {} /\ loop' = loop + 1
      /\ todo' = DOMAIN config.providers[Sections[loop + 1]]
      /\ UNCHANGED <<file, env, config, before, registry, catalog, retries,
                     breakers>>
      /\ loop \in 1..4 /\ loop < 4 /\ TypeOK /\ IInv
  BY FourSections DEF NextSection, built, BuiltInv, TypeOK
<1>2. IInv'
  BY <1>1, NextSectionInv
<1>3. (before # NoBefore => RoutedAs(LoadConfig(env, file)))'
  BY <1>1 DEF BuiltInv, RoutedAs
<1>4. TypeOK'
  BY <1>1, FourSections DEF TypeOK
<1>5. \A i \in 1..4 : \A n : /\ Took(i, n)' <=> Took(i, n)
                             /\ Saw(i, n)' <=> Saw(i, n)
  <2> SUFFICES ASSUME NEW i \in 1..4, NEW n, Lists(config, i, n)
               PROVE  Reached(i, n)' <=> Reached(i, n)
    BY <1>1 DEF Took, Saw, Takes, Lists
  <2> QED BY <1>1 DEF Reached, Lists
<1>6. \A i \in 1..4 : \A n : /\ LastTook(i, n)' <=> LastTook(i, n)
                             /\ LastSaw(i, n)' <=> LastSaw(i, n)
                             /\ Shown(config, i, n)' = Shown(config, i, n)
  BY <1>1, <1>5 DEF LastTook, LastSaw, Shown
<1>7. RegistrySoFar /\ CatalogSoFar
  BY <1>1 DEF BuiltInv
<1>8. RegistrySoFar'
  BY <1>1, <1>5, <1>6, <1>7 DEF RegistrySoFar
<1>9. CatalogSoFar'
  BY <1>1, <1>5, <1>6, <1>7 DEF CatalogSoFar
<1> QED BY <1>1, <1>2, <1>3, <1>4, <1>8, <1>9 DEF BuiltInv

\* After the last loop every entry has been reached.
LEMMA PoliciesBuild ==
  ASSUME BuiltInv, Policies
  PROVE  BuiltInv'
<1>1. /\ phase = "register" /\ phase' = "connect" /\ loop = 4 /\ todo = {}
      /\ UNCHANGED <<file, env, config, loop, todo, before, registry, catalog>>
      /\ DOMAIN retries' = DOMAIN breakers' /\ IInv /\ TypeOK
  BY FourSections DEF Policies, BuiltInv
<1>2. IInv'
  BY <1>1, PoliciesInv
<1>3. (before # NoBefore => RoutedAs(LoadConfig(env, file)))'
  BY <1>1 DEF BuiltInv, RoutedAs
<1>4. TypeOK'
  BY <1>1 DEF TypeOK
<1>5. \A i \in 1..4 : \A n : /\ Took(i, n) <=> Takes(config, i, n)
                             /\ Saw(i, n) <=> Lists(config, i, n)
  BY <1>1 DEF Took, Saw, Reached
<1>6. \A i \in 1..4 : \A n : /\ LastTook(i, n) <=> LastTaken(config, i, n)
                             /\ LastSaw(i, n) <=> LastListed(config, i, n)
  BY <1>5 DEF LastTook, LastTaken, LastSaw, LastListed
<1>7. RegistrySoFar /\ CatalogSoFar
  BY <1>1 DEF BuiltInv
<1>8. RegistryOf(registry, config)
  BY <1>5, <1>6, <1>7 DEF RegistrySoFar, RegistryOf
<1>9. CatalogOf(catalog, config)
  BY <1>5, <1>6, <1>7 DEF CatalogSoFar, CatalogOf
<1> QED BY <1>1, <1>2, <1>3, <1>4, <1>8, <1>9 DEF BuiltInv

LEMMA ServeBuilds ==
  ASSUME BuiltInv, Serve
  PROVE  BuiltInv'
<1>1. /\ phase = "connect" /\ phase' = "serve"
      /\ embedder' \in Embedders /\ modes' \in ModeMaps(config.routing.modes)
      /\ UNCHANGED <<file, env, config, loop, todo, registry, available, catalog,
                     retries, breakers, before>>
      /\ IInv /\ TypeOK
  BY DEF Serve, BuiltInv
<1>2. IInv'
  BY <1>1 DEF IInv
<1>3. TypeOK'
  BY <1>1 DEF TypeOK
<1>4. embedder' \in EmbeddersOf(config, DOMAIN registry)
  BY <1>1, SameEmbedders DEF IInv
<1>5. (before # NoBefore => RoutedAs(LoadConfig(env, file)))'
  BY <1>1 DEF BuiltInv, RoutedAs
<1>6. (RegistryOf(registry, config) /\ CatalogOf(catalog, config))'
  BY <1>1 DEF BuiltInv
<1> QED BY <1>1, <1>2, <1>3, <1>4, <1>5, <1>6 DEF BuiltInv

\* A process that served is remembered.
LEMMA RestartBuilds ==
  ASSUME BuiltInv, Restart
  PROVE  BuiltInv'
<1>1. /\ phase' = "load" /\ loop' = 1 /\ registry' = EmptyMap
      /\ catalog' = EmptyMap /\ retries' = EmptyMap /\ breakers' = EmptyMap
      /\ available' = {} /\ file' = file /\ env' = env /\ IInv
      /\ before' = IF phase = "serve"
                   THEN [r \in Requests |-> Route(Wiring, r)] ELSE before
  BY DEF Restart, BuiltInv
<1>2. IInv' /\ TypeOK'
  BY <1>1, EmptyIsAFunction, FourSections DEF IInv, TypeOK
<1>3. (before # NoBefore => RoutedAs(LoadConfig(env, file)))'
  <2>1. CASE phase # "serve"
    BY <1>1, <2>1 DEF BuiltInv, RoutedAs
  <2>2. CASE phase = "serve"
    <3>1. /\ config = LoadConfig(env, file) /\ available = DOMAIN registry
          /\ RegistryOf(registry, config) /\ CatalogOf(catalog, config)
          /\ modes \in ModeMaps(config.routing.modes)
          /\ embedder \in EmbeddersOf(config, DOMAIN registry)
      BY <2>2 DEF BuiltInv, IInv
    <3>2. Wiring = WiringOf(config, registry, catalog, modes, embedder)
      BY <3>1 DEF Wiring, WiringOf
    <3>3. before' = [r \in Requests |->
                       Route(WiringOf(config, registry, catalog, modes, embedder), r)]
      BY <1>1, <2>2, <3>2
    <3>4. config = LoadConfig(env, file)'
      BY <1>1, <3>1
    <3>5. RoutedAs(LoadConfig(env, file))'
      BY <3>1, <3>3, <3>4 DEF RoutedAs
    <3> QED BY <3>5
  <2> QED BY <2>1, <2>2
<1> QED BY <1>1, <1>2, <1>3 DEF BuiltInv

LEMMA BuiltInit == Init => BuiltInv
<1> SUFFICES ASSUME Init PROVE BuiltInv
  OBVIOUS
<1>1. IInv
  BY InitInv
<1>2. TypeOK
  BY FourSections, EmptyIsAFunction DEF Init, TypeOK
<1> QED BY <1>1, <1>2 DEF Init, BuiltInv

LEMMA BuiltStep == BuiltInv /\ [Next]_vars => BuiltInv'
<1> SUFFICES ASSUME BuiltInv, [Next]_vars PROVE BuiltInv'
  OBVIOUS
<1>1. CASE Load
  BY <1>1, LoadBuilds
<1>2. ASSUME NEW name \in todo,
             \/ OpenAIEntry(name) \/ AnthropicEntry(name)
             \/ GeminiEntry(name) \/ CompatibleEntry(name)
      PROVE  BuiltInv'
  BY <1>2, EntryBuilds
     DEF OpenAIEntry, AnthropicEntry, GeminiEntry, CompatibleEntry
<1>3. CASE NextSection \/ Policies \/ Serve \/ Restart
  BY <1>3, NextSectionBuilds, PoliciesBuild, ServeBuilds, RestartBuilds
<1>4. CASE LoadFails \/ ConnectFails
  <2>1. /\ phase' = "exited"
        /\ UNCHANGED <<file, env, config, loop, todo, registry, available, catalog,
                       retries, breakers, before>>
    BY <1>4 DEF LoadFails, ConnectFails, built
  <2>2. IInv' /\ TypeOK'
    BY <2>1 DEF BuiltInv, IInv, TypeOK
  <2>3. (before # NoBefore => RoutedAs(LoadConfig(env, file)))'
    BY <2>1 DEF BuiltInv, RoutedAs
  <2> QED BY <2>1, <2>2, <2>3 DEF BuiltInv
<1>5. CASE UNCHANGED vars
  <2>1. UNCHANGED <<file, env, phase, config, loop, todo, registry, available,
                    catalog, retries, breakers, modes, embedder, before>>
    BY <1>5 DEF vars, built
  <2>2. IInv'
    BY <1>5, NextInv DEF BuiltInv
  <2>3. TypeOK'
    BY <2>1 DEF BuiltInv, TypeOK
  <2>4. (before # NoBefore => RoutedAs(LoadConfig(env, file)))'
    BY <2>1 DEF BuiltInv, RoutedAs
  <2>5. phase = "register" => RegistrySoFar' /\ CatalogSoFar'
    <3>1. \A i \in 1..4 : \A n :
            /\ Took(i, n)' <=> Took(i, n)
            /\ Saw(i, n)' <=> Saw(i, n)
            /\ Shown(config, i, n)' = Shown(config, i, n)
      BY <2>1 DEF Took, Saw, Reached, Takes, Lists, Shown
    <3>2. \A i \in 1..4 : \A n : /\ LastTook(i, n)' <=> LastTook(i, n)
                                 /\ LastSaw(i, n)' <=> LastSaw(i, n)
      BY <3>1 DEF LastTook, LastSaw
    <3>3. ASSUME phase = "register" PROVE RegistrySoFar /\ CatalogSoFar
      BY <3>3 DEF BuiltInv
    <3>4. ASSUME phase = "register" PROVE RegistrySoFar'
      BY <2>1, <3>1, <3>2, <3>3, <3>4 DEF RegistrySoFar
    <3>5. ASSUME phase = "register" PROVE CatalogSoFar'
      BY <2>1, <3>1, <3>2, <3>3, <3>5 DEF CatalogSoFar
    <3> QED BY <3>4, <3>5
  <2> QED BY <2>1, <2>2, <2>3, <2>4, <2>5 DEF BuiltInv
<1> QED BY <1>1, <1>2, <1>3, <1>4, <1>5 DEF Next

LEMMA SpecBuilt == Spec => []BuiltInv
BY BuiltInit, BuiltStep, PTL DEF Spec

\* The variables of start-up keep their types: in particular every registered
\* provider is in the catalog.
THEOREM TypeCorrect == Spec => []TypeOK
<1>1. BuiltInv => TypeOK
  BY DEF BuiltInv
<1> QED BY <1>1, SpecBuilt, PTL

-----------------------------------------------------------------------------
(***************************************************************************)
(* Restarts.  Two gateways built from one configuration differ in their    *)
(* modes and their provider for embeddings at most, and a request that     *)
(* depends on neither is routed alike by both.                             *)
(***************************************************************************)
Alike(v, w) ==
  /\ v.registry = w.registry /\ v.available = w.available /\ v.catalog = w.catalog
  /\ v.routing = w.routing /\ v.prices = w.prices /\ v.local = w.local
  /\ v.override = w.override

LEMMA SamePick ==
  ASSUME NEW v, NEW w, Alike(v, w), NEW model
  PROVE  PickProvider(v, model) = PickProvider(w, model)
BY DEF Alike, PickProvider, PickFromExactMapping, Eligible, IsAvailable,
       ModelSupported, Candidates, Before, Priority

LEMMA SameRoute ==
  ASSUME NEW v, NEW w, Alike(v, w), NEW r \in Requests,
         r.kind = "embedding" => v.embedder = w.embedder,
         r.mode # "" => v.modes = w.modes
  PROVE  Route(v, r) = Route(w, r)
<1>1. /\ v.registry = w.registry /\ v.routing = w.routing /\ v.local = w.local
      /\ v.override = w.override
  BY DEF Alike
<1>2. PickProvider(v, r.model) = PickProvider(w, r.model)
  BY SamePick
<1>3. RouteByHints(v, r) = RouteByHints(w, r)
  <2>1. CASE r.mode = "" \/ r.hint # NoProvider
    BY <1>1, <1>2, <2>1 DEF RouteByHints
  <2>2. CASE r.mode # "" /\ r.hint = NoProvider
    <3>1. ModeProvider(v, r.mode) = ModeProvider(w, r.mode)
      BY <1>1, <2>2 DEF ModeProvider
    <3> QED BY <1>1, <2>2, <3>1 DEF RouteByHints
  <2> QED BY <2>1, <2>2
<1>4. RouteChat(v, r) = RouteChat(w, r)
  BY <1>1, <1>3 DEF RouteChat, CompatibleModel
<1>5. ModelAt(v, r) = ModelAt(w, r)
  BY <1>1 DEF ModelAt
<1>6. RouteAudio(v, r) = RouteAudio(w, r) /\ RouteSpeech(v, r) = RouteSpeech(w, r)
  BY <1>1, <1>3, <1>5 DEF RouteAudio, RouteSpeech
<1>7. r.kind = "embedding" => RouteEmbedding(v, r) = RouteEmbedding(w, r)
  BY <1>1, <1>5 DEF RouteEmbedding
<1>8. CASE r.kind = "chat"
  <2>1. Route(v, r) = RouteChat(v, r) /\ Route(w, r) = RouteChat(w, r)
    BY <1>8, Zenon DEF Route
  <2> QED BY <1>4, <2>1
<1>9. CASE r.kind = "audio"
  <2>1. Route(v, r) = RouteAudio(v, r) /\ Route(w, r) = RouteAudio(w, r)
    BY <1>9, Zenon DEF Route
  <2> QED BY <1>6, <2>1
<1>10. CASE r.kind = "speech"
  <2>1. Route(v, r) = RouteSpeech(v, r) /\ Route(w, r) = RouteSpeech(w, r)
    BY <1>10, Zenon DEF Route
  <2> QED BY <1>6, <2>1
<1>11. CASE r.kind = "embedding"
  <2>1. Route(v, r) = RouteEmbedding(v, r) /\ Route(w, r) = RouteEmbedding(w, r)
    BY <1>11, Zenon DEF Route
  <2> QED BY <1>7, <1>11, <2>1
<1> QED BY <1>8, <1>9, <1>10, <1>11, RequestAssumption

\* A gateway that serves, and the one before it when there was one.
LEMMA ServingWiring ==
  ASSUME BuiltInv, phase = "serve"
  PROVE  /\ config = LoadConfig(env, file) /\ available = DOMAIN registry
         /\ available # {}
         /\ RegistryOf(registry, config) /\ CatalogOf(catalog, config)
         /\ Wiring = WiringOf(config, registry, catalog, modes, embedder)
         /\ modes \in ModeMaps(config.routing.modes) /\ embedder \in Embedders
<1>1. /\ config = LoadConfig(env, file) /\ available = DOMAIN registry
      /\ available # {}
      /\ RegistryOf(registry, config) /\ CatalogOf(catalog, config)
      /\ modes \in ModeMaps(config.routing.modes)
      /\ embedder \in EmbeddersOf(config, DOMAIN registry)
  BY DEF BuiltInv, IInv
<1>2. Wiring = WiringOf(config, registry, catalog, modes, embedder)
  BY <1>1 DEF Wiring, WiringOf
<1> QED BY <1>1, <1>2, SameEmbedders

\* A restart sends a request to another provider only where the code leaves a
\* choice to Go's map order (ModeMaps, resolveEmbeddingProviderName): the order in
\* which the registration loops range over the sections has no such effect.
THEOREM RestartsKeepRoutes == Spec => []RoutesSurviveRestart
<1>1. BuiltInv => RoutesSurviveRestart
  <2> SUFFICES ASSUME BuiltInv, phase = "serve", before # NoBefore,
                      NEW r \in Requests, ~Open(r)
               PROVE  Route(Wiring, r) = before[r]
    BY DEF RoutesSurviveRestart
  <2>1. RoutedAs(config)
    BY ServingWiring DEF BuiltInv
  <2>2. PICK reg, cat, m, e :
          /\ RegistryOf(reg, config) /\ CatalogOf(cat, config)
          /\ m \in ModeMaps(config.routing.modes)
          /\ e \in EmbeddersOf(config, DOMAIN reg)
          /\ before = [q \in Requests |->
                         Route(WiringOf(config, reg, cat, m, e), q)]
    BY <2>1 DEF RoutedAs
  <2>3. reg = registry /\ cat = catalog
    BY <2>2, ServingWiring, OneRegistry, OneCatalog
  <2>4. e \in Embedders
    BY <2>2, <2>3, ServingWiring, SameEmbedders
  <2>5. r.kind = "embedding" => embedder = e
    BY <2>4, ServingWiring DEF Open, Several
  <2>6. r.mode # "" => modes = m
    BY <2>2, ServingWiring DEF Open, Several
  <2>7. Route(WiringOf(config, registry, catalog, modes, embedder), r)
          = Route(WiringOf(config, registry, catalog, m, e), r)
    <3> DEFINE v == WiringOf(config, registry, catalog, modes, embedder)
               w == WiringOf(config, registry, catalog, m, e)
    <3>1. /\ Alike(v, w) /\ v.embedder = embedder /\ w.embedder = e
          /\ v.modes = modes /\ w.modes = m
      BY DEF Alike, WiringOf
    <3> HIDE DEF v, w
    <3>2. Route(v, r) = Route(w, r)
      BY <2>5, <2>6, <3>1, SameRoute
    <3> QED BY <3>2 DEF v, w
  <2>8. before[r] = Route(WiringOf(config, registry, catalog, m, e), r)
    BY <2>2, <2>3
  <2> QED BY <2>7, <2>8, ServingWiring
<1> QED BY <1>1, SpecBuilt, PTL

-----------------------------------------------------------------------------
(***************************************************************************)
(* Routing.  The catalog shows of a registered provider what the last      *)
(* section that configures it says, the section LastEntry looks at.  The   *)
(* candidates are two at most, and Before orders them: by priority, by     *)
(* price, by name.                                                         *)
(***************************************************************************)
LEMMA LastIsMax ==
  ASSUME NEW i \in 1..4, NEW S \in SUBSET (1..4), i \in S, \A j \in S : i >= j
  PROVE  Max(S) = i
<1>1. \E x \in S : \A y \in S : x >= y
  OBVIOUS
<1>2. Max(S) \in S /\ \A y \in S : Max(S) >= y
  BY <1>1 DEF Max
<1>3. \A y \in S : y \in Int
  OBVIOUS
<1>4. Max(S) \in Int /\ i \in Int /\ Max(S) >= i /\ i >= Max(S)
  BY <1>2, <1>3
<1> QED BY <1>4

LEMMA ShownIsLast ==
  ASSUME CatalogOf(catalog, config), NEW n \in DOMAIN catalog
  PROVE  /\ catalog[n].priority = LastEntry(n).priority
         /\ catalog[n].models = LastEntry(n).models
         /\ \E s \in Section : /\ n \in DOMAIN config.providers[s]
                               /\ LastEntry(n) = config.providers[s][n]
<1>1. PICK i \in 1..4 : LastListed(config, i, n)
  BY LastOnes DEF CatalogOf
<1>2. catalog[n] = Shown(config, i, n)
  BY <1>1 DEF CatalogOf
<1> DEFINE S == {j \in DOMAIN Sections : n \in DOMAIN config.providers[Sections[j]]}
<1>3. S \in SUBSET (1..4) /\ i \in S /\ \A j \in S : i >= j
  BY <1>1, FourSections DEF LastListed, Lists
<1>4. Max(S) = i
  <2> HIDE DEF S
  <2> QED BY <1>3, LastIsMax
<1>5. LastEntry(n) = config.providers[Sections[i]][n]
  BY <1>4 DEF LastEntry
<1>6. Sections[i] \in Section /\ n \in DOMAIN config.providers[Sections[i]]
  BY <1>1, FourSections DEF Section, Range, LastListed, Lists
<1>7. /\ Shown(config, i, n).priority = config.providers[Sections[i]][n].priority
      /\ Shown(config, i, n).models = config.providers[Sections[i]][n].models
  BY DEF Shown, Metadata
<1> QED BY <1>2, <1>5, <1>6, <1>7

\* What Load makes of an entry: its priority is the file's, and its name is one
\* that NameOrder has.
LEMMA LoadedEntries ==
  ASSUME BuiltInv, phase = "serve", NEW s \in Section,
         NEW n \in DOMAIN config.providers[s]
  PROVE  n \in Range(NameOrder) /\ config.providers[s][n].priority \in Int
<1>1. /\ file \in Files /\ config.providers = LoadProviders(env, file)
  BY ServingWiring DEF BuiltInv, LoadConfig
<1>2. config.providers[s] = LoadEntries(env, file.providers[s])
  BY <1>1 DEF LoadProviders, LoadOpenAI, LoadAnthropic, LoadGemini, LoadCompatible,
              Section, Sections, Range
<1>3. /\ n \in DOMAIN file.providers[s]
      /\ config.providers[s][n] =
           [file.providers[s][n] EXCEPT !.apiKey = ResolveEnvIfPresent(env, @)]
  BY <1>2 DEF LoadEntries
<1>4. /\ n \in Range(NameOrder) /\ "priority" \in DOMAIN file.providers[s][n]
      /\ file.providers[s][n].priority \in Int
  BY <1>1, <1>3, FileAssumption
<1>5. config.providers[s][n].priority = file.providers[s][n].priority
  BY <1>3, <1>4
<1> QED BY <1>4, <1>5

LEMMA RankProperties ==
  \A p \in Range(NameOrder) : Rank(p) \in Nat /\ NameOrder[Rank(p)] = p
<1> SUFFICES ASSUME NEW p \in Range(NameOrder)
             PROVE  Rank(p) \in Nat /\ NameOrder[Rank(p)] = p
  OBVIOUS
<1>1. PICK i \in DOMAIN NameOrder : NameOrder[i] = p
  BY DEF Range
<1>2. Rank(p) \in DOMAIN NameOrder /\ NameOrder[Rank(p)] = p
  BY <1>1 DEF Rank
<1>3. DOMAIN NameOrder = 1..Len(NameOrder) /\ Len(NameOrder) \in Nat
  BY NameAssumption
<1> QED BY <1>2, <1>3

\* Of two providers with integer priorities, one sorts before the other.
LEMMA BeforeIsTotal ==
  ASSUME NEW w, NEW model, NEW p \in Range(NameOrder), NEW q \in Range(NameOrder),
         p # q, Priority(w, p) \in Int, Priority(w, q) \in Int
  PROVE  Before(w, model, p, q) \/ Before(w, model, q, p)
<1>1. Rank(p) \in Nat /\ Rank(q) \in Nat /\ Rank(p) # Rank(q)
  BY RankProperties
<1>2. Rank(p) < Rank(q) \/ Rank(q) < Rank(p)
  BY <1>1
<1>3. \/ Priority(w, p) > Priority(w, q) \/ Priority(w, q) > Priority(w, p)
      \/ Priority(w, p) = Priority(w, q)
  OBVIOUS
<1> QED BY <1>2, <1>3 DEF Before

\* The router and the property ask for the same providers.
LEMMA EligibleServes ==
  ASSUME BuiltInv, phase = "serve", NEW p, NEW model
  PROVE  /\ Serves(p, model) <=> Eligible(Wiring, p, model)
         /\ Serves(p, model) => /\ p # NoProvider /\ p \in Range(NameOrder)
                                /\ Priority(Wiring, p) = LastEntry(p).priority
                                /\ LastEntry(p).priority \in Int
<1>1. /\ Wiring.available = DOMAIN registry /\ Wiring.catalog = catalog
      /\ DOMAIN registry # {} /\ DOMAIN registry \subseteq DOMAIN catalog
      /\ CatalogOf(catalog, config)
  BY ServingWiring DEF WiringOf, BuiltInv, TypeOK
<1>2. ASSUME p \in DOMAIN catalog
      PROVE  /\ catalog[p].models = LastEntry(p).models
             /\ catalog[p].priority = LastEntry(p).priority
             /\ p \in Range(NameOrder) /\ LastEntry(p).priority \in Int
  <2>1. PICK s \in Section : /\ p \in DOMAIN config.providers[s]
                             /\ LastEntry(p) = config.providers[s][p]
    BY <1>1, <1>2, ShownIsLast
  <2>2. p \in Range(NameOrder) /\ config.providers[s][p].priority \in Int
    BY <2>1, LoadedEntries
  <2>3. catalog[p].models = LastEntry(p).models
        /\ catalog[p].priority = LastEntry(p).priority
    BY <1>1, <1>2, ShownIsLast
  <2> QED BY <2>1, <2>2, <2>3
<1>3. Serves(p, model) <=> Eligible(Wiring, p, model)
  BY <1>1, <1>2 DEF Serves, Eligible, IsAvailable, ModelSupported
<1>4. ASSUME Serves(p, model)
      PROVE  /\ p # NoProvider /\ p \in Range(NameOrder)
             /\ Priority(Wiring, p) = LastEntry(p).priority
             /\ LastEntry(p).priority \in Int
  BY <1>1, <1>2, <1>4 DEF Serves, Priority
<1> QED BY <1>3, <1>4

\* A rate is a pair of integers, and only that of an unpriced model has the input
\* rate that stands for none.
LEMMA Rated ==
  ASSUME BuiltInv, phase = "serve", NEW p, NEW model
  PROVE  LET rate == RateOf(config.prices, p, model) IN
         \/ rate = Unpriced
         \/ rate.input \in Int /\ rate.output \in Int /\ rate.input # Unpriced.input
<1> DEFINE rate == RateOf(config.prices, p, model)
<1>1. /\ file \in Files /\ config.prices = file.prices
  BY ServingWiring DEF BuiltInv, LoadConfig
<1>2. PICK family, known : /\ family = NormalizeProvider(p)
                           /\ known = NormalizeModel(family, model)
  OBVIOUS
<1>3. rate = CASE In(config.prices, family, known) -> config.prices[family][known]
               [] /\ ~In(config.prices, family, known)
                  /\ In(Prices, family, known) -> Prices[family][known]
               [] OTHER -> Unpriced
  BY <1>2 DEF RateOf
<1> HIDE DEF rate
<1>4. CASE In(config.prices, family, known)
  <2>1. rate \in [input : Int \ {Unpriced.input}, output : Int]
    BY <1>1, <1>3, <1>4, FileAssumption DEF In
  <2> QED BY <2>1 DEF rate
<1>5. CASE ~In(config.prices, family, known) /\ In(Prices, family, known)
  <2>1. rate \in [input : Nat, output : Nat]
    BY <1>3, <1>5, RateAssumption DEF In
  <2> QED BY <2>1 DEF rate, Unpriced
<1>6. CASE ~In(config.prices, family, known) /\ ~In(Prices, family, known)
  BY <1>3, <1>6 DEF rate
<1> QED BY <1>4, <1>5, <1>6

LEMMA PromptPrice ==
  ASSUME BuiltInv, phase = "serve", NEW p, NEW model
  PROVE  /\ PriceAt(p, model) \in Int /\ PromptCost(p, model) \in Int
         /\ PriceAt(p, model) # Unpriced.input =>
              PromptCost(p, model) = 20 * PriceAt(p, model)
<1>1. PICK rate : rate = RateOf(config.prices, p, model)
  OBVIOUS
<1>2. \/ rate = Unpriced
      \/ rate.input \in Int /\ rate.output \in Int /\ rate.input # Unpriced.input
  BY <1>1, Rated
<1>3. PriceAt(p, model) = rate.input
  BY <1>1 DEF PriceAt, InputPricePer1M
<1>4. PromptCost(p, model) =
        IF rate = Unpriced THEN 0
        ELSE rate.input * (20 * 1 + 2 * 0 + 25 * 0) + rate.output * 20 * 0
  BY <1>1 DEF PromptCost, EstimateCost
<1>5. CASE rate = Unpriced
  BY <1>3, <1>4, <1>5 DEF Unpriced
<1>6. CASE rate # Unpriced
  <2>1. PICK a \in Int, b \in Int : a = rate.input /\ b = rate.output
    BY <1>2, <1>6
  <2>2. a * (20 * 1 + 2 * 0 + 25 * 0) + b * 20 * 0 = 20 * a
    OBVIOUS
  <2> QED BY <1>3, <1>4, <1>6, <2>1, <2>2
<1> QED BY <1>5, <1>6

\* The candidate taken is one that none of the others sorts before.
LEMMA FirstCandidate ==
  ASSUME BuiltInv, phase = "serve", NEW model, Candidates(Wiring, model) # {},
         ~Eligible(Wiring, PickFromExactMapping(Wiring, model), model)
  PROVE  LET p == PickProvider(Wiring, model) IN
         /\ p \in Candidates(Wiring, model)
         /\ \A q \in Candidates(Wiring, model) \ {p} : Before(Wiring, model, p, q)
<1> DEFINE S == Candidates(Wiring, model)
           First(p) == \A q \in S \ {p} : Before(Wiring, model, p, q)
<1>1. PICK a, b : S \subseteq {a, b}
  BY DEF Candidates
<1>2. ASSUME NEW p \in S
      PROVE  p \in Range(NameOrder) /\ Priority(Wiring, p) \in Int
  <2>1. Eligible(Wiring, p, model)
    BY <1>2 DEF Candidates
  <2> QED BY <2>1, EligibleServes
<1> HIDE DEF S
<1>3. \A p, q \in S : p # q => Before(Wiring, model, p, q) \/ Before(Wiring, model, q, p)
  <2> SUFFICES ASSUME NEW p \in S, NEW q \in S, p # q
               PROVE  Before(Wiring, model, p, q) \/ Before(Wiring, model, q, p)
    OBVIOUS
  <2>1. PICK w : w = Wiring
    OBVIOUS
  <2> QED BY <1>2, <2>1, BeforeIsTotal
<1>4. \E p \in S : First(p)
  <2>1. CASE a \in S /\ b \in S
    BY <1>1, <1>3, <2>1
  <2>2. CASE ~(a \in S /\ b \in S)
    <3>1. PICK p : S = {p}
      BY <1>1, <2>2 DEF S
    <3> QED BY <3>1
  <2> QED BY <2>1, <2>2
<1>5. PickProvider(Wiring, model) = CHOOSE p \in S : First(p)
  BY DEF PickProvider, S
<1>6. PickProvider(Wiring, model) \in S /\ First(PickProvider(Wiring, model))
  <2> HIDE DEF First
  <2> QED BY <1>4, <1>5
<1> QED BY <1>6 DEF S

\* One that sorts before another leaves it nothing to be preferred for.
LEMMA BeforeIsBetter ==
  ASSUME BuiltInv, phase = "serve", NEW model, NEW p, NEW q,
         Serves(p, model), Serves(q, model),
         p = q \/ Before(Wiring, model, p, q)
  PROVE  ~Preferable(q, p, model)
<1>1. /\ Priority(Wiring, p) = LastEntry(p).priority
      /\ Priority(Wiring, q) = LastEntry(q).priority
      /\ LastEntry(p).priority \in Int /\ LastEntry(q).priority \in Int
  BY EligibleServes
<1>2. /\ PriceAt(p, model) \in Int /\ PromptCost(p, model) \in Int
      /\ PriceAt(q, model) \in Int /\ PromptCost(q, model) \in Int
      /\ PriceAt(p, model) # Unpriced.input =>
           PromptCost(p, model) = 20 * PriceAt(p, model)
      /\ PriceAt(q, model) # Unpriced.input =>
           PromptCost(q, model) = 20 * PriceAt(q, model)
  BY PromptPrice
<1>3. Wiring.prices = config.prices
  BY DEF Wiring
<1>4. CASE p = q
  BY <1>1, <1>2, <1>4 DEF Preferable
<1>5. CASE Before(Wiring, model, p, q)
  <2>1. /\ InputPricePer1M(Wiring.prices, p, model) = PriceAt(p, model)
        /\ InputPricePer1M(Wiring.prices, q, model) = PriceAt(q, model)
    BY <1>3 DEF PriceAt
  <2>2. PICK x \in Int, y \in Int, u \in Int, v \in Int, i \in Int, j \in Int :
          /\ x = PriceAt(p, model) /\ y = PriceAt(q, model)
          /\ u = PromptCost(p, model) /\ v = PromptCost(q, model)
          /\ i = LastEntry(p).priority /\ j = LastEntry(q).priority
    BY <1>1, <1>2
  <2>3. /\ x # Unpriced.input => u = 20 * x
        /\ y # Unpriced.input => v = 20 * y
    BY <1>2, <2>2
  <2>4. \/ i > j
        \/ /\ i = j
           /\ \/ x # Unpriced.input /\ (y # Unpriced.input => x < y)
              \/ ~(y # Unpriced.input /\ (x # Unpriced.input => y < x))
    BY <1>1, <1>5, <2>1, <2>2 DEF Before
  <2>5. ~(\/ j > i
          \/ /\ j = i /\ y # Unpriced.input
             /\ x = Unpriced.input \/ v < u)
    BY <2>3, <2>4
  <2> QED BY <2>2, <2>5 DEF Preferable
<1> QED BY <1>4, <1>5

\* A request the router routes goes to a registered provider that is configured
\* for the model: the mapped one if it can serve, and else none with a higher
\* priority, or the same and a lower known price, is passed over, for any
\* configuration, whatever the sections say of a name they share
\* (pickWithPriority).
THEOREM RoutingAlwaysSound == Spec => []RoutingSound
<1>1. BuiltInv => RoutingSound
  <2> SUFFICES ASSUME BuiltInv, phase = "serve", NEW r \in Requests
               PROVE  LET p      == PickProvider(Wiring, r.model)
                          mapped == PickFromExactMapping(Wiring, r.model)
                          others == {MatchProviderByModel(r.model),
                                     config.routing.default}
                      IN /\ p # NoProvider => Serves(p, r.model)
                         /\ Serves(mapped, r.model) => p = mapped
                         /\ ~Serves(mapped, r.model) =>
                              \A q \in others : Serves(q, r.model) =>
                                p # NoProvider /\ ~Preferable(q, p, r.model)
    BY DEF RoutingSound
  <2> DEFINE p      == PickProvider(Wiring, r.model)
             mapped == PickFromExactMapping(Wiring, r.model)
             others == {MatchProviderByModel(r.model), config.routing.default}
             S      == Candidates(Wiring, r.model)
  <2>1. \A q : /\ Serves(q, r.model) <=> Eligible(Wiring, q, r.model)
               /\ Serves(q, r.model) => q # NoProvider
    BY EligibleServes
  <2>2. S = {q \in others : Serves(q, r.model)}
    BY <2>1 DEF Candidates, Wiring
  <2>3. CASE Serves(mapped, r.model)
    <3>1. p = mapped
      BY <2>1, <2>3 DEF PickProvider
    <3> QED BY <2>3, <3>1
  <2>4. CASE ~Serves(mapped, r.model) /\ S = {}
    <3>1. p = NoProvider
      BY <2>1, <2>4 DEF PickProvider
    <3> QED BY <2>2, <2>4, <3>1
  <2>5. CASE ~Serves(mapped, r.model) /\ S # {}
    <3>1. p \in S /\ \A q \in S \ {p} : Before(Wiring, r.model, p, q)
      BY <2>1, <2>5, FirstCandidate
    <3> HIDE DEF p, mapped, S, others
    <3>2. Serves(p, r.model) /\ p # NoProvider
      BY <2>1, <2>2, <3>1
    <3>3. ASSUME NEW q \in others, Serves(q, r.model)
          PROVE  ~Preferable(q, p, r.model)
      <4>1. p = q \/ Before(Wiring, r.model, p, q)
        BY <2>2, <3>1, <3>3
      <4> QED BY <3>2, <3>3, <4>1, BeforeIsBetter
    <3> QED BY <2>5, <3>2, <3>3 DEF p, mapped, others
  <2> QED BY <2>3, <2>4, <2>5
<1> QED BY <1>1, SpecBuilt, PTL
=============================================================================
