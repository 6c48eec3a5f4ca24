--------------------------- MODULE ToolCatalogue ---------------------------
(***************************************************************************)
(* The catalogue of the agent's tools, the readiness of what they need, and *)
(* what the application builds from both when it starts.                    *)
(*                                                                         *)
(* A registry answers from a cache: one entry per prerequisite, good for    *)
(* TTL after its probe ended, refreshed under a lock of that prerequisite   *)
(* by the threads that serve /api/tools.  The lifespan selects the tools    *)
(* that are ready then, and the agent keeps that selection: it is bound to  *)
(* the model, named in the prompt and recorded as provenance.               *)
(*                                                                         *)
(* A probe takes two steps, reaching the dependency and looking inside it,  *)
(* and the world may change between them.                                   *)
(***************************************************************************)
EXTENDS Integers, Sequences

CONSTANTS
  Requests,        \* threads that serve GET /api/tools, each once
  Startup,         \* the thread of the lifespan
  Configurations,  \* a sequence: what app_config.yml and the prompt directory may say
  Worlds,          \* states of the database, of Chroma and of the credential
  MaxClock,        \* bound: how far the clock runs
  None

ASSUME ThreadsAssumption == Startup \notin Requests /\ None \notin Requests \cup {Startup}

(* None stands for whatever a file says where a number belongs; a file    *)
(* without a list of phrases or counts gives the empty one.                *)
ASSUME ConfigurationAssumption ==
  \A c \in {Configurations[i] : i \in DOMAIN Configurations} :
    /\ {c.ttl, c.limits.steps, c.policy.permits, c.policy.fast, c.policy.slow, c.policy.attempts,
        c.policy.delay, c.policy.remaining} \subseteq Int \cup {None}
    /\ c.memory.counts \in Seq(Int \cup {None})
    /\ c.limits.topics \in Seq(STRING) /\ c.limits.offTopics \in Seq(STRING)

VARIABLES
  app,         \* the configuration, and how far the application has come
  history,     \* the world at each reading of the monotonic clock so far
  cache,       \* _readiness_cache
  refreshing,  \* per prerequisite: the thread holding its refresh lock
  job,         \* per thread: where its readiness check stands
  agent        \* what the agent was built with

catalogueVars == <<app, history, cache, refreshing, job, agent>>

SeqRange(s) == {s[i] : i \in DOMAIN s}
Clock == Len(history)
World == history[Clock]
Config == Configurations[app.config]

-----------------------------------------------------------------------------
(* The catalogue: each tool module's definitions.  Where their order shows,  *)
(* in a reply or a prompt, nothing depends on it.                           *)

Tool(name, category, tier, needs, cost, latency) ==
  [name |-> name, category |-> category, tier |-> tier, needs |-> needs, cost |-> cost,
   latency |-> latency, idempotent |-> TRUE]

CellarTool(name, tier) == Tool(name, "cellar", tier, <<"cellar_schema">>, "free", "fast")
TasteTool(name, tier) == Tool(name, "taste_profile", tier, <<"cellar_schema">>, "free", "fast")
RagTool(name, tier) == Tool(name, "rag", tier, <<"chroma_collection">>, "free", "slow")
PairingTool(name, tier, needs) == Tool(name, "pairing", tier, needs, "free", "fast")
WebTool(name) == Tool(name, "web_search", "extended", <<"web_search_config">>, "cheap", "slow")

CellarTools == {
  CellarTool("get_cellar_wines", "core"), CellarTool("get_wine_details", "core"),
  CellarTool("get_cellar_statistics", "extended")}
TasteTools == {
  TasteTool("get_user_taste_profile", "core"), TasteTool("get_tasting_history", "extended"),
  TasteTool("get_top_rated_wines", "extended"),
  TasteTool("get_wine_recommendations_from_profile", "extended"),
  TasteTool("compare_wine_to_profile", "extended")}
RagTools == {
  RagTool("search_wine_knowledge", "core"), RagTool("search_wine_region_info", "extended"),
  RagTool("search_grape_variety_info", "extended"),
  RagTool("search_wine_term_definition", "extended"),
  RagTool("search_wine_producer_info", "extended")}
PairingTools == {
  PairingTool("get_food_pairing_wines", "core", <<"cellar_schema", "pairing_rules">>),
  PairingTool("get_pairing_for_wine", "extended", <<"cellar_schema">>),
  PairingTool("get_wine_and_cheese_pairings", "extended", <<"cellar_schema">>)}
WebTools == {
  WebTool("search_web_for_wine"), WebTool("search_wine_price"), WebTool("search_wine_reviews")}

(* The lifespan's asynchronous retrieval tools take the places and the      *)
(* metadata of their namesakes.                                             *)
Catalogue == CellarTools \cup TasteTools \cup RagTools \cup PairingTools \cup WebTools

Registrable(tools) == \A d, e \in tools : d.name = e.name => d = e

-----------------------------------------------------------------------------
(* Probes of the prerequisites: what reaching the dependency shows, and      *)
(* what looking inside it shows then.                                       *)

Prerequisites == {"cellar_schema", "pairing_rules", "chroma_collection", "web_search_config"}
PublicReasons == {"missing_configuration", "disabled_by_config", "database_missing",
                  "database_schema_incomplete", "dependency_unreachable", "collection_missing",
                  "readiness_check_failed"}

ReachWeb(s, w) ==
  CASE ~s.webTools                              -> "disabled_by_config"
    [] s.webTools /\ s.provider = "unreadable"  -> "readiness_check_failed"
    [] s.webTools /\ s.provider = "tavily" /\ s.keyNamed /\ w.key -> "ready"
    [] OTHER                                    -> "missing_configuration"
ReachDatabase(w) == IF w.database = "absent" THEN "database_missing" ELSE "reached"
ReachChroma(s, w) ==
  CASE s.chroma = "unreadable" -> "readiness_check_failed"
    [] s.chroma = "missing"    -> "missing_configuration"
    [] OTHER -> IF w.chroma = "down" THEN "dependency_unreachable" ELSE "reached"
Reach(p, s, w) ==
  CASE p = "web_search_config" -> ReachWeb(s, w)
    [] p = "chroma_collection" -> ReachChroma(s, w)
    [] OTHER                   -> ReachDatabase(w)

LookIntoDatabase(p, w) ==
  LET opens == w.database \notin {"absent", "broken"}
  IN  CASE ~opens                       -> "readiness_check_failed"
        [] opens /\ p \notin w.tables   -> "database_schema_incomplete"
        [] OTHER                        -> "ready"
LookIntoChroma(w) ==
  CASE w.chroma \in {"down", "broken"} -> "readiness_check_failed"
    [] w.chroma = "empty"              -> "collection_missing"
    [] OTHER                           -> "ready"
LookInto(p, w) == IF p = "chroma_collection" THEN LookIntoChroma(w) ELSE LookIntoDatabase(p, w)

Verdict(p, s, w) == IF Reach(p, s, w) = "reached" THEN LookInto(p, w) ELSE Reach(p, s, w)

-----------------------------------------------------------------------------
(* What readiness makes of the catalogue. *)

(* Each prerequisite once, in the order the tools name them. *)
Needs(tools) ==
  LET OfAny(p) == IF \E d \in tools : p \in SeqRange(d.needs) THEN <<p>> ELSE <<>>
  IN  OfAny("cellar_schema") \o OfAny("chroma_collection") \o OfAny("pairing_rules")
        \o OfAny("web_search_config")

(* The first prerequisite that is not ready tells why its tool is not. *)
Reason(d, found) ==
  LET missing == {i \in DOMAIN d.needs : found[d.needs[i]].verdict # "ready"}
      first == CHOOSE i \in missing : \A k \in missing : i <= k
  IN  IF missing = {} THEN None ELSE found[d.needs[first]].verdict
Readiness(tools, found) == {[name |-> d.name, reason |-> Reason(d, found)] : d \in tools}
OfPortfolio(extended) == {d \in Catalogue : extended \/ d.tier = "core"}
Selected(tools, found) == {d \in tools : Reason(d, found) = None}

(* The public rows.  They read an attribute of the application the lifespan *)
(* does not set, so that no tool is ever reported as selected.              *)
Rows(found) ==
  {[name |-> d.name, category |-> d.category,
    available |-> Reason(d, found) = None, selected |-> FALSE,
    reason |-> IF Reason(d, found) \in PublicReasons \cup {None}
               THEN Reason(d, found) ELSE "readiness_check_failed"] : d \in Catalogue}

(* The system prompt: lists of tools reduced to the selected ones, and      *)
(* notes given with one tool that name others as well.                      *)
Guides == {
  {"get_cellar_wines", "get_wine_details", "get_cellar_statistics"}, {"get_tasting_history"},
  {"get_user_taste_profile", "get_top_rated_wines"}, {"get_wine_recommendations_from_profile"},
  {"compare_wine_to_profile"},
  {"get_food_pairing_wines", "get_pairing_for_wine", "get_wine_and_cheese_pairings"},
  {"search_wine_knowledge", "search_wine_region_info", "search_grape_variety_info",
   "search_wine_term_definition", "search_wine_producer_info"},
  {"search_web_for_wine", "search_wine_price", "search_wine_reviews"}}
Notes == {
  [given |-> "get_cellar_wines", names |-> {"get_cellar_wines"}],
  [given |-> "get_tasting_history", names |-> {"get_tasting_history", "get_top_rated_wines"}],
  [given |-> "compare_wine_to_profile", names |-> {"compare_wine_to_profile"}]}
Prompt(tools) ==
  LET names == {d.name : d \in tools}
      categories == {d.category : d \in tools}
  IN  [names |-> ((UNION Guides) \cap names) \cup UNION {n.names : n \in {m \in Notes : m.given \in names}},
       noWeb |-> "web_search" \notin categories]

Provenance(tools, readiness) ==
  [contract |-> {d.name : d \in tools}, readiness |-> readiness]

-----------------------------------------------------------------------------
(* What the lifespan accepts: the prompts on disk, and the execution policy *)
(* of the tools, in tenths of a second.                                     *)

ExpectedPrompts == [
  intelligent_agent_system |-> [file |-> "agent.md.j2", renderer |-> "jinja2"],
  rag_only_system      |-> [file |-> "rag_system.md", renderer |-> "static"],
  rag_only_user        |-> [file |-> "rag_user.md", renderer |-> "token_replace"],
  wine_description     |-> [file |-> "wine.md", renderer |-> "python_format"],
  producer_description |-> [file |-> "producer.md", renderer |-> "python_format"],
  grape_description    |-> [file |-> "grape.md", renderer |-> "python_format"]]

(* A manifest maps names to entries, a directory its assets to their texts. *)
AcceptsManifest(manifest, directory) ==
  /\ DOMAIN manifest = DOMAIN ExpectedPrompts
  /\ \A m, n \in DOMAIN manifest : manifest[m].file = manifest[n].file => m = n
  /\ \A n \in DOMAIN manifest :
       /\ manifest[n] = ExpectedPrompts[n]
       /\ manifest[n].file \in DOMAIN directory /\ directory[manifest[n].file] # "blank"
  /\ DOMAIN directory \subseteq {manifest[n].file : n \in DOMAIN manifest}

Positive(v)    == v # None /\ v > 0
NotNegative(v) == v # None /\ v >= 0
CostClasses    == {"free", "cheap", "expensive"}

AcceptsPolicy(p) ==
  /\ Positive(p.permits) /\ Positive(p.fast) /\ Positive(p.slow)
  /\ p.attempts # None /\ p.attempts \in 1..2
  /\ NotNegative(p.delay) /\ Positive(p.remaining)
  /\ p.delay + p.remaining < p.fast /\ p.delay + p.remaining < p.slow
  /\ p.costs \subseteq CostClasses

(* What the agent's graph and its memory are given: counts, flags, phrases   *)
(* of relevance in their normal form, and a time zone.                      *)
AcceptsPhrases(phrases) ==
  /\ phrases # <<>> /\ "" \notin SeqRange(phrases)
  /\ \A i, j \in DOMAIN phrases : phrases[i] = phrases[j] => i = j
MinGraphSteps == 4
AcceptsBudget(l) == NotNegative(l.calls) /\ l.steps # None /\ l.steps >= MinGraphSteps
AcceptsFlags(l)  == None \notin SeqRange(l.flags)
AcceptsLimits(l) ==
  AcceptsBudget(l) /\ AcceptsFlags(l) /\ AcceptsPhrases(l.topics) /\ AcceptsPhrases(l.offTopics)
AcceptsSession(m) == m.enabled # None /\ m.path # "" /\ \A n \in SeqRange(m.counts) : Positive(n)
AcceptsClock(zone) == zone \notin {"", "unknown"}

DeadlineOf(d, p) == IF d.latency = "fast" THEN p.fast ELSE p.slow
SqliteContention(failure) == failure \in {"sqlite_busy", "sqlite_locked"}
MayRetry(d, p, failure, attempts, left) ==
  /\ SqliteContention(failure) /\ p.retry /\ attempts < p.attempts
  /\ d.idempotent /\ d.cost \in p.costs
  /\ left > p.delay + p.remaining

-----------------------------------------------------------------------------
Idle == [at |-> "idle", todo |-> <<>>, began |-> 0, now |-> 0, since |-> 0, verdict |-> None,
         found |-> <<>>]
Threads == Requests \cup {Startup}
Sought(t) == Head(job[t].todo)
Probing(t) == job[t].at \in {"reach", "look_into", "publish"}

(* A readiness check begins: of the portfolio to select from, or of all.    *)
Checking(tools) ==
  [at |-> IF Needs(tools) = <<>> THEN "done" ELSE "look", todo |-> Needs(tools),
   began |-> Clock, now |-> Clock, since |-> 0, verdict |-> None, found |-> <<>>]

CatalogueInit ==
  /\ app \in [config : DOMAIN Configurations, phase : {"starting"}]
  /\ history \in [1..1 -> Worlds]
  /\ cache = [p \in Prerequisites |-> None]
  /\ refreshing = [p \in Prerequisites |-> None]
  /\ job = [t \in Threads |-> Idle]
  /\ agent = None

Accepts(c) ==
  /\ AcceptsManifest(c.manifest, c.directory) /\ AcceptsPolicy(c.policy)
  /\ AcceptsSession(c.memory) /\ AcceptsClock(c.zone)
  /\ c.ttl # None /\ c.ttl >= 1 /\ Registrable(Catalogue)

(* The lifespan loads prompts, registry and policy; any of them may refuse, *)
(* and then nothing is served.  Without a model, or with limits the agent   *)
(* cannot load, the application serves without an agent.                    *)
Start ==
  /\ app.phase = "starting"
  /\ \/ ~Accepts(Config) /\ app' = [app EXCEPT !.phase = "refused"] /\ UNCHANGED job
     \/ /\ Accepts(Config) /\ ~(Config.model /\ AcceptsLimits(Config.limits))
        /\ app' = [app EXCEPT !.phase = "serving"] /\ UNCHANGED job
     \/ /\ Accepts(Config) /\ Config.model /\ AcceptsLimits(Config.limits)
        /\ app' = [app EXCEPT !.phase = "selecting"]
        /\ job' = [job EXCEPT ![Startup] = Checking(OfPortfolio(Config.extended))]
  /\ UNCHANGED <<history, cache, refreshing, agent>>

AskStatus(t) ==
  /\ app.phase = "serving" /\ t \in Requests /\ job[t].at = "idle"
  /\ job' = [job EXCEPT ![t] = Checking(Catalogue)]
  /\ UNCHANGED <<app, history, cache, refreshing, agent>>

Fresh(p, now) == cache[p] # None /\ cache[p].until + Config.ttl > now

(* The thread has evidence of one prerequisite and turns to the next, for   *)
(* which it reads the clock before it reads the cache.                      *)
Finding(j, e) ==
  [j EXCEPT !.found = [p \in DOMAIN @ \cup {Head(j.todo)} |->
                         IF p = Head(j.todo) THEN [e EXCEPT !.asked = j.now] ELSE @[p]],
            !.todo = Tail(@), !.verdict = None, !.now = Clock, !.since = 0,
            !.at = IF Tail(j.todo) = <<>> THEN "done" ELSE "look"]

Look(t) ==
  /\ job[t].at = "look"
  /\ job' = [job EXCEPT ![t] =
       IF Fresh(Sought(t), @.now) THEN Finding(@, cache[Sought(t)]) ELSE [@ EXCEPT !.at = "wait"]]
  /\ UNCHANGED <<app, history, cache, refreshing, agent>>

Unchecked(t) == FALSE   \* a mutant of the next
(* Another thread may have refreshed the entry while this one waited. *)
RefreshedMeanwhile(t) == Fresh(Sought(t), Clock)

(* Nobody else writes the entry under the lock: taking it and looking again *)
(* is one step.                                                             *)
Acquire(t) ==
  /\ job[t].at = "wait" /\ refreshing[Sought(t)] = None
  /\ \/ /\ RefreshedMeanwhile(t)
        /\ job' = [job EXCEPT ![t] = Finding([@ EXCEPT !.now = Clock], cache[Sought(t)])]
        /\ UNCHANGED refreshing
     \/ /\ ~RefreshedMeanwhile(t)
        /\ job' = [job EXCEPT ![t].at = "reach", ![t].now = Clock, ![t].since = Clock]
        /\ refreshing' = [refreshing EXCEPT ![Sought(t)] = t]
  /\ UNCHANGED <<app, history, cache, agent>>

ReachOut(t) ==
  /\ job[t].at = "reach"
  /\ \E v \in {Reach(Sought(t), Config.settings, World)} :
       job' = [job EXCEPT ![t].at = IF v = "reached" THEN "look_into" ELSE "publish",
                          ![t].verdict = v]
  /\ UNCHANGED <<app, history, cache, refreshing, agent>>

LookInside(t) ==
  /\ job[t].at = "look_into"
  /\ job' = [job EXCEPT ![t].at = "publish", ![t].verdict = LookInto(Sought(t), World)]
  /\ UNCHANGED <<app, history, cache, refreshing, agent>>

(* The entry's time to live counts from the end of the probe. *)
Publish(t) ==
  /\ job[t].at = "publish"
  /\ \E e \in {[verdict |-> job[t].verdict, since |-> job[t].since, until |-> Clock,
             asked |-> 0]} :
       /\ cache' = [cache EXCEPT ![Sought(t)] = e]
       /\ job' = [job EXCEPT ![t] = Finding(@, e)]
  /\ refreshing' = [refreshing EXCEPT ![Sought(t)] = None]
  /\ UNCHANGED <<app, history, agent>>

(* WineAgent.__init__: tools, prompt and provenance of the one selection. *)
BuildAgent ==
  /\ app.phase = "selecting" /\ job[Startup].at = "done"
  /\ \E portfolio \in {OfPortfolio(Config.extended)}, found \in {job[Startup].found} :
     \E tools \in {Selected(portfolio, found)} :
       agent' = [tools |-> {d.name : d \in tools}, prompt |-> Prompt(tools),
                 provenance |-> Provenance(tools, Readiness(portfolio, found))]
  /\ app' = [app EXCEPT !.phase = "serving"]
  /\ job' = [job EXCEPT ![Startup] = Idle]
  /\ UNCHANGED <<history, cache, refreshing>>

(* The rows leave with the response, and the thread is free again. *)
Reply(t) ==
  /\ t \in Requests /\ job[t].at = "done"
  /\ job' = [job EXCEPT ![t] = [Idle EXCEPT !.at = "replied"]]
  /\ UNCHANGED <<app, history, cache, refreshing, agent>>

(* Time passes, and the dependencies come and go. *)
Passes ==
  /\ Clock < MaxClock
  /\ \E w \in Worlds : history' = Append(history, w)
  /\ UNCHANGED <<app, cache, refreshing, job, agent>>

CatalogueNext ==
  \/ Start \/ BuildAgent \/ Passes
  \/ \E t \in Threads :
       \/ AskStatus(t) \/ Reply(t) \/ Look(t) \/ Acquire(t) \/ ReachOut(t) \/ LookInside(t)
       \/ Publish(t)

CatalogueSpec == CatalogueInit /\ [][CatalogueNext]_catalogueVars

-----------------------------------------------------------------------------
(* What a check found was so.  The evidence is no older than its time to    *)
(* live when the thread asked for it, and some world during its probe gave  *)
(* that verdict, unless the world changed under the probe                   *)
(* (_get_prerequisite_readiness).                                           *)
EvidenceIsTrue ==
  \A t \in Threads : \A p \in DOMAIN job[t].found :
    LET e == job[t].found[p]
        During == {history[k] : k \in e.since..e.until}
    IN  /\ e.until + Config.ttl > e.asked /\ e.asked >= job[t].began
        /\ \/ \E w \in During : e.verdict = Verdict(p, Config.settings, w)
           \/ e.verdict = "readiness_check_failed" /\ \E v, w \in During : v # w

(* However many requests find an entry expired, one of them probes: nobody  *)
(* probes a prerequisite beside another thread, or while an entry that was  *)
(* fresh when the probe began is in the cache.                              *)
ProbesAreSpaced ==
  \A t \in Threads : Probing(t) =>
    /\ refreshing[Sought(t)] = t
    /\ ~Fresh(Sought(t), job[t].now)
    /\ \A u \in Threads \ {t} : Probing(u) => Sought(u) # Sought(t)

(* The agent is one contract: the model is bound to exactly the tools whose *)
(* readiness its provenance records as available, the prompt names those    *)
(* and no other, though a note of one tool may name another, and the prompt *)
(* denies web search just when no web tool is bound.                        *)
AgentIsOneContract ==
  agent # None =>
    /\ agent.tools = {r.name : r \in {q \in agent.provenance.readiness : q.reason = None}}
    /\ agent.tools = agent.provenance.contract
    /\ agent.tools = agent.prompt.names
    /\ agent.prompt.noWeb <=> {d.name : d \in WebTools} \cap agent.tools = {}

(* A policy the application serves with leaves room for the retry it allows *)
(* before either deadline, as ToolExecution assumes, and repeats no tool    *)
(* that costs more than the policy says; a served prompt is on disk, and    *)
(* memory keeps at least a turn for at least a day.  An agent is only built *)
(* with limits that leave its graph the steps of one answer and with        *)
(* phrases that do not match every question.                                *)
ServedPolicy(p) ==
  /\ p.permits >= 1 /\ p.attempts \in 1..2 /\ p.delay >= 0 /\ p.remaining > 0
  /\ \A d \in Catalogue :
       /\ p.delay + p.remaining < DeadlineOf(d, p)
       /\ d.cost \notin p.costs => ~MayRetry(d, p, "sqlite_busy", 1, DeadlineOf(d, p))
Prompts == {ExpectedPrompts[n].file : n \in DOMAIN ExpectedPrompts}
Sound ==
  {i \in DOMAIN Configurations :
     /\ Configurations[i].policy.fast # None /\ ServedPolicy(Configurations[i].policy)
     /\ None \notin SeqRange(Configurations[i].memory.counts)
     /\ \A n \in SeqRange(Configurations[i].memory.counts) : n >= 1
     /\ Prompts = {f \in DOMAIN Configurations[i].directory : Configurations[i].directory[f] # "blank"}}
ServedIsConfigured ==
  /\ app.phase \in {"selecting", "serving"} => app.config \in Sound
  /\ agent # None => /\ Config.limits.steps # None /\ Config.limits.steps > 3
                     /\ "" \notin SeqRange(Config.limits.topics \o Config.limits.offTopics)

(* /api/tools gives a public reason exactly for what is not available, and  *)
(* in a world that never changed it shows as available what the agent of    *)
(* the whole portfolio is bound to.                                         *)
RowsTellReadiness ==
  \A t \in Requests : job[t].at = "done" =>
    \E rows \in {Rows(job[t].found)} :
      /\ \A r \in rows : IF r.available THEN r.reason = None ELSE r.reason \in PublicReasons
      /\ agent # None /\ Config.extended /\ (\A k \in 1..Clock : history[k] = history[1]) =>
           {r.name : r \in {q \in rows : q.available}} = agent.tools

(* The catalogue's readiness is told truly, probed sparingly and used once. *)
CatalogueInvariant ==
  EvidenceIsTrue /\ ProbesAreSpaced /\ AgentIsOneContract /\ ServedIsConfigured /\ RowsTellReadiness
=============================================================================
