----------------------------- MODULE WebSearch -----------------------------
(***************************************************************************)
(* The web search engine and its cache (WineWebSearchEngine,               *)
(* WebSearchCache) behind the three search tools: how a tool's arguments   *)
(* become a search, under which key its results are kept and for how long, *)
(* which are dropped, and what is evicted.                                 *)
(*                                                                         *)
(* A query is a sequence of words, a host the sequence of its labels.  A   *)
(* request carries the time since the one before it and what the provider  *)
(* would answer now, which is Null when it raises.                         *)
(***************************************************************************)
EXTENDS Integers, Sequences, SequencesExt

CONSTANTS
  StopWords,    \* words of a query that do not count
  Reserved,     \* last labels of hosts that are not public
  Default,      \* max_results of the configuration
  MaxEntries,   \* cache.max_entries
  Enabled,      \* cache.enabled
  Invocations,  \* of the tools
  Searches,     \* bound: requests of a run
  None

ASSUME SearchAssumption == {Default, MaxEntries} \subseteq Nat \ {0} /\ Enabled \in BOOLEAN /\ Searches \in Nat

-----------------------------------------------------------------------------
(* The tools. *)
CACHE_TTL_HOURS == [price |-> 24, review |-> 168, producer |-> 720, general |-> 12]
Suffix == [price    |-> <<"wine", "price", "buy", "retail">>,
           review   |-> <<"wine", "review", "score", "rating">>,
           producer |-> <<"winery", "winemaker", "producer">>,
           general  |-> <<>>]
TypeOf(r) == CASE r.tool = "search_wine_price"   -> "price"
               [] r.tool = "search_wine_reviews" -> "review"
               [] OTHER -> r.type
Clamped(n) == IF n < 1 THEN 1 ELSE IF n > 10 THEN 10 ELSE n
LimitOf(r) == IF r.tool = "search_web_for_wine" THEN Clamped(r.limit) ELSE Default
QueryOf(r) == r.words \o Suffix[TypeOf(r)]

-----------------------------------------------------------------------------
(* Domains. *)
Public(host)  == Len(host) >= 2 /\ host[Len(host)] \notin Reserved
Misplaced(r)  == r.domain # None /\ ~Public(r.domain)          \* normalize_domain raises
UrlMatchesDomain(url, domain) ==
  url.http /\ ~url.user /\ Public(url.host) /\ IsSuffix(domain, url.host)

(* The words that count, in any order, and what else affects the results.   *)
NormalizeQuery(query) ==
  [w \in ToSet(query) \ StopWords |-> Cardinality({i \in DOMAIN query : query[i] = w})]
QueryHashWithoutDomain(r) == <<NormalizeQuery(QueryOf(r)), TypeOf(r), LimitOf(r)>>   \* a mutant of the next
QueryHash(r) == <<NormalizeQuery(QueryOf(r)), TypeOf(r), LimitOf(r), r.domain>>

-----------------------------------------------------------------------------
(* The cache: per key its results, their expiry and their last access. *)
Held(cache, key) == {e \in cache : e.key = key}
Cached(cache, key, now) == {e \in Held(cache, key) : e.expires > now}

(* Entries that expired stay until they are the least recently used.        *)
EvictLru(cache) ==
  LET Older(e) == {d \in cache : d.accessed < e.accessed}
  IN  {e \in cache : Cardinality(Older(e)) >= Cardinality(cache) - MaxEntries}
Kept(cache, key, results, now, ttl) ==
  EvictLru((cache \ Held(cache, key))
             \cup {[key |-> key, results |-> results, expires |-> now + ttl, accessed |-> now]})
Touched(cache, key, now) ==
  {IF e.key = key THEN [e EXCEPT !.accessed = now] ELSE e : e \in cache}

(* What the provider answers, inside the domain, each URL once.             *)
Unique(results, domain) ==
  LET inside == SelectSeq(results, LAMBDA url : domain = None \/ UrlMatchesDomain(url, domain))
      first  == SelectSeq([i \in DOMAIN inside |-> [at |-> i, url |-> inside[i]]],
                          LAMBDA u : ~\E j \in 1..(u.at - 1) : inside[j] = u.url)
  IN  [i \in DOMAIN first |-> first[i].url]

(* One search: from the cache, or asked and kept unless it brought nothing. *)
Search(cache, r, now) ==
  LET key  == QueryHash(r)
      hits == IF Enabled THEN Cached(cache, key, now) ELSE {}
      new  == Unique(r.provider, r.domain)
  IN  IF Misplaced(r) THEN [outcome |-> "rejected", results |-> <<>>, cache |-> cache]
      ELSE IF hits # {}
           THEN [outcome |-> "cached", results |-> (CHOOSE e \in hits : TRUE).results,
                 cache |-> Touched(cache, key, now)]
      ELSE IF r.provider = None THEN [outcome |-> "failed", results |-> <<>>, cache |-> cache]
      ELSE [outcome |-> "asked", results |-> new,
            cache |-> IF Enabled /\ new # <<>>
                      THEN Kept(cache, key, new, now, CACHE_TTL_HOURS[TypeOf(r)]) ELSE cache]

(* All runs of n requests on a new cache, with what each got. *)
Then(run, r) ==
  LET now == run.now + r.wait
  IN  {[cache |-> s.cache, now |-> now,
        log |-> Append(run.log, [request |-> r, at |-> now, outcome |-> s.outcome, results |-> s.results])] :
         s \in {Search(run.cache, r, now)}}
Runs[n \in 0..Searches] ==
  IF n = 0 THEN {[cache |-> {}, now |-> 0, log |-> <<>>]}
  ELSE UNION {UNION {Then(run, r) : r \in Invocations} : run \in Runs[n - 1]}

-----------------------------------------------------------------------------
(* A result comes from inside the domain the user named, each page once,    *)
(* and is what the provider gave to the same search within the time results *)
(* of its kind stay; failures and empty results are never kept.  A search   *)
(* repeated in that time asks nobody, unless as many other searches as the  *)
(* cache holds were kept or found since it was last used.                   *)
Ours(log, i) == log[i].outcome \in {"asked", "cached"}
Same(log, i, j) == QueryOf(log[i].request) = QueryOf(log[j].request)
                     /\ \A f \in {"tool", "type", "limit", "domain"} : log[i].request[f] = log[j].request[f]
Inside(log, i) ==
  /\ IsInjective(log[i].results)
  /\ log[i].request.domain # None =>
       \A url \in ToSet(log[i].results) : UrlMatchesDomain(url, log[i].request.domain)
Fresh(log, i) ==
  log[i].outcome = "cached" =>
    \E j \in 1..(i - 1) :
      /\ log[j].outcome = "asked" /\ log[j].results = log[i].results /\ log[i].results # <<>>
      /\ log[i].at < log[j].at + CACHE_TTL_HOURS[TypeOf(log[i].request)]
      /\ NormalizeQuery(QueryOf(log[i].request)) = NormalizeQuery(QueryOf(log[j].request))
      /\ TypeOf(log[i].request) = TypeOf(log[j].request) /\ LimitOf(log[i].request) = LimitOf(log[j].request)
Spared(log, i) ==
  \A j \in 1..(i - 1) :
    LET others == {k \in (j + 1)..(i - 1) : Ours(log, k)}
    IN  /\ Enabled /\ Same(log, i, j) /\ ~Misplaced(log[i].request)
        /\ log[j].outcome = "asked" /\ log[j].results # <<>>
        /\ log[i].at < log[j].at + CACHE_TTL_HOURS[TypeOf(log[i].request)]
        /\ Cardinality(others) < MaxEntries
        => log[i].outcome = "cached"
RunsKeepTheirWord ==
  \A run \in Runs[Searches] :
    /\ Cardinality(run.cache) <= MaxEntries
    /\ \A i \in DOMAIN run.log : Inside(run.log, i) /\ Fresh(run.log, i) /\ Spared(run.log, i)
=============================================================================
