--------------------------- MODULE KnowledgeSearch ---------------------------
(***************************************************************************)
(* What one retrieval call computes: the two channels and their union, the *)
(* boost by metadata, reranking, confidence, the corrected pass, parent    *)
(* expansion, deduplication, the web fallback, and what the knowledge tool *)
(* answers.  Retrieval leaves these choices open; SearchFits says that it  *)
(* allows what is computed here.                                           *)
(*                                                                         *)
(* A world gives each chunk its scores for one query.  Similarities are in *)
(* tenths; texts are numbers, alike when they are neighbours, so that      *)
(* likeness is not transitive.  The blocking and the asynchronous pipeline *)
(* compute the same; a reranker that fails to load is none.                *)
(***************************************************************************)
EXTENDS Retrieval, QueryPlans, ContextCompression

CONSTANTS
  Size,      \* bound: chunks of the collection, whose ids are in the order of the keyword index
  Worlds,    \* functions from ids to the attributes of chunks
  Seconds,   \* worlds of a correction's query
  Settings   \* configurations and calls

Ids == 1..Size
OnIds == INSTANCE Retrieval WITH Chunks <- Ids

SimilarityThreshold == 3
Unscored == 5                   \* similarity of a chunk only the keywords found

ASSUME SearchAssumption == Size \in 1..4      \* ranks for which Share is exact

-----------------------------------------------------------------------------
(* The stack a configuration yields: keyword search only over an index that *)
(* loads, is not empty and, if validated, matches the collection.           *)
Hybrid(c)  == c.hybrid /\ c.keywords \in {"ready"} \cup (IF c.validate THEN {} ELSE {"unsynchronized"})
Reranks(c) == c.reranker = "loaded"

(* What is asked for: a tool's argument is clamped, and zero or nothing is   *)
(* the configured number.                                                   *)
FocusedTools == {"search_wine_region_info", "search_grape_variety_info", "search_wine_term_definition",
                 "search_wine_producer_info"}
OverrideUnclamped(c) == c.argument                        \* a mutant of the next
Override(c)  == CASE c.argument = Null                    -> Null
                  [] c.tool \in FocusedTools              -> 5
                  [] OTHER                                -> Min({Max({c.argument, 1}), 10})
NResults(c)      == IF Override(c) \in {Null, 0} THEN c.n ELSE Override(c)
RetrieveCount(c) == IF Reranks(c) THEN 2 * NResults(c) ELSE NResults(c)
TopK(c)          == IF Override(c) # Null THEN NResults(c) ELSE c.topK

-----------------------------------------------------------------------------
(* The channels, best first. *)
FirstOf(s, n) == SubSeq(s, 1, Min({n, Len(s)}))
Descending(s, key) ==
  LET order == SetToSortSeq(DOMAIN s, LAMBDA i, j : \/ key[s[i]] > key[s[j]]
                                                    \/ key[s[i]] = key[s[j]] /\ i < j)
  IN  [n \in DOMAIN s |-> s[order[n]]]
All == [i \in Ids |-> i]

Dense(w, n) ==
  SelectSeq(FirstOf(Descending(All, [i \in Ids |-> w[i].similarity]), n),
            LAMBDA i : w[i].similarity >= SimilarityThreshold)
Sparse(w, k) ==
  SelectSeq(FirstOf(Descending(All, [i \in Ids |-> w[i].score]), k), LAMBDA i : w[i].score > 0)

BalancedUnion(dense, sparse) ==
  Distinct(FlattenSeq([i \in 1..Max({Len(dense), Len(sparse)}) |->
                         SubSeq(dense, i, Min({i, Len(dense)}))
                         \o SubSeq(sparse, i, Min({i, Len(sparse)}))]))

RankIn(s) == [i \in Ids |-> SelectInSeq(s, LAMBDA j : j = i)]      \* 0 when absent
Share(rank) == IF rank = 0 THEN 0 ELSE (61 * 62 * 63 * 64) \div (60 + rank)
RRF(dense, sparse) ==
  \* the best reciprocal rank first; ties by the rank in each channel, then by id
  LET key(d, s, i) == <<-(Share(d[i]) + Share(s[i])), IF d[i] = 0 THEN Size + 1 ELSE d[i],
                        IF s[i] = 0 THEN Size + 1 ELSE s[i], i>>
      less(a, b) == \E n \in 1..4 : a[n] < b[n] /\ \A m \in 1..n - 1 : a[m] = b[m]
      keys == {key(RankIn(dense), RankIn(sparse), i) : i \in ToSet(dense) \cup ToSet(sparse)}
      order == SetToSortSeq(keys, less)
  IN  [n \in DOMAIN order |-> order[n][4]]

Retrieved(w, c) ==
  CASE ~Hybrid(c) -> Dense(w, RetrieveCount(c))
    [] Reranks(c) -> FirstOf(BalancedUnion(Dense(w, c.pool), Sparse(w, c.pool)), c.limit)
    [] OTHER      -> FirstOf(RRF(Dense(w, c.pool), Sparse(w, c.pool)), NResults(c))

-----------------------------------------------------------------------------
(* One pass: what was retrieved, its order after the boost, what reranking  *)
(* leaves of it and how confident that is.                                  *)
Known(w, c, i) == ~Hybrid(c) \/ i \in ToSet(Dense(w, c.pool))
Boosted(w, c, docs) ==
  IF ~c.boost \/ ~c.filters THEN docs
  ELSE Descending(docs, [i \in Ids |-> Min({10, w[i].matches +
                           (IF Known(w, c, i) THEN w[i].similarity ELSE Unscored)})])

RerankedFirst(w, c, docs) ==                              \* a mutant of the next
  LET relevant == SelectSeq(FirstOf(docs, TopK(c)),
                            LAMBDA i : c.threshold = Null \/ w[i].logit >= c.threshold)
  IN  Descending(relevant, [i \in Ids |-> w[i].logit])
Reranked(w, c, docs) ==
  LET relevant == SelectSeq(docs, LAMBDA i : c.threshold = Null \/ w[i].logit >= c.threshold)
  IN  FirstOf(Descending(relevant, [i \in Ids |-> w[i].logit]), TopK(c))

Low(w, c, docs) == docs = <<>> \/ Max({w[i].logit : i \in ToSet(docs)}) < c.cut

PassOf(w, c, name, raw, docs) ==
  [name |-> name, raw |-> raw, docs |-> docs, confidence |-> IF Reranks(c) THEN name ELSE Null,
   low |-> Reranks(c) /\ Low(w, c, docs)]
Pass(w, c, name) ==
  LET raw == Retrieved(w, c)
      docs == IF Reranks(c) THEN Reranked(w, c, Boosted(w, c, raw)) ELSE Boosted(w, c, raw)
  IN  PassOf(w, c, name, raw, docs)

(* The corrected documents replace the first when one of them is new. *)
SelectCorrection(first, second) ==
  IF second.docs = <<>> \/ ToSet(second.docs) \subseteq ToSet(first.docs) THEN first ELSE second

-----------------------------------------------------------------------------
(* The context: parent texts, equal contents, like texts, the web. *)
Text(w, c, i) == IF c.expand /\ w[i].parent # Null THEN w[i].parent ELSE w[i].text
Alike(a, b)   == a - b \in -1..1

DistinctContents(w, docs) ==
  LET fresh(n) == w[docs[n]].hash = Null \/ \A m \in 1..n - 1 : w[docs[m]].hash # w[docs[n]].hash
      kept == SelectSeq([n \in DOMAIN docs |-> n], fresh)
  IN  [n \in DOMAIN kept |-> docs[kept[n]]]
DistinctTexts(w, c, docs) ==
  LET kept[n \in 0..Len(docs)] ==
        IF n = 0 THEN <<>>
        ELSE IF \E i \in ToSet(kept[n - 1]) : Alike(Text(w, c, docs[n]), Text(w, c, i))
             THEN kept[n - 1] ELSE Append(kept[n - 1], docs[n])
  IN  kept[Len(docs)]
Deduplicated(w, c, docs) ==
  IF c.dedup THEN DistinctTexts(w, c, DistinctContents(w, docs)) ELSE docs

WithWeb(c, pass, docs) ==
  IF pass.confidence # Null /\ c.fallback /\ pass.low /\ c.found THEN Append(docs, Web) ELSE docs

(* What the tool says of it. *)
Unavailable(c) == ~c.retriever
ToolAnswer(c, context) ==
  CASE Unavailable(c)  -> "unavailable"
    [] context = <<>>  -> "nothing"
    [] OTHER           -> "context"

-----------------------------------------------------------------------------
(* A call, and what must hold of it. *)
Execution(w, v, c) ==
  [first |-> Pass(w, c, "first"),
   second |-> IF c.correct THEN Pass(v, c, "corrected") ELSE Null]
Chosen(e) == IF e.second = Null \/ e.first.docs = <<>> THEN e.first ELSE SelectCorrection(e.first, e.second)
ScoresOf(w, v, pass) == IF pass.name = "corrected" THEN v ELSE w

AsDraft(pass, status) ==
  [NewDraft EXCEPT !.raw = ToSet(pass.raw), !.docs = ToSet(pass.docs), !.status = status,
                   !.confidence = pass.confidence, !.low = pass.low]
FirstDrafts == {d : d \in OnIds!Ranked(NewDraft, "first")}

(* Every result is one the model of the retrieval calls allows: the first    *)
(* pass, what the correction makes of it, and the context built from it.     *)
SearchFits(e, chosen, context) ==
  LET first == AsDraft(e.first, "disabled")
      final == [AsDraft(chosen, "disabled") EXCEPT
                  !.selected = chosen.name]
  IN  /\ first \in FirstDrafts
      /\ chosen # e.first => final \in OnIds!Corrected(first)
      /\ [final EXCEPT !.docs = ToSet(context), !.context = ToSet(context)] \in OnIds!Built(final)

(* Each channel is heard: its first k chunks are among the first 2k of what  *)
(* is reranked; and without a reranker no chunk is placed before one that    *)
(* both channels place before it.                                            *)
ChannelsHeard(w, c) ==
  \E dense \in {Dense(w, c.pool)}, sparse \in {Sparse(w, c.pool)} :
  \E union \in {BalancedUnion(dense, sparse)}, rrf \in {RankIn(RRF(dense, sparse))} :
    /\ \A k \in Ids : ToSet(FirstOf(dense, k)) \cup ToSet(FirstOf(sparse, k))
                        \subseteq ToSet(FirstOf(union, 2 * k))
    /\ \A i, j \in ToSet(union) :
         RankIn(dense)[i] \in 1..RankIn(dense)[j] /\ RankIn(sparse)[i] \in 1..RankIn(sparse)[j]
           => rrf[i] <= rrf[j]

(* No candidate is lost to a worse one, and none below the threshold is kept.*)
BestKept(w, c, pass) ==
  Reranks(c) =>
    \A i \in ToSet(pass.docs) :
      /\ c.threshold # Null => w[i].logit >= c.threshold
      /\ \A j \in ToSet(pass.raw) \ ToSet(pass.docs) : w[j].logit <= w[i].logit

(* A call never yields more chunks of the collection than it may ask for,    *)
(* keeps the best one, and leaves out only what is like a kept one or has    *)
(* the content of another.                                                   *)
Allowed(c) == CASE c.argument = Null                    -> Max({c.n, c.topK})
                [] c.tool \in FocusedTools              -> 5
                [] OTHER                                -> Max({c.argument, 1})
Books(context) == SelectSeq(context, LAMBDA i : i # Web)
ContextIsSparing(w, c, pass, context) ==
  /\ Len(Books(context)) <= Allowed(c)
  /\ pass.docs # <<>> => context[1] = pass.docs[1]
  /\ c.dedup => \A i, j \in ToSet(Books(context)) : Alike(Text(w, c, i), Text(w, c, j)) => i = j
  /\ \A i \in ToSet(pass.docs) \ ToSet(context) :
       \/ \E j \in ToSet(Books(context)) : Alike(Text(w, c, i), Text(w, c, j))
       \/ w[i].hash # Null /\ \E j \in ToSet(pass.docs) \ {i} : w[i].hash = w[j].hash

(* With a threshold not below the cut of confidence, the web only answers    *)
(* when no chunk survived: the two are never mixed.                          *)
BooksOrWeb(c, context) ==
  c.threshold # Null /\ c.threshold >= c.cut /\ Web \in ToSet(context) => Books(context) = <<>>

(* All of it, for one call; the tool says it found nothing only when no      *)
(* chunk survived.                                                           *)
CallHolds(w, v, c) ==
  \E e \in {Execution(w, v, c)} : \E chosen \in {Chosen(e)} :
  \E x \in {ScoresOf(w, v, chosen)} :
  \E context \in {WithWeb(c, chosen, Deduplicated(x, c, chosen.docs))} :
    /\ SearchFits(e, chosen, context) /\ BestKept(x, c, chosen)
    /\ ContextIsSparing(x, c, chosen, context) /\ BooksOrWeb(c, context)
    /\ ToolAnswer(c, context) = "nothing" => c.retriever /\ chosen.docs = <<>>

SearchesHold ==
  /\ \A c \in Settings, w \in Worlds : ChannelsHeard(w, c)
  /\ \A c \in Settings, w \in Worlds :
       \A v \in (IF c.correct THEN Seconds ELSE {w}) : CallHolds(w, v, c)

(* Once a call has ended: every plan, search and compressed context is as    *)
(* stated here and in QueryPlans and ContextCompression.                     *)
SearchesWellRanked ==
  (\E q \in Queries : At(q, "ended")) => PlansHold /\ SearchesHold /\ CompressionHolds
=============================================================================
