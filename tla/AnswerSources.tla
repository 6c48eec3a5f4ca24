--------------------------- MODULE AnswerSources ---------------------------
(***************************************************************************)
(* What an answer may cite.  The tools number what they found, each from   *)
(* one again (build_context_from_chunks, _format_search_results); the model*)
(* repeats these numbers in its text and lists in a closing "Sources:" note*)
(* what it used; the route publishes the listed evidence, in one numbering *)
(* for the whole answer (_finalize_intelligent_sources).  The RAG-only     *)
(* answer is filtered by its own numbers (_filter_cited_sources).          *)
(*                                                                         *)
(* A text is a sequence of parts.  Of an answer: text, a marker [n, m],    *)
(* the head of a Sources note, a code fence, an entry (a line naming a     *)
(* document, a label or a URL).  Of a tool's output: a document header     *)
(* with its number, a header without document, a numbered web result.      *)
(* Titles of web results and relevance scores are left out.                *)
(***************************************************************************)
EXTENDS Integers, Sequences, FiniteSets, SequencesExt

CONSTANTS
  KnownExtensions,  \* of a file name that _source_name_key drops
  NoPage            \* a document without a positive page

ASSUME NoPage \notin Nat

-----------------------------------------------------------------------------
(* A retrieved chunk: its file, page, and whether it has text.  The chunks  *)
(* with text get a header each; the numbers count all of them.              *)
Context(chunks) ==
  SelectSeq([i \in DOMAIN chunks |->
               [kind |-> IF chunks[i].text THEN "header" ELSE "skipped", number |-> i,
                file |-> chunks[i].file, page |-> chunks[i].page]],
            LAMBDA line : line.kind = "header")
SearchResults(urls) == [i \in DOMAIN urls |-> [kind |-> "result", number |-> i, url |-> urls[i]]]

(* Documents are compared without a known extension. *)
NameKey(file) == IF file.ext \in KnownExtensions THEN <<file.stem>> ELSE <<file.stem, file.ext>>
PageOf(line)  == IF line.page \in Nat \ {0} THEN line.page ELSE NoPage
Target(line)  == [key |-> NameKey(line.file), page |-> PageOf(line)]

-----------------------------------------------------------------------------
(* The turn: from the last human message on. *)
CurrentTurn(messages) ==
  LET humans == {i \in DOMAIN messages : messages[i].from = "human"}
  IN  IF humans = {} THEN messages
      ELSE SubSeq(messages, CHOOSE i \in humans : \A j \in humans : j <= i, Len(messages))

Successful(messages) == SelectSeq(messages, LAMBDA m : m.from = "tool" /\ m.ok)

WEB_SEARCH_TOOLS == {"search_web_for_wine", "search_wine_price", "search_wine_reviews"}
RAG_SOURCE_TOOLS ==
  {"search_wine_knowledge", "search_wine_region_info", "search_grape_variety_info",
   "search_wine_term_definition", "search_wine_producer_info"}
PERSONAL_SOURCE_TOOLS == [
  cellar |-> {"get_cellar_wines", "get_wine_details", "get_cellar_statistics",
              "get_wine_recommendations_from_profile", "get_pairing_for_wine",
              "get_food_pairing_wines", "get_wine_and_cheese_pairings"},
  tasting_history |-> {"get_user_taste_profile", "get_tasting_history", "get_top_rated_wines",
                       "get_wine_recommendations_from_profile", "compare_wine_to_profile"}]
Labels == <<"cellar", "tasting_history", "user_provided">>

(* The answer up to its note and what the note selects: the last head of a  *)
(* note outside a code fence opens it, and all that follows belongs to it.  *)
Notes(answer) ==
  {i \in DOMAIN answer :
     answer[i].kind = "note"
       /\ Cardinality({j \in 1..(i - 1) : answer[j].kind = "fence"}) % 2 = 0}
NoteAt(answer) == IF Notes(answer) = {} THEN Len(answer) + 1
                  ELSE CHOOSE i \in Notes(answer) : \A j \in Notes(answer) : j <= i
Body(answer)    == SubSeq(answer, 1, NoteAt(answer) - 1)
Entries(answer) == {answer[i] : i \in {j \in DOMAIN answer : j > NoteAt(answer)
                                                               /\ answer[j].kind = "entry"}}
SelectedKeys(answer)   == {NameKey(e.file) : e \in {d \in Entries(answer) : d.what = "document"}}
SelectedLabels(answer) == {e.label : e \in {d \in Entries(answer) : d.what = "label"}}
SelectedUrls(answer)   == {e.url : e \in {d \in Entries(answer) : d.what = "url"}}

(* What a number of a tool's output stands for: the document of a header,   *)
(* else something that is no document.                                      *)
Numbered(m) ==
  LET relevant == SelectSeq(m.lines, LAMBDA l :
                    \/ l.kind = "result" /\ m.tool \in WEB_SEARCH_TOOLS
                    \/ l.kind \in {"header", "unknown"} /\ m.tool \in RAG_SOURCE_TOOLS)
  IN  {[number |-> relevant[i].number,
        target |-> IF relevant[i].kind = "header" THEN Target(relevant[i])
                   ELSE [id |-> m.id, kind |-> relevant[i].kind]] : i \in DOMAIN relevant}
FirstMeaning(tools, n) ==                               \* a mutant of NumberTargets
  LET known == SelectSeq(tools, LAMBDA m : \E d \in Numbered(m) : d.number = n)
  IN  IF known = <<>> THEN {}
      ELSE {(CHOOSE d \in Numbered(known[1]) : d.number = n).target}
NumberTargets(tools, n) ==
  UNION {{d.target : d \in {e \in Numbered(tools[i]) : e.number = n}} : i \in DOMAIN tools}

(* The selected documents among the headers, each once, as they come. *)
HeadersOf(m) == IF m.tool \in RAG_SOURCE_TOOLS
                THEN SelectSeq(m.lines, LAMBDA l : l.kind = "header") ELSE <<>>
DocumentSources(answer, tools) ==
  LET headers == FlattenSeq([i \in DOMAIN tools |-> HeadersOf(tools[i])])
      wanted  == SelectSeq([i \in DOMAIN headers |-> Target(headers[i])],
                           LAMBDA t : t.key \in SelectedKeys(answer))
      first   == SelectSeq([i \in DOMAIN wanted |-> [at |-> i, target |-> wanted[i]]],
                           LAMBDA w : ~\E j \in 1..(w.at - 1) : wanted[j] = w.target)
  IN  [i \in DOMAIN first |-> [kind |-> "document", target |-> first[i].target]]

(* A personal tool's JSON: a list or an object, its keys with a value that  *)
(* is not empty ("filled"), those without ("blank").                        *)
Status == {"message", "status", "success", "query"}
HasPersonalSourceData(m, kind) ==
  LET p == m.payload
      has(key)   == key \in p.filled
      named(key) == key \in p.filled \cup p.blank
  IN  CASE p.shape = "text" -> FALSE
        [] p.shape = "list" ->
             IF kind = "tasting_history" /\ m.tool = "get_wine_recommendations_from_profile"
             THEN has("predicted_rating") ELSE p.filled # {}
        [] p.shape = "object" ->
             /\ ~has("error") /\ ~p.failed
             /\ CASE m.tool = "get_food_pairing_wines"       -> has("cellar_matches")
                  [] m.tool = "get_wine_and_cheese_pairings" -> has("cellar_suggestions")
                  [] kind = "tasting_history" /\ m.tool = "compare_wine_to_profile"
                                                             -> has("predicted_rating")
                  [] OTHER -> IF named("items") THEN has("items")
                              ELSE IF named("total_wines_rated") THEN has("total_wines_rated")
                              ELSE p.filled \ Status # {}

Available(kind, turn) ==
  IF kind = "user_provided" THEN \E i \in DOMAIN turn : turn[i].from = "human"
  ELSE \E i \in DOMAIN Successful(turn) :
         LET m == Successful(turn)[i]
         IN  m.tool \in PERSONAL_SOURCE_TOOLS[kind] /\ HasPersonalSourceData(m, kind)
PersonalSources(answer, turn) ==
  LET given == SelectSeq(Labels, LAMBDA kind : kind \in SelectedLabels(answer) /\ Available(kind, turn))
  IN  [i \in DOMAIN given |-> [kind |-> given[i]]]

(* The selected results of the web searches, each URL once. *)
WebSources(answer, tools) ==
  LET found == FlattenSeq([i \in DOMAIN tools |->
                 IF tools[i].tool \in WEB_SEARCH_TOOLS
                 THEN SelectSeq(tools[i].lines, LAMBDA l : l.kind = "result") ELSE <<>>])
      urls  == [i \in DOMAIN found |-> found[i].url]
      once  == SelectSeq([i \in DOMAIN urls |-> [at |-> i, url |-> urls[i]]],
                         LAMBDA u : ~\E j \in 1..(u.at - 1) : urls[j] = u.url)
      kept  == SelectSeq(once, LAMBDA u : u.url \in SelectedUrls(answer))
  IN  [i \in DOMAIN kept |-> kept[i].url]

(* A number of a marker is rewritten when it means one thing in the turn    *)
(* and that is a published document; a marker left without numbers goes.    *)
ResolvedMarker(numbers, tools, sources) ==
  LET places(n) == {j \in DOMAIN sources : sources[j].kind = "document"
                                             /\ NumberTargets(tools, n) = {sources[j].target}}
      known     == SelectSeq(numbers, LAMBDA n : places(n) # {})
      mapped    == [i \in DOMAIN known |-> [from |-> known[i], to |-> CHOOSE j \in places(known[i]) : TRUE]]
  IN  mapped

FinalizeIntelligentSources(answer, messages) ==
  LET turn    == CurrentTurn(messages)
      tools   == Successful(turn)
      sources == DocumentSources(answer, tools) \o PersonalSources(answer, turn)
      body    == Body(answer)
  IN  [sources |-> sources,
       web     |-> WebSources(answer, tools),
       body    |-> [i \in DOMAIN body |->
                      IF body[i].kind = "marker"
                      THEN [body[i] EXCEPT !.numbers = ResolvedMarker(body[i].numbers, tools, sources)]
                      ELSE body[i]]]

-----------------------------------------------------------------------------
(* RAG-only: the context and the sources are built of the same chunks, and  *)
(* an answer with numbers keeps the sources they count; without a usable    *)
(* number it keeps all.                                                     *)
CitedNumbers(answer) ==
  UNION {ToSet(answer[i].numbers) : i \in {j \in DOMAIN answer : answer[j].kind = "marker"}}
FilterCitedSources(answer, sources) ==
  LET cited == SelectSeq([i \in DOMAIN sources |-> i], LAMBDA i : i \in CitedNumbers(answer))
  IN  IF cited = <<>> THEN sources ELSE [i \in DOMAIN cited |-> sources[cited[i]]]
SourceFromDocument(chunk) == [name |-> chunk.file.stem, page |-> PageOf(chunk)]
RagSources(answer, chunks) ==
  FilterCitedSources(answer, [i \in DOMAIN chunks |-> SourceFromDocument(chunks[i])])

=============================================================================
