---------------------------- MODULE MCChatStream ----------------------------
(* Small instances of ChatStream, ChatRoutes, AnswerSources and WebSearch. *)
EXTENDS ChatRoutes

CONSTANTS c1, c2, c3, t1, t2, t3
MCCalls     == {c1, c2, c3}
MCThreads   == {t1, t2, t3}
MCOwned     == {t1, t2}
MCCompleted == {t2, t3}

(* Two documents of one key, one with page 0, one whose extension is kept. *)
Barolo  == [stem |-> "barolo", ext |-> "pdf"]
Barolo2 == [stem |-> "barolo", ext |-> "epub"]
Rioja   == [stem |-> "rioja", ext |-> "pdf"]
Volume  == [stem |-> "burgundy vol", ext |-> "2"]
Chunk(file, page, text) == [file |-> file, page |-> page, text |-> text]
MCContexts == {
  <<Chunk(Barolo, 1, TRUE), Chunk(Volume, 3, FALSE), Chunk(Rioja, 0, TRUE)>>,
  <<Chunk(Rioja, 0, TRUE), Chunk(Barolo2, 1, TRUE), Chunk(Barolo, 1, TRUE), Chunk(Volume, 2, TRUE)>>}

Message(c, name, ok, lines, payload) ==
  [from |-> "tool", tool |-> name, id |-> c, ok |-> ok, lines |-> lines, payload |-> payload]
Unlabelled == [i \in 1..2 |-> [kind |-> "unknown", number |-> i]]
Payload(shape, filled, blank, failed) ==
  [shape |-> shape, filled |-> filled, blank |-> blank, failed |-> failed]
MCOutputs == (
  c1 :> {Message(c1, "search_wine_knowledge", ok, Context(chunks), Null) :
           ok \in BOOLEAN, chunks \in MCContexts} @@
  c2 :> {Message(c2, "search_wine_region_info", TRUE, lines, Null) :
           lines \in {Unlabelled, Context(<<Chunk(Barolo2, 1, TRUE), Chunk(Volume, 2, TRUE)>>)}}
        \cup {Message(c2, "search_wine_reviews", TRUE, SearchResults(<<"u2", "u1">>), Null)} @@
  c3 :> {Message(c3, "search_wine_price", TRUE, SearchResults(<<"u1", "u2">>), Null),
         Message(c3, "get_wine_recommendations_from_profile", TRUE, <<>>,
                 Payload("list", {"wine", "predicted_rating"}, {}, FALSE)),
         Message(c3, "get_food_pairing_wines", TRUE, <<>>,
                 Payload("object", {"message"}, {"cellar_matches"}, FALSE))})

MCEarlier == {<<>>, <<Human, Message("c0", "search_wine_knowledge", TRUE,
                                     Context(<<Chunk(Volume, 2, TRUE), Chunk(Rioja, 0, TRUE)>>), Null),
                      Message("c9", "search_wine_reviews", TRUE, SearchResults(<<"u3">>), Null)>>}

Marker(numbers) == [kind |-> "marker", numbers |-> numbers]
Note            == [kind |-> "note"]
Fence           == [kind |-> "fence"]
DocumentEntry(f) == [kind |-> "entry", what |-> "document", file |-> f]
LabelEntry(l)    == [kind |-> "entry", what |-> "label", label |-> l]
UrlEntry(u)      == [kind |-> "entry", what |-> "url", url |-> u]
EntryChoices ==
  {DocumentEntry(Barolo2), DocumentEntry(Rioja), DocumentEntry(Volume),
   LabelEntry("cellar"), LabelEntry("tasting_history"), UrlEntry("u1"), UrlEntry("u3")}
Numbers == {<<1>>, <<2>>, <<3, 4, 1>>}
MCAnswers ==
  {<<Marker(n), Note>> \o SetToSeq(entries) :
     n \in Numbers, entries \in {e \in SUBSET EntryChoices : Cardinality(e) \in {1, 2, 7}}}
  \cup {<<Marker(n), Fence, Note, DocumentEntry(Barolo), Fence>> : n \in Numbers}
  \cup {<<Note, DocumentEntry(Barolo), Marker(n), Note, DocumentEntry(Rioja)>> : n \in Numbers}

(* Searches: the same words in two orders, on a host or not, of two types,   *)
(* an hour or twelve after the one before.                                   *)
MCUrl(host, path, user) == [http |-> TRUE, user |-> user, host |-> host, path |-> path]
MCPages == <<MCUrl(<<"www", "v", "com">>, "a", FALSE), MCUrl(<<"www", "v", "com">>, "a", TRUE),
             MCUrl(<<"v", "com">>, "b", FALSE), MCUrl(<<"notv", "com">>, "a", FALSE),
             MCUrl(<<"v", "com">>, "b", FALSE)>>
MCAsk(wait, words, type, domain, provider) ==
  [tool |-> "search_web_for_wine", wait |-> wait, words |-> words, type |-> type, limit |-> 20,
   domain |-> domain, provider |-> provider]
Hosted == <<"v", "com">>
MCInvocations ==
  {MCAsk(1, <<"the", "m", "n">>, "general", None, MCPages),
   MCAsk(12, <<"n", "m">>, "general", None, MCPages),
   MCAsk(1, <<"n", "m">>, "general", Hosted, MCPages),
   MCAsk(1, <<"n">>, "price", None, SubSeq(MCPages, 1, 1)),
   MCAsk(1, <<"n", "m">>, "general", None, None),
   [MCAsk(1, <<"n">>, "price", <<"v", "local">>, MCPages) EXCEPT !.tool = "search_wine_price"]}
=============================================================================
