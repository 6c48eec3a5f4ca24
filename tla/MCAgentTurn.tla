---------------------------- MODULE MCAgentTurn ----------------------------
(* Small instances of AgentTurn, KnowledgeSearch and QueryPlans for TLC. *)
EXTENDS AgentTurn, KnowledgeSearch, TLC

CONSTANTS q1, q2, d1, d2

MCTurns == 1..2
MCEarlier ==
  {<<>>, <<"human", "call", "answer", "human", "call", "tool", "call", "tool", "answer">>}
MCSymmetry == Permutations({d1, d2})

(* Questions of up to three of these words, two names among them that       *)
(* contain another name or a misspelling, and one with a hyphen.            *)
Name(p, vs) == [canonical |-> p, variants |-> vs]
MCSynonyms == <<
  Name(<<"cabernet", "sauvignon">>, <<<<"cabernet">>>>),
  Name(<<"cabernet", "franc">>, <<<<"bouchet">>>>),
  Name(<<"saint-emilion">>, <<<<"saint", "emilion">>>>),
  Name(<<"rhone">>, <<<<"cotes", "rhone">>>>)>>
AskedWords == {"how", "long", "aging", "taste", "classification", "classifications", "rank", "1855",
               "2005", "cabernet", "franc", "bouchet", "saint-emilion", "rhone", "saint"}
MCWords == AskedWords \cup {"categories", "minimum", "requirements", "oak", "bottle", "ranking", "tiers",
             "growths", "emilion", "sauvignon", "cotes", "rhonee", "rhoneee"}
MCParts == [w \in MCWords |-> IF w = "saint-emilion" THEN <<"saint", "emilion">> ELSE <<w>>]
MCRespelled ==
  [w \in MCWords |-> CASE w = "rhone" -> "rhonee" [] w = "rhonee" -> "rhoneee" [] OTHER -> w]
Entity(kind, phrase, name) == [kind |-> kind, phrase |-> phrase, name |-> name]
MCEntities == {
  Entity("grapes", <<"cabernet">>, <<"cabernet", "sauvignon">>),
  Entity("grapes", <<"cabernet", "franc">>, <<"cabernet", "franc">>),
  Entity("regions", <<"saint-emilion">>, <<"saint-emilion">>),
  Entity("regions", <<"rhone">>, <<"rhone">>),
  Entity("vintages", <<"2005">>, <<"2005">>)}
MCIntentWords == <<
  [intent |-> "flavour", words |-> {"taste"}], [intent |-> "aging", words |-> {"aging"}],
  [intent |-> "classification", words |-> {"classification"}]>>
MCQuestions == {q \in UNION {[1..n -> AskedWords] : n \in 1..3} : IsInjective(q)}

(* Three chunks: good and bad for either channel, for the reranker or both,  *)
(* of equal contents, of neighbouring texts, with a common parent.           *)
Chunk(similarity, score, logit, matches, hash, text, parent) ==
  [similarity |-> similarity, score |-> score, logit |-> logit, matches |-> matches,
   hash |-> hash, text |-> text, parent |-> parent]
MCAttributes == {
  Chunk(2, 2, 1, 0, 1, 1, 5), Chunk(5, 0, 0, 1, 1, 1, Null), Chunk(9, 1, -1, 0, Null, 2, 5),
  Chunk(9, 2, 2, 0, 2, 3, Null), Chunk(4, 1, -2, 2, 3, 5, 1)}
MCWorlds == [1..3 -> MCAttributes]
MCSeconds ==
  {[i \in 1..3 |-> IF i = j THEN a ELSE Chunk(1, 0, -2, 0, Null, 5, Null)] :
     j \in 1..3, a \in {Chunk(9, 2, 2, 0, 2, 3, Null), Chunk(4, 1, -2, 2, 3, 5, 1)}}

Base == [hybrid |-> TRUE, keywords |-> "ready", validate |-> TRUE, reranker |-> "loaded",
         retriever |-> TRUE, tool |-> "search_wine_knowledge", argument |-> 2, n |-> 3, topK |-> 2,
         pool |-> 3, limit |-> 4, boost |-> TRUE, filters |-> TRUE, threshold |-> 0, cut |-> 0,
         correct |-> FALSE, expand |-> TRUE, dedup |-> TRUE, fallback |-> TRUE, found |-> TRUE]
MCSettings == {
  Base, [Base EXCEPT !.reranker = "broken", !.argument = 1],
  [Base EXCEPT !.threshold = Null, !.argument = 0, !.expand = FALSE],
  [Base EXCEPT !.keywords = "unsynchronized", !.filters = FALSE, !.correct = TRUE],
  [Base EXCEPT !.keywords = "unsynchronized", !.validate = FALSE, !.reranker = "off", !.correct = TRUE],
  [Base EXCEPT !.hybrid = FALSE, !.reranker = "off", !.argument = 0, !.dedup = FALSE],
  [Base EXCEPT !.argument = Null, !.pool = 2, !.limit = 2, !.threshold = -2, !.correct = TRUE],
  [Base EXCEPT !.argument = Null, !.reranker = "broken", !.pool = 1, !.found = FALSE],
  [Base EXCEPT !.tool = "search_wine_region_info", !.threshold = Null, !.cut = 1, !.dedup = FALSE]}

(* Texts of up to four sentences: two nearly equal ones that are long, and   *)
(* shorter ones, of which two fit where no third does.                      *)
Sentence(words, chars) == [words |-> words, chars |-> chars]
MCSentences == {Sentence(1..9, 20), Sentence(1..8, 16), Sentence({10}, 3), Sentence({11}, 4),
                Sentence({12}, 2)}
MCTexts == {[sentences |-> s, gap |-> gap] :
              s \in UNION {[1..n -> MCSentences] : n \in 1..4}, gap \in {1, 3}}
=============================================================================
