---------------------------- MODULE MCCellarSync ----------------------------
(* Small instances of CellarSync and Descriptions for TLC. *)
EXTENDS Descriptions, TLC

CONSTANTS b1, s1, s2, d1

MCRatings  == 1..2
MCSymmetry == Permutations({s1, s2})

(* The grape g, and g s and s t, which are others, s t the longest; a wine   *)
(* n g of the producer p.                                                   *)
MCGrapeNames == [name \in {<<"g">>, <<"y">>, <<"g", "s">>, <<"s", "t">>} |-> IF name = <<"y">> THEN <<"g">> ELSE name]
MCLetters    == [name \in DOMAIN MCGrapeNames |-> IF name = <<"s", "t">> THEN 9 ELSE 2 * Len(name) - 1]
MCWine(description) ==
  [kind |-> "wine", name |-> <<"n", "g">>, producer |-> <<"p">>, varietal |-> <<"g">>, designation |-> <<"d">>,
   vineyard |-> <<>>, description |-> description, source |-> Null]
MCOther(kind, name, description) == [MCWine(description) EXCEPT !.kind = kind, !.name = name]
MCEntities ==
  {MCWine(Null), MCWine({}), MCOther("producer", <<"p">>, Null), MCOther("grape", <<"g">>, {})}

MCText(words) == [i \in DOMAIN words |-> <<words[i], FALSE>>]
MCShare == <<<<"40", TRUE>>>>
MCTexts ==
  {MCText(<<"p", "n", "g">>), MCText(<<"g", "d", "x", "p">>), MCText(<<"p", "n", "x">>) \o MCShare \o MCText(<<"g">>),
   MCText(<<"n", "g", "s">>), MCText(<<"p", "g", "s", "t">>), MCText(<<"n">>) \o <<<<"g", TRUE>>>> \o MCText(<<"s">>),
   MCText(<<"p", "g", "d">>) \o <<<<Null, TRUE>>>>}
MCChunk(text, near) == [text |-> text, near |-> near]
MCSearch(chunks, results, engine) == [chunks |-> chunks, results |-> results, engine |-> engine]
MCSearches ==
  {MCSearch(<<MCChunk(t, TRUE)>>, Null, TRUE) : t \in MCTexts}
  \cup {MCSearch(<<MCChunk(MCText(<<"x">>), TRUE), MCChunk(MCText(<<"p", "n", "g">>), near)>>, <<>>, FALSE) : near \in BOOLEAN}
  \cup {MCSearch(<<>>, <<[title |-> MCText(<<"p">>), snippet |-> t]>>, engine) :
          t \in {<<>>, MCText(<<"p", "n", "g">>)}, engine \in BOOLEAN}
  \cup {MCSearch(Null, Null, TRUE)}
MCAnswer(ok, length, from, to, stored) == [ok |-> ok, length |-> length, from |-> from, to |-> to, stored |-> stored]
MCAnswers ==
  {MCAnswer(TRUE, "full", 2025, 2030, stored) : stored \in {"saved", "refused", "window fails"}}
  \cup {MCAnswer(TRUE, "short", 2030, 2025, "saved"), MCAnswer(FALSE, "blank", 0, 0, "saved")}

(* A batch of two, a producer and a wine or two wines: the first may fail,   *)
(* and take the engine with it.                                             *)
MCItem(entity, search, answer) == [entity |-> entity, search |-> search, answer |-> answer]
MCFull(stored) == MCAnswer(TRUE, "full", 2025, 2030, stored)
MCFirst ==
  {MCItem(MCWine(Null), search, MCFull(stored)) :
     search \in {MCSearch(Null, Null, TRUE), MCSearch(<<>>, <<>>, FALSE),
                MCSearch(<<MCChunk(MCText(<<"p", "n", "g">>), TRUE)>>, Null, TRUE)},
     stored \in {"saved", "window fails"}}
MCSecond ==
  {MCItem(entity, search, answer) :
     entity \in {MCWine(Null), MCWine({})}, search \in MCSearches, answer \in {MCFull("saved"), MCFull("refused")}}
MCProducer(item) == [item EXCEPT !.entity = MCOther("producer", <<"p">>, Null)]
MCBatches ==
  {[producers |-> <<>>, wines |-> <<i, j>>] : i \in MCFirst, j \in MCSecond}
  \cup {[producers |-> <<MCProducer(i)>>, wines |-> <<j>>] : i \in MCFirst, j \in MCSecond}
=============================================================================
