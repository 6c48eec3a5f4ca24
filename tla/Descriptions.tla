---------------------------- MODULE Descriptions ----------------------------
(***************************************************************************)
(* What one generation of a description makes of its evidence, and the     *)
(* rules that estimate a missing drinking window.  CellarSync interleaves  *)
(* these writes with the imports; here the answer of a generation is a     *)
(* function of the entity, the service and what its searches bring.        *)
(*                                                                         *)
(* A text is a sequence of tokens <<word, percent>>: a percent sign ends   *)
(* the token or, without a word, stands alone; <<Null, FALSE>> is other    *)
(* punctuation.  A name is a sequence of words; the spellings of a name     *)
(* with and without its accents are one.                                    *)
(***************************************************************************)
EXTENDS CellarSync, SequencesExt

CONSTANTS
  GrapeNames,   \* per name or synonym of a grape, its canonical name
  Letters,      \* per name or synonym of a grape, its length in characters
  Entities,     \* wines, producers and grapes, as their rows
  Searches,     \* what retrieval and web search bring; Null when they fail
  Answers,      \* what the model answers
  Batches,      \* producers and wines of a batch: entity, searches, answer
  MaxChunks,    \* max_context_chunks
  Slack,        \* further words between those of a name
  Year          \* the current year

ASSUME DescriptionAssumption == {MaxChunks, Slack, Year} \subseteq Nat

-----------------------------------------------------------------------------
(* Evidence. *)
Raw(text)   == [i \in DOMAIN text |-> text[i][1]]
Words(text) == Raw(SelectSeq(text, LAMBDA token : token[1] # Null))
StartsAt(i, name, words) == i + Len(name) - 1 <= Len(words) /\ SubSeq(words, i, i + Len(name) - 1) = name
Occurs(name, words) == name # <<>> /\ \E i \in DOMAIN words : StartsAt(i, name, words)
Count(word, words) == Cardinality({i \in DOMAIN words : words[i] = word})

ContainsPhrase(text, name) == Occurs(name, Words(text))
ContainsAllTokens(text, name) ==
  /\ name # <<>>
  /\ \E i \in DOMAIN Words(text) :
       LET near == SubSeq(Words(text), i, Min({Len(Words(text)), i + Len(name) + Slack - 1}))
       IN  \A word \in Range(name) : Count(word, near) >= Count(word, name)

(* A grape with a percentage beside it is a part of a blend.                *)
Percent(text, i) == i \in DOMAIN text /\ text[i][2]
ContainsUnquantified(text, name) ==
  LET tokens == SelectSeq(text, LAMBDA token : token # <<Null, FALSE>>)
  IN  /\ name # <<>>
      /\ \E i \in DOMAIN tokens :
           LET next == i + Len(name)
           IN  /\ StartsAt(i, [j \in DOMAIN name |-> <<name[j], FALSE>>], tokens)
               /\ ~Percent(tokens, i - 1) /\ ~Percent(tokens, next)
               /\ ~(next + 1 \in DOMAIN tokens /\ tokens[next + 1] = <<Null, TRUE>>)

NamesWineLoosely(text, w) == ContainsAllTokens(text, w.name)    \* a mutant of the next
NamesWine(text, w) ==
  /\ ContainsPhrase(text, w.producer)
  /\ \/ ContainsPhrase(text, w.name)
     \/ /\ ContainsAllTokens(text, w.name)
        /\ Occurs(w.varietal, w.name) => ContainsUnquantified(text, w.varietal)
     \/ /\ ContainsUnquantified(text, w.varietal)
        /\ \E identity \in {w.designation, w.vineyard} \ {<<>>} :
             ContainsAllTokens(text, w.varietal \o identity)

(* A name of several words is matched as it is written, nothing between the *)
(* words; longer names are matched first and no two matches overlap.        *)
Written(i, name, text) ==
  StartsAt(i, name, Raw(text)) /\ \A j \in i..(i + Len(name) - 2) : ~text[j][2]
NamedGrapes(text) ==
  LET Matches == {m \in (DOMAIN text) \X (DOMAIN GrapeNames) : Written(m[1], m[2], text)}
      Better(a, b) == Letters[a[2]] > Letters[b[2]] \/ (Letters[a[2]] = Letters[b[2]] /\ a[1] < b[1])
      Apart(a, b) == a[1] + Len(a[2]) <= b[1] \/ b[1] + Len(b[2]) <= a[1]
      Add(kept, m) == IF \A k \in kept : Apart(m, k) THEN kept \cup {m} ELSE kept
  IN  {GrapeNames[m[2]] : m \in FoldLeft(Add, {}, SetToSortSeq(Matches, Better))}

-----------------------------------------------------------------------------
(* The context of a generation: books first, one web search otherwise.      *)
Names(e, text) ==
  CASE e.kind = "wine"     -> NamesWine(text, e)
    [] e.kind = "producer" -> ContainsPhrase(text, e.name)
    [] e.kind = "grape"    -> e.name \in NamedGrapes(text)

FromBooks(e, service, s) ==
  LET near == SelectSeq(s.chunks, LAMBDA c : c.near)
      relevant == SubSeq(near, 1, Min({MaxChunks, Len(near)}))
      naming == SelectSeq(relevant, LAMBDA c : Names(e, c.text))
  IN  IF ~service.books \/ s.chunks = Null \/ naming = <<>> THEN {}
      ELSE {c.text : c \in Range(IF e.kind = "wine" THEN relevant ELSE naming)}

Joined(result) == result.title \o <<<<Null, FALSE>>>> \o result.snippet
Qualifying(e, result) ==
  IF e.kind = "grape" THEN Names(e, Joined(result))
  ELSE (Names(e, result.title) \/ Names(e, result.snippet)) /\ (e.kind = "wine" => result.snippet # <<>>)

(* An engine that cannot be made is not tried again for wines and producers.*)
SearchesWeb(e, service, s) == service.web /\ FromBooks(e, service, s) = {}
EngineAfter(e, service, s) ==
  IF ~SearchesWeb(e, service, s) \/ service.engine # "none" THEN service.engine
  ELSE IF s.engine THEN "made" ELSE IF e.kind = "grape" THEN "none" ELSE "failed"
FromWeb(e, service, s) ==
  IF SearchesWeb(e, service, s) /\ EngineAfter(e, service, s) = "made" /\ s.results # Null
  THEN {Joined(r) : r \in {x \in Range(s.results) : Qualifying(e, x)}} ELSE {}
Context(e, service, s) == FromBooks(e, service, s) \cup FromWeb(e, service, s)

-----------------------------------------------------------------------------
(* Generation.  A row that cannot be written leaves the description as it   *)
(* was; a window that cannot be written fails a generation already saved.   *)
Analysed(answer)   == answer.ok /\ answer.length # "blank"
LongEnough(answer) == answer.ok /\ answer.length = "full"
SoundWindow(a) == a.from < a.to /\ {a.from, a.to} \subseteq 1900..Year + 50

WindowWritten(e, context, answer) ==
  e.kind = "wine" /\ context # {} /\ SoundWindow(answer) /\ Priority("llm") <= Priority(e.source)
Persisted(e, context, answer) ==
  LET windowed == WindowWritten(e, context, answer)
      broken == windowed /\ answer.stored = "window fails"
  IN  IF answer.stored = "refused" THEN [entity |-> e, given |-> FALSE]
      ELSE [entity |-> [e EXCEPT !.description = context, !.source = IF windowed /\ ~broken THEN "llm" ELSE @],
            given |-> ~broken]

(* Only a wine is described without evidence.                                *)
Generated(e, context, answer) ==
  IF IF e.kind = "wine" THEN Analysed(answer) ELSE context # {} /\ LongEnough(answer)
  THEN Persisted(e, context, answer) ELSE [entity |-> e, given |-> FALSE]
Describe(e, service, s, answer, forced) ==
  IF e.description # Null /\ ~forced THEN [entity |-> e, given |-> TRUE]
  ELSE Generated(e, Context(e, service, s), answer)

(* A batch asks for what has no description, producers before wines, with   *)
(* one service.                                                             *)
Items(batch) == batch.producers \o batch.wines
ServiceFor(i, items, service) ==
  FoldLeft(LAMBDA before, item :
             IF item.entity.description # Null THEN before
             ELSE [before EXCEPT !.engine = EngineAfter(item.entity, before, item.search)],
           service, SubSeq(items, 1, i - 1))
GenerateBatch(batch, service) ==
  [i \in DOMAIN Items(batch) |->
     LET item == Items(batch)[i]
     IN  Describe(item.entity, ServiceFor(i, Items(batch), service), item.search, item.answer, FALSE)]
Counted(items, results) == {i \in DOMAIN items : items[i].entity.description = Null /\ results[i].given}

(* A request over the API regenerates with a service of its own.            *)
NewService(books, web) == [books |-> books, web |-> web, engine |-> "none"]
GenerateOnRequest(e, books, web, s, answer) ==
  IF e = Null THEN [status |-> 404, entity |-> Null]
  ELSE LET d == Describe(e, NewService(books, web), s, answer, TRUE)
       IN  [status |-> IF d.given THEN 200 ELSE 502, entity |-> d.entity]

-----------------------------------------------------------------------------
(* The rules.  A pattern is the set of its alternatives, {} matches all;    *)
(* a field of a wine is the set of the catalogue's names it contains.       *)
Rule(priority, type, varietal, region, designation, start, end) ==
  [priority |-> priority, type |-> type, varietal |-> varietal, region |-> region,
   designation |-> designation, start |-> start, end |-> end]

Bordeaux == {"Bordeaux", "Medoc", "Pauillac", "Saint-Julien", "Margaux", "Saint-Estephe", "Pessac"}
Burgundy == {"Burgundy", "Bourgogne"}
Syrah    == {"Syrah", "Shiraz"}
NebbioloToSangiovese ==
  {Rule(100, "Red", {"Nebbiolo"}, {}, {"Riserva"}, 8, 30),
   Rule(95, "Red", {"Nebbiolo"}, {"Barolo", "Barbaresco", "Piedmont", "Piemonte"}, {}, 5, 20),
   Rule(90, "Red", {"Nebbiolo"}, {}, {}, 3, 12),
   Rule(88, "Red", {"Cabernet"}, Bordeaux, {"Grand Cru", "Premier Cru", "Classe"}, 8, 30),
   Rule(85, "Red", {"Cabernet"}, Bordeaux, {}, 5, 20),
   Rule(82, "Red", {"Cabernet Sauvignon"}, {"Napa", "California", "Sonoma"}, {}, 4, 18),
   Rule(80, "Red", {"Cabernet Sauvignon"}, {}, {}, 3, 12),
   Rule(78, "Red", {"Sangiovese"}, {"Brunello", "Montalcino"}, {}, 8, 25),
   Rule(76, "Red", {"Sangiovese"}, {"Chianti Classico"}, {"Gran Selezione", "Riserva"}, 5, 18),
   Rule(74, "Red", {"Sangiovese"}, {"Chianti", "Tuscany", "Toscana"}, {}, 2, 10),
   Rule(72, "Red", {"Sangiovese"}, {}, {}, 2, 8)}
OtherReds ==
  {Rule(70, "Red", {"Pinot Noir"}, Burgundy \cup {"Cote de Nuits", "Gevrey", "Chambolle", "Vosne"}, {"Grand Cru"}, 5, 20),
   Rule(68, "Red", {"Pinot Noir"}, Burgundy \cup {"Cote de Nuits"}, {"Premier Cru", "1er Cru"}, 4, 15),
   Rule(66, "Red", {"Pinot Noir"}, Burgundy, {}, 2, 10),
   Rule(64, "Red", {"Pinot Noir"}, {"Oregon", "Willamette"}, {}, 2, 10),
   Rule(62, "Red", {"Pinot Noir"}, {}, {}, 1, 8),
   Rule(60, "Red", Syrah, {"Hermitage", "Cote-Rotie", "Cornas"}, {}, 5, 20),
   Rule(58, "Red", Syrah, {"Rhone", "Barossa"}, {}, 3, 12),
   Rule(56, "Red", Syrah, {}, {}, 2, 8),
   Rule(54, "Red", {"Tempranillo", "Tinto Fino", "Tinto del Pais"}, {}, {"Gran Reserva"}, 5, 20),
   Rule(52, "Red", {"Tempranillo", "Tinto Fino"}, {}, {"Reserva"}, 3, 15),
   Rule(50, "Red", {"Tempranillo"}, {}, {}, 2, 10),
   Rule(48, "Red", {"Malbec"}, {}, {"Reserva", "Reserve", "Gran"}, 3, 12),
   Rule(46, "Red", {"Malbec"}, {}, {}, 1, 6),
   Rule(44, "Red", {"Gamay"}, {}, {}, 0, 3),
   Rule(10, "Red", {}, {}, {}, 2, 8)}
OtherRules ==
  LET Chardonnay == Burgundy \cup {"Puligny", "Meursault", "Chassagne", "Chablis"} IN
  {Rule(88, "White", {"Chardonnay"}, Chardonnay, {"Grand Cru"}, 3, 15),
   Rule(86, "White", {"Chardonnay"}, Chardonnay, {}, 2, 10),
   Rule(82, "White", {"Chardonnay"}, {}, {}, 1, 5),
   Rule(84, "White", {"Riesling"}, {}, {"Spatlese", "Auslese", "Beerenauslese", "TBA", "Trockenbeerenauslese", "Eiswein"}, 3, 20),
   Rule(80, "White", {"Riesling"}, {"Mosel", "Rheingau", "Alsace", "Alsatian"}, {}, 2, 12),
   Rule(76, "White", {"Riesling"}, {}, {}, 1, 6),
   Rule(74, "White", {"Sauvignon Blanc"}, {"Sancerre", "Pouilly-Fume", "Loire"}, {}, 1, 5),
   Rule(70, "White", {"Sauvignon Blanc"}, {}, {}, 0, 3),
   Rule(10, "White", {}, {}, {}, 1, 4), Rule(10, "Rose", {}, {}, {}, 0, 2),
   Rule(20, "Sparkling", {}, {"Champagne"}, {"Prestige", "Cuvee", "Blanc de Blancs", "Blanc de Noirs", "Vintage"}, 2, 12),
   Rule(10, "Sparkling", {}, {}, {}, 0, 3),
   Rule(20, "Dessert", {"Sauternes", "Riesling", "Furmint"}, {}, {}, 3, 20), Rule(10, "Dessert", {}, {}, {}, 1, 10),
   Rule(20, "Fortified", {}, {}, {"Vintage", "Tawny", "LBV", "Late Bottled"}, 0, 20),
   Rule(10, "Fortified", {}, {}, {}, 0, 10)}
Rules == NebbioloToSangiovese \cup OtherReds \cup OtherRules

MatchesRule(rule, w) ==
  /\ w.type = rule.type
  /\ \A field \in {"varietal", "region", "designation"} : rule[field] = {} \/ rule[field] \cap w[field] # {}
Matching(w) == {r \in Rules : MatchesRule(r, w)}
EstimateByLastRule(w) ==                                  \* a mutant of the next
  LET matching == Matching(w) IN {r \in matching : \A q \in matching : r.priority <= q.priority}
DecidingRule(w) ==
  LET matching == Matching(w) IN {r \in matching : \A q \in matching : q.priority <= r.priority}
EstimateFromRules(w) ==
  IF w.vintage = Null THEN {} ELSE {<<w.vintage + r.start, w.vintage + r.end>> : r \in DecidingRule(w)}

-----------------------------------------------------------------------------
(* Names of the catalogue that contain others. *)
Inside == {<<"Cabernet", "Cabernet Sauvignon">>, <<"Chianti", "Chianti Classico">>, <<"Reserva", "Gran Reserva">>,
           <<"Gran", "Gran Reserva">>, <<"Gran", "Gran Selezione">>, <<"Gran", "Grand Cru">>, <<"Auslese", "Beerenauslese">>}
          \cup {<<"Auslese", "Trockenbeerenauslese">>, <<"Beerenauslese", "Trockenbeerenauslese">>}
Closed(names) == names \cup {pair[1] : pair \in {p \in Inside : p[2] \in names}}
Alternatives(pattern) == IF pattern = {} THEN {{}} ELSE {Closed({name}) : name \in pattern}
Specimens(r) ==
  {[type |-> r.type, vintage |-> Year, varietal |-> v, region |-> p, designation |-> d] :
     v \in Alternatives(r.varietal), p \in Alternatives(r.region), d \in Alternatives(r.designation)}

(* Each rule of the catalogue decides some wine, the deciding rule of a wine *)
(* is one, and no rule that matches asks for more than it; its window is     *)
(* not empty.                                                                *)
Fields(r) == {f \in {"varietal", "region", "designation"} : r[f] # {}}
RulesDecide ==
  \A r \in Rules :
    /\ \E w \in Specimens(r) : DecidingRule(w) = {r}
    /\ \A w \in Specimens(r) : \E q \in DecidingRule(w) :
         /\ DecidingRule(w) = {q} /\ ~(Fields(q) \subseteq Fields(r) /\ Fields(q) # Fields(r))
         /\ \A years \in EstimateFromRules(w) : years[1] >= w.vintage /\ years[1] < years[2]

(* What identifies a wine, producer or grape must be in the evidence: its    *)
(* producer, and all the words of its name or of its grape and designation   *)
(* or vineyard.                                                              *)
Identified(e, text) ==
  CASE e.kind = "wine" ->
         \E identity \in {e.name} \cup {e.varietal \o i : i \in {e.designation, e.vineyard} \ {<<>>}} :
           Range(e.producer) \cup Range(identity) \subseteq Range(Words(text))
    [] e.kind = "producer" -> Range(e.name) \subseteq Range(Words(text))
    [] e.kind = "grape" -> \E name \in DOMAIN GrapeNames : GrapeNames[name] = e.name /\ Range(name) \subseteq Range(Words(text))

(* A generation writes only what its evidence carries: a producer or grape   *)
(* is described, and a window is taken from the model, only from a context   *)
(* that identifies it, and an owner's or an imported window stays.  A batch  *)
(* counts what it described unless writing a window failed, leaves existing  *)
(* descriptions alone, and searches no more once the engine failed.          *)
GroundedIn(before, after) ==
  LET context == after.description
      identified == \E text \in context : Identified(before, text)
  IN  /\ after.description # before.description /\ before.kind # "wine" => identified
      /\ after.source # before.source =>
           identified /\ after.source = "llm" /\ before.source \notin {"manual", "cellar_tracker"}

BatchAccounts(items, service, results) ==
  LET described == {i \in DOMAIN items : items[i].entity.description = Null /\ results[i].entity.description # Null}
  IN  /\ \A i \in DOMAIN items :
           /\ GroundedIn(items[i].entity, results[i].entity)
           /\ items[i].entity.description # Null => results[i].entity = items[i].entity
      /\ Counted(items, results) \subseteq described
      /\ (\A i \in DOMAIN items : items[i].answer.stored # "window fails") => Counted(items, results) = described
      /\ service.engine = "failed" => \A i \in described : results[i].entity.description # {} =>
           /\ items[i].search.chunks # Null
           /\ results[i].entity.description \subseteq {c.text : c \in Range(items[i].search.chunks)}

(* Whatever window a running generation read, what it writes has its ground, *)
(* alone or in a batch, and so have the windows the rules estimate.          *)
Rows(source) == {[e EXCEPT !.source = IF e.kind = "wine" THEN source ELSE Null] : e \in Entities}
WithSource(batch, source) ==
  [batch EXCEPT !.wines = [i \in DOMAIN @ |-> [@[i] EXCEPT !.entity.source = source]]]
GroundedFor(source) ==
  /\ \A e \in Rows(source), books \in BOOLEAN, web \in BOOLEAN, s \in Searches, a \in Answers :
       \E r \in {GenerateOnRequest(e, books, web, s, a)} :
         GroundedIn(e, r.entity) /\ (r.status = 502 /\ a.stored # "window fails" => r.entity = e)
  /\ \A batch \in {WithSource(b, source) : b \in Batches}, engine \in {"none", "failed"} :
       LET service == [books |-> TRUE, web |-> TRUE, engine |-> engine]
       IN  \E results \in {GenerateBatch(batch, service)} : BatchAccounts(Items(batch), service, results)
Grounded == {<<source, GroundedFor(source)>> : source \in Known \ {"absent"}}
EstimatesAreGrounded ==
  /\ \A d \in Describers : describe[d].known # "absent" => <<describe[d].known, TRUE>> \in Grounded
  /\ window # "absent" => RulesDecide
=============================================================================
