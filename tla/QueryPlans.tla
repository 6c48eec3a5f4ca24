----------------------------- MODULE QueryPlans -----------------------------
(***************************************************************************)
(* The analysis of a question before retrieval, and the alternate question *)
(* of a correction: what both channels are asked for.                      *)
(*                                                                         *)
(* A question is a sequence of distinct lower-case words, a phrase is a    *)
(* part of one.  Of a phrase replaced, only its first occurrence counts:   *)
(* no modelled question repeats a word.  Names are compared word by word:  *)
(* no modelled word but a respelled one contains a name.                   *)
(***************************************************************************)
EXTENDS Naturals, Sequences, FiniteSets, SequencesExt

CONSTANTS
  Questions,
  Respelled,    \* a word after the substring replacements of MISSPELLINGS
  Synonyms,     \* grapes then regions: [canonical, variants], phrases, longest variant first
  Entities,     \* [kind, phrase, name]: the phrases the extractors recognise
  IntentWords,  \* in order of precedence: [intent, words]
  Fillers,      \* _QUESTION_STOPWORDS
  Parts,        \* a word as the tokens a hyphen leaves of it
  Numerals      \* numbers of four digits

EntityKinds == {"grapes", "regions", "vintages", "classifications", "producers", "appellations"}

ASSUME PlanAssumption ==
  /\ \A q \in Questions : IsInjective(q)
  /\ \A e \in Entities : e.kind \in EntityKinds
  /\ Numerals \cap Fillers = {}

-----------------------------------------------------------------------------
(* Normalisation: misspellings as substrings, then, per canonical name that *)
(* is not there yet, its longest variant that is.                           *)
Holds(q, phrase) == phrase \in SubSeqs(q)

Canonicalised(q, entry) ==
  LET there == {i \in DOMAIN entry.variants : Holds(q, entry.variants[i])}
  IN  IF Holds(q, entry.canonical) \/ there = {} THEN q
      ELSE ReplaceFirstSubSeq(entry.canonical, entry.variants[Min(there)], q)

Normalized(question) ==
  FoldLeft(Canonicalised, [i \in DOMAIN question |-> Respelled[question[i]]], Synonyms)

-----------------------------------------------------------------------------
(* The analyzer of the keyword index, for documents and queries alike: at   *)
(* each place the longest phrase of the terminology becomes its canonical   *)
(* name, fillers are dropped.  (Misspellings are aliases too; left out.)    *)
Tokens(q) == FlattenSeq([i \in DOMAIN q |-> Parts[q[i]]])

Aliases == UNION {{[phrase |-> Tokens(p), name |-> Tokens(Synonyms[i].canonical)] :
                     p \in ToSet(Synonyms[i].variants) \cup {Synonyms[i].canonical}} :
                   i \in DOMAIN Synonyms}
ASSUME AliasAssumption == \A a, b \in Aliases : a.phrase = b.phrase => a = b

MatchesAt(q, i) ==
  {a \in Aliases : Len(a.phrase) <= Len(q) - i + 1
                   /\ SubSeq(q, i, i + Len(a.phrase) - 1) = a.phrase}

ShortestAt(q, i) ==                                       \* a mutant of the next
  CHOOSE a \in MatchesAt(q, i) : \A b \in MatchesAt(q, i) : Len(a.phrase) <= Len(b.phrase)
LongestAt(q, i) ==
  CHOOSE a \in MatchesAt(q, i) : \A b \in MatchesAt(q, i) : Len(a.phrase) >= Len(b.phrase)

Renamed(q) ==
  LET from[i \in 1..Len(q) + 1] ==
        IF i > Len(q) THEN <<>>
        ELSE IF MatchesAt(q, i) = {} THEN <<q[i]>> \o from[i + 1]
        ELSE LongestAt(q, i).name \o from[i + Len(LongestAt(q, i).phrase)]
  IN  from[1]

Analyzed(words) ==
  SelectSeq(Renamed(Tokens(words)), LAMBDA t : t \notin Fillers)

-----------------------------------------------------------------------------
(* The plan: what is named in the question, and the first intent of the     *)
(* list one of whose words is in it.  With both, the channels are asked for *)
(* the names and the terms of the intent, otherwise for the question.       *)
Found(q) == [k \in EntityKinds |-> {e.name : e \in {e \in Entities : e.kind = k /\ Holds(q, e.phrase)}}]
HasFilters(found) == \E k \in EntityKinds : found[k] # {}

DetectIntent(q) ==
  LET hits == {i \in DOMAIN IntentWords : ToSet(q) \cap IntentWords[i].words # {}}
  IN  IF hits = {} THEN "unknown" ELSE IntentWords[Min(hits)].intent

Asked(q, intent, found) ==
  IF intent # "unknown" /\ HasFilters(found) THEN [names |-> found, terms |-> intent]
  ELSE [words |-> q, tokens |-> Analyzed(q)]

PlanOf(question, q, found) ==
  [question |-> question, intent |-> DetectIntent(q), found |-> found,
   asked |-> Asked(q, DetectIntent(q), found)]
Plan(question) ==
  LET q == Normalized(question) IN PlanOf(question, q, Found(q))

-----------------------------------------------------------------------------
(* The correction: which plans trigger it, and the question it asks.        *)
In(plan, word) == word \in ToSet(plan.question)
TriggerReason(plan) ==
  CASE plan.intent = "aging" /\ In(plan, "classifications") -> "aging_classifications"
    [] /\ plan.intent = "classification" /\ In(plan, "classification")
       /\ ToSet(plan.question) \cap Numerals # {}            -> "dated_classification"
    [] OTHER                                                 -> "none"

Distinct(s) ==
  LET first == SelectSeq([i \in DOMAIN s |-> i], LAMBDA i : \A j \in 1..i - 1 : s[j] # s[i])
  IN  [n \in DOMAIN first |-> s[first[n]]]

AgingTerms == <<"aging", "classification", "categories", "minimum", "requirements", "oak", "bottle">>
DatedTerms == <<"classification", "ranking", "tiers", "growths">>
Dropped    == {"how", "does", "the", "rank", "classification"}

CorrectionQueryWithoutYears(plan) ==                      \* a mutant of the next
  IF TriggerReason(plan) = "aging_classifications"
  THEN Distinct(FlattenSeq(SetToSeq(plan.found.regions)) \o AgingTerms)
  ELSE Distinct(SelectSeq(Tokens(plan.question), LAMBDA t : t \notin Dropped) \o DatedTerms)
CorrectionQuery(plan) ==
  IF TriggerReason(plan) = "aging_classifications"
  THEN Distinct(FlattenSeq(SetToSeq(plan.found.regions))
                \o SelectSeq(plan.question, LAMBDA w : w \in Numerals) \o AgingTerms)
  ELSE Distinct(SelectSeq(Tokens(plan.question), LAMBDA t : t \notin Dropped) \o DatedTerms)

-----------------------------------------------------------------------------
(* A correction asks about the same thing: of the same intent, for the same  *)
(* vintages.  (Not always the same regions: hyphens are lost.)               *)
CorrectionStaysOnTopic(plan, corrected) ==
  /\ corrected.intent = plan.intent
  /\ corrected.found.vintages = plan.found.vintages

(* When a question about ageing names only regions and vintages, and the     *)
(* alternate question still names them, the channels are asked for exactly   *)
(* what they were asked for first: only a reranker can tell the two passes   *)
(* apart.                                                                    *)
CorrectionRepeats(plan, corrected) ==
  /\ TriggerReason(plan) = "aging_classifications"
  /\ HasFilters(plan.found) /\ corrected.found = plan.found
  => corrected.asked = plan.asked

(* What a query is split into does not change when it is split again: the    *)
(* search analyses the terms of a plan a second time, its documents once.    *)
AnalysisIsStable(words) == Analyzed(Analyzed(words)) = Analyzed(words)

PlansOf(question) ==
  \E plan \in {Plan(question)} :
    /\ AnalysisIsStable(question)
    /\ TriggerReason(plan) # "none" =>
         \E corrected \in {Plan(CorrectionQuery(plan))} :
            CorrectionStaysOnTopic(plan, corrected) /\ CorrectionRepeats(plan, corrected)

PlansHold == \A question \in Questions : PlansOf(question)
=============================================================================
