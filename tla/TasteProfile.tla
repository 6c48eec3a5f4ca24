---------------------------- MODULE TasteProfile ----------------------------
(***************************************************************************)
(* What the agent's tools advise: the taste profile of the rated wines, its *)
(* conflicts with the declared preferences, the recommendations from the    *)
(* cellar, the comparison of one wine with the profile, and the pairings    *)
(* with food and cheese.  Every tool reads the rows of CellarRecords and    *)
(* the table of declared preferences, and changes neither.  Names are their *)
(* normalized forms; scores are tenths or hundredths, so a result is exact  *)
(* up to the last bit of the code's floating point.  Shown stands for the   *)
(* limit of every list a tool returns, Page for that of every list it reads.*)
(***************************************************************************)
EXTENDS CellarReports

CONSTANTS
  Canonical,     \* per alias of a grape or region: its canonical name
  Terms,         \* per kind with a terminology: the names and aliases in it
  Styles,        \* wine styles that preferences support
  Declarations,  \* contents the table of declared preferences may have
  Prices,        \* price limits of a request; Null is none
  Queries,       \* wines asked for: the matching names, and what the text itself tells
  Foods,         \* per name of a food: its pairing rule
  Cheeses,       \* rules for cheese: wine types, and classic wines in order
  Enough,        \* rated wines that make a sufficient history
  Leading,       \* favourites a recommendation considers
  Listed,        \* favourites a profile lists
  Page           \* wines of one type a pairing looks at

ASSUME TasteAssumption ==
  /\ {Enough, Leading, Listed, Page} \subseteq Nat \ {0} /\ Leading <= Listed
  /\ \A x \in DOMAIN Canonical : Canonical[x] \notin DOMAIN Canonical

Overlap(a, b) == Null \notin {a, b} /\ (a = b \/ {<<a, b>>, <<b, a>>} \cap Nested # {})

-----------------------------------------------------------------------------
(* Declared preferences. *)
Kinds == {"varietal", "region", "producer", "wine_type"}
Values(w) == [k \in Kinds |-> Wine[w][k]]
Identities(name) == {name, IF name \in DOMAIN Canonical THEN Canonical[name] ELSE name} \ {Null}

Matching(D, values) ==
  {p \in D : p.kind \in DOMAIN values /\ Identities(p.value) \cap Identities(values[p.kind]) # {}}
Stance(M, stance) == {p \in M : p.stance = stance}
Clamp(n, low, high) == Max({low, Min({high, n})})
Adjustment(M) == Clamp(4 * (Cardinality(Stance(M, "like")) - Cardinality(Stance(M, "dislike"))), -6, 6)

(* What a preference may name: a style, or a label of the cellar (a region   *)
(* is one label here, the code also takes its two parts), or, but for a      *)
(* producer, a term; a label of the cellar is kept as it is.                 *)
Labels(kind) == {Wine[w][kind] : w \in wines} \ {Null}
CanonicalOf(x) == IF x \in DOMAIN Canonical THEN Canonical[x] ELSE x
TermsOf(kind) == IF kind \in DOMAIN Terms THEN Terms[kind] ELSE {}
Resolved(kind, value) ==
  CASE kind = "wine_type"  -> IF value \in Styles THEN value ELSE Null
    [] value \in Labels(kind) -> value
    [] OTHER -> IF value \in TermsOf(kind) THEN CanonicalOf(value) ELSE Null
Options(kind) ==
  IF kind = "wine_type" THEN Styles ELSE Labels(kind) \cup {CanonicalOf(x) : x \in TermsOf(kind)}
Stances == {"like", "dislike", "avoid"}
Currencies == {"EUR", "RON", "USD", "GBP", "CHF"}
Creatable(r) ==
  IF r.kind = "price_ceiling"
  THEN {r.stance, r.value} = {Null} /\ r.amount \in 1..99999999 /\ r.currency \in Currencies
  ELSE /\ {r.amount, r.currency} = {Null} /\ r.stance \in Stances /\ r.value # Null
       /\ Resolved(r.kind, r.value) # Null
Stated(r) == [kind |-> r.kind, stance |-> r.stance, value |-> Resolved(r.kind, r.value)]

(* The identity a preference was stored with is looked up among the ratings.*)
Signals(p) == {w \in RatedWines : p.value \in Identities(Wine[w][p.kind])}
Conflicts(D) ==
  {p \in D : /\ p.kind \in Kinds /\ Signals(p) # {}
             /\ LET m == MeanOfWines(Signals(p)) IN
                \/ p.stance = "like" /\ m.sum < 80 * m.count
                \/ p.stance \in {"dislike", "avoid"} /\ m.sum >= 90 * m.count}

-----------------------------------------------------------------------------
(* The profile.  A rating of zero counts as none here. *)
Judged == {w \in RatedWines : Rating(w) # 0}
By(field) ==
  [k \in {Wine[w][field] : w \in Judged} \ {Null} |-> MeanOfWines({w \in Judged : Wine[w][field] = k})]
Average ==                                    \* in tenths; a tie is rounded to the even one
  LET m == MeanOfWines(Judged)   down == (10 * m.sum) \div m.count   twice == 2 * ((10 * m.sum) % m.count) IN
  IF twice > m.count \/ (twice = m.count /\ down % 2 = 1) THEN down + 1 ELSE down

BetterLiked(f, j, k) == MeanAbove(f[j], f[k]) \/ (MeanEqual(f[j], f[k]) /\ f[j].count > f[k].count)
Strength(m) == Min({100, (10 * m.sum) \div Cardinality(Judged)})
FavouritesBy(field) ==
  LET f == By(field) IN
  {s \in SetToSeqs(DOMAIN f) : \A i, j \in DOMAIN s : i < j => ~BetterLiked(f, s[j], s[i])}
FavouriteVarietals ==
  LET f == By("varietal") IN
  {s \in SetToSeqs(DOMAIN f) : \A i, j \in DOMAIN s : i < j => Strength(f[s[i]]) >= Strength(f[s[j]])}
PreferredTypes ==
  LET f == By("wine_type") IN {t \in DOMAIN f : \A u \in DOMAIN f : f[u].count <= f[t].count}

Bands == <<0, 70, 80, 85, 90, 96>>
RatingBands ==
  [i \in DOMAIN Bands |-> Cardinality({w \in Judged : Max({j \in DOMAIN Bands : Bands[j] <= Rating(w)}) = i})]
HighRated == Cardinality({w \in Judged : Rating(w) >= 90})
LowRated  == Cardinality({w \in Judged : Rating(w) < 80})

(* A rated wine of a style no preference may name fails the whole profile,  *)
(* and so do ratings that are all zero.                                     *)
ProfileRaises ==
  RatedWines # {} /\ (Judged = {} \/ \E w \in RatedWines : Wine[w].wine_type \notin Styles)
Profiles ==
  IF RatedWines = {} THEN {[regions |-> <<>>, varietals |-> <<>>, preferred |-> Null]}
  ELSE IF ProfileRaises THEN {}
  ELSE [regions : FavouritesBy("region"), varietals : FavouriteVarietals, preferred : PreferredTypes]
FirstOf(s, n) == Range(SubSeq(s, 1, Min({n, Len(s)})))

-----------------------------------------------------------------------------
(* Recommendations. *)
Ceiling(D) == {p \in D : p.kind = "price_ceiling"}         \* at most one
BottlesOf(w) == {b \in InCellar : bottles[b].wine = w}
Cheap(b, limit) == limit = Null \/ (bottles[b].price # Null /\ bottles[b].price <= limit)

(* Bottles come by location and bin, which the rows here do not tell apart: *)
(* the first one of each wine is any of them.                               *)
Firsts == {f \in [WinesOf(InCellar) -> InCellar] : \A w \in DOMAIN f : f[w] \in BottlesOf(w)}
FirstAllowed(b, limit) == bottles[b].price = Null \/ Cheap(b, limit)

PriceAllowedInAnyCurrency(D, first, w, limit) ==     \* a mutant of the next
  IF Ceiling(D) = {} THEN FirstAllowed(first[w], limit)
  ELSE \E b \in BottlesOf(w), c \in Ceiling(D) : bottles[b].price # Null /\ Cheap(b, c.amount) /\ Cheap(b, limit)
(* Without a stored ceiling only the first bottle's price is looked at.     *)
PriceAllowed(D, first, w, limit) ==
  IF Ceiling(D) = {} THEN FirstAllowed(first[w], limit)
  ELSE \E b \in BottlesOf(w), c \in Ceiling(D) :
         bottles[b].price # Null /\ bottles[b].currency = c.currency /\ Cheap(b, c.amount) /\ Cheap(b, limit)

If(condition, points) == IF condition THEN points ELSE 0
Resemblance(p, w) ==
  If(Wine[w].region \in FirstOf(p.regions, Leading), 4) + If(Wine[w].varietal \in FirstOf(p.varietals, Leading), 3)
  + If(Wine[w].wine_type = p.preferred, 2)
Score(D, p, w) == Clamp(Resemblance(p, w) + Adjustment(Matching(D, Values(w))), 0, 10)
Predicted(p, w) == (Average * (40 + Resemblance(p, w))) \div 500

(* 0.7 - 0.4 and 0.9 - 0.6 are below 0.3. *)
ScoreSuffices(D, p, w) ==
  Score(D, p, w) > 3 \/ (Score(D, p, w) = 3 /\ Adjustment(Matching(D, Values(w))) >= 0)
Recommendable(D, p, limit, first) ==
  {w \in wines : LET M == Matching(D, Values(w)) IN
     /\ OwnedQuantity(w) > 0 /\ Stance(M, "avoid") = {} /\ PriceAllowed(D, first, w, limit)
     /\ Cardinality(Judged) >= Enough \/ Stance(M, "like") # {}
     /\ ScoreSuffices(D, p, w)}
Preferable(D, p, v, w) ==
  LET rated == Judged # {} IN
  IF D = {} THEN Resemblance(p, v) > Resemblance(p, w)
  ELSE \/ Score(D, p, v) > Score(D, p, w)
       \/ Score(D, p, v) = Score(D, p, w) /\ rated /\ Predicted(p, v) > Predicted(p, w)
       \/ Score(D, p, v) = Score(D, p, w) /\ (rated => Predicted(p, v) = Predicted(p, w)) /\ v < w
(* A preference for a style fails on a style no preference may name.        *)
StyleUnknown(D, types) == (\E p \in D : p.kind = "wine_type") /\ ~types \subseteq Styles \cup {Null}
Recommendations(D, p, limit) ==
  IF StyleUnknown(D, {Wine[w].wine_type : w \in {v \in wines : OwnedQuantity(v) > 0}}) THEN {}
  ELSE UNION {Top(Recommendable(D, p, limit, first), Shown, LAMBDA v, w : Preferable(D, p, v, w)) : first \in Firsts}

-----------------------------------------------------------------------------
(* The comparison of one wine, of the cellar or not.                        *)
Found(q) ==
  {w \in wines : /\ Wine[w].wine_name \in q.names
                 /\ \A v \in wines : Wine[v].wine_name \in q.names /\ Wine[v].producer = Wine[w].producer
                                       => Sorted(Wine[v].vintage) <= Sorted(Wine[w].vintage)}
Closeness(ranking, name) ==
  LET near == {i \in 1..Min({Listed, Len(ranking)}) : Overlap(ranking[i], name)} IN
  IF near = {} THEN 0 ELSE 115 - 15 * Min(near)
TypeMatch(type) ==
  LET f == By("wine_type") IN IF type \in DOMAIN f THEN (1000 * f[type].sum) \div (f[type].count * Average) ELSE 0
Observed(p, values) ==
  (40 * Closeness(p.regions, values.region) + 30 * Closeness(p.varietals, values.varietal)
   + 30 * TypeMatch(values.wine_type)) \div 100

PriceStatus(D, W) ==
  LET priced == {b \in UNION {BottlesOf(w) : w \in W} : bottles[b].price # Null /\ \E c \in Ceiling(D) : bottles[b].currency = c.currency}
  IN  CASE Ceiling(D) = {} -> Null
        [] \E b \in priced, c \in Ceiling(D) : Cheap(b, c.amount) -> "satisfied"
        [] priced # {} /\ \A b \in priced, c \in Ceiling(D) : ~Cheap(b, c.amount) -> "violated"
        [] OTHER -> "unknown"

Label(score) == IF score >= 80 THEN "high" ELSE IF score >= 60 THEN "recommended" ELSE IF score >= 40 THEN "try" ELSE "low"
PredictedRating(observed) == IF Judged = {} THEN Null ELSE (Average * (700 + 3 * observed)) \div 10000
Comparisons(D, p, q, W) ==                    \* W is the wine found, or none; no answer if it raises
  LET values == IF W = {} THEN q.values ELSE Values(CHOOSE w \in W : TRUE)
      M == Matching(D, values)
      rejected == Stance(M, "avoid") # {} \/ PriceStatus(D, W) = "violated"
      overall == IF rejected THEN 0 ELSE Clamp(Observed(p, values) + 10 * Adjustment(M), 0, 100)
  IN  IF StyleUnknown(D, {values.wine_type}) THEN {}
      ELSE IF Cardinality(Judged) < Enough /\ M = {} THEN {[refused |-> TRUE]}
      ELSE {[refused |-> FALSE, overall |-> overall, price |-> PriceStatus(D, W),
             predicted |-> PredictedRating(Observed(p, values)),
             verdict |-> IF rejected THEN "rejected" ELSE Label(overall),
             conflicts |-> {c \in Conflicts(D) : c \in M}]}

-----------------------------------------------------------------------------
(* Pairings.  A rule is the one of that name, or the longest that overlaps. *)
FindMatchingRule(food) ==
  LET near == {f \in DOMAIN Foods : Overlap(f, food)} IN
  IF food \in DOMAIN Foods THEN {Foods[food]}
  ELSE {Foods[f] : f \in {g \in near : \A h \in near : Foods[h].length <= Foods[g].length}}
Mentioned(name, names) == name # Null /\ \E n \in names : n = name \/ <<n, name>> \in Nested
FoodScore(rule, w) ==
  IF Wine[w].varietal = Null THEN 50 ELSE IF Mentioned(Wine[w].varietal, rule.varietals) THEN 90 ELSE 60
CheeseScore(rule, w) ==
  LET hits == {i \in DOMAIN rule.classics : Mentioned(Wine[w].varietal, {rule.classics[i]}) \/ Mentioned(Wine[w].wine_name, {rule.classics[i]})}
  IN  IF hits = {} THEN 50 ELSE IF Mentioned(Wine[w].varietal, {rule.classics[Min(hits)]}) THEN 90 ELSE 85

(* A pairing reads one page of the wines of each type, owned or not.        *)
NewerOfProducer(v, w) == Wine[v].producer = Wine[w].producer /\ Sorted(Wine[v].vintage) > Sorted(Wine[w].vintage)
Pages(type) == Top({w \in wines : Wine[w].wine_type = type}, Page, NewerOfProducer)
WinesRead(types) == FoldSet(LAMBDA t, read : {r \cup page : r \in read, page \in Pages(t)}, {{}}, types)
FoodMatches(rule, preference, ready) ==
  LET types == IF preference = Null THEN rule.types ELSE {preference}
      Usable(W) == {w \in W : OwnedQuantity(w) > 0 /\ (ready => DrinkStatus(w) = "ready")}
  IN  UNION {Top(Usable(W), Shown, LAMBDA v, w : FoodScore(rule, v) > FoodScore(rule, w)) : W \in WinesRead(types)}
CheeseMatches(rule) ==
  UNION {Top({w \in W : OwnedQuantity(w) > 0}, Shown, LAMBDA v, w : CheeseScore(rule, v) > CheeseScore(rule, w)) :
           W \in WinesRead(rule.types)}

TopRatedInCellar(min, type) == {[w \in T |-> OwnedQuantity(w)] : T \in TopRated(min, type)}
Reversed(from, to) == Null \notin {from, to} /\ from > to
TastingHistory(f) ==                          \* no answer if a range is reversed
  IF Reversed(f.min_vintage, f.max_vintage) \/ Reversed(f.consumed_from, f.consumed_to) THEN {}
  ELSE ConsumedWines(f, "consumed_date_desc").items

-----------------------------------------------------------------------------
(* Two tools judge the same wine by the same preferences, with code of      *)
(* their own for the price, the score and the threshold.  What one          *)
(* recommends is owned and the other does not reject or refuse it, gives it *)
(* more than nothing and finds its stored ceiling satisfied; what one       *)
(* rejects the other never recommends.  The profile accounts for its        *)
(* ratings, and a pairing that must be ready is ready to the cellar's tool. *)
(* Whatever may be declared is offered under the name it resolves to, what  *)
(* is offered can be declared, and a preference for a wine by any name of   *)
(* its grape, region or producer matches that wine.                         *)
AdviceAgrees ==
  /\ \A D \in Declarations, p \in Profiles, limit \in Prices : \A T \in Recommendations(D, p, limit) :
       \A q \in Queries : \A w \in Found(q) \cap T : \A c \in Comparisons(D, p, q, {w}) :
         /\ w \in WinesOf(InCellar) /\ ~c.refused /\ c.verdict # "rejected" /\ c.overall > 0
         /\ c.price = (IF Ceiling(D) = {} THEN Null ELSE "satisfied")
  /\ \A D \in Declarations, p \in Profiles, q \in Queries :
       \A W \in {{w} : w \in Found(q)} \cup (IF Found(q) = {} THEN {{}} ELSE {}) : \A c \in Comparisons(D, p, q, W) :
         ~c.refused => /\ c.overall \in 0..100 /\ c.predicted \in 0..100 \cup {Null}
                       /\ W = {} => c.price \in {Null, "unknown"}
  /\ Profiles # {} =>
       /\ Total(RatingBands) = Cardinality(Judged) /\ HighRated = RatingBands[5] + RatingBands[6]
       /\ LowRated = RatingBands[1] + RatingBands[2]
       /\ MapThenSumSet(LAMBDA t : By("wine_type")[t].count, DOMAIN By("wine_type")) = Cardinality(Judged)
  /\ \A T \in TopRatedInCellar(90, Null) : Cardinality(DOMAIN T) = Min({Shown, HighRated})
  /\ \A T \in TastingHistory(NoFilter) : T # {} =>
       LET newest == Max({bottles[b].consumed : b \in Consumed}) IN
       /\ \E b \in T : bottles[b].consumed = newest
       /\ TastingHistory([NoFilter EXCEPT !.consumed_from = newest, !.consumed_to = newest]) # {{}}
  /\ \A food \in DOMAIN Foods : \A rule \in FindMatchingRule(food), t \in {Null, "Red"} :
       \A T \in FoodMatches(rule, t, TRUE) : T \subseteq DOMAIN CellarWines(t, TRUE, Null, Null)
  /\ \A rule \in Cheeses : \A T \in CheeseMatches(rule) : T \subseteq WinesOf(InCellar)
  /\ \A kind \in Kinds : \A x \in Options(kind) \cup TermsOf(kind) :
       LET r == [kind |-> kind, stance |-> "like", value |-> x, amount |-> Null, currency |-> Null] IN
       /\ Creatable(r) /\ Stated(r).value \in Options(kind)
       /\ \A w \in wines : CanonicalOf(Wine[w][kind]) = CanonicalOf(x) => Matching({Stated(r)}, Values(w)) # {}
=============================================================================
