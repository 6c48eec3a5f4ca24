--------------------------- MODULE CellarReports ---------------------------
(***************************************************************************)
(* What the pages, the charts and the agent's tools report of the rows of  *)
(* CellarRecords.  A report is an operator on the current state; its       *)
(* GROUP BY is a function from the groups, its AVG a sum and a count, and  *)
(* its ORDER BY ... LIMIT the set of the answers the order allows.         *)
(***************************************************************************)
EXTENDS CellarRecords, SequencesExt

CONSTANTS
  CurrentYear,
  Nested,        \* pairs <<a, b>> of names where b contains a
  Shown          \* how many groups or rows a limited report shows

ASSUME ReportsAssumption == CurrentYear \in Nat /\ Shown \in Nat \ {0}

-----------------------------------------------------------------------------
(* The vocabulary of the queries. *)
Held(status) == {b \in DOMAIN bottles : bottles[b].status = status}
InCellar == Held("in_cellar")
Consumed == Held("consumed")

Row(b)      == Wine[bottles[b].wine]
WinesOf(S)  == {bottles[b].wine : b \in S}
Quantity(S) == MapThenSumSet(LAMBDA b : bottles[b].quantity, S)
Total(f)    == MapThenSumSet(LAMBDA k : f[k], DOMAIN f)

Rating(w)    == IF tastings[w] = Null THEN Null ELSE tastings[w].rating
Community(w) == IF tastings[w] = Null THEN Null ELSE tastings[w].community
RatedWines   == {w \in wines : Rating(w) # Null}
RatingOf(b)  == Rating(bottles[b].wine)
Rated(S)     == {b \in S : RatingOf(b) # Null}

TypeOf(b)     == Row(b).wine_type
CountryOf(b)  == Row(b).country
VarietalOf(b) == Row(b).varietal
RegionOf(b)   == Row(b).region
ProducerOf(b) == Row(b).producer
VintageOf(b)  == Row(b).vintage
AppellationOf(b) == Row(b).appellation

Of(S, field, k)  == {b \in S : Row(b)[field] = k}
Named(S, field)  == {Row(b)[field] : b \in S} \ {Null}
Highest(S) == IF Rated(S) = {} THEN Null ELSE Max({RatingOf(b) : b \in Rated(S)})
Lowest(S)  == IF Rated(S) = {} THEN Null ELSE Min({RatingOf(b) : b \in Rated(S)})

(* AVG ignores NULL.  In an ORDER BY, NULL is below every value.            *)
Mean(S) == [sum |-> MapThenSumSet(RatingOf, Rated(S)), count |-> Cardinality(Rated(S))]
Sorted(v) == IF v = Null THEN -1 ELSE v
MeanAbove(p, q) == p.count > 0 /\ (q.count = 0 \/ p.sum * q.count > q.sum * p.count)
MeanEqual(p, q) == ~MeanAbove(p, q) /\ ~MeanAbove(q, p)

Top(S, n, Above(_, _)) ==
  {T \in SUBSET S : /\ Cardinality(T) = Min({n, Cardinality(S)})
                    /\ \A x \in T, y \in S \ T : ~Above(y, x)}

-----------------------------------------------------------------------------
(* The cellar: what is in it. *)
CellarBy(groups, field) ==
  [k \in groups |-> [unique_wines |-> Cardinality(WinesOf(Of(InCellar, field, k))),
                     bottles |-> Quantity(Of(InCellar, field, k))]]
MoreBottles(f, j, k) == f[j].bottles > f[k].bottles

CellarOverview ==
  [total_bottles |-> Quantity(InCellar),
   unique_wines  |-> Cardinality(WinesOf(InCellar)),
   by_type       |-> CellarBy({TypeOf(b) : b \in InCellar}, "wine_type"),
   by_country    |-> CellarBy({CountryOf(b) : b \in InCellar}, "country")]
CountriesShown ==
  LET countries == CellarOverview.by_country IN
  Top(DOMAIN countries, Shown, LAMBDA j, k : MoreBottles(countries, j, k))

VarietalDistribution == CellarBy(Named(InCellar, "varietal"), "varietal")
RegionDistribution   == CellarBy(Named(InCellar, "region"), "region")
CellarVintageDistribution == CellarBy(Named(InCellar, "vintage"), "vintage")

AgeRange(age) == CASE age <= 5 -> "0-5" [] age <= 10 -> "6-10" [] age <= 15 -> "11-15"
                   [] age <= 20 -> "16-20" [] OTHER -> "20+"
WineAgeDistribution ==
  LET dist == CellarVintageDistribution
      At(r) == {v \in DOMAIN dist : AgeRange(CurrentYear - v) = r}
  IN  [r \in {AgeRange(CurrentYear - v) : v \in DOMAIN dist} |->
        MapThenSumSet(LAMBDA v : dist[v].bottles, At(r))]

(* A bottle without a price is in no sum; bottles_without_price counts it.  *)
CellarValue ==
  LET priced == {b \in InCellar : bottles[b].price # Null}
      In(c)  == {b \in priced : bottles[b].currency = c}
  IN  [by_currency |-> [c \in {bottles[b].currency : b \in priced} |->
          [total_value |-> MapThenSumSet(LAMBDA b : bottles[b].quantity * bottles[b].price, In(c)),
           wines_with_price |-> Cardinality(WinesOf(In(c)))]],
       bottles_without_price |-> Quantity(InCellar \ priced)]

(* Bottles of CellarTracker by the months they came and went.               *)
NetChange(m) ==
  LET Tracked == {b \in DOMAIN bottles : bottles[b].source = "cellar_tracker"} IN
  Quantity({b \in Tracked : bottles[b].bought = m}) - Quantity({b \in Tracked \cap Consumed : bottles[b].consumed = m})
TimelineMonths ==
  UNION {{bottles[b].bought, bottles[b].consumed} : b \in {c \in DOMAIN bottles : bottles[c].source = "cellar_tracker"}} \ {Null}
CellarSizeOverTime ==
  LET months == TimelineMonths IN [m \in months |-> MapThenSumSet(NetChange, {k \in months : k <= m})]

Tier(r) == CASE r >= 98 -> "Extraordinary" [] 94 <= r /\ r < 98 -> "Outstanding"
             [] 90 <= r /\ r < 94 -> "Excellent" [] 86 <= r /\ r < 90 -> "Very Good"
             [] 80 <= r /\ r < 86 -> "Good" [] 71 <= r /\ r < 80 -> "Below Average"
             [] r <= 70 -> "Avoid"
CellarRatingDistribution ==
  LET rated == WinesOf(InCellar) \cap RatedWines IN
  [t \in {Tier(Rating(w)) : w \in rated} |-> Cardinality({w \in rated : Tier(Rating(w)) = t})]
Thresholds == <<70, 79, 85, 89, 93, 97, 100>>      \* get_rating_description, lowest first
Descriptions == <<"Avoid", "Below Average", "Good", "Very Good", "Excellent", "Outstanding", "Extraordinary">>
RatingDescription(r) ==
  IF r = Null THEN "Not Rated" ELSE Descriptions[Min({i \in DOMAIN Thresholds : r <= Thresholds[i]})]

BetterRated(v, w) ==
  \/ Rating(v) > Rating(w)
  \/ Rating(v) = Rating(w) /\ Sorted(Community(v)) > Sorted(Community(w))
TopRatedWines == Top(RatedWines, Shown, BetterRated)
TopRated(min, type) ==
  Top({w \in RatedWines : Rating(w) >= min /\ type \in {Null, Wine[w].wine_type}}, Shown, BetterRated)

OwnedQuantityEver(w) == Quantity({b \in DOMAIN bottles : bottles[b].wine = w})   \* a mutant of the next
OwnedQuantity(w) == Quantity({b \in InCellar : bottles[b].wine = w})
TotalBottles(status) == Quantity(Held(status))

-----------------------------------------------------------------------------
(* Drinking windows.  A window is complete or absent (RecordsAssumption).   *)
DrinkStatusExclusive(w) ==                    \* a mutant of the next
  CASE Wine[w].from = Null -> "unknown"
    [] Wine[w].from # Null /\ CurrentYear < Wine[w].from -> "hold"
    [] Wine[w].from # Null /\ CurrentYear >= Wine[w].to  -> "past_peak"
    [] OTHER -> "ready"
DrinkStatus(w) ==
  CASE Wine[w].from = Null -> "unknown"
    [] Wine[w].from # Null /\ CurrentYear < Wine[w].from -> "hold"
    [] Wine[w].from # Null /\ CurrentYear > Wine[w].to   -> "past_peak"
    [] OTHER -> "ready"

(* Twice the distance to the middle of the window, of the length: the       *)
(* drinking index falls with it, and is 100 when the window is one year.    *)
OffMiddle(w) ==
  LET length == Wine[w].to - Wine[w].from   twice == 2 * CurrentYear - Wine[w].from - Wine[w].to IN
  IF length = 0 THEN [of |-> 0, by |-> 1] ELSE [of |-> IF twice < 0 THEN -twice ELSE twice, by |-> length]
IndexAbove(v, w) == OffMiddle(v).of * OffMiddle(w).by < OffMiddle(w).of * OffMiddle(v).by

ReadyToDrink(w)    == Wine[w].from # Null /\ Wine[w].from <= CurrentYear /\ Wine[w].to >= CurrentYear
NotReadyToDrink(w) == Wine[w].from = Null \/ Wine[w].from > CurrentYear \/ Wine[w].to < CurrentYear

DrinkingWindowWines ==
  LET windowed == {w \in WinesOf(InCellar) : Wine[w].from # Null} IN
  [ready_now  |-> {w \in windowed : Wine[w].from <= CurrentYear /\ Wine[w].to >= CurrentYear},
   drink_soon |-> {w \in windowed : Wine[w].to \in CurrentYear..(CurrentYear + 2)},
   for_aging  |-> {w \in windowed : Wine[w].from > CurrentYear}]

DrinkingWindowStats ==
  LET windowed == {b \in InCellar : Row(b).from # Null} IN
  [ready_to_drink |-> Quantity({b \in windowed : Row(b).from <= CurrentYear /\ Row(b).to >= CurrentYear}),
   to_hold        |-> Quantity({b \in windowed : Row(b).from > CurrentYear}),
   unknown        |-> Quantity(InCellar \ windowed)]

(* The inventory page groups the bottle rows of a wine.                     *)
GroupedInventory(S) == [w \in WinesOf(S) |-> Quantity({b \in S : bottles[b].wine = w})]
DrinkNext ==
  LET ready == {w \in DOMAIN GroupedInventory(InCellar) : DrinkStatus(w) = "ready"}
      In(t) == {w \in ready : Wine[w].wine_type = t}
  IN  [t \in {Wine[w].wine_type : w \in ready} |-> Top(In(t), Shown, IndexAbove)]

(* drink_desc and drink_asc: the later status first, then the end of the    *)
(* window; unknown windows last in both.                                    *)
StatusOrder(later) ==
  IF later THEN [hold |-> 0, ready |-> 1, past_peak |-> 2, unknown |-> 3]
  ELSE [past_peak |-> 0, ready |-> 1, hold |-> 2, unknown |-> 3]
DrinkingKeyBefore(later, v, w) ==
  LET p == StatusOrder(later)[DrinkStatus(v)]   q == StatusOrder(later)[DrinkStatus(w)]
      End(u) == IF DrinkStatus(u) = "unknown" THEN 0 ELSE IF later THEN -Wine[u].to ELSE Wine[u].to
  IN  p < q \/ (p = q /\ (End(v) < End(w) \/ (End(v) = End(w) /\ v < w)))
DrinkSorted(S, later) == SetToSortSeq(S, LAMBDA v, w : DrinkingKeyBefore(later, v, w))

-----------------------------------------------------------------------------
(* Filters.  Null means that a filter is not set; an absent value passes no *)
(* filter of SQL.  Each query takes the filters it has parameters for.      *)
NoFilter == [wine_type |-> Null, country |-> Null, producer |-> Null, region |-> Null, varietal |-> Null,
             location |-> Null, min_vintage |-> Null, max_vintage |-> Null, consumed_from |-> Null,
             consumed_to |-> Null, rating |-> Null, min_rating |-> Null, search |-> Null]
Like(name, text) == text = Null \/ (name # Null /\ (name = text \/ <<text, name>> \in Nested))
Exactly(want, value) == want \in {Null, value}
Within(v, min, max) == /\ min # Null => v # Null /\ v >= min
                       /\ max # Null => v # Null /\ v <= max
RatingPasses(r, want, min) ==
  /\ want = "rated" => r # Null
  /\ want = "unrated" => r = Null
  /\ min # Null => r # Null /\ r >= min
Filtered(S, f) ==
  {b \in S : /\ Exactly(f.wine_type, TypeOf(b)) /\ Exactly(f.country, CountryOf(b))
             /\ Exactly(f.producer, ProducerOf(b))
             /\ Like(Row(b).wine_name, f.search) \/ Like(ProducerOf(b), f.search) \/ Like(VarietalOf(b), f.search)
             /\ Within(VintageOf(b), f.min_vintage, f.max_vintage) /\ RatingPasses(RatingOf(b), f.rating, f.min_rating)}
Inventory(f) == {b \in Filtered(InCellar, f) : Exactly(f.location, bottles[b].location)}

(* The two orders by a name are left out. *)
SortKey(sort, b) ==
  LET date == bottles[b].consumed   rating == Sorted(RatingOf(b)) IN
  CASE sort = "consumed_date_desc" -> <<-date, -b>>
    [] sort = "consumed_date_asc"  -> <<date, b>>
    [] sort = "rating_desc"        -> <<-rating, -date, -b>>
    [] sort = "rating_asc"         -> <<rating, -date, -b>>
KeyBelow(s, t) == \E i \in DOMAIN s : s[i] < t[i] /\ \A j \in 1..(i - 1) : s[j] = t[j]
FilteredConsumed(f) ==
  {b \in Filtered(Consumed, f) : /\ Like(RegionOf(b), f.region) /\ Exactly(f.varietal, VarietalOf(b))
                                 /\ Within(bottles[b].consumed, f.consumed_from, f.consumed_to)}
ConsumedCount(f) == Cardinality(FilteredConsumed(f))
ConsumedWines(f, sort) ==
  [items |-> Top(FilteredConsumed(f), Shown, LAMBDA b, c : KeyBelow(SortKey(sort, b), SortKey(sort, c))),
   total |-> ConsumedCount(f)]

VintagesOr(S, default) == IF Named(S, "vintage") = {} THEN {default} ELSE Named(S, "vintage")
FilterOptions(S) ==
  [wine_types |-> {TypeOf(b) : b \in S}, countries |-> Named(S, "country"), producers |-> Named(S, "producer"),
   min_vintage |-> Min(VintagesOr(S, 2000)), max_vintage |-> Max(VintagesOr(S, 2025))]
InventoryLocations == {bottles[b].location : b \in InCellar} \ {Null}

(* WineRepository.get_all with the filters the tools use, and the tool's    *)
(* own range of vintages.                                                   *)
GetAll(type, country, rating, ready) ==
  {w \in wines : /\ Exactly(type, Wine[w].wine_type) /\ Exactly(country, Wine[w].country)
                 /\ RatingPasses(Rating(w), Null, rating)
                 /\ (ready = TRUE => ReadyToDrink(w)) /\ (ready = FALSE => NotReadyToDrink(w))}
InVintages(w, min, max) ==
  Wine[w].vintage # Null => /\ min # Null => Wine[w].vintage >= min
                            /\ max # Null => Wine[w].vintage <= max
CellarWines(type, ready, min, max) ==
  LET found == {w \in GetAll(type, Null, Null, ready) \cap WinesOf(InCellar) : InVintages(w, min, max)} IN
  [w \in found |-> [quantity |-> OwnedQuantity(w), drink_status |-> DrinkStatus(w)]]
WineDetails(w) ==
  [quantity_owned |-> OwnedQuantity(w), quantity_consumed |-> Quantity({b \in Consumed : bottles[b].wine = w}),
   drink_status |-> DrinkStatus(w), personal_rating |-> Rating(w), community_rating |-> Community(w)]

(* The tool counts wines, and by what the import said of their quantity.    *)
IsCellarEmpty == \A w \in wines : Wine[w].q_quantity = 0
CellarStatistics ==
  LET In(status) == Cardinality({w \in wines : Wine[w].q_quantity > 0 /\ DrinkStatus(w) = status}) IN
  [total_bottles |-> CellarOverview.total_bottles, unique_wines |-> CellarOverview.unique_wines,
   by_type |-> CellarOverview.by_type, ready_to_drink |-> In("ready"), still_aging |-> In("hold"),
   past_peak |-> In("past_peak"), unknown_window |-> In("unknown")]

Count(type, country) == Cardinality(GetAll(type, country, Null, Null))
WithoutDrinkingWindow ==
  {w \in wines : Wine[w].from = Null /\ Wine[w].drink_window_source = Null /\ Wine[w].vintage # Null}
CountWithDrinkingWindow ==
  [with_window |-> Cardinality({w \in wines : Wine[w].from # Null}),
   without_window |-> Cardinality({w \in wines : Wine[w].from = Null}), total |-> Cardinality(wines),
   by_source |-> [s \in {"cellar_tracker", "heuristic", "llm", "manual"} |->
                   Cardinality({w \in wines : Wine[w].drink_window_source = s})]]

-----------------------------------------------------------------------------
(* The history: what was drunk, and how it was rated. *)
CoarseRange == [r \in 0..100 |-> Max({k \in {0, 50, 70, 80, 90} : k <= r})]
FivePoints  == [r \in 0..100 |-> IF r < 50 THEN 0 ELSE Min({95, 5 * (r \div 5)})]
Distribution(S, start) ==
  [k \in {start[RatingOf(b)] : b \in Rated(S)} |-> Cardinality({b \in Rated(S) : start[RatingOf(b)] = k})]

RatingStatistics ==
  [overall |-> [avg |-> Mean(Consumed), min |-> Lowest(Consumed), max |-> Highest(Consumed),
                wines_rated |-> Cardinality(Rated(Consumed))],
   distribution |-> Distribution(Consumed, CoarseRange)]
RatingDistribution == [buckets |-> Distribution(Consumed, FivePoints), total |-> Cardinality(Rated(Consumed))]

Tasted(S) == [wines_tasted |-> Cardinality(S), avg |-> Mean(S), highest |-> Highest(S)]
WineTypeStats ==
  [t \in {TypeOf(b) : b \in Consumed} |->
    [tasted |-> Tasted(Of(Consumed, "wine_type", t)), most_recent |-> Max({bottles[b].consumed : b \in Of(Consumed, "wine_type", t)})]]

(* The best wine of a group: by rating, then last consumed, then id.        *)
BetterBottle(b, c) ==
  \/ RatingOf(b) > RatingOf(c)
  \/ RatingOf(b) = RatingOf(c) /\ bottles[b].consumed > bottles[c].consumed
  \/ RatingOf(b) = RatingOf(c) /\ bottles[b].consumed = bottles[c].consumed /\ bottles[b].wine > bottles[c].wine
BestUnrated(S) ==                             \* a mutant of the next
  IF S = {} THEN Null
  ELSE LET best == CHOOSE b \in S : \A c \in S : bottles[b].consumed >= bottles[c].consumed IN bottles[best].wine
Best(S) ==
  IF Rated(S) = {} THEN Null
  ELSE LET best == CHOOSE b \in Rated(S) : \A c \in Rated(S) : ~BetterBottle(c, b) IN bottles[best].wine

Preferences(S, field) ==
  [k \in Named(S, field) |-> [tasted |-> Tasted(Of(S, field, k)), best_wine |-> Best(Of(S, field, k))]]
MoreTasted(f, j, k) ==
  LET p == f[j].tasted   q == f[k].tasted IN
  p.wines_tasted > q.wines_tasted \/ (p.wines_tasted = q.wines_tasted /\ MeanAbove(p.avg, q.avg))
Favourites(f) == Top(DOMAIN f, Shown, LAMBDA j, k : MoreTasted(f, j, k))

VarietalPreferences == Preferences(Consumed, "varietal")
ProducerPreferences == Preferences(Consumed, "producer")
RegionPreferences   == Preferences(Consumed, "region")
CountryStats        == Preferences(Consumed, "country")
AppellationStats    == Preferences(Consumed, "appellation")
(* A vintage counts from two tastings, and comes by its average first.      *)
VintageStats ==
  LET twice == {v \in Named(Consumed, "vintage") : Cardinality(Of(Consumed, "vintage", v)) >= 2} IN
  Restrict(Preferences(Consumed, "vintage"), twice)
VintagesShown ==
  LET stats == VintageStats IN
  Top(DOMAIN stats, Shown,
      LAMBDA j, k : LET p == stats[j].tasted   q == stats[k].tasted IN
                    MeanAbove(p.avg, q.avg) \/ (MeanEqual(p.avg, q.avg) /\ p.wines_tasted > q.wines_tasted))

MonthsTasted == {bottles[b].consumed : b \in Consumed}
RatingTimeline ==
  [m \in {bottles[b].consumed : b \in Rated(Consumed)} |->
    LET In == {b \in Rated(Consumed) : bottles[b].consumed = m} IN [avg |-> Mean(In), count |-> Cardinality(In)]]
TastingStreak == Cardinality({m \in MonthsTasted : m..Max(MonthsTasted) \subseteq MonthsTasted})

(* The page compares the last month with the first of those it shows.       *)
RatingTrend ==
  LET timeline == RatingTimeline   months == DOMAIN timeline
      shown == {m \in months : Cardinality({k \in months : k >= m}) <= 12}
      first == timeline[Min(shown)].avg   last == timeline[Max(shown)].avg
  IN  IF Cardinality(months) < 2 THEN Null
      ELSE IF MeanAbove(last, first) THEN "improving" ELSE IF MeanAbove(first, last) THEN "declining" ELSE "stable"

TasteOverview ==
  LET bucket == RatingStatistics.distribution   types == WineTypeStats IN
  [wines_rated |-> RatingStatistics.overall.wines_rated,
   favourite_types |-> Top(DOMAIN types, 1, LAMBDA s, t : types[s].tasted.wines_tasted > types[t].tasted.wines_tasted),
   highly_rated |-> IF 90 \in DOMAIN bucket THEN bucket[90] ELSE 0]

ConsumedWithRatings(type) ==
  Top({b \in Rated(Consumed) : Exactly(type, TypeOf(b))}, Shown,
      LAMBDA b, c : RatingOf(b) > RatingOf(c) \/ (RatingOf(b) = RatingOf(c) /\ bottles[b].consumed > bottles[c].consumed))

(* Tastings, one row per wine whether or not a bottle was drunk.            *)
WinesWithTasting(rated, liked) ==
  {w \in wines : /\ tastings[w] # Null
                 /\ (rated = TRUE => Rating(w) # Null) /\ (rated = FALSE => Rating(w) = Null)
                 /\ Exactly(liked, tastings[w].like)}
MeanOfWines(W) == [sum |-> MapThenSumSet(Rating, W), count |-> Cardinality(W)]
AverageRatingByWineType ==
  [t \in {Wine[w].wine_type : w \in RatedWines} |-> MeanOfWines({w \in RatedWines : Wine[w].wine_type = t})]
TasteProfileSummary ==
  LET Twice(f) == [k \in {Wine[w][f] : w \in RatedWines} |-> MeanOfWines({w \in RatedWines : Wine[w][f] = k})]
      Shared(f) == {k \in DOMAIN Twice(f) : Twice(f)[k].count >= 2}
  IN  [total |-> Cardinality(RatedWines), avg |-> MeanOfWines(RatedWines),
       liked |-> Cardinality({w \in RatedWines : tastings[w].like = TRUE}),
       defective |-> Cardinality({w \in RatedWines : tastings[w].defective}),
       top_varietals |-> Shared("varietal") \ {Null}, top_regions |-> Shared("region")]

-----------------------------------------------------------------------------
(* Every breakdown of the cellar adds up to the same bottles, however it is *)
(* grouped: types, countries, the rows of the page, each wine's own count,  *)
(* vintages with their ages, varietals and regions with the bottles that    *)
(* have none, and the end of the timeline with the bottles it never saw     *)
(* bought.  The tiers of the chart are the descriptions of the wine pages.  *)
CellarReconciles ==
  LET total == CellarOverview.total_bottles
      Bottles(f) == MapThenSumSet(LAMBDA k : f[k].bottles, DOMAIN f)
      Lacking(field) == Quantity(Of(InCellar, field, Null))
      tracked == {b \in DOMAIN bottles : bottles[b].source = "cellar_tracker"}
  IN
  /\ Bottles(CellarOverview.by_type) = total /\ Bottles(CellarOverview.by_country) = total
  /\ \A T \in CountriesShown : total <= Quantity({b \in InCellar : CountryOf(b) \in T}) * Cardinality(DOMAIN CellarOverview.by_country)
  /\ Total(GroupedInventory(InCellar)) = total /\ Total([w \in wines |-> OwnedQuantity(w)]) = total
  /\ TotalBottles("in_cellar") = total
  /\ Bottles(VarietalDistribution) + Lacking("varietal") = total
  /\ Bottles(RegionDistribution) + Lacking("region") = total
  /\ Bottles(CellarVintageDistribution) + Lacking("vintage") = total
  /\ Total(WineAgeDistribution) = Bottles(CellarVintageDistribution)
  /\ CellarValue.bottles_without_price <= total
  /\ (CellarValue.bottles_without_price = total) <=> (DOMAIN CellarValue.by_currency = {})
  /\ TimelineMonths # {} =>
       CellarSizeOverTime[Max(TimelineMonths)] =
         Quantity(tracked \cap InCellar) - Quantity({b \in tracked : bottles[b].bought = Null})
  /\ Total(CellarRatingDistribution) = Cardinality(WinesOf(Inventory([NoFilter EXCEPT !.rating = "rated"])))
  /\ \A w \in WinesOf(InCellar) \cap RatedWines : RatingDescription(Rating(w)) \in DOMAIN CellarRatingDistribution
  /\ \A T \in TopRatedWines : T # {} => T \in TopRated(Min({Rating(w) : w \in T}), Null)

(* Five implementations decide whether a wine is ready: the statistics, the *)
(* charts, the repository's filter, the status the pages and the tools show *)
(* and the drink-next page.  They agree on every wine, and the four answers *)
(* partition the cellar; the sorts of the page are each other's reverse on  *)
(* the wines whose window is known.                                         *)
WindowsReconcile ==
  LET Status(s) == {b \in InCellar : DrinkStatus(bottles[b].wine) = s}
      stats == DrinkingWindowStats   lists == DrinkingWindowWines   counted == CountWithDrinkingWindow
      inCellar == WinesOf(InCellar)
      known == {w \in inCellar : DrinkStatus(w) # "unknown"}
  IN
  /\ stats.ready_to_drink = Quantity(Status("ready"))
  /\ stats.to_hold = Quantity(Status("hold"))
  /\ stats.unknown = Quantity(Status("unknown"))
  /\ lists.ready_now = inCellar \cap GetAll(Null, Null, Null, TRUE)
  /\ lists.for_aging = WinesOf(Status("hold"))
  /\ lists.drink_soon \cap lists.for_aging =
       {w \in WinesOf(Status("hold")) : Wine[w].to <= CurrentYear + 2}
  /\ GetAll(Null, Null, Null, FALSE) = wines \ GetAll(Null, Null, Null, TRUE)
  /\ \A t \in {Wine[w].wine_type : w \in wines} : \A T \in (IF t \in DOMAIN DrinkNext THEN DrinkNext[t] ELSE {{}}) :
       /\ T \subseteq DOMAIN CellarWines(t, TRUE, Null, Null)
       /\ Cardinality(T) = Min({Shown, Cardinality(DOMAIN CellarWines(t, TRUE, Null, Null))})
  /\ DrinkSorted(known, TRUE) = Reverse(DrinkSorted(known, FALSE)) \/ \E v, w \in known : v # w /\ DrinkStatus(v) = DrinkStatus(w) /\ Wine[v].to = Wine[w].to
  /\ \A later \in BOOLEAN : Range(SubSeq(DrinkSorted(inCellar, later), 1, Cardinality(known))) = known
  /\ counted.with_window + counted.without_window = counted.total
  /\ Total(counted.by_source) = counted.total - Cardinality({w \in wines : Wine[w].drink_window_source = Null})

(* The history tells one story: every grouping of it has the same bottles,  *)
(* the two histograms agree range by range, the best wine of a group is one *)
(* of its rated wines and has its highest rating, an offered filter never   *)
(* leads to an empty list and the offered ones cover it.  A range of        *)
(* vintages drops wines without one on the pages and keeps them in the tool.*)
(* The rating timeline, the trend and the streak of months are what the     *)
(* list filtered by dates shows month by month, scans without a date (which *)
(* are stored as drunk on 2010-01-01) included.                             *)
HistoryReconciles ==
  LET total == ConsumedCount(NoFilter)
      rated == ConsumedCount([NoFilter EXCEPT !.rating = "rated"])
      ratings == RatingStatistics   overview == TasteOverview
      buckets == RatingDistribution.buckets   timeline == RatingTimeline   types == WineTypeStats
      fine(k) == IF k \in DOMAIN buckets THEN buckets[k] ELSE 0
      Tastings(f) == MapThenSumSet(LAMBDA k : f[k].tasted.wines_tasted, DOMAIN f)
      HasBest(f) == \A k \in DOMAIN f :
        IF f[k].tasted.highest = Null THEN f[k].best_wine = Null
        ELSE /\ f[k].best_wine \in WinesOf(Rated(Consumed)) /\ Rating(f[k].best_wine) = f[k].tasted.highest
             /\ f[k].tasted.avg.sum <= f[k].tasted.highest * f[k].tasted.avg.count
      In(m) == FilteredConsumed([NoFilter EXCEPT !.consumed_from = m, !.consumed_to = m])
      rateds == {m \in MonthsTasted : Rated(In(m)) # {}}
      ByOption(S, field, value) == Filtered(S, [NoFilter EXCEPT ![field] = value])
      Covers(S, field, options) ==
        /\ \A v \in options : ByOption(S, field, v) # {}
        /\ UNION {ByOption(S, field, v) : v \in options} = S \ Of(S, field, Null)
      Vintages(S) == [NoFilter EXCEPT !.min_vintage = FilterOptions(S).min_vintage, !.max_vintage = FilterOptions(S).max_vintage]
  IN
  /\ rated + ConsumedCount([NoFilter EXCEPT !.rating = "unrated"]) = total
  /\ \A m \in Months \cup {Undated} :
       ConsumedCount([NoFilter EXCEPT !.consumed_to = m]) + ConsumedCount([NoFilter EXCEPT !.consumed_from = m + 1]) = total
  /\ \A T \in ConsumedWines(NoFilter, "rating_desc").items : T # {} => Highest(T) = ratings.overall.max
  /\ \A b \in Consumed : LET found(field, f) == b \in FilteredConsumed([NoFilter EXCEPT ![f] = Row(b)[field]]) IN
       found("wine_name", "search") /\ found("varietal", "search") /\ found("region", "region")
  /\ Tastings(types) = total
  /\ Tastings(CountryStats) = total - Cardinality(Of(Consumed, "country", Null))
  /\ HasBest(CountryStats) /\ HasBest(VarietalPreferences) /\ HasBest(ProducerPreferences)
  /\ HasBest(RegionPreferences) /\ HasBest(AppellationStats) /\ HasBest(VintageStats)
  /\ MapThenSumSet(LAMBDA m : timeline[m].count, DOMAIN timeline) = rated
  /\ Total(buckets) = rated /\ ratings.overall.wines_rated = rated
  /\ LET c == ratings.distribution   coarse(k) == IF k \in DOMAIN c THEN c[k] ELSE 0 IN
     /\ coarse(0) = fine(0) /\ coarse(50) = fine(50) + fine(55) + fine(60) + fine(65)
     /\ coarse(70) = fine(70) + fine(75) /\ coarse(80) = fine(80) + fine(85) /\ coarse(90) = fine(90) + fine(95)
  /\ overview.highly_rated = ConsumedCount([NoFilter EXCEPT !.min_rating = 90])
  /\ overview.highly_rated <= overview.wines_rated
  /\ DOMAIN timeline = rateds /\ \A m \in rateds : timeline[m].avg = Mean(In(m))
  /\ Cardinality(rateds) \in 2..12 =>
       /\ (RatingTrend = "improving") = MeanAbove(Mean(In(Max(rateds))), Mean(In(Min(rateds))))
       /\ (RatingTrend = "declining") = MeanAbove(Mean(In(Min(rateds))), Mean(In(Max(rateds))))
  /\ Consumed # {} => LET newest == Max(MonthsTasted) IN
       /\ \A i \in 1..TastingStreak : In(newest + 1 - i) # {}
       /\ In(newest - TastingStreak) = {}
  /\ \A S \in {InCellar, Consumed} : LET o == FilterOptions(S) IN
     /\ Covers(S, "wine_type", o.wine_types) /\ Covers(S, "country", o.countries)
     /\ Covers(S, "producer", o.producers)
     /\ Filtered(S, Vintages(S)) = {b \in S : VintageOf(b) # Null}
  /\ LET o == FilterOptions(InCellar) IN
     DOMAIN CellarWines(Null, Null, o.min_vintage, o.max_vintage) = WinesOf(InCellar)
  /\ TasteProfileSummary.total = Total([t \in DOMAIN AverageRatingByWineType |-> AverageRatingByWineType[t].count])
  /\ Cardinality(WinesWithTasting(TRUE, Null)) = TasteProfileSummary.total

(* Every page, chart and tool that reports the same bottles, the same windows *)
(* or the same tastings reports the same number.                             *)
ReportsReconcile == CellarReconciles /\ WindowsReconcile /\ HistoryReconciles
=============================================================================
