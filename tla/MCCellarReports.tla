-------------------------- MODULE MCCellarReports --------------------------
(* Small instances of CellarRecords, CellarReports and TasteProfile.         *)
EXTENDS TasteProfile

MCRow(source, type, name, vintage, region, varietal, window) ==
  [source |-> source, wine_type |-> type, wine_name |-> name, producer |-> "p", vintage |-> vintage,
   region |-> region, country |-> IF region = Null THEN Null ELSE "c", varietal |-> varietal,
   appellation |-> region, from |-> window[1], to |-> window[2], q_quantity |-> 1,
   drink_window_source |-> IF source = "vivino" \/ window[1] = Null THEN Null ELSE source]
MCWine ==
  <<MCRow("cellar_tracker", "Red", "n", 2015, "r", "g", <<2024, 2026>>),
    MCRow("cellar_tracker", "Unknown", "m", Null, Null, "g1", <<2027, 2028>>),
    MCRow("vivino", "Red", "n1", 2015, "r", Null, <<2020, 2026>>)>>
MCAlike == {{"n", "n1"}}

MCParcel(w, quantity, price, bought) ==
  [wine |-> w, source |-> "cellar_tracker", quantity |-> quantity, status |-> "in_cellar", price |-> price,
   currency |-> "RON", bought |-> bought, consumed |-> Null, location |-> "cellar"]
MCParcels == {MCParcel(1, 2, 50, 2), MCParcel(2, 1, Null, Null)}

MCNotes  == {[rating |-> 96, like |-> TRUE]}
MCExport(stars, community, dates) == [stars |-> stars, community |-> community, dates |-> dates]
MCExports == {MCExport({36, 42}, 88, <<3>>), MCExport({20}, Null, <<>>), MCExport({}, 90, <<3, Null>>)}

(* g1 is an alias of the grape g. *)
MCCanonical == [x \in {"g1"} |-> "g"]
MCTerms == [varietal |-> {"g", "g1"}, region |-> {"q"}]
MCStated(stance, kind, value) == [kind |-> kind, stance |-> stance, value |-> value]
MCCeiling(amount, currency) == [kind |-> "price_ceiling", stance |-> Null, amount |-> amount, currency |-> currency]
MCDeclarations ==
  {{}, {MCStated("avoid", "region", "q"), MCCeiling(60, "EUR")},
   {MCStated("like", "varietal", "g1"), MCStated("dislike", "wine_type", "Red"), MCCeiling(60, "RON")},
   {MCStated("dislike", "producer", "p"), MCStated("avoid", "varietal", "g")}}
MCQueries ==
  {[names |-> {"n", "n1"}, values |-> [varietal |-> Null, region |-> Null, wine_type |-> Null]],
   [names |-> {"none"}, values |-> [varietal |-> "g", region |-> "r1", wine_type |-> "Red"]]}
MCNested == {<<"r", "r1">>}
MCFoods == [x \in {"steak"} |-> [length |-> 5, types |-> {"Red"}, varietals |-> {"g"}]]
MCCheeses == {[types |-> {"Red", "Unknown"}, classics |-> <<"n1", "g">>]}
=============================================================================
