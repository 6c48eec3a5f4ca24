--------------------------- MODULE CellarRecords ---------------------------
(***************************************************************************)
(* The rows of wines, bottles and tastings and the repository calls that   *)
(* write them: creation, consumption, personal notes, community scores,    *)
(* deletion, the import of a Vivino export and the recalibration of its    *)
(* ratings.  A call is one transaction, and the commands of this module    *)
(* run one at a time: overlapping synchronisations are in CellarSync.      *)
(*                                                                         *)
(* A wine is its number; what its row says of it does not change here.     *)
(***************************************************************************)
EXTENDS Integers, Sequences, FiniteSetsExt, Functions

CONSTANTS
  Wine,         \* per wine id: its row, joined with its producer and region
  Alike,        \* pairs of names or producers whose similarity is 90 %
  Parcels,      \* bottle rows that may be created
  Notes,        \* personal notes: rating and like
  Communities,  \* community scores, and Null
  Exports,      \* what a Vivino export may say of a wine: ratings, average, scan dates
  Months,       \* months in which a bottle may be consumed, oldest first
  MaxBottles, MaxNotes,  \* bounds: bottle rows ever created, writes of tastings
  Null

WineIds   == DOMAIN Wine
VivinoIds == {w \in WineIds : Wine[w].source = "vivino"}

(* The columns and CHECKs of the tables of bottles and tastings.           *)
Scores == 0..100
Bottle ==
  [wine : WineIds, source : {"cellar_tracker", "vivino", "manual"}, quantity : Nat,
   status : {"in_cellar", "consumed", "gifted", "lost"}, price : Nat \cup {Null},
   currency : {"RON"} \cup STRING \cup {Null},  \* the default, any other, or none
   location : STRING \cup {Null}, bought : Nat \cup {Null}, consumed : Nat \cup {Null}]
DatedWhenConsumed(b) ==
  (b.status = "in_cellar" => b.consumed = Null) /\ (b.status = "consumed" => b.consumed # Null)
Tasting ==
  [rating : Scores \cup {Null}, like : BOOLEAN \cup {Null}, defective : BOOLEAN,
   community : Scores \cup {Null}, tasted : Months \cup {Null}]
NoTasting == [rating |-> Null, like |-> Null, defective |-> FALSE, community |-> Null, tasted |-> Null]

(* Only the Vivino import creates bottles whose source is "vivino"; a rating *)
(* it reads is at most five stars, in tenths.                              *)
ASSUME RecordsAssumption ==
  /\ WineIds \subseteq Nat /\ Months \subseteq Nat \ {0}
  /\ \A w \in WineIds : IF Wine[w].from = Null THEN Wine[w].to = Null ELSE Wine[w].from <= Wine[w].to
  /\ \A p \in Parcels : p \in Bottle /\ p.source # "vivino" /\ DatedWhenConsumed(p)
  /\ \A n \in Notes : n.rating \in Scores \cup {Null} /\ n.like \in BOOLEAN \cup {Null}
  /\ Communities \subseteq Scores \cup {Null}
  /\ \A e \in Exports : /\ e.stars \subseteq 0..50 /\ e.community \in Scores \cup {Null}
                        /\ e.dates \in Seq(Months \cup {Null})
  /\ MaxBottles \in Nat /\ MaxNotes \in Nat
  /\ Null \notin Nat /\ Null \notin Exports /\ Null \notin Tasting

VARIABLES
  wines,     \* ids of the rows of wines
  bottles,   \* per id of a row of bottles: the row
  tastings,  \* per wine: its row of tastings, or Null
  origin,    \* history: the export a wine's personal fields come from, or Null
  budget     \* bounds: bottle ids and writes of tastings left

recordVars == <<wines, bottles, tastings, origin, budget>>

RecordsInit ==
  /\ wines = {} /\ bottles = <<>>
  /\ tastings = [w \in WineIds |-> Null] /\ origin = [w \in WineIds |-> Null]
  /\ budget = [bottles |-> MaxBottles, notes |-> MaxNotes]

-----------------------------------------------------------------------------
(* Wines and bottles. *)
CreateWine(w) ==
  /\ w \notin wines /\ wines' = wines \cup {w}
  /\ UNCHANGED <<bottles, tastings, origin, budget>>

(* Bottles and tastings reference their wine ON DELETE CASCADE. *)
DeleteWine(w) ==
  /\ w \in wines /\ wines' = wines \ {w}
  /\ bottles' = RestrictValues(bottles, LAMBDA b : b.wine # w)
  /\ tastings' = [tastings EXCEPT ![w] = Null] /\ origin' = [origin EXCEPT ![w] = Null]
  /\ UNCHANGED budget

NextBottle == 1 + MaxBottles - budget.bottles      \* AUTOINCREMENT
WithBottle(b, row) == [i \in (DOMAIN bottles) \cup {b} |-> IF i = b THEN row ELSE bottles[i]]

CreateBottle(parcel) ==
  /\ parcel.wine \in wines /\ budget.bottles > 0
  /\ bottles' = WithBottle(NextBottle, parcel)
  /\ budget' = [budget EXCEPT !.bottles = @ - 1]
  /\ UNCHANGED <<wines, tastings, origin>>

(* Whatever its status was. *)
MarkConsumed(b, month) ==
  /\ b \in DOMAIN bottles
  /\ bottles' = [bottles EXCEPT ![b].status = "consumed", ![b].consumed = month]
  /\ UNCHANGED <<wines, tastings, origin, budget>>

-----------------------------------------------------------------------------
(* Tastings: one row per wine, shared by personal and community fields.     *)
WriteTasting(w, row) ==
  /\ w \in wines /\ budget.notes > 0
  /\ tastings' = [tastings EXCEPT ![w] = row]
  /\ budget' = [budget EXCEPT !.notes = @ - 1]
  /\ UNCHANGED <<wines, bottles>>

Own(w, new) == origin' = [origin EXCEPT ![w] = new]

CreateTasting(w, note) ==                     \* UNIQUE(wine_id)
  /\ tastings[w] = Null
  /\ WriteTasting(w, [NoTasting EXCEPT !.rating = note.rating, !.like = note.like])
  /\ Own(w, Null)

(* build_update_query leaves out fields that are None, zero or false. *)
Kept(new, empty, old) == IF new \in {Null, empty} THEN old ELSE new
UpdateTasting(w, note) ==
  /\ tastings[w] # Null
  /\ WriteTasting(w, [tastings[w] EXCEPT !.rating = Kept(note.rating, 0, @), !.like = Kept(note.like, FALSE, @)])
  /\ Own(w, Null)

UpdateDefectiveFlag(w, flag) ==
  /\ tastings[w] # Null
  /\ WriteTasting(w, [tastings[w] EXCEPT !.defective = flag])
  /\ UNCHANGED origin

CommunityRow(old, score) ==
  IF old = Null THEN [NoTasting EXCEPT !.community = score]
  ELSE [old EXCEPT !.community = IF score = Null THEN @ ELSE score]
UpsertCommunityData(w, score) ==
  WriteTasting(w, CommunityRow(tastings[w], score)) /\ UNCHANGED origin

DeleteTasting(w) ==
  tastings[w] # Null /\ WriteTasting(w, Null) /\ Own(w, Null)

-----------------------------------------------------------------------------
(* Vivino.  Ratings are tenths of a star; a score is interpolated between   *)
(* the anchors and rounded half up.                                         *)
Anchors == <<<<10, 70>>, <<15, 75>>, <<20, 75>>, <<25, 80>>, <<30, 85>>,
             <<35, 88>>, <<38, 92>>, <<40, 93>>, <<45, 97>>, <<50, 100>>>>

PersonalScore(stars) ==
  IF stars <= 10 THEN 70
  ELSE LET i  == Min({j \in 2..Len(Anchors) : stars <= Anchors[j][1]})
           lo == Anchors[i - 1]   hi == Anchors[i]   span == hi[1] - lo[1]
       IN  (2 * (lo[2] * span + (stars - lo[1]) * (hi[2] - lo[2])) + span) \div (2 * span)

(* The best of the ratings given to a wine decides. *)
Scored(export, old) ==
  IF export.stars = {} THEN old
  ELSE [old EXCEPT !.rating = PersonalScore(Max(export.stars)), !.like = Max(export.stars) >= 35]

(* Empty dates are left out; one that cannot be parsed is None, and max()    *)
(* does not compare None with another date.                                 *)
Dates(export)    == {d \in Range(export.dates) : d # Null}
BadDates(export) == Len(export.dates) > 1 /\ Null \in Range(export.dates)
LastTasted(export) == IF Dates(export) = {} THEN Null ELSE Max(Dates(export))

Later(new, old) == IF new # Null /\ (old = Null \/ new > old) THEN new ELSE old

(* _create_or_update_tasting: update() skips a like that is false, so the   *)
(* personal fields are then written again by update_vivino_personal_rating. *)
ImportedSkippingFalse(export, old) ==         \* a mutant of the next
  LET row == IF old = Null THEN NoTasting ELSE old IN
  IF export.stars = {} /\ export.community = Null THEN old
  ELSE [row EXCEPT !.rating = Kept(Scored(export, row).rating, 0, @), !.like = Kept(Scored(export, row).like, FALSE, @),
          !.community = Kept(export.community, 0, @), !.tasted = Later(LastTasted(export), @)]
ImportedTasting(export, old) ==
  LET row == IF old = Null THEN NoTasting ELSE old IN
  IF export.stars = {} /\ export.community = Null THEN old
  ELSE [Scored(export, row) EXCEPT !.community = Kept(export.community, 0, @),
                                   !.tasted = Later(LastTasted(export), @)]

(* find_duplicates: vintage 30, producer 30 and name 40 points of 100, of   *)
(* which 85 are a match.                                                    *)
Similarity(a, b) == IF a = b THEN 100 ELSE IF {a, b} \in Alike THEN 90 ELSE 0
Duplicates(w) ==
  {v \in wines : /\ Wine[v].wine_type = Wine[w].wine_type
                 /\ (IF Wine[v].vintage = Wine[w].vintage THEN 3000 ELSE 0)
                    + 30 * Similarity(Wine[v].producer, Wine[w].producer)
                    + 40 * Similarity(Wine[v].wine_name, Wine[w].wine_name) >= 8500}

Undated == 0   \* 2010-01-01, the date of a scan without one, before all Months
ScanBottle(w, export) ==
  [wine |-> w, source |-> "vivino", quantity |-> 1, status |-> "consumed", price |-> Null, location |-> Null,
   currency |-> "RON", bought |-> Null, consumed |-> IF LastTasted(export) = Null THEN Undated ELSE LastTasted(export)]
ScanBottlesOf(w) == {b \in DOMAIN bottles : bottles[b].wine = w /\ bottles[b].source = "vivino"}

(* One row of the import.  It fails after the wine was written when the     *)
(* dates of its scans do not compare.                                       *)
ImportWine(w, export) ==
  /\ w \in VivinoIds /\ (w \in wines \/ Duplicates(w) = {})
  /\ wines' = wines \cup {w}
  /\ IF BadDates(export) THEN UNCHANGED <<bottles, tastings, origin, budget>>
     ELSE /\ tastings' = [tastings EXCEPT ![w] = ImportedTasting(export, @)]
          /\ origin' = [origin EXCEPT ![w] = IF export.stars = {} THEN @ ELSE export]
          /\ LET found == ScanBottlesOf(w) IN
             /\ found = {} => budget.bottles > 0
             /\ bottles' = WithBottle(IF found = {} THEN NextBottle ELSE Min(found), ScanBottle(w, export))
             /\ budget' = [budget EXCEPT !.bottles = IF found = {} THEN @ - 1 ELSE @]

SkipDuplicate(w) == w \in VivinoIds \ wines /\ Duplicates(w) # {} /\ UNCHANGED recordVars

(* The recalibration reads an export and applies all its changes in one     *)
(* transaction; a preview applies none.                                     *)
Recalibrated(csv) ==
  [w \in WineIds |-> IF w \in wines /\ w \in DOMAIN csv /\ tastings[w] # Null
                     THEN Scored(csv[w], tastings[w]) ELSE tastings[w]]
Changes(csv) == {w \in WineIds : Recalibrated(csv)[w] # tastings[w]}

Recalibrate(csv) ==
  /\ Changes(csv) # {} /\ budget.notes > 0
  /\ tastings' = Recalibrated(csv)
  /\ origin' = [w \in WineIds |-> IF w \in wines /\ w \in DOMAIN csv /\ tastings[w] # Null /\ csv[w].stars # {}
                                  THEN csv[w] ELSE origin[w]]
  /\ budget' = [budget EXCEPT !.notes = @ - 1]
  /\ UNCHANGED <<wines, bottles>>

-----------------------------------------------------------------------------
RecordsNext ==
  \/ \E w \in WineIds : CreateWine(w) \/ DeleteWine(w) \/ DeleteTasting(w) \/ SkipDuplicate(w)
  \/ \E p \in Parcels : CreateBottle(p)
  \/ \E b \in DOMAIN bottles, m \in Months : MarkConsumed(b, m)
  \/ \E w \in wines, n \in Notes : CreateTasting(w, n) \/ UpdateTasting(w, n)
  \/ \E w \in wines, s \in Communities : UpsertCommunityData(w, s)
  \/ \E w \in wines, f \in BOOLEAN : UpdateDefectiveFlag(w, f)
  \/ \E w \in VivinoIds, e \in Exports : ImportWine(w, e)
  \/ \E csv \in [VivinoIds -> Exports] : Recalibrate(csv)

RecordsSpec == RecordsInit /\ [][RecordsNext]_recordVars

RecordsTyped ==
  /\ wines \subseteq WineIds
  /\ DOMAIN bottles \subseteq 1..MaxBottles /\ bottles \in [DOMAIN bottles -> Bottle]
  /\ tastings \in [WineIds -> Tasting \cup {Null}] /\ origin \in [WineIds -> Exports \cup {Null}]
  /\ budget \in [bottles : 0..MaxBottles, notes : 0..MaxNotes]

(* Personal and community fields share a row that imports, community        *)
(* upserts and recalibrations write by different rules.  A recalibration    *)
(* with the export a wine was last imported from finds nothing to change,   *)
(* whatever was upserted in between; every tasting and every bottle belongs *)
(* to a wine, consumed bottles are dated, and scans share one bottle.       *)
RecordsInvariant ==
  /\ RecordsTyped
  /\ \A w \in VivinoIds : origin[w] # Null => w \notin Changes([v \in {w} |-> origin[w]])
  /\ \A b \in DOMAIN bottles : bottles[b].wine \in wines /\ DatedWhenConsumed(bottles[b])
  /\ \A w \in WineIds : (tastings[w] # Null => w \in wines) /\ Cardinality(ScanBottlesOf(w)) <= 1
=============================================================================
