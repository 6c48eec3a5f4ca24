----------------------------- MODULE CellarSync -----------------------------
(***************************************************************************)
(* The synchronisation of the cellar with CellarTracker, started from the  *)
(* command line or by POST /api/cellar/sync, which nothing keeps from      *)
(* overlapping, and the wine descriptions the API generates meanwhile.     *)
(* Every repository call is a transaction of its own, a row of a feed that *)
(* fails is counted and skipped, and a crash leaves what was committed.    *)
(*                                                                         *)
(* The rows of different wines touch different records, so the model       *)
(* follows one wine: the source of its drinking window, its bottles and    *)
(* its personal rating.  Producers, regions, grapes, community ratings and *)
(* the availability score are upserts no property reads.                   *)
(***************************************************************************)
EXTENDS Naturals, Sequences, FiniteSetsExt

CONSTANTS
  Bottles,      \* barcodes of the wine
  Ratings,      \* personal ratings a note may hold
  Syncs,        \* requests or processes that run an import
  Describers,   \* requests for a generated description of the wine
  MaxRuns, MaxEdits, MaxFaults,  \* bounds: imports, changes of the remote cellar, failures
  Null

ASSUME CellarAssumption ==
  /\ IsFiniteSet(Syncs) /\ Syncs # {}
  /\ Ratings \subseteq Nat \ {0} /\ Null \notin Bottles \cup Ratings
  /\ Null \notin {"manual", "cellar_tracker", "llm", "heuristic", "absent", "in_cellar", "consumed"}
  /\ MaxRuns \in Nat /\ MaxEdits \in Nat /\ MaxFaults \in Nat

VARIABLES
  remote,     \* the cellar at CellarTracker
  window,     \* source of the window: Null without one, "absent" without a wine
  rows,       \* per barcode: the statuses of its rows in bottles, by rowid
  rating,     \* personal_rating, 0 for none
  sync,       \* the running imports
  log,        \* status of the last sync_log entry of each
  describe,   \* the running generations of a description
  budget,     \* bounds: imports, edits and faults left
  overlapped  \* history: two imports have overlapped

syncVars == <<remote, window, rows, rating, sync, log, describe, budget, overlapped>>

Sources  == {"manual", "cellar_tracker", "llm", "heuristic"}
Statuses == {"in_cellar", "consumed"}
Remote == [bottles: [Bottles -> Statuses \cup {Null}], window: BOOLEAN, notes: SUBSET Ratings]
Phases == {"idle", "inventory", "bottles", "notes", "estimate", "complete"}
Steps  == {"fetch", "next", "wine", "lookup", "bottle", "note", "select", "update"}
Known  == Sources \cup {Null, "absent"}
Sync == [phase: Phases, step: Steps, feed: Remote, todo: SUBSET (Bottles \cup Ratings),
         row: Bottles \cup Ratings \cup {Null}, known: Known, found: BOOLEAN,
         seen: Ratings \cup {0}, errors: Nat, alone: BOOLEAN]

EmptyCellar == [bottles |-> [b \in Bottles |-> Null], window |-> FALSE, notes |-> {}]
IdleSync == [phase |-> "idle", step |-> "fetch", feed |-> EmptyCellar, todo |-> {}, row |-> Null,
             known |-> Null, found |-> FALSE, seen |-> 0, errors |-> 0, alone |-> TRUE]

SyncInit ==
  /\ remote \in {r \in Remote : r.notes = Ratings}
  /\ window \in Known /\ rating = 0
  /\ rows \in IF window = "absent" THEN {[b \in Bottles |-> <<>>]}
              ELSE [Bottles -> {<<>>} \cup {<<s>> : s \in Statuses}]
  /\ sync = [s \in Syncs |-> IdleSync] /\ log = [s \in Syncs |-> Null]
  /\ describe = [d \in Describers |-> [step |-> "idle", known |-> Null]]
  /\ budget = [runs |-> MaxRuns, edits |-> MaxEdits, faults |-> MaxFaults]
  /\ overlapped = FALSE

-----------------------------------------------------------------------------
(* Windows.  A lower number is a higher priority.                           *)
Priority(source) ==
  CASE source = "manual" -> 1 [] source = "cellar_tracker" -> 2
    [] source = "llm" -> 3 [] source = "heuristic" -> 4 [] OTHER -> 99

(* update_drinking_window reads the source and then writes, unprotected:    *)
(* what it writes when it knows the source read.                            *)
WindowUnchecked(source, known) == source                 \* a mutant of the next
WindowAfter(source, known) == IF Priority(source) > Priority(known) THEN window ELSE source

(* A dynamic update writes the fields of its object that are not empty: an  *)
(* object without a window leaves the window alone.                         *)
UpdatedWindow(source) == IF source = Null THEN window ELSE source

-----------------------------------------------------------------------------
(* Imports.  The feed of a phase is fetched when the phase starts.          *)
Running(s) == sync[s].phase # "idle"
Step(s, phase, step) == sync[s].phase = phase /\ sync[s].step = step

StartSync(s) ==
  /\ ~Running(s) /\ budget.runs > 0
  /\ budget' = [budget EXCEPT !.runs = @ - 1]
  /\ LET others == {t \in Syncs : Running(t)}
     IN  /\ sync' = [t \in Syncs |->
              IF t = s THEN [IdleSync EXCEPT !.phase = "inventory", !.alone = others = {}]
              ELSE [sync[t] EXCEPT !.alone = FALSE]]
         /\ overlapped' = (overlapped \/ others # {})
  /\ log' = [log EXCEPT ![s] = "in_progress"]
  /\ UNCHANGED <<remote, window, rows, rating, describe>>

InCellar(r) == {b \in Bottles : r.bottles[b] = "in_cellar"}
Records(phase, r) ==
  CASE phase = "inventory" -> InCellar(r)
    [] phase = "bottles"   -> {b \in Bottles : r.bottles[b] # Null}
    [] phase = "notes"     -> r.notes

FeedOf(s) == IF sync[s].phase = "notes" THEN [sync[s].feed EXCEPT !.notes = remote.notes]
             ELSE [sync[s].feed EXCEPT !.bottles = remote.bottles, !.window = remote.window]

Fetch(s) ==
  /\ sync[s].step = "fetch" /\ sync[s].phase \in {"inventory", "bottles", "notes"}
  /\ sync' = [sync EXCEPT ![s].step = "next", ![s].feed = FeedOf(s),
                          ![s].todo = Records(sync[s].phase, remote)]
  /\ UNCHANGED <<remote, window, rows, rating, log, describe, budget, overlapped>>

(* The next row; the wine (or, for a note, its tasting) is read first.      *)
NextRow(s) ==
  /\ sync[s].step = "next"
  /\ \E row \in sync[s].todo :
       LET rest == [sync[s] EXCEPT !.todo = @ \ {row}]
       IN  sync' = [sync EXCEPT ![s] =
             IF sync[s].phase # "notes"
             THEN [rest EXCEPT !.row = row, !.step = "wine", !.known = window]
             ELSE IF window = "absent" THEN rest
             ELSE [rest EXCEPT !.row = row, !.step = "note", !.seen = rating]]
  /\ UNCHANGED <<remote, window, rows, rating, log, describe, budget, overlapped>>

RowDone(t)   == [t EXCEPT !.step = "next", !.row = Null, !.found = FALSE, !.seen = 0, !.known = Null]
RowFailed(t) == [RowDone(t) EXCEPT !.errors = @ + 1]

(* An existing wine is updated by the inventory only, and keeps a manual    *)
(* window; a new one is created, unless another import has just done it.    *)
Offered(s) == IF sync[s].feed.window THEN "cellar_tracker" ELSE Null
Record(s) == IF sync[s].known = "manual" THEN "manual" ELSE Offered(s)

WriteWine(s) ==
  /\ sync[s].step = "wine"
  /\ IF sync[s].known = "absent" /\ window # "absent"
     THEN sync' = [sync EXCEPT ![s] = RowFailed(@)] /\ UNCHANGED window
     ELSE /\ sync' = [sync EXCEPT ![s].step = "lookup", ![s].known = Null]
          /\ window' = IF sync[s].known = "absent" THEN Offered(s)
                       ELSE IF sync[s].phase = "inventory" THEN UpdatedWindow(Record(s)) ELSE window
  /\ UNCHANGED <<remote, rows, rating, log, describe, budget, overlapped>>

BottleExistsIfKept(b) == rows[b] # <<>> /\ rows[b][1] = "in_cellar"   \* a mutant of the next
BottleExists(b) == rows[b] # <<>>

LookupBottle(s) ==
  /\ sync[s].step = "lookup"
  /\ sync' = [sync EXCEPT ![s].step = "bottle", ![s].found = BottleExists(sync[s].row)]
  /\ UNCHANGED <<remote, window, rows, rating, log, describe, budget, overlapped>>

(* Updating cannot clear consumed_date, so the table's CHECK refuses to put *)
(* a consumed bottle back into the cellar.                                  *)
Refused(s, status) ==
  sync[s].found /\ status = "in_cellar" /\ rows[sync[s].row][1] = "consumed"

Skipped(t) == RowFailed(t)

WriteBottle(s) ==
  /\ sync[s].step = "bottle"
  /\ LET b == sync[s].row
         status == IF sync[s].phase = "inventory" THEN "in_cellar" ELSE sync[s].feed.bottles[b]
     IN  IF Refused(s, status)
         THEN sync' = [sync EXCEPT ![s] = Skipped(@)] /\ UNCHANGED rows
         ELSE /\ sync' = [sync EXCEPT ![s] = RowDone(@)]
              /\ rows' = [rows EXCEPT ![b] = IF sync[s].found THEN [@ EXCEPT ![1] = status]
                                             ELSE Append(@, status)]
  /\ UNCHANGED <<remote, window, rating, log, describe, budget, overlapped>>

(* A note raises the rating; text or a date that is new rewrites the row    *)
(* with the rating read before.                                             *)
RatingOfNote(seen, note) == IF note > seen THEN note ELSE seen

WriteNote(s) ==
  /\ sync[s].step = "note"
  /\ \E rewrite \in BOOLEAN :
       rating' = IF rewrite \/ sync[s].row > sync[s].seen
                 THEN RatingOfNote(sync[s].seen, sync[s].row) ELSE rating
  /\ sync' = [sync EXCEPT ![s] = RowDone(@)]
  /\ UNCHANGED <<remote, window, rows, log, describe, budget, overlapped>>

(* A bad record or a busy database fails a row at any of its steps.         *)
FailRow(s) ==
  /\ sync[s].row # Null /\ sync[s].phase # "estimate" /\ budget.faults > 0
  /\ sync' = [sync EXCEPT ![s] = RowFailed(@)]
  /\ budget' = [budget EXCEPT !.faults = @ - 1]
  /\ UNCHANGED <<remote, window, rows, rating, log, describe, overlapped>>

NextPhase(phase) ==
  CASE phase = "inventory" -> "bottles" [] phase = "bottles" -> "notes" [] phase = "notes" -> "estimate"

EndPhase(s) ==
  /\ sync[s].step = "next" /\ sync[s].todo = {}
  /\ sync' = [sync EXCEPT ![s].phase = NextPhase(@), ![s].step = "fetch"]
  /\ UNCHANGED <<remote, window, rows, rating, log, describe, budget, overlapped>>

(* Estimation by rules of the windows found missing; its failures are only  *)
(* logged, and a wine no rule matches is left.                              *)
Estimate(s) ==
  /\ Step(s, "estimate", "fetch")
  /\ \/ window = Null /\ sync' = [sync EXCEPT ![s].step = "select"]
     \/ sync' = [sync EXCEPT ![s].phase = "complete"]      \* none missing, or no rule
  /\ UNCHANGED <<remote, window, rows, rating, log, describe, budget, overlapped>>

SelectWindow(s) ==
  /\ Step(s, "estimate", "select")
  /\ sync' = [sync EXCEPT ![s].step = "update", ![s].known = window]
  /\ UNCHANGED <<remote, window, rows, rating, log, describe, budget, overlapped>>

UpdateWindow(s) ==
  /\ Step(s, "estimate", "update")
  /\ window' = WindowAfter("heuristic", sync[s].known)
  /\ sync' = [sync EXCEPT ![s].phase = "complete", ![s].step = "fetch", ![s].known = Null]
  /\ UNCHANGED <<remote, rows, rating, log, describe, budget, overlapped>>

(* Errors of rows do not make the log's status anything but "success"; a    *)
(* failed fetch makes it "failed", a crash leaves it.                       *)
CompleteLog(s) ==
  /\ sync[s].phase = "complete"
  /\ log' = [log EXCEPT ![s] = "success"] /\ sync' = [sync EXCEPT ![s] = IdleSync]
  /\ UNCHANGED <<remote, window, rows, rating, describe, budget, overlapped>>

Stop(s) ==
  /\ budget.faults > 0 /\ budget' = [budget EXCEPT !.faults = @ - 1]
  /\ sync' = [sync EXCEPT ![s] = IdleSync]
  /\ UNCHANGED <<remote, window, rows, rating, describe, overlapped>>

FailFetch(s) ==
  /\ sync[s].step = "fetch" /\ sync[s].phase \in {"inventory", "bottles", "notes"}
  /\ log' = [log EXCEPT ![s] = "failed"]
  /\ Stop(s)

Crash(s) == Running(s) /\ Stop(s) /\ UNCHANGED log

-----------------------------------------------------------------------------
(* Descriptions.  The wine is read before the model is asked; its object,   *)
(* with the window read then, is written back with the description; then    *)
(* the window of the answer, if it has one, is persisted.                   *)
ReadWine(d) ==
  /\ describe[d].step = "idle" /\ window # "absent"
  /\ describe' = [describe EXCEPT ![d] = [step |-> "asked", known |-> window]]
  /\ UNCHANGED <<remote, window, rows, rating, sync, log, budget, overlapped>>

SaveDescription(d) ==
  /\ describe[d].step = "asked"
  /\ window' = UpdatedWindow(describe[d].known)
  /\ \/ /\ Priority("llm") <= Priority(describe[d].known)
        /\ describe' = [describe EXCEPT ![d].step = "select"]
     \/ describe' = [describe EXCEPT ![d].step = "done"]
  /\ UNCHANGED <<remote, rows, rating, sync, log, budget, overlapped>>

SelectLlmWindow(d) ==
  /\ describe[d].step = "select"
  /\ describe' = [describe EXCEPT ![d] = [step |-> "update", known |-> window]]
  /\ UNCHANGED <<remote, window, rows, rating, sync, log, budget, overlapped>>

UpdateLlmWindow(d) ==
  /\ describe[d].step = "update"
  /\ window' = WindowAfter("llm", describe[d].known)
  /\ describe' = [describe EXCEPT ![d].step = "done"]
  /\ UNCHANGED <<remote, rows, rating, sync, log, budget, overlapped>>

(* The owner changes the remote cellar.                                     *)
Edit ==
  /\ budget.edits > 0
  /\ budget' = [budget EXCEPT !.edits = @ - 1]
  /\ \/ \E b \in Bottles, status \in Statuses : remote' = [remote EXCEPT !.bottles[b] = status]
     \/ remote' = [remote EXCEPT !.window = ~@]
  /\ UNCHANGED <<window, rows, rating, sync, log, describe, overlapped>>

SyncNext ==
  \/ \E s \in Syncs :
       \/ StartSync(s) \/ Fetch(s) \/ NextRow(s) \/ WriteWine(s) \/ LookupBottle(s)
       \/ WriteBottle(s) \/ WriteNote(s) \/ FailRow(s) \/ EndPhase(s) \/ Estimate(s)
       \/ SelectWindow(s) \/ UpdateWindow(s) \/ CompleteLog(s) \/ FailFetch(s) \/ Crash(s)
  \/ \E d \in Describers :
       ReadWine(d) \/ SaveDescription(d) \/ SelectLlmWindow(d) \/ UpdateLlmWindow(d)
  \/ Edit

SyncSpec == SyncInit /\ [][SyncNext]_syncVars

-----------------------------------------------------------------------------
(* Every variable has the shape of the tables' and the importer's state, and *)
(* a bottle has at most one row per import that may run.                     *)
SyncTyped ==
  /\ remote \in Remote /\ window \in Known /\ rating \in Ratings \cup {0}
  /\ rows \in [Bottles -> Seq(Statuses)] /\ \A b \in Bottles : Len(rows[b]) <= Cardinality(Syncs)
  /\ sync \in [Syncs -> Sync] /\ overlapped \in BOOLEAN
  /\ log \in [Syncs -> {Null, "in_progress", "success", "failed"}]
  /\ describe \in [Describers -> [step: {"idle", "asked", "select", "update", "done"}, known: Known]]
  /\ budget \in [runs: 0..MaxRuns, edits: 0..MaxEdits, faults: 0..MaxFaults]

(* An import that ran alone and counted no error leaves the cellar as        *)
(* CellarTracker described it when it was fetched, whatever earlier imports  *)
(* left half done: each bottle of the feed has its status, and the rating is *)
(* no lower than that of any note.                                           *)
CleanImportMirrors ==
  \A s \in Syncs :
    sync[s].phase = "complete" /\ sync[s].errors = 0 /\ sync[s].alone =>
      /\ \A b \in Bottles : sync[s].feed.bottles[b] # Null =>
           rows[b] # <<>> /\ rows[b][1] = sync[s].feed.bottles[b]
      /\ \A r \in sync[s].feed.notes : window # "absent" => rating >= r

(* Only overlapping imports duplicate a bottle: crashes, failed rows and     *)
(* repeated imports do not, though nothing in the schema forbids a           *)
(* second row with the same barcode.                                         *)
DuplicatesOnlyFromOverlap ==
  ~overlapped => \A b \in Bottles : Len(rows[b]) <= 1

(* The cellar tables at every step of the imports: well formed, a mirror of  *)
(* the feed after a clean import, and no bottle twice without an overlap.    *)
CellarInvariant == SyncTyped /\ CleanImportMirrors /\ DuplicatesOnlyFromOverlap

(* A manual window survives every import, estimate and generated             *)
(* description, in any interleaving.                                         *)
ManualWindowKept == [][window = "manual" => window' = "manual"]_window

(* A window gives way to one of lower priority only through a writer that    *)
(* read the row before the better one was written.                           *)
Writing ==
  {sync[s].known : s \in {t \in Syncs : Step(t, "estimate", "update")}}
  \cup {describe[d].known : d \in {e \in Describers : describe[e].step \in {"asked", "update"}}}
LoweredOnlyByStaleRead ==
  [][Priority(window') > Priority(window) => \E known \in Writing : known # window]_window

(* Owners' windows are safe, and better windows are lost to stale reads only.*)
WindowsGiveWay == ManualWindowKept /\ LoweredOnlyByStaleRead
=============================================================================
