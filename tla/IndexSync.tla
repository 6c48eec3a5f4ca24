----------------------------- MODULE IndexSync -----------------------------
(***************************************************************************)
(* The search indexes of the document library: the Chroma collection, the  *)
(* tracker file of what was indexed, the BM25 file and its synchronisation *)
(* manifest.  They are four stores written one after another by the        *)
(* indexing command, which may fail on a file, be killed at any step, run  *)
(* beside another indexing command, and race files being edited and an API *)
(* process that opens the stores.                                          *)
(*                                                                         *)
(* A chunk id holds a hash of its text, so an id stands for its content    *)
(* and a hash over ids stands for the set of them.  A batch is one chunk.  *)
(***************************************************************************)
EXTENDS Naturals, FiniteSets

CONSTANTS
  Files, Versions,      \* documents and what they may contain
  FirstVersion,         \* what every document contains at first
  Texts(_, _),          \* the chunk texts of a version of a document
  Loaders,              \* processes of the indexing command
  MaxRuns, MaxGen,      \* bounds: commands started, collections created,
  MaxEdits,             \* documents edited
  Torn, Null

ASSUME LibraryAssumption ==
  FirstVersion \in Versions /\ Null \notin Versions /\ {MaxRuns, MaxGen, MaxEdits} \subseteq Nat

VARIABLES
  disk,     \* per document: the version in the library
  coll,     \* the collection by name (`live`, 0: none) and what each held
  tracker,  \* the tracker file: a mark per document, or torn
  bm25,     \* ids in the BM25 file, or none
  sync,     \* ids the synchronisation manifest was computed from, or none
  run,      \* per indexing process: where it stands
  api,      \* the API process and the retriever it built
  runs      \* history: commands started

vars == <<disk, coll, tracker, bm25, sync, run, api, runs>>

AllTexts == UNION {Texts(f, v) : f \in Files, v \in Versions}
Ids      == Files \X AllTexts
Marks    == [text: Versions, read: Versions, gen: 1..MaxGen]
NoMarks  == [f \in Files |-> Null]
Tracked  == [Files -> Marks \cup {Null}]
Places   == {"idle", "delete", "create", "plan", "file", "add", "open", "write",
             "read", "recheck", "index", "manifest", "verify", "done"}
Run == [pc: Places, force: BOOLEAN, handle: 0..MaxGen, todo: SUBSET Files,
        file: Files \cup {Null}, read: Versions \cup {Null}, pending: SUBSET Ids,
        bad: BOOLEAN, errors: BOOLEAN, marks: Tracked, snap: SUBSET Ids,
        loaded: [Files -> Versions \cup {Null}]]
Api == [at: {"down", "load", "manifest", "ids", "vector", "hybrid", "none"},
        handle: 0..MaxGen, index: SUBSET Ids, manifest: (SUBSET Ids) \cup {Null},
        cache: SUBSET Ids]

Idle == [pc |-> "idle", force |-> FALSE, handle |-> 0, todo |-> {}, file |-> Null,
         read |-> Null, pending |-> {}, bad |-> FALSE, errors |-> FALSE,
         marks |-> NoMarks, snap |-> {}, loaded |-> NoMarks]
Down == [at |-> "down", handle |-> 0, index |-> {}, manifest |-> Null, cache |-> {}]

TextsOf(ids)  == {i[2] : i \in ids}
Chunks(f, v)  == {<<f, t>> : t \in Texts(f, v)}
Reachable(l)  == run[l].handle = coll.live    \* its collection was not deleted
At(l, pc)     == run[l].pc = pc
Become(l, r)  == run' = [run EXCEPT ![l] = r]
Goto(l, pc)   == Become(l, [run[l] EXCEPT !.pc = pc])
(* A command that ended, killed, failed or complete, leaves its stores only. *)
End(l)        == Become(l, Idle)

Recreated == IF coll.live # 0 THEN coll
             ELSE [coll EXCEPT !.live = coll.last + 1, !.last = @ + 1]
(* Chroma keeps the first record of an id. *)
Added(g, i) == [coll EXCEPT !.recs[g] = @ \cup {i}]

Init ==
  /\ disk = [f \in Files |-> FirstVersion]
  /\ coll = [live |-> 0, last |-> 0, recs |-> [g \in 1..MaxGen |-> {}]]
  /\ tracker = NoMarks /\ bm25 = Null /\ sync = Null
  /\ run = [l \in Loaders |-> Idle] /\ api = Down
  /\ runs = 0

-----------------------------------------------------------------------------
(* The indexing command. *)

(* The loader gets or creates the collection; a forced run is refused       *)
(* beforehand when it has no document to read, which is never the case here *)
StartRun(l, force) ==
  /\ run[l].pc \in {"idle", "done"}
  /\ runs < MaxRuns /\ Recreated.last <= MaxGen
  /\ runs' = runs + 1
  /\ coll' = Recreated
  /\ Become(l, [Idle EXCEPT !.pc = IF force THEN "delete" ELSE "plan",
                            !.force = force, !.handle = coll'.live])
  /\ UNCHANGED <<disk, tracker, bm25, sync, api>>

(* Deleting a collection that is gone already raises. *)
DeleteCollection(l) ==
  /\ At(l, "delete")
  /\ coll' = [coll EXCEPT !.live = 0]
  /\ IF coll.live = 0 THEN End(l) ELSE Goto(l, "create")
  /\ UNCHANGED <<disk, tracker, bm25, sync, api, runs>>

CreateCollection(l) ==
  /\ At(l, "create") /\ Recreated.last <= MaxGen
  /\ coll' = Recreated
  /\ Become(l, [run[l] EXCEPT !.pc = "plan", !.handle = coll'.live])
  /\ UNCHANGED <<disk, tracker, bm25, sync, api, runs>>

Loaded == IF tracker = Torn THEN NoMarks ELSE tracker
IsFileIndexed(f) == Loaded[f] # Null /\ Loaded[f].text = disk[f]

(* A forced run takes every document and no tracker; another one takes what *)
(* the tracker does not mark with the present contents, and stops without   *)
(* a save when that is nothing.                                             *)
Plan(l) ==
  /\ At(l, "plan")
  /\ LET todo == IF run[l].force THEN Files ELSE {f \in Files : ~IsFileIndexed(f)}
     IN  IF todo = {} THEN End(l)
         ELSE Become(l, [run[l] EXCEPT !.todo = todo, !.pc = "file",
                           !.marks = IF run[l].force THEN NoMarks ELSE Loaded])
  /\ UNCHANGED <<disk, coll, tracker, bm25, sync, api, runs>>

(* Extraction, chunking and the duplicate check.  A check that fails counts *)
(* as no duplicate; anything else that fails fails the document.            *)
ProcessFile(l, f) ==
  /\ At(l, "file") /\ f \in run[l].todo
  /\ LET chunks  == Chunks(f, disk[f])
         present == IF Reachable(l) THEN TextsOf(coll.recs[run[l].handle]) ELSE {}
         Proceed(pending, bad) ==
           Become(l, [run[l] EXCEPT !.pc = "add", !.file = f, !.read = disk[f],
                        !.todo = @ \ {f}, !.pending = pending, !.bad = bad])
     IN  \/ Proceed({}, TRUE)
         \/ \E unchecked \in SUBSET chunks :
              Proceed({i \in chunks : i \in unchecked \/ i[2] \notin present}, FALSE)
  /\ UNCHANGED <<disk, coll, tracker, bm25, sync, api, runs>>

(* A batch that fails is reported, and the following ones are added. *)
AddBatch(l) ==
  /\ At(l, "add")
  /\ \E i \in run[l].pending :
       LET rest == [run[l] EXCEPT !.pending = @ \ {i}]
       IN  \/ Reachable(l) /\ coll' = Added(coll.live, i) /\ Become(l, rest)
           \/ UNCHANGED coll /\ Become(l, [rest EXCEPT !.bad = TRUE])
  /\ UNCHANGED <<disk, tracker, bm25, sync, api, runs>>

(* mark_indexed hashes the document as it is now. *)
MarkOf(l) == [text |-> disk[run[l].file], read |-> run[l].read, gen |-> run[l].handle]

Keeps(l) == run[l].bad \/ run[l].force        \* no mark for this document

FinishFile(l) ==
  /\ At(l, "add") /\ run[l].pending = {}
  /\ LET f == run[l].file
     IN  Become(l, [run[l] EXCEPT !.pc = IF Keeps(l) THEN "file" ELSE "open",
                         !.errors = @ \/ run[l].bad,
                         !.marks[f] = IF Keeps(l) THEN @ ELSE MarkOf(l),
                         !.loaded[f] = IF run[l].bad \/ ~run[l].force THEN @ ELSE run[l].read,
                         !.file = IF Keeps(l) THEN Null ELSE f,
                         !.read = Null, !.bad = FALSE])
  /\ UNCHANGED <<disk, coll, tracker, bm25, sync, api, runs>>

(* IndexTracker.save opens the file for writing, then writes it. *)
SaveOpen(l) ==
  /\ At(l, "open")
  /\ tracker' = Torn
  /\ Goto(l, "write")
  /\ UNCHANGED <<disk, coll, bm25, sync, api, runs>>

SaveWrite(l) ==
  /\ At(l, "write")
  /\ tracker' = run[l].marks
  /\ IF run[l].file = Null THEN End(l)
     ELSE Become(l, [run[l] EXCEPT !.pc = "file", !.file = Null])
  /\ UNCHANGED <<disk, coll, bm25, sync, api, runs>>

(* An incremental run saves once more; a forced one raises on any error and *)
(* rebuilds the BM25 index otherwise.                                       *)
AfterFilesRegardless(l) == IF run[l].force THEN "read" ELSE "open"  \* a mutant
AfterFiles(l) == IF ~run[l].force THEN "open"
                 ELSE IF run[l].errors THEN "idle" ELSE "read"

FinishFiles(l) ==
  /\ At(l, "file") /\ run[l].todo = {}
  /\ IF AfterFiles(l) = "idle" THEN End(l) ELSE Goto(l, AfterFiles(l))
  /\ UNCHANGED <<disk, coll, tracker, bm25, sync, api, runs>>

(* Reading the collection: a snapshot (the count is compared before and     *)
(* after), or an error; the temporary index is built from it.               *)
ReadDocuments(l) ==
  /\ At(l, "read")
  /\ \/ /\ Reachable(l)
        /\ Become(l, [run[l] EXCEPT !.pc = "recheck", !.snap = coll.recs[coll.live]])
     \/ End(l)
  /\ UNCHANGED <<disk, coll, tracker, bm25, sync, api, runs>>

(* A second reading of the ids must equal the first. *)
RecheckIds(l) ==
  /\ At(l, "recheck")
  /\ IF Reachable(l) /\ coll.recs[coll.live] = run[l].snap THEN Goto(l, "index") ELSE End(l)
  /\ UNCHANGED <<disk, coll, tracker, bm25, sync, api, runs>>

ReplaceIndex(l) ==
  /\ At(l, "index")
  /\ bm25' = run[l].snap
  /\ Goto(l, "manifest")
  /\ UNCHANGED <<disk, coll, tracker, sync, api, runs>>

ReplaceManifest(l) ==
  /\ At(l, "manifest")
  /\ sync' = run[l].snap
  /\ Goto(l, "verify")
  /\ UNCHANGED <<disk, coll, tracker, bm25, api, runs>>

(* Both persisted files are read back. *)
VerifyPersisted(l) ==
  /\ At(l, "verify")
  /\ IF bm25 = run[l].snap /\ sync = run[l].snap THEN Goto(l, "done") ELSE End(l)
  /\ UNCHANGED <<disk, coll, tracker, bm25, sync, api, runs>>

Kill(l) ==
  /\ run[l].pc \notin {"idle", "done"}
  /\ End(l)
  /\ UNCHANGED <<disk, coll, tracker, bm25, sync, api, runs>>

Edited == {f \in Files : disk[f] # FirstVersion}
Edit(f, v) ==
  /\ f \notin Edited /\ v # disk[f] /\ Cardinality(Edited) < MaxEdits
  /\ disk' = [disk EXCEPT ![f] = v]
  /\ UNCHANGED <<coll, tracker, bm25, sync, run, api, runs>>

-----------------------------------------------------------------------------
(* The API process builds its retriever once, at startup. *)

StepApi(a) ==
  /\ api' = a
  /\ UNCHANGED <<disk, coll, tracker, bm25, sync, run, runs>>

(* Without a collection there is no retriever. *)
OpenCollection ==
  /\ api.at = "down"
  /\ StepApi([Down EXCEPT !.handle = coll.live,
                          !.at = IF coll.live = 0 THEN "none" ELSE "load"])

(* An absent BM25 file is an empty index. *)
LoadIndex ==
  /\ api.at = "load"
  /\ StepApi([api EXCEPT !.at = "manifest", !.index = IF bm25 = Null THEN {} ELSE bm25])

VectorOnly == [api EXCEPT !.at = "vector", !.index = {}, !.manifest = Null]

LoadSyncManifest ==
  /\ api.at = "manifest"
  /\ StepApi(IF sync = Null THEN VectorOnly
             ELSE [api EXCEPT !.at = "ids", !.manifest = sync])

(* The ids in Chroma, the manifest and the index must agree, and an empty   *)
(* index is of no use; a collection deleted meanwhile raises.               *)
InSyncByManifest(ids) == api.index = api.manifest        \* a mutant of the next
InSync(ids) == ids = api.manifest /\ api.index = api.manifest
ValidateSync ==
  /\ api.at = "ids"
  /\ LET ok == api.handle = coll.live /\ InSync(coll.recs[api.handle]) /\ api.index # {}
     IN  StepApi(IF ok THEN [api EXCEPT !.at = "hybrid"] ELSE VectorOnly)

(* A question: the cached dense results or a query through the handle, none *)
(* when the collection is gone; what was found is cached.                   *)
Dense == IF api.handle = coll.live THEN coll.recs[api.handle] ELSE {}
Ask ==
  /\ api.at \in {"vector", "hybrid"} /\ api.cache = {}
  /\ StepApi([api EXCEPT !.cache = Dense])

EvictCached ==
  /\ api.at \in {"vector", "hybrid"} /\ api.cache # {}
  /\ StepApi([api EXCEPT !.cache = {}])

Answer == api.cache \cup api.index    \* the union of both channels

StopApi == api.at # "down" /\ StepApi(Down)

-----------------------------------------------------------------------------
Loader(l) ==
  \/ \E force \in BOOLEAN : StartRun(l, force)
  \/ DeleteCollection(l) \/ CreateCollection(l) \/ Plan(l)
  \/ \E f \in Files : ProcessFile(l, f)
  \/ AddBatch(l) \/ FinishFile(l) \/ SaveOpen(l) \/ SaveWrite(l) \/ FinishFiles(l)
  \/ ReadDocuments(l) \/ RecheckIds(l) \/ ReplaceIndex(l) \/ ReplaceManifest(l)
  \/ VerifyPersisted(l) \/ Kill(l)

Api_ == OpenCollection \/ LoadIndex \/ LoadSyncManifest \/ ValidateSync
        \/ Ask \/ EvictCached \/ StopApi

Next ==
  \/ \E l \in Loaders : Loader(l)
  \/ \E f \in Files, v \in Versions : Edit(f, v)
  \/ Api_

Spec == Init /\ [][Next]_vars

-----------------------------------------------------------------------------
(* The stores and processes have the shape the code gives them. *)
TypeOK ==
  /\ disk \in [Files -> Versions]
  /\ coll.live \in 0..coll.last /\ coll.last \in 0..MaxGen
  /\ coll.recs \in [1..MaxGen -> SUBSET Ids]
  /\ tracker \in Tracked \cup {Torn}
  /\ bm25 \in (SUBSET Ids) \cup {Null} /\ sync \in (SUBSET Ids) \cup {Null}
  /\ run \in [Loaders -> Run] /\ api \in Api
  /\ runs \in 0..MaxRuns

(* What the tracker file marks can be skipped: whatever was killed, failed   *)
(* in part or saved over by another run, a document marked against the       *)
(* present collection, and not edited between its reading and its mark, has  *)
(* every chunk of the marked contents in the collection.                     *)
TrackerTellsTruth ==
  tracker # Torn =>
    \A f \in Files :
      LET m == tracker[f]
      IN  m # Null /\ m.gen = coll.live /\ m.read = m.text
            => Texts(f, m.text) \subseteq TextsOf(coll.recs[coll.live])

(* A forced run that gets as far as replacing the BM25 file read every       *)
(* document, and the index it publishes knows every chunk of what it read    *)
(* ("do not publish a partial BM25 replacement").                            *)
ForcedRunComplete ==
  \A l \in Loaders :
    run[l].force /\ run[l].pc \in {"index", "manifest", "verify", "done"} =>
      \A f \in Files : /\ run[l].loaded[f] # Null
                       /\ Texts(f, run[l].loaded[f]) \subseteq TextsOf(run[l].snap)

(* The stores of ingestion at every step: well formed, the marks true, and   *)
(* what a forced run publishes complete.                                     *)
TrackerInvariant == TypeOK /\ TrackerTellsTruth /\ ForcedRunComplete

(* An API process never mixes collections: whatever was reset, rebuilt or    *)
(* torn since it started, both channels of its answers, the cached dense     *)
(* results and the BM25 index, only hold chunks of the collection it opened. *)
AnswersFromOneCollection ==
  api.at \in {"vector", "hybrid"} => Answer \subseteq coll.recs[api.handle]
=============================================================================
