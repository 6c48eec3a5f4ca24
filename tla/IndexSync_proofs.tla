--------------------------- MODULE IndexSync_proofs ---------------------------
(***************************************************************************)
(* Proofs about IndexSync, for any library, any number of indexing         *)
(* processes and any chunking: what the tracker marks is stored, a forced  *)
(* run that publishes has read and stored every document, and an API       *)
(* process answers from the one collection it opened.                      *)
(***************************************************************************)
EXTENDS IndexSync, TLAPS

-----------------------------------------------------------------------------
(* The inductive invariant.  What holds of a command speaks of its record    *)
(* and of the collections' records, recs, which only grow.                   *)

Recs == [1..MaxGen -> SUBSET Ids]
Coll == [live: 0..MaxGen, last: 0..MaxGen, recs: Recs]

Has(ids, f, v) == Texts(f, v) \subseteq TextsOf(ids)

(* A mark is true of the collection it was made for, present or not.         *)
MarksTrue(marks, recs) ==
  \A f \in Files : LET m == marks[f] IN
    m # Null /\ m.read = m.text => Has(recs[m.gen], f, m.text)

Publishing == {"recheck", "index", "manifest", "verify", "done"}

(* A command holds a collection, and true marks.  A chunk of the document it *)
(* adds is pending or stored, unless a failure is noted.                     *)
AddInv(r, recs) ==
  r.pc = "add" =>
    /\ r.file \in Files /\ r.read \in Versions
    /\ ~r.bad => \A t \in Texts(r.file, r.read) : <<r.file, t>> \in r.pending \/ t \in TextsOf(recs[r.handle])

(* A forced run accounts for every document: to do, loaded, or failed.  What *)
(* it loaded is stored, and stays so in the snapshot it publishes.           *)
ForcedInv(r, recs) ==
  r.force =>
    /\ r.pc \notin {"open", "write"}
    /\ r.pc \in {"delete", "create", "plan"} => r.loaded = NoMarks
    /\ \A f \in Files : r.loaded[f] # Null => Has(recs[r.handle], f, r.loaded[f])
    /\ r.pc \in {"file", "add"} =>
         \A f \in Files : \/ f \in r.todo \/ r.loaded[f] # Null \/ r.errors
                          \/ r.pc = "add" /\ f = r.file
    /\ r.pc \in {"read"} \cup Publishing => \A f \in Files : r.loaded[f] # Null
    /\ r.pc \in Publishing => \A f \in Files : Has(r.snap, f, r.loaded[f])

RunInv(r, recs) ==
  /\ IF r.pc = "idle" THEN ~r.force ELSE r.handle \in 1..MaxGen
  /\ MarksTrue(r.marks, recs)
  /\ AddInv(r, recs)
  /\ ForcedInv(r, recs)

(* The API process holds the collection it opened, and caches nothing before *)
(* it serves.                                                                *)
ApiInv(a, recs) ==
  /\ a.at \notin {"down", "none"} => a.handle \in 1..MaxGen
  /\ a.at \in {"load", "manifest", "ids"} => a.cache = {}
  /\ a.at \in {"vector", "hybrid"} => a.cache \cup a.index \subseteq recs[a.handle]

IInv ==
  /\ TypeOK /\ coll \in Coll
  /\ tracker # Torn => MarksTrue(tracker, coll.recs)
  /\ \A l \in Loaders : RunInv(run[l], coll.recs)
  /\ ApiInv(api, coll.recs)

-----------------------------------------------------------------------------
(* Records of collections only grow, and what held of them still holds.      *)

LEMMA HasGrows ==
  ASSUME NEW ids, NEW more, ids \subseteq more, NEW f, NEW v, Has(ids, f, v)
  PROVE  Has(more, f, v)
BY DEF Has, TextsOf

LEMMA MarksGrow ==
  ASSUME NEW recs \in Recs, NEW more \in Recs, \A g \in 1..MaxGen : recs[g] \subseteq more[g],
         NEW marks \in Tracked, MarksTrue(marks, recs)
  PROVE  MarksTrue(marks, more)
<1> SUFFICES ASSUME NEW f \in Files, marks[f] # Null, marks[f].read = marks[f].text
             PROVE  Has(more[marks[f].gen], f, marks[f].text)
  BY DEF MarksTrue
<1>1. marks[f].gen \in 1..MaxGen
  BY DEF Tracked, Marks
<1>2. Has(recs[marks[f].gen], f, marks[f].text)
  BY DEF MarksTrue
<1>3. QED BY <1>1, <1>2, HasGrows

LEMMA RunGrows ==
  ASSUME NEW recs \in Recs, NEW more \in Recs, \A g \in 1..MaxGen : recs[g] \subseteq more[g],
         NEW r \in Run, RunInv(r, recs)
  PROVE  RunInv(r, more)
<1>1. r.marks \in Tracked
  BY DEF Run
<1>2. MarksTrue(r.marks, more)
  BY <1>1, MarksGrow DEF RunInv
<1>3. r.pc # "idle" => recs[r.handle] \subseteq more[r.handle]
  BY DEF RunInv
<1>4. AddInv(r, more)
  <2>1. \A t : r.pc = "add" /\ t \in TextsOf(recs[r.handle]) => t \in TextsOf(more[r.handle])
    BY <1>3 DEF TextsOf
  <2>2. AddInv(r, recs)
    BY DEF RunInv
  <2>3. QED BY <2>1, <2>2 DEF AddInv
<1>5. ForcedInv(r, more)
  <2>1. \A f \in Files : r.force /\ r.loaded[f] # Null => Has(more[r.handle], f, r.loaded[f])
    <3>1. \A f \in Files : r.force /\ r.loaded[f] # Null => Has(recs[r.handle], f, r.loaded[f])
      BY DEF RunInv, ForcedInv
    <3>2. r.force => recs[r.handle] \subseteq more[r.handle]
      BY <1>3 DEF RunInv
    <3>3. QED BY <3>1, <3>2, HasGrows
  <2>2. QED BY <2>1 DEF RunInv, ForcedInv
<1>6. QED BY <1>2, <1>4, <1>5 DEF RunInv

LEMMA ApiGrows ==
  ASSUME NEW recs \in Recs, NEW more \in Recs, \A g \in 1..MaxGen : recs[g] \subseteq more[g],
         NEW a \in Api, ApiInv(a, recs)
  PROVE  ApiInv(a, more)
<1>1. a.at \in {"vector", "hybrid"} => recs[a.handle] \subseteq more[a.handle]
  BY DEF ApiInv
<1>2. QED BY <1>1 DEF ApiInv

LEMMA IdleHolds ==
  /\ Idle \in Run
  /\ \A recs : RunInv(Idle, recs)
<1>1. Idle \in Run
  BY LibraryAssumption DEF Idle, Run, Places, NoMarks, Tracked
<1>2. \A recs : MarksTrue(Idle.marks, recs)
  BY DEF Idle, NoMarks, MarksTrue
<1>3. QED BY <1>1, <1>2 DEF Idle, RunInv, AddInv, ForcedInv

(* A step of a command: its own record, the stores it writes, and growth.    *)
LEMMA CommandSteps ==
  ASSUME IInv, NEW l \in Loaders, NEW r \in Run, Become(l, r),
         coll' \in Coll, coll'.live <= coll'.last,
         \A g \in 1..MaxGen : coll.recs[g] \subseteq coll'.recs[g],
         RunInv(r, coll'.recs),
         tracker' \in Tracked \cup {Torn}, tracker' # Torn => MarksTrue(tracker', coll'.recs),
         bm25' \in (SUBSET Ids) \cup {Null}, sync' \in (SUBSET Ids) \cup {Null},
         runs' \in 0..MaxRuns, UNCHANGED <<disk, api>>
  PROVE  IInv'
<1> DEFINE recs == coll.recs
           more == coll'.recs
<1>1. recs \in Recs /\ more \in Recs
  BY DEF IInv, Coll
<1>2. run' \in [Loaders -> Run] /\ run'[l] = r /\ \A k \in Loaders \ {l} : run'[k] = run[k]
  BY DEF IInv, TypeOK, Become
<1>3. \A k \in Loaders : RunInv(run'[k], more)
  <2> SUFFICES ASSUME NEW k \in Loaders, k # l
               PROVE  RunInv(run'[k], more)
    BY <1>2
  <2>1. run[k] \in Run /\ RunInv(run[k], recs)
    BY DEF IInv, TypeOK
  <2> HIDE DEF recs, more
  <2>2. RunInv(run[k], more)
    BY <1>1, <2>1, RunGrows DEF recs, more
  <2>3. QED BY <1>2, <2>2
<1>4. ApiInv(api', more)
  <2>1. api \in Api /\ ApiInv(api, recs)
    BY DEF IInv, TypeOK
  <2>2. ApiInv(api, more)
    BY <1>1, <2>1, ApiGrows
  <2>3. QED BY <2>2
<1>5. TypeOK'
  BY <1>2 DEF IInv, TypeOK, Coll, Recs
<1>6. QED BY <1>3, <1>4, <1>5 DEF IInv

(* Most steps leave the stores alone, and replace a record of a command by   *)
(* one of which the invariant holds.                                         *)
LEMMA OwnStep ==
  ASSUME IInv, NEW l \in Loaders, NEW r \in Run, Become(l, r), RunInv(r, coll.recs),
         UNCHANGED <<disk, coll, tracker, bm25, sync, api, runs>>
  PROVE  IInv'
<1>1. /\ coll' \in Coll /\ coll'.live <= coll'.last
      /\ \A g \in 1..MaxGen : coll.recs[g] \subseteq coll'.recs[g]
      /\ RunInv(r, coll'.recs)
  BY DEF IInv, TypeOK
<1>2. /\ tracker' \in Tracked \cup {Torn} /\ (tracker' # Torn => MarksTrue(tracker', coll'.recs))
      /\ bm25' \in (SUBSET Ids) \cup {Null} /\ sync' \in (SUBSET Ids) \cup {Null} /\ runs' \in 0..MaxRuns
  BY DEF IInv, TypeOK
<1>3. QED BY <1>1, <1>2, CommandSteps

LEMMA Ends ==
  ASSUME IInv, NEW l \in Loaders, End(l),
         UNCHANGED <<disk, coll, tracker, bm25, sync, api, runs>>
  PROVE  IInv'
<1>1. Idle \in Run /\ RunInv(Idle, coll.recs) /\ Become(l, Idle)
  BY IdleHolds DEF End
<1>2. QED BY <1>1, OwnStep

LEMMA RecreatedHolds ==
  ASSUME IInv, Recreated.last <= MaxGen
  PROVE  /\ Recreated \in Coll /\ Recreated.live \in 1..MaxGen /\ Recreated.live <= Recreated.last
         /\ Recreated.recs = coll.recs
<1>1. /\ coll \in [live: 0..MaxGen, last: 0..MaxGen, recs: Recs] /\ coll.live <= coll.last
      /\ MaxGen \in Nat
  BY LibraryAssumption DEF IInv, TypeOK, Coll
<1>2. CASE coll.live # 0
  BY <1>1, <1>2 DEF Recreated, Coll
<1>3. CASE coll.live = 0
  <2>1. Recreated = [live |-> coll.last + 1, last |-> coll.last + 1, recs |-> coll.recs]
    BY <1>1, <1>3 DEF Recreated
  <2>2. coll.last + 1 \in 1..MaxGen /\ coll.last + 1 \in 0..MaxGen
    BY <1>1, <2>1
  <2>3. QED BY <1>1, <2>1, <2>2 DEF Coll
<1>4. QED BY <1>2, <1>3

LEMMA NoMarksHold ==
  NoMarks \in Tracked /\ NoMarks \in [Files -> Versions \cup {Null}] /\ (\A recs : MarksTrue(NoMarks, recs))
BY DEF NoMarks, Tracked, MarksTrue

LEMMA StartRunKeeps ==
  ASSUME IInv, NEW l \in Loaders, NEW force \in BOOLEAN, StartRun(l, force)
  PROVE  IInv'
<1> DEFINE r == [Idle EXCEPT !.pc = IF force THEN "delete" ELSE "plan", !.force = force, !.handle = coll'.live]
<1>1. /\ coll' \in Coll /\ coll'.live \in 1..MaxGen /\ coll'.live <= coll'.last /\ coll'.recs = coll.recs
  BY RecreatedHolds DEF StartRun
<1>2. r \in Run
  <2>1. coll'.live \in 0..MaxGen /\ Idle \in Run
    BY <1>1, IdleHolds
  <2>2. QED BY <2>1 DEF Run, Places
<1>3. RunInv(r, coll'.recs)
  BY <1>1, NoMarksHold DEF Idle, RunInv, AddInv, ForcedInv, NoMarks, Publishing
<1>4. runs' \in 0..MaxRuns
  BY LibraryAssumption DEF StartRun, IInv, TypeOK
<1>5. Become(l, r) /\ UNCHANGED <<disk, tracker, bm25, sync, api>>
  BY DEF StartRun
<1>6. tracker' \in Tracked \cup {Torn} /\ (tracker' # Torn => MarksTrue(tracker', coll'.recs))
  BY <1>1, <1>5 DEF IInv, TypeOK
<1>7. bm25' \in (SUBSET Ids) \cup {Null} /\ sync' \in (SUBSET Ids) \cup {Null}
  BY <1>5 DEF IInv, TypeOK
<1> HIDE DEF r
<1>8. \A g \in 1..MaxGen : coll.recs[g] \subseteq coll'.recs[g]
  BY <1>1
<1>9. QED BY <1>1, <1>2, <1>3, <1>4, <1>5, <1>6, <1>7, <1>8, CommandSteps

(* A step that writes the collection and leaves the other stores.            *)
LEMMA CollectionStep ==
  ASSUME IInv, NEW l \in Loaders, NEW r \in Run, Become(l, r),
         coll' \in Coll, coll'.live <= coll'.last,
         \A g \in 1..MaxGen : coll.recs[g] \subseteq coll'.recs[g],
         RunInv(r, coll'.recs), UNCHANGED <<disk, tracker, bm25, sync, api, runs>>
  PROVE  IInv'
<1>1. coll.recs \in Recs /\ coll'.recs \in Recs
  BY DEF IInv, Coll
<1>2. tracker' \in Tracked \cup {Torn} /\ bm25' \in (SUBSET Ids) \cup {Null}
      /\ sync' \in (SUBSET Ids) \cup {Null} /\ runs' \in 0..MaxRuns
  BY DEF IInv, TypeOK
<1>3. ASSUME tracker' # Torn PROVE MarksTrue(tracker', coll'.recs)
  <2>1. tracker \in Tracked /\ MarksTrue(tracker, coll.recs) /\ tracker' = tracker
    BY <1>3 DEF IInv, TypeOK
  <2>2. QED BY <1>1, <2>1, MarksGrow
<1>4. QED BY <1>2, <1>3, CommandSteps

LEMMA DeleteCollectionKeeps ==
  ASSUME IInv, NEW l \in Loaders, DeleteCollection(l)
  PROVE  IInv'
<1> DEFINE r == IF coll.live = 0 THEN Idle ELSE [run[l] EXCEPT !.pc = "create"]
<1>1. coll' \in Coll /\ coll'.live <= coll'.last /\ coll'.recs = coll.recs
  BY LibraryAssumption DEF DeleteCollection, IInv, TypeOK, Coll
<1>2. run[l] \in Run /\ RunInv(run[l], coll.recs) /\ run[l].pc = "delete"
  BY DEF IInv, TypeOK, DeleteCollection, At
<1>3. r \in Run
  BY <1>2, IdleHolds DEF Run, Places
<1>4. RunInv(r, coll'.recs)
  <2>1. CASE coll.live = 0
    BY <2>1, IdleHolds
  <2>2. CASE coll.live # 0
    BY <1>1, <1>2, <2>2 DEF Run, RunInv, AddInv, ForcedInv, Publishing
  <2>3. QED BY <2>1, <2>2
<1>5. Become(l, r) /\ UNCHANGED <<disk, tracker, bm25, sync, api, runs>>
  BY DEF DeleteCollection, End, Goto
<1> HIDE DEF r
<1>6. \A g \in 1..MaxGen : coll.recs[g] \subseteq coll'.recs[g]
  BY <1>1
<1>7. QED BY <1>1, <1>3, <1>4, <1>5, <1>6, CollectionStep

LEMMA CreateCollectionKeeps ==
  ASSUME IInv, NEW l \in Loaders, CreateCollection(l)
  PROVE  IInv'
<1> DEFINE r == [run[l] EXCEPT !.pc = "plan", !.handle = coll'.live]
<1>1. /\ coll' \in Coll /\ coll'.live \in 1..MaxGen /\ coll'.live <= coll'.last /\ coll'.recs = coll.recs
  BY RecreatedHolds DEF CreateCollection
<1>2. run[l] \in Run /\ RunInv(run[l], coll.recs) /\ run[l].pc = "create"
  BY DEF IInv, TypeOK, CreateCollection, At
<1>3. r \in Run
  <2>1. coll'.live \in 0..MaxGen
    BY <1>1
  <2>2. QED BY <1>2, <2>1 DEF Run, Places
<1>4. RunInv(r, coll'.recs)
  BY <1>1, <1>2 DEF Run, RunInv, AddInv, ForcedInv, Publishing, NoMarks
<1>5. Become(l, r) /\ UNCHANGED <<disk, tracker, bm25, sync, api, runs>>
  BY DEF CreateCollection
<1> HIDE DEF r
<1>6. \A g \in 1..MaxGen : coll.recs[g] \subseteq coll'.recs[g]
  BY <1>1
<1>7. QED BY <1>1, <1>3, <1>4, <1>5, <1>6, CollectionStep

LEMMA PlanKeeps ==
  ASSUME IInv, NEW l \in Loaders, Plan(l)
  PROVE  IInv'
<1> DEFINE todo == IF run[l].force THEN Files ELSE {f \in Files : ~IsFileIndexed(f)}
           r == [run[l] EXCEPT !.todo = todo, !.pc = "file", !.marks = IF run[l].force THEN NoMarks ELSE Loaded]
<1>1. CASE todo = {}
  BY <1>1, Ends DEF Plan
<1>2. CASE todo # {}
  <2>1. run[l] \in Run /\ RunInv(run[l], coll.recs) /\ run[l].pc = "plan"
    BY DEF IInv, TypeOK, Plan, At
  <2>2. Loaded \in Tracked /\ MarksTrue(Loaded, coll.recs)
    BY NoMarksHold DEF Loaded, IInv, TypeOK
  <2>3. r \in Run
    BY <2>1, <2>2, NoMarksHold DEF Run, Places
  <2>4. RunInv(r, coll.recs)
    BY <2>1, <2>2, NoMarksHold DEF Run, RunInv, AddInv, ForcedInv, Publishing, NoMarks
  <2>5. Become(l, r) /\ UNCHANGED <<disk, coll, tracker, bm25, sync, api, runs>>
    BY <1>2 DEF Plan
  <2> HIDE DEF r
  <2>6. QED BY <2>3, <2>4, <2>5, OwnStep
<1>3. QED BY <1>1, <1>2

(* A check that fails leaves every chunk pending; the others are pending     *)
(* unless their text is stored.                                              *)
LEMMA ProcessFileKeeps ==
  ASSUME IInv, NEW l \in Loaders, NEW f \in Files, ProcessFile(l, f)
  PROVE  IInv'
<1> DEFINE chunks  == Chunks(f, disk[f])
           present == IF Reachable(l) THEN TextsOf(coll.recs[run[l].handle]) ELSE {}
           r(pending, bad) ==
             [run[l] EXCEPT !.pc = "add", !.file = f, !.read = disk[f],
                            !.todo = @ \ {f}, !.pending = pending, !.bad = bad]
<1>1. /\ run[l] \in Run /\ RunInv(run[l], coll.recs) /\ run[l].pc = "file"
      /\ f \in run[l].todo /\ disk[f] \in Versions
  BY DEF IInv, TypeOK, ProcessFile, At
<1>2. \A pending \in SUBSET Ids, bad \in BOOLEAN : r(pending, bad) \in Run
  BY <1>1 DEF Run, Places
<1>3. ASSUME NEW pending \in SUBSET Ids, NEW bad \in BOOLEAN,
             ~bad => \A t \in Texts(f, disk[f]) : <<f, t>> \in pending \/ t \in TextsOf(coll.recs[run[l].handle]),
             Become(l, r(pending, bad))
      PROVE  IInv'
  <2>1. AddInv(r(pending, bad), coll.recs)
    BY <1>1, <1>3 DEF Run, AddInv
  <2>2. ForcedInv(r(pending, bad), coll.recs)
    BY <1>1 DEF Run, RunInv, ForcedInv, Publishing
  <2>3. RunInv(r(pending, bad), coll.recs)
    BY <1>1, <2>1, <2>2 DEF Run, RunInv
  <2>4. UNCHANGED <<disk, coll, tracker, bm25, sync, api, runs>>
    BY DEF ProcessFile
  <2>5. r(pending, bad) \in Run
    BY <1>2
  <2> HIDE DEF r
  <2>6. QED BY <1>3, <2>3, <2>4, <2>5, OwnStep
<1>4. CASE Become(l, r({}, TRUE))
  BY <1>3, <1>4
<1>5. ASSUME NEW unchecked \in SUBSET chunks,
             Become(l, r({i \in chunks : i \in unchecked \/ i[2] \notin present}, FALSE))
      PROVE  IInv'
  <2> DEFINE pending == {i \in chunks : i \in unchecked \/ i[2] \notin present}
  <2>1. chunks = {<<f, t>> : t \in Texts(f, disk[f])} /\ chunks \subseteq Ids
    BY <1>1 DEF Chunks, Ids, AllTexts
  <2>2. \A t \in Texts(f, disk[f]) : <<f, t>> \in pending \/ t \in TextsOf(coll.recs[run[l].handle])
    BY <2>1
  <2>3. pending \in SUBSET Ids
    BY <2>1
  <2> HIDE DEF r, pending
  <2>4. Become(l, r(pending, FALSE))
    BY <1>5 DEF pending
  <2>5. QED BY <1>3, <2>2, <2>3, <2>4
<1>6. QED BY <1>4, <1>5 DEF ProcessFile

LEMMA AddBatchKeeps ==
  ASSUME IInv, NEW l \in Loaders, AddBatch(l)
  PROVE  IInv'
<1>1. PICK i \in run[l].pending :
        LET rest == [run[l] EXCEPT !.pending = @ \ {i}]
        IN  \/ Reachable(l) /\ coll' = Added(coll.live, i) /\ Become(l, rest)
            \/ UNCHANGED coll /\ Become(l, [rest EXCEPT !.bad = TRUE])
  BY DEF AddBatch
<1> DEFINE rest == [run[l] EXCEPT !.pending = @ \ {i}]
           failed == [rest EXCEPT !.bad = TRUE]
<1>2. /\ run[l] \in Run /\ RunInv(run[l], coll.recs) /\ run[l].pc = "add"
      /\ i \in Ids /\ run[l].handle \in 1..MaxGen
  BY DEF IInv, TypeOK, AddBatch, At, Run, RunInv
<1>3. UNCHANGED <<disk, tracker, bm25, sync, api, runs>>
  BY DEF AddBatch
<1>4. rest \in Run /\ failed \in Run
  BY <1>2 DEF Run
<1>5. CASE Reachable(l) /\ coll' = Added(coll.live, i) /\ Become(l, rest)
  <2>1. /\ coll' = [coll EXCEPT !.recs[run[l].handle] = @ \cup {i}]
        /\ coll \in Coll /\ coll.live <= coll.last
    BY <1>5 DEF Added, Reachable, IInv, TypeOK
  <2>2. /\ coll'.live = coll.live /\ coll'.last = coll.last
        /\ coll'.recs = [coll.recs EXCEPT ![run[l].handle] = @ \cup {i}]
    BY <2>1 DEF Coll
  <2>3. coll.recs \in Recs /\ coll'.recs \in Recs
    BY <1>2, <2>1, <2>2 DEF Coll, Recs
  <2>4. coll' \in Coll /\ coll'.live <= coll'.last
    BY <2>1, <2>2, <2>3 DEF Coll
  <2>5. \A g \in 1..MaxGen : coll.recs[g] \subseteq coll'.recs[g]
    BY <2>2, <2>3 DEF Recs
  <2>6. RunInv(run[l], coll'.recs)
    BY <1>2, <2>3, <2>5, RunGrows
  <2>7. i \in coll'.recs[run[l].handle]
    BY <1>2, <2>2, <2>3 DEF Recs
  <2>8. AddInv(rest, coll'.recs)
    <3>1. AddInv(run[l], coll'.recs)
      BY <2>6 DEF RunInv
    <3>2. \A t : <<run[l].file, t>> = i => t \in TextsOf(coll'.recs[run[l].handle])
      BY <2>7 DEF TextsOf
    <3>3. QED BY <1>2, <3>1, <3>2 DEF Run, AddInv
  <2>9. RunInv(rest, coll'.recs)
    BY <1>2, <2>6, <2>8 DEF Run, RunInv, ForcedInv, Publishing
  <2> HIDE DEF rest
  <2>10. QED BY <1>3, <1>4, <1>5, <2>4, <2>5, <2>9, CollectionStep
<1>6. CASE UNCHANGED coll /\ Become(l, failed)
  <2>1. RunInv(failed, coll.recs)
    BY <1>2 DEF Run, RunInv, AddInv, ForcedInv, Publishing
  <2> HIDE DEF failed
  <2>2. QED BY <1>3, <1>4, <1>6, <2>1, OwnStep
<1>7. QED BY <1>1, <1>5, <1>6

(* The mark is true: nothing is pending and no failure was noted, so every   *)
(* chunk that was read is stored, in the collection the mark names.          *)
LEMMA FinishFileKeeps ==
  ASSUME IInv, NEW l \in Loaders, FinishFile(l)
  PROVE  IInv'
<1> DEFINE f == run[l].file
           marks == [run[l].marks EXCEPT ![f] = IF Keeps(l) THEN @ ELSE MarkOf(l)]
           loaded == [run[l].loaded EXCEPT ![f] = IF run[l].bad \/ ~run[l].force THEN @ ELSE run[l].read]
           r == [run[l] EXCEPT !.pc = IF Keeps(l) THEN "file" ELSE "open", !.errors = @ \/ run[l].bad,
                               !.marks = marks, !.loaded = loaded,
                               !.file = IF Keeps(l) THEN Null ELSE f, !.read = Null, !.bad = FALSE]
<1>1. /\ run[l] \in Run /\ RunInv(run[l], coll.recs) /\ run[l].pc = "add" /\ run[l].pending = {}
      /\ f \in Files /\ run[l].read \in Versions /\ run[l].handle \in 1..MaxGen /\ disk[f] \in Versions
  BY DEF IInv, TypeOK, FinishFile, At, RunInv, AddInv
<1>2. ~run[l].bad => Has(coll.recs[run[l].handle], f, run[l].read)
  BY <1>1 DEF RunInv, AddInv, Has
<1>3. run[l].marks \in Tracked /\ run[l].loaded \in [Files -> Versions \cup {Null}]
  BY <1>1 DEF Run
<1>4. MarkOf(l) \in Marks
  BY <1>1 DEF MarkOf, Marks
<1>5. marks \in Tracked
  BY <1>1, <1>3, <1>4 DEF Tracked
<1>6. MarksTrue(marks, coll.recs)
  <2> SUFFICES ASSUME NEW g \in Files, marks[g] # Null, marks[g].read = marks[g].text
               PROVE  Has(coll.recs[marks[g].gen], g, marks[g].text)
    BY DEF MarksTrue
  <2>1. CASE g = f /\ ~Keeps(l)
    <3>1. marks[g] = MarkOf(l) /\ ~run[l].bad
      BY <1>3, <2>1 DEF Tracked, Keeps
    <3>2. /\ marks[g].gen = run[l].handle /\ marks[g].text = run[l].read
      BY <3>1 DEF MarkOf
    <3>3. QED BY <1>2, <2>1, <3>1, <3>2
  <2>2. CASE ~(g = f /\ ~Keeps(l))
    <3>1. marks[g] = run[l].marks[g]
      BY <1>3, <2>2 DEF Tracked
    <3>2. QED BY <1>1, <3>1 DEF RunInv, MarksTrue
  <2>3. QED BY <2>1, <2>2
<1>7. loaded \in [Files -> Versions \cup {Null}]
  BY <1>1, <1>3
<1>8. \A g \in Files : loaded[g] = IF g = f /\ ~run[l].bad /\ run[l].force THEN run[l].read ELSE run[l].loaded[g]
  BY <1>3
<1> HIDE DEF marks, loaded
<1>9. r \in Run /\ r.marks = marks /\ r.loaded = loaded
  BY <1>1, <1>5, <1>7 DEF Run, Places
<1>10. /\ r.pc = (IF Keeps(l) THEN "file" ELSE "open") /\ r.force = run[l].force /\ r.todo = run[l].todo
       /\ r.errors = (run[l].errors \/ run[l].bad) /\ r.handle = run[l].handle
  BY <1>1 DEF Run
<1>11. ForcedInv(r, coll.recs)
  <2> SUFFICES ASSUME r.force
               PROVE  /\ r.pc = "file"
                      /\ \A g \in Files : r.loaded[g] # Null => Has(coll.recs[r.handle], g, r.loaded[g])
                      /\ \A g \in Files : g \in r.todo \/ r.loaded[g] # Null \/ r.errors
    BY DEF ForcedInv, Publishing
  <2>1. r.pc = "file"
    BY <1>10 DEF Keeps
  <2>2. \A g \in Files : r.loaded[g] # Null => Has(coll.recs[r.handle], g, r.loaded[g])
    BY <1>1, <1>2, <1>8, <1>9, <1>10 DEF RunInv, ForcedInv
  <2>3. \A g \in Files : g \in r.todo \/ r.loaded[g] # Null \/ r.errors
    <3>1. run[l].force
      BY <1>10
    <3>2. \A g \in Files : g \in run[l].todo \/ run[l].loaded[g] # Null \/ run[l].errors \/ g = f
      BY <1>1, <3>1 DEF RunInv, ForcedInv
    <3>3. \A g \in Files : loaded[g] = run[l].loaded[g] \/ g = f
      BY <1>8
    <3>4. run[l].bad \/ loaded[f] # Null
      BY <1>1, <1>8, <3>1, LibraryAssumption
    <3>5. (run[l].errors => r.errors) /\ (run[l].bad => r.errors)
      BY <1>10
    <3>6. r.todo = run[l].todo /\ r.loaded = loaded
      BY <1>9, <1>10
    <3> HIDE DEF r
    <3>7. QED BY <3>2, <3>3, <3>4, <3>5, <3>6, Zenon
  <2>4. QED BY <2>1, <2>2, <2>3
<1>12. RunInv(r, coll.recs)
  BY <1>1, <1>6, <1>9, <1>10, <1>11 DEF RunInv, AddInv
<1>13. Become(l, r) /\ UNCHANGED <<disk, coll, tracker, bm25, sync, api, runs>>
  BY DEF FinishFile, marks, loaded
<1> HIDE DEF r
<1>14. QED BY <1>9, <1>12, <1>13, OwnStep

LEMMA SaveOpenKeeps ==
  ASSUME IInv, NEW l \in Loaders, SaveOpen(l)
  PROVE  IInv'
<1> DEFINE r == [run[l] EXCEPT !.pc = "write"]
<1>1. run[l] \in Run /\ RunInv(run[l], coll.recs) /\ run[l].pc = "open"
  BY DEF IInv, TypeOK, SaveOpen, At
<1>2. r \in Run /\ RunInv(r, coll.recs)
  BY <1>1 DEF Run, Places, RunInv, AddInv, ForcedInv, Publishing
<1>3. Become(l, r) /\ tracker' = Torn /\ UNCHANGED <<disk, coll, bm25, sync, api, runs>>
  BY DEF SaveOpen, Goto
<1>4. /\ coll' \in Coll /\ coll'.live <= coll'.last /\ coll' = coll
      /\ \A g \in 1..MaxGen : coll.recs[g] \subseteq coll'.recs[g]
      /\ bm25' \in (SUBSET Ids) \cup {Null} /\ sync' \in (SUBSET Ids) \cup {Null} /\ runs' \in 0..MaxRuns
  BY <1>3 DEF IInv, TypeOK
<1> HIDE DEF r
<1>5. QED BY <1>2, <1>3, <1>4, CommandSteps

LEMMA SaveWriteKeeps ==
  ASSUME IInv, NEW l \in Loaders, SaveWrite(l)
  PROVE  IInv'
<1> DEFINE r == IF run[l].file = Null THEN Idle ELSE [run[l] EXCEPT !.pc = "file", !.file = Null]
<1>1. run[l] \in Run /\ RunInv(run[l], coll.recs) /\ run[l].pc = "write" /\ ~run[l].force
  BY DEF IInv, TypeOK, SaveWrite, At, RunInv, ForcedInv
<1>2. r \in Run /\ RunInv(r, coll.recs)
  <2>1. CASE run[l].file = Null
    BY <2>1, IdleHolds
  <2>2. CASE run[l].file # Null
    BY <1>1, <2>2 DEF Run, Places, RunInv, AddInv, ForcedInv
  <2>3. QED BY <2>1, <2>2
<1>3. Become(l, r) /\ tracker' = run[l].marks /\ UNCHANGED <<disk, coll, bm25, sync, api, runs>>
  BY DEF SaveWrite, End
<1>4. /\ coll' \in Coll /\ coll'.live <= coll'.last /\ coll' = coll
      /\ \A g \in 1..MaxGen : coll.recs[g] \subseteq coll'.recs[g]
      /\ bm25' \in (SUBSET Ids) \cup {Null} /\ sync' \in (SUBSET Ids) \cup {Null} /\ runs' \in 0..MaxRuns
  BY <1>3 DEF IInv, TypeOK
<1>5. tracker' \in Tracked /\ MarksTrue(tracker', coll'.recs)
  BY <1>1, <1>3 DEF Run, RunInv
<1> HIDE DEF r
<1>6. QED BY <1>2, <1>3, <1>4, <1>5, CommandSteps

LEMMA FinishFilesKeeps ==
  ASSUME IInv, NEW l \in Loaders, FinishFiles(l)
  PROVE  IInv'
<1> DEFINE r == [run[l] EXCEPT !.pc = AfterFiles(l)]
<1>1. run[l] \in Run /\ RunInv(run[l], coll.recs) /\ run[l].pc = "file" /\ run[l].todo = {}
  BY DEF IInv, TypeOK, FinishFiles, At
<1>2. CASE AfterFiles(l) = "idle"
  BY <1>2, Ends DEF FinishFiles
<1>3. CASE AfterFiles(l) # "idle"
  <2>1. AfterFiles(l) = IF run[l].force THEN "read" ELSE "open"
    BY <1>3 DEF AfterFiles
  <2>2. run[l].force => ~run[l].errors
    BY <1>3 DEF AfterFiles
  <2>3. r \in Run /\ RunInv(r, coll.recs)
    BY <1>1, <2>1, <2>2 DEF Run, Places, RunInv, AddInv, ForcedInv, Publishing
  <2>4. Become(l, r) /\ UNCHANGED <<disk, coll, tracker, bm25, sync, api, runs>>
    BY <1>3 DEF FinishFiles, Goto
  <2> HIDE DEF r
  <2>5. QED BY <2>3, <2>4, OwnStep
<1>4. QED BY <1>2, <1>3

LEMMA ReadDocumentsKeeps ==
  ASSUME IInv, NEW l \in Loaders, ReadDocuments(l)
  PROVE  IInv'
<1> DEFINE r == [run[l] EXCEPT !.pc = "recheck", !.snap = coll.recs[coll.live]]
<1>1. run[l] \in Run /\ RunInv(run[l], coll.recs) /\ run[l].pc = "read"
  BY DEF IInv, TypeOK, ReadDocuments, At
<1>2. CASE Reachable(l) /\ Become(l, r)
  <2>1. run[l].handle = coll.live /\ coll.recs[coll.live] \subseteq Ids
    BY <1>1, <1>2 DEF Reachable, RunInv, IInv, TypeOK
  <2>2. r \in Run
    BY <1>1, <2>1 DEF Run, Places
  <2>3. RunInv(r, coll.recs)
    BY <1>1, <2>1 DEF Run, RunInv, AddInv, ForcedInv, Publishing
  <2>4. UNCHANGED <<disk, coll, tracker, bm25, sync, api, runs>>
    BY DEF ReadDocuments
  <2> HIDE DEF r
  <2>5. QED BY <1>2, <2>2, <2>3, <2>4, OwnStep
<1>3. CASE End(l)
  BY <1>3, Ends DEF ReadDocuments
<1>4. QED BY <1>2, <1>3 DEF ReadDocuments

(* The steps between the snapshot and the end change no field but the place. *)
LEMMA NextPlace ==
  ASSUME NEW r \in Run, NEW recs, RunInv(r, recs), r.pc \in Publishing, NEW pc \in Publishing
  PROVE  [r EXCEPT !.pc = pc] \in Run /\ RunInv([r EXCEPT !.pc = pc], recs)
BY DEF Run, Places, RunInv, AddInv, ForcedInv, Publishing

LEMMA PublishingKeeps ==
  ASSUME IInv, NEW l \in Loaders, RecheckIds(l) \/ VerifyPersisted(l)
  PROVE  IInv'
<1>1. run[l] \in Run /\ RunInv(run[l], coll.recs) /\ run[l].pc \in Publishing
  BY DEF IInv, TypeOK, RecheckIds, VerifyPersisted, At, Publishing
<1>2. UNCHANGED <<disk, coll, tracker, bm25, sync, api, runs>>
  BY DEF RecheckIds, VerifyPersisted
<1>3. End(l) \/ \E pc \in Publishing : Become(l, [run[l] EXCEPT !.pc = pc])
  BY DEF RecheckIds, VerifyPersisted, Goto, Publishing
<1>4. ASSUME NEW pc \in Publishing, Become(l, [run[l] EXCEPT !.pc = pc])
      PROVE  IInv'
  BY <1>1, <1>2, <1>4, NextPlace, OwnStep
<1>5. QED BY <1>2, <1>3, <1>4, Ends

LEMMA ReplaceKeeps ==
  ASSUME IInv, NEW l \in Loaders, ReplaceIndex(l) \/ ReplaceManifest(l)
  PROVE  IInv'
<1>1. run[l] \in Run /\ RunInv(run[l], coll.recs) /\ run[l].pc \in Publishing
  BY DEF IInv, TypeOK, ReplaceIndex, ReplaceManifest, At, Publishing
<1>2. UNCHANGED <<disk, coll, tracker, api, runs>>
  BY DEF ReplaceIndex, ReplaceManifest
<1>3. PICK pc \in Publishing : Become(l, [run[l] EXCEPT !.pc = pc])
  BY DEF ReplaceIndex, ReplaceManifest, Goto, Publishing
<1> DEFINE r == [run[l] EXCEPT !.pc = pc]
<1>4. r \in Run /\ RunInv(r, coll.recs)
  BY <1>1, NextPlace
<1>5. bm25' \in (SUBSET Ids) \cup {Null} /\ sync' \in (SUBSET Ids) \cup {Null}
  BY <1>1 DEF ReplaceIndex, ReplaceManifest, IInv, TypeOK, Run
<1>6. /\ coll' \in Coll /\ coll'.live <= coll'.last
      /\ \A g \in 1..MaxGen : coll.recs[g] \subseteq coll'.recs[g]
      /\ tracker' \in Tracked \cup {Torn} /\ (tracker' # Torn => MarksTrue(tracker', coll'.recs))
      /\ runs' \in 0..MaxRuns
  BY <1>2 DEF IInv, TypeOK
<1>7. Become(l, r) /\ RunInv(r, coll'.recs)
  BY <1>2, <1>3, <1>4
<1> HIDE DEF r
<1>8. QED BY <1>2, <1>4, <1>5, <1>6, <1>7, CommandSteps

LEMMA KillKeeps ==
  ASSUME IInv, NEW l \in Loaders, Kill(l)
  PROVE  IInv'
BY Ends DEF Kill

LEMMA EditKeeps ==
  ASSUME IInv, NEW f \in Files, NEW v \in Versions, Edit(f, v)
  PROVE  IInv'
<1>1. disk' \in [Files -> Versions] /\ UNCHANGED <<coll, tracker, bm25, sync, run, api, runs>>
  BY DEF Edit, IInv, TypeOK
<1>2. TypeOK'
  BY <1>1 DEF IInv, TypeOK
<1>3. QED BY <1>1, <1>2 DEF IInv

(* A step of the API process changes its own record.                         *)
LEMMA ApiSteps ==
  ASSUME IInv, NEW a \in Api, ApiInv(a, coll.recs), StepApi(a)
  PROVE  IInv'
<1>1. api' = a /\ UNCHANGED <<disk, coll, tracker, bm25, sync, run, runs>>
  BY DEF StepApi
<1>2. TypeOK'
  BY <1>1 DEF IInv, TypeOK
<1>3. QED BY <1>1, <1>2 DEF IInv

LEMMA ApiKeeps ==
  ASSUME IInv, Api_
  PROVE  IInv'
<1>1. api \in Api /\ ApiInv(api, coll.recs) /\ coll \in Coll /\ coll.recs \in Recs
  BY DEF IInv, TypeOK, Coll
<1>2. CASE OpenCollection
  <2> DEFINE a == [Down EXCEPT !.handle = coll.live, !.at = IF coll.live = 0 THEN "none" ELSE "load"]
  <2>1. coll.live \in 0..MaxGen /\ MaxGen \in Nat
    BY <1>1, LibraryAssumption DEF Coll
  <2>2. a \in Api /\ ApiInv(a, coll.recs)
    <3>1. Down \in Api /\ (IF coll.live = 0 THEN "none" ELSE "load") \in {"none", "load"}
      BY LibraryAssumption DEF Down, Api
    <3>2. a \in Api /\ a.cache = Down.cache /\ a.handle = coll.live
          /\ a.at = (IF coll.live = 0 THEN "none" ELSE "load")
      BY <2>1, <3>1 DEF Api
    <3>3. Down.cache = {}
      BY DEF Down
    <3> HIDE DEF a
    <3>4. QED BY <2>1, <3>2, <3>3 DEF ApiInv
  <2> HIDE DEF a
  <2>3. StepApi(a)
    BY <1>2 DEF OpenCollection, a
  <2>4. QED BY <2>2, <2>3, ApiSteps
<1>3. CASE LoadIndex
  <2> DEFINE a == [api EXCEPT !.at = "manifest", !.index = IF bm25 = Null THEN {} ELSE bm25]
  <2>1. (IF bm25 = Null THEN {} ELSE bm25) \in SUBSET Ids
    BY DEF IInv, TypeOK
  <2>2. a \in Api /\ ApiInv(a, coll.recs)
    BY <1>1, <1>3, <2>1 DEF LoadIndex, Api, ApiInv
  <2> HIDE DEF a
  <2>3. StepApi(a)
    BY <1>3 DEF LoadIndex, a
  <2>4. QED BY <2>2, <2>3, ApiSteps
<1>4. ASSUME api.at \in {"manifest", "ids"}
      PROVE  VectorOnly \in Api /\ ApiInv(VectorOnly, coll.recs)
  BY <1>1, <1>4 DEF VectorOnly, Api, ApiInv
<1>5. CASE LoadSyncManifest
  <2> DEFINE a == [api EXCEPT !.at = "ids", !.manifest = sync]
  <2>1. a \in Api /\ ApiInv(a, coll.recs)
    BY <1>1, <1>5 DEF LoadSyncManifest, Api, ApiInv, IInv, TypeOK
  <2> HIDE DEF a
  <2>2. StepApi(VectorOnly) \/ StepApi(a)
    BY <1>5 DEF LoadSyncManifest, a
  <2>3. QED BY <1>4, <1>5, <2>1, <2>2, ApiSteps DEF LoadSyncManifest
<1>6. CASE ValidateSync
  <2> DEFINE a == [api EXCEPT !.at = "hybrid"]
             ok == api.handle = coll.live /\ InSync(coll.recs[api.handle]) /\ api.index # {}
  <2>1. ok => a \in Api /\ ApiInv(a, coll.recs)
    BY <1>1, <1>6 DEF ValidateSync, InSync, Api, ApiInv
  <2> HIDE DEF a
  <2>2. StepApi(IF ok THEN a ELSE VectorOnly)
    BY <1>6 DEF ValidateSync, a
  <2> HIDE DEF ok
  <2>3. QED BY <1>4, <1>6, <2>1, <2>2, ApiSteps DEF ValidateSync
<1>7. CASE Ask
  <2> DEFINE a == [api EXCEPT !.cache = Dense]
  <2>1. Dense \subseteq coll.recs[api.handle] /\ Dense \in SUBSET Ids
    BY <1>1, <1>7 DEF Dense, Ask, ApiInv, Recs
  <2>2. a \in Api /\ ApiInv(a, coll.recs)
    BY <1>1, <1>7, <2>1 DEF Ask, Api, ApiInv
  <2> HIDE DEF a
  <2>3. StepApi(a)
    BY <1>7 DEF Ask, a
  <2>4. QED BY <2>2, <2>3, ApiSteps
<1>8. CASE EvictCached
  <2> DEFINE a == [api EXCEPT !.cache = {}]
  <2>1. a \in Api /\ ApiInv(a, coll.recs)
    BY <1>1, <1>8 DEF EvictCached, Api, ApiInv
  <2> HIDE DEF a
  <2>2. StepApi(a)
    BY <1>8 DEF EvictCached, a
  <2>3. QED BY <2>1, <2>2, ApiSteps
<1>9. CASE StopApi
  <2>1. Down \in Api /\ ApiInv(Down, coll.recs)
    BY LibraryAssumption DEF Down, Api, ApiInv
  <2>2. QED BY <1>9, <2>1, ApiSteps DEF StopApi
<1>10. QED BY <1>2, <1>3, <1>5, <1>6, <1>7, <1>8, <1>9 DEF Api_

-----------------------------------------------------------------------------
(* The theorems. *)

LEMMA InitHolds == Init => IInv
<1> SUFFICES ASSUME Init PROVE IInv
  OBVIOUS
<1>1. coll \in Coll /\ coll.live <= coll.last
  BY LibraryAssumption DEF Init, Coll, Recs
<1>2. TypeOK
  BY <1>1, LibraryAssumption, IdleHolds, NoMarksHold DEF Init, TypeOK, Coll, Recs, Down, Api
<1>3. \A l \in Loaders : RunInv(run[l], coll.recs)
  BY IdleHolds DEF Init
<1>4. MarksTrue(tracker, coll.recs) /\ ApiInv(api, coll.recs)
  BY NoMarksHold DEF Init, Down, ApiInv
<1>5. QED BY <1>1, <1>2, <1>3, <1>4 DEF IInv

LEMMA NextKeeps ==
  ASSUME IInv, [Next]_vars
  PROVE  IInv'
<1>1. ASSUME NEW l \in Loaders, Loader(l)
      PROVE  IInv'
  <2>1. CASE \E force \in BOOLEAN : StartRun(l, force)
    BY <2>1, StartRunKeeps
  <2>2. CASE DeleteCollection(l) \/ CreateCollection(l) \/ Plan(l)
    BY <2>2, DeleteCollectionKeeps, CreateCollectionKeeps, PlanKeeps
  <2>3. CASE \E f \in Files : ProcessFile(l, f)
    BY <2>3, ProcessFileKeeps
  <2>4. CASE AddBatch(l) \/ FinishFile(l) \/ FinishFiles(l)
    BY <2>4, AddBatchKeeps, FinishFileKeeps, FinishFilesKeeps
  <2>5. CASE SaveOpen(l) \/ SaveWrite(l)
    BY <2>5, SaveOpenKeeps, SaveWriteKeeps
  <2>6. CASE ReadDocuments(l) \/ Kill(l)
    BY <2>6, ReadDocumentsKeeps, KillKeeps
  <2>7. CASE RecheckIds(l) \/ VerifyPersisted(l) \/ ReplaceIndex(l) \/ ReplaceManifest(l)
    BY <2>7, PublishingKeeps, ReplaceKeeps
  <2>8. QED BY <1>1, <2>1, <2>2, <2>3, <2>4, <2>5, <2>6, <2>7 DEF Loader
<1>2. CASE UNCHANGED vars
  <2>1. UNCHANGED <<disk, coll, tracker, bm25, sync, run, api, runs>>
    BY <1>2 DEF vars
  <2>2. QED BY <2>1 DEF IInv, TypeOK
<1>3. QED BY <1>1, <1>2, EditKeeps, ApiKeeps DEF Next

(* The inductive invariant: true marks, commands that account for every      *)
(* document and chunk, and an API process that stays with one collection,    *)
(* whatever is killed, fails or runs beside them.                            *)
THEOREM IndexInvariantHolds == Spec => []IInv
<1>1. QED BY InitHolds, NextKeeps, PTL DEF Spec

(* What the tracker marks against the present collection is in it, and a     *)
(* forced run that publishes has read every document and publishes all of it:*)
(* index_tracker.py and the loader's forced path, for every chunking.        *)
THEOREM TrackerIsTrue == Spec => []TrackerInvariant
<1>1. ASSUME IInv PROVE TrackerTellsTruth
  <2> SUFFICES ASSUME tracker # Torn, NEW f \in Files, tracker[f] # Null,
                      tracker[f].gen = coll.live, tracker[f].read = tracker[f].text
               PROVE  Texts(f, tracker[f].text) \subseteq TextsOf(coll.recs[coll.live])
    BY DEF TrackerTellsTruth
  <2>1. QED BY <1>1 DEF IInv, MarksTrue, Has
<1>2. ASSUME IInv PROVE ForcedRunComplete
  BY <1>2 DEF IInv, RunInv, ForcedInv, Publishing, Has, ForcedRunComplete
<1>3. IInv => TrackerInvariant
  BY <1>1, <1>2 DEF IInv, TrackerInvariant
<1>4. QED BY <1>3, IndexInvariantHolds, PTL

(* What an API process answers is of the collection it opened, whichever     *)
(* channel it comes through: the check of hybrid_retriever.py at startup is  *)
(* enough, since a collection it holds is only added to.                     *)
THEOREM OneCollectionAnswers == Spec => []AnswersFromOneCollection
<1>1. IInv => AnswersFromOneCollection
  BY DEF IInv, ApiInv, AnswersFromOneCollection, Answer
<1>2. QED BY <1>1, IndexInvariantHolds, PTL
=============================================================================
