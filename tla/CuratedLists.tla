----------------------------- MODULE CuratedLists -----------------------------
(* The two lists a user edits by hand, kept in one SQLite file: the shopping   *)
(* list (ShoppingListRepository, "items") and the declared preferences         *)
(* (DeclaredPreferenceRepository, "prefs").  A client builds a request from    *)
(* what it last saw; the repository runs it as one transaction opened with     *)
(* BEGIN IMMEDIATE, so that the two stores share one write lock; a reply may   *)
(* be lost and the same request sent again.  The expected version (the         *)
(* expected count of a reset) is all the transaction knows of what the client  *)
(* saw.  Quantities, notes, prices, stances and timestamps are a "body".       *)
EXTENDS Naturals, FiniteSets

CONSTANTS
  Clients,      \* requests in flight, one at a time per client
  MaxRows,      \* bound: the largest row id SQLite gives
  Identities,   \* what an entry is about: a wine, or a name with a vintage
  Catalogue,    \* the identities taken from the wine catalogue
  Bodies,       \* the mutable content of an entry
  MaxEntries,   \* MAX_DECLARED_PREFERENCES
  MaxRequests,  \* bound: requests submitted, retries not counted
  None

Stores == {"items", "prefs"}
Ids == 1..MaxRows
Statuses == {"wanted", "purchased", "declared"}
Entry == [identity : Identities, status : Statuses, body : Bodies, version : Nat]

(* A request changes one field; the code writes all fields of a request in     *)
(* one UPDATE.                                                                 *)
Patches(st) ==
  [field : {"body"}, value : Bodies] \cup
  IF st = "prefs" THEN {}
  ELSE [field : {"status"}, value : {"wanted", "purchased"}] \cup
       [field : {"identity"}, value : Identities \ Catalogue]

Creations == [op : {"create"}, store : Stores, entry : Entry]
ChangesOf(st) == [op : {"change"}, store : {st}, id : Ids, base : Entry, patch : Patches(st)]
Deletions == [op : {"delete"}, store : Stores, id : Ids, base : Entry]
Resets == [op : {"reset"}, store : {"prefs"}, count : Nat]
Requests == Creations \cup ChangesOf("items") \cup ChangesOf("prefs") \cup Deletions \cup Resets

ASSUME CuratedAssumption ==
  /\ Catalogue \subseteq Identities
  /\ MaxRows \in Nat
  /\ MaxEntries \in Nat
  /\ MaxRequests \in Nat
  /\ None \notin Clients /\ None \notin Entry /\ None \notin Requests

VARIABLES
  table,    \* the committed rows of each store
  last,     \* sqlite_sequence: the largest id a store ever gave a committed row
  request,  \* each client's latest request
  step,     \* where that request stands
  asked,    \* requests submitted so far
  lock      \* the client whose transaction holds the write lock

vars == <<table, last, request, step, asked, lock>>

Present(st) == {i \in Ids : table[st][i] # None}
Count(st) == Cardinality(Present(st))

(* AUTOINCREMENT.                                                              *)
NextRowid(st) ==   \* a mutant of NextId
  CHOOSE i \in 1..(MaxRows + 1) :
    /\ \A j \in Present(st) : j < i
    /\ i = 1 \/ i - 1 \in Present(st)
NextId(st) == last[st] + 1

(* The partial unique indexes: a purchased item no longer claims its identity. *)
Claims(e) == e.status # "purchased"
TakenOnCreation(st, i, e) ==   \* a mutant of Taken
  i = NextId(st) /\ \E j \in Present(st) \ {i} :
    Claims(table[st][j]) /\ table[st][j].identity = e.identity
Taken(st, i, e) ==
  Claims(e) /\ \E j \in Present(st) \ {i} :
    Claims(table[st][j]) /\ table[st][j].identity = e.identity

Matches(r) ==
  table[r.store][r.id] # None /\ table[r.store][r.id].version = r.base.version

Admitted(r) ==
  /\ r.op = "create" /\ r.store = "prefs" => Count("prefs") < MaxEntries
  /\ r.op \in {"change", "delete"} => Matches(r)
  /\ r.op = "change" /\ r.patch.field = "identity" =>
       table[r.store][r.id].identity \notin Catalogue
  /\ r.op = "reset" => Count("prefs") = r.count

Patched(e, p) ==
  [identity |-> IF p.field = "identity" THEN p.value ELSE e.identity,
   status   |-> IF p.field = "status" THEN p.value ELSE e.status,
   body     |-> IF p.field = "body" THEN p.value ELSE e.body,
   version  |-> e.version + 1]

MayBegin == lock = None

(* Both lists start empty: their tables are made by the schema migration.      *)
Init ==
  /\ table = [st \in Stores |-> [i \in Ids |-> None]]
  /\ last = [st \in Stores |-> 0]
  /\ request = [c \in Clients |-> None]
  /\ step = [c \in Clients |-> "done"]
  /\ asked = 0
  /\ lock = None

NewEntry(st, d, b) ==
  [identity |-> d, status |-> IF st = "items" THEN "wanted" ELSE "declared",
   body |-> b, version |-> 1]

(* What a client may ask for, over the list as it is displayed.                *)
Asks(st) ==
  {[op |-> "create", store |-> st, entry |-> NewEntry(st, d, b)] :
     d \in Identities, b \in Bodies}
  \cup {[op |-> "change", store |-> st, id |-> i, base |-> table[st][i], patch |-> p] :
     i \in Present(st), p \in Patches(st)}
  \cup {[op |-> "delete", store |-> st, id |-> i, base |-> table[st][i]] :
     i \in Present(st)}
(* A reset confirms the number of preferences displayed.                       *)
Confirmations == {[op |-> "reset", store |-> "prefs", count |-> Count("prefs")]}

Submit(c) ==
  /\ step[c] = "done" /\ asked < MaxRequests
  /\ \E r \in Asks("items") \cup Asks("prefs") \cup Confirmations :
       request' = [request EXCEPT ![c] = r]
  /\ step' = [step EXCEPT ![c] = "pending"]
  /\ asked' = asked + 1
  /\ UNCHANGED <<table, last, lock>>

(* The reply is lost, or says 503 or 500: the same request is sent again.      *)
Retry(c) ==
  /\ step[c] = "done" /\ request[c] # None
  /\ step' = [step EXCEPT ![c] = "pending"]
  /\ UNCHANGED <<table, last, request, asked, lock>>

(* PRAGMA busy_timeout, BEGIN IMMEDIATE.                                       *)
Begin(c) ==
  /\ step[c] = "pending" /\ MayBegin
  /\ step' = [step EXCEPT ![c] = "open"]
  /\ lock' = c
  /\ UNCHANGED <<table, last, request, asked>>

(* The lock stayed taken for the whole of the busy timeout: 503.               *)
Busy(c) ==
  /\ step[c] = "pending" /\ lock # None
  /\ step' = [step EXCEPT ![c] = "done"]
  /\ UNCHANGED <<table, last, request, asked, lock>>

(* The SELECTs of the transaction and the checks made on their results.        *)
Read(c) ==
  /\ step[c] = "open" /\ Admitted(request[c])
  /\ step' = [step EXCEPT ![c] = "read"]
  /\ UNCHANGED <<table, last, request, asked, lock>>

Release(c) ==
  /\ step' = [step EXCEPT ![c] = "done"]
  /\ lock' = None
  /\ UNCHANGED <<request, asked>>

RollbackForgotten(c) ==   \* a mutant of Rollback
  step' = [step EXCEPT ![c] = "done"] /\ UNCHANGED <<table, last, request, asked, lock>>
Rollback(c) == Release(c) /\ UNCHANGED <<table, last>>

(* Not found, version or count changed, catalogue identity, limit reached.     *)
Refuse(c) == step[c] = "open" /\ ~Admitted(request[c]) /\ Rollback(c)

Insert(c) ==
  LET r == request[c] IN
  /\ r.op = "create"
  /\ ~Taken(r.store, NextId(r.store), r.entry)
  /\ NextId(r.store) \in Ids
  /\ table' = [table EXCEPT ![r.store][NextId(r.store)] = r.entry]
  /\ last' = [last EXCEPT ![r.store] = NextId(r.store)]

(* UPDATE ... WHERE id = ? AND version = ?                                     *)
Update(c) ==
  LET r == request[c]
      e == Patched(table[r.store][r.id], r.patch) IN
  /\ r.op = "change"
  /\ Matches(r)
  /\ ~Taken(r.store, r.id, e)
  /\ table' = [table EXCEPT ![r.store][r.id] = e]
  /\ UNCHANGED last

Remove(c) ==
  LET r == request[c] IN
  /\ r.op = "delete"
  /\ Matches(r)
  /\ table' = [table EXCEPT ![r.store][r.id] = None]
  /\ UNCHANGED last

Clear(c) ==
  /\ request[c].op = "reset"
  /\ table' = [table EXCEPT !["prefs"] = [i \in Ids |-> None]]
  /\ UNCHANGED last

(* The write and the commit that follows it.                                   *)
Commit(c) ==
  /\ step[c] = "read"
  /\ Insert(c) \/ Update(c) \/ Remove(c) \/ Clear(c)
  /\ Release(c)

(* The write fails: a unique index (409), or no id is left for the row.        *)
Collide(c) ==
  LET r == request[c] IN
  /\ step[c] = "read"
  /\ \/ r.op = "create" /\ (Taken(r.store, NextId(r.store), r.entry) \/ NextId(r.store) \notin Ids)
     \/ r.op = "change" /\ Matches(r) /\ Taken(r.store, r.id, Patched(table[r.store][r.id], r.patch))
  /\ Rollback(c)

(* Any other error, or the end of the process: the connection is closed.       *)
Abort(c) == step[c] \in {"open", "read"} /\ Rollback(c)

Progress(c) ==
  Begin(c) \/ Busy(c) \/ Read(c) \/ Refuse(c) \/ Commit(c) \/ Collide(c)

Next == \E c \in Clients : Submit(c) \/ Retry(c) \/ Progress(c) \/ Abort(c)

Spec == Init /\ [][Next]_vars
(* A request is handled on a server thread that is not stopped half-way: its   *)
(* statements are run one after the other, each bounded by the busy timeout.   *)
FairSpec == Spec /\ \A c \in Clients : WF_vars(Progress(c))

-----------------------------------------------------------------------------
TypeOK ==
  /\ table \in [Stores -> [Ids -> Entry \cup {None}]]
  /\ last \in [Stores -> 0..MaxRows]
  /\ request \in [Clients -> Requests \cup {None}]
  /\ step \in [Clients -> {"done", "pending", "open", "read"}]
  /\ asked \in 0..MaxRequests
  /\ lock \in Clients \cup {None}

(* Two wanted items are never about the same wine, and two preferences never   *)
(* about the same subject, whatever purchases, restorations, renamings and     *)
(* repeated creations interleave.                                              *)
OneClaimPerIdentity ==
  \A st \in Stores : \A i, j \in Present(st) :
    /\ Claims(table[st][i]) /\ Claims(table[st][j])
    /\ table[st][i].identity = table[st][j].identity
    => i = j

(* The limit on preferences is checked by one statement and used by the next:  *)
(* no pair of creations passes it together.                                    *)
LimitHolds == Count("prefs") <= MaxEntries

(* What the stores guarantee at every moment.                                  *)
CuratedInvariant == TypeOK /\ OneClaimPerIdentity /\ LimitHolds

(* An entry is only ever changed or deleted by a client that saw it exactly as *)
(* it is at that moment, also when the request is a retry and its id was       *)
(* deleted meanwhile; the version stands for the whole entry.  A reset is      *)
(* exempt: it only knows how many entries its client saw.                      *)
SawWhatItReplaces(c, st, i) ==
  /\ lock = c /\ request[c].store = st
  /\ \/ /\ request[c].op \in {"change", "delete"}
        /\ request[c].id = i /\ request[c].base = table[st][i]
     \/ request[c].op = "reset" /\ request[c].count = Count(st)
NoLostUpdate ==
  [][\A st \in Stores : \A i \in Present(st) :
       table'[st][i] # table[st][i] => \E c \in Clients : SawWhatItReplaces(c, st, i)]_vars

(* Every request is answered, and no transaction, however it ends, keeps the   *)
(* write lock.                                                                 *)
RequestsSettle ==
  /\ \A c \in Clients : step[c] = "pending" ~> step[c] = "done"
  /\ []<>(lock = None)

=============================================================================
