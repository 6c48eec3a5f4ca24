-------------------------- MODULE CuratedLists_proofs --------------------------
(* Proofs about CuratedLists, for any clients, identities and bodies, and any  *)
(* limit: the write lock makes what a transaction read still true when it      *)
(* writes, and a version never comes back under the id a client knows.  The    *)
(* last part is about CellarRecords, the rows of wines, bottles and tastings.  *)
EXTENDS CuratedLists, CellarRecords, FiniteSetTheorems, WellFoundedInduction, TLAPS

(* The open transaction is the one that holds the lock.                        *)
Exclusive == \A c \in Clients : step[c] \in {"open", "read"} <=> lock = c

(* What passed its checks still passes them.                                   *)
Checked == \A c \in Clients :
  /\ step[c] # "done" => request[c] # None
  /\ step[c] = "read" => Admitted(request[c])

Dated == \A st \in Stores : \A i \in Present(st) : i <= last[st]

(* The row a request is about is gone, newer, or just what its client saw.     *)
Known(r) ==
  /\ r.id <= last[r.store]
  /\ table[r.store][r.id] # None =>
       /\ r.base.version <= table[r.store][r.id].version
       /\ r.base.version = table[r.store][r.id].version => r.base = table[r.store][r.id]
Editing(r) == r # None /\ r.op \in {"change", "delete"}
Remembered == \A c \in Clients : Editing(request[c]) => Known(request[c])

(* The inductive invariant, the part about the rows first.                     *)
Rows == /\ table \in [Stores -> [Ids -> Entry \cup {None}]]
        /\ last \in [Stores -> 0..MaxRows]
        /\ OneClaimPerIdentity /\ LimitHolds /\ Dated
IInv == TypeOK /\ Rows /\ Exclusive /\ Checked /\ Remembered

-----------------------------------------------------------------------------
LEMMA RequestFields ==
  ASSUME NEW r \in Requests
  PROVE  /\ r.store \in Stores /\ r # None
         /\ r.op = "create" => r.entry \in Entry
         /\ r.op \in {"change", "delete"} => r.id \in Ids /\ r.base \in Entry
         /\ r.op = "change" => r.patch \in Patches(r.store)
         /\ r.op = "reset" => r.store = "prefs"
         /\ r.op \in {"create", "change", "delete", "reset"}
BY CuratedAssumption DEF Requests, Creations, ChangesOf, Deletions, Resets, Stores

LEMMA PatchedEntry ==
  ASSUME NEW e \in Entry, NEW st \in Stores, NEW p \in Patches(st)
  PROVE  /\ Patched(e, p) \in Entry /\ Patched(e, p) # None
         /\ Patched(e, p).version = e.version + 1
BY CuratedAssumption DEF Patched, Entry, Patches, Statuses

LEMMA FinitePresent ==
  ASSUME NEW st
  PROVE  IsFiniteSet(Present(st)) /\ Count(st) \in Nat
<1>1. IsFiniteSet(Ids)
  BY FS_Interval, CuratedAssumption DEF Ids
<1>2. Present(st) \in SUBSET Ids
  BY DEF Present
<1>3. QED BY <1>1, <1>2, FS_Subset, FS_CardinalityType DEF Count

-----------------------------------------------------------------------------
(* Four ways the rows change.  Each keeps what other requests know of them.    *)
LEMMA InsertKeeps ==
  ASSUME TypeOK, Rows, NEW c \in Clients, request[c] # None,
         Admitted(request[c]), Insert(c)
  PROVE  /\ Rows'
         /\ \A r \in Requests : r.op \in {"change", "delete"} /\ Known(r) => Known(r)'
<1> DEFINE r == request[c]  st == r.store  n == NextId(st)
<1>1. r \in Requests
  BY DEF TypeOK
<1>2. /\ st \in Stores /\ r.entry \in Entry /\ r.entry # None /\ n \in Ids
      /\ ~Taken(st, n, r.entry)
      /\ table' = [table EXCEPT ![st][n] = r.entry]
      /\ last' = [last EXCEPT ![st] = n]
  BY <1>1, RequestFields, CuratedAssumption DEF Insert
<1>3. /\ n = last[st] + 1 /\ last[st] \in 0..MaxRows /\ MaxRows \in Nat
      /\ \A i \in Present(st) : i <= last[st]
  BY <1>2, CuratedAssumption DEF Rows, Dated, NextId
<1>4. n \notin Present(st)
  BY <1>3 DEF Present, Ids
<1>5. /\ table' \in [Stores -> [Ids -> Entry \cup {None}]]
      /\ last' \in [Stores -> 0..MaxRows]
  BY <1>2, CuratedAssumption DEF Rows, Ids
<1>6. /\ \A s \in Stores : s = st => Present(s)' = Present(s) \cup {n}
      /\ \A s \in Stores \ {st} : Present(s)' = Present(s) /\ table'[s] = table[s] /\ last'[s] = last[s]
      /\ \A i \in Ids \ {n} : table'[st][i] = table[st][i]
      /\ table'[st][n] = r.entry /\ last'[st] = n
  <2> HIDE DEF n
  <2>1. /\ \A i \in Ids \ {n} : table'[st][i] = table[st][i]
        /\ table'[st][n] = r.entry /\ last'[st] = n
        /\ \A s \in Stores \ {st} : table'[s] = table[s] /\ last'[s] = last[s]
    BY <1>2 DEF Rows
  <2>2. ASSUME NEW s \in Stores, s = st PROVE Present(s)' = Present(s) \cup {n}
    BY <2>1, <2>2, <1>2 DEF Present
  <2>3. \A s \in Stores \ {st} : Present(s)' = Present(s)
    BY <2>1 DEF Present
  <2>4. QED BY <2>1, <2>2, <2>3
<1>7. OneClaimPerIdentity'
  <2>1. ASSUME NEW s \in Stores, NEW i \in Present(s)', NEW j \in Present(s)',
               Claims(table'[s][i]), Claims(table'[s][j]),
               table'[s][i].identity = table'[s][j].identity
        PROVE  i = j
    <3>1. CASE s # st
      BY <2>1, <3>1, <1>6 DEF Rows, OneClaimPerIdentity
    <3>2. CASE s = st /\ i # n /\ j # n
      <4>1. i \in Present(st) /\ j \in Present(st) /\ i \in Ids /\ j \in Ids
        BY <3>2, <2>1, <1>6 DEF Present
      <4>2. QED BY <4>1, <3>2, <2>1, <1>6, <1>2 DEF Rows, OneClaimPerIdentity
    <3>3. CASE s = st /\ i = n /\ j # n
      <4>1. j \in Present(st) /\ j \in Ids
        BY <3>3, <2>1, <1>6 DEF Present
      <4>2. QED BY <4>1, <3>3, <2>1, <1>6, <1>2 DEF Taken
    <3>4. CASE s = st /\ i # n /\ j = n
      <4>1. i \in Present(st) /\ i \in Ids
        BY <3>4, <2>1, <1>6 DEF Present
      <4>2. QED BY <4>1, <3>4, <2>1, <1>6, <1>2 DEF Taken
    <3>5. CASE s = st /\ i = n /\ j = n
      BY <3>5
    <3>6. QED BY <3>1, <3>2, <3>3, <3>4, <3>5
  <2>2. QED BY <2>1 DEF OneClaimPerIdentity, Claims
<1>8. LimitHolds'
  <2>1. CASE st = "prefs"
    <3>1. Count("prefs") < MaxEntries
      BY <2>1 DEF Admitted, Insert
    <3>2. Count("prefs")' = Count("prefs") + 1
      <4>1. Present("prefs")' = Present("prefs") \cup {n} /\ n \notin Present("prefs")
        BY <2>1, <1>4, <1>6 DEF Stores
      <4>2. QED BY <4>1, FinitePresent, FS_AddElement DEF Count
    <3>3. QED BY <3>1, <3>2, FinitePresent, CuratedAssumption DEF LimitHolds
  <2>2. CASE st # "prefs"
    BY <2>2, <1>6 DEF Rows, LimitHolds, Count, Stores
  <2>3. QED BY <2>1, <2>2
<1>9. Dated'
  <2>1. ASSUME NEW s \in Stores, NEW i \in Present(s)'  PROVE i <= last'[s]
    <3>1. CASE s # st
      BY <3>1, <2>1, <1>6 DEF Rows, Dated
    <3>2. CASE s = st
      <4>1. i \in Ids /\ (i = n \/ i \in Present(st))
        BY <3>2, <2>1, <1>6, <1>2 DEF Present
      <4>2. QED BY <4>1, <3>2, <1>6, <1>3, <1>2 DEF Ids
    <3>3. QED BY <3>1, <3>2
  <2>2. QED BY <2>1 DEF Dated
<1>10. ASSUME NEW q \in Requests, q.op \in {"change", "delete"}, Known(q)
       PROVE  Known(q)'
  <2>1. q.store \in Stores /\ q.id \in Ids /\ q.id <= last[q.store]
    BY <1>10, RequestFields DEF Known
  <2>2. CASE q.store = st
    <3>1. q.id # n /\ q.id <= last'[st]
      BY <2>1, <2>2, <1>3, <1>6 DEF Ids
    <3>2. table'[st][q.id] = table[st][q.id]
      BY <3>1, <2>1, <1>6
    <3>3. QED BY <3>1, <3>2, <2>2, <1>10 DEF Known
  <2>3. CASE q.store # st
    BY <2>1, <2>3, <1>6, <1>10 DEF Known
  <2>4. QED BY <2>2, <2>3
<1>11. QED BY <1>5, <1>7, <1>8, <1>9, <1>10 DEF Rows

LEMMA UpdateKeeps ==
  ASSUME TypeOK, Rows, NEW c \in Clients, request[c] # None, Update(c)
  PROVE  /\ Rows'
         /\ \A r \in Requests : r.op \in {"change", "delete"} /\ Known(r) => Known(r)'
<1> DEFINE r == request[c]  st == r.store  n == r.id
           old == table[st][n]  e == Patched(old, r.patch)
<1>1. r \in Requests
  BY DEF TypeOK
<1>2. /\ st \in Stores /\ n \in Ids /\ r.patch \in Patches(st)
      /\ old # None /\ ~Taken(st, n, e)
      /\ table' = [table EXCEPT ![st][n] = e] /\ last' = last
  BY <1>1, RequestFields DEF Update, Matches
<1>3. old \in Entry
  BY <1>2 DEF Rows
<1>4. e \in Entry /\ e # None /\ e.version = old.version + 1
  BY <1>2, <1>3, PatchedEntry
<1>5. table' \in [Stores -> [Ids -> Entry \cup {None}]]
  BY <1>2, <1>4 DEF Rows
<1>6. /\ \A s \in Stores : Present(s)' = Present(s)
      /\ \A s \in Stores \ {st} : table'[s] = table[s]
      /\ \A i \in Ids \ {n} : table'[st][i] = table[st][i]
      /\ table'[st][n] = e
  BY <1>2, <1>4 DEF Present, Rows
<1>7. OneClaimPerIdentity'
  <2>1. ASSUME NEW s \in Stores, NEW i \in Present(s)', NEW j \in Present(s)',
               Claims(table'[s][i]), Claims(table'[s][j]),
               table'[s][i].identity = table'[s][j].identity
        PROVE  i = j
    <3>0. i \in Present(s) /\ j \in Present(s) /\ i \in Ids /\ j \in Ids
      BY <2>1, <1>6 DEF Present
    <3>1. CASE s # st \/ (i # n /\ j # n)
      BY <2>1, <3>0, <3>1, <1>6 DEF Rows, OneClaimPerIdentity
    <3>2. \A k \in Present(st) : k \in Ids /\ k # n /\ Claims(table[st][k]) /\ Claims(e)
             => table[st][k].identity # e.identity
      BY <1>2 DEF Taken, Present
    <3>3. CASE s = st /\ i = n /\ j # n
      BY <3>0, <3>2, <3>3, <2>1, <1>6
    <3>4. CASE s = st /\ i # n /\ j = n
      BY <3>0, <3>2, <3>4, <2>1, <1>6
    <3>5. QED BY <3>1, <3>3, <3>4
  <2>2. QED BY <2>1 DEF OneClaimPerIdentity, Claims
<1>8. LimitHolds' /\ Dated'
  BY <1>2, <1>6 DEF Rows, LimitHolds, Dated, Count, Stores
<1>9. ASSUME NEW q \in Requests, q.op \in {"change", "delete"}, Known(q)
      PROVE  Known(q)'
  <2>1. q.store \in Stores /\ q.id \in Ids /\ q.base \in Entry
    BY <1>9, RequestFields
  <2>2. CASE q.store = st /\ q.id = n
    <3>1. q.base.version <= old.version /\ q.base.version \in Nat /\ old.version \in Nat
      BY <2>1, <2>2, <1>2, <1>3, <1>9 DEF Known, Entry
    <3>2. q.base.version < e.version
      BY <3>1, <1>4
    <3>3. QED BY <3>1, <3>2, <2>2, <1>2, <1>4, <1>6, <1>9 DEF Known
  <2>3. CASE ~(q.store = st /\ q.id = n)
    BY <2>1, <2>3, <1>2, <1>6, <1>9 DEF Known
  <2>4. QED BY <2>2, <2>3
<1>10. QED BY <1>2, <1>5, <1>7, <1>8, <1>9 DEF Rows

(* Rows that only disappear.                                                   *)
LEMMA DeletionKeeps ==
  ASSUME Rows, last' = last,
         table' \in [Stores -> [Ids -> Entry \cup {None}]],
         \A s \in Stores : \A i \in Ids : table'[s][i] \in {table[s][i], None}
  PROVE  /\ Rows'
         /\ \A r \in Requests : r.op \in {"change", "delete"} /\ Known(r) => Known(r)'
<1>1. \A s \in Stores : Present(s)' \in SUBSET Present(s)
  BY DEF Present
<1>2. \A s \in Stores : \A i \in Present(s)' : i \in Present(s) /\ table'[s][i] = table[s][i]
  BY DEF Present
<1>3. OneClaimPerIdentity' /\ Dated'
  BY <1>2 DEF Rows, OneClaimPerIdentity, Dated, Claims
<1>4. LimitHolds'
  <2>1. Count("prefs")' <= Count("prefs")
    BY <1>1, FinitePresent, FS_Subset DEF Count, Stores
  <2>2. Count("prefs")' \in Nat
    <3>1. IsFiniteSet(Present("prefs")')
      BY <1>1, FinitePresent, FS_Subset DEF Stores
    <3>2. QED BY <3>1, FS_CardinalityType DEF Count
  <2>3. QED BY <2>1, <2>2, FinitePresent, CuratedAssumption DEF Rows, LimitHolds
<1>5. ASSUME NEW q \in Requests, q.op \in {"change", "delete"}, Known(q)
      PROVE  Known(q)'
  <2>1. q.store \in Stores /\ q.id \in Ids
    BY <1>5, RequestFields
  <2>2. QED BY <2>1, <1>5 DEF Known
<1>6. QED BY <1>3, <1>4, <1>5 DEF Rows

LEMMA WriteKeeps ==
  ASSUME TypeOK, Rows, NEW c \in Clients, request[c] # None, Admitted(request[c]),
         Insert(c) \/ Update(c) \/ Remove(c) \/ Clear(c)
  PROVE  /\ Rows'
         /\ \A r \in Requests : r.op \in {"change", "delete"} /\ Known(r) => Known(r)'
<1>1. CASE Insert(c)
  BY <1>1, InsertKeeps
<1>2. CASE Update(c)
  BY <1>2, UpdateKeeps
<1>3. CASE Remove(c)
  <2>1. request[c].store \in Stores /\ request[c].id \in Ids
    BY <1>3, RequestFields DEF TypeOK, Remove
  <2>2. /\ table' \in [Stores -> [Ids -> Entry \cup {None}]] /\ last' = last
        /\ \A s \in Stores : \A i \in Ids : table'[s][i] \in {table[s][i], None}
    BY <1>3, <2>1 DEF Rows, Remove
  <2>3. QED BY <2>2, DeletionKeeps
<1>4. CASE Clear(c)
  <2>1. /\ table' \in [Stores -> [Ids -> Entry \cup {None}]] /\ last' = last
        /\ \A s \in Stores : \A i \in Ids : table'[s][i] \in {table[s][i], None}
    BY <1>4 DEF Rows, Clear, Stores
  <2>2. QED BY <2>1, DeletionKeeps
<1>5. QED BY <1>1, <1>2, <1>3, <1>4
-----------------------------------------------------------------------------
(* Initially both lists are empty and nothing was asked.                       *)
LEMMA InitInvariant == Init => IInv
<1> SUFFICES ASSUME Init PROVE IInv
  OBVIOUS
<1>1. TypeOK
  BY CuratedAssumption DEF Init, TypeOK
<1>2. \A st \in Stores : Present(st) = {}
  BY DEF Init, Present
<1>3. Count("prefs") = 0
  BY <1>2, FS_EmptySet DEF Count, Stores
<1>4. Rows
  BY <1>1, <1>2, <1>3, CuratedAssumption DEF TypeOK, Rows, OneClaimPerIdentity, LimitHolds, Dated
<1>5. Exclusive /\ Checked /\ Remembered
  BY CuratedAssumption DEF Init, Exclusive, Checked, Remembered, Editing
<1>6. QED BY <1>1, <1>4, <1>5 DEF IInv

(* Steps that leave the rows alone.                                            *)
LEMMA RowsStay ==
  ASSUME Rows, UNCHANGED <<table, last>>
  PROVE  /\ Rows'
         /\ \A r \in Requests : Known(r) => Known(r)'
         /\ \A r \in Requests : Admitted(r)' = Admitted(r)
<1>1. \A s : Present(s)' = Present(s) /\ Count(s)' = Count(s)
  BY DEF Present, Count
<1>2. Rows'
  BY <1>1 DEF Rows, OneClaimPerIdentity, LimitHolds, Dated
<1>3. QED BY <1>1, <1>2 DEF Known, Admitted, Matches

LEMMA RequestsStay ==
  ASSUME IInv, UNCHANGED <<table, last, request>>, Exclusive', TypeOK',
         \A c \in Clients : step'[c] # "done" => request[c] # None,
         \A c \in Clients : step'[c] = "read" => Admitted(request[c])
  PROVE  IInv'
<1>1. Rows' /\ \A r \in Requests : (Known(r) => Known(r)') /\ Admitted(r)' = Admitted(r)
  BY RowsStay DEF IInv
<1>2. \A c \in Clients : request[c] # None => request[c] \in Requests
  BY DEF IInv, TypeOK
<1>3. Checked'
  BY <1>1, <1>2 DEF Checked
<1>4. Remembered'
  BY <1>1, <1>2 DEF IInv, Remembered, Editing
<1>5. QED BY <1>1, <1>3, <1>4 DEF IInv

LEMMA SubmitKeeps ==
  ASSUME IInv, NEW c \in Clients, Submit(c)
  PROVE  IInv'
<1>1. Rows' /\ \A r \in Requests : (Known(r) => Known(r)') /\ Admitted(r)' = Admitted(r)
  BY RowsStay DEF IInv, Submit
<1>2. PICK r \in Asks("items") \cup Asks("prefs") \cup Confirmations :
        request' = [request EXCEPT ![c] = r]
  BY DEF Submit
<1>3. r \in Requests /\ (r.op \in {"change", "delete"} => Known(r))
  <2>1. ASSUME NEW st \in Stores, r \in Asks(st)
        PROVE  r \in Requests /\ (r.op \in {"change", "delete"} => Known(r))
    <3>1. CASE \E d \in Identities, b \in Bodies :
                 r = [op |-> "create", store |-> st, entry |-> NewEntry(st, d, b)]
      BY <3>1, <2>1 DEF Requests, Creations, NewEntry, Entry, Statuses
    <3>2. CASE \E i \in Present(st) : \E p \in Patches(st) :
                 r = [op |-> "change", store |-> st, id |-> i, base |-> table[st][i], patch |-> p]
      <4>1. PICK i \in Present(st), p \in Patches(st) :
                 r = [op |-> "change", store |-> st, id |-> i, base |-> table[st][i], patch |-> p]
        BY <3>2
      <4>2. i \in Ids /\ table[st][i] \in Entry /\ i <= last[st]
        BY <2>1 DEF IInv, Rows, Present, Dated
      <4>3. r \in Requests
        BY <4>1, <4>2, <2>1 DEF Requests, ChangesOf, Stores
      <4>4. Known(r)
        BY <4>1, <4>2 DEF Known, Entry
      <4>5. QED BY <4>3, <4>4
    <3>3. CASE \E i \in Present(st) :
                 r = [op |-> "delete", store |-> st, id |-> i, base |-> table[st][i]]
      <4>1. PICK i \in Present(st) :
                 r = [op |-> "delete", store |-> st, id |-> i, base |-> table[st][i]]
        BY <3>3
      <4>2. i \in Ids /\ table[st][i] \in Entry /\ i <= last[st]
        BY <2>1 DEF IInv, Rows, Present, Dated
      <4>3. r \in Requests
        BY <4>1, <4>2, <2>1 DEF Requests, Deletions
      <4>4. Known(r)
        BY <4>1, <4>2 DEF Known, Entry
      <4>5. QED BY <4>3, <4>4
    <3>4. QED BY <3>1, <3>2, <3>3, <2>1 DEF Asks
  <2>2. CASE r \in Confirmations
    BY <2>2, FinitePresent DEF Confirmations, Requests, Resets
  <2>3. QED BY <2>1, <2>2 DEF Stores
<1>4. step[c] = "done" /\ step' = [step EXCEPT ![c] = "pending"] /\ lock' = lock
  BY DEF Submit
<1>5. TypeOK'
  BY <1>2, <1>3, CuratedAssumption DEF IInv, TypeOK, Submit
<1>6. Exclusive'
  BY <1>4 DEF IInv, TypeOK, Exclusive
<1>7. Checked'
  BY <1>1, <1>2, <1>3, <1>4, CuratedAssumption DEF IInv, TypeOK, Checked
<1>8. Remembered'
  BY <1>1, <1>2, <1>3 DEF IInv, TypeOK, Remembered, Editing
<1>9. QED BY <1>1, <1>5, <1>6, <1>7, <1>8 DEF IInv

LEMMA CommitKeeps ==
  ASSUME IInv, NEW c \in Clients, Commit(c)
  PROVE  IInv'
<1>1. /\ step[c] = "read" /\ lock = c /\ request[c] # None /\ Admitted(request[c])
      /\ step' = [step EXCEPT ![c] = "done"] /\ lock' = None
      /\ request' = request /\ asked' = asked
  BY DEF IInv, Exclusive, Checked, Commit, Release
<1>2. Rows' /\ \A r \in Requests : r.op \in {"change", "delete"} /\ Known(r) => Known(r)'
  BY <1>1, WriteKeeps DEF IInv, Commit
<1>3. TypeOK'
  BY <1>1, <1>2 DEF IInv, TypeOK, Rows
<1>4. \A d \in Clients : step'[d] \notin {"open", "read"}
  BY <1>1 DEF IInv, TypeOK, Exclusive
<1>5. Exclusive' /\ Checked'
  BY <1>1, <1>4, CuratedAssumption DEF IInv, TypeOK, Exclusive, Checked
<1>6. Remembered'
  BY <1>1, <1>2 DEF IInv, TypeOK, Remembered, Editing
<1>7. QED BY <1>2, <1>3, <1>5, <1>6 DEF IInv

(* Every step preserves the invariant.                                         *)
LEMMA StepInvariant == IInv /\ [Next]_vars => IInv'
<1> SUFFICES ASSUME IInv, [Next]_vars PROVE IInv'
  OBVIOUS
<1>0. TypeOK /\ Exclusive /\ Checked /\ None \notin Clients
  BY CuratedAssumption DEF IInv
<1>1. CASE UNCHANGED vars
  <2>1. Exclusive' /\ TypeOK'
    BY <1>0, <1>1 DEF vars, Exclusive, TypeOK
  <2>2. QED BY <1>0, <1>1, <2>1, RequestsStay DEF vars, Checked
<1>2. ASSUME NEW c \in Clients, Submit(c) PROVE IInv'
  BY <1>2, SubmitKeeps
<1>3. ASSUME NEW c \in Clients, Commit(c) PROVE IInv'
  BY <1>3, CommitKeeps
<1>4. ASSUME NEW c \in Clients, Retry(c) \/ Begin(c) \/ Busy(c) \/ Read(c) PROVE IInv'
  <2>1. UNCHANGED <<table, last, request, asked>>
    BY <1>4 DEF Retry, Begin, Busy, Read
  <2>2. TypeOK'
    BY <1>0, <1>4 DEF TypeOK, Retry, Begin, Busy, Read
  <2>3. Exclusive'
    BY <1>0, <1>4 DEF TypeOK, Exclusive, Retry, Begin, MayBegin, Busy, Read
  <2>4. /\ \A d \in Clients : step'[d] # "done" => request[d] # None
        /\ \A d \in Clients : step'[d] = "read" => Admitted(request[d])
    BY <1>0, <1>4 DEF TypeOK, Checked, Retry, Begin, Busy, Read
  <2>5. QED BY <2>1, <2>2, <2>3, <2>4, RequestsStay
<1>5. ASSUME NEW c \in Clients, Refuse(c) \/ Collide(c) \/ Abort(c) PROVE IInv'
  <2>1. /\ UNCHANGED <<table, last, request, asked>> /\ lock = c /\ lock' = None
        /\ step' = [step EXCEPT ![c] = "done"]
    BY <1>0, <1>5 DEF Exclusive, Refuse, Collide, Abort, Rollback, Release
  <2>2. TypeOK'
    BY <1>0, <2>1 DEF TypeOK
  <2>3. Exclusive'
    BY <1>0, <2>1 DEF TypeOK, Exclusive
  <2>4. /\ \A d \in Clients : step'[d] # "done" => request[d] # None
        /\ \A d \in Clients : step'[d] = "read" => Admitted(request[d])
    BY <1>0, <2>1 DEF TypeOK, Checked
  <2>5. QED BY <2>1, <2>2, <2>3, <2>4, RequestsStay
<1>6. QED BY <1>1, <1>2, <1>3, <1>4, <1>5 DEF Next, Progress

LEMMA InvariantAlways == Spec => []IInv
<1>1. QED BY InitInvariant, StepInvariant, PTL DEF Spec

(* Types, one claim for an identity, and the limit, whatever clients do.       *)
THEOREM ListsStayConsistent == Spec => []CuratedInvariant
<1>1. IInv => CuratedInvariant
  BY DEF IInv, Rows, CuratedInvariant
<1>2. QED BY <1>1, InvariantAlways, PTL

-----------------------------------------------------------------------------
(* A row only changes under a client that saw it as it is.                     *)
LEMMA ChangeIsSeen ==
  ASSUME IInv, [Next]_vars, NEW st \in Stores, NEW i \in Present(st),
         table'[st][i] # table[st][i]
  PROVE  \E c \in Clients : SawWhatItReplaces(c, st, i)
<1>1. PICK c \in Clients : Commit(c)
  BY DEF Next, Progress, vars, Submit, Retry, Begin, Busy, Read, Refuse, Collide, Abort, Rollback
<1>2. /\ lock = c /\ request[c] \in Requests /\ Admitted(request[c])
      /\ i \in Ids /\ i <= last[st]
  BY <1>1 DEF IInv, TypeOK, Exclusive, Checked, Commit, Rows, Dated, Present
<1> DEFINE r == request[c]
<1>3. CASE Insert(c)
  <2>1. r.store \in Stores /\ last[r.store] \in 0..MaxRows
    BY <1>2, RequestFields DEF IInv, TypeOK
  <2>2. r.store # st \/ NextId(r.store) # i
    BY <1>2, <2>1, CuratedAssumption DEF NextId, Ids
  <2>3. QED BY <1>2, <1>3, <2>1, <2>2 DEF Insert, IInv, TypeOK
<1>4. CASE Update(c) \/ Remove(c)
  <2>1. /\ r.op \in {"change", "delete"} /\ Matches(r)
        /\ r.store \in Stores /\ r.id \in Ids
    BY <1>2, <1>4, RequestFields DEF Update, Remove
  <2>2. r.store = st /\ r.id = i
    BY <1>2, <1>4, <2>1 DEF Update, Remove, IInv, TypeOK
  <2>3. Known(r)
    BY <1>2, <2>1, RequestFields DEF IInv, Remembered, Editing
  <2>4. r.base = table[st][i]
    BY <2>1, <2>2, <2>3 DEF Known, Matches
  <2>5. QED BY <1>2, <2>1, <2>2, <2>4 DEF SawWhatItReplaces
<1>5. CASE Clear(c)
  <2>1. st = "prefs"
    BY <1>2, <1>5 DEF Clear, IInv, TypeOK, Stores
  <2>2. r.store = "prefs" /\ Count("prefs") = r.count /\ r.op = "reset"
    BY <1>2, <1>5, RequestFields DEF Clear, Admitted
  <2>3. QED BY <1>2, <2>1, <2>2 DEF SawWhatItReplaces
<1>6. QED BY <1>1, <1>3, <1>4, <1>5 DEF Commit

(* The expected version is as good as the whole entry: no update is lost.      *)
THEOREM VersionsPreventLostUpdates == Spec => NoLostUpdate
<1> DEFINE Seen == \A st \in Stores : \A i \in Present(st) :
             table'[st][i] # table[st][i] => \E c \in Clients : SawWhatItReplaces(c, st, i)
<1>1. IInv /\ [Next]_vars => [Seen]_vars
  BY ChangeIsSeen
<1> HIDE DEF Seen
<1>2. Spec => [][Seen]_vars
  BY <1>1, InvariantAlways, PTL DEF Spec
<1>3. QED BY <1>2 DEF NoLostUpdate, Seen

-----------------------------------------------------------------------------
(* CellarRecords: the rows of wines, bottles and tastings.                     *)

(* Ids are given upwards and never again, so that a new bottle is a new row.   *)
BottlesOK ==
  /\ bottles \in [DOMAIN bottles -> Bottle]
  /\ DOMAIN bottles \subseteq 1..(MaxBottles - budget.bottles)
  /\ \A b \in DOMAIN bottles : bottles[b].wine \in wines /\ DatedWhenConsumed(bottles[b])
  /\ \A a, b \in DOMAIN bottles :
       bottles[a].source = "vivino" /\ bottles[b].source = "vivino" /\ bottles[a].wine = bottles[b].wine => a = b

(* The personal fields of a row are what the ratings of an export make of them. *)
Reflects(row, export) ==
  export.stars # {} => row.rating = PersonalScore(Max(export.stars)) /\ row.like = (Max(export.stars) >= 35)

TastingsOK ==
  /\ tastings \in [WineIds -> Tasting \cup {Null}] /\ origin \in [WineIds -> Exports \cup {Null}]
  /\ \A w \in WineIds : tastings[w] # Null => w \in wines
  /\ \A w \in WineIds : origin[w] # Null => tastings[w] # Null /\ Reflects(tastings[w], origin[w])

RecordsIInv ==
  /\ wines \subseteq WineIds /\ budget \in [bottles : 0..MaxBottles, notes : 0..MaxNotes]
  /\ BottlesOK /\ TastingsOK

-----------------------------------------------------------------------------
(* A finite set of numbers has a largest one: of the subsets of S that a       *)
(* number of S leaves above itself, one is minimal.                            *)
LEMMA Largest ==
  ASSUME NEW S \in SUBSET Nat, IsFiniteSet(S), S # {}
  PROVE  Max(S) \in S /\ \A m \in S : m <= Max(S)
<1> DEFINE Above(n) == {m \in S : n < m}
           T == {Above(n) : n \in S}
<1>1. T \subseteq FiniteSubsetsOf(S) /\ T # {}
  <2>1. \A n \in S : Above(n) \in FiniteSubsetsOf(S)
    <3>1. \A n \in S : Above(n) \subseteq S
      OBVIOUS
    <3>2. \A n \in S : IsFiniteSet(Above(n))
      <4> HIDE DEF Above
      <4>1. QED BY <3>1, FS_Subset
    <3>3. QED BY <3>1, <3>2 DEF FiniteSubsetsOf
  <2>2. \A U \in T : U \in FiniteSubsetsOf(S)
    <3> HIDE DEF Above
    <3>1. QED BY <2>1
  <2>3. PICK n \in S : TRUE
    OBVIOUS
  <2>4. Above(n) \in T
    BY <2>3
  <2>5. QED BY <2>2, <2>4
<1>2. IsWellFoundedOn(StrictSubsetOrdering(S), FiniteSubsetsOf(S))
  BY FS_StrictSubsetOrderingWellFounded
<1>3. \E U \in T : \A V \in T : ~(<<V, U>> \in StrictSubsetOrdering(S))
  BY <1>1, <1>2, WFMin
<1>4. PICK n \in S : \A m \in S : <<Above(m), Above(n)>> \notin StrictSubsetOrdering(S)
  BY <1>3
<1>5. ASSUME NEW m \in S
      PROVE  m <= n
  <2>1. SUFFICES ASSUME n < m
                 PROVE  FALSE
    OBVIOUS
  <2>2. n \in Nat /\ m \in Nat /\ \A k \in S : k \in Nat
    OBVIOUS
  <2>3. \A k \in S : m < k => n < k
    BY <2>1, <2>2
  <2>4. m \in Above(n) /\ m \notin Above(m) /\ Above(m) \subseteq Above(n)
    <3>1. ~(m < m)
      BY <2>2
    <3>2. QED BY <2>1, <2>3, <3>1, Zenon
  <2>5. <<Above(m), Above(n)>> \in StrictSubsetOrdering(S)
    BY <2>4 DEF StrictSubsetOrdering
  <2>6. QED BY <1>4, <2>5
<1>6. \E x \in S : \A y \in S : x >= y
  BY <1>5
<1>7. QED BY <1>6 DEF Max

LEMMA LeastOne ==
  ASSUME NEW x \in Nat
  PROVE  Min({x}) = x
BY DEF Min

(* Every rating up to five stars has a score.                                  *)
LEMMA StarsScore ==
  ASSUME NEW stars \in 0..50
  PROVE  PersonalScore(stars) \in Scores
<1>1. CASE stars <= 10
  BY <1>1 DEF PersonalScore, Scores
<1>2. CASE ~(stars <= 10)
  <2> DEFINE J == {j \in 2..Len(Anchors) : stars <= Anchors[j][1]}
             i == Min(J)
  <2>1. i \in J
    <3>1. Len(Anchors) = 10 /\ Anchors[10][1] = 50
      BY DEF Anchors
    <3>2. 10 \in J
      BY <3>1
    <3>3. \E x \in J : \A y \in J : x <= y
      <4>1. J \subseteq 2..10
        BY <3>1
      <4>2. QED BY <3>2, <4>1
    <3>4. QED BY <3>3 DEF Min
  <2>2. PersonalScore(stars) =
          LET lo == Anchors[i - 1]   hi == Anchors[i]   span == hi[1] - lo[1]
          IN  (2 * (lo[2] * span + (stars - lo[1]) * (hi[2] - lo[2])) + span) \div (2 * span)
    BY <1>2 DEF PersonalScore
  <2> HIDE DEF i
  <2>3. i \in 2..10 /\ stars <= Anchors[i][1]
    BY <2>1 DEF Anchors
  <2>4. CASE i = 2
    <3>1. i - 1 = 1 /\ Anchors[1] = <<10, 70>> /\ Anchors[2] = <<15, 75>>
      BY <2>4 DEF Anchors
    <3>2. stars <= 15 /\ PersonalScore(stars) = (2 * (70 * 5 + (stars - 10) * 5) + 5) \div 10
      BY <2>2, <2>3, <2>4, <3>1
    <3>3. QED BY <1>2, <3>2 DEF Scores
  <2>5. CASE i = 3
    <3>1. i - 1 = 2 /\ Anchors[2] = <<15, 75>> /\ Anchors[3] = <<20, 75>>
      BY <2>5 DEF Anchors
    <3>2. stars <= 20 /\ PersonalScore(stars) = (2 * (75 * 5 + (stars - 15) * 0) + 5) \div 10
      BY <2>2, <2>3, <2>5, <3>1
    <3>3. QED BY <1>2, <3>2 DEF Scores
  <2>6. CASE i = 4
    <3>1. i - 1 = 3 /\ Anchors[3] = <<20, 75>> /\ Anchors[4] = <<25, 80>>
      BY <2>6 DEF Anchors
    <3>2. stars <= 25 /\ PersonalScore(stars) = (2 * (75 * 5 + (stars - 20) * 5) + 5) \div 10
      BY <2>2, <2>3, <2>6, <3>1
    <3>3. QED BY <1>2, <3>2 DEF Scores
  <2>7. CASE i = 5
    <3>1. i - 1 = 4 /\ Anchors[4] = <<25, 80>> /\ Anchors[5] = <<30, 85>>
      BY <2>7 DEF Anchors
    <3>2. stars <= 30 /\ PersonalScore(stars) = (2 * (80 * 5 + (stars - 25) * 5) + 5) \div 10
      BY <2>2, <2>3, <2>7, <3>1
    <3>3. QED BY <1>2, <3>2 DEF Scores
  <2>8. CASE i = 6
    <3>1. i - 1 = 5 /\ Anchors[5] = <<30, 85>> /\ Anchors[6] = <<35, 88>>
      BY <2>8 DEF Anchors
    <3>2. stars <= 35 /\ PersonalScore(stars) = (2 * (85 * 5 + (stars - 30) * 3) + 5) \div 10
      BY <2>2, <2>3, <2>8, <3>1
    <3>3. QED BY <1>2, <3>2 DEF Scores
  <2>9. CASE i = 7
    <3>1. i - 1 = 6 /\ Anchors[6] = <<35, 88>> /\ Anchors[7] = <<38, 92>>
      BY <2>9 DEF Anchors
    <3>2. stars <= 38 /\ PersonalScore(stars) = (2 * (88 * 3 + (stars - 35) * 4) + 3) \div 6
      BY <2>2, <2>3, <2>9, <3>1
    <3>3. QED BY <1>2, <3>2 DEF Scores
  <2>10. CASE i = 8
    <3>1. i - 1 = 7 /\ Anchors[7] = <<38, 92>> /\ Anchors[8] = <<40, 93>>
      BY <2>10 DEF Anchors
    <3>2. stars <= 40 /\ PersonalScore(stars) = (2 * (92 * 2 + (stars - 38) * 1) + 2) \div 4
      BY <2>2, <2>3, <2>10, <3>1
    <3>3. QED BY <1>2, <3>2 DEF Scores
  <2>11. CASE i = 9
    <3>1. i - 1 = 8 /\ Anchors[8] = <<40, 93>> /\ Anchors[9] = <<45, 97>>
      BY <2>11 DEF Anchors
    <3>2. stars <= 45 /\ PersonalScore(stars) = (2 * (93 * 5 + (stars - 40) * 4) + 5) \div 10
      BY <2>2, <2>3, <2>11, <3>1
    <3>3. QED BY <1>2, <3>2 DEF Scores
  <2>12. CASE i = 10
    <3>1. i - 1 = 9 /\ Anchors[9] = <<45, 97>> /\ Anchors[10] = <<50, 100>>
      BY <2>12 DEF Anchors
    <3>2. stars <= 50 /\ PersonalScore(stars) = (2 * (97 * 5 + (stars - 45) * 3) + 5) \div 10
      BY <2>2, <2>3, <2>12, <3>1
    <3>3. QED BY <1>2, <3>2 DEF Scores
  <2>13. QED BY <2>3, <2>4, <2>5, <2>6, <2>7, <2>8, <2>9, <2>10, <2>11, <2>12
<1>3. QED BY <1>1, <1>2

LEMMA StarsOfExport ==
  ASSUME NEW e \in Exports, e.stars # {}
  PROVE  Max(e.stars) \in 0..50 /\ PersonalScore(Max(e.stars)) \in Scores
<1>1. e.stars \subseteq 0..50
  BY RecordsAssumption
<1>2. IsFiniteSet(0..50)
  <2>1. 0 \in Int /\ 50 \in Int
    OBVIOUS
  <2>2. QED BY ONLY <2>1, FS_Interval, Zenon
<1>3. IsFiniteSet(e.stars) /\ e.stars \in SUBSET Nat
  BY <1>1, <1>2, FS_Subset
<1>4. Max(e.stars) \in e.stars
  BY <1>3, Largest
<1>5. QED BY <1>1, <1>4, StarsScore

LEMMA LastTastedMonth ==
  ASSUME NEW e \in Exports
  PROVE  LastTasted(e) \in Months \cup {Null}
<1>1. e.dates \in Seq(Months \cup {Null})
  BY RecordsAssumption
<1>2. CASE Dates(e) = {}
  BY <1>2 DEF LastTasted
<1>3. CASE Dates(e) # {}
  <2>1. Range(e.dates) \subseteq Months \cup {Null}
    BY <1>1 DEF Range
  <2>2. Dates(e) \in SUBSET Months /\ Months \subseteq Nat
    BY <2>1, RecordsAssumption DEF Dates
  <2>3. IsFiniteSet(Range(e.dates))
    <3>1. DOMAIN e.dates = 1..Len(e.dates) /\ Len(e.dates) \in Nat
      BY <1>1
    <3>2. IsFiniteSet(1..Len(e.dates))
      <4>1. 1 \in Int /\ Len(e.dates) \in Int
        BY <3>1
      <4>2. QED BY <4>1, FS_Interval, Zenon
    <3>3. e.dates \in Surjection(1..Len(e.dates), Range(e.dates))
      BY <1>1, <3>1 DEF Range, Surjection
    <3>4. QED BY <3>2, <3>3, FS_Surjection
  <2>4. IsFiniteSet(Dates(e))
    BY <2>3, FS_Subset DEF Dates
  <2>5. Max(Dates(e)) \in Dates(e)
    BY <1>3, <2>2, <2>4, Largest
  <2>6. QED BY <1>3, <2>2, <2>5 DEF LastTasted
<1>4. QED BY <1>2, <1>3

LEMMA NoTastingRow == NoTasting \in Tasting /\ Null \notin Tasting
BY RecordsAssumption DEF NoTasting, Tasting

(* Scoring a row writes what the ratings give, and leaves a row that already    *)
(* reflects them as it is.                                                     *)
LEMMA ScoredRow ==
  ASSUME NEW e \in Exports, NEW row \in Tasting
  PROVE  /\ Scored(e, row) \in Tasting /\ Reflects(Scored(e, row), e)
         /\ e.stars = {} => Scored(e, row) = row
         /\ Reflects(row, e) => Scored(e, row) = row
<1>1. CASE e.stars = {}
  BY <1>1 DEF Scored, Reflects
<1>2. CASE e.stars # {}
  <2>1. Max(e.stars) \in 0..50 /\ PersonalScore(Max(e.stars)) \in Scores
    BY <1>2, StarsOfExport
  <2>2. Scored(e, row) = [row EXCEPT !.rating = PersonalScore(Max(e.stars)), !.like = Max(e.stars) >= 35]
    BY <1>2 DEF Scored
  <2> DEFINE score == PersonalScore(Max(e.stars))
             liked == Max(e.stars) >= 35
  <2>3. liked \in BOOLEAN /\ score \in Scores
    BY <2>1
  <2>4. Scored(e, row) = [row EXCEPT !.rating = score, !.like = liked]
    BY <2>2
  <2>5. Reflects(row, e) <=> row.rating = score /\ row.like = liked
    BY <1>2 DEF Reflects
  <2>6. Reflects(Scored(e, row), e) <=> Scored(e, row).rating = score /\ Scored(e, row).like = liked
    BY <1>2 DEF Reflects
  <2> HIDE DEF score, liked
  <2>7. Scored(e, row) \in Tasting /\ Scored(e, row).rating = score /\ Scored(e, row).like = liked
    BY <2>3, <2>4 DEF Tasting
  <2>8. row.rating = score /\ row.like = liked => Scored(e, row) = row
    BY <2>4 DEF Tasting
  <2>9. QED BY <1>2, <2>5, <2>6, <2>7, <2>8
<1>3. QED BY <1>1, <1>2

(* An import writes the personal fields when, and only when, the export rates   *)
(* the wine.                                                                   *)
LEMMA ImportedRow ==
  ASSUME NEW e \in Exports, NEW old \in Tasting \cup {Null}
  PROVE  /\ ImportedTasting(e, old) \in Tasting \cup {Null}
         /\ e.stars # {} => ImportedTasting(e, old) # Null /\ Reflects(ImportedTasting(e, old), e)
         /\ e.stars = {} /\ old # Null => /\ ImportedTasting(e, old) # Null
                                          /\ ImportedTasting(e, old).rating = old.rating
                                          /\ ImportedTasting(e, old).like = old.like
<1> DEFINE row == IF old = Null THEN NoTasting ELSE old
           community == Kept(e.community, 0, Scored(e, row).community)
           tasted == Later(LastTasted(e), Scored(e, row).tasted)
<1>1. CASE e.stars = {} /\ e.community = Null
  BY <1>1 DEF ImportedTasting
<1>2. CASE ~(e.stars = {} /\ e.community = Null)
  <2>1. ImportedTasting(e, old) = [Scored(e, row) EXCEPT !.community = community, !.tasted = tasted]
    BY <1>2 DEF ImportedTasting
  <2>2. row \in Tasting
    BY NoTastingRow
  <2>3. /\ Scored(e, row) \in Tasting /\ Reflects(Scored(e, row), e)
        /\ e.stars = {} => Scored(e, row) = row
    BY <2>2, ScoredRow
  <2>4. community \in Scores \cup {Null}
    BY <2>3, RecordsAssumption DEF Kept, Tasting
  <2>5. tasted \in Months \cup {Null}
    BY <2>3, LastTastedMonth DEF Later, Tasting
  <2> HIDE DEF row, community, tasted
  <2>6. /\ ImportedTasting(e, old) \in Tasting
        /\ ImportedTasting(e, old).rating = Scored(e, row).rating
        /\ ImportedTasting(e, old).like = Scored(e, row).like
    BY <2>1, <2>3, <2>4, <2>5 DEF Tasting
  <2>7. Reflects(ImportedTasting(e, old), e)
    BY <2>3, <2>6 DEF Reflects
  <2>8. old # Null => row = old
    BY DEF row
  <2>9. QED BY <2>3, <2>6, <2>7, <2>8, NoTastingRow
<1>3. QED BY <1>1, <1>2

-----------------------------------------------------------------------------
LEMMA RecordsInitially == RecordsInit => RecordsIInv
<1> SUFFICES ASSUME RecordsInit PROVE RecordsIInv
  OBVIOUS
<1>1. DOMAIN bottles = {} /\ bottles \in [DOMAIN bottles -> Bottle]
  BY DEF RecordsInit
<1>2. budget \in [bottles : 0..MaxBottles, notes : 0..MaxNotes] /\ wines \subseteq WineIds
  BY RecordsAssumption DEF RecordsInit
<1>3. BottlesOK
  BY <1>1 DEF BottlesOK
<1>4. TastingsOK
  BY DEF TastingsOK, RecordsInit
<1>5. QED BY <1>2, <1>3, <1>4 DEF RecordsIInv

(* A new row takes an id no row ever had.                                      *)
LEMMA BottleAdded ==
  ASSUME RecordsIInv, NEW row \in Bottle, DatedWhenConsumed(row), row.wine \in wines', wines \subseteq wines',
         row.source = "vivino" => ScanBottlesOf(row.wine) = {},
         budget.bottles > 0, budget' = [budget EXCEPT !.bottles = @ - 1], bottles' = WithBottle(NextBottle, row)
  PROVE  BottlesOK'
<1>1. /\ budget.bottles \in 1..MaxBottles /\ budget'.bottles = budget.bottles - 1 /\ MaxBottles \in Nat
      /\ NextBottle = MaxBottles - budget'.bottles /\ NextBottle \in Nat \ {0}
  BY RecordsAssumption DEF RecordsIInv, NextBottle
<1>2. NextBottle \notin DOMAIN bottles /\ DOMAIN bottles \subseteq 1..(NextBottle - 1)
  BY <1>1 DEF RecordsIInv, BottlesOK, NextBottle
<1> DEFINE n == NextBottle
<1>3. /\ DOMAIN bottles' = (DOMAIN bottles) \cup {n} /\ bottles'[n] = row
      /\ \A b \in DOMAIN bottles : bottles'[b] = bottles[b]
      /\ bottles' = [i \in DOMAIN bottles' |-> bottles'[i]]
  BY <1>2 DEF WithBottle
<1> HIDE DEF n
<1>4. bottles' \in [DOMAIN bottles' -> Bottle]
  BY <1>3 DEF RecordsIInv, BottlesOK
<1>5. DOMAIN bottles' \subseteq 1..(MaxBottles - budget'.bottles)
  BY <1>1, <1>2, <1>3 DEF n
<1>6. \A b \in DOMAIN bottles' : bottles'[b].wine \in wines' /\ DatedWhenConsumed(bottles'[b])
  BY <1>3 DEF RecordsIInv, BottlesOK
<1>7. \A b \in DOMAIN bottles : ~(row.source = "vivino" /\ bottles[b].source = "vivino" /\ bottles[b].wine = row.wine)
  BY DEF ScanBottlesOf
<1>8. \A a, b \in DOMAIN bottles' : bottles'[a].source = "vivino" /\ bottles'[b].source = "vivino"
                                    /\ bottles'[a].wine = bottles'[b].wine => a = b
  BY <1>3, <1>7 DEF RecordsIInv, BottlesOK
<1>9. QED BY <1>4, <1>5, <1>6, <1>8 DEF BottlesOK, DatedWhenConsumed

(* An update leaves the id, the wine and the source of its row.                *)
LEMMA BottleReplaced ==
  ASSUME RecordsIInv, NEW b \in DOMAIN bottles, NEW row \in Bottle, DatedWhenConsumed(row),
         row.wine = bottles[b].wine, row.source = bottles[b].source, wines \subseteq wines', UNCHANGED budget,
         bottles' = [i \in DOMAIN bottles |-> IF i = b THEN row ELSE bottles[i]]
  PROVE  BottlesOK'
<1>1. /\ DOMAIN bottles' = DOMAIN bottles /\ bottles'[b] = row
      /\ \A i \in DOMAIN bottles : i # b => bottles'[i] = bottles[i]
  OBVIOUS
<1>2. bottles' \in [DOMAIN bottles' -> Bottle]
  BY DEF RecordsIInv, BottlesOK
<1>3. \A i \in DOMAIN bottles' : bottles'[i].wine = bottles[i].wine /\ bottles'[i].source = bottles[i].source
  BY <1>1
<1>4. \A i \in DOMAIN bottles' : bottles'[i].wine \in wines' /\ DatedWhenConsumed(bottles'[i])
  BY <1>1, <1>3 DEF RecordsIInv, BottlesOK
<1>5. QED BY <1>1, <1>2, <1>3, <1>4 DEF RecordsIInv, BottlesOK, DatedWhenConsumed

(* The rows of bottles do not move when only tastings do, or a wine is added.   *)
LEMMA BottlesStand ==
  ASSUME RecordsIInv, UNCHANGED bottles, budget'.bottles = budget.bottles, wines \subseteq wines'
  PROVE  BottlesOK'
BY DEF RecordsIInv, BottlesOK, DatedWhenConsumed

LEMMA TastingsStand ==
  ASSUME RecordsIInv, UNCHANGED <<tastings, origin>>, wines \subseteq wines'
  PROVE  TastingsOK'
BY DEF RecordsIInv, TastingsOK, Reflects

(* One row is written: the export it comes from is known, or its personal       *)
(* fields stay.                                                                *)
LEMMA TastingWritten ==
  ASSUME RecordsIInv, NEW w \in WineIds, w \in wines', wines \subseteq wines', NEW row \in Tasting \cup {Null},
         NEW export \in Exports \cup {Null},
         tastings' = [tastings EXCEPT ![w] = row], origin' = [origin EXCEPT ![w] = export],
         export # Null => row # Null /\ Reflects(row, export)
  PROVE  TastingsOK'
<1>1. /\ tastings' \in [WineIds -> Tasting \cup {Null}] /\ origin' \in [WineIds -> Exports \cup {Null}]
      /\ tastings'[w] = row /\ origin'[w] = export
      /\ \A v \in WineIds \ {w} : tastings'[v] = tastings[v] /\ origin'[v] = origin[v]
  BY DEF RecordsIInv, TastingsOK
<1>2. \A v \in WineIds : tastings'[v] # Null => v \in wines'
  BY <1>1 DEF RecordsIInv, TastingsOK
<1>3. \A v \in WineIds : origin'[v] # Null => tastings'[v] # Null /\ Reflects(tastings'[v], origin'[v])
  BY <1>1 DEF RecordsIInv, TastingsOK
<1>4. QED BY <1>1, <1>2, <1>3 DEF TastingsOK, Reflects

-----------------------------------------------------------------------------
LEMMA DeleteWineStep ==
  ASSUME RecordsIInv, NEW w \in WineIds, DeleteWine(w)
  PROVE  RecordsIInv'
<1> DEFINE S == {b \in DOMAIN bottles : bottles[b].wine # w}
<1>1. bottles' = [b \in S |-> bottles[b]]
  BY DEF DeleteWine, RestrictValues, Restrict
<1>2. DOMAIN bottles' = S /\ \A b \in S : bottles'[b] = bottles[b]
  BY <1>1
<1>3. wines' = wines \ {w} /\ UNCHANGED budget
  BY DEF DeleteWine
<1>4. bottles' \in [DOMAIN bottles' -> Bottle]
  BY <1>1 DEF RecordsIInv, BottlesOK
<1>5. \A b \in S : bottles[b].wine \in wines' /\ DatedWhenConsumed(bottles[b])
  BY <1>3 DEF RecordsIInv, BottlesOK
<1>6. BottlesOK'
  BY <1>2, <1>3, <1>4, <1>5 DEF RecordsIInv, BottlesOK, DatedWhenConsumed
<1>7. TastingsOK'
  BY DEF DeleteWine, RecordsIInv, TastingsOK, Reflects
<1>8. QED BY <1>3, <1>6, <1>7 DEF RecordsIInv

LEMMA BottleSteps ==
  ASSUME RecordsIInv,
         \/ \E p \in Parcels : CreateBottle(p)
         \/ \E b \in DOMAIN bottles, m \in Months : MarkConsumed(b, m)
  PROVE  RecordsIInv'
<1>1. ASSUME NEW p \in Parcels, CreateBottle(p)
      PROVE  RecordsIInv'
  <2>1. p \in Bottle /\ p.source # "vivino" /\ DatedWhenConsumed(p)
    BY RecordsAssumption
  <2>2. BottlesOK'
    BY <1>1, <2>1, BottleAdded DEF CreateBottle
  <2>3. TastingsOK'
    BY <1>1, TastingsStand DEF CreateBottle
  <2>4. QED BY <1>1, <2>2, <2>3, RecordsAssumption DEF CreateBottle, RecordsIInv
<1>2. ASSUME NEW b \in DOMAIN bottles, NEW m \in Months, MarkConsumed(b, m)
      PROVE  RecordsIInv'
  <2> DEFINE row == [bottles[b] EXCEPT !.status = "consumed", !.consumed = m]
  <2>1. bottles[b] \in Bottle /\ m \in Nat
    BY RecordsAssumption DEF RecordsIInv, BottlesOK
  <2>2. row \in Bottle /\ row.wine = bottles[b].wine /\ row.source = bottles[b].source
    BY <2>1 DEF Bottle
  <2>3. row.status = "consumed" /\ row.consumed = m
    BY <2>1 DEF Bottle
  <2>4. DatedWhenConsumed(row)
    BY <2>1, <2>3, RecordsAssumption DEF DatedWhenConsumed
  <2>5. bottles' = [i \in DOMAIN bottles |-> IF i = b THEN row ELSE bottles[i]]
    BY <1>2, <2>1 DEF MarkConsumed, Bottle
  <2> HIDE DEF row
  <2>6. BottlesOK'
    BY <1>2, <2>2, <2>4, <2>5, BottleReplaced DEF MarkConsumed
  <2>7. TastingsOK'
    BY <1>2, TastingsStand DEF MarkConsumed
  <2>8. QED BY <1>2, <2>6, <2>7 DEF MarkConsumed, RecordsIInv
<1>3. QED BY <1>1, <1>2

(* Every command on the row of one wine: a personal edit forgets the export,    *)
(* and the others keep the personal fields.                                    *)
LEMMA TastingStep ==
  ASSUME RecordsIInv, NEW w \in WineIds, NEW row \in Tasting \cup {Null}, WriteTasting(w, row),
         \/ Own(w, Null)
         \/ /\ UNCHANGED origin
            /\ tastings[w] # Null => row # Null /\ row.rating = tastings[w].rating /\ row.like = tastings[w].like
  PROVE  RecordsIInv'
<1>1. /\ w \in wines' /\ wines' = wines /\ tastings' = [tastings EXCEPT ![w] = row]
      /\ UNCHANGED bottles /\ budget'.bottles = budget.bottles
      /\ budget' \in [bottles : 0..MaxBottles, notes : 0..MaxNotes]
  BY RecordsAssumption DEF WriteTasting, RecordsIInv
<1>2. BottlesOK'
  BY <1>1, BottlesStand
<1>3. TastingsOK'
  <2>1. CASE Own(w, Null)
    BY <1>1, <2>1, TastingWritten DEF Own
  <2>2. CASE ~Own(w, Null)
    <3>1. /\ UNCHANGED origin
          /\ tastings[w] # Null => row # Null /\ row.rating = tastings[w].rating /\ row.like = tastings[w].like
      BY <2>2
    <3>2. origin' = [origin EXCEPT ![w] = origin[w]] /\ origin[w] \in Exports \cup {Null}
      BY <3>1 DEF RecordsIInv, TastingsOK
    <3>3. origin[w] # Null => row # Null /\ Reflects(row, origin[w])
      BY <3>1 DEF RecordsIInv, TastingsOK, Reflects
    <3>4. QED BY <1>1, <3>2, <3>3, TastingWritten
  <2>3. QED BY <2>1, <2>2
<1>4. QED BY <1>1, <1>2, <1>3 DEF RecordsIInv

LEMMA TastingSteps ==
  ASSUME RecordsIInv, NEW w \in WineIds,
         \/ DeleteTasting(w)
         \/ \E n \in Notes : CreateTasting(w, n) \/ UpdateTasting(w, n)
         \/ \E s \in Communities : UpsertCommunityData(w, s)
         \/ \E f \in BOOLEAN : UpdateDefectiveFlag(w, f)
  PROVE  RecordsIInv'
<1>1. tastings[w] \in Tasting \cup {Null}
  BY DEF RecordsIInv, TastingsOK
<1>2. CASE DeleteTasting(w)
  BY <1>2, TastingStep DEF DeleteTasting
<1>3. ASSUME NEW n \in Notes, CreateTasting(w, n) PROVE RecordsIInv'
  <2>1. n.rating \in Scores \cup {Null} /\ n.like \in BOOLEAN \cup {Null}
    BY RecordsAssumption
  <2>2. [NoTasting EXCEPT !.rating = n.rating, !.like = n.like] \in Tasting
    BY <2>1, NoTastingRow DEF Tasting
  <2>3. QED BY <1>3, <2>2, TastingStep DEF CreateTasting
<1>4. ASSUME NEW n \in Notes, UpdateTasting(w, n) PROVE RecordsIInv'
  <2> DEFINE row == [tastings[w] EXCEPT !.rating = Kept(n.rating, 0, @), !.like = Kept(n.like, FALSE, @)]
  <2>1. n.rating \in Scores \cup {Null} /\ n.like \in BOOLEAN \cup {Null}
    BY RecordsAssumption
  <2>2. tastings[w] \in Tasting
    BY <1>1, <1>4 DEF UpdateTasting
  <2>3. /\ Kept(n.rating, 0, tastings[w].rating) \in Scores \cup {Null}
        /\ Kept(n.like, FALSE, tastings[w].like) \in BOOLEAN \cup {Null}
    BY <2>1, <2>2 DEF Kept, Tasting
  <2>4. row \in Tasting
    BY <2>2, <2>3 DEF Tasting
  <2>5. WriteTasting(w, row) /\ Own(w, Null)
    BY <1>4 DEF UpdateTasting
  <2> HIDE DEF row
  <2>6. QED BY <2>4, <2>5, TastingStep
<1>5. ASSUME NEW s \in Communities, UpsertCommunityData(w, s) PROVE RecordsIInv'
  <2> DEFINE row == CommunityRow(tastings[w], s)
  <2>1. s \in Scores \cup {Null}
    BY RecordsAssumption
  <2>2. CASE tastings[w] = Null
    <3>1. row \in Tasting
      BY <2>1, <2>2, NoTastingRow DEF CommunityRow, Tasting
    <3>2. QED BY <1>5, <2>2, <3>1, TastingStep DEF UpsertCommunityData
  <2>3. CASE tastings[w] # Null
    <3>1. tastings[w] \in Tasting
      BY <1>1, <2>3
    <3>2. row = [tastings[w] EXCEPT !.community = IF s = Null THEN @ ELSE s]
      BY <2>3 DEF CommunityRow
    <3>3. row \in Tasting /\ row.rating = tastings[w].rating /\ row.like = tastings[w].like
      BY <2>1, <3>1, <3>2 DEF Tasting
    <3>4. QED BY <1>5, <3>3, NoTastingRow, TastingStep DEF UpsertCommunityData
  <2>4. QED BY <2>2, <2>3
<1>6. ASSUME NEW f \in BOOLEAN, UpdateDefectiveFlag(w, f) PROVE RecordsIInv'
  <2> DEFINE row == [tastings[w] EXCEPT !.defective = f]
  <2>1. tastings[w] \in Tasting
    BY <1>1, <1>6 DEF UpdateDefectiveFlag
  <2>2. row \in Tasting /\ row.rating = tastings[w].rating /\ row.like = tastings[w].like
    BY <2>1 DEF Tasting
  <2>3. QED BY <1>6, <2>2, NoTastingRow, TastingStep DEF UpdateDefectiveFlag
<1>7. QED BY <1>2, <1>3, <1>4, <1>5, <1>6

LEMMA ScanRow ==
  ASSUME NEW w \in WineIds, NEW e \in Exports
  PROVE  /\ ScanBottle(w, e) \in Bottle /\ DatedWhenConsumed(ScanBottle(w, e))
         /\ ScanBottle(w, e).wine = w /\ ScanBottle(w, e).source = "vivino"
<1>1. LastTasted(e) \in Nat \cup {Null} /\ Null \notin Nat
  BY LastTastedMonth, RecordsAssumption
<1> DEFINE date == IF LastTasted(e) = Null THEN 0 ELSE LastTasted(e)
<1>2. date \in Nat /\ date # Null
  BY <1>1
<1>3. ScanBottle(w, e) =
        [wine |-> w, source |-> "vivino", quantity |-> 1, status |-> "consumed", price |-> Null, location |-> Null,
         currency |-> "RON", bought |-> Null, consumed |-> date]
  BY DEF ScanBottle, Undated
<1> HIDE DEF date
<1>4. ScanBottle(w, e) \in Bottle
  BY <1>2, <1>3 DEF Bottle
<1>5. QED BY <1>2, <1>3, <1>4 DEF DatedWhenConsumed

(* The scans of a wine are one row, which the import finds again.              *)
LEMMA ImportStep ==
  ASSUME RecordsIInv, NEW w \in VivinoIds, NEW e \in Exports, ImportWine(w, e)
  PROVE  RecordsIInv'
<1>1. w \in WineIds /\ w \in wines' /\ wines \subseteq wines' /\ wines' \subseteq WineIds
  BY DEF VivinoIds, ImportWine, RecordsIInv
<1>2. CASE BadDates(e)
  <2>1. UNCHANGED <<bottles, tastings, origin, budget>>
    BY <1>2 DEF ImportWine
  <2>2. QED BY <1>1, <2>1, BottlesStand, TastingsStand DEF RecordsIInv
<1>3. CASE ~BadDates(e)
  <2> DEFINE found == ScanBottlesOf(w)
             row == ScanBottle(w, e)
  <2>1. /\ tastings' = [tastings EXCEPT ![w] = ImportedTasting(e, tastings[w])]
        /\ origin' = [origin EXCEPT ![w] = IF e.stars = {} THEN origin[w] ELSE e]
    BY <1>3 DEF ImportWine
  <2>2. /\ found = {} => budget.bottles > 0
        /\ bottles' = WithBottle(IF found = {} THEN NextBottle ELSE Min(found), row)
        /\ budget' = [budget EXCEPT !.bottles = IF found = {} THEN @ - 1 ELSE @]
    BY <1>3 DEF ImportWine
  <2>3. TastingsOK'
    <3>1. tastings[w] \in Tasting \cup {Null} /\ origin[w] \in Exports \cup {Null}
      BY <1>1 DEF RecordsIInv, TastingsOK
    <3>2. /\ ImportedTasting(e, tastings[w]) \in Tasting \cup {Null}
          /\ e.stars # {} => /\ ImportedTasting(e, tastings[w]) # Null
                             /\ Reflects(ImportedTasting(e, tastings[w]), e)
          /\ e.stars = {} /\ tastings[w] # Null =>
               /\ ImportedTasting(e, tastings[w]) # Null
               /\ ImportedTasting(e, tastings[w]).rating = tastings[w].rating
               /\ ImportedTasting(e, tastings[w]).like = tastings[w].like
      BY <3>1, ImportedRow
    <3>3. origin[w] # Null => tastings[w] # Null /\ Reflects(tastings[w], origin[w])
      BY <1>1 DEF RecordsIInv, TastingsOK
    <3> DEFINE new == ImportedTasting(e, tastings[w])
               from == IF e.stars = {} THEN origin[w] ELSE e
    <3>4. from \in Exports \cup {Null} /\ new \in Tasting \cup {Null}
      BY <3>1, <3>2
    <3>5. from # Null => new # Null /\ Reflects(new, from)
      BY <3>2, <3>3 DEF Reflects
    <3>6. tastings' = [tastings EXCEPT ![w] = new] /\ origin' = [origin EXCEPT ![w] = from]
      BY <2>1
    <3> HIDE DEF new, from
    <3>7. QED BY <1>1, <3>4, <3>5, <3>6, TastingWritten
  <2>4. row \in Bottle /\ DatedWhenConsumed(row) /\ row.wine = w /\ row.source = "vivino"
    BY <1>1, ScanRow
  <2> HIDE DEF row
  <2>5. CASE found = {}
    <3>1. budget.bottles > 0 /\ bottles' = WithBottle(NextBottle, row) /\ budget' = [budget EXCEPT !.bottles = @ - 1]
      BY <2>2, <2>5
    <3>2. BottlesOK'
      BY <1>1, <2>4, <2>5, <3>1, BottleAdded
    <3>3. budget' \in [bottles : 0..MaxBottles, notes : 0..MaxNotes]
      BY <3>1, RecordsAssumption DEF RecordsIInv
    <3>4. QED BY <1>1, <2>3, <3>2, <3>3 DEF RecordsIInv
  <2>6. CASE found # {}
    <3>1. PICK b \in DOMAIN bottles : bottles[b].wine = w /\ bottles[b].source = "vivino"
      BY <2>6 DEF ScanBottlesOf
    <3>2. found = {b}
      BY <3>1 DEF ScanBottlesOf, RecordsIInv, BottlesOK
    <3>3. b \in Nat
      BY RecordsAssumption DEF RecordsIInv, BottlesOK
    <3>4. Min(found) = b
      BY <3>2, <3>3, LeastOne
    <3>5. bottles' = [i \in DOMAIN bottles |-> IF i = b THEN row ELSE bottles[i]]
      <4>1. bottles' = WithBottle(b, row)
        BY <2>2, <2>6, <3>4
      <4>2. (DOMAIN bottles) \cup {b} = DOMAIN bottles
        OBVIOUS
      <4>3. QED BY <4>1, <4>2 DEF WithBottle
    <3>6. UNCHANGED budget
      BY <2>2, <2>6 DEF RecordsIInv
    <3>7. BottlesOK'
      BY <1>1, <2>4, <3>1, <3>5, <3>6, BottleReplaced
    <3>8. QED BY <1>1, <2>3, <3>6, <3>7 DEF RecordsIInv
  <2>7. QED BY <2>5, <2>6
<1>4. QED BY <1>2, <1>3

LEMMA RecalibrateStep ==
  ASSUME RecordsIInv, NEW csv \in [VivinoIds -> Exports], Recalibrate(csv)
  PROVE  RecordsIInv'
<1> DEFINE Rescored(w) == w \in wines /\ w \in DOMAIN csv /\ tastings[w] # Null
<1>1. /\ UNCHANGED <<wines, bottles>> /\ budget'.bottles = budget.bottles
      /\ budget' \in [bottles : 0..MaxBottles, notes : 0..MaxNotes]
  BY RecordsAssumption DEF Recalibrate, RecordsIInv
<1>2. tastings' = [w \in WineIds |-> IF Rescored(w) THEN Scored(csv[w], tastings[w]) ELSE tastings[w]]
  BY DEF Recalibrate, Recalibrated
<1>3. origin' = [w \in WineIds |-> IF Rescored(w) /\ csv[w].stars # {} THEN csv[w] ELSE origin[w]]
  BY DEF Recalibrate
<1>4. \A w \in WineIds : Rescored(w) => csv[w] \in Exports /\ tastings[w] \in Tasting
  BY DEF RecordsIInv, TastingsOK
<1>5. \A w \in WineIds : Rescored(w) =>
        /\ Scored(csv[w], tastings[w]) \in Tasting /\ Reflects(Scored(csv[w], tastings[w]), csv[w])
        /\ csv[w].stars = {} => Scored(csv[w], tastings[w]) = tastings[w]
  BY <1>4, ScoredRow
<1> HIDE DEF Rescored
<1>6. \A w \in WineIds : Rescored(w) =>
        /\ tastings'[w] = Scored(csv[w], tastings[w]) /\ tastings'[w] \in Tasting
        /\ origin'[w] = IF csv[w].stars # {} THEN csv[w] ELSE origin[w]
  BY <1>2, <1>3, <1>5
<1>7. \A w \in WineIds : ~Rescored(w) => tastings'[w] = tastings[w] /\ origin'[w] = origin[w]
  BY <1>2, <1>3
<1>8. \A w \in WineIds : /\ tastings[w] \in Tasting \cup {Null} /\ origin[w] \in Exports \cup {Null}
                         /\ tastings[w] # Null => w \in wines
                         /\ origin[w] # Null => tastings[w] # Null /\ Reflects(tastings[w], origin[w])
  BY DEF RecordsIInv, TastingsOK
<1>9. \A w \in WineIds : Rescored(w) => w \in wines
  BY DEF Rescored
<1>10. ASSUME NEW w \in WineIds
       PROVE  /\ tastings'[w] \in Tasting \cup {Null} /\ origin'[w] \in Exports \cup {Null}
              /\ tastings'[w] # Null => w \in wines
              /\ origin'[w] # Null => tastings'[w] # Null /\ Reflects(tastings'[w], origin'[w])
  <2>1. CASE Rescored(w) /\ csv[w].stars # {}
    BY <1>4, <1>5, <1>6, <1>9, <2>1, NoTastingRow
  <2>2. CASE Rescored(w) /\ csv[w].stars = {}
    BY <1>5, <1>6, <1>8, <2>2
  <2>3. CASE ~Rescored(w)
    BY <1>7, <1>8, <2>3
  <2>4. QED BY <2>1, <2>2, <2>3
<1>11. TastingsOK'
  <2>1. tastings' \in [WineIds -> Tasting \cup {Null}] /\ origin' \in [WineIds -> Exports \cup {Null}]
    BY <1>2, <1>3, <1>10
  <2>2. QED BY <1>1, <1>10, <2>1 DEF TastingsOK, Reflects
<1>12. QED BY <1>1, <1>11, BottlesStand DEF RecordsIInv

LEMMA RecordsStep == RecordsIInv /\ [RecordsNext]_recordVars => RecordsIInv'
<1> SUFFICES ASSUME RecordsIInv, [RecordsNext]_recordVars PROVE RecordsIInv'
  OBVIOUS
<1>1. ASSUME UNCHANGED recordVars PROVE RecordsIInv'
  BY <1>1, BottlesStand, TastingsStand DEF recordVars, RecordsIInv
<1>2. ASSUME NEW w \in WineIds, CreateWine(w) PROVE RecordsIInv'
  BY <1>2, BottlesStand, TastingsStand DEF CreateWine, RecordsIInv
<1>3. ASSUME NEW w \in WineIds, DeleteWine(w) \/ DeleteTasting(w) \/ SkipDuplicate(w) PROVE RecordsIInv'
  BY <1>1, <1>3, DeleteWineStep, TastingSteps DEF SkipDuplicate
<1>4. wines \subseteq WineIds
  BY DEF RecordsIInv
<1>5. ASSUME NEW w \in wines, \/ \E n \in Notes : CreateTasting(w, n) \/ UpdateTasting(w, n)
                              \/ \E s \in Communities : UpsertCommunityData(w, s)
                              \/ \E f \in BOOLEAN : UpdateDefectiveFlag(w, f)
      PROVE  RecordsIInv'
  BY <1>4, <1>5, TastingSteps
<1>6. QED BY <1>1, <1>2, <1>3, <1>5, BottleSteps, ImportStep, RecalibrateStep DEF RecordsNext

LEMMA RecordsImplied == RecordsIInv => RecordsInvariant
<1> SUFFICES ASSUME RecordsIInv PROVE RecordsInvariant
  OBVIOUS
<1>1. RecordsTyped
  <2>1. budget.bottles \in 0..MaxBottles /\ MaxBottles \in Nat
    BY RecordsAssumption DEF RecordsIInv
  <2>2. DOMAIN bottles \subseteq 1..MaxBottles
    BY <2>1 DEF RecordsIInv, BottlesOK
  <2>3. QED BY <2>2 DEF RecordsIInv, BottlesOK, TastingsOK, RecordsTyped
<1>2. ASSUME NEW w \in VivinoIds, origin[w] # Null
      PROVE  w \notin Changes([v \in {w} |-> origin[w]])
  <2>1. w \in WineIds
    BY DEF VivinoIds
  <2>2. /\ origin[w] \in Exports /\ tastings[w] \in Tasting /\ Reflects(tastings[w], origin[w])
    BY <1>2, <2>1 DEF RecordsIInv, TastingsOK
  <2>3. Scored(origin[w], tastings[w]) = tastings[w]
    BY <2>2, ScoredRow
  <2>4. Recalibrated([v \in {w} |-> origin[w]])[w] = tastings[w]
    BY <2>1, <2>3 DEF Recalibrated
  <2>5. QED BY <2>4 DEF Changes
<1>3. \A w \in WineIds : Cardinality(ScanBottlesOf(w)) <= 1
  <2>1. TAKE w \in WineIds
  <2>2. CASE ScanBottlesOf(w) = {}
    BY <2>2, FS_EmptySet
  <2>3. CASE ScanBottlesOf(w) # {}
    <3>1. PICK b : b \in ScanBottlesOf(w)
      BY <2>3
    <3>2. ScanBottlesOf(w) = {b}
      BY <3>1 DEF ScanBottlesOf, RecordsIInv, BottlesOK
    <3>3. Cardinality({b}) = 1
      BY FS_Singleton, Zenon
    <3>4. QED BY <3>2, <3>3
  <2>4. QED BY <2>2, <2>3
<1>4. QED BY <1>1, <1>2, <1>3 DEF RecordsIInv, BottlesOK, TastingsOK, RecordsInvariant

(* Whatever commands write the rows of a cellar, in whatever order, and for any *)
(* ratings up to five stars: recalibrating a wine with the export its personal  *)
(* fields come from changes nothing, every bottle and every tasting belongs to  *)
(* a wine, consumed bottles are dated, and a wine's scans stay one bottle.      *)
THEOREM RecordsHold == RecordsSpec => []RecordsInvariant
<1>1. RecordsSpec => []RecordsIInv
  BY RecordsInitially, RecordsStep, PTL DEF RecordsSpec
<1>2. QED BY <1>1, RecordsImplied, PTL
=============================================================================
