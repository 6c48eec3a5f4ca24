---------------------- MODULE ConversationMemory_proofs ----------------------
(***************************************************************************)
(* Proofs about ConversationMemory, for any number of threads, requests    *)
(* and lock stripes: every turn that was reported successful is remembered,*)
(* although nobody looks at the result of the compare-and-set that commits *)
(* it and cancelled requests leave their statements open, and neither      *)
(* cleanup nor a legacy request acts on what has changed since it looked.  *)
(***************************************************************************)
EXTENDS ConversationMemory, TLAPS

-----------------------------------------------------------------------------
(* The inductive invariant. *)

Working == {"start", "run", "commit", "erase", "drop"}

HeldInv(held, n) == \A k \in held : k.id \in 0..n /\ (k.id = 0 => k.turns = {})

(* A row points at checkpoints that remember the turns promised, beside them *)
(* only doubtful ones (P and D), and the same without the newest turn; ids   *)
(* come from one counter (n).                                                *)
RowInv(row, held, P, D, n) ==
  LET now == InCheckpoint(held, row.active) IN
  /\ ~row.exists => row = NoThread
  /\ row.exists => row.active \in Nat
  /\ P \subseteq now /\ now \subseteq P \cup D
  /\ row.completed # 0 => InCheckpoint(held, row.previous) = now \ Newest(now)
  /\ HeldInv(held, n)
  /\ \A i \in {row.active, row.previous} : i # Null => i \in 0..n
  /\ \A m \in now : m \in 0..n

(* So it is as the connection sees it, and as it is committed.               *)
Now(c)  == RowInv(thread[c], saver[c], promised[c], doubtful[c], count)
Safe(c) == RowInv(disk.thread[c], disk.saver[c], promised[c], doubtful[c], count)
ThreadInv(c) == Now(c) /\ Safe(c)

Current(c)  == Remembered(c, thread[c].active)
Prior(c, j) == IF j.action = "append" THEN Current(c) ELSE Current(c) \ Newest(Current(c))

(* A request at work holds the lock of a thread that no saved conversation   *)
(* owns, if the checker is bound.  Its turn is newer than all others of the  *)
(* thread, whose row is as it was when the turn started; its checkpoint      *)
(* remembers what it started from and the turn.                              *)
TaskInv(t) ==
  LET j == job[t]
      c == job[t].thread
  IN
  /\ pc[t] # "idle" => server = "serving" /\ c \in Threads
  /\ pc[t] # "idle" => j.action \in {"append", "replace_last", "delete"}
  /\ pc[t] \in Working => lock[StripeOf[c]] = t /\ (bound => saved[c] = "none")
  /\ pc[t] \in {"start", "run", "commit"} => j.action # "delete"
  /\ pc[t] \in {"run", "commit"} =>
       /\ thread[c].exists /\ thread[c].active = j.active
       /\ j.action = "replace_last" => thread[c].completed # 0
       /\ j.turn # 0 /\ j.turn <= count
       /\ \A n \in {thread[c].active, thread[c].previous} : n # Null => n < j.turn
       /\ \A n \in Current(c) : n < j.turn
  /\ pc[t] = "run" => \A k \in saver[c] : k.id < j.turn
  /\ pc[t] = "commit" => Remembered(c, j.turn) = Prior(c, j) \cup {j.turn}
  /\ pc[t] = "drop" => saver[c] = {}

(* Cleanup works on one thread at a time, which is expired and which nobody  *)
(* else has locked.                                                          *)
CleanerInv ==
  LET c == cleaner.thread IN
  /\ c # Null <=> cleaner.at \in {"erase", "drop"}
  /\ c # Null => lock[StripeOf[c]] = Null /\ c \in stale
  /\ c # Null /\ bound => saved[c] = "none"
  /\ cleaner.at = "drop" => saver[c] = {}

IInv ==
  /\ TypeOK
  /\ \A c \in Threads : ThreadInv(c)
  /\ \A t \in Tasks : TaskInv(t)
  /\ CleanerInv

-----------------------------------------------------------------------------
(* What a checkpoint remembers, and what happens to a row and its thread's   *)
(* checkpoints, wherever they are.                                           *)

LEMMA NoneRemembered ==
  ASSUME NEW held \in Checkpoints
  PROVE  InCheckpoint(held, Null) = {} /\ \A i : InCheckpoint({}, i) = {}
<1>1. \A k \in held : k.id \in Nat
  BY DEF Checkpoints
<1>2. {h \in held : h.id = Null} = {}
  BY <1>1, NullAssumption
<1>3. QED BY <1>2 DEF InCheckpoint

LEMMA RememberedStored ==
  ASSUME NEW held, NEW added, NEW new, new = held \cup {added},
         \A k \in held : k.id = added.id => k.turns = added.turns
  PROVE  /\ \A n : n # added.id => InCheckpoint(new, n) = InCheckpoint(held, n)
         /\ InCheckpoint(new, added.id) = added.turns
<1>1. ASSUME NEW n, n # added.id
      PROVE  InCheckpoint(new, n) = InCheckpoint(held, n)
  <2>1. {h \in new : h.id = n} = {h \in held : h.id = n}
    BY <1>1
  <2>2. QED BY <2>1 DEF InCheckpoint
<1>2. InCheckpoint(new, added.id) = added.turns
  <2>1. InCheckpoint(new, added.id) = UNION {k.turns : k \in {h \in new : h.id = added.id}}
    BY DEF InCheckpoint
  <2>2. \A k \in {h \in new : h.id = added.id} : k.turns = added.turns
    OBVIOUS
  <2>3. added \in {h \in new : h.id = added.id}
    OBVIOUS
  <2>4. QED BY <2>1, <2>2, <2>3
<1>3. QED BY <1>1, <1>2

(* A turn newer than all others is the newest, alone.                        *)
LEMMA NewestAdded ==
  ASSUME NEW S \in SUBSET Nat, NEW n \in Nat, \A m \in S : m < n
  PROVE  /\ Newest(S \cup {n}) = {n}
         /\ (S \cup {n}) \ Newest(S \cup {n}) = S
<1>1. \A m \in S : m \in Nat /\ m < n /\ m # n /\ ~(n <= m)
  OBVIOUS
<1>2. n \in Newest(S \cup {n})
  BY <1>1 DEF Newest
<1>3. \A m \in S : m \notin Newest(S \cup {n})
  BY <1>1 DEF Newest
<1>4. Newest(S \cup {n}) \subseteq S \cup {n}
  BY DEF Newest
<1>5. n \notin S
  BY <1>1
<1>6. QED BY <1>2, <1>3, <1>4, <1>5

(* Promises may be withdrawn into doubt, and the counter grows.              *)
LEMMA RowKept ==
  ASSUME NEW row, NEW held, NEW P, NEW D, NEW n \in Nat, RowInv(row, held, P, D, n),
         NEW Q, NEW E, NEW m \in Nat, Q \subseteq P, P \cup D \subseteq Q \cup E, n <= m
  PROVE  RowInv(row, held, Q, E, m)
<1>1. \A i \in 0..n : i \in 0..m
  OBVIOUS
<1>2. HeldInv(held, m)
  BY <1>1 DEF RowInv, HeldInv
<1>3. QED BY <1>1, <1>2, Zenon DEF RowInv

(* A row in the table whose checkpoints are gone, and no row.                *)
LEMMA RowErased ==
  ASSUME NEW row, NEW held, NEW P, NEW D, NEW n \in Nat, RowInv(row, held, P, D, n), NEW E
  PROVE  RowInv(row, {}, {}, E, n)
<1>1. \A i : InCheckpoint({}, i) = {}
  BY DEF InCheckpoint
<1>2. Newest({}) = {} /\ HeldInv({}, n)
  BY DEF Newest, HeldInv
<1>3. QED BY <1>1, <1>2 DEF RowInv

LEMMA RowDropped ==
  ASSUME NEW n \in Nat, NEW E
  PROVE  RowInv(NoThread, {}, {}, E, n)
<1>1. InCheckpoint({}, Null) = {} /\ HeldInv({}, n)
  BY DEF InCheckpoint, HeldInv
<1>2. NoThread.exists = FALSE /\ NoThread.active = Null /\ NoThread.previous = Null
      /\ NoThread.completed = 0
  BY DEF NoThread
<1>3. QED BY <1>1, <1>2 DEF RowInv

LEMMA NothingPromised ==
  ASSUME NEW row, NEW held \in Checkpoints, NEW P, NEW D, NEW n, RowInv(row, held, P, D, n),
         ~row.exists \/ held = {}
  PROVE  P = {}
<1>1. ~row.exists => row.active = Null
  BY DEF RowInv, NoThread
<1>2. InCheckpoint(held, row.active) = {}
  BY <1>1, NoneRemembered
<1>3. QED BY <1>2 DEF RowInv

LEMMA RowNew ==
  ASSUME NEW held, NEW n \in Nat, HeldInv(held, n), NEW D, NEW row \in {NoThread, NewThread},
         held \in Checkpoints
  PROVE  RowInv(row, held, {}, D, n)
<1>1. InCheckpoint(held, 0) = {}
  <2>1. \A k \in {h \in held : h.id = 0} : k.turns = {}
    BY DEF HeldInv
  <2>2. QED BY <2>1 DEF InCheckpoint
<1>2. InCheckpoint(held, Null) = {}
  BY NoneRemembered
<1>3. /\ NewThread.exists /\ NewThread.active = 0 /\ NewThread.previous = Null
      /\ NewThread.completed = 0
      /\ NoThread.exists = FALSE /\ NoThread.active = Null /\ NoThread.previous = Null
      /\ NoThread.completed = 0
  BY DEF NewThread, NoThread
<1>4. QED BY <1>1, <1>2, <1>3 DEF RowInv

LEMMA RowStored ==
  ASSUME NEW row, NEW held, NEW P, NEW D, NEW n \in Nat, RowInv(row, held, P, D, n),
         NEW added, added.id \in 1..n, NEW new, new = held \cup {added},
         \A k \in held : k.id # added.id, row.active # added.id, row.previous # added.id
  PROVE  RowInv(row, new, P, D, n)
<1>1. \A k \in held : k.id = added.id => k.turns = added.turns
  OBVIOUS
<1>2. \A m : m # added.id => InCheckpoint(new, m) = InCheckpoint(held, m)
  BY <1>1, RememberedStored
<1>3. HeldInv(new, n)
  BY DEF HeldInv, RowInv
<1>4. /\ InCheckpoint(new, row.active) = InCheckpoint(held, row.active)
      /\ InCheckpoint(new, row.previous) = InCheckpoint(held, row.previous)
  BY <1>2
<1>5. QED BY <1>3, <1>4 DEF RowInv

(* A committed turn: its checkpoint adds it to what the previous remembers.  *)
LEMMA RowTurned ==
  ASSUME NEW row, NEW held, NEW n \in Nat, NEW i \in 1..n, NEW S, NEW Q, NEW E,
         row.exists, row.active = i, row.previous # Null => row.previous \in 0..n,
         HeldInv(held, n), InCheckpoint(held, row.previous) = S,
         InCheckpoint(held, i) = S \cup {i}, \A m \in S : m \in 0..n /\ m < i,
         Q \subseteq S \cup {i}, S \cup {i} \subseteq Q \cup E
  PROVE  RowInv(row, held, Q, E, n)
<1>1. S \in SUBSET Nat /\ i \in Nat
  OBVIOUS
<1>2. S = (S \cup {i}) \ Newest(S \cup {i})
  BY <1>1, NewestAdded
<1>3. row.active \in Nat /\ row.active \in 0..n /\ (\A m \in S \cup {i} : m \in 0..n)
  BY <1>1
<1>4. QED BY <1>2, <1>3, Zenon DEF RowInv

-----------------------------------------------------------------------------
(* A step works on one thread; the others, and those who work on them, stay. *)
(* What is committed stays too, or becomes what the connection sees.         *)

Kept(d) == /\ thread'[d] = thread[d] /\ saver'[d] = saver[d]
           /\ promised'[d] = promised[d] /\ doubtful'[d] = doubtful[d]
           /\ saved'[d] = saved[d]

Settles(d) == /\ promised'[d] \subseteq promised[d]
              /\ promised[d] \cup doubtful[d] \subseteq promised'[d] \cup doubtful'[d]

DiskSame == disk'.thread = disk.thread /\ disk'.saver = disk.saver
DiskNow  == disk'.thread = thread' /\ disk'.saver = saver'
Later    == count \in Nat /\ count' \in Nat /\ count <= count'

LEMMA KeptThread ==
  ASSUME NEW d, ThreadInv(d), Kept(d), Later, DiskSame \/ DiskNow
  PROVE  ThreadInv(d)'
<1>1. Now(d)'
  <2>1. RowInv(thread[d], saver[d], promised[d], doubtful[d], count')
    BY RowKept DEF Now, ThreadInv, Later
  <2>2. QED BY <2>1 DEF Now, Kept
<1>2. Safe(d)'
  <2>1. CASE DiskSame
    <3>1. RowInv(disk.thread[d], disk.saver[d], promised[d], doubtful[d], count')
      BY RowKept DEF Safe, ThreadInv, Later
    <3>2. QED BY <2>1, <3>1 DEF Safe, Kept, DiskSame
  <2>2. CASE DiskNow
    BY <1>1, <2>2 DEF Now, Safe, DiskNow
  <2>3. QED BY <2>1, <2>2
<1>3. QED BY <1>1, <1>2 DEF ThreadInv

LEMMA WrittenThread ==
  ASSUME NEW d, ThreadInv(d), Now(d)', Later, (DiskSame /\ Settles(d)) \/ DiskNow
  PROVE  ThreadInv(d)'
<1>1. CASE DiskSame /\ Settles(d)
  <2>1. RowInv(disk.thread[d], disk.saver[d], promised'[d], doubtful'[d], count')
    BY <1>1, RowKept DEF Safe, ThreadInv, Later, Settles
  <2>2. QED BY <1>1, <2>1 DEF ThreadInv, Safe, DiskSame
<1>2. CASE DiskNow
  BY <1>2 DEF Now, Safe, ThreadInv, DiskNow
<1>3. QED BY <1>1, <1>2

LEMMA KeptTask ==
  ASSUME NEW t \in Tasks, TaskInv(t), pc'[t] = pc[t], job'[t] = job[t],
         server' = server, bound' = bound, Later, job[t].turn \in Nat,
         pc[t] \in Working =>
           /\ Kept(job[t].thread)
           /\ lock'[StripeOf[job[t].thread]] = lock[StripeOf[job[t].thread]]
  PROVE  TaskInv(t)'
<1>1. CASE pc[t] \in Working
  <2>1. PICK c \in Threads : c = job[t].thread
    BY <1>1 DEF TaskInv, Working
  <2>2. /\ thread'[c] = thread[c] /\ saver'[c] = saver[c] /\ saved'[c] = saved[c]
        /\ lock'[StripeOf[c]] = lock[StripeOf[c]]
    BY <1>1, <2>1 DEF Kept
  <2>3. PICK j : j = job[t]
    OBVIOUS
  <2>4. /\ Current(c)' = Current(c) /\ Prior(c, j)' = Prior(c, j)
        /\ Remembered(c, j.turn)' = Remembered(c, j.turn)
    BY <2>2 DEF Current, Prior, Remembered, Newest
  <2>5. pc[t] = "commit" => Remembered(c, j.turn)' = Prior(c, j)' \cup {j.turn}
    BY <2>1, <2>3, <2>4 DEF TaskInv
  <2>6. /\ pc'[t] = pc[t] /\ job'[t] = j /\ server' = server /\ bound' = bound
        /\ count' \in Nat /\ count \in Nat /\ count <= count' /\ j.turn \in Nat
    BY <2>3 DEF Later
  <2>7. pc[t] \in {"run", "commit"} => j.turn <= count'
    BY <2>1, <2>3, <2>6 DEF TaskInv
  <2>8. QED BY <2>1, <2>2, <2>3, <2>4, <2>5, <2>6, <2>7 DEF TaskInv
<1>2. CASE pc[t] \notin Working
  BY <1>2 DEF TaskInv, Working
<1>3. QED BY <1>1, <1>2

LEMMA KeptCleaner ==
  ASSUME CleanerInv, cleaner' = cleaner, bound' = bound,
         cleaner.thread # Null =>
           /\ Kept(cleaner.thread) /\ cleaner.thread \in stale'
           /\ lock'[StripeOf[cleaner.thread]] = Null
  PROVE  CleanerInv'
BY DEF CleanerInv, Kept

LEMMA Apart ==
  ASSUME IInv, NEW t \in Tasks, pc[t] \in Working
  PROVE  /\ \A u \in Tasks : u # t /\ pc[u] \in Working =>
              StripeOf[job[u].thread] # StripeOf[job[t].thread]
         /\ cleaner.thread # Null => StripeOf[cleaner.thread] # StripeOf[job[t].thread]
BY NullAssumption DEF IInv, TaskInv, CleanerInv

(* A request at work moves on or lets go, and only its thread changes.       *)
LEMMA TaskStep ==
  ASSUME IInv, NEW t \in Tasks, pc[t] \in Working,
         NEW c \in Threads, c = job[t].thread,
         (\E at, local : Goto(t, at, local)) \/ Release(t),
         \A d \in Threads \ {c} : Kept(d),
         server' = server, bound' = bound, cleaner' = cleaner,
         stale \ {c} \subseteq stale', Later, (DiskSame /\ Settles(c)) \/ DiskNow,
         TypeOK', Now(c)', TaskInv(t)'
  PROVE  IInv'
<1>1. /\ \A u \in Tasks : u # t => pc'[u] = pc[u] /\ job'[u] = job[u]
      /\ \A s \in Stripes : s # StripeOf[c] => lock'[s] = lock[s]
  BY DEF Goto, Release, IInv, TypeOK
<1>2. \A d \in Threads : ThreadInv(d)'
  BY KeptThread, WrittenThread DEF IInv
<1>3. ASSUME NEW u \in Tasks
      PROVE  TaskInv(u)'
  <2>1. CASE u = t
    BY <2>1
  <2>2. CASE u # t
    <3>1. pc[u] \in Working =>
            /\ job[u].thread \in Threads /\ StripeOf[job[u].thread] # StripeOf[c]
            /\ StripeOf[job[u].thread] \in Stripes
      BY <2>2, Apart, StripeAssumption DEF IInv, TaskInv, Working
    <3>2. job[u].turn \in Nat
      BY DEF IInv, TypeOK, Job
    <3>3. QED BY <1>1, <2>2, <3>1, <3>2, KeptTask DEF IInv
  <2>3. QED BY <2>1, <2>2
<1>4. CleanerInv'
  <2>1. cleaner.thread # Null =>
          /\ cleaner.thread \in Threads /\ StripeOf[cleaner.thread] # StripeOf[c]
          /\ StripeOf[cleaner.thread] \in Stripes
    BY Apart, StripeAssumption DEF IInv, TypeOK
  <2>2. cleaner.thread # Null =>
          lock[StripeOf[cleaner.thread]] = Null /\ cleaner.thread \in stale
    BY DEF IInv, CleanerInv
  <2>3. QED BY <1>1, <2>1, <2>2, KeptCleaner DEF IInv
<1>5. QED BY <1>2, <1>3, <1>4 DEF IInv

(* What a request at work is working with.                                   *)
LEMMA AtWork ==
  ASSUME IInv, NEW t \in Tasks, pc[t] \in Working
  PROVE  /\ job[t].thread \in Threads /\ job[t] \in Job /\ job[t].turn \in Nat
         /\ ThreadInv(job[t].thread) /\ Now(job[t].thread) /\ TaskInv(t)
         /\ TypeOK /\ server = "serving" /\ count \in Nat
         /\ StripeOf[job[t].thread] \in Stripes
BY StripeAssumption DEF IInv, TypeOK, TaskInv, Working, Job, ThreadInv

LEMMA NoJobTyped == NoJob \in Job
BY DEF NoJob, Job

LEMMA Releasing ==
  ASSUME TypeOK, NEW t \in Tasks, Release(t)
  PROVE  /\ TaskInv(t)'
         /\ lock' \in [Stripes -> Tasks \cup {Null}]
         /\ pc' \in [Tasks -> {"idle", "waiting", "start", "run", "commit", "erase", "drop"}]
         /\ job' \in [Tasks -> Job]
<1>1. pc'[t] = "idle"
  BY DEF Release, TypeOK
<1>2. TaskInv(t)'
  BY <1>1 DEF TaskInv, Working
<1>3. QED BY <1>2, NoJobTyped DEF Release, TypeOK

(* What becomes of the disk.                                                 *)
LEMMA Committed ==
  ASSUME Commit
  PROVE  DiskNow /\ disk' = Image'
BY DEF Commit, Image, DiskNow

LEMMA DiskTyped ==
  ASSUME TypeOK, disk' = disk \/ disk' = Image', thread' \in [Threads -> Thread],
         saver' \in [Threads -> Checkpoints], stale' \subseteq Threads
  PROVE  disk' \in Images
BY DEF TypeOK, Image, Images

LEMMA Doubted ==
  ASSUME TypeOK, NEW c \in Threads, NEW S \in SUBSET Nat, Doubt(c, S)
  PROVE  /\ promised'[c] = promised[c] \ S /\ doubtful'[c] = doubtful[c] \cup S
         /\ promised' \in [Threads -> SUBSET Nat] /\ doubtful' \in [Threads -> SUBSET Nat]
         /\ \A d \in Threads \ {c} : promised'[d] = promised[d] /\ doubtful'[d] = doubtful[d]
         /\ Settles(c)
BY DEF TypeOK, Doubt, Settles

LEMMA Forgetting ==
  ASSUME TypeOK, NEW c \in Threads, Forgotten(c)
  PROVE  /\ promised'[c] = {} /\ doubtful'[c] = {}
         /\ promised' \in [Threads -> SUBSET Nat] /\ doubtful' \in [Threads -> SUBSET Nat]
         /\ \A d \in Threads \ {c} : promised'[d] = promised[d] /\ doubtful'[d] = doubtful[d]
BY DEF TypeOK, Forgotten

(* Statements that were cut short leave the thread as it was or as they      *)
(* would have made it.                                                       *)
LEMMA TornThread ==
  ASSUME IInv, NEW c \in Threads, Later, UNCHANGED count,
         NEW th \in [Threads -> Thread], NEW sv \in [Threads -> Checkpoints],
         NEW st \in SUBSET Threads, Torn(th, sv, st),
         \A d \in Threads \ {c} : th[d] = thread[d] /\ sv[d] = saver[d],
         stale \ {c} \subseteq st, Settles(c),
         RowInv(th[c], sv[c], promised'[c], doubtful'[c], count)
  PROVE  /\ Now(c)' /\ (DiskSame \/ DiskNow) /\ ((DiskSame /\ Settles(c)) \/ DiskNow)
         /\ thread' \in [Threads -> Thread] /\ saver' \in [Threads -> Checkpoints]
         /\ stale' \subseteq Threads /\ disk' \in Images /\ stale \ {c} \subseteq stale'
         /\ \A d \in Threads \ {c} : thread'[d] = thread[d] /\ saver'[d] = saver[d]
<1>1. TypeOK /\ Now(c)
  BY DEF IInv, ThreadInv
<1>2. CASE UNCHANGED <<store, disk>>
  <2>1. UNCHANGED <<thread, saver, stale, disk>>
    BY <1>2 DEF store
  <2>2. RowInv(thread[c], saver[c], promised'[c], doubtful'[c], count)
    BY <1>1, RowKept DEF Now, Settles, Later
  <2>3. Now(c)'
    BY <2>1, <2>2 DEF Now
  <2>4. QED BY <1>1, <2>1, <2>3 DEF DiskSame, TypeOK
<1>3. CASE thread' = th /\ saver' = sv /\ stale' = st /\ (UNCHANGED disk \/ Commit)
  <2>1. Now(c)'
    BY <1>3 DEF Now
  <2>2. DiskSame \/ DiskNow
    BY <1>3, Committed DEF DiskSame
  <2>3. disk' \in Images
    BY <1>1, <1>3, Committed, DiskTyped
  <2>4. QED BY <1>3, <2>1, <2>2, <2>3
<1>4. QED BY <1>2, <1>3 DEF Torn

(* A request that failed or was cancelled.                                   *)
LEMMA TornStep ==
  ASSUME IInv, NEW t \in Tasks, pc[t] \in Working, Release(t),
         NEW c \in Threads, c = job[t].thread,
         NEW th \in [Threads -> Thread], NEW sv \in [Threads -> Checkpoints],
         NEW st \in SUBSET Threads, Torn(th, sv, st),
         \A d \in Threads \ {c} : th[d] = thread[d] /\ sv[d] = saver[d],
         stale \ {c} \subseteq st, Settles(c),
         RowInv(th[c], sv[c], promised'[c], doubtful'[c], count),
         promised' \in [Threads -> SUBSET Nat], doubtful' \in [Threads -> SUBSET Nat],
         \A d \in Threads \ {c} : promised'[d] = promised[d] /\ doubtful'[d] = doubtful[d],
         UNCHANGED <<Life, cleaner, count>>
  PROVE  IInv'
<1>1. Later /\ TypeOK /\ UNCHANGED <<saved, server, bound>> /\ count' = count /\ cleaner' = cleaner
  BY DEF Later, IInv, TypeOK, Life
<1>2. /\ Now(c)' /\ ((DiskSame /\ Settles(c)) \/ DiskNow)
      /\ thread' \in [Threads -> Thread] /\ saver' \in [Threads -> Checkpoints]
      /\ stale' \subseteq Threads /\ disk' \in Images /\ stale \ {c} \subseteq stale'
      /\ \A d \in Threads \ {c} : thread'[d] = thread[d] /\ saver'[d] = saver[d]
  BY <1>1, TornThread
<1>3. \A d \in Threads \ {c} : Kept(d)
  BY <1>1, <1>2 DEF Kept
<1>4. TypeOK' /\ TaskInv(t)'
  BY <1>1, <1>2, Releasing DEF TypeOK
<1>5. QED BY <1>1, <1>2, <1>3, <1>4, TaskStep

LEMMA HistorySame ==
  ASSUME IInv, NEW c \in Threads, UNCHANGED history
  PROVE  /\ Settles(c) /\ Later /\ count' = count
         /\ promised' = promised /\ doubtful' = doubtful
         /\ promised' \in [Threads -> SUBSET Nat] /\ doubtful' \in [Threads -> SUBSET Nat]
BY DEF history, IInv, TypeOK, Settles, Later

-----------------------------------------------------------------------------
(* The steps of a request, each with the way it fails. *)

(* An empty thread.                                                          *)
LEMMA Opening ==
  ASSUME IInv, NEW c \in Threads, ~thread[c].exists,
         NEW row \in {NoThread, NewThread}, NEW held \in {{}, Stored(c, 0, {})}
  PROVE  /\ [thread EXCEPT ![c] = row] \in [Threads -> Thread]
         /\ [saver EXCEPT ![c] = held] \in [Threads -> Checkpoints]
         /\ RowInv(row, held, promised[c], doubtful[c], count)
         /\ promised[c] = {} /\ InCheckpoint(held, 0) = {}
         /\ \A k \in held : k.id \in 0..count
<1>1. TypeOK /\ Now(c) /\ count \in Nat
  BY DEF IInv, ThreadInv, TypeOK
<1>2. row \in Thread
  <2>1. NoThread \in Thread
    BY DEF NoThread, Thread
  <2>2. NewThread \in Thread
    BY DEF NewThread, Thread
  <2>3. QED BY <2>1, <2>2
<1>3. saver[c] \in Checkpoints /\ HeldInv(saver[c], count)
  BY <1>1 DEF TypeOK, Now, RowInv
<1>4. held \in Checkpoints /\ HeldInv(held, count)
  <2>1. PICK added : added = [id |-> 0, turns |-> {}]
    OBVIOUS
  <2>2. added.id = 0 /\ added.turns = {} /\ added \in [id : Nat, turns : SUBSET Nat]
    BY <2>1
  <2>3. held = {} \/ held = saver[c] \cup {added}
    BY <2>1 DEF Stored
  <2>4. QED BY <1>1, <1>3, <2>2, <2>3 DEF Checkpoints, HeldInv
<1>5. promised[c] = {}
  BY <1>1, <1>3, NothingPromised DEF Now
<1>6. RowInv(row, held, promised[c], doubtful[c], count)
  BY <1>1, <1>4, <1>5, RowNew
<1>7. InCheckpoint(held, 0) = {}
  <2>1. \A k \in {h \in held : h.id = 0} : k.turns = {}
    BY <1>4 DEF HeldInv
  <2>2. QED BY <2>1 DEF InCheckpoint
<1>8. QED BY <1>1, <1>2, <1>4, <1>5, <1>6, <1>7 DEF TypeOK, HeldInv

LEMMA FailStartKeeps ==
  ASSUME IInv, NEW t \in Tasks, FailStart(t)
  PROVE  IInv'
<1>1. pc[t] \in Working /\ Release(t) /\ UNCHANGED <<Life, cleaner, count>>
  BY DEF FailStart, Working, history
<1>2. PICK c \in Threads : c = job[t].thread
  BY <1>1, AtWork
<1>3. TypeOK /\ Now(c)
  BY <1>1, <1>2, AtWork
<1>4. /\ Settles(c) /\ promised' = promised /\ doubtful' = doubtful
      /\ promised' \in [Threads -> SUBSET Nat] /\ doubtful' \in [Threads -> SUBSET Nat]
  BY HistorySame DEF FailStart
<1>5. CASE UNCHANGED <<store, disk>>
  <2>1. Torn(thread, saver, stale)
    BY <1>5 DEF Torn
  <2>2. RowInv(thread[c], saver[c], promised'[c], doubtful'[c], count)
    BY <1>3, <1>4 DEF Now
  <2>3. thread \in [Threads -> Thread] /\ saver \in [Threads -> Checkpoints]
        /\ stale \in SUBSET Threads
    BY <1>3 DEF TypeOK
  <2>4. QED BY <1>1, <1>2, <1>4, <2>1, <2>2, <2>3, TornStep
<1>6. ASSUME NEW row \in {NoThread, NewThread}, NEW held \in {{}, Stored(c, 0, {})},
             ~thread[c].exists,
             Torn([thread EXCEPT ![c] = row], [saver EXCEPT ![c] = held], stale \ {c})
      PROVE  IInv'
  <2>1. PICK th, sv : th = [thread EXCEPT ![c] = row] /\ sv = [saver EXCEPT ![c] = held]
    OBVIOUS
  <2>2. /\ th \in [Threads -> Thread] /\ sv \in [Threads -> Checkpoints]
        /\ RowInv(row, held, promised[c], doubtful[c], count)
    BY <1>6, <2>1, Opening
  <2>3. /\ th[c] = row /\ sv[c] = held
        /\ \A d \in Threads \ {c} : th[d] = thread[d] /\ sv[d] = saver[d]
    BY <1>3, <2>1 DEF TypeOK
  <2>4. RowInv(th[c], sv[c], promised'[c], doubtful'[c], count)
    BY <1>4, <2>2, <2>3
  <2>5. stale \ {c} \in SUBSET Threads /\ Torn(th, sv, stale \ {c})
    BY <1>3, <1>6, <2>1 DEF TypeOK
  <2>6. QED BY <1>1, <1>2, <1>4, <2>2, <2>3, <2>4, <2>5, TornStep
<1>7. QED BY <1>2, <1>5, <1>6 DEF FailStart

(* The checkpoint a turn ends in.                                            *)
LEMMA Checkpointed ==
  ASSUME IInv, NEW t \in Tasks, pc[t] = "run", NEW c \in Threads, NEW j \in Job,
         c = job[t].thread, j = job[t], NEW sv, sv = WithCheckpoint(t)
  PROVE  /\ sv \in [Threads -> Checkpoints]
         /\ \A d \in Threads \ {c} : sv[d] = saver[d]
         /\ RowInv(thread[c], sv[c], promised[c], doubtful[c], count)
         /\ InCheckpoint(sv[c], j.turn) = Prior(c, j) \cup {j.turn}
         /\ InCheckpoint(sv[c], thread[c].active) = Current(c)
<1>1. /\ TypeOK /\ Now(c) /\ TaskInv(t) /\ count \in Nat /\ j.turn \in Nat
  BY AtWork DEF Working
<1>2. /\ j.action \in {"append", "replace_last"}
      /\ thread[c].exists /\ thread[c].active = j.active
      /\ j.action = "replace_last" => thread[c].completed # 0
      /\ j.turn # 0 /\ j.turn <= count
      /\ \A n \in {thread[c].active, thread[c].previous} : n # Null => n < j.turn
      /\ \A k \in saver[c] : k.id < j.turn
  BY <1>1 DEF TaskInv, Working
<1>3. Remembered(c, Start(j, thread[c])) = Prior(c, j)
  BY <1>1, <1>2 DEF Start, Prior, Current, Remembered, Now, RowInv
<1>4. PICK S : S = Prior(c, j) \cup {j.turn}
  OBVIOUS
<1>5. PICK added : added = [id |-> j.turn, turns |-> S]
  OBVIOUS
<1>6. sv = [saver EXCEPT ![c] = saver[c] \cup {added}]
  BY <1>3, <1>4, <1>5 DEF WithCheckpoint, Stored
<1>7. added.id = j.turn /\ added.turns = S
  BY <1>5
<1>8. \A m \in Current(c) : m \in Nat
  BY <1>1 DEF Current, Remembered, Now, RowInv
<1>9. added \in [id : Nat, turns : SUBSET Nat]
  <2>1. S \in SUBSET Nat
    BY <1>1, <1>4, <1>8 DEF Prior
  <2>2. QED BY <1>1, <1>5, <2>1
<1>10. /\ sv[c] = saver[c] \cup {added} /\ saver[c] \in Checkpoints
       /\ \A d \in Threads \ {c} : sv[d] = saver[d]
  BY <1>1, <1>6 DEF TypeOK
<1>11. sv \in [Threads -> Checkpoints]
  BY <1>1, <1>6, <1>9, <1>10 DEF TypeOK, Checkpoints
<1>12. /\ \A k \in saver[c] : k.id # added.id
       /\ thread[c].active # added.id /\ thread[c].previous # added.id
       /\ added.id \in 1..count
  <2>1. \A k \in saver[c] : k.id \in Nat
    BY <1>10 DEF Checkpoints
  <2>2. \A n \in {thread[c].active, thread[c].previous} : n = Null \/ n \in Nat
    BY <1>1 DEF TypeOK, Thread
  <2>3. QED BY <1>1, <1>2, <1>7, <2>1, <2>2, NullAssumption
<1>13. RowInv(thread[c], sv[c], promised[c], doubtful[c], count)
  BY <1>1, <1>10, <1>12, RowStored DEF Now
<1>14. /\ InCheckpoint(sv[c], added.id) = added.turns
       /\ InCheckpoint(sv[c], thread[c].active) = InCheckpoint(saver[c], thread[c].active)
  BY <1>10, <1>12, RememberedStored
<1>15. QED BY <1>4, <1>7, <1>10, <1>11, <1>13, <1>14 DEF Current, Remembered

LEMMA RunTurnKeeps ==
  ASSUME IInv, NEW t \in Tasks, RunTurn(t)
  PROVE  IInv'
<1>1. pc[t] = "run" /\ pc[t] \in Working
  BY DEF RunTurn, Working
<1>2. PICK c \in Threads, j \in Job : c = job[t].thread /\ j = job[t]
  BY <1>1, AtWork
<1>3. TypeOK /\ Now(c) /\ TaskInv(t) /\ server = "serving" /\ count \in Nat /\ j.turn \in Nat
  BY <1>1, <1>2, AtWork
<1>4. /\ saver' = WithCheckpoint(t) /\ UNCHANGED <<thread, stale>> /\ DiskNow /\ disk' = Image'
      /\ Goto(t, "commit", j)
      /\ UNCHANGED <<saved, server, bound, cleaner, count, promised, doubtful>>
  BY <1>2, Committed DEF RunTurn, Life, history
<1>5. /\ saver' \in [Threads -> Checkpoints]
      /\ \A d \in Threads \ {c} : saver'[d] = saver[d]
      /\ RowInv(thread[c], saver'[c], promised[c], doubtful[c], count)
      /\ InCheckpoint(saver'[c], j.turn) = Prior(c, j) \cup {j.turn}
      /\ InCheckpoint(saver'[c], thread[c].active) = Current(c)
  BY <1>1, <1>2, <1>4, Checkpointed
<1>6. Now(c)' /\ Later
  BY <1>3, <1>4, <1>5 DEF Now, Later
<1>7. TypeOK'
  <2>1. disk' \in Images
    BY <1>3, <1>4, <1>5, DiskTyped DEF TypeOK
  <2>2. QED BY <1>2, <1>3, <1>4, <1>5, <2>1 DEF TypeOK, Goto
<1>8. TaskInv(t)'
  <2>1. pc'[t] = "commit" /\ job'[t] = j /\ lock' = lock
    BY <1>3, <1>4 DEF Goto, TypeOK
  <2>2. Current(c)' = Current(c)
    BY <1>4, <1>5 DEF Current, Remembered
  <2>3. Prior(c, j)' = Prior(c, j)
    BY <2>2 DEF Prior, Newest
  <2>4. Remembered(c, j.turn)' = Prior(c, j)' \cup {j.turn}
    BY <1>5, <2>3 DEF Remembered
  <2>5. /\ j.action \in {"append", "replace_last"}
        /\ thread[c].exists /\ thread[c].active = j.active
        /\ j.action = "replace_last" => thread[c].completed # 0
        /\ j.turn # 0 /\ j.turn <= count
        /\ \A n \in {thread[c].active, thread[c].previous} : n # Null => n < j.turn
        /\ \A n \in Current(c) : n < j.turn
        /\ lock[StripeOf[c]] = t /\ (bound => saved[c] = "none")
    BY <1>1, <1>2, <1>3 DEF TaskInv, Working
  <2>6. QED BY <1>2, <1>3, <1>4, <2>1, <2>2, <2>4, <2>5 DEF TaskInv, Working
<1>9. \A d \in Threads \ {c} : Kept(d)
  BY <1>4, <1>5 DEF Kept
<1>10. QED BY <1>1, <1>2, <1>4, <1>6, <1>7, <1>8, <1>9, TaskStep

LEMMA FailRunKeeps ==
  ASSUME IInv, NEW t \in Tasks, FailRun(t)
  PROVE  IInv'
<1>1. pc[t] = "run" /\ pc[t] \in Working /\ Release(t) /\ UNCHANGED <<Life, cleaner, count>>
  BY DEF FailRun, Working, history
<1>2. PICK c \in Threads, j \in Job : c = job[t].thread /\ j = job[t]
  BY <1>1, AtWork
<1>3. TypeOK /\ Now(c)
  BY <1>1, <1>2, AtWork
<1>4. /\ Settles(c) /\ promised' = promised /\ doubtful' = doubtful
      /\ promised' \in [Threads -> SUBSET Nat] /\ doubtful' \in [Threads -> SUBSET Nat]
  BY HistorySame DEF FailRun
<1>5. thread \in [Threads -> Thread] /\ saver \in [Threads -> Checkpoints]
      /\ stale \in SUBSET Threads
  BY <1>3 DEF TypeOK
<1>6. CASE Torn(thread, WithCheckpoint(t), stale)
  <2>1. PICK sv : sv = WithCheckpoint(t)
    OBVIOUS
  <2>2. /\ sv \in [Threads -> Checkpoints] /\ \A d \in Threads \ {c} : sv[d] = saver[d]
        /\ RowInv(thread[c], sv[c], promised[c], doubtful[c], count)
    BY <1>1, <1>2, <2>1, Checkpointed
  <2>3. Torn(thread, sv, stale) /\ RowInv(thread[c], sv[c], promised'[c], doubtful'[c], count)
    BY <1>4, <1>6, <2>1, <2>2
  <2>4. QED BY <1>1, <1>2, <1>4, <1>5, <2>2, <2>3, TornStep
<1>7. CASE UNCHANGED store /\ Commit
  <2>1. Torn(thread, saver, stale)
    BY <1>7 DEF Torn, store
  <2>2. RowInv(thread[c], saver[c], promised'[c], doubtful'[c], count)
    BY <1>3, <1>4 DEF Now
  <2>3. QED BY <1>1, <1>2, <1>4, <1>5, <2>1, <2>2, TornStep
<1>8. QED BY <1>6, <1>7 DEF FailRun

LEMMA StartTurnKeeps ==
  ASSUME IInv, NEW t \in Tasks, StartTurn(t)
  PROVE  IInv'
<1>1. pc[t] = "start" /\ pc[t] \in Working
  BY DEF StartTurn, Working
<1>2. PICK c \in Threads : c = job[t].thread
  BY <1>1, AtWork
<1> DEFINE th == IF thread[c].exists THEN thread[c] ELSE NewThread
<1>3. /\ \/ thread[c].exists /\ UNCHANGED <<store, disk>>
         \/ /\ ~thread[c].exists /\ thread' = [thread EXCEPT ![c] = NewThread]
            /\ saver' = [saver EXCEPT ![c] = Stored(c, 0, {})]
            /\ stale' = stale \ {c} /\ Commit
      /\ \/ job[t].action = "replace_last" /\ th.completed = 0 /\ Release(t) /\ UNCHANGED count
         \/ /\ ~(job[t].action = "replace_last" /\ th.completed = 0)
            /\ Goto(t, "run", [job[t] EXCEPT !.active = th.active, !.turn = count + 1])
            /\ count' = count + 1
      /\ UNCHANGED <<saved, server, bound, cleaner, promised, doubtful>>
  BY <1>2 DEF StartTurn, Life
<1>4. /\ job[t] \in Job /\ Now(c) /\ TaskInv(t) /\ TypeOK /\ count \in Nat
      /\ job[t].action \in {"append", "replace_last"} /\ server = "serving"
  BY <1>1, <1>2, AtWork DEF TaskInv
<1>5. Later
  BY <1>3, <1>4 DEF Later
<1>6. /\ thread'[c] = th /\ thread' \in [Threads -> Thread]
      /\ saver' \in [Threads -> Checkpoints] /\ stale' \subseteq Threads
      /\ disk' \in Images /\ (DiskSame \/ DiskNow) /\ stale \ {c} \subseteq stale'
      /\ \A d \in Threads \ {c} : thread'[d] = thread[d] /\ saver'[d] = saver[d]
      /\ RowInv(th, saver'[c], promised[c], doubtful[c], count)
      /\ th.exists /\ (\A k \in saver'[c] : k.id \in 0..count)
  <2>1. CASE thread[c].exists /\ UNCHANGED <<store, disk>>
    <3>1. UNCHANGED <<thread, saver, stale, disk>> /\ th = thread[c]
      BY <2>1 DEF store
    <3>2. DiskSame
      BY <3>1 DEF DiskSame
    <3>3. RowInv(th, saver'[c], promised[c], doubtful[c], count)
      BY <1>4, <3>1 DEF Now
    <3>4. \A k \in saver'[c] : k.id \in 0..count
      BY <3>3 DEF RowInv, HeldInv
    <3> HIDE DEF th
    <3>5. QED BY <1>4, <2>1, <3>1, <3>2, <3>3, <3>4 DEF TypeOK
  <2>2. CASE /\ ~thread[c].exists /\ thread' = [thread EXCEPT ![c] = NewThread]
             /\ saver' = [saver EXCEPT ![c] = Stored(c, 0, {})]
             /\ stale' = stale \ {c} /\ Commit
    <3>1. /\ thread' \in [Threads -> Thread] /\ saver' \in [Threads -> Checkpoints]
          /\ RowInv(NewThread, Stored(c, 0, {}), promised[c], doubtful[c], count)
          /\ \A k \in Stored(c, 0, {}) : k.id \in 0..count
      BY <2>2, Opening
    <3>2. /\ th = NewThread /\ thread'[c] = NewThread /\ saver'[c] = Stored(c, 0, {})
          /\ \A d \in Threads \ {c} : thread'[d] = thread[d] /\ saver'[d] = saver[d]
      BY <1>4, <2>2 DEF TypeOK
    <3>3. stale' \subseteq Threads /\ stale \ {c} \subseteq stale'
      BY <1>4, <2>2 DEF TypeOK
    <3>4. DiskNow /\ disk' \in Images
      BY <1>4, <2>2, <3>1, <3>3, Committed, DiskTyped
    <3>5. NewThread.exists
      BY DEF NewThread
    <3> HIDE DEF th
    <3>6. QED BY <3>1, <3>2, <3>3, <3>4, <3>5
  <2>3. QED BY <1>3, <2>1, <2>2
<1> HIDE DEF th
<1>7. th \in Thread /\ th.active \in Nat
  BY <1>6 DEF RowInv
<1>8. Now(c)'
  <2>1. RowInv(th, saver'[c], promised[c], doubtful[c], count')
    BY <1>5, <1>6, RowKept DEF Later
  <2>2. QED BY <1>3, <1>6, <2>1 DEF Now
<1>9. PICK l : l = [job[t] EXCEPT !.active = th.active, !.turn = count + 1]
  OBVIOUS
<1>10. l \in Job /\ l.thread = c /\ l.action = job[t].action /\ l.active = th.active
       /\ l.turn = count + 1
  <2>1. count + 1 \in Nat /\ th.active \in Nat \cup {Null}
    BY <1>4, <1>7
  <2>2. l \in Job /\ l.thread = job[t].thread /\ l.action = job[t].action
        /\ l.active = th.active /\ l.turn = count + 1
    <3>1. PICK j, a, n : j = job[t] /\ a = th.active /\ n = count + 1
      OBVIOUS
    <3>2. l = [j EXCEPT !.active = a, !.turn = n]
      BY <1>9, <3>1, Zenon
    <3>3. j \in Job /\ a \in Nat \cup {Null} /\ n \in Nat
      <4>1. job[t] \in Job
        BY <1>4
      <4>2. QED BY <2>1, <3>1, <4>1, Zenon
    <3>4. PICK k : k = [j EXCEPT !.active = a]
      OBVIOUS
    <3>5. k \in Job /\ k.thread = j.thread /\ k.action = j.action /\ k.active = a
      BY <3>3, <3>4 DEF Job
    <3>6. l = [k EXCEPT !.turn = n]
      BY <3>2, <3>4, Zenon
    <3>7. l \in Job /\ l.thread = k.thread /\ l.action = k.action /\ l.active = k.active
          /\ l.turn = n
      BY <3>3, <3>5, <3>6 DEF Job
    <3>8. QED BY <3>1, <3>5, <3>7
  <2>3. QED BY <1>2, <2>2
<1>11. Release(t) \/ (~(job[t].action = "replace_last" /\ th.completed = 0)
                      /\ Goto(t, "run", l) /\ count' = count + 1)
  BY <1>3, <1>9
<1>12. /\ lock' \in [Stripes -> Tasks \cup {Null}] /\ job' \in [Tasks -> Job]
       /\ pc' \in [Tasks -> {"idle", "waiting", "start", "run", "commit", "erase", "drop"}]
  BY <1>4, <1>10, <1>11, Releasing DEF TypeOK, Goto
<1>13. TypeOK'
  BY <1>3, <1>4, <1>5, <1>6, <1>12 DEF TypeOK, Later
<1>14. TaskInv(t)'
  <2>1. CASE Release(t)
    BY <1>4, <2>1, Releasing
  <2>2. CASE /\ ~(job[t].action = "replace_last" /\ th.completed = 0)
             /\ Goto(t, "run", l) /\ count' = count + 1
    <3>1. /\ pc'[t] = "run" /\ job'[t] = l /\ lock' = lock
          /\ saved' = saved /\ server' = server /\ bound' = bound
      BY <1>3, <1>4, <2>2 DEF Goto, TypeOK
    <3>2. lock[StripeOf[c]] = t /\ (bound => saved[c] = "none")
      BY <1>1, <1>2, <1>4 DEF TaskInv, Working
    <3>3. /\ \A n \in {th.active, th.previous} : n # Null => n < count + 1
          /\ \A n \in InCheckpoint(saver'[c], th.active) : n < count + 1
      BY <1>4, <1>6 DEF RowInv
    <3>4. Current(c)' = InCheckpoint(saver'[c], th.active)
      BY <1>6 DEF Current, Remembered
    <3>5. \A k \in saver'[c] : k.id < count + 1
      BY <1>4, <1>6
    <3>6. count + 1 # 0 /\ count + 1 <= count'
      BY <1>4, <2>2
    <3>7. QED BY <1>4, <1>6, <1>10, <2>2, <3>1, <3>2, <3>3, <3>4, <3>5, <3>6 DEF TaskInv, Working
  <2>3. QED BY <1>11, <2>1, <2>2
<1>15. Settles(c) /\ \A d \in Threads \ {c} : Kept(d)
  BY <1>3, <1>6 DEF Kept, Settles
<1>16. (\E at, local : Goto(t, at, local)) \/ Release(t)
  BY <1>11
<1>17. QED
  BY <1>1, <1>2, <1>3, <1>5, <1>6, <1>8, <1>13, <1>14, <1>15, <1>16, TaskStep

(* The row with a turn committed: its compare-and-set hits.                  *)
LEMMA Turned ==
  ASSUME IInv, NEW t \in Tasks, pc[t] = "commit", NEW c \in Threads, NEW j \in Job,
         c = job[t].thread, j = job[t]
  PROVE  /\ Renewed(t) = stale \ {c} /\ Replaced(t) \in SUBSET Nat
         /\ j.turn \in Nat /\ j.turn \in 1..count
         /\ Advanced(t) \in [Threads -> Thread]
         /\ \A d \in Threads \ {c} : Advanced(t)[d] = thread[d]
         /\ Prior(c, j) = Current(c) \ Replaced(t)
         /\ promised[c] \subseteq Current(c) /\ Current(c) \subseteq promised[c] \cup doubtful[c]
         /\ \A Q, E : /\ Q \subseteq Prior(c, j) \cup {j.turn}
                      /\ Prior(c, j) \cup {j.turn} \subseteq Q \cup E
                      => RowInv(Advanced(t)[c], saver[c], Q, E, count)
<1>1. TypeOK /\ Now(c) /\ TaskInv(t) /\ count \in Nat /\ j.turn \in Nat
  BY AtWork DEF Working
<1>2. /\ j.action \in {"append", "replace_last"}
      /\ thread[c].exists /\ thread[c].active = j.active
      /\ j.action = "replace_last" => thread[c].completed # 0
      /\ j.turn # 0 /\ j.turn <= count
      /\ \A n \in Current(c) : n < j.turn
      /\ InCheckpoint(saver[c], j.turn) = Prior(c, j) \cup {j.turn}
  BY <1>1 DEF TaskInv, Working, Remembered
<1>3. Hit(t)
  BY <1>2 DEF Hit
<1>4. Replaced(t) = IF j.action = "append" THEN {} ELSE Newest(Current(c))
  BY DEF Replaced, Current
<1>5. /\ promised[c] \subseteq Current(c) /\ Current(c) \subseteq promised[c] \cup doubtful[c]
      /\ \A m \in Current(c) : m \in 0..count
      /\ HeldInv(saver[c], count)
      /\ \A i \in {thread[c].active, thread[c].previous} : i # Null => i \in 0..count
      /\ thread[c].completed # 0 =>
           InCheckpoint(saver[c], thread[c].previous) = Current(c) \ Newest(Current(c))
      /\ InCheckpoint(saver[c], thread[c].active) = Current(c)
  BY <1>1 DEF Now, RowInv, Current, Remembered
<1>6. Replaced(t) \in SUBSET Nat /\ Prior(c, j) = Current(c) \ Replaced(t)
  BY <1>4, <1>5 DEF Prior, Newest
<1>7. PICK th : th = Advanced(t)
  OBVIOUS
<1>8. th = IF j.action = "append"
           THEN [thread EXCEPT ![c].previous = j.active, ![c].active = j.turn,
                               ![c].completed = @ + 1]
           ELSE [thread EXCEPT ![c].active = j.turn]
  BY <1>3, <1>7 DEF Advanced
<1>9. thread \in [Threads -> Thread] /\ thread[c] \in Thread /\ thread[c].active \in Nat
  BY <1>1, <1>2 DEF TypeOK, Now, RowInv
<1>10. /\ th \in [Threads -> Thread] /\ th[c].exists /\ th[c].active = j.turn
       /\ \A d \in Threads \ {c} : th[d] = thread[d]
       /\ th[c].previous = IF j.action = "append" THEN thread[c].active ELSE thread[c].previous
  BY <1>1, <1>2, <1>8, <1>9 DEF Thread
<1>11. /\ InCheckpoint(saver[c], th[c].previous) = Prior(c, j)
       /\ th[c].previous # Null => th[c].previous \in 0..count
  BY <1>2, <1>5, <1>10 DEF Prior
<1>12. \A m \in Prior(c, j) : m \in 0..count /\ m < j.turn
  BY <1>2, <1>5 DEF Prior
<1>13. j.turn \in 1..count
  BY <1>1, <1>2
<1>14. ASSUME NEW Q, NEW E, Q \subseteq Prior(c, j) \cup {j.turn},
              Prior(c, j) \cup {j.turn} \subseteq Q \cup E
       PROVE  RowInv(th[c], saver[c], Q, E, count)
  <2>1. PICK S, row, held, i : /\ S = Prior(c, j) /\ row = th[c] /\ held = saver[c]
                               /\ i = j.turn
    OBVIOUS
  <2>2. QED BY <1>1, <1>2, <1>5, <1>10, <1>11, <1>12, <1>13, <1>14, <2>1, RowTurned
<1>15. QED BY <1>1, <1>3, <1>5, <1>6, <1>7, <1>10, <1>13, <1>14 DEF Renewed

LEMMA CommitTurnKeeps ==
  ASSUME IInv, NEW t \in Tasks, CommitTurn(t)
  PROVE  IInv'
<1>1. pc[t] = "commit" /\ pc[t] \in Working
  BY DEF CommitTurn, Working
<1>2. PICK c \in Threads, j \in Job : c = job[t].thread /\ j = job[t]
  BY <1>1, AtWork
<1>3. TypeOK /\ server = "serving" /\ count \in Nat
  BY <1>1, AtWork
<1> DEFINE Q == (promised[c] \ Replaced(t)) \cup {j.turn}
           E == doubtful[c] \ Replaced(t)
<1>4. /\ thread' = Advanced(t) /\ stale' = Renewed(t) /\ UNCHANGED saver /\ Commit
      /\ promised' = [promised EXCEPT ![c] = Q] /\ doubtful' = [doubtful EXCEPT ![c] = E]
      /\ Release(t) /\ UNCHANGED <<saved, server, bound, cleaner, count>>
  BY <1>2 DEF CommitTurn, Life
<1>5. /\ stale' = stale \ {c} /\ Replaced(t) \in SUBSET Nat /\ j.turn \in Nat
      /\ thread' \in [Threads -> Thread] /\ \A d \in Threads \ {c} : thread'[d] = thread[d]
      /\ RowInv(thread'[c], saver[c], Q, E, count)
  BY <1>1, <1>2, <1>4, Turned
<1>6. promised[c] \in SUBSET Nat /\ doubtful[c] \in SUBSET Nat
  BY <1>3 DEF TypeOK
<1>7. Q \in SUBSET Nat /\ E \in SUBSET Nat
  BY <1>5, <1>6
<1> HIDE DEF Q, E
<1>8. /\ promised'[c] = Q /\ doubtful'[c] = E
      /\ promised' \in [Threads -> SUBSET Nat] /\ doubtful' \in [Threads -> SUBSET Nat]
      /\ \A d \in Threads \ {c} : promised'[d] = promised[d] /\ doubtful'[d] = doubtful[d]
  BY <1>3, <1>4, <1>7 DEF TypeOK
<1>9. Now(c)' /\ Later
  BY <1>3, <1>4, <1>5, <1>8 DEF Now, Later
<1>10. DiskNow /\ disk' \in Images
  BY <1>3, <1>4, <1>5, Committed, DiskTyped DEF TypeOK
<1>11. TypeOK' /\ TaskInv(t)'
  BY <1>3, <1>4, <1>5, <1>8, <1>10, Releasing DEF TypeOK
<1>12. \A d \in Threads \ {c} : Kept(d)
  BY <1>4, <1>5, <1>8 DEF Kept
<1>13. QED
  BY <1>1, <1>2, <1>4, <1>5, <1>9, <1>10, <1>11, <1>12, TaskStep

LEMMA FailCommitKeeps ==
  ASSUME IInv, NEW t \in Tasks, FailCommit(t)
  PROVE  IInv'
<1>1. pc[t] = "commit" /\ pc[t] \in Working /\ Release(t) /\ UNCHANGED <<Life, cleaner, count>>
  BY DEF FailCommit, Working
<1>2. PICK c \in Threads, j \in Job : c = job[t].thread /\ j = job[t]
  BY <1>1, AtWork
<1>3. TypeOK
  BY DEF IInv
<1>4. PICK th, S : th = Advanced(t) /\ S = Replaced(t) \cup {j.turn}
  OBVIOUS
<1>5. Torn(th, saver, stale \ {c}) /\ Doubt(c, S) /\ S \in SUBSET Nat
      /\ th \in [Threads -> Thread] /\ \A d \in Threads \ {c} : th[d] = thread[d]
  <2>1. /\ Renewed(t) = stale \ {c} /\ Replaced(t) \in SUBSET Nat /\ j.turn \in Nat
        /\ Advanced(t) \in [Threads -> Thread]
        /\ \A d \in Threads \ {c} : Advanced(t)[d] = thread[d]
    BY <1>1, <1>2, Turned
  <2>2. Torn(th, saver, Renewed(t)) /\ Doubt(c, S)
    BY <1>2, <1>4 DEF FailCommit
  <2>3. S \in SUBSET Nat
    BY <1>4, <2>1
  <2>4. QED BY <1>4, <2>1, <2>2, <2>3
<1>6. /\ promised'[c] = promised[c] \ S /\ doubtful'[c] = doubtful[c] \cup S /\ Settles(c)
      /\ promised' \in [Threads -> SUBSET Nat] /\ doubtful' \in [Threads -> SUBSET Nat]
      /\ \A d \in Threads \ {c} : promised'[d] = promised[d] /\ doubtful'[d] = doubtful[d]
  BY <1>3, <1>5, Doubted
<1>7. RowInv(th[c], saver[c], promised'[c], doubtful'[c], count)
  BY <1>1, <1>2, <1>4, <1>6, Turned
<1>8. saver \in [Threads -> Checkpoints] /\ stale \ {c} \in SUBSET Threads
  BY <1>3 DEF TypeOK
<1>9. QED BY <1>1, <1>2, <1>5, <1>6, <1>7, <1>8, TornStep

LEMMA EraseTyped ==
  ASSUME IInv, NEW c \in Threads
  PROVE  /\ Erased(c) \in [Threads -> Checkpoints] /\ Erased(c)[c] = {}
         /\ \A d \in Threads \ {c} : Erased(c)[d] = saver[d]
         /\ \A E : RowInv(thread[c], {}, {}, E, count)
<1>1. TypeOK /\ Now(c) /\ count \in Nat
  BY DEF IInv, ThreadInv, TypeOK
<1>2. {} \in Checkpoints
  BY DEF Checkpoints
<1>3. \A E : RowInv(thread[c], {}, {}, E, count)
  BY <1>1, RowErased DEF Now
<1>4. QED BY <1>1, <1>2, <1>3 DEF Erased, TypeOK

LEMMA EraseThreadKeeps ==
  ASSUME IInv, NEW t \in Tasks, EraseThread(t)
  PROVE  IInv'
<1>1. pc[t] = "erase" /\ pc[t] \in Working
  BY DEF EraseThread, Working
<1>2. PICK c \in Threads, j \in Job : c = job[t].thread /\ j = job[t]
  BY <1>1, AtWork
<1>3. TypeOK /\ TaskInv(t) /\ server = "serving" /\ count \in Nat
  BY <1>1, <1>2, AtWork
<1>4. /\ saver' = Erased(c) /\ UNCHANGED <<thread, stale>> /\ Commit /\ Forgotten(c)
      /\ Goto(t, "drop", j) /\ UNCHANGED <<saved, server, bound, cleaner, count>>
  BY <1>2 DEF EraseThread, Life
<1>5. /\ saver' \in [Threads -> Checkpoints] /\ saver'[c] = {}
      /\ \A d \in Threads \ {c} : saver'[d] = saver[d]
  BY <1>4, EraseTyped
<1>6. /\ promised'[c] = {} /\ doubtful'[c] = {}
      /\ promised' \in [Threads -> SUBSET Nat] /\ doubtful' \in [Threads -> SUBSET Nat]
      /\ \A d \in Threads \ {c} : promised'[d] = promised[d] /\ doubtful'[d] = doubtful[d]
  BY <1>3, <1>4, Forgetting
<1>7. Now(c)'
  <2>1. RowInv(thread[c], {}, {}, {}, count)
    BY EraseTyped
  <2>2. QED BY <1>4, <1>5, <1>6, <2>1 DEF Now
<1>8. DiskNow /\ disk' \in Images
  BY <1>3, <1>4, <1>5, Committed, DiskTyped DEF TypeOK
<1>9. TypeOK'
  BY <1>2, <1>3, <1>4, <1>5, <1>6, <1>8 DEF TypeOK, Goto
<1>10. TaskInv(t)'
  <2>1. pc'[t] = "drop" /\ job'[t] = j /\ lock' = lock
    BY <1>3, <1>4 DEF TypeOK, Goto
  <2>2. /\ j.action \in {"append", "replace_last", "delete"}
        /\ lock[StripeOf[c]] = t /\ (bound => saved[c] = "none")
    BY <1>1, <1>2, <1>3 DEF TaskInv, Working
  <2>3. QED BY <1>2, <1>3, <1>4, <1>5, <2>1, <2>2 DEF TaskInv, Working
<1>11. Later /\ \A d \in Threads \ {c} : Kept(d)
  BY <1>3, <1>4, <1>5, <1>6 DEF Later, Kept
<1>12. QED
  BY <1>1, <1>2, <1>4, <1>7, <1>8, <1>9, <1>10, <1>11, TaskStep

LEMMA FailEraseKeeps ==
  ASSUME IInv, NEW t \in Tasks, FailErase(t)
  PROVE  IInv'
<1>1. pc[t] \in Working /\ Release(t) /\ UNCHANGED <<Life, cleaner, count>>
  BY DEF FailErase, Working
<1>2. PICK c \in Threads : c = job[t].thread
  BY <1>1, AtWork
<1>3. TypeOK /\ promised[c] \in SUBSET Nat
  BY DEF IInv, TypeOK
<1>4. Torn(thread, Erased(c), stale) /\ Doubt(c, promised[c])
  BY <1>2 DEF FailErase
<1>5. PICK sv : sv = Erased(c)
  OBVIOUS
<1>6. /\ sv \in [Threads -> Checkpoints] /\ sv[c] = {}
      /\ \A d \in Threads \ {c} : sv[d] = saver[d]
      /\ \A E : RowInv(thread[c], {}, {}, E, count)
  BY <1>5, EraseTyped
<1>7. /\ promised'[c] = {} /\ Settles(c)
      /\ promised' \in [Threads -> SUBSET Nat] /\ doubtful' \in [Threads -> SUBSET Nat]
      /\ \A d \in Threads \ {c} : promised'[d] = promised[d] /\ doubtful'[d] = doubtful[d]
  BY <1>3, <1>4, Doubted
<1>8. RowInv(thread[c], sv[c], promised'[c], doubtful'[c], count)
  BY <1>6, <1>7
<1>9. thread \in [Threads -> Thread] /\ stale \in SUBSET Threads
  BY <1>3 DEF TypeOK
<1>10. Torn(thread, sv, stale)
  BY <1>4, <1>5
<1>11. QED BY <1>1, <1>2, <1>6, <1>7, <1>8, <1>9, <1>10, TornStep

(* A thread is dropped when its checkpoints are gone.                        *)
LEMMA DropTyped ==
  ASSUME IInv, NEW c \in Threads, saver[c] = {}
  PROVE  /\ Dropped(c) \in [Threads -> Thread] /\ Dropped(c)[c] = NoThread
         /\ \A d \in Threads \ {c} : Dropped(c)[d] = thread[d]
         /\ RowInv(NoThread, saver[c], promised[c], doubtful[c], count)
<1>1. TypeOK /\ Now(c) /\ count \in Nat
  BY DEF IInv, ThreadInv, TypeOK
<1>2. NoThread \in Thread
  BY DEF NoThread, Thread
<1>3. promised[c] = {}
  <2>1. saver[c] \in Checkpoints
    BY <1>1 DEF TypeOK
  <2>2. QED BY <1>1, <2>1, NothingPromised DEF Now
<1>4. RowInv(NoThread, saver[c], promised[c], doubtful[c], count)
  BY <1>1, <1>3, RowDropped
<1>5. QED BY <1>1, <1>2, <1>4 DEF Dropped, TypeOK

LEMMA DropThreadKeeps ==
  ASSUME IInv, NEW t \in Tasks, DropThread(t)
  PROVE  IInv'
<1>1. pc[t] = "drop" /\ pc[t] \in Working
  BY DEF DropThread, Working
<1>2. PICK c \in Threads : c = job[t].thread
  BY <1>1, AtWork
<1>3. TypeOK /\ saver[c] = {} /\ count \in Nat
  BY <1>1, <1>2, AtWork DEF TaskInv
<1>4. /\ thread' = Dropped(c) /\ UNCHANGED <<saver, stale>> /\ Commit /\ Release(t)
      /\ UNCHANGED <<saved, server, bound, cleaner, count, promised, doubtful>>
  BY <1>2 DEF DropThread, Life, history
<1>5. /\ thread' \in [Threads -> Thread] /\ thread'[c] = NoThread
      /\ \A d \in Threads \ {c} : thread'[d] = thread[d]
      /\ RowInv(NoThread, saver[c], promised[c], doubtful[c], count)
  BY <1>3, <1>4, DropTyped
<1>6. Now(c)' /\ Later
  BY <1>3, <1>4, <1>5 DEF Now, Later
<1>7. DiskNow /\ disk' \in Images
  BY <1>3, <1>4, <1>5, Committed, DiskTyped DEF TypeOK
<1>8. TypeOK' /\ TaskInv(t)'
  BY <1>3, <1>4, <1>5, <1>7, Releasing DEF TypeOK
<1>9. \A d \in Threads \ {c} : Kept(d)
  BY <1>4, <1>5 DEF Kept
<1>10. QED BY <1>1, <1>2, <1>4, <1>6, <1>7, <1>8, <1>9, TaskStep

LEMMA FailDropKeeps ==
  ASSUME IInv, NEW t \in Tasks, FailDrop(t)
  PROVE  IInv'
<1>1. pc[t] = "drop" /\ pc[t] \in Working /\ Release(t) /\ UNCHANGED <<Life, cleaner, count>>
  BY DEF FailDrop, Working, history
<1>2. PICK c \in Threads : c = job[t].thread
  BY <1>1, AtWork
<1>3. TypeOK /\ saver[c] = {}
  BY <1>1, <1>2, AtWork DEF TaskInv
<1>4. /\ Settles(c) /\ promised' = promised /\ doubtful' = doubtful
      /\ promised' \in [Threads -> SUBSET Nat] /\ doubtful' \in [Threads -> SUBSET Nat]
  BY HistorySame DEF FailDrop
<1>5. PICK th : th = Dropped(c)
  OBVIOUS
<1>6. /\ th \in [Threads -> Thread] /\ th[c] = NoThread
      /\ \A d \in Threads \ {c} : th[d] = thread[d]
      /\ RowInv(NoThread, saver[c], promised[c], doubtful[c], count)
  BY <1>3, <1>5, DropTyped
<1>7. RowInv(th[c], saver[c], promised'[c], doubtful'[c], count)
  BY <1>4, <1>6
<1>8. Torn(th, saver, stale) /\ saver \in [Threads -> Checkpoints] /\ stale \in SUBSET Threads
  BY <1>2, <1>3, <1>5 DEF FailDrop, TypeOK
<1>9. QED BY <1>1, <1>2, <1>4, <1>6, <1>7, <1>8, TornStep

LEMMA FailTurnKeeps ==
  ASSUME IInv, NEW t \in Tasks, FailTurn(t)
  PROVE  IInv'
BY FailStartKeeps, FailRunKeeps, FailCommitKeeps, FailEraseKeeps, FailDropKeeps DEF FailTurn

-----------------------------------------------------------------------------
(* Steps outside the lock, and those that only take it. *)

(* No row is written; t is the only request that moves.                      *)
LEMMA QuietStep ==
  ASSUME IInv, NEW t \in Tasks, pc[t] \notin Working, TypeOK', TaskInv(t)',
         \A u \in Tasks : u # t => pc'[u] = pc[u] /\ job'[u] = job[u],
         \A u \in Tasks : pc[u] \in Working =>
           lock'[StripeOf[job[u].thread]] = lock[StripeOf[job[u].thread]],
         cleaner.thread # Null => lock'[StripeOf[cleaner.thread]] = Null,
         UNCHANGED <<store, disk, Life, cleaner, history>>
  PROVE  IInv'
<1>1. (\A d \in Threads : Kept(d)) /\ Later /\ DiskSame
  BY DEF Kept, Later, DiskSame, store, Life, history, IInv, TypeOK
<1>2. \A d \in Threads : ThreadInv(d)'
  BY <1>1, KeptThread DEF IInv
<1>3. ASSUME NEW u \in Tasks, u # t
      PROVE  TaskInv(u)'
  <2>1. pc[u] \in Working => job[u].thread \in Threads
    BY DEF IInv, TaskInv, Working
  <2>2. job[u].turn \in Nat
    BY DEF IInv, TypeOK, Job
  <2>3. QED BY <1>1, <1>3, <2>1, <2>2, KeptTask DEF IInv, Life
<1>4. CleanerInv'
  <2>1. cleaner.thread # Null => cleaner.thread \in Threads /\ cleaner.thread \in stale
    BY DEF IInv, TypeOK, CleanerInv
  <2>2. QED BY <1>1, <2>1, KeptCleaner DEF IInv, Life, store
<1>5. QED BY <1>2, <1>3, <1>4 DEF IInv

LEMMA ArriveKeeps ==
  ASSUME IInv, NEW t \in Tasks, NEW c \in Threads,
         NEW a \in {"append", "replace_last", "delete"}, Arrive(t, c, a)
  PROVE  IInv'
<1> DEFINE new == [NoJob EXCEPT !.thread = c, !.action = a]
<1>1. /\ pc[t] = "idle" /\ server = "serving" /\ Goto(t, "waiting", new)
      /\ UNCHANGED <<store, disk, Life, cleaner, history>>
  BY DEF Arrive
<1>2. new \in Job /\ new.thread = c /\ new.action = a
  BY DEF NoJob, Job
<1> HIDE DEF new
<1>3. TypeOK
  BY DEF IInv
<1>4. TypeOK'
  BY <1>1, <1>2, <1>3 DEF TypeOK, Goto, Life, history, store
<1>5. pc'[t] = "waiting" /\ job'[t] = new /\ lock' = lock /\ server' = "serving"
  BY <1>1, <1>3 DEF TypeOK, Goto, Life
<1>6. TaskInv(t)'
  BY <1>2, <1>5 DEF TaskInv, Working
<1>7. \A u \in Tasks : u # t => pc'[u] = pc[u] /\ job'[u] = job[u]
  BY <1>1, <1>3 DEF TypeOK, Goto
<1>8. cleaner.thread # Null => lock'[StripeOf[cleaner.thread]] = Null
  BY <1>5 DEF IInv, CleanerInv
<1>9. pc[t] \notin Working
  BY <1>1 DEF Working
<1>10. QED BY <1>1, <1>4, <1>5, <1>6, <1>7, <1>8, <1>9, QuietStep

LEMMA LockKeeps ==
  ASSUME IInv, NEW t \in Tasks, Lock(t)
  PROVE  IInv'
<1>1. /\ pc[t] = "waiting" /\ pc[t] \notin Working /\ Free(job[t].thread) /\ TypeOK /\ TaskInv(t)
      /\ UNCHANGED <<store, disk, Life, cleaner, history>>
  BY DEF Lock, Working, IInv
<1>2. PICK c \in Threads, j \in Job : c = job[t].thread /\ j = job[t]
  BY <1>1 DEF TaskInv, TypeOK
<1>3. /\ lock[StripeOf[c]] = Null /\ StripeOf[c] \in Stripes
      /\ cleaner.thread # Null => StripeOf[cleaner.thread] # StripeOf[c]
      /\ server = "serving" /\ j.action \in {"append", "replace_last", "delete"}
  BY <1>1, <1>2, StripeAssumption DEF Free, IInv, TaskInv, CleanerInv
<1>4. CASE (bound => saved[c] = "none") /\ Admitted(t)
  <2>1. /\ lock' = [lock EXCEPT ![StripeOf[c]] = t] /\ job' = job
        /\ pc' = [pc EXCEPT ![t] = IF j.action = "delete" THEN "erase" ELSE "start"]
    BY <1>2, <1>4 DEF Admitted
  <2>2. TypeOK'
    BY <1>1, <2>1 DEF TypeOK, Life, history, store
  <2>3. TaskInv(t)'
    BY <1>1, <1>2, <1>3, <1>4, <2>1 DEF TaskInv, Working, TypeOK, Life
  <2>4. \A u \in Tasks : u # t => pc'[u] = pc[u] /\ job'[u] = job[u]
    BY <1>1, <2>1 DEF TypeOK
  <2>5. ASSUME NEW u \in Tasks, pc[u] \in Working
        PROVE  lock'[StripeOf[job[u].thread]] = lock[StripeOf[job[u].thread]]
    <3>1. lock[StripeOf[job[u].thread]] = u /\ u # Null
      BY <2>5, NullAssumption DEF IInv, TaskInv
    <3>2. QED BY <1>1, <1>3, <2>1, <3>1 DEF TypeOK
  <2>6. cleaner.thread # Null => lock'[StripeOf[cleaner.thread]] = Null
    <3>1. cleaner.thread # Null =>
            StripeOf[cleaner.thread] \in Stripes /\ lock[StripeOf[cleaner.thread]] = Null
      BY <1>1, StripeAssumption DEF TypeOK, IInv, CleanerInv
    <3>2. QED BY <1>1, <1>3, <2>1, <3>1 DEF TypeOK
  <2>7. QED BY <1>1, <2>2, <2>3, <2>4, <2>5, <2>6, QuietStep
<1>5. CASE Rejected(t)
  <2>1. pc' = [pc EXCEPT ![t] = "idle"] /\ job' = [job EXCEPT ![t] = NoJob] /\ lock' = lock
    BY <1>5 DEF Rejected
  <2>2. TypeOK'
    BY <1>1, <2>1, NoJobTyped DEF TypeOK, Life, history, store
  <2>3. TaskInv(t)'
    BY <1>1, <2>1 DEF TaskInv, Working, TypeOK
  <2>4. \A u \in Tasks : u # t => pc'[u] = pc[u] /\ job'[u] = job[u]
    BY <1>1, <2>1 DEF TypeOK
  <2>5. cleaner.thread # Null => lock'[StripeOf[cleaner.thread]] = Null
    BY <2>1 DEF IInv, CleanerInv
  <2>6. QED BY <1>1, <2>1, <2>2, <2>3, <2>4, <2>5, QuietStep
<1>6. ((bound => saved[c] = "none") /\ Admitted(t)) \/ Rejected(t)
  BY <1>2 DEF Lock, StillLegacy, Owned
<1>7. QED BY <1>4, <1>5, <1>6

-----------------------------------------------------------------------------
(* Cleanup, saved conversations and the lifespan: no legacy request moves,   *)
(* and a thread that changes is locked by none.                              *)

LEMMA RowStep ==
  ASSUME IInv, UNCHANGED <<tasks, server, bound>>, Later, DiskSame \/ DiskNow,
         \A d \in Threads : Kept(d) \/ (lock[StripeOf[d]] = Null /\ ThreadInv(d)'),
         TypeOK', CleanerInv'
  PROVE  IInv'
<1>1. \A d \in Threads : ThreadInv(d)'
  BY KeptThread DEF IInv
<1>2. ASSUME NEW t \in Tasks
      PROVE  TaskInv(t)'
  <2>1. pc[t] \in Working => job[t].thread \in Threads /\ lock[StripeOf[job[t].thread]] = t
    BY DEF IInv, TaskInv, Working
  <2>2. pc[t] \in Working => Kept(job[t].thread)
    BY <2>1, NullAssumption
  <2>3. job[t].turn \in Nat
    BY DEF IInv, TypeOK, Job
  <2>4. QED BY <2>2, <2>3, KeptTask DEF IInv, tasks
<1>3. QED BY <1>1, <1>2 DEF IInv

(* The rows stay and the cleaner alone moves.                                *)
LEMMA CleanerStep ==
  ASSUME IInv, UNCHANGED <<store, disk, Life, tasks, history>>,
         cleaner' \in [at : {"idle", "next", "erase", "drop"}, todo : SUBSET Threads,
                       thread : Threads \cup {Null}],
         cleaner'.thread # Null <=> cleaner'.at \in {"erase", "drop"}, cleaner'.at # "drop",
         cleaner'.thread # Null =>
           /\ lock[StripeOf[cleaner'.thread]] = Null /\ cleaner'.thread \in stale
           /\ bound => saved[cleaner'.thread] = "none"
  PROVE  IInv'
<1>1. (\A d \in Threads : Kept(d)) /\ Later /\ DiskSame /\ UNCHANGED <<tasks, server, bound>>
  BY DEF Kept, Later, DiskSame, store, Life, history, IInv, TypeOK
<1>2. CleanerInv'
  BY DEF CleanerInv, IInv, Life, tasks, store
<1>3. TypeOK'
  BY DEF TypeOK, IInv, Life, tasks, store, history
<1>4. QED BY <1>1, <1>2, <1>3, RowStep

(* The cleaner writes to its thread.                                         *)
LEMMA CleanerWrites ==
  ASSUME IInv, NEW c \in Threads, c = cleaner.thread, UNCHANGED <<Life, tasks, count>>,
         \A d \in Threads \ {c} :
           /\ thread'[d] = thread[d] /\ saver'[d] = saver[d]
           /\ promised'[d] = promised[d] /\ doubtful'[d] = doubtful[d],
         thread' \in [Threads -> Thread], saver' \in [Threads -> Checkpoints],
         stale' \subseteq Threads, disk' \in Images, stale \ {c} \subseteq stale',
         promised' \in [Threads -> SUBSET Nat], doubtful' \in [Threads -> SUBSET Nat],
         Now(c)', (DiskSame /\ Settles(c)) \/ DiskNow,
         \/ /\ cleaner' = [cleaner EXCEPT !.at = "drop"] /\ saver'[c] = {} /\ stale' = stale
         \/ cleaner' \in {NextThread, NoCleanup}
  PROVE  IInv'
<1>1. /\ TypeOK /\ CleanerInv /\ Later /\ UNCHANGED <<tasks, server, bound, saved, count>>
      /\ lock[StripeOf[c]] = Null /\ c \in stale /\ (bound => saved[c] = "none")
  BY NullAssumption DEF IInv, TypeOK, Later, Life, CleanerInv
<1>2. ThreadInv(c)'
  BY <1>1, WrittenThread DEF IInv
<1>3. \A d \in Threads \ {c} : Kept(d)
  BY <1>1 DEF Kept
<1>4. CASE cleaner' = [cleaner EXCEPT !.at = "drop"] /\ saver'[c] = {} /\ stale' = stale
  <2>1. /\ cleaner'.thread = c /\ cleaner'.at = "drop"
        /\ cleaner' \in [at : {"idle", "next", "erase", "drop"}, todo : SUBSET Threads,
                         thread : Threads \cup {Null}]
    BY <1>1, <1>4 DEF TypeOK
  <2>2. CleanerInv'
    BY <1>1, <1>4, <2>1, NullAssumption DEF CleanerInv, tasks
  <2>3. TypeOK'
    BY <1>1, <2>1 DEF TypeOK, tasks
  <2>4. QED BY <1>1, <1>2, <1>3, <2>2, <2>3, RowStep
<1>5. CASE cleaner' \in {NextThread, NoCleanup}
  <2>1. /\ cleaner'.thread = Null /\ cleaner'.at \in {"next", "idle"}
        /\ cleaner' \in [at : {"idle", "next", "erase", "drop"}, todo : SUBSET Threads,
                         thread : Threads \cup {Null}]
    <3>1. CASE cleaner' = NoCleanup
      BY <3>1 DEF NoCleanup
    <3>2. CASE cleaner' = NextThread
      BY <1>1, <3>2 DEF NextThread, TypeOK
    <3>3. QED BY <1>5, <3>1, <3>2
  <2>2. CleanerInv'
    BY <2>1 DEF CleanerInv
  <2>3. TypeOK'
    BY <1>1, <2>1 DEF TypeOK, tasks
  <2>4. QED BY <1>1, <1>2, <1>3, <2>2, <2>3, RowStep
<1>6. QED BY <1>4, <1>5

LEMMA CleanEraseKeeps ==
  ASSUME IInv, CleanErase \/ FailCleanErase
  PROVE  IInv'
<1>1. TypeOK /\ CleanerInv /\ cleaner.at = "erase"
  BY DEF IInv, CleanErase, FailCleanErase
<1>2. PICK c \in Threads : c = cleaner.thread
  BY <1>1 DEF CleanerInv, TypeOK
<1>3. /\ Erased(c) \in [Threads -> Checkpoints] /\ Erased(c)[c] = {}
      /\ \A d \in Threads \ {c} : Erased(c)[d] = saver[d]
      /\ \A E : RowInv(thread[c], {}, {}, E, count)
  BY EraseTyped
<1>4. CASE CleanErase
  <2>1. /\ saver' = Erased(c) /\ UNCHANGED <<thread, stale>> /\ Commit /\ Forgotten(c)
        /\ cleaner' = [cleaner EXCEPT !.at = "drop"] /\ UNCHANGED <<Life, tasks, count>>
    BY <1>2, <1>4 DEF CleanErase
  <2>2. /\ promised'[c] = {} /\ doubtful'[c] = {}
        /\ promised' \in [Threads -> SUBSET Nat] /\ doubtful' \in [Threads -> SUBSET Nat]
        /\ \A d \in Threads \ {c} : promised'[d] = promised[d] /\ doubtful'[d] = doubtful[d]
    BY <1>1, <2>1, Forgetting
  <2>3. Now(c)'
    BY <1>3, <2>1, <2>2 DEF Now
  <2>4. DiskNow /\ disk' \in Images
    BY <1>1, <1>3, <2>1, Committed, DiskTyped DEF TypeOK
  <2>5. thread' = thread /\ stale' = stale /\ saver'[c] = {} /\ saver' \in [Threads -> Checkpoints]
        /\ (\A d \in Threads \ {c} : saver'[d] = saver[d])
        /\ thread' \in [Threads -> Thread] /\ stale' \subseteq Threads
    BY <1>1, <1>3, <2>1 DEF TypeOK
  <2>6. QED BY <1>2, <2>1, <2>2, <2>3, <2>4, <2>5, CleanerWrites
<1>5. CASE FailCleanErase
  <2>1. /\ Torn(thread, Erased(c), stale) /\ Doubt(c, promised[c])
        /\ cleaner' \in {NextThread, NoCleanup} /\ UNCHANGED <<Life, tasks, count>>
    BY <1>2, <1>5 DEF FailCleanErase
  <2>2. promised[c] \in SUBSET Nat
    BY <1>1 DEF TypeOK
  <2>3. /\ promised'[c] = {} /\ Settles(c)
        /\ promised' \in [Threads -> SUBSET Nat] /\ doubtful' \in [Threads -> SUBSET Nat]
        /\ \A d \in Threads \ {c} : promised'[d] = promised[d] /\ doubtful'[d] = doubtful[d]
    BY <1>1, <2>1, <2>2, Doubted
  <2>4. Later /\ UNCHANGED count
    BY <1>1, <2>1 DEF Later, TypeOK
  <2>5. PICK sv : sv = Erased(c)
    OBVIOUS
  <2>6. /\ sv \in [Threads -> Checkpoints] /\ \A d \in Threads \ {c} : sv[d] = saver[d]
        /\ RowInv(thread[c], sv[c], promised'[c], doubtful'[c], count)
        /\ Torn(thread, sv, stale)
    BY <1>3, <2>1, <2>3, <2>5
  <2>7. thread \in [Threads -> Thread] /\ stale \in SUBSET Threads
    BY <1>1 DEF TypeOK
  <2>8. /\ Now(c)' /\ ((DiskSame /\ Settles(c)) \/ DiskNow)
        /\ thread' \in [Threads -> Thread] /\ saver' \in [Threads -> Checkpoints]
        /\ stale' \subseteq Threads /\ disk' \in Images /\ stale \ {c} \subseteq stale'
        /\ \A d \in Threads \ {c} : thread'[d] = thread[d] /\ saver'[d] = saver[d]
    BY <2>3, <2>4, <2>6, <2>7, TornThread
  <2>9. QED BY <1>2, <2>1, <2>3, <2>8, CleanerWrites
<1>6. QED BY <1>4, <1>5

LEMMA CleanDropKeeps ==
  ASSUME IInv, CleanDrop \/ FailCleanDrop
  PROVE  IInv'
<1>1. TypeOK /\ CleanerInv /\ cleaner.at = "drop"
  BY DEF IInv, CleanDrop, FailCleanDrop
<1>2. PICK c \in Threads : c = cleaner.thread
  BY <1>1 DEF CleanerInv, TypeOK
<1>3. saver[c] = {}
  BY <1>1, <1>2 DEF CleanerInv
<1>4. UNCHANGED history /\ UNCHANGED <<Life, tasks, count>>
  BY DEF CleanDrop, FailCleanDrop, history
<1>5. /\ Settles(c) /\ Later /\ promised' = promised /\ doubtful' = doubtful
      /\ promised' \in [Threads -> SUBSET Nat] /\ doubtful' \in [Threads -> SUBSET Nat]
  BY <1>4, HistorySame
<1>6. PICK th : th = Dropped(c)
  OBVIOUS
<1>7. /\ th \in [Threads -> Thread]
      /\ \A d \in Threads \ {c} : th[d] = thread[d] /\ saver[d] = saver[d]
      /\ RowInv(th[c], saver[c], promised'[c], doubtful'[c], count)
  BY <1>3, <1>5, <1>6, DropTyped
<1>8. Torn(th, saver, stale) /\ cleaner' \in {NextThread, NoCleanup}
  BY <1>2, <1>6 DEF CleanDrop, FailCleanDrop, Torn
<1>9. saver \in [Threads -> Checkpoints] /\ stale \in SUBSET Threads
  BY <1>1 DEF TypeOK
<1>10. /\ Now(c)' /\ ((DiskSame /\ Settles(c)) \/ DiskNow)
       /\ thread' \in [Threads -> Thread] /\ saver' \in [Threads -> Checkpoints]
       /\ stale' \subseteq Threads /\ disk' \in Images /\ stale \ {c} \subseteq stale'
       /\ \A d \in Threads \ {c} : thread'[d] = thread[d] /\ saver'[d] = saver[d]
  BY <1>4, <1>5, <1>7, <1>8, <1>9, TornThread
<1>11. QED BY <1>2, <1>4, <1>5, <1>8, <1>10, CleanerWrites

LEMMA CleanupKeeps ==
  ASSUME IInv, Cleanup
  PROVE  IInv'
<1>1. TypeOK /\ CleanerInv
  BY DEF IInv
<1>2. CASE StartCleanup
  <2>1. /\ cleaner'.thread = Null /\ cleaner'.at = "next"
        /\ cleaner' \in [at : {"idle", "next", "erase", "drop"}, todo : SUBSET Threads,
                         thread : Threads \cup {Null}]
    BY <1>1, <1>2 DEF StartCleanup, NoCleanup, TypeOK
  <2>2. QED BY <1>2, <2>1, CleanerStep DEF StartCleanup
<1>3. CASE CleanDone
  <2>1. /\ cleaner'.thread = Null /\ cleaner'.at = "idle"
        /\ cleaner' \in [at : {"idle", "next", "erase", "drop"}, todo : SUBSET Threads,
                         thread : Threads \cup {Null}]
    BY <1>3 DEF CleanDone, NoCleanup
  <2>2. QED BY <1>3, <2>1, CleanerStep DEF CleanDone
<1>4. ASSUME NEW c \in Threads, CleanNext(c)
      PROVE  IInv'
  <2>1. /\ cleaner.at = "next" /\ lock[StripeOf[c]] = Null /\ cleaner.thread = Null
        /\ UNCHANGED <<store, disk, Life, tasks, history>>
    BY <1>1, <1>4 DEF CleanNext, Free, CleanerInv
  <2>2. CASE /\ cleaner' = [at |-> "erase", todo |-> cleaner.todo \ {c}, thread |-> c]
             /\ ~Owned(c) /\ Expired(c)
    <3>1. /\ cleaner'.thread = c /\ cleaner'.at = "erase" /\ c # Null /\ c \in stale
          /\ cleaner' \in [at : {"idle", "next", "erase", "drop"}, todo : SUBSET Threads,
                           thread : Threads \cup {Null}]
      BY <1>1, <2>2, NullAssumption DEF Expired, TypeOK
    <3>2. bound => saved[c] = "none"
      BY <2>2 DEF Owned
    <3>3. QED BY <2>1, <3>1, <3>2, CleanerStep
  <2>3. CASE cleaner' = [cleaner EXCEPT !.todo = @ \ {c}]
    <3>1. /\ cleaner'.thread = Null /\ cleaner'.at = "next"
          /\ cleaner' \in [at : {"idle", "next", "erase", "drop"}, todo : SUBSET Threads,
                           thread : Threads \cup {Null}]
      BY <1>1, <2>1, <2>3 DEF TypeOK
    <3>2. QED BY <2>1, <3>1, CleanerStep
  <2>4. QED BY <1>4, <2>2, <2>3 DEF CleanNext
<1>5. QED BY <1>2, <1>3, <1>4, CleanEraseKeeps, CleanDropKeeps DEF Cleanup

LEMMA AgeKeeps ==
  ASSUME IInv, NEW c \in Threads, Age(c)
  PROVE  IInv'
<1>1. /\ TypeOK /\ CleanerInv /\ cleaner = NoCleanup /\ stale' = stale \cup {c}
      /\ disk' = [disk EXCEPT !.stale = @ \cup {c}]
      /\ UNCHANGED <<thread, saver, Life, tasks, cleaner, history>>
  BY DEF Age, IInv
<1>2. disk' \in Images /\ DiskSame
  BY <1>1 DEF TypeOK, Images, DiskSame
<1>3. TypeOK'
  BY <1>1, <1>2 DEF TypeOK, Life, tasks, history
<1>4. (\A d \in Threads : Kept(d)) /\ Later /\ UNCHANGED <<tasks, server, bound>>
  BY <1>1 DEF Kept, Later, Life, history, TypeOK
<1>5. CleanerInv'
  BY <1>1 DEF CleanerInv, NoCleanup, Life, tasks
<1>6. QED BY <1>2, <1>3, <1>4, <1>5, RowStep

(* A step on a thread that is free, while the API serves.                    *)
LEMMA FreeStep ==
  ASSUME IInv, NEW c \in Threads, Free(c), UNCHANGED <<server, bound, tasks, cleaner>>,
         Later, \A d \in Threads \ {c} : Kept(d), stale \ {c} \subseteq stale',
         DiskNow, TypeOK', Now(c)'
  PROVE  IInv'
<1>1. lock[StripeOf[c]] = Null
  BY DEF Free
<1>2. CleanerInv'
  <2>1. cleaner.thread # Null =>
          /\ cleaner.thread \in Threads /\ cleaner.thread # c /\ cleaner.thread \in stale
          /\ lock[StripeOf[cleaner.thread]] = Null
    BY DEF Free, IInv, CleanerInv, TypeOK
  <2>2. cleaner.thread # Null => Kept(cleaner.thread) /\ cleaner.thread \in stale'
    BY <2>1
  <2>3. QED BY <2>1, <2>2, KeptCleaner DEF IInv, tasks
<1>3. ThreadInv(c)'
  BY WrittenThread DEF IInv
<1>4. QED BY <1>1, <1>2, <1>3, RowStep

LEMMA CreateSavedKeeps ==
  ASSUME IInv, NEW c \in Threads, CreateSaved(c)
  PROVE  IInv'
<1>1. PICK R : R = Remembered(c, thread[c].active)
  OBVIOUS
<1>2. /\ TypeOK /\ Now(c) /\ count \in Nat
      /\ saved' = [saved EXCEPT ![c] = "live"]
      /\ promised' = [promised EXCEPT ![c] = R] /\ doubtful' = [doubtful EXCEPT ![c] = {}]
      /\ Free(c) /\ NothingOpen
      /\ UNCHANGED <<store, disk, server, bound, tasks, cleaner, count>>
  BY <1>1 DEF CreateSaved, SavedReady, IInv, ThreadInv, TypeOK
<1>3. UNCHANGED <<thread, saver, stale, disk>> /\ DiskNow
  BY <1>2 DEF NothingOpen, Image, store, DiskNow
<1>4. \A m \in R : m \in Nat
  BY <1>1, <1>2 DEF Now, RowInv, Remembered
<1>5. /\ promised'[c] = R /\ doubtful'[c] = {}
      /\ promised' \in [Threads -> SUBSET Nat] /\ doubtful' \in [Threads -> SUBSET Nat]
  BY <1>2, <1>4 DEF TypeOK
<1>6. RowInv(thread[c], saver[c], R, {}, count)
  BY <1>1, <1>2 DEF Now, RowInv, Remembered
<1>7. Now(c)' /\ Later
  BY <1>2, <1>3, <1>5, <1>6 DEF Now, Later
<1>8. TypeOK'
  BY <1>2, <1>3, <1>5 DEF TypeOK, tasks
<1>9. \A d \in Threads \ {c} : Kept(d)
  BY <1>2, <1>3 DEF TypeOK, Kept
<1>10. stale \ {c} \subseteq stale'
  BY <1>3
<1>11. QED BY <1>2, <1>3, <1>7, <1>8, <1>9, <1>10, FreeStep

LEMMA DeleteSavedKeeps ==
  ASSUME IInv, NEW c \in Threads, DeleteSaved(c)
  PROVE  IInv'
<1>1. /\ TypeOK /\ Free(c) /\ count \in Nat
      /\ saved' = [saved EXCEPT ![c] = "deleted"]
      /\ saver' = Erased(c) /\ thread' = Dropped(c) /\ stale' = stale /\ Commit /\ Forgotten(c)
      /\ UNCHANGED <<server, bound, tasks, cleaner, count>>
  BY DEF DeleteSaved, SavedReady, IInv, TypeOK
<1>2. /\ promised'[c] = {} /\ doubtful'[c] = {}
      /\ promised' \in [Threads -> SUBSET Nat] /\ doubtful' \in [Threads -> SUBSET Nat]
      /\ \A d \in Threads \ {c} : promised'[d] = promised[d] /\ doubtful'[d] = doubtful[d]
  BY <1>1, Forgetting
<1>3. /\ saver' \in [Threads -> Checkpoints] /\ saver'[c] = {}
      /\ \A d \in Threads \ {c} : saver'[d] = saver[d]
  BY <1>1, EraseTyped
<1>4. NoThread \in Thread
  BY DEF NoThread, Thread
<1>5. /\ thread' \in [Threads -> Thread] /\ thread'[c] = NoThread
      /\ \A d \in Threads \ {c} : thread'[d] = thread[d]
  BY <1>1, <1>4 DEF Dropped, TypeOK
<1>6. Now(c)' /\ Later
  <2>1. RowInv(NoThread, {}, {}, {}, count)
    BY <1>1, RowDropped
  <2>2. QED BY <1>1, <1>2, <1>3, <1>5, <2>1 DEF Now, Later
<1>7. DiskNow /\ disk' \in Images
  BY <1>1, <1>3, <1>5, Committed, DiskTyped DEF TypeOK
<1>8. TypeOK'
  BY <1>1, <1>2, <1>3, <1>5, <1>7 DEF TypeOK, tasks
<1>9. \A d \in Threads \ {c} : Kept(d)
  BY <1>1, <1>2, <1>3, <1>5 DEF TypeOK, Kept
<1>10. stale \ {c} \subseteq stale'
  BY <1>1
<1>11. QED BY <1>1, <1>6, <1>7, <1>8, <1>9, <1>10, FreeStep

(* What a saved turn starts from.                                            *)
LEMMA SavedFrom ==
  ASSUME IInv, NEW c \in Threads, NEW from,
         from = IF thread[c].exists THEN thread[c].active ELSE 0
  PROVE  /\ from \in 0..count
         /\ promised[c] \subseteq Remembered(c, from)
         /\ Remembered(c, from) \subseteq promised[c] \cup doubtful[c]
         /\ \A m \in Remembered(c, from) : m \in 0..count
<1>1. TypeOK /\ Now(c) /\ count \in Nat
  BY DEF IInv, ThreadInv, TypeOK
<1>2. CASE thread[c].exists
  <2>1. from = thread[c].active /\ from \in Nat /\ from # Null
    BY <1>1, <1>2, NullAssumption DEF Now, RowInv
  <2>2. QED BY <1>1, <2>1 DEF Now, RowInv, Remembered
<1>3. CASE ~thread[c].exists
  <2>1. promised[c] = {}
    BY <1>1, <1>3, NothingPromised DEF Now, TypeOK
  <2>2. \A k \in {h \in saver[c] : h.id = 0} : k.turns = {}
    BY <1>1 DEF Now, RowInv, HeldInv
  <2>3. Remembered(c, 0) = {}
    BY <2>2 DEF Remembered, InCheckpoint
  <2>4. QED BY <1>1, <1>3, <2>1, <2>3
<1>4. QED BY <1>2, <1>3

LEMMA SavedTurnKeeps ==
  ASSUME IInv, NEW c \in Threads, SavedTurn(c)
  PROVE  IInv'
<1>1. PICK from, n : /\ from = IF thread[c].exists THEN thread[c].active ELSE 0
                     /\ n = count + 1
  OBVIOUS
<1>2. PICK S : S = Remembered(c, from)
  OBVIOUS
<1>3. /\ TypeOK /\ Now(c) /\ Free(c) /\ count \in Nat /\ n \in Nat /\ n \in 1..n
      /\ count < n /\ from \in 0..count /\ from \in 0..n
      /\ promised[c] \subseteq S /\ S \subseteq promised[c] \cup doubtful[c]
      /\ \A m \in S : m \in 0..n /\ m < n /\ m \in Nat
  <2>1. TypeOK /\ Now(c) /\ Free(c) /\ count \in Nat
    BY DEF SavedTurn, SavedReady, IInv, ThreadInv, TypeOK
  <2>2. /\ from \in 0..count /\ promised[c] \subseteq S
        /\ S \subseteq promised[c] \cup doubtful[c] /\ \A m \in S : m \in 0..count
    BY <1>1, <1>2, SavedFrom
  <2>3. QED BY <1>1, <2>1, <2>2
<1>4. PICK added : added = [id |-> n, turns |-> S \cup {n}]
  OBVIOUS
<1>5. PICK row : row = [exists |-> TRUE, active |-> n, previous |-> from,
                        completed |-> thread[c].completed + 1]
  OBVIOUS
<1>6. /\ saver' = [saver EXCEPT ![c] = saver[c] \cup {added}]
      /\ thread' = [thread EXCEPT ![c] = row]
      /\ promised' = [promised EXCEPT ![c] = promised[c] \cup {n}] /\ doubtful' = doubtful
      /\ stale' = stale \ {c} /\ Commit /\ count' = n
      /\ UNCHANGED <<saved, server, bound, tasks, cleaner>>
  BY <1>1, <1>2, <1>4, <1>5 DEF SavedTurn, Stored, Life
<1>7. /\ added.id = n /\ added.turns = S \cup {n}
      /\ added \in [id : Nat, turns : SUBSET Nat]
  BY <1>3, <1>4
<1>8. row \in Thread /\ row.exists /\ row.active = n /\ row.previous = from
  <2>1. thread[c].completed + 1 \in Nat
    BY <1>3 DEF TypeOK, Thread
  <2>2. QED BY <1>3, <1>5, <2>1 DEF Thread
<1>9. /\ saver'[c] = saver[c] \cup {added} /\ saver[c] \in Checkpoints
      /\ thread'[c] = row /\ promised'[c] = promised[c] \cup {n}
      /\ thread' \in [Threads -> Thread] /\ promised' \in [Threads -> SUBSET Nat]
      /\ \A d \in Threads \ {c} : thread'[d] = thread[d] /\ saver'[d] = saver[d]
                                  /\ promised'[d] = promised[d]
  BY <1>3, <1>6, <1>8 DEF TypeOK
<1>10. saver' \in [Threads -> Checkpoints]
  BY <1>3, <1>6, <1>7, <1>9 DEF TypeOK, Checkpoints
<1>11. \A k \in saver[c] : k.id \in 0..count /\ k.id # n /\ (k.id = 0 => k.turns = {})
  BY <1>3 DEF Now, RowInv, HeldInv
<1>12. /\ InCheckpoint(saver'[c], from) = S /\ InCheckpoint(saver'[c], n) = S \cup {n}
       /\ HeldInv(saver'[c], n)
  <2>1. from # n
    BY <1>3
  <2>3. /\ InCheckpoint(saver'[c], from) = InCheckpoint(saver[c], from)
        /\ InCheckpoint(saver'[c], added.id) = added.turns
    <3>1. PICK held, new : held = saver[c] /\ new = saver'[c]
      OBVIOUS
    <3>2. new = held \cup {added} /\ \A k \in held : k.id # added.id
      BY <1>7, <1>9, <1>11, <3>1
    <3>3. /\ \A m : m # added.id => InCheckpoint(new, m) = InCheckpoint(held, m)
          /\ InCheckpoint(new, added.id) = added.turns
      BY <3>2, RememberedStored
    <3>4. QED BY <1>7, <2>1, <3>1, <3>3, Zenon
  <2>4. HeldInv(saver'[c], n)
    BY <1>3, <1>7, <1>9, <1>11 DEF HeldInv
  <2>5. QED BY <1>2, <1>7, <2>3, <2>4 DEF Remembered
<1>13. Now(c)' /\ Later
  <2>1. /\ promised'[c] \subseteq S \cup {n}
        /\ S \cup {n} \subseteq promised'[c] \cup doubtful[c]
    BY <1>3, <1>9
  <2>2. \A m \in S : m \in 0..n /\ m < n
    BY <1>3
  <2>3. PICK held, Q, E : held = saver'[c] /\ Q = promised'[c] /\ E = doubtful[c]
    OBVIOUS
  <2>4. RowInv(row, held, Q, E, n)
    <3>1. /\ row.previous # Null => row.previous \in 0..n
          /\ HeldInv(held, n) /\ InCheckpoint(held, row.previous) = S
          /\ InCheckpoint(held, n) = S \cup {n} /\ n \in 1..n
      BY <1>3, <1>8, <1>12, <2>3
    <3>2. Q \subseteq S \cup {n} /\ S \cup {n} \subseteq Q \cup E
      BY <2>1, <2>3
    <3>3. n \in Nat /\ row.exists /\ row.active = n
      BY <1>3, <1>8
    <3>4. QED BY <2>2, <3>1, <3>2, <3>3, RowTurned
  <2>5. thread'[c] = row /\ saver'[c] = held /\ promised'[c] = Q /\ doubtful'[c] = E
        /\ count' = n
    BY <1>6, <1>9, <2>3
  <2>6. Now(c)'
    BY <2>4, <2>5, Zenon DEF Now
  <2>7. Later
    BY <1>3, <1>6 DEF Later
  <2>8. QED BY <2>6, <2>7
<1>14. DiskNow /\ disk' \in Images
  BY <1>3, <1>6, <1>9, <1>10, Committed, DiskTyped DEF TypeOK
<1>15. TypeOK'
  BY <1>3, <1>6, <1>9, <1>10, <1>14 DEF TypeOK, tasks
<1>16. \A d \in Threads \ {c} : Kept(d)
  BY <1>6, <1>9 DEF Kept
<1>17. stale \ {c} \subseteq stale'
  BY <1>6
<1>18. QED BY <1>3, <1>6, <1>13, <1>14, <1>15, <1>16, <1>17, FreeStep

(* Start-up and shutdown find no request; a stop drops the lock and the job, *)
(* and what is not committed.                                                *)
LEMMA Resting ==
  ASSUME IInv, server # "serving", NEW t \in Tasks
  PROVE  pc[t] = "idle"
BY DEF IInv, TaskInv

LEMMA LifespanKeeps ==
  ASSUME IInv, Setup \/ Bind \/ Stop
  PROVE  IInv'
<1>1. TypeOK /\ CleanerInv /\ count \in Nat
  BY DEF IInv, TypeOK
<1>2. \A t \in Tasks : pc'[t] = "idle"
  <2>1. CASE Setup \/ Bind
    <3>1. \A t \in Tasks : pc[t] = "idle"
      BY <2>1, Resting DEF Setup, Bind
    <3>2. QED BY <2>1, <3>1 DEF Setup, Bind, tasks
  <2>2. CASE Stop
    BY <2>2 DEF Stop
  <2>3. QED BY <2>1, <2>2
<1>3. \A t \in Tasks : TaskInv(t)'
  BY <1>2 DEF TaskInv, Working
<1>4. ASSUME NEW d \in Threads PROVE ThreadInv(d)'
  <2>1. CASE Setup \/ Bind
    <3>1. Kept(d) /\ Later /\ DiskSame
      BY <1>1, <2>1 DEF Setup, Bind, Kept, Later, DiskSame, store, history
    <3>2. QED BY <3>1, KeptThread DEF IInv
  <2>2. CASE Stop
    <3>1. /\ thread' = disk.thread /\ saver' = disk.saver /\ disk' = disk
          /\ UNCHANGED <<count, promised, doubtful>>
      BY <2>2 DEF Stop, history
    <3>2. Safe(d)
      BY DEF IInv, ThreadInv
    <3>3. QED BY <3>1, <3>2 DEF Safe, Now, ThreadInv
  <2>3. QED BY <2>1, <2>2
<1>5. TypeOK' /\ CleanerInv'
  <2>1. CASE Setup
    BY <1>1, <2>1 DEF Setup, TypeOK, CleanerInv, NoCleanup, store, tasks, history
  <2>2. CASE Bind
    BY <1>1, <2>2 DEF Bind, TypeOK, CleanerInv, NoCleanup, store, tasks, history
  <2>3. CASE Stop
    <3>1. CleanerInv'
      BY <2>3 DEF Stop, CleanerInv, NoCleanup
    <3>2. thread' \in [Threads -> Thread] /\ saver' \in [Threads -> Checkpoints]
          /\ stale' \subseteq Threads /\ disk' \in Images
      BY <1>1, <2>3 DEF Stop, TypeOK, Images
    <3>3. QED BY <1>1, <2>3, <3>1, <3>2, NoJobTyped DEF Stop, TypeOK, NoCleanup, history
  <2>4. QED BY <2>1, <2>2, <2>3
<1>6. QED BY <1>3, <1>4, <1>5 DEF IInv

-----------------------------------------------------------------------------
(* The invariant. *)

LEMMA InitHolds == Init => IInv
<1> SUFFICES ASSUME Init PROVE IInv
  OBVIOUS
<1>1. NoThread \in Thread /\ {} \in Checkpoints
  BY DEF NoThread, Thread, Checkpoints
<1>2. TypeOK
  <2>1. disk \in Images
    BY <1>1 DEF Init, Image, Images
  <2>2. QED BY <1>1, <2>1, NoJobTyped DEF Init, TypeOK, NoCleanup
<1>3. ASSUME NEW c \in Threads PROVE ThreadInv(c)
  <2>1. /\ thread[c] = NoThread /\ saver[c] = {} /\ promised[c] = {} /\ doubtful[c] = {}
        /\ disk.thread[c] = NoThread /\ disk.saver[c] = {} /\ count = 0
    BY DEF Init, Image
  <2>2. RowInv(NoThread, {}, {}, {}, 0)
    BY RowDropped
  <2>3. QED BY <2>1, <2>2 DEF ThreadInv, Now, Safe
<1>4. \A t \in Tasks : TaskInv(t)
  BY DEF Init, TaskInv, Working
<1>5. CleanerInv
  BY DEF Init, CleanerInv, NoCleanup
<1>6. QED BY <1>2, <1>3, <1>4, <1>5 DEF IInv

LEMMA StutterKeeps ==
  ASSUME IInv, UNCHANGED vars
  PROVE  IInv'
<1>1. UNCHANGED tasks /\ server' = server /\ bound' = bound /\ Later /\ DiskSame
  BY DEF vars, tasks, IInv, TypeOK, Later, DiskSame
<1>2. \A d \in Threads : Kept(d)
  BY DEF vars, Kept
<1>3. TypeOK' /\ CleanerInv'
  BY DEF vars, IInv, TypeOK, CleanerInv
<1>4. QED BY <1>1, <1>2, <1>3, RowStep

LEMMA StepHolds == IInv /\ [Next]_vars => IInv'
<1> SUFFICES ASSUME IInv, [Next]_vars PROVE IInv'
  OBVIOUS
<1>1. ASSUME NEW t \in Tasks, Request(t) PROVE IInv'
  BY <1>1, LockKeeps, StartTurnKeeps, RunTurnKeeps, CommitTurnKeeps,
     EraseThreadKeeps, DropThreadKeeps, FailTurnKeeps, ArriveKeeps DEF Request
<1>2. ASSUME NEW c \in Threads, Age(c) \/ CreateSaved(c) \/ SavedTurn(c) \/ DeleteSaved(c)
      PROVE IInv'
  BY <1>2, AgeKeeps, CreateSavedKeeps, SavedTurnKeeps, DeleteSavedKeeps
<1>3. CASE Cleanup
  BY <1>3, CleanupKeeps
<1>4. CASE Setup \/ Bind \/ Stop
  BY <1>4, LifespanKeeps
<1>5. CASE UNCHANGED vars
  BY <1>5, StutterKeeps
<1>6. QED BY <1>1, <1>2, <1>3, <1>4, <1>5 DEF Next

(* The inductive invariant holds in every reachable state.                   *)
THEOREM MemoryHeld == Spec => []IInv
<1>1. QED BY InitHolds, StepHolds, PTL DEF Spec

(* Every turn reported successful is in the context of the next one, now and *)
(* after a restart (_commit_turn never misses, and a cancelled statement     *)
(* that still runs adds or removes only turns nobody was told of), and the   *)
(* rows and checkpoints are well formed.                                     *)
THEOREM TurnsRemembered == Spec => []MemoryInvariant
<1>1. IInv => MemoryInvariant
  <2> SUFFICES ASSUME IInv PROVE MemoryInvariant
    OBVIOUS
  <2>1. ASSUME NEW c \in Threads
        PROVE  TurnsIn(thread[c], saver[c], c) /\ TurnsIn(disk.thread[c], disk.saver[c], c)
    BY DEF IInv, ThreadInv, Now, Safe, RowInv, TurnsIn
  <2>2. QED BY <2>1 DEF IInv, MemoryInvariant, SuccessfulTurnsRemembered
<1>2. QED BY <1>1, MemoryHeld, PTL

-----------------------------------------------------------------------------
(* Neither cleanup nor a legacy request touches a thread it should spare. *)

Sparing ==
  /\ cleaner'.thread # Null => cleaner'.thread \in stale'
  /\ bound /\ bound' /\ (tasks' # tasks \/ cleaner' # cleaner) =>
       \A c \in Threads : saved[c] # "none" =>
         thread'[c] = thread[c] /\ saver'[c] = saver[c]

(* A step that writes to one thread, cut short or not, spares the others.    *)
OnlyAt(th, sv, d) == th[d] = thread[d] /\ sv[d] = saver[d]

LEMMA TornSpares ==
  ASSUME NEW d, NEW th, NEW sv, NEW st, Torn(th, sv, st), OnlyAt(th, sv, d)
  PROVE  thread'[d] = thread[d] /\ saver'[d] = saver[d]
BY DEF Torn, OnlyAt, store

LEMMA Elsewhere ==
  ASSUME TypeOK, NEW c \in Threads, NEW d \in Threads \ {c}
  PROVE  /\ \A S : [saver EXCEPT ![c] = S][d] = saver[d]
         /\ \A r : [thread EXCEPT ![c] = r][d] = thread[d]
BY DEF TypeOK

(* A request at work has no owned thread to write to.                        *)
LEMMA RequestSpares ==
  ASSUME IInv, NEW t \in Tasks, Request(t), bound, NEW d \in Threads, saved[d] # "none"
  PROVE  thread'[d] = thread[d] /\ saver'[d] = saver[d]
<1>1. CASE Lock(t) \/ \E c \in Threads, a \in {"append", "replace_last", "delete"} : Arrive(t, c, a)
  BY <1>1 DEF Lock, Arrive, store
<1>2. CASE /\ ~Lock(t)
           /\ ~\E c \in Threads, a \in {"append", "replace_last", "delete"} : Arrive(t, c, a)
  <2>1. pc[t] \in Working
    BY <1>2 DEF Request, StartTurn, RunTurn, CommitTurn, EraseThread, DropThread, FailTurn,
                FailStart, FailRun, FailCommit, FailErase, FailDrop, Working
  <2>2. PICK c \in Threads : c = job[t].thread
    BY <2>1, AtWork
  <2>3. d \in Threads \ {c} /\ TypeOK
    BY <2>1, <2>2 DEF IInv, TaskInv
  <2>4. /\ \A S : [saver EXCEPT ![c] = S][d] = saver[d]
        /\ \A r : [thread EXCEPT ![c] = r][d] = thread[d]
    BY <2>3, Elsewhere
  <2>5. Erased(c)[d] = saver[d] /\ Dropped(c)[d] = thread[d]
    BY <2>4 DEF Erased, Dropped
  <2>6. WithCheckpoint(t)[d] = saver[d]
    BY <2>2, <2>4 DEF WithCheckpoint
  <2>7. ASSUME pc[t] = "commit" PROVE Advanced(t)[d] = thread[d]
    BY <2>2, <2>3, <2>7, AtWork, Turned DEF Working
  <2>8. CASE StartTurn(t)
    BY <2>2, <2>4, <2>8 DEF StartTurn, store
  <2>9. CASE RunTurn(t)
    BY <2>6, <2>9 DEF RunTurn
  <2>10. CASE CommitTurn(t)
    BY <2>7, <2>10 DEF CommitTurn
  <2>11. CASE EraseThread(t)
    BY <2>2, <2>5, <2>11 DEF EraseThread
  <2>12. CASE DropThread(t)
    BY <2>2, <2>5, <2>12 DEF DropThread
  <2>13. CASE FailStart(t)
    <3>1. CASE UNCHANGED <<store, disk>>
      BY <3>1 DEF store
    <3>2. ASSUME NEW row, NEW held,
                 Torn([thread EXCEPT ![c] = row], [saver EXCEPT ![c] = held], stale \ {c})
          PROVE  thread'[d] = thread[d] /\ saver'[d] = saver[d]
      <4>1. OnlyAt([thread EXCEPT ![c] = row], [saver EXCEPT ![c] = held], d)
        BY <2>4 DEF OnlyAt
      <4>2. QED BY <3>2, <4>1, TornSpares
    <3>3. QED BY <2>2, <2>13, <3>1, <3>2 DEF FailStart
  <2>14. CASE FailRun(t)
    <3>1. OnlyAt(thread, WithCheckpoint(t), d)
      BY <2>6 DEF OnlyAt
    <3>2. CASE UNCHANGED store
      BY <3>2 DEF store
    <3>3. QED BY <2>14, <3>1, <3>2, TornSpares DEF FailRun
  <2>15. CASE FailCommit(t)
    <3>1. OnlyAt(Advanced(t), saver, d)
      BY <2>7, <2>15 DEF OnlyAt, FailCommit
    <3>2. QED BY <2>15, <3>1, TornSpares DEF FailCommit
  <2>16. CASE FailErase(t)
    <3>1. OnlyAt(thread, Erased(c), d)
      BY <2>5 DEF OnlyAt
    <3>2. QED BY <2>2, <2>16, <3>1, TornSpares DEF FailErase
  <2>17. CASE FailDrop(t)
    <3>1. OnlyAt(Dropped(c), saver, d)
      BY <2>5 DEF OnlyAt
    <3>2. QED BY <2>2, <2>17, <3>1, TornSpares DEF FailDrop
  <2>18. QED
    BY <1>2, <2>8, <2>9, <2>10, <2>11, <2>12, <2>13, <2>14, <2>15, <2>16, <2>17
    DEF Request, FailTurn
<1>3. QED BY <1>1, <1>2

LEMMA CleanupSpares ==
  ASSUME IInv, Cleanup, bound, NEW d \in Threads, saved[d] # "none"
  PROVE  thread'[d] = thread[d] /\ saver'[d] = saver[d]
<1>1. CASE StartCleanup \/ CleanDone \/ \E c \in Threads : CleanNext(c)
  BY <1>1 DEF StartCleanup, CleanDone, CleanNext, store
<1>2. CASE CleanErase \/ FailCleanErase \/ CleanDrop \/ FailCleanDrop
  <2>1. PICK c \in Threads : c = cleaner.thread
    BY <1>2 DEF CleanErase, FailCleanErase, CleanDrop, FailCleanDrop, IInv, CleanerInv, TypeOK
  <2>2. d \in Threads \ {c} /\ TypeOK
    BY <2>1, NullAssumption DEF IInv, CleanerInv
  <2>3. Erased(c)[d] = saver[d] /\ Dropped(c)[d] = thread[d]
    BY <2>2, Elsewhere DEF Erased, Dropped
  <2>4. OnlyAt(thread, Erased(c), d) /\ OnlyAt(Dropped(c), saver, d)
    BY <2>3 DEF OnlyAt
  <2>5. CASE CleanErase \/ CleanDrop
    BY <2>1, <2>3, <2>5 DEF CleanErase, CleanDrop
  <2>6. CASE FailCleanErase
    BY <2>1, <2>4, <2>6, TornSpares DEF FailCleanErase
  <2>7. CASE FailCleanDrop
    BY <2>1, <2>4, <2>7, TornSpares DEF FailCleanDrop
  <2>8. QED BY <1>2, <2>5, <2>6, <2>7
<1>3. QED BY <1>1, <1>2 DEF Cleanup

(* Cleanup erases only what is expired when it holds the lock; while the     *)
(* checker is bound, legacy requests and cleanup leave the threads of saved  *)
(* conversations alone.                                                      *)
THEOREM SavedSpared == Spec => SparedThreadsStay
<1>1. IInv /\ IInv' /\ [Next]_vars => [Sparing]_vars
  <2> SUFFICES ASSUME IInv, IInv', Next PROVE Sparing
    BY DEF Sparing
  <2>1. cleaner'.thread # Null => cleaner'.thread \in stale'
    BY DEF IInv, CleanerInv
  <2>2. ASSUME bound, bound', tasks' # tasks \/ cleaner' # cleaner,
               NEW d \in Threads, saved[d] # "none"
        PROVE  thread'[d] = thread[d] /\ saver'[d] = saver[d]
    <3>1. ASSUME NEW t \in Tasks, Request(t)
          PROVE  thread'[d] = thread[d] /\ saver'[d] = saver[d]
      BY <2>2, <3>1, RequestSpares
    <3>2. CASE Cleanup
      BY <2>2, <3>2, CleanupSpares
    <3>3. ASSUME NEW c \in Threads, Age(c) \/ CreateSaved(c) \/ SavedTurn(c) \/ DeleteSaved(c)
          PROVE  FALSE
      BY <2>2, <3>3 DEF Age, CreateSaved, SavedTurn, DeleteSaved, tasks
    <3>4. CASE Setup \/ Bind \/ Stop
      BY <2>2, <3>4 DEF Setup, Bind, Stop, store
    <3>5. QED BY <3>1, <3>2, <3>3, <3>4 DEF Next
  <2>3. QED BY <2>1, <2>2 DEF Sparing
<1>2. Spec => [][Sparing]_vars
  BY <1>1, MemoryHeld, PTL DEF Spec
<1>3. QED BY <1>2 DEF SparedThreadsStay, Sparing
=============================================================================
