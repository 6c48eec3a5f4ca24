------------------------- MODULE ConversationMemory -------------------------
(***************************************************************************)
(* ConversationMemoryManager as the legacy routes use it: threaded turns,  *)
(* thread deletion, retention cleanup, and the guard that keeps them away  *)
(* from ids owned by saved conversations, across the order in which the    *)
(* API lifespan opens the manager, cleans up and binds that guard.         *)
(*                                                                         *)
(* All of it writes over one aiosqlite connection, whose thread runs a     *)
(* statement even when the request that queued it is cancelled, and which  *)
(* nobody rolls back: what a cancelled or failed request leaves is seen by *)
(* the next, committed by the next commit, and lost when the server stops  *)
(* before one.                                                             *)
(*                                                                         *)
(* A saved conversation is here only its ownership marker and its turns    *)
(* (SavedConversations has the rest); it is written over a connection of   *)
(* its own, so not while something is open on this one.  Creating an empty *)
(* thread is one step and pruning is left out.  A turn is a number, and so *)
(* is the checkpoint it ends in (0 is the empty base); a checkpoint        *)
(* remembers a set of turns.  Time passes only between cleanups: a cleanup *)
(* takes seconds, retention is days.                                       *)
(***************************************************************************)
EXTENDS Integers, FiniteSets

CONSTANTS
  Threads,   \* thread ids, which may also be conversation ids
  Tasks,     \* request tasks
  Stripes, StripeOf,
  MaxTurns,  \* bound on turns, not in the code
  Null

ASSUME StripeAssumption == StripeOf \in [Threads -> Stripes]
ASSUME BoundAssumption  == MaxTurns \in Nat
ASSUME NullAssumption   == Null \notin Tasks \cup Threads \cup Nat

VARIABLES
  thread,    \* conversation_threads
  saver,     \* the checkpoints held per thread, by id
  stale,     \* thread ids whose updated_at is before the retention cutoff
  disk,      \* what of these three is committed
  saved,     \* chat_sessions markers: "none", "live" or "deleted"
  server,    \* "down", "setup" or "serving"
  bound,     \* the saved-session checker is bound
  lock, pc, job,
  cleaner,   \* the cleanup under way: what it does next, and to whom
  count,     \* history: turns started
  promised,  \* history: turns reported successful and not deleted or expired
  doubtful   \* history: turns whose commit or removal was cut short

store   == <<thread, saver, stale>>
tasks   == <<lock, pc, job>>
history == <<count, promised, doubtful>>
vars    == <<thread, saver, stale, disk, saved, server, bound, lock, pc, job, cleaner,
             count, promised, doubtful>>

NoThread  == [exists |-> FALSE, active |-> Null, previous |-> Null, completed |-> 0]
NewThread == [exists |-> TRUE, active |-> 0, previous |-> Null, completed |-> 0]
NoJob     == [thread |-> Null, action |-> Null, active |-> Null, turn |-> 0]
NoCleanup == [at |-> "idle", todo |-> {}, thread |-> Null]

-----------------------------------------------------------------------------
Owned(c) == bound /\ saved[c] # "none"

InCheckpoint(held, i) == UNION {k.turns : k \in {h \in held : h.id = i}}
Remembered(c, i) == InCheckpoint(saver[c], i)
Stored(c, i, remembered) == saver[c] \cup {[id |-> i, turns |-> remembered]}

Image  == [thread |-> thread, saver |-> saver, stale |-> stale]
Commit == disk' = Image'
NothingOpen == disk = Image

(* Statements cut short: never executed, executed and open, or committed.    *)
Torn(th, sv, st) ==
  \/ UNCHANGED <<store, disk>>
  \/ /\ thread' = th /\ saver' = sv /\ stale' = st
     /\ UNCHANGED disk \/ Commit

Doubt(c, turns) ==
  /\ promised' = [promised EXCEPT ![c] = @ \ turns]
  /\ doubtful' = [doubtful EXCEPT ![c] = @ \cup turns]

FreeAlways(c) == TRUE   \* a mutant of the next
Free(c) ==
  /\ lock[StripeOf[c]] = Null
  /\ cleaner.thread # Null => StripeOf[cleaner.thread] # StripeOf[c]

Release(t) ==
  /\ lock' = [lock EXCEPT ![StripeOf[job[t].thread]] = Null]
  /\ pc' = [pc EXCEPT ![t] = "idle"]
  /\ job' = [job EXCEPT ![t] = NoJob]

Goto(t, at, local) ==
  /\ pc' = [pc EXCEPT ![t] = at]
  /\ job' = [job EXCEPT ![t] = local]
  /\ UNCHANGED lock

Life == <<saved, server, bound>>

-----------------------------------------------------------------------------
(* A legacy turn or deletion: guard, wait for the lock, guard again.         *)

Arrive(t, c, a) ==
  /\ server = "serving" /\ pc[t] = "idle" /\ ~Owned(c)
  /\ Goto(t, "waiting", [NoJob EXCEPT !.thread = c, !.action = a])
  /\ UNCHANGED <<store, disk, Life, cleaner, history>>

Admitted(t) ==
  LET c == job[t].thread IN
  /\ lock' = [lock EXCEPT ![StripeOf[c]] = t]
  /\ pc' = [pc EXCEPT ![t] = IF job[t].action = "delete" THEN "erase" ELSE "start"]
  /\ UNCHANGED job

Rejected(t) ==
  /\ pc' = [pc EXCEPT ![t] = "idle"]
  /\ job' = [job EXCEPT ![t] = NoJob]
  /\ UNCHANGED lock

LegacyAlways(c) == TRUE   \* a mutant of the next
StillLegacy(c) == ~Owned(c)

Lock(t) ==
  /\ pc[t] = "waiting" /\ Free(job[t].thread)
  /\ IF StillLegacy(job[t].thread) THEN Admitted(t) ELSE Rejected(t)
  /\ UNCHANGED <<store, disk, Life, cleaner, history>>

(* _get_or_create_thread, then the checkpoint to run from. *)
StartTurn(t) ==
  LET c == job[t].thread
      th == IF thread[c].exists THEN thread[c] ELSE NewThread
  IN
  /\ pc[t] = "start" /\ count < MaxTurns
  /\ IF thread[c].exists THEN UNCHANGED <<store, disk>>
     ELSE /\ thread' = [thread EXCEPT ![c] = th]
          /\ saver' = [saver EXCEPT ![c] = Stored(c, 0, {})]
          /\ stale' = stale \ {c}
          /\ Commit
  /\ IF job[t].action = "replace_last" /\ th.completed = 0
     THEN Release(t) /\ UNCHANGED count
     ELSE /\ Goto(t, "run", [job[t] EXCEPT !.active = th.active, !.turn = count + 1])
          /\ count' = count + 1
  /\ UNCHANGED <<Life, cleaner, promised, doubtful>>

(* The INSERT was cancelled or failed: the base checkpoint is deleted, but   *)
(* the row may be there.                                                     *)
FailStart(t) ==
  LET c == job[t].thread IN
  /\ pc[t] = "start"
  /\ IF thread[c].exists THEN UNCHANGED <<store, disk>>
     ELSE \E row \in {NoThread, NewThread}, held \in {{}, Stored(c, 0, {})} :
            Torn([thread EXCEPT ![c] = row], [saver EXCEPT ![c] = held], stale \ {c})
  /\ Release(t)
  /\ UNCHANGED <<Life, cleaner, history>>

Start(j, th) == IF j.action = "append" THEN j.active ELSE th.previous

WithCheckpoint(t) ==
  LET c == job[t].thread
      prior == Remembered(c, Start(job[t], thread[c]))
  IN [saver EXCEPT ![c] = Stored(c, job[t].turn, prior \cup {job[t].turn})]

RunTurn(t) ==
  /\ pc[t] = "run"
  /\ saver' = WithCheckpoint(t) /\ UNCHANGED <<thread, stale>> /\ Commit
  /\ Goto(t, "commit", job[t])
  /\ UNCHANGED <<Life, cleaner, history>>

(* The runner failed or was cancelled, at its terminal checkpoint or at one  *)
(* before it, whose commit took with it what was open.                       *)
FailRun(t) ==
  /\ pc[t] = "run"
  /\ \/ Torn(thread, WithCheckpoint(t), stale)
     \/ UNCHANGED store /\ Commit
  /\ Release(t)
  /\ UNCHANGED <<Life, cleaner, history>>

Newest(S) == {n \in S : \A m \in S : m <= n}

(* _commit_turn compares and sets, and does not look at the row count.       *)
Hit(t) == thread[job[t].thread].exists /\ thread[job[t].thread].active = job[t].active

Advanced(t) ==
  LET c == job[t].thread
      j == job[t]
  IN
  IF ~Hit(t) THEN thread
  ELSE IF j.action = "append"
  THEN [thread EXCEPT ![c].previous = j.active, ![c].active = j.turn, ![c].completed = @ + 1]
  ELSE [thread EXCEPT ![c].active = j.turn]

Renewed(t) == IF Hit(t) THEN stale \ {job[t].thread} ELSE stale

Replaced(t) == IF job[t].action = "append" THEN {}
               ELSE Newest(Remembered(job[t].thread, thread[job[t].thread].active))

CommitTurn(t) ==
  LET c == job[t].thread IN
  /\ pc[t] = "commit"
  /\ thread' = Advanced(t) /\ stale' = Renewed(t) /\ UNCHANGED saver /\ Commit
  /\ promised' = [promised EXCEPT ![c] = (@ \ Replaced(t)) \cup {job[t].turn}]
  /\ doubtful' = [doubtful EXCEPT ![c] = @ \ Replaced(t)]
  /\ Release(t)
  /\ UNCHANGED <<Life, cleaner, count>>

(* Cancelled or failed while it validates or commits.                        *)
FailCommit(t) ==
  /\ pc[t] = "commit"
  /\ Torn(Advanced(t), saver, Renewed(t))
  /\ Doubt(job[t].thread, Replaced(t) \cup {job[t].turn})
  /\ Release(t)
  /\ UNCHANGED <<Life, cleaner, count>>

Erased(c)  == [saver EXCEPT ![c] = {}]
Dropped(c) == [thread EXCEPT ![c] = NoThread]

Forgotten(c) ==
  /\ promised' = [promised EXCEPT ![c] = {}]
  /\ doubtful' = [doubtful EXCEPT ![c] = {}]

EraseThread(t) ==
  /\ pc[t] = "erase"
  /\ saver' = Erased(job[t].thread) /\ UNCHANGED <<thread, stale>> /\ Commit
  /\ Forgotten(job[t].thread)
  /\ Goto(t, "drop", job[t])
  /\ UNCHANGED <<Life, cleaner, count>>

FailErase(t) ==
  LET c == job[t].thread IN
  /\ pc[t] = "erase"
  /\ Torn(thread, Erased(c), stale)
  /\ Doubt(c, promised[c])
  /\ Release(t)
  /\ UNCHANGED <<Life, cleaner, count>>

DropThread(t) ==
  /\ pc[t] = "drop"
  /\ thread' = Dropped(job[t].thread) /\ UNCHANGED <<saver, stale>> /\ Commit
  /\ Release(t)
  /\ UNCHANGED <<Life, cleaner, history>>

FailDrop(t) ==
  /\ pc[t] = "drop"
  /\ Torn(Dropped(job[t].thread), saver, stale)
  /\ Release(t)
  /\ UNCHANGED <<Life, cleaner, history>>

-----------------------------------------------------------------------------
(* Retention cleanup: select, then per candidate lock, check again, erase    *)
(* the checkpoints, drop the row.  One at a time (_cleanup_lock).            *)

StartCleanup ==
  /\ server = "serving" /\ cleaner = NoCleanup
  /\ cleaner' = [NoCleanup EXCEPT !.at = "next",
                                  !.todo = {c \in stale : thread[c].exists}]
  /\ UNCHANGED <<store, disk, Life, tasks, history>>

ExpiredOnce(c) == TRUE   \* a mutant of the next
Expired(c) == thread[c].exists /\ c \in stale

CleanNext(c) ==
  /\ cleaner.at = "next" /\ c \in cleaner.todo /\ Free(c)
  /\ cleaner' = IF ~Owned(c) /\ Expired(c)
                THEN [at |-> "erase", todo |-> cleaner.todo \ {c}, thread |-> c]
                ELSE [cleaner EXCEPT !.todo = @ \ {c}]
  /\ UNCHANGED <<store, disk, Life, tasks, history>>

NextThread == [cleaner EXCEPT !.at = "next", !.thread = Null]

CleanErase ==
  /\ cleaner.at = "erase"
  /\ saver' = Erased(cleaner.thread) /\ UNCHANGED <<thread, stale>> /\ Commit
  /\ Forgotten(cleaner.thread)
  /\ cleaner' = [cleaner EXCEPT !.at = "drop"]
  /\ UNCHANGED <<Life, tasks, count>>

(* A saver error is passed over; a cancellation ends the cleanup.            *)
FailCleanErase ==
  LET c == cleaner.thread IN
  /\ cleaner.at = "erase"
  /\ Torn(thread, Erased(c), stale)
  /\ Doubt(c, promised[c])
  /\ cleaner' \in {NextThread, NoCleanup}
  /\ UNCHANGED <<Life, tasks, count>>

CleanDrop ==
  /\ cleaner.at = "drop"
  /\ thread' = Dropped(cleaner.thread) /\ UNCHANGED <<saver, stale>> /\ Commit
  /\ cleaner' = NextThread
  /\ UNCHANGED <<Life, tasks, history>>

FailCleanDrop ==
  /\ cleaner.at = "drop"
  /\ Torn(Dropped(cleaner.thread), saver, stale)
  /\ cleaner' = NoCleanup
  /\ UNCHANGED <<Life, tasks, history>>

(* Done, or given up: a read failed or the request that runs it was cancelled. *)
CleanDone ==
  /\ cleaner.at = "next"
  /\ cleaner' = NoCleanup
  /\ UNCHANGED <<store, disk, Life, tasks, history>>

Age(c) ==
  /\ cleaner = NoCleanup /\ c \notin stale /\ thread[c].exists
  /\ stale' = stale \cup {c}
  /\ disk' = [disk EXCEPT !.stale = @ \cup {c}]
  /\ UNCHANGED <<thread, saver, Life, tasks, cleaner, history>>

-----------------------------------------------------------------------------
(* Saved conversations on the same ids, under the same lock; their service   *)
(* opened, so the checker is bound.                                          *)

SavedReady(c) == server = "serving" /\ bound /\ Free(c) /\ NothingOpen

CreateSaved(c) ==
  /\ SavedReady(c) /\ saved[c] = "none"
  /\ saved' = [saved EXCEPT ![c] = "live"]
  /\ promised' = [promised EXCEPT ![c] = Remembered(c, thread[c].active)]
  /\ doubtful' = [doubtful EXCEPT ![c] = {}]
  /\ UNCHANGED <<store, disk, server, bound, tasks, cleaner, count>>

SavedTurn(c) ==
  LET from == IF thread[c].exists THEN thread[c].active ELSE 0
      turn == count + 1
  IN
  /\ SavedReady(c) /\ saved[c] = "live" /\ count < MaxTurns
  /\ saver' = [saver EXCEPT ![c] = Stored(c, turn, Remembered(c, from) \cup {turn})]
  /\ thread' = [thread EXCEPT ![c] = [exists |-> TRUE, active |-> turn, previous |-> from,
                                      completed |-> @.completed + 1]]
  /\ stale' = stale \ {c} /\ Commit
  /\ count' = turn
  /\ promised' = [promised EXCEPT ![c] = @ \cup {turn}]
  /\ UNCHANGED <<Life, tasks, cleaner, doubtful>>

DeleteSaved(c) ==
  /\ SavedReady(c) /\ saved[c] = "live"
  /\ saved' = [saved EXCEPT ![c] = "deleted"]
  /\ saver' = Erased(c) /\ thread' = Dropped(c) /\ UNCHANGED stale /\ Commit
  /\ Forgotten(c)
  /\ UNCHANGED <<server, bound, tasks, cleaner, count>>

-----------------------------------------------------------------------------
(* Lifespan: open the manager, which cleans up; then open the conversation   *)
(* service, which binds the checker unless its storage is unavailable, which *)
(* the lifespan only logs; then serve.                                       *)

Setup ==
  /\ server = "down"
  /\ server' = "setup"
  /\ cleaner' = [NoCleanup EXCEPT !.at = "next",
                                  !.todo = {c \in stale : thread[c].exists}]
  /\ UNCHANGED <<store, disk, saved, bound, tasks, history>>

Bind ==
  /\ server = "setup" /\ cleaner = NoCleanup
  /\ server' = "serving" /\ bound' \in BOOLEAN
  /\ UNCHANGED <<store, disk, saved, tasks, cleaner, history>>

(* The connection closes, or the process dies: what is open is lost.         *)
Stop ==
  /\ server # "down"
  /\ server' = "down" /\ bound' = FALSE
  /\ thread' = disk.thread /\ saver' = disk.saver /\ stale' = disk.stale
  /\ lock' = [s \in Stripes |-> Null]
  /\ pc' = [t \in Tasks |-> "idle"]
  /\ job' = [t \in Tasks |-> NoJob]
  /\ cleaner' = NoCleanup
  /\ UNCHANGED <<disk, saved, history>>

Init ==
  /\ thread = [c \in Threads |-> NoThread]
  /\ saver = [c \in Threads |-> {}]
  /\ stale = {}
  /\ disk = Image
  /\ saved = [c \in Threads |-> "none"]
  /\ server = "down" /\ bound = FALSE
  /\ lock = [s \in Stripes |-> Null]
  /\ pc = [t \in Tasks |-> "idle"]
  /\ job = [t \in Tasks |-> NoJob]
  /\ cleaner = NoCleanup
  /\ count = 0
  /\ promised = [c \in Threads |-> {}] /\ doubtful = promised

Cleanup ==
  \/ StartCleanup \/ CleanErase \/ FailCleanErase \/ CleanDrop \/ FailCleanDrop \/ CleanDone
  \/ \E c \in Threads : CleanNext(c)

FailTurn(t) == FailStart(t) \/ FailRun(t) \/ FailCommit(t) \/ FailErase(t) \/ FailDrop(t)

Request(t) ==
  \/ Lock(t) \/ StartTurn(t) \/ RunTurn(t) \/ CommitTurn(t)
  \/ EraseThread(t) \/ DropThread(t) \/ FailTurn(t)
  \/ \E c \in Threads, a \in {"append", "replace_last", "delete"} : Arrive(t, c, a)

Next ==
  \/ \E t \in Tasks : Request(t)
  \/ \E c \in Threads : Age(c) \/ CreateSaved(c) \/ SavedTurn(c) \/ DeleteSaved(c)
  \/ Cleanup \/ Setup \/ Bind \/ Stop

Spec == Init /\ [][Next]_vars
-----------------------------------------------------------------------------
Thread == [exists : BOOLEAN, active : Nat \cup {Null}, previous : Nat \cup {Null},
           completed : Nat]
Job    == [thread : Threads \cup {Null}, active : Nat \cup {Null}, turn : Nat,
           action : {"append", "replace_last", "delete", Null}]

Checkpoints == SUBSET [id : Nat, turns : SUBSET Nat]
Images == [thread : [Threads -> Thread], saver : [Threads -> Checkpoints], stale : SUBSET Threads]

(* Types, of the rows as the connection sees them and as they are committed. *)
TypeOK ==
  /\ thread \in [Threads -> Thread] /\ saver \in [Threads -> Checkpoints]
  /\ stale \subseteq Threads /\ disk \in Images
  /\ saved \in [Threads -> {"none", "live", "deleted"}]
  /\ server \in {"down", "setup", "serving"} /\ bound \in BOOLEAN
  /\ lock \in [Stripes -> Tasks \cup {Null}]
  /\ pc \in [Tasks -> {"idle", "waiting", "start", "run", "commit", "erase", "drop"}]
  /\ job \in [Tasks -> Job]
  /\ cleaner \in [at : {"idle", "next", "erase", "drop"}, todo : SUBSET Threads,
                  thread : Threads \cup {Null}]
  /\ count \in Nat
  /\ promised \in [Threads -> SUBSET Nat] /\ doubtful \in [Threads -> SUBSET Nat]

(* The context from which the next turn of a thread starts holds every turn  *)
(* that was reported successful, until the thread is deleted or expires, and *)
(* besides these only turns that were cut short while they were committed,   *)
(* replaced or deleted, of which the client was told nothing: no other turn  *)
(* that failed, none that was replaced.                                      *)
TurnsIn(row, held, c) ==
  row.exists =>
    /\ promised[c] \subseteq InCheckpoint(held, row.active)
    /\ InCheckpoint(held, row.active) \subseteq promised[c] \cup doubtful[c]

(* So it is for the next request and after a restart, which finds only what  *)
(* is committed: the compare-and-set that nobody checks always hits, because *)
(* turns, deletion and cleanup of a thread exclude each other, and what a    *)
(* cancelled one left open can do no harm, committed by another or lost.     *)
SuccessfulTurnsRemembered ==
  \A c \in Threads : /\ TurnsIn(thread[c], saver[c], c)
                     /\ TurnsIn(disk.thread[c], disk.saver[c], c)

(* The thread rows and checkpoints at every await: well formed, with every   *)
(* turn reported to a client still reachable from the active checkpoint.     *)
MemoryInvariant == TypeOK /\ SuccessfulTurnsRemembered

(* Neither of the two that act on a thread after an earlier look at it acts  *)
(* on what has changed since: cleanup erases only what is still expired when *)
(* it holds the lock, and while the saved-session checker is bound, legacy   *)
(* requests and cleanup never touch the thread of an id that a saved         *)
(* conversation owns, not even a request that passed its first check before  *)
(* it was created.  An API that serves without the checker spares nothing.   *)
SparedThreadsStay ==
  [][/\ cleaner'.thread # Null => cleaner'.thread \in stale'
     /\ bound /\ bound' /\ (tasks' # tasks \/ cleaner' # cleaner) =>
          \A c \in Threads : saved[c] # "none" =>
            thread'[c] = thread[c] /\ saver'[c] = saver[c]]_vars

(* docs/quick-reference.md: the legacy 30-day thread cleanup does not expire *)
(* saved conversations.                                                      *)
CleanupSparesSaved ==
  [][\A c \in Threads : saved[c] = "live" /\ cleaner.thread = c =>
       thread'[c] = thread[c] /\ saver'[c] = saver[c]]_vars
=============================================================================
