------------------------- MODULE SavedConversations -------------------------
(***************************************************************************)
(* Server-owned saved conversations: the session, turn and operation rows  *)
(* of ConversationRepository, the thread pointers and checkpoints of       *)
(* ConversationMemoryManager, and the request tasks of api/routes/chat.py  *)
(* and ConversationService that move them, with cancellation, storage      *)
(* errors, process crashes and startup recovery.                           *)
(*                                                                         *)
(* A repository method is one step, because it is one BEGIN IMMEDIATE      *)
(* transaction of the code; the awaits BETWEEN methods are separate steps, *)
(* and a task can be cancelled, fail or crash at each of them.  A request  *)
(* that is rejected (unknown id, stale version, busy, duplicate operation) *)
(* changes no row, so it is no step.  Waiting for the lifecycle lock       *)
(* changes nothing either: a task takes the lock in its first step.        *)
(*                                                                         *)
(* Data: an answer is identified with the operation that produced it; a    *)
(* checkpoint id is its position in the order the saver stored them; what  *)
(* a checkpoint remembers is a set of <<sequence, answer>> pairs.          *)
(***************************************************************************)
EXTENDS Integers, Sequences, FiniteSets

CONSTANTS
  Conversations,  \* conversation UUIDs
  Operations,     \* operation UUIDs
  Messages,       \* message texts
  Clients,        \* browser tabs, each with its last read of every transcript
  Tasks,          \* asyncio tasks that can be inside the lifecycle lock at once
  Stripes,        \* the fixed lock stripes of the memory manager
  StripeOf,       \* _lock_for: the stripe of a conversation
  MaxPriorTurns,  \* session_memory.max_prior_turns
  MaxVersion,     \* bound on renames, not in the code
  Null

ASSUME StripeAssumption == StripeOf \in [Conversations -> Stripes]
ASSUME WindowAssumption == MaxPriorTurns \in Nat \ {0}
ASSUME BoundAssumption  == MaxVersion \in Nat
ASSUME NullAssumption   == Null \notin Conversations \cup Operations \cup Tasks

VARIABLES
  session,    \* chat_sessions
  turns,      \* chat_turns, by sequence
  operation,  \* chat_operations
  thread,     \* conversation_threads
  saver,      \* checkpoints per thread, oldest first
  server,     \* "down", "recovering" (lifespan startup) or "serving"
  pending,    \* pending_deletions still to be retried by the startup
  lock,       \* holder of each lifecycle-lock stripe
  pc, job,    \* where each task is, and its local variables
  view,       \* history: what each client last read of each conversation
  inferences, \* history: how often the model was run for an operation
  context     \* history: the prior turns the model was given for an operation

database == <<session, turns, operation, thread, saver>>
memory   == <<server, pending, lock, pc, job>>
history  == <<view, inferences, context>>
vars     == <<session, turns, operation, thread, saver, server, pending, lock,
              pc, job, view, inferences, context>>

-----------------------------------------------------------------------------
Modes      == {"intelligent", "rag_only"}
Actions    == {"append", "replace_last"}
TurnStatus == {"running", "completed", "failed", "interrupted"}
Verdicts   == {"failed", "interrupted"}
Answers    == Nat \X Operations

NoSession   == [state |-> "absent", version |-> 0, mode |-> Null]
Tombstone   == [state |-> "deleted", version |-> 0, mode |-> Null]
NoOperation == [conv |-> Null, turn |-> 0, action |-> Null, message |-> Null,
                status |-> "absent", version |-> 0]
NoThread    == [exists |-> FALSE, active |-> 0, previous |-> 0, completed |-> 0]
NoJob       == [conv |-> Null, op |-> Null, mode |-> Null, active |-> 0,
                terminal |-> 0, verdict |-> Null]

Session    == {NoSession, Tombstone} \cup
              [state : {"active", "deleting"}, version : Nat, mode : Modes]
Turn       == {turn \in [message : Messages, status : TurnStatus,
                          answer : Operations \cup {Null}] :
                 turn.status = "completed" => turn.answer # Null}
Operation  == {NoOperation} \cup
              [conv : Conversations, turn : Nat, action : Actions, message : Messages,
               status : TurnStatus, version : Nat]
Thread     == [exists : BOOLEAN, active : Nat, previous : Nat, completed : Nat]
Checkpoint == [turns : SUBSET Answers, whole : BOOLEAN, held : BOOLEAN]
Job        == [conv : Conversations \cup {Null}, op : Operations \cup {Null},
               mode : Modes \cup {Null}, active : Nat, terminal : Nat,
               verdict : Verdicts \cup {Null}]
Reading    == [version : Nat, turns : Seq(Turn)]

InTry    == {"prepare", "insert_thread", "infer", "stepped", "publish", "published"}
Sending  == InTry \cup {"reserved", "failing"}
Deleting == {"erase", "tombstone"}
PCs      == {"idle"} \cup Sending \cup Deleting

-----------------------------------------------------------------------------
(* Reading the rows. *)

Running(c) == {o \in Operations : operation[o].conv = c /\ operation[o].status = "running"}

IdleWithoutBusyCheck(c) == session[c].state = "active"   \* a mutant of the next

Idle(c) == session[c].state = "active" /\ Running(c) = {}

Completed(c) == {n \in DOMAIN turns[c] : turns[c][n].status = "completed"}

LatestCompleted(c, n) == n \in Completed(c) /\ \A m \in Completed(c) : m <= n

(* The newest MaxPriorTurns turns of a transcript or of a checkpoint. *)
Recent(S) == {p \in S : Cardinality({q \in S : q[1] > p[1]}) < MaxPriorTurns}

CompletedBefore(c, n) ==
  {<<m, turns[c][m].answer>> : m \in {k \in Completed(c) : k < n}}

(* A run whose starting checkpoint is gone starts from an empty state. *)
Remembered(c, i) ==
  IF i \in DOMAIN saver[c] /\ saver[c][i].held THEN saver[c][i].turns ELSE {}

Erased(c) == [i \in DOMAIN saver[c] |-> [saver[c][i] EXCEPT !.held = FALSE]]

Checkpointed(c, remembered, whole) ==
  Append(saver[c], [turns |-> remembered, whole |-> whole, held |-> TRUE])

-----------------------------------------------------------------------------
(* Moving tasks.  A task holds its stripe from its first step to its last. *)

FreeAlways(c) == TRUE   \* a mutant of the next

Free(c) == lock[StripeOf[c]] = Null

Enter(t, at, local) ==
  /\ pc[t] = "idle" /\ Free(local.conv)
  /\ pc' = [pc EXCEPT ![t] = at]
  /\ job' = [job EXCEPT ![t] = local]
  /\ lock' = [lock EXCEPT ![StripeOf[local.conv]] = t]

Goto(t, at, local) ==
  /\ pc' = [pc EXCEPT ![t] = at]
  /\ job' = [job EXCEPT ![t] = local]
  /\ UNCHANGED <<server, pending, lock>>

Leave(t) ==
  /\ lock' = [lock EXCEPT ![StripeOf[job[t].conv]] = Null]
  /\ pc' = [pc EXCEPT ![t] = "idle"]
  /\ job' = [job EXCEPT ![t] = NoJob]
  /\ UNCHANGED <<server, pending>>

-----------------------------------------------------------------------------
(* Requests that are one transaction under the lock. *)

Create(c, m) ==
  /\ server = "serving" /\ Free(c)
  /\ session[c] = NoSession
  /\ session' = [session EXCEPT ![c] = [state |-> "active", version |-> 1, mode |-> m]]
  /\ UNCHANGED <<turns, operation, thread, saver, memory, history>>

Rename(k, c) ==
  /\ server = "serving" /\ Free(c)
  /\ Idle(c) /\ view[k][c].version = session[c].version
  /\ session[c].version < MaxVersion
  /\ session' = [session EXCEPT ![c].version = @ + 1]
  /\ UNCHANGED <<turns, operation, thread, saver, memory, history>>

(* GET /conversations/{id}/turns, read without the lock. *)
ListTurns(k, c) ==
  /\ server = "serving"
  /\ session[c].state \in {"active", "deleting"}
  /\ view' = [view EXCEPT ![k][c] = [version |-> session[c].version, turns |-> turns[c]]]
  /\ UNCHANGED <<database, memory, inferences, context>>

-----------------------------------------------------------------------------
(* A saved chat turn: reserve, run, publish. *)

RetryableOperation(c, o) ==   \* a mutant of NewOperation
  operation[o].status \in {"absent"} \cup Verdicts

(* An operation id is looked up globally, whatever its conversation.        *)
NewOperation(c, o) == operation[o] = NoOperation

Accept(c, o, a, x, n) ==
  /\ session' = [session EXCEPT ![c].version = @ + 1]
  /\ operation' = [operation EXCEPT ![o] =
       [conv |-> c, turn |-> n, action |-> a, message |-> x, status |-> "running",
        version |-> session[c].version + 1]]

ReserveOperation(t, k, c, o, m, x) ==
  /\ server = "serving"
  /\ NewOperation(c, o)
  /\ session[c].mode = m
  /\ Idle(c) /\ view[k][c].version = session[c].version
  /\ Enter(t, "reserved", [NoJob EXCEPT !.conv = c, !.op = o, !.mode = m])
  /\ \/ /\ Accept(c, o, "append", x, Len(turns[c]) + 1)
        /\ turns' = [turns EXCEPT ![c] =
             Append(@, [message |-> x, status |-> "running", answer |-> Null])]
     \/ \E n \in DOMAIN turns[c] :
          /\ LatestCompleted(c, n) /\ turns[c][n].message = x
          /\ Accept(c, o, "replace_last", x, n)
          /\ UNCHANGED turns
  /\ UNCHANGED <<thread, saver, server, pending, history>>

(* get_operation after the commit: the reservation reaches the route. *)
ReservationRead(t) ==
  /\ pc[t] = "reserved"
  /\ Goto(t, "prepare", job[t])
  /\ UNCHANGED <<database, history>>

Run(t, prior) ==
  LET o == job[t].op IN
  /\ inferences' = [inferences EXCEPT ![job[t].conv][o] = @ + 1]
  /\ context' = [context EXCEPT ![o] = Recent(prior)]
  /\ UNCHANGED view

(* RAG-only: the history is read from the committed turns. *)
StartRag(t) ==
  LET c == job[t].conv IN
  /\ pc[t] = "prepare" /\ job[t].mode = "rag_only"
  /\ Run(t, CompletedBefore(c, operation[job[t].op].turn))
  /\ Goto(t, "infer", job[t])
  /\ UNCHANGED database

StartOf(th, a) == IF a = "replace_last" THEN th.previous ELSE th.active

(* Intelligent: run from the active checkpoint, or the one before it. *)
StartFrom(t, th) ==
  LET c == job[t].conv
      action == operation[job[t].op].action
      start == StartOf(th, action)
  IN IF start = 0 \/ (action = "replace_last" /\ th.completed = 0)
     THEN /\ Goto(t, "failing", [job[t] EXCEPT !.verdict = "failed"])
          /\ UNCHANGED history
     ELSE /\ Run(t, Remembered(c, start))
          /\ Goto(t, "infer", [job[t] EXCEPT !.active = th.active])

StartThread(t) ==
  LET c == job[t].conv IN
  /\ pc[t] = "prepare" /\ job[t].mode = "intelligent"
  /\ thread[c].exists
  /\ StartFrom(t, thread[c])
  /\ UNCHANGED database

PutBaseCheckpoint(t) ==
  LET c == job[t].conv IN
  /\ pc[t] = "prepare" /\ job[t].mode = "intelligent"
  /\ ~thread[c].exists
  /\ saver' = [saver EXCEPT ![c] = Checkpointed(c, {}, TRUE)]
  /\ Goto(t, "insert_thread", job[t])
  /\ UNCHANGED <<session, turns, operation, thread, history>>

BaseThread(c) ==
  [exists |-> TRUE, active |-> Len(saver[c]), previous |-> 0, completed |-> 0]

InsertThread(t) ==
  LET c == job[t].conv IN
  /\ pc[t] = "insert_thread"
  /\ thread' = [thread EXCEPT ![c] = BaseThread(c)]
  /\ StartFrom(t, BaseThread(c))
  /\ UNCHANGED <<session, turns, operation, saver>>

(* The graph stores a checkpoint for every step it takes. *)
StepGraph(t) ==
  LET c == job[t].conv IN
  /\ pc[t] = "infer" /\ job[t].mode = "intelligent"
  /\ saver' = [saver EXCEPT ![c] = Checkpointed(c, context[job[t].op], FALSE)]
  /\ Goto(t, "stepped", job[t])
  /\ UNCHANGED <<session, turns, operation, thread, history>>

(* The answer is final; the newest checkpoint of the thread is taken for it. *)
FinishGraph(t) ==
  LET c == job[t].conv
      o == job[t].op
  IN
  /\ pc[t] = "stepped"
  /\ saver' = [saver EXCEPT ![c] =
       Checkpointed(c, context[o] \cup {<<operation[o].turn, o>>}, TRUE)]
  /\ Goto(t, "publish", [job[t] EXCEPT !.terminal = Len(saver'[c])])
  /\ UNCHANGED <<session, turns, operation, thread, history>>

FinishRag(t) ==
  /\ pc[t] = "infer" /\ job[t].mode = "rag_only"
  /\ Goto(t, "publish", job[t])
  /\ UNCHANGED <<database, history>>

(* The transaction is refused: the exception reaches the route's handler. *)
Publishable(c, o, j) ==
  /\ operation[o].conv = c /\ operation[o].status = "running"
  /\ session[c].state = "active" /\ session[c].version = operation[o].version
  /\ j.mode = "intelligent" => thread[c].exists /\ thread[c].active = j.active

AdvancedAlike(th, a, terminal) ==   \* a mutant of the next
  [th EXCEPT !.previous = th.active, !.active = terminal,
             !.completed = IF a = "append" THEN @ + 1 ELSE @]

Advanced(th, a, terminal) ==
  IF a = "append"
  THEN [th EXCEPT !.previous = th.active, !.active = terminal, !.completed = @ + 1]
  ELSE [th EXCEPT !.active = terminal]

PublishOperation(t) ==
  LET c == job[t].conv
      o == job[t].op
  IN
  /\ pc[t] = "publish"
  /\ IF Publishable(c, o, job[t])
     THEN /\ thread' = IF job[t].mode = "rag_only" THEN thread
                       ELSE [thread EXCEPT ![c] =
                               Advanced(@, operation[o].action, job[t].terminal)]
          /\ turns' = [turns EXCEPT ![c][operation[o].turn] =
                         [@ EXCEPT !.status = "completed", !.answer = o]]
          /\ session' = [session EXCEPT ![c].version = @ + 1]
          /\ operation' = [operation EXCEPT ![o].status = "completed",
                                            ![o].version = session[c].version + 1]
          /\ Goto(t, "published", job[t])
     ELSE /\ Goto(t, "failing", [job[t] EXCEPT !.verdict = "failed"])
          /\ UNCHANGED <<session, turns, operation, thread>>
  /\ UNCHANGED <<saver, history>>

Reply(t) ==
  /\ pc[t] = "published"
  /\ Leave(t)
  /\ UNCHANGED <<database, history>>

-----------------------------------------------------------------------------
(* Exceptions, storage errors and cancellation. *)

(* Inside the try block an exception or a cancellation goes on to record    *)
(* the terminal status, also when the publication has just been committed.  *)
Fail(t, verdict) ==
  /\ pc[t] \in InTry \ {"insert_thread"}
  /\ Goto(t, "failing", [job[t] EXCEPT !.verdict = verdict])
  /\ UNCHANGED <<database, history>>

(* _get_or_create_thread interrupted: during aput the base checkpoint stays;  *)
(* later the compensating adelete_thread erases it, and its commit keeps the  *)
(* row when the connection thread had already executed the INSERT.            *)
FailInsert(t, verdict) ==
  LET c == job[t].conv IN
  /\ pc[t] = "insert_thread"
  /\ Goto(t, "failing", [job[t] EXCEPT !.verdict = verdict])
  /\ \/ verdict = "interrupted" /\ UNCHANGED <<thread, saver>>
     \/ saver' = [saver EXCEPT ![c] = Erased(c)] /\ UNCHANGED thread
     \/ /\ verdict = "interrupted"
        /\ saver' = [saver EXCEPT ![c] = Erased(c)]
        /\ thread' = [thread EXCEPT ![c] = BaseThread(c)]
  /\ UNCHANGED <<session, turns, operation, history>>

UnsettledAlways(o) == TRUE   \* a mutant of the next
Unsettled(o) == operation[o].status = "running"

FailsTurnAlways(o) == TRUE   \* a mutant of the next
FailsTurn(o) == operation[o].action = "append"

RecordFailure(t) ==
  LET c == job[t].conv
      o == job[t].op
  IN
  /\ pc[t] = "failing"
  /\ IF Unsettled(o)
     THEN /\ session' = [session EXCEPT ![c].version = @ + 1]
          /\ turns' = IF FailsTurn(o)
                      THEN [turns EXCEPT ![c][operation[o].turn].status = job[t].verdict]
                      ELSE turns
          /\ operation' = [operation EXCEPT ![o].status = job[t].verdict,
                                            ![o].version = session[c].version + 1]
     ELSE UNCHANGED <<session, turns, operation>>
  /\ Leave(t)
  /\ UNCHANGED <<thread, saver, history>>

(* Cancelled (or the read fails) after the reservation has committed and    *)
(* before the try block: the operation stays running.                       *)
AbandonReservation(t) ==
  /\ pc[t] = "reserved"
  /\ Leave(t)
  /\ UNCHANGED <<database, history>>

(* A storage error, or a second cancellation, while the failure is recorded. *)
LoseVerdict(t) ==
  /\ pc[t] = "failing"
  /\ Leave(t)
  /\ UNCHANGED <<database, history>>

-----------------------------------------------------------------------------
(* Deletion: mark, erase the checkpoints, leave a tombstone. *)

Marked(s) == [s EXCEPT !.state = "deleting", !.version = @ + 1]

BeginDelete(t, k, c) ==
  /\ server = "serving"
  /\ Enter(t, "erase", [NoJob EXCEPT !.conv = c])
  /\ \/ session[c].state = "deleting" /\ UNCHANGED session
     \/ /\ Idle(c) /\ view[k][c].version = session[c].version
        /\ session' = [session EXCEPT ![c] = Marked(@)]
  /\ UNCHANGED <<turns, operation, thread, saver, server, pending, history>>

EraseCheckpoints(t) ==
  LET c == job[t].conv IN
  /\ pc[t] = "erase"
  /\ saver' = [saver EXCEPT ![c] = Erased(c)]
  /\ Goto(t, "tombstone", job[t])
  /\ UNCHANGED <<session, turns, operation, thread, history>>

CompleteDelete(t) ==
  LET c == job[t].conv IN
  /\ pc[t] = "tombstone"
  /\ operation' = [o \in Operations |->
       IF operation[o].conv = c THEN NoOperation ELSE operation[o]]
  /\ turns' = [turns EXCEPT ![c] = <<>>]
  /\ thread' = [thread EXCEPT ![c] = NoThread]
  /\ session' = [session EXCEPT ![c] = Tombstone]
  /\ Leave(t)
  /\ UNCHANGED <<saver, history>>

AbortDelete(t) ==
  /\ pc[t] \in Deleting
  /\ Leave(t)
  /\ UNCHANGED <<database, history>>

-----------------------------------------------------------------------------
(* The process: crash, startup recovery, serving. *)

Crash ==
  /\ server # "down"
  /\ server' = "down"
  /\ pending' = {}
  /\ lock' = [s \in Stripes |-> Null]
  /\ pc' = [t \in Tasks |-> "idle"]
  /\ job' = [t \in Tasks |-> NoJob]
  /\ UNCHANGED <<database, history>>

InterruptedNothing(c) == turns[c]   \* a mutant of the next
Interrupted(c) ==
  [n \in DOMAIN turns[c] |->
     IF Running(c) # {} /\ turns[c][n].status = "running"
     THEN [turns[c][n] EXCEPT !.status = "interrupted"] ELSE turns[c][n]]

RecoveredAtSameVersion(c) == session[c]   \* a mutant of the next
Recovered(c) ==
  IF Running(c) # {} THEN [session[c] EXCEPT !.version = @ + 1] ELSE session[c]

Settled(o) ==
  IF operation[o].status = "running"
  THEN [operation[o] EXCEPT !.status = "interrupted",
                            !.version = session[operation[o].conv].version + 1]
  ELSE operation[o]

NoPendingDeletions == {}   \* a mutant of the next
PendingDeletions == {c \in Conversations : session[c].state = "deleting"}

RecoverRunning ==
  /\ server = "down"
  /\ server' = "recovering"
  /\ session' = [c \in Conversations |-> Recovered(c)]
  /\ turns' = [c \in Conversations |-> Interrupted(c)]
  /\ operation' = [o \in Operations |-> Settled(o)]
  /\ pending' = PendingDeletions
  /\ UNCHANGED <<thread, saver, lock, pc, job, history>>

RetryDeletion(t, c) ==
  /\ server = "recovering" /\ c \in pending
  /\ \A u \in Tasks : pc[u] = "idle"
  /\ Enter(t, "erase", [NoJob EXCEPT !.conv = c])
  /\ pending' = pending \ {c}
  /\ UNCHANGED <<database, server, history>>

Serve ==
  /\ server = "recovering" /\ pending = {}
  /\ \A t \in Tasks : pc[t] = "idle"
  /\ server' = "serving"
  /\ UNCHANGED <<database, pending, lock, pc, job, history>>

-----------------------------------------------------------------------------
Init ==
  /\ session = [c \in Conversations |-> NoSession]
  /\ turns = [c \in Conversations |-> <<>>]
  /\ operation = [o \in Operations |-> NoOperation]
  /\ thread = [c \in Conversations |-> NoThread]
  /\ saver = [c \in Conversations |-> <<>>]
  /\ server = "down"
  /\ pending = {}
  /\ lock = [s \in Stripes |-> Null]
  /\ pc = [t \in Tasks |-> "idle"]
  /\ job = [t \in Tasks |-> NoJob]
  /\ view = [k \in Clients |-> [c \in Conversations |-> [version |-> 0, turns |-> <<>>]]]
  /\ inferences = [c \in Conversations |-> [o \in Operations |-> 0]]
  /\ context = [o \in Operations |-> {}]

(* What a task does once it is inside the lock. *)
Work(t) ==
  \/ ReservationRead(t) \/ StartRag(t) \/ StartThread(t)
  \/ PutBaseCheckpoint(t) \/ InsertThread(t)
  \/ StepGraph(t) \/ FinishGraph(t) \/ FinishRag(t)
  \/ PublishOperation(t) \/ Reply(t) \/ RecordFailure(t)
  \/ EraseCheckpoints(t) \/ CompleteDelete(t)

(* What the try block of the route handles, and what nothing handles.        *)
Caught(t) == \E v \in Verdicts : Fail(t, v) \/ FailInsert(t, v)

Uncaught(t) == AbandonReservation(t) \/ LoseVerdict(t) \/ AbortDelete(t)

Client(k) ==
  \E c \in Conversations :
     \/ ListTurns(k, c)
     \/ Rename(k, c)
     \/ \E t \in Tasks :
          \/ BeginDelete(t, k, c)
          \/ \E o \in Operations, m \in Modes, x \in Messages :
               ReserveOperation(t, k, c, o, m, x)

Startup ==
  \/ RecoverRunning
  \/ \E t \in Tasks, c \in Conversations : RetryDeletion(t, c)
  \/ Serve

Handled ==
  \/ \E c \in Conversations, m \in Modes : Create(c, m)
  \/ \E k \in Clients : Client(k)
  \/ \E t \in Tasks : Work(t) \/ Caught(t)
  \/ Startup
  \/ Crash

Next == Handled \/ \E t \in Tasks : Uncaught(t)

Spec == Init /\ [][Next]_vars
-----------------------------------------------------------------------------
(* Properties. *)

RowsTyped ==
  /\ session \in [Conversations -> Session]
  /\ turns \in [Conversations -> Seq(Turn)]
  /\ operation \in [Operations -> Operation]
  /\ thread \in [Conversations -> Thread]
  /\ saver \in [Conversations -> Seq(Checkpoint)]

TasksTyped ==
  /\ server \in {"down", "recovering", "serving"}
  /\ pending \in SUBSET Conversations
  /\ lock \in [Stripes -> Tasks \cup {Null}]
  /\ pc \in [Tasks -> PCs]
  /\ job \in [Tasks -> Job]

HistoryTyped ==
  /\ view \in [Clients -> [Conversations -> Reading]]
  /\ inferences \in [Conversations -> [Operations -> Nat]]
  /\ context \in [Operations -> SUBSET Answers]

(* Types; a completed turn has an answer, and an accepted operation carries *)
(* the version it was given.                                                *)
TypeOK == RowsTyped /\ TasksTyped /\ HistoryTyped

(* At most one operation of a conversation is running, the conversation is  *)
(* then active, and nothing has moved its version since the reservation:    *)
(* rename, deletion and other turns all wait for _ensure_idle.              *)
RunningFreezesConversation ==
  \A o \in Operations : operation[o].status = "running" =>
     LET c == operation[o].conv IN
     /\ Running(c) = {o}
     /\ session[c].state = "active"
     /\ session[c].version = operation[o].version

(* The model is run at most once for an operation of a conversation: not    *)
(* again after a retry, a lost reply, a failure, a crash or a recovery.     *)
InferenceAtMostOnce ==
  \A c \in Conversations, o \in Operations : inferences[c][o] <= 1

(* The operation table and the transcript tell the same story: a completed  *)
(* turn carries the answer of a completed operation on that turn that asked *)
(* the question shown, a running turn has its running append, and a failed  *)
(* append left its status there.                                            *)
TranscriptMatchesOperations ==
  \A c \in Conversations : \A n \in DOMAIN turns[c] :
    LET turn == turns[c][n]
        On(a, s) == {o \in Operations : /\ operation[o].conv = c /\ operation[o].turn = n
                                        /\ operation[o].action \in a
                                        /\ operation[o].status = s}
    IN CASE turn.status = "completed" -> /\ turn.answer \in On(Actions, "completed")
                                         /\ operation[turn.answer].message = turn.message
         [] OTHER -> /\ turn.answer = Null
                     /\ Cardinality(On({"append"}, turn.status)) = 1
                     /\ On({"replace_last"}, "completed") = {}

(* What an intelligent conversation would remember on its next turn is the  *)
(* recent part of the public transcript: the committed checkpoint pointer   *)
(* and the completed turns, kept in different tables and by different       *)
(* components, never drift apart, and raw checkpoints are never committed.  *)
ContextMatchesTranscript ==
  \A c \in Conversations :
    /\ session[c].state = "active" /\ session[c].mode = "intelligent"
    => LET prior == CompletedBefore(c, Len(turns[c]) + 1)
       IN /\ thread[c].completed = Cardinality(prior)
          /\ thread[c].exists => Recent(Remembered(c, thread[c].active)) = Recent(prior)
          /\ thread[c].active # 0 /\ prior # {} =>
               /\ saver[c][thread[c].active].whole
               /\ saver[c][thread[c].active].held

(* Every answer was given knowing exactly the recent completed turns before *)
(* its own, in both modes, also for a regenerated answer.                   *)
AnswersKnowPriorTurns ==
  \A o \in Operations :
    LET c == operation[o].conv IN
    \/ operation[o].status = "completed"
    \/ operation[o].status = "running" /\ inferences[c][o] > 0
    => context[o] = Recent(CompletedBefore(c, operation[o].turn))

(* The model's memory and the public transcript are one history, for what   *)
(* was answered and for what will be.                                       *)
MemoryFollowsTranscript == ContextMatchesTranscript /\ AnswersKnowPriorTurns

(* A version names one transcript: a client that still holds the current    *)
(* version holds the current turns, so no accepted request is based on a    *)
(* transcript its sender has not seen.                                      *)
VersionIdentifiesTranscript ==
  \A k \in Clients, c \in Conversations :
    session[c].version # 0 /\ view[k][c].version = session[c].version
    => view[k][c].turns = turns[c]

(* What makes the above inductive.  A task at work holds the stripe of its   *)
(* conversation; the operation it sends belongs to that conversation, and it *)
(* records a failure with a verdict; until it starts the model, no run of its*)
(* operation has been counted, and a run is counted only for an operation    *)
(* that is still known or whose conversation is gone for good.               *)
LocksHeld ==
  \A t \in Tasks : pc[t] # "idle" =>
    job[t].conv \in Conversations /\ lock[StripeOf[job[t].conv]] = t

OwnOperations ==
  \A t \in Tasks :
    /\ pc[t] \in Sending =>
         job[t].op \in Operations /\ operation[job[t].op].conv = job[t].conv
    /\ pc[t] = "failing" => job[t].verdict \in Verdicts

RunsAccounted ==
  /\ \A t \in Tasks : pc[t] \in {"reserved", "prepare", "insert_thread"} =>
       inferences[job[t].conv][job[t].op] = 0
  /\ \A c \in Conversations, o \in Operations :
       inferences[c][o] # 0 => operation[o].conv = c \/ session[c].state = "deleted"

(* The inductive invariant of SavedConversations_proofs.                     *)
IInv ==
  /\ TypeOK
  /\ LocksHeld /\ OwnOperations
  /\ RunningFreezesConversation
  /\ RunsAccounted /\ InferenceAtMostOnce

(* Deletion leaves nothing behind but the marker: no row of the deleted     *)
(* conversation and no checkpoint the saver would still return.             *)
TombstoneIsEmpty ==
  \A c \in Conversations : session[c].state = "deleted" =>
    /\ turns[c] = <<>> /\ ~thread[c].exists
    /\ \A o \in Operations : operation[o].conv # c
    /\ \A i \in DOMAIN saver[c] : ~saver[c][i].held

(* The rows of a conversation agree with each other and with the version    *)
(* its clients hold as long as it lives, and are gone with its checkpoints  *)
(* when it is deleted.                                                      *)
RowsTellOneStory == TranscriptMatchesOperations /\ VersionIdentifiesTranscript /\ TombstoneIsEmpty

(* What makes these inductive, conversation by conversation.  An operation   *)
(* is about a turn that asks its question: the turn it appended, which has    *)
(* its status, or an answered one; while it runs no later turn is answered.   *)
OnTheirTurns(c) ==
  \A o \in Operations : operation[o].conv = c =>
    LET n == operation[o].turn IN
    /\ n \in DOMAIN turns[c]
    /\ turns[c][n].message = operation[o].message
    /\ turns[c][n].status = IF operation[o].action = "append"
                            THEN operation[o].status ELSE "completed"
    /\ operation[o].status = "running" => \A m \in Completed(c) : m <= n

(* One operation appended each turn, and an answer is that of a completed    *)
(* operation on the turn.                                                    *)
Appends(c, n) ==
  {o \in Operations : /\ operation[o].conv = c /\ operation[o].turn = n
                      /\ operation[o].action = "append"}

TurnsAccounted(c) ==
  \A n \in DOMAIN turns[c] :
    LET a == turns[c][n].answer IN
    /\ \E o \in Operations : Appends(c, n) = {o}
    /\ IF turns[c][n].status = "completed"
       THEN /\ a \in Operations /\ operation[a].conv = c
            /\ operation[a].turn = n /\ operation[a].status = "completed"
       ELSE a = Null

NoneHeld(c) == \A i \in DOMAIN saver[c] : ~saver[c][i].held

NothingLeft(c) ==
  /\ session[c].state \in {"absent", "deleted"} =>
       turns[c] = <<>> /\ thread[c] = NoThread /\ \A o \in Operations : operation[o].conv # c
  /\ session[c].state = "deleted" => NoneHeld(c)

(* A version counts at least the turns, and no client is ahead of it.        *)
VersionsCount(c) ==
  /\ session[c].state = "active" => Len(turns[c]) < session[c].version
  /\ \A k \in Clients : session[c].state # "deleted" =>
       /\ view[k][c].version <= session[c].version
       /\ session[c].version # 0 /\ view[k][c].version = session[c].version =>
            view[k][c].turns = turns[c]

(* The active checkpoint remembers every answer, the previous one those      *)
(* before the newest, of which a regeneration starts.                        *)
PointersRemember(c) ==
  /\ thread[c].exists \/ thread[c] = NoThread
  /\ thread[c].active <= Len(saver[c]) /\ thread[c].previous <= Len(saver[c])
  /\ session[c].state = "active" /\ session[c].mode = "intelligent" =>
       /\ thread[c].completed = Cardinality(Completed(c))
       /\ Recent(Remembered(c, thread[c].active)) = Recent(CompletedBefore(c, Len(turns[c]) + 1))
       /\ \A n \in DOMAIN turns[c] : LatestCompleted(c, n) =>
            /\ Recent(Remembered(c, thread[c].previous)) = Recent(CompletedBefore(c, n))
            /\ thread[c].active \in DOMAIN saver[c]
            /\ saver[c][thread[c].active].whole /\ saver[c][thread[c].active].held

KnowsPrior(c) ==
  \A o \in Operations :
    /\ operation[o].conv = c
    /\ \/ operation[o].status = "completed"
       \/ operation[o].status = "running" /\ inferences[c][o] > 0
    => context[o] = Recent(CompletedBefore(c, operation[o].turn))

ConversationInv(c) ==
  /\ OnTheirTurns(c) /\ TurnsAccounted(c) /\ NothingLeft(c) /\ VersionsCount(c)
  /\ PointersRemember(c) /\ KnowsPrior(c)

(* A task sends for a running operation in the mode of its conversation; it  *)
(* inserts a thread only where there is none, it publishes a checkpoint that *)
(* adds its answer to what the model was given, and it deletes only what was *)
(* marked.                                                                   *)
Underway == Sending \ {"published", "failing"}

TaskInv(t) ==
  LET c == job[t].conv
      o == job[t].op
  IN
  /\ pc[t] # "idle" => c \notin pending
  /\ pc[t] \in Underway =>
       operation[o].status = "running" /\ session[c].mode = job[t].mode
  /\ pc[t] \in {"insert_thread", "stepped"} => job[t].mode = "intelligent"
  /\ pc[t] = "insert_thread" => ~thread[c].exists /\ Remembered(c, Len(saver[c])) = {}
  /\ pc[t] \in {"infer", "stepped", "publish"} => inferences[c][o] > 0
  /\ pc[t] = "publish" /\ job[t].mode = "intelligent" =>
       /\ job[t].terminal \in DOMAIN saver[c]
       /\ saver[c][job[t].terminal] =
            [turns |-> context[o] \cup {<<operation[o].turn, o>>}, whole |-> TRUE, held |-> TRUE]
  /\ pc[t] \in Deleting => session[c].state = "deleting"
  /\ pc[t] = "tombstone" => NoneHeld(c)

(* A stopped server has no task; what startup has yet to delete is marked.   *)
ServerInv ==
  /\ server = "down" => \A t \in Tasks : pc[t] = "idle"
  /\ server # "recovering" => pending = {}
  /\ \A c \in pending : session[c].state = "deleting"

(* The whole inductive invariant: tasks, transcript, versions and memory.    *)
StoryInv ==
  /\ IInv /\ ServerInv
  /\ \A c \in Conversations : ConversationInv(c)
  /\ \A t \in Tasks : TaskInv(t)

(* A finished operation is final until its conversation is deleted.         *)
TerminalIsFinal ==
  [][\A o \in Operations :
       operation[o].status \in {"completed", "failed", "interrupted"} =>
         \/ operation'[o] = operation[o]
         \/ session'[operation[o].conv].state = "deleted"]_vars

(* An answer a reader has seen is lost in two ways only: a completed        *)
(* regeneration of that very turn, or deletion of the conversation.  A      *)
(* failed, cancelled or crashed regeneration leaves it in place.            *)
AnswersSurvive ==
  [][\A c \in Conversations : \A n \in Completed(c) :
       \/ session'[c].state = "deleted"
       \/ turns'[c][n] = turns[c][n]
       \/ \E o \in Operations :
            /\ operation[o].status = "running" /\ operation'[o].status = "completed"
            /\ operation[o].conv = c /\ operation[o].turn = n
            /\ operation[o].action = "replace_last"
            /\ turns'[c][n] = [turns[c][n] EXCEPT !.answer = o]]_vars

(* A conversation's rows change together with its version, by one, and a    *)
(* conversation once marked deleting never becomes active again.            *)
VersionCountsChanges ==
  [][\A c \in Conversations :
       \/ session'[c].state = "deleted"
       \/ /\ turns'[c] = turns[c] /\ session'[c] = session[c]
          /\ \A o \in Operations : operation[o].conv = c => operation'[o] = operation[o]
       \/ /\ session'[c].version = session[c].version + 1
          /\ session[c].state = "deleting" => session'[c].state = "deleting"]_vars

(* What a client has seen of a conversation stays, or its version tells it:  *)
(* no answer is lost silently and no row moves under an old version.         *)
HistoryIsKept == AnswersSurvive /\ VersionCountsChanges

-----------------------------------------------------------------------------
(* Scheduling: a task inside the lock keeps moving (the model, the tools and *)
(* the storage answer or raise within their deadlines), and a stopped server *)
(* is started again.  Nothing makes a client act or a process crash.         *)
Fairness == (\A t \in Tasks : WF_vars(Work(t))) /\ WF_vars(Startup)

(* A service whose interruptions are those its handlers catch; it may still  *)
(* crash anywhere.                                                           *)
CaughtSpec == Init /\ [][Handled]_vars /\ Fairness

(* Accepted work settles: completed, failed or interrupted, through every    *)
(* failure and cancellation inside the try block and every crash.            *)
AcceptedWorkSettles ==
  \A o \in Operations : operation[o].status = "running" ~> operation[o].status # "running"

(* A deletion that was accepted is carried out once the server stays up:     *)
(* begun before a crash, it is finished by the startup.                      *)
DeletionSettles ==
  \A c \in Conversations :
    <>[](server # "down") =>
      (session[c].state = "deleting" ~> session[c].state = "deleted")

(* What the server accepted, a turn or a deletion, comes to its end.         *)
AcceptedRequestsSettle == AcceptedWorkSettles /\ DeletionSettles

-----------------------------------------------------------------------------
(* The promise to clients, and how the rows and checkpoints keep it.         *)

Busy(c) == IF Running(c) = {} THEN Null ELSE CHOOSE o \in Running(c) : TRUE

LogOf(c) ==
  [state |-> session[c].state, version |-> session[c].version,
   answers |-> CompletedBefore(c, Len(turns[c]) + 1), busy |-> Busy(c)]

OutcomeOf(o) ==
  [conv |-> operation[o].conv, turn |-> operation[o].turn, status |-> operation[o].status,
   knew |-> IF operation[o].status = "completed" THEN context[o] ELSE {}]

Promise == INSTANCE ConversationLog WITH
  log <- [c \in Conversations |-> LogOf(c)],
  outcome <- [o \in Operations |-> OutcomeOf(o)]

(* Saved conversations implement the abstract conversation log, with crashes *)
(* and cancellation at every await: acceptance, completion, failure and      *)
(* deletion each become visible in one step.                                 *)
KeepsPromise == Promise!Spec
=============================================================================
