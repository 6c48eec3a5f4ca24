---------------------- MODULE SavedConversations_proofs ----------------------
(***************************************************************************)
(* Proofs about SavedConversations, for every set of conversations,        *)
(* operations, clients and tasks, every stripe assignment and any bound.   *)
(* The first part is about exclusion, ownership and what is final; the     *)
(* second, from StoryInv on, about the one history that rows, versions,    *)
(* checkpoints and answers keep, which is the log clients were promised.   *)
(***************************************************************************)
EXTENDS SavedConversations, SequenceTheorems, FiniteSetTheorems, WellFoundedInduction, TLAPS

-----------------------------------------------------------------------------
(* Sequences of rows. *)

LEMMA SequenceOnDomain ==
  ASSUME NEW S, NEW old \in Seq(S), NEW new \in [DOMAIN old -> S]
  PROVE  new \in Seq(S)
<1>1. Len(old) \in Nat /\ DOMAIN old = 1..Len(old)
  BY LenProperties
<1>2. new \in [1..Len(old) -> S]
  BY <1>1
<1>3. QED BY <1>1, <1>2, SeqDef

LEMMA UpdatedSequence ==
  ASSUME NEW S, NEW seq \in Seq(S), NEW n, NEW e,
         n \in DOMAIN seq => e \in S
  PROVE  [seq EXCEPT ![n] = e] \in Seq(S)
<1>1. \A i \in DOMAIN seq : seq[i] \in S
  BY LenProperties, ElementOfSeq
<1>2. [seq EXCEPT ![n] = e] \in [DOMAIN seq -> S]
  BY <1>1
<1>3. QED BY <1>2, SequenceOnDomain

-----------------------------------------------------------------------------
(* Moving a task keeps the task variables typed and every other task's lock. *)

LEMMA EnterMoves ==
  ASSUME TasksTyped, LocksHeld, NEW t \in Tasks, NEW at \in PCs, NEW local \in Job,
         local.conv \in Conversations, server' = server, pending' \in SUBSET Conversations,
         Enter(t, at, local)
  PROVE  TasksTyped' /\ LocksHeld'
<1>1. StripeOf[local.conv] \in Stripes /\ t # Null
  BY StripeAssumption, NullAssumption
<1>2. TasksTyped'
  BY <1>1 DEF TasksTyped, Enter
<1>3. ASSUME NEW u \in Tasks, pc'[u] # "idle"
      PROVE  job'[u].conv \in Conversations /\ lock'[StripeOf[job'[u].conv]] = u
  <2>1. CASE u = t
    BY <1>1, <2>1 DEF TasksTyped, Enter
  <2>2. CASE u # t
    <3>1. job'[u] = job[u] /\ pc[u] # "idle"
      BY <1>3, <2>2 DEF TasksTyped, Enter
    <3>2. lock[StripeOf[job[u].conv]] = u /\ job[u].conv \in Conversations
      BY <3>1 DEF LocksHeld
    <3>3. u # Null /\ StripeOf[job[u].conv] \in Stripes
      BY <3>2, StripeAssumption, NullAssumption
    <3>4. lock'[StripeOf[job[u].conv]] = lock[StripeOf[job[u].conv]]
      BY <3>2, <3>3 DEF TasksTyped, Enter, Free
    <3>5. QED BY <3>1, <3>2, <3>4
  <2>3. QED BY <2>1, <2>2
<1>4. QED BY <1>2, <1>3 DEF LocksHeld

LEMMA GotoMoves ==
  ASSUME TasksTyped, LocksHeld, NEW t \in Tasks, NEW at \in PCs, NEW local \in Job,
         pc[t] # "idle", local.conv = job[t].conv,
         Goto(t, at, local)
  PROVE  TasksTyped' /\ LocksHeld'
<1>1. TasksTyped'
  BY DEF TasksTyped, Goto
<1>2. LocksHeld'
  BY DEF TasksTyped, LocksHeld, Goto
<1>3. QED BY <1>1, <1>2

LEMMA LeaveMoves ==
  ASSUME TasksTyped, LocksHeld, NEW t \in Tasks, pc[t] # "idle", Leave(t)
  PROVE  TasksTyped' /\ LocksHeld'
<1>1. NoJob \in Job /\ "idle" \in PCs
  BY DEF NoJob, Job, PCs
<1>2. TasksTyped'
  BY <1>1 DEF TasksTyped, Leave
<1>3. LocksHeld'
  BY StripeAssumption DEF TasksTyped, LocksHeld, Leave
<1>4. QED BY <1>2, <1>3

(* Two tasks at work are on different conversations.                         *)
LEMMA DifferentConversations ==
  ASSUME LocksHeld, NEW t \in Tasks, NEW u \in Tasks, t # u,
         pc[t] # "idle", pc[u] # "idle"
  PROVE  job[t].conv # job[u].conv
BY DEF LocksHeld

-----------------------------------------------------------------------------
(* Steps that move a task and leave sessions, operations and history alone.  *)

Starting == {"reserved", "prepare", "insert_thread"}

LEMMA WorkGoesOn ==
  ASSUME IInv, NEW t \in Tasks, NEW at \in PCs, NEW local \in Job,
         pc[t] # "idle", local.conv = job[t].conv, local.op = job[t].op,
         at \in Sending => pc[t] \in Sending,
         at \in Starting => pc[t] \in Starting,
         at = "failing" => local.verdict \in Verdicts,
         Goto(t, at, local), RowsTyped', UNCHANGED <<session, operation, history>>
  PROVE  IInv'
<1> USE DEF IInv
<1>1. TasksTyped' /\ LocksHeld'
  BY GotoMoves DEF TypeOK
<1>2. HistoryTyped'
  BY DEF TypeOK, HistoryTyped, history
<1>3. OwnOperations'
  BY DEF TypeOK, TasksTyped, OwnOperations, Goto
<1>4. RunningFreezesConversation'
  BY DEF RunningFreezesConversation, Running
<1>5. RunsAccounted'
  BY DEF TypeOK, TasksTyped, RunsAccounted, Goto, Starting, history
<1>6. InferenceAtMostOnce'
  BY DEF InferenceAtMostOnce, history
<1>7. QED BY <1>1, <1>2, <1>3, <1>4, <1>5, <1>6 DEF TypeOK

LEMMA WorkEnds ==
  ASSUME IInv, NEW t \in Tasks, pc[t] # "idle", Leave(t),
         RowsTyped', UNCHANGED <<session, operation, history>>
  PROVE  IInv'
<1> USE DEF IInv
<1>1. TasksTyped' /\ LocksHeld'
  BY LeaveMoves DEF TypeOK
<1>2. HistoryTyped'
  BY DEF TypeOK, HistoryTyped, history
<1>3. OwnOperations'
  BY DEF TypeOK, TasksTyped, OwnOperations, Leave, Sending, InTry
<1>4. RunningFreezesConversation'
  BY DEF RunningFreezesConversation, Running
<1>5. RunsAccounted'
  BY DEF TypeOK, TasksTyped, RunsAccounted, Leave, history
<1>6. InferenceAtMostOnce'
  BY DEF InferenceAtMostOnce, history
<1>7. QED BY <1>1, <1>2, <1>3, <1>4, <1>5, <1>6 DEF TypeOK

(* The rows stay typed when they are not written.                            *)
LEMMA RowsUnwritten ==
  ASSUME RowsTyped, UNCHANGED database
  PROVE  RowsTyped'
BY DEF RowsTyped, database

-----------------------------------------------------------------------------
(* The saver. *)

LEMMA CheckpointedTyped ==
  ASSUME RowsTyped, NEW c \in Conversations, NEW remembered \in SUBSET Answers,
         NEW whole \in BOOLEAN
  PROVE  Checkpointed(c, remembered, whole) \in Seq(Checkpoint)
<1>1. [turns |-> remembered, whole |-> whole, held |-> TRUE] \in Checkpoint
  BY DEF Checkpoint
<1>2. saver[c] \in Seq(Checkpoint)
  BY DEF RowsTyped
<1>3. QED BY <1>1, <1>2, AppendProperties DEF Checkpointed

LEMMA ErasedTyped ==
  ASSUME RowsTyped, NEW c \in Conversations
  PROVE  Erased(c) \in Seq(Checkpoint)
<1>1. saver[c] \in Seq(Checkpoint)
  BY DEF RowsTyped
<1>2. \A i \in DOMAIN saver[c] : saver[c][i] \in Checkpoint
  BY <1>1, LenProperties, ElementOfSeq
<1>3. Erased(c) \in [DOMAIN saver[c] -> Checkpoint]
  BY <1>2 DEF Erased, Checkpoint
<1>4. QED BY <1>1, <1>3, SequenceOnDomain

LEMMA RememberedTyped ==
  ASSUME RowsTyped, NEW c \in Conversations, NEW i
  PROVE  Remembered(c, i) \in SUBSET Answers
<1>1. saver[c] \in Seq(Checkpoint)
  BY DEF RowsTyped
<1>2. \A n \in DOMAIN saver[c] : saver[c][n] \in Checkpoint
  BY <1>1, LenProperties, ElementOfSeq
<1>3. QED BY <1>2 DEF Remembered, Checkpoint

LEMMA CompletedBeforeTyped ==
  ASSUME RowsTyped, NEW c \in Conversations, NEW n
  PROVE  CompletedBefore(c, n) \in SUBSET Answers
<1>1. turns[c] \in Seq(Turn)
  BY DEF RowsTyped
<1>2. DOMAIN turns[c] \subseteq Nat /\ \A m \in DOMAIN turns[c] : turns[c][m] \in Turn
  BY <1>1, LenProperties, ElementOfSeq
<1>3. QED BY <1>2 DEF CompletedBefore, Completed, Turn, Answers

-----------------------------------------------------------------------------
(* The steps of a task, one lemma per action. *)

LEMMA AtWork ==
  ASSUME IInv, NEW t \in Tasks, pc[t] # "idle"
  PROVE  /\ job[t] \in Job /\ job[t].conv \in Conversations
         /\ pc[t] \in Sending =>
              /\ job[t].op \in Operations
              /\ operation[job[t].op].conv = job[t].conv
              /\ operation[job[t].op] \in Operation
              /\ operation[job[t].op].turn \in Nat
BY DEF IInv, LocksHeld, OwnOperations, TypeOK, TasksTyped, RowsTyped, Operation, NoOperation

LEMMA ReservationReadStep ==
  ASSUME IInv, NEW t \in Tasks, ReservationRead(t)
  PROVE  IInv'
<1>1. pc[t] # "idle" /\ pc[t] \in Sending /\ pc[t] \in Starting
  BY DEF ReservationRead, Sending, Starting
<1>2. job[t] \in Job /\ "prepare" \in PCs
  BY <1>1, AtWork DEF PCs, Sending, InTry
<1>3. RowsTyped' /\ UNCHANGED <<session, operation, history>>
  BY RowsUnwritten DEF IInv, TypeOK, ReservationRead, database
<1>4. QED BY <1>1, <1>2, <1>3, WorkGoesOn DEF ReservationRead

LEMMA PutBaseCheckpointStep ==
  ASSUME IInv, NEW t \in Tasks, PutBaseCheckpoint(t)
  PROVE  IInv'
<1>1. pc[t] # "idle" /\ pc[t] \in Sending /\ pc[t] \in Starting
  BY DEF PutBaseCheckpoint, Sending, Starting, InTry
<1>2. job[t] \in Job /\ job[t].conv \in Conversations /\ "insert_thread" \in PCs
  BY <1>1, AtWork DEF PCs, Sending, InTry
<1>3. Checkpointed(job[t].conv, {}, TRUE) \in Seq(Checkpoint)
  BY <1>2, CheckpointedTyped DEF IInv, TypeOK
<1>4. RowsTyped'
  BY <1>3 DEF IInv, TypeOK, RowsTyped, PutBaseCheckpoint
<1>5. QED BY <1>1, <1>2, <1>4, WorkGoesOn DEF PutBaseCheckpoint

LEMMA StepGraphStep ==
  ASSUME IInv, NEW t \in Tasks, StepGraph(t)
  PROVE  IInv'
<1>1. pc[t] # "idle" /\ pc[t] \in Sending
  BY DEF StepGraph, Sending, InTry
<1>2. job[t] \in Job /\ job[t].conv \in Conversations /\ job[t].op \in Operations
  BY <1>1, AtWork
<1>3. context[job[t].op] \in SUBSET Answers
  BY <1>2 DEF IInv, TypeOK, HistoryTyped
<1>4. Checkpointed(job[t].conv, context[job[t].op], FALSE) \in Seq(Checkpoint)
  BY <1>2, <1>3, CheckpointedTyped DEF IInv, TypeOK
<1>5. RowsTyped'
  BY <1>4 DEF IInv, TypeOK, RowsTyped, StepGraph
<1>6. "stepped" \in PCs /\ "stepped" \notin Starting
  BY DEF PCs, Sending, InTry, Starting
<1>7. QED BY <1>1, <1>2, <1>5, <1>6, WorkGoesOn DEF StepGraph

LEMMA FinishGraphStep ==
  ASSUME IInv, NEW t \in Tasks, FinishGraph(t)
  PROVE  IInv'
<1> DEFINE c == job[t].conv
           o == job[t].op
           remembered == context[o] \cup {<<operation[o].turn, o>>}
           terminal == Len(saver'[c])
           local == [job[t] EXCEPT !.terminal = terminal]
<1>1. pc[t] # "idle" /\ pc[t] \in Sending
  BY DEF FinishGraph, Sending, InTry
<1>2. job[t] \in Job /\ c \in Conversations /\ o \in Operations /\ operation[o].turn \in Nat
  BY <1>1, AtWork
<1>3. remembered \in SUBSET Answers
  BY <1>2 DEF IInv, TypeOK, HistoryTyped, Answers
<1>4. Checkpointed(c, remembered, TRUE) \in Seq(Checkpoint)
  BY <1>2, <1>3, CheckpointedTyped DEF IInv, TypeOK
<1>5. RowsTyped'
  BY <1>2, <1>4 DEF IInv, TypeOK, RowsTyped, FinishGraph
<1>6. terminal \in Nat
  BY <1>2, <1>5, LenProperties DEF RowsTyped
<1>7. local \in Job /\ local.conv = job[t].conv /\ local.op = job[t].op
  BY <1>2, <1>6 DEF Job
<1>8. "publish" \in PCs /\ "publish" \notin Starting
  BY DEF PCs, Sending, InTry, Starting
<1>9. Goto(t, "publish", local) /\ UNCHANGED <<session, operation, history>>
  BY DEF FinishGraph
<1>10. QED BY <1>1, <1>5, <1>7, <1>8, <1>9, WorkGoesOn

LEMMA FinishRagStep ==
  ASSUME IInv, NEW t \in Tasks, FinishRag(t)
  PROVE  IInv'
<1>1. pc[t] # "idle" /\ pc[t] \in Sending
  BY DEF FinishRag, Sending, InTry
<1>2. job[t] \in Job /\ "publish" \in PCs /\ "publish" \notin Starting
  BY <1>1, AtWork DEF PCs, Sending, InTry, Starting
<1>3. RowsTyped' /\ UNCHANGED <<session, operation, history>>
  BY RowsUnwritten DEF IInv, TypeOK, FinishRag, database
<1>4. QED BY <1>1, <1>2, <1>3, WorkGoesOn DEF FinishRag

LEMMA FailStep ==
  ASSUME IInv, NEW t \in Tasks, NEW verdict \in Verdicts, Fail(t, verdict)
  PROVE  IInv'
<1> DEFINE local == [job[t] EXCEPT !.verdict = verdict]
<1>1. pc[t] # "idle" /\ pc[t] \in Sending
  BY DEF Fail, Sending, InTry
<1>2. local \in Job /\ local.conv = job[t].conv /\ local.op = job[t].op
      /\ local.verdict \in Verdicts
  BY <1>1, AtWork DEF Job
<1>3. "failing" \in PCs /\ "failing" \notin Starting
  BY DEF PCs, Sending, Starting
<1>4. RowsTyped' /\ UNCHANGED <<session, operation, history>>
  BY RowsUnwritten DEF IInv, TypeOK, Fail, database
<1>5. QED BY <1>1, <1>2, <1>3, <1>4, WorkGoesOn DEF Fail

LEMMA BaseThreadTyped ==
  ASSUME RowsTyped, NEW c \in Conversations
  PROVE  BaseThread(c) \in Thread
BY LenProperties DEF RowsTyped, BaseThread, Thread

LEMMA FailInsertStep ==
  ASSUME IInv, NEW t \in Tasks, NEW verdict \in Verdicts, FailInsert(t, verdict)
  PROVE  IInv'
<1> DEFINE c == job[t].conv
           local == [job[t] EXCEPT !.verdict = verdict]
<1>1. pc[t] # "idle" /\ pc[t] \in Sending
  BY DEF FailInsert, Sending, InTry
<1>2. local \in Job /\ local.conv = job[t].conv /\ local.op = job[t].op
      /\ local.verdict \in Verdicts /\ c \in Conversations
  BY <1>1, AtWork DEF Job
<1>3. "failing" \in PCs /\ "failing" \notin Starting
  BY DEF PCs, Sending, Starting
<1>4. Erased(c) \in Seq(Checkpoint) /\ BaseThread(c) \in Thread
  BY <1>2, ErasedTyped, BaseThreadTyped DEF IInv, TypeOK
<1>5. RowsTyped'
  BY <1>2, <1>4 DEF IInv, TypeOK, RowsTyped, FailInsert
<1>6. QED BY <1>1, <1>2, <1>3, <1>5, WorkGoesOn DEF FailInsert

LEMMA EraseCheckpointsStep ==
  ASSUME IInv, NEW t \in Tasks, EraseCheckpoints(t)
  PROVE  IInv'
<1>1. pc[t] # "idle" /\ pc[t] = "erase"
  BY DEF EraseCheckpoints
<1>2. job[t] \in Job /\ job[t].conv \in Conversations
  BY <1>1, AtWork
<1>3. "tombstone" \in PCs /\ "tombstone" \notin Sending /\ "tombstone" \notin Starting
  BY DEF PCs, Sending, InTry, Starting, Deleting
<1>4. RowsTyped'
  BY <1>2, ErasedTyped DEF IInv, TypeOK, RowsTyped, EraseCheckpoints
<1>5. QED BY <1>1, <1>2, <1>3, <1>4, WorkGoesOn DEF EraseCheckpoints

(* Steps that end a request and write nothing.                               *)
LEMMA EndWithoutWriting ==
  ASSUME IInv, NEW t \in Tasks,
         Reply(t) \/ AbandonReservation(t) \/ LoseVerdict(t) \/ AbortDelete(t)
  PROVE  IInv'
<1>1. pc[t] # "idle" /\ Leave(t) /\ UNCHANGED <<database, history>>
  BY DEF Reply, AbandonReservation, LoseVerdict, AbortDelete, Deleting
<1>2. RowsTyped' /\ UNCHANGED <<session, operation, history>>
  BY <1>1, RowsUnwritten DEF IInv, TypeOK, database
<1>3. QED BY <1>1, <1>2, WorkEnds

(* The model is run: the first and only time for this operation.             *)
LEMMA RunStarts ==
  ASSUME IInv, NEW t \in Tasks, NEW local \in Job, NEW prior \in SUBSET Answers,
         pc[t] \in {"prepare", "insert_thread"},
         local.conv = job[t].conv, local.op = job[t].op,
         Run(t, prior), Goto(t, "infer", local),
         RowsTyped', UNCHANGED <<session, operation>>
  PROVE  IInv'
<1> DEFINE c == job[t].conv
           o == job[t].op
<1>1. pc[t] # "idle" /\ pc[t] \in Sending
  BY DEF Sending, InTry
<1>2. c \in Conversations /\ o \in Operations /\ operation[o].conv = c
  BY <1>1, AtWork
<1>3. "infer" \in PCs /\ "infer" \in Sending
  BY DEF PCs, Sending, InTry
<1>4. TasksTyped' /\ LocksHeld'
  BY <1>1, <1>3, GotoMoves DEF IInv, TypeOK
<1>5. HistoryTyped'
  <2>1. Recent(prior) \in SUBSET Answers
    BY DEF Recent
  <2>2. inferences' \in [Conversations -> [Operations -> Nat]]
    BY <1>2 DEF IInv, TypeOK, HistoryTyped, Run
  <2>3. QED BY <2>1, <2>2, <1>2 DEF IInv, TypeOK, HistoryTyped, Run
<1>6. OwnOperations'
  BY <1>1 DEF IInv, TypeOK, TasksTyped, OwnOperations, Goto
<1>7. RunningFreezesConversation'
  BY DEF IInv, RunningFreezesConversation, Running
<1>8. inferences[c][o] = 0
  BY DEF IInv, RunsAccounted
<1>9. inferences' = [inferences EXCEPT ![c] = [inferences[c] EXCEPT ![o] = 1]]
  BY <1>2, <1>8 DEF IInv, TypeOK, HistoryTyped, Run
<1>10. InferenceAtMostOnce'
  BY <1>2, <1>9 DEF IInv, TypeOK, HistoryTyped, InferenceAtMostOnce
<1>11. RunsAccounted'
  <2>1. ASSUME NEW u \in Tasks, pc'[u] \in {"reserved", "prepare", "insert_thread"}
        PROVE  inferences'[job'[u].conv][job'[u].op] = 0
    <3>1. u # t /\ pc'[u] = pc[u] /\ job'[u] = job[u]
      BY <2>1 DEF IInv, TypeOK, TasksTyped, Goto
    <3>2. pc[u] # "idle" /\ inferences[job[u].conv][job[u].op] = 0
      BY <2>1, <3>1 DEF IInv, RunsAccounted
    <3>3. job[u].conv # c /\ job[u].conv \in Conversations
      BY <3>1, <3>2, <1>1, DifferentConversations, AtWork DEF IInv
    <3>4. inferences'[job[u].conv] = inferences[job[u].conv]
      BY <3>3, <1>9 DEF IInv, TypeOK, HistoryTyped
    <3>5. QED BY <3>1, <3>2, <3>4
  <2>2. ASSUME NEW d \in Conversations, NEW p \in Operations, inferences'[d][p] # 0
        PROVE  operation'[p].conv = d \/ session'[d].state = "deleted"
    <3>1. (d = c /\ p = o) \/ inferences[d][p] # 0
      BY <2>2, <1>9 DEF IInv, TypeOK, HistoryTyped
    <3>2. QED BY <3>1, <1>2 DEF IInv, RunsAccounted
  <2>3. QED BY <2>1, <2>2 DEF RunsAccounted
<1>12. QED BY <1>4, <1>5, <1>6, <1>7, <1>10, <1>11 DEF IInv, TypeOK

LEMMA StartRagStep ==
  ASSUME IInv, NEW t \in Tasks, StartRag(t)
  PROVE  IInv'
<1> DEFINE c == job[t].conv
           prior == CompletedBefore(c, operation[job[t].op].turn)
<1>1. pc[t] = "prepare" /\ pc[t] # "idle"
  BY DEF StartRag
<1>2. job[t] \in Job /\ c \in Conversations
  BY <1>1, AtWork
<1>3. prior \in SUBSET Answers
  BY <1>2, CompletedBeforeTyped DEF IInv, TypeOK
<1>4. RowsTyped' /\ UNCHANGED <<session, operation>>
  BY RowsUnwritten DEF IInv, TypeOK, StartRag, database
<1>5. Run(t, prior) /\ Goto(t, "infer", job[t])
  BY DEF StartRag
<1>6. QED BY <1>1, <1>2, <1>3, <1>4, <1>5, RunStarts

(* From a thread, whether it was read or has just been inserted.             *)
LEMMA StartFromStep ==
  ASSUME IInv, NEW t \in Tasks, NEW th \in Thread,
         pc[t] \in {"prepare", "insert_thread"}, StartFrom(t, th),
         RowsTyped', UNCHANGED <<session, operation>>
  PROVE  IInv'
<1> DEFINE c == job[t].conv
           action == operation[job[t].op].action
           start == StartOf(th, action)
           failed == [job[t] EXCEPT !.verdict = "failed"]
           running == [job[t] EXCEPT !.active = th.active]
<1>1. pc[t] # "idle" /\ pc[t] \in Sending
  BY DEF Sending, InTry
<1>2. job[t] \in Job /\ c \in Conversations
  BY <1>1, AtWork
<1>3. CASE start = 0 \/ (action = "replace_last" /\ th.completed = 0)
  <2>1. Goto(t, "failing", failed) /\ UNCHANGED history
    BY <1>3 DEF StartFrom
  <2>2. failed \in Job /\ failed.conv = job[t].conv /\ failed.op = job[t].op
        /\ failed.verdict \in Verdicts
    BY <1>2 DEF Job, Verdicts
  <2>3. "failing" \in PCs /\ "failing" \notin Starting
    BY DEF PCs, Sending, Starting
  <2>4. QED BY <1>1, <2>1, <2>2, <2>3, WorkGoesOn
<1>4. CASE ~(start = 0 \/ (action = "replace_last" /\ th.completed = 0))
  <2>1. Run(t, Remembered(c, start)) /\ Goto(t, "infer", running)
    BY <1>4 DEF StartFrom
  <2>2. running \in Job /\ running.conv = job[t].conv /\ running.op = job[t].op
    BY <1>2 DEF Job, Thread
  <2>3. Remembered(c, start) \in SUBSET Answers
    BY <1>2, RememberedTyped DEF IInv, TypeOK
  <2>4. QED BY <2>1, <2>2, <2>3, RunStarts
<1>5. QED BY <1>3, <1>4

LEMMA StartThreadStep ==
  ASSUME IInv, NEW t \in Tasks, StartThread(t)
  PROVE  IInv'
<1>1. pc[t] = "prepare" /\ StartFrom(t, thread[job[t].conv])
  BY DEF StartThread
<1>2. thread[job[t].conv] \in Thread
  BY <1>1, AtWork DEF IInv, TypeOK, RowsTyped
<1>3. RowsTyped' /\ UNCHANGED <<session, operation>>
  BY RowsUnwritten DEF IInv, TypeOK, StartThread, database
<1>4. QED BY <1>1, <1>2, <1>3, StartFromStep

LEMMA InsertThreadStep ==
  ASSUME IInv, NEW t \in Tasks, InsertThread(t)
  PROVE  IInv'
<1> DEFINE c == job[t].conv
<1>1. pc[t] = "insert_thread" /\ StartFrom(t, BaseThread(c))
  BY DEF InsertThread
<1>2. BaseThread(c) \in Thread
  BY <1>1, AtWork, BaseThreadTyped DEF IInv, TypeOK
<1>3. RowsTyped' /\ UNCHANGED <<session, operation>>
  BY <1>2 DEF IInv, TypeOK, RowsTyped, InsertThread
<1>4. QED BY <1>1, <1>2, <1>3, StartFromStep

(* An operation settles: it was the one running operation of its             *)
(* conversation, so the new version belongs to no other running operation.   *)
Settles(t, status) ==
  /\ session' = [session EXCEPT ![job[t].conv].version = @ + 1]
  /\ operation' = [operation EXCEPT ![job[t].op].status = status,
                                    ![job[t].op].version = session[job[t].conv].version + 1]

LEMMA SettledTyped ==
  ASSUME IInv, NEW t \in Tasks, NEW status \in TurnStatus, pc[t] \in Sending, pc[t] # "idle",
         operation[job[t].op].status = "running", Settles(t, status)
  PROVE  /\ session' \in [Conversations -> Session]
         /\ operation' \in [Operations -> Operation]
         /\ \A d \in Conversations : session'[d].state = session[d].state
         /\ \A p \in Operations : operation'[p].conv = operation[p].conv
<1> DEFINE c == job[t].conv
           o == job[t].op
<1>1. c \in Conversations /\ o \in Operations /\ operation[o].conv = c
  BY AtWork
<1>2. session[c].state = "active"
  BY <1>1 DEF IInv, RunningFreezesConversation
<1>3. session \in [Conversations -> Session] /\ operation \in [Operations -> Operation]
  BY DEF IInv, TypeOK, RowsTyped
<1>4. session[c] \in [state : {"active", "deleting"}, version : Nat, mode : Modes]
  BY <1>1, <1>2, <1>3 DEF Session, NoSession, Tombstone
<1>5. [session[c] EXCEPT !.version = @ + 1] \in Session
  BY <1>4 DEF Session
<1>6. session' \in [Conversations -> Session]
  BY <1>1, <1>3, <1>5 DEF Settles
<1>7. operation[o] \in [conv : Conversations, turn : Nat, action : Actions, message : Messages,
                        status : TurnStatus, version : Nat]
  BY <1>1, <1>3 DEF Operation, NoOperation
<1>8. [operation[o] EXCEPT !.status = status, !.version = session[c].version + 1] \in Operation
  <2>1. session[c].version + 1 \in Nat
    BY <1>4
  <2>2. [operation[o] EXCEPT !.status = status, !.version = session[c].version + 1]
          \in [conv : Conversations, turn : Nat, action : Actions, message : Messages,
              status : TurnStatus, version : Nat]
    BY <1>7, <2>1
  <2>3. QED BY <2>2 DEF Operation
<1>9. operation' \in [Operations -> Operation]
  BY <1>1, <1>3, <1>8 DEF Settles
<1>10. \A d \in Conversations : session'[d].state = session[d].state
  BY <1>1, <1>3, <1>4 DEF Settles
<1>11. \A p \in Operations : operation'[p].conv = operation[p].conv
  BY <1>1, <1>3, <1>7 DEF Settles
<1>12. QED BY <1>6, <1>9, <1>10, <1>11

LEMMA OperationSettles ==
  ASSUME IInv, NEW t \in Tasks, NEW status \in TurnStatus, status # "running",
         pc[t] \in Sending, pc[t] # "idle",
         operation[job[t].op].status = "running", Settles(t, status), UNCHANGED history,
         \A u \in Tasks : pc'[u] \in Sending =>
           pc[u] \in Sending /\ job'[u].conv = job[u].conv /\ job'[u].op = job[u].op,
         \A u \in Tasks : pc'[u] \in Starting \cup {"failing"} => pc'[u] = pc[u],
         \A u \in Tasks : pc'[u] = "failing" => job'[u] = job[u],
         RowsTyped', TasksTyped', LocksHeld'
  PROVE  IInv'
<1> DEFINE c == job[t].conv
           o == job[t].op
<1>1. c \in Conversations /\ o \in Operations /\ operation[o].conv = c
  BY AtWork
<1>2. /\ \A d \in Conversations : session'[d].state = session[d].state
      /\ \A p \in Operations : operation'[p].conv = operation[p].conv
  BY SettledTyped
<1>3. OwnOperations'
  BY <1>2 DEF IInv, OwnOperations, Sending
<1>4. RunningFreezesConversation'
  <2>1. ASSUME NEW p \in Operations, operation'[p].status = "running"
        PROVE  /\ {q \in Operations : /\ operation'[q].conv = operation'[p].conv
                                     /\ operation'[q].status = "running"} = {p}
               /\ session'[operation'[p].conv].state = "active"
               /\ session'[operation'[p].conv].version = operation'[p].version
    <3>1. p # o /\ operation'[p] = operation[p]
      BY <1>1, <2>1 DEF IInv, TypeOK, RowsTyped, Settles
    <3>2. operation[p].conv # c
      BY <1>1, <2>1, <3>1 DEF IInv, RunningFreezesConversation, Running
    <3>3. Running(operation[p].conv) = {p} /\ session[operation[p].conv].state = "active"
          /\ session[operation[p].conv].version = operation[p].version
      BY <2>1, <3>1 DEF IInv, RunningFreezesConversation
    <3>4. operation[p].conv \in Conversations
      BY <2>1, <3>1 DEF IInv, TypeOK, RowsTyped, Operation, NoOperation
    <3>5. session'[operation[p].conv] = session[operation[p].conv]
      BY <3>2, <3>4 DEF IInv, TypeOK, RowsTyped, Settles
    <3>6. \A q \in Operations : q # o => operation'[q] = operation[q]
      BY <1>1 DEF IInv, TypeOK, RowsTyped, Settles
    <3>7. {q \in Operations : /\ operation'[q].conv = operation[p].conv
                              /\ operation'[q].status = "running"} = Running(operation[p].conv)
      BY <1>1, <1>2, <3>2, <3>6 DEF Running
    <3>8. QED BY <3>1, <3>3, <3>5, <3>7
  <2>2. QED BY <2>1 DEF RunningFreezesConversation, Running
<1>5. RunsAccounted'
  <2>1. ASSUME NEW u \in Tasks, pc'[u] \in {"reserved", "prepare", "insert_thread"}
        PROVE  inferences'[job'[u].conv][job'[u].op] = 0
    <3>1. pc'[u] \in Starting /\ pc'[u] \in Sending
      BY <2>1 DEF Starting, Sending, InTry
    <3>2. QED BY <2>1, <3>1 DEF IInv, RunsAccounted, history
  <2>2. QED BY <1>2, <2>1 DEF IInv, RunsAccounted, history
<1>6. HistoryTyped' /\ InferenceAtMostOnce'
  BY DEF IInv, TypeOK, HistoryTyped, InferenceAtMostOnce, history
<1>7. QED BY <1>3, <1>4, <1>5, <1>6 DEF IInv, TypeOK

LEMMA AdvancedTyped ==
  ASSUME NEW th \in Thread, NEW action, NEW terminal \in Nat
  PROVE  Advanced(th, action, terminal) \in Thread
<1>1. th.active \in Nat /\ th.completed + 1 \in Nat
  BY DEF Thread
<1>2. [th EXCEPT !.active = terminal] \in Thread
  BY DEF Thread
<1>3. [[th EXCEPT !.previous = th.active, !.active = terminal] EXCEPT !.completed = th.completed + 1]
        \in Thread
  BY <1>1 DEF Thread
<1>4. QED BY <1>2, <1>3 DEF Advanced

LEMMA TurnTyped ==
  ASSUME RowsTyped, NEW c \in Conversations, NEW n \in DOMAIN turns[c]
  PROVE  turns[c][n] \in Turn /\ turns[c][n].message \in Messages
         /\ turns[c][n].answer \in Operations \cup {Null}
<1>1. turns[c] \in Seq(Turn)
  BY DEF RowsTyped
<1>2. turns[c][n] \in Turn
  BY <1>1, LenProperties, ElementOfSeq
<1>3. QED BY <1>2 DEF Turn

LEMMA PublishOperationStep ==
  ASSUME IInv, NEW t \in Tasks, PublishOperation(t)
  PROVE  IInv'
<1> DEFINE c == job[t].conv
           o == job[t].op
           n == operation[o].turn
           failed == [job[t] EXCEPT !.verdict = "failed"]
           answered == [turns[c][n] EXCEPT !.status = "completed", !.answer = o]
<1>1. pc[t] = "publish" /\ pc[t] # "idle" /\ pc[t] \in Sending /\ pc[t] \notin Starting
  BY DEF PublishOperation, Sending, InTry, Starting
<1>2. job[t] \in Job /\ c \in Conversations /\ o \in Operations /\ operation[o].conv = c
  BY <1>1, AtWork
<1>3. CASE ~Publishable(c, o, job[t])
  <2>1. Goto(t, "failing", failed) /\ UNCHANGED <<session, turns, operation, thread, saver, history>>
    BY <1>3 DEF PublishOperation
  <2>2. failed \in Job /\ failed.conv = job[t].conv /\ failed.op = job[t].op
        /\ failed.verdict \in Verdicts
    BY <1>2 DEF Job, Verdicts
  <2>3. "failing" \in PCs /\ "failing" \notin Starting
    BY DEF PCs, Sending, Starting
  <2>4. RowsTyped'
    BY <2>1 DEF IInv, TypeOK, RowsTyped
  <2>5. QED BY <1>1, <2>1, <2>2, <2>3, <2>4, WorkGoesOn
<1>4. CASE Publishable(c, o, job[t])
  <2>1. /\ thread' = IF job[t].mode = "rag_only" THEN thread
                     ELSE [thread EXCEPT ![c] = Advanced(@, operation[o].action, job[t].terminal)]
        /\ turns' = [turns EXCEPT ![c][n] = answered]
        /\ Settles(t, "completed") /\ Goto(t, "published", job[t])
        /\ UNCHANGED <<saver, history>>
    BY <1>4 DEF PublishOperation, Settles
  <2>2. operation[o].status = "running"
    BY <1>4 DEF Publishable
  <2>3. session' \in [Conversations -> Session] /\ operation' \in [Operations -> Operation]
    BY <1>1, <2>1, <2>2, SettledTyped DEF TurnStatus
  <2>4. thread' \in [Conversations -> Thread]
    <3>1. job[t].terminal \in Nat /\ thread[c] \in Thread /\ thread \in [Conversations -> Thread]
      BY <1>2 DEF Job, IInv, TypeOK, RowsTyped
    <3>2. Advanced(thread[c], operation[o].action, job[t].terminal) \in Thread
      BY <3>1, AdvancedTyped
    <3>3. QED BY <2>1, <3>1, <3>2
  <2>5. turns' \in [Conversations -> Seq(Turn)]
    <3>1. turns \in [Conversations -> Seq(Turn)] /\ turns[c] \in Seq(Turn)
      BY <1>2 DEF IInv, TypeOK, RowsTyped
    <3>2. n \in DOMAIN turns[c] => answered \in Turn
      <4> SUFFICES ASSUME n \in DOMAIN turns[c] PROVE answered \in Turn
        OBVIOUS
      <4>1. turns[c][n] \in [message : Messages, status : TurnStatus,
                              answer : Operations \cup {Null}]
        BY <1>2, TurnTyped DEF IInv, TypeOK, Turn
      <4>2. answered \in [message : Messages, status : TurnStatus, answer : Operations \cup {Null}]
            /\ answered.answer = o
        BY <1>2, <4>1 DEF TurnStatus
      <4>3. QED BY <1>2, <4>2, NullAssumption DEF Turn
    <3>3. [turns[c] EXCEPT ![n] = answered] \in Seq(Turn)
      BY <3>1, <3>2, UpdatedSequence
    <3>4. QED BY <1>2, <2>1, <3>1, <3>3
  <2>6. RowsTyped'
    BY <2>1, <2>3, <2>4, <2>5 DEF IInv, TypeOK, RowsTyped
  <2>7. "published" \in PCs /\ "published" \in Sending /\ "published" \notin Starting
    BY DEF PCs, Sending, InTry, Starting
  <2>8. TasksTyped' /\ LocksHeld'
    BY <1>1, <1>2, <2>1, <2>7, GotoMoves DEF IInv, TypeOK
  <2>9. \A u \in Tasks : pc'[u] \in Sending =>
          pc[u] \in Sending /\ job'[u].conv = job[u].conv /\ job'[u].op = job[u].op
    BY <1>1, <2>1 DEF Goto, IInv, TypeOK, TasksTyped
  <2>10. \A u \in Tasks : pc'[u] \in Starting \cup {"failing"} => pc'[u] = pc[u]
    BY <2>1, <2>7 DEF Goto, IInv, TypeOK, TasksTyped
  <2>11. \A u \in Tasks : pc'[u] = "failing" => job'[u] = job[u]
    BY <2>1 DEF Goto, IInv, TypeOK, TasksTyped
  <2>12. QED
    BY <1>1, <2>1, <2>2, <2>6, <2>8, <2>9, <2>10, <2>11, OperationSettles DEF TurnStatus
<1>5. QED BY <1>3, <1>4

LEMMA RecordFailureStep ==
  ASSUME IInv, NEW t \in Tasks, RecordFailure(t)
  PROVE  IInv'
<1> DEFINE c == job[t].conv
           o == job[t].op
           n == operation[o].turn
           verdict == job[t].verdict
<1>1. pc[t] = "failing" /\ pc[t] # "idle" /\ pc[t] \in Sending
  BY DEF RecordFailure, Sending
<1>2. job[t] \in Job /\ c \in Conversations /\ o \in Operations /\ operation[o].conv = c
  BY <1>1, AtWork
<1>3. Leave(t) /\ UNCHANGED <<thread, saver, history>>
  BY DEF RecordFailure
<1>4. CASE ~Unsettled(o)
  <2>1. UNCHANGED <<session, turns, operation>>
    BY <1>4 DEF RecordFailure
  <2>2. RowsTyped'
    BY <1>3, <2>1 DEF IInv, TypeOK, RowsTyped
  <2>3. QED BY <1>1, <1>3, <2>1, <2>2, WorkEnds
<1>5. CASE Unsettled(o)
  <2>1. /\ turns' = IF FailsTurn(o) THEN [turns EXCEPT ![c][n].status = verdict] ELSE turns
        /\ Settles(t, verdict)
    BY <1>5 DEF RecordFailure, Settles
  <2>2. verdict \in TurnStatus /\ verdict # "running" /\ verdict # "completed"
    BY <1>1 DEF IInv, OwnOperations, Verdicts, TurnStatus
  <2>3. operation[o].status = "running"
    BY <1>5 DEF Unsettled
  <2>4. session' \in [Conversations -> Session] /\ operation' \in [Operations -> Operation]
    BY <1>1, <2>1, <2>2, <2>3, SettledTyped
  <2>5. turns' \in [Conversations -> Seq(Turn)]
    <3>1. turns \in [Conversations -> Seq(Turn)] /\ turns[c] \in Seq(Turn)
      BY <1>2 DEF IInv, TypeOK, RowsTyped
    <3>2. n \in DOMAIN turns[c] => [turns[c][n] EXCEPT !.status = verdict] \in Turn
      BY <1>2, <2>2, TurnTyped DEF IInv, TypeOK, Turn
    <3>3. [turns[c] EXCEPT ![n] = [turns[c][n] EXCEPT !.status = verdict]] \in Seq(Turn)
      BY <3>1, <3>2, UpdatedSequence
    <3>4. QED BY <1>2, <2>1, <3>1, <3>3
  <2>6. RowsTyped'
    BY <1>3, <2>4, <2>5 DEF IInv, TypeOK, RowsTyped
  <2>7. TasksTyped' /\ LocksHeld'
    BY <1>1, <1>3, LeaveMoves DEF IInv, TypeOK
  <2>8. \A u \in Tasks : pc'[u] \in Sending =>
          pc[u] \in Sending /\ job'[u].conv = job[u].conv /\ job'[u].op = job[u].op
    BY <1>3 DEF Leave, IInv, TypeOK, TasksTyped, Sending, InTry
  <2>9. \A u \in Tasks : pc'[u] \in Starting \cup {"failing"} => pc'[u] = pc[u]
    BY <1>3 DEF Leave, IInv, TypeOK, TasksTyped, Starting
  <2>10. \A u \in Tasks : pc'[u] = "failing" => job'[u] = job[u]
    BY <1>3 DEF Leave, IInv, TypeOK, TasksTyped
  <2>11. QED
    BY <1>1, <1>3, <2>1, <2>2, <2>3, <2>6, <2>7, <2>8, <2>9, <2>10, OperationSettles
<1>6. QED BY <1>4, <1>5

LEMMA CompleteDeleteStep ==
  ASSUME IInv, NEW t \in Tasks, CompleteDelete(t)
  PROVE  IInv'
<1> DEFINE c == job[t].conv
<1>1. pc[t] = "tombstone" /\ pc[t] # "idle" /\ c \in Conversations /\ c # Null
  BY AtWork, NullAssumption DEF CompleteDelete
<1>2. /\ operation' = [o \in Operations |->
                       IF operation[o].conv = c THEN NoOperation ELSE operation[o]]
      /\ session' = [session EXCEPT ![c] = Tombstone]
      /\ Leave(t) /\ UNCHANGED <<saver, history>>
  BY DEF CompleteDelete
<1>3. RowsTyped'
  <2>1. Tombstone \in Session /\ NoOperation \in Operation /\ NoThread \in Thread
        /\ <<>> \in Seq(Turn)
    BY DEF Session, Operation, NoThread, Thread
  <2>2. QED BY <2>1 DEF IInv, TypeOK, RowsTyped, CompleteDelete
<1>4. TasksTyped' /\ LocksHeld'
  BY <1>1, <1>2, LeaveMoves DEF IInv, TypeOK
<1>5. ASSUME NEW u \in Tasks, pc'[u] # "idle"
      PROVE  pc'[u] = pc[u] /\ job'[u] = job[u] /\ job[u].conv # c
  <2>1. u # t /\ pc'[u] = pc[u] /\ job'[u] = job[u]
    BY <1>2, <1>5 DEF Leave, IInv, TypeOK, TasksTyped
  <2>2. QED BY <1>1, <1>5, <2>1, DifferentConversations DEF IInv
<1>6. OwnOperations'
  <2>1. ASSUME NEW u \in Tasks, pc'[u] \in Sending
        PROVE  job'[u].op \in Operations /\ operation'[job'[u].op].conv = job'[u].conv
    <3>1. pc'[u] = pc[u] /\ job'[u] = job[u] /\ job[u].conv # c
      BY <1>5, <2>1 DEF Sending, InTry
    <3>2. job[u].op \in Operations /\ operation[job[u].op].conv = job[u].conv
      BY <2>1, <3>1 DEF IInv, OwnOperations
    <3>3. QED BY <1>2, <3>1, <3>2
  <2>2. \A u \in Tasks : pc'[u] = "failing" => job'[u].verdict \in Verdicts
    BY <1>5 DEF IInv, OwnOperations
  <2>3. QED BY <2>1, <2>2 DEF OwnOperations
<1>7. RunningFreezesConversation'
  <2>1. ASSUME NEW p \in Operations, operation'[p].status = "running"
        PROVE  /\ {q \in Operations : /\ operation'[q].conv = operation'[p].conv
                                     /\ operation'[q].status = "running"} = {p}
               /\ session'[operation'[p].conv].state = "active"
               /\ session'[operation'[p].conv].version = operation'[p].version
    <3>1. operation'[p] = operation[p] /\ operation[p].conv # c
      BY <1>2, <2>1 DEF NoOperation
    <3>2. Running(operation[p].conv) = {p} /\ session[operation[p].conv].state = "active"
          /\ session[operation[p].conv].version = operation[p].version
      BY <2>1, <3>1 DEF IInv, RunningFreezesConversation
    <3>3. operation[p].conv \in Conversations
      BY <2>1, <3>1 DEF IInv, TypeOK, RowsTyped, Operation, NoOperation
    <3>4. session'[operation[p].conv] = session[operation[p].conv]
      BY <1>2, <3>1, <3>3 DEF IInv, TypeOK, RowsTyped
    <3>5. {q \in Operations : /\ operation'[q].conv = operation[p].conv
                              /\ operation'[q].status = "running"} = Running(operation[p].conv)
      BY <1>2, <3>1 DEF Running, NoOperation
    <3>6. QED BY <3>1, <3>2, <3>4, <3>5
  <2>2. QED BY <2>1 DEF RunningFreezesConversation, Running
<1>8. RunsAccounted'
  <2>1. ASSUME NEW u \in Tasks, pc'[u] \in {"reserved", "prepare", "insert_thread"}
        PROVE  inferences'[job'[u].conv][job'[u].op] = 0
    BY <1>2, <1>5, <2>1 DEF IInv, RunsAccounted, history
  <2>2. ASSUME NEW d \in Conversations, NEW p \in Operations, inferences'[d][p] # 0
        PROVE  operation'[p].conv = d \/ session'[d].state = "deleted"
    <3>1. operation[p].conv = d \/ session[d].state = "deleted"
      BY <1>2, <2>2 DEF IInv, RunsAccounted, history
    <3>2. CASE d = c
      BY <1>2, <3>2 DEF IInv, TypeOK, RowsTyped, Tombstone
    <3>3. CASE d # c
      BY <1>2, <3>1, <3>3 DEF IInv, TypeOK, RowsTyped
    <3>4. QED BY <3>2, <3>3
  <2>3. QED BY <2>1, <2>2 DEF RunsAccounted
<1>9. HistoryTyped' /\ InferenceAtMostOnce'
  BY <1>2 DEF IInv, TypeOK, HistoryTyped, InferenceAtMostOnce, history
<1>10. QED BY <1>3, <1>4, <1>6, <1>7, <1>8, <1>9 DEF IInv, TypeOK

-----------------------------------------------------------------------------
(* Requests and the process. *)

(* An accepted request marks its own conversation busy and no other.         *)
LEMMA ReserveOperationStep ==
  ASSUME IInv, NEW t \in Tasks, NEW k \in Clients, NEW c \in Conversations,
         NEW o \in Operations, NEW m \in Modes, NEW x \in Messages,
         ReserveOperation(t, k, c, o, m, x)
  PROVE  IInv'
<1> DEFINE local == [NoJob EXCEPT !.conv = c, !.op = o, !.mode = m]
           asked == [message |-> x, status |-> "running", answer |-> Null]
           v == session[c].version
<1>1. /\ operation[o] = NoOperation /\ session[c].state = "active" /\ Running(c) = {}
      /\ Enter(t, "reserved", local) /\ UNCHANGED <<thread, saver, server, pending, history>>
  BY DEF ReserveOperation, NewOperation, Idle
<1>2. c # Null /\ NoOperation.conv = Null /\ NoOperation.status # "running"
  BY NullAssumption DEF NoOperation
<1>3. PICK a \in Actions, n \in Nat :
        /\ Accept(c, o, a, x, n)
        /\ turns' = turns \/ turns' = [turns EXCEPT ![c] = Append(@, asked)]
  <2>1. turns[c] \in Seq(Turn)
    BY DEF IInv, TypeOK, RowsTyped
  <2>2. Len(turns[c]) + 1 \in Nat /\ DOMAIN turns[c] \subseteq Nat
    BY <2>1, LenProperties
  <2>3. "append" \in Actions /\ "replace_last" \in Actions
    BY DEF Actions
  <2>4. QED BY <2>2, <2>3 DEF ReserveOperation
<1>4. session \in [Conversations -> Session] /\ operation \in [Operations -> Operation]
  BY DEF IInv, TypeOK, RowsTyped
<1>5. session[c] \in [state : {"active", "deleting"}, version : Nat, mode : Modes] /\ v \in Nat
  BY <1>1, <1>4 DEF Session, NoSession, Tombstone
<1>6. /\ session' = [session EXCEPT ![c] = [session[c] EXCEPT !.version = v + 1]]
      /\ operation' = [operation EXCEPT ![o] =
           [conv |-> c, turn |-> n, action |-> a, message |-> x, status |-> "running",
            version |-> v + 1]]
  BY <1>3 DEF Accept
<1>7. RowsTyped'
  <2>1. [session[c] EXCEPT !.version = v + 1] \in Session
    BY <1>5 DEF Session
  <2>2. [conv |-> c, turn |-> n, action |-> a, message |-> x, status |-> "running",
         version |-> v + 1] \in Operation
    BY <1>5 DEF Operation, TurnStatus
  <2>3. asked \in Turn
    BY DEF Turn, TurnStatus
  <2>4. turns \in [Conversations -> Seq(Turn)] /\ Append(turns[c], asked) \in Seq(Turn)
    BY <2>3, AppendProperties DEF IInv, TypeOK, RowsTyped
  <2>5. turns' \in [Conversations -> Seq(Turn)]
    BY <1>3, <2>4
  <2>6. session' \in [Conversations -> Session] /\ operation' \in [Operations -> Operation]
    BY <1>4, <1>6, <2>1, <2>2
  <2>7. QED BY <1>1, <2>5, <2>6 DEF IInv, TypeOK, RowsTyped
<1>8. local \in Job /\ local.conv = c /\ local.op = o /\ "reserved" \in PCs
  BY DEF NoJob, Job, PCs, Sending
<1>9. TasksTyped' /\ LocksHeld'
  BY <1>1, <1>8, EnterMoves DEF IInv, TypeOK, TasksTyped
<1>10. \A p \in Operations : p # o => operation'[p] = operation[p]
  BY <1>4, <1>6
<1>11. operation'[o].conv = c /\ operation'[o].status = "running" /\ operation'[o].version = v + 1
  BY <1>4, <1>6
<1>12. session'[c].state = "active" /\ session'[c].version = v + 1
       /\ \A d \in Conversations : d # c => session'[d] = session[d]
  BY <1>1, <1>4, <1>5, <1>6
<1>13. pc' = [pc EXCEPT ![t] = "reserved"] /\ job' = [job EXCEPT ![t] = local]
  BY <1>1 DEF Enter
<1>14. OwnOperations'
  <2>1. ASSUME NEW u \in Tasks, pc'[u] \in Sending
        PROVE  job'[u].op \in Operations /\ operation'[job'[u].op].conv = job'[u].conv
    <3>1. CASE u = t
      BY <1>8, <1>11, <1>13, <3>1 DEF IInv, TypeOK, TasksTyped
    <3>2. CASE u # t
      <4>1. pc[u] \in Sending /\ pc[u] # "idle" /\ job'[u] = job[u]
        BY <1>13, <2>1, <3>2 DEF IInv, TypeOK, TasksTyped, Sending, InTry
      <4>2. job[u].op \in Operations /\ operation[job[u].op].conv = job[u].conv
            /\ job[u].conv \in Conversations
        BY <4>1, AtWork
      <4>3. job[u].op # o
        BY <1>1, <1>2, <4>2, NullAssumption
      <4>4. QED BY <1>10, <4>1, <4>2, <4>3
    <3>3. QED BY <3>1, <3>2
  <2>2. \A u \in Tasks : pc'[u] = "failing" => job'[u].verdict \in Verdicts
    BY <1>13 DEF IInv, OwnOperations, TypeOK, TasksTyped
  <2>3. QED BY <2>1, <2>2 DEF OwnOperations
<1>15. RunningFreezesConversation'
  <2>1. ASSUME NEW p \in Operations, operation'[p].status = "running"
        PROVE  /\ {q \in Operations : /\ operation'[q].conv = operation'[p].conv
                                     /\ operation'[q].status = "running"} = {p}
               /\ session'[operation'[p].conv].state = "active"
               /\ session'[operation'[p].conv].version = operation'[p].version
    <3>1. CASE p = o
      BY <1>1, <1>10, <1>11, <1>12, <3>1 DEF Running
    <3>2. CASE p # o
      <4>1. operation'[p] = operation[p] /\ operation[p].conv # c
        BY <1>1, <1>10, <2>1, <3>2 DEF Running
      <4>2. Running(operation[p].conv) = {p} /\ session[operation[p].conv].state = "active"
            /\ session[operation[p].conv].version = operation[p].version
        BY <2>1, <4>1 DEF IInv, RunningFreezesConversation
      <4>3. operation[p].conv \in Conversations
        BY <1>2, <1>4, <2>1, <4>1 DEF Operation
      <4>4. {q \in Operations : /\ operation'[q].conv = operation[p].conv
                                /\ operation'[q].status = "running"} = Running(operation[p].conv)
        BY <1>1, <1>2, <1>10, <1>11, <4>1 DEF Running
      <4>5. QED BY <1>12, <4>1, <4>2, <4>3, <4>4
    <3>3. QED BY <3>1, <3>2
  <2>2. QED BY <2>1 DEF RunningFreezesConversation, Running
<1>16. RunsAccounted'
  <2>1. inferences[c][o] = 0
    BY <1>1, <1>2 DEF IInv, RunsAccounted
  <2>2. ASSUME NEW u \in Tasks, pc'[u] \in {"reserved", "prepare", "insert_thread"}
        PROVE  inferences'[job'[u].conv][job'[u].op] = 0
    BY <1>1, <1>8, <1>13, <2>1, <2>2 DEF IInv, RunsAccounted, TypeOK, TasksTyped, history
  <2>3. ASSUME NEW d \in Conversations, NEW p \in Operations, inferences'[d][p] # 0
        PROVE  operation'[p].conv = d \/ session'[d].state = "deleted"
    <3>1. operation[p].conv = d \/ session[d].state = "deleted"
      BY <1>1, <2>3 DEF IInv, RunsAccounted, history
    <3>2. d = c => p # o
      BY <1>1, <2>1, <2>3 DEF history
    <3>3. d = c => operation[p].conv = d
      BY <1>1, <3>1
    <3>4. p = o => operation[p].conv # d
      BY <1>1, <1>2, NullAssumption
    <3>5. QED BY <1>10, <1>12, <3>1, <3>2, <3>3, <3>4
  <2>4. QED BY <2>2, <2>3 DEF RunsAccounted
<1>17. HistoryTyped' /\ InferenceAtMostOnce'
  BY <1>1 DEF IInv, TypeOK, HistoryTyped, InferenceAtMostOnce, history
<1>18. QED BY <1>7, <1>9, <1>14, <1>15, <1>16, <1>17 DEF IInv, TypeOK

(* What leaves the operations and the tasks that send alone, and changes a   *)
(* session only while none of its operations is running.                     *)
OnlyIdleChange ==
  \A d \in Conversations :
     \/ session'[d] = session[d]
     \/ Running(d) = {} /\ session[d].state # "deleted"

SendersStay ==
  \A u \in Tasks : pc'[u] \in Sending => pc'[u] = pc[u] /\ job'[u] = job[u]

LEMMA IdleChange ==
  ASSUME IInv, UNCHANGED <<operation, inferences>>,
         OnlyIdleChange, SendersStay, RowsTyped', TasksTyped', LocksHeld', HistoryTyped'
  PROVE  IInv'
<1>1. OwnOperations'
  BY DEF IInv, OwnOperations, Sending, SendersStay
<1>2. RunningFreezesConversation'
  <2>1. ASSUME NEW p \in Operations, operation[p].status = "running"
        PROVE  session'[operation[p].conv] = session[operation[p].conv]
    <3>1. operation[p].conv \in Conversations
      <4>1. operation[p] \in Operation /\ operation[p] # NoOperation
        BY <2>1 DEF IInv, TypeOK, RowsTyped, NoOperation
      <4>2. QED BY <4>1 DEF Operation
    <3>2. p \in Running(operation[p].conv)
      BY <2>1 DEF Running
    <3>3. QED BY <3>1, <3>2 DEF OnlyIdleChange
  <2>2. QED BY <2>1 DEF IInv, RunningFreezesConversation, Running
<1>3. RunsAccounted'
  <2>1. ASSUME NEW u \in Tasks, pc'[u] \in {"reserved", "prepare", "insert_thread"}
        PROVE  inferences'[job'[u].conv][job'[u].op] = 0
    <3>1. pc'[u] \in Sending
      BY <2>1 DEF Sending, InTry
    <3>2. QED BY <2>1, <3>1 DEF IInv, RunsAccounted, SendersStay
  <2>2. ASSUME NEW d \in Conversations, NEW p \in Operations, inferences'[d][p] # 0
        PROVE  operation'[p].conv = d \/ session'[d].state = "deleted"
    BY <2>2 DEF IInv, RunsAccounted, OnlyIdleChange
  <2>3. QED BY <2>1, <2>2 DEF RunsAccounted
<1>4. InferenceAtMostOnce'
  BY DEF IInv, InferenceAtMostOnce
<1>5. QED BY <1>1, <1>2, <1>3, <1>4 DEF IInv, TypeOK

LEMMA SessionTyped ==
  ASSUME IInv, NEW c \in Conversations
  PROVE  /\ session[c] \in Session /\ session[c].version \in Nat
         /\ session[c].state \in {"active", "deleting"} =>
              session[c] \in [state : {"active", "deleting"}, version : Nat, mode : Modes]
<1>1. session[c] \in Session
  BY DEF IInv, TypeOK, RowsTyped
<1>2. CASE session[c] = NoSession \/ session[c] = Tombstone
  BY <1>1, <1>2 DEF NoSession, Tombstone
<1>3. CASE session[c] \in [state : {"active", "deleting"}, version : Nat, mode : Modes]
  BY <1>1, <1>3
<1>4. QED BY <1>1, <1>2, <1>3 DEF Session

LEMMA HistoryUnwritten ==
  ASSUME HistoryTyped, UNCHANGED history
  PROVE  HistoryTyped'
BY DEF HistoryTyped, history

LEMMA MemoryUnwritten ==
  ASSUME TasksTyped, LocksHeld, UNCHANGED memory
  PROVE  TasksTyped' /\ LocksHeld'
BY DEF TasksTyped, LocksHeld, memory

LEMMA CreateStep ==
  ASSUME IInv, NEW c \in Conversations, NEW m \in Modes, Create(c, m)
  PROVE  IInv'
<1>1. Running(c) = {} /\ session[c].state # "deleted"
  BY DEF Create, NoSession, IInv, RunningFreezesConversation, Running
<1>2. [state |-> "active", version |-> 1, mode |-> m] \in Session
  BY DEF Session
<1>3. RowsTyped' /\ OnlyIdleChange
  BY <1>1, <1>2 DEF Create, IInv, TypeOK, RowsTyped, OnlyIdleChange
<1>4. TasksTyped' /\ LocksHeld' /\ HistoryTyped'
  BY MemoryUnwritten, HistoryUnwritten DEF Create, IInv, TypeOK
<1>5. SendersStay /\ UNCHANGED <<operation, inferences>>
  BY DEF Create, memory, history, SendersStay
<1>6. QED BY <1>3, <1>4, <1>5, IdleChange

LEMMA RenameStep ==
  ASSUME IInv, NEW k \in Clients, NEW c \in Conversations, Rename(k, c)
  PROVE  IInv'
<1>1. Running(c) = {} /\ session[c].state = "active"
  BY DEF Rename, Idle
<1>2. session[c] \in [state : {"active", "deleting"}, version : Nat, mode : Modes]
  BY <1>1, SessionTyped
<1>3. [session[c] EXCEPT !.version = @ + 1] \in Session
  BY <1>2 DEF Session
<1>4. RowsTyped' /\ OnlyIdleChange
  BY <1>1, <1>3 DEF Rename, IInv, TypeOK, RowsTyped, OnlyIdleChange
<1>5. TasksTyped' /\ LocksHeld' /\ HistoryTyped'
  BY MemoryUnwritten, HistoryUnwritten DEF Rename, IInv, TypeOK
<1>6. SendersStay /\ UNCHANGED <<operation, inferences>>
  BY DEF Rename, memory, history, SendersStay
<1>7. QED BY <1>4, <1>5, <1>6, IdleChange

LEMMA ListTurnsStep ==
  ASSUME IInv, NEW k \in Clients, NEW c \in Conversations, ListTurns(k, c)
  PROVE  IInv'
<1>1. session[c].version \in Nat
  BY SessionTyped
<1>2. [version |-> session[c].version, turns |-> turns[c]] \in Reading
  BY <1>1 DEF IInv, TypeOK, RowsTyped, Reading
<1>3. HistoryTyped'
  BY <1>2 DEF ListTurns, IInv, TypeOK, HistoryTyped
<1>4. RowsTyped' /\ TasksTyped' /\ LocksHeld'
  BY RowsUnwritten, MemoryUnwritten DEF ListTurns, IInv, TypeOK
<1>5. OnlyIdleChange /\ SendersStay /\ UNCHANGED <<operation, inferences>>
  BY DEF ListTurns, database, memory, OnlyIdleChange, SendersStay
<1>6. QED BY <1>3, <1>4, <1>5, IdleChange

(* A task enters to erase a conversation.                                    *)
LEMMA Erasing ==
  ASSUME IInv, NEW t \in Tasks, NEW c \in Conversations,
         Enter(t, "erase", [NoJob EXCEPT !.conv = c]),
         server' = server, pending' \in SUBSET Conversations
  PROVE  TasksTyped' /\ LocksHeld' /\ SendersStay
<1> DEFINE local == [NoJob EXCEPT !.conv = c]
<1>1. local \in Job /\ local.conv = c
  BY DEF NoJob, Job
<1>2. "erase" \in PCs /\ "erase" \notin Sending
  BY DEF PCs, Deleting, Sending, InTry
<1>3. TasksTyped' /\ LocksHeld'
  BY <1>1, <1>2, EnterMoves DEF IInv, TypeOK
<1>4. ASSUME NEW u \in Tasks, pc'[u] \in Sending
      PROVE  pc'[u] = pc[u] /\ job'[u] = job[u]
  BY <1>2, <1>4 DEF Enter, IInv, TypeOK, TasksTyped
<1>5. QED BY <1>3, <1>4 DEF SendersStay

LEMMA BeginDeleteStep ==
  ASSUME IInv, NEW t \in Tasks, NEW k \in Clients, NEW c \in Conversations,
         BeginDelete(t, k, c)
  PROVE  IInv'
<1>1. /\ Enter(t, "erase", [NoJob EXCEPT !.conv = c])
      /\ UNCHANGED <<turns, operation, thread, saver, server, pending, history>>
  BY DEF BeginDelete
<1>2. pending' \in SUBSET Conversations
  BY <1>1 DEF IInv, TypeOK, TasksTyped
<1>3. /\ TasksTyped' /\ LocksHeld' /\ SendersStay
      /\ HistoryTyped' /\ UNCHANGED <<operation, inferences>>
  BY <1>1, <1>2, Erasing, HistoryUnwritten DEF IInv, TypeOK, history
<1>4. RowsTyped' /\ OnlyIdleChange
  <2>1. CASE UNCHANGED session
    BY <1>1, <2>1, RowsUnwritten DEF IInv, TypeOK, database, OnlyIdleChange
  <2>2. CASE Idle(c) /\ session' = [session EXCEPT ![c] = Marked(@)]
    <3>1. session[c] \in [state : {"active", "deleting"}, version : Nat, mode : Modes]
      BY <2>2, SessionTyped DEF Idle
    <3>2. [[session[c] EXCEPT !.state = "deleting"] EXCEPT !.version = session[c].version + 1]
            \in [state : {"active", "deleting"}, version : Nat, mode : Modes]
      <4>1. session[c].version + 1 \in Nat
        BY <3>1
      <4>2. [session[c] EXCEPT !.state = "deleting"]
              \in [state : {"active", "deleting"}, version : Nat, mode : Modes]
        BY <3>1
      <4>3. QED BY <4>1, <4>2
    <3>3. Marked(session[c]) \in Session
      BY <3>2 DEF Marked, Session
    <3>4. QED
      BY <1>1, <2>2, <3>3 DEF IInv, TypeOK, RowsTyped, Idle, OnlyIdleChange
  <2>3. QED BY <2>1, <2>2 DEF BeginDelete
<1>5. QED BY <1>3, <1>4, IdleChange

LEMMA RetryDeletionStep ==
  ASSUME IInv, NEW t \in Tasks, NEW c \in Conversations, RetryDeletion(t, c)
  PROVE  IInv'
<1>1. /\ Enter(t, "erase", [NoJob EXCEPT !.conv = c])
      /\ UNCHANGED <<database, server, history>>
  BY DEF RetryDeletion
<1>2. pending' \in SUBSET Conversations
  BY DEF RetryDeletion, IInv, TypeOK, TasksTyped
<1>3. RowsTyped' /\ HistoryTyped' /\ OnlyIdleChange /\ UNCHANGED <<operation, inferences>>
  BY <1>1, RowsUnwritten, HistoryUnwritten
     DEF IInv, TypeOK, database, history, OnlyIdleChange
<1>4. QED BY <1>1, <1>2, <1>3, Erasing, IdleChange

LEMMA CrashStep ==
  ASSUME IInv, Crash
  PROVE  IInv'
<1>1. RowsTyped' /\ HistoryTyped' /\ OnlyIdleChange /\ UNCHANGED <<operation, inferences>>
  BY RowsUnwritten, HistoryUnwritten
     DEF Crash, IInv, TypeOK, database, history, OnlyIdleChange
<1>2. NoJob \in Job /\ "idle" \in PCs /\ "idle" \notin Sending
  BY DEF NoJob, Job, PCs, Sending, InTry
<1>3. TasksTyped' /\ LocksHeld'
  BY <1>2 DEF Crash, TasksTyped, LocksHeld
<1>4. SendersStay
  BY <1>2 DEF Crash, SendersStay
<1>5. QED BY <1>1, <1>3, <1>4, IdleChange

LEMMA ServeStep ==
  ASSUME IInv, Serve
  PROVE  IInv'
<1>1. RowsTyped' /\ HistoryTyped' /\ OnlyIdleChange /\ UNCHANGED <<operation, inferences>>
  BY RowsUnwritten, HistoryUnwritten
     DEF Serve, IInv, TypeOK, database, history, OnlyIdleChange
<1>2. TasksTyped' /\ LocksHeld' /\ SendersStay
  BY DEF Serve, IInv, TypeOK, TasksTyped, LocksHeld, SendersStay
<1>3. QED BY <1>1, <1>2, IdleChange

LEMMA StutterStep ==
  ASSUME IInv, UNCHANGED vars
  PROVE  IInv'
<1>1. UNCHANGED <<database, memory, history>>
  BY DEF vars, database, memory, history
<1>2. RowsTyped' /\ HistoryTyped' /\ TasksTyped' /\ LocksHeld'
  BY <1>1, RowsUnwritten, HistoryUnwritten, MemoryUnwritten DEF IInv, TypeOK
<1>3. OnlyIdleChange /\ SendersStay /\ UNCHANGED <<operation, inferences>>
  BY <1>1 DEF database, memory, history, OnlyIdleChange, SendersStay
<1>4. QED BY <1>2, <1>3, IdleChange

(* The interrupted transcript, session and operation of the recovery.        *)
LEMMA InterruptedTyped ==
  ASSUME IInv, NEW c \in Conversations
  PROVE  Interrupted(c) \in Seq(Turn)
<1>1. turns[c] \in Seq(Turn)
  BY DEF IInv, TypeOK, RowsTyped
<1>2. ASSUME NEW n \in DOMAIN turns[c]
      PROVE  Interrupted(c)[n] \in Turn
  <2>1. turns[c][n] \in Turn
    BY TurnTyped DEF IInv, TypeOK
  <2>2. [turns[c][n] EXCEPT !.status = "interrupted"] \in Turn
    BY <2>1 DEF Turn, TurnStatus
  <2>3. QED BY <2>1, <2>2 DEF Interrupted
<1>3. Interrupted(c) \in [DOMAIN turns[c] -> Turn]
  BY <1>2 DEF Interrupted
<1>4. QED BY <1>1, <1>3, SequenceOnDomain

LEMMA RecoveredTyped ==
  ASSUME IInv, NEW c \in Conversations
  PROVE  Recovered(c) \in Session /\ Recovered(c).state = session[c].state
<1>1. CASE Running(c) = {}
  BY <1>1, SessionTyped DEF Recovered
<1>2. CASE Running(c) # {}
  <2>1. session[c].state = "active"
    BY <1>2 DEF IInv, RunningFreezesConversation, Running
  <2>2. session[c] \in [state : {"active", "deleting"}, version : Nat, mode : Modes]
    BY <2>1, SessionTyped
  <2>3. QED BY <1>2, <2>2 DEF Recovered, Session
<1>3. QED BY <1>1, <1>2

LEMMA RunningOperation ==
  ASSUME IInv, NEW o \in Operations, operation[o].status = "running"
  PROVE  operation[o] \in [conv : Conversations, turn : Nat, action : Actions,
                           message : Messages, status : TurnStatus, version : Nat]
<1>1. operation[o] \in Operation /\ operation[o] # NoOperation
  BY DEF IInv, TypeOK, RowsTyped, NoOperation
<1>2. QED BY <1>1 DEF Operation

LEMMA SettledOperationTyped ==
  ASSUME IInv, NEW o \in Operations
  PROVE  Settled(o) \in Operation /\ Settled(o).conv = operation[o].conv
         /\ Settled(o).status # "running"
<1>1. CASE operation[o].status # "running"
  BY <1>1 DEF Settled, IInv, TypeOK, RowsTyped
<1>2. CASE operation[o].status = "running"
  <2> DEFINE v == session[operation[o].conv].version + 1
  <2>1. operation[o] \in [conv : Conversations, turn : Nat, action : Actions,
                          message : Messages, status : TurnStatus, version : Nat]
    BY <1>2, RunningOperation
  <2>2. v \in Nat
    BY <2>1, SessionTyped
  <2>3. Settled(o) = [operation[o] EXCEPT !.status = "interrupted", !.version = v]
    BY <1>2 DEF Settled
  <2> HIDE DEF v
  <2>4. Settled(o) \in [conv : Conversations, turn : Nat, action : Actions,
                        message : Messages, status : TurnStatus, version : Nat]
        /\ Settled(o).conv = operation[o].conv /\ Settled(o).status = "interrupted"
    BY <2>1, <2>2, <2>3 DEF TurnStatus
  <2>5. QED BY <2>4 DEF Operation
<1>3. QED BY <1>1, <1>2

LEMMA RecoverRunningStep ==
  ASSUME IInv, RecoverRunning
  PROVE  IInv'
<1>1. /\ session' = [c \in Conversations |-> Recovered(c)]
      /\ turns' = [c \in Conversations |-> Interrupted(c)]
      /\ operation' = [o \in Operations |-> Settled(o)]
      /\ UNCHANGED <<thread, saver, lock, pc, job, history>>
  BY DEF RecoverRunning
<1>2. RowsTyped'
  <2>1. session' \in [Conversations -> Session] /\ turns' \in [Conversations -> Seq(Turn)]
        /\ operation' \in [Operations -> Operation]
    BY <1>1, InterruptedTyped, RecoveredTyped, SettledOperationTyped
  <2>2. QED BY <1>1, <2>1 DEF IInv, TypeOK, RowsTyped
<1>3. TasksTyped' /\ LocksHeld'
  BY DEF RecoverRunning, PendingDeletions, IInv, TypeOK, TasksTyped, LocksHeld
<1>4. HistoryTyped' /\ InferenceAtMostOnce' /\ inferences' = inferences
  BY <1>1, HistoryUnwritten DEF IInv, TypeOK, InferenceAtMostOnce, history
<1>5. \A o \in Operations :
        operation'[o].conv = operation[o].conv /\ operation'[o].status # "running"
  BY <1>1, SettledOperationTyped
<1>6. \A c \in Conversations : session'[c].state = session[c].state
  BY <1>1, RecoveredTyped
<1>7. OwnOperations'
  BY <1>1, <1>5 DEF IInv, OwnOperations
<1>8. RunningFreezesConversation'
  BY <1>5 DEF RunningFreezesConversation
<1>9. RunsAccounted'
  BY <1>1, <1>4, <1>5, <1>6 DEF IInv, RunsAccounted
<1>10. QED BY <1>2, <1>3, <1>4, <1>7, <1>8, <1>9 DEF IInv, TypeOK

-----------------------------------------------------------------------------
(* What the tasks and requests start from. *)

LEMMA InitIInv == Init => IInv
<1> SUFFICES ASSUME Init PROVE IInv
  OBVIOUS
<1>1. TypeOK
  BY DEF Init, TypeOK, RowsTyped, TasksTyped, HistoryTyped, Session, NoSession, Operation, NoOperation, Thread, NoThread, Job, NoJob,
         Reading, PCs
<1>2. LocksHeld /\ OwnOperations
  BY DEF Init, LocksHeld, OwnOperations, Sending, InTry
<1>3. RunningFreezesConversation
  BY DEF Init, RunningFreezesConversation, NoOperation
<1>4. RunsAccounted /\ InferenceAtMostOnce
  BY DEF Init, RunsAccounted, InferenceAtMostOnce
<1>5. QED BY <1>1, <1>2, <1>3, <1>4 DEF IInv

-----------------------------------------------------------------------------
(* The specification. *)

(* Every step of the saved conversations keeps the inductive invariant.      *)
LEMMA NextIInv ==
  ASSUME IInv, [Next]_vars
  PROVE  IInv'
<1>1. ASSUME NEW c \in Conversations, NEW m \in Modes, Create(c, m)
      PROVE  IInv'
  BY <1>1, CreateStep
<1>2. ASSUME NEW k \in Clients, Client(k)
      PROVE  IInv'
  <2>1. PICK c \in Conversations :
          \/ ListTurns(k, c) \/ Rename(k, c)
          \/ \E t \in Tasks : BeginDelete(t, k, c)
          \/ \E t \in Tasks, o \in Operations, m \in Modes, x \in Messages :
               ReserveOperation(t, k, c, o, m, x)
    BY <1>2 DEF Client
  <2>2. CASE ListTurns(k, c)
    BY <2>2, ListTurnsStep
  <2>3. CASE Rename(k, c)
    BY <2>3, RenameStep
  <2>4. CASE \E t \in Tasks : BeginDelete(t, k, c)
    BY <2>4, BeginDeleteStep
  <2>5. CASE \E t \in Tasks, o \in Operations, m \in Modes, x \in Messages :
               ReserveOperation(t, k, c, o, m, x)
    BY <2>5, ReserveOperationStep
  <2>6. QED BY <2>1, <2>2, <2>3, <2>4, <2>5
<1>3. ASSUME NEW t \in Tasks, Work(t)
      PROVE  IInv'
  <2>1. CASE ReservationRead(t) \/ StartRag(t) \/ StartThread(t)
    BY <2>1, ReservationReadStep, StartRagStep, StartThreadStep
  <2>2. CASE PutBaseCheckpoint(t) \/ InsertThread(t)
    BY <2>2, PutBaseCheckpointStep, InsertThreadStep
  <2>3. CASE StepGraph(t) \/ FinishGraph(t) \/ FinishRag(t)
    BY <2>3, StepGraphStep, FinishGraphStep, FinishRagStep
  <2>4. CASE PublishOperation(t) \/ Reply(t) \/ RecordFailure(t)
    BY <2>4, PublishOperationStep, EndWithoutWriting, RecordFailureStep
  <2>5. CASE EraseCheckpoints(t) \/ CompleteDelete(t)
    BY <2>5, EraseCheckpointsStep, CompleteDeleteStep
  <2>6. QED BY <1>3, <2>1, <2>2, <2>3, <2>4, <2>5 DEF Work
<1>4. ASSUME NEW t \in Tasks, Caught(t)
      PROVE  IInv'
  BY <1>4, FailStep, FailInsertStep DEF Caught
<1>5. CASE Startup
  BY <1>5, RecoverRunningStep, RetryDeletionStep, ServeStep DEF Startup
<1>6. CASE Crash
  BY <1>6, CrashStep
<1>7. ASSUME NEW t \in Tasks, Uncaught(t)
      PROVE  IInv'
  BY <1>7, EndWithoutWriting DEF Uncaught
<1>8. CASE UNCHANGED vars
  BY <1>8, StutterStep
<1>9. QED BY <1>1, <1>2, <1>3, <1>4, <1>5, <1>6, <1>7, <1>8 DEF Next, Handled

(* The inductive invariant holds in every reachable state: locks, tasks, the *)
(* busy conversation and the count of model runs agree at every await,       *)
(* cancellation, crash and recovery.                                         *)
THEOREM InvariantHolds == Spec => []IInv
<1>1. Init => IInv
  BY InitIInv
<1>2. IInv /\ [Next]_vars => IInv'
  BY NextIInv
<1>3. QED BY <1>1, <1>2, PTL DEF Spec

(* Rows, tasks and history keep their types: no completed turn is without an *)
(* answer, no accepted operation without the version it was given.           *)
THEOREM TypeCorrect == Spec => []TypeOK
<1>1. IInv => TypeOK
  BY DEF IInv
<1>2. QED BY <1>1, InvariantHolds, PTL

(* _ensure_idle and the version checks suffice: whatever the interleaving,   *)
(* while an operation runs, its conversation is active, has no other running *)
(* operation and keeps the version it was reserved at.                       *)
THEOREM RunningIsExclusive == Spec => []RunningFreezesConversation
<1>1. IInv => RunningFreezesConversation
  BY DEF IInv
<1>2. QED BY <1>1, InvariantHolds, PTL

(* Retries, lost replies, failures, crashes and recoveries never run the     *)
(* model again for an operation id of a conversation.                        *)
THEOREM ModelRunsOnce == Spec => []InferenceAtMostOnce
<1>1. IInv => InferenceAtMostOnce
  BY DEF IInv
<1>2. QED BY <1>1, InvariantHolds, PTL
-----------------------------------------------------------------------------
(* What a step does to the rows. *)

RowsStay == UNCHANGED <<session, turns, operation>>

WritesRows ==
  \/ \E c \in Conversations, m \in Modes : Create(c, m)
  \/ \E k \in Clients, c \in Conversations : Rename(k, c)
  \/ \E t \in Tasks, k \in Clients, c \in Conversations : BeginDelete(t, k, c)
  \/ \E t \in Tasks, k \in Clients, c \in Conversations, o \in Operations, m \in Modes,
        x \in Messages : ReserveOperation(t, k, c, o, m, x)
  \/ \E t \in Tasks : PublishOperation(t) \/ RecordFailure(t) \/ CompleteDelete(t)
  \/ RecoverRunning

(* Every other step leaves sessions, turns and operations alone.             *)
LEMMA StepsOnRows ==
  ASSUME [Next]_vars
  PROVE  WritesRows \/ RowsStay
<1>1. ASSUME NEW k \in Clients, Client(k)
      PROVE  WritesRows \/ RowsStay
  BY <1>1 DEF Client, WritesRows, RowsStay, ListTurns, database
<1>2. ASSUME NEW t \in Tasks, Work(t)
      PROVE  WritesRows \/ RowsStay
  <2>1. CASE ReservationRead(t) \/ StartRag(t) \/ StartThread(t) \/ Reply(t) \/ FinishRag(t)
    BY <2>1 DEF ReservationRead, StartRag, StartThread, Reply, FinishRag, RowsStay, database
  <2>2. CASE PutBaseCheckpoint(t) \/ InsertThread(t) \/ EraseCheckpoints(t)
    BY <2>2 DEF PutBaseCheckpoint, InsertThread, EraseCheckpoints, RowsStay
  <2>3. CASE StepGraph(t) \/ FinishGraph(t)
    BY <2>3 DEF StepGraph, FinishGraph, RowsStay
  <2>4. CASE PublishOperation(t) \/ RecordFailure(t) \/ CompleteDelete(t)
    BY <2>4 DEF WritesRows
  <2>5. QED BY <1>2, <2>1, <2>2, <2>3, <2>4 DEF Work
<1>3. ASSUME NEW t \in Tasks, Caught(t) \/ Uncaught(t)
      PROVE  RowsStay
  BY <1>3 DEF Caught, Uncaught, Fail, FailInsert, AbandonReservation, LoseVerdict,
             AbortDelete, RowsStay, database
<1>4. CASE Startup
  BY <1>4 DEF Startup, WritesRows, RowsStay, RetryDeletion, Serve, database
<1>5. CASE Crash \/ UNCHANGED vars
  BY <1>5 DEF Crash, RowsStay, database, vars
<1>6. ASSUME NEW c \in Conversations, NEW m \in Modes, Create(c, m)
      PROVE  WritesRows
  BY <1>6 DEF WritesRows
<1>7. QED BY <1>1, <1>2, <1>3, <1>4, <1>5, <1>6 DEF Next, Handled

(* An operation that settles is running; the other operations stay.          *)
LEMMA SettlesRunning ==
  ASSUME IInv, NEW t \in Tasks, PublishOperation(t) \/ RecordFailure(t)
  PROVE  LET c == job[t].conv
             o == job[t].op
         IN /\ c \in Conversations /\ o \in Operations /\ operation[o].conv = c
            /\ \/ RowsStay
               \/ /\ operation[o].status = "running"
                  /\ \A p \in Operations : p # o => operation'[p] = operation[p]
                  /\ \A d \in Conversations :
                       d # c => turns'[d] = turns[d] /\ session'[d] = session[d]
                  /\ session' = [session EXCEPT ![c].version = @ + 1]
<1> DEFINE c == job[t].conv
           o == job[t].op
           n == operation[o].turn
<1>1. c \in Conversations /\ o \in Operations /\ operation[o].conv = c
  BY AtWork DEF PublishOperation, RecordFailure, Sending, InTry
<1>2. /\ session \in [Conversations -> Session] /\ turns \in [Conversations -> Seq(Turn)]
      /\ operation \in [Operations -> Operation]
  BY DEF IInv, TypeOK, RowsTyped
<1>3. \/ RowsStay
      \/ /\ operation[o].status = "running"
         /\ \E e : operation' = [operation EXCEPT ![o] = e]
         /\ \E e : turns' = [turns EXCEPT ![c] = e] \/ turns' = turns
         /\ session' = [session EXCEPT ![c].version = @ + 1]
  <2>1. CASE PublishOperation(t)
    BY <2>1 DEF PublishOperation, Publishable, RowsStay
  <2>2. CASE RecordFailure(t)
    BY <2>2 DEF RecordFailure, Unsettled, RowsStay
  <2>3. QED BY <2>1, <2>2
<1>4. QED BY <1>1, <1>2, <1>3

(* No late publication, failure, recovery or retry changes the outcome a     *)
(* client may already have read; only deletion removes it.                   *)
THEOREM OutcomesAreFinal == Spec => TerminalIsFinal
<1>1. ASSUME IInv, [Next]_vars, NEW o \in Operations,
             operation[o].status \in {"completed", "failed", "interrupted"}
      PROVE  operation'[o] = operation[o] \/ session'[operation[o].conv].state = "deleted"
  <2> USE DEF TurnStatus
  <2>1. CASE RowsStay
    BY <2>1 DEF RowsStay
  <2>2. CASE (\E c \in Conversations, m \in Modes : Create(c, m))
             \/ (\E k \in Clients, c \in Conversations : Rename(k, c))
             \/ (\E t \in Tasks, k \in Clients, c \in Conversations : BeginDelete(t, k, c))
    BY <2>2 DEF Create, Rename, BeginDelete
  <2>3. ASSUME NEW t \in Tasks, NEW k \in Clients, NEW c \in Conversations,
               NEW p \in Operations, NEW m \in Modes, NEW x \in Messages,
               ReserveOperation(t, k, c, p, m, x)
        PROVE  operation'[o] = operation[o]
    <3>1. p # o
      BY <1>1, <2>3 DEF ReserveOperation, NewOperation, NoOperation
    <3>2. \E e : operation' = [operation EXCEPT ![p] = e]
      BY <2>3 DEF ReserveOperation, Accept
    <3>3. QED BY <1>1, <3>1, <3>2 DEF IInv, TypeOK, RowsTyped
  <2>4. ASSUME NEW t \in Tasks, PublishOperation(t) \/ RecordFailure(t)
        PROVE  operation'[o] = operation[o]
    <3>1. job[t].op = o => operation[o].status # "running"
      BY <1>1
    <3>2. QED BY <1>1, <2>4, <3>1, SettlesRunning DEF RowsStay
  <2>5. ASSUME NEW t \in Tasks, CompleteDelete(t)
        PROVE  operation'[o] = operation[o] \/ session'[operation[o].conv].state = "deleted"
    <3>1. job[t].conv \in Conversations
      BY <1>1, <2>5, AtWork DEF CompleteDelete
    <3>2. CASE operation[o].conv = job[t].conv
      BY <1>1, <2>5, <3>1, <3>2 DEF CompleteDelete, Tombstone, IInv, TypeOK, RowsTyped
    <3>3. CASE operation[o].conv # job[t].conv
      BY <2>5, <3>3 DEF CompleteDelete
    <3>4. QED BY <3>2, <3>3
  <2>6. CASE RecoverRunning
    BY <1>1, <2>6 DEF RecoverRunning, Settled
  <2>7. QED BY <1>1, <2>1, <2>2, <2>3, <2>4, <2>5, <2>6, StepsOnRows DEF WritesRows
<1>2. IInv /\ [Next]_vars =>
        [\A o \in Operations :
           operation[o].status \in {"completed", "failed", "interrupted"} =>
             \/ operation'[o] = operation[o]
             \/ session'[operation[o].conv].state = "deleted"]_vars
  BY <1>1
<1>3. QED BY <1>2, InvariantHolds, PTL DEF Spec, TerminalIsFinal

-----------------------------------------------------------------------------
(* A step works on one conversation; the others are untouched. *)

Untouched(d) ==
  /\ session'[d] = session[d] /\ turns'[d] = turns[d]
  /\ thread'[d] = thread[d] /\ saver'[d] = saver[d]
  /\ \A o \in Operations : operation[o].conv = d \/ operation'[o].conv = d =>
       /\ operation'[o] = operation[o] /\ context'[o] = context[o]
       /\ inferences'[d][o] = inferences[d][o]
  /\ \A k \in Clients : view'[k][d] = view[k][d]

LEMMA UntouchedRows ==
  ASSUME NEW d \in Conversations, turns'[d] = turns[d]
  PROVE  /\ Completed(d)' = Completed(d)
         /\ \A n : LatestCompleted(d, n)' = LatestCompleted(d, n)
         /\ \A n : CompletedBefore(d, n)' = CompletedBefore(d, n)
BY DEF Completed, LatestCompleted, CompletedBefore

LEMMA UntouchedSaver ==
  ASSUME NEW d \in Conversations, saver'[d] = saver[d]
  PROVE  (\A i : Remembered(d, i)' = Remembered(d, i)) /\ NoneHeld(d)' = NoneHeld(d)
BY DEF Remembered, NoneHeld

LEMMA UntouchedPointers ==
  ASSUME NEW d \in Conversations, PointersRemember(d),
         thread'[d] = thread[d], saver'[d] = saver[d], turns'[d] = turns[d],
         session'[d] = session[d]
  PROVE  PointersRemember(d)'
<1>1. Remembered(d, thread[d].active)' = Remembered(d, thread[d].active)
      /\ Remembered(d, thread[d].previous)' = Remembered(d, thread[d].previous)
  BY DEF Remembered
<1>2. CompletedBefore(d, Len(turns[d]) + 1)' = CompletedBefore(d, Len(turns[d]) + 1)
  BY DEF CompletedBefore, Completed
<1>3. QED BY <1>1, <1>2, UntouchedRows DEF PointersRemember, Recent

LEMMA UntouchedKeeps ==
  ASSUME NEW d \in Conversations, ConversationInv(d), Untouched(d)
  PROVE  ConversationInv(d)'
<1> USE DEF ConversationInv
<1>1. OnTheirTurns(d)'
  BY UntouchedRows DEF OnTheirTurns, Untouched
<1>2. TurnsAccounted(d)'
  <2>1. \A n : Appends(d, n)' = Appends(d, n)
    BY DEF Untouched, Appends
  <2>2. QED BY <2>1 DEF TurnsAccounted, Untouched
<1>3. NothingLeft(d)'
  BY UntouchedSaver DEF NothingLeft, Untouched
<1>4. VersionsCount(d)'
  BY DEF VersionsCount, Untouched
<1>5. PointersRemember(d)'
  BY UntouchedPointers DEF Untouched
<1>6. KnowsPrior(d)'
  <2>1. turns'[d] = turns[d]
    BY DEF Untouched
  <2>2. ASSUME NEW o \in Operations, operation'[o].conv = d
        PROVE  CompletedBefore(d, operation[o].turn)' = CompletedBefore(d, operation[o].turn)
    BY <2>1, <2>2 DEF Untouched, CompletedBefore, Completed
  <2>3. QED BY <2>2 DEF KnowsPrior, Untouched, Recent
<1>7. QED BY <1>1, <1>2, <1>3, <1>4, <1>5, <1>6

LEMMA UntouchedTask ==
  ASSUME IInv, NEW u \in Tasks, TaskInv(u), pc'[u] = pc[u], job'[u] = job[u],
         pending' \subseteq pending,
         pc[u] # "idle" => Untouched(job[u].conv)
  PROVE  TaskInv(u)'
<1>1. CASE pc[u] = "idle"
  BY <1>1 DEF TaskInv, Underway, Sending, InTry, Deleting
<1>2. CASE pc[u] # "idle"
  <2> DEFINE c == job[u].conv
             o == job[u].op
  <2>1. c \in Conversations /\ Untouched(c)
    BY <1>2, AtWork
  <2>2. pc[u] \in Sending => o \in Operations /\ operation[o].conv = c
    BY <1>2, AtWork
  <2>3. pc[u] \in Sending => /\ operation'[o] = operation[o] /\ context'[o] = context[o]
                             /\ inferences'[c][o] = inferences[c][o]
    BY <2>1, <2>2 DEF Untouched
  <2>4. session'[c] = session[c] /\ thread'[c] = thread[c] /\ saver'[c] = saver[c]
    BY <2>1 DEF Untouched
  <2>5. Remembered(c, Len(saver[c]))' = Remembered(c, Len(saver[c])) /\ NoneHeld(c)' = NoneHeld(c)
    BY <2>4 DEF Remembered, NoneHeld
  <2>6. pc[u] \in Underway \cup {"insert_thread", "infer", "stepped", "publish"} => pc[u] \in Sending
    BY DEF Underway, Sending, InTry
  <2>7. QED BY <2>3, <2>4, <2>5, <2>6 DEF TaskInv
<1>3. QED BY <1>1, <1>2

(* What a step must show for its own conversation and task.                  *)
LEMMA LocalStep ==
  ASSUME StoryInv, IInv', ServerInv', pending' \subseteq pending, NEW c \in Conversations,
         \A d \in Conversations : d # c => Untouched(d),
         ConversationInv(c)',
         \A u \in Tasks : \/ TaskInv(u)'
                          \/ /\ pc'[u] = pc[u] /\ job'[u] = job[u]
                             /\ pc[u] # "idle" => job[u].conv # c
  PROVE  StoryInv'
<1>1. \A d \in Conversations : ConversationInv(d)'
  BY UntouchedKeeps DEF StoryInv
<1>2. ASSUME NEW u \in Tasks
      PROVE  TaskInv(u)'
  <2>1. pc[u] # "idle" => job[u].conv \in Conversations
    BY AtWork DEF StoryInv
  <2>2. QED BY <2>1, UntouchedTask DEF StoryInv
<1>3. QED BY <1>1, <1>2 DEF StoryInv

(* A step of a task at work: it goes on or leaves.                           *)
Moves(t) == (\E at, local : Goto(t, at, local)) \/ Leave(t)

LEMMA TaskStep ==
  ASSUME StoryInv, IInv', NEW t \in Tasks, pc[t] # "idle", Moves(t),
         NEW c \in Conversations, c = job[t].conv,
         \A d \in Conversations : d # c => Untouched(d),
         ConversationInv(c)', TaskInv(t)'
  PROVE  StoryInv'
<1>2. /\ \A u \in Tasks : u # t => pc'[u] = pc[u] /\ job'[u] = job[u]
      /\ server' = server /\ pending' = pending
  BY DEF Moves, Goto, Leave, StoryInv, IInv, TypeOK, TasksTyped
<1>3. \A u \in Tasks : u # t /\ pc[u] # "idle" => job[u].conv # c
  BY DifferentConversations DEF StoryInv, IInv
<1>4. server # "down" /\ c \notin pending
  BY DEF StoryInv, ServerInv, TaskInv
<1>5. ServerInv'
  <2>1. \A d \in pending : d \in Conversations /\ d # c
    BY <1>4 DEF StoryInv, IInv, TypeOK, TasksTyped
  <2>2. \A d \in pending : session'[d] = session[d]
    BY <2>1 DEF Untouched
  <2>3. QED BY <1>2, <1>4, <2>2 DEF StoryInv, ServerInv
<1>6. QED BY <1>2, <1>3, <1>5, LocalStep

(* It may write no row and run no model.                                     *)
LEMMA SilentStep ==
  ASSUME StoryInv, IInv', NEW t \in Tasks, pc[t] # "idle", Moves(t),
         UNCHANGED <<database, history>>, TaskInv(t)'
  PROVE  StoryInv'
<1>1. \A d \in Conversations : Untouched(d)
  BY DEF Untouched, database, history
<1>2. PICK c \in Conversations : c = job[t].conv
  BY AtWork DEF StoryInv
<1>3. ConversationInv(c)'
  BY <1>1, UntouchedKeeps DEF StoryInv
<1>4. QED BY <1>1, <1>2, <1>3, TaskStep

LEMMA IdleTask ==
  ASSUME NEW t \in Tasks, pc'[t] = "idle"
  PROVE  TaskInv(t)'
BY DEF TaskInv, Underway, Sending, InTry, Deleting

LEMMA Leaving ==
  ASSUME IInv, NEW t \in Tasks, Leave(t)
  PROVE  Moves(t) /\ TaskInv(t)'
BY IdleTask DEF Leave, Moves, IInv, TypeOK, TasksTyped

LEMMA Going ==
  ASSUME IInv, NEW t \in Tasks, NEW at, NEW local, Goto(t, at, local)
  PROVE  Moves(t) /\ pc'[t] = at /\ job'[t] = local /\ pending' = pending
BY DEF Goto, Moves, IInv, TypeOK, TasksTyped

(* Nobody records a verdict before the task has one.                         *)
LEMMA FailingTask ==
  ASSUME StoryInv, NEW t \in Tasks, NEW verdict, pc[t] # "idle",
         Goto(t, "failing", [job[t] EXCEPT !.verdict = verdict])
  PROVE  TaskInv(t)'
<1>1. job[t] \in Job
  BY AtWork DEF StoryInv
<1>2. pc'[t] = "failing" /\ job'[t].conv = job[t].conv /\ pending' = pending
  BY <1>1, Going DEF StoryInv, Job
<1>3. QED BY <1>2 DEF StoryInv, TaskInv, Underway, Deleting

LEMMA SilentSteps ==
  ASSUME StoryInv, IInv', NEW t \in Tasks,
         \/ ReservationRead(t) \/ FinishRag(t) \/ Reply(t)
         \/ AbandonReservation(t) \/ LoseVerdict(t) \/ AbortDelete(t)
         \/ \E verdict \in Verdicts : Fail(t, verdict)
  PROVE  StoryInv'
<1>1. CASE ReservationRead(t)
  <2>1. pc[t] = "reserved" /\ Goto(t, "prepare", job[t]) /\ UNCHANGED <<database, history>>
    BY <1>1 DEF ReservationRead
  <2>2. TaskInv(t)'
    BY <2>1, Going DEF StoryInv, TaskInv, Underway, Sending, InTry, Deleting, database, history
  <2>3. QED BY <2>1, <2>2, Going, SilentStep DEF StoryInv
<1>2. CASE FinishRag(t)
  <2>1. pc[t] = "infer" /\ job[t].mode = "rag_only" /\ Goto(t, "publish", job[t])
        /\ UNCHANGED <<database, history>>
    BY <1>2 DEF FinishRag
  <2>2. TaskInv(t)'
    BY <2>1, Going DEF StoryInv, TaskInv, Underway, Sending, InTry, Deleting, database, history
  <2>3. QED BY <2>1, <2>2, Going, SilentStep DEF StoryInv
<1>3. CASE Reply(t) \/ AbandonReservation(t) \/ LoseVerdict(t) \/ AbortDelete(t)
  <2>1. pc[t] # "idle" /\ Leave(t) /\ UNCHANGED <<database, history>>
    BY <1>3 DEF Reply, AbandonReservation, LoseVerdict, AbortDelete, Deleting
  <2>2. QED BY <2>1, Leaving, SilentStep DEF StoryInv
<1>4. ASSUME NEW verdict \in Verdicts, Fail(t, verdict)
      PROVE  StoryInv'
  <2>1. pc[t] # "idle" /\ Goto(t, "failing", [job[t] EXCEPT !.verdict = verdict])
        /\ UNCHANGED <<database, history>>
    BY <1>4 DEF Fail, InTry
  <2>2. QED BY <2>1, FailingTask, Going, SilentStep DEF StoryInv
<1>5. QED BY <1>1, <1>2, <1>3, <1>4

-----------------------------------------------------------------------------
(* Checkpoints. *)

(* A task under way: its operation runs and its conversation is active.      *)
LEMMA WayPoint ==
  ASSUME StoryInv, NEW t \in Tasks, pc[t] \in Underway
  PROVE  \E c \in Conversations, o \in Operations, n \in Nat :
           /\ pc[t] # "idle" /\ job[t] \in Job /\ c = job[t].conv /\ o = job[t].op
           /\ operation[o].conv = c /\ operation[o].status = "running"
           /\ operation[o].turn = n /\ n \in DOMAIN turns[c]
           /\ operation[o].action \in Actions
           /\ session[c].state = "active" /\ session[c].mode = job[t].mode
           /\ Running(c) = {o}
<1> DEFINE c == job[t].conv
           o == job[t].op
<1>1. pc[t] # "idle" /\ pc[t] \in Sending
  BY DEF Underway, Sending, InTry
<1>2. /\ job[t] \in Job /\ c \in Conversations /\ o \in Operations
      /\ operation[o].conv = c /\ operation[o].turn \in Nat
  BY <1>1, AtWork DEF StoryInv
<1>3. operation[o].status = "running" /\ session[c].mode = job[t].mode
  BY DEF StoryInv, TaskInv
<1>4. Running(c) = {o} /\ session[c].state = "active"
  BY <1>2, <1>3 DEF StoryInv, IInv, RunningFreezesConversation
<1>5. operation[o].action \in Actions
  BY <1>2, <1>3, RunningOperation DEF StoryInv
<1>6. operation[o].turn \in DOMAIN turns[c]
  BY <1>2 DEF StoryInv, ConversationInv, OnTheirTurns
<1>7. QED BY <1>1, <1>2, <1>3, <1>4, <1>5, <1>6

LEMMA Lengthened ==
  ASSUME RowsTyped, NEW c \in Conversations, NEW remembered, NEW whole,
         saver'[c] = Checkpointed(c, remembered, whole)
  PROVE  LET checkpoint == [turns |-> remembered, whole |-> whole, held |-> TRUE] IN
         /\ Len(saver[c]) \in Nat /\ DOMAIN saver[c] = 1..Len(saver[c])
         /\ Len(saver'[c]) = Len(saver[c]) + 1 /\ DOMAIN saver'[c] = 1..Len(saver'[c])
         /\ Len(saver'[c]) \in DOMAIN saver'[c] /\ saver'[c][Len(saver'[c])] = checkpoint
         /\ \A i \in DOMAIN saver[c] : saver'[c][i] = saver[c][i]
         /\ \A i \in Nat : i <= Len(saver[c]) => Remembered(c, i)' = Remembered(c, i)
<1> DEFINE checkpoint == [turns |-> remembered, whole |-> whole, held |-> TRUE]
<1>1. saver[c] \in Seq(Checkpoint) /\ saver'[c] = Append(saver[c], checkpoint)
  BY DEF RowsTyped, Checkpointed
<1>2. saver[c] \in Seq(Checkpoint \cup {checkpoint})
  BY <1>1
<1>3. /\ Len(saver[c]) \in Nat /\ DOMAIN saver[c] = 1..Len(saver[c])
      /\ Len(saver'[c]) = Len(saver[c]) + 1 /\ DOMAIN saver'[c] = 1..Len(saver'[c])
      /\ saver'[c][Len(saver'[c])] = checkpoint
      /\ \A i \in 1..Len(saver[c]) : saver'[c][i] = saver[c][i]
  BY <1>1, <1>2, AppendProperties, LenProperties
<1>4. ASSUME NEW i \in Nat, i <= Len(saver[c])
      PROVE  Remembered(c, i)' = Remembered(c, i)
  <2>1. i \in DOMAIN saver'[c] <=> i \in DOMAIN saver[c]
    BY <1>3, <1>4
  <2>2. QED BY <1>3, <2>1 DEF Remembered
<1>5. Len(saver'[c]) \in DOMAIN saver'[c]
  BY <1>3
<1>6. QED BY <1>3, <1>4, <1>5

(* Another checkpoint does not disturb what the thread points to.            *)
LEMMA MemoryGrows ==
  ASSUME RowsTyped, NEW c \in Conversations, NEW remembered, NEW whole, PointersRemember(c),
         saver'[c] = Checkpointed(c, remembered, whole),
         session'[c] = session[c], turns'[c] = turns[c], thread'[c] = thread[c]
  PROVE  PointersRemember(c)'
<1>1. thread[c] \in Thread
  BY DEF RowsTyped
<1>2. thread[c].active \in Nat /\ thread[c].previous \in Nat
  BY <1>1 DEF Thread
<1>3. /\ Len(saver[c]) \in Nat /\ Len(saver'[c]) = Len(saver[c]) + 1
      /\ DOMAIN saver[c] = 1..Len(saver[c]) /\ DOMAIN saver'[c] = 1..Len(saver'[c])
      /\ \A i \in DOMAIN saver[c] : saver'[c][i] = saver[c][i]
  BY Lengthened
<1>4. Remembered(c, thread[c].active)' = Remembered(c, thread[c].active)
      /\ Remembered(c, thread[c].previous)' = Remembered(c, thread[c].previous)
  <2> DEFINE a == thread[c].active
             b == thread[c].previous
  <2>1. a <= Len(saver[c]) /\ b <= Len(saver[c])
    BY DEF PointersRemember
  <2>2. a \in DOMAIN saver'[c] <=> a \in DOMAIN saver[c]
    BY <1>2, <1>3, <2>1
  <2>3. b \in DOMAIN saver'[c] <=> b \in DOMAIN saver[c]
    BY <1>2, <1>3, <2>1
  <2>4. QED BY <1>3, <2>2, <2>3 DEF Remembered
<1>5. /\ CompletedBefore(c, Len(turns[c]) + 1)' = CompletedBefore(c, Len(turns[c]) + 1)
      /\ \A n : CompletedBefore(c, n)' = CompletedBefore(c, n)
      /\ \A n : LatestCompleted(c, n)' = LatestCompleted(c, n)
      /\ Completed(c)' = Completed(c)
  BY DEF CompletedBefore, LatestCompleted, Completed
<1>6. Recent(Remembered(c, thread[c].active))' = Recent(Remembered(c, thread[c].active))
      /\ Recent(Remembered(c, thread[c].previous))' = Recent(Remembered(c, thread[c].previous))
      /\ Recent(CompletedBefore(c, Len(turns[c]) + 1))' = Recent(CompletedBefore(c, Len(turns[c]) + 1))
  BY <1>4, <1>5 DEF Recent
<1>7. \A n : Recent(CompletedBefore(c, n))' = Recent(CompletedBefore(c, n))
  BY <1>5 DEF Recent
<1>8. (thread[c].exists \/ thread[c] = NoThread)'
      /\ (thread[c].active <= Len(saver[c]) /\ thread[c].previous <= Len(saver[c]))'
  BY <1>2, <1>3 DEF PointersRemember, NoThread
<1>9. ASSUME session'[c].state = "active", session'[c].mode = "intelligent"
      PROVE  /\ (thread[c].completed = Cardinality(Completed(c)))'
             /\ (Recent(Remembered(c, thread[c].active)) = Recent(CompletedBefore(c, Len(turns[c]) + 1)))'
  BY <1>5, <1>6, <1>9 DEF PointersRemember
<1>10. ASSUME session'[c].state = "active", session'[c].mode = "intelligent",
              NEW n \in DOMAIN turns'[c], LatestCompleted(c, n)'
       PROVE  /\ Recent(Remembered(c, thread[c].previous))' = Recent(CompletedBefore(c, n))'
              /\ thread'[c].active \in DOMAIN saver'[c]
              /\ saver'[c][thread'[c].active].whole /\ saver'[c][thread'[c].active].held
  BY <1>2, <1>3, <1>5, <1>6, <1>7, <1>10 DEF PointersRemember
<1>11. QED
  BY <1>8, <1>9, <1>10 DEF PointersRemember

LEMMA SameTranscript ==
  ASSUME NEW c \in Conversations, ConversationInv(c), session[c].state = "active",
         UNCHANGED <<session, turns, operation, history>>, PointersRemember(c)'
  PROVE  ConversationInv(c)'
<1>1. OnTheirTurns(c)' /\ VersionsCount(c)'
  BY DEF ConversationInv, OnTheirTurns, VersionsCount, Completed, history
<1>2. TurnsAccounted(c)'
  BY DEF ConversationInv, TurnsAccounted, Appends
<1>3. NothingLeft(c)'
  BY DEF NothingLeft
<1>4. KnowsPrior(c)'
  BY DEF ConversationInv, KnowsPrior, history, Recent, CompletedBefore, Completed
<1>5. QED BY <1>1, <1>2, <1>3, <1>4 DEF ConversationInv

(* Steps that store a checkpoint and write nothing else.                     *)
LEMMA CheckpointStep ==
  ASSUME StoryInv, IInv', NEW t \in Tasks, pc[t] \in Underway, Moves(t),
         NEW remembered, NEW whole,
         saver' = [saver EXCEPT ![job[t].conv] = Checkpointed(job[t].conv, remembered, whole)],
         UNCHANGED <<session, turns, operation, thread, history>>, TaskInv(t)'
  PROVE  StoryInv'
<1>1. PICK c \in Conversations : c = job[t].conv /\ pc[t] # "idle" /\ session[c].state = "active"
  BY WayPoint
<1>2. saver \in [Conversations -> Seq(Checkpoint)] /\ RowsTyped
  BY DEF StoryInv, IInv, TypeOK, RowsTyped
<1>3. saver'[c] = Checkpointed(c, remembered, whole)
      /\ \A d \in Conversations : d # c => saver'[d] = saver[d]
  BY <1>1, <1>2
<1>4. \A d \in Conversations : d # c => Untouched(d)
  BY <1>3 DEF Untouched, history
<1>5. ConversationInv(c)
  BY DEF StoryInv
<1>6. PointersRemember(c)'
  BY <1>2, <1>3, <1>5, MemoryGrows DEF ConversationInv
<1>7. QED BY <1>1, <1>4, <1>5, <1>6, SameTranscript, TaskStep

LEMMA PutBaseCheckpointStory ==
  ASSUME StoryInv, IInv', NEW t \in Tasks, PutBaseCheckpoint(t)
  PROVE  StoryInv'
<1>1. PICK c \in Conversations : c = job[t].conv
  BY AtWork DEF PutBaseCheckpoint, StoryInv
<1>2. /\ pc[t] = "prepare" /\ job[t].mode = "intelligent" /\ ~thread[c].exists
      /\ saver' = [saver EXCEPT ![c] = Checkpointed(c, {}, TRUE)]
      /\ Goto(t, "insert_thread", job[t])
      /\ UNCHANGED <<session, turns, operation, thread, history>>
  BY <1>1 DEF PutBaseCheckpoint
<1>3. pc[t] \in Underway
  BY <1>2 DEF Underway, Sending, InTry
<1>4. RowsTyped /\ saver'[c] = Checkpointed(c, {}, TRUE)
  BY <1>2 DEF StoryInv, IInv, TypeOK, RowsTyped
<1>5. Len(saver'[c]) \in DOMAIN saver'[c]
      /\ saver'[c][Len(saver'[c])] = [turns |-> {}, whole |-> TRUE, held |-> TRUE]
  BY <1>4, Lengthened
<1>6. Remembered(c, Len(saver[c]))' = {}
  BY <1>5 DEF Remembered
<1>7. Moves(t) /\ pc'[t] = "insert_thread" /\ job'[t] = job[t] /\ pending' = pending
  BY <1>2, Going DEF StoryInv
<1>8. TaskInv(t)'
  BY <1>1, <1>2, <1>3, <1>6, <1>7 DEF StoryInv, TaskInv, Underway, Deleting
<1>9. QED BY <1>1, <1>2, <1>3, <1>7, <1>8, CheckpointStep

LEMMA StepGraphStory ==
  ASSUME StoryInv, IInv', NEW t \in Tasks, StepGraph(t)
  PROVE  StoryInv'
<1>1. /\ pc[t] = "infer" /\ job[t].mode = "intelligent"
      /\ saver' = [saver EXCEPT ![job[t].conv] =
                     Checkpointed(job[t].conv, context[job[t].op], FALSE)]
      /\ Goto(t, "stepped", job[t])
      /\ UNCHANGED <<session, turns, operation, thread, history>>
  BY DEF StepGraph
<1>2. pc[t] \in Underway
  BY <1>1 DEF Underway, Sending, InTry
<1>3. Moves(t) /\ pc'[t] = "stepped" /\ job'[t] = job[t] /\ pending' = pending
  BY <1>1, Going DEF StoryInv
<1>4. TaskInv(t)'
  BY <1>1, <1>2, <1>3 DEF StoryInv, TaskInv, Underway, Deleting, history
<1>5. QED BY <1>1, <1>2, <1>3, <1>4, CheckpointStep

LEMMA FinishGraphStory ==
  ASSUME StoryInv, IInv', NEW t \in Tasks, FinishGraph(t)
  PROVE  StoryInv'
<1>1. pc[t] = "stepped" /\ pc[t] \in Underway
  BY DEF FinishGraph, Underway, Sending, InTry
<1>2. PICK c \in Conversations, o \in Operations : c = job[t].conv /\ o = job[t].op
  BY <1>1, WayPoint
<1> DEFINE remembered == context[o] \cup {<<operation[o].turn, o>>}
<1>3. /\ saver' = [saver EXCEPT ![c] = Checkpointed(c, remembered, TRUE)]
      /\ Goto(t, "publish", [job[t] EXCEPT !.terminal = Len(saver'[c])])
      /\ UNCHANGED <<session, turns, operation, thread, history>>
  BY <1>2 DEF FinishGraph
<1>4. RowsTyped /\ saver'[c] = Checkpointed(c, remembered, TRUE)
  BY <1>3 DEF StoryInv, IInv, TypeOK, RowsTyped
<1>5. Len(saver'[c]) \in DOMAIN saver'[c]
      /\ saver'[c][Len(saver'[c])] = [turns |-> remembered, whole |-> TRUE, held |-> TRUE]
  BY <1>4, Lengthened
<1>6. job[t] \in Job
  BY <1>1, WayPoint
<1>7. /\ Moves(t) /\ pc'[t] = "publish" /\ pending' = pending
      /\ job'[t] = [job[t] EXCEPT !.terminal = Len(saver'[c])]
  BY <1>3, Going DEF StoryInv
<1>8. /\ job'[t].conv = c /\ job'[t].op = o /\ job'[t].mode = job[t].mode
      /\ job'[t].terminal = Len(saver'[c])
  BY <1>2, <1>6, <1>7 DEF Job
<1>9. TaskInv(t)'
  <2>1. TaskInv(t)
    BY DEF StoryInv
  <2>2. c \notin pending' /\ operation'[o].status = "running"
        /\ session'[c].mode = job[t].mode /\ inferences'[c][o] > 0
    BY <1>1, <1>2, <1>3, <1>7, <2>1 DEF TaskInv, history
  <2>3. saver'[c][Len(saver'[c])] =
          [turns |-> context'[o] \cup {<<operation'[o].turn, o>>}, whole |-> TRUE, held |-> TRUE]
    BY <1>3, <1>5 DEF history
  <2>4. QED BY <1>5, <1>7, <1>8, <2>2, <2>3 DEF TaskInv, Deleting
<1>10. QED BY <1>1, <1>2, <1>3, <1>7, <1>9, CheckpointStep

-----------------------------------------------------------------------------
(* What a transcript has answered, and its recent part. *)

LEMMA CompletedFinite ==
  ASSUME RowsTyped, NEW c \in Conversations
  PROVE  /\ Len(turns[c]) \in Nat /\ DOMAIN turns[c] = 1..Len(turns[c])
         /\ Completed(c) \subseteq 1..Len(turns[c])
         /\ IsFiniteSet(Completed(c)) /\ Cardinality(Completed(c)) \in Nat
<1>1. turns[c] \in Seq(Turn)
  BY DEF RowsTyped
<1>2. Len(turns[c]) \in Nat /\ DOMAIN turns[c] = 1..Len(turns[c])
  BY <1>1, LenProperties
<1>3. Completed(c) \subseteq 1..Len(turns[c])
  BY <1>2 DEF Completed
<1>4. IsFiniteSet(1..Len(turns[c]))
  BY <1>2, FS_Interval
<1>5. IsFiniteSet(Completed(c)) /\ Cardinality(Completed(c)) \in Nat
  BY <1>3, <1>4, FS_Subset, FS_CardinalityType
<1>6. QED BY <1>2, <1>3, <1>5

LEMMA AnswersFinite ==
  ASSUME RowsTyped, NEW c \in Conversations, NEW n
  PROVE  IsFiniteSet(CompletedBefore(c, n))
<1> DEFINE earlier == {k \in Completed(c) : k < n}
           answerOf == [m \in earlier |-> <<m, turns[c][m].answer>>]
<1>1. IsFiniteSet(earlier)
  BY CompletedFinite, FS_Subset
<1>2. answerOf \in Surjection(earlier, CompletedBefore(c, n))
  BY DEF Surjection, CompletedBefore
<1>3. QED BY <1>1, <1>2, FS_Surjection DEF ExistsSurjection

LEMMA RecentOfNothing == Recent({}) = {}
BY DEF Recent

(* Keeping the recent part and then adding an answer newer than all others   *)
(* is adding it and then keeping the recent part.                            *)
LEMMA RecentOfRecent ==
  ASSUME NEW S \in SUBSET Answers, IsFiniteSet(S), NEW x \in Answers,
         \A p \in S : p[1] < x[1]
  PROVE  Recent(Recent(S) \cup {x}) = Recent(S \cup {x})
<1> DEFINE Newer(T, p) == {q \in T : q[1] > p[1]}
           R == Recent(S)
<1>1. R = {p \in S : Cardinality(Newer(S, p)) < MaxPriorTurns} /\ R \subseteq S
  BY DEF Recent
<1>2. \A p \in S \cup {x} : p[1] \in Nat
  BY DEF Answers
<1>3. MaxPriorTurns \in Nat
  BY WindowAssumption
<1>4. \A p \in S : IsFiniteSet(Newer(S, p)) /\ Cardinality(Newer(S, p)) \in Nat
  BY FS_Subset, FS_CardinalityType
<1>5. ASSUME NEW p \in R
      PROVE  Newer(R, p) = Newer(S, p)
  <2> SUFFICES ASSUME NEW q \in Newer(S, p) PROVE q \in R
    BY <1>1
  <2>1. p \in S /\ q \in S /\ q[1] > p[1]
    BY <1>1
  <2>2. Newer(S, q) \subseteq Newer(S, p)
    BY <1>2, <2>1
  <2>3. Cardinality(Newer(S, q)) <= Cardinality(Newer(S, p))
    BY <1>4, <2>1, <2>2, FS_Subset
  <2>4. Cardinality(Newer(S, p)) < MaxPriorTurns
    BY <1>1
  <2>5. Cardinality(Newer(S, q)) < MaxPriorTurns
    BY <1>3, <1>4, <2>1, <2>3, <2>4
  <2>6. QED BY <1>1, <2>1, <2>5
<1>6. ASSUME NEW p \in R \cup {x}
      PROVE  Newer(R \cup {x}, p) = Newer(S \cup {x}, p)
  <2>1. CASE p = x
    BY <1>1, <1>2, <2>1
  <2>2. CASE p \in R
    BY <1>5, <2>2
  <2>3. QED BY <2>1, <2>2
<1>7. ASSUME NEW p \in S, p \notin R
      PROVE  ~(Cardinality(Newer(S \cup {x}, p)) < MaxPriorTurns)
  <2>1. ~(Cardinality(Newer(S, p)) < MaxPriorTurns)
    BY <1>1, <1>7
  <2>2. IsFiniteSet(S \cup {x})
    BY FS_AddElement
  <2>3. IsFiniteSet(Newer(S \cup {x}, p)) /\ Cardinality(Newer(S \cup {x}, p)) \in Nat
    BY <2>2, FS_Subset, FS_CardinalityType
  <2>4. Newer(S, p) \subseteq Newer(S \cup {x}, p)
    OBVIOUS
  <2>5. Cardinality(Newer(S, p)) <= Cardinality(Newer(S \cup {x}, p))
    BY <2>3, <2>4, FS_Subset
  <2>6. QED BY <1>3, <1>4, <2>1, <2>3, <2>5
<1>8. ASSUME NEW p
      PROVE  p \in Recent(R \cup {x}) <=> p \in Recent(S \cup {x})
  <2>1. p \in Recent(R \cup {x}) <=>
          p \in R \cup {x} /\ Cardinality(Newer(R \cup {x}, p)) < MaxPriorTurns
    BY DEF Recent
  <2>2. p \in Recent(S \cup {x}) <=>
          p \in S \cup {x} /\ Cardinality(Newer(S \cup {x}, p)) < MaxPriorTurns
    BY DEF Recent
  <2>3. QED BY <1>1, <1>6, <1>7, <2>1, <2>2
<1>9. QED BY <1>8 DEF Recent

-----------------------------------------------------------------------------
(* The model is run with the recent turns before its own. *)

LEMMA NothingNewer ==
  ASSUME StoryInv, NEW c \in Conversations, NEW o \in Operations, NEW n,
         operation[o].conv = c, operation[o].status = "running", n = operation[o].turn
  PROVE  /\ operation[o].action = "append" =>
              /\ n \notin Completed(c) /\ turns[c][n].status = "running"
              /\ CompletedBefore(c, n) = CompletedBefore(c, Len(turns[c]) + 1)
         /\ operation[o].action = "replace_last" => LatestCompleted(c, n)
<1>1. /\ n \in DOMAIN turns[c] /\ \A m \in Completed(c) : m <= n
      /\ turns[c][n].status = IF operation[o].action = "append" THEN "running" ELSE "completed"
  BY DEF StoryInv, ConversationInv, OnTheirTurns
<1>2. Completed(c) \subseteq 1..Len(turns[c]) /\ DOMAIN turns[c] = 1..Len(turns[c])
      /\ Len(turns[c]) \in Nat
  BY CompletedFinite DEF StoryInv, IInv, TypeOK
<1>3. ASSUME operation[o].action = "append"
      PROVE  /\ n \notin Completed(c)
             /\ {k \in Completed(c) : k < n} = {k \in Completed(c) : k < Len(turns[c]) + 1}
  BY <1>1, <1>2, <1>3 DEF Completed
<1>4. QED BY <1>1, <1>3 DEF CompletedBefore, LatestCompleted, Completed

LEMMA RunStory ==
  ASSUME StoryInv, IInv', NEW t \in Tasks, NEW c \in Conversations, NEW o \in Operations,
         NEW local, NEW prior, pc[t] \in {"prepare", "insert_thread"},
         c = job[t].conv, o = job[t].op,
         local.conv = c, local.op = o, local.mode = job[t].mode,
         Run(t, prior), Recent(prior) = Recent(CompletedBefore(c, operation[o].turn)),
         Goto(t, "infer", local), UNCHANGED <<session, turns, operation, saver>>,
         \A d \in Conversations : d # c => thread'[d] = thread[d],
         PointersRemember(c)'
  PROVE  StoryInv'
<1>1. pc[t] \in Underway /\ pc[t] # "idle"
  BY DEF Underway, Sending, InTry
<1>2. operation[o].conv = c /\ session[c].state = "active"
  BY <1>1, WayPoint
<1>3. /\ inferences \in [Conversations -> [Operations -> Nat]]
      /\ context \in [Operations -> SUBSET Answers]
  BY DEF StoryInv, IInv, TypeOK, HistoryTyped
<1>4. /\ inferences' = [inferences EXCEPT ![c][o] = @ + 1]
      /\ context' = [context EXCEPT ![o] = Recent(prior)] /\ view' = view
  BY DEF Run
<1>5. /\ \A d \in Conversations, p \in Operations :
             d # c \/ p # o => inferences'[d][p] = inferences[d][p]
      /\ inferences'[c][o] = inferences[c][o] + 1 /\ inferences[c][o] \in Nat
  BY <1>3, <1>4
<1>6. context'[o] = Recent(prior) /\ \A p \in Operations : p # o => context'[p] = context[p]
  BY <1>3, <1>4
<1>7. \A d \in Conversations : d # c => Untouched(d)
  BY <1>2, <1>4, <1>5, <1>6 DEF Untouched
<1>8. ConversationInv(c)
  BY DEF StoryInv
<1>9. OnTheirTurns(c)' /\ VersionsCount(c)'
  BY <1>4, <1>8 DEF ConversationInv, OnTheirTurns, VersionsCount, Completed
<1>10. TurnsAccounted(c)'
  BY <1>8 DEF ConversationInv, TurnsAccounted, Appends
<1>11. NothingLeft(c)'
  BY <1>2 DEF NothingLeft
<1>12. KnowsPrior(c)'
  <2>1. \A m : CompletedBefore(c, m)' = CompletedBefore(c, m)
    BY DEF CompletedBefore, Completed
  <2>2. ASSUME NEW p \in Operations, operation[p].conv = c,
               \/ operation[p].status = "completed"
               \/ operation[p].status = "running" /\ inferences'[c][p] > 0
        PROVE  context'[p] = Recent(CompletedBefore(c, operation[p].turn))
    <3>1. CASE p = o
      BY <1>6, <3>1
    <3>2. CASE p # o
      BY <1>5, <1>6, <1>8, <2>2, <3>2 DEF ConversationInv, KnowsPrior
    <3>3. QED BY <3>1, <3>2
  <2>3. \A p \in Operations : CompletedBefore(c, operation[p].turn)' = CompletedBefore(c, operation[p].turn)
    BY DEF CompletedBefore, Completed
  <2>4. QED BY <2>2, <2>3 DEF KnowsPrior, Recent
<1>13. ConversationInv(c)'
  BY <1>9, <1>10, <1>11, <1>12 DEF ConversationInv
<1>14. Moves(t) /\ pc'[t] = "infer" /\ job'[t] = local /\ pending' = pending
  BY Going DEF StoryInv
<1>15. TaskInv(t)'
  <2>1. TaskInv(t)
    BY DEF StoryInv
  <2>2. c \notin pending' /\ operation'[o].status = "running" /\ session'[c].mode = local.mode
    BY <1>1, <1>14, <2>1 DEF TaskInv
  <2>3. inferences'[c][o] > 0
    BY <1>5
  <2>4. QED BY <1>14, <2>2, <2>3 DEF TaskInv, Deleting
<1>16. QED BY <1>1, <1>7, <1>13, <1>14, <1>15, TaskStep

LEMMA StartRagStory ==
  ASSUME StoryInv, IInv', NEW t \in Tasks, StartRag(t)
  PROVE  StoryInv'
<1>1. pc[t] = "prepare" /\ pc[t] \in Underway
  BY DEF StartRag, Underway, Sending, InTry
<1>2. PICK c \in Conversations, o \in Operations : c = job[t].conv /\ o = job[t].op
  BY <1>1, WayPoint
<1>3. /\ Run(t, CompletedBefore(c, operation[o].turn)) /\ Goto(t, "infer", job[t])
      /\ UNCHANGED <<session, turns, operation, saver, thread>>
  BY <1>2 DEF StartRag, database
<1>4. PointersRemember(c)'
  BY <1>3, UntouchedPointers DEF StoryInv, ConversationInv
<1>5. QED BY <1>1, <1>2, <1>3, <1>4, RunStory

(* A thread that remembers what the transcript has answered gives the run    *)
(* exactly the recent turns before its own.                                  *)
LEMMA StartFromStory ==
  ASSUME StoryInv, IInv', NEW t \in Tasks, NEW c \in Conversations, NEW o \in Operations,
         NEW th, pc[t] \in {"prepare", "insert_thread"}, c = job[t].conv, o = job[t].op,
         StartFrom(t, th), UNCHANGED <<session, turns, operation, saver>>,
         \A d \in Conversations : d # c => thread'[d] = thread[d],
         PointersRemember(c)',
         operation[o].action = "append" =>
           Recent(Remembered(c, th.active)) = Recent(CompletedBefore(c, Len(turns[c]) + 1)),
         \A n : operation[o].action = "replace_last" /\ th.previous # 0 /\ LatestCompleted(c, n) =>
           Recent(Remembered(c, th.previous)) = Recent(CompletedBefore(c, n))
  PROVE  StoryInv'
<1> DEFINE start == StartOf(th, operation[o].action)
           n == operation[o].turn
<1>1. pc[t] \in Underway /\ pc[t] # "idle"
  BY DEF Underway, Sending, InTry
<1>2. /\ operation[o].conv = c /\ operation[o].status = "running"
      /\ operation[o].action \in Actions /\ job[t] \in Job /\ session[c].state = "active"
  BY <1>1, WayPoint
<1>3. CASE start = 0 \/ (operation[o].action = "replace_last" /\ th.completed = 0)
  <2>1. Goto(t, "failing", [job[t] EXCEPT !.verdict = "failed"]) /\ UNCHANGED history
    BY <1>3 DEF StartFrom
  <2>2. Moves(t) /\ TaskInv(t)'
    BY <1>1, <2>1, Going, FailingTask DEF StoryInv
  <2>3. \A d \in Conversations : d # c => Untouched(d)
    BY <2>1 DEF Untouched, history
  <2>4. ConversationInv(c)'
    BY <1>2, <2>1, SameTranscript DEF StoryInv
  <2>5. QED BY <1>1, <2>2, <2>3, <2>4, TaskStep
<1>4. CASE ~(start = 0 \/ (operation[o].action = "replace_last" /\ th.completed = 0))
  <2> DEFINE local == [job[t] EXCEPT !.active = th.active]
  <2>1. Run(t, Remembered(c, start)) /\ Goto(t, "infer", local)
    BY <1>4 DEF StartFrom
  <2>2. local.conv = c /\ local.op = o /\ local.mode = job[t].mode
    BY <1>2 DEF Job
  <2>3. Recent(Remembered(c, start)) = Recent(CompletedBefore(c, n))
    <3>1. CASE operation[o].action = "append"
      BY <1>2, <3>1, NothingNewer DEF StartOf
    <3>2. CASE operation[o].action = "replace_last"
      BY <1>2, <1>4, <3>2, NothingNewer DEF StartOf
    <3>3. QED BY <1>2, <3>1, <3>2 DEF Actions
  <2> HIDE DEF local
  <2>4. QED BY <2>1, <2>2, <2>3, RunStory
<1>5. QED BY <1>3, <1>4

LEMMA StartThreadStory ==
  ASSUME StoryInv, IInv', NEW t \in Tasks, StartThread(t)
  PROVE  StoryInv'
<1>1. pc[t] = "prepare" /\ pc[t] \in Underway /\ job[t].mode = "intelligent"
  BY DEF StartThread, Underway, Sending, InTry
<1>2. PICK c \in Conversations, o \in Operations :
        /\ c = job[t].conv /\ o = job[t].op
        /\ session[c].state = "active" /\ session[c].mode = "intelligent"
  BY <1>1, WayPoint
<1>3. StartFrom(t, thread[c]) /\ UNCHANGED <<session, turns, operation, saver, thread>>
  BY <1>2 DEF StartThread, database
<1>4. PointersRemember(c)
  BY DEF StoryInv, ConversationInv
<1>5. PointersRemember(c)'
  BY <1>3, <1>4, UntouchedPointers
<1>6. Recent(Remembered(c, thread[c].active)) = Recent(CompletedBefore(c, Len(turns[c]) + 1))
      /\ \A n : LatestCompleted(c, n) =>
           Recent(Remembered(c, thread[c].previous)) = Recent(CompletedBefore(c, n))
  BY <1>2, <1>4 DEF PointersRemember, LatestCompleted, Completed
<1>7. QED BY <1>1, <1>2, <1>3, <1>5, <1>6, StartFromStory

-----------------------------------------------------------------------------
(* A thread without answers. *)

LEMMA EmptyPointers ==
  ASSUME RowsTyped', NEW c \in Conversations, NEW i \in Nat, Completed(c)' = {},
         thread'[c].exists \/ thread'[c] = NoThread,
         thread'[c].active = i, thread'[c].previous = 0, thread'[c].completed = 0,
         i <= Len(saver'[c]), Remembered(c, i)' = {}
  PROVE  PointersRemember(c)'
<1>1. Len(saver'[c]) \in Nat /\ DOMAIN saver'[c] = 1..Len(saver'[c])
  BY LenProperties DEF RowsTyped
<1>2. Cardinality(Completed(c)') = 0
  BY FS_EmptySet
<1>3. \A n : CompletedBefore(c, n)' = {}
  BY DEF CompletedBefore
<1>4. CompletedBefore(c, Len(turns[c]) + 1)' = {}
  BY DEF CompletedBefore
<1>5. Remembered(c, thread[c].active)' = {}
  BY DEF Remembered
<1>6. \A n : ~LatestCompleted(c, n)'
  BY DEF LatestCompleted
<1>7. Recent(Remembered(c, thread[c].active))' = Recent(CompletedBefore(c, Len(turns[c]) + 1))'
  BY <1>4, <1>5 DEF Recent
<1>8. QED
  BY <1>1, <1>2, <1>6, <1>7 DEF PointersRemember

LEMMA NoThreadYet ==
  ASSUME StoryInv, NEW t \in Tasks, NEW c \in Conversations, c = job[t].conv,
         pc[t] = "insert_thread"
  PROVE  /\ pc[t] \in Underway /\ session[c].state = "active" /\ session[c].mode = "intelligent"
         /\ thread[c] = NoThread /\ Completed(c) = {}
         /\ Remembered(c, Len(saver[c])) = {} /\ Len(saver[c]) \in Nat
<1>1. pc[t] \in Underway
  BY DEF Underway, Sending, InTry
<1>2. session[c].state = "active" /\ session[c].mode = job[t].mode
  BY <1>1, WayPoint
<1>3. job[t].mode = "intelligent" /\ ~thread[c].exists /\ Remembered(c, Len(saver[c])) = {}
  BY DEF StoryInv, TaskInv
<1>4. PointersRemember(c) /\ RowsTyped
  BY DEF StoryInv, ConversationInv, IInv, TypeOK
<1>5. thread[c] = NoThread
  BY <1>3, <1>4 DEF PointersRemember
<1>6. Cardinality(Completed(c)) = 0
  BY <1>2, <1>3, <1>4, <1>5 DEF PointersRemember, NoThread
<1>7. Completed(c) = {}
  BY <1>4, <1>6, CompletedFinite, FS_EmptySet
<1>8. Len(saver[c]) \in Nat
  BY <1>4, LenProperties DEF RowsTyped
<1>9. QED BY <1>1, <1>2, <1>3, <1>5, <1>7, <1>8

LEMMA InsertThreadStory ==
  ASSUME StoryInv, IInv', NEW t \in Tasks, InsertThread(t)
  PROVE  StoryInv'
<1>1. pc[t] = "insert_thread" /\ pc[t] \in Underway
  BY DEF InsertThread, Underway, Sending, InTry
<1>2. PICK c \in Conversations, o \in Operations : c = job[t].conv /\ o = job[t].op
  BY <1>1, WayPoint
<1>3. /\ thread' = [thread EXCEPT ![c] = BaseThread(c)] /\ StartFrom(t, BaseThread(c))
      /\ UNCHANGED <<session, turns, operation, saver>>
  BY <1>2 DEF InsertThread
<1>4. /\ Completed(c) = {} /\ Remembered(c, Len(saver[c])) = {} /\ Len(saver[c]) \in Nat
  BY <1>1, <1>2, NoThreadYet
<1>5. RowsTyped' /\ thread \in [Conversations -> Thread]
  BY DEF StoryInv, IInv, TypeOK, RowsTyped
<1>6. thread'[c] = BaseThread(c) /\ \A d \in Conversations : d # c => thread'[d] = thread[d]
  BY <1>3, <1>5
<1>7. Completed(c)' = {} /\ Remembered(c, Len(saver[c]))' = {}
  BY <1>3, <1>4 DEF Completed, Remembered
<1>8. PointersRemember(c)'
  <2> DEFINE i == Len(saver[c])
  <2>1. i \in Nat /\ i <= Len(saver'[c]) /\ thread'[c].exists /\ thread'[c].active = i
        /\ thread'[c].previous = 0 /\ thread'[c].completed = 0
    BY <1>3, <1>4, <1>6 DEF BaseThread
  <2>2. PICK j \in Nat : j = i
    BY <2>1
  <2>3. Remembered(c, j)' = {}
    BY <1>3, <1>4, <2>2 DEF Remembered
  <2>4. QED BY <1>5, <1>7, <2>1, <2>2, <2>3, EmptyPointers
<1>9. CompletedBefore(c, Len(turns[c]) + 1) = {}
  BY <1>4 DEF CompletedBefore
<1>10. /\ Recent(Remembered(c, BaseThread(c).active)) = Recent(CompletedBefore(c, Len(turns[c]) + 1))
       /\ BaseThread(c).previous = 0
  BY <1>4, <1>9 DEF BaseThread
<1>11. QED BY <1>1, <1>2, <1>3, <1>6, <1>8, <1>10, StartFromStory

LEMMA ErasedRemembersNothing ==
  ASSUME RowsTyped, NEW c \in Conversations, saver'[c] = Erased(c)
  PROVE  /\ DOMAIN saver'[c] = DOMAIN saver[c] /\ NoneHeld(c)'
         /\ \A i : Remembered(c, i)' = {}
         /\ RowsTyped' => Len(saver'[c]) = Len(saver[c])
<1>1. \A i \in DOMAIN saver[c] : saver[c][i] \in Checkpoint
  BY LenProperties, ElementOfSeq DEF RowsTyped
<1>2. DOMAIN saver'[c] = DOMAIN saver[c] /\ \A i \in DOMAIN saver'[c] : ~saver'[c][i].held
  BY <1>1 DEF Erased, Checkpoint
<1>3. RowsTyped' => Len(saver'[c]) = Len(saver[c])
  <2>1. Len(saver[c]) \in Nat /\ DOMAIN saver[c] = 1..Len(saver[c])
    BY LenProperties DEF RowsTyped
  <2>2. RowsTyped' => Len(saver'[c]) \in Nat /\ DOMAIN saver'[c] = 1..Len(saver'[c])
    BY LenProperties DEF RowsTyped
  <2>3. QED BY <1>2, <2>1, <2>2
<1>4. QED BY <1>2, <1>3 DEF NoneHeld, Remembered

LEMMA FailInsertStory ==
  ASSUME StoryInv, IInv', NEW t \in Tasks, NEW verdict \in Verdicts, FailInsert(t, verdict)
  PROVE  StoryInv'
<1>1. pc[t] = "insert_thread" /\ pc[t] \in Underway /\ pc[t] # "idle"
  BY DEF FailInsert, Underway, Sending, InTry
<1>2. PICK c \in Conversations : c = job[t].conv
  BY <1>1, WayPoint
<1>3. /\ Goto(t, "failing", [job[t] EXCEPT !.verdict = verdict])
      /\ UNCHANGED <<session, turns, operation, history>>
      /\ \/ UNCHANGED <<thread, saver>>
         \/ saver' = [saver EXCEPT ![c] = Erased(c)] /\ UNCHANGED thread
         \/ /\ saver' = [saver EXCEPT ![c] = Erased(c)]
            /\ thread' = [thread EXCEPT ![c] = BaseThread(c)]
  BY <1>2 DEF FailInsert
<1>4. RowsTyped /\ RowsTyped' /\ thread \in [Conversations -> Thread]
      /\ saver \in [Conversations -> Seq(Checkpoint)]
  BY DEF StoryInv, IInv, TypeOK, RowsTyped
<1>5. \A d \in Conversations : d # c => Untouched(d)
  BY <1>3, <1>4 DEF Untouched, history
<1>6. /\ session[c].state = "active" /\ thread[c] = NoThread /\ Completed(c) = {}
      /\ Len(saver[c]) \in Nat
  BY <1>1, <1>2, NoThreadYet
<1>7. Completed(c)' = {}
  BY <1>3, <1>6 DEF Completed
<1>8. PointersRemember(c)'
  <2>1. CASE UNCHANGED <<thread, saver>>
    BY <1>3, <2>1, UntouchedPointers DEF StoryInv, ConversationInv
  <2>2. CASE saver' = [saver EXCEPT ![c] = Erased(c)]
    <3>1. saver'[c] = Erased(c)
      BY <1>4, <2>2
    <3>2. Len(saver'[c]) = Len(saver[c]) /\ \A i : Remembered(c, i)' = {}
      BY <1>4, <3>1, ErasedRemembersNothing
    <3>3. PICK i \in Nat : /\ thread'[c].active = i /\ i <= Len(saver'[c])
                           /\ thread'[c].exists \/ thread'[c] = NoThread
                           /\ thread'[c].previous = 0 /\ thread'[c].completed = 0
      <4>1. thread'[c] = NoThread \/ thread'[c] = BaseThread(c)
        BY <1>3, <1>4, <1>6
      <4>2. QED BY <1>6, <3>2, <4>1 DEF NoThread, BaseThread
    <3>4. Remembered(c, i)' = {}
      BY <3>2
    <3>5. QED BY <1>4, <1>7, <3>3, <3>4, EmptyPointers
  <2>3. QED BY <1>3, <2>1, <2>2
<1>9. ConversationInv(c)'
  BY <1>3, <1>6, <1>8, SameTranscript DEF StoryInv
<1>10. Moves(t) /\ TaskInv(t)'
  BY <1>1, <1>3, Going, FailingTask DEF StoryInv
<1>11. QED BY <1>1, <1>2, <1>5, <1>9, <1>10, TaskStep

-----------------------------------------------------------------------------
(* Deletion. *)

LEMMA EraseCheckpointsStory ==
  ASSUME StoryInv, IInv', NEW t \in Tasks, EraseCheckpoints(t)
  PROVE  StoryInv'
<1>1. pc[t] = "erase" /\ pc[t] # "idle"
  BY DEF EraseCheckpoints
<1>2. PICK c \in Conversations : c = job[t].conv
  BY <1>1, AtWork DEF StoryInv
<1>3. /\ saver' = [saver EXCEPT ![c] = Erased(c)] /\ Goto(t, "tombstone", job[t])
      /\ UNCHANGED <<session, turns, operation, thread, history>>
  BY <1>2 DEF EraseCheckpoints
<1>4. session[c].state = "deleting" /\ c \notin pending
  BY <1>1, <1>2 DEF StoryInv, TaskInv, Deleting
<1>5. RowsTyped /\ RowsTyped' /\ saver'[c] = Erased(c)
  BY <1>3 DEF StoryInv, IInv, TypeOK, RowsTyped
<1>6. NoneHeld(c)' /\ Len(saver'[c]) = Len(saver[c])
  BY <1>5, ErasedRemembersNothing
<1>7. \A d \in Conversations : d # c => Untouched(d)
  BY <1>3 DEF Untouched, history, StoryInv, IInv, TypeOK, RowsTyped
<1>8. ConversationInv(c)'
  <2>1. ConversationInv(c)
    BY DEF StoryInv
  <2>2. OnTheirTurns(c)' /\ VersionsCount(c)'
    BY <1>3, <2>1 DEF ConversationInv, OnTheirTurns, VersionsCount, Completed, history
  <2>3. TurnsAccounted(c)'
    BY <1>3, <2>1 DEF ConversationInv, TurnsAccounted, Appends
  <2>4. NothingLeft(c)' /\ PointersRemember(c)'
    BY <1>3, <1>4, <1>6, <2>1 DEF ConversationInv, NothingLeft, PointersRemember
  <2>5. KnowsPrior(c)'
    BY <1>3, <2>1 DEF ConversationInv, KnowsPrior, history, Recent, CompletedBefore, Completed
  <2>6. QED BY <2>2, <2>3, <2>4, <2>5 DEF ConversationInv
<1>9. Moves(t) /\ pc'[t] = "tombstone" /\ job'[t] = job[t] /\ pending' = pending
  BY <1>3, Going DEF StoryInv
<1>10. TaskInv(t)'
  BY <1>2, <1>3, <1>4, <1>6, <1>9 DEF TaskInv, Underway, Sending, InTry
<1>11. QED BY <1>1, <1>2, <1>7, <1>8, <1>9, <1>10, TaskStep

LEMMA CompleteDeleteStory ==
  ASSUME StoryInv, IInv', NEW t \in Tasks, CompleteDelete(t)
  PROVE  StoryInv'
<1>1. pc[t] = "tombstone" /\ pc[t] # "idle"
  BY DEF CompleteDelete
<1>2. PICK c \in Conversations : c = job[t].conv
  BY <1>1, AtWork DEF StoryInv
<1>3. /\ operation' = [o \in Operations |->
                        IF operation[o].conv = c THEN NoOperation ELSE operation[o]]
      /\ turns' = [turns EXCEPT ![c] = <<>>] /\ thread' = [thread EXCEPT ![c] = NoThread]
      /\ session' = [session EXCEPT ![c] = Tombstone]
      /\ Leave(t) /\ UNCHANGED <<saver, history>>
  BY <1>2 DEF CompleteDelete
<1>4. NoneHeld(c)
  BY <1>1, <1>2 DEF StoryInv, TaskInv
<1>5. c # Null /\ NoOperation.conv = Null /\ Null \notin Conversations
  BY NullAssumption DEF NoOperation
<1>6. RowsTyped /\ RowsTyped'
  BY DEF StoryInv, IInv, TypeOK
<1>7. /\ turns'[c] = <<>> /\ thread'[c] = NoThread /\ session'[c] = Tombstone
      /\ \A o \in Operations : operation'[o].conv # c
      /\ \A d \in Conversations : d # c =>
           turns'[d] = turns[d] /\ thread'[d] = thread[d] /\ session'[d] = session[d]
  BY <1>3, <1>5, <1>6 DEF RowsTyped
<1>8. \A d \in Conversations : d # c => Untouched(d)
  BY <1>3, <1>5, <1>7 DEF Untouched, history
<1>9. ConversationInv(c)'
  <2>1. OnTheirTurns(c)' /\ KnowsPrior(c)' /\ TurnsAccounted(c)'
    BY <1>7 DEF OnTheirTurns, KnowsPrior, TurnsAccounted
  <2>2. NothingLeft(c)'
    BY <1>3, <1>4, <1>7 DEF NothingLeft, NoneHeld
  <2>3. VersionsCount(c)'
    BY <1>7 DEF VersionsCount, Tombstone
  <2>4. Len(saver'[c]) \in Nat
    BY <1>6, LenProperties DEF RowsTyped
  <2>5. PointersRemember(c)'
    BY <1>7, <2>4 DEF PointersRemember, Tombstone, NoThread
  <2>6. QED BY <2>1, <2>2, <2>3, <2>5 DEF ConversationInv
<1>10. QED BY <1>1, <1>2, <1>3, <1>8, <1>9, Leaving, TaskStep DEF StoryInv

-----------------------------------------------------------------------------
(* An operation settles. *)

(* The conversation c gives up its running operation.                        *)
GivesUp(c, o, verdict) ==
  /\ session'[c] = [session[c] EXCEPT !.version = @ + 1]
  /\ operation'[o] = [operation[o] EXCEPT !.status = verdict, !.version = session[c].version + 1]
  /\ \A p \in Operations :
       p # o /\ (operation[p].conv = c \/ operation'[p].conv = c) => operation'[p] = operation[p]
  /\ DOMAIN turns'[c] = DOMAIN turns[c]
  /\ \A m \in DOMAIN turns[c] :
       turns'[c][m] = IF turns[c][m].status = "running"
                      THEN [turns[c][m] EXCEPT !.status = verdict] ELSE turns[c][m]
  /\ thread'[c] = thread[c] /\ saver'[c] = saver[c] /\ UNCHANGED history

(* Its turn is the only one that runs, if it appended one.                   *)
LEMMA OneRunningTurn ==
  ASSUME StoryInv, NEW c \in Conversations, NEW o \in Operations,
         operation[o].conv = c, operation[o].status = "running",
         NEW m \in DOMAIN turns[c]
  PROVE  turns[c][m].status = "running" <=>
           m = operation[o].turn /\ operation[o].action = "append"
<1>1. ConversationInv(c) /\ Running(c) = {o}
  BY DEF StoryInv, IInv, RunningFreezesConversation
<1>2. ASSUME turns[c][m].status = "running"
      PROVE  m = operation[o].turn /\ operation[o].action = "append"
  <2>1. PICK p \in Operations : Appends(c, m) = {p}
    BY <1>1 DEF ConversationInv, TurnsAccounted
  <2>2. operation[p].conv = c /\ operation[p].turn = m /\ operation[p].action = "append"
    BY <2>1 DEF Appends
  <2>3. operation[p].status = "running"
    BY <1>1, <1>2, <2>2 DEF ConversationInv, OnTheirTurns
  <2>4. p = o
    BY <1>1, <2>2, <2>3 DEF Running
  <2>5. QED BY <2>2, <2>4
<1>3. m = operation[o].turn /\ operation[o].action = "append" => turns[c][m].status = "running"
  BY <1>1 DEF ConversationInv, OnTheirTurns
<1>4. QED BY <1>2, <1>3

LEMMA GivenUpTurns ==
  ASSUME StoryInv, RowsTyped', NEW c \in Conversations, NEW o \in Operations,
         NEW verdict \in Verdicts, GivesUp(c, o, verdict)
  PROVE  /\ Completed(c)' = Completed(c) /\ Len(turns'[c]) = Len(turns[c])
         /\ \A n : CompletedBefore(c, n)' = CompletedBefore(c, n)
         /\ \A n : LatestCompleted(c, n)' = LatestCompleted(c, n)
         /\ \A m \in DOMAIN turns[c] :
              /\ turns'[c][m].message = turns[c][m].message
              /\ turns'[c][m].answer = turns[c][m].answer
              /\ turns'[c][m].status =
                   IF turns[c][m].status = "running" THEN verdict ELSE turns[c][m].status
<1>1. \A m \in DOMAIN turns[c] :
        turns[c][m] \in [message : Messages, status : TurnStatus, answer : Operations \cup {Null}]
  BY TurnTyped DEF StoryInv, IInv, TypeOK, Turn
<1>2. \A m \in DOMAIN turns[c] :
        /\ turns'[c][m].message = turns[c][m].message
        /\ turns'[c][m].answer = turns[c][m].answer
        /\ turns'[c][m].status =
             IF turns[c][m].status = "running" THEN verdict ELSE turns[c][m].status
  BY <1>1 DEF GivesUp
<1>3. Completed(c)' = Completed(c)
  BY <1>2 DEF Completed, GivesUp, Verdicts
<1>4. \A n : CompletedBefore(c, n)' = CompletedBefore(c, n)
  BY <1>2, <1>3 DEF CompletedBefore, Completed
<1>5. \A n : LatestCompleted(c, n)' = LatestCompleted(c, n)
  BY <1>3 DEF LatestCompleted
<1>6. Len(turns'[c]) = Len(turns[c])
  <2>1. DOMAIN turns'[c] = DOMAIN turns[c]
    BY DEF GivesUp
  <2>2. turns[c] \in Seq(Turn) /\ turns'[c] \in Seq(Turn)
    BY DEF StoryInv, IInv, TypeOK, RowsTyped
  <2>3. QED BY <2>1, <2>2, LenProperties
<1>7. QED BY <1>2, <1>3, <1>4, <1>5, <1>6

LEMMA SameAnswers ==
  ASSUME NEW c \in Conversations, PointersRemember(c),
         session'[c].state = session[c].state, session'[c].mode = session[c].mode,
         thread'[c] = thread[c], saver'[c] = saver[c],
         DOMAIN turns'[c] = DOMAIN turns[c], Len(turns'[c]) = Len(turns[c]),
         Completed(c)' = Completed(c), \A n : LatestCompleted(c, n)' = LatestCompleted(c, n),
         \A n : CompletedBefore(c, n)' = CompletedBefore(c, n)
  PROVE  PointersRemember(c)'
<1>1. PICK l : l = Len(turns[c]) + 1
  OBVIOUS
<1>2. CompletedBefore(c, Len(turns[c]) + 1)' = CompletedBefore(c, l)
  <2>1. CompletedBefore(c, Len(turns[c]) + 1)' = CompletedBefore(c, l)'
    BY <1>1 DEF CompletedBefore
  <2>2. QED BY <2>1
<1>3. Remembered(c, thread[c].active)' = Remembered(c, thread[c].active)
      /\ Remembered(c, thread[c].previous)' = Remembered(c, thread[c].previous)
  BY DEF Remembered
<1>4. Recent(Remembered(c, thread[c].active))' = Recent(Remembered(c, thread[c].active))
      /\ Recent(Remembered(c, thread[c].previous))' = Recent(Remembered(c, thread[c].previous))
      /\ Recent(CompletedBefore(c, Len(turns[c]) + 1))' = Recent(CompletedBefore(c, Len(turns[c]) + 1))
  BY <1>1, <1>2, <1>3 DEF Recent
<1>5. ASSUME NEW n
      PROVE  Recent(CompletedBefore(c, n))' = Recent(CompletedBefore(c, n))
  <2>1. CompletedBefore(c, n)' = CompletedBefore(c, n)
    OBVIOUS
  <2>2. QED BY <2>1 DEF Recent
<1>6. QED BY <1>4, <1>5 DEF PointersRemember

LEMMA GiveUpKeeps ==
  ASSUME StoryInv, RowsTyped', NEW c \in Conversations, NEW o \in Operations,
         operation[o].conv = c, operation[o].status = "running",
         NEW verdict \in Verdicts, GivesUp(c, o, verdict)
  PROVE  ConversationInv(c)'
<1>1. ConversationInv(c) /\ Running(c) = {o} /\ session[c].state = "active"
  BY DEF StoryInv, IInv, RunningFreezesConversation
<1>2. operation[o] \in [conv : Conversations, turn : Nat, action : Actions,
                        message : Messages, status : TurnStatus, version : Nat]
  BY RunningOperation DEF StoryInv
<1>3. /\ operation'[o].conv = c /\ operation'[o].turn = operation[o].turn
      /\ operation'[o].action = operation[o].action /\ operation'[o].message = operation[o].message
      /\ operation'[o].status = verdict /\ verdict # "completed" /\ verdict # "running"
  BY <1>2 DEF GivesUp, Verdicts
<1>4. \A p \in Operations : p # o /\ (operation[p].conv = c \/ operation'[p].conv = c) =>
        operation'[p] = operation[p] /\ operation[p].status # "running"
  BY <1>1 DEF GivesUp, Running
<1>5. session[c] \in [state : {"active", "deleting"}, version : Nat, mode : Modes]
  BY <1>1, SessionTyped DEF StoryInv
<1>6. /\ session'[c].state = "active" /\ session'[c].mode = session[c].mode
      /\ session'[c].version = session[c].version + 1 /\ session[c].version \in Nat
  BY <1>1, <1>5 DEF GivesUp
<1>7. /\ Completed(c)' = Completed(c) /\ Len(turns'[c]) = Len(turns[c])
      /\ DOMAIN turns'[c] = DOMAIN turns[c]
      /\ \A n : CompletedBefore(c, n)' = CompletedBefore(c, n)
      /\ \A n : LatestCompleted(c, n)' = LatestCompleted(c, n)
      /\ \A m \in DOMAIN turns[c] :
           /\ turns'[c][m].message = turns[c][m].message
           /\ turns'[c][m].answer = turns[c][m].answer
           /\ turns'[c][m].status =
                IF turns[c][m].status = "running" THEN verdict ELSE turns[c][m].status
  <2>1. DOMAIN turns'[c] = DOMAIN turns[c]
    BY DEF GivesUp
  <2>2. QED BY <2>1, GivenUpTurns
<1>8. OnTheirTurns(c)'
  <2>1. ASSUME NEW p \in Operations, operation'[p].conv = c
        PROVE  LET n == operation'[p].turn IN
               /\ n \in DOMAIN turns'[c] /\ turns'[c][n].message = operation'[p].message
               /\ turns'[c][n].status = IF operation'[p].action = "append"
                                        THEN operation'[p].status ELSE "completed"
               /\ operation'[p].status # "running"
    <3> DEFINE n == operation[p].turn
    <3>1. operation[p].conv = c
      BY <1>3, <1>4, <2>1
    <3>2. /\ n \in DOMAIN turns[c] /\ turns[c][n].message = operation[p].message
          /\ turns[c][n].status = IF operation[p].action = "append"
                                  THEN operation[p].status ELSE "completed"
      BY <1>1, <3>1 DEF ConversationInv, OnTheirTurns
    <3>3. CASE p = o
      BY <1>3, <1>7, <3>2, <3>3
    <3>4. CASE p # o
      BY <1>4, <1>7, <2>1, <3>2, <3>4
    <3>5. QED BY <3>3, <3>4
  <2>2. QED BY <2>1 DEF OnTheirTurns
<1>9. TurnsAccounted(c)'
  <2>1. \A n : Appends(c, n)' = Appends(c, n)
    BY <1>3, <1>4 DEF Appends
  <2>2. ASSUME NEW n \in DOMAIN turns'[c]
        PROVE  IF turns'[c][n].status = "completed"
               THEN LET a == turns'[c][n].answer IN
                    /\ a \in Operations /\ operation'[a].conv = c
                    /\ operation'[a].turn = n /\ operation'[a].status = "completed"
               ELSE turns'[c][n].answer = Null
    <3>1. turns'[c][n].status = "completed" <=> turns[c][n].status = "completed"
      BY <1>3, <1>7
    <3>2. turns'[c][n].answer = turns[c][n].answer
      BY <1>7
    <3>3. QED BY <1>1, <1>4, <1>7, <3>1, <3>2 DEF ConversationInv, TurnsAccounted
  <2>3. QED BY <1>1, <1>7, <2>1, <2>2 DEF ConversationInv, TurnsAccounted
<1>10. NothingLeft(c)'
  BY <1>6 DEF NothingLeft
<1>11. VersionsCount(c)'
  <2>1. view' = view /\ Len(turns[c]) \in Nat /\ Len(turns[c]) < session[c].version
    BY <1>1, CompletedFinite DEF GivesUp, history, ConversationInv, VersionsCount, StoryInv, IInv, TypeOK
  <2>2. \A k \in Clients : view[k][c].version \in Nat /\ view[k][c].version <= session[c].version
    BY <1>1 DEF ConversationInv, VersionsCount, StoryInv, IInv, TypeOK, HistoryTyped, Reading
  <2>3. QED BY <1>6, <1>7, <2>1, <2>2 DEF VersionsCount
<1>12. PointersRemember(c)'
  <2>1. thread'[c] = thread[c] /\ saver'[c] = saver[c]
    BY DEF GivesUp
  <2>2. QED BY <1>1, <1>6, <1>7, <2>1, SameAnswers DEF ConversationInv
<1>13. KnowsPrior(c)'
  <2>1. ASSUME NEW p \in Operations, operation'[p].conv = c,
               \/ operation'[p].status = "completed"
               \/ operation'[p].status = "running" /\ inferences'[c][p] > 0
        PROVE  context'[p] = Recent(CompletedBefore(c, operation[p].turn))'
    <3>1. p # o /\ operation'[p] = operation[p] /\ context'[p] = context[p]
          /\ operation[p].conv = c /\ operation[p].status = "completed"
      BY <1>3, <1>4, <2>1 DEF GivesUp, history
    <3>2. PICK n : n = operation[p].turn
      OBVIOUS
    <3>3. CompletedBefore(c, operation[p].turn)' = CompletedBefore(c, n)'
      BY <3>1, <3>2 DEF CompletedBefore
    <3>4. QED BY <1>1, <1>7, <3>1, <3>2, <3>3 DEF ConversationInv, KnowsPrior, Recent
  <2>2. QED BY <2>1 DEF KnowsPrior
<1>14. QED BY <1>8, <1>9, <1>10, <1>11, <1>12, <1>13 DEF ConversationInv

(* Recording a failure writes nothing, or gives up the operation.            *)
LEMMA FailureRecorded ==
  ASSUME StoryInv, IInv', NEW t \in Tasks, RecordFailure(t)
  PROVE  \/ UNCHANGED <<database, history>>
         \/ \E c \in Conversations, o \in Operations, verdict \in Verdicts :
              /\ c = job[t].conv /\ operation[o].conv = c /\ operation[o].status = "running"
              /\ GivesUp(c, o, verdict) /\ \A p \in Operations : p # o => operation'[p] = operation[p]
              /\ \A d \in Conversations : d # c => Untouched(d)
<1>1. pc[t] = "failing" /\ pc[t] # "idle" /\ pc[t] \in Sending /\ Leave(t)
  BY DEF RecordFailure, Sending
<1>2. PICK c \in Conversations, o \in Operations :
        c = job[t].conv /\ o = job[t].op /\ operation[o].conv = c
  BY <1>1, AtWork DEF StoryInv
<1>3. PICK verdict \in Verdicts : verdict = job[t].verdict
  BY <1>1 DEF StoryInv, IInv, OwnOperations
<1>4. CASE ~Unsettled(o)
  BY <1>2, <1>4 DEF RecordFailure, database
<1>5. CASE Unsettled(o)
  <2>1. operation[o].status = "running"
    BY <1>5 DEF Unsettled
  <2>2. /\ session' = [session EXCEPT ![c].version = @ + 1]
        /\ turns' = IF operation[o].action = "append"
                    THEN [turns EXCEPT ![c][operation[o].turn].status = verdict] ELSE turns
        /\ operation' = [operation EXCEPT ![o].status = verdict,
                                          ![o].version = session[c].version + 1]
        /\ UNCHANGED <<thread, saver, history>>
    BY <1>2, <1>3, <1>5 DEF RecordFailure, FailsTurn
  <2>3. RowsTyped /\ RowsTyped'
    BY DEF StoryInv, IInv, TypeOK
  <2>4. /\ operation'[o] = [operation[o] EXCEPT !.status = verdict, !.version = session[c].version + 1]
        /\ \A p \in Operations : p # o => operation'[p] = operation[p]
    BY <2>2, <2>3 DEF RowsTyped
  <2>5. session'[c] = [session[c] EXCEPT !.version = @ + 1]
        /\ \A d \in Conversations : d # c => session'[d] = session[d] /\ turns'[d] = turns[d]
    BY <2>2, <2>3 DEF RowsTyped
  <2>6. operation'[o].conv = c
    <3>1. operation[o] \in [conv : Conversations, turn : Nat, action : Actions,
                            message : Messages, status : TurnStatus, version : Nat]
      BY <2>1, RunningOperation DEF StoryInv
    <3>2. QED BY <1>2, <2>4, <3>1
  <2>7. \A d \in Conversations : d # c => Untouched(d)
    BY <1>2, <2>2, <2>4, <2>5, <2>6 DEF Untouched, history
  <2>8. DOMAIN turns'[c] = DOMAIN turns[c] /\
        \A m \in DOMAIN turns[c] :
          turns'[c][m] = IF turns[c][m].status = "running"
                         THEN [turns[c][m] EXCEPT !.status = verdict] ELSE turns[c][m]
    <3>1. turns \in [Conversations -> Seq(Turn)] /\ turns[c] \in Seq(Turn)
      BY <2>3 DEF RowsTyped
    <3>2. CASE operation[o].action = "append"
      <4>1. turns'[c] = [turns[c] EXCEPT ![operation[o].turn].status = verdict]
        BY <2>2, <3>1, <3>2
      <4>2. DOMAIN turns'[c] = DOMAIN turns[c]
            /\ \A m \in DOMAIN turns[c] :
                 turns'[c][m] = IF m = operation[o].turn
                                THEN [turns[c][m] EXCEPT !.status = verdict] ELSE turns[c][m]
        BY <4>1
      <4>3. \A m \in DOMAIN turns[c] :
              turns[c][m].status = "running" <=> m = operation[o].turn
        BY <1>2, <2>1, <3>2, OneRunningTurn
      <4>4. QED BY <4>2, <4>3
    <3>3. CASE operation[o].action # "append"
      BY <1>2, <2>1, <2>2, <3>3, OneRunningTurn
    <3>4. QED BY <3>2, <3>3
  <2>9. GivesUp(c, o, verdict)
    BY <2>2, <2>4, <2>5, <2>8 DEF GivesUp
  <2>10. QED BY <1>2, <2>1, <2>4, <2>7, <2>9
<1>6. QED BY <1>4, <1>5

LEMMA RecordFailureStory ==
  ASSUME StoryInv, IInv', NEW t \in Tasks, RecordFailure(t)
  PROVE  StoryInv'
<1>1. pc[t] # "idle" /\ Leave(t)
  BY DEF RecordFailure
<1>2. Moves(t) /\ TaskInv(t)'
  BY <1>1, Leaving DEF StoryInv
<1>3. CASE UNCHANGED <<database, history>>
  BY <1>1, <1>2, <1>3, SilentStep
<1>4. ASSUME NEW c \in Conversations, NEW o \in Operations, NEW verdict \in Verdicts,
             c = job[t].conv, operation[o].conv = c, operation[o].status = "running",
             GivesUp(c, o, verdict), \A d \in Conversations : d # c => Untouched(d)
      PROVE  StoryInv'
  <2>1. RowsTyped'
    BY DEF IInv, TypeOK
  <2>2. ConversationInv(c)'
    BY <1>4, <2>1, GiveUpKeeps
  <2>3. QED BY <1>1, <1>2, <1>4, <2>2, TaskStep
<1>5. QED BY <1>3, <1>4, FailureRecorded


-----------------------------------------------------------------------------
(* A publication. *)

(* The conversation c publishes the answer of its running operation.         *)
Publishes(c, o, n) ==
  /\ session'[c] = [session[c] EXCEPT !.version = @ + 1]
  /\ operation'[o] = [operation[o] EXCEPT !.status = "completed",
                                          !.version = session[c].version + 1]
  /\ \A p \in Operations : p # o => operation'[p] = operation[p]
  /\ turns'[c] = [turns[c] EXCEPT ![n] = [@ EXCEPT !.status = "completed", !.answer = o]]
  /\ UNCHANGED history

(* The turn of the operation becomes the newest answered one.                *)
LEMMA PublishedTurns ==
  ASSUME StoryInv, NEW c \in Conversations, NEW o \in Operations, NEW n,
         operation[o].conv = c, operation[o].status = "running", n = operation[o].turn,
         Publishes(c, o, n)
  PROVE  /\ n \in DOMAIN turns[c] /\ n \in Nat /\ DOMAIN turns'[c] = DOMAIN turns[c]
         /\ turns'[c][n].status = "completed" /\ turns'[c][n].answer = o
         /\ turns'[c][n].message = turns[c][n].message
         /\ \A m \in DOMAIN turns[c] : m # n => turns'[c][m] = turns[c][m]
         /\ Completed(c)' = Completed(c) \cup {n} /\ \A m \in Completed(c) : m <= n
         /\ \A m \in Nat : m <= n => CompletedBefore(c, m)' = CompletedBefore(c, m)
         /\ \A m \in Nat : m > n =>
              CompletedBefore(c, m)' = CompletedBefore(c, n) \cup {<<n, o>>}
         /\ \A m : LatestCompleted(c, m)' => m = n
<1>1. n \in DOMAIN turns[c] /\ \A m \in Completed(c) : m <= n
  BY DEF StoryInv, ConversationInv, OnTheirTurns
<1>2. DOMAIN turns[c] = 1..Len(turns[c]) /\ Len(turns[c]) \in Nat
  BY CompletedFinite DEF StoryInv, IInv, TypeOK
<1>3. turns[c][n] \in [message : Messages, status : TurnStatus, answer : Operations \cup {Null}]
  BY <1>1, TurnTyped DEF StoryInv, IInv, TypeOK, Turn
<1>4. DOMAIN turns'[c] = DOMAIN turns[c]
      /\ \A m \in DOMAIN turns[c] : m # n => turns'[c][m] = turns[c][m]
  BY DEF Publishes
<1>5. /\ turns'[c][n].status = "completed" /\ turns'[c][n].answer = o
      /\ turns'[c][n].message = turns[c][n].message
  <2>1. turns'[c][n] = [turns[c][n] EXCEPT !.status = "completed", !.answer = o]
    BY <1>1 DEF Publishes
  <2>2. QED BY <1>3, <2>1
<1>6. Completed(c)' = Completed(c) \cup {n}
  BY <1>1, <1>4, <1>5 DEF Completed
<1>7. n \in Nat /\ Completed(c) \subseteq Nat
  BY <1>1, <1>2 DEF Completed
<1>8. ASSUME NEW m \in Nat, m <= n
      PROVE  CompletedBefore(c, m)' = CompletedBefore(c, m)
  <2>1. {k \in Completed(c)' : k < m} = {k \in Completed(c) : k < m}
    BY <1>6, <1>7, <1>8
  <2>2. \A k \in {k \in Completed(c) : k < m} : turns'[c][k] = turns[c][k]
    BY <1>4, <1>7, <1>8 DEF Completed
  <2>3. QED BY <2>1, <2>2 DEF CompletedBefore
<1>9. ASSUME NEW m \in Nat, m > n
      PROVE  CompletedBefore(c, m)' = CompletedBefore(c, n) \cup {<<n, o>>}
  <2>1. {k \in Completed(c)' : k < m} = {k \in Completed(c) : k < n} \cup {n}
    BY <1>1, <1>6, <1>7, <1>9
  <2>2. \A k \in {k \in Completed(c) : k < n} : turns'[c][k] = turns[c][k]
    BY <1>4, <1>7 DEF Completed
  <2>3. QED BY <1>5, <2>1, <2>2 DEF CompletedBefore
<1>10. ASSUME NEW m, LatestCompleted(c, m)'
       PROVE  m = n
  <2>1. m \in Completed(c) \cup {n} /\ n <= m
    BY <1>6, <1>10 DEF LatestCompleted
  <2>2. QED BY <1>1, <1>7, <2>1
<1>11. QED BY <1>1, <1>4, <1>5, <1>6, <1>7, <1>8, <1>9, <1>10

LEMMA PublishKeeps ==
  ASSUME StoryInv, RowsTyped', NEW c \in Conversations, NEW o \in Operations, NEW n,
         operation[o].conv = c, operation[o].status = "running", n = operation[o].turn,
         context[o] = Recent(CompletedBefore(c, n)),
         Publishes(c, o, n), PointersRemember(c)'
  PROVE  ConversationInv(c)'
<1>1. ConversationInv(c) /\ Running(c) = {o} /\ session[c].state = "active"
  BY DEF StoryInv, IInv, RunningFreezesConversation
<1>2. operation[o] \in [conv : Conversations, turn : Nat, action : Actions,
                        message : Messages, status : TurnStatus, version : Nat]
  BY RunningOperation DEF StoryInv
<1>3. /\ operation'[o].conv = c /\ operation'[o].turn = n /\ operation'[o].status = "completed"
      /\ operation'[o].action = operation[o].action /\ operation'[o].message = operation[o].message
  BY <1>2 DEF Publishes
<1>4. \A p \in Operations : p # o =>
        operation'[p] = operation[p] /\ ~(operation[p].conv = c /\ operation[p].status = "running")
  BY <1>1 DEF Publishes, Running
<1>5. session[c] \in [state : {"active", "deleting"}, version : Nat, mode : Modes]
  BY <1>1, SessionTyped DEF StoryInv
<1>6. /\ session'[c].state = "active" /\ session'[c].mode = session[c].mode
      /\ session'[c].version = session[c].version + 1 /\ session[c].version \in Nat
  BY <1>1, <1>5 DEF Publishes
<1>7. /\ n \in DOMAIN turns[c] /\ n \in Nat /\ DOMAIN turns'[c] = DOMAIN turns[c]
      /\ turns'[c][n].status = "completed" /\ turns'[c][n].answer = o
      /\ turns'[c][n].message = turns[c][n].message
      /\ \A m \in DOMAIN turns[c] : m # n => turns'[c][m] = turns[c][m]
      /\ Completed(c)' = Completed(c) \cup {n} /\ \A m \in Completed(c) : m <= n
      /\ \A m \in Nat : m <= n => CompletedBefore(c, m)' = CompletedBefore(c, m)
  BY PublishedTurns
<1>8. OnTheirTurns(c)'
  <2>1. ASSUME NEW p \in Operations, operation'[p].conv = c
        PROVE  LET m == operation'[p].turn IN
               /\ m \in DOMAIN turns'[c] /\ turns'[c][m].message = operation'[p].message
               /\ turns'[c][m].status = IF operation'[p].action = "append"
                                        THEN operation'[p].status ELSE "completed"
               /\ operation'[p].status # "running"
    <3> DEFINE m == operation[p].turn
    <3>1. operation[p].conv = c
      BY <1>4, <2>1
    <3>2. /\ m \in DOMAIN turns[c] /\ turns[c][m].message = operation[p].message
          /\ turns[c][m].status = IF operation[p].action = "append"
                                  THEN operation[p].status ELSE "completed"
      BY <1>1, <3>1 DEF ConversationInv, OnTheirTurns
    <3>3. CASE p = o
      BY <1>3, <1>7, <3>2, <3>3
    <3>4. CASE p # o /\ m # n
      BY <1>4, <1>7, <2>1, <3>2, <3>4
    <3>5. CASE p # o /\ m = n
      <4>1. operation[p].action = "append" => operation[p].status = "completed"
        <5>1. PICK q \in Operations : Appends(c, n) = {q}
          BY <1>1, <1>7 DEF ConversationInv, TurnsAccounted
        <5>2. SUFFICES ASSUME operation[p].action = "append"
                       PROVE  operation[p].status = "completed"
          OBVIOUS
        <5>3. operation[o].action # "append"
          BY <3>1, <3>5, <5>1, <5>2 DEF Appends
        <5>4. turns[c][n].status = "completed"
          BY <1>1, <5>3 DEF ConversationInv, OnTheirTurns
        <5>5. QED BY <3>2, <3>5, <5>2, <5>4
      <4>2. QED BY <1>4, <1>7, <3>1, <3>2, <3>5, <4>1
    <3>6. QED BY <3>3, <3>4, <3>5
  <2>2. QED BY <2>1 DEF OnTheirTurns
<1>9. TurnsAccounted(c)'
  <2>1. \A m : Appends(c, m)' = Appends(c, m)
    BY <1>3, <1>4 DEF Appends
  <2>2. ASSUME NEW m \in DOMAIN turns'[c]
        PROVE  IF turns'[c][m].status = "completed"
               THEN LET a == turns'[c][m].answer IN
                    /\ a \in Operations /\ operation'[a].conv = c
                    /\ operation'[a].turn = m /\ operation'[a].status = "completed"
               ELSE turns'[c][m].answer = Null
    <3>1. CASE m = n
      BY <1>3, <1>7, <3>1
    <3>2. CASE m # n
      <4>1. turns'[c][m] = turns[c][m]
        BY <1>7, <3>2
      <4>2. CASE turns[c][m].status = "completed"
        <5> DEFINE a == turns[c][m].answer
        <5>1. /\ a \in Operations /\ operation[a].conv = c
              /\ operation[a].turn = m /\ operation[a].status = "completed"
          BY <1>1, <1>7, <4>2 DEF ConversationInv, TurnsAccounted
        <5>2. operation'[a] = operation[a]
          BY <1>4, <5>1
        <5>3. QED BY <4>1, <4>2, <5>1, <5>2
      <4>3. CASE turns[c][m].status # "completed"
        BY <1>1, <1>7, <4>1, <4>3 DEF ConversationInv, TurnsAccounted
      <4>4. QED BY <4>2, <4>3
    <3>3. QED BY <3>1, <3>2
  <2>3. QED BY <1>1, <1>7, <2>1, <2>2 DEF ConversationInv, TurnsAccounted
<1>10. NothingLeft(c)'
  BY <1>6 DEF NothingLeft
<1>11. VersionsCount(c)'
  <2>1. view' = view /\ Len(turns[c]) \in Nat /\ Len(turns[c]) < session[c].version
    BY <1>1, CompletedFinite DEF Publishes, history, ConversationInv, VersionsCount, StoryInv, IInv, TypeOK
  <2>2. \A k \in Clients : view[k][c].version \in Nat /\ view[k][c].version <= session[c].version
    BY <1>1 DEF ConversationInv, VersionsCount, StoryInv, IInv, TypeOK, HistoryTyped, Reading
  <2>3. Len(turns'[c]) = Len(turns[c])
    <3>1. turns[c] \in Seq(Turn) /\ turns'[c] \in Seq(Turn)
      BY DEF StoryInv, IInv, TypeOK, RowsTyped
    <3>2. QED BY <1>7, <3>1, LenProperties
  <2>4. QED BY <1>6, <2>1, <2>2, <2>3 DEF VersionsCount
<1>12. KnowsPrior(c)'
  <2>1. ASSUME NEW p \in Operations, operation'[p].conv = c,
               \/ operation'[p].status = "completed"
               \/ operation'[p].status = "running" /\ inferences'[c][p] > 0
        PROVE  context'[p] = Recent(CompletedBefore(c, operation[p].turn))'
    <3>1. PICK m : m = operation'[p].turn
      OBVIOUS
    <3>2. /\ operation[p].conv = c /\ operation[p].turn = m /\ m \in DOMAIN turns[c]
          /\ operation'[p].status = "completed"
      BY <1>1, <1>3, <1>4, <1>7, <2>1, <3>1 DEF ConversationInv, OnTheirTurns
    <3>3. m \in Nat /\ m <= n
      <4>1. CASE p = o
        BY <1>7, <3>2, <4>1
      <4>2. CASE p # o
        <5>1. operation[p].status = "completed"
          BY <1>4, <3>2, <4>2
        <5>2. m \in Completed(c)
          BY <1>1, <3>2, <5>1 DEF ConversationInv, OnTheirTurns, Completed
        <5>3. QED BY <1>7, <5>2, CompletedFinite DEF StoryInv, IInv, TypeOK
      <4>3. QED BY <4>1, <4>2
    <3>4. context[p] = Recent(CompletedBefore(c, m))
      BY <1>1, <1>4, <3>2 DEF ConversationInv, KnowsPrior
    <3>5. CompletedBefore(c, m)' = CompletedBefore(c, m)
      BY <1>7, <3>3
    <3>6. CompletedBefore(c, operation[p].turn)' = CompletedBefore(c, m)'
      BY <3>1 DEF CompletedBefore
    <3>7. context'[p] = context[p]
      BY DEF Publishes, history
    <3>8. QED BY <3>4, <3>5, <3>6, <3>7 DEF Recent
  <2>2. QED BY <2>1 DEF KnowsPrior
<1>13. QED BY <1>8, <1>9, <1>10, <1>11, <1>12 DEF ConversationInv

(* The published checkpoint remembers every answer, the one before it those  *)
(* before the newest.                                                        *)
LEMMA PublishPointers ==
  ASSUME StoryInv, RowsTyped', NEW c \in Conversations, NEW o \in Operations, NEW n, NEW terminal,
         operation[o].conv = c, operation[o].status = "running", n = operation[o].turn,
         operation[o].action \in Actions, session[c].mode = "intelligent",
         context[o] = Recent(CompletedBefore(c, n)),
         terminal \in DOMAIN saver[c], thread[c].exists,
         saver[c][terminal] =
           [turns |-> context[o] \cup {<<n, o>>}, whole |-> TRUE, held |-> TRUE],
         saver'[c] = saver[c], thread'[c] = Advanced(thread[c], operation[o].action, terminal),
         Publishes(c, o, n)
  PROVE  PointersRemember(c)'
<1> DEFINE prior == CompletedBefore(c, n)
           all == prior \cup {<<n, o>>}
<1>1. /\ PointersRemember(c) /\ session[c].state = "active" /\ RowsTyped
      /\ thread[c] \in Thread /\ Len(saver[c]) \in Nat /\ DOMAIN saver[c] = 1..Len(saver[c])
  BY LenProperties DEF StoryInv, ConversationInv, IInv, RunningFreezesConversation, TypeOK, RowsTyped
<1>2. /\ n \in DOMAIN turns[c] /\ n \in Nat /\ DOMAIN turns'[c] = DOMAIN turns[c]
      /\ Completed(c)' = Completed(c) \cup {n} /\ \A m \in Completed(c) : m <= n
      /\ \A m \in Nat : m <= n => CompletedBefore(c, m)' = CompletedBefore(c, m)
      /\ \A m \in Nat : m > n => CompletedBefore(c, m)' = all
      /\ \A m : LatestCompleted(c, m)' => m = n
  BY PublishedTurns
<1>3. /\ thread'[c].exists /\ thread'[c].active = terminal /\ thread'[c].previous \in Nat
      /\ thread'[c].previous <= Len(saver[c])
      /\ operation[o].action = "append" => /\ thread'[c].previous = thread[c].active
                                           /\ thread'[c].completed = thread[c].completed + 1
      /\ operation[o].action # "append" => /\ thread'[c].previous = thread[c].previous
                                           /\ thread'[c].completed = thread[c].completed
  BY <1>1 DEF Advanced, Thread, PointersRemember
<1>4. /\ thread[c].completed = Cardinality(Completed(c))
      /\ Recent(Remembered(c, thread[c].active)) = Recent(CompletedBefore(c, Len(turns[c]) + 1))
      /\ \A m \in DOMAIN turns[c] : LatestCompleted(c, m) =>
           Recent(Remembered(c, thread[c].previous)) = Recent(CompletedBefore(c, m))
  BY <1>1 DEF PointersRemember
<1>5. thread'[c].completed = Cardinality(Completed(c)')
  <2>1. IsFiniteSet(Completed(c)) /\ Cardinality(Completed(c)) \in Nat
    BY <1>1, CompletedFinite
  <2>2. CASE operation[o].action = "append"
    <3>1. n \notin Completed(c)
      BY <2>2, NothingNewer
    <3>2. Cardinality(Completed(c) \cup {n}) = Cardinality(Completed(c)) + 1
      BY <2>1, <3>1, FS_AddElement
    <3>3. QED BY <1>2, <1>3, <1>4, <2>2, <3>2
  <2>3. CASE operation[o].action # "append"
    <3>1. n \in Completed(c)
      BY <2>3, NothingNewer DEF Actions, LatestCompleted
    <3>2. Completed(c)' = Completed(c)
      BY <1>2, <3>1
    <3>3. QED BY <1>3, <1>4, <2>3, <3>2
  <2>4. QED BY <2>2, <2>3
<1>6. Recent(context[o] \cup {<<n, o>>}) = Recent(all)
  <2>1. prior \in SUBSET Answers /\ IsFiniteSet(prior)
    BY <1>1, CompletedBeforeTyped, AnswersFinite
  <2>2. <<n, o>> \in Answers /\ \A p \in prior : p[1] < n
    BY <1>2 DEF Answers, CompletedBefore
  <2>3. QED BY <2>1, <2>2, RecentOfRecent
<1>7. Recent(Remembered(c, thread[c].active))' = Recent(all)
  <2>1. Remembered(c, terminal) = context[o] \cup {<<n, o>>}
    BY DEF Remembered
  <2>2. Remembered(c, thread[c].active)' = Remembered(c, terminal)
    BY <1>3 DEF Remembered
  <2>3. Recent(Remembered(c, thread[c].active))' = Recent(Remembered(c, terminal))
    BY <2>2 DEF Recent
  <2>4. QED BY <1>6, <2>1, <2>3
<1>8. Recent(CompletedBefore(c, Len(turns[c]) + 1))' = Recent(all)
  <2>1. Len(turns'[c]) \in Nat /\ DOMAIN turns'[c] = 1..Len(turns'[c])
    BY LenProperties DEF RowsTyped
  <2>2. PICK l \in Nat : l = Len(turns'[c]) + 1 /\ l > n
    BY <1>2, <2>1
  <2>3. CompletedBefore(c, l)' = all
    BY <1>2, <2>2
  <2>4. CompletedBefore(c, Len(turns[c]) + 1)' = CompletedBefore(c, l)'
    BY <2>2 DEF CompletedBefore
  <2>5. QED BY <2>3, <2>4 DEF Recent
<1>9. Recent(Remembered(c, thread[c].previous))' = Recent(prior)
  <2>1. CASE operation[o].action = "append"
    <3>1. Remembered(c, thread[c].previous)' = Remembered(c, thread[c].active)
      BY <1>3, <2>1 DEF Remembered
    <3>2. CompletedBefore(c, Len(turns[c]) + 1) = prior
      BY <2>1, NothingNewer
    <3>3. QED BY <1>4, <3>1, <3>2 DEF Recent
  <2>2. CASE operation[o].action # "append"
    <3>1. Remembered(c, thread[c].previous)' = Remembered(c, thread[c].previous)
      BY <1>3, <2>2 DEF Remembered
    <3>2. LatestCompleted(c, n)
      BY <2>2, NothingNewer DEF Actions
    <3>3. QED BY <1>2, <1>4, <3>1, <3>2 DEF Recent
  <2>3. QED BY <2>1, <2>2
<1>10. ASSUME NEW m \in DOMAIN turns'[c], LatestCompleted(c, m)'
       PROVE  /\ Recent(Remembered(c, thread[c].previous))' = Recent(CompletedBefore(c, m))'
              /\ thread'[c].active \in DOMAIN saver'[c]
              /\ saver'[c][thread'[c].active].whole /\ saver'[c][thread'[c].active].held
  <2>1. m = n /\ CompletedBefore(c, n)' = prior
    BY <1>2, <1>10
  <2>2. Recent(CompletedBefore(c, m))' = Recent(prior)
    BY <2>1 DEF Recent
  <2>3. QED BY <1>3, <1>9, <2>2
<1>11. terminal <= Len(saver'[c])
  BY <1>1
<1>12. QED BY <1>3, <1>5, <1>7, <1>8, <1>10, <1>11 DEF PointersRemember

(* A publication is refused, or commits what the model was run for.          *)
LEMMA PublicationCommitted ==
  ASSUME StoryInv, IInv', NEW t \in Tasks, PublishOperation(t)
  PROVE  \/ /\ UNCHANGED <<database, history>>
            /\ Goto(t, "failing", [job[t] EXCEPT !.verdict = "failed"])
         \/ \E c \in Conversations, o \in Operations, n \in Nat :
              /\ c = job[t].conv /\ operation[o].conv = c /\ operation[o].status = "running"
              /\ operation[o].turn = n /\ context[o] = Recent(CompletedBefore(c, n))
              /\ Publishes(c, o, n) /\ PointersRemember(c)' /\ Goto(t, "published", job[t])
              /\ \A d \in Conversations : d # c => Untouched(d)
<1>1. pc[t] = "publish" /\ pc[t] \in Underway /\ pc[t] # "idle"
  BY DEF PublishOperation, Underway, Sending, InTry
<1>2. PICK c \in Conversations, o \in Operations, n \in Nat :
        /\ job[t] \in Job /\ c = job[t].conv /\ o = job[t].op
        /\ operation[o].conv = c /\ operation[o].status = "running" /\ operation[o].turn = n
        /\ operation[o].action \in Actions
        /\ session[c].state = "active" /\ session[c].mode = job[t].mode
  BY <1>1, WayPoint
<1>3. UNCHANGED <<saver, history>>
  BY DEF PublishOperation
<1>4. CASE ~Publishable(c, o, job[t])
  BY <1>2, <1>3, <1>4 DEF PublishOperation, database
<1>5. CASE Publishable(c, o, job[t])
  <2>1. /\ thread' = IF job[t].mode = "rag_only" THEN thread
                     ELSE [thread EXCEPT ![c] =
                             Advanced(thread[c], operation[o].action, job[t].terminal)]
        /\ turns' = [turns EXCEPT ![c][n] = [@ EXCEPT !.status = "completed", !.answer = o]]
        /\ session' = [session EXCEPT ![c].version = @ + 1]
        /\ operation' = [operation EXCEPT ![o].status = "completed",
                                          ![o].version = session[c].version + 1]
        /\ Goto(t, "published", job[t])
    BY <1>2, <1>5 DEF PublishOperation
  <2>2. RowsTyped /\ RowsTyped'
    BY DEF StoryInv, IInv, TypeOK
  <2>3. Publishes(c, o, n)
    BY <1>3, <2>1, <2>2 DEF Publishes, RowsTyped
  <2>4. context[o] = Recent(CompletedBefore(c, n))
    <3>1. inferences[c][o] > 0
      BY <1>1, <1>2 DEF StoryInv, TaskInv
    <3>2. QED BY <1>2, <3>1 DEF StoryInv, ConversationInv, KnowsPrior
  <2>5. PointersRemember(c)'
    <3>1. CASE job[t].mode = "rag_only"
      <4>1. thread'[c] = thread[c] /\ saver'[c] = saver[c] /\ session'[c].mode = "rag_only"
        <5>1. session[c] \in [state : {"active", "deleting"}, version : Nat, mode : Modes]
          BY <1>2, SessionTyped DEF StoryInv
        <5>2. QED BY <1>2, <1>3, <2>3, <3>1, <2>1, <5>1 DEF Publishes
      <4>2. PointersRemember(c)
        BY DEF StoryInv, ConversationInv
      <4>3. QED BY <4>1, <4>2 DEF PointersRemember
    <3>2. CASE job[t].mode # "rag_only"
      <4>1. session[c].mode = "intelligent" /\ job[t].mode = "intelligent"
        <5>1. session[c] \in [state : {"active", "deleting"}, version : Nat, mode : Modes]
          BY <1>2, SessionTyped DEF StoryInv
        <5>2. QED BY <1>2, <3>2, <5>1 DEF Modes
      <4>2. thread'[c] = Advanced(thread[c], operation[o].action, job[t].terminal)
            /\ saver'[c] = saver[c] /\ thread[c].exists
        BY <1>3, <1>5, <2>1, <2>2, <3>2, <4>1 DEF RowsTyped, Publishable
      <4>3. job[t].terminal \in DOMAIN saver[c]
            /\ saver[c][job[t].terminal] =
                 [turns |-> context[o] \cup {<<n, o>>}, whole |-> TRUE, held |-> TRUE]
        BY <1>1, <1>2, <4>1 DEF StoryInv, TaskInv
      <4>4. QED BY <1>2, <2>2, <2>3, <2>4, <4>1, <4>2, <4>3, PublishPointers
    <3>3. QED BY <3>1, <3>2
  <2>6. operation'[o].conv = c
    <3>1. operation[o] \in [conv : Conversations, turn : Nat, action : Actions,
                            message : Messages, status : TurnStatus, version : Nat]
      BY <1>2, RunningOperation DEF StoryInv
    <3>2. QED BY <1>2, <2>3, <3>1 DEF Publishes
  <2>7. \A d \in Conversations : d # c => Untouched(d)
    BY <1>2, <1>3, <2>1, <2>2, <2>3, <2>6 DEF Untouched, Publishes, history, RowsTyped
  <2>8. QED BY <1>2, <2>1, <2>3, <2>4, <2>5, <2>7
<1>6. QED BY <1>4, <1>5

LEMMA PublishOperationStory ==
  ASSUME StoryInv, IInv', NEW t \in Tasks, PublishOperation(t)
  PROVE  StoryInv'
<1>1. pc[t] = "publish" /\ pc[t] # "idle"
  BY DEF PublishOperation
<1>2. CASE UNCHANGED <<database, history>>
           /\ Goto(t, "failing", [job[t] EXCEPT !.verdict = "failed"])
  BY <1>1, <1>2, Going, FailingTask, SilentStep DEF StoryInv
<1>3. ASSUME NEW c \in Conversations, NEW o \in Operations, NEW n \in Nat,
             c = job[t].conv, operation[o].conv = c, operation[o].status = "running",
             operation[o].turn = n, context[o] = Recent(CompletedBefore(c, n)),
             Publishes(c, o, n), PointersRemember(c)', Goto(t, "published", job[t]),
             \A d \in Conversations : d # c => Untouched(d)
      PROVE  StoryInv'
  <2>1. RowsTyped'
    BY DEF IInv, TypeOK
  <2>2. ConversationInv(c)'
    BY <1>3, <2>1, PublishKeeps
  <2>3. Moves(t) /\ pc'[t] = "published" /\ job'[t] = job[t] /\ pending' = pending
    BY <1>3, Going DEF StoryInv
  <2>4. TaskInv(t)'
    BY <1>1, <1>3, <2>3 DEF StoryInv, TaskInv, Underway, Deleting
  <2>5. QED BY <1>1, <1>3, <2>2, <2>3, <2>4, TaskStep
<1>4. QED BY <1>2, <1>3, PublicationCommitted

-----------------------------------------------------------------------------
(* Requests. *)

LEMMA NobodyThere ==
  ASSUME IInv, NEW c \in Conversations, Free(c), NEW u \in Tasks, pc[u] # "idle"
  PROVE  job[u].conv # c
BY NullAssumption DEF IInv, LocksHeld, Free

(* A transaction of a request, without a task.                               *)
LEMMA RequestStep ==
  ASSUME StoryInv, IInv', NEW c \in Conversations, Free(c), UNCHANGED memory, c \notin pending,
         \A d \in Conversations : d # c => Untouched(d), ConversationInv(c)'
  PROVE  StoryInv'
<1>1. ServerInv'
  <2>1. \A d \in pending : d \in Conversations /\ d # c
    BY DEF StoryInv, IInv, TypeOK, TasksTyped
  <2>2. QED BY <2>1 DEF StoryInv, ServerInv, memory, Untouched
<1>2. \A u \in Tasks : /\ pc'[u] = pc[u] /\ job'[u] = job[u]
                        /\ pc[u] # "idle" => job[u].conv # c
  BY NobodyThere DEF memory, StoryInv
<1>3. QED BY <1>1, <1>2, LocalStep DEF memory

LEMMA EnterStep ==
  ASSUME StoryInv, IInv', NEW t \in Tasks, NEW at, NEW local, NEW c \in Conversations,
         Enter(t, at, local), local.conv = c, server # "down", server' = server,
         pending' \subseteq pending \ {c}, server = "serving" => pending' = pending,
         \A d \in Conversations : d # c => Untouched(d),
         ConversationInv(c)', TaskInv(t)'
  PROVE  StoryInv'
<1>1. ServerInv'
  <2>1. \A d \in pending' : d \in pending /\ d \in Conversations /\ d # c
    BY DEF StoryInv, IInv, TypeOK, TasksTyped
  <2>2. server # "recovering" => pending' = {}
    BY DEF StoryInv, ServerInv, IInv, TypeOK, TasksTyped
  <2>3. \A d \in pending' : session'[d].state = "deleting"
    BY <2>1 DEF StoryInv, ServerInv, Untouched
  <2>4. QED BY <2>2, <2>3 DEF ServerInv
<1>2. \A u \in Tasks : u # t => /\ pc'[u] = pc[u] /\ job'[u] = job[u]
                                /\ pc[u] # "idle" => job[u].conv # c
  BY NobodyThere DEF Enter, StoryInv, IInv, TypeOK, TasksTyped
<1>3. pending' \subseteq pending
  OBVIOUS
<1>4. QED BY <1>1, <1>2, <1>3, LocalStep

LEMMA CreateStory ==
  ASSUME StoryInv, IInv', NEW c \in Conversations, NEW m \in Modes, Create(c, m)
  PROVE  StoryInv'
<1>1. /\ server = "serving" /\ Free(c) /\ session[c] = NoSession
      /\ session' = [session EXCEPT ![c] = [state |-> "active", version |-> 1, mode |-> m]]
      /\ UNCHANGED <<turns, operation, thread, saver>> /\ UNCHANGED memory /\ UNCHANGED history
  BY DEF Create
<1>2. RowsTyped /\ RowsTyped' /\ ConversationInv(c)
  BY DEF StoryInv, IInv, TypeOK
<1>3. session'[c] = [state |-> "active", version |-> 1, mode |-> m]
      /\ \A d \in Conversations : d # c => session'[d] = session[d]
  BY <1>1, <1>2 DEF RowsTyped
<1>4. /\ turns[c] = <<>> /\ thread[c] = NoThread /\ \A o \in Operations : operation[o].conv # c
  BY <1>1, <1>2 DEF ConversationInv, NothingLeft, NoSession
<1>5. \A d \in Conversations : d # c => Untouched(d)
  BY <1>1, <1>3 DEF Untouched, history
<1>6. OnTheirTurns(c)' /\ TurnsAccounted(c)' /\ KnowsPrior(c)' /\ NothingLeft(c)'
  BY <1>1, <1>3, <1>4 DEF OnTheirTurns, TurnsAccounted, KnowsPrior, NothingLeft
<1>7. VersionsCount(c)'
  <2>1. \A k \in Clients : view[k][c].version \in Nat /\ view[k][c].version <= 0
    BY <1>1, <1>2 DEF ConversationInv, VersionsCount, NoSession, StoryInv, IInv, TypeOK,
                      HistoryTyped, Reading
  <2>2. Len(turns'[c]) = 0 /\ view' = view
    BY <1>1, <1>4 DEF history
  <2>3. QED BY <1>3, <2>1, <2>2 DEF VersionsCount
<1>8. PointersRemember(c)'
  <2>1. Completed(c)' = {} /\ thread'[c] = NoThread
    BY <1>1, <1>4 DEF Completed
  <2>2. PICK i \in Nat : i = 0
    OBVIOUS
  <2>3. Len(saver'[c]) \in Nat /\ DOMAIN saver'[c] = 1..Len(saver'[c])
    BY <1>2, LenProperties DEF RowsTyped
  <2>4. Remembered(c, i)' = {}
    BY <2>2, <2>3 DEF Remembered
  <2>5. QED BY <1>2, <2>1, <2>2, <2>3, <2>4, EmptyPointers DEF NoThread
<1>9. ConversationInv(c)'
  BY <1>6, <1>7, <1>8 DEF ConversationInv
<1>10. c \notin pending
  BY <1>1 DEF StoryInv, ServerInv
<1>11. QED BY <1>1, <1>5, <1>9, <1>10, RequestStep

(* A version that moves on, the rows and the memory as they are.             *)
LEMMA VersionMoves ==
  ASSUME StoryInv, IInv', NEW c \in Conversations, session[c].state = "active",
         session'[c].state \in {"active", "deleting"},
         session'[c].version = session[c].version + 1, session'[c].mode = session[c].mode,
         UNCHANGED <<turns, operation, thread, saver, history>>
  PROVE  ConversationInv(c)'
<1>1. ConversationInv(c) /\ session[c].version \in Nat
  BY SessionTyped DEF StoryInv
<1>2. OnTheirTurns(c)'
  BY <1>1 DEF ConversationInv, OnTheirTurns, Completed
<1>3. TurnsAccounted(c)'
  BY <1>1 DEF ConversationInv, TurnsAccounted, Appends
<1>4. NothingLeft(c)'
  BY DEF NothingLeft
<1>5. VersionsCount(c)'
  <2>1. Len(turns[c]) \in Nat
    BY CompletedFinite DEF StoryInv, IInv, TypeOK
  <2>2. \A k \in Clients : view[k][c].version \in Nat /\ view[k][c].version <= session[c].version
    BY <1>1 DEF ConversationInv, VersionsCount, StoryInv, IInv, TypeOK, HistoryTyped, Reading
  <2>3. QED BY <1>1, <2>1, <2>2 DEF ConversationInv, VersionsCount, history
<1>6. PointersRemember(c)'
  <2>1. CASE session'[c].state = "active"
    BY <1>1, <2>1, UntouchedRows, SameAnswers DEF ConversationInv
  <2>2. CASE session'[c].state = "deleting"
    BY <1>1, <2>2 DEF ConversationInv, PointersRemember
  <2>3. QED BY <2>1, <2>2
<1>7. KnowsPrior(c)'
  BY <1>1 DEF ConversationInv, KnowsPrior, history, Recent, CompletedBefore, Completed
<1>8. QED BY <1>2, <1>3, <1>4, <1>5, <1>6, <1>7 DEF ConversationInv

LEMMA RenameStory ==
  ASSUME StoryInv, IInv', NEW k \in Clients, NEW c \in Conversations, Rename(k, c)
  PROVE  StoryInv'
<1>1. /\ server = "serving" /\ Free(c) /\ session[c].state = "active"
      /\ session' = [session EXCEPT ![c].version = @ + 1]
      /\ UNCHANGED <<turns, operation, thread, saver>> /\ UNCHANGED memory /\ UNCHANGED history
  BY DEF Rename, Idle
<1>2. session[c] \in [state : {"active", "deleting"}, version : Nat, mode : Modes]
      /\ session \in [Conversations -> Session]
  BY <1>1, SessionTyped DEF StoryInv, IInv, TypeOK, RowsTyped
<1>3. /\ session'[c].state = "active" /\ session'[c].version = session[c].version + 1
      /\ session'[c].mode = session[c].mode
      /\ \A d \in Conversations : d # c => session'[d] = session[d]
  BY <1>1, <1>2
<1>4. \A d \in Conversations : d # c => Untouched(d)
  BY <1>1, <1>3 DEF Untouched, history
<1>5. ConversationInv(c)'
  BY <1>1, <1>3, VersionMoves
<1>6. c \notin pending
  BY <1>1 DEF StoryInv, ServerInv
<1>7. QED BY <1>1, <1>4, <1>5, <1>6, RequestStep

(* What a client reads is what its version names.                            *)
LEMMA ListTurnsStory ==
  ASSUME StoryInv, IInv', NEW k \in Clients, NEW c \in Conversations, ListTurns(k, c)
  PROVE  StoryInv'
<1>1. /\ UNCHANGED database /\ UNCHANGED memory /\ UNCHANGED <<inferences, context>>
      /\ view' = [view EXCEPT ![k][c] = [version |-> session[c].version, turns |-> turns[c]]]
  BY DEF ListTurns
<1>2. view \in [Clients -> [Conversations -> Reading]]
  BY DEF StoryInv, IInv, TypeOK, HistoryTyped
<1>3. \A l \in Clients, d \in Conversations :
        view'[l][d] = IF l = k /\ d = c THEN [version |-> session[c].version, turns |-> turns[c]]
                      ELSE view[l][d]
  BY <1>1, <1>2
<1>4. \A d \in Conversations : d # c => Untouched(d)
  BY <1>1, <1>3 DEF Untouched, database
<1>5. ConversationInv(c)'
  <2>1. ConversationInv(c) /\ session[c].version \in Nat
    BY SessionTyped DEF StoryInv
  <2>2. OnTheirTurns(c)'
    BY <1>1, <2>1 DEF ConversationInv, OnTheirTurns, Completed, database
  <2>3. TurnsAccounted(c)'
    BY <1>1, <2>1 DEF ConversationInv, TurnsAccounted, Appends, database
  <2>4. NothingLeft(c)'
    BY <1>1, <2>1 DEF ConversationInv, NothingLeft, NoneHeld, database
  <2>5. VersionsCount(c)'
    BY <1>1, <1>3, <2>1 DEF ConversationInv, VersionsCount, database
  <2>6. PointersRemember(c)'
    BY <1>1, <2>1, UntouchedPointers DEF ConversationInv, database
  <2>7. KnowsPrior(c)'
    BY <1>1, <2>1 DEF ConversationInv, KnowsPrior, database, Recent, CompletedBefore, Completed
  <2>8. QED BY <2>2, <2>3, <2>4, <2>5, <2>6, <2>7 DEF ConversationInv
<1>6. \A u \in Tasks : TaskInv(u)'
  BY <1>1 DEF StoryInv, TaskInv, database, memory, Remembered, NoneHeld
<1>7. ServerInv' /\ pending' = pending
  BY <1>1 DEF StoryInv, ServerInv, database, memory
<1>8. QED BY <1>4, <1>5, <1>6, <1>7, LocalStep

(* An accepted turn is newer than every answer, a regeneration is for the    *)
(* newest; neither changes what has been answered.                           *)
LEMMA AcceptKeeps ==
  ASSUME StoryInv, IInv', NEW c \in Conversations, NEW o \in Operations, NEW n \in Nat,
         NEW a \in Actions, NEW x \in Messages,
         operation[o] = NoOperation, Idle(c), Accept(c, o, a, x, n),
         \/ /\ a = "append" /\ n = Len(turns[c]) + 1
            /\ turns' = [turns EXCEPT ![c] =
                 Append(@, [message |-> x, status |-> "running", answer |-> Null])]
         \/ /\ a = "replace_last" /\ LatestCompleted(c, n) /\ turns[c][n].message = x
            /\ UNCHANGED turns,
         UNCHANGED <<thread, saver, history>>
  PROVE  ConversationInv(c)'
<1> DEFINE asked == [message |-> x, status |-> "running", answer |-> Null]
<1>1. ConversationInv(c) /\ RowsTyped /\ RowsTyped' /\ session[c].state = "active" /\ Running(c) = {}
  BY DEF StoryInv, IInv, TypeOK, Idle
<1>2. /\ operation'[o] = [conv |-> c, turn |-> n, action |-> a, message |-> x,
                         status |-> "running", version |-> session[c].version + 1]
      /\ \A p \in Operations : p # o => operation'[p] = operation[p]
  BY <1>1 DEF Accept, RowsTyped
<1>3. /\ session'[c].state = "active" /\ session'[c].mode = session[c].mode
      /\ session'[c].version = session[c].version + 1 /\ session[c].version \in Nat
  <2>1. session[c] \in [state : {"active", "deleting"}, version : Nat, mode : Modes]
    BY <1>1, SessionTyped DEF StoryInv
  <2>2. session'[c] = [session[c] EXCEPT !.version = session[c].version + 1]
    BY <1>1 DEF Accept, RowsTyped
  <2>3. QED BY <1>1, <2>1, <2>2
<1>4. operation[o].conv # c /\ NoOperation.conv = Null
  BY NullAssumption DEF NoOperation
<1>5. /\ Len(turns[c]) \in Nat /\ DOMAIN turns[c] = 1..Len(turns[c])
      /\ Completed(c) \subseteq 1..Len(turns[c])
  BY <1>1, CompletedFinite
<1>6. /\ \A m \in DOMAIN turns[c] : turns'[c][m] = turns[c][m]
      /\ a = "append" => /\ DOMAIN turns'[c] = 1..n /\ Len(turns'[c]) = n /\ turns'[c][n] = asked
      /\ a # "append" => turns'[c] = turns[c] /\ n \in DOMAIN turns[c]
  <2>1. CASE a = "append"
    <3>1. turns[c] \in Seq(Turn \cup {asked})
      BY <1>1 DEF RowsTyped
    <3>2. turns'[c] = Append(turns[c], asked) /\ n = Len(turns[c]) + 1
      BY <1>1, <2>1 DEF RowsTyped
    <3>3. QED BY <1>5, <2>1, <3>1, <3>2, AppendProperties
  <2>2. CASE a # "append"
    BY <2>2 DEF LatestCompleted, Completed
  <2>3. QED BY <2>1, <2>2
<1>7. Completed(c)' = Completed(c)
  <2>1. CASE a = "append"
    <3>1. DOMAIN turns'[c] = DOMAIN turns[c] \cup {n} /\ turns'[c][n].status # "completed"
      BY <1>5, <1>6, <2>1
    <3>2. QED BY <1>6, <3>1 DEF Completed
  <2>2. CASE a # "append"
    BY <1>6, <2>2 DEF Completed
  <2>3. QED BY <2>1, <2>2
<1>8. \A m : CompletedBefore(c, m)' = CompletedBefore(c, m)
  <2>1. \A k \in Completed(c) : turns'[c][k] = turns[c][k]
    BY <1>6 DEF Completed
  <2>2. QED BY <1>7, <2>1 DEF CompletedBefore
<1>9. OnTheirTurns(c)'
  <2>1. ASSUME NEW p \in Operations, operation'[p].conv = c
        PROVE  LET m == operation'[p].turn IN
               /\ m \in DOMAIN turns'[c] /\ turns'[c][m].message = operation'[p].message
               /\ turns'[c][m].status = IF operation'[p].action = "append"
                                        THEN operation'[p].status ELSE "completed"
               /\ operation'[p].status = "running" => \A k \in Completed(c)' : k <= m
    <3>1. CASE p = o /\ a = "append"
      BY <1>2, <1>5, <1>6, <1>7, <3>1
    <3>2. CASE p = o /\ a # "append"
      BY <1>2, <1>6, <1>7, <3>2 DEF LatestCompleted, Completed
    <3>3. CASE p # o
      <4>1. operation'[p] = operation[p] /\ operation[p].status # "running"
        BY <1>1, <1>2, <2>1, <3>3 DEF Running
      <4>2. operation[p].turn \in DOMAIN turns'[c]
            /\ turns'[c][operation[p].turn] = turns[c][operation[p].turn]
        BY <1>1, <1>5, <1>6, <2>1, <4>1 DEF ConversationInv, OnTheirTurns
      <4>3. QED BY <1>1, <2>1, <4>1, <4>2 DEF ConversationInv, OnTheirTurns
    <3>4. QED BY <3>1, <3>2, <3>3
  <2>2. QED BY <2>1 DEF OnTheirTurns
<1>10. TurnsAccounted(c)'
  <2>1. ASSUME NEW m \in DOMAIN turns[c]
        PROVE  Appends(c, m)' = Appends(c, m)
    BY <1>2, <1>4, <1>5 DEF Appends, Actions
  <2>2. ASSUME NEW m \in DOMAIN turns[c]
        PROVE  LET answer == turns'[c][m].answer IN
               /\ \E p \in Operations : Appends(c, m)' = {p}
               /\ IF turns'[c][m].status = "completed"
                  THEN /\ answer \in Operations /\ operation'[answer].conv = c
                       /\ operation'[answer].turn = m /\ operation'[answer].status = "completed"
                  ELSE answer = Null
    <3>1. turns'[c][m] = turns[c][m]
      BY <1>6
    <3>2. turns[c][m].status = "completed" => operation'[turns[c][m].answer] = operation[turns[c][m].answer]
      BY <1>1, <1>2, <1>4 DEF ConversationInv, TurnsAccounted
    <3>3. QED BY <1>1, <2>1, <3>1, <3>2 DEF ConversationInv, TurnsAccounted
  <2>3. CASE a = "append"
    <3>1. DOMAIN turns'[c] = DOMAIN turns[c] \cup {n} /\ n \notin DOMAIN turns[c]
      BY <1>5, <1>6, <2>3
    <3>2. Appends(c, n)' = {o}
      <4>1. \A p \in Operations : operation[p].conv = c => operation[p].turn # n
        BY <1>1, <3>1 DEF ConversationInv, OnTheirTurns
      <4>2. QED BY <1>2, <2>3, <4>1 DEF Appends
    <3>3. turns'[c][n].status # "completed" /\ turns'[c][n].answer = Null
      BY <1>6, <2>3
    <3>4. QED BY <2>2, <3>1, <3>2, <3>3 DEF TurnsAccounted
  <2>4. CASE a # "append"
    BY <1>6, <2>2, <2>4 DEF TurnsAccounted
  <2>5. QED BY <2>3, <2>4
<1>11. NothingLeft(c)'
  BY <1>3 DEF NothingLeft
<1>12. VersionsCount(c)'
  <2>1. Len(turns'[c]) <= Len(turns[c]) + 1 /\ Len(turns'[c]) \in Nat
    BY <1>5, <1>6
  <2>2. \A k \in Clients : view[k][c].version \in Nat /\ view[k][c].version <= session[c].version
    BY <1>1 DEF ConversationInv, VersionsCount, StoryInv, IInv, TypeOK, HistoryTyped, Reading
  <2>3. Len(turns[c]) < session[c].version /\ view' = view
    BY <1>1 DEF ConversationInv, VersionsCount, history
  <2>4. QED BY <1>3, <1>5, <2>1, <2>2, <2>3 DEF VersionsCount
<1>13. PointersRemember(c)'
  <2>1. thread'[c] = thread[c] /\ saver'[c] = saver[c] /\ PointersRemember(c)
    BY <1>1 DEF ConversationInv
  <2>2. Remembered(c, thread[c].active)' = Remembered(c, thread[c].active)
        /\ Remembered(c, thread[c].previous)' = Remembered(c, thread[c].previous)
    BY <2>1 DEF Remembered
  <2>3. CompletedBefore(c, Len(turns[c]) + 1)' = CompletedBefore(c, Len(turns[c]) + 1)
    <3>1. PICK l \in Nat : l = Len(turns'[c]) + 1
      BY <1>5, <1>6
    <3>2. {k \in Completed(c) : k < l} = {k \in Completed(c) : k < Len(turns[c]) + 1}
      BY <1>5, <1>6, <3>1
    <3>3. CompletedBefore(c, l) = CompletedBefore(c, Len(turns[c]) + 1)
      BY <3>2 DEF CompletedBefore
    <3>4. CompletedBefore(c, Len(turns[c]) + 1)' = CompletedBefore(c, l)'
      BY <3>1 DEF CompletedBefore
    <3>5. QED BY <1>8, <3>3, <3>4
  <2>4. \A m : LatestCompleted(c, m)' = LatestCompleted(c, m)
    BY <1>7 DEF LatestCompleted
  <2>5. Recent(Remembered(c, thread[c].active))' = Recent(Remembered(c, thread[c].active))
        /\ Recent(Remembered(c, thread[c].previous))' = Recent(Remembered(c, thread[c].previous))
        /\ Recent(CompletedBefore(c, Len(turns[c]) + 1))' = Recent(CompletedBefore(c, Len(turns[c]) + 1))
    BY <2>2, <2>3 DEF Recent
  <2>6. ASSUME NEW m
        PROVE  Recent(CompletedBefore(c, m))' = Recent(CompletedBefore(c, m))
    <3>1. CompletedBefore(c, m)' = CompletedBefore(c, m)
      BY <1>8
    <3>2. QED BY <3>1 DEF Recent
  <2>7. (thread[c].exists \/ thread[c] = NoThread)'
        /\ (thread[c].active <= Len(saver[c]) /\ thread[c].previous <= Len(saver[c]))'
    BY <2>1 DEF PointersRemember
  <2>8. ASSUME session'[c].state = "active", session'[c].mode = "intelligent"
        PROVE  /\ (thread[c].completed = Cardinality(Completed(c)))'
               /\ (Recent(Remembered(c, thread[c].active)) = Recent(CompletedBefore(c, Len(turns[c]) + 1)))'
    BY <1>1, <1>3, <1>7, <2>1, <2>5, <2>8 DEF PointersRemember
  <2>9. ASSUME session'[c].state = "active", session'[c].mode = "intelligent",
               NEW m \in DOMAIN turns'[c], LatestCompleted(c, m)'
        PROVE  /\ Recent(Remembered(c, thread[c].previous))' = Recent(CompletedBefore(c, m))'
               /\ thread'[c].active \in DOMAIN saver'[c]
               /\ saver'[c][thread'[c].active].whole /\ saver'[c][thread'[c].active].held
    <3>1. LatestCompleted(c, m) /\ m \in DOMAIN turns[c]
      BY <2>4, <2>9 DEF LatestCompleted, Completed
    <3>2. Recent(CompletedBefore(c, m))' = Recent(CompletedBefore(c, m))
      BY <2>6
    <3>3. QED BY <1>1, <1>3, <2>1, <2>5, <2>9, <3>1, <3>2 DEF PointersRemember
  <2>10. QED BY <2>7, <2>8, <2>9 DEF PointersRemember
<1>14. KnowsPrior(c)'
  <2>1. inferences[c][o] = 0
    BY <1>1, <1>4 DEF StoryInv, IInv, RunsAccounted
  <2>2. ASSUME NEW p \in Operations, operation'[p].conv = c,
               \/ operation'[p].status = "completed"
               \/ operation'[p].status = "running" /\ inferences'[c][p] > 0
        PROVE  context'[p] = Recent(CompletedBefore(c, operation[p].turn))'
    <3>1. p # o /\ operation'[p] = operation[p] /\ context'[p] = context[p]
          /\ inferences'[c][p] = inferences[c][p]
      BY <1>2, <2>1, <2>2 DEF history
    <3>2. PICK m : m = operation[p].turn
      OBVIOUS
    <3>3. CompletedBefore(c, operation[p].turn)' = CompletedBefore(c, m)'
      BY <3>1, <3>2 DEF CompletedBefore
    <3>4. QED BY <1>1, <1>8, <2>2, <3>1, <3>2, <3>3 DEF ConversationInv, KnowsPrior, Recent
  <2>3. QED BY <2>2 DEF KnowsPrior
<1>15. QED BY <1>9, <1>10, <1>11, <1>12, <1>13, <1>14 DEF ConversationInv

(* A reservation appends a turn, or takes up the newest answered one.        *)
LEMMA ReservationAccepts ==
  ASSUME StoryInv, NEW t \in Tasks, NEW k \in Clients, NEW c \in Conversations,
         NEW o \in Operations, NEW m \in Modes, NEW x \in Messages,
         ReserveOperation(t, k, c, o, m, x)
  PROVE  \E a \in Actions, n \in Nat :
           /\ Accept(c, o, a, x, n)
           /\ \/ /\ a = "append" /\ n = Len(turns[c]) + 1
                 /\ turns' = [turns EXCEPT ![c] =
                      Append(@, [message |-> x, status |-> "running", answer |-> Null])]
              \/ /\ a = "replace_last" /\ LatestCompleted(c, n) /\ turns[c][n].message = x
                 /\ UNCHANGED turns
<1>1. Len(turns[c]) \in Nat /\ DOMAIN turns[c] = 1..Len(turns[c])
  BY CompletedFinite DEF StoryInv, IInv, TypeOK
<1>2. CASE /\ Accept(c, o, "append", x, Len(turns[c]) + 1)
           /\ turns' = [turns EXCEPT ![c] =
                 Append(@, [message |-> x, status |-> "running", answer |-> Null])]
  <2>1. Len(turns[c]) + 1 \in Nat /\ "append" \in Actions
    BY <1>1 DEF Actions
  <2>2. QED BY <1>2, <2>1
<1>3. CASE \E n \in DOMAIN turns[c] :
             /\ LatestCompleted(c, n) /\ turns[c][n].message = x
             /\ Accept(c, o, "replace_last", x, n)
             /\ UNCHANGED turns
  <2>1. PICK n \in DOMAIN turns[c] :
          /\ LatestCompleted(c, n) /\ turns[c][n].message = x
          /\ Accept(c, o, "replace_last", x, n)
          /\ UNCHANGED turns
    BY <1>3
  <2>2. n \in Nat /\ "replace_last" \in Actions
    BY <1>1, <2>1 DEF Actions
  <2>3. QED BY <2>1, <2>2
<1>4. QED BY <1>2, <1>3 DEF ReserveOperation

LEMMA ReserveOperationStory ==
  ASSUME StoryInv, IInv', NEW t \in Tasks, NEW k \in Clients, NEW c \in Conversations,
         NEW o \in Operations, NEW m \in Modes, NEW x \in Messages,
         ReserveOperation(t, k, c, o, m, x)
  PROVE  StoryInv'
<1> DEFINE local == [NoJob EXCEPT !.conv = c, !.op = o, !.mode = m]
<1>1. /\ server = "serving" /\ operation[o] = NoOperation /\ session[c].mode = m /\ Idle(c)
      /\ Enter(t, "reserved", local)
      /\ UNCHANGED <<thread, saver, server, pending, history>>
  BY DEF ReserveOperation, NewOperation
<1>2. RowsTyped /\ TasksTyped
  BY DEF StoryInv, IInv, TypeOK
<1>3. local.conv = c /\ local.op = o /\ local.mode = m
  BY DEF NoJob
<1>4. PICK a \in Actions, n \in Nat :
        /\ Accept(c, o, a, x, n)
        /\ \/ /\ a = "append" /\ n = Len(turns[c]) + 1
              /\ turns' = [turns EXCEPT ![c] =
                   Append(@, [message |-> x, status |-> "running", answer |-> Null])]
           \/ /\ a = "replace_last" /\ LatestCompleted(c, n) /\ turns[c][n].message = x
              /\ UNCHANGED turns
  BY ReservationAccepts
<1>5. ConversationInv(c)'
  BY <1>1, <1>4, AcceptKeeps
<1>6. /\ operation'[o].conv = c /\ operation'[o].status = "running"
      /\ \A p \in Operations : p # o => operation'[p] = operation[p]
      /\ session'[c] = [session[c] EXCEPT !.version = @ + 1]
      /\ \A d \in Conversations : d # c => session'[d] = session[d] /\ turns'[d] = turns[d]
  BY <1>2, <1>4 DEF Accept, RowsTyped
<1>7. operation[o].conv = Null /\ \A d \in Conversations : d # Null
  BY <1>1, NullAssumption DEF NoOperation
<1>8. \A d \in Conversations : d # c => Untouched(d)
  BY <1>1, <1>6, <1>7 DEF Untouched, history
<1>9. pc'[t] = "reserved" /\ job'[t] = local
  BY <1>1, <1>2 DEF Enter, TasksTyped
<1>10. session'[c].mode = m /\ session[c].state = "active"
  <2>1. session[c].state = "active"
    BY <1>1 DEF Idle
  <2>2. session[c] \in [state : {"active", "deleting"}, version : Nat, mode : Modes]
    BY <2>1, SessionTyped DEF StoryInv
  <2>3. QED BY <1>1, <1>6, <2>1, <2>2
<1>11. pending = {}
  BY <1>1 DEF StoryInv, ServerInv
<1>12. TaskInv(t)'
  <2>1. "reserved" \notin Deleting
    BY DEF Deleting
  <2>2. QED BY <1>1, <1>3, <1>6, <1>9, <1>10, <1>11, <2>1 DEF TaskInv
<1>13. QED BY <1>1, <1>3, <1>5, <1>8, <1>11, <1>12, EnterStep

LEMMA ErasingTask ==
  ASSUME StoryInv, NEW t \in Tasks, NEW c \in Conversations,
         Enter(t, "erase", [NoJob EXCEPT !.conv = c]),
         session'[c].state = "deleting", c \notin pending'
  PROVE  TaskInv(t)'
<1>1. pc'[t] = "erase" /\ job'[t].conv = c
  BY DEF Enter, StoryInv, IInv, TypeOK, TasksTyped, NoJob
<1>2. QED BY <1>1 DEF TaskInv, Underway, Sending, InTry

LEMMA BeginDeleteStory ==
  ASSUME StoryInv, IInv', NEW t \in Tasks, NEW k \in Clients, NEW c \in Conversations,
         BeginDelete(t, k, c)
  PROVE  StoryInv'
<1> DEFINE local == [NoJob EXCEPT !.conv = c]
<1>1. /\ server = "serving" /\ Enter(t, "erase", local)
      /\ UNCHANGED <<turns, operation, thread, saver, server, pending, history>>
  BY DEF BeginDelete
<1>2. RowsTyped /\ pending = {} /\ local.conv = c
  BY <1>1 DEF StoryInv, ServerInv, IInv, TypeOK, NoJob
<1>3. /\ session'[c].state = "deleting" /\ ConversationInv(c)'
      /\ \A d \in Conversations : d # c => session'[d] = session[d]
  <2>1. CASE session[c].state = "deleting" /\ UNCHANGED session
    <3>1. Untouched(c)
      BY <1>1, <2>1 DEF Untouched, history
    <3>2. QED BY <2>1, <3>1, UntouchedKeeps DEF StoryInv
  <2>2. CASE Idle(c) /\ session' = [session EXCEPT ![c] = Marked(@)]
    <3>1. session[c].state = "active"
      BY <2>2 DEF Idle
    <3>2. session[c] \in [state : {"active", "deleting"}, version : Nat, mode : Modes]
      BY <3>1, SessionTyped DEF StoryInv
    <3>3. /\ session'[c].state = "deleting" /\ session'[c].version = session[c].version + 1
          /\ session'[c].mode = session[c].mode
          /\ \A d \in Conversations : d # c => session'[d] = session[d]
      BY <1>2, <2>2, <3>2 DEF Marked, RowsTyped
    <3>4. QED BY <1>1, <3>1, <3>3, VersionMoves
  <2>3. QED BY <2>1, <2>2 DEF BeginDelete
<1>4. \A d \in Conversations : d # c => Untouched(d)
  BY <1>1, <1>3 DEF Untouched, history
<1>5. TaskInv(t)'
  BY <1>1, <1>2, <1>3, ErasingTask
<1>6. QED BY <1>1, <1>2, <1>3, <1>4, <1>5, EnterStep

-----------------------------------------------------------------------------
(* The process. *)

(* With no task inside, the rows decide.                                     *)
LEMMA NobodyWorks ==
  ASSUME IInv', ServerInv', \A t \in Tasks : pc'[t] = "idle",
         \A c \in Conversations : ConversationInv(c)'
  PROVE  StoryInv'
BY IdleTask DEF StoryInv

LEMMA RowsKeptStory ==
  ASSUME StoryInv, UNCHANGED <<database, history>>
  PROVE  \A c \in Conversations : Untouched(c) /\ ConversationInv(c)'
<1>1. \A c \in Conversations : Untouched(c)
  BY DEF Untouched, database, history
<1>2. QED BY <1>1, UntouchedKeeps DEF StoryInv

LEMMA CrashStory ==
  ASSUME StoryInv, IInv', Crash
  PROVE  StoryInv'
<1>1. server' = "down" /\ pending' = {} /\ \A t \in Tasks : pc'[t] = "idle"
  BY DEF Crash
<1>2. ServerInv'
  BY <1>1 DEF ServerInv
<1>3. QED BY <1>1, <1>2, NobodyWorks, RowsKeptStory DEF Crash

LEMMA ServeStory ==
  ASSUME StoryInv, IInv', Serve
  PROVE  StoryInv'
<1>1. server' = "serving" /\ pending' = {} /\ \A t \in Tasks : pc'[t] = "idle"
  BY DEF Serve
<1>2. ServerInv'
  BY <1>1 DEF ServerInv
<1>3. QED BY <1>1, <1>2, NobodyWorks, RowsKeptStory DEF Serve

LEMMA RetryDeletionStory ==
  ASSUME StoryInv, IInv', NEW t \in Tasks, NEW c \in Conversations, RetryDeletion(t, c)
  PROVE  StoryInv'
<1> DEFINE local == [NoJob EXCEPT !.conv = c]
<1>1. /\ server = "recovering" /\ c \in pending /\ pending' = pending \ {c}
      /\ Enter(t, "erase", local) /\ UNCHANGED <<database, server, history>>
  BY DEF RetryDeletion
<1>2. session[c].state = "deleting" /\ session' = session /\ local.conv = c
  BY <1>1 DEF StoryInv, ServerInv, database, NoJob
<1>3. TaskInv(t)'
  BY <1>1, <1>2, ErasingTask
<1>4. QED BY <1>1, <1>2, <1>3, RowsKeptStory, EnterStep

(* The startup interrupts the running operation of every conversation.       *)
LEMMA RecoveryInterrupts ==
  ASSUME StoryInv, IInv', RecoverRunning, NEW c \in Conversations
  PROVE  \/ Running(c) = {} /\ Untouched(c)
         \/ \E o \in Operations :
              /\ operation[o].conv = c /\ operation[o].status = "running"
              /\ GivesUp(c, o, "interrupted")
<1>1. /\ session' = [d \in Conversations |-> Recovered(d)]
      /\ turns' = [d \in Conversations |-> Interrupted(d)]
      /\ operation' = [o \in Operations |-> Settled(o)]
      /\ UNCHANGED <<thread, saver>> /\ UNCHANGED history
  BY DEF RecoverRunning
<1>2. RowsTyped
  BY DEF StoryInv, IInv, TypeOK
<1>3. \A o \in Operations : operation'[o].conv = operation[o].conv
  BY <1>1, SettledOperationTyped DEF StoryInv
<1>4. CASE Running(c) = {}
  <2>1. session'[c] = session[c]
    BY <1>1, <1>4 DEF Recovered
  <2>2. turns'[c] = turns[c]
    <3>1. turns[c] \in Seq(Turn) /\ turns[c] = [n \in DOMAIN turns[c] |-> turns[c][n]]
      BY <1>2, LenProperties DEF RowsTyped
    <3>2. turns'[c] = [n \in DOMAIN turns[c] |-> turns[c][n]]
      BY <1>1, <1>4 DEF Interrupted
    <3>3. QED BY <3>1, <3>2
  <2>3. \A o \in Operations : operation[o].conv = c => operation'[o] = operation[o]
    BY <1>1, <1>4 DEF Running, Settled
  <2>4. Untouched(c)
    BY <1>1, <1>3, <2>1, <2>2, <2>3 DEF Untouched, history
  <2>5. QED BY <1>4, <2>4
<1>5. CASE Running(c) # {}
  <2>1. PICK o \in Operations : operation[o].conv = c /\ operation[o].status = "running"
    BY <1>5 DEF Running
  <2>2. Running(c) = {o}
    BY <2>1 DEF StoryInv, IInv, RunningFreezesConversation
  <2>3. session'[c] = [session[c] EXCEPT !.version = @ + 1]
    BY <1>1, <1>5 DEF Recovered
  <2>4. operation'[o] = [operation[o] EXCEPT !.status = "interrupted",
                                             !.version = session[c].version + 1]
    BY <1>1, <2>1 DEF Settled
  <2>5. \A p \in Operations :
          p # o /\ (operation[p].conv = c \/ operation'[p].conv = c) => operation'[p] = operation[p]
    BY <1>1, <1>3, <2>2 DEF Settled, Running
  <2>6. /\ DOMAIN turns'[c] = DOMAIN turns[c]
        /\ \A m \in DOMAIN turns[c] :
             turns'[c][m] = IF turns[c][m].status = "running"
                            THEN [turns[c][m] EXCEPT !.status = "interrupted"] ELSE turns[c][m]
    BY <1>1, <1>5 DEF Interrupted
  <2>7. GivesUp(c, o, "interrupted") /\ "interrupted" \in Verdicts
    BY <1>1, <2>3, <2>4, <2>5, <2>6 DEF GivesUp, Verdicts
  <2>8. QED BY <2>1, <2>7
<1>6. QED BY <1>4, <1>5

LEMMA RecoverRunningStory ==
  ASSUME StoryInv, IInv', RecoverRunning
  PROVE  StoryInv'
<1>1. /\ server = "down" /\ server' = "recovering" /\ pending' = PendingDeletions
      /\ session' = [c \in Conversations |-> Recovered(c)]
      /\ turns' = [c \in Conversations |-> Interrupted(c)]
      /\ operation' = [o \in Operations |-> Settled(o)]
      /\ UNCHANGED <<thread, saver, lock, pc, job>> /\ UNCHANGED history
  BY DEF RecoverRunning
<1>2. \A t \in Tasks : pc'[t] = "idle"
  BY <1>1 DEF StoryInv, ServerInv
<1>3. ServerInv'
  <2>1. \A c \in Conversations : session'[c].state = session[c].state
    BY <1>1, RecoveredTyped DEF StoryInv
  <2>2. \A c \in pending' : session'[c].state = "deleting"
    BY <1>1, <2>1 DEF PendingDeletions
  <2>3. QED BY <1>1, <2>2 DEF ServerInv
<1>4. ASSUME NEW c \in Conversations
      PROVE  ConversationInv(c)'
  <2>1. RowsTyped' /\ "interrupted" \in Verdicts
    BY DEF IInv, TypeOK, Verdicts
  <2>2. CASE Untouched(c)
    BY <2>2, UntouchedKeeps DEF StoryInv
  <2>3. ASSUME NEW o \in Operations, operation[o].conv = c, operation[o].status = "running",
               GivesUp(c, o, "interrupted")
        PROVE  ConversationInv(c)'
    BY <2>1, <2>3, GiveUpKeeps
  <2>4. QED BY <2>2, <2>3, RecoveryInterrupts
<1>5. QED BY <1>2, <1>3, <1>4, NobodyWorks

-----------------------------------------------------------------------------
(* The inductive invariant. *)

LEMMA InitStory == Init => StoryInv
<1> SUFFICES ASSUME Init PROVE StoryInv
  OBVIOUS
<1>1. IInv
  BY InitIInv
<1>2. ServerInv /\ \A t \in Tasks : TaskInv(t)
  BY DEF Init, ServerInv, TaskInv, Underway, Sending, InTry, Deleting
<1>3. ASSUME NEW c \in Conversations
      PROVE  ConversationInv(c)
  <2>1. /\ session[c] = NoSession /\ turns[c] = <<>> /\ thread[c] = NoThread /\ saver[c] = <<>>
        /\ \A o \in Operations : operation[o] = NoOperation
        /\ \A k \in Clients : view[k][c] = [version |-> 0, turns |-> <<>>]
    BY <1>1 DEF Init
  <2>2. \A o \in Operations : operation[o].conv # c
    BY <2>1, NullAssumption DEF NoOperation
  <2>3. OnTheirTurns(c) /\ TurnsAccounted(c) /\ NothingLeft(c) /\ KnowsPrior(c)
    BY <2>1, <2>2 DEF OnTheirTurns, TurnsAccounted, NothingLeft, NoSession, KnowsPrior
  <2>4. VersionsCount(c) /\ PointersRemember(c)
    BY <2>1 DEF VersionsCount, PointersRemember, NoSession, NoThread
  <2>5. QED BY <2>3, <2>4 DEF ConversationInv
<1>4. QED BY <1>1, <1>2, <1>3 DEF StoryInv

LEMMA StutterStory ==
  ASSUME StoryInv, IInv', UNCHANGED vars
  PROVE  StoryInv'
<1>1. UNCHANGED <<database, history>> /\ pending' = pending /\ server' = server
      /\ \A t \in Tasks : pc'[t] = pc[t] /\ job'[t] = job[t]
  BY DEF vars, database, history
<1>2. \A c \in Conversations : Untouched(c) /\ ConversationInv(c)'
  BY <1>1, RowsKeptStory
<1>3. \A t \in Tasks : TaskInv(t)'
  BY <1>1, <1>2, AtWork, UntouchedTask DEF StoryInv
<1>4. ServerInv'
  BY <1>1 DEF StoryInv, ServerInv, database
<1>5. QED BY <1>2, <1>3, <1>4 DEF StoryInv

LEMMA NextStory ==
  ASSUME StoryInv, [Next]_vars
  PROVE  StoryInv'
<1>0. IInv'
  BY NextIInv DEF StoryInv
<1>1. ASSUME NEW c \in Conversations, NEW m \in Modes, Create(c, m)
      PROVE  StoryInv'
  BY <1>0, <1>1, CreateStory
<1>2. ASSUME NEW k \in Clients, Client(k)
      PROVE  StoryInv'
  BY <1>0, <1>2, ListTurnsStory, RenameStory, BeginDeleteStory, ReserveOperationStory DEF Client
<1>3. ASSUME NEW t \in Tasks, Work(t)
      PROVE  StoryInv'
  BY <1>0, <1>3, SilentSteps, StartRagStory, StartThreadStory, PutBaseCheckpointStory,
     InsertThreadStory, StepGraphStory, FinishGraphStory, PublishOperationStory,
     RecordFailureStory, EraseCheckpointsStory, CompleteDeleteStory DEF Work
<1>4. ASSUME NEW t \in Tasks, Caught(t) \/ Uncaught(t)
      PROVE  StoryInv'
  BY <1>0, <1>4, SilentSteps, FailInsertStory DEF Caught, Uncaught
<1>5. ASSUME Startup \/ Crash
      PROVE  StoryInv'
  BY <1>0, <1>5, RecoverRunningStory, RetryDeletionStory, ServeStory, CrashStory DEF Startup
<1>6. ASSUME UNCHANGED vars
      PROVE  StoryInv'
  BY <1>0, <1>6, StutterStory
<1>7. QED BY <1>1, <1>2, <1>3, <1>4, <1>5, <1>6 DEF Next, Handled

(* Through every interleaving of requests, failures, crashes and recoveries, *)
(* rows, checkpoints, versions and answers of a conversation agree.          *)
THEOREM StoryHolds == Spec => []StoryInv
<1>1. Init => StoryInv
  BY InitStory
<1>2. StoryInv /\ [Next]_vars => StoryInv'
  BY NextStory
<1>3. QED BY <1>1, <1>2, PTL DEF Spec

(* No reading of the tables shows two different histories: a completed turn  *)
(* carries the answer of its operation, a version names one transcript, and a*)
(* deleted conversation has no row and no checkpoint left.                   *)
THEOREM OneStory == Spec => []RowsTellOneStory
<1>1. ASSUME StoryInv
      PROVE  RowsTellOneStory
  <2>1. TranscriptMatchesOperations
    <3> SUFFICES ASSUME NEW c \in Conversations, NEW n \in DOMAIN turns[c]
                 PROVE  LET turn == turns[c][n]
                            On(a, s) == {o \in Operations :
                                           /\ operation[o].conv = c /\ operation[o].turn = n
                                           /\ operation[o].action \in a
                                           /\ operation[o].status = s}
                        IN CASE turn.status = "completed" ->
                                  /\ turn.answer \in On(Actions, "completed")
                                  /\ operation[turn.answer].message = turn.message
                             [] OTHER -> /\ turn.answer = Null
                                         /\ Cardinality(On({"append"}, turn.status)) = 1
                                         /\ On({"replace_last"}, "completed") = {}
      BY DEF TranscriptMatchesOperations
    <3> DEFINE turn == turns[c][n]
               On(a, s) == {o \in Operations :
                              /\ operation[o].conv = c /\ operation[o].turn = n
                              /\ operation[o].action \in a
                              /\ operation[o].status = s}
    <3>1. OnTheirTurns(c) /\ TurnsAccounted(c)
      BY <1>1 DEF StoryInv, ConversationInv
    <3>2. CASE turn.status = "completed"
      <4>1. /\ turn.answer \in Operations /\ operation[turn.answer].conv = c
            /\ operation[turn.answer].turn = n /\ operation[turn.answer].status = "completed"
        BY <3>1, <3>2 DEF TurnsAccounted
      <4>2. operation[turn.answer] \in Operation /\ operation[turn.answer] # NoOperation
        BY <1>1, <4>1 DEF StoryInv, IInv, TypeOK, RowsTyped, NoOperation
      <4>3. operation[turn.answer].action \in Actions
        BY <4>2 DEF Operation
      <4>4. operation[turn.answer].message = turn.message
        BY <3>1, <4>1 DEF OnTheirTurns
      <4>5. QED BY <3>2, <4>1, <4>3, <4>4
    <3>3. CASE turn.status # "completed"
      <4>1. turn.answer = Null
        BY <3>1, <3>3 DEF TurnsAccounted
      <4>2. PICK o \in Operations : Appends(c, n) = {o}
        BY <3>1 DEF TurnsAccounted
      <4>3. \A p \in Appends(c, n) : operation[p].status = turn.status
        BY <3>1 DEF Appends, OnTheirTurns
      <4>4. On({"append"}, turn.status) = {o}
        BY <4>2, <4>3 DEF Appends
      <4>5. Cardinality(On({"append"}, turn.status)) = 1
        BY <4>4, FS_Singleton
      <4>6. On({"replace_last"}, "completed") = {}
        BY <3>1, <3>3 DEF OnTheirTurns
      <4>7. QED BY <3>3, <4>1, <4>5, <4>6
    <3>4. QED BY <3>2, <3>3
  <2>2. VersionIdentifiesTranscript
    <3>1. \A c \in Conversations : session[c].version # 0 => session[c].state # "deleted"
      <4>1. \A c \in Conversations : session[c] \in Session
        BY <1>1 DEF StoryInv, IInv, TypeOK, RowsTyped
      <4>2. QED BY <4>1 DEF Session, NoSession, Tombstone
    <3>2. QED BY <1>1, <3>1 DEF VersionIdentifiesTranscript, StoryInv, ConversationInv, VersionsCount
  <2>3. TombstoneIsEmpty
    BY <1>1 DEF TombstoneIsEmpty, StoryInv, ConversationInv, NothingLeft, NoneHeld, NoThread
  <2>4. QED BY <2>1, <2>2, <2>3 DEF RowsTellOneStory
<1>2. StoryInv => RowsTellOneStory
  BY <1>1
<1>3. QED BY <1>2, StoryHolds, PTL

(* A transcript with answers has a newest one.                               *)
LEMMA NewestCompleted ==
  ASSUME RowsTyped, NEW c \in Conversations, Completed(c) # {}
  PROVE  \E n \in DOMAIN turns[c] : LatestCompleted(c, n)
<1> DEFINE S == Completed(c)
           Later(n) == {m \in S : m > n}
           T == {Later(n) : n \in S}
<1>1. IsFiniteSet(S) /\ S \subseteq Nat /\ S \subseteq DOMAIN turns[c]
  BY CompletedFinite
<1>2. T \subseteq FiniteSubsetsOf(S) /\ T # {}
  <2>1. ASSUME NEW n \in S
        PROVE  Later(n) \in FiniteSubsetsOf(S)
    <3>1. Later(n) \in SUBSET S
      OBVIOUS
    <3>2. IsFiniteSet(Later(n))
      BY <1>1, <3>1, FS_Subset
    <3>3. QED BY <3>1, <3>2 DEF FiniteSubsetsOf
  <2>2. QED BY <2>1
<1>3. IsWellFoundedOn(StrictSubsetOrdering(S), FiniteSubsetsOf(S))
  BY FS_StrictSubsetOrderingWellFounded
<1>4. \E U \in T : \A V \in T : ~(<<V, U>> \in StrictSubsetOrdering(S))
  BY <1>2, <1>3, WFMin
<1>5. PICK n \in S : \A m \in S : <<Later(m), Later(n)>> \notin StrictSubsetOrdering(S)
  BY <1>4
<1>6. ASSUME NEW m \in S
      PROVE  m <= n
  <2>1. SUFFICES ASSUME m > n
                 PROVE  FALSE
    BY <1>1
  <2>2. Later(m) \subseteq Later(n) /\ m \in Later(n) /\ m \notin Later(m)
    BY <1>1, <2>1
  <2>3. <<Later(m), Later(n)>> \in StrictSubsetOrdering(S)
    BY <2>2 DEF StrictSubsetOrdering
  <2>4. QED BY <1>5, <2>3
<1>7. QED BY <1>1, <1>6 DEF LatestCompleted

(* As many answers as answered turns.                                        *)
LEMMA AnswersCounted ==
  ASSUME RowsTyped, NEW c \in Conversations
  PROVE  LET prior == CompletedBefore(c, Len(turns[c]) + 1) IN
         /\ prior = {<<m, turns[c][m].answer>> : m \in Completed(c)}
         /\ Cardinality(prior) = Cardinality(Completed(c))
<1> DEFINE prior == CompletedBefore(c, Len(turns[c]) + 1)
           answerOf == [m \in Completed(c) |-> <<m, turns[c][m].answer>>]
<1>1. IsFiniteSet(Completed(c)) /\ \A m \in Completed(c) : m < Len(turns[c]) + 1
  BY CompletedFinite
<1>2. prior = {<<m, turns[c][m].answer>> : m \in Completed(c)}
  BY <1>1 DEF CompletedBefore
<1>3. answerOf \in Bijection(Completed(c), prior)
  <2>1. \A m \in Completed(c) : answerOf[m] \in prior
    BY <1>2
  <2>2. answerOf \in [Completed(c) -> prior]
    BY <2>1
  <2>3. answerOf \in Surjection(Completed(c), prior)
    BY <1>2, <2>2 DEF Surjection
  <2>4. answerOf \in Injection(Completed(c), prior)
    <3>1. \A m, k \in Completed(c) : answerOf[m] = answerOf[k] => m = k
      OBVIOUS
    <3>2. QED BY <2>2, <3>1 DEF Injection, IsInjective
  <2>5. QED BY <2>3, <2>4 DEF Bijection
<1>4. QED BY <1>1, <1>2, <1>3, FS_Bijection DEF ExistsBijection

(* What the model is given, and will be given, is the recent public          *)
(* transcript, through failures, regenerations and crashes at every await.   *)
THEOREM MemoryAgrees == Spec => []MemoryFollowsTranscript
<1>1. ASSUME StoryInv
      PROVE  MemoryFollowsTranscript
  <2>1. ContextMatchesTranscript
    <3> SUFFICES ASSUME NEW c \in Conversations,
                        session[c].state = "active", session[c].mode = "intelligent"
                 PROVE  LET prior == CompletedBefore(c, Len(turns[c]) + 1)
                        IN /\ thread[c].completed = Cardinality(prior)
                           /\ thread[c].exists =>
                                Recent(Remembered(c, thread[c].active)) = Recent(prior)
                           /\ thread[c].active # 0 /\ prior # {} =>
                                /\ saver[c][thread[c].active].whole
                                /\ saver[c][thread[c].active].held
      BY DEF ContextMatchesTranscript
    <3>1. RowsTyped /\ PointersRemember(c)
      BY <1>1 DEF StoryInv, IInv, TypeOK, ConversationInv
    <3>2. /\ thread[c].completed = Cardinality(Completed(c))
          /\ Recent(Remembered(c, thread[c].active)) = Recent(CompletedBefore(c, Len(turns[c]) + 1))
          /\ \A n \in DOMAIN turns[c] : LatestCompleted(c, n) =>
               saver[c][thread[c].active].whole /\ saver[c][thread[c].active].held
      BY <3>1 DEF PointersRemember
    <3>3. CompletedBefore(c, Len(turns[c]) + 1) # {} => Completed(c) # {}
      BY <3>1, AnswersCounted
    <3>4. QED BY <3>1, <3>2, <3>3, AnswersCounted, NewestCompleted
  <2>2. AnswersKnowPriorTurns
    <3>1. ASSUME NEW o \in Operations,
                 \/ operation[o].status = "completed"
                 \/ operation[o].status = "running" /\ inferences[operation[o].conv][o] > 0
          PROVE  context[o] = Recent(CompletedBefore(operation[o].conv, operation[o].turn))
      <4>1. operation[o] \in Operation /\ operation[o] # NoOperation
        BY <1>1, <3>1 DEF StoryInv, IInv, TypeOK, RowsTyped, NoOperation
      <4>2. operation[o].conv \in Conversations
        BY <4>1 DEF Operation
      <4>3. QED BY <1>1, <3>1, <4>2 DEF StoryInv, ConversationInv, KnowsPrior
    <3>2. QED BY <3>1 DEF AnswersKnowPriorTurns
  <2>3. QED BY <2>1, <2>2 DEF MemoryFollowsTranscript
<1>2. StoryInv => MemoryFollowsTranscript
  BY <1>1
<1>3. QED BY <1>2, StoryHolds, PTL

-----------------------------------------------------------------------------
(* What a step shows a client. *)

RowsKept(d) ==
  /\ session'[d] = session[d] /\ turns'[d] = turns[d]
  /\ \A o \in Operations : operation[o].conv = d \/ operation'[o].conv = d =>
       operation'[o] = operation[o]

Creates(c) ==
  /\ session[c] = NoSession /\ turns'[c] = turns[c] /\ operation' = operation
  /\ session'[c].state = "active" /\ session'[c].version = 1

Versions(c) ==
  /\ Idle(c) /\ turns'[c] = turns[c] /\ operation' = operation
  /\ session'[c].state \in {"active", "deleting"}
  /\ session'[c].version = session[c].version + 1

Accepts(c, o, n) ==
  /\ Idle(c) /\ operation[o] = NoOperation
  /\ session'[c].state = "active" /\ session'[c].version = session[c].version + 1
  /\ operation'[o].conv = c /\ operation'[o].turn = n /\ operation'[o].status = "running"
  /\ \A p \in Operations : p # o => operation'[p] = operation[p]
  /\ n = Len(turns[c]) + 1 \/ LatestCompleted(c, n)
  /\ \A m \in DOMAIN turns[c] : turns'[c][m] = turns[c][m]
  /\ CompletedBefore(c, Len(turns[c]) + 1)' = CompletedBefore(c, Len(turns[c]) + 1)

Ends(c, o, verdict) ==
  /\ operation[o].conv = c /\ operation[o].status = "running" /\ GivesUp(c, o, verdict)
  /\ \A p \in Operations : p # o => operation'[p] = operation[p]

Replies(c, o, n) ==
  /\ operation[o].conv = c /\ operation[o].status = "running" /\ operation[o].turn = n
  /\ context[o] = Recent(CompletedBefore(c, n)) /\ Publishes(c, o, n)

Forgets(c) ==
  /\ session[c].state = "deleting" /\ session'[c] = Tombstone /\ turns'[c] = <<>>
  /\ operation' = [o \in Operations |->
       IF operation[o].conv = c THEN NoOperation ELSE operation[o]]

RowsMove(c) ==
  \/ Creates(c) \/ Versions(c) \/ Forgets(c)
  \/ \E o \in Operations, n \in Nat : Accepts(c, o, n) \/ Replies(c, o, n)
  \/ \E o \in Operations, verdict \in Verdicts : Ends(c, o, verdict)

LEMMA CreateShows ==
  ASSUME StoryInv, NEW c \in Conversations, NEW m \in Modes, Create(c, m)
  PROVE  Creates(c) /\ \A d \in Conversations : d # c => RowsKept(d)
<1>1. session \in [Conversations -> Session]
  BY DEF StoryInv, IInv, TypeOK, RowsTyped
<1>2. QED BY <1>1 DEF Create, Creates, RowsKept

LEMMA VersionShows ==
  ASSUME StoryInv, NEW c \in Conversations, Idle(c), UNCHANGED <<turns, operation>>,
         \/ session' = [session EXCEPT ![c].version = @ + 1]
         \/ session' = [session EXCEPT ![c] = Marked(@)]
  PROVE  Versions(c) /\ \A d \in Conversations : d # c => RowsKept(d)
<1>1. session \in [Conversations -> Session] /\ session[c].state = "active"
  BY DEF StoryInv, IInv, TypeOK, RowsTyped, Idle
<1>2. session[c] \in [state : {"active", "deleting"}, version : Nat, mode : Modes]
  BY <1>1, SessionTyped DEF StoryInv
<1>3. session'[c].state \in {"active", "deleting"} /\ session'[c].version = session[c].version + 1
  BY <1>1, <1>2 DEF Marked
<1>4. \A d \in Conversations : d # c => session'[d] = session[d]
  BY <1>1
<1>5. QED BY <1>3, <1>4 DEF Versions, RowsKept

LEMMA AcceptShows ==
  ASSUME StoryInv, NEW t \in Tasks, NEW r \in Clients, NEW c \in Conversations,
         NEW o \in Operations, NEW g \in Modes, NEW x \in Messages,
         ReserveOperation(t, r, c, o, g, x)
  PROVE  /\ \E n \in Nat : Accepts(c, o, n)
         /\ \A d \in Conversations : d # c => RowsKept(d)
<1> DEFINE asked == [message |-> x, status |-> "running", answer |-> Null]
<1>1. Idle(c) /\ operation[o] = NoOperation /\ session[c].state = "active"
  BY DEF ReserveOperation, NewOperation, Idle
<1>2. RowsTyped /\ session[c] \in [state : {"active", "deleting"}, version : Nat, mode : Modes]
  BY <1>1, SessionTyped DEF StoryInv, IInv, TypeOK
<1>3. PICK a \in Actions, n \in Nat :
        /\ Accept(c, o, a, x, n)
        /\ \/ /\ a = "append" /\ n = Len(turns[c]) + 1
              /\ turns' = [turns EXCEPT ![c] = Append(@, asked)]
           \/ /\ a = "replace_last" /\ LatestCompleted(c, n) /\ turns[c][n].message = x
              /\ UNCHANGED turns
  BY ReservationAccepts
<1>4. /\ operation'[o].conv = c /\ operation'[o].turn = n /\ operation'[o].status = "running"
      /\ \A p \in Operations : p # o => operation'[p] = operation[p]
      /\ session'[c].state = "active" /\ session'[c].version = session[c].version + 1
      /\ \A d \in Conversations : d # c => session'[d] = session[d] /\ turns'[d] = turns[d]
  BY <1>1, <1>2, <1>3 DEF Accept, RowsTyped
<1>5. /\ Len(turns[c]) \in Nat /\ DOMAIN turns[c] = 1..Len(turns[c])
      /\ Completed(c) \subseteq 1..Len(turns[c])
  BY <1>2, CompletedFinite
<1>6. /\ \A m \in DOMAIN turns[c] : turns'[c][m] = turns[c][m]
      /\ CompletedBefore(c, Len(turns[c]) + 1)' = CompletedBefore(c, Len(turns[c]) + 1)
  <2>1. CASE turns'[c] = turns[c]
    BY <2>1 DEF CompletedBefore, Completed
  <2>2. CASE turns'[c] = Append(turns[c], asked)
    <3>1. turns[c] \in Seq(Turn \cup {asked})
      BY <1>2 DEF RowsTyped
    <3>2. /\ Len(turns'[c]) = Len(turns[c]) + 1 /\ DOMAIN turns'[c] = 1..Len(turns[c]) + 1
          /\ turns'[c][Len(turns[c]) + 1] = asked
          /\ \A m \in 1..Len(turns[c]) : turns'[c][m] = turns[c][m]
      BY <1>5, <2>2, <3>1, AppendProperties
    <3>3. Completed(c)' = Completed(c)
      <4>1. asked.status # "completed"
        OBVIOUS
      <4>2. DOMAIN turns'[c] = DOMAIN turns[c] \cup {Len(turns[c]) + 1}
        BY <1>5, <3>2
      <4>3. QED BY <1>5, <3>2, <4>1, <4>2 DEF Completed
    <3>4. {k \in Completed(c)' : k < Len(turns'[c]) + 1} = Completed(c)
          /\ {k \in Completed(c) : k < Len(turns[c]) + 1} = Completed(c)
      BY <1>5, <3>2, <3>3
    <3>5. CompletedBefore(c, Len(turns[c]) + 1) = {<<m, turns[c][m].answer>> : m \in Completed(c)}
      BY <3>4 DEF CompletedBefore
    <3>6. CompletedBefore(c, Len(turns[c]) + 1)' = {<<m, turns'[c][m].answer>> : m \in Completed(c)}
      BY <3>4 DEF CompletedBefore
    <3>7. QED BY <1>5, <3>2, <3>5, <3>6
  <2>3. QED BY <1>2, <1>3, <2>1, <2>2 DEF RowsTyped
<1>7. operation[o].conv = Null /\ \A d \in Conversations : d # Null
  BY <1>1, NullAssumption DEF NoOperation
<1>8. \A d \in Conversations : d # c => RowsKept(d)
  BY <1>4, <1>7 DEF RowsKept
<1>9. Accepts(c, o, n)
  BY <1>1, <1>3, <1>4, <1>6 DEF Accepts
<1>10. QED BY <1>8, <1>9

LEMMA ForgetShows ==
  ASSUME StoryInv, NEW t \in Tasks, CompleteDelete(t)
  PROVE  \E c \in Conversations :
           Forgets(c) /\ \A d \in Conversations : d # c => RowsKept(d)
<1>1. PICK c \in Conversations : c = job[t].conv
  BY AtWork DEF CompleteDelete, StoryInv
<1>2. session[c].state = "deleting" /\ RowsTyped
  BY <1>1 DEF CompleteDelete, StoryInv, TaskInv, Deleting, IInv, TypeOK
<1>3. /\ operation' = [o \in Operations |->
                        IF operation[o].conv = c THEN NoOperation ELSE operation[o]]
      /\ turns' = [turns EXCEPT ![c] = <<>>] /\ session' = [session EXCEPT ![c] = Tombstone]
  BY <1>1 DEF CompleteDelete
<1>4. Forgets(c)
  BY <1>2, <1>3 DEF Forgets, RowsTyped
<1>5. \A d \in Conversations : d # c => RowsKept(d)
  BY <1>2, <1>3, NullAssumption DEF RowsKept, RowsTyped, NoOperation
<1>6. QED BY <1>4, <1>5

(* A step that writes no row runs the model for a running operation at most. *)
LEMMA ContextKept ==
  ASSUME StoryInv, [Next]_vars, NEW o \in Operations, operation[o].status # "running"
  PROVE  context'[o] = context[o]
<1>1. \A t \in Tasks : pc[t] \in {"prepare", "insert_thread"} =>
        job[t].op # o
  BY DEF StoryInv, TaskInv, Underway, Sending, InTry
<1>2. context \in [Operations -> SUBSET Answers]
  BY DEF StoryInv, IInv, TypeOK, HistoryTyped
<1>3. ASSUME NEW t \in Tasks, NEW prior, pc[t] \in {"prepare", "insert_thread"}, Run(t, prior)
      PROVE  context'[o] = context[o]
  BY <1>1, <1>2, <1>3 DEF Run
<1>4. ASSUME NEW t \in Tasks, Work(t)
      PROVE  context'[o] = context[o]
  <2>1. CASE StartRag(t)
    BY <1>3, <2>1 DEF StartRag
  <2>2. CASE StartThread(t)
    BY <1>3, <2>2 DEF StartThread, StartFrom, history
  <2>3. CASE InsertThread(t)
    BY <1>3, <2>3 DEF InsertThread, StartFrom, history
  <2>4. CASE ReservationRead(t) \/ PutBaseCheckpoint(t) \/ StepGraph(t) \/ FinishGraph(t)
    BY <2>4 DEF ReservationRead, PutBaseCheckpoint, StepGraph, FinishGraph, history
  <2>5. CASE FinishRag(t) \/ PublishOperation(t) \/ Reply(t) \/ RecordFailure(t)
    BY <2>5 DEF FinishRag, PublishOperation, Reply, RecordFailure, history
  <2>6. CASE EraseCheckpoints(t) \/ CompleteDelete(t)
    BY <2>6 DEF EraseCheckpoints, CompleteDelete, history
  <2>7. QED BY <1>4, <2>1, <2>2, <2>3, <2>4, <2>5, <2>6 DEF Work
<1>5. ASSUME NEW k \in Clients, Client(k)
      PROVE  context'[o] = context[o]
  <2>1. \A c \in Conversations : ListTurns(k, c) \/ Rename(k, c) => context' = context
    BY DEF ListTurns, Rename, history
  <2>2. \A c \in Conversations, t \in Tasks : BeginDelete(t, k, c) => context' = context
    BY DEF BeginDelete, history
  <2>3. \A c \in Conversations, t \in Tasks, p \in Operations, m \in Modes, x \in Messages :
          ReserveOperation(t, k, c, p, m, x) => context' = context
    BY DEF ReserveOperation, history
  <2>4. QED BY <1>5, <2>1, <2>2, <2>3 DEF Client
<1>6. ASSUME NEW t \in Tasks, Caught(t) \/ Uncaught(t)
      PROVE  context'[o] = context[o]
  BY <1>6 DEF Caught, Uncaught, Fail, FailInsert, AbandonReservation, LoseVerdict,
             AbortDelete, history
<1>7. CASE Startup
  BY <1>7 DEF Startup, RecoverRunning, RetryDeletion, Serve, history
<1>8. CASE Crash \/ UNCHANGED vars
  BY <1>8 DEF Crash, history, vars
<1>9. ASSUME NEW c \in Conversations, NEW m \in Modes, Create(c, m)
      PROVE  context'[o] = context[o]
  BY <1>9 DEF Create, history
<1>10. QED BY <1>4, <1>5, <1>6, <1>7, <1>8, <1>9 DEF Next, Handled

LEMMA StepsShow ==
  ASSUME StoryInv, [Next]_vars
  PROVE  \/ RowsStay
         \/ \E c \in Conversations : RowsMove(c) /\ \A d \in Conversations : d # c => RowsKept(d)
         \/ RecoverRunning
<1> USE DEF RowsMove
<1>0. IInv'
  BY NextIInv DEF StoryInv
<1>1. ASSUME NEW c \in Conversations, NEW m \in Modes, Create(c, m)
      PROVE  RowsMove(c) /\ \A d \in Conversations : d # c => RowsKept(d)
  BY <1>1, CreateShows
<1>2. ASSUME NEW k \in Clients, NEW c \in Conversations, Rename(k, c)
      PROVE  RowsMove(c) /\ \A d \in Conversations : d # c => RowsKept(d)
  <2>1. Idle(c) /\ UNCHANGED <<turns, operation>>
        /\ session' = [session EXCEPT ![c].version = @ + 1]
    BY <1>2 DEF Rename
  <2>2. QED BY <2>1, VersionShows
<1>3. ASSUME NEW t \in Tasks, NEW k \in Clients, NEW c \in Conversations, BeginDelete(t, k, c)
      PROVE  RowsStay \/ (RowsMove(c) /\ \A d \in Conversations : d # c => RowsKept(d))
  <2>1. UNCHANGED <<turns, operation>>
        /\ \/ UNCHANGED session
           \/ Idle(c) /\ session' = [session EXCEPT ![c] = Marked(@)]
    BY <1>3 DEF BeginDelete
  <2>2. QED BY <2>1, VersionShows DEF RowsStay
<1>4. ASSUME NEW t \in Tasks, NEW k \in Clients, NEW c \in Conversations,
             NEW o \in Operations, NEW m \in Modes, NEW x \in Messages,
             ReserveOperation(t, k, c, o, m, x)
      PROVE  RowsMove(c) /\ \A d \in Conversations : d # c => RowsKept(d)
  BY <1>4, AcceptShows
<1>5. ASSUME NEW t \in Tasks, PublishOperation(t)
      PROVE  RowsStay \/ \E c \in Conversations :
                          RowsMove(c) /\ \A d \in Conversations : d # c => RowsKept(d)
  <2>1. CASE UNCHANGED <<database, history>>
    BY <2>1 DEF database, RowsStay
  <2>2. ASSUME NEW c \in Conversations, NEW o \in Operations, NEW n \in Nat,
               operation[o].conv = c, operation[o].status = "running",
               operation[o].turn = n, context[o] = Recent(CompletedBefore(c, n)),
               Publishes(c, o, n), \A d \in Conversations : d # c => Untouched(d)
        PROVE  RowsMove(c) /\ \A d \in Conversations : d # c => RowsKept(d)
    <3>1. Replies(c, o, n)
      BY <2>2 DEF Replies
    <3>2. \A d \in Conversations : d # c => RowsKept(d)
      BY <2>2 DEF Untouched, RowsKept
    <3>3. QED BY <3>1, <3>2
  <2>3. QED BY <1>0, <1>5, <2>1, <2>2, PublicationCommitted
<1>6. ASSUME NEW t \in Tasks, RecordFailure(t)
      PROVE  RowsStay \/ \E c \in Conversations :
                          RowsMove(c) /\ \A d \in Conversations : d # c => RowsKept(d)
  <2>1. CASE UNCHANGED <<database, history>>
    BY <2>1 DEF database, RowsStay
  <2>2. ASSUME NEW c \in Conversations, NEW o \in Operations, NEW verdict \in Verdicts,
               operation[o].conv = c, operation[o].status = "running", GivesUp(c, o, verdict),
               \A p \in Operations : p # o => operation'[p] = operation[p],
               \A d \in Conversations : d # c => Untouched(d)
        PROVE  RowsMove(c) /\ \A d \in Conversations : d # c => RowsKept(d)
    <3>1. Ends(c, o, verdict)
      BY <2>2 DEF Ends
    <3>2. \A d \in Conversations : d # c => RowsKept(d)
      BY <2>2 DEF Untouched, RowsKept
    <3>3. QED BY <3>1, <3>2
  <2>3. QED BY <1>0, <1>6, <2>1, <2>2, FailureRecorded
<1>7. ASSUME NEW t \in Tasks, CompleteDelete(t)
      PROVE  \E c \in Conversations :
               RowsMove(c) /\ \A d \in Conversations : d # c => RowsKept(d)
  BY <1>7, ForgetShows
<1> HIDE DEF RowsMove
<1>8. QED BY <1>1, <1>2, <1>3, <1>4, <1>5, <1>6, <1>7, StepsOnRows DEF WritesRows

(* What a client has seen of a conversation stays, or its version tells it:  *)
(* an answer is replaced only by a completed regeneration of that turn, and  *)
(* no row moves without the version moving on by one.                        *)
THEOREM HistoryKept == Spec => HistoryIsKept
<1> DEFINE Survives(c) ==
             \A n \in Completed(c) :
               \/ session'[c].state = "deleted"
               \/ turns'[c][n] = turns[c][n]
               \/ \E o \in Operations :
                    /\ operation[o].status = "running" /\ operation'[o].status = "completed"
                    /\ operation[o].conv = c /\ operation[o].turn = n
                    /\ operation[o].action = "replace_last"
                    /\ turns'[c][n] = [turns[c][n] EXCEPT !.answer = o]
           Counts(c) ==
             \/ session'[c].state = "deleted"
             \/ /\ turns'[c] = turns[c] /\ session'[c] = session[c]
                /\ \A o \in Operations : operation[o].conv = c => operation'[o] = operation[o]
             \/ /\ session'[c].version = session[c].version + 1
                /\ session[c].state = "deleting" => session'[c].state = "deleting"
<1>1. ASSUME NEW c \in Conversations, RowsKept(c)
      PROVE  Survives(c) /\ Counts(c)
  BY <1>1 DEF RowsKept
<1>2. ASSUME StoryInv, NEW c \in Conversations, NEW o \in Operations, NEW verdict \in Verdicts,
             operation[o].conv = c, operation[o].status = "running", GivesUp(c, o, verdict)
      PROVE  Survives(c) /\ Counts(c)
  <2>1. session[c].state = "active"
    BY <1>2 DEF StoryInv, IInv, RunningFreezesConversation
  <2>2. session[c] \in [state : {"active", "deleting"}, version : Nat, mode : Modes]
    BY <1>2, <2>1, SessionTyped DEF StoryInv
  <2>3. Counts(c)
    BY <1>2, <2>1, <2>2 DEF GivesUp
  <2>4. Survives(c)
    BY <1>2 DEF GivesUp, Completed
  <2>5. QED BY <2>3, <2>4
<1>3. ASSUME StoryInv, NEW c \in Conversations, NEW o \in Operations, NEW n \in Nat,
             Replies(c, o, n)
      PROVE  Survives(c) /\ Counts(c)
  <2>1. /\ operation[o].conv = c /\ operation[o].status = "running" /\ operation[o].turn = n
        /\ Publishes(c, o, n)
    BY <1>3 DEF Replies
  <2>2. session[c].state = "active"
    BY <1>3, <2>1 DEF StoryInv, IInv, RunningFreezesConversation
  <2>3. session[c] \in [state : {"active", "deleting"}, version : Nat, mode : Modes]
    BY <1>3, <2>2, SessionTyped DEF StoryInv
  <2>4. Counts(c)
    BY <2>1, <2>2, <2>3 DEF Publishes
  <2>5. ASSUME NEW m \in Completed(c), m # n
        PROVE  turns'[c][m] = turns[c][m]
    BY <2>1, <2>5 DEF Publishes
  <2>6. ASSUME n \in Completed(c)
        PROVE  /\ operation'[o].status = "completed" /\ operation[o].action = "replace_last"
               /\ turns'[c][n] = [turns[c][n] EXCEPT !.answer = o]
    <3>1. operation[o] \in [conv : Conversations, turn : Nat, action : Actions,
                            message : Messages, status : TurnStatus, version : Nat]
      BY <1>3, <2>1, RunningOperation DEF StoryInv
    <3>2. operation[o].action = "replace_last"
      BY <1>3, <2>1, <2>6, <3>1, NothingNewer DEF Actions
    <3>3. operation'[o].status = "completed"
      BY <2>1, <3>1 DEF Publishes
    <3>4. n \in DOMAIN turns[c] /\ turns[c][n].status = "completed"
      BY <2>6 DEF Completed
    <3>5. turns[c][n] \in [message : Messages, status : TurnStatus,
                           answer : Operations \cup {Null}]
      BY <1>3, <3>4, TurnTyped DEF StoryInv, IInv, TypeOK, Turn
    <3>6. turns'[c][n] = [turns[c][n] EXCEPT !.status = "completed", !.answer = o]
      BY <2>1, <3>4 DEF Publishes
    <3>7. QED BY <3>2, <3>3, <3>4, <3>5, <3>6
  <2>7. Survives(c)
    BY <2>1, <2>5, <2>6
  <2>8. QED BY <2>4, <2>7
<1>4. ASSUME StoryInv, NEW c \in Conversations, RowsMove(c)
      PROVE  Survives(c) /\ Counts(c)
  <2>1. CASE Creates(c)
    BY <2>1 DEF Creates, NoSession
  <2>2. CASE Versions(c)
    BY <2>2 DEF Versions, Idle
  <2>3. CASE Forgets(c)
    BY <2>3 DEF Forgets, Tombstone
  <2>4. ASSUME NEW o \in Operations, NEW n \in Nat, Accepts(c, o, n)
        PROVE  Survives(c) /\ Counts(c)
    BY <2>4 DEF Accepts, Idle, Completed
  <2>5. ASSUME NEW o \in Operations, NEW verdict \in Verdicts, Ends(c, o, verdict)
        PROVE  Survives(c) /\ Counts(c)
    BY <1>2, <1>4, <2>5 DEF Ends
  <2>6. QED BY <1>3, <1>4, <2>1, <2>2, <2>3, <2>4, <2>5 DEF RowsMove
<1>5. ASSUME StoryInv, [Next]_vars, NEW c \in Conversations
      PROVE  Survives(c) /\ Counts(c)
  <2>1. CASE RowsStay
    BY <1>1, <2>1 DEF RowsStay, RowsKept
  <2>2. CASE \E d \in Conversations :
               RowsMove(d) /\ \A e \in Conversations : e # d => RowsKept(e)
    BY <1>1, <1>4, <1>5, <2>2
  <2>3. CASE RecoverRunning
    <3>1. IInv' /\ "interrupted" \in Verdicts
      BY <1>5, NextIInv DEF StoryInv, Verdicts
    <3>2. CASE Untouched(c)
      BY <1>1, <3>2 DEF Untouched, RowsKept
    <3>3. ASSUME NEW o \in Operations, operation[o].conv = c, operation[o].status = "running",
                 GivesUp(c, o, "interrupted")
          PROVE  Survives(c) /\ Counts(c)
      BY <1>2, <1>5, <3>1, <3>3
    <3>4. QED BY <1>5, <2>3, <3>1, <3>2, <3>3, RecoveryInterrupts
  <2>4. QED BY <1>5, <2>1, <2>2, <2>3, StepsShow
<1>6. StoryInv /\ [Next]_vars =>
        [\A c \in Conversations : \A n \in Completed(c) :
           \/ session'[c].state = "deleted"
           \/ turns'[c][n] = turns[c][n]
           \/ \E o \in Operations :
                /\ operation[o].status = "running" /\ operation'[o].status = "completed"
                /\ operation[o].conv = c /\ operation[o].turn = n
                /\ operation[o].action = "replace_last"
                /\ turns'[c][n] = [turns[c][n] EXCEPT !.answer = o]]_vars
  BY <1>5
<1>7. StoryInv /\ [Next]_vars =>
        [\A c \in Conversations :
           \/ session'[c].state = "deleted"
           \/ /\ turns'[c] = turns[c] /\ session'[c] = session[c]
              /\ \A o \in Operations : operation[o].conv = c => operation'[o] = operation[o]
           \/ /\ session'[c].version = session[c].version + 1
              /\ session[c].state = "deleting" => session'[c].state = "deleting"]_vars
  BY <1>5
<1>8. Spec => AnswersSurvive
  BY <1>6, StoryHolds, PTL DEF Spec, AnswersSurvive
<1>9. Spec => VersionCountsChanges
  BY <1>7, StoryHolds, PTL DEF Spec, VersionCountsChanges
<1>10. QED BY <1>8, <1>9 DEF HistoryIsKept

-----------------------------------------------------------------------------
(* The conversation log that clients were promised. *)

LEMMA BusyWithRunning ==
  ASSUME StoryInv, NEW c \in Conversations
  PROVE  /\ \A o \in Operations :
              operation[o].conv = c /\ operation[o].status = "running" => Busy(c) = o
         /\ Running(c) = {} => Busy(c) = Null
         /\ Running(c) # {} => Busy(c) # Null
<1>1. \A o \in Operations :
        operation[o].conv = c /\ operation[o].status = "running" => Running(c) = {o}
  BY DEF StoryInv, IInv, RunningFreezesConversation
<1>2. \A o \in Operations : Running(c) = {o} => Busy(c) = o
  BY DEF Busy
<1>3. Running(c) # {} => \E o \in Operations : Running(c) = {o}
  BY <1>1 DEF Running
<1>4. QED BY <1>1, <1>2, <1>3, NullAssumption DEF Busy

LEMMA RecentInPromise ==
  ASSUME NEW S
  PROVE  Promise!Recent(S) = Recent(S)
BY SMTT(20) DEF Recent, Promise!Recent, Cardinality, Promise!Cardinality

LEMMA LogRead ==
  ASSUME NEW c \in Conversations, NEW state, NEW version, NEW answers, NEW busy,
         session[c].state = state, session[c].version = version,
         CompletedBefore(c, Len(turns[c]) + 1) = answers, Busy(c) = busy
  PROVE  /\ LogOf(c) = Promise!Entry(state, version, answers, busy)
         /\ LogOf(c).state = state /\ LogOf(c).version = version
         /\ LogOf(c).answers = answers /\ LogOf(c).busy = busy
BY DEF LogOf, Promise!Entry

LEMMA LogWritten ==
  ASSUME NEW c \in Conversations, NEW state, NEW version, NEW answers, NEW busy,
         session'[c].state = state, session'[c].version = version,
         CompletedBefore(c, Len(turns[c]) + 1)' = answers, Busy(c)' = busy
  PROVE  LogOf(c)' = Promise!Entry(state, version, answers, busy)
BY DEF LogOf, Promise!Entry

(* One entry of the log moves, or one outcome.                               *)
TheLog == [c \in Conversations |-> LogOf(c)]
TheOutcomes == [o \in Operations |-> OutcomeOf(o)]

LEMMA LogMoves ==
  ASSUME NEW c \in Conversations, NEW entry, LogOf(c)' = entry,
         \A d \in Conversations : d # c => LogOf(d)' = LogOf(d)
  PROVE  TheLog' = [TheLog EXCEPT ![c] = entry]
BY DEF TheLog

LEMMA OutcomeMoves ==
  ASSUME NEW o \in Operations, NEW fate, OutcomeOf(o)' = fate,
         \A p \in Operations : p # o => OutcomeOf(p)' = OutcomeOf(p)
  PROVE  TheOutcomes' = [TheOutcomes EXCEPT ![o] = fate]
BY DEF TheOutcomes

LEMMA OutcomesStay ==
  ASSUME \A p \in Operations : OutcomeOf(p)' = OutcomeOf(p)
  PROVE  TheOutcomes' = TheOutcomes
BY DEF TheOutcomes

LEMMA KeptLog ==
  ASSUME NEW d \in Conversations, RowsKept(d)
  PROVE  LogOf(d)' = LogOf(d)
<1>1. Running(d)' = Running(d)
  BY DEF RowsKept, Running
<1>2. Busy(d)' = Busy(d)
  BY <1>1 DEF Busy
<1>3. CompletedBefore(d, Len(turns[d]) + 1)' = CompletedBefore(d, Len(turns[d]) + 1)
  BY DEF RowsKept, CompletedBefore, Completed
<1>4. QED BY <1>2, <1>3 DEF LogOf, RowsKept

LEMMA KeptOutcome ==
  ASSUME StoryInv, [Next]_vars, NEW o \in Operations, operation'[o] = operation[o]
  PROVE  OutcomeOf(o)' = OutcomeOf(o)
<1>1. operation[o].status = "completed" => context'[o] = context[o]
  BY ContextKept
<1>2. QED BY <1>1 DEF OutcomeOf

(* The answers of a log, and those before a turn.                            *)
LEMMA AnswersInOrder ==
  ASSUME StoryInv, NEW c \in Conversations
  PROVE  LET answers == CompletedBefore(c, Len(turns[c]) + 1) IN
         /\ \A p \in answers : p[1] \in Completed(c) /\ p = <<p[1], turns[c][p[1]].answer>>
         /\ \A n \in Nat : n <= Len(turns[c]) => {p \in answers : p[1] < n} = CompletedBefore(c, n)
         /\ \A n \in Completed(c) : n \in Nat /\ n >= 1 /\ n <= Len(turns[c])
<1>1. /\ Len(turns[c]) \in Nat /\ Completed(c) \subseteq 1..Len(turns[c])
  BY CompletedFinite DEF StoryInv, IInv, TypeOK
<1>2. \A n \in Completed(c) : n \in Nat /\ n >= 1 /\ n <= Len(turns[c])
  BY <1>1
<1>3. CompletedBefore(c, Len(turns[c]) + 1) = {<<m, turns[c][m].answer>> : m \in Completed(c)}
  BY AnswersCounted DEF StoryInv, IInv, TypeOK
<1>4. ASSUME NEW n \in Nat
      PROVE  {p \in CompletedBefore(c, Len(turns[c]) + 1) : p[1] < n} = CompletedBefore(c, n)
  BY <1>3 DEF CompletedBefore
<1>5. QED BY <1>2, <1>3, <1>4

(* Requests that write one conversation's session or reserve an operation.   *)
LEMMA RequestKeepsPromise ==
  ASSUME StoryInv, [Next]_vars, NEW c \in Conversations,
         \A d \in Conversations : d # c => RowsKept(d),
         Creates(c) \/ Versions(c)
  PROVE  Promise!Create(c) \/ Promise!Touch(c) \/ Promise!Close(c)
<1>1. operation' = operation /\ turns'[c] = turns[c]
  BY DEF Creates, Versions
<1>2. TheOutcomes' = TheOutcomes
  BY <1>1, KeptOutcome, OutcomesStay
<1>3. \A d \in Conversations : d # c => LogOf(d)' = LogOf(d)
  BY KeptLog
<1>4. Running(c) = {} /\ Busy(c) = Null
  <2>1. Running(c) = {}
    BY DEF Creates, Versions, Idle, NoSession, StoryInv, ConversationInv, NothingLeft, Running
  <2>2. QED BY <2>1, BusyWithRunning
<1>5. Busy(c)' = Null
  BY <1>1, <1>4 DEF Busy, Running
<1>6. CompletedBefore(c, Len(turns[c]) + 1)' = CompletedBefore(c, Len(turns[c]) + 1)
  BY <1>1 DEF CompletedBefore, Completed
<1> DEFINE answers == CompletedBefore(c, Len(turns[c]) + 1)
<1>7. /\ LogOf(c) = Promise!Entry(session[c].state, session[c].version, answers, Null)
      /\ LogOf(c).state = session[c].state /\ LogOf(c).version = session[c].version
      /\ LogOf(c).answers = answers /\ LogOf(c).busy = Null
      /\ LogOf(c)' = Promise!Entry(session'[c].state, session'[c].version, answers, Null)
  BY <1>4, <1>5, <1>6, LogRead, LogWritten
<1>8. TheLog[c] = LogOf(c)
  BY DEF TheLog
<1>9. CASE Creates(c)
  <2>1. turns[c] = <<>>
    BY <1>9 DEF Creates, NoSession, StoryInv, ConversationInv, NothingLeft
  <2>2. answers = {}
    BY <2>1 DEF CompletedBefore, Completed
  <2>3. TheLog[c] = Promise!Nothing
    <3>1. session[c].state = "absent" /\ session[c].version = 0
      BY <1>9 DEF Creates, NoSession
    <3>2. QED BY <1>7, <1>8, <2>2, <3>1 DEF Promise!Nothing
  <2>4. TheLog' = [TheLog EXCEPT ![c] = Promise!Entry("active", TheLog[c].version + 1, {}, Null)]
    <3>1. session'[c].state = "active" /\ session'[c].version = session[c].version + 1
      BY <1>9 DEF Creates, NoSession
    <3>2. QED BY <1>3, <1>7, <1>8, <2>2, <3>1, LogMoves
  <2>5. Promise!Create(c)
    BY <1>2, <2>3, <2>4 DEF Promise!Create, Promise!Moved, TheLog, TheOutcomes
  <2>6. QED BY <2>5
<1>10. CASE Versions(c)
  <2>1. session[c].state = "active" /\ session'[c].version = session[c].version + 1
        /\ session'[c].state \in {"active", "deleting"}
    BY <1>10 DEF Versions, Idle
  <2>2. TheLog[c].state = "active" /\ TheLog[c].busy = Null
    BY <1>7, <1>8, <2>1
  <2>3. TheLog' = [TheLog EXCEPT ![c] = Promise!Entry(session'[c].state, TheLog[c].version + 1,
                                                      TheLog[c].answers, Null)]
    <3>1. session'[c].version = TheLog[c].version + 1 /\ answers = TheLog[c].answers
      BY <1>7, <1>8, <2>1
    <3>2. QED BY <1>3, <1>7, <3>1, LogMoves
  <2>4. CASE session'[c].state = "active"
    BY <1>2, <2>2, <2>3, <2>4 DEF Promise!Touch, Promise!Open, Promise!Moved, TheLog, TheOutcomes
  <2>5. CASE session'[c].state = "deleting"
    BY <1>2, <2>2, <2>3, <2>5 DEF Promise!Close, Promise!Open, Promise!Moved, TheLog, TheOutcomes
  <2>6. QED BY <2>1, <2>4, <2>5
<1>11. QED BY <1>9, <1>10

LEMMA AcceptKeepsPromise ==
  ASSUME StoryInv, [Next]_vars, NEW c \in Conversations, NEW o \in Operations, NEW n \in Nat,
         Accepts(c, o, n), \A d \in Conversations : d # c => RowsKept(d)
  PROVE  Promise!Accept(c, o)
<1> DEFINE answers == CompletedBefore(c, Len(turns[c]) + 1)
<1>1. /\ session[c].state = "active" /\ Running(c) = {} /\ operation[o] = NoOperation
      /\ session'[c].state = "active" /\ session'[c].version = session[c].version + 1
      /\ operation'[o].conv = c /\ operation'[o].turn = n /\ operation'[o].status = "running"
      /\ \A p \in Operations : p # o => operation'[p] = operation[p]
      /\ n = Len(turns[c]) + 1 \/ LatestCompleted(c, n)
      /\ answers' = answers
  BY DEF Accepts, Idle
<1>2. \A p \in Operations : p # o => OutcomeOf(p)' = OutcomeOf(p)
  BY <1>1, KeptOutcome
<1>3. \A d \in Conversations : d # c => LogOf(d)' = LogOf(d)
  BY KeptLog
<1>4. Busy(c) = Null /\ Busy(c)' = o
  <2>1. Running(c)' = {o}
    BY <1>1 DEF Running
  <2>2. QED BY <1>1, <2>1, BusyWithRunning DEF Busy
<1>5. /\ TheLog[c] = LogOf(c)
      /\ LogOf(c).state = "active" /\ LogOf(c).version = session[c].version
      /\ LogOf(c).answers = answers /\ LogOf(c).busy = Null
      /\ LogOf(c)' = Promise!Entry("active", session[c].version + 1, answers, o)
  BY <1>1, <1>4, LogRead, LogWritten DEF TheLog
<1>6. TheLog' = [TheLog EXCEPT ![c] = Promise!Entry("active", TheLog[c].version + 1,
                                                    TheLog[c].answers, o)]
  BY <1>3, <1>5, LogMoves
<1>7. OutcomeOf(o) = Promise!Unknown /\ OutcomeOf(o)' = Promise!Fate(c, n, "running", {})
  BY <1>1 DEF OutcomeOf, NoOperation, Promise!Unknown, Promise!Fate
<1>8. TheOutcomes' = [TheOutcomes EXCEPT ![o] = Promise!Fate(c, n, "running", {})]
      /\ TheOutcomes[o] = Promise!Unknown
  BY <1>2, <1>7, OutcomeMoves DEF TheOutcomes
<1>9. /\ n \in 1..session[c].version
      /\ \A p \in answers \ Promise!Newest(answers) : p[1] < n
      /\ \A p \in Promise!Newest(answers) : p[1] <= n
  <2>1. Len(turns[c]) \in Nat /\ Len(turns[c]) < session[c].version /\ session[c].version \in Nat
    BY <1>1, CompletedFinite, SessionTyped DEF StoryInv, IInv, TypeOK, ConversationInv, VersionsCount
  <2>2. \A p \in answers : p[1] \in Completed(c) /\ p = <<p[1], turns[c][p[1]].answer>>
    BY AnswersInOrder
  <2>3. \A m \in Completed(c) : m \in Nat /\ m >= 1 /\ m <= Len(turns[c])
    BY AnswersInOrder
  <2>4. CASE n = Len(turns[c]) + 1
    BY <2>1, <2>2, <2>3, <2>4 DEF Promise!Newest
  <2>5. CASE LatestCompleted(c, n)
    <3>1. n \in Completed(c) /\ \A m \in Completed(c) : m <= n
      BY <2>5 DEF LatestCompleted
    <3>2. \A p \in answers : p[1] = n => p \in Promise!Newest(answers)
      BY <2>2, <3>1 DEF Promise!Newest
    <3>3. \A p \in answers : p[1] <= n /\ p[1] \in Nat
      BY <2>2, <2>3, <3>1
    <3>4. \A p \in Promise!Newest(answers) : p \in answers
      BY DEF Promise!Newest
    <3>5. n \in 1..session[c].version
      BY <2>1, <2>3, <3>1
    <3>6. QED BY <3>2, <3>3, <3>4, <3>5
  <2>6. QED BY <1>1, <2>4, <2>5
<1>10. /\ TheLog[c].state = "active" /\ TheLog[c].busy = Null
       /\ n \in 1..TheLog[c].version
       /\ \A p \in TheLog[c].answers \ Promise!Newest(TheLog[c].answers) : p[1] < n
       /\ \A p \in Promise!Newest(TheLog[c].answers) : p[1] <= n
  BY <1>5, <1>9
<1>11. QED
  BY <1>6, <1>8, <1>10 DEF Promise!Accept, Promise!Open, Promise!Moved, TheLog, TheOutcomes

LEMMA AnswerKeepsPromise ==
  ASSUME StoryInv, [Next]_vars, NEW c \in Conversations, NEW o \in Operations, NEW n \in Nat,
         Replies(c, o, n), \A d \in Conversations : d # c => RowsKept(d)
  PROVE  Promise!Answer(c)
<1> DEFINE answers == CompletedBefore(c, Len(turns[c]) + 1)
           earlier == CompletedBefore(c, n)
<1>1. /\ operation[o].conv = c /\ operation[o].status = "running" /\ operation[o].turn = n
      /\ context[o] = Recent(earlier) /\ Publishes(c, o, n)
  BY DEF Replies
<1>2. operation[o] \in [conv : Conversations, turn : Nat, action : Actions,
                        message : Messages, status : TurnStatus, version : Nat]
  BY <1>1, RunningOperation DEF StoryInv
<1>3. /\ operation'[o].conv = c /\ operation'[o].turn = n /\ operation'[o].status = "completed"
      /\ \A p \in Operations : p # o => operation'[p] = operation[p]
      /\ context' = context
  BY <1>1, <1>2 DEF Publishes, history
<1>4. session[c].state = "active" /\ Running(c) = {o}
  BY <1>1 DEF StoryInv, IInv, RunningFreezesConversation
<1>5. session'[c].state = session[c].state /\ session'[c].version = session[c].version + 1
  <2>1. session[c] \in [state : {"active", "deleting"}, version : Nat, mode : Modes]
    BY <1>4, SessionTyped DEF StoryInv
  <2>2. QED BY <1>1, <2>1 DEF Publishes
<1>6. Busy(c) = o /\ Busy(c)' = Null
  <2>1. Running(c)' = {}
    BY <1>3, <1>4 DEF Running
  <2>2. QED BY <1>1, <2>1, BusyWithRunning DEF Busy
<1>7. n <= Len(turns[c]) /\ Len(turns[c]) \in Nat
  <2>1. n \in DOMAIN turns[c]
    BY <1>1, PublishedTurns
  <2>2. QED BY <2>1, CompletedFinite DEF StoryInv, IInv, TypeOK
<1>8. answers' = earlier \cup {<<n, o>>}
  <2>1. DOMAIN turns'[c] = DOMAIN turns[c]
    BY <1>1, PublishedTurns
  <2>2. RowsTyped /\ RowsTyped'
    BY NextIInv DEF StoryInv, IInv, TypeOK
  <2>3. Len(turns'[c]) = Len(turns[c])
    <3>1. turns[c] \in Seq(Turn) /\ turns'[c] \in Seq(Turn)
      BY <2>2 DEF RowsTyped
    <3>2. QED BY <2>1, <3>1, LenProperties
  <2>4. PICK l \in Nat : l = Len(turns[c]) + 1
    BY <1>7
  <2>5. CompletedBefore(c, l)' = CompletedBefore(c, n) \cup {<<n, o>>}'
    <3>1. \A m \in Nat : m > n => CompletedBefore(c, m)' = CompletedBefore(c, n) \cup {<<n, o>>}
      BY <1>1, PublishedTurns
    <3>2. QED BY <1>7, <2>4, <3>1
  <2>6. answers' = CompletedBefore(c, l)'
    BY <2>3, <2>4 DEF CompletedBefore
  <2>7. QED BY <2>5, <2>6
<1>9. /\ TheLog[c] = LogOf(c) /\ LogOf(c).version = session[c].version
      /\ LogOf(c).answers = answers /\ LogOf(c).busy = o
      /\ LogOf(c)' = Promise!Entry("active", session[c].version + 1,
                                   earlier \cup {<<n, o>>}, Null)
  <2>1. /\ TheLog[c] = LogOf(c) /\ LogOf(c).version = session[c].version
        /\ LogOf(c).answers = answers /\ LogOf(c).busy = o
    BY <1>6, LogRead DEF TheLog
  <2>2. session'[c].state = "active" /\ session'[c].version = session[c].version + 1
    BY <1>4, <1>5
  <2>3. LogOf(c)' = Promise!Entry("active", session[c].version + 1,
                                  earlier \cup {<<n, o>>}, Null)
    <3> HIDE DEF answers, earlier
    <3>1. CompletedBefore(c, Len(turns[c]) + 1)' = earlier \cup {<<n, o>>}
      BY <1>8 DEF answers
    <3>2. QED BY <1>6, <2>2, <3>1, LogWritten
  <2>4. QED BY <2>1, <2>3
<1>10. \A d \in Conversations : d # c => LogOf(d)' = LogOf(d)
  BY KeptLog
<1>11. TheLog' = [TheLog EXCEPT ![c] = Promise!Entry("active", TheLog[c].version + 1,
                                                     earlier \cup {<<n, o>>}, Null)]
  BY <1>9, <1>10, LogMoves
<1>12. Promise!Before(answers, n) = earlier
  BY <1>7, AnswersInOrder DEF Promise!Before
<1>13. Promise!Recent(earlier) = context[o]
  BY <1>1, RecentInPromise
<1>14. TheOutcomes[o].turn = n
  BY <1>1 DEF OutcomeOf, TheOutcomes
<1>15. OutcomeOf(o)' = Promise!Fate(c, n, "completed", context[o])
  BY <1>3 DEF OutcomeOf, Promise!Fate
<1>16. \A p \in Operations : p # o => OutcomeOf(p)' = OutcomeOf(p)
  BY <1>3, KeptOutcome
<1>17. TheOutcomes' = [TheOutcomes EXCEPT ![o] = Promise!Fate(c, n, "completed", context[o])]
  BY <1>15, <1>16, OutcomeMoves
<1>18. o # Null /\ TheLog[c].busy = o /\ TheLog[c].answers = answers
  BY <1>9, NullAssumption
<1> HIDE DEF answers, earlier
<1>19. QED
  BY <1>11, <1>12, <1>13, <1>14, <1>17, <1>18
  DEF Promise!Answer, Promise!Moved, TheLog, TheOutcomes

(* A conversation gives up its running operation.                            *)
LEMMA GivenUpEntry ==
  ASSUME StoryInv, [Next]_vars, NEW c \in Conversations, NEW o \in Operations,
         NEW verdict \in Verdicts,
         operation[o].conv = c, operation[o].status = "running", GivesUp(c, o, verdict)
  PROVE  /\ TheLog[c].busy = o
         /\ LogOf(c)' = Promise!Entry("active", TheLog[c].version + 1, TheLog[c].answers, Null)
         /\ OutcomeOf(o)' = Promise!Fate(TheOutcomes[o].conv, TheOutcomes[o].turn, verdict, {})
<1> DEFINE answers == CompletedBefore(c, Len(turns[c]) + 1)
<1>1. session[c].state = "active" /\ Running(c) = {o} /\ Busy(c) = o
  BY BusyWithRunning DEF StoryInv, IInv, RunningFreezesConversation
<1>2. RowsTyped /\ RowsTyped'
  BY NextIInv DEF StoryInv, IInv, TypeOK
<1>3. session'[c].state = "active" /\ session'[c].version = session[c].version + 1
  <2>1. session[c] \in [state : {"active", "deleting"}, version : Nat, mode : Modes]
    BY <1>1, SessionTyped DEF StoryInv
  <2>2. QED BY <1>1, <2>1 DEF GivesUp
<1>4. operation[o] \in [conv : Conversations, turn : Nat, action : Actions,
                        message : Messages, status : TurnStatus, version : Nat]
  BY RunningOperation DEF StoryInv
<1>5. /\ operation'[o].status = verdict /\ operation'[o].conv = operation[o].conv
      /\ operation'[o].turn = operation[o].turn
  BY <1>4 DEF GivesUp
<1>6. Busy(c)' = Null
  <2>1. Running(c)' = {}
    <3>1. \A p \in Operations :
            p # o /\ (operation[p].conv = c \/ operation'[p].conv = c) =>
              operation'[p] = operation[p]
      BY DEF GivesUp
    <3>2. ASSUME NEW p \in Operations, operation'[p].conv = c, operation'[p].status = "running"
          PROVE  FALSE
      <4>1. p # o
        BY <1>5, <3>2 DEF Verdicts
      <4>2. operation'[p] = operation[p]
        BY <3>1, <3>2, <4>1
      <4>3. p \in Running(c)
        BY <3>2, <4>2 DEF Running
      <4>4. QED BY <1>1, <4>1, <4>3
    <3>3. QED BY <3>2 DEF Running
  <2>2. QED BY <2>1 DEF Busy
<1>7. answers' = answers
  <2>1. PICK l : l = Len(turns[c]) + 1
    OBVIOUS
  <2>2. Len(turns'[c]) = Len(turns[c]) /\ CompletedBefore(c, l)' = CompletedBefore(c, l)
    BY <1>2, GivenUpTurns
  <2>3. QED BY <2>1, <2>2
<1>8. /\ TheLog[c] = LogOf(c) /\ LogOf(c).version = session[c].version
      /\ LogOf(c).answers = answers /\ LogOf(c).busy = o
  BY <1>1, LogRead DEF TheLog
<1>9. LogOf(c)' = Promise!Entry("active", session[c].version + 1, answers, Null)
  BY <1>3, <1>6, <1>7, LogWritten
<1>10. OutcomeOf(o)' = Promise!Fate(TheOutcomes[o].conv, TheOutcomes[o].turn, verdict, {})
  BY <1>5 DEF OutcomeOf, Promise!Fate, TheOutcomes, Verdicts
<1> HIDE DEF answers
<1>11. QED BY <1>8, <1>9, <1>10

(* One conversation, or all that a stopped server left running, give up.     *)
LEMMA GiveUpKeepsPromise ==
  ASSUME StoryInv, [Next]_vars, NEW S \in SUBSET Conversations, NEW verdict \in Verdicts,
         \A c \in S : \E o \in Operations :
           operation[o].conv = c /\ operation[o].status = "running" /\ GivesUp(c, o, verdict),
         \A d \in Conversations \ S : RowsKept(d),
         \A p \in Operations : operation[p].conv \notin S => operation'[p] = operation[p]
  PROVE  Promise!GiveUp(S, verdict)
<1>1. \A c \in S :
        /\ TheLog[c].busy # Null
        /\ LogOf(c)' = Promise!Entry("active", TheLog[c].version + 1, TheLog[c].answers, Null)
  BY GivenUpEntry, NullAssumption
<1>2. \A d \in Conversations \ S : LogOf(d)' = TheLog[d]
  BY KeptLog DEF TheLog
<1>3. TheLog' = [c \in Conversations |->
                   IF c \in S THEN Promise!Entry("active", TheLog[c].version + 1,
                                                TheLog[c].answers, Null)
                   ELSE TheLog[c]]
  <2>1. TheLog' = [c \in Conversations |-> LogOf(c)']
    BY DEF TheLog
  <2>2. \A c \in Conversations :
          LogOf(c)' = IF c \in S THEN Promise!Entry("active", TheLog[c].version + 1,
                                                   TheLog[c].answers, Null)
                      ELSE TheLog[c]
    BY <1>1, <1>2
  <2>3. QED BY <2>1, <2>2, Zenon
<1>4. ASSUME NEW p \in Operations
      PROVE  OutcomeOf(p)' =
               IF \E c \in S : TheLog[c].busy = p
               THEN Promise!Fate(TheOutcomes[p].conv, TheOutcomes[p].turn, verdict, {})
               ELSE TheOutcomes[p]
  <2>1. CASE \E c \in S : TheLog[c].busy = p
    BY <2>1, GivenUpEntry
  <2>2. CASE ~\E c \in S : TheLog[c].busy = p
    <3>1. operation'[p] = operation[p]
      <4>1. CASE operation[p].conv \notin S
        BY <4>1
      <4>2. ASSUME NEW c \in S, operation[p].conv = c
            PROVE  operation'[p] = operation[p]
        <5>1. PICK o \in Operations :
                operation[o].conv = c /\ operation[o].status = "running" /\ GivesUp(c, o, verdict)
          OBVIOUS
        <5>2. p # o
          BY <2>2, <5>1, GivenUpEntry
        <5>3. QED BY <4>2, <5>1, <5>2 DEF GivesUp
      <4>3. QED BY <4>1, <4>2
    <3>2. QED BY <2>2, <3>1, KeptOutcome DEF TheOutcomes
  <2>3. QED BY <2>1, <2>2
<1>5. TheOutcomes' = [p \in Operations |->
                        IF \E c \in S : TheLog[c].busy = p
                        THEN Promise!Fate(TheOutcomes[p].conv, TheOutcomes[p].turn, verdict, {})
                        ELSE TheOutcomes[p]]
  <2>1. TheOutcomes' = [p \in Operations |-> OutcomeOf(p)']
    BY DEF TheOutcomes
  <2>2. QED BY <1>4, <2>1, Zenon
<1>6. QED BY <1>1, <1>3, <1>5 DEF Promise!GiveUp, Promise!Moved, TheLog, TheOutcomes

LEMMA RecoveryKeepsPromise ==
  ASSUME StoryInv, [Next]_vars, RecoverRunning
  PROVE  \E S \in SUBSET Conversations : Promise!GiveUp(S, "interrupted")
<1> DEFINE S == {c \in Conversations : Running(c) # {}}
<1>1. IInv' /\ "interrupted" \in Verdicts
  BY NextIInv DEF StoryInv, Verdicts
<1>2. ASSUME NEW c \in Conversations
      PROVE  \/ Running(c) = {} /\ Untouched(c)
             \/ \E o \in Operations :
                  /\ operation[o].conv = c /\ operation[o].status = "running"
                  /\ GivesUp(c, o, "interrupted")
  BY <1>1, RecoveryInterrupts
<1>3. \A c \in S : \E o \in Operations :
        operation[o].conv = c /\ operation[o].status = "running" /\ GivesUp(c, o, "interrupted")
  BY <1>2
<1>4. \A d \in Conversations \ S : RowsKept(d)
  <2>1. ASSUME NEW d \in Conversations, Running(d) = {}
        PROVE  RowsKept(d)
    <3>1. Untouched(d)
      BY <1>2, <2>1 DEF Running
    <3>2. QED BY <3>1 DEF Untouched, RowsKept
  <2>2. QED BY <2>1
<1>5. \A p \in Operations : operation[p].conv \notin S => operation'[p] = operation[p]
  <2>1. ASSUME NEW p \in Operations, operation[p].status = "running"
        PROVE  operation[p].conv \in S
    <3>1. operation[p].conv \in Conversations
      BY <2>1, RunningOperation DEF StoryInv
    <3>2. QED BY <2>1, <3>1 DEF Running
  <2>2. \A p \in Operations : operation'[p] = Settled(p)
    BY DEF RecoverRunning
  <2>3. QED BY <2>1, <2>2 DEF Settled
<1>6. S \in SUBSET Conversations
  OBVIOUS
<1> HIDE DEF S
<1>7. Promise!GiveUp(S, "interrupted")
  BY <1>1, <1>3, <1>4, <1>5, <1>6, GiveUpKeepsPromise
<1>8. QED BY <1>6, <1>7

LEMMA EndKeepsPromise ==
  ASSUME StoryInv, [Next]_vars, NEW c \in Conversations, NEW o \in Operations,
         NEW verdict \in Verdicts, Ends(c, o, verdict),
         \A d \in Conversations : d # c => RowsKept(d)
  PROVE  Promise!GiveUp({c}, verdict)
<1>1. \A p \in Operations : operation[p].conv \notin {c} => operation'[p] = operation[p]
  BY DEF Ends
<1>2. \A d \in {c} : \E p \in Operations :
        operation[p].conv = d /\ operation[p].status = "running" /\ GivesUp(d, p, verdict)
  BY DEF Ends
<1>3. {c} \in SUBSET Conversations /\ \A d \in Conversations \ {c} : RowsKept(d)
  OBVIOUS
<1>4. QED BY <1>1, <1>2, <1>3, GiveUpKeepsPromise

LEMMA ForgetKeepsPromise ==
  ASSUME StoryInv, [Next]_vars, NEW c \in Conversations, Forgets(c),
         \A d \in Conversations : d # c => RowsKept(d)
  PROVE  Promise!Forget(c)
<1>1. /\ session[c].state = "deleting" /\ session'[c] = Tombstone /\ turns'[c] = <<>>
      /\ \A p \in Operations :
           operation'[p] = IF operation[p].conv = c THEN NoOperation ELSE operation[p]
  BY DEF Forgets
<1>2. TheLog[c].state = "deleting"
  BY <1>1 DEF TheLog, LogOf
<1>3. LogOf(c)' = Promise!Entry("deleted", 0, {}, Null)
  <2>1. session'[c].state = "deleted" /\ session'[c].version = 0
    BY <1>1 DEF Tombstone
  <2>2. CompletedBefore(c, Len(turns[c]) + 1)' = {}
    BY <1>1 DEF CompletedBefore, Completed
  <2>3. Busy(c)' = Null
    <3>1. Running(c)' = {}
      BY <1>1, NullAssumption DEF Running, NoOperation
    <3>2. QED BY <3>1 DEF Busy
  <2>4. QED BY <2>1, <2>2, <2>3 DEF LogOf, Promise!Entry
<1>4. TheLog' = [TheLog EXCEPT ![c] = Promise!Entry("deleted", 0, {}, Null)]
  BY <1>3, KeptLog, LogMoves
<1>5. ASSUME NEW p \in Operations
      PROVE  OutcomeOf(p)' = IF TheOutcomes[p].conv = c THEN Promise!Unknown ELSE TheOutcomes[p]
  <2>1. TheOutcomes[p] = OutcomeOf(p) /\ OutcomeOf(p).conv = operation[p].conv
    BY DEF TheOutcomes, OutcomeOf
  <2>2. CASE operation[p].conv = c
    <3>1. /\ operation'[p].conv = Null /\ operation'[p].turn = 0
          /\ operation'[p].status = "absent"
      BY <1>1, <2>2 DEF NoOperation
    <3>2. OutcomeOf(p)' = Promise!Unknown
      BY <3>1 DEF OutcomeOf, Promise!Unknown, Promise!Fate
    <3>3. QED BY <2>1, <2>2, <3>2
  <2>3. CASE operation[p].conv # c
    BY <1>1, <2>1, <2>3, KeptOutcome
  <2>4. QED BY <2>1, <2>2, <2>3
<1>6. TheOutcomes' = [p \in Operations |->
                        IF TheOutcomes[p].conv = c THEN Promise!Unknown ELSE TheOutcomes[p]]
  <2>1. TheOutcomes' = [p \in Operations |-> OutcomeOf(p)']
    BY DEF TheOutcomes
  <2>2. QED BY <1>5, <2>1, Zenon
<1>7. QED BY <1>2, <1>4, <1>6 DEF Promise!Forget, TheLog, TheOutcomes

LEMMA StepKeepsPromise ==
  ASSUME StoryInv, [Next]_vars
  PROVE  [Promise!Next]_(Promise!vars)
<1>1. CASE RowsStay
  <2>1. \A c \in Conversations : RowsKept(c)
    BY <1>1 DEF RowsStay, RowsKept
  <2>2. TheLog' = TheLog
    BY <2>1, KeptLog DEF TheLog
  <2>3. TheOutcomes' = TheOutcomes
    BY <1>1, KeptOutcome, OutcomesStay DEF RowsStay
  <2>4. QED BY <2>2, <2>3 DEF Promise!vars, TheLog, TheOutcomes
<1>2. ASSUME NEW c \in Conversations, RowsMove(c),
             \A d \in Conversations : d # c => RowsKept(d)
      PROVE  Promise!Next
  <2>1. CASE Creates(c) \/ Versions(c)
    BY <1>2, <2>1, RequestKeepsPromise DEF Promise!Next
  <2>2. CASE Forgets(c)
    BY <1>2, <2>2, ForgetKeepsPromise DEF Promise!Next
  <2>3. ASSUME NEW o \in Operations, NEW n \in Nat, Accepts(c, o, n) \/ Replies(c, o, n)
        PROVE  Promise!Next
    BY <1>2, <2>3, AcceptKeepsPromise, AnswerKeepsPromise DEF Promise!Next
  <2>4. ASSUME NEW o \in Operations, NEW verdict \in Verdicts, Ends(c, o, verdict)
        PROVE  Promise!Next
    <3>1. Promise!GiveUp({c}, verdict) /\ {c} \in SUBSET Conversations
      BY <1>2, <2>4, EndKeepsPromise
    <3>2. QED BY <3>1 DEF Promise!Next, Verdicts
  <2>5. QED BY <1>2, <2>1, <2>2, <2>3, <2>4 DEF RowsMove
<1>3. CASE RecoverRunning
  BY <1>3, RecoveryKeepsPromise DEF Promise!Next
<1>4. QED BY <1>1, <1>2, <1>3, StepsShow

LEMMA InitKeepsPromise ==
  ASSUME Init
  PROVE  Promise!Init
<1>1. ASSUME NEW c \in Conversations
      PROVE  LogOf(c) = Promise!Nothing
  <2>1. Running(c) = {}
    BY DEF Init, Running, NoOperation
  <2>2. CompletedBefore(c, Len(turns[c]) + 1) = {}
    BY DEF Init, CompletedBefore, Completed
  <2>3. session[c].state = "absent" /\ session[c].version = 0
    BY DEF Init, NoSession
  <2>4. Busy(c) = Null
    BY <2>1 DEF Busy
  <2>5. QED BY <2>2, <2>3, <2>4, LogRead DEF Promise!Nothing
<1>2. ASSUME NEW o \in Operations
      PROVE  OutcomeOf(o) = Promise!Unknown
  BY DEF Init, OutcomeOf, NoOperation, Promise!Unknown, Promise!Fate
<1>3. QED BY <1>1, <1>2 DEF Promise!Init

(* Saved conversations implement the conversation log: for every number of   *)
(* conversations, operations, tasks and lock stripes, with cancellation at   *)
(* every await, crashes and recovery, a client sees atomic versions only, an *)
(* operation is accepted once and settles once, and each answer was given    *)
(* knowing the newest answers before it.                                     *)
THEOREM PromiseKept == Spec => KeepsPromise
<1>1. Init => Promise!Init
  BY InitKeepsPromise
<1>2. StoryInv /\ [Next]_vars => [Promise!Next]_(Promise!vars)
  BY StepKeepsPromise
<1>3. QED BY <1>1, <1>2, StoryHolds, PTL DEF Spec, KeepsPromise, Promise!Spec
=============================================================================
