----------------------------- MODULE ChatStream -----------------------------
(***************************************************************************)
(* One streamed chat request: the execution task with its tool calls, the  *)
(* bounded progress queue, the reader task that waits on the queue, and    *)
(* the generator that turns both into frames for the client               *)
(* (_stream_agent_events, ToolProgressReporter).                           *)
(*                                                                         *)
(* The generator runs from one suspension to the next in one step: it is   *)
(* suspended in `yield` while a frame is sent, or in asyncio.wait.  The    *)
(* reader task outlives a heartbeat, so it may take an event while the     *)
(* generator is suspended in a yield.  Heartbeats are comments and carry   *)
(* no frame.  The disconnected client closes the generator, which cancels  *)
(* and awaits both tasks.                                                  *)
(***************************************************************************)
EXTENDS Integers, Sequences, FiniteSets

CONSTANTS
  Calls,     \* tool calls of the execution
  Capacity,  \* DEFAULT_TOOL_PROGRESS_CAPACITY
  Null

ASSUME CapacityAssumption == Capacity \in Nat \ {0}
ASSUME NullAssumption == Null \notin Calls

VARIABLES
  tool,     \* per call: new, running, ended
  exec,     \* the execution task
  queue,    \* progress events nobody took yet
  dropped,  \* events refused by the full queue (dropped_count)
  reader,   \* the reader task: none, ready to run, waiting, done
  held,     \* the event the reader took, if it did
  pc,       \* where the generator is suspended: yield, wait; or closing, closed
  sent,     \* frames given to the client
  gone      \* the client disconnected

vars == <<tool, exec, queue, dropped, reader, held, pc, sent, gone>>

Event     == Calls \X {"started", "finished"}
Terminals == {<<Null, "agent_done">>, <<Null, "stream_error">>}
Over      == {"returned", "failed", "cancelled"}

ExecutionDone == exec \in Over
ReaderDone    == reader = "done"
Finished      == sent # <<>> /\ sent[Len(sent)] \in Terminals

-----------------------------------------------------------------------------
(* ToolProgressReporter *)

Offer(e) ==
  \/ /\ Len(queue) < Capacity
     /\ queue' = Append(queue, e)
     /\ reader' = IF reader = "waiting" THEN "ready" ELSE reader
     /\ UNCHANGED dropped
  \/ /\ Len(queue) >= Capacity
     /\ dropped' = dropped \cup {e}
     /\ UNCHANGED <<queue, reader>>

ToolStarts(c) ==
  /\ exec = "running" /\ tool[c] = "new"
  /\ tool' = [tool EXCEPT ![c] = "running"]
  /\ Offer(<<c, "started">>)
  /\ UNCHANGED <<exec, held, pc, sent, gone>>

ToolFinishes(c) ==
  /\ exec = "running" /\ tool[c] = "running"
  /\ tool' = [tool EXCEPT ![c] = "ended"]
  /\ Offer(<<c, "finished">>)
  /\ UNCHANGED <<exec, held, pc, sent, gone>>

(* The graph awaits its tool calls; a failure cancels what still runs, and  *)
(* a cancelled call offers no event.                                        *)
ExecutionEnds ==
  /\ \/ exec = "running" /\ exec' = "returned" /\ \A c \in Calls : tool[c] # "running"
     \/ exec = "running" /\ exec' = "failed"
     \/ exec = "cancelling" /\ exec' \in {"cancelled", "failed"}
  /\ UNCHANGED <<tool, queue, dropped, reader, held, pc, sent, gone>>

(* asyncio.Queue.get: a woken reader may find the queue empty again. *)
PeekEvent ==   \* a mutant of the next
  /\ reader = "ready"
  /\ IF queue = <<>> THEN reader' = "waiting" /\ UNCHANGED held
                     ELSE reader' = "done" /\ held' = <<Head(queue)>>
  /\ UNCHANGED <<tool, exec, queue, dropped, pc, sent, gone>>

ReadEvent ==
  /\ reader = "ready"
  /\ IF queue = <<>> THEN reader' = "waiting" /\ UNCHANGED <<queue, held>>
                     ELSE reader' = "done" /\ held' = <<Head(queue)>> /\ queue' = Tail(queue)
  /\ UNCHANGED <<tool, exec, dropped, pc, sent, gone>>

-----------------------------------------------------------------------------
(* The generator.  Loop: one pass of the while loop, from its head to the   *)
(* next suspension.                                                         *)

Yield(frame) == sent' = Append(sent, frame) /\ pc' = "yield"

PendingFirst ==
  /\ queue # <<>> /\ Yield(Head(queue)) /\ queue' = Tail(queue)
  /\ UNCHANGED <<reader, held>>

Terminate ==
  /\ queue = <<>> /\ ExecutionDone
  /\ Yield(<<Null, IF exec = "returned" THEN "agent_done" ELSE "stream_error">>)
  /\ UNCHANGED <<queue, reader, held>>

Wait ==
  /\ queue = <<>> /\ ~ExecutionDone
  /\ reader' = IF reader = "none" THEN "ready" ELSE reader
  /\ pc' = "wait"
  /\ UNCHANGED <<queue, held, sent>>

Loop == PendingFirst \/ Terminate \/ Wait

CloseLeavingExecution ==   \* a mutant of the next
  /\ pc' = "closing"
  /\ reader' = IF ReaderDone THEN reader ELSE "none"
  /\ UNCHANGED <<exec, queue, held, sent>>

Close ==
  /\ pc' = "closing"
  /\ reader' = IF ReaderDone THEN reader ELSE "none"
  /\ exec' = IF ExecutionDone THEN exec ELSE "cancelling"
  /\ UNCHANGED <<queue, held, sent>>

ResumeForgetful ==   \* a mutant of the next
  /\ pc = "yield" /\ Loop
  /\ UNCHANGED <<tool, exec, dropped, gone>>

ResumeYield ==
  /\ pc = "yield"
  /\ IF Finished THEN Close ELSE Loop /\ UNCHANGED exec
  /\ UNCHANGED <<tool, dropped, gone>>

(* asyncio.wait returned: the reader's event, the execution, or a timeout.  *)
ResumeWait ==
  /\ pc = "wait"
  /\ \/ /\ ReaderDone
        /\ Yield(held[1]) /\ reader' = "none" /\ held' = <<>> /\ UNCHANGED queue
     \/ ~ReaderDone /\ ExecutionDone /\ Loop
     \/ ~ReaderDone /\ ~ExecutionDone /\ pc' = "yield" /\ UNCHANGED <<queue, reader, held, sent>>
  /\ UNCHANGED <<tool, exec, dropped, gone>>

Disconnect ==
  /\ pc \in {"yield", "wait"}
  /\ gone' = TRUE
  /\ Close
  /\ UNCHANGED <<tool, dropped>>

Closed ==
  /\ pc = "closing" /\ ExecutionDone
  /\ pc' = "closed"
  /\ UNCHANGED <<tool, exec, queue, dropped, reader, held, sent, gone>>

-----------------------------------------------------------------------------
Init ==
  /\ tool = [c \in Calls |-> "new"] /\ exec = "running"
  /\ queue = <<>> /\ dropped = {} /\ reader = "ready" /\ held = <<>>
  /\ pc = "wait" /\ sent = <<>> /\ gone = FALSE

Generator == ResumeYield \/ ResumeWait \/ Closed

Next ==
  \/ \E c \in Calls : ToolStarts(c) \/ ToolFinishes(c)
  \/ ExecutionEnds \/ ReadEvent \/ Generator \/ Disconnect

Spec == Init /\ [][Next]_vars

(* The loop runs what is ready, a connected client takes its frames, and a  *)
(* cancelled execution unwinds; a running execution owes nothing.           *)
Unwinds == exec = "cancelling" /\ ExecutionEnds
FairSpec ==
  Spec /\ WF_vars(ReadEvent) /\ WF_vars(ResumeYield) /\ WF_vars(ResumeWait)
       /\ WF_vars(Closed) /\ WF_vars(Unwinds)

-----------------------------------------------------------------------------
(* Every variable keeps its type, and a client that does not read never     *)
(* makes the queue grow past its capacity (ToolProgressReporter._offer).    *)
TypeOK ==
  /\ tool \in [Calls -> {"new", "running", "ended"}]
  /\ exec \in {"running", "cancelling"} \cup Over
  /\ queue \in Seq(Event) /\ Len(queue) <= Capacity
  /\ dropped \subseteq Event
  /\ reader \in {"none", "ready", "waiting", "done"}
  /\ held \in {<<>>} \cup {<<e>> : e \in Event} /\ (ReaderDone <=> held # <<>>)
  /\ pc \in {"yield", "wait", "closing", "closed"}
  /\ sent \in Seq(Event \cup Terminals)
  /\ gone \in BOOLEAN

Offered == {<<c, "started">> : c \in {d \in Calls : tool[d] # "new"}}
             \cup {<<c, "finished">> : c \in {d \in Calls : tool[d] = "ended"}}
CountIn(e, s) == Cardinality({i \in DOMAIN s : s[i] = e})
One(b) == IF b THEN 1 ELSE 0

(* The reader task and the generator both take events from one queue:       *)
(* between them no event is shown twice, invented or silently forgotten in  *)
(* the queue's hands; each offered one is in exactly one place.             *)
EventsConserved ==
  \A e \in Event :
    CountIn(e, sent) + CountIn(e, queue) + CountIn(e, held) + One(e \in dropped)
      = One(e \in Offered)

(* The stream at every await: the progress queue never exceeds its capacity, *)
(* whatever the client reads, and every offered event is in one place.       *)
StreamInvariant == TypeOK /\ EventsConserved

(* "exactly one terminal event for a connected run": it is the last frame,  *)
(* it tells how the execution ended, it follows all progress still queued,  *)
(* and the stream of a connected client does not end without it.            *)
ExactlyOneTerminal ==
  /\ \A i \in DOMAIN sent : sent[i] \in Terminals => i = Len(sent)
  /\ Finished => exec = (IF sent[Len(sent)][2] = "agent_done" THEN "returned" ELSE "failed")
                 /\ queue = <<>>
  /\ pc \in {"closing", "closed"} /\ ~gone => Finished

(* A connected client gets the outcome of the execution once there is one,  *)
(* whatever heartbeats, queued progress and the reader are doing.           *)
AnswerArrives == exec \in {"returned", "failed"} ~> (Finished \/ gone)

(* A disconnect ends the whole run: the tasks are cancelled, awaited, and   *)
(* nothing of the request goes on (the finally block).                      *)
DisconnectEndsRun == gone ~> (pc = "closed" /\ ExecutionDone /\ reader \in {"none", "done"})

(* Connected or not, a stream whose execution is over or whose client left  *)
(* comes to its end.                                                        *)
StreamsEnd == AnswerArrives /\ DisconnectEndsRun
=============================================================================
