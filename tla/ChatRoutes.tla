----------------------------- MODULE ChatRoutes -----------------------------
(***************************************************************************)
(* The two transports of a chat request over the same execution: the       *)
(* blocking route (send_message) and the streamed one (stream_message),    *)
(* with what each refuses before it starts anything, what an execution may *)
(* end in, and how each tells its end; and the deletion of a thread.       *)
(*                                                                         *)
(* An execution is what is below the route: the reservation and the run of *)
(* a saved request (module SavedConversations), the agent's turn, the RAG  *)
(* pipeline.  Here it is one of its possible ends.                         *)
(***************************************************************************)
EXTENDS AnswerSources, ChatStream, WebSearch

CONSTANTS
  Threads,    \* thread ids
  Owned,      \* those of saved conversations
  Completed   \* those with a completed turn

ASSUME ThreadAssumption == Owned \subseteq Threads /\ Completed \subseteq Threads /\ Null \notin Threads

-----------------------------------------------------------------------------
(* What the startup left in app.state: the service needs the memory, the    *)
(* agent the model.                                                         *)
Apps == {a \in [streaming: BOOLEAN, model: BOOLEAN, agent: BOOLEAN, memory: BOOLEAN,
                service: BOOLEAN] :
           (a.service => a.memory) /\ (a.agent => a.model)}

(* A request as the schema lets it pass: the three fields of the identity   *)
(* of a saved request together, its text, no history, its own thread.       *)
Fields == {"conversation_id", "operation_id", "expected_version"}
ValidSavedContract(r) ==
  \/ r.identity = {}
  \/ /\ r.identity = Fields
     /\ r.display /\ ~r.history
     /\ r.thread \in {Null, r.conversation}
Requests ==
  {r \in [identity: SUBSET Fields, conversation: Owned, display: BOOLEAN, history: BOOLEAN,
          thread: Threads \cup {Null}, mode: {"intelligent", "rag_only"},
          action: {"append", "replace_last"}] : ValidSavedContract(r)}
IsSaved(r) == r.identity # {}

ActiveThread(a, r) ==
  IF a.memory /\ r.mode = "intelligent" THEN r.thread ELSE Null

-----------------------------------------------------------------------------
(* Executions, and what they end in: a response, an HTTP error of their     *)
(* own, a conflict of the reservation, another exception.                   *)
Returns(answer)  == [how |-> "returns", status |-> 200, answer |-> answer]
Fails(status)    == [how |-> "http", status |-> status, answer |-> Null]
Conflicts        == [how |-> "conflict", status |-> 409, answer |-> Null]
Raises           == [how |-> "raises", status |-> Null, answer |-> Null]

ReconcileSavedOperation(completed) ==
  IF completed THEN Returns("published") ELSE Fails(409)

(* A replacement without a turn to replace gets no reservation. *)
NothingToReplace(r, t) == r.action = "replace_last" /\ t \notin Completed
SavedExecutions(a, r) ==
  {Conflicts, ReconcileSavedOperation(FALSE)} \cup
  IF NothingToReplace(r, r.conversation) THEN {}
  ELSE {ReconcileSavedOperation(TRUE), Raises}   \* published or replayed; failed, unpublished

AgentExecutions(a, r) ==
  IF ActiveThread(a, r) # Null /\ NothingToReplace(r, ActiveThread(a, r)) THEN {Fails(409)}
  ELSE {Returns("finalized"), Raises}

RagExecutions(a, r) ==
  {Returns("redirect")} \cup (IF ~a.model THEN {Fails(503)} ELSE {Returns("generated"), Raises})

(* _execute_saved_rag raises without a model and records the failure. *)
SavedRagExecutions(a, r) ==
  IF a.model THEN SavedExecutions(a, r) ELSE SavedExecutions(a, r) \cup {Raises}

Executions(a, r) ==
  CASE IsSaved(r) /\ r.mode = "intelligent" -> SavedExecutions(a, r)
    [] IsSaved(r) -> SavedRagExecutions(a, r)
    [] ~IsSaved(r) /\ r.mode = "intelligent" -> AgentExecutions(a, r)
    [] OTHER -> RagExecutions(a, r)

-----------------------------------------------------------------------------
(* Both routes first: saved requests need the storage, others may not use   *)
(* the thread of a saved conversation.                                      *)
RejectsOwned(a, t)       == a.service /\ t \in Owned
Unreachable(a, r) ==
  IF IsSaved(r) THEN IF a.service THEN {} ELSE {503}
  ELSE IF RejectsOwned(a, r.thread) THEN {409} ELSE {}

First(codes) == IF codes = {} THEN Null ELSE CHOOSE c \in codes : TRUE

(* send_message refuses an intelligent request without agent. *)
SendRefusal(a, r) ==
  IF Unreachable(a, r) # {} THEN First(Unreachable(a, r))
  ELSE IF r.mode = "intelligent" /\ ~a.agent THEN 503 ELSE Null

(* stream_message checks more before the first frame: there is no status    *)
(* to change afterwards.                                                    *)
StreamPreconditionsWithoutAgent(a, r) ==                 \* a mutant of the next
  IF ~a.streaming THEN 404
  ELSE IF r.mode # "intelligent" THEN 400
  ELSE IF a.memory /\ r.thread # Null /\ NothingToReplace(r, r.thread) THEN 409
  ELSE Null
StreamPreconditions(a, r) ==
  IF ~a.streaming THEN 404
  ELSE IF r.mode # "intelligent" THEN 400
  ELSE IF ~a.agent THEN 503
  ELSE IF a.memory /\ r.thread # Null /\ NothingToReplace(r, r.thread) THEN 409
  ELSE Null
StreamRefusal(a, r) ==
  IF Unreachable(a, r) # {} THEN First(Unreachable(a, r)) ELSE StreamPreconditions(a, r)

(* The blocking reply: an exception of a saved request is an error, that of *)
(* any other is told in the answer of a normal reply.                       *)
Reply(r, e) ==
  CASE e.how = "returns"            -> [status |-> 200, answer |-> e.answer, error |-> FALSE]
    [] e.how \in {"http", "conflict"} -> [status |-> e.status, answer |-> Null, error |-> TRUE]
    [] e.how = "raises" /\ IsSaved(r) -> [status |-> 500, answer |-> Null, error |-> TRUE]
    [] OTHER                        -> [status |-> 200, answer |-> "friendly", error |-> TRUE]

DeleteThread(a, t, raises) ==
  IF RejectsOwned(a, t) THEN 409 ELSE IF a.memory /\ raises THEN 500 ELSE 204

-----------------------------------------------------------------------------
(* Requests that reach an execution, with its end. *)
Cases == UNION {UNION {{<<a, r, e>> : e \in Executions(a, r)} : r \in Requests} : a \in Apps}
Sent      == {c \in Cases : SendRefusal(c[1], c[2]) = Null}
Streamed  == {c \in Cases : StreamRefusal(c[1], c[2]) = Null}
SentWell  == {c \in Sent : Reply(c[2], c[3]).status = 200 /\ ~Reply(c[2], c[3]).error}
StreamedTo(end) == {c \in Streamed : (c[3].how = "returns") = (end = "returned")}
(* The terminal frame that tells an end of an execution as the blocking reply does. *)
Told(end) == IF StreamedTo(end) \subseteq SentWell THEN {"agent_done"}
             ELSE IF StreamedTo(end) \cap SentWell = {} THEN {"stream_error"} ELSE {}
Telling == {<<end, Told(end)>> : end \in {"returned", "failed"}}

(* A client that cannot stream loses nothing but progress.  What a stream   *)
(* accepts the blocking route runs too; an intelligent request one of them  *)
(* refuses is refused with the same status by the other, before or after it *)
(* started; and a stream ends in agent_done exactly when the blocking reply *)
(* is an answer without error, never for a friendly error message.          *)
SameOutcome ==
  /\ Streamed \subseteq Sent
  /\ \A c \in Cases :
       c[1].streaming /\ c[2].mode = "intelligent" =>
         LET refused == StreamRefusal(c[1], c[2])
         IN  /\ SendRefusal(c[1], c[2]) # Null => refused = SendRefusal(c[1], c[2])
             /\ refused # Null /\ SendRefusal(c[1], c[2]) = Null => Reply(c[2], c[3]).status = refused

(* While the storage of saved conversations is there, nothing but its own   *)
(* routes runs on, replaces a turn of or deletes their threads.             *)
OwnedThreadsUntouched ==
  /\ \A c \in Sent \cup Streamed :
       c[1].service /\ ~IsSaved(c[2]) => ActiveThread(c[1], c[2]) \notin Owned
  /\ \A a \in Apps, t \in Owned, raises \in BOOLEAN : a.service => DeleteThread(a, t, raises) = 409

(* See SameOutcome and OwnedThreadsUntouched; the terminal frame is the     *)
(* one the stream's own machinery sent.                                     *)
TransportsAgree ==
  Finished =>
    /\ <<exec, {sent[Len(sent)][2]}>> \in Telling
    /\ SameOutcome /\ OwnedThreadsUntouched

-----------------------------------------------------------------------------
(* The messages of the running turn: its prompt and what the tools that     *)
(* ended gave.                                                              *)
CONSTANTS
  Outputs,   \* per call: the tool messages it may have ended with
  Earlier,   \* what the thread may hold from before the turn
  Answers,   \* what the model may answer
  Contexts   \* chunks a RAG-only request may retrieve

Human == [from |-> "human", tool |-> Null, id |-> Null, ok |-> TRUE, lines |-> <<>>, payload |-> Null]
Turns(calls) ==
  {<<Human>> \o [i \in 1..Cardinality(calls) |-> given[SetToSeq(calls)[i]]] :
     given \in {g \in [calls -> UNION {Outputs[c] : c \in calls}] :
                  \A c \in calls : g[c] \in Outputs[c]}}

Lines(m) == ToSet(m.lines)
FoundIn(tools, kind, names) ==
  UNION {{l \in Lines(m) : l.kind = kind} : m \in {t \in ToSet(tools) : t.tool \in names}}

(* What is published ("result") is evidence of this turn.  Its sources are distinct,   *)
(* listed by the answer and found, each, by a tool that succeeded, and none *)
(* that was listed and found is left out; what a rewritten number shows is  *)
(* what every tool of the turn meant by the number the model wrote; and     *)
(* nothing of an earlier turn, or of a tool that failed, changes any of it. *)
Grounded(answer, turn, result) ==
  LET tools     == SelectSeq(turn, LAMBDA m : m.from = "tool" /\ m.ok)
      documents == {Target(l) : l \in FoundIn(tools, "header", RAG_SOURCE_TOOLS)}
      urls      == {l.url : l \in FoundIn(tools, "result", WEB_SEARCH_TOOLS)}
      published == {s \in ToSet(result.sources) : s.kind = "document"}
  IN  /\ IsInjective(result.sources) /\ IsInjective(result.web)
      /\ {s.target : s \in published} = {d \in documents : d.key \in SelectedKeys(answer)}
      /\ ToSet(result.web) = urls \cap SelectedUrls(answer)
      /\ \A s \in ToSet(result.sources) \ published :
           /\ s.kind \in SelectedLabels(answer)
           /\ s.kind # "user_provided" =>
                \E m \in ToSet(tools) : /\ m.tool \in PERSONAL_SOURCE_TOOLS[s.kind]
                                        /\ m.payload # Null /\ m.payload.filled \ Status # {} /\ ~m.payload.failed
      /\ \A i \in DOMAIN result.body : result.body[i].kind = "marker" =>
           \A mark \in ToSet(result.body[i].numbers) :
             /\ result.sources[mark.to].kind = "document"
             /\ \A m \in ToSet(tools) : \A l \in Lines(m) :
                  l.number = mark.from /\ m.tool \in RAG_SOURCE_TOOLS \cup WEB_SEARCH_TOOLS =>
                    l.kind = "header" /\ Target(l) = result.sources[mark.to].target
GroundedAfter(answer, turn) ==
  \E result \in {FinalizeIntelligentSources(answer, turn)} :
    /\ Grounded(answer, turn, result)
    /\ \A earlier \in Earlier : FinalizeIntelligentSources(answer, earlier \o turn) = result

(* The number a RAG-only answer cites is that of a chunk it was shown, and  *)
(* the sources it is published with are those of the numbers it cites.      *)
RagGrounded(answer, chunks) ==
  \A line \in ToSet(Context(chunks)) :
    line.number \in CitedNumbers(answer) =>
      [name |-> line.file.stem, page |-> PageOf(line)] \in ToSet(RagSources(answer, chunks))

Evidence ==
  {<<calls, \A answer \in Answers, turn \in Turns(calls) : GroundedAfter(answer, turn)>> : calls \in SUBSET Calls}
RagEvidence == \A answer \in Answers, chunks \in Contexts : RagGrounded(answer, chunks)

(* See Grounded and RagGrounded, for the tool calls of this execution. *)
SourcesAreEvidence ==
  exec = "returned" => <<{c \in Calls : tool[c] = "ended"}, TRUE>> \in Evidence /\ RagEvidence

(* See RunsKeepTheirWord, for the web searches of this and earlier turns. *)
SearchesKeepTheirWord == exec = "returned" => RunsKeepTheirWord
=============================================================================
