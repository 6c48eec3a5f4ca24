----------------------------- MODULE AgentTurn -----------------------------
(***************************************************************************)
(* The turns of the intelligent agent on one thread: the graph from the    *)
(* pruning of old turns to the answer, node by node, with its guardrails   *)
(* (relevance, budget of model calls, exact loop detection, the graph step *)
(* limit), the tool calls of a batch running concurrently (module          *)
(* Retrieval), and what of a turn is committed to the thread.              *)
(*                                                                         *)
(* A message is its kind.  Which guardrail event routes the graph is       *)
(* decided by the latest event only, so the list of events is its last.    *)
(***************************************************************************)
EXTENDS Retrieval, Sequences, FiniteSetsExt

CONSTANTS
  MaxCalls,   \* max_llm_calls_per_query
  MaxSteps,   \* max_graph_steps_per_query, LangGraph's recursion limit
  Enabled,    \* the guardrails of the configuration that are switched on
  MaxPrior,   \* max_prior_turns
  MaxBatch,   \* bound: tool calls of one model response
  Earlier     \* messages the thread may hold from turns before those modelled

ASSUME GraphAssumption ==
  /\ Turns \subseteq Nat /\ MaxPrior \in Nat /\ MaxBatch \in Nat
  /\ MaxCalls \in Nat /\ MaxSteps \in Nat /\ MaxSteps >= 4
  /\ Enabled \subseteq {"call_budget", "loop_detection"}

VARIABLES
  thread,    \* the committed state of the thread
  state,     \* the state of the running graph
  pc,        \* the next node
  steps,     \* supersteps of this run
  turn,      \* turns started
  made,      \* history: model calls of this turn
  executed   \* history: per query, times its tool was started in this turn

graphVars == <<thread, state, pc, steps, turn, made, executed>>
vars == <<graphVars, retrievalVars>>

Kinds  == {"human", "call", "tool", "answer", "empty"}
Events == {"relevance_off_topic", "call_budget_exhausted", "exact_tool_call_duplicate",
           "tool_call_fingerprint_failed"}
ASSUME EventAssumption == Null \notin Events

(* Whole turns: the first message is the human's, no tool result has lost   *)
(* its call, and a call without a result is followed by the fail-soft       *)
(* answer of its turn.                                                      *)
WholeTurns(ms) ==
  /\ ms[1] = "human"
  /\ \A i \in DOMAIN ms :
       /\ ms[i] = "tool" => ms[i - 1] = "call"
       /\ ms[i] = "call" => i < Len(ms) /\ ms[i + 1] \in {"tool", "answer"}

(* The last of them, and each before another one, ended in an answer.       *)
Humans(ms) == {i \in DOMAIN ms : ms[i] = "human"}
Answered(ms) ==
  /\ ms[Len(ms)] = "answer"
  /\ \A i \in Humans(ms) : i = 1 \/ ms[i - 1] = "answer"

ASSUME EarlierAssumption ==
  \A ms \in Earlier : ms \in Seq(Kinds) /\ (ms # <<>> => WholeTurns(ms) /\ Answered(ms))

State == [messages: Seq(Kinds), count: Nat, history: SUBSET Queries,
          event: Events \cup {Null}, batch: [Queries -> 0..MaxBatch]]
NoBatch == [q \in Queries |-> 0]
NewThread == [messages |-> <<>>, count |-> 0, history |-> {}, event |-> Null, batch |-> NoBatch]

Batches == {b \in [Queries -> 0..MaxBatch] \ {NoBatch} :
              MapThenSumSet(LAMBDA q : b[q], Queries) <= MaxBatch}
Times(q)   == state.batch[q]
InBatch(q) == Times(q) > 0

(* One superstep of the graph: a node ran and the next one is known.  The    *)
(* recursion limit lets MaxSteps nodes run, but the tick after the last of  *)
(* them counts too, so that a run that needs them all ends in an error.     *)
Superstep(node, next, s) ==
  /\ pc = node /\ steps < MaxSteps
  /\ pc' = next /\ state' = s /\ steps' = steps + 1

Plus(s, kind) == [s EXCEPT !.messages = Append(@, kind)]

Init ==
  /\ RetrievalInit
  /\ \E earlier \in Earlier : thread = [NewThread EXCEPT !.messages = earlier]
  /\ state = NewThread /\ pc = "idle" /\ steps = 0
  /\ turn = 0 /\ made = 0 /\ executed = [q \in Queries |-> 0]

-----------------------------------------------------------------------------
(* The input of a turn replaces the counters and events of the thread's     *)
(* last one; only the messages are added to.                                *)
PayloadOverCheckpoint(s) == Plus(s, "human")              \* a mutant of the next
Payload(s) == Plus([NewThread EXCEPT !.messages = s.messages], "human")

StartTurn ==
  /\ pc = "idle" /\ turn + 1 \in Turns
  /\ turn' = turn + 1
  /\ state' = Payload(thread) /\ pc' = "prepare" /\ steps' = 0
  /\ made' = 0 /\ executed' = [q \in Queries |-> 0]
  /\ call' = [q \in Queries |-> NoCall]
  /\ UNCHANGED <<thread, reserved, stragglers, corrections>>

(* Whole turns older than the window are removed: what is left starts with  *)
(* a human message and has at most MaxPrior + 1 of them.                    *)
PrunedByLength(ms) ==                                     \* a mutant of the next
  IF Len(ms) <= 2 * MaxPrior + 1 THEN ms
  ELSE SubSeq(ms, Len(ms) - 2 * MaxPrior, Len(ms))
Pruned(ms) ==
  IF Cardinality(Humans(ms)) <= MaxPrior + 1 THEN ms
  ELSE LET first == CHOOSE i \in Humans(ms) :
                      Cardinality({j \in Humans(ms) : j >= i}) = MaxPrior + 1
       IN  SubSeq(ms, first, Len(ms))

PrepareThreadedTurn ==
  /\ Superstep("prepare", "relevance", [state EXCEPT !.messages = Pruned(@)])
  /\ UNCHANGED <<thread, turn, made, executed, retrievalVars>>

CheckRelevance ==
  /\ \/ Superstep("relevance", "redirect", [state EXCEPT !.event = "relevance_off_topic"])
     \/ Superstep("relevance", IF state.event = "relevance_off_topic" THEN "redirect"
                               ELSE "budget", state)
  /\ UNCHANGED <<thread, turn, made, executed, retrievalVars>>

RelevanceRedirect ==
  /\ Superstep("redirect", "end", Plus(state, "answer"))
  /\ UNCHANGED <<thread, turn, made, executed, retrievalVars>>

(* A model call is reserved before it is attempted, and counted even where  *)
(* the budget is switched off.                                              *)
ReservedLate == IF "call_budget" \in Enabled /\ state.count > MaxCalls   \* a mutant of the next
                     THEN [state EXCEPT !.event = "call_budget_exhausted"]
                     ELSE [state EXCEPT !.count = @ + 1]
Reserved == IF "call_budget" \in Enabled /\ state.count >= MaxCalls
            THEN [state EXCEPT !.event = "call_budget_exhausted"]
            ELSE [state EXCEPT !.count = @ + 1]

CheckModelBudget ==
  /\ Superstep("budget",
       IF Reserved.event = "call_budget_exhausted" THEN "fail_soft" ELSE "agent", Reserved)
  /\ UNCHANGED <<thread, turn, made, executed, retrievalVars>>

(* The model asks for a batch of tools or gives the answer, perhaps empty. *)
CallModel ==
  /\ \/ \E batch \in Batches :
          Superstep("agent", "loop", [Plus(state, "call") EXCEPT !.batch = batch])
     \/ \E kind \in {"answer", "empty"} : Superstep("agent", "end", Plus(state, kind))
  /\ made' = made + 1
  /\ UNCHANGED <<thread, turn, executed, retrievalVars>>

(* The whole batch is approved, or none of it.  Arguments that cannot be    *)
(* fingerprinted reject it too.  Without the detector every batch passes    *)
(* and none is remembered.                                                  *)
Duplicate == \E q \in Queries : InBatch(q) /\ (Times(q) > 1 \/ q \in state.history)

LoopVerdicts ==
  IF "loop_detection" \notin Enabled THEN {state}
  ELSE {[state EXCEPT !.event = "tool_call_fingerprint_failed"],
        IF Duplicate THEN [state EXCEPT !.event = "exact_tool_call_duplicate"]
        ELSE [state EXCEPT !.history = @ \cup {q \in Queries : InBatch(q)}]}

CheckToolLoop ==
  /\ \E s \in LoopVerdicts :
       Superstep("loop",
         IF s.event \in {"exact_tool_call_duplicate", "tool_call_fingerprint_failed"}
         THEN "fail_soft" ELSE "tools", s)
  /\ UNCHANGED <<thread, turn, made, executed, retrievalVars>>

(* The tool node starts every call of the batch and waits for all; equal    *)
(* calls of one batch, which only a missing detector lets through, are      *)
(* counted apart and followed as one.                                       *)
StartTools ==
  /\ Superstep("tools", "running", state)
  /\ call' = [q \in Queries |-> IF InBatch(q) THEN NewCall ELSE NoCall]
  /\ executed' = [q \in Queries |-> executed[q] + Times(q)]
  /\ UNCHANGED <<thread, turn, made, reserved, stragglers, corrections>>

CollectTools ==
  /\ pc = "running" /\ \A q \in Queries : InBatch(q) => call[q].outcome # Null
  /\ pc' = "budget" /\ state' = [Plus(state, "tool") EXCEPT !.batch = NoBatch]
  /\ call' = [q \in Queries |-> NoCall]
  /\ UNCHANGED <<thread, steps, turn, made, executed, reserved, stragglers, corrections>>

FailSoft ==
  /\ Superstep("fail_soft", "end", [Plus(state, "answer") EXCEPT !.batch = NoBatch])
  /\ UNCHANGED <<thread, turn, made, executed, retrievalVars>>

(* The graph ends one tick after its last node.  An empty answer is not     *)
(* committed; any other end is.                                             *)
Committable == state.messages[Len(state.messages)] # "empty"
Finish ==
  /\ pc = "end" /\ steps < MaxSteps
  /\ pc' = "idle" /\ state' = NewThread
  /\ thread' = IF Committable THEN state ELSE thread
  /\ UNCHANGED <<steps, turn, made, executed, retrievalVars>>

(* A provider error, a cancellation or the step limit ends the run without  *)
(* a commit; threads of its tools go on.                                    *)
Abandon ==
  /\ pc # "idle"
  /\ pc' = "idle" /\ state' = NewThread
  /\ stragglers' = stragglers \cup
       {<<turn, q>> : q \in {r \in Bridged : At(r, "first")}}
  /\ call' = [q \in Queries |-> NoCall]
  /\ UNCHANGED <<thread, steps, turn, made, executed, reserved, corrections>>

-----------------------------------------------------------------------------
Next ==
  \/ StartTurn \/ PrepareThreadedTurn \/ CheckRelevance \/ RelevanceRedirect
  \/ CheckModelBudget \/ CallModel \/ CheckToolLoop \/ StartTools \/ CollectTools
  \/ FailSoft \/ Finish \/ Abandon
  \/ Retrieve(turn) /\ UNCHANGED graphVars

Spec == Init /\ [][Next]_vars

-----------------------------------------------------------------------------
Nodes == {"idle", "prepare", "relevance", "redirect", "budget", "agent", "loop", "tools",
          "running", "fail_soft", "end"}

(* Every variable has the shape of the code's state. *)
TypeOK ==
  /\ RetrievalTypeOK
  /\ thread \in State /\ state \in State /\ pc \in Nodes
  /\ steps \in 0..MaxSteps /\ turn \in Nat /\ made \in Nat
  /\ executed \in [Queries -> Nat]

(* The step limit never cuts a turn short, neither before a node nor in the  *)
(* tick after the last one: four supersteps a call, four around them and     *)
(* that tick always suffice for the budget of model calls, whatever the      *)
(* model asks for (5 calls and 30 steps in app_config.yml).                  *)
StepLimitNeverHit ==
  "call_budget" \in Enabled /\ MaxSteps >= 4 * MaxCalls + 5 =>
    (pc \notin {"idle", "running"} => steps < MaxSteps)

(* No turn makes more model calls than its budget.                           *)
CallsWithinBudget == "call_budget" \in Enabled => made <= MaxCalls

(* No tool is started twice with the same arguments in one turn, in one      *)
(* batch or in different ones.                                               *)
NoToolStartedTwice == "loop_detection" \in Enabled => \A q \in Queries : executed[q] <= 1

(* The guardrails of one turn hold together, deadlines, retries and late     *)
(* threads included.                                                         *)
TurnLimits ==
  StepLimitNeverHit /\ CallsWithinBudget /\ NoToolStartedTwice /\ OneCorrectionPerRequest

(* What the tools and the graph pass on is well formed and of one pass.      *)
ResultsAgree == TypeOK /\ ArtifactsAgree

(* A fail-soft answer has a cause in its own turn: the turn spent its model  *)
(* calls, or its pending batch repeats a call of this turn or could not be   *)
(* fingerprinted; nothing left in the thread by an earlier turn ends it.     *)
FailSoftHasCause ==
  pc = "fail_soft" =>
    \/ state.event = "call_budget_exhausted" /\ made = MaxCalls
    \/ state.event = "tool_call_fingerprint_failed" /\ state.batch # NoBatch
    \/ \E q \in Queries : InBatch(q) /\ Times(q) + executed[q] > 1

(* What the model is given is at most MaxPrior + 1 whole turns.              *)
ContextIsWholeTurns ==
  pc = "agent" => WholeTurns(state.messages) /\ Cardinality(Humans(state.messages)) <= MaxPrior + 1

(* Every turn of the committed thread ends in an answer that is not empty:   *)
(* empty answers, abandoned runs and the step limit leave nothing behind.    *)
CommittedTurnsAnswered == thread.messages # <<>> => Answered(thread.messages)

(* The thread between turns and the context within one are whole turns.      *)
ThreadIsWholeTurns == ContextIsWholeTurns /\ CommittedTurnsAnswered
=============================================================================
