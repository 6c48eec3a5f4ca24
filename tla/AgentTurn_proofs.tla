--------------------------- MODULE AgentTurn_proofs ---------------------------
(* Proofs about AgentTurn, for any queries, any batches of tool calls, any     *)
(* budget of model calls, any step limit and any choice of guardrails: no turn *)
(* overspends its budget, nor reaches a step limit that leaves that budget     *)
(* room, nor starts a tool twice past the detector, nor is corrected twice; a  *)
(* fail-soft answer has a cause in its own turn, the thread stays one of whole *)
(* turns, and results describe one pass.                                       *)
EXTENDS AgentTurn, FiniteSetTheorems, SequenceTheorems, WellFoundedInduction, TLAPS

InBudget(calls) == "call_budget" \in Enabled => calls <= MaxCalls

(* What the proofs need of the graph's state; its messages play no part.       *)
Shaped(s) ==
  /\ s = [messages |-> s.messages, count |-> s.count, history |-> s.history,
          event |-> s.event, batch |-> s.batch]
  /\ s.count \in Nat /\ InBudget(s.count) /\ s.history \in SUBSET Queries
  /\ s.batch \in [Queries -> 0..MaxBatch]

(* How many supersteps a node is reached after, given the model calls.         *)
Paced ==
  /\ pc = "prepare" => steps = 0 /\ state.count = 0
  /\ pc = "relevance" => steps = 1 /\ state.count = 0
  /\ pc = "redirect" => steps = 2
  /\ pc = "budget" => steps = 4 * state.count + 2
  /\ pc = "agent" => steps + 1 = 4 * state.count
  /\ pc = "loop" => steps = 4 * state.count
  /\ pc = "tools" => steps = 4 * state.count + 1
  /\ pc = "running" => steps = 4 * state.count + 2
  /\ pc = "fail_soft" => steps <= 4 * state.count + 3
  /\ pc = "end" => steps <= 4 * state.count + 4

(* The history the detector approves is what was started, or is about to be.   *)
Approved == "loop_detection" \in Enabled =>
  /\ pc \in {"prepare", "relevance"} => state.history = {} /\ \A q \in Queries : executed[q] = 0
  /\ pc \in {"budget", "agent", "loop", "running", "fail_soft"} =>
       \A q \in Queries : executed[q] = IF q \in state.history THEN 1 ELSE 0
  /\ pc = "tools" =>
       \A q \in Queries : /\ Times(q) <= 1
                          /\ executed[q] + Times(q) = IF q \in state.history THEN 1 ELSE 0

(* The count of reserved calls is that of the calls made, and events and       *)
(* pending batches are those of the turn.                                      *)
Attributed ==
  /\ pc \in {"prepare", "relevance"} => made = 0 /\ state.event = Null
  /\ pc \in {"budget", "loop", "tools", "running", "fail_soft"} => made = state.count
  /\ pc = "agent" => made + 1 = state.count
  /\ pc \in {"budget", "agent", "loop", "tools", "running"} =>
       state.event \notin {"call_budget_exhausted", "exact_tool_call_duplicate",
                           "tool_call_fingerprint_failed"}
  /\ pc = "loop" => state.batch # NoBatch

Budgeted ==
  /\ reserved \in [Turns -> 0..1] /\ corrections = reserved

IInv ==
  /\ Shaped(state) /\ pc \in Nodes /\ steps \in Nat /\ made \in Nat /\ InBudget(made)
  /\ executed \in [Queries -> Nat]
  /\ "loop_detection" \in Enabled => \A q \in Queries : executed[q] <= 1
  /\ Paced /\ Approved /\ Attributed /\ FailSoftHasCause /\ Budgeted

-----------------------------------------------------------------------------
LEMMA ShapedPlus ==
  ASSUME NEW s, Shaped(s), NEW kind
  PROVE  /\ Shaped(Plus(s, kind))
         /\ Plus(s, kind).count = s.count /\ Plus(s, kind).history = s.history
         /\ Plus(s, kind).event = s.event /\ Plus(s, kind).batch = s.batch
<1> DEFINE p == [messages |-> Append(s.messages, kind), count |-> s.count,
                 history |-> s.history, event |-> s.event, batch |-> s.batch]
<1>1. Plus(s, kind) = p
  <2>1. s = [messages |-> s.messages, count |-> s.count, history |-> s.history,
             event |-> s.event, batch |-> s.batch]
    BY DEF Shaped
  <2>2. DOMAIN s = DOMAIN p
    BY <2>1
  <2> DEFINE more == Append(s.messages, kind)
  <2> HIDE DEF more
  <2>3. [s EXCEPT !.messages = more] =
        [messages |-> more, count |-> s.count, history |-> s.history,
         event |-> s.event, batch |-> s.batch]
    BY <2>1
  <2>4. QED BY <2>3 DEF Plus, more
<1>2. QED BY <1>1 DEF Shaped

LEMMA NewTurn ==
  ASSUME NEW messages
  PROVE  LET s == [NewThread EXCEPT !.messages = messages]
         IN  Shaped(s) /\ s.count = 0 /\ s.history = {} /\ s.event = Null /\ s.batch = NoBatch
<1> DEFINE s == [NewThread EXCEPT !.messages = messages]
<1>1. s = [messages |-> messages, count |-> 0, history |-> {}, event |-> Null, batch |-> NoBatch]
  BY DEF NewThread
<1>2. NoBatch \in [Queries -> 0..MaxBatch] /\ MaxCalls \in Nat
  BY GraphAssumption DEF NoBatch
<1>3. QED BY <1>1, <1>2 DEF Shaped, InBudget

(* The draws of retrieval leave the graph alone and spend the budget once.     *)
LEMMA RetrieveKeepsBudget ==
  ASSUME Budgeted, NEW t, Retrieve(t)
  PROVE  Budgeted'
<1>1. ASSUME NEW u, MayReserve(u), Reserve(u) PROVE Budgeted'
  <2>1. CASE u \in Turns
    BY <1>1, <2>1 DEF Budgeted, MayReserve, Reserve
  <2>2. CASE u \notin Turns
    BY <1>1, <2>2 DEF Budgeted, MayReserve, Reserve
  <2>3. QED BY <2>1, <2>2
<1>2. CASE UNCHANGED <<reserved, corrections>>
  BY <1>2 DEF Budgeted
<1>3. \/ \E u : MayReserve(u) /\ Reserve(u)
      \/ UNCHANGED <<reserved, corrections>>
  <2>1. ASSUME NEW q \in Queries, FirstPass(q, t) PROVE <1>3!1 \/ <1>3!2
    BY <2>1 DEF FirstPass
  <2>2. ASSUME NEW q \in Queries, Correct(q) \/ Return(q) \/ Expire(q, t) PROVE <1>3!2
    BY <2>2 DEF Correct, Return, Expire
  <2>3. ASSUME NEW u \in Turns, NEW q \in Queries, Straggle(u, q) PROVE <1>3!1 \/ <1>3!2
    BY <2>3 DEF Straggle
  <2>4. QED BY <2>1, <2>2, <2>3 DEF Retrieve
<1>4. QED BY <1>1, <1>2, <1>3

LEMMA InitInvariant == Init => IInv
<1> SUFFICES ASSUME Init PROVE IInv
  OBVIOUS
<1>1. Shaped(state)
  BY GraphAssumption DEF Init, Shaped, InBudget, NewThread, NoBatch
<1>2. Budgeted
  BY DEF Init, RetrievalInit, Budgeted
<1>3. QED
  BY <1>1, <1>2, GraphAssumption DEF Init, IInv, InBudget, Nodes, Paced, Approved, Attributed, FailSoftHasCause

(* Between turns nothing is claimed of the graph.                              *)
LEMMA IdleKeeps ==
  ASSUME IInv, pc' = "idle", state' = NewThread,
         UNCHANGED <<steps, made, executed, reserved, corrections>>
  PROVE  IInv'
<1>1. Shaped(state')
  BY GraphAssumption DEF Shaped, InBudget, NewThread, NoBatch
<1>2. QED
  BY <1>1 DEF IInv, Shaped, Nodes, Paced, Approved, Attributed, FailSoftHasCause, Budgeted

LEMMA BudgetKeeps ==
  ASSUME IInv, CheckModelBudget
  PROVE  IInv'
<1>1. /\ pc = "budget" /\ Shaped(state) /\ state.count \in Nat /\ MaxCalls \in Nat
      /\ InBudget(state.count) /\ made = state.count /\ steps = 4 * state.count + 2
      /\ state.event # "call_budget_exhausted"
  BY GraphAssumption DEF IInv, CheckModelBudget, Superstep, Shaped, Paced, Attributed
<1>2. /\ state' = Reserved /\ steps' = steps + 1 /\ made' = made /\ executed' = executed
      /\ pc' = IF Reserved.event = "call_budget_exhausted" THEN "fail_soft" ELSE "agent"
      /\ UNCHANGED retrievalVars
  BY DEF CheckModelBudget, Superstep
<1>3. CASE "call_budget" \in Enabled /\ state.count >= MaxCalls
  <2>1. state' = [state EXCEPT !.event = "call_budget_exhausted"]
    BY <1>2, <1>3 DEF Reserved
  <2>2. /\ Shaped(state') /\ state'.count = state.count /\ state'.history = state.history
        /\ state'.event = "call_budget_exhausted" /\ state'.batch = state.batch
    BY <1>1, <2>1 DEF Shaped
  <2>3. pc' = "fail_soft" /\ state.count = MaxCalls
    BY <1>1, <1>2, <1>3, <2>1, <2>2 DEF InBudget
  <2>4. Paced' /\ Attributed' /\ FailSoftHasCause'
    BY <1>1, <1>2, <2>2, <2>3 DEF Paced, Attributed, FailSoftHasCause
  <2>5. Approved'
    BY <1>1, <1>2, <2>2, <2>3 DEF IInv, Approved
  <2>6. QED
    BY <1>1, <1>2, <2>2, <2>3, <2>4, <2>5 DEF IInv, Shaped, Nodes, Budgeted, retrievalVars
<1>4. CASE ~("call_budget" \in Enabled /\ state.count >= MaxCalls)
  <2>1. state' = [state EXCEPT !.count = @ + 1]
    BY <1>2, <1>4 DEF Reserved
  <2>2. /\ Shaped(state') /\ state'.count = state.count + 1 /\ state'.history = state.history
        /\ state'.event = state.event /\ state'.batch = state.batch
    BY <1>1, <1>4, <2>1 DEF Shaped, InBudget
  <2>3. pc' = "agent"
    BY <1>1, <1>2, <2>1, <2>2
  <2>4. Paced' /\ Approved' /\ FailSoftHasCause'
    BY <1>1, <1>2, <2>2, <2>3 DEF IInv, Paced, Approved, FailSoftHasCause
  <2>5. Attributed'
    BY <1>1, <1>2, <2>2, <2>3 DEF IInv, Attributed
  <2>6. QED
    BY <1>1, <1>2, <2>2, <2>3, <2>4, <2>5 DEF IInv, Shaped, Nodes, Budgeted, retrievalVars
<1>5. QED BY <1>3, <1>4

LEMMA CallModelKeeps ==
  ASSUME IInv, CallModel
  PROVE  IInv'
<1>1. /\ pc = "agent" /\ Shaped(state) /\ state.count \in Nat
      /\ made + 1 = state.count /\ made \in Nat /\ steps + 1 = 4 * state.count
      /\ InBudget(made + 1)
      /\ made' = made + 1 /\ steps' = steps + 1 /\ executed' = executed
      /\ UNCHANGED retrievalVars
  BY DEF IInv, CallModel, Superstep, Shaped, Paced, Attributed
<1>2. CASE \E batch \in Batches :
             Superstep("agent", "loop", [Plus(state, "call") EXCEPT !.batch = batch])
  <2>1. PICK batch \in Batches : state' = [Plus(state, "call") EXCEPT !.batch = batch] /\ pc' = "loop"
    BY <1>2 DEF Superstep
  <2>2. batch \in [Queries -> 0..MaxBatch] /\ batch # NoBatch
    BY <2>1 DEF Batches
  <2>3. /\ Shaped(state') /\ state'.count = state.count /\ state'.history = state.history
        /\ state'.event = state.event /\ state'.batch = batch
    BY <1>1, <2>1, <2>2, ShapedPlus DEF Shaped
  <2>4. Paced' /\ Approved' /\ FailSoftHasCause'
    BY <1>1, <2>1, <2>3 DEF IInv, Paced, Approved, FailSoftHasCause
  <2>5. Attributed'
    BY <1>1, <2>1, <2>2, <2>3 DEF IInv, Attributed
  <2>6. QED
    BY <1>1, <2>1, <2>3, <2>4, <2>5 DEF IInv, Shaped, Nodes, Budgeted, retrievalVars
<1>3. CASE \E kind \in {"answer", "empty"} : Superstep("agent", "end", Plus(state, kind))
  <2>1. Shaped(state') /\ state'.count = state.count /\ pc' = "end"
    BY <1>1, <1>3, ShapedPlus DEF Superstep
  <2>2. QED
    BY <1>1, <2>1 DEF IInv, Shaped, Nodes, Paced, Approved, Attributed, FailSoftHasCause,
                      Budgeted, retrievalVars
<1>4. QED BY <1>2, <1>3 DEF CallModel

LEMMA LoopKeeps ==
  ASSUME IInv, CheckToolLoop
  PROVE  IInv'
<1>1. /\ pc = "loop" /\ Shaped(state) /\ state.count \in Nat
      /\ made = state.count /\ steps = 4 * state.count
      /\ state.event \notin {"call_budget_exhausted", "exact_tool_call_duplicate",
                             "tool_call_fingerprint_failed"}
      /\ state.batch # NoBatch /\ state.batch \in [Queries -> 0..MaxBatch] /\ MaxBatch \in Nat
      /\ "loop_detection" \in Enabled =>
           \A q \in Queries : executed[q] = IF q \in state.history THEN 1 ELSE 0
      /\ steps' = steps + 1 /\ made' = made /\ executed' = executed
      /\ UNCHANGED retrievalVars
  BY GraphAssumption DEF IInv, CheckToolLoop, Superstep, Shaped, Paced, Approved, Attributed
<1>2. PICK s \in LoopVerdicts :
        /\ state' = s
        /\ pc' = IF s.event \in {"exact_tool_call_duplicate", "tool_call_fingerprint_failed"}
                 THEN "fail_soft" ELSE "tools"
  BY DEF CheckToolLoop, Superstep
<1> DEFINE event == IF s = [state EXCEPT !.event = "tool_call_fingerprint_failed"]
                    THEN "tool_call_fingerprint_failed" ELSE "exact_tool_call_duplicate"
<1>3. CASE "loop_detection" \notin Enabled
  <2>1. state' = state /\ pc' = "tools"
    BY <1>1, <1>2, <1>3 DEF LoopVerdicts
  <2>2. Paced' /\ Approved' /\ Attributed' /\ FailSoftHasCause'
    BY <1>1, <1>3, <2>1 DEF Paced, Approved, Attributed, FailSoftHasCause
  <2>3. QED
    BY <1>1, <1>3, <2>1, <2>2 DEF IInv, Nodes, Budgeted, retrievalVars
<1>4. CASE /\ "loop_detection" \in Enabled
           /\ s = [state EXCEPT !.event = "tool_call_fingerprint_failed"] \/ Duplicate
  <2>1. s = [state EXCEPT !.event = event]
    BY <1>2, <1>4 DEF LoopVerdicts
  <2>2. /\ Shaped(state') /\ state'.count = state.count /\ state'.history = state.history
        /\ state'.event = event /\ state'.batch = state.batch
    BY <1>1, <1>2, <2>1 DEF Shaped
  <2>3. pc' = "fail_soft"
    BY <1>2, <2>2
  <2>4. Paced' /\ Approved' /\ Attributed'
    BY <1>1, <1>4, <2>2, <2>3 DEF Paced, Approved, Attributed
  <2>5. FailSoftHasCause'
    <3>1. CASE event = "tool_call_fingerprint_failed"
      BY <1>1, <2>2, <3>1 DEF FailSoftHasCause
    <3>2. CASE Duplicate
      <4>1. PICK q \in Queries : InBatch(q) /\ (Times(q) > 1 \/ q \in state.history)
        BY <3>2 DEF Duplicate
      <4>2. state'.batch[q] > 0 /\ state'.batch[q] + executed'[q] > 1
        BY <1>1, <1>4, <2>2, <4>1 DEF InBatch, Times
      <4>3. QED BY <4>2 DEF FailSoftHasCause, InBatch, Times
    <3>3. QED BY <1>4, <3>1, <3>2
  <2>6. QED
    BY <1>1, <2>2, <2>3, <2>4, <2>5 DEF IInv, Shaped, Nodes, Budgeted, retrievalVars
<1>5. CASE /\ "loop_detection" \in Enabled
           /\ s # [state EXCEPT !.event = "tool_call_fingerprint_failed"] /\ ~Duplicate
  <2>1. s = [state EXCEPT !.history = @ \cup {q \in Queries : InBatch(q)}]
    BY <1>2, <1>5 DEF LoopVerdicts
  <2>2. /\ Shaped(state') /\ state'.count = state.count
        /\ state'.history = state.history \cup {q \in Queries : InBatch(q)}
        /\ state'.event = state.event /\ state'.batch = state.batch
    BY <1>1, <1>2, <2>1 DEF Shaped
  <2>3. pc' = "tools"
    BY <1>1, <1>2, <2>2
  <2>4. Paced' /\ Attributed' /\ FailSoftHasCause'
    BY <1>1, <2>2, <2>3 DEF Paced, Attributed, FailSoftHasCause
  <2>5. Approved'
    <3>1. ASSUME NEW q \in Queries
          PROVE  /\ state'.batch[q] <= 1
                 /\ executed'[q] + state'.batch[q] = IF q \in state'.history THEN 1 ELSE 0
      <4>1. InBatch(q) => ~(Times(q) > 1) /\ q \notin state.history
        BY <1>5 DEF Duplicate
      <4>2. QED BY <1>1, <1>5, <2>2, <4>1 DEF InBatch, Times
    <3>2. QED BY <2>3, <3>1 DEF Approved, Times
  <2>6. QED
    BY <1>1, <2>2, <2>3, <2>4, <2>5 DEF IInv, Shaped, Nodes, Budgeted, retrievalVars
<1>6. QED BY <1>3, <1>4, <1>5

LEMMA StartToolsKeeps ==
  ASSUME IInv, StartTools
  PROVE  IInv'
<1>1. /\ pc = "tools" /\ pc' = "running" /\ state' = state /\ steps' = steps + 1
      /\ made' = made /\ UNCHANGED <<reserved, corrections>>
      /\ executed' = [q \in Queries |-> executed[q] + Times(q)]
  BY DEF StartTools, Superstep
<1>2. "loop_detection" \in Enabled =>
        \A q \in Queries : executed'[q] = IF q \in state.history THEN 1 ELSE 0
  BY <1>1 DEF IInv, Approved, Times
<1>3. /\ executed' \in [Queries -> Nat]
      /\ "loop_detection" \in Enabled => \A q \in Queries : executed'[q] <= 1
  <2>1. \A q \in Queries : Times(q) \in Nat
    BY GraphAssumption DEF IInv, Shaped, Times
  <2>2. QED BY <1>1, <1>2, <2>1 DEF IInv
<1>4. Paced' /\ Approved' /\ Attributed' /\ FailSoftHasCause'
  BY <1>1, <1>2 DEF IInv, Paced, Shaped, Approved, Attributed, FailSoftHasCause
<1>5. QED BY <1>1, <1>3, <1>4 DEF IInv, Shaped, Nodes, Budgeted

LEMMA CollectToolsKeeps ==
  ASSUME IInv, CollectTools
  PROVE  IInv'
<1>1. /\ pc = "running" /\ pc' = "budget" /\ UNCHANGED <<steps, made, executed, reserved, corrections>>
      /\ state' = [Plus(state, "tool") EXCEPT !.batch = NoBatch]
  BY DEF CollectTools
<1>2. NoBatch \in [Queries -> 0..MaxBatch]
  BY GraphAssumption DEF NoBatch
<1>3. /\ Shaped(state') /\ state'.count = state.count /\ state'.history = state.history
      /\ state'.event = state.event
  BY <1>1, <1>2, ShapedPlus DEF IInv, Shaped
<1>4. Paced' /\ Approved' /\ Attributed' /\ FailSoftHasCause'
  BY <1>1, <1>3 DEF IInv, Paced, Approved, Attributed, FailSoftHasCause
<1>5. QED BY <1>1, <1>3, <1>4 DEF IInv, Shaped, Nodes, Budgeted

LEMMA StartTurnKeeps ==
  ASSUME IInv, StartTurn
  PROVE  IInv'
<1>1. /\ pc' = "prepare" /\ steps' = 0 /\ made' = 0 /\ executed' = [q \in Queries |-> 0]
      /\ state' = Payload(thread) /\ UNCHANGED <<reserved, corrections>>
  BY DEF StartTurn
<1>2. Shaped(state') /\ state'.count = 0 /\ state'.history = {} /\ state'.event = Null
  <2> DEFINE s == [NewThread EXCEPT !.messages = thread.messages]
  <2>1. Shaped(s) /\ s.count = 0 /\ s.history = {} /\ s.event = Null
    BY NewTurn
  <2>2. state' = Plus(s, "human")
    BY <1>1 DEF Payload
  <2> HIDE DEF s
  <2>3. QED BY <2>1, <2>2, ShapedPlus
<1>3. Paced' /\ Approved' /\ Attributed' /\ FailSoftHasCause'
  BY <1>1, <1>2 DEF Paced, Approved, Attributed, FailSoftHasCause
<1>4. QED BY <1>1, <1>2, <1>3 DEF IInv, Shaped, Nodes, Budgeted

(* The nodes before the first model call, and the end.                         *)
LEMMA PlainNodesKeep ==
  ASSUME IInv, PrepareThreadedTurn \/ CheckRelevance \/ RelevanceRedirect \/ FailSoft
  PROVE  IInv'
<1>1. CASE PrepareThreadedTurn
  <2>1. /\ Shaped(state') /\ state'.count = state.count /\ state'.history = state.history
        /\ state'.event = state.event
    BY <1>1 DEF IInv, Shaped, PrepareThreadedTurn, Superstep
  <2>2. Paced' /\ Approved' /\ Attributed' /\ FailSoftHasCause'
    BY <1>1, <2>1 DEF IInv, PrepareThreadedTurn, Superstep, Paced, Approved, Attributed, FailSoftHasCause
  <2>3. QED
    BY <1>1, <2>1, <2>2 DEF IInv, Shaped, Nodes, PrepareThreadedTurn, Superstep, Budgeted, retrievalVars
<1>2. CASE CheckRelevance
  <2>1. /\ Shaped(state') /\ state'.count = state.count /\ state'.history = state.history
        /\ pc' = "redirect" \/ (pc' = "budget" /\ state' = state)
        /\ pc = "relevance" /\ steps' = steps + 1
        /\ UNCHANGED <<made, executed, reserved, corrections>>
    BY <1>2 DEF IInv, Shaped, CheckRelevance, Superstep, retrievalVars
  <2>2. Paced' /\ Approved'
    BY <2>1 DEF IInv, Paced, Approved
  <2>3. Attributed' /\ FailSoftHasCause'
    BY <2>1, EventAssumption DEF IInv, Paced, Attributed, FailSoftHasCause, Events
  <2>4. QED BY <2>1, <2>2, <2>3 DEF IInv, Shaped, Nodes, Budgeted
<1>3. CASE RelevanceRedirect \/ FailSoft
  <2>1. /\ pc' = "end" /\ steps' = steps + 1 /\ UNCHANGED <<made, executed, reserved, corrections>>
        /\ state' \in {Plus(state, "answer"), [Plus(state, "answer") EXCEPT !.batch = NoBatch]}
    BY <1>3 DEF RelevanceRedirect, FailSoft, Superstep, retrievalVars
  <2>2. Shaped(state') /\ state'.count = state.count
    <3>1. NoBatch \in [Queries -> 0..MaxBatch]
      BY GraphAssumption DEF NoBatch
    <3>2. QED BY <2>1, <3>1, ShapedPlus DEF IInv, Shaped
  <2>3. steps' <= 4 * state'.count + 4
    <3>1. state.count \in Nat /\ steps \in Nat /\ steps <= 4 * state.count + 3
      BY <1>3 DEF IInv, Shaped, Paced, RelevanceRedirect, FailSoft, Superstep
    <3>2. QED BY <2>1, <2>2, <3>1
  <2>4. QED
    BY <2>1, <2>2, <2>3 DEF IInv, Shaped, Nodes, Paced, Approved, Attributed, FailSoftHasCause, Budgeted
<1>4. QED BY <1>1, <1>2, <1>3

LEMMA StepInvariant == IInv /\ [Next]_vars => IInv'
<1> SUFFICES ASSUME IInv, [Next]_vars PROVE IInv'
  OBVIOUS
<1>1. ASSUME UNCHANGED graphVars, Budgeted' PROVE IInv'
  BY <1>1 DEF IInv, graphVars, Shaped, Paced, Approved, Attributed, FailSoftHasCause, Times, InBatch
<1>2. CASE UNCHANGED vars
  BY <1>1, <1>2 DEF vars, retrievalVars, IInv, Budgeted
<1>3. CASE Retrieve(turn) /\ UNCHANGED graphVars
  BY <1>1, <1>3, RetrieveKeepsBudget DEF IInv
<1>4. CASE Finish \/ Abandon
  BY <1>4, IdleKeeps DEF Finish, Abandon, retrievalVars
<1>5. QED
  BY <1>2, <1>3, <1>4, StartTurnKeeps, PlainNodesKeep, BudgetKeeps, CallModelKeeps,
     LoopKeeps, StartToolsKeeps, CollectToolsKeeps DEF Next

LEMMA InvariantAlways == Spec => []IInv
<1>1. QED BY InitInvariant, StepInvariant, PTL DEF Spec

(* A step limit with room for the budget is never hit, the budget of model     *)
(* calls never exceeded, no tool started twice, no turn corrected twice, for   *)
(* every budget and every batch the model may ask for.                         *)
THEOREM TurnsStayWithinLimits == Spec => []TurnLimits
<1>1. IInv => StepLimitNeverHit
  <2> SUFFICES ASSUME IInv, "call_budget" \in Enabled, MaxSteps >= 4 * MaxCalls + 5,
                      pc \notin {"idle", "running"}
               PROVE  steps < MaxSteps
    BY DEF StepLimitNeverHit
  <2>1. /\ state.count \in Nat /\ state.count <= MaxCalls /\ MaxCalls \in Nat
        /\ MaxSteps \in Nat /\ steps \in Nat
    BY GraphAssumption DEF IInv, Shaped, InBudget
  <2>2. QED BY <2>1 DEF IInv, Paced, Nodes
<1>2. IInv => NoToolStartedTwice
  BY DEF IInv, NoToolStartedTwice
<1>3. IInv => OneCorrectionPerRequest
  BY DEF IInv, Budgeted, OneCorrectionPerRequest
<1>4. IInv => CallsWithinBudget
  BY DEF IInv, InBudget, CallsWithinBudget
<1>5. IInv => TurnLimits
  BY <1>1, <1>2, <1>3, <1>4 DEF TurnLimits
<1>6. QED BY <1>5, InvariantAlways, PTL

(* A fail-soft answer has its cause in its own turn.                           *)
THEOREM FailSoftIsExplained == Spec => []FailSoftHasCause
<1>1. IInv => FailSoftHasCause
  BY DEF IInv
<1>2. QED BY <1>1, InvariantAlways, PTL

-----------------------------------------------------------------------------
(* The messages.  Which message may follow which decides what a thread of     *)
(* whole turns is, and survives the removal of the oldest turns.              *)
Fits(a, b) ==
  /\ b = "tool" => a = "call"
  /\ a = "call" => b \in {"tool", "answer"}
  /\ b = "human" => a = "answer"

Told(ms) ==
  /\ ms \in Seq(Kinds) /\ ms # <<>> /\ ms[1] = "human"
  /\ \A i \in 1..Len(ms) - 1 : Fits(ms[i], ms[i + 1])

Newest(ms) == ms[Len(ms)]
Windowed(ms) == Cardinality(Humans(ms)) <= MaxPrior + 1

(* The committed thread ends in an answer; what the running turn added is at  *)
(* the node that has to go on from it.                                        *)
Conversed ==
  /\ thread.messages # <<>> => Told(thread.messages) /\ Newest(thread.messages) = "answer"
  /\ thread.messages \in Seq(Kinds)
  /\ pc # "idle" => Told(state.messages)
  /\ pc \in {"prepare", "relevance", "redirect"} => Newest(state.messages) = "human"
  /\ pc \in {"budget", "agent"} => Newest(state.messages) # "call"
  /\ pc \in {"loop", "tools", "running"} => Newest(state.messages) = "call"
  /\ pc = "end" => Newest(state.messages) \in {"answer", "empty"}
  /\ pc \in {"relevance", "budget", "agent", "loop", "tools", "running"} => Windowed(state.messages)

LEMMA ToldPlus ==
  ASSUME NEW ms, Told(ms), NEW kind \in Kinds, Fits(Newest(ms), kind)
  PROVE  Told(Append(ms, kind)) /\ Newest(Append(ms, kind)) = kind
<1>1. PICK n, s : n = Len(ms) /\ s = Append(ms, kind)
  OBVIOUS
<1>2. /\ ms \in Seq(Kinds) /\ n \in Nat \ {0} /\ s \in Seq(Kinds) /\ s # <<>> /\ Len(s) = n + 1
      /\ s[n + 1] = kind
      /\ \A i \in 1..n : s[i] = ms[i]
  BY <1>1, AppendProperties, EmptySeq DEF Told
<1>3. s[1] = "human"
  BY <1>2 DEF Told
<1>4. ASSUME NEW i \in 1..n
      PROVE  Fits(s[i], s[i + 1])
  <2>1. CASE i = n
    BY <1>1, <1>2, <2>1 DEF Newest
  <2>2. CASE i # n
    <3>1. i \in 1..n - 1 /\ i + 1 \in 1..n
      BY <1>2, <2>2
    <3>2. Fits(ms[i], ms[i + 1])
      BY <1>1, <3>1 DEF Told
    <3>3. QED BY <1>2, <3>1, <3>2
  <2>3. QED BY <2>1, <2>2
<1>5. QED BY <1>1, <1>2, <1>3, <1>4 DEF Told, Newest

LEMMA ToldIsWhole ==
  ASSUME NEW ms, Told(ms)
  PROVE  /\ Newest(ms) # "call" => WholeTurns(ms)
         /\ Newest(ms) = "answer" => Answered(ms)
<1>1. PICK n : n = Len(ms) /\ n \in Nat \ {0} /\ DOMAIN ms = 1..n /\ ms[1] = "human"
  BY EmptySeq DEF Told
<1>2. \A i \in 1..n - 1 : Fits(ms[i], ms[i + 1])
  BY <1>1 DEF Told
<1>3. ASSUME NEW i \in 1..n, i # 1
      PROVE  Fits(ms[i - 1], ms[i])
  <2>1. i - 1 \in 1..n - 1 /\ (i - 1) + 1 = i
    BY <1>1, <1>3
  <2>2. QED BY <1>2, <2>1
<1>4. ASSUME NEW i \in 1..n, Newest(ms) # "call"
      PROVE  /\ ms[i] = "tool" => ms[i - 1] = "call"
             /\ ms[i] = "call" => i < Len(ms) /\ ms[i + 1] \in {"tool", "answer"}
  <2>1. ASSUME ms[i] = "call"
        PROVE  i \in 1..n - 1
    BY <1>1, <1>4, <2>1 DEF Newest
  <2>2. ms[i] = "tool" => i # 1
    BY <1>1
  <2>3. QED BY <1>1, <1>2, <1>3, <2>1, <2>2 DEF Fits
<1>5. ASSUME NEW i \in Humans(ms), i # 1
      PROVE  ms[i - 1] = "answer"
  BY <1>1, <1>3, <1>5 DEF Humans, Fits
<1>6. QED BY <1>1, <1>4, <1>5 DEF WholeTurns, Answered, Newest

LEMMA WholeIsTold ==
  ASSUME NEW ms \in Seq(Kinds), ms # <<>>, WholeTurns(ms), Answered(ms)
  PROVE  Told(ms) /\ Newest(ms) = "answer"
<1>1. PICK n : n = Len(ms) /\ n \in Nat /\ DOMAIN ms = 1..n
  OBVIOUS
<1>2. ASSUME NEW i \in 1..n - 1
      PROVE  Fits(ms[i], ms[i + 1])
  <2>1. i \in 1..n /\ i + 1 \in 1..n /\ i + 1 # 1 /\ (i + 1) - 1 = i
    BY <1>1
  <2>2. /\ ms[i + 1] = "tool" => ms[i] = "call"
        /\ ms[i] = "call" => ms[i + 1] \in {"tool", "answer"}
    BY <1>1, <2>1 DEF WholeTurns
  <2>3. ms[i + 1] = "human" => ms[i] = "answer"
    BY <1>1, <2>1 DEF Answered, Humans
  <2>4. QED BY <2>2, <2>3 DEF Fits
<1>3. QED BY <1>1, <1>2 DEF Told, Newest, WholeTurns, Answered

-----------------------------------------------------------------------------
(* Pruning. *)

(* Among more than m human messages one begins the last m turns.              *)
LEMMA WindowStarts ==
  ASSUME NEW ms \in Seq(Kinds), NEW m \in Nat \ {0}, ~(Cardinality(Humans(ms)) <= m)
  PROVE  \E i \in Humans(ms) : Cardinality({j \in Humans(ms) : j >= i}) = m
<1> DEFINE H       == Humans(ms)
           From(k) == {j \in H : j >= k}
<1>1. PICK n : n = Len(ms) /\ n \in Nat /\ DOMAIN ms = 1..n
  OBVIOUS
<1>2. H \subseteq 1..n /\ IsFiniteSet(1..n) /\ IsFiniteSet(H)
  <2>1. Humans(ms) \subseteq 1..n
    BY <1>1 DEF Humans
  <2>2. IsFiniteSet(1..n)
    BY <1>1, FS_Interval
  <2>3. QED BY <2>1, <2>2, FS_Subset
<1>3. \A k : IsFiniteSet(From(k)) /\ Cardinality(From(k)) \in Nat
  <2>1. \A k : From(k) \subseteq H
    OBVIOUS
  <2>2. QED BY <1>2, <2>1, FS_Subset, FS_CardinalityType
<1>4. Cardinality(H) > m
  BY <1>2, FS_CardinalityType
<1> HIDE DEF H
<1> DEFINE Starts == {k \in 1..n + 1 : Cardinality(From(k)) >= m}
           Rests  == {k..n : k \in Starts}
<1>5. \E k \in Starts : \A l \in Starts : <<l..n, k..n>> \notin StrictSubsetOrdering(1..n)
  <2>1. 1 \in Starts
    <3>1. \A j \in H : j >= 1
      BY <1>2
    <3>2. From(1) = H
      BY <3>1
    <3>3. Cardinality(From(1)) >= m
      BY <1>2, <1>4, <3>2, FS_CardinalityType
    <3>4. 1 \in 1..n + 1
      BY <1>1
    <3>5. QED BY <3>3, <3>4
  <2>2. Rests \subseteq FiniteSubsetsOf(1..n) /\ Rests # {}
    <3>1. \A k \in Starts : k..n \subseteq 1..n
      BY <1>1
    <3>2. \A k \in Starts : IsFiniteSet(k..n)
      BY <1>2, <3>1, FS_Subset
    <3>3. QED BY <2>1, <3>1, <3>2 DEF FiniteSubsetsOf
  <2>3. IsWellFoundedOn(StrictSubsetOrdering(1..n), FiniteSubsetsOf(1..n))
    BY FS_StrictSubsetOrderingWellFounded
  <2>4. \E U \in Rests : \A V \in Rests : ~(<<V, U>> \in StrictSubsetOrdering(1..n))
    BY <2>2, <2>3, WFMin
  <2>5. QED BY <2>4
<1>6. PICK k \in Starts : \A l \in Starts : <<l..n, k..n>> \notin StrictSubsetOrdering(1..n)
  BY <1>5
<1>7. k \in 1..n
  <2>1. k \in 1..n + 1 /\ Cardinality(From(k)) >= m
    OBVIOUS
  <2>2. ASSUME k = n + 1
        PROVE  FALSE
    <3>1. \A j \in H : ~(j >= k)
      BY <1>1, <1>2, <2>2
    <3>2. From(k) = {}
      BY <3>1
    <3>3. Cardinality(From(k)) = 0
      BY <3>2, FS_EmptySet
    <3>4. QED BY <2>1, <3>3
  <2>3. QED BY <1>1, <2>1, <2>2
<1>8. k + 1 \notin Starts
  <2>1. (k + 1)..n \subseteq k..n /\ k \in k..n /\ k \notin (k + 1)..n /\ k..n \subseteq 1..n
    BY <1>1, <1>7
  <2>2. <<(k + 1)..n, k..n>> \in StrictSubsetOrdering(1..n)
    BY <2>1 DEF StrictSubsetOrdering
  <2>3. QED BY <1>6, <2>2
<1>9. Cardinality(From(k)) >= m /\ ~(Cardinality(From(k + 1)) >= m)
  BY <1>1, <1>7, <1>8
<1>10. k \in H
  <2>1. SUFFICES ASSUME k \notin H
                 PROVE  FALSE
    OBVIOUS
  <2>2. From(k) = From(k + 1)
    <3>1. \A j \in H : j >= k <=> j >= k + 1
      BY <1>2, <1>7, <2>1
    <3>2. QED BY <3>1
  <2>3. QED BY <1>9, <2>2
<1>11. Cardinality(From(k)) = Cardinality(From(k + 1)) + 1
  <2>1. From(k) = From(k + 1) \cup {k} /\ k \notin From(k + 1)
    <3>1. \A j \in H : j >= k <=> (j >= k + 1 \/ j = k)
      BY <1>2, <1>7
    <3>2. ~(k >= k + 1)
      BY <1>7
    <3>3. QED BY <1>10, <3>1, <3>2
  <2>2. PICK R : R = From(k + 1)
    OBVIOUS
  <2>3. Cardinality(R \cup {k}) = Cardinality(R) + 1
    BY <1>3, <2>1, <2>2, FS_AddElement
  <2>4. QED BY <2>1, <2>2, <2>3
<1>12. Cardinality(From(k)) = m
  <2>1. Cardinality(From(k)) \in Nat /\ Cardinality(From(k + 1)) \in Nat
    BY <1>3
  <2>2. PICK a, b : a = Cardinality(From(k)) /\ b = Cardinality(From(k + 1))
    OBVIOUS
  <2>3. a \in Nat /\ b \in Nat /\ a >= m /\ ~(b >= m) /\ a = b + 1
    BY <1>9, <1>11, <2>1, <2>2
  <2>4. a = m
    BY <2>3
  <2>5. QED BY <2>2, <2>4
<1>13. QED BY <1>10, <1>12 DEF H

(* What is left of a thread from one of its human messages on.                *)
LEMMA SuffixTold ==
  ASSUME NEW ms, Told(ms), NEW f \in Humans(ms)
  PROVE  LET s == SubSeq(ms, f, Len(ms))
         IN  /\ Told(s) /\ Newest(s) = Newest(ms)
             /\ Cardinality(Humans(s)) = Cardinality({j \in Humans(ms) : j >= f})
<1>1. PICK n, s : n = Len(ms) /\ s = SubSeq(ms, f, n)
  OBVIOUS
<1>2. ms \in Seq(Kinds) /\ n \in Nat /\ DOMAIN ms = 1..n /\ f \in 1..n /\ ms[f] = "human"
  BY <1>1 DEF Told, Humans
<1>3. /\ s \in Seq(Kinds) /\ Len(s) = n - f + 1 /\ DOMAIN s = 1..n - f + 1
      /\ \A i \in 1..n - f + 1 : s[i] = ms[f + i - 1]
  <2>1. s \in Seq(Kinds) /\ Len(s) = n - f + 1
    BY <1>1, <1>2, SubSeqProperties
  <2>2. \A i \in 1..n - f + 1 : s[i] = ms[f + i - 1]
    BY <1>1, <1>2, SubSeqProperties
  <2>3. QED BY <2>1, <2>2
<1>4. Told(s)
  <2>1. s # <<>> /\ s[1] = "human"
    BY <1>2, <1>3
  <2>2. ASSUME NEW i \in 1..n - f
        PROVE  Fits(s[i], s[i + 1])
    <3>1. f + i - 1 \in 1..n - 1 /\ (f + i - 1) + 1 = f + (i + 1) - 1
          /\ i \in 1..n - f + 1 /\ i + 1 \in 1..n - f + 1
      BY <1>2, <2>2
    <3>2. Fits(ms[f + i - 1], ms[f + (i + 1) - 1])
      BY <1>1, <3>1 DEF Told
    <3>3. QED BY <1>3, <3>1, <3>2
  <2>3. QED BY <1>2, <1>3, <2>1, <2>2 DEF Told
<1>5. Newest(s) = Newest(ms)
  <2>1. s[n - f + 1] = ms[n]
    BY <1>2, <1>3
  <2>2. QED BY <1>1, <1>3, <2>1 DEF Newest
<1> DEFINE Kept     == {j \in Humans(ms) : j >= f}
           place(i) == f + i - 1
           Placed   == {place(i) : i \in Humans(s)}
           places   == [i \in Humans(s) |-> place(i)]
<1>6. Placed = Kept
  <2>1. ASSUME NEW i \in Humans(s)
        PROVE  place(i) \in Kept
    BY <1>2, <1>3 DEF Humans
  <2>2. ASSUME NEW j \in Kept
        PROVE  j \in Placed
    <3>1. j \in 1..n /\ j >= f /\ ms[j] = "human"
      BY <1>2 DEF Humans
    <3>2. PICK i : i = j - f + 1
      OBVIOUS
    <3>3. i \in 1..n - f + 1 /\ place(i) = j
      BY <1>2, <3>1, <3>2
    <3>4. i \in Humans(s)
      BY <1>3, <3>1, <3>3 DEF Humans
    <3>5. QED BY <3>3, <3>4
  <2>3. QED BY <2>1, <2>2
<1>7. Cardinality(Placed) = Cardinality(Humans(s))
  <2>1. Humans(s) \subseteq 1..n - f + 1 /\ IsFiniteSet(Humans(s))
    <3>1. Humans(s) \subseteq 1..n - f + 1
      BY <1>3 DEF Humans
    <3>2. IsFiniteSet(1..n - f + 1)
      BY <1>2, FS_Interval
    <3>3. QED BY <3>1, <3>2, FS_Subset
  <2>2. places \in [Humans(s) -> Placed] /\ \A i \in Humans(s) : places[i] = place(i)
    OBVIOUS
  <2>3. places \in Bijection(Humans(s), Placed)
    <3>1. \A i, j \in Humans(s) : places[i] = places[j] => i = j
      BY <1>2, <2>1, <2>2
    <3>2. \A k \in Placed : \E i \in Humans(s) : places[i] = k
      BY <2>2
    <3>3. QED BY <2>2, <3>1, <3>2 DEF Bijection, Injection, Surjection, IsInjective
  <2>4. QED BY <2>1, <2>3, FS_Bijection DEF ExistsBijection
<1>8. QED BY <1>1, <1>4, <1>5, <1>6, <1>7

LEMMA PrunedTold ==
  ASSUME NEW ms, Told(ms)
  PROVE  Told(Pruned(ms)) /\ Newest(Pruned(ms)) = Newest(ms) /\ Windowed(Pruned(ms))
<1>1. MaxPrior + 1 \in Nat \ {0} /\ ms \in Seq(Kinds)
  BY GraphAssumption DEF Told
<1>2. CASE Cardinality(Humans(ms)) <= MaxPrior + 1
  BY <1>2 DEF Pruned, Windowed
<1>3. CASE ~(Cardinality(Humans(ms)) <= MaxPrior + 1)
  <2>1. \E i \in Humans(ms) : Cardinality({j \in Humans(ms) : j >= i}) = MaxPrior + 1
    BY <1>1, <1>3, WindowStarts
  <2>2. PICK f \in Humans(ms) :
          /\ Cardinality({j \in Humans(ms) : j >= f}) = MaxPrior + 1
          /\ Pruned(ms) = SubSeq(ms, f, Len(ms))
    BY <1>3, <2>1 DEF Pruned
  <2>3. /\ Told(Pruned(ms)) /\ Newest(Pruned(ms)) = Newest(ms)
        /\ Cardinality(Humans(Pruned(ms))) = MaxPrior + 1
    BY <2>2, SuffixTold
  <2>4. QED BY <1>1, <2>3 DEF Windowed
<1>4. QED BY <1>2, <1>3

-----------------------------------------------------------------------------
(* Every step keeps the thread and the context whole. *)

LEMMA MessagesPlus ==
  ASSUME NEW s, Shaped(s), NEW kind, NEW batch
  PROVE  /\ Plus(s, kind).messages = Append(s.messages, kind)
         /\ [Plus(s, kind) EXCEPT !.batch = batch].messages = Append(s.messages, kind)
<1>1. Shaped(Plus(s, kind))
  BY ShapedPlus
<1>2. Plus(s, kind).messages = Append(s.messages, kind)
  <2>1. PICK more : more = Append(s.messages, kind)
    OBVIOUS
  <2>2. [s EXCEPT !.messages = more].messages = more
    BY DEF Shaped
  <2>3. QED BY <2>1, <2>2 DEF Plus
<1>3. QED BY <1>1, <1>2 DEF Shaped

LEMMA ConversedInit == Init => Conversed
<1> SUFFICES ASSUME Init
             PROVE  Conversed
  OBVIOUS
<1>1. pc = "idle"
  BY DEF Init
<1>2. PICK earlier \in Earlier : thread = [NewThread EXCEPT !.messages = earlier]
  BY DEF Init
<1>3. thread.messages = earlier
  BY <1>2 DEF NewThread
<1>4. earlier \in Seq(Kinds) /\ (earlier # <<>> => Told(earlier) /\ Newest(earlier) = "answer")
  BY EarlierAssumption, WholeIsTold
<1>5. QED BY <1>1, <1>3, <1>4 DEF Conversed

(* A step of the graph from one node to another that adds one message.        *)
LEMMA AddedKeeps ==
  ASSUME Conversed, pc # "idle", NEW kind \in Kinds, Fits(Newest(state.messages), kind),
         state'.messages = Append(state.messages, kind), thread' = thread
  PROVE  /\ Told(state'.messages) /\ Newest(state'.messages) = kind
         /\ kind # "human" /\ Windowed(state.messages) => Windowed(state'.messages)
<1>1. Told(state.messages)
  BY DEF Conversed
<1>2. Told(state'.messages) /\ Newest(state'.messages) = kind
  BY <1>1, ToldPlus
<1>3. ASSUME kind # "human"
      PROVE  Humans(Append(state.messages, kind)) = Humans(state.messages)
  <2>1. PICK n, ms, s : n = Len(state.messages) /\ ms = state.messages /\ s = Append(ms, kind)
    OBVIOUS
  <2>2. /\ n \in Nat /\ DOMAIN ms = 1..n /\ DOMAIN s = 1..n + 1 /\ s[n + 1] = kind
        /\ \A i \in 1..n : s[i] = ms[i]
    BY <1>1, <2>1, AppendProperties DEF Told
  <2>3. \A i : i \in 1..n + 1 <=> (i \in 1..n \/ i = n + 1)
    BY <2>2
  <2>4. Humans(s) = Humans(ms)
    BY <1>3, <2>2, <2>3 DEF Humans
  <2>5. QED BY <2>1, <2>4
<1>4. QED BY <1>2, <1>3 DEF Windowed

LEMMA ConversedStep == IInv /\ Conversed /\ [Next]_vars => Conversed'
<1> SUFFICES ASSUME IInv, Conversed, [Next]_vars
             PROVE  Conversed'
  OBVIOUS
<1> USE DEF Kinds
<1>1. Shaped(state)
  BY DEF IInv
<1>2. CASE StartTurn
  <2>1. /\ pc' = "prepare" /\ thread' = thread /\ state' = Payload(thread)
    BY <1>2 DEF StartTurn
  <2> DEFINE s == [NewThread EXCEPT !.messages = thread.messages]
  <2>2. Shaped(s) /\ s.messages = thread.messages
    BY NewTurn DEF NewThread
  <2>3. state'.messages = Append(thread.messages, "human")
    <3>1. state' = Plus(s, "human")
      BY <2>1 DEF Payload
    <3> HIDE DEF s
    <3>2. QED BY <2>2, <3>1, MessagesPlus
  <2>4. Told(state'.messages) /\ Newest(state'.messages) = "human"
    <3>1. CASE thread.messages = <<>>
      <4>1. state'.messages = <<"human">>
        BY <2>3, <3>1
      <4>2. QED BY <4>1 DEF Told, Newest
    <3>2. CASE thread.messages # <<>>
      <4>1. Told(thread.messages) /\ Newest(thread.messages) = "answer"
        BY <3>2 DEF Conversed
      <4>2. Fits(Newest(thread.messages), "human")
        BY <4>1 DEF Fits
      <4>3. QED BY <2>3, <4>1, <4>2, ToldPlus
    <3>3. QED BY <3>1, <3>2
  <2>5. QED BY <2>1, <2>4 DEF Conversed
<1>3. CASE PrepareThreadedTurn
  <2>1. /\ pc = "prepare" /\ pc' = "relevance" /\ thread' = thread
        /\ state' = [state EXCEPT !.messages = Pruned(@)]
    BY <1>3 DEF PrepareThreadedTurn, Superstep
  <2>2. state'.messages = Pruned(state.messages)
    BY <1>1, <2>1 DEF Shaped
  <2>3. Told(state.messages) /\ Newest(state.messages) = "human"
    BY <2>1 DEF Conversed
  <2>4. QED BY <2>1, <2>2, <2>3, PrunedTold DEF Conversed
<1>4. CASE CheckRelevance
  <2>1. /\ pc = "relevance" /\ pc' \in {"redirect", "budget"} /\ thread' = thread
        /\ state' \in {state, [state EXCEPT !.event = "relevance_off_topic"]}
    BY <1>4 DEF CheckRelevance, Superstep
  <2>2. state'.messages = state.messages
    BY <1>1, <2>1 DEF Shaped
  <2>3. QED BY <2>1, <2>2 DEF Conversed
<1>5. CASE RelevanceRedirect
  <2>1. /\ pc = "redirect" /\ pc' = "end" /\ thread' = thread /\ state' = Plus(state, "answer")
    BY <1>5 DEF RelevanceRedirect, Superstep
  <2>2. state'.messages = Append(state.messages, "answer")
    BY <1>1, <2>1, MessagesPlus
  <2>3. Fits(Newest(state.messages), "answer")
    BY DEF Fits
  <2>4. Told(state'.messages) /\ Newest(state'.messages) = "answer"
    BY <2>1, <2>2, <2>3, AddedKeeps
  <2>5. QED BY <2>1, <2>4 DEF Conversed
<1>6. CASE CheckModelBudget
  <2>1. /\ pc = "budget" /\ pc' \in {"fail_soft", "agent"} /\ thread' = thread /\ state' = Reserved
    BY <1>6 DEF CheckModelBudget, Superstep
  <2>2. state'.messages = state.messages
    BY <1>1, <2>1 DEF Shaped, Reserved
  <2>3. QED BY <2>1, <2>2 DEF Conversed
<1>7. CASE CallModel
  <2>1. /\ pc = "agent" /\ thread' = thread
        /\ \/ pc' = "loop" /\ \E batch \in Batches : state' = [Plus(state, "call") EXCEPT !.batch = batch]
           \/ pc' = "end" /\ \E kind \in {"answer", "empty"} : state' = Plus(state, kind)
    BY <1>7 DEF CallModel, Superstep
  <2>2. PICK kind \in {"call", "answer", "empty"} :
          /\ state'.messages = Append(state.messages, kind)
          /\ pc' = IF kind = "call" THEN "loop" ELSE "end"
    <3>1. CASE pc' = "loop" /\ \E batch \in Batches : state' = [Plus(state, "call") EXCEPT !.batch = batch]
      BY <1>1, <3>1, MessagesPlus
    <3>2. CASE pc' = "end" /\ \E kind \in {"answer", "empty"} : state' = Plus(state, kind)
      BY <1>1, <3>2, MessagesPlus
    <3>3. QED BY <2>1, <3>1, <3>2
  <2>3. Fits(Newest(state.messages), kind)
    BY <2>1 DEF Fits, Conversed
  <2>4. /\ Told(state'.messages) /\ Newest(state'.messages) = kind
        /\ Windowed(state'.messages)
    BY <2>1, <2>2, <2>3, AddedKeeps DEF Conversed
  <2>5. QED BY <2>1, <2>2, <2>4 DEF Conversed
<1>8. CASE CheckToolLoop
  <2>1. /\ pc = "loop" /\ pc' \in {"fail_soft", "tools"} /\ thread' = thread
        /\ state' \in LoopVerdicts
    BY <1>8 DEF CheckToolLoop, Superstep
  <2>2. state'.messages = state.messages
    BY <1>1, <2>1 DEF Shaped, LoopVerdicts
  <2>3. QED BY <2>1, <2>2 DEF Conversed
<1>9. CASE StartTools
  BY <1>9 DEF StartTools, Superstep, Conversed
<1>10. CASE CollectTools
  <2>1. /\ pc = "running" /\ pc' = "budget" /\ thread' = thread
        /\ state' = [Plus(state, "tool") EXCEPT !.batch = NoBatch]
    BY <1>10 DEF CollectTools
  <2>2. state'.messages = Append(state.messages, "tool")
    BY <1>1, <2>1, MessagesPlus
  <2>3. Fits(Newest(state.messages), "tool")
    BY <2>1 DEF Fits, Conversed
  <2>4. /\ Told(state'.messages) /\ Newest(state'.messages) = "tool"
        /\ Windowed(state'.messages)
    BY <2>1, <2>2, <2>3, AddedKeeps DEF Conversed
  <2>5. QED BY <2>1, <2>4 DEF Conversed
<1>11. CASE FailSoft
  <2>1. /\ pc = "fail_soft" /\ pc' = "end" /\ thread' = thread
        /\ state' = [Plus(state, "answer") EXCEPT !.batch = NoBatch]
    BY <1>11 DEF FailSoft, Superstep
  <2>2. state'.messages = Append(state.messages, "answer")
    BY <1>1, <2>1, MessagesPlus
  <2>3. Fits(Newest(state.messages), "answer")
    BY DEF Fits
  <2>4. Told(state'.messages) /\ Newest(state'.messages) = "answer"
    BY <2>1, <2>2, <2>3, AddedKeeps
  <2>5. QED BY <2>1, <2>4 DEF Conversed
<1>12. CASE Finish
  <2>1. /\ pc = "end" /\ pc' = "idle" /\ thread' = IF Committable THEN state ELSE thread
    BY <1>12 DEF Finish
  <2>2. Told(state.messages) /\ Newest(state.messages) \in {"answer", "empty"}
    BY <2>1 DEF Conversed
  <2>3. Committable => Newest(state.messages) = "answer"
    BY <2>2 DEF Committable, Newest
  <2>4. QED BY <2>1, <2>2, <2>3 DEF Conversed, Told
<1>13. CASE Abandon
  BY <1>13 DEF Abandon, Conversed
<1>14. CASE UNCHANGED graphVars
  BY <1>14 DEF graphVars, Conversed
<1>15. QED
  BY <1>2, <1>3, <1>4, <1>5, <1>6, <1>7, <1>8, <1>9, <1>10, <1>11, <1>12, <1>13, <1>14 DEF Next, vars

(* Between turns the thread ends in an answer, and so does each of its turns; *)
(* what the model is given is whole turns, and no more than the window.       *)
THEOREM ThreadsStayWhole == Spec => []ThreadIsWholeTurns
<1>1. Conversed => ThreadIsWholeTurns
  BY ToldIsWhole DEF Conversed, ThreadIsWholeTurns, ContextIsWholeTurns, CommittedTurnsAnswered,
     Windowed
<1>2. Spec => []Conversed
  BY ConversedInit, ConversedStep, InvariantAlways, PTL DEF Spec
<1>3. QED BY <1>1, <1>2, PTL

-----------------------------------------------------------------------------
(* The drafts of retrieval. *)

(* A draft before its context is built: its chunks are of its raw retrieval,  *)
(* its confidence is that of the pass it selected.                            *)
Agreed(d) ==
  /\ d \in Draft /\ ~d.error /\ d.context = {}
  /\ d.docs \subseteq d.raw /\ d.raw \subseteq Chunks
  /\ d.confidence \in {Null, d.selected}

(* A draft that is the outcome of the pipeline.                               *)
Outcome(d) ==
  /\ d \in Draft
  /\ d.context \ {Web} \subseteq d.raw
  /\ ~d.error => d.confidence \in {Null, d.selected}
  /\ Web \in d.context => d.confidence # Null /\ d.low
  /\ d.error => d.context = {} /\ d.raw = {}

LEMMA NewDraftTyped ==
  NewDraft \in Draft /\ Outcome(NewDraft)
BY DEF NewDraft, Draft, Passes, Statuses, Outcome

LEMMA RankedAgrees ==
  ASSUME NEW pass \in Passes, NEW d \in Ranked(NewDraft, pass)
  PROVE  /\ d \in Draft /\ ~d.error /\ d.context = {}
         /\ d.docs \subseteq d.raw /\ d.raw \subseteq Chunks
         /\ d.confidence \in {Null, pass} /\ d.selected = "first"
<1>1. PICK raw \in SUBSET Chunks : d \in RankedBy(NewDraft, pass, raw)
  BY DEF Ranked
<1>2. CASE d = [NewDraft EXCEPT !.raw = raw, !.docs = raw, !.confidence = Null]
  BY <1>2 DEF NewDraft, Draft, Passes, Statuses
<1>3. CASE \E docs \in SUBSET raw, low \in BOOLEAN :
             d = Confident([NewDraft EXCEPT !.raw = raw], pass, docs, low)
  BY <1>3 DEF NewDraft, Draft, Passes, Statuses, Confident
<1>4. QED BY <1>1, <1>2, <1>3 DEF RankedBy

LEMMA StatusKeeps ==
  ASSUME NEW d, Agreed(d), NEW status \in Statuses
  PROVE  Agreed([d EXCEPT !.status = status])
BY DEF Agreed, Draft, Statuses

LEMMA CorrectedAgrees ==
  ASSUME NEW d, Agreed(d), NEW c \in Corrected(d)
  PROVE  Agreed(c)
<1>1. CASE \E status \in {"timed_out", "failed"} : c = [d EXCEPT !.status = status]
  BY <1>1, StatusKeeps DEF Statuses
<1>2. CASE \E r \in Ranked(NewDraft, "corrected") : c = Selected(d, r)
  <2>1. PICK r \in Ranked(NewDraft, "corrected") : c = Selected(d, r)
    BY <1>2
  <2>2. /\ r \in Draft /\ r.docs \subseteq r.raw /\ r.raw \subseteq Chunks
        /\ r.confidence \in {Null, "corrected"}
    BY <2>1, RankedAgrees DEF Passes
  <2>3. CASE r.docs \subseteq d.docs
    BY <2>1, <2>3 DEF Selected
  <2>4. CASE ~(r.docs \subseteq d.docs)
    <3>1. c = [d EXCEPT !.docs = r.docs, !.raw = r.raw, !.selected = "corrected",
                        !.confidence = r.confidence, !.low = r.low]
      BY <2>1, <2>4 DEF Selected
    <3>2. QED BY <2>2, <3>1 DEF Agreed, Draft, Passes
  <2>5. QED BY <2>3, <2>4
<1>3. QED BY <1>1, <1>2 DEF Corrected

LEMMA FailedIsOutcome ==
  ASSUME NEW d \in Draft
  PROVE  Outcome(Failed(d))
BY DEF Draft, Failed, Outcome

LEMMA BuiltIsOutcome ==
  ASSUME NEW d, Agreed(d), NEW b \in Built(d)
  PROVE  Outcome(b)
<1>1. CASE b = Failed(d)
  BY <1>1, FailedIsOutcome DEF Agreed
<1>2. CASE \E kept \in SUBSET (d.docs \cup {Web}) :
             /\ Web \in kept => d.confidence # Null /\ d.low
             /\ b = [d EXCEPT !.docs = kept, !.context = kept]
  <2>1. PICK kept \in SUBSET (d.docs \cup {Web}) :
               /\ Web \in kept => d.confidence # Null /\ d.low
               /\ b = [d EXCEPT !.docs = kept, !.context = kept]
    BY <1>2
  <2>2. kept \in SUBSET (Chunks \cup {Web}) /\ kept \ {Web} \subseteq d.raw
    BY <2>1 DEF Agreed
  <2>3. QED BY <2>1, <2>2 DEF Agreed, Draft, Outcome
<1>3. QED BY <1>1, <1>2 DEF Built

-----------------------------------------------------------------------------
(* The tool calls of the running turn. *)

Settled(k) ==
  /\ k \in Call
  /\ k.at = "correcting" => Agreed(k.draft)
  /\ k.at = "ended" /\ k.outcome = Null => Outcome(k.draft)

(* Only a running tool node has calls, and a running graph is in a turn.      *)
Called ==
  /\ call \in [Queries -> {k \in Call : Settled(k)}]
  /\ stragglers \in SUBSET (Turns \X Queries)
  /\ pc # "running" => \A q \in Queries : At(q, "idle")
  /\ pc # "idle" => turn \in Turns

LEMMA NoCallSettled == NoCall \in Call /\ NoCall.at = "idle" /\ NoCall.draft = NewDraft
                       /\ NewCall \in Call /\ NewCall.at = "first" /\ NewCall.draft = NewDraft
                       /\ Settled(NoCall) /\ Settled(NewCall)
<1>1. NoCall \in Call /\ NoCall.at = "idle" /\ NoCall.draft = NewDraft
  BY NewDraftTyped, RetrievalAssumption DEF NoCall, Call
<1>2. NewCall = [at |-> "first", attempt |-> 1, draft |-> NewDraft, outcome |-> Null]
  <2>1. PICK k : k = [NoCall EXCEPT !.at = "first", !.attempt = 1]
    OBVIOUS
  <2>2. k = [at |-> "first", attempt |-> 1, draft |-> NewDraft, outcome |-> Null]
    BY <2>1 DEF NoCall
  <2>3. NewCall = k
    BY <2>1, Zenon DEF NewCall
  <2>4. QED BY <2>2, <2>3
<1>3. NewCall \in Call /\ NewCall.at = "first" /\ NewCall.draft = NewDraft
  BY <1>2, NewDraftTyped, RetrievalAssumption DEF Call
<1>4. QED BY <1>1, <1>3 DEF Settled

LEMMA SettledDraw ==
  ASSUME Called, NEW q \in Queries, NEW at \in {"correcting", "ended"}, NEW d \in Draft,
         at = "correcting" => Agreed(d), at = "ended" => Outcome(d), Draw(q, at, d)
  PROVE  call' \in [Queries -> {k \in Call : Settled(k)}]
<1>1. PICK k : k = [call[q] EXCEPT !.at = at, !.draft = d]
  OBVIOUS
<1>2. call[q] \in Call
  BY DEF Called
<1>3. k \in Call /\ k.at = at /\ k.draft = d
  BY <1>1, <1>2 DEF Call
<1>4. Settled(k)
  BY <1>3 DEF Settled
<1>5. call' = [call EXCEPT ![q] = k]
  BY <1>1 DEF Draw, Called
<1>6. QED BY <1>3, <1>4, <1>5 DEF Called

LEMMA SettledAnswer ==
  ASSUME Called, NEW q \in Queries, NEW outcome \in {"value", "safe_error"}, Answer(q, outcome)
  PROVE  call' \in [Queries -> {k \in Call : Settled(k)}]
<1>1. PICK k : k = [NoCall EXCEPT !.at = "ended", !.outcome = outcome]
  OBVIOUS
<1>2. k = [at |-> "ended", attempt |-> 0, draft |-> NewDraft, outcome |-> outcome]
  BY <1>1 DEF NoCall
<1>3. k \in Call /\ k.at = "ended" /\ k.draft = NewDraft
  BY <1>2, NewDraftTyped, RetrievalAssumption DEF Call
<1>4. Settled(k)
  BY <1>3, NewDraftTyped DEF Settled
<1>5. call' = [call EXCEPT ![q] = k]
  BY <1>1 DEF Answer
<1>6. QED BY <1>3, <1>4, <1>5 DEF Called

LEMMA RetrieveSettles ==
  ASSUME Called, pc = "running", Retrieve(turn), UNCHANGED graphVars
  PROVE  Called'
<1>1. turn \in Turns
  BY DEF Called
<1>2. SUFFICES /\ call' \in [Queries -> {k \in Call : Settled(k)}]
               /\ stragglers' \in SUBSET (Turns \X Queries)
  BY <1>1 DEF Called, graphVars
<1>3. ASSUME NEW q \in Queries, FirstPass(q, turn)
      PROVE  /\ call' \in [Queries -> {k \in Call : Settled(k)}]
             /\ stragglers' = stragglers
  <2>1. stragglers' = stragglers
    BY <1>3 DEF FirstPass
  <2>2. CASE Draw(q, "ended", Failed(NewDraft))
    BY <2>1, <2>2, NewDraftTyped, FailedIsOutcome, SettledDraw DEF Outcome
  <2>3. ASSUME NEW d \in Ranked(NewDraft, "first"),
               Draw(q, "correcting", [d EXCEPT !.status = "completed"])
        PROVE  call' \in [Queries -> {k \in Call : Settled(k)}]
    <3>1. Agreed(d)
      BY RankedAgrees DEF Agreed, Passes
    <3>2. PICK e : e = [d EXCEPT !.status = "completed"]
      OBVIOUS
    <3>3. Agreed(e) /\ e \in Draft
      BY <3>1, <3>2, StatusKeeps DEF Statuses, Agreed
    <3>4. QED BY <2>3, <3>2, <3>3, SettledDraw
  <2>4. ASSUME NEW d \in Ranked(NewDraft, "first"), NEW status \in {"budget_exhausted", "ineligible"},
               NEW b \in Built([d EXCEPT !.status = status]), Draw(q, "ended", b)
        PROVE  call' \in [Queries -> {k \in Call : Settled(k)}]
    <3>1. Agreed(d)
      BY RankedAgrees DEF Agreed, Passes
    <3>2. Agreed([d EXCEPT !.status = status])
      BY <3>1, StatusKeeps DEF Statuses
    <3>3. Outcome(b) /\ b \in Draft
      BY <3>2, BuiltIsOutcome DEF Outcome
    <3>4. QED BY <2>4, <3>3, SettledDraw
  <2>5. \/ Draw(q, "ended", Failed(NewDraft))
        \/ \E d \in Ranked(NewDraft, "first") :
             \/ Draw(q, "correcting", [d EXCEPT !.status = "completed"])
             \/ \E status \in {"budget_exhausted", "ineligible"} :
                  \E b \in Built([d EXCEPT !.status = status]) : Draw(q, "ended", b)
    BY <1>3 DEF FirstPass
  <2>6. QED BY <2>1, <2>2, <2>3, <2>4, <2>5
<1>4. ASSUME NEW q \in Queries, Correct(q)
      PROVE  /\ call' \in [Queries -> {k \in Call : Settled(k)}]
             /\ stragglers' = stragglers
  <2>1. PICK c \in Corrected(call[q].draft) : \E b \in Built(c) : Draw(q, "ended", b)
    BY <1>4 DEF Correct
  <2>2. Agreed(call[q].draft)
    BY <1>4 DEF Correct, Called, At, Settled
  <2>3. Agreed(c)
    BY <2>1, <2>2, CorrectedAgrees
  <2>4. PICK b \in Built(c) : Draw(q, "ended", b)
    BY <2>1
  <2>5. Outcome(b) /\ b \in Draft
    BY <2>3, <2>4, BuiltIsOutcome DEF Outcome
  <2>6. QED BY <1>4, <2>4, <2>5, SettledDraw DEF Correct
<1>5. ASSUME NEW q \in Queries, Return(q)
      PROVE  /\ call' \in [Queries -> {k \in Call : Settled(k)}]
             /\ stragglers' = stragglers
  <2>1. CASE \E outcome \in {"value", "safe_error"} : Answer(q, outcome)
    BY <1>5, <2>1, SettledAnswer DEF Return
  <2>2. CASE /\ call[q].attempt < MaxAttempts
             /\ call' = [call EXCEPT ![q] = [NewCall EXCEPT !.attempt = call[q].attempt + 1]]
    <3>1. call[q].attempt + 1 \in 0..MaxAttempts
      BY <2>2, RetrievalAssumption DEF Called, Call
    <3>2. PICK k : k = [NewCall EXCEPT !.attempt = call[q].attempt + 1]
      OBVIOUS
    <3>3. k \in Call /\ k.at = "first"
      BY <3>1, <3>2, NoCallSettled DEF Call
    <3>4. Settled(k) /\ call' = [call EXCEPT ![q] = k]
      BY <2>2, <3>2, <3>3 DEF Settled
    <3>5. QED BY <1>5, <3>3, <3>4 DEF Called, Return
  <2>3. QED BY <1>5, <2>1, <2>2 DEF Return
<1>6. ASSUME NEW q \in Queries, Expire(q, turn)
      PROVE  /\ call' \in [Queries -> {k \in Call : Settled(k)}]
             /\ stragglers' \in SUBSET (Turns \X Queries)
  <2>1. Answer(q, "safe_error")
    BY <1>6 DEF Expire
  <2>2. stragglers' \subseteq stragglers \cup {<<turn, q>>}
    BY <1>6 DEF Expire
  <2>3. QED BY <1>1, <2>1, <2>2, SettledAnswer DEF Called
<1>7. ASSUME NEW u \in Turns, NEW q \in Queries, Straggle(u, q)
      PROVE  call' = call /\ stragglers' \subseteq stragglers
  BY <1>7 DEF Straggle
<1>8. QED BY <1>3, <1>4, <1>5, <1>6, <1>7 DEF Retrieve, Called

(* A call is retrieving only while the tool node runs.                        *)
LEMMA IdleRetrieves ==
  ASSUME Called, pc # "running", Retrieve(turn), UNCHANGED graphVars
  PROVE  Called'
<1>1. call' = call /\ stragglers' \subseteq stragglers
  <2>1. ASSUME NEW q \in Queries, FirstPass(q, turn) \/ Correct(q) \/ Return(q) \/ Expire(q, turn)
        PROVE  FALSE
    <3>1. call[q].at = "idle"
      BY DEF Called, At
    <3>2. QED BY <2>1, <3>1 DEF FirstPass, Correct, Return, Expire, At
  <2>2. ASSUME NEW u \in Turns, NEW q \in Queries, Straggle(u, q)
        PROVE  call' = call /\ stragglers' \subseteq stragglers
    BY <2>2 DEF Straggle
  <2>3. QED BY <2>1, <2>2 DEF Retrieve
<1>2. QED BY <1>1 DEF Called, graphVars, At

LEMMA CalledStep == Called /\ [Next]_vars => Called'
<1> SUFFICES ASSUME Called, [Next]_vars
             PROVE  Called'
  OBVIOUS
<1>1. CASE StartTurn
  <2>1. /\ pc' = "prepare" /\ turn' \in Turns /\ stragglers' = stragglers
        /\ call' = [q \in Queries |-> NoCall]
    BY <1>1 DEF StartTurn
  <2>2. QED BY <2>1, NoCallSettled DEF Called, At
<1>2. CASE PrepareThreadedTurn \/ CheckRelevance \/ RelevanceRedirect \/ CheckModelBudget
           \/ CallModel \/ CheckToolLoop \/ FailSoft
  <2>1. /\ pc \notin {"idle", "running"} /\ pc' # "running" /\ turn' = turn
        /\ call' = call /\ stragglers' = stragglers
    BY <1>2 DEF PrepareThreadedTurn, CheckRelevance, RelevanceRedirect, CheckModelBudget, CallModel,
       CheckToolLoop, FailSoft, Superstep, retrievalVars
  <2>2. QED BY <2>1 DEF Called, At
<1>3. CASE StartTools
  <2>1. /\ pc = "tools" /\ pc' = "running" /\ turn' = turn /\ stragglers' = stragglers
        /\ call' = [q \in Queries |-> IF InBatch(q) THEN NewCall ELSE NoCall]
    BY <1>3 DEF StartTools, Superstep
  <2>2. QED BY <2>1, NoCallSettled DEF Called, At
<1>4. CASE CollectTools
  <2>1. /\ pc = "running" /\ turn' = turn /\ stragglers' = stragglers
        /\ call' = [q \in Queries |-> NoCall]
    BY <1>4 DEF CollectTools
  <2>2. QED BY <2>1, NoCallSettled DEF Called, At
<1>5. CASE Finish
  <2>1. /\ pc = "end" /\ pc' = "idle" /\ call' = call /\ stragglers' = stragglers
    BY <1>5 DEF Finish, retrievalVars
  <2>2. QED BY <2>1 DEF Called, At
<1>6. CASE Abandon
  <2>1. /\ pc # "idle" /\ pc' = "idle" /\ call' = [q \in Queries |-> NoCall]
        /\ stragglers' = stragglers \cup {<<turn, q>> : q \in {r \in Bridged : At(r, "first")}}
    BY <1>6 DEF Abandon
  <2>2. {<<turn, q>> : q \in {r \in Bridged : At(r, "first")}} \subseteq Turns \X Queries
    BY <2>1, RetrievalAssumption DEF Called
  <2>3. QED BY <2>1, <2>2, NoCallSettled DEF Called, At
<1>7. CASE Retrieve(turn) /\ UNCHANGED graphVars
  BY <1>7, RetrieveSettles, IdleRetrieves
<1>8. CASE UNCHANGED vars
  BY <1>8 DEF vars, graphVars, retrievalVars, Called, At
<1>9. QED BY <1>1, <1>2, <1>3, <1>4, <1>5, <1>6, <1>7, <1>8 DEF Next

-----------------------------------------------------------------------------
(* The types of the graph's variables. *)

Noted ==
  /\ thread \in State /\ state.event \in Events \cup {Null}
  /\ pc = "idle" => state = NewThread
  /\ steps \in 0..MaxSteps /\ turn \in Nat /\ made \in Nat

LEMMA NewThreadTyped == NewThread \in State
BY GraphAssumption DEF NewThread, State, NoBatch

LEMMA StateTyped ==
  ASSUME IInv, Conversed, Noted
  PROVE  state \in State
<1>1. CASE pc = "idle"
  BY <1>1, NewThreadTyped DEF Noted
<1>2. CASE pc # "idle"
  <2>1. state.messages \in Seq(Kinds) /\ MaxCalls \in Nat
    BY <1>2, GraphAssumption DEF Conversed, Told
  <2>2. QED BY <2>1 DEF IInv, Shaped, Noted, State
<1>3. QED BY <1>1, <1>2

LEMMA NotedStep == IInv /\ Conversed /\ Noted /\ [Next]_vars => Noted'
<1> SUFFICES ASSUME IInv, Conversed, Noted, [Next]_vars
             PROVE  Noted'
  OBVIOUS
<1>1. /\ Shaped(state) /\ state \in State /\ NewThread \in State
      /\ MaxSteps \in Nat /\ MaxCalls \in Nat
  BY StateTyped, NewThreadTyped, GraphAssumption DEF IInv
<1>2. CASE StartTurn
  <2>1. /\ pc' = "prepare" /\ turn' = turn + 1 /\ thread' = thread /\ state' = Payload(thread)
        /\ steps' = 0 /\ made' = 0
    BY <1>2 DEF StartTurn
  <2> DEFINE s == [NewThread EXCEPT !.messages = thread.messages]
  <2>2. Shaped(s) /\ s.event = Null
    BY NewTurn
  <2>3. state'.event = Null
    <3>1. state' = Plus(s, "human")
      BY <2>1 DEF Payload
    <3> HIDE DEF s
    <3>2. QED BY <2>2, <3>1, ShapedPlus
  <2>4. QED BY <1>1, <2>1, <2>3 DEF Noted
<1>3. CASE CallModel
  <2>1. /\ pc = "agent" /\ pc' \in {"loop", "end"} /\ steps < MaxSteps /\ steps' = steps + 1
        /\ made' = made + 1 /\ UNCHANGED <<thread, turn>>
        /\ \/ \E batch \in Batches : state' = [Plus(state, "call") EXCEPT !.batch = batch]
           \/ \E kind \in {"answer", "empty"} : state' = Plus(state, kind)
    BY <1>3 DEF CallModel, Superstep
  <2>2. state'.event = state.event
    <3>1. ASSUME NEW batch, state' = [Plus(state, "call") EXCEPT !.batch = batch]
          PROVE  state'.event = state.event
      BY <1>1, <3>1, ShapedPlus DEF Shaped
    <3>2. ASSUME NEW kind, state' = Plus(state, kind)
          PROVE  state'.event = state.event
      BY <1>1, <3>2, ShapedPlus
    <3>3. QED BY <2>1, <3>1, <3>2
  <2>3. QED BY <1>1, <2>1, <2>2 DEF Noted
<1>4. CASE PrepareThreadedTurn \/ CheckRelevance \/ CheckModelBudget \/ CheckToolLoop
  <2>1. /\ pc' # "idle" /\ steps < MaxSteps /\ steps' = steps + 1 /\ UNCHANGED <<thread, turn, made>>
        /\ \/ state' = [state EXCEPT !.messages = Pruned(@)]
           \/ state' = [state EXCEPT !.event = "relevance_off_topic"]
           \/ state' = state
           \/ state' = Reserved
           \/ state' \in LoopVerdicts
    BY <1>4 DEF PrepareThreadedTurn, CheckRelevance, CheckModelBudget, CheckToolLoop, Superstep
  <2>2. state'.event \in Events \cup {Null}
    BY <1>1, <2>1 DEF Noted, Shaped, Reserved, LoopVerdicts, Events
  <2>3. QED BY <1>1, <2>1, <2>2 DEF Noted
<1>5. CASE RelevanceRedirect \/ FailSoft
  <2>1. /\ pc' # "idle" /\ steps < MaxSteps /\ steps' = steps + 1 /\ UNCHANGED <<thread, turn, made>>
        /\ \/ state' = Plus(state, "answer")
           \/ state' = [Plus(state, "answer") EXCEPT !.batch = NoBatch]
    BY <1>5 DEF RelevanceRedirect, FailSoft, Superstep
  <2>2. state'.event = state.event
    BY <1>1, <2>1, ShapedPlus DEF Shaped
  <2>3. QED BY <1>1, <2>1, <2>2 DEF Noted
<1>6. CASE StartTools
  BY <1>1, <1>6 DEF StartTools, Superstep, Noted
<1>7. CASE CollectTools
  <2>1. /\ pc' = "budget" /\ UNCHANGED <<thread, steps, turn, made>>
        /\ state' = [Plus(state, "tool") EXCEPT !.batch = NoBatch]
    BY <1>7 DEF CollectTools
  <2>2. state'.event = state.event
    BY <1>1, <2>1, ShapedPlus DEF Shaped
  <2>3. QED BY <1>1, <2>1, <2>2 DEF Noted
<1>8. CASE Finish \/ Abandon
  <2>1. /\ pc' = "idle" /\ state' = NewThread /\ thread' \in {thread, state}
        /\ UNCHANGED <<steps, turn, made>>
    BY <1>8 DEF Finish, Abandon
  <2>2. NewThread.event = Null
    BY DEF NewThread
  <2>3. QED BY <1>1, <2>1, <2>2 DEF Noted
<1>9. CASE UNCHANGED graphVars
  BY <1>9 DEF graphVars, Noted
<1>10. QED
  BY <1>2, <1>3, <1>4, <1>5, <1>6, <1>7, <1>8, <1>9 DEF Next, vars

LEMMA ResultsInit == Init => Called /\ Noted
<1> SUFFICES ASSUME Init
             PROVE  Called /\ Noted
  OBVIOUS
<1>1. Called
  BY NoCallSettled DEF Init, RetrievalInit, Called, At
<1>2. thread \in State
  <2>1. PICK earlier \in Earlier : thread = [NewThread EXCEPT !.messages = earlier]
    BY DEF Init
  <2>2. earlier \in Seq(Kinds)
    BY EarlierAssumption
  <2>3. QED BY <2>1, <2>2, NewThreadTyped DEF State
<1>3. Noted
  BY <1>2, GraphAssumption DEF Init, Noted, NewThread
<1>4. QED BY <1>1, <1>3

(* Every result a tool passes on describes one pass of retrieval, and the     *)
(* graph's variables keep their shape: corrections, failures, retries and     *)
(* deadlines never leave a context of chunks that were not retrieved, or the  *)
(* confidence of another pass.                                                *)
THEOREM ResultsAlwaysAgree == Spec => []ResultsAgree
<1>1. ASSUME IInv, Conversed, Called, Noted
      PROVE  ResultsAgree
  <2>1. RetrievalTypeOK
    <3>1. reserved \in [Turns -> 0..1] /\ corrections \in [Turns -> Nat]
      BY <1>1 DEF IInv, Budgeted
    <3>2. QED BY <1>1, <3>1 DEF Called, RetrievalTypeOK
  <2>2. TypeOK
    <3>1. executed \in [Queries -> Nat] /\ state \in State
      BY <1>1, StateTyped DEF IInv
    <3>2. QED BY <1>1, <2>1, <3>1 DEF IInv, Noted, TypeOK
  <2>3. ArtifactsAgree
    BY <1>1 DEF Called, Settled, Outcome, ArtifactsAgree, At
  <2>4. QED BY <2>2, <2>3 DEF ResultsAgree
<1>2. Spec => [](Conversed /\ Called /\ Noted)
  <2>1. Init => Conversed /\ Called /\ Noted
    BY ConversedInit, ResultsInit
  <2>2. IInv /\ (Conversed /\ Called /\ Noted) /\ [Next]_vars => (Conversed /\ Called /\ Noted)'
    BY ConversedStep, CalledStep, NotedStep
  <2>3. QED BY <2>1, <2>2, InvariantAlways, PTL DEF Spec
<1>3. QED BY <1>1, <1>2, InvariantAlways, PTL
=============================================================================
