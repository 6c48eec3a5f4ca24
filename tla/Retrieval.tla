----------------------------- MODULE Retrieval -----------------------------
(***************************************************************************)
(* The retrieval calls one request makes through its tools: the passes of  *)
(* the RAG pipeline over one mutable draft per call, the correction of a   *)
(* first pass, and the budget of one correction that all calls of a        *)
(* request share, those included that run in a thread after their deadline *)
(* passed.                                                                 *)
(*                                                                         *)
(* Requests are the turns of an agent (module AgentTurn).  A chunk is its  *)
(* id; of the ranking only the chunks that survive a pass are modelled, of *)
(* the confidence only which pass it was computed from and whether it is   *)
(* low.                                                                    *)
(***************************************************************************)
EXTENDS Naturals, FiniteSets

CONSTANTS
  Queries,      \* the distinct tool calls (tool name and arguments)
  Turns,        \* requests
  Chunks, Web,  \* chunks of the collection, and a result of the web fallback
  Correctable,  \* queries whose plan matches a correction trigger
  Bridged,      \* queries whose tool runs in a thread
  MaxAttempts,  \* attempts of a tool call
  Null

ASSUME RetrievalAssumption ==
  /\ Web \notin Chunks /\ Correctable \subseteq Queries /\ Bridged \subseteq Queries
  /\ MaxAttempts \in 1..2

VARIABLES
  call,        \* per query: the tool call of the current turn
  reserved,    \* per turn: reservations taken from its correction budget
  stragglers,  \* <<turn, query>> of threads past their deadline, before the budget
  corrections  \* history: per turn, corrected retrievals that ran

retrievalVars == <<call, reserved, stragglers, corrections>>

Passes   == {"first", "corrected"}
Statuses == {"disabled", "ineligible", "budget_exhausted", "completed", "timed_out", "failed"}
Draft == [raw: SUBSET Chunks, docs: SUBSET (Chunks \cup {Web}), context: SUBSET (Chunks \cup {Web}),
          confidence: Passes \cup {Null}, low: BOOLEAN, error: BOOLEAN,
          status: Statuses, selected: Passes]
Call == [at: {"idle", "first", "correcting", "ended"},
         attempt: 0..MaxAttempts, draft: Draft, outcome: {Null, "value", "safe_error"}]

NewDraft == [raw |-> {}, docs |-> {}, context |-> {}, confidence |-> Null, low |-> FALSE,
             error |-> FALSE, status |-> "disabled", selected |-> "first"]
NoCall   == [at |-> "idle", attempt |-> 0, draft |-> NewDraft, outcome |-> Null]
NewCall  == [NoCall EXCEPT !.at = "first", !.attempt = 1]

At(q, at)      == call[q].at = at
Draw(q, at, d) == call' = [call EXCEPT ![q].at = at, ![q].draft = d]

RetrievalInit ==
  /\ call = [q \in Queries |-> NoCall]
  /\ reserved = [t \in Turns |-> 0] /\ stragglers = {}
  /\ corrections = [t \in Turns |-> 0]

-----------------------------------------------------------------------------
(* Any exception of the pipeline empties the chunks and the context; the    *)
(* diagnostics of confidence and correction stay.                           *)
Failed(d) == [d EXCEPT !.error = TRUE, !.raw = {}, !.context = {}, !.docs = {}]

(* Retrieval, reranking (some chunks survive) and confidence; without a     *)
(* reranker there is no confidence and every chunk survives.                *)
Confident(d, pass, docs, low) ==
  [d EXCEPT !.docs = docs, !.confidence = pass, !.low = low]
RankedBy(d, pass, raw) ==
  {[d EXCEPT !.raw = raw, !.docs = raw, !.confidence = Null]}
  \cup {Confident([d EXCEPT !.raw = raw], pass, docs, low) :
          docs \in SUBSET raw, low \in BOOLEAN}
Ranked(d, pass) ==
  {r \in UNION {RankedBy(d, pass, raw) : raw \in SUBSET Chunks} :
     r.confidence # Null /\ r.docs = {} => r.low}

(* CorrectionAttemptBudget.reserve, under its lock. *)
MayReserve(t) == reserved[t] < 1
Reserve(t) ==
  /\ reserved' = [reserved EXCEPT ![t] = @ + 1]
  /\ corrections' = [corrections EXCEPT ![t] = @ + 1]

(* A corrected pass is taken when it brings a chunk the first pass lacks:   *)
(* then everything that describes the chunks is taken with it.  A pass that *)
(* fails or exceeds its own deadline changes nothing.                       *)
SelectedWithoutConfidence(d, c) ==                        \* a mutant of the next
  IF c.docs \subseteq d.docs THEN d
  ELSE [d EXCEPT !.docs = c.docs, !.raw = c.raw, !.selected = "corrected"]
Selected(d, c) ==
  IF c.docs \subseteq d.docs THEN d
  ELSE [d EXCEPT !.docs = c.docs, !.raw = c.raw, !.selected = "corrected",
                 !.confidence = c.confidence, !.low = c.low]

Corrected(d) ==
  {Selected(d, c) : c \in {c \in Ranked(NewDraft, "corrected") :
                             (c.confidence = Null) = (d.confidence = Null)}}
  \cup {[d EXCEPT !.status = status] : status \in {"timed_out", "failed"}}

(* Deduplication keeps some chunk of each group; a low confidence may add a *)
(* web result; the rest becomes the context, or the pipeline fails.         *)
Built(d) ==
  {[d EXCEPT !.docs = kept, !.context = kept] :
     kept \in {k \in SUBSET (d.docs \cup {Web}) :
                /\ d.docs # {} => k \ {Web} # {}
                /\ Web \in k => d.confidence # Null /\ d.low}}
  \cup {Failed(d)}

(* The first pass, and the reservation of a correction for what it found.   *)
Eligible(d, q) == d.docs # {} /\ q \in Correctable

FirstPass(q, t) ==
  /\ At(q, "first")
  /\ \/ \E d \in Ranked(NewDraft, "first") :
          IF Eligible(d, q) /\ MayReserve(t)
          THEN /\ Draw(q, "correcting", [d EXCEPT !.status = "completed"])
               /\ Reserve(t)
          ELSE /\ \E b \in Built([d EXCEPT !.status =
                      IF Eligible(d, q) THEN "budget_exhausted" ELSE "ineligible"]) :
                    Draw(q, "ended", b)
               /\ UNCHANGED <<reserved, corrections>>
     \/ Draw(q, "ended", Failed(NewDraft)) /\ UNCHANGED <<reserved, corrections>>
  /\ UNCHANGED stragglers

Correct(q) ==
  /\ At(q, "correcting")
  /\ \E c \in Corrected(call[q].draft) : \E b \in Built(c) : Draw(q, "ended", b)
  /\ UNCHANGED <<reserved, stragglers, corrections>>

-----------------------------------------------------------------------------
(* What the tool makes of it: an error is raised and tried again once, the  *)
(* deadline answers for a call that is still running, and its thread, if it *)
(* has one, goes on to the budget of the turn it was started in.            *)
Answer(q, outcome) == call' = [call EXCEPT ![q] = [NoCall EXCEPT !.at = "ended", !.outcome = outcome]]

Return(q) ==
  /\ At(q, "ended") /\ call[q].outcome = Null
  /\ IF ~call[q].draft.error THEN Answer(q, "value")
     ELSE \/ Answer(q, "safe_error")
          \/ /\ call[q].attempt < MaxAttempts
             /\ call' = [call EXCEPT ![q] = [NewCall EXCEPT !.attempt = call[q].attempt + 1]]
  /\ UNCHANGED <<reserved, stragglers, corrections>>

Expire(q, t) ==
  /\ ~At(q, "idle") /\ call[q].outcome = Null
  /\ Answer(q, "safe_error")
  /\ stragglers' = IF q \in Bridged /\ At(q, "first")
                   THEN stragglers \cup {<<t, q>>} ELSE stragglers
  /\ UNCHANGED <<reserved, corrections>>

Straggle(t, q) ==
  /\ <<t, q>> \in stragglers
  /\ stragglers' = stragglers \ {<<t, q>>}
  /\ \/ q \in Correctable /\ MayReserve(t) /\ Reserve(t)
     \/ UNCHANGED <<reserved, corrections>>
  /\ UNCHANGED call

Retrieve(t) ==
  \/ \E q \in Queries : FirstPass(q, t) \/ Correct(q) \/ Return(q) \/ Expire(q, t)
  \/ \E u \in Turns, q \in Queries : Straggle(u, q)

-----------------------------------------------------------------------------
RetrievalTypeOK ==
  /\ call \in [Queries -> Call]
  /\ reserved \in [Turns -> 0..1] /\ stragglers \in SUBSET (Turns \X Queries)
  /\ corrections \in [Turns -> Nat]

(* One correction per request: however many of its calls run at the same     *)
(* time, are tried again, or go on in a thread after their deadline and even *)
(* after the turn ended, at most one corrected retrieval runs for a turn.    *)
OneCorrectionPerRequest == \A t \in Turns : corrections[t] <= 1

(* The artifacts of a result describe the same pass: its context only holds  *)
(* chunks of the raw retrieval it reports (and web results), its confidence  *)
(* is that of the selected pass, and a web result means it was low; after a  *)
(* failure there is neither context nor raw retrieval.                       *)
ArtifactsAgree ==
  \A q \in Queries :
    LET d == call[q].draft
    IN  At(q, "ended") /\ call[q].outcome = Null =>
          /\ d.context \ {Web} \subseteq d.raw
          /\ ~d.error => d.confidence \in {Null, d.selected}
          /\ Web \in d.context => d.confidence # Null /\ d.low
          /\ d.error => d.context = {} /\ d.raw = {}
=============================================================================
