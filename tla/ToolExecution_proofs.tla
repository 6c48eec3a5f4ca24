------------------------ MODULE ToolExecution_proofs ------------------------
(***************************************************************************)
(* Proofs about ToolExecution, for every finite set of calls of any kinds, *)
(* every number of permits, and any deadline and retry policy.  What the   *)
(* first part says of the calls does not depend on the semaphore: it holds *)
(* whichever call is admitted and when.  The second part says of the       *)
(* semaphore that it leaks no permit and strands no waiter.                *)
(*                                                                         *)
(* The third part is about ToolCatalogue, for every set of requests, any   *)
(* worlds and any configurations: what a readiness check found was so,     *)
(* nobody probes beside another, and what is served was configured.        *)
(***************************************************************************)
EXTENDS ToolExecution, ToolCatalogue, FiniteSetTheorems, SequenceTheorems, WellFoundedInduction, TLAPS

CallsTyped ==
  /\ call \in [Calls -> Call]
  /\ workers \subseteq Calls \X (1..MaxAttempts)
  /\ report \in [Calls -> SUBSET Events]
  /\ outcome \in [Calls -> Outcomes \cup {Null}]

Idles(c) == \A n \in 1..MaxAttempts : <<c, n>> \notin workers

(* Where a call stands decides how often its tool was started, whether a    *)
(* thread can be running for it, and what was reported so far.              *)
Unstarted(c)   == call[c].at \in {"new", "admission"} =>
                    call[c].attempts = 0 /\ ~call[c].mayContinue /\ Idles(c)
Attempting(c)  == call[c].at = "attempt" =>
                    /\ call[c].attempts \in 1..MaxAttempts
                    /\ call[c].mayContinue = (c \in Bridged)
                    /\ call[c].ready # Null => Idles(c)
BackingOff(c)  == call[c].at = "delay" =>
                    call[c].attempts = 1 /\ MaxAttempts = 2 /\ Idles(c)
Undecided(c)   == call[c].at # "ended" =>
                    outcome[c] = Null /\ report[c] \subseteq {"retry_started"}
CurrentOnly(c) == \A n \in 1..MaxAttempts :
                    <<c, n>> \in workers => c \in Bridged /\ call[c].attempts = n
Accounted(c)   == \A n \in 1..MaxAttempts :
                    <<c, n>> \in workers =>
                      \/ call[c].at = "attempt"
                      \/ outcome[c] = "late" /\ "sync_timeout" \in report[c]
                      \/ outcome[c] = "cancelled"
Told(c) ==
  /\ outcome[c] = "late" <=> "deadline_exceeded" \in report[c]
  /\ outcome[c] = "safe_error" <=> "terminal_failure" \in report[c]
  /\ "retry_succeeded" \in report[c] => outcome[c] = "value"
  /\ outcome[c] \in {"value", "safe_error"} => ~call[c].expired

CallInv(c) ==
  /\ Unstarted(c) /\ Attempting(c) /\ BackingOff(c) /\ Undecided(c)
  /\ CurrentOnly(c) /\ Accounted(c) /\ Told(c)

(* The inductive invariant. *)
CallsInv == CallsTyped /\ \A c \in Calls : CallInv(c)

-----------------------------------------------------------------------------
(* A call that stays where it is keeps its invariant, also when a thread of *)
(* it ends: only its clock, its marks and what its tool answered may move.  *)
LEMMA CallStays ==
  ASSUME NEW d \in Calls, CallInv(d),
         \A n \in 1..MaxAttempts : <<d, n>> \in workers' => <<d, n>> \in workers,
         report'[d] = report[d], outcome'[d] = outcome[d],
         call'[d].at = call[d].at, call'[d].attempts = call[d].attempts,
         call'[d].mayContinue = call[d].mayContinue,
         call'[d].expired = call[d].expired \/ call[d].at # "ended",
         call'[d].ready \in {call[d].ready, Null} \/ Idles(d)'
  PROVE  CallInv(d)'
<1>1. /\ Unstarted(d) /\ Attempting(d) /\ BackingOff(d) /\ Undecided(d)
      /\ CurrentOnly(d) /\ Accounted(d) /\ Told(d)
  BY DEF CallInv
<1>2. Idles(d) => Idles(d)'
  BY DEF Idles
<1>3. Unstarted(d)' /\ BackingOff(d)' /\ Undecided(d)'
  BY <1>1, <1>2 DEF Unstarted, BackingOff, Undecided
<1>4. Attempting(d)'
  BY <1>1, <1>2 DEF Attempting
<1>5. CurrentOnly(d)' /\ Accounted(d)'
  BY <1>1 DEF CurrentOnly, Accounted
<1>6. Told(d)'
  <2>1. call[d].at # "ended" => outcome[d] \notin {"value", "safe_error"}
    BY <1>1, NullAssumption DEF Undecided, Outcomes
  <2>2. QED BY <1>1, <2>1 DEF Told
<1>7. QED BY <1>3, <1>4, <1>5, <1>6 DEF CallInv

(* A step of one call that keeps the types and re-establishes the call's    *)
(* own invariant re-establishes them all.                                   *)
LEMMA OneCallMoves ==
  ASSUME CallsInv, NEW c \in Calls, NEW record \in Call,
         NEW events \in SUBSET Events, NEW how \in Outcomes \cup {Null},
         call' = [call EXCEPT ![c] = record],
         report' = [report EXCEPT ![c] = events],
         outcome' = [outcome EXCEPT ![c] = how],
         workers' \subseteq Calls \X (1..MaxAttempts),
         \A d \in Calls \ {c} : \A n \in 1..MaxAttempts :
           <<d, n>> \in workers' <=> <<d, n>> \in workers,
         CallInv(c)'
  PROVE  CallsInv'
<1>1. CallsTyped'
  BY DEF CallsInv, CallsTyped
<1>2. ASSUME NEW d \in Calls PROVE CallInv(d)'
  <2>1. CASE d = c
    BY <2>1
  <2>2. CASE d # c
    BY <2>2, CallStays DEF CallsInv, CallsTyped
  <2>3. QED BY <2>1, <2>2
<1>3. QED BY <1>1, <1>2 DEF CallsInv

(* A call that ends, with a verdict and a report that agree. *)
LEMMA EndKeeps ==
  ASSUME CallsInv, NEW c \in Calls, NEW how \in Outcomes, NEW events \in SUBSET Events,
         call[c].at # "new", call[c].at # "ended",
         End(c, how, events), workers' = workers,
         how = "late" <=> "deadline_exceeded" \in events,
         how = "safe_error" <=> "terminal_failure" \in events,
         "retry_succeeded" \in events => how = "value",
         how \in {"value", "safe_error"} => ~call[c].expired,
         \/ Idles(c)
         \/ how = "late" /\ "sync_timeout" \in events
         \/ how = "cancelled"
  PROVE  CallsInv'
<1> DEFINE record == [call[c] EXCEPT !.at = "ended", !.ready = Null, !.left = 0,
                        !.nap = 0, !.pending = FALSE, !.mayContinue = FALSE]
<1>1. call[c] \in Call /\ report[c] \subseteq {"retry_started"} /\ CallInv(c)
  BY DEF CallsInv, CallsTyped, CallInv, Undecided
<1>2. record \in Call
  <2>1. "ended" \in Stations /\ 0 \in 0..Deadline /\ 0 \in 0..Delay
    BY PolicyAssumption DEF Stations
  <2>2. QED BY <1>1, <2>1 DEF Call
<1>3. /\ call' = [call EXCEPT ![c] = record]
      /\ report' = [report EXCEPT ![c] = report[c] \cup events]
      /\ outcome' = [outcome EXCEPT ![c] = how]
  BY DEF End
<1>4. report[c] \cup events \in SUBSET Events
  BY <1>1 DEF Events
<1>5. call'[c] = record /\ report'[c] = report[c] \cup events /\ outcome'[c] = how
  BY <1>3 DEF CallsInv, CallsTyped
<1>6. record.at = "ended" /\ record.attempts = call[c].attempts
      /\ record.expired = call[c].expired
  BY <1>1 DEF Call
<1>7. CallInv(c)'
  <2>1. Told(c)'
    BY <1>1, <1>5, <1>6 DEF Told
  <2>2. Accounted(c)' /\ CurrentOnly(c)'
    BY <1>1, <1>5, <1>6 DEF Accounted, CurrentOnly, Idles, CallInv
  <2>3. Unstarted(c)' /\ Attempting(c)' /\ BackingOff(c)' /\ Undecided(c)'
    BY <1>5, <1>6 DEF Unstarted, Attempting, BackingOff, Undecided
  <2>4. QED BY <2>1, <2>2, <2>3 DEF CallInv
<1>8. QED
  BY <1>2, <1>3, <1>4, <1>7, OneCallMoves DEF CallsInv, CallsTyped

(* A result, or a failure turned into a safe error, while no thread runs.   *)
LEMMA DeliverKeeps ==
  ASSUME CallsInv, NEW c \in Calls, NEW how \in {"value", "safe_error"},
         NEW events \in SUBSET {"retry_succeeded", "terminal_failure"},
         call[c].at = "attempt", Idles(c),
         Deliver(c, how, events), workers' = workers,
         how = "safe_error" <=> "terminal_failure" \in events,
         "retry_succeeded" \in events => how = "value"
  PROVE  CallsInv'
<1>1. how \in Outcomes /\ "late" \in Outcomes /\ events \in SUBSET Events
      /\ {"deadline_exceeded"} \in SUBSET Events
  BY DEF Outcomes, Events
<1>2. CASE call[c].expired
  <2>1. End(c, "late", {"deadline_exceeded"})
    BY <1>2 DEF Deliver
  <2>2. QED BY <1>1, <2>1, EndKeeps
<1>3. CASE ~call[c].expired
  <2>1. End(c, how, events)
    BY <1>3 DEF Deliver
  <2>2. QED BY <1>1, <1>3, <2>1, EndKeeps
<1>4. QED BY <1>2, <1>3

(* A cancellation that leaves the context: a thread that goes on belongs to *)
(* the current attempt, and mayContinue tells of it.                        *)
LEMMA UnwindKeeps ==
  ASSUME CallsInv, NEW c \in Calls, Live(c), Unwind(c), workers' = workers
  PROVE  CallsInv'
<1>1. call[c].at \in {"admission", "attempt", "delay"} /\ CallInv(c)
  BY DEF Live, CallsInv
<1>2. Idles(c) \/ call[c].mayContinue
  <2>1. CASE call[c].at = "attempt"
    BY <1>1, <2>1 DEF CallInv, Attempting, CurrentOnly, Idles
  <2>2. CASE call[c].at # "attempt"
    BY <1>1, <2>2 DEF CallInv, Unstarted, BackingOff
  <2>3. QED BY <2>1, <2>2
<1>3. CASE call[c].expired /\ ~call[c].callerCancelled
  <2>1. End(c, "late", DeadlineReport(c))
    BY <1>3 DEF Unwind
  <2>2. /\ DeadlineReport(c) \in SUBSET Events /\ "late" \in Outcomes
        /\ "deadline_exceeded" \in DeadlineReport(c)
        /\ "terminal_failure" \notin DeadlineReport(c)
        /\ "retry_succeeded" \notin DeadlineReport(c)
        /\ call[c].mayContinue => "sync_timeout" \in DeadlineReport(c)
    BY DEF DeadlineReport, Events, Outcomes
  <2>3. QED BY <1>1, <1>2, <2>1, <2>2, EndKeeps
<1>4. CASE ~(call[c].expired /\ ~call[c].callerCancelled)
  <2>1. End(c, "cancelled", {})
    BY <1>4 DEF Unwind
  <2>2. "cancelled" \in Outcomes /\ {} \in SUBSET Events
    BY DEF Outcomes
  <2>3. QED BY <1>1, <2>1, <2>2, EndKeeps
<1>5. QED BY <1>3, <1>4

-----------------------------------------------------------------------------
(* The steps of a call's own task. *)

LEMMA AttemptStarts ==
  ASSUME CallsInv, NEW c \in Calls, NEW n \in 1..MaxAttempts,
         NEW events \in SUBSET {"retry_started"},
         call[c].at # "ended", Idles(c),
         call' = [call EXCEPT ![c] = Attempted(c, n)],
         workers' = workers \cup Thread(c, n),
         report' = [report EXCEPT ![c] = @ \cup events],
         UNCHANGED outcome
  PROVE  CallsInv'
<1>1. call[c] \in Call /\ report[c] \subseteq {"retry_started"} /\ CallInv(c) /\ outcome[c] = Null
  BY DEF CallsInv, CallsTyped, CallInv, Undecided
<1>2. Attempted(c, n) \in Call
  <2>1. "attempt" \in Stations /\ n \in 0..MaxAttempts /\ (c \in Bridged) \in BOOLEAN
    BY PolicyAssumption DEF Stations
  <2>2. QED BY <1>1, <2>1 DEF Call, Attempted
<1>3. /\ call'[c] = Attempted(c, n) /\ report'[c] = report[c] \cup events
      /\ outcome'[c] = Null /\ outcome' = [outcome EXCEPT ![c] = Null]
  BY <1>1 DEF CallsInv, CallsTyped
<1>4. /\ Attempted(c, n).at = "attempt" /\ Attempted(c, n).attempts = n
      /\ Attempted(c, n).expired = call[c].expired
      /\ Attempted(c, n).ready = Null /\ Attempted(c, n).mayContinue = (c \in Bridged)
  BY <1>1 DEF Call, Attempted
<1>5. \A d \in Calls, m \in 1..MaxAttempts :
        <<d, m>> \in workers' <=> <<d, m>> \in workers \/ (d = c /\ m = n /\ c \in Bridged)
  BY DEF Thread
<1>6. CallInv(c)'
  <2>1. Told(c)'
    BY <1>1, <1>3, <1>4 DEF Told, CallInv
  <2>2. Accounted(c)' /\ CurrentOnly(c)'
    BY <1>3, <1>4, <1>5 DEF Accounted, CurrentOnly, Idles
  <2>3. Unstarted(c)' /\ Attempting(c)' /\ BackingOff(c)' /\ Undecided(c)'
    BY <1>1, <1>3, <1>4 DEF Unstarted, Attempting, BackingOff, Undecided
  <2>4. QED BY <2>1, <2>2, <2>3 DEF CallInv
<1>7. report[c] \cup events \in SUBSET Events
  BY <1>1 DEF Events
<1>8. Thread(c, n) \subseteq Calls \X (1..MaxAttempts)
  BY DEF Thread
<1>9. workers' \subseteq Calls \X (1..MaxAttempts)
  BY <1>8 DEF CallsInv, CallsTyped
<1>10. report' = [report EXCEPT ![c] = report[c] \cup events]
  OBVIOUS
<1>11. /\ outcome' = [outcome EXCEPT ![c] = Null] /\ Null \in Outcomes \cup {Null}
       /\ \A d \in Calls \ {c} : \A m \in 1..MaxAttempts :
            <<d, m>> \in workers' <=> <<d, m>> \in workers
  BY <1>3, <1>5
<1>12. QED
  BY <1>2, <1>6, <1>7, <1>9, <1>10, <1>11, OneCallMoves


(* The call gets another record where it stands, and nothing else changes.  *)
LEMMA RecordMoves ==
  ASSUME CallsInv, NEW c \in Calls, NEW record \in Call,
         call' = [call EXCEPT ![c] = record],
         UNCHANGED <<workers, report, outcome>>,
         CallInv(c)'
  PROVE  CallsInv'
<1>1. report[c] \in SUBSET Events /\ outcome[c] \in Outcomes \cup {Null}
  BY DEF CallsInv, CallsTyped
<1>2. report' = [report EXCEPT ![c] = report[c]] /\ outcome' = [outcome EXCEPT ![c] = outcome[c]]
  BY DEF CallsInv, CallsTyped
<1>3. QED
  BY <1>1, <1>2, OneCallMoves DEF CallsInv, CallsTyped

LEMMA TaskSteps ==
  ASSUME CallsInv, NEW c \in Calls, Invoke(c) \/ Run(c)
  PROVE  CallsInv'
<1>1. call[c] \in Call /\ report[c] \in SUBSET Events /\ CallInv(c)
  BY DEF CallsInv, CallsTyped
<1>2. 1 \in 1..MaxAttempts
  BY PolicyAssumption
<1>3. {} \in SUBSET {"retry_started"} /\ report = [report EXCEPT ![c] = @ \cup {}]
  BY DEF CallsInv, CallsTyped
<1>4. CASE Invoke(c)
  <2>1. call[c].at = "new" /\ Idles(c)
    BY <1>1, <1>4 DEF Invoke, CallInv, Unstarted
  <2>2. CASE call' = [call EXCEPT ![c] = Attempted(c, 1)] /\ workers' = workers \cup Thread(c, 1)
    BY <1>2, <1>3, <1>4, <2>1, <2>2, AttemptStarts DEF Invoke
  <2>3. CASE call' = [call EXCEPT ![c].at = "admission"] /\ UNCHANGED workers
    <3> DEFINE record == [call[c] EXCEPT !.at = "admission"]
    <3>1. record \in Call /\ call' = [call EXCEPT ![c] = record]
      BY <1>1, <2>3 DEF Call, Stations
    <3>2. /\ call'[c].at = "admission" /\ call'[c].attempts = call[c].attempts
          /\ call'[c].mayContinue = call[c].mayContinue /\ call'[c].expired = call[c].expired
      BY <1>1, <3>1 DEF Call, CallsInv, CallsTyped
    <3>3. UNCHANGED <<workers, report, outcome>>
      BY <1>4, <2>3 DEF Invoke
    <3>4. CallInv(c)'
      BY <1>1, <2>1, <3>2, <3>3
      DEF CallInv, Unstarted, Attempting, BackingOff, Undecided, CurrentOnly, Accounted, Told, Idles
    <3>5. QED BY <3>1, <3>3, <3>4, RecordMoves
  <2>4. QED BY <1>4, <2>2, <2>3 DEF Invoke
<1>5. CASE Admit(c)
  <2>1. call[c].at = "admission" /\ Idles(c)
    BY <1>1, <1>5 DEF Admit, CallInv, Unstarted
  <2>2. QED BY <1>2, <1>3, <1>5, <2>1, AttemptStarts DEF Admit
<1>6. CASE Retry(c)
  <2>1. call[c].at = "delay" /\ Idles(c) /\ 2 \in 1..MaxAttempts
    BY <1>1, <1>6 DEF Retry, CallInv, BackingOff
  <2>2. QED BY <1>6, <2>1, AttemptStarts DEF Retry
<1>7. CASE LeaveQueue(c)
  <2>1. call[c].at = "admission" /\ Idles(c) /\ ~call[c].mayContinue
    BY <1>1, <1>7 DEF LeaveQueue, CallInv, Unstarted
  <2>2. QED BY <1>7, <2>1, UnwindKeeps DEF LeaveQueue, Live
<1>8. CASE Interrupt(c)
  BY <1>8, UnwindKeeps DEF Interrupt, Admitted, Live
<1>9. CASE Return(c)
  <2>1. call[c].at = "attempt" /\ Idles(c)
    BY <1>1, <1>9, NullAssumption DEF Return, CallInv, Attempting, Answers
  <2>2. QED BY <1>9, <2>1, DeliverKeeps DEF Return, Outcomes, Events
<1>10. CASE Fail(c)
  <2>1. call[c].at = "attempt" /\ Idles(c)
    BY <1>1, <1>10, NullAssumption DEF Fail, CallInv, Attempting, Answers
  <2>2. QED BY <1>10, <2>1, DeliverKeeps DEF Fail, Outcomes, Events
<1>11. CASE Bubble(c)
  <2>1. call[c].at = "attempt" /\ Idles(c)
    BY <1>1, <1>11, NullAssumption DEF Bubble, CallInv, Attempting, Answers
  <2>2. QED BY <1>11, <2>1, EndKeeps DEF Bubble, Outcomes, Events
<1>12. CASE BackOff(c)
  <2>1. call[c].at = "attempt" /\ Idles(c) /\ call[c].attempts = 1 /\ MaxAttempts = 2
    BY <1>1, <1>12, NullAssumption, PolicyAssumption
    DEF BackOff, RetryAuthorized, CallInv, Attempting, Answers
  <2> DEFINE record == [call[c] EXCEPT !.at = "delay", !.nap = Delay, !.ready = Null,
                          !.mayContinue = FALSE]
  <2>2. record \in Call /\ call' = [call EXCEPT ![c] = record]
    <3>1. "delay" \in Stations /\ Delay \in 0..Delay
      BY PolicyAssumption DEF Stations
    <3>2. QED BY <1>1, <1>12, <3>1 DEF Call, BackOff
  <2>3. /\ call'[c].at = "delay" /\ call'[c].attempts = 1
        /\ call'[c].expired = call[c].expired
    BY <1>1, <2>1, <2>2 DEF Call, CallsInv, CallsTyped
  <2>4. UNCHANGED <<workers, report, outcome>>
    BY <1>12 DEF BackOff
  <2>5. CallInv(c)'
    BY <1>1, <2>1, <2>3, <2>4
    DEF CallInv, Unstarted, Attempting, BackingOff, Undecided, CurrentOnly, Accounted, Told, Idles
  <2>6. QED BY <2>2, <2>4, <2>5, RecordMoves
<1>13. CASE Suppress(c)
  <2> DEFINE record == [call[c] EXCEPT !.pending = FALSE, !.ready = Null]
  <2>1. record \in Call /\ call' = [call EXCEPT ![c] = record]
    BY <1>1, <1>13 DEF Call, Suppress
  <2>2. UNCHANGED <<workers, report, outcome>>
    BY <1>13 DEF Suppress
  <2>3. CallInv(c)'
    BY <1>1, <2>1, <2>2, CallStays DEF Call, CallsInv, CallsTyped
  <2>4. QED BY <2>1, <2>2, <2>3, RecordMoves
<1>14. QED
  BY <1>4, <1>5, <1>6, <1>7, <1>8, <1>9, <1>10, <1>11, <1>12, <1>13 DEF Run

-----------------------------------------------------------------------------
(* The steps of timers, callers, tools and threads: no call changes place.  *)

LEMMA WorldSteps ==
  ASSUME CallsInv, NEW c \in Calls,
         \/ Expire(c) \/ CallerCancel(c)
         \/ \E a \in Answers : Answer(c, a) \/ \E n \in 1..2 : ThreadEnds(c, n, a)
  PROVE  CallsInv'
<1>1. call[c] \in Call /\ CallInv(c)
  BY DEF CallsInv, CallsTyped
<1>2. CASE Expire(c)
  <2> DEFINE record == [call[c] EXCEPT !.expired = TRUE, !.pending = TRUE]
  <2>1. record \in Call /\ call' = [call EXCEPT ![c] = record] /\ call[c].at # "ended"
    BY <1>1, <1>2 DEF Call, Expire, Live
  <2>2. UNCHANGED <<workers, report, outcome>>
    BY <1>2 DEF Expire
  <2>3. CallInv(c)'
    BY <1>1, <2>1, <2>2, CallStays DEF Call, CallsInv, CallsTyped
  <2>4. QED BY <2>1, <2>2, <2>3, RecordMoves
<1>3. CASE CallerCancel(c)
  <2> DEFINE record == [call[c] EXCEPT !.callerCancelled = TRUE, !.pending = TRUE]
  <2>1. record \in Call /\ call' = [call EXCEPT ![c] = record]
    BY <1>1, <1>3 DEF Call, CallerCancel
  <2>2. UNCHANGED <<workers, report, outcome>>
    BY <1>3 DEF CallerCancel
  <2>3. CallInv(c)'
    BY <1>1, <2>1, <2>2, CallStays DEF Call, CallsInv, CallsTyped
  <2>4. QED BY <2>1, <2>2, <2>3, RecordMoves
<1>4. ASSUME NEW a \in Answers, Answer(c, a) PROVE CallsInv'
  <2> DEFINE record == [call[c] EXCEPT !.ready = a]
  <2>1. record \in Call /\ call' = [call EXCEPT ![c] = record]
    BY <1>1, <1>4 DEF Call, Answer
  <2>2. UNCHANGED <<workers, report, outcome>> /\ c \notin Bridged
    BY <1>4 DEF Answer
  <2>3. Idles(c)'
    BY <1>1, <2>2 DEF CallInv, CurrentOnly, Idles
  <2>4. CallInv(c)'
    BY <1>1, <2>1, <2>2, <2>3, CallStays DEF Call, CallsInv, CallsTyped
  <2>5. QED BY <2>1, <2>2, <2>4, RecordMoves
<1>5. ASSUME NEW a \in Answers, NEW n \in 1..2, ThreadEnds(c, n, a) PROVE CallsInv'
  <2>1. workers' = workers \ {<<c, n>>} /\ <<c, n>> \in workers /\ UNCHANGED <<report, outcome>>
    BY <1>5 DEF ThreadEnds
  <2>2. n \in 1..MaxAttempts
    BY <2>1 DEF CallsInv, CallsTyped
  <2>3. Idles(c)'
    <3>1. \A m \in 1..MaxAttempts : <<c, m>> \in workers => m = n
      BY <1>1, <2>1, <2>2 DEF CallInv, CurrentOnly
    <3>2. QED BY <2>1, <3>1 DEF Idles
  <2> DEFINE record == IF Awaiting(c) /\ call[c].attempts = n
                       THEN [call[c] EXCEPT !.ready = a] ELSE call[c]
  <2>4. record \in Call /\ call' = [call EXCEPT ![c] = record]
    BY <1>1, <1>5 DEF Call, ThreadEnds, CallsInv, CallsTyped
  <2>5. CallInv(c)'
    <3>1. call'[c] = record
      BY <2>4 DEF CallsInv, CallsTyped
    <3>2. /\ record.at = call[c].at /\ record.attempts = call[c].attempts
          /\ record.mayContinue = call[c].mayContinue /\ record.expired = call[c].expired
      BY <1>1 DEF Call
    <3>3. QED BY <1>1, <2>1, <2>3, <3>1, <3>2, CallStays
  <2>6. report' = [report EXCEPT ![c] = report[c]] /\ outcome' = [outcome EXCEPT ![c] = outcome[c]]
        /\ report[c] \in SUBSET Events /\ outcome[c] \in Outcomes \cup {Null}
    BY <2>1 DEF CallsInv, CallsTyped
  <2>7. /\ workers' \subseteq Calls \X (1..MaxAttempts)
        /\ \A d \in Calls \ {c} : \A m \in 1..MaxAttempts :
             <<d, m>> \in workers' <=> <<d, m>> \in workers
    BY <2>1 DEF CallsInv, CallsTyped
  <2>8. QED BY <2>4, <2>5, <2>6, <2>7, OneCallMoves
<1>6. QED BY <1>2, <1>3, <1>4, <1>5

LEMMA TimePasses ==
  ASSUME CallsInv, Tick
  PROVE  CallsInv'
<1> DEFINE later(c) == [call[c] EXCEPT !.left = Less(@), !.nap = Less(@)]
<1>1. UNCHANGED <<workers, report, outcome>>
      /\ call' = [c \in Calls |-> IF Live(c) THEN later(c) ELSE call[c]]
  BY DEF Tick
<1>2. ASSUME NEW c \in Calls PROVE call'[c] \in Call /\ CallInv(c)'
  <2>1. call[c] \in Call /\ CallInv(c)
    BY DEF CallsInv, CallsTyped
  <2>2. \A n \in 0..Deadline : Less(n) \in 0..Deadline
    BY PolicyAssumption DEF Less
  <2>3. \A n \in 0..Delay : Less(n) \in 0..Delay
    BY PolicyAssumption DEF Less
  <2>4. /\ later(c) \in Call
        /\ later(c).at = call[c].at /\ later(c).attempts = call[c].attempts
        /\ later(c).mayContinue = call[c].mayContinue /\ later(c).expired = call[c].expired
        /\ later(c).ready = call[c].ready
    BY <2>1, <2>2, <2>3 DEF Call
  <2>5. call'[c] = later(c) \/ call'[c] = call[c]
    BY <1>1
  <2>6. QED BY <1>1, <2>1, <2>4, <2>5, CallStays
<1>3. CallsTyped'
  BY <1>1, <1>2 DEF CallsInv, CallsTyped
<1>4. QED BY <1>2, <1>3 DEF CallsInv

-----------------------------------------------------------------------------
(* Where a call stands accounts for its threads, its report and its outcome *)
(* in every reachable state (awrap_tool_call).                              *)
THEOREM CallsInvHolds == Spec => []CallsInv
<1>1. Init => CallsInv
  <2> SUFFICES ASSUME Init PROVE CallsInv
    OBVIOUS
  <2> DEFINE fresh == [at |-> "new", ready |-> Null, attempts |-> 0, left |-> Deadline,
                       nap |-> 0, expired |-> FALSE, pending |-> FALSE,
                       callerCancelled |-> FALSE, mayContinue |-> FALSE]
  <2>1. /\ call = [c \in Calls |-> fresh] /\ workers = {}
        /\ report = [c \in Calls |-> {}] /\ outcome = [c \in Calls |-> Null]
    BY DEF Init
  <2>2. fresh \in Call
    BY PolicyAssumption DEF Call, Stations
  <2>3. CallsTyped
    BY <2>1, <2>2 DEF CallsTyped
  <2>4. ASSUME NEW c \in Calls PROVE CallInv(c)
    BY <2>1, NullAssumption DEF CallInv, Unstarted, Attempting, BackingOff, Undecided,
       CurrentOnly, Accounted, Told, Idles, Outcomes
  <2>5. QED BY <2>3, <2>4 DEF CallsInv
<1>2. CallsInv /\ [Next]_vars => CallsInv'
  <2> SUFFICES ASSUME CallsInv, [Next]_vars PROVE CallsInv'
    OBVIOUS
  <2>1. ASSUME NEW c \in Calls, Invoke(c) \/ Run(c) PROVE CallsInv'
    BY <2>1, TaskSteps
  <2>2. ASSUME NEW c \in Calls,
               \/ Expire(c) \/ CallerCancel(c)
               \/ \E a \in Answers : Answer(c, a) \/ \E n \in 1..2 : ThreadEnds(c, n, a)
        PROVE CallsInv'
    BY <2>2, WorldSteps
  <2>3. CASE Tick
    BY <2>3, TimePasses
  <2>4. CASE UNCHANGED vars
    BY <2>4 DEF vars, CallsInv, CallsTyped, CallInv, Unstarted, Attempting, BackingOff,
       Undecided, CurrentOnly, Accounted, Told, Idles
  <2>5. QED BY <2>1, <2>2, <2>3, <2>4 DEF Next
<1>3. QED BY <1>1, <1>2, PTL DEF Spec

(* The report and the outcome of a call agree, however its deadline, its    *)
(* caller, its retry and a coroutine that swallows a cancellation race      *)
(* (awrap_tool_call, execute_with_retry).                                   *)
THEOREM ReportIsTrue == Spec => []ReportTellsOutcome
<1>1. CallsInv => ReportTellsOutcome
  BY DEF CallsInv, CallInv, Told, ReportTellsOutcome
<1>2. QED BY <1>1, CallsInvHolds, PTL

(* A thread that runs belongs to the one attempt its call is waiting for,   *)
(* or was reported, or was abandoned by the caller (execute_handler,        *)
(* _record_deadline).                                                       *)
THEOREM ThreadsAreAccounted == Spec => []WorkersAccounted
<1>1. CallsInv => WorkersAccounted
  BY DEF CallsInv, CallInv, CurrentOnly, Accounted, WorkersAccounted
<1>2. QED BY <1>1, CallsInvHolds, PTL

-----------------------------------------------------------------------------
(* The semaphore. *)

Held      == {c \in Calls : Admitted(c)}
Weight(s) == s.value + Cardinality(s.granted)
Awake(s)  == s.value > 0 /\ Ungranted(s) # {} => s.granted # {}

SemaphoreOK(s) ==
  /\ s \in [value : Nat, waiters : Seq(Calls), granted : SUBSET Calls]
  /\ s.granted \subseteq Queue(s)
  /\ \A i, j \in DOMAIN s.waiters : s.waiters[i] = s.waiters[j] => i = j

(* The inductive invariant of the admission. *)
AdmissionInv ==
  /\ SemaphoreOK(sem) /\ Awake(sem)
  /\ \A c \in Queue(sem) : call[c].at = "admission"
  /\ Weight(sem) + Cardinality(Held) = Permits

IInv == CallsInv /\ AdmissionInv

LEMMA Smallest ==
  ASSUME NEW S \in SUBSET Nat, IsFiniteSet(S), S # {}
  PROVE  \E n \in S : \A m \in S : n <= m
<1> DEFINE Earlier(n) == {m \in S : m < n}
           T == {Earlier(n) : n \in S}
<1>1. T \subseteq FiniteSubsetsOf(S) /\ T # {}
  <2>1. ASSUME NEW n \in S
        PROVE  Earlier(n) \in FiniteSubsetsOf(S)
    <3>1. Earlier(n) \in SUBSET S
      OBVIOUS
    <3>2. IsFiniteSet(Earlier(n))
      BY <3>1, FS_Subset
    <3>3. QED BY <3>1, <3>2 DEF FiniteSubsetsOf
  <2>2. \A U \in T : U \in FiniteSubsetsOf(S)
    <3> HIDE DEF Earlier
    <3>1. QED BY <2>1
  <2>3. PICK n \in S : TRUE
    OBVIOUS
  <2>4. Earlier(n) \in T
    BY <2>3
  <2>5. QED BY <2>2, <2>4
<1>2. IsWellFoundedOn(StrictSubsetOrdering(S), FiniteSubsetsOf(S))
  BY FS_StrictSubsetOrderingWellFounded
<1>3. \E U \in T : \A V \in T : ~(<<V, U>> \in StrictSubsetOrdering(S))
  BY <1>1, <1>2, WFMin
<1>4. PICK n \in S : \A m \in S : <<Earlier(m), Earlier(n)>> \notin StrictSubsetOrdering(S)
  BY <1>3
<1>5. ASSUME NEW m \in S
      PROVE  n <= m
  <2>1. SUFFICES ASSUME m < n
                 PROVE  FALSE
    OBVIOUS
  <2>2. n \in Nat /\ m \in Nat /\ \A k \in S : k \in Nat
    OBVIOUS
  <2>3. \A k \in S : k < m => k < n
    BY <2>1, <2>2
  <2>4. m \in Earlier(n) /\ m \notin Earlier(m) /\ Earlier(m) \subseteq Earlier(n)
    <3>1. ~(m < m)
      BY <2>2
    <3>2. QED BY <2>1, <2>3, <3>1, Zenon
  <2>5. <<Earlier(m), Earlier(n)>> \in StrictSubsetOrdering(S)
    BY <2>4 DEF StrictSubsetOrdering
  <2>6. QED BY <1>4, <2>5
<1>6. QED BY <1>5

LEMMA GrantedFinite ==
  ASSUME NEW g \in SUBSET Calls
  PROVE  IsFiniteSet(g) /\ Cardinality(g) \in Nat
BY CallsAssumption, FS_Subset, FS_CardinalityType

(* Waiting for a grant is waiting in the queue without one.                  *)
LEMMA UngrantedWaits ==
  ASSUME NEW s, SemaphoreOK(s)
  PROVE  Ungranted(s) # {} <=> Queue(s) \ s.granted # {}
BY DEF Ungranted, Queue

(* A permit that is passed on is not lost, and one waiter is awake.          *)
LEMMA WakeNextKeeps ==
  ASSUME NEW s, SemaphoreOK(s)
  PROVE  /\ SemaphoreOK(WakeNext(s)) /\ Awake(WakeNext(s))
         /\ Queue(WakeNext(s)) = Queue(s) /\ Weight(WakeNext(s)) = Weight(s)
<1>1. CASE s.value = 0 \/ Ungranted(s) = {}
  BY <1>1 DEF WakeNext, Awake, SemaphoreOK
<1>2. CASE ~(s.value = 0 \/ Ungranted(s) = {})
  <2> DEFINE least == CHOOSE i \in Ungranted(s) : \A j \in Ungranted(s) : i <= j
  <2>1. least \in Ungranted(s)
    <3>1. DOMAIN s.waiters = 1..Len(s.waiters) /\ Len(s.waiters) \in Nat
      BY DEF SemaphoreOK
    <3>2. Ungranted(s) \subseteq 1..Len(s.waiters)
      BY <3>1 DEF Ungranted
    <3>3. IsFiniteSet(Ungranted(s))
      <4>1. IsFiniteSet(1..Len(s.waiters))
        BY <3>1, FS_Interval
      <4>2. QED BY <3>2, <4>1, FS_Subset
    <3>4. \E i \in Ungranted(s) : \A j \in Ungranted(s) : i <= j
      BY <1>2, <3>2, <3>3, Smallest
    <3>5. QED BY <3>4
  <2>2. PICK i : i = least
    OBVIOUS
  <2>3. WakeNext(s) = Semaphore(s.value - 1, s.waiters, s.granted \cup {s.waiters[i]})
    BY <1>2, <2>2 DEF WakeNext
  <2> HIDE DEF least
  <2>4. PICK w, next : w = s.waiters[i] /\ next = WakeNext(s)
    OBVIOUS
  <2>5. /\ next.value = s.value - 1 /\ next.waiters = s.waiters /\ next.granted = s.granted \cup {w}
        /\ next = [value |-> s.value - 1, waiters |-> s.waiters, granted |-> s.granted \cup {w}]
    BY <2>3, <2>4 DEF Semaphore
  <2>6. i \in DOMAIN s.waiters /\ w \in Queue(s) /\ w \notin s.granted
    BY <2>1, <2>2, <2>4 DEF Ungranted, Queue
  <2>7. s.value \in Nat /\ s.value # 0 /\ s.granted \in SUBSET Calls /\ w \in Calls
        /\ s.waiters \in Seq(Calls)
    BY <1>2, <2>4, <2>6 DEF SemaphoreOK
  <2>8. Cardinality(next.granted) = Cardinality(s.granted) + 1
    BY <2>5, <2>6, <2>7, GrantedFinite, FS_AddElement
  <2>9. Queue(next) = Queue(s)
    BY <2>5 DEF Queue
  <2>10. Weight(next) = Weight(s)
    BY <2>5, <2>7, <2>8, GrantedFinite DEF Weight
  <2>11. SemaphoreOK(next)
    <3>1. next \in [value : Nat, waiters : Seq(Calls), granted : SUBSET Calls]
      BY <2>5, <2>7
    <3>2. QED BY <2>5, <2>6, <2>9, <3>1 DEF SemaphoreOK
  <2>12. Awake(next)
    BY <2>5 DEF Awake
  <2>13. QED BY <2>4, <2>9, <2>10, <2>11, <2>12
<1>3. QED BY <1>1, <1>2

(* Leaving the queue disturbs nobody else.                                   *)
LEMMA WithoutKeeps ==
  ASSUME NEW s, SemaphoreOK(s), NEW c \in Calls
  PROVE  /\ SemaphoreOK(Without(s, c)) /\ Queue(Without(s, c)) = Queue(s) \ {c}
         /\ Without(s, c).value = s.value /\ Without(s, c).granted = s.granted \ {c}
<1>1. CASE c \notin Queue(s)
  BY <1>1 DEF Without, SemaphoreOK
<1>2. CASE c \in Queue(s)
  <2>1. PICK i : i = CHOOSE j \in DOMAIN s.waiters : s.waiters[j] = c
    OBVIOUS
  <2>2. i \in DOMAIN s.waiters /\ s.waiters[i] = c
    BY <1>2, <2>1 DEF Queue
  <2>3. PICK q, n, rest : q = s.waiters /\ n = Len(s.waiters) /\ rest = Removed(s.waiters, i)
    OBVIOUS
  <2>4. /\ q \in Seq(Calls) /\ n \in Nat /\ n = Len(q) /\ DOMAIN q = 1..n /\ i \in 1..n /\ q[i] = c
        /\ \A j \in 1..n : q[j] \in Calls
        /\ \A j, k \in 1..n : q[j] = q[k] => j = k
    BY <2>2, <2>3 DEF SemaphoreOK
  <2>5. rest = [j \in 1..n - 1 |-> IF j < i THEN q[j] ELSE q[j + 1]]
    BY <2>3 DEF Removed
  <2>6. \A j \in 1..n - 1 : /\ j \in 1..n /\ j + 1 \in 1..n
                            /\ rest[j] = (IF j < i THEN q[j] ELSE q[j + 1])
                            /\ rest[j] \in Calls /\ rest[j] # c
    BY <2>4, <2>5
  <2>7. rest \in Seq(Calls) /\ DOMAIN rest = 1..n - 1
    <3>1. n - 1 \in Nat
      BY <2>4
    <3>2. rest \in [1..n - 1 -> Calls]
      BY <2>5, <2>6
    <3>3. QED BY <3>1, <3>2, SeqDef
  <2>8. \A j, k \in 1..n - 1 : rest[j] = rest[k] => j = k
    BY <2>4, <2>6
  <2>9. {rest[j] : j \in 1..n - 1} = {q[j] : j \in 1..n} \ {c}
    <3>1. ASSUME NEW j \in 1..n, q[j] # c
          PROVE  \E k \in 1..n - 1 : rest[k] = q[j]
      <4>1. CASE j < i
        BY <2>4, <2>6, <4>1
      <4>2. CASE j > i
        <5>1. j - 1 \in 1..n - 1 /\ ~(j - 1 < i) /\ (j - 1) + 1 = j
          BY <2>4, <4>2
        <5>2. QED BY <2>6, <5>1
      <4>3. QED BY <2>4, <3>1, <4>1, <4>2
    <3>2. \A k \in 1..n - 1 : rest[k] # c /\ \E j \in 1..n : rest[k] = q[j]
      BY <2>6
    <3>3. QED BY <3>1, <3>2
  <2>10. PICK left : left = Without(s, c)
    OBVIOUS
  <2>11. /\ left = [value |-> s.value, waiters |-> rest, granted |-> s.granted \ {c}]
         /\ left.value = s.value /\ left.waiters = rest /\ left.granted = s.granted \ {c}
    BY <1>2, <2>1, <2>3, <2>10 DEF Without, Semaphore
  <2>12. Queue(left) = Queue(s) \ {c}
    <3>1. Queue(left) = {rest[j] : j \in 1..n - 1}
      BY <2>7, <2>11 DEF Queue
    <3>2. Queue(s) = {q[j] : j \in 1..n}
      BY <2>3, <2>4 DEF Queue
    <3>3. QED BY <2>9, <3>1, <3>2
  <2>13. SemaphoreOK(left)
    <3>1. left \in [value : Nat, waiters : Seq(Calls), granted : SUBSET Calls]
      BY <2>7, <2>11 DEF SemaphoreOK
    <3>2. QED BY <2>7, <2>8, <2>11, <2>12, <3>1 DEF SemaphoreOK
  <2>14. QED BY <2>10, <2>11, <2>12, <2>13
<1>3. QED BY <1>1, <1>2

-----------------------------------------------------------------------------
(* What a step does to the places of the calls and to the permits. *)

(* Every call but those of K stays; a held permit stays held.                *)
Stays(d) == \/ call'[d].at = call[d].at
            \/ call[d].at = "attempt" /\ call'[d].at = "delay"
            \/ call[d].at = "delay" /\ call'[d].at = "attempt"

LEMMA HeldFinite == IsFiniteSet(Held) /\ Cardinality(Held) \in Nat
BY CallsAssumption, FS_Subset, FS_CardinalityType DEF Held

(* Nobody comes and nobody goes, except from the queue.                      *)
LEMMA PlacesKept ==
  ASSUME AdmissionInv, \A d \in Calls : Stays(d),
         SemaphoreOK(sem'), Awake(sem'), Weight(sem') = Weight(sem),
         Queue(sem') \subseteq Queue(sem)
  PROVE  AdmissionInv'
<1>1. Held' = Held
  BY DEF Held, Admitted, Stays
<1>2. \A d \in Queue(sem) : d \in Calls
  BY DEF AdmissionInv, SemaphoreOK, Queue
<1>3. \A d \in Queue(sem') : call'[d].at = "admission"
  BY <1>2 DEF AdmissionInv, Stays
<1>4. Weight(sem)' + Cardinality(Held)' = Permits
  BY <1>1 DEF AdmissionInv
<1>5. QED BY <1>3, <1>4 DEF AdmissionInv

LEMMA SemaphoreKept ==
  ASSUME AdmissionInv, \A d \in Calls : Stays(d), sem' = sem
  PROVE  AdmissionInv'
<1>1. SemaphoreOK(sem') /\ Awake(sem') /\ Weight(sem') = Weight(sem)
      /\ Queue(sem') \subseteq Queue(sem)
  BY DEF AdmissionInv
<1>2. QED BY <1>1, PlacesKept

(* A call that is not at work any more gives its permit back.                *)
LEMMA PermitReturns ==
  ASSUME AdmissionInv, NEW c \in Calls, Admitted(c), call'[c].at = "ended",
         \A d \in Calls : d # c => call'[d].at = call[d].at, sem' = Released
  PROVE  AdmissionInv'
<1>1. PICK s, next : s = [sem EXCEPT !.value = @ + 1] /\ next = WakeNext(s)
  OBVIOUS
<1>2. /\ SemaphoreOK(sem) /\ sem.value \in Nat /\ sem.granted \in SUBSET Calls
      /\ sem \in [value : Nat, waiters : Seq(Calls), granted : SUBSET Calls]
  BY DEF AdmissionInv, SemaphoreOK
<1>3. /\ s.value = sem.value + 1 /\ s.waiters = sem.waiters /\ s.granted = sem.granted
      /\ s \in [value : Nat, waiters : Seq(Calls), granted : SUBSET Calls]
  BY <1>1, <1>2
<1>4. SemaphoreOK(s) /\ Queue(s) = Queue(sem)
  BY <1>2, <1>3 DEF SemaphoreOK, Queue
<1>5. sem' = next /\ SemaphoreOK(next) /\ Awake(next) /\ Queue(next) = Queue(sem)
      /\ Weight(next) = sem.value + 1 + Cardinality(sem.granted)
  BY <1>1, <1>3, <1>4, WakeNextKeeps DEF Released, Weight
<1>6. c \in Held /\ Held' = Held \ {c}
  BY DEF Held, Admitted
<1>7. Cardinality(Held') = Cardinality(Held) - 1
  BY <1>6, HeldFinite, FS_RemoveElement
<1>8. Weight(next) + Cardinality(Held') = Permits
  <2>1. /\ Cardinality(sem.granted) \in Nat /\ Cardinality(Held) \in Nat /\ sem.value \in Nat
        /\ sem.value + Cardinality(sem.granted) + Cardinality(Held) = Permits
    BY <1>2, HeldFinite, GrantedFinite DEF AdmissionInv, Weight
  <2>2. QED BY <1>5, <1>7, <2>1
<1>9. \A d \in Queue(next) : call'[d].at = "admission"
  <2>1. \A d \in Queue(sem) : d \in Calls /\ d # c
    BY <1>2 DEF Queue, AdmissionInv, Admitted
  <2>2. QED BY <1>5, <2>1 DEF AdmissionInv
<1>10. QED BY <1>5, <1>8, <1>9 DEF AdmissionInv

(* A cancellation takes a call from the queue unless it was granted a permit.*)
LEMMA CancelledKeeps ==
  ASSUME AdmissionInv, NEW c \in Calls, \A d \in Calls : Stays(d), sem' = CancelledIn(c)
  PROVE  AdmissionInv'
<1>1. CASE call[c].at = "admission" /\ c \notin sem.granted
  <2>1. SemaphoreOK(sem)
    BY DEF AdmissionInv
  <2>2. PICK next : next = Without(sem, c)
    OBVIOUS
  <2>3. /\ SemaphoreOK(next) /\ Queue(next) = Queue(sem) \ {c}
        /\ next.value = sem.value /\ next.granted = sem.granted \ {c}
    BY <2>1, <2>2, WithoutKeeps
  <2>4. next.granted = sem.granted /\ sem' = next
    BY <1>1, <2>2, <2>3 DEF CancelledIn
  <2>5. Awake(next)
    BY <2>1, <2>3, <2>4, UngrantedWaits DEF AdmissionInv, Awake
  <2>6. Weight(next) = Weight(sem)
    BY <2>3, <2>4 DEF Weight
  <2>7. QED BY <2>3, <2>4, <2>5, <2>6, PlacesKept
<1>2. CASE ~(call[c].at = "admission" /\ c \notin sem.granted)
  BY <1>2, SemaphoreKept DEF CancelledIn
<1>3. QED BY <1>1, <1>2

(* A waiter that gives up returns what it was granted.                       *)
LEMMA LeaverKeeps ==
  ASSUME AdmissionInv, NEW c \in Calls, call[c].at = "admission", call'[c].at = "ended",
         \A d \in Calls : d # c => call'[d].at = call[d].at, sem' = LeavesQueue(c)
  PROVE  AdmissionInv'
<1>1. /\ SemaphoreOK(sem) /\ sem.value \in Nat /\ sem.granted \in SUBSET Calls
      /\ sem \in [value : Nat, waiters : Seq(Calls), granted : SUBSET Calls]
  BY DEF AdmissionInv, SemaphoreOK
<1>2. PICK left : left = Without(sem, c)
  OBVIOUS
<1>3. /\ SemaphoreOK(left) /\ Queue(left) = Queue(sem) \ {c}
      /\ left.value = sem.value /\ left.granted = sem.granted \ {c}
  BY <1>1, <1>2, WithoutKeeps
<1>4. SemaphoreOK(sem') /\ Awake(sem') /\ Weight(sem') = Weight(sem) /\ Queue(sem') = Queue(left)
  <2>1. CASE c \in sem.granted
    <3>1. PICK s : s = [left EXCEPT !.value = @ + 1]
      OBVIOUS
    <3>2. left \in [value : Nat, waiters : Seq(Calls), granted : SUBSET Calls]
      BY <1>3 DEF SemaphoreOK
    <3>3. /\ s.value = left.value + 1 /\ s.waiters = left.waiters /\ s.granted = left.granted
          /\ s \in [value : Nat, waiters : Seq(Calls), granted : SUBSET Calls]
      BY <3>1, <3>2
    <3>4. SemaphoreOK(s) /\ Queue(s) = Queue(left)
      BY <1>3, <3>3 DEF SemaphoreOK, Queue
    <3>5. Cardinality(s.granted) = Cardinality(sem.granted) - 1
      BY <1>1, <1>3, <2>1, <3>3, GrantedFinite, FS_RemoveElement
    <3>6. Weight(s) = Weight(sem)
      <4>1. Cardinality(sem.granted) \in Nat
        BY <1>1, GrantedFinite
      <4>2. QED BY <1>1, <1>3, <3>3, <3>5, <4>1 DEF Weight
    <3>7. sem' = WakeNext(s)
      BY <1>2, <2>1, <3>1 DEF LeavesQueue
    <3>8. QED BY <3>4, <3>6, <3>7, WakeNextKeeps
  <2>2. CASE c \notin sem.granted
    <3>1. sem' = left /\ left.granted = sem.granted
      BY <1>2, <1>3, <2>2 DEF LeavesQueue
    <3>2. Awake(left)
      BY <1>1, <1>3, <3>1, UngrantedWaits DEF AdmissionInv, Awake
    <3>3. Weight(left) = Weight(sem)
      BY <1>3, <3>1 DEF Weight
    <3>4. QED BY <1>3, <3>1, <3>2, <3>3
  <2>3. QED BY <2>1, <2>2
<1>5. Held' = Held
  BY DEF Held, Admitted
<1>6. \A d \in Queue(sem') : call'[d].at = "admission"
  <2>1. \A d \in Queue(sem) : d \in Calls
    BY <1>1 DEF Queue
  <2>2. QED BY <1>3, <1>4, <2>1 DEF AdmissionInv
<1>7. Weight(sem') + Cardinality(Held') = Permits
  BY <1>4, <1>5 DEF AdmissionInv
<1>8. QED BY <1>4, <1>6, <1>7 DEF AdmissionInv

(* A call is admitted: it takes the permit it was granted, and passes on what*)
(* is left.                                                                  *)
LEMMA AdmittedKeeps ==
  ASSUME AdmissionInv, NEW c \in Calls, call[c].at = "admission", c \in sem.granted,
         call'[c].at = "attempt", \A d \in Calls : d # c => call'[d].at = call[d].at,
         sem' = Resumed(c)
  PROVE  AdmissionInv'
<1>1. SemaphoreOK(sem) /\ sem.granted \in SUBSET Calls
  BY DEF AdmissionInv, SemaphoreOK
<1>2. PICK left : left = Without(sem, c)
  OBVIOUS
<1>3. /\ SemaphoreOK(left) /\ Queue(left) = Queue(sem) \ {c}
      /\ left.value = sem.value /\ left.granted = sem.granted \ {c}
  BY <1>1, <1>2, WithoutKeeps
<1>4. /\ SemaphoreOK(sem') /\ Awake(sem') /\ Weight(sem') = Weight(left)
      /\ Queue(sem') = Queue(sem) \ {c}
  BY <1>2, <1>3, WakeNextKeeps DEF Resumed
<1>5. Cardinality(left.granted) = Cardinality(sem.granted) - 1
  BY <1>1, <1>3, GrantedFinite, FS_RemoveElement
<1>6. c \notin Held /\ Held' = Held \cup {c}
  BY DEF Held, Admitted
<1>7. Cardinality(Held') = Cardinality(Held) + 1
  BY <1>6, HeldFinite, FS_AddElement
<1>8. Weight(sem') + Cardinality(Held') = Permits
  <2>1. /\ Cardinality(sem.granted) \in Nat /\ Cardinality(Held) \in Nat /\ sem.value \in Nat
        /\ sem.value + Cardinality(sem.granted) + Cardinality(Held) = Permits
    BY <1>1, HeldFinite, GrantedFinite DEF AdmissionInv, SemaphoreOK, Weight
  <2>2. Weight(sem') = sem.value + Cardinality(sem.granted) - 1
    BY <1>3, <1>4, <1>5, <2>1 DEF Weight
  <2>3. QED BY <1>7, <2>1, <2>2
<1>9. \A d \in Queue(sem') : call'[d].at = "admission"
  <2>1. \A d \in Queue(sem) : d \in Calls
    BY <1>1 DEF Queue, SemaphoreOK
  <2>2. QED BY <1>4, <2>1 DEF AdmissionInv
<1>10. QED BY <1>4, <1>8, <1>9 DEF AdmissionInv

(* A new call takes a free permit when nobody waits, or queues up.           *)
LEMMA ArrivalKeeps ==
  ASSUME AdmissionInv, NEW c \in Calls, call[c].at = "new",
         \A d \in Calls : d # c => call'[d].at = call[d].at,
         \/ ~Locked /\ sem' = Taken /\ call'[c].at = "attempt"
         \/ Locked /\ sem' = [sem EXCEPT !.waiters = Append(@, c)] /\ call'[c].at = "admission"
  PROVE  AdmissionInv'
<1>1. /\ SemaphoreOK(sem) /\ sem.value \in Nat /\ sem.granted \in SUBSET Calls
      /\ sem.waiters \in Seq(Calls) /\ sem.granted \subseteq Queue(sem)
      /\ sem \in [value : Nat, waiters : Seq(Calls), granted : SUBSET Calls]
  BY DEF AdmissionInv, SemaphoreOK
<1>2. c \notin Queue(sem) /\ \A d \in Queue(sem) : d \in Calls
  BY <1>1 DEF AdmissionInv, Queue
<1>3. /\ Cardinality(sem.granted) \in Nat /\ Cardinality(Held) \in Nat
      /\ sem.value + Cardinality(sem.granted) + Cardinality(Held) = Permits
  BY <1>1, HeldFinite, GrantedFinite DEF AdmissionInv, Weight
<1>4. CASE ~Locked /\ sem' = Taken /\ call'[c].at = "attempt"
  <2>1. PICK s : s = Taken
    OBVIOUS
  <2>2. sem.value # 0 /\ sem.waiters = <<>> /\ sem' = s
    BY <1>4, <2>1 DEF Locked
  <2>3. /\ s.value = sem.value - 1 /\ s.waiters = sem.waiters /\ s.granted = sem.granted
        /\ s \in [value : Nat, waiters : Seq(Calls), granted : SUBSET Calls]
    BY <1>1, <2>1, <2>2 DEF Taken
  <2>4. SemaphoreOK(s) /\ Queue(s) = {} /\ Ungranted(s) = {}
    BY <1>1, <2>2, <2>3 DEF SemaphoreOK, Queue, Ungranted
  <2>5. c \notin Held /\ Held' = Held \cup {c}
    BY <1>4 DEF Held, Admitted
  <2>6. Cardinality(Held') = Cardinality(Held) + 1
    BY <2>5, HeldFinite, FS_AddElement
  <2>7. Weight(s) + Cardinality(Held') = Permits
    BY <1>1, <1>3, <2>3, <2>6 DEF Weight
  <2>8. QED BY <2>2, <2>4, <2>7 DEF AdmissionInv, Awake
<1>5. CASE Locked /\ sem' = [sem EXCEPT !.waiters = Append(@, c)] /\ call'[c].at = "admission"
  <2>1. PICK q, s : q = Append(sem.waiters, c) /\ s = sem'
    OBVIOUS
  <2>2. PICK n : n = Len(sem.waiters)
    OBVIOUS
  <2>3. /\ q \in Seq(Calls) /\ n \in Nat /\ DOMAIN q = 1..n + 1 /\ q[n + 1] = c
        /\ DOMAIN sem.waiters = 1..n /\ \A j \in 1..n : q[j] = sem.waiters[j]
    BY <1>1, <2>1, <2>2, AppendProperties
  <2>4. /\ s.value = sem.value /\ s.waiters = q /\ s.granted = sem.granted
        /\ s \in [value : Nat, waiters : Seq(Calls), granted : SUBSET Calls]
    BY <1>1, <1>5, <2>1, <2>3
  <2>5. \A j \in 1..n + 1 : j \in 1..n \/ j = n + 1
    BY <2>3
  <2>6. Queue(s) = Queue(sem) \cup {c}
    <3>1. Queue(s) = {q[j] : j \in 1..n + 1} /\ Queue(sem) = {sem.waiters[j] : j \in 1..n}
      BY <2>3, <2>4 DEF Queue
    <3>2. \A j \in 1..n : j \in 1..n + 1
      BY <2>3
    <3>3. n + 1 \in 1..n + 1
      BY <2>3
    <3>4. QED BY <2>3, <2>5, <3>1, <3>2, <3>3
  <2>7. \A i, j \in 1..n + 1 : q[i] = q[j] => i = j
    <3>1. \A j \in 1..n : q[j] \in Queue(sem) /\ q[j] # c
      BY <1>2, <2>3 DEF Queue
    <3>2. \A i, j \in 1..n : q[i] = q[j] => i = j
      BY <1>1, <2>3 DEF SemaphoreOK
    <3>3. QED BY <2>3, <2>5, <3>1, <3>2
  <2>8. SemaphoreOK(s)
    BY <1>1, <2>3, <2>4, <2>6, <2>7 DEF SemaphoreOK
  <2>9. Awake(s)
    <3>1. SUFFICES ASSUME s.value > 0, s.granted = {}
                   PROVE  FALSE
      BY DEF Awake
    <3>2. sem.waiters # <<>>
      BY <1>5, <2>4, <3>1 DEF Locked
    <3>3. n # 0
      BY <1>1, <2>2, <3>2, EmptySeq
    <3>4. 1 \in Ungranted(sem)
      BY <2>3, <2>4, <3>1, <3>3 DEF Ungranted
    <3>5. QED BY <2>4, <3>1, <3>4 DEF AdmissionInv, Awake
  <2>10. Held' = Held
    BY <1>5 DEF Held, Admitted
  <2>11. Weight(s) + Cardinality(Held') = Permits
    BY <1>3, <2>4, <2>10 DEF Weight
  <2>12. \A d \in Queue(s) : call'[d].at = "admission"
    BY <1>2, <1>5, <2>6 DEF AdmissionInv
  <2>13. QED BY <2>1, <2>8, <2>9, <2>11, <2>12 DEF AdmissionInv
<1>6. QED BY <1>4, <1>5

-----------------------------------------------------------------------------
(* The steps of the calls, as steps of the semaphore. *)

LEMMA RecordPlaces ==
  ASSUME CallsTyped, NEW c \in Calls, NEW record, call' = [call EXCEPT ![c] = record]
  PROVE  call'[c] = record /\ \A d \in Calls : d # c => call'[d].at = call[d].at
BY DEF CallsTyped

LEMMA EndPlaces ==
  ASSUME CallsTyped, NEW c \in Calls, NEW how, NEW events, End(c, how, events)
  PROVE  call'[c].at = "ended" /\ \A d \in Calls : d # c => call'[d].at = call[d].at
<1> DEFINE record == [call[c] EXCEPT !.at = "ended", !.ready = Null, !.left = 0,
                        !.nap = 0, !.pending = FALSE, !.mayContinue = FALSE]
<1>1. call' = [call EXCEPT ![c] = record]
  BY DEF End
<1>2. record.at = "ended"
  BY DEF CallsTyped, Call
<1>3. QED BY <1>1, <1>2, RecordPlaces

LEMMA UnwindPlaces ==
  ASSUME CallsTyped, NEW c \in Calls, Unwind(c)
  PROVE  call'[c].at = "ended" /\ \A d \in Calls : d # c => call'[d].at = call[d].at
BY EndPlaces DEF Unwind

LEMMA DeliverPlaces ==
  ASSUME CallsTyped, NEW c \in Calls, NEW how, NEW events, Deliver(c, how, events)
  PROVE  call'[c].at = "ended" /\ \A d \in Calls : d # c => call'[d].at = call[d].at
BY EndPlaces DEF Deliver

LEMMA AttemptPlaces ==
  ASSUME CallsTyped, NEW c \in Calls, NEW n, call' = [call EXCEPT ![c] = Attempted(c, n)]
  PROVE  call'[c].at = "attempt" /\ \A d \in Calls : d # c => call'[d].at = call[d].at
<1>1. Attempted(c, n).at = "attempt"
  BY DEF CallsTyped, Call, Attempted
<1>2. QED BY <1>1, RecordPlaces

LEMMA TaskAdmits ==
  ASSUME IInv, NEW c \in Calls, Invoke(c) \/ Run(c)
  PROVE  AdmissionInv'
<1>1. CallsTyped /\ AdmissionInv /\ call[c] \in Call
  BY DEF IInv, CallsInv, CallsTyped
<1>2. CASE Invoke(c)
  <2>1. call[c].at = "new"
    BY <1>2 DEF Invoke
  <2>2. CASE ~Locked /\ sem' = Taken /\ call' = [call EXCEPT ![c] = Attempted(c, 1)]
    BY <1>1, <2>1, <2>2, AttemptPlaces, ArrivalKeeps
  <2>3. CASE /\ Locked /\ sem' = [sem EXCEPT !.waiters = Append(@, c)]
             /\ call' = [call EXCEPT ![c].at = "admission"]
    <3>1. PICK record : record = [call[c] EXCEPT !.at = "admission"]
      OBVIOUS
    <3>2. call' = [call EXCEPT ![c] = record] /\ record.at = "admission"
      BY <1>1, <2>3, <3>1 DEF Call
    <3>3. call'[c].at = "admission" /\ \A d \in Calls : d # c => call'[d].at = call[d].at
      BY <1>1, <3>2, RecordPlaces
    <3>4. QED BY <1>1, <2>1, <2>3, <3>3, ArrivalKeeps
  <2>4. QED BY <1>2, <2>2, <2>3 DEF Invoke
<1>3. CASE Admit(c)
  BY <1>1, <1>3, AttemptPlaces, AdmittedKeeps DEF Admit
<1>4. CASE LeaveQueue(c)
  BY <1>1, <1>4, UnwindPlaces, LeaverKeeps DEF LeaveQueue
<1>5. CASE Return(c)
  <2>1. call'[c].at = "ended" /\ \A d \in Calls : d # c => call'[d].at = call[d].at
    BY <1>1, <1>5, DeliverPlaces DEF Return
  <2>2. QED BY <1>1, <1>5, <2>1, PermitReturns DEF Return, Admitted
<1>6. CASE Bubble(c)
  <2>1. call'[c].at = "ended" /\ \A d \in Calls : d # c => call'[d].at = call[d].at
    BY <1>1, <1>6, EndPlaces DEF Bubble
  <2>2. QED BY <1>1, <1>6, <2>1, PermitReturns DEF Bubble, Admitted
<1>7. CASE Fail(c)
  <2>1. call'[c].at = "ended" /\ \A d \in Calls : d # c => call'[d].at = call[d].at
    BY <1>1, <1>7, DeliverPlaces DEF Fail
  <2>2. QED BY <1>1, <1>7, <2>1, PermitReturns DEF Fail, Admitted
<1>8. CASE Interrupt(c)
  BY <1>1, <1>8, UnwindPlaces, PermitReturns DEF Interrupt
<1>9. CASE BackOff(c)
  <2> DEFINE record == [call[c] EXCEPT !.at = "delay", !.nap = Delay, !.ready = Null,
                          !.mayContinue = FALSE]
  <2>1. call' = [call EXCEPT ![c] = record] /\ call[c].at = "attempt" /\ sem' = sem
    BY <1>1, <1>9 DEF BackOff, Call
  <2>2. record.at = "delay"
    BY <1>1 DEF Call
  <2>3. \A d \in Calls : Stays(d)
    BY <1>1, <2>1, <2>2, RecordPlaces DEF Stays
  <2>4. QED BY <1>1, <2>1, <2>3, SemaphoreKept
<1>10. CASE Retry(c)
  <2>1. call[c].at = "delay" /\ call' = [call EXCEPT ![c] = Attempted(c, 2)] /\ sem' = sem
    BY <1>10 DEF Retry
  <2>2. \A d \in Calls : Stays(d)
    BY <1>1, <2>1, AttemptPlaces DEF Stays
  <2>3. QED BY <1>1, <2>1, <2>2, SemaphoreKept
<1>11. CASE Suppress(c)
  <2> DEFINE record == [call[c] EXCEPT !.pending = FALSE, !.ready = Null]
  <2>1. call' = [call EXCEPT ![c] = record] /\ sem' = sem
    BY <1>1, <1>11 DEF Suppress, Call
  <2>2. record.at = call[c].at
    BY <1>1 DEF Call
  <2>3. \A d \in Calls : Stays(d)
    BY <1>1, <2>1, <2>2, RecordPlaces DEF Stays
  <2>4. QED BY <1>1, <2>1, <2>3, SemaphoreKept
<1>12. QED
  BY <1>2, <1>3, <1>4, <1>5, <1>6, <1>7, <1>8, <1>9, <1>10, <1>11 DEF Run

LEMMA WorldAdmits ==
  ASSUME IInv, NEW c \in Calls,
         \/ Expire(c) \/ CallerCancel(c)
         \/ \E a \in Answers : Answer(c, a) \/ \E n \in 1..2 : ThreadEnds(c, n, a)
  PROVE  AdmissionInv'
<1>1. CallsTyped /\ AdmissionInv /\ call[c] \in Call
  BY DEF IInv, CallsInv, CallsTyped
<1>2. CASE Expire(c)
  <2> DEFINE record == [call[c] EXCEPT !.expired = TRUE, !.pending = TRUE]
  <2>1. call' = [call EXCEPT ![c] = record] /\ sem' = CancelledIn(c)
    BY <1>1, <1>2 DEF Expire, Call
  <2>2. record.at = call[c].at
    BY <1>1 DEF Call
  <2>3. \A d \in Calls : Stays(d)
    BY <1>1, <2>1, <2>2, RecordPlaces DEF Stays
  <2>4. QED BY <1>1, <2>1, <2>3, CancelledKeeps
<1>3. CASE CallerCancel(c)
  <2> DEFINE record == [call[c] EXCEPT !.callerCancelled = TRUE, !.pending = TRUE]
  <2>1. call' = [call EXCEPT ![c] = record] /\ sem' = CancelledIn(c)
    BY <1>1, <1>3 DEF CallerCancel, Call
  <2>2. record.at = call[c].at
    BY <1>1 DEF Call
  <2>3. \A d \in Calls : Stays(d)
    BY <1>1, <2>1, <2>2, RecordPlaces DEF Stays
  <2>4. QED BY <1>1, <2>1, <2>3, CancelledKeeps
<1>4. ASSUME NEW a \in Answers, Answer(c, a) \/ \E n \in 1..2 : ThreadEnds(c, n, a)
      PROVE  AdmissionInv'
  <2> DEFINE record == [call[c] EXCEPT !.ready = a]
  <2>1. (call' = [call EXCEPT ![c] = record] \/ call' = call) /\ sem' = sem
    BY <1>1, <1>4 DEF Answer, ThreadEnds, Call
  <2>2. record.at = call[c].at
    BY <1>1 DEF Call
  <2>3. \A d \in Calls : Stays(d)
    BY <1>1, <2>1, <2>2, RecordPlaces DEF Stays
  <2>4. QED BY <1>1, <2>1, <2>3, SemaphoreKept
<1>5. QED BY <1>2, <1>3, <1>4

LEMMA TimeAdmits ==
  ASSUME IInv, Tick
  PROVE  AdmissionInv'
<1> DEFINE later(d) == [call[d] EXCEPT !.left = Less(@), !.nap = Less(@)]
<1>1. CallsTyped /\ AdmissionInv /\ sem' = sem
      /\ call' = [d \in Calls |-> IF Live(d) THEN later(d) ELSE call[d]]
  BY DEF IInv, CallsInv, Tick
<1>2. \A d \in Calls : later(d).at = call[d].at
  BY <1>1 DEF CallsTyped, Call
<1> HIDE DEF later
<1>3. \A d \in Calls : Stays(d)
  BY <1>1, <1>2 DEF Stays
<1>4. QED BY <1>1, <1>3, SemaphoreKept

-----------------------------------------------------------------------------
(* The inductive invariant holds.                                            *)
THEOREM AdmissionHeld == Spec => []AdmissionInv
<1>1. Init => AdmissionInv
  <2> SUFFICES ASSUME Init PROVE AdmissionInv
    OBVIOUS
  <2>1. sem = [value |-> Permits, waiters |-> <<>>, granted |-> {}]
    BY DEF Init
  <2>2. SemaphoreOK(sem) /\ Queue(sem) = {}
    BY <2>1, PolicyAssumption DEF SemaphoreOK, Queue
  <2>3. Ungranted(sem) = {}
    BY <2>1 DEF Ungranted
  <2>4. Held = {}
    BY DEF Init, Held, Admitted
  <2>5. Weight(sem) + Cardinality(Held) = Permits
    BY <2>1, <2>4, PolicyAssumption, FS_EmptySet DEF Weight
  <2>6. QED BY <2>2, <2>3, <2>5 DEF AdmissionInv, Awake
<1>2. CallsInv /\ AdmissionInv /\ [Next]_vars => AdmissionInv'
  <2> SUFFICES ASSUME IInv, [Next]_vars PROVE AdmissionInv'
    BY DEF IInv
  <2>1. ASSUME NEW c \in Calls, Invoke(c) \/ Run(c) PROVE AdmissionInv'
    BY <2>1, TaskAdmits
  <2>2. ASSUME NEW c \in Calls,
               \/ Expire(c) \/ CallerCancel(c)
               \/ \E a \in Answers : Answer(c, a) \/ \E n \in 1..2 : ThreadEnds(c, n, a)
        PROVE  AdmissionInv'
    BY <2>2, WorldAdmits
  <2>3. CASE Tick
    BY <2>3, TimeAdmits
  <2>4. CASE UNCHANGED vars
    <3>1. sem' = sem /\ (\A d \in Calls : Stays(d)) /\ AdmissionInv
      BY <2>4 DEF vars, Stays, IInv
    <3>2. QED BY <3>1, SemaphoreKept
  <2>5. QED BY <2>1, <2>2, <2>3, <2>4 DEF Next
<1>3. QED BY <1>1, <1>2, CallsInvHolds, PTL DEF Spec

(* Admission leaks no permit and strands no waiter, through results,         *)
(* failures, deadlines and cancellations: ToolExecutionController.permit.    *)
THEOREM PermitsConserved == Spec => []AdmissionInvariant
<1>1. CallsInv /\ AdmissionInv => AdmissionInvariant
  <2> SUFFICES ASSUME CallsInv, AdmissionInv PROVE AdmissionInvariant
    OBVIOUS
  <2>1. /\ SemaphoreOK(sem) /\ sem.value \in Nat /\ sem.granted \in SUBSET Calls
        /\ sem.waiters \in Seq(Calls)
    BY DEF AdmissionInv, SemaphoreOK
  <2>2. PermitsBalance
    BY DEF AdmissionInv, PermitsBalance, Weight, Held
  <2>3. sem.value \in 0..Permits
    <3>1. Cardinality(sem.granted) \in Nat /\ Cardinality(Held) \in Nat /\ Permits \in Nat
      BY <2>1, GrantedFinite, HeldFinite, PolicyAssumption
    <3>2. QED BY <2>1, <3>1 DEF AdmissionInv, Weight
  <2>4. workers \subseteq Bridged \X (1..MaxAttempts)
    BY DEF CallsInv, CallsTyped, CallInv, CurrentOnly
  <2>5. TypeOK
    BY <2>1, <2>3, <2>4 DEF TypeOK, AdmissionInv, SemaphoreOK, CallsInv, CallsTyped
  <2>6. QED BY <2>2, <2>5 DEF AdmissionInvariant, NoLostWakeup, AdmissionInv, Awake
<1>2. QED BY <1>1, CallsInvHolds, AdmissionHeld, PTL

-----------------------------------------------------------------------------
(* The catalogue's inductive invariant.  s stands for the settings, c for   *)
(* the configuration, h for the worlds so far.                              *)

Verdicts ==
  {None} \cup {LookInto(p, w) : p \in Prerequisites, w \in Worlds}
    \cup {Reach(p, Configurations[i].settings, w) :
            p \in Prerequisites, i \in DOMAIN Configurations, w \in Worlds}
Entry == [verdict: Verdicts, since: Nat, until: Nat, asked: Nat]
Job == [at: {"idle", "look", "wait", "reach", "look_into", "publish", "done", "replied"},
        todo: Seq(Prerequisites), began: Nat, now: Nat, since: Nat, verdict: Verdicts,
        found: UNION {[S -> Entry] : S \in SUBSET Prerequisites}]
Phases == {"starting", "refused", "selecting", "serving"}

CatalogueTyped ==
  /\ app \in [config : DOMAIN Configurations, phase : Phases]
  /\ history \in Seq(Worlds) /\ Clock >= 1
  /\ cache \in [Prerequisites -> Entry \cup {None}]
  /\ refreshing \in [Prerequisites -> Threads \cup {None}]
  /\ job \in [Threads -> Job]

(* A verdict on p was so at some reading between lo and hi, or the world     *)
(* changed in between.                                                      *)
Evidenced(v, p, s, lo, hi, h) ==
  \/ \E k \in lo..hi : v = Verdict(p, s, h[k])
  \/ v = "readiness_check_failed" /\ \E k, m \in lo..hi : h[k] # h[m]

EntryTrue(e, p, s, h) ==
  e.since >= 1 /\ e.until <= Len(h) /\ Evidenced(e.verdict, p, s, e.since, e.until, h)

(* A check reads the clock forwards, and seeks something while it goes on.   *)
Timed(j, n) ==
  /\ j.began <= n /\ j.now <= n /\ j.since <= n
  /\ j.at \in {"look", "wait", "reach", "look_into", "publish"} => j.began <= j.now /\ j.todo # <<>>
ProbeTrue(j, s, h) ==
  /\ j.at \in {"reach", "look_into", "publish"} => j.since >= 1
  /\ j.at = "look_into" => \E k \in j.since..Len(h) : Reach(Head(j.todo), s, h[k]) = "reached"
  /\ j.at = "publish" => Evidenced(j.verdict, Head(j.todo), s, j.since, Len(h), h)
FoundTrue(j, c, h) ==
  \A p \in DOMAIN j.found :
    LET e == j.found[p]
    IN  EntryTrue(e, p, c.settings, h) /\ e.until + c.ttl > e.asked /\ e.asked >= j.began

JobTrue(j, c, h) == Timed(j, Len(h)) /\ ProbeTrue(j, c.settings, h) /\ FoundTrue(j, c, h)

Serves == app.phase \in {"selecting", "serving"}
Served ==
  /\ Serves => Accepts(Config)
  /\ app.phase = "selecting" => AcceptsLimits(Config.limits)
  /\ agent # None => Serves /\ AcceptsLimits(Config.limits)
  /\ \A t \in Threads : job[t].at # "idle" => Serves

(* Who probes holds the prerequisite's lock, and no fresh entry was there.   *)
Refreshes(t) == Probing(t) => refreshing[Sought(t)] = t /\ ~Fresh(Sought(t), job[t].now)

CatalogueInv ==
  /\ CatalogueTyped /\ Served
  /\ \A p \in Prerequisites : cache[p] # None => EntryTrue(cache[p], p, Config.settings, history)
  /\ \A t \in Threads : JobTrue(job[t], Config, history) /\ Refreshes(t)

-----------------------------------------------------------------------------
(* A look inside fails where the dependency could not be reached any more.   *)
LEMMA OutOfReach ==
  ASSUME NEW p \in Prerequisites, NEW s, NEW v, NEW w,
         Reach(p, s, v) = "reached", Reach(p, s, w) # "reached"
  PROVE  LookInto(p, w) = "readiness_check_failed"
<1>1. CASE p = "web_search_config"
  <2>1. Reach(p, s, v) = ReachWeb(s, v)
    BY <1>1, Zenon DEF Reach
  <2>2. ReachWeb(s, v) # "reached"
    BY Zenon DEF ReachWeb
  <2>3. QED BY <2>1, <2>2
<1>2. CASE p = "chroma_collection"
  <2>1. p # "web_search_config"
    BY <1>2
  <2>2. Reach(p, s, v) = ReachChroma(s, v) /\ Reach(p, s, w) = ReachChroma(s, w)
    BY <1>2, <2>1, Zenon DEF Reach
  <2>3. s.chroma # "unreadable" /\ s.chroma # "missing"
    BY <2>2, Zenon DEF ReachChroma
  <2>4. ReachChroma(s, w) = IF w.chroma = "down" THEN "dependency_unreachable" ELSE "reached"
    BY <2>3, Zenon DEF ReachChroma
  <2>5. w.chroma = "down"
    BY <2>2, <2>4
  <2>6. LookIntoChroma(w) = "readiness_check_failed"
    BY <2>5, Zenon DEF LookIntoChroma
  <2>7. QED BY <1>2, <2>6 DEF LookInto
<1>3. CASE p # "web_search_config" /\ p # "chroma_collection"
  <2>1. Reach(p, s, w) = ReachDatabase(w)
    BY <1>3, Zenon DEF Reach
  <2>2. w.database = "absent"
    BY <2>1 DEF ReachDatabase
  <2>3. LookIntoDatabase(p, w) = "readiness_check_failed"
    <3>1. w.database \in {"absent", "broken"}
      BY <2>2
    <3> DEFINE opens == w.database \notin {"absent", "broken"}
    <3>2. ~opens
      BY <3>1
    <3>3. LookIntoDatabase(p, w) =
            CASE ~opens                     -> "readiness_check_failed"
              [] opens /\ p \notin w.tables -> "database_schema_incomplete"
              [] OTHER                      -> "ready"
      BY DEF LookIntoDatabase
    <3> HIDE DEF opens
    <3>4. QED BY <3>2, <3>3, Zenon
  <2>4. QED BY <1>3, <2>3 DEF LookInto
<1>4. QED BY <1>1, <1>2, <1>3

LEMMA JoinRange ==
  ASSUME NEW S, NEW s \in Seq(S), NEW r \in Seq(S)
  PROVE  s \o r \in Seq(S) /\ SeqRange(s \o r) = SeqRange(s) \cup SeqRange(r)
<1>1. /\ DOMAIN s = 1..Len(s) /\ DOMAIN r = 1..Len(r) /\ Len(s) \in Nat /\ Len(r) \in Nat
      /\ DOMAIN (s \o r) = 1..(Len(s) + Len(r))
  OBVIOUS
<1>2. \A k \in 1..(Len(s) + Len(r)) : (s \o r)[k] = IF k <= Len(s) THEN s[k] ELSE r[k - Len(s)]
  OBVIOUS
<1>3. \A k \in 1..(Len(s) + Len(r)) : k \in 1..Len(s) \/ k - Len(s) \in 1..Len(r)
  BY <1>1
<1>4. \A k \in 1..Len(s) : k \in 1..(Len(s) + Len(r)) /\ (s \o r)[k] = s[k]
  BY <1>1, <1>2
<1>5. \A k \in 1..Len(r) : k + Len(s) \in 1..(Len(s) + Len(r)) /\ (s \o r)[k + Len(s)] = r[k]
  BY <1>1, <1>2
<1>6. SeqRange(s \o r) \subseteq SeqRange(s) \cup SeqRange(r)
  BY <1>1, <1>2, <1>3 DEF SeqRange
<1>7. SeqRange(s) \subseteq SeqRange(s \o r) /\ SeqRange(r) \subseteq SeqRange(s \o r)
  BY <1>1, <1>4, <1>5 DEF SeqRange
<1>8. QED BY <1>6, <1>7

LEMMA NeedsTyped ==
  ASSUME NEW tools
  PROVE  Needs(tools) \in Seq(Prerequisites)
<1> DEFINE OfAny(p) == IF \E d \in tools : p \in SeqRange(d.needs) THEN <<p>> ELSE <<>>
<1>1. \A p \in Prerequisites : OfAny(p) \in Seq(Prerequisites)
  OBVIOUS
<1>2. /\ OfAny("cellar_schema") \in Seq(Prerequisites) /\ OfAny("chroma_collection") \in Seq(Prerequisites)
      /\ OfAny("pairing_rules") \in Seq(Prerequisites) /\ OfAny("web_search_config") \in Seq(Prerequisites)
  BY <1>1 DEF Prerequisites
<1>3. Needs(tools) = OfAny("cellar_schema") \o OfAny("chroma_collection") \o OfAny("pairing_rules")
                       \o OfAny("web_search_config")
  BY DEF Needs
<1> HIDE DEF OfAny
<1>4. QED BY <1>2, <1>3

LEMMA Configured ==
  ASSUME CatalogueInv, Serves
  PROVE  Config.ttl \in Int /\ Config.ttl >= 1
<1>1. app.config \in DOMAIN Configurations
  BY DEF CatalogueInv, CatalogueTyped
<1>2. Config.ttl \in Int \cup {None}
  BY <1>1, ConfigurationAssumption DEF Config
<1>3. QED BY <1>2 DEF CatalogueInv, Served, Accepts

(* Time passes, and what was evidence stays evidence.                        *)
LEMMA EvidenceStays ==
  ASSUME NEW h \in Seq(Worlds), NEW w \in Worlds, NEW e \in Entry, NEW p, NEW s, EntryTrue(e, p, s, h)
  PROVE  EntryTrue(e, p, s, Append(h, w))
<1>1. /\ Len(Append(h, w)) = Len(h) + 1 /\ Len(h) \in Nat
      /\ \A k \in 1..Len(h) : Append(h, w)[k] = h[k]
  OBVIOUS
<1>2. e.since \in Nat /\ e.until \in Nat
  BY DEF Entry
<1>3. \A k \in e.since..e.until : k \in 1..Len(h)
  BY <1>1, <1>2 DEF EntryTrue
<1>4. QED BY <1>1, <1>2, <1>3 DEF EntryTrue, Evidenced

LEMMA JobStays ==
  ASSUME NEW h \in Seq(Worlds), NEW w \in Worlds, NEW j \in Job, NEW c, JobTrue(j, c, h)
  PROVE  JobTrue(j, c, Append(h, w))
<1>1. /\ Len(Append(h, w)) = Len(h) + 1 /\ Len(h) \in Nat
      /\ \A k \in 1..Len(h) : Append(h, w)[k] = h[k]
  OBVIOUS
<1>2. j.began \in Nat /\ j.now \in Nat /\ j.since \in Nat /\ \A p \in DOMAIN j.found : j.found[p] \in Entry
  BY DEF Job
<1>3. Timed(j, Len(Append(h, w)))
  BY <1>1, <1>2 DEF JobTrue, Timed
<1>4. ProbeTrue(j, c.settings, Append(h, w))
  <2>1. j.at \in {"look_into", "publish"} => \A k \in j.since..Len(h) : k \in 1..Len(h)
    BY <1>1, <1>2 DEF JobTrue, ProbeTrue
  <2>2. \A k \in j.since..Len(h) : k \in j.since..Len(Append(h, w))
    BY <1>1, <1>2
  <2>3. QED BY <1>1, <2>1, <2>2 DEF JobTrue, ProbeTrue, Evidenced
<1>5. FoundTrue(j, c, Append(h, w))
  BY <1>2, EvidenceStays DEF JobTrue, FoundTrue
<1>6. QED BY <1>3, <1>4, <1>5 DEF JobTrue

(* A thread that has its evidence turns to the next prerequisite.            *)
LEMMA FindingHolds ==
  ASSUME CatalogueInv, NEW j \in Job, j.todo # <<>>, NEW e \in Entry,
         j.began <= Clock, FoundTrue(j, Config, history), j.began <= j.now,
         EntryTrue(e, Head(j.todo), Config.settings, history), e.until + Config.ttl > j.now
  PROVE  /\ Finding(j, e) \in Job /\ Finding(j, e).at \in {"look", "done"}
         /\ JobTrue(Finding(j, e), Config, history)
<1> DEFINE q == Head(j.todo)
           f == Finding(j, e)
<1>1. q \in Prerequisites /\ Tail(j.todo) \in Seq(Prerequisites)
  BY DEF Job
<1>2. Clock \in Nat /\ None \in Verdicts
  BY DEF CatalogueInv, CatalogueTyped, Clock, Verdicts
<1>3. PICK S \in SUBSET Prerequisites : j.found \in [S -> Entry]
  BY DEF Job
<1>4. [e EXCEPT !.asked = j.now] \in Entry
  BY DEF Entry, Job
<1>5. /\ f.found = [p \in S \cup {q} |-> IF p = q THEN [e EXCEPT !.asked = j.now] ELSE j.found[p]]
      /\ f.todo = Tail(j.todo) /\ f.began = j.began /\ f.now = Clock /\ f.since = 0
      /\ f.verdict = None /\ f.at = IF Tail(j.todo) = <<>> THEN "done" ELSE "look"
  BY <1>3 DEF Finding, Job
<1>6. f.found \in [S \cup {q} -> Entry] /\ S \cup {q} \in SUBSET Prerequisites
  BY <1>1, <1>3, <1>4, <1>5
<1>7. f \in Job
  <2>1. f.found \in UNION {[T -> Entry] : T \in SUBSET Prerequisites}
    BY <1>6
  <2>2. f.found = [p \in DOMAIN j.found \cup {q} |-> IF p = q THEN [e EXCEPT !.asked = j.now] ELSE j.found[p]]
    BY <1>3, <1>5
  <2>3. QED BY <1>1, <1>2, <2>1, <2>2 DEF Finding, Job
<1>8. f.at \in {"look", "done"}
  BY <1>5
<1>9. Timed(f, Clock)
  BY <1>2, <1>5 DEF Timed, Job
<1>10. ProbeTrue(f, Config.settings, history)
  BY <1>8 DEF ProbeTrue
<1>11. FoundTrue(f, Config, history)
  <2> SUFFICES ASSUME NEW p \in DOMAIN f.found
               PROVE  /\ EntryTrue(f.found[p], p, Config.settings, history)
                      /\ f.found[p].until + Config.ttl > f.found[p].asked /\ f.found[p].asked >= f.began
    BY DEF FoundTrue
  <2>1. CASE p = q
    <3>1. f.found[p] = [e EXCEPT !.asked = j.now]
      BY <1>5, <2>1
    <3>2. /\ f.found[p].verdict = e.verdict /\ f.found[p].since = e.since
          /\ f.found[p].until = e.until /\ f.found[p].asked = j.now
      BY <3>1 DEF Entry
    <3> HIDE DEF f
    <3>3. QED BY <1>5, <2>1, <3>2 DEF EntryTrue, Job
  <2>2. CASE p # q
    <3>1. p \in DOMAIN j.found /\ f.found[p] = j.found[p] /\ f.began = j.began
      BY <1>3, <1>5, <2>2
    <3> HIDE DEF f
    <3>2. QED BY <3>1 DEF FoundTrue
  <2>3. QED BY <2>1, <2>2
<1> HIDE DEF f
<1>12. QED BY <1>7, <1>8, <1>9, <1>10, <1>11 DEF JobTrue, Clock, f

-----------------------------------------------------------------------------
(* A thread takes a step that leaves cache, clock and application alone.     *)
LEMMA ThreadSteps ==
  ASSUME CatalogueInv, NEW t \in Threads, NEW j \in Job, job' = [job EXCEPT ![t] = j],
         JobTrue(j, Config, history), Serves,
         j.at \in {"reach", "look_into", "publish"} =>
           refreshing'[Head(j.todo)] = t /\ ~Fresh(Head(j.todo), j.now),
         refreshing' \in [Prerequisites -> Threads \cup {None}],
         \A u \in Threads \ {t} : Probing(u) => refreshing'[Sought(u)] = refreshing[Sought(u)],
         UNCHANGED <<app, history, cache, agent>>
  PROVE  CatalogueInv'
<1>1. /\ job' \in [Threads -> Job] /\ job'[t] = j
      /\ \A u \in Threads \ {t} : job'[u] = job[u]
  BY DEF CatalogueInv, CatalogueTyped
<1>2. Config' = Config /\ Clock' = Clock /\ Serves' = Serves
  BY DEF Config, Clock, Serves
<1>3. CatalogueTyped'
  BY <1>1, <1>2 DEF CatalogueInv, CatalogueTyped
<1>4. Served'
  BY <1>1, <1>2 DEF CatalogueInv, Served
<1>5. (\A p \in Prerequisites : cache[p] # None => EntryTrue(cache[p], p, Config.settings, history))'
  BY <1>2 DEF CatalogueInv
<1>6. ASSUME NEW u \in Threads
      PROVE  (JobTrue(job[u], Config, history) /\ Refreshes(u))'
  <2>1. \A p, n : Fresh(p, n)' = Fresh(p, n)
    BY <1>2 DEF Fresh
  <2>2. CASE u = t
    BY <1>1, <1>2, <2>1, <2>2 DEF Refreshes, Probing, Sought
  <2>3. CASE u # t
    <3>1. JobTrue(job[u], Config, history) /\ Refreshes(u) /\ job'[u] = job[u]
      BY <1>1, <2>3 DEF CatalogueInv
    <3>2. QED BY <1>2, <2>1, <2>3, <3>1 DEF Refreshes, Probing, Sought
  <2>4. QED BY <2>2, <2>3
<1>7. QED BY <1>3, <1>4, <1>5, <1>6 DEF CatalogueInv

(* A check begins with no evidence.                                         *)
LEMMA CheckingHolds ==
  ASSUME CatalogueInv, NEW tools
  PROVE  /\ Checking(tools) \in Job /\ Checking(tools).at \in {"look", "done"}
         /\ JobTrue(Checking(tools), Config, history)
<1> DEFINE needs == Needs(tools)
           j == Checking(tools)
           first == IF needs = <<>> THEN "done" ELSE "look"
<1>1. needs \in Seq(Prerequisites) /\ Clock \in Nat /\ None \in Verdicts /\ first \in {"done", "look"}
  BY NeedsTyped DEF CatalogueInv, CatalogueTyped, Clock, Verdicts
<1>2. j = [at |-> first, todo |-> needs, began |-> Clock, now |-> Clock, since |-> 0, verdict |-> None,
           found |-> <<>>]
  BY DEF Checking
<1> HIDE DEF needs, j
<1>3. <<>> \in [{} -> Entry] /\ DOMAIN <<>> = {}
  OBVIOUS
<1>4. <<>> \in UNION {[S -> Entry] : S \in SUBSET Prerequisites}
  BY <1>3
<1>5. j \in Job
  BY <1>1, <1>2, <1>4 DEF Job
<1>6. j.at = first /\ j.began = Clock /\ j.now = Clock /\ j.since = 0 /\ j.todo = needs /\ DOMAIN j.found = {}
  BY <1>2, <1>3
<1>7. first = "look" => needs # <<>>
  OBVIOUS
<1> HIDE DEF first
<1>8. Timed(j, Clock) /\ ProbeTrue(j, Config.settings, history) /\ FoundTrue(j, Config, history)
  BY <1>1, <1>6, <1>7 DEF Timed, ProbeTrue, FoundTrue
<1>9. QED BY <1>1, <1>5, <1>6, <1>8 DEF JobTrue, Clock, j

LEMMA IdleHolds ==
  ASSUME NEW c, NEW h \in Seq(Worlds), NEW at \in {"idle", "replied"}
  PROVE  [Idle EXCEPT !.at = at] \in Job /\ JobTrue([Idle EXCEPT !.at = at], c, h)
<1>1. <<>> \in [{} -> Entry] /\ DOMAIN <<>> = {} /\ <<>> \in Seq(Prerequisites)
  OBVIOUS
<1>2. <<>> \in UNION {[S -> Entry] : S \in SUBSET Prerequisites} /\ None \in Verdicts
  BY <1>1 DEF Verdicts
<1> DEFINE j == [Idle EXCEPT !.at = at]
<1>3. j = [at |-> at, todo |-> <<>>, began |-> 0, now |-> 0, since |-> 0, verdict |-> None, found |-> <<>>]
  BY DEF Idle
<1> HIDE DEF j
<1>4. j \in Job
  BY <1>1, <1>2, <1>3 DEF Job
<1>5. j.at = at /\ j.began = 0 /\ j.now = 0 /\ j.since = 0 /\ DOMAIN j.found = {}
  BY <1>1, <1>3
<1>6. JobTrue(j, c, h)
  BY <1>5 DEF JobTrue, Timed, ProbeTrue, FoundTrue
<1>7. QED BY <1>4, <1>6 DEF j

(* A step of the application: it replaces one thread's check, and the rest   *)
(* of the registry stays.                                                   *)
LEMMA ApplicationSteps ==
  ASSUME CatalogueInv, NEW t \in Threads, NEW j \in Job, job' = [job EXCEPT ![t] = j],
         JobTrue(j, Config, history), j.at \notin {"reach", "look_into", "publish"},
         app' \in [config : DOMAIN Configurations, phase : Phases], app'.config = app.config,
         (Served)', UNCHANGED <<history, cache, refreshing>>
  PROVE  CatalogueInv'
<1>1. /\ job' \in [Threads -> Job] /\ job'[t] = j
      /\ \A u \in Threads \ {t} : job'[u] = job[u]
  BY DEF CatalogueInv, CatalogueTyped
<1>2. Config' = Config /\ Clock' = Clock
  BY DEF Config, Clock
<1>3. CatalogueTyped'
  BY <1>1, <1>2 DEF CatalogueInv, CatalogueTyped
<1>4. (\A p \in Prerequisites : cache[p] # None => EntryTrue(cache[p], p, Config.settings, history))'
  BY <1>2 DEF CatalogueInv
<1>5. ASSUME NEW u \in Threads
      PROVE  (JobTrue(job[u], Config, history) /\ Refreshes(u))'
  <2>1. \A p, n : Fresh(p, n)' = Fresh(p, n)
    BY <1>2 DEF Fresh
  <2>2. CASE u = t
    BY <1>1, <1>2, <2>2 DEF Refreshes, Probing
  <2>3. CASE u # t
    <3>1. JobTrue(job[u], Config, history) /\ Refreshes(u) /\ job'[u] = job[u]
      BY <1>1, <2>3 DEF CatalogueInv
    <3>2. QED BY <1>2, <2>1, <3>1 DEF Refreshes, Probing, Sought
  <2>4. QED BY <2>2, <2>3
<1>6. QED BY <1>3, <1>4, <1>5 DEF CatalogueInv

LEMMA StartKeeps ==
  ASSUME CatalogueInv, Start
  PROVE  CatalogueInv'
<1>1. /\ app \in [config : DOMAIN Configurations, phase : Phases] /\ app.phase = "starting" /\ agent = None
      /\ \A t \in Threads : job[t].at = "idle" /\ job[t] \in Job /\ JobTrue(job[t], Config, history)
      /\ Startup \in Threads /\ job \in [Threads -> Job]
  BY DEF CatalogueInv, CatalogueTyped, Served, Serves, Start, Threads
<1>2. UNCHANGED <<history, cache, refreshing, agent>>
  BY DEF Start
<1>3. PICK phase \in Phases : app' = [app EXCEPT !.phase = phase]
  BY DEF Start, Phases
<1>4. /\ app' \in [config : DOMAIN Configurations, phase : Phases] /\ app'.config = app.config
      /\ app'.phase = phase /\ Config' = Config
  BY <1>1, <1>3 DEF Config
<1>5. phase \in {"selecting", "serving"} => Accepts(Config)
  BY <1>1, <1>3 DEF Start
<1>6. CASE UNCHANGED job /\ phase # "selecting"
  <2>1. job' = [job EXCEPT ![Startup] = job[Startup]]
    BY <1>1, <1>6
  <2>2. Served'
    BY <1>1, <1>2, <1>4, <1>5, <1>6 DEF Served, Serves
  <2>3. QED BY <1>1, <1>2, <1>4, <2>1, <2>2, ApplicationSteps
<1>7. CASE /\ phase = "selecting" /\ AcceptsLimits(Config.limits)
           /\ job' = [job EXCEPT ![Startup] = Checking(OfPortfolio(Config.extended))]
  <2> DEFINE j == Checking(OfPortfolio(Config.extended))
  <2>1. j \in Job /\ j.at \in {"look", "done"} /\ JobTrue(j, Config, history)
    BY CheckingHolds
  <2>2. Served'
    BY <1>1, <1>2, <1>4, <1>5, <1>7 DEF Served, Serves
  <2> HIDE DEF j
  <2>3. job' = [job EXCEPT ![Startup] = j]
    BY <1>7 DEF j
  <2>4. QED BY <1>1, <1>2, <1>4, <2>1, <2>2, <2>3, ApplicationSteps
<1>8. \/ UNCHANGED job /\ phase # "selecting"
      \/ /\ phase = "selecting" /\ AcceptsLimits(Config.limits)
         /\ job' = [job EXCEPT ![Startup] = Checking(OfPortfolio(Config.extended))]
  BY <1>1, <1>3 DEF Start
<1>9. QED BY <1>6, <1>7, <1>8

LEMMA BuildAgentKeeps ==
  ASSUME CatalogueInv, BuildAgent
  PROVE  CatalogueInv'
<1>1. /\ app \in [config : DOMAIN Configurations, phase : Phases] /\ app.phase = "selecting"
      /\ Startup \in Threads /\ job \in [Threads -> Job] /\ history \in Seq(Worlds)
      /\ Accepts(Config) /\ AcceptsLimits(Config.limits)
  BY DEF CatalogueInv, CatalogueTyped, Served, Serves, BuildAgent, Threads
<1>2. UNCHANGED <<history, cache, refreshing>> /\ app' = [app EXCEPT !.phase = "serving"]
      /\ job' = [job EXCEPT ![Startup] = Idle]
  BY DEF BuildAgent
<1>3. /\ app' \in [config : DOMAIN Configurations, phase : Phases] /\ app'.config = app.config
      /\ app'.phase = "serving" /\ Config' = Config
  BY <1>1, <1>2 DEF Config, Phases
<1>4. Idle = [Idle EXCEPT !.at = "idle"]
  BY DEF Idle
<1>5. Idle \in Job /\ JobTrue(Idle, Config, history) /\ Idle.at = "idle"
  <2>1. Idle.at = "idle"
    BY DEF Idle
  <2>2. QED BY <1>1, <1>4, <2>1, IdleHolds
<1>6. Served'
  BY <1>1, <1>3 DEF Served, Serves
<1>7. QED BY <1>1, <1>2, <1>3, <1>5, <1>6, ApplicationSteps

LEMMA AskStatusKeeps ==
  ASSUME CatalogueInv, NEW t \in Threads, AskStatus(t)
  PROVE  CatalogueInv'
<1> DEFINE j == Checking(Catalogue)
<1>1. j \in Job /\ j.at \in {"look", "done"} /\ JobTrue(j, Config, history)
  BY CheckingHolds
<1> HIDE DEF j
<1>2. job' = [job EXCEPT ![t] = j] /\ Serves /\ UNCHANGED <<app, history, cache, refreshing, agent>>
  BY DEF AskStatus, Serves, j
<1>3. refreshing' \in [Prerequisites -> Threads \cup {None}]
  BY <1>2 DEF CatalogueInv, CatalogueTyped
<1>4. QED BY <1>1, <1>2, <1>3, ThreadSteps

LEMMA ReplyKeeps ==
  ASSUME CatalogueInv, NEW t \in Threads, Reply(t)
  PROVE  CatalogueInv'
<1> DEFINE j == [Idle EXCEPT !.at = "replied"]
<1>1. history \in Seq(Worlds) /\ Serves
  BY DEF CatalogueInv, CatalogueTyped, Served, Reply
<1>2. j \in Job /\ j.at = "replied" /\ JobTrue(j, Config, history)
  BY <1>1, IdleHolds DEF Idle
<1> HIDE DEF j
<1>3. job' = [job EXCEPT ![t] = j] /\ UNCHANGED <<app, history, cache, refreshing, agent>>
  BY DEF Reply, j
<1>4. refreshing' \in [Prerequisites -> Threads \cup {None}]
  BY <1>3 DEF CatalogueInv, CatalogueTyped
<1>5. QED BY <1>1, <1>2, <1>3, <1>4, ThreadSteps

(* What the invariant says of a thread whose check goes on.                 *)
LEMMA Seeking ==
  ASSUME CatalogueInv, NEW t \in Threads,
         job[t].at \in {"look", "wait", "reach", "look_into", "publish"}
  PROVE  /\ job[t] \in Job /\ JobTrue(job[t], Config, history) /\ Serves
         /\ job[t].todo # <<>> /\ Sought(t) = Head(job[t].todo) /\ Sought(t) \in Prerequisites
         /\ job[t].began <= job[t].now /\ job[t].began <= Clock
         /\ Clock \in Nat /\ Clock >= 1 /\ Config.ttl \in Int /\ Config.ttl >= 1
         /\ cache[Sought(t)] # None => cache[Sought(t)] \in Entry
                                       /\ EntryTrue(cache[Sought(t)], Sought(t), Config.settings, history)
<1>1. job[t] \in Job /\ JobTrue(job[t], Config, history) /\ Serves
  BY DEF CatalogueInv, CatalogueTyped, Served
<1>2. job[t].todo # <<>> /\ job[t].began <= job[t].now /\ job[t].began <= Clock
  BY <1>1 DEF JobTrue, Timed, Clock
<1>3. Sought(t) \in Prerequisites
  BY <1>1, <1>2 DEF Sought, Job
<1>4. Clock \in Nat /\ Clock >= 1
  BY DEF CatalogueInv, CatalogueTyped, Clock
<1>5. QED BY <1>1, <1>2, <1>3, <1>4, Configured DEF CatalogueInv, CatalogueTyped, Sought

LEMMA LookKeeps ==
  ASSUME CatalogueInv, NEW t \in Threads, Look(t)
  PROVE  CatalogueInv'
<1> DEFINE found == Finding(job[t], cache[Sought(t)])
           waits == [job[t] EXCEPT !.at = "wait"]
<1>1. /\ job[t].at = "look" /\ UNCHANGED <<app, history, cache, refreshing, agent>>
      /\ job' = [job EXCEPT ![t] = IF Fresh(Sought(t), job[t].now) THEN found ELSE waits]
  BY DEF Look, CatalogueInv, CatalogueTyped
<1>2. refreshing' \in [Prerequisites -> Threads \cup {None}]
  BY <1>1 DEF CatalogueInv, CatalogueTyped
<1>3. CASE Fresh(Sought(t), job[t].now)
  <2>1. found \in Job /\ found.at \in {"look", "done"} /\ JobTrue(found, Config, history)
    BY <1>1, <1>3, Seeking, FindingHolds DEF Fresh, JobTrue
  <2> HIDE DEF found
  <2>2. QED BY <1>1, <1>2, <1>3, <2>1, Seeking, ThreadSteps
<1>4. CASE ~Fresh(Sought(t), job[t].now)
  <2>1. waits \in Job /\ waits.at = "wait" /\ JobTrue(waits, Config, history)
    BY <1>1, Seeking DEF Job, JobTrue, Timed, ProbeTrue, FoundTrue
  <2> HIDE DEF waits
  <2>2. QED BY <1>1, <1>2, <1>4, <2>1, Seeking, ThreadSteps
<1>5. QED BY <1>3, <1>4

LEMMA AcquireKeeps ==
  ASSUME CatalogueInv, NEW t \in Threads, Acquire(t)
  PROVE  CatalogueInv'
<1>1. /\ job[t].at = "wait" /\ UNCHANGED <<app, history, cache, agent>> /\ refreshing[Sought(t)] = None
      /\ job \in [Threads -> Job] /\ refreshing \in [Prerequisites -> Threads \cup {None}]
  BY DEF Acquire, CatalogueInv, CatalogueTyped
<1>2. CASE RefreshedMeanwhile(t) /\ UNCHANGED refreshing
           /\ job' = [job EXCEPT ![t] = Finding([job[t] EXCEPT !.now = Clock], cache[Sought(t)])]
  <2> DEFINE j == [job[t] EXCEPT !.now = Clock]
             found == Finding(j, cache[Sought(t)])
  <2>1. j \in Job /\ j.now = Clock /\ j.todo = job[t].todo /\ j.began = job[t].began /\ j.found = job[t].found
    BY <1>1, Seeking DEF Job
  <2> HIDE DEF j
  <2>2. found \in Job /\ found.at \in {"look", "done"} /\ JobTrue(found, Config, history)
    BY <1>1, <1>2, <2>1, Seeking, FindingHolds DEF RefreshedMeanwhile, Fresh, JobTrue, FoundTrue
  <2>3. job' = [job EXCEPT ![t] = found]
    BY <1>2 DEF j
  <2> HIDE DEF found
  <2>4. QED BY <1>1, <1>2, <2>2, <2>3, Seeking, ThreadSteps
<1>3. CASE /\ ~RefreshedMeanwhile(t) /\ refreshing' = [refreshing EXCEPT ![Sought(t)] = t]
           /\ job' = [job EXCEPT ![t].at = "reach", ![t].now = Clock, ![t].since = Clock]
  <2> DEFINE j == [job[t] EXCEPT !.at = "reach", !.now = Clock, !.since = Clock]
  <2>1. /\ j \in Job /\ j.at = "reach" /\ j.now = Clock /\ j.since = Clock /\ j.todo = job[t].todo
        /\ j.began = job[t].began /\ j.found = job[t].found
    BY <1>1, Seeking DEF Job
  <2>2. job' = [job EXCEPT ![t] = j]
    BY <1>1, <1>3
  <2> HIDE DEF j
  <2>3. JobTrue(j, Config, history)
    BY <1>1, <2>1, Seeking DEF JobTrue, Timed, ProbeTrue, FoundTrue, Clock
  <2>4. refreshing' \in [Prerequisites -> Threads \cup {None}] /\ refreshing'[Head(j.todo)] = t
    BY <1>1, <1>3, <2>1, Seeking
  <2>5. ~Fresh(Head(j.todo), j.now)
    BY <1>1, <1>3, <2>1, Seeking DEF RefreshedMeanwhile
  <2>6. ASSUME NEW u \in Threads \ {t}, Probing(u)
        PROVE  refreshing'[Sought(u)] = refreshing[Sought(u)]
    <3>1. refreshing[Sought(u)] = u /\ u # None /\ Sought(u) \in Prerequisites
      BY <2>6, Seeking, ThreadsAssumption DEF CatalogueInv, Refreshes, Probing, Threads
    <3>2. Sought(u) # Sought(t)
      BY <1>1, <3>1
    <3>3. QED BY <1>1, <1>3, <3>1, <3>2
  <2>7. QED BY <1>1, <2>1, <2>2, <2>3, <2>4, <2>5, <2>6, Seeking, ThreadSteps
<1>4. QED BY <1>1, <1>2, <1>3 DEF Acquire

(* The two steps of a probe.                                                *)
LEMMA ProbeSteps ==
  ASSUME CatalogueInv, NEW t \in Threads, Probing(t), NEW at \in {"look_into", "publish"}, NEW v \in Verdicts,
         job' = [job EXCEPT ![t].at = at, ![t].verdict = v],
         at = "look_into" =>
           \E k \in job[t].since..Clock : Reach(Sought(t), Config.settings, history[k]) = "reached",
         at = "publish" => Evidenced(v, Sought(t), Config.settings, job[t].since, Clock, history),
         UNCHANGED <<app, history, cache, refreshing, agent>>
  PROVE  CatalogueInv'
<1> DEFINE j == [job[t] EXCEPT !.at = at, !.verdict = v]
<1>1. job[t].at \in {"reach", "look_into", "publish"} /\ job \in [Threads -> Job]
      /\ refreshing' \in [Prerequisites -> Threads \cup {None}]
  BY DEF Probing, CatalogueInv, CatalogueTyped
<1>2. /\ j \in Job /\ j.at = at /\ j.verdict = v /\ j.todo = job[t].todo /\ j.since = job[t].since
      /\ j.began = job[t].began /\ j.now = job[t].now /\ j.found = job[t].found
  BY <1>1, Seeking DEF Job
<1>3. job' = [job EXCEPT ![t] = j]
  BY <1>1
<1> HIDE DEF j
<1>4. JobTrue(j, Config, history)
  BY <1>1, <1>2, Seeking DEF JobTrue, Timed, ProbeTrue, FoundTrue, Clock
<1>5. refreshing'[Head(j.todo)] = t /\ ~Fresh(Head(j.todo), j.now)
  BY <1>1, <1>2, Seeking DEF CatalogueInv, Refreshes
<1>6. QED BY <1>1, <1>2, <1>3, <1>4, <1>5, Seeking, ThreadSteps

LEMMA ProbeKeeps ==
  ASSUME CatalogueInv, NEW t \in Threads, ReachOut(t) \/ LookInside(t)
  PROVE  CatalogueInv'
<1> DEFINE p == Sought(t)
           s == Config.settings
<1>1. /\ job[t].at \in {"reach", "look_into"} /\ Probing(t) /\ p \in Prerequisites
      /\ JobTrue(job[t], Config, history) /\ job[t].since \in Nat /\ job[t].since <= Clock /\ Clock \in Nat
      /\ p = Head(job[t].todo)
  BY Seeking DEF ReachOut, LookInside, Probing, JobTrue, Timed, Clock, Job
<1>2. /\ World \in Worlds /\ Config = Configurations[app.config] /\ app.config \in DOMAIN Configurations
      /\ World = history[Clock] /\ Clock \in job[t].since..Clock
  BY <1>1 DEF World, Clock, Config, CatalogueInv, CatalogueTyped
<1>3. Reach(p, s, World) \in Verdicts /\ LookInto(p, World) \in Verdicts
  BY <1>1, <1>2 DEF Verdicts
<1>4. UNCHANGED <<app, history, cache, refreshing, agent>>
  BY DEF ReachOut, LookInside
<1>5. CASE ReachOut(t)
  <2> DEFINE v == Reach(p, s, World)
             at == IF v = "reached" THEN "look_into" ELSE "publish"
  <2>1. job' = [job EXCEPT ![t].at = at, ![t].verdict = v] /\ at \in {"look_into", "publish"}
    BY <1>5 DEF ReachOut
  <2>2. at = "look_into" => \E k \in job[t].since..Clock : Reach(p, s, history[k]) = "reached"
    BY <1>2
  <2>3. at = "publish" => Evidenced(v, p, s, job[t].since, Clock, history)
    <3>1. v # "reached" => Verdict(p, s, World) = v
      BY DEF Verdict
    <3>2. QED BY <1>2, <3>1 DEF Evidenced
  <2> HIDE DEF at, v
  <2>4. v \in Verdicts
    BY <1>3 DEF v
  <2>5. QED BY <1>1, <1>4, <2>1, <2>2, <2>3, <2>4, ProbeSteps
<1>6. CASE LookInside(t)
  <2> DEFINE v == LookInto(p, World)
  <2>1. job' = [job EXCEPT ![t].at = "publish", ![t].verdict = v] /\ job[t].at = "look_into"
    BY <1>6 DEF LookInside
  <2>2. PICK k \in job[t].since..Clock : Reach(p, s, history[k]) = "reached"
    BY <1>1, <2>1 DEF JobTrue, ProbeTrue, Clock
  <2>3. Evidenced(v, p, s, job[t].since, Clock, history)
    <3>1. CASE Reach(p, s, World) = "reached"
      <4>1. Verdict(p, s, World) = v
        BY <3>1 DEF Verdict
      <4>2. QED BY <1>2, <4>1 DEF Evidenced
    <3>2. CASE Reach(p, s, World) # "reached"
      <4>1. v = "readiness_check_failed"
        BY <1>1, <2>2, <3>2, OutOfReach
      <4>2. history[k] # history[Clock]
        BY <1>2, <2>2, <3>2
      <4>3. QED BY <1>2, <2>2, <4>1, <4>2 DEF Evidenced
    <3>3. QED BY <3>1, <3>2
  <2> HIDE DEF v
  <2>4. v \in Verdicts
    BY <1>3 DEF v
  <2>5. QED BY <1>1, <1>4, <2>1, <2>3, <2>4, ProbeSteps
<1>7. QED BY <1>5, <1>6

(* The probe's end: a new entry, evidence for the thread, and the lock is    *)
(* free.  No other thread probes this prerequisite.                         *)
LEMMA PublishKeeps ==
  ASSUME CatalogueInv, NEW t \in Threads, Publish(t)
  PROVE  CatalogueInv'
<1> DEFINE p == Sought(t)
           e == [verdict |-> job[t].verdict, since |-> job[t].since, until |-> Clock, asked |-> 0]
           found == Finding(job[t], e)
<1>1. /\ job[t].at = "publish" /\ Probing(t) /\ UNCHANGED <<app, history, agent>>
      /\ cache' = [cache EXCEPT ![p] = e] /\ job' = [job EXCEPT ![t] = found]
      /\ refreshing' = [refreshing EXCEPT ![p] = None]
  BY DEF Publish, Probing, CatalogueInv, CatalogueTyped
<1>2. /\ job[t] \in Job /\ JobTrue(job[t], Config, history) /\ Serves /\ job[t].todo # <<>>
      /\ p = Head(job[t].todo) /\ p \in Prerequisites /\ job[t].began <= job[t].now /\ job[t].began <= Clock
      /\ Clock \in Nat /\ Clock >= 1 /\ Config.ttl \in Int /\ Config.ttl >= 1
  BY <1>1, Seeking
<1>3. job[t].verdict \in Verdicts /\ job[t].since \in Nat /\ job[t].now \in Nat /\ job[t].now <= Clock
  BY <1>2 DEF Job, JobTrue, Timed, Clock
<1>4. /\ e \in Entry /\ e.until = Clock /\ e.verdict = job[t].verdict /\ e.since = job[t].since
  BY <1>2, <1>3 DEF Entry
<1> HIDE DEF e
<1>5. EntryTrue(e, p, Config.settings, history) /\ e.until + Config.ttl > job[t].now
  BY <1>1, <1>2, <1>3, <1>4 DEF EntryTrue, JobTrue, ProbeTrue, Clock
<1>6. found \in Job /\ found.at \in {"look", "done"} /\ JobTrue(found, Config, history)
  BY <1>2, <1>4, <1>5, FindingHolds DEF JobTrue
<1> HIDE DEF found
<1>7. /\ job' \in [Threads -> Job] /\ job'[t] = found /\ (\A u \in Threads \ {t} : job'[u] = job[u])
      /\ cache' \in [Prerequisites -> Entry \cup {None}] /\ cache'[p] = e
      /\ (\A q \in Prerequisites \ {p} : cache'[q] = cache[q] /\ refreshing'[q] = refreshing[q])
      /\ refreshing' \in [Prerequisites -> Threads \cup {None}]
  BY <1>1, <1>2, <1>4, <1>6 DEF CatalogueInv, CatalogueTyped
<1>8. Config' = Config /\ Clock' = Clock /\ Serves' = Serves
  BY <1>1 DEF Config, Clock, Serves
<1>9. CatalogueTyped' /\ Served'
  BY <1>1, <1>2, <1>7, <1>8 DEF CatalogueInv, CatalogueTyped, Served
<1>10. (\A q \in Prerequisites : cache[q] # None => EntryTrue(cache[q], q, Config.settings, history))'
  BY <1>1, <1>5, <1>7, <1>8 DEF CatalogueInv
<1>11. ASSUME NEW u \in Threads
       PROVE  (JobTrue(job[u], Config, history) /\ Refreshes(u))'
  <2>1. CASE u = t
    BY <1>1, <1>6, <1>7, <1>8, <2>1 DEF Refreshes, Probing
  <2>2. CASE u # t
    <3>1. JobTrue(job[u], Config, history) /\ Refreshes(u) /\ job'[u] = job[u] /\ refreshing[p] = t
      BY <1>1, <1>7, <2>2 DEF CatalogueInv, Refreshes
    <3>2. Probing(u) => Sought(u) \in Prerequisites \ {p}
      BY <2>2, <3>1, Seeking DEF Refreshes, Probing
    <3>3. \A n, q \in Prerequisites \ {p} : Fresh(q, n)' = Fresh(q, n)
      BY <1>7, <1>8 DEF Fresh
    <3>4. Probing(u)' = Probing(u) /\ Sought(u)' = Sought(u)
      BY <3>1 DEF Probing, Sought
    <3>5. Refreshes(u)'
      <4>1. SUFFICES ASSUME Probing(u)
                     PROVE  (refreshing[Sought(u)] = u /\ ~Fresh(Sought(u), job[u].now))'
        BY <3>4 DEF Refreshes
      <4>2. refreshing[Sought(u)] = u /\ ~Fresh(Sought(u), job[u].now) /\ Sought(u) \in Prerequisites \ {p}
        BY <3>1, <3>2, <4>1 DEF Refreshes
      <4>3. Fresh(Sought(u), job[u].now)' = Fresh(Sought(u), job[u].now)
        BY <1>7, <1>8, <3>1, <3>4, <4>2 DEF Fresh
      <4>4. QED BY <1>7, <3>4, <4>2, <4>3
    <3>6. QED BY <1>1, <1>8, <3>1, <3>5
  <2>3. QED BY <2>1, <2>2
<1>12. QED BY <1>9, <1>10, <1>11 DEF CatalogueInv

LEMMA PassesKeeps ==
  ASSUME CatalogueInv, Passes
  PROVE  CatalogueInv'
<1>1. PICK w \in Worlds : history' = Append(history, w)
  BY DEF Passes
<1>2. UNCHANGED <<app, cache, refreshing, job, agent>> /\ history \in Seq(Worlds) /\ Clock >= 1
  BY DEF Passes, CatalogueInv, CatalogueTyped
<1>3. Config' = Config /\ Serves' = Serves /\ history' \in Seq(Worlds) /\ Clock' >= 1
  BY <1>1, <1>2 DEF Config, Serves, Clock
<1>4. CatalogueTyped' /\ Served'
  BY <1>2, <1>3 DEF CatalogueInv, CatalogueTyped, Served
<1>5. (\A p \in Prerequisites : cache[p] # None => EntryTrue(cache[p], p, Config.settings, history))'
  BY <1>1, <1>2, <1>3, EvidenceStays DEF CatalogueInv, CatalogueTyped
<1>6. ASSUME NEW t \in Threads
      PROVE  (JobTrue(job[t], Config, history) /\ Refreshes(t))'
  <2>1. JobTrue(job[t], Config, history)'
    BY <1>1, <1>2, <1>3, JobStays DEF CatalogueInv, CatalogueTyped
  <2>2. Refreshes(t)'
    BY <1>2, <1>3 DEF CatalogueInv, Refreshes, Probing, Sought, Fresh
  <2>3. QED BY <2>1, <2>2
<1>7. QED BY <1>4, <1>5, <1>6 DEF CatalogueInv

LEMMA CatalogueStarts ==
  ASSUME CatalogueInit
  PROVE  CatalogueInv
<1>1. history \in Seq(Worlds) /\ Len(history) = 1
  <2>1. history \in [1..1 -> Worlds] /\ 1 \in Nat
    BY DEF CatalogueInit
  <2>2. [1..1 -> Worlds] \in {[1..n -> Worlds] : n \in Nat}
    BY <2>1
  <2>3. history \in Seq(Worlds)
    BY <2>1, <2>2, SeqDef
  <2>4. DOMAIN history = 1..1
    BY <2>1
  <2>5. QED BY <2>3, <2>4
<1>2. Idle \in Job /\ JobTrue(Idle, Config, history) /\ Idle.at = "idle"
  <2>1. Idle = [Idle EXCEPT !.at = "idle"] /\ Idle.at = "idle"
    BY DEF Idle
  <2>2. QED BY <1>1, <2>1, IdleHolds
<1>3. \A t \in Threads : job[t] = Idle
  BY DEF CatalogueInit
<1>4. CatalogueTyped
  BY <1>1, <1>2 DEF CatalogueInit, CatalogueTyped, Phases, Clock
<1>5. Served
  BY <1>2, <1>3 DEF CatalogueInit, Served, Serves
<1>6. \A t \in Threads : JobTrue(job[t], Config, history) /\ Refreshes(t)
  BY <1>2, <1>3 DEF Refreshes, Probing
<1>7. \A p \in Prerequisites : cache[p] = None
  BY DEF CatalogueInit
<1>8. QED BY <1>4, <1>5, <1>6, <1>7 DEF CatalogueInv

LEMMA CatalogueKeeps ==
  ASSUME CatalogueInv, [CatalogueNext]_catalogueVars
  PROVE  CatalogueInv'
<1>1. CASE CatalogueNext
  BY <1>1, StartKeeps, BuildAgentKeeps, PassesKeeps, AskStatusKeeps, ReplyKeeps, LookKeeps, AcquireKeeps,
     ProbeKeeps, PublishKeeps DEF CatalogueNext
<1>2. CASE UNCHANGED catalogueVars
  <2>1. UNCHANGED <<app, history, cache, refreshing, job, agent>>
    BY <1>2 DEF catalogueVars
  <2>2. CatalogueTyped' /\ Served'
    BY <2>1 DEF CatalogueInv, CatalogueTyped, Served, Serves, Clock, Config
  <2>3. QED BY <2>1, <2>2 DEF CatalogueInv, Refreshes, Probing, Sought, Fresh, Config
<1>3. QED BY <1>1, <1>2

THEOREM CatalogueHeld == CatalogueSpec => []CatalogueInv
<1>1. QED BY CatalogueStarts, CatalogueKeeps, PTL DEF CatalogueSpec

(* Whatever the worlds, however many requests check at once and whenever    *)
(* time passes: evidence is as fresh as promised and was so during its      *)
(* probe, and nobody probes beside another thread or a fresh entry          *)
(* (_get_prerequisite_readiness).                                           *)
LEMMA InvTellsTruth ==
  ASSUME CatalogueInv
  PROVE  EvidenceIsTrue
<1> SUFFICES ASSUME NEW t \in Threads, NEW p \in DOMAIN job[t].found
             PROVE  LET e == job[t].found[p]
                        During == {history[k] : k \in e.since..e.until}
                    IN  /\ e.until + Config.ttl > e.asked /\ e.asked >= job[t].began
                        /\ \/ \E w \in During : e.verdict = Verdict(p, Config.settings, w)
                           \/ e.verdict = "readiness_check_failed" /\ \E v, w \in During : v # w
  BY DEF EvidenceIsTrue
<1> DEFINE e == job[t].found[p]
<1>1. EntryTrue(e, p, Config.settings, history) /\ e.until + Config.ttl > e.asked /\ e.asked >= job[t].began
  BY DEF CatalogueInv, JobTrue, FoundTrue
<1> HIDE DEF e
<1>2. Evidenced(e.verdict, p, Config.settings, e.since, e.until, history)
  BY <1>1 DEF EntryTrue
<1>3. QED BY <1>1, <1>2 DEF Evidenced, e

LEMMA InvSpacesProbes ==
  ASSUME CatalogueInv
  PROVE  ProbesAreSpaced
<1> SUFFICES ASSUME NEW t \in Threads, Probing(t)
             PROVE  /\ refreshing[Sought(t)] = t /\ ~Fresh(Sought(t), job[t].now)
                    /\ \A u \in Threads \ {t} : Probing(u) => Sought(u) # Sought(t)
  BY DEF ProbesAreSpaced
<1>1. QED BY DEF CatalogueInv, Refreshes

(* What the loaders accept is what the application relies on.               *)
LEMMA PolicyServes ==
  ASSUME NEW p, AcceptsPolicy(p),
         {p.permits, p.fast, p.slow, p.attempts, p.delay, p.remaining} \subseteq Int \cup {None}
  PROVE  p.fast # None /\ ServedPolicy(p)
<1>1. /\ p.permits \in Int /\ p.permits > 0 /\ p.fast \in Int /\ p.slow \in Int /\ p.fast # None
      /\ p.delay \in Int /\ p.delay >= 0 /\ p.remaining \in Int /\ p.remaining > 0 /\ p.attempts \in 1..2
      /\ p.delay + p.remaining < p.fast /\ p.delay + p.remaining < p.slow
  BY DEF AcceptsPolicy, Positive, NotNegative
<1>2. ASSUME NEW d
      PROVE  /\ p.delay + p.remaining < DeadlineOf(d, p)
             /\ d.cost \notin p.costs => ~MayRetry(d, p, "sqlite_busy", 1, DeadlineOf(d, p))
  BY <1>1 DEF DeadlineOf, MayRetry
<1>3. QED BY <1>1, <1>2 DEF ServedPolicy

LEMMA PromptsServe ==
  ASSUME NEW manifest, NEW directory, AcceptsManifest(manifest, directory)
  PROVE  Prompts = {f \in DOMAIN directory : directory[f] # "blank"}
<1>1. /\ DOMAIN manifest = DOMAIN ExpectedPrompts
      /\ \A n \in DOMAIN manifest : /\ manifest[n] = ExpectedPrompts[n]
                                  /\ manifest[n].file \in DOMAIN directory
                                  /\ directory[manifest[n].file] # "blank"
      /\ DOMAIN directory \subseteq {manifest[n].file : n \in DOMAIN manifest}
  BY DEF AcceptsManifest
<1>2. QED BY <1>1 DEF Prompts

LEMMA InvServesSound ==
  ASSUME CatalogueInv
  PROVE  ServedIsConfigured
<1> DEFINE i == app.config
<1>1. i \in DOMAIN Configurations /\ Config = Configurations[i]
  BY DEF CatalogueInv, CatalogueTyped, Config
<1>2. /\ {Config.limits.steps, Config.policy.permits, Config.policy.fast, Config.policy.slow,
          Config.policy.attempts, Config.policy.delay, Config.policy.remaining} \subseteq Int \cup {None}
      /\ Config.memory.counts \in Seq(Int \cup {None})
      /\ Config.limits.topics \in Seq(STRING) /\ Config.limits.offTopics \in Seq(STRING)
  BY <1>1, ConfigurationAssumption
<1>3. ASSUME Serves PROVE i \in Sound
  <2>1. /\ AcceptsManifest(Config.manifest, Config.directory) /\ AcceptsPolicy(Config.policy)
        /\ AcceptsSession(Config.memory)
    BY <1>3 DEF CatalogueInv, Served, Accepts
  <2>2. Config.policy.fast # None /\ ServedPolicy(Config.policy)
    BY <1>2, <2>1, PolicyServes
  <2>3. \A n \in SeqRange(Config.memory.counts) : n # None /\ n \in Int /\ n > 0
    <3> DEFINE counts == Config.memory.counts
    <3>1. counts \in Seq(Int \cup {None}) /\ \A n \in SeqRange(counts) : n # None /\ n > 0
      BY <1>2, <2>1 DEF AcceptsSession, Positive
    <3> HIDE DEF counts
    <3>2. \A n \in SeqRange(counts) : n \in Int \cup {None}
      BY <3>1 DEF SeqRange
    <3>3. QED BY <3>1, <3>2 DEF counts
  <2>4. Prompts = {f \in DOMAIN Config.directory : Config.directory[f] # "blank"}
    BY <2>1, PromptsServe
  <2>5. None \notin SeqRange(Config.memory.counts) /\ \A n \in SeqRange(Config.memory.counts) : n >= 1
    BY <2>3
  <2>6. QED BY <1>1, <2>2, <2>4, <2>5 DEF Sound
<1>4. ASSUME agent # None
      PROVE  /\ Config.limits.steps # None /\ Config.limits.steps > 3
             /\ "" \notin SeqRange(Config.limits.topics \o Config.limits.offTopics)
  <2>1. AcceptsLimits(Config.limits)
    BY <1>4 DEF CatalogueInv, Served
  <2>2. Config.limits.steps # None /\ Config.limits.steps > 3
    BY <1>2, <2>1 DEF AcceptsLimits, AcceptsBudget, MinGraphSteps
  <2> DEFINE s == Config.limits.topics
             r == Config.limits.offTopics
  <2>3. s \in Seq(STRING) /\ r \in Seq(STRING) /\ "" \notin SeqRange(s) /\ "" \notin SeqRange(r)
    BY <1>2, <2>1 DEF AcceptsLimits, AcceptsPhrases
  <2> HIDE DEF s, r
  <2>4. "" \notin SeqRange(s \o r)
    <3>1. SeqRange(s \o r) = SeqRange(s) \cup SeqRange(r)
      BY <2>3, JoinRange, Zenon
    <3>2. QED BY <2>3, <3>1
  <2>5. QED BY <2>2, <2>4 DEF s, r
<1>5. QED BY <1>3, <1>4 DEF ServedIsConfigured, Serves

-----------------------------------------------------------------------------
(* What is made of the evidence.  A check that is done has evidence of all   *)
(* its tools need, and the agent is the contract of one check's evidence.    *)

Wanted(tools) == UNION {SeqRange(d.needs) : d \in tools}
Portfolio(t) == IF t = Startup THEN OfPortfolio(Config.extended) ELSE Catalogue
Sees(j, tools) ==
  /\ j.at = "done" => j.todo = <<>>
  /\ j.at \notin {"idle", "replied"} => Wanted(tools) \subseteq DOMAIN j.found \cup SeqRange(j.todo)

Grounded(found) ==
  /\ found \in UNION {[S -> Entry] : S \in SUBSET Prerequisites}
  /\ \A p \in DOMAIN found : EntryTrue(found[p], p, Config.settings, history)
Contract(portfolio, found) ==
  [tools |-> {d.name : d \in Selected(portfolio, found)}, prompt |-> Prompt(Selected(portfolio, found)),
   provenance |-> Provenance(Selected(portfolio, found), Readiness(portfolio, found))]
AgentTrue ==
  agent # None => \E found :
    /\ Grounded(found) /\ Wanted(OfPortfolio(Config.extended)) \subseteq DOMAIN found
    /\ agent = Contract(OfPortfolio(Config.extended), found)

AnswerInv == AgentTrue /\ \A t \in Threads : Sees(job[t], Portfolio(t))

(* The catalogue as it is written.                                          *)
LEMMA CatalogueFacts ==
  ASSUME NEW d \in Catalogue
  PROVE  /\ SeqRange(d.needs) \subseteq Prerequisites /\ DOMAIN d.needs \subseteq {1, 2}
         /\ d.name \in UNION Guides
         /\ d.category = "web_search" <=>
              d.name \in {"search_web_for_wine", "search_wine_price", "search_wine_reviews"}
         /\ d.name = "get_tasting_history" => d.tier = "extended" /\ d.needs = <<"cellar_schema">>
<1> DEFINE web == {"search_web_for_wine", "search_wine_price", "search_wine_reviews"}
<1>1. \A n : SeqRange(<<n>>) = {n} /\ DOMAIN <<n>> \subseteq {1, 2}
  BY DEF SeqRange
<1>2. /\ SeqRange(<<"cellar_schema", "pairing_rules">>) = {"cellar_schema", "pairing_rules"}
      /\ DOMAIN <<"cellar_schema", "pairing_rules">> \subseteq {1, 2}
  BY DEF SeqRange
<1>3. CASE d \in CellarTools
  BY <1>1, <1>3 DEF CellarTools, CellarTool, Tool, Prerequisites, Guides
<1>4. CASE d \in TasteTools
  BY <1>1, <1>4 DEF TasteTools, TasteTool, Tool, Prerequisites, Guides
<1>5. CASE d \in RagTools
  BY <1>1, <1>5 DEF RagTools, RagTool, Tool, Prerequisites, Guides
<1>6. CASE d \in PairingTools
  BY <1>1, <1>2, <1>6 DEF PairingTools, PairingTool, Tool, Prerequisites, Guides
<1>7. CASE d \in WebTools
  BY <1>1, <1>7 DEF WebTools, WebTool, Tool, Prerequisites, Guides
<1>8. QED BY <1>3, <1>4, <1>5, <1>6, <1>7 DEF Catalogue

LEMMA NeedsRange ==
  ASSUME NEW tools \in SUBSET Catalogue
  PROVE  Wanted(tools) \subseteq SeqRange(Needs(tools))
<1> DEFINE OfAny(p) == IF \E d \in tools : p \in SeqRange(d.needs) THEN <<p>> ELSE <<>>
           a == OfAny("cellar_schema")
           b == OfAny("chroma_collection")
           c == OfAny("pairing_rules")
           e == OfAny("web_search_config")
<1>1. a \in Seq(Prerequisites) /\ b \in Seq(Prerequisites) /\ c \in Seq(Prerequisites) /\ e \in Seq(Prerequisites)
  <2>1. \A p \in Prerequisites : OfAny(p) \in Seq(Prerequisites)
    OBVIOUS
  <2>2. QED BY <2>1 DEF Prerequisites
<1>2. Needs(tools) = a \o b \o c \o e
  BY DEF Needs
<1>3. ASSUME NEW p \in Wanted(tools)
      PROVE  p \in SeqRange(a) \cup SeqRange(b) \cup SeqRange(c) \cup SeqRange(e)
  <2>1. p \in Prerequisites /\ \E d \in tools : p \in SeqRange(d.needs)
    BY CatalogueFacts DEF Wanted
  <2>2. OfAny(p) = <<p>>
    BY <2>1
  <2>3. p \in SeqRange(<<p>>)
    BY DEF SeqRange
  <2>4. QED BY <2>1, <2>2, <2>3 DEF Prerequisites
<1> HIDE DEF a, b, c, e
<1> DEFINE ab == a \o b
           abc == ab \o c
<1>4. ab \in Seq(Prerequisites) /\ SeqRange(ab) = SeqRange(a) \cup SeqRange(b)
  BY <1>1, JoinRange, Zenon
<1>5. Needs(tools) = abc \o e
  BY <1>2
<1> HIDE DEF ab
<1>6. abc \in Seq(Prerequisites) /\ SeqRange(abc) = SeqRange(ab) \cup SeqRange(c)
  <2>1. ab \in Seq(Prerequisites) /\ c \in Seq(Prerequisites)
    BY <1>1, <1>4
  <2>2. QED BY <2>1, JoinRange, Zenon
<1> HIDE DEF abc
<1>7. SeqRange(abc \o e) = SeqRange(abc) \cup SeqRange(e)
  <2>1. abc \in Seq(Prerequisites) /\ e \in Seq(Prerequisites)
    BY <1>1, <1>6
  <2>2. QED BY <2>1, JoinRange, Zenon
<1>8. QED BY <1>3, <1>4, <1>5, <1>6, <1>7

LEMMA TailRange ==
  ASSUME NEW S, NEW s \in Seq(S), s # <<>>
  PROVE  SeqRange(s) \subseteq {Head(s)} \cup SeqRange(Tail(s))
<1>1. /\ DOMAIN s = 1..Len(s) /\ Len(s) \in Nat /\ Head(s) = s[1]
      /\ DOMAIN Tail(s) = 1..(Len(s) - 1) /\ \A k \in 1..(Len(s) - 1) : Tail(s)[k] = s[k + 1]
  OBVIOUS
<1>2. \A k \in 2..Len(s) : k - 1 \in 1..(Len(s) - 1) /\ s[k] = Tail(s)[k - 1]
  BY <1>1
<1>3. \A k \in 1..Len(s) : k = 1 \/ k \in 2..Len(s)
  BY <1>1
<1>4. SeqRange(Tail(s)) = {Tail(s)[k] : k \in 1..(Len(s) - 1)} /\ SeqRange(s) = {s[k] : k \in 1..Len(s)}
  BY <1>1 DEF SeqRange
<1>5. QED BY <1>1, <1>2, <1>3, <1>4

(* A check seeks what it has no evidence of yet.                            *)
LEMMA CheckingSees ==
  ASSUME NEW tools \in SUBSET Catalogue
  PROVE  Sees(Checking(tools), tools)
<1> DEFINE needs == Needs(tools)
           j == Checking(tools)
<1>1. j.todo = needs /\ j.at = IF needs = <<>> THEN "done" ELSE "look"
  BY DEF Checking
<1>2. Wanted(tools) \subseteq SeqRange(needs)
  BY NeedsRange
<1> HIDE DEF needs, j
<1>3. Sees(j, tools)
  BY <1>1, <1>2 DEF Sees
<1>4. QED BY <1>3 DEF j

LEMMA FindingSees ==
  ASSUME NEW j \in Job, NEW e, NEW tools, j.todo # <<>>, j.at \notin {"idle", "replied"}, Sees(j, tools)
  PROVE  Sees(Finding(j, e), tools)
<1> DEFINE f == Finding(j, e)
<1>1. j.todo \in Seq(Prerequisites)
  BY DEF Job
<1>2. /\ DOMAIN f.found = DOMAIN j.found \cup {Head(j.todo)} /\ f.todo = Tail(j.todo)
      /\ f.at = IF Tail(j.todo) = <<>> THEN "done" ELSE "look"
  BY DEF Finding, Job
<1>3. SeqRange(j.todo) \subseteq {Head(j.todo)} \cup SeqRange(Tail(j.todo))
  BY <1>1, TailRange
<1> HIDE DEF f
<1>4. Sees(f, tools)
  BY <1>2, <1>3 DEF Sees
<1>5. QED BY <1>4 DEF f

LEMMA StillSees ==
  ASSUME NEW j, NEW k, NEW tools, Sees(j, tools), j.at \notin {"idle", "replied"}, k.at # "done",
         k.found = j.found, k.todo = j.todo
  PROVE  Sees(k, tools)
BY DEF Sees

LEMMA OneSees ==
  ASSUME CatalogueInv, AnswerInv, NEW t \in Threads, NEW j, job' = [job EXCEPT ![t] = j], Config' = Config,
         Sees(j, Portfolio(t))
  PROVE  \A u \in Threads : Sees(job[u], Portfolio(u))'
<1> SUFFICES ASSUME NEW u \in Threads PROVE Sees(job'[u], Portfolio(u)')
  OBVIOUS
<1>1. Portfolio(u)' = Portfolio(u) /\ Sees(job[u], Portfolio(u))
  BY DEF Portfolio, AnswerInv
<1>2. job'[u] = IF u = t THEN j ELSE job[u]
  BY DEF CatalogueInv, CatalogueTyped
<1>3. QED BY <1>1, <1>2

LEMMA ConfigStays ==
  ASSUME CatalogueInv, CatalogueNext
  PROVE  Config' = Config
<1>1. app'.config = app.config
  BY DEF CatalogueNext, Start, BuildAgent, Passes, AskStatus, Reply, Look, Acquire, ReachOut, LookInside, Publish,
         CatalogueInv, CatalogueTyped
<1>2. QED BY <1>1 DEF Config

LEMMA ThreadSees ==
  ASSUME CatalogueInv, AnswerInv, CatalogueNext, NEW t \in Threads,
         AskStatus(t) \/ Reply(t) \/ Look(t) \/ Acquire(t) \/ ReachOut(t) \/ LookInside(t) \/ Publish(t)
  PROVE  \A u \in Threads : Sees(job[u], Portfolio(u))'
<1>1. job[t] \in Job /\ Sees(job[t], Portfolio(t)) /\ Config' = Config
  BY ConfigStays DEF CatalogueInv, CatalogueTyped, AnswerInv
<1> SUFFICES \E j : job' = [job EXCEPT ![t] = j] /\ Sees(j, Portfolio(t))
  BY <1>1, OneSees
<1>2. CASE AskStatus(t)
  <2>1. job' = [job EXCEPT ![t] = Checking(Catalogue)] /\ Portfolio(t) = Catalogue
    BY <1>2, ThreadsAssumption DEF AskStatus, Portfolio
  <2>2. QED BY <2>1, CheckingSees
<1>3. CASE Reply(t)
  <2>1. job' = [job EXCEPT ![t] = [Idle EXCEPT !.at = "replied"]] /\ [Idle EXCEPT !.at = "replied"].at = "replied"
    BY <1>3 DEF Reply, Idle
  <2>2. Sees([Idle EXCEPT !.at = "replied"], Portfolio(t))
    BY <2>1 DEF Sees
  <2>3. QED BY <2>1, <2>2
<1>4. CASE Look(t)
  <2> DEFINE waits == [job[t] EXCEPT !.at = "wait"]
  <2>1. job[t].at = "look" /\ job[t].todo # <<>>
    BY <1>4, Seeking DEF Look
  <2>2. waits.at = "wait" /\ waits.found = job[t].found /\ waits.todo = job[t].todo
    BY <1>1 DEF Job
  <2>3. Sees(waits, Portfolio(t)) /\ Sees(Finding(job[t], cache[Sought(t)]), Portfolio(t))
    BY <1>1, <2>1, <2>2, StillSees, FindingSees
  <2>4. \/ job' = [job EXCEPT ![t] = waits] \/ job' = [job EXCEPT ![t] = Finding(job[t], cache[Sought(t)])]
    BY <1>4 DEF Look, CatalogueInv, CatalogueTyped
  <2>5. QED BY <2>3, <2>4
<1>5. CASE Acquire(t)
  <2> DEFINE now == [job[t] EXCEPT !.now = Clock]
             probe == [job[t] EXCEPT !.at = "reach", !.now = Clock, !.since = Clock]
  <2>1. job[t].at = "wait" /\ job[t].todo # <<>> /\ Clock \in Nat
    BY <1>5, Seeking DEF Acquire
  <2>2. now \in Job /\ now.at = "wait" /\ now.found = job[t].found /\ now.todo = job[t].todo
    BY <1>1, <2>1 DEF Job
  <2>3. probe.at = "reach" /\ probe.found = job[t].found /\ probe.todo = job[t].todo
    BY <1>1 DEF Job
  <2>4. \/ job' = [job EXCEPT ![t] = probe] \/ job' = [job EXCEPT ![t] = Finding(now, cache[Sought(t)])]
    BY <1>5 DEF Acquire, CatalogueInv, CatalogueTyped
  <2> HIDE DEF now, probe
  <2>5. Sees(now, Portfolio(t)) /\ Sees(probe, Portfolio(t))
    BY <1>1, <2>1, <2>2, <2>3, StillSees
  <2>6. Sees(Finding(now, cache[Sought(t)]), Portfolio(t))
    BY <2>1, <2>2, <2>5, FindingSees
  <2>7. QED BY <2>4, <2>5, <2>6
<1>6. CASE ReachOut(t) \/ LookInside(t)
  <2>0. PICK at \in {"look_into", "publish"} : \E v : job' = [job EXCEPT ![t].at = at, ![t].verdict = v]
    BY <1>6 DEF ReachOut, LookInside
  <2>1. PICK v : job' = [job EXCEPT ![t].at = at, ![t].verdict = v]
    BY <2>0
  <2> DEFINE probe == [job[t] EXCEPT !.at = at, !.verdict = v]
  <2>2. probe.at = at /\ probe.found = job[t].found /\ probe.todo = job[t].todo
    BY <1>1 DEF Job
  <2>3. job' = [job EXCEPT ![t] = probe] /\ job[t].at \in {"reach", "look_into"}
    BY <1>6, <2>1 DEF ReachOut, LookInside, CatalogueInv, CatalogueTyped
  <2> HIDE DEF probe
  <2>4. Sees(probe, Portfolio(t))
    BY <1>1, <2>2, <2>3, StillSees
  <2>5. QED BY <2>3, <2>4
<1>7. CASE Publish(t)
  <2>1. job[t].at = "publish" /\ job[t].todo # <<>>
    BY <1>7, Seeking DEF Publish
  <2>2. PICK e : job' = [job EXCEPT ![t] = Finding(job[t], e)]
    BY <1>7 DEF Publish, CatalogueInv, CatalogueTyped
  <2>3. Sees(Finding(job[t], e), Portfolio(t))
    BY <1>1, <2>1, FindingSees
  <2>4. QED BY <2>2, <2>3
<1>8. QED BY <1>2, <1>3, <1>4, <1>5, <1>6, <1>7

LEMMA SeesStays ==
  ASSUME CatalogueInv, AnswerInv, CatalogueNext
  PROVE  \A u \in Threads : Sees(job[u], Portfolio(u))'
<1>1. Config' = Config /\ Startup \in Threads
  BY ConfigStays DEF Threads
<1>2. ASSUME UNCHANGED job PROVE \A u \in Threads : Sees(job[u], Portfolio(u))'
  BY <1>1, <1>2 DEF AnswerInv, Portfolio
<1>3. CASE Start /\ job' # job
  <2> DEFINE portfolio == OfPortfolio(Config.extended)
  <2>1. portfolio \in SUBSET Catalogue /\ Portfolio(Startup) = portfolio
    BY DEF OfPortfolio, Portfolio
  <2>2. job' = [job EXCEPT ![Startup] = Checking(portfolio)]
    BY <1>3 DEF Start
  <2> HIDE DEF portfolio
  <2>3. Sees(Checking(portfolio), Portfolio(Startup))
    BY <2>1, CheckingSees
  <2>4. QED BY <1>1, <2>2, <2>3, OneSees
<1>4. CASE BuildAgent
  <2>1. Sees(Idle, Portfolio(Startup))
    BY DEF Sees, Idle
  <2>2. job' = [job EXCEPT ![Startup] = Idle]
    BY <1>4 DEF BuildAgent
  <2>3. QED BY <1>1, <2>1, <2>2, OneSees
<1>5. CASE Passes
  BY <1>2, <1>5 DEF Passes
<1>6. QED BY <1>2, <1>3, <1>4, <1>5, ThreadSees DEF CatalogueNext

LEMMA AgentStays ==
  ASSUME CatalogueInv, AnswerInv, CatalogueNext
  PROVE  AgentTrue'
<1> DEFINE portfolio == OfPortfolio(Config.extended)
<1>1. Config' = Config
  BY ConfigStays
<1>2. CASE BuildAgent
  <2>0. PICK found : found = job[Startup].found
    OBVIOUS
  <2>1. agent' = Contract(portfolio, found) /\ job[Startup].at = "done" /\ UNCHANGED history
    BY <1>2, <2>0 DEF BuildAgent, Contract
  <2>2. /\ Startup \in Threads /\ job[Startup] \in Job /\ Sees(job[Startup], Portfolio(Startup))
        /\ JobTrue(job[Startup], Config, history)
    BY DEF Threads, CatalogueInv, CatalogueTyped, AnswerInv
  <2>3. SeqRange(<<>>) = {}
    BY DEF SeqRange
  <2>4. Wanted(portfolio) \subseteq DOMAIN found
    BY <2>0, <2>1, <2>2, <2>3 DEF Sees, Portfolio
  <2>5. Grounded(found)
    BY <2>0, <2>2 DEF Job, JobTrue, FoundTrue, Grounded
  <2>6. Grounded(found)'
    BY <1>1, <2>1, <2>5 DEF Grounded
  <2>7. QED BY <1>1, <2>1, <2>4, <2>6 DEF AgentTrue
<1>3. CASE ~BuildAgent /\ agent # None
  <2>1. PICK found : /\ Grounded(found) /\ Wanted(portfolio) \subseteq DOMAIN found
                     /\ agent = Contract(portfolio, found)
    BY <1>3 DEF AnswerInv, AgentTrue
  <2>2. UNCHANGED agent
    BY <1>3 DEF CatalogueNext, Start, Passes, AskStatus, Reply, Look, Acquire, ReachOut, LookInside, Publish
  <2>3. UNCHANGED history \/ \E w \in Worlds : history' = Append(history, w)
    BY <1>3 DEF CatalogueNext, Start, Passes, AskStatus, Reply, Look, Acquire, ReachOut, LookInside, Publish
  <2>4. \A p \in DOMAIN found : found[p] \in Entry
    BY <2>1 DEF Grounded
  <2>5. \A p \in DOMAIN found : EntryTrue(found[p], p, Config.settings, history')
    BY <2>1, <2>3, <2>4, EvidenceStays DEF Grounded, CatalogueInv, CatalogueTyped
  <2>6. Grounded(found)'
    BY <1>1, <2>1, <2>5 DEF Grounded
  <2>7. QED BY <1>1, <2>1, <2>2, <2>6 DEF AgentTrue
<1>4. CASE ~BuildAgent /\ agent = None
  BY <1>4 DEF CatalogueNext, Start, Passes, AskStatus, Reply, Look, Acquire, ReachOut, LookInside, Publish,
              AgentTrue
<1>5. QED BY <1>2, <1>3, <1>4

LEMMA AnswerStarts ==
  ASSUME CatalogueInit
  PROVE  AnswerInv
<1>1. \A t \in Threads : job[t] = Idle
  BY DEF CatalogueInit
<1>2. Idle.at = "idle"
  BY DEF Idle
<1>3. QED BY <1>1, <1>2 DEF CatalogueInit, AnswerInv, AgentTrue, Sees

LEMMA AnswerKeeps ==
  ASSUME CatalogueInv, AnswerInv, [CatalogueNext]_catalogueVars
  PROVE  AnswerInv'
<1>1. CASE CatalogueNext
  BY <1>1, SeesStays, AgentStays DEF AnswerInv
<1>2. CASE UNCHANGED catalogueVars
  <2>1. UNCHANGED <<app, history, job, agent>>
    BY <1>2 DEF catalogueVars
  <2>2. QED BY <2>1 DEF AnswerInv, AgentTrue, Portfolio, Config, Grounded
<1>3. QED BY <1>1, <1>2

THEOREM AnswerHeld == CatalogueSpec => []AnswerInv
<1>1. QED BY CatalogueHeld, AnswerStarts, AnswerKeeps, PTL DEF CatalogueSpec

(* The model is bound to exactly the tools whose readiness its provenance    *)
(* records as available; the prompt names those.                            *)
LEMMA InvIsOneContract ==
  ASSUME AnswerInv
  PROVE  AgentIsOneContract
<1> SUFFICES ASSUME agent # None
             PROVE  /\ agent.tools = {r.name : r \in {q \in agent.provenance.readiness : q.reason = None}}
                    /\ agent.tools = agent.provenance.contract
                    /\ agent.tools = agent.prompt.names
                    /\ agent.prompt.noWeb <=> {d.name : d \in WebTools} \cap agent.tools = {}
  BY DEF AgentIsOneContract
<1>1. PICK found : agent = Contract(OfPortfolio(Config.extended), found)
  BY DEF AnswerInv, AgentTrue
<1> DEFINE portfolio == OfPortfolio(Config.extended)
           selected == Selected(portfolio, found)
           names == {d.name : d \in selected}
<1>2. /\ agent.tools = names /\ agent.prompt = Prompt(selected)
      /\ agent.provenance.contract = names /\ agent.provenance.readiness = Readiness(portfolio, found)
  BY <1>1 DEF Contract, Provenance
<1>3. selected \in SUBSET Catalogue
  BY DEF Selected, OfPortfolio
<1>4. names = {r.name : r \in {q \in Readiness(portfolio, found) : q.reason = None}}
  <2>1. ASSUME NEW d \in selected
        PROVE  \E r \in {q \in Readiness(portfolio, found) : q.reason = None} : r.name = d.name
    <3>1. d \in portfolio /\ Reason(d, found) = None
      BY DEF Selected
    <3> DEFINE r == [name |-> d.name, reason |-> Reason(d, found)]
    <3>2. r \in Readiness(portfolio, found) /\ r.reason = None /\ r.name = d.name
      BY <3>1 DEF Readiness
    <3>3. QED BY <3>2
  <2>2. ASSUME NEW r \in {q \in Readiness(portfolio, found) : q.reason = None}
        PROVE  \E d \in selected : d.name = r.name
    <3>1. PICK d \in portfolio : r = [name |-> d.name, reason |-> Reason(d, found)]
      BY DEF Readiness
    <3>2. QED BY <3>1 DEF Selected
  <2> HIDE DEF selected
  <2>3. QED BY <2>1, <2>2
<1>5. Prompt(selected).names = names
  <2> HIDE DEF portfolio
  <2>1. Prompt(selected).names
          = ((UNION Guides) \cap names) \cup UNION {n.names : n \in {m \in Notes : m.given \in names}}
    BY DEF Prompt
  <2>2. names \subseteq UNION Guides
    BY <1>3, CatalogueFacts
  <2>3. ASSUME NEW n \in Notes, n.given \in names
        PROVE  n.names \subseteq names
    <3>1. CASE n.given # "get_tasting_history"
      <4>1. n.names = {n.given}
        BY <3>1 DEF Notes
      <4>2. QED BY <2>3, <4>1
    <3>2. CASE n.given = "get_tasting_history"
      <4>1. n.names = {"get_tasting_history", "get_top_rated_wines"}
        BY <3>2 DEF Notes
      <4>2. PICK d \in selected : d.name = "get_tasting_history"
        BY <2>3, <3>2
      <4>3. d.tier = "extended" /\ d.needs = <<"cellar_schema">> /\ d \in portfolio /\ Reason(d, found) = None
        BY <1>3, <4>2, CatalogueFacts DEF Selected
      <4> DEFINE top == TasteTool("get_top_rated_wines", "extended")
      <4>4. top \in Catalogue /\ top.needs = <<"cellar_schema">> /\ top.name = "get_top_rated_wines"
        BY DEF Catalogue, TasteTools, TasteTool, Tool
      <4> HIDE DEF top
      <4>5. top \in portfolio
        BY <4>3, <4>4 DEF OfPortfolio, portfolio
      <4>6. Reason(top, found) = Reason(d, found)
        BY <4>3, <4>4 DEF Reason
      <4>7. top \in selected
        BY <4>3, <4>5, <4>6 DEF Selected
      <4>8. QED BY <2>3, <3>2, <4>1, <4>4, <4>7
    <3>3. QED BY <3>1, <3>2
  <2> HIDE DEF names, selected
  <2> DEFINE noted == UNION {n.names : n \in {m \in Notes : m.given \in names}}
  <2>4. noted \subseteq names
    BY <2>3
  <2>5. Prompt(selected).names = ((UNION Guides) \cap names) \cup noted
    BY <2>1
  <2> HIDE DEF noted
  <2>6. ((UNION Guides) \cap names) \cup noted = names
    BY <2>2, <2>4
  <2>7. QED BY <2>5, <2>6
<1>6. Prompt(selected).noWeb <=> {d.name : d \in WebTools} \cap names = {}
  <2>1. Prompt(selected).noWeb = ("web_search" \notin {d.category : d \in selected})
    BY DEF Prompt
  <2>2. {d.name : d \in WebTools} = {"search_web_for_wine", "search_wine_price", "search_wine_reviews"}
    BY DEF WebTools, WebTool, Tool
  <2> DEFINE web == {"search_web_for_wine", "search_wine_price", "search_wine_reviews"}
  <2>3. \A d \in selected : d.category = "web_search" <=> d.name \in web
    BY <1>3, CatalogueFacts
  <2> HIDE DEF selected, web
  <2>4. ("web_search" \notin {d.category : d \in selected}) <=> \A d \in selected : d.category # "web_search"
    OBVIOUS
  <2>5. web \cap names = {} <=> \A d \in selected : d.name \notin web
    OBVIOUS
  <2>6. {d.name : d \in WebTools} = web
    BY <2>2 DEF web
  <2>7. QED BY <2>1, <2>3, <2>4, <2>5, <2>6
<1>7. QED BY <1>2, <1>4, <1>5, <1>6

LEMMA ReasonAgrees ==
  ASSUME NEW d \in Catalogue, NEW f, NEW g, \A p \in SeqRange(d.needs) : f[p].verdict = g[p].verdict
  PROVE  Reason(d, f) = Reason(d, g)
<1>1. \A i \in DOMAIN d.needs : f[d.needs[i]].verdict = g[d.needs[i]].verdict
  BY DEF SeqRange
<1> DEFINE missing(h) == {i \in DOMAIN d.needs : h[d.needs[i]].verdict # "ready"}
           first(m) == CHOOSE i \in m : \A k \in m : i <= k
<1>2. missing(f) = missing(g)
  BY <1>1
<1>3. \A h : Reason(d, h) = IF missing(h) = {} THEN None ELSE h[d.needs[first(missing(h))]].verdict
  BY DEF Reason
<1>4. CASE missing(f) = {}
  BY <1>2, <1>3, <1>4
<1>5. CASE missing(f) # {}
  <2>1. first(missing(f)) = first(missing(g))
    BY <1>2
  <2>2. first(missing(f)) \in missing(f)
    <3> DEFINE m == missing(f)
    <3>1. m # {} /\ m \subseteq {1, 2}
      BY <1>5, CatalogueFacts
    <3> HIDE DEF m
    <3>2. \E i \in m : \A k \in m : i <= k
      <4>1. CASE 1 \in m
        BY <3>1, <4>1
      <4>2. CASE 1 \notin m
        <5>1. m = {2}
          BY <3>1, <4>2
        <5>2. QED BY <5>1
      <4>3. QED BY <4>1, <4>2
    <3>3. first(m) \in m
      BY <3>2
    <3>4. QED BY <3>3 DEF m
  <2>3. QED BY <1>1, <1>2, <1>3, <1>5, <2>1, <2>2
<1>6. QED BY <1>4, <1>5

LEMMA OneWorld ==
  ASSUME NEW e \in Entry, NEW p, NEW s, NEW h \in Seq(Worlds), EntryTrue(e, p, s, h),
         \A k \in 1..Len(h) : h[k] = h[1]
  PROVE  e.verdict = Verdict(p, s, h[1])
<1>1. \A k \in e.since..e.until : h[k] = h[1]
  BY DEF Entry, EntryTrue
<1>2. QED BY <1>1 DEF EntryTrue, Evidenced

LEMMA InvRowsTell ==
  ASSUME CatalogueInv, AnswerInv
  PROVE  RowsTellReadiness
<1> SUFFICES ASSUME NEW t \in Requests, job[t].at = "done"
             PROVE  \E rows \in {Rows(job[t].found)} :
                      /\ \A r \in rows : IF r.available THEN r.reason = None ELSE r.reason \in PublicReasons
                      /\ agent # None /\ Config.extended /\ (\A k \in 1..Clock : history[k] = history[1]) =>
                           {r.name : r \in {q \in rows : q.available}} = agent.tools
  BY DEF RowsTellReadiness
<1> DEFINE found == job[t].found
           row(d) == [name |-> d.name, category |-> d.category,
                      available |-> Reason(d, found) = None, selected |-> FALSE,
                      reason |-> IF Reason(d, found) \in PublicReasons \cup {None}
                                 THEN Reason(d, found) ELSE "readiness_check_failed"]
<1>1. Rows(found) = {row(d) : d \in Catalogue}
  BY DEF Rows
<1>2. ASSUME NEW r \in Rows(found)
      PROVE  IF r.available THEN r.reason = None ELSE r.reason \in PublicReasons
  <2>1. PICK d \in Catalogue : r = row(d)
    BY <1>1
  <2>2. /\ r.available = (Reason(d, found) = None)
        /\ r.reason = IF Reason(d, found) \in PublicReasons \cup {None}
                      THEN Reason(d, found) ELSE "readiness_check_failed"
    BY <2>1
  <2>3. "readiness_check_failed" \in PublicReasons
    BY DEF PublicReasons
  <2>4. QED BY <2>2, <2>3
<1>3. ASSUME agent # None, Config.extended, \A k \in 1..Clock : history[k] = history[1]
      PROVE  {r.name : r \in {q \in Rows(found) : q.available}} = agent.tools
  <2>1. PICK g : /\ Grounded(g) /\ Wanted(OfPortfolio(Config.extended)) \subseteq DOMAIN g
                 /\ agent = Contract(OfPortfolio(Config.extended), g)
    BY <1>3 DEF AnswerInv, AgentTrue
  <2>2. OfPortfolio(Config.extended) = Catalogue
    BY <1>3 DEF OfPortfolio
  <2>3. agent.tools = {d.name : d \in {c \in Catalogue : Reason(c, g) = None}}
    BY <2>1, <2>2 DEF Contract, Selected
  <2>4. Wanted(Catalogue) \subseteq DOMAIN found
    <3>1. t \in Threads /\ Portfolio(t) = Catalogue /\ SeqRange(<<>>) = {}
      BY ThreadsAssumption DEF Threads, Portfolio, SeqRange
    <3>2. QED BY <3>1 DEF AnswerInv, Sees
  <2>5. Grounded(found)
    BY DEF Threads, Job, JobTrue, FoundTrue, Grounded, CatalogueInv, CatalogueTyped
  <2> HIDE DEF found
  <2>6. ASSUME NEW f, Grounded(f), NEW p \in DOMAIN f
        PROVE  f[p].verdict = Verdict(p, Config.settings, history[1])
    BY <1>3, <2>6, OneWorld DEF Grounded, CatalogueInv, CatalogueTyped, Clock
  <2>7. ASSUME NEW d \in Catalogue
        PROVE  Reason(d, found) = Reason(d, g)
    <3>1. SeqRange(d.needs) \subseteq DOMAIN found /\ SeqRange(d.needs) \subseteq DOMAIN g
      BY <2>1, <2>2, <2>4 DEF Wanted
    <3>2. QED BY <2>1, <2>5, <2>6, <3>1, ReasonAgrees
  <2>8. \A d \in Catalogue : row(d).name = d.name /\ row(d).available = (Reason(d, g) = None)
    BY <2>7
  <2> HIDE DEF row
  <2>9. ASSUME NEW r \in {q \in Rows(found) : q.available}
        PROVE  \E c \in {b \in Catalogue : Reason(b, g) = None} : c.name = r.name
    BY <1>1, <2>8, <2>9
  <2>10. ASSUME NEW c \in {b \in Catalogue : Reason(b, g) = None}
         PROVE  \E r \in {q \in Rows(found) : q.available} : r.name = c.name
    <3>1. row(c) \in Rows(found) /\ row(c).available /\ row(c).name = c.name
      BY <1>1, <2>8
    <3>2. QED BY <3>1
  <2>11. QED BY <2>3, <2>9, <2>10
<1>4. QED BY <1>2, <1>3

(* Whatever the worlds, the configurations and the moments at which they     *)
(* change: what a check found was so, nobody probes in vain, the agent is    *)
(* one contract, what is served was configured, and /api/tools tells what    *)
(* the agent was told (tools registry, catalogue, prompts and provenance).   *)
THEOREM CatalogueIsTrue == CatalogueSpec => []CatalogueInvariant
<1>1. CatalogueInv /\ AnswerInv => CatalogueInvariant
  BY InvTellsTruth, InvSpacesProbes, InvIsOneContract, InvServesSound, InvRowsTell DEF CatalogueInvariant
<1>2. QED BY <1>1, CatalogueHeld, AnswerHeld, PTL
=============================================================================
