--------------------------- MODULE ToolExecution ---------------------------
(***************************************************************************)
(* The execution policy around the tool calls of the agent: one admission  *)
(* pool for the worker process, one deadline per call that covers its wait *)
(* for admission, at most one retry inside the same permit and deadline,   *)
(* and the report of what happened.                                        *)
(*                                                                         *)
(* A call is an asyncio task.  What it awaits is resolved by others        *)
(* (`ready`, a granted permit, an elapsed delay) and seen when the task    *)
(* resumes; a cancellation that arrives in between wins (`pending`).       *)
(*                                                                         *)
(* A bridged tool runs in a thread nothing can stop: cancelling the call   *)
(* stops the waiting, not the thread.  Only known tools under an enabled   *)
(* policy are modelled; time is a countdown per call.                      *)
(***************************************************************************)
EXTENDS Integers, Sequences, FiniteSets

CONSTANTS
  Calls,        \* tool calls of the requests of one worker process
  Bridged,      \* calls of tools that run in a thread
  Suppressing,  \* calls of coroutine tools that may swallow a cancellation
  Retryable,    \* calls of idempotent tools of an allowed cost class
  Permits,      \* max_concurrent_calls
  Deadline, Delay, MinRemaining, MaxAttempts,
  Null

ASSUME CallsAssumption ==
  /\ IsFiniteSet(Calls) /\ Null \notin Calls
  /\ Bridged \subseteq Calls /\ Suppressing \subseteq Calls /\ Retryable \subseteq Calls
  /\ Bridged \cap Suppressing = {}
ASSUME PolicyAssumption ==
  /\ Permits \in Nat \ {0} /\ Deadline \in Nat \ {0}
  /\ Delay \in Nat /\ MinRemaining \in Nat \ {0} /\ Delay + MinRemaining < Deadline
  /\ MaxAttempts \in 1..2

VARIABLES
  call,     \* per call: where its task stands
  sem,      \* the admission semaphore
  workers,  \* <<call, attempt>> of the threads that are running
  report,   \* per call: event codes reported
  outcome   \* per call: what the wrapper gave its caller

vars == <<call, sem, workers, report, outcome>>

Stations == {"new", "admission", "attempt", "delay", "ended"}
Answers  == {"value", "busy", "failure", "bubble"}
Events   == {"deadline_exceeded", "sync_timeout", "retry_started", "retry_succeeded",
             "terminal_failure"}
Outcomes == {"value", "safe_error", "late", "bubble", "cancelled"}

ASSUME NullAssumption == Null \notin Answers \cup Outcomes

Call == [at: Stations, ready: Answers \cup {Null}, attempts: 0..MaxAttempts,
         left: 0..Deadline, nap: 0..Delay, expired: BOOLEAN, pending: BOOLEAN,
         callerCancelled: BOOLEAN, mayContinue: BOOLEAN]

Live(c)     == call[c].at \in {"admission", "attempt", "delay"}
Admitted(c) == call[c].at \in {"attempt", "delay"}
Awaiting(c) == call[c].at = "attempt" /\ call[c].ready = Null /\ ~call[c].pending

-----------------------------------------------------------------------------
(* asyncio.Semaphore: a released permit goes to the first waiter, which     *)
(* keeps its place until its task resumes and then passes on what is left.  *)

Queue(s) == {s.waiters[i] : i \in DOMAIN s.waiters}
Ungranted(s) == {i \in DOMAIN s.waiters : s.waiters[i] \notin s.granted}

Semaphore(v, w, g) == [value |-> v, waiters |-> w, granted |-> g]

WakeNext(s) ==
  IF s.value = 0 \/ Ungranted(s) = {} THEN s
  ELSE LET i == CHOOSE i \in Ungranted(s) : \A j \in Ungranted(s) : i <= j
       IN  Semaphore(s.value - 1, s.waiters, s.granted \cup {s.waiters[i]})

(* _waiters.remove: the first, and only, place of the call in the queue.     *)
Removed(q, i) == [j \in 1..Len(q) - 1 |-> IF j < i THEN q[j] ELSE q[j + 1]]
Without(s, c) ==
  IF c \notin Queue(s) THEN s
  ELSE LET i == CHOOSE i \in DOMAIN s.waiters : s.waiters[i] = c
       IN  Semaphore(s.value, Removed(s.waiters, i), s.granted \ {c})

Locked     == sem.value = 0 \/ sem.waiters # <<>>
ReleasedSilently == [sem EXCEPT !.value = @ + 1]   \* a mutant of the next
Released   == WakeNext([sem EXCEPT !.value = @ + 1])
Taken      == [sem EXCEPT !.value = @ - 1]
Resumed(c) == WakeNext(Without(sem, c))
(* A cancelled waiter that was granted a permit gives it back. *)
LeavesQueue(c) ==
  IF c \in sem.granted THEN WakeNext([Without(sem, c) EXCEPT !.value = @ + 1])
  ELSE Without(sem, c)

(* task.cancel(): an unresolved wait for admission ends at once. *)
CancelledIn(c) ==
  IF call[c].at = "admission" /\ c \notin sem.granted THEN Without(sem, c) ELSE sem

-----------------------------------------------------------------------------
Attempted(c, n) ==
  [call[c] EXCEPT !.at = "attempt", !.attempts = n, !.ready = Null,
                  !.mayContinue = c \in Bridged]
Thread(c, n) == IF c \in Bridged THEN {<<c, n>>} ELSE {}

DeadlineOnly(c) == {"deadline_exceeded"}   \* a mutant of the next
DeadlineReport(c) ==
  {"deadline_exceeded"} \cup IF call[c].mayContinue THEN {"sync_timeout"} ELSE {}

End(c, how, events) ==
  /\ call' = [call EXCEPT ![c] = [@ EXCEPT !.at = "ended", !.ready = Null, !.left = 0,
                !.nap = 0, !.pending = FALSE, !.mayContinue = FALSE]]
  /\ outcome' = [outcome EXCEPT ![c] = how]
  /\ report' = [report EXCEPT ![c] = @ \cup events]

DeliverLate(c, how, events) == End(c, how, events)   \* a mutant of the next
(* A result, or an exception turned into a safe error, leaves the context.  *)
Deliver(c, how, events) ==
  IF call[c].expired THEN End(c, "late", {"deadline_exceeded"}) ELSE End(c, how, events)

(* A cancellation leaves the context: it is the deadline's own only when    *)
(* nobody else cancelled the task.                                          *)
Unwind(c) ==
  IF call[c].expired /\ ~call[c].callerCancelled THEN End(c, "late", DeadlineReport(c))
  ELSE End(c, "cancelled", {})

-----------------------------------------------------------------------------
Invoke(c) ==
  /\ call[c].at = "new"
  /\ \/ /\ ~Locked
        /\ sem' = Taken
        /\ call' = [call EXCEPT ![c] = Attempted(c, 1)]
        /\ workers' = workers \cup Thread(c, 1)
     \/ /\ Locked
        /\ sem' = [sem EXCEPT !.waiters = Append(@, c)]
        /\ call' = [call EXCEPT ![c].at = "admission"]
        /\ UNCHANGED workers
  /\ UNCHANGED <<report, outcome>>

Admit(c) ==
  /\ call[c].at = "admission" /\ c \in sem.granted /\ ~call[c].pending
  /\ sem' = Resumed(c)
  /\ call' = [call EXCEPT ![c] = Attempted(c, 1)]
  /\ workers' = workers \cup Thread(c, 1)
  /\ UNCHANGED <<report, outcome>>

LeaveQueue(c) ==
  /\ call[c].at = "admission" /\ call[c].pending
  /\ sem' = LeavesQueue(c)
  /\ Unwind(c)
  /\ UNCHANGED workers

Return(c) ==
  /\ call[c].at = "attempt" /\ call[c].ready = "value" /\ ~call[c].pending
  /\ sem' = Released
  /\ Deliver(c, "value", IF call[c].attempts = 2 THEN {"retry_succeeded"} ELSE {})
  /\ UNCHANGED workers

(* LangGraph control flow passes through every handler, late or not. *)
Bubble(c) ==
  /\ call[c].at = "attempt" /\ call[c].ready = "bubble" /\ ~call[c].pending
  /\ sem' = Released
  /\ End(c, "bubble", {})
  /\ UNCHANGED workers

RetryAuthorized(c) ==
  /\ ~call[c].expired
  /\ call[c].ready = "busy" /\ call[c].attempts < MaxAttempts /\ c \in Retryable
  /\ call[c].left > Delay + MinRemaining

BackOff(c) ==
  /\ call[c].at = "attempt" /\ call[c].ready \in {"busy", "failure"} /\ ~call[c].pending
  /\ RetryAuthorized(c)
  /\ call' = [call EXCEPT ![c].at = "delay", ![c].nap = Delay, ![c].ready = Null,
                          ![c].mayContinue = FALSE]
  /\ UNCHANGED <<sem, workers, report, outcome>>

Fail(c) ==
  /\ call[c].at = "attempt" /\ call[c].ready \in {"busy", "failure"} /\ ~call[c].pending
  /\ ~RetryAuthorized(c)
  /\ sem' = Released
  /\ Deliver(c, "safe_error", {"terminal_failure"})
  /\ UNCHANGED workers

Retry(c) ==
  /\ call[c].at = "delay" /\ call[c].nap = 0 /\ ~call[c].pending
  /\ call' = [call EXCEPT ![c] = Attempted(c, 2)]
  /\ workers' = workers \cup Thread(c, 2)
  /\ report' = [report EXCEPT ![c] = @ \cup {"retry_started"}]
  /\ UNCHANGED <<sem, outcome>>

(* The cancellation is thrown into the attempt, or into the delay. *)
Interrupt(c) ==
  /\ Admitted(c) /\ call[c].pending
  /\ sem' = Released
  /\ Unwind(c)
  /\ UNCHANGED workers

Suppress(c) ==
  /\ c \in Suppressing /\ call[c].at = "attempt" /\ call[c].pending
  /\ call' = [call EXCEPT ![c].pending = FALSE, ![c].ready = Null]
  /\ UNCHANGED <<sem, workers, report, outcome>>

-----------------------------------------------------------------------------
(* The event loop's timer and the caller cancel the task. *)

ExpireFirstAttempt(c) ==   \* a mutant of the next
  /\ Live(c) /\ ~call[c].expired /\ call[c].left = 0 /\ call[c].attempts < 2
  /\ call' = [call EXCEPT ![c].expired = TRUE, ![c].pending = TRUE]
  /\ sem' = CancelledIn(c)
  /\ UNCHANGED <<workers, report, outcome>>

Expire(c) ==
  /\ Live(c) /\ ~call[c].expired /\ call[c].left = 0
  /\ call' = [call EXCEPT ![c].expired = TRUE, ![c].pending = TRUE]
  /\ sem' = CancelledIn(c)
  /\ UNCHANGED <<workers, report, outcome>>

CallerCancel(c) ==
  /\ Live(c) /\ ~call[c].callerCancelled
  /\ call' = [call EXCEPT ![c].callerCancelled = TRUE, ![c].pending = TRUE]
  /\ sem' = CancelledIn(c)
  /\ UNCHANGED <<workers, report, outcome>>

(* The tools themselves: a coroutine answers, a thread ends. *)

Answer(c, a) ==
  /\ c \notin Bridged /\ Awaiting(c)
  /\ call' = [call EXCEPT ![c].ready = a]
  /\ UNCHANGED <<sem, workers, report, outcome>>

ThreadEnds(c, n, a) ==
  /\ <<c, n>> \in workers
  /\ workers' = workers \ {<<c, n>>}
  /\ call' = IF Awaiting(c) /\ call[c].attempts = n THEN [call EXCEPT ![c].ready = a] ELSE call
  /\ UNCHANGED <<sem, report, outcome>>

Less(n) == IF n > 0 THEN n - 1 ELSE 0

Tick ==
  /\ \E c \in Calls : Live(c) /\ call[c].left > 0
  /\ call' = [c \in Calls |->
       IF Live(c) THEN [call[c] EXCEPT !.left = Less(@), !.nap = Less(@)] ELSE call[c]]
  /\ UNCHANGED <<sem, workers, report, outcome>>

-----------------------------------------------------------------------------
Init ==
  /\ call = [c \in Calls |->
       [at |-> "new", ready |-> Null, attempts |-> 0, left |-> Deadline, nap |-> 0,
        expired |-> FALSE, pending |-> FALSE, callerCancelled |-> FALSE,
        mayContinue |-> FALSE]]
  /\ sem = [value |-> Permits, waiters |-> <<>>, granted |-> {}]
  /\ workers = {}
  /\ report = [c \in Calls |-> {}]
  /\ outcome = [c \in Calls |-> Null]

(* A step of the call's own task. *)
Run(c) ==
  \/ Admit(c) \/ LeaveQueue(c) \/ Return(c) \/ Bubble(c) \/ BackOff(c) \/ Fail(c)
  \/ Retry(c) \/ Interrupt(c) \/ Suppress(c)

Next ==
  \/ \E c \in Calls :
       \/ Invoke(c) \/ Run(c) \/ Expire(c) \/ CallerCancel(c)
       \/ \E a \in Answers : Answer(c, a) \/ \E n \in 1..2 : ThreadEnds(c, n, a)
  \/ Tick

Spec == Init /\ [][Next]_vars

(* The loop's clock and timers advance, and a task that can run runs; the   *)
(* tools owe nothing.                                                       *)
Fairness ==
  /\ WF_vars(Tick)
  /\ \A c \in Calls : WF_vars(Expire(c)) /\ WF_vars(Run(c))
FairSpec == Spec /\ Fairness

-----------------------------------------------------------------------------
(* Every variable keeps its type; the semaphore's queue holds each waiting  *)
(* call once (ToolExecutionController, awrap_tool_call).                    *)
TypeOK ==
  /\ call \in [Calls -> Call]
  /\ sem.value \in 0..Permits /\ sem.waiters \in Seq(Calls) /\ sem.granted \subseteq Queue(sem)
  /\ \A c \in Queue(sem) : call[c].at = "admission"
  /\ \A i, j \in DOMAIN sem.waiters : sem.waiters[i] = sem.waiters[j] => i = j
  /\ workers \subseteq Bridged \X (1..MaxAttempts)
  /\ report \in [Calls -> SUBSET Events]
  /\ outcome \in [Calls -> Outcomes \cup {Null}]

(* Admission is bounded and leaks nothing: through results, failures,       *)
(* deadlines and cancellations at every await, the free permits, the ones   *)
(* granted to waiters and the ones held add up to max_concurrent_calls.     *)
PermitsBalance ==
  sem.value + Cardinality(sem.granted) + Cardinality({c \in Calls : Admitted(c)}) = Permits

(* A free permit and a waiting call never sit side by side for good: some   *)
(* granted waiter is about to resume and pass the permit on.                *)
NoLostWakeup == sem.value > 0 /\ Ungranted(sem) # {} => sem.granted # {}

(* Admission at every await: queue and calls well formed, permits balanced,  *)
(* and none idle while a call waits for it.                                  *)
AdmissionInvariant == TypeOK /\ PermitsBalance /\ NoLostWakeup

(* What the caller gets and what the report says agree: a late success is   *)
(* discarded and reported, and a failure or a retry reported as final is    *)
(* the one the caller sees (guardrails/README.md, Internal Outcomes).       *)
ReportTellsOutcome ==
  \A c \in Calls :
    /\ outcome[c] = "late" <=> "deadline_exceeded" \in report[c]
    /\ outcome[c] = "safe_error" <=> "terminal_failure" \in report[c]
    /\ "retry_succeeded" \in report[c] => outcome[c] = "value"
    /\ outcome[c] \in {"value", "safe_error"} => ~call[c].expired

(* Threads run beyond the permits only where the operator can tell: every   *)
(* running thread belongs to the current attempt of an admitted call, or to *)
(* a call whose deadline reported it, or to a call its caller abandoned.    *)
(* In particular a retry never overlaps the attempt it repeats.             *)
WorkersAccounted ==
  \A c \in Calls : \A n \in 1..MaxAttempts :
    <<c, n>> \in workers =>
      /\ call[c].attempts = n
      /\ \/ call[c].at = "attempt"
         \/ outcome[c] = "late" /\ "sync_timeout" \in report[c]
         \/ outcome[c] = "cancelled"

(* The deadline bounds a call however long its tool, or the calls ahead of  *)
(* it in the admission queue, take: it covers admission, both attempts and  *)
(* the delay between them.  A coroutine that swallows the one cancellation  *)
(* of asyncio.timeout may hold its own call, and its permit, but no other   *)
(* call.                                                                    *)
EveryCallEnds == \A c \in Calls \ Suppressing : Live(c) ~> call[c].at = "ended"
=============================================================================
