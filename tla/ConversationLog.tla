--------------------------- MODULE ConversationLog ---------------------------
(***************************************************************************)
(* What saved conversations promise a client, without threads, checkpoints,*)
(* locks, tasks or restarts: a conversation is one atomic object with a    *)
(* version and a transcript of answered turns; an operation is accepted    *)
(* once on an idle conversation, settles once, and adds or replaces the    *)
(* newest answer exactly when it completes, knowing the turns before it.   *)
(***************************************************************************)
EXTENDS Integers, FiniteSets

CONSTANTS Conversations, Operations, MaxPriorTurns, Null

VARIABLES
  log,     \* per conversation: state, version, answers, the busy operation
  outcome  \* per operation: its conversation, turn, status and what it knew

vars == <<log, outcome>>

(* The client's view of a conversation and of an operation. *)
Entry(state, version, answers, busy) ==
  [state |-> state, version |-> version, answers |-> answers, busy |-> busy]

Fate(conv, turn, status, knew) ==
  [conv |-> conv, turn |-> turn, status |-> status, knew |-> knew]

Nothing == Entry("absent", 0, {}, Null)
Unknown == Fate(Null, 0, "absent", {})

Recent(S) == {p \in S : Cardinality({q \in S : q[1] > p[1]}) < MaxPriorTurns}
Before(S, n) == {p \in S : p[1] < n}
Newest(S) == {p \in S : \A q \in S : q[1] <= p[1]}

Open(c) == log[c].state = "active" /\ log[c].busy = Null

(* Every change of an entry is a version of its own. *)
Moved(c, state, answers, busy) == Entry(state, log[c].version + 1, answers, busy)

Create(c) ==
  /\ log[c] = Nothing
  /\ log' = [log EXCEPT ![c] = Moved(c, "active", {}, Null)]
  /\ UNCHANGED outcome

Touch(c) ==
  /\ Open(c)
  /\ log' = [log EXCEPT ![c] = Moved(c, "active", log[c].answers, Null)]
  /\ UNCHANGED outcome

(* A new turn is newer than every answered one; a regeneration is for the   *)
(* newest answer.                                                           *)
Accept(c, o) ==
  /\ Open(c) /\ outcome[o] = Unknown
  /\ \E n \in 1..log[c].version :
       /\ \A p \in log[c].answers \ Newest(log[c].answers) : p[1] < n
       /\ \A p \in Newest(log[c].answers) : p[1] <= n
       /\ outcome' = [outcome EXCEPT ![o] = Fate(c, n, "running", {})]
  /\ log' = [log EXCEPT ![c] = Moved(c, "active", log[c].answers, o)]

Answer(c) ==
  LET o == log[c].busy
      n == outcome[o].turn
      earlier == Before(log[c].answers, n)
  IN
  /\ o # Null
  /\ log' = [log EXCEPT ![c] = Moved(c, "active", earlier \cup {<<n, o>>}, Null)]
  /\ outcome' = [outcome EXCEPT ![o] = Fate(c, n, "completed", Recent(earlier))]

(* One request, or every request of a stopped server, ends without answer.  *)
GiveUp(S, status) ==
  /\ \A c \in S : log[c].busy # Null
  /\ log' = [c \in Conversations |->
       IF c \in S THEN Moved(c, "active", log[c].answers, Null) ELSE log[c]]
  /\ outcome' = [o \in Operations |->
       IF \E c \in S : log[c].busy = o
       THEN Fate(outcome[o].conv, outcome[o].turn, status, {}) ELSE outcome[o]]

Close(c) ==
  /\ Open(c)
  /\ log' = [log EXCEPT ![c] = Moved(c, "deleting", log[c].answers, Null)]
  /\ UNCHANGED outcome

Forget(c) ==
  /\ log[c].state = "deleting"
  /\ log' = [log EXCEPT ![c] = Entry("deleted", 0, {}, Null)]
  /\ outcome' = [o \in Operations |-> IF outcome[o].conv = c THEN Unknown ELSE outcome[o]]

Init ==
  /\ log = [c \in Conversations |-> Nothing]
  /\ outcome = [o \in Operations |-> Unknown]

Next ==
  \/ \E c \in Conversations :
       \/ Create(c) \/ Touch(c) \/ Answer(c) \/ Close(c) \/ Forget(c)
       \/ \E o \in Operations : Accept(c, o)
  \/ \E S \in SUBSET Conversations, status \in {"failed", "interrupted"} : GiveUp(S, status)

Spec == Init /\ [][Next]_vars
=============================================================================
