-------------------------- MODULE SharedConnection --------------------------
(***************************************************************************)
(* The one aiosqlite connection all ConversationRepository methods share,  *)
(* one statement at a time.  The lifecycle lock keeps methods of one       *)
(* stripe apart; methods of different stripes interleave at every await,   *)
(* inside one connection and so inside one SQLite transaction.             *)
(*                                                                         *)
(* A statement is queued to the connection's thread before the await, so a *)
(* cancelled await still executes it.  The connection keeps the driver's   *)
(* implicit transactions: a write outside BEGIN opens one.  COMMIT and     *)
(* ROLLBACK end whatever transaction is open, whoever began it.            *)
(*                                                                         *)
(* A method is the number of rows it writes between BEGIN and COMMIT; a    *)
(* written row is <<task, i>>.  Every task runs one method.                *)
(***************************************************************************)
EXTENDS Integers, FiniteSets

CONSTANTS
  Tasks,     \* request tasks, each working on a conversation of its own
  Stripes,   \* lifecycle-lock stripes
  StripeOf,  \* the stripe of a task's conversation
  None

ASSUME StripeAssumption == StripeOf \in [Tasks -> Stripes]

VARIABLES
  txn,     \* the connection is inside a transaction
  dirty,   \* rows written on the connection and not committed
  disk,    \* rows committed
  lock,    \* holder of each stripe
  pc, method, written,  \* per task: next statement, method, rows written
  result,  \* per task: how its method ended
  intruders  \* history: per task, those that ended a transaction it was inside

vars == <<txn, dirty, disk, lock, pc, method, written, result, intruders>>

(* Rows written by each method between BEGIN and COMMIT. *)
RowsOf == [reserve_operation |-> 3, publish_operation |-> 4, publish_rag_operation |-> 3,
           record_operation_failure |-> 3, complete_delete |-> 4, rename |-> 1,
           begin_delete |-> 1, create |-> 1]
Methods == DOMAIN RowsOf

(* "error" raises with nothing written; "unsure" raises although a COMMIT,   *)
(* or the bare INSERT of create, may have taken effect.                      *)
Results == {"ok", "existing", "error", "unsure"}

ASSUME NullAssumption == None \notin Tasks \cup Methods \cup Results

Rows(t) == IF method[t] = None THEN {} ELSE {<<t, i>> : i \in 1..RowsOf[method[t]]}

(* Between the statement that begins a transaction and the one that ends it. *)
Mid(t) == pc[t] \in {"write", "rollback", "create_commit"}

-----------------------------------------------------------------------------
(* Statements on the connection. *)

Insert(rows) == txn' = TRUE /\ dirty' = dirty \cup rows /\ UNCHANGED <<disk, intruders>>
Untouched == UNCHANGED <<txn, dirty, disk, intruders>>

Ended(t) ==
  /\ txn' = FALSE /\ dirty' = {}
  /\ intruders' = [u \in Tasks |-> IF txn /\ u # t /\ Mid(u) THEN intruders[u] \cup {t}
                                   ELSE intruders[u]]
CommitNow(t) == Ended(t) /\ disk' = disk \cup dirty
RollbackNow(t) == Ended(t) /\ UNCHANGED disk

Goto(t, at) == pc' = [pc EXCEPT ![t] = at] /\ UNCHANGED <<lock, method, result>>

Finish(t, r) ==
  /\ pc' = [pc EXCEPT ![t] = "done"]
  /\ result' = [result EXCEPT ![t] = r]
  /\ lock' = [lock EXCEPT ![StripeOf[t]] = None]
  /\ UNCHANGED method

-----------------------------------------------------------------------------
FreeAlways(t) == TRUE   \* a mutant of the next
Free(t) == lock[StripeOf[t]] = None

Start(t, m) ==
  /\ pc[t] = "idle" /\ Free(t)
  /\ lock' = [lock EXCEPT ![StripeOf[t]] = t]
  /\ method' = [method EXCEPT ![t] = m]
  /\ pc' = [pc EXCEPT ![t] = IF m = "create" THEN "insert" ELSE "begin"]
  /\ UNCHANGED <<written, result>> /\ Untouched

(* BEGIN IMMEDIATE is outside the try.  Inside a transaction, whose-ever it  *)
(* is, or with the database busy it is refused, and nothing rolls back; a    *)
(* cancellation while it executes leaves the transaction open.               *)
Begin(t) ==
  /\ pc[t] = "begin"
  /\ \/ Finish(t, "error") /\ Untouched
     \/ ~txn /\ Insert({}) /\ (Goto(t, "write") \/ Finish(t, "error"))
  /\ UNCHANGED written

Write(t) ==
  /\ pc[t] = "write" /\ written[t] < RowsOf[method[t]]
  /\ written' = [written EXCEPT ![t] = @ + 1]
  /\ Insert({<<t, written[t] + 1>>})
  /\ \E at \in {"write", "rollback"} : Goto(t, at)

(* A conflict, a constraint, or a statement that fails, COMMIT among them.   *)
Refuse(t) ==
  /\ pc[t] = "write"
  /\ Goto(t, "rollback")
  /\ UNCHANGED written /\ Untouched

(* The operation id is known, or the operation is no longer running: the     *)
(* transaction ends with nothing of its own.                                 *)
Reconcile(t) ==
  /\ method[t] \in {"reserve_operation", "record_operation_failure"}
  /\ pc[t] = "write" /\ written[t] = 0
  /\ CommitNow(t)
  /\ Finish(t, "existing") \/ Goto(t, "undo")
  /\ UNCHANGED written

(* The read after it may fail; a cancelled COMMIT goes to the handler.       *)
Commit(t) ==
  /\ pc[t] = "write" /\ written[t] = RowsOf[method[t]]
  /\ CommitNow(t)
  /\ (\E r \in {"ok", "unsure"} : Finish(t, r)) \/ Goto(t, "undo")
  /\ UNCHANGED written

RollbackForgotten(t) ==   \* a mutant of the next
  /\ pc[t] = "rollback"
  /\ Finish(t, "error") /\ Untouched
  /\ UNCHANGED written

Rollback(t) ==
  /\ pc[t] = "rollback"
  /\ RollbackNow(t)
  /\ Finish(t, "error")
  /\ UNCHANGED written

(* The same handler after a cancelled COMMIT: its own transaction is over,   *)
(* and the ROLLBACK meets whatever was begun since.                          *)
Undo(t) ==
  /\ pc[t] = "undo"
  /\ RollbackNow(t)
  /\ Finish(t, "unsure")
  /\ UNCHANGED written

(* create has no BEGIN, and rolls back for an IntegrityError only; an id     *)
(* that exists was refused before, so its INSERT does not meet one.  A busy  *)
(* database refuses the INSERT after the driver began a transaction.         *)
CreateInsert(t) ==
  /\ pc[t] = "insert"
  /\ \/ /\ Insert({<<t, 1>>})
        /\ Goto(t, "create_commit") \/ Finish(t, "unsure")
        /\ written' = [written EXCEPT ![t] = 1]
     \/ Insert({}) /\ Finish(t, "error") /\ UNCHANGED written

CreateCommit(t) ==
  /\ pc[t] = "create_commit"
  /\ \/ CommitNow(t) /\ \E r \in {"ok", "unsure"} : Finish(t, r)
     \/ Untouched /\ Finish(t, "unsure")
  /\ UNCHANGED written

Init ==
  /\ txn = FALSE /\ dirty = {} /\ disk = {}
  /\ lock = [s \in Stripes |-> None]
  /\ pc = [t \in Tasks |-> "idle"]
  /\ method = [t \in Tasks |-> None]
  /\ written = [t \in Tasks |-> 0]
  /\ result = [t \in Tasks |-> None]
  /\ intruders = [t \in Tasks |-> {}]

Next ==
  \E t \in Tasks :
    \/ \E m \in Methods : Start(t, m)
    \/ Begin(t) \/ Write(t) \/ Refuse(t) \/ Reconcile(t) \/ Commit(t) \/ Rollback(t) \/ Undo(t)
    \/ CreateInsert(t) \/ CreateCommit(t)

Spec == Init /\ [][Next]_vars

-----------------------------------------------------------------------------
(* No row but those of the method under way is ever written.                 *)
TypeOK ==
  /\ txn \in BOOLEAN
  /\ dirty \subseteq UNION {Rows(t) : t \in Tasks}
  /\ disk \subseteq UNION {Rows(t) : t \in Tasks}
  /\ lock \in [Stripes -> Tasks \cup {None}]
  /\ pc \in [Tasks -> {"idle", "begin", "write", "rollback", "undo", "insert", "create_commit", "done"}]
  /\ method \in [Tasks -> Methods \cup {None}]
  /\ written \in [Tasks -> 0..4]
  /\ result \in [Tasks -> Results \cup {None}]
  /\ intruders \in [Tasks -> SUBSET Tasks]

(* What a crash would find on disk: all rows of a method or none, so no      *)
(* reservation without its operation and no answer without its checkpoint    *)
(* pointer, unless another task ended its transaction.                       *)
AllOrNothing == \A t \in Tasks : intruders[t] = {} => Rows(t) \cap disk \in {{}, Rows(t)}

(* Unless another task ended its transaction, a method that returned has     *)
(* every row on disk, and one that raised before its COMMIT has none, nor    *)
(* ever will: the rows it leaves on the connection are gone too.             *)
ResultIsTrue ==
  \A t \in Tasks : intruders[t] = {} =>
    /\ result[t] = "ok" => Rows(t) \subseteq disk
    /\ result[t] \in {"existing", "error"} => Rows(t) \cap (disk \cup dirty) = {}

(* The lifecycle lock keeps the methods of one stripe apart even on the      *)
(* connection: no method's transaction is ended by one of its own stripe.    *)
StripesApart == \A t \in Tasks : \A u \in intruders[t] : StripeOf[u] # StripeOf[t]

(* What lets methods of two stripes into each other's transactions: create,  *)
(* which writes without BEGIN, or the ROLLBACK after a cancelled COMMIT.     *)
(* Without either, every method of every stripe is atomic.                   *)
IntrusionHasCause ==
  (\E t \in Tasks : intruders[t] # {}) =>
    \E u \in Tasks : \/ method[u] = "create" /\ written[u] = 1
                     \/ pc[u] = "undo" \/ result[u] = "unsure"

(* What every method relies on at each await: the connection holds rows of   *)
(* known methods only, methods are on disk as a whole or not at all, and the *)
(* outcomes reported so far are true, except for a method whose transaction  *)
(* a method of another stripe ended, by a create or a cancelled COMMIT.      *)
ConnectionInvariant ==
  TypeOK /\ AllOrNothing /\ ResultIsTrue /\ StripesApart /\ IntrusionHasCause
=============================================================================
