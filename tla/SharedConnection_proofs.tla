----------------------- MODULE SharedConnection_proofs -----------------------
(***************************************************************************)
(* Proofs about SharedConnection, for any tasks and any stripes of the     *)
(* lifecycle lock: whatever statement is cancelled, refused or fails, and  *)
(* although a cancelled statement may leave the connection inside a        *)
(* transaction that nobody owns, a method is on disk as a whole or not at  *)
(* all and its result is true, unless a task of another stripe ended its   *)
(* transaction; and only a create or a cancelled COMMIT lets one do so.    *)
(*                                                                         *)
(* And about CellarSync, for any number of imports of one wine, of its     *)
(* bottles and of generated descriptions: an import that runs alone and    *)
(* fails nowhere mirrors what it fetched, only overlapping imports put a   *)
(* bottle in twice, and a drinking window gives way to a worse one only    *)
(* through a writer that read the row before the better one was there.     *)
(***************************************************************************)
EXTENDS SharedConnection, CellarSync, FiniteSetTheorems, TLAPS

-----------------------------------------------------------------------------
(* The inductive invariant. *)

Active == {"begin", "write", "rollback", "undo", "insert", "create_commit"}

(* Statements that end a transaction, and those inside one the method began. *)
Enders == {"write", "rollback", "undo", "create_commit"}
Within == {"write", "rollback"}

(* Where a method that nobody disturbed stands tells what it has on the      *)
(* connection and on disk.  Rows that outlive their method on the connection *)
(* are those of a create, which are all of its rows.                         *)
Undisturbed(t) ==
  /\ pc[t] \in Within => /\ txn /\ Rows(t) \cap disk = {}
                         /\ Rows(t) \cap dirty = {<<t, i>> : i \in 1..written[t]}
  /\ pc[t] = "create_commit" => txn /\ Rows(t) \subseteq dirty
  /\ pc[t] \in {"undo", "done"} /\ method[t] # "create" => Rows(t) \cap dirty = {}
  /\ Rows(t) \cap disk \in {{}, Rows(t)}
  /\ result[t] = "ok" => Rows(t) \subseteq disk
  /\ result[t] \in {"existing", "error"} => Rows(t) \cap (disk \cup dirty) = {}

TaskInv(t) ==
  /\ pc[t] \in Active => lock[StripeOf[t]] = t
  /\ pc[t] # "idle" <=> method[t] # None
  /\ pc[t] # "done" => result[t] = None
  /\ pc[t] \in {"begin", "write", "rollback", "undo"} => method[t] # "create"
  /\ pc[t] \in {"insert", "create_commit"} => method[t] = "create"
  /\ pc[t] \in {"idle", "begin", "insert"} =>
       written[t] = 0 /\ Rows(t) \cap (disk \cup dirty) = {}
  /\ pc[t] = "write" => written[t] <= RowsOf[method[t]]
  /\ pc[t] = "create_commit" => written[t] = 1
  /\ intruders[t] = {} => Undisturbed(t)

(* The connection has one transaction, so of two methods inside one, one was *)
(* disturbed.                                                                *)
OneWithin ==
  \A t, u \in Tasks :
    t # u /\ pc[t] \in Within /\ pc[u] \in Within => intruders[t] # {} \/ intruders[u] # {}

IInv ==
  /\ TypeOK
  /\ ~txn => dirty = {}
  /\ \A t \in Tasks : TaskInv(t)
  /\ OneWithin /\ StripesApart /\ IntrusionHasCause

-----------------------------------------------------------------------------
(* Rows. *)

LEMMA MethodRows ==
  /\ \A m \in Methods : RowsOf[m] \in Nat /\ 1 <= RowsOf[m] /\ RowsOf[m] <= 4
  /\ RowsOf["create"] = 1 /\ "create" \in Methods /\ None \notin Methods
BY NullAssumption DEF RowsOf, Methods

LEMMA RowsKept ==
  ASSUME NEW t \in Tasks, method'[t] = method[t]
  PROVE  Rows(t)' = Rows(t)
BY DEF Rows

LEMMA CreateRows ==
  ASSUME NEW t \in Tasks, method[t] = "create"
  PROVE  Rows(t) = {<<t, 1>>}
BY MethodRows DEF Rows

(* What is written so far, and all of it at the end.                         *)
LEMMA RowsWritten ==
  ASSUME NEW t \in Tasks, method[t] \in Methods, NEW n \in Nat,
         n <= RowsOf[method[t]]
  PROVE  /\ {<<t, i>> : i \in 1..n} \subseteq Rows(t)
         /\ n = RowsOf[method[t]] => {<<t, i>> : i \in 1..n} = Rows(t)
BY MethodRows DEF Rows

LEMMA NoResult == None # "ok" /\ None # "error" /\ None # "existing" /\ None # "unsure"
BY NullAssumption DEF Results

-----------------------------------------------------------------------------
(* A statement of one task, and what it does to the others.                  *)

Adds(v) ==
  /\ txn => txn'
  /\ dirty \subseteq dirty' /\ dirty' \subseteq dirty \cup Rows(v)'
  /\ disk' = disk /\ intruders' = intruders
Ends(v) == Ended(v) /\ disk \subseteq disk' /\ disk' \subseteq disk \cup dirty
Same(u) == /\ pc'[u] = pc[u] /\ method'[u] = method[u]
           /\ written'[u] = written[u] /\ result'[u] = result[u]

LEMMA OtherStays ==
  ASSUME TypeOK, NEW v \in Tasks, NEW u \in Tasks, u # v, TaskInv(u), ~txn => dirty = {},
         Same(u), pc[u] \in Active => lock'[StripeOf[u]] = u,
         Adds(v) \/ Ends(v)
  PROVE  TaskInv(u)'
<1>1. Rows(u)' = Rows(u)
  BY RowsKept DEF Same
<1>2. Rows(u) \cap Rows(v)' = {}
  BY DEF Rows
<1>3. disk' \cap Rows(u) \subseteq (disk \cup dirty) \cap Rows(u)
      /\ dirty' \cap Rows(u) \subseteq dirty \cap Rows(u)
  BY <1>2 DEF Adds, Ends, Ended
<1>4. ASSUME intruders'[u] = {}
      PROVE  Undisturbed(u)'
  <2>1. CASE Adds(v)
    <3>1. Undisturbed(u)
      BY <1>4, <2>1 DEF Adds, TaskInv
    <3>2. dirty' \cap Rows(u) = dirty \cap Rows(u)
      BY <1>2, <2>1 DEF Adds
    <3>3. QED BY <1>1, <2>1, <3>1, <3>2 DEF Adds, Undisturbed, Same
  <2>2. CASE Ends(v)
    <3>1. intruders[u] = {} /\ ~(txn /\ Mid(u))
      BY <1>4, <2>2 DEF Ends, Ended
    <3>2. Undisturbed(u)
      BY <3>1 DEF TaskInv
    <3>3. pc[u] \notin Within /\ pc[u] # "create_commit"
      BY <3>1, <3>2 DEF Undisturbed, Mid, Within
    <3>4. dirty' = {} /\ disk \subseteq disk' /\ disk' \subseteq disk \cup dirty
      BY <2>2 DEF Ends, Ended
    <3>5. Rows(u) \cap disk' \in {{}, Rows(u)}
      <4>1. CASE pc[u] \in {"idle", "begin", "insert"}
        BY <1>3, <4>1 DEF TaskInv
      <4>2. CASE pc[u] \in {"undo", "done"} /\ method[u] # "create"
        BY <3>2, <3>4, <4>2 DEF Undisturbed
      <4>3. CASE method[u] = "create"
        BY <4>3, CreateRows
      <4>4. QED BY <3>3, <4>1, <4>2, <4>3 DEF TypeOK, Within
    <3>6. result[u] \in {"existing", "error"} => Rows(u) \cap (disk' \cup dirty') = {}
      BY <1>3, <3>2 DEF Undisturbed
    <3>7. QED
      BY <1>1, <3>2, <3>3, <3>4, <3>5, <3>6 DEF Undisturbed, Same
  <2>3. QED BY <2>1, <2>2
<1>5. pc[u] \in {"idle", "begin", "insert"} => Rows(u) \cap (disk' \cup dirty') = {}
  BY <1>3 DEF TaskInv
<1>6. QED BY <1>1, <1>4, <1>5 DEF TaskInv, Same

(* Two tasks at work hold two locks.                                         *)
LEMMA ActiveApart ==
  ASSUME IInv, NEW v \in Tasks, NEW u \in Tasks, u # v, pc[u] \in Active,
         pc[v] \in Active \/ Free(v)
  PROVE  StripeOf[u] # StripeOf[v]
BY NullAssumption DEF IInv, TaskInv, Free

LEMMA OneMoves ==
  ASSUME IInv, NEW v \in Tasks, pc[v] \in Active \/ Free(v),
         \A u \in Tasks \ {v} : Same(u),
         \A s \in Stripes \ {StripeOf[v]} : lock'[s] = lock[s],
         Adds(v) \/ (Ends(v) /\ pc[v] \in Enders),
         pc'[v] \in Within => pc[v] \in Within \/ ~txn,
         pc[v] = "undo" \/ result[v] = "unsure" => result'[v] = "unsure",
         method[v] = "create" /\ written[v] = 1 => method'[v] = "create" /\ written'[v] = 1,
         ~txn' => dirty' = {}, TypeOK', TaskInv(v)'
  PROVE  IInv'
<1>1. TypeOK /\ (\A t \in Tasks : TaskInv(t)) /\ OneWithin /\ StripesApart /\ IntrusionHasCause
  BY DEF IInv
<1>2. ASSUME NEW u \in Tasks, u # v
      PROVE  TaskInv(u)'
  <2>1. pc[u] \in Active => lock'[StripeOf[u]] = u
    <3>1. SUFFICES ASSUME pc[u] \in Active PROVE lock'[StripeOf[u]] = u
      OBVIOUS
    <3>2. StripeOf[u] # StripeOf[v]
      BY <1>2, <3>1, ActiveApart
    <3>3. QED BY <1>1, <3>1, <3>2, StripeAssumption DEF TaskInv
  <2>2. QED BY <1>1, <1>2, <2>1, OtherStays DEF IInv
<1>3. \A u \in Tasks : intruders[u] \subseteq intruders'[u]
  BY <1>1 DEF Adds, Ends, Ended
<1>4. OneWithin'
  <2>1. ASSUME NEW t \in Tasks, NEW u \in Tasks, t # u, pc'[t] \in Within, pc'[u] \in Within,
               intruders'[t] = {}, intruders'[u] = {}
        PROVE  FALSE
    <3>1. intruders[t] = {} /\ intruders[u] = {}
      BY <1>3, <2>1
    <3>2. ASSUME NEW w \in Tasks, w # v, pc'[w] \in Within, intruders[w] = {}
          PROVE  pc[w] \in Within /\ txn
      BY <1>1, <3>2 DEF Same, TaskInv, Undisturbed
    <3>3. pc[t] \in Within /\ pc[u] \in Within
      BY <2>1, <3>1, <3>2
    <3>4. QED BY <1>1, <2>1, <3>1, <3>3 DEF OneWithin
  <2>2. QED BY <2>1 DEF OneWithin
<1>5. ASSUME NEW u \in Tasks, NEW w \in intruders'[u], w \notin intruders[u]
      PROVE  w = v /\ u # v /\ Mid(u) /\ pc[v] \in Enders
  BY <1>1, <1>5 DEF Adds, Ends, Ended
<1>6. StripesApart'
  <2>1. ASSUME NEW u \in Tasks, NEW w \in intruders'[u]
        PROVE  StripeOf[w] # StripeOf[u]
    <3>1. CASE w \in intruders[u]
      BY <1>1, <3>1 DEF StripesApart
    <3>2. CASE w \notin intruders[u]
      BY <1>5, <2>1, <3>2, ActiveApart DEF Mid, Enders, Active
    <3>3. QED BY <3>1, <3>2
  <2>2. QED BY <2>1 DEF StripesApart
<1>7. IntrusionHasCause'
  <2> DEFINE Cause(u)  == \/ method[u] = "create" /\ written[u] = 1
                          \/ pc[u] = "undo" \/ result[u] = "unsure"
             Caused(u) == \/ method'[u] = "create" /\ written'[u] = 1
                          \/ pc'[u] = "undo" \/ result'[u] = "unsure"
  <2>1. ASSUME NEW u \in Tasks, Cause(u)
        PROVE  Caused(u)
    BY <2>1 DEF Same
  <2>2. ASSUME NEW t \in Tasks, intruders'[t] # {}
        PROVE  \E u \in Tasks : Caused(u)
    <3>1. CASE \E u \in Tasks : intruders[u] # {}
      <4>1. \E u \in Tasks : Cause(u)
        BY <1>1, <3>1 DEF IntrusionHasCause
      <4>2. QED BY <2>1, <4>1
    <3>2. CASE \A u \in Tasks : intruders[u] = {}
      <4>1. t # v /\ Mid(t) /\ pc[v] \in Enders
        BY <1>5, <2>2, <3>2
      <4>2. ~(pc[t] \in Within /\ pc[v] \in Within)
        BY <1>1, <3>2, <4>1 DEF OneWithin
      <4>3. CASE pc[t] = "create_commit"
        BY <1>1, <2>1, <4>3 DEF TaskInv
      <4>4. CASE pc[v] \in {"undo", "create_commit"}
        BY <1>1, <2>1, <4>4 DEF TaskInv
      <4>5. QED BY <4>1, <4>2, <4>3, <4>4 DEF Mid, Within, Enders
    <3>3. QED BY <3>1, <3>2
  <2>3. QED BY <2>2 DEF IntrusionHasCause
<1>8. QED BY <1>2, <1>4, <1>6, <1>7 DEF IInv

-----------------------------------------------------------------------------
(* The statements of a method. *)

LEMMA StartKeeps ==
  ASSUME IInv, NEW t \in Tasks, NEW m \in Methods, Start(t, m)
  PROVE  IInv'
<1>1. /\ TypeOK /\ TaskInv(t) /\ pc[t] = "idle" /\ Free(t) /\ method[t] = None
      /\ written[t] = 0 /\ result[t] = None
      /\ StripeOf[t] \in Stripes /\ m # None
      /\ lock' = [lock EXCEPT ![StripeOf[t]] = t]
      /\ method' = [method EXCEPT ![t] = m]
      /\ pc' = [pc EXCEPT ![t] = IF m = "create" THEN "insert" ELSE "begin"]
      /\ UNCHANGED <<written, result, txn, dirty, disk, intruders>>
  BY StripeAssumption, MethodRows DEF Start, IInv, TaskInv, Untouched
<1>2. \A u \in Tasks : Rows(u) \subseteq Rows(u)'
  BY <1>1, NullAssumption DEF Rows, TypeOK
<1>3. TypeOK'
  <2>1. UNION {Rows(u) : u \in Tasks} \subseteq UNION {Rows(u) : u \in Tasks}'
    BY <1>2
  <2>2. dirty' \subseteq UNION {Rows(u) : u \in Tasks}' /\ disk' \subseteq UNION {Rows(u) : u \in Tasks}'
    BY <1>1, <2>1 DEF TypeOK
  <2>3. QED BY <1>1, <2>2 DEF TypeOK
<1>4. Rows(t)' \cap (dirty \cup disk) = {}
  <2>1. \A u \in Tasks : u # t => Rows(u) \cap Rows(t)' = {}
    BY DEF Rows
  <2>2. Rows(t) = {}
    BY <1>1 DEF Rows
  <2>3. QED BY <1>1, <2>1, <2>2 DEF TypeOK
<1>5. /\ pc'[t] = IF m = "create" THEN "insert" ELSE "begin"
      /\ method'[t] = m /\ lock'[StripeOf[t]] = t /\ written'[t] = 0 /\ result'[t] = None
  BY <1>1 DEF TypeOK
<1>6. TaskInv(t)'
  <2>1. Rows(t)' \cap (disk' \cup dirty') = {} /\ Rows(t)' \cap disk' = {}
    BY <1>1, <1>4
  <2>2. Undisturbed(t)'
    BY <1>5, <2>1, NoResult DEF Undisturbed, Within
  <2>3. QED BY <1>1, <1>5, <2>1, <2>2 DEF TaskInv, Active
<1>7. \A u \in Tasks \ {t} : Same(u)
  BY <1>1 DEF TypeOK, Same
<1>8. ~txn' => dirty' = {}
  BY <1>1 DEF IInv
<1>9. Adds(t)
  BY <1>1 DEF Adds
<1>10. \A s \in Stripes \ {StripeOf[t]} : lock'[s] = lock[s]
  BY <1>1 DEF TypeOK
<1>11. pc'[t] \notin Within
  BY <1>5 DEF Within
<1>12. QED
  BY <1>1, <1>3, <1>6, <1>7, <1>8, <1>9, <1>10, <1>11, NoResult, OneMoves

(* A method at work, and the ways it goes on.                                *)
LEMMA AtWork ==
  ASSUME IInv, NEW t \in Tasks, pc[t] \in Active
  PROVE  /\ TypeOK /\ TaskInv(t) /\ method[t] \in Methods /\ method[t] # None
         /\ StripeOf[t] \in Stripes /\ lock[StripeOf[t]] = t /\ result[t] = None
         /\ written[t] \in Nat /\ written[t] <= 4
         /\ ~txn => dirty = {}
BY StripeAssumption DEF IInv, TaskInv, TypeOK, Active

(* One task moves, with its stripe held or released; the rows it puts on the *)
(* connection are its own.                                                   *)
LEMMA WorkStep ==
  ASSUME IInv, NEW t \in Tasks, pc[t] \in Active,
         (\E at \in Active : Goto(t, at)) \/ (\E r \in Results : Finish(t, r)),
         \E n \in 0..4 : written' = [written EXCEPT ![t] = n],
         txn' \in BOOLEAN, Adds(t) \/ (Ends(t) /\ pc[t] \in Enders),
         pc'[t] \in Within => pc[t] \in Within \/ ~txn,
         pc[t] = "undo" => result'[t] = "unsure",
         method[t] = "create" /\ written[t] = 1 => written'[t] = 1,
         ~txn' => dirty' = {}, TaskInv(t)'
  PROVE  IInv'
<1>1. TypeOK /\ method' = method /\ result[t] = None
  BY AtWork DEF IInv, Goto, Finish
<1>2. \A u \in Tasks : Rows(u)' = Rows(u)
  BY <1>1, RowsKept
<1>3. \A u \in Tasks \ {t} : Same(u)
  BY <1>1 DEF TypeOK, Goto, Finish, Same
<1>4. TypeOK'
  <2>1. dirty' \subseteq UNION {Rows(u) : u \in Tasks} /\ disk' \subseteq UNION {Rows(u) : u \in Tasks}
    BY <1>1, <1>2 DEF TypeOK, Adds, Ends, Ended
  <2>2. UNION {Rows(u) : u \in Tasks}' = UNION {Rows(u) : u \in Tasks}
    BY <1>2
  <2>3. pc' \in [Tasks -> Active \cup {"idle", "done"}]
    BY <1>1 DEF TypeOK, Goto, Finish, Active
  <2>4. intruders' \in [Tasks -> SUBSET Tasks]
    BY <1>1 DEF TypeOK, Adds, Ends, Ended
  <2>5. QED BY <1>1, <2>1, <2>2, <2>3, <2>4 DEF TypeOK, Goto, Finish, Active
<1>5. \A s \in Stripes \ {StripeOf[t]} : lock'[s] = lock[s]
  BY <1>1 DEF TypeOK, Goto, Finish
<1>6. QED BY <1>1, <1>3, <1>4, <1>5, NoResult, OneMoves

LEMMA Finishing ==
  ASSUME TypeOK, NEW t \in Tasks, method[t] # None, NEW r \in Results, Finish(t, r),
         intruders'[t] = {} =>
           /\ Rows(t) \cap disk' \in {{}, Rows(t)}
           /\ method[t] # "create" => Rows(t) \cap dirty' = {}
           /\ r = "ok" => Rows(t) \subseteq disk'
           /\ r \in {"existing", "error"} => Rows(t) \cap (disk' \cup dirty') = {}
  PROVE  TaskInv(t)' /\ result'[t] = r /\ pc'[t] = "done" /\ method' = method
<1>1. pc'[t] = "done" /\ result'[t] = r /\ method' = method
  BY DEF Finish, TypeOK
<1>2. Rows(t)' = Rows(t)
  BY <1>1, RowsKept
<1>3. QED BY <1>1, <1>2 DEF TaskInv, Undisturbed, Active, Within

(* The task that moves on, at its next statement.                            *)
LEMMA Going ==
  ASSUME TypeOK, NEW t \in Tasks, NEW at \in Active, Goto(t, at)
  PROVE  /\ pc'[t] = at /\ method' = method /\ lock' = lock /\ result' = result
         /\ Rows(t)' = Rows(t)
BY RowsKept DEF Goto, TypeOK

LEMMA Stations ==
  /\ "begin" \in Active /\ "write" \in Active /\ "rollback" \in Active /\ "undo" \in Active
  /\ "insert" \in Active /\ "create_commit" \in Active
BY DEF Active

LEMMA SameWritten ==
  ASSUME TypeOK, NEW t \in Tasks, UNCHANGED written
  PROVE  \E n \in 0..4 : written' = [written EXCEPT ![t] = n]
<1>1. written' = [written EXCEPT ![t] = written[t]]
  BY DEF TypeOK
<1>2. QED BY <1>1 DEF TypeOK

LEMMA BeginKeeps ==
  ASSUME IInv, NEW t \in Tasks, Begin(t)
  PROVE  IInv'
<1>1. pc[t] = "begin" /\ pc[t] \in Active /\ UNCHANGED written
  BY DEF Begin, Active
<1>2. /\ TypeOK /\ TaskInv(t) /\ method[t] # None /\ lock[StripeOf[t]] = t
      /\ written[t] = 0 /\ method[t] \in Methods /\ result[t] = None
      /\ ~txn => dirty = {}
  BY <1>1, AtWork DEF TaskInv
<1>3. Rows(t) \cap disk = {} /\ Rows(t) \cap dirty = {} /\ method[t] # "create"
  BY <1>1, <1>2 DEF TaskInv
<1>4. (txn' = txn \/ txn' = TRUE) /\ dirty' = dirty /\ disk' = disk /\ intruders' = intruders
  BY DEF Begin, Untouched, Insert
<1>5. TaskInv(t)' /\ (pc'[t] \in Within => ~txn)
  <2>1. CASE Finish(t, "error")
    BY <1>2, <1>3, <1>4, <2>1, Finishing DEF Results, Within
  <2>2. CASE Goto(t, "write") /\ ~txn /\ Insert({})
    <3>1. /\ pc'[t] = "write" /\ method' = method /\ lock' = lock /\ result' = result
          /\ Rows(t)' = Rows(t) /\ written' = written
      BY <1>1, <1>2, <2>2, Going, Stations
    <3>2. txn' = TRUE /\ Rows(t) \cap dirty' = {<<t, i>> : i \in 1..0}
      BY <1>3, <1>4, <2>2 DEF Insert
    <3>3. 0 <= RowsOf[method[t]]
      BY <1>2, MethodRows
    <3>4. Undisturbed(t)'
      BY <1>2, <1>3, <1>4, <3>1, <3>2, NoResult DEF Undisturbed, Within
    <3>5. QED BY <1>2, <1>3, <1>4, <2>2, <3>1, <3>3, <3>4 DEF TaskInv, Active
  <2>3. QED BY <2>1, <2>2 DEF Begin
<1>6. (\E at \in Active : Goto(t, at)) \/ (\E r \in Results : Finish(t, r))
  BY DEF Begin, Active, Results
<1>7. txn' \in BOOLEAN /\ (~txn' => dirty' = {}) /\ Adds(t)
  BY <1>2, <1>4 DEF TypeOK, Adds
<1>8. \E n \in 0..4 : written' = [written EXCEPT ![t] = n]
  BY <1>1, <1>2, SameWritten
<1>9. QED BY <1>1, <1>3, <1>5, <1>6, <1>7, <1>8, WorkStep

LEMMA WriteKeeps ==
  ASSUME IInv, NEW t \in Tasks, Write(t)
  PROVE  IInv'
<1>1. pc[t] = "write" /\ pc[t] \in Active /\ pc[t] \in Within /\ written[t] < RowsOf[method[t]]
  BY DEF Write, Active, Within
<1>2. /\ TypeOK /\ TaskInv(t) /\ method[t] \in Methods /\ method[t] # None
      /\ lock[StripeOf[t]] = t /\ written[t] \in Nat /\ result[t] = None
  BY <1>1, AtWork
<1>3. PICK n, m : n = written[t] /\ m = n + 1
  OBVIOUS
<1>4. /\ n \in Nat /\ m \in Nat /\ m <= RowsOf[method[t]] /\ m \in 0..4 /\ method[t] # "create"
  BY <1>1, <1>2, <1>3, MethodRows DEF TaskInv
<1>5. /\ written' = [written EXCEPT ![t] = m] /\ written'[t] = m
      /\ txn' = TRUE /\ disk' = disk /\ dirty' = dirty \cup {<<t, m>>} /\ intruders' = intruders
      /\ \E at \in Within : Goto(t, at)
  BY <1>2, <1>3 DEF Write, Insert, TypeOK, Within
<1>6. <<t, m>> \in Rows(t)
  BY <1>2, <1>3, <1>4, MethodRows DEF Rows
<1>7. PICK at \in Within : Goto(t, at)
  BY <1>5
<1>8. /\ pc'[t] = at /\ method' = method /\ lock' = lock /\ result' = result
      /\ Rows(t)' = Rows(t)
  BY <1>2, <1>7, Going, Stations DEF Within
<1>9. ASSUME intruders'[t] = {}
      PROVE  Undisturbed(t)'
  <2>1. Rows(t) \cap disk = {} /\ Rows(t) \cap dirty = {<<t, i>> : i \in 1..n}
    BY <1>1, <1>2, <1>3, <1>5, <1>9 DEF TaskInv, Undisturbed
  <2>2. 1..m = (1..n) \cup {m}
    BY <1>3, <1>4
  <2>3. Rows(t) \cap dirty' = {<<t, i>> : i \in 1..m}
    BY <1>5, <1>6, <2>1, <2>2
  <2>4. QED BY <1>2, <1>5, <1>8, <2>1, <2>3, NoResult DEF Undisturbed, Within
<1>10. TaskInv(t)'
  BY <1>2, <1>4, <1>5, <1>8, <1>9 DEF TaskInv, Active, Within
<1>11. Adds(t)
  BY <1>5, <1>6, <1>8 DEF Adds
<1>12. \E a \in Active : Goto(t, a)
  BY <1>7 DEF Active, Within
<1>13. QED BY <1>1, <1>4, <1>5, <1>10, <1>11, <1>12, WorkStep

LEMMA RefuseKeeps ==
  ASSUME IInv, NEW t \in Tasks, Refuse(t)
  PROVE  IInv'
<1>1. /\ pc[t] = "write" /\ pc[t] \in Active /\ pc[t] \in Within /\ Goto(t, "rollback")
      /\ UNCHANGED <<written, txn, dirty, disk, intruders>>
  BY DEF Refuse, Untouched, Active, Within
<1>2. /\ TypeOK /\ TaskInv(t) /\ method[t] # None /\ lock[StripeOf[t]] = t
      /\ method[t] # "create" /\ (~txn => dirty = {})
  BY <1>1, AtWork DEF TaskInv
<1>3. /\ pc'[t] = "rollback" /\ method' = method /\ lock' = lock /\ result' = result
      /\ Rows(t)' = Rows(t)
  BY <1>1, <1>2, Going, Stations
<1>4. intruders'[t] = {} => Undisturbed(t)'
  BY <1>1, <1>2, <1>3 DEF TaskInv, Undisturbed, Within
<1>5. TaskInv(t)'
  BY <1>1, <1>2, <1>3, <1>4 DEF TaskInv, Active
<1>6. Adds(t) /\ txn' \in BOOLEAN
  BY <1>1, <1>2 DEF Adds, TypeOK
<1>7. QED BY <1>1, <1>2, <1>5, <1>6, Stations, SameWritten, WorkStep

(* A transaction ends, with all the rows of its method or with none; a       *)
(* cancelled COMMIT has committed.                                           *)
LEMMA CommitKeeps ==
  ASSUME IInv, NEW t \in Tasks, Commit(t) \/ Reconcile(t)
  PROVE  IInv'
<1>1. /\ pc[t] = "write" /\ pc[t] \in Active /\ pc[t] \in Within /\ pc[t] \in Enders
      /\ UNCHANGED written /\ CommitNow(t)
      /\ written[t] = RowsOf[method[t]] \/ written[t] = 0
      /\ \/ \E r \in {"ok", "unsure"} : Finish(t, r) /\ written[t] = RowsOf[method[t]]
         \/ Finish(t, "existing") /\ written[t] = 0
         \/ Goto(t, "undo")
  BY DEF Commit, Reconcile, Active, Within, Enders
<1>2. /\ TypeOK /\ TaskInv(t) /\ method[t] \in Methods /\ method[t] # None
      /\ lock[StripeOf[t]] = t /\ written[t] \in Nat /\ result[t] = None
      /\ method[t] # "create" /\ written[t] <= RowsOf[method[t]]
  BY <1>1, AtWork DEF TaskInv
<1>3. /\ txn' = FALSE /\ dirty' = {} /\ disk' = disk \cup dirty /\ intruders'[t] = intruders[t]
      /\ Ends(t)
  BY <1>1 DEF CommitNow, Ended, Ends
<1>4. ASSUME intruders[t] = {}
      PROVE  /\ written[t] = RowsOf[method[t]] => Rows(t) \subseteq disk'
             /\ written[t] = 0 => Rows(t) \cap disk' = {}
             /\ Rows(t) \cap disk' \in {{}, Rows(t)}
  <2>1. Rows(t) \cap disk = {} /\ Rows(t) \cap dirty = {<<t, i>> : i \in 1..written[t]}
    BY <1>1, <1>2, <1>4 DEF TaskInv, Undisturbed
  <2>2. written[t] = RowsOf[method[t]] => Rows(t) \subseteq disk'
    BY <1>2, <1>3, <2>1, RowsWritten
  <2>3. written[t] = 0 => Rows(t) \cap disk' = {}
    BY <1>3, <2>1
  <2>4. QED BY <1>1, <2>2, <2>3
<1>5. TaskInv(t)' /\ pc'[t] \notin Within
  <2>1. CASE \E r \in {"ok", "unsure"} : Finish(t, r) /\ written[t] = RowsOf[method[t]]
    BY <1>2, <1>3, <1>4, <2>1, Finishing DEF Results, Within
  <2>2. CASE Finish(t, "existing") /\ written[t] = 0
    BY <1>2, <1>3, <1>4, <2>2, Finishing DEF Results, Within
  <2>3. CASE Goto(t, "undo")
    <3>1. /\ pc'[t] = "undo" /\ method' = method /\ lock' = lock /\ result' = result
          /\ Rows(t)' = Rows(t) /\ written' = written
      BY <1>1, <1>2, <2>3, Going, Stations
    <3>2. intruders'[t] = {} => Undisturbed(t)'
      BY <1>2, <1>3, <1>4, <3>1, NoResult DEF Undisturbed, Within
    <3>3. QED BY <1>2, <3>1, <3>2 DEF TaskInv, Active, Within
  <2>4. QED BY <1>1, <2>1, <2>2, <2>3
<1>6. (\E at \in Active : Goto(t, at)) \/ (\E r \in Results : Finish(t, r))
  BY <1>1 DEF Active, Results
<1>7. QED BY <1>1, <1>2, <1>3, <1>5, <1>6, WorkStep, SameWritten

LEMMA RollbackKeeps ==
  ASSUME IInv, NEW t \in Tasks, Rollback(t) \/ Undo(t)
  PROVE  IInv'
<1>1. /\ pc[t] \in {"rollback", "undo"} /\ pc[t] \in Active /\ pc[t] \in Enders
      /\ UNCHANGED written /\ RollbackNow(t)
      /\ \/ pc[t] = "rollback" /\ Finish(t, "error")
         \/ pc[t] = "undo" /\ Finish(t, "unsure")
  BY DEF Rollback, Undo, Active, Enders
<1>2. /\ TypeOK /\ TaskInv(t) /\ method[t] # None /\ method[t] # "create"
  BY <1>1, AtWork DEF TaskInv
<1>3. /\ txn' = FALSE /\ dirty' = {} /\ disk' = disk /\ intruders'[t] = intruders[t] /\ Ends(t)
  BY <1>1 DEF RollbackNow, Ended, Ends
<1>4. TaskInv(t)' /\ pc'[t] \notin Within /\ (pc[t] = "undo" => result'[t] = "unsure")
  <2>1. CASE pc[t] = "rollback" /\ Finish(t, "error")
    <3>1. intruders[t] = {} => Rows(t) \cap disk = {}
      BY <1>2, <2>1 DEF TaskInv, Undisturbed, Within
    <3>2. QED BY <1>2, <1>3, <2>1, <3>1, Finishing DEF Results, Within
  <2>2. CASE pc[t] = "undo" /\ Finish(t, "unsure")
    <3>1. intruders[t] = {} => Rows(t) \cap disk \in {{}, Rows(t)}
      BY <1>2 DEF TaskInv, Undisturbed
    <3>2. QED BY <1>2, <1>3, <2>2, <3>1, Finishing DEF Results, Within
  <2>3. QED BY <1>1, <2>1, <2>2
<1>5. \E r \in Results : Finish(t, r)
  BY <1>1 DEF Results
<1>6. QED BY <1>1, <1>2, <1>3, <1>4, <1>5, WorkStep, SameWritten

(* create writes one row without BEGIN, into whatever transaction is open.   *)
LEMMA CreateKeeps ==
  ASSUME IInv, NEW t \in Tasks, CreateInsert(t) \/ CreateCommit(t)
  PROVE  IInv'
<1>1. pc[t] \in {"insert", "create_commit"} /\ pc[t] \in Active
  BY DEF CreateInsert, CreateCommit, Active
<1>2. /\ TypeOK /\ TaskInv(t) /\ method[t] = "create" /\ method[t] # None
      /\ lock[StripeOf[t]] = t /\ result[t] = None /\ Rows(t) = {<<t, 1>>}
      /\ ~txn => dirty = {}
  BY <1>1, AtWork, CreateRows DEF TaskInv
<1>3. Rows(t) \cap disk' \in {{}, Rows(t)}
  BY <1>2
<1>4. CASE CreateInsert(t)
  <2>1. /\ pc[t] = "insert" /\ written[t] = 0 /\ Rows(t) \cap (disk \cup dirty) = {}
        /\ txn' = TRUE /\ disk' = disk /\ intruders' = intruders
    BY <1>2, <1>4 DEF CreateInsert, Insert, TaskInv
  <2>2. CASE Insert({}) /\ Finish(t, "error") /\ UNCHANGED written
    <3>1. dirty' = dirty
      BY <2>2 DEF Insert
    <3>2. TaskInv(t)' /\ pc'[t] = "done" /\ method' = method
      BY <1>2, <1>3, <2>1, <2>2, <3>1, Finishing DEF Results
    <3>3. Adds(t)
      BY <2>1, <3>1 DEF Adds
    <3>4. \E r \in Results : Finish(t, r)
      BY <2>2 DEF Results
    <3>5. QED BY <1>1, <1>2, <2>1, <2>2, <3>2, <3>3, <3>4, WorkStep, SameWritten DEF Within
  <2>3. CASE /\ Insert({<<t, 1>>})
             /\ Goto(t, "create_commit") \/ Finish(t, "unsure")
             /\ written' = [written EXCEPT ![t] = 1]
    <3>1. dirty' = dirty \cup Rows(t) /\ written'[t] = 1
      BY <1>2, <2>3 DEF Insert, TypeOK
    <3>2. TaskInv(t)' /\ pc'[t] \notin Within /\ method' = method
      <4>1. CASE Finish(t, "unsure")
        BY <1>2, <1>3, <4>1, Finishing DEF Results, Within
      <4>2. CASE Goto(t, "create_commit")
        <5>1. /\ pc'[t] = "create_commit" /\ method' = method /\ lock' = lock /\ result' = result
              /\ Rows(t)' = Rows(t)
          BY <1>2, <4>2, Going, Stations
        <5>2. Undisturbed(t)'
          BY <1>2, <1>3, <2>1, <3>1, <5>1, NoResult DEF Undisturbed, Within
        <5>3. QED BY <1>2, <3>1, <5>1, <5>2 DEF TaskInv, Active, Within
      <4>3. QED BY <2>3, <4>1, <4>2
    <3>3. Rows(t)' = Rows(t)
      BY <3>2, RowsKept
    <3>4. Adds(t)
      BY <2>1, <3>1, <3>3 DEF Adds
    <3>5. (\E at \in Active : Goto(t, at)) \/ (\E r \in Results : Finish(t, r))
      BY <2>3 DEF Active, Results
    <3>6. 1 \in 0..4
      OBVIOUS
    <3>7. QED BY <1>1, <2>1, <2>3, <3>1, <3>2, <3>4, <3>5, <3>6, WorkStep
  <2>4. QED BY <1>4, <2>2, <2>3 DEF CreateInsert
<1>5. CASE CreateCommit(t)
  <2>1. pc[t] = "create_commit" /\ pc[t] \in Enders /\ UNCHANGED written
    BY <1>5 DEF CreateCommit, Enders
  <2>2. CASE CommitNow(t) /\ \E r \in {"ok", "unsure"} : Finish(t, r)
    <3>1. /\ txn' = FALSE /\ dirty' = {} /\ disk' = disk \cup dirty /\ intruders'[t] = intruders[t]
          /\ Ends(t)
      BY <2>2 DEF CommitNow, Ended, Ends
    <3>2. intruders[t] = {} => Rows(t) \subseteq disk'
      BY <1>2, <2>1, <3>1 DEF TaskInv, Undisturbed
    <3>3. TaskInv(t)' /\ pc'[t] \notin Within
      BY <1>2, <1>3, <2>2, <3>1, <3>2, Finishing DEF Results, Within
    <3>4. \E r \in Results : Finish(t, r)
      BY <2>2 DEF Results
    <3>5. QED BY <1>1, <1>2, <2>1, <3>1, <3>3, <3>4, WorkStep, SameWritten
  <2>3. CASE Untouched /\ Finish(t, "unsure")
    <3>1. UNCHANGED <<txn, dirty, disk, intruders>>
      BY <2>3 DEF Untouched
    <3>2. TaskInv(t)' /\ pc'[t] \notin Within
      BY <1>2, <1>3, <2>3, Finishing DEF Results, Within
    <3>3. Adds(t) /\ txn' \in BOOLEAN
      BY <1>2, <3>1 DEF Adds, TypeOK
    <3>4. \E r \in Results : Finish(t, r)
      BY <2>3 DEF Results
    <3>5. QED BY <1>1, <1>2, <2>1, <3>1, <3>2, <3>3, <3>4, WorkStep, SameWritten
  <2>4. QED BY <1>5, <2>2, <2>3 DEF CreateCommit
<1>6. QED BY <1>4, <1>5

-----------------------------------------------------------------------------
LEMMA InitHolds == Init => IInv
<1> SUFFICES ASSUME Init PROVE IInv
  OBVIOUS
<1>1. \A t \in Tasks : Rows(t) = {}
  BY DEF Init, Rows
<1>2. TypeOK
  <2>1. pc \in [Tasks -> {"idle"}] /\ written \in [Tasks -> {0}] /\ method \in [Tasks -> {None}]
        /\ result \in [Tasks -> {None}] /\ lock \in [Stripes -> {None}]
        /\ intruders \in [Tasks -> SUBSET Tasks]
    BY DEF Init
  <2>2. txn = FALSE /\ dirty = {} /\ disk = {}
    BY DEF Init
  <2>3. 0 \in 0..4
    OBVIOUS
  <2>4. written \in [Tasks -> 0..4] /\ lock \in [Stripes -> Tasks \cup {None}]
    BY <2>1, <2>3
  <2>5. /\ pc \in [Tasks -> {"idle", "begin", "write", "rollback", "undo", "insert", "create_commit", "done"}]
        /\ method \in [Tasks -> Methods \cup {None}] /\ result \in [Tasks -> Results \cup {None}]
    BY <2>1
  <2>6. QED BY <2>1, <2>2, <2>4, <2>5 DEF TypeOK
<1>3. ASSUME NEW t \in Tasks PROVE TaskInv(t)
  <2>1. Undisturbed(t)
    BY <1>1, <1>3, NoResult DEF Init, Undisturbed, Within
  <2>2. QED BY <1>1, <1>3, <2>1 DEF Init, TaskInv, Active
<1>4. OneWithin /\ StripesApart /\ IntrusionHasCause
  BY DEF Init, OneWithin, Within, StripesApart, IntrusionHasCause
<1>5. QED BY <1>2, <1>3, <1>4 DEF IInv, Init

LEMMA StepHolds == IInv /\ [Next]_vars => IInv'
<1> SUFFICES ASSUME IInv, [Next]_vars PROVE IInv'
  OBVIOUS
<1>1. CASE Next
  BY <1>1, StartKeeps, BeginKeeps, WriteKeeps, RefuseKeeps, CommitKeeps, RollbackKeeps,
     CreateKeeps DEF Next
<1>2. CASE UNCHANGED vars
  <2>1. \A t \in Tasks : Rows(t)' = Rows(t)
    BY <1>2, RowsKept DEF vars
  <2>2. (UNION {Rows(t) : t \in Tasks})' = UNION {Rows(t) : t \in Tasks}
    BY <2>1
  <2>3. TypeOK'
    BY <1>2, <2>2 DEF vars, IInv, TypeOK
  <2>4. \A t \in Tasks : TaskInv(t)'
    BY <1>2, <2>1 DEF vars, IInv, TaskInv, Undisturbed
  <2>5. OneWithin' /\ StripesApart' /\ IntrusionHasCause'
    BY <1>2 DEF vars, IInv, OneWithin, StripesApart, IntrusionHasCause
  <2>6. QED BY <1>2, <2>3, <2>4, <2>5 DEF vars, IInv
<1>3. QED BY <1>1, <1>2

(* The methods of all stripes leave the connection and the disk as the       *)
(* inductive invariant says, through every refusal, failure and              *)
(* cancellation.                                                             *)
THEOREM ConnectionHeld == Spec => []IInv
BY InitHolds, StepHolds, PTL DEF Spec

(* For any tasks and stripes: a method is on disk as a whole or not at all,  *)
(* and what it returned or raised is true of the disk, unless a task of      *)
(* another stripe ended its transaction, which takes a create or a cancelled *)
(* COMMIT.                                                                   *)
THEOREM MethodsAreAtomic == Spec => []ConnectionInvariant
<1>1. IInv => ConnectionInvariant
  BY DEF IInv, TaskInv, Undisturbed, ConnectionInvariant, AllOrNothing, ResultIsTrue
<1>2. QED BY <1>1, ConnectionHeld, PTL

-----------------------------------------------------------------------------
(* CellarSync: overlapping imports of one wine, and its generated windows.     *)

(* Where an import stands decides which record it is at.                       *)
Place(t) ==
  /\ t.row # Null <=> t.step \in {"wine", "lookup", "bottle", "note"}
  /\ t.step \in {"wine", "lookup", "bottle"} =>
       t.phase \in {"inventory", "bottles"} /\ t.row \in Bottles /\ t.feed.bottles[t.row] # Null
  /\ t.step = "note" => t.phase = "notes" /\ t.row \in Ratings
  /\ t.step = "next" => t.phase \in {"inventory", "bottles", "notes"}
  /\ t.step \in {"select", "update"} => t.phase = "estimate"
  /\ t.step # "fetch" /\ t.phase \in {"inventory", "bottles"} => \A b \in t.todo : b \in Bottles /\ t.feed.bottles[b] # Null
  /\ t.step # "fetch" /\ t.phase = "notes" => t.todo \subseteq Ratings

(* An import that still counts as alone is the only one.                       *)
Solitude ==
  /\ \A s, t \in Syncs : Running(s) /\ sync[s].alone /\ Running(t) => s = t
  /\ \A s \in Syncs : Running(s) /\ ~overlapped => sync[s].alone

(* What an import that is alone read is still so.                              *)
ReadsStand(s) ==
  /\ sync[s].step = "bottle" => (sync[s].found <=> rows[sync[s].row] # <<>>)
  /\ sync[s].step = "note" => sync[s].seen = rating

(* What a clean import has written so far.                                     *)
Mirrored(s, b) == rows[b] # <<>> /\ rows[b][1] = sync[s].feed.bottles[b]
BottlesMirrored(s) ==
  \A b \in Bottles : sync[s].feed.bottles[b] # Null =>
    \/ Mirrored(s, b)
    \/ sync[s].phase = "inventory"
    \/ sync[s].phase = "bottles" /\ (sync[s].step = "fetch" \/ b \in sync[s].todo \/ b = sync[s].row)
NotesMirrored(s) ==
  \A r \in sync[s].feed.notes :
    \/ window # "absent" => rating >= r
    \/ sync[s].phase \in {"inventory", "bottles"}
    \/ sync[s].phase = "notes" /\ (sync[s].step = "fetch" \/ r \in sync[s].todo \/ r = sync[s].row)
Mirroring ==
  \A s \in Syncs : Running(s) /\ sync[s].alone =>
    ReadsStand(s) /\ (sync[s].errors = 0 => BottlesMirrored(s) /\ NotesMirrored(s))

(* Nobody takes a window for manual that is not, or misses one that is.        *)
Judged(known) == known = "manual" <=> window = "manual"
WindowsJudged ==
  /\ \A s \in Syncs : sync[s].step = "wine" \/ sync[s].step = "update" => Judged(sync[s].known)
  /\ \A s \in Syncs : sync[s].step \in {"select", "update"} => window # "absent"
  /\ \A d \in Describers : describe[d].step \in {"asked", "update"} => Judged(describe[d].known)
  /\ \A d \in Describers : describe[d].step = "asked" => describe[d].known # "absent"
  /\ \A d \in Describers : describe[d].step \in {"asked", "select", "update"} => window # "absent"

(* Imports that looked for a bottle before it had a row, and will add one.     *)
Pending(b) == {s \in Syncs : sync[s].step = "bottle" /\ sync[s].row = b /\ ~sync[s].found}
RowsBounded ==
  /\ \A b \in Bottles : rows[b] # <<>> => Len(rows[b]) + Cardinality(Pending(b)) <= Cardinality(Syncs)
  /\ \A s \in Syncs : sync[s].step = "bottle" /\ sync[s].found => rows[sync[s].row] # <<>>

SyncState ==
  /\ remote \in Remote /\ window \in Known /\ rating \in Ratings \cup {0}
  /\ rows \in [Bottles -> Seq(Statuses)] /\ sync \in [Syncs -> Sync] /\ overlapped \in BOOLEAN
  /\ log \in [Syncs -> {Null, "in_progress", "success", "failed"}]
  /\ describe \in [Describers -> [step: {"idle", "asked", "select", "update", "done"}, known: Known]]
  /\ budget \in [runs: 0..MaxRuns, edits: 0..MaxEdits, faults: 0..MaxFaults]

SyncIInv ==
  /\ SyncState /\ Solitude /\ Mirroring /\ WindowsJudged /\ RowsBounded /\ DuplicatesOnlyFromOverlap
  /\ \A s \in Syncs : Place(sync[s])

-----------------------------------------------------------------------------
(* A window that is manual stays so, none becomes manual, and a wine stays.     *)
WindowStep ==
  \/ window' = window
  \/ window # "manual" /\ window' \in Known \ {"manual", "absent"}

(* Imports can be counted.                                                      *)
LEMMA SyncsFinite ==
  /\ IsFiniteSet(Syncs) /\ Cardinality(Syncs) \in Nat \ {0}
  /\ \A T \in SUBSET Syncs : IsFiniteSet(T) /\ Cardinality(T) \in Nat /\ Cardinality(T) <= Cardinality(Syncs)
<1>1. IsFiniteSet(Syncs) /\ Syncs # {}
  BY CellarAssumption
<1>2. Cardinality(Syncs) \in Nat /\ Cardinality(Syncs) # 0
  BY <1>1, FS_CardinalityType, FS_EmptySet
<1>3. \A T \in SUBSET Syncs : IsFiniteSet(T) /\ Cardinality(T) \in Nat /\ Cardinality(T) <= Cardinality(Syncs)
  BY <1>1, FS_Subset, FS_CardinalityType
<1>4. QED BY <1>1, <1>2, <1>3

(* No value stands for another one.                                             *)
LEMMA NullSources ==
  Null # "manual" /\ Null # "absent" /\ Null \in Known /\ \A s \in Sources : s \in Known /\ s # "absent" /\ s # Null
BY CellarAssumption DEF Known, Sources

(* One import moves, with the others where they were.  It is running, so that   *)
(* no other one counts as alone.                                               *)
LEMMA ImportMoves ==
  ASSUME SyncIInv, NEW s \in Syncs, Running(s), NEW new \in Sync, sync' = [sync EXCEPT ![s] = new], Place(new),
         window' \in Known, rating' \in Ratings \cup {0}, rows' \in [Bottles -> Seq(Statuses)],
         log' \in [Syncs -> {Null, "in_progress", "success", "failed"}],
         budget' \in [runs: 0..MaxRuns, edits: 0..MaxEdits, faults: 0..MaxFaults],
         UNCHANGED <<remote, describe, overlapped>>, WindowStep,
         new.step \in {"wine", "update"} => (new.known = "manual" <=> window' = "manual"),
         new.step \in {"select", "update"} => window' # "absent",
         new.phase # "idle" => new.alone = sync[s].alone,
         new.phase # "idle" /\ new.alone =>
           ReadsStand(s)' /\ (new.errors = 0 => BottlesMirrored(s)' /\ NotesMirrored(s)'),
         \/ rows' = rows /\ (new.step = "bottle" => (new.found <=> rows[new.row] # <<>>))
         \/ RowsBounded' /\ DuplicatesOnlyFromOverlap'
  PROVE  SyncIInv'
<1>1. /\ sync' \in [Syncs -> Sync] /\ sync'[s] = new
      /\ \A t \in Syncs \ {s} : sync'[t] = sync[t]
  BY DEF SyncIInv, SyncState
<1>2. SyncState'
  BY <1>1 DEF SyncIInv, SyncState
<1>3. \A t \in Syncs : Place(sync'[t])
  BY <1>1 DEF SyncIInv
<1>4. \A t \in Syncs : Running(t)' => Running(t) /\ sync'[t].alone = sync[t].alone
  BY <1>1 DEF Running
<1>5. Solitude'
  BY <1>4 DEF SyncIInv, Solitude
<1>6. Mirroring'
  <2>1. \A t \in Syncs \ {s} : ~(Running(t)' /\ sync'[t].alone)
    BY <1>4 DEF SyncIInv, Solitude
  <2>2. sync'[s] = new /\ (Running(s)' <=> new.phase # "idle")
    BY <1>1 DEF Running
  <2>3. \A t \in Syncs : Running(t)' /\ sync'[t].alone => t = s
    BY <2>1
  <2>4. QED BY <2>2, <2>3 DEF Mirroring
<1>7. WindowsJudged'
  <2>1. \A t \in Syncs \ {s} : sync'[t].step \in {"wine", "update"} => (sync'[t].known = "manual" <=> window' = "manual")
    BY <1>1 DEF WindowStep, SyncIInv, WindowsJudged, Judged
  <2>2. \A t \in Syncs \ {s} : sync'[t].step \in {"select", "update"} => window' # "absent"
    BY <1>1 DEF WindowStep, SyncIInv, WindowsJudged
  <2>3. \A d \in Describers : /\ describe'[d].step \in {"asked", "update"} => (describe'[d].known = "manual" <=> window' = "manual")
                              /\ describe'[d].step = "asked" => describe'[d].known # "absent"
                              /\ describe'[d].step \in {"asked", "select", "update"} => window' # "absent"
    BY DEF WindowStep, SyncIInv, WindowsJudged, Judged
  <2>4. QED BY <1>1, <2>1, <2>2, <2>3 DEF WindowsJudged, Judged
<1>8. RowsBounded' /\ DuplicatesOnlyFromOverlap'
  <2>1. SUFFICES ASSUME rows' = rows, new.step = "bottle" => (new.found <=> rows[new.row] # <<>>)
                 PROVE  RowsBounded' /\ DuplicatesOnlyFromOverlap'
    OBVIOUS
  <2>2. ASSUME NEW b \in Bottles, rows[b] # <<>>
        PROVE  Len(rows[b]) + Cardinality(Pending(b)') <= Cardinality(Syncs)
    <3>1. Pending(b)' \subseteq Pending(b)
      BY <1>1, <2>1, <2>2 DEF Pending
    <3>2. IsFiniteSet(Pending(b)) /\ Cardinality(Pending(b)) \in Nat /\ Pending(b) \subseteq Syncs
      BY SyncsFinite DEF Pending
    <3>3. Cardinality(Pending(b)') \in Nat /\ Cardinality(Pending(b)') <= Cardinality(Pending(b))
      BY <3>1, <3>2, FS_Subset, FS_CardinalityType
    <3>4. Len(rows[b]) \in Nat
      BY DEF SyncIInv, SyncState
    <3>5. QED BY <2>2, <3>2, <3>3, <3>4, SyncsFinite DEF SyncIInv, RowsBounded
  <2>3. \A t \in Syncs : sync'[t].step = "bottle" /\ sync'[t].found => rows[sync'[t].row] # <<>>
    BY <1>1, <2>1 DEF SyncIInv, RowsBounded
  <2>4. QED BY <2>1, <2>2, <2>3 DEF SyncIInv, RowsBounded, DuplicatesOnlyFromOverlap
<1>9. QED BY <1>2, <1>3, <1>5, <1>6, <1>7, <1>8 DEF SyncIInv

(* A description moves; the imports and what they write stay.                   *)
LEMMA DescriptionMoves ==
  ASSUME SyncIInv, NEW d \in Describers, NEW new \in [step: {"idle", "asked", "select", "update", "done"}, known: Known],
         describe' = [describe EXCEPT ![d] = new], window' \in Known, WindowStep, window = "absent" => window' = "absent",
         UNCHANGED <<remote, rows, rating, sync, log, budget, overlapped>>,
         new.step \in {"asked", "update"} => (new.known = "manual" <=> window' = "manual"),
         new.step = "asked" => new.known # "absent",
         new.step \in {"asked", "select", "update"} => window' # "absent"
  PROVE  SyncIInv'
<1>1. /\ describe' \in [Describers -> [step: {"idle", "asked", "select", "update", "done"}, known: Known]]
      /\ describe'[d] = new /\ \A e \in Describers \ {d} : describe'[e] = describe[e]
  BY DEF SyncIInv, SyncState
<1>2. SyncState'
  BY <1>1 DEF SyncIInv, SyncState
<1>3. WindowsJudged'
  <2>1. \A t \in Syncs : /\ sync'[t].step \in {"wine", "update"} => (sync'[t].known = "manual" <=> window' = "manual")
                         /\ sync'[t].step \in {"select", "update"} => window' # "absent"
    BY DEF WindowStep, SyncIInv, WindowsJudged, Judged
  <2>2. \A e \in Describers \ {d} :
          /\ describe'[e].step \in {"asked", "update"} => (describe'[e].known = "manual" <=> window' = "manual")
          /\ describe'[e].step = "asked" => describe'[e].known # "absent"
          /\ describe'[e].step \in {"asked", "select", "update"} => window' # "absent"
    BY <1>1 DEF WindowStep, SyncIInv, WindowsJudged, Judged
  <2>3. QED BY <1>1, <2>1, <2>2 DEF WindowsJudged, Judged
<1>4. Mirroring'
  BY DEF WindowStep, SyncIInv, Mirroring, Running, ReadsStand, BottlesMirrored, NotesMirrored, Mirrored
<1>5. Solitude' /\ RowsBounded' /\ DuplicatesOnlyFromOverlap' /\ \A s \in Syncs : Place(sync'[s])
  BY DEF SyncIInv, Solitude, Running, RowsBounded, Pending, DuplicatesOnlyFromOverlap
<1>6. QED BY <1>2, <1>3, <1>4, <1>5 DEF SyncIInv

(* The shape of an import that is running.                                      *)
LEMMA ImportRecord ==
  ASSUME SyncIInv, NEW s \in Syncs
  PROVE  /\ sync[s] \in Sync /\ Place(sync[s]) /\ Null \notin Bottles \cup Ratings
         /\ sync[s].step # "fetch" => Running(s)
         /\ window \in Known /\ rating \in Ratings \cup {0} /\ rows \in [Bottles -> Seq(Statuses)]
         /\ log \in [Syncs -> {Null, "in_progress", "success", "failed"}]
         /\ budget \in [runs: 0..MaxRuns, edits: 0..MaxEdits, faults: 0..MaxFaults]
         /\ remote \in Remote
<1>1. sync[s] \in Sync /\ Place(sync[s])
  BY DEF SyncIInv, SyncState
<1>2. sync[s].step # "fetch" => Running(s)
  BY <1>1 DEF Place, Running, Sync, Steps
<1>3. QED BY <1>1, <1>2, CellarAssumption DEF SyncIInv, SyncState

(* What is left of the bounds after one is used.                                *)
LEMMA BudgetSpent ==
  ASSUME SyncIInv
  PROVE  /\ budget.runs > 0 => [budget EXCEPT !.runs = @ - 1] \in [runs: 0..MaxRuns, edits: 0..MaxEdits, faults: 0..MaxFaults]
         /\ budget.edits > 0 => [budget EXCEPT !.edits = @ - 1] \in [runs: 0..MaxRuns, edits: 0..MaxEdits, faults: 0..MaxFaults]
         /\ budget.faults > 0 => [budget EXCEPT !.faults = @ - 1] \in [runs: 0..MaxRuns, edits: 0..MaxEdits, faults: 0..MaxFaults]
<1>1. budget \in [runs: 0..MaxRuns, edits: 0..MaxEdits, faults: 0..MaxFaults] /\ MaxRuns \in Nat /\ MaxEdits \in Nat /\ MaxFaults \in Nat
  BY CellarAssumption DEF SyncIInv, SyncState
<1>2. QED BY <1>1

(* A feed fetched: its records are all to do.                                   *)
LEMMA FetchKeepsSyncIInv == ASSUME SyncIInv, NEW s \in Syncs, Fetch(s) PROVE SyncIInv'
<1> DEFINE new == [sync[s] EXCEPT !.step = "next", !.feed = FeedOf(s), !.todo = Records(sync[s].phase, remote)]
<1>1. sync[s] \in Sync /\ Place(sync[s]) /\ Running(s) /\ remote \in Remote /\ sync[s].phase \in {"inventory", "bottles", "notes"}
  BY ImportRecord DEF Fetch, Running
<1>2. FeedOf(s) \in Remote
  BY <1>1 DEF FeedOf, Remote, Sync
<1>3. Records(sync[s].phase, remote) \subseteq IF sync[s].phase = "notes" THEN Ratings ELSE Bottles
  BY <1>1 DEF Records, InCellar, Remote
<1>4. new \in Sync
  BY <1>1, <1>2, <1>3 DEF Sync, Steps, Remote
<1>5. sync' = [sync EXCEPT ![s] = new]
  BY DEF Fetch, SyncIInv, SyncState
<1>6. Place(new)
  <2>1. sync[s].phase \in {"inventory", "bottles"} => \A b \in Records(sync[s].phase, remote) : b \in Bottles /\ FeedOf(s).bottles[b] # Null
    BY <1>1, CellarAssumption DEF Records, InCellar, FeedOf, Remote, Sync
  <2>2. sync[s].row = Null
    BY <1>1 DEF Fetch, Place
  <2>3. QED BY <1>1, <1>3, <2>1, <2>2 DEF Place, Sync
<1>7. sync'[s] = new
  BY <1>5 DEF SyncIInv, SyncState
<1>8. ASSUME new.alone, new.errors = 0
      PROVE  BottlesMirrored(s)' /\ NotesMirrored(s)'
  <2>1. BottlesMirrored(s) /\ NotesMirrored(s)
    BY <1>1, <1>8 DEF SyncIInv, Mirroring, Sync
  <2>2. ASSUME sync[s].phase = "notes" PROVE BottlesMirrored(s)' /\ NotesMirrored(s)'
    <3>1. /\ new.feed.bottles = sync[s].feed.bottles /\ new.feed.notes = remote.notes
          /\ new.todo = remote.notes /\ new.phase = "notes" /\ new.step = "next"
      BY <1>1, <2>2 DEF FeedOf, Records, Sync, Remote
    <3>2. BottlesMirrored(s)'
      <4>1. \A b \in Bottles : sync[s].feed.bottles[b] # Null => Mirrored(s, b)
        BY <2>1, <2>2 DEF BottlesMirrored
      <4>2. sync'[s].feed.bottles = sync[s].feed.bottles /\ rows' = rows
        BY <1>7, <3>1 DEF Fetch
      <4>3. QED BY <4>1, <4>2 DEF BottlesMirrored, Mirrored
    <3>3. NotesMirrored(s)'
      BY <1>7, <3>1 DEF NotesMirrored
    <3>4. QED BY <3>2, <3>3
  <2>3. ASSUME sync[s].phase # "notes" PROVE BottlesMirrored(s)' /\ NotesMirrored(s)'
    <3>1. /\ new.feed.bottles = remote.bottles /\ new.phase = sync[s].phase
          /\ new.phase = "bottles" => new.todo = {b \in Bottles : remote.bottles[b] # Null}
          /\ new.phase \in {"inventory", "bottles"}
      BY <1>1, <2>3 DEF FeedOf, Records, Sync, Remote
    <3>2. QED BY <1>7, <3>1 DEF BottlesMirrored, NotesMirrored
  <2>4. QED BY <2>2, <2>3
<1>9. ReadsStand(s)' /\ new.alone = sync[s].alone /\ new.step = "next"
  BY <1>1, <1>7 DEF ReadsStand, Sync
<1>10. QED BY <1>1, <1>4, <1>5, <1>6, <1>8, <1>9, ImportRecord, ImportMoves DEF Fetch, WindowStep

(* The next record, and what was read for it.                                   *)
LEMMA NextRowKeepsSyncIInv == ASSUME SyncIInv, NEW s \in Syncs, NextRow(s) PROVE SyncIInv'
<1>1. sync[s] \in Sync /\ Place(sync[s]) /\ Running(s) /\ sync[s].phase \in {"inventory", "bottles", "notes"}
      /\ sync[s].row = Null /\ sync[s].step = "next" /\ window \in Known /\ rating \in Ratings \cup {0}
  BY ImportRecord DEF NextRow, Place
<1>2. PICK row \in sync[s].todo :
        LET rest == [sync[s] EXCEPT !.todo = @ \ {row}]
        IN  sync' = [sync EXCEPT ![s] =
              IF sync[s].phase # "notes"
              THEN [rest EXCEPT !.row = row, !.step = "wine", !.known = window]
              ELSE IF window = "absent" THEN rest
              ELSE [rest EXCEPT !.row = row, !.step = "note", !.seen = rating]]
  BY DEF NextRow
<1> DEFINE rest == [sync[s] EXCEPT !.todo = @ \ {row}]
<1> DEFINE new == IF sync[s].phase # "notes"
             THEN [rest EXCEPT !.row = row, !.step = "wine", !.known = window]
             ELSE IF window = "absent" THEN rest
             ELSE [rest EXCEPT !.row = row, !.step = "note", !.seen = rating]
<1>3. sync' = [sync EXCEPT ![s] = new] /\ sync'[s] = new
  BY <1>2 DEF SyncIInv, SyncState
<1>4. rest \in Sync /\ row \in Bottles \cup Ratings /\ new \in Sync
  BY <1>1 DEF Sync, Steps
<1>5. /\ new.feed = sync[s].feed /\ new.phase = sync[s].phase /\ new.alone = sync[s].alone /\ new.errors = sync[s].errors
      /\ new.todo = sync[s].todo \ {row}
      /\ IF sync[s].phase # "notes" THEN new.row = row /\ new.step = "wine" /\ new.known = window
         ELSE IF window = "absent" THEN new.row = Null /\ new.step = "next"
         ELSE new.row = row /\ new.step = "note" /\ new.seen = rating
  BY <1>1 DEF Sync
<1>6. Place(new)
  BY <1>1, <1>4, <1>5, CellarAssumption DEF Place
<1>7. ReadsStand(s)'
  BY <1>1, <1>3, <1>5 DEF ReadsStand, NextRow
<1>8. ASSUME new.alone, new.errors = 0
      PROVE  BottlesMirrored(s)' /\ NotesMirrored(s)'
  <2>1. BottlesMirrored(s) /\ NotesMirrored(s)
    BY <1>1, <1>5, <1>8 DEF SyncIInv, Mirroring
  <2>2. BottlesMirrored(s)'
    <3>1. sync[s].phase = "bottles" => new.row = row
      BY <1>5
    <3>2. ASSUME NEW b \in Bottles, sync[s].feed.bottles[b] # Null
          PROVE  Mirrored(s, b) \/ sync[s].phase = "inventory" \/ (sync[s].phase = "bottles" /\ (b \in new.todo \/ b = new.row))
      BY <1>1, <1>5, <2>1, <3>1, <3>2, CellarAssumption DEF BottlesMirrored
    <3>3. QED BY <1>3, <1>5, <3>2 DEF BottlesMirrored, Mirrored, NextRow
  <2>3. NotesMirrored(s)'
    <3>1. ASSUME NEW r \in sync[s].feed.notes
          PROVE  \/ window # "absent" => rating >= r
                 \/ sync[s].phase \in {"inventory", "bottles"}
                 \/ sync[s].phase = "notes" /\ (r \in new.todo \/ r = new.row)
      <4>1. r \in Ratings /\ r # Null
        BY <1>1, CellarAssumption DEF Sync, Remote
      <4>2. QED BY <1>1, <1>5, <2>1, <4>1 DEF NotesMirrored
    <3>2. QED BY <1>3, <1>5, <3>1 DEF NotesMirrored, NextRow
  <2>4. QED BY <2>2, <2>3
<1>9. QED BY <1>1, <1>3, <1>4, <1>5, <1>6, <1>7, <1>8, ImportRecord, ImportMoves DEF NextRow, WindowStep

(* A record done with, and one that failed.                                     *)
LEMMA RowEnds ==
  ASSUME NEW t \in Sync
  PROVE  /\ RowDone(t) \in Sync /\ RowFailed(t) \in Sync /\ RowDone(t).errors = t.errors /\ RowFailed(t).errors # 0
         /\ \A u \in {RowDone(t), RowFailed(t)} :
              u.feed = t.feed /\ u.phase = t.phase /\ u.alone = t.alone /\ u.todo = t.todo /\ u.step = "next" /\ u.row = Null
<1>1. /\ RowDone(t) \in Sync /\ RowDone(t).errors = t.errors /\ RowDone(t).feed = t.feed /\ RowDone(t).phase = t.phase
      /\ RowDone(t).alone = t.alone /\ RowDone(t).todo = t.todo /\ RowDone(t).step = "next" /\ RowDone(t).row = Null
  BY NullSources DEF Sync, Steps, RowDone
<1>2. ASSUME NEW u \in Sync, NEW n \in Nat
      PROVE  /\ [u EXCEPT !.errors = n] \in Sync /\ [u EXCEPT !.errors = n].errors = n
             /\ [u EXCEPT !.errors = n].feed = u.feed /\ [u EXCEPT !.errors = n].phase = u.phase
             /\ [u EXCEPT !.errors = n].alone = u.alone /\ [u EXCEPT !.errors = n].todo = u.todo
             /\ [u EXCEPT !.errors = n].step = u.step /\ [u EXCEPT !.errors = n].row = u.row
  BY DEF Sync
<1>3. t.errors + 1 \in Nat /\ t.errors + 1 # 0
  BY DEF Sync
<1>4. RowFailed(t) = [RowDone(t) EXCEPT !.errors = t.errors + 1]
  BY <1>1 DEF RowFailed
<1>5. QED BY <1>1, <1>2, <1>3, <1>4

(* Bottles mirrored stay so while neither the rows nor the record change.       *)
LEMMA MirrorStands ==
  ASSUME NEW s \in Syncs, BottlesMirrored(s), rows' = rows, sync'[s].feed = sync[s].feed, sync'[s].phase = sync[s].phase,
         sync[s].step # "fetch", sync'[s].todo = sync[s].todo, sync'[s].row = sync[s].row
  PROVE  BottlesMirrored(s)'
<1>1. ASSUME NEW b \in Bottles PROVE Mirrored(s, b)' <=> Mirrored(s, b)
  BY DEF Mirrored
<1>2. QED BY <1>1 DEF BottlesMirrored

(* The wine of a record, created, updated or left.                              *)
LEMMA WriteWineKeepsSyncIInv == ASSUME SyncIInv, NEW s \in Syncs, WriteWine(s) PROVE SyncIInv'
<1>1. sync[s] \in Sync /\ Place(sync[s]) /\ Running(s) /\ sync[s].phase \in {"inventory", "bottles"}
      /\ sync[s].row \in Bottles /\ sync[s].step = "wine" /\ window \in Known /\ Judged(sync[s].known)
  BY ImportRecord DEF WriteWine, Place, SyncIInv, WindowsJudged
<1>2. window' \in Known /\ WindowStep
  <2>1. Offered(s) \in Known \ {"manual", "absent"} /\ (sync[s].known = "manual" => Record(s) = "manual")
    BY NullSources DEF Offered, Record, Known, Sources
  <2>2. CASE window' = window
    BY <1>1, <2>2 DEF WindowStep
  <2>3. CASE sync[s].known = "absent" /\ window = "absent" /\ window' = Offered(s)
    BY <2>1, <2>3 DEF WindowStep
  <2>4. CASE sync[s].known # "absent" /\ window' = UpdatedWindow(Record(s))
    <3>1. CASE window = "manual"
      BY <1>1, <2>1, <2>4, <3>1, NullSources DEF UpdatedWindow, Judged, WindowStep
    <3>2. CASE window # "manual"
      BY <1>1, <2>1, <2>4, <3>2 DEF UpdatedWindow, Judged, WindowStep, Record
    <3>3. QED BY <3>1, <3>2
  <2>5. QED BY <1>1, <2>2, <2>3, <2>4 DEF WriteWine
<1> DEFINE new == IF sync[s].known = "absent" /\ window # "absent" THEN RowFailed(sync[s])
                  ELSE [sync[s] EXCEPT !.step = "lookup", !.known = Null]
<1>3. sync' = [sync EXCEPT ![s] = new] /\ sync'[s] = new
  BY DEF WriteWine, SyncIInv, SyncState
<1>4. /\ new \in Sync /\ new.feed = sync[s].feed /\ new.phase = sync[s].phase
      /\ new.alone = sync[s].alone /\ new.todo = sync[s].todo
      /\ \/ new.step = "next" /\ new.row = Null /\ new.errors # 0
         \/ new.step = "lookup" /\ new.row = sync[s].row /\ new.errors = sync[s].errors
  <2>1. CASE new = RowFailed(sync[s])
    BY <1>1, <2>1, RowEnds
  <2>2. CASE new = [sync[s] EXCEPT !.step = "lookup", !.known = Null]
    BY <1>1, <2>2, NullSources DEF Sync, Steps
  <2>3. QED BY <2>1, <2>2
<1>5. Place(new)
  BY <1>1, <1>4, CellarAssumption DEF Place
<1>6. ReadsStand(s)'
  BY <1>3, <1>4 DEF ReadsStand
<1>7. ASSUME new.alone, new.errors = 0
      PROVE  BottlesMirrored(s)' /\ NotesMirrored(s)'
  <2>1. BottlesMirrored(s) /\ new.row = sync[s].row /\ sync[s].step # "fetch"
    BY <1>1, <1>4, <1>7 DEF SyncIInv, Mirroring
  <2>2. BottlesMirrored(s)'
    BY <1>3, <1>4, <2>1, MirrorStands DEF WriteWine
  <2>3. NotesMirrored(s)'
    BY <1>1, <1>3, <1>4 DEF NotesMirrored
  <2>4. QED BY <2>2, <2>3
<1>8. QED BY <1>1, <1>2, <1>3, <1>4, <1>5, <1>6, <1>7, ImportRecord, ImportMoves DEF WriteWine

(* The bottle is looked up.                                                     *)
LEMMA LookupBottleKeepsSyncIInv == ASSUME SyncIInv, NEW s \in Syncs, LookupBottle(s) PROVE SyncIInv'
<1> DEFINE new == [sync[s] EXCEPT !.step = "bottle", !.found = BottleExists(sync[s].row)]
<1>1. sync[s] \in Sync /\ Place(sync[s]) /\ Running(s) /\ sync[s].phase \in {"inventory", "bottles"}
      /\ sync[s].row \in Bottles /\ sync[s].step = "lookup"
  BY ImportRecord DEF LookupBottle, Place
<1>2. sync' = [sync EXCEPT ![s] = new] /\ sync'[s] = new
  BY DEF LookupBottle, SyncIInv, SyncState
<1>3. /\ new \in Sync /\ new.feed = sync[s].feed /\ new.phase = sync[s].phase
      /\ new.alone = sync[s].alone /\ new.todo = sync[s].todo /\ new.errors = sync[s].errors
      /\ new.step = "bottle" /\ new.row = sync[s].row /\ (new.found <=> rows[sync[s].row] # <<>>)
  BY <1>1 DEF Sync, Steps, BottleExists
<1>4. Place(new)
  BY <1>1, <1>3, CellarAssumption DEF Place
<1>5. ReadsStand(s)'
  BY <1>2, <1>3 DEF ReadsStand, LookupBottle
<1>6. ASSUME new.alone, new.errors = 0
      PROVE  BottlesMirrored(s)' /\ NotesMirrored(s)'
  <2>1. BottlesMirrored(s) /\ sync[s].step # "fetch"
    BY <1>1, <1>3, <1>6 DEF SyncIInv, Mirroring
  <2>2. BottlesMirrored(s)'
    BY <1>2, <1>3, <2>1, MirrorStands DEF LookupBottle
  <2>3. NotesMirrored(s)'
    BY <1>1, <1>2, <1>3 DEF NotesMirrored
  <2>4. QED BY <2>2, <2>3
<1>7. QED BY <1>1, <1>2, <1>3, <1>4, <1>5, <1>6, ImportRecord, ImportMoves DEF LookupBottle, WindowStep

(* A record that fails is counted, and nothing else changes.                    *)
LEMMA FailRowKeepsSyncIInv == ASSUME SyncIInv, NEW s \in Syncs, FailRow(s) PROVE SyncIInv'
<1>1. sync[s] \in Sync /\ Place(sync[s]) /\ Running(s) /\ sync[s].step \in {"wine", "lookup", "bottle", "note"}
  BY ImportRecord DEF FailRow, Place
<1>2. sync' = [sync EXCEPT ![s] = RowFailed(sync[s])] /\ sync'[s] = RowFailed(sync[s])
  BY DEF FailRow, SyncIInv, SyncState
<1>3. budget' \in [runs: 0..MaxRuns, edits: 0..MaxEdits, faults: 0..MaxFaults]
  BY BudgetSpent DEF FailRow
<1>4. /\ RowFailed(sync[s]) \in Sync /\ RowFailed(sync[s]).feed = sync[s].feed /\ RowFailed(sync[s]).phase = sync[s].phase
      /\ RowFailed(sync[s]).alone = sync[s].alone /\ RowFailed(sync[s]).todo = sync[s].todo
      /\ RowFailed(sync[s]).step = "next" /\ RowFailed(sync[s]).row = Null /\ RowFailed(sync[s]).errors # 0
  BY <1>1, RowEnds
<1>5. Place(RowFailed(sync[s]))
  BY <1>1, <1>4 DEF Place
<1>6. ReadsStand(s)'
  BY <1>2, <1>4 DEF ReadsStand
<1>7. QED BY <1>1, <1>2, <1>3, <1>4, <1>5, <1>6, ImportRecord, ImportMoves DEF FailRow, WindowStep

(* A bottle refused by the table's CHECK fails its record.                      *)
LEMMA RefusalKeepsSyncIInv ==
  ASSUME SyncIInv, NEW s \in Syncs, sync[s].step = "bottle", sync' = [sync EXCEPT ![s] = RowFailed(sync[s])],
         UNCHANGED <<remote, window, rows, rating, log, describe, budget, overlapped>>
  PROVE  SyncIInv'
<1>1. sync[s] \in Sync /\ Place(sync[s]) /\ Running(s)
  BY ImportRecord
<1>2. sync'[s] = RowFailed(sync[s])
  BY DEF SyncIInv, SyncState
<1>3. /\ RowFailed(sync[s]) \in Sync /\ RowFailed(sync[s]).feed = sync[s].feed /\ RowFailed(sync[s]).phase = sync[s].phase
      /\ RowFailed(sync[s]).alone = sync[s].alone /\ RowFailed(sync[s]).todo = sync[s].todo
      /\ RowFailed(sync[s]).step = "next" /\ RowFailed(sync[s]).row = Null /\ RowFailed(sync[s]).errors # 0
  BY <1>1, RowEnds
<1>4. Place(RowFailed(sync[s]))
  BY <1>1, <1>3 DEF Place
<1>5. ReadsStand(s)'
  BY <1>2, <1>3 DEF ReadsStand
<1>6. QED BY <1>1, <1>2, <1>3, <1>4, <1>5, ImportRecord, ImportMoves DEF WindowStep

(* The rows of a bottle after it is written.                                    *)
LEMMA BottleRows ==
  ASSUME SyncIInv, NEW s \in Syncs, sync[s].step = "bottle", NEW status \in Statuses,
         rows' = [rows EXCEPT ![sync[s].row] = IF sync[s].found THEN [@ EXCEPT ![1] = status] ELSE Append(@, status)],
         sync[s].found => rows[sync[s].row] # <<>>
  PROVE  /\ rows' \in [Bottles -> Seq(Statuses)] /\ \A b \in Bottles \ {sync[s].row} : rows'[b] = rows[b]
         /\ rows'[sync[s].row] # <<>> /\ Len(rows[sync[s].row]) \in Nat
         /\ Len(rows'[sync[s].row]) = Len(rows[sync[s].row]) + (IF sync[s].found THEN 0 ELSE 1)
         /\ rows[sync[s].row] = <<>> \/ sync[s].found => rows'[sync[s].row][1] = status
<1>1. sync[s].row \in Bottles /\ rows \in [Bottles -> Seq(Statuses)] /\ rows[sync[s].row] \in Seq(Statuses)
  BY ImportRecord DEF Place
<1>2. ASSUME NEW q \in Seq(Statuses), q # <<>>
      PROVE  /\ [q EXCEPT ![1] = status] \in Seq(Statuses) /\ [q EXCEPT ![1] = status] # <<>>
             /\ Len([q EXCEPT ![1] = status]) = Len(q) /\ [q EXCEPT ![1] = status][1] = status
  BY <1>2
<1>3. ASSUME NEW q \in Seq(Statuses)
      PROVE  /\ Append(q, status) \in Seq(Statuses) /\ Append(q, status) # <<>> /\ Len(q) \in Nat
             /\ Len(Append(q, status)) = Len(q) + 1 /\ (q = <<>> => Append(q, status)[1] = status)
  OBVIOUS
<1>4. CASE sync[s].found
  BY <1>1, <1>2, <1>3, <1>4
<1>5. CASE ~sync[s].found
  BY <1>1, <1>3, <1>5
<1>6. QED BY <1>4, <1>5

(* A bottle written: a second row only when another import wrote the first      *)
(* after this one looked.                                                       *)
LEMMA BottleWrittenKeepsSyncIInv ==
  ASSUME SyncIInv, NEW s \in Syncs, sync[s].step = "bottle", sync' = [sync EXCEPT ![s] = RowDone(sync[s])],
         NEW status \in Statuses, sync[s].phase = "bottles" => status = sync[s].feed.bottles[sync[s].row],
         rows' = [rows EXCEPT ![sync[s].row] = IF sync[s].found THEN [@ EXCEPT ![1] = status] ELSE Append(@, status)],
         sync[s].found => rows[sync[s].row] # <<>>,
         UNCHANGED <<remote, window, rating, log, describe, budget, overlapped>>
  PROVE  SyncIInv'
<1> DEFINE b == sync[s].row
<1>1. /\ sync[s] \in Sync /\ Place(sync[s]) /\ Running(s) /\ b \in Bottles /\ b # Null
      /\ sync[s].phase \in {"inventory", "bottles"} /\ rows \in [Bottles -> Seq(Statuses)]
  BY ImportRecord DEF Place
<1>2. /\ rows' \in [Bottles -> Seq(Statuses)] /\ \A c \in Bottles \ {b} : rows'[c] = rows[c]
      /\ rows'[b] # <<>> /\ Len(rows[b]) \in Nat
      /\ Len(rows'[b]) = Len(rows[b]) + (IF sync[s].found THEN 0 ELSE 1)
      /\ rows[b] = <<>> \/ sync[s].found => rows'[b][1] = status
  BY BottleRows
<1>3. /\ sync'[s] = RowDone(sync[s]) /\ \A t \in Syncs \ {s} : sync'[t] = sync[t]
      /\ RowDone(sync[s]) \in Sync /\ RowDone(sync[s]).feed = sync[s].feed /\ RowDone(sync[s]).phase = sync[s].phase
      /\ RowDone(sync[s]).alone = sync[s].alone /\ RowDone(sync[s]).todo = sync[s].todo
      /\ RowDone(sync[s]).step = "next" /\ RowDone(sync[s]).row = Null /\ RowDone(sync[s]).errors = sync[s].errors
  BY <1>1, RowEnds DEF SyncIInv, SyncState
<1>4. Place(RowDone(sync[s]))
  BY <1>1, <1>3 DEF Place
<1>5. ReadsStand(s)'
  BY <1>3 DEF ReadsStand
<1>6. ASSUME sync[s].alone PROVE sync[s].found <=> rows[b] # <<>>
  BY <1>1, <1>6 DEF SyncIInv, Mirroring, ReadsStand
<1>7. ASSUME sync[s].alone, sync[s].errors = 0
      PROVE  BottlesMirrored(s)' /\ NotesMirrored(s)'
  <2>1. BottlesMirrored(s)
    BY <1>1, <1>7 DEF SyncIInv, Mirroring
  <2>2. ASSUME NEW c \in Bottles, sync[s].feed.bottles[c] # Null, sync[s].phase = "bottles"
        PROVE  (rows'[c] # <<>> /\ rows'[c][1] = sync[s].feed.bottles[c]) \/ c \in sync[s].todo
    <3>1. CASE c = b
      BY <1>2, <1>6, <1>7, <2>2, <3>1
    <3>2. CASE c # b
      BY <1>2, <2>1, <2>2, <3>2 DEF BottlesMirrored, Mirrored
    <3>3. QED BY <3>1, <3>2
  <2>3. BottlesMirrored(s)'
    <3>1. sync'[s].feed = sync[s].feed /\ sync'[s].phase = sync[s].phase /\ sync'[s].todo = sync[s].todo
      BY <1>3
    <3>2. QED BY <1>1, <2>2, <3>1 DEF BottlesMirrored, Mirrored
  <2>4. QED BY <1>1, <1>3, <2>3 DEF NotesMirrored
<1>8. RowsBounded'
  <2>1. \A t \in Syncs : sync'[t].step = "bottle" /\ sync'[t].found => rows'[sync'[t].row] # <<>>
    <3>1. \A t \in Syncs : sync[t].step = "bottle" => sync[t].row \in Bottles
      BY ImportRecord DEF Place
    <3>2. \A c \in Bottles : rows[c] # <<>> => rows'[c] # <<>>
      BY <1>2
    <3>3. QED BY <1>3, <3>1, <3>2 DEF SyncIInv, RowsBounded
  <2>2. SUFFICES ASSUME NEW c \in Bottles, rows'[c] # <<>>
                 PROVE  Len(rows'[c]) + Cardinality(Pending(c)') <= Cardinality(Syncs)
    BY <2>1 DEF RowsBounded
  <2>3. Pending(c)' = Pending(c) \ {s}
    BY <1>3 DEF Pending
  <2>4. /\ Cardinality(Pending(c)) \in Nat /\ Cardinality(Pending(c)') \in Nat /\ Cardinality(Syncs) \in Nat
        /\ Cardinality(Pending(c)) <= Cardinality(Syncs)
        /\ s \in Pending(c) => Cardinality(Pending(c)') + 1 = Cardinality(Pending(c))
        /\ s \notin Pending(c) => Pending(c)' = Pending(c)
    <3>1. Pending(c) \subseteq Syncs
      BY DEF Pending
    <3>2. IsFiniteSet(Pending(c)) /\ Cardinality(Pending(c)) \in Nat /\ Cardinality(Pending(c)) <= Cardinality(Syncs)
      BY <3>1, SyncsFinite
    <3>3. IsFiniteSet(Pending(c)') /\ Cardinality(Pending(c)') \in Nat /\ Cardinality(Syncs) \in Nat
      BY <2>3, <3>1, SyncsFinite
    <3>4. ASSUME s \in Pending(c) PROVE Cardinality(Pending(c)') + 1 = Cardinality(Pending(c))
      <4>1. Cardinality(Pending(c) \ {s}) = Cardinality(Pending(c)) - 1
        BY <3>2, <3>4, FS_RemoveElement
      <4>2. QED BY <2>3, <3>2, <4>1
    <3>5. s \notin Pending(c) => Pending(c)' = Pending(c)
      BY <2>3
    <3>6. QED BY <3>2, <3>3, <3>4, <3>5
  <2>5. rows[c] # <<>> => Len(rows[c]) + Cardinality(Pending(c)) <= Cardinality(Syncs)
    BY DEF SyncIInv, RowsBounded
  <2>6. CASE c # b
    <3>1. rows'[c] = rows[c] /\ s \notin Pending(c)
      BY <1>2, <2>6 DEF Pending
    <3>2. rows[c] # <<>> /\ Cardinality(Pending(c)') = Cardinality(Pending(c))
      BY <2>2, <2>4, <3>1
    <3>3. QED BY <2>5, <3>1, <3>2
  <2>7. CASE c = b
    <3>1. s \in Pending(c) <=> ~sync[s].found
      BY <2>7 DEF Pending
    <3>2. rows[b] = <<>> => Len(rows[b]) = 0 /\ ~sync[s].found
      OBVIOUS
    <3>3. QED BY <1>2, <2>4, <2>5, <2>7, <3>1, <3>2
  <2>8. QED BY <2>6, <2>7
<1>9. DuplicatesOnlyFromOverlap'
  <2>1. SUFFICES ASSUME ~overlapped, NEW c \in Bottles PROVE Len(rows'[c]) <= 1
    BY DEF DuplicatesOnlyFromOverlap
  <2>2. Len(rows[c]) <= 1 /\ sync[s].alone
    BY <1>1, <2>1 DEF SyncIInv, DuplicatesOnlyFromOverlap, Solitude
  <2>3. CASE c = b
    <3>1. rows[b] = <<>> => Len(rows[b]) = 0
      OBVIOUS
    <3>2. QED BY <1>2, <1>6, <2>2, <2>3, <3>1
  <2>4. CASE c # b
    BY <1>2, <2>2, <2>4
  <2>5. QED BY <2>3, <2>4
<1>10. QED BY <1>1, <1>2, <1>3, <1>4, <1>5, <1>7, <1>8, <1>9, ImportRecord, ImportMoves DEF WindowStep

(* A bottle refused, or written.                                                *)
LEMMA WriteBottleKeepsSyncIInv == ASSUME SyncIInv, NEW s \in Syncs, WriteBottle(s) PROVE SyncIInv'
<1> DEFINE status == IF sync[s].phase = "inventory" THEN "in_cellar" ELSE sync[s].feed.bottles[sync[s].row]
<1>1. /\ sync[s] \in Sync /\ sync[s].step = "bottle" /\ sync[s].row \in Bottles
      /\ sync[s].phase \in {"inventory", "bottles"} /\ sync[s].feed.bottles[sync[s].row] # Null
  BY ImportRecord DEF WriteBottle, Place
<1>2. status \in Statuses
  BY <1>1 DEF Sync, Remote, Statuses
<1>3. sync[s].found => rows[sync[s].row] # <<>>
  BY <1>1 DEF SyncIInv, RowsBounded
<1>4. sync[s].phase = "bottles" => status = sync[s].feed.bottles[sync[s].row]
  OBVIOUS
<1>5. CASE Refused(s, status)
  BY <1>1, <1>5, RefusalKeepsSyncIInv DEF WriteBottle, Skipped
<1>6. CASE ~Refused(s, status)
  BY <1>1, <1>2, <1>6, <1>3, <1>4, BottleWrittenKeepsSyncIInv DEF WriteBottle
<1>7. QED BY <1>5, <1>6

(* A note written: the rating that was read is the rating unless another import *)
(* wrote it meanwhile, and is then not lowered.                                 *)
LEMMA WriteNoteKeepsSyncIInv == ASSUME SyncIInv, NEW s \in Syncs, WriteNote(s) PROVE SyncIInv'
<1>1. /\ sync[s] \in Sync /\ Place(sync[s]) /\ Running(s) /\ sync[s].phase = "notes" /\ sync[s].row \in Ratings
      /\ sync[s].seen \in Ratings \cup {0} /\ rating \in Ratings \cup {0} /\ Ratings \subseteq Nat \ {0}
      /\ sync[s].step = "note" /\ sync[s].row # Null
  BY ImportRecord, CellarAssumption DEF WriteNote, Place, Sync
<1>2. PICK rewrite \in BOOLEAN :
        rating' = IF rewrite \/ sync[s].row > sync[s].seen THEN RatingOfNote(sync[s].seen, sync[s].row) ELSE rating
  BY DEF WriteNote
<1>3. rating' \in Ratings \cup {0}
  BY <1>1, <1>2 DEF RatingOfNote
<1>4. \A x \in Ratings \cup {0} : x \in Nat
  BY CellarAssumption
<1>5. /\ sync' = [sync EXCEPT ![s] = RowDone(sync[s])] /\ sync'[s] = RowDone(sync[s])
      /\ RowDone(sync[s]) \in Sync /\ RowDone(sync[s]).feed = sync[s].feed /\ RowDone(sync[s]).phase = sync[s].phase
      /\ RowDone(sync[s]).alone = sync[s].alone /\ RowDone(sync[s]).todo = sync[s].todo
      /\ RowDone(sync[s]).step = "next" /\ RowDone(sync[s]).row = Null /\ RowDone(sync[s]).errors = sync[s].errors
  BY <1>1, RowEnds DEF WriteNote, SyncIInv, SyncState
<1>6. Place(RowDone(sync[s]))
  BY <1>1, <1>5 DEF Place
<1>7. ReadsStand(s)'
  BY <1>5 DEF ReadsStand
<1>8. ASSUME sync[s].alone, sync[s].errors = 0
      PROVE  BottlesMirrored(s)' /\ NotesMirrored(s)'
  <2>1. BottlesMirrored(s) /\ NotesMirrored(s) /\ sync[s].seen = rating
    BY <1>1, <1>8 DEF SyncIInv, Mirroring, ReadsStand, WriteNote
  <2>2. BottlesMirrored(s)'
    <3>1. \A b \in Bottles : sync[s].feed.bottles[b] # Null => Mirrored(s, b)
      BY <1>1, <2>1 DEF BottlesMirrored
    <3>2. \A b \in Bottles : Mirrored(s, b)' <=> Mirrored(s, b)
      BY <1>5 DEF Mirrored, WriteNote
    <3>3. QED BY <1>5, <3>1, <3>2 DEF BottlesMirrored
  <2>3. rating' >= rating /\ rating' >= sync[s].row
    <3>1. sync[s].row \in Nat /\ rating \in Nat
      BY <1>1, <1>4
    <3>2. QED BY <1>2, <2>1, <3>1 DEF RatingOfNote
  <2>4. ASSUME NEW r \in sync[s].feed.notes PROVE (window # "absent" => rating' >= r) \/ r \in sync[s].todo
    <3>1. rating \in Nat /\ rating' \in Nat
      BY <1>1, <1>3, <1>4
    <3>2. r \in Ratings
      BY <1>1 DEF Sync, Remote
    <3>3. r \in Nat /\ rating \in Nat /\ rating' \in Nat
      BY <1>4, <3>1, <3>2
    <3>4. (window # "absent" => rating >= r) \/ r \in sync[s].todo \/ r = sync[s].row
      BY <1>1, <2>1 DEF NotesMirrored, WriteNote
    <3>5. QED BY <2>3, <3>3, <3>4
  <2>5. NotesMirrored(s)'
    BY <1>1, <1>5, <2>4 DEF NotesMirrored, WriteNote
  <2>6. QED BY <2>2, <2>5
<1>9. QED BY <1>1, <1>3, <1>5, <1>6, <1>7, <1>8, ImportRecord, ImportMoves DEF WriteNote, WindowStep

(* The end of a phase: nothing is left to do of it.                             *)
LEMMA EndPhaseKeepsSyncIInv == ASSUME SyncIInv, NEW s \in Syncs, EndPhase(s) PROVE SyncIInv'
<1> DEFINE new == [sync[s] EXCEPT !.phase = NextPhase(sync[s].phase), !.step = "fetch"]
<1>1. /\ sync[s] \in Sync /\ Place(sync[s]) /\ Running(s) /\ sync[s].phase \in {"inventory", "bottles", "notes"}
      /\ sync[s].row = Null /\ sync[s].todo = {} /\ sync[s].step = "next" /\ Null \notin Bottles \cup Ratings
  BY ImportRecord DEF EndPhase, Place
<1>2. sync' = [sync EXCEPT ![s] = new] /\ sync'[s] = new
  BY DEF EndPhase, SyncIInv, SyncState
<1>3. /\ new \in Sync /\ new.feed = sync[s].feed /\ new.phase = NextPhase(sync[s].phase) /\ new.alone = sync[s].alone
      /\ new.todo = {} /\ new.step = "fetch" /\ new.row = Null /\ new.errors = sync[s].errors
      /\ NextPhase(sync[s].phase) \in {"bottles", "notes", "estimate"}
      /\ sync[s].phase = "inventory" <=> NextPhase(sync[s].phase) = "bottles"
      /\ sync[s].phase = "notes" <=> NextPhase(sync[s].phase) = "estimate"
  BY <1>1 DEF Sync, Steps, Phases, NextPhase
<1>4. Place(new)
  BY <1>3 DEF Place
<1>5. ReadsStand(s)'
  BY <1>2, <1>3 DEF ReadsStand
<1>6. ASSUME new.alone, new.errors = 0
      PROVE  BottlesMirrored(s)' /\ NotesMirrored(s)'
  <2>1. BottlesMirrored(s) /\ NotesMirrored(s)
    BY <1>1, <1>3, <1>6 DEF SyncIInv, Mirroring
  <2>2. BottlesMirrored(s)'
    <3>1. \A b \in Bottles : sync[s].feed.bottles[b] # Null => Mirrored(s, b) \/ sync[s].phase = "inventory"
      BY <1>1, <2>1 DEF BottlesMirrored
    <3>2. \A b \in Bottles : Mirrored(s, b)' <=> Mirrored(s, b)
      BY <1>2, <1>3 DEF Mirrored, EndPhase
    <3>3. sync'[s].feed = sync[s].feed /\ sync'[s].step = "fetch" /\ (sync[s].phase = "inventory" => sync'[s].phase = "bottles")
      BY <1>2, <1>3
    <3>4. QED BY <3>1, <3>2, <3>3 DEF BottlesMirrored
  <2>3. NotesMirrored(s)'
    <3>1. \A r \in sync[s].feed.notes : r \in Ratings
      BY <1>1 DEF Sync, Remote
    <3>2. \A r \in sync[s].feed.notes : (window # "absent" => rating >= r) \/ sync[s].phase \in {"inventory", "bottles"}
      BY <1>1, <2>1, <3>1 DEF NotesMirrored
    <3>3. /\ sync'[s].feed = sync[s].feed /\ sync'[s].step = "fetch" /\ window' = window /\ rating' = rating
          /\ sync[s].phase \in {"inventory", "bottles"} => sync'[s].phase \in {"bottles", "notes"}
      BY <1>1, <1>2, <1>3 DEF EndPhase
    <3>4. QED BY <3>2, <3>3 DEF NotesMirrored
  <2>4. QED BY <2>2, <2>3
<1>7. QED BY <1>1, <1>2, <1>3, <1>4, <1>5, <1>6, ImportRecord, ImportMoves DEF EndPhase, WindowStep

(* The windows found missing are estimated, and the import ends.                *)
LEMMA EstimateKeepsSyncIInv == ASSUME SyncIInv, NEW s \in Syncs, Estimate(s) PROVE SyncIInv'
<1>1. sync[s] \in Sync /\ Place(sync[s]) /\ Running(s) /\ sync[s].phase = "estimate" /\ sync[s].row = Null
  BY ImportRecord DEF Estimate, Step, Place, Running
<1>2. PICK new \in {[sync[s] EXCEPT !.step = "select"], [sync[s] EXCEPT !.phase = "complete"]} :
        sync' = [sync EXCEPT ![s] = new] /\ (new.step = "select" => window = Null)
  <2>1. [sync[s] EXCEPT !.phase = "complete"].step = "fetch"
    BY <1>1 DEF Estimate, Step, Sync
  <2>2. QED BY <2>1 DEF Estimate, SyncIInv, SyncState
<1>3. /\ new \in Sync /\ new.feed = sync[s].feed /\ new.phase \in {"estimate", "complete"} /\ new.alone = sync[s].alone
      /\ new.row = Null /\ new.errors = sync[s].errors
      /\ (new.step = "select" /\ new.phase = "estimate") \/ new.step = "fetch"
  BY <1>1, <1>2 DEF Sync, Steps, Phases, Estimate, Step
<1>4. Place(new) /\ sync'[s] = new
  BY <1>2, <1>3 DEF Place, SyncIInv, SyncState
<1>5. ReadsStand(s)'
  BY <1>3, <1>4 DEF ReadsStand
<1>6. ASSUME new.alone, new.errors = 0
      PROVE  BottlesMirrored(s)' /\ NotesMirrored(s)'
  <2>1. BottlesMirrored(s) /\ NotesMirrored(s)
    BY <1>1, <1>3, <1>6 DEF SyncIInv, Mirroring
  <2>2. \A b \in Bottles : (sync[s].feed.bottles[b] # Null => Mirrored(s, b)) /\ (Mirrored(s, b)' <=> Mirrored(s, b))
    BY <1>1, <1>3, <1>4, <2>1 DEF BottlesMirrored, Mirrored, Estimate
  <2>3. \A r \in sync[s].feed.notes : window # "absent" => rating >= r
    BY <1>1, <2>1 DEF NotesMirrored
  <2>4. sync'[s].feed = sync[s].feed /\ window' = window /\ rating' = rating
    BY <1>3, <1>4 DEF Estimate
  <2>5. QED BY <2>2, <2>3, <2>4 DEF BottlesMirrored, NotesMirrored
<1>7. QED BY <1>1, <1>2, <1>3, <1>4, <1>5, <1>6, ImportRecord, ImportMoves, NullSources DEF Estimate, WindowStep

(* The estimate reads the window it may replace.                                *)
LEMMA SelectWindowKeepsSyncIInv == ASSUME SyncIInv, NEW s \in Syncs, SelectWindow(s) PROVE SyncIInv'
<1> DEFINE new == [sync[s] EXCEPT !.step = "update", !.known = window]
<1>1. sync[s] \in Sync /\ Place(sync[s]) /\ Running(s) /\ sync[s].phase = "estimate" /\ sync[s].row = Null /\ window \in Known
      /\ window # "absent"
  BY ImportRecord DEF SelectWindow, Step, Place, Running, SyncIInv, WindowsJudged
<1>2. /\ new \in Sync /\ new.feed = sync[s].feed /\ new.phase = "estimate" /\ new.alone = sync[s].alone
      /\ new.row = Null /\ new.errors = sync[s].errors /\ new.step = "update" /\ new.known = window
  BY <1>1 DEF Sync, Steps
<1>3. sync' = [sync EXCEPT ![s] = new] /\ sync'[s] = new
  BY DEF SelectWindow, SyncIInv, SyncState
<1>4. Place(new)
  BY <1>2 DEF Place
<1>5. ReadsStand(s)'
  BY <1>2, <1>3 DEF ReadsStand
<1>6. ASSUME new.alone, new.errors = 0
      PROVE  BottlesMirrored(s)' /\ NotesMirrored(s)'
  <2>1. BottlesMirrored(s) /\ NotesMirrored(s)
    BY <1>1, <1>2, <1>6 DEF SyncIInv, Mirroring
  <2>2. sync'[s].feed = sync[s].feed /\ window' = window /\ rating' = rating /\ rows' = rows
    BY <1>2, <1>3 DEF SelectWindow
  <2>3. \A b \in Bottles : (sync[s].feed.bottles[b] # Null => Mirrored(s, b)) /\ (Mirrored(s, b)' <=> Mirrored(s, b))
    BY <1>1, <2>1, <2>2 DEF BottlesMirrored, Mirrored
  <2>4. \A r \in sync[s].feed.notes : window # "absent" => rating >= r
    BY <1>1, <2>1 DEF NotesMirrored
  <2>5. QED BY <2>3, <2>4, <2>2 DEF BottlesMirrored, NotesMirrored
<1>7. QED BY <1>1, <1>2, <1>3, <1>4, <1>5, <1>6, ImportRecord, ImportMoves DEF SelectWindow, WindowStep

(* What is written over a window: nothing over a manual one that was known.     *)
LEMMA WindowAfterSteps ==
  ASSUME NEW source \in {"heuristic", "llm"}, NEW known, window \in Known, Judged(known)
  PROVE  /\ WindowAfter(source, known) \in Known /\ (window # "absent" => WindowAfter(source, known) # "absent")
         /\ window' = WindowAfter(source, known) => WindowStep
<1>1. known = "manual" => WindowAfter(source, known) = window
  BY DEF WindowAfter, Priority
<1>2. WindowAfter(source, known) \in {window, source} /\ source \in Known \ {"manual", "absent"}
  BY DEF WindowAfter, Known, Sources
<1>3. QED BY <1>1, <1>2 DEF Judged, WindowStep

(* The estimate is written, unless the window read was better.                  *)
LEMMA UpdateWindowKeepsSyncIInv == ASSUME SyncIInv, NEW s \in Syncs, UpdateWindow(s) PROVE SyncIInv'
<1> DEFINE new == [sync[s] EXCEPT !.phase = "complete", !.step = "fetch", !.known = Null]
<1>1. /\ sync[s] \in Sync /\ Place(sync[s]) /\ Running(s) /\ sync[s].phase = "estimate" /\ sync[s].row = Null /\ window \in Known
      /\ Judged(sync[s].known) /\ window # "absent"
  BY ImportRecord DEF UpdateWindow, Step, Place, Running, SyncIInv, WindowsJudged
<1>2. /\ new \in Sync /\ new.feed = sync[s].feed /\ new.phase = "complete" /\ new.alone = sync[s].alone
      /\ new.row = Null /\ new.errors = sync[s].errors /\ new.step = "fetch"
  BY <1>1, NullSources DEF Sync, Steps, Phases
<1>3. sync' = [sync EXCEPT ![s] = new] /\ sync'[s] = new
  BY DEF UpdateWindow, SyncIInv, SyncState
<1>4. Place(new)
  BY <1>2 DEF Place
<1>5. ReadsStand(s)'
  BY <1>2, <1>3 DEF ReadsStand
<1>6. ASSUME new.alone, new.errors = 0
      PROVE  BottlesMirrored(s)' /\ NotesMirrored(s)'
  <2>1. BottlesMirrored(s) /\ NotesMirrored(s)
    BY <1>1, <1>2, <1>6 DEF SyncIInv, Mirroring
  <2>2. sync'[s].feed = sync[s].feed /\ rating' = rating /\ rows' = rows
    BY <1>2, <1>3 DEF UpdateWindow
  <2>3. \A b \in Bottles : (sync[s].feed.bottles[b] # Null => Mirrored(s, b)) /\ (Mirrored(s, b)' <=> Mirrored(s, b))
    BY <1>1, <2>1, <2>2 DEF BottlesMirrored, Mirrored
  <2>4. \A r \in sync[s].feed.notes : rating >= r
    BY <1>1, <2>1 DEF NotesMirrored
  <2>5. QED BY <2>3, <2>4, <2>2 DEF BottlesMirrored, NotesMirrored
<1>7. window' \in Known /\ WindowStep
  BY <1>1, WindowAfterSteps DEF UpdateWindow
<1>8. QED BY <1>1, <1>2, <1>3, <1>4, <1>5, <1>6, <1>7, ImportRecord, ImportMoves DEF UpdateWindow

(* An import that ends, however it does.                                        *)
LEMMA StopKeepsSyncIInv ==
  ASSUME SyncIInv, NEW s \in Syncs, Running(s), sync' = [sync EXCEPT ![s] = IdleSync],
         log' \in [Syncs -> {Null, "in_progress", "success", "failed"}],
         budget' \in [runs: 0..MaxRuns, edits: 0..MaxEdits, faults: 0..MaxFaults],
         UNCHANGED <<remote, window, rows, rating, describe, overlapped>>
  PROVE  SyncIInv'
<1>1. IdleSync \in Sync /\ IdleSync.phase = "idle" /\ IdleSync.step = "fetch" /\ IdleSync.row = Null
  BY NullSources DEF IdleSync, EmptyCellar, Sync, Remote, Phases, Steps
<1>2. Place(IdleSync)
  BY <1>1 DEF Place
<1>3. QED BY <1>1, <1>2, ImportRecord, ImportMoves DEF WindowStep

(* The import is logged and gone.                                               *)
LEMMA CompleteLogKeepsSyncIInv == ASSUME SyncIInv, NEW s \in Syncs, CompleteLog(s) PROVE SyncIInv'
<1>1. Running(s) /\ log' \in [Syncs -> {Null, "in_progress", "success", "failed"}]
  BY ImportRecord DEF CompleteLog, Running
<1>2. QED BY <1>1, ImportRecord, StopKeepsSyncIInv DEF CompleteLog

(* A fetch fails, or the process dies.                                          *)
LEMMA FailureKeepsSyncIInv == ASSUME SyncIInv, NEW s \in Syncs, FailFetch(s) \/ Crash(s) PROVE SyncIInv'
<1>1. Running(s) /\ log' \in [Syncs -> {Null, "in_progress", "success", "failed"}]
  BY ImportRecord DEF FailFetch, Crash, Stop, Running
<1>2. budget' \in [runs: 0..MaxRuns, edits: 0..MaxEdits, faults: 0..MaxFaults]
  BY BudgetSpent DEF FailFetch, Crash, Stop
<1>3. QED BY <1>1, <1>2, StopKeepsSyncIInv DEF FailFetch, Crash, Stop

(* A new import: from here on no other one counts as alone.                     *)
LEMMA StartSyncKeepsSyncIInv == ASSUME SyncIInv, NEW s \in Syncs, StartSync(s) PROVE SyncIInv'
<1> DEFINE others == {t \in Syncs : Running(t)}
<1> DEFINE new == [IdleSync EXCEPT !.phase = "inventory", !.alone = others = {}]
<1>1. \A t \in Syncs : sync[t] \in Sync /\ Place(sync[t])
  BY ImportRecord
<1>2. /\ new \in Sync /\ new.phase = "inventory" /\ new.step = "fetch" /\ new.row = Null /\ new.feed.notes = {}
      /\ new.alone <=> others = {}
  BY NullSources DEF IdleSync, EmptyCellar, Sync, Remote, Phases, Steps
<1>3. ASSUME NEW t \in Syncs
      PROVE  LET u == [sync[t] EXCEPT !.alone = FALSE]
             IN  /\ u \in Sync /\ u.alone = FALSE /\ u.phase = sync[t].phase /\ u.step = sync[t].step /\ u.row = sync[t].row
                 /\ u.feed = sync[t].feed /\ u.todo = sync[t].todo /\ u.known = sync[t].known /\ u.found = sync[t].found
  BY <1>1 DEF Sync
<1>4. sync' = [t \in Syncs |-> IF t = s THEN new ELSE [sync[t] EXCEPT !.alone = FALSE]]
  BY DEF StartSync
<1>5. sync'[s] = new /\ \A t \in Syncs \ {s} : sync'[t] = [sync[t] EXCEPT !.alone = FALSE]
  BY <1>4
<1>6. overlapped' = (overlapped \/ others # {})
  BY DEF StartSync
<1>7. \A t \in Syncs : t \in others <=> Running(t)
  OBVIOUS
<1> HIDE DEF new, others
<1>8. ASSUME NEW t \in Syncs \ {s}
       PROVE  /\ sync'[t] \in Sync /\ sync'[t].alone = FALSE /\ sync'[t].phase = sync[t].phase /\ sync'[t].step = sync[t].step
              /\ sync'[t].row = sync[t].row /\ sync'[t].feed = sync[t].feed /\ sync'[t].todo = sync[t].todo
              /\ sync'[t].known = sync[t].known /\ sync'[t].found = sync[t].found
  BY <1>3, <1>5
<1>9. SyncState'
  <2>1. sync' \in [Syncs -> Sync]
    BY <1>2, <1>3, <1>4
  <2>2. budget' \in [runs: 0..MaxRuns, edits: 0..MaxEdits, faults: 0..MaxFaults]
    BY BudgetSpent DEF StartSync
  <2>3. log' \in [Syncs -> {Null, "in_progress", "success", "failed"}]
    BY ImportRecord DEF StartSync
  <2>4. /\ log' \in [Syncs -> {Null, "in_progress", "success", "failed"}]
        /\ budget' \in [runs: 0..MaxRuns, edits: 0..MaxEdits, faults: 0..MaxFaults] /\ overlapped' \in BOOLEAN
    BY <1>6, <2>2, <2>3 DEF SyncIInv, SyncState
  <2>5. QED BY <2>1, <2>4 DEF StartSync, SyncIInv, SyncState
<1>10. \A t \in Syncs : Place(sync'[t])
  <2>1. Place(new)
    BY <1>2 DEF Place
  <2>2. \A t \in Syncs \ {s} : Place(sync'[t])
    <3>1. ASSUME NEW t \in Syncs \ {s} PROVE Place(sync'[t])
      <4>1. Place(sync[t])
        BY <1>1
      <4>2. QED BY <1>8, <4>1 DEF Place
    <3>2. QED BY <3>1
  <2>3. QED BY <1>5, <2>1, <2>2
<1>11. Solitude'
  <2>1. /\ \A t \in Syncs : Running(t)' /\ sync'[t].alone => t = s
        /\ sync'[s].alone => \A t \in Syncs : Running(t)' => t = s
    <3>1. \A t \in Syncs \ {s} : ~sync'[t].alone /\ (Running(t)' <=> Running(t))
      BY <1>8 DEF Running
    <3>2. sync'[s].alone <=> others = {}
      BY <1>2, <1>5
    <3>3. QED BY <1>7, <3>1, <3>2
  <2>2. ~overlapped' => sync'[s].alone
    BY <1>2, <1>5, <1>6
  <2>3. \A t \in Syncs : Running(t)' /\ ~overlapped' => sync'[t].alone
    <3>1. ~overlapped' => others = {}
      BY <1>6
    <3>2. \A t \in Syncs \ {s} : Running(t)' <=> Running(t)
      BY <1>8 DEF Running
    <3>3. QED BY <1>7, <2>2, <3>1, <3>2
  <2>4. QED BY <2>1, <2>3 DEF Solitude
<1>12. Mirroring'
  <2>1. \A t \in Syncs \ {s} : ~sync'[t].alone
    BY <1>8
  <2>2. sync'[s].phase = "inventory" /\ sync'[s].step = "fetch"
    BY <1>2, <1>5
  <2>3. ReadsStand(s)' /\ BottlesMirrored(s)' /\ NotesMirrored(s)'
    BY <2>2 DEF ReadsStand, BottlesMirrored, NotesMirrored
  <2>4. QED BY <2>1, <2>3 DEF Mirroring
<1>13. \A t \in Syncs : sync'[t].step # "fetch" =>
          /\ t # s /\ sync'[t].step = sync[t].step /\ sync'[t].known = sync[t].known
          /\ sync'[t].row = sync[t].row /\ sync'[t].found = sync[t].found
  BY <1>2, <1>5, <1>8
<1>14. UNCHANGED <<remote, window, rows, rating, describe>>
  BY DEF StartSync
<1>15. WindowsJudged'
  <2>1. \A t \in Syncs : /\ sync'[t].step \in {"wine", "update"} => (sync'[t].known = "manual" <=> window' = "manual")
                         /\ sync'[t].step \in {"select", "update"} => window' # "absent"
    BY <1>13, <1>14 DEF SyncIInv, WindowsJudged, Judged
  <2>2. QED BY <1>14, <2>1 DEF SyncIInv, WindowsJudged, Judged
<1>16. RowsBounded' /\ DuplicatesOnlyFromOverlap'
  <2>1. \A b \in Bottles : Pending(b)' = Pending(b)
    <3>1. \A t \in Syncs : sync[t].step = "bottle" /\ sync'[t].step # "bottle" => t = s
      BY <1>8
    <3>2. sync[s].step = "fetch"
      BY ImportRecord DEF StartSync
    <3>3. QED BY <1>13, <3>1, <3>2 DEF Pending
  <2>2. RowsBounded'
    <3>1. \A t \in Syncs : sync'[t].step = "bottle" /\ sync'[t].found => rows[sync'[t].row] # <<>>
      BY <1>13 DEF SyncIInv, RowsBounded
    <3>2. QED BY <1>14, <2>1, <3>1 DEF SyncIInv, RowsBounded
  <2>3. DuplicatesOnlyFromOverlap'
    BY DEF SyncIInv, DuplicatesOnlyFromOverlap, StartSync
  <2>4. QED BY <2>2, <2>3
<1>17. QED BY <1>9, <1>10, <1>11, <1>12, <1>15, <1>16 DEF SyncIInv

(* The remote cellar is read by a fetch only.                                   *)
LEMMA EditKeepsSyncIInv == ASSUME SyncIInv, Edit PROVE SyncIInv'
<1>1. remote' \in Remote
  <2>1. remote \in Remote
    BY DEF SyncIInv, SyncState
  <2>2. ASSUME NEW b \in Bottles, NEW status \in Statuses, remote' = [remote EXCEPT !.bottles[b] = status]
        PROVE  remote' \in Remote
    <3>1. [remote.bottles EXCEPT ![b] = status] \in [Bottles -> Statuses \cup {Null}]
      BY <2>1 DEF Remote
    <3>2. remote' = [remote EXCEPT !.bottles = [remote.bottles EXCEPT ![b] = status]]
      BY <2>2
    <3>3. QED BY <2>1, <3>1, <3>2 DEF Remote
  <2>3. ASSUME remote' = [remote EXCEPT !.window = ~@] PROVE remote' \in Remote
    BY <2>1, <2>3 DEF Remote
  <2>4. QED BY <2>2, <2>3 DEF Edit
<1>2. budget' \in [runs: 0..MaxRuns, edits: 0..MaxEdits, faults: 0..MaxFaults]
  BY BudgetSpent DEF Edit
<1>3. SyncState'
  BY <1>1, <1>2 DEF Edit, SyncIInv, SyncState
<1>4. /\ Solitude' /\ Mirroring' /\ WindowsJudged' /\ RowsBounded' /\ DuplicatesOnlyFromOverlap'
      /\ \A s \in Syncs : Place(sync'[s])
  BY DEF Edit, SyncIInv, Solitude, Running, Mirroring, ReadsStand, BottlesMirrored, NotesMirrored, Mirrored,
         WindowsJudged, Judged, RowsBounded, Pending, DuplicatesOnlyFromOverlap
<1>5. QED BY <1>3, <1>4 DEF SyncIInv

(* Descriptions: what was read of the window is manual iff the window still is. *)
LEMMA DescriptionKeepsSyncIInv ==
  ASSUME SyncIInv, NEW d \in Describers, ReadWine(d) \/ SaveDescription(d) \/ SelectLlmWindow(d) \/ UpdateLlmWindow(d)
  PROVE  SyncIInv'
<1> DEFINE Description == [step: {"idle", "asked", "select", "update", "done"}, known: Known]
<1>1. describe[d] \in Description /\ window \in Known
  BY DEF SyncIInv, SyncState
<1>2. /\ describe[d].step \in {"asked", "update"} => Judged(describe[d].known)
      /\ describe[d].step = "asked" => describe[d].known # "absent"
      /\ describe[d].step \in {"asked", "select", "update"} => window # "absent"
  BY DEF SyncIInv, WindowsJudged
<1>3. CASE ReadWine(d)
  <2>1. [step |-> "asked", known |-> window] \in Description
    BY <1>1
  <2>2. QED BY <1>1, <1>3, <2>1, DescriptionMoves DEF ReadWine, WindowStep
<1>4. CASE SaveDescription(d)
  <2>1. PICK step \in {"select", "done"} : describe' = [describe EXCEPT ![d].step = step]
    BY <1>4 DEF SaveDescription
  <2>2. window' = UpdatedWindow(describe[d].known) /\ describe[d].step = "asked"
    BY <1>4 DEF SaveDescription
  <2>3. window' \in Known \ {"absent"} /\ WindowStep /\ (window = "absent" => window' = "absent")
    BY <1>1, <1>2, <2>2 DEF UpdatedWindow, WindowStep, Judged
  <2>4. [describe[d] EXCEPT !.step = step] \in Description /\ [describe[d] EXCEPT !.step = step].step = step
    BY <1>1, <2>1
  <2>5. describe' = [describe EXCEPT ![d] = [describe[d] EXCEPT !.step = step]]
    BY <2>1
  <2>6. QED BY <1>4, <2>1, <2>3, <2>4, <2>5, DescriptionMoves DEF SaveDescription
<1>5. CASE SelectLlmWindow(d)
  <2>1. [step |-> "update", known |-> window] \in Description
    BY <1>1
  <2>2. QED BY <1>1, <1>2, <1>5, <2>1, DescriptionMoves DEF SelectLlmWindow, WindowStep
<1>6. CASE UpdateLlmWindow(d)
  <2>1. /\ window' \in Known /\ WindowStep /\ window' # "absent"
        /\ window # "absent"
    BY <1>1, <1>2, <1>6, WindowAfterSteps DEF UpdateLlmWindow
  <2>2. [describe[d] EXCEPT !.step = "done"] \in Description /\ [describe[d] EXCEPT !.step = "done"].step = "done"
    BY <1>1
  <2>3. describe' = [describe EXCEPT ![d] = [describe[d] EXCEPT !.step = "done"]]
    BY <1>6 DEF UpdateLlmWindow
  <2>4. QED BY <1>6, <2>1, <2>2, <2>3, DescriptionMoves DEF UpdateLlmWindow
<1>7. QED BY <1>3, <1>4, <1>5, <1>6

-----------------------------------------------------------------------------
(* The initial states: nothing runs, and a bottle has at most one row.          *)
LEMMA SyncInitHolds == SyncInit => SyncIInv
<1> SUFFICES ASSUME SyncInit PROVE SyncIInv
  OBVIOUS
<1>1. IdleSync \in Sync /\ IdleSync.phase = "idle" /\ IdleSync.step = "fetch" /\ IdleSync.row = Null
  BY NullSources DEF IdleSync, EmptyCellar, Sync, Remote, Phases, Steps
<1>2. \A s \in Syncs : sync[s] = IdleSync
  BY DEF SyncInit
<1>3. rows \in [Bottles -> Seq(Statuses)] /\ \A b \in Bottles : Len(rows[b]) <= 1
  <2>1. \A st \in Statuses : <<st>> \in Seq(Statuses) /\ Len(<<st>>) = 1
    OBVIOUS
  <2>2. <<>> \in Seq(Statuses) /\ Len(<<>>) = 0
    OBVIOUS
  <2>3. rows \in [Bottles -> {<<>>} \cup {<<st>> : st \in Statuses}]
    BY DEF SyncInit
  <2>4. ASSUME NEW b \in Bottles PROVE rows[b] \in Seq(Statuses) /\ Len(rows[b]) <= 1
    <3>1. CASE rows[b] = <<>>
      BY <2>2, <3>1
    <3>2. CASE \E st \in Statuses : rows[b] = <<st>>
      BY <2>1, <3>2
    <3>3. QED BY <2>3, <3>1, <3>2
  <2>5. QED BY <2>3, <2>4
<1>4. SyncState
  <2>1. describe \in [Describers -> [step: {"idle", "asked", "select", "update", "done"}, known: Known]]
    BY NullSources DEF SyncInit
  <2>2. budget \in [runs: 0..MaxRuns, edits: 0..MaxEdits, faults: 0..MaxFaults]
    BY CellarAssumption DEF SyncInit
  <2>3. sync \in [Syncs -> Sync] /\ log \in [Syncs -> {Null, "in_progress", "success", "failed"}]
    BY <1>1 DEF SyncInit
  <2>4. QED BY <1>3, <2>1, <2>2, <2>3 DEF SyncInit, SyncState
<1>5. Solitude /\ Mirroring /\ \A s \in Syncs : Place(sync[s])
  BY <1>1, <1>2 DEF Solitude, Running, Mirroring, Place
<1>6. WindowsJudged
  BY <1>1, <1>2 DEF SyncInit, WindowsJudged
<1>7. RowsBounded
  <2>1. \A b \in Bottles : Pending(b) = {}
    BY <1>1, <1>2 DEF Pending
  <2>2. Cardinality({}) = 0
    BY FS_EmptySet
  <2>3. \A b \in Bottles : Len(rows[b]) + Cardinality(Pending(b)) <= Cardinality(Syncs)
    <3>1. SUFFICES ASSUME NEW b \in Bottles PROVE Len(rows[b]) + Cardinality(Pending(b)) <= Cardinality(Syncs)
      OBVIOUS
    <3>2. Cardinality(Pending(b)) = 0
      BY <2>1, <2>2
    <3>3. Len(rows[b]) \in Nat /\ Len(rows[b]) <= 1
      BY <1>3
    <3>4. QED BY <3>2, <3>3, SyncsFinite
  <2>4. QED BY <1>1, <1>2, <2>3 DEF RowsBounded
<1>8. DuplicatesOnlyFromOverlap
  BY <1>3 DEF DuplicatesOnlyFromOverlap
<1>9. QED BY <1>4, <1>5, <1>6, <1>7, <1>8 DEF SyncIInv

(* Every step keeps the inductive invariant.                                    *)
LEMMA SyncStepKeeps == SyncIInv /\ [SyncNext]_syncVars => SyncIInv'
<1> SUFFICES ASSUME SyncIInv, [SyncNext]_syncVars PROVE SyncIInv'
  OBVIOUS
<1>1. ASSUME NEW s \in Syncs,
             \/ StartSync(s) \/ Fetch(s) \/ NextRow(s) \/ WriteWine(s) \/ LookupBottle(s)
             \/ WriteBottle(s) \/ WriteNote(s) \/ FailRow(s) \/ EndPhase(s) \/ Estimate(s)
             \/ SelectWindow(s) \/ UpdateWindow(s) \/ CompleteLog(s) \/ FailFetch(s) \/ Crash(s)
      PROVE  SyncIInv'
  BY <1>1, StartSyncKeepsSyncIInv, FetchKeepsSyncIInv, NextRowKeepsSyncIInv, WriteWineKeepsSyncIInv, LookupBottleKeepsSyncIInv,
     WriteBottleKeepsSyncIInv, WriteNoteKeepsSyncIInv, FailRowKeepsSyncIInv, EndPhaseKeepsSyncIInv, EstimateKeepsSyncIInv,
     SelectWindowKeepsSyncIInv, UpdateWindowKeepsSyncIInv, CompleteLogKeepsSyncIInv, FailureKeepsSyncIInv
<1>2. CASE UNCHANGED syncVars
  BY <1>2 DEF syncVars, SyncIInv, SyncState, Solitude, Running, Mirroring, ReadsStand, BottlesMirrored, NotesMirrored, Mirrored,
              WindowsJudged, Judged, RowsBounded, Pending, DuplicatesOnlyFromOverlap
<1>3. QED BY <1>1, <1>2, DescriptionKeepsSyncIInv, EditKeepsSyncIInv DEF SyncNext

(* The invariant the run checks follows: an import is complete only when nothing *)
(* of a phase is left to do, and a bottle's rows leave room for those pending.   *)
LEMMA SyncIInvImplies == SyncIInv => CellarInvariant
<1> SUFFICES ASSUME SyncIInv PROVE CellarInvariant
  OBVIOUS
<1>1. SyncTyped
  <2>1. ASSUME NEW b \in Bottles PROVE Len(rows[b]) <= Cardinality(Syncs)
    <3>1. rows[b] \in Seq(Statuses) /\ Len(rows[b]) \in Nat /\ (rows[b] = <<>> => Len(rows[b]) = 0)
      BY DEF SyncIInv, SyncState
    <3>2. Pending(b) \subseteq Syncs
      BY DEF Pending
    <3>3. Cardinality(Pending(b)) \in Nat /\ Cardinality(Syncs) \in Nat
      BY <3>2, SyncsFinite
    <3>4. rows[b] # <<>> => Len(rows[b]) + Cardinality(Pending(b)) <= Cardinality(Syncs)
      BY DEF SyncIInv, RowsBounded
    <3>5. QED BY <3>1, <3>3, <3>4
  <2>2. QED BY <2>1 DEF SyncIInv, SyncState, SyncTyped
<1>2. CleanImportMirrors
  <2>1. SUFFICES ASSUME NEW s \in Syncs, sync[s].phase = "complete", sync[s].errors = 0, sync[s].alone
                 PROVE  /\ \A b \in Bottles : sync[s].feed.bottles[b] # Null =>
                             rows[b] # <<>> /\ rows[b][1] = sync[s].feed.bottles[b]
                        /\ \A r \in sync[s].feed.notes : window # "absent" => rating >= r
    BY DEF CleanImportMirrors
  <2>2. BottlesMirrored(s) /\ NotesMirrored(s)
    BY <2>1 DEF SyncIInv, Mirroring, Running
  <2>3. QED BY <2>1, <2>2 DEF BottlesMirrored, NotesMirrored, Mirrored
<1>3. QED BY <1>1, <1>2 DEF SyncIInv, CellarInvariant

(* The inductive invariant holds throughout.                                    *)
LEMMA SyncIInvHolds == SyncSpec => []SyncIInv
BY SyncInitHolds, SyncStepKeeps, PTL DEF SyncSpec

(* However many imports overlap, fail or crash, and whatever the owner changes   *)
(* meanwhile: an import that ran alone without an error leaves the cellar as it   *)
(* was fetched, and a bottle has two rows only after an overlap.                  *)
THEOREM CellarHolds == SyncSpec => []CellarInvariant
BY SyncIInvHolds, SyncIInvImplies, PTL

-----------------------------------------------------------------------------
(* What the four writers of a window do to it: a lower priority only over a      *)
(* window that the writer did not read.                                         *)
LEMMA WindowAfterYields ==
  ASSUME NEW source \in {"heuristic", "llm"}, window' = WindowAfter(source, window), window \in Known
  PROVE  ~(Priority(window') > Priority(window))
BY DEF WindowAfter, Priority, Known, Sources

LEMMA WindowWrites ==
  ASSUME SyncIInv, SyncNext
  PROVE  /\ window = "manual" => window' = "manual"
         /\ Priority(window') > Priority(window) => \E known \in Writing : known # window
<1> DEFINE Goal == /\ window = "manual" => window' = "manual"
                   /\ Priority(window') > Priority(window) => \E known \in Writing : known # window
<1>1. window \in Known /\ Priority(window) \in Nat
  BY DEF SyncIInv, SyncState, Priority
<1>2. ASSUME window' = window PROVE Goal
  BY <1>1, <1>2
<1>3. ASSUME NEW s \in Syncs, WriteWine(s) PROVE Goal
  <2>1. Judged(sync[s].known)
    BY <1>3 DEF SyncIInv, WindowsJudged, WriteWine
  <2>2. CASE window' = window
    BY <1>2, <2>2
  <2>3. CASE sync[s].known = "absent" /\ window = "absent" /\ window' = Offered(s)
    <3>1. Priority(window) = 99
      BY <2>3 DEF Priority
    <3>2. Priority(window') \in {1, 2, 3, 4, 99}
      BY DEF Priority
    <3>3. QED BY <2>3, <3>1, <3>2
  <2>4. CASE sync[s].known # "absent" /\ window' = UpdatedWindow(Record(s))
    <3>1. CASE window = "manual"
      BY <1>2, <2>1, <2>4, <3>1, NullSources DEF Judged, Record, UpdatedWindow
    <3>2. CASE window # "manual"
      <4>1. window' = window \/ window' = "cellar_tracker"
        BY <2>1, <2>4, <3>2 DEF Judged, Record, UpdatedWindow, Offered
      <4>2. Priority("cellar_tracker") = 2 /\ Priority(window) >= 2
        BY <3>2 DEF Priority
      <4>3. QED BY <1>1, <3>2, <4>1, <4>2
    <3>3. QED BY <3>1, <3>2
  <2>5. QED BY <1>3, <2>2, <2>3, <2>4 DEF WriteWine
<1>4. ASSUME NEW s \in Syncs, UpdateWindow(s) PROVE Goal
  <2>1. Judged(sync[s].known) /\ sync[s].known \in Writing
    BY <1>4 DEF SyncIInv, WindowsJudged, UpdateWindow, Step, Writing
  <2>2. window = "manual" => window' = "manual"
    BY <1>1, <1>4, <2>1, WindowAfterSteps DEF UpdateWindow, WindowStep
  <2>3. QED BY <1>1, <1>4, <2>1, <2>2, WindowAfterYields DEF UpdateWindow
<1>5. ASSUME NEW d \in Describers, SaveDescription(d) PROVE Goal
  <2>1. Judged(describe[d].known) /\ describe[d].known \in Writing
    BY <1>5 DEF SyncIInv, WindowsJudged, SaveDescription, Writing
  <2>2. window = "manual" => window' = "manual"
    BY <1>5, <2>1 DEF SaveDescription, UpdatedWindow, Judged
  <2>3. CASE describe[d].known = window
    BY <1>2, <1>5, <2>3 DEF SaveDescription, UpdatedWindow
  <2>4. QED BY <2>1, <2>2, <2>3
<1>6. ASSUME NEW d \in Describers, UpdateLlmWindow(d) PROVE Goal
  <2>1. Judged(describe[d].known) /\ describe[d].known \in Writing
    BY <1>6 DEF SyncIInv, WindowsJudged, UpdateLlmWindow, Writing
  <2>2. window = "manual" => window' = "manual"
    BY <1>1, <1>6, <2>1, WindowAfterSteps DEF UpdateLlmWindow, WindowStep
  <2>3. QED BY <1>1, <1>6, <2>1, <2>2, WindowAfterYields DEF UpdateLlmWindow
<1>7. \/ window' = window
      \/ \E s \in Syncs : WriteWine(s) \/ UpdateWindow(s)
      \/ \E d \in Describers : SaveDescription(d) \/ UpdateLlmWindow(d)
  BY DEF SyncNext, StartSync, Fetch, NextRow, LookupBottle, WriteBottle, WriteNote, FailRow, EndPhase, Estimate, SelectWindow,
         CompleteLog, FailFetch, Crash, Stop, ReadWine, SelectLlmWindow, Edit
<1>8. QED BY <1>2, <1>3, <1>4, <1>5, <1>6, <1>7

(* An owner's window survives every interleaving of imports, estimates and      *)
(* descriptions, and a better window is lost only to a writer that had read      *)
(* the row before it was written.                                               *)
THEOREM WindowsHold == SyncSpec => WindowsGiveWay
<1>1. SyncIInv /\ [SyncNext]_syncVars => [window = "manual" => window' = "manual"]_window
  BY WindowWrites DEF syncVars
<1>2. SyncIInv /\ [SyncNext]_syncVars =>
        [Priority(window') > Priority(window) => \E known \in Writing : known # window]_window
  BY WindowWrites DEF syncVars
<1>3. SyncSpec => ManualWindowKept
  BY <1>1, SyncIInvHolds, PTL DEF SyncSpec, ManualWindowKept
<1>4. SyncSpec => LoweredOnlyByStaleRead
  BY <1>2, SyncIInvHolds, PTL DEF SyncSpec, LoweredOnlyByStaleRead
<1>5. QED BY <1>3, <1>4 DEF WindowsGiveWay
=============================================================================
