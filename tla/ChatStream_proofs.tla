-------------------------- MODULE ChatStream_proofs --------------------------
(***************************************************************************)
(* Proofs about ChatStream, for any set of tool calls and any capacity of  *)
(* the progress queue: between the queue, the reader task and the          *)
(* generator no event is lost, doubled or invented, and a connected run    *)
(* gets exactly one terminal frame, the last and the true one.             *)
(***************************************************************************)
EXTENDS ChatStream, FiniteSetTheorems, SequenceTheorems, TLAPS

-----------------------------------------------------------------------------
(* The inductive invariant: the generator is at work only before it sent the *)
(* terminal frame and as long as nobody cancelled the execution.             *)
Undisturbed ==
  /\ pc = "wait" => ~Finished
  /\ pc \in {"yield", "wait"} => exec \notin {"cancelling", "cancelled"}

IInv == TypeOK /\ EventsConserved /\ ExactlyOneTerminal /\ Undisturbed

-----------------------------------------------------------------------------
(* Counting an event in a sequence. *)

LEMMA Counted ==
  ASSUME NEW S, NEW s \in Seq(S), NEW e
  PROVE  IsFiniteSet({i \in DOMAIN s : s[i] = e}) /\ CountIn(e, s) \in Nat
<1>1. DOMAIN s = 1..Len(s) /\ Len(s) \in Nat
  OBVIOUS
<1>2. IsFiniteSet(1..Len(s))
  BY <1>1, FS_Interval
<1>3. IsFiniteSet({i \in DOMAIN s : s[i] = e})
  BY <1>1, <1>2, FS_Subset
<1>4. QED BY <1>3, FS_CardinalityType DEF CountIn

LEMMA CountNone == \A e : CountIn(e, <<>>) = 0
<1>1. ASSUME NEW e PROVE CountIn(e, <<>>) = 0
  <2>1. {i \in DOMAIN <<>> : <<>>[i] = e} = {}
    OBVIOUS
  <2>2. QED BY <2>1, FS_EmptySet DEF CountIn
<1>2. QED BY <1>1

LEMMA CountAppend ==
  ASSUME NEW S, NEW s \in Seq(S), NEW f \in S, NEW e
  PROVE  /\ e = f => CountIn(e, Append(s, f)) = CountIn(e, s) + 1
         /\ e # f => CountIn(e, Append(s, f)) = CountIn(e, s)
<1> DEFINE Places(q) == {i \in DOMAIN q : q[i] = e}
<1>1. PICK q, n : q = Append(s, f) /\ n = Len(s)
  OBVIOUS
<1>2. /\ n \in Nat /\ DOMAIN s = 1..n /\ DOMAIN q = 1..n + 1 /\ q[n + 1] = f
      /\ \A i \in 1..n : q[i] = s[i]
  BY <1>1, AppendProperties
<1>3. \A i : i \in 1..n + 1 <=> (i \in 1..n \/ i = n + 1)
  BY <1>2
<1>4. n + 1 \notin 1..n
  BY <1>2
<1>5. CASE e = f
  <2>1. Places(q) = Places(s) \cup {n + 1} /\ n + 1 \notin Places(s)
    BY <1>2, <1>3, <1>4, <1>5
  <2>2. IsFiniteSet(Places(s))
    BY Counted
  <2>3. PICK P : P = Places(s)
    OBVIOUS
  <2>4. Cardinality(P \cup {n + 1}) = Cardinality(P) + 1
    BY <2>1, <2>2, <2>3, FS_AddElement
  <2>5. Cardinality(Places(q)) = Cardinality(Places(s)) + 1
    BY <2>1, <2>3, <2>4
  <2>6. QED BY <1>1, <1>5, <2>5 DEF CountIn
<1>6. CASE e # f
  <2>1. Places(q) = Places(s)
    BY <1>2, <1>3, <1>4, <1>6
  <2>2. QED BY <1>1, <1>6, <2>1 DEF CountIn
<1>7. QED BY <1>5, <1>6

LEMMA CountOne ==
  ASSUME NEW f, NEW e
  PROVE  /\ e = f => CountIn(e, <<f>>) = 1
         /\ e # f => CountIn(e, <<f>>) = 0
<1>1. <<>> \in Seq({f}) /\ Append(<<>>, f) = <<f>>
  OBVIOUS
<1>2. PICK s : s = <<>>
  OBVIOUS
<1>3. CountIn(e, s) = 0 /\ s \in Seq({f}) /\ Append(s, f) = <<f>>
  BY <1>1, <1>2, CountNone
<1>4. /\ e = f => CountIn(e, Append(s, f)) = CountIn(e, s) + 1
      /\ e # f => CountIn(e, Append(s, f)) = CountIn(e, s)
  BY <1>3, CountAppend
<1>5. QED BY <1>3, <1>4

LEMMA CountTail ==
  ASSUME NEW S, NEW s \in Seq(S), s # <<>>, NEW e
  PROVE  /\ Tail(s) \in Seq(S) /\ Head(s) \in S /\ Len(Tail(s)) = Len(s) - 1
         /\ e = Head(s) => CountIn(e, s) = CountIn(e, Tail(s)) + 1
         /\ e # Head(s) => CountIn(e, s) = CountIn(e, Tail(s))
<1> DEFINE Places(q) == {i \in DOMAIN q : q[i] = e}
<1>1. PICK q, n, h : q = Tail(s) /\ n = Len(s) /\ h = Head(s)
  OBVIOUS
<1>2. /\ q \in Seq(S) /\ h \in S /\ Len(q) = n - 1 /\ n \in Nat /\ n # 0
      /\ DOMAIN s = 1..n /\ DOMAIN q = 1..n - 1 /\ h = s[1]
      /\ \A i \in 1..n - 1 : q[i] = s[i + 1]
  BY <1>1, HeadTailProperties, EmptySeq
<1> DEFINE Shifted == {i + 1 : i \in Places(q)}
           shift == [i \in Places(q) |-> i + 1]
<1>3. Cardinality(Shifted) = Cardinality(Places(q)) /\ IsFiniteSet(Shifted)
  <2>1. \A i \in Places(q) : i \in Nat
    BY <1>2
  <2>2. shift \in [Places(q) -> Shifted] /\ \A i \in Places(q) : shift[i] = i + 1
    OBVIOUS
  <2>3. shift \in Bijection(Places(q), Shifted)
    <3>1. \A i, j \in Places(q) : shift[i] = shift[j] => i = j
      BY <2>1, <2>2
    <3>2. \A k \in Shifted : \E i \in Places(q) : shift[i] = k
      BY <2>2
    <3>3. QED BY <2>2, <3>1, <3>2 DEF Bijection, Injection, Surjection, IsInjective
  <2>4. IsFiniteSet(Places(q))
    BY <1>2, Counted
  <2>5. QED BY <2>3, <2>4, FS_Bijection DEF ExistsBijection
<1>4. Places(s) \ {1} = Shifted /\ 1 \notin Shifted
  <2>1. ASSUME NEW k \in Places(s), k # 1
        PROVE  k \in Shifted
    <3>1. k - 1 \in 1..n - 1 /\ (k - 1) + 1 = k
      BY <1>2, <2>1
    <3>2. k - 1 \in Places(q)
      BY <1>2, <2>1, <3>1
    <3>3. QED BY <3>1, <3>2
  <2>2. ASSUME NEW i \in Places(q)
        PROVE  i + 1 \in Places(s) /\ i + 1 # 1
    <3>1. i \in 1..n - 1 /\ q[i] = e
      BY <1>2
    <3>2. i + 1 \in 1..n /\ i + 1 # 1 /\ s[i + 1] = e
      BY <1>2, <3>1
    <3>3. QED BY <1>2, <3>2
  <2>3. QED BY <2>1, <2>2
<1>5. CASE e = h
  <2>1. 1 \in Places(s) /\ Places(s) = Shifted \cup {1}
    BY <1>2, <1>4, <1>5
  <2>2. Cardinality(Places(s)) = Cardinality(Shifted) + 1
    BY <1>3, <1>4, <2>1, FS_AddElement
  <2>3. QED BY <1>1, <1>2, <1>3, <1>5, <2>2 DEF CountIn
<1>6. CASE e # h
  <2>1. Places(s) = Shifted
    BY <1>2, <1>4, <1>6
  <2>2. QED BY <1>1, <1>2, <1>3, <1>6, <2>1 DEF CountIn
<1>7. QED BY <1>5, <1>6

-----------------------------------------------------------------------------
(* Where the events are. *)

LEMMA Typed ==
  ASSUME TypeOK
  PROVE  /\ sent \in Seq(Event \cup Terminals) /\ queue \in Seq(Event) /\ held \in Seq(Event)
         /\ Capacity \in Nat /\ Len(queue) \in Nat
         /\ \A e : /\ CountIn(e, sent) \in Nat /\ CountIn(e, queue) \in Nat
                   /\ CountIn(e, held) \in Nat
<1>1. sent \in Seq(Event \cup Terminals) /\ queue \in Seq(Event)
  BY DEF TypeOK
<1>2. held \in Seq(Event)
  <2>1. held = <<>> \/ \E e \in Event : held = <<e>>
    BY DEF TypeOK
  <2>2. \A e \in Event : <<e>> \in Seq(Event)
    OBVIOUS
  <2>3. CASE held = <<>>
    BY <2>3
  <2>4. CASE \E e \in Event : held = <<e>>
    <3>1. PICK e \in Event : held = <<e>>
      BY <2>4
    <3>2. QED BY <2>2, <3>1
  <2>5. QED BY <2>1, <2>3, <2>4
<1>3. \A e : CountIn(e, sent) \in Nat
  BY <1>1, Counted
<1>4. \A e : CountIn(e, queue) \in Nat
  BY <1>1, Counted
<1>5. \A e : CountIn(e, held) \in Nat
  BY <1>2, Counted
<1>6. Len(queue) \in Nat
  BY <1>1, LenProperties
<1>7. QED BY <1>1, <1>2, <1>3, <1>4, <1>5, <1>6, CapacityAssumption

LEMMA TerminalIsNoEvent == \A e \in Event : e \notin Terminals
BY NullAssumption DEF Event, Terminals

(* A tool offers a new event: it is queued, or counted as dropped.           *)
LEMMA OfferKeeps ==
  ASSUME TypeOK, EventsConserved, NEW ev \in Event, ev \notin Offered, Offer(ev),
         Offered' = Offered \cup {ev}, UNCHANGED <<held, sent>>
  PROVE  /\ EventsConserved'
         /\ queue' \in Seq(Event) /\ Len(queue') <= Capacity /\ dropped' \subseteq Event
         /\ reader' \in {"none", "ready", "waiting", "done"} /\ (ReaderDone' <=> ReaderDone)
<1>1. \A e : CountIn(e, sent) \in Nat /\ CountIn(e, queue) \in Nat /\ CountIn(e, held) \in Nat
  BY Typed
<1>2. CountIn(ev, sent) = 0 /\ CountIn(ev, queue) = 0 /\ CountIn(ev, held) = 0 /\ ev \notin dropped
  <2>1. CountIn(ev, sent) + CountIn(ev, queue) + CountIn(ev, held) + One(ev \in dropped) = 0
    BY DEF EventsConserved, One
  <2>2. CASE ev \in dropped
    BY <1>1, <2>1, <2>2 DEF One
  <2>3. CASE ev \notin dropped
    <3>1. CountIn(ev, sent) + CountIn(ev, queue) + CountIn(ev, held) = 0
      BY <1>1, <2>1, <2>3 DEF One
    <3>2. QED BY <1>1, <2>3, <3>1
  <2>4. QED BY <2>2, <2>3
<1>3. \A e \in Event : e # ev => One(e \in Offered') = One(e \in Offered)
  BY DEF One
<1>4. One(ev \in Offered') = 1
  BY DEF One
<1>5. \A e : CountIn(e, sent') = CountIn(e, sent) /\ CountIn(e, held') = CountIn(e, held)
  OBVIOUS
<1>6. CASE /\ Len(queue) < Capacity
           /\ queue' = Append(queue, ev)
           /\ reader' = IF reader = "waiting" THEN "ready" ELSE reader
           /\ UNCHANGED dropped
  <2>1. CountIn(ev, queue') = CountIn(ev, queue) + 1
    BY <1>6, Typed, CountAppend
  <2>2. \A e : e # ev => CountIn(e, queue') = CountIn(e, queue)
    BY <1>6, Typed, CountAppend
  <2>3. queue' \in Seq(Event) /\ Len(queue') = Len(queue) + 1
    BY <1>6, Typed, AppendProperties
  <2>4. ASSUME NEW e \in Event
        PROVE  CountIn(e, sent') + CountIn(e, queue') + CountIn(e, held') + One(e \in dropped')
                 = One(e \in Offered')
    <3>1. CASE e = ev
      <4>1. One(ev \in dropped') = 0
        BY <1>2, <1>6 DEF One
      <4>2. CountIn(ev, sent') = 0 /\ CountIn(ev, queue') = 1 /\ CountIn(ev, held') = 0
        BY <1>2, <1>5, <2>1
      <4>3. QED BY <1>4, <3>1, <4>1, <4>2
    <3>2. CASE e # ev
      <4>1. One(e \in dropped') = One(e \in dropped)
        BY <1>6
      <4>2. CountIn(e, queue') = CountIn(e, queue)
        BY <2>2, <3>2
      <4>3. QED BY <1>3, <1>5, <3>2, <4>1, <4>2 DEF EventsConserved
    <3>3. QED BY <3>1, <3>2
  <2>5. EventsConserved'
    BY <2>4 DEF EventsConserved
  <2>6. Len(queue') <= Capacity
    BY <1>6, <2>3, Typed
  <2>7. dropped' \subseteq Event /\ reader' \in {"none", "ready", "waiting", "done"}
    BY <1>6 DEF TypeOK
  <2>8. ReaderDone' <=> ReaderDone
    BY <1>6 DEF ReaderDone
  <2>9. QED BY <2>3, <2>5, <2>6, <2>7, <2>8
<1>7. CASE /\ Len(queue) >= Capacity
           /\ dropped' = dropped \cup {ev}
           /\ UNCHANGED <<queue, reader>>
  <2>1. ASSUME NEW e \in Event
        PROVE  CountIn(e, sent') + CountIn(e, queue') + CountIn(e, held') + One(e \in dropped')
                 = One(e \in Offered')
    <3>1. CASE e = ev
      <4>1. One(ev \in dropped') = 1
        BY <1>7 DEF One
      <4>2. CountIn(ev, sent') = 0 /\ CountIn(ev, queue') = 0 /\ CountIn(ev, held') = 0
        BY <1>2, <1>5, <1>7
      <4>3. QED BY <1>4, <3>1, <4>1, <4>2
    <3>2. CASE e # ev
      <4>1. One(e \in dropped') = One(e \in dropped)
        BY <1>7, <3>2 DEF One
      <4>2. CountIn(e, queue') = CountIn(e, queue)
        BY <1>7
      <4>3. QED BY <1>3, <1>5, <3>2, <4>1, <4>2 DEF EventsConserved
    <3>3. QED BY <3>1, <3>2
  <2>2. EventsConserved'
    BY <2>1 DEF EventsConserved
  <2>3. QED BY <1>7, <2>2 DEF TypeOK, ReaderDone
<1>8. QED BY <1>6, <1>7 DEF Offer

(* An event moves from the queue, or from the reader's hand, to the next     *)
(* place; what is sent besides is no event.                                  *)
LEMMA MoveKeeps ==
  ASSUME TypeOK, EventsConserved, UNCHANGED <<tool, dropped>>,
         \A e \in Event : CountIn(e, sent') + CountIn(e, queue') + CountIn(e, held')
                            = CountIn(e, sent) + CountIn(e, queue) + CountIn(e, held)
  PROVE  EventsConserved'
<1>1. ASSUME NEW e \in Event
      PROVE  CountIn(e, sent') + CountIn(e, queue') + CountIn(e, held') + One(e \in dropped')
               = One(e \in Offered')
  <2>1. Offered' = Offered
    BY DEF Offered
  <2>2. QED BY <1>1, <2>1 DEF EventsConserved
<1>2. QED BY <1>1 DEF EventsConserved

-----------------------------------------------------------------------------
(* The end of the stream. *)

LEMMA FinishedKept ==
  ASSUME sent' = sent
  PROVE  Finished' = Finished
BY DEF Finished

LEMMA FrameSent ==
  ASSUME TypeOK, ExactlyOneTerminal, ~Finished, NEW f \in Event \cup Terminals,
         sent' = Append(sent, f)
  PROVE  /\ sent' \in Seq(Event \cup Terminals) /\ sent'[Len(sent')] = f
         /\ Finished' <=> f \in Terminals
         /\ \A i \in DOMAIN sent' : sent'[i] \in Terminals => i = Len(sent')
<1>1. PICK n, s : n = Len(sent) /\ s = sent'
  OBVIOUS
<1>2. /\ s \in Seq(Event \cup Terminals) /\ s # <<>> /\ Len(s) = n + 1 /\ s[n + 1] = f /\ n \in Nat
      /\ DOMAIN sent = 1..n /\ DOMAIN s = 1..n + 1 /\ \A i \in 1..n : s[i] = sent[i]
  BY <1>1, Typed, AppendProperties
<1>3. \A i \in 1..n : sent[i] \notin Terminals
  <2>1. ASSUME NEW i \in 1..n, sent[i] \in Terminals
        PROVE  FALSE
    <3>1. i = n /\ sent # <<>>
      BY <1>1, <1>2, <2>1 DEF ExactlyOneTerminal
    <3>2. QED BY <1>1, <2>1, <3>1 DEF Finished
  <2>2. QED BY <2>1
<1>4. \A i \in 1..n + 1 : i \in 1..n \/ i = n + 1
  BY <1>2
<1>5. QED BY <1>1, <1>2, <1>3, <1>4 DEF Finished

(* While the execution runs, or unwinds, the terminal frame is to come.      *)
LEMMA Unfinished ==
  ASSUME ExactlyOneTerminal, exec \in {"running", "cancelling", "cancelled"} \/ queue # <<>>
  PROVE  ~Finished
BY DEF ExactlyOneTerminal

-----------------------------------------------------------------------------
(* The tools and the execution. *)

LEMMA OfferHolds ==
  ASSUME IInv, NEW ev \in Event, ev \notin Offered, Offer(ev), Offered' = Offered \cup {ev},
         exec = "running", tool' \in [Calls -> {"new", "running", "ended"}],
         UNCHANGED <<exec, held, pc, sent, gone>>
  PROVE  IInv'
<1>1. /\ EventsConserved'
      /\ queue' \in Seq(Event) /\ Len(queue') <= Capacity /\ dropped' \subseteq Event
      /\ reader' \in {"none", "ready", "waiting", "done"}
      /\ ReaderDone' <=> ReaderDone
  BY OfferKeeps DEF IInv
<1>2. TypeOK'
  BY <1>1 DEF IInv, TypeOK
<1>3. ~Finished /\ Finished' = Finished
  BY Unfinished, FinishedKept DEF IInv
<1>4. ExactlyOneTerminal'
  BY <1>3 DEF IInv, ExactlyOneTerminal
<1>5. Undisturbed'
  BY <1>3 DEF IInv, Undisturbed
<1>6. QED BY <1>1, <1>2, <1>4, <1>5 DEF IInv

LEMMA ToolHolds ==
  ASSUME IInv, NEW c \in Calls, ToolStarts(c) \/ ToolFinishes(c)
  PROVE  IInv'
<1>1. /\ exec = "running"
      /\ UNCHANGED <<exec, held, pc, sent, gone>>
      /\ tool \in [Calls -> {"new", "running", "ended"}]
      /\ tool' \in [Calls -> {"new", "running", "ended"}]
  BY DEF IInv, TypeOK, ToolStarts, ToolFinishes
<1>2. CASE ToolStarts(c)
  <2>1. PICK ev : ev = <<c, "started">>
    OBVIOUS
  <2>2. ev \in Event /\ ev \notin Offered
    BY <1>2, <2>1 DEF Event, Offered, ToolStarts
  <2>3. tool' = [tool EXCEPT ![c] = "running"] /\ tool[c] = "new"
    BY <1>2 DEF ToolStarts
  <2>4. /\ {d \in Calls : tool'[d] # "new"} = {d \in Calls : tool[d] # "new"} \cup {c}
        /\ {d \in Calls : tool'[d] = "ended"} = {d \in Calls : tool[d] = "ended"}
    BY <1>1, <2>3
  <2>5. Offered' = Offered \cup {ev}
    BY <2>1, <2>4 DEF Offered
  <2>6. Offer(ev)
    BY <1>2, <2>1 DEF ToolStarts
  <2>7. QED BY <1>1, <2>2, <2>5, <2>6, OfferHolds
<1>3. CASE ToolFinishes(c)
  <2>1. PICK ev : ev = <<c, "finished">>
    OBVIOUS
  <2>2. ev \in Event /\ ev \notin Offered
    BY <1>3, <2>1 DEF Event, Offered, ToolFinishes
  <2>3. tool' = [tool EXCEPT ![c] = "ended"] /\ tool[c] = "running"
    BY <1>3 DEF ToolFinishes
  <2>4. /\ {d \in Calls : tool'[d] # "new"} = {d \in Calls : tool[d] # "new"}
        /\ {d \in Calls : tool'[d] = "ended"} = {d \in Calls : tool[d] = "ended"} \cup {c}
    BY <1>1, <2>3
  <2>5. Offered' = Offered \cup {ev}
    BY <2>1, <2>4 DEF Offered
  <2>6. Offer(ev)
    BY <1>3, <2>1 DEF ToolFinishes
  <2>7. QED BY <1>1, <2>2, <2>5, <2>6, OfferHolds
<1>4. QED BY <1>2, <1>3

LEMMA EndHolds ==
  ASSUME IInv, ExecutionEnds
  PROVE  IInv'
<1>1. /\ UNCHANGED <<tool, queue, dropped, reader, held, pc, sent, gone>>
      /\ exec \in {"running", "cancelling"}
      /\ exec' \in Over
      /\ exec' = "cancelled" => exec = "cancelling"
  BY DEF ExecutionEnds, Over
<1>2. TypeOK'
  BY <1>1 DEF IInv, TypeOK, ReaderDone
<1>3. EventsConserved'
  BY <1>1, MoveKeeps DEF IInv
<1>4. ~Finished /\ Finished' = Finished
  BY <1>1, Unfinished, FinishedKept DEF IInv
<1>5. ExactlyOneTerminal'
  BY <1>1, <1>4 DEF IInv, ExactlyOneTerminal
<1>6. Undisturbed'
  BY <1>1, <1>4 DEF IInv, Undisturbed, Over
<1>7. QED BY <1>2, <1>3, <1>5, <1>6 DEF IInv

-----------------------------------------------------------------------------
(* The reader task takes the head of the queue into its hand. *)

LEMMA HeadTaken ==
  ASSUME TypeOK, queue # <<>>, queue' = Tail(queue)
  PROVE  /\ queue' \in Seq(Event) /\ Len(queue') <= Capacity /\ Head(queue) \in Event
         /\ \A e : e = Head(queue) => CountIn(e, queue) = CountIn(e, queue') + 1
         /\ \A e : e # Head(queue) => CountIn(e, queue) = CountIn(e, queue')
         /\ \A e : CountIn(e, queue') \in Nat
<1>1. /\ queue \in Seq(Event) /\ Len(queue) \in Nat /\ Capacity \in Nat
      /\ Len(queue) <= Capacity
  BY Typed DEF TypeOK
<1>2. Tail(queue) \in Seq(Event) /\ Head(queue) \in Event /\ Len(Tail(queue)) = Len(queue) - 1
  BY <1>1, CountTail
<1>3. ASSUME NEW e
      PROVE  /\ e = Head(queue) => CountIn(e, queue) = CountIn(e, Tail(queue)) + 1
             /\ e # Head(queue) => CountIn(e, queue) = CountIn(e, Tail(queue))
             /\ CountIn(e, Tail(queue)) \in Nat
  BY <1>1, <1>2, CountTail, Counted
<1>4. PICK q : q = Tail(queue)
  OBVIOUS
<1>5. \A e : /\ e = Head(queue) => CountIn(e, queue) = CountIn(e, q) + 1
             /\ e # Head(queue) => CountIn(e, queue) = CountIn(e, q)
             /\ CountIn(e, q) \in Nat
  BY <1>3, <1>4
<1>6. \A e : CountIn(e, queue') = CountIn(e, q)
  BY <1>4
<1>7. QED BY <1>1, <1>2, <1>4, <1>5, <1>6

LEMMA ReadHolds ==
  ASSUME IInv, ReadEvent
  PROVE  IInv'
<1>1. /\ reader = "ready" /\ held = <<>>
      /\ UNCHANGED <<tool, exec, dropped, pc, sent, gone>>
  BY DEF ReadEvent, IInv, TypeOK, ReaderDone
<1>2. Finished' = Finished
  BY <1>1, FinishedKept
<1>3. Undisturbed'
  BY <1>1, <1>2 DEF IInv, Undisturbed
<1>4. CASE queue = <<>>
  <2>1. reader' = "waiting" /\ UNCHANGED <<queue, held>>
    BY <1>4 DEF ReadEvent
  <2>2. TypeOK'
    BY <1>1, <2>1 DEF IInv, TypeOK, ReaderDone
  <2>3. EventsConserved'
    BY <1>1, <2>1, MoveKeeps DEF IInv
  <2>4. ExactlyOneTerminal'
    BY <1>1, <1>2, <2>1 DEF IInv, ExactlyOneTerminal
  <2>5. QED BY <1>3, <2>2, <2>3, <2>4 DEF IInv
<1>5. CASE queue # <<>>
  <2>1. reader' = "done" /\ held' = <<Head(queue)>> /\ queue' = Tail(queue)
    BY <1>5 DEF ReadEvent
  <2>2. /\ queue' \in Seq(Event) /\ Len(queue') <= Capacity /\ Head(queue) \in Event
        /\ \A e : e = Head(queue) => CountIn(e, queue) = CountIn(e, queue') + 1
        /\ \A e : e # Head(queue) => CountIn(e, queue) = CountIn(e, queue')
        /\ \A e : CountIn(e, queue') \in Nat
    BY <1>5, <2>1, HeadTaken DEF IInv
  <2>3. TypeOK'
    <3>1. held' \in {<<e>> : e \in Event} /\ held' # <<>>
      BY <2>1, <2>2
    <3>2. QED BY <1>1, <2>1, <2>2, <3>1 DEF IInv, TypeOK, ReaderDone
  <2>4. \A e : /\ e = Head(queue) => CountIn(e, held') = 1
               /\ e # Head(queue) => CountIn(e, held') = 0
    BY <2>1, CountOne
  <2>5. EventsConserved'
    <3>1. ASSUME NEW e \in Event
          PROVE  CountIn(e, sent') + CountIn(e, queue') + CountIn(e, held')
                   = CountIn(e, sent) + CountIn(e, queue) + CountIn(e, held)
      <4>1. CountIn(e, sent') = CountIn(e, sent) /\ CountIn(e, sent) \in Nat
        BY <1>1, Typed DEF IInv
      <4>2. CountIn(e, held) = 0
        BY <1>1, CountNone
      <4>3. QED BY <2>2, <2>4, <4>1, <4>2
    <3>2. QED BY <1>1, <3>1, MoveKeeps DEF IInv
  <2>6. ~Finished
    BY <1>5, Unfinished DEF IInv
  <2>7. ExactlyOneTerminal'
    BY <1>1, <1>2, <2>6 DEF IInv, ExactlyOneTerminal
  <2>8. QED BY <1>3, <2>3, <2>5, <2>7 DEF IInv
<1>6. QED BY <1>4, <1>5

-----------------------------------------------------------------------------
(* The generator. *)

(* A frame the generator yields before the terminal one: an event that left  *)
(* the queue or the reader's hand, or the terminal frame itself.             *)
LEMMA EventYielded ==
  ASSUME IInv, ~Finished, NEW f \in Event, Yield(f), exec \notin {"cancelling", "cancelled"},
         TypeOK', UNCHANGED <<tool, exec, dropped, gone>>,
         \A e \in Event : CountIn(e, queue') + CountIn(e, held') + One(e = f)
                            = CountIn(e, queue) + CountIn(e, held),
         \A e : CountIn(e, queue') \in Nat /\ CountIn(e, held') \in Nat
  PROVE  IInv'
<1>1. sent' = Append(sent, f) /\ pc' = "yield" /\ f \notin Terminals
  BY TerminalIsNoEvent DEF Yield
<1>2. /\ Finished' <=> f \in Terminals
      /\ \A i \in DOMAIN sent' : sent'[i] \in Terminals => i = Len(sent')
  BY <1>1, FrameSent DEF IInv
<1>3. ASSUME NEW e \in Event
      PROVE  CountIn(e, sent') + CountIn(e, queue') + CountIn(e, held')
               = CountIn(e, sent) + CountIn(e, queue) + CountIn(e, held)
  <2>1. PICK a, b, c, x, y :
          /\ a = CountIn(e, sent) /\ b = CountIn(e, queue) /\ c = CountIn(e, held)
          /\ x = CountIn(e, queue') /\ y = CountIn(e, held')
    OBVIOUS
  <2>2. a \in Nat /\ b \in Nat /\ c \in Nat /\ x \in Nat /\ y \in Nat
    BY <2>1, Typed DEF IInv
  <2>3. CountIn(e, sent') = a + One(e = f)
    <3>1. sent \in Seq(Event \cup Terminals) /\ f \in Event \cup Terminals
      BY Typed DEF IInv
    <3>2. /\ e = f => CountIn(e, Append(sent, f)) = CountIn(e, sent) + 1
          /\ e # f => CountIn(e, Append(sent, f)) = CountIn(e, sent)
      BY <3>1, CountAppend
    <3>3. CountIn(e, sent') = CountIn(e, Append(sent, f))
      BY <1>1
    <3>4. QED BY <2>1, <2>2, <3>2, <3>3 DEF One
  <2>4. x + y + One(e = f) = b + c
    BY <2>1
  <2>5. PICK d \in Nat : d = One(e = f)
    BY DEF One
  <2>6. a + d + x + y = a + b + c
    BY <2>2, <2>4, <2>5
  <2>7. QED BY <2>1, <2>3, <2>5, <2>6
<1>4. EventsConserved'
  BY <1>3, MoveKeeps DEF IInv
<1>5. ExactlyOneTerminal'
  BY <1>1, <1>2 DEF ExactlyOneTerminal
<1>6. Undisturbed'
  BY <1>1 DEF Undisturbed
<1>7. QED BY <1>4, <1>5, <1>6 DEF IInv

LEMMA LoopHolds ==
  ASSUME IInv, pc \in {"yield", "wait"}, ~Finished, Loop, UNCHANGED <<tool, exec, dropped, gone>>
  PROVE  IInv'
<1>1. exec \notin {"cancelling", "cancelled"}
  BY DEF IInv, Undisturbed
<1>2. CASE PendingFirst
  <2>1. /\ queue # <<>> /\ queue' = Tail(queue)
        /\ Yield(Head(queue))
        /\ UNCHANGED <<reader, held>>
    BY <1>2 DEF PendingFirst
  <2>2. /\ queue' \in Seq(Event) /\ Len(queue') <= Capacity /\ Head(queue) \in Event
        /\ \A e : e = Head(queue) => CountIn(e, queue) = CountIn(e, queue') + 1
        /\ \A e : e # Head(queue) => CountIn(e, queue) = CountIn(e, queue')
        /\ \A e : CountIn(e, queue') \in Nat
    BY <2>1, HeadTaken DEF IInv
  <2>3. TypeOK'
    <3>1. sent' \in Seq(Event \cup Terminals) /\ pc' = "yield"
      BY <2>1, <2>2, FrameSent DEF IInv, Yield
    <3>2. QED BY <2>1, <2>2, <3>1 DEF IInv, TypeOK, ReaderDone
  <2>4. \A e : CountIn(e, held') = CountIn(e, held) /\ CountIn(e, held) \in Nat
    BY <2>1, Typed DEF IInv
  <2>5. ASSUME NEW e \in Event
        PROVE  CountIn(e, queue') + CountIn(e, held') + One(e = Head(queue))
                 = CountIn(e, queue) + CountIn(e, held)
    <3>1. CASE e = Head(queue)
      BY <2>2, <2>4, <3>1 DEF One
    <3>2. CASE e # Head(queue)
      BY <2>2, <2>4, <3>2 DEF One
    <3>3. QED BY <3>1, <3>2
  <2>6. PICK f : f = Head(queue)
    OBVIOUS
  <2>7. /\ f \in Event /\ Yield(f)
        /\ \A e \in Event : CountIn(e, queue') + CountIn(e, held') + One(e = f)
                             = CountIn(e, queue) + CountIn(e, held)
        /\ \A e : CountIn(e, queue') \in Nat /\ CountIn(e, held') \in Nat
    BY <2>1, <2>2, <2>4, <2>5, <2>6
  <2>8. QED BY <1>1, <2>3, <2>7, EventYielded
<1>3. CASE Terminate
  <2>1. PICK f : f = <<Null, IF exec = "returned" THEN "agent_done" ELSE "stream_error">>
    OBVIOUS
  <2>2. /\ queue = <<>> /\ ExecutionDone
        /\ sent' = Append(sent, f) /\ pc' = "yield"
        /\ UNCHANGED <<queue, reader, held>>
    BY <1>3, <2>1 DEF Terminate, Yield
  <2>3. exec \in {"returned", "failed"}
    BY <1>1, <2>2 DEF ExecutionDone, Over
  <2>4. /\ f \in Terminals
        /\ exec = IF f[2] = "agent_done" THEN "returned" ELSE "failed"
    BY <2>1, <2>3 DEF Terminals
  <2>5. /\ sent' \in Seq(Event \cup Terminals)
        /\ sent'[Len(sent')] = f
        /\ Finished'
        /\ \A i \in DOMAIN sent' : sent'[i] \in Terminals => i = Len(sent')
    BY <2>2, <2>4, FrameSent DEF IInv
  <2>6. TypeOK'
    BY <2>2, <2>5 DEF IInv, TypeOK, ReaderDone
  <2>7. EventsConserved'
    <3>1. ASSUME NEW e \in Event
          PROVE  CountIn(e, sent') + CountIn(e, queue') + CountIn(e, held')
                   = CountIn(e, sent) + CountIn(e, queue) + CountIn(e, held)
      <4>1. e # f
        BY <2>4, TerminalIsNoEvent
      <4>2. sent \in Seq(Event \cup Terminals)
        BY Typed DEF IInv
      <4>3. CountIn(e, sent') = CountIn(e, sent)
        BY <2>2, <2>4, <4>1, <4>2, CountAppend
      <4>4. QED BY <2>2, <4>3
    <3>2. QED BY <3>1, MoveKeeps DEF IInv
  <2>8. ExactlyOneTerminal'
    <3>1. (exec = (IF sent[Len(sent)][2] = "agent_done" THEN "returned" ELSE "failed"))'
      BY <2>4, <2>5
    <3>2. QED BY <2>2, <2>5, <3>1 DEF ExactlyOneTerminal
  <2>9. Undisturbed'
    BY <1>1, <2>2 DEF Undisturbed
  <2>10. QED BY <2>6, <2>7, <2>8, <2>9 DEF IInv
<1>4. CASE Wait
  <2>1. /\ reader' = IF reader = "none" THEN "ready" ELSE reader
        /\ pc' = "wait"
        /\ UNCHANGED <<queue, held, sent>>
    BY <1>4 DEF Wait
  <2>2. ~Finished'
    BY <2>1, FinishedKept
  <2>3. TypeOK'
    BY <2>1 DEF IInv, TypeOK, ReaderDone
  <2>4. EventsConserved'
    BY <2>1, MoveKeeps DEF IInv
  <2>5. ExactlyOneTerminal'
    BY <2>1, <2>2 DEF IInv, ExactlyOneTerminal
  <2>6. Undisturbed'
    BY <1>1, <2>1, <2>2 DEF Undisturbed
  <2>7. QED BY <2>3, <2>4, <2>5, <2>6 DEF IInv
<1>5. QED BY <1>2, <1>3, <1>4 DEF Loop

LEMMA WaitOver ==
  ASSUME IInv, ResumeWait
  PROVE  IInv'
<1>1. /\ pc = "wait" /\ ~Finished
      /\ exec \notin {"cancelling", "cancelled"}
      /\ UNCHANGED <<tool, exec, dropped, gone>>
  BY DEF ResumeWait, IInv, Undisturbed
<1>2. CASE ReaderDone /\ Yield(held[1]) /\ reader' = "none" /\ held' = <<>> /\ UNCHANGED queue
  <2>1. PICK f \in Event : held = <<f>>
    BY <1>2 DEF IInv, TypeOK
  <2>2. Yield(f) /\ reader' = "none" /\ held' = <<>> /\ UNCHANGED queue
    BY <1>2, <2>1
  <2>3. TypeOK'
    <3>1. sent' \in Seq(Event \cup Terminals) /\ pc' = "yield"
      BY <1>1, <2>2, FrameSent DEF IInv, Yield
    <3>2. QED BY <1>1, <2>2, <3>1 DEF IInv, TypeOK, ReaderDone
  <2>4. /\ \A e : CountIn(e, held') = 0
        /\ \A e : CountIn(e, queue') = CountIn(e, queue)
        /\ \A e : CountIn(e, queue) \in Nat
    BY <2>2, CountNone, Typed DEF IInv
  <2>5. ASSUME NEW e \in Event
        PROVE  CountIn(e, queue') + CountIn(e, held') + One(e = f)
                 = CountIn(e, queue) + CountIn(e, held)
    <3>1. CASE e = f
      <4>1. CountIn(e, held) = 1
        BY <2>1, <3>1, CountOne
      <4>2. QED BY <2>4, <3>1, <4>1 DEF One
    <3>2. CASE e # f
      <4>1. CountIn(e, held) = 0
        BY <2>1, <3>2, CountOne
      <4>2. QED BY <2>4, <3>2, <4>1 DEF One
    <3>3. QED BY <3>1, <3>2
  <2>6. \A e : CountIn(e, queue') \in Nat /\ CountIn(e, held') \in Nat
    BY <2>4
  <2>7. QED BY <1>1, <2>2, <2>3, <2>5, <2>6, EventYielded
<1>3. CASE Loop
  BY <1>1, <1>3, LoopHolds
<1>4. CASE pc' = "yield" /\ UNCHANGED <<queue, reader, held, sent>>
  <2>1. ~Finished'
    BY <1>1, <1>4, FinishedKept
  <2>2. TypeOK'
    BY <1>1, <1>4 DEF IInv, TypeOK, ReaderDone
  <2>3. EventsConserved'
    BY <1>1, <1>4, MoveKeeps DEF IInv
  <2>4. ExactlyOneTerminal'
    BY <1>4, <2>1 DEF IInv, ExactlyOneTerminal
  <2>5. Undisturbed'
    BY <1>1, <1>4, <2>1 DEF Undisturbed
  <2>6. QED BY <2>2, <2>3, <2>4, <2>5 DEF IInv
<1>5. QED BY <1>2, <1>3, <1>4 DEF ResumeWait

(* The generator closes after the terminal frame, or for a client that left. *)
LEMMA CloseHolds ==
  ASSUME IInv, Close, UNCHANGED <<tool, dropped>>, gone' \in BOOLEAN, gone' \/ Finished
  PROVE  IInv'
<1>1. /\ pc' = "closing"
      /\ reader' = IF ReaderDone THEN reader ELSE "none"
      /\ exec' = IF ExecutionDone THEN exec ELSE "cancelling"
      /\ UNCHANGED <<queue, held, sent>>
  BY DEF Close
<1>2. Finished' = Finished
  BY <1>1, FinishedKept
<1>3. TypeOK'
  BY <1>1 DEF IInv, TypeOK, ReaderDone
<1>4. EventsConserved'
  BY <1>1, MoveKeeps DEF IInv
<1>5. ExactlyOneTerminal'
  <2>1. Finished => ExecutionDone
    BY DEF IInv, ExactlyOneTerminal, ExecutionDone, Over
  <2>2. Finished => exec' = exec
    BY <1>1, <2>1
  <2>3. (Finished => exec = (IF sent[Len(sent)][2] = "agent_done" THEN "returned" ELSE "failed")
                     /\ queue = <<>>)'
    BY <1>1, <1>2, <2>2 DEF IInv, ExactlyOneTerminal
  <2>4. (\A i \in DOMAIN sent : sent[i] \in Terminals => i = Len(sent))'
    BY <1>1 DEF IInv, ExactlyOneTerminal
  <2>5. ~gone' => Finished'
    BY <1>2
  <2>6. QED BY <2>3, <2>4, <2>5 DEF ExactlyOneTerminal
<1>6. Undisturbed'
  BY <1>1 DEF Undisturbed
<1>7. QED BY <1>3, <1>4, <1>5, <1>6 DEF IInv

LEMMA ClosedHolds ==
  ASSUME IInv, Closed
  PROVE  IInv'
<1>1. /\ pc = "closing" /\ pc' = "closed"
      /\ UNCHANGED <<tool, exec, queue, dropped, reader, held, sent, gone>>
  BY DEF Closed
<1>2. Finished' = Finished
  BY <1>1, FinishedKept
<1>3. TypeOK'
  BY <1>1 DEF IInv, TypeOK, ReaderDone
<1>4. EventsConserved'
  BY <1>1, MoveKeeps DEF IInv
<1>5. ExactlyOneTerminal'
  BY <1>1, <1>2 DEF IInv, ExactlyOneTerminal
<1>6. Undisturbed'
  BY <1>1 DEF Undisturbed
<1>7. QED BY <1>3, <1>4, <1>5, <1>6 DEF IInv

-----------------------------------------------------------------------------
(* Every step, and every stutter, keeps the invariant. *)

LEMMA InitHolds == Init => IInv
<1> SUFFICES ASSUME Init
             PROVE  IInv
  OBVIOUS
<1>1. ~Finished
  BY DEF Init, Finished
<1>2. TypeOK
  <2>1. queue \in Seq(Event) /\ Len(queue) <= Capacity /\ sent \in Seq(Event \cup Terminals)
    BY CapacityAssumption DEF Init
  <2>2. /\ held \in {<<>>} \cup {<<e>> : e \in Event}
        /\ ReaderDone <=> held # <<>>
    BY DEF Init, ReaderDone
  <2>3. QED BY <2>1, <2>2 DEF Init, TypeOK
<1>3. EventsConserved
  <2>1. Offered = {}
    BY DEF Init, Offered
  <2>2. \A e : CountIn(e, sent) = 0 /\ CountIn(e, queue) = 0 /\ CountIn(e, held) = 0
    BY CountNone DEF Init
  <2>3. dropped = {}
    BY DEF Init
  <2>4. QED BY <2>1, <2>2, <2>3 DEF EventsConserved, One
<1>4. ExactlyOneTerminal
  BY <1>1 DEF Init, ExactlyOneTerminal
<1>5. Undisturbed
  BY <1>1 DEF Init, Undisturbed
<1>6. QED BY <1>2, <1>3, <1>4, <1>5 DEF IInv

LEMMA StepHolds == IInv /\ [Next]_vars => IInv'
<1> SUFFICES ASSUME IInv, [Next]_vars
             PROVE  IInv'
  OBVIOUS
<1>1. CASE \E c \in Calls : ToolStarts(c) \/ ToolFinishes(c)
  BY <1>1, ToolHolds
<1>2. CASE ExecutionEnds
  BY <1>2, EndHolds
<1>3. CASE ReadEvent
  BY <1>3, ReadHolds
<1>4. CASE ResumeYield
  <2>1. pc = "yield" /\ UNCHANGED <<tool, dropped, gone>>
    BY <1>4 DEF ResumeYield
  <2>2. CASE Finished
    <3>1. Close
      BY <1>4, <2>2 DEF ResumeYield
    <3>2. gone' \in BOOLEAN
      BY <2>1 DEF IInv, TypeOK
    <3>3. QED BY <2>1, <2>2, <3>1, <3>2, CloseHolds
  <2>3. CASE ~Finished
    <3>1. Loop /\ UNCHANGED exec
      BY <1>4, <2>3 DEF ResumeYield
    <3>2. QED BY <2>1, <2>3, <3>1, LoopHolds
  <2>4. QED BY <2>2, <2>3
<1>5. CASE ResumeWait
  BY <1>5, WaitOver
<1>6. CASE Closed
  BY <1>6, ClosedHolds
<1>7. CASE Disconnect
  <2>1. Close /\ gone' = TRUE /\ UNCHANGED <<tool, dropped>>
    BY <1>7 DEF Disconnect
  <2>2. QED BY <2>1, CloseHolds
<1>8. CASE UNCHANGED vars
  <2>1. UNCHANGED <<tool, exec, queue, dropped, reader, held, pc, sent, gone>>
    BY <1>8 DEF vars
  <2>2. Finished' = Finished
    BY <2>1, FinishedKept
  <2>3. TypeOK'
    BY <2>1 DEF IInv, TypeOK, ReaderDone
  <2>4. EventsConserved'
    BY <2>1, MoveKeeps DEF IInv
  <2>5. ExactlyOneTerminal'
    BY <2>1, <2>2 DEF IInv, ExactlyOneTerminal
  <2>6. Undisturbed'
    BY <2>1, <2>2 DEF IInv, Undisturbed
  <2>7. QED BY <2>3, <2>4, <2>5, <2>6 DEF IInv
<1>9. QED BY <1>1, <1>2, <1>3, <1>4, <1>5, <1>6, <1>7, <1>8 DEF Next, Generator

(* The invariant holds of every streamed request, with the client there or   *)
(* gone (_stream_agent_events).                                              *)
THEOREM StreamHeld == Spec => []IInv
BY InitHolds, StepHolds, PTL DEF Spec

(* The progress queue never exceeds its capacity, whatever the client reads, *)
(* and every event a tool offered is in one place: shown once, on its way,   *)
(* or counted as dropped (ToolProgressReporter, the reader task).            *)
THEOREM EventsAccounted == Spec => []StreamInvariant
<1>1. IInv => StreamInvariant
  BY DEF IInv, StreamInvariant
<1>2. QED BY <1>1, StreamHeld, PTL

(* A connected client gets one terminal frame: the last one, after all       *)
(* progress still queued, telling how the execution ended.                   *)
THEOREM OneTerminal == Spec => []ExactlyOneTerminal
<1>1. IInv => ExactlyOneTerminal
  BY DEF IInv
<1>2. QED BY <1>1, StreamHeld, PTL
=============================================================================
