------------------------- MODULE BlockingQueueProofs -------------------------
(***************************************************************************)
(* For every finite set of threads, every set of items and every length,   *)
(* BlockingQueue keeps its mutex exclusive and loses no wakeup, and each   *)
(* of its steps is a step of AbstractQueue or leaves that unchanged. For   *)
(* every capacity, every finite set of threads and every set of items,     *)
(* FixedBlockingQueue loses and makes no slot, constructs no item over     *)
(* another, leaves nothing behind, and is a bounded FIFO. Its inductive    *)
(* invariant joins the types, the conservation of slots and the shape of   *)
(* the ring: that a thread before its push has room, and one before its    *)
(* pop an item, is the conservation; that the room is at m_pushIndex, and  *)
(* the item at m_popIndex, is the shape.                                   *)
(***************************************************************************)
EXTENDS BlockingQueue, FixedBlockingQueue, FiniteSetTheorems, TLAPS

LEMMA InitTypeOK == Init => TypeOK
<1> SUFFICES ASSUME Init PROVE TypeOK
  OBVIOUS
<1>1. <<>> \in Seq(Items)
  OBVIOUS
<1>2. QED
  BY <1>1, QueueAssumption DEF Init, TypeOK, Outside, Inside

\* A thread takes the mutex and enters a critical section.
LEMMA EnterMutex ==
  ASSUME TypeOK, NEW t \in Threads, owner = Nobody, owner' = t,
         NEW p \in Inside, Go(t, p)
  PROVE  /\ pc' \in [Threads -> Outside \cup Inside]
         /\ owner' \in Threads \cup {Nobody}
         /\ \A u \in Threads : pc'[u] \in Inside <=> owner' = u
  BY QueueAssumption DEF TypeOK, Go, Outside, Inside

\* A thread leaves its critical section and the mutex.
LEMMA LeaveMutex ==
  ASSUME TypeOK, NEW t \in Threads, pc[t] \in Inside, Unlock,
         NEW p \in Outside, Go(t, p)
  PROVE  /\ pc' \in [Threads -> Outside \cup Inside]
         /\ owner' \in Threads \cup {Nobody}
         /\ \A u \in Threads : pc'[u] \in Inside <=> owner' = u
  BY QueueAssumption DEF TypeOK, Go, Unlock, Outside, Inside

LEMMA NextTypeOK == TypeOK /\ [Next]_vars => TypeOK'
<1> SUFFICES ASSUME TypeOK, [Next]_vars PROVE TypeOK'
  OBVIOUS
<1>1. CASE UNCHANGED vars
  BY <1>1 DEF vars, TypeOK
<1>2. ASSUME NEW t \in Threads, NEW x \in Items, PushCall(t, x) PROVE TypeOK'
  BY <1>2 DEF PushCall, Go, TypeOK, Outside, Inside
<1>3. ASSUME NEW t \in Threads, NEW p \in DOMAIN Entry, Call(t, p) PROVE TypeOK'
  BY <1>3 DEF Call, Go, TypeOK, Outside, Inside
<1>4. ASSUME NEW t \in Threads, Lock(t) PROVE TypeOK'
  <2>1. Entry[pc[t]] \in Inside /\ (Entry[pc[t]] = "push_in" => pc[t] = "push")
    BY <1>4 DEF Lock, Entry, Inside
  <2>2. /\ pc' \in [Threads -> Outside \cup Inside]
        /\ owner' \in Threads \cup {Nobody}
        /\ \A u \in Threads : pc'[u] \in Inside <=> owner' = u
    BY <1>4, <2>1, EnterMutex DEF Lock
  <2>3. ASSUME NEW u \in Threads, pc'[u] \in {"push", "push_in"} PROVE item'[u] \in Items
    <3>1. pc'[u] = (IF u = t THEN Entry[pc[t]] ELSE pc[u]) /\ item' = item
      BY <1>4 DEF Lock, Go, TypeOK
    <3>2. Entry[pc[t]] # "push"
      BY <2>1 DEF Inside
    <3>3. pc[u] \in {"push", "push_in"}
      BY <2>1, <2>3, <3>1, <3>2
    <3>4. QED
      BY <3>1, <3>3 DEF TypeOK
  <2>4. QED
    BY <1>4, <2>2, <2>3 DEF Lock, TypeOK
<1>5. ASSUME NEW t \in Threads, NEW x \in Items, TryPush(t, x) PROVE TypeOK'
  BY <1>5, EnterMutex DEF TryPush, Go, TypeOK, Inside
<1>6. ASSUME NEW t \in Threads, TryPop(t) PROVE TypeOK'
  BY <1>6, EnterMutex DEF TryPop, Go, TypeOK, Inside
<1>7. ASSUME NEW t \in Threads, TryFails(t) PROVE TypeOK'
  BY <1>7 DEF TryFails, vars, TypeOK
<1>8. ASSUME NEW t \in Threads, Insert(t) PROVE TypeOK'
  <2>1. queue' \in Seq(Items)
    BY <1>8 DEF Insert, TypeOK
  <2>2. QED
    BY <1>8, <2>1, LeaveMutex DEF Insert, Go, TypeOK, Inside, Outside
<1>9. ASSUME NEW t \in Threads, Take(t) PROVE TypeOK'
  <2>1. queue' \in Seq(Items) /\ Head(queue) \in Items
    BY <1>9 DEF Take, TypeOK
  <2>2. QED
    BY <1>9, <2>1, LeaveMutex DEF Take, Go, TypeOK, Inside, Outside
<1>10. ASSUME NEW t \in Threads, Block(t) \/ PopFails(t) \/ TryPopFails(t) \/ Look(t)
       PROVE  TypeOK'
  BY <1>10, LeaveMutex DEF Block, PopFails, TryPopFails, Look, Go, TypeOK, Inside, Outside
<1>11. ASSUME NEW t \in Threads, Close(t) PROVE TypeOK'
  BY <1>11, LeaveMutex DEF Close, Go, TypeOK, Inside, Outside
<1>12. ASSUME NEW t \in Threads, NotifyOne(t) \/ NotifyAll(t) \/ Spurious(t) PROVE TypeOK'
  BY <1>12 DEF NotifyOne, NotifyAll, Spurious, Go, At, TypeOK, Inside, Outside
<1>13. QED
  BY <1>1, <1>2, <1>3, <1>4, <1>5, <1>6, <1>7, <1>8, <1>9, <1>10, <1>11, <1>12
     DEF Next, Body, Notify
------------------------------------------------------------------------------
(* No lost wakeup.                                                         *)

\* The consumers on their way to test the queue.
Testing == At("pop") \cup At("pop_in")

LEMMA FiniteGroups ==
    /\ IsFiniteSet(At("one")) /\ Cardinality(At("one")) \in Nat
    /\ IsFiniteSet(Testing) /\ Cardinality(Testing) \in Nat
<1>1. At("one") \subseteq Threads /\ Testing \subseteq Threads
  BY DEF At, Testing
<1>2. QED
  BY <1>1, QueueAssumption, FS_Subset, FS_CardinalityType

LEMMA InitNoLostWakeup == Init => NoLostWakeup
  BY DEF Init, NoLostWakeup, At

LEMMA NextNoLostWakeup == TypeOK /\ NoLostWakeup /\ [Next]_vars => NoLostWakeup'
<1> SUFFICES ASSUME TypeOK, NoLostWakeup, [Next]_vars PROVE NoLostWakeup'
  OBVIOUS
<1>f. /\ IsFiniteSet(At("one")) /\ Cardinality(At("one")) \in Nat
      /\ IsFiniteSet(Testing) /\ Cardinality(Testing) \in Nat
  BY FiniteGroups
<1>q. Len(queue) \in Nat
  BY DEF TypeOK
<1>o. NoLostWakeup <=> (At("blocked") # {} =>
        At("all") # {} \/ (~done /\ Len(queue) <= Cardinality(At("one")) + Cardinality(Testing)))
  BY DEF NoLostWakeup, Testing
<1>p. NoLostWakeup' <=> (At("blocked")' # {} =>
        At("all")' # {} \/ (~done' /\ Len(queue)' <= Cardinality(At("one")') + Cardinality(Testing')))
  BY DEF NoLostWakeup, Testing
\* Steps that move no thread into or out of the groups.
<1>1. ASSUME UNCHANGED <<queue, done, At("blocked"), At("all"), At("one"), Testing>>
      PROVE  NoLostWakeup'
  BY <1>1, <1>o, <1>p
<1>2. CASE UNCHANGED vars
  BY <1>2, <1>1 DEF vars, At, Testing
<1>3. ASSUME NEW t \in Threads,
             \/ \E x \in Items : PushCall(t, x) \/ TryPush(t, x)
             \/ TryPop(t) \/ TryFails(t) \/ TryPopFails(t) \/ Look(t)
             \/ Lock(t)
      PROVE  NoLostWakeup'
  <2>1. UNCHANGED <<queue, done, At("blocked"), At("all"), At("one"), Testing>>
    BY <1>3 DEF PushCall, TryPush, TryPop, TryFails, TryPopFails, Look, Lock,
       Go, At, Testing, Entry, TypeOK, Inside, Outside, vars
  <2>2. QED
    BY <2>1, <1>1
<1>4. ASSUME NEW t \in Threads, Spurious(t) \/ \E p \in DOMAIN Entry : Call(t, p)
      PROVE  NoLostWakeup'
  <2>1. /\ queue' = queue /\ done' = done
        /\ At("blocked")' \subseteq At("blocked") /\ At("all")' = At("all")
        /\ At("one")' = At("one") /\ (Testing' = Testing \/ Testing' = Testing \cup {t})
    BY <1>4 DEF Spurious, Call, Entry, Go, At, Testing, TypeOK
  <2>2. Cardinality(Testing \cup {t}) >= Cardinality(Testing) /\ Cardinality(Testing \cup {t}) \in Nat
    <3>1. Cardinality(Testing \cup {t}) = IF t \in Testing THEN Cardinality(Testing)
                                          ELSE Cardinality(Testing) + 1
      BY <1>f, FS_AddElement
    <3>2. QED
      BY <3>1, <1>f
  <2>3. Cardinality(Testing') >= Cardinality(Testing) /\ Cardinality(Testing') \in Nat
    <3>1. CASE Testing' = Testing
      BY <3>1, <1>f
    <3>2. CASE Testing' = Testing \cup {t}
      BY <3>2, <2>2
    <3>3. QED
      BY <2>1, <3>1, <3>2
  <2>4. At("blocked")' # {} => At("blocked") # {}
    BY <2>1
  <2>5. QED
    BY <2>1, <2>3, <2>4, <1>f, <1>o, <1>p, <1>q
<1>5. ASSUME NEW t \in Threads, Insert(t) PROVE NoLostWakeup'
  <2>1. /\ done' = done /\ At("blocked")' = At("blocked") /\ At("all")' = At("all")
        /\ At("one")' = At("one") \cup {t} /\ t \notin At("one") /\ Testing' = Testing
    BY <1>5 DEF Insert, Go, At, Testing, TypeOK
  <2>2. Cardinality(At("one")') = Cardinality(At("one")) + 1
    BY <2>1, <1>f, FS_AddElement
  <2>3. Len(queue') = Len(queue) + 1
    BY <1>5 DEF Insert, TypeOK
  <2>4. QED
    BY <2>1, <2>2, <2>3, <1>f, <1>o, <1>p, <1>q
<1>6. ASSUME NEW t \in Threads, Take(t) PROVE NoLostWakeup'
  <2>1. /\ done' = done /\ At("blocked")' = At("blocked") /\ At("all")' = At("all")
        /\ At("one")' = At("one") /\ Testing' = Testing \ {t}
    BY <1>6 DEF Take, Go, At, Testing, TypeOK
  <2>2. Cardinality(Testing') >= Cardinality(Testing) - 1 /\ Cardinality(Testing') \in Nat
    <3>1. /\ Cardinality(Testing \ {t}) = IF t \in Testing THEN Cardinality(Testing) - 1
                                            ELSE Cardinality(Testing)
          /\ IsFiniteSet(Testing \ {t})
      BY <1>f, FS_RemoveElement
    <3>2. Cardinality(Testing \ {t}) \in Nat
      BY <3>1, FS_CardinalityType
    <3>3. QED
      BY <2>1, <3>1, <3>2, <1>f
  <2>3. Len(queue') = Len(queue) - 1
    BY <1>6 DEF Take, TypeOK
  <2>4. QED
    BY <2>1, <2>2, <2>3, <1>f, <1>o, <1>p, <1>q
<1>7. ASSUME NEW t \in Threads, Block(t) PROVE NoLostWakeup'
  <2>1. ~done' /\ Len(queue') = 0
    BY <1>7 DEF Block
  <2>2. At("one")' = At("one") /\ Testing' = Testing \ {t}
    BY <1>7 DEF Block, Go, At, Testing, TypeOK
  <2>3. Cardinality(Testing') \in Nat
    <3>1. IsFiniteSet(Testing \ {t})
      BY <1>f, FS_RemoveElement
    <3>2. QED
      BY <2>2, <3>1, FS_CardinalityType
  <2>4. QED
    BY <2>1, <2>2, <2>3, <1>f, <1>p
<1>8. ASSUME NEW t \in Threads, PopFails(t) PROVE NoLostWakeup'
  <2>1. done /\ At("blocked")' = At("blocked") /\ At("all")' = At("all")
    BY <1>8 DEF PopFails, Go, At, TypeOK
  <2>2. QED
    BY <2>1, <1>o, <1>p
<1>9. ASSUME NEW t \in Threads, Close(t) PROVE NoLostWakeup'
  <2>1. t \in At("all")'
    BY <1>9 DEF Close, Go, At, TypeOK
  <2>2. QED
    BY <2>1, <1>p
<1>10. ASSUME NEW t \in Threads, NotifyOne(t) PROVE NoLostWakeup'
  <2>1. CASE At("blocked") = {} /\ Go(t, "idle")
    <3>1. At("blocked")' = {}
      BY <2>1 DEF Go, At, TypeOK
    <3>2. QED
      BY <3>1, <1>p
  <2>2. ASSUME NEW w \in At("blocked"), pc' = [pc EXCEPT ![t] = "idle", ![w] = "pop"]
        PROVE  NoLostWakeup'
    <3>1. /\ queue' = queue /\ done' = done /\ At("all")' = At("all")
          /\ At("one")' = At("one") \ {t} /\ t \in At("one")
          /\ Testing' = Testing \cup {w} /\ w \notin Testing
          /\ At("blocked") # {}
      BY <1>10, <2>2 DEF NotifyOne, At, Testing, TypeOK
    <3>2. Cardinality(At("one")') = Cardinality(At("one")) - 1
      BY <3>1, <1>f, FS_RemoveElement
    <3>3. Cardinality(Testing') = Cardinality(Testing) + 1
      BY <3>1, <1>f, FS_AddElement
    <3>4. QED
      BY <3>1, <3>2, <3>3, <1>f, <1>o, <1>p, <1>q
  <2>3. QED
    BY <2>1, <2>2, <1>10 DEF NotifyOne
<1>11. ASSUME NEW t \in Threads, NotifyAll(t) PROVE NoLostWakeup'
  <2>1. At("blocked")' = {}
    BY <1>11 DEF NotifyAll, At, TypeOK
  <2>2. QED
    BY <2>1, <1>p
<1>12. QED
  BY <1>2, <1>3, <1>4, <1>5, <1>6, <1>7, <1>8, <1>9, <1>10, <1>11 DEF Next, Body, Notify
------------------------------------------------------------------------------
(* The refinement. A step is seen through the call each thread is in.      *)

LEMMA OpStays ==
  ASSUME TypeOK, NEW t \in Threads, NEW p, Go(t, p), Serving(p) = Serving(pc[t])
  PROVE  Op' = Op
  BY DEF Go, Op, TypeOK

LEMMA OpMoves ==
  ASSUME TypeOK, NEW t \in Threads, NEW p, Go(t, p)
  PROVE  Op' = [Op EXCEPT ![t] = Serving(p)] /\ Op[t] = Serving(pc[t])
  BY DEF Go, Op, TypeOK

LEMMA InitRefines == Init => Abstract!Init
  BY DEF Init, Abstract!Init, Op, Serving

LEMMA NextRefines == TypeOK /\ [Next]_vars => [Abstract!Next]_(Abstract!vars)
<1> SUFFICES ASSUME TypeOK, [Next]_vars PROVE Abstract!Next \/ UNCHANGED (Abstract!vars)
  OBVIOUS
<1> USE DEF Abstract!Enter, Abstract!Leave
<1>1. CASE UNCHANGED vars
  BY <1>1 DEF vars, Abstract!vars, Op
<1>2. ASSUME NEW t \in Threads, NEW x \in Items, PushCall(t, x) \/ TryPush(t, x)
      PROVE  Abstract!Next
  <2>1. Op[t] = "idle" /\ Op' = [Op EXCEPT ![t] = "push"]
    BY <1>2, OpMoves DEF PushCall, TryPush, Serving
  <2>2. Abstract!Push(t, x)
    BY <1>2, <2>1 DEF PushCall, TryPush, Abstract!Push
  <2>3. QED
    BY <2>2 DEF Abstract!Next
<1>3. ASSUME NEW t \in Threads, NEW p \in DOMAIN Entry, Call(t, p)
      PROVE  Abstract!Next \/ UNCHANGED (Abstract!vars)
  <2>1. CASE p = "size"
    <3>1. Op' = Op
      BY <1>3, <2>1, OpStays DEF Call, Serving
    <3>2. QED
      BY <1>3, <2>1, <3>1 DEF Call, Abstract!vars, TypeOK
  <2>2. CASE p \in {"pop", "done"}
    <3>1. Op[t] = "idle" /\ Op' = [Op EXCEPT ![t] = p]
      BY <1>3, <2>2, OpMoves DEF Call, Serving
    <3>2. Abstract!Call(t, p)
      BY <1>3, <2>2, <3>1 DEF Call, Abstract!Call
    <3>3. QED
      BY <2>2, <3>2 DEF Abstract!Next, Abstract!Ops
  <2>3. QED
    BY <1>3, <2>1, <2>2 DEF Call
<1>4. ASSUME NEW t \in Threads, Lock(t) PROVE UNCHANGED (Abstract!vars)
  <2>1. Serving(Entry[pc[t]]) = Serving(pc[t])
    BY <1>4 DEF Lock, Entry, Serving
  <2>2. Op' = Op
    BY <1>4, <2>1, OpStays DEF Lock
  <2>3. QED
    BY <1>4, <2>2 DEF Lock, Abstract!vars
<1>5. ASSUME NEW t \in Threads, TryPop(t) PROVE Abstract!Next
  <2>1. Op[t] = "idle" /\ Op' = [Op EXCEPT ![t] = "trypop"]
    BY <1>5, OpMoves DEF TryPop, Serving
  <2>2. Abstract!Call(t, "trypop")
    BY <1>5, <2>1 DEF TryPop, Abstract!Call
  <2>3. QED
    BY <2>2 DEF Abstract!Next, Abstract!Ops
<1>6. ASSUME NEW t \in Threads, TryFails(t) PROVE UNCHANGED (Abstract!vars)
  BY <1>6 DEF TryFails, vars, Abstract!vars, Op
<1>7. ASSUME NEW t \in Threads, Insert(t) PROVE Abstract!Next
  <2>1. Op[t] = "push" /\ Op' = [Op EXCEPT ![t] = "idle"]
    BY <1>7, OpMoves DEF Insert, Serving
  <2>2. Abstract!Insert(t)
    BY <1>7, <2>1 DEF Insert, Abstract!Insert
  <2>3. QED
    BY <2>2 DEF Abstract!Next
<1>8. ASSUME NEW t \in Threads, Take(t) PROVE Abstract!Next
  <2>1. Op[t] \in {"pop", "trypop"} /\ Op' = [Op EXCEPT ![t] = "idle"]
    BY <1>8, OpMoves DEF Take, Serving
  <2>2. Abstract!Take(t)
    BY <1>8, <2>1 DEF Take, Abstract!Take
  <2>3. QED
    BY <2>2 DEF Abstract!Next
<1>9. ASSUME NEW t \in Threads, Block(t) \/ Look(t) \/ Spurious(t) PROVE UNCHANGED (Abstract!vars)
  <2>1. Op' = Op
    BY <1>9, OpStays DEF Block, Look, Spurious, Serving
  <2>2. QED
    BY <1>9, <2>1 DEF Block, Look, Spurious, Abstract!vars
<1>10. ASSUME NEW t \in Threads, PopFails(t) PROVE Abstract!Next
  <2>1. Op[t] = "pop" /\ Op' = [Op EXCEPT ![t] = "idle"]
    BY <1>10, OpMoves DEF PopFails, Serving
  <2>2. Abstract!PopFails(t)
    BY <1>10, <2>1 DEF PopFails, Abstract!PopFails
  <2>3. QED
    BY <2>2 DEF Abstract!Next
<1>11. ASSUME NEW t \in Threads, TryPopFails(t) PROVE Abstract!Next
  <2>1. Op[t] = "trypop" /\ Op' = [Op EXCEPT ![t] = "idle"]
    BY <1>11, OpMoves DEF TryPopFails, Serving
  <2>2. Abstract!TryPopFails(t)
    BY <1>11, <2>1 DEF TryPopFails, Abstract!TryPopFails
  <2>3. QED
    BY <2>2 DEF Abstract!Next
<1>12. ASSUME NEW t \in Threads, Close(t) PROVE Abstract!Next
  <2>1. Op[t] = "done" /\ Op' = [Op EXCEPT ![t] = "idle"]
    BY <1>12, OpMoves DEF Close, Serving
  <2>2. Abstract!Close(t)
    BY <1>12, <2>1 DEF Close, Abstract!Close
  <2>3. QED
    BY <2>2 DEF Abstract!Next
<1>13. ASSUME NEW t \in Threads, NotifyOne(t) \/ NotifyAll(t) PROVE UNCHANGED (Abstract!vars)
  <2>1. \A u \in Threads : Serving(pc'[u]) = Serving(pc[u])
    BY <1>13 DEF NotifyOne, NotifyAll, Go, At, Serving, TypeOK
  <2>2. QED
    BY <1>13, <2>1 DEF NotifyOne, NotifyAll, Op, Abstract!vars
<1>14. QED
  BY <1>1, <1>2, <1>3, <1>4, <1>5, <1>6, <1>7, <1>8, <1>9, <1>10, <1>11, <1>12, <1>13
     DEF Next, Body, Notify
------------------------------------------------------------------------------
(***************************************************************************)
(* The owner of the mutex is the one thread in a critical section, and a   *)
(* thread about to insert has an item.                                     *)
(***************************************************************************)
THEOREM TypeCorrect == Spec => []TypeOK
  BY InitTypeOK, NextTypeOK, PTL DEF Spec

(***************************************************************************)
(* While a thread is blocked in pop(), done()'s notify_all is still to     *)
(* come, or each queued item is matched by a notification to come or by a  *)
(* thread about to test the queue.                                         *)
(***************************************************************************)
THEOREM NoWakeupIsLost == Spec => []NoLostWakeup
  BY InitTypeOK, NextTypeOK, InitNoLostWakeup, NextNoLostWakeup, PTL DEF Spec

(***************************************************************************)
(* Items leave in the order in which they came, each once, and pop() fails *)
(* only when the queue is closed and empty.                                *)
(***************************************************************************)
THEOREM IsAFifo == Spec => ImplementsFifo
<1>1. Spec => []TypeOK
  BY TypeCorrect
<1>2. QED
  BY <1>1, InitRefines, NextRefines, PTL DEF Spec, ImplementsFifo, Abstract!Safety

-----------------------------------------------------------------------------
(* FixedBlockingQueue.                                                     *)

-----------------------------------------------------------------------------
(* Indices modulo Size.                                                    *)

LEMMA ModSmall == ASSUME NEW x \in 0..(Size - 1) PROVE x % Size = x
  BY SizeAssumption

LEMMA ModOver == ASSUME NEW x \in Size..(2 * Size - 1) PROVE x % Size = x - Size
  BY SizeAssumption

LEMMA ModBelow == ASSUME NEW x \in (-Size)..(-1) PROVE x % Size = x + Size
  BY SizeAssumption

\* How far slot s is behind slot p.
LEMMA Distance ==
  ASSUME NEW s \in Slots, NEW p \in Slots
  PROVE  (s - p) % Size = IF s >= p THEN s - p ELSE s - p + Size
<1>1. CASE s >= p
  <2>1. s - p \in 0..(Size - 1)
    BY <1>1, SizeAssumption DEF Slots
  <2>2. QED
    BY <1>1, <2>1, ModSmall
<1>2. CASE s < p
  <2>1. s - p \in (-Size)..(-1)
    BY <1>2, SizeAssumption DEF Slots
  <2>2. QED
    BY <1>2, <2>1, ModBelow DEF Slots
<1>3. QED
  BY <1>1, <1>2 DEF Slots

\* The slot c places behind slot p.
LEMMA Offset ==
  ASSUME NEW p \in Slots, NEW c \in 0..Size
  PROVE  (p + c) % Size = IF p + c < Size THEN p + c ELSE p + c - Size
<1>1. CASE p + c < Size
  <2>1. p + c \in 0..(Size - 1)
    BY <1>1, SizeAssumption DEF Slots
  <2>2. QED
    BY <1>1, <2>1, ModSmall
<1>2. CASE p + c >= Size
  <2>1. p + c \in Size..(2 * Size - 1)
    BY <1>2, SizeAssumption DEF Slots
  <2>2. QED
    BY <1>2, <2>1, ModOver, SizeAssumption DEF Slots
<1>3. QED
  BY <1>1, <1>2, SizeAssumption DEF Slots

LEMMA AdvanceType ==
  ASSUME NEW p \in Slots
  PROVE  Advance(p) \in Slots /\ Advance(p) = IF p + 1 = Size THEN 0 ELSE p + 1
<1>1. (p + 1) % Size = IF p + 1 < Size THEN p + 1 ELSE p + 1 - Size
  BY Offset, SizeAssumption
<1>2. QED
  BY <1>1, SizeAssumption DEF Advance, Slots

\* A push at the end of the window makes it one longer.
LEMMA WindowGrows ==
  ASSUME NEW p \in Slots, NEW c \in 0..(Size - 1), NEW s \in Slots
  PROVE  /\ (s - p) % Size < c + 1 <=> (s - p) % Size < c \/ s = (p + c) % Size
         /\ Advance((p + c) % Size) = (p + (c + 1)) % Size
<1>1. (s - p) % Size = IF s >= p THEN s - p ELSE s - p + Size
  BY Distance
<1>2. (p + c) % Size = IF p + c < Size THEN p + c ELSE p + c - Size
  BY Offset, SizeAssumption
<1>3. (p + (c + 1)) % Size = IF p + (c + 1) < Size THEN p + (c + 1) ELSE p + (c + 1) - Size
  BY Offset, SizeAssumption
<1>4. (p + c) % Size \in Slots
  BY <1>2, SizeAssumption DEF Slots
<1>5. Advance((p + c) % Size) = IF ((p + c) % Size) + 1 = Size THEN 0 ELSE ((p + c) % Size) + 1
  BY <1>4, AdvanceType
<1>6. QED
  BY <1>1, <1>2, <1>3, <1>5, SizeAssumption DEF Slots

\* A pop at its beginning makes it one shorter, and leaves the end.
LEMMA WindowShrinks ==
  ASSUME NEW p \in Slots, NEW c \in 1..Size, NEW s \in Slots
  PROVE  /\ (s - Advance(p)) % Size < c - 1 <=> (s - p) % Size < c /\ s # p
         /\ (Advance(p) + (c - 1)) % Size = (p + c) % Size
<1>0. Advance(p) \in Slots /\ Advance(p) = IF p + 1 = Size THEN 0 ELSE p + 1
  BY AdvanceType
<1>1. (s - p) % Size = IF s >= p THEN s - p ELSE s - p + Size
  BY Distance
<1>2. (s - Advance(p)) % Size = IF s >= Advance(p) THEN s - Advance(p) ELSE s - Advance(p) + Size
  BY Distance, <1>0
<1>3. (p + c) % Size = IF p + c < Size THEN p + c ELSE p + c - Size
  BY Offset, SizeAssumption
<1>4. (Advance(p) + (c - 1)) % Size =
        IF Advance(p) + (c - 1) < Size THEN Advance(p) + (c - 1) ELSE Advance(p) + (c - 1) - Size
  BY <1>0, Offset, SizeAssumption
<1>5. QED
  BY <1>0, <1>1, <1>2, <1>3, <1>4, SizeAssumption DEF Slots

\* The destructor visits the whole window.
LEMMA WindowVisited ==
  ASSUME popIndex \in Slots, count \in 0..Size, NEW s \in Slots, (s - popIndex) % Size < count
  PROVE  s \in Visited
<1> DEFINE k == (s - popIndex) % Size
<1>1. k = IF s >= popIndex THEN s - popIndex ELSE s - popIndex + Size
  BY Distance
<1>2. k \in 0..(count - 1) /\ k \in 0..Size
  BY <1>1, SizeAssumption DEF Slots
<1>3. (popIndex + k) % Size = IF popIndex + k < Size THEN popIndex + k ELSE popIndex + k - Size
  BY <1>2, Offset
<1>4. s = (popIndex + k) % Size
  BY <1>1, <1>3, SizeAssumption DEF Slots
<1>5. QED
  BY <1>2, <1>4 DEF Visited
-----------------------------------------------------------------------------
(* The inductive invariant.                                                *)

\* After the destructor nobody is in a call and nothing is counted.
Quiet == ~alive => count = 0 /\ FixedAt("idle") = FixedThreads

IInv == FixedTypeOK /\ SlotsConserved /\ RingConsistent /\ Quiet

LEMMA FixedFiniteAt == \A p : /\ IsFiniteSet(FixedAt(p)) /\ Cardinality(FixedAt(p)) \in Nat
<1>1. \A p : FixedAt(p) \in SUBSET FixedThreads
  BY DEF FixedAt
<1>2. QED
  BY <1>1, ThreadsAssumption, FS_Subset, FS_CardinalityType

\* The terms of SlotsConserved are numbers.
LEMMA SlotSums ==
  ASSUME FixedTypeOK
  PROVE  /\ open \in Int /\ full \in Int /\ count \in Int
         /\ Cardinality(FixedAt("push_in")) \in Int /\ Cardinality(FixedAt("push_post")) \in Int
         /\ Cardinality(FixedAt("pop_in")) \in Int /\ Cardinality(FixedAt("pop_post")) \in Int
<1>1. \A p : Cardinality(FixedAt(p)) \in Int
  BY FixedFiniteAt
<1>2. open \in Int /\ full \in Int /\ count \in Int
  BY SizeAssumption DEF FixedTypeOK
<1>3. QED
  BY <1>1, <1>2, Zenon

\* What a thread that moves from one place to another does to their sizes.
LEMMA MoveCounts ==
  ASSUME NEW t \in FixedThreads, NEW from \in Places, NEW to \in Places, from # to,
         fixed_pc \in [FixedThreads -> Places], fixed_pc[t] = from, FixedGo(t, to)
  PROVE  /\ Cardinality(FixedAt(from)') = Cardinality(FixedAt(from)) - 1
         /\ Cardinality(FixedAt(from)) >= 1
         /\ Cardinality(FixedAt(to)') = Cardinality(FixedAt(to)) + 1
         /\ \A p : p # to /\ p # from => FixedAt(p)' = FixedAt(p)
<1>1. FixedAt(from)' = FixedAt(from) \ {t} /\ t \in FixedAt(from)
  BY DEF FixedAt, FixedGo
<1>2. FixedAt(to)' = FixedAt(to) \cup {t} /\ t \notin FixedAt(to)
  BY DEF FixedAt, FixedGo
<1>3. \A p : p # to /\ p # from => FixedAt(p)' = FixedAt(p)
  BY DEF FixedAt, FixedGo
<1>4. IsFiniteSet(FixedAt(from)) /\ IsFiniteSet(FixedAt(to))
  BY FixedFiniteAt
<1>5. Cardinality(FixedAt(from) \ {t}) = Cardinality(FixedAt(from)) - 1
  BY <1>1, <1>4, FS_RemoveElement
<1>6. Cardinality(FixedAt(to) \cup {t}) = Cardinality(FixedAt(to)) + 1
  BY <1>2, <1>4, FS_AddElement
<1>7. Cardinality(FixedAt(from)) >= 1
  <2>1. Cardinality(FixedAt(from)) # 0
    BY <1>1, <1>4, FS_EmptySet
  <2>2. QED
    BY <2>1, FixedFiniteAt
<1>8. QED
  BY <1>1, <1>2, <1>3, <1>5, <1>6, <1>7

LEMMA InitIInv == FixedInit => IInv
<1> SUFFICES ASSUME FixedInit PROVE IInv
  OBVIOUS
<1>1. FixedTypeOK
  BY SizeAssumption DEF FixedInit, FixedTypeOK, Places, Slots, Open!Init, Full!Init
<1>2. \A p \in Places : p # "idle" => Cardinality(FixedAt(p)) = 0
  BY FS_EmptySet DEF FixedInit, FixedAt
<1>3. SlotsConserved
  BY <1>2, SizeAssumption DEF FixedInit, SlotsConserved, Open!Init, Full!Init, Places
<1>4. RingConsistent
  <2>1. pushIndex = (popIndex + count) % Size
    BY ModSmall, SizeAssumption DEF FixedInit
  <2>2. ASSUME NEW s \in Slots PROVE data[s] = Raw /\ ~((s - popIndex) % Size < count)
    <3>1. s \in 0..(Size - 1) /\ s - popIndex = s
      BY DEF FixedInit, Slots
    <3>2. QED
      BY <3>1, ModSmall DEF FixedInit
  <2>3. QED
    BY <2>1, <2>2 DEF RingConsistent
<1>5. Quiet
  BY DEF FixedInit, Quiet
<1>6. QED
  BY <1>1, <1>3, <1>4, <1>5 DEF IInv

\* A thread in a call means that the destructor has not run.
LEMMA BusyAlive == ASSUME IInv, NEW t \in FixedThreads, fixed_pc[t] # "idle" PROVE alive
  BY DEF IInv, Quiet, FixedAt, FixedTypeOK

(***************************************************************************)
(* Steps that leave the ring alone: only the thread, and the tokens of one *)
(* semaphore, move.                                                        *)
(***************************************************************************)
LEMMA RingStep == ASSUME RingConsistent, UNCHANGED ring PROVE RingConsistent'
  BY DEF RingConsistent, ring

LEMMA QuietStep == ASSUME alive, UNCHANGED alive PROVE Quiet'
  BY DEF Quiet

LEMMA CallStep ==
  ASSUME IInv, NEW t \in FixedThreads, NEW p \in Places,
         (\E x \in FixedItems : FixedPushCall(t, p, x)) \/ PopCall(t, p)
  PROVE  IInv'
<1> USE DEF IInv
<1>1. alive /\ alive' = alive /\ UNCHANGED ring /\ open' = open /\ full' = full
  BY DEF FixedPushCall, PopCall
<1>2. fixed_pc[t] = "idle" /\ p \in {"push", "try_push", "pop", "try_pop"} /\ FixedGo(t, p)
  BY DEF FixedPushCall, PopCall
<1>3. FixedTypeOK'
  BY <1>1, <1>2 DEF FixedTypeOK, FixedPushCall, PopCall, FixedGo, Places, ring
<1>4. \A q \in {"push_in", "push_post", "pop_in", "pop_post"} : FixedAt(q)' = FixedAt(q)
  BY <1>2 DEF FixedAt, FixedGo, FixedTypeOK
<1>5. SlotsConserved'
  BY <1>1, <1>4 DEF SlotsConserved, ring
<1>6. QED
  BY <1>1, <1>3, <1>5, RingStep, QuietStep

LEMMA GetOpenStep == ASSUME IInv, NEW t \in FixedThreads, GetOpen(t) PROVE IInv'
<1> USE DEF IInv
<1>0. /\ alive' = alive /\ UNCHANGED ring /\ full' = full /\ fixed_item' = fixed_item
      /\ fixed_pc[t] \in {"push", "try_push"} /\ FixedGo(t, "push_in")
      /\ open > 0 /\ open' = open - 1
  BY DEF GetOpen, Open!Acquire
<1>1. alive
  BY <1>0, BusyAlive
<1>2. PICK from \in {"push", "try_push"} : fixed_pc[t] = from
  BY <1>0
<1>3. /\ Cardinality(FixedAt("push_in")') = Cardinality(FixedAt("push_in")) + 1
      /\ FixedAt("push_post")' = FixedAt("push_post") /\ FixedAt("pop_post")' = FixedAt("pop_post")
      /\ FixedAt("pop_in")' = FixedAt("pop_in")
  BY <1>0, <1>2, MoveCounts DEF FixedTypeOK, Places
<1>4. FixedTypeOK'
  BY <1>0 DEF FixedTypeOK, FixedGo, Places, ring
<1>5. SlotsConserved'
  BY <1>0, <1>1, <1>3, SlotSums DEF SlotsConserved, ring
<1>6. QED
  BY <1>0, <1>1, <1>4, <1>5, RingStep, QuietStep

LEMMA GetFullStep == ASSUME IInv, NEW t \in FixedThreads, GetFull(t) PROVE IInv'
<1> USE DEF IInv
<1>0. /\ alive' = alive /\ UNCHANGED ring /\ open' = open /\ fixed_item' = fixed_item
      /\ fixed_pc[t] \in {"pop", "try_pop"} /\ FixedGo(t, "pop_in")
      /\ full > 0 /\ full' = full - 1
  BY DEF GetFull, Full!Acquire
<1>1. alive
  BY <1>0, BusyAlive
<1>2. PICK from \in {"pop", "try_pop"} : fixed_pc[t] = from
  BY <1>0
<1>3. /\ Cardinality(FixedAt("pop_in")') = Cardinality(FixedAt("pop_in")) + 1
      /\ FixedAt("push_post")' = FixedAt("push_post") /\ FixedAt("pop_post")' = FixedAt("pop_post")
      /\ FixedAt("push_in")' = FixedAt("push_in")
  BY <1>0, <1>2, MoveCounts DEF FixedTypeOK, Places
<1>4. FixedTypeOK'
  BY <1>0 DEF FixedTypeOK, FixedGo, Places, ring
<1>5. SlotsConserved'
  BY <1>0, <1>1, <1>3, SlotSums DEF SlotsConserved, ring
<1>6. QED
  BY <1>0, <1>1, <1>4, <1>5, RingStep, QuietStep

LEMMA TryFailsStep ==
  ASSUME IInv, NEW t \in FixedThreads, TryPushFails(t) \/ FixedTryPopFails(t) PROVE IInv'
<1> USE DEF IInv
<1>0. /\ alive' = alive /\ UNCHANGED ring /\ full' = full /\ open' = open /\ fixed_item' = fixed_item
      /\ fixed_pc[t] \in {"try_push", "try_pop"} /\ FixedGo(t, "idle")
  BY DEF TryPushFails, FixedTryPopFails, Open!GiveUp, Full!GiveUp
<1>1. alive
  BY <1>0, BusyAlive
<1>2. \A q \in {"push_in", "push_post", "pop_in", "pop_post"} : FixedAt(q)' = FixedAt(q)
  BY <1>0 DEF FixedAt, FixedGo, FixedTypeOK
<1>3. FixedTypeOK'
  BY <1>0 DEF FixedTypeOK, FixedGo, Places, ring
<1>4. SlotsConserved'
  BY <1>0, <1>2 DEF SlotsConserved, ring
<1>5. QED
  BY <1>0, <1>1, <1>3, <1>4, RingStep, QuietStep

LEMMA PushThrowsStep == ASSUME IInv, NEW t \in FixedThreads, PushThrows(t) PROVE IInv'
<1> USE DEF IInv
<1>0. /\ alive' = alive /\ UNCHANGED ring /\ full' = full /\ fixed_item' = fixed_item
      /\ fixed_pc[t] = "push_in" /\ FixedGo(t, "idle") /\ open' = open + 1
  BY DEF PushThrows, Open!Post
<1>1. alive
  BY <1>0, BusyAlive
<1>3. /\ Cardinality(FixedAt("push_in")') = Cardinality(FixedAt("push_in")) - 1
      /\ FixedAt("push_post")' = FixedAt("push_post") /\ FixedAt("pop_post")' = FixedAt("pop_post")
      /\ FixedAt("pop_in")' = FixedAt("pop_in")
  BY <1>0, MoveCounts DEF FixedTypeOK, Places
<1>4. FixedTypeOK'
  BY <1>0 DEF FixedTypeOK, FixedGo, Places, ring
<1>5. SlotsConserved'
  BY <1>0, <1>1, <1>3, SlotSums DEF SlotsConserved, ring
<1>6. QED
  BY <1>0, <1>1, <1>4, <1>5, RingStep, QuietStep

LEMMA PopThrowsStep == ASSUME IInv, NEW t \in FixedThreads, PopThrows(t) PROVE IInv'
<1> USE DEF IInv
<1>0. /\ alive' = alive /\ UNCHANGED ring /\ open' = open /\ fixed_item' = fixed_item
      /\ fixed_pc[t] = "pop_in" /\ FixedGo(t, "idle") /\ full' = full + 1
  BY DEF PopThrows, Full!Post
<1>1. alive
  BY <1>0, BusyAlive
<1>3. /\ Cardinality(FixedAt("pop_in")') = Cardinality(FixedAt("pop_in")) - 1
      /\ FixedAt("push_post")' = FixedAt("push_post") /\ FixedAt("pop_post")' = FixedAt("pop_post")
      /\ FixedAt("push_in")' = FixedAt("push_in")
  BY <1>0, MoveCounts DEF FixedTypeOK, Places
<1>4. FixedTypeOK'
  BY <1>0 DEF FixedTypeOK, FixedGo, Places, ring
<1>5. SlotsConserved'
  BY <1>0, <1>1, <1>3, SlotSums DEF SlotsConserved, ring
<1>6. QED
  BY <1>0, <1>1, <1>4, <1>5, RingStep, QuietStep

LEMMA PostFullStep == ASSUME IInv, NEW t \in FixedThreads, PostFull(t) PROVE IInv'
<1> USE DEF IInv
<1>0. /\ alive' = alive /\ UNCHANGED ring /\ open' = open /\ fixed_item' = fixed_item
      /\ fixed_pc[t] = "push_post" /\ FixedGo(t, "idle") /\ full' = full + 1
  BY DEF PostFull, Full!Post
<1>1. alive
  BY <1>0, BusyAlive
<1>3. /\ Cardinality(FixedAt("push_post")') = Cardinality(FixedAt("push_post")) - 1
      /\ FixedAt("pop_in")' = FixedAt("pop_in") /\ FixedAt("pop_post")' = FixedAt("pop_post")
      /\ FixedAt("push_in")' = FixedAt("push_in")
  BY <1>0, MoveCounts DEF FixedTypeOK, Places
<1>4. FixedTypeOK'
  BY <1>0 DEF FixedTypeOK, FixedGo, Places, ring
<1>5. SlotsConserved'
  BY <1>0, <1>1, <1>3, SlotSums DEF SlotsConserved, ring
<1>6. QED
  BY <1>0, <1>1, <1>4, <1>5, RingStep, QuietStep

LEMMA PostOpenStep == ASSUME IInv, NEW t \in FixedThreads, PostOpen(t) PROVE IInv'
<1> USE DEF IInv
<1>0. /\ alive' = alive /\ UNCHANGED ring /\ full' = full /\ fixed_item' = fixed_item
      /\ fixed_pc[t] = "pop_post" /\ FixedGo(t, "idle") /\ open' = open + 1
  BY DEF PostOpen, Open!Post
<1>1. alive
  BY <1>0, BusyAlive
<1>3. /\ Cardinality(FixedAt("pop_post")') = Cardinality(FixedAt("pop_post")) - 1
      /\ FixedAt("push_post")' = FixedAt("push_post") /\ FixedAt("pop_in")' = FixedAt("pop_in")
      /\ FixedAt("push_in")' = FixedAt("push_in")
  BY <1>0, MoveCounts DEF FixedTypeOK, Places
<1>4. FixedTypeOK'
  BY <1>0 DEF FixedTypeOK, FixedGo, Places, ring
<1>5. SlotsConserved'
  BY <1>0, <1>1, <1>3, SlotSums DEF SlotsConserved, ring
<1>6. QED
  BY <1>0, <1>1, <1>4, <1>5, RingStep, QuietStep
-----------------------------------------------------------------------------
(***************************************************************************)
(* The critical sections. That a thread is before its own is what makes    *)
(* the ring neither full nor empty.                                        *)
(***************************************************************************)
LEMMA RoomToPush ==
  ASSUME IInv, NEW t \in FixedThreads, fixed_pc[t] = "push_in"
  PROVE  count < Size /\ data[pushIndex] = Raw
<1>1. alive
  BY BusyAlive
<1>2. t \in FixedAt("push_in")
  BY DEF FixedAt
<1>3. Cardinality(FixedAt("push_in")) >= 1
  BY <1>2, FixedFiniteAt, FS_EmptySet
<1>4. count < Size /\ count \in 0..(Size - 1)
  BY <1>1, <1>3, FixedFiniteAt, SizeAssumption DEF IInv, SlotsConserved, FixedTypeOK
<1>5. popIndex \in Slots /\ pushIndex \in Slots /\ pushIndex = (popIndex + count) % Size
  BY DEF IInv, FixedTypeOK, RingConsistent
<1>6. pushIndex = IF popIndex + count < Size THEN popIndex + count ELSE popIndex + count - Size
  <2>1. count \in 0..Size
    BY <1>4, SizeAssumption
  <2>2. QED
    BY <2>1, <1>5, Offset
<1>7. (pushIndex - popIndex) % Size = count
  BY <1>4, <1>5, <1>6, Distance, SizeAssumption DEF Slots
<1>8. QED
  BY <1>4, <1>5, <1>7 DEF IInv, RingConsistent

LEMMA ItemToPop ==
  ASSUME IInv, NEW t \in FixedThreads, fixed_pc[t] = "pop_in"
  PROVE  count > 0 /\ data[popIndex] # Raw
<1>1. alive
  BY BusyAlive
<1>2. t \in FixedAt("pop_in")
  BY DEF FixedAt
<1>3. Cardinality(FixedAt("pop_in")) >= 1
  BY <1>2, FixedFiniteAt, FS_EmptySet
<1>4. count > 0
  BY <1>1, <1>3, FixedFiniteAt, SizeAssumption DEF IInv, SlotsConserved, FixedTypeOK
<1>5. popIndex \in Slots
  BY DEF IInv, FixedTypeOK
<1>6. (popIndex - popIndex) % Size = 0
  BY <1>5, Distance DEF Slots
<1>7. QED
  BY <1>4, <1>5, <1>6 DEF IInv, RingConsistent

LEMMA InsertStep == ASSUME IInv, NEW t \in FixedThreads, FixedInsert(t) PROVE IInv'
<1> USE DEF IInv
<1>0. /\ alive' = alive /\ full' = full /\ fixed_item' = fixed_item /\ open' = open /\ popIndex' = popIndex
      /\ fixed_pc[t] = "push_in" /\ FixedGo(t, "push_post")
      /\ count' = count + 1 /\ pushIndex' = Advance(pushIndex)
      /\ data' = [data EXCEPT ![pushIndex] = fixed_item[t]]
  BY DEF FixedInsert
<1>1. alive
  BY <1>0, BusyAlive
<1>2. count \in 0..(Size - 1) /\ count + 1 \in 0..Size
  BY <1>0, RoomToPush, SizeAssumption DEF FixedTypeOK
<1>3. /\ Cardinality(FixedAt("push_in")') = Cardinality(FixedAt("push_in")) - 1
      /\ Cardinality(FixedAt("push_post")') = Cardinality(FixedAt("push_post")) + 1
      /\ FixedAt("pop_post")' = FixedAt("pop_post") /\ FixedAt("pop_in")' = FixedAt("pop_in")
  BY <1>0, MoveCounts DEF FixedTypeOK, Places
<1>4. FixedTypeOK'
  <2>1. pushIndex' \in Slots
    BY <1>0, AdvanceType DEF FixedTypeOK
  <2>2. fixed_item[t] \in FixedItems
    BY <1>0 DEF FixedTypeOK
  <2>3. data' \in [Slots -> FixedItems \cup {Raw}]
    BY <1>0, <2>2 DEF FixedTypeOK
  <2>4. QED
    BY <1>0, <1>2, <2>1, <2>3 DEF FixedTypeOK, FixedGo, Places
<1>5. SlotsConserved'
  BY <1>0, <1>1, <1>3, SlotSums DEF SlotsConserved
<1>6. RingConsistent'
  <2>1. pushIndex = (popIndex + count) % Size /\ popIndex \in Slots /\ pushIndex \in Slots
    BY DEF RingConsistent, FixedTypeOK
  <2>2. fixed_item[t] # Raw
    BY <1>0, ItemsAssumption DEF FixedTypeOK
  <2>3. pushIndex' = (popIndex' + count') % Size
    BY <1>0, <1>2, <2>1, WindowGrows
  <2>4. ASSUME NEW s \in Slots PROVE data'[s] # Raw <=> (s - popIndex') % Size < count'
    <3>1. (s - popIndex) % Size < count + 1 <=> (s - popIndex) % Size < count \/ s = pushIndex
      BY <1>2, <2>1, WindowGrows
    <3>2. data'[s] = IF s = pushIndex THEN fixed_item[t] ELSE data[s]
      BY <1>0, <2>1 DEF FixedTypeOK
    <3>3. data[s] # Raw <=> (s - popIndex) % Size < count
      BY DEF RingConsistent
    <3>4. QED
      BY <1>0, <2>2, <3>1, <3>2, <3>3
  <2>5. QED
    BY <2>3, <2>4 DEF RingConsistent
<1>7. QED
  BY <1>0, <1>1, <1>4, <1>5, <1>6, QuietStep

LEMMA RemoveStep == ASSUME IInv, NEW t \in FixedThreads, Remove(t) PROVE IInv'
<1> USE DEF IInv
<1>0. /\ alive' = alive /\ full' = full /\ open' = open /\ pushIndex' = pushIndex
      /\ fixed_pc[t] = "pop_in" /\ FixedGo(t, "pop_post")
      /\ count' = count - 1 /\ popIndex' = Advance(popIndex)
      /\ data' = [data EXCEPT ![popIndex] = Raw]
      /\ fixed_item' = [fixed_item EXCEPT ![t] = data[popIndex]]
  BY DEF Remove
<1>1. alive
  BY <1>0, BusyAlive
<1>2. count \in 1..Size /\ count - 1 \in 0..Size
  BY <1>0, ItemToPop, SizeAssumption DEF FixedTypeOK
<1>3. /\ Cardinality(FixedAt("pop_in")') = Cardinality(FixedAt("pop_in")) - 1
      /\ Cardinality(FixedAt("pop_post")') = Cardinality(FixedAt("pop_post")) + 1
      /\ FixedAt("push_post")' = FixedAt("push_post") /\ FixedAt("push_in")' = FixedAt("push_in")
  BY <1>0, MoveCounts DEF FixedTypeOK, Places
<1>4. FixedTypeOK'
  <2>1. popIndex' \in Slots
    BY <1>0, AdvanceType DEF FixedTypeOK
  <2>2. data[popIndex] \in FixedItems
    BY <1>0, ItemToPop DEF FixedTypeOK
  <2>3. data' \in [Slots -> FixedItems \cup {Raw}]
    BY <1>0 DEF FixedTypeOK
  <2>4. QED
    BY <1>0, <1>2, <2>1, <2>2, <2>3 DEF FixedTypeOK, FixedGo, Places
<1>5. SlotsConserved'
  BY <1>0, <1>1, <1>3, SlotSums DEF SlotsConserved
<1>6. RingConsistent'
  <2>1. pushIndex = (popIndex + count) % Size /\ popIndex \in Slots
    BY DEF RingConsistent, FixedTypeOK
  <2>2. pushIndex' = (popIndex' + count') % Size
    BY <1>0, <1>2, <2>1, WindowShrinks
  <2>3. ASSUME NEW s \in Slots PROVE data'[s] # Raw <=> (s - popIndex') % Size < count'
    <3>1. (s - Advance(popIndex)) % Size < count - 1 <=> (s - popIndex) % Size < count /\ s # popIndex
      BY <1>2, <2>1, WindowShrinks
    <3>2. data'[s] = IF s = popIndex THEN Raw ELSE data[s]
      BY <1>0, <2>1 DEF FixedTypeOK
    <3>3. data[s] # Raw <=> (s - popIndex) % Size < count
      BY DEF RingConsistent
    <3>4. QED
      BY <1>0, <3>1, <3>2, <3>3
  <2>4. QED
    BY <2>2, <2>3 DEF RingConsistent
<1>7. QED
  BY <1>0, <1>1, <1>4, <1>5, <1>6, QuietStep

LEMMA DestroyStep == ASSUME IInv, Destroy PROVE IInv'
<1> USE DEF IInv
<1>0. popIndex \in Slots /\ count \in 0..Size /\ pushIndex = (popIndex + count) % Size
  BY DEF FixedTypeOK, RingConsistent
<1>1. popIndex' = pushIndex /\ pushIndex' = pushIndex /\ pushIndex \in Slots /\ count' = 0
  BY <1>0 DEF Destroy, FixedTypeOK
<1>2. \A s \in Slots : data'[s] = Raw
  BY <1>0, WindowVisited DEF Destroy, RingConsistent
<1>3. FixedTypeOK'
  <2>1. data' \in [Slots -> FixedItems \cup {Raw}]
    BY DEF Destroy, FixedTypeOK
  <2>2. count' \in 0..Size /\ popIndex' \in Slots /\ pushIndex' \in Slots
    BY <1>1, SizeAssumption
  <2>3. alive' \in BOOLEAN /\ UNCHANGED <<open, full, fixed_pc, fixed_item>>
    BY DEF Destroy
  <2>4. QED
    BY <2>1, <2>2, <2>3 DEF FixedTypeOK
<1>4. SlotsConserved' /\ Quiet'
  BY <1>1 DEF Destroy, SlotsConserved, Quiet, FixedAt
<1>5. RingConsistent'
  <2>1. pushIndex' = (popIndex' + count') % Size
    BY <1>1, ModSmall DEF Slots
  <2>2. \A s \in Slots : ~((s - popIndex') % Size < 0)
    BY <1>1, Distance, SizeAssumption DEF Slots
  <2>3. QED
    BY <1>1, <1>2, <2>1, <2>2 DEF RingConsistent
<1>6. QED
  BY <1>3, <1>4, <1>5

LEMMA NextIInv == IInv /\ [FixedNext]_fixed_vars => IInv'
<1> SUFFICES ASSUME IInv, [FixedNext]_fixed_vars PROVE IInv'
  OBVIOUS
<1>1. CASE UNCHANGED fixed_vars
  BY <1>1 DEF fixed_vars, ring, IInv, FixedTypeOK, SlotsConserved, RingConsistent, Quiet, FixedAt
<1>2. CASE FixedNext
  BY <1>2, CallStep, GetOpenStep, GetFullStep, TryFailsStep, InsertStep, PushThrowsStep,
     PostFullStep, RemoveStep, PopThrowsStep, PostOpenStep, DestroyStep DEF FixedNext, Run
<1>3. QED
  BY <1>1, <1>2

LEMMA Invariance == FixedSpec => []IInv
  BY InitIInv, NextIInv, PTL DEF FixedSpec
-----------------------------------------------------------------------------
(***************************************************************************)
(* All variables keep their types: in particular m_count never exceeds the *)
(* capacity and both indices stay inside m_data.                           *)
(***************************************************************************)
THEOREM FixedTypeCorrect == FixedSpec => []FixedTypeOK
  BY Invariance, PTL DEF IInv

(***************************************************************************)
(* Slots are neither lost nor made, on the error paths of push and pop     *)
(* either.                                                                 *)
(***************************************************************************)
THEOREM SlotsAreConserved == FixedSpec => []SlotsConserved
  BY Invariance, PTL DEF IInv

(***************************************************************************)
(* The occupied slots are the window of m_count slots from m_popIndex.     *)
(***************************************************************************)
THEOREM RingIsConsistent == FixedSpec => []RingConsistent
  BY Invariance, PTL DEF IInv

(***************************************************************************)
(* The destructor leaves no object alive.                                  *)
(***************************************************************************)
THEOREM NothingIsLeaked == FixedSpec => []NothingLeaks
<1>1. IInv => NothingLeaks
  <2> SUFFICES ASSUME IInv, ~alive, NEW s \in Slots PROVE data[s] = Raw
    BY DEF NothingLeaks
  <2>1. count = 0 /\ popIndex \in Slots
    BY DEF IInv, Quiet, FixedTypeOK
  <2>2. ~((s - popIndex) % Size < 0)
    BY <2>1, Distance, SizeAssumption DEF Slots
  <2>3. QED
    BY <2>1, <2>2 DEF IInv, RingConsistent
<1>2. QED
  BY <1>1, Invariance, PTL

(***************************************************************************)
(* No step replaces an item by another: a push constructs in raw memory.   *)
(***************************************************************************)
THEOREM NothingIsOverwritten == FixedSpec => NoOverwrite
<1>1. IInv /\ [FixedNext]_fixed_vars =>
        [\A s \in Slots : data'[s] # data[s] => Raw \in {data[s], data'[s]}]_data
  <2> SUFFICES ASSUME IInv, [FixedNext]_fixed_vars, data' # data,
                      NEW s \in Slots, data'[s] # data[s]
               PROVE  Raw \in {data[s], data'[s]}
    OBVIOUS
  <2>1. CASE \E t \in FixedThreads : FixedInsert(t)
    <3>1. PICK t \in FixedThreads : FixedInsert(t)
      BY <2>1
    <3>2. data[pushIndex] = Raw
      BY <3>1, RoomToPush DEF FixedInsert
    <3>3. QED
      BY <3>1, <3>2 DEF FixedInsert, IInv, FixedTypeOK
  <2>2. CASE \E t \in FixedThreads : Remove(t)
    BY <2>2 DEF Remove, IInv, FixedTypeOK
  <2>3. CASE Destroy
    BY <2>3 DEF Destroy
  <2>4. QED
    BY <2>1, <2>2, <2>3 DEF FixedNext, Run, fixed_vars, ring, FixedPushCall, PopCall, GetOpen, GetFull,
       TryPushFails, FixedTryPopFails, PushThrows, PopThrows, PostFull, PostOpen
<1>2. QED
  BY <1>1, Invariance, PTL DEF FixedSpec, NoOverwrite
-----------------------------------------------------------------------------
(* Refinement. The queue is the window, read from its beginning.           *)

LEMMA InWindow ==
  ASSUME NEW p \in Slots, NEW k \in 0..(Size - 1)
  PROVE  (p + k) % Size \in Slots /\ (((p + k) % Size) - p) % Size = k
<1>1. (p + k) % Size = IF p + k < Size THEN p + k ELSE p + k - Size
  BY Offset, SizeAssumption
<1>2. (p + k) % Size \in Slots
  BY <1>1, SizeAssumption DEF Slots
<1>3. PICK s \in Slots : s = (p + k) % Size
  BY <1>2
<1>4. (s - p) % Size = IF s >= p THEN s - p ELSE s - p + Size
  BY Distance
<1>5. QED
  BY <1>1, <1>3, <1>4, SizeAssumption DEF Slots

LEMMA QueueIs ==
  ASSUME IInv
  PROVE  /\ Queue \in Seq(FixedItems) /\ Len(Queue) = count
         /\ \A i \in 1..count : /\ (popIndex + i - 1) % Size \in Slots
                                /\ Queue[i] = data[(popIndex + i - 1) % Size]
                                /\ Queue[i] # Raw
<1>1. /\ popIndex \in Slots /\ count \in 0..Size /\ data \in [Slots -> FixedItems \cup {Raw}]
      /\ \A s \in Slots : data[s] # Raw <=> (s - popIndex) % Size < count
  BY DEF IInv, FixedTypeOK, RingConsistent
<1>2. ASSUME NEW i \in 1..count
      PROVE  (popIndex + i - 1) % Size \in Slots /\ data[(popIndex + i - 1) % Size] \in FixedItems
  <2>1. PICK k \in 0..(Size - 1) : k = i - 1
    BY <1>1, SizeAssumption
  <2>2. popIndex + i - 1 = popIndex + k
    BY <1>1, <2>1 DEF Slots
  <2>3. (popIndex + k) % Size \in Slots /\ (((popIndex + k) % Size) - popIndex) % Size < count
    BY <1>1, <2>1, InWindow
  <2>4. QED
    BY <1>1, <2>2, <2>3
<1>3. QED
  BY <1>1, <1>2, ItemsAssumption DEF Queue

LEMMA QueueEmpty == ASSUME count = 0 PROVE Queue = <<>>
BY DEF Queue

LEMMA QueueGrows ==
  ASSUME IInv, NEW t \in FixedThreads, FixedInsert(t)
  PROVE  Queue' = Append(Queue, fixed_item[t]) /\ Len(Queue) < Size
<1>1. /\ popIndex \in Slots /\ count \in 0..(Size - 1) /\ pushIndex \in Slots
      /\ data \in [Slots -> FixedItems \cup {Raw}] /\ fixed_pc[t] = "push_in"
      /\ pushIndex = (popIndex + count) % Size
      /\ popIndex' = popIndex /\ count' = count + 1
      /\ data' = [data EXCEPT ![pushIndex] = fixed_item[t]]
      /\ data[pushIndex] = Raw
  BY RoomToPush, SizeAssumption DEF IInv, FixedTypeOK, RingConsistent, FixedInsert
<1>2. /\ Queue \in Seq(FixedItems) /\ Len(Queue) = count
      /\ \A i \in 1..count : /\ (popIndex + i - 1) % Size \in Slots
                             /\ Queue[i] = data[(popIndex + i - 1) % Size]
                             /\ Queue[i] # Raw
  BY QueueIs
<1>3. ASSUME NEW i \in 1..count PROVE Queue'[i] = Queue[i]
  <2>1. Queue'[i] = data'[(popIndex + i - 1) % Size]
    BY <1>1 DEF Queue
  <2>2. QED
    BY <1>1, <1>2, <2>1
<1>4. Queue'[count + 1] = fixed_item[t]
  <2>1. Queue'[count + 1] = data'[(popIndex + (count + 1) - 1) % Size]
    BY <1>1 DEF Queue
  <2>2. popIndex + (count + 1) - 1 = popIndex + count
    BY <1>1 DEF Slots
  <2>3. QED
    BY <1>1, <2>1, <2>2
<1>5. fixed_item[t] \in FixedItems
  BY <1>1 DEF IInv, FixedTypeOK
<1>6. Queue' \in Seq(FixedItems) /\ Len(Queue') = count + 1
  <2>1. ASSUME NEW i \in 1..(count + 1) PROVE Queue'[i] \in FixedItems
    BY <1>1, <1>2, <1>3, <1>4, <1>5
  <2>2. Queue' = [i \in 1..(count + 1) |-> Queue'[i]]
    BY <1>1 DEF Queue
  <2>3. QED
    BY <1>1, <2>1, <2>2
<1>7. /\ Append(Queue, fixed_item[t]) \in Seq(FixedItems) /\ Len(Append(Queue, fixed_item[t])) = count + 1
      /\ \A i \in 1..count : Append(Queue, fixed_item[t])[i] = Queue[i]
      /\ Append(Queue, fixed_item[t])[count + 1] = fixed_item[t]
  BY <1>1, <1>2, <1>5
<1>8. \A i \in 1..(count + 1) : Queue'[i] = Append(Queue, fixed_item[t])[i]
  BY <1>1, <1>3, <1>4, <1>7
<1>9. Queue' = Append(Queue, fixed_item[t])
  BY <1>6, <1>7, <1>8
<1>10. QED
  BY <1>1, <1>2, <1>9, SizeAssumption

LEMMA QueueShrinks ==
  ASSUME IInv, NEW t \in FixedThreads, Remove(t)
  PROVE  Queue # <<>> /\ data[popIndex] = Head(Queue) /\ Queue' = Tail(Queue)
<1>1. /\ popIndex \in Slots /\ count \in 1..Size
      /\ data \in [Slots -> FixedItems \cup {Raw}] /\ fixed_pc[t] = "pop_in"
      /\ popIndex' = Advance(popIndex) /\ count' = count - 1
      /\ data' = [data EXCEPT ![popIndex] = Raw]
  BY ItemToPop, SizeAssumption DEF IInv, FixedTypeOK, Remove
<1>2. /\ Queue \in Seq(FixedItems) /\ Len(Queue) = count
      /\ \A i \in 1..count : /\ (popIndex + i - 1) % Size \in Slots
                             /\ Queue[i] = data[(popIndex + i - 1) % Size]
  BY QueueIs
<1>3. data[popIndex] = Queue[1]
  <2>1. popIndex + 1 - 1 = popIndex /\ popIndex % Size = popIndex
    BY <1>1, ModSmall DEF Slots
  <2>2. QED
    BY <1>1, <1>2, <2>1
<1>4. ASSUME NEW i \in 1..(count - 1) PROVE Queue'[i] = Queue[i + 1]
  <2>1. PICK k \in 1..(Size - 1) : k = i
    BY <1>1, SizeAssumption
  <2>2. (Advance(popIndex) + ((k + 1) - 1)) % Size = (popIndex + (k + 1)) % Size
    <3>1. k + 1 \in 1..Size
      BY SizeAssumption
    <3>2. QED
      BY <1>1, <3>1, WindowShrinks
  <2>3. (Advance(popIndex) + (k - 1)) % Size = (popIndex + k) % Size
    <3>1. k \in 1..Size
      BY SizeAssumption
    <3>2. QED
      BY <1>1, <3>1, WindowShrinks
  <2>4. (popIndex + k) % Size \in Slots /\ (popIndex + k) % Size # popIndex
    <3>1. (((popIndex + k) % Size) - popIndex) % Size = k /\ (popIndex + k) % Size \in Slots
      BY <1>1, InWindow
    <3>2. (popIndex - popIndex) % Size = 0
      BY <1>1, Distance DEF Slots
    <3>3. QED
      BY <3>1, <3>2
  <2>5. Queue'[i] = data'[(Advance(popIndex) + i - 1) % Size]
    BY <1>1 DEF Queue
  <2>6. Queue[i + 1] = data[(popIndex + (i + 1) - 1) % Size]
    BY <1>1, <1>2
  <2>7. /\ Advance(popIndex) + i - 1 = Advance(popIndex) + (k - 1)
        /\ popIndex + (i + 1) - 1 = popIndex + k
    BY <1>1, <2>1, AdvanceType DEF Slots
  <2>8. QED
    BY <1>1, <2>3, <2>4, <2>5, <2>6, <2>7
<1>5. Tail(Queue) \in Seq(FixedItems) /\ Len(Tail(Queue)) = count - 1
      /\ \A i \in 1..(count - 1) : Tail(Queue)[i] = Queue[i + 1]
  BY <1>1, <1>2
<1>6. Queue' \in Seq(FixedItems) /\ Len(Queue') = count - 1
  <2>1. ASSUME NEW i \in 1..(count - 1) PROVE Queue'[i] \in FixedItems
    BY <1>1, <1>2, <1>4
  <2>2. Queue' = [i \in 1..(count - 1) |-> Queue'[i]]
    BY <1>1 DEF Queue
  <2>3. QED
    BY <1>1, <2>1, <2>2
<1>7. Queue' = Tail(Queue)
  BY <1>4, <1>5, <1>6
<1>8. Queue # <<>> /\ Head(Queue) = Queue[1]
  BY <1>1, <1>2
<1>9. QED
  BY <1>3, <1>7, <1>8

LEMMA CallMoves ==
  ASSUME FixedTypeOK, NEW t \in FixedThreads, NEW p \in Places, FixedGo(t, p)
  PROVE  /\ [u \in FixedThreads |-> CallAt(fixed_pc'[u])]
              = [[u \in FixedThreads |-> CallAt(fixed_pc[u])] EXCEPT ![t] = CallAt(p)]
         /\ CallAt(p) = CallAt(fixed_pc[t]) =>
              [u \in FixedThreads |-> CallAt(fixed_pc'[u])] = [u \in FixedThreads |-> CallAt(fixed_pc[u])]
BY DEF FixedTypeOK, FixedGo

LEMMA FixedInitRefines == FixedInit => FixedAbstract!Init
<1> SUFFICES ASSUME FixedInit PROVE FixedAbstract!Init
  OBVIOUS
<1>1. Queue = <<>>
  BY QueueEmpty DEF FixedInit
<1>2. \A t \in FixedThreads : CallAt(fixed_pc[t]) = "idle"
  BY DEF FixedInit, CallAt
<1>3. QED
  BY <1>1, <1>2 DEF FixedInit, FixedAbstract!Init

\* Steps that leave the ring and the destructor alone.
LEMMA SameQueue == ASSUME UNCHANGED ring PROVE Queue' = Queue
BY DEF ring, Queue

LEMMA CallRefines ==
  ASSUME IInv, NEW t \in FixedThreads, NEW p \in Places,
         (\E x \in FixedItems : FixedPushCall(t, p, x)) \/ PopCall(t, p)
  PROVE  FixedAbstract!Next
<1>1. /\ alive /\ alive' = alive /\ Queue' = Queue /\ fixed_pc[t] = "idle" /\ FixedGo(t, p)
      /\ p \in {"push", "try_push", "pop", "try_pop"} /\ FixedTypeOK
  BY SameQueue DEF FixedPushCall, PopCall, IInv
<1>2. CallAt(fixed_pc[t]) = "idle" /\ CallAt(p) = p /\ p \in FixedAbstract!Ops
  BY <1>1 DEF CallAt, FixedAbstract!Ops
<1>3. [u \in FixedThreads |-> CallAt(fixed_pc'[u])] = [[u \in FixedThreads |-> CallAt(fixed_pc[u])] EXCEPT ![t] = p]
  BY <1>1, <1>2, CallMoves
<1>4. ASSUME NEW x \in FixedItems, FixedPushCall(t, p, x) PROVE FixedAbstract!CallPush(t, p, x)
  BY <1>1, <1>2, <1>3, <1>4 DEF FixedPushCall, FixedAbstract!CallPush
<1>5. ASSUME PopCall(t, p) PROVE FixedAbstract!CallPop(t, p)
  BY <1>1, <1>2, <1>3, <1>5 DEF PopCall, FixedAbstract!CallPop
<1>6. QED
  BY <1>2, <1>4, <1>5 DEF FixedAbstract!Next

LEMMA GetRefines ==
  ASSUME IInv, NEW t \in FixedThreads, GetOpen(t) \/ GetFull(t)
  PROVE  FixedAbstract!Commit(t) \/ UNCHANGED (FixedAbstract!vars)
<1>1. /\ alive' = alive /\ Queue' = Queue /\ fixed_item' = fixed_item /\ FixedTypeOK
      /\ \/ fixed_pc[t] \in {"push", "try_push"} /\ FixedGo(t, "push_in")
         \/ fixed_pc[t] \in {"pop", "try_pop"} /\ FixedGo(t, "pop_in")
  BY SameQueue DEF GetOpen, GetFull, IInv
<1>2. CASE fixed_pc[t] \in {"push", "pop"}
  BY <1>1, <1>2, CallMoves DEF CallAt, Places, FixedAbstract!vars
<1>3. CASE fixed_pc[t] = "try_push"
  BY <1>1, <1>3, CallMoves DEF CallAt, Places, FixedAbstract!Commit
<1>4. CASE fixed_pc[t] = "try_pop"
  BY <1>1, <1>4, CallMoves DEF CallAt, Places, FixedAbstract!Commit
<1>5. QED
  BY <1>1, <1>2, <1>3, <1>4

LEMMA LeaveRefines ==
  ASSUME IInv, NEW t \in FixedThreads
  PROVE  /\ PostFull(t) \/ PostOpen(t) => FixedAbstract!Return(t)
         /\ PushThrows(t) \/ PopThrows(t) => FixedAbstract!Throws(t)
<1> SUFFICES ASSUME PostFull(t) \/ PostOpen(t) \/ PushThrows(t) \/ PopThrows(t)
             PROVE  /\ PostFull(t) \/ PostOpen(t) => FixedAbstract!Return(t)
                    /\ PushThrows(t) \/ PopThrows(t) => FixedAbstract!Throws(t)
  OBVIOUS
<1>1. /\ alive' = alive /\ Queue' = Queue /\ fixed_item' = fixed_item /\ FixedGo(t, "idle") /\ FixedTypeOK
  BY SameQueue DEF PostFull, PostOpen, PushThrows, PopThrows, IInv
<1>2. CallAt("idle") = "idle"
  BY DEF CallAt
<1>3. [u \in FixedThreads |-> CallAt(fixed_pc'[u])] = [[u \in FixedThreads |-> CallAt(fixed_pc[u])] EXCEPT ![t] = "idle"]
  BY <1>1, <1>2, CallMoves DEF Places
<1>4. PostFull(t) \/ PostOpen(t) => CallAt(fixed_pc[t]) = "leaving"
  BY DEF PostFull, PostOpen, CallAt
<1>5. PushThrows(t) \/ PopThrows(t) => CallAt(fixed_pc[t]) \in {"push", "pop"}
  BY DEF PushThrows, PopThrows, CallAt
<1>6. QED
  BY <1>1, <1>3, <1>4, <1>5 DEF FixedAbstract!Return, FixedAbstract!Throws

LEMMA InsertRefines == ASSUME IInv, NEW t \in FixedThreads, FixedInsert(t) PROVE FixedAbstract!Insert(t)
<1>1. /\ alive /\ alive' = alive /\ fixed_item' = fixed_item /\ FixedTypeOK
      /\ fixed_pc[t] = "push_in" /\ FixedGo(t, "push_post")
  BY BusyAlive DEF FixedInsert, IInv
<1>2. Queue' = Append(Queue, fixed_item[t]) /\ Len(Queue) < Size
  BY QueueGrows
<1>3. CallAt(fixed_pc[t]) = "push" /\ CallAt("push_post") = "leaving"
  BY <1>1 DEF CallAt
<1>4. [u \in FixedThreads |-> CallAt(fixed_pc'[u])]
        = [[u \in FixedThreads |-> CallAt(fixed_pc[u])] EXCEPT ![t] = "leaving"]
  BY <1>1, <1>3, CallMoves DEF Places
<1>5. QED
  BY <1>1, <1>2, <1>3, <1>4 DEF FixedAbstract!Insert

LEMMA RemoveRefines == ASSUME IInv, NEW t \in FixedThreads, Remove(t) PROVE FixedAbstract!Remove(t)
<1>1. /\ alive /\ alive' = alive /\ fixed_item' = [fixed_item EXCEPT ![t] = data[popIndex]] /\ FixedTypeOK
      /\ fixed_pc[t] = "pop_in" /\ FixedGo(t, "pop_post")
  BY BusyAlive DEF Remove, IInv
<1>2. Queue # <<>> /\ data[popIndex] = Head(Queue) /\ Queue' = Tail(Queue)
  BY QueueShrinks
<1>3. CallAt(fixed_pc[t]) = "pop" /\ CallAt("pop_post") = "leaving"
  BY <1>1 DEF CallAt
<1>4. [u \in FixedThreads |-> CallAt(fixed_pc'[u])]
        = [[u \in FixedThreads |-> CallAt(fixed_pc[u])] EXCEPT ![t] = "leaving"]
  BY <1>1, <1>3, CallMoves DEF Places
<1>5. QED
  BY <1>1, <1>2, <1>3, <1>4 DEF FixedAbstract!Remove

\* BoundedFifo counts as this module does.
LEMMA SameCardinality == \A S : FixedAbstract!Cardinality(S) = Cardinality(S)
BY Zenon DEF FixedAbstract!Cardinality, Cardinality

\* The other threads' calls are at least those in any two places, the thread's own aside.
LEMMA OthersBusy ==
  ASSUME NEW t \in FixedThreads, NEW p \in Places \ {"idle"}, NEW o \in Places \ {"idle"},
         p # o, fixed_pc[t] \notin {p, o}
  PROVE  /\ Cardinality(FixedAbstract!Others(t)) \in Nat
         /\ Cardinality(FixedAt(p)) + Cardinality(FixedAt(o)) <= Cardinality(FixedAbstract!Others(t))
<1>1. FixedAbstract!Others(t) \subseteq FixedThreads
  BY DEF FixedAbstract!Others
<1>2. IsFiniteSet(FixedAbstract!Others(t)) /\ Cardinality(FixedAbstract!Others(t)) \in Nat
  BY <1>1, ThreadsAssumption, FS_Subset, FS_CardinalityType
<1>3. FixedAt(p) \cup FixedAt(o) \subseteq FixedAbstract!Others(t)
  BY DEF FixedAt, FixedAbstract!Others, CallAt, Places
<1>4. IsFiniteSet(FixedAt(p)) /\ IsFiniteSet(FixedAt(o)) /\ FixedAt(p) \cap FixedAt(o) = {}
  BY FixedFiniteAt DEF FixedAt
<1>5. Cardinality(FixedAt(p) \cup FixedAt(o)) = Cardinality(FixedAt(p)) + Cardinality(FixedAt(o))
  <2>1. Cardinality(FixedAt(p) \cup FixedAt(o)) =
          Cardinality(FixedAt(p)) + Cardinality(FixedAt(o)) - Cardinality(FixedAt(p) \cap FixedAt(o))
    BY <1>4, FS_Union
  <2>2. Cardinality(FixedAt(p) \cap FixedAt(o)) = 0
    BY <1>4, FS_EmptySet
  <2>3. Cardinality(FixedAt(p)) \in Nat /\ Cardinality(FixedAt(o)) \in Nat
    BY FixedFiniteAt
  <2>4. QED
    BY <2>1, <2>2, <2>3
<1>6. QED
  BY <1>2, <1>3, <1>5, FS_Subset

LEMMA TryFailsRefines ==
  ASSUME IInv, NEW t \in FixedThreads
  PROVE  /\ TryPushFails(t) => FixedAbstract!TryPushFails(t)
         /\ FixedTryPopFails(t) => FixedAbstract!TryPopFails(t)
<1>0. FixedTypeOK /\ SlotsConserved /\ \A p : Cardinality(FixedAt(p)) \in Nat
  BY FixedFiniteAt DEF IInv
<1>1. CallAt("idle") = "idle" /\ Len(Queue) = count /\ count \in Nat
  BY QueueIs, SizeAssumption DEF CallAt, IInv, FixedTypeOK
<1>2. ASSUME TryPushFails(t) PROVE FixedAbstract!TryPushFails(t)
  <2>1. /\ alive /\ alive' = alive /\ Queue' = Queue /\ fixed_item' = fixed_item
        /\ open = 0 /\ fixed_pc[t] = "try_push" /\ FixedGo(t, "idle")
    BY <1>2, BusyAlive, SameQueue DEF TryPushFails, Open!GiveUp
  <2>2. /\ Cardinality(FixedAbstract!Others(t)) \in Nat
        /\ Cardinality(FixedAt("push_in")) + Cardinality(FixedAt("pop_post")) <=
             Cardinality(FixedAbstract!Others(t))
    BY <2>1, OthersBusy DEF Places
  <2>3. count + Cardinality(FixedAbstract!Others(t)) >= Size
    BY <1>0, <1>1, <2>1, <2>2, SizeAssumption DEF SlotsConserved
  <2>4. CallAt(fixed_pc[t]) = "try_push"
    BY <2>1 DEF CallAt
  <2>5. [u \in FixedThreads |-> CallAt(fixed_pc'[u])]
          = [[u \in FixedThreads |-> CallAt(fixed_pc[u])] EXCEPT ![t] = "idle"]
    BY <1>0, <1>1, <2>1, CallMoves DEF Places
  <2>6. QED
    BY <1>1, <2>1, <2>3, <2>4, <2>5, SameCardinality
       DEF FixedAbstract!TryPushFails
<1>3. ASSUME FixedTryPopFails(t) PROVE FixedAbstract!TryPopFails(t)
  <2>1. /\ alive /\ alive' = alive /\ Queue' = Queue /\ fixed_item' = fixed_item
        /\ full = 0 /\ fixed_pc[t] = "try_pop" /\ FixedGo(t, "idle")
    BY <1>3, BusyAlive, SameQueue DEF FixedTryPopFails, Full!GiveUp
  <2>2. Cardinality(FixedAt("pop_in")) + Cardinality(FixedAt("push_post")) <=
          Cardinality(FixedAbstract!Others(t))
    BY <2>1, OthersBusy DEF Places
  <2>3. count <= Cardinality(FixedAbstract!Others(t))
    BY <1>0, <1>1, <2>1, <2>2 DEF SlotsConserved
  <2>4. CallAt(fixed_pc[t]) = "try_pop"
    BY <2>1 DEF CallAt
  <2>5. [u \in FixedThreads |-> CallAt(fixed_pc'[u])]
          = [[u \in FixedThreads |-> CallAt(fixed_pc[u])] EXCEPT ![t] = "idle"]
    BY <1>0, <1>1, <2>1, CallMoves DEF Places
  <2>6. QED
    BY <1>1, <2>1, <2>3, <2>4, <2>5, SameCardinality
       DEF FixedAbstract!TryPopFails
<1>4. QED
  BY <1>2, <1>3

LEMMA DestroyRefines == ASSUME IInv, Destroy PROVE FixedAbstract!Discard
<1>1. /\ alive' = FALSE /\ fixed_pc' = fixed_pc /\ fixed_item' = fixed_item /\ FixedAt("idle") = FixedThreads
  BY DEF Destroy
<1>2. \A t \in FixedThreads : CallAt(fixed_pc[t]) = "idle"
  BY <1>1 DEF FixedAt, CallAt
<1>3. FixedAbstract!In("idle") = FixedThreads
  BY <1>2 DEF FixedAbstract!In
<1>4. QED
  BY <1>1, <1>3 DEF FixedAbstract!Discard

LEMMA FixedNextRefines == IInv /\ [FixedNext]_fixed_vars => [FixedAbstract!Next]_(FixedAbstract!vars)
<1> SUFFICES ASSUME IInv, [FixedNext]_fixed_vars PROVE FixedAbstract!Next \/ UNCHANGED (FixedAbstract!vars)
  OBVIOUS
<1>1. CASE UNCHANGED fixed_vars
  BY <1>1, SameQueue DEF fixed_vars, FixedAbstract!vars
<1>2. ASSUME NEW t \in FixedThreads, NEW p \in Places,
             (\E x \in FixedItems : FixedPushCall(t, p, x)) \/ PopCall(t, p)
      PROVE  FixedAbstract!Next
  BY <1>2, CallRefines
<1>3. ASSUME NEW t \in FixedThreads, GetOpen(t) \/ GetFull(t)
      PROVE  FixedAbstract!Next \/ UNCHANGED (FixedAbstract!vars)
  BY <1>3, GetRefines DEF FixedAbstract!Next
<1>4. ASSUME NEW t \in FixedThreads, Run(t) PROVE FixedAbstract!Next
  BY <1>4, LeaveRefines, InsertRefines, RemoveRefines, TryFailsRefines DEF Run, FixedAbstract!Next
<1>5. CASE Destroy
  BY <1>5, DestroyRefines DEF FixedAbstract!Next
<1>6. QED
  BY <1>1, <1>2, <1>3, <1>4, <1>5 DEF FixedNext

(***************************************************************************)
(* queue_c11.h:156-424: every behaviour of the ring with its mutex and two *)
(* semaphores is one of a bounded FIFO: items leave in the order in which  *)
(* they came, each once, also when copying one throws, and a try_ call     *)
(* fails only when all slots, or all items, are taken up by other calls.   *)
(***************************************************************************)
THEOREM IsABoundedFifo == FixedSpec => FixedImplementsFifo
BY Invariance, FixedInitRefines, FixedNextRefines, PTL DEF FixedSpec, FixedImplementsFifo, FixedAbstract!Safety
==============================================================================
