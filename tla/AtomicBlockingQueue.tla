------------------------- MODULE AtomicBlockingQueue -------------------------
(***************************************************************************)
(* utilcxx::AtomicBlockingQueue (utilcxx/queue_c11.h; atomic_blocking_     *)
(* queue of queue.h is the same code): the ring of FixedBlockingQueue      *)
(* without its mutex. A push takes an index with fetch_add, constructs the *)
(* item in that slot, counts it, and reduces m_pushIndex modulo m_size in  *)
(* a compare-and-swap loop before it posts m_fullSlots; a pop does the     *)
(* same with m_popIndex. Each access to an atomic, and each access to a    *)
(* slot, is a step. The semaphores are their contract, AbstractSemaphore.  *)
(* m_pushIndex and m_popIndex stay below m_size plus the number of         *)
(* threads, far from the width of unsigned int.                            *)
(***************************************************************************)
EXTENDS Integers, Sequences, FiniteSets

CONSTANTS Producers, Consumers,   \* the threads that push, and that pop
          Items,       \* what can be queued
          NoItem,      \* the value of a variable no item was assigned to
          Raw,         \* the content of a slot that holds no object
          Size         \* m_size

\* The constructor throws when its argument is 0 (queue_c11.h:579).
ASSUME SizeAssumption == Size \in Nat \ {0}

ASSUME ThreadsAssumption ==
    IsFiniteSet(Producers) /\ IsFiniteSet(Consumers) /\ Producers \cap Consumers = {}

ASSUME ItemsAssumption == NoItem \notin Items /\ Raw \notin Items \cup {NoItem}

VARIABLES data,        \* m_data
          pushIndex,   \* m_pushIndex
          popIndex,    \* m_popIndex
          count,       \* m_count
          open,        \* the tokens of m_openSlots
          full,        \* the tokens of m_fullSlots
          pc,          \* where each thread is
          item,        \* its argument: the item it pushes, or last popped
          idx,         \* its pushIndex or popIndex, from fetch_add
          expected,    \* its local of that name
          desired,     \* the value it is about to swap in
          alive        \* the destructor has not run

atomics == <<pushIndex, popIndex, count>>
locals == <<item, idx, expected, desired>>
vars == <<data, atomics, open, full, pc, locals, alive>>

Threads == Producers \cup Consumers

(***************************************************************************)
(*   wait, try      at the semaphore of its side, m_openSlots or           *)
(*                  m_fullSlots, in push or pop, or in try_push or try_pop *)
(*   fetch          before fetch_add on the index of its side              *)
(*   access         before it constructs in, or moves out of, its slot     *)
(*   count          before it adds to or subtracts from m_count            *)
(*   load, desire   before the first and the second load of the index      *)
(*   swap           before the compare-and-swap                            *)
(*   post           before it posts the semaphore of the other side        *)
(***************************************************************************)
Places == {"idle", "wait", "try", "fetch", "access", "count", "load", "desire",
           "swap", "post"}

Slots == 0..(Size - 1)

\* An index never reaches more than this: it is below Size when reduced.
Indices == 0..(Size + Cardinality(Threads))

At(p) == {t \in Threads : pc[t] = p}

Go(t, p) == pc' = [pc EXCEPT ![t] = p]

Open == INSTANCE AbstractSemaphore
          WITH InitCount <- Size, MaxPost <- 1, MaxCount <- Size + Cardinality(Threads),
               count <- open,
               waiting <- At("wait") \cap Producers, timed <- At("try") \cap Producers

Full == INSTANCE AbstractSemaphore
          WITH InitCount <- 0, MaxPost <- 1, MaxCount <- Size + Cardinality(Threads),
               count <- full,
               waiting <- At("wait") \cap Consumers, timed <- At("try") \cap Consumers

Init == /\ data = [s \in Slots |-> Raw]
        /\ pushIndex = 0 /\ popIndex = 0 /\ count = 0
        /\ pc = [t \in Threads |-> "idle"]
        /\ Open!Init /\ Full!Init
        /\ item = [t \in Threads |-> NoItem]
        /\ idx = [t \in Threads |-> 0]
        /\ expected = [t \in Threads |-> 0]
        /\ desired = [t \in Threads |-> 0]
        /\ alive = TRUE

PushCall(t, p, x) == /\ alive /\ t \in Producers /\ pc[t] = "idle" /\ p \in {"wait", "try"}
                     /\ Go(t, p)
                     /\ item' = [item EXCEPT ![t] = x]
                     /\ UNCHANGED <<data, atomics, open, full, idx, expected, desired, alive>>

PopCall(t, p) == /\ alive /\ t \in Consumers /\ pc[t] = "idle" /\ p \in {"wait", "try"}
                 /\ Go(t, p)
                 /\ UNCHANGED <<data, atomics, open, full, locals, alive>>

GetOpen(t) == /\ t \in Producers /\ pc[t] \in {"wait", "try"} /\ Go(t, "fetch")
              /\ Open!Acquire(t)
              /\ UNCHANGED <<data, atomics, full, locals, alive>>

\* MUTANT of GetFull: try_pop ignores the result of wait_for.
GetFullOrNot(t) == /\ t \in Consumers /\ pc[t] \in {"wait", "try"} /\ Go(t, "fetch")
                   /\ \/ Full!Acquire(t)
                      \/ Full!GiveUp(t)
                   /\ UNCHANGED <<data, atomics, open, locals, alive>>

GetFull(t) == /\ t \in Consumers /\ pc[t] \in {"wait", "try"} /\ Go(t, "fetch")
              /\ Full!Acquire(t)
              /\ UNCHANGED <<data, atomics, open, locals, alive>>

\* try_push or try_pop returns false.
TryFails(t) == /\ pc[t] = "try" /\ Go(t, "idle")
               /\ \/ t \in Producers /\ Open!GiveUp(t) /\ UNCHANGED full
                  \/ t \in Consumers /\ Full!GiveUp(t) /\ UNCHANGED open
               /\ UNCHANGED <<data, atomics, locals, alive>>

\* The index of the side of t.
Index(t) == IF t \in Producers THEN pushIndex ELSE popIndex

SetIndex(t, i) == IF t \in Producers THEN pushIndex' = i /\ UNCHANGED popIndex
                                     ELSE popIndex' = i /\ UNCHANGED pushIndex

FetchAdd(t) == /\ pc[t] = "fetch" /\ Go(t, "access")
               /\ idx' = [idx EXCEPT ![t] = Index(t)]
               /\ SetIndex(t, Index(t) + 1)
               /\ UNCHANGED <<data, count, open, full, item, expected, desired, alive>>

Slot(t) == idx[t] % Size

Construct(t) == /\ t \in Producers /\ pc[t] = "access" /\ Go(t, "count")
                /\ data' = [data EXCEPT ![Slot(t)] = item[t]]
                /\ UNCHANGED <<atomics, open, full, locals, alive>>

\* MUTANT of MoveOut: moves out of the slot m_popIndex shows by now.
MoveOutOfCurrent(t) ==
    /\ t \in Consumers /\ pc[t] = "access" /\ Go(t, "count")
    /\ item' = [item EXCEPT ![t] = data[popIndex % Size]]
    /\ data' = [data EXCEPT ![popIndex % Size] = Raw]
    /\ UNCHANGED <<atomics, open, full, idx, expected, desired, alive>>

MoveOut(t) == /\ t \in Consumers /\ pc[t] = "access" /\ Go(t, "count")
              /\ item' = [item EXCEPT ![t] = data[Slot(t)]]
              /\ data' = [data EXCEPT ![Slot(t)] = Raw]
              /\ UNCHANGED <<atomics, open, full, idx, expected, desired, alive>>

Count(t) == /\ pc[t] = "count" /\ Go(t, "load")
            /\ count' = count + (IF t \in Producers THEN 1 ELSE -1)
            /\ UNCHANGED <<data, pushIndex, popIndex, open, full, locals, alive>>

Load(t) == /\ pc[t] = "load" /\ Go(t, "desire")
           /\ expected' = [expected EXCEPT ![t] = Index(t)]
           /\ UNCHANGED <<data, atomics, open, full, item, idx, desired, alive>>

\* The argument m_pushIndex % m_size of the compare-and-swap loads it again.
Desire(t) == /\ pc[t] = "desire" /\ Go(t, "swap")
             /\ desired' = [desired EXCEPT ![t] = Index(t) % Size]
             /\ UNCHANGED <<data, atomics, open, full, item, idx, expected, alive>>

Swap(t) == /\ pc[t] = "swap" /\ Go(t, "post")
           /\ Index(t) = expected[t]
           /\ SetIndex(t, desired[t])
           /\ UNCHANGED <<data, count, open, full, locals, alive>>

\* The comparison fails, or compare_exchange_weak fails for no reason.
SwapFails(t) == /\ pc[t] = "swap" /\ Go(t, "load")
                /\ UNCHANGED <<data, atomics, open, full, locals, alive>>

\* The locals end with the call.
Return(t) == /\ Go(t, "idle")
             /\ idx' = [idx EXCEPT ![t] = 0]
             /\ expected' = [expected EXCEPT ![t] = 0]
             /\ desired' = [desired EXCEPT ![t] = 0]

PostFull(t) == /\ t \in Producers /\ pc[t] = "post" /\ Return(t)
               /\ Full!Post(t, 1)
               /\ UNCHANGED <<data, atomics, open, item, alive>>

PostOpen(t) == /\ t \in Consumers /\ pc[t] = "post" /\ Return(t)
               /\ Open!Post(t, 1)
               /\ UNCHANGED <<data, atomics, full, item, alive>>

\* MUTANT of Visited: the destructor counts down before it tests.
VisitedButOne ==
    IF count <= 1 THEN {} ELSE {popIndex} \cup {(popIndex + k) % Size : k \in 1..(count - 2)}

\* What the destructor visits: m_popIndex as it is, then the slots after it.
Visited ==
    IF count = 0 THEN {} ELSE {popIndex} \cup {(popIndex + k) % Size : k \in 1..(count - 1)}

\* The destructor runs when no thread uses the queue any more.
Destroy == /\ alive /\ alive' = FALSE
           /\ At("idle") = Threads
           /\ data' = [s \in Slots |-> IF s \in Visited THEN Raw ELSE data[s]]
           /\ popIndex' = (popIndex + count) % Size
           /\ count' = 0
           /\ UNCHANGED <<pushIndex, open, full, pc, locals>>

Run(t) == \/ FetchAdd(t) \/ Construct(t) \/ MoveOut(t) \/ Count(t) \/ Load(t)
          \/ Desire(t) \/ Swap(t) \/ PostFull(t) \/ PostOpen(t) \/ TryFails(t)

Next == \/ \E t \in Threads : \/ \E p \in Places, x \in Items : PushCall(t, p, x)
                              \/ \E p \in Places : PopCall(t, p)
                              \/ GetOpen(t) \/ GetFull(t) \/ Run(t) \/ SwapFails(t)
        \/ Destroy

(***************************************************************************)
(* The scheduler runs every thread that can run; a compare-and-swap that   *)
(* is tried again and again on an index nobody else changes succeeds in    *)
(* the end; and the semaphores do not keep a token while somebody waits.   *)
(***************************************************************************)
Fairness == /\ \A t \in Threads : WF_vars(Run(t)) /\ SF_vars(Swap(t))
            /\ WF_vars(\E t \in Threads : GetOpen(t))
            /\ WF_vars(\E t \in Threads : GetFull(t))

Spec == Init /\ [][Next]_vars /\ Fairness
------------------------------------------------------------------------------
TypeOK == /\ data \in [Slots -> Items \cup {Raw}]
          /\ pushIndex \in Indices /\ popIndex \in Indices
          /\ count \in Int
          /\ open \in 0..Size /\ full \in 0..Size
          /\ pc \in [Threads -> Places]
          /\ item \in [Threads -> Items \cup {NoItem, Raw}]
          /\ alive \in BOOLEAN
          /\ {idx, expected, desired} \subseteq [Threads -> Indices]

(***************************************************************************)
(* A pop never moves out of a slot in which no item has been constructed.  *)
(***************************************************************************)
NeverPopsRaw == \A t \in Threads : item[t] # Raw

(***************************************************************************)
(* The destructor (queue_c11.h:583-591) destroys what is left, and nothing *)
(* else: it indexes m_data with m_popIndex unreduced, and so relies on the *)
(* compare-and-swap of the last pop.                                       *)
(***************************************************************************)
NothingLeaks == ~alive => \A s \in Slots : data[s] = Raw

(***************************************************************************)
(* With one producer and one consumer the queue implements the bounded     *)
(* FIFO: its items are the occupied slots from the next one to pop.        *)
(***************************************************************************)
Occupied == {s \in Slots : data[s] # Raw}

NextPop == IF \E c \in Consumers : pc[c] = "access"
           THEN Slot(CHOOSE c \in Consumers : pc[c] = "access")
           ELSE popIndex % Size

Queue == [i \in 1..Cardinality(Occupied) |-> data[(NextPop + i - 1) % Size]]

\* The call a thread at this place is in.
CallAt(t, place) ==
    LET name == IF t \in Producers THEN "push" ELSE "pop"
    IN  CASE place = "idle" -> "idle"
          [] place = "try" -> IF t \in Producers THEN "try_push" ELSE "try_pop"
          [] place \in {"wait", "fetch", "access"} -> name
          [] OTHER -> "leaving"

Abstract == INSTANCE BoundedFifo
    WITH queue <- Queue, op <- [t \in Threads |-> CallAt(t, pc[t])]

ImplementsFifo == Abstract!Safety

ImplementsBoundedFifo == Abstract!Spec
==============================================================================
