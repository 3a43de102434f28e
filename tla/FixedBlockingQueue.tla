-------------------------- MODULE FixedBlockingQueue -------------------------
(***************************************************************************)
(* utilcxx::FixedBlockingQueue (utilcxx/queue_c11.h; fixed_blocking_queue  *)
(* of queue.h is the same code): a ring of raw memory, a mutex m_cs around *)
(* every access to it, a semaphore that counts the free slots and one that *)
(* counts the full ones. The semaphores are their contract,                *)
(* AbstractSemaphore. No method tries m_cs, so a critical section is one   *)
(* step; waiting for a semaphore, the critical section and posting the     *)
(* other semaphore are three. The noexcept overloads are the behaviours in *)
(* which the copy or move of an item never throws.                         *)
(***************************************************************************)
EXTENDS Integers, Sequences, FiniteSets

CONSTANTS FixedThreads,  \* the calling threads
          FixedItems,    \* what can be queued
          FixedNoItem,   \* the value of a variable no item was assigned to
          Raw,           \* the content of a slot that holds no object
          Size           \* m_size

\* The constructor throws when its argument is 0 (queue_c11.h:171).
ASSUME SizeAssumption == Size \in Nat \ {0}

ASSUME ThreadsAssumption == IsFiniteSet(FixedThreads)

ASSUME ItemsAssumption == FixedNoItem \notin FixedItems /\ Raw \notin FixedItems

VARIABLES data,          \* m_data
          pushIndex,     \* m_pushIndex
          popIndex,      \* m_popIndex
          count,         \* m_count
          open,          \* the tokens of m_openSlots
          full,          \* the tokens of m_fullSlots
          fixed_pc,      \* where each thread is
          fixed_item,    \* its argument: the item it pushes, or last popped
          alive          \* the destructor has not run

ring == <<data, pushIndex, popIndex, count>>
fixed_vars == <<ring, open, full, fixed_pc, fixed_item, alive>>

(***************************************************************************)
(*   push, try_push   at m_openSlots                                       *)
(*   push_in          has a free slot, before the critical section         *)
(*   push_post        after it, before m_fullSlots.post()                  *)
(* and the same for pop with the semaphores exchanged.                     *)
(***************************************************************************)
Places == {"idle", "push", "try_push", "push_in", "push_post",
           "pop", "try_pop", "pop_in", "pop_post"}

Slots == 0..(Size - 1)

FixedAt(p) == {t \in FixedThreads : fixed_pc[t] = p}

FixedGo(t, p) == fixed_pc' = [fixed_pc EXCEPT ![t] = p]

Open == INSTANCE AbstractSemaphore
          WITH Threads <- FixedThreads, InitCount <- Size, MaxPost <- 1,
               MaxCount <- Size + Cardinality(FixedThreads),
               count <- open, waiting <- FixedAt("push"), timed <- FixedAt("try_push")

Full == INSTANCE AbstractSemaphore
          WITH Threads <- FixedThreads, InitCount <- 0, MaxPost <- 1,
               MaxCount <- Size + Cardinality(FixedThreads),
               count <- full, waiting <- FixedAt("pop"), timed <- FixedAt("try_pop")

FixedInit == /\ data = [s \in Slots |-> Raw]
             /\ pushIndex = 0 /\ popIndex = 0 /\ count = 0
             /\ fixed_pc = [t \in FixedThreads |-> "idle"]
             /\ Open!Init /\ Full!Init
             /\ fixed_item = [t \in FixedThreads |-> FixedNoItem]
             /\ alive = TRUE

FixedPushCall(t, p, x) == /\ alive /\ fixed_pc[t] = "idle" /\ p \in {"push", "try_push"}
                          /\ FixedGo(t, p)
                          /\ fixed_item' = [fixed_item EXCEPT ![t] = x]
                          /\ UNCHANGED <<ring, open, full, alive>>

PopCall(t, p) == /\ alive /\ fixed_pc[t] = "idle" /\ p \in {"pop", "try_pop"}
                 /\ FixedGo(t, p)
                 /\ UNCHANGED <<ring, open, full, fixed_item, alive>>

\* m_openSlots.wait() returns, or m_openSlots.wait_for(0) returns true.
GetOpen(t) == /\ fixed_pc[t] \in {"push", "try_push"}
              /\ FixedGo(t, "push_in")
              /\ Open!Acquire(t)
              /\ UNCHANGED <<ring, full, fixed_item, alive>>

GetFull(t) == /\ fixed_pc[t] \in {"pop", "try_pop"}
              /\ FixedGo(t, "pop_in")
              /\ Full!Acquire(t)
              /\ UNCHANGED <<ring, open, fixed_item, alive>>

\* try_push or try_pop returns false.
TryPushFails(t) == /\ fixed_pc[t] = "try_push" /\ FixedGo(t, "idle")
                   /\ Open!GiveUp(t)
                   /\ UNCHANGED <<ring, full, fixed_item, alive>>

FixedTryPopFails(t) == /\ fixed_pc[t] = "try_pop" /\ FixedGo(t, "idle")
                       /\ Full!GiveUp(t)
                       /\ UNCHANGED <<ring, open, fixed_item, alive>>

Advance(i) == (i + 1) % Size

FixedInsert(t) == /\ fixed_pc[t] = "push_in"
                  /\ FixedGo(t, "push_post")
                  /\ data' = [data EXCEPT ![pushIndex] = fixed_item[t]]
                  /\ pushIndex' = Advance(pushIndex)
                  /\ count' = count + 1
                  /\ UNCHANGED <<popIndex, open, full, fixed_item, alive>>

\* MUTANT of PushThrows: the slot is not given back.
PushThrowsKeepsSlot(t) == /\ fixed_pc[t] = "push_in"
                          /\ FixedGo(t, "idle")
                          /\ UNCHANGED <<ring, open, full, fixed_item, alive>>

\* The copy or move into the slot throws: the slot is given back.
PushThrows(t) == /\ fixed_pc[t] = "push_in"
                 /\ FixedGo(t, "idle")
                 /\ Open!Post(t, 1)
                 /\ UNCHANGED <<ring, full, fixed_item, alive>>

\* MUTANT of PostFull: the push is not announced.
PostFullForgotten(t) == /\ fixed_pc[t] = "push_post" /\ FixedGo(t, "idle")
                        /\ UNCHANGED <<ring, open, full, fixed_item, alive>>

PostFull(t) == /\ fixed_pc[t] = "push_post" /\ FixedGo(t, "idle")
               /\ Full!Post(t, 1)
               /\ UNCHANGED <<ring, open, fixed_item, alive>>

Remove(t) == /\ fixed_pc[t] = "pop_in"
             /\ FixedGo(t, "pop_post")
             /\ fixed_item' = [fixed_item EXCEPT ![t] = data[popIndex]]
             /\ data' = [data EXCEPT ![popIndex] = Raw]
             /\ popIndex' = Advance(popIndex)
             /\ count' = count - 1
             /\ UNCHANGED <<pushIndex, open, full, alive>>

\* MUTANT of PopThrows: posts the wrong semaphore.
PopThrowsOpens(t) == /\ fixed_pc[t] = "pop_in"
                     /\ FixedGo(t, "idle")
                     /\ Open!Post(t, 1)
                     /\ UNCHANGED <<ring, full, fixed_item, alive>>

\* The assignment to the caller's item throws: the item stays queued.
PopThrows(t) == /\ fixed_pc[t] = "pop_in"
                /\ FixedGo(t, "idle")
                /\ Full!Post(t, 1)
                /\ UNCHANGED <<ring, open, fixed_item, alive>>

PostOpen(t) == /\ fixed_pc[t] = "pop_post" /\ FixedGo(t, "idle")
               /\ Open!Post(t, 1)
               /\ UNCHANGED <<ring, full, fixed_item, alive>>

\* The slots the destructor visits.
Visited == {(popIndex + k) % Size : k \in 0..(count - 1)}

\* The destructor runs when no thread uses the queue any more.
Destroy == /\ alive /\ alive' = FALSE
           /\ FixedAt("idle") = FixedThreads
           /\ data' = [s \in Slots |-> IF s \in Visited THEN Raw ELSE data[s]]
           /\ popIndex' = (popIndex + count) % Size
           /\ count' = 0
           /\ UNCHANGED <<pushIndex, open, full, fixed_pc, fixed_item>>

Run(t) == \/ TryPushFails(t) \/ FixedInsert(t) \/ PushThrows(t) \/ PostFull(t)
          \/ FixedTryPopFails(t) \/ Remove(t) \/ PopThrows(t) \/ PostOpen(t)

FixedNext ==
    \/ \E t \in FixedThreads : \/ \E p \in Places, x \in FixedItems : FixedPushCall(t, p, x)
                               \/ \E p \in Places : PopCall(t, p)
                               \/ GetOpen(t) \/ GetFull(t) \/ Run(t)
    \/ Destroy

(***************************************************************************)
(* The scheduler runs every thread that can run, and the semaphores do not *)
(* keep a token while somebody waits for it; nothing more is assumed about *)
(* who gets it.                                                            *)
(***************************************************************************)
FixedFairness == /\ \A t \in FixedThreads : WF_fixed_vars(Run(t))
                 /\ WF_fixed_vars(\E t \in FixedThreads : GetOpen(t))
                 /\ WF_fixed_vars(\E t \in FixedThreads : GetFull(t))

FixedSpec == FixedInit /\ [][FixedNext]_fixed_vars /\ FixedFairness
------------------------------------------------------------------------------
FixedTypeOK == /\ data \in [Slots -> FixedItems \cup {Raw}]
               /\ pushIndex \in Slots /\ popIndex \in Slots
               /\ count \in 0..Size
               /\ open \in Nat /\ full \in Nat
               /\ fixed_pc \in [FixedThreads -> Places]
               /\ fixed_item \in [FixedThreads -> FixedItems \cup {FixedNoItem}]
               /\ \A t \in FixedThreads :
                    fixed_pc[t] \in {"push", "try_push", "push_in"} => fixed_item[t] \in FixedItems
               /\ alive \in BOOLEAN

(***************************************************************************)
(* Slots are neither lost nor made: each is free in m_openSlots, held by a *)
(* push before its critical section, occupied, or emptied by a pop that    *)
(* has not posted yet; and each occupied one is in m_fullSlots, about to   *)
(* be, or held by a pop. In particular the error paths (queue_c11.h:214,   *)
(* :387 and their like) give back exactly what the call took.              *)
(***************************************************************************)
SlotsConserved ==
    alive => /\ open + Cardinality(FixedAt("push_in")) + count
               + Cardinality(FixedAt("pop_post")) = Size
             /\ full + Cardinality(FixedAt("pop_in")) + Cardinality(FixedAt("push_post"))
               = count

(***************************************************************************)
(* The occupied slots are the m_count slots from m_popIndex on, and the    *)
(* next push goes behind them: with SlotsConserved, no push constructs     *)
(* over a live object and no pop reads raw memory.                         *)
(***************************************************************************)
RingConsistent ==
    /\ pushIndex = (popIndex + count) % Size
    /\ \A s \in Slots : data[s] # Raw <=> (s - popIndex) % Size < count

(***************************************************************************)
(* An object is constructed in raw memory only and destroyed before its    *)
(* slot is used again.                                                     *)
(***************************************************************************)
NoOverwrite == [][\A s \in Slots : data'[s] # data[s] => Raw \in {data[s], data'[s]}]_data

(***************************************************************************)
(* The destructor (queue_c11.h:175-182) leaves no live object behind,      *)
(* whatever calls threw or failed before.                                  *)
(***************************************************************************)
NothingLeaks == ~alive => \A s \in Slots : data[s] = Raw

\* The items in the ring, oldest first.
Queue == [i \in 1..count |-> data[(popIndex + i - 1) % Size]]

\* The call a thread is in: past its semaphore it cannot fail any more, past its
\* critical section it has taken effect.
CallAt(p) == CASE p = "push_in" -> "push"
               [] p = "pop_in" -> "pop"
               [] p \in {"push_post", "pop_post"} -> "leaving"
               [] OTHER -> p

FixedAbstract == INSTANCE BoundedFifo
                   WITH Threads <- FixedThreads, Items <- FixedItems, NoItem <- FixedNoItem,
                        item <- fixed_item, queue <- IF alive THEN Queue ELSE <<>>,
                        op <- [t \in FixedThreads |-> CallAt(fixed_pc[t])]

(***************************************************************************)
(* The queue implements the bounded FIFO: order, capacity, nothing lost or *)
(* popped twice, and a try_ call fails only when all slots, or all items,  *)
(* are taken up by other calls.                                            *)
(***************************************************************************)
FixedImplementsFifo == FixedAbstract!Safety

(***************************************************************************)
(* And with its liveness: no item stays while somebody waits in pop(), no  *)
(* place stays free while somebody waits in push().                        *)
(***************************************************************************)
ImplementsBoundedFifo == FixedAbstract!Spec
==============================================================================
