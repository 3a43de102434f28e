---------------------------- MODULE BlockingQueue ----------------------------
(***************************************************************************)
(* utilcxx::BlockingQueue (utilcxx/queue_c11.h; blocking_queue of queue.h  *)
(* is the same code): a std::queue, a mutex, a condition variable and the  *)
(* flag m_done. The mutex is a variable here, because try_push and try_pop *)
(* fail when another thread holds it: taking it and the critical section,  *)
(* which ends by releasing it, are two steps, and the notification after   *)
(* the unlock is a third.  The copy or the assignment of an item (lines    *)
(* 34, 89) does not throw.                                                 *)
(***************************************************************************)
EXTENDS Integers, Sequences, FiniteSets

CONSTANTS Threads,     \* the calling threads
          Items,       \* what can be queued
          NoItem,      \* the value of a variable no item was assigned to
          Nobody,      \* the owner of the free mutex
          MaxLen       \* bound: nobody starts a push on a longer queue

ASSUME QueueAssumption ==
    /\ IsFiniteSet(Threads) /\ Nobody \notin Threads
    /\ NoItem \notin Items /\ MaxLen \in Nat

VARIABLES queue,       \* m_queue, oldest first
          done,        \* m_done
          owner,       \* the thread that holds m_mutex
          pc,          \* where each thread is
          item         \* the item it is pushing, or popped in its last call

vars == <<queue, done, owner, pc, item>>

(***************************************************************************)
(* idle is outside the queue; push, pop, done and size wait for the mutex; *)
(* a name ending in _in is inside the critical section of that call; one   *)
(* and all are before m_ready.notify_one and notify_all; blocked is on     *)
(* m_ready, in pop.                                                        *)
(***************************************************************************)
Outside == {"idle", "push", "pop", "done", "size", "one", "all", "blocked"}
Inside == {"push_in", "pop_in", "try_pop_in", "done_in", "size_in"}

Entry == [push |-> "push_in", pop |-> "pop_in", done |-> "done_in", size |-> "size_in"]

At(p) == {t \in Threads : pc[t] = p}

Go(t, p) == pc' = [pc EXCEPT ![t] = p]

Init == /\ queue = <<>> /\ done = FALSE /\ owner = Nobody
        /\ pc = [t \in Threads |-> "idle"]
        /\ item = [t \in Threads |-> NoItem]

PushCall(t, x) == /\ pc[t] = "idle" /\ Len(queue) < MaxLen
                  /\ Go(t, "push")
                  /\ item' = [item EXCEPT ![t] = x]
                  /\ UNCHANGED <<queue, done, owner>>

\* pop(), done() and size() or empty().
Call(t, p) == /\ pc[t] = "idle" /\ p \in {"pop", "done", "size"}
              /\ Go(t, p)
              /\ item' = [item EXCEPT ![t] = IF p = "size" THEN @ ELSE NoItem]
              /\ UNCHANGED <<queue, done, owner>>

Lock(t) == /\ pc[t] \in DOMAIN Entry /\ owner = Nobody
           /\ owner' = t
           /\ Go(t, Entry[pc[t]])
           /\ UNCHANGED <<queue, done, item>>

TryPush(t, x) == /\ pc[t] = "idle" /\ Len(queue) < MaxLen
                 /\ owner = Nobody
                 /\ owner' = t
                 /\ Go(t, "push_in")
                 /\ item' = [item EXCEPT ![t] = x]
                 /\ UNCHANGED <<queue, done>>

TryPop(t) == /\ pc[t] = "idle" /\ owner = Nobody
             /\ owner' = t
             /\ Go(t, "try_pop_in")
             /\ item' = [item EXCEPT ![t] = NoItem]
             /\ UNCHANGED <<queue, done>>

\* The mutex is taken: try_push and try_pop return false.
TryFails(t) == pc[t] = "idle" /\ owner # Nobody /\ UNCHANGED vars

Unlock == owner' = Nobody

\* MUTANT of Insert: try_push and push put the item at the wrong end.
AppendAtFront(t) == /\ pc[t] = "push_in" /\ Unlock
                    /\ queue' = <<item[t]>> \o queue
                    /\ item' = [item EXCEPT ![t] = NoItem]
                    /\ Go(t, "one")
                    /\ UNCHANGED done

\* MUTANT of Insert: notifies only when the queue was empty.
AppendNotifyFirst(t) == /\ pc[t] = "push_in" /\ Unlock
                        /\ queue' = Append(queue, item[t])
                        /\ item' = [item EXCEPT ![t] = NoItem]
                        /\ Go(t, IF queue = <<>> THEN "one" ELSE "idle")
                        /\ UNCHANGED done

Insert(t) == /\ pc[t] = "push_in" /\ Unlock
             /\ queue' = Append(queue, item[t])
             /\ item' = [item EXCEPT ![t] = NoItem]
             /\ Go(t, "one")
             /\ UNCHANGED done

Take(t) == /\ pc[t] \in {"pop_in", "try_pop_in"} /\ Unlock
           /\ queue # <<>>
           /\ item' = [item EXCEPT ![t] = Head(queue)]
           /\ queue' = Tail(queue)
           /\ Go(t, "idle")
           /\ UNCHANGED done

\* m_ready.wait releases the mutex.
Block(t) == /\ pc[t] = "pop_in" /\ Unlock
            /\ queue = <<>> /\ ~done
            /\ Go(t, "blocked")
            /\ UNCHANGED <<queue, done, item>>

\* pop returns false.
PopFails(t) == /\ pc[t] = "pop_in" /\ Unlock
               /\ queue = <<>> /\ done
               /\ Go(t, "idle")
               /\ UNCHANGED <<queue, done, item>>

TryPopFails(t) == /\ pc[t] = "try_pop_in" /\ Unlock
                  /\ queue = <<>>
                  /\ Go(t, "idle")
                  /\ UNCHANGED <<queue, done, item>>

Close(t) == /\ pc[t] = "done_in" /\ Unlock
            /\ done' = TRUE
            /\ Go(t, "all")
            /\ UNCHANGED <<queue, item>>

Look(t) == /\ pc[t] = "size_in" /\ Unlock
           /\ Go(t, "idle")
           /\ UNCHANGED <<queue, done, item>>

NotifyOne(t) == /\ pc[t] = "one"
                /\ UNCHANGED <<queue, done, owner, item>>
                /\ \/ At("blocked") = {} /\ Go(t, "idle")
                   \/ \E w \in At("blocked") :
                        pc' = [pc EXCEPT ![t] = "idle", ![w] = "pop"]

NotifyAll(t) == /\ pc[t] = "all"
                /\ UNCHANGED <<queue, done, owner, item>>
                /\ pc' = [u \in Threads |-> IF u = t THEN "idle"
                                            ELSE IF pc[u] = "blocked" THEN "pop"
                                            ELSE pc[u]]

Spurious(t) == pc[t] = "blocked" /\ Go(t, "pop") /\ UNCHANGED <<queue, done, owner, item>>

\* The critical section of t.
Body(t) == \/ Insert(t) \/ Take(t) \/ Block(t) \/ PopFails(t)
           \/ TryPopFails(t) \/ Close(t) \/ Look(t)

Notify(t) == NotifyOne(t) \/ NotifyAll(t)

Next == \E t \in Threads : \/ \E x \in Items : PushCall(t, x) \/ TryPush(t, x)
                           \/ \E p \in DOMAIN Entry : Call(t, p)
                           \/ TryPop(t) \/ TryFails(t)
                           \/ Lock(t) \/ Body(t) \/ Notify(t) \/ Spurious(t)

(***************************************************************************)
(* The scheduler runs every thread that can run, and a thread that waits   *)
(* for the mutex, which is never held for long, gets it in the end: strong *)
(* fairness, as it may be overtaken while it waits.                        *)
(***************************************************************************)
Fairness == \A t \in Threads : /\ WF_vars(Body(t))
                               /\ WF_vars(Notify(t))
                               /\ SF_vars(Lock(t))

Spec == Init /\ [][Next]_vars /\ Fairness
------------------------------------------------------------------------------
(***************************************************************************)
(* Types, and the mutex: its owner is the one thread in a critical         *)
(* section.                                                                *)
(***************************************************************************)
TypeOK == /\ queue \in Seq(Items)
          /\ done \in BOOLEAN
          /\ pc \in [Threads -> Outside \cup Inside]
          /\ item \in [Threads -> Items \cup {NoItem}]
          /\ \A t \in Threads : pc[t] \in {"push", "push_in"} => item[t] \in Items
          /\ owner \in Threads \cup {Nobody}
          /\ \A t \in Threads : pc[t] \in Inside <=> owner = t

(***************************************************************************)
(* No lost wakeup. While a thread is blocked in pop(), either done()'s     *)
(* notify_all (queue_c11.h:140) is still to come, or the queue is open and *)
(* each queued item is matched by a notify_one to come (:36, :47, :60,     *)
(* :74) or by a thread on its way to test the queue: consumers that pass   *)
(* by with pop or try_pop, and spurious wakeups, use no wakeup up.         *)
(***************************************************************************)
NoLostWakeup ==
    At("blocked") # {} =>
        \/ At("all") # {}
        \/ /\ ~done
           /\ Len(queue) <= Cardinality(At("one")) + Cardinality(At("pop") \cup At("pop_in"))

\* The call that a thread is in, and the instance of the contract it has to meet.
Serving(p) == CASE p \in {"push", "push_in"} -> "push"
                [] p \in {"pop", "pop_in", "blocked"} -> "pop"
                [] p = "try_pop_in" -> "trypop"
                [] p \in {"done", "done_in"} -> "done"
                [] OTHER -> "idle"

Op == [t \in Threads |-> Serving(pc[t])]

Abstract == INSTANCE AbstractQueue WITH op <- Op

(***************************************************************************)
(* The queue implements the abstract one: FIFO, nothing lost or popped     *)
(* twice, pop() false only when closed and empty.                          *)
(***************************************************************************)
ImplementsFifo == Abstract!Safety

(***************************************************************************)
(* And with its liveness: an item does not stay while somebody waits in    *)
(* pop(), push() and done() return whoever competes for the mutex.         *)
(***************************************************************************)
ImplementsAbstract == Abstract!Spec
==============================================================================
