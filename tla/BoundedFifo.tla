----------------------------- MODULE BoundedFifo -----------------------------
(***************************************************************************)
(* What a bounded blocking queue promises its callers: at most Size items, *)
(* leaving in the order in which they came, each once; a push waits for    *)
(* room, a pop for an item; and a try_push or try_pop fails only when the  *)
(* queue is full or empty up to the calls that are under way.              *)
(***************************************************************************)
EXTENDS Integers, Sequences, FiniteSets

CONSTANTS Threads,     \* the calling threads
          Items,       \* what can be queued
          NoItem,      \* the value of a variable no item was assigned to
          Size         \* the capacity

VARIABLES queue,       \* the items queued, oldest first
          op,          \* the call each thread is in
          item         \* the item it pushes, or last popped

vars == <<queue, op, item>>

\* "leaving": the call has taken effect, but has not returned.
Ops == {"idle", "push", "try_push", "pop", "try_pop", "leaving"}

In(o) == {t \in Threads : op[t] = o}

\* The other threads that are in a call.
Others(t) == {u \in Threads \ {t} : op[u] # "idle"}

Init == /\ queue = <<>>
        /\ op = [t \in Threads |-> "idle"]
        /\ item = [t \in Threads |-> NoItem]

CallPush(t, o, x) == /\ op[t] = "idle" /\ o \in {"push", "try_push"}
                     /\ op' = [op EXCEPT ![t] = o]
                     /\ item' = [item EXCEPT ![t] = x]
                     /\ UNCHANGED queue

CallPop(t, o) == /\ op[t] = "idle" /\ o \in {"pop", "try_pop"}
                 /\ op' = [op EXCEPT ![t] = o]
                 /\ UNCHANGED <<queue, item>>

\* A try_ call found room, or an item, and now cannot fail any more.
Commit(t) == /\ op[t] \in {"try_push", "try_pop"}
             /\ op' = [op EXCEPT ![t] = IF op[t] = "try_push" THEN "push" ELSE "pop"]
             /\ UNCHANGED <<queue, item>>

Insert(t) == /\ op[t] = "push"
             /\ Len(queue) < Size
             /\ queue' = Append(queue, item[t])
             /\ op' = [op EXCEPT ![t] = "leaving"]
             /\ UNCHANGED item

Remove(t) == /\ op[t] = "pop"
             /\ queue # <<>>
             /\ item' = [item EXCEPT ![t] = Head(queue)]
             /\ queue' = Tail(queue)
             /\ op' = [op EXCEPT ![t] = "leaving"]

Return(t) == /\ op[t] = "leaving"
             /\ op' = [op EXCEPT ![t] = "idle"]
             /\ UNCHANGED <<queue, item>>

\* Every free place is held by another thread's call.
TryPushFails(t) ==
    /\ op[t] = "try_push"
    /\ Len(queue) + Cardinality(Others(t)) >= Size
    /\ op' = [op EXCEPT ![t] = "idle"]
    /\ UNCHANGED <<queue, item>>

\* Every queued item is promised to another thread's call.
TryPopFails(t) ==
    /\ op[t] = "try_pop"
    /\ Len(queue) <= Cardinality(Others(t))
    /\ op' = [op EXCEPT ![t] = "idle"]
    /\ UNCHANGED <<queue, item>>

\* Copying the item throws: the call has no effect on the queue.
Throws(t) == /\ op[t] \in {"push", "pop"}
             /\ op' = [op EXCEPT ![t] = "idle"]
             /\ UNCHANGED <<queue, item>>

\* Destroying the queue drops what is left in it; nobody is using it then.
Discard == /\ In("idle") = Threads
           /\ queue' = <<>>
           /\ UNCHANGED <<op, item>>

Next == \/ \E t \in Threads : \/ \E o \in Ops, x \in Items : CallPush(t, o, x)
                              \/ \E o \in Ops : CallPop(t, o)
                              \/ Commit(t) \/ Insert(t) \/ Remove(t) \/ Return(t)
                              \/ TryPushFails(t) \/ TryPopFails(t) \/ Throws(t)
        \/ Discard

(***************************************************************************)
(* While a pop() waits, an item does not stay: some call removes it, or    *)
(* throws. While a push() waits, a free place is filled. A call that has   *)
(* taken effect returns.                                                   *)
(***************************************************************************)
SomePop == /\ queue # <<>> /\ In("pop") # {}
           /\ \E t \in In("pop") : Remove(t) \/ Throws(t)

SomePush == /\ Len(queue) < Size /\ In("push") # {}
            /\ \E t \in In("push") : Insert(t) \/ Throws(t)

Fairness == /\ WF_vars(SomePop)
            /\ WF_vars(SomePush)
            /\ \A t \in Threads : WF_vars(Return(t))

Safety == Init /\ [][Next]_vars

Spec == Safety /\ Fairness
==============================================================================
