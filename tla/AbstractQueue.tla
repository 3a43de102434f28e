---------------------------- MODULE AbstractQueue ----------------------------
(***************************************************************************)
(* What an unbounded blocking queue promises its callers: items leave in   *)
(* the order in which they came, each once; pop() waits for an item and    *)
(* fails only when the queue is closed and empty; closing does not drop    *)
(* what is queued. BlockingQueue is shown to implement it and the simple   *)
(* thread pool is built on it.                                             *)
(***************************************************************************)
EXTENDS Integers, Sequences

CONSTANTS Threads,     \* the calling threads
          Items,       \* what can be queued
          NoItem       \* the value of a variable no item was assigned to

VARIABLES queue,       \* the items queued, oldest first
          done,        \* done() was called
          op,          \* the call each thread is in
          item         \* the item it is pushing, or popped in its last call

vars == <<queue, done, op, item>>

Ops == {"idle", "push", "pop", "trypop", "done"}

Init == /\ queue = <<>> /\ done = FALSE
        /\ op = [t \in Threads |-> "idle"]
        /\ item = [t \in Threads |-> NoItem]

Enter(t, o) == op[t] = "idle" /\ op' = [op EXCEPT ![t] = o]

Leave(t) == op' = [op EXCEPT ![t] = "idle"]

Push(t, x) == /\ Enter(t, "push")
              /\ item' = [item EXCEPT ![t] = x]
              /\ UNCHANGED <<queue, done>>

Insert(t) == /\ op[t] = "push" /\ Leave(t)
             /\ queue' = Append(queue, item[t])
             /\ item' = [item EXCEPT ![t] = NoItem]
             /\ UNCHANGED done

Call(t, o) == /\ o \in {"pop", "trypop", "done"} /\ Enter(t, o)
              /\ item' = [item EXCEPT ![t] = NoItem]
              /\ UNCHANGED <<queue, done>>

Take(t) == /\ op[t] \in {"pop", "trypop"} /\ Leave(t)
           /\ queue # <<>>
           /\ item' = [item EXCEPT ![t] = Head(queue)]
           /\ queue' = Tail(queue)
           /\ UNCHANGED done

PopFails(t) == /\ op[t] = "pop" /\ Leave(t)
               /\ queue = <<>> /\ done
               /\ UNCHANGED <<queue, done, item>>

\* A try_pop may fail at any time: somebody else may hold the lock.
TryPopFails(t) == op[t] = "trypop" /\ Leave(t) /\ UNCHANGED <<queue, done, item>>

Close(t) == /\ op[t] = "done" /\ Leave(t)
            /\ done' = TRUE
            /\ UNCHANGED <<queue, item>>

Next == \E t \in Threads : \/ \E x \in Items : Push(t, x)
                           \/ \E o \in Ops : Call(t, o)
                           \/ Insert(t) \/ Take(t) \/ PopFails(t)
                           \/ TryPopFails(t) \/ Close(t)

(***************************************************************************)
(* An item does not stay while somebody waits in pop(); once the queue is  *)
(* closed every pop() returns; push() and done() return.                   *)
(***************************************************************************)
Fairness == /\ WF_vars(\E t \in Threads : Take(t))
            /\ \A t \in Threads : /\ WF_vars(done /\ op[t] = "pop" /\ (Take(t) \/ PopFails(t)))
                                  /\ WF_vars(Insert(t) \/ Close(t))

Safety == Init /\ [][Next]_vars

Spec == Safety /\ Fairness
==============================================================================
