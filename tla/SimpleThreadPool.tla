-------------------------- MODULE SimpleThreadPool ---------------------------
(***************************************************************************)
(* utilcxx::simple_thread_pool (utilcxx/pool.h; SimpleThreadPool of        *)
(* pool_c11.h is the same with ThreadTask objects): workers that loop over *)
(* pop() on one blocking queue. The queue is its contract, AbstractQueue,  *)
(* which BlockingQueue implements. A task may itself submit others to the  *)
(* pool. A task that ends by an exception is a task that ends: the         *)
(* packaged_task of enqueue_task keeps it for the future.                  *)
(***************************************************************************)
EXTENDS Integers, Sequences, FiniteSets

CONSTANTS Workers, Clients, Owner,   \* threads: of the pool, and its users
          Tasks,
          Parent,      \* the task that submits a task, or NoTask for a client
          NoTask

\* The constructor throws for no threads (pool.h:19).
ASSUME PoolAssumption ==
    /\ Parent \in [Tasks -> Tasks \cup {NoTask}] /\ NoTask \notin Tasks
    /\ Workers # {} /\ Workers \cap Clients = {} /\ Owner \notin Workers \cup Clients

VARIABLES queue, done, op, item,     \* m_queue: see AbstractQueue
          place,       \* where each worker is
          task,        \* the task each worker holds
          submitted,   \* the tasks whose submission has begun
          phase,       \* constructing, open, closing or destroyed
          runs         \* how often each task was run

qvars == <<queue, done, op, item>>
simple_vars == <<qvars, place, task, submitted, phase, runs>>

SimpleThreads == Workers \cup Clients \cup {Owner}

Queue == INSTANCE AbstractQueue WITH Threads <- SimpleThreads, Items <- Tasks, NoItem <- NoTask

SimpleInit == /\ Queue!Init
              /\ place = [w \in Workers |-> "unborn"]
              /\ task = [w \in Workers |-> NoTask]
              /\ submitted = {} /\ phase = "constructing"
              /\ runs = [t \in Tasks |-> 0]

\* The constructor starts the threads one by one; each runs at once.
StartWorker(w) == /\ phase = "constructing" /\ place[w] = "unborn"
                  /\ place' = [place EXCEPT ![w] = "loop"]
                  /\ UNCHANGED <<qvars, task, submitted, phase, runs>>

Constructed == /\ phase = "constructing" /\ \A w \in Workers : place[w] # "unborn"
               /\ phase' = "open"
               /\ UNCHANGED <<qvars, place, task, submitted, runs>>

\* enqueue_work or enqueue_task, by a client or by the task a worker runs.
Submit(c, t) == /\ \/ c \in Clients /\ phase = "open" /\ Parent[t] = NoTask
                   \/ c \in Workers /\ place[c] = "run" /\ Parent[t] = task[c]
                /\ t \notin submitted
                /\ submitted' = submitted \cup {t}
                /\ Queue!Push(c, t)
                /\ UNCHANGED <<place, task, phase, runs>>

Insert(c) == Queue!Insert(c) /\ UNCHANGED <<place, task, submitted, phase, runs>>

\* The worker's loop.
CallPop(w) == /\ place[w] = "loop"
              /\ Queue!Call(w, "pop")
              /\ UNCHANGED <<place, task, submitted, phase, runs>>

GetTask(w) == /\ Queue!Take(w)
              /\ place' = [place EXCEPT ![w] = "run"]
              /\ task' = [task EXCEPT ![w] = Head(queue)]
              /\ UNCHANGED <<submitted, phase, runs>>

\* f() returns once it has submitted what it submits.
Finish(w) == /\ place[w] = "run" /\ op[w] = "idle"
             /\ \A t \in Tasks : Parent[t] = task[w] => t \in submitted
             /\ runs' = [runs EXCEPT ![task[w]] = @ + 1]
             /\ place' = [place EXCEPT ![w] = "loop"]
             /\ task' = [task EXCEPT ![w] = NoTask]
             /\ UNCHANGED <<qvars, submitted, phase>>

\* MUTANT of Exit: a worker leaves as soon as the queue is closed.
ExitWhenClosed(w) == /\ op[w] = "pop" /\ done
                     /\ op' = [op EXCEPT ![w] = "idle"]
                     /\ place' = [place EXCEPT ![w] = "exited"]
                     /\ UNCHANGED <<queue, done, item, task, submitted, phase, runs>>

\* pop() returned false.
Exit(w) == /\ Queue!PopFails(w)
           /\ place' = [place EXCEPT ![w] = "exited"]
           /\ UNCHANGED <<task, submitted, phase, runs>>

\* MUTANT of CallDone: the destructor joins without closing the queue.
CallDoneNot == /\ phase = "open" /\ \A c \in Clients : op[c] = "idle"
               /\ phase' = "closing"
               /\ UNCHANGED <<qvars, place, task, submitted, runs>>

\* The destructor; no client uses the pool any more.
CallDone == /\ phase = "open" /\ \A c \in Clients : op[c] = "idle"
            /\ phase' = "closing"
            /\ Queue!Call(Owner, "done")
            /\ UNCHANGED <<place, task, submitted, runs>>

Close == Queue!Close(Owner) /\ UNCHANGED <<place, task, submitted, phase, runs>>

\* The joins; they can all return when every worker has exited.
Join == /\ phase = "closing" /\ op[Owner] = "idle"
        /\ \A w \in Workers : place[w] = "exited"
        /\ phase' = "destroyed"
        /\ UNCHANGED <<qvars, place, task, submitted, runs>>

SimpleNext == \/ \E w \in Workers : \/ StartWorker(w) \/ CallPop(w) \/ GetTask(w)
                                    \/ Finish(w) \/ Exit(w)
              \/ \E c \in Workers \cup Clients : Insert(c) \/ \E t \in Tasks : Submit(c, t)
              \/ Constructed \/ CallDone \/ Close \/ Join

(***************************************************************************)
(* Every thread that can run does, every task ends, and of the queue no    *)
(* more is assumed than it promises. Clients may never submit, nor the     *)
(* owner ever destroy the pool.                                            *)
(***************************************************************************)
SimpleFairness ==
    /\ \A w \in Workers : /\ WF_simple_vars(StartWorker(w)) /\ WF_simple_vars(CallPop(w))
                          /\ WF_simple_vars(Finish(w))
                          /\ WF_simple_vars(\E t \in Tasks : Submit(w, t))
                          /\ WF_simple_vars(done /\ (GetTask(w) \/ Exit(w)))
    /\ \A c \in Workers \cup Clients : WF_simple_vars(Insert(c))
    /\ WF_simple_vars(\E w \in Workers : GetTask(w))
    /\ WF_simple_vars(Constructed) /\ WF_simple_vars(Close) /\ WF_simple_vars(Join)

SimpleSpec == SimpleInit /\ [][SimpleNext]_simple_vars /\ SimpleFairness
------------------------------------------------------------------------------
SimpleTypeOK == /\ queue \in Seq(Tasks) /\ done \in BOOLEAN
                /\ op \in [SimpleThreads -> Queue!Ops]
                /\ item \in [SimpleThreads -> Tasks \cup {NoTask}]
                /\ place \in [Workers -> {"unborn", "loop", "run", "exited"}]
                /\ task \in [Workers -> Tasks \cup {NoTask}]
                /\ \A w \in Workers : IF place[w] = "run" THEN task[w] \in Tasks
                                                          ELSE task[w] = NoTask
                /\ submitted \subseteq Tasks
                /\ phase \in {"constructing", "open", "closing", "destroyed"}
                /\ runs \in [Tasks -> 0..1]

Holders(t) == {w \in Workers : place[w] = "run" /\ task[w] = t}

(***************************************************************************)
(* pool.h:41: the workers exit only once the queue is empty. When the      *)
(* destructor has returned, every task that anybody ever submitted has     *)
(* been run (main_test.cpp:52 adds them up), those submitted by tasks that *)
(* ran while the pool was being destroyed included.                        *)
(***************************************************************************)
AllRunWhenDestroyed == phase = "destroyed" => \A t \in submitted : runs[t] = 1

\* How far a task is, for the users of the pool.
StatusOf(t) == CASE runs[t] > 0 -> "finished"
                 [] runs[t] = 0 /\ Holders(t) # {} -> "running"
                 [] runs[t] = 0 /\ Holders(t) = {} /\ t \in submitted -> "queued"
                 [] OTHER -> "new"

(***************************************************************************)
(* The pool implements the abstract one: nothing is run twice or lost,     *)
(* every submitted task is run, the destructor waits for all and returns.  *)
(***************************************************************************)
SimpleAbstract == INSTANCE AbstractPool
    WITH phase <- IF phase = "constructing" THEN "open" ELSE phase,
         status <- [t \in Tasks |-> StatusOf(t)]

ImplementsPool == SimpleAbstract!Spec
==============================================================================
