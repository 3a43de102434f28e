----------------------------- MODULE ThreadPool ------------------------------
(***************************************************************************)
(* utilcxx::thread_pool (utilcxx/pool.h; ThreadPool of pool_c11.h is the   *)
(* same with ThreadTask objects): one blocking queue per worker. A task is *)
(* offered with try_push to the queues in turn, K rounds, then pushed; a   *)
(* worker tries the queues in turn with try_pop, K rounds, then blocks in  *)
(* pop() on its own. try_push and try_pop fail when the mutex of a queue   *)
(* is taken, so the queues appear here with their mutexes, as in           *)
(* BlockingQueue. A task may itself submit others to the pool.             *)
(***************************************************************************)
EXTENDS Integers, Sequences, FiniteSets

CONSTANTS M,           \* m_count, the number of workers; they are 0..M-1
          Clients,     \* threads that use the pool
          Owner,       \* the thread that constructs and destroys it
          K,           \* the rounds of try_push and try_pop
          Wrap,        \* m_index and i + n are unsigned ints: 2^32 in the code
          Tasks,
          Parent,      \* the task that submits a task, or NoTask for a client
          NoTask, Nobody

ASSUME PoolAssumption ==
    /\ M \in Nat \ {0} /\ K \in Nat \ {0} /\ Wrap \in Nat \ {0}
    /\ Parent \in [Tasks -> Tasks \cup {NoTask}] /\ NoTask \notin Tasks
    /\ 0..(M - 1) \cap Clients = {} /\ Owner \notin 0..(M - 1) \cup Clients
    /\ Nobody \notin 0..(M - 1) \cup Clients \cup {Owner}

VARIABLES queue, done, holder,   \* of each queue: m_queue, m_done, who has m_mutex
          index,       \* m_index
          pc,          \* where each thread is
          i, n,        \* its locals of these names when it submits; n of its loop
          item,        \* the task a thread is submitting
          task,        \* f: the task each worker holds
          submitted,   \* the tasks whose submission has begun
          phase,       \* open, closing or destroyed
          runs         \* how often each task was run

queues == <<queue, done, holder>>
pool == <<index, submitted, phase, runs>>
vars == <<queues, pool, pc, i, n, item, task>>

Workers == 0..(M - 1)
Threads == Workers \cup Clients \cup {Owner}

(***************************************************************************)
(* Submitting threads: offer (before try_push n), push (before the lock of *)
(* push), push_in (in the critical section of either), one (before         *)
(* notify_one). Workers: look (before try_pop n), try_pop_in, pop (before  *)
(* the lock of pop), pop_in, blocked, run (in f()), exited. The owner, for *)
(* each queue: done, done_in, all (before notify_all), then join.          *)
(***************************************************************************)
Places == {"idle", "offer", "push", "push_in", "one", "look", "try_pop_in", "pop",
           "pop_in", "blocked", "run", "exited", "done", "done_in", "all", "join"}

Go(t, p) == pc' = [pc EXCEPT ![t] = p]

\* The queue a thread is at.
At(t) == CASE pc[t] \in {"pop", "pop_in", "blocked"} -> t
           [] pc[t] \in {"look", "try_pop_in"} -> (t + n[t]) % M
           [] t = Owner -> n[t]
           [] OTHER -> ((i[t] + n[t]) % Wrap) % M

Acquire(t) == holder[At(t)] = Nobody /\ holder' = [holder EXCEPT ![At(t)] = t]

Release(t) == holder' = [holder EXCEPT ![At(t)] = Nobody]

Next1(t) == n' = [n EXCEPT ![t] = @ + 1]

Restart(t) == n' = [n EXCEPT ![t] = 0]

\* Where a thread goes back to after a submission.
Home(t) == IF t \in Workers THEN "run" ELSE "idle"

\* The workers start in the constructor; the first ones run before the last.
Init == /\ queue = [q \in Workers |-> <<>>]
        /\ done = [q \in Workers |-> FALSE]
        /\ holder = [q \in Workers |-> Nobody]
        /\ index = 0
        /\ pc = [t \in Threads |-> IF t \in Workers THEN "look" ELSE "idle"]
        /\ i = [t \in Threads |-> 0]
        /\ n = [t \in Threads |-> 0]
        /\ item = [t \in Threads |-> NoTask]
        /\ task = [w \in Workers |-> NoTask]
        /\ submitted = {} /\ phase = "open"
        /\ runs = [t \in Tasks |-> 0]
------------------------------------------------------------------------------
\* enqueue_work and enqueue_task.

Submit(c, t) == /\ \/ c \in Clients /\ pc[c] = "idle" /\ phase = "open" /\ Parent[t] = NoTask
                   \/ c \in Workers /\ pc[c] = "run" /\ Parent[t] = task[c]
                /\ t \notin submitted
                /\ submitted' = submitted \cup {t}
                /\ item' = [item EXCEPT ![c] = t]
                /\ i' = [i EXCEPT ![c] = index]
                /\ index' = (index + 1) % Wrap
                /\ Restart(c)
                /\ Go(c, "offer")
                /\ UNCHANGED <<queues, phase, runs, task>>

OfferTaken(c) == /\ pc[c] = "offer" /\ n[c] < M * K
                 /\ Acquire(c)
                 /\ Go(c, "push_in")
                 /\ UNCHANGED <<queue, done, pool, i, n, item, task>>

OfferRefused(c) == /\ pc[c] = "offer" /\ n[c] < M * K
                   /\ holder[At(c)] # Nobody
                   /\ Next1(c)
                   /\ UNCHANGED <<queues, pool, pc, i, item, task>>

OfferOver(c) == /\ pc[c] = "offer" /\ n[c] = M * K
                /\ Restart(c)
                /\ Go(c, "push")
                /\ UNCHANGED <<queues, pool, i, item, task>>

PushLock(c) == /\ pc[c] = "push"
               /\ Acquire(c)
               /\ Go(c, "push_in")
               /\ UNCHANGED <<queue, done, pool, i, n, item, task>>

\* MUTANT of Insert: no notification follows.
InsertSilently(c) == /\ pc[c] = "push_in"
                     /\ queue' = [queue EXCEPT ![At(c)] = Append(@, item[c])]
                     /\ Release(c)
                     /\ Go(c, Home(c))
                     /\ UNCHANGED <<done, pool, i, n, item, task>>

Insert(c) == /\ pc[c] = "push_in"
             /\ queue' = [queue EXCEPT ![At(c)] = Append(@, item[c])]
             /\ Release(c)
             /\ Go(c, "one")
             /\ UNCHANGED <<done, pool, i, n, item, task>>

\* Only worker q ever blocks on queue q.
Woken(q) == IF pc[q] = "blocked" THEN "pop" ELSE pc[q]

NotifyOne(c) == /\ pc[c] = "one"
                /\ pc' = [pc EXCEPT ![At(c)] = Woken(At(c)), ![c] = Home(c)]
                /\ Restart(c)
                /\ i' = [i EXCEPT ![c] = 0]
                /\ item' = [item EXCEPT ![c] = NoTask]
                /\ UNCHANGED <<queues, pool, task>>
------------------------------------------------------------------------------
\* The worker's loop.

TryPopLock(w) == /\ pc[w] = "look" /\ n[w] < M * K
                 /\ Acquire(w)
                 /\ Go(w, "try_pop_in")
                 /\ UNCHANGED <<queue, done, pool, i, n, item, task>>

TryPopRefused(w) == /\ pc[w] = "look" /\ n[w] < M * K
                    /\ holder[At(w)] # Nobody
                    /\ Next1(w)
                    /\ UNCHANGED <<queues, pool, pc, i, item, task>>

TryPopEmpty(w) == /\ pc[w] = "try_pop_in" /\ queue[At(w)] = <<>>
                  /\ Release(w)
                  /\ Next1(w)
                  /\ Go(w, "look")
                  /\ UNCHANGED <<queue, done, pool, i, item, task>>

Take(w) == /\ pc[w] \in {"try_pop_in", "pop_in"} /\ queue[At(w)] # <<>>
           /\ task' = [task EXCEPT ![w] = Head(queue[At(w)])]
           /\ queue' = [queue EXCEPT ![At(w)] = Tail(@)]
           /\ Release(w)
           /\ Restart(w)
           /\ Go(w, "run")
           /\ UNCHANGED <<done, pool, i, item>>

LookOver(w) == /\ pc[w] = "look" /\ n[w] = M * K
               /\ Restart(w)
               /\ Go(w, "pop")
               /\ UNCHANGED <<queues, pool, i, item, task>>

PopLock(w) == /\ pc[w] = "pop"
              /\ Acquire(w)
              /\ Go(w, "pop_in")
              /\ UNCHANGED <<queue, done, pool, i, n, item, task>>

Block(w) == /\ pc[w] = "pop_in" /\ queue[w] = <<>> /\ ~done[w]
            /\ Release(w)
            /\ Go(w, "blocked")
            /\ UNCHANGED <<queue, done, pool, i, n, item, task>>

\* MUTANT of Exit: the worker leaves when its queue is closed.
ExitWhenClosed(w) == /\ pc[w] = "pop_in" /\ done[w]
                     /\ Release(w)
                     /\ Go(w, "exited")
                     /\ UNCHANGED <<queue, done, pool, i, n, item, task>>

\* pop() returned false.
Exit(w) == /\ pc[w] = "pop_in" /\ queue[w] = <<>> /\ done[w]
           /\ Release(w)
           /\ Go(w, "exited")
           /\ UNCHANGED <<queue, done, pool, i, n, item, task>>

Spurious(w) == /\ pc[w] = "blocked"
               /\ Go(w, "pop")
               /\ UNCHANGED <<queues, pool, i, n, item, task>>

\* f() returns once it has submitted what it submits.
Finish(w) == /\ pc[w] = "run"
             /\ \A t \in Tasks : Parent[t] = task[w] => t \in submitted
             /\ runs' = [runs EXCEPT ![task[w]] = @ + 1]
             /\ task' = [task EXCEPT ![w] = NoTask]
             /\ Go(w, "look")
             /\ UNCHANGED <<queues, index, submitted, phase, i, n, item>>
------------------------------------------------------------------------------
\* The destructor; no client uses the pool any more. n counts the queues.

CloseCall == /\ phase = "open" /\ \A c \in Clients : pc[c] = "idle"
             /\ phase' = "closing"
             /\ Go(Owner, "done")
             /\ UNCHANGED <<queues, index, submitted, runs, i, n, item, task>>

DoneLock == /\ pc[Owner] = "done"
            /\ Acquire(Owner)
            /\ Go(Owner, "done_in")
            /\ UNCHANGED <<queue, done, pool, i, n, item, task>>

Done == /\ pc[Owner] = "done_in"
        /\ done' = [done EXCEPT ![At(Owner)] = TRUE]
        /\ Release(Owner)
        /\ Go(Owner, "all")
        /\ UNCHANGED <<queue, pool, i, n, item, task>>

NotifyAll == /\ pc[Owner] = "all"
             /\ Next1(Owner)
             /\ pc' = [pc EXCEPT ![At(Owner)] = Woken(At(Owner)),
                                 ![Owner] = IF n[Owner] + 1 = M THEN "join" ELSE "done"]
             /\ UNCHANGED <<queues, pool, i, item, task>>

Join == /\ pc[Owner] = "join" /\ phase = "closing"
        /\ \A w \in Workers : pc[w] = "exited"
        /\ phase' = "destroyed"
        /\ UNCHANGED <<queues, index, submitted, runs, pc, i, n, item, task>>
------------------------------------------------------------------------------
\* Waiting for a mutex, and everything else a thread does by itself.
Lock(t) == \/ t \in Workers \cup Clients /\ PushLock(t)
           \/ t \in Workers /\ PopLock(t)
           \/ t = Owner /\ DoneLock

RunSubmit(c) == OfferTaken(c) \/ OfferRefused(c) \/ OfferOver(c) \/ Insert(c) \/ NotifyOne(c)

RunWorker(w) == \/ TryPopLock(w) \/ TryPopRefused(w) \/ TryPopEmpty(w) \/ Take(w)
                \/ LookOver(w) \/ Block(w) \/ Exit(w) \/ Finish(w)
                \/ \E t \in Tasks : Submit(w, t)

Next == \/ \E t \in Threads : Lock(t)
        \/ \E c \in Workers \cup Clients : RunSubmit(c)
        \/ \E w \in Workers : RunWorker(w) \/ Spurious(w)
        \/ \E c \in Clients, t \in Tasks : Submit(c, t)
        \/ CloseCall \/ Done \/ NotifyAll \/ Join

(***************************************************************************)
(* The scheduler runs every thread that can run, a mutex is obtained in    *)
(* the end by a thread that waits for it, and every task ends.             *)
(***************************************************************************)
Fairness == /\ \A t \in Threads : SF_vars(Lock(t))
            /\ \A c \in Workers \cup Clients : WF_vars(RunSubmit(c))
            /\ \A w \in Workers : WF_vars(RunWorker(w))
            /\ WF_vars(Done) /\ WF_vars(NotifyAll) /\ WF_vars(Join)

Spec == Init /\ [][Next]_vars /\ Fairness
------------------------------------------------------------------------------
TypeOK == /\ queue \in [Workers -> Seq(Tasks)] /\ done \in [Workers -> BOOLEAN]
          /\ holder \in [Workers -> Threads \cup {Nobody}]
          /\ index \in 0..(Wrap - 1)
          /\ pc \in [Threads -> Places]
          /\ i \in [Threads -> 0..(Wrap - 1)] /\ n \in [Threads -> 0..(M * K)]
          /\ item \in [Threads -> Tasks \cup {NoTask}]
          /\ task \in [Workers -> Tasks \cup {NoTask}]
          /\ submitted \subseteq Tasks
          /\ phase \in {"open", "closing", "destroyed"}
          /\ runs \in [Tasks -> Nat]

(***************************************************************************)
(* No task is left in a queue by a worker that sleeps on that queue or has *)
(* left it: if worker q is blocked and queue q is not empty, somebody who  *)
(* inserted there has still to notify; and a worker that exited left an    *)
(* empty queue, unless a task that still runs filled it afterwards.        *)
(***************************************************************************)
NoTaskAbandoned ==
    \A q \in Workers :
      /\ pc[q] = "blocked" /\ queue[q] # <<>> =>
           \/ \E c \in Workers \cup Clients : pc[c] = "one" /\ At(c) = q
           \/ pc[Owner] = "all" /\ At(Owner) = q
      /\ pc[q] = "exited" /\ queue[q] # <<>> =>
           \E w \in Workers : pc[w] # "exited"

(***************************************************************************)
(* When the destructor has returned, every task that anybody ever          *)
(* submitted has been run (main_test.cpp:52 adds them up), whichever       *)
(* queue took it and those submitted by running tasks included.            *)
(***************************************************************************)
AllRunWhenDestroyed == phase = "destroyed" => \A t \in submitted : runs[t] = 1

Holders(t) == {w \in Workers : task[w] = t}

\* How far a task is, for the users of the pool.
StatusOf(t) == CASE runs[t] > 0 -> "finished"
                 [] runs[t] = 0 /\ Holders(t) # {} -> "running"
                 [] runs[t] = 0 /\ Holders(t) = {} /\ t \in submitted -> "queued"
                 [] OTHER -> "new"

(***************************************************************************)
(* The pool implements the same abstract pool as the simple one.           *)
(***************************************************************************)
Abstract == INSTANCE AbstractPool WITH status <- [t \in Tasks |-> StatusOf(t)]

ImplementsPool == Abstract!Spec
==============================================================================
