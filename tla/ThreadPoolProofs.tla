-------------------------- MODULE ThreadPoolProofs ---------------------------
(***************************************************************************)
(* For every number of workers, of rounds and of clients: no task is left  *)
(* in the queue of a worker that sleeps or has left, every task that was   *)
(* submitted is run once before the pool is gone, and the pool implements  *)
(* AbstractPool. What needs an invariant is that a worker may leave while  *)
(* tasks are still put into its queue, and the workers that look for them  *)
(* there may find its mutex taken: whoever has it taken is itself still to *)
(* look. The rest follows from the places of a task, which is with the     *)
(* thread that submits it, in one queue or with one worker.                *)
(***************************************************************************)
EXTENDS ThreadPool, TLAPS

\* Where a thread holds the mutex of the queue it is at.
Inside == {"push_in", "try_pop_in", "pop_in", "done_in"}

Roles ==
    /\ pc[Owner] \in {"idle", "done", "done_in", "all", "join"}
    /\ phase = "open" => pc[Owner] = "idle"
    /\ \A c \in Clients : /\ pc[c] \in {"idle", "offer", "push", "push_in", "one"}
                          /\ pc[c] # "idle" => phase = "open"
    /\ \A c \in Workers \cup Clients : pc[c] \in {"offer", "push", "push_in"} => item[c] \in Tasks
    /\ \A w \in Workers : pc[w] \notin {"idle", "done", "done_in", "all", "join"}

Counters ==
    /\ pc[Owner] = "idle" => n[Owner] = 0
    /\ pc[Owner] \in {"done", "done_in", "all"} => n[Owner] < M
    /\ \A w \in Workers : /\ pc[w] \in {"run", "pop", "pop_in", "blocked"} => n[w] = 0
                          /\ pc[w] = "try_pop_in" => n[w] < M * K

Mutexes ==
    /\ \A t \in Threads : pc[t] \in Inside => holder[At(t)] = t
    /\ \A q \in Workers, t \in Threads : holder[q] = t => pc[t] \in Inside /\ At(t) = q

\* The owner closes the queues one after the other, and nobody else does.
Closed ==
    \A q \in Workers :
      /\ done[q] => /\ phase # "open"
                    /\ pc[Owner] # "join" => q < n[Owner] \/ (q = n[Owner] /\ pc[Owner] = "all")
      /\ pc[q] = "exited" => done[q]

\* Thread t is about to notify queue q.
Tells(t, q) == pc[t] \in {"one", "all"} /\ At(t) = q

Told ==
    \A q \in Workers : pc[q] = "blocked" /\ queue[q] # <<>> => \E t \in Threads : Tells(t, q)

\* Worker w has queue q still before it, before it can block or leave.
StillToSee(w, q) == \E k \in n[w]..(M * K - 1) : (w + k) % M = q

Sees(w, q) == \/ pc[w] \in {"run", "offer", "push", "push_in", "one"}
              \/ pc[w] \in {"look", "try_pop_in"} /\ StillToSee(w, q)

Covered ==
    \A q \in Workers : pc[q] = "exited" /\ queue[q] # <<>> => \E w \in Workers : Sees(w, q)

IInv == TypeOK /\ Roles /\ Counters /\ Mutexes /\ Closed /\ Told /\ Covered
------------------------------------------------------------------------------
(***************************************************************************)
(* Facts about numbers and places.                                         *)
(***************************************************************************)
LEMMA Rounds == M * K \in Nat /\ M * K >= M /\ M \in Nat \ {0}
<1>1. M \in Nat \ {0} /\ K \in Nat /\ K >= 1
  BY PoolAssumption
<1>2. M * K >= M * 1
  BY <1>1
<1>3. QED
  BY <1>1, <1>2

LEMMA Reduced == \A x \in Nat : \A m \in Nat \ {0} : x % m \in 0..(m - 1)
  OBVIOUS

\* Every queue comes up in one round, wherever it starts.
LEMMA RoundCoversAll ==
    ASSUME NEW w \in Workers, NEW q \in Workers
    PROVE  \E k \in 0..(M * K - 1) : (w + k) % M = q
<1>1. M \in Nat \ {0} /\ M * K \in Nat /\ M * K >= M
  BY Rounds
<1>2. CASE q >= w
  <2>1. q - w \in 0..(M * K - 1) /\ w + (q - w) = q
    BY <1>1, <1>2 DEF Workers
  <2>2. q % M = q
    BY <1>1 DEF Workers
  <2>3. QED
    BY <2>1, <2>2
<1>3. CASE q < w
  <2>1. q - w + M \in 0..(M * K - 1) /\ w + (q - w + M) = q + M
    BY <1>1, <1>3 DEF Workers
  <2>2. (q + M) % M = q
    BY <1>1 DEF Workers
  <2>3. QED
    BY <2>1, <2>2
<1>4. QED
  BY <1>2, <1>3 DEF Workers

LEMMA AtCases ==
    ASSUME NEW w \in Workers
    PROVE  /\ pc[w] \in {"pop", "pop_in", "blocked"} => At(w) = w
           /\ pc[w] \in {"look", "try_pop_in"} => At(w) = (w + n[w]) % M
BY PoolAssumption DEF At, Workers

\* A thread that is at a queue is at one there is.
LEMMA AtAQueue ==
    ASSUME TypeOK, Roles, Counters, NEW t \in Threads,
           t # Owner \/ pc[t] \in {"done", "done_in", "all"}
    PROVE  At(t) \in Workers
<1>1. M \in Nat \ {0} /\ Wrap \in Nat \ {0} /\ i[t] \in Nat /\ n[t] \in Nat
  BY Rounds, PoolAssumption DEF TypeOK
<1>2. CASE t = Owner
  <2>1. At(t) = n[t]
    BY <1>2 DEF At
  <2>2. QED
    BY <1>1, <1>2, <2>1 DEF Counters, Workers
<1>3. CASE t # Owner
  <2>1. CASE pc[t] \in {"pop", "pop_in", "blocked"}
    BY <1>3, <2>1 DEF At, Roles, Threads
  <2>2. CASE pc[t] \in {"look", "try_pop_in"}
    <3>1. t \in Workers
      BY <1>3, <2>2 DEF Roles, Threads
    <3>2. t + n[t] \in Nat
      BY <1>1, <3>1 DEF Workers
    <3>3. At(t) = (t + n[t]) % M
      BY <2>2 DEF At
    <3>4. QED
      BY <3>2, <3>3, <1>1, Reduced DEF Workers
  <2>3. CASE pc[t] \notin {"pop", "pop_in", "blocked", "look", "try_pop_in"}
    <3>1. At(t) = ((i[t] + n[t]) % Wrap) % M
      BY <1>3, <2>3 DEF At
    <3>2. (i[t] + n[t]) % Wrap \in Nat
      BY <1>1
    <3>3. QED
      BY <3>1, <3>2, <1>1, Reduced DEF Workers
  <2>4. QED
    BY <2>1, <2>2, <2>3
<1>4. QED
  BY <1>2, <1>3

\* Where a thread is changes only with its own step.
Kind(p) == CASE p \in {"pop", "pop_in", "blocked"} -> "own"
             [] p \in {"look", "try_pop_in"} -> "scan"
             [] OTHER -> "turn"

LEMMA AtStays ==
    ASSUME NEW t \in Threads, i'[t] = i[t], n'[t] = n[t], Kind(pc'[t]) = Kind(pc[t])
    PROVE  At(t)' = At(t)
BY DEF At, Kind
------------------------------------------------------------------------------
LEMMA InitIInv == Init => IInv
<1> SUFFICES ASSUME Init PROVE IInv
  OBVIOUS
<1> USE PoolAssumption DEF Init, Threads
<1>1. TypeOK
  <2>1. queue \in [Workers -> Seq(Tasks)]
    OBVIOUS
  <2>2. index \in 0..(Wrap - 1) /\ i \in [Threads -> 0..(Wrap - 1)]
    OBVIOUS
  <2>3. n \in [Threads -> 0..(M * K)]
    BY Rounds
  <2>4. pc \in [Threads -> Places]
    BY DEF Places
  <2>5. QED
    BY <2>1, <2>2, <2>3, <2>4 DEF TypeOK
<1>2. Roles
  BY DEF Roles, Workers
<1>3. Counters
  BY DEF Counters, Workers
<1>4. Mutexes
  BY DEF Mutexes, Inside, Workers
<1>5. Closed /\ Told /\ Covered
  BY DEF Closed, Told, Covered
<1>6. QED
  BY <1>1, <1>2, <1>3, <1>4, <1>5 DEF IInv
------------------------------------------------------------------------------
\* The actions, for the case distinctions.
LEMMA Actions ==
    ASSUME Next, NEW P,
           \A c \in Workers \cup Clients, t \in Tasks : Submit(c, t) => P,
           \A c \in Workers \cup Clients :
              /\ OfferTaken(c) \/ PushLock(c) => P
              /\ OfferRefused(c) => P
              /\ OfferOver(c) => P
              /\ Insert(c) => P
              /\ NotifyOne(c) => P,
           \A w \in Workers :
              /\ TryPopLock(w) \/ PopLock(w) => P
              /\ TryPopRefused(w) => P
              /\ TryPopEmpty(w) => P
              /\ Take(w) => P
              /\ LookOver(w) => P
              /\ Block(w) => P
              /\ Exit(w) => P
              /\ Spurious(w) => P
              /\ Finish(w) => P,
           CloseCall => P, DoneLock => P, Done => P, NotifyAll => P, Join => P
    PROVE  P
BY DEF Next, Lock, RunSubmit, RunWorker

LEMMA NextTypeOK == ASSUME IInv, Next PROVE TypeOK'
<1> USE DEF IInv, Threads, Go
<1>n. /\ M \in Nat \ {0} /\ M * K \in Nat /\ Wrap \in Nat \ {0}
      /\ 0 \in 0..(M * K) /\ 0 \in 0..(Wrap - 1)
  BY Rounds, PoolAssumption
<1>p. {"idle", "offer", "push", "push_in", "one", "look", "try_pop_in", "pop", "pop_in",
       "blocked", "run", "exited", "done", "done_in", "all", "join"} = Places
  BY DEF Places
<1>h. \A w \in Workers : queue[w] # <<>> =>
        Head(queue[w]) \in Tasks /\ Tail(queue[w]) \in Seq(Tasks)
  BY DEF TypeOK
<1>a. \A t \in Threads \ {Owner} : At(t) \in Workers
  BY AtAQueue
<1>1. ASSUME NEW c \in Workers \cup Clients, NEW t \in Tasks, Submit(c, t) PROVE TypeOK'
  <2>1. (index + 1) % Wrap \in 0..(Wrap - 1)
    <3>1. index + 1 \in Nat
      BY <1>n DEF TypeOK
    <3>2. QED
      BY <3>1, <1>n, Reduced
  <2>2. QED
    BY <1>1, <1>n, <1>p, <2>1 DEF Submit, Restart, queues, TypeOK
<1>2. ASSUME NEW c \in Workers \cup Clients, OfferTaken(c) \/ PushLock(c) PROVE TypeOK'
  <2>1. holder' \in [Workers -> Threads \cup {Nobody}]
    BY <1>2 DEF OfferTaken, PushLock, Acquire, TypeOK
  <2>2. pc' \in [Threads -> Places]
    BY <1>2, <1>p DEF OfferTaken, PushLock, TypeOK
  <2>3. QED
    BY <1>2, <2>1, <2>2 DEF OfferTaken, PushLock, pool, TypeOK
<1>3. ASSUME NEW c \in Workers \cup Clients, OfferRefused(c) PROVE TypeOK'
  <2>1. n[c] + 1 \in 0..(M * K)
    BY <1>3, <1>n DEF OfferRefused, TypeOK
  <2>2. QED
    BY <1>3, <2>1 DEF OfferRefused, Next1, queues, pool, TypeOK
<1>4. ASSUME NEW c \in Workers \cup Clients, OfferOver(c) PROVE TypeOK'
  BY <1>4, <1>n, <1>p DEF OfferOver, Restart, queues, pool, TypeOK
<1>5. ASSUME NEW c \in Workers \cup Clients, Insert(c) PROVE TypeOK'
  <2>1. item[c] \in Tasks
    BY <1>5 DEF Insert, Roles
  <2>2. \A s \in Seq(Tasks) : Append(s, item[c]) \in Seq(Tasks)
    BY <2>1
  <2>3. queue' \in [Workers -> Seq(Tasks)]
    BY <1>5, <2>2 DEF Insert, TypeOK
  <2>4. QED
    BY <1>5, <1>p, <2>3 DEF Insert, Release, pool, TypeOK
<1>6. ASSUME NEW c \in Workers \cup Clients, NotifyOne(c) PROVE TypeOK'
  <2>1. pc' \in [Threads -> Places]
    BY <1>6, <1>p DEF NotifyOne, Woken, Home, TypeOK
  <2>2. QED
    BY <1>6, <1>n, <2>1 DEF NotifyOne, Restart, queues, pool, TypeOK
<1>7. ASSUME NEW w \in Workers, TryPopLock(w) \/ PopLock(w) PROVE TypeOK'
  <2>1. holder' \in [Workers -> Threads \cup {Nobody}]
    BY <1>7 DEF TryPopLock, PopLock, Acquire, TypeOK
  <2>2. pc' \in [Threads -> Places]
    BY <1>7, <1>p DEF TryPopLock, PopLock, TypeOK
  <2>3. QED
    BY <1>7, <2>1, <2>2 DEF TryPopLock, PopLock, pool, TypeOK
<1>8. ASSUME NEW w \in Workers, TryPopRefused(w) PROVE TypeOK'
  <2>1. n[w] + 1 \in 0..(M * K)
    BY <1>8, <1>n DEF TryPopRefused, TypeOK
  <2>2. QED
    BY <1>8, <2>1 DEF TryPopRefused, Next1, queues, pool, TypeOK
<1>9. ASSUME NEW w \in Workers, TryPopEmpty(w) PROVE TypeOK'
  <2>1. n[w] + 1 \in 0..(M * K)
    BY <1>9, <1>n DEF TryPopEmpty, Counters, TypeOK
  <2>2. QED
    BY <1>9, <1>p, <2>1 DEF TryPopEmpty, Next1, Release, pool, TypeOK
<1>10. ASSUME NEW w \in Workers, Take(w) PROVE TypeOK'
  <2>1. w # Owner /\ At(w) \in Workers
    BY <1>a, PoolAssumption DEF Workers
  <2>2. Head(queue[At(w)]) \in Tasks /\ Tail(queue[At(w)]) \in Seq(Tasks)
    BY <1>10, <1>h, <2>1 DEF Take
  <2>3. QED
    BY <1>10, <1>n, <1>p, <2>2 DEF Take, Restart, Release, pool, TypeOK
<1>11. ASSUME NEW w \in Workers, LookOver(w) PROVE TypeOK'
  BY <1>11, <1>n, <1>p DEF LookOver, Restart, queues, pool, TypeOK
<1>12. ASSUME NEW w \in Workers, Block(w) PROVE TypeOK'
  BY <1>12, <1>p DEF Block, Release, pool, TypeOK
<1>13. ASSUME NEW w \in Workers, Exit(w) PROVE TypeOK'
  BY <1>13, <1>p DEF Exit, Release, pool, TypeOK
<1>14. ASSUME NEW w \in Workers, Spurious(w) PROVE TypeOK'
  BY <1>14, <1>p DEF Spurious, queues, pool, TypeOK
<1>15. ASSUME NEW w \in Workers, Finish(w) PROVE TypeOK'
  <2>1. runs' \in [Tasks -> Nat]
    <3>1. runs' = [t \in Tasks |-> IF t = task[w] THEN runs[t] + 1 ELSE runs[t]]
      BY <1>15 DEF Finish, TypeOK
    <3>2. \A t \in Tasks : runs[t] \in Nat /\ runs[t] + 1 \in Nat
      BY DEF TypeOK
    <3>3. QED
      BY <3>1, <3>2
  <2>2. QED
    BY <1>15, <1>p, <2>1 DEF Finish, queues, TypeOK
<1>16. ASSUME CloseCall PROVE TypeOK'
  BY <1>16, <1>p DEF CloseCall, queues, TypeOK
<1>17. ASSUME DoneLock PROVE TypeOK'
  BY <1>17, <1>p DEF DoneLock, Acquire, pool, TypeOK
<1>18. ASSUME Done PROVE TypeOK'
  BY <1>18, <1>p DEF Done, Release, pool, TypeOK
<1>19. ASSUME NotifyAll PROVE TypeOK'
  <2>1. n[Owner] + 1 \in 0..(M * K)
    BY <1>19, Rounds DEF NotifyAll, Counters, TypeOK
  <2>2. pc' \in [Threads -> Places]
    BY <1>19, <1>p DEF NotifyAll, Woken, TypeOK
  <2>3. QED
    BY <1>19, <2>1, <2>2 DEF NotifyAll, Next1, queues, pool, TypeOK
<1>20. ASSUME Join PROVE TypeOK'
  BY <1>20 DEF Join, queues, TypeOK
<1> HIDE DEF IInv, Threads, Go
<1>21. QED
  BY <1>1, <1>2, <1>3, <1>4, <1>5, <1>6, <1>7, <1>8, <1>9, <1>10, <1>11, <1>12, <1>13,
     <1>14, <1>15, <1>16, <1>17, <1>18, <1>19, <1>20, Actions

LEMMA NextRoles == ASSUME IInv, Next PROVE Roles'
<1> USE DEF IInv, Threads, Go
<1>t. /\ pc \in [Threads -> Places] /\ item \in [Threads -> Tasks \cup {NoTask}]
      /\ Owner \notin Workers \cup Clients /\ Workers \cap Clients = {}
  BY PoolAssumption DEF IInv, TypeOK, Workers
<1>1. ASSUME NEW c \in Workers \cup Clients, NEW t \in Tasks, Submit(c, t) PROVE Roles'
  BY <1>1, <1>t DEF Submit, Restart, queues, pool, Roles
<1>2. ASSUME NEW c \in Workers \cup Clients, OfferTaken(c) \/ PushLock(c) PROVE Roles'
  <2>1. CASE OfferTaken(c)
    BY <2>1, <1>t DEF OfferTaken, Acquire, queues, pool, Roles
  <2>2. CASE PushLock(c)
    BY <2>2, <1>t DEF PushLock, Acquire, queues, pool, Roles
  <2>3. QED
    BY <1>2, <2>1, <2>2
<1>3. ASSUME NEW c \in Workers \cup Clients, OfferRefused(c) PROVE Roles'
  BY <1>3, <1>t DEF OfferRefused, Next1, queues, pool, Roles
<1>4. ASSUME NEW c \in Workers \cup Clients, OfferOver(c) PROVE Roles'
  BY <1>4, <1>t DEF OfferOver, Restart, queues, pool, Roles
<1>5. ASSUME NEW c \in Workers \cup Clients, Insert(c) PROVE Roles'
  BY <1>5, <1>t DEF Insert, Release, queues, pool, Roles
<1>6. ASSUME NEW c \in Workers \cup Clients, NotifyOne(c) PROVE Roles'
  BY <1>6, <1>t DEF NotifyOne, Restart, Woken, Home, queues, pool, Roles
<1>7. ASSUME NEW w \in Workers, TryPopLock(w) \/ PopLock(w) PROVE Roles'
  <2>1. CASE TryPopLock(w)
    BY <2>1, <1>t DEF TryPopLock, Acquire, queues, pool, Roles
  <2>2. CASE PopLock(w)
    BY <2>2, <1>t DEF PopLock, Acquire, queues, pool, Roles
  <2>3. QED
    BY <1>7, <2>1, <2>2
<1>8. ASSUME NEW w \in Workers, TryPopRefused(w) PROVE Roles'
  BY <1>8, <1>t DEF TryPopRefused, Next1, queues, pool, Roles
<1>9. ASSUME NEW w \in Workers, TryPopEmpty(w) PROVE Roles'
  BY <1>9, <1>t DEF TryPopEmpty, Next1, Release, queues, pool, Roles
<1>10. ASSUME NEW w \in Workers, Take(w) PROVE Roles'
  BY <1>10, <1>t DEF Take, Restart, Release, queues, pool, Roles
<1>11. ASSUME NEW w \in Workers, LookOver(w) PROVE Roles'
  BY <1>11, <1>t DEF LookOver, Restart, queues, pool, Roles
<1>12. ASSUME NEW w \in Workers, Block(w) PROVE Roles'
  BY <1>12, <1>t DEF Block, Release, queues, pool, Roles
<1>13. ASSUME NEW w \in Workers, Exit(w) PROVE Roles'
  BY <1>13, <1>t DEF Exit, Release, queues, pool, Roles
<1>14. ASSUME NEW w \in Workers, Spurious(w) PROVE Roles'
  BY <1>14, <1>t DEF Spurious, queues, pool, Roles
<1>15. ASSUME NEW w \in Workers, Finish(w) PROVE Roles'
  BY <1>15, <1>t DEF Finish, queues, pool, Roles
<1>16. ASSUME CloseCall PROVE Roles'
  BY <1>16, <1>t DEF CloseCall, queues, pool, Roles
<1>17. ASSUME DoneLock PROVE Roles'
  BY <1>17, <1>t DEF DoneLock, Acquire, queues, pool, Roles
<1>18. ASSUME Done PROVE Roles'
  BY <1>18, <1>t DEF Done, Release, queues, pool, Roles
<1>19. ASSUME NotifyAll PROVE Roles'
  BY <1>19, <1>t DEF NotifyAll, Next1, Woken, queues, pool, Roles
<1>20. ASSUME Join PROVE Roles'
  BY <1>20, <1>t DEF Join, queues, pool, Roles
<1> HIDE DEF IInv
<1>21. QED
  BY <1>1, <1>2, <1>3, <1>4, <1>5, <1>6, <1>7, <1>8, <1>9, <1>10, <1>11, <1>12, <1>13,
     <1>14, <1>15, <1>16, <1>17, <1>18, <1>19, <1>20, Actions

LEMMA NextCounters == ASSUME IInv, Next PROVE Counters'
<1> USE Rounds DEF IInv, Threads, Go
<1>t. /\ pc \in [Threads -> Places] /\ n \in [Threads -> 0..(M * K)]
      /\ Owner \notin Workers \cup Clients /\ Workers \cap Clients = {}
  BY PoolAssumption DEF IInv, TypeOK, Workers
<1>1. ASSUME NEW c \in Workers \cup Clients, NEW t \in Tasks, Submit(c, t) PROVE Counters'
  BY <1>1, <1>t DEF Submit, Restart, queues, pool, Roles, Counters
<1>2. ASSUME NEW c \in Workers \cup Clients, OfferTaken(c) \/ PushLock(c) PROVE Counters'
  <2>1. CASE OfferTaken(c)
    BY <2>1, <1>t DEF OfferTaken, Acquire, queues, pool, Roles, Counters
  <2>2. CASE PushLock(c)
    BY <2>2, <1>t DEF PushLock, Acquire, queues, pool, Roles, Counters
  <2>3. QED
    BY <1>2, <2>1, <2>2
<1>3. ASSUME NEW c \in Workers \cup Clients, OfferRefused(c) PROVE Counters'
  BY <1>3, <1>t DEF OfferRefused, Next1, queues, pool, Roles, Counters
<1>4. ASSUME NEW c \in Workers \cup Clients, OfferOver(c) PROVE Counters'
  BY <1>4, <1>t DEF OfferOver, Restart, queues, pool, Roles, Counters
<1>5. ASSUME NEW c \in Workers \cup Clients, Insert(c) PROVE Counters'
  BY <1>5, <1>t DEF Insert, Release, queues, pool, Roles, Counters
<1>6. ASSUME NEW c \in Workers \cup Clients, NotifyOne(c) PROVE Counters'
  BY <1>6, <1>t DEF NotifyOne, Restart, Woken, Home, queues, pool, Roles, Counters
<1>7. ASSUME NEW w \in Workers, TryPopLock(w) \/ PopLock(w) PROVE Counters'
  <2>1. CASE TryPopLock(w)
    BY <2>1, <1>t DEF TryPopLock, Acquire, queues, pool, Roles, Counters
  <2>2. CASE PopLock(w)
    BY <2>2, <1>t DEF PopLock, Acquire, queues, pool, Roles, Counters
  <2>3. QED
    BY <1>7, <2>1, <2>2
<1>8. ASSUME NEW w \in Workers, TryPopRefused(w) PROVE Counters'
  BY <1>8, <1>t DEF TryPopRefused, Next1, queues, pool, Roles, Counters
<1>9. ASSUME NEW w \in Workers, TryPopEmpty(w) PROVE Counters'
  BY <1>9, <1>t DEF TryPopEmpty, Next1, Release, queues, pool, Roles, Counters
<1>10. ASSUME NEW w \in Workers, Take(w) PROVE Counters'
  BY <1>10, <1>t DEF Take, Restart, Release, queues, pool, Roles, Counters
<1>11. ASSUME NEW w \in Workers, LookOver(w) PROVE Counters'
  BY <1>11, <1>t DEF LookOver, Restart, queues, pool, Roles, Counters
<1>12. ASSUME NEW w \in Workers, Block(w) PROVE Counters'
  BY <1>12, <1>t DEF Block, Release, queues, pool, Roles, Counters
<1>13. ASSUME NEW w \in Workers, Exit(w) PROVE Counters'
  BY <1>13, <1>t DEF Exit, Release, queues, pool, Roles, Counters
<1>14. ASSUME NEW w \in Workers, Spurious(w) PROVE Counters'
  BY <1>14, <1>t DEF Spurious, queues, pool, Roles, Counters
<1>15. ASSUME NEW w \in Workers, Finish(w) PROVE Counters'
  BY <1>15, <1>t DEF Finish, queues, pool, Roles, Counters
<1>16. ASSUME CloseCall PROVE Counters'
  BY <1>16, <1>t DEF CloseCall, queues, pool, Roles, Counters
<1>17. ASSUME DoneLock PROVE Counters'
  BY <1>17, <1>t DEF DoneLock, Acquire, queues, pool, Roles, Counters
<1>18. ASSUME Done PROVE Counters'
  BY <1>18, <1>t DEF Done, Release, queues, pool, Roles, Counters
<1>19. ASSUME NotifyAll PROVE Counters'
  BY <1>19, <1>t DEF NotifyAll, Next1, Woken, queues, pool, Roles, Counters
<1>20. ASSUME Join PROVE Counters'
  BY <1>20, <1>t DEF Join, queues, pool, Roles, Counters
<1> HIDE DEF IInv
<1>21. QED
  BY <1>1, <1>2, <1>3, <1>4, <1>5, <1>6, <1>7, <1>8, <1>9, <1>10, <1>11, <1>12, <1>13,
     <1>14, <1>15, <1>16, <1>17, <1>18, <1>19, <1>20, Actions

------------------------------------------------------------------------------
(***************************************************************************)
(* A step of thread t leaves the others where they are, but may wake one.  *)
(***************************************************************************)
OnlyMoves(t) ==
    \A u \in Threads \ {t} : /\ i'[u] = i[u] /\ n'[u] = n[u]
                             /\ pc'[u] = pc[u] \/ (pc[u] = "blocked" /\ pc'[u] = "pop")

LEMMA OthersStay ==
    ASSUME NEW t \in Threads, OnlyMoves(t), NEW u \in Threads \ {t}
    PROVE  /\ At(u)' = At(u)
           /\ pc'[u] \in Inside <=> pc[u] \in Inside
<1>1. At(u)' = At(u)
  <2>1. i'[u] = i[u] /\ n'[u] = n[u]
    BY DEF OnlyMoves
  <2>2. Kind(pc'[u]) = Kind(pc[u])
    BY DEF OnlyMoves, Kind
  <2>3. QED
    BY <2>1, <2>2, AtStays
<1>2. QED
  BY <1>1 DEF OnlyMoves, Inside

\* Who moves in each action.
LEMMA Movers ==
    ASSUME IInv
    PROVE  /\ \A c \in Workers \cup Clients :
                (\/ \E t \in Tasks : Submit(c, t)
                 \/ OfferTaken(c) \/ PushLock(c) \/ OfferRefused(c) \/ OfferOver(c)
                 \/ Insert(c) \/ NotifyOne(c)) => OnlyMoves(c)
           /\ \A w \in Workers :
                (\/ TryPopLock(w) \/ PopLock(w) \/ TryPopRefused(w) \/ TryPopEmpty(w)
                 \/ Take(w) \/ LookOver(w) \/ Block(w) \/ Exit(w) \/ Spurious(w)
                 \/ Finish(w)) => OnlyMoves(w)
           /\ CloseCall \/ DoneLock \/ Done \/ NotifyAll \/ Join => OnlyMoves(Owner)
<1> USE DEF IInv, TypeOK, Go, OnlyMoves, Threads
<1>1. ASSUME NEW c \in Workers \cup Clients, NEW t \in Tasks, Submit(c, t) PROVE OnlyMoves(c)
  BY <1>1 DEF Submit, Restart
<1>2. ASSUME NEW c \in Workers \cup Clients,
             OfferTaken(c) \/ PushLock(c) \/ OfferRefused(c) \/ OfferOver(c) \/ Insert(c)
      PROVE  OnlyMoves(c)
  BY <1>2 DEF OfferTaken, PushLock, OfferRefused, OfferOver, Insert, Next1, Restart
<1>3. ASSUME NEW c \in Workers \cup Clients, NotifyOne(c) PROVE OnlyMoves(c)
  BY <1>3 DEF NotifyOne, Restart, Woken
<1>4. ASSUME NEW w \in Workers, TryPopLock(w) \/ PopLock(w) \/ TryPopRefused(w) \/ TryPopEmpty(w)
      PROVE  OnlyMoves(w)
  BY <1>4 DEF TryPopLock, PopLock, TryPopRefused, TryPopEmpty, Next1
<1>5. ASSUME NEW w \in Workers, Take(w) \/ LookOver(w) \/ Block(w) \/ Exit(w) PROVE OnlyMoves(w)
  BY <1>5 DEF Take, LookOver, Block, Exit, Restart
<1>6. ASSUME NEW w \in Workers, Spurious(w) \/ Finish(w) PROVE OnlyMoves(w)
  BY <1>6 DEF Spurious, Finish
<1>7. ASSUME CloseCall \/ DoneLock \/ Done \/ Join PROVE OnlyMoves(Owner)
  BY <1>7 DEF CloseCall, DoneLock, Done, Join
<1>8. ASSUME NotifyAll PROVE OnlyMoves(Owner)
  BY <1>8 DEF NotifyAll, Next1, Woken
<1> HIDE DEF IInv, TypeOK, Go, OnlyMoves, Threads
<1>9. QED
  BY <1>1, <1>2, <1>3, <1>4, <1>5, <1>6, <1>7, <1>8

LEMMA LockKeepsMutexes ==
    ASSUME IInv, NEW t \in Threads, OnlyMoves(t), At(t) \in Workers,
           Acquire(t), At(t)' = At(t), pc[t] \notin Inside, pc'[t] \in Inside
    PROVE  Mutexes'
<1> USE DEF IInv, Mutexes
<1>1. \A u \in Threads \ {t} : At(u)' = At(u) /\ (pc'[u] \in Inside <=> pc[u] \in Inside)
  BY OthersStay
<1>2. holder[At(t)] = Nobody /\ holder' = [holder EXCEPT ![At(t)] = t]
  BY DEF Acquire
<1>3. ASSUME NEW u \in Threads, pc'[u] \in Inside PROVE holder'[At(u)'] = u
  <2>1. CASE u = t
    BY <2>1, <1>2 DEF TypeOK
  <2>2. CASE u # t
    <3>1. holder[At(u)] = u /\ At(u)' = At(u)
      BY <2>2, <1>1, <1>3
    <3>2. At(u) # At(t)
      BY <3>1, <1>2, PoolAssumption DEF Threads, Workers
    <3>3. QED
      BY <3>1, <3>2, <1>2 DEF TypeOK
  <2>3. QED
    BY <2>1, <2>2
<1>4. ASSUME NEW q \in Workers, NEW u \in Threads, holder'[q] = u
      PROVE  pc'[u] \in Inside /\ At(u)' = q
  <2>1. CASE q = At(t)
    <3>1. u = t
      BY <2>1, <1>2, <1>4 DEF TypeOK
    <3>2. QED
      BY <3>1, <2>1
  <2>2. CASE q # At(t)
    <3>1. holder[q] = u
      BY <2>2, <1>2, <1>4 DEF TypeOK
    <3>2. pc[u] \in Inside /\ At(u) = q /\ u # t
      BY <3>1
    <3>3. QED
      BY <3>2, <1>1
  <2>3. QED
    BY <2>1, <2>2
<1>5. QED
  BY <1>3, <1>4

LEMMA UnlockKeepsMutexes ==
    ASSUME IInv, NEW t \in Threads, OnlyMoves(t), At(t) \in Workers,
           Release(t), pc[t] \in Inside, pc'[t] \notin Inside
    PROVE  Mutexes'
<1> USE DEF IInv, Mutexes
<1>1. \A u \in Threads \ {t} : At(u)' = At(u) /\ (pc'[u] \in Inside <=> pc[u] \in Inside)
  BY OthersStay
<1>2. holder[At(t)] = t /\ holder' = [holder EXCEPT ![At(t)] = Nobody]
  BY DEF Release
<1>3. ASSUME NEW u \in Threads, pc'[u] \in Inside PROVE holder'[At(u)'] = u
  <2>1. u # t /\ holder[At(u)] = u /\ At(u)' = At(u)
    BY <1>1, <1>3
  <2>2. At(u) # At(t)
    BY <2>1, <1>2
  <2>3. QED
    BY <2>1, <2>2, <1>2 DEF TypeOK
<1>4. ASSUME NEW q \in Workers, NEW u \in Threads, holder'[q] = u
      PROVE  pc'[u] \in Inside /\ At(u)' = q
  <2>1. q # At(t)
    BY <1>2, <1>4, PoolAssumption DEF TypeOK, Threads, Workers
  <2>2. holder[q] = u
    BY <2>1, <1>2, <1>4 DEF TypeOK
  <2>3. pc[u] \in Inside /\ At(u) = q /\ u # t
    BY <2>1, <2>2
  <2>4. QED
    BY <2>3, <1>1
<1>5. QED
  BY <1>3, <1>4

LEMMA OutsideKeepsMutexes ==
    ASSUME IInv, NEW t \in Threads, OnlyMoves(t), holder' = holder,
           pc[t] \notin Inside, pc'[t] \notin Inside
    PROVE  Mutexes'
<1> USE DEF IInv, Mutexes
<1>1. \A u \in Threads \ {t} : At(u)' = At(u) /\ (pc'[u] \in Inside <=> pc[u] \in Inside)
  BY OthersStay
<1>2. ASSUME NEW u \in Threads, pc'[u] \in Inside PROVE holder'[At(u)'] = u
  BY <1>1, <1>2
<1>3. ASSUME NEW q \in Workers, NEW u \in Threads, holder'[q] = u
      PROVE  pc'[u] \in Inside /\ At(u)' = q
  BY <1>1, <1>3
<1>4. QED
  BY <1>2, <1>3

LEMMA NextMutexes == ASSUME IInv, Next PROVE Mutexes'
<1> USE DEF IInv
<1>1. ASSUME NEW c \in Workers \cup Clients, NEW t \in Tasks, Submit(c, t) PROVE Mutexes'
  <2>1. OnlyMoves(c)
    BY <1>1, Movers
  <2>2. c \in Threads /\ holder' = holder /\ pc[c] \notin Inside /\ pc'[c] \notin Inside
    BY <1>1 DEF Submit, Inside, TypeOK, Threads, queues, Go
  <2>3. QED
    BY <2>1, <2>2, OutsideKeepsMutexes
<1>2. ASSUME NEW c \in Workers \cup Clients, OfferTaken(c) \/ PushLock(c) PROVE Mutexes'
  <2>1. OnlyMoves(c)
    BY <1>2, Movers
  <2>2. c \in Threads /\ Acquire(c) /\ pc[c] \notin Inside /\ pc'[c] \in Inside
    BY <1>2 DEF OfferTaken, PushLock, Inside, TypeOK, Threads, Go
  <2>3. At(c) \in Workers
    BY <1>2, <2>2, AtAQueue, PoolAssumption DEF OfferTaken, PushLock, Threads, Workers
  <2>4. At(c)' = At(c)
    <3>1. i'[c] = i[c] /\ n'[c] = n[c]
      BY <1>2 DEF OfferTaken, PushLock
    <3>2. Kind(pc'[c]) = Kind(pc[c])
      BY <1>2, <2>2 DEF OfferTaken, PushLock, TypeOK, Go, Kind
    <3>3. QED
      BY <2>2, <3>1, <3>2, AtStays
  <2>5. QED
    BY <2>1, <2>2, <2>3, <2>4, LockKeepsMutexes
<1>3. ASSUME NEW c \in Workers \cup Clients, OfferRefused(c) PROVE Mutexes'
  <2>1. OnlyMoves(c)
    BY <1>3, Movers
  <2>2. c \in Threads /\ holder' = holder /\ pc[c] \notin Inside /\ pc'[c] \notin Inside
    BY <1>3 DEF OfferRefused, Inside, TypeOK, Threads, queues, Go
  <2>3. QED
    BY <2>1, <2>2, OutsideKeepsMutexes
<1>4. ASSUME NEW c \in Workers \cup Clients, OfferOver(c) PROVE Mutexes'
  <2>1. OnlyMoves(c)
    BY <1>4, Movers
  <2>2. c \in Threads /\ holder' = holder /\ pc[c] \notin Inside /\ pc'[c] \notin Inside
    BY <1>4 DEF OfferOver, Inside, TypeOK, Threads, queues, Go
  <2>3. QED
    BY <2>1, <2>2, OutsideKeepsMutexes
<1>5. ASSUME NEW c \in Workers \cup Clients, Insert(c) PROVE Mutexes'
  <2>1. OnlyMoves(c)
    BY <1>5, Movers
  <2>2. c \in Threads /\ Release(c) /\ pc[c] \in Inside /\ pc'[c] \notin Inside
    BY <1>5 DEF Insert, Inside, TypeOK, Threads, Go
  <2>3. At(c) \in Workers
    BY <1>5, <2>2, AtAQueue, PoolAssumption DEF Insert, Threads, Workers
  <2>4. QED
    BY <2>1, <2>2, <2>3, UnlockKeepsMutexes
<1>6. ASSUME NEW c \in Workers \cup Clients, NotifyOne(c) PROVE Mutexes'
  <2>1. OnlyMoves(c)
    BY <1>6, Movers
  <2>2. c \in Threads /\ holder' = holder /\ pc[c] \notin Inside /\ pc'[c] \notin Inside
    BY <1>6 DEF NotifyOne, Inside, TypeOK, Threads, queues, Go, Home
  <2>3. QED
    BY <2>1, <2>2, OutsideKeepsMutexes
<1>7. ASSUME NEW w \in Workers, TryPopLock(w) \/ PopLock(w) PROVE Mutexes'
  <2>1. OnlyMoves(w)
    BY <1>7, Movers
  <2>2. w \in Threads /\ Acquire(w) /\ pc[w] \notin Inside /\ pc'[w] \in Inside
    BY <1>7 DEF TryPopLock, PopLock, Inside, TypeOK, Threads, Go
  <2>3. At(w) \in Workers
    BY <1>7, <2>2, AtAQueue, PoolAssumption DEF TryPopLock, PopLock, Threads, Workers
  <2>4. At(w)' = At(w)
    <3>1. i'[w] = i[w] /\ n'[w] = n[w]
      BY <1>7 DEF TryPopLock, PopLock
    <3>2. Kind(pc'[w]) = Kind(pc[w])
      BY <1>7, <2>2 DEF TryPopLock, PopLock, TypeOK, Go, Kind
    <3>3. QED
      BY <2>2, <3>1, <3>2, AtStays
  <2>5. QED
    BY <2>1, <2>2, <2>3, <2>4, LockKeepsMutexes
<1>8. ASSUME NEW w \in Workers, TryPopRefused(w) PROVE Mutexes'
  <2>1. OnlyMoves(w)
    BY <1>8, Movers
  <2>2. w \in Threads /\ holder' = holder /\ pc[w] \notin Inside /\ pc'[w] \notin Inside
    BY <1>8 DEF TryPopRefused, Inside, TypeOK, Threads, queues, Go
  <2>3. QED
    BY <2>1, <2>2, OutsideKeepsMutexes
<1>9. ASSUME NEW w \in Workers, TryPopEmpty(w) PROVE Mutexes'
  <2>1. OnlyMoves(w)
    BY <1>9, Movers
  <2>2. w \in Threads /\ Release(w) /\ pc[w] \in Inside /\ pc'[w] \notin Inside
    BY <1>9 DEF TryPopEmpty, Inside, TypeOK, Threads, Go
  <2>3. At(w) \in Workers
    BY <1>9, <2>2, AtAQueue, PoolAssumption DEF TryPopEmpty, Threads, Workers
  <2>4. QED
    BY <2>1, <2>2, <2>3, UnlockKeepsMutexes
<1>10. ASSUME NEW w \in Workers, Take(w) PROVE Mutexes'
  <2>1. OnlyMoves(w)
    BY <1>10, Movers
  <2>2. w \in Threads /\ Release(w) /\ pc[w] \in Inside /\ pc'[w] \notin Inside
    BY <1>10 DEF Take, Inside, TypeOK, Threads, Go
  <2>3. At(w) \in Workers
    BY <1>10, <2>2, AtAQueue, PoolAssumption DEF Take, Threads, Workers
  <2>4. QED
    BY <2>1, <2>2, <2>3, UnlockKeepsMutexes
<1>11. ASSUME NEW w \in Workers, LookOver(w) PROVE Mutexes'
  <2>1. OnlyMoves(w)
    BY <1>11, Movers
  <2>2. w \in Threads /\ holder' = holder /\ pc[w] \notin Inside /\ pc'[w] \notin Inside
    BY <1>11 DEF LookOver, Inside, TypeOK, Threads, queues, Go
  <2>3. QED
    BY <2>1, <2>2, OutsideKeepsMutexes
<1>12. ASSUME NEW w \in Workers, Block(w) PROVE Mutexes'
  <2>1. OnlyMoves(w)
    BY <1>12, Movers
  <2>2. w \in Threads /\ Release(w) /\ pc[w] \in Inside /\ pc'[w] \notin Inside
    BY <1>12 DEF Block, Inside, TypeOK, Threads, Go
  <2>3. At(w) \in Workers
    BY <1>12, <2>2, AtAQueue, PoolAssumption DEF Block, Threads, Workers
  <2>4. QED
    BY <2>1, <2>2, <2>3, UnlockKeepsMutexes
<1>13. ASSUME NEW w \in Workers, Exit(w) PROVE Mutexes'
  <2>1. OnlyMoves(w)
    BY <1>13, Movers
  <2>2. w \in Threads /\ Release(w) /\ pc[w] \in Inside /\ pc'[w] \notin Inside
    BY <1>13 DEF Exit, Inside, TypeOK, Threads, Go
  <2>3. At(w) \in Workers
    BY <1>13, <2>2, AtAQueue, PoolAssumption DEF Exit, Threads, Workers
  <2>4. QED
    BY <2>1, <2>2, <2>3, UnlockKeepsMutexes
<1>14. ASSUME NEW w \in Workers, Spurious(w) PROVE Mutexes'
  <2>1. OnlyMoves(w)
    BY <1>14, Movers
  <2>2. w \in Threads /\ holder' = holder /\ pc[w] \notin Inside /\ pc'[w] \notin Inside
    BY <1>14 DEF Spurious, Inside, TypeOK, Threads, queues, Go
  <2>3. QED
    BY <2>1, <2>2, OutsideKeepsMutexes
<1>15. ASSUME NEW w \in Workers, Finish(w) PROVE Mutexes'
  <2>1. OnlyMoves(w)
    BY <1>15, Movers
  <2>2. w \in Threads /\ holder' = holder /\ pc[w] \notin Inside /\ pc'[w] \notin Inside
    BY <1>15 DEF Finish, Inside, TypeOK, Threads, queues, Go
  <2>3. QED
    BY <2>1, <2>2, OutsideKeepsMutexes
<1>16. ASSUME CloseCall PROVE Mutexes'
  <2>1. OnlyMoves(Owner)
    BY <1>16, Movers
  <2>2. Owner \in Threads /\ holder' = holder /\ pc[Owner] \notin Inside /\ pc'[Owner] \notin Inside
    BY <1>16 DEF CloseCall, Inside, TypeOK, Threads, queues, Go, Roles
  <2>3. QED
    BY <2>1, <2>2, OutsideKeepsMutexes
<1>17. ASSUME DoneLock PROVE Mutexes'
  <2>1. OnlyMoves(Owner)
    BY <1>17, Movers
  <2>2. Owner \in Threads /\ Acquire(Owner) /\ pc[Owner] \notin Inside /\ pc'[Owner] \in Inside
    BY <1>17 DEF DoneLock, Inside, TypeOK, Threads, Go
  <2>3. At(Owner) \in Workers
    BY <1>17, <2>2, AtAQueue DEF DoneLock, Threads, Workers
  <2>4. At(Owner)' = At(Owner)
    <3>1. i'[Owner] = i[Owner] /\ n'[Owner] = n[Owner]
      BY <1>17 DEF DoneLock
    <3>2. Kind(pc'[Owner]) = Kind(pc[Owner])
      BY <1>17, <2>2 DEF DoneLock, TypeOK, Go, Kind
    <3>3. QED
      BY <2>2, <3>1, <3>2, AtStays
  <2>5. QED
    BY <2>1, <2>2, <2>3, <2>4, LockKeepsMutexes
<1>18. ASSUME Done PROVE Mutexes'
  <2>1. OnlyMoves(Owner)
    BY <1>18, Movers
  <2>2. Owner \in Threads /\ Release(Owner) /\ pc[Owner] \in Inside /\ pc'[Owner] \notin Inside
    BY <1>18 DEF Done, Inside, TypeOK, Threads, Go
  <2>3. At(Owner) \in Workers
    BY <1>18, <2>2, AtAQueue DEF Done, Threads, Workers
  <2>4. QED
    BY <2>1, <2>2, <2>3, UnlockKeepsMutexes
<1>19. ASSUME NotifyAll PROVE Mutexes'
  <2>1. OnlyMoves(Owner)
    BY <1>19, Movers
  <2>2. Owner \in Threads /\ holder' = holder /\ pc[Owner] \notin Inside /\ pc'[Owner] \notin Inside
    BY <1>19 DEF NotifyAll, Inside, TypeOK, Threads, queues, Go
  <2>3. QED
    BY <2>1, <2>2, OutsideKeepsMutexes
<1>20. ASSUME Join PROVE Mutexes'
  <2>1. OnlyMoves(Owner)
    BY <1>20, Movers
  <2>2. Owner \in Threads /\ holder' = holder /\ pc[Owner] \notin Inside /\ pc'[Owner] \notin Inside
    BY <1>20 DEF Join, Inside, TypeOK, Threads, queues, Go
  <2>3. QED
    BY <2>1, <2>2, OutsideKeepsMutexes
<1> HIDE DEF IInv
<1>21. QED
  BY <1>1, <1>2, <1>3, <1>4, <1>5, <1>6, <1>7, <1>8, <1>9, <1>10, <1>11, <1>12, <1>13,
     <1>14, <1>15, <1>16, <1>17, <1>18, <1>19, <1>20, Actions

LEMMA NextClosed == ASSUME IInv, Next PROVE Closed'
<1> USE DEF IInv, Threads, Go
<1>t. /\ pc \in [Threads -> Places] /\ n \in [Threads -> 0..(M * K)]
      /\ done \in [Workers -> BOOLEAN] /\ M \in Nat /\ Workers \subseteq Int
      /\ Owner \notin Workers \cup Clients /\ Workers \cap Clients = {}
  BY PoolAssumption DEF IInv, TypeOK, Workers
<1>1. ASSUME NEW c \in Workers \cup Clients, NEW t \in Tasks, Submit(c, t) PROVE Closed'
  BY <1>1, <1>t DEF Submit, Restart, queues, pool, Roles, Counters, Closed
<1>2. ASSUME NEW c \in Workers \cup Clients, OfferTaken(c) \/ PushLock(c) PROVE Closed'
  <2>1. CASE OfferTaken(c)
    BY <2>1, <1>t DEF OfferTaken, Acquire, queues, pool, Roles, Counters, Closed
  <2>2. CASE PushLock(c)
    BY <2>2, <1>t DEF PushLock, Acquire, queues, pool, Roles, Counters, Closed
  <2>3. QED
    BY <1>2, <2>1, <2>2
<1>3. ASSUME NEW c \in Workers \cup Clients, OfferRefused(c) PROVE Closed'
  BY <1>3, <1>t DEF OfferRefused, Next1, queues, pool, Roles, Counters, Closed
<1>4. ASSUME NEW c \in Workers \cup Clients, OfferOver(c) PROVE Closed'
  BY <1>4, <1>t DEF OfferOver, Restart, queues, pool, Roles, Counters, Closed
<1>5. ASSUME NEW c \in Workers \cup Clients, Insert(c) PROVE Closed'
  BY <1>5, <1>t DEF Insert, Release, queues, pool, Roles, Counters, Closed
<1>6. ASSUME NEW c \in Workers \cup Clients, NotifyOne(c) PROVE Closed'
  BY <1>6, <1>t DEF NotifyOne, Restart, Woken, Home, queues, pool, Roles, Counters, Closed
<1>7. ASSUME NEW w \in Workers, TryPopLock(w) \/ PopLock(w) PROVE Closed'
  <2>1. CASE TryPopLock(w)
    BY <2>1, <1>t DEF TryPopLock, Acquire, queues, pool, Roles, Counters, Closed
  <2>2. CASE PopLock(w)
    BY <2>2, <1>t DEF PopLock, Acquire, queues, pool, Roles, Counters, Closed
  <2>3. QED
    BY <1>7, <2>1, <2>2
<1>8. ASSUME NEW w \in Workers, TryPopRefused(w) PROVE Closed'
  BY <1>8, <1>t DEF TryPopRefused, Next1, queues, pool, Roles, Counters, Closed
<1>9. ASSUME NEW w \in Workers, TryPopEmpty(w) PROVE Closed'
  BY <1>9, <1>t DEF TryPopEmpty, Next1, Release, queues, pool, Roles, Counters, Closed
<1>10. ASSUME NEW w \in Workers, Take(w) PROVE Closed'
  BY <1>10, <1>t DEF Take, Restart, Release, queues, pool, Roles, Counters, Closed
<1>11. ASSUME NEW w \in Workers, LookOver(w) PROVE Closed'
  BY <1>11, <1>t DEF LookOver, Restart, queues, pool, Roles, Counters, Closed
<1>12. ASSUME NEW w \in Workers, Block(w) PROVE Closed'
  BY <1>12, <1>t DEF Block, Release, queues, pool, Roles, Counters, Closed
<1>13. ASSUME NEW w \in Workers, Exit(w) PROVE Closed'
  BY <1>13, <1>t DEF Exit, Release, queues, pool, Roles, Counters, Closed
<1>14. ASSUME NEW w \in Workers, Spurious(w) PROVE Closed'
  BY <1>14, <1>t DEF Spurious, queues, pool, Roles, Counters, Closed
<1>15. ASSUME NEW w \in Workers, Finish(w) PROVE Closed'
  BY <1>15, <1>t DEF Finish, queues, pool, Roles, Counters, Closed
<1>16. ASSUME CloseCall PROVE Closed'
  BY <1>16, <1>t DEF CloseCall, queues, pool, Roles, Counters, Closed
<1>17. ASSUME DoneLock PROVE Closed'
  BY <1>17, <1>t DEF DoneLock, Acquire, queues, pool, Roles, Counters, Closed
<1>18. ASSUME Done PROVE Closed'
  <2>1. At(Owner) = n[Owner]
    BY <1>18, <1>t DEF Done, At
  <2>2. QED
    BY <1>18, <2>1 DEF Done, Release, pool, TypeOK, Roles, Counters, Closed, Threads, Go
<1>19. ASSUME NotifyAll PROVE Closed'
  <2>1. /\ OnlyMoves(Owner) /\ done' = done /\ phase' = phase /\ n'[Owner] = n[Owner] + 1
        /\ pc[Owner] = "all" /\ pc'[Owner] \in {"join", "done"}
    BY <1>19, Movers DEF NotifyAll, Next1, pool, queues, TypeOK
  <2>2. \A w \in Workers : pc'[w] = "exited" => pc[w] = "exited"
    BY <2>1, <1>t DEF OnlyMoves
  <2>3. n[Owner] \in Nat
    BY DEF TypeOK
  <2>4. QED
    BY <2>1, <2>2, <2>3, <1>t DEF Closed
<1>20. ASSUME Join PROVE Closed'
  BY <1>20, <1>t DEF Join, queues, pool, Roles, Counters, Closed
<1> HIDE DEF IInv
<1>21. QED
  BY <1>1, <1>2, <1>3, <1>4, <1>5, <1>6, <1>7, <1>8, <1>9, <1>10, <1>11, <1>12, <1>13,
     <1>14, <1>15, <1>16, <1>17, <1>18, <1>19, <1>20, Actions

------------------------------------------------------------------------------
LEMMA StillTold ==
    ASSUME IInv, NEW t \in Threads, OnlyMoves(t), NEW q \in Workers,
           queue[q] # <<>>, pc'[q] = "blocked", t # q, ~Tells(t, q)
    PROVE  \E u \in Threads : Tells(u, q)'
<1>1. pc[q] = "blocked"
  BY DEF OnlyMoves, Threads
<1>2. PICK u \in Threads : Tells(u, q)
  BY <1>1 DEF IInv, Told
<1>3. u # t /\ At(u)' = At(u)
  BY <1>2, OthersStay
<1>4. pc'[u] = pc[u]
  BY <1>2, <1>3 DEF OnlyMoves, Tells
<1>5. Tells(u, q)'
  BY <1>2, <1>3, <1>4 DEF Tells
<1>6. QED
  BY <1>5

\* Most steps touch no queue, and the thread that steps was not to tell anybody.
LEMMA SilentKeepsTold ==
    ASSUME IInv, NEW t \in Threads, OnlyMoves(t), pc[t] \notin {"one", "all"},
           pc'[t] # "blocked" \/ queue[t] = <<>>,
           \A q \in Workers : queue'[q] # <<>> => queue[q] # <<>>
    PROVE  Told'
<1> SUFFICES ASSUME NEW q \in Workers, pc'[q] = "blocked", queue'[q] # <<>>
             PROVE  \E u \in Threads : Tells(u, q)'
  BY DEF Told
<1>1. q # t /\ queue[q] # <<>> /\ ~Tells(t, q)
  BY DEF Tells
<1>2. QED
  BY <1>1, StillTold

LEMMA NextTold == ASSUME IInv, Next PROVE Told'
<1> USE DEF IInv
<1>1. ASSUME NEW c \in Workers \cup Clients, NEW t \in Tasks, Submit(c, t) PROVE Told'
  <2>1. OnlyMoves(c) /\ c \in Threads
    BY <1>1, Movers DEF Threads
  <2>2. pc[c] \notin {"one", "all"} /\ (pc'[c] # "blocked" \/ queue[c] = <<>>)
    BY <1>1, <2>1 DEF Submit, TypeOK, Go
  <2>3. \A q \in Workers : queue'[q] # <<>> => queue[q] # <<>>
    BY <1>1 DEF Submit, queues, TypeOK
  <2>4. QED
    BY <2>1, <2>2, <2>3, SilentKeepsTold
<1>2. ASSUME NEW c \in Workers \cup Clients, OfferTaken(c) \/ PushLock(c) PROVE Told'
  <2>1. OnlyMoves(c) /\ c \in Threads
    BY <1>2, Movers DEF Threads
  <2>2. pc[c] \notin {"one", "all"} /\ (pc'[c] # "blocked" \/ queue[c] = <<>>)
    BY <1>2, <2>1 DEF OfferTaken, PushLock, TypeOK, Go
  <2>3. \A q \in Workers : queue'[q] # <<>> => queue[q] # <<>>
    BY <1>2 DEF OfferTaken, PushLock, queues, TypeOK
  <2>4. QED
    BY <2>1, <2>2, <2>3, SilentKeepsTold
<1>3. ASSUME NEW c \in Workers \cup Clients, OfferRefused(c) PROVE Told'
  <2>1. OnlyMoves(c) /\ c \in Threads
    BY <1>3, Movers DEF Threads
  <2>2. pc[c] \notin {"one", "all"} /\ (pc'[c] # "blocked" \/ queue[c] = <<>>)
    BY <1>3, <2>1 DEF OfferRefused, TypeOK, Go
  <2>3. \A q \in Workers : queue'[q] # <<>> => queue[q] # <<>>
    BY <1>3 DEF OfferRefused, queues, TypeOK
  <2>4. QED
    BY <2>1, <2>2, <2>3, SilentKeepsTold
<1>4. ASSUME NEW c \in Workers \cup Clients, OfferOver(c) PROVE Told'
  <2>1. OnlyMoves(c) /\ c \in Threads
    BY <1>4, Movers DEF Threads
  <2>2. pc[c] \notin {"one", "all"} /\ (pc'[c] # "blocked" \/ queue[c] = <<>>)
    BY <1>4, <2>1 DEF OfferOver, TypeOK, Go
  <2>3. \A q \in Workers : queue'[q] # <<>> => queue[q] # <<>>
    BY <1>4 DEF OfferOver, queues, TypeOK
  <2>4. QED
    BY <2>1, <2>2, <2>3, SilentKeepsTold
<1>5. ASSUME NEW c \in Workers \cup Clients, Insert(c) PROVE Told'
  <2> SUFFICES ASSUME NEW q \in Workers, pc'[q] = "blocked", queue'[q] # <<>>
               PROVE  \E u \in Threads : Tells(u, q)'
    BY DEF Told
  <2>1. OnlyMoves(c) /\ c \in Threads
    BY <1>5, Movers DEF Threads
  <2>2. pc[c] = "push_in" /\ pc'[c] = "one" /\ i' = i /\ n' = n
    BY <1>5, <2>1 DEF Insert, TypeOK, Go
  <2>3. At(c)' = At(c)
    BY <2>1, <2>2, AtStays DEF Kind
  <2>4. CASE q = At(c)
    BY <2>1, <2>2, <2>3, <2>4 DEF Tells
  <2>5. CASE q # At(c)
    <3>1. queue[q] # <<>> /\ q # c /\ ~Tells(c, q)
      BY <1>5, <2>2, <2>5 DEF Insert, TypeOK, Tells
    <3>2. QED
      BY <2>1, <3>1, StillTold
  <2>6. QED
    BY <2>4, <2>5
<1>6. ASSUME NEW c \in Workers \cup Clients, NotifyOne(c) PROVE Told'
  <2> SUFFICES ASSUME NEW q \in Workers, pc'[q] = "blocked", queue'[q] # <<>>
               PROVE  \E u \in Threads : Tells(u, q)'
    BY DEF Told
  <2>1. OnlyMoves(c) /\ c \in Threads
    BY <1>6, Movers DEF Threads
  <2>2. queue[q] # <<>> /\ q # c /\ q # At(c)
    BY <1>6, <2>1, PoolAssumption DEF NotifyOne, queues, TypeOK, Threads, Workers, Woken, Home
  <2>3. ~Tells(c, q)
    BY <2>2 DEF Tells
  <2>4. QED
    BY <2>1, <2>2, <2>3, StillTold
<1>7. ASSUME NEW w \in Workers, TryPopLock(w) \/ PopLock(w) PROVE Told'
  <2>1. OnlyMoves(w) /\ w \in Threads
    BY <1>7, Movers DEF Threads
  <2>2. pc[w] \notin {"one", "all"} /\ (pc'[w] # "blocked" \/ queue[w] = <<>>)
    BY <1>7, <2>1 DEF TryPopLock, PopLock, TypeOK, Go
  <2>3. \A q \in Workers : queue'[q] # <<>> => queue[q] # <<>>
    BY <1>7 DEF TryPopLock, PopLock, queues, TypeOK
  <2>4. QED
    BY <2>1, <2>2, <2>3, SilentKeepsTold
<1>8. ASSUME NEW w \in Workers, TryPopRefused(w) PROVE Told'
  <2>1. OnlyMoves(w) /\ w \in Threads
    BY <1>8, Movers DEF Threads
  <2>2. pc[w] \notin {"one", "all"} /\ (pc'[w] # "blocked" \/ queue[w] = <<>>)
    BY <1>8, <2>1 DEF TryPopRefused, TypeOK, Go
  <2>3. \A q \in Workers : queue'[q] # <<>> => queue[q] # <<>>
    BY <1>8 DEF TryPopRefused, queues, TypeOK
  <2>4. QED
    BY <2>1, <2>2, <2>3, SilentKeepsTold
<1>9. ASSUME NEW w \in Workers, TryPopEmpty(w) PROVE Told'
  <2>1. OnlyMoves(w) /\ w \in Threads
    BY <1>9, Movers DEF Threads
  <2>2. pc[w] \notin {"one", "all"} /\ (pc'[w] # "blocked" \/ queue[w] = <<>>)
    BY <1>9, <2>1 DEF TryPopEmpty, TypeOK, Go
  <2>3. \A q \in Workers : queue'[q] # <<>> => queue[q] # <<>>
    BY <1>9 DEF TryPopEmpty, queues, TypeOK
  <2>4. QED
    BY <2>1, <2>2, <2>3, SilentKeepsTold
<1>10. ASSUME NEW w \in Workers, Take(w) PROVE Told'
  <2>1. OnlyMoves(w) /\ w \in Threads
    BY <1>10, Movers DEF Threads
  <2>2. pc[w] \notin {"one", "all"} /\ (pc'[w] # "blocked" \/ queue[w] = <<>>)
    BY <1>10, <2>1 DEF Take, TypeOK, Go
  <2>3. \A q \in Workers : queue'[q] # <<>> => queue[q] # <<>>
    BY <1>10 DEF Take, queues, TypeOK
  <2>4. QED
    BY <2>1, <2>2, <2>3, SilentKeepsTold
<1>11. ASSUME NEW w \in Workers, LookOver(w) PROVE Told'
  <2>1. OnlyMoves(w) /\ w \in Threads
    BY <1>11, Movers DEF Threads
  <2>2. pc[w] \notin {"one", "all"} /\ (pc'[w] # "blocked" \/ queue[w] = <<>>)
    BY <1>11, <2>1 DEF LookOver, TypeOK, Go
  <2>3. \A q \in Workers : queue'[q] # <<>> => queue[q] # <<>>
    BY <1>11 DEF LookOver, queues, TypeOK
  <2>4. QED
    BY <2>1, <2>2, <2>3, SilentKeepsTold
<1>12. ASSUME NEW w \in Workers, Block(w) PROVE Told'
  <2>1. OnlyMoves(w) /\ w \in Threads
    BY <1>12, Movers DEF Threads
  <2>2. pc[w] \notin {"one", "all"} /\ (pc'[w] # "blocked" \/ queue[w] = <<>>)
    BY <1>12, <2>1 DEF Block, TypeOK, Go
  <2>3. \A q \in Workers : queue'[q] # <<>> => queue[q] # <<>>
    BY <1>12 DEF Block, queues, TypeOK
  <2>4. QED
    BY <2>1, <2>2, <2>3, SilentKeepsTold
<1>13. ASSUME NEW w \in Workers, Exit(w) PROVE Told'
  <2>1. OnlyMoves(w) /\ w \in Threads
    BY <1>13, Movers DEF Threads
  <2>2. pc[w] \notin {"one", "all"} /\ (pc'[w] # "blocked" \/ queue[w] = <<>>)
    BY <1>13, <2>1 DEF Exit, TypeOK, Go
  <2>3. \A q \in Workers : queue'[q] # <<>> => queue[q] # <<>>
    BY <1>13 DEF Exit, queues, TypeOK
  <2>4. QED
    BY <2>1, <2>2, <2>3, SilentKeepsTold
<1>14. ASSUME NEW w \in Workers, Spurious(w) PROVE Told'
  <2>1. OnlyMoves(w) /\ w \in Threads
    BY <1>14, Movers DEF Threads
  <2>2. pc[w] \notin {"one", "all"} /\ (pc'[w] # "blocked" \/ queue[w] = <<>>)
    BY <1>14, <2>1 DEF Spurious, TypeOK, Go
  <2>3. \A q \in Workers : queue'[q] # <<>> => queue[q] # <<>>
    BY <1>14 DEF Spurious, queues, TypeOK
  <2>4. QED
    BY <2>1, <2>2, <2>3, SilentKeepsTold
<1>15. ASSUME NEW w \in Workers, Finish(w) PROVE Told'
  <2>1. OnlyMoves(w) /\ w \in Threads
    BY <1>15, Movers DEF Threads
  <2>2. pc[w] \notin {"one", "all"} /\ (pc'[w] # "blocked" \/ queue[w] = <<>>)
    BY <1>15, <2>1 DEF Finish, TypeOK, Go
  <2>3. \A q \in Workers : queue'[q] # <<>> => queue[q] # <<>>
    BY <1>15 DEF Finish, queues, TypeOK
  <2>4. QED
    BY <2>1, <2>2, <2>3, SilentKeepsTold
<1>16. ASSUME CloseCall PROVE Told'
  <2>1. OnlyMoves(Owner) /\ Owner \in Threads
    BY <1>16, Movers DEF Threads
  <2>2. pc[Owner] \notin {"one", "all"} /\ (pc'[Owner] # "blocked" \/ queue[Owner] = <<>>)
    BY <1>16, <2>1 DEF CloseCall, TypeOK, Go, Roles
  <2>3. \A q \in Workers : queue'[q] # <<>> => queue[q] # <<>>
    BY <1>16 DEF CloseCall, queues, TypeOK
  <2>4. QED
    BY <2>1, <2>2, <2>3, SilentKeepsTold
<1>17. ASSUME DoneLock PROVE Told'
  <2>1. OnlyMoves(Owner) /\ Owner \in Threads
    BY <1>17, Movers DEF Threads
  <2>2. pc[Owner] \notin {"one", "all"} /\ (pc'[Owner] # "blocked" \/ queue[Owner] = <<>>)
    BY <1>17, <2>1 DEF DoneLock, TypeOK, Go
  <2>3. \A q \in Workers : queue'[q] # <<>> => queue[q] # <<>>
    BY <1>17 DEF DoneLock, queues, TypeOK
  <2>4. QED
    BY <2>1, <2>2, <2>3, SilentKeepsTold
<1>18. ASSUME Done PROVE Told'
  <2>1. OnlyMoves(Owner) /\ Owner \in Threads
    BY <1>18, Movers DEF Threads
  <2>2. pc[Owner] \notin {"one", "all"} /\ (pc'[Owner] # "blocked" \/ queue[Owner] = <<>>)
    BY <1>18, <2>1 DEF Done, TypeOK, Go
  <2>3. \A q \in Workers : queue'[q] # <<>> => queue[q] # <<>>
    BY <1>18 DEF Done, queues, TypeOK
  <2>4. QED
    BY <2>1, <2>2, <2>3, SilentKeepsTold
<1>19. ASSUME NotifyAll PROVE Told'
  <2> SUFFICES ASSUME NEW q \in Workers, pc'[q] = "blocked", queue'[q] # <<>>
               PROVE  \E u \in Threads : Tells(u, q)'
    BY DEF Told
  <2>1. OnlyMoves(Owner) /\ Owner \in Threads
    BY <1>19, Movers DEF Threads
  <2>2. queue[q] # <<>> /\ q # Owner /\ q # At(Owner)
    BY <1>19, <2>1, PoolAssumption DEF NotifyAll, queues, TypeOK, Threads, Workers, Woken
  <2>3. ~Tells(Owner, q)
    BY <2>2 DEF Tells
  <2>4. QED
    BY <2>1, <2>2, <2>3, StillTold
<1>20. ASSUME Join PROVE Told'
  <2>1. OnlyMoves(Owner) /\ Owner \in Threads
    BY <1>20, Movers DEF Threads
  <2>2. pc[Owner] \notin {"one", "all"} /\ (pc'[Owner] # "blocked" \/ queue[Owner] = <<>>)
    BY <1>20, <2>1 DEF Join, TypeOK, Go
  <2>3. \A q \in Workers : queue'[q] # <<>> => queue[q] # <<>>
    BY <1>20 DEF Join, queues, TypeOK
  <2>4. QED
    BY <2>1, <2>2, <2>3, SilentKeepsTold
<1> HIDE DEF IInv
<1>21. QED
  BY <1>1, <1>2, <1>3, <1>4, <1>5, <1>6, <1>7, <1>8, <1>9, <1>10, <1>11, <1>12, <1>13,
     <1>14, <1>15, <1>16, <1>17, <1>18, <1>19, <1>20, Actions

------------------------------------------------------------------------------
\* Somebody still comes by queue q, if it is not the thread that steps.
LEMMA StillCovered ==
    ASSUME IInv, NEW t \in Threads, OnlyMoves(t), NEW q \in Workers,
           pc[q] = "exited", queue[q] # <<>>,
           t \in Workers /\ Sees(t, q) => \E w \in Workers : Sees(w, q)'
    PROVE  \E w \in Workers : Sees(w, q)'
<1>1. PICK w \in Workers : Sees(w, q)
  BY DEF IInv, Covered
<1>2. CASE w = t
  BY <1>1, <1>2
<1>3. CASE w # t
  <2>1. w \in Threads \ {t}
    BY <1>3 DEF Threads
  <2>2. n'[w] = n[w] /\ pc'[w] = pc[w]
    BY <1>1, <2>1 DEF OnlyMoves, Sees
  <2>3. Sees(w, q)'
    BY <1>1, <2>2 DEF Sees, StillToSee
  <2>4. QED
    BY <2>3
<1>4. QED
  BY <1>2, <1>3

\* A worker that has a task to run or to submit comes by every queue; a client
\* has none any more.
LEMMA BusyCovers ==
    ASSUME IInv, NEW t \in Workers \cup Clients, OnlyMoves(t), NEW q \in Workers,
           pc'[q] = "exited", queue[q] # <<>>,
           t \in Clients \/ pc'[t] \in {"run", "offer", "push", "push_in", "one"}, t # q
    PROVE  \E w \in Workers : Sees(w, q)'
<1>1. CASE t \in Workers /\ t \notin Clients
  BY <1>1 DEF Sees
<1>2. CASE t \in Clients
  <2>1. t \in Threads /\ t \notin Workers
    BY <1>2, PoolAssumption DEF Threads, Workers
  <2>2. pc[q] = "exited"
    BY <2>1 DEF OnlyMoves, Threads
  <2>3. QED
    BY <2>1, <2>2, StillCovered
<1>3. QED
  BY <1>1, <1>2

LEMMA NextCovered == ASSUME IInv, Next PROVE Covered'
<1> USE DEF IInv
<1>1. ASSUME NEW c \in Workers \cup Clients, NEW t \in Tasks, Submit(c, t) PROVE Covered'
  <2> SUFFICES ASSUME NEW q \in Workers, pc'[q] = "exited", queue'[q] # <<>>
               PROVE  \E v \in Workers : Sees(v, q)'
    BY DEF Covered
  <2>1. OnlyMoves(c) /\ c \in Threads
    BY <1>1, Movers DEF Threads
  <2>2. c \in Clients \/ pc'[c] \in {"run", "offer", "push", "push_in", "one"}
    BY <1>1, <2>1 DEF Submit, TypeOK, Go
  <2>3. queue[q] # <<>> /\ c # q
    BY <1>1, <2>1, <2>2, PoolAssumption DEF Submit, queues, TypeOK, Workers
  <2>4. QED
    BY <2>1, <2>2, <2>3, BusyCovers
<1>2. ASSUME NEW c \in Workers \cup Clients, OfferTaken(c) \/ PushLock(c) PROVE Covered'
  <2> SUFFICES ASSUME NEW q \in Workers, pc'[q] = "exited", queue'[q] # <<>>
               PROVE  \E v \in Workers : Sees(v, q)'
    BY DEF Covered
  <2>1. OnlyMoves(c) /\ c \in Threads
    BY <1>2, Movers DEF Threads
  <2>2. c \in Clients \/ pc'[c] \in {"run", "offer", "push", "push_in", "one"}
    BY <1>2, <2>1 DEF OfferTaken, PushLock, TypeOK, Go
  <2>3. queue[q] # <<>> /\ c # q
    BY <1>2, <2>1, <2>2, PoolAssumption DEF OfferTaken, PushLock, queues, TypeOK, Workers
  <2>4. QED
    BY <2>1, <2>2, <2>3, BusyCovers
<1>3. ASSUME NEW c \in Workers \cup Clients, OfferRefused(c) PROVE Covered'
  <2> SUFFICES ASSUME NEW q \in Workers, pc'[q] = "exited", queue'[q] # <<>>
               PROVE  \E v \in Workers : Sees(v, q)'
    BY DEF Covered
  <2>1. OnlyMoves(c) /\ c \in Threads
    BY <1>3, Movers DEF Threads
  <2>2. c \in Clients \/ pc'[c] \in {"run", "offer", "push", "push_in", "one"}
    BY <1>3, <2>1 DEF OfferRefused, TypeOK, Go
  <2>3. queue[q] # <<>> /\ c # q
    BY <1>3, <2>1, <2>2, PoolAssumption DEF OfferRefused, queues, TypeOK, Workers
  <2>4. QED
    BY <2>1, <2>2, <2>3, BusyCovers
<1>4. ASSUME NEW c \in Workers \cup Clients, OfferOver(c) PROVE Covered'
  <2> SUFFICES ASSUME NEW q \in Workers, pc'[q] = "exited", queue'[q] # <<>>
               PROVE  \E v \in Workers : Sees(v, q)'
    BY DEF Covered
  <2>1. OnlyMoves(c) /\ c \in Threads
    BY <1>4, Movers DEF Threads
  <2>2. c \in Clients \/ pc'[c] \in {"run", "offer", "push", "push_in", "one"}
    BY <1>4, <2>1 DEF OfferOver, TypeOK, Go
  <2>3. queue[q] # <<>> /\ c # q
    BY <1>4, <2>1, <2>2, PoolAssumption DEF OfferOver, queues, TypeOK, Workers
  <2>4. QED
    BY <2>1, <2>2, <2>3, BusyCovers
<1>5. ASSUME NEW c \in Workers \cup Clients, Insert(c) PROVE Covered'
  <2> SUFFICES ASSUME NEW q \in Workers, pc'[q] = "exited", queue'[q] # <<>>
               PROVE  \E v \in Workers : Sees(v, q)'
    BY DEF Covered
  <2>1. OnlyMoves(c) /\ c \in Threads
    BY <1>5, Movers DEF Threads
  <2>2. pc[c] = "push_in" /\ pc'[c] = "one"
    BY <1>5, <2>1 DEF Insert, TypeOK, Go
  <2>3. CASE c \in Workers
    BY <2>2, <2>3 DEF Sees
  <2>4. CASE c \in Clients
    <3>1. phase = "open" /\ pc[q] = "exited"
      BY <2>1, <2>2, <2>4 DEF Roles, OnlyMoves, Threads
    <3>2. QED
      BY <3>1 DEF Closed
  <2>5. QED
    BY <2>3, <2>4
<1>6. ASSUME NEW c \in Workers \cup Clients, NotifyOne(c) PROVE Covered'
  <2> SUFFICES ASSUME NEW q \in Workers, pc'[q] = "exited", queue'[q] # <<>>
               PROVE  \E v \in Workers : Sees(v, q)'
    BY DEF Covered
  <2>1. OnlyMoves(c) /\ c \in Threads
    BY <1>6, Movers DEF Threads
  <2>2. c \in Clients \/ pc'[c] \in {"run", "offer", "push", "push_in", "one"}
    BY <1>6, <2>1 DEF NotifyOne, TypeOK, Go, Home, Woken
  <2>3. queue[q] # <<>> /\ c # q
    BY <1>6, <2>1, <2>2, PoolAssumption DEF NotifyOne, queues, TypeOK, Workers
  <2>4. QED
    BY <2>1, <2>2, <2>3, BusyCovers
<1>7. ASSUME NEW w \in Workers, TryPopLock(w) \/ PopLock(w) PROVE Covered'
  <2> SUFFICES ASSUME NEW q \in Workers, pc'[q] = "exited", queue'[q] # <<>>
               PROVE  \E v \in Workers : Sees(v, q)'
    BY DEF Covered
  <2>1. OnlyMoves(w) /\ w \in Threads
    BY <1>7, Movers DEF Threads
  <2>2. queue[q] # <<>> /\ pc[q] = "exited"
    <3>1. w # q
      BY <1>7, <2>1, PoolAssumption DEF TryPopLock, PopLock, TypeOK, Go, Workers
    <3>2. pc[q] = "exited"
      BY <2>1, <3>1 DEF OnlyMoves, Threads
    <3>3. queue[q] # <<>>
      BY <1>7 DEF TryPopLock, PopLock, queues, TypeOK
    <3>4. QED
      BY <3>2, <3>3
  <2>3. CASE PopLock(w)
    <3>1. ~Sees(w, q)
      BY <2>3 DEF PopLock, Sees
    <3>2. QED
      BY <2>1, <2>2, <3>1, StillCovered
  <2>4. CASE TryPopLock(w)
    <3>1. n'[w] = n[w] /\ pc[w] = "look" /\ pc'[w] = "try_pop_in"
      BY <2>4, <2>1 DEF TryPopLock, TypeOK, Go
    <3>2. Sees(w, q) => Sees(w, q)'
      BY <3>1 DEF Sees, StillToSee
    <3>3. QED
      BY <2>1, <2>2, <3>2, StillCovered
  <2>5. QED
    BY <1>7, <2>3, <2>4
<1>8. ASSUME NEW w \in Workers, TryPopRefused(w) PROVE Covered'
  <2> SUFFICES ASSUME NEW q \in Workers, pc'[q] = "exited", queue'[q] # <<>>
               PROVE  \E v \in Workers : Sees(v, q)'
    BY DEF Covered
  <2>1. OnlyMoves(w) /\ w \in Threads
    BY <1>8, Movers DEF Threads
  <2>2. queue[q] # <<>> /\ pc[q] = "exited"
    <3>1. w # q
      BY <1>8, <2>1, PoolAssumption DEF TryPopRefused, TypeOK, Go, Workers
    <3>2. pc[q] = "exited"
      BY <2>1, <3>1 DEF OnlyMoves, Threads
    <3>3. queue[q] # <<>>
      BY <1>8 DEF TryPopRefused, queues, TypeOK
    <3>4. QED
      BY <3>2, <3>3
  <2>3. n'[w] = n[w] + 1 /\ n[w] \in Nat /\ pc[w] = "look" /\ pc'[w] = "look"
    BY <1>8, <2>1 DEF TryPopRefused, Next1, TypeOK
  <2>4. At(w) = (w + n[w]) % M
    BY <2>1, <2>3, AtCases
  <2>5. CASE At(w) # q
    <3>1. Sees(w, q) => Sees(w, q)'
      BY <2>3, <2>4, <2>5, Rounds DEF Sees, StillToSee
    <3>2. QED
      BY <2>1, <2>2, <3>1, StillCovered
  <2>6. CASE At(w) = q
    <3> PICK h \in Threads : h = holder[q]
      BY <1>8, <2>6 DEF TryPopRefused, TypeOK
    <3>1. pc[h] \in Inside /\ At(h) = q /\ h # w
      BY <2>3 DEF Mutexes, Inside
    <3>2. done[q] /\ phase # "open"
      BY <2>2 DEF Closed
    <3>3. h # Owner
      <4>1. SUFFICES ASSUME h = Owner PROVE FALSE
        OBVIOUS
      <4>2. pc[Owner] = "done_in"
        BY <4>1, <3>1 DEF Inside, Roles
      <4>3. At(Owner) = n[Owner]
        BY <4>2 DEF At
      <4>4. q < n[Owner]
        BY <3>2, <4>1, <4>2, <4>3, <3>1 DEF Closed
      <4>5. QED
        BY <4>1, <4>3, <4>4, <3>1 DEF Workers
    <3>4. h \in Workers
      BY <3>1, <3>2, <3>3 DEF Threads, Roles, Inside
    <3>5. pc'[h] = pc[h] /\ n'[h] = n[h]
      BY <2>1, <3>1 DEF OnlyMoves, Inside
    <3>6. pc[h] # "pop_in"
      <4>1. SUFFICES ASSUME pc[h] = "pop_in" PROVE FALSE
        OBVIOUS
      <4>2. At(h) = h
        BY <3>4, <4>1, AtCases
      <4>3. QED
        BY <4>1, <4>2, <3>1, <2>2
    <3>7. CASE pc[h] = "push_in"
      BY <3>4, <3>5, <3>7 DEF Sees
    <3>8. CASE pc[h] = "try_pop_in"
      <4>1. At(h) = (h + n[h]) % M
        BY <3>4, <3>8, AtCases
      <4>2. n[h] \in n[h]..(M * K - 1)
        BY <3>4, <3>8, Rounds DEF Counters, TypeOK, Threads
      <4>3. StillToSee(h, q)
        BY <4>1, <4>2, <3>1 DEF StillToSee
      <4>4. Sees(h, q)'
        BY <3>5, <3>8, <4>3 DEF Sees, StillToSee
      <4>5. QED
        BY <3>4, <4>4
    <3>9. QED
      BY <3>1, <3>4, <3>6, <3>7, <3>8 DEF Inside, Roles
  <2>7. QED
    BY <2>5, <2>6
<1>9. ASSUME NEW w \in Workers, TryPopEmpty(w) PROVE Covered'
  <2> SUFFICES ASSUME NEW q \in Workers, pc'[q] = "exited", queue'[q] # <<>>
               PROVE  \E v \in Workers : Sees(v, q)'
    BY DEF Covered
  <2>1. OnlyMoves(w) /\ w \in Threads
    BY <1>9, Movers DEF Threads
  <2>2. queue[q] # <<>> /\ pc[q] = "exited"
    <3>1. w # q
      BY <1>9, <2>1, PoolAssumption DEF TryPopEmpty, TypeOK, Go, Workers
    <3>2. pc[q] = "exited"
      BY <2>1, <3>1 DEF OnlyMoves, Threads
    <3>3. queue[q] # <<>>
      BY <1>9 DEF TryPopEmpty, queues, TypeOK
    <3>4. QED
      BY <3>2, <3>3
  <2>3. /\ n'[w] = n[w] + 1 /\ n[w] \in Nat
        /\ pc[w] = "try_pop_in" /\ pc'[w] = "look" /\ queue[At(w)] = <<>>
    BY <1>9, <2>1 DEF TryPopEmpty, Next1, TypeOK, Go
  <2>4. (w + n[w]) % M # q
    BY <2>1, <2>2, <2>3, AtCases
  <2>5. Sees(w, q) => Sees(w, q)'
    BY <2>3, <2>4, Rounds DEF Sees, StillToSee
  <2>6. QED
    BY <2>1, <2>2, <2>5, StillCovered
<1>10. ASSUME NEW w \in Workers, Take(w) PROVE Covered'
  <2> SUFFICES ASSUME NEW q \in Workers, pc'[q] = "exited", queue'[q] # <<>>
               PROVE  \E v \in Workers : Sees(v, q)'
    BY DEF Covered
  <2>1. OnlyMoves(w) /\ w \in Threads
    BY <1>10, Movers DEF Threads
  <2>2. w \in Clients \/ pc'[w] \in {"run", "offer", "push", "push_in", "one"}
    BY <1>10, <2>1 DEF Take, TypeOK, Go
  <2>3. queue[q] # <<>> /\ w # q
    BY <1>10, <2>1, <2>2, PoolAssumption DEF Take, queues, TypeOK, Workers
  <2>4. QED
    BY <2>1, <2>2, <2>3, BusyCovers
<1>11. ASSUME NEW w \in Workers, LookOver(w) PROVE Covered'
  <2> SUFFICES ASSUME NEW q \in Workers, pc'[q] = "exited", queue'[q] # <<>>
               PROVE  \E v \in Workers : Sees(v, q)'
    BY DEF Covered
  <2>1. OnlyMoves(w) /\ w \in Threads
    BY <1>11, Movers DEF Threads
  <2>2. queue[q] # <<>> /\ pc[q] = "exited"
    <3>1. w # q
      BY <1>11, <2>1, PoolAssumption DEF LookOver, TypeOK, Go, Workers
    <3>2. pc[q] = "exited"
      BY <2>1, <3>1 DEF OnlyMoves, Threads
    <3>3. queue[q] # <<>>
      BY <1>11 DEF LookOver, queues, TypeOK
    <3>4. QED
      BY <3>2, <3>3
  <2>3. ~Sees(w, q)
    BY <1>11, Rounds DEF LookOver, Sees, StillToSee
  <2>4. QED
    BY <2>1, <2>2, <2>3, StillCovered
<1>12. ASSUME NEW w \in Workers, Block(w) PROVE Covered'
  <2> SUFFICES ASSUME NEW q \in Workers, pc'[q] = "exited", queue'[q] # <<>>
               PROVE  \E v \in Workers : Sees(v, q)'
    BY DEF Covered
  <2>1. OnlyMoves(w) /\ w \in Threads
    BY <1>12, Movers DEF Threads
  <2>2. queue[q] # <<>> /\ pc[q] = "exited"
    <3>1. w # q
      BY <1>12, <2>1, PoolAssumption DEF Block, TypeOK, Go, Workers
    <3>2. pc[q] = "exited"
      BY <2>1, <3>1 DEF OnlyMoves, Threads
    <3>3. queue[q] # <<>>
      BY <1>12 DEF Block, queues, TypeOK
    <3>4. QED
      BY <3>2, <3>3
  <2>3. ~Sees(w, q)
    BY <1>12 DEF Block, Sees
  <2>4. QED
    BY <2>1, <2>2, <2>3, StillCovered
<1>13. ASSUME NEW w \in Workers, Exit(w) PROVE Covered'
  <2> SUFFICES ASSUME NEW q \in Workers, pc'[q] = "exited", queue'[q] # <<>>
               PROVE  \E v \in Workers : Sees(v, q)'
    BY DEF Covered
  <2>1. OnlyMoves(w) /\ w \in Threads
    BY <1>13, Movers DEF Threads
  <2>2. queue[q] # <<>> /\ q # w
    BY <1>13 DEF Exit
  <2>3. pc[q] = "exited" /\ ~Sees(w, q)
    BY <1>13, <2>1, <2>2 DEF Exit, OnlyMoves, Sees, Threads
  <2>4. QED
    BY <2>1, <2>2, <2>3, StillCovered
<1>14. ASSUME NEW w \in Workers, Spurious(w) PROVE Covered'
  <2> SUFFICES ASSUME NEW q \in Workers, pc'[q] = "exited", queue'[q] # <<>>
               PROVE  \E v \in Workers : Sees(v, q)'
    BY DEF Covered
  <2>1. OnlyMoves(w) /\ w \in Threads
    BY <1>14, Movers DEF Threads
  <2>2. queue[q] # <<>> /\ pc[q] = "exited"
    <3>1. w # q
      BY <1>14, <2>1, PoolAssumption DEF Spurious, TypeOK, Go, Workers
    <3>2. pc[q] = "exited"
      BY <2>1, <3>1 DEF OnlyMoves, Threads
    <3>3. queue[q] # <<>>
      BY <1>14 DEF Spurious, queues, TypeOK
    <3>4. QED
      BY <3>2, <3>3
  <2>3. ~Sees(w, q)
    BY <1>14 DEF Spurious, Sees
  <2>4. QED
    BY <2>1, <2>2, <2>3, StillCovered
<1>15. ASSUME NEW w \in Workers, Finish(w) PROVE Covered'
  <2> SUFFICES ASSUME NEW q \in Workers, pc'[q] = "exited", queue'[q] # <<>>
               PROVE  \E v \in Workers : Sees(v, q)'
    BY DEF Covered
  <2>1. pc[w] = "run" /\ pc'[w] = "look" /\ n'[w] = 0
    BY <1>15 DEF Finish, Counters, TypeOK, Threads, Go
  <2>2. StillToSee(w, q)'
    BY <2>1, RoundCoversAll DEF StillToSee
  <2>3. QED
    BY <2>1, <2>2 DEF Sees
<1>16. ASSUME CloseCall PROVE Covered'
  <2> SUFFICES ASSUME NEW q \in Workers, pc'[q] = "exited", queue'[q] # <<>>
               PROVE  \E v \in Workers : Sees(v, q)'
    BY DEF Covered
  <2>1. OnlyMoves(Owner) /\ Owner \in Threads
    BY <1>16, Movers DEF Threads
  <2>2. queue[q] # <<>> /\ pc[q] = "exited"
    <3>1. Owner # q
      BY <1>16, <2>1, PoolAssumption DEF CloseCall, TypeOK, Go, Workers
    <3>2. pc[q] = "exited"
      BY <2>1, <3>1 DEF OnlyMoves, Threads
    <3>3. queue[q] # <<>>
      BY <1>16 DEF CloseCall, queues, TypeOK
    <3>4. QED
      BY <3>2, <3>3
  <2>3. Owner \notin Workers
    BY PoolAssumption DEF Workers
  <2>4. QED
    BY <2>1, <2>2, <2>3, StillCovered
<1>17. ASSUME DoneLock PROVE Covered'
  <2> SUFFICES ASSUME NEW q \in Workers, pc'[q] = "exited", queue'[q] # <<>>
               PROVE  \E v \in Workers : Sees(v, q)'
    BY DEF Covered
  <2>1. OnlyMoves(Owner) /\ Owner \in Threads
    BY <1>17, Movers DEF Threads
  <2>2. queue[q] # <<>> /\ pc[q] = "exited"
    <3>1. Owner # q
      BY <1>17, <2>1, PoolAssumption DEF DoneLock, TypeOK, Go, Workers
    <3>2. pc[q] = "exited"
      BY <2>1, <3>1 DEF OnlyMoves, Threads
    <3>3. queue[q] # <<>>
      BY <1>17 DEF DoneLock, queues, TypeOK
    <3>4. QED
      BY <3>2, <3>3
  <2>3. Owner \notin Workers
    BY PoolAssumption DEF Workers
  <2>4. QED
    BY <2>1, <2>2, <2>3, StillCovered
<1>18. ASSUME Done PROVE Covered'
  <2> SUFFICES ASSUME NEW q \in Workers, pc'[q] = "exited", queue'[q] # <<>>
               PROVE  \E v \in Workers : Sees(v, q)'
    BY DEF Covered
  <2>1. OnlyMoves(Owner) /\ Owner \in Threads
    BY <1>18, Movers DEF Threads
  <2>2. queue[q] # <<>> /\ pc[q] = "exited"
    <3>1. Owner # q
      BY <1>18, <2>1, PoolAssumption DEF Done, TypeOK, Go, Workers
    <3>2. pc[q] = "exited"
      BY <2>1, <3>1 DEF OnlyMoves, Threads
    <3>3. queue[q] # <<>>
      BY <1>18 DEF Done, queues, TypeOK
    <3>4. QED
      BY <3>2, <3>3
  <2>3. Owner \notin Workers
    BY PoolAssumption DEF Workers
  <2>4. QED
    BY <2>1, <2>2, <2>3, StillCovered
<1>19. ASSUME NotifyAll PROVE Covered'
  <2> SUFFICES ASSUME NEW q \in Workers, pc'[q] = "exited", queue'[q] # <<>>
               PROVE  \E v \in Workers : Sees(v, q)'
    BY DEF Covered
  <2>1. OnlyMoves(Owner) /\ Owner \in Threads
    BY <1>19, Movers DEF Threads
  <2>2. queue[q] # <<>> /\ pc[q] = "exited"
    <3>1. Owner # q
      BY <1>19, <2>1, PoolAssumption DEF NotifyAll, TypeOK, Go, Workers, Woken
    <3>2. pc[q] = "exited"
      BY <2>1, <3>1 DEF OnlyMoves, Threads
    <3>3. queue[q] # <<>>
      BY <1>19 DEF NotifyAll, queues, TypeOK
    <3>4. QED
      BY <3>2, <3>3
  <2>3. Owner \notin Workers
    BY PoolAssumption DEF Workers
  <2>4. QED
    BY <2>1, <2>2, <2>3, StillCovered
<1>20. ASSUME Join PROVE Covered'
  <2> SUFFICES ASSUME NEW q \in Workers, pc'[q] = "exited", queue'[q] # <<>>
               PROVE  \E v \in Workers : Sees(v, q)'
    BY DEF Covered
  <2>1. OnlyMoves(Owner) /\ Owner \in Threads
    BY <1>20, Movers DEF Threads
  <2>2. queue[q] # <<>> /\ pc[q] = "exited"
    <3>1. Owner # q
      BY <1>20, <2>1, PoolAssumption DEF Join, TypeOK, Go, Workers
    <3>2. pc[q] = "exited"
      BY <2>1, <3>1 DEF OnlyMoves, Threads
    <3>3. queue[q] # <<>>
      BY <1>20 DEF Join, queues, TypeOK
    <3>4. QED
      BY <3>2, <3>3
  <2>3. Owner \notin Workers
    BY PoolAssumption DEF Workers
  <2>4. QED
    BY <2>1, <2>2, <2>3, StillCovered
<1> HIDE DEF IInv
<1>21. QED
  BY <1>1, <1>2, <1>3, <1>4, <1>5, <1>6, <1>7, <1>8, <1>9, <1>10, <1>11, <1>12, <1>13,
     <1>14, <1>15, <1>16, <1>17, <1>18, <1>19, <1>20, Actions


LEMMA StutterIInv == ASSUME IInv, UNCHANGED vars PROVE IInv'
<1>1. UNCHANGED <<queue, done, holder, index, submitted, phase, runs, pc, i, n, item, task>>
  BY DEF vars, queues, pool
<1>2. \A t : At(t)' = At(t)
  BY <1>1 DEF At
<1>3. TypeOK' /\ Roles' /\ Counters' /\ Closed'
  BY <1>1 DEF IInv, TypeOK, Roles, Counters, Closed
<1>4. Mutexes' /\ Told'
  BY <1>1, <1>2 DEF IInv, Mutexes, Told, Tells
<1>5. Covered'
  BY <1>1 DEF IInv, Covered, Sees, StillToSee
<1>6. QED
  BY <1>3, <1>4, <1>5 DEF IInv

LEMMA Inductive == Spec => []IInv
<1>1. IInv /\ [Next]_vars => IInv'
  BY NextTypeOK, NextRoles, NextCounters, NextMutexes, NextClosed, NextTold, NextCovered,
     StutterIInv DEF IInv
<1>2. QED
  BY InitIInv, <1>1, PTL DEF Spec
------------------------------------------------------------------------------
(***************************************************************************)
(* Every state is of the declared types; the queue a thread is at exists,  *)
(* although it is found by three reductions modulo two numbers.            *)
(***************************************************************************)
THEOREM TypeCorrect == Spec => []TypeOK
<1>1. IInv => TypeOK
  BY DEF IInv
<1>2. QED
  BY Inductive, <1>1, PTL

(***************************************************************************)
(* A critical section of a queue belongs to one thread at a time.          *)
(***************************************************************************)
MutualExclusion ==
    \A t, u \in Threads : {pc[t], pc[u]} \subseteq Inside /\ At(t) = At(u) => t = u

THEOREM QueuesAreLocked == Spec => []MutualExclusion
<1>1. IInv => MutualExclusion
  BY DEF IInv, Mutexes, MutualExclusion
<1>2. QED
  BY Inductive, <1>1, PTL

(***************************************************************************)
(* No worker sleeps on a queue with a task in it and nobody to wake it,    *)
(* and while a worker that has left has tasks in its queue some worker has *)
(* not left: main_test.cpp:52 relies on it with 4 workers, this says it of *)
(* any number.                                                             *)
(***************************************************************************)
THEOREM NoneAbandoned == Spec => []NoTaskAbandoned
<1>1. ASSUME IInv PROVE NoTaskAbandoned
  <2>1. ASSUME NEW q \in Workers, pc[q] = "blocked", queue[q] # <<>>
        PROVE  \/ \E c \in Workers \cup Clients : pc[c] = "one" /\ At(c) = q
               \/ pc[Owner] = "all" /\ At(Owner) = q
    <3>1. PICK t \in Threads : Tells(t, q)
      BY <1>1, <2>1 DEF IInv, Told
    <3>2. QED
      BY <1>1, <3>1 DEF IInv, Tells, Roles, Threads
  <2>2. ASSUME NEW q \in Workers, pc[q] = "exited", queue[q] # <<>>
        PROVE  \E w \in Workers : pc[w] # "exited"
    BY <1>1, <2>2 DEF IInv, Covered, Sees
  <2>3. QED
    BY <2>1, <2>2 DEF NoTaskAbandoned
<1>2. QED
  BY Inductive, <1>1, PTL
-----------------------------------------------------------------------------
(***************************************************************************)
(* The places of a task between its submission and its end: with a thread  *)
(* that submits it, in a queue, with a worker that runs it.                *)
(***************************************************************************)
Submitting == {"offer", "push", "push_in"}

Serving == {"run", "offer", "push", "push_in", "one"}

Pushing(c, t) == pc[c] \in Submitting /\ item[c] = t

Pushed(t) == \E c \in Workers \cup Clients : Pushing(c, t)
Waiting(t) == \E q \in Workers : \E k \in 1..Len(queue[q]) : queue[q][k] = t
Held(t) == \E w \in Workers : task[w] = t

Working == \A w \in Workers : task[w] # NoTask <=> pc[w] \in Serving

OnePlace ==
    /\ \A t \in Tasks : \A c, d \in Workers \cup Clients : Pushing(c, t) /\ Pushing(d, t) => c = d
    /\ \A q, r \in Workers : \A k \in 1..Len(queue[q]), l \in 1..Len(queue[r]) :
          queue[q][k] = queue[r][l] => q = r /\ k = l
    /\ \A t \in Tasks : \A v, w \in Workers : task[v] = t /\ task[w] = t => v = w
    /\ \A t \in Tasks : Pushed(t) => ~Waiting(t) /\ ~Held(t) /\ runs[t] = 0
    /\ \A t \in Tasks : Waiting(t) => ~Held(t) /\ runs[t] = 0
    /\ \A t \in Tasks : Held(t) => runs[t] = 0

Accounted ==
    \A t \in Tasks : /\ runs[t] \in {0, 1}
                     /\ t \in submitted <=> Pushed(t) \/ Waiting(t) \/ Held(t) \/ runs[t] = 1

\* When the destructor has returned all workers have left.
Gone == phase = "destroyed" => \A w \in Workers : pc[w] = "exited"

TasksInv == Working /\ OnePlace /\ Accounted /\ Gone

LEMMA InitTasks == Init => TasksInv
<1> SUFFICES ASSUME Init PROVE TasksInv
  OBVIOUS
<1>1. \A c \in Workers \cup Clients : pc[c] \in {"look", "idle"}
  BY DEF Init, Threads
<1>2. \A q \in Workers : Len(queue[q]) = 0
  BY DEF Init
<1>3. \A w \in Workers : task[w] = NoTask /\ pc[w] = "look"
  BY DEF Init, Threads
<1>4. \A t \in Tasks : ~Pushed(t) /\ ~Waiting(t) /\ ~Held(t) /\ runs[t] = 0 /\ t \notin submitted
  BY <1>1, <1>2, <1>3, PoolAssumption DEF Init, Pushed, Pushing, Submitting, Waiting, Held
<1>5. QED
  BY <1>1, <1>2, <1>3, <1>4
     DEF Init, TasksInv, Working, Serving, OnePlace, Pushed, Accounted, Gone, Held
-----------------------------------------------------------------------------
\* Most steps move no task.
Calm ==
    /\ UNCHANGED <<queue, task, runs, submitted>>
    /\ \A c \in Workers \cup Clients :
          /\ pc'[c] \in Submitting <=> pc[c] \in Submitting
          /\ pc[c] \in Submitting => item'[c] = item[c]
    /\ \A w \in Workers : /\ pc'[w] \in Serving <=> pc[w] \in Serving
                          /\ pc[w] = "exited" => pc'[w] = "exited"

LEMMA Kinds ==
    ASSUME IInv, Next
    PROVE  \/ Calm /\ (UNCHANGED phase \/ CloseCall \/ Join)
           \/ \E c \in Workers \cup Clients, t \in Tasks : Submit(c, t)
           \/ \E c \in Workers \cup Clients : Insert(c)
           \/ \E w \in Workers : Take(w) \/ Finish(w)
<1> DEFINE P == \/ Calm /\ (UNCHANGED phase \/ CloseCall \/ Join)
                \/ \E c \in Workers \cup Clients, t \in Tasks : Submit(c, t)
                \/ \E c \in Workers \cup Clients : Insert(c)
                \/ \E w \in Workers : Take(w) \/ Finish(w)
<1>t. /\ pc \in [Threads -> Places] /\ item \in [Threads -> Tasks \cup {NoTask}]
      /\ Threads = Workers \cup Clients \cup {Owner} /\ Owner \notin Workers \cup Clients
      /\ Workers \cap Clients = {}
  BY PoolAssumption DEF IInv, TypeOK, Threads, Workers
<1> USE DEF Calm, Submitting, Serving, Go, queues, pool
<1>1. ASSUME NEW c \in Workers \cup Clients, OfferTaken(c) \/ PushLock(c) PROVE P
  BY <1>1, <1>t DEF OfferTaken, PushLock
<1>2. ASSUME NEW c \in Workers \cup Clients, OfferRefused(c) PROVE P
  BY <1>2, <1>t DEF OfferRefused
<1>3. ASSUME NEW c \in Workers \cup Clients, OfferOver(c) PROVE P
  BY <1>3, <1>t DEF OfferOver
<1>4. ASSUME NEW c \in Workers \cup Clients, NotifyOne(c) PROVE P
  <2>1. At(c) \in Workers
    BY <1>4, <1>t, AtAQueue DEF NotifyOne, IInv
  <2>2. pc' = [pc EXCEPT ![At(c)] = Woken(At(c)), ![c] = Home(c)] /\ pc[c] = "one"
    BY <1>4 DEF NotifyOne
  <2>3. c \in Clients => Home(c) = "idle"
    BY <1>t DEF Home
  <2>4. c \in Workers => Home(c) = "run"
    BY DEF Home
  <2>5. ASSUME NEW d \in Workers \cup Clients
        PROVE  \/ d = c /\ pc'[d] = Home(c)
               \/ d # c /\ pc[d] = "blocked" /\ pc'[d] = "pop"
               \/ d # c /\ pc'[d] = pc[d]
    BY <1>t, <2>1, <2>2 DEF Woken
  <2>6. ASSUME NEW d \in Workers \cup Clients, d # c PROVE item'[d] = item[d]
    BY <1>t, <1>4, <2>6 DEF NotifyOne
  <2>7. QED
    BY <1>4, <2>2, <2>3, <2>4, <2>5, <2>6 DEF NotifyOne
<1>5. ASSUME NEW w \in Workers, TryPopLock(w) \/ PopLock(w) PROVE P
  BY <1>5, <1>t DEF TryPopLock, PopLock
<1>6. ASSUME NEW w \in Workers, TryPopRefused(w) PROVE P
  BY <1>6, <1>t DEF TryPopRefused
<1>7. ASSUME NEW w \in Workers, TryPopEmpty(w) PROVE P
  BY <1>7, <1>t DEF TryPopEmpty
<1>8. ASSUME NEW w \in Workers, LookOver(w) PROVE P
  BY <1>8, <1>t DEF LookOver
<1>9. ASSUME NEW w \in Workers, Block(w) PROVE P
  BY <1>9, <1>t DEF Block
<1>10. ASSUME NEW w \in Workers, Exit(w) PROVE P
  BY <1>10, <1>t DEF Exit
<1>11. ASSUME NEW w \in Workers, Spurious(w) PROVE P
  BY <1>11, <1>t DEF Spurious
<1>12. ASSUME CloseCall \/ Join PROVE P
  BY <1>12, <1>t DEF CloseCall, Join
<1>13. ASSUME DoneLock \/ Done PROVE P
  BY <1>13, <1>t DEF DoneLock, Done
<1>14. ASSUME NotifyAll PROVE P
  <2>1. pc' = [pc EXCEPT ![At(Owner)] = Woken(At(Owner)),
                         ![Owner] = IF n[Owner] + 1 = M THEN "join" ELSE "done"]
    BY <1>14 DEF NotifyAll
  <2>2. ASSUME NEW d \in Workers \cup Clients
        PROVE  pc'[d] = pc[d] \/ (pc[d] = "blocked" /\ pc'[d] = "pop")
    BY <1>t, <2>1 DEF Woken
  <2>3. QED
    BY <1>14, <2>2 DEF NotifyAll
<1> HIDE DEF P, IInv
<1>15. \A c \in Workers \cup Clients, t \in Tasks : Submit(c, t) => P
  BY DEF P
<1>16. \A c \in Workers \cup Clients : Insert(c) => P
  BY DEF P
<1>17. \A w \in Workers : (Take(w) => P) /\ (Finish(w) => P)
  BY DEF P
<1>18. P
  BY <1>1, <1>2, <1>3, <1>4, <1>5, <1>6, <1>7, <1>8, <1>9, <1>10, <1>11, <1>12, <1>13,
     <1>14, <1>15, <1>16, <1>17, Actions
<1>19. QED
  BY <1>18 DEF P
-----------------------------------------------------------------------------
\* How the step of one thread moves one task.
LEMMA CalmKeeps ==
    ASSUME Calm
    PROVE  /\ \A c \in Workers \cup Clients, t \in Tasks : Pushing(c, t)' <=> Pushing(c, t)
           /\ \A t \in Tasks : Pushed(t)' <=> Pushed(t)
           /\ \A t \in Tasks : Waiting(t)' <=> Waiting(t)
           /\ \A t \in Tasks : Held(t)' <=> Held(t)
<1>1. \A c \in Workers \cup Clients, t \in Tasks : Pushing(c, t)' <=> Pushing(c, t)
  BY DEF Calm, Pushing
<1>2. queue' = queue /\ task' = task
  BY DEF Calm
<1>3. \A t \in Tasks : Pushed(t)' <=> Pushed(t)
  BY <1>1 DEF Pushed
<1>4. \A t \in Tasks : Waiting(t)' <=> Waiting(t)
  BY <1>2 DEF Waiting
<1>5. \A t \in Tasks : Held(t)' <=> Held(t)
  BY <1>2 DEF Held
<1>6. QED
  BY <1>1, <1>3, <1>4, <1>5

LEMMA CalmTasks == ASSUME TasksInv, Calm PROVE Working' /\ OnePlace' /\ Accounted'
<1>1. queue' = queue /\ task' = task /\ runs' = runs /\ submitted' = submitted
  BY DEF Calm
<1>2. Working'
  BY <1>1 DEF TasksInv, Working, Calm
<1>3. /\ \A c \in Workers \cup Clients, t \in Tasks : Pushing(c, t)' <=> Pushing(c, t)
      /\ \A t \in Tasks : Pushed(t)' <=> Pushed(t)
      /\ \A t \in Tasks : Waiting(t)' <=> Waiting(t)
      /\ \A t \in Tasks : Held(t)' <=> Held(t)
  BY CalmKeeps
<1>4. OnePlace'
  BY <1>1, <1>3 DEF TasksInv, OnePlace
<1>5. Accounted'
  BY <1>1, <1>3 DEF TasksInv, Accounted
<1>6. QED
  BY <1>2, <1>4, <1>5

LEMMA SubmitTasks ==
    ASSUME IInv, TasksInv, NEW c \in Workers \cup Clients, NEW t \in Tasks, Submit(c, t)
    PROVE  /\ Working' /\ OnePlace' /\ Accounted'
           /\ ~Held(t) /\ runs[t] = 0 /\ t \notin submitted
<1>t. /\ pc \in [Threads -> Places] /\ item \in [Threads -> Tasks \cup {NoTask}]
      /\ Threads = Workers \cup Clients \cup {Owner} /\ Workers \cap Clients = {}
  BY PoolAssumption DEF IInv, TypeOK, Threads, Workers
<1>1. /\ t \notin submitted /\ submitted' = submitted \cup {t}
      /\ queue' = queue /\ task' = task /\ runs' = runs
      /\ item' = [item EXCEPT ![c] = t] /\ pc' = [pc EXCEPT ![c] = "offer"]
      /\ pc[c] \notin Submitting /\ (c \in Workers => pc[c] = "run")
  BY <1>t DEF Submit, queues, Go, Submitting
<1>2. ~Pushed(t) /\ ~Waiting(t) /\ ~Held(t) /\ runs[t] = 0
  BY <1>1 DEF TasksInv, Accounted
<1>3. \A d \in Workers \cup Clients, u \in Tasks :
         Pushing(d, u)' <=> Pushing(d, u) \/ (d = c /\ u = t)
  BY <1>1, <1>t DEF Pushing, Submitting
<1>4. \A u \in Tasks : /\ Pushed(u)' <=> Pushed(u) \/ u = t
                       /\ Waiting(u)' <=> Waiting(u)
                       /\ Held(u)' <=> Held(u)
  BY <1>1, <1>3 DEF Pushed, Waiting, Held
<1>5. Working'
  BY <1>1, <1>t DEF TasksInv, Working, Serving
<1>6. OnePlace'
  <2>1. ASSUME NEW u \in Tasks, NEW d \in Workers \cup Clients, NEW e \in Workers \cup Clients,
               Pushing(d, u)', Pushing(e, u)'
        PROVE  d = e
    BY <2>1, <1>2, <1>3 DEF TasksInv, OnePlace, Pushed
  <2>2. QED
    BY <2>1, <1>1, <1>2, <1>4 DEF TasksInv, OnePlace
<1>7. Accounted'
  BY <1>1, <1>2, <1>4 DEF TasksInv, Accounted
<1>8. QED
  BY <1>1, <1>2, <1>5, <1>6, <1>7

LEMMA InsertTasks ==
    ASSUME IInv, TasksInv, NEW c \in Workers \cup Clients, Insert(c)
    PROVE  Working' /\ OnePlace' /\ Accounted' /\ \A u \in Tasks : Held(u)' <=> Held(u)
<1>t. /\ pc \in [Threads -> Places] /\ queue \in [Workers -> Seq(Tasks)]
      /\ Threads = Workers \cup Clients \cup {Owner} /\ Workers \cap Clients = {}
  BY PoolAssumption DEF IInv, TypeOK, Threads, Workers
<1>1. /\ submitted' = submitted /\ task' = task /\ runs' = runs /\ item' = item
      /\ pc[c] = "push_in" /\ pc' = [pc EXCEPT ![c] = "one"] /\ item[c] \in Tasks
      /\ queue' = [queue EXCEPT ![At(c)] = Append(@, item[c])]
  BY DEF Insert, pool, Go, IInv, Roles
<1>2. At(c) \in Workers
  <2>1. c \in Threads /\ c # Owner
    BY PoolAssumption DEF Threads, Workers
  <2>2. QED
    BY <2>1, AtAQueue DEF IInv
<1> PICK a \in Workers : a = At(c)
  BY <1>2
<1> PICK t \in Tasks : t = item[c]
  BY <1>1
<1> PICK m \in Nat : m = Len(queue[a])
  BY <1>t
<1>3. Pushing(c, t) /\ Pushed(t) /\ ~Waiting(t) /\ ~Held(t) /\ runs[t] = 0
  BY <1>1 DEF Pushing, Submitting, Pushed, TasksInv, OnePlace
<1>4. \A d \in Workers \cup Clients, u \in Tasks : Pushing(d, u)' <=> Pushing(d, u) /\ d # c
  BY <1>1, <1>t DEF Pushing, Submitting
<1>5. \A u \in Tasks : Pushed(u)' <=> Pushed(u) /\ u # t
  <2>1. \A u \in Tasks, d \in Workers \cup Clients : Pushing(d, u) /\ d # c => u # t
    BY <1>3 DEF TasksInv, OnePlace
  <2>2. \A u \in Tasks : Pushing(c, u) => u = t
    BY DEF Pushing
  <2>3. QED
    BY <1>3, <1>4, <2>1, <2>2 DEF Pushed
<1>6. /\ Len(queue'[a]) = m + 1 /\ queue'[a][m + 1] = t
      /\ \A k \in 1..m : queue'[a][k] = queue[a][k]
      /\ \A q \in Workers \ {a} : queue'[q] = queue[q]
  BY <1>1, <1>t
<1>old. ASSUME NEW q \in Workers, NEW k \in 1..Len(queue'[q])
        PROVE  \/ q = a /\ k = m + 1 /\ queue'[q][k] = t
               \/ k \in 1..Len(queue[q]) /\ queue'[q][k] = queue[q][k]
  <2>1. CASE q = a
    <3>1. k \in 1..(m + 1)
      BY <1>6, <2>1
    <3>2. k = m + 1 \/ k \in 1..m
      BY <3>1
    <3>3. QED
      BY <1>6, <2>1, <3>2
  <2>2. CASE q # a
    BY <1>6, <2>2
  <2>3. QED
    BY <2>1, <2>2
<1>7. \A u \in Tasks : Waiting(u)' <=> Waiting(u) \/ u = t
  <2>1. ASSUME NEW u \in Tasks, Waiting(u) PROVE Waiting(u)'
    <3>1. PICK q \in Workers, k \in Nat : k \in 1..Len(queue[q]) /\ queue[q][k] = u
      BY <1>t, <2>1 DEF Waiting
    <3>2. k \in 1..Len(queue'[q]) /\ queue'[q][k] = u
      BY <1>6, <3>1
    <3>3. QED
      BY <3>2 DEF Waiting
  <2>2. Waiting(t)'
    BY <1>6 DEF Waiting
  <2>3. ASSUME NEW u \in Tasks, Waiting(u)', u # t PROVE Waiting(u)
    <3>1. PICK q \in Workers : \E k \in 1..Len(queue'[q]) : queue'[q][k] = u
      BY <2>3 DEF Waiting
    <3>2. PICK k \in 1..Len(queue'[q]) : queue'[q][k] = u
      BY <3>1
    <3>3. k \in 1..Len(queue[q]) /\ queue[q][k] = u
      BY <1>6, <2>3, <3>2
    <3>4. QED
      BY <3>3 DEF Waiting
  <2>4. QED
    BY <2>1, <2>2, <2>3
<1>8. \A u \in Tasks : Held(u)' <=> Held(u)
  BY <1>1 DEF Held
<1>9. Working'
  BY <1>1, <1>t DEF TasksInv, Working, Serving
<1>10. OnePlace'
  <2>1. ASSUME NEW q \in Workers, NEW r \in Workers,
               NEW k \in 1..Len(queue'[q]), NEW l \in 1..Len(queue'[r]),
               queue'[q][k] = queue'[r][l]
        PROVE  q = r /\ k = l
    <3>1. \/ q = a /\ k = m + 1 /\ queue'[q][k] = t
          \/ k \in 1..Len(queue[q]) /\ queue'[q][k] = queue[q][k]
      BY <1>old
    <3>2. \/ r = a /\ l = m + 1 /\ queue'[r][l] = t
          \/ l \in 1..Len(queue[r]) /\ queue'[r][l] = queue[r][l]
      BY <1>old
    <3>3. \A s \in Workers : \A j \in 1..Len(queue[s]) : queue[s][j] # t
      BY <1>3 DEF Waiting
    <3>4. QED
      BY <2>1, <3>1, <3>2, <3>3 DEF TasksInv, OnePlace
  <2>2. QED
    BY <2>1, <1>1, <1>3, <1>4, <1>5, <1>7, <1>8 DEF TasksInv, OnePlace
<1>11. Accounted'
  BY <1>1, <1>3, <1>5, <1>7, <1>8 DEF TasksInv, Accounted
<1>12. QED
  BY <1>8, <1>9, <1>10, <1>11
LEMMA TakeTasks ==
    ASSUME IInv, TasksInv, NEW w \in Workers, Take(w)
    PROVE  /\ Working' /\ OnePlace' /\ Accounted'
           /\ \E t \in Tasks : /\ Waiting(t) /\ t \in submitted
                               /\ \A u \in Tasks : Held(u)' <=> Held(u) \/ u = t
<1>t. /\ pc \in [Threads -> Places] /\ queue \in [Workers -> Seq(Tasks)]
      /\ task \in [Workers -> Tasks \cup {NoTask}] /\ NoTask \notin Tasks
      /\ Threads = Workers \cup Clients \cup {Owner} /\ Workers \cap Clients = {}
  BY PoolAssumption DEF IInv, TypeOK, Threads, Workers
<1>1. At(w) \in Workers
  <2>1. w \in Threads /\ w # Owner
    BY PoolAssumption DEF Threads, Workers
  <2>2. QED
    BY <2>1, AtAQueue DEF IInv
<1> PICK a \in Workers : a = At(w)
  BY <1>1
<1>2. /\ submitted' = submitted /\ runs' = runs /\ item' = item
      /\ pc[w] \in {"try_pop_in", "pop_in"} /\ pc' = [pc EXCEPT ![w] = "run"]
      /\ queue[a] # <<>>
      /\ queue' = [queue EXCEPT ![a] = Tail(@)]
      /\ task' = [task EXCEPT ![w] = Head(queue[a])]
  BY DEF Take, pool, Go
<1>3. /\ queue[a] \in Seq(Tasks) /\ Len(queue[a]) \in Nat \ {0}
  BY <1>t, <1>2
<1> PICK m \in Nat : Len(queue[a]) = m + 1
  <2>1. Len(queue[a]) - 1 \in Nat /\ Len(queue[a]) = (Len(queue[a]) - 1) + 1
    BY <1>3
  <2>2. QED
    BY <2>1
<1> PICK t \in Tasks : t = queue[a][1]
  BY <1>3
<1>4. /\ Len(queue'[a]) = m /\ task'[w] = t
      /\ \A k \in 1..m : queue'[a][k] = queue[a][k + 1]
      /\ \A q \in Workers \ {a} : queue'[q] = queue[q]
      /\ \A v \in Workers \ {w} : task'[v] = task[v]
  BY <1>2, <1>3, <1>t
<1>5. Waiting(t) /\ ~Held(t) /\ runs[t] = 0 /\ ~Pushed(t) /\ t \in submitted
  <2>1. 1 \in 1..Len(queue[a])
    BY <1>3
  <2>2. Waiting(t)
    BY <2>1 DEF Waiting
  <2>3. QED
    BY <2>2 DEF TasksInv, OnePlace, Accounted
<1>6. task[w] = NoTask
  BY <1>2, <1>t DEF TasksInv, Working, Serving
<1>7. \A d \in Workers \cup Clients, u \in Tasks : Pushing(d, u)' <=> Pushing(d, u)
  BY <1>2, <1>t DEF Pushing, Submitting
<1>8. \A u \in Tasks : Pushed(u)' <=> Pushed(u)
  BY <1>7 DEF Pushed
<1>9. \A u \in Tasks : Held(u)' <=> Held(u) \/ u = t
  BY <1>4, <1>6, <1>t DEF Held
<1>old. ASSUME NEW q \in Workers, NEW k \in 1..Len(queue'[q])
        PROVE  \/ q = a /\ k + 1 \in 2..Len(queue[q]) /\ queue'[q][k] = queue[q][k + 1]
               \/ q # a /\ k \in 1..Len(queue[q]) /\ queue'[q][k] = queue[q][k]
  <2>1. CASE q = a
    <3>1. k \in 1..m
      BY <1>4, <2>1
    <3>2. k + 1 \in 2..Len(queue[q])
      BY <3>1, <2>1
    <3>3. QED
      BY <1>4, <2>1, <3>1, <3>2
  <2>2. CASE q # a
    BY <1>4, <2>2
  <2>3. QED
    BY <2>1, <2>2
<1>place. ASSUME NEW q \in Workers, NEW r \in Workers,
                 NEW k \in 1..Len(queue[q]), NEW l \in 1..Len(queue[r]),
                 queue[q][k] = queue[r][l]
          PROVE  q = r /\ k = l
  BY <1>place DEF TasksInv, OnePlace
<1>10. \A u \in Tasks : Waiting(u)' <=> Waiting(u) /\ u # t
  <2>1. ASSUME NEW u \in Tasks, Waiting(u), u # t PROVE Waiting(u)'
    <3>1. PICK q \in Workers : \E k \in 1..Len(queue[q]) : queue[q][k] = u
      BY <2>1 DEF Waiting
    <3>2. PICK k \in 1..Len(queue[q]) : queue[q][k] = u
      BY <3>1
    <3>3. CASE q = a
      <4>1. k # 1
        BY <2>1, <3>2, <3>3
      <4>2. k - 1 \in 1..m /\ (k - 1) + 1 = k
        BY <4>1, <3>3
      <4>3. k - 1 \in 1..Len(queue'[a]) /\ queue'[a][k - 1] = u
        BY <4>2, <3>2, <3>3, <1>4
      <4>4. QED
        BY <4>3 DEF Waiting
    <3>4. CASE q # a
      <4>1. k \in 1..Len(queue'[q]) /\ queue'[q][k] = u
        BY <3>2, <3>4, <1>4
      <4>2. QED
        BY <4>1 DEF Waiting
    <3>5. QED
      BY <3>3, <3>4
  <2>2. ASSUME NEW u \in Tasks, Waiting(u)' PROVE Waiting(u) /\ u # t
    <3>1. PICK q \in Workers : \E k \in 1..Len(queue'[q]) : queue'[q][k] = u
      BY <2>2 DEF Waiting
    <3>2. PICK k \in 1..Len(queue'[q]) : queue'[q][k] = u
      BY <3>1
    <3>3. PICK l \in 1..Len(queue[q]) : queue[q][l] = u /\ ~(q = a /\ l = 1)
      <4>1. CASE q = a
        <5>1. k + 1 \in 2..Len(queue[q]) /\ queue'[q][k] = queue[q][k + 1]
          BY <1>old, <4>1
        <5>2. k + 1 \in 1..Len(queue[q]) /\ k + 1 # 1
          BY <5>1
        <5>3. QED
          BY <5>1, <5>2, <3>2
      <4>2. CASE q # a
        BY <1>old, <4>2, <3>2
      <4>3. QED
        BY <4>1, <4>2
    <3>4. 1 \in 1..Len(queue[a])
      BY <1>3
    <3>5. u # t
      BY <3>3, <3>4, <1>place
    <3>6. QED
      BY <3>3, <3>5 DEF Waiting
  <2>3. QED
    BY <2>1, <2>2
<1>11. Working'
  BY <1>2, <1>4, <1>t DEF TasksInv, Working, Serving
<1>12. OnePlace'
  <2>1. ASSUME NEW q \in Workers, NEW r \in Workers,
               NEW k \in 1..Len(queue'[q]), NEW l \in 1..Len(queue'[r]),
               queue'[q][k] = queue'[r][l]
        PROVE  q = r /\ k = l
    <3>1. \/ q = a /\ k + 1 \in 1..Len(queue[q]) /\ queue'[q][k] = queue[q][k + 1]
          \/ q # a /\ k \in 1..Len(queue[q]) /\ queue'[q][k] = queue[q][k]
      BY <1>old
    <3>2. \/ r = a /\ l + 1 \in 1..Len(queue[r]) /\ queue'[r][l] = queue[r][l + 1]
          \/ r # a /\ l \in 1..Len(queue[r]) /\ queue'[r][l] = queue[r][l]
      BY <1>old
    <3>3. CASE q = a /\ r = a
      <4>1. k + 1 = l + 1
        BY <2>1, <3>1, <3>2, <3>3, <1>place
      <4>2. QED
        BY <4>1, <3>3
    <3>4. CASE q = a /\ r # a
      BY <2>1, <3>1, <3>2, <3>4, <1>place
    <3>5. CASE q # a /\ r = a
      BY <2>1, <3>1, <3>2, <3>5, <1>place
    <3>6. CASE q # a /\ r # a
      BY <2>1, <3>1, <3>2, <3>6, <1>place
    <3>7. QED
      BY <3>3, <3>4, <3>5, <3>6
  <2>2. ASSUME NEW u \in Tasks, NEW v \in Workers, NEW x \in Workers, task'[v] = u, task'[x] = u
        PROVE  v = x
    <3>1. \A y \in Workers : y # w => task'[y] # t
      BY <1>4, <1>5 DEF Held
    <3>2. CASE v = w \/ x = w
      BY <2>2, <3>1, <3>2, <1>4
    <3>3. CASE v # w /\ x # w
      BY <2>2, <3>3, <1>4 DEF TasksInv, OnePlace
    <3>4. QED
      BY <3>2, <3>3
  <2>3. \A u \in Tasks : \A c, d \in Workers \cup Clients : Pushing(c, u)' /\ Pushing(d, u)' => c = d
    BY <1>7 DEF TasksInv, OnePlace
  <2>4. \A u \in Tasks : /\ (Pushed(u)' => ~Waiting(u)' /\ ~Held(u)' /\ runs'[u] = 0)
                         /\ (Waiting(u)' => ~Held(u)' /\ runs'[u] = 0)
                         /\ (Held(u)' => runs'[u] = 0)
    BY <1>2, <1>5, <1>8, <1>9, <1>10 DEF TasksInv, OnePlace
  <2>5. QED
    BY <2>1, <2>2, <2>3, <2>4 DEF OnePlace
<1>13. Accounted'
  BY <1>2, <1>5, <1>8, <1>9, <1>10 DEF TasksInv, Accounted
<1>14. QED
  BY <1>5, <1>9, <1>11, <1>12, <1>13

LEMMA FinishTasks ==
    ASSUME IInv, TasksInv, NEW w \in Workers, Finish(w)
    PROVE  /\ Working' /\ OnePlace' /\ Accounted'
           /\ \E t \in Tasks : /\ Held(t) /\ runs[t] = 0 /\ runs' = [runs EXCEPT ![t] = 1]
                               /\ \A u \in Tasks : Held(u)' <=> Held(u) /\ u # t
<1>t. /\ pc \in [Threads -> Places] /\ runs \in [Tasks -> Nat]
      /\ task \in [Workers -> Tasks \cup {NoTask}] /\ NoTask \notin Tasks
      /\ Threads = Workers \cup Clients \cup {Owner} /\ Workers \cap Clients = {}
  BY PoolAssumption DEF IInv, TypeOK, Threads, Workers
<1>1. /\ submitted' = submitted /\ item' = item /\ queue' = queue
      /\ pc[w] = "run" /\ pc' = [pc EXCEPT ![w] = "look"]
      /\ runs' = [runs EXCEPT ![task[w]] = @ + 1]
      /\ task' = [task EXCEPT ![w] = NoTask]
  BY DEF Finish, queues, Go
<1>2. task[w] \in Tasks
  BY <1>1, <1>t DEF TasksInv, Working, Serving
<1> PICK t \in Tasks : t = task[w]
  BY <1>2
<1>3. Held(t) /\ runs[t] = 0 /\ ~Pushed(t) /\ ~Waiting(t) /\ t \in submitted
  <2>1. Held(t)
    BY DEF Held
  <2>2. QED
    BY <2>1 DEF TasksInv, OnePlace, Accounted
<1>4. runs' = [runs EXCEPT ![t] = 1]
  BY <1>1, <1>3, <1>t
<1>5. \A d \in Workers \cup Clients, u \in Tasks : Pushing(d, u)' <=> Pushing(d, u)
  BY <1>1, <1>t DEF Pushing, Submitting
<1>6. \A u \in Tasks : Pushed(u)' <=> Pushed(u)
  BY <1>5 DEF Pushed
<1>7. \A u \in Tasks : Waiting(u)' <=> Waiting(u)
  BY <1>1 DEF Waiting
<1>8. \A u \in Tasks : Held(u)' <=> Held(u) /\ u # t
  <2>1. \A v \in Workers : v # w => task'[v] = task[v] /\ task[v] # t
    BY <1>1, <1>t DEF TasksInv, OnePlace
  <2>2. task'[w] = NoTask
    BY <1>1, <1>t
  <2>3. QED
    BY <2>1, <2>2, <1>t DEF Held
<1>9. Working'
  BY <1>1, <1>t DEF TasksInv, Working, Serving
<1>10. \A u \in Tasks : u # t => runs'[u] = runs[u]
  BY <1>4, <1>t
<1>11. OnePlace'
  <2>1. \A v, x \in Workers : \A u \in Tasks : task'[v] = u /\ task'[x] = u => v = x
    BY <1>1, <1>t DEF TasksInv, OnePlace
  <2>2. \A u \in Tasks : /\ (Pushed(u)' => ~Waiting(u)' /\ ~Held(u)' /\ runs'[u] = 0)
                         /\ (Waiting(u)' => ~Held(u)' /\ runs'[u] = 0)
                         /\ (Held(u)' => runs'[u] = 0)
    BY <1>3, <1>6, <1>7, <1>8, <1>10 DEF TasksInv, OnePlace
  <2>3. \A u \in Tasks : \A c, d \in Workers \cup Clients : Pushing(c, u)' /\ Pushing(d, u)' => c = d
    BY <1>5 DEF TasksInv, OnePlace
  <2>4. QED
    BY <1>1, <2>1, <2>2, <2>3 DEF TasksInv, OnePlace
<1>12. Accounted'
  BY <1>1, <1>3, <1>4, <1>t, <1>6, <1>7, <1>8, <1>10 DEF TasksInv, Accounted
<1>13. QED
  BY <1>3, <1>4, <1>8, <1>9, <1>11, <1>12

\* A worker that has left does not come back, and the pool is destroyed last.
LEMMA NextGone == ASSUME IInv, TasksInv, Next PROVE Gone'
<1>t. /\ pc \in [Threads -> Places] /\ phase \in {"open", "closing", "destroyed"}
      /\ Threads = Workers \cup Clients \cup {Owner} /\ Workers \cap Clients = {}
  BY PoolAssumption DEF IInv, TypeOK, Threads, Workers
<1>1. ASSUME Join PROVE Gone'
  BY <1>1, <1>t DEF Join, Gone
<1>2. ASSUME CloseCall PROVE Gone'
  BY <1>2 DEF CloseCall, Gone
<1>3. ASSUME Calm, UNCHANGED phase PROVE Gone'
  BY <1>3 DEF Calm, TasksInv, Gone
<1>4. ASSUME NEW c \in Workers \cup Clients, NEW t \in Tasks, Submit(c, t) PROVE Gone'
  <2>1. phase' = phase /\ pc' = [pc EXCEPT ![c] = "offer"]
    BY <1>4 DEF Submit, Go
  <2>2. phase = "open" \/ (c \in Workers /\ pc[c] = "run")
    BY <1>4 DEF Submit
  <2>3. QED
    BY <2>1, <2>2, <1>t DEF TasksInv, Gone
<1>5. ASSUME NEW c \in Workers \cup Clients, Insert(c) PROVE Gone'
  <2>1. phase' = phase /\ pc' = [pc EXCEPT ![c] = "one"] /\ pc[c] = "push_in"
    BY <1>5 DEF Insert, pool, Go
  <2>2. phase = "open" \/ c \in Workers
    BY <2>1 DEF IInv, Roles
  <2>3. QED
    BY <2>1, <2>2, <1>t DEF TasksInv, Gone
<1>6. ASSUME NEW w \in Workers, Take(w) \/ Finish(w) PROVE Gone'
  <2>1. phase' = phase /\ pc[w] # "exited"
    BY <1>6 DEF Take, Finish, pool
  <2>2. QED
    BY <2>1 DEF TasksInv, Gone
<1>7. QED
  BY <1>1, <1>2, <1>3, <1>4, <1>5, <1>6, Kinds

LEMMA TasksInductive == Spec => []TasksInv
<1>1. ASSUME IInv, TasksInv, Next PROVE TasksInv'
  <2>1. Working' /\ OnePlace' /\ Accounted'
    BY <1>1, Kinds, CalmTasks, SubmitTasks, InsertTasks, TakeTasks, FinishTasks
  <2>2. QED
    BY <1>1, <2>1, NextGone DEF TasksInv
<1>2. ASSUME TasksInv, UNCHANGED vars PROVE TasksInv'
  <2>1. /\ queue' = queue /\ task' = task /\ runs' = runs /\ submitted' = submitted
        /\ pc' = pc /\ item' = item /\ phase' = phase
    BY <1>2 DEF vars, queues, pool
  <2>2. Calm
    BY <2>1 DEF Calm
  <2>3. Gone'
    BY <1>2, <2>1 DEF TasksInv, Gone
  <2>4. QED
    BY <1>2, <2>2, <2>3, CalmTasks DEF TasksInv
<1>3. IInv /\ TasksInv /\ [Next]_vars => TasksInv'
  BY <1>1, <1>2
<1>4. QED
  BY Inductive, InitTasks, <1>3, PTL DEF Spec
\* With every worker gone no task is on its way.
LEMMA AllLeft ==
    ASSUME IInv, TasksInv, phase # "open", \A w \in Workers : pc[w] = "exited"
    PROVE  \A t \in Tasks : ~Pushed(t) /\ ~Waiting(t) /\ ~Held(t)
<1> SUFFICES ASSUME NEW t \in Tasks PROVE ~Pushed(t) /\ ~Waiting(t) /\ ~Held(t)
  OBVIOUS
<1>1. ~Pushed(t)
  BY DEF Pushed, Pushing, Submitting, IInv, Roles
<1>2. ~Waiting(t)
  <2>1. \A q \in Workers : queue[q] = <<>>
    BY DEF IInv, Covered, Sees
  <2>2. \A q \in Workers : Len(queue[q]) = 0
    BY <2>1
  <2>3. QED
    BY <2>2 DEF Waiting
<1>3. ~Held(t)
  <2>1. \A w \in Workers : task[w] = NoTask
    BY DEF TasksInv, Working, Serving
  <2>2. QED
    BY <2>1, PoolAssumption DEF Held
<1>4. QED
  BY <1>1, <1>2, <1>3

------------------------------------------------------------------------------
(***************************************************************************)
(* When the destructor has returned, every task that anybody ever          *)
(* submitted has been run exactly once: nothing is with a client, in a     *)
(* queue or with a worker any more. main_test.cpp:52 adds the results up.  *)
(***************************************************************************)
THEOREM AllAreRun == Spec => []AllRunWhenDestroyed
<1>1. ASSUME IInv, TasksInv PROVE AllRunWhenDestroyed
  <2> SUFFICES ASSUME phase = "destroyed", NEW t \in submitted PROVE runs[t] = 1
    BY DEF AllRunWhenDestroyed
  <2>1. t \in Tasks
    BY <1>1 DEF IInv, TypeOK
  <2>2. \A w \in Workers : pc[w] = "exited"
    BY <1>1 DEF TasksInv, Gone
  <2>3. ~Pushed(t) /\ ~Waiting(t) /\ ~Held(t)
    BY <1>1, <2>1, <2>2, AllLeft
  <2>4. QED
    BY <1>1, <2>1, <2>3 DEF TasksInv, Accounted
<1>2. QED
  BY Inductive, TasksInductive, <1>1, PTL
------------------------------------------------------------------------------
(***************************************************************************)
(* The pool implements AbstractPool: the status of a task tells where it   *)
(* is. Submit is the abstract Submit, although the task is in no queue     *)
(* yet; Take is Start, Finish is Finish; the steps that offer, refuse,     *)
(* push, look, block and wake move nothing the users see; Join is Destroy. *)
(***************************************************************************)
LEMMA StatusIs ==
    ASSUME TasksInv, NEW t \in Tasks
    PROVE  StatusOf(t) = IF runs[t] = 1 THEN "finished"
                         ELSE IF Held(t) THEN "running"
                         ELSE IF t \in submitted THEN "queued" ELSE "new"
<1>1. runs[t] \in {0, 1}
  BY DEF TasksInv, Accounted
<1>2. Holders(t) # {} <=> Held(t)
  BY DEF Holders, Held
<1>3. QED
  BY <1>1, <1>2 DEF StatusOf

\* The same of the state after a step.
LEMMA StatusWillBe ==
    ASSUME TasksInv', NEW t \in Tasks
    PROVE  StatusOf(t)' = IF runs'[t] = 1 THEN "finished"
                          ELSE IF Held(t)' THEN "running"
                          ELSE IF t \in submitted' THEN "queued" ELSE "new"
<1>1. runs'[t] \in {0, 1}
  BY DEF TasksInv, Accounted
<1>2. Holders(t)' # {} <=> Held(t)'
  BY DEF Holders, Held
<1>3. QED
  BY <1>1, <1>2 DEF StatusOf

LEMMA InitAbstract == Init => Abstract!Init
<1> SUFFICES ASSUME Init PROVE Abstract!Init
  OBVIOUS
<1>1. \A t \in Tasks : ~Held(t) /\ runs[t] = 0 /\ t \notin submitted
  BY PoolAssumption DEF Init, Held
<1>2. \A t \in Tasks : StatusOf(t) = "new"
  BY <1>1, InitTasks, StatusIs
<1>3. QED
  BY <1>2 DEF Init, Abstract!Init

LEMMA SameStatus ==
    ASSUME UNCHANGED <<task, submitted, runs>>
    PROVE  \A t \in Tasks : StatusOf(t)' = StatusOf(t)
BY DEF StatusOf, Holders

\* Only one task changes: the shape of Submit, Start and Finish.
LEMMA OneStatus ==
    ASSUME NEW t \in Tasks, NEW a, NEW b,
           StatusOf(t) = a, StatusOf(t)' = b,
           \A u \in Tasks \ {t} : StatusOf(u)' = StatusOf(u)
    PROVE  Abstract!Set(t, a, b)
BY DEF Abstract!Set

LEMMA NextAbstract ==
    ASSUME IInv, TasksInv, TasksInv', Next PROVE [Abstract!Next]_(Abstract!vars)
<1> DEFINE Goal == [Abstract!Next]_(Abstract!vars)
<1>1. ASSUME Calm, UNCHANGED phase PROVE Goal
  <2>1. \A t \in Tasks : StatusOf(t)' = StatusOf(t)
    BY <1>1, SameStatus DEF Calm
  <2>2. QED
    BY <1>1, <2>1 DEF Abstract!vars
<1>2. ASSUME CloseCall PROVE Goal
  <2>1. \A t \in Tasks : StatusOf(t)' = StatusOf(t)
    BY <1>2, SameStatus DEF CloseCall
  <2>2. Abstract!Close
    BY <1>2, <2>1 DEF CloseCall, Abstract!Close
  <2>3. QED
    BY <2>2 DEF Abstract!Next
<1>3. ASSUME Join PROVE Goal
  <2>1. \A t \in Tasks : StatusOf(t)' = StatusOf(t)
    BY <1>3, SameStatus DEF Join
  <2>2. \A t \in Tasks : ~Pushed(t) /\ ~Waiting(t) /\ ~Held(t)
    BY <1>3, AllLeft DEF Join
  <2>3. \A t \in Tasks : StatusOf(t) \in {"new", "finished"}
    BY <2>2, StatusIs DEF TasksInv, Accounted
  <2>4. Abstract!Destroy
    BY <1>3, <2>1, <2>3 DEF Join, Abstract!Destroy
  <2>5. QED
    BY <2>4 DEF Abstract!Next
<1>4. ASSUME NEW c \in Workers \cup Clients, NEW t \in Tasks, Submit(c, t) PROVE Goal
  <2>1. /\ submitted' = submitted \cup {t}
        /\ task' = task /\ runs' = runs /\ phase' = phase
    BY <1>4 DEF Submit
  <2>2. ~Held(t) /\ runs[t] = 0 /\ t \notin submitted
    BY <1>4, SubmitTasks
  <2>3. \A u \in Tasks : Held(u)' <=> Held(u)
    BY <2>1 DEF Held
  <2>4. StatusOf(t) = "new" /\ StatusOf(t)' = "queued"
    BY <2>1, <2>2, <2>3, StatusIs, StatusWillBe
  <2>5. \A u \in Tasks \ {t} : StatusOf(u)' = StatusOf(u)
    BY <2>1, <2>3, StatusIs, StatusWillBe
  <2>6. phase = "open" \/ \E u \in Tasks : StatusOf(u) = "running"
    <3>1. CASE c \in Clients /\ phase = "open"
      BY <3>1
    <3>2. CASE c \in Workers /\ pc[c] = "run"
      <4>1. task[c] # NoTask /\ task[c] \in Tasks
        BY <3>2 DEF TasksInv, Working, Serving, IInv, TypeOK
      <4>2. Held(task[c])
        BY <3>2 DEF Held
      <4>3. runs[task[c]] = 0
        BY <4>1, <4>2 DEF TasksInv, OnePlace
      <4>4. StatusOf(task[c]) = "running"
        BY <4>1, <4>2, <4>3, StatusIs
      <4>5. QED
        BY <4>1, <4>4
    <3>3. QED
      BY <1>4, <3>1, <3>2 DEF Submit
  <2>7. Abstract!Set(t, "new", "queued")
    BY <2>4, <2>5, OneStatus
  <2>8. Abstract!Submit(t)
    BY <2>1, <2>6, <2>7 DEF Abstract!Submit
  <2>9. QED
    BY <2>8 DEF Abstract!Next
<1>5. ASSUME NEW c \in Workers \cup Clients, Insert(c) PROVE Goal
  <2>1. UNCHANGED <<task, submitted, runs, phase>>
    BY <1>5 DEF Insert, pool
  <2>2. \A t \in Tasks : StatusOf(t)' = StatusOf(t)
    BY <2>1, SameStatus
  <2>3. QED
    BY <2>1, <2>2 DEF Abstract!vars
<1>6. ASSUME NEW w \in Workers, Take(w) PROVE Goal
  <2>1. runs' = runs /\ submitted' = submitted /\ phase' = phase
    BY <1>6 DEF Take, pool
  <2>2. PICK t \in Tasks : /\ Waiting(t) /\ t \in submitted
                           /\ \A u \in Tasks : Held(u)' <=> Held(u) \/ u = t
    BY <1>6, TakeTasks
  <2>3. ~Held(t) /\ runs[t] = 0
    BY <2>2 DEF TasksInv, OnePlace
  <2>4. StatusOf(t) = "queued" /\ StatusOf(t)' = "running"
    BY <2>1, <2>2, <2>3, StatusIs, StatusWillBe
  <2>5. \A u \in Tasks \ {t} : StatusOf(u)' = StatusOf(u)
    BY <2>1, <2>2, StatusIs, StatusWillBe
  <2>6. Abstract!Set(t, "queued", "running")
    BY <2>4, <2>5, OneStatus
  <2>7. Abstract!Start(t)
    BY <2>1, <2>6 DEF Abstract!Start
  <2>8. QED
    BY <2>7 DEF Abstract!Next
<1>7. ASSUME NEW w \in Workers, Finish(w) PROVE Goal
  <2>1. submitted' = submitted /\ phase' = phase
    BY <1>7 DEF Finish
  <2>2. PICK t \in Tasks : /\ Held(t) /\ runs[t] = 0 /\ runs' = [runs EXCEPT ![t] = 1]
                           /\ \A u \in Tasks : Held(u)' <=> Held(u) /\ u # t
    BY <1>7, FinishTasks
  <2>3. runs'[t] = 1 /\ \A u \in Tasks \ {t} : runs'[u] = runs[u]
    BY <2>2 DEF IInv, TypeOK
  <2>4. StatusOf(t) = "running" /\ StatusOf(t)' = "finished"
    BY <2>1, <2>2, <2>3, StatusIs, StatusWillBe
  <2>5. \A u \in Tasks \ {t} : StatusOf(u)' = StatusOf(u)
    BY <2>1, <2>2, <2>3, StatusIs, StatusWillBe
  <2>6. Abstract!Set(t, "running", "finished")
    BY <2>4, <2>5, OneStatus
  <2>7. Abstract!Finish(t)
    BY <2>1, <2>6 DEF Abstract!Finish
  <2>8. QED
    BY <2>7 DEF Abstract!Next
<1> HIDE DEF Goal
<1>8. Goal
  BY <1>1, <1>2, <1>3, <1>4, <1>5, <1>6, <1>7, Kinds
<1>9. QED
  BY <1>8 DEF Goal

(***************************************************************************)
(* The safety part of ImplementsPool: whichever queue takes a task, and    *)
(* whoever submits it, every step is one of AbstractPool or changes        *)
(* nothing that the users of the pool see.                                 *)
(***************************************************************************)
THEOREM PoolStepsImplement == Spec => Abstract!Init /\ [][Abstract!Next]_(Abstract!vars)
<1>1. UNCHANGED vars => UNCHANGED Abstract!vars
  <2>1. SUFFICES ASSUME UNCHANGED vars PROVE UNCHANGED Abstract!vars
    OBVIOUS
  <2>2. UNCHANGED <<task, submitted, runs, phase>>
    BY <2>1 DEF vars, pool
  <2>3. \A t \in Tasks : StatusOf(t)' = StatusOf(t)
    BY <2>2, SameStatus
  <2>4. QED
    BY <2>2, <2>3 DEF Abstract!vars
<1>2. IInv /\ TasksInv /\ TasksInv' /\ [Next]_vars => [Abstract!Next]_(Abstract!vars)
  BY <1>1, NextAbstract
<1>3. QED
  BY InitAbstract, Inductive, TasksInductive, <1>2, PTL DEF Spec
==============================================================================
