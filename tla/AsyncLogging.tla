----------------------------- MODULE AsyncLogging -----------------------------
(***************************************************************************)
(* spdlog's asynchronous logging: details/mpmc_blocking_q.h, thread_pool,  *)
(* async_logger and the life of the global pool (async.h). Producers log   *)
(* through asynchronous loggers; each lives on a weak_ptr to the pool,     *)
(* posts a message to the pool's queue and, if it held the last reference, *)
(* runs the pool's destructor. A critical section of the queue's mutex is  *)
(* one step, the notification after the unlock another one.                *)
(***************************************************************************)
EXTENDS CircularQ, FiniteSets, LogLevels

CONSTANTS Producers, Workers, Owner,   \* threads
          Setups,      \* records: the threads of the pool, and a program, which
                       \* gives each producer the sequence of its posts
          MaxPosts,    \* bound: the posts of one producer
          Capacity,    \* q_max_items
          Sinks,       \* the sequence of the loggers' sinks
          SinkLevel,   \* their levels
          Faulty,      \* the sinks that may throw
          FlushLevel   \* the loggers' flush level

\* What a producer posts: a message or a flush.
Posts == [kind : {"log", "flush"}, level : Nat, policy : {"block", "overrun_oldest"}]

ASSUME AsyncAssumption ==
    /\ Owner \notin Workers /\ Producers \cap (Workers \cup {Owner}) = {}
    /\ IsFiniteSet(Workers) /\ IsFiniteSet(Producers)
    /\ Capacity \in Nat \ {0} /\ MaxPosts \in Nat /\ FlushLevel \in Nat
    /\ Sinks \in Seq(STRING) /\ SinkLevel \in [DOMAIN Sinks -> Nat]
    /\ \A c \in Setups : /\ c.threads \subseteq Workers /\ c.threads # {}
                          /\ c.program \in [Producers -> Seq(Posts)]
                          /\ \A p \in Producers : Len(c.program[p]) <= MaxPosts

VARIABLES threads_,    \* the workers of this pool, chosen once
          program,     \* what each producer does, chosen once
          q,           \* q_, see CircularQ
          pc, held,    \* where each thread is, and the message it holds
          pos,         \* the number of posts each producer has begun
          refs,        \* the threads that hold a reference to the pool
          left,        \* the terminate messages still to be posted
          phase,       \* constructing, open, closing or destroyed
          at,          \* the next sink of each worker's loop
          written,     \* of each sink the messages it has got
          flushed,     \* of each sink how many of them it has flushed
          handled, rejected   \* the messages done with, and those refused

choice == <<threads_, program>>
pool == <<refs, left, phase>>
output == <<at, written, flushed, handled>>
vars == <<choice, q, pc, held, pos, pool, output, rejected>>

Threads == Producers \cup Workers \cup {Owner}

\* A message is named by its producer and its number; so is the owner's.
Terminate == <<Owner, 0>>
NoMessage == <<>>

Request(m) == program[m[1]][m[2]]
Policy(m) == IF m = Terminate THEN "block" ELSE Request(m).policy

\* backend_flush_ follows on a message of the flush level, but of level off
\* (logger::should_flush_).
FlushesAfter(m) ==
    Request(m).kind = "log" /\ Request(m).level >= FlushLevel /\ Request(m).level # off

Init == /\ \E c \in Setups : threads_ = c.threads /\ program = c.program
        /\ q = Create(Capacity)
        /\ pc = [t \in Threads |-> IF t \in Workers THEN "unborn" ELSE "idle"]
        /\ held = [t \in Threads |-> NoMessage]
        /\ pos = [p \in Producers |-> 0]
        /\ refs = {Owner} /\ left = 0 /\ phase = "constructing"
        /\ at = [w \in Workers |-> 1]
        /\ written = [s \in DOMAIN Sinks |-> <<>>]
        /\ flushed = [s \in DOMAIN Sinks |-> 0]
        /\ handled = {} /\ rejected = {}

Go(t, place) == pc' = [pc EXCEPT ![t] = place]

At(place) == {t \in Threads : pc[t] = place}
-----------------------------------------------------------------------------
(* mpmc_blocking_queue, used by every thread.                              *)

\* enqueue when there is room, and enqueue_nowait in any case.
Enqueue(t) == /\ pc[t] = "enqueue"
              /\ ~Full(q) \/ Policy(held[t]) = "overrun_oldest"
              /\ q' = PushBack(q, held[t])
              /\ held' = [held EXCEPT ![t] = NoMessage]
              /\ Go(t, "notify_push")
              /\ UNCHANGED <<choice, pos, pool, output, rejected>>

\* enqueue: pop_cv_.wait.
WaitForRoom(t) == /\ pc[t] = "enqueue" /\ Full(q) /\ Policy(held[t]) = "block"
                  /\ Go(t, "full")
                  /\ UNCHANGED <<choice, q, held, pos, pool, output, rejected>>

\* notify_one: the caller goes on, and one of the waiting threads, if any.
NotifyOne(t, there, waiting, back) ==
    \/ At(waiting) = {} /\ Go(t, there)
    \/ \E w \in At(waiting) : pc' = [pc EXCEPT ![t] = there, ![w] = back]

NotifyPush(t) == /\ pc[t] = "notify_push"
                 /\ NotifyOne(t, "posted", "empty", "dequeue")
                 /\ UNCHANGED <<choice, q, held, pos, pool, output, rejected>>

\* A spurious wakeup of pop_cv_.wait; the predicate is tested again.
Spurious(t) == /\ pc[t] = "full" /\ Go(t, "enqueue")
               /\ UNCHANGED <<choice, q, held, pos, pool, output, rejected>>

\* dequeue_for.
Dequeue(w) == /\ pc[w] = "dequeue" /\ ~Empty(q)
              /\ held' = [held EXCEPT ![w] = FrontItem(q)]
              /\ q' = PopFront(q)
              /\ Go(w, "notify_pop")
              /\ UNCHANGED <<choice, pos, pool, output, rejected>>

WaitForItem(w) == /\ pc[w] = "dequeue" /\ Empty(q)
                  /\ Go(w, "empty")
                  /\ UNCHANGED <<choice, q, held, pos, pool, output, rejected>>

\* After 10 s, or spuriously: with an item there it is taken, and without one
\* dequeue_for returns false and the worker calls it again.
Expire(w) == /\ pc[w] = "empty" /\ Go(w, "dequeue")
             /\ UNCHANGED <<choice, q, held, pos, pool, output, rejected>>

\* MUTANT of NotifyPop: only the pop that makes room in a full queue tells of it.
NotifyPopWhenFull(w) ==
    /\ pc[w] = "notify_pop"
    /\ LET after == IF held[w] = Terminate THEN "exited" ELSE "process"
       IN IF Size(q) = Capacity - 1 THEN NotifyOne(w, after, "full", "enqueue") ELSE Go(w, after)
    /\ UNCHANGED <<choice, q, held, pos, pool, output, rejected>>

\* process_next_msg_ then looks at the message's type.
NotifyPop(w) == /\ pc[w] = "notify_pop"
                /\ NotifyOne(w, IF held[w] = Terminate THEN "exited" ELSE "process",
                             "full", "enqueue")
                /\ UNCHANGED <<choice, q, held, pos, pool, output, rejected>>
-----------------------------------------------------------------------------
(* The workers, after the message has been taken.                          *)

\* The constructor starts them.
StartWorker(w) == /\ phase = "constructing" /\ w \in threads_ /\ pc[w] = "unborn"
                  /\ Go(w, "dequeue")
                  /\ UNCHANGED <<choice, q, held, pos, pool, output, rejected>>

Constructed == /\ phase = "constructing" /\ \A w \in threads_ : pc[w] # "unborn"
               /\ phase' = "open"
               /\ UNCHANGED <<choice, q, pc, held, pos, refs, left, output, rejected>>

\* Whether the worker is in the loop over sink->flush().
Flushing(w) == pc[w] = "flush" \/ (pc[w] = "process" /\ Request(held[w]).kind = "flush")

\* MUTANT of SinkLog: an exception leaves the loop over the sinks.
SinkLogThrows(w) ==
    /\ pc[w] = "process" /\ ~Flushing(w) /\ at[w] \in DOMAIN Sinks
    /\ LET s == at[w] IN
         \/ /\ Request(held[w]).level < SinkLevel[s]
            /\ at' = [at EXCEPT ![w] = @ + 1]
            /\ UNCHANGED written
         \/ /\ Request(held[w]).level >= SinkLevel[s]
            /\ at' = [at EXCEPT ![w] = @ + 1]
            /\ written' = [written EXCEPT ![s] = Append(@, held[w])]
         \/ /\ Sinks[s] \in Faulty
            /\ at' = [at EXCEPT ![w] = Len(Sinks) + 1]
            /\ UNCHANGED written
    /\ UNCHANGED <<choice, q, pc, held, pos, pool, flushed, handled, rejected>>

\* backend_sink_it_: one sink. An exception goes to the error handler.
SinkLog(w) ==
    /\ pc[w] = "process" /\ ~Flushing(w) /\ at[w] \in DOMAIN Sinks
    /\ LET s == at[w] IN
         \/ /\ Request(held[w]).level >= SinkLevel[s]
            /\ written' = [written EXCEPT ![s] = Append(@, held[w])]
         \/ /\ Request(held[w]).level < SinkLevel[s] \/ Sinks[s] \in Faulty
            /\ UNCHANGED written
    /\ at' = [at EXCEPT ![w] = @ + 1]
    /\ UNCHANGED <<choice, q, pc, held, pos, pool, flushed, handled, rejected>>

\* backend_sink_it_: the message is of the flush level.
SinksDone(w) == /\ pc[w] = "process" /\ ~Flushing(w) /\ at[w] \notin DOMAIN Sinks
                /\ FlushesAfter(held[w])
                /\ Go(w, "flush")
                /\ at' = [at EXCEPT ![w] = 1]
                /\ UNCHANGED <<choice, q, held, pos, pool, written, flushed, handled, rejected>>

\* backend_flush_: one sink.
SinkFlush(w) == /\ Flushing(w) /\ at[w] \in DOMAIN Sinks
                /\ LET s == at[w] IN
                     \/ flushed' = [flushed EXCEPT ![s] = Len(written[s])]
                     \/ Sinks[s] \in Faulty /\ UNCHANGED flushed
                /\ at' = [at EXCEPT ![w] = @ + 1]
                /\ UNCHANGED <<choice, q, pc, held, pos, pool, written, handled, rejected>>

\* process_next_msg_ returns true; the message is destroyed.
Finish(w) == /\ pc[w] \in {"process", "flush"} /\ at[w] \notin DOMAIN Sinks
             /\ pc[w] = "process" => ~FlushesAfter(held[w])
             /\ handled' = handled \cup {held[w]}
             /\ held' = [held EXCEPT ![w] = NoMessage]
             /\ at' = [at EXCEPT ![w] = 1]
             /\ Go(w, "dequeue")
             /\ UNCHANGED <<choice, q, pos, pool, written, flushed, rejected>>
-----------------------------------------------------------------------------
(* The loggers, and the pool's life.                                       *)

\* async_logger::sink_it_ and flush_, with the pool there: thread_pool_.lock().
Post(p) == /\ pc[p] = "idle" /\ pos[p] < Len(program[p]) /\ phase # "constructing"
           /\ refs # {}
           /\ refs' = refs \cup {p}
           /\ pos' = [pos EXCEPT ![p] = @ + 1]
           /\ held' = [held EXCEPT ![p] = <<p, pos[p] + 1>>]
           /\ Go(p, "enqueue")
           /\ UNCHANGED <<choice, q, left, phase, output, rejected>>

\* The pool is gone: an exception. The log functions that format report it; from those
\* of a plain text and from flush() it comes to the caller.
Reject(p) == /\ pc[p] = "idle" /\ pos[p] < Len(program[p]) /\ phase # "constructing"
             /\ refs = {}
             /\ pos' = [pos EXCEPT ![p] = @ + 1]
             /\ rejected' = rejected \cup {<<p, pos[p] + 1>>}
             /\ UNCHANGED <<choice, q, pc, held, pool, output>>

\* The owner (the registry, by set_tp or shutdown) or a producer that has posted
\* gives its reference up. The last one starts ~thread_pool in its thread.
Release(t) ==
    /\ t \in refs /\ phase = "open"
    /\ IF t = Owner THEN pc[t] = "idle" ELSE pc[t] = "posted"
    /\ refs' = refs \ {t}
    /\ IF refs' = {} THEN /\ phase' = "closing" /\ left' = Cardinality(threads_)
                          /\ Go(t, "posted")
                     ELSE Go(t, "idle") /\ UNCHANGED <<left, phase>>
    /\ UNCHANGED <<choice, q, held, pos, output, rejected>>

\* MUTANT of PostTerminate: one message too few.
PostTerminateFewer(t) ==
    /\ pc[t] = "posted" /\ phase = "closing" /\ left > 1
    /\ left' = left - 1
    /\ held' = [held EXCEPT ![t] = Terminate]
    /\ Go(t, "enqueue")
    /\ UNCHANGED <<choice, q, pos, refs, phase, output, rejected>>

\* ~thread_pool posts one message per thread, blocking, and then joins them.
PostTerminate(t) == /\ pc[t] = "posted" /\ phase = "closing" /\ left > 0
                    /\ left' = left - 1
                    /\ held' = [held EXCEPT ![t] = Terminate]
                    /\ Go(t, "enqueue")
                    /\ UNCHANGED <<choice, q, pos, refs, phase, output, rejected>>

Join(t) == /\ pc[t] = "posted" /\ phase = "closing" /\ left = 0
           /\ \A w \in threads_ : pc[w] = "exited"
           /\ phase' = "destroyed"
           /\ Go(t, "idle")
           /\ UNCHANGED <<choice, q, held, pos, refs, left, output, rejected>>

QueueStep(t) == Enqueue(t) \/ WaitForRoom(t) \/ NotifyPush(t)

Work(w) == \/ Dequeue(w) \/ WaitForItem(w) \/ NotifyPop(w) \/ StartWorker(w)
           \/ SinkLog(w) \/ SinksDone(w) \/ SinkFlush(w) \/ Finish(w)

Log(p) == Post(p) \/ Reject(p)

Destroy(t) == PostTerminate(t) \/ Join(t)

Next == \/ \E t \in Producers \cup {Owner} : QueueStep(t) \/ Spurious(t) \/ Release(t) \/ Destroy(t)
        \/ \E w \in Workers : Work(w) \/ Expire(w)
        \/ \E p \in Producers : Log(p)
        \/ Constructed

(***************************************************************************)
(* The scheduler runs every thread that can run. Nobody has to log, and    *)
(* the owner may keep the pool. A wait of dequeue_for ends after 10 s, but *)
(* that is not relied on.                                                  *)
(***************************************************************************)
Fairness == /\ \A t \in Producers \cup {Owner} : WF_vars(QueueStep(t)) /\ WF_vars(Destroy(t))
            /\ \A p \in Producers : WF_vars(Release(p))
            /\ \A w \in Workers : WF_vars(Work(w))
            /\ WF_vars(Constructed)

Spec == Init /\ [][Next]_vars /\ Fairness
------------------------------------------------------------------------------
Messages == UNION {{<<p, i>> : i \in 1..pos[p]} : p \in Producers}
AllMessages == UNION {{<<p, i>> : i \in DOMAIN program[p]} : p \in Producers}

TypeOK ==
    /\ \E c \in Setups : threads_ = c.threads /\ program = c.program
    /\ Ring(q, AllMessages \cup {Terminate}) /\ q.max = Capacity + 1
    /\ pc \in [Threads -> {"idle", "enqueue", "full", "notify_push", "posted", "unborn",
                           "dequeue", "empty", "notify_pop", "process", "flush", "exited"}]
    /\ held \in [Threads -> AllMessages \cup {Terminate, NoMessage}]
    /\ pos \in [Producers -> Nat] /\ refs \subseteq Producers \cup {Owner}
    /\ left \in 0..Cardinality(threads_)
    /\ phase \in {"constructing", "open", "closing", "destroyed"}
    /\ at \in [Workers -> 1..(Len(Sinks) + 1)]
    /\ written \in [DOMAIN Sinks -> Seq(AllMessages)] /\ flushed \in [DOMAIN Sinks -> Nat]
    /\ \A s \in DOMAIN Sinks : flushed[s] <= Len(written[s])
    /\ handled \subseteq AllMessages /\ rejected \subseteq AllMessages

\* A message that was enqueued and then neither processed nor about to be.
InHand == {held[t] : t \in Threads}
Queued == {Contents(q)[i] : i \in 1..Size(q)}
Lost == Messages \ (handled \cup rejected \cup InHand \cup Queued)

(***************************************************************************)
(* overrun_counter() is exactly the number of messages that have vanished, *)
(* and none has when every logger blocks: the pool's destructor throws     *)
(* nothing away, nor do its own messages push any out of the queue.        *)
(***************************************************************************)
LossesAreCounted ==
    /\ q.over = Cardinality(Lost)
    /\ (\A m \in AllMessages : Policy(m) = "block") => Lost = {}

(***************************************************************************)
(* No lost wakeup, on either condition variable: a worker sleeps while the *)
(* queue holds messages, or a producer while it has room, only if a thread *)
(* that is awake or to be woken will see to each of them.                  *)
(***************************************************************************)
NoLostWakeup ==
    /\ At("empty") # {} => Size(q) <= Cardinality(At("notify_push") \cup At("dequeue"))
    /\ At("full") # {} =>
         Capacity - Size(q) <= Cardinality(At("notify_pop") \cup
                                           {t \in At("enqueue") : Policy(held[t]) = "block"})

(***************************************************************************)
(* The threads, the queue and what they hold keep their types, and nobody  *)
(* sleeps on a condition variable beside messages or room that no thread   *)
(* awake or to be woken will see to (mpmc_blocking_q.h:28-79).             *)
(***************************************************************************)
NobodySleepsInVain == TypeOK /\ NoLostWakeup

(***************************************************************************)
(* With one thread in the pool (async.h:14, the default) every sink gets a *)
(* producer's messages in the order in which they were logged, and with    *)
(* any number each message at most once.                                   *)
(***************************************************************************)
OrderKept ==
    \A s \in DOMAIN Sinks : \A i, j \in DOMAIN written[s] :
        i < j => /\ written[s][i] # written[s][j]
                 /\ Cardinality(threads_) = 1 /\ written[s][i][1] = written[s][j][1] =>
                      written[s][i][2] < written[s][j][2]

(***************************************************************************)
(* With one thread, when a flush or a message of the flush level has been  *)
(* handled, the earlier messages of its producer that reached a sink are   *)
(* flushed there, and those the sink is to log and that were not overrun   *)
(* did reach it: a sink that throws does not keep a message or a flush     *)
(* from the sinks after it.                                                *)
(***************************************************************************)
FlushCovers ==
    Cardinality(threads_) = 1 =>
        \A m \in handled : Request(m).kind = "flush" \/ FlushesAfter(m) =>
            \A s \in {n \in DOMAIN Sinks : Sinks[n] \notin Faulty} :
                \A i \in 1..m[2] :
                    /\ <<m[1], i>> \in handled
                    /\ Request(<<m[1], i>>).kind = "log"
                    /\ Request(<<m[1], i>>).level >= SinkLevel[s]
                    => \E j \in 1..flushed[s] : written[s][j] = <<m[1], i>>

\* How the abstract log sees this one. The destructor's messages are the last
\* of the queue.
Asking == {held[p] : p \in Producers} \ {NoMessage, Terminate}
Busy == {held[w] : w \in Workers} \ {NoMessage, Terminate}
Pending == [i \in {j \in 1..Size(q) : Contents(q)[j] # Terminate} |-> Contents(q)[i]]
Overruns == {m \in AllMessages : Policy(m) = "overrun_oldest"}
Stage == IF phase = "constructing" THEN "open" ELSE phase

(***************************************************************************)
(* The pool implements the abstract asynchronous log: the order of the     *)
(* queue, nothing twice, nothing lost but the oldest of a full queue to a  *)
(* post that overruns, all handled before the destructor returns, and it   *)
(* returns, as every blocked post does.                                    *)
(***************************************************************************)
Abstract == INSTANCE AbstractAsyncLog
    WITH Requests <- Producers \X (1..MaxPosts),
         overruns <- Overruns, asking <- Asking, pending <- Pending, busy <- Busy,
         finished <- handled, refused <- rejected, phase <- Stage

ImplementsAsyncLog == Abstract!Spec
==============================================================================
