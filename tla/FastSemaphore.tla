---------------------------- MODULE FastSemaphore ----------------------------
(***************************************************************************)
(* utilcxx::FastSemaphore (utilcxx/semaphore.h): an atomic counter in      *)
(* front of a Semaphore that only threads that must block, and the posts   *)
(* that release them, ever touch. The inner semaphore is its contract,     *)
(* AbstractSemaphore; the fetch_add or fetch_sub and the call of the inner *)
(* semaphore are two steps, and other threads run between them.            *)
(***************************************************************************)
EXTENDS Integers, FiniteSets

CONSTANTS FastThreads,   \* the calling threads
          FastInitCount, \* the count given to the constructor
          FastMaxCount   \* bound: tokens the callers let accumulate

ASSUME FastSemaphoreAssumption ==
    /\ IsFiniteSet(FastThreads)
    /\ FastInitCount \in Nat /\ FastMaxCount \in Nat

VARIABLES fast_count,    \* m_count, negative when threads block
          inner,         \* the tokens of m_semaphore
          innerWait,     \* the threads inside m_semaphore.wait()
          fast_pc        \* where each thread is

fast_vars == <<fast_count, inner, innerWait, fast_pc>>

(***************************************************************************)
(*   idle    outside the semaphore                                         *)
(*   post    in post(), past fetch_add, about to call m_semaphore.post()   *)
(*   wait    in wait(), before fetch_sub                                   *)
(*   sleep   in wait(), inside m_semaphore.wait()                          *)
(***************************************************************************)
FastPlaces == {"idle", "post", "wait", "sleep"}

FastAt(p) == {t \in FastThreads : fast_pc[t] = p}

FastGo(t, p) == fast_pc' = [fast_pc EXCEPT ![t] = p]

Larger(a, b) == IF a > b THEN a ELSE b

\* m_semaphore: constructed with no token, and never waited for with a timeout.
Inner == INSTANCE AbstractSemaphore
           WITH Threads <- FastThreads, InitCount <- 0, MaxPost <- 1,
                MaxCount <- FastMaxCount + Cardinality(FastThreads),
                count <- inner, waiting <- innerWait, timed <- {}

FastInit == /\ fast_count = FastInitCount
            /\ Inner!Init
            /\ fast_pc = [t \in FastThreads |-> "idle"]

\* MUTANT of FastPost: the inner semaphore is posted for an old count of 0 too.
PostTooMuch(t) == /\ fast_pc[t] = "idle"
                  /\ fast_count < FastMaxCount
                  /\ fast_count' = fast_count + 1
                  /\ FastGo(t, IF fast_count <= 0 THEN "post" ELSE "idle")
                  /\ UNCHANGED <<inner, innerWait>>

\* fetch_add; a negative old value means that somebody blocks.
FastPost(t) == /\ fast_pc[t] = "idle"
               /\ fast_count < FastMaxCount
               /\ fast_count' = fast_count + 1
               /\ FastGo(t, IF fast_count < 0 THEN "post" ELSE "idle")
               /\ UNCHANGED <<inner, innerWait>>

PostInner(t) ==
    fast_pc[t] = "post" /\ Inner!Post(t, 1) /\ FastGo(t, "idle") /\ UNCHANGED fast_count

FastWaitCall(t) ==
    fast_pc[t] = "idle" /\ FastGo(t, "wait") /\ UNCHANGED <<fast_count, inner, innerWait>>

\* MUTANT of Decrement: an old count of 0 does not block.
DecrementOffByOne(t) ==
    /\ fast_pc[t] = "wait"
    /\ fast_count' = fast_count - 1
    /\ IF fast_count < 0 THEN Inner!Wait(t) /\ FastGo(t, "sleep")
                         ELSE FastGo(t, "idle") /\ UNCHANGED <<inner, innerWait>>

\* fetch_sub; with no token left the thread calls m_semaphore.wait().
Decrement(t) ==
    /\ fast_pc[t] = "wait"
    /\ fast_count' = fast_count - 1
    /\ IF fast_count < 1 THEN Inner!Wait(t) /\ FastGo(t, "sleep")
                         ELSE FastGo(t, "idle") /\ UNCHANGED <<inner, innerWait>>

\* m_semaphore.wait() returns.
WakeUp(t) ==
    fast_pc[t] = "sleep" /\ Inner!Acquire(t) /\ FastGo(t, "idle") /\ UNCHANGED fast_count

FastNext == \E t \in FastThreads : \/ FastPost(t) \/ PostInner(t)
                                   \/ FastWaitCall(t) \/ Decrement(t) \/ WakeUp(t)

(***************************************************************************)
(* The scheduler runs every thread that can run; of the threads inside     *)
(* m_semaphore.wait() it promises no more than the inner semaphore does.   *)
(***************************************************************************)
FastFairness ==
    /\ \A t \in FastThreads : WF_fast_vars(PostInner(t)) /\ WF_fast_vars(Decrement(t))
    /\ WF_fast_vars(\E t \in FastThreads : WakeUp(t))

FastSpec == FastInit /\ [][FastNext]_fast_vars /\ FastFairness
------------------------------------------------------------------------------
FastTypeOK == /\ fast_count \in Int
              /\ inner \in Nat
              /\ innerWait = FastAt("sleep")
              /\ fast_pc \in [FastThreads -> FastPlaces]

(***************************************************************************)
(* The comment at semaphore.h:97-99 made precise: the threads asleep,      *)
(* less the wakeups already on their way (inner tokens and posts between   *)
(* fetch_add and m_semaphore.post()), are -m_count of them when m_count is *)
(* negative and none otherwise. Neither a token nor a sleeper is lost.     *)
(***************************************************************************)
CountMeaning ==
    Cardinality(FastAt("sleep")) - inner - Cardinality(FastAt("post"))
        = Larger(0, -fast_count)

(***************************************************************************)
(* FastSemaphore implements the same abstract semaphore as Semaphore. Its  *)
(* tokens are those of m_count and the ones granted to sleepers that have  *)
(* not woken yet.                                                          *)
(***************************************************************************)
FastAbstract == INSTANCE AbstractSemaphore
              WITH Threads <- FastThreads, InitCount <- FastInitCount,
                   count <- Larger(0, fast_count) + inner + Cardinality(FastAt("post")),
                   MaxPost <- 1, MaxCount <- FastMaxCount + Cardinality(FastThreads),
                   waiting <- FastAt("wait") \cup FastAt("sleep"),
                   timed <- {}

FastImplementsAbstract == FastAbstract!Spec
==============================================================================
