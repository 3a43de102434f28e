-------------------------- MODULE AbstractSemaphore --------------------------
(***************************************************************************)
(* What a counting semaphore promises its callers, without mutex or        *)
(* condition variable: posting adds tokens, a wait takes one as soon as    *)
(* there is one, a timed wait fails only at an instant without a token.    *)
(* utilcxx::Semaphore and utilcxx::FastSemaphore (utilcxx/semaphore.h) are *)
(* shown to implement it; FixedBlockingQueue and AtomicBlockingQueue are   *)
(* built on it.                                                            *)
(***************************************************************************)
EXTENDS Integers

CONSTANTS Threads,     \* the calling threads
          InitCount,   \* the count given to the constructor
          MaxPost,     \* bound: tokens of one post(n)
          MaxCount     \* bound: tokens a caller lets accumulate

VARIABLES count,       \* tokens available
          waiting,     \* threads inside wait()
          timed        \* threads inside wait_for() or wait_until()

vars == <<count, waiting, timed>>

Callers == waiting \cup timed

Init == count = InitCount /\ waiting = {} /\ timed = {}

Post(t, n) == /\ t \notin Callers
              /\ count + n <= MaxCount
              /\ count' = count + n
              /\ UNCHANGED <<waiting, timed>>

Wait(t) == /\ t \notin Callers
           /\ waiting' = waiting \cup {t}
           /\ UNCHANGED <<count, timed>>

WaitFor(t) == /\ t \notin Callers
              /\ timed' = timed \cup {t}
              /\ UNCHANGED <<count, waiting>>

Acquire(t) == /\ t \in Callers
              /\ count > 0
              /\ count' = count - 1
              /\ waiting' = waiting \ {t}
              /\ timed' = timed \ {t}

GiveUp(t) == /\ t \in timed
             /\ count = 0
             /\ timed' = timed \ {t}
             /\ UNCHANGED <<count, waiting>>

Next == \E t \in Threads : \/ \E n \in 0..MaxPost : Post(t, n)
                           \/ Wait(t)
                           \/ WaitFor(t)
                           \/ Acquire(t)
                           \/ GiveUp(t)

(***************************************************************************)
(* A token does not stay while somebody waits for one (nothing is promised *)
(* about who gets it), and a timed wait returns.                           *)
(***************************************************************************)
Fairness == /\ WF_vars(\E t \in Threads : Acquire(t))
            /\ \A t \in Threads : WF_vars(t \in timed /\ (Acquire(t) \/ GiveUp(t)))

Spec == Init /\ [][Next]_vars /\ Fairness
==============================================================================
