------------------------------ MODULE Semaphore ------------------------------
(***************************************************************************)
(* utilcxx::Semaphore (utilcxx/semaphore.h): a counter guarded by a mutex, *)
(* and a condition variable on which the threads that find it 0 block.     *)
(* Every critical section of the class is one step, as no method tries the *)
(* lock; the notification comes after the unlock and is a step of its own, *)
(* so other threads run between the two. A blocked thread may also wake    *)
(* spuriously, and a timed one when its deadline passes.                   *)
(***************************************************************************)
EXTENDS Integers, FiniteSets

CONSTANTS Threads,     \* the calling threads
          InitCount,   \* the count given to the constructor
          MaxPost,     \* bound: tokens of one post(n)
          MaxCount     \* bound: tokens the callers let accumulate

ASSUME SemaphoreAssumption ==
    /\ IsFiniteSet(Threads)
    /\ InitCount \in Nat /\ MaxPost \in Nat \ {0} /\ MaxCount \in Nat

VARIABLES count,       \* m_count
          pc           \* where each thread is

vars == <<count, pc>>

(***************************************************************************)
(*   idle       outside the semaphore                                      *)
(*   one, all   in post() / post(n), before m_cv.notify_one / notify_all   *)
(*   wait       in wait(), about to lock the mutex and test the count      *)
(*   blocked    in wait(), blocked on m_cv                                 *)
(*   twait, tblocked   the same in wait_for() and wait_until()             *)
(*   expired    in wait_for(), past the deadline, about to test again      *)
(***************************************************************************)
Places == {"idle", "one", "all", "wait", "blocked", "twait", "tblocked", "expired"}

At(p) == {t \in Threads : pc[t] = p}

Go(t, p) == pc' = [pc EXCEPT ![t] = p]

Blocked == At("blocked") \cup At("tblocked")

Testing == At("wait") \cup At("twait") \cup At("expired")

Init == count = InitCount /\ pc = [t \in Threads |-> "idle"]

\* MUTANT of Post: notifies only when the count leaves 0.
PostNotifyFromZero(t) == /\ pc[t] = "idle"
                         /\ count + 1 <= MaxCount
                         /\ count' = count + 1
                         /\ Go(t, IF count = 0 THEN "one" ELSE "idle")

Post(t) == /\ pc[t] = "idle"
           /\ count + 1 <= MaxCount
           /\ count' = count + 1
           /\ Go(t, "one")

\* MUTANT of PostN: n tokens, but notify_one.
PostNNotifyOne(t, n) == /\ pc[t] = "idle"
                        /\ count + n <= MaxCount
                        /\ count' = count + n
                        /\ Go(t, "one")

PostN(t, n) == /\ pc[t] = "idle"
               /\ count + n <= MaxCount
               /\ count' = count + n
               /\ Go(t, "all")

\* A woken thread goes back to the lock, with the same kind of call.
Woken(p) == IF p = "blocked" THEN "wait" ELSE "twait"

\* notify_one: any one blocked thread, or nobody when none is blocked.
NotifyOne(t) == /\ pc[t] = "one"
                /\ UNCHANGED count
                /\ \/ Blocked = {} /\ Go(t, "idle")
                   \/ \E w \in Blocked :
                        pc' = [pc EXCEPT ![t] = "idle", ![w] = Woken(pc[w])]

NotifyAll(t) == /\ pc[t] = "all"
                /\ UNCHANGED count
                /\ pc' = [u \in Threads |-> IF u = t THEN "idle"
                                            ELSE IF u \in Blocked THEN Woken(pc[u])
                                            ELSE pc[u]]

WaitCall(t) == pc[t] = "idle" /\ Go(t, "wait") /\ UNCHANGED count

WaitForCall(t) == pc[t] = "idle" /\ Go(t, "twait") /\ UNCHANGED count

\* The predicate of m_cv.wait holds: the thread takes a token and returns.
Take(t) == /\ pc[t] \in {"wait", "twait", "expired"}
           /\ count # 0
           /\ count' = count - 1
           /\ Go(t, "idle")

\* It does not: the thread releases the mutex and blocks.
Block(t) == /\ pc[t] \in {"wait", "twait"}
            /\ count = 0
            /\ Go(t, IF pc[t] = "wait" THEN "blocked" ELSE "tblocked")
            /\ UNCHANGED count

\* MUTANT of Fail: a timed wait fails at the deadline without the last test.
FailUntested(t) == pc[t] = "expired" /\ Go(t, "idle") /\ UNCHANGED count

\* Past the deadline a timed wait tests once more, then returns false.
Fail(t) == pc[t] = "expired" /\ count = 0 /\ Go(t, "idle") /\ UNCHANGED count

Expire(t) == pc[t] = "tblocked" /\ Go(t, "expired") /\ UNCHANGED count

Spurious(t) == /\ pc[t] \in {"blocked", "tblocked"}
               /\ Go(t, Woken(pc[t]))
               /\ UNCHANGED count

\* What a thread does without being called or woken.
Run(t) == Take(t) \/ Block(t) \/ Fail(t) \/ NotifyOne(t) \/ NotifyAll(t)

Next == \E t \in Threads : \/ Post(t)
                           \/ \E n \in 0..MaxPost : PostN(t, n)
                           \/ WaitCall(t)
                           \/ WaitForCall(t)
                           \/ Expire(t)
                           \/ Spurious(t)
                           \/ Run(t)

(***************************************************************************)
(* The scheduler runs every thread that can run. The deadline of a timed   *)
(* wait is absolute: once it has passed, every later block expires at      *)
(* once, which strong fairness expresses for a thread that keeps being     *)
(* woken.                                                                  *)
(***************************************************************************)
Fairness == \A t \in Threads : WF_vars(Run(t)) /\ SF_vars(Expire(t))

Spec == Init /\ [][Next]_vars /\ Fairness
------------------------------------------------------------------------------
TypeOK == count \in Nat /\ pc \in [Threads -> Places]

(***************************************************************************)
(* No lost wakeup. While a thread is blocked, every token is matched by a  *)
(* notification still to be sent or by a thread that is about to test the  *)
(* count: the notification of semaphore.h:30 and :39 comes after the       *)
(* unlock, and threads that arrive, time out or wake for nothing in        *)
(* between must not use it up.                                             *)
(***************************************************************************)
NoLostWakeup ==
    Blocked # {} => \/ At("all") # {}
                    \/ count <= Cardinality(At("one")) + Cardinality(Testing)

(***************************************************************************)
(* No thread stays blocked for ever from some moment on while there are    *)
(* always tokens: what wait() (semaphore.h:42-47) owes a caller that is    *)
(* overtaken by later ones.                                                *)
(***************************************************************************)
NobodyStranded == \A t \in Threads : ~ <>[](pc[t] = "blocked" /\ count > 0)

(***************************************************************************)
(* The semaphore implements the abstract one, fairness included.           *)
(***************************************************************************)
Abstract == INSTANCE AbstractSemaphore
              WITH waiting <- At("wait") \cup At("blocked"),
                   timed <- At("twait") \cup At("tblocked") \cup At("expired")

ImplementsAbstract == Abstract!Spec
==============================================================================
