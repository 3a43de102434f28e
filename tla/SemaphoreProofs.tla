--------------------------- MODULE SemaphoreProofs ---------------------------
(***************************************************************************)
(* For every finite set of threads and every initial count, utilcxx's      *)
(* Semaphore keeps its types and loses no wakeup, and FastSemaphore keeps  *)
(* the documented meaning of its counter; every step of each is a step of  *)
(* the abstract semaphore or leaves that unchanged. NoLostWakeup is        *)
(* inductive relative to TypeOK: each step moves at most two threads       *)
(* between the sets that it counts. So is CountMeaning, and the refinement *)
(* of FastSemaphore needs it to bound the wakeups on their way by the      *)
(* number of sleepers. The simple thread pool, which is at the end, runs   *)
(* every task once, for any workers, clients and tasks.                    *)
(***************************************************************************)
EXTENDS Semaphore, FastSemaphore, SimpleThreadPool, FiniteSetTheorems, TLAPS

LEMMA InitTypeOK == Init => TypeOK
  BY SemaphoreAssumption DEF Init, TypeOK, Places

LEMMA NextTypeOK == TypeOK /\ [Next]_vars => TypeOK'
<1> SUFFICES ASSUME TypeOK, [Next]_vars PROVE TypeOK'
  OBVIOUS
<1> USE DEF TypeOK, Places, Go
<1>1. CASE UNCHANGED vars
  BY <1>1 DEF vars
<1>2. ASSUME NEW t \in Threads, Post(t) PROVE TypeOK'
  BY <1>2 DEF Post
<1>3. ASSUME NEW t \in Threads, NEW n \in 0..MaxPost, PostN(t, n) PROVE TypeOK'
  BY <1>3 DEF PostN
<1>4. ASSUME NEW t \in Threads, WaitCall(t) \/ WaitForCall(t) \/ Expire(t) PROVE TypeOK'
  BY <1>4 DEF WaitCall, WaitForCall, Expire
<1>5. ASSUME NEW t \in Threads, Spurious(t) PROVE TypeOK'
  BY <1>5 DEF Spurious, Woken
<1>6. ASSUME NEW t \in Threads, Take(t) PROVE TypeOK'
  BY <1>6 DEF Take
<1>7. ASSUME NEW t \in Threads, Block(t) \/ Fail(t) PROVE TypeOK'
  BY <1>7 DEF Block, Fail
<1>8. ASSUME NEW t \in Threads, NotifyOne(t) PROVE TypeOK'
  BY <1>8 DEF NotifyOne, Woken, Blocked, At
<1>9. ASSUME NEW t \in Threads, NotifyAll(t) PROVE TypeOK'
  BY <1>9 DEF NotifyAll, Woken
<1>10. QED
  BY <1>1, <1>2, <1>3, <1>4, <1>5, <1>6, <1>7, <1>8, <1>9 DEF Next, Run

\* The threads of a kind are finitely many.
LEMMA FiniteGroups ==
    /\ IsFiniteSet(At("one")) /\ Cardinality(At("one")) \in Nat
    /\ IsFiniteSet(Testing) /\ Cardinality(Testing) \in Nat
<1>1. At("one") \subseteq Threads /\ Testing \subseteq Threads
  BY DEF At, Testing
<1>2. QED
  BY <1>1, SemaphoreAssumption, FS_Subset, FS_CardinalityType

LEMMA InitNoLostWakeup == Init => NoLostWakeup
  BY DEF Init, NoLostWakeup, Blocked, At

LEMMA NextNoLostWakeup == TypeOK /\ NoLostWakeup /\ [Next]_vars => NoLostWakeup'
<1> SUFFICES ASSUME TypeOK, NoLostWakeup, [Next]_vars PROVE NoLostWakeup'
  OBVIOUS
<1>f. /\ IsFiniteSet(At("one")) /\ Cardinality(At("one")) \in Nat
      /\ IsFiniteSet(Testing) /\ Cardinality(Testing) \in Nat
  BY FiniteGroups
<1>n. TypeOK'
  BY NextTypeOK
<1>c. count \in Nat /\ count' \in Nat
  BY <1>n DEF TypeOK
<1>f2. Cardinality(At("one")') \in Nat /\ Cardinality(Testing') \in Nat
  <2>1. At("one")' \subseteq Threads /\ Testing' \subseteq Threads
    BY DEF At, Testing
  <2>2. QED
    BY <2>1, SemaphoreAssumption, FS_Subset, FS_CardinalityType
<1>1. CASE UNCHANGED vars
  BY <1>1 DEF vars, NoLostWakeup, Blocked, Testing, At
<1>2. ASSUME NEW t \in Threads, Post(t) PROVE NoLostWakeup'
  <2>1. /\ At("one")' = At("one") \cup {t} /\ t \notin At("one")
        /\ Testing' = Testing /\ Blocked' = Blocked /\ At("all")' = At("all")
    BY <1>2 DEF Post, Go, At, TypeOK, Testing, Blocked
  <2>2. Cardinality(At("one")') = Cardinality(At("one")) + 1
    BY <2>1, <1>f, FS_AddElement
  <2>3. count' = count + 1
    BY <1>2 DEF Post
  <2>4. QED
    BY <2>1, <2>2, <2>3, <1>f, <1>c DEF NoLostWakeup
<1>3. ASSUME NEW t \in Threads, NEW n \in 0..MaxPost, PostN(t, n) PROVE NoLostWakeup'
  BY <1>3 DEF PostN, Go, NoLostWakeup, At, TypeOK
<1>4. ASSUME NEW t \in Threads,
             WaitCall(t) \/ WaitForCall(t) \/ Expire(t) \/ Spurious(t)
      PROVE  NoLostWakeup'
  <2>1. /\ At("one")' = At("one") /\ At("all")' = At("all")
        /\ Testing' = Testing \cup {t} /\ t \notin Testing
        /\ Blocked' \subseteq Blocked /\ count' = count
    BY <1>4 DEF WaitCall, WaitForCall, Expire, Spurious, Woken, Go, At, TypeOK, Testing, Blocked
  <2>2. Cardinality(Testing') = Cardinality(Testing) + 1
    BY <2>1, <1>f, FS_AddElement
  <2>3. QED
    BY <2>1, <2>2, <1>f, <1>c DEF NoLostWakeup
<1>5. ASSUME NEW t \in Threads, Take(t) PROVE NoLostWakeup'
  <2>1. /\ At("one")' = At("one") /\ At("all")' = At("all")
        /\ Testing' = Testing \ {t} /\ t \in Testing
        /\ Blocked' = Blocked /\ count' = count - 1
    BY <1>5 DEF Take, Go, At, TypeOK, Testing, Blocked
  <2>2. Cardinality(Testing') = Cardinality(Testing) - 1
    BY <2>1, <1>f, FS_RemoveElement
  <2>3. QED
    BY <2>1, <2>2, <1>f, <1>c DEF NoLostWakeup
<1>6. ASSUME NEW t \in Threads, Block(t) \/ Fail(t) PROVE NoLostWakeup'
  <2>1. count' = 0
    BY <1>6 DEF Block, Fail
  <2>2. QED
    BY <2>1, <1>f2 DEF NoLostWakeup
<1>7. ASSUME NEW t \in Threads, NotifyOne(t) PROVE NoLostWakeup'
  <2>1. CASE Blocked = {} /\ Go(t, "idle")
    BY <2>1, <1>7 DEF NotifyOne, Go, NoLostWakeup, Blocked, At, TypeOK
  <2>2. ASSUME NEW w \in Blocked, pc' = [pc EXCEPT ![t] = "idle", ![w] = Woken(pc[w])]
        PROVE  NoLostWakeup'
    <3>1. /\ At("one")' = At("one") \ {t} /\ t \in At("one") /\ At("all")' = At("all")
          /\ Testing' = Testing \cup {w} /\ w \notin Testing
          /\ Blocked' \subseteq Blocked /\ count' = count
      BY <2>2, <1>7 DEF NotifyOne, Woken, At, TypeOK, Testing, Blocked
    <3>2. Cardinality(At("one")') = Cardinality(At("one")) - 1
      BY <3>1, <1>f, FS_RemoveElement
    <3>3. Cardinality(Testing') = Cardinality(Testing) + 1
      BY <3>1, <1>f, FS_AddElement
    <3>4. QED
      BY <3>1, <3>2, <3>3, <1>f, <1>c DEF NoLostWakeup
  <2>3. QED
    BY <2>1, <2>2, <1>7 DEF NotifyOne
<1>8. ASSUME NEW t \in Threads, NotifyAll(t) PROVE NoLostWakeup'
  <2>1. Blocked' = {}
    BY <1>8 DEF NotifyAll, Woken, Blocked, At, TypeOK
  <2>2. QED
    BY <2>1 DEF NoLostWakeup
<1>9. QED
  BY <1>1, <1>2, <1>3, <1>4, <1>5, <1>6, <1>7, <1>8 DEF Next, Run

(***************************************************************************)
(* The count never goes below zero and every thread is where some method   *)
(* of the class puts it.                                                   *)
(***************************************************************************)
THEOREM TypeCorrect == Spec => []TypeOK
  BY InitTypeOK, NextTypeOK, PTL DEF Spec

(***************************************************************************)
(* However many threads post, wait, time out or wake for nothing: while    *)
(* one is blocked, each token is matched by a notification to come or by a *)
(* thread about to test the count.                                         *)
(***************************************************************************)
THEOREM NoWakeupIsLost == Spec => []NoLostWakeup
  BY InitTypeOK, NextTypeOK, InitNoLostWakeup, NextNoLostWakeup, PTL DEF Spec
------------------------------------------------------------------------------
(* Refinement: blocked or not, a thread is inside wait() or wait_for().    *)

LEMMA InitRefines == Init => Abstract!Init
  BY DEF Init, Abstract!Init, At

LEMMA NextRefines == TypeOK /\ [Next]_vars => [Abstract!Next]_(Abstract!vars)
<1> SUFFICES ASSUME TypeOK, [Next]_vars
             PROVE  Abstract!Next \/ UNCHANGED (Abstract!vars)
  OBVIOUS
<1> USE DEF TypeOK, Places, Go, At
<1>1. CASE UNCHANGED vars
  BY <1>1 DEF vars, Abstract!vars
<1>2. ASSUME NEW t \in Threads, NEW n \in 0..MaxPost,
             pc[t] = "idle", count + n <= MaxCount, count' = count + n,
             \E p \in {"one", "all"} : pc' = [pc EXCEPT ![t] = p]
      PROVE  Abstract!Next
  <2>1. Abstract!Post(t, n)
    BY <1>2 DEF Abstract!Post, Abstract!Callers
  <2>2. QED
    BY <2>1 DEF Abstract!Next
<1>3. ASSUME NEW t \in Threads, Post(t) PROVE Abstract!Next
  <2>1. 1 \in 0..MaxPost
    BY SemaphoreAssumption
  <2>2. QED
    BY <1>2, <1>3, <2>1 DEF Post
<1>4. ASSUME NEW t \in Threads, NEW n \in 0..MaxPost, PostN(t, n) PROVE Abstract!Next
  BY <1>2, <1>4 DEF PostN
<1>5. ASSUME NEW t \in Threads, WaitCall(t) PROVE Abstract!Next
  <2>1. Abstract!Wait(t)
    BY <1>5 DEF WaitCall, Abstract!Wait, Abstract!Callers
  <2>2. QED
    BY <2>1 DEF Abstract!Next
<1>6. ASSUME NEW t \in Threads, WaitForCall(t) PROVE Abstract!Next
  <2>1. Abstract!WaitFor(t)
    BY <1>6 DEF WaitForCall, Abstract!WaitFor, Abstract!Callers
  <2>2. QED
    BY <2>1 DEF Abstract!Next
<1>7. ASSUME NEW t \in Threads, Expire(t) \/ Spurious(t) \/ Block(t)
      PROVE  UNCHANGED (Abstract!vars)
  BY <1>7 DEF Expire, Spurious, Block, Woken, Abstract!vars
<1>8. ASSUME NEW t \in Threads, NotifyOne(t) PROVE UNCHANGED (Abstract!vars)
  BY <1>8 DEF NotifyOne, Woken, Blocked, Abstract!vars
<1>9. ASSUME NEW t \in Threads, NotifyAll(t) PROVE UNCHANGED (Abstract!vars)
  BY <1>9 DEF NotifyAll, Woken, Blocked, Abstract!vars
<1>10. ASSUME NEW t \in Threads, Take(t) PROVE Abstract!Next
  <2>1. Abstract!Acquire(t)
    BY <1>10 DEF Take, Abstract!Acquire, Abstract!Callers
  <2>2. QED
    BY <2>1 DEF Abstract!Next
<1>11. ASSUME NEW t \in Threads, Fail(t) PROVE Abstract!Next
  <2>1. Abstract!GiveUp(t)
    BY <1>11 DEF Fail, Abstract!GiveUp
  <2>2. QED
    BY <2>1 DEF Abstract!Next
<1>12. QED
  BY <1>1, <1>3, <1>4, <1>5, <1>6, <1>7, <1>8, <1>9, <1>10, <1>11 DEF Next, Run

(***************************************************************************)
(* semaphore.h: every behaviour of the semaphore is one of the abstract    *)
(* semaphore, its liveness aside: a token is taken by a caller that waits, *)
(* and a timed wait fails only at an instant without a token.              *)
(***************************************************************************)
THEOREM RefinesSemaphore == Spec => Abstract!Init /\ [][Abstract!Next]_(Abstract!vars)
  BY TypeCorrect, InitRefines, NextRefines, PTL DEF Spec

-----------------------------------------------------------------------------
(* FastSemaphore.                                                          *)

\* The effects of the inner semaphore's operations.
USE DEF Inner!Init, Inner!Post, Inner!Wait, Inner!Acquire, Inner!Callers

LEMMA FastInitTypeOK == FastInit => FastTypeOK
  BY FastSemaphoreAssumption DEF FastInit, FastTypeOK, FastPlaces, FastAt

LEMMA FastNextTypeOK == FastTypeOK /\ [FastNext]_fast_vars => FastTypeOK'
<1> SUFFICES ASSUME FastTypeOK, [FastNext]_fast_vars PROVE FastTypeOK'
  OBVIOUS
<1> USE DEF FastTypeOK, FastPlaces, FastGo, FastAt
<1>1. CASE UNCHANGED fast_vars
  BY <1>1 DEF fast_vars
<1>2. ASSUME NEW t \in FastThreads, FastPost(t) PROVE FastTypeOK'
  BY <1>2 DEF FastPost
<1>3. ASSUME NEW t \in FastThreads, PostInner(t) PROVE FastTypeOK'
  BY <1>3 DEF PostInner
<1>4. ASSUME NEW t \in FastThreads, FastWaitCall(t) PROVE FastTypeOK'
  BY <1>4 DEF FastWaitCall
<1>5. ASSUME NEW t \in FastThreads, Decrement(t) PROVE FastTypeOK'
  BY <1>5 DEF Decrement
<1>6. ASSUME NEW t \in FastThreads, WakeUp(t) PROVE FastTypeOK'
  BY <1>6 DEF WakeUp
<1>7. QED
  BY <1>1, <1>2, <1>3, <1>4, <1>5, <1>6 DEF FastNext

\* The threads at a place are finitely many, no more than there are threads.
LEMMA FastFiniteAt ==
    \A p : /\ IsFiniteSet(FastAt(p)) /\ Cardinality(FastAt(p)) \in Nat
           /\ Cardinality(FastAt(p)) <= Cardinality(FastThreads)
<1>1. \A p : FastAt(p) \in SUBSET FastThreads
  BY DEF FastAt
<1>2. QED
  BY <1>1, FastSemaphoreAssumption, FS_Subset, FS_CardinalityType

\* Arriving at a place adds one to it, leaving one takes one from it.
LEMMA FastMoves ==
  ASSUME FastTypeOK, NEW t \in FastThreads, NEW from \in FastPlaces, NEW to \in FastPlaces, from # to,
         fast_pc[t] = from, FastGo(t, to)
  PROVE  /\ Cardinality(FastAt(to)') = Cardinality(FastAt(to)) + 1
         /\ Cardinality(FastAt(from)') = Cardinality(FastAt(from)) - 1
         /\ \A p : p # to /\ p # from => FastAt(p)' = FastAt(p)
<1>1. FastAt(from)' = FastAt(from) \ {t} /\ t \in FastAt(from)
  BY DEF FastAt, FastGo, FastTypeOK
<1>2. FastAt(to)' = FastAt(to) \cup {t} /\ t \notin FastAt(to)
  BY DEF FastAt, FastGo, FastTypeOK
<1>3. \A p : p # to /\ p # from => FastAt(p)' = FastAt(p)
  BY DEF FastAt, FastGo, FastTypeOK
<1>4. IsFiniteSet(FastAt(from)) /\ IsFiniteSet(FastAt(to))
  BY FastFiniteAt
<1>5. Cardinality(FastAt(from) \ {t}) = Cardinality(FastAt(from)) - 1
  BY <1>1, <1>4, FS_RemoveElement
<1>6. Cardinality(FastAt(to) \cup {t}) = Cardinality(FastAt(to)) + 1
  BY <1>2, <1>4, FS_AddElement
<1>7. QED
  BY <1>1, <1>2, <1>3, <1>5, <1>6

\* What each action does to the counts that the two results relate.
LEMMA PostCounts ==
  ASSUME FastTypeOK, NEW t \in FastThreads, FastPost(t)
  PROVE  /\ fast_count < FastMaxCount /\ fast_count' = fast_count + 1 /\ inner' = inner
         /\ Cardinality(FastAt("post")') = Cardinality(FastAt("post")) + (IF fast_count < 0 THEN 1 ELSE 0)
         /\ FastAt("sleep")' = FastAt("sleep") /\ FastAt("wait")' = FastAt("wait")
         /\ t \notin FastAt("wait") \cup FastAt("sleep")
<1>0. /\ fast_pc[t] = "idle" /\ fast_count < FastMaxCount /\ fast_count' = fast_count + 1 /\ inner' = inner
      /\ FastGo(t, IF fast_count < 0 THEN "post" ELSE "idle") /\ t \notin FastAt("wait") \cup FastAt("sleep")
  BY DEF FastPost, FastAt
<1>1. CASE fast_count < 0
  <2>1. FastGo(t, "post")
    BY <1>0, <1>1
  <2>2. /\ Cardinality(FastAt("post")') = Cardinality(FastAt("post")) + 1
        /\ FastAt("sleep")' = FastAt("sleep") /\ FastAt("wait")' = FastAt("wait")
    BY <1>0, <2>1, FastMoves DEF FastPlaces
  <2>3. QED
    BY <1>0, <1>1, <2>2
<1>2. CASE ~(fast_count < 0)
  <2>1. fast_pc' = fast_pc
    BY <1>0, <1>2 DEF FastGo, FastTypeOK
  <2>2. \A p : FastAt(p)' = FastAt(p)
    BY <2>1 DEF FastAt
  <2>3. QED
    BY <1>0, <1>2, <2>2, FastFiniteAt
<1>3. QED
  BY <1>1, <1>2

LEMMA PostInnerCounts ==
  ASSUME FastTypeOK, NEW t \in FastThreads, PostInner(t)
  PROVE  /\ fast_count' = fast_count /\ inner' = inner + 1
         /\ Cardinality(FastAt("post")') = Cardinality(FastAt("post")) - 1
         /\ FastAt("sleep")' = FastAt("sleep") /\ FastAt("wait")' = FastAt("wait")
  BY FastMoves DEF PostInner, FastPlaces

LEMMA WaitCounts ==
  ASSUME FastTypeOK, NEW t \in FastThreads, FastWaitCall(t)
  PROVE  /\ fast_count' = fast_count /\ inner' = inner /\ t \notin FastAt("wait") \cup FastAt("sleep")
         /\ FastAt("post")' = FastAt("post") /\ FastAt("sleep")' = FastAt("sleep")
         /\ FastAt("wait")' = FastAt("wait") \cup {t}
  BY DEF FastWaitCall, FastGo, FastAt, FastTypeOK

LEMMA DecrementCounts ==
  ASSUME FastTypeOK, NEW t \in FastThreads, Decrement(t)
  PROVE  /\ fast_count' = fast_count - 1 /\ inner' = inner /\ FastAt("post")' = FastAt("post")
         /\ t \in FastAt("wait") /\ FastAt("wait")' = FastAt("wait") \ {t}
         /\ IF fast_count < 1
              THEN /\ FastAt("sleep")' = FastAt("sleep") \cup {t}
                   /\ Cardinality(FastAt("sleep")') = Cardinality(FastAt("sleep")) + 1
              ELSE FastAt("sleep")' = FastAt("sleep")
<1>1. CASE fast_count < 1
  <2>1. fast_pc[t] = "wait" /\ FastGo(t, "sleep") /\ fast_count' = fast_count - 1 /\ inner' = inner
    BY <1>1 DEF Decrement
  <2>2. Cardinality(FastAt("sleep")') = Cardinality(FastAt("sleep")) + 1
    BY <2>1, FastMoves DEF FastPlaces
  <2>3. /\ FastAt("post")' = FastAt("post") /\ t \in FastAt("wait") /\ FastAt("wait")' = FastAt("wait") \ {t}
        /\ FastAt("sleep")' = FastAt("sleep") \cup {t}
    BY <2>1 DEF FastAt, FastGo, FastTypeOK
  <2>4. QED
    BY <1>1, <2>1, <2>2, <2>3
<1>2. CASE ~(fast_count < 1)
  BY <1>2 DEF Decrement, FastAt, FastGo, FastTypeOK
<1>3. QED
  BY <1>1, <1>2

LEMMA WakeUpCounts ==
  ASSUME FastTypeOK, NEW t \in FastThreads, WakeUp(t)
  PROVE  /\ fast_count' = fast_count /\ inner > 0 /\ inner' = inner - 1
         /\ FastAt("post")' = FastAt("post") /\ FastAt("wait")' = FastAt("wait")
         /\ t \in FastAt("sleep") /\ t \notin FastAt("wait") /\ FastAt("sleep")' = FastAt("sleep") \ {t}
         /\ Cardinality(FastAt("sleep")') = Cardinality(FastAt("sleep")) - 1
<1>1. /\ fast_pc[t] = "sleep" /\ FastGo(t, "idle") /\ fast_count' = fast_count /\ inner > 0 /\ inner' = inner - 1
  BY DEF WakeUp
<1>2. Cardinality(FastAt("sleep")') = Cardinality(FastAt("sleep")) - 1
  BY <1>1, FastMoves DEF FastPlaces
<1>3. QED
  BY <1>1, <1>2 DEF FastAt, FastGo, FastTypeOK
------------------------------------------------------------------------------
LEMMA InitCountMeaning == FastInit => CountMeaning
<1> SUFFICES ASSUME FastInit PROVE CountMeaning
  OBVIOUS
<1>1. FastAt("sleep") = {} /\ FastAt("post") = {} /\ inner = 0 /\ fast_count \in Nat
  BY FastSemaphoreAssumption DEF FastInit, FastAt
<1>2. QED
  BY <1>1, FS_EmptySet DEF CountMeaning, Larger

LEMMA NextCountMeaning == FastTypeOK /\ CountMeaning /\ [FastNext]_fast_vars => CountMeaning'
<1> SUFFICES ASSUME FastTypeOK, CountMeaning, [FastNext]_fast_vars PROVE CountMeaning'
  OBVIOUS
<1>0. /\ Cardinality(FastAt("post")) \in Nat /\ Cardinality(FastAt("sleep")) \in Nat
      /\ fast_count \in Int /\ inner \in Nat
  BY FastFiniteAt DEF FastTypeOK
<1> USE DEF CountMeaning, Larger
<1>1. CASE UNCHANGED fast_vars
  BY <1>1 DEF fast_vars, FastAt
<1>2. ASSUME NEW t \in FastThreads, FastPost(t) PROVE CountMeaning'
  BY <1>0, <1>2, PostCounts
<1>3. ASSUME NEW t \in FastThreads, PostInner(t) PROVE CountMeaning'
  BY <1>0, <1>3, PostInnerCounts
<1>4. ASSUME NEW t \in FastThreads, FastWaitCall(t) PROVE CountMeaning'
  BY <1>0, <1>4, WaitCounts
<1>5. ASSUME NEW t \in FastThreads, Decrement(t) PROVE CountMeaning'
  BY <1>0, <1>5, DecrementCounts
<1>6. ASSUME NEW t \in FastThreads, WakeUp(t) PROVE CountMeaning'
  BY <1>0, <1>6, WakeUpCounts
<1>7. QED
  BY <1>1, <1>2, <1>3, <1>4, <1>5, <1>6 DEF FastNext

(***************************************************************************)
(* The threads inside m_semaphore.wait() are those that could sleep, and   *)
(* the inner semaphore never goes below zero.                              *)
(***************************************************************************)
THEOREM FastTypeCorrect == FastSpec => []FastTypeOK
  BY FastInitTypeOK, FastNextTypeOK, PTL DEF FastSpec

(***************************************************************************)
(* The comment at semaphore.h:97-99: a negative m_count counts the threads *)
(* asleep that no wakeup is on its way to.                                 *)
(***************************************************************************)
THEOREM CountMeansSleepers == FastSpec => []CountMeaning
  BY FastInitTypeOK, FastNextTypeOK, InitCountMeaning, NextCountMeaning, PTL DEF FastSpec
------------------------------------------------------------------------------
(* The refinement. The abstract tokens are Tokens.                         *)

Tokens == Larger(0, fast_count) + inner + Cardinality(FastAt("post"))

LEMMA FastInitRefines == FastInit => FastAbstract!Init
<1> SUFFICES ASSUME FastInit PROVE FastAbstract!Init
  OBVIOUS
<1>1. /\ FastAt("sleep") = {} /\ FastAt("post") = {} /\ FastAt("wait") = {}
      /\ inner = 0 /\ fast_count = FastInitCount /\ FastInitCount \in Nat
  BY FastSemaphoreAssumption DEF FastInit, FastAt
<1>2. QED
  BY <1>1, FS_EmptySet DEF FastAbstract!Init, Larger

LEMMA FastNextRefines ==
  FastTypeOK /\ CountMeaning /\ [FastNext]_fast_vars => [FastAbstract!Next]_(FastAbstract!vars)
<1> SUFFICES ASSUME FastTypeOK, CountMeaning, [FastNext]_fast_vars
             PROVE  FastAbstract!Next \/ UNCHANGED (FastAbstract!vars)
  OBVIOUS
<1>0. /\ Cardinality(FastAt("post")) \in Nat /\ Cardinality(FastAt("sleep")) \in Nat
      /\ Cardinality(FastAt("sleep")) <= Cardinality(FastThreads) /\ Cardinality(FastThreads) \in Nat
      /\ fast_count \in Int /\ inner \in Nat
  BY FastFiniteAt, FastSemaphoreAssumption, FS_CardinalityType DEF FastTypeOK
<1> USE DEF Larger
<1>1. CASE UNCHANGED fast_vars
  BY <1>1 DEF fast_vars, FastAt, FastAbstract!vars
<1>2. ASSUME NEW t \in FastThreads, FastPost(t) PROVE FastAbstract!Next
  <2>1. Tokens' = Tokens + 1
    BY <1>0, <1>2, PostCounts DEF Tokens
  <2>2. Tokens + 1 <= FastMaxCount + Cardinality(FastThreads)
    BY <1>0, <1>2, PostCounts, FastSemaphoreAssumption DEF Tokens, CountMeaning
  <2>3. FastAbstract!Post(t, 1)
    BY <1>2, <2>1, <2>2, PostCounts DEF FastAbstract!Post, FastAbstract!Callers, Tokens
  <2>4. QED
    BY <2>3 DEF FastAbstract!Next
<1>3. ASSUME NEW t \in FastThreads, PostInner(t) PROVE UNCHANGED (FastAbstract!vars)
  BY <1>0, <1>3, PostInnerCounts DEF FastAbstract!vars
<1>4. ASSUME NEW t \in FastThreads, FastWaitCall(t) PROVE FastAbstract!Next
  <2>1. FastAbstract!Wait(t)
    BY <1>4, WaitCounts DEF FastAbstract!Wait, FastAbstract!Callers
  <2>2. QED
    BY <2>1 DEF FastAbstract!Next
<1>5. ASSUME NEW t \in FastThreads, Decrement(t) PROVE FastAbstract!Next \/ UNCHANGED (FastAbstract!vars)
  <2>1. CASE fast_count < 1
    BY <1>0, <1>5, <2>1, DecrementCounts DEF FastAbstract!vars
  <2>2. CASE ~(fast_count < 1)
    <3>1. Tokens > 0 /\ Tokens' = Tokens - 1
      BY <1>0, <1>5, <2>2, DecrementCounts DEF Tokens
    <3>2. t \notin FastAt("sleep")
      BY <1>5, DecrementCounts DEF FastAt
    <3>3. FastAbstract!Acquire(t)
      BY <1>5, <2>2, <3>1, <3>2, DecrementCounts DEF FastAbstract!Acquire, FastAbstract!Callers, Tokens
    <3>4. QED
      BY <3>3 DEF FastAbstract!Next
  <2>3. QED
    BY <2>1, <2>2
<1>6. ASSUME NEW t \in FastThreads, WakeUp(t) PROVE FastAbstract!Next
  <2>1. Tokens > 0 /\ Tokens' = Tokens - 1
    BY <1>0, <1>6, WakeUpCounts DEF Tokens
  <2>2. FastAbstract!Acquire(t)
    BY <1>6, <2>1, WakeUpCounts DEF FastAbstract!Acquire, FastAbstract!Callers, Tokens
  <2>3. QED
    BY <2>2 DEF FastAbstract!Next
<1>7. QED
  BY <1>1, <1>2, <1>3, <1>4, <1>5, <1>6 DEF FastNext

(***************************************************************************)
(* Every behaviour of FastSemaphore is one of the abstract semaphore, its  *)
(* liveness aside.                                                         *)
(***************************************************************************)
THEOREM FastRefinesSemaphore == FastSpec => FastAbstract!Init /\ [][FastAbstract!Next]_(FastAbstract!vars)
<1>1. FastSpec => [](FastTypeOK /\ CountMeaning)
  BY FastTypeCorrect, CountMeansSleepers, PTL
<1>2. QED
  BY <1>1, FastInitRefines, FastNextRefines, PTL DEF FastSpec
------------------------------------------------------------------------------
(***************************************************************************)
(* The simple pool. What was submitted is in one place at a time until it  *)
(* has been run, the destructor returns only when all of it has been, and  *)
(* the pool takes the steps of AbstractPool.                               *)
(***************************************************************************)

(***************************************************************************)
(* The three places of a task between its submission and its end.          *)
(***************************************************************************)
Pushing(c, t) == op[c] = "push" /\ item[c] = t
Queued(i, t) == queue[i] = t
Running(w, t) == place[w] = "run" /\ task[w] = t

Pushed(t) == \E c \in SimpleThreads : Pushing(c, t)
Waiting(t) == \E i \in 1..Len(queue) : Queued(i, t)
Held(t) == \E w \in Workers : Running(w, t)

(***************************************************************************)
(* Each task is in one place at most, once, and in one of them or finished *)
(* exactly if it was submitted.                                            *)
(***************************************************************************)
OnePlace ==
    /\ \A t \in Tasks : \A c, d \in SimpleThreads : Pushing(c, t) /\ Pushing(d, t) => c = d
    /\ \A t \in Tasks : \A i, j \in 1..Len(queue) : Queued(i, t) /\ Queued(j, t) => i = j
    /\ \A t \in Tasks : \A v, w \in Workers : Running(v, t) /\ Running(w, t) => v = w
    /\ \A t \in Tasks : Pushed(t) => ~Waiting(t) /\ ~Held(t) /\ runs[t] = 0
    /\ \A t \in Tasks : Waiting(t) => ~Held(t) /\ runs[t] = 0
    /\ \A t \in Tasks : Held(t) => runs[t] = 0

Accounted ==
    \A t \in Tasks : t \in submitted <=> Pushed(t) \/ Waiting(t) \/ Held(t) \/ runs[t] = 1

(***************************************************************************)
(* Which calls the threads are in, and how far the destructor is: the      *)
(* queue is closed by nobody else, and it is not left before it is empty.  *)
(***************************************************************************)
Calls ==
    /\ op[Owner] \in {"idle", "done"} /\ (op[Owner] = "done" => phase = "closing")
    /\ \A c \in Clients : op[c] \in {"idle", "push"} /\ (op[c] = "push" => phase = "open")
    /\ \A w \in Workers : /\ op[w] \in {"idle", "pop", "push"}
                          /\ op[w] = "pop" => place[w] = "loop"
                          /\ op[w] = "push" => place[w] = "run"
    /\ \A c \in SimpleThreads : op[c] = "push" => item[c] \in Tasks

Closing ==
    /\ done => phase \in {"closing", "destroyed"}
    /\ \A w \in Workers : place[w] = "exited" => done
    /\ queue # <<>> => \E w \in Workers : place[w] # "exited"
    /\ phase = "destroyed" => \A w \in Workers : place[w] = "exited"

IInv == SimpleTypeOK /\ Calls /\ Closing /\ OnePlace /\ Accounted
------------------------------------------------------------------------------
LEMMA InitIInv == SimpleInit => IInv
<1> SUFFICES ASSUME SimpleInit PROVE IInv
  OBVIOUS
<1>1. SimpleTypeOK
  <2>1. queue \in Seq(Tasks)
    BY DEF SimpleInit, Queue!Init
  <2>2. runs \in [Tasks -> 0..1]
    BY DEF SimpleInit
  <2>3. op \in [SimpleThreads -> Queue!Ops] /\ item \in [SimpleThreads -> Tasks \cup {NoTask}]
    BY DEF SimpleInit, Queue!Init, Queue!Ops
  <2>4. QED
    BY <2>1, <2>2, <2>3 DEF SimpleInit, Queue!Init, SimpleTypeOK
<1>2. Calls
  BY DEF SimpleInit, Queue!Init, Calls, SimpleThreads
<1>3. Closing
  BY DEF SimpleInit, Queue!Init, Closing
<1>4. OnePlace /\ Accounted
  <2>1. Len(queue) = 0
    BY DEF SimpleInit, Queue!Init
  <2>2. QED
    BY <2>1 DEF SimpleInit, Queue!Init, OnePlace, Accounted, Pushed, Waiting, Held, Pushing, Queued, Running
<1>5. QED
  BY <1>1, <1>2, <1>3, <1>4 DEF IInv
------------------------------------------------------------------------------
LEMMA SimpleNextTypeOK == ASSUME IInv, SimpleNext PROVE SimpleTypeOK'
<1> USE DEF IInv, Queue!Ops
<1>1. ASSUME NEW w \in Workers, StartWorker(w) PROVE SimpleTypeOK'
  BY <1>1 DEF StartWorker, SimpleTypeOK, qvars
<1>2. ASSUME NEW w \in Workers, CallPop(w) PROVE SimpleTypeOK'
  BY <1>2 DEF CallPop, Queue!Call, Queue!Enter, SimpleTypeOK, SimpleThreads
<1>3. ASSUME NEW w \in Workers, GetTask(w) PROVE SimpleTypeOK'
  <2>1. queue \in Seq(Tasks) /\ queue # <<>>
    BY <1>3 DEF GetTask, Queue!Take, SimpleTypeOK
  <2>2. Head(queue) \in Tasks /\ Tail(queue) \in Seq(Tasks)
    BY <2>1
  <2>3. QED
    BY <1>3, <2>2 DEF GetTask, Queue!Take, Queue!Leave, SimpleTypeOK, SimpleThreads
<1>4. ASSUME NEW w \in Workers, Finish(w) PROVE SimpleTypeOK'
  <2>1. task[w] \in Tasks /\ Running(w, task[w])
    BY <1>4 DEF Finish, SimpleTypeOK, Running
  <2>2. runs[task[w]] = 0
    BY <2>1 DEF OnePlace, Held
  <2>3. runs' \in [Tasks -> 0..1]
    BY <1>4, <2>1, <2>2 DEF Finish, SimpleTypeOK
  <2>4. QED
    BY <1>4, <2>3 DEF Finish, SimpleTypeOK, qvars
<1>5. ASSUME NEW w \in Workers, Exit(w) PROVE SimpleTypeOK'
  <2>1. place[w] = "loop"
    BY <1>5 DEF Exit, Queue!PopFails, Calls
  <2>2. QED
    BY <1>5, <2>1 DEF Exit, Queue!PopFails, Queue!Leave, SimpleTypeOK, SimpleThreads
<1>6. ASSUME NEW c \in Workers \cup Clients, Insert(c) PROVE SimpleTypeOK'
  <2>1. item[c] \in Tasks /\ queue \in Seq(Tasks)
    BY <1>6 DEF Insert, Queue!Insert, Calls, SimpleThreads, SimpleTypeOK
  <2>2. Append(queue, item[c]) \in Seq(Tasks)
    BY <2>1
  <2>3. QED
    BY <1>6, <2>2 DEF Insert, Queue!Insert, Queue!Leave, SimpleTypeOK, SimpleThreads
<1>7. ASSUME NEW c \in Workers \cup Clients, NEW t \in Tasks, Submit(c, t) PROVE SimpleTypeOK'
  BY <1>7 DEF Submit, Queue!Push, Queue!Enter, SimpleTypeOK, SimpleThreads
<1>8. ASSUME Constructed PROVE SimpleTypeOK'
  BY <1>8 DEF Constructed, SimpleTypeOK, qvars
<1>9. ASSUME CallDone PROVE SimpleTypeOK'
  BY <1>9 DEF CallDone, Queue!Call, Queue!Enter, SimpleTypeOK, SimpleThreads
<1>10. ASSUME Close PROVE SimpleTypeOK'
  BY <1>10 DEF Close, Queue!Close, Queue!Leave, SimpleTypeOK, SimpleThreads
<1>11. ASSUME Join PROVE SimpleTypeOK'
  BY <1>11 DEF Join, SimpleTypeOK, qvars
<1>12. QED
  BY <1>1, <1>2, <1>3, <1>4, <1>5, <1>6, <1>7, <1>8, <1>9, <1>10, <1>11 DEF SimpleNext

LEMMA NextCalls == ASSUME IInv, SimpleNext PROVE Calls'
<1> USE PoolAssumption DEF IInv, SimpleThreads
<1>1. ASSUME NEW w \in Workers, StartWorker(w) PROVE Calls'
  BY <1>1 DEF StartWorker, SimpleTypeOK, Calls, qvars
<1>2. ASSUME NEW w \in Workers, CallPop(w) PROVE Calls'
  BY <1>2 DEF CallPop, Queue!Call, Queue!Enter, SimpleTypeOK, Calls
<1>3. ASSUME NEW w \in Workers, GetTask(w) PROVE Calls'
  BY <1>3 DEF GetTask, Queue!Take, Queue!Leave, SimpleTypeOK, Calls
<1>4. ASSUME NEW w \in Workers, Finish(w) PROVE Calls'
  BY <1>4 DEF Finish, SimpleTypeOK, Calls, qvars
<1>5. ASSUME NEW w \in Workers, Exit(w) PROVE Calls'
  BY <1>5 DEF Exit, Queue!PopFails, Queue!Leave, SimpleTypeOK, Calls
<1>6. ASSUME NEW c \in Workers \cup Clients, Insert(c) PROVE Calls'
  BY <1>6 DEF Insert, Queue!Insert, Queue!Leave, SimpleTypeOK, Calls
<1>7. ASSUME NEW c \in Workers \cup Clients, NEW t \in Tasks, Submit(c, t) PROVE Calls'
  BY <1>7 DEF Submit, Queue!Push, Queue!Enter, SimpleTypeOK, Calls
<1>8. ASSUME Constructed PROVE Calls'
  BY <1>8 DEF Constructed, SimpleTypeOK, Calls, qvars
<1>9. ASSUME CallDone PROVE Calls'
  BY <1>9 DEF CallDone, Queue!Call, Queue!Enter, SimpleTypeOK, Calls
<1>10. ASSUME Close PROVE Calls'
  BY <1>10 DEF Close, Queue!Close, Queue!Leave, SimpleTypeOK, Calls
<1>11. ASSUME Join PROVE Calls'
  BY <1>11 DEF Join, SimpleTypeOK, Calls, qvars
<1>12. QED
  BY <1>1, <1>2, <1>3, <1>4, <1>5, <1>6, <1>7, <1>8, <1>9, <1>10, <1>11 DEF SimpleNext

\* Nobody leaves before the queue is empty, so whoever pushes is still there.
LEMMA NextClosing == ASSUME IInv, SimpleNext PROVE Closing'
<1> USE PoolAssumption DEF IInv, SimpleThreads
<1>1. ASSUME NEW w \in Workers, StartWorker(w) PROVE Closing'
  BY <1>1 DEF StartWorker, SimpleTypeOK, Closing, qvars
<1>2. ASSUME NEW w \in Workers, CallPop(w) PROVE Closing'
  BY <1>2 DEF CallPop, Queue!Call, SimpleTypeOK, Closing
<1>3. ASSUME NEW w \in Workers, GetTask(w) PROVE Closing'
  <2>1. place' = [place EXCEPT ![w] = "run"] /\ done' = done /\ phase' = phase
    BY <1>3 DEF GetTask, Queue!Take
  <2>2. place[w] = "loop"
    BY <1>3 DEF GetTask, Queue!Take, Calls, SimpleTypeOK
  <2>3. QED
    BY <2>1, <2>2 DEF SimpleTypeOK, Closing
<1>4. ASSUME NEW w \in Workers, Finish(w) PROVE Closing'
  BY <1>4 DEF Finish, SimpleTypeOK, Closing, qvars
<1>5. ASSUME NEW w \in Workers, Exit(w) PROVE Closing'
  BY <1>5 DEF Exit, Queue!PopFails, SimpleTypeOK, Closing
<1>6. ASSUME NEW c \in Workers \cup Clients, Insert(c) PROVE Closing'
  <2>1. op[c] = "push" /\ place' = place /\ done' = done /\ phase' = phase
    BY <1>6 DEF Insert, Queue!Insert
  <2>2. \E w \in Workers : place[w] # "exited"
    BY <2>1 DEF Calls, Closing
  <2>3. QED
    BY <2>1, <2>2 DEF Closing
<1>7. ASSUME NEW c \in Workers \cup Clients, NEW t \in Tasks, Submit(c, t) PROVE Closing'
  BY <1>7 DEF Submit, Queue!Push, Closing
<1>8. ASSUME Constructed PROVE Closing'
  BY <1>8 DEF Constructed, Closing, qvars
<1>9. ASSUME CallDone PROVE Closing'
  BY <1>9 DEF CallDone, Queue!Call, Closing
<1>10. ASSUME Close PROVE Closing'
  BY <1>10 DEF Close, Queue!Close, Calls, Closing
<1>11. ASSUME Join PROVE Closing'
  BY <1>11 DEF Join, Closing, qvars
<1>12. QED
  BY <1>1, <1>2, <1>3, <1>4, <1>5, <1>6, <1>7, <1>8, <1>9, <1>10, <1>11 DEF SimpleNext
------------------------------------------------------------------------------
\* Most steps move no task.
LEMMA SamePlaces ==
    ASSUME OnePlace, Accounted,
           queue' = queue, runs' = runs, submitted' = submitted,
           \A c \in SimpleThreads, t \in Tasks : Pushing(c, t)' <=> Pushing(c, t),
           \A w \in Workers, t \in Tasks : Running(w, t)' <=> Running(w, t)
    PROVE  (OnePlace /\ Accounted)'
<1>1. \A i, t : Queued(i, t)' <=> Queued(i, t)
  BY DEF Queued
<1>2. \A t \in Tasks : /\ Pushed(t)' <=> Pushed(t)
                       /\ Waiting(t)' <=> Waiting(t)
                       /\ Held(t)' <=> Held(t)
  BY <1>1 DEF Pushed, Waiting, Held
<1>3. QED
  BY <1>1, <1>2 DEF OnePlace, Accounted

\* A submitted task is new: it is nowhere yet, and then with its pusher.
LEMMA SubmitPlaces ==
    ASSUME IInv, NEW c \in Workers \cup Clients, NEW t \in Tasks, Submit(c, t)
    PROVE  (OnePlace /\ Accounted)'
<1> USE DEF IInv
<1>1. /\ c \in SimpleThreads /\ op[c] = "idle"
      /\ op' = [op EXCEPT ![c] = "push"] /\ item' = [item EXCEPT ![c] = t]
      /\ queue' = queue /\ runs' = runs /\ submitted' = submitted \cup {t}
      /\ place' = place /\ task' = task /\ t \notin submitted
  BY DEF Submit, Queue!Push, Queue!Enter, SimpleThreads
<1>2. ~Pushed(t) /\ ~Waiting(t) /\ ~Held(t) /\ runs[t] = 0
  BY <1>1 DEF Accounted, SimpleTypeOK
<1>3. \A d \in SimpleThreads, u \in Tasks :
        Pushing(d, u)' <=> Pushing(d, u) \/ (d = c /\ u = t)
  BY <1>1 DEF Pushing, SimpleTypeOK
<1>4. \A i, u : Queued(i, u)' <=> Queued(i, u)
  BY <1>1 DEF Queued
<1>5. \A w, u : Running(w, u)' <=> Running(w, u)
  BY <1>1 DEF Running
<1>6. \A u \in Tasks : /\ Pushed(u)' <=> Pushed(u) \/ u = t
                       /\ Waiting(u)' <=> Waiting(u)
                       /\ Held(u)' <=> Held(u)
  BY <1>1, <1>3, <1>4, <1>5 DEF Pushed, Waiting, Held
<1>7. OnePlace'
  <2>1. \A u \in Tasks : \A d, e \in SimpleThreads : Pushing(d, u)' /\ Pushing(e, u)' => d = e
    BY <1>2, <1>3 DEF OnePlace, Pushed
  <2>2. QED
    BY <2>1, <1>1, <1>2, <1>4, <1>5, <1>6 DEF OnePlace
<1>8. Accounted'
  BY <1>1, <1>6 DEF Accounted
<1>9. QED
  BY <1>7, <1>8

\* The task that was pushed is the new last of the queue.
LEMMA InsertPlaces ==
    ASSUME IInv, NEW c \in Workers \cup Clients, Insert(c)
    PROVE  (OnePlace /\ Accounted)'
<1> USE DEF IInv
<1> DEFINE x == item[c]
<1>1. /\ c \in SimpleThreads /\ op[c] = "push" /\ x \in Tasks
      /\ op' = [op EXCEPT ![c] = "idle"] /\ queue' = Append(queue, x)
      /\ runs' = runs /\ submitted' = submitted
      /\ place' = place /\ task' = task
      /\ item' = [item EXCEPT ![c] = NoTask]
  BY DEF Insert, Queue!Insert, Queue!Leave, SimpleThreads, Calls
<1> HIDE DEF x
<1>2. Pushing(c, x)
  BY <1>1 DEF Pushing, x
<1>3. Pushed(x) /\ ~Waiting(x) /\ ~Held(x) /\ runs[x] = 0
  BY <1>1, <1>2 DEF Pushed, OnePlace
<1>4. \A d \in SimpleThreads, u \in Tasks : Pushing(d, u)' <=> Pushing(d, u) /\ d # c
  BY <1>1 DEF Pushing, SimpleTypeOK
<1>5. \A u \in Tasks : Pushed(u)' <=> Pushed(u) /\ u # x
  <2>1. \A d \in SimpleThreads : Pushing(d, x) => d = c
    BY <1>1, <1>2 DEF OnePlace
  <2>2. \A u \in Tasks : Pushing(c, u) => u = x
    BY DEF Pushing, x
  <2>3. QED
    BY <2>1, <2>2, <1>4 DEF Pushed
<1>6. Len(queue) \in Nat /\ Len(queue') = Len(queue) + 1
  BY <1>1 DEF SimpleTypeOK
<1>7. \A i \in 1..Len(queue'), u \in Tasks :
        Queued(i, u)' <=> IF i = Len(queue) + 1 THEN u = x ELSE Queued(i, u)
  BY <1>1, <1>6 DEF Queued, SimpleTypeOK
<1>8. \A u \in Tasks : Waiting(u)' <=> Waiting(u) \/ u = x
  <2>1. ASSUME NEW u \in Tasks, Waiting(u)' PROVE Waiting(u) \/ u = x
    BY <2>1, <1>6, <1>7 DEF Waiting
  <2>2. ASSUME NEW u \in Tasks, Waiting(u) \/ u = x PROVE Waiting(u)'
    <3>1. PICK i \in 1..Len(queue') : Queued(i, u)'
      BY <2>2, <1>6, <1>7 DEF Waiting
    <3>2. QED
      BY <3>1 DEF Waiting
  <2>3. QED
    BY <2>1, <2>2
<1>9. \A w, u : Running(w, u)' <=> Running(w, u)
  BY <1>1 DEF Running
<1>10. \A u \in Tasks : Held(u)' <=> Held(u)
  BY <1>9 DEF Held
<1>11. OnePlace'
  <2>1. ASSUME NEW u \in Tasks, NEW i \in 1..Len(queue'), NEW j \in 1..Len(queue'),
               Queued(i, u)', Queued(j, u)'
        PROVE  i = j
    <3>1. CASE u = x
      BY <3>1, <2>1, <1>3, <1>6, <1>7 DEF Waiting
    <3>2. CASE u # x
      BY <3>2, <2>1, <1>6, <1>7 DEF OnePlace
    <3>3. QED
      BY <3>1, <3>2
  <2>2. \A u \in Tasks : \A d, e \in SimpleThreads : Pushing(d, u)' /\ Pushing(e, u)' => d = e
    BY <1>4 DEF OnePlace
  <2>3. \A u \in Tasks : \A v, w \in Workers : Running(v, u)' /\ Running(w, u)' => v = w
    BY <1>9 DEF OnePlace
  <2>4. \A u \in Tasks : /\ Pushed(u)' => ~Waiting(u)' /\ ~Held(u)' /\ runs'[u] = 0
                         /\ Waiting(u)' => ~Held(u)' /\ runs'[u] = 0
                         /\ Held(u)' => runs'[u] = 0
    BY <1>1, <1>3, <1>5, <1>8, <1>10 DEF OnePlace
  <2>5. QED
    BY <2>1, <2>2, <2>3, <2>4 DEF OnePlace
<1>12. Accounted'
  BY <1>1, <1>3, <1>5, <1>8, <1>10 DEF Accounted
<1>13. QED
  BY <1>11, <1>12

\* The first of the queue goes to the worker.
LEMMA GetTaskPlaces ==
    ASSUME IInv, NEW w \in Workers, GetTask(w)
    PROVE  (OnePlace /\ Accounted)'
<1> USE DEF IInv
<1> DEFINE x == Head(queue)
<1>1. /\ w \in SimpleThreads /\ op[w] = "pop" /\ place[w] = "loop"
      /\ op' = [op EXCEPT ![w] = "idle"] /\ item' = [item EXCEPT ![w] = x]
      /\ queue # <<>> /\ queue' = Tail(queue)
      /\ runs' = runs /\ submitted' = submitted
      /\ place' = [place EXCEPT ![w] = "run"] /\ task' = [task EXCEPT ![w] = x]
  BY DEF GetTask, Queue!Take, Queue!Leave, SimpleThreads, Calls, SimpleTypeOK
<1>2. /\ Len(queue) \in Nat \ {0} /\ x = queue[1] /\ x \in Tasks
      /\ Len(queue') = Len(queue) - 1
      /\ \A i \in 1..Len(queue') : queue'[i] = queue[i + 1]
  BY <1>1 DEF SimpleTypeOK
<1> HIDE DEF x
<1>3. Queued(1, x) /\ Waiting(x)
  BY <1>2 DEF Queued, Waiting
<1>4. ~Pushed(x) /\ ~Held(x) /\ runs[x] = 0
  BY <1>2, <1>3 DEF OnePlace
<1>5. \A d \in SimpleThreads, u \in Tasks : Pushing(d, u)' <=> Pushing(d, u)
  BY <1>1 DEF Pushing, SimpleTypeOK
<1>6. \A i \in 1..Len(queue'), u \in Tasks : Queued(i, u)' <=> Queued(i + 1, u)
  BY <1>2 DEF Queued
<1>7. \A v \in Workers, u \in Tasks : Running(v, u)' <=> Running(v, u) \/ (v = w /\ u = x)
  BY <1>1 DEF Running, SimpleTypeOK
<1>8. \A u \in Tasks : Pushed(u)' <=> Pushed(u)
  BY <1>5 DEF Pushed
<1>9. \A u \in Tasks : Waiting(u)' <=> Waiting(u) /\ u # x
  <2>1. ASSUME NEW u \in Tasks, Waiting(u)' PROVE Waiting(u) /\ u # x
    <3>1. PICK i \in 1..Len(queue') : Queued(i, u)'
      BY <2>1 DEF Waiting
    <3>2. Queued(i + 1, u) /\ i + 1 \in 1..Len(queue) /\ i + 1 # 1
      BY <3>1, <1>2, <1>6
    <3>3. 1 \in 1..Len(queue)
      BY <1>2
    <3>4. QED
      BY <3>2, <3>3, <1>3 DEF Waiting, OnePlace
  <2>2. ASSUME NEW u \in Tasks, Waiting(u), u # x PROVE Waiting(u)'
    <3>1. PICK i \in 1..Len(queue) : Queued(i, u)
      BY <2>2 DEF Waiting
    <3>2. i # 1
      BY <3>1, <2>2, <1>2 DEF Queued
    <3>3. i - 1 \in 1..Len(queue') /\ (i - 1) + 1 = i
      BY <3>2, <1>2
    <3>4. Queued(i - 1, u)'
      BY <3>1, <3>3, <1>6
    <3>5. QED
      BY <3>3, <3>4 DEF Waiting
  <2>3. QED
    BY <2>1, <2>2
<1>10. \A u \in Tasks : Held(u)' <=> Held(u) \/ u = x
  BY <1>7 DEF Held
<1>11. OnePlace'
  <2>1. ASSUME NEW u \in Tasks, NEW i \in 1..Len(queue'), NEW j \in 1..Len(queue'),
               Queued(i, u)', Queued(j, u)'
        PROVE  i = j
    <3>1. Queued(i + 1, u) /\ Queued(j + 1, u)
      BY <2>1, <1>6
    <3>2. i + 1 \in 1..Len(queue) /\ j + 1 \in 1..Len(queue)
      BY <1>2
    <3>3. i + 1 = j + 1
      BY <3>1, <3>2 DEF OnePlace
    <3>4. QED
      BY <3>3, <1>2
  <2>2. \A u \in Tasks : \A d, e \in SimpleThreads : Pushing(d, u)' /\ Pushing(e, u)' => d = e
    BY <1>5 DEF OnePlace
  <2>3. \A u \in Tasks : \A v1, v2 \in Workers : Running(v1, u)' /\ Running(v2, u)' => v1 = v2
    BY <1>4, <1>7 DEF OnePlace, Held
  <2>4. \A u \in Tasks : /\ Pushed(u)' => ~Waiting(u)' /\ ~Held(u)' /\ runs'[u] = 0
                         /\ Waiting(u)' => ~Held(u)' /\ runs'[u] = 0
                         /\ Held(u)' => runs'[u] = 0
    BY <1>1, <1>4, <1>8, <1>9, <1>10 DEF OnePlace
  <2>5. QED
    BY <2>1, <2>2, <2>3, <2>4 DEF OnePlace
<1>12. Accounted'
  BY <1>1, <1>2, <1>3, <1>8, <1>9, <1>10 DEF Accounted
<1>13. QED
  BY <1>11, <1>12

\* The task that ends was held by this worker alone, and not run before.
LEMMA FinishPlaces ==
    ASSUME IInv, NEW w \in Workers, Finish(w)
    PROVE  (OnePlace /\ Accounted)'
<1> USE DEF IInv
<1> DEFINE x == task[w]
<1>1. /\ place[w] = "run" /\ x \in Tasks
      /\ queue' = queue /\ op' = op /\ item' = item /\ submitted' = submitted
      /\ runs' = [runs EXCEPT ![x] = @ + 1]
      /\ place' = [place EXCEPT ![w] = "loop"] /\ task' = [task EXCEPT ![w] = NoTask]
  BY DEF Finish, SimpleTypeOK, qvars
<1>2. Running(w, x) /\ Held(x)
  BY <1>1 DEF Running, Held
<1> HIDE DEF x
<1>3. ~Pushed(x) /\ ~Waiting(x) /\ runs[x] = 0
  BY <1>1, <1>2 DEF OnePlace
<1>4. \A u \in Tasks : runs'[u] = IF u = x THEN 1 ELSE runs[u]
  BY <1>1, <1>3 DEF SimpleTypeOK
<1>5. \A d, u : Pushing(d, u)' <=> Pushing(d, u)
  BY <1>1 DEF Pushing
<1>6. \A i, u : Queued(i, u)' <=> Queued(i, u)
  BY <1>1 DEF Queued
<1>7. \A v \in Workers, u \in Tasks : Running(v, u)' <=> Running(v, u) /\ v # w
  BY <1>1 DEF Running, SimpleTypeOK
<1>8. \A u \in Tasks : (Pushed(u)' <=> Pushed(u)) /\ (Waiting(u)' <=> Waiting(u))
  BY <1>1, <1>5, <1>6 DEF Pushed, Waiting
<1>9. \A u \in Tasks : Held(u)' <=> Held(u) /\ u # x
  <2>1. \A v \in Workers : Running(v, x) => v = w
    BY <1>1, <1>2 DEF OnePlace
  <2>2. \A u \in Tasks : Running(w, u) => u = x
    BY DEF Running, x
  <2>3. QED
    BY <2>1, <2>2, <1>7 DEF Held
<1>10. OnePlace'
  <2>1. \A u \in Tasks : \A v1, v2 \in Workers : Running(v1, u)' /\ Running(v2, u)' => v1 = v2
    BY <1>7 DEF OnePlace
  <2>2. \A u \in Tasks : /\ Pushed(u)' => ~Waiting(u)' /\ ~Held(u)' /\ runs'[u] = 0
                         /\ Waiting(u)' => ~Held(u)' /\ runs'[u] = 0
                         /\ Held(u)' => runs'[u] = 0
    BY <1>3, <1>4, <1>8, <1>9 DEF OnePlace
  <2>3. QED
    BY <2>1, <2>2, <1>1, <1>5, <1>6 DEF OnePlace
<1>11. Accounted'
  BY <1>1, <1>2, <1>3, <1>4, <1>8, <1>9 DEF Accounted
<1>12. QED
  BY <1>10, <1>11

LEMMA NextPlaces == ASSUME IInv, SimpleNext PROVE (OnePlace /\ Accounted)'
<1> USE DEF IInv, SimpleThreads
<1>1. ASSUME NEW w \in Workers, StartWorker(w) PROVE (OnePlace /\ Accounted)'
  BY <1>1, SamePlaces DEF StartWorker, qvars, SimpleTypeOK, Pushing, Running
<1>2. ASSUME NEW w \in Workers, CallPop(w) PROVE (OnePlace /\ Accounted)'
  BY <1>2, SamePlaces DEF CallPop, Queue!Call, Queue!Enter, SimpleTypeOK, Pushing, Running
<1>3. ASSUME NEW w \in Workers, GetTask(w) PROVE (OnePlace /\ Accounted)'
  BY <1>3, GetTaskPlaces
<1>4. ASSUME NEW w \in Workers, Finish(w) PROVE (OnePlace /\ Accounted)'
  BY <1>4, FinishPlaces
<1>5. ASSUME NEW w \in Workers, Exit(w) PROVE (OnePlace /\ Accounted)'
  BY <1>5, SamePlaces DEF Exit, Queue!PopFails, Queue!Leave, Calls, SimpleTypeOK, Pushing, Running
<1>6. ASSUME NEW c \in Workers \cup Clients, Insert(c) PROVE (OnePlace /\ Accounted)'
  BY <1>6, InsertPlaces
<1>7. ASSUME NEW c \in Workers \cup Clients, NEW t \in Tasks, Submit(c, t)
      PROVE (OnePlace /\ Accounted)'
  BY <1>7, SubmitPlaces
<1>8. ASSUME Constructed PROVE (OnePlace /\ Accounted)'
  BY <1>8, SamePlaces DEF Constructed, qvars, Pushing, Running
<1>9. ASSUME CallDone PROVE (OnePlace /\ Accounted)'
  BY <1>9, SamePlaces DEF CallDone, Queue!Call, Queue!Enter, SimpleTypeOK, Pushing, Running
<1>10. ASSUME Close PROVE (OnePlace /\ Accounted)'
  BY <1>10, SamePlaces DEF Close, Queue!Close, Queue!Leave, SimpleTypeOK, Pushing, Running
<1>11. ASSUME Join PROVE (OnePlace /\ Accounted)'
  BY <1>11, SamePlaces DEF Join, qvars, Pushing, Running
<1>12. QED
  BY <1>1, <1>2, <1>3, <1>4, <1>5, <1>6, <1>7, <1>8, <1>9, <1>10, <1>11 DEF SimpleNext

LEMMA StutterIInv == ASSUME IInv, UNCHANGED simple_vars PROVE IInv'
<1>1. UNCHANGED <<queue, done, op, item, place, task, submitted, phase, runs>>
  BY DEF simple_vars, qvars
<1>2. SimpleTypeOK' /\ Calls' /\ Closing'
  BY <1>1 DEF IInv, SimpleTypeOK, Calls, Closing
<1>3. (OnePlace /\ Accounted)'
  BY <1>1, SamePlaces DEF IInv, Pushing, Running
<1>4. QED
  BY <1>2, <1>3 DEF IInv

LEMMA Inductive == SimpleSpec => []IInv
<1>1. IInv /\ [SimpleNext]_simple_vars => IInv'
  BY SimpleNextTypeOK, NextCalls, NextClosing, NextPlaces, StutterIInv DEF IInv
<1>2. QED
  BY InitIInv, <1>1, PTL DEF SimpleSpec
------------------------------------------------------------------------------
(***************************************************************************)
(* Every state is of the declared types; in particular no task is run more *)
(* than once, with however many workers.                                   *)
(***************************************************************************)
THEOREM SimpleTypeCorrect == SimpleSpec => []SimpleTypeOK
<1>1. IInv => SimpleTypeOK
  BY DEF IInv
<1>2. QED
  BY Inductive, <1>1, PTL

\* When all have left, nothing is being pushed, queued or run.
LEMMA AllLeft ==
    ASSUME IInv, \A w \in Workers : place[w] = "exited", phase # "open"
    PROVE  \A t \in Tasks : ~Pushed(t) /\ ~Waiting(t) /\ ~Held(t)
<1> USE DEF IInv
<1>1. queue = <<>>
  BY DEF Closing
<1>2. Len(queue) = 0
  BY <1>1
<1>3. \A c \in SimpleThreads : op[c] # "push"
  BY PoolAssumption DEF Calls, SimpleThreads
<1>4. QED
  BY <1>2, <1>3 DEF Pushed, Pushing, Waiting, Held, Running

(***************************************************************************)
(* pool.h:41: when the destructor has returned every submitted task has    *)
(* been run, those included that tasks submitted while it waited.          *)
(***************************************************************************)
THEOREM AllAreRun == SimpleSpec => []AllRunWhenDestroyed
<1>1. ASSUME IInv PROVE AllRunWhenDestroyed
  <2>1. SUFFICES ASSUME phase = "destroyed" PROVE \A t \in submitted : runs[t] = 1
    BY DEF AllRunWhenDestroyed
  <2>2. \A w \in Workers : place[w] = "exited"
    BY <1>1, <2>1 DEF IInv, Closing
  <2>3. submitted \subseteq Tasks
    BY <1>1 DEF IInv, SimpleTypeOK
  <2>4. QED
    BY <1>1, <2>1, <2>2, <2>3, AllLeft DEF IInv, Accounted
<1>2. QED
  BY Inductive, <1>1, PTL
------------------------------------------------------------------------------
\* StatusOf, in the words of the invariant.
LEMMA StatusIs ==
    ASSUME IInv, NEW t \in Tasks
    PROVE  StatusOf(t) = IF runs[t] = 1 THEN "finished"
                         ELSE IF Held(t) THEN "running"
                         ELSE IF t \in submitted THEN "queued" ELSE "new"
<1>1. runs[t] \in 0..1
  BY DEF IInv, SimpleTypeOK
<1>2. Holders(t) # {} <=> Held(t)
  BY DEF Holders, Held, Running
<1>3. QED
  BY <1>1, <1>2 DEF StatusOf

\* The same of the state after a step.
LEMMA StatusWillBe ==
    ASSUME IInv', NEW t \in Tasks
    PROVE  StatusOf(t)' = IF runs'[t] = 1 THEN "finished"
                          ELSE IF Held(t)' THEN "running"
                          ELSE IF t \in submitted' THEN "queued" ELSE "new"
<1>1. runs'[t] \in 0..1
  BY DEF IInv, SimpleTypeOK
<1>2. Holders(t)' # {} <=> Held(t)'
  BY DEF Holders, Held, Running
<1>3. QED
  BY <1>1, <1>2 DEF StatusOf

LEMMA InitAbstract == SimpleInit => SimpleAbstract!Init
<1> SUFFICES ASSUME SimpleInit PROVE SimpleAbstract!Init
  OBVIOUS
<1>1. \A t \in Tasks : StatusOf(t) = "new"
  BY DEF SimpleInit, StatusOf, Holders
<1>2. QED
  BY <1>1 DEF SimpleInit, SimpleAbstract!Init

\* A step that moves no task and keeps the phase is none of AbstractPool.
LEMMA SameStatus ==
    ASSUME UNCHANGED <<place, task, submitted, runs>>
    PROVE  \A t \in Tasks : StatusOf(t)' = StatusOf(t)
BY DEF StatusOf, Holders

\* Only one task changes: the shape of Submit, Start and Finish.
LEMMA OneStatus ==
    ASSUME NEW t \in Tasks, NEW a, NEW b,
           StatusOf(t) = a, StatusOf(t)' = b,
           \A u \in Tasks \ {t} : StatusOf(u)' = StatusOf(u)
    PROVE  SimpleAbstract!Set(t, a, b)
BY DEF SimpleAbstract!Set

LEMMA NextAbstract ==
    ASSUME IInv, IInv', SimpleNext PROVE [SimpleAbstract!Next]_(SimpleAbstract!vars)
<1> DEFINE Goal == [SimpleAbstract!Next]_(SimpleAbstract!vars)
<1>1. ASSUME UNCHANGED <<place, task, submitted, runs, phase>> PROVE Goal
  <2>1. \A t \in Tasks : StatusOf(t)' = StatusOf(t)
    BY <1>1, SameStatus
  <2>2. QED
    BY <1>1, <2>1 DEF SimpleAbstract!vars
<1>2. ASSUME NEW w \in Workers, StartWorker(w) PROVE Goal
  <2>1. \A t \in Tasks : Held(t)' <=> Held(t)
    BY <1>2 DEF StartWorker, IInv, SimpleTypeOK, Held, Running
  <2>2. \A t \in Tasks : StatusOf(t)' = StatusOf(t)
    BY <1>2, <2>1, StatusIs, StatusWillBe DEF StartWorker
  <2>3. QED
    BY <1>2, <2>2 DEF StartWorker, SimpleAbstract!vars
<1>3. ASSUME NEW w \in Workers, GetTask(w) PROVE Goal
  <2>1. /\ op[w] = "pop" /\ queue # <<>> /\ place[w] = "loop"
        /\ runs' = runs /\ submitted' = submitted /\ phase' = phase
        /\ place' = [place EXCEPT ![w] = "run"]
        /\ task' = [task EXCEPT ![w] = Head(queue)]
    BY <1>3 DEF GetTask, Queue!Take, IInv, Calls
  <2>2. /\ Head(queue) \in Tasks /\ Head(queue) = queue[1]
        /\ Len(queue) \in Nat \ {0}
    BY <2>1 DEF IInv, SimpleTypeOK
  <2> PICK x \in Tasks : x = Head(queue)
    BY <2>2
  <2>3. Waiting(x)
    BY <2>2 DEF Waiting, Queued
  <2>4. ~Held(x) /\ runs[x] = 0 /\ x \in submitted
    BY <2>2, <2>3 DEF IInv, OnePlace, Accounted
  <2>5. \A t \in Tasks : Held(t)' <=> Held(t) \/ t = x
    BY <2>1 DEF IInv, SimpleTypeOK, Held, Running
  <2>6. StatusOf(x) = "queued" /\ StatusOf(x)' = "running"
    BY <2>1, <2>2, <2>4, <2>5, StatusIs, StatusWillBe
  <2>7. \A t \in Tasks \ {x} : StatusOf(t)' = StatusOf(t)
    BY <2>1, <2>5, StatusIs, StatusWillBe
  <2>8. SimpleAbstract!Set(x, "queued", "running")
    BY <2>2, <2>6, <2>7, OneStatus
  <2>9. SimpleAbstract!Start(x)
    BY <2>1, <2>8 DEF SimpleAbstract!Start
  <2>10. QED
    BY <2>2, <2>9 DEF SimpleAbstract!Next
<1>4. ASSUME NEW w \in Workers, Finish(w) PROVE Goal
  <2> PICK x \in Tasks : x = task[w]
    BY <1>4 DEF Finish, IInv, SimpleTypeOK
  <2>1. /\ place[w] = "run" /\ submitted' = submitted /\ phase' = phase
        /\ runs' = [runs EXCEPT ![x] = @ + 1]
        /\ place' = [place EXCEPT ![w] = "loop"] /\ task' = [task EXCEPT ![w] = NoTask]
    BY <1>4 DEF Finish, IInv, SimpleTypeOK
  <2>2. Running(w, x) /\ Held(x)
    BY <2>1 DEF Running, Held
  <2>3. \A u \in Tasks : Running(w, u) => u = x
    BY DEF Running
  <2>4. runs[x] = 0 /\ \A v \in Workers : Running(v, x) => v = w
    BY <2>1, <2>2 DEF IInv, OnePlace
  <2>5. \A t \in Tasks : runs'[t] = IF t = x THEN 1 ELSE runs[t]
    BY <2>1, <2>4 DEF IInv, SimpleTypeOK
  <2>6. \A t \in Tasks : Held(t)' <=> Held(t) /\ t # x
    <3>1. \A v \in Workers, u \in Tasks : Running(v, u)' <=> Running(v, u) /\ v # w
      BY <2>1 DEF Running, IInv, SimpleTypeOK
    <3>2. QED
      BY <3>1, <2>3, <2>4 DEF Held
  <2>7. StatusOf(x) = "running" /\ StatusOf(x)' = "finished"
    BY <2>1, <2>2, <2>4, <2>5, StatusIs, StatusWillBe
  <2>8. \A t \in Tasks \ {x} : StatusOf(t)' = StatusOf(t)
    BY <2>1, <2>5, <2>6, StatusIs, StatusWillBe
  <2>9. SimpleAbstract!Set(x, "running", "finished")
    BY <2>1, <2>7, <2>8, OneStatus
  <2>10. SimpleAbstract!Finish(x)
    BY <2>1, <2>9 DEF SimpleAbstract!Finish
  <2>11. QED
    BY <2>1, <2>10 DEF SimpleAbstract!Next
<1>5. ASSUME NEW w \in Workers, Exit(w) PROVE Goal
  <2>1. /\ place[w] = "loop" /\ place' = [place EXCEPT ![w] = "exited"]
        /\ task' = task /\ runs' = runs /\ submitted' = submitted /\ phase' = phase
    BY <1>5 DEF Exit, Queue!PopFails, IInv, Calls
  <2>2. \A t \in Tasks : Held(t)' <=> Held(t)
    BY <2>1 DEF IInv, SimpleTypeOK, Held, Running
  <2>3. \A t \in Tasks : StatusOf(t)' = StatusOf(t)
    BY <2>1, <2>2, StatusIs, StatusWillBe
  <2>4. QED
    BY <2>1, <2>3 DEF SimpleAbstract!vars
<1>6. ASSUME NEW c \in Workers \cup Clients, NEW t \in Tasks, Submit(c, t) PROVE Goal
  <2>1. /\ t \notin submitted /\ submitted' = submitted \cup {t}
        /\ place' = place /\ task' = task /\ runs' = runs /\ phase' = phase
    BY <1>6 DEF Submit, Queue!Push
  <2>2. ~Held(t) /\ runs[t] = 0
    BY <2>1 DEF IInv, SimpleTypeOK, Accounted
  <2>3. \A u \in Tasks : Held(u)' <=> Held(u)
    BY <2>1 DEF Held, Running
  <2>4. StatusOf(t) = "new" /\ StatusOf(t)' = "queued"
    BY <2>1, <2>2, <2>3, StatusIs, StatusWillBe
  <2>5. \A u \in Tasks \ {t} : StatusOf(u)' = StatusOf(u)
    BY <2>1, <2>3, StatusIs, StatusWillBe
  <2>6. phase = "open" \/ \E u \in Tasks : StatusOf(u) = "running"
    <3>1. CASE c \in Clients /\ phase = "open"
      BY <3>1
    <3>2. CASE c \in Workers /\ place[c] = "run"
      <4>1. task[c] \in Tasks /\ Held(task[c])
        BY <3>2 DEF IInv, SimpleTypeOK, Held, Running
      <4>2. runs[task[c]] = 0
        BY <4>1 DEF IInv, OnePlace
      <4>3. QED
        BY <4>1, <4>2, StatusIs
    <3>3. QED
      BY <1>6, <3>1, <3>2 DEF Submit
  <2>7. SimpleAbstract!Set(t, "new", "queued")
    BY <2>4, <2>5, OneStatus
  <2>8. SimpleAbstract!Submit(t)
    BY <2>1, <2>6, <2>7 DEF SimpleAbstract!Submit
  <2>9. QED
    BY <2>8 DEF SimpleAbstract!Next
<1>7. ASSUME Constructed PROVE Goal
  <2>1. \A t \in Tasks : StatusOf(t)' = StatusOf(t)
    BY <1>7, SameStatus DEF Constructed
  <2>2. QED
    BY <1>7, <2>1 DEF Constructed, SimpleAbstract!vars
<1>8. ASSUME CallDone PROVE Goal
  <2>1. \A t \in Tasks : StatusOf(t)' = StatusOf(t)
    BY <1>8, SameStatus DEF CallDone
  <2>2. SimpleAbstract!Close
    BY <1>8, <2>1 DEF CallDone, SimpleAbstract!Close
  <2>3. QED
    BY <2>2 DEF SimpleAbstract!Next
<1>9. ASSUME Join PROVE Goal
  <2>1. \A t \in Tasks : StatusOf(t)' = StatusOf(t)
    BY <1>9, SameStatus DEF Join
  <2>2. \A t \in Tasks : ~Pushed(t) /\ ~Waiting(t) /\ ~Held(t)
    BY <1>9, AllLeft DEF Join
  <2>3. \A t \in Tasks : StatusOf(t) \in {"new", "finished"}
    BY <2>2, StatusIs DEF IInv, Accounted
  <2>4. SimpleAbstract!Destroy
    BY <1>9, <2>1, <2>3 DEF Join, SimpleAbstract!Destroy
  <2>5. QED
    BY <2>4 DEF SimpleAbstract!Next
<1> HIDE DEF Goal
<1>10. ASSUME NEW w \in Workers, CallPop(w) PROVE Goal
  BY <1>10, <1>1 DEF CallPop
<1>11. ASSUME NEW c \in Workers \cup Clients, Insert(c) PROVE Goal
  BY <1>11, <1>1 DEF Insert
<1>12. ASSUME Close PROVE Goal
  BY <1>12, <1>1 DEF Close
<1>13. Goal
  BY <1>2, <1>3, <1>4, <1>5, <1>6, <1>7, <1>8, <1>9, <1>10, <1>11, <1>12 DEF SimpleNext
<1>14. QED
  BY <1>13 DEF Goal

(***************************************************************************)
(* The safety part of ImplementsPool: every step of the workers, of the    *)
(* queue and of the destructor is one of AbstractPool or changes nothing   *)
(* that the users see.                                                     *)
(***************************************************************************)
THEOREM PoolStepsImplement == SimpleSpec => SimpleAbstract!Init /\ [][SimpleAbstract!Next]_(SimpleAbstract!vars)
<1>1. UNCHANGED simple_vars => UNCHANGED SimpleAbstract!vars
  <2>1. SUFFICES ASSUME UNCHANGED simple_vars PROVE UNCHANGED SimpleAbstract!vars
    OBVIOUS
  <2>2. \A t \in Tasks : StatusOf(t)' = StatusOf(t)
    BY <2>1, SameStatus DEF simple_vars
  <2>3. QED
    BY <2>1, <2>2 DEF simple_vars, SimpleAbstract!vars
<1>2. IInv /\ IInv' /\ [SimpleNext]_simple_vars => [SimpleAbstract!Next]_(SimpleAbstract!vars)
  BY <1>1, NextAbstract
<1>3. QED
  BY InitAbstract, Inductive, <1>2, PTL DEF SimpleSpec
==============================================================================
