------------------------------ MODULE MC_Utilcxx ------------------------------
(***************************************************************************)
(* The two semaphores and the simple pool of utilcxx on small instances,   *)
(* one in each behaviour: `which` is chosen once, and the others stay as   *)
(* they were made. The fairness is that of their modules, for the one that *)
(* runs. The pool has two workers, two clients and three tasks, one of     *)
(* which is submitted by another.                                          *)
(***************************************************************************)
EXTENDS Semaphore, FastSemaphore, SimpleThreadPool

CONSTANTS a, b, c     \* tasks

VARIABLE which

MC_Parent == [t \in Tasks |-> IF t = c THEN a ELSE NoTask]

UtilcxxInit == which \in {"semaphore", "fast", "pool"} /\ Init /\ FastInit /\ SimpleInit

UtilcxxNext ==
    /\ UNCHANGED which
    /\ IF which = "semaphore" THEN Next ELSE UNCHANGED vars
    /\ IF which = "fast" THEN FastNext ELSE UNCHANGED fast_vars
    /\ IF which = "pool" THEN SimpleNext ELSE UNCHANGED simple_vars

SemaphoreRuns == \A t \in Threads : /\ WF_vars(which = "semaphore" /\ Run(t))
                                    /\ SF_vars(which = "semaphore" /\ Expire(t))

FastRuns ==
    /\ \A t \in FastThreads : /\ WF_fast_vars(which = "fast" /\ PostInner(t))
                              /\ WF_fast_vars(which = "fast" /\ Decrement(t))
    /\ WF_fast_vars(which = "fast" /\ \E t \in FastThreads : WakeUp(t))

PoolRuns ==
    /\ \A w \in Workers :
          /\ WF_simple_vars(which = "pool" /\ StartWorker(w))
          /\ WF_simple_vars(which = "pool" /\ CallPop(w))
          /\ WF_simple_vars(which = "pool" /\ Finish(w))
          /\ WF_simple_vars(which = "pool" /\ \E t \in Tasks : Submit(w, t))
          /\ WF_simple_vars(which = "pool" /\ done /\ (GetTask(w) \/ Exit(w)))
    /\ \A k \in Workers \cup Clients : WF_simple_vars(which = "pool" /\ Insert(k))
    /\ WF_simple_vars(which = "pool" /\ \E w \in Workers : GetTask(w))
    /\ WF_simple_vars(which = "pool" /\ Constructed)
    /\ WF_simple_vars(which = "pool" /\ Close)
    /\ WF_simple_vars(which = "pool" /\ Join)

UtilcxxSpec == /\ UtilcxxInit /\ [][UtilcxxNext]_<<which, vars, fast_vars, simple_vars>>
               /\ SemaphoreRuns /\ FastRuns /\ PoolRuns
==============================================================================
