---------------------------- MODULE AbstractPool -----------------------------
(***************************************************************************)
(* What a thread pool promises: a task that was submitted is run once, by  *)
(* one worker, and the destructor returns, but not before every task has   *)
(* been run, those included that other tasks submit meanwhile. Both pools  *)
(* of utilcxx are shown to implement it.                                   *)
(***************************************************************************)
CONSTANTS Tasks

VARIABLES status,      \* of each task
          phase        \* of the pool

vars == <<status, phase>>

Init == /\ status = [t \in Tasks |-> "new"]
        /\ phase = "open"

Set(t, from, to) == /\ status[t] = from
                    /\ status' = [status EXCEPT ![t] = to]

\* By a client of the open pool, or by a task that is running.
Submit(t) == /\ phase = "open" \/ \E u \in Tasks : status[u] = "running"
             /\ Set(t, "new", "queued")
             /\ UNCHANGED phase

Start(t) == Set(t, "queued", "running") /\ UNCHANGED phase

Finish(t) == Set(t, "running", "finished") /\ UNCHANGED phase

Close == phase = "open" /\ phase' = "closing" /\ UNCHANGED status

Destroy == /\ phase = "closing"
           /\ \A t \in Tasks : status[t] \in {"new", "finished"}
           /\ phase' = "destroyed"
           /\ UNCHANGED status

Next == (\E t \in Tasks : Submit(t) \/ Start(t) \/ Finish(t)) \/ Close \/ Destroy

Fairness == /\ \A t \in Tasks : WF_vars(Start(t)) /\ WF_vars(Finish(t))
            /\ WF_vars(Destroy)

Spec == Init /\ [][Next]_vars /\ Fairness
==============================================================================
