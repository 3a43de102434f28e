--------------------------- MODULE AbstractAsyncLog ---------------------------
(***************************************************************************)
(* What asynchronous logging promises (async_logger.h:8-18): a request     *)
(* joins a queue of bounded length, workers take the requests in that      *)
(* order and carry each out once, and when the pool has been destroyed all *)
(* of them have been carried out. A request that may overrun does not wait *)
(* for room: it drops the oldest one. After the destruction has begun      *)
(* requests are refused.                                                   *)
(***************************************************************************)
EXTENDS Integers, Sequences

CONSTANTS Requests, Capacity

VARIABLES overruns,    \* the requests that may overrun, fixed
          asking,      \* the requests whose call has begun
          pending,     \* the queue
          busy,        \* the requests being carried out
          finished, refused,
          phase        \* open, closing or destroyed

vars == <<overruns, asking, pending, busy, finished, refused, phase>>

Init == /\ overruns \subseteq Requests
        /\ asking = {} /\ pending = <<>> /\ busy = {} /\ finished = {} /\ refused = {}
        /\ phase = "open"

Ask(m) == /\ phase = "open" /\ m \notin asking
          /\ asking' = asking \cup {m}
          /\ UNCHANGED <<overruns, pending, busy, finished, refused, phase>>

Post(m) == /\ m \in asking
           /\ IF Len(pending) < Capacity THEN pending' = Append(pending, m)
              ELSE /\ m \in overruns
                   /\ pending' = Append(Tail(pending), m)
           /\ asking' = asking \ {m}
           /\ UNCHANGED <<overruns, busy, finished, refused, phase>>

Refuse(m) == /\ phase # "open"
             /\ refused' = refused \cup {m}
             /\ UNCHANGED <<overruns, asking, pending, busy, finished, phase>>

Take == /\ pending # <<>>
        /\ pending' = Tail(pending)
        /\ busy' = busy \cup {Head(pending)}
        /\ UNCHANGED <<overruns, asking, finished, refused, phase>>

Finish(m) == /\ m \in busy
             /\ busy' = busy \ {m}
             /\ finished' = finished \cup {m}
             /\ UNCHANGED <<overruns, asking, pending, refused, phase>>

Close == /\ phase = "open" /\ asking = {}
         /\ phase' = "closing"
         /\ UNCHANGED <<overruns, asking, pending, busy, finished, refused>>

Destroy == /\ phase = "closing" /\ pending = <<>> /\ busy = {}
           /\ phase' = "destroyed"
           /\ UNCHANGED <<overruns, asking, pending, busy, finished, refused>>

Next == \/ \E m \in Requests : Ask(m) \/ Post(m) \/ Refuse(m) \/ Finish(m)
        \/ Take \/ Close \/ Destroy

Fairness == /\ WF_vars(Take) /\ WF_vars(Destroy)
            /\ \A m \in Requests : WF_vars(Post(m)) /\ WF_vars(Finish(m))

Spec == Init /\ [][Next]_vars /\ Fairness
==============================================================================
