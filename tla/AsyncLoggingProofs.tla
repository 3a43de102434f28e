------------------------- MODULE AsyncLoggingProofs --------------------------
(***************************************************************************)
(* For any producers, workers, programs and capacity, any sinks and any    *)
(* faults: what the asynchronous queue throws away is counted, nobody      *)
(* sleeps in vain, the order of a producer's messages survives the queue   *)
(* and, with one worker, the sinks, and a flush covers what was posted     *)
(* before it; and every step is one of the abstract asynchronous log.      *)
(***************************************************************************)
EXTENDS AsyncLogging, CircularQProofs, FiniteSetTheorems

-----------------------------------------------------------------------------
(* What the inductive invariant says.                                      *)

Senders == Producers \cup {Owner}

\* The queue as a sequence.
Line == Contents(q)

\* Where a thread has a message in its hands.
Carrying == {"enqueue", "full", "notify_pop", "process", "flush", "exited"}

\* What a thread may be doing, and what it has in its hands then.
Role(t) ==
    /\ t \in Senders => pc[t] \in {"idle", "enqueue", "full", "notify_push", "posted"}
    /\ t \in Workers =>
          /\ pc[t] \in {"unborn", "dequeue", "empty", "notify_pop", "process", "flush", "exited"}
          /\ t \notin threads_ => pc[t] = "unborn"
          /\ pc[t] \in {"process", "flush"} => held[t] \in AllMessages
          /\ pc[t] = "flush" => FlushesAfter(held[t])
          /\ pc[t] = "exited" => held[t] = Terminate
          /\ pc[t] \notin {"process", "flush"} => at[t] = 1
    /\ held[t] = NoMessage <=> pc[t] \notin Carrying
    /\ pc[t] = "full" => Policy(held[t]) = "block"
    /\ t \in Producers /\ held[t] \in AllMessages => held[t] = <<t, pos[t]>>
    /\ t = Owner => held[t] \notin AllMessages

Roles == Line \in Seq(AllMessages \cup {Terminate}) /\ \A t \in Threads : Role(t)

\* Until the pool's destructor runs nobody has sent Terminate.
Quiet ==
    phase \in {"constructing", "open"} =>
        /\ \A t \in Threads : held[t] # Terminate
        /\ \A i \in 1..Len(Line) : Line[i] # Terminate

\* Who posts has a reference; then one thread runs the destructor and nobody posts.
Life ==
    /\ phase = "constructing" => refs = {Owner} /\ \A t \in Senders : pc[t] = "idle"
    /\ phase = "open" => /\ refs # {} /\ pc[Owner] = "idle"
                         /\ \A p \in Producers : p \in refs <=> pc[p] # "idle"
    /\ phase \in {"closing", "destroyed"} =>
          /\ refs = {}
          /\ \A t \in Senders : held[t] \notin AllMessages
          /\ \A t, u \in Senders : pc[t] # "idle" /\ pc[u] # "idle" => t = u

\* Terminate comes after every message, in the queue and out of it.
Ending ==
    /\ \E k \in 0..Len(Line) : \A i \in 1..Len(Line) : Line[i] = Terminate <=> i > k
    /\ \A w \in Workers : held[w] = Terminate => \A i \in 1..Len(Line) : Line[i] = Terminate

\* Two messages of one producer, in the order in which they were posted.
Before(m, n) == m[1] = n[1] => m[2] < n[2]

\* The producer of m has put it into the queue, or seen it refused.
Sent(m) == m[2] <= pos[m[1]] /\ m # held[m[1]]

\* A message passes from its producer to the queue, to a worker and to handled.
Passage ==
    /\ \A i, j \in 1..Len(Line) :
          i < j /\ Line[i] \in AllMessages /\ Line[j] \in AllMessages => Before(Line[i], Line[j])
    /\ \A i \in 1..Len(Line) : Line[i] \in AllMessages =>
          /\ Sent(Line[i]) /\ Line[i] \notin rejected
          /\ \A m \in handled : Before(m, Line[i])
          /\ \A w \in Workers : held[w] \in AllMessages => Before(held[w], Line[i])
    /\ \A w \in Workers : held[w] \in AllMessages =>
          /\ Sent(held[w]) /\ held[w] \notin handled \cup rejected
          /\ \A v \in Workers : held[v] = held[w] => v = w
    /\ \A m \in handled \cup rejected : Sent(m)
    /\ handled \cap rejected = {}

Counted == IsFiniteSet(Lost) /\ LossesAreCounted

Written(s) == {written[s][i] : i \in 1..Len(written[s])}

\* Worker w is past sink s with its message.
Past(w, s) == pc[w] = "flush" \/ (pc[w] = "process" /\ at[w] > s)

Wanted(m, s) == Request(m).kind = "log" /\ Request(m).level >= SinkLevel[s]

Sound(s) == s \in DOMAIN Sinks /\ Sinks[s] \notin Faulty

Outputs ==
    \A s \in DOMAIN Sinks :
      /\ \A m \in Written(s) : m \in handled \/ \E w \in Workers : held[w] = m /\ Past(w, s)
      /\ \A i, j \in 1..Len(written[s]) : i < j => written[s][i] # written[s][j]
      /\ Sound(s) => /\ \A m \in handled : Wanted(m, s) => m \in Written(s)
                     /\ \A w \in Workers : Past(w, s) /\ Wanted(held[w], s) =>
                                              held[w] \in Written(s)

\* What holds with one worker.
InOrder ==
    \A s \in DOMAIN Sinks : \A i, j \in 1..Len(written[s]) :
        i < j => Before(written[s][i], written[s][j])

Covers(m) ==
    Request(m).kind = "flush" \/ FlushesAfter(m) =>
        \A s \in {n \in DOMAIN Sinks : Sinks[n] \notin Faulty} : \A i \in 1..m[2] :
            <<m[1], i>> \in handled /\ Wanted(<<m[1], i>>, s)
            => \E j \in 1..flushed[s] : written[s][j] = <<m[1], i>>

OneWorker ==
    /\ \A w \in Workers : held[w] \in AllMessages => \A m \in handled : Before(m, held[w])
    /\ \A w \in Workers, s \in DOMAIN Sinks :
          Flushing(w) /\ Sound(s) /\ at[w] > s => flushed[s] = Len(written[s])
    /\ InOrder
    /\ \A m \in handled : Covers(m)

Single == (\E w : threads_ = {w}) => OneWorker

IInv == TypeOK /\ Roles /\ Quiet /\ Life /\ Ending /\ Passage /\ Counted /\ NoLostWakeup
        /\ Outputs /\ Single
------------------------------------------------------------------------------
(* Messages.                                                               *)

LEMMA MessageIs ==
    ASSUME NEW m
    PROVE  m \in AllMessages <=>
             \E p \in Producers : \E k \in DOMAIN program[p] : m = <<p, k>>
BY DEF AllMessages

LEMMA MessagesApart ==
    /\ Terminate \notin AllMessages /\ NoMessage \notin AllMessages /\ Terminate # NoMessage
<1>1. Terminate # NoMessage
  BY DEF Terminate, NoMessage
<1>2. Terminate \notin AllMessages
  BY MessageIs, AsyncAssumption DEF Terminate
<1>3. NoMessage \notin AllMessages
  <2>1. ASSUME NEW p, NEW k PROVE <<>> # <<p, k>>
    OBVIOUS
  <2>2. QED
    BY <2>1, MessageIs DEF NoMessage
<1>4. QED
  BY <1>1, <1>2, <1>3

\* What is known of a program in use.
LEMMA Programs ==
    ASSUME TypeOK
    PROVE  /\ threads_ \subseteq Workers /\ threads_ # {} /\ IsFiniteSet(threads_)
           /\ \A p \in Producers : /\ program[p] \in Seq(Posts)
                                   /\ DOMAIN program[p] = 1..Len(program[p])
                                   /\ Len(program[p]) \in Nat /\ Len(program[p]) <= MaxPosts
<1>1. PICK c \in Setups : threads_ = c.threads /\ program = c.program
  BY DEF TypeOK
<1>2. c.threads = threads_ /\ c.program = program
  BY <1>1
<1>3. /\ threads_ \subseteq Workers /\ threads_ # {}
      /\ program \in [Producers -> Seq(Posts)]
      /\ \A p \in Producers : Len(program[p]) <= MaxPosts
  BY <1>2, AsyncAssumption
<1>4. IsFiniteSet(threads_)
  BY <1>3, AsyncAssumption, FS_Subset
<1>5. \A p \in Producers : program[p] \in Seq(Posts)
  BY <1>3
<1>6. QED
  BY <1>3, <1>4, <1>5

\* A message has a producer, a number and a request.
LEMMA MessageParts ==
    ASSUME TypeOK, NEW m \in AllMessages
    PROVE  /\ m[1] \in Producers /\ m[2] \in 1..Len(program[m[1]]) /\ m = <<m[1], m[2]>>
           /\ m[2] \in Nat /\ Request(m) \in Posts /\ Policy(m) = Request(m).policy
           /\ Policy(m) \in {"block", "overrun_oldest"}
<1>p. PICK p \in Producers : \E k \in DOMAIN program[p] : m = <<p, k>>
  BY MessageIs
<1>1. PICK k \in DOMAIN program[p] : m = <<p, k>>
  BY <1>p
<1>2. m[1] = p /\ m[2] = k
  BY <1>1
<1>3. program[p] \in Seq(Posts) /\ k \in 1..Len(program[p]) /\ Len(program[p]) \in Nat
  BY Programs
<1>4. Request(m) \in Posts
  BY <1>2, <1>3 DEF Request
<1>5. Policy(m) = Request(m).policy
  BY MessagesApart DEF Policy
<1>6. QED
  BY <1>1, <1>2, <1>3, <1>4, <1>5 DEF Posts
------------------------------------------------------------------------------
(* The queue.                                                              *)

LEMMA QueueIs ==
    ASSUME TypeOK
    PROVE  /\ Len(Line) = Size(q) /\ Size(q) \in 0..Capacity
           /\ Empty(q) <=> Size(q) = 0
           /\ Full(q) <=> Size(q) = Capacity
           /\ Queued = {Line[k] : k \in 1..Len(Line)}
           /\ Capacity \in Nat \ {0} /\ q.over \in Nat
<1>1. /\ Ring(q, AllMessages \cup {Terminate}) /\ q.max = Capacity + 1 /\ q.max # 0
      /\ Capacity \in Nat \ {0}
  BY AsyncAssumption DEF TypeOK
<1>2. Len(Line) = Size(q)
  BY <1>1, ContentsIsSequence DEF Line
<1>3. /\ Size(q) \in 0..(q.max - 1)
      /\ Empty(q) <=> Size(q) = 0
      /\ Full(q) <=> Size(q) = q.max - 1
  BY <1>1, SizeOfRing
<1>4. q.over \in Nat
  BY <1>1, Fields
<1>5. Queued = {Line[k] : k \in 1..Size(q)}
  BY DEF Queued, Line
<1>6. Queued = {Line[k] : k \in 1..Len(Line)}
  BY <1>2, <1>5
<1>7. QED
  BY <1>1, <1>2, <1>3, <1>4, <1>6

\* PushBack and PopFront as operations on the sequence.
LEMMA Pushes ==
    ASSUME TypeOK, NEW m \in AllMessages \cup {Terminate}, q' = PushBack(q, m)
    PROVE  /\ Ring(q', AllMessages \cup {Terminate}) /\ q'.max = Capacity + 1
           /\ Line' = Append(IF Full(q) THEN Tail(Line) ELSE Line, m)
           /\ q'.over = IF Full(q) THEN q.over + 1 ELSE q.over
           /\ Size(q)' = IF Full(q) THEN Size(q) ELSE Size(q) + 1
<1>1. /\ Ring(q, AllMessages \cup {Terminate}) /\ q.max = Capacity + 1 /\ q.max # 0
      /\ q.max > 1 /\ Capacity \in Nat \ {0}
  BY AsyncAssumption DEF TypeOK
<1>2. /\ Ring(q', AllMessages \cup {Terminate})
      /\ Line' = Append(IF Full(q) THEN Tail(Line) ELSE Line, m)
      /\ q'.over = IF Full(q) THEN q.over + 1 ELSE q.over
  BY <1>1, PushAppends DEF Line
<1>3. q'.max = Capacity + 1
  <2>1. q = [max |-> q.max, head |-> q.head, tail |-> q.tail, over |-> q.over, v |-> q.v]
    BY <1>1, Fields
  <2>2. QED
    BY <1>1, <2>1 DEF PushBack
<1>4. Len(Line') = Size(q)'
  BY <1>1, <1>2, <1>3, ContentsIsSequence DEF Line
<1>5. /\ Line \in Seq(AllMessages \cup {Terminate, Unused}) /\ Len(Line) = Size(q)
      /\ Full(q) => Len(Line) = Capacity
  <2>1. Line \in Seq((AllMessages \cup {Terminate}) \cup {Unused})
    BY <1>1, ContentsIsSequence DEF Line
  <2>2. QED
    BY <2>1, QueueIs
<1>6. QED
  BY <1>1, <1>2, <1>3, <1>4, <1>5

LEMMA Pops ==
    ASSUME TypeOK, ~Empty(q), q' = PopFront(q)
    PROVE  /\ Ring(q', AllMessages \cup {Terminate}) /\ q'.max = Capacity + 1
           /\ Line # <<>> /\ Len(Line) > 0 /\ FrontItem(q) = Head(Line) /\ Line' = Tail(Line)
           /\ q'.over = q.over
           /\ Size(q)' = Size(q) - 1
<1>1. /\ Ring(q, AllMessages \cup {Terminate}) /\ q.max = Capacity + 1 /\ q.max # 0
      /\ Capacity \in Nat \ {0}
  BY AsyncAssumption DEF TypeOK
<1>2. /\ Ring(q', AllMessages \cup {Terminate})
      /\ FrontItem(q) = Head(Line) /\ Line' = Tail(Line)
  BY <1>1, PopTakesOldest DEF Line
<1>3. q'.max = Capacity + 1 /\ q'.over = q.over
  <2>1. q = [max |-> q.max, head |-> q.head, tail |-> q.tail, over |-> q.over, v |-> q.v]
    BY <1>1, Fields
  <2>2. QED
    BY <1>1, <2>1 DEF PopFront
<1>4. Len(Line') = Size(q)'
  BY <1>1, <1>2, <1>3, ContentsIsSequence DEF Line
<1>5. /\ Line \in Seq((AllMessages \cup {Terminate}) \cup {Unused}) /\ Len(Line) = Size(q)
      /\ Len(Line) > 0
  <2>1. Line \in Seq((AllMessages \cup {Terminate}) \cup {Unused})
    BY <1>1, ContentsIsSequence DEF Line
  <2>2. QED
    BY <2>1, QueueIs
<1>6. QED
  BY <1>1, <1>2, <1>3, <1>4, <1>5
------------------------------------------------------------------------------
(* The steps.                                                              *)

\* The actions, for the case distinctions.
LEMMA Actions ==
    ASSUME Next, NEW P,
           \A t \in Senders : /\ Enqueue(t) => P
                              /\ WaitForRoom(t) => P
                              /\ NotifyPush(t) => P
                              /\ Spurious(t) => P
                              /\ Release(t) => P
                              /\ PostTerminate(t) => P
                              /\ Join(t) => P,
           \A w \in Workers : /\ Dequeue(w) => P
                              /\ WaitForItem(w) => P
                              /\ Expire(w) => P
                              /\ NotifyPop(w) => P
                              /\ StartWorker(w) => P
                              /\ SinkLog(w) => P
                              /\ SinksDone(w) => P
                              /\ SinkFlush(w) => P
                              /\ Finish(w) => P,
           \A p \in Producers : (Post(p) => P) /\ (Reject(p) => P),
           Constructed => P
    PROVE  P
BY DEF Next, QueueStep, Destroy, Work, Log, Senders

\* The threads and the program are chosen once.
LEMMA Chosen ==
    ASSUME Next
    PROVE  threads_' = threads_ /\ program' = program /\ AllMessages' = AllMessages
<1>1. UNCHANGED choice
  BY DEF Next, QueueStep, Destroy, Work, Log, choice,
     Enqueue, WaitForRoom, NotifyPush, Spurious, Release, PostTerminate, Join, Dequeue,
     WaitForItem, Expire, NotifyPop, StartWorker, SinkLog, SinksDone, SinkFlush, Finish,
     Post, Reject, Constructed
<1>2. QED
  BY <1>1 DEF choice, AllMessages

LEMMA ThreadKinds ==
    /\ Threads = Senders \cup Workers /\ Senders \cap Workers = {}
    /\ Producers \subseteq Senders /\ Owner \in Senders /\ Owner \notin Producers
BY AsyncAssumption DEF Threads, Senders

Places == {"idle", "enqueue", "full", "notify_push", "posted", "unborn",
           "dequeue", "empty", "notify_pop", "process", "flush", "exited"}

\* One of several sequences grows by one, the others stay.
LEMMA Grows ==
    ASSUME NEW S, NEW D, NEW f \in [D -> Seq(S)], NEW d \in D, NEW x \in S
    PROVE  LET g == [f EXCEPT ![d] = Append(@, x)] IN
             /\ g \in [D -> Seq(S)]
             /\ \A e \in D : Len(g[e]) >= Len(f[e])
             /\ \A e \in D \ {d} : g[e] = f[e]
             /\ g[d] = Append(f[d], x)
<1> DEFINE g == [f EXCEPT ![d] = Append(@, x)]
<1>1. f[d] \in Seq(S) /\ Append(f[d], x) \in Seq(S) /\ Len(Append(f[d], x)) = Len(f[d]) + 1
  OBVIOUS
<1>2. \A e \in D : g[e] = IF e = d THEN Append(f[d], x) ELSE f[e]
  OBVIOUS
<1>3. g \in [D -> Seq(S)]
  BY <1>1
<1>4. ASSUME NEW e \in D PROVE Len(g[e]) >= Len(f[e])
  <2>1. Len(f[e]) \in Nat /\ Len(f[d]) \in Nat
    OBVIOUS
  <2>2. QED
    BY <1>1, <1>2, <2>1
<1>5. QED
  BY <1>2, <1>3, <1>4

\* A step of thread t, which may wake another one.
Moves(t) ==
    /\ \A u \in Threads \ {t} :
          /\ held'[u] = held[u]
          /\ \/ pc'[u] = pc[u]
             \/ pc[u] = "empty" /\ pc'[u] = "dequeue"
             \/ pc[u] = "full" /\ pc'[u] = "enqueue"
    /\ \A w \in Workers \ {t} : at'[w] = at[w]

LEMMA PostIsMessage ==
    ASSUME TypeOK, NEW p \in Producers, pos[p] < Len(program[p])
    PROVE  <<p, pos[p] + 1>> \in AllMessages
<1>1. pos[p] + 1 \in DOMAIN program[p]
  BY Programs DEF TypeOK
<1>2. QED
  BY <1>1, MessageIs

LEMMA NextTypeOK == ASSUME TypeOK, Roles, Next PROVE TypeOK'
<1>a. threads_' = threads_ /\ program' = program /\ AllMessages' = AllMessages
  BY Chosen
<1>p. pc \in [Threads -> Places] /\ held \in [Threads -> AllMessages \cup {Terminate, NoMessage}]
  BY DEF TypeOK, Places
<1>k. Threads = Senders \cup Workers /\ Producers \subseteq Senders
  BY ThreadKinds
<1>1. ASSUME NEW t \in Senders, Enqueue(t) PROVE TypeOK'
  <2>1. pc' \in [Threads -> Places]
    BY <1>1, <1>p, <1>k DEF Enqueue, Go, Places
  <2>2. held[t] \in AllMessages \cup {Terminate} /\ t \in Threads
    BY <1>1, <1>p, <1>k DEF Enqueue, Roles, Role, Carrying
  <2>3. Ring(q', AllMessages \cup {Terminate}) /\ q'.max = Capacity + 1
    BY <1>1, <2>2, Pushes DEF Enqueue
  <2>4. held' \in [Threads -> AllMessages \cup {Terminate, NoMessage}]
    BY <1>1, <1>p DEF Enqueue
  <2>5. QED
    BY <1>1, <1>a, <2>1, <2>3, <2>4 DEF Enqueue, TypeOK, Places, pool, output
<1>2. ASSUME NEW t \in Senders, WaitForRoom(t) PROVE TypeOK'
  <2>1. pc' \in [Threads -> Places]
    BY <1>2, <1>p, <1>k DEF WaitForRoom, Go, Places
  <2>2. QED
    BY <1>2, <1>a, <1>k, <2>1 DEF WaitForRoom, TypeOK, Places, choice, pool, output
<1>3. ASSUME NEW t \in Senders, NotifyPush(t) PROVE TypeOK'
  <2>1. pc' \in [Threads -> Places]
    BY <1>3, <1>p, <1>k DEF NotifyPush, Go, Places, NotifyOne
  <2>2. QED
    BY <1>3, <1>a, <1>k, <2>1 DEF NotifyPush, TypeOK, Places, choice, pool, output
<1>4. ASSUME NEW t \in Senders, Spurious(t) PROVE TypeOK'
  <2>1. pc' \in [Threads -> Places]
    BY <1>4, <1>p, <1>k DEF Spurious, Go, Places
  <2>2. QED
    BY <1>4, <1>a, <1>k, <2>1 DEF Spurious, TypeOK, Places, choice, pool, output
<1>5. ASSUME NEW t \in Senders, Release(t) PROVE TypeOK'
  <2>1. pc' \in [Threads -> Places]
    BY <1>5, <1>p, <1>k DEF Release, Go, Places
  <2>2. refs' \subseteq Producers \cup {Owner} /\ phase' \in {"constructing", "open", "closing", "destroyed"}
    BY <1>5 DEF Release, TypeOK
  <2>3. left' \in 0..Cardinality(threads_)
    <3>1. Cardinality(threads_) \in Nat
      BY Programs, FS_CardinalityType
    <3>2. QED
      BY <1>5, <3>1 DEF Release, TypeOK
  <2>4. QED
    BY <1>5, <1>a, <2>1, <2>2, <2>3 DEF Release, TypeOK, Places, output
<1>6. ASSUME NEW t \in Senders, PostTerminate(t) PROVE TypeOK'
  <2>1. pc' \in [Threads -> Places]
    BY <1>6, <1>p, <1>k DEF PostTerminate, Go, Places
  <2>2. left' \in 0..Cardinality(threads_)
    <3>1. Cardinality(threads_) \in Nat
      BY Programs, FS_CardinalityType
    <3>2. QED
      BY <1>6, <3>1 DEF PostTerminate, TypeOK
  <2>3. held' \in [Threads -> AllMessages \cup {Terminate, NoMessage}]
    BY <1>6, <1>p DEF PostTerminate
  <2>4. QED
    BY <1>6, <1>a, <2>1, <2>2, <2>3 DEF PostTerminate, TypeOK, Places, output
<1>7. ASSUME NEW t \in Senders, Join(t) PROVE TypeOK'
  <2>1. pc' \in [Threads -> Places]
    BY <1>7, <1>p, <1>k DEF Join, Go, Places
  <2>2. QED
    BY <1>7, <1>a, <1>k, <2>1 DEF Join, TypeOK, Places, choice, pool, output
<1>8. ASSUME NEW w \in Workers, Dequeue(w) PROVE TypeOK'
  <2>1. pc' \in [Threads -> Places]
    BY <1>8, <1>p, <1>k DEF Dequeue, Go, Places
  <2>2. Ring(q', AllMessages \cup {Terminate}) /\ q'.max = Capacity + 1
    BY <1>8, Pops DEF Dequeue
  <2>3. FrontItem(q) \in AllMessages \cup {Terminate}
    <3>1. Line # <<>> /\ FrontItem(q) = Head(Line)
      BY <1>8, Pops DEF Dequeue
    <3>2. QED
      BY <3>1 DEF Roles
  <2>4. held' \in [Threads -> AllMessages \cup {Terminate, NoMessage}]
    BY <1>8, <1>p, <2>3 DEF Dequeue
  <2>5. QED
    BY <1>8, <1>a, <2>1, <2>2, <2>4 DEF Dequeue, TypeOK, Places, pool, output
<1>9. ASSUME NEW w \in Workers, WaitForItem(w) PROVE TypeOK'
  <2>1. pc' \in [Threads -> Places]
    BY <1>9, <1>p, <1>k DEF WaitForItem, Go, Places
  <2>2. QED
    BY <1>9, <1>a, <1>k, <2>1 DEF WaitForItem, TypeOK, Places, choice, pool, output
<1>10. ASSUME NEW w \in Workers, Expire(w) PROVE TypeOK'
  <2>1. pc' \in [Threads -> Places]
    BY <1>10, <1>p, <1>k DEF Expire, Go, Places
  <2>2. QED
    BY <1>10, <1>a, <1>k, <2>1 DEF Expire, TypeOK, Places, choice, pool, output
<1>11. ASSUME NEW w \in Workers, NotifyPop(w) PROVE TypeOK'
  <2>1. pc' \in [Threads -> Places]
    BY <1>11, <1>p, <1>k DEF NotifyPop, Go, Places, NotifyOne
  <2>2. QED
    BY <1>11, <1>a, <1>k, <2>1 DEF NotifyPop, TypeOK, Places, choice, pool, output
<1>12. ASSUME NEW w \in Workers, StartWorker(w) PROVE TypeOK'
  <2>1. pc' \in [Threads -> Places]
    BY <1>12, <1>p, <1>k DEF StartWorker, Go, Places
  <2>2. QED
    BY <1>12, <1>a, <1>k, <2>1 DEF StartWorker, TypeOK, Places, choice, pool, output
<1>13. ASSUME NEW w \in Workers, SinkLog(w) PROVE TypeOK'
  <2>1. pc' \in [Threads -> Places]
    BY <1>13, <1>p DEF SinkLog
  <2>2. /\ at \in [Workers -> 1..(Len(Sinks) + 1)] /\ DOMAIN Sinks = 1..Len(Sinks)
        /\ Len(Sinks) \in Nat /\ at[w] \in DOMAIN Sinks
    BY <1>13, AsyncAssumption DEF SinkLog, TypeOK
  <2>3. at' \in [Workers -> 1..(Len(Sinks) + 1)]
    BY <1>13, <2>2 DEF SinkLog
  <2>4. /\ written' \in [DOMAIN Sinks -> Seq(AllMessages)]
        /\ \A s \in DOMAIN Sinks : Len(written'[s]) >= Len(written[s])
    <3>1. held[w] \in AllMessages
      BY <1>13, <1>k DEF SinkLog, Roles, Role
    <3>2. written \in [DOMAIN Sinks -> Seq(AllMessages)]
      BY DEF TypeOK
    <3>3. written' = written \/ written' = [written EXCEPT ![at[w]] = Append(@, held[w])]
      BY <1>13 DEF SinkLog
    <3>4. CASE written' = [written EXCEPT ![at[w]] = Append(@, held[w])]
      BY <2>2, <3>1, <3>2, <3>4, Grows
    <3>5. CASE written' = written
      BY <3>2, <3>5
    <3>6. QED
      BY <3>3, <3>4, <3>5
  <2>5. \A s \in DOMAIN Sinks : flushed[s] <= Len(written'[s])
    <3>1. ASSUME NEW s \in DOMAIN Sinks PROVE flushed[s] <= Len(written'[s])
      <4>1. /\ flushed[s] \in Nat /\ Len(written[s]) \in Nat /\ Len(written'[s]) \in Nat
            /\ flushed[s] <= Len(written[s]) /\ Len(written'[s]) >= Len(written[s])
        BY <2>4 DEF TypeOK
      <4>2. QED
        BY <4>1
    <3>2. QED
      BY <3>1
  <2>6. QED
    BY <1>13, <1>a, <2>1, <2>3, <2>4, <2>5 DEF SinkLog, TypeOK, Places, pool
<1>14. ASSUME NEW w \in Workers, SinksDone(w) PROVE TypeOK'
  <2>1. pc' \in [Threads -> Places]
    BY <1>14, <1>p, <1>k DEF SinksDone, Go, Places
  <2>2. at' \in [Workers -> 1..(Len(Sinks) + 1)]
    <3>1. Len(Sinks) \in Nat /\ at \in [Workers -> 1..(Len(Sinks) + 1)]
      BY AsyncAssumption DEF TypeOK
    <3>2. QED
      BY <1>14, <3>1 DEF SinksDone
  <2>3. QED
    BY <1>14, <1>a, <2>1, <2>2 DEF SinksDone, TypeOK, Places, pool
<1>15. ASSUME NEW w \in Workers, SinkFlush(w) PROVE TypeOK'
  <2>1. pc' \in [Threads -> Places]
    BY <1>15, <1>p DEF SinkFlush
  <2>2. /\ at \in [Workers -> 1..(Len(Sinks) + 1)] /\ DOMAIN Sinks = 1..Len(Sinks)
        /\ Len(Sinks) \in Nat /\ at[w] \in DOMAIN Sinks
    BY <1>15, AsyncAssumption DEF SinkFlush, TypeOK
  <2>3. at' \in [Workers -> 1..(Len(Sinks) + 1)]
    BY <1>15, <2>2 DEF SinkFlush
  <2>4. /\ flushed' \in [DOMAIN Sinks -> Nat]
        /\ \A s \in DOMAIN Sinks : flushed'[s] <= Len(written[s])
    <3>1. /\ written \in [DOMAIN Sinks -> Seq(AllMessages)] /\ flushed \in [DOMAIN Sinks -> Nat]
          /\ \A s \in DOMAIN Sinks : flushed[s] <= Len(written[s])
      BY DEF TypeOK
    <3>2. flushed' = flushed \/ flushed' = [flushed EXCEPT ![at[w]] = Len(written[at[w]])]
      BY <1>15 DEF SinkFlush
    <3>3. ASSUME NEW s \in DOMAIN Sinks, flushed' = [flushed EXCEPT ![at[w]] = Len(written[at[w]])]
          PROVE  flushed'[s] \in Nat /\ flushed'[s] <= Len(written[s])
      <4>1. flushed'[s] = IF s = at[w] THEN Len(written[s]) ELSE flushed[s]
        BY <3>1, <3>3
      <4>2. Len(written[s]) \in Nat /\ flushed[s] \in Nat /\ flushed[s] <= Len(written[s])
        BY <3>1
      <4>3. QED
        BY <4>1, <4>2
    <3>4. DOMAIN flushed' = DOMAIN Sinks /\ flushed' = [s \in DOMAIN Sinks |-> flushed'[s]]
      BY <3>1, <3>2
    <3>5. QED
      BY <3>1, <3>2, <3>3, <3>4
  <2>5. QED
    BY <1>15, <1>a, <2>1, <2>3, <2>4 DEF SinkFlush, TypeOK, Places, pool
<1>16. ASSUME NEW w \in Workers, Finish(w) PROVE TypeOK'
  <2>1. pc' \in [Threads -> Places]
    BY <1>16, <1>p, <1>k DEF Finish, Go, Places
  <2>2. at' \in [Workers -> 1..(Len(Sinks) + 1)]
    <3>1. Len(Sinks) \in Nat /\ at \in [Workers -> 1..(Len(Sinks) + 1)]
      BY AsyncAssumption DEF TypeOK
    <3>2. QED
      BY <1>16, <3>1 DEF Finish
  <2>3. held' \in [Threads -> AllMessages \cup {Terminate, NoMessage}]
    BY <1>16, <1>p DEF Finish
  <2>4. handled' \subseteq AllMessages
    BY <1>16, <1>k DEF Finish, Roles, Role, TypeOK
  <2>5. QED
    BY <1>16, <1>a, <2>1, <2>2, <2>3, <2>4 DEF Finish, TypeOK, Places, pool
<1>17. ASSUME NEW p \in Producers, Post(p) PROVE TypeOK'
  <2>1. pc' \in [Threads -> Places]
    BY <1>17, <1>p, <1>k DEF Post, Go, Places
  <2>2. pos' \in [Producers -> Nat]
    BY <1>17 DEF Post, TypeOK
  <2>3. <<p, pos[p] + 1>> \in AllMessages
    BY <1>17, PostIsMessage DEF Post
  <2>4. held' \in [Threads -> AllMessages \cup {Terminate, NoMessage}]
    BY <1>17, <1>p, <2>3 DEF Post
  <2>5. refs' \subseteq Producers \cup {Owner}
    BY <1>17 DEF Post, TypeOK
  <2>6. QED
    BY <1>17, <1>a, <2>1, <2>2, <2>4, <2>5 DEF Post, TypeOK, Places, output
<1>18. ASSUME NEW p \in Producers, Reject(p) PROVE TypeOK'
  <2>1. pc' \in [Threads -> Places]
    BY <1>18, <1>p DEF Reject
  <2>2. pos' \in [Producers -> Nat]
    BY <1>18 DEF Reject, TypeOK
  <2>3. rejected' \subseteq AllMessages
    BY <1>18, PostIsMessage DEF Reject, TypeOK
  <2>4. QED
    BY <1>18, <1>a, <2>1, <2>2, <2>3 DEF Reject, TypeOK, Places, pool, output
<1>19. ASSUME Constructed PROVE TypeOK'
  <2>1. pc' \in [Threads -> Places]
    BY <1>19, <1>p DEF Constructed
  <2>2. QED
    BY <1>19, <1>a, <1>k, <2>1 DEF Constructed, TypeOK, Places, choice, pool, output
<1>20. QED
  BY <1>1, <1>2, <1>3, <1>4, <1>5, <1>6, <1>7, <1>8, <1>9, <1>10, <1>11, <1>12, <1>13,
     <1>14, <1>15, <1>16, <1>17, <1>18, <1>19, Actions
------------------------------------------------------------------------------
(* What each thread may be doing.                                          *)

LEMMA Movers ==
    ASSUME TypeOK
    PROVE  /\ \A t \in Senders : Enqueue(t) \/ WaitForRoom(t) \/ NotifyPush(t) \/ Spurious(t)
                                 \/ Release(t) \/ PostTerminate(t) \/ Join(t) => Moves(t)
           /\ \A w \in Workers : Dequeue(w) \/ WaitForItem(w) \/ Expire(w) \/ NotifyPop(w)
                                 \/ StartWorker(w) \/ SinkLog(w) \/ SinksDone(w)
                                 \/ SinkFlush(w) \/ Finish(w) => Moves(w)
           /\ \A p \in Producers : Post(p) \/ Reject(p) => Moves(p)
           /\ Constructed => Moves(Owner)
<1>p. pc \in [Threads -> Places] /\ held \in [Threads -> AllMessages \cup {Terminate, NoMessage}]
      /\ at \in [Workers -> 1..(Len(Sinks) + 1)]
  BY DEF TypeOK, Places
<1> USE DEF Moves, Go, output, pool
<1>1. ASSUME NEW t \in Senders, Enqueue(t) PROVE Moves(t)
  BY <1>1, <1>p DEF Enqueue
<1>2. ASSUME NEW t \in Senders, WaitForRoom(t) PROVE Moves(t)
  BY <1>2, <1>p DEF WaitForRoom
<1>3. ASSUME NEW t \in Senders, NotifyPush(t) PROVE Moves(t)
  BY <1>3, <1>p DEF NotifyPush, NotifyOne, At
<1>4. ASSUME NEW t \in Senders, Spurious(t) PROVE Moves(t)
  BY <1>4, <1>p DEF Spurious
<1>5. ASSUME NEW t \in Senders, Release(t) PROVE Moves(t)
  BY <1>5, <1>p DEF Release
<1>6. ASSUME NEW t \in Senders, PostTerminate(t) PROVE Moves(t)
  BY <1>6, <1>p DEF PostTerminate
<1>7. ASSUME NEW t \in Senders, Join(t) PROVE Moves(t)
  BY <1>7, <1>p DEF Join
<1>8. ASSUME NEW w \in Workers, Dequeue(w) PROVE Moves(w)
  BY <1>8, <1>p DEF Dequeue
<1>9. ASSUME NEW w \in Workers, WaitForItem(w) PROVE Moves(w)
  BY <1>9, <1>p DEF WaitForItem
<1>10. ASSUME NEW w \in Workers, Expire(w) PROVE Moves(w)
  BY <1>10, <1>p DEF Expire
<1>11. ASSUME NEW w \in Workers, NotifyPop(w) PROVE Moves(w)
  BY <1>11, <1>p DEF NotifyPop, NotifyOne, At
<1>12. ASSUME NEW w \in Workers, StartWorker(w) PROVE Moves(w)
  BY <1>12, <1>p DEF StartWorker
<1>13. ASSUME NEW w \in Workers, SinkLog(w) PROVE Moves(w)
  BY <1>13, <1>p DEF SinkLog
<1>14. ASSUME NEW w \in Workers, SinksDone(w) PROVE Moves(w)
  BY <1>14, <1>p DEF SinksDone
<1>15. ASSUME NEW w \in Workers, SinkFlush(w) PROVE Moves(w)
  BY <1>15, <1>p DEF SinkFlush
<1>16. ASSUME NEW w \in Workers, Finish(w) PROVE Moves(w)
  BY <1>16, <1>p DEF Finish
<1>17. ASSUME NEW p \in Producers, Post(p) PROVE Moves(p)
  BY <1>17, <1>p DEF Post
<1>18. ASSUME NEW p \in Producers, Reject(p) PROVE Moves(p)
  BY <1>18, <1>p DEF Reject
<1>19. ASSUME Constructed PROVE Moves(Owner)
  BY <1>19, <1>p DEF Constructed
<1> HIDE DEF Moves
<1>20. QED
  BY <1>1, <1>2, <1>3, <1>4, <1>5, <1>6, <1>7, <1>8, <1>9, <1>10, <1>11, <1>12, <1>13,
     <1>14, <1>15, <1>16, <1>17, <1>18, <1>19

LEMMA OthersRole ==
    ASSUME Roles, Next, NEW t \in Threads, Moves(t), NEW u \in Threads \ {t},
           u \in Producers => pos'[u] = pos[u]
    PROVE  Role(u)'
<1>1. threads_' = threads_ /\ program' = program /\ AllMessages' = AllMessages
  BY Chosen
<1>2. /\ held'[u] = held[u] /\ (u \in Workers => at'[u] = at[u])
      /\ \/ pc'[u] = pc[u]
         \/ pc[u] = "empty" /\ pc'[u] = "dequeue"
         \/ pc[u] = "full" /\ pc'[u] = "enqueue"
  BY DEF Moves
<1>3. FlushesAfter(held[u])' = FlushesAfter(held[u]) /\ Policy(held[u])' = Policy(held[u])
  BY <1>1, <1>2 DEF FlushesAfter, Policy, Request
<1>4. Role(u)
  BY DEF Roles
<1>5. QED
  BY <1>1, <1>2, <1>3, <1>4, ThreadKinds DEF Role, Carrying

LEMMA RolesFollow ==
    ASSUME Roles, Next, NEW t \in Threads, Moves(t), Role(t)',
           \A p \in Producers \ {t} : pos'[p] = pos[p],
           Line' \in Seq(AllMessages \cup {Terminate})
    PROVE  Roles'
<1>1. AllMessages' = AllMessages
  BY Chosen
<1>2. ASSUME NEW u \in Threads PROVE Role(u)'
  <2>1. CASE u = t
    BY <2>1
  <2>2. CASE u # t
    BY <2>2, OthersRole
  <2>3. QED
    BY <2>1, <2>2
<1>3. QED
  BY <1>1, <1>2 DEF Roles, Threads, Terminate

LEMMA NextRoles == ASSUME TypeOK, Roles, Next PROVE Roles'
<1>a. threads_' = threads_ /\ program' = program /\ AllMessages' = AllMessages
  BY Chosen
<1>p. /\ pc \in [Threads -> Places] /\ held \in [Threads -> AllMessages \cup {Terminate, NoMessage}]
      /\ at \in [Workers -> 1..(Len(Sinks) + 1)] /\ pos \in [Producers -> Nat]
      /\ Line \in Seq(AllMessages \cup {Terminate})
  BY DEF TypeOK, Places, Roles
<1>k. /\ Threads = Senders \cup Workers /\ Senders \cap Workers = {}
      /\ Producers \subseteq Senders /\ Owner \in Senders /\ Owner \notin Producers
  BY ThreadKinds
<1>m. Terminate \notin AllMessages /\ NoMessage \notin AllMessages /\ Terminate # NoMessage
  BY MessagesApart
<1>r. \A t \in Threads : Role(t)
  BY DEF Roles
<1>f. \A m : Policy(m)' = Policy(m) /\ FlushesAfter(m)' = FlushesAfter(m)
  BY <1>a DEF Policy, FlushesAfter, Request
<1>1. ASSUME NEW t \in Senders, Enqueue(t) PROVE Roles'
  <2>1. Role(t)'
    BY <1>1, <1>a, <1>p, <1>k, <1>m, <1>r, <1>f DEF Enqueue, Go, Role, Carrying, pool,
       output
  <2>2. \A r \in Producers \ {t} : pos'[r] = pos[r]
    BY <1>1, <1>p DEF Enqueue
  <2>3. held[t] \in AllMessages \cup {Terminate}
    BY <1>1, <1>p, <1>k, <1>r DEF Enqueue, Role, Carrying
  <2>4. Line' \in Seq(AllMessages \cup {Terminate})
    <3>1. Line' = Append(IF Full(q) THEN Tail(Line) ELSE Line, held[t])
      BY <1>1, <2>3, Pushes DEF Enqueue
    <3>2. Full(q) => Line # <<>>
      BY <1>p, QueueIs
    <3>3. QED
      BY <1>p, <2>3, <3>1, <3>2
  <2>5. QED
    BY <1>1, <1>k, <2>1, <2>2, <2>4, Movers, RolesFollow
<1>2. ASSUME NEW t \in Senders, WaitForRoom(t) PROVE Roles'
  <2>1. Role(t)'
    BY <1>2, <1>a, <1>p, <1>k, <1>m, <1>r, <1>f DEF WaitForRoom, Go, Role, Carrying, pool,
       output
  <2>2. \A r \in Producers \ {t} : pos'[r] = pos[r]
    BY <1>2, <1>p DEF WaitForRoom
  <2>3. q' = q
    BY <1>2 DEF WaitForRoom
  <2>4. Line' \in Seq(AllMessages \cup {Terminate})
    BY <1>p, <2>3 DEF Line
  <2>5. QED
    BY <1>2, <1>k, <2>1, <2>2, <2>4, Movers, RolesFollow
<1>3. ASSUME NEW t \in Senders, NotifyPush(t) PROVE Roles'
  <2>1. Role(t)'
    BY <1>3, <1>a, <1>p, <1>k, <1>m, <1>r, <1>f DEF NotifyPush, Go, Role, Carrying, pool,
       output, NotifyOne, At
  <2>2. \A r \in Producers \ {t} : pos'[r] = pos[r]
    BY <1>3, <1>p DEF NotifyPush
  <2>3. q' = q
    BY <1>3 DEF NotifyPush
  <2>4. Line' \in Seq(AllMessages \cup {Terminate})
    BY <1>p, <2>3 DEF Line
  <2>5. QED
    BY <1>3, <1>k, <2>1, <2>2, <2>4, Movers, RolesFollow
<1>4. ASSUME NEW t \in Senders, Spurious(t) PROVE Roles'
  <2>1. Role(t)'
    BY <1>4, <1>a, <1>p, <1>k, <1>m, <1>r, <1>f DEF Spurious, Go, Role, Carrying, pool,
       output
  <2>2. \A r \in Producers \ {t} : pos'[r] = pos[r]
    BY <1>4, <1>p DEF Spurious
  <2>3. q' = q
    BY <1>4 DEF Spurious
  <2>4. Line' \in Seq(AllMessages \cup {Terminate})
    BY <1>p, <2>3 DEF Line
  <2>5. QED
    BY <1>4, <1>k, <2>1, <2>2, <2>4, Movers, RolesFollow
<1>5. ASSUME NEW t \in Senders, Release(t) PROVE Roles'
  <2>1. Role(t)'
    BY <1>5, <1>a, <1>p, <1>k, <1>m, <1>r, <1>f DEF Release, Go, Role, Carrying, pool,
       output
  <2>2. \A r \in Producers \ {t} : pos'[r] = pos[r]
    BY <1>5, <1>p DEF Release
  <2>3. q' = q
    BY <1>5 DEF Release
  <2>4. Line' \in Seq(AllMessages \cup {Terminate})
    BY <1>p, <2>3 DEF Line
  <2>5. QED
    BY <1>5, <1>k, <2>1, <2>2, <2>4, Movers, RolesFollow
<1>6. ASSUME NEW t \in Senders, PostTerminate(t) PROVE Roles'
  <2>1. Role(t)'
    BY <1>6, <1>a, <1>p, <1>k, <1>m, <1>r, <1>f DEF PostTerminate, Go, Role, Carrying,
       pool, output
  <2>2. \A r \in Producers \ {t} : pos'[r] = pos[r]
    BY <1>6, <1>p DEF PostTerminate
  <2>3. q' = q
    BY <1>6 DEF PostTerminate
  <2>4. Line' \in Seq(AllMessages \cup {Terminate})
    BY <1>p, <2>3 DEF Line
  <2>5. QED
    BY <1>6, <1>k, <2>1, <2>2, <2>4, Movers, RolesFollow
<1>7. ASSUME NEW t \in Senders, Join(t) PROVE Roles'
  <2>1. Role(t)'
    BY <1>7, <1>a, <1>p, <1>k, <1>m, <1>r, <1>f DEF Join, Go, Role, Carrying, pool, output
  <2>2. \A r \in Producers \ {t} : pos'[r] = pos[r]
    BY <1>7, <1>p DEF Join
  <2>3. q' = q
    BY <1>7 DEF Join
  <2>4. Line' \in Seq(AllMessages \cup {Terminate})
    BY <1>p, <2>3 DEF Line
  <2>5. QED
    BY <1>7, <1>k, <2>1, <2>2, <2>4, Movers, RolesFollow
<1>8. ASSUME NEW w \in Workers, Dequeue(w) PROVE Roles'
  <2>f. FrontItem(q) \in AllMessages \cup {Terminate}
    BY <1>8, <1>p, Pops DEF Dequeue
  <2>1. Role(w)'
    BY <1>8, <2>f, <1>a, <1>p, <1>k, <1>m, <1>r, <1>f DEF Dequeue, Go, Role, Carrying,
       pool, output
  <2>2. \A r \in Producers \ {w} : pos'[r] = pos[r]
    BY <1>8, <1>p DEF Dequeue
  <2>3. Line # <<>> /\ Line' = Tail(Line)
    BY <1>8, Pops DEF Dequeue
  <2>4. Line' \in Seq(AllMessages \cup {Terminate})
    BY <1>p, <2>3
  <2>5. QED
    BY <1>8, <1>k, <2>1, <2>2, <2>4, Movers, RolesFollow
<1>9. ASSUME NEW w \in Workers, WaitForItem(w) PROVE Roles'
  <2>1. Role(w)'
    BY <1>9, <1>a, <1>p, <1>k, <1>m, <1>r, <1>f DEF WaitForItem, Go, Role, Carrying, pool,
       output
  <2>2. \A r \in Producers \ {w} : pos'[r] = pos[r]
    BY <1>9, <1>p DEF WaitForItem
  <2>3. q' = q
    BY <1>9 DEF WaitForItem
  <2>4. Line' \in Seq(AllMessages \cup {Terminate})
    BY <1>p, <2>3 DEF Line
  <2>5. QED
    BY <1>9, <1>k, <2>1, <2>2, <2>4, Movers, RolesFollow
<1>10. ASSUME NEW w \in Workers, Expire(w) PROVE Roles'
  <2>1. Role(w)'
    BY <1>10, <1>a, <1>p, <1>k, <1>m, <1>r, <1>f DEF Expire, Go, Role, Carrying, pool,
       output
  <2>2. \A r \in Producers \ {w} : pos'[r] = pos[r]
    BY <1>10, <1>p DEF Expire
  <2>3. q' = q
    BY <1>10 DEF Expire
  <2>4. Line' \in Seq(AllMessages \cup {Terminate})
    BY <1>p, <2>3 DEF Line
  <2>5. QED
    BY <1>10, <1>k, <2>1, <2>2, <2>4, Movers, RolesFollow
<1>11. ASSUME NEW w \in Workers, NotifyPop(w) PROVE Roles'
  <2>1. Role(w)'
    BY <1>11, <1>a, <1>p, <1>k, <1>m, <1>r, <1>f DEF NotifyPop, Go, Role, Carrying, pool,
       output, NotifyOne, At
  <2>2. \A r \in Producers \ {w} : pos'[r] = pos[r]
    BY <1>11, <1>p DEF NotifyPop
  <2>3. q' = q
    BY <1>11 DEF NotifyPop
  <2>4. Line' \in Seq(AllMessages \cup {Terminate})
    BY <1>p, <2>3 DEF Line
  <2>5. QED
    BY <1>11, <1>k, <2>1, <2>2, <2>4, Movers, RolesFollow
<1>12. ASSUME NEW w \in Workers, StartWorker(w) PROVE Roles'
  <2>1. Role(w)'
    BY <1>12, <1>a, <1>p, <1>k, <1>m, <1>r, <1>f DEF StartWorker, Go, Role, Carrying, pool,
       output
  <2>2. \A r \in Producers \ {w} : pos'[r] = pos[r]
    BY <1>12, <1>p DEF StartWorker
  <2>3. q' = q
    BY <1>12 DEF StartWorker
  <2>4. Line' \in Seq(AllMessages \cup {Terminate})
    BY <1>p, <2>3 DEF Line
  <2>5. QED
    BY <1>12, <1>k, <2>1, <2>2, <2>4, Movers, RolesFollow
<1>13. ASSUME NEW w \in Workers, SinkLog(w) PROVE Roles'
  <2>1. Role(w)'
    BY <1>13, <1>a, <1>p, <1>k, <1>m, <1>r, <1>f DEF SinkLog, Go, Role, Carrying, pool,
       output, Flushing
  <2>2. \A r \in Producers \ {w} : pos'[r] = pos[r]
    BY <1>13, <1>p DEF SinkLog
  <2>3. q' = q
    BY <1>13 DEF SinkLog
  <2>4. Line' \in Seq(AllMessages \cup {Terminate})
    BY <1>p, <2>3 DEF Line
  <2>5. QED
    BY <1>13, <1>k, <2>1, <2>2, <2>4, Movers, RolesFollow
<1>14. ASSUME NEW w \in Workers, SinksDone(w) PROVE Roles'
  <2>1. Role(w)'
    BY <1>14, <1>a, <1>p, <1>k, <1>m, <1>r, <1>f DEF SinksDone, Go, Role, Carrying, pool,
       output, Flushing
  <2>2. \A r \in Producers \ {w} : pos'[r] = pos[r]
    BY <1>14, <1>p DEF SinksDone
  <2>3. q' = q
    BY <1>14 DEF SinksDone
  <2>4. Line' \in Seq(AllMessages \cup {Terminate})
    BY <1>p, <2>3 DEF Line
  <2>5. QED
    BY <1>14, <1>k, <2>1, <2>2, <2>4, Movers, RolesFollow
<1>15. ASSUME NEW w \in Workers, SinkFlush(w) PROVE Roles'
  <2>1. Role(w)'
    BY <1>15, <1>a, <1>p, <1>k, <1>m, <1>r, <1>f DEF SinkFlush, Go, Role, Carrying, pool,
       output, Flushing
  <2>2. \A r \in Producers \ {w} : pos'[r] = pos[r]
    BY <1>15, <1>p DEF SinkFlush
  <2>3. q' = q
    BY <1>15 DEF SinkFlush
  <2>4. Line' \in Seq(AllMessages \cup {Terminate})
    BY <1>p, <2>3 DEF Line
  <2>5. QED
    BY <1>15, <1>k, <2>1, <2>2, <2>4, Movers, RolesFollow
<1>16. ASSUME NEW w \in Workers, Finish(w) PROVE Roles'
  <2>1. Role(w)'
    BY <1>16, <1>a, <1>p, <1>k, <1>m, <1>r, <1>f DEF Finish, Go, Role, Carrying, pool,
       output, Flushing
  <2>2. \A r \in Producers \ {w} : pos'[r] = pos[r]
    BY <1>16, <1>p DEF Finish
  <2>3. q' = q
    BY <1>16 DEF Finish
  <2>4. Line' \in Seq(AllMessages \cup {Terminate})
    BY <1>p, <2>3 DEF Line
  <2>5. QED
    BY <1>16, <1>k, <2>1, <2>2, <2>4, Movers, RolesFollow
<1>17. ASSUME NEW p \in Producers, Post(p) PROVE Roles'
  <2>m. <<p, pos[p] + 1>> \in AllMessages
    BY <1>17, PostIsMessage DEF Post
  <2>1. Role(p)'
    BY <1>17, <2>m, <1>a, <1>p, <1>k, <1>m, <1>r, <1>f DEF Post, Go, Role, Carrying, pool,
       output
  <2>2. \A r \in Producers \ {p} : pos'[r] = pos[r]
    BY <1>17, <1>p DEF Post
  <2>3. q' = q
    BY <1>17 DEF Post
  <2>4. Line' \in Seq(AllMessages \cup {Terminate})
    BY <1>p, <2>3 DEF Line
  <2>5. QED
    BY <1>17, <1>k, <2>1, <2>2, <2>4, Movers, RolesFollow
<1>18. ASSUME NEW p \in Producers, Reject(p) PROVE Roles'
  <2>1. Role(p)'
    BY <1>18, <1>a, <1>p, <1>k, <1>m, <1>r, <1>f DEF Reject, Go, Role, Carrying, pool,
       output
  <2>2. \A r \in Producers \ {p} : pos'[r] = pos[r]
    BY <1>18, <1>p DEF Reject
  <2>3. q' = q
    BY <1>18 DEF Reject
  <2>4. Line' \in Seq(AllMessages \cup {Terminate})
    BY <1>p, <2>3 DEF Line
  <2>5. QED
    BY <1>18, <1>k, <2>1, <2>2, <2>4, Movers, RolesFollow
<1>19. ASSUME Constructed PROVE Roles'
  <2>1. Role(Owner)'
    BY <1>19, <1>a, <1>p, <1>k, <1>m, <1>r, <1>f DEF Constructed, Go, Role, Carrying, pool,
       output
  <2>2. \A r \in Producers \ {Owner} : pos'[r] = pos[r]
    BY <1>19, <1>p DEF Constructed
  <2>3. q' = q
    BY <1>19 DEF Constructed
  <2>4. Line' \in Seq(AllMessages \cup {Terminate})
    BY <1>p, <2>3 DEF Line
  <2>5. QED
    BY <1>19, <1>k, <2>1, <2>2, <2>4, Movers, RolesFollow
<1>20. QED
  BY <1>1, <1>2, <1>3, <1>4, <1>5, <1>6, <1>7, <1>8, <1>9, <1>10, <1>11, <1>12, <1>13,
     <1>14, <1>15, <1>16, <1>17, <1>18, <1>19, Actions
------------------------------------------------------------------------------
(* The steps that move messages.                                           *)

\* How many items a push throws away.
Dropped == IF Full(q) THEN 1 ELSE 0

LEMMA EnqueueMoves ==
    ASSUME TypeOK, Roles, NEW t \in Senders, Enqueue(t)
    PROVE  /\ held[t] \in AllMessages \cup {Terminate} /\ held' = [held EXCEPT ![t] = NoMessage]
           /\ Len(Line) \in Nat /\ Dropped \in {0, 1} /\ Dropped <= Len(Line)
           /\ Len(Line') = Len(Line) + 1 - Dropped
           /\ \A i \in 1..(Len(Line) - Dropped) : Line'[i] = Line[i + Dropped]
           /\ Line'[Len(Line')] = held[t]
           /\ q'.over = q.over + Dropped /\ q.over \in Nat
           /\ Dropped = 1 => Policy(held[t]) = "overrun_oldest" /\ held[t] \in AllMessages
<1>1. held[t] \in AllMessages \cup {Terminate}
  BY ThreadKinds DEF Enqueue, Roles, Role, Carrying, TypeOK
<1>2. /\ Line' = Append(IF Full(q) THEN Tail(Line) ELSE Line, held[t])
      /\ q'.over = IF Full(q) THEN q.over + 1 ELSE q.over
  BY <1>1, Pushes DEF Enqueue
<1>3. Line \in Seq(AllMessages \cup {Terminate})
  BY DEF Roles
<1>4. q.over \in Nat /\ (Full(q) => Line # <<>> /\ Len(Line) > 0)
  BY QueueIs
<1>5. CASE Full(q)
  <2>1. Policy(held[t]) = "overrun_oldest" /\ held[t] # Terminate
    BY <1>5 DEF Enqueue, Policy
  <2>2. Dropped = 1
    BY <1>5 DEF Dropped
  <2>3. Tail(Line) \in Seq(AllMessages \cup {Terminate}) /\ Len(Tail(Line)) = Len(Line) - 1
    BY <1>3, <1>4, <1>5
  <2>4. \A i \in 1..(Len(Line) - 1) : Tail(Line)[i] = Line[i + 1]
    BY <1>3, <1>4, <1>5
  <2>5. QED
    BY <1>1, <1>2, <1>3, <1>4, <1>5, <2>1, <2>2, <2>3, <2>4 DEF Enqueue, TypeOK
<1>6. CASE ~Full(q)
  <2>1. Dropped = 0
    BY <1>6 DEF Dropped
  <2>2. QED
    BY <1>1, <1>2, <1>3, <1>4, <1>6, <2>1 DEF Enqueue, TypeOK
<1>7. QED
  BY <1>5, <1>6

LEMMA DequeueMoves ==
    ASSUME TypeOK, Roles, NEW w \in Workers, Dequeue(w)
    PROVE  /\ Len(Line) \in Nat \ {0} /\ Line[1] \in AllMessages \cup {Terminate}
           /\ held[w] = NoMessage /\ held' = [held EXCEPT ![w] = Line[1]]
           /\ Len(Line') = Len(Line) - 1
           /\ \A i \in 1..(Len(Line) - 1) : Line'[i] = Line[i + 1]
           /\ q'.over = q.over
<1>1. /\ Line # <<>> /\ Len(Line) > 0 /\ FrontItem(q) = Head(Line) /\ Line' = Tail(Line)
      /\ q'.over = q.over
  BY Pops DEF Dequeue
<1>2. Line \in Seq(AllMessages \cup {Terminate})
  BY DEF Roles
<1>3. held[w] = NoMessage
  BY ThreadKinds DEF Dequeue, Roles, Role, Carrying
<1>4. Head(Line) = Line[1] /\ Len(Tail(Line)) = Len(Line) - 1 /\ Len(Line) \in Nat
  BY <1>1, <1>2
<1>5. \A i \in 1..(Len(Line) - 1) : Tail(Line)[i] = Line[i + 1]
  BY <1>1, <1>2
<1>6. QED
  BY <1>1, <1>2, <1>3, <1>4, <1>5 DEF Dequeue

LEMMA PostMoves ==
    ASSUME TypeOK, Roles, NEW p \in Producers, Post(p)
    PROVE  /\ <<p, pos[p] + 1>> \in AllMessages /\ held[p] = NoMessage
           /\ held' = [held EXCEPT ![p] = <<p, pos[p] + 1>>] /\ pos' = [pos EXCEPT ![p] = @ + 1]
           /\ Line' = Line /\ q' = q /\ pos[p] \in Nat
<1>1. <<p, pos[p] + 1>> \in AllMessages /\ q' = q /\ pos[p] \in Nat
  BY PostIsMessage DEF Post, TypeOK
<1>2. held[p] = NoMessage
  BY ThreadKinds DEF Post, Roles, Role, Carrying
<1>3. QED
  BY <1>1, <1>2 DEF Post, Line
------------------------------------------------------------------------------
(* The life of the pool.                                                   *)

LEMMA NextQuiet == ASSUME TypeOK, Roles, Quiet, Life, Next PROVE Quiet'
<1>k. /\ Threads = Senders \cup Workers /\ Senders \cap Workers = {}
      /\ Producers \subseteq Senders /\ Owner \in Senders /\ Owner \notin Producers
  BY ThreadKinds
<1>m. Terminate \notin AllMessages /\ NoMessage \notin AllMessages /\ Terminate # NoMessage
  BY MessagesApart
<1>p. /\ held \in [Threads -> AllMessages \cup {Terminate, NoMessage}]
      /\ phase \in {"constructing", "open", "closing", "destroyed"}
  BY DEF TypeOK
\* Steps that neither move a message nor open the pool.
<1>u. ASSUME held' = held, q' = q, phase' \in {"constructing", "open"} => phase \in {"constructing", "open"}
      PROVE  Quiet'
  BY <1>u DEF Quiet, Line, Terminate
<1>1. ASSUME NEW t \in Senders, Enqueue(t) PROVE Quiet'
  <2>1. SUFFICES ASSUME phase' \in {"constructing", "open"}
                 PROVE  /\ \A u \in Threads : held'[u] # Terminate
                        /\ \A i \in 1..Len(Line') : Line'[i] # Terminate
    BY DEF Quiet, Terminate
  <2>2. /\ \A u \in Threads : held[u] # Terminate
        /\ \A i \in 1..Len(Line) : Line[i] # Terminate
    BY <1>1, <2>1 DEF Enqueue, pool, Quiet
  <2>3. \A u \in Threads : held'[u] # Terminate
    BY <1>1, <1>m, <1>p, <2>2, EnqueueMoves
  <2>4. ASSUME NEW i \in 1..Len(Line') PROVE Line'[i] # Terminate
    <3>1. CASE i = Len(Line')
      BY <1>1, <1>k, <2>2, <3>1, EnqueueMoves
    <3>2. CASE i # Len(Line')
      <4>1. i \in 1..(Len(Line) - Dropped) /\ i + Dropped \in 1..Len(Line)
        BY <1>1, <3>2, EnqueueMoves
      <4>2. QED
        BY <1>1, <2>2, <4>1, EnqueueMoves
    <3>3. QED
      BY <3>1, <3>2
  <2>5. QED
    BY <2>3, <2>4
<1>2. ASSUME NEW t \in Senders, WaitForRoom(t) PROVE Quiet'
  BY <1>2, <1>u DEF WaitForRoom, pool
<1>3. ASSUME NEW t \in Senders, NotifyPush(t) PROVE Quiet'
  BY <1>3, <1>u DEF NotifyPush, pool
<1>4. ASSUME NEW t \in Senders, Spurious(t) PROVE Quiet'
  BY <1>4, <1>u DEF Spurious, pool
<1>5. ASSUME NEW t \in Senders, Release(t) PROVE Quiet'
  BY <1>5, <1>p, <1>u DEF Release, output
<1>6. ASSUME NEW t \in Senders, PostTerminate(t) PROVE Quiet'
  BY <1>6 DEF PostTerminate, Quiet
<1>7. ASSUME NEW t \in Senders, Join(t) PROVE Quiet'
  BY <1>7, <1>p, <1>u DEF Join, output
<1>8. ASSUME NEW w \in Workers, Dequeue(w) PROVE Quiet'
  <2>1. SUFFICES ASSUME phase' \in {"constructing", "open"}
                 PROVE  /\ \A u \in Threads : held'[u] # Terminate
                        /\ \A i \in 1..Len(Line') : Line'[i] # Terminate
    BY DEF Quiet, Terminate
  <2>2. /\ \A u \in Threads : held[u] # Terminate
        /\ \A i \in 1..Len(Line) : Line[i] # Terminate
    BY <1>8, <2>1 DEF Dequeue, pool, Quiet
  <2>3. /\ Len(Line) \in Nat \ {0} /\ held' = [held EXCEPT ![w] = Line[1]]
        /\ Len(Line') = Len(Line) - 1
        /\ \A i \in 1..(Len(Line) - 1) : Line'[i] = Line[i + 1]
    BY <1>8, DequeueMoves
  <2>4. \A u \in Threads : held'[u] # Terminate
    BY <1>p, <2>2, <2>3
  <2>5. ASSUME NEW i \in 1..Len(Line') PROVE Line'[i] # Terminate
    BY <2>2, <2>3
  <2>6. QED
    BY <2>4, <2>5
<1>9. ASSUME NEW w \in Workers, WaitForItem(w) PROVE Quiet'
  BY <1>9, <1>u DEF WaitForItem, pool
<1>10. ASSUME NEW w \in Workers, Expire(w) PROVE Quiet'
  BY <1>10, <1>u DEF Expire, pool
<1>11. ASSUME NEW w \in Workers, NotifyPop(w) PROVE Quiet'
  BY <1>11, <1>u DEF NotifyPop, pool
<1>12. ASSUME NEW w \in Workers, StartWorker(w) PROVE Quiet'
  BY <1>12, <1>u DEF StartWorker, pool
<1>13. ASSUME NEW w \in Workers, SinkLog(w) PROVE Quiet'
  BY <1>13, <1>u DEF SinkLog, pool
<1>14. ASSUME NEW w \in Workers, SinksDone(w) PROVE Quiet'
  BY <1>14, <1>u DEF SinksDone, pool
<1>15. ASSUME NEW w \in Workers, SinkFlush(w) PROVE Quiet'
  BY <1>15, <1>u DEF SinkFlush, pool
<1>16. ASSUME NEW w \in Workers, Finish(w) PROVE Quiet'
  <2>1. held' = [held EXCEPT ![w] = NoMessage] /\ q' = q /\ phase' = phase
    BY <1>16 DEF Finish, pool
  <2>2. QED
    BY <1>m, <1>p, <2>1 DEF Quiet, Line, Terminate
<1>17. ASSUME NEW p \in Producers, Post(p) PROVE Quiet'
  <2>1. /\ <<p, pos[p] + 1>> \in AllMessages /\ Line' = Line
        /\ held' = [held EXCEPT ![p] = <<p, pos[p] + 1>>] /\ phase' = phase
    BY <1>17, PostMoves DEF Post
  <2>2. QED
    BY <1>m, <1>p, <2>1 DEF Quiet, Terminate
<1>18. ASSUME NEW p \in Producers, Reject(p) PROVE Quiet'
  BY <1>18, <1>u DEF Reject, pool
<1>19. ASSUME Constructed PROVE Quiet'
  BY <1>19, <1>p, <1>u DEF Constructed, output
<1>20. QED
  BY <1>1, <1>2, <1>3, <1>4, <1>5, <1>6, <1>7, <1>8, <1>9, <1>10, <1>11, <1>12, <1>13,
     <1>14, <1>15, <1>16, <1>17, <1>18, <1>19, Actions

LEMMA NextLife == ASSUME TypeOK, Roles, Quiet, Life, Next PROVE Life'
<1>a. AllMessages' = AllMessages
  BY Chosen
<1>k. /\ Threads = Senders \cup Workers /\ Senders \cap Workers = {}
      /\ Producers \subseteq Senders /\ Owner \in Senders /\ Owner \notin Producers
      /\ Senders = Producers \cup {Owner}
  BY ThreadKinds DEF Senders
<1>m. Terminate \notin AllMessages /\ NoMessage \notin AllMessages /\ Terminate # NoMessage
  BY MessagesApart
<1>p. /\ held \in [Threads -> AllMessages \cup {Terminate, NoMessage}] /\ pc \in [Threads -> Places]
      /\ refs \subseteq Senders /\ phase \in {"constructing", "open", "closing", "destroyed"}
  BY DEF TypeOK, Senders, Places
<1>r. \A t \in Senders : held[t] = NoMessage <=> pc[t] \notin Carrying
  BY <1>k DEF Roles, Role
\* What the other senders do is none of its business.
<1>o. ASSUME NEW t \in Threads, Moves(t), NEW u \in Senders \ {t}
      PROVE  (pc'[u] = "idle" <=> pc[u] = "idle") /\ held'[u] = held[u]
  BY <1>o, <1>k DEF Moves
\* The steps of a sender that is at work, and of the workers.
<1>u. ASSUME NEW t \in Threads, Moves(t), UNCHANGED <<refs, phase>>,
             t \in Senders => pc[t] # "idle" /\ pc'[t] # "idle" /\ held'[t] \in {held[t], NoMessage, Terminate}
      PROVE  Life'
  <2>1. ASSUME NEW u \in Senders PROVE (pc'[u] = "idle" <=> pc[u] = "idle")
                                        /\ (held[u] \notin AllMessages => held'[u] \notin AllMessages)
    BY <1>u, <1>m, <1>o
  <2>2. QED
    BY <1>u, <1>a, <1>k, <2>1 DEF Life
<1>1. ASSUME NEW t \in Senders, Enqueue(t) PROVE Life'
  <2>1. pc[t] # "idle" /\ pc'[t] # "idle" /\ held'[t] \in {held[t], NoMessage, Terminate} /\ UNCHANGED <<refs, phase>>
    BY <1>1, <1>k, <1>p DEF Enqueue, Go, pool
  <2>2. QED
    BY <1>1, <1>k, <1>u, <2>1, Movers
<1>2. ASSUME NEW t \in Senders, WaitForRoom(t) PROVE Life'
  <2>1. pc[t] # "idle" /\ pc'[t] # "idle" /\ held'[t] \in {held[t], NoMessage, Terminate} /\ UNCHANGED <<refs, phase>>
    BY <1>2, <1>k, <1>p DEF WaitForRoom, Go, pool
  <2>2. QED
    BY <1>2, <1>k, <1>u, <2>1, Movers
<1>3. ASSUME NEW t \in Senders, NotifyPush(t) PROVE Life'
  <2>1. pc[t] # "idle" /\ pc'[t] # "idle" /\ held'[t] \in {held[t], NoMessage, Terminate} /\ UNCHANGED <<refs, phase>>
    BY <1>3, <1>k, <1>p DEF NotifyPush, Go, pool, NotifyOne
  <2>2. QED
    BY <1>3, <1>k, <1>u, <2>1, Movers
<1>4. ASSUME NEW t \in Senders, Spurious(t) PROVE Life'
  <2>1. pc[t] # "idle" /\ pc'[t] # "idle" /\ held'[t] \in {held[t], NoMessage, Terminate} /\ UNCHANGED <<refs, phase>>
    BY <1>4, <1>k, <1>p DEF Spurious, Go, pool
  <2>2. QED
    BY <1>4, <1>k, <1>u, <2>1, Movers
<1>5. ASSUME NEW t \in Senders, Release(t) PROVE Life'
  <2>1. /\ t \in refs /\ phase = "open" /\ pc[t] \in {"idle", "posted"} /\ refs' = refs \ {t}
        /\ held' = held /\ (t # Owner => pc[t] = "posted")
    BY <1>5 DEF Release
  <2>2. CASE refs' = {}
    <3>1. phase' = "closing" /\ pc' = [pc EXCEPT ![t] = "posted"]
      BY <1>5, <2>2 DEF Release, Go
    <3>2. \A u \in Senders \ {t} : pc[u] = "idle"
      BY <1>k, <2>1, <2>2 DEF Life
    <3>3. \A u \in Senders : held[u] = NoMessage
      BY <1>r, <2>1, <3>2 DEF Carrying
    <3>4. QED
      BY <1>a, <1>k, <1>m, <1>p, <2>1, <2>2, <3>1, <3>2, <3>3 DEF Life
  <2>3. CASE refs' # {}
    <3>1. phase' = "open" /\ pc' = [pc EXCEPT ![t] = "idle"]
      BY <1>5, <2>1, <2>3 DEF Release, Go
    <3>2. QED
      BY <1>k, <1>p, <2>1, <2>3, <3>1 DEF Life
  <2>4. QED
    BY <2>2, <2>3
<1>6. ASSUME NEW t \in Senders, PostTerminate(t) PROVE Life'
  <2>1. pc[t] # "idle" /\ pc'[t] # "idle" /\ held'[t] \in {held[t], NoMessage, Terminate} /\ UNCHANGED <<refs, phase>>
    BY <1>6, <1>k, <1>p DEF PostTerminate, Go, pool
  <2>2. QED
    BY <1>6, <1>k, <1>u, <2>1, Movers
<1>7. ASSUME NEW t \in Senders, Join(t) PROVE Life'
  <2>1. phase = "closing" /\ phase' = "destroyed" /\ refs' = refs /\ held' = held
        /\ pc' = [pc EXCEPT ![t] = "idle"]
    BY <1>7 DEF Join, Go
  <2>2. QED
    BY <1>a, <1>k, <1>p, <2>1 DEF Life
<1>8. ASSUME NEW w \in Workers, Dequeue(w) PROVE Life'
  <2>1. UNCHANGED <<refs, phase>>
    BY <1>8 DEF Dequeue, pool
  <2>2. QED
    BY <1>8, <1>k, <1>u, <2>1, Movers
<1>9. ASSUME NEW w \in Workers, WaitForItem(w) PROVE Life'
  <2>1. UNCHANGED <<refs, phase>>
    BY <1>9 DEF WaitForItem, pool
  <2>2. QED
    BY <1>9, <1>k, <1>u, <2>1, Movers
<1>10. ASSUME NEW w \in Workers, Expire(w) PROVE Life'
  <2>1. UNCHANGED <<refs, phase>>
    BY <1>10 DEF Expire, pool
  <2>2. QED
    BY <1>10, <1>k, <1>u, <2>1, Movers
<1>11. ASSUME NEW w \in Workers, NotifyPop(w) PROVE Life'
  <2>1. UNCHANGED <<refs, phase>>
    BY <1>11 DEF NotifyPop, pool
  <2>2. QED
    BY <1>11, <1>k, <1>u, <2>1, Movers
<1>12. ASSUME NEW w \in Workers, StartWorker(w) PROVE Life'
  <2>1. UNCHANGED <<refs, phase>>
    BY <1>12 DEF StartWorker, pool
  <2>2. QED
    BY <1>12, <1>k, <1>u, <2>1, Movers
<1>13. ASSUME NEW w \in Workers, SinkLog(w) PROVE Life'
  <2>1. UNCHANGED <<refs, phase>>
    BY <1>13 DEF SinkLog, pool
  <2>2. QED
    BY <1>13, <1>k, <1>u, <2>1, Movers
<1>14. ASSUME NEW w \in Workers, SinksDone(w) PROVE Life'
  <2>1. UNCHANGED <<refs, phase>>
    BY <1>14 DEF SinksDone, pool
  <2>2. QED
    BY <1>14, <1>k, <1>u, <2>1, Movers
<1>15. ASSUME NEW w \in Workers, SinkFlush(w) PROVE Life'
  <2>1. UNCHANGED <<refs, phase>>
    BY <1>15 DEF SinkFlush, pool
  <2>2. QED
    BY <1>15, <1>k, <1>u, <2>1, Movers
<1>16. ASSUME NEW w \in Workers, Finish(w) PROVE Life'
  <2>1. UNCHANGED <<refs, phase>>
    BY <1>16 DEF Finish, pool
  <2>2. QED
    BY <1>16, <1>k, <1>u, <2>1, Movers
<1>17. ASSUME NEW p \in Producers, Post(p) PROVE Life'
  <2>1. /\ phase # "constructing" /\ refs # {} /\ refs' = refs \cup {p} /\ phase' = phase
        /\ pc' = [pc EXCEPT ![p] = "enqueue"]
    BY <1>17 DEF Post, Go
  <2>2. phase = "open"
    BY <2>1, <1>p DEF Life
  <2>3. QED
    BY <1>k, <1>p, <2>1, <2>2 DEF Life
<1>18. ASSUME NEW p \in Producers, Reject(p) PROVE Life'
  BY <1>18, <1>a DEF Reject, Life, pool
<1>19. ASSUME Constructed PROVE Life'
  BY <1>19, <1>a, <1>k, <1>p, <1>r DEF Constructed, Life, output
<1>20. QED
  BY <1>1, <1>2, <1>3, <1>4, <1>5, <1>6, <1>7, <1>8, <1>9, <1>10, <1>11, <1>12, <1>13,
     <1>14, <1>15, <1>16, <1>17, <1>18, <1>19, Actions
\* The actions that move messages.
LEMMA MessageSteps ==
    ASSUME Next, NEW P,
           UNCHANGED <<q, held, pos, handled, rejected>> => P,
           \A t \in Senders : (Enqueue(t) => P) /\ (PostTerminate(t) => P),
           \A w \in Workers : (Dequeue(w) => P) /\ (Finish(w) => P),
           \A p \in Producers : (Post(p) => P) /\ (Reject(p) => P)
    PROVE  P
<1>1. ASSUME NEW t \in Senders,
             WaitForRoom(t) \/ NotifyPush(t) \/ Spurious(t) \/ Release(t) \/ Join(t)
      PROVE  P
  BY <1>1 DEF WaitForRoom, NotifyPush, Spurious, Release, Join, output
<1>2. ASSUME NEW w \in Workers,
             WaitForItem(w) \/ Expire(w) \/ NotifyPop(w) \/ StartWorker(w) \/ SinkLog(w)
             \/ SinksDone(w) \/ SinkFlush(w)
      PROVE  P
  BY <1>2 DEF WaitForItem, Expire, NotifyPop, StartWorker, SinkLog, SinksDone, SinkFlush,
     output
<1>3. ASSUME Constructed PROVE P
  BY <1>3 DEF Constructed, output
<1>4. QED
  BY <1>1, <1>2, <1>3, Actions

LEMMA NextEnding == ASSUME TypeOK, Roles, Quiet, Life, Ending, Next PROVE Ending'
<1>k. /\ Threads = Senders \cup Workers /\ Senders \cap Workers = {}
      /\ Producers \subseteq Senders
  BY ThreadKinds
<1>m. Terminate \notin AllMessages /\ NoMessage \notin AllMessages /\ Terminate # NoMessage
  BY MessagesApart
<1>p. held \in [Threads -> AllMessages \cup {Terminate, NoMessage}]
  BY DEF TypeOK
\* What the workers' hands and the queue must satisfy.
<1>s. ASSUME \E k \in 0..Len(Line') :
                \A i \in 1..Len(Line') : Line'[i] = Terminate <=> i > k,
             \A w \in Workers : held'[w] = Terminate =>
                \A i \in 1..Len(Line') : Line'[i] = Terminate
      PROVE  Ending'
  BY <1>s DEF Ending, Terminate
\* Steps that leave the queue alone and give no worker a message.
<1>u. ASSUME Line' = Line, \A w \in Workers : held'[w] \in {held[w], NoMessage}
      PROVE  Ending'
  BY <1>u, <1>m, <1>s DEF Ending
<1>1. ASSUME UNCHANGED <<q, held, pos, handled, rejected>> PROVE Ending'
  BY <1>1, <1>u DEF Line
<1>2. ASSUME NEW t \in Senders, Enqueue(t) PROVE Ending'
  <2>1. held[t] \in AllMessages => \A u \in Threads : held[u] # Terminate
    BY <1>m DEF Life, Quiet, TypeOK
  <2>2. held[t] \in AllMessages => \A i \in 1..Len(Line) : Line[i] # Terminate
    BY <1>m DEF Life, Quiet, TypeOK
  <2>3. held[t] \in AllMessages \cup {Terminate}
    BY <1>2, EnqueueMoves
  <2>4. ASSUME NEW i \in 1..Len(Line')
        PROVE  \/ i = Len(Line') /\ Line'[i] = held[t]
               \/ i # Len(Line') /\ i + Dropped \in 1..Len(Line) /\ Line'[i] = Line[i + Dropped]
    <3>1. CASE i = Len(Line')
      BY <1>2, <3>1, EnqueueMoves
    <3>2. CASE i # Len(Line')
      <4>1. i \in 1..(Len(Line) - Dropped) /\ i + Dropped \in 1..Len(Line)
        BY <1>2, <3>2, EnqueueMoves
      <4>2. QED
        BY <1>2, <3>2, <4>1, EnqueueMoves
    <3>3. QED
      BY <3>1, <3>2
  <2>5. \E k \in 0..Len(Line') : \A i \in 1..Len(Line') : Line'[i] = Terminate <=> i > k
    <3>1. PICK k \in 0..Len(Line) : \A i \in 1..Len(Line) : Line[i] = Terminate <=> i > k
      BY DEF Ending
    <3>2. Len(Line) \in Nat /\ Len(Line') \in Nat /\ Len(Line') = Len(Line) + 1 - Dropped
      BY <1>2, EnqueueMoves
    <3>3. CASE held[t] = Terminate
      <4>1. Dropped = 0
        BY <1>2, <1>m, <3>3, EnqueueMoves
      <4>2. \A i \in 1..Len(Line') : Line'[i] = Terminate <=> i > k
        BY <2>4, <3>1, <3>2, <3>3, <4>1
      <4>3. k \in 0..Len(Line')
        BY <3>1, <3>2, <4>1
      <4>4. QED
        BY <4>2, <4>3
    <3>4. CASE held[t] \in AllMessages
      <4>1. \A i \in 1..Len(Line') : Line'[i] # Terminate /\ ~(i > Len(Line'))
        BY <1>m, <2>2, <2>4, <3>2, <3>4
      <4>2. Len(Line') \in 0..Len(Line')
        BY <3>2
      <4>3. QED
        BY <4>1, <4>2
    <3>5. QED
      BY <2>3, <3>3, <3>4
  <2>6. ASSUME NEW w \in Workers, held'[w] = Terminate, NEW i \in 1..Len(Line')
        PROVE  Line'[i] = Terminate
    <3>1. held[w] = Terminate
      BY <1>2, <1>k, <1>p, <2>6, EnqueueMoves
    <3>2. held[t] = Terminate
      BY <1>k, <2>1, <2>3, <3>1
    <3>3. QED
      BY <2>4, <3>1, <3>2 DEF Ending
  <2>7. QED
    BY <1>s, <2>5, <2>6
<1>3. ASSUME NEW t \in Senders, PostTerminate(t) PROVE Ending'
  BY <1>3, <1>k, <1>p, <1>u DEF PostTerminate, Line
<1>4. ASSUME NEW w \in Workers, Dequeue(w) PROVE Ending'
  <2>1. /\ Len(Line) \in Nat \ {0} /\ held' = [held EXCEPT ![w] = Line[1]]
        /\ Len(Line') = Len(Line) - 1
        /\ \A i \in 1..(Len(Line) - 1) : Line'[i] = Line[i + 1]
    BY <1>4, DequeueMoves
  <2>2. \A i \in 1..Len(Line') : i + 1 \in 1..Len(Line) /\ Line'[i] = Line[i + 1] /\ 1 < i + 1
    BY <2>1
  <2>3. \E k \in 0..Len(Line') : \A i \in 1..Len(Line') : Line'[i] = Terminate <=> i > k
    <3>1. PICK k \in 0..Len(Line) : \A i \in 1..Len(Line) : Line[i] = Terminate <=> i > k
      BY DEF Ending
    <3>2. \A i \in 1..Len(Line') : Line'[i] = Terminate <=> i + 1 > k
      BY <2>2, <3>1
    <3>3. CASE k = 0
      <4>1. \A i \in 1..Len(Line') : Line'[i] = Terminate <=> i > 0
        BY <2>1, <3>2, <3>3
      <4>2. 0 \in 0..Len(Line')
        BY <2>1
      <4>3. QED
        BY <4>1, <4>2
    <3>4. CASE k # 0
      <4>1. k - 1 \in 0..Len(Line')
        BY <2>1, <3>1, <3>4
      <4>2. \A i \in 1..Len(Line') : Line'[i] = Terminate <=> i > k - 1
        BY <2>1, <3>1, <3>2
      <4>3. QED
        BY <4>1, <4>2
    <3>5. QED
      BY <3>3, <3>4
  <2>4. ASSUME NEW v \in Workers, held'[v] = Terminate, NEW i \in 1..Len(Line')
        PROVE  Line'[i] = Terminate
    <3>1. held[v] = Terminate \/ Line[1] = Terminate
      BY <1>k, <1>p, <2>1, <2>4
    <3>2. PICK k \in 0..Len(Line) : \A j \in 1..Len(Line) : Line[j] = Terminate <=> j > k
      BY DEF Ending
    <3>3. Line[1] = Terminate => \A j \in 1..Len(Line) : Line[j] = Terminate
      BY <2>1, <3>2
    <3>4. QED
      BY <2>2, <3>1, <3>3 DEF Ending
  <2>5. QED
    BY <1>s, <2>3, <2>4
<1>5. ASSUME NEW w \in Workers, Finish(w) PROVE Ending'
  BY <1>5, <1>k, <1>p, <1>u DEF Finish, Line
<1>6. ASSUME NEW p \in Producers, Post(p) PROVE Ending'
  BY <1>6, <1>k, <1>p, <1>u, PostMoves
<1>7. ASSUME NEW p \in Producers, Reject(p) PROVE Ending'
  BY <1>7, <1>u DEF Reject, Line
<1>8. QED
  BY <1>1, <1>2, <1>3, <1>4, <1>5, <1>6, <1>7, MessageSteps
------------------------------------------------------------------------------
(* The way of a message.                                                   *)

\* A message its producer still holds comes after those it has sent.
LEMMA SentBefore ==
    ASSUME TypeOK, Roles, NEW p \in Producers, held[p] \in AllMessages,
           NEW m \in AllMessages, Sent(m)
    PROVE  Before(m, held[p]) /\ ~Sent(held[p]) /\ m # held[p]
<1>1. held[p] = <<p, pos[p]>> /\ pos[p] \in Nat
  BY ThreadKinds DEF Roles, Role, TypeOK
<1>2. m = <<m[1], m[2]>> /\ m[2] \in Nat
  BY MessageParts
<1>3. held[p][1] = p /\ held[p][2] = pos[p]
  BY <1>1
<1>4. QED
  BY <1>1, <1>2, <1>3 DEF Sent, Before

\* The messages in the queue and in the workers' hands are sent.
LEMMA OnTheWay ==
    ASSUME TypeOK, Roles, Passage
    PROVE  /\ \A i \in 1..Len(Line) : Line[i] \in AllMessages \cup {Terminate}
           /\ \A i \in 1..Len(Line) : Line[i] \in AllMessages => Sent(Line[i])
           /\ \A w \in Workers : held[w] \in AllMessages => Sent(held[w])
           /\ \A m \in handled \cup rejected : m \in AllMessages /\ Sent(m)
BY DEF Roles, Passage, TypeOK

LEMMA NeverBeforeItself == ASSUME TypeOK, NEW m \in AllMessages PROVE ~Before(m, m)
BY MessageParts DEF Before

LEMMA NextPassage == ASSUME TypeOK, Roles, Quiet, Life, Passage, Next PROVE Passage'
<1>a. AllMessages' = AllMessages
  BY Chosen
<1>k. /\ Threads = Senders \cup Workers /\ Senders \cap Workers = {}
      /\ Producers \subseteq Senders /\ Owner \in Senders /\ Owner \notin Producers
      /\ Senders = Producers \cup {Owner}
  BY ThreadKinds DEF Senders
<1>m. Terminate \notin AllMessages /\ NoMessage \notin AllMessages /\ Terminate # NoMessage
  BY MessagesApart
<1>p. held \in [Threads -> AllMessages \cup {Terminate, NoMessage}] /\ pos \in [Producers -> Nat]
  BY DEF TypeOK
<1>w. /\ \A i \in 1..Len(Line) : Line[i] \in AllMessages \cup {Terminate}
      /\ \A i \in 1..Len(Line) : Line[i] \in AllMessages => Sent(Line[i])
      /\ \A w \in Workers : held[w] \in AllMessages => Sent(held[w])
      /\ \A m \in handled \cup rejected : m \in AllMessages /\ Sent(m)
  BY OnTheWay
<1> DEFINE Later(m) == m[2] <= pos'[m[1]] /\ m # held'[m[1]]
\* What is to be shown, part by part.
<1>s. ASSUME \A i, j \in 1..Len(Line') :
                i < j /\ Line'[i] \in AllMessages /\ Line'[j] \in AllMessages
                => Before(Line'[i], Line'[j]),
             \A i \in 1..Len(Line') : Line'[i] \in AllMessages =>
                /\ Later(Line'[i]) /\ Line'[i] \notin rejected'
                /\ \A m \in handled' : Before(m, Line'[i])
                /\ \A w \in Workers : held'[w] \in AllMessages => Before(held'[w], Line'[i]),
             \A w \in Workers : held'[w] \in AllMessages =>
                /\ Later(held'[w]) /\ held'[w] \notin handled' \cup rejected'
                /\ \A v \in Workers : held'[v] = held'[w] => v = w,
             \A m \in handled' \cup rejected' : Later(m),
             handled' \cap rejected' = {}
      PROVE  Passage'
  BY <1>s, <1>a DEF Passage, Sent, Before
\* What is sent stays sent.
<1>t. ASSUME NEW p \in Producers, \A r \in Producers \ {p} : pos'[r] = pos[r] /\ held'[r] = held[r],
             pos'[p] \in Nat, pos'[p] >= pos[p],
             held'[p] \in {held[p], NoMessage, Terminate, <<p, pos[p] + 1>>},
             NEW m \in AllMessages, Sent(m)
      PROVE  Later(m)
  <2>1. m = <<m[1], m[2]>> /\ m[2] \in Nat /\ m[1] \in Producers
    BY MessageParts
  <2>2. m # NoMessage /\ m # Terminate /\ m[2] <= pos[m[1]] /\ m # held[m[1]]
    BY <1>m, <1>t DEF Sent
  <2>3. CASE m[1] = p
    <3>1. m[2] <= pos'[p]
      BY <1>p, <1>t, <2>1, <2>2, <2>3
    <3>2. m # <<p, pos[p] + 1>>
      BY <1>p, <2>1, <2>2, <2>3
    <3>3. QED
      BY <1>t, <2>2, <2>3, <3>1, <3>2
  <2>4. CASE m[1] # p
    BY <1>t, <2>1, <2>2, <2>4
  <2>5. QED
    BY <2>3, <2>4
<1>1. ASSUME UNCHANGED <<q, held, pos, handled, rejected>> PROVE Passage'
  BY <1>1, <1>a DEF Passage, Sent, Line
<1>2. ASSUME NEW t \in Senders, Enqueue(t) PROVE Passage'
  <2>1. /\ held' = [held EXCEPT ![t] = NoMessage] /\ pos' = pos /\ handled' = handled
        /\ rejected' = rejected /\ held[t] \in AllMessages \cup {Terminate}
    BY <1>2, EnqueueMoves DEF Enqueue, output
  <2>2. ASSUME NEW m \in AllMessages, Sent(m) PROVE Later(m)
    <3>1. m[1] \in Producers /\ m[1] \in Threads
      BY <1>k, MessageParts
    <3>2. QED
      BY <1>m, <1>p, <2>1, <2>2, <3>1 DEF Sent
  <2>3. held[t] \in AllMessages => t \in Producers /\ Later(held[t])
    <3>1. held[t] \in AllMessages => t \in Producers /\ held[t] = <<t, pos[t]>>
      BY <1>k DEF Roles, Role
    <3>2. ASSUME held[t] \in AllMessages PROVE Later(held[t])
      <4>1. t \in Producers /\ held[t][1] = t /\ held[t][2] = pos[t] /\ pos[t] \in Nat
        BY <1>p, <3>1, <3>2
      <4>2. held'[t] = NoMessage
        BY <1>k, <1>p, <2>1
      <4>3. QED
        BY <1>m, <2>1, <3>2, <4>1, <4>2
    <3>3. QED
      BY <3>1, <3>2
  <2>4. held[t] \in AllMessages =>
          \A m \in AllMessages : Sent(m) => Before(m, held[t]) /\ m # held[t]
    BY <2>3, SentBefore
  <2>5. \A w \in Workers : held'[w] = held[w]
    BY <1>k, <1>p, <2>1
  <2>6. ASSUME NEW i \in 1..Len(Line')
        PROVE  \/ i = Len(Line') /\ Line'[i] = held[t]
               \/ i # Len(Line') /\ i + Dropped \in 1..Len(Line) /\ Line'[i] = Line[i + Dropped]
    <3>1. CASE i = Len(Line')
      BY <1>2, <3>1, EnqueueMoves
    <3>2. CASE i # Len(Line')
      <4>1. i \in 1..(Len(Line) - Dropped) /\ i + Dropped \in 1..Len(Line)
        BY <1>2, <3>2, EnqueueMoves
      <4>2. QED
        BY <1>2, <3>2, <4>1, EnqueueMoves
    <3>3. QED
      BY <3>1, <3>2
  <2>7. ASSUME NEW i \in 1..Len(Line'), NEW j \in 1..Len(Line'), i < j,
               Line'[i] \in AllMessages, Line'[j] \in AllMessages
        PROVE  Before(Line'[i], Line'[j])
    <3>1. Len(Line') \in Nat /\ Dropped \in Nat
      BY <1>2, EnqueueMoves
    <3>2. i # Len(Line') /\ i + Dropped \in 1..Len(Line) /\ Line'[i] = Line[i + Dropped]
      BY <2>6, <2>7, <3>1
    <3>3. CASE j = Len(Line')
      BY <1>w, <2>4, <2>6, <2>7, <3>2, <3>3
    <3>4. CASE j # Len(Line')
      <4>1. j + Dropped \in 1..Len(Line) /\ Line'[j] = Line[j + Dropped]
        BY <2>6, <3>4
      <4>2. i + Dropped < j + Dropped
        BY <2>7, <3>1
      <4>3. QED
        BY <2>7, <3>2, <4>1, <4>2 DEF Passage
    <3>5. QED
      BY <3>3, <3>4
  <2>8. ASSUME NEW i \in 1..Len(Line'), Line'[i] \in AllMessages
        PROVE  /\ Later(Line'[i]) /\ Line'[i] \notin rejected'
               /\ \A m \in handled' : Before(m, Line'[i])
               /\ \A w \in Workers : held'[w] \in AllMessages => Before(held'[w], Line'[i])
    <3>1. CASE i = Len(Line')
      <4>1. Line'[i] = held[t]
        BY <1>2, <3>1, EnqueueMoves
      <4>2. QED
        BY <1>w, <2>1, <2>3, <2>4, <2>5, <2>8, <4>1
    <3>2. CASE i # Len(Line')
      <4>1. i + Dropped \in 1..Len(Line) /\ Line'[i] = Line[i + Dropped]
        BY <2>6, <3>2
      <4>2. QED
        BY <2>1, <2>2, <2>5, <2>8, <4>1 DEF Passage
    <3>3. QED
      BY <3>1, <3>2
  <2>9. QED
    BY <1>s, <1>w, <2>1, <2>2, <2>5, <2>7, <2>8 DEF Passage
<1>3. ASSUME NEW t \in Senders, PostTerminate(t) PROVE Passage'
  <2>1. /\ held' = [held EXCEPT ![t] = Terminate] /\ q' = q /\ pos' = pos
        /\ handled' = handled /\ rejected' = rejected
    BY <1>3 DEF PostTerminate, output
  <2>2. ASSUME NEW m \in AllMessages, Sent(m) PROVE Later(m)
    <3>1. m[1] \in Producers /\ m[1] \in Threads
      BY <1>k, MessageParts
    <3>2. QED
      BY <1>m, <1>p, <2>1, <2>2, <3>1 DEF Sent
  <2>3. \A w \in Workers : held'[w] = held[w]
    BY <1>k, <1>p, <2>1
  <2>4. Line' = Line
    BY <2>1 DEF Line
  <2>5. QED
    BY <1>s, <1>w, <2>1, <2>2, <2>3, <2>4 DEF Passage
<1>4. ASSUME NEW w \in Workers, Dequeue(w) PROVE Passage'
  <2>1. /\ Len(Line) \in Nat \ {0} /\ held' = [held EXCEPT ![w] = Line[1]]
        /\ Len(Line') = Len(Line) - 1
        /\ \A i \in 1..(Len(Line) - 1) : Line'[i] = Line[i + 1]
    BY <1>4, DequeueMoves
  <2>2. pos' = pos /\ handled' = handled /\ rejected' = rejected
    BY <1>4 DEF Dequeue, output
  <2>3. \A i \in 1..Len(Line') : i + 1 \in 1..Len(Line) /\ Line'[i] = Line[i + 1] /\ 1 < i + 1
    BY <2>1
  <2>4. \A v \in Workers \ {w} : held'[v] = held[v]
    BY <1>k, <1>p, <2>1
  <2>5. held'[w] = Line[1] /\ 1 \in 1..Len(Line)
    BY <1>k, <1>p, <2>1
  <2>6. ASSUME NEW m \in AllMessages, Sent(m) PROVE Later(m)
    <3>1. m[1] \in Producers /\ m[1] # w
      BY <1>k, MessageParts
    <3>2. QED
      BY <1>k, <1>p, <2>1, <2>2, <2>6, <3>1 DEF Sent
  <2>7. ASSUME NEW i \in 1..Len(Line'), NEW j \in 1..Len(Line'), i < j,
               Line'[i] \in AllMessages, Line'[j] \in AllMessages
        PROVE  Before(Line'[i], Line'[j])
    <3>1. i + 1 < j + 1
      BY <2>1, <2>7
    <3>2. QED
      BY <2>3, <2>7, <3>1 DEF Passage
  <2>8. ASSUME NEW i \in 1..Len(Line'), Line'[i] \in AllMessages
        PROVE  /\ Later(Line'[i]) /\ Line'[i] \notin rejected'
               /\ \A m \in handled' : Before(m, Line'[i])
               /\ \A v \in Workers : held'[v] \in AllMessages => Before(held'[v], Line'[i])
    <3>1. i + 1 \in 1..Len(Line) /\ 1 < i + 1 /\ Line'[i] = Line[i + 1] /\ Line[i + 1] \in AllMessages
      BY <2>3, <2>8
    <3>2. /\ Sent(Line[i + 1]) /\ Line[i + 1] \notin rejected
          /\ \A m \in handled : Before(m, Line[i + 1])
          /\ \A v \in Workers : held[v] \in AllMessages => Before(held[v], Line[i + 1])
          /\ Line[1] \in AllMessages => Before(Line[1], Line[i + 1])
      BY <2>5, <3>1 DEF Passage
    <3>3. Later(Line'[i])
      BY <2>6, <3>1, <3>2
    <3>4. QED
      BY <2>2, <2>4, <2>5, <3>1, <3>2, <3>3
  <2>9. ASSUME NEW v \in Workers, held'[v] \in AllMessages
        PROVE  Later(held'[v]) /\ held'[v] \notin handled' \cup rejected'
    <3>1. CASE v = w
      BY <1>w, <2>2, <2>5, <2>6, <2>9, <3>1, NeverBeforeItself DEF Passage
    <3>2. CASE v # w
      BY <2>2, <2>4, <2>6, <2>9, <3>2 DEF Passage
    <3>3. QED
      BY <3>1, <3>2
  <2>10. ASSUME NEW v \in Workers, held'[v] \in AllMessages, NEW u \in Workers, held'[u] = held'[v]
         PROVE  u = v
    <3>1. \A x \in Workers \ {w} : held'[x] \in AllMessages => held'[x] # Line[1]
      BY <2>4, <2>5, NeverBeforeItself DEF Passage
    <3>2. QED
      BY <2>4, <2>5, <2>10, <3>1 DEF Passage
  <2>11. QED
    BY <1>s, <1>w, <2>2, <2>6, <2>7, <2>8, <2>9, <2>10 DEF Passage
<1>5. ASSUME NEW w \in Workers, Finish(w) PROVE Passage'
  <2>1. /\ held' = [held EXCEPT ![w] = NoMessage] /\ pos' = pos /\ Line' = Line
        /\ handled' = handled \cup {held[w]} /\ rejected' = rejected /\ held[w] \in AllMessages
    BY <1>5, <1>k DEF Finish, Line, Roles, Role
  <2>2. \A v \in Workers : held'[v] \in AllMessages => v # w /\ held'[v] = held[v]
    BY <1>k, <1>m, <1>p, <2>1
  <2>3. ASSUME NEW m \in AllMessages, Sent(m) PROVE Later(m)
    <3>1. m[1] \in Producers /\ m[1] # w
      BY <1>k, MessageParts
    <3>2. QED
      BY <1>k, <1>p, <2>1, <2>3, <3>1 DEF Sent
  <2>4. QED
    BY <1>s, <1>w, <2>1, <2>2, <2>3 DEF Passage
<1>6. ASSUME NEW p \in Producers, Post(p) PROVE Passage'
  <2>1. /\ <<p, pos[p] + 1>> \in AllMessages /\ held[p] = NoMessage
        /\ held' = [held EXCEPT ![p] = <<p, pos[p] + 1>>] /\ pos' = [pos EXCEPT ![p] = @ + 1]
        /\ Line' = Line /\ pos[p] \in Nat
    BY <1>6, PostMoves
  <2>2. handled' = handled /\ rejected' = rejected
    BY <1>6 DEF Post, output
  <2>3. \A w \in Workers : held'[w] = held[w]
    BY <1>k, <1>p, <2>1
  <2>4. /\ \A r \in Producers \ {p} : pos'[r] = pos[r] /\ held'[r] = held[r]
        /\ pos'[p] = pos[p] + 1 /\ held'[p] = <<p, pos[p] + 1>>
    BY <1>k, <1>p, <2>1
  <2>5. ASSUME NEW m \in AllMessages, Sent(m) PROVE Later(m)
    <3>1. pos'[p] \in Nat /\ pos'[p] >= pos[p]
      BY <2>1, <2>4
    <3>2. QED
      BY <1>t, <2>4, <2>5, <3>1
  <2>6. \A m \in handled' \cup rejected' : Later(m)
    BY <1>w, <2>2, <2>5
  <2>7. \A i \in 1..Len(Line') : Line'[i] \in AllMessages =>
           /\ Later(Line'[i]) /\ Line'[i] \notin rejected'
           /\ \A m \in handled' : Before(m, Line'[i])
           /\ \A w \in Workers : held'[w] \in AllMessages => Before(held'[w], Line'[i])
    BY <2>1, <2>2, <2>3, <2>5 DEF Passage
  <2>8. \A w \in Workers : held'[w] \in AllMessages =>
           /\ Later(held'[w]) /\ held'[w] \notin handled' \cup rejected'
           /\ \A v \in Workers : held'[v] = held'[w] => v = w
    BY <2>2, <2>3, <2>5 DEF Passage
  <2>9. QED
    BY <1>s, <2>1, <2>2, <2>6, <2>7, <2>8 DEF Passage
<1>7. ASSUME NEW p \in Producers, Reject(p) PROVE Passage'
  <2> DEFINE n == <<p, pos[p] + 1>>
  <2>1. /\ n \in AllMessages /\ refs = {} /\ held' = held /\ pos' = [pos EXCEPT ![p] = @ + 1]
        /\ Line' = Line /\ handled' = handled /\ rejected' = rejected \cup {n}
        /\ pos[p] \in Nat
    BY <1>7, <1>p, PostIsMessage DEF Reject, Line, output
  <2>2. /\ \A r \in Producers \ {p} : pos'[r] = pos[r] /\ held'[r] = held[r]
        /\ pos'[p] = pos[p] + 1 /\ held'[p] = held[p]
    BY <1>k, <1>p, <2>1
  <2>3. ASSUME NEW m \in AllMessages, Sent(m) PROVE Later(m) /\ m # n
    <3>1. pos'[p] \in Nat /\ pos'[p] >= pos[p]
      BY <2>1, <2>2
    <3>2. Later(m)
      BY <1>t, <2>2, <2>3, <3>1
    <3>3. m[2] <= pos[m[1]] /\ m[2] \in Nat /\ m[1] \in Producers
      BY <2>3, MessageParts DEF Sent
    <3>4. n[1] = p /\ n[2] = pos[p] + 1
      OBVIOUS
    <3>5. QED
      BY <1>p, <2>1, <3>2, <3>3, <3>4
  <2>4. Later(n)
    <3>0. phase \in {"closing", "destroyed"}
      BY <1>7, <2>1 DEF Life, Reject, TypeOK
    <3>1. held[p] # n
      BY <1>k, <2>1, <3>0 DEF Life
    <3>2. n[1] = p /\ n[2] = pos[p] + 1
      OBVIOUS
    <3>3. QED
      BY <2>1, <2>2, <3>1, <3>2
  <2> HIDE DEF n
  <2>5. QED
    BY <1>s, <1>w, <2>1, <2>3, <2>4 DEF Passage
<1>8. QED
  BY <1>1, <1>2, <1>3, <1>4, <1>5, <1>6, <1>7, MessageSteps
------------------------------------------------------------------------------
(* What is lost.                                                           *)

LEMMA InMessages ==
    ASSUME TypeOK, NEW m
    PROVE  /\ m \in Messages <=> \E p \in Producers : \E i \in 1..pos[p] : m = <<p, i>>
           /\ NoMessage \notin Messages /\ Terminate \notin Messages
           /\ m \in AllMessages => (m \in Messages <=> m[2] <= pos[m[1]])
<1>1. m \in Messages <=> \E p \in Producers : \E i \in 1..pos[p] : m = <<p, i>>
  BY DEF Messages
<1>2. NoMessage \notin Messages
  <2>1. ASSUME NEW p, NEW i PROVE <<>> # <<p, i>>
    OBVIOUS
  <2>2. QED
    BY <2>1 DEF Messages, NoMessage
<1>3. Terminate \notin Messages
  BY AsyncAssumption DEF Messages, Terminate
<1>4. ASSUME m \in AllMessages, m[2] <= pos[m[1]] PROVE m \in Messages
  <2>1. /\ m[1] \in Producers /\ m[2] \in 1..Len(program[m[1]]) /\ m = <<m[1], m[2]>>
        /\ Len(program[m[1]]) \in Nat /\ pos[m[1]] \in Nat
    BY <1>4, MessageParts, Programs DEF TypeOK
  <2>2. m[2] \in 1..pos[m[1]]
    BY <1>4, <2>1
  <2>3. QED
    BY <1>1, <2>1, <2>2
<1>5. ASSUME m \in Messages PROVE m[2] <= pos[m[1]]
  <2>1. PICK p \in Producers : \E i \in 1..pos[p] : m = <<p, i>>
    BY <1>1, <1>5
  <2>2. PICK i \in 1..pos[p] : m = <<p, i>>
    BY <2>1
  <2>3. pos[p] \in Nat /\ m[1] = p /\ m[2] = i
    BY <2>2 DEF TypeOK
  <2>4. QED
    BY <2>3
<1>6. QED
  BY <1>1, <1>2, <1>3, <1>4, <1>5

LEMMA InQueue ==
    ASSUME TypeOK, Roles, Next
    PROVE  /\ \A m : m \in Queued <=> \E i \in 1..Len(Line) : Line[i] = m
           /\ \A m : m \in Queued' <=> \E i \in 1..Len(Line') : Line'[i] = m
<1>1. Queued = {Line[i] : i \in 1..Len(Line)}
  BY QueueIs
<1>2. Queued' = {Line'[i] : i \in 1..Len(Line')}
  <2>1. TypeOK' /\ Capacity \in Nat
    BY NextTypeOK, AsyncAssumption
  <2>2. Ring(q', (AllMessages \cup {Terminate})') /\ q'.max # 0
    BY <2>1 DEF TypeOK
  <2>3. Len(Contents(q')) = Size(q')
    BY <2>2, ContentsIsSequence
  <2>4. QED
    BY <2>3 DEF Queued, Line
<1>3. QED
  BY <1>1, <1>2

\* Where a message is that is not lost.
Here == handled \cup rejected \cup InHand \cup Queued

LEMMA NextCounted ==
    ASSUME TypeOK, Roles, Quiet, Life, Passage, Counted, Next PROVE Counted'
<1>a. /\ threads_' = threads_ /\ program' = program /\ AllMessages' = AllMessages
      /\ \A m : Policy(m)' = Policy(m)
  BY Chosen DEF Policy, Request
<1>k. /\ Threads = Senders \cup Workers /\ Senders \cap Workers = {}
      /\ Producers \subseteq Senders /\ Owner \in Senders /\ Owner \notin Producers
  BY ThreadKinds
<1>m. Terminate \notin AllMessages /\ NoMessage \notin AllMessages /\ Terminate # NoMessage
  BY MessagesApart
<1>p. held \in [Threads -> AllMessages \cup {Terminate, NoMessage}] /\ pos \in [Producers -> Nat]
  BY DEF TypeOK
<1>n. NoMessage \notin Messages /\ Terminate \notin Messages
  BY InMessages
<1>h. /\ \A m : m \in InHand <=> \E t \in Threads : held[t] = m
      /\ \A m : m \in InHand' <=> \E t \in Threads : held'[t] = m
  BY DEF InHand, Threads
<1>q. /\ \A m : m \in Queued <=> \E i \in 1..Len(Line) : Line[i] = m
      /\ \A m : m \in Queued' <=> \E i \in 1..Len(Line') : Line'[i] = m
  BY InQueue
<1>l. Lost = Messages \ Here /\ Lost' = Messages' \ Here'
  BY DEF Lost, Here
\* Steps after which the same messages are lost.
<1>u. ASSUME q'.over = q.over,
             \A m \in Messages' \ Messages : m \in Here',
             \A m \in Messages : m \in Messages' /\ (m \in Here' <=> m \in Here)
      PROVE  Counted'
  <2>1. Lost' = Lost
    BY <1>l, <1>u
  <2>2. QED
    BY <1>a, <1>u, <2>1 DEF Counted, LossesAreCounted
<1>1. ASSUME UNCHANGED <<q, held, pos, handled, rejected>> PROVE Counted'
  <2>1. Lost' = Lost
    BY <1>1 DEF Lost, Messages, InHand, Queued, Threads
  <2>2. QED
    BY <1>1, <1>a, <2>1 DEF Counted, LossesAreCounted
<1>2. ASSUME NEW t \in Senders, Enqueue(t) PROVE Counted'
  <2>1. /\ held' = [held EXCEPT ![t] = NoMessage] /\ handled' = handled
        /\ rejected' = rejected /\ pos' = pos
        /\ Len(Line) \in Nat /\ Dropped \in {0, 1} /\ Dropped <= Len(Line)
        /\ Len(Line') = Len(Line) + 1 - Dropped
        /\ \A i \in 1..(Len(Line) - Dropped) : Line'[i] = Line[i + Dropped]
        /\ Line'[Len(Line')] = held[t]
        /\ q'.over = q.over + Dropped /\ q.over \in Nat
        /\ Dropped = 1 => Policy(held[t]) = "overrun_oldest" /\ held[t] \in AllMessages
    BY <1>2, EnqueueMoves DEF Enqueue, output
  <2>2. Messages' = Messages
    BY <2>1 DEF Messages
  <2>3. \A m \in Messages : m \in InHand' <=> \E u \in Threads \ {t} : held[u] = m
    BY <1>h, <1>k, <1>n, <1>p, <2>1
  <2>4. \A m : m \in Queued' <=> m = held[t] \/ \E i \in (Dropped + 1)..Len(Line) : Line[i] = m
    <3>1. ASSUME NEW m, m \in Queued', m # held[t]
          PROVE  \E i \in (Dropped + 1)..Len(Line) : Line[i] = m
      <4>1. PICK i \in 1..Len(Line') : Line'[i] = m
        BY <1>q, <3>1
      <4>2. i \in 1..(Len(Line) - Dropped) /\ i + Dropped \in (Dropped + 1)..Len(Line)
        BY <2>1, <3>1, <4>1
      <4>3. QED
        BY <2>1, <4>1, <4>2
    <3>2. held[t] \in Queued'
      <4>1. Len(Line') \in 1..Len(Line')
        BY <2>1
      <4>2. QED
        BY <1>q, <2>1, <4>1
    <3>3. ASSUME NEW i \in (Dropped + 1)..Len(Line) PROVE Line[i] \in Queued'
      <4>1. i - Dropped \in 1..(Len(Line) - Dropped) /\ (i - Dropped) + Dropped = i
        BY <2>1
      <4>2. i - Dropped \in 1..Len(Line') /\ Line'[i - Dropped] = Line[i]
        BY <2>1, <4>1
      <4>3. QED
        BY <1>q, <4>2
    <3>4. QED
      BY <3>1, <3>2, <3>3
  <2>5. CASE Dropped = 0
    <3>1. \A m : m \in Queued' <=> m = held[t] \/ m \in Queued
      BY <1>q, <2>4, <2>5
    <3>2. \A m \in Messages : m \in Here' <=> m \in Here
      BY <1>h, <1>k, <2>1, <2>3, <3>1 DEF Here
    <3>3. QED
      BY <1>u, <2>1, <2>2, <2>5, <3>2
  <2>6. CASE Dropped = 1
    <3> DEFINE x == Line[1]
    <3>1. 1 \in 1..Len(Line) /\ \A i \in 2..Len(Line) : i \in 1..Len(Line) /\ 1 < i
      BY <2>1, <2>6
    <3>2. x \in AllMessages
      <4>1. phase \in {"constructing", "open"}
        BY <2>1, <2>6 DEF Life, TypeOK
      <4>2. QED
        BY <3>1, <4>1 DEF Quiet, Roles
    <3>3. /\ Sent(x) /\ x \notin rejected /\ x \notin handled
          /\ \A w \in Workers : held[w] # x
          /\ \A i \in 2..Len(Line) : Line[i] # x
      BY <3>1, <3>2, NeverBeforeItself DEF Passage
    <3>4. ASSUME NEW s \in Senders PROVE held[s] # x
      <4>1. held[s] \in AllMessages => s \in Producers
        BY <1>k DEF Roles, Role, Senders
      <4>2. s \in Producers /\ held[s] \in AllMessages => held[s] # x
        BY <3>2, <3>3, SentBefore
      <4>3. QED
        BY <3>2, <4>1, <4>2
    <3>5. x \in Messages
      BY <3>2, <3>3, InMessages DEF Sent
    <3>6. x \in Here
      BY <1>q, <3>1 DEF Here
    <3>7. x \notin Here'
      <4>1. x \notin InHand' /\ x \notin Queued'
        BY <1>k, <2>3, <2>4, <2>6, <3>3, <3>4, <3>5
      <4>2. QED
        BY <2>1, <3>3, <4>1 DEF Here
    <3>8. ASSUME NEW m \in Messages, m # x PROVE m \in Here' <=> m \in Here
      <4>1. m \in Queued <=> \E i \in 2..Len(Line) : Line[i] = m
        BY <1>q, <2>1, <2>6, <3>1, <3>8
      <4>2. QED
        BY <1>h, <1>k, <2>1, <2>3, <2>4, <2>6, <4>1 DEF Here
    <3>9. Lost' = Lost \cup {x} /\ x \notin Lost
      BY <1>l, <2>2, <3>5, <3>6, <3>7, <3>8
    <3>10. IsFiniteSet(Lost') /\ Cardinality(Lost') = Cardinality(Lost) + 1
      BY <3>9, FS_AddElement DEF Counted
    <3>11. \E m \in AllMessages : Policy(m)' # "block"
      BY <1>a, <2>1, <2>6
    <3>12. QED
      BY <1>a, <2>1, <2>6, <3>10, <3>11 DEF Counted, LossesAreCounted
  <2>7. QED
    BY <2>1, <2>5, <2>6
<1>3. ASSUME NEW t \in Senders, PostTerminate(t) PROVE Counted'
  <2>1. /\ held' = [held EXCEPT ![t] = Terminate] /\ q' = q /\ pos' = pos
        /\ handled' = handled /\ rejected' = rejected
    BY <1>3 DEF PostTerminate, output
  <2>2. Messages' = Messages /\ Queued' = Queued
    BY <2>1 DEF Messages, Queued
  <2>3. held[t] = NoMessage
    BY <1>3, <1>k DEF PostTerminate, Roles, Role, Carrying
  <2>4. \A m \in Messages : m \in InHand' <=> m \in InHand
    BY <1>h, <1>k, <1>n, <1>p, <2>1, <2>3
  <2>5. QED
    BY <1>u, <2>1, <2>2, <2>4 DEF Here
<1>4. ASSUME NEW w \in Workers, Dequeue(w) PROVE Counted'
  <2>1. /\ Len(Line) \in Nat \ {0} /\ held[w] = NoMessage /\ held' = [held EXCEPT ![w] = Line[1]]
        /\ Len(Line') = Len(Line) - 1
        /\ \A i \in 1..(Len(Line) - 1) : Line'[i] = Line[i + 1]
        /\ q'.over = q.over
    BY <1>4, DequeueMoves
  <2>2. pos' = pos /\ handled' = handled /\ rejected' = rejected
    BY <1>4 DEF Dequeue, output
  <2>3. Messages' = Messages
    BY <2>2 DEF Messages
  <2>4. \A m \in Messages : m \in InHand' <=> m \in InHand \/ m = Line[1]
    BY <1>h, <1>k, <1>n, <1>p, <2>1
  <2>5. \A m : m \in Queued <=> m \in Queued' \/ m = Line[1]
    <3>1. ASSUME NEW i \in 1..Len(Line'), NEW m, Line'[i] = m PROVE m \in Queued
      <4>1. i + 1 \in 1..Len(Line) /\ Line[i + 1] = m
        BY <2>1, <3>1
      <4>2. QED
        BY <1>q, <4>1
    <3>2. Line[1] \in Queued
      <4>1. 1 \in 1..Len(Line)
        BY <2>1
      <4>2. QED
        BY <1>q, <4>1
    <3>3. ASSUME NEW i \in 1..Len(Line), i # 1 PROVE Line[i] \in Queued'
      <4>1. i - 1 \in 1..Len(Line') /\ Line'[i - 1] = Line[(i - 1) + 1] /\ (i - 1) + 1 = i
        BY <2>1, <3>3
      <4>2. Line'[i - 1] = Line[i]
        BY <4>1
      <4>3. QED
        BY <1>q, <4>1, <4>2
    <3>4. QED
      BY <1>q, <3>1, <3>2, <3>3
  <2>6. \A m \in Messages : m \in Here' <=> m \in Here
    BY <2>2, <2>4, <2>5 DEF Here
  <2>7. QED
    BY <1>u, <2>1, <2>3, <2>6
<1>5. ASSUME NEW w \in Workers, Finish(w) PROVE Counted'
  <2>1. /\ held' = [held EXCEPT ![w] = NoMessage] /\ pos' = pos /\ q' = q
        /\ handled' = handled \cup {held[w]} /\ rejected' = rejected
    BY <1>5 DEF Finish
  <2>2. Messages' = Messages /\ Queued' = Queued
    BY <2>1 DEF Messages, Queued
  <2>3. \A m \in Messages : m \in InHand' \/ m = held[w] <=> m \in InHand
    BY <1>h, <1>k, <1>n, <1>p, <2>1
  <2>4. QED
    BY <1>u, <2>1, <2>2, <2>3 DEF Here
<1>6. ASSUME NEW p \in Producers, Post(p) \/ Reject(p) PROVE Counted'
  <2> DEFINE n == <<p, pos[p] + 1>>
  <2>1. q' = q /\ pos' = [pos EXCEPT ![p] = @ + 1] /\ handled' = handled /\ pos[p] \in Nat
    BY <1>6, <1>p DEF Post, Reject, output
  <2>2. Queued' = Queued
    BY <2>1 DEF Queued
  <2>3. \A m : m \in Messages' <=> m \in Messages \/ m = n
    <3>1. \A m : m \in Messages' <=> \E r \in Producers : \E i \in 1..pos'[r] : m = <<r, i>>
      BY DEF Messages
    <3>2. \A m : m \in Messages <=> \E r \in Producers : \E i \in 1..pos[r] : m = <<r, i>>
      BY DEF Messages
    <3>3. /\ \A r \in Producers \ {p} : pos'[r] = pos[r]
          /\ \A i : i \in 1..pos'[p] <=> i \in 1..pos[p] \/ i = pos[p] + 1
      BY <1>p, <2>1
    <3>4. QED
      BY <3>1, <3>2, <3>3
  <2>4. n \in Here' /\ n \notin Messages /\ \A m \in Messages : m \in Here' <=> m \in Here
    <3>1. n \notin Messages
      <4>1. ASSUME NEW r \in Producers, NEW i \in 1..pos[r] PROVE n # <<r, i>>
        BY <1>p, <2>1
      <4>2. QED
        BY <4>1 DEF Messages
    <3>2. CASE Post(p)
      <4>1. held[p] = NoMessage /\ held' = [held EXCEPT ![p] = n] /\ rejected' = rejected
        BY <3>2, PostMoves DEF Post
      <4>2. \A m : m \in Messages => (m \in InHand' <=> m \in InHand)
        BY <1>h, <1>k, <1>n, <1>p, <3>1, <4>1
      <4>3. n \in InHand'
        BY <1>h, <1>k, <1>p, <4>1
      <4>4. QED
        BY <2>1, <2>2, <3>1, <4>1, <4>2, <4>3 DEF Here
    <3>3. CASE Reject(p)
      <4>1. held' = held /\ rejected' = rejected \cup {n}
        BY <3>3 DEF Reject
      <4>2. InHand' = InHand
        BY <1>h, <4>1
      <4>3. QED
        BY <2>1, <2>2, <3>1, <4>1, <4>2 DEF Here
    <3>4. QED
      BY <1>6, <3>2, <3>3
  <2>5. QED
    BY <1>u, <2>1, <2>3, <2>4
<1>7. QED
  BY <1>1, <1>2, <1>3, <1>4, <1>5, <1>6, MessageSteps
------------------------------------------------------------------------------
(* Lost wakeups.                                                           *)

\* Those who will see to an item, and those who will see to room.
Takers == At("notify_push") \cup At("dequeue")
Givers == At("notify_pop") \cup {t \in At("enqueue") : Policy(held[t]) = "block"}

LEMMA FiniteThreads ==
    /\ IsFiniteSet(Threads)
    /\ \A X : X \subseteq Threads => IsFiniteSet(X) /\ Cardinality(X) \in Nat
<1>1. IsFiniteSet(Producers \cup Workers)
  BY AsyncAssumption, FS_Union
<1>2. IsFiniteSet(Threads)
  BY <1>1, FS_AddElement DEF Threads
<1>3. ASSUME NEW X, X \subseteq Threads PROVE IsFiniteSet(X) /\ Cardinality(X) \in Nat
  BY <1>2, <1>3, FS_Subset, FS_CardinalityType
<1>4. QED
  BY <1>2, <1>3

LEMMA Replaced ==
    ASSUME NEW X, IsFiniteSet(X), NEW a \in X, NEW b, b \notin X
    PROVE  Cardinality((X \ {a}) \cup {b}) = Cardinality(X)
<1>1. IsFiniteSet(X \ {a}) /\ Cardinality(X \ {a}) = Cardinality(X) - 1
  BY FS_RemoveElement
<1>2. Cardinality((X \ {a}) \cup {b}) = Cardinality(X \ {a}) + 1
  BY <1>1, FS_AddElement
<1>3. Cardinality(X) \in Nat
  BY FS_CardinalityType
<1>4. QED
  BY <1>1, <1>2, <1>3

LEMMA NextNoLostWakeup ==
    ASSUME TypeOK, Roles, NoLostWakeup, Next PROVE NoLostWakeup'
<1>k. /\ Threads = Senders \cup Workers /\ Senders \cap Workers = {}
      /\ Producers \subseteq Senders /\ Owner \in Senders
  BY ThreadKinds
<1>p. pc \in [Threads -> Places] /\ held \in [Threads -> AllMessages \cup {Terminate, NoMessage}]
  BY DEF TypeOK, Places
<1>c. Size(q) \in 0..Capacity /\ Capacity \in Nat
  BY QueueIs
<1>f. \A m : Policy(m)' = Policy(m)
  BY Chosen DEF Policy, Request
<1>e. /\ \A u : u \in At("empty") <=> u \in Threads /\ pc[u] = "empty"
      /\ \A u : u \in At("empty")' <=> u \in Threads /\ pc'[u] = "empty"
      /\ \A u : u \in At("full") <=> u \in Threads /\ pc[u] = "full"
      /\ \A u : u \in At("full")' <=> u \in Threads /\ pc'[u] = "full"
  BY DEF At, Threads
<1>t. /\ \A u : u \in Takers <=> u \in Threads /\ pc[u] \in {"notify_push", "dequeue"}
      /\ \A u : u \in Takers' <=> u \in Threads /\ pc'[u] \in {"notify_push", "dequeue"}
  BY DEF Takers, At, Threads
<1>g. /\ \A u : u \in Givers <=> /\ u \in Threads
                                 /\ \/ pc[u] = "notify_pop"
                                    \/ pc[u] = "enqueue" /\ Policy(held[u]) = "block"
      /\ \A u : u \in Givers' <=> /\ u \in Threads
                                  /\ \/ pc'[u] = "notify_pop"
                                     \/ pc'[u] = "enqueue" /\ Policy(held'[u]) = "block"
  BY <1>f DEF Givers, At, Threads
<1>n. /\ IsFiniteSet(Takers) /\ Cardinality(Takers) \in Nat
      /\ IsFiniteSet(Takers') /\ Cardinality(Takers') \in Nat
      /\ IsFiniteSet(Givers) /\ Cardinality(Givers) \in Nat
      /\ IsFiniteSet(Givers') /\ Cardinality(Givers') \in Nat
  <2>1. Takers \subseteq Threads /\ Takers' \subseteq Threads
    BY <1>t
  <2>2. Givers \subseteq Threads /\ Givers' \subseteq Threads
    BY <1>g
  <2>3. QED
    BY <2>1, <2>2, FiniteThreads
<1>o. /\ At("empty") # {} => Size(q) <= Cardinality(Takers)
      /\ At("full") # {} => Capacity - Size(q) <= Cardinality(Givers)
  BY DEF NoLostWakeup, Takers, Givers
<1>s. ASSUME At("empty")' # {} => Size(q)' <= Cardinality(Takers'),
             At("full")' # {} => Capacity - Size(q)' <= Cardinality(Givers')
      PROVE  NoLostWakeup'
  BY <1>s DEF NoLostWakeup, Takers, Givers
\* A condition variable of which nothing got worse.
<1>x. ASSUME At("empty")' \subseteq At("empty"), Takers \subseteq Takers', Size(q)' = Size(q)
      PROVE  At("empty")' # {} => Size(q)' <= Cardinality(Takers')
  <2>1. Cardinality(Takers) <= Cardinality(Takers')
    BY <1>n, <1>x, FS_Subset
  <2>2. QED
    BY <1>c, <1>n, <1>o, <1>x, <2>1
<1>y. ASSUME At("full")' \subseteq At("full"), Givers \subseteq Givers', Size(q)' = Size(q)
      PROVE  At("full")' # {} => Capacity - Size(q)' <= Cardinality(Givers')
  <2>1. Cardinality(Givers) <= Cardinality(Givers')
    BY <1>n, <1>y, FS_Subset
  <2>2. QED
    BY <1>c, <1>n, <1>o, <1>y, <2>1
\* A step of which neither got worse.
<1>z. ASSUME q' = q,
             \A u \in Threads :
                /\ pc'[u] = "empty" => pc[u] = "empty"
                /\ pc'[u] = "full" => pc[u] = "full"
                /\ pc[u] \in {"notify_push", "dequeue"} => pc'[u] \in {"notify_push", "dequeue"}
                /\ pc[u] = "notify_pop" => pc'[u] = "notify_pop"
                /\ pc[u] = "enqueue" => pc'[u] = "enqueue" /\ held'[u] = held[u]
      PROVE  NoLostWakeup'
  <2>1. At("empty")' \subseteq At("empty") /\ At("full")' \subseteq At("full")
    BY <1>e, <1>z
  <2>2. Takers \subseteq Takers'
    BY <1>t, <1>z
  <2>3. Givers \subseteq Givers'
    BY <1>g, <1>z
  <2>4. Size(q)' = Size(q)
    BY <1>z
  <2>5. QED
    BY <1>s, <1>x, <1>y, <2>1, <2>2, <2>3, <2>4
<1>1. ASSUME NEW t \in Senders, Enqueue(t) PROVE NoLostWakeup'
  <2>1. /\ pc[t] = "enqueue" /\ pc' = [pc EXCEPT ![t] = "notify_push"]
        /\ held' = [held EXCEPT ![t] = NoMessage] /\ t \in Threads
    BY <1>1, <1>k DEF Enqueue, Go
  <2>2. /\ Size(q)' = IF Full(q) THEN Size(q) ELSE Size(q) + 1
        /\ Policy(held[t]) = "block" => ~Full(q)
    <3>1. held[t] \in AllMessages \cup {Terminate}
      BY <1>1, EnqueueMoves
    <3>2. QED
      BY <1>1, <3>1, Pushes DEF Enqueue
  <2>3. At("empty")' = At("empty") /\ Takers' = Takers \cup {t} /\ t \notin Takers
    BY <1>e, <1>p, <1>t, <2>1
  <2>4. Cardinality(Takers') = Cardinality(Takers) + 1
    BY <1>n, <2>3, FS_AddElement
  <2>5. At("empty")' # {} => Size(q)' <= Cardinality(Takers')
    BY <1>c, <1>n, <1>o, <2>2, <2>3, <2>4
  <2>6. At("full")' = At("full")
    BY <1>e, <1>p, <2>1
  <2>7. CASE Policy(held[t]) = "block"
    <3>1. Givers' = Givers \ {t} /\ t \in Givers
      BY <1>g, <1>p, <2>1, <2>7
    <3>2. Cardinality(Givers') = Cardinality(Givers) - 1
      BY <1>n, <3>1, FS_RemoveElement
    <3>3. QED
      BY <1>c, <1>n, <1>o, <1>s, <2>2, <2>5, <2>6, <2>7, <3>2
  <2>8. CASE Policy(held[t]) # "block"
    <3>1. Givers' = Givers
      BY <1>g, <1>p, <2>1, <2>8
    <3>2. QED
      BY <1>c, <1>n, <1>o, <1>s, <2>2, <2>5, <2>6, <3>1
  <2>9. QED
    BY <2>7, <2>8
<1>2. ASSUME NEW t \in Senders, WaitForRoom(t) PROVE NoLostWakeup'
  <2>1. /\ pc[t] = "enqueue" /\ pc' = [pc EXCEPT ![t] = "full"] /\ q' = q /\ Full(q)
    BY <1>2 DEF WaitForRoom, Go
  <2>2. Size(q) = Capacity /\ Size(q)' = Size(q)
    BY <2>1, QueueIs
  <2>3. At("empty")' = At("empty") /\ Takers' = Takers
    BY <1>e, <1>k, <1>p, <1>t, <2>1
  <2>4. QED
    BY <1>c, <1>n, <1>s, <1>x, <2>2, <2>3
<1>3. ASSUME NEW t \in Senders, NotifyPush(t) PROVE NoLostWakeup'
  <2>1. /\ pc[t] = "notify_push" /\ q' = q /\ held' = held /\ Size(q)' = Size(q) /\ t \in Threads
        /\ NotifyOne(t, "posted", "empty", "dequeue")
    BY <1>3, <1>k DEF NotifyPush
  <2>2. CASE At("empty") = {} /\ Go(t, "posted")
    <3>1. At("empty")' = {} /\ At("full")' = At("full") /\ Givers' = Givers
      BY <1>e, <1>g, <1>p, <2>1, <2>2 DEF Go
    <3>2. QED
      BY <1>s, <1>y, <2>1, <3>1
  <2>3. ASSUME NEW w \in At("empty"), pc' = [pc EXCEPT ![t] = "posted", ![w] = "dequeue"]
        PROVE  NoLostWakeup'
    <3>1. w \in Threads /\ pc[w] = "empty" /\ w # t
      BY <1>e, <2>1, <2>3
    <3>2. At("full")' = At("full") /\ Givers' = Givers
      <4>1. ASSUME NEW u \in Threads
            PROVE  \/ pc'[u] = pc[u]
                   \/ {pc[u], pc'[u]} \cap {"full", "notify_pop", "enqueue"} = {}
        BY <1>p, <2>1, <2>3, <3>1
      <4>2. At("full")' = At("full")
        BY <1>e, <4>1
      <4>3. Givers' = Givers
        BY <1>g, <2>1, <4>1
      <4>4. QED
        BY <4>2, <4>3
    <3>3. /\ At("empty")' \subseteq At("empty") /\ t \in Takers /\ w \notin Takers
          /\ Takers' = (Takers \ {t}) \cup {w}
      BY <1>e, <1>p, <1>t, <2>1, <2>3, <3>1
    <3>4. Cardinality(Takers') = Cardinality(Takers)
      BY <1>n, <3>3, Replaced
    <3>5. At("empty")' # {} => Size(q)' <= Cardinality(Takers')
      BY <1>o, <2>1, <2>3, <3>4
    <3>6. QED
      BY <1>s, <1>y, <2>1, <3>2, <3>5
  <2>4. QED
    BY <2>1, <2>2, <2>3 DEF NotifyOne
<1>8. ASSUME NEW w \in Workers, Dequeue(w) PROVE NoLostWakeup'
  <2>1. /\ pc[w] = "dequeue" /\ pc' = [pc EXCEPT ![w] = "notify_pop"]
        /\ \A u \in Threads \ {w} : held'[u] = held[u]
    BY <1>8, <1>p DEF Dequeue, Go
  <2>2. Size(q)' = Size(q) - 1
    BY <1>8, Pops DEF Dequeue
  <2>3. At("empty")' = At("empty") /\ Takers' = Takers \ {w} /\ w \in Takers
    BY <1>e, <1>k, <1>p, <1>t, <2>1
  <2>4. Cardinality(Takers') = Cardinality(Takers) - 1
    BY <1>n, <2>3, FS_RemoveElement
  <2>5. At("full")' = At("full") /\ Givers' = Givers \cup {w} /\ w \notin Givers
    BY <1>e, <1>g, <1>k, <1>p, <2>1
  <2>6. Cardinality(Givers') = Cardinality(Givers) + 1
    BY <1>n, <2>5, FS_AddElement
  <2>7. QED
    BY <1>c, <1>n, <1>o, <1>s, <2>2, <2>3, <2>4, <2>5, <2>6
<1>9. ASSUME NEW w \in Workers, WaitForItem(w) PROVE NoLostWakeup'
  <2>1. /\ pc[w] = "dequeue" /\ pc' = [pc EXCEPT ![w] = "empty"] /\ q' = q /\ held' = held
        /\ Empty(q)
    BY <1>9 DEF WaitForItem, Go
  <2>2. Size(q) = 0 /\ Size(q)' = Size(q)
    BY <2>1, QueueIs
  <2>3. At("full")' = At("full") /\ Givers' = Givers
    BY <1>e, <1>g, <1>k, <1>p, <2>1
  <2>4. QED
    BY <1>n, <1>s, <1>y, <2>2, <2>3
<1>11. ASSUME NEW w \in Workers, NotifyPop(w) PROVE NoLostWakeup'
  <2> DEFINE after == IF held[w] = Terminate THEN "exited" ELSE "process"
  <2>1. /\ pc[w] = "notify_pop" /\ q' = q /\ held' = held /\ Size(q)' = Size(q) /\ w \in Threads
        /\ NotifyOne(w, after, "full", "enqueue") /\ after \in {"exited", "process"}
    BY <1>11, <1>k DEF NotifyPop
  <2> HIDE DEF after
  <2>2. CASE At("full") = {} /\ Go(w, after)
    <3>1. At("full")' = {} /\ At("empty")' = At("empty") /\ Takers' = Takers
      BY <1>e, <1>p, <1>t, <2>1, <2>2 DEF Go
    <3>2. QED
      BY <1>s, <1>x, <2>1, <3>1
  <2>3. ASSUME NEW t \in At("full"), pc' = [pc EXCEPT ![w] = after, ![t] = "enqueue"]
        PROVE  NoLostWakeup'
    <3>1. t \in Threads /\ pc[t] = "full" /\ t # w
      BY <1>e, <2>1, <2>3
    <3>2. At("empty")' = At("empty") /\ Takers' = Takers
      BY <1>e, <1>p, <1>t, <2>1, <2>3, <3>1
    <3>3. Policy(held[t]) = "block"
      BY <3>1 DEF Roles, Role
    <3>4. /\ At("full")' \subseteq At("full") /\ w \in Givers /\ t \notin Givers
          /\ Givers' = (Givers \ {w}) \cup {t}
      BY <1>e, <1>g, <1>p, <2>1, <2>3, <3>1, <3>3
    <3>5. Cardinality(Givers') = Cardinality(Givers)
      BY <1>n, <3>4, Replaced
    <3>6. At("full")' # {} => Capacity - Size(q)' <= Cardinality(Givers')
      BY <1>o, <2>1, <2>3, <3>5
    <3>7. QED
      BY <1>s, <1>x, <2>1, <3>2, <3>6
  <2>4. QED
    BY <2>1, <2>2, <2>3 DEF NotifyOne
<1>4. ASSUME NEW t \in Senders, Spurious(t) PROVE NoLostWakeup'
  BY <1>4, <1>k, <1>p, <1>z DEF Spurious, Go
<1>5. ASSUME NEW t \in Senders, Release(t) PROVE NoLostWakeup'
  BY <1>5, <1>k, <1>p, <1>z DEF Release, Go
<1>6. ASSUME NEW t \in Senders, PostTerminate(t) PROVE NoLostWakeup'
  BY <1>6, <1>k, <1>p, <1>z DEF PostTerminate, Go
<1>7. ASSUME NEW t \in Senders, Join(t) PROVE NoLostWakeup'
  BY <1>7, <1>k, <1>p, <1>z DEF Join, Go
<1>10. ASSUME NEW w \in Workers, Expire(w) PROVE NoLostWakeup'
  BY <1>10, <1>k, <1>p, <1>z DEF Expire, Go
<1>12. ASSUME NEW w \in Workers, StartWorker(w) PROVE NoLostWakeup'
  BY <1>12, <1>k, <1>p, <1>z DEF StartWorker, Go
<1>13. ASSUME NEW w \in Workers, SinkLog(w) PROVE NoLostWakeup'
  BY <1>13, <1>k, <1>p, <1>z DEF SinkLog, Go
<1>14. ASSUME NEW w \in Workers, SinksDone(w) PROVE NoLostWakeup'
  BY <1>14, <1>k, <1>p, <1>z DEF SinksDone, Go
<1>15. ASSUME NEW w \in Workers, SinkFlush(w) PROVE NoLostWakeup'
  BY <1>15, <1>k, <1>p, <1>z DEF SinkFlush, Go
<1>16. ASSUME NEW w \in Workers, Finish(w) PROVE NoLostWakeup'
  BY <1>16, <1>k, <1>p, <1>z DEF Finish, Go
<1>17. ASSUME NEW p \in Producers, Post(p) PROVE NoLostWakeup'
  BY <1>17, <1>k, <1>p, <1>z DEF Post, Go
<1>18. ASSUME NEW p \in Producers, Reject(p) PROVE NoLostWakeup'
  BY <1>18, <1>k, <1>p, <1>z DEF Reject, Go
<1>19. ASSUME Constructed PROVE NoLostWakeup'
  BY <1>19, <1>k, <1>p, <1>z DEF Constructed, Go
<1>20. QED
  BY <1>1, <1>2, <1>3, <1>4, <1>5, <1>6, <1>7, <1>8, <1>9, <1>10, <1>11, <1>12, <1>13,
     <1>14, <1>15, <1>16, <1>17, <1>18, <1>19, Actions
------------------------------------------------------------------------------
(* The sinks.                                                              *)

\* The steps a worker takes with a message.
LEMMA SinkSteps ==
    ASSUME TypeOK, Roles, Next, NEW P,
           (/\ at' = at /\ written' = written /\ flushed' = flushed /\ handled' = handled
            /\ \A w \in Workers :
                 /\ held'[w] = held[w]
                 /\ \/ pc'[w] = pc[w]
                    \/ pc[w] \notin {"process", "flush"} /\ pc'[w] \notin {"process", "flush"})
           => P,
           \A w \in Workers : /\ Dequeue(w) => P
                              /\ NotifyPop(w) => P
                              /\ SinkLog(w) => P
                              /\ SinksDone(w) => P
                              /\ SinkFlush(w) => P
                              /\ Finish(w) => P
    PROVE  P
<1>k. /\ Threads = Senders \cup Workers /\ Senders \cap Workers = {}
      /\ Producers \subseteq Senders /\ Owner \in Senders
  BY ThreadKinds
<1>p. pc \in [Threads -> Places]
  BY DEF TypeOK, Places
<1>s. ASSUME NEW t \in Senders, Moves(t), UNCHANGED output PROVE P
  <2>1. ASSUME NEW w \in Workers
        PROVE  /\ held'[w] = held[w]
               /\ \/ pc'[w] = pc[w]
                  \/ pc[w] = "empty" /\ pc'[w] = "dequeue"
                  \/ pc[w] = "full" /\ pc'[w] = "enqueue"
    <3>1. w \in Threads \ {t}
      BY <1>k
    <3>2. QED
      BY <1>s, <3>1 DEF Moves
  <2>2. QED
    BY <1>s, <2>1 DEF output
<1>1. ASSUME NEW t \in Senders,
             Enqueue(t) \/ WaitForRoom(t) \/ NotifyPush(t) \/ Spurious(t) \/ Release(t)
             \/ PostTerminate(t) \/ Join(t)
      PROVE  P
  <2>1. UNCHANGED output
    BY <1>1 DEF Enqueue, WaitForRoom, NotifyPush, Spurious, Release, PostTerminate, Join
  <2>2. QED
    BY <1>1, <1>s, <2>1, Movers
<1>2. ASSUME NEW p \in Producers, Post(p) \/ Reject(p) PROVE P
  <2>1. UNCHANGED output
    BY <1>2 DEF Post, Reject
  <2>2. QED
    BY <1>2, <1>k, <1>s, <2>1, Movers
<1>3. ASSUME Constructed PROVE P
  <2>1. UNCHANGED output
    BY <1>3 DEF Constructed
  <2>2. QED
    BY <1>3, <1>k, <1>s, <2>1, Movers
<1>4. ASSUME NEW w \in Workers, WaitForItem(w) \/ Expire(w) \/ StartWorker(w) PROVE P
  BY <1>4, <1>k, <1>p DEF WaitForItem, Expire, StartWorker, Go, output
<1>5. QED
  BY <1>1, <1>2, <1>3, <1>4, Actions

LEMMA SinkNumbers ==
    ASSUME TypeOK
    PROVE  /\ Len(Sinks) \in Nat /\ DOMAIN Sinks = 1..Len(Sinks)
           /\ at \in [Workers -> 1..(Len(Sinks) + 1)]
           /\ written \in [DOMAIN Sinks -> Seq(AllMessages)]
           /\ flushed \in [DOMAIN Sinks -> Nat]
           /\ \A s \in DOMAIN Sinks : flushed[s] <= Len(written[s]) /\ Len(written[s]) \in Nat
<1>1. written \in [DOMAIN Sinks -> Seq(AllMessages)]
  BY DEF TypeOK
<1>2. \A s \in DOMAIN Sinks : Len(written[s]) \in Nat
  BY <1>1
<1>3. QED
  BY <1>1, <1>2, AsyncAssumption DEF TypeOK

\* A worker that is done with the loop is past every sink.
LEMMA PastAll ==
    ASSUME TypeOK, NEW w \in Workers, pc[w] \in {"process", "flush"}, at[w] \notin DOMAIN Sinks,
           NEW s \in DOMAIN Sinks
    PROVE  Past(w, s) /\ at[w] > s
<1>1. at[w] \in 1..(Len(Sinks) + 1) /\ Len(Sinks) \in Nat /\ s \in 1..Len(Sinks)
      /\ at[w] \notin 1..Len(Sinks)
  BY SinkNumbers
<1>2. at[w] > s
  BY <1>1
<1>3. QED
  BY <1>2 DEF Past

\* A step of the loop over the sinks, to the next one.
LEMMA SinkLogged ==
    ASSUME TypeOK, Roles, Passage, Outputs, NEW w \in Workers, SinkLog(w)
    PROVE  LET n == at[w] m == held[w] IN
             /\ n \in DOMAIN Sinks /\ m \in AllMessages /\ ~Past(w, n) /\ m \notin Written(n)
             /\ Request(m).kind = "log" /\ ~Flushing(w)
             /\ \A s \in DOMAIN Sinks \ {n} : written'[s] = written[s]
             /\ \/ written'[n] = Append(written[n], m)
                \/ written'[n] = written[n] /\ (Sound(n) => ~Wanted(m, n))
             /\ pc' = pc /\ held' = held /\ handled' = handled /\ flushed' = flushed
             /\ \A v \in Workers \ {w} : at'[v] = at[v]
             /\ at'[w] = n + 1
<1> DEFINE n == at[w]
<1> DEFINE m == held[w]
<1>k. Threads = Senders \cup Workers
  BY ThreadKinds
<1>1. /\ pc[w] = "process" /\ ~Flushing(w) /\ n \in DOMAIN Sinks
      /\ at' = [at EXCEPT ![w] = @ + 1]
      /\ pc' = pc /\ held' = held /\ handled' = handled /\ flushed' = flushed
  BY DEF SinkLog
<1>2. m \in AllMessages
  BY <1>1, <1>k DEF Roles, Role
<1>3. Request(m).kind = "log" /\ Request(m).level \in Nat
  BY <1>1, <1>2, MessageParts DEF Flushing, Posts
<1>4. n \in Nat /\ at \in [Workers -> 1..(Len(Sinks) + 1)]
      /\ written \in [DOMAIN Sinks -> Seq(AllMessages)]
  BY SinkNumbers
<1>5. ~Past(w, n)
  BY <1>1, <1>4 DEF Past
<1>6. m \notin Written(n)
  <2>1. ASSUME m \in Written(n) PROVE FALSE
    <3>1. m \in handled \/ \E v \in Workers : held[v] = m /\ Past(v, n)
      BY <1>1, <2>1 DEF Outputs
    <3>2. m \notin handled /\ \A v \in Workers : held[v] = m => v = w
      BY <1>2 DEF Passage
    <3>3. QED
      BY <1>5, <3>1, <3>2
  <2>2. QED
    BY <2>1
<1>7. /\ \A s \in DOMAIN Sinks \ {n} : written'[s] = written[s]
      /\ \/ written'[n] = Append(written[n], m)
         \/ written'[n] = written[n] /\ (Sound(n) => ~Wanted(m, n))
  <2>1. SinkLevel[n] \in Nat
    BY <1>1, AsyncAssumption
  <2>2. \/ written' = [written EXCEPT ![n] = Append(@, m)]
        \/ (Request(m).level < SinkLevel[n] \/ Sinks[n] \in Faulty) /\ written' = written
    BY DEF SinkLog
  <2>3. CASE written' = [written EXCEPT ![n] = Append(@, m)]
    BY <1>1, <1>4, <2>3
  <2>4. CASE (Request(m).level < SinkLevel[n] \/ Sinks[n] \in Faulty) /\ written' = written
    BY <1>3, <2>1, <2>4 DEF Sound, Wanted
  <2>5. QED
    BY <2>2, <2>3, <2>4
<1>8. at'[w] = n + 1 /\ \A v \in Workers \ {w} : at'[v] = at[v]
  BY <1>1, <1>4
<1>9. QED
  BY <1>1, <1>2, <1>3, <1>5, <1>6, <1>7, <1>8

LEMMA NextOutputs ==
    ASSUME TypeOK, Roles, Passage, Outputs, Next PROVE Outputs'
<1>a. \A m : Request(m)' = Request(m)
  BY Chosen DEF Request
<1>k. /\ Threads = Senders \cup Workers /\ Senders \cap Workers = {}
  BY ThreadKinds
<1>n. /\ Len(Sinks) \in Nat /\ DOMAIN Sinks = 1..Len(Sinks)
      /\ at \in [Workers -> 1..(Len(Sinks) + 1)]
      /\ written \in [DOMAIN Sinks -> Seq(AllMessages)]
  BY SinkNumbers
<1>p. pc \in [Threads -> Places] /\ held \in [Threads -> AllMessages \cup {Terminate, NoMessage}]
  BY DEF TypeOK, Places
<1>w. \A m, s : Wanted(m, s)' <=> Wanted(m, s)
  BY <1>a DEF Wanted
<1>s. ASSUME \A s \in DOMAIN Sinks :
               /\ \A m \in Written(s)' : m \in handled' \/ \E w \in Workers : held'[w] = m /\ Past(w, s)'
               /\ \A i, j \in 1..Len(written'[s]) : i < j => written'[s][i] # written'[s][j]
               /\ Sound(s) =>
                    /\ \A m \in handled' : Wanted(m, s) => m \in Written(s)'
                    /\ \A w \in Workers : Past(w, s)' /\ Wanted(held'[w], s) => held'[w] \in Written(s)'
      PROVE  Outputs'
  BY <1>s, <1>w DEF Outputs, Sound
\* Steps that neither write nor finish a message nor move a worker past a sink.
<1>u. ASSUME written' = written, handled' = handled,
             \A w \in Workers, s \in DOMAIN Sinks :
                (Past(w, s)' <=> Past(w, s)) /\ (Past(w, s) => held'[w] = held[w])
      PROVE  Outputs'
  <2>1. \A s \in DOMAIN Sinks : Written(s)' = Written(s)
    BY <1>u DEF Written
  <2>2. QED
    BY <1>s, <1>u, <2>1 DEF Outputs
<1>1. ASSUME at' = at, written' = written, flushed' = flushed, handled' = handled,
             \A w \in Workers :
                 /\ held'[w] = held[w]
                 /\ \/ pc'[w] = pc[w]
                    \/ pc[w] \notin {"process", "flush"} /\ pc'[w] \notin {"process", "flush"}
      PROVE  Outputs'
  <2>1. \A w \in Workers, s \in DOMAIN Sinks : Past(w, s)' <=> Past(w, s)
    BY <1>1 DEF Past
  <2>2. QED
    BY <1>1, <1>u, <2>1
<1>2. ASSUME NEW w \in Workers, Dequeue(w) PROVE Outputs'
  <2>1. /\ pc' = [pc EXCEPT ![w] = "notify_pop"] /\ pc[w] = "dequeue" /\ at' = at
        /\ written' = written /\ handled' = handled
        /\ \A v \in Workers \ {w} : held'[v] = held[v]
    BY <1>2, <1>k, <1>p DEF Dequeue, Go, output
  <2>2. \A v \in Workers, s \in DOMAIN Sinks :
          (Past(v, s)' <=> Past(v, s)) /\ (Past(v, s) => held'[v] = held[v])
    BY <1>k, <1>p, <2>1 DEF Past
  <2>3. QED
    BY <1>u, <2>1, <2>2
<1>3. ASSUME NEW w \in Workers, NotifyPop(w) PROVE Outputs'
  <2>1. pc[w] = "notify_pop" /\ UNCHANGED <<held, at, written, handled>> /\ at[w] = 1
    BY <1>3, <1>k DEF NotifyPop, output, Roles, Role
  <2>2. \A v \in Workers \ {w} : pc'[v] = pc[v]
    <3>1. \A v \in Workers : pc[v] # "full"
      BY <1>k DEF Roles, Role
    <3>2. QED
      BY <1>3, <1>k, <1>p, <3>1 DEF NotifyPop, NotifyOne, Go, At
  <2>3. pc'[w] # "flush"
    <3>1. \A v \in At("full") : v # w
      BY <2>1 DEF At
    <3>2. QED
      BY <1>3, <1>k, <1>p, <3>1 DEF NotifyPop, NotifyOne, Go
  <2>4. ASSUME NEW v \in Workers, NEW s \in DOMAIN Sinks PROVE Past(v, s)' <=> Past(v, s)
    <3>1. CASE v = w
      <4>1. ~(at[w] > s) /\ at'[w] = at[w]
        BY <1>n, <2>1
      <4>2. QED
        BY <2>1, <2>3, <3>1, <4>1 DEF Past
    <3>2. CASE v # w
      BY <2>1, <2>2, <3>2 DEF Past
    <3>3. QED
      BY <3>1, <3>2
  <2>5. QED
    BY <1>u, <2>1, <2>4
<1>4. ASSUME NEW w \in Workers, SinkLog(w) PROVE Outputs'
  <2>n. PICK n \in DOMAIN Sinks : n = at[w]
    BY <1>4 DEF SinkLog
  <2>m. PICK m : m = held[w]
    OBVIOUS
  <2>1. /\ n \in DOMAIN Sinks /\ m \in AllMessages /\ ~Past(w, n) /\ m \notin Written(n)
        /\ Request(m).kind = "log" /\ ~Flushing(w)
        /\ \A s \in DOMAIN Sinks \ {n} : written'[s] = written[s]
        /\ \/ written'[n] = Append(written[n], m)
           \/ written'[n] = written[n] /\ (Sound(n) => ~Wanted(m, n))
        /\ pc' = pc /\ held' = held /\ handled' = handled
        /\ \A v \in Workers \ {w} : at'[v] = at[v]
        /\ at'[w] = n + 1
    BY <1>4, <2>n, <2>m, SinkLogged
  <2>p. pc[w] = "process"
    BY <1>4 DEF SinkLog
  <2>2. \A v \in Workers \ {w}, s \in DOMAIN Sinks : Past(v, s)' <=> Past(v, s)
    BY <2>1 DEF Past
  <2>3. /\ \A s \in DOMAIN Sinks \ {n} : Past(w, s)' <=> Past(w, s)
        /\ Past(w, n)'
    BY <1>n, <2>1, <2>n, <2>p DEF Past
  <2>4. ASSUME NEW s \in DOMAIN Sinks, s # n
        PROVE  /\ \A x \in Written(s)' : x \in handled' \/ \E v \in Workers : held'[v] = x /\ Past(v, s)'
               /\ \A i, j \in 1..Len(written'[s]) : i < j => written'[s][i] # written'[s][j]
               /\ Sound(s) =>
                    /\ \A x \in handled' : Wanted(x, s) => x \in Written(s)'
                    /\ \A v \in Workers : Past(v, s)' /\ Wanted(held'[v], s) => held'[v] \in Written(s)'
    <3>1. Written(s)' = Written(s) /\ written'[s] = written[s]
      BY <2>1, <2>4 DEF Written
    <3>2. \A v \in Workers : Past(v, s)' <=> Past(v, s)
      BY <2>2, <2>3, <2>4
    <3>3. QED
      BY <2>1, <3>1, <3>2 DEF Outputs
  <2>5. CASE written'[n] = Append(written[n], m)
    <3>1. written[n] \in Seq(AllMessages) /\ Len(written[n]) \in Nat
      BY <1>n, <2>1
    <3>2. /\ Len(written'[n]) = Len(written[n]) + 1
          /\ \A i \in 1..Len(written[n]) : written'[n][i] = written[n][i]
          /\ written'[n][Len(written[n]) + 1] = m
      BY <2>1, <2>5, <3>1
    <3>3. \A x : x \in Written(n)' <=> x \in Written(n) \/ x = m
      <4>1. \A x : x \in Written(n)' <=> \E i \in 1..(Len(written[n]) + 1) : written'[n][i] = x
        BY <3>2 DEF Written
      <4>2. \A i : i \in 1..(Len(written[n]) + 1) <=> i \in 1..Len(written[n]) \/ i = Len(written[n]) + 1
        BY <3>1
      <4>3. QED
        BY <3>2, <4>1, <4>2 DEF Written
    <3>4. \A x \in Written(n)' : x \in handled' \/ \E v \in Workers : held'[v] = x /\ Past(v, n)'
      <4>1. ASSUME NEW x \in Written(n) PROVE x \in handled \/ \E v \in Workers \ {w} : held[v] = x /\ Past(v, n)
        BY <2>1 DEF Outputs
      <4>2. QED
        BY <2>1, <2>m, <2>2, <2>3, <3>3, <4>1
    <3>5. ASSUME NEW i \in 1..Len(written'[n]), NEW j \in 1..Len(written'[n]), i < j
          PROVE  written'[n][i] # written'[n][j]
      <4>1. i \in 1..Len(written[n]) /\ written'[n][i] = written[n][i] /\ written[n][i] \in Written(n)
        BY <3>1, <3>2, <3>5 DEF Written
      <4>2. CASE j = Len(written[n]) + 1
        BY <2>1, <3>2, <4>1, <4>2
      <4>3. CASE j # Len(written[n]) + 1
        <5>1. j \in 1..Len(written[n]) /\ written'[n][j] = written[n][j]
          BY <3>1, <3>2, <4>3
        <5>2. QED
          BY <2>1, <3>5, <4>1, <5>1 DEF Outputs
      <4>4. QED
        BY <4>2, <4>3
    <3>6. ASSUME Sound(n)
          PROVE  /\ \A x \in handled' : Wanted(x, n) => x \in Written(n)'
                 /\ \A v \in Workers : Past(v, n)' /\ Wanted(held'[v], n) => held'[v] \in Written(n)'
      BY <2>1, <2>m, <2>2, <3>3, <3>6 DEF Outputs
    <3>7. QED
      BY <1>s, <2>4, <3>4, <3>5, <3>6
  <2>6. CASE written'[n] = written[n] /\ (Sound(n) => ~Wanted(m, n))
    <3>1. Written(n)' = Written(n)
      BY <2>6 DEF Written
    <3>2. \A x \in Written(n)' : x \in handled' \/ \E v \in Workers : held'[v] = x /\ Past(v, n)'
      <4>1. ASSUME NEW x \in Written(n) PROVE x \in handled \/ \E v \in Workers \ {w} : held[v] = x /\ Past(v, n)
        BY <2>1 DEF Outputs
      <4>2. QED
        BY <2>1, <2>2, <3>1, <4>1
    <3>3. \A i, j \in 1..Len(written'[n]) : i < j => written'[n][i] # written'[n][j]
      BY <2>1, <2>6 DEF Outputs
    <3>4. ASSUME Sound(n)
          PROVE  /\ \A x \in handled' : Wanted(x, n) => x \in Written(n)'
                 /\ \A v \in Workers : Past(v, n)' /\ Wanted(held'[v], n) => held'[v] \in Written(n)'
      BY <2>1, <2>m, <2>2, <2>6, <3>1, <3>4 DEF Outputs
    <3>5. QED
      BY <1>s, <2>4, <3>2, <3>3, <3>4
  <2>7. QED
    BY <2>1, <2>5, <2>6
<1>5. ASSUME NEW w \in Workers, SinksDone(w) PROVE Outputs'
  <2>1. /\ pc[w] = "process" /\ pc' = [pc EXCEPT ![w] = "flush"] /\ at[w] \notin DOMAIN Sinks
        /\ at' = [at EXCEPT ![w] = 1] /\ held' = held /\ written' = written /\ handled' = handled
    BY <1>5 DEF SinksDone, Go
  <2>2. \A s \in DOMAIN Sinks : Past(w, s)
    BY <2>1, PastAll
  <2>3. \A v \in Workers, s \in DOMAIN Sinks : Past(v, s)' <=> Past(v, s)
    BY <1>k, <1>n, <1>p, <2>1, <2>2 DEF Past
  <2>4. QED
    BY <1>u, <2>1, <2>3
<1>6. ASSUME NEW w \in Workers, SinkFlush(w) PROVE Outputs'
  <2>1. /\ Flushing(w) /\ at[w] \in DOMAIN Sinks /\ at' = [at EXCEPT ![w] = @ + 1]
        /\ pc' = pc /\ held' = held /\ written' = written /\ handled' = handled
    BY <1>6 DEF SinkFlush
  <2>2. \A v \in Workers \ {w}, s \in DOMAIN Sinks : Past(v, s)' <=> Past(v, s)
    BY <1>n, <2>1 DEF Past
  <2>3. \A s \in DOMAIN Sinks : Past(w, s) => Past(w, s)'
    BY <1>n, <2>1 DEF Past
  <2>4. \A s \in DOMAIN Sinks : Past(w, s)' => Past(w, s) \/ ~Wanted(held[w], s)
    BY <2>1 DEF Past, Flushing, Wanted
  <2>5. \A s \in DOMAIN Sinks : Written(s)' = Written(s)
    BY <2>1 DEF Written
  <2>6. QED
    BY <1>s, <2>1, <2>2, <2>3, <2>4, <2>5 DEF Outputs
<1>7. ASSUME NEW w \in Workers, Finish(w) PROVE Outputs'
  <2>1. /\ pc[w] \in {"process", "flush"} /\ pc' = [pc EXCEPT ![w] = "dequeue"]
        /\ at[w] \notin DOMAIN Sinks /\ at' = [at EXCEPT ![w] = 1] /\ written' = written
        /\ handled' = handled \cup {held[w]}
        /\ \A v \in Workers \ {w} : held'[v] = held[v]
    BY <1>7, <1>k, <1>p DEF Finish, Go
  <2>2. \A s \in DOMAIN Sinks : Past(w, s)
    BY <2>1, PastAll
  <2>3. /\ \A v \in Workers \ {w}, s \in DOMAIN Sinks : Past(v, s)' <=> Past(v, s)
        /\ \A s \in DOMAIN Sinks : ~Past(w, s)'
    BY <1>k, <1>n, <1>p, <2>1 DEF Past
  <2>4. \A s \in DOMAIN Sinks : Written(s)' = Written(s)
    BY <2>1 DEF Written
  <2>5. ASSUME NEW s \in DOMAIN Sinks, NEW m \in Written(s)
        PROVE  m \in handled' \/ \E v \in Workers : held'[v] = m /\ Past(v, s)'
    <3>1. m \in handled \/ \E v \in Workers : held[v] = m /\ Past(v, s)
      BY DEF Outputs
    <3>2. QED
      BY <2>1, <2>3, <3>1
  <2>6. ASSUME NEW s \in DOMAIN Sinks, Sound(s)
        PROVE  /\ \A m \in handled' : Wanted(m, s) => m \in Written(s)
               /\ \A v \in Workers : Past(v, s)' /\ Wanted(held'[v], s) => held'[v] \in Written(s)
    BY <2>1, <2>2, <2>3, <2>6 DEF Outputs
  <2>7. \A s \in DOMAIN Sinks : \A i, j \in 1..Len(written'[s]) :
           i < j => written'[s][i] # written'[s][j]
    BY <2>1 DEF Outputs
  <2>8. QED
    BY <1>s, <2>4, <2>5, <2>6, <2>7
<1>8. QED
  BY <1>1, <1>2, <1>3, <1>4, <1>5, <1>6, <1>7, SinkSteps
------------------------------------------------------------------------------
(* With one worker.                                                        *)

LEMMA Alone ==
    ASSUME TypeOK, Roles, NEW w, threads_ = {w}, NEW v \in Workers, v # w
    PROVE  pc[v] = "unborn" /\ held[v] \notin AllMessages /\ ~Flushing(v)
           /\ \A s : ~Past(v, s)
<1>1. pc[v] = "unborn" /\ held[v] = NoMessage
  BY ThreadKinds DEF Roles, Role, Carrying
<1>2. QED
  BY <1>1, MessagesApart DEF Flushing, Past

\* Flushing more covers more.
LEMMA CoversStays ==
    ASSUME TypeOK, NEW m, Covers(m), \A n : Request(n)' = Request(n),
           \A i \in 1..m[2] : <<m[1], i>> \in handled' => <<m[1], i>> \in handled,
           \A s \in DOMAIN Sinks : /\ flushed'[s] \in Nat /\ flushed'[s] >= flushed[s]
                                   /\ \A j \in 1..flushed[s] : written'[s][j] = written[s][j]
    PROVE  Covers(m)'
<1>1. \A n, s : Wanted(n, s)' = Wanted(n, s)
  BY DEF Wanted
<1>2. FlushesAfter(m)' = FlushesAfter(m)
  BY DEF FlushesAfter
<1>3. ASSUME Request(m).kind = "flush" \/ FlushesAfter(m),
             NEW s \in {n \in DOMAIN Sinks : Sinks[n] \notin Faulty}, NEW i \in 1..m[2],
             <<m[1], i>> \in handled', Wanted(<<m[1], i>>, s)
      PROVE  \E j \in 1..flushed'[s] : written'[s][j] = <<m[1], i>>
  <2>1. PICK j \in 1..flushed[s] : written[s][j] = <<m[1], i>>
    BY <1>3 DEF Covers
  <2>2. flushed[s] \in Nat /\ flushed'[s] \in Nat /\ flushed'[s] >= flushed[s]
    BY SinkNumbers
  <2>3. j \in 1..flushed'[s] /\ written'[s][j] = <<m[1], i>>
    BY <2>1, <2>2
  <2>4. QED
    BY <2>3
<1>4. QED
  BY <1>1, <1>2, <1>3 DEF Covers

LEMMA NextSingle ==
    ASSUME TypeOK, Roles, Passage, Outputs, Single, Next PROVE Single'
<1>a. threads_' = threads_ /\ AllMessages' = AllMessages /\ \A m : Request(m)' = Request(m)
  BY Chosen DEF Request
<1>1. SUFFICES ASSUME NEW w \in Workers, threads_ = {w} PROVE OneWorker'
  <2>1. \A x : threads_ = {x} => x \in Workers
    BY Programs
  <2>2. QED
    BY <1>a, <1>1, <2>1 DEF Single
<1>2. /\ \A m \in handled : held[w] \in AllMessages => Before(m, held[w])
      /\ \A s \in DOMAIN Sinks : Flushing(w) /\ Sound(s) /\ at[w] > s => flushed[s] = Len(written[s])
      /\ InOrder
      /\ \A m \in handled : Covers(m)
  BY <1>1 DEF Single, OneWorker
<1>o. ASSUME NEW v \in Workers, v # w
      PROVE  pc[v] = "unborn" /\ held[v] \notin AllMessages /\ ~Flushing(v) /\ \A s : ~Past(v, s)
  BY <1>1, <1>o, Alone
<1>k. /\ Threads = Senders \cup Workers /\ Senders \cap Workers = {}
  BY ThreadKinds
<1>m. Terminate \notin AllMessages /\ NoMessage \notin AllMessages
  BY MessagesApart
<1>n. /\ Len(Sinks) \in Nat /\ DOMAIN Sinks = 1..Len(Sinks)
      /\ at \in [Workers -> 1..(Len(Sinks) + 1)]
      /\ written \in [DOMAIN Sinks -> Seq(AllMessages)]
      /\ flushed \in [DOMAIN Sinks -> Nat]
      /\ \A s \in DOMAIN Sinks : flushed[s] <= Len(written[s]) /\ Len(written[s]) \in Nat
  BY SinkNumbers
<1>p. pc \in [Threads -> Places] /\ held \in [Threads -> AllMessages \cup {Terminate, NoMessage}]
  BY DEF TypeOK, Places
<1>c. ASSUME handled' = handled, flushed' = flushed, written' = written
      PROVE  (\A m \in handled' : Covers(m)') /\ InOrder'
  <2>1. \A s \in DOMAIN Sinks : flushed'[s] \in Nat /\ flushed'[s] >= flushed[s]
    BY <1>c, <1>n
  <2>2. ASSUME NEW m, Covers(m) PROVE Covers(m)'
    BY <1>a, <1>c, <2>1, <2>2, CoversStays
  <2>3. InOrder'
    BY <1>2, <1>c DEF InOrder, Before
  <2>4. QED
    BY <1>2, <1>c, <2>2, <2>3
\* Steps that leave the sinks alone.
<1>u. ASSUME written' = written, flushed' = flushed, handled' = handled,
             \A v \in Workers : held'[v] \in AllMessages =>
                                  \A m \in handled : Before(m, held'[v]),
             \A v \in Workers : Flushing(v)' => (Flushing(v) /\ at'[v] = at[v]) \/ at'[v] = 1
      PROVE  OneWorker'
  <2>1. ASSUME NEW v \in Workers, NEW s \in DOMAIN Sinks, Flushing(v)', Sound(s), at'[v] > s
        PROVE  flushed'[s] = Len(written'[s])
    <3>1. at'[v] # 1
      BY <1>n, <2>1
    <3>2. Flushing(v) /\ at'[v] = at[v]
      BY <1>u, <2>1, <3>1
    <3>3. v = w
      BY <1>o, <3>2
    <3>4. QED
      BY <1>2, <1>u, <2>1, <3>2, <3>3
  <2>2. QED
    BY <1>a, <1>c, <1>u, <2>1 DEF OneWorker, Sound, Before
<1>3. ASSUME at' = at, written' = written, flushed' = flushed, handled' = handled,
             \A v \in Workers :
                 /\ held'[v] = held[v]
                 /\ \/ pc'[v] = pc[v]
                    \/ pc[v] \notin {"process", "flush"} /\ pc'[v] \notin {"process", "flush"}
      PROVE  OneWorker'
  <2>1. \A v \in Workers : Flushing(v)' => Flushing(v)
    BY <1>a, <1>3 DEF Flushing
  <2>2. \A v \in Workers : held'[v] \in AllMessages => \A m \in handled : Before(m, held'[v])
    BY <1>2, <1>3, <1>o
  <2>3. QED
    BY <1>3, <1>u, <2>1, <2>2
<1>4. ASSUME NEW v \in Workers, Dequeue(v) PROVE OneWorker'
  <2>1. /\ Len(Line) \in Nat \ {0} /\ held' = [held EXCEPT ![v] = Line[1]]
        /\ pc' = [pc EXCEPT ![v] = "notify_pop"] /\ at' = at /\ written' = written
        /\ flushed' = flushed /\ handled' = handled
    BY <1>4, DequeueMoves DEF Dequeue, Go, output
  <2>2. 1 \in 1..Len(Line)
    BY <2>1
  <2>3. Line[1] \in AllMessages => \A m \in handled : Before(m, Line[1])
    BY <2>2 DEF Passage
  <2>4. \A u \in Workers : held'[u] \in AllMessages => \A m \in handled : Before(m, held'[u])
    BY <1>2, <1>k, <1>o, <1>p, <2>1, <2>3
  <2>5. \A u \in Workers : Flushing(u)' => Flushing(u)
    BY <1>a, <1>k, <1>p, <2>1 DEF Flushing
  <2>6. QED
    BY <1>u, <2>1, <2>4, <2>5
<1>5. ASSUME NEW v \in Workers, NotifyPop(v) PROVE OneWorker'
  <2>1. /\ pc[v] = "notify_pop" /\ held' = held /\ at' = at /\ written' = written
        /\ flushed' = flushed /\ handled' = handled /\ at[v] = 1
    BY <1>5, <1>k DEF NotifyPop, output, Roles, Role
  <2>2. \A u \in Workers \ {v} : pc'[u] = pc[u]
    <3>1. \A u \in Workers : pc[u] # "full"
      BY <1>k DEF Roles, Role
    <3>2. QED
      BY <1>5, <1>k, <1>p, <3>1 DEF NotifyPop, NotifyOne, Go, At
  <2>3. \A u \in Workers : Flushing(u)' => Flushing(u) \/ at'[u] = 1
    BY <1>a, <2>1, <2>2 DEF Flushing
  <2>4. \A u \in Workers : held'[u] \in AllMessages => \A m \in handled : Before(m, held'[u])
    BY <1>2, <1>o, <2>1
  <2>5. QED
    BY <1>u, <2>1, <2>3, <2>4
<1>6. ASSUME NEW v \in Workers, SinkLog(v) PROVE OneWorker'
  <2>n. PICK n \in DOMAIN Sinks : n = at[v]
    BY <1>6 DEF SinkLog
  <2>m. PICK x : x = held[v]
    OBVIOUS
  <2>1. /\ x \in AllMessages /\ ~Past(v, n) /\ ~Flushing(v)
        /\ \A s \in DOMAIN Sinks \ {n} : written'[s] = written[s]
        /\ written'[n] = Append(written[n], x) \/ written'[n] = written[n]
        /\ pc' = pc /\ held' = held /\ handled' = handled /\ flushed' = flushed
        /\ \A u \in Workers \ {v} : at'[u] = at[u]
    BY <1>6, <2>n, <2>m, SinkLogged
  <2>v. v = w
    BY <1>o, <2>m, <2>1
  <2>2. ASSUME NEW u \in Workers PROVE ~Flushing(u)'
    <3>1. ~Flushing(u)
      BY <1>o, <2>1, <2>v
    <3>2. QED
      BY <1>a, <2>1, <3>1 DEF Flushing
  <2>3. \A u \in Workers : held'[u] \in AllMessages => \A m \in handled' : Before(m, held'[u])
    BY <1>2, <1>o, <2>1
  <2>4. written[n] \in Seq(AllMessages) /\ Len(written[n]) \in Nat
    BY <1>n
  <2>5. \A j \in 1..Len(written[n]) : written'[n][j] = written[n][j]
    BY <2>1, <2>4
  <2>6. InOrder'
    <3>1. ASSUME NEW s \in DOMAIN Sinks, NEW i \in 1..Len(written'[s]), NEW j \in 1..Len(written'[s]), i < j
          PROVE  Before(written'[s][i], written'[s][j])
      <4>1. CASE s # n \/ written'[n] = written[n]
        BY <1>2, <2>1, <3>1, <4>1 DEF InOrder
      <4>2. CASE s = n /\ written'[n] = Append(written[n], x)
        <5>1. Len(written'[n]) = Len(written[n]) + 1 /\ written'[n][Len(written[n]) + 1] = x
          BY <2>1, <2>4, <4>2
        <5>2. i \in 1..Len(written[n]) /\ written'[n][i] = written[n][i]
          BY <2>4, <2>5, <3>1, <4>2, <5>1
        <5>3. CASE j = Len(written[n]) + 1
          <6>1. written[n][i] \in Written(n)
            BY <5>2 DEF Written
          <6>2. written[n][i] \in handled
            BY <1>o, <2>1, <2>v, <6>1 DEF Outputs
          <6>3. QED
            BY <1>2, <2>m, <2>1, <2>v, <4>2, <5>1, <5>2, <5>3, <6>2
        <5>4. CASE j # Len(written[n]) + 1
          <6>1. j \in 1..Len(written[n]) /\ written'[n][j] = written[n][j]
            BY <2>4, <2>5, <3>1, <4>2, <5>1, <5>4
          <6>2. QED
            BY <1>2, <3>1, <4>2, <5>2, <6>1 DEF InOrder
        <5>5. QED
          BY <5>3, <5>4
      <4>3. QED
        BY <2>1, <4>1, <4>2
    <3>2. QED
      BY <3>1 DEF InOrder, Before
  <2>7. ASSUME NEW m \in handled' PROVE Covers(m)'
    <3>1. \A s \in DOMAIN Sinks : /\ flushed'[s] \in Nat /\ flushed'[s] >= flushed[s]
                                  /\ \A j \in 1..flushed[s] : j \in 1..Len(written[s])
      BY <1>n, <2>1
    <3>2. \A s \in DOMAIN Sinks : \A j \in 1..flushed[s] : written'[s][j] = written[s][j]
      BY <2>1, <2>5, <3>1
    <3>3. Covers(m)
      BY <1>2, <2>1
    <3>4. QED
      BY <1>a, <2>1, <3>1, <3>2, <3>3, CoversStays
  <2>8. QED
    BY <1>a, <2>2, <2>3, <2>6, <2>7 DEF OneWorker, Before
<1>7. ASSUME NEW v \in Workers, SinksDone(v) PROVE OneWorker'
  <2>1. /\ pc' = [pc EXCEPT ![v] = "flush"] /\ at' = [at EXCEPT ![v] = 1]
        /\ held' = held /\ written' = written /\ flushed' = flushed /\ handled' = handled
    BY <1>7 DEF SinksDone, Go
  <2>2. \A u \in Workers : Flushing(u)' => (Flushing(u) /\ at'[u] = at[u]) \/ at'[u] = 1
    BY <1>a, <1>k, <1>n, <1>p, <2>1 DEF Flushing
  <2>3. \A u \in Workers : held'[u] \in AllMessages => \A m \in handled : Before(m, held'[u])
    BY <1>2, <1>o, <2>1
  <2>4. QED
    BY <1>u, <2>1, <2>2, <2>3
<1>8. ASSUME NEW v \in Workers, SinkFlush(v) PROVE OneWorker'
  <2>n. PICK n \in DOMAIN Sinks : n = at[v]
    BY <1>8 DEF SinkFlush
  <2>1. /\ Flushing(v) /\ at' = [at EXCEPT ![v] = @ + 1]
        /\ pc' = pc /\ held' = held /\ written' = written /\ handled' = handled
        /\ \/ flushed' = [flushed EXCEPT ![n] = Len(written[n])]
           \/ Sinks[n] \in Faulty /\ flushed' = flushed
    BY <1>8, <2>n DEF SinkFlush
  <2>v. v = w
    BY <1>o, <2>1
  <2>2. \A u \in Workers : Flushing(u)' => u = w
    BY <1>a, <1>o, <2>1 DEF Flushing
  <2>3. \A u \in Workers : held'[u] \in AllMessages => \A m \in handled' : Before(m, held'[u])
    BY <1>2, <1>o, <2>1
  <2>4. \A s \in DOMAIN Sinks : flushed'[s] \in Nat /\ flushed'[s] >= flushed[s]
    <3>1. ASSUME NEW s \in DOMAIN Sinks PROVE flushed'[s] \in {flushed[s], Len(written[s])}
      BY <1>n, <2>1
    <3>2. QED
      BY <1>n, <3>1
  <2>5. ASSUME NEW s \in DOMAIN Sinks, Sound(s), at'[w] > s PROVE flushed'[s] = Len(written'[s])
    <3>1. CASE s = n
      BY <1>n, <2>1, <2>5, <3>1 DEF Sound
    <3>2. CASE s # n
      <4>1. at[w] > s
        BY <1>n, <2>n, <2>1, <2>v, <2>5, <3>2
      <4>2. flushed[s] = Len(written[s])
        BY <1>2, <2>1, <2>v, <2>5, <4>1
      <4>3. QED
        BY <1>n, <2>1, <3>2, <4>2
    <3>3. QED
      BY <3>1, <3>2
  <2>6. InOrder'
    BY <1>2, <2>1 DEF InOrder, Before
  <2>7. ASSUME NEW m \in handled' PROVE Covers(m)'
    BY <1>2, <1>a, <2>1, <2>4, CoversStays
  <2>8. QED
    BY <1>a, <2>2, <2>3, <2>5, <2>6, <2>7 DEF OneWorker, Before, Sound
<1>9. ASSUME NEW v \in Workers, Finish(v) PROVE OneWorker'
  <2>x. PICK x : x = held[v]
    OBVIOUS
  <2>1. /\ pc[v] \in {"process", "flush"} /\ pc' = [pc EXCEPT ![v] = "dequeue"]
        /\ pc[v] = "process" => ~FlushesAfter(x)
        /\ at[v] \notin DOMAIN Sinks /\ written' = written /\ flushed' = flushed
        /\ handled' = handled \cup {x} /\ held' = [held EXCEPT ![v] = NoMessage]
    BY <1>9, <2>x DEF Finish, Go
  <2>v. v = w
    BY <1>o, <2>1
  <2>2. x \in AllMessages
    BY <1>k, <2>1, <2>x DEF Roles, Role
  <2>3. ASSUME NEW u \in Workers PROVE held'[u] \notin AllMessages /\ ~Flushing(u)'
    <3>1. CASE u = w
      BY <1>k, <1>m, <1>p, <2>1, <2>v, <3>1 DEF Flushing
    <3>2. CASE u # w
      <4>1. held'[u] = held[u] /\ pc'[u] = "unborn"
        BY <1>k, <1>o, <1>p, <2>1, <2>v, <3>2
      <4>2. QED
        BY <1>o, <3>2, <4>1 DEF Flushing
    <3>3. QED
      BY <3>1, <3>2
  <2>4. InOrder'
    BY <1>2, <2>1 DEF InOrder, Before
  <2>5. ASSUME NEW m \in handled PROVE Covers(m)'
    <3>1. m \in AllMessages /\ m[2] \in Nat
      <4>1. m \in AllMessages
        BY DEF TypeOK
      <4>2. QED
        BY <4>1, MessageParts
    <3>2. ASSUME NEW i \in 1..m[2], <<m[1], i>> = x PROVE FALSE
      <4>1. x[1] = m[1] /\ x[2] = i
        BY <3>2
      <4>2. Before(m, x)
        BY <1>2, <2>x, <2>v, <2>2
      <4>3. QED
        BY <3>1, <4>1, <4>2 DEF Before
    <3>3. \A s \in DOMAIN Sinks : flushed'[s] \in Nat /\ flushed'[s] >= flushed[s]
      BY <1>n, <2>1
    <3>4. QED
      BY <1>2, <1>a, <2>1, <3>2, <3>3, CoversStays
  <2>6. Covers(x)'
    <3>1. ASSUME Request(x).kind = "flush" \/ FlushesAfter(x),
                 NEW s \in DOMAIN Sinks, Sinks[s] \notin Faulty, NEW i \in 1..x[2],
                 <<x[1], i>> \in handled', Wanted(<<x[1], i>>, s)
          PROVE  \E j \in 1..flushed'[s] : written'[s][j] = <<x[1], i>>
      <4>1. Flushing(v)
        BY <2>x, <2>1, <3>1 DEF Flushing
      <4>2. Past(v, s) /\ at[v] > s /\ Sound(s)
        BY <2>1, <3>1, PastAll DEF Sound
      <4>3. flushed[s] = Len(written[s])
        BY <1>2, <2>v, <3>1, <4>1, <4>2
      <4>4. <<x[1], i>> \in Written(s)
        BY <2>x, <2>1, <3>1, <4>2 DEF Outputs
      <4>5. QED
        BY <2>1, <4>3, <4>4 DEF Written
    <3>2. /\ \A n, s : Wanted(n, s)' = Wanted(n, s)
          /\ FlushesAfter(x)' = FlushesAfter(x)
      BY <1>a DEF Wanted, FlushesAfter
    <3>3. QED
      BY <1>a, <3>1, <3>2 DEF Covers
  <2>7. QED
    BY <1>a, <2>1, <2>3, <2>4, <2>5, <2>6 DEF OneWorker
<1>10. QED
  BY <1>3, <1>4, <1>5, <1>6, <1>7, <1>8, <1>9, SinkSteps
------------------------------------------------------------------------------
(* The theorems.                                                           *)

LEMMA EmptyRing ==
    ASSUME NEW Items
    PROVE  /\ Ring(Create(Capacity), Items) /\ Create(Capacity).max = Capacity + 1
           /\ Create(Capacity).over = 0 /\ Contents(Create(Capacity)) = <<>>
           /\ Size(Create(Capacity)) = 0
<1>1. Capacity \in Nat \ {0}
  BY AsyncAssumption
<1>2. Size(Create(Capacity)) = 0
  BY <1>1 DEF Size, Create
<1>3. Contents(Create(Capacity)) = <<>>
  BY <1>2 DEF Contents
<1>4. Ring(Create(Capacity), Items)
  BY <1>1 DEF Ring, Create
<1>5. QED
  BY <1>1, <1>2, <1>3, <1>4 DEF Create

LEMMA InitIInv == Init => IInv
<1> SUFFICES ASSUME Init PROVE IInv
  OBVIOUS
<1>k. /\ Threads = Senders \cup Workers /\ Senders \cap Workers = {}
      /\ Producers \subseteq Senders /\ Owner \in Senders /\ Owner \notin Producers
      /\ Senders = Producers \cup {Owner}
  BY ThreadKinds DEF Senders
<1>m. Terminate \notin AllMessages /\ NoMessage \notin AllMessages /\ Terminate # NoMessage
  BY MessagesApart
<1>q. /\ Ring(q, AllMessages \cup {Terminate}) /\ q.max = Capacity + 1 /\ q.over = 0
      /\ Line = <<>> /\ Size(q) = 0
  BY EmptyRing DEF Init, Line
<1>s. /\ \A s \in DOMAIN Sinks : written[s] = <<>> /\ flushed[s] = 0
      /\ written \in [DOMAIN Sinks -> Seq(AllMessages)]
  BY DEF Init
<1>i. /\ \A t \in Threads : held[t] = NoMessage
      /\ \A t \in Senders : pc[t] = "idle"
      /\ \A w \in Workers : pc[w] = "unborn" /\ at[w] = 1
      /\ handled = {} /\ rejected = {} /\ refs = {Owner} /\ phase = "constructing"
  BY <1>k DEF Init
<1>1. TypeOK
  <2>1. \E c \in Setups : threads_ = c.threads /\ program = c.program
    BY DEF Init
  <2>2. IsFiniteSet(threads_)
    <3>1. threads_ \subseteq Workers
      BY <2>1, AsyncAssumption
    <3>2. QED
      BY <3>1, AsyncAssumption, FS_Subset
  <2>3. left \in 0..Cardinality(threads_)
    BY <2>2, FS_CardinalityType DEF Init
  <2>4. at \in [Workers -> 1..(Len(Sinks) + 1)]
    BY AsyncAssumption DEF Init
  <2>5. \A s \in DOMAIN Sinks : flushed[s] <= Len(written[s])
    BY <1>s
  <2>6. QED
    BY <1>q, <1>s, <2>1, <2>3, <2>4, <2>5 DEF Init, TypeOK
<1>2. Roles
  BY <1>k, <1>m, <1>q, <1>i DEF Roles, Role, Carrying
<1>3. Quiet /\ Life
  BY <1>k, <1>m, <1>q, <1>i DEF Quiet, Life
<1>4. Ending /\ Passage
  BY <1>k, <1>m, <1>q, <1>i DEF Ending, Passage
<1>5. Counted
  <2>1. Lost = {}
    BY DEF Lost, Messages, Init
  <2>2. IsFiniteSet(Lost) /\ Cardinality(Lost) = 0
    BY <2>1, FS_EmptySet
  <2>3. QED
    BY <1>q, <2>1, <2>2 DEF Counted, LossesAreCounted
<1>6. NoLostWakeup
  <2>1. At("empty") = {} /\ At("full") = {}
    BY <1>k, <1>i DEF At
  <2>2. QED
    BY <2>1 DEF NoLostWakeup
<1>7. Outputs
  BY <1>i, <1>s DEF Outputs, Written, Past
<1>8. Single
  BY <1>i, <1>k, <1>m, <1>s DEF Single, OneWorker, InOrder, Flushing
<1>9. QED
  BY <1>1, <1>2, <1>3, <1>4, <1>5, <1>6, <1>7, <1>8 DEF IInv

LEMMA NextIInv == IInv /\ [Next]_vars => IInv'
<1> SUFFICES ASSUME IInv, [Next]_vars PROVE IInv'
  OBVIOUS
<1>i. TypeOK /\ Roles /\ Quiet /\ Life /\ Ending /\ Passage /\ Counted /\ NoLostWakeup
      /\ Outputs /\ Single
  BY DEF IInv
<1>1. CASE Next
  <2>1. TypeOK' /\ Roles' /\ Quiet' /\ Life' /\ Ending'
    BY <1>i, <1>1, NextTypeOK, NextRoles, NextQuiet, NextLife, NextEnding
  <2>2. Passage' /\ Counted' /\ NoLostWakeup' /\ Outputs' /\ Single'
    BY <1>i, <1>1, NextPassage, NextCounted, NextNoLostWakeup, NextOutputs, NextSingle
  <2>3. QED
    BY <2>1, <2>2 DEF IInv
<1>2. CASE UNCHANGED vars
  <2> USE <1>2 DEF vars, choice, pool, output
  <2>r. /\ \A m : Request(m)' = Request(m) /\ Policy(m)' = Policy(m)
                  /\ FlushesAfter(m)' = FlushesAfter(m)
        /\ AllMessages' = AllMessages /\ Line' = Line
    BY DEF Request, Policy, FlushesAfter, AllMessages, Line
  <2>1. TypeOK'
    BY <1>i, <2>r DEF TypeOK
  <2>2. Roles'
    BY <1>i, <2>r DEF Roles, Role, Terminate, Threads
  <2>3. Quiet' /\ Life' /\ Ending'
    BY <1>i, <2>r DEF Quiet, Life, Ending, Terminate
  <2>4. Passage'
    BY <1>i, <2>r DEF Passage, Sent
  <2>5. Counted'
    BY <1>i, <2>r DEF Counted, LossesAreCounted, Lost, Messages, InHand, Queued, Threads
  <2>6. NoLostWakeup'
    BY <1>i, <2>r DEF NoLostWakeup, At, Threads
  <2>7. Outputs'
    BY <1>i, <2>r DEF Outputs, Written, Past, Wanted, Sound
  <2>8. Single'
    <3>1. \A m : Covers(m)' <=> Covers(m)
      BY <2>r DEF Covers, Wanted
    <3>2. \A w : Flushing(w)' <=> Flushing(w)
      BY <2>r DEF Flushing
    <3>3. InOrder' <=> InOrder
      BY DEF InOrder, Before
    <3>4. OneWorker' <=> OneWorker
      BY <2>r, <3>1, <3>2, <3>3 DEF OneWorker, Sound, Before
    <3>5. QED
      BY <1>i, <3>4 DEF Single
  <2>9. QED
    BY <2>1, <2>2, <2>3, <2>4, <2>5, <2>6, <2>7, <2>8 DEF IInv
<1>3. QED
  BY <1>1, <1>2

LEMMA Inductive == Spec => []IInv
BY InitIInv, NextIInv, PTL DEF Spec

LEMMA OneThread ==
    ASSUME TypeOK, Cardinality(threads_) = 1 PROVE \E w : threads_ = {w}
BY Programs, FS_Singleton

LEMMA InvOrder == IInv => OrderKept
<1> SUFFICES ASSUME IInv, NEW s \in DOMAIN Sinks,
                    NEW i \in DOMAIN written[s], NEW j \in DOMAIN written[s], i < j
             PROVE  /\ written[s][i] # written[s][j]
                    /\ Cardinality(threads_) = 1 /\ written[s][i][1] = written[s][j][1] =>
                         written[s][i][2] < written[s][j][2]
  BY DEF OrderKept
<1>1. TypeOK /\ Outputs /\ Single
  BY DEF IInv
<1>2. DOMAIN written[s] = 1..Len(written[s])
  BY <1>1, SinkNumbers
<1>3. written[s][i] # written[s][j]
  BY <1>1, <1>2 DEF Outputs
<1>4. Cardinality(threads_) = 1 => Before(written[s][i], written[s][j])
  BY <1>1, <1>2, OneThread DEF Single, OneWorker, InOrder
<1>5. QED
  BY <1>3, <1>4 DEF Before

LEMMA InvCovers == IInv => FlushCovers
<1> SUFFICES ASSUME IInv, Cardinality(threads_) = 1 PROVE \A m \in handled : Covers(m)
  BY DEF FlushCovers, Covers, Wanted
<1>1. TypeOK /\ Single
  BY DEF IInv
<1>2. QED
  BY <1>1, OneThread DEF Single, OneWorker

(***************************************************************************)
(* The threads, the queue and what they hold keep their types, and nobody  *)
(* sleeps beside messages or room that no thread awake or to be woken will *)
(* see to (mpmc_blocking_q.h:31-69).                                       *)
(***************************************************************************)
THEOREM NobodySleeps == Spec => []NobodySleepsInVain
<1>1. IInv => NobodySleepsInVain
  BY DEF IInv, NobodySleepsInVain
<1>2. QED
  BY <1>1, Inductive, PTL

(***************************************************************************)
(* overrun_counter() is the number of messages that have vanished, and     *)
(* none has when every logger blocks (circular_q.h:48-62,                  *)
(* thread_pool-inl.h:38-53): what is dropped is always a message, never    *)
(* one of the destructor's.                                                *)
(***************************************************************************)
THEOREM LossesCounted == Spec => []LossesAreCounted
<1>1. IInv => LossesAreCounted
  BY DEF IInv, Counted
<1>2. QED
  BY <1>1, Inductive, PTL

(***************************************************************************)
(* No sink gets a message twice, and with one thread in the pool each gets *)
(* a producer's messages in the order in which they were logged            *)
(* (async_logger-inl.h:55-67, thread_pool-inl.h:88-121).                   *)
(***************************************************************************)
THEOREM OrderIsKept == Spec => []OrderKept
BY InvOrder, Inductive, PTL

(***************************************************************************)
(* With one thread, a flush that has been handled covers every earlier     *)
(* message of its producer that was handled, in each sink that does not    *)
(* throw (async_logger-inl.h:55-85).                                       *)
(***************************************************************************)
THEOREM FlushesCover == Spec => []FlushCovers
BY InvCovers, Inductive, PTL
------------------------------------------------------------------------------
(* The refinement.                                                         *)

LEMMA PendingIs ==
    ASSUME TypeOK, Roles, Next
    PROVE  /\ Pending = [i \in {j \in 1..Len(Line) : Line[j] # Terminate} |-> Line[i]]
           /\ Pending' = [i \in {j \in 1..Len(Line') : Line'[j] # Terminate} |-> Line'[i]]
<1>1. Len(Line) = Size(q)
  BY QueueIs
<1>2. Len(Line') = Size(q')
  <2>1. TypeOK' /\ Capacity \in Nat
    BY NextTypeOK, AsyncAssumption
  <2>2. Ring(q', (AllMessages \cup {Terminate})') /\ q'.max # 0
    BY <2>1 DEF TypeOK
  <2>3. QED
    BY <2>2, ContentsIsSequence DEF Line
<1>3. Pending = [i \in {j \in 1..Len(Line) : Line[j] # Terminate} |-> Line[i]]
  BY <1>1 DEF Pending, Line
<1>4. Pending' = [i \in {j \in 1..Len(Line') : Line'[j] # Terminate} |-> Line'[i]]
  BY <1>2 DEF Pending, Line, Terminate
<1>5. QED
  BY <1>3, <1>4

\* Without the destructor's messages the whole queue is pending.
LEMMA AllPending ==
    ASSUME NEW S, NEW line \in Seq(S), NEW x, \A i \in 1..Len(line) : line[i] # x
    PROVE  [i \in {j \in 1..Len(line) : line[j] # x} |-> line[i]] = line
<1>1. {j \in 1..Len(line) : line[j] # x} = 1..Len(line)
  OBVIOUS
<1>2. line = [i \in 1..Len(line) |-> line[i]]
  OBVIOUS
<1>3. QED
  BY <1>1, <1>2

LEMMA MessagesAreRequests == ASSUME TypeOK PROVE AllMessages \subseteq Producers \X (1..MaxPosts)
<1>1. SUFFICES ASSUME NEW m \in AllMessages PROVE m \in Producers \X (1..MaxPosts)
  OBVIOUS
<1>2. /\ m[1] \in Producers /\ m = <<m[1], m[2]>> /\ m[2] \in 1..Len(program[m[1]])
      /\ Len(program[m[1]]) \in Nat /\ Len(program[m[1]]) <= MaxPosts /\ MaxPosts \in Nat
  BY MessageParts, Programs, AsyncAssumption
<1>3. m[2] \in 1..MaxPosts
  BY <1>2
<1>4. QED
  BY <1>2, <1>3

LEMMA InitRefines == Init => Abstract!Init
<1> SUFFICES ASSUME Init PROVE Abstract!Init
  OBVIOUS
<1>1. TypeOK
  BY InitIInv DEF IInv
<1>2. Overruns \subseteq Producers \X (1..MaxPosts)
  BY <1>1, MessagesAreRequests DEF Overruns
<1>3. Asking = {} /\ Busy = {}
  BY DEF Asking, Busy, Init, Threads
<1>4. Pending = <<>>
  <2>1. {j \in 1..Size(q) : Contents(q)[j] # Terminate} = {}
    BY EmptyRing DEF Init
  <2>2. QED
    BY <2>1 DEF Pending
<1>5. handled = {} /\ rejected = {} /\ Stage = "open"
  BY DEF Init, Stage
<1>6. QED
  BY <1>2, <1>3, <1>4, <1>5 DEF Abstract!Init

LEMMA NextRefines == IInv /\ [Next]_vars => [Abstract!Next]_(Abstract!vars)
<1> SUFFICES ASSUME IInv, [Next]_vars PROVE Abstract!Next \/ UNCHANGED Abstract!vars
  OBVIOUS
<1>i. TypeOK /\ Roles /\ Quiet /\ Life /\ Ending /\ Passage
  BY DEF IInv
<1>v. ASSUME UNCHANGED vars PROVE UNCHANGED Abstract!vars
  BY <1>v DEF vars, choice, pool, output, Abstract!vars, Overruns, Asking, Busy, Pending,
     Stage,
     Policy, Request, AllMessages
<1>x. SUFFICES ASSUME Next PROVE Abstract!Next \/ UNCHANGED Abstract!vars
  BY <1>v
<1>a. Overruns' = Overruns /\ AllMessages' = AllMessages
  BY <1>x, Chosen DEF Overruns, Policy, Request
<1>k. /\ Threads = Senders \cup Workers /\ Senders \cap Workers = {}
      /\ Producers \subseteq Senders /\ Owner \in Senders /\ Owner \notin Producers
      /\ Senders = Producers \cup {Owner}
  BY ThreadKinds DEF Senders
<1>m. Terminate \notin AllMessages /\ NoMessage \notin AllMessages /\ Terminate # NoMessage
  BY MessagesApart
<1>p. held \in [Threads -> AllMessages \cup {Terminate, NoMessage}]
      /\ phase \in {"constructing", "open", "closing", "destroyed"}
  BY <1>i DEF TypeOK
<1>r. AllMessages \subseteq Producers \X (1..MaxPosts)
  BY <1>i, MessagesAreRequests
<1>h. /\ \A m : m \in Asking <=> m \in AllMessages /\ \E p \in Producers : held[p] = m
      /\ \A m : m \in Busy <=> m \in AllMessages /\ \E w \in Workers : held[w] = m
  BY <1>k, <1>m, <1>p DEF Asking, Busy
<1>t. \A t \in Threads : held'[t] \in AllMessages \cup {Terminate, NoMessage}
  BY <1>i, <1>x, <1>a, NextTypeOK DEF TypeOK, Terminate, NoMessage, Threads
<1>g. /\ \A m : m \in Asking' <=> m \in AllMessages /\ \E p \in Producers : held'[p] = m
      /\ \A m : m \in Busy' <=> m \in AllMessages /\ \E w \in Workers : held'[w] = m
  BY <1>k, <1>m, <1>t DEF Asking, Busy, Terminate, NoMessage
<1>q. /\ Pending = [i \in {j \in 1..Len(Line) : Line[j] # Terminate} |-> Line[i]]
      /\ Pending' = [i \in {j \in 1..Len(Line') : Line'[j] # Terminate} |-> Line'[i]]
      /\ Line' = Line => Pending' = Pending
  BY <1>i, <1>x, PendingIs
<1>l. /\ Line \in Seq(AllMessages \cup {Terminate}) /\ Line' \in Seq(AllMessages \cup {Terminate})
  BY <1>i, <1>x, <1>a, NextRoles DEF Roles, Terminate
\* A message is in one producer's hands only.
<1>o. \A p, r \in Producers : held[p] \in AllMessages /\ held[r] = held[p] => p = r
  <2>1. ASSUME NEW p \in Producers, NEW r \in Producers, held[p] \in AllMessages, held[r] = held[p]
        PROVE  p = r
    <3>1. held[p] = <<p, pos[p]>> /\ held[r] = <<r, pos[r]>>
      BY <1>i, <1>k, <2>1 DEF Roles, Role
    <3>2. QED
      BY <2>1, <3>1
  <2>2. QED
    BY <2>1
\* The steps the abstract log does not see.
<1>u. ASSUME q' = q, handled' = handled, rejected' = rejected, Stage' = Stage,
             \A t \in Threads : held'[t] = held[t] \/ {held[t], held'[t]} \cap AllMessages = {}
      PROVE  UNCHANGED Abstract!vars
  <2>1. Asking' = Asking /\ Busy' = Busy
    BY <1>u, <1>g, <1>h, <1>k
  <2>2. Pending' = Pending
    BY <1>u, <1>q DEF Line
  <2>3. QED
    BY <1>a, <1>u, <2>1, <2>2 DEF Abstract!vars
<1>1. ASSUME NEW t \in Senders, Enqueue(t) PROVE Abstract!Next \/ UNCHANGED Abstract!vars
  <2>1. /\ held' = [held EXCEPT ![t] = NoMessage] /\ handled' = handled /\ rejected' = rejected
        /\ phase' = phase /\ held[t] \in AllMessages \cup {Terminate}
    BY <1>1, <1>i, EnqueueMoves DEF Enqueue, output, pool
  <2>2. Line' = Append(IF Full(q) THEN Tail(Line) ELSE Line, held[t])
    BY <1>1, <1>i, <2>1, Pushes DEF Enqueue
  <2>3. Busy' = Busy /\ Stage' = Stage
    <3>1. \A w \in Workers : held'[w] = held[w]
      BY <1>k, <1>p, <2>1
    <3>2. QED
      BY <1>g, <1>h, <2>1, <3>1 DEF Stage
  <2>4. CASE held[t] \in AllMessages
    <3>1. t \in Producers /\ held[t] \in Asking /\ Asking' = Asking \ {held[t]}
      <4>1. t \in Producers
        BY <1>i, <1>k, <2>4 DEF Roles, Role
      <4>2. QED
        BY <1>g, <1>h, <1>k, <1>m, <1>o, <1>p, <2>1, <2>4, <4>1
    <3>2. \A i \in 1..Len(Line) : Line[i] # Terminate
      BY <1>i, <1>p, <2>4 DEF Life, Quiet
    <3>3. Pending = Line
      BY <1>l, <1>q, <3>2, AllPending
    <3>4. \A i \in 1..Len(Line') : Line'[i] # Terminate
      <4>1. phase' \in {"constructing", "open"}
        BY <1>i, <1>p, <2>1, <2>4 DEF Life
      <4>2. QED
        BY <1>i, <1>x, <4>1, NextQuiet DEF Quiet, Terminate
    <3>5. Pending' = Line'
      BY <1>l, <1>q, <3>4, AllPending
    <3>6. /\ Full(q) <=> ~(Len(Line) < Capacity)
          /\ Full(q) => held[t] \in Overruns
      <4>1. Full(q) <=> ~(Len(Line) < Capacity)
        BY <1>i, QueueIs
      <4>2. Full(q) => Policy(held[t]) = "overrun_oldest"
        BY <1>1 DEF Enqueue
      <4>3. QED
        BY <2>4, <4>1, <4>2 DEF Overruns
    <3>7. Abstract!Post(held[t])
      BY <1>a, <2>1, <2>2, <2>3, <3>1, <3>3, <3>5, <3>6 DEF Abstract!Post
    <3>8. QED
      BY <1>r, <2>4, <3>7 DEF Abstract!Next
  <2>5. CASE held[t] = Terminate
    <3>1. Asking' = Asking
      BY <1>g, <1>h, <1>k, <1>m, <1>p, <2>1, <2>5
    <3>2. ~Full(q)
      BY <1>1, <2>5 DEF Enqueue, Policy
    <3>3. /\ Len(Line') = Len(Line) + 1 /\ Line'[Len(Line) + 1] = Terminate /\ Len(Line) \in Nat
          /\ \A i \in 1..Len(Line) : Line'[i] = Line[i]
      BY <1>l, <2>1, <2>2, <2>5, <3>2
    <3>4. {j \in 1..Len(Line') : Line'[j] # Terminate} = {j \in 1..Len(Line) : Line[j] # Terminate}
      BY <3>3
    <3>5. Pending' = Pending
      BY <1>q, <3>3, <3>4
    <3>6. QED
      BY <1>a, <2>1, <2>3, <3>1, <3>5 DEF Abstract!vars
  <2>6. QED
    BY <2>1, <2>4, <2>5
<1>2. ASSUME NEW t \in Senders, WaitForRoom(t) \/ NotifyPush(t) \/ Spurious(t)
      PROVE  UNCHANGED Abstract!vars
  BY <1>2, <1>u DEF WaitForRoom, NotifyPush, Spurious, pool, output, Stage
<1>3. ASSUME NEW t \in Senders, Release(t) PROVE Abstract!Next \/ UNCHANGED Abstract!vars
  <2>1. /\ t \in refs /\ phase = "open" /\ refs' = refs \ {t} /\ held' = held /\ q' = q
        /\ handled' = handled /\ rejected' = rejected /\ pc[t] \in {"idle", "posted"}
    BY <1>3 DEF Release, output
  <2>2. CASE refs' = {}
    <3>1. phase' = "closing"
      BY <1>3, <2>2 DEF Release
    <3>2. \A s \in Senders \ {t} : pc[s] = "idle"
      BY <1>i, <1>k, <2>1, <2>2 DEF Life
    <3>3. \A s \in Senders : held[s] = NoMessage
      BY <1>i, <1>k, <2>1, <3>2 DEF Roles, Role, Carrying
    <3>4. Asking = {} /\ Asking' = {} /\ Busy' = Busy
      BY <1>g, <1>h, <1>k, <1>m, <2>1, <3>3
    <3>5. Pending' = Pending
      BY <1>q, <2>1 DEF Line
    <3>6. Stage = "open" /\ Stage' = "closing"
      BY <2>1, <3>1 DEF Stage
    <3>7. Abstract!Close
      BY <1>a, <2>1, <3>4, <3>5, <3>6 DEF Abstract!Close
    <3>8. QED
      BY <3>7 DEF Abstract!Next
  <2>3. CASE refs' # {}
    <3>1. phase' = phase
      BY <1>3, <2>3 DEF Release
    <3>2. QED
      BY <1>u, <2>1, <3>1 DEF Stage
  <2>4. QED
    BY <2>2, <2>3
<1>4. ASSUME NEW t \in Senders, PostTerminate(t) PROVE UNCHANGED Abstract!vars
  <2>1. held[t] = NoMessage
    BY <1>4, <1>i, <1>k DEF PostTerminate, Roles, Role, Carrying
  <2>2. /\ held' = [held EXCEPT ![t] = Terminate] /\ q' = q /\ handled' = handled
        /\ rejected' = rejected /\ Stage' = Stage
    BY <1>4 DEF PostTerminate, output, Stage
  <2>3. \A u \in Threads : held'[u] = held[u] \/ {held[u], held'[u]} \cap AllMessages = {}
    BY <1>k, <1>m, <1>p, <2>1, <2>2
  <2>4. QED
    BY <1>u, <2>2, <2>3
<1>5. ASSUME NEW t \in Senders, Join(t) PROVE Abstract!Next
  <2>1. /\ phase = "closing" /\ phase' = "destroyed" /\ q' = q /\ held' = held
        /\ handled' = handled /\ rejected' = rejected
        /\ \A w \in threads_ : pc[w] = "exited"
    BY <1>5 DEF Join, output
  <2>2. \A w \in Workers : held[w] \in {Terminate, NoMessage}
    BY <1>i, <1>k, <2>1 DEF Roles, Role, Carrying
  <2>3. \E w \in Workers : held[w] = Terminate
    BY <1>i, <1>k, <2>1, Programs DEF Roles, Role
  <2>4. Busy = {} /\ Busy' = {} /\ Asking' = Asking
    BY <1>g, <1>h, <1>m, <2>1, <2>2
  <2>5. Pending = <<>> /\ Pending' = Pending
    <3>1. {j \in 1..Len(Line) : Line[j] # Terminate} = {}
      BY <1>i, <2>3 DEF Ending
    <3>2. Line' = Line
      BY <2>1 DEF Line
    <3>3. QED
      BY <1>q, <3>1, <3>2
  <2>6. Stage = "closing" /\ Stage' = "destroyed"
    BY <2>1 DEF Stage
  <2>7. Abstract!Destroy
    BY <1>a, <2>1, <2>4, <2>5, <2>6 DEF Abstract!Destroy
  <2>8. QED
    BY <2>7 DEF Abstract!Next
<1>6. ASSUME NEW w \in Workers, Dequeue(w) PROVE Abstract!Next \/ UNCHANGED Abstract!vars
  <2>1. /\ Len(Line) \in Nat \ {0} /\ Line[1] \in AllMessages \cup {Terminate}
        /\ held[w] = NoMessage /\ held' = [held EXCEPT ![w] = Line[1]]
        /\ Len(Line') = Len(Line) - 1
        /\ \A i \in 1..(Len(Line) - 1) : Line'[i] = Line[i + 1]
    BY <1>6, <1>i, DequeueMoves
  <2>2. handled' = handled /\ rejected' = rejected /\ Stage' = Stage
    BY <1>6 DEF Dequeue, output, pool, Stage
  <2>h. held'[w] = Line[1] /\ \A t \in Threads \ {w} : held'[t] = held[t]
    BY <1>k, <1>p, <2>1
  <2>3. Asking' = Asking
    <3>1. \A p \in Producers : held'[p] = held[p]
      BY <1>k, <2>h
    <3>2. QED
      BY <1>g, <1>h, <3>1
  <2>4. PICK k \in 0..Len(Line) : \A i \in 1..Len(Line) : Line[i] = Terminate <=> i > k
    BY <1>i DEF Ending
  <2>5. CASE Line[1] = Terminate
    <3>1. \A i \in 1..Len(Line) : Line[i] = Terminate
      BY <2>1, <2>4, <2>5
    <3>2. {j \in 1..Len(Line) : Line[j] # Terminate} = {}
      BY <3>1
    <3>3. {j \in 1..Len(Line') : Line'[j] # Terminate} = {}
      BY <2>1, <3>1
    <3>4. Pending' = Pending
      BY <1>q, <3>2, <3>3
    <3>5. Busy' = Busy
      <4>1. ASSUME NEW v \in Workers
            PROVE  \/ held'[v] = held[v]
                   \/ held[v] \notin AllMessages /\ held'[v] \notin AllMessages
        BY <1>k, <1>m, <2>h, <2>1, <2>5
      <4>2. \A x \in AllMessages : \A v \in Workers : held'[v] = x <=> held[v] = x
        BY <4>1
      <4>3. QED
        BY <1>g, <1>h, <4>2
    <3>6. QED
      BY <1>a, <2>2, <2>3, <3>4, <3>5 DEF Abstract!vars
  <2>6. CASE Line[1] \in AllMessages
    <3>1. k \in 1..Len(Line) /\ k \in Nat
      BY <1>m, <2>1, <2>4, <2>6
    <3>2. {j \in 1..Len(Line) : Line[j] # Terminate} = 1..k
      BY <2>1, <2>4, <3>1
    <3>3. {j \in 1..Len(Line') : Line'[j] # Terminate} = 1..(k - 1)
      <4>1. \A j \in 1..Len(Line') : Line'[j] # Terminate <=> j <= k - 1
        BY <2>1, <2>4, <3>1
      <4>2. 1..(k - 1) \subseteq 1..Len(Line')
        BY <2>1, <3>1
      <4>3. QED
        BY <2>1, <3>1, <4>1, <4>2
    <3>4. Pending = [i \in 1..k |-> Line[i]] /\ Pending' = [i \in 1..(k - 1) |-> Line[i + 1]]
      <4>1. \A i \in 1..(k - 1) : Line'[i] = Line[i + 1]
        BY <2>1, <3>1
      <4>2. QED
        BY <1>q, <3>2, <3>3, <4>1
    <3>5. Pending \in Seq(AllMessages) /\ Pending # <<>> /\ Head(Pending) = Line[1]
          /\ Len(Pending) = k
      <4>1. \A i \in 1..k : Line[i] \in AllMessages
        BY <1>l, <2>4, <3>1
      <4>2. Pending \in Seq(AllMessages) /\ Len(Pending) = k
        BY <3>1, <3>4, <4>1
      <4>3. QED
        BY <3>1, <3>4, <4>2
    <3>6. Pending' = Tail(Pending)
      <4>1. Len(Tail(Pending)) = k - 1 /\ \A i \in 1..(k - 1) : Tail(Pending)[i] = Pending[i + 1]
        BY <3>1, <3>5
      <4>2. Tail(Pending) \in Seq(AllMessages)
        BY <3>5
      <4>3. Tail(Pending) = [i \in 1..(k - 1) |-> Tail(Pending)[i]]
        <5>1. \A s \in Seq(AllMessages) : s = [i \in 1..Len(s) |-> s[i]]
          OBVIOUS
        <5>2. QED
          BY <4>1, <4>2, <5>1
      <4>4. \A i \in 1..(k - 1) : Tail(Pending)[i] = Line[i + 1]
        BY <3>1, <3>4, <4>1
      <4>5. QED
        BY <3>4, <4>3, <4>4
    <3>7. Busy' = Busy \cup {Head(Pending)}
      BY <1>g, <1>h, <1>k, <1>m, <2>h, <2>1, <2>6, <3>5
    <3>8. Abstract!Take
      BY <1>a, <2>2, <2>3, <3>5, <3>6, <3>7 DEF Abstract!Take
    <3>9. QED
      BY <3>8 DEF Abstract!Next
  <2>7. QED
    BY <2>1, <2>5, <2>6
<1>7. ASSUME NEW w \in Workers,
             WaitForItem(w) \/ Expire(w) \/ NotifyPop(w) \/ StartWorker(w) \/ SinkLog(w)
             \/ SinksDone(w) \/ SinkFlush(w)
      PROVE  UNCHANGED Abstract!vars
  BY <1>7, <1>u DEF WaitForItem, Expire, NotifyPop, StartWorker, SinkLog, SinksDone,
     SinkFlush,
     pool, output, Stage
<1>8. ASSUME NEW w \in Workers, Finish(w) PROVE Abstract!Next
  <2>1. /\ held' = [held EXCEPT ![w] = NoMessage] /\ q' = q /\ Stage' = Stage
        /\ handled' = handled \cup {held[w]} /\ rejected' = rejected /\ held[w] \in AllMessages
    BY <1>8, <1>i, <1>k DEF Finish, pool, Stage, Roles, Role
  <2>2. Asking' = Asking
    <3>1. \A p \in Producers : held'[p] = held[p]
      BY <1>k, <1>p, <2>1
    <3>2. QED
      BY <1>g, <1>h, <3>1
  <2>3. held[w] \in Busy /\ Busy' = Busy \ {held[w]}
    <3>1. \A v \in Workers : held[v] = held[w] => v = w
      BY <1>i, <2>1 DEF Passage
    <3>2. QED
      BY <1>g, <1>h, <1>k, <1>m, <1>p, <2>1, <3>1
  <2>4. Pending' = Pending
    BY <1>q, <2>1 DEF Line
  <2>5. Abstract!Finish(held[w])
    BY <1>a, <2>1, <2>2, <2>3, <2>4 DEF Abstract!Finish
  <2>6. QED
    BY <1>r, <2>1, <2>5 DEF Abstract!Next
<1>9. ASSUME NEW p \in Producers, Post(p) PROVE Abstract!Next
  <2> DEFINE n == <<p, pos[p] + 1>>
  <2>1. /\ n \in AllMessages /\ held[p] = NoMessage /\ held' = [held EXCEPT ![p] = n]
        /\ Line' = Line
    BY <1>9, <1>i, PostMoves
  <2>2. /\ handled' = handled /\ rejected' = rejected /\ phase' = phase /\ phase = "open"
    BY <1>9, <1>i, <1>p DEF Post, output, Life
  <2>3. Asking' = Asking \cup {n} /\ Busy' = Busy
    <3>1. /\ \A w \in Workers : held'[w] = held[w]
          /\ \A r \in Producers \ {p} : held'[r] = held[r]
          /\ held'[p] = n
      BY <1>k, <1>p, <2>1
    <3>2. Busy' = Busy
      <4>1. \A m : (\E w \in Workers : held'[w] = m) <=> \E w \in Workers : held[w] = m
        BY <3>1
      <4>2. \A m : m \in Busy' <=> m \in Busy
        BY <1>g, <1>h, <4>1
      <4>3. QED
        BY <4>2, Zenon
    <3>3. Asking' = Asking \cup {n}
      BY <1>g, <1>h, <1>m, <2>1, <3>1
    <3>4. QED
      BY <3>2, <3>3
  <2>4. n \notin Asking
    <3>1. ASSUME NEW r \in Producers, held[r] = n PROVE FALSE
      <4>1. held[r] = <<r, pos[r]>>
        BY <1>i, <1>k, <2>1, <3>1 DEF Roles, Role
      <4>2. r = p
        BY <3>1, <4>1
      <4>3. QED
        BY <1>m, <2>1, <3>1, <4>2
    <3>2. QED
      BY <1>h, <3>1
  <2>5. Pending' = Pending /\ Stage = "open" /\ Stage' = "open"
    BY <1>q, <2>1, <2>2 DEF Stage
  <2> HIDE DEF n
  <2>6. Abstract!Ask(n)
    BY <1>a, <2>2, <2>3, <2>4, <2>5 DEF Abstract!Ask
  <2>7. QED
    BY <1>r, <2>1, <2>6 DEF Abstract!Next
<1>10. ASSUME NEW p \in Producers, Reject(p) PROVE Abstract!Next
  <2> DEFINE n == <<p, pos[p] + 1>>
  <2>1. /\ n \in AllMessages /\ held' = held /\ q' = q /\ rejected' = rejected \cup {n}
        /\ handled' = handled /\ phase' = phase /\ refs = {} /\ phase # "constructing"
    BY <1>10, <1>i, PostIsMessage DEF Reject, output, pool
  <2>2. Asking' = Asking /\ Busy' = Busy /\ Pending' = Pending
    BY <1>g, <1>h, <1>q, <2>1 DEF Line
  <2>3. Stage # "open" /\ Stage' = Stage
    BY <1>i, <2>1 DEF Stage, Life
  <2> HIDE DEF n
  <2>4. Abstract!Refuse(n)
    BY <1>a, <2>1, <2>2, <2>3 DEF Abstract!Refuse
  <2>5. QED
    BY <1>r, <2>1, <2>4 DEF Abstract!Next
<1>11. ASSUME Constructed PROVE UNCHANGED Abstract!vars
  BY <1>11, <1>u DEF Constructed, output, Stage
<1>12. QED
  BY <1>x, <1>1, <1>2, <1>3, <1>4, <1>5, <1>6, <1>7, <1>8, <1>9, <1>10, <1>11, Actions

(***************************************************************************)
(* Every step of the pool is one of the abstract asynchronous log, or none *)
(* of its business: requests leave in the order in which they came, each   *)
(* is carried out once, only a post that overruns drops one and then the   *)
(* oldest, none is asked after the pool is gone, and the destructor        *)
(* returns when all have been carried out (thread_pool-inl.h:38-121).      *)
(***************************************************************************)
THEOREM IsAnAsyncLog == Spec => Abstract!Init /\ [][Abstract!Next]_(Abstract!vars)
BY InitRefines, NextRefines, Inductive, PTL DEF Spec
==============================================================================
