------------------------------- MODULE CircularQ -------------------------------
(***************************************************************************)
(* spdlog::details::circular_q (details/circular_q.h): a ring in a vector  *)
(* with one slot more than it may hold, so that head = tail means empty. A *)
(* push on a full ring throws its oldest item away and counts it. The      *)
(* asynchronous queue, the backtracer, the ring buffer sink and the daily  *)
(* file sink keep their items in one. A ring of no room is disabled: it    *)
(* keeps nothing, and is neither full nor anything but empty.              *)
(***************************************************************************)
EXTENDS Integers, Sequences

CONSTANT Unused        \* what an unused slot holds

Disabled == [max |-> 0, head |-> 0, tail |-> 0, over |-> 0, v |-> <<>>]

Create(items) == [max |-> items + 1, head |-> 0, tail |-> 0, over |-> 0,
                  v |-> [i \in 0..items |-> Unused]]

After(q, i) == (i + 1) % q.max

\* MUTANT of PushBack: what is overrun is not counted.
PushBackUncounted(q, x) ==
    IF q.max = 0 THEN q
    ELSE [q EXCEPT !.v[q.tail] = x, !.tail = After(q, q.tail),
                   !.head = IF After(q, q.tail) = q.head THEN After(q, q.head) ELSE q.head]

PushBack(q, x) ==
    IF q.max = 0 THEN q
    ELSE LET tail == After(q, q.tail)
             overrun == tail = q.head
         IN [q EXCEPT !.v[q.tail] = x, !.tail = tail,
                      !.head = IF overrun THEN After(q, q.head) ELSE q.head,
                      !.over = IF overrun THEN @ + 1 ELSE @]

\* MUTANT of FrontItem: the newest item.
FrontIsNewest(q) == q.v[(q.tail + q.max - 1) % q.max]

FrontItem(q) == q.v[q.head]

PopFront(q) == [q EXCEPT !.head = After(q, q.head)]

Size(q) == IF q.tail >= q.head THEN q.tail - q.head ELSE q.max - (q.head - q.tail)

ItemAt(q, i) == q.v[(q.head + i) % q.max]

Empty(q) == q.tail = q.head

Full(q) == q.max > 0 /\ After(q, q.tail) = q.head

(***************************************************************************)
(* What the ring is for its users: a sequence, oldest first.               *)
(***************************************************************************)
Contents(q) == [i \in 1..Size(q) |-> ItemAt(q, i - 1)]

\* The rings that Create and the operations above make, over a set of items.
Ring(q, Items) ==
    \/ q = Disabled
    \/ /\ q = [max |-> q.max, head |-> q.head, tail |-> q.tail, over |-> q.over, v |-> q.v]
       /\ q.max \in Nat \ {0} /\ q.head \in 0..(q.max - 1) /\ q.tail \in 0..(q.max - 1)
       /\ q.over \in Nat /\ q.v \in [0..(q.max - 1) -> Items \cup {Unused}]
==============================================================================
