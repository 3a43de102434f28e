--------------------------- MODULE LockFreeProofs ----------------------------
(***************************************************************************)
(* Where threads meet outside any lock: at the ring of                     *)
(* AtomicBlockingQueue, and at the first test of Singleton::instance().    *)
(* For every capacity and every set of items, one producer and one         *)
(* consumer never meet in a slot of the ring: a pop finds the oldest item, *)
(* and the destructor all that are left. With two producers this is not    *)
(* so, as a run shows.                                                     *)
(***************************************************************************)
EXTENDS AtomicBlockingQueue, FiniteSetTheorems, TLAPS

-----------------------------------------------------------------------------
(* Indices modulo Size.                                                    *)

Wrapped(x) == IF x < Size THEN x ELSE x - Size

LEMMA ModIs == \A x \in 0..(2 * Size - 1) : x % Size = Wrapped(x) /\ Wrapped(x) \in Slots
<1>1. \A x \in 0..(Size - 1) : x % Size = x
  BY SizeAssumption
<1>2. \A x \in Size..(2 * Size - 1) : x % Size = x - Size
  BY SizeAssumption
<1>3. QED
  BY <1>1, <1>2, SizeAssumption DEF Wrapped, Slots

\* How far slot s is behind slot h.
Behind(s, h) == IF s >= h THEN s - h ELSE s - h + Size

-----------------------------------------------------------------------------
(***************************************************************************)
(* The inductive invariant, for the one producer p and the one consumer c. *)
(***************************************************************************)
OneEach(p, c) == Producers = {p} /\ Consumers = {c}

\* Between its fetch_add and its compare-and-swap.
Moving == {"access", "count", "load", "desire", "swap"}

\* Between the access to its slot and the post.
Past == {"count", "load", "desire", "swap", "post"}

Claimed == {"fetch", "access"}

If(b) == IF b THEN 1 ELSE 0

\* The index of a side: only its thread moves it, and takes it back.
IndexOf(t, i) == /\ idx[t] \in Slots
                 /\ IF pc[t] \in Moving THEN i = idx[t] + 1 ELSE i \in Slots
                 /\ pc[t] = "swap" => desired[t] = Wrapped(i)

\* The slots where the next pop and the next push take place.
Front(c) == IF pc[c] = "access" THEN idx[c] ELSE Wrapped(popIndex)

Back(p) == IF pc[p] = "access" THEN idx[p] ELSE Wrapped(pushIndex)

\* How many slots hold an item: m_count, up to the two threads about to correct it.
Length(p, c) == count + If(pc[p] = "count") - If(pc[c] = "count")

Ring(p, c) == /\ Length(p, c) \in 0..Size
              /\ Back(p) = Wrapped(Front(c) + Length(p, c))
              /\ \A s \in Slots : data[s] # Raw <=> Behind(s, Front(c)) < Length(p, c)

Tokens(p, c) == /\ open + Length(p, c) + If(pc[p] \in Claimed) + If(pc[c] \in Past) = Size
                /\ full + If(pc[c] \in Claimed) + If(pc[p] \in Past) = Length(p, c)

Working(p, c) == /\ IndexOf(p, pushIndex) /\ IndexOf(c, popIndex)
                 /\ Ring(p, c) /\ Tokens(p, c)

\* After the destructor nobody is in a call, and no item is left.
Gone == At("idle") = Threads /\ \A s \in Slots : data[s] = Raw

Values(p, c) == /\ pc[p] # "idle" => item[p] \in Items
                /\ item[p] \in Items \cup {NoItem} /\ item[c] \in Items \cup {NoItem}

IInv(p, c) == /\ TypeOK
              /\ Values(p, c)
              /\ alive => Working(p, c)
              /\ ~alive => Gone

LEMMA Two ==
    ASSUME NEW p, NEW c, OneEach(p, c)
    PROVE  /\ p \in Producers /\ c \in Consumers /\ p # c /\ Threads = {p, c}
           /\ p \notin Consumers /\ c \notin Producers
           /\ 0..Size \subseteq Indices
<1>1. p \in Producers /\ c \in Consumers /\ p # c /\ Threads = {p, c}
      /\ p \notin Consumers /\ c \notin Producers
  BY ThreadsAssumption DEF OneEach, Threads
<1>2. Cardinality(Threads) \in Nat
  BY <1>1, FS_Singleton, FS_CardinalityType, FS_Union, ThreadsAssumption DEF Threads
<1>3. QED
  BY <1>1, <1>2, SizeAssumption DEF Indices

LEMMA InitIInv == ASSUME NEW p, NEW c, OneEach(p, c), Init PROVE IInv(p, c)
<1>t. /\ Threads = {p, c} /\ 0..Size \subseteq Indices /\ p # c
  BY Two
<1> USE SizeAssumption, ItemsAssumption
<1>1. TypeOK
  BY <1>t DEF Init, Open!Init, Full!Init, TypeOK, Places
<1>2. /\ pc[p] = "idle" /\ pc[c] = "idle" /\ idx[p] = 0 /\ idx[c] = 0
      /\ item[p] = NoItem /\ item[c] = NoItem
      /\ pushIndex = 0 /\ popIndex = 0 /\ count = 0 /\ open = Size /\ full = 0
      /\ alive = TRUE /\ \A s \in Slots : data[s] = Raw
  BY <1>t DEF Init, Open!Init, Full!Init
<1>3. Values(p, c)
  BY <1>2 DEF Values
<1>4. IndexOf(p, pushIndex) /\ IndexOf(c, popIndex)
  BY <1>2 DEF IndexOf, Moving, Slots
<1>5. Length(p, c) = 0 /\ Front(c) = 0 /\ Back(p) = 0
  BY <1>2 DEF Length, If, Front, Back, Wrapped
<1>6. Ring(p, c)
  BY <1>2, <1>5 DEF Ring, Wrapped, Behind, Slots
<1>7. Tokens(p, c)
  BY <1>2, <1>5 DEF Tokens, If, Claimed, Past
<1>8. QED
  BY <1>1, <1>2, <1>3, <1>4, <1>6, <1>7 DEF IInv, Working

-----------------------------------------------------------------------------
(* The steps.                                                              *)

\* What a step of one thread leaves alone: the other one, and mostly the ring.
LEMMA CallStep ==
    ASSUME NEW p, NEW c, OneEach(p, c), IInv(p, c), NEW t \in Threads,
           (\E o \in Places, x \in Items : PushCall(t, o, x)) \/ (\E o \in Places : PopCall(t, o))
    PROVE  IInv(p, c)'
<1>t. /\ Threads = {p, c} /\ p # c /\ p \notin Consumers /\ c \notin Producers
      /\ 0..Size \subseteq Indices
  BY Two
<1>1. /\ pc[t] = "idle" /\ alive
      /\ UNCHANGED <<data, pushIndex, popIndex, count, open, full, idx, expected, desired, alive>>
      /\ pc' \in [Threads -> Places]
      /\ (pc' = [pc EXCEPT ![t] = "wait"]) \/ (pc' = [pc EXCEPT ![t] = "try"])
  BY DEF PushCall, PopCall, locals, atomics, Go, IInv, TypeOK, Places
<1>2. TypeOK' /\ Values(p, c)'
  <2>1. CASE \E o \in Places, x \in Items : PushCall(t, o, x)
    BY <2>1, <1>t, <1>1 DEF PushCall, Go, IInv, TypeOK, Values
  <2>2. CASE \E o \in Places : PopCall(t, o)
    BY <2>2, <1>t, <1>1 DEF PopCall, locals, Go, IInv, TypeOK, Values
  <2>3. QED
    BY <2>1, <2>2
<1>3. /\ (pc'[p] = pc[p]) \/ (pc[p] = "idle" /\ pc'[p] \in {"wait", "try"})
      /\ (pc'[c] = pc[c]) \/ (pc[c] = "idle" /\ pc'[c] \in {"wait", "try"})
  BY <1>1, <1>t DEF IInv, TypeOK
<1>4. Working(p, c)'
  BY <1>1, <1>3 DEF IInv, Working, IndexOf, Ring, Tokens, Front, Back, Length, If, Moving, Past,
     Claimed
<1>5. QED
  BY <1>1, <1>2, <1>4 DEF IInv

LEMMA GetStep ==
    ASSUME NEW p, NEW c, OneEach(p, c), IInv(p, c), NEW t \in Threads,
           GetOpen(t) \/ GetFull(t)
    PROVE  IInv(p, c)'
<1>t. /\ Threads = {p, c} /\ p # c /\ p \notin Consumers /\ c \notin Producers
      /\ 0..Size \subseteq Indices
  BY Two
<1>1. /\ pc[t] \in {"wait", "try"} /\ pc' = [pc EXCEPT ![t] = "fetch"]
      /\ UNCHANGED <<data, pushIndex, popIndex, count, item, idx, expected, desired, alive>>
  BY DEF GetOpen, GetFull, locals, atomics, Go
<1>2. /\ t = p => open > 0 /\ open' = open - 1 /\ full' = full
      /\ t = c => full > 0 /\ full' = full - 1 /\ open' = open
  BY <1>t DEF GetOpen, GetFull, Open!Acquire, Full!Acquire
<1>3. alive
  BY <1>1 DEF IInv, Gone, At
<1>4. TypeOK' /\ Values(p, c)'
  BY <1>1, <1>2, <1>t, SizeAssumption DEF IInv, TypeOK, Values, Places
<1>5. /\ t = p => pc'[p] = "fetch" /\ pc'[c] = pc[c]
      /\ t = c => pc'[c] = "fetch" /\ pc'[p] = pc[p]
  BY <1>1, <1>t DEF IInv, TypeOK
<1>6. Working(p, c)'
  BY <1>1, <1>2, <1>3, <1>5, <1>t
     DEF IInv, TypeOK, Working, IndexOf, Ring, Tokens, Front, Back, Length, If, Moving, Past, Claimed
<1>7. QED
  BY <1>1, <1>3, <1>4, <1>6 DEF IInv

LEMMA TryFailsStep ==
    ASSUME NEW p, NEW c, OneEach(p, c), IInv(p, c), NEW t \in Threads, TryFails(t)
    PROVE  IInv(p, c)'
<1>t. /\ Threads = {p, c} /\ p # c /\ p \notin Consumers /\ c \notin Producers
  BY Two
<1>1. /\ pc[t] = "try" /\ pc' = [pc EXCEPT ![t] = "idle"]
      /\ UNCHANGED <<data, pushIndex, popIndex, count, open, full, item, idx, expected, desired, alive>>
  BY DEF TryFails, locals, atomics, Go, Open!GiveUp, Full!GiveUp
<1>3. alive
  BY <1>1 DEF IInv, Gone, At
<1>4. TypeOK' /\ Values(p, c)'
  BY <1>1, <1>t DEF IInv, TypeOK, Values, Places
<1>5. /\ t = p => pc'[p] = "idle" /\ pc'[c] = pc[c]
      /\ t = c => pc'[c] = "idle" /\ pc'[p] = pc[p]
  BY <1>1, <1>t DEF IInv, TypeOK
<1>6. Working(p, c)'
  BY <1>1, <1>3, <1>5, <1>t
     DEF IInv, TypeOK, Working, IndexOf, Ring, Tokens, Front, Back, Length, If, Moving, Past, Claimed
<1>7. QED
  BY <1>1, <1>3, <1>4, <1>6 DEF IInv

LEMMA FetchAddStep ==
    ASSUME NEW p, NEW c, OneEach(p, c), IInv(p, c), NEW t \in Threads, FetchAdd(t)
    PROVE  IInv(p, c)'
<1>t. /\ Threads = {p, c} /\ p # c /\ p \in Producers /\ c \notin Producers
      /\ 0..Size \subseteq Indices
  BY Two
<1>1. /\ pc[t] = "fetch" /\ pc' = [pc EXCEPT ![t] = "access"]
      /\ UNCHANGED <<data, count, open, full, item, expected, desired, alive>>
  BY DEF FetchAdd, Go
<1>2. /\ t = p => idx' = [idx EXCEPT ![p] = pushIndex] /\ pushIndex' = pushIndex + 1 /\ popIndex' = popIndex
      /\ t = c => idx' = [idx EXCEPT ![c] = popIndex] /\ popIndex' = popIndex + 1 /\ pushIndex' = pushIndex
  BY <1>t DEF FetchAdd, Index, SetIndex
<1>3. alive
  BY <1>1 DEF IInv, Gone, At
<1>w. /\ t = p => pushIndex \in Slots
      /\ t = c => popIndex \in Slots
  BY <1>1, <1>3 DEF IInv, Working, IndexOf, Moving
<1>4. TypeOK' /\ Values(p, c)'
  <2>1. /\ pushIndex' \in Indices /\ popIndex' \in Indices
        /\ idx' \in [Threads -> Indices]
    BY <1>2, <1>w, <1>t, SizeAssumption DEF IInv, TypeOK, Slots
  <2>2. QED
    BY <1>1, <1>t, <2>1 DEF IInv, TypeOK, Values, Places
<1>5. /\ t = p => /\ pc'[p] = "access" /\ pc'[c] = pc[c]
                  /\ idx'[p] = pushIndex /\ idx'[c] = idx[c]
      /\ t = c => /\ pc'[c] = "access" /\ pc'[p] = pc[p]
                  /\ idx'[c] = popIndex /\ idx'[p] = idx[p]
  BY <1>1, <1>2, <1>t DEF IInv, TypeOK
<1>6. Working(p, c)'
  <2>1. IndexOf(p, pushIndex)' /\ IndexOf(c, popIndex)'
    BY <1>1, <1>2, <1>3, <1>w, <1>5, <1>t DEF IInv, Working, IndexOf, Moving
  <2>2. Front(c)' = Front(c) /\ Back(p)' = Back(p)
    BY <1>1, <1>2, <1>w, <1>5, <1>t, SizeAssumption DEF Front, Back, Wrapped, Slots
  <2>3. Length(p, c)' = Length(p, c)
    BY <1>1, <1>5, <1>t DEF Length, If
  <2>4. Ring(p, c)'
    BY <1>1, <1>3, <2>2, <2>3 DEF IInv, Working, Ring
  <2>5. Tokens(p, c)'
    BY <1>1, <1>3, <1>5, <1>t, <2>3 DEF IInv, Working, Tokens, If, Past, Claimed
  <2>6. QED
    BY <2>1, <2>4, <2>5 DEF Working
<1>7. QED
  BY <1>1, <1>3, <1>4, <1>6 DEF IInv

\* Before its access a producer has room, a consumer an item, at its index.
LEMMA RoomAndItem ==
    ASSUME NEW p, NEW c, IInv(p, c), alive
    PROVE  /\ Length(p, c) \in 0..Size
           /\ pc[p] = "access" =>
                /\ Slot(p) = idx[p] /\ idx[p] = Back(p) /\ idx[p] \in Slots
                /\ Length(p, c) < Size /\ data[idx[p]] = Raw
           /\ pc[c] = "access" =>
                /\ Slot(c) = idx[c] /\ idx[c] = Front(c) /\ idx[c] \in Slots
                /\ Length(p, c) > 0 /\ data[idx[c]] # Raw
<1> USE SizeAssumption
<1>1. idx[p] \in Slots /\ idx[c] \in Slots /\ Slot(p) = idx[p] /\ Slot(c) = idx[c]
  <2>1. idx[p] \in Slots /\ idx[c] \in Slots
    BY DEF IInv, Working, IndexOf
  <2>2. \A s \in Slots : s % Size = s
    BY DEF Slots
  <2>3. QED
    BY <2>1, <2>2 DEF Slot
<1>2. /\ Length(p, c) \in 0..Size /\ Front(c) \in Slots
      /\ pc[p] = "access" => Length(p, c) < Size
      /\ pc[c] = "access" => Length(p, c) > 0
  <2>1. Length(p, c) \in 0..Size /\ open \in Nat /\ full \in Nat
    BY DEF IInv, TypeOK, Working, Ring
  <2>2. Front(c) \in Slots
    BY <1>1 DEF IInv, Working, IndexOf, Front, Wrapped, Slots
  <2>3. Tokens(p, c)
    BY DEF IInv, Working
  <2>4. QED
    BY <2>1, <2>2, <2>3 DEF Tokens, If, Claimed, Past
<1>3. pc[p] = "access" => data[idx[p]] = Raw
  BY <1>1, <1>2 DEF IInv, Working, Ring, Back, Behind, Wrapped, Slots
<1>4. pc[c] = "access" => data[idx[c]] # Raw
  BY <1>1, <1>2 DEF IInv, Working, Ring, Front, Behind, Slots
<1>5. QED
  BY <1>1, <1>2, <1>3, <1>4 DEF Front, Back

LEMMA ConstructStep ==
    ASSUME NEW p, NEW c, OneEach(p, c), IInv(p, c), NEW t \in Threads, Construct(t)
    PROVE  IInv(p, c)'
<1>t. /\ Threads = {p, c} /\ p # c /\ c \notin Producers
  BY Two
<1>1. /\ t = p /\ pc[p] = "access" /\ pc' = [pc EXCEPT ![p] = "count"]
      /\ data' = [data EXCEPT ![Slot(p)] = item[p]]
      /\ UNCHANGED <<pushIndex, popIndex, count, open, full, item, idx, expected, desired, alive>>
  BY <1>t DEF Construct, Go, locals, atomics
<1>2. alive
  BY <1>1, <1>t DEF IInv, Gone, At
<1>3. item[p] \in Items /\ item[p] # Raw
  BY <1>1, ItemsAssumption DEF IInv, Values
<1>4. /\ Slot(p) = idx[p] /\ idx[p] = Back(p) /\ idx[p] \in Slots /\ Length(p, c) \in 0..(Size - 1)
  BY <1>1, <1>2, RoomAndItem, SizeAssumption
<1>5. TypeOK' /\ Values(p, c)'
  BY <1>1, <1>3, <1>4, <1>t DEF IInv, TypeOK, Values, Places
<1>6. pc'[p] = "count" /\ pc'[c] = pc[c]
  BY <1>1, <1>t DEF IInv, TypeOK
<1>7. \A s \in Slots : data'[s] = IF s = idx[p] THEN item[p] ELSE data[s]
  BY <1>1, <1>4 DEF IInv, TypeOK
<1>8. Front(c)' = Front(c) /\ Length(p, c)' = Length(p, c) + 1 /\ Front(c) \in Slots
  BY <1>1, <1>2, <1>6, SizeAssumption
     DEF Front, Length, If, IInv, Working, IndexOf, Moving, Wrapped, Slots, TypeOK
<1>9. Ring(p, c)'
  <2>1. Back(p)' = Wrapped(idx[p] + 1)
    BY <1>1, <1>2, <1>6 DEF Back, IInv, Working, IndexOf, Moving
  <2>2. idx[p] = Wrapped(Front(c) + Length(p, c))
    BY <1>2, <1>4 DEF IInv, Working, Ring
  <2>3. Back(p)' = Wrapped(Front(c) + (Length(p, c) + 1))
    BY <2>1, <2>2, <1>4, <1>8, SizeAssumption DEF Wrapped, Slots
  <2>4. \A s \in Slots : Behind(s, Front(c)) < Length(p, c) + 1
                           <=> (Behind(s, Front(c)) < Length(p, c) \/ s = idx[p])
    BY <2>2, <1>4, <1>8, SizeAssumption DEF Wrapped, Slots, Behind
  <2>5. \A s \in Slots : data'[s] # Raw <=> Behind(s, Front(c)) < Length(p, c) + 1
    BY <2>4, <1>2, <1>3, <1>7 DEF IInv, Working, Ring
  <2>6. QED
    BY <2>3, <2>5, <1>4, <1>8, SizeAssumption DEF Ring, Behind
<1>10. Tokens(p, c)'
  BY <1>1, <1>2, <1>4, <1>6, <1>8 DEF IInv, TypeOK, Working, Tokens, If, Claimed, Past
<1>11. IndexOf(p, pushIndex)' /\ IndexOf(c, popIndex)'
  BY <1>1, <1>2, <1>6 DEF IInv, Working, IndexOf, Moving
<1>12. QED
  BY <1>1, <1>2, <1>5, <1>9, <1>10, <1>11 DEF IInv, Working

LEMMA MoveOutStep ==
    ASSUME NEW p, NEW c, OneEach(p, c), IInv(p, c), NEW t \in Threads, MoveOut(t)
    PROVE  IInv(p, c)'
<1>t. /\ Threads = {p, c} /\ p # c /\ p \notin Consumers
  BY Two
<1>1. /\ t = c /\ pc[c] = "access" /\ pc' = [pc EXCEPT ![c] = "count"]
      /\ data' = [data EXCEPT ![Slot(c)] = Raw]
      /\ item' = [item EXCEPT ![c] = data[Slot(c)]]
      /\ UNCHANGED <<pushIndex, popIndex, count, open, full, idx, expected, desired, alive>>
  BY <1>t DEF MoveOut, Go, atomics
<1>2. alive
  BY <1>1, <1>t DEF IInv, Gone, At
<1>4. /\ Slot(c) = idx[c] /\ idx[c] = Front(c) /\ idx[c] \in Slots
      /\ Length(p, c) \in 1..Size /\ data[idx[c]] # Raw
  BY <1>1, <1>2, RoomAndItem, SizeAssumption
<1>3. data[idx[c]] \in Items
  BY <1>4 DEF IInv, TypeOK
<1>5. TypeOK' /\ Values(p, c)'
  BY <1>1, <1>3, <1>4, <1>t DEF IInv, TypeOK, Values, Places
<1>6. pc'[c] = "count" /\ pc'[p] = pc[p]
  BY <1>1, <1>t DEF IInv, TypeOK
<1>7. \A s \in Slots : data'[s] = IF s = idx[c] THEN Raw ELSE data[s]
  BY <1>1, <1>4 DEF IInv, TypeOK
<1>8. Back(p)' = Back(p) /\ Length(p, c)' = Length(p, c) - 1 /\ Front(c)' = Wrapped(idx[c] + 1)
  BY <1>1, <1>2, <1>6 DEF Front, Back, Length, If, IInv, TypeOK, Working, IndexOf, Moving
<1>9. Ring(p, c)'
  <2>1. Back(p) = Wrapped(idx[c] + Length(p, c))
    BY <1>2, <1>4 DEF IInv, Working, Ring
  <2>2. Back(p) = Wrapped(Wrapped(idx[c] + 1) + (Length(p, c) - 1))
    BY <2>1, <1>4, SizeAssumption DEF Wrapped, Slots
  <2>3. \A s \in Slots : Behind(s, Wrapped(idx[c] + 1)) < Length(p, c) - 1
                           <=> (Behind(s, idx[c]) < Length(p, c) /\ s # idx[c])
    BY <1>4, SizeAssumption DEF Wrapped, Slots, Behind
  <2>4. \A s \in Slots : data'[s] # Raw <=> Behind(s, Wrapped(idx[c] + 1)) < Length(p, c) - 1
    BY <2>3, <1>2, <1>4, <1>7 DEF IInv, Working, Ring
  <2>5. QED
    BY <2>2, <2>4, <1>4, <1>8, SizeAssumption DEF Ring, Behind
<1>10. Tokens(p, c)'
  BY <1>1, <1>2, <1>4, <1>6, <1>8 DEF IInv, TypeOK, Working, Tokens, If, Claimed, Past
<1>11. IndexOf(p, pushIndex)' /\ IndexOf(c, popIndex)'
  BY <1>1, <1>2, <1>6 DEF IInv, Working, IndexOf, Moving
<1>12. QED
  BY <1>1, <1>2, <1>5, <1>9, <1>10, <1>11 DEF IInv, Working

LEMMA CountStep ==
    ASSUME NEW p, NEW c, OneEach(p, c), IInv(p, c), NEW t \in Threads, Count(t)
    PROVE  IInv(p, c)'
<1>t. Threads = {p, c} /\ p # c /\ p \in Producers /\ c \notin Producers
  BY Two
<1>1. /\ pc[t] = "count" /\ pc' = [pc EXCEPT ![t] = "load"]
      /\ UNCHANGED <<data, pushIndex, popIndex, open, full, item, idx, expected, desired, alive>>
  BY DEF Count, Go, locals
<1>2. /\ t = p => count' = count + 1
      /\ t = c => count' = count - 1
  BY <1>t DEF Count, IInv, TypeOK
<1>3. alive
  BY <1>1 DEF IInv, Gone, At
<1>4. TypeOK' /\ Values(p, c)'
  BY <1>1, <1>2, <1>t DEF IInv, TypeOK, Values, Places
<1>5. /\ t = p => pc'[p] = "load" /\ pc'[c] = pc[c]
      /\ t = c => pc'[c] = "load" /\ pc'[p] = pc[p]
  BY <1>1, <1>t DEF IInv, TypeOK
<1>6. IndexOf(p, pushIndex)' /\ IndexOf(c, popIndex)'
  BY <1>1, <1>3, <1>5, <1>t DEF IInv, Working, IndexOf, Moving
<1>7. Length(p, c)' = Length(p, c) /\ Front(c)' = Front(c) /\ Back(p)' = Back(p)
  BY <1>1, <1>2, <1>5, <1>t DEF Length, If, Front, Back, IInv, TypeOK
<1>8. Ring(p, c)' /\ Tokens(p, c)'
  BY <1>1, <1>3, <1>5, <1>7, <1>t DEF IInv, Working, Ring, Tokens, If, Past, Claimed
<1>9. QED
  BY <1>1, <1>3, <1>4, <1>6, <1>8 DEF IInv, Working

\* Loading the index moves nothing; what is to be swapped in is the index reduced.
LEMMA LoadStep ==
    ASSUME NEW p, NEW c, OneEach(p, c), IInv(p, c), NEW t \in Threads,
           Load(t) \/ Desire(t) \/ SwapFails(t)
    PROVE  IInv(p, c)'
<1>t. /\ Threads = {p, c} /\ p # c /\ p \in Producers /\ c \notin Producers
      /\ 0..Size \subseteq Indices
  BY Two
<1>1. /\ \/ pc[t] = "load" /\ pc' = [pc EXCEPT ![t] = "desire"]
         \/ pc[t] = "desire" /\ pc' = [pc EXCEPT ![t] = "swap"]
         \/ pc[t] = "swap" /\ pc' = [pc EXCEPT ![t] = "load"]
      /\ UNCHANGED <<data, pushIndex, popIndex, count, open, full, item, idx, alive>>
  BY DEF Load, Desire, SwapFails, Go, locals, atomics
<1>2. alive
  BY <1>1 DEF IInv, Gone, At
<1>3. /\ t = p => Index(t) = pushIndex
      /\ t = c => Index(t) = popIndex
  BY <1>t DEF Index
<1>4. /\ Index(t) \in 0..Size
      /\ Index(t) % Size = Wrapped(Index(t)) /\ Wrapped(Index(t)) \in 0..Size
  <2>1. Index(t) \in 0..Size
    BY <1>2, <1>3, <1>t, SizeAssumption DEF IInv, Working, IndexOf, Slots
  <2>2. Index(t) \in 0..(2 * Size - 1)
    BY <2>1, SizeAssumption
  <2>3. QED
    BY <2>1, <2>2, ModIs, SizeAssumption DEF Slots
<1>5. TypeOK' /\ Values(p, c)'
  <2>1. expected' \in [Threads -> Indices] /\ desired' \in [Threads -> Indices]
    BY <1>t, <1>4 DEF Load, Desire, SwapFails, locals, IInv, TypeOK
  <2>2. QED
    BY <1>1, <1>t, <2>1 DEF IInv, TypeOK, Values, Places
<1>6. \/ t = p /\ pc[p] \in Moving \ {"access", "count"} /\ pc'[p] \in Moving \ {"access", "count"}
               /\ pc'[c] = pc[c]
      \/ t = c /\ pc[c] \in Moving \ {"access", "count"} /\ pc'[c] \in Moving \ {"access", "count"}
               /\ pc'[p] = pc[p]
  BY <1>1, <1>t DEF IInv, TypeOK, Moving
<1>7. /\ \A u \in Threads : u # t => desired'[u] = desired[u]
      /\ pc'[t] = "swap" => desired'[t] = Wrapped(Index(t))
  BY <1>1, <1>4, <1>t DEF Load, Desire, SwapFails, Go, locals, IInv, TypeOK
<1>8. IndexOf(p, pushIndex)' /\ IndexOf(c, popIndex)'
  BY <1>1, <1>2, <1>3, <1>6, <1>7, <1>t DEF IInv, Working, IndexOf, Moving
<1>9. Length(p, c)' = Length(p, c) /\ Front(c)' = Front(c) /\ Back(p)' = Back(p)
  BY <1>1, <1>6 DEF Length, If, Front, Back, Moving
<1>10. Ring(p, c)' /\ Tokens(p, c)'
  BY <1>1, <1>2, <1>6, <1>9 DEF IInv, Working, Ring, Tokens, If, Past, Claimed, Moving
<1>11. QED
  BY <1>1, <1>2, <1>5, <1>8, <1>10 DEF IInv, Working

LEMMA SwapStep ==
    ASSUME NEW p, NEW c, OneEach(p, c), IInv(p, c), NEW t \in Threads, Swap(t)
    PROVE  IInv(p, c)'
<1>t. /\ Threads = {p, c} /\ p # c /\ p \in Producers /\ c \notin Producers
      /\ 0..Size \subseteq Indices
  BY Two
<1>1. /\ pc[t] = "swap" /\ pc' = [pc EXCEPT ![t] = "post"]
      /\ UNCHANGED <<data, count, open, full, item, idx, expected, desired, alive>>
  BY DEF Swap, Go, locals
<1>2. alive
  BY <1>1 DEF IInv, Gone, At
<1>3. /\ t = p => pushIndex' = Wrapped(pushIndex) /\ popIndex' = popIndex
      /\ t = c => popIndex' = Wrapped(popIndex) /\ pushIndex' = pushIndex
  BY <1>1, <1>2, <1>t DEF Swap, SetIndex, IInv, Working, IndexOf
<1>4. /\ t = p => pushIndex' \in Slots /\ Wrapped(pushIndex') = Wrapped(pushIndex)
      /\ t = c => popIndex' \in Slots /\ Wrapped(popIndex') = Wrapped(popIndex)
  BY <1>1, <1>2, <1>3, SizeAssumption DEF IInv, Working, IndexOf, Moving, Wrapped, Slots
<1>5. TypeOK' /\ Values(p, c)'
  <2>1. pushIndex' \in Indices /\ popIndex' \in Indices
    BY <1>3, <1>4, <1>t, SizeAssumption DEF IInv, TypeOK, Slots
  <2>2. QED
    BY <1>1, <1>t, <2>1 DEF IInv, TypeOK, Values, Places
<1>6. /\ t = p => pc'[p] = "post" /\ pc'[c] = pc[c]
      /\ t = c => pc'[c] = "post" /\ pc'[p] = pc[p]
  BY <1>1, <1>t DEF IInv, TypeOK
<1>7. IndexOf(p, pushIndex)' /\ IndexOf(c, popIndex)'
  BY <1>1, <1>2, <1>3, <1>4, <1>6, <1>t DEF IInv, Working, IndexOf, Moving
<1>8. Length(p, c)' = Length(p, c) /\ Front(c)' = Front(c) /\ Back(p)' = Back(p)
  BY <1>1, <1>3, <1>4, <1>6, <1>t DEF Length, If, Front, Back
<1>9. Ring(p, c)' /\ Tokens(p, c)'
  BY <1>1, <1>2, <1>6, <1>8, <1>t DEF IInv, Working, Ring, Tokens, If, Past, Claimed
<1>10. QED
  BY <1>1, <1>2, <1>5, <1>7, <1>9 DEF IInv, Working

LEMMA PostStep ==
    ASSUME NEW p, NEW c, OneEach(p, c), IInv(p, c), NEW t \in Threads,
           PostFull(t) \/ PostOpen(t)
    PROVE  IInv(p, c)'
<1>t. /\ Threads = {p, c} /\ p # c /\ p \notin Consumers /\ c \notin Producers
      /\ 0..Size \subseteq Indices
  BY Two
<1>1. /\ pc[t] = "post" /\ pc' = [pc EXCEPT ![t] = "idle"]
      /\ idx' = [idx EXCEPT ![t] = 0] /\ expected' = [expected EXCEPT ![t] = 0]
      /\ desired' = [desired EXCEPT ![t] = 0]
      /\ UNCHANGED <<data, pushIndex, popIndex, count, item, alive>>
  BY DEF PostFull, PostOpen, Return, Go, atomics
<1>2. /\ t = p => full' = full + 1 /\ open' = open
      /\ t = c => open' = open + 1 /\ full' = full
  BY <1>t DEF PostFull, PostOpen, Full!Post, Open!Post
<1>3. alive
  BY <1>1 DEF IInv, Gone, At
<1>4. /\ t = p => pc'[p] = "idle" /\ pc'[c] = pc[c] /\ idx'[c] = idx[c] /\ desired'[c] = desired[c]
      /\ t = c => pc'[c] = "idle" /\ pc'[p] = pc[p] /\ idx'[p] = idx[p] /\ desired'[p] = desired[p]
      /\ idx'[t] = 0
  BY <1>1, <1>t DEF IInv, TypeOK
<1>5. IndexOf(p, pushIndex)' /\ IndexOf(c, popIndex)'
  BY <1>1, <1>3, <1>4, <1>t, SizeAssumption DEF IInv, Working, IndexOf, Moving, Slots
<1>6. Length(p, c)' = Length(p, c) /\ Front(c)' = Front(c) /\ Back(p)' = Back(p)
  BY <1>1, <1>4, <1>t DEF Length, If, Front, Back
<1>7. Ring(p, c)' /\ Tokens(p, c)'
  <2>1. Ring(p, c)'
    BY <1>1, <1>3, <1>6 DEF IInv, Working, Ring
  <2>2. Tokens(p, c)'
    BY <1>1, <1>2, <1>3, <1>4, <1>6, <1>t DEF IInv, TypeOK, Working, Ring, Tokens, If, Past, Claimed
  <2>3. QED
    BY <2>1, <2>2
<1>8. TypeOK' /\ Values(p, c)'
  <2>1. open' \in 0..Size /\ full' \in 0..Size
    BY <1>2, <1>7, <1>t DEF IInv, TypeOK, Ring, Tokens, If
  <2>2. 0 \in Indices
    BY <1>t, SizeAssumption
  <2>3. idx' \in [Threads -> Indices] /\ expected' \in [Threads -> Indices] /\ desired' \in [Threads -> Indices]
    BY <1>1, <2>2 DEF IInv, TypeOK
  <2>4. QED
    BY <1>1, <1>t, <2>1, <2>3 DEF IInv, TypeOK, Values, Places
<1>9. QED
  BY <1>1, <1>3, <1>5, <1>7, <1>8 DEF IInv, Working

\* With no thread in a call the window is what m_count and m_popIndex say.
LEMMA DestroyStep ==
    ASSUME NEW p, NEW c, OneEach(p, c), IInv(p, c), Destroy
    PROVE  IInv(p, c)'
<1>t. /\ Threads = {p, c} /\ 0..Size \subseteq Indices
  BY Two
<1>1. pc[p] = "idle" /\ pc[c] = "idle" /\ alive
  BY <1>t DEF Destroy, At
<1>2. /\ popIndex \in Slots /\ Front(c) = popIndex
      /\ Length(p, c) = count /\ count \in 0..Size
  BY <1>1, SizeAssumption
     DEF IInv, TypeOK, Working, IndexOf, Ring, Front, Length, If, Moving, Wrapped, Slots
<1>3. ASSUME NEW s \in Slots, data[s] # Raw PROVE s \in Visited
  <2>1. Behind(s, popIndex) < count
    BY <1>1, <1>2, <1>3 DEF IInv, Working, Ring
  <2>2. Behind(s, popIndex) \in 0..(count - 1) /\ count # 0
    BY <1>2, <2>1, SizeAssumption DEF Behind, Slots
  <2>3. popIndex + Behind(s, popIndex) \in 0..(2 * Size - 1)
    BY <1>2, <2>2, SizeAssumption DEF Slots
  <2>4. s = Wrapped(popIndex + Behind(s, popIndex))
    BY <1>2, SizeAssumption DEF Behind, Wrapped, Slots
  <2>5. s = (popIndex + Behind(s, popIndex)) % Size
    BY <2>3, <2>4, ModIs
  <2>6. CASE Behind(s, popIndex) = 0
    <3>1. s = popIndex
      BY <1>2, <2>6, SizeAssumption DEF Behind, Slots
    <3>2. QED
      BY <3>1, <2>2 DEF Visited
  <2>7. CASE Behind(s, popIndex) # 0
    <3>1. Behind(s, popIndex) \in 1..(count - 1)
      BY <2>2, <2>7
    <3>2. QED
      BY <3>1, <2>2, <2>5 DEF Visited
  <2>8. QED
    BY <2>6, <2>7
<1>4. \A s \in Slots : data'[s] = Raw
  BY <1>3 DEF Destroy
<1>5. Gone' /\ ~alive'
  BY <1>4 DEF Destroy, Gone, At
<1>6. (popIndex + count) % Size \in Slots
  <2>1. popIndex + count \in 0..(2 * Size - 1)
    BY <1>2, SizeAssumption DEF Slots
  <2>2. QED
    BY <2>1, ModIs
<1>7. TypeOK' /\ Values(p, c)'
  <2>1. data' \in [Slots -> Items \cup {Raw}]
    BY DEF Destroy, IInv, TypeOK
  <2>2. popIndex' \in Indices
    BY <1>6, <1>t, SizeAssumption DEF Destroy, Slots
  <2>3. count' = 0 /\ UNCHANGED <<pushIndex, open, full, pc, item, idx, expected, desired>>
    BY DEF Destroy, locals
  <2>b. alive' \in BOOLEAN
    BY Zenon DEF Destroy
  <2>4. TypeOK'
    BY <2>1, <2>2, <2>3, <2>b DEF IInv, TypeOK
  <2>5. Values(p, c)'
    BY <2>3 DEF IInv, Values
  <2>6. QED
    BY <2>4, <2>5
<1>8. QED
  BY <1>5, <1>7 DEF IInv

LEMMA StutterIInv ==
    ASSUME NEW p, NEW c, IInv(p, c), UNCHANGED vars PROVE IInv(p, c)'
<1>1. UNCHANGED <<data, pushIndex, popIndex, count, open, full, pc, item, idx, expected, desired, alive>>
  BY DEF vars, atomics, locals
<1>2. Ring(p, c)' <=> Ring(p, c)
  BY <1>1 DEF Ring, Front, Back, Length
<1>3. (Tokens(p, c)' <=> Tokens(p, c)) /\ (Gone' <=> Gone)
  BY <1>1 DEF Tokens, Length, Gone, At
<1>4. (IndexOf(p, pushIndex)' <=> IndexOf(p, pushIndex)) /\ (IndexOf(c, popIndex)' <=> IndexOf(c, popIndex))
  BY <1>1 DEF IndexOf
<1>5. (TypeOK' <=> TypeOK) /\ (Values(p, c)' <=> Values(p, c))
  BY <1>1 DEF TypeOK, Values
<1>6. QED
  BY <1>1, <1>2, <1>3, <1>4, <1>5 DEF IInv, Working

LEMMA Inductive == ASSUME NEW p, NEW c, OneEach(p, c) PROVE Spec => []IInv(p, c)
<1>1. ASSUME IInv(p, c), Next PROVE IInv(p, c)'
  BY <1>1, CallStep, GetStep, TryFailsStep, FetchAddStep, ConstructStep, MoveOutStep, CountStep,
     LoadStep, SwapStep, PostStep, DestroyStep DEF Next, Run
<1>2. IInv(p, c) /\ [Next]_vars => IInv(p, c)'
  BY <1>1, StutterIInv
<1>3. Init => IInv(p, c)
  BY InitIInv
<1>4. QED
  BY <1>2, <1>3, PTL DEF Spec
-----------------------------------------------------------------------------
(***************************************************************************)
(* With one producer and one consumer a pop moves an item out, never raw   *)
(* memory (queue_c11.h:642-662): the slot it has got is still the one      *)
(* that was constructed first.                                             *)
(***************************************************************************)
THEOREM PopsItems ==
    ASSUME NEW p, NEW c, OneEach(p, c) PROVE Spec => []NeverPopsRaw
<1>1. IInv(p, c) => NeverPopsRaw
  BY Two, ItemsAssumption DEF IInv, Values, NeverPopsRaw
<1>2. QED
  BY <1>1, Inductive, PTL

(***************************************************************************)
(* What is left in the ring the destructor (queue_c11.h:583-591) destroys, *)
(* though it reads an index and a count that no lock protects.             *)
(***************************************************************************)
THEOREM NothingIsLeaked ==
    ASSUME NEW p, NEW c, OneEach(p, c) PROVE Spec => []NothingLeaks
<1>1. IInv(p, c) => NothingLeaks
  BY DEF IInv, Gone, NothingLeaks
<1>2. QED
  BY <1>1, Inductive, PTL

(***************************************************************************)
(* Producer and consumer are never at the same slot, and neither           *)
(* constructs over an item: what the two semaphores are for.               *)
(***************************************************************************)
Apart(p, c) == /\ pc[p] = "access" => data[Slot(p)] = Raw
               /\ pc[p] = "access" /\ pc[c] = "access" => Slot(p) # Slot(c)

THEOREM NeverAtOneSlot ==
    ASSUME NEW p, NEW c, OneEach(p, c) PROVE Spec => []Apart(p, c)
<1>1. ASSUME IInv(p, c) PROVE Apart(p, c)
  <2>1. CASE alive
    BY <1>1, <2>1, RoomAndItem DEF Apart
  <2>2. CASE ~alive
    BY <1>1, <2>2, Two DEF IInv, Gone, At, Apart
  <2>3. QED
    BY <2>1, <2>2
<1>2. QED
  BY <1>1, Inductive, PTL
-----------------------------------------------------------------------------
(***************************************************************************)
(* Refinement, with one producer and one consumer. The queue of the        *)
(* bounded FIFO is the window of the ring, read from its front.            *)
(***************************************************************************)
Read(p, c) == IF alive THEN [i \in 1..Length(p, c) |-> data[Wrapped(Front(c) + i - 1)]] ELSE <<>>

\* What the refinement mapping computes from the ring alone.
Reads(p, c) == /\ Queue = Read(p, c)
               /\ Read(p, c) \in Seq(Items)
               /\ alive => Len(Read(p, c)) = Length(p, c)

LEMMA WindowSize ==
    ASSUME NEW S \in SUBSET Slots, NEW f \in Slots, NEW n \in 0..Size,
           \A s \in Slots : s \in S <=> Behind(s, f) < n
    PROVE  Cardinality(S) = n
<1> DEFINE at == [k \in 1..n |-> Wrapped(f + k - 1)]
<1>1. \A k \in 1..n : Wrapped(f + k - 1) \in Slots /\ Behind(Wrapped(f + k - 1), f) = k - 1
  BY SizeAssumption DEF Wrapped, Behind, Slots
<1>2. at \in [1..n -> S]
  BY <1>1
<1>3. \A k, m \in 1..n : at[k] = at[m] => k = m
  BY <1>1
<1>4. \A s \in S : \E k \in 1..n : at[k] = s
  <2>1. ASSUME NEW s \in S PROVE Behind(s, f) + 1 \in 1..n /\ at[Behind(s, f) + 1] = s
    <3>1. s \in Slots /\ Behind(s, f) < n
      OBVIOUS
    <3>2. Behind(s, f) + 1 \in 1..n /\ Wrapped(f + (Behind(s, f) + 1) - 1) = s
      BY <3>1, SizeAssumption DEF Wrapped, Behind, Slots
    <3>3. QED
      BY <3>2
  <2>2. QED
    BY <2>1
<1>5. at \in Bijection(1..n, S)
  BY <1>2, <1>3, <1>4 DEF Bijection, Injection, IsInjective, Surjection
<1>6. ExistsBijection(1..n, S)
  BY <1>5 DEF ExistsBijection
<1>7. QED
  BY <1>6, FS_CountingElements

LEMMA FrontIs == ASSUME NEW p, NEW c, OneEach(p, c), IInv(p, c), alive
                 PROVE  Front(c) \in Slots /\ NextPop = Front(c)
<1>1. idx[c] \in Slots /\ popIndex \in 0..Size
  BY SizeAssumption DEF IInv, Working, IndexOf, Slots
<1>2. popIndex % Size = Wrapped(popIndex) /\ Wrapped(popIndex) \in Slots
  <2>1. popIndex \in 0..(2 * Size - 1)
    BY <1>1, SizeAssumption
  <2>2. QED
    BY <2>1, ModIs
<1>3. idx[c] % Size = idx[c]
  BY <1>1, SizeAssumption DEF Slots
<1>4. CASE pc[c] = "access"
  <2>1. (CHOOSE d \in Consumers : pc[d] = "access") = c
    BY <1>4 DEF OneEach
  <2>2. NextPop = Slot(c)
    BY <1>4, <2>1 DEF NextPop, OneEach
  <2>3. QED
    BY <1>1, <1>3, <1>4, <2>2 DEF Slot, Front
<1>5. CASE pc[c] # "access"
  <2>1. NextPop = popIndex % Size
    BY <1>5 DEF NextPop, OneEach
  <2>2. QED
    BY <1>2, <1>5, <2>1 DEF Front
<1>6. QED
  BY <1>4, <1>5

LEMMA ReadsTheRing == ASSUME NEW p, NEW c, OneEach(p, c), IInv(p, c) PROVE Reads(p, c)
<1>1. CASE alive
  <2>1. /\ Length(p, c) \in 0..Size /\ Front(c) \in Slots /\ NextPop = Front(c)
        /\ data \in [Slots -> Items \cup {Raw}]
        /\ \A s \in Slots : data[s] # Raw <=> Behind(s, Front(c)) < Length(p, c)
    BY <1>1, FrontIs DEF IInv, TypeOK, Working, Ring
  <2>2. PICK n \in 0..Size : n = Length(p, c)
    BY <2>1
  <2>3. PICK f \in Slots : f = Front(c)
    BY <2>1
  <2>4. \A s \in Slots : s \in Occupied <=> Behind(s, f) < n
    BY <2>1, <2>2, <2>3 DEF Occupied
  <2>5. Cardinality(Occupied) = n
    BY <2>4, WindowSize DEF Occupied
  <2>6. \A i \in 1..n : /\ (f + i - 1) % Size = Wrapped(f + i - 1)
                        /\ Wrapped(f + i - 1) \in Slots
                        /\ Behind(Wrapped(f + i - 1), f) < n
    <3>1. \A i \in 1..n : f + i - 1 \in 0..(2 * Size - 1)
      BY SizeAssumption DEF Slots
    <3>2. \A i \in 1..n : /\ (f + i - 1) % Size = Wrapped(f + i - 1)
                          /\ Wrapped(f + i - 1) \in Slots
      BY <3>1, ModIs
    <3>3. QED
      BY <3>2, SizeAssumption DEF Wrapped, Behind, Slots
  <2>7. \A i \in 1..n : data[Wrapped(f + i - 1)] \in Items
    BY <2>1, <2>2, <2>3, <2>6
  <2>8. Read(p, c) = [i \in 1..n |-> data[Wrapped(f + i - 1)]]
    BY <1>1, <2>2, <2>3 DEF Read
  <2>9. Read(p, c) \in Seq(Items) /\ Len(Read(p, c)) = n
    BY <2>7, <2>8
  <2>10. Queue = [i \in 1..n |-> data[(f + i - 1) % Size]]
    BY <2>1, <2>3, <2>5 DEF Queue
  <2>11. Queue = Read(p, c)
    BY <2>6, <2>8, <2>10
  <2>12. QED
    BY <2>2, <2>9, <2>11 DEF Reads
<1>2. CASE ~alive
  <2>1. Occupied = {}
    BY <1>2 DEF IInv, Gone, Occupied
  <2>2. Queue = <<>> /\ Read(p, c) = <<>>
    BY <1>2, <2>1, FS_EmptySet DEF Queue, Read
  <2>3. QED
    BY <1>2, <2>2 DEF Reads
<1>3. QED
  BY <1>1, <1>2

LEMMA CallMoves ==
    ASSUME TypeOK, NEW t \in Threads, NEW o \in Places, Go(t, o)
    PROVE  /\ [u \in Threads |-> CallAt(u, pc'[u])]
                = [[u \in Threads |-> CallAt(u, pc[u])] EXCEPT ![t] = CallAt(t, o)]
           /\ CallAt(t, o) = CallAt(t, pc[t]) =>
                [u \in Threads |-> CallAt(u, pc'[u])] = [u \in Threads |-> CallAt(u, pc[u])]
BY DEF TypeOK, Go

\* Where nobody constructs, moves out or destroys, the queue stays as it is.
LEMMA SameQueue ==
    ASSUME NEW p, NEW c, IInv(p, c), Reads(p, c), Reads(p, c)',
           alive' = alive, data' = data,
           alive => Front(c)' = Front(c) /\ Length(p, c)' = Length(p, c)
    PROVE  Queue' = Queue
<1>1. Read(p, c)' = Read(p, c)
  BY DEF Read
<1>2. QED
  BY <1>1 DEF Reads

LEMMA InitRefines ==
    ASSUME NEW p, NEW c, OneEach(p, c), Init PROVE Abstract!Init
<1>1. IInv(p, c) /\ Reads(p, c)
  BY InitIInv, ReadsTheRing
<1>2. Length(p, c) = 0 /\ alive
  BY Two DEF Init, Length, If
<1>3. Queue = <<>>
  BY <1>1, <1>2 DEF Reads, Read
<1>4. \A t \in Threads : CallAt(t, pc[t]) = "idle"
  BY DEF Init, CallAt
<1>5. QED
  BY <1>3, <1>4 DEF Init, Abstract!Init

LEMMA CallRefines ==
    ASSUME NEW p, NEW c, OneEach(p, c), IInv(p, c), Reads(p, c), Reads(p, c)',
           NEW t \in Threads, NEW o \in Places,
           (\E x \in Items : PushCall(t, o, x)) \/ PopCall(t, o)
    PROVE  Abstract!Next
<1>t. Threads = {p, c} /\ p # c
  BY Two
<1>1. /\ alive' = alive /\ data' = data /\ popIndex' = popIndex /\ count' = count /\ idx' = idx
      /\ pc[t] = "idle" /\ Go(t, o) /\ o \in {"wait", "try"} /\ TypeOK
  BY DEF PushCall, PopCall, atomics, locals, IInv
<1>2. \A u \in Threads : \/ pc'[u] = pc[u]
                         \/ pc[u] = "idle" /\ pc'[u] \in {"wait", "try"}
  BY <1>1 DEF Go, TypeOK
<1>3. Front(c)' = Front(c) /\ Length(p, c)' = Length(p, c)
  BY <1>1, <1>2, <1>t DEF Front, Length, If
<1>4. Queue' = Queue
  BY <1>1, <1>3, SameQueue
<1>5. CallAt(t, pc[t]) = "idle" /\ CallAt(t, o) \in Abstract!Ops
  BY <1>1 DEF CallAt, Abstract!Ops
<1>6. [u \in Threads |-> CallAt(u, pc'[u])]
        = [[u \in Threads |-> CallAt(u, pc[u])] EXCEPT ![t] = CallAt(t, o)]
  BY <1>1, CallMoves
<1>7. ASSUME NEW x \in Items, PushCall(t, o, x) PROVE Abstract!CallPush(t, CallAt(t, o), x)
  <2>1. CallAt(t, o) \in {"push", "try_push"}
    BY <1>1, <1>7 DEF PushCall, CallAt
  <2>2. QED
    BY <1>4, <1>5, <1>6, <1>7, <2>1 DEF PushCall, Abstract!CallPush
<1>8. ASSUME PopCall(t, o) PROVE Abstract!CallPop(t, CallAt(t, o))
  <2>1. CallAt(t, o) \in {"pop", "try_pop"}
    BY <1>1, <1>8, ThreadsAssumption DEF PopCall, CallAt
  <2>2. QED
    BY <1>4, <1>5, <1>6, <1>8, <2>1 DEF PopCall, locals, Abstract!CallPop
<1>9. QED
  BY <1>5, <1>7, <1>8 DEF Abstract!Next

LEMMA GetRefines ==
    ASSUME NEW p, NEW c, OneEach(p, c), IInv(p, c), Reads(p, c), Reads(p, c)',
           NEW t \in Threads, GetOpen(t) \/ GetFull(t)
    PROVE  Abstract!Commit(t) \/ UNCHANGED (Abstract!vars)
<1>t. Threads = {p, c} /\ p # c
  BY Two
<1>1. /\ alive' = alive /\ data' = data /\ popIndex' = popIndex /\ count' = count /\ idx' = idx
      /\ item' = item /\ pc[t] \in {"wait", "try"} /\ Go(t, "fetch") /\ TypeOK
  BY DEF GetOpen, GetFull, atomics, locals, IInv
<1>2. \A u \in Threads : \/ pc'[u] = pc[u]
                         \/ pc[u] \in {"wait", "try"} /\ pc'[u] = "fetch"
  BY <1>1 DEF Go, TypeOK
<1>3. Front(c)' = Front(c) /\ Length(p, c)' = Length(p, c)
  BY <1>1, <1>2, <1>t DEF Front, Length, If
<1>4. Queue' = Queue
  BY <1>1, <1>3, SameQueue
<1>5. CASE pc[t] = "wait"
  <2>1. CallAt(t, "fetch") = CallAt(t, pc[t])
    BY <1>5 DEF CallAt
  <2>2. QED
    BY <1>1, <1>4, <2>1, CallMoves DEF Places, Abstract!vars
<1>6. CASE pc[t] = "try"
  <2>1. /\ CallAt(t, pc[t]) \in {"try_push", "try_pop"}
        /\ CallAt(t, "fetch") = IF CallAt(t, pc[t]) = "try_push" THEN "push" ELSE "pop"
    BY <1>6 DEF CallAt
  <2>2. QED
    BY <1>1, <1>4, <2>1, CallMoves DEF Places, Abstract!Commit
<1>7. QED
  BY <1>1, <1>5, <1>6

\* The work on the indices and on m_count is not seen from outside.
LEMMA WorkRefines ==
    ASSUME NEW p, NEW c, OneEach(p, c), IInv(p, c), Reads(p, c), Reads(p, c)', NEW t \in Threads,
           \/ FetchAdd(t) \/ Count(t) \/ Load(t) \/ Desire(t) \/ Swap(t) \/ SwapFails(t)
    PROVE  UNCHANGED (Abstract!vars)
<1>t. Threads = {p, c} /\ p # c /\ p \in Producers /\ c \notin Producers
  BY Two
<1>1. /\ alive' = alive /\ data' = data /\ item' = item /\ TypeOK
  BY DEF FetchAdd, Count, Load, Desire, Swap, SwapFails, atomics, locals, IInv
<1>2. PICK o \in Places : Go(t, o) /\ CallAt(t, o) = CallAt(t, pc[t])
  BY DEF FetchAdd, Count, Load, Desire, Swap, SwapFails, Places, CallAt
<1>3. alive
  BY <1>2, Two DEF FetchAdd, Count, Load, Desire, Swap, SwapFails, IInv, Gone, At
<1>4. pc'[t] = o /\ \A u \in Threads : u # t => pc'[u] = pc[u]
  BY <1>1, <1>2 DEF Go, TypeOK
<1>5. Front(c)' = Front(c) /\ Length(p, c)' = Length(p, c)
  <2>1. CASE FetchAdd(t)
    <3>1. /\ pc[t] = "fetch" /\ pc'[t] = "access" /\ count' = count
          /\ t = p => popIndex' = popIndex /\ idx'[c] = idx[c]
          /\ t = c => popIndex \in Slots /\ idx'[c] = popIndex
      BY <1>1, <1>3, <1>t, <2>1
         DEF FetchAdd, Go, Index, SetIndex, TypeOK, IInv, Working, IndexOf, Moving
    <3>2. QED
      BY <1>4, <1>t, <3>1, SizeAssumption DEF Front, Length, If, Wrapped, Slots
  <2>2. CASE Count(t)
    <3>1. /\ pc[t] = "count" /\ pc'[t] = "load" /\ popIndex' = popIndex /\ idx' = idx
          /\ count \in Int
          /\ t = p => count' = count + 1
          /\ t = c => count' = count - 1
      BY <1>1, <1>t, <2>2 DEF Count, Go, TypeOK, locals
    <3>2. QED
      BY <1>4, <1>t, <3>1 DEF Front, Length, If
  <2>3. CASE Load(t) \/ Desire(t) \/ SwapFails(t)
    <3>1. /\ pc[t] \in {"load", "desire", "swap"} /\ pc'[t] \in {"load", "desire", "swap"}
          /\ popIndex' = popIndex /\ idx' = idx /\ count' = count
      BY <1>1, <2>3 DEF Load, Desire, SwapFails, Go, TypeOK, atomics, locals
    <3>2. QED
      BY <1>4, <1>t, <3>1 DEF Front, Length, If
  <2>4. CASE Swap(t)
    <3>1. /\ pc[t] = "swap" /\ pc'[t] = "post" /\ idx' = idx /\ count' = count
          /\ t = p => popIndex' = popIndex
          /\ t = c => popIndex' = Wrapped(popIndex)
      BY <1>1, <1>3, <1>t, <2>4
         DEF Swap, Go, SetIndex, TypeOK, locals, IInv, Working, IndexOf
    <3>2. t = c => Wrapped(Wrapped(popIndex)) = Wrapped(popIndex)
      BY <1>3, <3>1, SizeAssumption DEF IInv, Working, IndexOf, Moving, Wrapped, Slots
    <3>3. QED
      BY <1>4, <1>t, <3>1, <3>2 DEF Front, Length, If
  <2>5. QED
    BY <2>1, <2>2, <2>3, <2>4
<1>6. Queue' = Queue
  BY <1>1, <1>5, SameQueue
<1>7. [u \in Threads |-> CallAt(u, pc'[u])] = [u \in Threads |-> CallAt(u, pc[u])]
  BY <1>1, <1>2, CallMoves
<1>8. QED
  BY <1>1, <1>6, <1>7 DEF Abstract!vars

LEMMA PostRefines ==
    ASSUME NEW p, NEW c, OneEach(p, c), IInv(p, c), Reads(p, c), Reads(p, c)', NEW t \in Threads,
           PostFull(t) \/ PostOpen(t)
    PROVE  Abstract!Return(t)
<1>t. Threads = {p, c} /\ p # c
  BY Two
<1>1. /\ alive' = alive /\ data' = data /\ popIndex' = popIndex /\ count' = count /\ item' = item
      /\ pc[t] = "post" /\ Go(t, "idle") /\ TypeOK
      /\ idx' = [idx EXCEPT ![t] = 0]
  BY DEF PostFull, PostOpen, Return, atomics, IInv
<1>2. pc'[t] = "idle" /\ \A u \in Threads : u # t => pc'[u] = pc[u] /\ idx'[u] = idx[u]
  BY <1>1 DEF Go, TypeOK
<1>3. Front(c)' = Front(c) /\ Length(p, c)' = Length(p, c)
  BY <1>1, <1>2, <1>t DEF Front, Length, If
<1>4. Queue' = Queue
  BY <1>1, <1>3, SameQueue
<1>5. CallAt(t, pc[t]) = "leaving" /\ CallAt(t, "idle") = "idle"
  BY <1>1 DEF CallAt
<1>6. QED
  BY <1>1, <1>4, <1>5, CallMoves DEF Places, Abstract!Return

LEMMA SameSequence ==
    ASSUME NEW S, NEW a \in Seq(S), NEW b \in Seq(S), Len(a) = Len(b),
           \A i \in 1..Len(a) : a[i] = b[i]
    PROVE  a = b
OBVIOUS

LEMMA ConstructRefines ==
    ASSUME NEW p, NEW c, OneEach(p, c), IInv(p, c), Reads(p, c), Reads(p, c)', NEW t \in Threads,
           Construct(t)
    PROVE  Abstract!Insert(t)
<1>t. Threads = {p, c} /\ p # c /\ c \notin Producers
  BY Two
<1>1. /\ t = p /\ pc[t] = "access" /\ Go(t, "count") /\ TypeOK
      /\ alive' = alive /\ popIndex' = popIndex /\ count' = count /\ idx' = idx /\ item' = item
      /\ data' = [data EXCEPT ![Slot(t)] = item[t]]
  BY <1>t DEF Construct, atomics, locals, IInv
<1>2. alive
  BY <1>1, <1>t DEF IInv, Gone, At
<1>3. PICK f \in Slots : f = Front(c)
  BY <1>2, FrontIs
<1>4. PICK n \in 0..(Size - 1) : n = Length(p, c)
  BY <1>1, <1>2, RoomAndItem, SizeAssumption
<1>5. Slot(t) = Wrapped(f + n)
  BY <1>1, <1>2, <1>3, <1>4, RoomAndItem DEF IInv, Working, Ring
<1>6. Front(c)' = f /\ Length(p, c)' = n + 1
  <2>1. pc'[p] = "count" /\ pc'[c] = pc[c]
    BY <1>1, <1>t DEF Go, TypeOK
  <2>2. count \in Int
    BY <1>1 DEF TypeOK
  <2>3. QED
    BY <1>1, <1>3, <1>4, <2>1, <2>2 DEF Front, Length, If
<1>7. /\ Queue = [i \in 1..n |-> data[Wrapped(f + i - 1)]]
      /\ Queue \in Seq(Items) /\ Len(Queue) = n
  BY <1>2, <1>3, <1>4 DEF Reads, Read
<1>8. /\ Queue' = [i \in 1..(n + 1) |-> data'[Wrapped(f + i - 1)]]
      /\ Queue' \in Seq(Items) /\ Len(Queue') = n + 1
  BY <1>1, <1>2, <1>6 DEF Reads, Read
<1>9. \A i \in 1..n : Wrapped(f + i - 1) \in Slots /\ Wrapped(f + i - 1) # Wrapped(f + n)
  BY SizeAssumption DEF Wrapped, Slots
<1>10. Wrapped(f + n) \in Slots
  BY SizeAssumption DEF Wrapped, Slots
<1>11. item[t] \in Items
  BY <1>1 DEF IInv, Values
<1>12. Queue' = Append(Queue, item[t])
  <2>1. \A i \in 1..n : Queue'[i] = Queue[i]
    BY <1>1, <1>5, <1>7, <1>8, <1>9 DEF TypeOK
  <2>2. Queue'[n + 1] = item[t]
    <3>1. Queue'[n + 1] = data'[Wrapped(f + (n + 1) - 1)]
      BY <1>8
    <3>2. f + (n + 1) - 1 = f + n
      BY DEF Slots
    <3>3. QED
      BY <1>1, <1>5, <1>10, <3>1, <3>2 DEF TypeOK
  <2>3. /\ Append(Queue, item[t]) \in Seq(Items) /\ Len(Append(Queue, item[t])) = n + 1
        /\ \A i \in 1..n : Append(Queue, item[t])[i] = Queue[i]
        /\ Append(Queue, item[t])[n + 1] = item[t]
    BY <1>7, <1>11
  <2>4. \A i \in 1..(n + 1) : Queue'[i] = Append(Queue, item[t])[i]
    BY <2>1, <2>2, <2>3
  <2>5. QED
    BY <1>8, <2>3, <2>4
<1>13. CallAt(t, pc[t]) = "push" /\ CallAt(t, "count") = "leaving"
  BY <1>1, Two DEF CallAt
<1>14. Len(Queue) < Size
  BY <1>7, SizeAssumption
<1>15. QED
  BY <1>1, <1>12, <1>13, <1>14, CallMoves DEF Places, Abstract!Insert

LEMMA MoveOutRefines ==
    ASSUME NEW p, NEW c, OneEach(p, c), IInv(p, c), Reads(p, c), Reads(p, c)', NEW t \in Threads,
           MoveOut(t)
    PROVE  Abstract!Remove(t)
<1>t. Threads = {p, c} /\ p # c /\ p \notin Consumers
  BY Two
<1>1. /\ t = c /\ pc[t] = "access" /\ Go(t, "count") /\ TypeOK
      /\ alive' = alive /\ popIndex' = popIndex /\ count' = count
      /\ item' = [item EXCEPT ![t] = data[Slot(t)]]
      /\ data' = [data EXCEPT ![Slot(t)] = Raw]
  BY <1>t DEF MoveOut, atomics, IInv
<1>2. alive
  BY <1>1, <1>t DEF IInv, Gone, At
<1>3. PICK f \in Slots : f = Front(c) /\ f = Slot(t) /\ f = idx[c]
  BY <1>1, <1>2, RoomAndItem
<1>4. PICK n \in 1..Size : n = Length(p, c)
  BY <1>1, <1>2, RoomAndItem, SizeAssumption
<1>5. Front(c)' = Wrapped(f + 1) /\ Length(p, c)' = n - 1
  <2>1. pc'[c] = "count" /\ pc'[p] = pc[p] /\ popIndex = idx[c] + 1
    BY <1>1, <1>2, <1>t DEF Go, TypeOK, IInv, Working, IndexOf, Moving
  <2>2. count \in Int
    BY <1>1 DEF TypeOK
  <2>3. QED
    BY <1>1, <1>3, <1>4, <2>1, <2>2 DEF Front, Length, If
<1>6. /\ Queue = [i \in 1..n |-> data[Wrapped(f + i - 1)]]
      /\ Queue \in Seq(Items) /\ Len(Queue) = n
  BY <1>2, <1>3, <1>4 DEF Reads, Read
<1>7. /\ Queue' = [i \in 1..(n - 1) |-> data'[Wrapped(Wrapped(f + 1) + i - 1)]]
      /\ Queue' \in Seq(Items) /\ Len(Queue') = n - 1
  BY <1>1, <1>2, <1>5 DEF Reads, Read
<1>8. \A i \in 1..(n - 1) : /\ Wrapped(Wrapped(f + 1) + i - 1) = Wrapped(f + (i + 1) - 1)
                            /\ Wrapped(f + (i + 1) - 1) \in Slots \ {f}
  BY SizeAssumption DEF Wrapped, Slots
<1>9. Queue # <<>> /\ Head(Queue) = data[f]
  <2>1. Queue[1] = data[Wrapped(f + 1 - 1)] /\ Wrapped(f + 1 - 1) = f
    BY <1>6, SizeAssumption DEF Wrapped, Slots
  <2>2. QED
    BY <1>6, <2>1
<1>10. Queue' = Tail(Queue)
  <2>1. \A i \in 1..(n - 1) : Queue'[i] = data[Wrapped(f + (i + 1) - 1)]
    BY <1>1, <1>3, <1>7, <1>8 DEF TypeOK
  <2>2. \A i \in 1..(n - 1) : Queue[i + 1] = data[Wrapped(f + (i + 1) - 1)]
    BY <1>6
  <2>3. Tail(Queue) \in Seq(Items) /\ Len(Tail(Queue)) = n - 1
        /\ \A i \in 1..(n - 1) : Tail(Queue)[i] = Queue[i + 1]
    BY <1>6
  <2>4. \A i \in 1..(n - 1) : Queue'[i] = Tail(Queue)[i]
    BY <2>1, <2>2, <2>3
  <2>5. QED
    BY <1>7, <2>3, <2>4, SameSequence
<1>11. CallAt(t, pc[t]) = "pop" /\ CallAt(t, "count") = "leaving"
  BY <1>1, Two DEF CallAt
<1>12. QED
  BY <1>1, <1>3, <1>9, <1>10, <1>11, CallMoves DEF Places, Abstract!Remove

\* BoundedFifo counts as this module does.
LEMMA SameCardinality == \A S : Abstract!Cardinality(S) = Cardinality(S)
BY Zenon DEF Abstract!Cardinality, Cardinality

\* A try_ call fails on a ring that is full, or empty, up to the other thread's call.
LEMMA TryFailsRefines ==
    ASSUME NEW p, NEW c, OneEach(p, c), IInv(p, c), Reads(p, c), Reads(p, c)', NEW t \in Threads,
           TryFails(t)
    PROVE  Abstract!TryPushFails(t) \/ Abstract!TryPopFails(t)
<1>t. /\ Threads = {p, c} /\ p # c /\ p \in Producers /\ p \notin Consumers
      /\ c \notin Producers
  BY Two
<1>1. /\ alive' = alive /\ data' = data /\ popIndex' = popIndex /\ count' = count /\ idx' = idx
      /\ item' = item /\ pc[t] = "try" /\ Go(t, "idle") /\ TypeOK
      /\ t = p => open = 0
      /\ t = c => full = 0
  BY <1>t DEF TryFails, atomics, locals, IInv, Open!GiveUp, Full!GiveUp
<1>2. alive
  BY <1>1, <1>t DEF IInv, Gone, At
<1>3. pc'[t] = "idle" /\ \A u \in Threads : u # t => pc'[u] = pc[u]
  BY <1>1 DEF Go, TypeOK
<1>4. Front(c)' = Front(c) /\ Length(p, c)' = Length(p, c)
  BY <1>1, <1>3, <1>t DEF Front, Length, If
<1>5. Queue' = Queue
  BY <1>1, <1>4, SameQueue
<1>6. Len(Queue) = Length(p, c) /\ Length(p, c) \in 0..Size
  BY <1>2 DEF Reads, IInv, Working, Ring
<1>7. PICK u \in Threads : Threads \ {t} = {u} /\ u # t
  BY <1>t
<1>8. /\ Cardinality(Abstract!Others(t)) \in Nat
      /\ pc[u] # "idle" => Cardinality(Abstract!Others(t)) = 1
  <2>1. CASE pc[u] = "idle"
    <3>1. Abstract!Others(t) = {}
      BY <1>7, <2>1 DEF Abstract!Others, CallAt
    <3>2. QED
      BY <2>1, <3>1, FS_EmptySet
  <2>2. CASE pc[u] # "idle"
    <3>1. CallAt(u, pc[u]) # "idle"
      BY <2>2, <1>1 DEF CallAt, TypeOK, Places
    <3>2. Abstract!Others(t) = {u}
      BY <1>7, <3>1 DEF Abstract!Others
    <3>3. QED
      BY <3>2, FS_Singleton
  <2>3. QED
    BY <2>1, <2>2
<1>9. Tokens(p, c) /\ open \in Nat /\ full \in Nat
  BY <1>1, <1>2 DEF IInv, Working, TypeOK
<1>10. ASSUME t = p PROVE Abstract!TryPushFails(t)
  <2>1. Length(p, c) + If(pc[c] \in Past) = Size /\ u = c
    BY <1>1, <1>6, <1>7, <1>9, <1>10, <1>t DEF Tokens, If, Claimed
  <2>2. Len(Queue) + Cardinality(Abstract!Others(t)) >= Size
    BY <1>6, <1>8, <2>1, SizeAssumption DEF If, Past
  <2>3. CallAt(t, pc[t]) = "try_push" /\ CallAt(t, "idle") = "idle"
    BY <1>1, <1>10, <1>t DEF CallAt
  <2>4. QED
    BY <1>1, <1>5, <2>2, <2>3, CallMoves, SameCardinality DEF Places, Abstract!TryPushFails
<1>11. ASSUME t = c PROVE Abstract!TryPopFails(t)
  <2>1. If(pc[p] \in Past) = Length(p, c) /\ u = p
    BY <1>1, <1>6, <1>7, <1>9, <1>11, <1>t DEF Tokens, If, Claimed
  <2>2. Len(Queue) <= Cardinality(Abstract!Others(t))
    BY <1>6, <1>8, <2>1 DEF If, Past
  <2>3. CallAt(t, pc[t]) = "try_pop" /\ CallAt(t, "idle") = "idle"
    BY <1>1, <1>11, <1>t DEF CallAt
  <2>4. QED
    BY <1>1, <1>5, <2>2, <2>3, CallMoves, SameCardinality DEF Places, Abstract!TryPopFails
<1>12. QED
  BY <1>10, <1>11, <1>t

LEMMA DestroyRefines ==
    ASSUME NEW p, NEW c, Reads(p, c)', Destroy PROVE Abstract!Discard
<1>1. /\ ~alive' /\ pc' = pc /\ item' = item /\ At("idle") = Threads
  BY DEF Destroy, locals
<1>2. Queue' = <<>>
  BY <1>1 DEF Reads, Read
<1>3. \A t \in Threads : CallAt(t, pc[t]) = "idle"
  BY <1>1 DEF At, CallAt
<1>4. Abstract!In("idle") = Threads
  BY <1>3 DEF Abstract!In
<1>5. QED
  BY <1>1, <1>2, <1>4 DEF Abstract!Discard

LEMMA NextRefines ==
    ASSUME NEW p, NEW c, OneEach(p, c), IInv(p, c), Reads(p, c), Reads(p, c)', [Next]_vars
    PROVE  [Abstract!Next]_(Abstract!vars)
<1> SUFFICES Abstract!Next \/ UNCHANGED (Abstract!vars)
  OBVIOUS
<1>1. CASE UNCHANGED vars
  <2>1. UNCHANGED <<data, popIndex, count, pc, item, idx, alive>>
    BY <1>1 DEF vars, atomics, locals
  <2>2. Front(c)' = Front(c) /\ Length(p, c)' = Length(p, c)
    BY <2>1 DEF Front, Length
  <2>3. Queue' = Queue
    BY <2>1, <2>2, SameQueue
  <2>4. QED
    BY <2>1, <2>3 DEF Abstract!vars
<1>2. ASSUME NEW t \in Threads, NEW o \in Places,
             (\E x \in Items : PushCall(t, o, x)) \/ PopCall(t, o)
      PROVE  Abstract!Next
  BY <1>2, CallRefines
<1>3. ASSUME NEW t \in Threads, GetOpen(t) \/ GetFull(t)
      PROVE  Abstract!Next \/ UNCHANGED (Abstract!vars)
  BY <1>3, GetRefines DEF Abstract!Next
<1>4. ASSUME NEW t \in Threads, Run(t) \/ SwapFails(t)
      PROVE  Abstract!Next \/ UNCHANGED (Abstract!vars)
  BY <1>4, WorkRefines, PostRefines, ConstructRefines, MoveOutRefines, TryFailsRefines
     DEF Run, Abstract!Next
<1>5. CASE Destroy
  BY <1>5, DestroyRefines DEF Abstract!Next
<1>6. QED
  BY <1>1, <1>2, <1>3, <1>4, <1>5 DEF Next

(***************************************************************************)
(* queue_c11.h:571-782: with one producer and one consumer the ring        *)
(* without a mutex is a bounded FIFO: what is pushed is popped in the same *)
(* order, each item once, and a try_ call fails only on a full or an empty *)
(* queue, up to the other thread's call.                                   *)
(***************************************************************************)
THEOREM OneEachIsABoundedFifo ==
    ASSUME NEW p, NEW c, OneEach(p, c) PROVE Spec => ImplementsFifo
<1>1. IInv(p, c) => Reads(p, c)
  BY ReadsTheRing
<1>2. Init => Abstract!Init
  BY InitRefines
<1>3. IInv(p, c) /\ Reads(p, c) /\ Reads(p, c)' /\ [Next]_vars => [Abstract!Next]_(Abstract!vars)
  BY NextRefines
<1>4. QED
  BY Inductive, <1>1, <1>2, <1>3, PTL DEF Spec, ImplementsFifo, Abstract!Safety
-----------------------------------------------------------------------------
(***************************************************************************)
(* Singleton. However many threads call instance() however often, one      *)
(* object is made, although the compiler may store the pointer before the  *)
(* object is there. The second test of the pointer is enough because of    *)
(* what the mutex protects: an object is on its way, or the pointer is 0   *)
(* and none is.                                                            *)
(***************************************************************************)
CONSTANTS Callers, MaxCalls

VARIABLES obj_instance, made, built, owner, place, calls, got

Lazy == INSTANCE Singleton WITH Threads <- Callers, pc <- place

Holding == {"test", "new", "stored", "constructed", "unlock"}

Mutex == \A t \in Callers : place[t] \in Holding <=> owner = {t}

\* Where the object is: of two threads one at most is past Test.
Making ==
    /\ made \in {0, 1}
    /\ made = 1 /\ obj_instance = 0 => \E t \in Callers : place[t] \in {"new", "constructed"}
    /\ obj_instance = 1 /\ 1 \notin built => \E t \in Callers : place[t] = "stored"

\* What each thread knows by where it is.
Known ==
    \A t \in Callers :
      /\ place[t] \in {"new", "constructed"} => made = 1 /\ obj_instance = 0
      /\ place[t] \in {"stored", "unlock", "return"} => obj_instance = 1
      /\ place[t] \in {"constructed", "unlock"} => 1 \in built
      /\ got[t] \subseteq {1}

OneObjectInv == Lazy!TypeOK /\ Mutex /\ Making /\ Known
-----------------------------------------------------------------------------
LEMMA OneObjectInit == Lazy!Init => OneObjectInv
BY DEF Lazy!Init, OneObjectInv, Lazy!TypeOK, Lazy!Places, Mutex, Holding, Making, Known, Lazy!Nobody

LEMMA OneObjectStep == ASSUME OneObjectInv, Lazy!Next PROVE OneObjectInv'
<1> USE DEF OneObjectInv, Lazy!TypeOK, Lazy!Places, Mutex, Holding, Making, Known, Lazy!Go
<1>1. PICK t \in Callers : \/ Lazy!Call(t) \/ Lazy!Lock(t) \/ Lazy!Test(t)
                           \/ Lazy!Construct(t) \/ Lazy!Store(t)
                           \/ Lazy!Unlock(t) \/ Lazy!Return(t)
  BY DEF Lazy!Next
<1>2. obj_instance \in {0, 1}
  OBVIOUS
<1>3. CASE Lazy!Call(t)
  <2>1. Lazy!TypeOK'
    BY <1>3 DEF Lazy!Call
  <2>2. Mutex' /\ Making' /\ Known'
    BY <1>2, <1>3 DEF Lazy!Call
  <2>3. QED
    BY <2>1, <2>2
<1>4. CASE Lazy!Lock(t)
  BY <1>4 DEF Lazy!Lock, Lazy!Nobody
<1>5. CASE Lazy!Test(t)
  <2>1. owner = {t} /\ \A u \in Callers : owner = {u} => u = t
    BY <1>5 DEF Lazy!Test
  <2>2. CASE obj_instance = 0
    <3>1. made = 0
      BY <1>5, <2>1, <2>2 DEF Lazy!Test
    <3>2. made' = 1 /\ place' = [place EXCEPT ![t] = "new"]
      BY <1>5, <2>2, <3>1 DEF Lazy!Test
    <3>3. QED
      BY <1>5, <2>1, <2>2, <3>1, <3>2 DEF Lazy!Test
  <2>3. CASE obj_instance = 1
    <3>1. 1 \in built
      BY <1>5, <2>1, <2>3 DEF Lazy!Test
    <3>2. QED
      BY <1>5, <2>1, <2>3, <3>1 DEF Lazy!Test
  <2>4. QED
    BY <1>2, <2>2, <2>3
<1>6. CASE Lazy!Construct(t)
  <2>1. owner = {t} /\ \A u \in Callers : owner = {u} => u = t
    BY <1>6 DEF Lazy!Construct
  <2>2. made = 1 /\ built' = built \cup {1}
    BY <1>2, <1>6 DEF Lazy!Construct
  <2>3. QED
    BY <1>6, <2>1, <2>2 DEF Lazy!Construct
<1>7. CASE Lazy!Store(t)
  <2>1. owner = {t} /\ \A u \in Callers : owner = {u} => u = t
    BY <1>7 DEF Lazy!Store
  <2>2. made = 1 /\ obj_instance' = 1
    BY <1>7 DEF Lazy!Store
  <2>3. QED
    BY <1>7, <2>1, <2>2 DEF Lazy!Store
<1>8. CASE Lazy!Unlock(t)
  BY <1>8 DEF Lazy!Unlock, Lazy!Nobody
<1>9. CASE Lazy!Return(t)
  BY <1>9 DEF Lazy!Return
<1>10. QED
  BY <1>1, <1>3, <1>4, <1>5, <1>6, <1>7, <1>8, <1>9

LEMMA OneObjectAlways == Lazy!Spec => []OneObjectInv
<1>1. OneObjectInv /\ UNCHANGED Lazy!vars => OneObjectInv'
  BY DEF OneObjectInv, Lazy!vars, Lazy!TypeOK, Mutex, Making, Known
<1>2. QED
  BY OneObjectInit, OneObjectStep, <1>1, PTL DEF Lazy!Spec
-----------------------------------------------------------------------------
(***************************************************************************)
(* singleton.h:9-20: all callers get the one object there is, never NULL,  *)
(* and whoever leaves the mutex leaves a constructed object behind.        *)
(***************************************************************************)
THEOREM AllGetOneObject == Lazy!Spec => []Lazy!OneObject
<1>1. OneObjectInv => Lazy!OneObject
  BY DEF OneObjectInv, Lazy!OneObject, Lazy!TypeOK, Making, Known
<1>2. QED
  BY OneObjectAlways, <1>1, PTL
=============================================================================
