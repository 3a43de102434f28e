--------------------------- MODULE CircularQProofs ---------------------------
(***************************************************************************)
(* spdlog's ring (circular_q.h), for every capacity and every content: it  *)
(* is a sequence of its last items. head_ and tail_ wrap at one more than  *)
(* the capacity, and a push that overruns moves both.                      *)
(***************************************************************************)
EXTENDS CircularQ, SequenceTheorems, TLAPS

LEMMA Wraps == \A m \in Nat \ {0} : \A x \in Nat :
                  /\ x < m => x % m = x
                  /\ m <= x /\ x < m + m => x % m = x - m
OBVIOUS

LEMMA AfterIs ==
    ASSUME NEW cq, cq.max \in Nat \ {0}, NEW k \in 0..(cq.max - 1)
    PROVE  After(cq, k) = IF k = cq.max - 1 THEN 0 ELSE k + 1
<1> PICK m \in Nat \ {0} : m = cq.max
  OBVIOUS
<1>1. k + 1 \in Nat /\ k + 1 < m + m
  OBVIOUS
<1>2. (k + 1) % m = IF k + 1 < m THEN k + 1 ELSE k + 1 - m
  BY <1>1, Wraps
<1>3. QED
  BY <1>2 DEF After

\* The fields of a ring that is not disabled.
LEMMA Fields ==
    ASSUME NEW Items, NEW cq, Ring(cq, Items), cq.max # 0
    PROVE  /\ cq = [max |-> cq.max, head |-> cq.head, tail |-> cq.tail, over |-> cq.over, v |-> cq.v]
           /\ cq.max \in Nat \ {0} /\ cq.over \in Nat
           /\ cq.head \in 0..(cq.max - 1) /\ cq.tail \in 0..(cq.max - 1)
           /\ cq.v \in [0..(cq.max - 1) -> Items \cup {Unused}]
BY DEF Ring, Disabled

LEMMA SizeOfRing ==
    ASSUME NEW Items, NEW cq, Ring(cq, Items), cq.max # 0
    PROVE  /\ Size(cq) \in 0..(cq.max - 1)
           /\ Empty(cq) <=> Size(cq) = 0
           /\ Full(cq) <=> Size(cq) = cq.max - 1
<1>1. /\ cq.max \in Nat \ {0}
      /\ cq.head \in 0..(cq.max - 1) /\ cq.tail \in 0..(cq.max - 1)
  BY Fields
<1>2. After(cq, cq.tail) = IF cq.tail = cq.max - 1 THEN 0 ELSE cq.tail + 1
  BY <1>1, AfterIs
<1>3. QED
  BY <1>1, <1>2 DEF Size, Empty, Full

\* An item by its place behind the head.
LEMMA ItemIs ==
    ASSUME NEW Items, NEW cq, Ring(cq, Items), cq.max # 0, NEW k \in 0..(cq.max - 1)
    PROVE  ItemAt(cq, k) = cq.v[IF cq.head + k < cq.max THEN cq.head + k ELSE cq.head + k - cq.max]
<1>1. cq.max \in Nat \ {0} /\ cq.head \in 0..(cq.max - 1)
  BY Fields
<1> PICK m \in Nat \ {0} : m = cq.max
  BY <1>1
<1> PICK h \in 0..(m - 1) : h = cq.head
  BY <1>1
<1>2. h + k \in Nat /\ h + k < m + m
  OBVIOUS
<1>3. h + k < m => (h + k) % m = h + k
  BY <1>2, Wraps
<1>4. h + k >= m => (h + k) % m = h + k - m
  BY <1>2, Wraps
<1>5. QED
  BY <1>3, <1>4 DEF ItemAt

LEMMA ContentsIsSequence ==
    ASSUME NEW Items, NEW cq, Ring(cq, Items), cq.max # 0
    PROVE  /\ Contents(cq) \in Seq(Items \cup {Unused}) /\ Len(Contents(cq)) = Size(cq)
           /\ \A i \in 1..Size(cq) : Contents(cq)[i] = ItemAt(cq, i - 1)
<1>1. /\ cq.max \in Nat \ {0} /\ cq.head \in 0..(cq.max - 1)
      /\ cq.v \in [0..(cq.max - 1) -> Items \cup {Unused}]
  BY Fields
<1>2. Size(cq) \in 0..(cq.max - 1)
  BY SizeOfRing
<1>3. ASSUME NEW i \in 1..Size(cq) PROVE ItemAt(cq, i - 1) \in Items \cup {Unused}
  <2>1. i - 1 \in 0..(cq.max - 1)
    BY <1>1, <1>2
  <2>2. ItemAt(cq, i - 1) =
        cq.v[IF cq.head + (i - 1) < cq.max THEN cq.head + (i - 1) ELSE cq.head + (i - 1) - cq.max]
    BY <2>1, ItemIs
  <2>3. (IF cq.head + (i - 1) < cq.max THEN cq.head + (i - 1) ELSE cq.head + (i - 1) - cq.max)
        \in 0..(cq.max - 1)
    BY <2>1, <1>1
  <2>4. QED
    BY <2>2, <2>3, <1>1
<1>4. QED
  BY <1>2, <1>3 DEF Contents

\* The fields after a push and after a pop.
LEMMA FieldsAfterPush ==
    ASSUME NEW Items, NEW cq, Ring(cq, Items), cq.max # 0, NEW x \in Items
    PROVE  LET r == PushBack(cq, x) IN
             /\ r.max = cq.max
             /\ r.tail = IF cq.tail = cq.max - 1 THEN 0 ELSE cq.tail + 1
             /\ r.head = IF ~Full(cq) THEN cq.head
                         ELSE IF cq.head = cq.max - 1 THEN 0 ELSE cq.head + 1
             /\ r.over = IF Full(cq) THEN cq.over + 1 ELSE cq.over
             /\ r.v = [cq.v EXCEPT ![cq.tail] = x]
             /\ Ring(r, Items)
<1>1. /\ cq = [max |-> cq.max, head |-> cq.head, tail |-> cq.tail, over |-> cq.over, v |-> cq.v]
      /\ cq.max \in Nat \ {0} /\ cq.over \in Nat
      /\ cq.head \in 0..(cq.max - 1) /\ cq.tail \in 0..(cq.max - 1)
      /\ cq.v \in [0..(cq.max - 1) -> Items \cup {Unused}]
  BY Fields
<1>2. \A k \in 0..(cq.max - 1) : After(cq, k) = IF k = cq.max - 1 THEN 0 ELSE k + 1
  BY <1>1, AfterIs
<1>3. Full(cq) <=> After(cq, cq.tail) = cq.head
  BY <1>1 DEF Full
<1> DEFINE r == [max |-> cq.max,
                 head |-> IF Full(cq) THEN After(cq, cq.head) ELSE cq.head,
                 tail |-> After(cq, cq.tail),
                 over |-> IF Full(cq) THEN cq.over + 1 ELSE cq.over,
                 v |-> [cq.v EXCEPT ![cq.tail] = x]]
<1>4. PushBack(cq, x) = r
  BY <1>1, <1>3 DEF PushBack
<1>5. Ring(r, Items)
  BY <1>1, <1>2 DEF Ring
<1>6. QED
  BY <1>1, <1>2, <1>4, <1>5
------------------------------------------------------------------------------
(***************************************************************************)
(* circular_q.h:49: push_back appends; on a full ring it first drops the   *)
(* oldest item, and counts it.                                             *)
(***************************************************************************)
THEOREM PushAppends ==
    ASSUME NEW Items, NEW cq, Ring(cq, Items), cq.max > 1, NEW x \in Items
    PROVE  LET r == PushBack(cq, x) IN
             /\ Ring(r, Items)
             /\ Contents(r) = Append(IF Full(cq) THEN Tail(Contents(cq)) ELSE Contents(cq), x)
             /\ r.over = IF Full(cq) THEN cq.over + 1 ELSE cq.over
<1> DEFINE r == PushBack(cq, x)
<1>1. /\ cq.max \in Nat \ {0} /\ cq.max > 1 /\ cq.max # 0
      /\ cq.head \in 0..(cq.max - 1) /\ cq.tail \in 0..(cq.max - 1)
      /\ cq.v \in [0..(cq.max - 1) -> Items \cup {Unused}]
  BY Fields DEF Ring, Disabled
<1>2. /\ r.max = cq.max
      /\ r.tail = IF cq.tail = cq.max - 1 THEN 0 ELSE cq.tail + 1
      /\ r.head = IF ~Full(cq) THEN cq.head ELSE IF cq.head = cq.max - 1 THEN 0 ELSE cq.head + 1
      /\ r.over = IF Full(cq) THEN cq.over + 1 ELSE cq.over
      /\ r.v = [cq.v EXCEPT ![cq.tail] = x]
      /\ Ring(r, Items)
  BY <1>1, FieldsAfterPush
<1>3. /\ Size(cq) \in 0..(cq.max - 1) /\ (Full(cq) <=> Size(cq) = cq.max - 1)
  BY <1>1, SizeOfRing
<1> HIDE DEF r
<1> PICK m \in Nat : m = cq.max
  BY <1>1
<1> PICK h \in 0..(m - 1), t \in 0..(m - 1) : h = cq.head /\ t = cq.tail
  BY <1>1
<1> PICK rh \in 0..(m - 1), rt \in 0..(m - 1) : rh = r.head /\ rt = r.tail
  BY <1>1, <1>2
<1>s. m > 1 /\ Size(cq) = (IF t >= h THEN t - h ELSE m - (h - t))
  BY <1>1 DEF Size
<1>r. /\ Size(r) = (IF rt >= rh THEN rt - rh ELSE m - (rh - rt))
      /\ rt = (IF t = m - 1 THEN 0 ELSE t + 1)
      /\ ~Full(cq) => rh = h
      /\ Full(cq) => rh = (IF h = m - 1 THEN 0 ELSE h + 1)
  BY <1>2 DEF Size
<1>f. Full(cq) <=> Size(cq) = m - 1
  BY <1>3
<1>4. Size(r) = IF Full(cq) THEN Size(cq) ELSE Size(cq) + 1
  <2>1. CASE Full(cq)
    BY <2>1, <1>s, <1>r, <1>f
  <2>2. CASE ~Full(cq)
    BY <2>2, <1>s, <1>r, <1>f
  <2>3. QED
    BY <2>1, <2>2
<1> DEFINE d == IF Full(cq) THEN 1 ELSE 0
<1>5. ASSUME NEW k \in 0..(Size(r) - 1)
      PROVE  ItemAt(r, k) = IF k = Size(r) - 1 THEN x ELSE ItemAt(cq, k + d)
  <2>1. k \in 0..(cq.max - 1) /\ k \in 0..(r.max - 1)
    BY <1>1, <1>2, <1>3, <1>4
  <2>2. ItemAt(r, k) = r.v[IF r.head + k < r.max THEN r.head + k ELSE r.head + k - r.max]
    BY <2>1, <1>1, <1>2, ItemIs
  <2>3. CASE k = Size(r) - 1
    <3>1. (IF rh + k < m THEN rh + k ELSE rh + k - m) = t
      <4>1. CASE Full(cq)
        BY <4>1, <2>1, <2>3, <1>s, <1>r, <1>f
      <4>2. CASE ~Full(cq)
        BY <4>2, <2>1, <2>3, <1>s, <1>r, <1>f
      <4>3. QED
        BY <4>1, <4>2
    <3>2. QED
      BY <2>2, <2>3, <3>1, <1>1, <1>2
  <2>4. CASE k # Size(r) - 1
    <3>1. k + d \in 0..(cq.max - 1)
      BY <2>1, <2>4, <1>1, <1>3, <1>4
    <3>2. ItemAt(cq, k + d) =
          cq.v[IF cq.head + (k + d) < cq.max THEN cq.head + (k + d) ELSE cq.head + (k + d) - cq.max]
      BY <3>1, <1>1, ItemIs
    <3>3. /\ (IF rh + k < m THEN rh + k ELSE rh + k - m)
             = (IF h + (k + d) < m THEN h + (k + d) ELSE h + (k + d) - m)
          /\ (IF rh + k < m THEN rh + k ELSE rh + k - m) \in 0..(m - 1) \ {t}
      <4>1. CASE Full(cq)
        <5>1. Size(r) = m - 1 /\ d = 1 /\ rh = (IF h = m - 1 THEN 0 ELSE h + 1)
          BY <4>1, <1>r, <1>f, <1>4
        <5>2. k \in Nat /\ k < m - 2
          BY <5>1, <2>1, <2>4, <1>1
        <5>3. t = IF h = 0 THEN m - 1 ELSE h - 1
          BY <4>1, <1>s, <1>f
        <5>4. CASE h = m - 1
          <6>1. rh + k = k /\ k < m /\ t = m - 2
            BY <5>1, <5>2, <5>3, <5>4, <1>s
          <6>2. h + (k + d) = m + k /\ ~(m + k < m) /\ m + k - m = k
            BY <5>1, <5>2, <5>4, <1>1, SMTT(30)
          <6>3. k \in 0..(m - 1) \ {t}
            BY <6>1, <5>2
          <6>4. QED
            BY <6>1, <6>2, <6>3
        <5>5. CASE h < m - 1
          BY <5>1, <5>2, <5>3, <5>5, <1>s
        <5>6. QED
          BY <5>4, <5>5
      <4>2. CASE ~Full(cq)
        BY <4>2, <2>1, <2>4, <1>s, <1>r, <1>f, <1>4
      <4>3. QED
        BY <4>1, <4>2
    <3>4. QED
      BY <2>2, <2>4, <3>2, <3>3, <1>1, <1>2, SMTT(30)
  <2>5. QED
    BY <2>3, <2>4
<1> DEFINE old == IF Full(cq) THEN Tail(Contents(cq)) ELSE Contents(cq)
<1>6. /\ Contents(cq) \in Seq(Items \cup {Unused}) /\ Len(Contents(cq)) = Size(cq)
      /\ \A i \in 1..Size(cq) : Contents(cq)[i] = ItemAt(cq, i - 1)
  BY <1>1, ContentsIsSequence
<1>7. /\ Contents(r) \in Seq(Items \cup {Unused}) /\ Len(Contents(r)) = Size(r)
      /\ \A i \in 1..Size(r) : Contents(r)[i] = ItemAt(r, i - 1)
  BY <1>1, <1>2, ContentsIsSequence
<1>8. /\ old \in Seq(Items \cup {Unused}) /\ Len(old) = Size(r) - 1
      /\ \A i \in 1..(Size(r) - 1) : old[i] = ItemAt(cq, (i - 1) + d)
  <2>1. CASE Full(cq)
    <3>1. Contents(cq) # <<>> /\ Size(cq) >= 1
      BY <2>1, <1>1, <1>3, <1>6
    <3>2. /\ Tail(Contents(cq)) \in Seq(Items \cup {Unused})
          /\ Len(Tail(Contents(cq))) = Size(cq) - 1
          /\ \A i \in 1..(Size(cq) - 1) : Tail(Contents(cq))[i] = Contents(cq)[i + 1]
      BY <3>1, <1>6
    <3>3. \A i \in 1..(Size(cq) - 1) : Contents(cq)[i + 1] = ItemAt(cq, (i - 1) + 1)
      BY <1>3, <1>6
    <3>4. QED
      BY <2>1, <3>2, <3>3, <1>4
  <2>2. CASE ~Full(cq)
    <3>1. \A i \in 1..Size(cq) : Contents(cq)[i] = ItemAt(cq, (i - 1) + 0)
      BY <1>3, <1>6
    <3>2. QED
      BY <2>2, <3>1, <1>3, <1>4, <1>6
  <2>3. QED
    BY <2>1, <2>2
<1> HIDE DEF old, d
<1>9. Size(r) \in Nat \ {0}
  BY <1>1, <1>3, <1>4
<1>10. Len(Append(old, x)) = Size(r) /\ Append(old, x) \in Seq(Items \cup {Unused})
  BY <1>8, <1>9
<1>11. ASSUME NEW i \in 1..Size(r) PROVE Contents(r)[i] = Append(old, x)[i]
  <2>1. i - 1 \in 0..(Size(r) - 1) /\ Contents(r)[i] = ItemAt(r, i - 1)
    BY <1>7, <1>9
  <2>2. ItemAt(r, i - 1) = IF i - 1 = Size(r) - 1 THEN x ELSE ItemAt(cq, (i - 1) + d)
    BY <2>1, <1>5
  <2>3. Append(old, x)[i] = IF i = Size(r) THEN x ELSE old[i]
    BY <1>8, <1>9
  <2>4. CASE i = Size(r)
    BY <2>1, <2>2, <2>3, <2>4
  <2>5. CASE i # Size(r)
    <3>1. i \in 1..(Size(r) - 1) /\ i - 1 # Size(r) - 1
      BY <2>5, <1>9
    <3>2. QED
      BY <2>1, <2>2, <2>3, <2>5, <3>1, <1>8
  <2>6. QED
    BY <2>4, <2>5
<1>12. Contents(r) = Append(old, x)
  BY <1>7, <1>10, <1>11
<1>13. QED
  BY <1>2, <1>12 DEF r, old

(***************************************************************************)
(* circular_q.h:99: pop_front takes the oldest item, which front gives.   *)
(***************************************************************************)
THEOREM PopTakesOldest ==
    ASSUME NEW Items, NEW cq, Ring(cq, Items), cq.max # 0, ~Empty(cq)
    PROVE  /\ Ring(PopFront(cq), Items)
           /\ FrontItem(cq) = Head(Contents(cq))
           /\ Contents(PopFront(cq)) = Tail(Contents(cq))
           /\ PopFront(cq).over = cq.over
<1> DEFINE r == PopFront(cq)
<1>1. /\ cq = [max |-> cq.max, head |-> cq.head, tail |-> cq.tail, over |-> cq.over, v |-> cq.v]
      /\ cq.max \in Nat \ {0} /\ cq.over \in Nat
      /\ cq.head \in 0..(cq.max - 1) /\ cq.tail \in 0..(cq.max - 1)
      /\ cq.v \in [0..(cq.max - 1) -> Items \cup {Unused}]
  BY Fields
<1>2. After(cq, cq.head) = IF cq.head = cq.max - 1 THEN 0 ELSE cq.head + 1
  BY <1>1, AfterIs
<1>3. r = [max |-> cq.max, head |-> After(cq, cq.head), tail |-> cq.tail, over |-> cq.over, v |-> cq.v]
  BY <1>1 DEF PopFront
<1>4. Ring(r, Items) /\ r.max = cq.max /\ r.v = cq.v /\ r.over = cq.over /\ r.tail = cq.tail
      /\ r.head = IF cq.head = cq.max - 1 THEN 0 ELSE cq.head + 1
  BY <1>1, <1>2, <1>3 DEF Ring
<1> HIDE DEF r
<1>5. Size(cq) \in 1..(cq.max - 1) /\ Size(r) = Size(cq) - 1
  BY <1>1, <1>4, SMTT(30) DEF Size, Empty
<1>6. ASSUME NEW k \in 0..(Size(r) - 1) PROVE ItemAt(r, k) = ItemAt(cq, k + 1)
  <2>1. k \in 0..(r.max - 1) /\ k + 1 \in 0..(cq.max - 1)
    BY <1>1, <1>4, <1>5
  <2>2. ItemAt(r, k) = r.v[IF r.head + k < r.max THEN r.head + k ELSE r.head + k - r.max]
    BY <2>1, <1>1, <1>4, ItemIs
  <2>3. ItemAt(cq, k + 1) =
        cq.v[IF cq.head + (k + 1) < cq.max THEN cq.head + (k + 1) ELSE cq.head + (k + 1) - cq.max]
    BY <2>1, <1>1, ItemIs
  <2>4. QED
    BY <2>1, <2>2, <2>3, <1>1, <1>4, SMTT(30)
<1>7. /\ Contents(cq) \in Seq(Items \cup {Unused}) /\ Len(Contents(cq)) = Size(cq)
      /\ \A i \in 1..Size(cq) : Contents(cq)[i] = ItemAt(cq, i - 1)
  BY <1>1, ContentsIsSequence
<1>8. /\ Contents(r) \in Seq(Items \cup {Unused}) /\ Len(Contents(r)) = Size(r)
      /\ \A i \in 1..Size(r) : Contents(r)[i] = ItemAt(r, i - 1)
  BY <1>1, <1>4, ContentsIsSequence
<1>9. FrontItem(cq) = Head(Contents(cq))
  <2>1. Head(Contents(cq)) = ItemAt(cq, 0)
    BY <1>5, <1>7
  <2>2. ItemAt(cq, 0) = cq.v[cq.head]
    BY <1>1, ItemIs, SMTT(30)
  <2>3. QED
    BY <2>1, <2>2 DEF FrontItem
<1>10. Contents(r) = Tail(Contents(cq))
  <2>1. /\ Tail(Contents(cq)) \in Seq(Items \cup {Unused})
        /\ Len(Tail(Contents(cq))) = Size(r)
        /\ \A i \in 1..Size(r) : Tail(Contents(cq))[i] = Contents(cq)[i + 1]
    BY <1>5, <1>7
  <2>2. ASSUME NEW i \in 1..Size(r) PROVE Contents(r)[i] = Tail(Contents(cq))[i]
    <3>1. i - 1 \in 0..(Size(r) - 1) /\ i + 1 \in 1..Size(cq)
      BY <1>5
    <3>2. Contents(r)[i] = ItemAt(cq, (i - 1) + 1)
      BY <3>1, <1>6, <1>8
    <3>3. Contents(cq)[i + 1] = ItemAt(cq, (i + 1) - 1)
      BY <3>1, <1>7
    <3>4. (i - 1) + 1 = (i + 1) - 1
      BY <1>5
    <3>5. QED
      BY <2>1, <3>2, <3>3, <3>4
  <2>3. QED
    BY <2>1, <2>2, <1>8
<1>11. QED
  BY <1>4, <1>9, <1>10 DEF r
==============================================================================
