------------------------------ MODULE SinkProofs ------------------------------
(***************************************************************************)
(* The file and the filtering sinks, as Logging runs them: what their      *)
(* invariants are, that every step keeps them, and that the properties     *)
(* follow. LoggingProofs has the theorems. First what both modules say of  *)
(* the last elements of a sequence and of the rings of circular_q.h.       *)
(***************************************************************************)
EXTENDS Logging, CircularQProofs, FiniteSetTheorems, WellFoundedInduction
------------------------------------------------------------------------------
LEMMA LastOfIs ==
    ASSUME NEW S, NEW s \in Seq(S), NEW n \in Nat
    PROVE  /\ Reg!LastOf(s, n) \in Seq(S)
           /\ Len(Reg!LastOf(s, n)) = IF Len(s) > n THEN n ELSE Len(s)
           /\ \A i \in 1..Len(Reg!LastOf(s, n)) :
                 Reg!LastOf(s, n)[i] = s[IF Len(s) > n THEN i + (Len(s) - n) ELSE i]
<1> PICK k \in Nat : k = Len(s)
  OBVIOUS
<1> PICK a \in Nat : a = IF k > n THEN k - n + 1 ELSE 1
  OBVIOUS
<1>1. a \in 1..(k + 1) /\ \A i \in a..k : s[i] \in S
  OBVIOUS
<1>2. /\ SubSeq(s, a, k) \in Seq(S)
      /\ Len(SubSeq(s, a, k)) = IF a <= k THEN k - a + 1 ELSE 0
      /\ \A i \in 1..(k - a + 1) : SubSeq(s, a, k)[i] = s[a + i - 1]
  BY <1>1, SubSeqProperties
<1>3. Reg!LastOf(s, n) = SubSeq(s, a, k)
  BY DEF Reg!LastOf
<1>4. CASE k > n
  <2>1. a = k - n + 1 /\ k - a + 1 = n
    BY <1>4
  <2>2. \A i \in 1..n : a + i - 1 = i + (k - n)
    BY <2>1
  <2>3. /\ Len(SubSeq(s, a, k)) = n /\ \A i \in 1..n : SubSeq(s, a, k)[i] = s[i + (k - n)]
    BY <1>2, <1>4, <2>1, <2>2
  <2>4. QED
    BY <1>2, <1>3, <1>4, <2>3
<1>5. CASE ~(k > n)
  <2>1. a = 1 /\ k - a + 1 = k
    BY <1>5
  <2>2. \A i \in 1..k : a + i - 1 = i
    BY <2>1
  <2>3. QED
    BY <1>2, <1>3, <1>5, <2>1, <2>2
<1>6. QED
  BY <1>4, <1>5

LEMMA LastOfNone ==
    ASSUME NEW S, NEW n \in Nat
    PROVE  <<>> \in Seq(S) /\ Reg!LastOf(<<>>, n) = <<>>
<1> PICK s \in Seq(S) : s = <<>>
  BY EmptySeq
<1>1. /\ Reg!LastOf(s, n) \in Seq(S)
      /\ Len(Reg!LastOf(s, n)) = IF Len(s) > n THEN n ELSE Len(s)
  BY LastOfIs
<1>2. Reg!LastOf(s, n) = <<>>
  BY <1>1
<1>3. QED
  BY <1>2

LEMMA LastOfNothing ==
    ASSUME NEW S, NEW s \in Seq(S)
    PROVE  Reg!LastOf(s, 0) = <<>>
<1>1. Reg!LastOf(s, 0) \in Seq(S) /\ Len(Reg!LastOf(s, 0)) = 0
  BY LastOfIs
<1>2. QED
  BY <1>1

LEMMA LastOfAppend ==
    ASSUME NEW S, NEW s \in Seq(S), NEW n \in Nat \ {0}, NEW x \in S
    PROVE  Reg!LastOf(Append(s, x), n)
           = Append(IF Len(s) >= n THEN Tail(Reg!LastOf(s, n)) ELSE Reg!LastOf(s, n), x)
<1> DEFINE u == Append(s, x)
           old == IF Len(s) >= n THEN Tail(Reg!LastOf(s, n)) ELSE Reg!LastOf(s, n)
<1>1. /\ u \in Seq(S) /\ Len(u) = Len(s) + 1 /\ Len(s) \in Nat
      /\ u[Len(s) + 1] = x /\ \A i \in 1..Len(s) : u[i] = s[i]
  OBVIOUS
<1>2. /\ Reg!LastOf(s, n) \in Seq(S)
      /\ Len(Reg!LastOf(s, n)) = IF Len(s) > n THEN n ELSE Len(s)
      /\ \A i \in 1..Len(Reg!LastOf(s, n)) :
            Reg!LastOf(s, n)[i] = s[IF Len(s) > n THEN i + (Len(s) - n) ELSE i]
  BY LastOfIs
<1>3. /\ Reg!LastOf(u, n) \in Seq(S)
      /\ Len(Reg!LastOf(u, n)) = IF Len(u) > n THEN n ELSE Len(u)
      /\ \A i \in 1..Len(Reg!LastOf(u, n)) :
            Reg!LastOf(u, n)[i] = u[IF Len(u) > n THEN i + (Len(u) - n) ELSE i]
  BY <1>1, LastOfIs
<1>4. /\ old \in Seq(S) /\ Len(old) = Len(Reg!LastOf(u, n)) - 1
      /\ \A i \in 1..Len(old) : old[i] = s[IF Len(s) >= n THEN i + (Len(s) + 1 - n) ELSE i]
  <2>1. CASE Len(s) >= n
    <3>1. Reg!LastOf(s, n) # <<>> /\ Len(Reg!LastOf(s, n)) = n
      BY <2>1, <1>1, <1>2
    <3>2. /\ Tail(Reg!LastOf(s, n)) \in Seq(S) /\ Len(Tail(Reg!LastOf(s, n))) = n - 1
          /\ \A i \in 1..(n - 1) : Tail(Reg!LastOf(s, n))[i] = Reg!LastOf(s, n)[i + 1]
      BY <3>1, <1>2
    <3>3. ASSUME NEW i \in 1..(n - 1) PROVE Reg!LastOf(s, n)[i + 1] = s[i + (Len(s) + 1 - n)]
      <4>1. i + 1 \in 1..n
        OBVIOUS
      <4>2. Reg!LastOf(s, n)[i + 1] = s[IF Len(s) > n THEN i + 1 + (Len(s) - n) ELSE i + 1]
        BY <4>1, <3>1, <1>2
      <4>3. (IF Len(s) > n THEN i + 1 + (Len(s) - n) ELSE i + 1) = i + (Len(s) + 1 - n)
        BY <2>1, <1>1
      <4>4. QED
        BY <4>2, <4>3
    <3>4. QED
      BY <2>1, <3>2, <3>3, <1>1, <1>3
  <2>2. CASE ~(Len(s) >= n)
    BY <2>2, <1>1, <1>2, <1>3
  <2>3. QED
    BY <2>1, <2>2
<1> HIDE DEF u, old
<1>5. Append(old, x) \in Seq(S) /\ Len(Append(old, x)) = Len(Reg!LastOf(u, n))
  BY <1>1, <1>3, <1>4
<1>6. ASSUME NEW i \in 1..Len(Reg!LastOf(u, n)) PROVE Reg!LastOf(u, n)[i] = Append(old, x)[i]
  <2>1. Append(old, x)[i] = IF i = Len(Reg!LastOf(u, n)) THEN x ELSE old[i]
    BY <1>1, <1>3, <1>4
  <2>2. Reg!LastOf(u, n)[i] = u[IF Len(u) > n THEN i + (Len(u) - n) ELSE i]
    BY <1>3
  <2>3. CASE i = Len(Reg!LastOf(u, n))
    <3>1. (IF Len(u) > n THEN i + (Len(u) - n) ELSE i) = Len(s) + 1
      BY <2>3, <1>1, <1>3
    <3>2. QED
      BY <2>1, <2>2, <2>3, <3>1, <1>1
  <2>4. CASE i # Len(Reg!LastOf(u, n))
    <3>1. i \in 1..Len(old)
      BY <2>4, <1>1, <1>3, <1>4
    <3>2. (IF Len(u) > n THEN i + (Len(u) - n) ELSE i)
            = (IF Len(s) >= n THEN i + (Len(s) + 1 - n) ELSE i)
          /\ (IF Len(u) > n THEN i + (Len(u) - n) ELSE i) \in 1..Len(s)
      BY <3>1, <1>1, <1>3, <1>4
    <3>3. QED
      BY <2>1, <2>2, <2>4, <3>1, <3>2, <1>1, <1>4
  <2>5. QED
    BY <2>3, <2>4
<1>7. Reg!LastOf(u, n) = Append(old, x)
  BY <1>3, <1>5, <1>6, SeqEqual, Zenon
<1>8. QED
  BY <1>7 DEF u, old

LEMMA PushKeeps ==
    ASSUME NEW Items, NEW cq, Ring(cq, Items), cq.max # 0, NEW x \in Items
    PROVE  Ring(PushBack(cq, x), Items) /\ PushBack(cq, x).max = cq.max
<1>1. Ring(PushBack(cq, x), Items)
  BY FieldsAfterPush, Zenon
<1>2. cq = [max |-> cq.max, head |-> cq.head, tail |-> cq.tail, over |-> cq.over, v |-> cq.v]
  BY Fields, Zenon
<1>3. PushBack(cq, x).max = cq.max
  BY <1>2 DEF PushBack
<1>4. QED
  BY <1>1, <1>3

------------------------------------------------------------------------------
(***************************************************************************)
(* Induction over the naturals, as a fact about sets of them, and the      *)
(* recursive functions that exist by it and are what their equations say.  *)
(***************************************************************************)
LEMMA NatOrder == IsWellFoundedOn({ss \in Nat \X Nat : ss[1] < ss[2]}, Nat)
BY NatLessThanWellFounded, Zenon DEF OpToRel

LEMMA Least ==
    ASSUME NEW T \in SUBSET Nat, T # {}
    PROVE  \E x \in T : \A y \in T : x <= y
<1>1. PICK x \in T : \A y \in T : <<y, x>> \notin {ss \in Nat \X Nat : ss[1] < ss[2]}
  BY NatOrder, WFMin
<1>2. \A y \in T : ~(y < x)
  BY <1>1
<1>3. QED
  BY <1>2

LEMMA Induction ==
    ASSUME NEW S \in SUBSET Nat, 0 \in S, \A n \in S : n + 1 \in S
    PROVE  S = Nat
<1>1. SUFFICES ASSUME S # Nat PROVE FALSE
  OBVIOUS
<1>2. PICK x \in Nat \ S : \A y \in Nat \ S : x <= y
  BY <1>1, Least
<1>3. x # 0 /\ x - 1 \in Nat /\ x - 1 \in S
  BY <1>2
<1>4. x - 1 + 1 \in S
  BY <1>3
<1>5. QED
  BY <1>2, <1>4

\* A recursive function over 0..N exists, if each value comes from the one before it.
Chain(f, N, x, F) == f[0] = x /\ \A n \in 1..N : f[n] = F[<<n, f[n - 1]>>]

LEMMA RecursionExists ==
    ASSUME NEW S, NEW x \in S, NEW F \in [Nat \X S -> S]
    PROVE  \A N \in Nat : \E f \in [0..N -> S] : Chain(f, N, x, F)
<1> DEFINE T == {N \in Nat : \E f \in [0..N -> S] : Chain(f, N, x, F)}
<1>1. 0 \in T
  <2>1. [i \in 0..0 |-> x] \in [0..0 -> S] /\ Chain([i \in 0..0 |-> x], 0, x, F)
    BY DEF Chain
  <2>2. QED
    BY <2>1
<1>2. ASSUME NEW N \in T PROVE N + 1 \in T
  <2>1. N \in Nat
    OBVIOUS
  <2>2. PICK f \in [0..N -> S] : Chain(f, N, x, F)
    OBVIOUS
  <2> DEFINE g == [i \in 0..(N + 1) |-> IF i <= N THEN f[i] ELSE F[<<N + 1, f[N]>>]]
  <2>3. g \in [0..(N + 1) -> S]
    <3>1. F[<<N + 1, f[N]>>] \in S
      BY <2>1
    <3>2. QED
      BY <2>1, <3>1
  <2>4. g[0] = x
    BY <2>1, <2>2 DEF Chain
  <2>5. ASSUME NEW n \in 1..(N + 1) PROVE g[n] = F[<<n, g[n - 1]>>]
    <3>1. g[n - 1] = f[n - 1]
      BY <2>1
    <3>2. CASE n <= N
      BY <2>1, <2>2, <3>1, <3>2 DEF Chain
    <3>3. CASE n = N + 1
      <4>1. n - 1 = N
        BY <2>1, <3>3
      <4>2. g[n] = F[<<N + 1, f[N]>>]
        BY <2>1, <3>3
      <4>3. QED
        BY <3>1, <3>3, <4>1, <4>2, Zenon
    <3>4. QED
      BY <2>1, <3>2, <3>3
  <2>6. Chain(g, N + 1, x, F)
    BY <2>4, <2>5 DEF Chain
  <2>7. QED
    BY <2>1, <2>3, <2>6
<1>3. T = Nat
  <2> HIDE DEF T
  <2>1. T \in SUBSET Nat
    BY DEF T
  <2>2. QED
    BY <1>1, <1>2, <2>1, Induction
<1>4. QED
  BY <1>3

\* Two functions over 0..N with the same first value and the same steps are one.
InStep(f, g, N) == f[0] = g[0] /\ \A n \in 1..N : f[n - 1] = g[n - 1] => f[n] = g[n]
Equal(f, g, N) == \A n \in 0..N : f[n] = g[n]

LEMMA Together == ASSUME NEW N \in Nat, NEW f, NEW g, InStep(f, g, N) PROVE Equal(f, g, N)
<1> DEFINE T == {n \in Nat : n <= N => f[n] = g[n]}
<1>1. 0 \in T
  BY DEF InStep
<1>2. ASSUME NEW n \in T PROVE n + 1 \in T
  <2>1. n + 1 \in 1..N => f[(n + 1) - 1] = g[(n + 1) - 1]
    <3>1. (n + 1) - 1 = n
      OBVIOUS
    <3>2. QED
      BY <3>1
  <2>2. n + 1 \in 1..N => f[n + 1] = g[n + 1]
    BY <2>1 DEF InStep
  <2>3. n + 1 \in Nat /\ (n + 1 <= N => n + 1 \in 1..N)
    OBVIOUS
  <2>4. QED
    BY <2>2, <2>3
<1>3. T = Nat
  <2> HIDE DEF T
  <2>1. T \in SUBSET Nat
    BY DEF T
  <2>2. QED
    BY <1>1, <1>2, <2>1, Induction
<1>4. QED
  BY <1>3 DEF Equal
------------------------------------------------------------------------------
(***************************************************************************)
(* The rotating files, for any limits and any lengths of messages. The     *)
(* files are arranged: each holds messages in their order, and those of a  *)
(* lower index are later. A rotation, whole or broken off, moves a file    *)
(* past no other. As long as nothing fails the files hold the latest       *)
(* messages, and a sink that has no open file knows that it must rotate.   *)
(***************************************************************************)
LEMMA TotalIs ==
    ASSUME NEW s \in Seq(Nat), NEW z, \A k \in 1..Len(s) : z[s[k]] \in Nat
    PROVE  \E f \in [0..Len(s) -> Nat] :
              /\ f[0] = 0 /\ \A n \in 1..Len(s) : f[n] = f[n - 1] + z[s[n]]
              /\ Rot!Total(s, z) = f[Len(s)]
<1> DEFINE N == Len(s)
           F == [p \in Nat \X Nat |-> IF p[1] \in 1..N THEN p[2] + z[s[p[1]]] ELSE 0]
           Sums(f) == f = [n \in 0..N |-> IF n = 0 THEN 0 ELSE f[n - 1] + z[s[n]]]
<1>1. N \in Nat
  OBVIOUS
<1>2. F \in [Nat \X Nat -> Nat]
  OBVIOUS
<1>3. PICK f \in [0..N -> Nat] : Chain(f, N, 0, F)
  BY <1>1, <1>2, RecursionExists
<1>4. f[0] = 0 /\ \A n \in 1..N : f[n] = f[n - 1] + z[s[n]]
  <2>1. ASSUME NEW n \in 1..N PROVE f[n] = f[n - 1] + z[s[n]]
    <3>1. n \in Nat /\ n - 1 \in 0..N
      BY <1>1
    <3>2. f[n - 1] \in Nat
      BY <1>3, <3>1
    <3>3. f[n] = F[<<n, f[n - 1]>>]
      BY <1>3, Zenon DEF Chain
    <3>4. QED
      BY <3>1, <3>2, <3>3
  <2>2. QED
    BY <1>3, <2>1 DEF Chain
<1>5. Sums(f)
  <2>1. \A n \in 0..N : f[n] = IF n = 0 THEN 0 ELSE f[n - 1] + z[s[n]]
    BY <1>1, <1>4
  <2>2. QED
    BY <2>1
<1> DEFINE c == CHOOSE g : Sums(g)
<1>6. Sums(c)
  BY <1>5
<1>7. Rot!Total(s, z) = c[N]
  BY DEF Rot!Total
<1> HIDE DEF c
<1>8. c[0] = 0 /\ \A n \in 1..N : c[n] = c[n - 1] + z[s[n]]
  <2>1. \A n \in 0..N : c[n] = IF n = 0 THEN 0 ELSE c[n - 1] + z[s[n]]
    BY <1>6
  <2>2. QED
    BY <1>1, <2>1
<1>9. \A n \in 0..N : c[n] = f[n]
  <2>1. c[0] = f[0]
    BY <1>4, <1>8
  <2>2. ASSUME NEW n \in 1..N, c[n - 1] = f[n - 1] PROVE c[n] = f[n]
    <3>1. c[n] = c[n - 1] + z[s[n]] /\ f[n] = f[n - 1] + z[s[n]]
      BY <1>4, <1>8, Zenon
    <3>2. QED
      BY <2>2, <3>1, Zenon
  <2>3. InStep(c, f, N)
    BY <2>1, <2>2, Zenon DEF InStep
  <2>4. Equal(c, f, N)
    BY <1>1, <2>3, Together
  <2>5. QED
    BY <2>4, Zenon DEF Equal
<1>10. Rot!Total(s, z) = f[N]
  <2>1. N \in 0..N
    BY <1>1
  <2>2. QED
    BY <1>7, <1>9, <2>1, Zenon
<1>11. QED
  BY <1>1, <1>4, <1>10

LEMMA TotalNone == ASSUME NEW z PROVE Rot!Total(<<>>, z) = 0
<1>1. <<>> \in Seq(Nat) /\ Len(<<>>) = 0
  OBVIOUS
<1>2. \A k \in 1..Len(<<>>) : z[<<>>[k]] \in Nat
  BY <1>1
<1>3. QED
  BY <1>1, <1>2, TotalIs

\* What does not depend on the lengths of other messages.
LEMMA TotalDepends ==
    ASSUME NEW s \in Seq(Nat), NEW z, NEW y, \A k \in 1..Len(s) : z[s[k]] \in Nat /\ y[s[k]] = z[s[k]]
    PROVE  Rot!Total(s, y) = Rot!Total(s, z) /\ Rot!Total(s, z) \in Nat
<1>1. PICK f \in [0..Len(s) -> Nat] :
         /\ f[0] = 0 /\ \A n \in 1..Len(s) : f[n] = f[n - 1] + z[s[n]]
         /\ Rot!Total(s, z) = f[Len(s)]
  BY TotalIs
<1>2. \A k \in 1..Len(s) : y[s[k]] \in Nat
  OBVIOUS
<1>3. PICK g \in [0..Len(s) -> Nat] :
         /\ g[0] = 0 /\ \A n \in 1..Len(s) : g[n] = g[n - 1] + y[s[n]]
         /\ Rot!Total(s, y) = g[Len(s)]
  BY <1>2, TotalIs
<1>4. Len(s) \in Nat
  OBVIOUS
<1>5. \A n \in 1..Len(s) : f[n - 1] = g[n - 1] => f[n] = g[n]
  BY <1>1, <1>3
<1>6. \A n \in 0..Len(s) : f[n] = g[n]
  <2>1. InStep(f, g, Len(s))
    BY <1>1, <1>3, <1>5, Zenon DEF InStep
  <2>2. Equal(f, g, Len(s))
    BY <1>4, <2>1, Together
  <2>3. QED
    BY <2>2, Zenon DEF Equal
<1>7. QED
  BY <1>1, <1>3, <1>4, <1>6

LEMMA TotalAppend ==
    ASSUME NEW s \in Seq(Nat), NEW z, NEW m \in Nat, z[m] \in Nat,
           \A k \in 1..Len(s) : z[s[k]] \in Nat
    PROVE  Rot!Total(Append(s, m), z) = Rot!Total(s, z) + z[m]
<1> DEFINE r == Append(s, m)
<1>1. /\ r \in Seq(Nat) /\ Len(r) = Len(s) + 1 /\ Len(s) \in Nat
      /\ r[Len(s) + 1] = m /\ \A k \in 1..Len(s) : r[k] = s[k]
  OBVIOUS
<1> HIDE DEF r
<1>2. \A k \in 1..Len(r) : z[r[k]] \in Nat
  BY <1>1
<1>3. PICK f \in [0..Len(s) -> Nat] :
         /\ f[0] = 0 /\ \A n \in 1..Len(s) : f[n] = f[n - 1] + z[s[n]]
         /\ Rot!Total(s, z) = f[Len(s)]
  BY TotalIs
<1>4. PICK g \in [0..Len(r) -> Nat] :
         /\ g[0] = 0 /\ \A n \in 1..Len(r) : g[n] = g[n - 1] + z[r[n]]
         /\ Rot!Total(r, z) = g[Len(r)]
  BY <1>1, <1>2, TotalIs
<1>5. ASSUME NEW n \in 1..Len(s), f[n - 1] = g[n - 1] PROVE f[n] = g[n]
  <2>1. n \in 1..Len(r) /\ r[n] = s[n]
    BY <1>1
  <2>2. f[n] = f[n - 1] + z[s[n]]
    BY <1>3
  <2>3. g[n] = g[n - 1] + z[r[n]]
    BY <1>4, <2>1
  <2>4. QED
    BY <1>5, <2>1, <2>2, <2>3, Zenon
<1>6. f[Len(s)] = g[Len(s)]
  <2>1. \A n \in 0..Len(s) : f[n] = g[n]
    <3>1. InStep(f, g, Len(s))
      BY <1>3, <1>4, <1>5, Zenon DEF InStep
    <3>2. Equal(f, g, Len(s))
      BY <1>1, <3>1, Together
    <3>3. QED
      BY <3>2, Zenon DEF Equal
  <2>2. QED
    BY <1>1, <2>1
<1>7. g[Len(s) + 1] = g[Len(s)] + z[m]
  <2>1. Len(s) + 1 \in 1..Len(r) /\ (Len(s) + 1) - 1 = Len(s)
    BY <1>1
  <2>2. QED
    BY <1>1, <1>4, <2>1
<1>8. QED
  BY <1>1, <1>3, <1>4, <1>6, <1>7 DEF r

\* What the loop of rotate_() makes of the files, when it has come down to n.
ShiftedAt(fs, n, j) ==
    IF j > n /\ Rot!Exists(fs, j - 1) THEN fs[j - 1]
    ELSE IF j < n \/ j = ro_MaxFiles THEN fs[j] ELSE Rot!Missing

Shifted(fs, n) == [j \in 0..ro_MaxFiles |-> ShiftedAt(fs, n, j)]

FileTable == [0..ro_MaxFiles -> Seq(Nat)]

LEMMA ShiftedStarts ==
    ASSUME RotatingParameters, NEW fs \in FileTable
    PROVE  Shifted(fs, ro_MaxFiles) = fs
<1>1. \A j \in 0..ro_MaxFiles : ShiftedAt(fs, ro_MaxFiles, j) = fs[j]
  BY DEF ShiftedAt, RotatingParameters
<1>2. QED
  BY <1>1 DEF Shifted, FileTable

LEMMA ShiftedSteps ==
    ASSUME RotatingParameters, NEW fs \in FileTable, NEW n \in 0..ro_MaxFiles, n # ro_MaxFiles
    PROVE  Shifted(fs, n) = IF Rot!Exists(Shifted(fs, n + 1), n) THEN Rot!Renamed(Shifted(fs, n + 1), n + 1)
                            ELSE Shifted(fs, n + 1)
<1>1. n \in Nat /\ n + 1 \in 0..ro_MaxFiles /\ ro_MaxFiles \in Nat /\ (n + 1) - 1 = n
  BY DEF RotatingParameters
<1>2. Shifted(fs, n + 1)[n] = fs[n]
  BY <1>1 DEF Shifted, ShiftedAt
<1>3. CASE Rot!Exists(fs, n)
  <2>1. \A j \in 0..ro_MaxFiles : ShiftedAt(fs, n, j)
          = IF j = n + 1 THEN Shifted(fs, n + 1)[n]
            ELSE IF j = n THEN Rot!Missing ELSE ShiftedAt(fs, n + 1, j)
    BY <1>1, <1>2, <1>3 DEF ShiftedAt
  <2>2. PICK h : h = Shifted(fs, n + 1)
    OBVIOUS
  <2>3. /\ h = [j \in 0..ro_MaxFiles |-> h[j]]
        /\ \A j \in 0..ro_MaxFiles : h[j] = ShiftedAt(fs, n + 1, j)
    BY <2>2 DEF Shifted
  <2>4. Rot!Renamed(h, n + 1) = [h EXCEPT ![n + 1] = h[n], ![n] = Rot!Missing]
    BY <1>1, Zenon DEF Rot!Renamed
  <2>5. Rot!Renamed(h, n + 1) = [j \in 0..ro_MaxFiles |-> ShiftedAt(fs, n, j)]
    BY <1>1, <2>1, <2>2, <2>3, <2>4
  <2>6. Shifted(fs, n) = Rot!Renamed(Shifted(fs, n + 1), n + 1)
    BY <2>2, <2>5, Zenon DEF Shifted
  <2>7. QED
    BY <1>2, <1>3, <2>6, Zenon DEF Rot!Exists
<1>4. CASE ~Rot!Exists(fs, n)
  <2>1. \A j \in 0..ro_MaxFiles : ShiftedAt(fs, n, j) = ShiftedAt(fs, n + 1, j)
    BY <1>1, <1>4 DEF ShiftedAt, Rot!Exists
  <2>2. QED
    BY <1>2, <1>4, <2>1 DEF Shifted, Rot!Exists
<1>5. QED
  BY <1>3, <1>4

\* The loop is one.
LoopFrom(fs, n, f) ==
    f = [i \in n..ro_MaxFiles |->
           IF i = ro_MaxFiles THEN fs
           ELSE IF Rot!Exists(f[i + 1], i) THEN Rot!Renamed(f[i + 1], i + 1) ELSE f[i + 1]]

LEMMA RenamedIsShifted ==
    ASSUME RotatingParameters, NEW fs \in FileTable, NEW n \in 0..ro_MaxFiles
    PROVE  Rot!RenamedDownTo(fs, n) = Shifted(fs, n)
<1> DEFINE g == [i \in n..ro_MaxFiles |-> Shifted(fs, i)]
           c == CHOOSE f : LoopFrom(fs, n, f)
<1>1. ro_MaxFiles \in Nat /\ n \in Nat /\ n <= ro_MaxFiles
  BY DEF RotatingParameters
<1>2. LoopFrom(fs, n, g)
  <2>1. ASSUME NEW i \in n..ro_MaxFiles
        PROVE  Shifted(fs, i) = IF i = ro_MaxFiles THEN fs
                                ELSE IF Rot!Exists(g[i + 1], i) THEN Rot!Renamed(g[i + 1], i + 1)
                                ELSE g[i + 1]
    <3>1. CASE i = ro_MaxFiles
      BY <3>1, ShiftedStarts
    <3>2. CASE i # ro_MaxFiles
      <4>1. i \in 0..ro_MaxFiles /\ g[i + 1] = Shifted(fs, i + 1)
        BY <1>1, <3>2
      <4> HIDE DEF g
      <4>2. QED
        BY <3>2, <4>1, ShiftedSteps
    <3>3. QED
      BY <3>1, <3>2
  <2>2. QED
    BY <2>1, Zenon DEF LoopFrom
<1>3. LoopFrom(fs, n, c)
  BY <1>2, Zenon
<1>4. Rot!RenamedDownTo(fs, n) = c[n]
  BY Zenon DEF Rot!RenamedDownTo, LoopFrom
<1> HIDE DEF c, g
<1> DEFINE T == {k \in Nat : k <= ro_MaxFiles - n => c[ro_MaxFiles - k] = Shifted(fs, ro_MaxFiles - k)}
<1>5. 0 \in T
  <2>1. c[ro_MaxFiles] = fs
    BY <1>1, <1>3 DEF LoopFrom
  <2>2. ro_MaxFiles - 0 = ro_MaxFiles
    BY <1>1
  <2>3. QED
    BY <2>1, <2>2, ShiftedStarts
<1>6. ASSUME NEW k \in T PROVE k + 1 \in T
  <2>1. k \in Nat /\ (k <= ro_MaxFiles - n => c[ro_MaxFiles - k] = Shifted(fs, ro_MaxFiles - k))
    OBVIOUS
  <2>2. ASSUME k + 1 <= ro_MaxFiles - n
        PROVE  c[ro_MaxFiles - (k + 1)] = Shifted(fs, ro_MaxFiles - (k + 1))
    <3>1. PICK i \in 0..ro_MaxFiles : i = ro_MaxFiles - (k + 1)
      BY <1>1, <2>1, <2>2
    <3>2. i \in n..ro_MaxFiles /\ i # ro_MaxFiles /\ i + 1 = ro_MaxFiles - k
      BY <1>1, <2>1, <2>2, <3>1
    <3>3. c[i + 1] = Shifted(fs, i + 1)
      BY <1>1, <2>1, <2>2, <3>2
    <3>4. c[i] = IF Rot!Exists(c[i + 1], i) THEN Rot!Renamed(c[i + 1], i + 1) ELSE c[i + 1]
      BY <1>3, <3>2, Zenon DEF LoopFrom
    <3>5. c[i] = Shifted(fs, i)
      BY <3>2, <3>3, <3>4, ShiftedSteps
    <3>6. QED
      BY <3>1, <3>5
  <2>3. QED
    BY <2>1, <2>2
<1>7. T = Nat
  <2> HIDE DEF T
  <2>1. T \in SUBSET Nat
    BY DEF T
  <2>2. QED
    BY <1>5, <1>6, <2>1, Induction
<1>8. PICK k \in Nat : k = ro_MaxFiles - n
  BY <1>1
<1>9. c[n] = Shifted(fs, n)
  <2>1. k <= ro_MaxFiles - n => c[ro_MaxFiles - k] = Shifted(fs, ro_MaxFiles - k)
    BY <1>7
  <2>2. k <= ro_MaxFiles - n /\ ro_MaxFiles - k = n
    BY <1>1, <1>8
  <2>3. QED
    BY <2>1, <2>2, Zenon
<1>10. QED
  BY <1>4, <1>9

Elements(w) == {w[k] : k \in DOMAIN w}
MessagesIn(fs, i) == IF Rot!Exists(fs, i) THEN Elements(fs[i]) ELSE {}

\* A file of messages that were logged before the message s + 1, in their order.
GoodFile(w, s) == /\ w \in Seq(1..s)
                  /\ \A k, l \in DOMAIN w : k < l => w[k] < w[l]

\* What TypeOK and RotatingKeepsLatest say of the files and their order.
Arranged(fs, s) ==
    /\ fs \in FileTable
    /\ \A i \in 0..ro_MaxFiles : Rot!Exists(fs, i) => GoodFile(fs[i], s)
    /\ \A i \in 0..ro_MaxFiles : \A j \in 0..(i - 1) :
         \A m \in MessagesIn(fs, i), n \in MessagesIn(fs, j) : m < n

LEMMA SeqsOfNat == ASSUME NEW s \in Nat, NEW w \in Seq(1..s) PROVE w \in Seq(Nat)
<1>1. /\ Len(w) \in Nat /\ w \in [1..Len(w) -> 1..s]
  OBVIOUS
<1>2. w \in [1..Len(w) -> Nat]
  BY <1>1
<1>3. QED
  BY <1>1, <1>2

LEMMA NoMessages ==
    ASSUME NEW s \in Nat
    PROVE  GoodFile(<<>>, s) /\ <<>> \in Seq(Nat) /\ Rot!Missing \in Seq(Nat)
BY DEF GoodFile, Rot!Missing

LEMMA NotMissing == ASSUME NEW s \in Nat, NEW w, GoodFile(w, s) PROVE w # Rot!Missing
<1>1. SUFFICES ASSUME w = Rot!Missing PROVE FALSE
  OBVIOUS
<1>2. Len(w) = 1 /\ w[1] = 0
  BY <1>1 DEF Rot!Missing
<1>3. w[1] \in 1..s
  BY <1>2 DEF GoodFile
<1>4. QED
  BY <1>2, <1>3

LEMMA ShiftedArranged ==
    ASSUME RotatingParameters, NEW s \in Nat, NEW fs, Arranged(fs, s), NEW n \in 0..ro_MaxFiles
    PROVE  Arranged(Shifted(fs, n), s)
<1>1. ro_MaxFiles \in Nat /\ n \in Nat /\ n <= ro_MaxFiles /\ fs \in FileTable
  BY DEF RotatingParameters, Arranged
<1>2. PICK gs : gs = Shifted(fs, n)
  OBVIOUS
<1> DEFINE From(i) == IF i > n /\ Rot!Exists(fs, i - 1) THEN i - 1 ELSE i
<1>3. ASSUME NEW i \in 0..ro_MaxFiles
      PROVE  /\ From(i) \in 0..ro_MaxFiles
             /\ gs[i] = Rot!Missing \/ gs[i] = fs[From(i)]
             /\ gs[i] # Rot!Missing /\ i # ro_MaxFiles => From(i) = IF i > n THEN i - 1 ELSE i
             /\ gs[i] # Rot!Missing => i # n \/ n = ro_MaxFiles
             /\ From(i) \in {i, i - 1} /\ (From(i) = i - 1 => i > n)
  <2>1. gs[i] = ShiftedAt(fs, n, i)
    BY <1>2 DEF Shifted
  <2>2. From(i) \in 0..ro_MaxFiles /\ From(i) \in {i, i - 1} /\ (From(i) = i - 1 => i > n)
    BY <1>1
  <2>3. CASE i > n /\ Rot!Exists(fs, i - 1)
    BY <1>1, <2>1, <2>2, <2>3 DEF ShiftedAt
  <2>4. CASE ~(i > n /\ Rot!Exists(fs, i - 1))
    BY <1>1, <2>1, <2>2, <2>4 DEF ShiftedAt
  <2>5. QED
    BY <2>3, <2>4
<1>4. gs \in FileTable
  <2>1. \A i \in 0..ro_MaxFiles : ShiftedAt(fs, n, i) \in Seq(Nat)
    BY <1>1, NoMessages DEF ShiftedAt, FileTable
  <2>2. QED
    BY <1>2, <2>1 DEF Shifted, FileTable
<1>5. ASSUME NEW i \in 0..ro_MaxFiles, Rot!Exists(gs, i) PROVE GoodFile(gs[i], s)
  <2>1. gs[i] = fs[From(i)] /\ From(i) \in 0..ro_MaxFiles
    BY <1>3, <1>5 DEF Rot!Exists
  <2>2. Rot!Exists(fs, From(i))
    BY <1>5, <2>1, Zenon DEF Rot!Exists
  <2> HIDE DEF From
  <2>3. QED
    BY <2>1, <2>2 DEF Arranged
<1>6. ASSUME NEW i \in 0..ro_MaxFiles, NEW j \in 0..(i - 1),
             NEW m \in MessagesIn(gs, i), NEW l \in MessagesIn(gs, j)
      PROVE  m < l
  <2>1. j \in 0..ro_MaxFiles /\ j < i /\ j # ro_MaxFiles
    BY <1>1
  <2>2. Rot!Exists(gs, i) /\ Rot!Exists(gs, j)
    BY <2>1, Zenon DEF MessagesIn
  <2>3. /\ From(i) \in 0..ro_MaxFiles /\ gs[i] = fs[From(i)]
        /\ From(j) \in 0..ro_MaxFiles /\ gs[j] = fs[From(j)]
    BY <1>3, <2>1, <2>2 DEF Rot!Exists
  <2>4. From(j) < From(i)
    BY <1>1, <1>3, <2>1, <2>2 DEF Rot!Exists
  <2> HIDE DEF From
  <2>5. From(j) \in 0..(From(i) - 1)
    BY <2>3, <2>4
  <2>6. m \in MessagesIn(fs, From(i)) /\ l \in MessagesIn(fs, From(j))
    BY <2>3, Zenon DEF MessagesIn, Rot!Exists
  <2>7. QED
    BY <2>3, <2>5, <2>6, Zenon DEF Arranged
<1>7. Arranged(gs, s)
  BY <1>4, <1>5, <1>6, Zenon DEF Arranged
<1>8. QED
  BY <1>2, <1>7

LEMMA EmptiedArranged ==
    ASSUME RotatingParameters, NEW s \in Nat, NEW fs, Arranged(fs, s), NEW n \in 0..ro_MaxFiles,
           NEW e \in {Rot!Missing, <<>>}
    PROVE  Arranged([fs EXCEPT ![n] = e], s)
<1>1. ro_MaxFiles \in Nat /\ fs \in FileTable
  BY DEF RotatingParameters, Arranged
<1>2. PICK gs : gs = [fs EXCEPT ![n] = e]
  OBVIOUS
<1>3. gs \in FileTable
  BY <1>1, <1>2, NoMessages DEF FileTable
<1>4. \A i \in 0..ro_MaxFiles : gs[i] = IF i = n THEN e ELSE fs[i]
  BY <1>1, <1>2 DEF FileTable
<1>5. ASSUME NEW i \in 0..ro_MaxFiles, Rot!Exists(gs, i) PROVE GoodFile(gs[i], s)
  BY <1>4, <1>5, NoMessages DEF Arranged, Rot!Exists
<1>6. ASSUME NEW i \in 0..ro_MaxFiles, NEW m \in MessagesIn(gs, i) PROVE m \in MessagesIn(fs, i)
  <2>1. Rot!Exists(gs, i) /\ \E k \in DOMAIN gs[i] : m = gs[i][k]
    BY Zenon DEF MessagesIn, Elements
  <2>2. gs[i] # <<>>
    BY <2>1
  <2>3. gs[i] = fs[i]
    BY <1>4, <2>1, <2>2, Zenon DEF Rot!Exists
  <2>4. QED
    BY <2>1, <2>3, Zenon DEF MessagesIn, Rot!Exists, Elements
<1>7. ASSUME NEW i \in 0..ro_MaxFiles, NEW j \in 0..(i - 1),
             NEW m \in MessagesIn(gs, i), NEW l \in MessagesIn(gs, j)
      PROVE  m < l
  <2>1. j \in 0..ro_MaxFiles
    BY <1>1
  <2>2. m \in MessagesIn(fs, i) /\ l \in MessagesIn(fs, j)
    BY <1>6, <2>1
  <2>3. QED
    BY <2>2, Zenon DEF Arranged
<1>8. QED
  BY <1>2, <1>3, <1>5, <1>7, Zenon DEF Arranged

LEMMA OpenedArranged ==
    ASSUME RotatingParameters, NEW s \in Nat, NEW fs, Arranged(fs, s), NEW t \in BOOLEAN
    PROVE  Arranged(Rot!Opened(fs, t), s)
<1>1. 0 \in 0..ro_MaxFiles
  BY DEF RotatingParameters
<1>2. QED
  BY <1>1, EmptiedArranged DEF Rot!Opened

LEMMA GoodGrows ==
    ASSUME NEW s \in Nat, NEW w, GoodFile(w, s)
    PROVE  GoodFile(w, s + 1) /\ GoodFile(Append(w, s + 1), s + 1)
<1>1. Len(w) \in Nat /\ w \in [1..Len(w) -> 1..s] /\ w \in Seq(1..s)
  BY DEF GoodFile
<1>2. w \in [1..Len(w) -> 1..(s + 1)]
  BY <1>1
<1>3. w \in Seq(1..(s + 1))
  BY <1>1, <1>2
<1>4. Append(w, s + 1) \in Seq(1..(s + 1))
  BY <1>3
<1>5. ASSUME NEW k \in DOMAIN Append(w, s + 1), NEW l \in DOMAIN Append(w, s + 1), k < l
      PROVE  Append(w, s + 1)[k] < Append(w, s + 1)[l]
  <2>1. k \in 1..(Len(w) + 1) /\ l \in 1..(Len(w) + 1)
    BY <1>3
  <2>2. k \in 1..Len(w) /\ Append(w, s + 1)[k] = w[k] /\ w[k] \in 1..s /\ k \in DOMAIN w
    BY <1>1, <1>3, <1>5, <2>1
  <2>3. CASE l = Len(w) + 1
    BY <1>1, <1>3, <2>2, <2>3
  <2>4. CASE l # Len(w) + 1
    <3>1. l \in DOMAIN w /\ Append(w, s + 1)[l] = w[l]
      BY <1>1, <1>3, <2>1, <2>4
    <3>2. QED
      BY <1>5, <2>2, <3>1 DEF GoodFile
  <2>5. QED
    BY <2>3, <2>4
<1>6. QED
  BY <1>3, <1>4, <1>5 DEF GoodFile

LEMMA ArrangedGrows ==
    ASSUME RotatingParameters, NEW s \in Nat, NEW fs, Arranged(fs, s)
    PROVE  Arranged(fs, s + 1)
BY GoodGrows DEF Arranged

LEMMA WrittenArranged ==
    ASSUME RotatingParameters, NEW s \in Nat, NEW fs, Arranged(fs, s), Rot!Exists(fs, 0)
    PROVE  /\ Arranged(Rot!Written(fs, s + 1), s + 1)
           /\ Rot!Written(fs, s + 1)[0] = Append(fs[0], s + 1)
           /\ \A i \in 1..ro_MaxFiles : Rot!Written(fs, s + 1)[i] = fs[i]
           /\ Rot!Written(fs, s + 1)[0] # Rot!Missing
           /\ MessagesIn(Rot!Written(fs, s + 1), 0) = MessagesIn(fs, 0) \cup {s + 1}
<1>1. ro_MaxFiles \in Nat /\ fs \in FileTable /\ 0 \in 0..ro_MaxFiles
  BY DEF RotatingParameters, Arranged
<1>2. PICK gs : gs = Rot!Written(fs, s + 1)
  OBVIOUS
<1>3. \A i \in 0..ro_MaxFiles : gs[i] = IF i = 0 THEN Append(fs[0], s + 1) ELSE fs[i]
  BY <1>1, <1>2 DEF Rot!Written, FileTable
<1>4. GoodFile(fs[0], s) /\ fs[0] \in Seq(Nat) /\ Append(fs[0], s + 1) \in Seq(Nat)
  BY <1>1 DEF Arranged, FileTable
<1>5. GoodFile(gs[0], s + 1) /\ gs[0] # Rot!Missing
  BY <1>1, <1>3, <1>4, GoodGrows, NotMissing
<1>6. gs \in FileTable
  BY <1>1, <1>2, <1>4 DEF Rot!Written, FileTable
<1>7. ASSUME NEW i \in 0..ro_MaxFiles, Rot!Exists(gs, i) PROVE GoodFile(gs[i], s + 1)
  BY <1>3, <1>5, <1>7, GoodGrows DEF Arranged, Rot!Exists
<1>8. MessagesIn(gs, 0) = MessagesIn(fs, 0) \cup {s + 1}
  <2>1. PICK w \in Seq(Nat) : w = fs[0]
    BY <1>4
  <2>2. gs[0] = Append(w, s + 1)
    BY <1>1, <1>3, <2>1
  <2>3. Elements(Append(w, s + 1)) = Elements(w) \cup {s + 1}
    <3>1. /\ Len(w) \in Nat /\ DOMAIN w = 1..Len(w) /\ DOMAIN Append(w, s + 1) = 1..(Len(w) + 1)
          /\ Append(w, s + 1)[Len(w) + 1] = s + 1
          /\ \A k \in 1..Len(w) : Append(w, s + 1)[k] = w[k]
      OBVIOUS
    <3>2. QED
      BY <3>1 DEF Elements
  <2>4. MessagesIn(gs, 0) = Elements(gs[0])
    BY <1>5, Zenon DEF MessagesIn, Rot!Exists
  <2>5. MessagesIn(fs, 0) = Elements(fs[0])
    BY Zenon DEF MessagesIn
  <2>6. QED
    BY <2>1, <2>2, <2>3, <2>4, <2>5, Zenon
<1>9. \A i \in 1..ro_MaxFiles : gs[i] = fs[i] /\ MessagesIn(gs, i) = MessagesIn(fs, i)
  BY <1>3 DEF MessagesIn, Rot!Exists
<1>10. ASSUME NEW i \in 0..ro_MaxFiles, NEW j \in 0..(i - 1),
              NEW m \in MessagesIn(gs, i), NEW l \in MessagesIn(gs, j)
       PROVE  m < l
  <2>1. i \in 1..ro_MaxFiles /\ (j = 0 \/ j \in 1..ro_MaxFiles)
    BY <1>1
  <2>2. m \in MessagesIn(fs, i)
    BY <1>9, <2>1
  <2>3. CASE l \in MessagesIn(fs, j)
    BY <2>2, <2>3, Zenon DEF Arranged
  <2>4. CASE l \notin MessagesIn(fs, j)
    <3>1. l = s + 1
      BY <1>8, <1>9, <2>1, <2>4
    <3>2. GoodFile(fs[i], s) /\ \E k \in DOMAIN fs[i] : m = fs[i][k]
      BY <2>2 DEF Arranged, MessagesIn, Elements
    <3>3. m \in 1..s
      BY <3>2 DEF GoodFile
    <3>4. QED
      BY <3>1, <3>3
  <2>5. QED
    BY <2>3, <2>4
<1>11. Arranged(gs, s + 1)
  BY <1>6, <1>7, <1>10, Zenon DEF Arranged
<1>12. QED
  BY <1>1, <1>2, <1>3, <1>5, <1>8, <1>9, <1>11

MessagesHeld(fs) == UNION {MessagesIn(fs, i) : i \in 0..ro_MaxFiles}

\* What the files hold if nothing has failed: the latest of s messages.
Retained(fs, s) ==
    /\ \A m \in MessagesHeld(fs) : m..s \subseteq MessagesHeld(fs)
    /\ MessagesHeld(fs) = 1..s \/ \A i \in 0..ro_MaxFiles : Rot!Exists(fs, i)
    /\ \A i \in 0..ro_MaxFiles : \A j \in 0..i : Rot!Exists(fs, i) => Rot!Exists(fs, j)

LEMMA InTheFiles ==
    ASSUME NEW s \in Nat, NEW fs, Arranged(fs, s), NEW i \in 0..ro_MaxFiles, NEW m \in MessagesIn(fs, i)
    PROVE  m \in 1..s
<1>1. GoodFile(fs[i], s) /\ \E k \in DOMAIN fs[i] : m = fs[i][k]
  BY DEF Arranged, MessagesIn, Elements
<1>2. QED
  BY <1>1 DEF GoodFile

LEMMA EmptyHolds == Elements(<<>>) = {}
BY DEF Elements

LEMMA OpenedFile ==
    ASSUME RotatingParameters, NEW fs \in FileTable, NEW t \in BOOLEAN
    PROVE  /\ \A i \in 1..ro_MaxFiles : Rot!Opened(fs, t)[i] = fs[i]
           /\ Rot!Opened(fs, t)[0] = IF t \/ ~Rot!Exists(fs, 0) THEN <<>> ELSE fs[0]
           /\ Rot!Exists(Rot!Opened(fs, t), 0)
<1>1. 0 \in 0..ro_MaxFiles /\ \A i \in 1..ro_MaxFiles : i \in 0..ro_MaxFiles /\ i # 0
  BY DEF RotatingParameters
<1>2. [fs EXCEPT ![0] = <<>>][0] = <<>> /\ \A i \in 1..ro_MaxFiles : [fs EXCEPT ![0] = <<>>][i] = fs[i]
  BY <1>1 DEF FileTable
<1>3. <<>> # Rot!Missing
  BY DEF Rot!Missing
<1>4. CASE t \/ ~Rot!Exists(fs, 0)
  <2>1. Rot!Opened(fs, t) = [fs EXCEPT ![0] = <<>>]
    BY <1>4, Zenon DEF Rot!Opened
  <2>2. QED
    BY <1>2, <1>3, <1>4, <2>1, Zenon DEF Rot!Exists
<1>5. CASE ~(t \/ ~Rot!Exists(fs, 0))
  <2>1. Rot!Opened(fs, t) = fs
    BY <1>5, Zenon DEF Rot!Opened
  <2>2. QED
    BY <1>5, <2>1, Zenon
<1>6. QED
  BY <1>4, <1>5, Zenon

LEMMA RetainedOpened ==
    ASSUME RotatingParameters, NEW s \in Nat, NEW fs \in FileTable, Retained(fs, s)
    PROVE  Retained(Rot!Opened(fs, FALSE), s)
<1>1. PICK gs : gs = Rot!Opened(fs, FALSE)
  OBVIOUS
<1>2. /\ \A i \in 1..ro_MaxFiles : gs[i] = fs[i]
      /\ Rot!Exists(gs, 0) /\ gs[0] = IF Rot!Exists(fs, 0) THEN fs[0] ELSE <<>>
  BY <1>1, OpenedFile
<1>3. \A i \in 0..ro_MaxFiles : i = 0 \/ i \in 1..ro_MaxFiles
  BY DEF RotatingParameters
<1>4. \A i \in 0..ro_MaxFiles : MessagesIn(gs, i) = MessagesIn(fs, i)
  <2>1. MessagesIn(gs, 0) = MessagesIn(fs, 0)
    BY <1>2, EmptyHolds, Zenon DEF MessagesIn
  <2>2. \A i \in 1..ro_MaxFiles : MessagesIn(gs, i) = MessagesIn(fs, i)
    BY <1>2, Zenon DEF MessagesIn, Rot!Exists
  <2>3. QED
    BY <1>3, <2>1, <2>2, Zenon
<1>5. MessagesHeld(gs) = MessagesHeld(fs)
  BY <1>4 DEF MessagesHeld
<1>6. \A i \in 0..ro_MaxFiles : Rot!Exists(fs, i) => Rot!Exists(gs, i)
  BY <1>2, <1>3, Zenon DEF Rot!Exists
<1>7. \A i \in 0..ro_MaxFiles : \A j \in 0..i : Rot!Exists(gs, i) => Rot!Exists(gs, j)
  <2>1. SUFFICES ASSUME NEW i \in 0..ro_MaxFiles, NEW j \in 0..i, Rot!Exists(gs, i) PROVE Rot!Exists(gs, j)
    OBVIOUS
  <2>2. j \in 0..ro_MaxFiles /\ (i = 0 => j = 0)
    BY DEF RotatingParameters
  <2>3. CASE i = 0
    BY <1>2, <2>2, <2>3
  <2>4. CASE i \in 1..ro_MaxFiles
    <3>1. Rot!Exists(fs, i)
      BY <1>2, <2>1, <2>4, Zenon DEF Rot!Exists
    <3>2. Rot!Exists(fs, j)
      BY <3>1, Zenon DEF Retained
    <3>3. QED
      BY <1>6, <2>2, <3>2
  <2>5. QED
    BY <1>3, <2>3, <2>4
<1>8. QED
  BY <1>1, <1>5, <1>6, <1>7, Zenon DEF Retained

LEMMA RetainedRotated ==
    ASSUME RotatingParameters, NEW s \in Nat, NEW fs, Arranged(fs, s), Retained(fs, s)
    PROVE  Retained(Rot!Opened(Shifted(fs, 0), TRUE), s)
<1>1. ro_MaxFiles \in Nat /\ fs \in FileTable
  BY DEF RotatingParameters, Arranged
<1>2. Shifted(fs, 0) \in FileTable
  BY <1>1, ShiftedArranged DEF Arranged
<1>3. PICK gs : gs = Rot!Opened(Shifted(fs, 0), TRUE)
  OBVIOUS
<1>4. gs[0] = <<>> /\ Rot!Exists(gs, 0) /\ \A i \in 1..ro_MaxFiles : gs[i] = Shifted(fs, 0)[i]
  BY <1>2, <1>3, OpenedFile
<1>5. ASSUME NEW i \in 1..ro_MaxFiles PROVE gs[i] = fs[i - 1]
  <2>1. i \in 0..ro_MaxFiles /\ i > 0 /\ ~(i < 0) /\ i - 1 \in 0..i
    BY <1>1
  <2>2. Shifted(fs, 0)[i] = IF Rot!Exists(fs, i - 1) THEN fs[i - 1]
                            ELSE IF i = ro_MaxFiles THEN fs[i] ELSE Rot!Missing
    BY <2>1 DEF Shifted, ShiftedAt
  <2>3. Rot!Exists(fs, i) => Rot!Exists(fs, i - 1)
    BY <2>1 DEF Retained
  <2>4. QED
    BY <1>4, <2>2, <2>3, Zenon DEF Rot!Exists
<1>6. \A i \in 1..ro_MaxFiles : MessagesIn(gs, i) = MessagesIn(fs, i - 1)
  BY <1>5, Zenon DEF MessagesIn, Rot!Exists
<1>7. MessagesIn(gs, 0) = {}
  BY <1>4, EmptyHolds, Zenon DEF MessagesIn
<1>8. ASSUME NEW m \in MessagesHeld(gs)
      PROVE  \E i \in 0..(ro_MaxFiles - 1) : i \in 0..ro_MaxFiles /\ m \in MessagesIn(fs, i)
  <2>1. PICK i \in 0..ro_MaxFiles : m \in MessagesIn(gs, i)
    BY DEF MessagesHeld
  <2>2. i # 0
    BY <1>7, <2>1
  <2>3. i \in 1..ro_MaxFiles /\ i - 1 \in 0..(ro_MaxFiles - 1) /\ i - 1 \in 0..ro_MaxFiles
    BY <1>1, <2>2
  <2>4. QED
    BY <1>6, <2>1, <2>3, Zenon
<1>9. ASSUME NEW i \in 0..(ro_MaxFiles - 1), NEW m \in MessagesIn(fs, i)
      PROVE  m \in MessagesHeld(gs)
  <2>1. i + 1 \in 1..ro_MaxFiles /\ i + 1 \in 0..ro_MaxFiles /\ (i + 1) - 1 = i
    BY <1>1
  <2>2. m \in MessagesIn(gs, i + 1)
    BY <1>6, <2>1
  <2>3. QED
    BY <2>1, <2>2, Zenon DEF MessagesHeld
<1>10. \A m \in MessagesHeld(gs) : m..s \subseteq MessagesHeld(gs)
  <2>1. SUFFICES ASSUME NEW m \in MessagesHeld(gs), NEW k \in m..s PROVE k \in MessagesHeld(gs)
    OBVIOUS
  <2>2. PICK i \in 0..(ro_MaxFiles - 1) : i \in 0..ro_MaxFiles /\ m \in MessagesIn(fs, i)
    BY <1>8
  <2>3. m \in MessagesHeld(fs) /\ m \in 1..s
    BY <2>2, InTheFiles DEF MessagesHeld
  <2>4. k \in MessagesHeld(fs)
    BY <2>3 DEF Retained
  <2>5. PICK j \in 0..ro_MaxFiles : k \in MessagesIn(fs, j)
    BY <2>4 DEF MessagesHeld
  <2>6. j # ro_MaxFiles
    <3>1. SUFFICES ASSUME j = ro_MaxFiles PROVE FALSE
      OBVIOUS
    <3>2. i \in 0..(j - 1)
      BY <3>1
    <3>3. k < m
      BY <2>2, <2>5, <3>2 DEF Arranged
    <3>4. QED
      BY <2>3, <3>3
  <2>7. j \in 0..(ro_MaxFiles - 1)
    BY <1>1, <2>6
  <2>8. QED
    BY <1>9, <2>5, <2>7
<1>11. MessagesHeld(gs) = 1..s \/ \A i \in 0..ro_MaxFiles : Rot!Exists(gs, i)
  <2>1. CASE Rot!Exists(fs, ro_MaxFiles)
    <3>1. \A i \in 0..ro_MaxFiles : Rot!Exists(fs, i)
      BY <1>1, <2>1 DEF Retained
    <3>2. ASSUME NEW i \in 0..ro_MaxFiles PROVE Rot!Exists(gs, i)
      <4>1. CASE i = 0
        BY <1>4, <4>1
      <4>2. CASE i # 0
        <5>1. i \in 1..ro_MaxFiles /\ i - 1 \in 0..ro_MaxFiles
          BY <1>1, <4>2
        <5>2. QED
          BY <1>5, <3>1, <5>1, Zenon DEF Rot!Exists
      <4>3. QED
        BY <4>1, <4>2
    <3>3. QED
      BY <3>2
  <2>2. CASE ~Rot!Exists(fs, ro_MaxFiles)
    <3>1. MessagesHeld(fs) = 1..s
      BY <1>1, <2>2 DEF Retained
    <3>2. \A i \in 0..ro_MaxFiles : i = ro_MaxFiles \/ i \in 0..(ro_MaxFiles - 1)
      BY <1>1
    <3>3. MessagesIn(fs, ro_MaxFiles) = {}
      BY <2>2, Zenon DEF MessagesIn
    <3>4. ASSUME NEW m \in MessagesHeld(fs) PROVE m \in MessagesHeld(gs)
      <4>1. PICK i \in 0..ro_MaxFiles : m \in MessagesIn(fs, i)
        BY DEF MessagesHeld
      <4>2. i \in 0..(ro_MaxFiles - 1)
        BY <3>2, <3>3, <4>1
      <4>3. QED
        BY <1>9, <4>1, <4>2
    <3>5. ASSUME NEW m \in MessagesHeld(gs) PROVE m \in MessagesHeld(fs)
      BY <1>8, Zenon DEF MessagesHeld
    <3>6. QED
      BY <3>1, <3>4, <3>5
  <2>3. QED
    BY <2>1, <2>2
<1>12. ASSUME NEW i \in 0..ro_MaxFiles, NEW j \in 0..i, Rot!Exists(gs, i) PROVE Rot!Exists(gs, j)
  <2>1. CASE j = 0
    BY <1>4, <2>1
  <2>2. CASE j # 0
    <3>1. i \in 1..ro_MaxFiles /\ j \in 1..ro_MaxFiles /\ j - 1 \in 0..(i - 1) /\ i - 1 \in 0..ro_MaxFiles
      BY <1>1, <2>2
    <3>2. Rot!Exists(fs, i - 1)
      BY <1>5, <1>12, <3>1, Zenon DEF Rot!Exists
    <3>3. Rot!Exists(fs, j - 1)
      BY <3>1, <3>2, Zenon DEF Retained
    <3>4. QED
      BY <1>5, <3>1, <3>3, Zenon DEF Rot!Exists
  <2>3. QED
    BY <2>1, <2>2
<1>13. Retained(gs, s)
  BY <1>10, <1>11, <1>12, Zenon DEF Retained
<1>14. QED
  BY <1>3, <1>13

LEMMA RetainedWritten ==
    ASSUME RotatingParameters, NEW s \in Nat, NEW fs, Arranged(fs, s), Rot!Exists(fs, 0), Retained(fs, s)
    PROVE  Retained(Rot!Written(fs, s + 1), s + 1)
<1>1. ro_MaxFiles \in Nat /\ fs \in FileTable
  BY DEF RotatingParameters, Arranged
<1>2. PICK gs : gs = Rot!Written(fs, s + 1)
  OBVIOUS
<1>3. /\ \A i \in 1..ro_MaxFiles : gs[i] = fs[i]
      /\ gs[0] # Rot!Missing /\ MessagesIn(gs, 0) = MessagesIn(fs, 0) \cup {s + 1}
  BY <1>2, WrittenArranged
<1>4. \A i \in 0..ro_MaxFiles : i = 0 \/ i \in 1..ro_MaxFiles
  BY <1>1
<1>5. \A i \in 0..ro_MaxFiles : Rot!Exists(gs, i) <=> Rot!Exists(fs, i)
  <2>1. \A i \in 1..ro_MaxFiles : Rot!Exists(gs, i) <=> Rot!Exists(fs, i)
    BY <1>3, Zenon DEF Rot!Exists
  <2>2. Rot!Exists(gs, 0)
    BY <1>3, Zenon DEF Rot!Exists
  <2>3. QED
    BY <1>4, <2>1, <2>2
<1>6. \A i \in 1..ro_MaxFiles : MessagesIn(gs, i) = MessagesIn(fs, i)
  BY <1>3, Zenon DEF MessagesIn, Rot!Exists
<1>7. MessagesHeld(gs) = MessagesHeld(fs) \cup {s + 1}
  <2>1. 0 \in 0..ro_MaxFiles
    BY <1>1
  <2>2. ASSUME NEW m \in MessagesHeld(gs) PROVE m \in MessagesHeld(fs) \cup {s + 1}
    <3>1. PICK i \in 0..ro_MaxFiles : m \in MessagesIn(gs, i)
      BY DEF MessagesHeld
    <3>2. m = s + 1 \/ m \in MessagesIn(fs, i)
      BY <1>3, <1>4, <1>6, <3>1
    <3>3. QED
      BY <3>2 DEF MessagesHeld
  <2>3. ASSUME NEW m \in MessagesHeld(fs) PROVE m \in MessagesHeld(gs)
    <3>1. PICK i \in 0..ro_MaxFiles : m \in MessagesIn(fs, i)
      BY DEF MessagesHeld
    <3>2. m \in MessagesIn(gs, i)
      BY <1>3, <1>4, <1>6, <3>1
    <3>3. QED
      BY <3>2 DEF MessagesHeld
  <2>4. s + 1 \in MessagesHeld(gs)
    BY <1>3, <2>1 DEF MessagesHeld
  <2>5. QED
    BY <2>2, <2>3, <2>4
<1>8. \A m \in MessagesHeld(fs) : m \in 1..s
  BY InTheFiles DEF MessagesHeld
<1>9. ASSUME NEW m \in MessagesHeld(gs), NEW k \in m..(s + 1) PROVE k \in MessagesHeld(gs)
  <2>1. CASE m = s + 1
    <3>1. k = s + 1
      BY <2>1
    <3>2. QED
      BY <1>7, <3>1
  <2>2. CASE m # s + 1
    <3>1. m \in MessagesHeld(fs) /\ m \in 1..s
      BY <1>7, <1>8, <2>2
    <3>2. k = s + 1 \/ k \in m..s
      BY <3>1
    <3>3. k = s + 1 \/ k \in MessagesHeld(fs)
      BY <3>1, <3>2 DEF Retained
    <3>4. QED
      BY <1>7, <3>3
  <2>3. QED
    BY <2>1, <2>2
<1>10. MessagesHeld(gs) = 1..(s + 1) \/ \A i \in 0..ro_MaxFiles : Rot!Exists(gs, i)
  <2>1. CASE MessagesHeld(fs) = 1..s
    BY <1>7, <2>1
  <2>2. CASE \A i \in 0..ro_MaxFiles : Rot!Exists(fs, i)
    BY <1>5, <2>2
  <2>3. QED
    BY <2>1, <2>2 DEF Retained
<1>11. ASSUME NEW i \in 0..ro_MaxFiles, NEW j \in 0..i, Rot!Exists(gs, i) PROVE Rot!Exists(gs, j)
  <2>1. j \in 0..ro_MaxFiles
    BY <1>1
  <2>2. Rot!Exists(fs, i)
    BY <1>5, <1>11
  <2>3. QED
    BY <1>5, <2>1, <2>2 DEF Retained
<1>12. Retained(gs, s + 1)
  BY <1>9, <1>10, <1>11 DEF Retained
<1>13. QED
  BY <1>2, <1>12

\* What log.txt is not: longer than max_size_, if it holds two messages.
Short(fs, z) == Rot!Exists(fs, 0) => Len(fs[0]) <= 1 \/ Rot!Total(fs[0], z) <= ro_MaxSize

Kinds == /\ ro_sent \in 0..ro_MaxMessages /\ ro_sizes \in [1..ro_sent -> ro_Sizes] /\ ro_current_size_ \in Nat
         /\ ro_faults \in 0..ro_MaxFaults /\ ro_opens \in 0..ro_MaxOpens
         /\ ro_isOpen \in BOOLEAN /\ ro_alive \in BOOLEAN

\* A sink that has lost its file knows that it must rotate, and that no file is longer.
Known == /\ ~ro_wrote
         /\ ro_alive => ro_isOpen \/ ro_current_size_ > ro_MaxSize
         /\ ro_isOpen => /\ ro_alive /\ Rot!Exists(ro_files, 0)
                         /\ Rot!Total(ro_files[0], ro_sizes) <= ro_current_size_

Filed == /\ Arranged(ro_files, ro_sent) /\ Short(ro_files, ro_sizes)
         /\ ro_faults = 0 => Retained(ro_files, ro_sent)

RotInv == Kinds /\ Known /\ Filed

LEMMA RotatingFollows ==
    ASSUME RotatingParameters, RotInv
    PROVE  Rot!TypeOK /\ Rot!RotatingKeepsLatest /\ Rot!NeverWritesClosed
<1>1. \A i \in 0..ro_MaxFiles : Rot!Exists(ro_files, i) => ro_files[i] \in Seq(1..ro_sent)
  BY DEF RotInv, Filed, Arranged, GoodFile
<1>2. Rot!TypeOK
  BY <1>1 DEF RotInv, Filed, Kinds, Known, Rot!TypeOK
<1>3. \A i \in 0..ro_MaxFiles : Rot!MessagesOf(i) = MessagesIn(ro_files, i)
  BY Zenon DEF Rot!MessagesOf, MessagesIn, Elements
<1>4. Rot!OnDisk = MessagesHeld(ro_files)
  BY <1>3 DEF Rot!OnDisk, MessagesHeld
<1>5. ASSUME NEW i \in 0..ro_MaxFiles
      PROVE /\ Rot!Exists(ro_files, i) =>
                 \A k, l \in DOMAIN ro_files[i] : k < l => ro_files[i][k] < ro_files[i][l]
            /\ \A j \in 0..(i - 1) : \A m \in Rot!MessagesOf(i), n \in Rot!MessagesOf(j) : m < n
  <2>1. \A j \in 0..(i - 1) : j \in 0..ro_MaxFiles
    BY DEF RotatingParameters
  <2>2. Arranged(ro_files, ro_sent)
    BY DEF RotInv, Filed
  <2>3. QED
    BY <1>3, <2>1, <2>2 DEF Arranged, GoodFile
<1>6. ro_faults = 0 => /\ \A m \in Rot!OnDisk : m..ro_sent \subseteq Rot!OnDisk
                       /\ Rot!OnDisk = 1..ro_sent \/ \A i \in 0..ro_MaxFiles : Rot!Exists(ro_files, i)
  BY <1>4 DEF RotInv, Filed, Retained
<1>7. /\ Rot!Exists(ro_files, 0) => Len(ro_files[0]) <= 1 \/ Rot!Length(ro_files[0]) <= ro_MaxSize
      /\ ro_isOpen => Rot!Length(ro_files[0]) <= ro_current_size_
  BY DEF RotInv, Filed, Short, Known, Rot!Length
<1>8. Rot!RotatingKeepsLatest
  BY <1>5, <1>6, <1>7, Zenon DEF Rot!RotatingKeepsLatest
<1>9. QED
  BY <1>2, <1>8 DEF RotInv, Filed, Known, Rot!NeverWritesClosed

LEMMA MembersOf == ASSUME NEW S, NEW w \in Seq(S) PROVE \A k \in 1..Len(w) : w[k] \in S
OBVIOUS

\* The messages of log.txt have lengths.
LEMMA HasLengths ==
    ASSUME RotatingParameters, Kinds, Arranged(ro_files, ro_sent), Rot!Exists(ro_files, 0)
    PROVE  /\ ro_files[0] \in Seq(Nat) /\ \A k \in 1..Len(ro_files[0]) : ro_files[0][k] \in 1..ro_sent
           /\ \A k \in 1..Len(ro_files[0]) : ro_sizes[ro_files[0][k]] \in Nat
           /\ Rot!Total(ro_files[0], ro_sizes) \in Nat
<1>1. 0 \in 0..ro_MaxFiles
  BY DEF RotatingParameters
<1>2. GoodFile(ro_files[0], ro_sent) /\ ro_files[0] \in Seq(Nat)
  BY <1>1 DEF Arranged, FileTable
<1>3. PICK w \in Seq(Nat) : w = ro_files[0] /\ w \in Seq(1..ro_sent)
  BY <1>2 DEF GoodFile
<1>4. \A k \in 1..Len(w) : w[k] \in 1..ro_sent
  BY <1>3, MembersOf, Zenon
<1>5. \A m \in 1..ro_sent : ro_sizes[m] \in Nat
  BY DEF Kinds, RotatingParameters
<1>6. \A k \in 1..Len(w) : ro_sizes[w[k]] \in Nat
  BY <1>4, <1>5
<1>7. Rot!Total(w, ro_sizes) \in Nat
  BY <1>6, TotalDepends
<1>8. QED
  BY <1>2, <1>3, <1>4, <1>6, <1>7

\* What rotate_() may leave.
LEMMA RotationsAre ==
    ASSUME RotatingParameters, Kinds, Arranged(ro_files, ro_sent), NEW r \in Rot!Rotations
    PROVE  /\ r.ok \in BOOLEAN /\ r.open \in BOOLEAN /\ r.reset \in BOOLEAN
           /\ Arranged(r.files, ro_sent)
           /\ r.ok => r.open /\ r.files = Rot!Opened(Shifted(ro_files, 0), TRUE)
           /\ r.open => Rot!Exists(r.files, 0) /\ r.files[0] = <<>> /\ r.ok = ~r.reset
           /\ ~r.ok => ro_faults # ro_MaxFaults
           /\ ~r.open => ~r.reset /\ (Rot!Exists(r.files, 0) => r.files[0] = ro_files[0])
<1>1. ro_MaxFiles \in Nat /\ ro_sent \in Nat /\ ro_files \in FileTable /\ 0 \in 0..ro_MaxFiles
  BY DEF RotatingParameters, Kinds, Arranged
<1>2. ASSUME NEW n \in 0..ro_MaxFiles
      PROVE  /\ Rot!RenamedDownTo(ro_files, n) = Shifted(ro_files, n)
             /\ Arranged(Shifted(ro_files, n), ro_sent) /\ Shifted(ro_files, n) \in FileTable
             /\ Rot!Exists(Shifted(ro_files, n), 0) => Shifted(ro_files, n)[0] = ro_files[0]
  <2>1. Rot!RenamedDownTo(ro_files, n) = Shifted(ro_files, n)
    BY <1>1, RenamedIsShifted
  <2>2. Arranged(Shifted(ro_files, n), ro_sent)
    BY <1>1, ShiftedArranged
  <2>3. Shifted(ro_files, n)[0] \in {Rot!Missing, ro_files[0]}
    BY <1>1 DEF Shifted, ShiftedAt
  <2>4. QED
    BY <2>1, <2>2, <2>3, Zenon DEF Rot!Exists, Arranged
<1>3. CASE r = [files |-> Rot!Opened(Rot!RenamedDownTo(ro_files, 0), TRUE),
              open |-> TRUE, ok |-> TRUE, reset |-> FALSE]
  <2>1. r.files = Rot!Opened(Shifted(ro_files, 0), TRUE) /\ r.open = TRUE /\ r.ok = TRUE /\ r.reset = FALSE
    BY <1>1, <1>2, <1>3
  <2>2. Arranged(r.files, ro_sent)
    BY <1>1, <1>2, <2>1, OpenedArranged
  <2>3. PICK gs \in FileTable : gs = Shifted(ro_files, 0)
    BY <1>1, <1>2
  <2>4. Rot!Exists(Rot!Opened(gs, TRUE), 0) /\ Rot!Opened(gs, TRUE)[0] = <<>>
    BY OpenedFile
  <2>5. QED
    BY <2>1, <2>2, <2>3, <2>4, Zenon DEF Rot!Exists
<1>4. CASE /\ ro_faults # ro_MaxFaults
           /\ r = [files |-> Rot!RenamedDownTo(ro_files, 0), open |-> FALSE, ok |-> FALSE, reset |-> FALSE]
  <2>1. r.files = Shifted(ro_files, 0) /\ r.open = FALSE /\ r.ok = FALSE /\ r.reset = FALSE
    BY <1>1, <1>2, <1>4
  <2>2. QED
    BY <1>1, <1>2, <1>4, <2>1, Zenon
<1>5. ASSUME NEW i \in 1..ro_MaxFiles, ro_faults # ro_MaxFaults,
             \/ r = [files |-> Rot!Opened(Rot!RenameFailed(Rot!RenamedDownTo(ro_files, i), i), TRUE),
                     open |-> TRUE, ok |-> FALSE, reset |-> TRUE]
             \/ r = [files |-> Rot!RenameFailed(Rot!RenamedDownTo(ro_files, i), i),
                     open |-> FALSE, ok |-> FALSE, reset |-> FALSE]
      PROVE  /\ r.ok = FALSE /\ r.open \in BOOLEAN /\ r.reset = r.open
             /\ Arranged(r.files, ro_sent)
             /\ r.open => Rot!Exists(r.files, 0) /\ r.files[0] = <<>>
             /\ ~r.open => (Rot!Exists(r.files, 0) => r.files[0] = ro_files[0])
  <2>1. i \in 0..ro_MaxFiles /\ i # 0
    BY <1>1
  <2>2. PICK gs : gs = Rot!RenameFailed(Shifted(ro_files, i), i)
    OBVIOUS
  <2>3. gs = Rot!RenameFailed(Rot!RenamedDownTo(ro_files, i), i)
    BY <1>2, <2>1, <2>2, Zenon
  <2>4. Arranged(gs, ro_sent)
    BY <1>1, <1>2, <2>1, <2>2, EmptiedArranged DEF Rot!RenameFailed
  <2>5. gs[0] = Shifted(ro_files, i)[0]
    BY <1>1, <1>2, <2>1, <2>2 DEF Rot!RenameFailed, FileTable
  <2>6. Rot!Exists(gs, 0) => gs[0] = ro_files[0]
    BY <1>2, <2>1, <2>5, Zenon DEF Rot!Exists
  <2>7. PICK hs : hs = Rot!Opened(gs, TRUE)
    OBVIOUS
  <2>8. Arranged(hs, ro_sent) /\ Rot!Exists(hs, 0) /\ hs[0] = <<>>
    <3>1. gs \in FileTable
      BY <2>4, Zenon DEF Arranged
    <3>2. Arranged(Rot!Opened(gs, TRUE), ro_sent)
      BY <1>1, <2>4, OpenedArranged
    <3>3. Rot!Exists(Rot!Opened(gs, TRUE), 0) /\ Rot!Opened(gs, TRUE)[0] = <<>>
      BY <3>1, OpenedFile
    <3>4. QED
      BY <2>7, <3>2, <3>3, Zenon
  <2>9. \/ r = [files |-> hs, open |-> TRUE, ok |-> FALSE, reset |-> TRUE]
        \/ r = [files |-> gs, open |-> FALSE, ok |-> FALSE, reset |-> FALSE]
    BY <1>5, <2>3, <2>7, Zenon
  <2>10. \/ r.files = hs /\ r.open = TRUE /\ r.ok = FALSE /\ r.reset = TRUE
         \/ r.files = gs /\ r.open = FALSE /\ r.ok = FALSE /\ r.reset = FALSE
    BY <2>9
  <2>11. QED
    BY <2>4, <2>6, <2>8, <2>10, Zenon
<1>6. \/ r = [files |-> Rot!Opened(Rot!RenamedDownTo(ro_files, 0), TRUE),
              open |-> TRUE, ok |-> TRUE, reset |-> FALSE]
      \/ /\ ro_faults # ro_MaxFaults
         /\ r = [files |-> Rot!RenamedDownTo(ro_files, 0), open |-> FALSE, ok |-> FALSE, reset |-> FALSE]
      \/ /\ ro_faults # ro_MaxFaults
         /\ \E i \in 1..ro_MaxFiles :
              \/ r = [files |-> Rot!Opened(Rot!RenameFailed(Rot!RenamedDownTo(ro_files, i), i), TRUE),
                      open |-> TRUE, ok |-> FALSE, reset |-> TRUE]
              \/ r = [files |-> Rot!RenameFailed(Rot!RenamedDownTo(ro_files, i), i),
                      open |-> FALSE, ok |-> FALSE, reset |-> FALSE]
  BY Zenon DEF Rot!Rotations
<1>7. QED
  BY <1>3, <1>4, <1>5, <1>6

LEMMA RotatingBegins == ASSUME RotatingParameters, Rot!Init PROVE RotInv
<1>1. \A i \in 0..ro_MaxFiles : ro_files[i] = Rot!Missing /\ ~Rot!Exists(ro_files, i)
  BY DEF Rot!Init, Rot!Exists
<1>2. ro_files \in FileTable
  BY DEF Rot!Init, FileTable, Rot!Missing
<1>3. \A i \in 0..ro_MaxFiles : MessagesIn(ro_files, i) = {}
  BY <1>1 DEF MessagesIn
<1>4. Arranged(ro_files, 0)
  <2>1. ASSUME NEW i \in 0..ro_MaxFiles, NEW j \in 0..(i - 1),
               NEW m \in MessagesIn(ro_files, i), NEW l \in MessagesIn(ro_files, j)
        PROVE  m < l
    BY <1>3
  <2>2. QED
    BY <1>1, <1>2, <2>1 DEF Arranged
<1>5. MessagesHeld(ro_files) = {}
  BY <1>3 DEF MessagesHeld
<1>6. Retained(ro_files, 0)
  BY <1>1, <1>5 DEF Retained
<1>7. 0 \in 0..ro_MaxFiles
  BY DEF RotatingParameters
<1>8. Kinds /\ ro_sent = 0
  <2>1. /\ ro_sizes = <<>> /\ ro_sent = 0 /\ ro_current_size_ = 0 /\ ro_faults = 0 /\ ro_opens = 0
        /\ ro_isOpen = FALSE /\ ro_alive = FALSE
    BY DEF Rot!Init
  <2>2. ro_sizes \in [1..ro_sent -> ro_Sizes]
    BY <2>1
  <2>3. ro_MaxMessages \in Nat /\ ro_MaxFaults \in Nat /\ ro_MaxOpens \in Nat
    BY DEF RotatingParameters
  <2>4. ro_isOpen \in BOOLEAN /\ ro_alive \in BOOLEAN
    BY <2>1, Zenon
  <2>5. ro_sent \in 0..ro_MaxMessages /\ ro_current_size_ \in Nat
    BY <2>1, <2>3
  <2>6. ro_faults \in 0..ro_MaxFaults /\ ro_opens \in 0..ro_MaxOpens
    BY <2>1, <2>3
  <2>7. QED
    BY <2>1, <2>2, <2>4, <2>5, <2>6, Zenon DEF Kinds
<1>9. Known
  BY DEF Rot!Init, Known
<1>10. Short(ro_files, ro_sizes)
  BY <1>1, <1>7 DEF Short
<1>11. QED
  BY <1>4, <1>6, <1>8, <1>9, <1>10 DEF RotInv, Filed

LEMMA ConstructKeeps == ASSUME RotatingParameters, RotInv, Rot!Construct PROVE RotInv'
<1>1. /\ ro_opens < ro_MaxOpens /\ ro_opens' = ro_opens + 1 /\ ro_files' = Rot!Opened(ro_files, FALSE)
      /\ ro_isOpen' = TRUE /\ ro_alive' = TRUE /\ ro_current_size_' = Rot!Length(ro_files'[0])
      /\ ro_sent' = ro_sent /\ ro_sizes' = ro_sizes /\ ro_faults' = ro_faults /\ ro_wrote' = ro_wrote
  BY DEF Rot!Construct
<1>2. /\ Kinds /\ Known /\ Arranged(ro_files, ro_sent) /\ Short(ro_files, ro_sizes) /\ ro_sent \in Nat
      /\ ro_faults = 0 => Retained(ro_files, ro_sent)
  BY DEF RotInv, Filed, Kinds, RotatingParameters
<1>3. PICK gs : gs = Rot!Opened(ro_files, FALSE)
  OBVIOUS
<1>4. ro_files \in FileTable
  BY <1>2 DEF Arranged
<1>5. Arranged(gs, ro_sent)
  BY <1>2, <1>3, OpenedArranged
<1>6. ro_faults = 0 => Retained(gs, ro_sent)
  BY <1>2, <1>3, <1>4, RetainedOpened
<1>7. Rot!Exists(gs, 0) /\ gs[0] = IF Rot!Exists(ro_files, 0) THEN ro_files[0] ELSE <<>>
  BY <1>3, <1>4, OpenedFile
<1>8. Short(gs, ro_sizes) /\ Rot!Total(gs[0], ro_sizes) \in Nat
  <2>1. CASE Rot!Exists(ro_files, 0)
    BY <1>2, <1>7, <2>1, HasLengths, Zenon DEF Short
  <2>2. CASE ~Rot!Exists(ro_files, 0)
    <3>1. gs[0] = <<>>
      BY <1>7, <2>2
    <3>2. Len(gs[0]) = 0 /\ Rot!Total(gs[0], ro_sizes) = 0
      BY <3>1, TotalNone
    <3>3. QED
      BY <3>2 DEF Short
  <2>3. QED
    BY <2>1, <2>2
<1>9. ro_files' = gs
  BY <1>1, <1>3
<1>10. Kinds'
  <2>1. ro_current_size_' \in Nat
    BY <1>1, <1>8, <1>9, Zenon DEF Rot!Length
  <2>2. ro_opens' \in 0..ro_MaxOpens
    BY <1>1, <1>2 DEF Kinds, RotatingParameters
  <2>3. ro_isOpen' \in BOOLEAN /\ ro_alive' \in BOOLEAN
    BY <1>1
  <2>4. /\ ro_sent' \in 0..ro_MaxMessages /\ ro_sizes' \in [1..ro_sent' -> ro_Sizes]
        /\ ro_faults' \in 0..ro_MaxFaults
    BY <1>1, <1>2, Zenon DEF Kinds
  <2>5. QED
    BY <2>1, <2>2, <2>3, <2>4, Zenon DEF Kinds
<1>11. Known'
  <2>1. PICK t \in Nat : t = Rot!Total(gs[0], ro_sizes)
    BY <1>8
  <2>2. ro_current_size_' = t /\ Rot!Total(ro_files'[0], ro_sizes') = t
    BY <1>1, <1>9, <2>1, Zenon DEF Rot!Length
  <2>3. Rot!Exists(ro_files, 0)'
    BY <1>7, <1>9, Zenon DEF Rot!Exists
  <2>4. Rot!Total(ro_files'[0], ro_sizes') <= ro_current_size_'
    BY <2>2
  <2>5. QED
    BY <1>1, <1>2, <2>3, <2>4, Zenon DEF Known
<1>12. Filed'
  BY <1>1, <1>5, <1>6, <1>8, <1>9, Zenon DEF Filed
<1>13. QED
  BY <1>10, <1>11, <1>12 DEF RotInv

LEMMA ConstructRotatingKeeps == ASSUME RotatingParameters, RotInv, Rot!ConstructRotating PROVE RotInv'
<1>1. /\ ro_opens < ro_MaxOpens /\ ro_opens' = ro_opens + 1 /\ Rot!Exists(ro_files, 0)
      /\ ro_sent' = ro_sent /\ ro_sizes' = ro_sizes /\ ro_wrote' = ro_wrote
  BY DEF Rot!ConstructRotating
<1>2. /\ Kinds /\ Known /\ Arranged(ro_files, ro_sent) /\ Short(ro_files, ro_sizes) /\ ro_sent \in Nat
      /\ ro_faults = 0 => Retained(ro_files, ro_sent)
  BY DEF RotInv, Filed, Kinds, RotatingParameters
<1>3. PICK r \in Rot!Rotations : /\ ro_files' = r.files /\ ro_isOpen' = r.ok /\ ro_alive' = r.ok
                                 /\ ro_current_size_' = Rot!Length(ro_files[0]) /\ Rot!Fault(~r.ok)
  BY DEF Rot!ConstructRotating
<1>4. /\ r.ok \in BOOLEAN /\ r.open \in BOOLEAN /\ r.reset \in BOOLEAN
      /\ Arranged(r.files, ro_sent)
      /\ r.ok => r.open /\ r.files = Rot!Opened(Shifted(ro_files, 0), TRUE)
      /\ r.open => Rot!Exists(r.files, 0) /\ r.files[0] = <<>> /\ r.ok = ~r.reset
      /\ ~r.ok => ro_faults # ro_MaxFaults
      /\ ~r.open => ~r.reset /\ (Rot!Exists(r.files, 0) => r.files[0] = ro_files[0])
  BY <1>2, RotationsAre
<1>5. PICK gs, ok : gs = r.files /\ ok = r.ok /\ ok \in BOOLEAN
  BY <1>4, Zenon
<1>6. ro_faults' = (IF ok THEN ro_faults ELSE ro_faults + 1) /\ (~ok => ro_faults # ro_MaxFaults)
  BY <1>3, <1>4, <1>5 DEF Rot!Fault
<1>7. Kinds'
  <2>1. Rot!Length(ro_files[0]) \in Nat
    BY <1>1, <1>2, HasLengths DEF Rot!Length
  <2>2. ro_isOpen' \in BOOLEAN /\ ro_alive' \in BOOLEAN /\ ro_current_size_' \in Nat
    BY <1>3, <1>4, <2>1
  <2>3. ro_faults' \in 0..ro_MaxFaults
    BY <1>2, <1>6 DEF Kinds, RotatingParameters
  <2>4. ro_opens' \in 0..ro_MaxOpens
    BY <1>1, <1>2 DEF Kinds, RotatingParameters
  <2>5. ro_sent' \in 0..ro_MaxMessages /\ ro_sizes' \in [1..ro_sent' -> ro_Sizes]
    BY <1>1, <1>2, Zenon DEF Kinds
  <2>6. QED
    BY <2>2, <2>3, <2>4, <2>5, Zenon DEF Kinds
<1>8. Rot!Exists(gs, 0) => gs[0] = <<>> \/ gs[0] = ro_files[0]
  BY <1>4, <1>5, Zenon
<1>9. Len(<<>>) = 0 /\ Rot!Total(<<>>, ro_sizes) = 0
  BY TotalNone
<1>10. Short(gs, ro_sizes)
  <2>1. CASE gs[0] = <<>>
    <3>1. Len(gs[0]) = 0
      BY <1>9, <2>1, Zenon
    <3>2. QED
      BY <3>1 DEF Short
  <2>2. CASE gs[0] = ro_files[0]
    BY <1>1, <1>2, <2>2, Zenon DEF Short
  <2>3. CASE ~Rot!Exists(gs, 0)
    BY <2>3 DEF Short
  <2>4. QED
    BY <1>8, <2>1, <2>2, <2>3
<1>11. ro_faults' = 0 => Retained(gs, ro_sent)
  <2>1. CASE ok
    <3>1. ro_faults' = 0 => Retained(ro_files, ro_sent)
      BY <1>2, <1>6, <2>1
    <3>2. gs = Rot!Opened(Shifted(ro_files, 0), TRUE)
      BY <1>4, <1>5, <2>1
    <3>3. QED
      BY <1>2, <3>1, <3>2, RetainedRotated
  <2>2. CASE ~ok
    BY <1>2, <1>6, <2>2 DEF Kinds
  <2>3. QED
    BY <2>1, <2>2
<1>12. ro_files' = gs /\ ro_isOpen' = ok /\ ro_alive' = ok
  BY <1>3, <1>5
<1>13. Known'
  <2>1. CASE ok
    <3>1. Rot!Exists(gs, 0) /\ gs[0] = <<>>
      BY <1>4, <1>5, <2>1, Zenon
    <3>2. Rot!Total(ro_files'[0], ro_sizes') = 0
      BY <1>1, <1>9, <1>12, <3>1, Zenon
    <3>3. ro_current_size_' \in Nat
      BY <1>7 DEF Kinds
    <3>4. Rot!Exists(ro_files, 0)'
      BY <1>12, <3>1, Zenon DEF Rot!Exists
    <3>5. QED
      BY <1>1, <1>2, <1>12, <2>1, <3>2, <3>3, <3>4 DEF Known
  <2>2. CASE ~ok
    BY <1>1, <1>2, <1>12, <2>2 DEF Known
  <2>3. QED
    BY <2>1, <2>2
<1>14. Filed'
  <2>1. Arranged(gs, ro_sent)
    BY <1>4, <1>5, Zenon
  <2>2. QED
    BY <1>1, <1>10, <1>11, <1>12, <2>1, Zenon DEF Filed
<1>15. QED
  BY <1>7, <1>13, <1>14 DEF RotInv

LEMMA DestructKeeps == ASSUME RotatingParameters, RotInv, Rot!Destruct PROVE RotInv'
<1>1. /\ ro_alive' = FALSE /\ ro_isOpen' = FALSE
      /\ ro_files' = ro_files /\ ro_current_size_' = ro_current_size_ /\ ro_sent' = ro_sent
      /\ ro_sizes' = ro_sizes /\ ro_faults' = ro_faults /\ ro_opens' = ro_opens /\ ro_wrote' = ro_wrote
  BY DEF Rot!Destruct
<1>2. Kinds'
  BY <1>1 DEF RotInv, Kinds
<1>3. Known'
  BY <1>1 DEF RotInv, Known
<1>4. Filed'
  BY <1>1, Zenon DEF RotInv, Filed
<1>5. QED
  BY <1>2, <1>3, <1>4 DEF RotInv

\* One message more, of this size.
LEMMA OneMore ==
    ASSUME RotatingParameters, Kinds, NEW size \in ro_Sizes, ro_sent < ro_MaxMessages,
           ro_sent' = ro_sent + 1, ro_sizes' = Append(ro_sizes, size)
    PROVE  /\ ro_sent' \in 0..ro_MaxMessages /\ ro_sizes' \in [1..ro_sent' -> ro_Sizes]
           /\ ro_sizes'[ro_sent + 1] = size /\ \A k \in 1..ro_sent : ro_sizes'[k] = ro_sizes[k]
           /\ ro_sent \in Nat /\ size \in Nat
<1>1. ro_sent \in Nat /\ size \in Nat /\ ro_MaxMessages \in Nat
  BY DEF Kinds, RotatingParameters
<1>2. PICK n, z : n \in Nat /\ n = ro_sent /\ z = ro_sizes /\ z \in [1..n -> ro_Sizes]
  BY <1>1 DEF Kinds
<1>3. z \in Seq(ro_Sizes) /\ Len(z) = n
  BY <1>2
<1>4. /\ Append(z, size) \in Seq(ro_Sizes) /\ Len(Append(z, size)) = n + 1
      /\ Append(z, size)[n + 1] = size /\ \A k \in 1..n : Append(z, size)[k] = z[k]
  BY <1>3
<1>5. Append(z, size) \in [1..(n + 1) -> ro_Sizes]
  <2>1. PICK w \in Seq(ro_Sizes) : w = Append(z, size) /\ Len(w) = n + 1
    BY <1>4
  <2>2. w \in [1..Len(w) -> ro_Sizes]
    OBVIOUS
  <2>3. QED
    BY <2>1, <2>2, Zenon
<1>6. ro_sizes' = Append(z, size) /\ ro_sent' = n + 1
  BY <1>2
<1>7. QED
  BY <1>1, <1>2, <1>4, <1>5, <1>6

\* What is written before the new message does not depend on its length.
LEMMA SameTotal ==
    ASSUME RotatingParameters, Kinds, NEW size \in ro_Sizes, ro_sent < ro_MaxMessages,
           ro_sent' = ro_sent + 1, ro_sizes' = Append(ro_sizes, size),
           Arranged(ro_files, ro_sent), Rot!Exists(ro_files, 0)
    PROVE  /\ Rot!Total(ro_files[0], ro_sizes') = Rot!Total(ro_files[0], ro_sizes)
           /\ Rot!Total(ro_files[0], ro_sizes) \in Nat
           /\ Rot!Total(Append(ro_files[0], ro_sent + 1), ro_sizes') = Rot!Total(ro_files[0], ro_sizes) + size
<1>1. /\ ro_sizes'[ro_sent + 1] = size /\ \A k \in 1..ro_sent : ro_sizes'[k] = ro_sizes[k]
      /\ ro_sent \in Nat /\ size \in Nat
  BY OneMore
<1>2. PICK w, z, y, n : /\ w = ro_files[0] /\ z = ro_sizes /\ y = ro_sizes' /\ n = ro_sent + 1
  OBVIOUS
<1>3. /\ w \in Seq(Nat) /\ \A k \in 1..Len(w) : w[k] \in 1..ro_sent
      /\ \A k \in 1..Len(w) : z[w[k]] \in Nat
  BY <1>2, HasLengths, Zenon
<1>4. \A k \in 1..Len(w) : z[w[k]] \in Nat /\ y[w[k]] = z[w[k]]
  BY <1>1, <1>2, <1>3, Zenon
<1>5. Rot!Total(w, y) = Rot!Total(w, z) /\ Rot!Total(w, z) \in Nat
  BY <1>3, <1>4, TotalDepends
<1>6. Rot!Total(Append(w, n), y) = Rot!Total(w, y) + y[n]
  <2>1. \A k \in 1..Len(w) : y[w[k]] \in Nat
    BY <1>4
  <2>2. n \in Nat /\ y[n] \in Nat
    <3>1. y[n] = size
      BY <1>1, <1>2, Zenon
    <3>2. ro_sent + 1 \in Nat
      BY <1>1
    <3>3. QED
      BY <1>1, <1>2, <3>1, <3>2, Zenon
  <2>3. QED
    BY <1>3, <2>1, <2>2, TotalAppend
<1>7. y[n] = size
  BY <1>1, <1>2, Zenon
<1>8. QED
  BY <1>2, <1>5, <1>6, <1>7, Zenon

LEMMA LogHereKeeps ==
    ASSUME RotatingParameters, RotInv, NEW size \in ro_Sizes, Rot!LogHere(size)
    PROVE  RotInv'
<1>1. /\ ro_alive /\ ro_sent < ro_MaxMessages /\ ro_current_size_ + size <= ro_MaxSize
      /\ ro_sent' = ro_sent + 1 /\ ro_sizes' = Append(ro_sizes, size)
      /\ ro_current_size_' = ro_current_size_ + size
      /\ ro_files' = IF ro_isOpen THEN Rot!Written(ro_files, ro_sent + 1) ELSE ro_files
      /\ ro_wrote' = (ro_wrote \/ ~ro_isOpen)
      /\ ro_isOpen' = ro_isOpen /\ ro_alive' = ro_alive /\ ro_faults' = ro_faults /\ ro_opens' = ro_opens
  BY DEF Rot!LogHere
<1>2. /\ Kinds /\ Known /\ Arranged(ro_files, ro_sent) /\ Short(ro_files, ro_sizes)
      /\ ro_faults = 0 => Retained(ro_files, ro_sent)
  BY DEF RotInv, Filed
<1>3. /\ ro_sent' \in 0..ro_MaxMessages /\ ro_sizes' \in [1..ro_sent' -> ro_Sizes]
      /\ ro_sent \in Nat /\ size \in Nat
  BY <1>1, <1>2, OneMore
<1>4. ro_current_size_ \in Nat /\ ro_MaxSize \in Nat /\ ro_isOpen \in BOOLEAN
  BY <1>2 DEF Kinds, RotatingParameters
<1>5. /\ ro_isOpen /\ Rot!Exists(ro_files, 0) /\ ~ro_wrote
      /\ Rot!Total(ro_files[0], ro_sizes) <= ro_current_size_
  BY <1>1, <1>2, <1>3, <1>4 DEF Known
<1>6. PICK gs : gs = Rot!Written(ro_files, ro_sent + 1)
  OBVIOUS
<1>7. ro_files' = gs
  BY <1>1, <1>5, <1>6, Zenon
<1>8. Arranged(gs, ro_sent') /\ gs[0] = Append(ro_files[0], ro_sent + 1) /\ Rot!Exists(gs, 0)
  BY <1>1, <1>2, <1>3, <1>5, <1>6, WrittenArranged DEF Rot!Exists
<1>9. ro_faults = 0 => Retained(gs, ro_sent')
  BY <1>1, <1>2, <1>3, <1>5, <1>6, RetainedWritten
<1>10. PICK t, l : t = Rot!Total(ro_files[0], ro_sizes) /\ l = Rot!Total(gs[0], ro_sizes')
  OBVIOUS
<1>11. l = t + size /\ t \in Nat
  BY <1>1, <1>2, <1>5, <1>8, <1>10, SameTotal, Zenon
<1>12. l <= ro_current_size_' /\ l <= ro_MaxSize
  BY <1>1, <1>3, <1>4, <1>5, <1>10, <1>11
<1>13. Kinds'
  <2>1. ro_current_size_' \in Nat
    BY <1>1, <1>3, <1>4
  <2>2. QED
    BY <1>1, <1>2, <1>3, <2>1, Zenon DEF Kinds
<1>14. Known'
  <2>1. Rot!Exists(ro_files, 0)' /\ Rot!Total(ro_files'[0], ro_sizes') <= ro_current_size_'
    BY <1>7, <1>8, <1>10, <1>12, Zenon DEF Rot!Exists
  <2>2. QED
    BY <1>1, <1>5, <2>1, Zenon DEF Known
<1>15. Short(gs, ro_sizes')
  BY <1>10, <1>12, Zenon DEF Short
<1>16. Filed'
  BY <1>1, <1>7, <1>8, <1>9, <1>15, Zenon DEF Filed
<1>17. QED
  BY <1>13, <1>14, <1>16, Zenon DEF RotInv

LEMMA LogRotatingKeeps ==
    ASSUME RotatingParameters, RotInv, NEW size \in ro_Sizes, Rot!LogRotating(size)
    PROVE  RotInv'
<1>1. /\ ro_alive /\ ro_sent < ro_MaxMessages /\ ro_current_size_ + size > ro_MaxSize
      /\ ro_sent' = ro_sent + 1 /\ ro_sizes' = Append(ro_sizes, size)
      /\ ro_alive' = ro_alive /\ ro_opens' = ro_opens /\ ro_wrote' = ro_wrote
  BY DEF Rot!LogRotating
<1>2. /\ Kinds /\ Known /\ Arranged(ro_files, ro_sent) /\ Short(ro_files, ro_sizes)
      /\ ro_faults = 0 => Retained(ro_files, ro_sent)
  BY DEF RotInv, Filed
<1>3. PICK r \in Rot!Rotations :
        /\ ro_files' = IF r.ok THEN Rot!Written(r.files, ro_sent + 1) ELSE r.files
        /\ ro_isOpen' = r.open
        /\ ro_current_size_' = IF r.ok THEN size ELSE IF r.reset THEN 0 ELSE ro_current_size_ + size
        /\ Rot!Fault(~r.ok)
  BY DEF Rot!LogRotating
<1>4. /\ r.ok \in BOOLEAN /\ r.open \in BOOLEAN /\ r.reset \in BOOLEAN
      /\ Arranged(r.files, ro_sent)
      /\ r.ok => r.open /\ r.files = Rot!Opened(Shifted(ro_files, 0), TRUE)
      /\ r.open => Rot!Exists(r.files, 0) /\ r.files[0] = <<>> /\ r.ok = ~r.reset
      /\ ~r.ok => ro_faults # ro_MaxFaults
      /\ ~r.open => ~r.reset /\ (Rot!Exists(r.files, 0) => r.files[0] = ro_files[0])
  BY <1>2, RotationsAre
<1>5. PICK gs, ok, open : gs = r.files /\ ok = r.ok /\ open = r.open
  OBVIOUS
<1>6. /\ ok \in BOOLEAN /\ open \in BOOLEAN /\ Arranged(gs, ro_sent) /\ (ok => open)
      /\ open => Rot!Exists(gs, 0) /\ gs[0] = <<>>
      /\ ~ok => ro_faults # ro_MaxFaults
      /\ ~open => (Rot!Exists(gs, 0) => gs[0] = ro_files[0])
  BY <1>4, <1>5, Zenon
<1>7. /\ ro_sent' \in 0..ro_MaxMessages /\ ro_sizes' \in [1..ro_sent' -> ro_Sizes]
      /\ ro_sent \in Nat /\ size \in Nat /\ ro_current_size_ \in Nat /\ ro_MaxSize \in Nat
      /\ ro_MaxFaults \in Nat /\ ro_faults \in 0..ro_MaxFaults
  BY <1>1, <1>2, OneMore DEF Kinds, RotatingParameters
<1>8. ro_faults' = (IF ok THEN ro_faults ELSE ro_faults + 1) /\ ro_isOpen' = open
  BY <1>3, <1>5 DEF Rot!Fault
<1>9. ro_current_size_' = (IF ok THEN size ELSE IF open THEN 0 ELSE ro_current_size_ + size)
  <2>1. open => r.reset = ~ok
    BY <1>4, <1>5
  <2>2. ~open => r.reset = FALSE /\ ok = FALSE
    BY <1>4, <1>5
  <2>3. CASE open
    BY <1>3, <1>4, <1>5, <2>1, <2>3
  <2>4. CASE ~open
    BY <1>3, <1>4, <1>5, <2>2, <2>4
  <2>5. QED
    BY <2>3, <2>4
<1>10. Kinds'
  <2>1. ro_faults' \in 0..ro_MaxFaults
    BY <1>6, <1>7, <1>8
  <2>2. ro_current_size_' \in Nat
    BY <1>6, <1>7, <1>9
  <2>3. QED
    BY <1>1, <1>2, <1>6, <1>7, <1>8, <2>1, <2>2, Zenon DEF Kinds
<1>11. Rot!Total(<<>>, ro_sizes') = 0 /\ Len(<<>>) = 0
  BY TotalNone
<1>12. CASE ok
  <2>1. ro_files' = Rot!Written(gs, ro_sent + 1)
    BY <1>3, <1>5, <1>12, Zenon
  <2>2. Rot!Exists(gs, 0) /\ gs[0] = <<>>
    BY <1>6, <1>12
  <2>3. PICK hs : hs = Rot!Written(gs, ro_sent + 1)
    OBVIOUS
  <2>4. Arranged(hs, ro_sent') /\ hs[0] = Append(<<>>, ro_sent + 1) /\ Rot!Exists(hs, 0)
    <3>1. /\ Arranged(Rot!Written(gs, ro_sent + 1), ro_sent + 1)
          /\ Rot!Written(gs, ro_sent + 1)[0] = Append(gs[0], ro_sent + 1)
          /\ Rot!Written(gs, ro_sent + 1)[0] # Rot!Missing
      BY <1>6, <1>7, <2>2, WrittenArranged
    <3>2. QED
      BY <1>1, <2>2, <2>3, <3>1, Zenon DEF Rot!Exists
  <2>5. hs[0] \in Seq(Nat) /\ Len(hs[0]) = 1
    BY <1>7, <2>4
  <2>6. Rot!Total(hs[0], ro_sizes') = size
    <3>1. PICK n, y : n = ro_sent + 1 /\ y = ro_sizes'
      OBVIOUS
    <3>2. y[n] = size /\ n \in Nat
      BY <1>1, <1>2, <1>7, <3>1, OneMore
    <3>3. <<>> \in Seq(Nat) /\ \A k \in 1..Len(<<>>) : y[<<>>[k]] \in Nat
      OBVIOUS
    <3>4. Rot!Total(Append(<<>>, n), y) = Rot!Total(<<>>, y) + y[n]
      BY <1>7, <3>2, <3>3, TotalAppend
    <3>5. Rot!Total(Append(<<>>, n), y) = size
      BY <1>7, <3>2, <3>4, TotalNone
    <3>6. QED
      BY <2>4, <3>1, <3>5, Zenon
  <2>7. ro_faults' = 0 => Retained(hs, ro_sent')
    <3>1. ASSUME ro_faults' = 0 PROVE Retained(hs, ro_sent')
      <4>1. Retained(ro_files, ro_sent)
        BY <1>2, <1>8, <1>12, <3>1
      <4>2. gs = Rot!Opened(Shifted(ro_files, 0), TRUE)
        BY <1>4, <1>5, <1>12
      <4>3. Retained(gs, ro_sent)
        BY <1>2, <1>7, <4>1, <4>2, RetainedRotated
      <4>4. Retained(Rot!Written(gs, ro_sent + 1), ro_sent + 1)
        BY <1>6, <1>7, <2>2, <4>3, RetainedWritten
      <4>5. QED
        BY <1>1, <2>3, <4>4, Zenon
    <3>2. QED
      BY <3>1
  <2>8. Short(hs, ro_sizes')
    BY <2>5 DEF Short
  <2>9. ro_files' = hs
    BY <2>1, <2>3
  <2>10. Known'
    <3>1. Rot!Exists(ro_files, 0)'
      BY <2>4, <2>9, Zenon DEF Rot!Exists
    <3>2. Rot!Total(ro_files'[0], ro_sizes') <= ro_current_size_'
      <4>1. Rot!Total(ro_files'[0], ro_sizes') = size /\ ro_current_size_' = size
        BY <1>9, <1>12, <2>6, <2>9, Zenon
      <4>2. QED
        BY <1>7, <4>1
    <3>3. ro_isOpen' = TRUE
      BY <1>6, <1>8, <1>12
    <3>4. QED
      BY <1>1, <1>2, <3>1, <3>2, <3>3, Zenon DEF Known
  <2>11. Filed'
    BY <2>4, <2>7, <2>8, <2>9, Zenon DEF Filed
  <2>12. QED
    BY <1>10, <2>10, <2>11, Zenon DEF RotInv
<1>13. CASE ~ok
  <2>1. ro_files' = gs
    BY <1>3, <1>5, <1>13, Zenon
  <2>2. Arranged(gs, ro_sent')
    BY <1>1, <1>6, <1>7, ArrangedGrows, Zenon
  <2>3. ro_faults' # 0
    BY <1>7, <1>8, <1>13
  <2>4. CASE open
    <3>1. Rot!Exists(gs, 0) /\ gs[0] = <<>>
      BY <1>6, <2>4
    <3>2. Short(gs, ro_sizes')
      <4>1. Len(gs[0]) = 0
        BY <1>11, <3>1, Zenon
      <4>2. QED
        BY <4>1 DEF Short
    <3>3. Rot!Total(ro_files'[0], ro_sizes') = 0 /\ ro_current_size_' = 0
      BY <1>9, <1>11, <1>13, <2>1, <2>4, <3>1, Zenon
    <3>4. Rot!Exists(ro_files, 0)'
      BY <2>1, <3>1, Zenon DEF Rot!Exists
    <3>5. Known'
      BY <1>1, <1>2, <1>8, <2>4, <3>3, <3>4 DEF Known
    <3>6. Filed'
      BY <2>1, <2>2, <2>3, <3>2, Zenon DEF Filed
    <3>7. QED
      BY <1>10, <3>5, <3>6, Zenon DEF RotInv
  <2>5. CASE ~open
    <3>1. Short(gs, ro_sizes')
      <4>1. CASE ~Rot!Exists(gs, 0)
        BY <4>1 DEF Short
      <4>2. CASE Rot!Exists(gs, 0)
        <5>1. gs[0] = ro_files[0] /\ Rot!Exists(ro_files, 0)
          BY <1>6, <2>5, <4>2, Zenon DEF Rot!Exists
        <5>2. Rot!Total(ro_files[0], ro_sizes') = Rot!Total(ro_files[0], ro_sizes)
          BY <1>1, <1>2, <5>1, SameTotal
        <5>3. QED
          BY <1>2, <5>1, <5>2, Zenon DEF Short
      <4>3. QED
        BY <4>1, <4>2
    <3>2. ro_current_size_' > ro_MaxSize
      BY <1>1, <1>9, <1>13, <2>5
    <3>3. Known'
      BY <1>1, <1>2, <1>8, <2>5, <3>2 DEF Known
    <3>4. Filed'
      BY <2>1, <2>2, <2>3, <3>1, Zenon DEF Filed
    <3>5. QED
      BY <1>10, <3>3, <3>4, Zenon DEF RotInv
  <2>6. QED
    BY <1>6, <2>4, <2>5
<1>14. QED
  BY <1>6, <1>12, <1>13

LEMMA RotatingKeeps == ASSUME RotatingParameters, RotInv, [Rot!Next]_(Rot!vars) PROVE RotInv'
<1>1. ASSUME UNCHANGED Rot!vars PROVE RotInv'
  <2>1. /\ ro_files' = ro_files /\ ro_isOpen' = ro_isOpen /\ ro_current_size_' = ro_current_size_
        /\ ro_alive' = ro_alive /\ ro_sent' = ro_sent /\ ro_sizes' = ro_sizes /\ ro_faults' = ro_faults
        /\ ro_opens' = ro_opens /\ ro_wrote' = ro_wrote
    BY <1>1 DEF Rot!vars
  <2>2. Kinds'
    BY <2>1, Zenon DEF RotInv, Kinds
  <2>3. Known'
    BY <2>1, Zenon DEF RotInv, Known, Rot!Exists
  <2>4. Filed'
    BY <2>1, Zenon DEF RotInv, Filed
  <2>5. QED
    BY <2>2, <2>3, <2>4, Zenon DEF RotInv
<1>2. QED
  BY <1>1, LogHereKeeps, LogRotatingKeeps, ConstructKeeps, ConstructRotatingKeeps, DestructKeeps
     DEF Rot!Next
------------------------------------------------------------------------------
(***************************************************************************)
(* The daily files, for any number of files and days. While the sink       *)
(* rotates at midnight the names in its queue rise, they are of files that *)
(* are there and of days before the next rotation, and the last of them    *)
(* are of the days that it has opened.  If midnight came in the            *)
(* constructor, the first day that it has opened is the exception: its     *)
(* name never gets into the queue, and its file stays.                     *)
(***************************************************************************)
Rising(w) == \A i \in 1..Len(w) : \A j \in 1..(i - 1) : w[j] < w[i]

\* The queue of names w, when D are the days of which there is a file.
Queued(w, D, tp) ==
    /\ w \in Seq(Nat) /\ Len(w) <= da_MaxFiles /\ Rising(w)
    /\ \A i \in 1..Len(w) : w[i] \in D /\ w[i] < Day!DayOf(tp)

\* The days that were opened are at its end: all of them, unless it is full.
EndsWith(w, o) ==
    /\ o \in Seq(Nat)
    /\ Len(w) < da_MaxFiles => Len(o) <= Len(w)
    /\ \A i \in 1..Len(w) : i <= Len(o) => w[Len(w) + 1 - i] = o[Len(o) + 1 - i]

\* Those whose file is there although the queue has let go of it.
Leftover(w, o, D) == (Elements(o) \cap D) \ Elements(w)

FewLeft(w, o, D, n) == IsFiniteSet(Leftover(w, o, D)) /\ Cardinality(Leftover(w, o, D)) <= n

\* The queue after the name of a day, when it had room and when it was full.
Moved(w, day) == Append(IF Len(w) = da_MaxFiles THEN Tail(w) ELSE w, day)

DayState ==
    /\ da_now \in 0..(2 * da_LastDay + 1) /\ da_rotation \in {0, 1}
    /\ da_rotation_tp_ \in Nat /\ da_file \in Day!Days \cup {Day!NoDay}
    /\ da_alive \in BOOLEAN /\ da_isOpen \in BOOLEAN
    /\ Ring(da_filenames_q_, Day!Days)
    /\ da_alive => da_filenames_q_.max = da_MaxFiles + 1
    /\ DOMAIN da_files \subseteq 0..Day!DayOf(da_now)
    /\ da_faults \in 0..da_MaxFaults /\ da_missed \in {0, 1}

\* The days that were opened, without the first one if its name is missed.
DaysNoted(o, missed) == IF missed = 1 THEN Tail(o) ELSE o

\* Its file is there, and the queue will not come upon its name.
MissedStays(w, o, D, tp, missed) ==
    missed = 1 => /\ o \in Seq(Nat) /\ o # <<>>
                  /\ o[1] \in D /\ o[1] < Day!DayOf(tp) /\ o[1] \notin Elements(w)

Midnight ==
    /\ Queued(Contents(da_filenames_q_), DOMAIN da_files, da_rotation_tp_)
    /\ EndsWith(Contents(da_filenames_q_), DaysNoted(da_opened, da_missed))
    /\ FewLeft(Contents(da_filenames_q_), DaysNoted(da_opened, da_missed), DOMAIN da_files, da_faults)
    /\ MissedStays(Contents(da_filenames_q_), da_opened, DOMAIN da_files, da_rotation_tp_, da_missed)

DayInv == DayState /\ (da_alive /\ da_rotation = 0 => Midnight)

LEMMA DayRing ==
    /\ \A n : Day!Create(n) = Create(n)
    /\ \A cq, x : Day!PushBack(cq, x) = PushBack(cq, x)
    /\ \A cq : Day!PopFront(cq) = PopFront(cq) /\ Day!FrontItem(cq) = FrontItem(cq)
    /\ \A cq : Day!Full(cq) <=> Full(cq)
    /\ Day!Disabled = Disabled
<1>1. \A n : Day!Create(n) = Create(n)
  BY Zenon DEF Day!Create, Create
<1>2. \A cq, i : Day!After(cq, i) = After(cq, i)
  BY Zenon DEF Day!After, After
<1>3. ASSUME NEW cq, NEW x PROVE Day!PushBack(cq, x) = PushBack(cq, x)
  BY Zenon DEF Day!PushBack, PushBack, Day!After, After
<1>4. ASSUME NEW cq PROVE Day!PopFront(cq) = PopFront(cq) /\ Day!FrontItem(cq) = FrontItem(cq)
  BY Zenon DEF Day!PopFront, PopFront, Day!FrontItem, FrontItem, Day!After, After
<1>5. ASSUME NEW cq PROVE Day!Full(cq) <=> Full(cq)
  BY Zenon DEF Day!Full, Full, Day!After, After
<1>6. Day!Disabled = Disabled
  BY Zenon DEF Day!Disabled, Disabled
<1>7. QED
  BY <1>1, <1>3, <1>4, <1>5, <1>6, Zenon

\* Half days and days.
LEMMA Halves ==
    ASSUME NEW s \in Nat, NEW t \in Nat
    PROVE  /\ Day!DayOf(s) \in Nat
           /\ s <= t => Day!DayOf(s) <= Day!DayOf(t)
           /\ Day!DayOf(2 * s + 2) = s + 1
           /\ t <= 2 * s + 1 => Day!DayOf(t) <= s
BY DEF Day!DayOf

LEMMA NextDay ==
    ASSUME NEW t \in Nat, da_rotation \in {0, 1}
    PROVE  /\ Day!next_rotation_tp_(t) \in Nat
           /\ da_rotation = 0 => Day!DayOf(Day!next_rotation_tp_(t)) = Day!DayOf(t) + 1
<1>1. PICK d \in Nat : d = Day!DayOf(t) /\ 2 * d <= t
  BY DEF Day!DayOf
<1>0. PICK x : x = Day!next_rotation_tp_(t)
  OBVIOUS
<1>2. x = IF 2 * d + da_rotation > t THEN 2 * d + da_rotation ELSE 2 * d + da_rotation + 2
  BY <1>0, <1>1 DEF Day!next_rotation_tp_
<1>3. x \in Nat
  BY <1>1, <1>2
<1>4. ASSUME da_rotation = 0 PROVE Day!DayOf(x) = d + 1
  <2>1. x = 2 * d + 2
    BY <1>1, <1>2, <1>4
  <2>2. QED
    BY <2>1, <1>1, Halves
<1>5. QED
  BY <1>0, <1>1, <1>3, <1>4

LEMMA ElementsAppend ==
    ASSUME NEW S, NEW w \in Seq(S), NEW x \in S
    PROVE  Elements(Append(w, x)) = Elements(w) \cup {x}
<1>1. /\ Append(w, x) \in Seq(S) /\ Len(Append(w, x)) = Len(w) + 1 /\ Len(w) \in Nat
      /\ Append(w, x)[Len(w) + 1] = x
      /\ \A i \in 1..Len(w) : Append(w, x)[i] = w[i]
  OBVIOUS
<1>2. DOMAIN Append(w, x) = 1..(Len(w) + 1) /\ DOMAIN w = 1..Len(w)
  BY <1>1
<1> PICK u : u = Append(w, x)
  OBVIOUS
<1>3. ASSUME NEW y \in Elements(u) PROVE y \in Elements(w) \cup {x}
  <2>1. PICK k \in 1..(Len(w) + 1) : y = u[k]
    BY <1>2 DEF Elements
  <2>2. k = Len(w) + 1 \/ k \in 1..Len(w)
    BY <1>1
  <2>3. QED
    BY <1>1, <1>2, <2>1, <2>2 DEF Elements
<1>4. ASSUME NEW y \in Elements(w) \cup {x} PROVE y \in Elements(u)
  <2>1. CASE y = x
    <3>1. Len(w) + 1 \in DOMAIN u /\ u[Len(w) + 1] = y
      BY <1>1, <1>2, <2>1
    <3>2. QED
      BY <3>1, Zenon DEF Elements
  <2>2. CASE y \in Elements(w)
    <3>1. PICK k \in 1..Len(w) : y = w[k]
      BY <1>2, <2>2 DEF Elements
    <3>2. k \in DOMAIN u /\ u[k] = y
      BY <1>1, <1>2, <3>1
    <3>3. QED
      BY <3>2, Zenon DEF Elements
  <2>3. QED
    BY <2>1, <2>2
<1>5. QED
  BY <1>3, <1>4

LEMMA ElementsTail ==
    ASSUME NEW S, NEW w \in Seq(S), w # <<>>
    PROVE  Elements(w) = Elements(Tail(w)) \cup {w[1]}
<1>1. /\ Tail(w) \in Seq(S) /\ Len(Tail(w)) = Len(w) - 1 /\ Len(w) \in Nat \ {0}
      /\ \A i \in 1..(Len(w) - 1) : Tail(w)[i] = w[i + 1]
  OBVIOUS
<1>2. DOMAIN Tail(w) = 1..(Len(w) - 1) /\ DOMAIN w = 1..Len(w)
  BY <1>1
<1> PICK u : u = Tail(w)
  OBVIOUS
<1>3. ASSUME NEW y \in Elements(w) PROVE y \in Elements(u) \cup {w[1]}
  <2>1. PICK k \in 1..Len(w) : y = w[k]
    BY <1>2 DEF Elements
  <2>2. CASE k = 1
    BY <2>1, <2>2
  <2>3. CASE k # 1
    <3>1. k - 1 \in 1..(Len(w) - 1) /\ k - 1 + 1 = k
      BY <1>1, <2>3
    <3>2. k - 1 \in DOMAIN u /\ u[k - 1] = y
      BY <1>1, <1>2, <2>1, <3>1
    <3>3. QED
      BY <3>2, Zenon DEF Elements
  <2>4. QED
    BY <2>2, <2>3
<1>4. ASSUME NEW y \in Elements(u) \cup {w[1]} PROVE y \in Elements(w)
  <2>1. CASE y = w[1]
    <3>1. 1 \in DOMAIN w
      BY <1>1, <1>2
    <3>2. QED
      BY <2>1, <3>1, Zenon DEF Elements
  <2>2. CASE y \in Elements(u)
    <3>1. PICK k \in 1..(Len(w) - 1) : y = u[k]
      BY <1>2, <2>2 DEF Elements
    <3>2. k + 1 \in DOMAIN w /\ w[k + 1] = y
      BY <1>1, <1>2, <3>1
    <3>3. QED
      BY <3>2, Zenon DEF Elements
  <2>3. QED
    BY <2>1, <2>2
<1>5. QED
  BY <1>3, <1>4

LEMMA QueueMoves ==
    ASSUME DailyParameters, NEW D, NEW tp \in Nat, NEW w, Queued(w, D, tp),
           NEW day \in Nat, Day!DayOf(tp) <= day, NEW tp2 \in Nat, day < Day!DayOf(tp2), NEW E,
           day \in E, \A d \in D : d \in E \/ (Len(w) = da_MaxFiles /\ d = w[1])
    PROVE  Queued(Moved(w, day), E, tp2)
<1>1. /\ w \in Seq(Nat) /\ Len(w) \in Nat /\ Len(w) <= da_MaxFiles /\ Rising(w) /\ da_MaxFiles \in Nat \ {0}
      /\ \A i \in 1..Len(w) : w[i] \in D /\ w[i] < Day!DayOf(tp) /\ w[i] \in Nat
  BY DEF Queued, DailyParameters
<1>2. PICK d1 \in Nat, d2 \in Nat : d1 = Day!DayOf(tp) /\ d2 = Day!DayOf(tp2)
  BY Halves
<1>3. PICK v : v = IF Len(w) = da_MaxFiles THEN Tail(w) ELSE w
  OBVIOUS
<1>4. PICK a \in Nat : a = IF Len(w) = da_MaxFiles THEN 1 ELSE 0
  OBVIOUS
<1>5. /\ v \in Seq(Nat) /\ Len(v) = Len(w) - a /\ Len(v) \in Nat /\ Len(v) < da_MaxFiles
      /\ \A i \in 1..Len(v) : v[i] = w[i + a]
  <2>1. CASE Len(w) = da_MaxFiles
    <3>1. v = Tail(w) /\ a = 1 /\ w # <<>>
      BY <1>1, <1>3, <1>4, <2>1
    <3>2. QED
      BY <1>1, <2>1, <3>1
  <2>2. CASE Len(w) # da_MaxFiles
    <3>1. v = w /\ a = 0
      BY <1>3, <1>4, <2>2
    <3>2. QED
      BY <1>1, <2>2, <3>1
  <2>3. QED
    BY <2>1, <2>2
<1>6. ASSUME NEW i \in 1..Len(v) PROVE v[i] \in E /\ v[i] < d1 /\ v[i] \in Nat
  <2>1. i + a \in 1..Len(w) /\ v[i] = w[i + a]
    BY <1>1, <1>4, <1>5
  <2>2. v[i] \in D /\ v[i] < d1 /\ v[i] \in Nat
    BY <1>1, <1>2, <2>1
  <2>3. Len(w) = da_MaxFiles => v[i] # w[1]
    <3>1. SUFFICES ASSUME Len(w) = da_MaxFiles PROVE w[1] < w[i + a]
      BY <1>1, <2>1, <2>2
    <3>2. a = 1 /\ 1 \in 1..(i + a - 1)
      BY <1>4, <3>1
    <3>3. QED
      BY <1>1, <2>1, <3>2 DEF Rising
  <2>4. QED
    BY <2>2, <2>3
<1>7. PICK u : u = Append(v, day)
  OBVIOUS
<1>8. /\ u \in Seq(Nat) /\ Len(u) = Len(v) + 1 /\ u[Len(v) + 1] = day
      /\ \A i \in 1..Len(v) : u[i] = v[i]
  BY <1>5, <1>7
<1>9. ASSUME NEW i \in 1..Len(u) PROVE u[i] \in E /\ u[i] < d2
  <2>1. CASE i \in 1..Len(v)
    <3>1. v[i] \in E /\ v[i] < d1 /\ v[i] \in Nat
      BY <1>6, <2>1
    <3>2. u[i] = v[i]
      BY <1>8, <2>1
    <3>3. QED
      BY <1>2, <3>1, <3>2
  <2>2. CASE i \notin 1..Len(v)
    <3>1. Len(v) \in Nat /\ Len(u) = Len(v) + 1
      BY <1>5, <1>8
    <3>2. i = Len(v) + 1
      BY <2>2, <3>1
    <3>3. QED
      BY <1>2, <1>8, <3>2
  <2>3. QED
    BY <2>1, <2>2
<1>10. ASSUME NEW i \in 1..Len(u), NEW j \in 1..(i - 1) PROVE u[j] < u[i]
  <2>1. j \in 1..Len(v)
    BY <1>5, <1>8
  <2>2. CASE i \in 1..Len(v)
    <3>1. i + a \in 1..Len(w) /\ j + a \in 1..(i + a - 1)
      BY <1>5, <2>2
    <3>2. w[j + a] < w[i + a]
      BY <1>1, <3>1 DEF Rising
    <3>3. QED
      BY <1>5, <1>8, <2>1, <2>2, <3>2
  <2>3. CASE i \notin 1..Len(v)
    <3>1. Len(v) \in Nat /\ Len(u) = Len(v) + 1
      BY <1>5, <1>8
    <3>2. i = Len(v) + 1
      BY <2>3, <3>1
    <3>3. u[j] < d1 /\ u[j] \in Nat /\ u[i] = day
      BY <1>6, <1>8, <2>1, <3>2
    <3>4. QED
      BY <1>2, <3>3
  <2>4. QED
    BY <2>2, <2>3
<1>11. Rising(u)
  BY <1>10 DEF Rising
<1>12. Len(u) <= da_MaxFiles
  BY <1>1, <1>5, <1>8
<1>13. Queued(u, E, tp2)
  BY <1>2, <1>8, <1>9, <1>11, <1>12 DEF Queued
<1>14. QED
  BY <1>3, <1>7, <1>13, Zenon DEF Moved

LEMMA EndMoves ==
    ASSUME DailyParameters, NEW D, NEW tp, NEW w, Queued(w, D, tp), NEW o, EndsWith(w, o), NEW day \in Nat
    PROVE  EndsWith(Moved(w, day), Append(o, day))
<1>1. /\ w \in Seq(Nat) /\ Len(w) \in Nat /\ Len(w) <= da_MaxFiles /\ da_MaxFiles \in Nat \ {0}
      /\ o \in Seq(Nat) /\ Len(o) \in Nat /\ (Len(w) < da_MaxFiles => Len(o) <= Len(w))
      /\ \A i \in 1..Len(w) : i <= Len(o) => w[Len(w) + 1 - i] = o[Len(o) + 1 - i]
  BY DEF Queued, EndsWith, DailyParameters
<1>2. PICK v : v = IF Len(w) = da_MaxFiles THEN Tail(w) ELSE w
  OBVIOUS
<1>3. PICK a \in Nat : a = IF Len(w) = da_MaxFiles THEN 1 ELSE 0
  OBVIOUS
<1>4. /\ v \in Seq(Nat) /\ Len(v) = Len(w) - a /\ Len(v) \in Nat
      /\ \A i \in 1..Len(v) : v[i] = w[i + a]
  <2>1. CASE Len(w) = da_MaxFiles
    <3>1. v = Tail(w) /\ a = 1 /\ w # <<>>
      BY <1>1, <1>2, <1>3, <2>1
    <3>2. QED
      BY <1>1, <2>1, <3>1
  <2>2. CASE Len(w) # da_MaxFiles
    <3>1. v = w /\ a = 0
      BY <1>2, <1>3, <2>2
    <3>2. QED
      BY <1>1, <2>2, <3>1
  <2>3. QED
    BY <2>1, <2>2
<1>5. PICK u : u = Append(v, day)
  OBVIOUS
<1>6. PICK p : p = Append(o, day)
  OBVIOUS
<1>7. /\ Len(u) = Len(v) + 1 /\ u[Len(v) + 1] = day /\ \A i \in 1..Len(v) : u[i] = v[i]
  BY <1>4, <1>5
<1>8. /\ p \in Seq(Nat) /\ Len(p) = Len(o) + 1 /\ p[Len(o) + 1] = day
      /\ \A i \in 1..Len(o) : p[i] = o[i]
  BY <1>1, <1>6
<1>9. Len(u) < da_MaxFiles => Len(p) <= Len(u)
  <2>1. PICK m \in Nat, n \in Nat, x \in Nat, y \in Nat :
          m = da_MaxFiles /\ n = Len(w) /\ x = Len(v) /\ y = Len(o)
    BY <1>1, <1>4
  <2>2. Len(u) = x + 1 /\ Len(p) = y + 1 /\ x = n - a /\ a = (IF n = m THEN 1 ELSE 0)
    BY <1>3, <1>4, <1>7, <1>8, <2>1
  <2>3. n <= m /\ (n < m => y <= n)
    BY <1>1, <2>1
  <2>4. x + 1 < m => y + 1 <= x + 1
    BY <2>2, <2>3
  <2>5. QED
    BY <2>1, <2>2, <2>4
<1>10. ASSUME NEW i \in 1..Len(u), i <= Len(p) PROVE u[Len(u) + 1 - i] = p[Len(p) + 1 - i]
  <2>1. CASE i = 1
    <3>1. Len(u) + 1 - i = Len(v) + 1 /\ Len(p) + 1 - i = Len(o) + 1
      BY <1>1, <1>4, <1>7, <1>8, <2>1
    <3>2. QED
      BY <1>7, <1>8, <3>1
  <2>2. CASE i # 1
    <3>0. PICK x \in Nat, y \in Nat : x = Len(v) /\ y = Len(o) /\ Len(u) = x + 1 /\ Len(p) = y + 1
      BY <1>1, <1>4, <1>7, <1>8
    <3>1. PICK j \in Nat : i = j + 1 /\ j \in 1..Len(v) /\ j <= Len(o)
      <4>1. i - 1 \in Nat /\ i = (i - 1) + 1 /\ i - 1 \in 1..x /\ i - 1 <= y
        BY <1>10, <2>2, <3>0
      <4>2. QED
        BY <3>0, <4>1
    <3>2. PICK k \in 1..Len(v) : k = Len(v) + 1 - j
      <4>1. x + 1 - j \in 1..x
        BY <3>0, <3>1
      <4>2. QED
        BY <3>0, <4>1
    <3>3. PICK l \in 1..Len(o) : l = Len(o) + 1 - j
      <4>1. y + 1 - j \in 1..y
        BY <3>0, <3>1
      <4>2. QED
        BY <3>0, <4>1
    <3>4. Len(u) + 1 - i = k /\ Len(p) + 1 - i = l /\ k + a = Len(w) + 1 - j /\ j \in 1..Len(w)
      BY <1>1, <1>4, <1>7, <1>8, <3>1, <3>2, <3>3
    <3>5. u[k] = w[k + a] /\ p[l] = o[l]
      BY <1>4, <1>7, <1>8
    <3>6. w[k + a] = o[l]
      BY <1>1, <3>1, <3>3, <3>4
    <3>7. QED
      BY <3>4, <3>5, <3>6
  <2>3. QED
    BY <2>1, <2>2
<1>11. EndsWith(u, p)
  BY <1>8, <1>9, <1>10 DEF EndsWith
<1>12. QED
  BY <1>2, <1>5, <1>6, <1>11, Zenon DEF Moved

\* What is left over grows only by a name whose file could not be removed.
LEMMA LeftMoves ==
    ASSUME DailyParameters, NEW D, NEW tp, NEW w, Queued(w, D, tp), NEW o \in Seq(Nat), NEW day \in Nat,
           NEW n \in Nat, FewLeft(w, o, D, n), NEW E, E \subseteq D \cup {day}
    PROVE  /\ FewLeft(Moved(w, day), Append(o, day), E, n + 1)
           /\ (Len(w) = da_MaxFiles => w[1] \notin E) => FewLeft(Moved(w, day), Append(o, day), E, n)
<1>1. w \in Seq(Nat) /\ da_MaxFiles \in Nat \ {0}
  BY DEF Queued, DailyParameters
<1>2. PICK v : v = IF Len(w) = da_MaxFiles THEN Tail(w) ELSE w
  OBVIOUS
<1>3. v \in Seq(Nat) /\ Elements(w) \subseteq Elements(v) \cup {w[1]} /\ (Len(w) # da_MaxFiles => v = w)
  <2>1. CASE Len(w) = da_MaxFiles
    <3>1. v = Tail(w) /\ w # <<>>
      BY <1>1, <1>2, <2>1
    <3>2. Elements(w) = Elements(Tail(w)) \cup {w[1]} /\ Tail(w) \in Seq(Nat)
      BY <1>1, <3>1, ElementsTail
    <3>3. QED
      BY <2>1, <3>1, <3>2
  <2>2. CASE Len(w) # da_MaxFiles
    BY <1>1, <1>2, <2>2
  <2>3. QED
    BY <2>1, <2>2
<1>4. Elements(Append(v, day)) = Elements(v) \cup {day} /\ Elements(Append(o, day)) = Elements(o) \cup {day}
  <2>1. Elements(Append(v, day)) = Elements(v) \cup {day}
    BY <1>3, ElementsAppend
  <2>2. Elements(Append(o, day)) = Elements(o) \cup {day}
    BY ElementsAppend
  <2>3. QED
    BY <2>1, <2>2
<1>5. PICK L, M : L = Leftover(w, o, D) /\ M = Leftover(Append(v, day), Append(o, day), E)
  OBVIOUS
<1>6. IsFiniteSet(L) /\ Cardinality(L) \in Nat /\ Cardinality(L) <= n
  BY <1>5, FS_CardinalityType DEF FewLeft
<1>7. M \subseteq L \cup {w[1]}
  BY <1>3, <1>4, <1>5 DEF Leftover
<1>8. IsFiniteSet(L \cup {w[1]}) /\ Cardinality(L \cup {w[1]}) \in Nat /\ Cardinality(L \cup {w[1]}) <= n + 1
  <2>1. /\ IsFiniteSet(L \cup {w[1]})
        /\ Cardinality(L \cup {w[1]}) = IF w[1] \in L THEN Cardinality(L) ELSE Cardinality(L) + 1
    BY <1>6, FS_AddElement, Zenon
  <2>2. QED
    BY <1>6, <2>1
<1>9. IsFiniteSet(M) /\ Cardinality(M) \in Nat /\ Cardinality(M) <= n + 1
  <2>1. IsFiniteSet(M) /\ Cardinality(M) <= Cardinality(L \cup {w[1]})
    BY <1>7, <1>8, FS_Subset
  <2>2. Cardinality(M) \in Nat
    BY <2>1, FS_CardinalityType
  <2>3. QED
    BY <1>8, <2>1, <2>2
<1>10. ASSUME Len(w) = da_MaxFiles => w[1] \notin E PROVE Cardinality(M) <= n
  <2>1. M \subseteq L
    <3>1. CASE Len(w) = da_MaxFiles
      BY <1>3, <1>4, <1>5, <1>10, <3>1 DEF Leftover
    <3>2. CASE Len(w) # da_MaxFiles
      BY <1>3, <1>4, <1>5, <3>2 DEF Leftover
    <3>3. QED
      BY <3>1, <3>2
  <2>2. Cardinality(M) <= Cardinality(L)
    BY <1>6, <2>1, FS_Subset
  <2>3. QED
    BY <1>6, <1>9, <2>2
<1>11. Append(v, day) = Moved(w, day)
  BY <1>2, Zenon DEF Moved
<1>12. FewLeft(Moved(w, day), Append(o, day), E, n + 1)
  BY <1>5, <1>9, <1>11 DEF FewLeft
<1>13. ASSUME Len(w) = da_MaxFiles => w[1] \notin E PROVE FewLeft(Moved(w, day), Append(o, day), E, n)
  BY <1>5, <1>9, <1>10, <1>11, <1>13 DEF FewLeft
<1>14. QED
  BY <1>12, <1>13, Zenon

LEMMA DayAppended ==
    ASSUME NEW w \in Seq(Nat), NEW day \in Nat
    PROVE  Elements(Append(w, day)) = Elements(w) \cup {day}
BY ElementsAppend

LEMMA TailType == ASSUME NEW w \in Seq(Nat), w # <<>> PROVE Tail(w) \in Seq(Nat)
OBVIOUS

\* A file whose name is missed is not the one that is removed.
LEMMA MissedMoves ==
    ASSUME DailyParameters, NEW D, NEW tp \in Nat, NEW w \in Seq(Nat), NEW o, NEW missed,
           MissedStays(w, o, D, tp, missed), NEW day \in Nat, Day!DayOf(tp) <= day,
           NEW tp2 \in Nat, day < Day!DayOf(tp2), NEW E,
           \A d \in D : d \in E \/ (Len(w) = da_MaxFiles /\ d = w[1])
    PROVE  MissedStays(Moved(w, day), Append(o, day), E, tp2, missed)
<1>1. SUFFICES ASSUME missed = 1 PROVE MissedStays(Moved(w, day), Append(o, day), E, tp2, missed)
  BY DEF MissedStays
<1>2. /\ o \in Seq(Nat) /\ o # <<>> /\ o[1] \in D /\ o[1] < Day!DayOf(tp) /\ o[1] \notin Elements(w)
      /\ o[1] \in Nat
  <2>1. o \in Seq(Nat) /\ o # <<>> /\ o[1] \in D /\ o[1] < Day!DayOf(tp) /\ o[1] \notin Elements(w)
    BY <1>1 DEF MissedStays
  <2>2. QED
    BY <2>1
<1>3. Day!DayOf(tp) \in Nat /\ Day!DayOf(tp2) \in Nat
  BY Halves
<1>4. o[1] < Day!DayOf(tp2) /\ o[1] # day
  BY <1>2, <1>3
<1>5. Append(o, day) \in Seq(Nat) /\ Append(o, day) # <<>> /\ Append(o, day)[1] = o[1]
  <2>1. PICK m \in Nat : m = Len(o)
    BY <1>2
  <2>2. m > 0
    BY <1>2, <2>1
  <2>3. /\ Append(o, day) \in Seq(Nat) /\ Len(Append(o, day)) = m + 1
        /\ \A i \in 1..m : Append(o, day)[i] = o[i]
    BY <1>2, <2>1
  <2>4. 1 \in 1..m /\ m + 1 # 0
    BY <2>2
  <2>5. QED
    BY <2>3, <2>4
<1>6. w # <<>> => w[1] \in Elements(w) /\ Elements(Tail(w)) \subseteq Elements(w) /\ Tail(w) \in Seq(Nat)
  <2>1. SUFFICES ASSUME w # <<>> PROVE w[1] \in Elements(w) /\ Elements(Tail(w)) \subseteq Elements(w)
    BY Zenon, TailType
  <2>2. QED
    BY <2>1, ElementsTail
<1>7. Len(w) = da_MaxFiles => w # <<>>
  BY DEF DailyParameters
<1>8. o[1] \in E
  BY <1>2, <1>6, <1>7
<1>9. PICK v : v = IF Len(w) = da_MaxFiles THEN Tail(w) ELSE w
  OBVIOUS
<1>10. v \in Seq(Nat) /\ Elements(v) \subseteq Elements(w)
  BY <1>6, <1>7, <1>9
<1>11. Elements(Append(v, day)) = Elements(v) \cup {day}
  BY <1>10, DayAppended
<1>12. o[1] \notin Elements(Moved(w, day))
  BY <1>2, <1>4, <1>9, <1>10, <1>11 DEF Moved
<1>13. QED
  BY <1>4, <1>5, <1>8, <1>12 DEF MissedStays

\* The days noted, after another.
LEMMA NotedMoves ==
    ASSUME NEW w, NEW o, NEW D, NEW tp, NEW missed, MissedStays(w, o, D, tp, missed), NEW day \in Nat
    PROVE  DaysNoted(Append(o, day), missed) = Append(DaysNoted(o, missed), day)
<1>1. CASE missed = 1
  <2>1. o \in Seq(Nat) /\ o # <<>>
    BY <1>1 DEF MissedStays
  <2>2. Tail(Append(o, day)) = Append(Tail(o), day)
    BY <2>1
  <2>3. QED
    BY <1>1, <2>2 DEF DaysNoted
<1>2. CASE missed # 1
  BY <1>2 DEF DaysNoted
<1>3. QED
  BY <1>1, <1>2

\* What init_filenames_q_ pushes.
NamesRing == {q \in [max : {da_MaxFiles + 1}, head : Nat, tail : Nat, over : Nat,
                 v : [0..da_MaxFiles -> Day!Days \cup {Unused}]] : Ring(q, Day!Days)}

\* The names of the days before n, when they have been pushed.
NamesBefore(w, days, n) ==
    /\ w \in Seq(Nat) /\ Len(w) <= da_MaxFiles /\ Rising(w)
    /\ \A i \in 1..Len(w) : w[i] \in days /\ w[i] < n
    /\ \A d \in days : d < n /\ (\A e \in days : e < n => e <= d) => Len(w) > 0 /\ w[Len(w)] = d

LEMMA InNamesRing ==
    ASSUME da_MaxFiles \in Nat \ {0}, NEW q
    PROVE  q \in NamesRing <=> Ring(q, Day!Days) /\ q.max = da_MaxFiles + 1
<1>1. ASSUME Ring(q, Day!Days), q.max = da_MaxFiles + 1 PROVE q \in NamesRing
  <2>1. q.max # 0
    BY <1>1
  <2>2. /\ q = [max |-> q.max, head |-> q.head, tail |-> q.tail, over |-> q.over, v |-> q.v]
        /\ q.head \in 0..(q.max - 1) /\ q.tail \in 0..(q.max - 1) /\ q.over \in Nat
        /\ q.v \in [0..(q.max - 1) -> Day!Days \cup {Unused}]
    BY <1>1, <2>1, Fields
  <2>3. /\ q.max - 1 = da_MaxFiles /\ q.max \in {da_MaxFiles + 1} /\ q.head \in Nat /\ q.tail \in Nat
        /\ q.v \in [0..da_MaxFiles -> Day!Days \cup {Unused}]
    BY <1>1, <2>2
  <2>4. QED
    BY <1>1, <2>2, <2>3 DEF NamesRing
<1>2. QED
  BY <1>1 DEF NamesRing

LEMMA PushedName ==
    ASSUME DailyParameters, NEW days \in SUBSET Day!Days, NEW n \in Day!Days,
           NEW q \in NamesRing, NamesBefore(Contents(q), days, n)
    PROVE  NamesBefore(Contents(IF n \in days THEN PushBack(q, n) ELSE q), days, n + 1)
<1>1. Ring(q, Day!Days) /\ q.max = da_MaxFiles + 1 /\ da_MaxFiles \in Nat \ {0} /\ q.max > 1 /\ q.max # 0
  BY DEF NamesRing, DailyParameters
<1>2. n \in Nat /\ days \subseteq Nat
  BY DEF Day!Days
<1>3. PICK w : w = Contents(q)
  OBVIOUS
<1>4. /\ w \in Seq(Nat) /\ Len(w) \in Nat /\ Len(w) <= da_MaxFiles /\ Rising(w)
      /\ \A i \in 1..Len(w) : w[i] \in days /\ w[i] < n /\ w[i] \in Nat
  BY <1>3 DEF NamesBefore
<1>5. CASE n \notin days
  <2>1. \A i \in 1..Len(w) : w[i] \in days /\ w[i] < n + 1
    BY <1>2, <1>4
  <2>2. ASSUME NEW d \in days, d < n + 1, \A e \in days : e < n + 1 => e <= d
        PROVE  Len(w) > 0 /\ w[Len(w)] = d
    <3>1. d < n /\ \A e \in days : e < n => e <= d
      BY <1>2, <1>5, <2>2
    <3>2. QED
      BY <1>3, <3>1 DEF NamesBefore
  <2>3. NamesBefore(w, days, n + 1)
    BY <1>4, <2>1, <2>2 DEF NamesBefore
  <2>4. QED
    BY <1>3, <1>5, <2>3
<1>6. CASE n \in days
  <2>1. PICK r : r = PushBack(q, n)
    OBVIOUS
  <2>2. /\ Contents(r) = Append(IF Full(q) THEN Tail(w) ELSE w, n)
    BY <1>1, <1>3, <2>1, PushAppends
  <2>3. Len(w) = da_MaxFiles <=> Full(q)
    <3>1. Len(w) = Size(q)
      BY <1>1, <1>3, ContentsIsSequence
    <3>2. Full(q) <=> Size(q) = da_MaxFiles
      BY <1>1, SizeOfRing
    <3>3. QED
      BY <3>1, <3>2
  <2>4. PICK u : u = Contents(r)
    OBVIOUS
  <2>5. u = Moved(w, n)
    BY <2>2, <2>3, <2>4, Zenon DEF Moved
  <2>6. Queued(w, days, 2 * n)
    <3>1. Day!DayOf(2 * n) = n
      BY <1>2 DEF Day!DayOf
    <3>2. QED
      BY <1>4, <3>1 DEF Queued
  <2>7. Queued(u, days, 2 * n + 2)
    <3>1. Day!DayOf(2 * n) = n /\ Day!DayOf(2 * n + 2) = n + 1
      BY <1>2 DEF Day!DayOf
    <3>2. n <= n /\ n < n + 1 /\ 2 * n \in Nat /\ 2 * n + 2 \in Nat
      BY <1>2
    <3>3. \A d \in days : d \in days \/ (Len(w) = da_MaxFiles /\ d = w[1])
      OBVIOUS
    <3>4. Queued(Moved(w, n), days, 2 * n + 2)
      BY <1>2, <1>6, <2>6, <3>1, <3>2, <3>3, QueueMoves
    <3>5. QED
      BY <2>5, <3>4
  <2>8. /\ u \in Seq(Nat) /\ Len(u) <= da_MaxFiles /\ Rising(u)
        /\ \A i \in 1..Len(u) : u[i] \in days /\ u[i] < n + 1
    <3>1. Day!DayOf(2 * n + 2) = n + 1
      BY <1>2 DEF Day!DayOf
    <3>2. QED
      BY <2>7, <3>1 DEF Queued
  <2>9. Len(u) > 0 /\ u[Len(u)] = n
    <3>1. PICK v : v = IF Full(q) THEN Tail(w) ELSE w
      OBVIOUS
    <3>2. v \in Seq(Nat)
      <4>1. CASE Full(q)
        <5>1. w # <<>>
          BY <1>1, <2>3, <4>1
        <5>2. QED
          BY <1>4, <3>1, <4>1, <5>1
      <4>2. CASE ~Full(q)
        BY <1>4, <3>1, <4>2
      <4>3. QED
        BY <4>1, <4>2
    <3>3. u = Append(v, n)
      BY <2>2, <2>4, <3>1
    <3>4. QED
      BY <1>2, <3>2, <3>3
  <2>10. ASSUME NEW d \in days, d < n + 1, \A e \in days : e < n + 1 => e <= d
         PROVE  Len(u) > 0 /\ u[Len(u)] = d
    <3>1. d = n
      BY <1>2, <1>6, <2>10
    <3>2. QED
      BY <2>9, <3>1
  <2>11. NamesBefore(u, days, n + 1)
    BY <2>8, <2>10 DEF NamesBefore
  <2>12. QED
    BY <1>6, <2>1, <2>4, <2>11
<1>7. QED
  BY <1>5, <1>6

LEMMA PushedIs ==
    ASSUME DailyParameters, NEW days \in SUBSET Day!Days
    PROVE  /\ Day!Pushed(Create(da_MaxFiles), days) \in NamesRing
           /\ NamesBefore(Contents(Day!Pushed(Create(da_MaxFiles), days)), days, da_LastDay + 1)
<1> DEFINE N == da_LastDay + 1
           c == Create(da_MaxFiles)
           F == [p \in Nat \X NamesRing |-> IF p[1] - 1 \in days THEN PushBack(p[2], p[1] - 1) ELSE p[2]]
           Pushes(f) == f = [d \in -1..da_LastDay |->
                               IF d = -1 THEN c
                               ELSE IF d \in days THEN Day!PushBack(f[d - 1], d) ELSE f[d - 1]]
<1>1. da_MaxFiles \in Nat \ {0} /\ da_LastDay \in Nat /\ N \in Nat
  BY DEF DailyParameters
<1>2. c \in NamesRing /\ Contents(c) = <<>>
  <2>1. c = [max |-> da_MaxFiles + 1, head |-> 0, tail |-> 0, over |-> 0, v |-> [i \in 0..da_MaxFiles |-> Unused]]
    BY DEF Create
  <2> HIDE DEF c
  <2>2. Ring(c, Day!Days) /\ c.max = da_MaxFiles + 1 /\ Size(c) = 0
    BY <1>1, <2>1 DEF Ring, Size
  <2>3. Contents(c) = <<>>
    BY <2>2 DEF Contents
  <2>4. QED
    BY <1>1, <2>2, <2>3, InNamesRing
<1>3. ASSUME NEW q \in NamesRing, NEW x \in Day!Days PROVE PushBack(q, x) \in NamesRing
  <2>1. Ring(q, Day!Days) /\ q.max = da_MaxFiles + 1 /\ q.max # 0
    BY <1>1 DEF NamesRing
  <2>2. Ring(PushBack(q, x), Day!Days) /\ PushBack(q, x).max = q.max
    BY <2>1, PushKeeps
  <2>3. QED
    BY <1>1, <2>1, <2>2, InNamesRing
<1>4. F \in [Nat \X NamesRing -> NamesRing]
  <2>1. ASSUME NEW p \in Nat \X NamesRing PROVE F[p] \in NamesRing
    <3>1. PICK n \in Nat, q \in NamesRing : p = <<n, q>>
      OBVIOUS
    <3>2. F[p] = IF n - 1 \in days THEN PushBack(q, n - 1) ELSE q
      BY <3>1
    <3> HIDE DEF F
    <3>3. QED
      BY <1>3, <3>2
  <2>2. QED
    BY <2>1
<1> HIDE DEF c
<1>5. PICK f \in [0..N -> NamesRing] : Chain(f, N, c, F)
  <2> HIDE DEF F, N
  <2>1. QED
    BY <1>1, <1>2, <1>4, RecursionExists
<1>6. f[0] = c /\ \A n \in 1..N : f[n] = IF n - 1 \in days THEN PushBack(f[n - 1], n - 1) ELSE f[n - 1]
  <2>1. ASSUME NEW n \in 1..N PROVE f[n] = IF n - 1 \in days THEN PushBack(f[n - 1], n - 1) ELSE f[n - 1]
    <3>1. n \in Nat /\ n - 1 \in 0..N
      BY <1>1
    <3>2. f[n - 1] \in NamesRing
      BY <1>5, <3>1
    <3>3. f[n] = F[<<n, f[n - 1]>>]
      BY <1>5, Zenon DEF Chain
    <3>4. <<n, f[n - 1]>> \in Nat \X NamesRing
      BY <3>1, <3>2
    <3>5. F[<<n, f[n - 1]>>] = IF n - 1 \in days THEN PushBack(f[n - 1], n - 1) ELSE f[n - 1]
      BY <3>4
    <3>6. QED
      BY <3>3, <3>5
  <2>2. QED
    BY <1>5, <2>1 DEF Chain
<1> DEFINE g == [d \in -1..da_LastDay |-> f[d + 1]]
<1>7. Pushes(g)
  <2>1. ASSUME NEW d \in -1..da_LastDay
        PROVE  g[d] = IF d = -1 THEN c ELSE IF d \in days THEN Day!PushBack(g[d - 1], d) ELSE g[d - 1]
    <3>1. CASE d = -1
      BY <1>1, <1>6, <3>1
    <3>2. CASE d # -1
      <4>1. d + 1 \in 1..N /\ (d + 1) - 1 = d /\ d - 1 \in -1..da_LastDay
        BY <1>1, <3>2
      <4>2. g[d] = f[d + 1] /\ g[d - 1] = f[d]
        BY <1>1, <4>1
      <4>3. f[d + 1] = IF d \in days THEN PushBack(f[d], d) ELSE f[d]
        BY <1>6, <4>1
      <4> HIDE DEF g
      <4>4. QED
        BY <3>2, <4>2, <4>3, DayRing
    <3>3. QED
      BY <3>1, <3>2
  <2>2. QED
    BY <2>1
<1> DEFINE l == CHOOSE h : Pushes(h)
<1>8. Pushes(l)
  BY <1>7
<1>9. Day!Pushed(c, days) = l[da_LastDay]
  BY DEF Day!Pushed
<1> HIDE DEF l, g
<1>10. /\ l[-1] = c
       /\ \A d \in 0..da_LastDay : l[d] = IF d \in days THEN PushBack(l[d - 1], d) ELSE l[d - 1]
  <2>1. \A d \in -1..da_LastDay : l[d] = IF d = -1 THEN c
                                        ELSE IF d \in days THEN Day!PushBack(l[d - 1], d) ELSE l[d - 1]
    BY <1>8
  <2>2. ASSUME NEW d \in 0..da_LastDay PROVE l[d] = IF d \in days THEN PushBack(l[d - 1], d) ELSE l[d - 1]
    <3>1. d \in -1..da_LastDay /\ d # -1
      OBVIOUS
    <3>2. QED
      BY <2>1, <3>1, DayRing
  <2>3. QED
    BY <1>1, <2>1, <2>2
<1> HIDE DEF Pushes
<1> DEFINE T == {n \in Nat : n <= N => /\ l[n - 1] \in NamesRing
                                      /\ NamesBefore(Contents(l[n - 1]), days, n)}
<1>11. 0 \in T
  <2>1. <<>> \in Seq(Nat) /\ Len(<<>>) = 0 /\ \A i \in 1..Len(<<>>) : FALSE
    BY EmptySeq
  <2>2. \A d \in days : ~(d < 0)
    BY DEF Day!Days
  <2>3. NamesBefore(<<>>, days, 0)
    BY <1>1, <2>1, <2>2 DEF NamesBefore, Rising
  <2>4. l[0 - 1] = c
    BY <1>10
  <2>5. QED
    BY <1>2, <2>3, <2>4
<1>12. ASSUME NEW n \in T PROVE n + 1 \in T
  <2>1. n \in Nat
    OBVIOUS
  <2>2. CASE n + 1 <= N
    <3>1. n \in 0..da_LastDay /\ n <= N
      BY <1>1, <2>1, <2>2
    <3>2. l[n - 1] \in NamesRing /\ NamesBefore(Contents(l[n - 1]), days, n)
      BY <3>1
    <3>3. l[n] = IF n \in days THEN PushBack(l[n - 1], n) ELSE l[n - 1]
      BY <1>10, <3>1
    <3>4. n \in Day!Days
      BY <3>1 DEF Day!Days
    <3>5. l[n] \in NamesRing
      BY <1>3, <3>2, <3>3, <3>4
    <3>6. NamesBefore(Contents(l[n]), days, n + 1)
      BY <3>2, <3>3, <3>4, PushedName
    <3>7. (n + 1) - 1 = n
      BY <2>1
    <3>8. QED
      BY <2>1, <3>5, <3>6, <3>7
  <2>3. CASE ~(n + 1 <= N)
    BY <2>1, <2>3
  <2>4. QED
    BY <2>2, <2>3
<1>13. T = Nat
  <2> HIDE DEF T
  <2>1. T \in SUBSET Nat
    BY DEF T
  <2>2. QED
    BY <1>11, <1>12, <2>1, Induction
<1>14. l[N - 1] \in NamesRing /\ NamesBefore(Contents(l[N - 1]), days, N)
  <2>1. N \in T
    <3> HIDE DEF T, N
    <3>1. QED
      BY <1>1, <1>13
  <2>2. N <= N
    BY <1>1
  <2>3. QED
    BY <2>1, <2>2
<1>15. N - 1 = da_LastDay
  BY <1>1
<1>16. QED
  BY <1>9, <1>14, <1>15 DEF c

LEMMA DailyBegins == ASSUME DailyParameters, Day!Init PROVE DayInv
<1>1. da_now = 2 /\ da_rotation \in {0, 1} /\ 2 <= 2 * da_LastDay + 1 /\ da_MaxFaults \in Nat
  BY DEF Day!Init, DailyParameters
<1>2. da_alive \in BOOLEAN /\ da_isOpen \in BOOLEAN /\ ~da_alive
  BY Zenon DEF Day!Init
<1>3. Ring(da_filenames_q_, Day!Days)
  BY DayRing DEF Day!Init, Ring
<1>4. DOMAIN da_files \subseteq 0..Day!DayOf(da_now)
  BY DEF Day!Init
<1>5. /\ da_rotation_tp_ \in Nat /\ da_file \in Day!Days \cup {Day!NoDay} /\ da_faults \in 0..da_MaxFaults
      /\ da_missed \in {0, 1}
  BY <1>1 DEF Day!Init
<1>6. da_now \in 0..(2 * da_LastDay + 1)
  BY <1>1 DEF DailyParameters
<1>7. QED
  BY <1>1, <1>2, <1>3, <1>4, <1>5, <1>6, Zenon DEF DayInv, DayState

LEMMA DailyTick == ASSUME DailyParameters, DayInv, Day!Tick PROVE DayInv'
<1>1. /\ DayState /\ da_LastDay \in Nat
      /\ (da_alive /\ da_rotation = 0 => Midnight)
  BY DEF DayInv, DailyParameters
<1>2. /\ da_now' \in 0..(2 * da_LastDay + 1) /\ da_now \in Nat /\ da_now' \in Nat /\ da_now <= da_now'
  BY <1>1 DEF Day!Tick, DayState
<1>3. /\ da_rotation' = da_rotation /\ da_alive' = da_alive /\ da_rotation_tp_' = da_rotation_tp_
      /\ da_file' = da_file /\ da_isOpen' = da_isOpen /\ da_filenames_q_' = da_filenames_q_
      /\ da_files' = da_files /\ da_faults' = da_faults /\ da_opened' = da_opened /\ da_missed' = da_missed
  BY DEF Day!Tick
<1>4. PICK a \in Nat, b \in Nat : a = Day!DayOf(da_now) /\ b = Day!DayOf(da_now') /\ a <= b
  <2>1. PICK s \in Nat, t \in Nat : s = da_now /\ t = da_now' /\ s <= t
    BY <1>2
  <2>2. Day!DayOf(s) \in Nat /\ Day!DayOf(t) \in Nat /\ Day!DayOf(s) <= Day!DayOf(t)
    BY <2>1, Halves
  <2>3. QED
    BY <2>1, <2>2
<1>5. DOMAIN da_files' \subseteq 0..Day!DayOf(da_now')
  <2>1. DOMAIN da_files \subseteq 0..a
    BY <1>1, <1>4 DEF DayState
  <2>2. DOMAIN da_files' \subseteq 0..b
    BY <1>3, <1>4, <2>1
  <2>3. QED
    BY <1>4, <2>2, Zenon
<1>6. DayState'
  BY <1>1, <1>2, <1>3, <1>5, Zenon DEF DayState, Day!DayOf, Day!Days
<1>7. Midnight => Midnight'
  BY <1>3, Zenon DEF Midnight
<1>8. QED
  BY <1>1, <1>3, <1>6, <1>7, Zenon DEF DayInv

LEMMA QuietStep ==
    ASSUME DailyParameters, DayInv,
           UNCHANGED <<da_now, da_rotation, da_rotation_tp_, da_filenames_q_, da_opened, da_missed>>,
           DOMAIN da_files' = DOMAIN da_files, da_file' \in Day!Days \cup {Day!NoDay},
           da_alive' \in BOOLEAN, da_alive' => da_alive, da_isOpen' \in BOOLEAN,
           da_faults' \in 0..da_MaxFaults, da_faults <= da_faults'
    PROVE  DayInv'
<1>1. /\ da_now' = da_now /\ da_rotation' = da_rotation /\ da_rotation_tp_' = da_rotation_tp_
      /\ da_filenames_q_' = da_filenames_q_ /\ da_opened' = da_opened /\ da_missed' = da_missed
  OBVIOUS
<1>2. DayState
  BY DEF DayInv
<1>3. DayState'
  BY <1>1, <1>2, Zenon DEF DayState, Day!DayOf, Day!Days, Day!NoDay
<1>4. ASSUME da_alive', da_rotation' = 0 PROVE Midnight'
  <2>1. Midnight
    BY <1>1, <1>4 DEF DayInv
  <2>2. PICK w, o, D, n, m : /\ w = Contents(da_filenames_q_) /\ D = DOMAIN da_files
                             /\ o = DaysNoted(da_opened, da_missed)
                             /\ n = da_faults /\ m = da_faults'
    OBVIOUS
  <2>3. FewLeft(w, o, D, m)
    <3>1. IsFiniteSet(Leftover(w, o, D)) /\ Cardinality(Leftover(w, o, D)) <= n
      BY <2>1, <2>2 DEF Midnight, FewLeft
    <3>2. Cardinality(Leftover(w, o, D)) \in Nat
      BY <3>1, FS_CardinalityType
    <3>3. n \in Nat /\ m \in Nat /\ n <= m
      BY <1>2, <2>2 DEF DayState, DailyParameters
    <3>4. QED
      BY <3>1, <3>2, <3>3 DEF FewLeft
  <2>4. /\ Queued(w, D, da_rotation_tp_) /\ EndsWith(w, o)
        /\ MissedStays(w, da_opened, D, da_rotation_tp_, da_missed)
    BY <2>1, <2>2 DEF Midnight
  <2>5. /\ w = Contents(da_filenames_q_)' /\ o = DaysNoted(da_opened', da_missed') /\ D = DOMAIN da_files'
    BY <1>1, <2>2
  <2>6. QED
    BY <1>1, <2>2, <2>3, <2>4, <2>5, Zenon DEF Midnight
<1>5. QED
  BY <1>3, <1>4 DEF DayInv

LEMMA DailyDestruct == ASSUME DailyParameters, DayInv, Day!Destruct PROVE DayInv'
<1>1. DayState
  BY DEF DayInv
<1>2. /\ da_now' = da_now /\ da_rotation' = da_rotation /\ da_files' = da_files /\ da_faults' = da_faults
      /\ da_rotation_tp_' = 0 /\ da_file' = Day!NoDay /\ da_missed' = 0
      /\ da_filenames_q_' = Day!Disabled
  BY DEF Day!Destruct, Day!clock
<1>3. da_alive' = FALSE /\ da_isOpen' = FALSE
  BY Zenon DEF Day!Destruct
<1>4. Ring(da_filenames_q_', Day!Days)
  BY <1>2, DayRing DEF Ring
<1>5. da_rotation_tp_' \in Nat /\ da_file' \in Day!Days \cup {Day!NoDay} /\ da_missed' \in {0, 1}
  BY <1>2
<1>6. da_alive' \in BOOLEAN /\ da_isOpen' \in BOOLEAN /\ ~da_alive'
  BY <1>3, Zenon
<1>7. DayState'
  BY <1>1, <1>2, <1>4, <1>5, <1>6, Zenon DEF DayState, Day!DayOf, Day!Days, Day!NoDay
<1>8. QED
  BY <1>6, <1>7, Zenon DEF DayInv

\* A message is of a day that has come.
LEMMA MessageDay ==
    ASSUME DailyParameters, DayState, NEW t \in {n \in 0..da_now : n >= da_now - da_Delay}
    PROVE  /\ t \in Nat /\ Day!DayOf(t) \in Day!Days /\ Day!DayOf(t) <= Day!DayOf(da_now)
           /\ Day!DayOf(da_now) \in Day!Days
<1>1. PICK n \in Nat, l \in Nat : n = da_now /\ l = da_LastDay /\ n <= 2 * l + 1
  BY DEF DayState, DailyParameters
<1>2. t \in Nat /\ t <= n
  BY <1>1
<1>3. /\ Day!DayOf(t) \in Nat /\ Day!DayOf(t) <= Day!DayOf(n) /\ Day!DayOf(n) \in Nat
      /\ Day!DayOf(n) <= l
  BY <1>1, <1>2, Halves
<1>4. QED
  BY <1>1, <1>2, <1>3 DEF Day!Days

LEMMA DailyLog ==
    ASSUME DailyParameters, DayInv, NEW t \in {n \in 0..da_now : n >= da_now - da_Delay},
           Day!Log(t) \/ Day!LogOpenFails(t)
    PROVE  DayInv'
<1>1. DayState
  BY DEF DayInv
<1>2. CASE Day!Log(t)
  <2>1. /\ UNCHANGED <<da_now, da_rotation, da_rotation_tp_, da_filenames_q_, da_opened, da_missed>>
        /\ da_file' = da_file /\ da_faults' = da_faults
    BY <1>2 DEF Day!Log, Day!clock
  <2>2. da_alive' = da_alive /\ da_isOpen' = da_isOpen
    BY <1>2, Zenon DEF Day!Log
  <2>3. DOMAIN da_files' = DOMAIN da_files
    <3>1. da_files' = IF da_file \in DOMAIN da_files THEN Day!WriteTo(da_files, da_file, t) ELSE da_files
      BY <1>2 DEF Day!Log
    <3>2. DOMAIN Day!WriteTo(da_files, da_file, t) = DOMAIN da_files
      BY DEF Day!WriteTo
    <3>3. QED
      BY <3>1, <3>2
  <2>4. da_alive' \in BOOLEAN /\ da_isOpen' \in BOOLEAN /\ (da_alive' => da_alive)
    BY <1>1, <2>2, Zenon DEF DayState
  <2>5. da_file' \in Day!Days \cup {Day!NoDay}
    BY <1>1, <2>1 DEF DayState
  <2>6. da_faults' \in 0..da_MaxFaults /\ da_faults <= da_faults'
    BY <1>1, <2>1 DEF DayState
  <2>7. QED
    BY <2>1, <2>3, <2>4, <2>5, <2>6, QuietStep
<1>3. CASE Day!LogOpenFails(t)
  <2>1. /\ UNCHANGED <<da_now, da_rotation, da_rotation_tp_, da_filenames_q_, da_opened, da_missed>>
        /\ da_files' = da_files /\ da_file' = Day!DayOf(t)
        /\ da_faults < da_MaxFaults /\ da_faults' = da_faults + 1
    BY <1>3 DEF Day!LogOpenFails, Day!clock
  <2>2. da_alive' = da_alive /\ da_isOpen' = FALSE
    BY <1>3, Zenon DEF Day!LogOpenFails
  <2>4. da_alive' \in BOOLEAN /\ da_isOpen' \in BOOLEAN /\ (da_alive' => da_alive)
    BY <1>1, <2>2, Zenon DEF DayState
  <2>5. da_file' \in Day!Days \cup {Day!NoDay}
    BY <1>1, <2>1, MessageDay
  <2>6. da_faults' \in 0..da_MaxFaults /\ da_faults <= da_faults'
    BY <1>1, <2>1 DEF DayState, DailyParameters
  <2>7. QED
    BY <2>1, <2>4, <2>5, <2>6, QuietStep
<1>4. QED
  BY <1>2, <1>3

LEMMA MovedRing ==
    ASSUME DailyParameters, NEW q, Ring(q, Day!Days), q.max = da_MaxFiles + 1, NEW day \in Day!Days,
           NEW r, r = PushBack(IF Full(q) THEN PopFront(q) ELSE q, day)
    PROVE  /\ Ring(r, Day!Days) /\ r.max = da_MaxFiles + 1
           /\ Contents(r) = Moved(Contents(q), day)
           /\ Full(q) <=> Len(Contents(q)) = da_MaxFiles
           /\ Full(q) => FrontItem(q) = Contents(q)[1]
<1>1. da_MaxFiles \in Nat \ {0} /\ q.max > 1 /\ q.max # 0
  BY DEF DailyParameters
<1>2. PICK w : w = Contents(q)
  OBVIOUS
<1>3. w \in Seq(Day!Days \cup {Unused}) /\ Len(w) = Size(q) /\ Len(w) \in Nat
  <2>1. w \in Seq(Day!Days \cup {Unused}) /\ Len(w) = Size(q)
    BY <1>1, <1>2, ContentsIsSequence, Zenon
  <2>2. QED
    BY <2>1
<1>4. (Full(q) <=> Len(w) = da_MaxFiles) /\ (Empty(q) <=> Len(w) = 0)
  <2>1. (Full(q) <=> Size(q) = q.max - 1) /\ (Empty(q) <=> Size(q) = 0)
    BY <1>1, SizeOfRing
  <2>2. QED
    BY <1>1, <1>3, <2>1
<1>5. CASE ~Full(q)
  <2>1. r = PushBack(q, day)
    BY <1>5
  <2>2. Ring(r, Day!Days) /\ r.max = da_MaxFiles + 1 /\ Contents(r) = Append(w, day)
    BY <1>1, <1>2, <1>5, <2>1, PushAppends, PushKeeps
  <2>3. Moved(w, day) = Append(w, day)
    BY <1>4, <1>5, Zenon DEF Moved
  <2>4. QED
    BY <1>2, <1>4, <1>5, <2>2, <2>3, Zenon
<1>6. CASE Full(q)
  <2>1. PICK p : p = PopFront(q)
    OBVIOUS
  <2>2. ~Empty(q)
    BY <1>1, <1>4, <1>6
  <2>3. Ring(p, Day!Days) /\ FrontItem(q) = Head(w) /\ Contents(p) = Tail(w)
    BY <1>1, <1>2, <2>1, <2>2, PopTakesOldest
  <2>4. p.max = q.max /\ p.max > 1 /\ p.max # 0
    <3>1. q = [max |-> q.max, head |-> q.head, tail |-> q.tail, over |-> q.over, v |-> q.v]
      BY <1>1, Fields, Zenon
    <3>2. p.max = q.max
      BY <2>1, <3>1 DEF PopFront
    <3>3. QED
      BY <1>1, <3>2
  <2>5. w # <<>> /\ Len(Tail(w)) = da_MaxFiles - 1 /\ Head(w) = w[1]
    BY <1>1, <1>3, <1>4, <1>6
  <2>6. ~Full(p)
    <3>1. Full(p) <=> Size(p) = p.max - 1
      BY <2>3, <2>4, SizeOfRing
    <3>2. Len(Contents(p)) = Size(p)
      BY <2>3, <2>4, ContentsIsSequence
    <3>3. QED
      BY <1>1, <2>3, <2>4, <2>5, <3>1, <3>2
  <2>7. r = PushBack(p, day)
    BY <1>6, <2>1
  <2>8. Ring(r, Day!Days) /\ r.max = da_MaxFiles + 1 /\ Contents(r) = Append(Tail(w), day)
    BY <2>3, <2>4, <2>6, <2>7, PushAppends, PushKeeps
  <2>9. Moved(w, day) = Append(Tail(w), day)
    BY <1>4, <1>6, Zenon DEF Moved
  <2>10. QED
    BY <1>2, <1>4, <1>6, <2>3, <2>5, <2>8, <2>9, Zenon
<1>7. QED
  BY <1>5, <1>6

LEMMA DailyRotates ==
    ASSUME DailyParameters, DayInv, NEW t \in {n \in 0..da_now : n >= da_now - da_Delay},
           Day!LogRotating(t)
    PROVE  DayInv'
<1>1. DayState
  BY DEF DayInv
<1>2. PICK day, now : day = Day!DayOf(t) /\ now = Day!DayOf(da_now)
  OBVIOUS
<1>3. t \in Nat /\ day \in Day!Days /\ day \in Nat /\ day <= now /\ now \in Nat
  BY <1>1, <1>2, MessageDay DEF Day!Days
<1>4. PICK fs : fs = Day!WriteTo(Day!Opened(day), day, t)
  OBVIOUS
<1>5. DOMAIN fs = DOMAIN da_files \cup {day}
  BY <1>4 DEF Day!WriteTo, Day!Opened
<1>6. /\ da_now' = da_now /\ da_rotation' = da_rotation /\ da_alive' = da_alive
      /\ da_file' = day /\ t >= da_rotation_tp_
      /\ da_rotation_tp_' = Day!next_rotation_tp_(da_now) /\ da_opened' = Append(da_opened, day)
      /\ da_missed' = da_missed
  BY <1>2 DEF Day!LogRotating, Day!clock
<1>7. da_alive /\ da_isOpen' = TRUE
  BY Zenon DEF Day!LogRotating
<1>8. PICK c \in Day!Clean(fs, day) : /\ da_files' = c.files /\ da_filenames_q_' = c.q
                                      /\ da_faults' = IF c.ok THEN da_faults ELSE da_faults + 1
  BY <1>2, <1>4 DEF Day!LogRotating
<1>9. PICK q : q = da_filenames_q_
  OBVIOUS
<1>10. PICK r : r = PushBack(IF Full(q) THEN PopFront(q) ELSE q, day)
  OBVIOUS
<1>11. PICK w : w = Contents(q)
  OBVIOUS
<1>12. Ring(q, Day!Days) /\ q.max = da_MaxFiles + 1
  BY <1>1, <1>7, <1>9 DEF DayState
<1>13. /\ Ring(r, Day!Days) /\ r.max = da_MaxFiles + 1 /\ Contents(r) = Moved(w, day)
       /\ (Full(q) <=> Len(w) = da_MaxFiles) /\ (Full(q) => FrontItem(q) = w[1])
  BY <1>3, <1>10, <1>11, <1>12, MovedRing
<1>14. /\ c.q = r
       /\ \/ /\ Full(q) /\ c.files = Day!Without(fs, FrontItem(q)) /\ c.ok = TRUE
          \/ /\ Full(q) /\ c.files = fs /\ c.ok = FALSE /\ da_faults < da_MaxFaults
          \/ /\ ~Full(q) /\ c.files = fs /\ c.ok = TRUE
  <2>1. CASE Full(q)
    <3>1. Day!Full(q) /\ Day!FrontItem(q) = FrontItem(q) /\ Day!PushBack(Day!PopFront(q), day) = r
      BY <1>10, <2>1, DayRing
    <3>2. \/ c = [files |-> Day!Without(fs, FrontItem(q)), q |-> r, ok |-> TRUE]
          \/ c = [files |-> fs, q |-> r, ok |-> FALSE] /\ da_faults < da_MaxFaults
      BY <1>9, <3>1 DEF Day!Clean
    <3>3. QED
      BY <2>1, <3>2
  <2>2. CASE ~Full(q)
    <3>1. ~Day!Full(q) /\ Day!PushBack(q, day) = r
      BY <1>10, <2>2, DayRing
    <3>2. c = [files |-> fs, q |-> r, ok |-> TRUE]
      BY <1>9, <3>1 DEF Day!Clean
    <3>3. QED
      BY <2>2, <3>2
  <2>3. QED
    BY <2>1, <2>2
<1>15. PICK E : E = DOMAIN da_files'
  OBVIOUS
<1>16. PICK D : D = DOMAIN da_files
  OBVIOUS
<1>17. /\ E \subseteq D \cup {day}
       /\ \A d \in D \cup {day} : d \in E \/ (Len(w) = da_MaxFiles /\ d = w[1])
       /\ \/ da_faults' = da_faults + 1 /\ da_faults < da_MaxFaults /\ E = D \cup {day}
          \/ da_faults' = da_faults /\ (Len(w) = da_MaxFiles => w[1] \notin E)
  <2>1. CASE Full(q) /\ c.files = Day!Without(fs, FrontItem(q)) /\ c.ok = TRUE
    <3>1. E = (D \cup {day}) \ {w[1]} /\ da_faults' = da_faults /\ Len(w) = da_MaxFiles
      BY <1>5, <1>8, <1>13, <1>15, <1>16, <2>1 DEF Day!Without
    <3>2. QED
      BY <3>1
  <2>2. CASE Full(q) /\ c.files = fs /\ c.ok = FALSE /\ da_faults < da_MaxFaults
    BY <1>5, <1>8, <1>15, <1>16, <2>2
  <2>3. CASE ~Full(q) /\ c.files = fs /\ c.ok = TRUE
    BY <1>5, <1>8, <1>13, <1>15, <1>16, <2>3
  <2>4. QED
    BY <1>14, <2>1, <2>2, <2>3
<1>18. da_faults \in Nat /\ da_faults' \in 0..da_MaxFaults
  BY <1>1, <1>17 DEF DayState, DailyParameters
<1>19. E \subseteq 0..now
  BY <1>1, <1>2, <1>3, <1>16, <1>17 DEF DayState
<1>20. /\ da_rotation_tp_' \in Nat /\ da_rotation_tp_ \in Nat /\ da_now \in Nat /\ da_rotation \in {0, 1}
       /\ (da_rotation = 0 => Day!DayOf(da_rotation_tp_') = now + 1)
  <2>1. da_rotation_tp_ \in Nat /\ da_now \in Nat /\ da_rotation \in {0, 1}
    BY <1>1 DEF DayState
  <2>2. PICK x : x = Day!next_rotation_tp_(da_now)
    OBVIOUS
  <2>3. x \in Nat /\ (da_rotation = 0 => Day!DayOf(x) = now + 1)
    BY <1>2, <2>1, <2>2, NextDay
  <2>4. x = da_rotation_tp_'
    BY <1>6, <2>2
  <2>5. QED
    BY <2>1, <2>3, <2>4, Zenon
<1>21. DayState'
  <2>1. da_alive' \in BOOLEAN /\ da_isOpen' \in BOOLEAN
    BY <1>1, <1>6, <1>7, Zenon DEF DayState
  <2>2. da_now' \in 0..(2 * da_LastDay + 1) /\ da_rotation' \in {0, 1}
    BY <1>1, <1>6 DEF DayState
  <2>3. Ring(da_filenames_q_', Day!Days) /\ da_filenames_q_'.max = da_MaxFiles + 1
    BY <1>8, <1>13, <1>14
  <2>4. DOMAIN da_files' \subseteq 0..Day!DayOf(da_now')
    <3>1. now = Day!DayOf(da_now')
      BY <1>2, <1>6
    <3>2. QED
      BY <1>15, <1>19, <3>1, Zenon
  <2>5. da_file' \in Day!Days \cup {Day!NoDay} /\ da_missed' \in {0, 1}
    BY <1>1, <1>3, <1>6 DEF DayState
  <2>6. QED
    BY <1>18, <1>20, <2>1, <2>2, <2>3, <2>4, <2>5, Zenon DEF DayState, Day!DayOf, Day!Days, Day!NoDay
<1>22. ASSUME da_rotation = 0 PROVE Midnight'
  <2>1. PICK tp, tp2, o, n, x : /\ tp = da_rotation_tp_ /\ tp2 = da_rotation_tp_' /\ n = da_faults
                                /\ o = DaysNoted(da_opened, da_missed) /\ x = da_opened
    OBVIOUS
  <2>2. /\ Queued(w, D, tp) /\ EndsWith(w, o) /\ FewLeft(w, o, D, n)
        /\ MissedStays(w, x, D, tp, da_missed)
    BY <1>7, <1>9, <1>11, <1>16, <1>22, <2>1 DEF DayInv, Midnight
  <2>3. tp \in Nat /\ tp2 \in Nat /\ n \in Nat /\ Day!DayOf(tp2) = now + 1
    BY <1>18, <1>20, <1>22, <2>1
  <2>4. Day!DayOf(tp) <= day /\ day < Day!DayOf(tp2)
    <3>1. tp <= t
      BY <1>3, <1>6, <2>1, <2>3
    <3>2. Day!DayOf(tp) <= day
      BY <1>2, <1>3, <2>3, <3>1, Halves
    <3>3. QED
      BY <1>3, <2>3, <3>2
  <2>5. day \in E
    <3>1. ~(Len(w) = da_MaxFiles /\ day = w[1])
      <4>1. SUFFICES ASSUME Len(w) = da_MaxFiles, day = w[1] PROVE FALSE
        OBVIOUS
      <4>2. 1 \in 1..Len(w)
        BY <4>1 DEF DailyParameters
      <4>3. w[1] < Day!DayOf(tp) /\ Day!DayOf(tp) \in Nat
        BY <2>2, <2>3, <4>2, Halves DEF Queued
      <4>4. QED
        BY <1>3, <2>4, <4>1, <4>3
    <3>2. QED
      BY <1>17, <3>1
  <2>6. Queued(Moved(w, day), E, tp2)
    <3>1. \A d \in D : d \in E \/ (Len(w) = da_MaxFiles /\ d = w[1])
      BY <1>17
    <3>2. QED
      BY <1>3, <2>2, <2>3, <2>4, <2>5, <3>1, QueueMoves
  <2>7. EndsWith(Moved(w, day), Append(o, day))
    BY <1>3, <2>2, EndMoves
  <2>8. FewLeft(Moved(w, day), Append(o, day), E, da_faults')
    <3>1. o \in Seq(Nat) /\ E \subseteq D \cup {day}
      BY <1>17, <2>2 DEF EndsWith
    <3>2. /\ FewLeft(Moved(w, day), Append(o, day), E, n + 1)
          /\ (Len(w) = da_MaxFiles => w[1] \notin E) => FewLeft(Moved(w, day), Append(o, day), E, n)
      BY <1>3, <2>2, <2>3, <3>1, LeftMoves
    <3>3. QED
      BY <1>17, <2>1, <3>2
  <2>9. Contents(da_filenames_q_)' = Moved(w, day)
    <3>1. da_filenames_q_' = r
      BY <1>8, <1>14
    <3>2. Contents(da_filenames_q_)' = Contents(r)
      BY <3>1, Zenon DEF Contents, Size, ItemAt
    <3>3. QED
      BY <1>13, <3>2
  <2>10. MissedStays(Moved(w, day), Append(x, day), E, tp2, da_missed)
    <3>1. w \in Seq(Nat) /\ \A d \in D : d \in E \/ (Len(w) = da_MaxFiles /\ d = w[1])
      BY <1>17, <2>2 DEF Queued
    <3>2. QED
      BY <1>3, <2>2, <2>3, <2>4, <3>1, MissedMoves
  <2>11. Append(o, day) = DaysNoted(Append(x, day), da_missed)
    BY <1>3, <2>1, <2>2, NotedMoves
  <2>12. da_opened' = Append(x, day) /\ da_missed' = da_missed
    BY <1>6, <2>1
  <2>13. QED
    BY <1>15, <2>1, <2>6, <2>7, <2>8, <2>9, <2>10, <2>11, <2>12, Zenon DEF Midnight
<1>23. QED
  BY <1>6, <1>21, <1>22 DEF DayInv

LEMMA DailyConstruct == ASSUME DailyParameters, DayInv, Day!Construct PROVE DayInv'
<1>1. DayState /\ da_MaxFiles \in Nat \ {0}
  BY DEF DayInv, DailyParameters
<1>2. PICK L \in Nat, T \in Nat :
        /\ L = da_LastDay /\ T = da_now /\ T <= 2 * L + 1
  BY <1>1 DEF DayState, DailyParameters
<1>3. PICK t \in da_now..(2 * da_LastDay + 1) : \E u \in t..(2 * da_LastDay + 1) :
        /\ da_rotation_tp_' = Day!next_rotation_tp_(t)
        /\ da_filenames_q_' = Day!Pushed(Day!Create(da_MaxFiles), Day!Found(da_files', u))
        /\ da_missed' = IF Day!DayOf(u) = Day!DayOf(da_now) THEN 0 ELSE 1
        /\ da_now' = u
  BY DEF Day!Construct
<1>u. PICK u \in t..(2 * da_LastDay + 1) :
        /\ da_rotation_tp_' = Day!next_rotation_tp_(t)
        /\ da_filenames_q_' = Day!Pushed(Day!Create(da_MaxFiles), Day!Found(da_files', u))
        /\ da_missed' = IF Day!DayOf(u) = Day!DayOf(da_now) THEN 0 ELSE 1
        /\ da_now' = u
  BY <1>3
<1>4. t \in Nat /\ u \in Nat /\ T <= t /\ t <= u /\ u <= 2 * L + 1
  BY <1>2
<1>5. PICK today \in Nat, d \in Nat, last \in Nat :
        /\ today = Day!DayOf(T) /\ d = Day!DayOf(t) /\ last = Day!DayOf(u)
        /\ today <= d /\ d <= last /\ last <= L
  <2>1. /\ Day!DayOf(T) \in Nat /\ Day!DayOf(t) \in Nat /\ Day!DayOf(u) \in Nat
        /\ Day!DayOf(T) <= Day!DayOf(t) /\ Day!DayOf(t) <= Day!DayOf(u) /\ Day!DayOf(u) <= L
    BY <1>2, <1>4, Halves
  <2>2. QED
    BY <2>1
<1>6. PICK D : D = DOMAIN da_files'
  OBVIOUS
<1>7. D = DOMAIN da_files \cup {today} /\ D \subseteq 0..today /\ D \subseteq Day!Days
  <2>1. D = DOMAIN da_files \cup {today}
    BY <1>2, <1>5, <1>6 DEF Day!Construct, Day!Opened
  <2>2. DOMAIN da_files \subseteq 0..today
    BY <1>1, <1>2, <1>5 DEF DayState
  <2>3. D \subseteq 0..today
    BY <1>5, <2>1, <2>2
  <2>4. QED
    BY <1>2, <1>5, <2>1, <2>3 DEF Day!Days
<1>8. PICK days : days = {e \in D : e > last - da_MaxFiles /\ \A k \in e..last : k \in D}
  OBVIOUS
<1>9. Day!Found(da_files', u) = days
  BY <1>5, <1>6, <1>8 DEF Day!Found
<1>10. PICK q : q = Day!Pushed(Create(da_MaxFiles), days)
  OBVIOUS
<1>11. PICK w : w = Contents(q)
  OBVIOUS
<1>12. q \in NamesRing /\ NamesBefore(w, days, da_LastDay + 1)
  <2>1. days \in SUBSET Day!Days
    BY <1>7, <1>8
  <2>2. QED
    BY <1>10, <1>11, <2>1, PushedIs
<1>13. Ring(q, Day!Days) /\ q.max = da_MaxFiles + 1
  BY <1>1, <1>12, InNamesRing
<1>14. /\ w \in Seq(Nat) /\ Len(w) \in Nat /\ Len(w) <= da_MaxFiles /\ Rising(w)
       /\ \A i \in 1..Len(w) : w[i] \in days /\ w[i] \in D /\ w[i] <= today /\ w[i] \in Nat
  <2>1. \A e \in days : e \in D /\ e <= today /\ e \in Nat
    BY <1>7, <1>8
  <2>2. QED
    BY <1>12, <2>1 DEF NamesBefore
<1>15. /\ da_rotation' = da_rotation /\ da_file' = today /\ da_now' = u
       /\ da_opened' = <<today>> /\ da_faults' = da_faults /\ da_filenames_q_' = q
       /\ da_missed' = IF last = today THEN 0 ELSE 1
  <2>1. Day!Create(da_MaxFiles) = Create(da_MaxFiles)
    BY DayRing
  <2>2. da_filenames_q_' = q
    BY <1>u, <1>9, <1>10, <2>1
  <2>3. da_missed' = IF last = today THEN 0 ELSE 1
    BY <1>2, <1>u, <1>5
  <2>4. QED
    BY <1>2, <1>u, <1>5, <2>2, <2>3 DEF Day!Construct
<1>16. da_alive' \in BOOLEAN /\ da_isOpen' \in BOOLEAN
  BY Zenon DEF Day!Construct
<1>17. PICK tp : tp = da_rotation_tp_'
  OBVIOUS
<1>18. tp \in Nat /\ (da_rotation = 0 => Day!DayOf(tp) = d + 1)
  <2>1. PICK x : x = Day!next_rotation_tp_(t)
    OBVIOUS
  <2>2. x \in Nat /\ (da_rotation = 0 => Day!DayOf(x) = d + 1)
    BY <1>1, <1>4, <1>5, <2>1, NextDay DEF DayState
  <2>3. x = tp
    BY <1>u, <1>17, <2>1
  <2>4. QED
    BY <2>2, <2>3
<1>19. DayState'
  <2>1. /\ da_now' \in 0..(2 * da_LastDay + 1) /\ da_rotation' \in {0, 1} /\ da_faults' \in 0..da_MaxFaults
        /\ da_missed' \in {0, 1}
    BY <1>1, <1>2, <1>4, <1>15 DEF DayState
  <2>2. Ring(da_filenames_q_', Day!Days) /\ da_filenames_q_'.max = da_MaxFiles + 1
    BY <1>13, <1>15
  <2>3. DOMAIN da_files' \subseteq 0..Day!DayOf(da_now')
    <3>1. last = Day!DayOf(da_now') /\ D \subseteq 0..last
      BY <1>5, <1>7, <1>15
    <3>2. QED
      BY <1>6, <3>1, Zenon
  <2>4. da_file' \in Day!Days \cup {Day!NoDay}
    BY <1>2, <1>5, <1>15 DEF Day!Days
  <2>5. da_rotation_tp_' \in Nat
    BY <1>17, <1>18
  <2>6. QED
    BY <1>16, <2>1, <2>2, <2>3, <2>4, <2>5, Zenon DEF DayState, Day!DayOf, Day!Days, Day!NoDay
<1>20. ASSUME da_rotation = 0 PROVE Midnight'
  <2>1. PICK o, n, m : o = DaysNoted(<<today>>, m) /\ n = da_faults /\ m = da_missed'
    OBVIOUS
  <2>2. Queued(w, D, tp)
    <3>1. Day!DayOf(tp) = d + 1
      BY <1>18, <1>20
    <3>2. \A i \in 1..Len(w) : w[i] \in D /\ w[i] < Day!DayOf(tp)
      BY <1>5, <1>14, <3>1
    <3>3. QED
      BY <1>14, <3>2 DEF Queued
  <2>3. n \in Nat
    BY <1>1, <2>1 DEF DayState, DailyParameters
  <2>4. EndsWith(w, o) /\ FewLeft(w, o, D, n) /\ MissedStays(w, <<today>>, D, tp, m)
    <3>1. CASE last = today
      <4>1. m = 0 /\ o = <<today>> /\ o \in Seq(Nat) /\ Len(o) = 1 /\ o[1] = today /\ Elements(o) = {today}
        BY <1>5, <1>15, <2>1, <3>1 DEF DaysNoted, Elements
      <4>2. today \in days /\ \A e \in days : e < da_LastDay + 1 => e <= today
        <5>1. today > last - da_MaxFiles /\ \A k \in today..last : k \in D
          BY <1>1, <1>5, <1>7, <3>1
        <5>2. QED
          BY <1>5, <1>7, <1>8, <5>1
      <4>3. Len(w) > 0 /\ w[Len(w)] = today
        <5>1. today < da_LastDay + 1
          BY <1>2, <1>5
        <5>2. QED
          BY <1>12, <4>2, <5>1 DEF NamesBefore
      <4>4. EndsWith(w, o)
        <5>1. ASSUME NEW i \in 1..Len(w), i <= Len(o) PROVE w[Len(w) + 1 - i] = o[Len(o) + 1 - i]
          <6>1. i = 1 /\ Len(w) + 1 - i = Len(w) /\ Len(o) + 1 - i = 1
            BY <1>14, <4>1, <5>1
          <6>2. QED
            BY <4>1, <4>3, <6>1
        <5>2. QED
          BY <1>14, <4>1, <4>3, <5>1 DEF EndsWith
      <4>5. FewLeft(w, o, D, n)
        <5>1. Len(w) \in DOMAIN w
          BY <1>14, <4>3
        <5>2. today \in Elements(w)
          BY <4>3, <5>1, Zenon DEF Elements
        <5>3. Leftover(w, o, D) = {}
          BY <4>1, <5>2 DEF Leftover
        <5>4. QED
          BY <2>3, <5>3, FS_EmptySet DEF FewLeft
      <4>6. QED
        BY <4>1, <4>4, <4>5 DEF MissedStays
    <3>2. CASE last # today
      <4>1. m = 1 /\ o = <<>> /\ Elements(o) = {} /\ o \in Seq(Nat) /\ Len(o) = 0
        <5>1. m = 1
          BY <1>15, <2>1, <3>2
        <5>2. o = <<>>
          BY <2>1, <5>1 DEF DaysNoted
        <5>3. QED
          BY <5>1, <5>2, EmptySeq DEF Elements
      <4>2. last \notin D
        BY <1>5, <1>7, <3>2
      <4>3. days = {}
        <5>1. SUFFICES ASSUME NEW e \in days PROVE FALSE
          OBVIOUS
        <5>2. e \in D /\ e \in Nat /\ e <= last /\ \A k \in e..last : k \in D
          BY <1>5, <1>7, <1>8
        <5>3. last \in e..last
          BY <1>5, <5>2
        <5>4. QED
          BY <4>2, <5>2, <5>3
      <4>4. Len(w) = 0 /\ Elements(w) = {}
        <5>1. Len(w) = 0
          BY <1>14, <4>3
        <5>2. DOMAIN w = {}
          BY <1>14, <5>1
        <5>3. QED
          BY <5>1, <5>2 DEF Elements
      <4>5. EndsWith(w, o)
        BY <4>1, <4>4 DEF EndsWith
      <4>6. FewLeft(w, o, D, n)
        <5>1. Leftover(w, o, D) = {}
          BY <4>1 DEF Leftover
        <5>2. QED
          BY <2>3, <5>1, FS_EmptySet DEF FewLeft
      <4>7. MissedStays(w, <<today>>, D, tp, m)
        <5>1. Day!DayOf(tp) = d + 1 /\ <<today>> \in Seq(Nat) /\ <<today>> # <<>> /\ <<today>>[1] = today
          BY <1>5, <1>18, <1>20
        <5>2. today \in D /\ today < d + 1
          BY <1>5, <1>7
        <5>3. QED
          BY <4>4, <5>1, <5>2 DEF MissedStays
      <4>8. QED
        BY <4>5, <4>6, <4>7
    <3>3. QED
      BY <3>1, <3>2
  <2>5. Contents(da_filenames_q_)' = w
    <3>1. Contents(da_filenames_q_)' = Contents(q)
      BY <1>15, Zenon DEF Contents, Size, ItemAt
    <3>2. QED
      BY <1>11, <3>1
  <2>6. da_opened' = <<today>> /\ da_faults' = n /\ o = DaysNoted(da_opened', da_missed')
    BY <1>15, <2>1
  <2>7. QED
    BY <1>6, <1>17, <2>1, <2>2, <2>4, <2>5, <2>6, Zenon DEF Midnight
<1>21. QED
  BY <1>15, <1>19, <1>20 DEF DayInv

LEMMA DailyKeeps == ASSUME DailyParameters, DayInv, [Day!Next]_(Day!vars) PROVE DayInv'
<1>1. CASE Day!Tick
  BY <1>1, DailyTick
<1>2. CASE Day!Construct
  BY <1>2, DailyConstruct
<1>3. CASE Day!Destruct
  BY <1>3, DailyDestruct
<1>4. ASSUME NEW t \in {n \in 0..da_now : n >= da_now - da_Delay},
             Day!Log(t) \/ Day!LogRotating(t) \/ Day!LogOpenFails(t)
      PROVE  DayInv'
  BY <1>4, DailyLog, DailyRotates
<1>5. CASE UNCHANGED Day!vars
  <2>1. /\ UNCHANGED <<da_now, da_rotation, da_rotation_tp_, da_filenames_q_, da_opened, da_missed>>
        /\ da_files' = da_files /\ da_file' = da_file /\ da_faults' = da_faults
    BY <1>5 DEF Day!vars
  <2>2. da_alive' = da_alive /\ da_isOpen' = da_isOpen
    BY <1>5 DEF Day!vars
  <2>3. DayState
    BY DEF DayInv
  <2>4. da_alive' \in BOOLEAN /\ da_isOpen' \in BOOLEAN /\ (da_alive' => da_alive)
    BY <2>2, <2>3, Zenon DEF DayState
  <2>5. da_file' \in Day!Days \cup {Day!NoDay}
    BY <2>1, <2>3 DEF DayState
  <2>6. da_faults' \in 0..da_MaxFaults /\ da_faults <= da_faults'
    BY <2>1, <2>3 DEF DayState
  <2>7. QED
    BY <2>1, <2>4, <2>5, <2>6, QuietStep
<1>6. QED
  BY <1>1, <1>2, <1>3, <1>4, <1>5 DEF Day!Next

\* A sequence has as many elements as places, or fewer.
LEMMA FewElements ==
    ASSUME NEW S, NEW w \in Seq(S)
    PROVE  IsFiniteSet(Elements(w)) /\ Cardinality(Elements(w)) <= Len(w)
<1>1. Len(w) \in Nat /\ DOMAIN w = 1..Len(w) /\ w = [i \in 1..Len(w) |-> w[i]]
  OBVIOUS
<1>2. w \in Surjection(1..Len(w), Elements(w))
  <2>1. \A i \in 1..Len(w) : w[i] \in Elements(w)
    BY <1>1 DEF Elements
  <2>2. w \in [1..Len(w) -> Elements(w)]
    BY <1>1, <2>1
  <2>3. \A e \in Elements(w) : \E i \in 1..Len(w) : w[i] = e
    BY <1>1 DEF Elements
  <2>4. QED
    BY <2>2, <2>3 DEF Surjection
<1>3. IsFiniteSet(1..Len(w)) /\ Cardinality(1..Len(w)) = Len(w)
  <2>1. /\ IsFiniteSet(1..Len(w))
        /\ Cardinality(1..Len(w)) = IF 1 > Len(w) THEN 0 ELSE Len(w) - 1 + 1
    <3>1. 1 \in Int /\ Len(w) \in Int
      BY <1>1
    <3>2. QED
      BY <3>1, FS_Interval, Zenon
  <2>2. QED
    BY <1>1, <2>1
<1>4. QED
  BY <1>2, <1>3, FS_Surjection

LEMMA DailyFollows == ASSUME DailyParameters, DayInv PROVE Day!TypeOK /\ Day!DailyRetains
<1>1. DayState
  BY DEF DayInv
<1>2. Day!TypeOK
  <2>1. DOMAIN da_files \subseteq Day!Days
    <3>1. PICK n \in Nat, l \in Nat : n = da_now /\ l = da_LastDay /\ n <= 2 * l + 1
      BY <1>1 DEF DayState, DailyParameters
    <3>2. Day!DayOf(n) \in Nat /\ Day!DayOf(n) <= l
      BY <3>1, Halves
    <3>3. DOMAIN da_files \subseteq 0..Day!DayOf(n)
      BY <1>1, <3>1 DEF DayState
    <3>4. QED
      BY <3>1, <3>2, <3>3 DEF Day!Days
  <2>2. Day!Ring(da_filenames_q_, Day!Days)
    BY <1>1, DayRing DEF DayState, Ring, Day!Ring
  <2>3. QED
    BY <1>1, <2>1, <2>2, Zenon DEF DayState, Day!TypeOK
<1>3. ASSUME da_rotation = 0, da_alive
      PROVE  /\ Day!Latest(da_MaxFiles) \subseteq DOMAIN da_files
             /\ Cardinality({da_opened[i] : i \in DOMAIN da_opened} \cap DOMAIN da_files)
                  <= da_MaxFiles + da_faults + da_missed
  <2>1. PICK w, o, x, D, n : /\ w = Contents(da_filenames_q_) /\ D = DOMAIN da_files /\ n = da_faults
                             /\ o = DaysNoted(da_opened, da_missed) /\ x = da_opened
    OBVIOUS
  <2>2. /\ Queued(w, D, da_rotation_tp_) /\ EndsWith(w, o) /\ FewLeft(w, o, D, n) /\ n \in Nat
        /\ da_MaxFiles \in Nat \ {0} /\ da_missed \in {0, 1}
        /\ MissedStays(w, x, D, da_rotation_tp_, da_missed)
    BY <1>1, <1>3, <2>1 DEF DayInv, Midnight, DayState, DailyParameters
  <2>3. /\ w \in Seq(Nat) /\ Len(w) \in Nat /\ Len(w) <= da_MaxFiles /\ \A i \in 1..Len(w) : w[i] \in D
        /\ o \in Seq(Nat) /\ Len(o) \in Nat /\ (Len(w) < da_MaxFiles => Len(o) <= Len(w))
        /\ \A i \in 1..Len(w) : i <= Len(o) => w[Len(w) + 1 - i] = o[Len(o) + 1 - i]
    BY <2>2 DEF Queued, EndsWith
  <2>4. ASSUME NEW j \in 1..Len(o), j > Len(o) - da_MaxFiles PROVE o[j] \in D
    <3>1. PICK i \in 1..Len(w) : i = Len(o) + 1 - j
      <4>1. Len(o) + 1 - j \in 1..Len(w)
        BY <2>2, <2>3, <2>4
      <4>2. QED
        BY <4>1
    <3>2. i <= Len(o) /\ Len(o) + 1 - i = j /\ Len(w) + 1 - i \in 1..Len(w)
      BY <2>3, <3>1
    <3>3. QED
      BY <2>3, <3>2
  <2>f. /\ x \in Seq(Nat) /\ Elements(x) \cap D \subseteq (Elements(o) \cap D) \cup {x[1]}
        /\ da_missed = 0 => x = o
        /\ da_missed = 1 => x # <<>> /\ o = Tail(x) /\ x[1] \in D
    <3>1. CASE da_missed = 0
      BY <2>1, <2>3, <3>1 DEF DaysNoted
    <3>2. CASE da_missed = 1
      <4>1. x \in Seq(Nat) /\ x # <<>> /\ x[1] \in D /\ o = Tail(x)
        BY <2>1, <2>2, <3>2 DEF DaysNoted, MissedStays
      <4>2. Elements(x) = Elements(Tail(x)) \cup {x[1]}
        BY <4>1, ElementsTail
      <4>3. QED
        BY <3>2, <4>1, <4>2
    <3>3. QED
      BY <2>2, <3>1, <3>2
  <2>5. Day!Latest(da_MaxFiles) \subseteq D
    <3>1. DOMAIN x = 1..Len(x) /\ Len(x) \in Nat
      BY <2>f
    <3>2. ASSUME NEW j \in 1..Len(x), j > Len(x) - da_MaxFiles PROVE x[j] \in D
      <4>1. CASE da_missed = 0
        BY <2>4, <2>f, <3>2, <4>1
      <4>2. CASE da_missed = 1
        <5>1. Len(x) = Len(o) + 1 /\ \A i \in 1..Len(o) : o[i] = x[i + 1]
          <6>1. x \in Seq(Nat) /\ x # <<>> /\ o = Tail(x)
            BY <2>f, <4>2
          <6>2. Len(x) \in Nat /\ Len(x) # 0
            BY <6>1
          <6>3. Len(Tail(x)) = Len(x) - 1 /\ \A i \in 1..(Len(x) - 1) : Tail(x)[i] = x[i + 1]
            BY <6>1
          <6>4. QED
            BY <6>1, <6>2, <6>3
        <5>2. CASE j = 1
          BY <2>f, <4>2, <5>2
        <5>3. CASE j # 1
          <6>1. j - 1 \in 1..Len(o) /\ j - 1 > Len(o) - da_MaxFiles /\ (j - 1) + 1 = j
            BY <2>2, <2>3, <3>1, <3>2, <5>1, <5>3
          <6>2. o[j - 1] \in D /\ o[j - 1] = x[(j - 1) + 1]
            BY <2>4, <5>1, <6>1
          <6>3. QED
            BY <6>1, <6>2
        <5>4. QED
          BY <5>2, <5>3
      <4>3. QED
        BY <2>2, <4>1, <4>2
    <3>3. QED
      BY <2>1, <3>1, <3>2 DEF Day!Latest
  <2>6. PICK L, W, F : L = Leftover(w, o, D) /\ W = Elements(w) /\ F = Elements(o) \cap D
    OBVIOUS
  <2>7. /\ IsFiniteSet(L) /\ Cardinality(L) \in Nat /\ Cardinality(L) <= n
        /\ IsFiniteSet(W) /\ Cardinality(W) \in Nat /\ Cardinality(W) <= da_MaxFiles
    <3>1. IsFiniteSet(L) /\ Cardinality(L) <= n
      BY <2>2, <2>6 DEF FewLeft
    <3>2. IsFiniteSet(W) /\ Cardinality(W) <= Len(w)
      BY <2>3, <2>6, FewElements
    <3>3. Cardinality(L) \in Nat /\ Cardinality(W) \in Nat
      BY <3>1, <3>2, FS_CardinalityType
    <3>4. QED
      BY <2>2, <2>3, <3>1, <3>2, <3>3
  <2>8. IsFiniteSet(L \cup W) /\ Cardinality(L \cup W) \in Nat /\ Cardinality(L \cup W) <= n + da_MaxFiles
    <3>1. /\ IsFiniteSet(L \cup W)
          /\ Cardinality(L \cup W) = Cardinality(L) + Cardinality(W) - Cardinality(L \cap W)
      BY <2>7, FS_Union, Zenon
    <3>2. L \cap W \subseteq L
      OBVIOUS
    <3>3. IsFiniteSet(L \cap W)
      BY <2>7, <3>2, FS_Subset
    <3>4. Cardinality(L \cap W) \in Nat /\ Cardinality(L \cup W) \in Nat
      BY <3>1, <3>3, FS_CardinalityType
    <3>5. QED
      BY <2>2, <2>7, <3>1, <3>4
  <2>9. F \subseteq L \cup W
    BY <2>6 DEF Leftover
  <2>10. Cardinality(F) <= da_MaxFiles + n
    <3>1. IsFiniteSet(F) /\ Cardinality(F) <= Cardinality(L \cup W)
      BY <2>8, <2>9, FS_Subset
    <3>2. Cardinality(F) \in Nat
      BY <3>1, FS_CardinalityType
    <3>3. QED
      BY <2>2, <2>8, <3>1, <3>2
  <2>11. PICK G : G = Elements(x) \cap D
    OBVIOUS
  <2>12. Cardinality(G) <= da_MaxFiles + n + da_missed
    <3>0. IsFiniteSet(F) /\ Cardinality(F) \in Nat
      <4>1. IsFiniteSet(F)
        BY <2>8, <2>9, FS_Subset
      <4>2. QED
        BY <4>1, FS_CardinalityType
    <3>1. CASE da_missed = 0
      <4>1. G = F
        BY <2>6, <2>11, <2>f, <3>1
      <4>2. QED
        BY <2>2, <2>10, <3>0, <3>1, <4>1
    <3>2. CASE da_missed = 1
      <4>1. G \subseteq F \cup {x[1]}
        BY <2>6, <2>11, <2>f
      <4>2. /\ IsFiniteSet(F \cup {x[1]})
            /\ Cardinality(F \cup {x[1]}) = IF x[1] \in F THEN Cardinality(F) ELSE Cardinality(F) + 1
        BY <3>0, FS_AddElement, Zenon
      <4>3. IsFiniteSet(G) /\ Cardinality(G) <= Cardinality(F \cup {x[1]})
        BY <4>1, <4>2, FS_Subset
      <4>4. Cardinality(G) \in Nat
        BY <4>3, FS_CardinalityType
      <4>5. QED
        BY <2>2, <2>10, <3>0, <3>2, <4>2, <4>3, <4>4
    <3>3. QED
      BY <2>2, <3>1, <3>2
  <2>13. G = {da_opened[i] : i \in DOMAIN da_opened} \cap DOMAIN da_files
    BY <2>1, <2>11, Zenon DEF Elements
  <2>14. QED
    BY <2>1, <2>5, <2>12, <2>13
<1>4. ASSUME da_rotation = 0 PROVE Day!Retained
  <2>1. Day!Cardinality({da_opened[i] : i \in DOMAIN da_opened} \cap DOMAIN da_files)
          = Cardinality({da_opened[i] : i \in DOMAIN da_opened} \cap DOMAIN da_files)
    BY Zenon DEF Day!Cardinality, Cardinality
  <2>2. SUFFICES ASSUME da_alive
                 PROVE  /\ Day!Latest(da_MaxFiles) \subseteq DOMAIN da_files
                        /\ Cardinality({da_opened[i] : i \in DOMAIN da_opened} \cap DOMAIN da_files)
                             <= da_MaxFiles + da_faults + da_missed
    BY <2>1, Zenon DEF Day!Retained
  <2>3. QED
    BY <1>3, <1>4, <2>2, Zenon
<1>5. QED
  BY <1>2, <1>4, Zenon DEF Day!DailyRetains
------------------------------------------------------------------------------
(***************************************************************************)
(* The duplicate filter, for any messages, times, sinks below that come    *)
(* and go, and room of the ring. Each message that is passed on reaches    *)
(* the sink that takes every level once (KeeperGets); what that sink was   *)
(* told and the duplicates still counted are what was logged (Account);    *)
(* and the ring holds the last messages that were given to it (Belows).    *)
(***************************************************************************)
\* The messages below, and the rings and the states of the sinks they make.
Carried == fi_Payloads \cup {Fil!NoPayload}

MessagesBelow == [payload : Carried, level : {Fil!Info, Fil!Err}, time : Nat, count : Nat]

RingsBelow == {q \in [max : {fi_RingItems + 1}, head : Nat, tail : Nat, over : Nat,
                 v : [0..fi_RingItems -> MessagesBelow \cup {Unused}]] : Ring(q, MessagesBelow)}

RingTells(q, g) == Contents(q) = Fil!LastOf(g, fi_RingItems)

Belows == {b \in [got : [Fil!Children -> Seq(MessagesBelow)], q : RingsBelow] :
              RingTells(b.q, b.got["ring"])}

\* One of the sinks, given the message if it is of its level.
Through(b, c, m) == IF Fil!should_log(c, m) THEN Fil!Given(b, c, m) ELSE b

LEMMA GivenIs ==
    ASSUME NEW b, NEW c, NEW m
    PROVE  Fil!Given(b, c, m) = [got |-> [b.got EXCEPT ![c] = Append(b.got[c], m)],
                                 q |-> IF c = "ring" THEN PushBack(b.q, m) ELSE b.q]
BY Zenon DEF Fil!Given, Fil!PushBack, Fil!After, PushBack, After

LEMMA LastOfIsRegs ==
    ASSUME NEW S, NEW s \in Seq(S), NEW n \in Nat
    PROVE  Fil!LastOf(s, n) = Reg!LastOf(s, n)
<1>1. PICK k \in Nat : k = Len(s)
  OBVIOUS
<1>2. k - (IF n < k THEN n ELSE k) + 1 = IF k > n THEN k - n + 1 ELSE 1
  OBVIOUS
<1>3. QED
  BY <1>1, <1>2, Zenon DEF Fil!LastOf, Reg!LastOf

\* A push on a ring of no room.
LEMMA PushIntoNone ==
    ASSUME NEW Items, NEW cq, Ring(cq, Items), cq.max = 1, NEW x \in Items
    PROVE  Ring(PushBack(cq, x), Items) /\ Contents(PushBack(cq, x)) = <<>>
<1>1. PICK r : r = PushBack(cq, x)
  OBVIOUS
<1>0. cq.max # 0
  OBVIOUS
<1>2. Ring(r, Items) /\ r.max = cq.max
  BY <1>0, <1>1, PushKeeps
<1>3. Size(r) \in 0..(r.max - 1)
  BY <1>0, <1>2, SizeOfRing
<1>4. Contents(r) \in Seq(Items \cup {Unused}) /\ Len(Contents(r)) = Size(r)
  BY <1>0, <1>2, ContentsIsSequence
<1>5. Size(r) = 0
  BY <1>2, <1>3
<1>6. Contents(r) = <<>>
  BY <1>4, <1>5
<1>7. QED
  BY <1>1, <1>2, <1>6

\* The ring goes on to tell of the last messages.
LEMMA RingPushed ==
    ASSUME FilterParameters, NEW q \in RingsBelow, NEW g \in Seq(MessagesBelow),
           RingTells(q, g), NEW m \in MessagesBelow
    PROVE  PushBack(q, m) \in RingsBelow /\ RingTells(PushBack(q, m), Append(g, m))
<1>1. /\ Ring(q, MessagesBelow) /\ q.max = fi_RingItems + 1 /\ fi_RingItems \in Nat
  BY DEF RingsBelow, FilterParameters
<1>2. PICK r : r = PushBack(q, m)
  OBVIOUS
<1>0. q.max # 0 /\ (fi_RingItems # 0 => q.max > 1) /\ (fi_RingItems = 0 => q.max = 1)
  BY <1>1
<1>3. Ring(r, MessagesBelow) /\ r.max = q.max /\ RingTells(r, Append(g, m))
  <2>1. r.max = q.max
    BY <1>0, <1>1, <1>2, PushKeeps
  <2>2. Append(g, m) \in Seq(MessagesBelow)
    OBVIOUS
  <2>3. CASE fi_RingItems = 0
    <3>1. Ring(r, MessagesBelow) /\ Contents(r) = <<>>
      BY <1>0, <1>1, <1>2, <2>3, PushIntoNone
    <3>2. Fil!LastOf(Append(g, m), 0) = <<>>
      BY <2>2, LastOfIsRegs, LastOfNothing
    <3>3. QED
      BY <2>1, <2>3, <3>1, <3>2, Zenon DEF RingTells
  <2>4. CASE fi_RingItems # 0
    <3>1. /\ Ring(r, MessagesBelow)
          /\ Contents(r) = Append(IF Full(q) THEN Tail(Contents(q)) ELSE Contents(q), m)
      BY <1>0, <1>1, <1>2, <2>4, PushAppends
    <3>2. Contents(q) = Reg!LastOf(g, fi_RingItems)
      BY <1>1, LastOfIsRegs DEF RingTells
    <3>3. Full(q) <=> Len(g) >= fi_RingItems
      <4>1. Full(q) <=> Size(q) = fi_RingItems
        BY <1>0, <1>1, SizeOfRing
      <4>2. Len(Contents(q)) = Size(q)
        BY <1>0, <1>1, ContentsIsSequence
      <4>3. Len(Reg!LastOf(g, fi_RingItems)) = IF Len(g) > fi_RingItems THEN fi_RingItems ELSE Len(g)
        BY <1>1, LastOfIs
      <4>4. QED
        BY <1>1, <3>2, <4>1, <4>2, <4>3
    <3>4. Reg!LastOf(Append(g, m), fi_RingItems)
            = Append(IF Len(g) >= fi_RingItems THEN Tail(Reg!LastOf(g, fi_RingItems))
                     ELSE Reg!LastOf(g, fi_RingItems), m)
      BY <1>1, <2>4, LastOfAppend
    <3>5. Fil!LastOf(Append(g, m), fi_RingItems) = Reg!LastOf(Append(g, m), fi_RingItems)
      BY <1>1, <2>2, LastOfIsRegs
    <3>6. QED
      BY <2>1, <3>1, <3>2, <3>3, <3>4, <3>5, Zenon DEF RingTells
  <2>5. QED
    BY <2>3, <2>4
<1>4. r \in RingsBelow
  <2>1. /\ r = [max |-> r.max, head |-> r.head, tail |-> r.tail, over |-> r.over, v |-> r.v]
        /\ r.head \in 0..(r.max - 1) /\ r.tail \in 0..(r.max - 1) /\ r.over \in Nat
        /\ r.v \in [0..(r.max - 1) -> MessagesBelow \cup {Unused}]
    BY <1>0, <1>1, <1>3, Fields
  <2>2. /\ r.max - 1 = fi_RingItems /\ r.max \in {fi_RingItems + 1} /\ r.head \in Nat /\ r.tail \in Nat
        /\ r.v \in [0..fi_RingItems -> MessagesBelow \cup {Unused}]
    BY <1>1, <1>3, <2>1
  <2>3. QED
    BY <1>3, <2>1, <2>2 DEF RingsBelow
<1>5. QED
  BY <1>2, <1>3, <1>4

LEMMA ThroughStays ==
    ASSUME FilterParameters, NEW b \in Belows, NEW c \in Fil!Children, NEW m \in MessagesBelow
    PROVE  /\ Through(b, c, m) \in Belows
           /\ Through(b, c, m).got["keeper"] = IF c = "keeper" THEN Append(b.got["keeper"], m)
                                               ELSE b.got["keeper"]
<1>1. PICK g, q : /\ b = [got |-> g, q |-> q] /\ g \in [Fil!Children -> Seq(MessagesBelow)] /\ q \in RingsBelow
                  /\ RingTells(q, g["ring"])
  BY DEF Belows
<1>2. PICK h : h = [g EXCEPT ![c] = Append(g[c], m)]
  OBVIOUS
<1>3. /\ h \in [Fil!Children -> Seq(MessagesBelow)]
      /\ \A d \in Fil!Children : h[d] = IF d = c THEN Append(g[d], m) ELSE g[d]
  BY <1>1, <1>2
<1>4. "keeper" \in Fil!Children /\ "ring" \in Fil!Children /\ "keeper" # "ring"
  BY DEF Fil!Children
<1>5. Fil!Given(b, c, m) = [got |-> h, q |-> IF c = "ring" THEN PushBack(q, m) ELSE q]
  BY <1>1, <1>2, GivenIs
<1>6. CASE c = "ring"
  <2>1. PushBack(q, m) \in RingsBelow /\ RingTells(PushBack(q, m), h["ring"])
    BY <1>1, <1>3, <1>4, <1>6, RingPushed
  <2>2. Fil!Given(b, c, m) \in Belows /\ Fil!Given(b, c, m).got = h
    BY <1>3, <1>5, <1>6, <2>1 DEF Belows
  <2>3. QED
    BY <1>1, <1>3, <1>4, <1>6, <2>2 DEF Through
<1>7. CASE c = "keeper"
  <2>1. h["ring"] = g["ring"] /\ h["keeper"] = Append(g["keeper"], m)
    BY <1>3, <1>4, <1>7
  <2>2. RingTells(q, h["ring"])
    BY <1>1, <2>1, Zenon
  <2>3. Fil!Given(b, c, m) = [got |-> h, q |-> q]
    BY <1>4, <1>5, <1>7
  <2>4. Fil!Given(b, c, m) \in Belows /\ Fil!Given(b, c, m).got = h
    BY <1>1, <1>3, <2>2, <2>3 DEF Belows
  <2>5. Through(b, c, m) = Fil!Given(b, c, m)
    BY <1>7 DEF Through, Fil!should_log
  <2>6. QED
    BY <1>1, <1>7, <2>1, <2>4, <2>5
<1>8. QED
  BY <1>6, <1>7 DEF Fil!Children

\* What dist_sink has done after each of its sinks.
LEMMA DeliveredIs ==
    ASSUME FilterParameters, fi_sinks_ \in Seq(Fil!Children), NEW b \in Belows, NEW m \in MessagesBelow
    PROVE  \E f \in [0..Len(fi_sinks_) -> Belows] :
              /\ f[0] = b /\ \A n \in 1..Len(fi_sinks_) : f[n] = Through(f[n - 1], fi_sinks_[n], m)
              /\ \A k \in 1..(Len(fi_sinks_) + 1) : Fil!Delivered(b, m, k) = f[k - 1]
<1> DEFINE N == Len(fi_sinks_)
           F == [p \in Nat \X Belows |-> IF p[1] \in 1..N THEN Through(p[2], fi_sinks_[p[1]], m) ELSE b]
           Passes(f) == f = [n \in 0..N |-> IF n = 0 THEN b
                                            ELSE IF Fil!should_log(fi_sinks_[n], m)
                                                 THEN Fil!Given(f[n - 1], fi_sinks_[n], m)
                                                 ELSE f[n - 1]]
<1>1. N \in Nat /\ \A n \in 1..N : fi_sinks_[n] \in Fil!Children
  OBVIOUS
<1>2. F \in [Nat \X Belows -> Belows]
  <2>1. ASSUME NEW p \in Nat \X Belows PROVE F[p] \in Belows
    <3>1. CASE p[1] \in 1..N
      <4>1. p[2] \in Belows /\ fi_sinks_[p[1]] \in Fil!Children
        BY <1>1, <3>1
      <4>2. Through(p[2], fi_sinks_[p[1]], m) \in Belows
        BY <4>1, ThroughStays
      <4>3. QED
        BY <3>1, <4>2
    <3>2. CASE p[1] \notin 1..N
      BY <3>2
    <3>3. QED
      BY <3>1, <3>2
  <2>2. QED
    BY <2>1
<1>3. PICK f \in [0..N -> Belows] : Chain(f, N, b, F)
  <2> HIDE DEF F, N
  <2>1. QED
    BY <1>1, <1>2, RecursionExists
<1>4. f[0] = b /\ \A n \in 1..N : f[n] = Through(f[n - 1], fi_sinks_[n], m)
  <2>1. ASSUME NEW n \in 1..N PROVE f[n] = Through(f[n - 1], fi_sinks_[n], m)
    <3>1. n \in Nat /\ n - 1 \in 0..N
      BY <1>1
    <3>2. f[n - 1] \in Belows
      BY <1>3, <3>1
    <3>3. f[n] = F[<<n, f[n - 1]>>]
      BY <1>3, Zenon DEF Chain
    <3>4. QED
      BY <3>1, <3>2, <3>3
  <2>2. QED
    BY <1>3, <2>1 DEF Chain
<1>5. Passes(f)
  <2>1. \A n \in 0..N : f[n] = IF n = 0 THEN b
                               ELSE IF Fil!should_log(fi_sinks_[n], m) THEN Fil!Given(f[n - 1], fi_sinks_[n], m)
                               ELSE f[n - 1]
    BY <1>1, <1>4 DEF Through
  <2>2. QED
    BY <2>1
<1> DEFINE c == CHOOSE g : Passes(g)
<1>6. Passes(c)
  BY <1>5
<1>7. \A k : Fil!Delivered(b, m, k) = c[k - 1]
  BY DEF Fil!Delivered
<1> HIDE DEF c
<1>8. c[0] = b /\ \A n \in 1..N : c[n] = Through(c[n - 1], fi_sinks_[n], m)
  <2>1. \A n \in 0..N : c[n] = IF n = 0 THEN b
                               ELSE IF Fil!should_log(fi_sinks_[n], m) THEN Fil!Given(c[n - 1], fi_sinks_[n], m)
                               ELSE c[n - 1]
    BY <1>6
  <2>2. QED
    BY <1>1, <2>1 DEF Through
<1>9. \A n \in 0..N : c[n] = f[n]
  <2>1. c[0] = f[0] /\ \A n \in 1..N : c[n - 1] = f[n - 1] => c[n] = f[n]
    BY <1>4, <1>8
  <2>2. InStep(c, f, N)
    BY <2>1, Zenon DEF InStep
  <2>3. Equal(c, f, N)
    BY <1>1, <2>2, Together
  <2>4. QED
    BY <2>3, Zenon DEF Equal
<1>10. ASSUME NEW k \in 1..(N + 1) PROVE Fil!Delivered(b, m, k) = f[k - 1]
  <2>1. k - 1 \in 0..N
    BY <1>1
  <2>2. QED
    BY <1>7, <1>9, <2>1
<1>11. QED
  BY <1>1, <1>4, <1>10

\* The list has the keeper at one place, as every call leaves it.
OneKeeper(s) == \E i \in 1..Len(s) : \A j \in 1..Len(s) : s[j] = "keeper" <=> j = i

\* A message is delivered to the keeper once.
LEMMA KeeperGets ==
    ASSUME FilterParameters, fi_sinks_ \in Seq(Fil!Children), NEW b \in Belows, NEW m \in MessagesBelow
    PROVE  /\ \A k \in 1..(Len(fi_sinks_) + 1) : Fil!Delivered(b, m, k) \in Belows
           /\ OneKeeper(fi_sinks_) =>
                Fil!Delivered(b, m, Len(fi_sinks_) + 1).got["keeper"] = Append(b.got["keeper"], m)
<1>1. PICK f \in [0..Len(fi_sinks_) -> Belows] :
         /\ f[0] = b /\ \A n \in 1..Len(fi_sinks_) : f[n] = Through(f[n - 1], fi_sinks_[n], m)
         /\ \A k \in 1..(Len(fi_sinks_) + 1) : Fil!Delivered(b, m, k) = f[k - 1]
  BY DeliveredIs
<1>2. PICK N \in Nat : N = Len(fi_sinks_)
  OBVIOUS
<1>3. ASSUME OneKeeper(fi_sinks_)
      PROVE  f[N].got["keeper"] = Append(b.got["keeper"], m)
  <2>1. PICK i \in 1..N : \A j \in 1..N : fi_sinks_[j] = "keeper" <=> j = i
    BY <1>2, <1>3 DEF OneKeeper
  <2>2. PICK old : old = b.got["keeper"]
    OBVIOUS
  <2>3. PICK g : g = [n \in 0..N |-> f[n].got["keeper"]]
    OBVIOUS
  <2>4. PICK h : h = [n \in 0..N |-> IF n < i THEN old ELSE Append(old, m)]
    OBVIOUS
  <2>5. g[0] = h[0]
    BY <1>1, <2>1, <2>2, <2>3, <2>4
  <2>6. ASSUME NEW n \in 1..N, g[n - 1] = h[n - 1] PROVE g[n] = h[n]
    <3>1. n \in 0..N /\ n - 1 \in 0..N
      OBVIOUS
    <3>2. f[n - 1] \in Belows /\ fi_sinks_[n] \in Fil!Children
      BY <1>1, <1>2, <3>1
    <3>3. f[n].got["keeper"] = IF fi_sinks_[n] = "keeper" THEN Append(f[n - 1].got["keeper"], m)
                               ELSE f[n - 1].got["keeper"]
      BY <1>1, <1>2, <3>2, ThroughStays
    <3>4. g[n] = IF n = i THEN Append(g[n - 1], m) ELSE g[n - 1]
      BY <2>1, <2>3, <3>1, <3>3
    <3>5. h[n] = IF n = i THEN Append(old, m) ELSE h[n - 1]
      BY <2>1, <2>4, <3>1
    <3>6. n = i => h[n - 1] = old
      BY <2>1, <2>4, <3>1
    <3>7. CASE n = i
      BY <2>6, <3>4, <3>5, <3>6, <3>7, Zenon
    <3>8. CASE n # i
      BY <2>6, <3>4, <3>5, <3>8, Zenon
    <3>9. QED
      BY <3>7, <3>8, Zenon
  <2>7. InStep(g, h, N)
    BY <2>5, <2>6, Zenon DEF InStep
  <2>8. Equal(g, h, N)
    BY <2>7, Together
  <2>9. g[N] = h[N]
    <3>1. N \in 0..N
      OBVIOUS
    <3>2. QED
      BY <2>8, <3>1, Zenon DEF Equal
  <2>10. N \in 0..N /\ ~(N < i)
    BY <2>1
  <2>11. g[N] = f[N].got["keeper"] /\ h[N] = Append(old, m)
    BY <2>3, <2>4, <2>10
  <2>12. QED
    BY <2>2, <2>9, <2>11, Zenon
<1>4. ASSUME NEW k \in 1..(N + 1) PROVE Fil!Delivered(b, m, k) = f[k - 1] /\ f[k - 1] \in Belows
  <2>1. k - 1 \in 0..N
    OBVIOUS
  <2>2. QED
    BY <1>1, <1>2, <2>1
<1>5. N + 1 \in 1..(N + 1) /\ (N + 1) - 1 = N
  OBVIOUS
<1>6. Fil!Delivered(b, m, N + 1) = f[N]
  BY <1>4, <1>5
<1>7. QED
  BY <1>2, <1>3, <1>4, <1>6

\* What is left of a list of sinks.
LEMMA WithoutIs ==
    ASSUME NEW s \in Seq(Fil!Children), NEW c \in Fil!Children
    PROVE  \E f \in [0..Len(s) -> Seq(Fil!Children)] :
              /\ f[0] = <<>>
              /\ \A n \in 1..Len(s) : f[n] = IF s[n] = c THEN f[n - 1] ELSE Append(f[n - 1], s[n])
              /\ Fil!Without(s, c) = f[Len(s)]
<1> DEFINE N == Len(s)
           F == [p \in Nat \X Seq(Fil!Children) |->
                   IF p[1] \in 1..N /\ s[p[1]] # c THEN Append(p[2], s[p[1]]) ELSE p[2]]
           Leaves(f) == f = [n \in 0..N |-> IF n = 0 THEN <<>>
                                            ELSE IF s[n] = c THEN f[n - 1] ELSE Append(f[n - 1], s[n])]
<1>1. N \in Nat /\ \A n \in 1..N : s[n] \in Fil!Children
  OBVIOUS
<1>2. F \in [Nat \X Seq(Fil!Children) -> Seq(Fil!Children)]
  <2>1. ASSUME NEW p \in Nat \X Seq(Fil!Children) PROVE F[p] \in Seq(Fil!Children)
    <3>1. p[2] \in Seq(Fil!Children)
      OBVIOUS
    <3>2. CASE p[1] \in 1..N
      BY <1>1, <3>1, <3>2
    <3>3. CASE p[1] \notin 1..N
      BY <3>1, <3>3
    <3>4. QED
      BY <3>2, <3>3
  <2>2. QED
    BY <2>1
<1>3. <<>> \in Seq(Fil!Children)
  OBVIOUS
<1>4. PICK f \in [0..N -> Seq(Fil!Children)] : Chain(f, N, <<>>, F)
  <2> HIDE DEF F, N
  <2>1. QED
    BY <1>1, <1>2, <1>3, RecursionExists
<1>5. f[0] = <<>> /\ \A n \in 1..N : f[n] = IF s[n] = c THEN f[n - 1] ELSE Append(f[n - 1], s[n])
  <2>1. ASSUME NEW n \in 1..N PROVE f[n] = IF s[n] = c THEN f[n - 1] ELSE Append(f[n - 1], s[n])
    <3>1. n \in Nat /\ n - 1 \in 0..N
      BY <1>1
    <3>2. f[n - 1] \in Seq(Fil!Children)
      BY <1>4, <3>1
    <3>3. f[n] = F[<<n, f[n - 1]>>]
      BY <1>4, Zenon DEF Chain
    <3>4. <<n, f[n - 1]>> \in Nat \X Seq(Fil!Children)
      BY <3>1, <3>2
    <3>5. F[<<n, f[n - 1]>>] = IF s[n] # c THEN Append(f[n - 1], s[n]) ELSE f[n - 1]
      BY <3>4
    <3>6. QED
      BY <3>3, <3>5
  <2>2. QED
    BY <1>4, <2>1 DEF Chain
<1>6. Leaves(f)
  <2>1. \A n \in 0..N : f[n] = IF n = 0 THEN <<>> ELSE IF s[n] = c THEN f[n - 1] ELSE Append(f[n - 1], s[n])
    <3>1. ASSUME NEW n \in 0..N, n # 0
          PROVE  f[n] = IF s[n] = c THEN f[n - 1] ELSE Append(f[n - 1], s[n])
      <4>1. n \in 1..N
        BY <1>1, <3>1
      <4>2. QED
        BY <1>5, <4>1
    <3>2. QED
      BY <1>5, <3>1
  <2>2. QED
    BY <2>1
<1> DEFINE l == CHOOSE g : Leaves(g)
<1>7. Leaves(l)
  BY <1>6
<1>8. Fil!Without(s, c) = l[N]
  BY DEF Fil!Without
<1> HIDE DEF l
<1>9. l[0] = <<>> /\ \A n \in 1..N : l[n] = IF s[n] = c THEN l[n - 1] ELSE Append(l[n - 1], s[n])
  <2>1. \A n \in 0..N : l[n] = IF n = 0 THEN <<>> ELSE IF s[n] = c THEN l[n - 1] ELSE Append(l[n - 1], s[n])
    BY <1>7
  <2>2. QED
    BY <1>1, <2>1
<1>10. \A n \in 0..N : l[n] = f[n]
  <2>1. l[0] = f[0] /\ \A n \in 1..N : l[n - 1] = f[n - 1] => l[n] = f[n]
    BY <1>5, <1>9
  <2>2. InStep(l, f, N)
    BY <2>1, Zenon DEF InStep
  <2>3. Equal(l, f, N)
    BY <1>1, <2>2, Together
  <2>4. QED
    BY <2>3, Zenon DEF Equal
<1>11. QED
  BY <1>1, <1>5, <1>8, <1>10

\* Without the ring only the keeper is left.
LEMMA KeeperIsLeft ==
    ASSUME NEW s \in Seq(Fil!Children), OneKeeper(s)
    PROVE  Fil!Without(s, "ring") = <<"keeper">>
<1>1. "ring" \in Fil!Children /\ Fil!Children = {"keeper", "ring"}
  BY DEF Fil!Children
<1>2. PICK f \in [0..Len(s) -> Seq(Fil!Children)] :
         /\ f[0] = <<>>
         /\ \A n \in 1..Len(s) : f[n] = IF s[n] = "ring" THEN f[n - 1] ELSE Append(f[n - 1], s[n])
         /\ Fil!Without(s, "ring") = f[Len(s)]
  BY <1>1, WithoutIs
<1>3. PICK N \in Nat : N = Len(s)
  OBVIOUS
<1>4. PICK i \in 1..N : \A j \in 1..N : s[j] = "keeper" <=> j = i
  BY <1>3 DEF OneKeeper
<1>5. PICK h : h = [n \in 0..N |-> IF n < i THEN <<>> ELSE <<"keeper">>]
  OBVIOUS
<1>6. f[0] = h[0]
  BY <1>2, <1>4, <1>5
<1>7. ASSUME NEW n \in 1..N, f[n - 1] = h[n - 1] PROVE f[n] = h[n]
  <2>1. n \in 0..N /\ n - 1 \in 0..N
    OBVIOUS
  <2>2. s[n] = IF n = i THEN "keeper" ELSE "ring"
    BY <1>1, <1>3, <1>4
  <2>3. f[n] = IF n = i THEN Append(f[n - 1], "keeper") ELSE f[n - 1]
    BY <1>2, <1>3, <2>2
  <2>4. h[n] = IF n = i THEN <<"keeper">> ELSE h[n - 1]
    BY <1>4, <1>5, <2>1
  <2>5. n = i => h[n - 1] = <<>>
    BY <1>4, <1>5, <2>1
  <2>6. Append(<<>>, "keeper") = <<"keeper">>
    OBVIOUS
  <2>7. CASE n = i
    BY <1>7, <2>3, <2>4, <2>5, <2>6, <2>7, Zenon
  <2>8. CASE n # i
    BY <1>7, <2>3, <2>4, <2>8, Zenon
  <2>9. QED
    BY <2>7, <2>8, Zenon
<1>8. InStep(f, h, N)
  BY <1>6, <1>7, Zenon DEF InStep
<1>9. Equal(f, h, N)
  BY <1>8, Together
<1>10. f[N] = h[N]
  <2>1. N \in 0..N
    OBVIOUS
  <2>2. QED
    BY <1>9, <2>1, Zenon DEF Equal
<1>11. QED
  BY <1>2, <1>3, <1>4, <1>5, <1>10

\* The calls that change the list leave the keeper at one place.
LEMMA ListsKeepTheKeeper ==
    /\ OneKeeper(<<"keeper">>) /\ <<"keeper">> \in Seq(Fil!Children)
    /\ OneKeeper(<<"keeper", "ring">>) /\ <<"keeper", "ring">> \in Seq(Fil!Children)
    /\ OneKeeper(<<"ring", "keeper">>) /\ <<"ring", "keeper">> \in Seq(Fil!Children)
    /\ \A s \in Seq(Fil!Children) : OneKeeper(s) => /\ OneKeeper(Append(s, "ring"))
                                                    /\ Append(s, "ring") \in Seq(Fil!Children)
<1>1. OneKeeper(<<"keeper">>) /\ <<"keeper">> \in Seq(Fil!Children)
  <2>1. PICK s : s = <<"keeper">>
    OBVIOUS
  <2>2. Len(s) = 1 /\ s[1] = "keeper" /\ s \in Seq(Fil!Children)
    BY <2>1 DEF Fil!Children
  <2>3. \A j \in 1..Len(s) : s[j] = "keeper" <=> j = 1
    BY <2>2
  <2>4. OneKeeper(s)
    BY <2>2, <2>3 DEF OneKeeper
  <2>5. QED
    BY <2>1, <2>2, <2>4
<1>2. OneKeeper(<<"keeper", "ring">>) /\ <<"keeper", "ring">> \in Seq(Fil!Children)
  <2>1. PICK s : s = <<"keeper", "ring">>
    OBVIOUS
  <2>2. Len(s) = 2 /\ s[1] = "keeper" /\ s[2] = "ring" /\ s \in Seq(Fil!Children)
    BY <2>1 DEF Fil!Children
  <2>3. \A j \in 1..Len(s) : s[j] = "keeper" <=> j = 1
    BY <2>2
  <2>4. OneKeeper(s)
    BY <2>2, <2>3 DEF OneKeeper
  <2>5. QED
    BY <2>1, <2>2, <2>4
<1>3. OneKeeper(<<"ring", "keeper">>) /\ <<"ring", "keeper">> \in Seq(Fil!Children)
  <2>1. PICK s : s = <<"ring", "keeper">>
    OBVIOUS
  <2>2. Len(s) = 2 /\ s[1] = "ring" /\ s[2] = "keeper" /\ s \in Seq(Fil!Children)
    BY <2>1 DEF Fil!Children
  <2>3. \A j \in 1..Len(s) : s[j] = "keeper" <=> j = 2
    BY <2>2
  <2>4. OneKeeper(s)
    BY <2>2, <2>3 DEF OneKeeper
  <2>5. QED
    BY <2>1, <2>2, <2>4
<1>4. ASSUME NEW s \in Seq(Fil!Children), OneKeeper(s)
      PROVE  OneKeeper(Append(s, "ring")) /\ Append(s, "ring") \in Seq(Fil!Children)
  <2>1. PICK i \in 1..Len(s) : \A j \in 1..Len(s) : s[j] = "keeper" <=> j = i
    BY <1>4 DEF OneKeeper
  <2>2. PICK r : r = Append(s, "ring")
    OBVIOUS
  <2>3. /\ r \in Seq(Fil!Children) /\ Len(r) = Len(s) + 1 /\ Len(s) \in Nat
        /\ r[Len(s) + 1] = "ring" /\ \A j \in 1..Len(s) : r[j] = s[j]
    BY <2>2 DEF Fil!Children
  <2>4. i \in 1..Len(r) /\ \A j \in 1..Len(r) : r[j] = "keeper" <=> j = i
    BY <2>1, <2>3
  <2>5. QED
    BY <2>2, <2>3, <2>4 DEF OneKeeper
<1>5. QED
  BY <1>1, <1>2, <1>3, <1>4

\* What a message of a sequence tells of.
Piece(s, n) == IF s[n].count = 0 THEN <<s[n].payload>> ELSE Fil!Times(s[n].count, s[n - 1].payload)

\* A note has a message before it.
Begun(s) == s # <<>> => s[1].count = 0

LEMMA TimesIs ==
    ASSUME NEW n \in Nat, NEW p \in Carried
    PROVE  /\ Fil!Times(n, p) \in Seq(Carried) /\ Len(Fil!Times(n, p)) = n
           /\ Fil!Times(0, p) = <<>> /\ Fil!Times(n + 1, p) = Append(Fil!Times(n, p), p)
<1>1. \A k \in Nat : Fil!Times(k, p) \in Seq(Carried) /\ Len(Fil!Times(k, p)) = k
                      /\ \A i \in 1..k : Fil!Times(k, p)[i] = p
  BY DEF Fil!Times
<1>2. PICK t, u : t = Fil!Times(n, p) /\ u = Fil!Times(n + 1, p)
  OBVIOUS
<1>3. /\ t \in Seq(Carried) /\ Len(t) = n /\ \A i \in 1..n : t[i] = p
      /\ u \in Seq(Carried) /\ Len(u) = n + 1 /\ \A i \in 1..(n + 1) : u[i] = p
  BY <1>1, <1>2
<1>4. Append(t, p) \in Seq(Carried) /\ Len(u) = Len(Append(t, p))
  BY <1>3
<1>5. \A i \in 1..Len(u) : u[i] = Append(t, p)[i]
  BY <1>3
<1>6. u = Append(t, p)
  BY <1>3, <1>4, <1>5, SeqEqual, Zenon
<1>7. Fil!Times(0, p) = <<>>
  BY <1>1
<1>8. QED
  BY <1>1, <1>2, <1>6, <1>7

LEMMA PieceIs ==
    ASSUME NEW s \in Seq(MessagesBelow), Begun(s), NEW n \in 1..Len(s)
    PROVE  Piece(s, n) \in Seq(Carried)
<1>1. s[n].count \in Nat /\ s[n].payload \in Carried
  <2>1. s[n] \in MessagesBelow
    OBVIOUS
  <2>2. QED
    BY <2>1 DEF MessagesBelow
<1>2. CASE s[n].count = 0
  BY <1>1, <1>2 DEF Piece
<1>3. CASE s[n].count # 0
  <2>1. n # 1
    BY <1>3 DEF Begun
  <2>2. s[n - 1] \in MessagesBelow
    BY <2>1
  <2>3. s[n - 1].payload \in Carried
    BY <2>2 DEF MessagesBelow
  <2>4. Fil!Times(s[n].count, s[n - 1].payload) \in Seq(Carried)
    BY <1>1, <2>3, TimesIs
  <2>5. QED
    BY <1>3, <2>4 DEF Piece
<1>4. QED
  BY <1>2, <1>3

LEMMA ToldIs ==
    ASSUME NEW s \in Seq(MessagesBelow), Begun(s)
    PROVE  \E f \in [0..Len(s) -> Seq(Carried)] :
              /\ f[0] = <<>> /\ \A n \in 1..Len(s) : f[n] = f[n - 1] \o Piece(s, n)
              /\ Fil!Told(s) = f[Len(s)]
<1> DEFINE N == Len(s)
           F == [p \in Nat \X Seq(Carried) |-> IF p[1] \in 1..N THEN p[2] \o Piece(s, p[1]) ELSE p[2]]
           Tells(f) == f = [n \in 0..N |-> IF n = 0 THEN <<>>
                                           ELSE f[n - 1] \o (IF s[n].count = 0 THEN <<s[n].payload>>
                                                             ELSE Fil!Times(s[n].count, s[n - 1].payload))]
<1>1. N \in Nat /\ \A n \in 1..N : Piece(s, n) \in Seq(Carried)
  BY PieceIs
<1>2. F \in [Nat \X Seq(Carried) -> Seq(Carried)]
  <2>1. ASSUME NEW p \in Nat \X Seq(Carried) PROVE F[p] \in Seq(Carried)
    <3>1. p[2] \in Seq(Carried)
      OBVIOUS
    <3>2. CASE p[1] \in 1..N
      <4>1. Piece(s, p[1]) \in Seq(Carried)
        BY <1>1, <3>2
      <4>2. QED
        BY <3>1, <3>2, <4>1
    <3>3. CASE p[1] \notin 1..N
      BY <3>1, <3>3
    <3>4. QED
      BY <3>2, <3>3
  <2>2. QED
    BY <2>1
<1>3. <<>> \in Seq(Carried)
  OBVIOUS
<1>4. PICK f \in [0..N -> Seq(Carried)] : Chain(f, N, <<>>, F)
  <2> HIDE DEF F, N
  <2>1. QED
    BY <1>1, <1>2, <1>3, RecursionExists
<1>5. f[0] = <<>> /\ \A n \in 1..N : f[n] = f[n - 1] \o Piece(s, n)
  <2>1. ASSUME NEW n \in 1..N PROVE f[n] = f[n - 1] \o Piece(s, n)
    <3>1. n \in Nat /\ n - 1 \in 0..N
      BY <1>1
    <3>2. f[n - 1] \in Seq(Carried)
      BY <1>4, <3>1
    <3>3. f[n] = F[<<n, f[n - 1]>>]
      BY <1>4, Zenon DEF Chain
    <3>4. <<n, f[n - 1]>> \in Nat \X Seq(Carried)
      BY <3>1, <3>2
    <3>5. F[<<n, f[n - 1]>>] = f[n - 1] \o Piece(s, n)
      BY <3>4
    <3>6. QED
      BY <3>3, <3>5
  <2>2. QED
    BY <1>4, <2>1 DEF Chain
<1>6. Tells(f)
  <2>1. \A n \in 0..N : f[n] = IF n = 0 THEN <<>>
                               ELSE f[n - 1] \o (IF s[n].count = 0 THEN <<s[n].payload>>
                                                 ELSE Fil!Times(s[n].count, s[n - 1].payload))
    <3>1. ASSUME NEW n \in 0..N, n # 0 PROVE f[n] = f[n - 1] \o Piece(s, n)
      <4>1. n \in 1..N
        BY <1>1, <3>1
      <4>2. QED
        BY <1>5, <4>1
    <3>2. QED
      BY <1>5, <3>1, Zenon DEF Piece
  <2>2. QED
    BY <2>1
<1> DEFINE l == CHOOSE g : Tells(g)
<1>7. Tells(l)
  BY <1>6
<1>8. Fil!Told(s) = l[N]
  BY DEF Fil!Told
<1> HIDE DEF l
<1>9. l[0] = <<>> /\ \A n \in 1..N : l[n] = l[n - 1] \o Piece(s, n)
  <2>1. \A n \in 0..N : l[n] = IF n = 0 THEN <<>>
                               ELSE l[n - 1] \o (IF s[n].count = 0 THEN <<s[n].payload>>
                                                 ELSE Fil!Times(s[n].count, s[n - 1].payload))
    BY <1>7
  <2>2. ASSUME NEW n \in 1..N PROVE l[n] = l[n - 1] \o Piece(s, n)
    <3>1. n \in 0..N /\ n # 0
      BY <1>1
    <3>2. QED
      BY <2>1, <3>1, Zenon DEF Piece
  <2>3. 0 \in 0..N
    BY <1>1
  <2>4. QED
    BY <2>1, <2>2, <2>3, Zenon
<1>10. \A n \in 0..N : l[n] = f[n]
  <2>1. l[0] = f[0] /\ \A n \in 1..N : l[n - 1] = f[n - 1] => l[n] = f[n]
    BY <1>5, <1>9
  <2>2. InStep(l, f, N)
    BY <2>1, Zenon DEF InStep
  <2>3. Equal(l, f, N)
    BY <1>1, <2>2, Together
  <2>4. QED
    BY <2>3, Zenon DEF Equal
<1>11. l[N] = f[N]
  BY <1>1, <1>10
<1>12. QED
  BY <1>5, <1>8, <1>11, Zenon

LEMMA ToldNothing == Fil!Told(<<>>) = <<>>
<1> PICK s \in Seq(MessagesBelow) : s = <<>>
  BY EmptySeq
<1>1. Len(s) = 0 /\ Begun(s)
  BY DEF Begun
<1>2. PICK f \in [0..Len(s) -> Seq(Carried)] : f[0] = <<>> /\ Fil!Told(s) = f[Len(s)]
  BY <1>1, ToldIs
<1>3. QED
  BY <1>1, <1>2

LEMMA ToldAppend ==
    ASSUME NEW s \in Seq(MessagesBelow), Begun(s), NEW m \in MessagesBelow, s = <<>> => m.count = 0
    PROVE  /\ Append(s, m) \in Seq(MessagesBelow) /\ Begun(Append(s, m)) /\ Fil!Told(s) \in Seq(Carried)
           /\ Fil!Told(Append(s, m)) = Fil!Told(s) \o Piece(Append(s, m), Len(s) + 1)
<1>1. PICK r : r = Append(s, m)
  OBVIOUS
<1>2. PICK N \in Nat : N = Len(s)
  OBVIOUS
<1>3. /\ r \in Seq(MessagesBelow) /\ Len(r) = N + 1 /\ r[N + 1] = m /\ \A k \in 1..N : r[k] = s[k]
  BY <1>1, <1>2
<1>4. Begun(r)
  <2>1. CASE s = <<>>
    <3>1. N = 0
      BY <1>2, <2>1
    <3>2. QED
      BY <1>3, <2>1, <3>1 DEF Begun
  <2>2. CASE s # <<>>
    <3>1. 1 \in 1..N
      BY <1>2, <2>2
    <3>2. QED
      BY <1>3, <2>2, <3>1 DEF Begun
  <2>3. QED
    BY <2>1, <2>2
<1>5. PICK f \in [0..N -> Seq(Carried)] :
         /\ f[0] = <<>> /\ \A n \in 1..N : f[n] = f[n - 1] \o Piece(s, n)
         /\ Fil!Told(s) = f[N]
  BY <1>2, ToldIs
<1>6. PICK g \in [0..(N + 1) -> Seq(Carried)] :
         /\ g[0] = <<>> /\ \A n \in 1..(N + 1) : g[n] = g[n - 1] \o Piece(r, n)
         /\ Fil!Told(r) = g[N + 1]
  BY <1>3, <1>4, ToldIs
<1>7. ASSUME NEW n \in 1..N PROVE Piece(r, n) = Piece(s, n)
  <2>1. r[n] = s[n] /\ (n # 1 => r[n - 1] = s[n - 1])
    BY <1>3
  <2>2. CASE n = 1
    <3>1. s[n].count = 0
      BY <1>2, <2>2 DEF Begun
    <3>2. QED
      BY <2>1, <3>1, Zenon DEF Piece
  <2>3. CASE n # 1
    BY <2>1, <2>3, Zenon DEF Piece
  <2>4. QED
    BY <2>2, <2>3
<1>8. ASSUME NEW n \in 1..N, f[n - 1] = g[n - 1] PROVE f[n] = g[n]
  <2>1. n \in 1..(N + 1)
    OBVIOUS
  <2>2. f[n] = f[n - 1] \o Piece(s, n) /\ g[n] = g[n - 1] \o Piece(r, n)
    BY <1>5, <1>6, <2>1
  <2>3. QED
    BY <1>7, <1>8, <2>2, Zenon
<1>9. f[N] = g[N]
  <2>1. InStep(f, g, N)
    BY <1>5, <1>6, <1>8, Zenon DEF InStep
  <2>2. Equal(f, g, N)
    BY <2>1, Together
  <2>3. N \in 0..N
    OBVIOUS
  <2>4. QED
    BY <2>2, <2>3, Zenon DEF Equal
<1>10. g[N + 1] = g[N] \o Piece(r, N + 1)
  <2>1. N + 1 \in 1..(N + 1) /\ (N + 1) - 1 = N
    OBVIOUS
  <2>2. QED
    BY <1>6, <2>1
<1>11. Fil!Told(s) \in Seq(Carried)
  BY <1>5
<1>12. QED
  BY <1>1, <1>2, <1>3, <1>4, <1>5, <1>6, <1>9, <1>10, <1>11

(***************************************************************************)
(* What has been told of, and the duplicates that are still to be told of, *)
(* is what was logged; and the last message below is the one the filter    *)
(* compares with.                                                          *)
(***************************************************************************)
Apart(s) == \A j \in DOMAIN s : \A i \in 1..(j - 1) :
               Fil!Successive(s, i, j) /\ s[i].payload = s[j].payload => s[j].time - s[i].time > fi_SkipMax

\* s is what the keeper has, p, t and n what the filter remembers, l what was logged.
Remembers(s, p, t, n) == IF s = <<>> THEN p = Fil!NoPayload /\ n = 0
                         ELSE LET m == s[Len(s)] IN m.count = 0 /\ m.payload = p /\ m.time = t

Account(s, p, t, n, l) == /\ Begun(s) /\ Apart(s) /\ Remembers(s, p, t, n)
                          /\ Fil!Told(s) \o Fil!Times(n, p) = l

\* The messages a call passes on: perhaps a note, and the message.
Noted(s, n, note) == IF n > 0 THEN Append(s, note) ELSE s

LEMMA AccountOfSkipped ==
    ASSUME NEW s \in Seq(MessagesBelow), NEW p \in Carried, NEW t, NEW n \in Nat, NEW l \in Seq(fi_Payloads),
           Account(s, p, t, n, l), p # Fil!NoPayload
    PROVE  Account(s, p, t, n + 1, Append(l, p))
<1>1. Begun(s) /\ Apart(s) /\ Remembers(s, p, t, n) /\ Fil!Told(s) \o Fil!Times(n, p) = l
  BY DEF Account
<1>2. Fil!Told(s) \in Seq(Carried)
  <2>1. PICK f \in [0..Len(s) -> Seq(Carried)] : Fil!Told(s) = f[Len(s)]
    BY <1>1, ToldIs
  <2>2. QED
    BY <2>1
<1>3. Fil!Times(n, p) \in Seq(Carried) /\ Fil!Times(n + 1, p) = Append(Fil!Times(n, p), p)
  BY TimesIs
<1>4. Fil!Told(s) \o Append(Fil!Times(n, p), p) = Append(Fil!Told(s) \o Fil!Times(n, p), p)
  BY <1>2, <1>3
<1>5. Remembers(s, p, t, n + 1)
  BY <1>1 DEF Remembers
<1>6. QED
  BY <1>1, <1>3, <1>4, <1>5, Zenon DEF Account

LEMMA AccountOfNote ==
    ASSUME NEW s \in Seq(MessagesBelow), NEW p \in Carried, NEW t, NEW n \in Nat, NEW l,
           Account(s, p, t, n, l), NEW note \in MessagesBelow, note.count = n
    PROVE  /\ Noted(s, n, note) \in Seq(MessagesBelow) /\ Begun(Noted(s, n, note))
           /\ Fil!Told(Noted(s, n, note)) = l /\ l \in Seq(Carried)
<1>1. Begun(s) /\ Remembers(s, p, t, n) /\ Fil!Told(s) \o Fil!Times(n, p) = l
  BY DEF Account
<1>2. Fil!Told(s) \in Seq(Carried)
  <2>1. PICK f \in [0..Len(s) -> Seq(Carried)] : Fil!Told(s) = f[Len(s)]
    BY <1>1, ToldIs
  <2>2. QED
    BY <2>1
<1>3. Fil!Times(n, p) \in Seq(Carried) /\ Fil!Times(0, p) = <<>>
  BY TimesIs
<1>4. l \in Seq(Carried) /\ (n = 0 => Fil!Told(s) = l)
  <2>1. PICK u \in Seq(Carried), v \in Seq(Carried) : u = Fil!Told(s) /\ v = Fil!Times(n, p)
    BY <1>2, <1>3
  <2>2. u \o v \in Seq(Carried) /\ u \o <<>> = u
    OBVIOUS
  <2>3. n = 0 => v = <<>>
    BY <1>3, <2>1
  <2>4. QED
    BY <1>1, <2>1, <2>2, <2>3, Zenon
<1>5. CASE n = 0
  <2>1. Noted(s, n, note) = s
    BY <1>5 DEF Noted
  <2>2. Fil!Told(s) = l
    BY <1>4, <1>5
  <2>3. QED
    BY <1>1, <1>4, <2>1, <2>2
<1>6. CASE n # 0
  <2>1. PICK r : r = Append(s, note)
    OBVIOUS
  <2>2. Noted(s, n, note) = r
    BY <1>6, <2>1 DEF Noted
  <2>3. s # <<>> /\ s[Len(s)].payload = p
    BY <1>1, <1>6 DEF Remembers
  <2>4. /\ r \in Seq(MessagesBelow) /\ Begun(r) /\ Fil!Told(r) = Fil!Told(s) \o Piece(r, Len(s) + 1)
    BY <1>1, <2>1, <2>3, ToldAppend
  <2>5. PICK k \in Nat : k = Len(s) /\ k # 0
    BY <2>3
  <2>6. r[k + 1] = note /\ r[k] = s[k] /\ (k + 1) - 1 = k
    BY <2>1, <2>5
  <2>7. Piece(r, k + 1) = Fil!Times(n, p)
    BY <1>6, <2>3, <2>5, <2>6, Zenon DEF Piece
  <2>8. QED
    BY <1>1, <1>4, <2>2, <2>4, <2>5, <2>7, Zenon
<1>7. QED
  BY <1>5, <1>6

\* The message comes at least SkipMax after the last one, or is another.
LEMMA ApartGrows ==
    ASSUME NEW s \in Seq(MessagesBelow), NEW p \in Carried, NEW t \in Nat, NEW n \in Nat,
           Apart(s), Remembers(s, p, t, n),
           NEW note \in MessagesBelow, note.count = n, NEW m \in MessagesBelow, m.count = 0,
           m.time - t > fi_SkipMax \/ m.payload # p
    PROVE  Apart(Append(Noted(s, n, note), m))
<1> PICK k \in Nat : k = Len(s)
  OBVIOUS
<1> PICK a : a = Noted(s, n, note)
  OBVIOUS
<1>1. PICK e \in Nat : /\ a \in Seq(MessagesBelow) /\ Len(a) = e /\ k <= e /\ e <= k + 1
                       /\ (e = k + 1 => n > 0 /\ a[k + 1] = note) /\ \A i \in 1..k : a[i] = s[i]
  <2>1. CASE n > 0
    <3>1. a = Append(s, note)
      BY <2>1 DEF Noted
    <3>2. /\ a \in Seq(MessagesBelow) /\ Len(a) = k + 1 /\ a[k + 1] = note /\ \A i \in 1..k : a[i] = s[i]
      BY <3>1
    <3>3. QED
      BY <2>1, <3>2
  <2>2. CASE ~(n > 0)
    <3>1. a = s
      BY <2>2, Zenon DEF Noted
    <3>2. QED
      BY <3>1
  <2>3. QED
    BY <2>1, <2>2
<1>2. PICK r : r = Append(a, m)
  OBVIOUS
<1>3. /\ r \in Seq(MessagesBelow) /\ Len(r) = e + 1 /\ r[e + 1] = m /\ \A i \in 1..e : r[i] = a[i]
  BY <1>1, <1>2
<1>4. ASSUME NEW j \in 1..(e + 1), NEW i \in 1..(j - 1), Fil!Successive(r, i, j), r[i].payload = r[j].payload
      PROVE  r[j].time - r[i].time > fi_SkipMax
  <2>1. r[i].count = 0 /\ r[j].count = 0 /\ \A h \in (i + 1)..(j - 1) : r[h].count # 0
    BY <1>4 DEF Fil!Successive
  <2>2. CASE j \in 1..k
    <3>1. \A h \in 1..k : r[h] = s[h]
      <4>1. k \in Nat /\ e \in Nat /\ k <= e
        BY <1>1
      <4>2. ASSUME NEW h \in 1..k PROVE r[h] = s[h]
        <5>1. h \in 1..e
          BY <4>1
        <5>2. r[h] = a[h] /\ a[h] = s[h]
          BY <5>1, <1>1, <1>3, Zenon
        <5>3. QED
          BY <5>2
      <4>3. QED
        BY <4>2
    <3>2. i \in 1..k /\ \A h \in (i + 1)..(j - 1) : h \in 1..k
      BY <2>2
    <3>3. r[i] = s[i] /\ r[j] = s[j] /\ \A h \in (i + 1)..(j - 1) : s[h].count # 0
      BY <2>1, <2>2, <3>1, <3>2
    <3>4. Fil!Successive(s, i, j) /\ s[i].payload = s[j].payload
      BY <1>4, <2>1, <3>3 DEF Fil!Successive
    <3>5. j \in DOMAIN s
      BY <2>2
    <3>6. QED
      BY <3>3, <3>4, <3>5 DEF Apart
  <2>3. CASE j = k + 1 /\ e = k + 1
    <3>1. r[j] = note /\ n > 0
      BY <1>1, <1>3, <2>3
    <3>2. QED
      BY <2>1, <3>1
  <2>4. CASE j = e + 1
    <3>1. i \in 1..e
      BY <2>4
    <3>2. i # k + 1
      <4>1. SUFFICES ASSUME i = k + 1 PROVE FALSE
        OBVIOUS
      <4>2. e = k + 1 /\ r[i] = note /\ n > 0
        BY <1>1, <1>3, <3>1, <4>1
      <4>3. QED
        BY <2>1, <4>2
    <3>3. i \in 1..k
      BY <1>1, <3>1, <3>2
    <3>4. s # <<>> /\ k # 0
      BY <3>3
    <3>5. s[k].count = 0 /\ s[k].payload = p /\ s[k].time = t
      BY <3>4 DEF Remembers
    <3>6. r[k] = s[k]
      BY <1>1, <1>3, <3>4
    <3>7. i = k
      <4>1. SUFFICES ASSUME i # k PROVE FALSE
        OBVIOUS
      <4>2. k \in (i + 1)..(j - 1)
        BY <1>1, <2>4, <3>3, <4>1
      <4>3. QED
        BY <2>1, <3>5, <3>6, <4>2
    <3>8. r[j] = m /\ r[i].payload = p /\ r[i].time = t
      BY <1>3, <2>4, <3>5, <3>6, <3>7
    <3>9. QED
      BY <1>4, <3>8
  <2>5. QED
    BY <1>1, <2>2, <2>3, <2>4
<1>5. DOMAIN r = 1..(e + 1)
  BY <1>3
<1>6. Apart(r)
  BY <1>4, <1>5 DEF Apart
<1>7. QED
  BY <1>2, <1>6

LEMMA AccountOfForwarded ==
    ASSUME NEW s \in Seq(MessagesBelow), NEW p \in Carried, NEW t \in Nat, NEW n \in Nat,
           NEW l \in Seq(fi_Payloads),
           Account(s, p, t, n, l), NEW note \in MessagesBelow, note.count = n,
           NEW m \in MessagesBelow, m.count = 0, m.time - t > fi_SkipMax \/ m.payload # p
    PROVE  Account(Append(Noted(s, n, note), m), m.payload, m.time, 0, Append(l, m.payload))
<1>1. Begun(s) /\ Apart(s) /\ Remembers(s, p, t, n)
  BY DEF Account
<1>2. PICK a : a = Noted(s, n, note)
  OBVIOUS
<1>3. a \in Seq(MessagesBelow) /\ Begun(a) /\ Fil!Told(a) = l /\ l \in Seq(Carried)
  BY <1>2, AccountOfNote
<1>4. PICK r : r = Append(a, m)
  OBVIOUS
<1>5. r \in Seq(MessagesBelow) /\ Begun(r) /\ Fil!Told(r) = Fil!Told(a) \o Piece(r, Len(a) + 1)
  BY <1>3, <1>4, ToldAppend
<1>6. r # <<>> /\ Len(r) = Len(a) + 1 /\ r[Len(a) + 1] = m
  <2>1. PICK k \in Nat : k = Len(a)
    BY <1>3
  <2>2. Len(r) = k + 1 /\ r[k + 1] = m
    BY <1>3, <1>4, <2>1
  <2>3. r # <<>>
    BY <1>5, <2>2
  <2>4. QED
    BY <2>1, <2>2, <2>3, Zenon
<1>7. m.payload \in Carried
  BY DEF MessagesBelow
<1>8. Piece(r, Len(a) + 1) = <<m.payload>>
  BY <1>6, Zenon DEF Piece
<1>9. Fil!Told(r) = Append(l, m.payload)
  <2>1. l \o <<m.payload>> = Append(l, m.payload)
    BY <1>3, <1>7
  <2>2. QED
    BY <1>3, <1>5, <1>8, <2>1, Zenon
<1>10. Fil!Told(r) \o Fil!Times(0, m.payload) = Append(l, m.payload)
  <2>1. Fil!Times(0, m.payload) = <<>> /\ Append(l, m.payload) \in Seq(Carried)
    <3>1. Append(l, m.payload) \in Seq(Carried)
      BY <1>3, <1>7
    <3>2. Fil!Times(0, m.payload) = <<>>
      BY <1>7, TimesIs
    <3>3. QED
      BY <3>1, <3>2
  <2>2. Append(l, m.payload) \o <<>> = Append(l, m.payload)
    BY <2>1
  <2>3. QED
    BY <1>9, <2>1, <2>2, Zenon
<1>11. Remembers(r, m.payload, m.time, 0)
  BY <1>6, Zenon DEF Remembers
<1>12. Apart(r)
  BY <1>1, <1>2, <1>4, ApartGrows
<1>13. QED
  BY <1>2, <1>4, <1>5, <1>10, <1>11, <1>12, Zenon DEF Account

(***************************************************************************)
(* The invariant of the filter: its own state, the state of the sinks      *)
(* below, and, while none of them has thrown, the account.                 *)
(***************************************************************************)
FilterState == /\ fi_now \in 0..fi_LastTime /\ fi_ringLevel \in {Fil!Info, Fil!Err}
               /\ fi_sinks_ \in Seq(Fil!Children) /\ OneKeeper(fi_sinks_)
               /\ fi_last_msg_time_ \in Nat /\ fi_last_msg_payload_ \in Carried
               /\ fi_logged \in Seq(fi_Payloads) /\ Len(fi_logged) <= fi_MaxLogged
               /\ fi_skip_counter_ \in 0..Len(fi_logged) /\ fi_faults \in 0..fi_MaxFaults

FilterInv ==
    /\ FilterState /\ Fil!Below \in Belows
    /\ fi_faults = 0 =>
          Account(fi_got["keeper"], fi_last_msg_payload_, fi_last_msg_time_, fi_skip_counter_, fi_logged)

LEMMA FirstContents == ASSUME NEW n \in Nat PROVE Ring(Create(n), MessagesBelow) /\ Contents(Create(n)) = <<>>
<1> PICK q : q = Create(n)
  OBVIOUS
<1>1. /\ q = [max |-> q.max, head |-> q.head, tail |-> q.tail, over |-> q.over, v |-> q.v]
      /\ q.max = n + 1 /\ q.head = 0 /\ q.tail = 0 /\ q.over = 0 /\ q.v = [i \in 0..n |-> Unused]
  BY DEF Create
<1>2. q.v \in [0..(q.max - 1) -> MessagesBelow \cup {Unused}]
  BY <1>1
<1>3. Ring(q, MessagesBelow) /\ q.max # 0
  BY <1>1, <1>2 DEF Ring
<1>4. Size(q) = 0
  BY <1>1 DEF Size
<1>5. Contents(q) \in Seq(MessagesBelow \cup {Unused}) /\ Len(Contents(q)) = Size(q)
  BY <1>3, ContentsIsSequence
<1>6. Contents(q) = <<>>
  BY <1>4, <1>5
<1>7. QED
  BY <1>3, <1>6

LEMMA FilterBegins == ASSUME FilterParameters, Fil!Init PROVE FilterInv
<1>1. /\ fi_now = fi_SkipMax + 1 /\ fi_sinks_ \in {<<"keeper">>, <<"keeper", "ring">>} /\ fi_ringLevel = Fil!Info
      /\ fi_q_ = Create(fi_RingItems) /\ fi_got = [c \in Fil!Children |-> <<>>]
      /\ fi_last_msg_time_ = 0 /\ fi_last_msg_payload_ = Fil!NoPayload /\ fi_skip_counter_ = 0
      /\ fi_logged = <<>> /\ fi_faults = 0
  BY DEF Fil!Init, Fil!Create, Create
<1>2. /\ fi_SkipMax \in Nat /\ fi_RingItems \in Nat /\ fi_LastTime \in Nat /\ fi_SkipMax < fi_LastTime
      /\ fi_MaxLogged \in Nat /\ fi_MaxFaults \in Nat
  BY DEF FilterParameters
<1>3. FilterState
  <2>1. fi_sinks_ \in Seq(Fil!Children) /\ OneKeeper(fi_sinks_)
    BY <1>1, ListsKeepTheKeeper
  <2>2. fi_logged \in Seq(fi_Payloads) /\ Len(fi_logged) = 0
    BY <1>1
  <2>3. fi_last_msg_payload_ \in Carried
    BY <1>1 DEF Carried
  <2>4. QED
    BY <1>1, <1>2, <2>1, <2>2, <2>3 DEF FilterState
<1>4. Fil!Below \in Belows
  <2>1. fi_q_ \in RingsBelow
    <3>1. Ring(fi_q_, MessagesBelow) /\ fi_q_ = Create(fi_RingItems)
      BY <1>1, <1>2, FirstContents
    <3>2. fi_q_ \in [max : {fi_RingItems + 1}, head : Nat, tail : Nat, over : Nat,
                  v : [0..fi_RingItems -> MessagesBelow \cup {Unused}]]
      BY <1>2, <3>1 DEF Create
    <3>3. QED
      BY <3>1, <3>2 DEF RingsBelow
  <2>2. RingTells(fi_q_, <<>>)
    <3>1. <<>> \in Seq(MessagesBelow) /\ Reg!LastOf(<<>>, fi_RingItems) = <<>>
      BY <1>2, LastOfNone
    <3>2. Fil!LastOf(<<>>, fi_RingItems) = <<>>
      BY <1>2, <3>1, LastOfIsRegs
    <3>3. Contents(fi_q_) = <<>>
      BY <1>1, <1>2, FirstContents
    <3>4. QED
      BY <3>2, <3>3, Zenon DEF RingTells
  <2>3. fi_got \in [Fil!Children -> Seq(MessagesBelow)] /\ fi_got["ring"] = <<>>
    BY <1>1 DEF Fil!Children
  <2>4. RingTells(fi_q_, fi_got["ring"])
    BY <2>2, <2>3, Zenon
  <2>5. QED
    BY <2>1, <2>3, <2>4 DEF Fil!Below, Belows
<1>5. Account(fi_got["keeper"], fi_last_msg_payload_, fi_last_msg_time_, fi_skip_counter_, fi_logged)
  <2>1. fi_got["keeper"] = <<>>
    BY <1>1 DEF Fil!Children
  <2>2. PICK s \in Seq(MessagesBelow) : s = <<>>
    BY EmptySeq
  <2>3. Begun(s) /\ Apart(s) /\ Remembers(s, fi_last_msg_payload_, fi_last_msg_time_, fi_skip_counter_)
    BY <1>1, <2>2 DEF Begun, Apart, Remembers
  <2>4. Fil!Told(s) = <<>>
    BY <2>2, ToldNothing
  <2>5. Fil!Times(0, Fil!NoPayload) = <<>>
    BY TimesIs DEF Carried
  <2>6. Fil!Told(s) \o Fil!Times(fi_skip_counter_, fi_last_msg_payload_) = fi_logged
    <3>1. <<>> \o <<>> = <<>>
      OBVIOUS
    <3>2. QED
      BY <1>1, <2>4, <2>5, <3>1, Zenon
  <2>7. QED
    BY <2>1, <2>2, <2>3, <2>6, Zenon DEF Account
<1>6. QED
  BY <1>3, <1>4, <1>5 DEF FilterInv

\* A step that leaves the sinks below and the account alone.
LEMMA SameAccount ==
    ASSUME FilterInv,
           UNCHANGED <<fi_q_, fi_got, fi_last_msg_time_, fi_last_msg_payload_, fi_skip_counter_,
                       fi_logged, fi_faults>>,
           fi_now' \in 0..fi_LastTime, fi_ringLevel' \in {Fil!Info, Fil!Err},
           fi_sinks_' \in Seq(Fil!Children), OneKeeper(fi_sinks_')
    PROVE  FilterInv'
<1>1. PICK b : b = Fil!Below
  OBVIOUS
<1>2. Fil!Below' = b
  BY <1>1 DEF Fil!Below
<1>3. Fil!Below' \in Belows
  BY <1>1, <1>2 DEF FilterInv
<1>4. FilterState'
  BY DEF FilterInv, FilterState
<1>5. (Fil!Below \in Belows)'
  BY <1>3 DEF Belows, RingsBelow
<1>6. QED
  BY <1>4, <1>5 DEF FilterInv

LEMMA TickKeeps == ASSUME FilterParameters, FilterInv, Fil!Tick PROVE FilterInv'
<1>1. fi_now' \in 0..fi_LastTime
  BY DEF Fil!Tick, FilterInv, FilterState, FilterParameters
<1>2. QED
  BY <1>1, SameAccount DEF Fil!Tick, FilterInv, FilterState

LEMMA ChangesKeep ==
    ASSUME FilterParameters, FilterInv, Fil!add_sink \/ Fil!remove_sink \/ Fil!set_sinks \/ Fil!set_level
    PROVE  FilterInv'
<1>1. /\ UNCHANGED <<fi_q_, fi_got, fi_last_msg_time_, fi_last_msg_payload_, fi_skip_counter_,
                     fi_logged, fi_faults>>
      /\ fi_now' = fi_now
  BY DEF Fil!add_sink, Fil!remove_sink, Fil!set_sinks, Fil!set_level, Fil!Changed
<1>2. /\ fi_now \in 0..fi_LastTime /\ fi_ringLevel \in {Fil!Info, Fil!Err}
      /\ fi_sinks_ \in Seq(Fil!Children) /\ OneKeeper(fi_sinks_)
  BY DEF FilterInv, FilterState
<1>3. fi_ringLevel' \in {Fil!Info, Fil!Err}
  BY <1>2 DEF Fil!add_sink, Fil!remove_sink, Fil!set_sinks, Fil!set_level, Fil!Info, Fil!Err
<1>4. fi_sinks_' \in Seq(Fil!Children) /\ OneKeeper(fi_sinks_')
  <2>1. CASE Fil!add_sink
    BY <1>2, <2>1, ListsKeepTheKeeper DEF Fil!add_sink
  <2>2. CASE Fil!remove_sink
    BY <1>2, <2>2, ListsKeepTheKeeper, KeeperIsLeft DEF Fil!remove_sink
  <2>3. CASE Fil!set_sinks
    BY <2>3, ListsKeepTheKeeper DEF Fil!set_sinks
  <2>4. CASE Fil!set_level
    BY <1>2, <2>4 DEF Fil!set_level
  <2>5. QED
    BY <2>1, <2>2, <2>3, <2>4
<1>5. QED
  BY <1>1, <1>2, <1>3, <1>4, SameAccount

\* What is passed on are messages.
LEMMA MessagesAre ==
    ASSUME FilterParameters, FilterInv,
           NEW p \in fi_Payloads, NEW level \in {Fil!Info, Fil!Err}, NEW t \in 0..fi_now
    PROVE  /\ Fil!Message(p, level, t) \in MessagesBelow /\ Fil!Message(p, level, t).count = 0
           /\ Fil!Message(p, level, t).payload = p /\ Fil!Message(p, level, t).time = t
           /\ Fil!Skipped(fi_skip_counter_, level) \in MessagesBelow
           /\ Fil!Skipped(fi_skip_counter_, level).count = fi_skip_counter_
           /\ t \in Nat /\ p \in Carried /\ p # Fil!NoPayload
<1>1. fi_now \in Nat /\ fi_skip_counter_ \in Nat
  BY DEF FilterInv, FilterState, FilterParameters
<1>2. p \in Carried /\ Fil!NoPayload \in Carried /\ p # Fil!NoPayload
  BY DEF Carried, Fil!NoPayload, FilterParameters
<1>3. t \in Nat
  BY <1>1
<1>4. QED
  BY <1>1, <1>2, <1>3 DEF Fil!Message, Fil!Skipped, MessagesBelow

\* What one call logs.
OneLogged(p) == /\ Len(fi_logged) < fi_MaxLogged /\ fi_logged' = Append(fi_logged, p)
                /\ UNCHANGED <<fi_now, fi_sinks_, fi_ringLevel, fi_changes>>

LEMMA LoggedGrows ==
    ASSUME FilterParameters, FilterInv, NEW p \in fi_Payloads, OneLogged(p),
           fi_last_msg_time_' \in Nat, fi_last_msg_payload_' \in Carried,
           fi_skip_counter_' \in 0..(fi_skip_counter_ + 1), fi_faults' \in 0..fi_MaxFaults
    PROVE  FilterState'
<1> PICK k \in Nat : k = Len(fi_logged)
  BY DEF FilterInv, FilterState
<1>1. fi_logged \in Seq(fi_Payloads) /\ k < fi_MaxLogged /\ fi_skip_counter_ \in 0..k
  BY DEF OneLogged, FilterInv, FilterState
<1>2. fi_logged' \in Seq(fi_Payloads) /\ Len(fi_logged') = k + 1
  BY <1>1 DEF OneLogged
<1>3. /\ fi_now' \in 0..fi_LastTime /\ fi_ringLevel' \in {Fil!Info, Fil!Err}
      /\ fi_sinks_' \in Seq(Fil!Children) /\ OneKeeper(fi_sinks_')
  BY DEF OneLogged, FilterInv, FilterState
<1>4. fi_MaxLogged \in Nat /\ k + 1 <= fi_MaxLogged
  BY <1>1 DEF FilterParameters
<1>5. fi_skip_counter_' \in 0..(k + 1)
  BY <1>1
<1>6. QED
  BY <1>2, <1>3, <1>4, <1>5 DEF FilterState

LEMMA SkipKeeps ==
    ASSUME FilterParameters, FilterInv,
           NEW p \in fi_Payloads, NEW level \in {Fil!Info, Fil!Err}, NEW t \in 0..fi_now,
           OneLogged(p), Fil!Skip(p, t)
    PROVE  FilterInv'
<1>1. /\ fi_skip_counter_' = fi_skip_counter_ + 1 /\ p = fi_last_msg_payload_
      /\ UNCHANGED <<fi_got, fi_q_, fi_last_msg_time_, fi_last_msg_payload_, fi_faults>>
  BY DEF Fil!Skip, Fil!filter_
<1>2. FilterState
  BY DEF FilterInv
<1>3. FilterState'
  <2>1. fi_skip_counter_' \in 0..(fi_skip_counter_ + 1)
    BY <1>1, <1>2 DEF FilterState
  <2>2. fi_last_msg_time_' \in Nat /\ fi_last_msg_payload_' \in Carried /\ fi_faults' \in 0..fi_MaxFaults
    BY <1>1, <1>2 DEF FilterState
  <2>3. QED
    BY <2>1, <2>2, LoggedGrows
<1>4. (Fil!Below \in Belows)'
  BY <1>1 DEF FilterInv, Fil!Below, Belows, RingsBelow
<1>5. PICK s, lp, lt, n, l : /\ s = fi_got["keeper"] /\ lp = fi_last_msg_payload_ /\ lt = fi_last_msg_time_
                             /\ n = fi_skip_counter_ /\ l = fi_logged
  OBVIOUS
<1>6. ASSUME fi_faults' = 0 PROVE Account(s, lp, lt, n + 1, Append(l, p))
  <2>1. Account(s, lp, lt, n, l)
    BY <1>1, <1>5, <1>6 DEF FilterInv
  <2>2. s \in Seq(MessagesBelow)
    BY <1>5 DEF FilterInv, Fil!Below, Belows, Fil!Children
  <2>3. l \in Seq(fi_Payloads) /\ n \in Nat
    BY <1>2, <1>5 DEF FilterState
  <2>4. p \in Carried /\ p # Fil!NoPayload /\ lp = p
    BY <1>1, <1>5, MessagesAre
  <2>5. QED
    BY <2>1, <2>2, <2>3, <2>4, AccountOfSkipped
<1>7. /\ fi_got'["keeper"] = s /\ fi_last_msg_payload_' = lp /\ fi_last_msg_time_' = lt
      /\ fi_skip_counter_' = n + 1 /\ fi_logged' = Append(l, p)
  BY <1>1, <1>5 DEF OneLogged
<1>8. QED
  BY <1>3, <1>4, <1>6, <1>7, Zenon DEF FilterInv

\* The state of the sinks below when a call is done, or broken off.
LEMMA ForwardedIs ==
    ASSUME FilterParameters, FilterInv,
           NEW p \in fi_Payloads, NEW level \in {Fil!Info, Fil!Err}, NEW t \in 0..fi_now
    PROVE  /\ Fil!Forwarded(p, level, t) \in Belows
           /\ Fil!Forwarded(p, level, t).got["keeper"]
                = Append(Noted(fi_got["keeper"], fi_skip_counter_, Fil!Skipped(fi_skip_counter_, level)),
                         Fil!Message(p, level, t))
           /\ \A k \in 1..(Len(fi_sinks_) + 1) :
                /\ Fil!Delivered(Fil!Below, Fil!Skipped(fi_skip_counter_, level), k) \in Belows
                /\ Fil!Delivered(IF fi_skip_counter_ > 0
                                 THEN Fil!Delivered(Fil!Below, Fil!Skipped(fi_skip_counter_, level),
                                                    Len(fi_sinks_) + 1)
                                 ELSE Fil!Below,
                                 Fil!Message(p, level, t), k) \in Belows
<1>1. PICK note, m, b, n : /\ note = Fil!Skipped(fi_skip_counter_, level)
                           /\ m = Fil!Message(p, level, t) /\ b = Fil!Below
                           /\ n = fi_skip_counter_
  OBVIOUS
<1>2. note \in MessagesBelow /\ m \in MessagesBelow
  BY <1>1, MessagesAre
<1>3. b \in Belows /\ fi_sinks_ \in Seq(Fil!Children) /\ OneKeeper(fi_sinks_)
  BY <1>1 DEF FilterInv, FilterState
<1>4. Len(fi_sinks_) \in Nat /\ Len(fi_sinks_) + 1 \in 1..(Len(fi_sinks_) + 1)
  BY <1>3
<1>5. /\ \A k \in 1..(Len(fi_sinks_) + 1) : Fil!Delivered(b, note, k) \in Belows
      /\ Fil!Delivered(b, note, Len(fi_sinks_) + 1).got["keeper"] = Append(b.got["keeper"], note)
  BY <1>2, <1>3, KeeperGets
<1>6. PICK c : c = IF n > 0 THEN Fil!Delivered(b, note, Len(fi_sinks_) + 1) ELSE b
  OBVIOUS
<1>7. c \in Belows /\ c.got["keeper"] = Noted(b.got["keeper"], n, note)
  BY <1>3, <1>4, <1>5, <1>6 DEF Noted
<1>8. /\ \A k \in 1..(Len(fi_sinks_) + 1) : Fil!Delivered(c, m, k) \in Belows
      /\ Fil!Delivered(c, m, Len(fi_sinks_) + 1).got["keeper"] = Append(c.got["keeper"], m)
  BY <1>2, <1>3, <1>7, KeeperGets
<1>9. Fil!Forwarded(p, level, t) = Fil!Delivered(c, m, Len(fi_sinks_) + 1)
  BY <1>1, <1>6, Zenon DEF Fil!Forwarded
<1>10. b.got = fi_got
  BY <1>1 DEF Fil!Below
<1>11. Fil!Forwarded(p, level, t) \in Belows
  BY <1>4, <1>8, <1>9
<1>12. Fil!Forwarded(p, level, t).got["keeper"] = Append(Noted(fi_got["keeper"], n, note), m)
  BY <1>7, <1>8, <1>9, <1>10, Zenon
<1>13. QED
  BY <1>1, <1>5, <1>6, <1>8, <1>11, <1>12, Zenon

LEMMA BelowIs == ASSUME NEW b \in Belows PROVE b = [got |-> b.got, q |-> b.q]
BY DEF Belows

LEMMA ForwardKeeps ==
    ASSUME FilterParameters, FilterInv,
           NEW p \in fi_Payloads, NEW level \in {Fil!Info, Fil!Err}, NEW t \in 0..fi_now,
           OneLogged(p), Fil!Forward(p, level, t)
    PROVE  FilterInv'
<1>1. PICK b : b = Fil!Forwarded(p, level, t)
  OBVIOUS
<1>2. /\ Fil!filter_(p, t) /\ fi_got' = b.got /\ fi_q_' = b.q
      /\ fi_last_msg_time_' = t /\ fi_last_msg_payload_' = p /\ fi_skip_counter_' = 0 /\ fi_faults' = fi_faults
  BY <1>1 DEF Fil!Forward
<1>3. FilterState
  BY DEF FilterInv
<1>4. PICK note, m : note = Fil!Skipped(fi_skip_counter_, level) /\ m = Fil!Message(p, level, t)
  OBVIOUS
<1>5. /\ m \in MessagesBelow /\ m.count = 0 /\ m.payload = p /\ m.time = t
      /\ note \in MessagesBelow /\ note.count = fi_skip_counter_ /\ t \in Nat /\ p \in Carried
  BY <1>4, MessagesAre
<1>6. FilterState'
  <2>1. fi_skip_counter_' \in 0..(fi_skip_counter_ + 1)
    BY <1>2, <1>3 DEF FilterState
  <2>2. fi_last_msg_time_' \in Nat /\ fi_last_msg_payload_' \in Carried /\ fi_faults' \in 0..fi_MaxFaults
    BY <1>2, <1>3, <1>5 DEF FilterState
  <2>3. QED
    BY <2>1, <2>2, LoggedGrows
<1>7. b \in Belows
  BY <1>1, ForwardedIs
<1>8. Fil!Below' = b
  BY <1>2, <1>7, BelowIs DEF Fil!Below
<1>9. (Fil!Below \in Belows)'
  BY <1>7, <1>8 DEF Belows, RingsBelow
<1>10. PICK s, lp, lt, n, l : /\ s = fi_got["keeper"] /\ lp = fi_last_msg_payload_ /\ lt = fi_last_msg_time_
                              /\ n = fi_skip_counter_ /\ l = fi_logged
  OBVIOUS
<1>11. fi_got'["keeper"] = Append(Noted(s, n, note), m)
  <2>1. b.got["keeper"] = Append(Noted(s, n, note), m)
    BY <1>1, <1>4, <1>10, ForwardedIs
  <2>2. QED
    BY <1>2, <2>1
<1>12. ASSUME fi_faults' = 0 PROVE Account(Append(Noted(s, n, note), m), p, t, 0, Append(l, p))
  <2>1. Account(s, lp, lt, n, l)
    BY <1>2, <1>10, <1>12 DEF FilterInv
  <2>2. s \in Seq(MessagesBelow)
    BY <1>10 DEF FilterInv, Fil!Below, Belows, Fil!Children
  <2>3. l \in Seq(fi_Payloads) /\ n \in Nat /\ lt \in Nat /\ lp \in Carried
    BY <1>3, <1>10 DEF FilterState
  <2>4. m.time - lt > fi_SkipMax \/ m.payload # lp
    BY <1>2, <1>5, <1>10 DEF Fil!filter_
  <2>5. note.count = n
    BY <1>5, <1>10
  <2>6. Account(Append(Noted(s, n, note), m), m.payload, m.time, 0, Append(l, m.payload))
    BY <1>5, <2>1, <2>2, <2>3, <2>4, <2>5, AccountOfForwarded
  <2>7. QED
    BY <1>5, <2>6
<1>13. fi_logged' = Append(l, p)
  BY <1>10 DEF OneLogged
<1>14. QED
  BY <1>2, <1>6, <1>9, <1>11, <1>12, <1>13, Zenon DEF FilterInv

LEMMA ForwardThrowsKeeps ==
    ASSUME FilterParameters, FilterInv,
           NEW p \in fi_Payloads, NEW level \in {Fil!Info, Fil!Err}, NEW t \in 0..fi_now,
           OneLogged(p), Fil!ForwardThrows(p, level, t)
    PROVE  FilterInv'
<1>1. PICK note, m : note = Fil!Skipped(fi_skip_counter_, level) /\ m = Fil!Message(p, level, t)
  OBVIOUS
<1>2. PICK c : c = IF fi_skip_counter_ > 0 THEN Fil!Delivered(Fil!Below, note, Len(fi_sinks_) + 1) ELSE Fil!Below
  OBVIOUS
<1>3. PICK i \in DOMAIN fi_sinks_ :
        \/ fi_got' = Fil!Delivered(Fil!Below, note, i).got /\ fi_q_' = Fil!Delivered(Fil!Below, note, i).q
        \/ fi_got' = Fil!Delivered(c, m, i).got /\ fi_q_' = Fil!Delivered(c, m, i).q
  BY <1>1, <1>2 DEF Fil!ForwardThrows
<1>4. /\ fi_faults < fi_MaxFaults /\ fi_faults' = fi_faults + 1
      /\ UNCHANGED <<fi_last_msg_time_, fi_last_msg_payload_, fi_skip_counter_>>
  BY DEF Fil!ForwardThrows
<1>5. FilterState
  BY DEF FilterInv
<1>6. i \in 1..(Len(fi_sinks_) + 1)
  BY <1>3, <1>5 DEF FilterState
<1>7. Fil!Delivered(Fil!Below, note, i) \in Belows /\ Fil!Delivered(c, m, i) \in Belows
  BY <1>1, <1>2, <1>6, ForwardedIs, Zenon
<1>8. PICK b \in Belows : fi_got' = b.got /\ fi_q_' = b.q
  BY <1>3, <1>7
<1>9. Fil!Below' = b
  BY <1>8, BelowIs DEF Fil!Below
<1>10. (Fil!Below \in Belows)'
  BY <1>8, <1>9 DEF Belows, RingsBelow
<1>11. fi_faults \in Nat /\ fi_faults' # 0 /\ fi_faults' \in 0..fi_MaxFaults
  BY <1>4, <1>5 DEF FilterState, FilterParameters
<1>12. FilterState'
  <2>1. fi_skip_counter_' \in 0..(fi_skip_counter_ + 1)
    BY <1>4, <1>5 DEF FilterState
  <2>2. fi_last_msg_time_' \in Nat /\ fi_last_msg_payload_' \in Carried
    BY <1>4, <1>5 DEF FilterState
  <2>3. QED
    BY <1>11, <2>1, <2>2, LoggedGrows
<1>13. QED
  BY <1>10, <1>11, <1>12 DEF FilterInv

LEMMA FilterKeeps == ASSUME FilterParameters, FilterInv, [Fil!Next]_(Fil!vars) PROVE FilterInv'
<1>1. CASE Fil!Tick
  BY <1>1, TickKeeps
<1>2. CASE Fil!add_sink \/ Fil!remove_sink \/ Fil!set_sinks \/ Fil!set_level
  BY <1>2, ChangesKeep
<1>3. ASSUME NEW p \in fi_Payloads, NEW level \in {Fil!Info, Fil!Err},
             NEW t \in {u \in 0..fi_now : u >= fi_now - fi_Delay},
             Fil!log(p, level, t)
      PROVE  FilterInv'
  <2>1. OneLogged(p) /\ (Fil!Skip(p, t) \/ Fil!Forward(p, level, t) \/ Fil!ForwardThrows(p, level, t))
    BY <1>3 DEF Fil!log, OneLogged
  <2>2. t \in 0..fi_now
    OBVIOUS
  <2>3. QED
    BY <2>1, <2>2, SkipKeeps, ForwardKeeps, ForwardThrowsKeeps
<1>4. CASE UNCHANGED Fil!vars
  <2>1. /\ UNCHANGED <<fi_q_, fi_got, fi_last_msg_time_, fi_last_msg_payload_, fi_skip_counter_,
                       fi_logged, fi_faults>>
        /\ fi_now' = fi_now /\ fi_ringLevel' = fi_ringLevel /\ fi_sinks_' = fi_sinks_
    BY <1>4 DEF Fil!vars
  <2>2. QED
    BY <2>1, SameAccount DEF FilterInv, FilterState
<1>5. QED
  BY <1>1, <1>2, <1>3, <1>4 DEF Fil!Next

\* last_raw reads the last messages off the ring.
LEMMA LastRaw ==
    ASSUME FilterParameters, fi_q_ \in RingsBelow, NEW g \in Seq(MessagesBelow), RingTells(fi_q_, g),
           NEW lim \in Nat
    PROVE  Fil!last_raw(lim) = Fil!LastOf(g, IF lim > 0 /\ lim < fi_RingItems THEN lim ELSE fi_RingItems)
<1>0. PICK R \in Nat, k \in Nat : R = fi_RingItems /\ k = Len(g)
  BY DEF FilterParameters
<1>a. PICK a \in Nat : a = IF k > R THEN R ELSE k
  OBVIOUS
<1>w. PICK w \in Nat : w = IF lim > 0 /\ lim < R THEN lim ELSE R
  OBVIOUS
<1>n. PICK n \in Nat : n = IF k > w THEN w ELSE k
  OBVIOUS
<1>1. Ring(fi_q_, MessagesBelow) /\ fi_q_.max # 0
  BY <1>0 DEF RingsBelow
<1>2. Contents(fi_q_) = Reg!LastOf(g, R)
  BY <1>0, LastOfIsRegs DEF RingTells
<1>3. /\ Len(Reg!LastOf(g, R)) = a
      /\ \A i \in 1..a : Reg!LastOf(g, R)[i] = g[IF k > R THEN i + (k - R) ELSE i]
  <2>1. /\ Len(Reg!LastOf(g, R)) = IF Len(g) > R THEN R ELSE Len(g)
        /\ \A i \in 1..Len(Reg!LastOf(g, R)) : Reg!LastOf(g, R)[i] = g[IF Len(g) > R THEN i + (Len(g) - R) ELSE i]
    BY LastOfIs
  <2>2. QED
    BY <1>0, <1>a, <2>1, Zenon
<1>4. Size(fi_q_) = a /\ \A i \in 1..a : ItemAt(fi_q_, i - 1) = Reg!LastOf(g, R)[i]
  BY <1>1, <1>2, <1>3, ContentsIsSequence
<1>5. \A i \in 1..a : ItemAt(fi_q_, i - 1) = g[k - a + i]
  <2>1. \A i \in 1..a : k - a + i = IF k > R THEN i + (k - R) ELSE i
    BY <1>a
  <2>2. QED
    BY <1>3, <1>4, <2>1
<1>6. n = (IF lim > 0 /\ lim < a THEN lim ELSE a) /\ n <= a /\ a <= k /\ n <= k
  BY <1>a, <1>w, <1>n
<1>7. Fil!last_raw(lim) = [i \in 1..n |-> Fil!ItemAt(fi_q_, a - n + i - 1)]
  <2>1. Fil!Size(fi_q_) = a
    BY <1>4, Zenon DEF Fil!Size, Size
  <2>2. QED
    BY <1>6, <2>1, Zenon DEF Fil!last_raw
<1>8. ASSUME NEW i \in 1..n PROVE Fil!ItemAt(fi_q_, a - n + i - 1) = g[k - n + i]
  <2>1. a - n + i \in 1..a
    BY <1>6
  <2>2. k - a + (a - n + i) = k - n + i /\ (a - n + i) - 1 = a - n + i - 1
    OBVIOUS
  <2>3. ItemAt(fi_q_, (a - n + i) - 1) = g[k - a + (a - n + i)]
    BY <1>5, <2>1
  <2>4. Fil!ItemAt(fi_q_, a - n + i - 1) = ItemAt(fi_q_, a - n + i - 1)
    BY Zenon DEF Fil!ItemAt, ItemAt
  <2>5. QED
    BY <2>2, <2>3, <2>4
<1>9. /\ Reg!LastOf(g, w) \in Seq(MessagesBelow) /\ Len(Reg!LastOf(g, w)) = n
      /\ \A i \in 1..n : Reg!LastOf(g, w)[i] = g[IF k > w THEN i + (k - w) ELSE i]
  <2>1. /\ Reg!LastOf(g, w) \in Seq(MessagesBelow)
        /\ Len(Reg!LastOf(g, w)) = IF Len(g) > w THEN w ELSE Len(g)
        /\ \A i \in 1..Len(Reg!LastOf(g, w)) : Reg!LastOf(g, w)[i] = g[IF Len(g) > w THEN i + (Len(g) - w) ELSE i]
    BY LastOfIs
  <2>2. QED
    BY <1>0, <1>n, <2>1, Zenon
<1>10. ASSUME NEW i \in 1..n PROVE g[k - n + i] \in MessagesBelow /\ g[k - n + i] = Reg!LastOf(g, w)[i]
  <2>1. k - n + i = (IF k > w THEN i + (k - w) ELSE i) /\ k - n + i \in 1..k
    BY <1>6, <1>n
  <2>2. g[k - n + i] \in MessagesBelow
    BY <1>0, <2>1
  <2>3. QED
    BY <1>9, <2>1, <2>2
<1>11. PICK r : r = [i \in 1..n |-> g[k - n + i]]
  OBVIOUS
<1>12. Fil!last_raw(lim) = r
  BY <1>7, <1>8, <1>11
<1>13. r \in Seq(MessagesBelow) /\ Len(r) = n /\ \A i \in 1..n : r[i] = Reg!LastOf(g, w)[i]
  <2>1. \A i \in 1..n : g[k - n + i] \in MessagesBelow
    BY <1>10
  <2>2. r \in Seq(MessagesBelow) /\ Len(r) = n /\ \A i \in 1..n : r[i] = g[k - n + i]
    BY <1>11, <2>1
  <2>3. QED
    BY <1>10, <2>2
<1>14. r = Reg!LastOf(g, w)
  BY <1>9, <1>13, SeqEqual, Zenon
<1>15. Fil!LastOf(g, w) = Reg!LastOf(g, w)
  BY LastOfIsRegs
<1>16. QED
  BY <1>0, <1>w, <1>12, <1>14, <1>15

LEMMA FilterFollows ==
    ASSUME FilterParameters, FilterInv
    PROVE  Fil!TypeOK /\ Fil!DuplicatesAreCounted /\ Fil!RingShowsTheLast
<1>1. /\ FilterState /\ fi_q_ \in RingsBelow
      /\ fi_got \in [Fil!Children -> Seq(MessagesBelow)] /\ RingTells(fi_q_, fi_got["ring"])
  BY DEF FilterInv, Fil!Below, Belows
<1>2. fi_RingItems \in Nat /\ fi_MaxLogged \in Nat
  BY DEF FilterParameters
<1>3. Fil!TypeOK
  <2>1. Ring(fi_q_, MessagesBelow) /\ fi_q_.max = fi_RingItems + 1 /\ fi_q_.max # 0
    BY <1>1, <1>2 DEF RingsBelow
  <2>2. fi_q_.head \in 0..(fi_q_.max - 1) /\ fi_q_.tail \in 0..(fi_q_.max - 1)
    BY <2>1, Fields
  <2>3. fi_q_.head \in 0..fi_RingItems /\ fi_q_.tail \in 0..fi_RingItems
    BY <1>2, <2>1, <2>2
  <2>4. fi_skip_counter_ \in 0..fi_MaxLogged
    <3>1. PICK k \in Nat : k = Len(fi_logged)
      BY <1>1 DEF FilterState
    <3>2. fi_skip_counter_ \in 0..k /\ k <= fi_MaxLogged
      BY <1>1, <3>1 DEF FilterState
    <3>3. QED
      BY <1>2, <3>2
  <2>5. QED
    BY <1>1, <2>1, <2>3, <2>4 DEF Fil!TypeOK, FilterState, Carried
<1>4. Fil!DuplicatesAreCounted
  BY Zenon DEF Fil!DuplicatesAreCounted, FilterInv, Account, Apart
<1>5. Fil!RingShowsTheLast
  <2>1. fi_got["ring"] \in Seq(MessagesBelow)
    BY <1>1 DEF Fil!Children
  <2>2. ASSUME NEW lim \in 1..(fi_RingItems + 1)
        PROVE  /\ Fil!last_raw(lim) = Fil!LastOf(fi_got["ring"], IF lim < fi_RingItems THEN lim ELSE fi_RingItems)
               /\ Fil!last_raw(0) = Fil!LastOf(fi_got["ring"], fi_RingItems)
    <3>1. lim \in Nat /\ lim > 0 /\ ~(0 > 0) /\ 0 \in Nat
      BY <1>2
    <3>2. Fil!last_raw(lim) = Fil!LastOf(fi_got["ring"],
                                         IF lim > 0 /\ lim < fi_RingItems THEN lim ELSE fi_RingItems)
      BY <1>1, <2>1, <3>1, LastRaw
    <3>3. Fil!last_raw(0) = Fil!LastOf(fi_got["ring"], IF 0 > 0 /\ 0 < fi_RingItems THEN 0 ELSE fi_RingItems)
      BY <1>1, <2>1, <3>1, LastRaw
    <3>4. QED
      BY <3>1, <3>2, <3>3, Zenon
  <2>3. QED
    BY <2>2 DEF Fil!RingShowsTheLast
<1>6. QED
  BY <1>3, <1>4, <1>5
==============================================================================
