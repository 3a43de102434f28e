------------------------------- MODULE MC_Darts -------------------------------
(* Darts with two letters: all short lists of short words, ordered or not, *)
(* with repetitions, with values, and lists long enough to make it grow.   *)
EXTENDS Darts

Letters == 1..Width
WordsUpTo(n) == BoundedSeq(Letters, n)

Plain(keys) == [keys |-> keys, values |-> <<>>]

\* letter repeated n times
Times(letter, n) == [i \in 1..n |-> letter]

\* Paths of n nodes, each with a leaf and another child, in order.
LeftChain(n) == [i \in 1..(2 * n) |-> IF i <= n THEN Times(1, i - 1)
                                      ELSE Append(Times(1, 2 * n - i), 2)]
RightChain(n) == FlattenSeq([i \in 1..n |-> <<Times(2, i - 1), Append(Times(2, i - 1), 1)>>])

\* The first key is the longest one.
LateLeaf(n) == [i \in 1..(n + 1) |-> IF i = 1 THEN Times(1, n)
                                     ELSE Append(Times(1, n + 1 - i), 2)]

\* The words of WordsUpTo(2) in order.
InOrder == << <<>>, <<1>>, <<1, 1>>, <<1, 2>>, <<2>>, <<2, 1>>, <<2, 2>> >>

ShortLists == {Plain(ks) : ks \in BoundedSeq(WordsUpTo(2), 3) \ {<<>>}}
Sets == {Plain(SelectSeq(InOrder, LAMBDA w : w \in ws)) : ws \in SUBSET WordsUpTo(2) \ {{}}}
Valued == {[keys |-> ks, values |-> vs] :
             ks \in [1..2 -> {<<>>, <<1>>, <<1, 2>>}], vs \in [1..2 -> {-1, 0, 3}]}
Chains == {Plain(LeftChain(25)), Plain(RightChain(25))}

LateJobs == {Plain(LateLeaf(n)) : n \in {5, 40}}
MCJobs == ShortLists \cup Sets \cup Valued \cup Chains \cup LateJobs
MCProbes == WordsUpTo(3)
==============================================================================
