------------------------------ MODULE Dictionary ------------------------------
(***************************************************************************)
(* What a trie promises: the answers of the searches of Trie/darts.h,      *)
(* stated over the list of keys it was built from, with no trie. A word is *)
(* a sequence of codes, a code being a byte plus one as in darts.h:108; 0  *)
(* is the end of a key.                                                    *)
(***************************************************************************)
EXTENDS Integers, Sequences, SequencesExt, FiniteSetsExt

CONSTANTS keys,     \* the sequence of keys
          values    \* their values, or <<>>: a key's value is its index

Precedes(u, v) == \/ IsPrefix(u, v)
                  \/ \E i \in 1..Min({Len(u), Len(v)}) :
                        u[i] < v[i] /\ SubSeq(u, 1, i - 1) = SubSeq(v, 1, i - 1)

Ordered == \A i, j \in DOMAIN keys : i < j => Precedes(keys[i], keys[j])

Words == ToSet(keys)

\* Indices count from 0 in the code.
Value(i) == IF values = <<>> THEN i - 1 ELSE values[i]

\* Of equal keys the first counts.
Lookup(w) == IF w \in Words THEN Value(Min({i \in DOMAIN keys : keys[i] = w})) ELSE -1

\* Every word has a value that a leaf can hold.
Storable == \A w \in Words : Lookup(w) >= 0

\* The words w begins with, with their lengths, shortest first.
WordPrefixes(w) ==
    LET prefixes == [n \in 1..(Len(w) + 1) |-> SubSeq(w, 1, n - 1)]
        found == SelectSeq(prefixes, LAMBDA u : u \in Words)
    IN [i \in DOMAIN found |-> [value |-> Lookup(found[i]), length |-> Len(found[i])]]

NotFound == [value |-> -1, length |-> 0]

LongestPrefix(w) == IF WordPrefixes(w) = <<>> THEN NotFound ELSE Last(WordPrefixes(w))

\* How much of w some word begins with.
ContainLen(w) == Max({n \in 0..Len(w) : \E v \in Words : IsPrefix(SubSeq(w, 1, n), v)})

\* -2: no word begins with w; -1: some do, but w is not a word.
Traverse(w) == IF ContainLen(w) < Len(w) THEN -2 ELSE Lookup(w)
==============================================================================
