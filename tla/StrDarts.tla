------------------------------- MODULE StrDarts -------------------------------
(***************************************************************************)
(* DARTS::StrDarts and its base TrieDarts (Trie/str_darts.h, trie_darts.h): *)
(* a list of words with the double array over them. The array is modelled  *)
(* by what module Darts shows of it: its answers are those of the          *)
(* dictionary of the keys it was built from, if they are ordered.          *)
(***************************************************************************)
EXTENDS Integers, Sequences, SequencesExt, FiniteSetsExt, TLC

CONSTANTS Vocabulary,  \* the words that are inserted
          Lists,       \* the lists given to init()
          Texts,       \* the token sequences that are searched
          MaxWords,    \* bound: the words in the object
          StartSize    \* the results allPrefixSearch() has room for, 30

VARIABLES isBuild,     \* _is_build
          members,     \* _pair_members
          words,       \* _word_array
          count,       \* _word_count
          array,       \* the keys and values _array was built from
          file,        \* what save() has written
          inits        \* how often init() has met words that were there

vars == <<isBuild, members, words, count, array, file, inits>>

NoArray == [keys |-> <<>>, values |-> <<>>]
NoFile == <<>>

Init == /\ isBuild = FALSE /\ members = <<>> /\ words = <<>> /\ count = 0
        /\ array = NoArray /\ file = NoFile /\ inits = 0

Dict == INSTANCE Dictionary WITH keys <- array.keys, values <- array.values

Pairs(list, from) == [i \in DOMAIN list |-> [word |-> list[i], value |-> from + i - 1]]

\* init() refuses a built object. It counts from 0 again, whatever is there.
InitWords(list) ==
    /\ ~isBuild
    /\ Len(words) + Len(list) <= MaxWords
    /\ members' = members \o Pairs(list, 0)
    /\ words' = words \o list
    /\ count' = Len(list)
    /\ inits' = IF words = <<>> THEN inits ELSE inits + 1
    /\ UNCHANGED <<isBuild, array, file>>

\* insert(), before or after build().
Insert(w) ==
    /\ Len(words) < MaxWords
    /\ members' = members \o Pairs(<<w>>, count)
    /\ words' = Append(words, w)
    /\ count' = count + 1
    /\ UNCHANGED <<isBuild, array, file, inits>>

\* The order of std::pair<std::string, unsigned int>.
Before(p, q) == IF p.word = q.word THEN p.value < q.value ELSE Dict!Precedes(p.word, q.word)

Sort(pairs) == SortSeq(pairs, Before)

\* MUTANT of Build: a key's value is its place in the sorted list.
BuildRenumbers ==
    /\ ~isBuild /\ members # <<>>
    /\ isBuild' = TRUE
    /\ members' = Sort(members)
    /\ array' = [keys |-> [i \in DOMAIN members' |-> members'[i].word],
                 values |-> [i \in DOMAIN members' |-> i - 1]]
    /\ UNCHANGED <<words, count, file, inits>>

\* build() refuses a built or empty object; with ordered keys and values that
\* fit an int the array is built.
Build ==
    /\ ~isBuild /\ members # <<>>
    /\ isBuild' = TRUE
    /\ members' = Sort(members)
    /\ array' = [keys |-> [i \in DOMAIN members' |-> members'[i].word],
                 values |-> [i \in DOMAIN members' |-> members'[i].value]]
    /\ UNCHANGED <<words, count, file, inits>>

\* TrieDarts::clear(): the words of StrDarts stay.
Clear == /\ isBuild' = FALSE /\ members' = <<>> /\ array' = NoArray
         /\ UNCHANGED <<words, count, file, inits>>

\* save() writes the words and the count apart; without a trie it fails.
Save == /\ isBuild
        /\ file' = [words |-> words, count |-> count, members |-> members, array |-> array]
        /\ UNCHANGED <<isBuild, members, words, count, array, inits>>

\* load() reads count words. More of them in the file are read as what follows
\* them, which gives anything; the model loads a file that holds count words.
Load == /\ file # NoFile /\ file.count = Len(file.words)
        /\ words' = file.words /\ count' = file.count
        /\ members' = file.members /\ array' = file.array
        /\ isBuild' = TRUE
        /\ inits' = 0
        /\ UNCHANGED file

Next == \/ \E list \in Lists : InitWords(list)
        \/ \E w \in Vocabulary : Insert(w)
        \/ Build \/ Clear \/ Save \/ Load

Spec == Init /\ [][Next]_vars
------------------------------------------------------------------------------
\* Indices count from 0 in the code.
WordAt(i) == words[i + 1]

getLongestPrefix(w) ==
    IF ~isBuild \/ Dict!LongestPrefix(w) = Dict!NotFound THEN <<>>
    ELSE WordAt(Dict!LongestPrefix(w).value)

exactMatchSearch(w) == IF isBuild THEN Dict!Lookup(w) ELSE -1

\* The test is inverted (str_darts.h:93), and so the answer always FALSE.
isMatch(w) == ~isBuild /\ exactMatchSearch(w) # -1

Whole(tokens, start) == FlattenSeq(SubSeq(tokens, start + 1, Len(tokens)))

\* More results than there is room for are written behind the buffer.
allPrefixSearch(tokens, start) ==
    IF start >= Len(tokens) \/ ~isBuild THEN <<>>
    ELSE LET found == Dict!WordPrefixes(Whole(tokens, start))
         IN IF Len(found) >= StartSize THEN <<"undefined">>
            ELSE [i \in DOMAIN found |-> WordAt(found[i].value)]

\* The first token from start on that does not fit into len.
FirstBeyond(tokens, start, len) ==
    Min({Len(tokens)} \cup
        {i \in start..(Len(tokens) - 1) : Len(FlattenSeq(SubSeq(tokens, start + 1, i + 1))) > len})

match_token(tokens, start) ==
    IF start >= Len(tokens) THEN Len(tokens)
    ELSE LET len == Len(getLongestPrefix(Whole(tokens, start)))
         IN IF len = 0 THEN start ELSE FirstBeyond(tokens, start, len)

\* Without a trie the length is -1, the largest size_t.
contain_tokens(tokens, start) ==
    IF start >= Len(tokens) \/ ~isBuild THEN [end |-> Len(tokens), isWord |-> FALSE]
    ELSE LET whole == Whole(tokens, start)
             len == Dict!ContainLen(whole)
         IN [end |-> FirstBeyond(tokens, start, len),
             isWord |-> SubSeq(whole, 1, len) \in Dict!Words]
------------------------------------------------------------------------------
TypeOK ==
    /\ isBuild \in BOOLEAN /\ count \in 0..MaxWords /\ inits \in Nat
    /\ members \in Seq([word : Vocabulary, value : 0..(MaxWords - 1)])
    /\ words \in Seq(Vocabulary)
    /\ Len(array.keys) = Len(array.values)

(***************************************************************************)
(* What build() hands to the array is what the array can be built from, so *)
(* that its return value needs no test (trie_darts.h:102).                 *)
(***************************************************************************)
ArrayAccepts == isBuild => array.keys # <<>> /\ Dict!Ordered /\ Dict!Storable

\* The words of the list that was built, by length, that w begins with.
Expected(w) == SelectSeq([n \in 1..(Len(w) + 1) |-> SubSeq(w, 1, n - 1)],
                         LAMBDA u : u \in Dict!Words)

(***************************************************************************)
(* The searches name the words that are in the trie, through inserts after *)
(* build(), clear(), save() and load(): the value of a key is the index of *)
(* its word. init() on words that are there breaks this (str_darts.h:31).  *)
(***************************************************************************)
SearchesNameWords ==
    isBuild /\ inits = 0 =>
        \A tokens \in Texts : \A start \in 0..(Len(tokens) - 1) :
            LET whole == Whole(tokens, start)
                found == Expected(whole)
                longest == IF found = <<>> THEN <<>> ELSE Last(found)
                end == match_token(tokens, start)
            IN /\ getLongestPrefix(whole) = longest
               /\ Len(found) < StartSize => allPrefixSearch(tokens, start) = found
               /\ IsPrefix(FlattenSeq(SubSeq(tokens, start + 1, end)), longest)
               /\ end <= contain_tokens(tokens, start).end
               /\ contain_tokens(tokens, start).isWord => longest # <<>>
==============================================================================
