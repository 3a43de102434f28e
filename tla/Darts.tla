--------------------------------- MODULE Darts --------------------------------
(***************************************************************************)
(* DARTS::DoubleArrayImpl (Trie/darts.h): a trie in two arrays. The        *)
(* children of a node are a family: they lie at begin + code, where begin  *)
(* is the base of the node, and have begin in check. A code is a byte plus *)
(* one; code 0 is a leaf, whose base is the key's value v as -v-1.         *)
(* build() inserts the families depth first: insert() looks for a begin at *)
(* which all of a family is free, then calls itself for each child. One    *)
(* action is one turn of that search, one child, or one return.            *)
(***************************************************************************)
EXTENDS Integers, Sequences, SequencesExt, FiniteSetsExt, TLC

CONSTANTS Width,     \* the largest code, 256 for char
          Initial,   \* the units build() allocates, 8192
          Jobs,      \* what is built: records [keys, values]
          Probes,    \* the words that are searched for
          NoJob

\* Growing by 5% makes room for a family (8192 * 0.05 > 256).
ASSUME SizesAssumption == Width \in Nat \ {0} /\ Initial \in Nat /\ Initial >= 20 * Width

ASSUME JobsAssumption == /\ NoJob \notin Jobs
                         /\ \A j \in Jobs : j.keys # <<>>

VARIABLES base, check,  \* array_: the units that were written; others are 0
          used,         \* used_: the begins that are taken
          alloc,        \* alloc_size_
          size,         \* size_
          error,        \* error_
          progress,     \* progress_: how many leaves are inserted
          next,         \* next_check_pos_
          stack,        \* the calls of insert() that have not returned
          job,          \* the arguments of build(), then the list the array holds, if any
          phase,        \* what was done last to the object
          file,         \* what save or save_dart has written, and the list it holds
          \* For the property: whether a list given to this object could not be built.
          refused

array == <<base, check>>
vars == <<array, used, alloc, size, error, progress, next, stack, job, phase, file, refused>>

Phases == {"empty", "building", "built", "loaded", "opened", "core"}

NoFile == [kind |-> "none", job |-> NoJob]

Init == /\ base = <<>> /\ check = <<>> /\ used = {}
        /\ alloc = 0 /\ size = 0 /\ error = 0 /\ progress = 0 /\ next = 0
        /\ stack = <<>> /\ job = NoJob /\ phase = "empty" /\ file = NoFile
        /\ refused = FALSE

\* The content of a unit; what was not written is 0.
At(f, p) == IF p \in DOMAIN f THEN f[p] ELSE 0

Dict == INSTANCE Dictionary WITH keys <- IF job = NoJob THEN <<>> ELSE job.keys,
                                 values <- IF job = NoJob THEN <<>> ELSE job.values

\* The array as the searches may read it: open() allocates size_ units.
Extent == IF phase = "opened" THEN size ELSE alloc
------------------------------------------------------------------------------
Node(code, depth, left, right) ==
    [code |-> code, depth |-> depth, left |-> left, right |-> right]

\* The keys of a node that are long enough to have a code at its depth.
Reaching(keys, node) == {i \in node.left..(node.right - 1) : Len(keys[i]) >= node.depth}

Code(key, depth) == IF Len(key) = depth THEN 0 ELSE key[depth + 1]

Disordered(keys, node) ==
    \E i, j \in Reaching(keys, node) :
        i < j /\ Code(keys[i], node.depth) > Code(keys[j], node.depth)

\* fetch(): the children of a node, one for each run of equal codes.
Fetch(keys, node) ==
    LET codes == {Code(keys[i], node.depth) : i \in Reaching(keys, node)}
        left(c) == Min({i \in Reaching(keys, node) : Code(keys[i], node.depth) = c})
        right(c) == Min({node.right} \cup {left(d) : d \in {d \in codes : d > c}})
        sorted == SelectSeq([c \in 1..(Width + 1) |-> c - 1], LAMBDA c : c \in codes)
    IN IF error < 0 \/ Disordered(keys, node) THEN <<>>
       ELSE [k \in 1..Len(sorted) |->
               Node(sorted[k], node.depth + 1, left(sorted[k]), right(sorted[k]))]

First(family) == family[1].code
LastCode(family) == Last(family).code

\* A call of insert(): it looks for begin from pos on, then serves child.
Call(family, from) ==
    [family |-> family, pos |-> Max({First(family) + 1, from}) - 1, begin |-> 0,
     nonzero |-> 0, seen |-> FALSE, child |-> 0]

Top == Last(stack)
Replace(call) == Append(Front(stack), call)
------------------------------------------------------------------------------
\* build() of an empty array, up to the first call of insert(). After an error every
\* call of fetch() and insert() returns at once.
Build(j) ==
    /\ phase' = "building" /\ job' = j
    /\ file.job \in {NoJob, j}    \* bound: with a file of a list, no other list
    /\ alloc' = Initial /\ base' = (0 :> 1) /\ check' = <<>> /\ used' = {}
    /\ progress' = 0 /\ next' = 0
    /\ LET root == Node(0, 0, 1, Len(j.keys) + 1)
           family == Fetch(j.keys, root)
       IN /\ error' = IF error = 0 /\ Disordered(j.keys, root) THEN -3 ELSE error
          /\ stack' = IF error' < 0 THEN <<>> ELSE <<Call(family, 0)>>
    /\ UNCHANGED <<size, file, refused>>

\* alloc_size_ after the test for more room at position pos.
Room(pos) == IF alloc <= pos THEN pos + 1 ELSE alloc

\* The new size of the arrays when a family does not fit.
Grown(room) == Max({(room * 21) \div 20, (room * Len(job.keys)) \div progress})

Probing == phase = "building" /\ stack # <<>> /\ Top.child = 0

\* MUTANT of ProbeTaken: pos is not advanced.
ProbeTakenAgain ==
    /\ Probing
    /\ At(check, Top.pos + 1) # 0
    /\ alloc' = Room(Top.pos + 1)
    /\ UNCHANGED <<array, used, size, error, progress, next, stack, job, phase, file, refused>>

\* The loop goes on at a unit that is taken.
ProbeTaken ==
    /\ Probing
    /\ At(check, Top.pos + 1) # 0
    /\ stack' = Replace([Top EXCEPT !.pos = @ + 1, !.nonzero = @ + 1])
    /\ alloc' = Room(Top.pos + 1)
    /\ UNCHANGED <<array, used, size, error, progress, next, job, phase, file, refused>>

\* MUTANT of Overflows: off by one.
OverflowsByTwo(begin, family, room) == room < begin + LastCode(family)

\* The last unit of the family would lie behind the arrays.
Overflows(begin, family, room) == room <= begin + LastCode(family)

\* MUTANT of Fits: a begin may be taken by another family.
FitsBesideOthers(begin, family) ==
    \A k \in 2..Len(family) : At(check, begin + family[k].code) = 0

Fits(begin, family) == /\ begin \notin used
                       /\ \A k \in 2..Len(family) : At(check, begin + family[k].code) = 0

\* The sizes with which the loop goes on from a free unit.
ProbeRoom(pos) == LET room == Room(pos)
                  IN IF Overflows(pos - First(Top.family), Top.family, room)
                     THEN Grown(room) ELSE room

\* key_size_ / progress_ is infinite: the size of the new arrays is undefined.
ProbeCores ==
    LET pos == Top.pos + 1
    IN /\ Probing
       /\ At(check, pos) = 0
       /\ Overflows(pos - First(Top.family), Top.family, Room(pos)) /\ progress = 0
       /\ phase' = "core"
       /\ UNCHANGED <<array, used, alloc, size, error, progress, next, stack, job, file, refused>>

\* A free unit for the first child.
ProbeFree ==
    LET pos == Top.pos + 1
        begin == pos - First(Top.family)
        first == IF Top.seen THEN next ELSE pos
    IN /\ Probing
       /\ At(check, pos) = 0
       /\ ~(Overflows(begin, Top.family, Room(pos)) /\ progress = 0)
       /\ alloc' = ProbeRoom(pos)
       /\ IF Fits(begin, Top.family)
          THEN /\ next' = IF 20 * Top.nonzero >= 19 * (pos - first + 1) THEN pos ELSE first
               /\ used' = used \cup {begin}
               /\ size' = Max({size, begin + LastCode(Top.family) + 1})
               /\ check' = [p \in {begin + Top.family[k].code : k \in DOMAIN Top.family}
                              |-> begin] @@ check
               /\ stack' = Replace([Top EXCEPT !.pos = pos, !.begin = begin, !.child = 1])
          ELSE /\ next' = first
               /\ stack' = Replace([Top EXCEPT !.pos = pos, !.seen = TRUE])
               /\ UNCHANGED <<used, size, check>>
       /\ UNCHANGED <<base, error, progress, job, phase, file, refused>>
------------------------------------------------------------------------------
Serving == phase = "building" /\ stack # <<>> /\ Top.child \in DOMAIN Top.family

Child == Top.family[Top.child]

SetBase(p, b) == base' = (p :> b) @@ base

\* A child that has children: insert() calls itself.
Descend ==
    /\ Serving
    /\ Fetch(job.keys, Child) # <<>>
    /\ stack' = Append(stack, Call(Fetch(job.keys, Child), next))
    /\ UNCHANGED <<array, used, alloc, size, error, progress, next, job, phase, file, refused>>

\* What a leaf stores for the keys from left on.
Leaf(left) == IF job.values = <<>> THEN -left ELSE -job.values[left] - 1

\* fetch() has returned 0: a leaf, or an error in it or before it.
InsertLeaf ==
    /\ Serving
    /\ Fetch(job.keys, Child) = <<>>
    /\ SetBase(Top.begin + Child.code, Leaf(Child.left))
    /\ IF job.values # <<>> /\ Leaf(Child.left) >= 0
       THEN /\ error' = -2
            /\ stack' = Replace([Top EXCEPT !.begin = 0, !.child = Len(Top.family) + 1])
            /\ UNCHANGED progress
       ELSE /\ error' = IF error = 0 /\ Disordered(job.keys, Child) THEN -3 ELSE error
            /\ progress' = progress + 1
            /\ stack' = Replace([Top EXCEPT !.child = @ + 1])
    /\ UNCHANGED <<check, used, alloc, size, next, job, phase, file, refused>>

\* insert() returns its begin, which becomes the base of the node.
Return ==
    /\ phase = "building" /\ stack # <<>> /\ Top.child > Len(Top.family)
    /\ IF Len(stack) = 1
       THEN stack' = <<>> /\ UNCHANGED base
       ELSE LET caller == Last(Front(stack))
            IN /\ SetBase(caller.begin + caller.family[caller.child].code, Top.begin)
               /\ stack' = Append(Front(Front(stack)), [caller EXCEPT !.child = @ + 1])
    /\ UNCHANGED <<check, used, alloc, size, error, progress, next, job, phase, file, refused>>

\* The rest of build().
Finish ==
    /\ phase = "building" /\ stack = <<>> /\ phase' = "built"
    /\ job' = IF error = 0 THEN job ELSE NoJob
    /\ refused' = (refused \/ ~(Dict!Ordered /\ Dict!Storable))
    /\ size' = size + Width + 1
    /\ alloc' = IF size' >= alloc THEN size' ELSE alloc
    /\ used' = {}
    /\ UNCHANGED <<array, error, progress, next, stack, file>>

\* clear(); error_ stays, and the builds that follow return it. Before it a second build() would copy used_, which
\* is null, and load_dart() could write behind the smaller arrays: callers do
\* neither.
Clear == /\ phase \in {"built", "loaded", "opened"} /\ phase' = "empty"
         /\ base' = <<>> /\ check' = <<>> /\ used' = {} /\ alloc' = 0 /\ size' = 0 /\ job' = NoJob
         /\ UNCHANGED <<error, progress, next, stack, file, refused>>

\* _is_build of TrieDarts, which load_dart() sets whatever error_ is.
Built == phase = "loaded" \/ (phase = "built" /\ error = 0)

Written(kind, n) ==
    [kind |-> kind, units |-> n, job |-> job,
     base |-> Restrict(base, DOMAIN base \cap 0..(n - 1)),
     check |-> Restrict(check, DOMAIN check \cap 0..(n - 1))]

\* save() writes size_ units and fails when that is 0, as after load_dart().
Save == /\ phase \in {"built", "opened"} /\ size # 0
        /\ file' = Written("save", size)
        /\ UNCHANGED <<array, used, alloc, size, error, progress, next, stack, job, phase, refused>>

\* open() of a saved file.
Open == /\ file.kind = "save" /\ phase \in {"empty", "built"}
        /\ base' = file.base /\ check' = file.check /\ used' = {}
        /\ alloc' = 0 /\ size' = file.units /\ phase' = "opened" /\ job' = file.job
        /\ UNCHANGED <<error, progress, next, stack, file, refused>>

\* save_dart() writes alloc_size_ and as many units.
SaveDart == /\ Built
            /\ file' = Written("dart", alloc)
            /\ UNCHANGED <<array, used, alloc, size, error, progress, next, stack, job, phase, refused>>

\* load_dart() into a cleared object, as TrieDarts::load_dart() calls it.
LoadDart == /\ file.kind = "dart" /\ phase = "empty" /\ phase' = "loaded"
            /\ base' = file.base /\ check' = file.check /\ used' = {}
            /\ alloc' = file.units /\ job' = file.job
            /\ UNCHANGED <<size, error, progress, next, stack, file, refused>>

------------------------------------------------------------------------------
\* The bases a search goes through: from b one step for each code of w, as
\* long as check confirms the unit.
Bases(b, w) ==
    FoldLeftDomain(LAMBDA bs, i : IF Len(bs) = i /\ At(check, Last(bs) + w[i]) = Last(bs)
                                  THEN Append(bs, At(base, Last(bs) + w[i])) ELSE bs,
                   <<b>>, w)

FromRoot(w) == Bases(At(base, 0), w)

\* The family at b has a leaf: a key ends here.
IsLeaf(b) == At(check, b) = b /\ At(base, b) < 0

LeafValue(b) == -At(base, b) - 1

\* Length 0 stands for the whole of w.
exactMatchSearch(w, len) ==
    LET u == IF len = 0 THEN w ELSE SubSeq(w, 1, len)
        bs == FromRoot(u)
    IN IF Len(bs) = Len(u) + 1 /\ IsLeaf(Last(bs)) THEN LeafValue(Last(bs)) ELSE -1

\* The leaves a search passes, with the lengths at which it does.
commonPrefixSearch(w) ==
    LET bs == FromRoot(w)
        at == SelectSeq([i \in DOMAIN bs |-> i], LAMBDA i : IsLeaf(bs[i]))
    IN [k \in DOMAIN at |-> [value |-> LeafValue(bs[at[k]]), length |-> at[k] - 1]]

prefixSearch(w) == IF commonPrefixSearch(w) = <<>> THEN Dict!NotFound
                   ELSE Last(commonPrefixSearch(w))

\* The second component is is_word after the call, "kept" when it is not set.
containLen(w) ==
    LET bs == FromRoot(w)
    IN <<Len(bs) - 1, IF IsLeaf(Last(bs)) THEN "yes" ELSE IF Len(bs) > 1 THEN "no" ELSE "kept">>

\* From the node at unit p on: the result, and the unit where it stops.
traverse(p, w) ==
    LET bs == Bases(At(base, p), w)
        stop == IF Len(bs) = 1 THEN p ELSE bs[Len(bs) - 1] + w[Len(bs) - 1]
    IN [result |-> IF Len(bs) <= Len(w) THEN -2
                   ELSE IF IsLeaf(Last(bs)) THEN LeafValue(Last(bs)) ELSE -1,
        pos |-> stop]

Insert == \/ ProbeTaken \/ ProbeFree \/ ProbeCores
          \/ Descend \/ InsertLeaf \/ Return \/ Finish

Next == \/ phase = "empty" /\ \E j \in Jobs : Build(j)
        \/ Insert
        \/ Clear \/ Save \/ Open \/ SaveDart \/ LoadDart

Spec == Init /\ [][Next]_vars /\ WF_vars(Insert)
------------------------------------------------------------------------------
Units == 0..(alloc + size)

TypeOK ==
    /\ DOMAIN base \subseteq Units /\ DOMAIN check \subseteq Units /\ used \subseteq Units
    /\ \A p \in DOMAIN base : base[p] \in Int
    /\ \A p \in DOMAIN check : check[p] \in Units
    /\ alloc \in Nat /\ size \in Nat /\ error \in {0, -2, -3}
    /\ progress \in Nat /\ next \in Nat
    /\ \A k \in DOMAIN stack : stack[k].child \in 0..(Len(stack[k].family) + 1)
    /\ job \in Jobs \cup {NoJob} /\ phase \in Phases
    /\ file.kind \in {"none", "save", "dart"} /\ refused \in BOOLEAN

Ready == phase \in {"built", "loaded", "opened"} /\ job # NoJob

(***************************************************************************)
(* Searches give the answers of the dictionary, whatever was searched for  *)
(* and wherever the array comes from: built, or saved and read back. A     *)
(* traverse that is continued from the unit where it stopped (darts.h:517) *)
(* answers as one over the whole word.                                     *)
(***************************************************************************)
SearchesAnswer ==
    Ready => \A w \in Probes :
        /\ exactMatchSearch(w, 0) = Dict!Lookup(w)
        /\ \A n \in 1..Len(w) : exactMatchSearch(w, n) = Dict!Lookup(SubSeq(w, 1, n))
        /\ commonPrefixSearch(w) = Dict!WordPrefixes(w)
        /\ prefixSearch(w) = Dict!LongestPrefix(w)
        /\ containLen(w)[1] = Dict!ContainLen(w)
        /\ containLen(w)[2] = "yes" <=> SubSeq(w, 1, containLen(w)[1]) \in Dict!Words
        /\ \A n \in 0..Len(w) :
              LET first == traverse(0, SubSeq(w, 1, n))
              IN /\ first.result = Dict!Traverse(SubSeq(w, 1, n))
                 /\ first.result # -2 =>
                       traverse(first.pos, SubSeq(w, n + 1, Len(w))).result = Dict!Traverse(w)

(***************************************************************************)
(* build() succeeds for ordered keys with values that a leaf can hold, and *)
(* fails for all others (darts.h:9, 302); and once it has failed it fails  *)
(* for every list, as clear() does not reset error_ (darts.h:259-268).     *)
(* Equal keys are ordered: they are built and the first of them counts,    *)
(* although Trie.org:15 asks for keys without repetition and the message   *)
(* at trie_darts.h:110 holds repeated keys for the cause of a failure.     *)
(***************************************************************************)
OnlyOrderedKeysBuild == phase = "built" => (error = 0 <=> ~refused)

(***************************************************************************)
(* Nothing is written or read outside the arrays: the growth of darts.h:167 *)
(* is enough for every family, and the units added at darts.h:312 (marked  *)
(* TODO check) for every search, also when only size_ units are read back. *)
(***************************************************************************)
InBounds ==
    /\ \A p \in DOMAIN base \cup DOMAIN check \cup used : p < Extent
    /\ Ready => /\ Extent > 0
                /\ \A p \in DOMAIN base : base[p] > 0 => base[p] + Width < Extent

(***************************************************************************)
(* The growth is never by key_size_ / 0 (the comment at darts.h:164-166).  *)
(***************************************************************************)
NeverCores == phase # "core"
==============================================================================
