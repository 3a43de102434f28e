----------------------------- MODULE UnicodeString -----------------------------
(***************************************************************************)
(* UnicodeString (UnicodeString/unicode_string.cpp): a text in UTF-8 that  *)
(* is counted and indexed by characters.  Short texts are in the object,   *)
(* long ones on the heap; the length in characters is computed once, and a *)
(* cursor remembers the last character that was asked for, as its number   *)
(* and its place in the bytes.                                             *)
(*                                                                         *)
(* A text is a sequence of characters of one to three bytes.  A size_t     *)
(* that has wrapped around is negative here, npos is -1.                   *)
(***************************************************************************)
EXTENDS Integers, Sequences, SequencesExt, FiniteSetsExt

CONSTANTS Pad,        \* _SPAD_SIZE
          Letters,    \* the characters texts are made of
          MaxLen,     \* bound: characters of a text
          Words       \* texts used as arguments

VARIABLE str          \* the object
vars == <<str>>

npos == -1
Illegal == "X"        \* a first byte of five or six: every scan stops at it
NoChar == "none"
WidthOf(c) == CASE c = "z" -> 3 [] c = "e" -> 2 [] OTHER -> 1
Bytes(t) == Cardinality({b \in (1..Len(t)) \X (1..3) : b[2] <= WidthOf(t[b[1]])})
Upto(t, n) == SubSeq(t, 1, n)
From(t, n) == SubSeq(t, n + 1, Len(t))

\* g_space_token
Spaces == {" ", "_"}
Tokens(sp) == IF sp = <<>> THEN {<<c>> : c \in Spaces} ELSE {sp}

------------------------------------------------------------------------------
(* The buffer.                                                             *)

\* cap: _capacity, 0 while the text is in the object.  freed: a buffer was read after its delete.
Null == [data |-> <<>>, cap |-> 0, null |-> TRUE, chars |-> 0, known |-> FALSE,
         cpos |-> npos, cptr |-> 0, freed |-> FALSE]

re_allocate(cap, len) ==
    LET from == IF cap = 0 THEN 2 * Pad ELSE cap
    IN IF cap # 0 /\ len < cap \div 4
       THEN cap \div 2^Min({k \in 1..cap : len >= (cap \div 2^k) \div 4})
       ELSE from * 2^Min({k \in 0..len : from * 2^k > len})

\* assign of a text, `own` when it is read from the object's own buffer.
\* MUTANT of assign: the cursor stays.
AssignKeepsCursor(o, t, own) ==
    IF t = <<>> THEN [Null EXCEPT !.freed = o.freed]
    ELSE [o EXCEPT !.data = t, !.null = FALSE, !.chars = 0, !.known = FALSE,
                   !.cap = IF Bytes(t) < Pad THEN 0 ELSE re_allocate(o.cap, Bytes(t) + 1)]

assign(o, t, own) ==
    LET inside == IF o.cap = 0 THEN Bytes(t) < Pad ELSE Bytes(t) < Pad \div 2
        cap == IF inside THEN 0 ELSE re_allocate(o.cap, Bytes(t) + 1)
    IN IF t = <<>> THEN [Null EXCEPT !.freed = o.freed]
       ELSE [Null EXCEPT !.data = t, !.null = FALSE, !.cap = cap,
                         !.freed = o.freed \/ (own /\ o.cap # 0 /\ cap # o.cap)]

\* The constructors: from a text, and from another object.
Made(t) == IF t = <<>> THEN Null
           ELSE [Null EXCEPT !.data = t, !.null = FALSE,
                             !.cap = IF Bytes(t) < Pad THEN 0 ELSE re_allocate(0, Bytes(t) + 1)]
Copied(o) == [o EXCEPT !.cpos = npos, !.cptr = 0]

------------------------------------------------------------------------------
(* Reading by characters.                                                  *)

cal_len(t) == IF \E i \in 1..Len(t) : t[i] = Illegal
              THEN Min({i \in 1..Len(t) : t[i] = Illegal}) - 1 ELSE Len(t)
get_len(o) == IF o.null THEN 0 ELSE IF o.known THEN o.chars ELSE cal_len(o.data)
Counted(o) == IF o.null THEN o ELSE [o EXCEPT !.chars = get_len(o), !.known = TRUE]

\* How many characters end before a place in the bytes.
Before(t, b) == Cardinality({n \in 1..Len(t) : Bytes(Upto(t, n)) <= b})

\* operator[]: the object with its cursor moved, and the character. The scan
\* starts at the cursor when it is not behind the place (i: where it ends).
ScanTo(o, p) == IF o.cpos # npos /\ p >= o.cpos THEN Before(o.data, o.cptr) + p - o.cpos ELSE p
Moved(o, p, i) ==
    IF p < 0 \/ p >= o.chars \/ i >= cal_len(o.data)
    THEN [o |-> o, c |-> NoChar]
    ELSE [o |-> [o EXCEPT !.cpos = p, !.cptr = Bytes(Upto(o.data, i))], c |-> o.data[i + 1]]
AtPlace(o, p) == Moved(o, p, ScanTo(o, p))
AtCounted(o, pos) == AtPlace(o, IF pos < 0 THEN o.chars + pos ELSE pos)
At(o, pos) == AtCounted(Counted(o), pos)

\* substr: from one cursor to the other.
Place(o) == Before(o.data, o.cptr)
UpToCursor(b, last) == [o |-> last, t |-> SubSeq(last.data, b + 1, Place(last))]
FromCursor(first, pos, len) ==
    IF len = npos \/ pos + len >= first.chars
    THEN [o |-> first, t |-> From(first.data, Place(first))]
    ELSE UpToCursor(Place(first), At(first, pos + len).o)
Sub(o, pos, len) == IF pos < 0 \/ pos >= o.chars THEN [o |-> o, t |-> <<>>]
                    ELSE FromCursor(At(o, pos).o, pos, len)
substr(o, pos, len) == Sub(Counted(o), pos, len)

RECURSIVE find(_, _, _)
FindAt(at, s, pos) ==
    IF at.c = NoChar THEN [o |-> at.o, pos |-> npos]
    ELSE IF IsPrefix(s, From(at.o.data, Place(at.o))) THEN [o |-> at.o, pos |-> pos]
    ELSE find(at.o, s, pos + 1)
find(o, s, pos) == IF o.null THEN [o |-> o, pos |-> npos] ELSE FindAt(At(o, pos), s, pos)

------------------------------------------------------------------------------
(* The calls that are loops over these.                                    *)

RECURSIVE SkipLeft(_, _, _), SkipRight(_, _, _)
TokenLen(sp) == IF sp = <<>> THEN 1 ELSE Len(sp)
SkippedLeft(s, sp, pos) == IF s.t \in Tokens(sp) THEN SkipLeft(s.o, sp, pos + TokenLen(sp))
                           ELSE substr(s.o, pos, npos)
SkipLeft(o, sp, pos) == SkippedLeft(substr(o, pos, TokenLen(sp)), sp, pos)
SkippedRight(s, sp, pos) == IF s.t \in Tokens(sp) THEN SkipRight(s.o, sp, pos - TokenLen(sp))
                            ELSE substr(s.o, 0, pos)
SkipRight(o, sp, pos) == SkippedRight(substr(o, pos - TokenLen(sp), TokenLen(sp)), sp, pos)

Assigned(s) == assign(s.o, s.t, FALSE)
lstrip(o, sp) == Assigned(SkipLeft(o, sp, 0))
rstrip(o, sp) == Assigned(SkipRight(o, sp, get_len(o)))
strip(o, sp) == rstrip(lstrip(o, sp), sp)

\* The next separator: with none given, the nearest of the spaces.
NextCut(o, sep, pos) ==
    LET places == {find(o, s, pos).pos : s \in Tokens(sep)} \ {npos}
    IN IF places = {} THEN npos ELSE Min(places)

\* split: how many pieces there are is tested for a space only when the next piece ends.
RECURSIVE SplitFrom(_, _, _, _, _)
Rest(o, pos) == substr(o, pos, npos).t
IsFull(maxsplit, ret) == maxsplit > 0 /\ Len(ret) >= maxsplit

\* At a space: pieces are never empty.
CutAtSpace(o, maxsplit, pos, ret, cut) ==
    IF cut = pos THEN SplitFrom(o, <<>>, maxsplit, cut + 1, ret)
    ELSE IF IsFull(maxsplit, ret) THEN Append(ret, Rest(o, pos))
    ELSE SplitFrom(o, <<>>, maxsplit, cut + 1, Append(ret, substr(o, pos, cut - pos).t))

\* At a separator, with the piece before it already there.
CutAt(o, sep, maxsplit, next, ret) ==
    IF IsFull(maxsplit, ret) THEN Append(ret, Rest(o, next))
    ELSE SplitFrom(o, sep, maxsplit, next, ret)

SplitAt(o, sep, maxsplit, pos, ret, cut) ==
    CASE cut = npos /\ pos < get_len(o) -> Append(ret, Rest(o, pos))
      [] cut = npos /\ pos >= get_len(o) ->
            IF sep # <<>> /\ pos = get_len(o) THEN Append(ret, <<>>) ELSE ret
      [] cut # npos /\ sep = <<>> -> CutAtSpace(o, maxsplit, pos, ret, cut)
      [] cut # npos /\ sep # <<>> ->
            CutAt(o, sep, maxsplit, cut + Len(sep),
                  Append(ret, IF cut = pos THEN <<>> ELSE substr(o, pos, cut - pos).t))
SplitFrom(o, sep, maxsplit, pos, ret) ==
    SplitAt(o, sep, maxsplit, pos, ret, NextCut(o, sep, pos))

split(o, sep, maxsplit) ==
    IF maxsplit = 0 THEN <<o.data>> ELSE SplitFrom(o, sep, maxsplit, 0, <<>>)

\* join: of an empty list nothing.
join(sep, list) ==
    FoldLeft(LAMBDA a, t : a \o sep \o t, IF list = <<>> THEN <<>> ELSE Head(list),
             IF list = <<>> THEN <<>> ELSE Tail(list))

Replaced(o, pos, len, t) ==
    IF pos < 0 \/ pos >= get_len(o) THEN Counted(o)
    ELSE assign(o, substr(o, 0, pos).t \o t \o Rest(o, pos + len), FALSE)

\* replace: goes on `step` characters after the place.
RECURSIVE ReplaceFrom(_, _, _, _, _, _)
ReplaceFound(f, src, dest, step, count) ==
    IF f.pos = npos THEN f.o
    ELSE IF count = 1 THEN Replaced(f.o, f.pos, Len(src), dest)
    ELSE ReplaceFrom(Replaced(f.o, f.pos, Len(src), dest), src, dest, step, count - 1,
                     f.pos + step)
ReplaceFrom(o, src, dest, step, count, pos) ==
    ReplaceFound(find(o, src, pos), src, dest, step, count)

\* With two UnicodeStrings the step is in characters, with two char* in bytes.
replace(o, src, dest, count) == ReplaceFrom(o, src, dest, Len(dest), count, 0)
replace_chars(o, src, dest, count) == ReplaceFrom(o, src, dest, Bytes(dest), count, 0)

\* lower and upper: up to the first illegal byte.
Lowered(c) == IF c = "A" THEN "a" ELSE c
Raised(c) == IF c = "a" THEN "A" ELSE c
lower(o) == [i \in 1..get_len(o) |-> Lowered(At(o, i - 1).c)]
upper(o) == [i \in 1..get_len(o) |-> Raised(At(o, i - 1).c)]
------------------------------------------------------------------------------
(* The calls: those that change the text, and those that move the cursor.  *)

Init == str = Null

SetText(t) == str' = assign(str, t, FALSE)
SetSelf == str' = assign(str, str.data, TRUE)
Copy == str' = Copied(str)
Clear == str' = Null

\* operator+ makes a new object, operator+= assigns it.
Plus(t) == /\ Len(str.data) + Len(t) <= MaxLen
           /\ str' = assign(str, str.data \o t, FALSE)
Strip(sp) == str' = strip(str, sp)
Replace(src, dest, n) == /\ src # <<>>
                         /\ Len(str.data) * Len(dest) <= MaxLen * Len(src)
                         /\ str' \in {replace(str, src, dest, n), replace_chars(str, src, dest, n)}

Length == str' = Counted(str)
Index(p) == str' = At(str, p).o
SubStr(p, n) == str' = substr(str, p, n).o
Find(s, p) == str' = find(str, s, p).o

Next == \/ \E t \in Words : SetText(t) \/ Plus(t) \/ Strip(t)
        \/ SetSelf \/ Copy \/ Clear \/ Length
        \/ \E p \in -MaxLen..MaxLen : Index(p)
        \/ \E p \in 0..MaxLen, n \in -1..MaxLen : SubStr(p, n)
        \/ \E s \in Words, p \in 0..MaxLen : Find(s, p)
        \/ \E s \in Words, d \in Words, n \in 0..1 : Replace(s, d, n)

Spec == Init /\ [][Next]_vars
------------------------------------------------------------------------------
TypeOK == /\ str.data \in Seq(Letters) /\ str.cap \in Nat /\ str.chars \in Nat
          /\ str.cpos \in -1..MaxLen /\ str.cptr \in Nat
          /\ {str.null, str.known, str.freed} \subseteq BOOLEAN

(***************************************************************************)
(* The text and its final 0 fit where they are, the flags agree with the   *)
(* text, and assigning a string to itself never reads the buffer it has    *)
(* just deleted: a buffer on the heap always holds a text that is worth    *)
(* it, so that neither the way back into the object nor a new capacity can *)
(* happen then.                                                            *)
(***************************************************************************)
BufferHolds ==
    /\ Bytes(str.data) < (IF str.cap = 0 THEN Pad ELSE str.cap)
    /\ str.null = (str.data = <<>>)
    /\ str.known => str.chars = cal_len(str.data)
    /\ str.cpos # npos => str.cptr = Bytes(Upto(str.data, str.cpos))
    /\ ~str.freed

\* What the calls answer on a text without illegal bytes.
Legal(t) == Illegal \notin ToSet(t)
HasAt(t, s, p) == p < Len(t) /\ IsPrefix(s, From(t, p))
CharAt(t, p) == IF p \in 0..Len(t) - 1 THEN t[p + 1]
                ELSE IF p \in -Len(t)..-1 THEN t[Len(t) + p + 1] ELSE NoChar
Piece(t, p, n) == SubSeq(t, p + 1, IF n = npos \/ p + n > Len(t) THEN Len(t) ELSE p + n)
FirstAt(t, s, p) == LET S == {i \in p..Len(t) : HasAt(t, s, i)}
                    IN IF S = {} THEN npos ELSE Min(S)
IsCore(t, sp, r) ==
    \E i \in 0..Len(t), j \in 0..Len(t) :
       /\ i <= j /\ r = SubSeq(t, i + 1, j)
       /\ IF sp = <<>>
          THEN (\A k \in 1..i \cup j + 1..Len(t) : t[k] \in Spaces)
               /\ (r # <<>> => Head(r) \notin Spaces /\ Last(r) \notin Spaces)
          ELSE /\ \E k \in 0..Len(t) : Upto(t, i) = FlattenSeq([q \in 1..k |-> sp])
               /\ \E k \in 0..Len(t) : From(t, j) = FlattenSeq([q \in 1..k |-> sp])
               /\ ~IsPrefix(sp, r) /\ ~IsSuffix(sp, r)
IsSplit(t, sep, n, r) ==
    IF sep # <<>>
    THEN /\ join(sep, r) = t
         /\ Len(r) <= (IF n < 0 THEN Len(t) + 1 ELSE n + 1)
         /\ \A i \in 1..Len(r) : (n < 0 \/ i <= n) => FirstAt(r[i], sep, 0) = npos
    ELSE IF n < 0
    THEN /\ FlattenSeq(r) = SelectSeq(t, LAMBDA c : c \notin Spaces)
         /\ \A i \in 1..Len(r) : r[i] # <<>>
         /\ Len(r) = Cardinality({i \in 1..Len(t) : t[i] \notin Spaces
                                                    /\ (i = 1 \/ t[i - 1] \in Spaces)})
    ELSE Len(r) <= n + 1

(***************************************************************************)
(* Whatever was called before, and wherever the cursor stands: an index    *)
(* from either end gives that character, substr that piece, find the first *)
(* place; strip takes every separator from both ends and nothing else; a   *)
(* split by a separator is undone by join and leaves none in the pieces, a *)
(* split by spaces keeps the runs between them; replace puts dest at every *)
(* place, or the first n, where a split by src cuts.                       *)
(***************************************************************************)
AnswersAreRight ==
    Legal(str.data) =>
      LET t == str.data
          Args == {w \in Words : Legal(w)}
      IN /\ get_len(str) = Len(t)
         /\ \A p \in -MaxLen..MaxLen : At(str, p).c = CharAt(t, p)
         /\ \A p \in 0..MaxLen, n \in -1..MaxLen : substr(str, p, n).t = Piece(t, p, n)
         /\ \A s \in Args, p \in 0..MaxLen : find(str, s, p).pos = FirstAt(t, s, p)
         /\ \A s \in Args : IsCore(t, s, strip(str, s).data)
         /\ \A s \in Args, n \in -1..2 : IsSplit(t, s, n, split(str, s, n))
         /\ \A s \in Args \ {<<>>}, n \in 0..1 :
               \E cuts \in {split(str, s, IF n = 0 THEN -1 ELSE n)} :
                  \A d \in Args :
                     /\ replace(str, s, d, n).data = join(d, cuts)
                     /\ Bytes(d) = Len(d) => replace_chars(str, s, d, n).data = join(d, cuts)
         /\ Len(lower(str)) = Len(t) /\ lower(Made(upper(str))) = lower(str)
==============================================================================
