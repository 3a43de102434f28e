------------------------------ MODULE TextHelpers ------------------------------
(***************************************************************************)
(* The text helpers of base_utils/base_utils.h and base_utils.cpp.         *)
(* string_split is a loop over the places of the delimiter, one piece a    *)
(* step; the others are operators. A text is a sequence of code points.    *)
(***************************************************************************)
EXTENDS Integers, Sequences, SequencesExt, FiniteSetsExt

CONSTANTS Texts,       \* the texts the helpers are given
          Delimiters   \* of string_split; an empty one would be found for ever

VARIABLES s, delimiter,   \* the arguments
          pos_start,      \* where the rest begins, counted from 0
          res,            \* the pieces
          returned
vars == <<s, delimiter, pos_start, res, returned>>

From(t, n) == SubSeq(t, n + 1, Len(t))

\* std::string::find: npos is -1.
npos == -1
find(t, d, pos) ==
    LET places == {p \in pos..(Len(t) - Len(d)) : IsPrefix(d, From(t, p))}
    IN IF places = {} THEN npos ELSE Min(places)

Init == /\ s \in Texts /\ delimiter \in Delimiters
        /\ pos_start = 0 /\ res = <<>> /\ returned = FALSE

\* MUTANT of Split: the delimiter is skipped as if it were one character.
SplitByOne ==
    LET pos_end == find(s, delimiter, pos_start)
    IN /\ ~returned /\ pos_end # npos
       /\ res' = Append(res, SubSeq(s, pos_start + 1, pos_end))
       /\ pos_start' = pos_end + 1
       /\ UNCHANGED <<s, delimiter, returned>>

\* One round of string_split's loop, and what it does after the last one.
Split == LET pos_end == find(s, delimiter, pos_start)
         IN /\ ~returned /\ pos_end # npos
            /\ res' = Append(res, SubSeq(s, pos_start + 1, pos_end))
            /\ pos_start' = pos_end + Len(delimiter)
            /\ UNCHANGED <<s, delimiter, returned>>

Rest == /\ ~returned /\ find(s, delimiter, pos_start) = npos
        /\ res' = Append(res, From(s, pos_start))
        /\ returned' = TRUE
        /\ UNCHANGED <<s, delimiter, pos_start>>

Next == Split \/ Rest

Spec == Init /\ [][Next]_vars

str_join(pieces, sep) ==
    FoldLeft(LAMBDA t, i : t \o (IF i = 1 THEN <<>> ELSE sep) \o pieces[i], <<>>,
             [i \in DOMAIN pieces |-> i])
------------------------------------------------------------------------------
(* Trimming: std::isspace for a std::string, and the tokens that           *)
(* UnicodeString::strip takes off.                                         *)

isspace == (9..13) \cup {32}
Tokens == {32, 9, 10, 13}

Skipped(t, spaces) == Min({n \in 0..Len(t) : n = Len(t) \/ t[n + 1] \notin spaces})
ltrim(t) == From(t, Skipped(t, isspace))
rtrim(t) == SubSeq(t, 1, Len(t) - Skipped(Reverse(t), isspace))
trim(t) == rtrim(ltrim(t))

strip(t) == LET l == From(t, Skipped(t, Tokens))
            IN SubSeq(l, 1, Len(l) - Skipped(Reverse(l), Tokens))

Hash == 35
remove_comment(t) ==
    LET u_str == strip(t)
        pos == find(u_str, <<32, Hash>>, 0)
    IN IF u_str # <<>> /\ u_str[1] = Hash THEN <<>>
       ELSE IF pos # npos THEN strip(SubSeq(u_str, 1, pos)) ELSE u_str
------------------------------------------------------------------------------
(* Full width and half width: 12288 is the wide space, 65281 to 65374 are  *)
(* the wide forms of the 94 visible characters of ASCII.                   *)

Q2B(t) == [i \in DOMAIN t |-> IF t[i] = 12288 THEN 32
                              ELSE IF t[i] >= 65281 /\ t[i] <= 65374 THEN t[i] - 65248 ELSE t[i]]

B2Q(t) == [i \in DOMAIN t |-> IF t[i] = 32 THEN 12288
                              ELSE IF t[i] >= 33 /\ t[i] <= 126 THEN t[i] + 65248 ELSE t[i]]
------------------------------------------------------------------------------
(***************************************************************************)
(* At every round the pieces and the rest, joined again, are the text      *)
(* (base_utils.cpp:56-67 and str_join, base_utils.h:71-83), and no piece   *)
(* has a delimiter in it.                                                  *)
(***************************************************************************)
SplitIsUndone ==
    /\ str_join(IF returned THEN res ELSE Append(res, From(s, pos_start)), delimiter) = s
    /\ \A i \in DOMAIN res : find(res[i], delimiter, 0) = npos

(***************************************************************************)
(* There and back: a text of one width becomes itself (what                *)
(* base_utils-test.cc:4-10 shows), and one of both widths becomes uniform. *)
(***************************************************************************)
WidthsAgree == Q2B(B2Q(s)) = Q2B(s) /\ B2Q(Q2B(s)) = B2Q(s)

(***************************************************************************)
(* remove_comment leaves nothing to remove: neither a comment, nor one     *)
(* that only stripping brings to the front, nor spaces (base_utils.cpp:5); *)
(* trim takes off what strip does, and more.                               *)
(***************************************************************************)
CommentsAreGone ==
    LET t == remove_comment(s)
    IN remove_comment(t) = t /\ strip(t) = t /\ trim(strip(s)) = trim(s)

\* All of it, of the helpers of base_utils.
HelpersAgree == SplitIsUndone /\ WidthsAgree /\ CommentsAreGone
==============================================================================
