------------------------------ MODULE UnicodeChar ------------------------------
(***************************************************************************)
(* UnicodeChar (UnicodeString/unicode_char.cpp): a character in UTF-8 in   *)
(* the array _cc of five bytes.  A text is a sequence of bytes without its *)
(* final 0.                                                                *)
(***************************************************************************)
EXTENDS Integers, Sequences, SequencesExt

CONSTANTS Codes,      \* code points, and numbers that are none
          Texts,      \* texts that are no characters
          Steps       \* what is added to a character

VARIABLES cc,         \* _cc
          want        \* the code point it was set to, -1 if it was set to no character
vars == <<cc, want>>

Zeros == <<0, 0, 0, 0, 0>>

\* g_utf8_bytes: how many bytes follow a first byte; 4 and 5 are illegal.
g_utf8_bytes(b) == CASE b < 192 -> 0
                     [] b >= 192 /\ b < 224 -> 1
                     [] b >= 224 /\ b < 240 -> 2
                     [] b >= 240 /\ b < 248 -> 3
                     [] b >= 248 /\ b < 252 -> 4
                     [] OTHER -> 5

\* MUTANT of Encoded: two bytes end one too early.
EncodedShort(c) ==
    IF c > 127 /\ c < 2047 THEN <<192 + (c \div 64), 128 + (c % 64)>>
    ELSE IF c >= 0 /\ c <= 127 THEN <<c>> ELSE <<>>

\* The constructor and the assignment from an int.
Encoded(c) ==
    CASE c > 0 /\ c <= 127 -> <<c>>
      [] c > 127 /\ c <= 2047 -> <<192 + (c \div 64), 128 + (c % 64)>>
      [] c > 2047 /\ c <= 65535 -> <<224 + (c \div 4096), 128 + ((c \div 64) % 64), 128 + (c % 64)>>
      [] c > 65535 /\ c <= 1114111 ->
            <<240 + (c \div 262144), 128 + ((c \div 4096) % 64), 128 + ((c \div 64) % 64),
              128 + (c % 64)>>
      [] OTHER -> <<>>

\* c_str() of an array.
c_str(a) == LET n == CHOOSE n \in 0..5 : (\A i \in 1..n : a[i] # 0) /\ (n = 5 \/ a[n + 1] = 0)
            IN SubSeq(a, 1, n)

is_legal_utf8_char(s) ==
    /\ Len(s) <= 4
    /\ LET bytes == IF s = <<>> THEN 0 ELSE g_utf8_bytes(s[1])
       IN bytes < 4 /\ Len(s) = bytes + 1
    /\ \A i \in 2..Len(s) : s[i] \div 64 = 2

\* set_char: the 0 goes one byte too far. After four bytes that is behind the array.
set_char(a, s) ==
    IF ~is_legal_utf8_char(s) THEN a
    ELSE [i \in 1..5 |-> IF i <= Len(s) THEN s[i] ELSE IF i = Len(s) + 2 THEN 0 ELSE a[i]]

get_code(s) ==
    CASE ~is_legal_utf8_char(s) -> 0
      [] is_legal_utf8_char(s) /\ Len(s) = 1 -> s[1] % 128
      [] is_legal_utf8_char(s) /\ Len(s) = 2 -> ((s[1] % 32) * 64) + (s[2] % 64)
      [] is_legal_utf8_char(s) /\ Len(s) = 3 -> ((s[1] % 16) * 4096) + ((s[2] % 64) * 64) + (s[3] % 64)
      [] OTHER -> ((s[1] % 8) * 262144) + ((s[2] % 64) * 4096) + ((s[3] % 64) * 64) + (s[4] % 64)

Code == get_code(c_str(cc))

Padded(s) == [i \in 1..5 |-> IF i <= Len(s) THEN s[i] ELSE 0]
Point(c) == c > 0 /\ c <= 1114111
Wanted(c) == IF Point(c) THEN c ELSE 0

Init == cc = Zeros /\ want = 0

\* From an int: the array is cleared first.
FromInt(c) == cc' = Padded(Encoded(c)) /\ want' = Wanted(c)

\* The constructor from a text.
FromText(s, c) == cc' = set_char(Zeros, s) /\ want' = c

\* The assignment of a text: the array is not cleared, and what was longer shows through.
SetText(s, c) == /\ cc' = set_char(cc, s)
                 /\ want' = IF ~is_legal_utf8_char(s) THEN want
                            ELSE IF \A i \in (Len(s) + 1)..5 : cc[i] = 0 THEN c ELSE -1

\* operator+ and operator- with a number, of the characters in Codes (bound).
Add(n) == /\ Code \in Codes
          /\ cc' = Padded(Encoded(Code + n))
          /\ want' = Wanted(Code + n)

Next == \/ \E c \in Codes : FromInt(c) \/ (Point(c) /\ (FromText(Encoded(c), c) \/ SetText(Encoded(c), c)))
        \/ \E s \in Texts : FromText(s, 0) \/ SetText(s, 0)
        \/ \E n \in Steps : Add(n)

Spec == Init /\ [][Next]_vars
------------------------------------------------------------------------------
TypeOK == cc \in [1..5 -> 0..255] /\ want \in Nat \cup {-1}

(***************************************************************************)
(* A character has the code it was set to, and is the shortest encoding of *)
(* it: at every boundary between one, two, three and four bytes, and when  *)
(* it comes from a text, which may replace one that is not longer.  What   *)
(* is no character leaves an empty one, or the one before.                 *)
(***************************************************************************)
CharIsItsCode == want # -1 => /\ Code = want
                              /\ want > 0 => (c_str(cc) = Encoded(want) /\ is_legal_utf8_char(c_str(cc)))
                              /\ want = 0 => c_str(cc) = <<>>
==============================================================================
