------------------------------- MODULE FmtFormat -------------------------------
(***************************************************************************)
(* The formatting of a message by the bundled {fmt} (fmt/bundled/format.h, *)
(* core.h): every call of a logger with arguments goes through vformat_to. *)
(* A format string is text with fields in braces; a field names its        *)
(* argument, by counting or by number or by name, and says how to write it.*)
(* An error throws, which the logger reports instead of the message.       *)
(*                                                                         *)
(* Characters are one code unit each; arguments are int, unsigned, bool,   *)
(* char and string.  Floating point numbers, pointers, types with their    *)
(* own formatter and locales are left out.                                 *)
(***************************************************************************)
EXTENDS Integers, Sequences, SequencesExt, FiniteSetsExt

CONSTANTS Pieces,     \* what format strings are made of
          MaxPieces,  \* bound: pieces of a format string
          ArgLists,   \* lists of arguments: [type, v]
          Names,      \* the arguments that have a name: a function to their numbers
          MaxInt      \* the largest int

VARIABLES fmt,        \* the format string
          args        \* the arguments
vars == <<fmt, args>>

Digit == [c \in {"0", "1", "2", "3", "4", "5", "6", "7", "8", "9"} |->
            CASE c = "0" -> 0 [] c = "1" -> 1 [] c = "2" -> 2 [] c = "3" -> 3 [] c = "4" -> 4
              [] c = "5" -> 5 [] c = "6" -> 6 [] c = "7" -> 7 [] c = "8" -> 8 [] c = "9" -> 9]
is_name_start(c) == c \in {"a", "b", "x", "_"}
DigitChars == <<"0", "1", "2", "3", "4", "5", "6", "7", "8", "9", "a", "b", "c", "d", "e", "f">>
UpperChars == <<"0", "1", "2", "3", "4", "5", "6", "7", "8", "9", "A", "B", "C", "D", "E", "F">>

Fill(n, c) == [i \in 1..n |-> c]

------------------------------------------------------------------------------
(* Writing an argument.                                                    *)

NoSpecs == [width |-> 0, precision |-> -1, type |-> "", align |-> "none", sign |-> "none",
            alt |-> FALSE, fill |-> " "]

\* write_padded; left_padding_shifts and right_padding_shifts: by 0, by 1, or by 31.
write_padded(s, text, width, default) ==
    LET padding == IF s.width > width THEN s.width - width ELSE 0
        left == CASE s.align = "left" -> 0
                  [] s.align = "none" -> IF default = "left" THEN 0 ELSE padding
                  [] s.align = "center" -> padding \div 2
                  [] s.align \in {"right", "numeric"} -> padding
    IN Fill(left, s.fill) \o text \o Fill(padding - left, s.fill)

\* count_digits, format_decimal, format_uint.
RECURSIVE DigitsOf(_, _, _)
DigitsOf(n, base, chars) == (IF n < base THEN <<>> ELSE DigitsOf(n \div base, base, chars))
                            \o <<chars[(n % base) + 1]>>

\* write_int: zeros between the prefix and the digits, up to the width or the precision.
write_int(s, prefix, digits) ==
    LET size == Len(prefix) + Len(digits)
        zeros == IF s.align = "numeric" THEN (IF s.width > size THEN s.width - size ELSE 0)
                 ELSE IF s.precision > Len(digits) THEN s.precision - Len(digits) ELSE 0
        text == prefix \o Fill(zeros, "0") \o digits
    IN write_padded(s, text, Len(text), "right")

Text(t) == [ok |-> TRUE, text |-> t]
Error == [ok |-> FALSE, text |-> <<>>]

\* int_writer: a character takes neither sign nor width.
int_writer(v, s) ==
    LET abs == IF v < 0 THEN -v ELSE v
        sign == IF v < 0 THEN <<"-">>
                ELSE IF s.sign = "plus" THEN <<"+">> ELSE IF s.sign = "space" THEN <<" ">> ELSE <<>>
        based(base, chars) == LET alt == IF s.alt THEN <<"0", s.type>> ELSE <<>>
                              IN Text(write_int(s, sign \o alt, DigitsOf(abs, base, chars)))
        octal == DigitsOf(abs, 8, DigitChars)
        zero == IF s.alt /\ s.precision <= Len(octal) /\ abs # 0 THEN <<"0">> ELSE <<>>
    IN CASE s.type \in {"", "d", "L"} -> Text(write_int(s, sign, DigitsOf(abs, 10, DigitChars)))
         [] s.type = "x" -> based(16, DigitChars)
         [] s.type = "X" -> based(16, UpperChars)
         [] s.type \in {"b", "B"} -> based(2, DigitChars)
         [] s.type = "o" -> Text(write_int(s, sign \o zero, octal))
         [] s.type = "c" -> Text(<<"c">>)
         [] OTHER -> Error

\* A text: cut at the precision, which is in code points as the width is.
write_text(t, s) ==
    LET cut == IF s.precision >= 0 /\ s.precision < Len(t) THEN SubSeq(t, 1, s.precision) ELSE t
    IN Text(write_padded(s, cut, Len(cut), "left"))

\* arg_formatter_base. A char is a number under every type but its own.
Written(arg, s) ==
    CASE arg.type \in {"int", "unsigned"} -> int_writer(arg.v, s)
      [] arg.type = "bool" ->
            IF s.type # "" THEN int_writer(IF arg.v THEN 1 ELSE 0, s)
            ELSE write_text(IF arg.v THEN <<"t", "r", "u", "e">> ELSE <<"f", "a", "l", "s", "e">>, s)
      [] arg.type = "char" ->
            IF s.type \notin {"", "c"} THEN int_writer(65, s)
            ELSE IF s.align = "numeric" \/ s.sign # "none" \/ s.alt THEN Error
            ELSE Text(write_padded(s, <<arg.v>>, 1, "left"))
      [] arg.type = "string" -> IF s.type \notin {"", "s"} THEN Error ELSE write_text(arg.v, s)

------------------------------------------------------------------------------
(* Parsing a field.  r: where it is (i, behind the string at the end), what*)
(* is written, how arguments are counted (next, -1: by number), the        *)
(* argument and the specs of the field, and whether all is well.           *)

Start == [i |-> 1, out |-> <<>>, next |-> 0, id |-> 0, n |-> 0, specs |-> NoSpecs, ok |-> TRUE]
Fail(r) == [r EXCEPT !.ok = FALSE]
At(f, i) == IF i \in 1..Len(f) THEN f[i] ELSE ""
Skip(r) == [r EXCEPT !.i = @ + 1]

\* next_arg_id and check_arg_id: arguments are counted or numbered, never both.
next_arg_id(r) == IF r.next >= 0 THEN [r EXCEPT !.id = r.next, !.next = @ + 1] ELSE Fail(r)
check_arg_id(r, id) == IF r.next > 0 THEN Fail(r) ELSE [r EXCEPT !.id = id, !.next = -1]

RECURSIVE IntFrom(_, _, _)
IntFrom(f, r, value) ==
    IF At(f, r.i) \notin DOMAIN Digit THEN (IF value > MaxInt THEN Fail(r) ELSE [r EXCEPT !.n = value])
    ELSE IF value > MaxInt \div 10 THEN Fail(r)
    ELSE IntFrom(f, Skip(r), value * 10 + Digit[f[r.i]])
parse_nonnegative_int(f, r) == IntFrom(f, r, 0)

\* The end of the name that begins at i.
NameEnd(f, i) ==
    Min({j \in i + 1..Len(f) + 1 : ~is_name_start(At(f, j)) /\ At(f, j) \notin DOMAIN Digit})

\* The id that is a number, and the one that is a name.
Numbered(f, r, number) ==
    IF ~number.ok \/ At(f, number.i) \notin {"}", ":"} THEN Fail(r)
    ELSE check_arg_id(number, number.n)
Named(r, end, name) ==
    IF name \in DOMAIN Names THEN [r EXCEPT !.i = end, !.id = Names[name]] ELSE Fail(r)

parse_arg_id(f, r) ==
    LET c == At(f, r.i)
        end == NameEnd(f, r.i)
    IN CASE c \in {"}", ":"} -> next_arg_id(r)
         [] c = "0" -> Numbered(f, r, [Skip(r) EXCEPT !.n = 0])
         [] c \in DOMAIN Digit \ {"0"} -> Numbered(f, r, parse_nonnegative_int(f, r))
         [] is_name_start(c) -> Named(r, end, SubSeq(f, r.i, end - 1))
         [] OTHER -> Fail(r)

\* get_arg, for the id just parsed.
Found(r) == IF r.ok /\ r.id \in 0..Len(args) - 1 THEN r ELSE Fail(r)
ArgOf(r) == args[r.id + 1]

Aligns == [c \in {"<", ">", "^"} |->
             CASE c = "<" -> "left" [] c = ">" -> "right" [] c = "^" -> "center"]
parse_align(f, r) ==
    IF At(f, r.i + 1) \in DOMAIN Aligns
    THEN IF f[r.i] = "{" THEN Fail(r)
         ELSE [r EXCEPT !.i = @ + 2, !.specs.fill = f[r.i], !.specs.align = Aligns[f[r.i + 1]]]
    ELSE IF At(f, r.i) \in DOMAIN Aligns THEN [Skip(r) EXCEPT !.specs.align = Aligns[f[r.i]]]
    ELSE r

\* specs_checker.
Arithmetic(t) == t # "string"
Signed(t) == t \in {"int", "char"}

Signs == [c \in {"+", "-", " "} |-> CASE c = "+" -> "plus" [] c = "-" -> "minus" [] c = " " -> "space"]
parse_sign(f, r, t) ==
    IF ~r.ok \/ At(f, r.i) \notin DOMAIN Signs THEN r
    ELSE IF ~Signed(t) THEN Fail(r) ELSE [Skip(r) EXCEPT !.specs.sign = Signs[f[r.i]]]
parse_hash(f, r, t) ==
    IF ~r.ok \/ At(f, r.i) # "#" THEN r
    ELSE IF ~Arithmetic(t) THEN Fail(r) ELSE [Skip(r) EXCEPT !.specs.alt = TRUE]
\* on_zero: over the fill and the alignment there may have been.
parse_zero(f, r, t) ==
    IF ~r.ok \/ At(f, r.i) # "0" THEN r
    ELSE IF ~Arithmetic(t) THEN Fail(r)
    ELSE [Skip(r) EXCEPT !.specs.align = "numeric", !.specs.fill = "0"]

\* A number, or a field of its own whose argument is one.
Taken(f, r, a) ==
    IF a.ok /\ At(f, a.i) = "}" /\ ArgOf(a).type \in {"int", "unsigned"} /\ ArgOf(a).v \in 0..MaxInt
    THEN [Skip(a) EXCEPT !.n = ArgOf(a).v, !.id = r.id] ELSE Fail(r)
Dynamic(f, r) == Taken(f, r, Found(parse_arg_id(f, Skip(r))))
Number(f, r) == IF At(f, r.i) \in DOMAIN Digit THEN parse_nonnegative_int(f, r)
                ELSE IF At(f, r.i) = "{" THEN Dynamic(f, r) ELSE Fail(r)

WithWidth(r) == [r EXCEPT !.specs.width = r.n]
WithPrecision(r) == [r EXCEPT !.specs.precision = r.n]
parse_width(f, r) ==
    IF ~r.ok \/ At(f, r.i) \notin DOMAIN Digit \cup {"{"} THEN r ELSE WithWidth(Number(f, r))
parse_precision(f, r, t) ==
    IF ~r.ok \/ At(f, r.i) # "." THEN r
    ELSE IF t = "string" THEN WithPrecision(Number(f, Skip(r))) ELSE Fail(r)
parse_type(f, r) == IF ~r.ok \/ At(f, r.i) \in {"", "}"} THEN r
                    ELSE [Skip(r) EXCEPT !.specs.type = f[r.i]]

\* parse_format_specs: each part, unless one before it failed.
parse_format_specs(f, r, t) ==
    IF At(f, r.i) \in {"", "}"} THEN r
    ELSE parse_type(f, parse_precision(f, parse_width(f, parse_zero(f, parse_hash(f,
             parse_sign(f, parse_align(f, r), t), t), t)), t))

Put(r, w) == IF ~w.ok THEN Fail(r) ELSE [r EXCEPT !.out = @ \o w.text]

\* What may follow the id of a field: nothing, or the specs.
Specified(f, arg, spec) ==
    IF ~spec.ok \/ At(f, spec.i) # "}" THEN Fail(arg)
    ELSE Skip(Put(spec, Written(ArgOf(arg), spec.specs)))
Identified(f, arg) ==
    IF ~arg.ok THEN arg
    ELSE IF At(f, arg.i) = "}" THEN Skip(Put(arg, Written(ArgOf(arg), NoSpecs)))
    ELSE IF At(f, arg.i) # ":" THEN Fail(arg)
    ELSE Specified(f, arg, parse_format_specs(f, Skip(arg), ArgOf(arg).type))

\* parse_replacement_field, at its open brace; behind its closing one.
parse_replacement_field(f, r) ==
    CASE At(f, r.i + 1) = "" -> Fail(r)
      [] At(f, r.i + 1) = "{" -> Skip(Skip(Put(r, Text(<<"{">>))))
      [] OTHER -> Identified(f, Found(parse_arg_id(f, [Skip(r) EXCEPT !.specs = NoSpecs])))

------------------------------------------------------------------------------
(* parse_format_string: strings of less than 32 characters in one pass,    *)
(* longer ones by the next "{", and in the text before it the next "}".    *)

RECURSIVE ShortFrom(_, _)
ShortFrom(f, r) ==
    CASE ~r.ok \/ r.i > Len(f) -> r
      [] r.ok /\ At(f, r.i) = "{" -> ShortFrom(f, parse_replacement_field(f, r))
      [] r.ok /\ At(f, r.i) = "}" -> IF At(f, r.i + 1) # "}" THEN Fail(r)
                                     ELSE ShortFrom(f, Put(Skip(Skip(r)), Text(<<"}">>)))
      [] OTHER -> ShortFrom(f, Put(Skip(r), Text(<<f[r.i]>>)))

\* find: where the character is in f from i up to before `end`, or end.
find(f, i, end, c) == Min({end} \cup {j \in i..end - 1 : f[j] = c})

\* MUTANT of writer: a closing brace at the end is text.
RECURSIVE writerLenient(_, _, _)
writerLenient(f, r, end) ==
    LET p == find(f, r.i, end, "}")
        upto == Put([r EXCEPT !.i = p], Text(SubSeq(f, r.i, p - 1)))
    IN IF r.i = end \/ p = end THEN upto
       ELSE writerLenient(f, Put([upto EXCEPT !.i = Min({end, p + 2})], Text(<<"}">>)), end)

RECURSIVE writer(_, _, _)
writer(f, r, end) ==
    LET p == find(f, r.i, end, "}")
        upto == Put([r EXCEPT !.i = p], Text(SubSeq(f, r.i, p - 1)))
    IN IF p = end THEN upto
       ELSE IF p + 1 = end \/ At(f, p + 1) # "}" THEN Fail(r)
       ELSE writer(f, Put([upto EXCEPT !.i = p + 2], Text(<<"}">>)), end)

\* After the text there is an end, or a field.
RECURSIVE LongFrom(_, _)
Continued(f, text) == IF text.i > Len(f) \/ ~text.ok THEN text
                      ELSE LongFrom(f, parse_replacement_field(f, text))
LongFrom(f, r) == IF ~r.ok \/ r.i > Len(f) THEN r
                  ELSE Continued(f, writer(f, r, find(f, r.i, Len(f) + 1, "{")))

Result(r) == IF r.ok THEN Text(r.out) ELSE Error
Short(f) == Result(ShortFrom(f, Start))
Long(f) == Result(LongFrom(f, Start))

\* vformat_to: "{}" alone is not parsed.
vformat_to(f) == IF f = <<"{", "}">> THEN Written(args[1], NoSpecs)
                 ELSE IF Len(f) < 32 THEN Short(f) ELSE Long(f)
------------------------------------------------------------------------------
(* Any format string, piece by piece.                                      *)

Init == fmt = <<>> /\ args \in ArgLists
Next == \E p \in Pieces : /\ Len(fmt) < MaxPieces
                          /\ fmt' = Append(fmt, p)
                          /\ UNCHANGED args
Spec == Init /\ [][Next]_vars

Format == FlattenSeq(fmt)
------------------------------------------------------------------------------
TypeOK == fmt \in Seq(Pieces) /\ Len(fmt) <= MaxPieces /\ args \in ArgLists

(***************************************************************************)
(* What a format string gives does not depend on its length: the loop for  *)
(* the short ones, the two searches for the long ones and the short cut    *)
(* for "{}" write the same, and refuse the same.                           *)
(***************************************************************************)
LoopsAgree == LET f == Format
              IN Short(f) = Long(f) /\ vformat_to(f) = Short(f)

\* The specs of the field that f is, if it is one and has specs.
SpecsOf(f, arg) == parse_format_specs(f, Skip(arg), ArgOf(arg).type)
IsField(f, field) == Len(f) > 3 /\ f[1] = "{" /\ f[2] = ":" /\ field.i = Len(f)

\* A text on its own, and in a field.
IsWide(s, bare, out, arg) ==
    /\ Len(out) = Max({s.width, Len(bare)})
    /\ IF s.align = "numeric"
       THEN s.type = "" /\ arg.type \in {"int", "unsigned"} =>
               IsSuffix(DigitsOf(IF arg.v < 0 THEN -arg.v ELSE arg.v, 10, DigitChars), out)
       ELSE \E k \in 0..Len(out) - Len(bare) :
               LET n == Len(out) - Len(bare)
               IN /\ out = Fill(k, s.fill) \o bare \o Fill(n - k, s.fill)
                  /\ s.align = "left" => k = 0
                  /\ s.align = "right" => k = n
                  /\ s.align = "center" => k \in {n - k, n - k - 1}

CountsOrNumbers(f) ==
    LET Has(c) == \E i \in 1..Len(f) - 1 : f[i] = "{" /\ f[i + 1] = c
    IN Has("{") \/ ~(Has("0") /\ (Has(":") \/ Has("}")))

(***************************************************************************)
(* Of a string that is accepted (and has no doubled brace), every argument *)
(* is counted or every one is numbered.  And a field that is accepted has  *)
(* the width it asks for, or its text is longer; what is added is the      *)
(* fill, on the sides the alignment says, a middle between them, and for   *)
(* numbers zeros behind the sign; and what it is added to is the field     *)
(* without a width.  (A number that is written as a character has no       *)
(* width: on_chr, format.h:1608.)                                          *)
(***************************************************************************)
FieldsAreWide ==
    \E f \in {Format} : \E result \in {Short(f)} :
      result.ok =>
        /\ CountsOrNumbers(f)
        /\ \A field \in {SpecsOf(f, Found(parse_arg_id(f, Skip(Start))))} :
             IsField(f, field) /\ ~(field.specs.type = "c" /\ args[1].type # "char") =>
               IsWide(field.specs, Written(args[1], [field.specs EXCEPT !.width = 0]).text,
                      result.text, args[1])
==============================================================================
