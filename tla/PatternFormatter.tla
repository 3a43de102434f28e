--------------------------- MODULE PatternFormatter ---------------------------
(***************************************************************************)
(* pattern_formatter (pattern_formatter.h, pattern_formatter-inl.h): a     *)
(* pattern is compiled into a sequence of flag formatters, each of which   *)
(* appends its field to a line.  A character of a line is [c, t]: a        *)
(* literal is itself, a character of a field is the flag it comes from,    *)
(* with what it tells (t): for a date the second it shows, for an elapsed  *)
(* time or a zone the number (-1 for a literal).  The clock goes in        *)
(* seconds, around midnight from Tuesday, September 30 to Wednesday,       *)
(* October 1, where names, days and the zone change.  A formatter is a     *)
(* record: some have a memory.                                             *)
(***************************************************************************)
EXTENDS Integers, Sequences, SequencesExt

CONSTANTS Midnight,     \* the second at which October begins
          MaxWidth,     \* max_width, 64 in the code
          Refresh       \* how long the zone's offset is kept, 10 seconds in the code

Chars(c, n, t) == [i \in 1..n |-> [c |-> c, t |-> t]]
Literal(s) == [i \in 1..Len(s) |-> [c |-> s[i], t |-> -1]]
Digits(n) == IF n < 10 THEN 1 ELSE 2

September(t) == t < Midnight
OffsetAt(t) == IF September(t) THEN 120 ELSE 60

(***************************************************************************)
(* The fields.  A formatter tells its padder the size of its field         *)
(* (claimed) and then writes the text; without a padder the size is not    *)
(* used.  A message is [time, name, payload, level, source]: the lengths   *)
(* of its texts, and whether it has a source location.                     *)
(***************************************************************************)
Field(claimed, text) == [claimed |-> claimed, text |-> text]
Honest(text) == Field(Len(text), text)

LevelLength == <<5, 5, 4, 7, 5, 8, 3>>       \* trace, debug, info, warning, ...

MessageField(flag, msg) ==
    Honest(CASE flag = "n" -> Chars("n", msg.name, 0)
             [] flag = "l" -> Chars("l", LevelLength[msg.level + 1], msg.level)
             [] flag = "L" -> Chars("L", 1, msg.level))

NameField(flag, tm) ==
    Honest(Chars(flag, CASE flag = "a" -> 3
                         [] flag = "A" -> IF September(tm) THEN 7 ELSE 9
                         [] flag = "b" -> IF September(tm) THEN 4 ELSE 3
                         [] flag = "B" -> IF September(tm) THEN 9 ELSE 7, tm))

\* The sizes that %c and %D tell are not always those of their texts.
DateField(flag, tm) ==
    CASE flag = "c" -> Field(24, Chars("c", IF September(tm) THEN 25 ELSE 23, tm))
      [] flag = "D" -> Field(10, Chars("D", 8, tm))
      [] flag = "Y" -> Honest(Chars("Y", 4, tm))
      [] flag \in {"C", "m", "d"} -> Honest(Chars(flag, 2, tm))

ClockField(flag, tm) == Honest(Chars(flag, 2, tm))

FractionField(flag, msg) ==
    Honest(Chars(flag, CASE flag = "e" -> 3 [] flag = "f" -> 6 [] flag = "F" -> 9 [] flag = "E" -> 10,
                 msg.time))

TimeField(flag, tm) ==
    Honest(Chars(flag,
                 CASE flag = "p" -> 2 [] flag = "r" -> 11 [] flag = "R" -> 5 [] flag = "T" -> 8, tm))

\* get_cached_offset
CachedOffset(f, msg) ==
    IF msg.time - f.last >= Refresh THEN [offset |-> OffsetAt(msg.time), last |-> msg.time]
    ELSE [offset |-> f.offset, last |-> f.last]

IdField(flag, msg) ==
    Honest(CASE flag = "v" -> Chars("v", msg.payload, 0) [] flag \in {"t", "P"} -> Chars(flag, 2, 0))

\* The texts are file.c (or dir/file.c), 7 and f(): without a location there is none.
SourceFlags == {"@", "g", "s", "#", "!"}
SourceField(flag) ==
    Honest(Chars(flag, CASE flag = "@" -> 12 [] flag = "g" -> 10 [] flag = "s" -> 6
                         [] flag = "#" -> 1 [] flag = "!" -> 3, 0))

Elapsed(f, msg) == IF msg.time > f.last THEN msg.time - f.last ELSE 0

\* full_formatter: its date is cached for the second, and the level is coloured.
FullBefore(msg, date) ==
    Chars("+", 21, date) \o Chars("e", 3, msg.time) \o Chars("+", 2, 0)
      \o (IF msg.name > 0
          THEN Chars("+", 1, 0) \o Chars("n", msg.name, 0) \o Chars("+", 2, 0) ELSE <<>>)
      \o Chars("+", 1, 0)
FullAfter(msg) ==
    Chars("+", 2, 0) \o (IF msg.source THEN Chars("+", 11, 0) ELSE <<>>) \o Chars("v", msg.payload, 0)

------------------------------------------------------------------------------
(***************************************************************************)
(* Padding (scoped_padder): spaces before and after the field, or what is  *)
(* too much cut from the end of the line, which may not be long enough for *)
(* it: the resize to a negative size throws.                               *)
(***************************************************************************)
NoPad == [width |-> 0, side |-> "left", truncate |-> FALSE, enabled |-> FALSE]
Spaces(n) == Chars(" ", n, 0)

Overcut(dest, pad, field) ==
    pad.enabled /\ pad.truncate /\ Len(dest) + Len(field.text) + pad.width < field.claimed

\* MUTANT of Padded: the odd space of a centred field is lost.
PaddedEven(dest, pad, field) ==
    LET remaining == pad.width - field.claimed
    IN IF pad.enabled /\ remaining > 0 /\ pad.side = "center"
       THEN dest \o Spaces(remaining \div 2) \o field.text \o Spaces(remaining \div 2)
       ELSE dest \o field.text

Padded(dest, pad, field) ==
    LET remaining == pad.width - field.claimed
        before == CASE remaining <= 0 -> 0
                    [] remaining > 0 /\ pad.side = "left" -> remaining
                    [] remaining > 0 /\ pad.side = "center" -> remaining \div 2
                    [] OTHER -> 0
        line == dest \o Spaces(before) \o field.text
    IN CASE ~pad.enabled -> dest \o field.text
         [] pad.enabled /\ remaining >= 0 -> line \o Spaces(remaining - before)
         [] pad.enabled /\ remaining < 0 /\ pad.truncate ->
                SubSeq(line, 1, Len(line) + remaining)
         [] OTHER -> line

------------------------------------------------------------------------------
(***************************************************************************)
(* Compilation.                                                            *)
(***************************************************************************)
DigitValue == [d \in {"0", "1", "2", "3", "4", "5", "6", "7", "8", "9"} |->
                 CHOOSE n \in 0..9 : ToString(n) = d]

BuiltIn == {"+", "n", "l", "L", "t", "v", "a", "A", "b", "B", "c", "C", "Y", "D", "m", "d", "H",
            "I", "M", "S", "e", "f", "F", "E", "p", "r", "R", "T", "z", "P", "^", "$", "O"} \cup SourceFlags
\* Flags that mean the same as another; %u, %i and %o are %O in other units.
Synonym == [f \in {"h", "x", "X"} |-> CASE f = "h" -> "b" [] f = "x" -> "D" [] f = "X" -> "T"]

Formatter(kind, pad, text, now) ==
    [kind |-> kind, pad |-> pad, text |-> text, offset |-> 0, last |-> IF kind = "O" THEN now ELSE 0]
Aggregate(s) == Formatter("chars", NoPad, Literal(s), 0)

\* handle_flag_: a '!' before a character that is no flag was the function's name.
handle_flag_(flag, pad, custom, now) ==
    CASE flag \in custom -> <<Formatter("custom", pad, <<>>, 0)>>
      [] flag \notin custom /\ flag = "%" -> <<Aggregate(<<"%">>)>>
      [] flag \notin custom /\ flag \in BuiltIn -> <<Formatter(flag, pad, <<>>, now)>>
      [] flag \notin custom /\ flag \in DOMAIN Synonym -> <<Formatter(Synonym[flag], pad, <<>>, now)>>
      [] OTHER -> IF pad.truncate
                  THEN <<Formatter("!", [pad EXCEPT !.truncate = FALSE], <<>>, 0), Aggregate(<<flag>>)>>
                  ELSE <<Aggregate(<<"%", flag>>)>>

\* handle_padspec_ from position i of p: the padding, and the position after it.
handle_padspec_(p, i) ==
    LET sided == i <= Len(p) /\ p[i] \in {"-", "="}
        j == IF sided THEN i + 1 ELSE i
        k == CHOOSE k \in j..(Len(p) + 1) : /\ \A n \in j..(k - 1) : p[n] \in DOMAIN DigitValue
                                            /\ k > Len(p) \/ p[k] \notin DOMAIN DigitValue
        width == FoldLeft(LAMBDA n, d : 10 * n + DigitValue[d], 0, SubSeq(p, j, k - 1))
        marked == k <= Len(p) /\ p[k] = "!"
    IN IF k = j THEN [pad |-> NoPad, it |-> j]
       ELSE [pad |-> [width |-> IF width < MaxWidth THEN width ELSE MaxWidth,
                      side |-> IF sided THEN (IF p[i] = "-" THEN "right" ELSE "center") ELSE "left",
                      truncate |-> marked, enabled |-> TRUE],
             it |-> IF marked THEN k + 1 ELSE k]

\* compile_pattern_: the loop from position i, with the plain characters from `start` on.
Compile(p, custom, now) ==
    LET from[start, i \in 1..(Len(p) + 1)] ==
          LET user_chars == SubSeq(p, start, i - 1)
              flushed == IF user_chars = <<>> THEN <<>> ELSE <<Aggregate(user_chars)>>
              spec == handle_padspec_(p, i + 1)
          IN CASE i > Len(p) -> flushed
               [] i <= Len(p) /\ p[i] # "%" -> from[start, i + 1]
               [] i <= Len(p) /\ p[i] = "%" /\ spec.it > Len(p) -> flushed
               [] OTHER -> flushed \o handle_flag_(p[spec.it], spec.pad, custom, now)
                             \o from[spec.it + 1, spec.it + 1]
    IN from[1, 1]

------------------------------------------------------------------------------
(***************************************************************************)
(* Formatting.  A pattern_formatter is [pattern, custom, formatters, tm,   *)
(* secs]: cached_tm_ is the second it shows.                               *)
(***************************************************************************)
Make(p, custom, now) ==
    [pattern |-> p, custom |-> custom, formatters |-> Compile(p, custom, now), tm |-> 0, secs |-> 0]

\* What a formatter appends, when it is not a colour mark.
FieldOf(f, msg, tm) ==
    CASE f.kind \in {"n", "l", "L"} -> MessageField(f.kind, msg)
      [] f.kind \in {"a", "A", "b", "B"} -> NameField(f.kind, tm)
      [] f.kind \in {"c", "C", "D", "Y", "m", "d"} -> DateField(f.kind, tm)
      [] f.kind \in {"H", "I", "M", "S"} -> ClockField(f.kind, tm)
      [] f.kind \in {"e", "f", "F", "E"} -> FractionField(f.kind, msg)
      [] f.kind \in {"p", "r", "R", "T"} -> TimeField(f.kind, tm)
      [] f.kind = "z" -> Honest(Chars("z", 6, CachedOffset(f, msg).offset))
      [] f.kind \in {"v", "t", "P"} -> IdField(f.kind, msg)
      [] f.kind \in SourceFlags -> SourceField(f.kind)
      [] f.kind = "O" -> Honest(Chars("O", Digits(Elapsed(f, msg)), Elapsed(f, msg)))
      [] f.kind = "custom" -> Honest(Chars("custom", 1, 0))
      [] f.kind = "chars" -> Honest(f.text)

\* What a formatter remembers of the message.
Remember(f, msg) ==
    CASE f.kind = "O" -> [f EXCEPT !.last = msg.time]
      [] f.kind = "z" -> [f EXCEPT !.offset = CachedOffset(f, msg).offset,
                                   !.last = CachedOffset(f, msg).last]
      [] OTHER -> f

\* One formatter: line is [dest, start, end], the colour range with it.
Appended(line, f, msg, tm) ==
    CASE f.kind = "^" -> [line EXCEPT !.start = Len(line.dest)]
      [] f.kind = "$" -> [line EXCEPT !.end = Len(line.dest)]
      [] f.kind = "+" ->
            LET before == line.dest \o FullBefore(msg, tm)
                level == before \o Chars("l", LevelLength[msg.level + 1], msg.level)
            IN [line EXCEPT !.dest = level \o FullAfter(msg), !.start = Len(before), !.end = Len(level)]
      [] f.kind \in SourceFlags /\ ~msg.source -> line
      [] OTHER -> IF Overcut(line.dest, f.pad, FieldOf(f, msg, tm)) THEN [line EXCEPT !.thrown = TRUE]
                  ELSE [line EXCEPT !.dest = Padded(@, f.pad, FieldOf(f, msg, tm))]

\* The date of the cache, which is brought up to date in another second.
TimeShown(pf, msg) == IF msg.time # pf.secs THEN msg.time ELSE pf.tm

\* pattern_formatter::format: the line, from a message whose colour range is of
\* whoever formatted it before, and the formatter after it.
Format(pf, msg, start, end) ==
    LET tm == TimeShown(pf, msg)
        Step(done, f) ==
            IF done.line.thrown THEN [done EXCEPT !.formatters = Append(@, f)]
            ELSE [line |-> Appended(done.line, f, msg, tm),
                  formatters |-> Append(done.formatters, Remember(f, msg))]
        done == FoldLeft(Step, [line |-> [dest |-> <<>>, start |-> start, end |-> end, thrown |-> FALSE],
                                formatters |-> <<>>], pf.formatters)
    IN [line |-> done.line,
        formatter |-> [pf EXCEPT !.tm = tm, !.secs = msg.time, !.formatters = done.formatters]]

\* clone(): compiled again, with its flags as they are now.
Clone(pf, now) == Make(pf.pattern, pf.custom, now)
SetPattern(pf, p, now) == [pf EXCEPT !.pattern = p, !.formatters = Compile(p, pf.custom, now)]
AddFlag(pf, flag) == [pf EXCEPT !.custom = @ \cup {flag}]
==============================================================================
