----------------------------- MODULE ConsoleSinks -----------------------------
(***************************************************************************)
(* The console sinks, each with a pattern_formatter of its own:            *)
(* stdout_sink (stdout_sinks-inl.h), ansicolor_sink (ansicolor_sink-inl.h) *)
(* and wincolor_sink (wincolor_sink-inl.h), which may be on a file.  A     *)
(* logger gives a message to its two sinks in turn, and the message        *)
(* carries the range to colour from the formatter to the sink: the fields  *)
(* are mutable, so what one sink leaves there the next one finds.          *)
(***************************************************************************)
EXTENDS PatternFormatter, FiniteSets

CONSTANTS FirstPatterns, OtherPatterns,   \* of the first sink, and of set_pattern
          FirstKinds,                     \* of the first sink; the other is "ansi"
          Messages,                       \* without their times
          Times, MaxMessages              \* the moments there are, and a bound

VARIABLES now, sinks, screens, seen, last
vars == <<now, sinks, screens, seen, last>>

Sinks == {1, 2}
Plain == "plain"

\* A sink: its kind, whether it is on a console, whether it does colours, and the
\* colour of each level.
Sink(kind, console, p) ==
    [kind |-> kind, console |-> console, colours |-> kind # "stdout",
     palette |-> [l \in 0..6 |-> l], formatter |-> Make(p, {}, 0)]

NothingYet == [msg |-> [time |-> 0], lines |-> <<>>]

Init == /\ now = CHOOSE t \in Times : \A u \in Times : t <= u
        /\ \E p \in FirstPatterns, kind \in FirstKinds :
              sinks = <<Sink(kind, p \notin OtherPatterns, p),
                        Sink("ansi", TRUE, <<"%", "v">>)>>
        /\ screens = <<<<>>, <<>>>>
        /\ seen = <<>>
        /\ last = NothingYet

Tick == /\ \E t \in Times : t > now /\ now' = t
        /\ UNCHANGED <<sinks, screens, seen, last>>

\* MUTANT of StartRange: the range is not forgotten.
StartRangeKept(sink, range) == range

\* The range a sink starts from: the colour sinks forget what another left.
StartRange(sink, range) == IF sink.kind = "stdout" THEN range ELSE [start |-> 0, end |-> 0]

\* A line on the console, in a colour from start to end.
Coloured(line, colour) ==
    [i \in DOMAIN line.dest |->
        [c |-> line.dest[i].c, t |-> line.dest[i].t,
         colour |-> IF line.start < i /\ i <= line.end THEN colour ELSE Plain]]
Uncoloured(line) == Coloured([line EXCEPT !.end = 0], Plain)

\* Between escape codes, the last of which resets.
AnsiPrinted(sink, line, level) ==
    IF sink.colours /\ line.end > line.start
    THEN Coloured(line, ToString(sink.palette[level])) ELSE Uncoloured(line)

\* With the console's attributes changed, and then restored; a file has none.
WinPrinted(sink, line, level) ==
    IF sink.console /\ sink.colours /\ line.end > line.start
    THEN Coloured(line, ToString(sink.palette[level])) ELSE Uncoloured(line)

Printed(sink, line, level) == CASE sink.kind = "ansi" -> AnsiPrinted(sink, line, level)
                                [] sink.kind = "win" -> WinPrinted(sink, line, level)
                                [] sink.kind = "stdout" -> Uncoloured(line)

\* log of a sink, and the range it leaves in the message. A formatter that throws
\* leaves the console as it is; the logger reports the error and goes on.
LogOf(sink, msg, range) ==
    LET start == StartRange(sink, range)
        done == Format(sink.formatter, msg, start.start, start.end)
    IN [sink |-> [sink EXCEPT !.formatter = done.formatter],
        line |-> done.line,
        range |-> [start |-> done.line.start, end |-> done.line.end],
        screen |-> IF done.line.thrown THEN <<>> ELSE Printed(sink, done.line, msg.level)]

Log == /\ Len(seen) < MaxMessages
       /\ \E t \in {u \in Times : u <= now}, m \in Messages :
            LET msg == [time |-> t, name |-> m.name, payload |-> m.payload, level |-> m.level,
                        source |-> m.source]
                first == LogOf(sinks[1], msg, [start |-> 0, end |-> 0])
                second == LogOf(sinks[2], msg, first.range)
            IN /\ sinks' = <<first.sink, second.sink>>
               /\ screens' = <<first.screen, second.screen>>
               /\ last' = [msg |-> msg, lines |-> <<first.line, second.line>>]
               /\ seen' = Append(seen, t)
       /\ UNCHANGED now

SetPatternOf(s, p) == /\ sinks' = [sinks EXCEPT ![s].formatter = Make(p, {}, now)]
                      /\ last' = NothingYet
                      /\ UNCHANGED <<now, screens, seen>>

\* set_formatter with a clone of the other sink's, as a logger does for its sinks.
SetFormatter(s) == /\ sinks' = [sinks EXCEPT ![s].formatter = Clone(sinks[3 - s].formatter, now)]
                   /\ last' = NothingYet
                   /\ UNCHANGED <<now, screens, seen>>

\* add_flag and set_pattern of a formatter, as the documentation has them together.
AddFlagTo(s, flag, p) ==
    /\ sinks' = [sinks EXCEPT ![s].formatter = SetPattern(AddFlag(@, flag), p, now)]
    /\ last' = NothingYet
    /\ UNCHANGED <<now, screens, seen>>

SetColor(s, level, colour) == /\ sinks[s].kind # "stdout"
                              /\ sinks' = [sinks EXCEPT ![s].palette[level] = colour]
                              /\ last' = NothingYet
                              /\ UNCHANGED <<now, screens, seen>>

SetColorMode(s, colours) == /\ sinks[s].kind # "stdout"
                            /\ sinks' = [sinks EXCEPT ![s].colours = colours]
                            /\ last' = NothingYet
                            /\ UNCHANGED <<now, screens, seen>>

Change == /\ last # NothingYet /\ Len(seen) = 1 /\ sinks[1].formatter.pattern \in OtherPatterns
          /\ \E s \in Sinks :
                \/ \E p \in OtherPatterns : SetPatternOf(s, p)
                \/ SetFormatter(s)
                \/ \E p \in OtherPatterns : AddFlagTo(s, "q", p)
                \/ \E level \in {2, 5} : SetColor(s, level, 9)
                \/ \E colours \in BOOLEAN : SetColorMode(s, colours)

Next == Tick \/ Log \/ Change

Spec == Init /\ [][Next]_vars
------------------------------------------------------------------------------
TypeOK == /\ now \in Times /\ DOMAIN sinks = Sinks /\ DOMAIN screens = Sinks
          /\ \A s \in Sinks : sinks[s].palette \in [0..6 -> 0..9] /\ sinks[s].colours \in BOOLEAN
          /\ seen \in Seq(Times) /\ Len(seen) <= MaxMessages

\* A text in a space of some width.
Placed(text, width, side, truncate) ==
    LET before == CASE side = "left" -> width - Len(text)
                    [] side = "right" -> 0
                    [] side = "center" -> (width - Len(text)) \div 2
    IN IF Len(text) > width THEN (IF truncate THEN SubSeq(text, 1, width) ELSE text)
       ELSE [i \in 1..width |-> IF i > before /\ i <= before + Len(text) THEN text[i - before]
                                ELSE [c |-> " ", t |-> 0]]

Wanted(f, msg) ==
    CASE f.kind \in {"^", "$"} \/ (f.kind \in SourceFlags /\ ~msg.source) -> <<>>
      [] f.kind = "+" -> FullBefore(msg, msg.time)
                           \o Chars("l", LevelLength[msg.level + 1], msg.level) \o FullAfter(msg)
      [] OTHER -> LET text == FieldOf(f, msg, msg.time).text
                  IN IF f.pad.enabled
                     THEN Placed(text, f.pad.width, f.pad.side, f.pad.truncate) ELSE text

\* The formatters whose field is not of a constant size.
Steady(f) == f.kind \notin {"z", "O"} /\ ~(f.kind \in {"c", "D"} /\ f.pad.enabled)

(***************************************************************************)
(* A line is its fields in the order of the pattern, each in its place of  *)
(* the asked width, cut only where '!' asks for it, and its dates are      *)
(* those of the message, however late it comes.  (Not for a padded %c or %D,     *)
(* whose formatters tell the padder another size than they write.)         *)
(***************************************************************************)
LinesFollowThePattern ==
    last # NothingYet =>
        \A s \in Sinks : LET fs == sinks[s].formatter.formatters
                         IN (\A i \in DOMAIN fs : Steady(fs[i])) =>
                               /\ ~last.lines[s].thrown
                               /\ last.lines[s].dest =
                                    FlattenSeq([i \in DOMAIN fs |-> Wanted(fs[i], last.msg)])

(***************************************************************************)
(* The offset %z shows was in force less than Refresh before the message,  *)
(* or later, when the message is late (the ten seconds of                  *)
(* pattern_formatter-inl.h:633).                                           *)
(***************************************************************************)
ZoneIsRecent ==
    last # NothingYet =>
        \A s \in Sinks : \A i \in DOMAIN last.lines[s].dest :
            LET ch == last.lines[s].dest[i]
            IN ch.c = "z" /\ ch.t # -1 =>
                 \E j \in DOMAIN seen : /\ last.msg.time - seen[j] < Refresh
                                        /\ ch.t = OffsetAt(seen[j])

(***************************************************************************)
(* A console shows the line of its own formatter, and colours the range of *)
(* its own pattern: not the one that the sink before has left.             *)
(***************************************************************************)
ColoursAreOwn ==
    last # NothingYet =>
        \A s \in Sinks :
            LET line == last.lines[s]
                fs == sinks[s].formatter.formatters
                kinds == {fs[i].kind : i \in DOMAIN fs}
                start == IF kinds \cap {"^", "+"} = {} THEN 0 ELSE line.start
                end == IF kinds \cap {"$", "+"} = {} THEN 0 ELSE line.end
            IN ~line.thrown =>
                 /\ line.dest = [i \in DOMAIN screens[s] |->
                                   [c |-> screens[s][i].c, t |-> screens[s][i].t]]
                 /\ {i \in DOMAIN screens[s] : screens[s][i].colour # Plain}
                      = IF sinks[s].colours /\ (sinks[s].kind = "win" => sinks[s].console)
                        THEN (start + 1)..end ELSE {}
==============================================================================
