------------------------------- MODULE IniConfig -------------------------------
(***************************************************************************)
(* INIReader (base_utils/INIReader.h): a file is read line by line, each   *)
(* line against the section and the name before it, and Configure          *)
(* (base_utils/config_reader.h), which loads files one after the other and *)
(* answers by section.                                                     *)
(*                                                                         *)
(* Asking Configure for a section that no file had ends the process        *)
(* (config_reader.h:154-157, log_spd.h:51), so it is no step.              *)
(*                                                                         *)
(* A line is a sequence of characters without its end; "/" is the end of a *)
(* line inside a value, "B" the mark that may begin a file.                *)
(***************************************************************************)
EXTENDS Integers, Sequences, SequencesExt, FiniteSetsExt

CONSTANTS Lines,      \* the lines files are made of
          MaxLines,   \* bound: lines of the first file, the next may have one less
          MaxFiles,   \* bound: files loaded
          MAX_NAME,   \* sizes of the buffers of a name and of a section
          MAX_SECTION

VARIABLES file,       \* the lines of the file that have been read
          reader,     \* the INIReader of this file
          readers,    \* the readers load_conf has made that are not deleted
          m_reader,   \* which of them Configure uses, 0 for NULL
          units,      \* Configure::_units: sections, and the reader each asks
          files       \* how many files were opened
vars == <<file, reader, readers, m_reader, units, files>>

Nothing == [k \in {} |-> 0]
Upto(s, n) == SubSeq(s, 1, n)
From(s, n) == SubSeq(s, n + 1, Len(s))
Lower(s) == [i \in 1..Len(s) |-> IF s[i] = "N" THEN "n" ELSE IF s[i] = "S" THEN "s" ELSE s[i]]

------------------------------------------------------------------------------
(* ini_parse_stream.                                                       *)

lskip(s) == From(s, Min({i \in 0..Len(s) : i = Len(s) \/ s[i + 1] # " "}))
rstrip(s) == Upto(s, Max({0} \cup {i \in 1..Len(s) : s[i] # " "}))
strncpy0(s, size) == Upto(s, IF Len(s) < size THEN Len(s) ELSE size - 1)

\* How many characters are before the first of chars or a comment.
find_chars_or_comment(s, chars) ==
    Min({Len(s)} \cup {i \in 0..Len(s) - 1 :
                         s[i + 1] \in chars \/ (i > 0 /\ s[i] = " " /\ s[i + 1] = ";")})
Uncommented(s) == rstrip(Upto(s, find_chars_or_comment(s, {})))

MakeKey(section, name) == <<Lower(section), Lower(name)>>

\* ValueHandler. MUTANT: the end of line is put before every value.
HandledAlways(r, section, name, value) ==
    LET key == MakeKey(section, name)
        old == IF key \in DOMAIN r.values THEN r.values[key] ELSE <<>>
    IN [r EXCEPT !.values = [k \in DOMAIN @ \cup {key} |->
                               IF k = key THEN old \o <<"/">> \o value ELSE @[k]],
                 !.sections = @ \cup {section}]

ValueHandler(r, section, name, value) ==
    LET key == MakeKey(section, name)
        old == IF key \in DOMAIN r.values THEN r.values[key] ELSE <<>>
    IN [r EXCEPT !.values = [k \in DOMAIN @ \cup {key} |->
                               IF k # key THEN @[k]
                               ELSE IF old = <<>> THEN value ELSE old \o <<"/">> \o value],
                 !.sections = @ \cup {section}]

\* The first error is kept.
Failed(r) == [r EXCEPT !.error = IF @ = 0 THEN r.lineno ELSE @]

\* The mark is skipped in the first line.
Unmarked(line, lineno) == IF lineno = 1 /\ line # <<>> /\ line[1] = "B" THEN Tail(line) ELSE line

\* A "[section]" line. MUTANT: the name before it is kept.
SectionKeepsName(r, start) ==
    LET end == find_chars_or_comment(From(start, 1), {"]"})
    IN IF end < Len(start) - 1 /\ start[end + 2] = "]"
       THEN [r EXCEPT !.section = strncpy0(SubSeq(start, 2, end + 1), MAX_SECTION)]
       ELSE Failed(r)

SectionLine(r, start) ==
    LET end == find_chars_or_comment(From(start, 1), {"]"})
    IN IF end < Len(start) - 1 /\ start[end + 2] = "]"
       THEN [r EXCEPT !.section = strncpy0(SubSeq(start, 2, end + 1), MAX_SECTION), !.prev_name = <<>>]
       ELSE Failed(r)

\* A name[=:]value line. The name is cut only for the lines that continue it.
PairLine(r, start) ==
    LET end == find_chars_or_comment(start, {"=", ":"})
        name == rstrip(Upto(start, end))
    IN IF end < Len(start) /\ start[end + 1] \in {"=", ":"}
       THEN ValueHandler([r EXCEPT !.prev_name = strncpy0(name, MAX_NAME)],
                         r.section, name, Uncommented(lskip(From(start, end + 1))))
       ELSE Failed(r)

Empty == [section |-> <<>>, prev_name |-> <<>>, lineno |-> 0, error |-> 0,
          values |-> Nothing, sections |-> {}]

ParsedLine(r0, line) ==
    LET r == [r0 EXCEPT !.lineno = @ + 1]
        start == lskip(rstrip(Unmarked(line, r.lineno)))
        inside == Unmarked(line, r.lineno) # line \/ (line # <<>> /\ line[1] = " ")
    IN CASE start = <<>> \/ start[1] \in {";", "#"} -> r
         [] start # <<>> /\ start[1] \notin {";", "#"} /\ r.prev_name # <<>> /\ inside ->
               ValueHandler(r, r.section, r.prev_name, Uncommented(start))
         [] start # <<>> /\ start[1] = "[" /\ (r.prev_name = <<>> \/ ~inside) ->
               SectionLine(r, start)
         [] OTHER -> PairLine(r, start)

------------------------------------------------------------------------------
(* Questions.                                                              *)

\* Get: <<>> also stands for the default, the empty string.
Get(r, section, name) == LET key == MakeKey(section, name)
                         IN IF key \in DOMAIN r.values THEN r.values[key] ELSE <<>>

\* GetArray: the pieces between the ends of line.
RECURSIVE ArrayFrom(_)
ArrayFrom(s) == LET ends == {i \in 1..Len(s) : s[i] = "/"}
                IN IF ends = {} THEN <<s>>
                   ELSE <<Upto(s, Min(ends) - 1)>> \o ArrayFrom(From(s, Min(ends)))
GetArray(r, section, name) == LET s == Get(r, section, name)
                              IN IF s = <<>> THEN <<>> ELSE ArrayFrom(s)

------------------------------------------------------------------------------
(* Configure.                                                              *)

Init == /\ file = <<>> /\ reader = Empty /\ files = 0
        /\ readers = <<>> /\ m_reader = 0 /\ units = Nothing

ReadLine(line) ==
    /\ Len(file) < MaxLines - files /\ files < MaxFiles
    /\ file' = Append(file, line)
    /\ reader' = ParsedLine(reader, line)
    /\ UNCHANGED <<readers, m_reader, units, files>>

\* The units of the sections of the file; those of the files before stay.
UnitsOf(r) == [s \in DOMAIN units \cup r.sections |->
                 IF s \in r.sections THEN Len(readers) + 1 ELSE units[s]]

\* load_conf: a reader with an error is deleted and none is left.
load_conf ==
    /\ files < MaxFiles
    /\ files' = files + 1
    /\ IF reader.error # 0
       THEN m_reader' = 0 /\ UNCHANGED <<readers, units>>
       ELSE /\ readers' = Append(readers, reader)
            /\ m_reader' = Len(readers) + 1
            /\ units' = UnitsOf(reader)
    /\ file' = <<>> /\ reader' = Empty

\* The file cannot be opened.
OpenFails == /\ files < MaxFiles /\ file = <<>>
             /\ files' = files + 1 /\ m_reader' = 0
             /\ UNCHANGED <<file, reader, readers, units>>

Next == \/ \E line \in Lines : ReadLine(line)
        \/ load_conf \/ OpenFails

Spec == Init /\ [][Next]_vars
------------------------------------------------------------------------------
TypeOK == /\ file \in Seq(Lines) /\ reader.error \in 0..MaxLines
          /\ m_reader \in 0..Len(readers)
          /\ \A s \in DOMAIN units : units[s] \in 1..Len(readers)

(***************************************************************************)
(* What the lines of the file say, each by the others and not by what      *)
(* parsing has left in variables: Text is a line without its margins, and  *)
(* Visible what is before a comment.                                       *)
(***************************************************************************)
Text(j) == lskip(rstrip(Unmarked(file[j], j)))
Visible(s) == Upto(s, Min({Len(s)} \cup {i \in 1..Len(s) - 1 : s[i] = " " /\ s[i + 1] = ";"}))
Before(s, chars) == Upto(s, Min({i \in 1..Len(s) : s[i] \in chars}) - 1)
Behind(s, chars) == From(s, Min({i \in 1..Len(s) : s[i] \in chars}))

Says(j) == Text(j) # <<>> /\ Text(j)[1] \notin {";", "#"}
Indented(j) == Says(j) /\ (file[j][1] = " " \/ Unmarked(file[j], j) # file[j])
Heading(j) == Says(j) /\ Text(j)[1] = "[" /\ "]" \in ToSet(Visible(Tail(Text(j))))
Pair(j) == Says(j) /\ Text(j)[1] # "[" /\ {"=", ":"} \cap ToSet(Visible(Text(j))) # {}
PairName(j) == rstrip(Before(Text(j), {"=", ":"}))

\* An indented line continues the value of a pair above, unless a header or a pair
\* without a name stands between them.
Continues(j) ==
    Indented(j) /\ \E i \in 1..j - 1 :
        /\ Pair(i) /\ PairName(i) # <<>>
        /\ \A k \in i + 1..j - 1 : Heading(k) \/ (Pair(k) /\ PairName(k) = <<>>) => Indented(k)

Gives(j) == Pair(j) /\ ~Continues(j)
Giver(j) == Max({i \in 1..j : Gives(i)})

\* Of a line that gives a value or continues it.
SectionOf(j) == LET headers == {i \in 1..j - 1 : Heading(i) /\ ~Continues(i)}
                IN IF headers = {} THEN <<>>
                   ELSE strncpy0(Before(Tail(Text(Max(headers))), {"]"}), MAX_SECTION)
NameOf(j) == IF Gives(j) THEN PairName(j) ELSE strncpy0(PairName(Giver(j)), MAX_NAME)
ValueOf(j) == rstrip(Visible(IF Gives(j) THEN lskip(Behind(Text(j), {"=", ":"})) ELSE Text(j)))

Valued == {j \in 1..Len(file) : Gives(j) \/ Continues(j)}

(***************************************************************************)
(* The reader answers for the names that lines of the file give, each      *)
(* under the header above them, and the array of a name is the values of   *)
(* the lines that give it or continue it, in their order, however they are *)
(* spread over the file: no name, value or section is carried over a       *)
(* header.  (Of a name as long as the buffer, the lines that continue it   *)
(* go to its beginning; empty values before the first other one leave no   *)
(* element.)                                                               *)
(***************************************************************************)
ArraysAreTheLines ==
    LET key == [j \in Valued |-> MakeKey(SectionOf(j), NameOf(j))]
        value == [j \in DOMAIN key |-> ValueOf(j)]
        \* The lines of a key, from the first with a value that is not empty.
        lines(k) == SetToSortSeq({j \in DOMAIN key : key[j] = k /\
                       \E i \in DOMAIN key : i <= j /\ key[i] = k /\ value[i] # <<>>}, <)
    IN /\ DOMAIN reader.values = {key[j] : j \in DOMAIN key}
       /\ \A k \in DOMAIN reader.values :
             GetArray(reader, k[1], k[2]) = [i \in DOMAIN lines(k) |-> value[lines(k)[i]]]
       /\ reader.sections = {SectionOf(j) : j \in DOMAIN key}

(***************************************************************************)
(* A line adds at most one element, at the end, to the array of one name:  *)
(* the joining of values by ends of line and their splitting agree, for    *)
(* values that are empty too.                                              *)
(***************************************************************************)
GrowsByLine ==
       files' = files =>
          \A key \in DOMAIN reader'.values :
             LET old == GetArray(reader, key[1], key[2])
                 new == GetArray(reader', key[1], key[2])
             IN \/ new = old
                \/ /\ IsPrefix(old, new) /\ Len(new) = Len(old) + 1
                   /\ \A other \in DOMAIN reader.values \ {key} :
                         reader'.values[other] = reader.values[other]

ArrayGrowsByLine == [][GrowsByLine]_vars

(***************************************************************************)
(* Of a section that the last file has, Configure answers what the last    *)
(* file says, whatever was loaded before; if the file had errors           *)
(* or could not be read, the sections keep the answers they had, and no    *)
(* section that was loaded loses its reader.                               *)
(***************************************************************************)
LatestFileAnswers ==
    /\ m_reader # 0 => /\ m_reader = Len(readers)
                       /\ \A s \in readers[m_reader].sections : units[s] = m_reader
    /\ \A i \in 1..Len(readers) : \A s \in readers[i].sections :
          s \in DOMAIN units /\ units[s] >= i /\ s \in readers[units[s]].sections
==============================================================================
