----------------------------- MODULE MC_Libraries -----------------------------
(***************************************************************************)
(* The repository's sequential libraries, one in each behaviour: `which`   *)
(* is chosen once and the variables of the others stay 0.                  *)
(***************************************************************************)
EXTENDS MC_Darts

CONSTANT t1, t2, t3   \* threads

VARIABLES which,
          sd_isBuild, sd_members, sd_words, sd_count, sd_array, sd_file, sd_inits,
          uc_cc, uc_want,
          us_str,
          ini_file, ini_reader, ini_readers, ini_m_reader, ini_units, ini_files,
          fmt_fmt, fmt_args,
          th_s, th_delimiter, th_pos_start, th_res, th_returned,
          sg_obj_instance, sg_made, sg_built, sg_owner, sg_pc, sg_calls, sg_got

sd_vars == <<sd_isBuild, sd_members, sd_words, sd_count, sd_array, sd_file, sd_inits>>
uc_vars == <<uc_cc, uc_want>>
ini_vars == <<ini_file, ini_reader, ini_readers, ini_m_reader, ini_units, ini_files>>
fmt_vars == <<fmt_fmt, fmt_args>>
th_vars == <<th_s, th_delimiter, th_pos_start, th_res, th_returned>>
sg_vars == <<sg_obj_instance, sg_made, sg_built, sg_owner, sg_pc, sg_calls, sg_got>>
-----------------------------------------------------------------------------
(* StrDarts: four words over two letters, one the prefix of others.        *)
Words4 == {<<1>>, <<1, 2>>, <<2>>, <<1, 2, 1>>}
WordLists == {<< <<2>>, <<1>> >>, << <<1, 2, 1>>, <<1>>, <<1, 2>> >>}
TokenTexts == {<< <<1>>, <<2>>, <<1>> >>, << <<1, 2>>, <<1, 2>> >>, << <<2, 2>>, <<1, 2, 1>> >>}

Str == INSTANCE StrDarts
       WITH Vocabulary <- Words4, Lists <- WordLists, Texts <- TokenTexts, MaxWords <- 3,
            StartSize <- 3, isBuild <- sd_isBuild, members <- sd_members, words <- sd_words,
            count <- sd_count, array <- sd_array, file <- sd_file, inits <- sd_inits

(* UnicodeChar: the codes around every boundary, and texts that are none.  *)
CodePoints == {-1, 0, 1, 65, 127, 128, 255, 2047, 2048, 65535, 65536, 1114111, 1114112}
NoTexts == {<<>>, <<195>>, <<195, 65>>, <<226, 130>>, <<65, 66>>, <<248, 128, 128, 128>>,
            <<195, 169, 65>>}
Char == INSTANCE UnicodeChar WITH Codes <- CodePoints, Texts <- NoTexts, Steps <- {1, -1, 32},
                                  cc <- uc_cc, want <- uc_want

(* UnicodeString: up to three characters of one, two and three bytes.      *)
Arguments == {<<>>, <<"a">>, <<"z">>, <<" ">>, <<"_", "e">>, <<"X">>, <<"a", "a">>}
String == INSTANCE UnicodeString
          WITH Pad <- 4, Letters <- {"a", " ", "_", "e", "z", "X"}, MaxLen <- 3,
               Words <- Arguments, str <- us_str

(* IniConfig: two files of a few lines, good and bad ones.                 *)
FileLines == {<<>>, <<";", "v">>, <<"[", "s", "]">>, <<"[", "t", "]", " ">>, <<"[", "s">>,
              <<"n", "=", "v">>, <<"N", " ", ":", " ", "v", " ", ";", "=">>, <<"n", "=">>,
              <<" ", "n", "=", "v", " ">>, <<"n", "n", "n", "n", "=", "v">>, <<"B", "n", "=">>, <<"v">>,
              <<"=", "v">>}
Ini == INSTANCE IniConfig
       WITH Lines <- FileLines, MaxLines <- 3, MaxFiles <- 2, MAX_NAME <- 4, MAX_SECTION <- 4,
            file <- ini_file, reader <- ini_reader, readers <- ini_readers,
            m_reader <- ini_m_reader, units <- ini_units, files <- ini_files

(* FmtFormat: strings of up to four pieces of the format's syntax.         *)
FormatPieces == {<<"{">>, <<"}">>, <<"{", ":">>, <<"{", "0", ":">>, <<"*", "<">>, <<"^">>,
                 <<"+">>, <<"#">>, <<"0">>, <<"5">>, <<".">>, <<"x">>, <<"{", "}">>, <<"c">>}
Letter == [type |-> "char", v |-> "A"]
Signed(n) == [type |-> "int", v |-> n]
Unsigned(n) == [type |-> "unsigned", v |-> n]
Text(t) == [type |-> "string", v |-> t]
Bool(b) == [type |-> "bool", v |-> b]
SomeArgs == {<<Signed(-12), Unsigned(4), Text(<<"a", "b">>)>>,
             <<Text(<<"a", "b", "c">>), Signed(-1), Letter>>,
             <<Bool(TRUE), Signed(4), Letter>>}
Fmt == INSTANCE FmtFormat
       WITH Pieces <- FormatPieces, MaxPieces <- 4, ArgLists <- SomeArgs,
            Names <- (<<"x">> :> 2), MaxInt <- 57, fmt <- fmt_fmt, args <- fmt_args

(* TextHelpers: all texts of a few characters, narrow, wide and others.    *)
HelperTexts == BoundedSeq({32, 35, 65, 126, 11, 12288, 65374, 65375}, 4)
               \cup BoundedSeq({32, 65}, 6)
Helpers == INSTANCE TextHelpers
           WITH Texts <- HelperTexts, Delimiters <- {<<32>>, <<65>>, <<65, 65>>, <<65, 32>>},
                s <- th_s, delimiter <- th_delimiter, pos_start <- th_pos_start,
                res <- th_res, returned <- th_returned

(* Singleton: three threads, two calls each.                               *)
Single == INSTANCE Singleton
          WITH Threads <- {t1, t2, t3}, MaxCalls <- 2, obj_instance <- sg_obj_instance,
               made <- sg_made, built <- sg_built, owner <- sg_owner, pc <- sg_pc,
               calls <- sg_calls, got <- sg_got
-----------------------------------------------------------------------------
NoDarts == /\ base = 0 /\ check = 0 /\ used = 0 /\ alloc = 0 /\ size = 0 /\ error = 0
           /\ progress = 0 /\ next = 0 /\ stack = 0 /\ job = 0 /\ phase = 0 /\ file = 0
          /\ refused = 0
NoStr == /\ sd_isBuild = 0 /\ sd_members = 0 /\ sd_words = 0 /\ sd_count = 0 /\ sd_array = 0
         /\ sd_file = 0 /\ sd_inits = 0
NoChar == uc_cc = 0 /\ uc_want = 0
NoString == us_str = 0
NoIni == /\ ini_file = 0 /\ ini_reader = 0 /\ ini_readers = 0 /\ ini_m_reader = 0
         /\ ini_units = 0 /\ ini_files = 0
NoFmt == fmt_fmt = 0 /\ fmt_args = 0
NoHelpers == th_s = 0 /\ th_delimiter = 0 /\ th_pos_start = 0 /\ th_res = 0 /\ th_returned = 0
NoSingle == /\ sg_obj_instance = 0 /\ sg_made = 0 /\ sg_built = 0 /\ sg_owner = 0
            /\ sg_pc = 0 /\ sg_calls = 0 /\ sg_got = 0

Components == {"darts", "str", "char", "string", "ini", "fmt", "helpers", "single"}

LibrariesInit ==
    /\ which \in Components
    /\ IF which = "darts" THEN Init ELSE NoDarts
    /\ IF which = "str" THEN Str!Init ELSE NoStr
    /\ IF which = "char" THEN Char!Init ELSE NoChar
    /\ IF which = "string" THEN String!Init ELSE NoString
    /\ IF which = "ini" THEN Ini!Init ELSE NoIni
    /\ IF which = "fmt" THEN Fmt!Init ELSE NoFmt
    /\ IF which = "helpers" THEN Helpers!Init ELSE NoHelpers
    /\ IF which = "single" THEN Single!Init ELSE NoSingle

LibrariesNext ==
    /\ UNCHANGED which
    /\ IF which = "darts" THEN Next ELSE UNCHANGED vars
    /\ IF which = "str" THEN Str!Next ELSE UNCHANGED sd_vars
    /\ IF which = "char" THEN Char!Next ELSE UNCHANGED uc_vars
    /\ IF which = "string" THEN String!Next ELSE UNCHANGED us_str
    /\ IF which = "ini" THEN Ini!Next ELSE UNCHANGED ini_vars
    /\ IF which = "fmt" THEN Fmt!Next ELSE UNCHANGED fmt_vars
    /\ IF which = "helpers" THEN Helpers!Next ELSE UNCHANGED th_vars
    /\ IF which = "single" THEN Single!Next ELSE UNCHANGED sg_vars

LibrariesSpec == LibrariesInit /\ [][LibrariesNext]_<<which, vars, sd_vars, uc_vars, us_str,
                                                     ini_vars, fmt_vars, th_vars, sg_vars>>
                 /\ WF_vars(which = "darts" /\ Insert /\ UNCHANGED which)
-----------------------------------------------------------------------------
(***************************************************************************)
(* Whatever lists are built, one after the other: a list is refused        *)
(* exactly if its keys are out of order, or a value is too large, or one   *)
(* before it was refused (error_ outlives clear(), darts.h:259); otherwise *)
(* every search answers what the list says (darts.h:98-222, 283-394).      *)
(* Lists that repeat a key, which Trie.org:15 does not want, are built and *)
(* answer for the first of equal keys.                                     *)
(***************************************************************************)
DartsIsADictionary == which = "darts" => TypeOK /\ OnlyOrderedKeysBuild /\ SearchesAnswer

(***************************************************************************)
(* Neither a build nor any search after it reaches behind the arrays       *)
(* (darts.h:163-168, 312).                                                 *)
(***************************************************************************)
DartsStaysInside == which = "darts" => InBounds

(***************************************************************************)
(* build() returns: the search for a place for a family ends, however      *)
(* crowded the array is (darts.h:147-178). The only fairness is that the   *)
(* builder goes on.                                                        *)
(***************************************************************************)
BuildReturns ==
    (which = "darts" /\ phase = "building") ~> (which = "darts" /\ phase \in {"built", "core"})

(***************************************************************************)
(* The string dictionary gives its array what it can be built from, and    *)
(* its searches name the words that are in it (str_darts.h:31-240).        *)
(***************************************************************************)
WordsAreFound == which = "str" => Str!TypeOK /\ Str!ArrayAccepts /\ Str!SearchesNameWords

(***************************************************************************)
(* A UnicodeChar is the shortest encoding of the code it was set to        *)
(* (unicode_char.cpp:21-96), and tells that code.                          *)
(***************************************************************************)
CharIsItsCode == which = "char" => Char!TypeOK /\ Char!CharIsItsCode

(***************************************************************************)
(* A UnicodeString holds its text in a buffer that is long enough, with a  *)
(* cursor and a length that belong to this text, and every call answers    *)
(* what the text says (unicode_string.cpp).                                *)
(***************************************************************************)
StringIsItsText == which = "string" => String!TypeOK /\ String!BufferHolds /\ String!AnswersAreRight

(***************************************************************************)
(* The configuration answers with the values that the lines of the last    *)
(* good file give, in their order, under the name and the section they are *)
(* asked for (INIReader.h:178-271, config_reader.h:140-159).               *)
(***************************************************************************)
ConfigurationIsTheFile ==
    which = "ini" => Ini!TypeOK /\ Ini!ArraysAreTheLines /\ Ini!LatestFileAnswers

(***************************************************************************)
(* A line of a file adds at most one element, at the end, to one array     *)
(* (INIReader.h:513-523 joins what config_reader.h:110-129 splits).        *)
(***************************************************************************)
ArrayGrowsByLine == [][which = "ini" => Ini!GrowsByLine]_ini_vars

(***************************************************************************)
(* fmt's loops over a format string agree, and what they write has the     *)
(* width and the padding that was asked for (format.h:1388-1613,           *)
(* 2011-2685).                                                             *)
(***************************************************************************)
FormatsAgree == which = "fmt" => Fmt!TypeOK /\ Fmt!LoopsAgree /\ Fmt!FieldsAreWide

(***************************************************************************)
(* Splitting is undone by joining, widths go there and back, and a comment *)
(* is removed at once (base_utils.cpp, base_utils.h:50-83).                *)
(***************************************************************************)
HelpersAgree == which = "helpers" => Helpers!HelpersAgree

(***************************************************************************)
(* Singleton::instance() makes one object for all (singleton.h:9-20).      *)
(***************************************************************************)
OneObject == which = "single" => Single!TypeOK /\ Single!OneObject
=============================================================================
