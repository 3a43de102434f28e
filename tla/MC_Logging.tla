------------------------------ MODULE MC_Logging ------------------------------
(***************************************************************************)
(* Each of the synchronous parts of spdlog on a small instance; the other  *)
(* constants are in the configuration.                                     *)
(***************************************************************************)
EXTENDS Logging

CONSTANTS l0, l1, l2,     \* loggers
          pay1, pay2     \* payloads

(* Registry: two loggers of one name beside the default one.               *)
LoggerNames == [l \in {l0, l1, l2} |-> IF l = l0 THEN "" ELSE "a"]
EnvTexts == {<< <<"a", "DEBUG">>, <<>>, <<"Off">> >>, << <<"a", "wrong">>, <<"a", "warn">> >>}

(* ConsoleSinks: every flag, padding and short pattern, around midnight.   *)
Sides == {<<>>, <<"-">>, <<"=">>}
Widths == {<<>>, <<"0">>, <<"4">>, <<"9">>, <<"9", "9">>}
Flags == {"v", "L", "D", "c", "z", "O", "s", "+", "^", "$", "q", "%"}
Specs == {<<"%">> \o side \o width \o mark \o <<flag>> :
             side \in Sides, width \in Widths, mark \in {<<>>, <<"!">>}, flag \in Flags}
Plainly == {<<"%", f>> : f \in {"n", "l", "t", "a", "A", "b", "B", "C", "Y", "m", "d", "H", "I",
                                "M", "S", "e", "f", "F", "E", "p", "r", "R", "T", "P", "@", "g",
                                "#", "!", "h", "x", "X"}}
Short == UNION {[1..n -> {"%", "-", "4", "!", "v", "$", "^", "a"}] : n \in 0..3}
Others == {<<"%", "z", "%", "T">>, <<"%", "^", "%", "q", "%", "$", "%", "2", "!">>, <<"%", "+">>}
Patterns == Short \cup {<<"a">> \o s : s \in Specs} \cup {s \o <<"%", "$">> : s \in Specs}
            \cup {<<"%", "^">> \o s \o <<"%", "$", "a">> : s \in Plainly} \cup Others
MessageKinds == {[name |-> 0, payload |-> 3, level |-> 2, source |-> FALSE],
                 [name |-> 2, payload |-> 5, level |-> 5, source |-> TRUE]}

Symmetry == Permutations({l1, l2}) \cup Permutations({pay1, pay2})
=============================================================================
