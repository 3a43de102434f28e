------------------------------- MODULE LogLevels -------------------------------
(***************************************************************************)
(* The levels of spdlog and what SPDLOG_LEVEL, in the environment or on    *)
(* the command line, says of them (common-inl.h, cfg/helpers-inl.h). The   *)
(* text is taken apart at its commas: a token is <<>> when it is empty,    *)
(* <<v>> without a "=" and <<k, v>> with one, each part trimmed.           *)
(***************************************************************************)
EXTENDS Integers, Sequences

trace == 0
debug == 1
info == 2
warn == 3
err == 4
critical == 5
off == 6

level_string_views == <<"trace", "debug", "info", "warning", "error", "critical", "off">>

\* What no level name stands for is read as off.
from_str(name) ==
    IF \E i \in DOMAIN level_string_views : level_string_views[i] = name
    THEN CHOOSE l \in trace..off : level_string_views[l + 1] = name
    ELSE CASE name = "warn" -> warn [] name = "err" -> err [] OTHER -> off

\* Upper case occurs in these words.
to_lower_(word) == CASE word = "DEBUG" -> "debug" [] word = "Off" -> "off" [] OTHER -> word

\* No key: the empty one, which stands for all loggers.
extract_kv_(token) == IF Len(token) = 1 THEN <<"", token[1]>> ELSE token

\* Of two pairs with one key the later stays; unordered_map.
extract_key_vals_(tokens) ==
    LET pairs == {i \in DOMAIN tokens : tokens[i] # <<>>}
        key(i) == extract_kv_(tokens[i])[1]
        final == {i \in pairs : \A j \in pairs : j > i => key(j) # key(i)}
    IN [k \in {key(i) : i \in final} |->
          extract_kv_(tokens[CHOOSE i \in final : key(i) = k])[2]]

Recognized(value) == from_str(to_lower_(value)) # off \/ to_lower_(value) = "off"

(***************************************************************************)
(* load_levels hands on the levels by name, and the global one if there    *)
(* is any; values that are no level are ignored.                           *)
(***************************************************************************)
Levels(tokens) ==
    LET pairs == extract_key_vals_(tokens)
    IN [k \in {n \in DOMAIN pairs : n # "" /\ Recognized(pairs[n])} |->
          from_str(to_lower_(pairs[k]))]

NoLevel == -1

GlobalLevel(tokens) ==
    LET pairs == extract_key_vals_(tokens)
    IN IF "" \in DOMAIN pairs /\ Recognized(pairs[""]) THEN from_str(to_lower_(pairs[""]))
                                                      ELSE NoLevel
==============================================================================
