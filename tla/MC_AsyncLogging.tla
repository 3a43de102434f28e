---------------------------- MODULE MC_AsyncLogging ----------------------------
(* AsyncLogging with two producers, a queue of one or two places, one or   *)
(* two workers, and two sinks, of which the first may throw and the second *)
(* does not want debug messages. One message has the level off, which      *)
(* every sink takes and no flush follows.                                  *)
EXTENDS AsyncLogging

CONSTANTS w1, w2, p1, p2

MC_Sinks == <<"file", "console">>
MC_SinkLevel == <<1, 2>>

Put(level, policy) == [kind |-> "log", level |-> level, policy |-> policy]
FlushPut(policy) == [kind |-> "flush", level |-> 0, policy |-> policy]

By(a, b) == [p \in Producers |-> IF p = p1 THEN a ELSE b]

MC_Setups ==
    {[threads |-> {w1},
      program |-> By(<<Put(off, "block"), Put(3, "block")>>, <<Put(1, "block"), FlushPut("block")>>)],
     [threads |-> {w1},
      program |-> By(<<Put(2, "block")>>,
                     <<Put(2, "overrun_oldest"), Put(3, "overrun_oldest")>>)],
     [threads |-> {w1, w2},
      program |-> By(<<Put(2, "block")>>, <<Put(3, "overrun_oldest")>>)]}
==============================================================================
