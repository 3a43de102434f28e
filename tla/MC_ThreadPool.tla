---------------------------- MODULE MC_ThreadPool ----------------------------
(* ThreadPool with two workers, one client and three tasks, one of which   *)
(* is submitted by another.                                                *)
EXTENDS ThreadPool

CONSTANTS a, b, c

MC_Parent == [t \in Tasks |-> IF t = c THEN a ELSE NoTask]
==============================================================================
