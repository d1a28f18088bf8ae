----------------------------- MODULE MCExecutor -----------------------------
(* Instances of Executor for TLC. *)
EXTENDS Executor

CONSTANTS t1, t2, t3, s1, s2

\* t1 and t2 share a session; t3 has its own and the lane of t2.
Sessions == [t \in Task |-> IF t = t3 THEN s2 ELSE s1]
Classes == [t \in Task |-> IF t = t1 THEN "foreground" ELSE "background"]
=============================================================================
