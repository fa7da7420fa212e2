---------------------------- MODULE MCTaskPool ----------------------------
(* Instances of TaskPool for TLC: a wait_all of two HIGH tasks, a root post *)
(* of a LOW task that posts a MED and a LOW task while it executes.         *)
EXTENDS TaskPool

MCCallTasks == [k \in Calls |->
  CASE k = "waitall" -> <<"h1", "h2">> [] k = "setup" -> <<"l1">>
    [] k = "render"  -> <<"m1">>       [] k = "again" -> <<"l2">>]
MCPriority == [k \in Calls |->
  CASE k = "waitall" -> 0 [] k = "render" -> 1 [] OTHER -> 2]
MCIsWait   == [k \in Calls |-> k = "waitall"]
MCChildren == [t \in Tasks |-> IF t = "l1" THEN <<"render", "again">> ELSE <<>>]
=============================================================================
