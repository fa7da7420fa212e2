------------------------------ MODULE TaskBag ------------------------------
(***************************************************************************)
(* What the task pool promises: a task that was handed in is run once, by  *)
(* one of a fixed number of workers, and every task handed in is run.      *)
(***************************************************************************)
EXTENDS Naturals, FiniteSets

CONSTANTS Tasks, NumWorkers

VARIABLES pending, running, done

bagVars == <<pending, running, done>>

Init == pending = {} /\ running = {} /\ done = {}

Submit(t) ==
  /\ t \notin pending \cup running \cup done
  /\ pending' = pending \cup {t}
  /\ UNCHANGED <<running, done>>

Start(t) ==
  /\ t \in pending
  /\ Cardinality(running) < NumWorkers
  /\ pending' = pending \ {t}
  /\ running' = running \cup {t}
  /\ UNCHANGED done

Finish(t) ==
  /\ t \in running
  /\ running' = running \ {t}
  /\ done' = done \cup {t}
  /\ UNCHANGED pending

Next == \E t \in Tasks : Submit(t) \/ Start(t) \/ Finish(t)

Fairness ==
  /\ WF_bagVars(\E t \in Tasks : Start(t))
  /\ \A t \in Tasks : WF_bagVars(Finish(t))

Spec == Init /\ [][Next]_bagVars /\ Fairness
=============================================================================
