----------------------------- MODULE TileStore -----------------------------
(***************************************************************************)
(* What the write queue and the write connection of the database promise   *)
(* together: writes are taken from memory in batches, a batch becomes      *)
(* durable as a whole or not at all, and nothing is taken before there are *)
(* MinBatch writes or somebody asked for a commit.                         *)
(***************************************************************************)
EXTENDS Naturals, FiniteSets

CONSTANTS Items, MinBatch

VARIABLES pending, writing, stored, force

storeVars == <<pending, writing, stored, force>>

Init ==
  /\ pending = {} /\ writing = {} /\ stored = {}
  /\ force = FALSE

Put(w) ==
  /\ w \notin pending \cup writing \cup stored
  /\ pending' = pending \cup {w}
  /\ UNCHANGED <<writing, stored, force>>

RequestCommit ==
  /\ force' = TRUE
  /\ UNCHANGED <<pending, writing, stored>>

(* The request is met only by a batch that leaves nothing behind. *)
Take(batch) ==
  /\ writing = {}
  /\ Cardinality(pending) >= MinBatch \/ force
  /\ batch # {} \/ pending = {}
  /\ writing' = batch
  /\ pending' = pending \ batch
  /\ force' \in {force, FALSE}
  /\ force /\ ~force' => pending' = {}
  /\ UNCHANGED stored

Store ==
  /\ stored' = stored \cup writing
  /\ writing' = {}
  /\ UNCHANGED <<pending, force>>

Drop ==
  /\ writing' = {}
  /\ UNCHANGED <<pending, stored, force>>

Crash ==
  /\ pending' = {} /\ writing' = {}
  /\ force' = FALSE
  /\ UNCHANGED stored

Next ==
  \/ \E w \in Items : Put(w)
  \/ \E batch \in SUBSET pending : Take(batch)
  \/ RequestCommit \/ Store \/ Drop \/ Crash

Spec == Init /\ [][Next]_storeVars
=============================================================================
