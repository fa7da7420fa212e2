---------------------------- MODULE WriteQueue ----------------------------
(***************************************************************************)
(* The write queue (ts_write_queue.c): render threads push rendered tiles  *)
(* and request commits, one write thread moves them to the database in     *)
(* batches.  A push or a commit request changes the queue under the lock   *)
(* and posts the semaphore after the unlock, in a step of its own; the     *)
(* thread is "post" in between.  The write thread waits, decides under the *)
(* lock what to take, and runs image_db_insert_batch statement by          *)
(* statement; it keeps the lock meanwhile only if the queue was full.      *)
(***************************************************************************)
EXTENDS ImageDb, Sequences

CONSTANTS
  Threads,           (* the threads that push and request commits *)
  InsertThreshold,   (* insert_threshold, 64 *)
  FullThreshold,     (* full_threshold, 1024 *)
  MaxCommits,        (* bound: calls of ts_write_queue_commit *)
  MaxCrashes         (* bound: deaths of the process *)

ASSUME QueueAssumption ==
  /\ InsertThreshold \in Nat \ {0}
  /\ FullThreshold \in Nat /\ FullThreshold >= InsertThreshold
  /\ IsFiniteSet(Threads)
  /\ MaxCommits \in Nat /\ MaxCrashes \in Nat

VARIABLES
  write_queue, force_commit, sema,
  lock,       (* "held": the write thread keeps q->lock across an insert *)
  inserts,    (* the batch taken from the queue *)
  writer,     (* where the write thread is in commit_pending *)
  row,        (* the row of inserts being inserted *)
  poster,     (* per thread: "idle", or "post" when it owes a sem_post *)
  unpushed,   (* writes no thread has pushed yet *)
  commits, crashes

queueVars  == <<write_queue, force_commit, sema, lock>>
writerVars == <<inserts, writer, row>>
callVars   == <<poster, unpushed, commits, crashes>>
vars == <<queueVars, writerVars, callVars, dbVars>>

Elems(s) == {s[i] : i \in DOMAIN s}

TypeOK ==
  /\ DbTypeOK
  /\ write_queue \in Seq(Writes)
  /\ force_commit \in BOOLEAN
  /\ sema \in Nat
  /\ lock \in {"free", "held"}
  /\ inserts \in Seq(Writes)
  /\ writer \in {"wait", "decide", "begin", "image", "position", "clear"}
  /\ row \in Nat
  /\ poster \in [Threads -> {"idle", "post"}]
  /\ unpushed \in SUBSET Writes
  /\ commits \in 0..MaxCommits
  /\ crashes \in 0..MaxCrashes

Init ==
  /\ write_queue = <<>> /\ force_commit = FALSE
  /\ sema = 0 /\ lock = "free"
  /\ inserts = <<>> /\ writer = "wait" /\ row = 1
  /\ poster = [p \in Threads |-> "idle"]
  /\ unpushed = Writes
  /\ commits = 0 /\ crashes = 0
  /\ DbInit

-----------------------------------------------------------------------------
(* The callers: ts_write_queue_push, ts_write_queue_commit. *)

Push(p, w) ==
  /\ poster[p] = "idle" /\ lock = "free"
  /\ w \in unpushed
  /\ write_queue' = Append(write_queue, w)
  /\ unpushed' = unpushed \ {w}
  /\ poster' = [poster EXCEPT ![p] = "post"]
  /\ UNCHANGED <<force_commit, sema, lock, writerVars, commits, crashes, dbVars>>

(* Mutant: the request is not followed by a sem_post. *)
RequestCommit_NoPost(p) ==
  /\ poster[p] = "idle" /\ lock = "free"
  /\ commits < MaxCommits
  /\ commits' = commits + 1
  /\ force_commit' = TRUE
  /\ UNCHANGED <<write_queue, sema, lock, writerVars, poster, unpushed, crashes, dbVars>>

RequestCommit(p) ==
  /\ poster[p] = "idle" /\ lock = "free"
  /\ commits < MaxCommits
  /\ commits' = commits + 1
  /\ force_commit' = TRUE
  /\ poster' = [poster EXCEPT ![p] = "post"]
  /\ UNCHANGED <<write_queue, sema, lock, writerVars, unpushed, crashes, dbVars>>

Post(p) ==
  /\ poster[p] = "post"
  /\ sema' = sema + 1
  /\ poster' = [poster EXCEPT ![p] = "idle"]
  /\ UNCHANGED <<write_queue, force_commit, lock, writerVars,
                 unpushed, commits, crashes, dbVars>>

-----------------------------------------------------------------------------
(* The write thread: commit_pending. *)

(* Mutant: the result of sem_wait is not waited for. *)
Wait_NoBlock ==
  /\ writer = "wait"
  /\ sema' = sema - 1
  /\ writer' = "decide"
  /\ UNCHANGED <<write_queue, force_commit, lock, inserts, row, callVars, dbVars>>

Wait ==
  /\ writer = "wait" /\ sema > 0
  /\ sema' = sema - 1
  /\ writer' = "decide"
  /\ UNCHANGED <<write_queue, force_commit, lock, inserts, row, callVars, dbVars>>

(* populate_pending_inserts: the num oldest writes move to the batch. *)
Populate(num) ==
  /\ inserts' = inserts \o SubSeq(write_queue, 1, num)
  /\ write_queue' = SubSeq(write_queue, num + 1, Len(write_queue))
  /\ row' = 1
  /\ writer' = "begin"

(* Mutant: a full drain takes everything that is queued. *)
DrainFull_TakesAll ==
  /\ writer = "decide"
  /\ Len(write_queue) >= FullThreshold
  /\ Populate(Len(write_queue))
  /\ lock' = "held"
  /\ UNCHANGED <<force_commit, sema, callVars, dbVars>>

(* Mutant: a full drain counts as the requested commit. *)
DrainFull_ClearsForce ==
  /\ writer = "decide"
  /\ Len(write_queue) >= FullThreshold
  /\ Populate(FullThreshold)
  /\ lock' = "held" /\ force_commit' = FALSE
  /\ UNCHANGED <<sema, callVars, dbVars>>

(* A full queue: the lock stays held across the insert, and the request to *)
(* commit is left standing.                                                *)
DrainFull ==
  /\ writer = "decide"
  /\ Len(write_queue) >= FullThreshold
  /\ Populate(FullThreshold)
  /\ lock' = "held"
  /\ UNCHANGED <<force_commit, sema, callVars, dbVars>>

DrainAll ==
  /\ writer = "decide"
  /\ Len(write_queue) < FullThreshold
  /\ Len(write_queue) >= InsertThreshold \/ force_commit
  /\ Populate(Len(write_queue))
  /\ force_commit' = FALSE
  /\ UNCHANGED <<sema, lock, callVars, dbVars>>

TooFew ==
  /\ writer = "decide"
  /\ Len(write_queue) < InsertThreshold /\ ~force_commit
  /\ writer' = "wait"
  /\ UNCHANGED <<queueVars, inserts, row, callVars, dbVars>>

(* Mutant: a refused BEGIN is tried again. *)
Begin_Retry ==
  /\ writer = "begin"
  /\ \/ BeginOk /\ writer' = "image"
     \/ BeginRefused /\ UNCHANGED writer
  /\ UNCHANGED <<queueVars, inserts, row, callVars>>

(* image_db_insert_batch, one statement a step. *)
Begin ==
  /\ writer = "begin"
  /\ \/ BeginOk /\ writer' = "image"
     \/ BeginRefused /\ writer' = "clear"
  /\ UNCHANGED <<queueVars, inserts, row, callVars>>

(* Mutant: the image statement keeps the values of the first row. *)
StepImage_StaleBinding ==
  /\ writer = "image" /\ row <= Len(inserts)
  /\ InsertImage(inserts[1]) \/ StepFails
  /\ writer' = "position"
  /\ UNCHANGED <<queueVars, inserts, row, callVars>>

StepImage ==
  /\ writer = "image" /\ row <= Len(inserts)
  /\ InsertImage(inserts[row]) \/ StepFails
  /\ writer' = "position"
  /\ UNCHANGED <<queueVars, inserts, row, callVars>>

StepPosition ==
  /\ writer = "position"
  /\ InsertPosition(inserts[row]) \/ StepFails
  /\ writer' = "image"
  /\ row' = row + 1
  /\ UNCHANGED <<queueVars, inserts, callVars>>

CommitBatch ==
  /\ writer = "image" /\ row > Len(inserts)
  /\ Commit(Len(inserts))
  /\ writer' = "clear"
  /\ UNCHANGED <<queueVars, inserts, row, callVars>>

(* The unlock of the full branch, then clear_pending_inserts. *)
Clear ==
  /\ writer = "clear"
  /\ lock' = "free"
  /\ inserts' = <<>>
  /\ writer' = "wait"
  /\ UNCHANGED <<write_queue, force_commit, sema, row, callVars, dbVars>>

-----------------------------------------------------------------------------
(* The process dies and is started again: what was in memory is gone.      *)
Crash ==
  /\ crashes < MaxCrashes
  /\ crashes' = crashes + 1
  /\ write_queue' = <<>> /\ force_commit' = FALSE
  /\ sema' = 0 /\ lock' = "free"
  /\ inserts' = <<>> /\ writer' = "wait" /\ row' = 1
  /\ poster' = [p \in Threads |-> "idle"]
  /\ UNCHANGED <<unpushed, commits>>
  /\ DbCrash

Writer ==
  \/ Wait \/ DrainFull \/ DrainAll \/ TooFew
  \/ Begin \/ StepImage \/ StepPosition \/ CommitBatch \/ Clear

Next ==
  \/ \E p \in Threads : \/ \E w \in Writes : Push(p, w)
                        \/ RequestCommit(p)
                        \/ Post(p)
  \/ Writer
  \/ Crash

Spec == Init /\ [][Next]_vars

(* The write thread loops forever and a thread that changed the queue has  *)
(* nothing between it and its sem_post; nobody is obliged to push, to ask  *)
(* for a commit, or to crash.                                              *)
FairSpec == Spec /\ WF_vars(Writer) /\ \A p \in Threads : WF_vars(Post(p))

-----------------------------------------------------------------------------
(* Wake-ups on their way to a decision of the write thread: posted, owed   *)
(* by a thread between its unlock and its sem_post, or in the hand of the  *)
(* write thread, which has not looked at the queue yet.                    *)
Posting == {p \in Threads : poster[p] = "post"}
Wakeups == sema + Cardinality(Posting) + (IF writer = "decide" THEN 1 ELSE 0)

(* A write thread that waits while it has work, a batch or a requested     *)
(* commit, is going to be woken: neither the check-then-wait of            *)
(* commit_pending nor a full drain that leaves the request standing loses  *)
(* the last wake-up.                                                       *)
NoLostWakeup ==
  writer = "wait" /\ (Len(write_queue) >= InsertThreshold \/ force_commit)
    => sema > 0 \/ Posting # {}

(* NoLostWakeup made inductive: every write beyond those the thread may    *)
(* leave behind has a wake-up of its own, and so has the request.          *)
WakeupInv ==
  /\ Len(write_queue) < Wakeups + InsertThreshold
  /\ force_commit => /\ Wakeups >= 1
                     /\ Len(write_queue) + 1 < Wakeups + InsertThreshold

(* q->inserts holds FullThreshold records: whatever the queue has grown to *)
(* since the wake-up, populate_pending_inserts stays inside the array, and *)
(* it starts from an empty one.                                            *)
InsertsInBounds ==
  /\ Len(inserts) <= FullThreshold
  /\ writer \in {"wait", "decide"} => inserts = <<>>

(* The write thread comes back to the queue with no transaction open, so   *)
(* the next BEGIN is not refused and the next batch is not dropped.        *)
NoTxBetweenBatches == writer \in {"wait", "decide", "begin"} => ~tx.open

(* A write in the queue when a commit is requested reaches the database,   *)
(* even if fewer than InsertThreshold writes are there, through full       *)
(* drains and overtaking pushes, unless SQLite fails or the process dies.  *)
CommitReachesDisk ==
  \A w \in Writes :
    (w \in Elems(write_queue) /\ force_commit)
      ~> (w \in tile \/ faults + crashes > 0)

(* A failing database delays render threads at most for a batch: a write   *)
(* leaves the queue after a commit is requested whatever SQLite answers.   *)
QueueDrains ==
  \A w \in Writes :
    (w \in Elems(write_queue) /\ force_commit) ~> (w \notin Elems(write_queue))

(* The queue and the database implement the store of TileStore.tla: a      *)
(* batch is in the database as a whole or not at all, statement by         *)
(* statement execution, failed COMMITs and crashes included.               *)
Store == INSTANCE TileStore WITH
  Items    <- Writes,
  MinBatch <- InsertThreshold,
  pending  <- Elems(write_queue),
  writing  <- IF writer = "clear" THEN {} ELSE Elems(inserts),
  stored   <- tile,
  force    <- force_commit
ImplementsStore == Store!Spec
=============================================================================
