-------------------------- MODULE WriteQueueProofs --------------------------
(***************************************************************************)
(* Theorems of WriteQueue for every set of threads and writes and for      *)
(* every pair of thresholds: types, the bounds of the batch array, that no *)
(* wake-up of the write thread is lost, and that the queue and the write   *)
(* connection implement the store of TileStore.  At the end, the theorems  *)
(* of RingQueue, the ring that holds the queue.                            *)
(***************************************************************************)
EXTENDS WriteQueue, RingQueue, SequenceTheorems, FiniteSetTheorems, TLAPS

(* Every operation on the database keeps its types. *)
LEMMA DbSteps ==
  ASSUME DbTypeOK,
         \/ BeginOk \/ BeginRefused \/ StepFails \/ DbCrash
         \/ \E w \in Writes : InsertImage(w) \/ InsertPosition(w)
         \/ \E n \in Nat : Commit(n)
         \/ UNCHANGED dbVars
  PROVE  DbTypeOK'
<1> USE DbAssumption
<1>1. NoTx \in [open : BOOLEAN, image : SUBSET Images, tile : SUBSET Writes]
  BY DEF NoTx
<1>2. CASE BeginOk
  BY <1>1, <1>2 DEF BeginOk, DbTypeOK, NoTx
<1>3. CASE BeginRefused \/ UNCHANGED dbVars
  BY <1>3 DEF BeginRefused, DbTypeOK, dbVars
<1>4. CASE StepFails
  BY <1>1, <1>4 DEF StepFails, Fault, DbTypeOK
<1>5. CASE DbCrash
  BY <1>1, <1>5 DEF DbCrash, DbTypeOK
<1>6. ASSUME NEW w \in Writes, InsertImage(w) PROVE DbTypeOK'
  <2>1. ImageHash[w] \in Images
    BY DEF Images
  <2>. QED  BY <1>6, <2>1 DEF InsertImage, DbTypeOK, NoTx
<1>7. ASSUME NEW w \in Writes, InsertPosition(w) PROVE DbTypeOK'
  BY <1>7 DEF InsertPosition, DbTypeOK, NoTx
<1>8. ASSUME NEW n \in Nat, Commit(n) PROVE DbTypeOK'
  <2>1. dbInserts' \in Nat
    BY <1>8 DEF Commit, Checkpoint, DbTypeOK
  <2>2. /\ image' \in SUBSET Images /\ tile' \in SUBSET Writes
        /\ tx' \in [open : BOOLEAN, image : SUBSET Images, tile : SUBSET Writes]
        /\ ~tx'.open => tx' = NoTx
    BY <1>1, <1>8 DEF Commit, DbTypeOK
  <2>3. faults' \in 0..MaxFaults
    BY <1>8 DEF Commit, Fault, DbTypeOK
  <2>. QED  BY <2>1, <2>2, <2>3 DEF DbTypeOK
<1>. QED  BY <1>2, <1>3, <1>4, <1>5, <1>6, <1>7, <1>8

-----------------------------------------------------------------------------
(* The row being inserted is a row of the batch. *)
RowInBatch ==
  /\ row >= 1
  /\ writer = "position" => row <= Len(inserts)

TypeInv == TypeOK /\ RowInBatch /\ InsertsInBounds

(* Popping num writes into an empty batch moves exactly num of them. *)
LEMMA PopulateMoves ==
  ASSUME TypeOK, inserts = <<>>, NEW num \in Nat, num <= Len(write_queue),
         Populate(num)
  PROVE  /\ inserts' \in Seq(Writes) /\ Len(inserts') = num
         /\ write_queue' \in Seq(Writes)
         /\ Len(write_queue') = Len(write_queue) - num
         /\ row' = 1 /\ writer' = "begin"
<1>. DEFINE front == SubSeq(write_queue, 1, num)
            rest  == SubSeq(write_queue, num + 1, Len(write_queue))
<1>1. /\ Len(write_queue) \in Nat
      /\ \A i \in 1..Len(write_queue) : write_queue[i] \in Writes
  BY DEF TypeOK
<1>2. front \in Seq(Writes) /\ Len(front) = num
  <2>1. \A i \in 1..num : write_queue[i] \in Writes
    BY <1>1
  <2>. QED  BY <2>1, SubSeqProperties
<1>3. rest \in Seq(Writes) /\ Len(rest) = Len(write_queue) - num
  <2>1. \A i \in num + 1..Len(write_queue) : write_queue[i] \in Writes
    BY <1>1
  <2>. QED  BY <1>1, <2>1, SubSeqProperties
<1>4. <<>> \o front = front
  BY <1>2, ConcatEmptySeq
<1>. QED  BY <1>2, <1>3, <1>4 DEF Populate

(* The empty queue of ts_write_queue_create, on whatever database, is of   *)
(* its type.                                                               *)
LEMMA TypeInit == Init => TypeInv
<1>. SUFFICES ASSUME Init PROVE TypeInv
  OBVIOUS
<1>1. DbTypeOK
  BY DbAssumption DEF Init, DbInit, DbTypeOK, NoTx
<1>2. TypeOK
  <2>1. <<>> \in Seq(Writes)
    BY EmptySeq
  <2>2. poster \in [Threads -> {"idle", "post"}]
    BY DEF Init
  <2>3. commits \in 0..MaxCommits /\ crashes \in 0..MaxCrashes
    BY QueueAssumption DEF Init
  <2>. QED  BY <1>1, <2>1, <2>2, <2>3 DEF Init, TypeOK
<1>. QED  BY <1>2, QueueAssumption DEF Init, TypeInv, RowInBatch, InsertsInBounds

(* Every step of the threads, the write thread and the database keeps the  *)
(* types.                                                                  *)
LEMMA TypeStep == TypeInv /\ [Next]_vars => TypeInv'
<1>. SUFFICES ASSUME TypeInv, [Next]_vars PROVE TypeInv'
  OBVIOUS
<1>. USE QueueAssumption DEF TypeInv
<1>0. DbTypeOK /\ Len(write_queue) \in Nat /\ Len(inserts) \in Nat
  BY DEF TypeOK
<1>1. ASSUME NEW p \in Threads, NEW w \in Writes, Push(p, w) PROVE TypeInv'
  <2>1. DbTypeOK'
    BY <1>0, <1>1, DbSteps DEF Push
  <2>. QED
    BY <1>1, <2>1 DEF Push, TypeOK, RowInBatch, InsertsInBounds, writerVars
<1>2. ASSUME NEW p \in Threads, RequestCommit(p) PROVE TypeInv'
  <2>1. DbTypeOK'
    BY <1>0, <1>2, DbSteps DEF RequestCommit
  <2>. QED
    BY <1>2, <2>1 DEF RequestCommit, TypeOK, RowInBatch, InsertsInBounds, writerVars
<1>3. ASSUME NEW p \in Threads, Post(p) PROVE TypeInv'
  <2>1. DbTypeOK'
    BY <1>0, <1>3, DbSteps DEF Post
  <2>. QED
    BY <1>3, <2>1 DEF Post, TypeOK, RowInBatch, InsertsInBounds, writerVars
<1>4. CASE Wait
  <2>1. DbTypeOK'
    BY <1>0, <1>4, DbSteps DEF Wait
  <2>. QED
    BY <1>4, <2>1 DEF Wait, TypeOK, RowInBatch, InsertsInBounds, callVars
<1>5. CASE DrainFull
  <2>1. DbTypeOK'
    BY <1>0, <1>5, DbSteps DEF DrainFull
  <2>2. inserts = <<>>
    BY <1>5 DEF DrainFull, InsertsInBounds
  <2>3. /\ inserts' \in Seq(Writes) /\ Len(inserts') = FullThreshold
        /\ write_queue' \in Seq(Writes)
        /\ row' = 1 /\ writer' = "begin"
    BY <1>0, <1>5, <2>2, PopulateMoves DEF DrainFull
  <2>. QED
    BY <1>5, <2>1, <2>3 DEF DrainFull, TypeOK, RowInBatch, InsertsInBounds, callVars
<1>6. CASE DrainAll
  <2>1. DbTypeOK'
    BY <1>0, <1>6, DbSteps DEF DrainAll
  <2>2. inserts = <<>>
    BY <1>6 DEF DrainAll, InsertsInBounds
  <2>3. /\ inserts' \in Seq(Writes) /\ Len(inserts') = Len(write_queue)
        /\ write_queue' \in Seq(Writes)
        /\ row' = 1 /\ writer' = "begin"
    BY <1>0, <1>6, <2>2, PopulateMoves DEF DrainAll
  <2>. QED
    <3>1. TypeOK'
      BY <1>6, <2>1, <2>3 DEF DrainAll, TypeOK, callVars
    <3>2. Len(inserts') <= FullThreshold
      BY <1>0, <1>6, <2>3 DEF DrainAll
    <3>. QED  BY <2>3, <3>1, <3>2 DEF RowInBatch, InsertsInBounds
<1>7. CASE TooFew
  <2>1. DbTypeOK'
    BY <1>0, <1>7, DbSteps DEF TooFew
  <2>. QED
    BY <1>7, <2>1 DEF TooFew, TypeOK, RowInBatch, InsertsInBounds, callVars, queueVars
<1>8. CASE Begin
  <2>1. DbTypeOK'
    BY <1>0, <1>8, DbSteps DEF Begin
  <2>. QED
    BY <1>8, <2>1 DEF Begin, TypeOK, RowInBatch, InsertsInBounds, callVars, queueVars
<1>9. CASE StepImage
  <2>1. inserts[row] \in Writes
    BY <1>9 DEF StepImage, TypeOK, RowInBatch
  <2>2. DbTypeOK'
    BY <1>0, <1>9, <2>1, DbSteps DEF StepImage
  <2>. QED
    BY <1>9, <2>2 DEF StepImage, TypeOK, RowInBatch, InsertsInBounds, callVars, queueVars
<1>10. CASE StepPosition
  <2>1. inserts[row] \in Writes
    BY <1>10 DEF StepPosition, TypeOK, RowInBatch
  <2>2. DbTypeOK'
    BY <1>0, <1>10, <2>1, DbSteps DEF StepPosition
  <2>. QED
    BY <1>10, <2>2 DEF StepPosition, TypeOK, RowInBatch, InsertsInBounds, callVars, queueVars
<1>11. CASE CommitBatch
  <2>1. DbTypeOK'
    BY <1>0, <1>11, DbSteps DEF CommitBatch
  <2>. QED
    BY <1>11, <2>1 DEF CommitBatch, TypeOK, RowInBatch, InsertsInBounds, callVars, queueVars
<1>12. CASE Clear
  <2>1. DbTypeOK'
    BY <1>0, <1>12, DbSteps DEF Clear
  <2>. QED
    BY <1>12, <2>1 DEF Clear, TypeOK, RowInBatch, InsertsInBounds, callVars
<1>13. CASE Crash
  <2>1. DbTypeOK'
    BY <1>0, <1>13, DbSteps DEF Crash
  <2>. QED
    <3>1. <<>> \in Seq(Writes) /\ Len(<<>>) = 0
      BY EmptySeq
    <3>2. poster' \in [Threads -> {"idle", "post"}]
      BY <1>13 DEF Crash
    <3>3. commits' \in 0..MaxCommits /\ crashes' \in 0..MaxCrashes
      BY <1>13 DEF Crash, TypeOK
    <3>4. TypeOK'
      BY <1>13, <2>1, <3>1, <3>2, <3>3 DEF Crash, TypeOK
    <3>. QED  BY <1>13, <3>1, <3>4 DEF Crash, RowInBatch, InsertsInBounds
<1>14. CASE UNCHANGED vars
  <2>1. DbTypeOK'
    BY <1>0, <1>14, DbSteps DEF vars
  <2>. QED
    BY <1>14, <2>1 DEF vars, TypeOK, RowInBatch, InsertsInBounds, queueVars, writerVars, callVars
<1>. QED
  BY <1>1, <1>2, <1>3, <1>4, <1>5, <1>6, <1>7, <1>8, <1>9, <1>10, <1>11, <1>12,
     <1>13, <1>14 DEF Next, Writer

(* Type correctness of the queue, its write thread and the database. *)
THEOREM TypeCorrect == Spec => []TypeOK
<1>1. Spec => []TypeInv
  BY TypeInit, TypeStep, PTL DEF Spec
<1>2. TypeInv => TypeOK
  BY DEF TypeInv
<1>. QED  BY <1>1, <1>2, PTL

(* Whatever the thresholds and however many writes are queued when the     *)
(* write thread wakes, the batch fits the array q->inserts.                *)
THEOREM BatchFits == Spec => []InsertsInBounds
<1>1. Spec => []TypeInv
  BY TypeInit, TypeStep, PTL DEF Spec
<1>2. TypeInv => InsertsInBounds
  BY DEF TypeInv
<1>. QED  BY <1>1, <1>2, PTL

-----------------------------------------------------------------------------
(* A thread that starts or stops owing its sem_post moves Posting by one.  *)
LEMMA PostingMoves ==
  ASSUME TypeOK, NEW p \in Threads
  PROVE  /\ IsFiniteSet(Posting) /\ Cardinality(Posting) \in Nat
         /\ poster[p] = "idle" /\ poster' = [poster EXCEPT ![p] = "post"]
              => Cardinality(Posting') = Cardinality(Posting) + 1
         /\ poster[p] = "post" /\ poster' = [poster EXCEPT ![p] = "idle"]
              => Cardinality(Posting') = Cardinality(Posting) - 1
<1>1. IsFiniteSet(Posting)
  BY QueueAssumption, FS_Subset DEF Posting
<1>2. Cardinality(Posting) \in Nat
  BY <1>1, FS_CardinalityType
<1>3. ASSUME poster[p] = "idle", poster' = [poster EXCEPT ![p] = "post"]
      PROVE  Cardinality(Posting') = Cardinality(Posting) + 1
  <2>1. Posting' = Posting \cup {p} /\ p \notin Posting
    BY <1>3 DEF Posting, TypeOK
  <2>. QED  BY <1>1, <2>1, FS_AddElement
<1>4. ASSUME poster[p] = "post", poster' = [poster EXCEPT ![p] = "idle"]
      PROVE  Cardinality(Posting') = Cardinality(Posting) - 1
  <2>1. Posting' = Posting \ {p} /\ p \in Posting
    BY <1>4 DEF Posting, TypeOK
  <2>. QED  BY <1>1, <2>1, FS_RemoveElement
<1>. QED  BY <1>1, <1>2, <1>3, <1>4

(* A push or a request brings the wake-up it needs, and a wake-up is given *)
(* up only with the work it stands for.                                    *)
LEMMA WakeupStep == TypeInv /\ WakeupInv /\ [Next]_vars => WakeupInv'
<1>. SUFFICES ASSUME TypeInv, WakeupInv, [Next]_vars PROVE WakeupInv'
  OBVIOUS
<1>. USE QueueAssumption
<1>0. /\ TypeOK /\ InsertsInBounds
      /\ Len(write_queue) \in Nat /\ sema \in Nat
      /\ Cardinality(Posting) \in Nat
  <2>1. IsFiniteSet(Posting)
    BY FS_Subset DEF Posting
  <2>. QED  BY <2>1, FS_CardinalityType DEF TypeInv, TypeOK
<1>. USE DEF WakeupInv, Wakeups
<1>1. ASSUME NEW p \in Threads, NEW w \in Writes, Push(p, w) PROVE WakeupInv'
  <2>1. Len(write_queue') = Len(write_queue) + 1
    BY <1>0, <1>1 DEF Push, TypeOK
  <2>2. Cardinality(Posting') = Cardinality(Posting) + 1
    BY <1>0, <1>1, PostingMoves DEF Push
  <2>. QED  BY <1>0, <1>1, <2>1, <2>2 DEF Push, writerVars
<1>2. ASSUME NEW p \in Threads, RequestCommit(p) PROVE WakeupInv'
  <2>1. Cardinality(Posting') = Cardinality(Posting) + 1
    BY <1>0, <1>2, PostingMoves DEF RequestCommit
  <2>. QED  BY SMTT(30), <1>0, <1>2, <2>1 DEF RequestCommit, writerVars
<1>3. ASSUME NEW p \in Threads, Post(p) PROVE WakeupInv'
  <2>1. Cardinality(Posting') = Cardinality(Posting) - 1
    BY <1>0, <1>3, PostingMoves DEF Post
  <2>. QED  BY <1>0, <1>3, <2>1 DEF Post, writerVars
<1>4. CASE Wait
  BY <1>0, <1>4 DEF Wait, callVars, Posting
<1>5. CASE DrainFull
  <2>1. inserts = <<>>
    BY <1>0, <1>5 DEF DrainFull, InsertsInBounds
  <2>2. /\ Len(write_queue') = Len(write_queue) - FullThreshold
        /\ writer' = "begin"
    BY <1>0, <1>5, <2>1, PopulateMoves DEF DrainFull
  <2>3. UNCHANGED <<sema, Posting, force_commit>> /\ writer = "decide"
    BY <1>5 DEF DrainFull, callVars, Posting
  <2>. QED  BY <1>0, <1>5, <2>2, <2>3 DEF DrainFull
<1>6. CASE DrainAll
  <2>1. inserts = <<>>
    BY <1>0, <1>6 DEF DrainAll, InsertsInBounds
  <2>2. Len(write_queue') = 0 /\ writer' = "begin"
    BY <1>0, <1>6, <2>1, PopulateMoves DEF DrainAll
  <2>3. UNCHANGED <<sema, Posting>> /\ ~force_commit'
    BY <1>6 DEF DrainAll, callVars, Posting
  <2>. QED  BY <1>0, <2>2, <2>3
<1>7. CASE TooFew
  BY <1>0, <1>7 DEF TooFew, queueVars, callVars, Posting
<1>8. ASSUME Begin \/ StepImage \/ StepPosition \/ CommitBatch \/ Clear
      PROVE  WakeupInv'
  <2>1. /\ UNCHANGED <<write_queue, force_commit, sema, Posting>>
        /\ writer # "decide" /\ writer' # "decide"
    BY <1>8 DEF Begin, StepImage, StepPosition, CommitBatch, Clear,
                queueVars, callVars, Posting
  <2>. QED  BY <1>0, <2>1
<1>9. CASE Crash
  <2>1. Cardinality(Posting') = 0
    BY <1>9, FS_EmptySet DEF Crash, Posting
  <2>2. Len(write_queue') = 0
    BY <1>9, EmptySeq DEF Crash
  <2>. QED  BY <1>9, <2>1, <2>2 DEF Crash
<1>10. CASE UNCHANGED vars
  BY <1>0, <1>10 DEF vars, queueVars, writerVars, callVars, Posting
<1>. QED
  BY <1>1, <1>2, <1>3, <1>4, <1>5, <1>6, <1>7, <1>8, <1>9, <1>10 DEF Next, Writer

(* For every number of threads, every threshold and every interleaving of  *)
(* pushes, commit requests, drains and crashes, there is a wake-up for     *)
(* each write beyond InsertThreshold - 1 and one for a requested commit.   *)
THEOREM WakeupsSuffice == Spec => []WakeupInv
<1>1. Init => TypeInv /\ WakeupInv
  <2>1. ASSUME Init PROVE WakeupInv
    <3>1. Cardinality(Posting) = 0
      BY <2>1, FS_EmptySet DEF Init, Posting
    <3>2. Len(write_queue) = 0
      BY <2>1, EmptySeq DEF Init
    <3>. QED  BY <2>1, <3>1, <3>2, QueueAssumption DEF Init, WakeupInv, Wakeups
  <2>. QED  BY <2>1, TypeInit
<1>2. TypeInv /\ WakeupInv /\ [Next]_vars => (TypeInv /\ WakeupInv)'
  BY TypeStep, WakeupStep
<1>. QED  BY <1>1, <1>2, PTL DEF Spec

(* Hence a waiting write thread that has work is about to be woken. *)
THEOREM LostWakeupFree == Spec => []NoLostWakeup
<1>1. TypeOK /\ WakeupInv => NoLostWakeup
  <2>. SUFFICES ASSUME TypeOK, WakeupInv, writer = "wait", sema = 0, Posting = {},
                       Len(write_queue) >= InsertThreshold \/ force_commit
                PROVE  FALSE
    BY DEF NoLostWakeup, TypeOK
  <2>1. Wakeups = 0
    BY FS_EmptySet DEF Wakeups
  <2>. QED  BY <2>1, QueueAssumption DEF WakeupInv, TypeOK
<1>. QED  BY <1>1, TypeCorrect, WakeupsSuffice, PTL

-----------------------------------------------------------------------------
(* A transaction is open only while rows are being inserted, as long as a  *)
(* COMMIT that is refused is rolled back.                                  *)
TxInv == tx.open => writer \in {"image", "position"}

(* Every way out of a batch closes its transaction. *)
LEMMA TxStep ==
  ASSUME "busy" \notin DbFaults, TxInv, [Next]_vars
  PROVE  TxInv'
<1>. USE DEF TxInv
<1>1. ASSUME NEW p \in Threads, NEW w \in Writes, Push(p, w) PROVE TxInv'
  BY <1>1 DEF Push, writerVars, dbVars
<1>2. CASE Wait \/ TooFew
  BY <1>2 DEF Wait, TooFew, dbVars
<1>3. CASE DrainFull \/ DrainAll
  BY <1>3 DEF DrainFull, DrainAll, dbVars
<1>4. CASE Begin
  BY <1>4 DEF Begin, BeginOk, BeginRefused
<1>5. CASE StepImage \/ StepPosition
  BY <1>5 DEF StepImage, StepPosition
<1>6. CASE CommitBatch
  BY <1>6 DEF CommitBatch, Commit, Fault, NoTx
<1>7. CASE Clear
  BY <1>7 DEF Clear, dbVars
<1>8. CASE Crash
  BY <1>8 DEF Crash, DbCrash, NoTx
<1>9. CASE UNCHANGED vars
  BY <1>9 DEF vars, writerVars, dbVars
<1>10. ASSUME NEW p \in Threads, RequestCommit(p) \/ Post(p) PROVE TxInv'
  BY <1>10 DEF RequestCommit, Post, writerVars, dbVars
<1>. QED
  BY <1>1, <1>2, <1>3, <1>4, <1>5, <1>6, <1>7, <1>8, <1>9, <1>10 DEF Next, Writer

(* In WAL mode, where a COMMIT is never refused with the transaction left  *)
(* open, every batch finds the connection without a transaction: failed    *)
(* statements, rollbacks and crashes never make a later BEGIN fail.        *)
THEOREM BeginNeverRefused ==
  ASSUME "busy" \notin DbFaults PROVE Spec => []NoTxBetweenBatches
<1>1. Init => TxInv
  BY DEF Init, DbInit, NoTx, TxInv
<1>2. TxInv /\ [Next]_vars => TxInv'
  BY TxStep
<1>3. TypeOK /\ TxInv => NoTxBetweenBatches
  BY DEF TxInv, NoTxBetweenBatches, TypeOK
<1>. QED  BY <1>1, <1>2, <1>3, TypeCorrect, PTL DEF Spec

-----------------------------------------------------------------------------
(* The rows of an open transaction agree as the tables do, except that     *)
(* between the two statements of a row its image is one ahead.             *)
HashesOf(ws) == {ImageHash[w] : w \in ws}

AgreeInv ==
  /\ TablesAgree
  /\ tx.open <=> writer \in {"image", "position"}
  /\ writer = "image" => tx.image = HashesOf(tx.tile)
  /\ writer = "position" => tx.image = HashesOf(tx.tile \cup {inserts[row]})

(* Inside a batch the images run ahead of the tiles by the row being       *)
(* inserted; commits and crashes bring both tables to the same state.      *)
LEMMA AgreeStep ==
  ASSUME DbFaults \subseteq {"commit", "checkpoint"},
         TypeOK, AgreeInv, [Next]_vars
  PROVE  AgreeInv'
<1>. USE DEF AgreeInv, TablesAgree, HashesOf
<1>1. ASSUME NEW p \in Threads, NEW w \in Writes, Push(p, w) PROVE AgreeInv'
  BY <1>1 DEF Push, writerVars, dbVars
<1>2. ASSUME NEW p \in Threads, RequestCommit(p) \/ Post(p) PROVE AgreeInv'
  BY <1>2 DEF RequestCommit, Post, writerVars, dbVars
<1>3. CASE Wait \/ TooFew
  BY <1>3 DEF Wait, TooFew, dbVars
<1>4. CASE DrainFull \/ DrainAll
  BY <1>4 DEF DrainFull, DrainAll, Populate, dbVars
<1>5. CASE Begin
  <2>1. CASE BeginOk
    BY <1>5, <2>1 DEF Begin, BeginOk, BeginRefused, NoTx
  <2>2. CASE BeginRefused
    BY <1>5, <2>2 DEF Begin, BeginRefused
  <2>. QED  BY <1>5, <2>1, <2>2 DEF Begin
<1>6. CASE StepImage
  <2>1. InsertImage(inserts[row])
    BY <1>6 DEF StepImage, StepFails, Fault
  <2>2. /\ tx.open /\ UNCHANGED <<image, tile, inserts, row>>
        /\ tx' = [tx EXCEPT !.image = @ \cup {ImageHash[inserts[row]]}]
        /\ writer = "image" /\ writer' = "position"
    BY <1>6, <2>1 DEF StepImage, InsertImage
  <2>3. tx'.open /\ tx'.tile = tx.tile
        /\ tx'.image = tx.image \cup {ImageHash[inserts[row]]}
    BY <2>2 DEF TypeOK, DbTypeOK
  <2>. QED  BY <2>2, <2>3
<1>7. CASE StepPosition
  <2>1. InsertPosition(inserts[row])
    BY <1>7 DEF StepPosition, StepFails, Fault
  <2>2. /\ tx.open /\ UNCHANGED <<image, tile>>
        /\ tx' = [tx EXCEPT !.tile = @ \cup {inserts[row]}]
        /\ writer = "position" /\ writer' = "image"
    BY <1>7, <2>1 DEF StepPosition, InsertPosition
  <2>3. tx'.open /\ tx'.image = tx.image
        /\ tx'.tile = tx.tile \cup {inserts[row]}
    BY <2>2 DEF TypeOK, DbTypeOK
  <2>. QED  BY <2>2, <2>3
<1>8. CASE CommitBatch
  <2>1. tx.open /\ tx.image = HashesOf(tx.tile) /\ writer' = "clear"
    BY <1>8 DEF CommitBatch
  <2>2. ~tx'.open
    BY <1>8, <2>1 DEF CommitBatch, Commit, Fault, NoTx
  <2>3. TablesAgree'
    BY <1>8, <2>1 DEF CommitBatch, Commit, Fault
  <2>. QED  BY <2>1, <2>2, <2>3
<1>9. CASE Clear
  BY <1>9 DEF Clear, dbVars
<1>10. CASE Crash
  BY <1>10 DEF Crash, DbCrash, NoTx
<1>11. CASE UNCHANGED vars
  BY <1>11 DEF vars, writerVars, dbVars
<1>. QED
  BY <1>1, <1>2, <1>3, <1>4, <1>5, <1>6, <1>7, <1>8, <1>9, <1>10, <1>11
     DEF Next, Writer

(* Crashes at any statement and COMMITs that are rolled back never separate *)
(* a tile row from its image row: only a failing INSERT can.                *)
THEOREM TablesAlwaysAgree ==
  ASSUME DbFaults \subseteq {"commit", "checkpoint"} PROVE Spec => []TablesAgree
<1>1. Init => AgreeInv
  BY DEF Init, DbInit, NoTx, AgreeInv, TablesAgree
<1>2. TypeOK /\ AgreeInv /\ [Next]_vars => AgreeInv'
  BY AgreeStep
<1>3. AgreeInv => TablesAgree
  BY DEF AgreeInv
<1>. QED  BY <1>1, <1>2, <1>3, TypeCorrect, PTL DEF Spec

-----------------------------------------------------------------------------
(* The write queue and the write connection implement the store of         *)
(* TileStore, when what fails is a COMMIT, a checkpoint or the process: a  *)
(* batch is stored as a whole or not at all.                               *)

(* The failures that strike a batch as a whole: no INSERT fails on its own *)
(* and a failed COMMIT leaves no transaction open, as in the WAL mode that *)
(* image_db_open asks for.                                                 *)
WholeBatchFaults == DbFaults \subseteq {"commit", "checkpoint"}

(* A write is queued once, and only after it was pushed. *)
QueueDistinct ==
  /\ \A i, j \in 1..Len(write_queue) : write_queue[i] = write_queue[j] => i = j
  /\ unpushed \cap (Elems(write_queue) \cup Elems(inserts) \cup tile) = {}

(* The transaction is open from BEGIN to COMMIT and holds the tile rows of *)
(* the writes before row.                                                  *)
TxIsPrefix ==
  /\ tx.open <=> writer \in {"image", "position"}
  /\ writer = "begin" => row = 1
  /\ tx.open => /\ row <= Len(inserts) + 1
                /\ tx.tile = {inserts[i] : i \in 1..row - 1}

StoreInv == TypeInv /\ QueueDistinct /\ TxIsPrefix

-----------------------------------------------------------------------------
(* Elems of a sequence. *)
LEMMA ElemsFacts ==
  /\ Elems(<<>>) = {}
  /\ \A s \in Seq(Writes) : Elems(s) = {s[i] : i \in 1..Len(s)} /\ Elems(s) \subseteq Writes
<1>1. \A s \in Seq(Writes) : DOMAIN s = 1..Len(s) /\ \A i \in 1..Len(s) : s[i] \in Writes
  OBVIOUS
<1>2. DOMAIN <<>> = {}
  OBVIOUS
<1>. QED  BY <1>1, <1>2 DEF Elems

(* A sequence without repetitions has as many elements as its length. *)
LEMMA DistinctCardinality ==
  ASSUME NEW s \in Seq(Writes),
         \A i, j \in 1..Len(s) : s[i] = s[j] => i = j
  PROVE  Cardinality(Elems(s)) = Len(s)
<1>1. /\ Len(s) \in Nat /\ s \in [1..Len(s) -> Elems(s)]
      /\ \A e \in Elems(s) : \E i \in 1..Len(s) : s[i] = e
  BY ElemsFacts
<1>2. s \in Bijection(1..Len(s), Elems(s))
  BY <1>1 DEF Bijection, Injection, Surjection, IsInjective
<1>3. ExistsBijection(1..Len(s), Elems(s))
  BY <1>2 DEF ExistsBijection
<1>. QED  BY <1>1, <1>3, FS_CountingElements

(* A write that was not queued is appended. *)
LEMMA AppendDistinct ==
  ASSUME NEW s \in Seq(Writes), NEW w \in Writes, w \notin Elems(s),
         \A i, j \in 1..Len(s) : s[i] = s[j] => i = j
  PROVE  /\ Elems(Append(s, w)) = Elems(s) \cup {w}
         /\ \A i, j \in 1..Len(Append(s, w)) : Append(s, w)[i] = Append(s, w)[j] => i = j
<1>1. /\ Append(s, w) \in Seq(Writes) /\ Len(s) \in Nat
      /\ Len(Append(s, w)) = Len(s) + 1
      /\ \A i \in 1..Len(s) : Append(s, w)[i] = s[i] /\ s[i] \in Elems(s)
      /\ Append(s, w)[Len(s) + 1] = w
  BY AppendProperties, ElemsFacts
<1>2. \A i \in 1..Len(s) + 1 : i \in 1..Len(s) \/ i = Len(s) + 1
  BY <1>1
<1>3. Elems(Append(s, w)) = Elems(s) \cup {w}
  <2>1. /\ Elems(Append(s, w)) = {Append(s, w)[i] : i \in 1..Len(Append(s, w))}
        /\ Elems(s) = {s[i] : i \in 1..Len(s)}
    BY <1>1, ElemsFacts
  <2>2. Len(s) + 1 \in 1..Len(s) + 1 /\ \A i \in 1..Len(s) : i \in 1..Len(s) + 1
    BY <1>1
  <2>. QED  BY <1>1, <1>2, <2>1, <2>2
<1>. QED  BY <1>1, <1>2, <1>3

(* populate_pending_inserts splits the queue: what it takes and what it    *)
(* leaves have nothing in common.                                          *)
LEMMA PopulateSplits ==
  ASSUME TypeOK, QueueDistinct, inserts = <<>>,
         NEW num \in Nat, num <= Len(write_queue), Populate(num)
  PROVE  /\ Elems(inserts') \subseteq Elems(write_queue)
         /\ Elems(write_queue') = Elems(write_queue) \ Elems(inserts')
         /\ \A i, j \in 1..Len(write_queue') :
              write_queue'[i] = write_queue'[j] => i = j
         /\ num # 0 => Elems(inserts') # {}
         /\ num = Len(write_queue) => Elems(write_queue') = {}
<1>. DEFINE len   == Len(write_queue)
            front == SubSeq(write_queue, 1, num)
            rest  == SubSeq(write_queue, num + 1, len)
<1>1. /\ write_queue \in Seq(Writes) /\ len \in Nat
      /\ \A i \in 1..len : write_queue[i] \in Writes
      /\ \A i, j \in 1..len : write_queue[i] = write_queue[j] => i = j
  BY DEF TypeOK, QueueDistinct
<1>2. /\ front \in Seq(Writes) /\ Len(front) = num
      /\ \A i \in 1..num : front[i] = write_queue[i]
  <2>1. \A i \in 1..num : write_queue[i] \in Writes
    BY <1>1
  <2>. QED  BY <2>1, SubSeqProperties
<1>3. /\ rest \in Seq(Writes) /\ Len(rest) = len - num
      /\ \A i \in 1..len - num : rest[i] = write_queue[num + i]
  <2>1. \A i \in num + 1..len : write_queue[i] \in Writes
    BY <1>1
  <2>2. \A i \in 1..len - num : num + 1 + i - 1 = num + i
    BY <1>1
  <2>. QED  BY <1>1, <2>1, <2>2, SubSeqProperties
<1>4. inserts' = front /\ write_queue' = rest
  <2>1. <<>> \o front = front
    BY <1>2, ConcatEmptySeq
  <2>. QED  BY <2>1 DEF Populate
<1>5. /\ Elems(write_queue) = {write_queue[i] : i \in 1..len}
      /\ Elems(front) = {write_queue[i] : i \in 1..num}
      /\ Elems(rest) = {write_queue[num + i] : i \in 1..len - num}
  <2>1. Elems(write_queue) = {write_queue[i] : i \in 1..len}
    BY <1>1, ElemsFacts
  <2>2. Elems(front) = {front[i] : i \in 1..num}
    BY <1>2, ElemsFacts
  <2>3. Elems(rest) = {rest[i] : i \in 1..len - num}
    BY <1>3, ElemsFacts
  <2>. HIDE DEF front, rest
  <2>4. {front[i] : i \in 1..num} = {write_queue[i] : i \in 1..num}
    BY <1>2
  <2>5. {rest[i] : i \in 1..len - num} = {write_queue[num + i] : i \in 1..len - num}
    BY <1>3
  <2>. QED  BY <2>1, <2>2, <2>3, <2>4, <2>5
<1>. HIDE DEF len, front, rest
<1>6. Elems(front) \subseteq Elems(write_queue)
  BY <1>1, <1>5 DEF len
<1>7. Elems(rest) = Elems(write_queue) \ Elems(front)
  <2>1. ASSUME NEW e \in Elems(rest) PROVE e \in Elems(write_queue) /\ e \notin Elems(front)
    <3>1. PICK i \in 1..len - num : e = write_queue[num + i]
      BY <1>5
    <3>2. num + i \in 1..len /\ num + i \notin 1..num
      BY <1>1
    <3>3. \A j \in 1..num : j \in 1..len
      BY <1>1 DEF len
    <3>. QED  BY <1>1, <1>5, <3>1, <3>2, <3>3
  <2>2. ASSUME NEW e \in Elems(write_queue), e \notin Elems(front) PROVE e \in Elems(rest)
    <3>1. PICK i \in 1..len : e = write_queue[i]
      BY <1>5
    <3>2. i \notin 1..num
      BY <1>5, <2>2, <3>1
    <3>3. i - num \in 1..len - num /\ num + (i - num) = i
      BY <1>1, <3>2
    <3>. QED  BY <1>5, <3>1, <3>3
  <2>. QED  BY <2>1, <2>2
<1>8. ASSUME NEW i \in 1..len - num, NEW j \in 1..len - num, rest[i] = rest[j]
      PROVE  i = j
  <2>1. num + i \in 1..len /\ num + j \in 1..len
    BY <1>1
  <2>2. num + i = num + j
    BY <1>1, <1>3, <1>8, <2>1
  <2>. QED  BY <1>1, <2>2
<1>9. num # 0 => Elems(front) # {}
  <2>1. num # 0 => 1 \in 1..num
    OBVIOUS
  <2>. QED  BY <1>5, <2>1
<1>10. num = len => Elems(rest) = {}
  <2>1. num = len => 1..len - num = {}
    BY <1>1
  <2>. QED  BY <1>5, <2>1
<1>. QED  BY <1>3, <1>4, <1>6, <1>7, <1>8, <1>9, <1>10 DEF len

-----------------------------------------------------------------------------
(* The invariant holds in the queue of ts_write_queue_create. *)
LEMMA StoreInit == Init => StoreInv
<1>. SUFFICES ASSUME Init PROVE StoreInv
  OBVIOUS
<1>1. TypeInv
  BY TypeInit
<1>2. QueueDistinct
  <2>1. Len(write_queue) = 0 /\ Elems(write_queue) = {} /\ Elems(inserts) = {} /\ tile = {}
    BY ElemsFacts, EmptySeq DEF Init, DbInit
  <2>. QED  BY <2>1 DEF QueueDistinct
<1>3. TxIsPrefix
  BY DEF Init, DbInit, NoTx, TxIsPrefix
<1>. QED  BY <1>1, <1>2, <1>3 DEF StoreInv

(* What a transaction does when no INSERT fails on its own and a failed    *)
(* COMMIT closes it.                                                       *)
LEMMA CommitWhole ==
  ASSUME WholeBatchFaults, tx.open, NEW count \in Nat, Commit(count)
  PROVE  tx' = NoTx /\ (tile' = tile \cup tx.tile \/ tile' = tile)
BY DEF WholeBatchFaults, Commit, Fault

LEMMA NoStepFails == WholeBatchFaults => ~StepFails
BY DEF WholeBatchFaults, StepFails, Fault

(* Every step keeps the invariant. *)
LEMMA StoreStep ==
  ASSUME WholeBatchFaults
  PROVE  StoreInv /\ [Next]_vars => StoreInv'
<1>. SUFFICES ASSUME StoreInv, [Next]_vars PROVE QueueDistinct' /\ TxIsPrefix'
  BY TypeStep DEF StoreInv
<1>0. /\ TypeInv /\ TypeOK /\ RowInBatch /\ InsertsInBounds /\ QueueDistinct /\ TxIsPrefix
      /\ write_queue \in Seq(Writes) /\ inserts \in Seq(Writes)
      /\ Len(write_queue) \in Nat /\ Len(inserts) \in Nat /\ row \in Nat
      /\ unpushed \subseteq Writes
      /\ tx \in [open : BOOLEAN, image : SUBSET Images, tile : SUBSET Writes]
  BY DEF StoreInv, TypeInv, TypeOK, DbTypeOK
<1>1. ASSUME UNCHANGED <<write_queue, inserts, row, unpushed, tile, tx>>,
             writer' = writer \/ {writer, writer'} \subseteq {"wait", "decide", "clear"}
      PROVE  QueueDistinct' /\ TxIsPrefix'
  BY <1>0, <1>1 DEF QueueDistinct, TxIsPrefix, Elems
<1>2. ASSUME NEW p \in Threads, NEW w \in Writes, Push(p, w)
      PROVE  QueueDistinct' /\ TxIsPrefix'
  <2>1. /\ w \in unpushed /\ unpushed' = unpushed \ {w}
        /\ write_queue' = Append(write_queue, w)
        /\ UNCHANGED <<inserts, writer, row, tile, tx>>
    BY <1>2 DEF Push, writerVars, dbVars
  <2>2. /\ Elems(write_queue') = Elems(write_queue) \cup {w}
        /\ \A i, j \in 1..Len(write_queue') : write_queue'[i] = write_queue'[j] => i = j
    BY <1>0, <2>1, AppendDistinct DEF QueueDistinct
  <2>3. QueueDistinct'
    BY <1>0, <2>1, <2>2 DEF QueueDistinct, Elems
  <2>4. TxIsPrefix'
    BY <1>0, <2>1 DEF TxIsPrefix
  <2>. QED  BY <2>3, <2>4
<1>3. ASSUME DrainFull \/ DrainAll PROVE QueueDistinct' /\ TxIsPrefix'
  <2>1. PICK num \in Nat : num <= Len(write_queue) /\ Populate(num)
    BY <1>0, <1>3, QueueAssumption DEF DrainFull, DrainAll
  <2>2. writer = "decide" /\ inserts = <<>> /\ UNCHANGED <<unpushed, tile, tx>>
    BY <1>0, <1>3 DEF DrainFull, DrainAll, callVars, dbVars, InsertsInBounds
  <2>3. QueueDistinct'
    BY <1>0, <2>1, <2>2, PopulateSplits DEF QueueDistinct
  <2>4. TxIsPrefix'
    BY <1>0, <2>1, <2>2 DEF Populate, TxIsPrefix
  <2>. QED  BY <2>3, <2>4
<1>4. CASE Begin
  <2>1. /\ tx' = [NoTx EXCEPT !.open = TRUE] /\ writer' = "image" /\ row = 1
        /\ UNCHANGED <<write_queue, inserts, row, unpushed, tile>>
    BY <1>0, <1>4 DEF Begin, BeginOk, BeginRefused, TxIsPrefix, queueVars, callVars
  <2>2. tx'.open /\ tx'.tile = {}
    BY <2>1 DEF NoTx
  <2>3. {inserts[i] : i \in 1..1 - 1} = {}
    OBVIOUS
  <2>. QED  BY <1>0, <2>1, <2>2, <2>3 DEF QueueDistinct, TxIsPrefix, Elems
<1>5. CASE StepImage
  <2>1. /\ writer = "image" /\ writer' = "position" /\ row <= Len(inserts)
        /\ UNCHANGED <<write_queue, inserts, row, unpushed>>
        /\ InsertImage(inserts[row])
    BY <1>5, NoStepFails DEF StepImage, queueVars, callVars
  <2>2. tx.open
    BY <1>0, <2>1 DEF TxIsPrefix
  <2>3. tx'.open /\ tx'.tile = tx.tile /\ UNCHANGED tile
    BY <1>0, <2>1, <2>2 DEF InsertImage
  <2>. QED  BY <1>0, <2>1, <2>2, <2>3 DEF QueueDistinct, TxIsPrefix, Elems
<1>6. CASE StepPosition
  <2>1. /\ writer = "position" /\ writer' = "image" /\ row' = row + 1
        /\ UNCHANGED <<write_queue, inserts, unpushed>>
        /\ InsertPosition(inserts[row])
    BY <1>6, NoStepFails DEF StepPosition, queueVars, callVars
  <2>2. tx.open /\ tx.tile = {inserts[i] : i \in 1..row - 1} /\ row \in 1..Len(inserts)
    BY <1>0, <2>1 DEF TxIsPrefix, RowInBatch
  <2>3. tx'.open /\ tx'.tile = tx.tile \cup {inserts[row]} /\ UNCHANGED tile
    BY <1>0, <2>1, <2>2 DEF InsertPosition
  <2>4. tx'.tile = {inserts[i] : i \in 1..(row + 1) - 1}
    <3>1. 1..(row + 1) - 1 = (1..row - 1) \cup {row}
      BY <2>2
    <3>. QED  BY <2>2, <2>3, <3>1
  <2>5. TxIsPrefix'
    BY <1>0, <2>1, <2>2, <2>3, <2>4 DEF TxIsPrefix
  <2>. QED  BY <1>0, <2>1, <2>3, <2>5 DEF QueueDistinct, Elems
<1>7. CASE CommitBatch
  <2>1. /\ writer = "image" /\ writer' = "clear" /\ Commit(Len(inserts))
        /\ UNCHANGED <<write_queue, inserts, row, unpushed>>
    BY <1>7 DEF CommitBatch, queueVars, callVars
  <2>2. tx.open /\ tx.tile \subseteq Elems(inserts)
    <3>1. /\ tx.open /\ tx.tile = {inserts[i] : i \in 1..row - 1}
          /\ \A i \in 1..row - 1 : i \in 1..Len(inserts)
      BY <1>0, <2>1 DEF TxIsPrefix
    <3>. QED  BY <1>0, <3>1, ElemsFacts
  <2>3. tx' = NoTx /\ tile' \subseteq tile \cup Elems(inserts)
    BY <1>0, <2>1, <2>2, CommitWhole
  <2>4. ~tx'.open
    BY <2>3 DEF NoTx
  <2>5. Elems(inserts') = Elems(inserts) /\ Elems(write_queue') = Elems(write_queue)
    BY <2>1
  <2>. QED  BY <1>0, <2>1, <2>3, <2>4, <2>5 DEF QueueDistinct, TxIsPrefix
<1>8. CASE Clear
  <2>1. /\ writer = "clear" /\ writer' = "wait" /\ inserts' = <<>>
        /\ UNCHANGED <<write_queue, row, unpushed, tile, tx>>
    BY <1>8 DEF Clear, callVars, dbVars
  <2>2. Elems(inserts') = {} /\ Elems(write_queue') = Elems(write_queue)
    BY <2>1, ElemsFacts
  <2>. QED  BY <1>0, <2>1, <2>2 DEF QueueDistinct, TxIsPrefix
<1>9. CASE Crash
  <2>1. /\ write_queue' = <<>> /\ inserts' = <<>> /\ writer' = "wait"
        /\ tx' = NoTx /\ UNCHANGED <<unpushed, tile>>
    BY <1>9 DEF Crash, DbCrash
  <2>2. /\ Elems(inserts') = {} /\ Elems(write_queue') = {} /\ Len(write_queue') = 0
        /\ ~tx'.open
    BY <2>1, ElemsFacts, EmptySeq DEF NoTx
  <2>. QED  BY <1>0, <2>1, <2>2 DEF QueueDistinct, TxIsPrefix
<1>10. ASSUME NEW p \in Threads, RequestCommit(p) \/ Post(p)
       PROVE  QueueDistinct' /\ TxIsPrefix'
  <2>1. UNCHANGED <<write_queue, inserts, row, unpushed, tile, tx, writer>>
    BY <1>10 DEF RequestCommit, Post, writerVars, dbVars
  <2>. QED  BY <1>1, <2>1
<1>11. ASSUME Wait \/ TooFew PROVE QueueDistinct' /\ TxIsPrefix'
  <2>1. /\ UNCHANGED <<write_queue, inserts, row, unpushed, tile, tx>>
        /\ {writer, writer'} \subseteq {"wait", "decide", "clear"}
    BY <1>11 DEF Wait, TooFew, queueVars, callVars, dbVars
  <2>. QED  BY <1>1, <2>1
<1>12. CASE UNCHANGED vars
  BY <1>1, <1>12 DEF vars, queueVars, writerVars, callVars, dbVars
<1>. QED
  BY <1>2, <1>3, <1>4, <1>5, <1>6, <1>7, <1>8, <1>9, <1>10, <1>11, <1>12
     DEF Next, Writer

-----------------------------------------------------------------------------
(* The number of elements the store counts is the one counted here. *)
LEMMA SameCardinality == \A S : Store!Cardinality(S) = Cardinality(S)
BY DEF Store!Cardinality, Cardinality

(* Every step of the queue and of the database is a step of the store, or  *)
(* nothing the store sees.                                                 *)
LEMMA StepRefines ==
  ASSUME WholeBatchFaults
  PROVE  StoreInv /\ [Next]_vars => [Store!Next]_Store!storeVars
<1>. SUFFICES ASSUME StoreInv, [Next]_vars PROVE [Store!Next]_Store!storeVars
  OBVIOUS
<1>. DEFINE pending == Elems(write_queue)
            writing == IF writer = "clear" THEN {} ELSE Elems(inserts)
<1>0. /\ TypeInv /\ TypeOK /\ RowInBatch /\ InsertsInBounds /\ QueueDistinct /\ TxIsPrefix
      /\ write_queue \in Seq(Writes) /\ inserts \in Seq(Writes)
      /\ Len(write_queue) \in Nat /\ Len(inserts) \in Nat /\ row \in Nat
      /\ Elems(<<>>) = {}
  BY ElemsFacts DEF StoreInv, TypeInv, TypeOK
<1>1. ASSUME UNCHANGED <<write_queue, inserts, tile, force_commit>>,
             writer' = writer \/ (writer # "clear" /\ writer' # "clear")
      PROVE  UNCHANGED Store!storeVars
  BY <1>1 DEF Store!storeVars, Elems
<1>2. ASSUME NEW p \in Threads, NEW w \in Writes, Push(p, w) PROVE Store!Next
  <2>1. /\ w \in unpushed /\ write_queue' = Append(write_queue, w)
        /\ UNCHANGED <<inserts, writer, tile, force_commit>>
    BY <1>2 DEF Push, writerVars, dbVars
  <2>2. w \notin pending \cup writing \cup tile
    BY <1>0, <2>1 DEF QueueDistinct
  <2>3. pending' = pending \cup {w} /\ writing' = writing
    BY <1>0, <2>1, <2>2, AppendDistinct DEF QueueDistinct
  <2>. QED  BY <2>1, <2>2, <2>3 DEF Store!Next, Store!Put
<1>3. ASSUME NEW p \in Threads, RequestCommit(p) PROVE Store!Next
  <2>1. UNCHANGED <<write_queue, inserts, writer, tile>> /\ force_commit' = TRUE
    BY <1>3 DEF RequestCommit, writerVars, dbVars
  <2>. QED  BY <2>1 DEF Store!Next, Store!RequestCommit, Elems
<1>4. ASSUME DrainFull \/ DrainAll PROVE Store!Next
  <2>1. PICK num \in Nat :
          /\ num <= Len(write_queue) /\ Populate(num)
          /\ \/ num # 0 /\ force_commit' = force_commit /\ Len(write_queue) >= InsertThreshold
             \/ /\ num = Len(write_queue) /\ force_commit' = FALSE
                /\ Len(write_queue) >= InsertThreshold \/ force_commit
    <3>1. CASE DrainFull
      BY <1>0, <3>1, QueueAssumption DEF DrainFull
    <3>2. CASE DrainAll
      BY <1>0, <3>2 DEF DrainAll
    <3>. QED  BY <1>4, <3>1, <3>2
  <2>2. writer = "decide" /\ inserts = <<>> /\ tile' = tile /\ writer' = "begin"
    BY <1>0, <1>4, <2>1 DEF DrainFull, DrainAll, dbVars, InsertsInBounds, Populate
  <2>3. /\ Elems(inserts') \subseteq pending
        /\ pending' = pending \ Elems(inserts')
        /\ num # 0 => Elems(inserts') # {}
        /\ num = Len(write_queue) => pending' = {}
    BY <1>0, <2>1, <2>2, PopulateSplits
  <2>4. writing = {} /\ writing' = Elems(inserts')
    BY <1>0, <2>2
  <2>5. Cardinality(pending) = Len(write_queue)
    BY <1>0, DistinctCardinality DEF QueueDistinct
  <2>6. Len(write_queue) = 0 => pending = {}
    BY <1>0, ElemsFacts
  <2>7. Store!Take(Elems(inserts'))
    <3>1. Store!Cardinality(pending) >= InsertThreshold \/ force_commit
      BY <2>1, <2>5, SameCardinality
    <3>2. Elems(inserts') # {} \/ pending = {}
      BY <2>1, <2>3, <2>6
    <3>3. force_commit' = force_commit \/ (force_commit' = FALSE /\ pending' = {})
      BY <2>1, <2>3
    <3>4. force_commit' \in {force_commit, FALSE}
      BY <3>3, Zenon
    <3>5. force_commit /\ ~force_commit' => pending' = {}
      BY <3>3, Zenon
    <3>. QED  BY <2>2, <2>3, <2>4, <3>1, <3>2, <3>4, <3>5, Zenon DEF Store!Take
  <2>. QED  BY <2>3, <2>7 DEF Store!Next
<1>5. CASE CommitBatch
  <2>1. /\ writer = "image" /\ writer' = "clear" /\ Commit(Len(inserts))
        /\ row > Len(inserts)
        /\ UNCHANGED <<write_queue, inserts, force_commit>>
    BY <1>5 DEF CommitBatch, queueVars
  <2>2. tx.open /\ tx.tile = Elems(inserts)
    <3>1. tx.open /\ row = Len(inserts) + 1 /\ tx.tile = {inserts[i] : i \in 1..row - 1}
      BY <1>0, <2>1 DEF TxIsPrefix
    <3>2. row - 1 = Len(inserts)
      BY <1>0, <3>1
    <3>. QED  BY <1>0, <3>1, <3>2, ElemsFacts
  <2>3. tile' = tile \cup Elems(inserts) \/ tile' = tile
    BY <1>0, <2>1, <2>2, CommitWhole
  <2>4. writing = Elems(inserts) /\ writing' = {} /\ pending' = pending
    BY <2>1
  <2>. QED  BY <2>1, <2>3, <2>4 DEF Store!Next, Store!Store, Store!Drop
<1>6. CASE Crash
  <2>1. /\ write_queue' = <<>> /\ inserts' = <<>> /\ force_commit' = FALSE
        /\ writer' = "wait" /\ tile' = tile
    BY <1>6 DEF Crash, DbCrash
  <2>. QED  BY <1>0, <2>1 DEF Store!Next, Store!Crash
<1>7. CASE Clear
  <2>1. /\ writer = "clear" /\ writer' = "wait" /\ inserts' = <<>>
        /\ UNCHANGED <<write_queue, tile, force_commit>>
    BY <1>7 DEF Clear, dbVars
  <2>. QED  BY <1>0, <2>1 DEF Store!storeVars
<1>8. CASE Begin
  <2>1. /\ UNCHANGED <<write_queue, inserts, tile, force_commit>>
        /\ writer # "clear" /\ writer' # "clear"
    BY <1>0, <1>8 DEF Begin, BeginOk, BeginRefused, TxIsPrefix, queueVars
  <2>. QED  BY <1>1, <2>1
<1>9. ASSUME StepImage \/ StepPosition PROVE UNCHANGED Store!storeVars
  <2>1. tx.open /\ UNCHANGED <<write_queue, inserts, force_commit>>
    BY <1>0, <1>9 DEF StepImage, StepPosition, TxIsPrefix, queueVars
  <2>2. tile' = tile /\ writer # "clear" /\ writer' # "clear"
    BY <1>9, <2>1, NoStepFails DEF StepImage, StepPosition, InsertImage, InsertPosition
  <2>. QED  BY <1>1, <2>1, <2>2
<1>10. ASSUME NEW p \in Threads, Post(p) PROVE UNCHANGED Store!storeVars
  <2>1. UNCHANGED <<write_queue, inserts, writer, tile, force_commit>>
    BY <1>10 DEF Post, writerVars, dbVars
  <2>. QED  BY <1>1, <2>1
<1>11. ASSUME Wait \/ TooFew PROVE UNCHANGED Store!storeVars
  <2>1. /\ UNCHANGED <<write_queue, inserts, tile, force_commit>>
        /\ writer # "clear" /\ writer' # "clear"
    BY <1>11 DEF Wait, TooFew, queueVars, dbVars
  <2>. QED  BY <1>1, <2>1
<1>12. CASE UNCHANGED vars
  BY <1>1, <1>12 DEF vars, queueVars, writerVars, dbVars
<1>. QED
  BY <1>2, <1>3, <1>4, <1>5, <1>6, <1>7, <1>8, <1>9, <1>10, <1>11, <1>12
     DEF Next, Writer

(* Whatever the number of threads and writes and whatever the thresholds,  *)
(* the queue and the two tables are the store of TileStore as long as no   *)
(* INSERT fails alone: statement by statement execution, failed COMMITs,   *)
(* overtaking pushes and crashes never leave a part of a batch in table    *)
(* tile, nor is a requested commit met by a batch that leaves writes in    *)
(* the queue.                                                              *)
THEOREM QueueIsStore ==
  ASSUME WholeBatchFaults
  PROVE  Spec => ImplementsStore
<1>1. Init => Store!Init
  <2>. SUFFICES ASSUME Init PROVE Store!Init
    OBVIOUS
  <2>1. Elems(<<>>) = {}
    BY ElemsFacts
  <2>. QED  BY <2>1 DEF Init, DbInit, Store!Init
<1>2. StoreInv /\ [Next]_vars => StoreInv'
  BY StoreStep
<1>3. StoreInv /\ [Next]_vars => [Store!Next]_Store!storeVars
  BY StepRefines
<1>. QED  BY <1>1, <1>2, <1>3, StoreInit, PTL DEF Spec, ImplementsStore, Store!Spec

-----------------------------------------------------------------------------
(* Whatever fails: the tile rows without an image that are committed, that *)
(* the open transaction would commit, or that the next statement inserts.  *)
InTx == tx.tile \cup (IF writer = "position" THEN {inserts[row]} ELSE {})
Missing == Dangling \cup {w \in InTx : ImageHash[w] \notin image \cup tx.image}

MissingInv == IsFiniteSet(Missing) /\ Cardinality(Missing) <= faults

(* A step that brings nothing new to Missing, or one write by a fault.     *)
LEMMA MissingGrows ==
  ASSUME MissingInv, faults \in Nat, NEW w,
         \/ Missing' \subseteq Missing /\ faults' \in {faults, faults + 1}
         \/ Missing' \subseteq Missing \cup {w} /\ faults' = faults + 1
  PROVE  MissingInv'
<1>1. IsFiniteSet(Missing) /\ Cardinality(Missing) \in Nat /\ Cardinality(Missing) <= faults
  BY FS_CardinalityType DEF MissingInv
<1>2. CASE Missing' \subseteq Missing /\ faults' \in {faults, faults + 1}
  <2>1. IsFiniteSet(Missing') /\ Cardinality(Missing') <= Cardinality(Missing)
    BY <1>1, <1>2, FS_Subset
  <2>2. Cardinality(Missing') \in Nat
    BY <2>1, FS_CardinalityType
  <2>. QED  BY <1>1, <1>2, <2>1, <2>2 DEF MissingInv
<1>3. CASE Missing' \subseteq Missing \cup {w} /\ faults' = faults + 1
  <2>1. /\ IsFiniteSet(Missing \cup {w})
        /\ Cardinality(Missing \cup {w}) <= Cardinality(Missing) + 1
    <3>1. CASE w \in Missing
      <4>1. Missing \cup {w} = Missing
        BY <3>1
      <4>2. Cardinality(Missing) <= Cardinality(Missing) + 1
        BY <1>1
      <4>. QED  BY <1>1, <4>1, <4>2, Zenon
    <3>2. CASE w \notin Missing
      <4>1. /\ IsFiniteSet(Missing \cup {w})
            /\ Cardinality(Missing \cup {w}) = Cardinality(Missing) + 1
        BY <1>1, <3>2, FS_AddElement
      <4>. QED  BY <1>1, <4>1
    <3>. QED  BY <3>1, <3>2
  <2>2. IsFiniteSet(Missing') /\ Cardinality(Missing') <= Cardinality(Missing \cup {w})
    BY <1>3, <2>1, FS_Subset
  <2>3. Cardinality(Missing') \in Nat /\ Cardinality(Missing \cup {w}) \in Nat
    BY <2>1, <2>2, FS_CardinalityType
  <2>. QED  BY <1>1, <1>3, <2>1, <2>2, <2>3 DEF MissingInv
<1>. QED  BY <1>2, <1>3

(* Every step keeps the bound: the two statements of a row are next to     *)
(* each other, so what one of them loses is at most that row.              *)
LEMMA MissingStep == TypeInv /\ MissingInv /\ [Next]_vars => MissingInv'
<1>. SUFFICES ASSUME TypeInv, MissingInv, [Next]_vars PROVE MissingInv'
  OBVIOUS
<1>0. /\ TypeOK /\ faults \in Nat
      /\ tx \in [open : BOOLEAN, image : SUBSET Images, tile : SUBSET Writes]
      /\ ~tx.open => tx.image = {} /\ tx.tile = {}
  BY DbAssumption DEF TypeInv, TypeOK, DbTypeOK, NoTx
<1>. USE DEF Missing, Dangling, InTx
<1>1. ASSUME UNCHANGED <<image, tile, tx, faults>>, writer # "position", writer' # "position"
      PROVE  MissingInv'
  BY <1>0, <1>1, MissingGrows
<1>2. ASSUME UNCHANGED <<image, tile, tx, faults, inserts, writer, row>> PROVE MissingInv'
  BY <1>0, <1>2, MissingGrows
<1>3. CASE StepImage
  <2>1. /\ writer = "image" /\ writer' = "position" /\ UNCHANGED <<inserts, row>>
        /\ InsertImage(inserts[row]) \/ StepFails
    BY <1>3 DEF StepImage
  <2>2. CASE InsertImage(inserts[row])
    <3>1. tile' = tile /\ faults' = faults
      BY <2>2 DEF InsertImage
    <3>2. CASE tx.open
      <4>1. image' = image /\ tx'.image = tx.image \cup {ImageHash[inserts[row]]}
            /\ tx'.tile = tx.tile
        BY <1>0, <2>2, <3>2 DEF InsertImage
      <4>2. Missing' \subseteq Missing
        BY <2>1, <3>1, <4>1
      <4>. QED  BY <1>0, <3>1, <4>2, MissingGrows
    <3>3. CASE ~tx.open
      <4>1. image' = image \cup {ImageHash[inserts[row]]} /\ tx' = tx
        BY <2>2, <3>3 DEF InsertImage
      <4>2. Missing' \subseteq Missing
        BY <2>1, <3>1, <4>1
      <4>. QED  BY <1>0, <3>1, <4>2, MissingGrows
    <3>. QED  BY <3>2, <3>3
  <2>3. CASE StepFails
    <3>1. /\ tile' = tile /\ image' = image /\ faults' = faults + 1
          /\ tx' = tx \/ (tx'.image = {} /\ tx'.tile = {})
      BY <2>3 DEF StepFails, Fault, NoTx
    <3>2. Missing' \subseteq Missing \cup {inserts[row]}
      BY <2>1, <3>1
    <3>. QED  BY <1>0, <3>1, <3>2, MissingGrows
  <2>. QED  BY <2>1, <2>2, <2>3
<1>4. CASE StepPosition
  <2>1. /\ writer = "position" /\ writer' = "image" /\ inserts' = inserts
        /\ InsertPosition(inserts[row]) \/ StepFails
    BY <1>4 DEF StepPosition
  <2>2. CASE InsertPosition(inserts[row])
    <3>1. image' = image /\ faults' = faults
      BY <2>2 DEF InsertPosition
    <3>2. CASE tx.open
      <4>1. tile' = tile /\ tx'.tile = tx.tile \cup {inserts[row]} /\ tx'.image = tx.image
        BY <1>0, <2>2, <3>2 DEF InsertPosition
      <4>2. Missing' \subseteq Missing
        BY <2>1, <3>1, <4>1
      <4>. QED  BY <1>0, <3>1, <4>2, MissingGrows
    <3>3. CASE ~tx.open
      <4>1. tile' = tile \cup {inserts[row]} /\ tx' = tx
        BY <2>2, <3>3 DEF InsertPosition
      <4>2. Missing' \subseteq Missing
        BY <1>0, <2>1, <3>1, <3>3, <4>1
      <4>. QED  BY <1>0, <3>1, <4>2, MissingGrows
    <3>. QED  BY <3>2, <3>3
  <2>3. CASE StepFails
    <3>1. /\ tile' = tile /\ image' = image /\ faults' = faults + 1
          /\ tx' = tx \/ (tx'.image = {} /\ tx'.tile = {})
      BY <2>3 DEF StepFails, Fault, NoTx
    <3>2. Missing' \subseteq Missing
      BY <2>1, <3>1
    <3>. QED  BY <1>0, <3>1, <3>2, MissingGrows
  <2>. QED  BY <2>1, <2>2, <2>3
<1>5. CASE CommitBatch
  <2>1. writer = "image" /\ writer' = "clear" /\ Commit(Len(inserts))
    BY <1>5 DEF CommitBatch
  <2>2. CASE /\ image' = image \cup tx.image /\ tile' = tile \cup tx.tile
             /\ tx' = NoTx /\ faults' = faults
    <3>1. Missing' \subseteq Missing
      BY <2>1, <2>2 DEF NoTx
    <3>. QED  BY <1>0, <2>2, <3>1, MissingGrows
  <2>3. CASE UNCHANGED <<image, tile, tx, faults>>
    BY <1>1, <2>1, <2>3
  <2>4. CASE /\ faults' = faults + 1 /\ tx' \in {NoTx, tx}
             /\ UNCHANGED <<image, tile>>
    <3>1. Missing' \subseteq Missing
      BY <2>1, <2>4 DEF NoTx
    <3>. QED  BY <1>0, <2>4, <3>1, MissingGrows
  <2>. QED  BY <2>1, <2>2, <2>3, <2>4 DEF Commit, Fault
<1>6. CASE Crash
  <2>1. /\ UNCHANGED <<image, tile, faults>> /\ tx'.image = {} /\ tx'.tile = {}
        /\ writer' = "wait"
    BY <1>6 DEF Crash, DbCrash, NoTx
  <2>2. Missing' \subseteq Missing
    BY <2>1
  <2>. QED  BY <1>0, <2>1, <2>2, MissingGrows
<1>7. CASE Begin
  <2>1. writer # "position" /\ writer' # "position" /\ UNCHANGED <<image, tile, faults>>
    BY <1>7 DEF Begin, BeginOk, BeginRefused, dbVars
  <2>2. tx' = tx \/ (tx'.image = {} /\ tx'.tile = {})
    BY <1>7 DEF Begin, BeginOk, BeginRefused, dbVars, NoTx
  <2>3. Missing' \subseteq Missing
    BY <1>0, <2>1, <2>2, <1>7 DEF Begin, BeginOk, BeginRefused
  <2>. QED  BY <1>0, <2>1, <2>3, MissingGrows
<1>8. ASSUME DrainFull \/ DrainAll \/ Wait \/ TooFew \/ Clear PROVE MissingInv'
  <2>1. writer # "position" /\ writer' # "position" /\ UNCHANGED <<image, tile, tx, faults>>
    BY <1>8 DEF DrainFull, DrainAll, Wait, TooFew, Clear, Populate, dbVars
  <2>. QED  BY <1>1, <2>1
<1>9. ASSUME NEW p \in Threads,
             RequestCommit(p) \/ Post(p) \/ \E w \in Writes : Push(p, w)
      PROVE  MissingInv'
  <2>1. UNCHANGED <<image, tile, tx, faults, inserts, writer, row>>
    BY <1>9 DEF RequestCommit, Post, Push, writerVars, dbVars
  <2>. QED  BY <1>2, <2>1
<1>10. CASE UNCHANGED vars
  BY <1>2, <1>10 DEF vars, writerVars, dbVars
<1>. QED
  BY <1>3, <1>4, <1>5, <1>6, <1>7, <1>8, <1>9, <1>10 DEF Next, Writer

(* Whatever fails - INSERTs, whole transactions, COMMITs, the process - in *)
(* whatever number and order, there are never more tile rows without an    *)
(* image than statements that failed.                                      *)
THEOREM FaultsBoundDangling == Spec => []DanglingBounded
<1>1. Init => MissingInv
  <2>. SUFFICES ASSUME Init PROVE MissingInv
    OBVIOUS
  <2>1. Missing = {} /\ faults = 0
    BY DEF Init, DbInit, NoTx, Missing, Dangling, InTx
  <2>. QED  BY <2>1, FS_EmptySet DEF MissingInv
<1>2. TypeInv /\ MissingInv => DanglingBounded
  <2>. SUFFICES ASSUME TypeInv, MissingInv PROVE DanglingBounded
    OBVIOUS
  <2>1. Dangling \subseteq Missing
    BY DEF Missing
  <2>2. /\ IsFiniteSet(Missing) /\ IsFiniteSet(Dangling)
        /\ Cardinality(Dangling) <= Cardinality(Missing)
    BY <2>1, FS_Subset DEF MissingInv
  <2>3. Cardinality(Missing) \in Nat /\ Cardinality(Dangling) \in Nat /\ faults \in Nat
    BY <2>2, FS_CardinalityType, DbAssumption DEF TypeInv, TypeOK, DbTypeOK
  <2>. QED  BY <2>2, <2>3 DEF MissingInv, DanglingBounded
<1>. QED  BY <1>1, <1>2, TypeInit, TypeStep, MissingStep, PTL DEF Spec

-----------------------------------------------------------------------------
(***************************************************************************)
(* The ring of ts_queue.c, in which the write queue and the task pool keep *)
(* their items: for every capacity it is well typed and implements Fifo.   *)
(***************************************************************************)
(* Half of a capacity of two or more is at least one slot. *)
LEMMA Grows ==
  ASSUME NEW n \in Nat, n >= 2
  PROVE  /\ (n * 3) \div 2 \in Nat
         /\ (n * 3) \div 2 > n
  BY SMT

-----------------------------------------------------------------------------
(* A grown ring holds the contents of the old one from its first slot on.  *)
LEMMA GrownContents ==
  ASSUME RingTypeOK, length = capacity, NEW cap \in Nat, cap > capacity
  PROVE  /\ Grown(cap) \in [0..cap - 1 -> Values \cup {"zero"}]
         /\ \A i \in 0..length - 1 :
              Grown(cap)[i] = items[(start + i) % capacity]
<1>1. /\ capacity \in Nat \ {0} /\ start \in 0..capacity - 1
      /\ items \in [0..capacity - 1 -> Values \cup {"zero"}]
  BY DEF RingTypeOK
<1>2. ASSUME NEW i \in 0..length - 1
      PROVE  Grown(cap)[i] = items[(start + i) % capacity]
  <2>1. (start + i) % capacity =
          IF start + i < capacity THEN start + i ELSE start + i - capacity
    BY <1>1
  <2>. QED  BY <1>1, <2>1 DEF Grown
<1>3. ASSUME NEW s \in 0..cap - 1
      PROVE  Grown(cap)[s] \in Values \cup {"zero"}
  BY <1>1, <1>3 DEF Grown
<1>. QED  BY <1>2, <1>3 DEF Grown

(* What a push leaves in the ring: the old contents, then the new value.   *)
LEMMA PushContents ==
  ASSUME RingTypeOK, NEW v \in Values, PushValue(v)
  PROVE  /\ RingTypeOK'
         /\ \A i \in 0..length - 1 :
              items'[(start' + i) % capacity'] = items[(start + i) % capacity]
         /\ items'[(start' + length) % capacity'] = v
<1>0. /\ capacity \in Nat /\ capacity >= 2
      /\ start \in 0..capacity - 1
      /\ length \in 0..capacity /\ length' = length + 1
  BY DEF RingTypeOK, PushValue
<1>1. /\ items \in [0..capacity - 1 -> Values \cup {"zero"}]
      /\ \A i \in 0..length - 1 : items[(start + i) % capacity] \in Values
      /\ popped' = <<>> \/ \E u \in Values : popped' = <<u>>
  BY DEF RingTypeOK, PushValue
<1>2. SUFFICES
        /\ capacity' \in Nat /\ capacity' >= 2
        /\ start' \in 0..capacity' - 1
        /\ length' \in 0..capacity'
        /\ items' \in [0..capacity' - 1 -> Values \cup {"zero"}]
        /\ \A i \in 0..length - 1 :
             items'[(start' + i) % capacity'] = items[(start + i) % capacity]
        /\ items'[(start' + length) % capacity'] = v
  <2>1. ASSUME NEW i \in 0..length' - 1
        PROVE  items'[(start' + i) % capacity'] \in Values
    <3>1. CASE i = length
      BY <1>2, <3>1
    <3>2. CASE i \in 0..length - 1
      BY <1>1, <1>2, <3>2
    <3>3. i = length \/ i \in 0..length - 1
      BY <1>0
    <3>. QED  BY <3>1, <3>2, <3>3
  <2>. QED  BY <1>0, <1>1, <1>2, <2>1 DEF RingTypeOK
<1>3. CASE PushGrowing(v)
  <2>. DEFINE cap == (capacity * 3) \div 2
  <2>1. length = capacity /\ capacity' = cap /\ start' = 0
        /\ items' = [Grown(cap) EXCEPT ![length] = v]
    BY <1>3 DEF PushGrowing
  <2>2. cap \in Nat /\ cap > capacity
    BY <1>0, Grows
  <2>. HIDE DEF cap
  <2>3. /\ Grown(cap) \in [0..cap - 1 -> Values \cup {"zero"}]
        /\ \A i \in 0..length - 1 :
             Grown(cap)[i] = items[(start + i) % capacity]
    BY <2>1, <2>2, GrownContents
  <2>4. \A i \in 0..length : (start' + i) % capacity' = i
    <3>. SUFFICES ASSUME NEW i \in 0..length
         PROVE  (start' + i) % capacity' = i
      OBVIOUS
    <3>1. i \in Nat /\ i < cap /\ cap \in Nat \ {0}
      BY <1>0, <2>1, <2>2
    <3>2. i % cap = i
      BY <3>1
    <3>. QED  BY <2>1, <3>1, <3>2
  <2>5. items' \in [0..capacity' - 1 -> Values \cup {"zero"}]
    BY <1>0, <2>1, <2>2, <2>3
  <2>6. ASSUME NEW i \in 0..length - 1
        PROVE  items'[(start' + i) % capacity'] = items[(start + i) % capacity]
    <3>1. (start' + i) % capacity' = i
      BY <1>0, <2>4
    <3>2. i \in 0..cap - 1 /\ i # length
      BY <1>0, <2>1, <2>2
    <3>. QED  BY <2>1, <2>3, <3>1, <3>2
  <2>7. items'[(start' + length) % capacity'] = v
    <3>1. (start' + length) % capacity' = length
      BY <1>0, <2>4
    <3>2. length \in 0..cap - 1
      BY <1>0, <2>1, <2>2
    <3>. QED  BY <2>1, <2>3, <3>1, <3>2
  <2>. QED  BY <1>0, <2>1, <2>2, <2>5, <2>6, <2>7
<1>4. CASE PushInPlace(v)
  <2>1. /\ length < capacity /\ capacity' = capacity /\ start' = start
        /\ items' = [items EXCEPT ![(start + length) % capacity] = v]
    BY <1>4 DEF PushInPlace
  <2>2. \A i \in 0..length :
          (start + i) % capacity =
            IF start + i < capacity THEN start + i ELSE start + i - capacity
    <3>. SUFFICES ASSUME NEW i \in 0..length
         PROVE  (start + i) % capacity =
                  IF start + i < capacity THEN start + i ELSE start + i - capacity
      OBVIOUS
    <3>. QED  BY <1>0, <2>1
  <2>3. (start + length) % capacity \in 0..capacity - 1
    BY <1>0
  <2>4. ASSUME NEW i \in 0..length - 1
        PROVE  items'[(start + i) % capacity] = items[(start + i) % capacity]
    <3>1. (start + i) % capacity # (start + length) % capacity
      BY <1>0, <2>1, <2>2
    <3>2. (start + i) % capacity \in 0..capacity - 1
      BY <1>0
    <3>. QED  BY <1>1, <2>1, <3>1, <3>2
  <2>5. items'[(start + length) % capacity] = v
    BY <1>1, <2>1, <2>3
  <2>. QED  BY <1>0, <1>1, <2>1, <2>3, <2>4, <2>5
<1>. QED  BY <1>3, <1>4 DEF PushValue

(* What a pop leaves in the ring: all but the oldest value. *)
LEMMA PopContents ==
  ASSUME RingTypeOK, PopValue
  PROVE  /\ RingTypeOK'
         /\ items[start % capacity] = items[start]
         /\ \A i \in 0..length' - 1 :
              items'[(start' + i) % capacity'] = items[(start + i + 1) % capacity]
<1>0. /\ capacity \in Nat /\ capacity >= 2
      /\ start \in 0..capacity - 1
      /\ length \in 1..capacity /\ length' = length - 1
      /\ start' = (start + 1) % capacity
  BY DEF RingTypeOK, PopValue
<1>1. /\ items \in [0..capacity - 1 -> Values \cup {"zero"}]
      /\ \A i \in 0..length - 1 : items[(start + i) % capacity] \in Values
      /\ popped' = <<items[start]>>
      /\ items' = items /\ capacity' = capacity
  BY DEF RingTypeOK, PopValue
<1>2. start % capacity = start
  BY <1>0
<1>3. start' = IF start + 1 < capacity THEN start + 1 ELSE start + 1 - capacity
  BY <1>0
<1>8. start' \in 0..capacity - 1
  BY <1>0
<1>4. ASSUME NEW i \in 0..length' - 1
      PROVE  (start' + i) % capacity = (start + i + 1) % capacity
  <2>1. (start + i + 1) % capacity =
          IF start + i + 1 < capacity THEN start + i + 1 ELSE start + i + 1 - capacity
    BY <1>0
  <2>2. (start' + i) % capacity =
          IF start' + i < capacity THEN start' + i ELSE start' + i - capacity
    BY <1>0, <1>8
  <2>. QED  BY <1>0, <1>3, <2>1, <2>2
<1>5. \A i \in 0..length' - 1 :
        items'[(start' + i) % capacity'] = items[(start + i + 1) % capacity]
  BY <1>1, <1>4
<1>6. \A i \in 0..length' - 1 : items'[(start' + i) % capacity'] \in Values
  <2>. SUFFICES ASSUME NEW i \in 0..length' - 1
       PROVE  items'[(start' + i) % capacity'] \in Values
    OBVIOUS
  <2>1. i + 1 \in 0..length - 1 /\ start + i + 1 = start + (i + 1)
    BY <1>0
  <2>. QED  BY <1>1, <1>5, <2>1
<1>7. items[start] \in Values
  <2>1. 0 \in 0..length - 1 /\ start + 0 = start
    BY <1>0
  <2>. QED  BY <1>1, <1>2, <2>1
<1>9. RingTypeOK'
  <2>1. length' \in 0..capacity'
    BY <1>0, <1>1
  <2>2. popped' = <<>> \/ \E v \in Values : popped' = <<v>>
    BY <1>1, <1>7
  <2>. QED  BY <1>0, <1>1, <1>6, <1>8, <2>1, <2>2 DEF RingTypeOK
<1>. QED  BY <1>2, <1>5, <1>9

-----------------------------------------------------------------------------
(* The empty ring ts_queue_init makes is of its type. *)
LEMMA RingTypeInit == RingInit => RingTypeOK
  BY RingAssumption DEF RingInit, RingTypeOK

(* Pushes, with and without growth, and pops keep the types. *)
LEMMA RingTypeStep == RingTypeOK /\ [RingNext]_ringVars => RingTypeOK'
<1>. SUFFICES ASSUME RingTypeOK, [RingNext]_ringVars PROVE RingTypeOK'
  OBVIOUS
<1>1. ASSUME NEW v \in Values, PushValue(v) PROVE RingTypeOK'
  BY <1>1, PushContents
<1>2. CASE PopValue
  BY <1>2, PopContents
<1>3. CASE PopNothing \/ UNCHANGED ringVars
  BY <1>3 DEF PopNothing, ringVars, RingTypeOK
<1>. QED  BY <1>1, <1>2, <1>3 DEF RingNext

(* Whatever is pushed and popped, the indices stay inside the ring and the *)
(* slots between start and start + length hold pushed values.              *)
THEOREM RingTypeCorrect == RingSpec => []RingTypeOK
<1>. QED  BY RingTypeInit, RingTypeStep, PTL DEF RingSpec

-----------------------------------------------------------------------------
(* The contents are as many values as length says, read from start on      *)
(* around the end of the ring.                                             *)
LEMMA ContentsType ==
  ASSUME RingTypeOK
  PROVE  /\ Contents \in Seq(Values) /\ Len(Contents) = length
         /\ \A i \in 1..length : Contents[i] = items[(start + (i - 1)) % capacity]
<1>1. length \in Nat /\ start \in Nat
  BY DEF RingTypeOK
<1>2. ASSUME NEW i \in 1..length
      PROVE  /\ Contents[i] = items[(start + (i - 1)) % capacity]
             /\ Contents[i] \in Values
  <2>1. i - 1 \in 0..length - 1 /\ start + i - 1 = start + (i - 1)
    BY <1>1
  <2>. QED  BY <2>1 DEF Contents, RingTypeOK
<1>3. Contents \in [1..length -> Values]
  BY <1>2 DEF Contents
<1>. QED  BY <1>1, <1>2, <1>3

(* The same after the step. *)
LEMMA ContentsTypePrime ==
  ASSUME RingTypeOK'
  PROVE  /\ Contents' \in Seq(Values) /\ Len(Contents') = length'
         /\ \A i \in 1..length' :
              Contents'[i] = items'[(start' + (i - 1)) % capacity']
<1>1. PICK n \in Nat, s \in Nat : n = length' /\ s = start'
  BY DEF RingTypeOK
<1>2. ASSUME NEW i \in 1..n
      PROVE  /\ Contents'[i] = items'[(start' + (i - 1)) % capacity']
             /\ Contents'[i] \in Values
  <2>1. i - 1 \in 0..n - 1 /\ s + i - 1 = s + (i - 1)
    OBVIOUS
  <2>. QED  BY <1>1, <2>1 DEF Contents, RingTypeOK
<1>3. Contents' \in [1..n -> Values]
  BY <1>1, <1>2 DEF Contents
<1>. QED  BY <1>1, <1>2, <1>3

(* ts_queue_push appends its value to the contents, also when the ring is  *)
(* copied into a larger one.                                               *)
LEMMA PushRefines ==
  ASSUME RingTypeOK, NEW v \in Values, PushValue(v)
  PROVE  Queue!Push(v)
<1>1. /\ RingTypeOK'
      /\ length \in Nat /\ length' = length + 1 /\ popped' = popped
  BY PushContents DEF PushValue, RingTypeOK
<1>2. /\ Contents \in Seq(Values) /\ Len(Contents) = length
      /\ Contents' \in Seq(Values) /\ Len(Contents') = length + 1
  BY <1>1, ContentsType, ContentsTypePrime
<1>3. ASSUME NEW i \in 1..length PROVE Contents'[i] = Contents[i]
  <2>1. i - 1 \in 0..length - 1 /\ i \in 1..length'
    BY <1>1
  <2>2. items'[(start' + (i - 1)) % capacity'] = items[(start + (i - 1)) % capacity]
    BY <2>1, PushContents
  <2>. QED  BY <1>1, <2>1, <2>2, ContentsType, ContentsTypePrime
<1>4. Contents'[length + 1] = v
  <2>1. length + 1 \in 1..length' /\ length + 1 - 1 = length
    BY <1>1
  <2>2. items'[(start' + length) % capacity'] = v
    BY PushContents
  <2>. QED  BY <1>1, <2>1, <2>2, ContentsTypePrime
<1>5. Contents' = Append(Contents, v)
  <2>1. /\ Append(Contents, v) \in Seq(Values)
        /\ Len(Append(Contents, v)) = length + 1
        /\ \A i \in 1..length : Append(Contents, v)[i] = Contents[i]
        /\ Append(Contents, v)[length + 1] = v
    BY <1>2, AppendProperties
  <2>2. \A i \in 1..length + 1 : i = length + 1 \/ i \in 1..length
    BY <1>1
  <2>3. \A i \in 1..length + 1 : Contents'[i] = Append(Contents, v)[i]
    BY <1>3, <1>4, <2>1, <2>2
  <2>. QED  BY <1>2, <2>1, <2>3, SeqEqual
<1>. QED  BY <1>1, <1>5 DEF Queue!Push

(* ts_queue_pop returns the oldest of the contents and leaves the rest. *)
LEMMA PopRefines ==
  ASSUME RingTypeOK, PopValue
  PROVE  Queue!PopValue
<1>0. RingTypeOK'
  BY PopContents
<1>1. /\ length \in Nat /\ length > 0
      /\ length' = length - 1 /\ popped' = <<items[start]>>
      /\ start \in Nat
  BY DEF PopValue, RingTypeOK
<1>2. /\ Contents \in Seq(Values) /\ Len(Contents) = length
      /\ Contents' \in Seq(Values) /\ Len(Contents') = length - 1
      /\ Contents # <<>>
  BY <1>0, <1>1, ContentsType, ContentsTypePrime
<1>3. Head(Contents) = items[start]
  <2>1. 1 \in 1..length /\ start + (1 - 1) = start
    BY <1>1
  <2>2. Contents[1] = items[start % capacity]
    BY <2>1, ContentsType
  <2>. QED  BY <1>2, <2>2, PopContents
<1>4. ASSUME NEW i \in 1..length - 1 PROVE Contents'[i] = Contents[i + 1]
  <2>1. /\ i - 1 \in 0..length' - 1 /\ i \in 1..length' /\ i + 1 \in 1..length
        /\ start + (i - 1) + 1 = start + (i + 1 - 1)
    BY <1>1
  <2>2. items'[(start' + (i - 1)) % capacity'] = items[(start + (i - 1) + 1) % capacity]
    BY <2>1, PopContents
  <2>3. Contents'[i] = items'[(start' + (i - 1)) % capacity']
    BY <1>0, <2>1, ContentsTypePrime
  <2>4. Contents[i + 1] = items[(start + (i + 1 - 1)) % capacity]
    BY <2>1, ContentsType
  <2>. QED  BY <2>1, <2>2, <2>3, <2>4
<1>5. Contents' = Tail(Contents)
  <2>1. /\ Tail(Contents) \in Seq(Values)
        /\ Len(Tail(Contents)) = length - 1
        /\ \A i \in 1..length - 1 : Tail(Contents)[i] = Contents[i + 1]
    BY <1>2, HeadTailProperties
  <2>. QED  BY <1>2, <1>4, <2>1, SeqEqual
<1>. QED  BY <1>1, <1>2, <1>3, <1>5 DEF Queue!PopValue

(* Every step of the ring is a step of the queue it stands for. *)
LEMMA RingStepRefines == RingTypeOK /\ [RingNext]_ringVars => [Queue!Next]_Queue!fifoVars
<1>. SUFFICES ASSUME RingTypeOK, [RingNext]_ringVars PROVE [Queue!Next]_Queue!fifoVars
  OBVIOUS
<1>1. ASSUME NEW v \in Values, PushValue(v) PROVE Queue!Next
  BY <1>1, PushRefines DEF Queue!Next
<1>2. CASE PopValue
  BY <1>2, PopRefines DEF Queue!Next
<1>3. CASE PopNothing
  <2>1. Contents = <<>>
    BY <1>3, ContentsType DEF PopNothing
  <2>2. Contents' = Contents
    BY <1>3 DEF PopNothing, Contents
  <2>. QED  BY <1>3, <2>1, <2>2 DEF PopNothing, Queue!PopNothing, Queue!Next
<1>4. CASE UNCHANGED ringVars
  BY <1>4 DEF ringVars, Contents, Queue!fifoVars
<1>. QED  BY <1>1, <1>2, <1>3, <1>4 DEF RingNext

(* The ring is a first-in first-out queue: nothing is lost, repeated or    *)
(* overtaken by a wrap or by the copy to a larger ring.                    *)
THEOREM RingIsFifo == RingSpec => ImplementsFifo
<1>1. RingInit => Queue!Init
  <2>. SUFFICES ASSUME RingInit PROVE Queue!Init
    OBVIOUS
  <2>1. RingTypeOK /\ length = 0 /\ popped = <<>>
    BY RingTypeInit DEF RingInit
  <2>2. Contents = <<>>
    BY <2>1, ContentsType
  <2>. QED  BY <2>1, <2>2 DEF Queue!Init
<1>. QED  BY <1>1, RingStepRefines, RingTypeCorrect, PTL DEF RingSpec, ImplementsFifo, Queue!Spec
=============================================================================
