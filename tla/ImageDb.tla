------------------------------ MODULE ImageDb ------------------------------
(***************************************************************************)
(* The write connection of the tile database (image_db.c): the tables      *)
(* image and tile, the transaction image_db_insert_batch runs, and the WAL *)
(* checkpoint counter of that connection.                                  *)
(*                                                                         *)
(* A write is one image_db_insert.  Its row in table tile is named by the  *)
(* write itself, because the table has no unique key: two writes of one    *)
(* location are two rows.  Its row in table image is named by the image    *)
(* hash, the primary key.  Images are abstracted to their hashes.          *)
(*                                                                         *)
(* What SQLite answers is a choice limited by DbFaults:                    *)
(*   "step"       an INSERT fails and the transaction stays open (another  *)
(*                connection holds the write lock beyond the busy timeout) *)
(*   "rollback"   an INSERT fails and SQLite itself rolls the transaction  *)
(*                back (disk full, I/O error)                              *)
(*   "commit"     the COMMIT fails and SQLite rolls the transaction back   *)
(*   "busy"       the COMMIT is refused and the transaction stays open     *)
(*                (the file is not in WAL mode, the result of the PRAGMA   *)
(*                is ignored, and a reader holds a shared lock)            *)
(*   "checkpoint" the WAL checkpoint finds a reader in its way             *)
(***************************************************************************)
EXTENDS Naturals, FiniteSets

CONSTANTS
  Writes,               (* every image_db_insert of the run *)
  ImageHash,            (* the image hash each write carries *)
  DbFaults,             (* the failures of SQLite that may occur *)
  MaxFaults,            (* bound: how many of them *)
  CheckpointThreshold   (* the 1024 of image_db_insert_batch *)

ASSUME DbAssumption ==
  /\ DbFaults \subseteq {"step", "rollback", "commit", "busy", "checkpoint"}
  /\ MaxFaults \in Nat
  /\ CheckpointThreshold \in Nat \ {0}
  /\ DOMAIN ImageHash = Writes

VARIABLES
  image,      (* committed rows of table image: a set of hashes *)
  tile,       (* committed rows of table tile: a set of writes *)
  tx,         (* the open transaction, with the rows it has not committed *)
  dbInserts,  (* image_db.inserts: rows since the last checkpoint *)
  faults      (* how many faults have occurred *)

dbVars == <<image, tile, tx, dbInserts, faults>>

Images == {ImageHash[w] : w \in Writes}
NoTx   == [open |-> FALSE, image |-> {}, tile |-> {}]

DbTypeOK ==
  /\ image \in SUBSET Images
  /\ tile \in SUBSET Writes
  /\ tx \in [open : BOOLEAN, image : SUBSET Images, tile : SUBSET Writes]
  /\ ~tx.open => tx = NoTx
  /\ dbInserts \in Nat
  /\ faults \in 0..MaxFaults

DbInit ==
  /\ image = {} /\ tile = {}
  /\ tx = NoTx
  /\ dbInserts = 0
  /\ faults = 0

Fault(kind) ==
  /\ kind \in DbFaults
  /\ faults < MaxFaults
  /\ faults' = faults + 1

-----------------------------------------------------------------------------
(* Mutant: the batch runs outside a transaction. *)
BeginOk_Autocommit == ~tx.open /\ UNCHANGED dbVars

(* BEGIN is refused exactly when a transaction is already open.            *)
BeginOk ==
  /\ ~tx.open
  /\ tx' = [NoTx EXCEPT !.open = TRUE]
  /\ UNCHANGED <<image, tile, dbInserts, faults>>

BeginRefused ==
  /\ tx.open
  /\ UNCHANGED dbVars

(* INSERT OR IGNORE INTO image; outside a transaction it commits at once.  *)
InsertImage(w) ==
  /\ IF tx.open
       THEN tx' = [tx EXCEPT !.image = @ \cup {ImageHash[w]}] /\ UNCHANGED image
       ELSE image' = image \cup {ImageHash[w]} /\ UNCHANGED tx
  /\ UNCHANGED <<tile, dbInserts, faults>>

(* INSERT INTO tile. *)
InsertPosition(w) ==
  /\ IF tx.open
       THEN tx' = [tx EXCEPT !.tile = @ \cup {w}] /\ UNCHANGED tile
       ELSE tile' = tile \cup {w} /\ UNCHANGED tx
  /\ UNCHANGED <<image, dbInserts, faults>>

(* A failed INSERT is logged and the loop goes on with the next statement. *)
StepFails ==
  /\ \/ Fault("step") /\ UNCHANGED tx
     \/ Fault("rollback") /\ tx' = NoTx
  /\ UNCHANGED <<image, tile, dbInserts>>

(* db->inserts grows by the batch whether or not the COMMIT succeeded; at  *)
(* the threshold a checkpoint is tried, which an open transaction or a     *)
(* reader makes fail, and only a successful one resets the counter.        *)
Checkpoint(count) ==
  LET n == dbInserts + count IN
  IF n < CheckpointThreshold THEN dbInserts' = n
  ELSE \/ ~tx'.open /\ dbInserts' = 0
       \/ (tx'.open \/ "checkpoint" \in DbFaults) /\ dbInserts' = n

(* Mutant: an empty batch returns before the COMMIT. *)
Commit_SkipEmpty(count) ==
  IF count = 0 THEN UNCHANGED dbVars
  ELSE /\ image' = image \cup tx.image
       /\ tile' = tile \cup tx.tile
       /\ tx' = NoTx
       /\ UNCHANGED faults
       /\ Checkpoint(count)

Commit(count) ==
  /\ \/ /\ tx.open
        /\ image' = image \cup tx.image
        /\ tile' = tile \cup tx.tile
        /\ tx' = NoTx
        /\ UNCHANGED faults
     \/ /\ ~tx.open
        /\ UNCHANGED <<image, tile, tx, faults>>
     \/ /\ tx.open
        /\ \/ Fault("commit") /\ tx' = NoTx
           \/ Fault("busy") /\ UNCHANGED tx
        /\ UNCHANGED <<image, tile>>
  /\ Checkpoint(count)

(* The process dies: an uncommitted transaction is gone with it, and the   *)
(* connection opened by the restart counts from zero.                      *)
DbCrash ==
  /\ tx' = NoTx
  /\ dbInserts' = 0
  /\ UNCHANGED <<image, tile, faults>>

-----------------------------------------------------------------------------
(* Every committed tile row joins with an image row and every image row is *)
(* some tile's: a tile image_db_exists counts is one image_db_fetch can    *)
(* return.  The two rows come from two statements; a crash or a failed     *)
(* COMMIT between them must not separate them.                             *)
TablesAgree == image = {ImageHash[w] : w \in tile}

(* A failed statement costs at most its own tile: n failures, rolled back  *)
(* transactions and crashes included, leave at most n tile rows without an *)
(* image, because every row of a batch is inserted by its own pair.        *)
Dangling == {w \in tile : ImageHash[w] \notin image}
DanglingBounded == Cardinality(Dangling) <= faults
=============================================================================
