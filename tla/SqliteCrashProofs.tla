------------------------- MODULE SqliteCrashProofs -------------------------
(***************************************************************************)
(* SqliteWal implements SnapshotStore, for every number of readers, pages, *)
(* frames, transactions, checkpoints and crashes: whatever a loss of power *)
(* leaves of the writes since the last sync, recovery finds the pages of   *)
(* the last commit, or those of the one in progress as a whole.            *)
(*                                                                         *)
(* WalInv (SqliteWalProofs) says what the running connections see.  What a *)
(* crash may leave is in CrashInv:                                         *)
(*   ValueInv  a value names the transaction that wrote it, so the frames  *)
(*             of two transactions are never equal;                        *)
(*   TailInv   the frames of the open transaction have sums that chain on  *)
(*             from the committed ones, up to the frame written over, and  *)
(*             none carries a commit mark before all of them are written;  *)
(*   FrameInv  a frame that may be on the disk is of an earlier            *)
(*             transaction, or of the open one at a place behind the log;  *)
(*   LogInv    for every header the log may have on the disk there is a    *)
(*             number of frames, all synced, that with the database show   *)
(*             the store, and no commit mark behind them can count, but    *)
(*             the one of the open transaction once all is written;        *)
(*   SaltInv   a log with frames has one header, which is on the disk, and *)
(*             its salts are those of the wal-index;                       *)
(*   DiskInv   a page with no frame, or with all frames written back, is   *)
(*             on the disk.                                                *)
(***************************************************************************)
EXTENDS SqliteWalProofs

-----------------------------------------------------------------------------
(* The values pages have: who wrote them. *)
Given == {v \in Vals : v[1] \in 0..count.tx /\ v[2] \in Nat}

(* The transaction has frames in the log. *)
Begun == InTx /\ mine.pc # "out" /\ Top > hdr.mxFrame
AllWritten == w.pc \in {"frames", "publish"} /\ w.isCommit /\ w.list = {}

(* The cache of the writer holds values of its own transaction; the one     *)
(* page a commit may write without having changed it is one it has read.   *)
CacheOk(p) ==
  /\ w.cache[p] # Torn =>
       /\ w.cache[p] \in Given
       /\ w.cache[p][1] = count.tx \/ (w.isCommit /\ w.list \subseteq {p} /\ Begun)
  /\ p \in w.list \/ (Begun /\ Own(p) # {}) => w.cache[p] # Torn
ValueInv ==
  /\ \A p \in Pages : Store[p] \in Given
  /\ InTx => \A p \in Pages : CacheOk(p)

(* The frames of the open transaction: their sums are right up to the one  *)
(* that was written over first, and the first of them is of this           *)
(* transaction.                                                            *)
BodiesOf(wal, k) == [j \in 1..k |-> Body(wal[j])]
SumTo(k) == BodiesOf(file.wal, k)
TailOk(k) ==
  /\ w.iReCksum = 0 \/ k < w.iReCksum =>
       file.wal[k].salt = mine.hdr.salt /\ file.wal[k].sum = SumTo(k)
  /\ file.wal[k].commit <=> AllWritten /\ k = w.iFrame
  /\ file.wal[k].val[1] \in 0..count.tx
TailInv ==
  /\ w.pc = "idle" \/ (InTx /\ ~Begun) => w.iReCksum = 0
  /\ w.pc \in {"restart", "reset", "reread", "loghdr", "synclog"} => w.list # {}
  /\ w.pc = "publish" => /\ AllWritten /\ w.iReCksum = 0
                         /\ \A k \in 1..MaxFrame : loose.wal[k] = {file.wal[k]}
  /\ AllWritten => Begun
  /\ Begun => /\ \A k \in hdr.mxFrame + 1..Top : TailOk(k)
              /\ w.iReCksum # 0 => w.iReCksum \in hdr.mxFrame + 1..Top
              /\ file.wal[hdr.mxFrame + 1].val[1] = count.tx

(* The commit mark of the open transaction, when all it says is written.   *)
Pending(x, n) == AllWritten /\ n = w.iFrame /\ x.sum = SumTo(n)

(* A frame of an earlier transaction, and one of the open transaction.     *)
Current == IF InTx THEN count.tx ELSE count.tx + 1
OldFrame(x) == \A j \in 1..Len(x.sum) : x.sum[j][2][1] < Current
OwnFrame(x, n) ==
  /\ Begun /\ n > hdr.mxFrame /\ Len(x.sum) > hdr.mxFrame
  /\ x.sum[hdr.mxFrame + 1][2][1] = count.tx
  /\ x.commit => Pending(x, n)
FrameOk(x, n) ==
  /\ \A j \in 1..Len(x.sum) : x.sum[j][2][1] <= count.tx
  /\ OldFrame(x) \/ OwnFrame(x, n)
FrameInv == \A n \in 1..MaxFrame : \A x \in loose.wal[n] : FrameOk(x, n)

(* What may be left of the frames up to n cannot make the mark of x valid. *)
Fits(y, x, k) == y.salt = x.salt /\ y.sum = SubSeq(x.sum, 1, k) /\ Body(y) = x.sum[k]
Harmless(x, n) == \E k \in 1..n : \A y \in loose.wal[k] : ~Fits(y, x, k)

(* For a log with this salt, d frames are on the disk and no mark behind   *)
(* them counts, but the one of the open transaction when all is written.   *)
Synced(salt, d) ==
  /\ \A k \in 1..d : /\ loose.wal[k] = {file.wal[k]}
                     /\ file.wal[k].salt = salt /\ file.wal[k].sum = SumTo(k)
  /\ d > 0 => file.wal[d].commit
MarkOf(salt, x, n) == x.commit /\ x.salt = salt /\ Len(x.sum) = n
NoMarks(salt, d) ==
  salt # 0 => \A n \in d + 1..MaxFrame : \A x \in loose.wal[n] :
                MarkOf(salt, x, n) => Pending(x, n) \/ Harmless(x, n)
(* The d frames and whatever is left of the database are the store. *)
Shows(d) == \A p \in Pages :
  IF LastFrame(d, p) = 0 THEN loose.db[p] = {Store[p]}
  ELSE file.wal[LastFrame(d, p)].val = Store[p]
Recovers(log, d) ==
  /\ Synced(log.salt, d) /\ NoMarks(log.salt, d) /\ Shows(d)
  /\ hdr.mxFrame > 0 => d = hdr.mxFrame
  /\ d > 0 => log # NoLog
LogInv ==
  /\ Synced(hdr.salt, hdr.mxFrame) /\ NoMarks(hdr.salt, hdr.mxFrame)
  /\ InTx /\ mine.pc # "out" => NoMarks(mine.hdr.salt, hdr.mxFrame)
  /\ \A log \in loose.log : \E d \in 0..MaxFrame : Recovers(log, d)

(* The header of the log. *)
Appending == w.pc \in {"frames", "publish"} \/ Begun
SaltInv ==
  /\ \A log \in loose.log : log.salt = 0 => log = NoLog
  /\ hdr.mxFrame > 0 => loose.log = {file.log} /\ file.log.salt = hdr.salt /\ hdr.salt # 0
  /\ w.pc = "synclog" \/ Appending => file.log.salt = mine.hdr.salt /\ mine.hdr.salt # 0
  /\ w.pc = "synclog" => mine.hdr.mxFrame = 0
  /\ Appending => loose.log = {file.log}
  /\ w.pc = "loghdr" /\ mine.pc = "in" /\ mine.hdr.mxFrame = hdr.mxFrame => mine.hdr.salt = hdr.salt
  /\ w.nCkpt # 0 => hdr.salt # 0

(* What the database holds of pages that have no frame is on the disk. *)
DbSynced(p) == loose.db[p] = {file.db[p]}
DiskInv == \A p \in Pages :
  /\ Last(p) = 0 => DbSynced(p)
  /\ nBackfill >= hdr.mxFrame => DbSynced(p)
  /\ w.pc = "copied" /\ w.mxSafeFrame = hdr.mxFrame => DbSynced(p)

CrashInv == ValueInv /\ TailInv /\ FrameInv /\ LogInv /\ SaltInv /\ DiskInv

-----------------------------------------------------------------------------
(* What a step changes of the log. *)
LEMMA DbKept ==
  ASSUME TypeInv, LastWritten, [Next]_vars, ~Crash
  PROVE  /\ CopyPage \/ file'.db = file.db
         /\ CopyPage \/ SyncDb \/ loose'.db = loose.db
<1>1. CASE UNCHANGED <<file, loose>>
  BY <1>1
<1>2. CASE WriteLogHeader
  <2>1. file'.db = file.db /\ loose'.db = loose.db
    BY <1>2 DEF WriteLogHeader, TypeInv
  <2>. QED  BY <2>1
<1>3. CASE WriteFrame
  BY <1>3, WriteFrameType, WriteType
<1>4. CASE RewriteChecksums
  <2>1. file'.db = file.db /\ loose'.db = loose.db
    BY <1>4 DEF RewriteChecksums, TypeInv
  <2>. QED  BY <2>1
<1>5. CASE SyncLogHeader \/ SyncFrames \/ StartBackfill
  <2>1. file' = file /\ loose' = SyncedLog
    BY <1>5 DEF SyncLogHeader, SyncFrames, StartBackfill
  <2>. QED  BY <2>1, SyncType
<1>6. CASE SyncDb
  BY <1>6 DEF SyncDb
<1>7. CASE UNCHANGED vars \/ (\E c \in Conns : BeginRead(c)) \/ (\E c \in Readers : EndRead(c))
  BY <1>1, <1>7, BeginReadIs DEF vars, EndRead
<1>8. CASE \/ BeginTx \/ Rollback \/ (\E p \in Pages : Spill(p))
           \/ (\E ps \in SUBSET Pages : Commit(ps)) \/ RestartLog \/ ResetMarks \/ ReadAgain
           \/ WriteFails \/ EndSpill \/ Publish
  BY <1>1, <1>8 DEF BeginTx, Rollback, Spill, Commit, WalFrames, RestartLog, ResetMarks,
     ReadAgain, WriteFails, EndSpill, Publish
<1>9. CASE \/ BeginCheckpoint \/ ReadMark \/ RaiseMark \/ YieldToMark \/ SkipBackfill
           \/ SetBackfill \/ CheckpointBusy \/ CheckpointOk
  BY <1>1, <1>9 DEF BeginCheckpoint, ReadMark, RaiseMark, YieldToMark, SkipBackfill,
     SetBackfill, CheckpointBusy, CheckpointOk, EndCheckpoint
<1>. QED  BY <1>2, <1>3, <1>4, <1>5, <1>6, <1>7, <1>8, <1>9 DEF Next, Transaction, RunCheckpoint

LEMMA HeaderKept ==
  ASSUME TypeInv, [Next]_vars, ~Crash, ~Publish, ~RestartLog
  PROVE  hdr' = hdr
<1>1. CASE UNCHANGED vars \/ (\E c \in Conns : BeginRead(c)) \/ (\E c \in Readers : EndRead(c))
  BY <1>1, BeginReadIs DEF vars, EndRead, shm
<1>2. CASE \/ BeginTx \/ Rollback \/ (\E p \in Pages : Spill(p))
           \/ (\E ps \in SUBSET Pages : Commit(ps)) \/ ResetMarks \/ ReadAgain
           \/ WriteLogHeader \/ SyncLogHeader \/ WriteFrame \/ WriteFails \/ EndSpill
           \/ RewriteChecksums \/ SyncFrames
  BY <1>2 DEF BeginTx, Rollback, Spill, Commit, WalFrames, ResetMarks, ReadAgain, WriteLogHeader,
     SyncLogHeader, WriteFrame, WriteFails, EndSpill, RewriteChecksums, SyncFrames, shm
<1>3. CASE \/ BeginCheckpoint \/ ReadMark \/ RaiseMark \/ YieldToMark \/ SkipBackfill
           \/ StartBackfill \/ CopyPage \/ SyncDb \/ SetBackfill \/ CheckpointBusy \/ CheckpointOk
  BY <1>3 DEF BeginCheckpoint, ReadMark, RaiseMark, YieldToMark, SkipBackfill, StartBackfill,
     CopyPage, SyncDb, SetBackfill, CheckpointBusy, CheckpointOk, EndCheckpoint, shm
<1>. QED  BY <1>1, <1>2, <1>3 DEF Next, Transaction, RunCheckpoint

LEMMA StoreIs ==
  ASSUME NEW p \in Pages
  PROVE  Store[p] = IF Last(p) = 0 THEN file.db[p] ELSE file.wal[Last(p)].val
BY DEF Store, Last

LEMMA StoreNext ==
  ASSUME NEW p \in Pages
  PROVE  Store'[p] = IF Last(p)' = 0 THEN file'.db[p] ELSE file'.wal[Last(p)'].val
BY DEF Store, Last

(* The page a checkpoint copies has a frame that is not backfilled. *)
LEMMA CopyIs ==
  ASSUME TypeInv, CheckpointInv, PhaseInv, CopyPage
  PROVE  /\ file'.wal = file.wal /\ loose'.wal = loose.wal /\ hdr' = hdr /\ w.pc = "copy"
         /\ w'.pc = "copy" /\ UNCHANGED <<nBackfill, rd, count>>
         /\ file'.log = file.log /\ loose'.log = loose.log
         /\ \A p \in Pages : Last(p) \in 0..nBackfill =>
                file'.db[p] = file.db[p] /\ loose'.db[p] = loose.db[p]
<1>. DEFINE q == Min(w.todo)
<1>1. w.pc = "copy" /\ w.todo # {} /\ w.todo \in SUBSET Pages /\ Pages \in SUBSET Nat
      /\ w \in Writers /\ nBackfill \in Nat
  BY Types, Constants DEF CopyPage, At, Writers
<1>2. q \in w.todo
  BY <1>1, MinIs
<1>3. Last(q) \in nBackfill + 1..w.mxSafeFrame
  BY <1>1, <1>2 DEF CheckpointInv
<1>. DEFINE val == file.wal[LastFrame(mine.hdr.mxFrame, q)].val
<1>4. /\ file' = [file EXCEPT !.db[q] = val]
      /\ loose' = [loose EXCEPT !.db[q] = @ \cup {val}]
  BY DEF CopyPage
<1>5. \A p \in Pages : Last(p) \in 0..nBackfill => p # q
  BY <1>1, <1>3
<1>. HIDE DEF q, val
<1>6. /\ file'.wal = file.wal /\ loose'.wal = loose.wal
      /\ file'.log = file.log /\ loose'.log = loose.log
      /\ file'.db = [file.db EXCEPT ![q] = val]
      /\ loose'.db = [loose.db EXCEPT ![q] = @ \cup {val}]
  BY <1>4 DEF TypeInv
<1>7. file.db \in [Pages -> Vals] /\ loose.db \in [Pages -> SUBSET Vals]
  BY DEF TypeInv
<1>8. hdr' = hdr /\ w'.pc = "copy" /\ UNCHANGED <<nBackfill, rd, count>>
  <2>1. w' = [w EXCEPT !.todo = @ \ {Min(w.todo)}]
    BY DEF CopyPage
  <2>. QED  BY <1>1, <2>1 DEF CopyPage, shm, Writers
<1>. QED  BY <1>1, <1>5, <1>6, <1>7, <1>8

(* Only a commit and a crash change what is committed. *)
LEMMA StoreKept ==
  ASSUME WalInv, WalInv', [Next]_vars, ~Crash, ~Publish
  PROVE  Store' = Store
<1>1. TypeInv /\ TypeInv' /\ LastWritten /\ OwnInv /\ PhaseInv /\ ReadInv /\ CheckpointInv
      /\ hdr.mxFrame \in Nat /\ nBackfill \in Nat
  <2>1. TypeInv /\ TypeInv' /\ LastWritten /\ OwnInv /\ PhaseInv /\ ReadInv /\ CheckpointInv
    BY DEF WalInv
  <2>. QED  BY <2>1, Types
<1>2. ASSUME NEW p \in Pages PROVE Store'[p] = Store[p]
  <2>1. Last(p) \in 0..hdr.mxFrame
    BY <1>1, LastIs
  <2>2. file'.db = file.db \/ CopyPage
    BY <1>1, DbKept
  <2>3. CASE hdr'.mxFrame = hdr.mxFrame
    <3>1. Last(p)' = Last(p) /\ (Last(p) # 0 => file'.wal[Last(p)].val = file.wal[Last(p)].val)
      BY <1>1, <2>3, LastStays
    <3>2. Last(p) = 0 => file'.db[p] = file.db[p]
      BY <1>1, <2>2, CopyIs
    <3>. QED  BY <3>1, <3>2, StoreIs, StoreNext
  <2>4. CASE hdr'.mxFrame # hdr.mxFrame
    <3>1. RestartLog
      BY <1>1, <2>4, HeaderKept
    <3>2. w.pc = "restart" /\ hdr'.mxFrame = 0 /\ file' = file
      BY <1>1, <2>4, <3>1 DEF RestartLog, At, Hdrs, mine, TypeInv
    <3>3. nBackfill = hdr.mxFrame
      <4>1. InTx /\ HeadOk /\ mine.pc = "in" /\ mine.readLock = 0
        BY <1>1, <3>2 DEF OwnInv, PhaseInv, InTx, TxPcs
      <4>. QED  BY <3>2, <4>1 DEF HeadOk
    <3>4. Last(p)' = 0
      <4>1. Last(p)' \in 0..hdr'.mxFrame
        BY <1>1, LastNext
      <4>. QED  BY <3>2, <4>1
    <3>5. Last(p) # 0 => file.db[p] = file.wal[Last(p)].val
      <4>1. DbOk(p)
        BY DEF WalInv, DbInv
      <4>. QED  BY <1>1, <2>1, <3>3, <4>1 DEF DbOk
    <3>. QED  BY <3>2, <3>4, <3>5, StoreIs, StoreNext
  <2>. QED  BY <2>3, <2>4
<1>3. /\ Store = [p \in Pages |-> Store[p]]
      /\ Store' = [p \in Pages |-> Store'[p]]
  BY DEF Store
<1>. QED  BY <1>2, <1>3

-----------------------------------------------------------------------------
(* The steps, by what they change of the transaction at hand. *)
SameTx ==
  /\ w'.list = w.list /\ w'.isCommit = w.isCommit /\ w'.cache = w.cache
  /\ w'.iFrame = w.iFrame /\ w'.iReCksum = w.iReCksum /\ w'.nCkpt = w.nCkpt
SameFiles == UNCHANGED <<file, loose>>
SameCount == count'.tx = count.tx /\ count'.salt = count.salt

LEMMA BeginTxIs ==
  ASSUME TypeInv, BeginTx
  PROVE  /\ w.pc = "idle" /\ w'.pc = "tx" /\ SameTx /\ count'.tx = count.tx + 1
         /\ count'.salt = count.salt /\ UNCHANGED <<hdr, nBackfill, rd>> /\ SameFiles
<1>1. w' = [w EXCEPT !.pc = "tx"] /\ count' = [count EXCEPT !.tx = @ + 1]
  BY DEF BeginTx
<1>. QED  BY <1>1, Types DEF BeginTx, At, SameTx, SameFiles, Writers, shm

LEMMA WalFramesIs ==
  ASSUME TypeInv, (\E p \in Pages : Spill(p)) \/ (\E ps \in SUBSET Pages : Commit(ps))
  PROVE  /\ w.pc = "tx" /\ mine.pc = "in" /\ w'.pc \in {"restart", "loghdr"}
         /\ w'.list # {} /\ w'.list \in SUBSET Pages
         /\ w'.iFrame = w.iFrame /\ w'.iReCksum = w.iReCksum /\ w'.nCkpt = w.nCkpt
         /\ UNCHANGED <<hdr, nBackfill, rd, count>> /\ SameFiles
<1>1. ASSUME NEW list, NEW isCommit, NEW cache, WalFrames(list, isCommit, cache),
             list # {}, list \in SUBSET Pages
      PROVE  /\ w.pc = "tx" /\ mine.pc = "in" /\ w'.pc \in {"restart", "loghdr"}
             /\ w'.list # {} /\ w'.list \in SUBSET Pages
             /\ w'.iFrame = w.iFrame /\ w'.iReCksum = w.iReCksum /\ w'.nCkpt = w.nCkpt
             /\ UNCHANGED <<hdr, nBackfill, rd, count>> /\ SameFiles
  <2>a. PICK iFirst : iFirst = IF mine.hdr = hdr THEN 0 ELSE hdr.mxFrame + 1
    OBVIOUS
  <2>b. PICK pc : pc = IF mine.readLock = 0 THEN "restart" ELSE "loghdr"
    OBVIOUS
  <2>1. /\ w' = [w EXCEPT !.list = list, !.isCommit = isCommit, !.cache = cache,
                          !.iFirst = iFirst, !.pc = pc]
        /\ pc \in {"restart", "loghdr"}
    BY <1>1, <2>a, <2>b DEF WalFrames
  <2>2. /\ w'.pc = pc /\ w'.list = list /\ w'.iFrame = w.iFrame /\ w'.iReCksum = w.iReCksum
        /\ w'.nCkpt = w.nCkpt
    BY <2>1, Types DEF Writers
  <2>. QED  BY <1>1, <2>2 DEF WalFrames, At, SameFiles, shm
<1>2. ASSUME NEW p \in Pages, Spill(p) PROVE \E list \in SUBSET Pages : \E isCommit, cache :
               list # {} /\ WalFrames(list, isCommit, cache)
  <2>1. {p} # {} /\ {p} \in SUBSET Pages /\ WalFrames({p}, FALSE, Changed({p}))
    BY <1>2 DEF Spill
  <2>. QED  BY <2>1
<1>3. ASSUME NEW ps \in SUBSET Pages, Commit(ps) PROVE \E list \in SUBSET Pages : \E isCommit, cache :
               list # {} /\ WalFrames(list, isCommit, cache)
  <2>1. CASE ps # {}
    BY <1>3, <2>1 DEF Commit
  <2>2. CASE ps = {}
    <3>1. {1} # {} /\ {1} \in SUBSET Pages
      BY Constants
    <3>. QED  BY <1>3, <2>2, <3>1 DEF Commit
  <2>. QED  BY <2>1, <2>2
<1>. QED  BY <1>1, <1>2, <1>3

LEMMA EndsIs ==
  ASSUME TypeInv, EndTx
  PROVE  w'.pc = "idle" /\ w'.iReCksum = 0 /\ w'.nCkpt = w.nCkpt /\ w'.list = {}
         /\ ~InTx' /\ rd'[Writer] = NoRead
<1>1. w'.pc = "idle" /\ w'.iReCksum = 0 /\ w'.nCkpt = w.nCkpt /\ w'.list = {}
  BY DEF EndTx, IdleWriter
<1>. QED  BY <1>1, EndTxIs DEF InTx, TxPcs

LEMMA CkptStepIs ==
  ASSUME TypeInv, CheckpointInv, PhaseInv,
         \/ BeginCheckpoint \/ ReadMark \/ RaiseMark \/ YieldToMark \/ SkipBackfill
         \/ StartBackfill \/ CopyPage \/ SyncDb \/ SetBackfill
  PROVE  /\ ~InTx /\ ~InTx' /\ SameTx /\ SameCount /\ hdr' = hdr
         /\ w.pc # "idle" \/ BeginCheckpoint
         /\ w'.pc \notin {"idle", "frames", "publish"} /\ w.pc \notin {"frames", "publish"}
         /\ SetBackfill \/ nBackfill' = nBackfill
         /\ w'.pc = "copied" => SyncDb
         /\ file'.wal = file.wal /\ file'.log = file.log
         /\ \/ loose'.wal = loose.wal /\ loose'.log = loose.log
            \/ loose' = SyncedLog /\ file' = file
<1>0. w \in Writers /\ count \in [salt : Nat, tx : 0..MaxTx, checkpoint : Nat, crash : Nat]
  BY Types
<1>1. CASE BeginCheckpoint
  <2>1. PICK pc \in {"marks", "wait"} :
          w' = [w EXCEPT !.i = 1, !.mxSafeFrame = hdr.mxFrame, !.xBusy = TRUE, !.pc = pc]
    BY <1>1 DEF BeginCheckpoint
  <2>2. SameTx /\ w'.pc = pc
    BY <1>0, <2>1 DEF SameTx, Writers
  <2>3. SameCount
    BY <1>0, <1>1 DEF BeginCheckpoint, SameCount
  <2>. QED  BY <1>1, <2>2, <2>3 DEF BeginCheckpoint, At, InTx, TxPcs, shm
<1>2. CASE ReadMark
  <2>1. \/ w' = [w EXCEPT !.y = aReadMark[w.i], !.pc = "slot"]
        \/ w' = [w EXCEPT !.i = @ + 1]
    BY <1>2 DEF ReadMark
  <2>2. w.pc = "marks"
    BY <1>2 DEF ReadMark, At
  <2>3. SameTx /\ w'.pc \in {"marks", "slot"}
    BY <1>0, <2>1, <2>2 DEF SameTx, Writers
  <2>. QED  BY <1>2, <2>2, <2>3 DEF ReadMark, InTx, TxPcs, SameCount, shm
<1>3. CASE RaiseMark \/ YieldToMark
  <2>1. \/ w' = [w EXCEPT !.i = @ + 1, !.pc = "marks"]
        \/ w' = [w EXCEPT !.mxSafeFrame = w.y, !.xBusy = FALSE, !.i = @ + 1, !.pc = "marks"]
    BY <1>3 DEF RaiseMark, YieldToMark
  <2>2. SameTx /\ w'.pc = "marks"
    BY <1>0, <2>1 DEF SameTx, Writers
  <2>. QED  BY <1>3, <2>2 DEF RaiseMark, YieldToMark, At, InTx, TxPcs, SameCount, shm
<1>4. CASE SkipBackfill
  <2>1. w' = [w EXCEPT !.pc = "wait", !.xBusy = @ /\ nBackfill >= w.mxSafeFrame]
    BY <1>4 DEF SkipBackfill
  <2>2. SameTx /\ w'.pc = "wait"
    BY <1>0, <2>1 DEF SameTx, Writers
  <2>. QED  BY <1>4, <2>2 DEF SkipBackfill, At, InTx, TxPcs, SameCount, shm
<1>5. CASE StartBackfill
  <2>1. PICK todo : w' = [w EXCEPT !.pc = "copy", !.todo = todo]
    BY <1>5 DEF StartBackfill
  <2>2. SameTx /\ w'.pc = "copy"
    BY <1>0, <2>1 DEF SameTx, Writers
  <2>. QED  BY <1>5, <2>2 DEF StartBackfill, At, InTx, TxPcs, SameCount, shm
<1>6. CASE CopyPage
  <2>1. w' = [w EXCEPT !.todo = @ \ {Min(w.todo)}]
    BY <1>6 DEF CopyPage
  <2>2. SameTx
    BY <1>0, <2>1 DEF SameTx, Writers
  <2>. QED  BY <1>6, <2>2, CopyIs DEF InTx, TxPcs, SameCount
<1>7. CASE SyncDb
  <2>1. w' = [w EXCEPT !.pc = "copied"] /\ file' = file
    BY <1>7 DEF SyncDb
  <2>2. SameTx /\ w'.pc = "copied"
    BY <1>0, <2>1 DEF SameTx, Writers
  <2>3. loose'.wal = loose.wal /\ loose'.log = loose.log
    BY <1>7 DEF SyncDb, TypeInv
  <2>. QED  BY <1>7, <2>1, <2>2, <2>3 DEF SyncDb, At, InTx, TxPcs, SameCount, shm
<1>8. CASE SetBackfill
  <2>1. w' = [w EXCEPT !.pc = "wait"]
    BY <1>8 DEF SetBackfill
  <2>2. SameTx /\ w'.pc = "wait"
    BY <1>0, <2>1 DEF SameTx, Writers
  <2>. QED  BY <1>8, <2>2 DEF SetBackfill, At, InTx, TxPcs, SameCount
<1>. QED  BY <1>1, <1>2, <1>3, <1>4, <1>5, <1>6, <1>7, <1>8

LEMMA RestartIs ==
  ASSUME TypeInv, RestartLog \/ ResetMarks \/ ReadAgain
  PROVE  /\ SameFiles /\ count'.tx = count.tx /\ w.pc \in {"restart", "reset", "reread"}
         /\ w'.list = w.list /\ w'.isCommit = w.isCommit /\ w'.cache = w.cache
         /\ w'.iFrame = w.iFrame /\ w'.iReCksum = w.iReCksum
         /\ w'.pc \in {"reset", "reread", "loghdr"}
         /\ \/ hdr' = hdr /\ w'.nCkpt = w.nCkpt /\ mine'.hdr = mine.hdr /\ count'.salt = count.salt
            \/ /\ RestartLog /\ hdr'.mxFrame = 0 /\ hdr'.salt = count.salt + 1 /\ mine'.hdr = hdr'
               /\ w.pc = "restart"
<1>0. /\ w \in Writers /\ count \in [salt : Nat, tx : 0..MaxTx, checkpoint : Nat, crash : Nat]
      /\ rd \in [Conns -> Reads] /\ mine = rd[Writer] /\ Writer \in Conns /\ mine.hdr \in Hdrs
      /\ mine' = rd'[Writer]
  BY Types, Constants DEF mine
<1>1. CASE RestartLog
  <2>1. w.pc = "restart" /\ SameFiles
    BY <1>1 DEF RestartLog, At, SameFiles
  <2>2. CASE w' = [w EXCEPT !.pc = "reread"] /\ UNCHANGED <<excl, hdr, rd, count>>
    BY <1>0, <2>1, <2>2 DEF Writers
  <2>3. CASE /\ hdr' = [mine.hdr EXCEPT !.mxFrame = 0, !.salt = count.salt + 1]
             /\ rd' = [rd EXCEPT ![Writer].hdr = hdr']
             /\ w' = [w EXCEPT !.pc = "reset", !.nCkpt = @ + 1]
             /\ count' = [count EXCEPT !.salt = @ + 1]
    <3>1. hdr'.mxFrame = 0 /\ hdr'.salt = count.salt + 1
      BY <1>0, <2>3 DEF Hdrs
    <3>2. mine'.hdr = hdr'
      BY <1>0, <2>3 DEF Reads
    <3>3. /\ w'.list = w.list /\ w'.isCommit = w.isCommit /\ w'.cache = w.cache
          /\ w'.iFrame = w.iFrame /\ w'.iReCksum = w.iReCksum /\ w'.pc = "reset"
      BY <1>0, <2>3 DEF Writers
    <3>4. count'.tx = count.tx
      BY <1>0, <2>3
    <3>. QED  BY <1>1, <2>1, <3>1, <3>2, <3>3, <3>4
  <2>. QED  BY <1>1, <2>2, <2>3 DEF RestartLog
<1>2. CASE ResetMarks
  BY <1>0, <1>2 DEF ResetMarks, At, SameFiles, Writers
<1>3. CASE ReadAgain
  <2>1. mine'.hdr = mine.hdr
    <3>1. rd' = [rd EXCEPT ![Writer] = [rd[Writer] EXCEPT !.readLock = NoLock, !.useWal = TRUE,
                                                           !.pc = "pick"]]
      BY <1>0, <1>3 DEF ReadAgain
    <3>. QED  BY <1>0, <3>1 DEF Reads
  <2>. QED  BY <1>0, <1>3, <2>1 DEF ReadAgain, At, SameFiles, Writers, shm
<1>. QED  BY <1>1, <1>2, <1>3

LEMMA LogHeaderIs ==
  ASSUME TypeInv, WriteLogHeader
  PROVE  /\ w.pc = "loghdr" /\ mine.pc = "in" /\ mine'.pc = "in" /\ mine'.readLock = mine.readLock
         /\ w'.list = w.list /\ w'.isCommit = w.isCommit /\ w'.cache = w.cache
         /\ w'.iReCksum = w.iReCksum /\ w'.nCkpt = w.nCkpt
         /\ w'.iFrame = mine.hdr.mxFrame /\ mine'.hdr.mxFrame = mine.hdr.mxFrame
         /\ UNCHANGED <<hdr, nBackfill>> /\ count'.tx = count.tx
         /\ file'.wal = file.wal /\ file'.db = file.db
         /\ loose'.wal = loose.wal /\ loose'.db = loose.db
         /\ \/ /\ mine.hdr.mxFrame # 0 /\ w'.pc = "frames"
               /\ SameFiles /\ UNCHANGED <<rd, count>> /\ mine'.hdr.salt = mine.hdr.salt
            \/ /\ mine.hdr.mxFrame = 0 /\ w'.pc = "synclog"
               /\ file'.log.salt = mine'.hdr.salt /\ loose'.log = loose.log \cup {file'.log}
               /\ \/ w.nCkpt = 0 /\ mine'.hdr.salt = count.salt + 1
                  \/ w.nCkpt # 0 /\ mine'.hdr.salt = mine.hdr.salt
<1>0. /\ w \in Writers /\ rd \in [Conns -> Reads] /\ mine = rd[Writer] /\ Writer \in Conns
      /\ mine \in Reads /\ mine.hdr \in Hdrs
      /\ count \in [salt : Nat, tx : 0..MaxTx, checkpoint : Nat, crash : Nat]
      /\ mine' = rd'[Writer]
  BY Types, Constants DEF mine
<1>. DEFINE salt == IF w.nCkpt = 0 THEN count.salt + 1 ELSE mine.hdr.salt
            log == [salt |-> salt, nCkpt |-> w.nCkpt]
<1>1. w.pc = "loghdr" /\ mine.pc = "in" /\ UNCHANGED <<hdr, nBackfill>>
  BY DEF WriteLogHeader, At, shm
<1>2. CASE mine.hdr.mxFrame # 0
  <2>1. /\ w' = [w EXCEPT !.pc = "frames", !.iFrame = mine.hdr.mxFrame]
        /\ UNCHANGED <<file, loose, rd, count>>
    BY <1>2 DEF WriteLogHeader
  <2>2. /\ w'.list = w.list /\ w'.isCommit = w.isCommit /\ w'.cache = w.cache
        /\ w'.iReCksum = w.iReCksum /\ w'.nCkpt = w.nCkpt /\ w'.pc = "frames"
        /\ w'.iFrame = mine.hdr.mxFrame
    BY <1>0, <2>1 DEF Writers
  <2>. QED  BY <1>0, <1>1, <1>2, <2>1, <2>2 DEF SameFiles
<1>3. CASE mine.hdr.mxFrame = 0
  <2>1. /\ file' = [file EXCEPT !.log = log]
        /\ loose' = [loose EXCEPT !.log = @ \cup {log}]
        /\ rd' = [rd EXCEPT ![Writer].hdr.salt = salt]
        /\ count' = [count EXCEPT !.salt = IF salt > @ THEN salt ELSE @]
        /\ w' = [w EXCEPT !.pc = "synclog", !.iFrame = 0]
    BY <1>3 DEF WriteLogHeader
  <2>. HIDE DEF salt
  <2>2. /\ file'.wal = file.wal /\ file'.db = file.db /\ file'.log = log
        /\ loose'.wal = loose.wal /\ loose'.db = loose.db /\ loose'.log = loose.log \cup {log}
    BY <2>1 DEF TypeInv
  <2>3. mine' = [mine EXCEPT !.hdr = [mine.hdr EXCEPT !.salt = salt]]
    BY <1>0, <2>1
  <2>4. /\ mine'.hdr.salt = salt /\ mine'.hdr.mxFrame = mine.hdr.mxFrame
        /\ mine'.pc = mine.pc /\ mine'.readLock = mine.readLock
    BY <1>0, <2>3 DEF Reads, Hdrs
  <2>5. /\ w'.list = w.list /\ w'.isCommit = w.isCommit /\ w'.cache = w.cache
        /\ w'.iReCksum = w.iReCksum /\ w'.nCkpt = w.nCkpt /\ w'.pc = "synclog" /\ w'.iFrame = 0
    BY <1>0, <2>1 DEF Writers
  <2>6. count'.tx = count.tx
    BY <1>0, <2>1
  <2>7. log.salt = salt
    OBVIOUS
  <2>8. \/ w.nCkpt = 0 /\ salt = count.salt + 1
        \/ w.nCkpt # 0 /\ salt = mine.hdr.salt
    BY DEF salt
  <2>. QED  BY <1>1, <1>3, <2>2, <2>4, <2>5, <2>6, <2>7, <2>8
<1>. QED  BY <1>2, <1>3

LEMMA SyncIs ==
  ASSUME TypeInv, SyncLogHeader \/ SyncFrames
  PROVE  /\ file' = file /\ loose' = SyncedLog /\ SameTx /\ UNCHANGED <<hdr, nBackfill, rd, count>>
         /\ mine' = mine
         /\ \/ w.pc = "synclog" /\ w'.pc = "frames"
            \/ w.pc = "frames" /\ w'.pc = "publish" /\ AllWritten /\ w.iReCksum = 0
<1>1. CASE SyncLogHeader
  <2>1. w' = [w EXCEPT !.pc = "frames"]
    BY <1>1 DEF SyncLogHeader
  <2>2. SameTx /\ w'.pc = "frames"
    BY <2>1, Types DEF SameTx, Writers
  <2>. QED  BY <1>1, <2>2 DEF SyncLogHeader, At, shm, mine
<1>2. CASE SyncFrames
  <2>1. w' = [w EXCEPT !.pc = "publish"]
    BY <1>2 DEF SyncFrames
  <2>2. SameTx /\ w'.pc = "publish"
    BY <2>1, Types DEF SameTx, Writers
  <2>. QED  BY <1>2, <2>2 DEF SyncFrames, At, shm, mine, AllWritten
<1>. QED  BY <1>1, <1>2

LEMMA EndSpillIs ==
  ASSUME TypeInv, EndSpill
  PROVE  /\ w.pc = "frames" /\ w'.pc = "tx" /\ ~w.isCommit /\ w.list = {}
         /\ w'.list = w.list /\ w'.isCommit = w.isCommit /\ w'.cache = w.cache
         /\ w'.iReCksum = w.iReCksum /\ w'.nCkpt = w.nCkpt
         /\ mine'.hdr.mxFrame = w.iFrame /\ mine'.hdr.salt = mine.hdr.salt
         /\ mine'.pc = mine.pc
         /\ UNCHANGED <<hdr, nBackfill, count>> /\ SameFiles
<1>0. /\ w \in Writers /\ rd \in [Conns -> Reads] /\ mine = rd[Writer] /\ Writer \in Conns
      /\ mine \in Reads /\ mine.hdr \in Hdrs /\ mine' = rd'[Writer]
  BY Types, Constants DEF mine
<1>1. /\ rd' = [rd EXCEPT ![Writer].hdr.mxFrame = w.iFrame]
      /\ w' = [w EXCEPT !.pc = "tx", !.iFrame = 0, !.iFirst = 0]
  BY DEF EndSpill
<1>2. mine' = [mine EXCEPT !.hdr = [mine.hdr EXCEPT !.mxFrame = w.iFrame]]
  BY <1>0, <1>1
<1>3. mine'.hdr.mxFrame = w.iFrame /\ mine'.hdr.salt = mine.hdr.salt /\ mine'.pc = mine.pc
  BY <1>0, <1>2 DEF Reads, Hdrs
<1>4. /\ w'.list = w.list /\ w'.isCommit = w.isCommit /\ w'.cache = w.cache
      /\ w'.iReCksum = w.iReCksum /\ w'.nCkpt = w.nCkpt /\ w'.pc = "tx"
  BY <1>0, <1>1 DEF Writers
<1>. QED  BY <1>3, <1>4 DEF EndSpill, At, SameFiles, shm

LEMMA RewriteIs ==
  ASSUME TypeInv, RewriteChecksums
  PROVE  /\ w.pc = "frames" /\ w'.pc = "frames" /\ AllWritten /\ w.iReCksum # 0
         /\ w'.iReCksum = 0 /\ w'.list = w.list /\ w'.isCommit = w.isCommit
         /\ w'.cache = w.cache /\ w'.iFrame = w.iFrame /\ w'.nCkpt = w.nCkpt
         /\ UNCHANGED <<hdr, nBackfill, rd, count>> /\ mine' = mine
         /\ file'.log = file.log /\ loose'.log = loose.log
<1>1. w' = [w EXCEPT !.iReCksum = 0]
  BY DEF RewriteChecksums
<1>2. /\ w'.iReCksum = 0 /\ w'.list = w.list /\ w'.isCommit = w.isCommit
      /\ w'.cache = w.cache /\ w'.iFrame = w.iFrame /\ w'.nCkpt = w.nCkpt /\ w'.pc = w.pc
  BY <1>1, Types DEF Writers
<1>3. file'.log = file.log /\ loose'.log = loose.log
  BY DEF RewriteChecksums, TypeInv
<1>4. UNCHANGED <<hdr, nBackfill, rd, count>> /\ mine' = mine
  BY DEF RewriteChecksums, shm, mine
<1>. QED  BY <1>2, <1>3, <1>4 DEF RewriteChecksums, At, AllWritten

LEMMA WriteFrameIs ==
  ASSUME TypeInv, LastWritten, WriteFrame
  PROVE  /\ w.pc = "frames" /\ w'.pc = "frames" /\ w.list # {} /\ w'.list = w.list \ {NextPage}
         /\ w'.isCommit = w.isCommit /\ w'.cache = w.cache /\ w'.nCkpt = w.nCkpt
         /\ UNCHANGED <<hdr, nBackfill, rd, count>> /\ mine' = mine
         /\ file'.log = file.log /\ loose'.log = loose.log
         /\ file'.db = file.db /\ loose'.db = loose.db
<1>0. w \in Writers /\ NextPage = NextPage
  BY Types
<1>1. \/ \E x : w' = [w EXCEPT !.list = @ \ {NextPage}, !.iReCksum = x]
      \/ \E x : w' = [w EXCEPT !.list = @ \ {NextPage}, !.iFrame = x]
  BY DEF WriteFrame
<1>2. /\ w'.list = w.list \ {NextPage} /\ w'.pc = w.pc
      /\ w'.isCommit = w.isCommit /\ w'.cache = w.cache /\ w'.nCkpt = w.nCkpt
  <2>. HIDE DEF NextPage
  <2>. QED  BY <1>0, <1>1 DEF Writers
<1>3. file'.log = file.log /\ loose'.log = loose.log /\ file'.db = file.db /\ loose'.db = loose.db
  BY WriteFrameType, WriteType
<1>4. UNCHANGED <<hdr, nBackfill, rd, count>> /\ mine' = mine
  BY DEF WriteFrame, shm, mine
<1>. QED  BY <1>2, <1>3, <1>4 DEF WriteFrame, At

(* A transaction and a checkpoint that end. *)
LEMMA EndIs ==
  ASSUME TypeInv, Rollback \/ WriteFails \/ Publish \/ CheckpointBusy \/ CheckpointOk
  PROVE  /\ w'.pc = "idle" /\ w'.iReCksum = 0 /\ w'.nCkpt = w.nCkpt /\ w'.list = {}
         /\ ~InTx' /\ UNCHANGED <<nBackfill, count>> /\ SameFiles
         /\ ~AllWritten \/ Publish
         /\ Publish => /\ w.pc = "publish" /\ hdr'.mxFrame = w.iFrame
                       /\ hdr'.salt = mine.hdr.salt
         /\ Publish \/ hdr' = hdr
<1>1. EndTx /\ UNCHANGED <<nBackfill, count>> /\ SameFiles /\ (Publish \/ hdr' = hdr)
  BY DEF Rollback, WriteFails, Publish, CheckpointBusy, CheckpointOk, EndCheckpoint, SameFiles, shm
<1>2. ASSUME Publish PROVE w.pc = "publish" /\ hdr'.mxFrame = w.iFrame /\ hdr'.salt = mine.hdr.salt
  <2>1. hdr' = [mine.hdr EXCEPT !.mxFrame = w.iFrame, !.iChange = @ + 1]
    BY <1>2 DEF Publish
  <2>. QED  BY <1>2, <2>1, Types DEF Publish, At, Hdrs
<1>3. ~AllWritten \/ Publish
  BY DEF AllWritten, Rollback, WriteFails, CheckpointBusy, CheckpointOk, At
<1>. QED  BY <1>1, <1>2, <1>3, EndsIs

-----------------------------------------------------------------------------
(* Only the writer that has its read transaction has frames in the log.    *)
LEMMA BegunIs ==
  ASSUME WalInv, Begun, w.pc = "synclog" => mine.hdr.mxFrame = 0
  PROVE  /\ mine.pc = "in" /\ mine.readLock # 0 /\ w.pc \in {"tx", "loghdr", "frames", "publish"}
         /\ Top > hdr.mxFrame
<1>1. /\ TypeInv /\ PhaseInv /\ InTx /\ HeadOk /\ mine.pc # "out" /\ Top > hdr.mxFrame
      /\ hdr.mxFrame \in Nat
  BY Types DEF WalInv, OwnInv, Begun
<1>2. w.pc \notin {"frames", "publish"} => mine.hdr.mxFrame > hdr.mxFrame
  BY <1>1 DEF Top
<1>3. w.pc \notin {"restart", "reset", "reread", "synclog"}
  BY <1>1, <1>2 DEF HeadOk
<1>4. mine.pc = "in"
  BY <1>1, <1>2 DEF HeadOk, PhaseInv
<1>5. mine.readLock # 0
  BY <1>1, <1>2, <1>3, <1>4 DEF HeadOk, PhaseInv, InTx, TxPcs
<1>. QED  BY <1>1, <1>3, <1>4, <1>5 DEF InTx, TxPcs

LEMMA NotBegun ==
  /\ TypeInv /\ Top = hdr.mxFrame => ~Begun
  /\ ~InTx \/ mine.pc = "out" => ~Begun
  /\ TypeInv' /\ Top' = hdr'.mxFrame => ~Begun'
  /\ ~InTx' \/ mine'.pc = "out" => ~Begun'
<1>1. TypeInv => hdr.mxFrame \in Nat
  BY Types
<1>2. TypeInv' => hdr'.mxFrame \in Nat
  BY DEF TypeInv, Hdrs
<1>. QED  BY <1>1, <1>2 DEF Begun

(* The steps of readers, and of the writer when it begins to read. *)
Reading == \/ UNCHANGED vars \/ (\E c \in Conns : BeginRead(c)) \/ (\E c \in Readers : EndRead(c))

LEMMA ReadsAre ==
  ASSUME WalInv, WalInv', Reading
  PROVE  /\ UNCHANGED <<hdr, nBackfill, w, count>> /\ SameFiles
         /\ \/ mine' = mine
            \/ /\ ~Begun /\ ~Begun' /\ w.pc \in {"tx", "loghdr"}
               /\ mine'.pc # "out" => mine'.hdr = hdr
<1>1. /\ TypeInv /\ TypeInv' /\ PhaseInv /\ OwnInv /\ ReadInv /\ Writer \in Conns
      /\ Writer \notin Readers /\ mine = rd[Writer] /\ mine' = rd'[Writer]
      /\ rd \in [Conns -> Reads]
  BY Types, Constants DEF WalInv, mine
<1>2. CASE UNCHANGED vars
  BY <1>1, <1>2 DEF vars, SameFiles
<1>3. ASSUME NEW c \in Readers, EndRead(c) \/ BeginRead(c)
      PROVE  UNCHANGED <<hdr, nBackfill, w, count>> /\ SameFiles /\ mine' = mine
  <2>1. CASE EndRead(c)
    <3>1. rd' = [rd EXCEPT ![c] = NoRead] /\ c # Writer
      BY <1>1, <2>1 DEF EndRead
    <3>2. rd'[Writer] = rd[Writer]
      BY <1>1, <3>1
    <3>. QED  BY <1>1, <2>1, <3>2 DEF EndRead, SameFiles, shm
  <2>2. CASE BeginRead(c)
    BY <1>1, <1>3, <2>2, BeginReadIs, Constants DEF SameFiles
  <2>. QED  BY <1>3, <2>1, <2>2
<1>4. CASE BeginRead(Writer)
  <2>1. UNCHANGED <<hdr, nBackfill, w, count>> /\ SameFiles
    BY <1>1, <1>4, BeginReadIs DEF SameFiles
  <2>2. /\ w.pc \in {"tx", "loghdr"} /\ (mine.pc # "out" => mine.hdr = hdr)
        /\ mine'.pc # "out" => mine'.hdr = hdr
    BY <1>1, <1>4, WriterBegins, EmptyTypes DEF NoRead
  <2>3. mine.pc # "out" => Top = hdr.mxFrame
    BY <2>2 DEF Top
  <2>4. mine'.pc # "out" => Top' = hdr'.mxFrame
    BY <2>1, <2>2 DEF Top
  <2>. QED  BY <1>1, <2>1, <2>2, <2>3, <2>4, NotBegun
<1>. QED  BY <1>1, <1>2, <1>3, <1>4, Constants DEF Reading, Conns

-----------------------------------------------------------------------------
(* A step that writes no frame and leaves the transaction open or closed:  *)
(* at most a sync.                                                         *)
Calm ==
  /\ file'.wal = file.wal /\ \A k \in 1..MaxFrame : loose'.wal[k] \subseteq loose.wal[k]
  /\ Begun' <=> Begun
  /\ AllWritten' <=> AllWritten
  /\ AllWritten => w'.iFrame = w.iFrame
  /\ Current' = Current /\ count'.tx >= count.tx
  /\ InTx => count'.tx = count.tx
  /\ Begun => hdr' = hdr /\ Top' = Top /\ mine'.hdr.salt = mine.hdr.salt
  /\ w'.iReCksum = w.iReCksum \/ (w'.iReCksum = 0 /\ ~InTx')
  /\ w'.pc = "idle" /\ w.pc # "idle" => w'.iReCksum = 0
  /\ InTx' => InTx \/ w.pc = "idle"

(* The steps that are not. *)
Writes == WriteFrame \/ RewriteChecksums
Leaves == Rollback \/ WriteFails

LEMMA SyncedWal ==
  ASSUME TypeInv, LastWritten, loose' = SyncedLog, file' = file
  PROVE  /\ \A k \in 1..MaxFrame : loose'.wal[k] \subseteq loose.wal[k]
         /\ loose'.log \subseteq loose.log
BY SyncType DEF LastWritten

LEMMA CalmStep ==
  ASSUME WalInv, WalInv', TailInv, SaltInv, [Next]_vars, ~Writes, ~Leaves, ~Publish, ~Crash
  PROVE  Calm
<1>0. /\ TypeInv /\ TypeInv' /\ LastWritten /\ PhaseInv /\ OwnInv /\ ReadInv /\ CheckpointInv
      /\ hdr.mxFrame \in Nat /\ count.tx \in Nat
      /\ w.pc = "synclog" => mine.hdr.mxFrame = 0
      /\ w \in Writers /\ (InTx => HeadOk)
  BY Types DEF WalInv, SaltInv, OwnInv
<1>1. CASE Reading
  <2>1. /\ UNCHANGED <<hdr, nBackfill, w, count>> /\ SameFiles
        /\ mine' = mine \/ (~Begun /\ ~Begun')
    BY <1>1, ReadsAre
  <2>2. mine' = mine => (Begun' <=> Begun) /\ Top' = Top
    BY <2>1 DEF Begun, Top, InTx
  <2>. QED  BY <1>0, <2>1, <2>2 DEF Calm, AllWritten, Current, InTx, SameFiles
<1>2. CASE BeginTx
  <2>1. /\ w.pc = "idle" /\ w'.pc = "tx" /\ SameTx /\ count'.tx = count.tx + 1
        /\ UNCHANGED <<hdr, nBackfill, rd>> /\ SameFiles
    BY <1>0, <1>2, BeginTxIs
  <2>2. ~Begun /\ ~Begun'
    <3>1. mine' = mine /\ mine.pc = "out"
      BY <1>0, <2>1 DEF PhaseInv, mine, NoRead
    <3>. QED  BY <3>1, NotBegun
  <2>3. ~AllWritten /\ ~AllWritten' /\ Current = count.tx + 1 /\ Current' = count'.tx
    BY <2>1 DEF AllWritten, Current, InTx, TxPcs
  <2>. QED  BY <1>0, <2>1, <2>2, <2>3 DEF Calm, InTx, TxPcs, SameFiles, SameTx
<1>3. CASE (\E p \in Pages : Spill(p)) \/ (\E ps \in SUBSET Pages : Commit(ps))
  <2>1. /\ w.pc = "tx" /\ mine.pc = "in" /\ w'.pc \in {"restart", "loghdr"}
        /\ w'.list # {} /\ w'.iReCksum = w.iReCksum
        /\ UNCHANGED <<hdr, nBackfill, rd, count>> /\ SameFiles
    BY <1>0, <1>3, WalFramesIs
  <2>2. mine' = mine /\ Top' = Top
    BY <2>1 DEF mine, Top
  <2>3. (Begun' <=> Begun) /\ ~AllWritten /\ ~AllWritten' /\ InTx /\ InTx'
    BY <2>1, <2>2 DEF AllWritten, Begun, InTx, TxPcs
  <2>. QED  BY <1>0, <2>1, <2>2, <2>3 DEF Calm, SameFiles, Current
<1>4. CASE RestartLog \/ ResetMarks \/ ReadAgain
  <2>1. /\ SameFiles /\ count'.tx = count.tx /\ w.pc \in {"restart", "reset", "reread"}
        /\ w'.iReCksum = w.iReCksum /\ w'.pc \in {"reset", "reread", "loghdr"}
        /\ \/ hdr' = hdr /\ mine'.hdr = mine.hdr
           \/ mine'.hdr = hdr'
    BY <1>0, <1>4, RestartIs
  <2>2. mine.hdr = hdr /\ InTx /\ InTx'
    BY <1>0, <2>1 DEF HeadOk, InTx, TxPcs
  <2>3. Top = hdr.mxFrame /\ Top' = hdr'.mxFrame
    BY <2>1, <2>2 DEF Top
  <2>4. ~Begun /\ ~Begun' /\ ~AllWritten /\ ~AllWritten'
    BY <1>0, <2>1, <2>3, NotBegun DEF AllWritten
  <2>. QED  BY <1>0, <2>1, <2>2, <2>4 DEF Calm, SameFiles, Current
<1>5. CASE WriteLogHeader
  <2>1. /\ w.pc = "loghdr" /\ mine.pc = "in" /\ mine'.pc = "in" /\ w'.list = w.list
        /\ w'.iReCksum = w.iReCksum /\ w'.iFrame = mine.hdr.mxFrame
        /\ mine'.hdr.mxFrame = mine.hdr.mxFrame
        /\ hdr' = hdr /\ count'.tx = count.tx /\ file'.wal = file.wal /\ loose'.wal = loose.wal
        /\ \/ mine.hdr.mxFrame # 0 /\ w'.pc = "frames" /\ mine'.hdr.salt = mine.hdr.salt
           \/ mine.hdr.mxFrame = 0 /\ w'.pc = "synclog"
    BY <1>0, <1>5, LogHeaderIs
  <2>2. Top' = Top /\ Top = mine.hdr.mxFrame /\ InTx /\ InTx' /\ (Begun <=> Begun')
    BY <2>1 DEF Top, InTx, TxPcs, Begun
  <2>3. ~AllWritten /\ ~AllWritten'
    BY <2>1 DEF AllWritten, TailInv
  <2>4. Begun => mine.hdr.mxFrame # 0
    BY <1>0, <2>2 DEF Begun
  <2>. QED  BY <1>0, <2>1, <2>2, <2>3, <2>4 DEF Calm, Current
<1>6. CASE SyncLogHeader \/ SyncFrames
  <2>1. /\ file' = file /\ loose' = SyncedLog /\ SameTx /\ UNCHANGED <<hdr, nBackfill, rd, count>>
        /\ mine' = mine
        /\ \/ w.pc = "synclog" /\ w'.pc = "frames"
           \/ w.pc = "frames" /\ w'.pc = "publish" /\ AllWritten
    BY <1>0, <1>6, SyncIs
  <2>2. Top' = Top /\ InTx /\ InTx'
    BY <1>0, <2>1 DEF Top, HeadOk, InTx, TxPcs, SameTx
  <2>3. (Begun <=> Begun') /\ (AllWritten <=> AllWritten')
    BY <2>1, <2>2 DEF Begun, AllWritten, SameTx, TailInv
  <2>. QED  BY <1>0, <2>1, <2>2, <2>3, SyncedWal DEF Calm, Current, SameTx
<1>7. CASE EndSpill
  <2>1. /\ w.pc = "frames" /\ w'.pc = "tx" /\ ~w.isCommit
        /\ w'.isCommit = w.isCommit /\ w'.iReCksum = w.iReCksum
        /\ mine'.hdr.mxFrame = w.iFrame /\ mine'.hdr.salt = mine.hdr.salt
        /\ mine'.pc = mine.pc /\ UNCHANGED <<hdr, nBackfill, count>> /\ SameFiles
    BY <1>0, <1>7, EndSpillIs
  <2>2. Top' = Top /\ InTx /\ InTx' /\ ~AllWritten /\ ~AllWritten'
    BY <2>1 DEF Top, InTx, TxPcs, AllWritten
  <2>3. Begun <=> Begun'
    BY <2>1, <2>2 DEF Begun
  <2>. QED  BY <1>0, <2>1, <2>2, <2>3 DEF Calm, SameFiles, Current
<1>8. CASE \/ BeginCheckpoint \/ ReadMark \/ RaiseMark \/ YieldToMark \/ SkipBackfill
           \/ StartBackfill \/ CopyPage \/ SyncDb \/ SetBackfill
  <2>1. /\ ~InTx /\ ~InTx' /\ SameTx /\ SameCount /\ w'.pc # "idle" /\ file'.wal = file.wal
        /\ w'.pc \notin {"frames", "publish"} /\ w.pc \notin {"frames", "publish"}
        /\ loose'.wal = loose.wal \/ (loose' = SyncedLog /\ file' = file)
    BY <1>0, <1>8, CkptStepIs
  <2>2. ~Begun /\ ~Begun' /\ ~AllWritten /\ ~AllWritten'
    BY <2>1, NotBegun DEF AllWritten
  <2>. QED  BY <1>0, <2>1, <2>2, SyncedWal DEF Calm, Current, SameTx, SameCount
<1>9. CASE CheckpointBusy \/ CheckpointOk
  <2>1. /\ w'.pc = "idle" /\ w'.iReCksum = 0 /\ ~InTx' /\ UNCHANGED <<nBackfill, count>>
        /\ SameFiles /\ hdr' = hdr
    BY <1>0, <1>9, EndIs DEF CheckpointBusy, CheckpointOk, EndCheckpoint, shm
  <2>2. w.pc = "wait"
    BY <1>9 DEF CheckpointBusy, CheckpointOk, At
  <2>3. ~InTx /\ ~Begun /\ ~Begun' /\ ~AllWritten /\ ~AllWritten'
    BY <2>1, <2>2, NotBegun DEF AllWritten, InTx, TxPcs
  <2>. QED  BY <1>0, <2>1, <2>2, <2>3 DEF Calm, Current, SameFiles
<1>. QED  BY <1>1, <1>2, <1>3, <1>4, <1>5, <1>6, <1>7, <1>8, <1>9
     DEF Next, Transaction, RunCheckpoint, Reading, Writes, Leaves

-----------------------------------------------------------------------------
(* What a crash leaves: all that is in the files is on the disk.           *)
LEMMA CrashIs ==
  ASSUME TypeInv, LastWritten, Crash
  PROVE  /\ loose'.log = {file'.log} /\ file'.log \in loose.log
         /\ \A k \in 1..MaxFrame : /\ loose'.wal[k] = {file'.wal[k]}
                                   /\ file'.wal[k] \in Left(loose.wal[k], NoFrame)
                                   /\ file'.wal[k] \in loose.wal[k] \cup {NoFrame}
         /\ \A p \in Pages : /\ loose'.db[p] = {file'.db[p]}
                             /\ file'.db[p] \in Left(loose.db[p], Torn)
         /\ hdr' = [mxFrame |-> Recovered(file'), salt |-> file'.log.salt, iChange |-> 0]
         /\ w' = [IdleWriter EXCEPT !.nCkpt = file'.log.nCkpt] /\ nBackfill' = 0
         /\ rd' = [c \in Conns |-> NoRead] /\ count'.tx = count.tx
<1>. DEFINE left == [i \in 1..MaxFrame |-> Left(loose.wal[i], NoFrame)]
            leftDb == [p \in Pages |-> Left(loose.db[p], Torn)]
<1>1. PICK log \in loose.log, wal \in Outcomes(left), db \in Outcomes(leftDb) :
        /\ Restart([log |-> log, wal |-> wal, db |-> db])
        /\ loose' = [log |-> {log}, wal |-> [i \in 1..MaxFrame |-> {wal[i]}],
                     db |-> [p \in Pages |-> {db[p]}]]
  BY DEF Crash
<1>2. /\ file' = [log |-> log, wal |-> wal, db |-> db]
      /\ hdr' = [mxFrame |-> Recovered(file'), salt |-> log.salt, iChange |-> 0]
      /\ w' = [IdleWriter EXCEPT !.nCkpt = log.nCkpt] /\ nBackfill' = 0
      /\ rd' = [c \in Conns |-> NoRead] /\ count' = [count EXCEPT !.crash = @ + 1]
  BY <1>1 DEF Restart
<1>3. \A k \in 1..MaxFrame : /\ wal[k] \in Left(loose.wal[k], NoFrame)
                              /\ wal[k] \in loose.wal[k] \cup {NoFrame}
  <2>1. left \in [1..MaxFrame -> SUBSET (Frames \cup {NoFrame})]
    BY DEF TypeInv, Left
  <2>2. \A k \in 1..MaxFrame : wal[k] \in left[k]
    <3>. HIDE DEF left
    <3>. QED  BY <2>1, OutcomesIs
  <2>. QED  BY <2>2 DEF Left
<1>4. \A p \in Pages : db[p] \in Left(loose.db[p], Torn)
  <2>1. leftDb \in [Pages -> SUBSET (Vals \cup {Torn})]
    BY DEF TypeInv, Left
  <2>2. \A p \in Pages : db[p] \in leftDb[p]
    <3>. HIDE DEF leftDb
    <3>. QED  BY <2>1, OutcomesIs
  <2>. QED  BY <2>2
<1>5. count'.tx = count.tx
  BY <1>2 DEF TypeInv
<1>. QED  BY <1>1, <1>2, <1>3, <1>4, <1>5

LEMMA PageSynced ==
  ASSUME TypeInv, LastWritten, NEW p \in Pages, file'.db[p] = file.db[p],
         loose'.db[p] = loose.db[p], DbSynced(p)
  PROVE  DbSynced(p)'
BY DEF DbSynced

LEMMA DiskInvStep ==
  ASSUME WalInv, WalInv', DiskInv, [Next]_vars
  PROVE  DiskInv'
<1>0. /\ TypeInv /\ TypeInv' /\ LastWritten /\ PhaseInv /\ OwnInv /\ ReadInv /\ CheckpointInv
      /\ hdr.mxFrame \in Nat /\ nBackfill \in Nat /\ w \in Writers
  BY Types DEF WalInv
<1>1. CASE Crash
  BY <1>0, <1>1, CrashIs DEF DiskInv, DbSynced
<1>2. CASE CopyPage
  <2>1. /\ hdr' = hdr /\ w.pc = "copy" /\ w'.pc = "copy" /\ nBackfill' = nBackfill
        /\ \A p \in Pages : Last(p) \in 0..nBackfill =>
                file'.db[p] = file.db[p] /\ loose'.db[p] = loose.db[p]
    BY <1>0, <1>2, CopyIs
  <2>2. nBackfill < hdr.mxFrame
    BY <1>0, <2>1 DEF CheckpointInv, CkptPcs, Writers
  <2>3. ~Crash
    BY <1>0, <2>1, CrashIs, EmptyTypes DEF IdleWriter
  <2>4. \A p \in Pages : Last(p)' = Last(p)
    BY <1>0, <2>1, <2>3, LastStays
  <2>5. \A p \in Pages : Last(p)' = 0 => DbSynced(p)'
    BY <1>0, <2>1, <2>4, PageSynced DEF DiskInv
  <2>. QED  BY <1>0, <2>1, <2>2, <2>5 DEF DiskInv
<1>3. CASE SyncDb
  <2>1. /\ w.pc = "copy" /\ hdr' = hdr /\ nBackfill' = nBackfill /\ file' = file
        /\ loose' = IF w.mxSafeFrame = hdr.mxFrame
                      THEN [loose EXCEPT !.db = [p \in Pages |-> {file.db[p]}]] ELSE loose
        /\ w' = [w EXCEPT !.pc = "copied"]
    BY <1>3 DEF SyncDb, At, shm
  <2>2. CASE w.mxSafeFrame = hdr.mxFrame
    <3>1. loose'.db = [p \in Pages |-> {file.db[p]}]
      BY <1>0, <2>1, <2>2 DEF TypeInv
    <3>. QED  BY <2>1, <3>1 DEF DiskInv, DbSynced
  <2>3. CASE w.mxSafeFrame # hdr.mxFrame
    <3>1. w'.mxSafeFrame = w.mxSafeFrame /\ loose' = loose
      BY <1>0, <2>1, <2>3 DEF Writers
    <3>2. \A p \in Pages : Last(p)' = Last(p)
      BY <2>1 DEF Last, LastFrame
    <3>. QED  BY <2>1, <2>3, <3>1, <3>2 DEF DiskInv, DbSynced
  <2>. QED  BY <2>2, <2>3
<1>4. CASE SetBackfill
  <2>1. /\ w.pc = "copied" /\ hdr' = hdr /\ file' = file /\ loose' = loose
        /\ nBackfill' = w.mxSafeFrame /\ w'.pc = "wait"
    BY <1>0, <1>4 DEF SetBackfill, At, Writers
  <2>2. w.mxSafeFrame <= hdr.mxFrame
    BY <1>0, <2>1 DEF CheckpointInv, CkptPcs
  <2>3. nBackfill' >= hdr'.mxFrame => w.mxSafeFrame = hdr.mxFrame
    BY <1>0, <2>1, <2>2 DEF Writers
  <2>4. \A p \in Pages : Last(p)' = Last(p)
    BY <2>1 DEF Last, LastFrame
  <2>. QED  BY <2>1, <2>3, <2>4 DEF DiskInv, DbSynced
<1>5. CASE /\ ~Crash /\ ~CopyPage /\ ~SyncDb /\ ~SetBackfill
  <2>1. file'.db = file.db /\ loose'.db = loose.db
    BY <1>0, <1>5, DbKept
  <2>2. \A p \in Pages : DbSynced(p) => DbSynced(p)'
    BY <2>1 DEF DbSynced
  <2>3. CASE RestartLog \/ ResetMarks \/ ReadAgain
    <3>1. /\ w.pc \in {"restart", "reset", "reread"} /\ w'.pc \in {"reset", "reread", "loghdr"}
          /\ SameFiles
          /\ hdr' = hdr \/ (RestartLog /\ hdr'.mxFrame = 0 /\ w.pc = "restart")
      BY <1>0, <2>3, RestartIs
    <3>2. CASE RestartLog /\ hdr'.mxFrame = 0 /\ w.pc = "restart"
      <4>1. nBackfill = hdr.mxFrame
        <5>1. InTx /\ HeadOk /\ mine.pc = "in" /\ mine.readLock = 0
          BY <1>0, <3>2 DEF OwnInv, PhaseInv, InTx, TxPcs
        <5>. QED  BY <3>2, <5>1 DEF HeadOk
      <4>. QED  BY <1>0, <2>2, <3>1, <4>1 DEF DiskInv
    <3>3. CASE hdr' = hdr
      <4>1. \A p \in Pages : Last(p)' = Last(p)
        BY <3>1, <3>3 DEF Last, LastFrame, SameFiles
      <4>2. nBackfill' = nBackfill \/ nBackfill >= hdr.mxFrame
        <5>1. CASE ResetMarks
          BY <1>0, <5>1 DEF ResetMarks, At, CheckpointInv
        <5>. QED  BY <2>3, <5>1 DEF RestartLog, ReadAgain, shm
      <4>. QED  BY <2>2, <3>1, <3>3, <4>1, <4>2 DEF DiskInv
    <3>. QED  BY <3>1, <3>2, <3>3
  <2>4. CASE Publish
    <3>1. /\ w'.pc = "idle" /\ nBackfill' = nBackfill /\ w.pc = "publish"
          /\ hdr'.mxFrame = w.iFrame /\ SameFiles
      BY <1>0, <2>4, EndIs
    <3>2. hdr.mxFrame <= hdr'.mxFrame
      <4>1. InTx /\ HeadOk /\ mine.pc = "in" /\ Top = w.iFrame
        BY <1>0, <3>1 DEF OwnInv, PhaseInv, InTx, TxPcs, Top
      <4>. QED  BY <3>1, <4>1 DEF HeadOk
    <3>3. \A p \in Pages : Last(p)' = 0 => Last(p) = 0
      <4>1. TAKE p \in Pages
      <4>2. SUFFICES ASSUME Last(p) # 0, Last(p)' = 0 PROVE FALSE
        OBVIOUS
      <4>3. Last(p) \in 1..hdr.mxFrame /\ file.wal[Last(p)].page = p
        BY <1>0, <4>2, LastIs
      <4>4. \A i \in 1..hdr'.mxFrame : file'.wal[i].page = p => i <= Last(p)'
        BY <1>0, LastNext
      <4>5. hdr'.mxFrame \in Nat /\ file' = file
        BY <1>0, <3>1, Types DEF SameFiles, Writers
      <4>. QED  BY <1>0, <3>2, <4>2, <4>3, <4>4, <4>5
    <3>4. hdr'.mxFrame \in Nat
      BY <1>0, <3>1 DEF Writers
    <3>. QED  BY <1>0, <2>2, <3>1, <3>2, <3>3, <3>4 DEF DiskInv
  <2>5. CASE ~RestartLog /\ ~ResetMarks /\ ~ReadAgain /\ ~Publish
    <3>1. hdr' = hdr
      BY <1>0, <1>5, <2>5, HeaderKept
    <3>2. \A p \in Pages : Last(p)' = Last(p)
      BY <1>0, <1>5, <3>1, LastStays
    <3>3. /\ nBackfill' = nBackfill
          /\ w'.pc = "copied" => w' = w
      <4>1. CASE Reading
        BY <4>1, ReadsAre
      <4>2. CASE BeginTx \/ (\E p \in Pages : Spill(p)) \/ (\E ps \in SUBSET Pages : Commit(ps))
        BY <1>0, <4>2, BeginTxIs, WalFramesIs
      <4>3. CASE WriteLogHeader \/ SyncLogHeader \/ SyncFrames \/ WriteFrame \/ RewriteChecksums
                 \/ EndSpill
        BY <1>0, <4>3, LogHeaderIs, SyncIs, WriteFrameIs, RewriteIs, EndSpillIs
      <4>4. CASE Rollback \/ WriteFails \/ CheckpointBusy \/ CheckpointOk
        BY <1>0, <4>4, EndIs
      <4>5. CASE \/ BeginCheckpoint \/ ReadMark \/ RaiseMark \/ YieldToMark \/ SkipBackfill
                 \/ StartBackfill
        BY <1>0, <1>5, <4>5, CkptStepIs
      <4>. QED  BY <1>5, <2>5, <4>1, <4>2, <4>3, <4>4, <4>5
           DEF Next, Transaction, RunCheckpoint, Reading
    <3>. QED  BY <2>2, <3>1, <3>2, <3>3 DEF DiskInv
  <2>. QED  BY <2>3, <2>4, <2>5
<1>. QED  BY <1>1, <1>2, <1>3, <1>4, <1>5

LEMMA SaltInvStep ==
  ASSUME WalInv, WalInv', TailInv, SaltInv, [Next]_vars
  PROVE  SaltInv'
<1>0. /\ TypeInv /\ TypeInv' /\ LastWritten /\ LastWritten' /\ PhaseInv /\ OwnInv /\ ReadInv
      /\ CheckpointInv
      /\ hdr.mxFrame \in Nat /\ mine.hdr.mxFrame \in Nat /\ count.salt \in Nat /\ w \in Writers
      /\ InTx => HeadOk
      /\ mine = rd[Writer] /\ mine' = rd'[Writer]
  BY Types DEF WalInv, OwnInv, mine
<1>1. CASE Crash
  <2>1. /\ loose'.log = {file'.log} /\ file'.log \in loose.log
        /\ hdr'.mxFrame = Recovered(file') /\ hdr'.salt = file'.log.salt
        /\ w'.pc = "idle" /\ w'.nCkpt = file'.log.nCkpt
    BY <1>0, <1>1, CrashIs DEF IdleWriter
  <2>2. ~Appending'
    BY <2>1, NotBegun DEF Appending, InTx, TxPcs
  <2>3. hdr'.mxFrame > 0 => file'.log # NoLog
    <3>1. TypeInv'
      BY <1>0
    <3>2. Recovered(file') # 0 => file'.log # NoLog
      BY RecoveredType
    <3>. QED  BY <2>1, <3>2
  <2>4. file'.log.salt = 0 => file'.log = NoLog
    BY <2>1 DEF SaltInv
  <2>5. w'.nCkpt # 0 => file'.log # NoLog
    BY <2>1 DEF NoLog
  <2>. QED  BY <2>1, <2>2, <2>3, <2>4, <2>5 DEF SaltInv
<1>2. CASE Reading
  <2>1. /\ UNCHANGED <<hdr, nBackfill, w, count>> /\ SameFiles
        /\ mine' = mine \/ (~Begun /\ ~Begun' /\ w.pc \in {"tx", "loghdr"}
                            /\ (mine'.pc # "out" => mine'.hdr = hdr))
    BY <1>2, ReadsAre
  <2>2. CASE mine' = mine
    <3>1. Begun' <=> Begun
      BY <2>1, <2>2 DEF Begun, Top, InTx
    <3>. QED  BY <2>1, <2>2, <3>1 DEF SaltInv, Appending, SameFiles
  <2>3. CASE ~Begun' /\ w.pc \in {"tx", "loghdr"} /\ (mine'.pc # "out" => mine'.hdr = hdr)
    BY <2>1, <2>3 DEF SaltInv, Appending, SameFiles
  <2>. QED  BY <2>1, <2>2, <2>3
<1>3. CASE BeginTx
  <2>1. /\ w.pc = "idle" /\ w'.pc = "tx" /\ SameTx /\ UNCHANGED <<hdr, rd>> /\ SameFiles
    BY <1>0, <1>3, BeginTxIs
  <2>2. ~Begun'
    <3>1. mine'.pc = "out"
      BY <1>0, <2>1 DEF PhaseInv, NoRead
    <3>. QED  BY <3>1, NotBegun
  <2>. QED  BY <2>1, <2>2 DEF SaltInv, Appending, SameFiles, SameTx
<1>4. CASE (\E p \in Pages : Spill(p)) \/ (\E ps \in SUBSET Pages : Commit(ps))
  <2>1. /\ w.pc = "tx" /\ mine.pc = "in" /\ w'.pc \in {"restart", "loghdr"}
        /\ w'.nCkpt = w.nCkpt /\ UNCHANGED <<hdr, rd>> /\ SameFiles
    BY <1>0, <1>4, WalFramesIs
  <2>2. mine' = mine /\ Top' = Top
    BY <1>0, <2>1 DEF Top
  <2>3. Begun' <=> Begun
    BY <2>1, <2>2 DEF Begun, InTx, TxPcs
  <2>4. mine.hdr.mxFrame = hdr.mxFrame => mine.hdr = hdr
    BY <1>0, <2>1 DEF HeadOk, InTx, TxPcs
  <2>. QED  BY <2>1, <2>2, <2>3, <2>4 DEF SaltInv, Appending, SameFiles
<1>5. CASE RestartLog \/ ResetMarks \/ ReadAgain
  <2>1. /\ SameFiles /\ w.pc \in {"restart", "reset", "reread"}
        /\ w'.pc \in {"reset", "reread", "loghdr"}
        /\ \/ hdr' = hdr /\ mine'.hdr = mine.hdr /\ w'.nCkpt = w.nCkpt
           \/ mine'.hdr = hdr' /\ hdr'.mxFrame = 0 /\ hdr'.salt = count.salt + 1
    BY <1>0, <1>5, RestartIs
  <2>2. mine.hdr = hdr
    BY <1>0, <2>1 DEF HeadOk, InTx, TxPcs
  <2>3. Top' = hdr'.mxFrame
    BY <2>1, <2>2 DEF Top
  <2>4. ~Begun'
    BY <1>0, <2>3, NotBegun
  <2>. QED  BY <1>0, <2>1, <2>2, <2>4 DEF SaltInv, Appending, SameFiles
<1>6. CASE WriteLogHeader
  <2>1. /\ w.pc = "loghdr" /\ mine.pc = "in" /\ mine'.pc = "in"
        /\ w'.iFrame = mine.hdr.mxFrame /\ mine'.hdr.mxFrame = mine.hdr.mxFrame
        /\ hdr' = hdr /\ w'.nCkpt = w.nCkpt
        /\ \/ /\ mine.hdr.mxFrame # 0 /\ w'.pc = "frames" /\ mine'.hdr.salt = mine.hdr.salt
              /\ SameFiles
           \/ /\ mine.hdr.mxFrame = 0 /\ w'.pc = "synclog"
              /\ file'.log.salt = mine'.hdr.salt /\ loose'.log = loose.log \cup {file'.log}
              /\ \/ w.nCkpt = 0 /\ mine'.hdr.salt = count.salt + 1
                 \/ w.nCkpt # 0 /\ mine'.hdr.salt = mine.hdr.salt
    BY <1>0, <1>6, LogHeaderIs
  <2>2. InTx /\ Top = mine.hdr.mxFrame /\ hdr.mxFrame <= mine.hdr.mxFrame
    BY <1>0, <2>1 DEF InTx, TxPcs, Top, HeadOk
  <2>3. CASE mine.hdr.mxFrame # 0 /\ w'.pc = "frames" /\ mine'.hdr.salt = mine.hdr.salt /\ SameFiles
    <3>1. CASE Begun
      BY <1>0, <2>1, <2>3, <3>1 DEF SaltInv, Appending, SameFiles
    <3>2. CASE ~Begun
      <4>1. mine.hdr.mxFrame = hdr.mxFrame
        BY <1>0, <2>1, <2>2, <3>2 DEF Begun
      <4>. QED  BY <1>0, <2>1, <2>3, <4>1 DEF SaltInv, Appending, SameFiles
    <3>. QED  BY <3>1, <3>2
  <2>4. CASE /\ mine.hdr.mxFrame = 0 /\ w'.pc = "synclog"
             /\ file'.log.salt = mine'.hdr.salt /\ loose'.log = loose.log \cup {file'.log}
             /\ \/ w.nCkpt = 0 /\ mine'.hdr.salt = count.salt + 1
                \/ w.nCkpt # 0 /\ mine'.hdr.salt = mine.hdr.salt
    <3>1. hdr.mxFrame = 0
      BY <1>0, <2>2, <2>4
    <3>2. mine'.hdr.salt # 0
      BY <1>0, <2>1, <2>4, <3>1 DEF SaltInv
    <3>3. ~Begun'
      <4>1. Top' = hdr'.mxFrame
        BY <2>1, <2>4, <3>1 DEF Top
      <4>. QED  BY <1>0, <4>1, NotBegun
    <3>. QED  BY <2>1, <2>4, <3>1, <3>2, <3>3 DEF SaltInv, Appending
  <2>. QED  BY <2>1, <2>3, <2>4
<1>7. CASE SyncLogHeader \/ SyncFrames
  <2>1. /\ file' = file /\ loose' = SyncedLog /\ SameTx /\ hdr' = hdr /\ mine' = mine
        /\ \/ w.pc = "synclog" /\ w'.pc = "frames"
           \/ w.pc = "frames" /\ w'.pc = "publish"
    BY <1>0, <1>7, SyncIs
  <2>2. loose'.log = {file'.log}
    BY <1>0, <2>1, SyncType
  <2>. QED  BY <1>0, <2>1, <2>2 DEF SaltInv, Appending, SameTx, LastWritten
<1>8. CASE WriteFrame \/ RewriteChecksums
  <2>1. /\ w.pc = "frames" /\ w'.pc = "frames" /\ hdr' = hdr /\ mine' = mine
        /\ file'.log = file.log /\ loose'.log = loose.log /\ w'.nCkpt = w.nCkpt
    BY <1>0, <1>8, WriteFrameIs, RewriteIs
  <2>. QED  BY <2>1 DEF SaltInv, Appending
<1>9. CASE EndSpill
  <2>1. /\ w.pc = "frames" /\ w'.pc = "tx" /\ w'.nCkpt = w.nCkpt
        /\ mine'.hdr.salt = mine.hdr.salt /\ hdr' = hdr /\ SameFiles
    BY <1>0, <1>9, EndSpillIs
  <2>. QED  BY <2>1 DEF SaltInv, Appending, SameFiles
<1>10. CASE Rollback \/ WriteFails \/ CheckpointBusy \/ CheckpointOk \/ Publish
  <2>1. /\ w'.pc = "idle" /\ w'.nCkpt = w.nCkpt /\ ~InTx' /\ SameFiles
        /\ Publish => /\ w.pc = "publish" /\ hdr'.salt = mine.hdr.salt
        /\ Publish \/ hdr' = hdr
    BY <1>0, <1>10, EndIs
  <2>2. ~Appending'
    BY <2>1, NotBegun DEF Appending
  <2>. QED  BY <2>1, <2>2 DEF SaltInv, Appending, SameFiles
<1>11. CASE \/ BeginCheckpoint \/ ReadMark \/ RaiseMark \/ YieldToMark \/ SkipBackfill
            \/ StartBackfill \/ CopyPage \/ SyncDb \/ SetBackfill
  <2>1. /\ ~InTx /\ ~InTx' /\ SameTx /\ hdr' = hdr
        /\ file'.log = file.log
        /\ loose'.log = loose.log \/ (loose' = SyncedLog /\ file' = file)
    BY <1>0, <1>11, CkptStepIs
  <2>2. ~Appending' /\ w'.pc \notin {"synclog", "loghdr"}
    BY <2>1, NotBegun DEF Appending, InTx, TxPcs
  <2>3. \/ loose'.log = loose.log
        \/ loose'.log = {file.log} /\ file.log \in loose.log
    BY <1>0, <2>1, SyncType DEF LastWritten
  <2>. QED  BY <2>1, <2>2, <2>3 DEF SaltInv, SameTx
<1>. QED  BY <1>1, <1>2, <1>3, <1>4, <1>5, <1>6, <1>7, <1>8, <1>9, <1>10, <1>11
     DEF Next, Transaction, RunCheckpoint, Reading

-----------------------------------------------------------------------------
(* The sums of frames. *)
LEMMA BodiesAre ==
  ASSUME NEW wal \in [1..MaxFrame -> Frames], NEW k \in 0..MaxFrame
  PROVE  /\ BodiesOf(wal, k) \in Seq(Bodies) /\ Len(BodiesOf(wal, k)) = k
         /\ \A j \in 1..k : BodiesOf(wal, k)[j] = Body(wal[j])
         /\ k = 0 => BodiesOf(wal, k) = <<>>
<1>1. \A j \in 1..k : Body(wal[j]) \in Bodies
  BY Constants DEF Frames, Bodies, Body
<1>2. BodiesOf(wal, k) \in [1..k -> Bodies]
  BY <1>1 DEF BodiesOf
<1>3. BodiesOf(wal, k) \in Seq(Bodies) /\ Len(BodiesOf(wal, k)) = k
  <2>1. k \in Nat
    OBVIOUS
  <2>. QED  BY <1>2, <2>1, SeqDef, LenProperties
<1>4. \A j \in 1..k : BodiesOf(wal, k)[j] = Body(wal[j])
  BY DEF BodiesOf
<1>5. k = 0 => BodiesOf(wal, k) = <<>>
  BY <1>3, EmptySeq
<1>. QED  BY <1>3, <1>4, <1>5

LEMMA BodiesSame ==
  ASSUME NEW u, NEW v, NEW k, \A j \in 1..k : Body(u[j]) = Body(v[j])
  PROVE  BodiesOf(u, k) = BodiesOf(v, k)
BY DEF BodiesOf

LEMMA BodiesNext ==
  ASSUME NEW wal \in [1..MaxFrame -> Frames], NEW k \in 0..MaxFrame - 1
  PROVE  Append(BodiesOf(wal, k), Body(wal[k + 1])) = BodiesOf(wal, k + 1)
<1>1. k \in 0..MaxFrame /\ k + 1 \in 0..MaxFrame /\ k \in Nat
  BY Constants
<1>. DEFINE s == BodiesOf(wal, k)
            t == BodiesOf(wal, k + 1)
            b == Body(wal[k + 1])
<1>2. /\ s \in Seq(Bodies) /\ Len(s) = k /\ \A j \in 1..k : s[j] = Body(wal[j])
      /\ t \in Seq(Bodies) /\ Len(t) = k + 1 /\ \A j \in 1..k + 1 : t[j] = Body(wal[j])
  BY <1>1, BodiesAre
<1>3. b = t[k + 1] /\ b \in Bodies
  <2>1. k + 1 \in 1..Len(t)
    BY <1>1, <1>2
  <2>2. b = t[k + 1]
    BY <1>1, <1>2
  <2>. HIDE DEF b, t
  <2>. QED  BY <1>2, <2>1, <2>2, ElementOfSeq
<1>. HIDE DEF s, t, b
<1>4. Append(s, b) \in Seq(Bodies) /\ Len(Append(s, b)) = k + 1
      /\ \A j \in 1..k + 1 : Append(s, b)[j] = IF j <= k THEN s[j] ELSE b
  BY <1>1, <1>2, <1>3
<1>5. \A j \in 1..k + 1 : Append(s, b)[j] = t[j]
  BY <1>1, <1>2, <1>3, <1>4
<1>6. Append(s, b) = t
  BY <1>2, <1>4, <1>5, SeqEqual
<1>. QED  BY <1>6 DEF s, t, b

LEMMA BodiesJoin ==
  ASSUME NEW wal \in [1..MaxFrame -> Frames], NEW i \in 1..MaxFrame, NEW k \in i..MaxFrame
  PROVE  BodiesOf(wal, i - 1) \o [j \in 1..(k - i + 1) |-> Body(wal[i + j - 1])] = BodiesOf(wal, k)
<1>1. /\ i - 1 \in 0..MaxFrame /\ k \in 0..MaxFrame /\ k - i + 1 \in Nat /\ i \in Nat /\ k \in Nat
      /\ 1 <= i /\ i <= k /\ k <= MaxFrame /\ MaxFrame \in Nat
  BY Constants
<1>. DEFINE s == BodiesOf(wal, i - 1)
            t == BodiesOf(wal, k)
            u == [j \in 1..(k - i + 1) |-> Body(wal[i + j - 1])]
<1>2. /\ s \in Seq(Bodies) /\ Len(s) = i - 1 /\ \A j \in 1..i - 1 : s[j] = Body(wal[j])
      /\ t \in Seq(Bodies) /\ Len(t) = k /\ \A j \in 1..k : t[j] = Body(wal[j])
  BY <1>1, BodiesAre
<1>3. u \in Seq(Bodies) /\ Len(u) = k - i + 1
      /\ \A j \in 1..k - i + 1 : u[j] = Body(wal[i + j - 1])
  <2>1. \A j \in 1..(k - i + 1) : Body(wal[i + j - 1]) \in Bodies
    <3>1. \A j \in 1..MaxFrame : Body(wal[j]) \in Bodies
      BY Constants DEF Frames, Bodies, Body
    <3>2. ASSUME NEW j \in 1..(k - i + 1) PROVE i + j - 1 \in 1..MaxFrame
      <4>1. j \in Nat /\ 1 <= j /\ j <= k - i + 1
        BY <1>1
      <4>. QED  BY <1>1, <4>1
    <3>. QED  BY <3>1, <3>2
  <2>2. u \in [1..(k - i + 1) -> Bodies]
    BY <2>1
  <2>3. \A j \in 1..k - i + 1 : u[j] = Body(wal[i + j - 1])
    OBVIOUS
  <2>. HIDE DEF u
  <2>. QED  BY <1>1, <2>2, <2>3, SeqDef, LenProperties
<1>. HIDE DEF s, t, u
<1>4. s \o u \in Seq(Bodies) /\ Len(s \o u) = k
  <2>1. s \o u \in Seq(Bodies) /\ Len(s \o u) = Len(s) + Len(u)
    BY <1>2, <1>3, ConcatProperties
  <2>2. (i - 1) + (k - i + 1) = k
    BY <1>1
  <2>. QED  BY <1>2, <1>3, <2>1, <2>2
<1>5. \A j \in 1..k : (s \o u)[j] = t[j]
  <2>1. TAKE j \in 1..k
  <2>a. j \in Nat /\ 1 <= j /\ j <= k
    BY <1>1
  <2>b. /\ (i - 1) + (k - i + 1) = k
        /\ (s \o u)[j] = IF j <= i - 1 THEN s[j] ELSE u[j - (i - 1)]
    BY <1>1, <1>2, <1>3, <2>a, ConcatProperties
  <2>2. CASE j <= i - 1
    <3>1. (s \o u)[j] = s[j]
      BY <2>2, <2>b
    <3>. QED  BY <1>1, <1>2, <2>2, <2>a, <3>1
  <2>3. CASE j > i - 1
    <3>1. (s \o u)[j] = u[j - (i - 1)]
      BY <2>3, <2>a, <2>b, <1>1
    <3>2. j - (i - 1) \in 1..k - i + 1 /\ i + (j - (i - 1)) - 1 = j
      BY <1>1, <2>3, <2>a
    <3>. QED  BY <1>2, <1>3, <3>1, <3>2
  <2>4. j <= i - 1 \/ j > i - 1
    BY <1>1, <2>a
  <2>. QED  BY <2>2, <2>3, <2>4
<1>6. s \o u = t
  BY <1>2, <1>4, <1>5, SeqEqual
<1>. QED  BY <1>6 DEF s, t, u

-----------------------------------------------------------------------------
(* The frame a step writes. *)
Over(f) == [file.wal[f] EXCEPT !.val = w.cache[NextPage]]
Overwrites(f) ==
  /\ f \in hdr.mxFrame + 1..mine.hdr.mxFrame /\ f \in 1..MaxFrame /\ mine.hdr.mxFrame <= w.iFrame
  /\ ~(IsLast /\ w.isCommit)
  /\ file'.wal = [file.wal EXCEPT ![f] = Over(f)]
  /\ loose'.wal = [loose.wal EXCEPT ![f] = @ \cup {Over(f)}]
  /\ w'.iFrame = w.iFrame
  /\ w'.iReCksum = IF w.iReCksum = 0 \/ f < w.iReCksum THEN f ELSE w.iReCksum

Fields(new) ==
  /\ new.page = NextPage /\ new.val = w.cache[NextPage] /\ new.commit = (w.isCommit /\ IsLast)
  /\ new.salt = IF w.iReCksum # 0 THEN 0 ELSE mine.hdr.salt
  /\ new.sum = IF w.iReCksum # 0 THEN <<>> ELSE Append(SumOf(w.iFrame), Body(new))
Appends(new) ==
  /\ Fields(new) /\ w.iFrame + 1 \in 1..MaxFrame
  /\ file'.wal = [file.wal EXCEPT ![w.iFrame + 1] = new]
  /\ loose'.wal = [loose.wal EXCEPT ![w.iFrame + 1] = @ \cup {new}]
  /\ w'.iFrame = w.iFrame + 1 /\ w'.iReCksum = w.iReCksum

LEMMA FrameIs ==
  ASSUME TypeInv, LastWritten, OwnInv, PhaseInv, ReadInv, CheckpointInv, WriteFrame
  PROVE  (\E f : Overwrites(f)) \/ (\E new : Appends(new))
<1>1. /\ w.pc = "frames" /\ w.list # {} /\ InTx /\ HeadOk /\ w \in Writers
      /\ NextPage \in w.list /\ NextPage \in Pages
  <2>1. w.pc = "frames" /\ w.list # {}
    BY DEF WriteFrame, At
  <2>. QED  BY <2>1, Types, NextPageType DEF OwnInv, InTx, TxPcs
<1>2. CASE Overwritten # 0
  <2>1. PICK f : f = Overwritten
    OBVIOUS
  <2>2. /\ f \in hdr.mxFrame + 1..mine.hdr.mxFrame /\ f \in 1..MaxFrame
    BY <1>1, <1>2, <2>1, OverwrittenIs
  <2>3. ~(IsLast /\ w.isCommit)
    BY <1>2 DEF Overwritten
  <2>4. PICK x : x = Over(f)
    OBVIOUS
  <2>5. PICK y : y = IF w.iReCksum = 0 \/ f < w.iReCksum THEN f ELSE w.iReCksum
    OBVIOUS
  <2>6. /\ file' = [file EXCEPT !.wal[f] = x]
        /\ loose' = [loose EXCEPT !.wal[f] = @ \cup {x}]
        /\ \E s : w' = [w EXCEPT !.list = s, !.iReCksum = y]
    BY <1>2, <2>1, <2>4, <2>5 DEF WriteFrame, WriteWal, Over
  <2>7. /\ file'.wal = [file.wal EXCEPT ![f] = x]
        /\ loose'.wal = [loose.wal EXCEPT ![f] = @ \cup {x}]
    BY <2>6 DEF TypeInv
  <2>8. w'.iFrame = w.iFrame /\ w'.iReCksum = y
    BY <1>1, <2>6 DEF Writers
  <2>9. mine.hdr.mxFrame <= w.iFrame
    BY <1>1 DEF HeadOk
  <2>10. Overwrites(f)
    BY <2>2, <2>3, <2>4, <2>5, <2>7, <2>8, <2>9 DEF Overwrites
  <2>. QED  BY <2>10
<1>3. CASE Overwritten = 0
  <2>. DEFINE body == <<NextPage, w.cache[NextPage], w.isCommit /\ IsLast>>
              frame == [page |-> NextPage, val |-> w.cache[NextPage], commit |-> w.isCommit /\ IsLast,
                        salt |-> IF w.iReCksum # 0 THEN 0 ELSE mine.hdr.salt,
                        sum |-> IF w.iReCksum # 0 THEN <<>> ELSE Append(SumOf(w.iFrame), body)]
  <2>1. PICK new : new = frame
    OBVIOUS
  <2>2. Fields(new)
    <3>1. Body(new) = body
      BY <2>1 DEF Body
    <3>. QED  BY <2>1, <3>1 DEF Fields
  <2>3. w.iFrame < MaxFrame /\ WriteWal(w.iFrame + 1, frame)
        /\ \E s : w' = [w EXCEPT !.list = s, !.iFrame = w.iFrame + 1]
    BY <1>3 DEF WriteFrame
  <2>. HIDE DEF frame
  <2>4. w.iFrame + 1 \in 1..MaxFrame
    BY <1>1, <2>3, Constants DEF Writers
  <2>5. PICK i : i = w.iFrame + 1
    OBVIOUS
  <2>6. /\ file' = [file EXCEPT !.wal[i] = new]
        /\ loose' = [loose EXCEPT !.wal[i] = @ \cup {new}]
    BY <2>1, <2>3, <2>5 DEF WriteWal
  <2>7. /\ file'.wal = [file.wal EXCEPT ![i] = new]
        /\ loose'.wal = [loose.wal EXCEPT ![i] = @ \cup {new}]
    BY <2>6 DEF TypeInv
  <2>8. w'.iFrame = i /\ w'.iReCksum = w.iReCksum
    BY <1>1, <2>3, <2>5 DEF Writers
  <2>9. Appends(new)
    BY <2>2, <2>4, <2>5, <2>7, <2>8 DEF Appends
  <2>. QED  BY <2>9
<1>. QED  BY <1>2, <1>3

(* Up to the frame written over first, sums are right. *)
LEMMA SumsAre ==
  ASSUME WalInv, TailInv, Synced(hdr.salt, hdr.mxFrame), w.pc = "frames", NEW k \in 0..w.iFrame,
         w.iReCksum = 0 \/ k < w.iReCksum
  PROVE  SumOf(k) = SumTo(k)
<1>1. /\ TypeInv /\ hdr.mxFrame \in Nat /\ w.iFrame \in 0..MaxFrame /\ k \in 0..MaxFrame
      /\ PhaseInv /\ file.wal \in [1..MaxFrame -> Frames]
  <2>1. TypeInv /\ PhaseInv
    BY DEF WalInv
  <2>2. w.iFrame \in 0..MaxFrame /\ hdr.mxFrame \in Nat /\ MaxFrame \in Nat
    BY <2>1, Types, Constants DEF Writers
  <2>. QED  BY <2>1, <2>2 DEF TypeInv
<1>2. CASE k = 0
  BY <1>1, <1>2, BodiesAre DEF SumOf, SumTo
<1>3. CASE k # 0 /\ k <= hdr.mxFrame
  BY <1>1, <1>3 DEF SumOf, Synced
<1>4. CASE k # 0 /\ k > hdr.mxFrame
  <2>1. Top = w.iFrame /\ Begun /\ k \in hdr.mxFrame + 1..Top
    <3>1. Top = w.iFrame
      BY DEF Top
    <3>2. k \in hdr.mxFrame + 1..Top
      BY <1>1, <1>4, <3>1
    <3>3. Top > hdr.mxFrame
      BY <1>1, <1>4, <3>1
    <3>. QED  BY <1>1, <3>1, <3>2, <3>3 DEF Begun, PhaseInv, InTx, TxPcs
  <2>2. TailOk(k)
    BY <2>1 DEF TailInv
  <2>. QED  BY <1>4, <2>2 DEF TailOk, SumOf
<1>. QED  BY <1>1, <1>2, <1>3, <1>4

(* The frames of a commit that were written over get their sums. *)
LEMMA SumsRewritten ==
  ASSUME WalInv, TailInv, Synced(hdr.salt, hdr.mxFrame), RewriteChecksums
  PROVE  /\ w.iReCksum \in hdr.mxFrame + 1..w.iFrame /\ Top = w.iFrame /\ Begun
         /\ \A k \in 1..MaxFrame :
              /\ Body(file'.wal[k]) = Body(file.wal[k])
              /\ k \in w.iReCksum..w.iFrame =>
                   file'.wal[k].salt = mine.hdr.salt /\ file'.wal[k].sum = SumTo(k)
              /\ k \notin w.iReCksum..w.iFrame => file'.wal[k] = file.wal[k]
              /\ loose'.wal[k] = loose.wal[k] \cup {file'.wal[k]}
<1>1. /\ TypeInv /\ hdr.mxFrame \in Nat /\ w.iFrame \in 0..MaxFrame /\ w.iReCksum \in 0..MaxFrame
      /\ file.wal \in [1..MaxFrame -> Frames] /\ MaxFrame \in Nat
  BY Types, Constants DEF WalInv, Writers, TypeInv
<1>2. w.pc = "frames" /\ AllWritten /\ w.iReCksum # 0 /\ mine' = mine
  BY <1>1, RewriteIs
<1>3. Top = w.iFrame /\ Begun /\ w.iReCksum \in hdr.mxFrame + 1..w.iFrame
  BY <1>2 DEF Top, TailInv
<1>. DEFINE r == w.iReCksum
            sum(k) == SumOf(r - 1) \o [j \in 1..(k - r + 1) |-> Body(file.wal[r + j - 1])]
            new == [k \in 1..MaxFrame |-> IF k \in r..w.iFrame
                      THEN [file.wal[k] EXCEPT !.salt = mine.hdr.salt, !.sum = sum(k)] ELSE file.wal[k]]
<1>4. /\ file' = [file EXCEPT !.wal = new]
      /\ loose' = [loose EXCEPT !.wal = [k \in 1..MaxFrame |-> @[k] \cup {new[k]}]]
  BY DEF RewriteChecksums
<1>5. \A k \in r..w.iFrame : sum(k) = SumTo(k)
  <2>1. TAKE k \in r..w.iFrame
  <2>2. r \in 1..MaxFrame /\ k \in r..MaxFrame /\ r - 1 \in 0..w.iFrame /\ r - 1 < r
    BY <1>1, <1>2, <1>3
  <2>3. SumOf(r - 1) = BodiesOf(file.wal, r - 1)
    BY <1>2, <2>2, SumsAre DEF SumTo
  <2>. QED  BY <1>1, <2>2, <2>3, BodiesJoin DEF SumTo
<1>6. \A k \in 1..MaxFrame : file.wal[k] \in Frames
  BY <1>1
<1>. HIDE DEF sum
<1>7. \A k \in 1..MaxFrame :
        /\ Body(new[k]) = Body(file.wal[k])
        /\ k \in r..w.iFrame => new[k].salt = mine.hdr.salt /\ new[k].sum = sum(k)
        /\ k \notin r..w.iFrame => new[k] = file.wal[k]
  BY <1>6 DEF Frames, Body
<1>8. file'.wal = new /\ \A k \in 1..MaxFrame : loose'.wal[k] = loose.wal[k] \cup {new[k]}
  BY <1>1, <1>4 DEF TypeInv
<1>. HIDE DEF new
<1>. QED  BY <1>3, <1>5, <1>7, <1>8

LEMMA TailRest ==
  ASSUME WalInv, WalInv', TailInv, [Next]_vars, ~Writes, ~Leaves, ~Publish, ~Crash
  PROVE  /\ w'.pc \in {"restart", "reset", "reread", "loghdr", "synclog"} => w'.list # {}
         /\ w'.pc = "publish" => /\ AllWritten' /\ w'.iReCksum = 0
                                 /\ \A k \in 1..MaxFrame : loose'.wal[k] = {file'.wal[k]}
<1>0. /\ TypeInv /\ TypeInv' /\ LastWritten /\ PhaseInv /\ OwnInv /\ ReadInv /\ CheckpointInv
  BY DEF WalInv
<1>1. CASE Reading
  <2>1. UNCHANGED w /\ SameFiles
    BY <1>1, ReadsAre
  <2>. QED  BY <2>1 DEF TailInv, AllWritten, SameFiles
<1>2. CASE BeginTx
  BY <1>0, <1>2, BeginTxIs
<1>3. CASE (\E p \in Pages : Spill(p)) \/ (\E ps \in SUBSET Pages : Commit(ps))
  BY <1>0, <1>3, WalFramesIs
<1>4. CASE RestartLog \/ ResetMarks \/ ReadAgain
  BY <1>0, <1>4, RestartIs DEF TailInv
<1>5. CASE WriteLogHeader
  BY <1>0, <1>5, LogHeaderIs DEF TailInv
<1>6. CASE SyncLogHeader \/ SyncFrames
  <2>1. /\ file' = file /\ loose' = SyncedLog /\ SameTx
        /\ \/ w'.pc = "frames"
           \/ w'.pc = "publish" /\ AllWritten /\ w.iReCksum = 0
    BY <1>0, <1>6, SyncIs
  <2>2. \A k \in 1..MaxFrame : loose'.wal[k] = {file'.wal[k]}
    BY <1>0, <2>1, SyncType
  <2>. QED  BY <2>1, <2>2 DEF AllWritten, SameTx
<1>7. CASE EndSpill
  BY <1>0, <1>7, EndSpillIs
<1>8. CASE \/ BeginCheckpoint \/ ReadMark \/ RaiseMark \/ YieldToMark \/ SkipBackfill
           \/ StartBackfill \/ CopyPage \/ SyncDb \/ SetBackfill
  BY <1>0, <1>8, CkptStepIs DEF InTx, TxPcs
<1>9. CASE CheckpointBusy \/ CheckpointOk
  BY <1>0, <1>9, EndIs
<1>. QED  BY <1>1, <1>2, <1>3, <1>4, <1>5, <1>6, <1>7, <1>8, <1>9
     DEF Next, Transaction, RunCheckpoint, Reading, Writes, Leaves

LEMMA TailWritten ==
  ASSUME WalInv, WalInv', TailInv, ValueInv, Synced(hdr.salt, hdr.mxFrame), WriteFrame
  PROVE  TailInv'
<1>0. /\ TypeInv /\ TypeInv' /\ LastWritten /\ PhaseInv /\ OwnInv /\ ReadInv /\ CheckpointInv
      /\ hdr.mxFrame \in Nat /\ w.iFrame \in 0..MaxFrame /\ w.iReCksum \in 0..MaxFrame
      /\ file.wal \in [1..MaxFrame -> Frames] /\ MaxFrame \in Nat /\ file'.wal \in [1..MaxFrame -> Frames]
      /\ count.tx \in Nat
  <2>1. /\ TypeInv /\ TypeInv' /\ LastWritten /\ PhaseInv /\ OwnInv /\ ReadInv /\ CheckpointInv
    BY DEF WalInv
  <2>2. /\ hdr.mxFrame \in Nat /\ w.iFrame \in 0..MaxFrame /\ w.iReCksum \in 0..MaxFrame
        /\ count.tx \in Nat /\ MaxFrame \in Nat
    BY <2>1, Types, Constants DEF Writers
  <2>. QED  BY <2>1, <2>2 DEF TypeInv
<1>1. /\ w.pc = "frames" /\ w'.pc = "frames" /\ w.list # {} /\ w'.list = w.list \ {NextPage}
      /\ w'.isCommit = w.isCommit /\ w'.cache = w.cache
      /\ UNCHANGED <<hdr, nBackfill, rd, count>> /\ mine' = mine
  BY <1>0, WriteFrameIs
<1>2. /\ InTx /\ HeadOk /\ mine.pc = "in" /\ Top = w.iFrame /\ Top' = w'.iFrame /\ InTx'
      /\ mine'.pc = "in" /\ hdr.mxFrame <= w.iFrame /\ ~AllWritten
  <2>1. InTx /\ InTx' /\ mine.pc = "in" /\ mine'.pc = "in" /\ Top = w.iFrame /\ Top' = w'.iFrame
    BY <1>0, <1>1 DEF InTx, TxPcs, PhaseInv, Top
  <2>. QED  BY <1>0, <1>1, <2>1 DEF HeadOk, OwnInv, AllWritten
<1>3. NextPage \in w.list /\ NextPage \in Pages /\ (IsLast <=> w'.list = {})
  <2>1. NextPage \in w.list /\ NextPage \in Pages
    BY <1>0, <1>1, NextPageType
  <2>2. PICK q : q = NextPage
    OBVIOUS
  <2>3. IsLast <=> w.list = {q}
    BY <2>2 DEF IsLast
  <2>. QED  BY <1>1, <2>1, <2>2, <2>3
<1>4. AllWritten' <=> w.isCommit /\ IsLast
  BY <1>1, <1>3 DEF AllWritten
<1>c. w.cache[NextPage][1] \in 0..count.tx
  BY <1>2, <1>3 DEF ValueInv, CacheOk, Given
<1>5. ASSUME NEW f, Overwrites(f) PROVE TailInv'
  <2>1. /\ f \in hdr.mxFrame + 1..w.iFrame /\ f \in 1..MaxFrame
        /\ ~AllWritten'
        /\ file'.wal = [file.wal EXCEPT ![f] = Over(f)]
        /\ w'.iFrame = w.iFrame
        /\ w'.iReCksum = IF w.iReCksum = 0 \/ f < w.iReCksum THEN f ELSE w.iReCksum
    BY <1>0, <1>4, <1>5, Types DEF Overwrites
  <2>2. Begun /\ Begun'
    BY <1>0, <1>1, <1>2, <2>1 DEF Begun
  <2>3. /\ w'.iReCksum # 0 /\ w'.iReCksum \in hdr.mxFrame + 1..w.iFrame
    BY <1>0, <1>2, <2>1, <2>2 DEF TailInv
  <2>4. file'.wal[f].commit = file.wal[f].commit /\ file'.wal[f].val = w.cache[NextPage]
        /\ \A k \in 1..MaxFrame : k # f => file'.wal[k] = file.wal[k]
    BY <1>0, <2>1 DEF Over, Frames
  <2>5. ASSUME NEW k \in hdr.mxFrame + 1..w.iFrame PROVE TailOk(k)'
    <3>1. TailOk(k) /\ k \in 1..MaxFrame
      BY <1>0, <1>2, <2>2 DEF TailInv
    <3>2. file'.wal[k].commit = file.wal[k].commit
      BY <2>4, <3>1
    <3>3. ~file'.wal[k].commit
      BY <1>2, <3>1, <3>2 DEF TailOk
    <3>4. ASSUME k < w'.iReCksum
          PROVE  file'.wal[k].salt = mine'.hdr.salt /\ file'.wal[k].sum = SumTo(k)'
      <4>1. k < f /\ (w.iReCksum = 0 \/ k < w.iReCksum)
        BY <1>0, <2>1, <3>4
      <4>2. \A j \in 1..k : Body(file.wal[j]) = Body(file'.wal[j])
        BY <1>0, <2>4, <3>1, <4>1
      <4>3. SumTo(k)' = SumTo(k)
        BY <4>2, BodiesSame DEF SumTo
      <4>4. file'.wal[k] = file.wal[k]
        BY <1>0, <2>4, <3>1, <4>1
      <4>. QED  BY <1>1, <3>1, <4>1, <4>3, <4>4 DEF TailOk
    <3>5. file'.wal[k].val[1] \in 0..count'.tx
      <4>1. CASE k = f
        BY <1>1, <1>c, <2>4, <4>1
      <4>2. CASE k # f
        BY <1>1, <2>4, <3>1, <4>2 DEF TailOk
      <4>. QED  BY <4>1, <4>2
    <3>. QED  BY <2>1, <2>3, <3>3, <3>4, <3>5 DEF TailOk
  <2>6. file'.wal[hdr.mxFrame + 1].val[1] = count.tx
    <3>1. CASE f = hdr.mxFrame + 1
      <4>1. w.cache[NextPage] # Torn /\ w.cache[NextPage][1] = count.tx
        <5>1. CacheOk(NextPage)
          BY <1>2, <1>3 DEF ValueInv
        <5>2. PICK q : q = NextPage
          OBVIOUS
        <5>3. ~(w.isCommit /\ w.list \subseteq {q})
          <6>1. ~(w.isCommit /\ w.list = {q})
            BY <1>4, <2>1, <5>2 DEF IsLast
          <6>. QED  BY <1>3, <5>2, <6>1
        <5>. QED  BY <1>3, <5>1, <5>2, <5>3 DEF CacheOk
      <4>. QED  BY <2>4, <3>1, <4>1
    <3>2. CASE f # hdr.mxFrame + 1
      <4>1. hdr.mxFrame + 1 \in 1..MaxFrame
        BY <1>0, <2>1
      <4>. QED  BY <2>2, <2>4, <3>2, <4>1 DEF TailInv
    <3>. QED  BY <3>1, <3>2
  <2>. QED  BY <1>1, <1>2, <2>1, <2>2, <2>3, <2>5, <2>6 DEF TailInv
<1>6. ASSUME NEW new, Appends(new) PROVE TailInv'
  <2>i. PICK i : i = w.iFrame + 1
    OBVIOUS
  <2>1. /\ Fields(new) /\ i \in 1..MaxFrame /\ file'.wal = [file.wal EXCEPT ![i] = new]
        /\ w'.iFrame = i /\ w'.iReCksum = w.iReCksum
    BY <1>6, <2>i DEF Appends
  <2>2. Begun'
    BY <1>0, <1>1, <1>2, <2>1, <2>i DEF Begun
  <2>3. /\ file'.wal[i] = new /\ i > hdr.mxFrame
        /\ \A k \in 1..MaxFrame : k # i => file'.wal[k] = file.wal[k]
    BY <1>0, <1>2, <2>1, <2>i
  <2>4. w.iReCksum # 0 => Begun /\ w.iReCksum \in hdr.mxFrame + 1..w.iFrame
    BY <1>2 DEF TailInv
  <2>5. ASSUME NEW k \in hdr.mxFrame + 1..w.iFrame PROVE TailOk(k)'
    <3>1. Begun /\ k \in 1..MaxFrame /\ k # i /\ k \in Nat
      BY <1>0, <1>2, <2>1, <2>i DEF Begun
    <3>2. TailOk(k)
      BY <1>2, <3>1 DEF TailInv
    <3>3. file'.wal[k] = file.wal[k] /\ k # w'.iFrame
      BY <2>1, <2>3, <3>1
    <3>4. \A j \in 1..k : Body(file.wal[j]) = Body(file'.wal[j])
      <4>1. \A j \in 1..k : j \in 1..MaxFrame /\ j # i
        BY <1>0, <2>1, <2>i, <3>1
      <4>. QED  BY <2>3, <4>1
    <3>5. SumTo(k)' = SumTo(k)
      BY <3>4, BodiesSame DEF SumTo
    <3>. QED  BY <1>1, <1>2, <2>1, <3>2, <3>3, <3>5 DEF TailOk
  <2>6. TailOk(i)'
    <3>1. file'.wal[i].commit <=> AllWritten'
      BY <1>4, <2>1, <2>3 DEF Fields
    <3>2. w'.iReCksum = 0 \/ i < w'.iReCksum => w.iReCksum = 0
      BY <1>0, <2>1, <2>4, <2>i
    <3>3. ASSUME w.iReCksum = 0
          PROVE  file'.wal[i].salt = mine'.hdr.salt /\ file'.wal[i].sum = SumTo(i)'
      <4>1. file'.wal[i].salt = mine.hdr.salt /\ file'.wal[i].sum = Append(SumOf(w.iFrame), Body(new))
        BY <2>1, <2>3, <3>3 DEF Fields
      <4>2. w.iFrame \in 0..w.iFrame /\ w.iFrame \in 0..MaxFrame - 1
        BY <1>0, <2>1, <2>i
      <4>3. SumOf(w.iFrame) = BodiesOf(file.wal, w.iFrame)
        BY <1>1, <3>3, <4>2, SumsAre DEF SumTo
      <4>4. \A j \in 1..w.iFrame : Body(file.wal[j]) = Body(file'.wal[j])
        BY <1>0, <2>1, <2>3, <2>i
      <4>5. BodiesOf(file.wal, w.iFrame) = BodiesOf(file'.wal, w.iFrame)
        BY <4>4, BodiesSame
      <4>6. Append(BodiesOf(file'.wal, w.iFrame), Body(new)) = BodiesOf(file'.wal, i)
        BY <1>0, <2>3, <2>i, <4>2, BodiesNext
      <4>. QED  BY <1>1, <4>1, <4>3, <4>5, <4>6 DEF SumTo
    <3>4. file'.wal[i].val[1] \in 0..count'.tx
      BY <1>1, <1>c, <2>1, <2>3 DEF Fields
    <3>. QED  BY <2>1, <3>1, <3>2, <3>3, <3>4 DEF TailOk
  <2>7. \A k \in hdr.mxFrame + 1..i : TailOk(k)'
    <3>1. \A k \in hdr.mxFrame + 1..i : k \in hdr.mxFrame + 1..w.iFrame \/ k = i
      BY <1>0, <2>i
    <3>. QED  BY <2>5, <2>6, <3>1
  <2>8. file'.wal[hdr.mxFrame + 1].val[1] = count.tx
    <3>1. CASE i = hdr.mxFrame + 1
      <4>1. ~Begun
        BY <1>0, <1>2, <2>i, <3>1 DEF Begun
      <4>2. CacheOk(NextPage)
        BY <1>2, <1>3 DEF ValueInv
      <4>3. w.cache[NextPage][1] = count.tx
        BY <1>3, <4>1, <4>2 DEF CacheOk
      <4>. QED  BY <2>1, <2>3, <3>1, <4>3 DEF Fields
    <3>2. CASE i # hdr.mxFrame + 1
      <4>1. Begun /\ hdr.mxFrame + 1 \in 1..MaxFrame
        BY <1>0, <1>2, <2>1, <2>i, <3>2 DEF Begun
      <4>. QED  BY <2>3, <3>2, <4>1 DEF TailInv
    <3>. QED  BY <3>1, <3>2
  <2>9. w'.iReCksum # 0 => w'.iReCksum \in hdr.mxFrame + 1..w'.iFrame
    BY <1>0, <2>1, <2>4, <2>i
  <2>. QED  BY <1>1, <1>2, <2>1, <2>2, <2>7, <2>8, <2>9, <2>i DEF TailInv
<1>. QED  BY <1>0, <1>5, <1>6, FrameIs

LEMMA TailInvStep ==
  ASSUME WalInv, WalInv', TailInv, SaltInv, ValueInv, Synced(hdr.salt, hdr.mxFrame), [Next]_vars
  PROVE  TailInv'
<1>0. /\ TypeInv /\ TypeInv' /\ LastWritten /\ PhaseInv /\ OwnInv /\ ReadInv /\ CheckpointInv
      /\ hdr.mxFrame \in Nat
  BY Types DEF WalInv
<1>1. CASE ~Writes /\ ~Leaves /\ ~Publish /\ ~Crash
  <2>1. Calm
    BY <1>1, CalmStep
  <2>2. /\ w'.pc \in {"restart", "reset", "reread", "loghdr", "synclog"} => w'.list # {}
        /\ w'.pc = "publish" => /\ AllWritten' /\ w'.iReCksum = 0
                                /\ \A k \in 1..MaxFrame : loose'.wal[k] = {file'.wal[k]}
    BY <1>1, TailRest
  <2>3. w'.pc = "idle" => w'.iReCksum = 0
    BY <2>1 DEF Calm, TailInv, InTx, TxPcs
  <2>4. InTx' /\ ~Begun' => w'.iReCksum = 0
    BY <2>1 DEF Calm, TailInv
  <2>5. AllWritten' => Begun'
    BY <2>1 DEF Calm, TailInv
  <2>6. ASSUME Begun'
        PROVE  /\ \A k \in hdr'.mxFrame + 1..Top' : TailOk(k)'
               /\ w'.iReCksum # 0 => w'.iReCksum \in hdr'.mxFrame + 1..Top'
               /\ file'.wal[hdr'.mxFrame + 1].val[1] = count'.tx
    <3>1. /\ Begun /\ InTx' /\ InTx /\ hdr' = hdr /\ Top' = Top /\ mine'.hdr.salt = mine.hdr.salt
          /\ w'.iReCksum = w.iReCksum /\ file'.wal = file.wal /\ count'.tx = count.tx
          /\ (AllWritten' <=> AllWritten) /\ (AllWritten => w'.iFrame = w.iFrame)
      BY <2>1, <2>6 DEF Calm, Begun
    <3>2. \A k : SumTo(k)' = SumTo(k)
      BY <3>1 DEF SumTo
    <3>3. \A k : TailOk(k) => TailOk(k)'
      BY <3>1, <3>2 DEF TailOk
    <3>. QED  BY <3>1, <3>3 DEF TailInv
  <2>. QED  BY <2>2, <2>3, <2>4, <2>5, <2>6 DEF TailInv
<1>2. CASE WriteFrame
  BY <1>2, TailWritten
<1>3. CASE RewriteChecksums
  <2>1. /\ w.pc = "frames" /\ w'.pc = "frames" /\ AllWritten
        /\ w'.iReCksum = 0 /\ w'.list = w.list /\ w'.isCommit = w.isCommit
        /\ w'.iFrame = w.iFrame /\ UNCHANGED <<hdr, nBackfill, rd, count>> /\ mine' = mine
    BY <1>0, <1>3, RewriteIs
  <2>2. /\ w.iReCksum \in hdr.mxFrame + 1..w.iFrame /\ Top = w.iFrame /\ Begun
        /\ \A k \in 1..MaxFrame :
             /\ Body(file'.wal[k]) = Body(file.wal[k])
             /\ k \in w.iReCksum..w.iFrame =>
                  file'.wal[k].salt = mine.hdr.salt /\ file'.wal[k].sum = SumTo(k)
             /\ k \notin w.iReCksum..w.iFrame => file'.wal[k] = file.wal[k]
    BY <1>3, SumsRewritten
  <2>3. AllWritten' /\ Top' = w.iFrame /\ Begun' /\ w.iFrame \in 0..MaxFrame
    <3>1. AllWritten' /\ Top' = w.iFrame
      BY <2>1 DEF AllWritten, Top
    <3>2. InTx'
      BY <2>1 DEF InTx, TxPcs
    <3>. QED  BY <1>0, <2>1, <2>2, <3>1, <3>2, Types DEF Begun, Writers
  <2>4. ASSUME NEW k \in hdr.mxFrame + 1..w.iFrame PROVE TailOk(k)'
    <3>1. TailOk(k) /\ k \in 1..MaxFrame /\ k \in Nat /\ k <= MaxFrame
      BY <1>0, <2>2, <2>3, Constants DEF TailInv
    <3>2. \A j \in 1..k : Body(file.wal[j]) = Body(file'.wal[j])
      <4>1. 1..k \subseteq 1..MaxFrame
        BY <3>1, Constants
      <4>. QED  BY <2>2, <4>1
    <3>3. SumTo(k)' = SumTo(k)
      BY <3>2, BodiesSame DEF SumTo
    <3>4. file'.wal[k].commit = file.wal[k].commit /\ file'.wal[k].val = file.wal[k].val
      BY <1>0, <3>1, <1>3, ChecksumsKeep
    <3>5. file'.wal[k].salt = mine.hdr.salt /\ file'.wal[k].sum = SumTo(k)
      <4>1. CASE k \in w.iReCksum..w.iFrame
        BY <2>2, <3>1, <4>1
      <4>2. CASE k \notin w.iReCksum..w.iFrame
        <5>1. k < w.iReCksum
          BY <1>0, <2>2, <2>3, <4>2
        <5>. QED  BY <2>2, <3>1, <4>2, <5>1 DEF TailOk
      <4>. QED  BY <4>1, <4>2
    <3>. QED  BY <2>1, <2>3, <3>1, <3>3, <3>4, <3>5 DEF TailOk
  <2>5. file'.wal[hdr.mxFrame + 1].val[1] = count.tx
    <3>1. hdr.mxFrame + 1 \in 1..MaxFrame
      BY <1>0, <2>2, <2>3, Constants
    <3>2. file'.wal[hdr.mxFrame + 1].val = file.wal[hdr.mxFrame + 1].val
      BY <1>0, <1>3, <3>1, ChecksumsKeep
    <3>. QED  BY <2>2, <3>2 DEF TailInv
  <2>. QED  BY <2>1, <2>3, <2>4, <2>5 DEF TailInv
<1>4. CASE Leaves \/ Publish
  <2>1. w'.pc = "idle" /\ w'.iReCksum = 0 /\ ~InTx'
    BY <1>0, <1>4, EndIs DEF Leaves
  <2>2. ~AllWritten' /\ ~Begun'
    BY <2>1, NotBegun DEF AllWritten
  <2>. QED  BY <2>1, <2>2 DEF TailInv
<1>5. CASE Crash
  <2>1. w'.pc = "idle" /\ w'.iReCksum = 0
    BY <1>0, <1>5, CrashIs DEF IdleWriter
  <2>2. ~AllWritten' /\ ~Begun'
    BY <2>1, NotBegun DEF AllWritten, InTx, TxPcs
  <2>. QED  BY <2>1, <2>2 DEF TailInv
<1>. QED  BY <1>1, <1>2, <1>3, <1>4, <1>5 DEF Writes

-----------------------------------------------------------------------------
(* A commit makes the pages of the transaction the store. *)
LEMMA Committed ==
  ASSUME WalInv, WalInv', ValueInv, TailInv, AllWritten, hdr'.mxFrame = w.iFrame,
         \A i \in 1..w.iFrame : /\ file'.wal[i].page = file.wal[i].page
                                /\ file'.wal[i].val = file.wal[i].val,
         \A p \in Pages : Last(p) = 0 => file'.db[p] = file.db[p]
  PROVE  \A p \in Pages : Store'[p] = IF w.cache[p] = Torn THEN Store[p] ELSE w.cache[p]
<1>0. /\ TypeInv /\ TypeInv' /\ w.list = {}
      /\ InTx /\ mine.pc = "in" /\ HeadOk /\ hdr.mxFrame \in Nat /\ Top = w.iFrame
      /\ w.iFrame \in Nat
  <2>1. TypeInv /\ TypeInv' /\ w.pc \in {"frames", "publish"} /\ w.list = {}
    BY DEF WalInv, AllWritten
  <2>2. InTx /\ mine.pc = "in" /\ Top = w.iFrame
    BY <2>1 DEF WalInv, PhaseInv, InTx, TxPcs, Top
  <2>. QED  BY <2>1, <2>2, Types DEF WalInv, OwnInv, Writers
<1>1. TAKE p \in Pages
<1>2. /\ PageOk(p) /\ p \notin w.list /\ hdr.mxFrame <= w.iFrame
  BY <1>0 DEF WalInv, OwnInv, HeadOk
<1>3. /\ Last(p)' \in 0..w.iFrame
      /\ Last(p)' # 0 => file.wal[Last(p)'].page = p
      /\ \A i \in 1..w.iFrame : file.wal[i].page = p => i <= Last(p)'
  <2>1. /\ Last(p)' \in 0..w.iFrame
        /\ Last(p)' # 0 => file'.wal[Last(p)'].page = p
        /\ \A i \in 1..w.iFrame : file'.wal[i].page = p => i <= Last(p)'
    BY <1>0, LastNext
  <2>2. Last(p)' # 0 => Last(p)' \in 1..w.iFrame
    BY <1>0, <2>1
  <2>. QED  BY <2>1, <2>2
<1>4. /\ Last(p) \in 0..hdr.mxFrame
      /\ Last(p) # 0 => Last(p) \in 1..hdr.mxFrame /\ file.wal[Last(p)].page = p
      /\ \A i \in 1..hdr.mxFrame : file.wal[i].page = p => i <= Last(p)
  BY <1>0, LastIs
<1>5. CASE w.cache[p] = Torn /\ Own(p) = {}
  <2>1. Last(p)' = Last(p)
    <3>1. \A i \in hdr.mxFrame + 1..w.iFrame : file.wal[i].page # p
      BY <1>0, <1>5 DEF Own
    <3>2. Last(p)' # 0 => Last(p)' \in 1..hdr.mxFrame
      BY <1>0, <1>2, <1>3, <3>1
    <3>3. Last(p) # 0 => Last(p) \in 1..w.iFrame
      BY <1>0, <1>2, <1>4
    <3>. QED  BY <1>0, <1>3, <1>4, <3>2, <3>3
  <2>2. Last(p) # 0 => Last(p) \in 1..w.iFrame
    BY <1>0, <1>2, <1>4
  <2>. QED  BY <1>0, <1>5, <2>1, <2>2, StoreIs, StoreNext
<1>6. CASE \E f \in Own(p) : file.wal[f].val = w.cache[p] /\ \A g \in Own(p) : g <= f
  <2>1. PICK f \in Own(p) : file.wal[f].val = w.cache[p] /\ \A g \in Own(p) : g <= f
    BY <1>6
  <2>2. /\ f \in hdr.mxFrame + 1..w.iFrame /\ file.wal[f].page = p
        /\ \A i \in hdr.mxFrame + 1..w.iFrame : file.wal[i].page = p => i <= f
    BY <1>0, <2>1 DEF Own
  <2>3. Last(p)' = f /\ f # 0
    <3>1. f \in 1..w.iFrame
      BY <1>0, <2>2
    <3>2. f <= Last(p)'
      BY <1>3, <2>2, <3>1
    <3>3. Last(p)' \in hdr.mxFrame + 1..w.iFrame /\ Last(p)' # 0
      BY <1>0, <1>3, <2>2, <3>1, <3>2
    <3>4. Last(p)' <= f
      BY <1>3, <2>2, <3>3
    <3>. QED  BY <1>0, <1>3, <2>2, <3>1, <3>2, <3>4
  <2>4. Store'[p] = w.cache[p]
    <3>1. f \in 1..w.iFrame
      BY <1>0, <2>2
    <3>. QED  BY <1>0, <2>1, <2>3, <3>1, StoreNext
  <2>5. w.cache[p] # Torn
    <3>1. Begun /\ Own(p) # {}
      BY <1>0, <2>1 DEF TailInv
    <3>. QED  BY <1>0, <3>1 DEF ValueInv, CacheOk
  <2>. QED  BY <2>4, <2>5
<1>. QED  BY <1>2, <1>5, <1>6 DEF PageOk

LEMMA PublishIs ==
  ASSUME WalInv, WalInv', ValueInv, TailInv, Publish
  PROVE  \A p \in Pages : Store'[p] = IF w.cache[p] = Torn THEN Store[p] ELSE w.cache[p]
<1>1. w.pc = "publish" /\ hdr'.mxFrame = w.iFrame /\ file' = file
  BY EndIs DEF WalInv, SameFiles
<1>2. AllWritten
  BY <1>1 DEF TailInv
<1>. QED  BY <1>1, <1>2, Committed

LEMMA CacheKept ==
  ASSUME InTx, NEW p \in Pages, CacheOk(p), w'.cache = w.cache, w'.isCommit = w.isCommit,
         w'.list \subseteq w.list, count'.tx = count.tx, Begun => Begun',
         Begun' /\ Own(p)' # {} => p \in w.list \/ (Begun /\ Own(p) # {})
  PROVE  CacheOk(p)'
<1>1. Given' = Given
  BY DEF Given
<1>. QED  BY <1>1 DEF CacheOk

LEMMA OwnSame ==
  ASSUME Begun' => Begun, Begun => hdr' = hdr /\ Top' = Top, file'.wal = file.wal, NEW p
  PROVE  Begun' /\ Own(p)' # {} => Begun /\ Own(p) # {}
BY DEF Own

(* The pages a statement changes. *)
LEMMA ChangesAre ==
  ASSUME WalInv, ValueInv, w.pc = "tx", NEW ps \in SUBSET Pages, NEW p \in Pages
  PROVE  /\ w.cache[p] # Torn => w.cache[p] \in Given /\ w.cache[p][1] = count.tx
         /\ Changed(ps)[p] # Torn => Changed(ps)[p] \in Given /\ Changed(ps)[p][1] = count.tx
         /\ p \in ps \/ w.cache[p] # Torn => Changed(ps)[p] # Torn
<1>1. /\ TypeInv /\ InTx /\ ~w.isCommit /\ w.cache[p] \in Vals /\ count.tx \in Nat
      /\ CacheOk(p)
  <2>1. TypeInv /\ InTx /\ ~w.isCommit
    BY DEF WalInv, InTx, TxPcs, OwnInv, ListOk
  <2>. QED  BY <2>1, Types DEF Writers, ValueInv
<1>2. w.cache[p] # Torn => w.cache[p] \in Given /\ w.cache[p][1] = count.tx
  BY <1>1 DEF CacheOk
<1>3. CASE p \notin ps
  BY <1>2, <1>3 DEF Changed
<1>4. CASE p \in ps
  <2>1. PICK n : n = IF w.cache[p] = Torn THEN 1 ELSE w.cache[p][2] + 1
    OBVIOUS
  <2>2. Changed(ps)[p] = <<count.tx, n>>
    BY <1>4, <2>1 DEF Changed
  <2>3. n \in Nat
    BY <1>2, <2>1 DEF Given
  <2>4. <<count.tx, n>> \in Given /\ <<count.tx, n>>[1] = count.tx /\ <<count.tx, n>> # Torn
    BY <1>1, <2>3 DEF Given, Vals, Torn
  <2>. QED  BY <1>2, <2>2, <2>4
<1>. QED  BY <1>2, <1>3, <1>4

LEMMA CacheList ==
  ASSUME WalInv, ValueInv, NEW list \in SUBSET Pages, NEW isCommit, NEW cache,
         WalFrames(list, isCommit, cache), list # {},
         (\E q \in Pages : Spill(q)) \/ (\E ps \in SUBSET Pages : Commit(ps)),
         \A p \in Pages : cache[p] # Torn =>
           /\ cache[p] \in Given
           /\ cache[p][1] = count.tx \/ (isCommit /\ list \subseteq {p} /\ Begun),
         \A p \in Pages : p \in list \/ w.cache[p] # Torn => cache[p] # Torn
  PROVE  \A p \in Pages : CacheOk(p)'
<1>1. /\ w.pc = "tx" /\ mine.pc = "in" /\ w'.pc \in {"restart", "loghdr"}
      /\ UNCHANGED <<hdr, nBackfill, rd, count>> /\ file' = file /\ TypeInv /\ InTx
  BY WalFramesIs DEF WalInv, SameFiles, InTx, TxPcs
<1>2. w'.list = list /\ w'.isCommit = isCommit /\ w'.cache = cache
  <2>1. \E x, y : w' = [w EXCEPT !.list = list, !.isCommit = isCommit, !.cache = cache,
                                 !.iFirst = x, !.pc = y]
    BY DEF WalFrames
  <2>. QED  BY <1>1, <2>1, Types DEF Writers
<1>3. mine' = mine /\ Top' = Top /\ (Begun' <=> Begun)
  <2>1. mine' = mine /\ Top' = Top
    BY <1>1 DEF mine, Top
  <2>. QED  BY <1>1, <2>1 DEF Begun, InTx, TxPcs
<1>4. ASSUME NEW p \in Pages PROVE CacheOk(p)'
  <2>1. CacheOk(p)
    BY <1>1 DEF ValueInv
  <2>2. Begun' /\ Own(p)' # {} => Begun /\ Own(p) # {}
    BY <1>1, <1>3 DEF Own
  <2>3. Given' = Given
    BY <1>1 DEF Given
  <2>. QED  BY <1>1, <1>2, <1>3, <2>1, <2>2, <2>3 DEF CacheOk
<1>. QED  BY <1>4

LEMMA CacheBegins ==
  ASSUME WalInv, ValueInv, (\E p \in Pages : Spill(p)) \/ (\E ps \in SUBSET Pages : Commit(ps))
  PROVE  \A p \in Pages : CacheOk(p)'
<1>0. /\ TypeInv /\ w.pc = "tx" /\ mine.pc = "in" /\ InTx /\ w.list = {} /\ w.cache \in [Pages -> Vals]
      /\ count.tx \in Nat /\ 1 \in Pages
  <2>1. TypeInv /\ w.pc = "tx" /\ mine.pc = "in"
    BY WalFramesIs DEF WalInv
  <2>. QED  BY <2>1, Types, Constants DEF WalInv, OwnInv, ListOk, InTx, TxPcs, Writers
<1>1. ASSUME NEW q \in Pages, Spill(q) PROVE \A p \in Pages : CacheOk(p)'
  <2>1. WalFrames({q}, FALSE, Changed({q}))
    BY <1>1 DEF Spill
  <2>2. \A p \in Pages :
          /\ Changed({q})[p] # Torn => Changed({q})[p] \in Given /\ Changed({q})[p][1] = count.tx
          /\ p \in {q} \/ w.cache[p] # Torn => Changed({q})[p] # Torn
    BY <1>0, ChangesAre
  <2>3. \A p \in Pages : Changed({q})[p] # Torn =>
          /\ Changed({q})[p] \in Given
          /\ Changed({q})[p][1] = count.tx \/ (FALSE /\ {q} \subseteq {p} /\ Begun)
    BY <2>2
  <2>4. {q} \in SUBSET Pages /\ {q} # {} /\ (\E x \in Pages : Spill(x))
    BY <1>1
  <2>. DEFINE c == Changed({q})
  <2>. HIDE DEF c
  <2>5. PICK list : list = {q}
    OBVIOUS
  <2>b. PICK b : b = FALSE
    OBVIOUS
  <2>6. /\ WalFrames(list, b, c) /\ list \in SUBSET Pages /\ list # {}
        /\ \A p \in Pages : c[p] # Torn =>
             /\ c[p] \in Given
             /\ c[p][1] = count.tx \/ (b /\ list \subseteq {p} /\ Begun)
        /\ \A p \in Pages : p \in list \/ w.cache[p] # Torn => c[p] # Torn
    BY <2>1, <2>2, <2>3, <2>5, <2>b DEF c
  <2>. QED  BY <2>4, <2>6, CacheList
<1>2. ASSUME NEW ps \in SUBSET Pages, Commit(ps) PROVE \A p \in Pages : CacheOk(p)'
  <2>1. CASE ps # {}
    <3>1. WalFrames(ps, TRUE, Changed(ps))
      BY <1>2, <2>1 DEF Commit
    <3>2. \A p \in Pages :
            /\ Changed(ps)[p] # Torn => Changed(ps)[p] \in Given /\ Changed(ps)[p][1] = count.tx
            /\ p \in ps \/ w.cache[p] # Torn => Changed(ps)[p] # Torn
      BY <1>0, ChangesAre
    <3>. DEFINE c == Changed(ps)
    <3>. HIDE DEF c
    <3>3. /\ WalFrames(ps, TRUE, c)
          /\ \A p \in Pages : c[p] # Torn =>
               /\ c[p] \in Given
               /\ c[p][1] = count.tx \/ (TRUE /\ ps \subseteq {p} /\ Begun)
          /\ \A p \in Pages : p \in ps \/ w.cache[p] # Torn => c[p] # Torn
          /\ \E x \in SUBSET Pages : Commit(x)
      BY <1>2, <3>1, <3>2 DEF c
    <3>. QED  BY <2>1, <3>3, CacheList
  <2>2. CASE ps = {}
    <3>. DEFINE cache == [w.cache EXCEPT ![1] = IF @ = Torn THEN ReadPage(Writer, 1) ELSE @]
    <3>1. WalFrames({1}, TRUE, cache) /\ \E p \in Pages : w.cache[p] # Torn
      BY <1>2, <2>2 DEF Commit
    <3>2. w.cache[1] = Torn => cache[1] = Store[1]
      <4>1. w.cache[1] = Torn => ReadPage(Writer, 1) = Store[1]
        BY <1>0, WriterReadsNow DEF WriterReadsItsWrites, At
      <4>. QED  BY <1>0, <4>1
    <3>3. w.cache[1] # Torn => cache[1] = w.cache[1]
      BY <1>0
    <3>4. \A p \in Pages : p # 1 => cache[p] = w.cache[p]
      BY <1>0
    <3>5. Store[1] \in Given /\ Store[1] # Torn
      <4>1. Store[1] \in Given
        BY <1>0 DEF ValueInv
      <4>. QED  BY <1>0, <4>1 DEF Given, Torn
    <3>6. Begun
      <4>1. PICK p \in Pages : w.cache[p] # Torn
        BY <3>1
      <4>2. PageOk(p)
        BY <1>0 DEF WalInv, OwnInv
      <4>3. PICK f \in Own(p) : TRUE
        BY <1>0, <4>1, <4>2 DEF PageOk
      <4>4. f \in hdr.mxFrame + 1..Top
        BY <4>3 DEF Own
      <4>. QED  BY <1>0, <4>4, TopType DEF Begun
    <3>7. \A p \in Pages : w.cache[p] # Torn => w.cache[p] \in Given /\ w.cache[p][1] = count.tx
      BY <1>0, ChangesAre
    <3>. HIDE DEF cache
    <3>8. \A p \in Pages : cache[p] # Torn =>
            /\ cache[p] \in Given
            /\ cache[p][1] = count.tx \/ (TRUE /\ {1} \subseteq {p} /\ Begun)
      BY <3>2, <3>3, <3>4, <3>5, <3>6, <3>7
    <3>9. \A p \in Pages : p \in {1} \/ w.cache[p] # Torn => cache[p] # Torn
      BY <3>2, <3>3, <3>4, <3>5
    <3>10. {1} \in SUBSET Pages /\ {1} # {}
      BY <1>0
    <3>11. \E x \in SUBSET Pages : Commit(x)
      BY <1>2
    <3>12. PICK list : list = {1}
      OBVIOUS
    <3>13. /\ WalFrames(list, TRUE, cache) /\ list \in SUBSET Pages /\ list # {}
           /\ \A p \in Pages : cache[p] # Torn =>
                /\ cache[p] \in Given
                /\ cache[p][1] = count.tx \/ (TRUE /\ list \subseteq {p} /\ Begun)
           /\ \A p \in Pages : p \in list \/ w.cache[p] # Torn => cache[p] # Torn
      BY <3>1, <3>8, <3>9, <3>10, <3>12
    <3>. QED  BY <3>11, <3>13, CacheList
  <2>. QED  BY <2>1, <2>2
<1>. QED  BY <1>1, <1>2

(* A frame of a page is written only when the page has changed. *)
LEMMA OwnGrows ==
  ASSUME WalInv, TailInv, Writes
  PROVE  /\ w'.iFrame >= w.iFrame /\ (Begun => Begun')
         /\ \A p \in Pages : Own(p)' # {} => p \in w.list \/ (Begun /\ Own(p) # {})
<1>0. /\ TypeInv /\ LastWritten /\ PhaseInv /\ OwnInv /\ ReadInv /\ CheckpointInv
  BY DEF WalInv
<1>1. /\ w.pc = "frames" /\ w'.pc = "frames" /\ hdr' = hdr /\ mine' = mine
  BY <1>0, WriteFrameIs, RewriteIs DEF Writes
<1>2. /\ InTx /\ InTx' /\ Top = w.iFrame /\ Top' = w'.iFrame /\ w.iFrame \in 0..MaxFrame
      /\ MaxFrame \in Nat /\ hdr.mxFrame \in Nat /\ mine.pc = "in"
      /\ file.wal \in [1..MaxFrame -> Frames]
  <2>1. InTx /\ InTx' /\ Top = w.iFrame /\ Top' = w'.iFrame /\ mine.pc = "in"
    BY <1>0, <1>1 DEF InTx, TxPcs, Top, PhaseInv
  <2>. QED  BY <1>0, <2>1, Types, Constants DEF Writers, TypeInv
<1>. SUFFICES /\ w'.iFrame \in w.iFrame..MaxFrame
              /\ \A p \in Pages : Own(p)' # {} => p \in w.list \/ (Begun /\ Own(p) # {})
  BY <1>1, <1>2 DEF Begun
<1>3. CASE RewriteChecksums
  <2>1. w'.iFrame = w.iFrame
    BY <1>0, <1>3, RewriteIs
  <2>2. \A k \in hdr.mxFrame + 1..Top : file'.wal[k].page = file.wal[k].page
    BY <1>0, <1>3, ChecksumsKeep, TopType
  <2>3. \A p \in Pages : Own(p)' # {} => Own(p) # {}
    BY <1>1, <1>2, <2>1, <2>2 DEF Own
  <2>4. Begun
    BY <1>0, <1>3, RewriteIs DEF TailInv
  <2>. QED  BY <1>2, <2>1, <2>3, <2>4
<1>4. ASSUME NEW f, Overwrites(f)
      PROVE  /\ w'.iFrame \in w.iFrame..MaxFrame
             /\ \A p \in Pages : Own(p)' # {} => p \in w.list \/ (Begun /\ Own(p) # {})
  <2>1. /\ f \in hdr.mxFrame + 1..w.iFrame /\ f \in 1..MaxFrame /\ w'.iFrame = w.iFrame
        /\ file'.wal = [file.wal EXCEPT ![f] = Over(f)]
    BY <1>0, <1>2, <1>4, Types DEF Overwrites
  <2>2. Over(f).page = file.wal[f].page
    BY <1>2, <2>1 DEF Over, Frames
  <2>3. \A k \in hdr.mxFrame + 1..Top : file'.wal[k].page = file.wal[k].page
    BY <1>0, <1>2, <2>1, <2>2, TopType
  <2>4. \A p \in Pages : Own(p)' # {} => Own(p) # {}
    BY <1>1, <1>2, <2>1, <2>3 DEF Own
  <2>5. Begun
    BY <1>2, <2>1 DEF Begun
  <2>. QED  BY <1>2, <2>1, <2>4, <2>5
<1>5. ASSUME NEW new, Appends(new)
      PROVE  /\ w'.iFrame \in w.iFrame..MaxFrame
             /\ \A p \in Pages : Own(p)' # {} => p \in w.list \/ (Begun /\ Own(p) # {})
  <2>1. PICK i : i = w.iFrame + 1
    OBVIOUS
  <2>2. /\ i \in 1..MaxFrame /\ file'.wal = [file.wal EXCEPT ![i] = new] /\ w'.iFrame = i
        /\ new.page = NextPage
    BY <1>5, <2>1 DEF Appends, Fields
  <2>3. ASSUME NEW p \in Pages, NEW g \in Own(p)' PROVE p \in w.list \/ (Begun /\ Own(p) # {})
    <3>1. g \in hdr.mxFrame + 1..i /\ file'.wal[g].page = p
      BY <1>1, <1>2, <2>2, <2>3 DEF Own
    <3>2. CASE g = i
      <4>1. p = NextPage
        BY <1>2, <2>2, <3>1, <3>2
      <4>2. NextPage \in w.list
        <5>1. WriteFrame
          BY <1>0, <2>1, <2>2, <1>2, RewriteIs DEF Writes
        <5>. QED  BY <1>0, <5>1, WriteFrameIs, NextPageType
      <4>. QED  BY <4>1, <4>2
    <3>3. CASE g # i
      <4>1. g \in hdr.mxFrame + 1..w.iFrame /\ g \in 1..MaxFrame
        BY <1>2, <2>1, <2>2, <3>1, <3>3
      <4>2. file.wal[g].page = p
        BY <1>2, <2>2, <3>1, <3>3, <4>1
      <4>. QED  BY <1>2, <4>1, <4>2 DEF Own, Begun
    <3>. QED  BY <3>2, <3>3
  <2>. QED  BY <1>2, <2>1, <2>2, <2>3
<1>. QED  BY <1>0, <1>3, <1>4, <1>5, FrameIs DEF Writes

LEMMA ValueInvStep ==
  ASSUME WalInv, WalInv', TailInv, SaltInv, ValueInv, [Next]_vars,
         Crash => \A p \in Pages : Store'[p] \in Given
  PROVE  ValueInv'
<1>0. /\ TypeInv /\ TypeInv' /\ LastWritten /\ PhaseInv /\ OwnInv /\ ReadInv /\ CheckpointInv
      /\ count.tx \in Nat /\ count'.tx \in Nat
  <2>1. /\ TypeInv /\ TypeInv' /\ LastWritten /\ PhaseInv /\ OwnInv /\ ReadInv /\ CheckpointInv
    BY DEF WalInv
  <2>2. count.tx \in 0..MaxTx /\ count'.tx \in 0..MaxTx /\ MaxTx \in Nat
    BY <2>1, Constants DEF TypeInv
  <2>. QED  BY <2>1, <2>2
<1>1. count'.tx >= count.tx
  <2>1. CASE Crash
    BY <1>0, <2>1, CrashIs
  <2>2. CASE Writes
    BY <1>0, <2>2, WriteFrameIs, RewriteIs DEF Writes
  <2>3. CASE Leaves \/ Publish
    BY <1>0, <2>3, EndIs DEF Leaves
  <2>4. CASE ~Writes /\ ~Leaves /\ ~Publish /\ ~Crash
    BY <2>4, CalmStep DEF Calm
  <2>. QED  BY <2>1, <2>2, <2>3, <2>4
<1>2. Given \subseteq Given'
  BY <1>0, <1>1 DEF Given
<1>3. \A p \in Pages : Store'[p] \in Given'
  <2>1. CASE Crash
    BY <1>2, <2>1
  <2>2. CASE Publish
    <3>1. InTx
      BY <1>0, <2>2, EndIs DEF InTx, TxPcs
    <3>2. \A p \in Pages : w.cache[p] # Torn => w.cache[p] \in Given
      BY <3>1 DEF ValueInv, CacheOk
    <3>. QED  BY <1>2, <2>2, <3>2, PublishIs DEF ValueInv
  <2>3. CASE ~Crash /\ ~Publish
    BY <1>2, <2>3, StoreKept DEF ValueInv
  <2>. QED  BY <2>1, <2>2, <2>3
<1>4. ASSUME InTx' PROVE \A p \in Pages : CacheOk(p)'
  <2>1. CASE BeginTx
    <3>1. w.pc = "idle" /\ w'.pc = "tx" /\ SameTx /\ UNCHANGED rd
      BY <1>0, <2>1, BeginTxIs
    <3>2. \A p \in Pages : w'.cache[p] = Torn /\ w'.list = {}
      BY <1>0, <3>1 DEF OwnInv, SameTx
    <3>3. ~Begun'
      <4>1. mine'.pc = "out"
        BY <1>0, <3>1 DEF PhaseInv, NoRead, mine
      <4>. QED  BY <4>1, NotBegun
    <3>. QED  BY <3>2, <3>3 DEF CacheOk
  <2>2. CASE (\E p \in Pages : Spill(p)) \/ (\E ps \in SUBSET Pages : Commit(ps))
    BY <2>2, CacheBegins
  <2>3. CASE Writes
    <3>1. /\ w.pc = "frames" /\ w'.cache = w.cache /\ w'.isCommit = w.isCommit
          /\ w'.list \subseteq w.list /\ count'.tx = count.tx
      BY <1>0, <2>3, WriteFrameIs, RewriteIs DEF Writes
    <3>2. InTx
      BY <3>1 DEF InTx, TxPcs
    <3>3. (Begun => Begun')
          /\ \A p \in Pages : Own(p)' # {} => p \in w.list \/ (Begun /\ Own(p) # {})
      BY <2>3, OwnGrows
    <3>. QED  BY <3>1, <3>2, <3>3, CacheKept DEF ValueInv
  <2>4. CASE Leaves \/ Publish \/ CheckpointBusy \/ CheckpointOk
    BY <1>0, <1>4, <2>4, EndIs DEF Leaves
  <2>5. CASE Crash
    BY <1>0, <1>4, <2>5, CrashIs DEF InTx, TxPcs, IdleWriter
  <2>6. CASE /\ ~Writes /\ ~Leaves /\ ~Publish /\ ~Crash
             /\ Reading \/ RestartLog \/ ResetMarks \/ ReadAgain \/ WriteLogHeader \/ SyncLogHeader
                \/ SyncFrames \/ EndSpill
    <3>1. /\ w'.cache = w.cache /\ w'.isCommit = w.isCommit /\ w'.list = w.list
          /\ count'.tx = count.tx /\ (InTx \/ w' = w)
      BY <1>0, <2>6, ReadsAre, RestartIs, LogHeaderIs, SyncIs, EndSpillIs DEF SameTx, InTx, TxPcs
    <3>2. Calm /\ InTx
      BY <1>4, <2>6, <3>1, CalmStep DEF InTx
    <3>3. \A p \in Pages : Begun' /\ Own(p)' # {} => Begun /\ Own(p) # {}
      BY <3>2, OwnSame DEF Calm
    <3>. QED  BY <3>1, <3>2, <3>3, CacheKept DEF Calm, ValueInv
  <2>7. CASE \/ BeginCheckpoint \/ ReadMark \/ RaiseMark \/ YieldToMark \/ SkipBackfill
             \/ StartBackfill \/ CopyPage \/ SyncDb \/ SetBackfill
    BY <1>0, <1>4, <2>7, CkptStepIs
  <2>. QED  BY <2>1, <2>2, <2>3, <2>4, <2>5, <2>6, <2>7
       DEF Next, Transaction, RunCheckpoint, Reading, Writes, Leaves
<1>. QED  BY <1>3, <1>4 DEF ValueInv

-----------------------------------------------------------------------------
(* What a loss of power may leave of a frame stays of its transaction.     *)
LEMMA SumValue ==
  ASSUME NEW x \in Frames
  PROVE  Len(x.sum) \in Nat /\ \A j \in 1..Len(x.sum) : x.sum[j] \in Bodies /\ x.sum[j][2][1] \in Int
<1>1. x.sum \in Seq(Bodies)
  BY DEF Frames
<1>2. \A j \in 1..Len(x.sum) : x.sum[j] \in Bodies
  BY <1>1, ElementOfSeq
<1>3. \A b \in Bodies : b[2][1] \in Int
  BY DEF Bodies, Vals
<1>. QED  BY <1>1, <1>2, <1>3, LenProperties

LEMMA FrameKept ==
  ASSUME count.tx \in Nat, count'.tx \in Nat, count'.tx >= count.tx, Current \in Nat,
         NEW n, NEW x \in Frames, NEW y, FrameOk(x, n), y.sum = x.sum, y.commit = x.commit,
         \/ Current' = Current /\ ~Begun
         \/ Current' = count'.tx + 1
         \/ /\ Current' = Current /\ Begun /\ Begun' /\ hdr' = hdr /\ count'.tx = count.tx
            /\ Pending(x, n) => Pending(y, n)'
  PROVE  FrameOk(y, n)'
<1>1. \A j \in 1..Len(x.sum) : x.sum[j][2][1] <= count.tx /\ x.sum[j][2][1] \in Int
  BY SumValue DEF FrameOk
<1>2. \A j \in 1..Len(y.sum) : y.sum[j][2][1] <= count'.tx
  BY <1>1
<1>3. OldFrame(y)' \/ OwnFrame(y, n)'
  <2>1. CASE Current' = count'.tx + 1
    BY <1>1, <2>1 DEF OldFrame
  <2>2. CASE Current' = Current /\ OldFrame(x)
    BY <2>2 DEF OldFrame
  <2>3. CASE OwnFrame(x, n) /\ ~(Current' = count'.tx + 1)
    <3>1. /\ Current' = Current /\ Begun /\ Begun' /\ hdr' = hdr /\ count'.tx = count.tx
          /\ Pending(x, n) => Pending(y, n)'
      BY <2>3 DEF OwnFrame
    <3>. QED  BY <2>3, <3>1 DEF OwnFrame
  <2>. QED  BY <2>1, <2>2, <2>3 DEF FrameOk
<1>. QED  BY <1>2, <1>3 DEF FrameOk

(* The sums of the transaction's frames name no transaction yet to come.   *)
LEMMA SumBound ==
  ASSUME WalInv, TailInv, FrameInv, Synced(hdr.salt, hdr.mxFrame), InTx, mine.pc # "out",
         NEW k \in 1..Top
  PROVE  file.wal[k].val[1] <= count.tx /\ file.wal[k].val[1] \in Int
<1>1. /\ TypeInv /\ LastWritten /\ HeadOk /\ hdr.mxFrame \in 0..MaxFrame /\ MaxFrame \in Nat
      /\ file.wal \in [1..MaxFrame -> Frames] /\ count.tx \in Nat
      /\ Top \in 0..MaxFrame /\ k \in 1..MaxFrame
  <2>1. TypeInv /\ LastWritten /\ HeadOk
    BY DEF WalInv, OwnInv
  <2>2. Top \in 0..MaxFrame /\ MaxFrame \in Nat
    BY <2>1, TopType
  <2>3. k \in 1..MaxFrame
    BY <2>2
  <2>4. hdr.mxFrame \in 0..MaxFrame /\ count.tx \in 0..MaxTx
        /\ file.wal \in [1..MaxFrame -> Frames]
    BY <2>1 DEF TypeInv, Hdrs
  <2>. QED  BY <2>1, <2>2, <2>3, <2>4, Constants
<1>2. file.wal[k].val[1] \in Int
  BY <1>1 DEF Frames, Vals
<1>3. CASE k > hdr.mxFrame
  <2>1. Begun
    BY <1>1, <1>3 DEF Begun
  <2>2. TailOk(k)
    BY <1>1, <1>3, <2>1 DEF TailInv
  <2>. QED  BY <1>1, <1>2, <2>2 DEF TailOk
<1>4. CASE k <= hdr.mxFrame
  <2>1. PICK h : h = hdr.mxFrame
    OBVIOUS
  <2>2. h \in 1..MaxFrame /\ k \in 1..h /\ h \in 1..h /\ h \in 0..MaxFrame
    BY <1>1, <1>4, <2>1
  <2>3. file.wal[h].sum = BodiesOf(file.wal, h)
    BY <2>1, <2>2 DEF Synced, SumTo
  <2>4. /\ Len(BodiesOf(file.wal, h)) = h
        /\ BodiesOf(file.wal, h)[k] = Body(file.wal[k])
    BY <1>1, <2>2, BodiesAre
  <2>5. FrameOk(file.wal[h], h)
    BY <1>1, <2>2 DEF FrameInv, LastWritten
  <2>6. file.wal[h].sum[k][2][1] <= count.tx
    BY <2>2, <2>3, <2>4, <2>5 DEF FrameOk
  <2>7. file.wal[h].sum[k][2][1] = file.wal[k].val[1]
    BY <2>3, <2>4 DEF Body
  <2>. QED  BY <1>2, <2>6, <2>7
<1>. QED  BY <1>1, <1>3, <1>4

(* A frame of the open transaction that gets the right sum. *)
LEMMA OwnFrameNext ==
  ASSUME TypeInv', TailInv', Begun', NEW k \in hdr'.mxFrame + 1..Top',
         file'.wal[k].sum = SumTo(k)', \A j \in 1..k : file'.wal[j].val[1] <= count'.tx
  PROVE  FrameOk(file.wal[k], k)'
<1>1. /\ hdr'.mxFrame \in Nat /\ k \in 1..MaxFrame /\ k \in 0..MaxFrame
      /\ file'.wal \in [1..MaxFrame -> Frames] /\ k > hdr'.mxFrame
  <2>1. /\ hdr'.mxFrame \in Nat /\ Top' \in 0..MaxFrame /\ MaxFrame \in Nat
        /\ file'.wal \in [1..MaxFrame -> Frames]
    <3>1. /\ hdr'.mxFrame \in 0..MaxFrame /\ w'.iFrame \in 0..MaxFrame
          /\ file'.wal \in [1..MaxFrame -> Frames] /\ mine'.hdr.mxFrame \in 0..MaxFrame
      BY Constants DEF TypeInv, Hdrs, Writers, Reads, mine
    <3>. QED  BY <3>1, Constants DEF Top
  <2>. QED  BY <2>1
<1>2. /\ TailOk(k)' /\ file'.wal[hdr'.mxFrame + 1].val[1] = count'.tx
  BY DEF TailInv
<1>3. /\ Len(file'.wal[k].sum) = k
      /\ \A j \in 1..k : file'.wal[k].sum[j] = Body(file'.wal[j])
  BY <1>1, BodiesAre DEF SumTo
<1>4. \A j \in 1..k : file'.wal[k].sum[j][2][1] = file'.wal[j].val[1]
  BY <1>3 DEF Body
<1>5. \A j \in 1..Len(file'.wal[k].sum) : file'.wal[k].sum[j][2][1] <= count'.tx
  BY <1>3, <1>4
<1>6. hdr'.mxFrame + 1 \in 1..k
  BY <1>1
<1>7. file'.wal[k].sum[hdr'.mxFrame + 1][2][1] = count'.tx
  BY <1>2, <1>4, <1>6
<1>8. file'.wal[k].commit => Pending(file.wal[k], k)'
  BY <1>2 DEF TailOk, Pending
<1>9. OwnFrame(file.wal[k], k)'
  BY <1>1, <1>3, <1>7, <1>8 DEF OwnFrame
<1>. QED  BY <1>5, <1>9 DEF FrameOk

LEMMA FrameInvStep ==
  ASSUME WalInv, WalInv', TailInv, TailInv', SaltInv, ValueInv, FrameInv,
         Synced(hdr.salt, hdr.mxFrame), [Next]_vars
  PROVE  FrameInv'
<1>0. /\ TypeInv /\ TypeInv' /\ LastWritten /\ PhaseInv /\ OwnInv /\ ReadInv /\ CheckpointInv
      /\ count.tx \in Nat /\ count'.tx \in Nat /\ Current \in Nat /\ MaxFrame \in Nat
      /\ hdr.mxFrame \in Nat
  <2>1. /\ TypeInv /\ TypeInv' /\ LastWritten /\ PhaseInv /\ OwnInv /\ ReadInv /\ CheckpointInv
    BY DEF WalInv
  <2>2. count.tx \in 0..MaxTx /\ count'.tx \in 0..MaxTx /\ MaxTx \in Nat /\ MaxFrame \in Nat
        /\ hdr.mxFrame \in Nat
    BY <2>1, Constants DEF TypeInv, Hdrs
  <2>. QED  BY <2>1, <2>2 DEF Current
<1>1. \A n \in 1..MaxFrame : file.wal[n] \in loose.wal[n]
        /\ \A x \in loose.wal[n] : x \in Frames /\ FrameOk(x, n)
  BY <1>0 DEF TypeInv, FrameInv, LastWritten
<1>2. CASE ~Writes /\ ~Leaves /\ ~Publish /\ ~Crash
  <2>1. Calm
    BY <1>2, CalmStep
  <2>2. ASSUME NEW n \in 1..MaxFrame, NEW y \in loose'.wal[n] PROVE FrameOk(y, n)'
    <3>1. y \in Frames /\ FrameOk(y, n) /\ count'.tx >= count.tx /\ Current' = Current
      BY <1>1, <2>1, <2>2 DEF Calm
    <3>2. Begun => /\ Begun' /\ hdr' = hdr /\ count'.tx = count.tx
                   /\ Pending(y, n) => Pending(y, n)'
      <4>1. SumTo(n)' = SumTo(n)
        BY <2>1 DEF Calm, SumTo
      <4>. QED  BY <2>1, <4>1 DEF Calm, Begun, Pending
    <3>. QED  BY <1>0, <3>1, <3>2, FrameKept
  <2>. QED  BY <2>2 DEF FrameInv
<1>3. CASE Leaves \/ Publish
  <2>1. ~InTx' /\ count' = count /\ SameFiles
    BY <1>0, <1>3, EndIs DEF Leaves
  <2>2. Current' = count'.tx + 1 /\ count'.tx >= count.tx
    BY <1>0, <2>1 DEF Current
  <2>3. ASSUME NEW n \in 1..MaxFrame, NEW y \in loose'.wal[n] PROVE FrameOk(y, n)'
    <3>1. y \in Frames /\ FrameOk(y, n)
      BY <1>1, <2>1, <2>3 DEF SameFiles
    <3>. QED  BY <1>0, <2>2, <3>1, FrameKept
  <2>. QED  BY <2>3 DEF FrameInv
<1>4. CASE Crash
  <2>1. /\ w'.pc = "idle" /\ count'.tx = count.tx
        /\ \A k \in 1..MaxFrame : loose'.wal[k] = {file'.wal[k]}
                                  /\ file'.wal[k] \in loose.wal[k] \cup {NoFrame}
    BY <1>0, <1>4, CrashIs DEF IdleWriter
  <2>2. Current' = count'.tx + 1 /\ count'.tx >= count.tx
    BY <1>0, <2>1 DEF Current, InTx, TxPcs
  <2>3. ASSUME NEW n \in 1..MaxFrame, NEW y \in loose'.wal[n] PROVE FrameOk(y, n)'
    <3>1. CASE y \in loose.wal[n]
      BY <1>0, <1>1, <2>2, <3>1, FrameKept
    <3>2. CASE y = NoFrame
      <4>1. Len(y.sum) = 0
        BY <3>2 DEF NoFrame
      <4>. QED  BY <4>1 DEF FrameOk, OldFrame
    <3>. QED  BY <2>1, <2>3, <3>1, <3>2
  <2>. QED  BY <2>3 DEF FrameInv
<1>5. CASE Writes
  <2>1. /\ w.pc = "frames" /\ w'.pc = "frames" /\ w'.isCommit = w.isCommit
        /\ UNCHANGED <<hdr, nBackfill, rd, count>> /\ mine' = mine
    BY <1>0, <1>5, WriteFrameIs, RewriteIs DEF Writes
  <2>2. /\ InTx /\ InTx' /\ mine.pc = "in" /\ Top = w.iFrame /\ Top' = w'.iFrame
        /\ Current' = Current /\ count'.tx >= count.tx /\ count'.tx = count.tx /\ hdr' = hdr
        /\ w.iFrame \in 0..MaxFrame
    BY <1>0, <2>1, Types DEF InTx, TxPcs, PhaseInv, Top, Current, Writers
  <2>3. Begun => Begun'
    BY <1>5, OwnGrows
  <2>4. ASSUME NEW n \in 1..MaxFrame, NEW x \in Frames, NEW y, FrameOk(x, n),
               y.sum = x.sum, y.commit = x.commit, Pending(x, n) => Pending(y, n)'
        PROVE  FrameOk(y, n)'
    BY <1>0, <2>2, <2>3, <2>4, FrameKept
  <2>5. \A k \in 1..Top : file.wal[k].val[1] <= count.tx
    BY <2>2, SumBound, <1>0
  <2>6. ASSUME NEW f, Overwrites(f), WriteFrame PROVE FrameInv'
    <3>1. /\ f \in 1..MaxFrame /\ loose'.wal = [loose.wal EXCEPT ![f] = @ \cup {Over(f)}]
      BY <2>6 DEF Overwrites
    <3>2. \A x, n : ~Pending(x, n)
      BY <1>0, <2>6, WriteFrameIs DEF Pending, AllWritten
    <3>3. Over(f).sum = file.wal[f].sum /\ Over(f).commit = file.wal[f].commit
          /\ file.wal[f] \in Frames
      BY <1>0, <1>1, <3>1 DEF Over, Frames
    <3>4. ASSUME NEW n \in 1..MaxFrame, NEW y \in loose'.wal[n] PROVE FrameOk(y, n)'
      <4>1. y \in loose.wal[n] \/ (n = f /\ y = Over(f))
        BY <1>0, <3>1, <3>4 DEF TypeInv
      <4>2. CASE y \in loose.wal[n]
        BY <1>1, <2>4, <3>2, <4>2
      <4>3. CASE n = f /\ y = Over(f)
        BY <1>1, <2>4, <3>2, <3>3, <4>3
      <4>. QED  BY <4>1, <4>2, <4>3
    <3>. QED  BY <3>4 DEF FrameInv
  <2>7. ASSUME NEW new, Appends(new), WriteFrame PROVE FrameInv'
    <3>i. PICK i : i = w.iFrame + 1
      OBVIOUS
    <3>1. /\ i \in 1..MaxFrame /\ loose'.wal = [loose.wal EXCEPT ![i] = @ \cup {new}]
          /\ file'.wal = [file.wal EXCEPT ![i] = new] /\ w'.iFrame = i
          /\ w'.iReCksum = w.iReCksum /\ Fields(new)
      BY <2>7, <3>i DEF Appends
    <3>2. \A x, n : ~Pending(x, n)
      BY <1>0, <2>7, WriteFrameIs DEF Pending, AllWritten
    <3>3. file'.wal[i] = new /\ \A k \in 1..MaxFrame : k # i => file'.wal[k] = file.wal[k]
      BY <1>0, <3>1 DEF TypeInv
    <3>4. FrameOk(new, i)'
      <4>1. CASE w.iReCksum # 0
        <5>1. Len(new.sum) = 0
          BY <3>1, <4>1 DEF Fields
        <5>. QED  BY <5>1 DEF FrameOk, OldFrame
      <4>2. CASE w.iReCksum = 0
        <5>1. hdr.mxFrame < i
          BY <1>0, <2>1, <2>2, <3>i, <1>0 DEF OwnInv, HeadOk
        <5>2. Begun' /\ i \in hdr'.mxFrame + 1..Top'
          BY <1>0, <2>1, <2>2, <3>1, <5>1 DEF Begun
        <5>3. file'.wal[i].sum = SumTo(i)'
          BY <3>1, <4>2, <5>2 DEF TailInv, TailOk
        <5>4. w.cache[NextPage][1] <= count.tx
          <6>1. NextPage \in w.list /\ NextPage \in Pages
            BY <1>0, <2>7, WriteFrameIs, NextPageType
          <6>2. w.cache[NextPage][1] \in 0..count.tx
            BY <2>2, <6>1 DEF ValueInv, CacheOk, Given
          <6>. QED  BY <1>0, <6>2
        <5>5. \A j \in 1..i : file'.wal[j].val[1] <= count'.tx
          <6>1. TAKE j \in 1..i
          <6>2. CASE j = i
            BY <2>2, <3>1, <3>3, <5>4, <6>2 DEF Fields
          <6>3. CASE j # i
            BY <1>0, <2>2, <2>5, <3>1, <3>3, <3>i, <6>3
          <6>. QED  BY <6>2, <6>3
        <5>6. FrameOk(file.wal[i], i)'
          BY <1>0, <5>2, <5>3, <5>5, OwnFrameNext
        <5>. QED  BY <3>3, <5>6 DEF FrameOk, OldFrame, OwnFrame, Pending
      <4>. QED  BY <4>1, <4>2
    <3>5. ASSUME NEW n \in 1..MaxFrame, NEW y \in loose'.wal[n] PROVE FrameOk(y, n)'
      <4>1. y \in loose.wal[n] \/ (n = i /\ y = new)
        BY <1>0, <3>1, <3>5 DEF TypeInv
      <4>2. CASE y \in loose.wal[n]
        BY <1>1, <2>4, <3>2, <4>2
      <4>. QED  BY <3>4, <4>1, <4>2
    <3>. QED  BY <3>5 DEF FrameInv
  <2>8. CASE RewriteChecksums
    <3>1. /\ w.iReCksum \in hdr.mxFrame + 1..w.iFrame /\ Top = w.iFrame /\ Begun
          /\ \A k \in 1..MaxFrame :
              /\ Body(file'.wal[k]) = Body(file.wal[k])
              /\ k \in w.iReCksum..w.iFrame =>
                   file'.wal[k].salt = mine.hdr.salt /\ file'.wal[k].sum = SumTo(k)
              /\ k \notin w.iReCksum..w.iFrame => file'.wal[k] = file.wal[k]
              /\ loose'.wal[k] = loose.wal[k] \cup {file'.wal[k]}
      BY <2>8, SumsRewritten
    <3>2. w'.iFrame = w.iFrame /\ AllWritten /\ AllWritten'
      BY <1>0, <2>8, RewriteIs DEF AllWritten
    <3>3. \A n \in 1..MaxFrame : SumTo(n)' = SumTo(n)
      <4>1. TAKE n \in 1..MaxFrame
      <4>2. \A j \in 1..n : Body(file.wal[j]) = Body(file'.wal[j])
        <5>1. \A j \in 1..n : j \in 1..MaxFrame
          BY <1>0
        <5>. QED  BY <3>1, <5>1
      <4>. QED  BY <4>2, BodiesSame DEF SumTo
    <3>4. \A n \in 1..MaxFrame : \A x : Pending(x, n) => Pending(x, n)'
      BY <3>2, <3>3 DEF Pending
    <3>5. ASSUME NEW n \in w.iReCksum..w.iFrame, n \in 1..MaxFrame PROVE FrameOk(file.wal[n], n)'
      <4>1. Begun' /\ n \in hdr'.mxFrame + 1..Top'
        BY <1>0, <2>2, <2>3, <3>1, <3>2, <3>5
      <4>2. file'.wal[n].sum = SumTo(n)'
        BY <3>1, <3>3, <3>5
      <4>3. \A j \in 1..n : file'.wal[j].val[1] <= count'.tx
        <5>1. TAKE j \in 1..n
        <5>2. j \in 1..MaxFrame /\ j \in 1..Top
          BY <1>0, <2>2, <3>1, <3>5
        <5>. QED  BY <1>0, <2>2, <2>5, <2>8, <5>2, ChecksumsKeep
      <4>. QED  BY <1>0, <4>1, <4>2, <4>3, OwnFrameNext
    <3>6. ASSUME NEW n \in 1..MaxFrame, NEW y \in loose'.wal[n] PROVE FrameOk(y, n)'
      <4>1. CASE y \in loose.wal[n]
        BY <1>1, <2>4, <3>4, <4>1
      <4>2. CASE y = file'.wal[n] /\ n \in w.iReCksum..w.iFrame
        <5>1. FrameOk(file.wal[n], n)'
          BY <3>5, <4>2
        <5>. QED  BY <4>2, <5>1 DEF FrameOk, OldFrame, OwnFrame, Pending
      <4>3. CASE y = file'.wal[n] /\ n \notin w.iReCksum..w.iFrame
        <5>1. y \in loose.wal[n]
          BY <1>1, <3>1, <4>3
        <5>. QED  BY <4>1, <5>1
      <4>. QED  BY <3>1, <3>6, <4>1, <4>2, <4>3
    <3>. QED  BY <3>6 DEF FrameInv
  <2>. QED  BY <1>0, <1>5, <2>6, <2>7, <2>8, FrameIs DEF Writes
<1>. QED  BY <1>2, <1>3, <1>4, <1>5

-----------------------------------------------------------------------------
(* What a recovery would find. *)
LEMMA SyncedNext ==
  ASSUME LastWritten', NEW s, NEW d \in 0..MaxFrame, Synced(s, d),
         \A k \in 1..d : file'.wal[k] = file.wal[k] /\ loose'.wal[k] \subseteq loose.wal[k]
  PROVE  Synced(s, d)'
<1>1. \A k \in 1..d : k \in 1..MaxFrame /\ \A j \in 1..k : j \in 1..d
  BY Constants
<1>2. ASSUME NEW k \in 1..d
      PROVE  loose'.wal[k] = {file'.wal[k]} /\ file'.wal[k].salt = s /\ file'.wal[k].sum = SumTo(k)'
  <2>1. loose'.wal[k] = {file'.wal[k]}
    BY <1>1, <1>2 DEF Synced, LastWritten
  <2>2. SumTo(k)' = SumTo(k)
    <3>1. \A j \in 1..k : Body(file.wal[j]) = Body(file'.wal[j])
      BY <1>1
    <3>. QED  BY <3>1, BodiesSame DEF SumTo
  <2>. QED  BY <2>1, <2>2 DEF Synced
<1>3. d > 0 => file'.wal[d].commit
  <2>1. d > 0 => d \in 1..d
    OBVIOUS
  <2>. QED  BY <2>1 DEF Synced
<1>. QED  BY <1>2, <1>3 DEF Synced

LEMMA MarksCalm ==
  ASSUME Calm, NEW s, NEW d \in Nat, NoMarks(s, d)
  PROVE  NoMarks(s, d)'
<1>1. ASSUME NEW n \in d + 1..MaxFrame, NEW x \in loose'.wal[n], s # 0, MarkOf(s, x, n)
      PROVE  Pending(x, n)' \/ Harmless(x, n)'
  <2>1. n \in 1..MaxFrame /\ \A k \in 1..n : k \in 1..MaxFrame
    BY <1>1, Constants
  <2>2. x \in loose.wal[n]
    BY <1>1, <2>1 DEF Calm
  <2>3. SumTo(n)' = SumTo(n)
    BY DEF Calm, SumTo
  <2>4. Pending(x, n) => Pending(x, n)'
    BY <2>3 DEF Calm, Pending
  <2>5. Harmless(x, n) => Harmless(x, n)'
    BY <2>1 DEF Harmless, Calm
  <2>. QED  BY <1>1, <2>2, <2>4, <2>5 DEF NoMarks
<1>. QED  BY <1>1 DEF NoMarks, MarkOf

(* What has ended without a commit leaves no mark. *)
LEMMA MarksLeft ==
  ASSUME ~AllWritten, loose' = loose, NEW s, NEW d, NoMarks(s, d)
  PROVE  NoMarks(s, d)'
BY DEF NoMarks, MarkOf, Pending, Harmless

LEMMA MarksFresh ==
  ASSUME NEW s, NEW d \in Nat,
         \A n \in 1..MaxFrame : \A x \in loose'.wal[n] : x.salt # s
  PROVE  NoMarks(s, d)'
BY Constants DEF NoMarks, MarkOf

(* A frame is not part of the log that a mark of an earlier transaction    *)
(* belongs to.                                                             *)
Newer(y, k) == \A x \in Frames : OldFrame(x) /\ Len(x.sum) >= k => ~Fits(y, x, k)

LEMMA MarksWritten ==
  ASSUME TypeInv, FrameInv, NEW d \in Nat, hdr'.mxFrame = d, NEW s, NoMarks(s, d),
         \A n \in 1..MaxFrame : \A x : Pending(x, n) => Pending(x, n)',
         \A n \in 1..MaxFrame : \A y \in loose'.wal[n] :
            \/ y \in loose.wal[n]
            \/ Newer(y, n) /\ (y.commit /\ Len(y.sum) = n => Pending(y, n)')
  PROVE  NoMarks(s, d)'
<1>1. ASSUME NEW n \in d + 1..MaxFrame, NEW x \in loose'.wal[n], s # 0, MarkOf(s, x, n)
      PROVE  Pending(x, n)' \/ Harmless(x, n)'
  <2>1. n \in 1..MaxFrame /\ \A k \in 1..n : k \in 1..MaxFrame /\ k <= n
    BY <1>1, Constants
  <2>2. CASE x \notin loose.wal[n]
    BY <1>1, <2>1, <2>2 DEF MarkOf
  <2>3. CASE x \in loose.wal[n] /\ Pending(x, n)
    BY <2>1, <2>3
  <2>4. CASE x \in loose.wal[n] /\ ~Pending(x, n)
    <3>1. x \in Frames /\ FrameOk(x, n) /\ Len(x.sum) = n /\ x.commit
      BY <1>1, <2>1, <2>4 DEF TypeInv, FrameInv, MarkOf
    <3>2. OldFrame(x)
      BY <2>4, <3>1 DEF FrameOk, OwnFrame
    <3>3. PICK k \in 1..n : \A y \in loose.wal[k] : ~Fits(y, x, k)
      BY <1>1, <2>4 DEF NoMarks, Harmless
    <3>4. k \in 1..MaxFrame /\ Len(x.sum) >= k
      BY <2>1, <3>1, <3>3
    <3>5. \A y \in loose'.wal[k] : ~Fits(y, x, k)
      BY <3>1, <3>2, <3>3, <3>4 DEF Newer
    <3>. QED  BY <3>5 DEF Harmless
  <2>. QED  BY <2>2, <2>3, <2>4
<1>. QED  BY <1>1 DEF NoMarks, MarkOf

(* The frames that are newer: written without a sum, of a page that the    *)
(* transaction has changed, or with the sum of its frames.                 *)
LEMMA NewerIs ==
  ASSUME TypeInv, InTx, NEW k \in 1..MaxFrame, NEW y \in Frames,
         \/ y.sum = <<>>
         \/ y.val[1] = count.tx
         \/ \E i \in 1..k : i \in 1..Len(y.sum) /\ y.sum[i][2][1] = count.tx
  PROVE  Newer(y, k)
<1>0. Current = count.tx /\ count.tx \in Nat /\ k \in Nat
  BY Constants, Types DEF Current
<1>1. SUFFICES ASSUME NEW x \in Frames, OldFrame(x), Len(x.sum) >= k, Fits(y, x, k) PROVE FALSE
  BY DEF Newer
<1>2. /\ y.sum = SubSeq(x.sum, 1, k) /\ Body(y) = x.sum[k] /\ Len(x.sum) \in Nat
      /\ \A j \in 1..k : x.sum[j][2][1] < count.tx
  BY <1>0, <1>1, SumValue DEF Fits, OldFrame
<1>3. Len(y.sum) = k /\ \A j \in 1..k : y.sum[j] = x.sum[j]
  <2>1. x.sum \in Seq(Bodies)
    BY DEF Frames
  <2>. QED  BY <1>0, <1>1, <1>2, <2>1, SubSeqProperties
<1>4. CASE y.sum = <<>>
  BY <1>3, <1>4
<1>5. CASE y.val[1] = count.tx
  <2>1. x.sum[k][2] = y.val
    BY <1>2 DEF Body
  <2>. QED  BY <1>0, <1>2, <1>5, <2>1
<1>6. CASE \E i \in 1..k : i \in 1..Len(y.sum) /\ y.sum[i][2][1] = count.tx
  BY <1>0, <1>2, <1>3, <1>6
<1>. QED  BY <1>4, <1>5, <1>6

LEMMA ShowsNext ==
  ASSUME DiskInv', NEW d, d = hdr'.mxFrame
  PROVE  Shows(d)'
<1>1. ASSUME NEW p \in Pages
      PROVE  IF LastFrame(d, p)' = 0 THEN loose'.db[p] = {Store'[p]}
             ELSE file'.wal[LastFrame(d, p)'].val = Store'[p]
  <2>1. Last(p)' = LastFrame(d, p)'
    BY DEF Last, LastFrame
  <2>2. Last(p)' = 0 => loose'.db[p] = {file'.db[p]}
    BY DEF DiskInv, DbSynced
  <2>. QED  BY <2>1, <2>2, StoreNext
<1>. QED  BY <1>1 DEF Shows

LEMMA RecoversNext ==
  ASSUME DiskInv', SaltInv', NEW log \in loose'.log, NEW d \in 0..MaxFrame, d = hdr'.mxFrame,
         NEW s, s = hdr'.salt, Synced(s, d)', NoMarks(log.salt, d)'
  PROVE  Recovers(log, d)'
<1>1. Shows(d)'
  BY ShowsNext
<1>2. CASE d = 0
  <2>1. Synced(log.salt, d)'
    BY <1>2 DEF Synced
  <2>. QED  BY <1>1, <1>2, <2>1 DEF Recovers
<1>3. CASE d > 0
  <2>1. log.salt = s /\ s # 0
    BY <1>3 DEF SaltInv
  <2>2. log # NoLog
    BY <2>1 DEF NoLog
  <2>. QED  BY <1>1, <2>1, <2>2 DEF Recovers
<1>. QED  BY <1>2, <1>3, Constants

(* The calm steps, by what they do to the header of the log.               *)
LEMMA CalmIs ==
  ASSUME WalInv, WalInv', SaltInv, [Next]_vars, ~Writes, ~Leaves, ~Publish, ~Crash
  PROVE  \/ /\ hdr' = hdr /\ loose'.log \subseteq loose.log
            /\ hdr.mxFrame = 0 => loose'.db = loose.db
            /\ InTx' /\ mine'.pc # "out" =>
                 \/ mine'.hdr.salt = hdr.salt
                 \/ InTx /\ mine.pc # "out" /\ mine'.hdr.salt = mine.hdr.salt
         \/ /\ RestartLog /\ hdr'.mxFrame = 0 /\ hdr'.salt = count.salt + 1 /\ mine'.hdr = hdr'
            /\ SameFiles
         \/ /\ WriteLogHeader /\ mine.hdr.mxFrame = 0 /\ hdr' = hdr /\ InTx /\ mine.pc = "in"
            /\ loose'.log = loose.log \cup {file'.log} /\ file'.log.salt = mine'.hdr.salt
            /\ loose'.db = loose.db
            /\ mine'.hdr.salt = count.salt + 1 \/ mine'.hdr.salt = mine.hdr.salt
<1>0. /\ TypeInv /\ TypeInv' /\ LastWritten /\ PhaseInv /\ OwnInv /\ ReadInv /\ CheckpointInv
      /\ hdr.mxFrame \in Nat /\ nBackfill \in Nat /\ w \in Writers
      /\ mine = rd[Writer] /\ mine' = rd'[Writer]
  BY Types DEF WalInv, mine
<1>d. hdr.mxFrame = 0 => loose'.db = loose.db
  <2>1. SUFFICES ASSUME CopyPage \/ SyncDb PROVE hdr.mxFrame > 0
    BY <1>0, DbKept
  <2>2. w.pc = "copy"
    BY <2>1 DEF CopyPage, SyncDb, At
  <2>. QED  BY <1>0, <2>2 DEF CheckpointInv, CkptPcs, Writers
<1>1. CASE Reading
  <2>1. /\ UNCHANGED <<hdr, w>> /\ SameFiles
        /\ mine' = mine \/ (mine'.pc # "out" => mine'.hdr = hdr)
    BY <1>1, ReadsAre
  <2>. QED  BY <1>d, <2>1 DEF SameFiles, InTx
<1>2. CASE BeginTx
  <2>1. w.pc = "idle" /\ UNCHANGED <<hdr, rd>> /\ SameFiles
    BY <1>0, <1>2, BeginTxIs
  <2>2. mine'.pc = "out"
    BY <1>0, <2>1 DEF PhaseInv, NoRead
  <2>. QED  BY <1>d, <2>1, <2>2 DEF SameFiles
<1>3. CASE (\E p \in Pages : Spill(p)) \/ (\E ps \in SUBSET Pages : Commit(ps))
  <2>1. w.pc = "tx" /\ mine.pc = "in" /\ UNCHANGED <<hdr, rd>> /\ SameFiles
    BY <1>0, <1>3, WalFramesIs
  <2>. QED  BY <1>0, <1>d, <2>1 DEF SameFiles, InTx, TxPcs
<1>4. CASE RestartLog \/ ResetMarks \/ ReadAgain
  <2>1. /\ SameFiles /\ w.pc \in {"restart", "reset", "reread"}
        /\ \/ hdr' = hdr /\ mine'.hdr = mine.hdr
           \/ RestartLog /\ hdr'.mxFrame = 0 /\ hdr'.salt = count.salt + 1 /\ mine'.hdr = hdr'
    BY <1>0, <1>4, RestartIs
  <2>2. InTx /\ mine.pc = "in"
    BY <1>0, <2>1 DEF InTx, TxPcs, PhaseInv
  <2>. QED  BY <1>d, <2>1, <2>2 DEF SameFiles
<1>5. CASE WriteLogHeader
  <2>1. /\ w.pc = "loghdr" /\ mine.pc = "in" /\ hdr' = hdr
        /\ \/ SameFiles /\ mine'.hdr.salt = mine.hdr.salt
           \/ /\ mine.hdr.mxFrame = 0
              /\ file'.log.salt = mine'.hdr.salt /\ loose'.log = loose.log \cup {file'.log}
              /\ mine'.hdr.salt = count.salt + 1 \/ mine'.hdr.salt = mine.hdr.salt
        /\ loose'.db = loose.db
    BY <1>0, <1>5, LogHeaderIs
  <2>2. InTx
    BY <2>1 DEF InTx, TxPcs
  <2>. QED  BY <1>5, <2>1, <2>2 DEF SameFiles
<1>6. CASE SyncLogHeader \/ SyncFrames
  <2>1. /\ file' = file /\ loose' = SyncedLog /\ UNCHANGED <<hdr, rd>> /\ mine' = mine
        /\ w.pc \in {"synclog", "frames"}
    BY <1>0, <1>6, SyncIs
  <2>2. InTx /\ mine.pc = "in"
    BY <1>0, <2>1 DEF InTx, TxPcs, PhaseInv
  <2>. QED  BY <1>0, <1>d, <2>1, <2>2, SyncedWal
<1>7. CASE EndSpill
  <2>1. w.pc = "frames" /\ hdr' = hdr /\ mine'.hdr.salt = mine.hdr.salt /\ SameFiles
    BY <1>0, <1>7, EndSpillIs
  <2>2. InTx /\ mine.pc = "in"
    BY <1>0, <2>1 DEF InTx, TxPcs, PhaseInv
  <2>. QED  BY <1>d, <2>1, <2>2 DEF SameFiles
<1>8. CASE \/ BeginCheckpoint \/ ReadMark \/ RaiseMark \/ YieldToMark \/ SkipBackfill
           \/ StartBackfill \/ CopyPage \/ SyncDb \/ SetBackfill
  <2>1. ~InTx' /\ hdr' = hdr /\ (loose'.log = loose.log \/ (loose' = SyncedLog /\ file' = file))
    BY <1>0, <1>8, CkptStepIs
  <2>. QED  BY <1>0, <1>d, <2>1, SyncedWal
<1>9. CASE CheckpointBusy \/ CheckpointOk
  <2>1. ~InTx' /\ SameFiles /\ hdr' = hdr
    BY <1>0, <1>9, EndIs DEF CheckpointBusy, CheckpointOk, EndCheckpoint, shm
  <2>. QED  BY <1>d, <2>1 DEF SameFiles
<1>. QED  BY <1>1, <1>2, <1>3, <1>4, <1>5, <1>6, <1>7, <1>8, <1>9
     DEF Next, Transaction, RunCheckpoint, Reading, Writes, Leaves

(* What a crash would recover, through every step but a crash. *)
LEMMA LogWritten ==
  ASSUME WalInv, WalInv', TailInv, TailInv', SaltInv, ValueInv, FrameInv, LogInv, Writes
  PROVE  /\ hdr' = hdr /\ mine' = mine /\ InTx /\ mine.pc = "in" /\ loose'.log = {file'.log}
         /\ \A k \in 1..hdr.mxFrame : file'.wal[k] = file.wal[k] /\ loose'.wal[k] = loose.wal[k]
         /\ file'.log = file.log /\ file.log.salt = mine.hdr.salt
         /\ \A s : NoMarks(s, hdr.mxFrame) =>
              \A d : d = hdr.mxFrame => NoMarks(s, d)'
<1>0. /\ TypeInv /\ TypeInv' /\ LastWritten /\ PhaseInv /\ OwnInv /\ ReadInv /\ CheckpointInv
      /\ hdr.mxFrame \in Nat /\ count.tx \in Nat /\ MaxFrame \in Nat /\ hdr.mxFrame <= MaxFrame
      /\ file.wal \in [1..MaxFrame -> Frames] /\ file'.wal \in [1..MaxFrame -> Frames]
      /\ loose.wal \in [1..MaxFrame -> SUBSET Frames]
      /\ Synced(hdr.salt, hdr.mxFrame)
  <2>1. /\ TypeInv /\ TypeInv' /\ LastWritten /\ PhaseInv /\ OwnInv /\ ReadInv /\ CheckpointInv
    BY DEF WalInv
  <2>2. hdr.mxFrame \in 0..MaxFrame /\ MaxFrame \in Nat /\ count.tx \in Nat /\ hdr.mxFrame \in Nat
    BY <2>1, Types, Constants DEF Hdrs
  <2>3. Synced(hdr.salt, hdr.mxFrame)
    BY DEF LogInv
  <2>4. /\ file.wal \in [1..MaxFrame -> Frames] /\ file'.wal \in [1..MaxFrame -> Frames]
        /\ loose.wal \in [1..MaxFrame -> SUBSET Frames]
    BY <2>1 DEF TypeInv
  <2>5. hdr.mxFrame <= MaxFrame
    BY <2>2
  <2>. QED  BY <2>1, <2>2, <2>3, <2>4, <2>5
<1>1. /\ w.pc = "frames" /\ w'.pc = "frames" /\ w'.isCommit = w.isCommit
      /\ UNCHANGED <<hdr, nBackfill, rd, count>> /\ mine' = mine
      /\ file'.log = file.log /\ loose'.log = loose.log
  BY <1>0, WriteFrameIs, RewriteIs DEF Writes
<1>2. /\ InTx /\ InTx' /\ mine.pc = "in" /\ Top = w.iFrame /\ Top' = w'.iFrame
      /\ w.iFrame \in 0..MaxFrame /\ w'.iFrame \in 0..MaxFrame /\ hdr.mxFrame <= w.iFrame
      /\ loose.log = {file.log} /\ file.log.salt = mine.hdr.salt
  <2>1. InTx /\ InTx' /\ mine.pc = "in" /\ Top = w.iFrame /\ Top' = w'.iFrame
    BY <1>0, <1>1 DEF InTx, TxPcs, PhaseInv, Top
  <2>2. w.iFrame \in 0..MaxFrame /\ w'.iFrame \in 0..MaxFrame
    BY <1>0 DEF TypeInv, Writers
  <2>3. hdr.mxFrame <= w.iFrame
    BY <1>0, <2>1 DEF OwnInv, HeadOk
  <2>. QED  BY <1>1, <2>1, <2>2, <2>3 DEF SaltInv, Appending
<1>. DEFINE New(y, n) == Newer(y, n) /\ (y.commit /\ Len(y.sum) = n => Pending(y, n)')
            Marks == \A n \in 1..MaxFrame : \A x : Pending(x, n) => Pending(x, n)'
            Adds == \A n \in 1..MaxFrame : \A y \in loose'.wal[n] : y \in loose.wal[n] \/ New(y, n)
            Keeps == \A k \in 1..hdr.mxFrame : file'.wal[k] = file.wal[k]
                                               /\ loose'.wal[k] = loose.wal[k]
<1>. HIDE DEF New
<1>3. ASSUME Marks, Adds
      PROVE \A s : NoMarks(s, hdr.mxFrame) => \A d : d = hdr.mxFrame => NoMarks(s, d)'
  <2>1. SUFFICES ASSUME NEW s, NEW d, d = hdr.mxFrame, NoMarks(s, d) PROVE NoMarks(s, d)'
    OBVIOUS
  <2>2. d \in Nat /\ hdr'.mxFrame = d
    BY <1>0, <1>1, <2>1
  <2>. QED  BY <1>0, <1>3, <2>1, <2>2, MarksWritten DEF New
(* The sum of a frame of the transaction names the transaction.            *)
<1>4. ASSUME NEW n \in 1..MaxFrame, n \in hdr.mxFrame + 1..w'.iFrame, Begun',
             file'.wal[n].sum = SumTo(n)', NEW y, y = file'.wal[n]
      PROVE  New(y, n)
  <2>1. file'.wal[n] \in Frames /\ n \in 0..MaxFrame
    BY <1>0, <1>4
  <2>2. Len(file'.wal[n].sum) = n /\ \A j \in 1..n : file'.wal[n].sum[j] = Body(file'.wal[j])
    BY <1>0, <1>4, <2>1, BodiesAre DEF SumTo
  <2>3. hdr.mxFrame + 1 \in 1..n /\ file'.wal[hdr.mxFrame + 1].val[1] = count.tx
    BY <1>0, <1>1, <1>4 DEF TailInv
  <2>4. file'.wal[n].sum[hdr.mxFrame + 1][2][1] = count.tx
    BY <2>2, <2>3 DEF Body
  <2>5. Newer(y, n)
    <3>1. \E i \in 1..n : i \in 1..Len(y.sum) /\ y.sum[i][2][1] = count.tx
      BY <1>4, <2>2, <2>3, <2>4
    <3>. QED  BY <1>0, <1>2, <1>4, <2>1, <3>1, NewerIs
  <2>6. TailOk(n)'
    BY <1>1, <1>2, <1>4 DEF TailInv
  <2>7. y.commit => Pending(y, n)'
    BY <1>4, <2>6 DEF TailOk, Pending
  <2>. QED  BY <2>5, <2>7 DEF New
<1>5. ASSUME NEW f, Overwrites(f), WriteFrame PROVE Marks /\ Adds /\ Keeps
  <2>1. /\ f \in hdr.mxFrame + 1..w.iFrame /\ f \in 1..MaxFrame /\ ~(IsLast /\ w.isCommit)
        /\ file'.wal = [file.wal EXCEPT ![f] = Over(f)]
        /\ loose'.wal = [loose.wal EXCEPT ![f] = @ \cup {Over(f)}]
    BY <1>0, <1>2, <1>5, Types DEF Overwrites
  <2>2. w.list # {} /\ ~AllWritten /\ Marks /\ NextPage \in w.list /\ NextPage \in Pages
    BY <1>0, <1>5, WriteFrameIs, NextPageType DEF AllWritten, Pending
  <2>3. Begun /\ TailOk(f)
    <3>1. Begun
      BY <1>0, <1>2, <2>1 DEF Begun
    <3>. QED  BY <1>2, <2>1, <3>1 DEF TailInv
  <2>4. /\ Over(f) \in Frames /\ Over(f).commit = file.wal[f].commit
        /\ Over(f).val = w.cache[NextPage]
    <3>1. w.cache[NextPage] \in Vals
      BY <1>0, <2>2, Types DEF Writers
    <3>2. file.wal[f] \in Frames
      BY <1>0, <2>1
    <3>. QED  BY <3>1, <3>2 DEF Over, Frames
  <2>5. ~Over(f).commit
    BY <2>2, <2>3, <2>4 DEF TailOk
  <2>6. w.cache[NextPage][1] = count.tx
    <3>1. CacheOk(NextPage)
      BY <1>2, <2>2 DEF ValueInv
    <3>2. PICK q : q = NextPage
      OBVIOUS
    <3>3. ~(w.isCommit /\ w.list \subseteq {q})
      <4>1. ~(w.isCommit /\ w.list = {q})
        BY <2>1, <3>2 DEF IsLast
      <4>. QED  BY <2>2, <3>2, <4>1
    <3>. QED  BY <2>2, <3>1, <3>2, <3>3 DEF CacheOk
  <2>7. ASSUME NEW y, y = Over(f) PROVE New(y, f)
    <3>1. Newer(y, f)
      BY <1>0, <1>2, <2>1, <2>4, <2>6, <2>7, NewerIs
    <3>. QED  BY <2>5, <2>7, <3>1 DEF New
  <2>8. Adds
    BY <1>0, <2>1, <2>7
  <2>9. Keeps
    BY <1>0, <2>1
  <2>. QED  BY <2>2, <2>8, <2>9
<1>6. ASSUME NEW new, Appends(new), WriteFrame PROVE Marks /\ Adds /\ Keeps
  <2>i. PICK i : i = w.iFrame + 1
    OBVIOUS
  <2>1. /\ i \in 1..MaxFrame /\ loose'.wal = [loose.wal EXCEPT ![i] = @ \cup {new}]
        /\ file'.wal = [file.wal EXCEPT ![i] = new] /\ w'.iFrame = i
        /\ w'.iReCksum = w.iReCksum /\ Fields(new)
    BY <1>6, <2>i DEF Appends
  <2>2. Marks
    BY <1>0, <1>6, WriteFrameIs DEF AllWritten, Pending
  <2>3. file'.wal[i] = new /\ new \in Frames /\ i > hdr.mxFrame /\ i \in hdr.mxFrame + 1..w'.iFrame
    BY <1>0, <1>2, <2>1, <2>i
  <2>4. Begun'
    BY <1>0, <1>1, <1>2, <2>1, <2>3 DEF Begun
  <2>5. New(new, i)
    <3>1. CASE w.iReCksum # 0
      <4>1. new.sum = <<>> /\ Len(new.sum) = 0
        BY <2>1, <3>1 DEF Fields
      <4>2. Newer(new, i)
        BY <1>0, <1>2, <2>1, <2>3, <4>1, NewerIs
      <4>. QED  BY <2>1, <4>1, <4>2 DEF New
    <3>2. CASE w.iReCksum = 0
      <4>1. TailOk(i)'
        BY <1>1, <1>2, <2>3, <2>4 DEF TailInv
      <4>2. file'.wal[i].sum = SumTo(i)'
        BY <2>1, <3>2, <4>1 DEF TailOk
      <4>. QED  BY <1>4, <2>1, <2>3, <2>4, <4>2
    <3>. QED  BY <3>1, <3>2
  <2>6. Adds
    BY <1>0, <2>1, <2>5
  <2>7. Keeps
    BY <1>0, <2>1, <2>3
  <2>. QED  BY <2>2, <2>6, <2>7
<1>7. ASSUME RewriteChecksums PROVE Marks /\ Adds /\ Keeps
  <2>1. /\ w.iReCksum \in hdr.mxFrame + 1..w.iFrame /\ Begun
        /\ \A k \in 1..MaxFrame :
            /\ Body(file'.wal[k]) = Body(file.wal[k])
            /\ k \in w.iReCksum..w.iFrame =>
                 file'.wal[k].salt = mine.hdr.salt /\ file'.wal[k].sum = SumTo(k)
            /\ k \notin w.iReCksum..w.iFrame => file'.wal[k] = file.wal[k]
            /\ loose'.wal[k] = loose.wal[k] \cup {file'.wal[k]}
    BY <1>0, <1>7, SumsRewritten
  <2>2. w'.iFrame = w.iFrame /\ AllWritten /\ AllWritten' /\ Begun'
    <3>1. w'.iFrame = w.iFrame /\ AllWritten /\ AllWritten'
      BY <1>0, <1>7, RewriteIs DEF AllWritten
    <3>. QED  BY <3>1 DEF TailInv
  <2>3. \A n \in 1..MaxFrame : SumTo(n)' = SumTo(n)
    <3>1. TAKE n \in 1..MaxFrame
    <3>2. \A j \in 1..n : Body(file.wal[j]) = Body(file'.wal[j])
      <4>1. \A j \in 1..n : j \in 1..MaxFrame
        BY <1>0
      <4>. QED  BY <2>1, <4>1
    <3>. QED  BY <3>2, BodiesSame DEF SumTo
  <2>4. Marks
    BY <2>2, <2>3 DEF Pending
  <2>5. ASSUME NEW n \in 1..MaxFrame, NEW y \in loose'.wal[n], y \notin loose.wal[n]
        PROVE  New(y, n)
    <3>1. y = file'.wal[n] /\ n \in w.iReCksum..w.iFrame
      BY <1>0, <2>1, <2>5 DEF LastWritten
    <3>2. file'.wal[n].sum = SumTo(n)' /\ n \in hdr.mxFrame + 1..w'.iFrame
      BY <1>0, <1>2, <2>1, <2>2, <2>3, <3>1
    <3>. QED  BY <1>4, <2>2, <3>1, <3>2
  <2>6. Keeps
    <3>1. TAKE k \in 1..hdr.mxFrame
    <3>2. k \in 1..MaxFrame /\ k \notin w.iReCksum..w.iFrame
      BY <1>0, <2>1
    <3>3. loose'.wal[k] = loose.wal[k]
      <4>1. file.wal[k] \in loose.wal[k] /\ file'.wal[k] = file.wal[k]
        BY <1>0, <2>1, <3>2 DEF LastWritten
      <4>2. loose'.wal[k] = loose.wal[k] \cup {file'.wal[k]}
        BY <2>1, <3>2
      <4>. HIDE <2>1
      <4>. QED  BY <4>1, <4>2
    <3>. QED  BY <2>1, <3>2, <3>3
  <2>. QED  BY <2>4, <2>5, <2>6
<1>8. Marks /\ Adds /\ Keeps
  <2>. HIDE DEF Marks, Adds, Keeps
  <2>. QED  BY <1>0, <1>5, <1>6, <1>7, FrameIs DEF Writes
<1>9. \A s : NoMarks(s, hdr.mxFrame) => \A d : d = hdr.mxFrame => NoMarks(s, d)'
  BY <1>3, <1>8
<1>. QED  BY <1>1, <1>2, <1>8, <1>9

LEMMA ShowsSame ==
  ASSUME file'.wal = file.wal, loose'.db = loose.db, Store' = Store, NEW e, Shows(e)
  PROVE  Shows(e)'
<1>1. ASSUME NEW p \in Pages
      PROVE  IF LastFrame(e, p)' = 0 THEN loose'.db[p] = {Store'[p]}
             ELSE file'.wal[LastFrame(e, p)'].val = Store'[p]
  <2>1. LastFrame(e, p)' = LastFrame(e, p)
    BY DEF LastFrame
  <2>. QED  BY <2>1 DEF Shows
<1>. QED  BY <1>1 DEF Shows

LEMMA LogNext ==
  ASSUME NEW s, NEW d, s = hdr'.salt, d = hdr'.mxFrame, Synced(s, d)', NoMarks(s, d)',
         \A t : InTx' /\ mine'.pc # "out" /\ t = mine'.hdr.salt => NoMarks(t, d)',
         \A log \in loose'.log : \E e \in 0..MaxFrame : Recovers(log, e)'
  PROVE  LogInv'
<1>1. Synced(hdr.salt, hdr.mxFrame)'
  BY DEF Synced
<1>2. NoMarks(hdr.salt, hdr.mxFrame)'
  BY DEF NoMarks
<1>3. InTx' /\ mine'.pc # "out" => NoMarks(mine.hdr.salt, hdr.mxFrame)'
  <2>1. SUFFICES ASSUME InTx', mine'.pc # "out" PROVE NoMarks(mine.hdr.salt, hdr.mxFrame)'
    OBVIOUS
  <2>2. PICK t : t = mine'.hdr.salt
    OBVIOUS
  <2>3. NoMarks(t, d)'
    BY <2>1, <2>2
  <2>. QED  BY <2>2, <2>3 DEF NoMarks
<1>. QED  BY <1>1, <1>2, <1>3 DEF LogInv

LEMMA LogInvStep ==
  ASSUME WalInv, WalInv', TailInv, TailInv', SaltInv, SaltInv', ValueInv, FrameInv, DiskInv',
         LogInv, [Next]_vars, ~Crash
  PROVE  LogInv'
<1>0. /\ TypeInv /\ TypeInv' /\ LastWritten /\ LastWritten' /\ PhaseInv /\ OwnInv /\ ReadInv
      /\ CheckpointInv /\ hdr.mxFrame \in Nat /\ hdr.mxFrame \in 0..MaxFrame /\ MaxFrame \in Nat
      /\ w.iFrame \in 0..MaxFrame /\ mine.hdr.mxFrame \in Nat /\ count.salt \in Nat
      /\ mine = rd[Writer] /\ mine' = rd'[Writer]
  <2>1. /\ TypeInv /\ TypeInv' /\ LastWritten /\ LastWritten' /\ PhaseInv /\ OwnInv /\ ReadInv
        /\ CheckpointInv
    BY DEF WalInv
  <2>2. hdr.mxFrame \in 0..MaxFrame /\ w.iFrame \in 0..MaxFrame
    BY <2>1 DEF TypeInv, Hdrs, Writers
  <2>. QED  BY <2>1, <2>2, Types, Constants DEF mine
<1>d. PICK d \in 0..MaxFrame : d = hdr.mxFrame
  BY <1>0
<1>s. PICK s : s = hdr.salt
  OBVIOUS
<1>m. PICK m : m = mine.hdr.salt
  OBVIOUS
<1>1. /\ Synced(s, d) /\ NoMarks(s, d) /\ (InTx /\ mine.pc # "out" => NoMarks(m, d))
      /\ \A log \in loose.log : \E e \in 0..MaxFrame : Recovers(log, e)
  BY <1>d, <1>s, <1>m DEF LogInv
<1>f. \A n \in 1..MaxFrame : \A x \in loose.wal[n] : x.salt <= count.salt /\ x.salt \in Nat
  <2>1. \A n \in 1..MaxFrame : \A x \in loose.wal[n] : x.salt <= count.salt
    BY DEF WalInv, CountInv
  <2>2. \A n \in 1..MaxFrame : \A x \in loose.wal[n] : x \in Frames
    BY <1>0 DEF TypeInv
  <2>3. \A x \in Frames : x.salt \in Nat
    BY DEF Frames
  <2>. QED  BY <2>1, <2>2, <2>3
<1>2. CASE ~Writes /\ ~Leaves /\ ~Publish
  <2>1. Calm
    BY <1>2, CalmStep
  <2>2. Store' = Store
    BY <1>2, StoreKept
  <2>3. /\ file'.wal = file.wal /\ \A k \in 1..MaxFrame : loose'.wal[k] \subseteq loose.wal[k]
    BY <2>1 DEF Calm
  <2>4. \A t : \A e \in 0..MaxFrame : Synced(t, e) => Synced(t, e)'
    <3>1. \A e \in 0..MaxFrame : \A k \in 1..e : k \in 1..MaxFrame
      BY <1>0
    <3>. QED  BY <1>0, <2>3, <3>1, SyncedNext
  <2>5. \A t : \A e \in 0..MaxFrame : NoMarks(t, e) => NoMarks(t, e)'
    BY <1>0, <2>1, MarksCalm
  <2>6. ASSUME NEW log \in loose.log, hdr' = hdr, hdr.mxFrame = 0 => loose'.db = loose.db
        PROVE  \E e \in 0..MaxFrame : Recovers(log, e)'
    <3>1. PICK e \in 0..MaxFrame : Recovers(log, e)
      BY <1>1
    <3>2. Synced(log.salt, e)' /\ NoMarks(log.salt, e)' /\ (e > 0 => log # NoLog)
          /\ (hdr'.mxFrame > 0 => e = hdr'.mxFrame)
      BY <2>4, <2>5, <2>6, <3>1 DEF Recovers
    <3>3. Shows(e)'
      <4>1. CASE hdr.mxFrame = 0
        BY <2>2, <2>3, <2>6, <3>1, <4>1, ShowsSame DEF Recovers
      <4>2. CASE hdr.mxFrame > 0
        BY <2>6, <3>2, <4>2, ShowsNext
      <4>. QED  BY <1>0, <4>1, <4>2
    <3>. QED  BY <3>2, <3>3 DEF Recovers
  <2>7. CASE /\ hdr' = hdr /\ loose'.log \subseteq loose.log
             /\ hdr.mxFrame = 0 => loose'.db = loose.db
             /\ InTx' /\ mine'.pc # "out" =>
                  \/ mine'.hdr.salt = hdr.salt
                  \/ InTx /\ mine.pc # "out" /\ mine'.hdr.salt = mine.hdr.salt
    <3>1. Synced(s, d)' /\ NoMarks(s, d)' /\ s = hdr'.salt /\ d = hdr'.mxFrame
      BY <1>1, <1>s, <1>d, <2>4, <2>5, <2>7
    <3>2. \A t : InTx' /\ mine'.pc # "out" /\ t = mine'.hdr.salt => NoMarks(t, d)'
      BY <1>1, <1>s, <1>m, <2>5, <2>7
    <3>3. \A log \in loose'.log : \E e \in 0..MaxFrame : Recovers(log, e)'
      BY <2>6, <2>7
    <3>. QED  BY <3>1, <3>2, <3>3, LogNext
  <2>8. CASE /\ RestartLog /\ hdr'.mxFrame = 0 /\ hdr'.salt = count.salt + 1 /\ mine'.hdr = hdr'
             /\ SameFiles
    <3>1. PICK t, o : t = count.salt + 1 /\ o = 0
      OBVIOUS
    <3>2. NoMarks(t, o)'
      <4>1. \A n \in 1..MaxFrame : \A x \in loose'.wal[n] : x.salt # t
        BY <1>0, <1>f, <2>8, <3>1 DEF SameFiles
      <4>. QED  BY <3>1, <4>1, MarksFresh
    <3>3. Synced(t, o)'
      BY <3>1 DEF Synced
    <3>4. ASSUME NEW log \in loose'.log PROVE \E e \in 0..MaxFrame : Recovers(log, e)'
      <4>1. PICK e \in 0..MaxFrame : Recovers(log, e)
        BY <1>1, <2>8, <3>4 DEF SameFiles
      <4>2. Synced(log.salt, e)' /\ NoMarks(log.salt, e)' /\ (e > 0 => log # NoLog)
        BY <2>4, <2>5, <4>1 DEF Recovers
      <4>3. Shows(e)'
        BY <2>2, <2>8, <4>1, ShowsSame DEF Recovers, SameFiles
      <4>. QED  BY <2>8, <4>2, <4>3 DEF Recovers
    <3>5. \A u : InTx' /\ mine'.pc # "out" /\ u = mine'.hdr.salt => NoMarks(u, o)'
      BY <2>8, <3>1, <3>2
    <3>. QED  BY <2>8, <3>1, <3>2, <3>3, <3>4, <3>5, LogNext
  <2>9. CASE /\ WriteLogHeader /\ mine.hdr.mxFrame = 0 /\ hdr' = hdr /\ InTx /\ mine.pc = "in"
             /\ loose'.log = loose.log \cup {file'.log} /\ file'.log.salt = mine'.hdr.salt
             /\ loose'.db = loose.db
             /\ mine'.hdr.salt = count.salt + 1 \/ mine'.hdr.salt = mine.hdr.salt
    <3>1. d = 0 /\ s = hdr'.salt /\ d = hdr'.mxFrame
      <4>1. w.pc = "loghdr"
        BY <2>9 DEF WriteLogHeader, At
      <4>2. Top = mine.hdr.mxFrame /\ HeadOk
        BY <1>0, <2>9, <4>1 DEF Top, OwnInv
      <4>. QED  BY <1>0, <1>d, <1>s, <2>9, <4>2 DEF HeadOk
    <3>2. Synced(s, d)' /\ NoMarks(s, d)'
      BY <1>1, <2>4, <2>5
    <3>t. PICK t : t = mine'.hdr.salt
      OBVIOUS
    <3>3. NoMarks(t, d)'
      <4>1. CASE t = count.salt + 1
        <5>1. \A n \in 1..MaxFrame : \A x \in loose'.wal[n] : x.salt # t
          BY <1>0, <1>f, <2>3, <4>1
        <5>. QED  BY <3>1, <5>1, MarksFresh
      <4>2. CASE t = m
        BY <1>1, <2>5, <2>9, <4>2
      <4>. QED  BY <1>m, <2>9, <3>t, <4>1, <4>2
    <3>4. ASSUME NEW log \in loose'.log PROVE \E e \in 0..MaxFrame : Recovers(log, e)'
      <4>1. CASE log \in loose.log
        BY <2>6, <2>9, <4>1
      <4>2. CASE log = file'.log
        <5>1. log.salt = t
          BY <2>9, <3>t, <4>2
        <5>2. NoMarks(log.salt, d)'
          BY <3>3, <5>1
        <5>3. Recovers(log, d)'
          BY <3>1, <3>2, <3>4, <5>2, RecoversNext
        <5>. QED  BY <5>3
      <4>. QED  BY <2>9, <3>4, <4>1, <4>2
    <3>5. \A u : InTx' /\ mine'.pc # "out" /\ u = mine'.hdr.salt => NoMarks(u, d)'
      BY <3>t, <3>3
    <3>. QED  BY <3>1, <3>2, <3>4, <3>5, LogNext
  <2>. QED  BY <1>2, <2>7, <2>8, <2>9, CalmIs
<1>3. CASE Writes
  <2>1. /\ hdr' = hdr /\ mine' = mine /\ InTx /\ mine.pc = "in" /\ loose'.log = {file'.log}
        /\ \A k \in 1..d : file'.wal[k] = file.wal[k] /\ loose'.wal[k] = loose.wal[k]
        /\ file'.log = file.log /\ file.log.salt = m
        /\ \A t : NoMarks(t, hdr.mxFrame) => NoMarks(t, d)'
    BY <1>3, <1>d, <1>m, LogWritten
  <2>2. Synced(s, d)' /\ NoMarks(s, d)' /\ NoMarks(m, d)' /\ s = hdr'.salt /\ d = hdr'.mxFrame
    <3>1. Synced(s, d)'
      BY <1>0, <1>1, <2>1, SyncedNext
    <3>. QED  BY <1>1, <1>s, <1>d, <2>1, <3>1
  <2>3. ASSUME NEW log \in loose'.log PROVE \E e \in 0..MaxFrame : Recovers(log, e)'
    <3>1. log.salt = m
      BY <2>1, <2>3
    <3>2. NoMarks(log.salt, d)'
      BY <2>2, <3>1
    <3>3. Recovers(log, d)'
      BY <2>2, <2>3, <3>2, RecoversNext
    <3>. QED  BY <3>3
  <2>4. \A t : InTx' /\ mine'.pc # "out" /\ t = mine'.hdr.salt => NoMarks(t, d)'
    BY <1>m, <2>1, <2>2
  <2>. QED  BY <2>2, <2>3, <2>4, LogNext
<1>4. CASE Leaves
  <2>1. ~InTx' /\ SameFiles /\ hdr' = hdr /\ ~AllWritten
    BY <1>0, <1>4, EndIs DEF Leaves, Rollback, WriteFails, At, AllWritten, shm
  <2>2. Store' = Store
    <3>1. ~Publish
      BY <1>4 DEF Leaves, Publish, Rollback, WriteFails, At
    <3>. QED  BY <3>1, StoreKept
  <2>3. \A t : \A e \in 0..MaxFrame : Synced(t, e) => Synced(t, e)'
    BY <1>0, <2>1, SyncedNext DEF SameFiles
  <2>4. \A t, e : NoMarks(t, e) => NoMarks(t, e)'
    BY <2>1, MarksLeft DEF SameFiles
  <2>5. ASSUME NEW log \in loose'.log PROVE \E e \in 0..MaxFrame : Recovers(log, e)'
    <3>1. PICK e \in 0..MaxFrame : Recovers(log, e)
      BY <1>1, <2>1, <2>5 DEF SameFiles
    <3>2. Shows(e)'
      BY <2>1, <2>2, <3>1, ShowsSame DEF Recovers, SameFiles
    <3>. QED  BY <2>1, <2>3, <2>4, <3>1, <3>2 DEF Recovers
  <2>6. Synced(s, d)' /\ NoMarks(s, d)' /\ s = hdr'.salt /\ d = hdr'.mxFrame
    BY <1>1, <1>s, <1>d, <2>1, <2>3, <2>4
  <2>. QED  BY <2>1, <2>5, <2>6, LogNext
<1>5. CASE Publish
  <2>1. /\ ~InTx' /\ file' = file /\ loose' = loose /\ w.pc = "publish"
        /\ hdr'.mxFrame = w.iFrame /\ hdr'.salt = m
    BY <1>0, <1>5, <1>m, EndIs DEF SameFiles
  <2>2. PICK e \in 0..MaxFrame : e = w.iFrame
    BY <1>0
  <2>3. /\ InTx /\ mine.pc = "in" /\ Top = e /\ AllWritten /\ w.iReCksum = 0 /\ Begun /\ d < e
        /\ \A k \in 1..MaxFrame : loose.wal[k] = {file.wal[k]}
        /\ loose.log = {file.log} /\ file.log.salt = m
    <3>1. InTx /\ mine.pc = "in" /\ Top = e
      BY <1>0, <2>1, <2>2 DEF InTx, TxPcs, PhaseInv, Top
    <3>2. AllWritten /\ w.iReCksum = 0 /\ Begun /\ \A k \in 1..MaxFrame : loose.wal[k] = {file.wal[k]}
      BY <2>1 DEF TailInv
    <3>3. d < e
      BY <1>0, <1>d, <3>1, <3>2 DEF Begun
    <3>. QED  BY <1>m, <2>1, <3>1, <3>2, <3>3 DEF SaltInv, Appending
  <2>4. ASSUME NEW k \in 1..e
        PROVE  file.wal[k].salt = m /\ file.wal[k].sum = SumTo(k)
    <3>1. CASE k <= d
      <4>1. k \in 1..d /\ hdr.mxFrame > 0
        BY <1>0, <1>d, <3>1
      <4>2. s = m
        BY <1>s, <2>3, <4>1 DEF SaltInv
      <4>. QED  BY <1>1, <4>1, <4>2 DEF Synced
    <3>2. CASE k > d
      <4>1. k \in hdr.mxFrame + 1..Top
        BY <1>0, <1>d, <2>3, <3>2
      <4>. QED  BY <1>m, <2>3, <4>1 DEF TailInv, TailOk
    <3>. QED  BY <1>0, <3>1, <3>2
  <2>5. file.wal[e].commit
    <3>1. e \in hdr.mxFrame + 1..Top
      BY <1>0, <1>d, <2>3
    <3>. QED  BY <2>2, <2>3, <3>1 DEF TailInv, TailOk
  <2>6. Synced(m, e)'
    <3>1. \A k : SumTo(k)' = SumTo(k)
      BY <2>1 DEF SumTo
    <3>2. \A k \in 1..e : k \in 1..MaxFrame
      BY <1>0
    <3>. QED  BY <2>1, <2>3, <2>4, <2>5, <3>1, <3>2 DEF Synced
  <2>7. NoMarks(m, e)'
    <3>1. ASSUME NEW n \in e + 1..MaxFrame, NEW x \in loose'.wal[n], m # 0, MarkOf(m, x, n)
          PROVE  Harmless(x, n)'
      <4>1. n \in d + 1..MaxFrame /\ n # e
        BY <1>0, <2>3, <3>1
      <4>2. ~Pending(x, n)
        BY <2>2, <4>1 DEF Pending
      <4>3. Harmless(x, n)
        BY <1>1, <2>1, <2>3, <3>1, <4>1, <4>2 DEF NoMarks
      <4>. QED  BY <2>1, <4>3 DEF Harmless
    <3>. QED  BY <3>1 DEF NoMarks, MarkOf
  <2>8. ASSUME NEW log \in loose'.log PROVE \E x \in 0..MaxFrame : Recovers(log, x)'
    <3>1. log.salt = m
      BY <2>1, <2>3, <2>8
    <3>2. NoMarks(log.salt, e)'
      BY <2>7, <3>1
    <3>3. Recovers(log, e)'
      BY <2>1, <2>2, <2>6, <2>8, <3>2, RecoversNext
    <3>. QED  BY <3>3
  <2>. QED  BY <2>1, <2>2, <2>6, <2>7, <2>8, LogNext
<1>. QED  BY <1>2, <1>3, <1>4, <1>5

-----------------------------------------------------------------------------
(* A crash.  The frames of a log up to its commit mark, if they are right. *)
LEMMA BodiesSub ==
  ASSUME NEW wal \in [1..MaxFrame -> Frames], NEW s \in Seq(Bodies), NEW k \in 0..MaxFrame,
         Len(s) >= k, \A j \in 1..k : s[j] = Body(wal[j])
  PROVE  SubSeq(s, 1, k) = BodiesOf(wal, k)
<1>. DEFINE t == BodiesOf(wal, k)
            u == SubSeq(s, 1, k)
<1>0. k \in Nat
  BY Constants
<1>1. t \in Seq(Bodies) /\ Len(t) = k /\ \A j \in 1..k : t[j] = Body(wal[j])
  BY BodiesAre
<1>2. \A j \in 1..k : s[j] \in Bodies
  BY <1>1
<1>3. u \in Seq(Bodies) /\ Len(u) = k /\ \A j \in 1..k : u[j] = s[j]
  BY <1>0, <1>2, SubSeqProperties
<1>. HIDE DEF t, u
<1>4. u = t
  BY <1>1, <1>3, SeqEqual
<1>. QED  BY <1>4 DEF t, u

LEMMA LeftOne == \A x, torn : Left({x}, torn) = {x}
<1>. SUFFICES ASSUME NEW x, NEW torn PROVE Left({x}, torn) = {x}
  OBVIOUS
<1>1. Cardinality({x}) = 1
  BY FS_Singleton
<1>2. ~(Cardinality({x}) > 1)
  BY <1>1
<1>. QED  BY <1>2 DEF Left

(* A mark fits all that is left of the frames before it only if recovery   *)
(* would find it.                                                          *)
LEMMA MarkFound ==
  ASSUME NEW f, f.wal \in [1..MaxFrame -> Frames], NEW n \in 1..MaxFrame,
         NEW x, x = f.wal[n], x.salt = f.log.salt, Len(x.sum) = n
  PROVE  Valid(f, n) <=> \A k \in 1..n : Fits(f.wal[k], x, k)
<1>0. /\ x \in Frames /\ x.sum \in Seq(Bodies) /\ n \in 0..MaxFrame
      /\ \A k \in 1..n : k \in 0..MaxFrame /\ k \in 1..n /\ f.wal[k] \in Frames
  BY Constants DEF Frames
<1>1. ASSUME Valid(f, n), NEW k \in 1..n PROVE Fits(f.wal[k], x, k)
  <2>1. x.sum = BodiesOf(f.wal, n) /\ f.wal[k].sum = BodiesOf(f.wal, k) /\ f.wal[k].salt = x.salt
    <3>1. n \in 1..n
      BY Constants
    <3>. QED  BY <1>1, <3>1 DEF Valid, BodiesOf
  <2>2. \A j \in 1..n : x.sum[j] = Body(f.wal[j])
    BY <1>0, <2>1, BodiesAre
  <2>3. SubSeq(x.sum, 1, k) = BodiesOf(f.wal, k)
    <3>1. Len(x.sum) >= k /\ \A j \in 1..k : j \in 1..n
      BY Constants
    <3>. QED  BY <1>0, <2>2, <3>1, BodiesSub
  <2>. QED  BY <2>1, <2>2, <2>3 DEF Fits
<1>2. ASSUME \A k \in 1..n : Fits(f.wal[k], x, k) PROVE Valid(f, n)
  <2>1. \A j \in 1..n : x.sum[j] = Body(f.wal[j])
    BY <1>2 DEF Fits
  <2>2. ASSUME NEW k \in 1..n
        PROVE  f.wal[k].salt = f.log.salt /\ f.wal[k].sum = [j \in 1..k |-> Body(f.wal[j])]
    <3>1. Len(x.sum) >= k /\ \A j \in 1..k : j \in 1..n
      BY Constants
    <3>2. SubSeq(x.sum, 1, k) = BodiesOf(f.wal, k)
      BY <1>0, <2>1, <3>1, BodiesSub
    <3>. QED  BY <1>2, <3>2 DEF Fits, BodiesOf
  <2>. QED  BY <2>2 DEF Valid
<1>. QED  BY <1>1, <1>2

LEMMA CrashStore ==
  ASSUME WalInv, WalInv', CrashInv, Crash
  PROVE  \/ \A p \in Pages : Store'[p] = Store[p]
         \/ /\ AllWritten
            /\ \A p \in Pages : Store'[p] = IF w.cache[p] = Torn THEN Store[p] ELSE w.cache[p]
<1>0. /\ TypeInv /\ TypeInv' /\ LastWritten /\ MaxFrame \in Nat
      /\ file.wal \in [1..MaxFrame -> Frames] /\ file'.wal \in [1..MaxFrame -> Frames]
      /\ TailInv /\ SaltInv /\ ValueInv /\ LogInv /\ DiskInv
  <2>1. TypeInv /\ TypeInv' /\ LastWritten
    BY DEF WalInv
  <2>. QED  BY <2>1, Constants DEF TypeInv, CrashInv
<1>f. PICK f : f = file'
  OBVIOUS
<1>r. PICK r : r = Recovered(f)
  OBVIOUS
<1>1. /\ f.log \in loose.log /\ r \in 0..MaxFrame /\ hdr'.mxFrame = r
      /\ f.wal \in [1..MaxFrame -> Frames]
      /\ \A k \in 1..MaxFrame : /\ f.wal[k] \in Left(loose.wal[k], NoFrame)
                                /\ f.wal[k] \in loose.wal[k] \cup {NoFrame}
      /\ \A p \in Pages : f.db[p] \in Left(loose.db[p], Torn)
      /\ r # 0 => f.wal[r].commit /\ Valid(f, r) /\ f.log # NoLog /\ f.log.salt # 0
      /\ f.log # NoLog => \A n \in 1..MaxFrame : f.wal[n].commit /\ Valid(f, n) => n <= r
  <2>1. f.log \in loose.log /\ (f.log # NoLog => f.log.salt # 0)
    BY <1>0, <1>f, CrashIs DEF SaltInv
  <2>2. /\ \A k \in 1..MaxFrame : /\ f.wal[k] \in Left(loose.wal[k], NoFrame)
                                 /\ f.wal[k] \in loose.wal[k] \cup {NoFrame}
        /\ \A p \in Pages : f.db[p] \in Left(loose.db[p], Torn)
        /\ hdr'.mxFrame = r /\ f.wal \in [1..MaxFrame -> Frames]
    BY <1>0, <1>f, <1>r, CrashIs
  <2>3. /\ r \in 0..MaxFrame
        /\ r # 0 => f.wal[r].commit /\ Valid(f, r) /\ f.log # NoLog
        /\ f.log # NoLog => \A n \in 1..MaxFrame : f.wal[n].commit /\ Valid(f, n) => n <= r
    BY <1>r, RecoveredType
  <2>. QED  BY <2>1, <2>2, <2>3
<1>2. PICK d \in 0..MaxFrame : Recovers(f.log, d)
  BY <1>0, <1>1 DEF LogInv
<1>3. \A k \in 1..d : k \in 1..MaxFrame /\ f.wal[k] = file.wal[k]
  <2>1. \A k \in 1..d : k \in 1..MaxFrame /\ loose.wal[k] = {file.wal[k]}
    BY <1>0, <1>2 DEF Recovers, Synced
  <2>2. \A k \in 1..d : f.wal[k] \in {file.wal[k]}
    <3>1. TAKE k \in 1..d
    <3>2. f.wal[k] \in Left(loose.wal[k], NoFrame) /\ loose.wal[k] = {file.wal[k]}
      BY <1>1, <2>1
    <3>. QED  BY <3>2, LeftOne
  <2>. QED  BY <2>1, <2>2
<1>4. d <= r
  <2>1. SUFFICES ASSUME d > 0 PROVE d <= r
    BY <1>0, <1>1
  <2>2. f.log # NoLog /\ d \in 1..d /\ d \in 1..MaxFrame
    BY <1>0, <1>2, <2>1 DEF Recovers
  <2>3. f.wal[d].commit
    BY <1>2, <1>3, <2>1, <2>2 DEF Recovers, Synced
  <2>4. ASSUME NEW k \in 1..d
        PROVE  f.wal[k].salt = f.log.salt /\ f.wal[k].sum = [j \in 1..k |-> Body(f.wal[j])]
    <3>1. file.wal[k].salt = f.log.salt /\ file.wal[k].sum = SumTo(k)
      BY <1>2 DEF Recovers, Synced
    <3>2. \A j \in 1..k : j \in 1..d
      BY <1>0
    <3>3. BodiesOf(f.wal, k) = BodiesOf(file.wal, k)
      BY <1>3, <3>2, BodiesSame
    <3>. QED  BY <1>3, <3>1, <3>3 DEF SumTo, BodiesOf
  <2>5. Valid(f, d)
    BY <2>4 DEF Valid
  <2>. QED  BY <1>1, <2>2, <2>3, <2>5
<1>5. CASE r = d
  <2>1. ASSUME NEW p \in Pages PROVE Store'[p] = Store[p]
    <3>1. Last(p)' = LastFrame(d, p)
      <4>1. Last(p)' = Newest(f.wal, 1, d, p)
        BY <1>0, <1>1, <1>5, <1>f, LastNext
      <4>2. Newest(f.wal, 1, d, p) = Newest(file.wal, 1, d, p)
        BY <1>3, NewestSame
      <4>. QED  BY <4>1, <4>2, FrameSearch
    <3>2. LastFrame(d, p) # 0 => LastFrame(d, p) \in 1..d
      <4>1. LastFrame(d, p) \in 0..d
        BY <1>0, LastType
      <4>. QED  BY <1>0, <4>1
    <3>3. CASE LastFrame(d, p) = 0
      <4>1. loose.db[p] = {Store[p]}
        BY <1>2, <3>3 DEF Recovers, Shows
      <4>2. f.db[p] = Store[p]
        BY <1>1, <4>1, LeftOne
      <4>. QED  BY <1>f, <3>1, <3>3, <4>2, StoreNext
    <3>4. CASE LastFrame(d, p) # 0
      <4>1. file.wal[LastFrame(d, p)].val = Store[p]
        BY <1>2, <3>4 DEF Recovers, Shows
      <4>. QED  BY <1>3, <1>f, <3>1, <3>2, <3>4, <4>1, StoreNext
    <3>. QED  BY <3>3, <3>4
  <2>. QED  BY <2>1
<1>6. CASE r > d
  <2>x. PICK x : x = f.wal[r]
    OBVIOUS
  <2>1. /\ r \in d + 1..MaxFrame /\ r \in 1..MaxFrame /\ f.log.salt # 0 /\ r \in 1..r
        /\ x.commit /\ x.salt = f.log.salt /\ x.sum = BodiesOf(f.wal, r) /\ Len(x.sum) = r
    <3>1. r \in d + 1..MaxFrame /\ r # 0 /\ r \in 1..r /\ r \in 1..MaxFrame
      BY <1>0, <1>1, <1>6
    <3>2. x.commit /\ x.salt = f.log.salt /\ x.sum = BodiesOf(f.wal, r) /\ f.log.salt # 0
      BY <1>1, <2>x, <3>1 DEF Valid, BodiesOf
    <3>. QED  BY <1>1, <3>1, <3>2, BodiesAre
  <2>2. \A k \in 1..r : k \in 1..MaxFrame /\ f.wal[k] \in loose.wal[k] /\ Fits(f.wal[k], x, k)
    <3>1. \A k \in 1..r : k \in 1..MaxFrame /\ f.wal[k].salt # 0
      <4>1. Valid(f, r)
        BY <1>1, <2>1
      <4>2. \A k \in 1..r : k \in 1..MaxFrame
        BY <1>0, <1>1
      <4>3. \A k \in 1..r : f.wal[k].salt = f.log.salt
        BY <4>1 DEF Valid
      <4>. QED  BY <2>1, <4>2, <4>3
    <3>2. NoFrame.salt = 0
      BY DEF NoFrame
    <3>3. \A k \in 1..r : Fits(f.wal[k], x, k)
      BY <1>1, <2>1, <2>x, MarkFound
    <3>. QED  BY <1>1, <3>1, <3>2, <3>3
  <2>3. Pending(x, r)
    <3>1. x \in loose.wal[r] /\ MarkOf(f.log.salt, x, r)
      BY <2>1, <2>2, <2>x DEF MarkOf
    <3>2. ~Harmless(x, r)
      BY <2>2 DEF Harmless
    <3>. QED  BY <1>2, <2>1, <3>1, <3>2 DEF Recovers, NoMarks
  <2>4. AllWritten /\ r = w.iFrame /\ BodiesOf(f.wal, r) = BodiesOf(file.wal, r)
    BY <2>1, <2>3 DEF Pending, SumTo
  <2>5. ASSUME NEW i \in 1..w.iFrame
        PROVE  f.wal[i].page = file.wal[i].page /\ f.wal[i].val = file.wal[i].val
    <3>1. i \in 1..r
      BY <2>4
    <3>2. BodiesOf(f.wal, r)[i] = Body(f.wal[i])
      BY <1>1, <3>1, BodiesAre
    <3>3. BodiesOf(file.wal, r)[i] = Body(file.wal[i])
      BY <1>0, <1>1, <3>1, BodiesAre
    <3>. QED  BY <2>4, <3>2, <3>3 DEF Body
  <2>6. ASSUME NEW p \in Pages, Last(p) = 0 PROVE f.db[p] = file.db[p]
    <3>1. loose.db[p] = {file.db[p]}
      BY <1>0, <2>6 DEF DiskInv, DbSynced
    <3>. QED  BY <1>1, <3>1, LeftOne
  <2>. QED  BY <1>0, <1>1, <1>f, <2>4, <2>5, <2>6, Committed
<1>. QED  BY <1>0, <1>1, <1>4, <1>5, <1>6

LEMMA LogInvCrash ==
  ASSUME WalInv, WalInv', DiskInv', SaltInv', Crash
  PROVE  LogInv'
<1>0. /\ TypeInv /\ TypeInv' /\ LastWritten /\ MaxFrame \in Nat
  BY Constants DEF WalInv
<1>f. PICK f : f = file'
  OBVIOUS
<1>r. PICK r : r = Recovered(f)
  OBVIOUS
<1>s. PICK s : s = f.log.salt
  OBVIOUS
<1>1. /\ loose'.log = {f.log} /\ hdr'.mxFrame = r /\ hdr'.salt = s
      /\ f.wal \in [1..MaxFrame -> Frames] /\ \A k \in 1..MaxFrame : loose'.wal[k] = {f.wal[k]}
      /\ ~InTx'
  <2>1. w'.pc = "idle"
    BY <1>0, CrashIs DEF IdleWriter
  <2>. QED  BY <1>0, <1>f, <1>r, <1>s, <2>1, CrashIs DEF TypeInv, InTx, TxPcs
<1>2. /\ r \in 0..MaxFrame
      /\ r # 0 => f.wal[r].commit /\ Valid(f, r) /\ f.log # NoLog
      /\ f.log # NoLog => \A n \in 1..MaxFrame : f.wal[n].commit /\ Valid(f, n) => n <= r
  BY <1>r, RecoveredType
<1>3. Synced(s, r)'
  <2>1. SUFFICES ASSUME r # 0 PROVE Synced(s, r)'
    BY <1>0, <1>2 DEF Synced
  <2>2. \A k \in 1..r : k \in 1..MaxFrame /\ f.wal[k].salt = s /\ f.wal[k].sum = BodiesOf(f.wal, k)
    BY <1>0, <1>2, <1>s, <2>1 DEF Valid, BodiesOf
  <2>3. \A k : SumTo(k)' = BodiesOf(f.wal, k)
    BY <1>f DEF SumTo, BodiesOf
  <2>. QED  BY <1>1, <1>2, <1>f, <2>1, <2>2, <2>3 DEF Synced
<1>4. NoMarks(s, r)'
  <2>1. ASSUME NEW n \in r + 1..MaxFrame, NEW x \in loose'.wal[n], s # 0, MarkOf(s, x, n)
        PROVE  Harmless(x, n)'
    <3>1. /\ n \in 1..MaxFrame /\ ~(n <= r) /\ \A k \in 1..n : k \in 1..MaxFrame
      BY <1>0, <1>2, <2>1
    <3>2. x = f.wal[n] /\ x.commit /\ x.salt = s /\ Len(x.sum) = n /\ f.log # NoLog
      BY <1>1, <1>s, <2>1, <3>1 DEF MarkOf, NoLog
    <3>3. ~Valid(f, n)
      BY <1>2, <3>1, <3>2
    <3>4. PICK k \in 1..n : ~Fits(f.wal[k], x, k)
      BY <1>1, <1>s, <3>1, <3>2, <3>3, MarkFound
    <3>5. \A y \in loose'.wal[k] : ~Fits(y, x, k)
      BY <1>1, <3>1, <3>4
    <3>. QED  BY <3>5 DEF Harmless
  <2>. QED  BY <2>1 DEF NoMarks, MarkOf
<1>5. ASSUME NEW log \in loose'.log PROVE \E e \in 0..MaxFrame : Recovers(log, e)'
  <2>1. log.salt = s
    BY <1>1, <1>5, <1>s
  <2>2. NoMarks(log.salt, r)'
    BY <1>4, <2>1
  <2>3. Recovers(log, r)'
    BY <1>1, <1>2, <1>3, <1>5, <2>2, RecoversNext
  <2>. QED  BY <1>2, <2>3
<1>. QED  BY <1>1, <1>2, <1>3, <1>4, <1>5, LogNext

LEMMA CrashValues ==
  ASSUME WalInv, WalInv', CrashInv, Crash
  PROVE  \A p \in Pages : Store'[p] \in Given
<1>1. TAKE p \in Pages
<1>2. Store[p] \in Given
  BY DEF CrashInv, ValueInv
<1>3. AllWritten /\ w.cache[p] # Torn => w.cache[p] \in Given
  <2>1. AllWritten => InTx
    BY DEF AllWritten, InTx, TxPcs
  <2>. QED  BY <2>1 DEF CrashInv, ValueInv, CacheOk
<1>. QED  BY <1>2, <1>3, CrashStore

LEMMA CrashInvStep ==
  ASSUME WalInv, WalInv', CrashInv, [Next]_vars
  PROVE  CrashInv'
<1>1. ValueInv /\ TailInv /\ FrameInv /\ LogInv /\ SaltInv /\ DiskInv
  BY DEF CrashInv
<1>2. Synced(hdr.salt, hdr.mxFrame)
  BY <1>1 DEF LogInv
<1>3. Crash => \A p \in Pages : Store'[p] \in Given
  BY CrashValues
<1>4. ValueInv'
  BY <1>1, <1>3, ValueInvStep
<1>5. TailInv'
  BY <1>1, <1>2, TailInvStep
<1>6. SaltInv'
  BY <1>1, SaltInvStep
<1>7. DiskInv'
  BY <1>1, DiskInvStep
<1>8. FrameInv'
  BY <1>1, <1>2, <1>5, FrameInvStep
<1>9. LogInv'
  BY <1>1, <1>5, <1>6, <1>7, LogInvStep, LogInvCrash
<1>. QED  BY <1>4, <1>5, <1>6, <1>7, <1>8, <1>9 DEF CrashInv

LEMMA InitCrash ==
  ASSUME Init, WalInv
  PROVE  CrashInv
<1>0. /\ TypeInv /\ MaxFrame \in Nat /\ hdr = NoRead.hdr /\ hdr.mxFrame = 0 /\ hdr.salt = 0
      /\ loose.log = {NoLog} /\ file.log = NoLog /\ nBackfill = 0
      /\ \A k \in 1..MaxFrame : file.wal[k] = NoFrame /\ loose.wal[k] = {NoFrame}
      /\ \A p \in Pages : file.db[p] = <<0, 0>> /\ loose.db[p] = {<<0, 0>>}
      /\ w.pc = "idle" /\ w.iReCksum = 0 /\ w.nCkpt = 0 /\ w.list = {} /\ count.tx = 0
      /\ rd = [c \in Conns |-> NoRead]
  BY Constants DEF Init, NoRead, IdleWriter, WalInv
<1>1. ~InTx /\ ~Begun /\ ~AllWritten /\ ~Appending
  BY <1>0 DEF InTx, TxPcs, Begun, AllWritten, Appending
<1>2. \A p \in Pages : Last(p) = 0 /\ LastFrame(0, p) = 0 /\ Store[p] = <<0, 0>>
  <2>1. TAKE p \in Pages
  <2>2. Last(p) = 0
    <3>1. Last(p) \in 0..hdr.mxFrame
      BY <1>0, LastIs
    <3>. QED  BY <1>0, <3>1
  <2>. QED  BY <1>0, <2>2, StoreIs DEF Last
<1>3. ValueInv
  <2>1. <<0, 0>> \in Given
    BY <1>0 DEF Given, Vals
  <2>. QED  BY <1>1, <1>2, <2>1 DEF ValueInv
<1>4. TailInv
  BY <1>0, <1>1 DEF TailInv
<1>5. FrameInv
  <2>1. Len(NoFrame.sum) = 0
    BY DEF NoFrame
  <2>. QED  BY <1>0, <2>1 DEF FrameInv, FrameOk, OldFrame
<1>6. DiskInv
  BY <1>0 DEF DiskInv, DbSynced
<1>7. SaltInv
  BY <1>0, <1>1 DEF SaltInv, NoLog
<1>8. LogInv
  <2>s. Synced(0, 0)
    BY DEF Synced
  <2>m. NoMarks(0, 0)
    BY DEF NoMarks
  <2>w. Shows(0)
    BY <1>0, <1>2 DEF Shows
  <2>1. Synced(0, 0) /\ NoMarks(0, 0) /\ Shows(0)
    BY <2>s, <2>m, <2>w
  <2>2. Recovers(NoLog, 0)
    BY <1>0, <2>1 DEF Recovers, NoLog
  <2>. QED  BY <1>0, <1>1, <2>1, <2>2 DEF LogInv
<1>. QED  BY <1>3, <1>4, <1>5, <1>6, <1>7, <1>8 DEF CrashInv

(* The invariant of crashes: every state has a header of the log, frames   *)
(* and pages left by a loss of power that recover to the store.            *)
LEMMA CrashInvariant == Spec => [](WalInv /\ CrashInv)
<1>1. Init => WalInv /\ CrashInv
  BY InitInv, InitCrash
<1>2. WalInv /\ WalInv' /\ CrashInv /\ [Next]_vars => CrashInv'
  BY CrashInvStep
<1>. QED  BY <1>1, <1>2, Invariant, PTL DEF Spec

-----------------------------------------------------------------------------
(* The refinement: the pages a commit in progress makes, and what the      *)
(* readers see.                                                            *)
Made == IF w.isCommit
          THEN [p \in Pages |-> IF w.cache[p] = Torn THEN Store[p] ELSE w.cache[p]]
          ELSE Store
View(r) == [p \in Pages |-> ReadPage(r, p)]
Seen == [r \in Readers |-> IF rd[r].pc = "in" THEN View(r) ELSE NoSnapshot]

CommitsInTx == w.isCommit => InTx
SeenInv == \A r \in Readers : rd[r].pc = "in" => \A p \in Pages : ReadPage(r, p) \in Values

LEMMA GivenValues == TypeInv => Given \subseteq Values
<1>. SUFFICES ASSUME TypeInv, NEW v \in Given PROVE v \in Values
  OBVIOUS
<1>1. count.tx \in 0..MaxTx /\ MaxTx \in Nat
  BY Constants DEF TypeInv
<1>2. v = <<v[1], v[2]>> /\ v[1] \in 0..MaxTx /\ v[2] \in Nat
  BY <1>1 DEF Given, Vals
<1>. QED  BY <1>2 DEF Values

LEMMA GivenNext == TypeInv' => Given' \subseteq Values
<1>. SUFFICES ASSUME TypeInv', NEW v \in Given' PROVE v \in Values
  OBVIOUS
<1>1. count'.tx \in 0..MaxTx /\ MaxTx \in Nat
  BY Constants DEF TypeInv
<1>2. v = <<v[1], v[2]>> /\ v[1] \in 0..MaxTx /\ v[2] \in Nat
  BY <1>1 DEF Given, Vals
<1>. QED  BY <1>2 DEF Values

LEMMA CommitsStep ==
  ASSUME WalInv, WalInv', CommitsInTx, [Next]_vars
  PROVE  CommitsInTx'
<1>0. /\ TypeInv /\ LastWritten /\ PhaseInv /\ CheckpointInv
      /\ w'.pc = "idle" => ~w'.isCommit
      /\ InTx' <=> w'.pc \in TxPcs
  BY DEF WalInv, OwnInv, InTx
<1>1. CASE Reading \/ UNCHANGED vars
  BY <1>1, ReadsAre DEF CommitsInTx, InTx, vars
<1>2. CASE BeginTx \/ (\E p \in Pages : Spill(p)) \/ (\E ps \in SUBSET Pages : Commit(ps))
  <2>1. w'.pc \in {"tx", "restart", "loghdr"}
    BY <1>0, <1>2, BeginTxIs, WalFramesIs
  <2>. QED  BY <1>0, <2>1 DEF CommitsInTx, TxPcs
<1>3. CASE \/ RestartLog \/ ResetMarks \/ ReadAgain \/ WriteLogHeader \/ SyncLogHeader
           \/ WriteFrame \/ EndSpill \/ RewriteChecksums \/ SyncFrames
  <2>1. w'.pc \in TxPcs
    BY <1>0, <1>3, RestartIs, LogHeaderIs, SyncIs, WriteFrameIs, EndSpillIs, RewriteIs DEF TxPcs
  <2>. QED  BY <1>0, <2>1 DEF CommitsInTx
<1>4. CASE Rollback \/ WriteFails \/ Publish \/ CheckpointBusy \/ CheckpointOk
  BY <1>0, <1>4, EndIs DEF CommitsInTx
<1>5. CASE \/ BeginCheckpoint \/ ReadMark \/ RaiseMark \/ YieldToMark \/ SkipBackfill
           \/ StartBackfill \/ CopyPage \/ SyncDb \/ SetBackfill
  BY <1>0, <1>5, CkptStepIs DEF CommitsInTx, SameTx
<1>6. CASE Crash
  <2>1. w'.pc = "idle"
    BY <1>0, <1>6, CrashIs DEF IdleWriter
  <2>. QED  BY <1>0, <2>1 DEF CommitsInTx
<1>. QED  BY <1>1, <1>2, <1>3, <1>4, <1>5, <1>6 DEF Next, Transaction, RunCheckpoint, Reading

LEMMA SeenStep ==
  ASSUME WalInv, ValueInv, SeenInv, [Next]_vars
  PROVE  SeenInv'
<1>1. ASSUME NEW r \in Readers, rd'[r].pc = "in", NEW p \in Pages PROVE ReadPage(r, p)' \in Values
  <2>1. CASE rd[r].pc = "in"
    BY <1>1, <2>1, SnapshotStays DEF SeenInv
  <2>2. CASE rd[r].pc # "in"
    <3>1. ReadPage(r, p)' = Store[p]
      BY <1>1, <2>2, SnapshotTaken
    <3>2. Store[p] \in Values
      BY GivenValues DEF WalInv, ValueInv
    <3>. QED  BY <3>1, <3>2
  <2>. QED  BY <2>1, <2>2
<1>. QED  BY <1>1 DEF SeenInv

(* The steps that are of no reader leave what the readers see alone. *)
LEMMA OthersSee ==
  ASSUME WalInv, [Next]_vars, NEW r \in Readers, rd'[r] = rd[r]
  PROVE  Seen'[r] = Seen[r]
<1>1. CASE rd[r].pc = "in"
  <2>1. \A p \in Pages : ReadPage(r, p)' = ReadPage(r, p)
    BY <1>1, SnapshotStays
  <2>2. View(r)' = View(r)
    BY <2>1 DEF View
  <2>. QED  BY <2>2 DEF Seen
<1>2. CASE rd[r].pc # "in"
  BY <1>2 DEF Seen
<1>. QED  BY <1>1, <1>2

LEMMA SeenSame ==
  ASSUME WalInv, [Next]_vars, \A r \in Readers : rd'[r] = rd[r]
  PROVE  Seen' = Seen
<1>1. \A r \in Readers : Seen'[r] = Seen[r]
  BY OthersSee
<1>2. Seen = [r \in Readers |-> Seen[r]] /\ Seen' = [r \in Readers |-> Seen'[r]]
  BY DEF Seen
<1>. QED  BY <1>1, <1>2

LEMMA MadeIs ==
  ASSUME WalInv, ValueInv, CommitsInTx
  PROVE  Made \in [Pages -> Values] /\ Store \in [Pages -> Values]
<1>1. \A p \in Pages : Store[p] \in Values
  BY GivenValues DEF WalInv, ValueInv
<1>2. Store = [p \in Pages |-> Store[p]]
  BY DEF Store
<1>3. w.isCommit => \A p \in Pages : w.cache[p] # Torn => w.cache[p] \in Values
  BY GivenValues DEF WalInv, ValueInv, CommitsInTx, CacheOk
<1>. HIDE DEF Store
<1>. QED  BY <1>1, <1>2, <1>3 DEF Made

LEMMA MadeNext ==
  ASSUME WalInv', ValueInv', CommitsInTx'
  PROVE  (Made \in [Pages -> Values])'
<1>1. \A p \in Pages : Store'[p] \in Values
  BY GivenNext DEF WalInv, ValueInv
<1>2. Store' = [p \in Pages |-> Store'[p]]
  BY DEF Store
<1>3. w'.isCommit => \A p \in Pages : w'.cache[p] # Torn => w'.cache[p] \in Values
  BY GivenNext DEF WalInv, ValueInv, CommitsInTx, CacheOk
<1>. HIDE DEF Store
<1>. QED  BY <1>1, <1>2, <1>3 DEF Made

(* The abstract steps. *)
LEMMA IsStart ==
  ASSUME Made' \in [Pages -> Values], Store' = Store, Seen' = Seen
  PROVE  Snapshots!Next
BY DEF Snapshots!Next, Snapshots!StartCommit, Made, Seen, View

LEMMA IsCommit ==
  ASSUME Store' = Made, Made' = Made, Seen' = Seen
  PROVE  Snapshots!Next
BY DEF Snapshots!Next, Snapshots!Commit, Made, Seen, View

LEMMA IsCrash ==
  ASSUME Store' \in {Store, Made}, Made' = Store', Seen' = [r \in Readers |-> NoSnapshot]
  PROVE  Snapshots!Next
BY DEF Snapshots!Next, Snapshots!Crash, Made, Seen, View

LEMMA IsBegin ==
  ASSUME NEW r \in Readers, Seen[r] = NoSnapshot, Seen' = [Seen EXCEPT ![r] = Store],
         Store' = Store, Made' = Made
  PROVE  Snapshots!Next
<1>1. Snapshots!Begin(r)
  BY DEF Snapshots!Begin, Made, Seen, View
<1>. QED  BY <1>1 DEF Snapshots!Next

LEMMA IsEnd ==
  ASSUME NEW r \in Readers, Seen[r] # NoSnapshot, Seen' = [Seen EXCEPT ![r] = NoSnapshot],
         Store' = Store, Made' = Made
  PROVE  Snapshots!Next
<1>1. Snapshots!End(r)
  BY DEF Snapshots!End, Made, Seen, View
<1>. QED  BY <1>1 DEF Snapshots!Next

LEMMA IsStutter ==
  ASSUME Store' = Store, Made' = Made, Seen' = Seen
  PROVE  UNCHANGED Snapshots!vars
BY DEF Snapshots!vars, Made, Seen, View

(* A step of a reader. *)
LEMMA ReaderStep ==
  ASSUME WalInv, WalInv', SeenInv, [Next]_vars, NEW r \in Readers, BeginRead(r) \/ EndRead(r)
  PROVE  [Snapshots!Next]_(Snapshots!vars)
<1>0. /\ TypeInv /\ r \in Conns /\ r # Writer /\ 1 \in Pages
      /\ ~Crash /\ ~Publish /\ UNCHANGED <<file, w>>
      /\ \A q \in Readers \ {r} : rd'[q] = rd[q]
  <2>1. TypeInv /\ r \in Conns /\ r # Writer /\ 1 \in Pages /\ rd \in [Conns -> Reads]
    BY Types, Constants DEF WalInv
  <2>2. UNCHANGED <<hdr, file, w, count>> /\ \A q \in Readers \ {r} : rd'[q] = rd[q]
    <3>1. CASE BeginRead(r)
      BY <2>1, <3>1, BeginReadIs, Constants
    <3>2. CASE EndRead(r)
      BY <2>1, <3>2, Constants DEF EndRead, shm
    <3>. QED  BY <3>1, <3>2
  <2>3. ~Publish
    <3>1. Publish => w.pc = "publish" /\ w'.pc = "idle"
      BY <2>1, EndIs
    <3>. QED  BY <2>2, <3>1
  <2>4. ~Crash
    <3>1. Crash => count'.crash = count.crash + 1
      BY <2>1, Types DEF Crash, Restart
    <3>2. count.crash \in Nat
      BY <2>1, Types
    <3>. QED  BY <2>2, <3>1, <3>2
  <2>. QED  BY <2>1, <2>2, <2>3, <2>4
<1>1. Store' = Store
  BY <1>0, StoreKept
<1>2. Made' = Made
  BY <1>0, <1>1 DEF Made
<1>3. \A q \in Readers \ {r} : Seen'[q] = Seen[q]
  BY <1>0, OthersSee
<1>4. /\ Seen = [q \in Readers |-> Seen[q]] /\ Seen' = [q \in Readers |-> Seen'[q]]
      /\ Seen[r] = IF rd[r].pc = "in" THEN View(r) ELSE NoSnapshot
      /\ Seen'[r] = IF rd'[r].pc = "in" THEN View(r)' ELSE NoSnapshot
  BY DEF Seen
<1>5. CASE rd[r].pc = "in" /\ rd'[r].pc = "in"
  <2>1. Seen'[r] = Seen[r]
    BY <1>5, ReaderStays, OthersSee
  <2>2. Seen' = Seen
    BY <1>3, <1>4, <2>1
  <2>. QED  BY <1>1, <1>2, <2>2, IsStutter
<1>6. CASE rd[r].pc # "in" /\ rd'[r].pc # "in"
  <2>1. Seen' = Seen
    BY <1>3, <1>4, <1>6
  <2>. QED  BY <1>1, <1>2, <2>1, IsStutter
<1>7. CASE rd[r].pc # "in" /\ rd'[r].pc = "in"
  <2>1. \A p \in Pages : ReadPage(r, p)' = Store[p]
    BY <1>7, SnapshotTaken
  <2>2. View(r)' = Store
    BY <2>1 DEF View, Store
  <2>3. Seen[r] = NoSnapshot /\ Seen' = [Seen EXCEPT ![r] = Store]
    BY <1>3, <1>4, <1>7, <2>2
  <2>. QED  BY <1>1, <1>2, <2>3, IsBegin
<1>8. CASE rd[r].pc = "in" /\ rd'[r].pc # "in"
  <2>1. View(r)[1] \in Values
    BY <1>0, <1>8 DEF SeenInv, View
  <2>2. NoSnapshot[1] \notin Values
    <3>1. NoSnapshot[1] = <<-2, -2>>
      BY <1>0 DEF NoSnapshot
    <3>2. <<-2, -2>> \notin Values
      BY Constants DEF Values
    <3>. QED  BY <3>1, <3>2
  <2>3. Seen[r] # NoSnapshot /\ Seen' = [Seen EXCEPT ![r] = NoSnapshot]
    BY <1>3, <1>4, <1>8, <2>1, <2>2
  <2>. QED  BY <1>1, <1>2, <2>3, IsEnd
<1>. QED  BY <1>5, <1>6, <1>7, <1>8

(* No other step but a crash changes what a connection of a reader holds.  *)
LEMMA ReadersRest ==
  ASSUME WalInv, [Next]_vars, ~Crash, \A r \in Readers : ~BeginRead(r) /\ ~EndRead(r)
  PROVE  \A r \in Readers : rd'[r] = rd[r]
<1>0. /\ TypeInv /\ rd \in [Conns -> Reads] /\ Writer \notin Readers /\ Writer \in Conns
      /\ \A r \in Readers : r \in Conns
  BY Types, Constants DEF WalInv
<1>1. CASE \E c \in Conns : BeginRead(c)
  <2>1. BeginRead(Writer)
    BY <1>1 DEF Conns
  <2>. QED  BY <1>0, <2>1, BeginReadIs
<1>2. CASE EndTx
  BY <1>2, <1>0, EndTxIs
<1>3. CASE \/ UNCHANGED vars \/ BeginTx \/ (\E p \in Pages : Spill(p))
           \/ (\E ps \in SUBSET Pages : Commit(ps)) \/ RestartLog \/ ResetMarks \/ ReadAgain
           \/ WriteLogHeader \/ SyncLogHeader \/ WriteFrame \/ EndSpill \/ RewriteChecksums
           \/ SyncFrames
  BY <1>0, <1>3 DEF vars, BeginTx, Spill, Commit, WalFrames, RestartLog, ResetMarks, ReadAgain,
     WriteLogHeader, SyncLogHeader, WriteFrame, EndSpill, RewriteChecksums, SyncFrames
<1>4. CASE \/ BeginCheckpoint \/ ReadMark \/ RaiseMark \/ YieldToMark \/ SkipBackfill
           \/ StartBackfill \/ CopyPage \/ SyncDb \/ SetBackfill
  BY <1>0, <1>4 DEF BeginCheckpoint, ReadMark, RaiseMark, YieldToMark, SkipBackfill,
     StartBackfill, CopyPage, SyncDb, SetBackfill
<1>5. CASE Rollback \/ WriteFails \/ Publish \/ CheckpointBusy \/ CheckpointOk
  BY <1>2, <1>5 DEF Rollback, WriteFails, Publish, CheckpointBusy, CheckpointOk, EndCheckpoint
<1>. QED  BY <1>1, <1>3, <1>4, <1>5 DEF Next, Transaction, RunCheckpoint

LEMMA SnapshotStep ==
  ASSUME WalInv, WalInv', CrashInv, CrashInv', CommitsInTx, CommitsInTx', SeenInv, [Next]_vars
  PROVE  [Snapshots!Next]_(Snapshots!vars)
<1>0. TypeInv /\ LastWritten /\ ValueInv /\ ValueInv' /\ TailInv
  BY DEF WalInv, CrashInv
<1>1. CASE \E r \in Readers : BeginRead(r) \/ EndRead(r)
  BY <1>1, ReaderStep
<1>2. CASE Crash
  <2>1. w' = [IdleWriter EXCEPT !.nCkpt = file'.log.nCkpt] /\ rd' = [c \in Conns |-> NoRead]
    BY <1>0, <1>2, CrashIs
  <2>2. Made' = Store'
    BY <2>1 DEF Made, IdleWriter
  <2>3. Seen' = [r \in Readers |-> NoSnapshot]
    <3>1. \A r \in Readers : rd'[r].pc # "in"
      BY <2>1, Constants DEF NoRead
    <3>. QED  BY <3>1 DEF Seen
  <2>4. Store = [p \in Pages |-> Store[p]] /\ Store' = [p \in Pages |-> Store'[p]]
    BY DEF Store
  <2>5. CASE \A p \in Pages : Store'[p] = Store[p]
    <3>1. Store' = Store
      BY <2>4, <2>5
    <3>. QED  BY <2>2, <2>3, <3>1, IsCrash
  <2>6. CASE /\ AllWritten
             /\ \A p \in Pages : Store'[p] = IF w.cache[p] = Torn THEN Store[p] ELSE w.cache[p]
    <3>1. Store' = Made
      BY <2>4, <2>6 DEF Made, AllWritten
    <3>. QED  BY <2>2, <2>3, <3>1, IsCrash
  <2>. QED  BY <1>2, <2>5, <2>6, CrashStore
<1>3. CASE ~Crash /\ \A r \in Readers : ~BeginRead(r) /\ ~EndRead(r)
  <2>1. Seen' = Seen
    BY <1>3, ReadersRest, SeenSame
  <2>2. CASE Publish
    <3>1. w.pc = "publish" /\ w'.pc = "idle"
      BY <1>0, <2>2, EndIs
    <3>2. AllWritten
      BY <1>0, <3>1 DEF TailInv
    <3>3. ~w'.isCommit
      BY <3>1 DEF WalInv, OwnInv
    <3>4. \A p \in Pages : Store'[p] = IF w.cache[p] = Torn THEN Store[p] ELSE w.cache[p]
      BY <1>0, <2>2, PublishIs
    <3>5. Store' = [p \in Pages |-> Store'[p]]
      BY DEF Store
    <3>6. Store' = Made
      BY <3>2, <3>4, <3>5 DEF Made, AllWritten
    <3>7. Made' = Made
      BY <3>3, <3>6 DEF Made
    <3>. QED  BY <2>1, <3>6, <3>7, IsCommit
  <2>3. CASE ~Publish
    <3>1. Store' = Store
      BY <1>3, <2>3, StoreKept
    <3>2. Made' \in [Pages -> Values]
      <4>1. (Made \in [Pages -> Values])'
        BY <1>0, MadeNext
      <4>. QED  BY <4>1
    <3>. QED  BY <2>1, <3>1, <3>2, IsStart
  <2>. QED  BY <2>2, <2>3
<1>. QED  BY <1>1, <1>2, <1>3

LEMMA RefinementInvariant == Spec => [](CommitsInTx /\ SeenInv)
<1>1. Init => CommitsInTx /\ SeenInv
  BY Constants DEF Init, CommitsInTx, SeenInv, IdleWriter, NoRead
<1>2. /\ WalInv /\ WalInv' /\ CrashInv /\ CommitsInTx /\ SeenInv /\ [Next]_vars
      => (CommitsInTx /\ SeenInv)'
  BY CommitsStep, SeenStep DEF CrashInv
<1>. QED  BY <1>1, <1>2, Invariant, CrashInvariant, PTL DEF Spec

(* The write-ahead log implements the snapshot store: a commit is one step *)
(* for every reader, a reader keeps what it saw when it began, and a crash *)
(* or a loss of power at any moment, with whatever part of the writes      *)
(* since the last sync on the disk, torn or not, leaves the last commit,   *)
(* or the one in progress as a whole.                                      *)
THEOREM SnapshotsSurvive == Spec => ImplementsSnapshots
<1>1. Init => Snapshots!Init
  <2>. SUFFICES ASSUME Init PROVE Snapshots!Init
    OBVIOUS
  <2>1. WalInv
    BY InitInv
  <2>2. CrashInv /\ ~w.isCommit
    BY <2>1, InitCrash DEF Init, IdleWriter
  <2>3. Made = Store /\ Store \in [Pages -> Values]
    <3>1. CommitsInTx /\ ValueInv
      BY <2>2 DEF CommitsInTx, CrashInv
    <3>. QED  BY <2>1, <2>2, <3>1, MadeIs DEF Made
  <2>4. Seen = [r \in Readers |-> NoSnapshot]
    BY Constants DEF Init, Seen, NoRead
  <2>. QED  BY <2>3, <2>4 DEF Snapshots!Init, Made, Seen, View
<1>2. /\ WalInv /\ WalInv' /\ CrashInv /\ CrashInv' /\ CommitsInTx /\ CommitsInTx' /\ SeenInv
      /\ [Next]_vars
      => [Snapshots!Next]_(Snapshots!vars)
  BY SnapshotStep
<1>. QED  BY <1>1, <1>2, Invariant, CrashInvariant, RefinementInvariant, PTL
     DEF Spec, ImplementsSnapshots, Snapshots!Spec
=============================================================================
