----------------------------- MODULE SqliteWal -----------------------------
(***************************************************************************)
(* The write-ahead log of SQLite (sqlite3.c, "wal.c") as the connections   *)
(* of image_db.c use it: readers that fetch tiles, and the one connection  *)
(* of the write thread, which commits batches and, automatic checkpoints   *)
(* being off, runs the RESTART checkpoint itself.                          *)
(*                                                                         *)
(* A step is one access to what connections share: the wal-index header,   *)
(* the checkpoint information, a lock, the two files.  The header is read  *)
(* and written in one step, for a torn copy is told by its twin and its    *)
(* checksum and read again.  The hash tables of the wal-index are left to  *)
(* the page numbers in the frames: entries above a connection's mxFrame    *)
(* are never used.  Checksums are ideal: the sum of a frame is the list of *)
(* all bodies up to it.  The salt of a log is a number never used before.  *)
(*                                                                         *)
(* A write is in the file at once and on the disk some time before the     *)
(* next sync: loose[x] holds what a loss of power may leave at x.  A frame *)
(* or page half written is Torn.  Synchronous is FULL, the default, and    *)
(* the log header is one sector.                                           *)
(***************************************************************************)
EXTENDS Integers, FiniteSets, Sequences, FiniteSetsExt

CONSTANTS
  Readers,      (* the connections of HTTP threads and workers *)
  Writer,       (* the connection of the write queue *)
  NPage,        (* pages of the database *)
  NReader,      (* read marks 1..NReader: WAL_NREADER - 1 *)
  MaxFrame,     (* room on the disk, in frames of the log *)
  MaxTx,        (* bound: transactions *)
  MaxVersion,   (* bound: how often each transaction changes a page *)
  MaxCheckpoints,  (* bound: checkpoints *)
  MaxCrashes    (* bound: crashes *)

ASSUME WalAssumption ==
  /\ Writer \notin Readers
  /\ {NPage, NReader, MaxFrame} \subseteq Nat \ {0}
  /\ {MaxTx, MaxCheckpoints, MaxCrashes} \subseteq Nat
  /\ MaxVersion \in [1..MaxTx -> Nat \ {0}]

Conns == Readers \cup {Writer}
Pages == 1..NPage
Slots == 1..NReader
NotUsed == MaxFrame + 1

Values == (0..MaxTx) \X Nat    (* who wrote a page, and in which of its changes *)
Torn   == <<-1, -1>>

VARIABLES
  hdr,        (* the wal-index header: mxFrame, salt, iChange *)
  nBackfill,  (* frames that are in the database file already *)
  aReadMark,  (* the read marks 1..NReader; mark 0 is always 0 *)
  file,       (* contents of both files: log header, frames, pages *)
  loose,      (* what each part of them may be after a loss of power *)
  rd,         (* per connection: the read transaction *)
  w,          (* the writer: its place, its transaction, its checkpoint *)
  excl,       (* read locks the writer holds exclusively *)
  count       (* salts, transactions, checkpoints and crashes so far *)

vars == <<hdr, nBackfill, aReadMark, file, loose, rd, w, excl, count>>
shm  == <<hdr, nBackfill, aReadMark>>

NoFrame == [page |-> 0, val |-> Torn, commit |-> FALSE, salt |-> 0, sum |-> <<>>]
NoLog   == [salt |-> 0, nCkpt |-> 0]
NoLock  == -1

NoRead == [pc |-> "out", hdr |-> [mxFrame |-> 0, salt |-> 0, iChange |-> 0],
           readLock |-> NoLock, mxI |-> 0, mark |-> 0, minFrame |-> 1, useWal |-> FALSE]
IdleWriter ==
  [pc |-> "idle",
   cache |-> [p \in Pages |-> Torn],                     (* the pager *)
   list |-> {}, isCommit |-> FALSE, iFrame |-> 0,      (* sqlite3WalFrames *)
   iFirst |-> 0, iReCksum |-> 0,
   i |-> 0, y |-> 0, mxSafeFrame |-> 0, xBusy |-> FALSE, (* walCheckpoint *)
   todo |-> {}, nCkpt |-> 0]

Init ==
  /\ hdr = NoRead.hdr
  /\ nBackfill = 0
  /\ aReadMark = [i \in Slots |-> NotUsed]
  /\ file = [log |-> NoLog, wal |-> [i \in 1..MaxFrame |-> NoFrame],
             db |-> [p \in Pages |-> <<0, 0>>]]
  /\ loose = [log |-> {NoLog}, wal |-> [i \in 1..MaxFrame |-> {NoFrame}],
              db |-> [p \in Pages |-> {<<0, 0>>}]]
  /\ rd = [c \in Conns |-> NoRead]
  /\ w = IdleWriter
  /\ excl = {}
  /\ count = [salt |-> 0, tx |-> 0, checkpoint |-> 0, crash |-> 0]

-----------------------------------------------------------------------------
(* Locks.  A shared lock is refused while the writer holds the slot, an    *)
(* exclusive one while any connection does.                                *)
Shared(i)   == {c \in Conns : rd[c].readLock = i}

(* Mutant: shared locks are always granted. *)
CanShare_Always(i) == TRUE

CanShare(i) == i \notin excl
CanExclude(i) == i \notin excl /\ Shared(i) = {}

(* sqlite3WalFindFrame: the newest frame of page p the connection may see. *)
FindFrame(c, p) ==
  IF rd[c].readLock = 0 THEN 0
  ELSE Max({0} \cup {f \in rd[c].minFrame..rd[c].hdr.mxFrame : file.wal[f].page = p})

ReadPage(c, p) ==
  LET f == FindFrame(c, p) IN IF f = 0 THEN file.db[p] ELSE file.wal[f].val

(* What the files hold for the header h: the database a new reader sees.   *)
LastFrame(mxFrame, p) == Max({0} \cup {f \in 1..mxFrame : file.wal[f].page = p})
Store == [p \in Pages |-> LET f == LastFrame(hdr.mxFrame, p) IN
                          IF f = 0 THEN file.db[p] ELSE file.wal[f].val]

-----------------------------------------------------------------------------
(* walTryBeginRead, for a reader and for the writer, which enters it twice:*)
(* at the start of its transaction and, with useWal, when it has restarted *)
(* or failed to restart the log.  WAL_RETRY leads back to the start.       *)
Goto(c, pc) == rd' = [rd EXCEPT ![c].pc = pc]
Retry(c) ==
  rd' = [rd EXCEPT ![c] = IF @.useWal THEN [@ EXCEPT !.pc = "pick", !.readLock = NoLock]
                                      ELSE NoRead]

(* walIndexReadHdr, then the test whether the log can be ignored. *)
ReadHdr(c) ==
  /\ rd[c].pc = "out"
  /\ c = Writer => w.pc = "tx"
  /\ rd' = [rd EXCEPT ![c].hdr = hdr, ![c].pc = "hdr"]
  /\ UNCHANGED <<shm, file, loose, w, excl, count>>

ChooseLog(c) ==
  /\ rd[c].pc = "hdr"
  /\ Goto(c, IF nBackfill = rd[c].hdr.mxFrame THEN "zero" ELSE "pick")
  /\ UNCHANGED <<shm, file, loose, w, excl, count>>

(* Mutant: with lock 0 in hand the header is not compared again. *)
LockZero_NoCompare(c) ==
  /\ rd[c].pc = "zero"
  /\ IF CanShare(0) THEN rd' = [rd EXCEPT ![c].readLock = 0, ![c].pc = "in"]
                    ELSE Goto(c, "pick")
  /\ UNCHANGED <<shm, file, loose, w, excl, count>>

LockZero(c) ==
  /\ rd[c].pc = "zero"
  /\ IF ~CanShare(0) THEN Goto(c, "pick")
     ELSE IF hdr = rd[c].hdr THEN rd' = [rd EXCEPT ![c].readLock = 0, ![c].pc = "in"]
     ELSE Retry(c)
  /\ UNCHANGED <<shm, file, loose, w, excl, count>>

(* The largest mark not above mxFrame; the last of equals.  A smaller one  *)
(* is raised when the lock of some slot can be had.                        *)
BestSlot(mxFrame) ==
  LET fit == {i \in Slots : aReadMark[i] <= mxFrame} IN
  IF fit = {} THEN 0
  ELSE CHOOSE i \in fit : \A j \in fit :
         aReadMark[j] < aReadMark[i] \/ (aReadMark[j] = aReadMark[i] /\ j <= i)

PickMark(c) ==
  LET mxFrame == rd[c].hdr.mxFrame
      best == BestSlot(mxFrame)
      free == {i \in Slots : CanExclude(i)}
      raise == best = 0 \/ aReadMark[best] < mxFrame
      i == IF raise /\ free # {} THEN Min(free) ELSE best IN
  /\ rd[c].pc = "pick"
  /\ aReadMark' = IF raise /\ free # {} THEN [aReadMark EXCEPT ![i] = mxFrame] ELSE aReadMark
  /\ IF i = 0 THEN Retry(c)
     ELSE rd' = [rd EXCEPT ![c].mxI = i, ![c].mark = aReadMark'[i], ![c].pc = "lock"]
  /\ UNCHANGED <<hdr, nBackfill, file, loose, w, excl, count>>

LockMark(c) ==
  /\ rd[c].pc = "lock"
  /\ IF CanShare(rd[c].mxI)
       THEN rd' = [rd EXCEPT ![c].readLock = rd[c].mxI, ![c].minFrame = nBackfill + 1,
                             ![c].pc = "check"]
       ELSE Retry(c)
  /\ UNCHANGED <<shm, file, loose, w, excl, count>>

(* Mutant: the header is not compared again. *)
CheckMark_NoHeader(c) ==
  /\ rd[c].pc = "check"
  /\ IF aReadMark[rd[c].mxI] = rd[c].mark
       THEN rd' = [rd EXCEPT ![c].pc = "in", ![c].mxI = 0, ![c].mark = 0] ELSE Retry(c)
  /\ UNCHANGED <<shm, file, loose, w, excl, count>>

CheckMark(c) ==
  /\ rd[c].pc = "check"
  /\ IF aReadMark[rd[c].mxI] = rd[c].mark /\ hdr = rd[c].hdr
       THEN rd' = [rd EXCEPT ![c].pc = "in", ![c].mxI = 0, ![c].mark = 0] ELSE Retry(c)
  /\ UNCHANGED <<shm, file, loose, w, excl, count>>

BeginRead(c) == \/ ReadHdr(c) \/ ChooseLog(c) \/ LockZero(c)
                \/ PickMark(c) \/ LockMark(c) \/ CheckMark(c)

(* image_db_exists runs its statement to the end; image_db_fetch leaves    *)
(* its own open after a row, and with it the read transaction, until the   *)
(* thread's next request: nothing makes a reader take this step.           *)
EndRead(c) ==
  /\ rd[c].pc = "in"
  /\ rd' = [rd EXCEPT ![c] = NoRead]
  /\ UNCHANGED <<shm, file, loose, w, excl, count>>

-----------------------------------------------------------------------------
(* The writer's transaction.  The pager calls sqlite3WalFrames for every   *)
(* page it spills, when the batch outgrows its cache, and once to commit.  *)
(* There is one writer, so sqlite3WalBeginWriteTransaction finds the write *)
(* lock free and the header as its read transaction found it.              *)
mine == rd[Writer]
At(pc) == w.pc = pc

BeginTx ==
  /\ At("idle") /\ count.tx < MaxTx
  /\ w' = [w EXCEPT !.pc = "tx"]
  /\ count' = [count EXCEPT !.tx = @ + 1]
  /\ UNCHANGED <<shm, file, loose, rd, excl>>

(* The head of sqlite3WalFrames, for pages changed since they were written *)
(* last: frames after iFirst are this transaction's.                       *)
WalFrames(list, isCommit, cache) ==
  /\ At("tx") /\ mine.pc = "in"
  /\ w' = [w EXCEPT !.list = list, !.isCommit = isCommit, !.cache = cache,
                    !.iFirst = IF mine.hdr = hdr THEN 0 ELSE hdr.mxFrame + 1,
                    !.pc = IF mine.readLock = 0 THEN "restart" ELSE "loghdr"]
  /\ UNCHANGED <<shm, file, loose, rd, excl, count>>

Changed(ps) ==
  [p \in Pages |-> IF p \notin ps THEN w.cache[p]
     ELSE <<count.tx, IF w.cache[p] = Torn THEN 1 ELSE w.cache[p][2] + 1>>]
CanChange(p) == w.cache[p] # Torn => w.cache[p][2] < MaxVersion[count.tx]

Spill(p) == CanChange(p) /\ WalFrames({p}, FALSE, Changed({p}))

(* With every changed page spilled, page 1 is written to carry the mark.   *)
Commit(ps) ==
  /\ \A p \in ps : CanChange(p)
  /\ IF ps # {} THEN WalFrames(ps, TRUE, Changed(ps))
     ELSE /\ \E p \in Pages : w.cache[p] # Torn
          /\ WalFrames({1}, TRUE, [w.cache EXCEPT ![1] = IF @ = Torn THEN ReadPage(Writer, 1) ELSE @])

EndTx == /\ rd' = [rd EXCEPT ![Writer] = NoRead]
         /\ w' = [IdleWriter EXCEPT !.nCkpt = w.nCkpt]

(* sqlite3WalUndo: the live header is the one before the transaction. *)
Rollback ==
  /\ At("tx") /\ mine.pc = "in"
  /\ EndTx
  /\ UNCHANGED <<shm, file, loose, excl, count>>

-----------------------------------------------------------------------------
(* Mutant: the log is restarted without looking at its readers. *)
RestartLog_NoLock ==
  /\ At("restart")
  /\ IF nBackfill > 0
       THEN /\ hdr' = [mine.hdr EXCEPT !.mxFrame = 0, !.salt = count.salt + 1]
            /\ rd' = [rd EXCEPT ![Writer].hdr = hdr']
            /\ w' = [w EXCEPT !.pc = "reset", !.nCkpt = @ + 1]
            /\ count' = [count EXCEPT !.salt = @ + 1]
       ELSE w' = [w EXCEPT !.pc = "reread"] /\ UNCHANGED <<hdr, rd, count>>
  /\ UNCHANGED <<nBackfill, aReadMark, file, loose, excl>>

(* walRestartLog, for a writer whose transaction reads the database alone: *)
(* publish an empty log, then reset the marks, all of them locked; and     *)
(* take a read lock of the log, restarted or not.                          *)
RestartLog ==
  /\ At("restart")
  /\ IF nBackfill > 0 /\ \A i \in Slots : CanExclude(i)
       THEN /\ excl' = Slots
            /\ hdr' = [mine.hdr EXCEPT !.mxFrame = 0, !.salt = count.salt + 1]
            /\ rd' = [rd EXCEPT ![Writer].hdr = hdr']
            /\ w' = [w EXCEPT !.pc = "reset", !.nCkpt = @ + 1]
            /\ count' = [count EXCEPT !.salt = @ + 1]
       ELSE w' = [w EXCEPT !.pc = "reread"] /\ UNCHANGED <<excl, hdr, rd, count>>
  /\ UNCHANGED <<nBackfill, aReadMark, file, loose>>

ResetMarks ==
  /\ At("reset")
  /\ nBackfill' = 0
  /\ aReadMark' = [i \in Slots |-> IF i = 1 THEN 0 ELSE NotUsed]
  /\ excl' = {}
  /\ w' = [w EXCEPT !.pc = "reread"]
  /\ UNCHANGED <<hdr, file, loose, rd, count>>

(* Mutant: the writer keeps lock 0 and goes on ignoring the log. *)
ReadAgain_KeepZero ==
  /\ At("reread")
  /\ w' = [w EXCEPT !.pc = "loghdr"]
  /\ UNCHANGED <<shm, file, loose, rd, excl, count>>

ReadAgain ==
  /\ At("reread")
  /\ rd' = [rd EXCEPT ![Writer].readLock = NoLock, ![Writer].useWal = TRUE, ![Writer].pc = "pick"]
  /\ w' = [w EXCEPT !.pc = "loghdr"]
  /\ UNCHANGED <<shm, file, loose, excl, count>>

-----------------------------------------------------------------------------
(* The body of sqlite3WalFrames. *)
SyncedLog == [loose EXCEPT !.log = {file.log}, !.wal = [i \in 1..MaxFrame |-> {file.wal[i]}]]

(* The first frame of a log goes behind a new header, synced before it.    *)
WriteLogHeader ==
  LET salt == IF w.nCkpt = 0 THEN count.salt + 1 ELSE mine.hdr.salt
      log  == [salt |-> salt, nCkpt |-> w.nCkpt] IN
  /\ At("loghdr") /\ mine.pc = "in"
  /\ IF mine.hdr.mxFrame = 0
       THEN /\ file' = [file EXCEPT !.log = log]
            /\ loose' = [loose EXCEPT !.log = @ \cup {log}]
            /\ rd' = [rd EXCEPT ![Writer].hdr.salt = salt]
            /\ count' = [count EXCEPT !.salt = IF salt > @ THEN salt ELSE @]
            /\ w' = [w EXCEPT !.pc = "synclog", !.iFrame = 0]
       ELSE /\ w' = [w EXCEPT !.pc = "frames", !.iFrame = mine.hdr.mxFrame]
            /\ UNCHANGED <<file, loose, rd, count>>
  /\ UNCHANGED <<shm, excl>>

SyncLogHeader ==
  /\ At("synclog")
  /\ loose' = SyncedLog
  /\ w' = [w EXCEPT !.pc = "frames"]
  /\ UNCHANGED <<shm, file, rd, excl, count>>

Body(f) == <<f.page, f.val, f.commit>>
SumOf(i) == IF i = 0 THEN <<>> ELSE file.wal[i].sum
WriteWal(i, f) == /\ file' = [file EXCEPT !.wal[i] = f]
                  /\ loose' = [loose EXCEPT !.wal[i] = @ \cup {f}]

(* A page this transaction has in the log already is overwritten there,    *)
(* unless it is to carry the commit mark; the sums from it on are then     *)
(* wrong, and new frames get none, until the commit computes them again.   *)
NextPage == Min(w.list)
IsLast   == w.list = {NextPage}

Overwritten ==
  LET f == FindFrame(Writer, NextPage) IN
  IF w.iFirst # 0 /\ ~(IsLast /\ w.isCommit) /\ f >= w.iFirst THEN f ELSE 0

WriteFrame ==
  LET p == NextPage
      f == Overwritten
      i == w.iFrame + 1
      body == <<p, w.cache[p], w.isCommit /\ IsLast>>
      late == w.iReCksum # 0
      new == [page |-> p, val |-> w.cache[p], commit |-> w.isCommit /\ IsLast,
              salt |-> IF late THEN 0 ELSE mine.hdr.salt,
              sum |-> IF late THEN <<>> ELSE Append(SumOf(w.iFrame), body)] IN
  /\ At("frames") /\ w.list # {}
  /\ IF f # 0
       THEN /\ WriteWal(f, [file.wal[f] EXCEPT !.val = w.cache[p]])
            /\ w' = [w EXCEPT !.list = @ \ {p},
                              !.iReCksum = IF @ = 0 \/ f < @ THEN f ELSE @]
       ELSE /\ w.iFrame < MaxFrame
            /\ WriteWal(i, new)
            /\ w' = [w EXCEPT !.list = @ \ {p}, !.iFrame = i]
  /\ UNCHANGED <<shm, rd, excl, count>>

(* The disk is full: the statement fails and its transaction with it.      *)
WriteFails ==
  /\ At("frames") /\ w.list # {} /\ Overwritten = 0 /\ w.iFrame = MaxFrame
  /\ EndTx
  /\ UNCHANGED <<shm, file, loose, excl, count>>

(* Frames of a spill enter the private header only. *)
EndSpill ==
  /\ At("frames") /\ w.list = {} /\ ~w.isCommit
  /\ rd' = [rd EXCEPT ![Writer].hdr.mxFrame = w.iFrame]
  /\ w' = [w EXCEPT !.pc = "tx", !.iFrame = 0, !.iFirst = 0]
  /\ UNCHANGED <<shm, file, loose, excl, count>>

(* walRewriteChecksums. *)
RewriteChecksums ==
  LET body(k) == Body(file.wal[k])
      sum(k) == SumOf(w.iReCksum - 1) \o [j \in 1..(k - w.iReCksum + 1) |-> body(w.iReCksum + j - 1)]
      new == [k \in 1..MaxFrame |-> IF k \in w.iReCksum..w.iFrame
                THEN [file.wal[k] EXCEPT !.salt = mine.hdr.salt, !.sum = sum(k)] ELSE file.wal[k]] IN
  /\ At("frames") /\ w.list = {} /\ w.isCommit /\ w.iReCksum # 0
  /\ file' = [file EXCEPT !.wal = new]
  /\ loose' = [loose EXCEPT !.wal = [k \in 1..MaxFrame |-> @[k] \cup {new[k]}]]
  /\ w' = [w EXCEPT !.iReCksum = 0]
  /\ UNCHANGED <<shm, rd, excl, count>>

SyncFrames ==
  /\ At("frames") /\ w.list = {} /\ w.isCommit /\ w.iReCksum = 0
  /\ loose' = SyncedLog
  /\ w' = [w EXCEPT !.pc = "publish"]
  /\ UNCHANGED <<shm, file, rd, excl, count>>

(* walIndexAppend and walIndexWriteHdr: the commit; then the locks go. *)
Publish ==
  /\ At("publish")
  /\ hdr' = [mine.hdr EXCEPT !.mxFrame = w.iFrame, !.iChange = @ + 1]
  /\ EndTx
  /\ UNCHANGED <<nBackfill, aReadMark, file, loose, excl, count>>

-----------------------------------------------------------------------------
(* sqlite3WalCheckpoint in mode RESTART, by the writer between batches.    *)
(* The busy handler makes it try a lock again until two seconds are over;  *)
(* from then on, xBusy is false, a lock that cannot be had is given up.    *)
BeginCheckpoint ==
  /\ At("idle") /\ count.checkpoint < MaxCheckpoints
  /\ rd' = [rd EXCEPT ![Writer].hdr = hdr]
  /\ w' = [w EXCEPT !.i = 1, !.mxSafeFrame = hdr.mxFrame, !.xBusy = TRUE,
                    !.pc = IF nBackfill < hdr.mxFrame THEN "marks" ELSE "wait"]
  /\ count' = [count EXCEPT !.checkpoint = @ + 1]
  /\ UNCHANGED <<shm, file, loose, excl>>

(* Frames above the mark of a reader must stay out of the database file.   *)
ReadMark ==
  /\ At("marks") /\ w.i \in Slots
  /\ IF w.mxSafeFrame > aReadMark[w.i]
       THEN w' = [w EXCEPT !.y = aReadMark[w.i], !.pc = "slot"]
       ELSE w' = [w EXCEPT !.i = @ + 1]
  /\ UNCHANGED <<shm, file, loose, rd, excl, count>>

RaiseMark ==
  /\ At("slot") /\ CanExclude(w.i)
  /\ aReadMark' = [aReadMark EXCEPT ![w.i] = IF w.i = 1 THEN w.mxSafeFrame ELSE NotUsed]
  /\ w' = [w EXCEPT !.i = @ + 1, !.pc = "marks"]
  /\ UNCHANGED <<hdr, nBackfill, file, loose, rd, excl, count>>

(* Mutant: a reader that does not let go does not hold the backfill back. *)
YieldToMark_Ignored ==
  /\ At("slot") /\ ~CanExclude(w.i)
  /\ w' = [w EXCEPT !.xBusy = FALSE, !.i = @ + 1, !.pc = "marks"]
  /\ UNCHANGED <<shm, file, loose, rd, excl, count>>

YieldToMark ==
  /\ At("slot") /\ ~CanExclude(w.i)
  /\ w' = [w EXCEPT !.mxSafeFrame = w.y, !.xBusy = FALSE, !.i = @ + 1, !.pc = "marks"]
  /\ UNCHANGED <<shm, file, loose, rd, excl, count>>

SkipBackfill ==
  /\ At("marks") /\ w.i \notin Slots
  /\ nBackfill >= w.mxSafeFrame \/ ~CanExclude(0)
  /\ w' = [w EXCEPT !.pc = "wait", !.xBusy = @ /\ nBackfill >= w.mxSafeFrame]
  /\ UNCHANGED <<shm, file, loose, rd, excl, count>>

(* The log is synced first.  The iterator returns the last frame of each   *)
(* page up to mxFrame: a page whose last frame is not safe yet is left out *)
(* with its earlier frames.                                                *)
StartBackfill ==
  /\ At("marks") /\ w.i \notin Slots
  /\ nBackfill < w.mxSafeFrame /\ CanExclude(0)
  /\ excl' = {0}
  /\ loose' = SyncedLog
  /\ w' = [w EXCEPT !.pc = "copy",
             !.todo = {p \in Pages : LastFrame(mine.hdr.mxFrame, p) \in nBackfill + 1..w.mxSafeFrame}]
  /\ UNCHANGED <<shm, file, rd, count>>

CopyPage ==
  LET p == Min(w.todo)
      val == file.wal[LastFrame(mine.hdr.mxFrame, p)].val IN
  /\ At("copy") /\ w.todo # {}
  /\ file' = [file EXCEPT !.db[p] = val]
  /\ loose' = [loose EXCEPT !.db[p] = @ \cup {val}]
  /\ w' = [w EXCEPT !.todo = @ \ {p}]
  /\ UNCHANGED <<shm, rd, excl, count>>

(* Mutant: the database file is not synced. *)
SyncDb_Skipped ==
  /\ At("copy") /\ w.todo = {}
  /\ w' = [w EXCEPT !.pc = "copied"]
  /\ UNCHANGED <<shm, file, loose, rd, excl, count>>

(* The database file is synced when it holds the whole log. *)
SyncDb ==
  /\ At("copy") /\ w.todo = {}
  /\ loose' = IF w.mxSafeFrame = hdr.mxFrame
                THEN [loose EXCEPT !.db = [p \in Pages |-> {file.db[p]}]] ELSE loose
  /\ w' = [w EXCEPT !.pc = "copied"]
  /\ UNCHANGED <<shm, file, rd, excl, count>>

SetBackfill ==
  /\ At("copied")
  /\ nBackfill' = w.mxSafeFrame
  /\ excl' = {}
  /\ w' = [w EXCEPT !.pc = "wait"]
  /\ UNCHANGED <<hdr, aReadMark, file, loose, rd, count>>

(* With the whole log in the database, wait for its readers: SQLITE_OK, or *)
(* SQLITE_BUSY when some frames are left or some readers stay.             *)
EndCheckpoint ==
  /\ EndTx
  /\ UNCHANGED <<shm, file, loose, excl, count>>

(* Mutant: the busy handler never gives up. *)
CheckpointBusy_Never ==
  /\ At("wait") /\ nBackfill < mine.hdr.mxFrame
  /\ EndCheckpoint

CheckpointBusy ==
  /\ At("wait")
  /\ nBackfill < mine.hdr.mxFrame \/ \E i \in Slots : ~CanExclude(i)
  /\ EndCheckpoint

CheckpointOk ==
  /\ At("wait") /\ nBackfill = mine.hdr.mxFrame /\ \A i \in Slots : CanExclude(i)
  /\ EndCheckpoint

-----------------------------------------------------------------------------
(* walIndexRecover, run by the first connection after a crash: the longest *)
(* prefix of frames with the salt of the log and the right sums, up to its *)
(* last commit mark.                                                       *)
Valid(f, n) ==
  \A k \in 1..n : /\ f.wal[k].salt = f.log.salt
                  /\ f.wal[k].sum = [j \in 1..k |-> Body(f.wal[j])]

(* Mutant: recovery takes frames behind the last commit mark. *)
Recovered_NoMark(f) ==
  IF f.log = NoLog THEN 0
  ELSE Max({0} \cup {n \in 1..MaxFrame : Valid(f, n)})

Recovered(f) ==
  IF f.log = NoLog THEN 0
  ELSE Max({0} \cup {n \in 1..MaxFrame : f.wal[n].commit /\ Valid(f, n)})

Restart(f) ==
  LET mxFrame == Recovered(f) IN
  /\ count.crash < MaxCrashes
  /\ count' = [count EXCEPT !.crash = @ + 1]
  /\ file' = f
  /\ hdr' = [mxFrame |-> mxFrame, salt |-> f.log.salt, iChange |-> 0]
  /\ nBackfill' = 0
  /\ aReadMark' = [i \in Slots |-> IF i = 1 /\ mxFrame > 0 THEN mxFrame ELSE NotUsed]
  /\ rd' = [c \in Conns |-> NoRead]
  /\ w' = [IdleWriter EXCEPT !.nCkpt = f.log.nCkpt]
  /\ excl' = {}

(* What is left of the log and of the database by a loss of power, or by   *)
(* the end of the process, which keeps the last of the choices everywhere. *)
Left(s, torn) == IF Cardinality(s) > 1 THEN s \cup {torn} ELSE s
Outcomes(sets) ==
  {f \in [DOMAIN sets -> UNION Range(sets)] : \A x \in DOMAIN sets : f[x] \in sets[x]}

Crash ==
  /\ count.crash < MaxCrashes
  /\ \E log \in loose.log,
        wal \in Outcomes([i \in 1..MaxFrame |-> Left(loose.wal[i], NoFrame)]),
        db \in Outcomes([p \in Pages |-> Left(loose.db[p], Torn)]) :
       /\ Restart([log |-> log, wal |-> wal, db |-> db])
       /\ loose' = [log |-> {log}, wal |-> [i \in 1..MaxFrame |-> {wal[i]}],
                    db |-> [p \in Pages |-> {db[p]}]]

Transaction ==
  \/ BeginTx \/ Rollback
  \/ \E p \in Pages : Spill(p)
  \/ \E ps \in SUBSET Pages : Commit(ps)
  \/ RestartLog \/ ResetMarks \/ ReadAgain \/ WriteLogHeader \/ SyncLogHeader
  \/ WriteFrame \/ WriteFails \/ EndSpill \/ RewriteChecksums \/ SyncFrames
  \/ Publish

RunCheckpoint ==
  \/ ReadMark \/ RaiseMark \/ YieldToMark
  \/ SkipBackfill \/ StartBackfill \/ CopyPage \/ SyncDb \/ SetBackfill
  \/ CheckpointBusy \/ CheckpointOk

Next ==
  \/ \E c \in Conns : BeginRead(c)
  \/ \E c \in Readers : EndRead(c)
  \/ Transaction \/ BeginCheckpoint \/ RunCheckpoint
  \/ Crash

(* The write thread runs on; nothing is assumed of readers. *)
Spec == Init /\ [][Next]_vars /\ WF_vars(RunCheckpoint)

-----------------------------------------------------------------------------
TypeOK ==
  /\ hdr \in [mxFrame : 0..MaxFrame, salt : Nat, iChange : 0..MaxTx]
  /\ nBackfill \in 0..MaxFrame
  /\ aReadMark \in [Slots -> 0..NotUsed]
  /\ \A p \in Pages : file.db[p] \in loose.db[p]
  /\ \A i \in 1..MaxFrame : file.wal[i] \in loose.wal[i]
  /\ file.log \in loose.log
  /\ \A c \in Conns : rd[c].readLock \in {NoLock} \cup 0..NReader
  /\ excl \subseteq 0..NReader
  /\ excl # {} => \A i \in excl : Shared(i) = {}

NoSnapshot == [p \in Pages |-> <<-2, -2>>]

(* Every reader keeps seeing, page by page, the database as it was when it *)
(* began, whatever the writer appends, restarts or backfills meanwhile; a  *)
(* commit is one step; and after a crash or a loss of power at any moment  *)
(* the database holds the last commit, or the one in progress as a whole.  *)
Snapshots == INSTANCE SnapshotStore WITH
  None <- NoSnapshot,
  store <- Store,
  pending <- IF w.isCommit
               THEN [p \in Pages |-> IF w.cache[p] = Torn THEN Store[p] ELSE w.cache[p]]
               ELSE Store,
  snap <- [r \in Readers |-> IF rd[r].pc = "in" THEN [p \in Pages |-> ReadPage(r, p)]
                                                ELSE NoSnapshot]
ImplementsSnapshots == Snapshots!Spec

(* The writer reads back, from its own uncommitted frames, what it spilled *)
(* last, and for every other page what is committed, also when its first   *)
(* spill has restarted the log or has failed to.                           *)
WriterReadsItsWrites ==
  At("tx") /\ mine.pc = "in" => \A p \in Pages :
    ReadPage(Writer, p) = IF w.cache[p] = Torn THEN Store[p] ELSE w.cache[p]

(* A checkpoint ends, with success or with SQLITE_BUSY, although readers   *)
(* may keep their read transactions for ever.                              *)
CheckpointReturns == (w.xBusy \/ At("wait")) ~> At("idle")

=============================================================================
