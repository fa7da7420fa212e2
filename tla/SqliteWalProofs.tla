-------------------------- MODULE SqliteWalProofs --------------------------
(***************************************************************************)
(* Theorems of SqliteWal for every number of readers, read marks, pages,   *)
(* transactions, checkpoints and crashes: a reader keeps its snapshot, the *)
(* writer reads what it wrote.                                             *)
(*                                                                         *)
(* Both rest on one invariant, WalInv: a header a connection has read is   *)
(* the live one or tells itself from it by its change counter; the frames  *)
(* of an open transaction lie behind the committed ones; and what is       *)
(* written back to the database ends at the mark of every reader, so a     *)
(* page whose last frame is written back has the value of that frame.      *)
(***************************************************************************)
EXTENDS SqliteWal, SequenceTheorems, FiniteSetTheorems, WellFoundedInduction, TLAPS

(* The types of headers, frames, read transactions and of the writer. *)
Hdrs   == [mxFrame : 0..MaxFrame, salt : Nat, iChange : Nat]
Logs   == [salt : Nat, nCkpt : Nat]
Vals   == Int \X Int
Bodies == (0..NPage) \X Vals \X BOOLEAN
Frames == [page : 0..NPage, val : Vals, commit : BOOLEAN, salt : Nat, sum : Seq(Bodies)]
ReadPcs == {"out", "hdr", "zero", "pick", "lock", "check", "in"}
Reads  == [pc : ReadPcs, hdr : Hdrs, readLock : {NoLock} \cup 0..NReader, mxI : 0..NReader,
           mark : 0..NotUsed, minFrame : 1..NotUsed, useWal : BOOLEAN]
TxPcs   == {"tx", "restart", "reset", "reread", "loghdr", "synclog", "frames", "publish"}
CkptPcs == {"marks", "slot", "wait", "copy", "copied"}
Writers ==
  [pc : {"idle"} \cup TxPcs \cup CkptPcs, cache : [Pages -> Vals], list : SUBSET Pages,
   isCommit : BOOLEAN, iFrame : 0..MaxFrame, iFirst : 0..NotUsed, iReCksum : 0..MaxFrame,
   i : Nat, y : 0..NotUsed, mxSafeFrame : 0..MaxFrame, xBusy : BOOLEAN,
   todo : SUBSET Pages, nCkpt : Nat]

TypeInv ==
  /\ hdr \in Hdrs
  /\ nBackfill \in 0..MaxFrame
  /\ aReadMark \in [Slots -> 0..NotUsed]
  /\ file \in [log : Logs, wal : [1..MaxFrame -> Frames], db : [Pages -> Vals]]
  /\ loose \in [log : SUBSET Logs, wal : [1..MaxFrame -> SUBSET Frames],
                db : [Pages -> SUBSET Vals]]
  /\ rd \in [Conns -> Reads]
  /\ w \in Writers
  /\ excl \in SUBSET (0..NReader)
  /\ count \in [salt : Nat, tx : 0..MaxTx, checkpoint : Nat, crash : Nat]

(* What is in a file is what the last write put there. *)
LastWritten ==
  /\ file.log \in loose.log
  /\ \A i \in 1..MaxFrame : file.wal[i] \in loose.wal[i]
  /\ \A p \in Pages : file.db[p] \in loose.db[p]

InTx == w.pc \in TxPcs
Held == {"check", "in"}

(* A connection that begins to read.  The headers it may hold are of the   *)
(* past: equal to the live one, or told from it for ever.                  *)
ReadOk(c) ==
  /\ rd[c].pc \in Held <=> rd[c].readLock # NoLock
  /\ rd[c].pc \in {"lock", "check"} => rd[c].mxI \in Slots /\ rd[c].mark <= rd[c].hdr.mxFrame
  /\ rd[c].pc = "check" => rd[c].readLock = rd[c].mxI
  /\ rd[c].hdr.salt <= count.salt /\ rd[c].hdr.iChange <= hdr.iChange
  /\ rd[c].pc = "zero" /\ rd[c].hdr = hdr => nBackfill = hdr.mxFrame
  /\ rd[c].readLock \in Slots => rd[c].minFrame \in 1..nBackfill + 1
  /\ c # Writer => ~rd[c].useWal
ReadInv == \A c \in Conns : ReadOk(c)

LockInv ==
  /\ excl = CASE w.pc = "reset" -> Slots
              [] w.pc \in {"copy", "copied"} -> {0}
              [] OTHER -> {}
  /\ \A i \in excl : Shared(i) = {}

(* Where the writer is. *)
PhaseInv ==
  /\ w.pc = "idle" => rd[Writer] = NoRead
  /\ w.pc \in CkptPcs => mine.pc = "out" /\ mine.hdr = hdr /\ ~mine.useWal
  /\ w.pc \in {"restart", "reset", "reread"} => mine.pc = "in" /\ mine.readLock = 0
  /\ w.pc = "loghdr" => mine.pc \in {"pick", "lock", "check", "in"} /\ mine.readLock # 0
  /\ w.pc \in {"synclog", "frames", "publish"} => mine.pc = "in" /\ mine.readLock # 0
  /\ w.pc = "tx" /\ mine.pc # "in" => ~mine.useWal
  /\ w.pc = "loghdr" /\ mine.pc # "in" => mine.useWal

(* The numbers in headers and frames have been given out. *)
CountInv ==
  /\ hdr.iChange <= count.tx /\ (InTx => hdr.iChange < count.tx)
  /\ hdr.salt <= count.salt
  /\ \A log \in loose.log : log.salt <= count.salt
  /\ \A i \in 1..MaxFrame : \A f \in loose.wal[i] : f.salt <= count.salt

(* The transaction's own frames, behind the committed ones: the last one   *)
(* of a page holds what the pager has, unless that is still to be written. *)
Top == IF w.pc \in {"frames", "publish"} THEN w.iFrame ELSE mine.hdr.mxFrame
Own(p) == {f \in hdr.mxFrame + 1..Top : file.wal[f].page = p}
PageOk(p) ==
  /\ p \in w.list \/ Own(p) # {} => w.cache[p] # Torn \/ w.isCommit
  /\ \/ p \in w.list
     \/ w.cache[p] = Torn /\ Own(p) = {}
     \/ \E f \in Own(p) : file.wal[f].val = w.cache[p] /\ \A g \in Own(p) : g <= f
Fresh(p) ==
  IF p \in w.list THEN w.cache[p] # Torn \/ w.isCommit ELSE w.cache[p] = Torn

(* The private header: the live one until the first frame is written.      *)
HeadOk ==
  /\ mine.pc # "out" => mine.hdr.iChange = hdr.iChange /\ hdr.mxFrame <= Top
  /\ mine.pc \notin {"in", "out"} => mine.hdr = hdr
  /\ w.pc \in {"restart", "reset", "reread"} => mine.hdr = hdr /\ w.iFirst = 0
  /\ w.pc \in {"tx", "restart"} /\ mine.pc = "in" /\ mine.readLock = 0 =>
       nBackfill = hdr.mxFrame /\ mine.hdr = hdr
  /\ mine.readLock \in Slots => mine.minFrame = nBackfill + 1
  /\ w.pc = "tx" /\ mine.pc = "in" /\ mine.hdr.mxFrame = hdr.mxFrame => mine.hdr = hdr
  /\ w.pc = "synclog" => w.iFrame = mine.hdr.mxFrame
  /\ w.pc = "frames" => mine.hdr.mxFrame <= w.iFrame
  /\ w.pc # "tx" => w.iFirst \in {0, hdr.mxFrame + 1}
ListOk ==
  /\ w.pc = "tx" => ~w.isCommit
  /\ w.pc = "tx" /\ mine.pc # "in" => \A p \in Pages : w.cache[p] = Torn
  /\ w.pc # "tx" => \E p \in Pages : w.cache[p] # Torn
  /\ w.pc \in {"tx", "publish"} => w.list = {}
  /\ w.pc = "frames" => \A f \in mine.hdr.mxFrame + 1..w.iFrame : file.wal[f].page \notin w.list
OwnInv ==
  /\ w.pc = "idle" => w.list = {} /\ ~w.isCommit /\ \A p \in Pages : w.cache[p] = Torn
  /\ InTx => HeadOk /\ ListOk /\ (mine.pc # "out" => \A p \in Pages : PageOk(p))

(* The checkpoint. *)
Last(p) == LastFrame(hdr.mxFrame, p)
CheckpointInv ==
  /\ w.pc # "reset" => nBackfill <= hdr.mxFrame
  /\ w.pc = "reset" => hdr.mxFrame = 0 /\ nBackfill > 0
  /\ w.pc \in CkptPcs => w.mxSafeFrame <= hdr.mxFrame
  /\ w.pc = "slot" => w.i \in Slots /\ w.y < w.mxSafeFrame
  /\ w.pc \in {"copy", "copied"} => nBackfill < w.mxSafeFrame
  /\ w.pc = "marks" => w.i >= 1
  /\ w.pc = "copy" => \A p \in w.todo : Last(p) \in nBackfill + 1..w.mxSafeFrame

(* Whose last frame is backfilled has its value in the database file.      *)
DbOk(p) ==
  /\ Last(p) \in 1..nBackfill => file.db[p] = file.wal[Last(p)].val
  /\ (w.pc = "copied" \/ (w.pc = "copy" /\ p \notin w.todo))
       /\ Last(p) \in nBackfill + 1..w.mxSafeFrame => file.db[p] = file.wal[Last(p)].val
DbInv == \A p \in Pages : DbOk(p)

(* A reader of the log and its mark hold the backfill back. *)
ReaderOk(r) ==
  rd[r].pc = "in" /\ rd[r].readLock # 0 =>
    /\ aReadMark[rd[r].readLock] <= rd[r].hdr.mxFrame
    /\ rd[r].hdr.mxFrame <= hdr.mxFrame
    /\ w.pc \in {"marks", "slot"} /\ rd[r].readLock < w.i => w.mxSafeFrame <= rd[r].hdr.mxFrame
    /\ w.pc = "slot" /\ rd[r].readLock = w.i => w.y <= rd[r].hdr.mxFrame
    /\ w.pc = "copy" => w.mxSafeFrame <= rd[r].hdr.mxFrame
ReaderInv == \A r \in Readers : ReaderOk(r)

WalInv == /\ TypeInv /\ LastWritten /\ ReadInv /\ LockInv /\ PhaseInv /\ CountInv
          /\ OwnInv /\ CheckpointInv /\ DbInv /\ ReaderInv

-----------------------------------------------------------------------------
(* Least and greatest elements of sets of naturals. *)
Less == {p \in Nat \X Nat : p[1] < p[2]}

LEMMA LeastExists ==
  ASSUME NEW S \in SUBSET Nat, S # {}
  PROVE  \E x \in S : \A y \in S : x <= y
<1>1. OpToRel(<, Nat) = Less
  BY DEF OpToRel, Less
<1>2. IsWellFoundedOn(Less, Nat)
  BY <1>1, NatLessThanWellFounded
<1>3. PICK x \in S : \A y \in S : <<y, x>> \notin Less
  BY <1>2, WFMin
<1>4. ASSUME NEW y \in S PROVE x <= y
  <2>1. <<y, x>> \in Nat \X Nat /\ <<y, x>>[1] = y /\ <<y, x>>[2] = x
    OBVIOUS
  <2>2. ~(y < x)
    BY <1>3, <2>1 DEF Less
  <2>. QED  BY <2>2
<1>. QED  BY <1>4

LEMMA MinIs ==
  ASSUME NEW S \in SUBSET Nat, S # {}
  PROVE  Min(S) \in S /\ \A y \in S : Min(S) <= y
<1>1. \E x \in S : \A y \in S : x <= y
  BY LeastExists
<1>. QED  BY <1>1 DEF Min

LEMMA MaxIs ==
  ASSUME NEW n \in Nat, NEW S \in SUBSET (0..n), S # {}
  PROVE  Max(S) \in S /\ \A y \in S : y <= Max(S)
<1>. DEFINE T == {n - y : y \in S}
<1>1. T \in SUBSET Nat /\ T # {}
  <2>1. \A y \in S : n - y \in Nat
    OBVIOUS
  <2>2. PICK y \in S : TRUE
    OBVIOUS
  <2>3. n - y \in T
    OBVIOUS
  <2>. QED  BY <2>1, <2>3
<1>2. PICK t \in T : \A u \in T : t <= u
  BY <1>1, LeastExists
<1>3. PICK x \in S : t = n - x
  OBVIOUS
<1>4. \A y \in S : x >= y
  <2>. SUFFICES ASSUME NEW y \in S PROVE x >= y
    OBVIOUS
  <2>1. t <= n - y
    BY <1>2
  <2>. QED  BY <1>3, <2>1
<1>5. \E z \in S : \A y \in S : z >= y
  BY <1>4
<1>6. Max(S) \in S /\ \A y \in S : Max(S) >= y
  BY <1>5 DEF Max
<1>. QED  BY <1>6

(* The newest frame of a page among some frames of a log, or 0. *)
Newest(wal, lo, hi, p) == Max({0} \cup {i \in lo..hi : wal[i].page = p})

LEMMA NewestIs ==
  ASSUME NEW wal, NEW lo \in Nat \ {0}, NEW hi \in Nat, NEW p
  PROVE  LET n == Newest(wal, lo, hi, p) IN
         /\ n \in 0..hi
         /\ n # 0 => n \in lo..hi /\ wal[n].page = p
         /\ \A i \in lo..hi : wal[i].page = p => i <= n
<1>. DEFINE S == {0} \cup {i \in lo..hi : wal[i].page = p}
<1>1. S \in SUBSET (0..hi) /\ S # {}
  OBVIOUS
<1>2. Max(S) \in S /\ \A y \in S : y <= Max(S)
  <2>. HIDE DEF S
  <2>. QED  BY <1>1, MaxIs
<1>. QED  BY <1>1, <1>2 DEF Newest

LEMMA NewestAt ==
  ASSUME NEW wal, NEW lo, NEW hi, NEW p, NEW n, n = Newest(wal, lo, hi, p),
         lo \in Nat \ {0}, hi \in Nat
  PROVE  /\ n \in 0..hi
         /\ n # 0 => n \in lo..hi /\ wal[n].page = p
         /\ \A i \in lo..hi : wal[i].page = p => i <= n
<1>1. LET m == Newest(wal, lo, hi, p) IN
      /\ m \in 0..hi
      /\ m # 0 => m \in lo..hi /\ wal[m].page = p
      /\ \A i \in lo..hi : wal[i].page = p => i <= m
  BY NewestIs, Zenon
<1>. QED  BY <1>1

LEMMA NewestUnique ==
  ASSUME NEW wal, NEW lo \in Nat \ {0}, NEW hi \in Nat, NEW p, NEW n \in 0..hi,
         n # 0 => n \in lo..hi /\ wal[n].page = p,
         \A i \in lo..hi : wal[i].page = p => i <= n
  PROVE  Newest(wal, lo, hi, p) = n
<1>. DEFINE m == Newest(wal, lo, hi, p)
<1>1. /\ m \in 0..hi
      /\ m # 0 => m \in lo..hi /\ wal[m].page = p
      /\ \A i \in lo..hi : wal[i].page = p => i <= m
  BY NewestIs
<1>. QED  BY <1>1

LEMMA NewestSame ==
  ASSUME NEW u, NEW v, NEW lo, NEW hi, NEW p,
         \A i \in lo..hi : u[i].page = v[i].page
  PROVE  Newest(u, lo, hi, p) = Newest(v, lo, hi, p)
<1>1. {i \in lo..hi : u[i].page = p} = {i \in lo..hi : v[i].page = p}
  OBVIOUS
<1>. QED  BY <1>1 DEF Newest

LEMMA FrameSearch ==
  /\ \A x, p : LastFrame(x, p) = Newest(file.wal, 1, x, p)
  /\ \A c \in Conns, p \in Pages :
       FindFrame(c, p) = IF rd[c].readLock = 0 THEN 0
                         ELSE Newest(file.wal, rd[c].minFrame, rd[c].hdr.mxFrame, p)
BY DEF LastFrame, FindFrame, Newest

LEMMA Constants ==
  /\ Writer \in Conns /\ Readers \subseteq Conns /\ Writer \notin Readers
  /\ NPage \in Nat \ {0} /\ NReader \in Nat \ {0} /\ MaxFrame \in Nat \ {0}
  /\ MaxTx \in Nat
  /\ Pages \subseteq Nat /\ 1 \in Pages /\ Slots \subseteq 1..NReader /\ 1 \in Slots
  /\ 0 \notin Slots /\ NoLock \notin Slots /\ NoLock # 0 /\ NotUsed = MaxFrame + 1
BY WalAssumption DEF Conns, Pages, Slots, NoLock, NotUsed

(* The largest mark that is not above mxFrame.  The slots that fit, best   *)
(* first: the greater mark, and of equals the greater slot.                *)
LEMMA BestIs ==
  ASSUME TypeInv, NEW x \in 0..MaxFrame
  PROVE  LET b == BestSlot(x) IN
         /\ b \in Slots \cup {0}
         /\ b \in Slots => aReadMark[b] <= x
<1>. DEFINE fit == {i \in Slots : aReadMark[i] <= x}
            marks == {aReadMark[i] : i \in fit}
<1>1. CASE fit = {}
  <2>1. BestSlot(x) = 0
    BY <1>1 DEF BestSlot
  <2>. QED  BY <2>1, Constants
<1>2. CASE fit # {}
  <2>0. \A i \in Slots : aReadMark[i] \in Nat
    BY Constants DEF TypeInv
  <2>1. marks \in SUBSET (0..x) /\ marks # {}
    BY <1>2, <2>0
  <2>2. Max(marks) \in marks /\ \A y \in marks : y <= Max(marks)
    <3>. HIDE DEF marks
    <3>1. x \in Nat
      BY Constants
    <3>. QED  BY <2>1, <3>1, MaxIs
  <2>. DEFINE top == {i \in fit : aReadMark[i] = Max(marks)}
  <2>3. top \in SUBSET (0..NReader) /\ top # {}
    <3>1. top # {}
      BY <2>2
    <3>2. Slots \subseteq 0..NReader
      BY Constants
    <3>. QED  BY <3>1, <3>2
  <2>4. Max(top) \in top /\ \A y \in top : y <= Max(top)
    <3>. HIDE DEF top
    <3>. QED  BY <2>3, MaxIs, Constants
  <2>5. \A j \in fit : aReadMark[j] < aReadMark[Max(top)]
                       \/ (aReadMark[j] = aReadMark[Max(top)] /\ j <= Max(top))
    <3>. SUFFICES ASSUME NEW j \in fit
                  PROVE  aReadMark[j] < aReadMark[Max(top)]
                         \/ (aReadMark[j] = aReadMark[Max(top)] /\ j <= Max(top))
      OBVIOUS
    <3>1. aReadMark[j] \in Nat /\ aReadMark[j] <= Max(marks) /\ Max(marks) \in Nat
      BY <2>0, <2>1, <2>2
    <3>2. aReadMark[Max(top)] = Max(marks)
      BY <2>4
    <3>3. aReadMark[j] = Max(marks) => j \in top
      OBVIOUS
    <3>. HIDE DEF top, marks
    <3>. QED  BY <3>1, <3>2, <3>3, <2>4
  <2>6. BestSlot(x) \in fit
    <3>1. BestSlot(x) = CHOOSE i \in fit : \A j \in fit :
            aReadMark[j] < aReadMark[i] \/ (aReadMark[j] = aReadMark[i] /\ j <= i)
      BY <1>2 DEF BestSlot
    <3>2. Max(top) \in fit
      BY <2>4
    <3>. HIDE DEF fit, top
    <3>. QED  BY <2>5, <3>1, <3>2
  <2>. QED  BY <2>6
<1>. QED  BY <1>1, <1>2

(* Two type facts the next lemma cannot do without. *)
LEMMA FindType ==
  ASSUME TypeInv, NEW c \in Conns, NEW p \in Pages
  PROVE  FindFrame(c, p) \in 0..MaxFrame /\ ReadPage(c, p) \in Vals
<1>0. rd[c] \in Reads /\ file.wal \in [1..MaxFrame -> Frames] /\ file.db \in [Pages -> Vals]
  BY DEF TypeInv
<1>1. rd[c].minFrame \in Nat \ {0} /\ rd[c].hdr.mxFrame \in 0..MaxFrame
  BY <1>0, Constants DEF Reads, Hdrs
<1>2. Newest(file.wal, rd[c].minFrame, rd[c].hdr.mxFrame, p) \in 0..rd[c].hdr.mxFrame
  <2>1. rd[c].hdr.mxFrame \in Nat
    BY <1>1, Constants
  <2>. QED  BY <1>1, <2>1, NewestIs
<1>3. FindFrame(c, p) \in 0..MaxFrame
  BY <1>1, <1>2, FrameSearch, Constants
<1>4. \A f \in 0..MaxFrame : f # 0 => f \in 1..MaxFrame
  BY Constants
<1>. QED  BY <1>0, <1>3, <1>4 DEF ReadPage, Frames

LEMMA LastType ==
  ASSUME TypeInv, NEW x \in 0..MaxFrame, NEW p
  PROVE  LastFrame(x, p) \in 0..x
BY NewestIs, FrameSearch

(* Records of frames. *)
LEMMA ChangedType ==
  ASSUME TypeInv, NEW ps \in SUBSET Pages
  PROVE  Changed(ps) \in [Pages -> Vals]
<1>. SUFFICES ASSUME NEW p \in Pages
              PROVE  (IF p \notin ps THEN w.cache[p]
                      ELSE <<count.tx, IF w.cache[p] = Torn THEN 1 ELSE w.cache[p][2] + 1>>) \in Vals
  BY DEF Changed
<1>1. w.cache[p] \in Vals /\ count.tx \in Int
  BY Constants DEF TypeInv, Writers
<1>2. w.cache[p][2] + 1 \in Int
  BY <1>1 DEF Vals
<1>. QED  BY <1>1, <1>2 DEF Vals

LEMMA NextPageType ==
  ASSUME TypeInv, w.list # {}
  PROVE  NextPage \in w.list /\ NextPage \in Pages
<1>1. w.list \in SUBSET Nat
  BY Constants DEF TypeInv, Writers
<1>. QED  BY <1>1, MinIs DEF NextPage, TypeInv, Writers

LEMMA OverwrittenType ==
  ASSUME TypeInv, w.list # {}
  PROVE  Overwritten \in 0..MaxFrame
<1>1. NextPage \in Pages
  BY NextPageType
<1>. QED  BY <1>1, FindType, Constants DEF Overwritten

LEMMA SumType ==
  ASSUME TypeInv, NEW i \in 0..MaxFrame
  PROVE  SumOf(i) \in Seq(Bodies)
<1>1. file.wal \in [1..MaxFrame -> Frames]
  BY DEF TypeInv
<1>2. i # 0 => i \in 1..MaxFrame
  BY Constants
<1>3. <<>> \in Seq(Bodies)
  OBVIOUS
<1>. QED  BY <1>1, <1>2, <1>3 DEF SumOf, Frames

LEMMA InitType == Init => TypeInv
<1>1. NoFrame \in Frames
  BY Constants DEF NoFrame, Frames, Bodies, Vals, Torn
<1>2. NoRead \in Reads /\ NoLog \in Logs
  BY Constants DEF NoRead, Reads, NoLog, Logs, Hdrs, ReadPcs, NoLock
<1>3. IdleWriter \in Writers
  BY Constants DEF IdleWriter, Writers, Vals, Torn
<1>4. <<0, 0>> \in Vals
  BY DEF Vals
<1>5. NoRead.hdr \in Hdrs
  BY <1>2 DEF Reads
<1>. QED  BY <1>1, <1>2, <1>3, <1>4, <1>5, Constants DEF Init, TypeInv

(* The steps of one connection's read. *)
LEMMA ReadType ==
  ASSUME TypeInv, NEW c \in Conns, BeginRead(c) \/ EndRead(c)
  PROVE  TypeInv'
<1>1. rd[c] \in Reads /\ hdr \in Hdrs /\ NoRead \in Reads
  BY Constants DEF TypeInv, NoRead, Reads, ReadPcs, NoLock, Hdrs
<1>2. Retry(c) => rd' \in [Conns -> Reads]
  <2>1. [rd[c] EXCEPT !.pc = "pick", !.readLock = NoLock] \in Reads
    BY <1>1 DEF Reads, ReadPcs
  <2>. QED  BY <1>1, <2>1 DEF Retry, TypeInv
<1>3. \A pc \in ReadPcs : Goto(c, pc) => rd' \in [Conns -> Reads]
  <2>1. \A pc \in ReadPcs : [rd[c] EXCEPT !.pc = pc] \in Reads
    BY <1>1 DEF Reads
  <2>. QED  BY <2>1 DEF Goto, TypeInv
<1>4. (rd' \in [Conns -> Reads] /\ aReadMark' = aReadMark) \/ PickMark(c)
  <2>1. CASE ReadHdr(c)
    BY <2>1, <1>1 DEF ReadHdr, shm, TypeInv, Reads, ReadPcs
  <2>2. CASE ChooseLog(c)
    BY <2>2, <1>3 DEF ChooseLog, shm, ReadPcs
  <2>3. CASE LockZero(c)
    <3>0. 0 \in 0..NReader
      BY Constants
    <3>1. [rd[c] EXCEPT !.readLock = 0, !.pc = "in"] \in Reads
      BY <1>1, <3>0 DEF Reads, ReadPcs
    <3>. QED  BY <2>3, <3>1, <1>2, <1>3 DEF LockZero, shm, ReadPcs, TypeInv
  <2>4. CASE LockMark(c)
    <3>1. [rd[c] EXCEPT !.readLock = rd[c].mxI, !.minFrame = nBackfill + 1, !.pc = "check"] \in Reads
      <4>1. nBackfill + 1 \in 1..NotUsed
        BY Constants DEF TypeInv
      <4>. QED  BY <1>1, <4>1 DEF Reads, ReadPcs
    <3>. QED  BY <2>4, <3>1, <1>2 DEF LockMark, shm, TypeInv
  <2>5. CASE CheckMark(c)
    <3>1. [rd[c] EXCEPT !.pc = "in", !.mxI = 0, !.mark = 0] \in Reads
      <4>1. 0 \in 0..NReader /\ 0 \in 0..NotUsed
        BY Constants
      <4>. QED  BY <1>1, <4>1 DEF Reads, ReadPcs
    <3>. QED  BY <2>5, <3>1, <1>2 DEF CheckMark, shm, TypeInv
  <2>6. CASE EndRead(c)
    BY <2>6, <1>1 DEF EndRead, shm, TypeInv
  <2>. QED  BY <2>1, <2>2, <2>3, <2>4, <2>5, <2>6 DEF BeginRead
<1>5. PickMark(c) => rd' \in [Conns -> Reads] /\ aReadMark' \in [Slots -> 0..NotUsed]
  <2>. SUFFICES ASSUME PickMark(c)
                PROVE  rd' \in [Conns -> Reads] /\ aReadMark' \in [Slots -> 0..NotUsed]
    OBVIOUS
  <2>. DEFINE free == {i \in Slots : CanExclude(i)}
              fit  == {i \in Slots : aReadMark[i] <= rd[c].hdr.mxFrame}
              i    == IF (BestSlot(rd[c].hdr.mxFrame) = 0
                          \/ aReadMark[BestSlot(rd[c].hdr.mxFrame)] < rd[c].hdr.mxFrame)
                         /\ free # {} THEN Min(free) ELSE BestSlot(rd[c].hdr.mxFrame)
  <2>1. free # {} => Min(free) \in Slots
    <3>1. free \in SUBSET Nat /\ free \in SUBSET Slots
      <4>1. Slots \subseteq Nat
        BY Constants
      <4>. QED  BY <4>1
    <3>. HIDE DEF free
    <3>. QED  BY <3>1, MinIs
  <2>0. rd[c].hdr.mxFrame \in 0..MaxFrame /\ rd[c].hdr.mxFrame \in 0..NotUsed
    BY <1>1, Constants DEF Reads, Hdrs
  <2>2. BestSlot(rd[c].hdr.mxFrame) \in Slots \cup {0}
    BY <2>0, BestIs
  <2>3. aReadMark' \in [Slots -> 0..NotUsed]
    <3>1. aReadMark \in [Slots -> 0..NotUsed]
      BY DEF TypeInv
    <3>2. aReadMark' = aReadMark \/ \E j \in 0..MaxFrame :
            aReadMark' = [aReadMark EXCEPT ![i] = j] /\ j = rd[c].hdr.mxFrame
      BY <2>0 DEF PickMark
    <3>. HIDE DEF i
    <3>. QED  BY <2>0, <3>1, <3>2
  <2>4. i # 0 => i \in Slots
    BY <2>1, <2>2
  <2>5. IF i = 0 THEN Retry(c)
        ELSE rd' = [rd EXCEPT ![c].mxI = i, ![c].mark = aReadMark'[i], ![c].pc = "lock"]
    BY DEF PickMark
  <2>6. i # 0 => [rd[c] EXCEPT !.mxI = i, !.mark = aReadMark'[i], !.pc = "lock"] \in Reads
    <3>1. i # 0 => i \in 0..NReader /\ aReadMark'[i] \in 0..NotUsed
      <4>1. Slots \subseteq 0..NReader
        BY Constants
      <4>. HIDE DEF i
      <4>. QED  BY <2>3, <2>4, <4>1
    <3>. HIDE DEF i
    <3>. QED  BY <1>1, <3>1 DEF Reads, ReadPcs
  <2>. HIDE DEF i
  <2>. QED  BY <1>2, <2>3, <2>5, <2>6 DEF TypeInv
<1>6. UNCHANGED <<hdr, nBackfill, file, loose, w, excl, count>>
  BY DEF BeginRead, ReadHdr, ChooseLog, LockZero, PickMark, LockMark, CheckMark, EndRead, shm
<1>. QED  BY <1>4, <1>5, <1>6 DEF TypeInv

LEMMA EmptyTypes ==
  /\ NoFrame \in Frames /\ NoRead \in Reads /\ NoLog \in Logs /\ NoRead.hdr \in Hdrs
  /\ IdleWriter \in Writers /\ Torn \in Vals
<1>1. NoFrame \in Frames
  BY Constants DEF NoFrame, Frames, Bodies, Vals, Torn
<1>2. NoRead \in Reads /\ NoLog \in Logs
  BY Constants DEF NoRead, Reads, NoLog, Logs, Hdrs, ReadPcs, NoLock
<1>3. IdleWriter \in Writers
  BY Constants DEF IdleWriter, Writers, Vals, Torn
<1>4. NoRead.hdr \in Hdrs
  BY <1>2 DEF Reads
<1>5. Torn \in Vals
  BY DEF Torn, Vals
<1>. QED  BY <1>1, <1>2, <1>3, <1>4, <1>5

LEMMA EndTxType ==
  ASSUME TypeInv, EndTx
  PROVE  rd' \in [Conns -> Reads] /\ w' \in Writers
<1>1. rd' \in [Conns -> Reads]
  BY EmptyTypes DEF EndTx, TypeInv
<1>2. w.nCkpt \in Nat
  BY DEF TypeInv, Writers
<1>. QED  BY <1>1, <1>2, EmptyTypes DEF EndTx, Writers

(* A frame or a page that is written. *)
LEMMA WriteType ==
  ASSUME TypeInv, LastWritten, NEW i \in 1..MaxFrame, NEW f \in Frames, WriteWal(i, f)
  PROVE  /\ file' \in [log : Logs, wal : [1..MaxFrame -> Frames], db : [Pages -> Vals]]
         /\ loose' \in [log : SUBSET Logs, wal : [1..MaxFrame -> SUBSET Frames],
                        db : [Pages -> SUBSET Vals]]
         /\ file'.log = file.log /\ file'.db = file.db /\ file'.wal = [file.wal EXCEPT ![i] = f]
         /\ loose'.log = loose.log /\ loose'.db = loose.db
         /\ loose'.wal = [loose.wal EXCEPT ![i] = @ \cup {f}]
         /\ LastWritten'
<1>1. /\ file'.log = file.log /\ file'.db = file.db /\ file'.wal = [file.wal EXCEPT ![i] = f]
      /\ loose'.log = loose.log /\ loose'.db = loose.db
      /\ loose'.wal = [loose.wal EXCEPT ![i] = @ \cup {f}]
  BY DEF WriteWal, TypeInv
<1>2. /\ file' \in [log : Logs, wal : [1..MaxFrame -> Frames], db : [Pages -> Vals]]
      /\ loose' \in [log : SUBSET Logs, wal : [1..MaxFrame -> SUBSET Frames],
                     db : [Pages -> SUBSET Vals]]
  <2>1. [file.wal EXCEPT ![i] = f] \in [1..MaxFrame -> Frames]
    BY DEF TypeInv
  <2>2. [loose.wal EXCEPT ![i] = @ \cup {f}] \in [1..MaxFrame -> SUBSET Frames]
    BY DEF TypeInv
  <2>. QED  BY <2>1, <2>2 DEF WriteWal, TypeInv
<1>3. LastWritten'
  BY <1>1 DEF LastWritten, TypeInv
<1>. QED  BY <1>1, <1>2, <1>3

LEMMA SyncType ==
  ASSUME TypeInv, loose' = SyncedLog, file' = file
  PROVE  /\ loose' \in [log : SUBSET Logs, wal : [1..MaxFrame -> SUBSET Frames],
                        db : [Pages -> SUBSET Vals]]
         /\ loose'.log = {file.log} /\ loose'.db = loose.db
         /\ \A i \in 1..MaxFrame : loose'.wal[i] = {file.wal[i]}
<1>0. loose' = [log |-> {file.log}, wal |-> [i \in 1..MaxFrame |-> {file.wal[i]}],
                db |-> loose.db]
  BY DEF SyncedLog, TypeInv
<1>1. [i \in 1..MaxFrame |-> {file.wal[i]}] \in [1..MaxFrame -> SUBSET Frames]
  BY DEF TypeInv
<1>2. {file.log} \in SUBSET Logs /\ loose.db \in [Pages -> SUBSET Vals]
  BY DEF TypeInv
<1>3. loose'.wal = [i \in 1..MaxFrame |-> {file.wal[i]}]
  BY <1>0
<1>. QED  BY <1>0, <1>1, <1>2, <1>3

(* The steps of a transaction. *)
LEMMA WalFramesType ==
  ASSUME TypeInv, NEW list \in SUBSET Pages, NEW isCommit \in BOOLEAN,
         NEW cache \in [Pages -> Vals], WalFrames(list, isCommit, cache)
  PROVE  TypeInv'
<1>1. (IF mine.hdr = hdr THEN 0 ELSE hdr.mxFrame + 1) \in 0..NotUsed
  BY Constants DEF TypeInv, Hdrs
<1>2. (IF mine.readLock = 0 THEN "restart" ELSE "loghdr") \in TxPcs
  BY DEF TxPcs
<1>3. w' \in Writers
  <2>1. PICK iFirst \in 0..NotUsed, pc \in TxPcs :
          w' = [w EXCEPT !.list = list, !.isCommit = isCommit, !.cache = cache,
                         !.iFirst = iFirst, !.pc = pc]
    BY <1>1, <1>2 DEF WalFrames
  <2>2. w \in Writers
    BY DEF TypeInv
  <2>. QED  BY <2>1, <2>2 DEF Writers
<1>. QED  BY <1>3 DEF WalFrames, TypeInv, shm

LEMMA TransactionType ==
  ASSUME TypeInv, LastWritten, Transaction
  PROVE  TypeInv'
<1>0. /\ rd \in [Conns -> Reads] /\ w \in Writers /\ mine \in Reads /\ Writer \in Conns
      /\ count \in [salt : Nat, tx : 0..MaxTx, checkpoint : Nat, crash : Nat]
      /\ mine.hdr \in Hdrs /\ hdr \in Hdrs
  BY Constants DEF TypeInv, mine, Reads
<1>z. 0 \in 0..MaxFrame /\ MaxFrame \in Nat
  BY Constants
<1>1. CASE BeginTx
  <2>1. w' \in Writers
    BY <1>0, <1>1 DEF BeginTx, Writers, TxPcs
  <2>2. count' \in [salt : Nat, tx : 0..MaxTx, checkpoint : Nat, crash : Nat]
    BY <1>0, <1>1, Constants DEF BeginTx
  <2>. QED  BY <1>1, <2>1, <2>2 DEF BeginTx, TypeInv, shm
<1>2. CASE Rollback
  BY <1>2, EndTxType DEF Rollback, TypeInv, shm
<1>3. ASSUME NEW p \in Pages, Spill(p) PROVE TypeInv'
  BY <1>3, ChangedType, WalFramesType DEF Spill
<1>4. ASSUME NEW ps \in SUBSET Pages, Commit(ps) PROVE TypeInv'
  <2>1. CASE ps # {}
    BY <1>4, <2>1, ChangedType, WalFramesType DEF Commit
  <2>2. CASE ps = {}
    <3>. DEFINE cache == [w.cache EXCEPT ![1] = IF @ = Torn THEN ReadPage(Writer, 1) ELSE @]
    <3>1. cache \in [Pages -> Vals]
      BY <1>0, Constants, FindType DEF Writers
    <3>2. WalFrames({1}, TRUE, cache)
      BY <1>4, <2>2 DEF Commit
    <3>. HIDE DEF cache
    <3>. QED  BY <3>1, <3>2, Constants, WalFramesType
  <2>. QED  BY <2>1, <2>2
<1>5. CASE RestartLog
  <2>1. w' \in Writers
    <3>1. w' = [w EXCEPT !.pc = "reset", !.nCkpt = @ + 1] \/ w' = [w EXCEPT !.pc = "reread"]
      BY <1>5 DEF RestartLog
    <3>2. w.nCkpt + 1 \in Nat /\ {"reset", "reread"} \subseteq TxPcs
      BY <1>0 DEF Writers, TxPcs
    <3>3. \A n \in Nat, pc \in TxPcs : [w EXCEPT !.pc = pc, !.nCkpt = n] \in Writers
      BY <1>0 DEF Writers
    <3>4. \A pc \in TxPcs : [w EXCEPT !.pc = pc] \in Writers
      BY <1>0 DEF Writers
    <3>. QED  BY <3>1, <3>2, <3>3, <3>4
  <2>2. [mine.hdr EXCEPT !.mxFrame = 0, !.salt = count.salt + 1] \in Hdrs
    <3>1. count.salt + 1 \in Nat
      BY <1>0
    <3>. QED  BY <1>0, <1>z, <3>1 DEF Hdrs
  <2>3. \A h \in Hdrs : [rd EXCEPT ![Writer].hdr = h] \in [Conns -> Reads]
    <3>1. \A h \in Hdrs : [rd[Writer] EXCEPT !.hdr = h] \in Reads
      BY <1>0 DEF Reads
    <3>. QED  BY <1>0, <3>1
  <2>4. Slots \in SUBSET (0..NReader)
    BY Constants
  <2>5. hdr' \in Hdrs /\ rd' \in [Conns -> Reads] /\ excl' \in SUBSET (0..NReader)
    BY <1>0, <1>5, <2>2, <2>3, <2>4 DEF RestartLog, TypeInv
  <2>6. count' \in [salt : Nat, tx : 0..MaxTx, checkpoint : Nat, crash : Nat]
    BY <1>0, <1>5 DEF RestartLog
  <2>. QED  BY <1>5, <2>1, <2>5, <2>6 DEF RestartLog, TypeInv
<1>6. CASE ResetMarks
  <2>1. w' \in Writers
    BY <1>0, <1>6 DEF ResetMarks, Writers, TxPcs
  <2>2. aReadMark' \in [Slots -> 0..NotUsed] /\ nBackfill' \in 0..MaxFrame
    BY <1>6, Constants DEF ResetMarks
  <2>. QED  BY <1>6, <2>1, <2>2 DEF ResetMarks, TypeInv
<1>7. CASE ReadAgain
  <2>1. w' \in Writers
    BY <1>0, <1>7 DEF ReadAgain, Writers, TxPcs
  <2>2. [rd[Writer] EXCEPT !.readLock = NoLock, !.useWal = TRUE, !.pc = "pick"] \in Reads
    BY <1>0 DEF mine, Reads, ReadPcs
  <2>. QED  BY <1>0, <1>7, <2>1, <2>2 DEF ReadAgain, TypeInv, shm
<1>8. CASE WriteLogHeader
  <2>. DEFINE salt == IF w.nCkpt = 0 THEN count.salt + 1 ELSE mine.hdr.salt
              log == [salt |-> salt, nCkpt |-> w.nCkpt]
  <2>1. salt \in Nat /\ log \in Logs
    BY <1>0 DEF Hdrs, Logs, Writers
  <2>2. w' \in Writers
    <3>1. 0 \in 0..MaxFrame /\ mine.hdr.mxFrame \in 0..MaxFrame
      BY <1>0, Constants DEF Hdrs
    <3>2. \/ w' = [w EXCEPT !.pc = "synclog", !.iFrame = 0]
          \/ w' = [w EXCEPT !.pc = "frames", !.iFrame = mine.hdr.mxFrame]
      BY <1>8 DEF WriteLogHeader
    <3>3. \A x \in 0..MaxFrame, pc \in TxPcs : [w EXCEPT !.pc = pc, !.iFrame = x] \in Writers
      BY <1>0 DEF Writers
    <3>4. "synclog" \in TxPcs /\ "frames" \in TxPcs
      BY DEF TxPcs
    <3>. QED  BY <3>1, <3>2, <3>3, <3>4
  <2>3. [rd[Writer] EXCEPT !.hdr.salt = salt] \in Reads
    <3>1. [rd[Writer].hdr EXCEPT !.salt = salt] \in Hdrs
      BY <1>0, <2>1 DEF Hdrs, mine
    <3>. HIDE DEF salt
    <3>. QED  BY <1>0, <3>1 DEF Reads, mine
  <2>4. mine.hdr.mxFrame = 0 =>
          /\ file' = [file EXCEPT !.log = log]
          /\ loose' = [loose EXCEPT !.log = @ \cup {log}]
          /\ rd' = [rd EXCEPT ![Writer].hdr.salt = salt]
          /\ count' = [count EXCEPT !.salt = IF salt > @ THEN salt ELSE @]
    BY <1>8 DEF WriteLogHeader
  <2>5. mine.hdr.mxFrame # 0 => UNCHANGED <<file, loose, rd, count>>
    BY <1>8 DEF WriteLogHeader
  <2>. HIDE DEF salt, log
  <2>6. rd' \in [Conns -> Reads]
    BY <1>0, <2>3, <2>4, <2>5
  <2>7. count' \in [salt : Nat, tx : 0..MaxTx, checkpoint : Nat, crash : Nat]
    BY <1>0, <2>1, <2>4, <2>5
  <2>8. /\ file' \in [log : Logs, wal : [1..MaxFrame -> Frames], db : [Pages -> Vals]]
        /\ loose' \in [log : SUBSET Logs, wal : [1..MaxFrame -> SUBSET Frames],
                       db : [Pages -> SUBSET Vals]]
    <3>1. CASE mine.hdr.mxFrame = 0
      <4>1. loose.log \cup {log} \in SUBSET Logs
        BY <2>1 DEF TypeInv
      <4>2. file' = [log |-> log, wal |-> file.wal, db |-> file.db]
        BY <2>4, <3>1 DEF TypeInv
      <4>3. loose' = [log |-> loose.log \cup {log}, wal |-> loose.wal, db |-> loose.db]
        BY <2>4, <3>1 DEF TypeInv
      <4>4. /\ file.wal \in [1..MaxFrame -> Frames] /\ file.db \in [Pages -> Vals]
            /\ loose.wal \in [1..MaxFrame -> SUBSET Frames]
            /\ loose.db \in [Pages -> SUBSET Vals]
        BY DEF TypeInv
      <4>. QED  BY <2>1, <4>1, <4>2, <4>3, <4>4
    <3>2. CASE mine.hdr.mxFrame # 0
      BY <2>5, <3>2 DEF TypeInv
    <3>. QED  BY <3>1, <3>2
  <2>. QED  BY <1>8, <2>2, <2>6, <2>7, <2>8 DEF WriteLogHeader, TypeInv, shm
<1>9. CASE SyncLogHeader
  <2>1. w' \in Writers
    BY <1>0, <1>9 DEF SyncLogHeader, Writers, TxPcs
  <2>. QED  BY <1>9, <2>1, SyncType DEF SyncLogHeader, TypeInv, shm
<1>10. CASE WriteFrame
  <2>. DEFINE p == NextPage
              f == Overwritten
              i == w.iFrame + 1
              new == [page |-> p, val |-> w.cache[p], commit |-> w.isCommit /\ IsLast,
                      salt |-> IF w.iReCksum # 0 THEN 0 ELSE mine.hdr.salt,
                      sum |-> IF w.iReCksum # 0 THEN <<>>
                              ELSE Append(SumOf(w.iFrame), <<p, w.cache[p], w.isCommit /\ IsLast>>)]
  <2>1. p \in Pages /\ p \in 0..NPage /\ f \in 0..MaxFrame /\ w.cache[p] \in Vals
        /\ w.isCommit \in BOOLEAN /\ w.iFrame \in 0..MaxFrame /\ w.list \in SUBSET Pages
    <3>1. p \in Pages /\ f \in 0..MaxFrame
      BY <1>10, NextPageType, OverwrittenType DEF WriteFrame
    <3>2. p \in 0..NPage
      BY <3>1, Constants DEF Pages
    <3>. QED  BY <1>0, <3>1, <3>2 DEF Writers
  <2>2. IF f # 0
          THEN /\ WriteWal(f, [file.wal[f] EXCEPT !.val = w.cache[p]])
               /\ w' = [w EXCEPT !.list = @ \ {p},
                                 !.iReCksum = IF @ = 0 \/ f < @ THEN f ELSE @]
          ELSE /\ w.iFrame < MaxFrame
               /\ WriteWal(i, new)
               /\ w' = [w EXCEPT !.list = @ \ {p}, !.iFrame = i]
    BY <1>10 DEF WriteFrame
  <2>3. new \in Frames
    <3>1. <<p, w.cache[p], w.isCommit /\ IsLast>> \in Bodies
      BY <2>1 DEF Bodies
    <3>2. SumOf(w.iFrame) \in Seq(Bodies) /\ <<>> \in Seq(Bodies)
      BY <2>1, SumType
    <3>3. Append(SumOf(w.iFrame), <<p, w.cache[p], w.isCommit /\ IsLast>>) \in Seq(Bodies)
      BY <3>1, <3>2
    <3>4. mine.hdr.salt \in Nat
      BY <1>0 DEF Hdrs
    <3>. QED  BY <2>1, <3>2, <3>3, <3>4 DEF Frames
  <2>. HIDE DEF p, f, new
  <2>4. CASE f # 0
    <3>1. f \in 1..MaxFrame /\ file.wal[f] \in Frames
      <4>1. f \in 1..MaxFrame
        BY <2>1, <2>4, Constants
      <4>. QED  BY <4>1 DEF TypeInv
    <3>2. [file.wal[f] EXCEPT !.val = w.cache[p]] \in Frames
      BY <2>1, <3>1 DEF Frames
    <3>3. w' \in Writers
      <4>1. (IF w.iReCksum = 0 \/ f < w.iReCksum THEN f ELSE w.iReCksum) \in 0..MaxFrame
        BY <1>0, <2>1 DEF Writers
      <4>2. w' = [w EXCEPT !.list = @ \ {p},
                           !.iReCksum = IF @ = 0 \/ f < @ THEN f ELSE @]
        BY <2>2, <2>4
      <4>3. w.list \ {p} \in SUBSET Pages
        BY <2>1
      <4>. QED  BY <1>0, <4>1, <4>2, <4>3 DEF Writers
    <3>. QED  BY <1>10, <2>2, <2>4, <3>1, <3>2, <3>3, WriteType DEF WriteFrame, TypeInv, shm
  <2>5. CASE f = 0
    <3>1. i \in 1..MaxFrame /\ i \in 0..MaxFrame
      BY <2>1, <2>2, <2>5, Constants
    <3>2. w' \in Writers
      <4>1. w' = [w EXCEPT !.list = @ \ {p}, !.iFrame = i]
        BY <2>2, <2>5
      <4>2. w.list \ {p} \in SUBSET Pages
        BY <2>1
      <4>. QED  BY <1>0, <3>1, <4>1, <4>2 DEF Writers
    <3>. QED  BY <1>10, <2>2, <2>3, <2>5, <3>1, <3>2, WriteType DEF WriteFrame, TypeInv, shm
  <2>. QED  BY <2>4, <2>5
<1>11. CASE WriteFails
  BY <1>11, EndTxType DEF WriteFails, TypeInv, shm
<1>12. CASE EndSpill
  <2>0. 0 \in 0..MaxFrame /\ 0 \in 0..NotUsed /\ w.iFrame \in 0..MaxFrame
    BY <1>0, Constants DEF Writers
  <2>1. w' \in Writers
    BY <1>0, <1>12, <2>0 DEF EndSpill, Writers, TxPcs
  <2>2. [rd[Writer] EXCEPT !.hdr.mxFrame = w.iFrame] \in Reads
    <3>1. [rd[Writer].hdr EXCEPT !.mxFrame = w.iFrame] \in Hdrs
      BY <1>0, <2>0 DEF Hdrs, mine
    <3>. QED  BY <1>0, <3>1 DEF Reads, mine
  <2>. QED  BY <1>0, <1>12, <2>1, <2>2 DEF EndSpill, TypeInv, shm
<1>13. CASE RewriteChecksums
  <2>. DEFINE sum(k) == SumOf(w.iReCksum - 1)
                        \o [j \in 1..(k - w.iReCksum + 1) |-> Body(file.wal[w.iReCksum + j - 1])]
              fixed(k) == [file.wal[k] EXCEPT !.salt = mine.hdr.salt, !.sum = sum(k)]
              new == [k \in 1..MaxFrame |-> IF k \in w.iReCksum..w.iFrame THEN fixed(k)
                                            ELSE file.wal[k]]
  <2>1. /\ w.iReCksum \in 1..MaxFrame /\ w.iFrame \in 0..MaxFrame /\ w.iReCksum - 1 \in 0..MaxFrame
        /\ file' = [file EXCEPT !.wal = new]
        /\ loose' = [loose EXCEPT !.wal = [k \in 1..MaxFrame |-> @[k] \cup {new[k]}]]
        /\ w' = [w EXCEPT !.iReCksum = 0]
    <3>1. w.iReCksum \in 0..MaxFrame /\ w.iFrame \in 0..MaxFrame /\ w.iReCksum # 0
      BY <1>0, <1>13 DEF RewriteChecksums, Writers
    <3>2. w.iReCksum \in 1..MaxFrame /\ w.iReCksum - 1 \in 0..MaxFrame
      BY <1>z, <3>1
    <3>3. /\ file' = [file EXCEPT !.wal = new]
          /\ loose' = [loose EXCEPT !.wal = [k \in 1..MaxFrame |-> @[k] \cup {new[k]}]]
          /\ w' = [w EXCEPT !.iReCksum = 0]
      BY <1>13 DEF RewriteChecksums
    <3>. HIDE DEF new
    <3>. QED  BY <3>1, <3>2, <3>3
  <2>2. \A k \in 1..MaxFrame : Body(file.wal[k]) \in Bodies /\ file.wal[k] \in Frames
    BY DEF TypeInv, Frames, Bodies, Body
  <2>3. \A k \in w.iReCksum..w.iFrame : sum(k) \in Seq(Bodies)
    <3>. SUFFICES ASSUME NEW k \in w.iReCksum..w.iFrame PROVE sum(k) \in Seq(Bodies)
      OBVIOUS
    <3>1. SumOf(w.iReCksum - 1) \in Seq(Bodies)
      BY <2>1, SumType
    <3>0. k \in Nat /\ w.iReCksum \in Nat /\ w.iReCksum >= 1 /\ k >= w.iReCksum
          /\ k <= w.iFrame /\ w.iFrame \in Nat /\ w.iFrame <= MaxFrame
      <4>1. w.iReCksum \in 1..MaxFrame /\ w.iFrame \in 0..MaxFrame
        BY <2>1
      <4>. QED  BY <1>z, <4>1
    <3>2. k - w.iReCksum + 1 \in Nat
      BY <3>0
    <3>3. \A j \in 1..(k - w.iReCksum + 1) : w.iReCksum + j - 1 \in 1..MaxFrame
      BY <1>z, <3>0
    <3>4. [j \in 1..(k - w.iReCksum + 1) |-> Body(file.wal[w.iReCksum + j - 1])] \in Seq(Bodies)
      BY <2>2, <3>2, <3>3
    <3>. QED  BY <3>1, <3>4
  <2>4. \A k \in 1..MaxFrame : new[k] \in Frames
    <3>. SUFFICES ASSUME NEW k \in 1..MaxFrame, k \in w.iReCksum..w.iFrame PROVE fixed(k) \in Frames
      BY <2>2
    <3>1. sum(k) \in Seq(Bodies) /\ file.wal[k] \in Frames /\ mine.hdr.salt \in Nat
      BY <1>0, <2>2, <2>3 DEF Hdrs
    <3>. HIDE DEF sum
    <3>. QED  BY <3>1 DEF Frames
  <2>. HIDE DEF new
  <2>5. new \in [1..MaxFrame -> Frames]
    BY <2>4 DEF new
  <2>6. [k \in 1..MaxFrame |-> loose.wal[k] \cup {new[k]}] \in [1..MaxFrame -> SUBSET Frames]
    BY <2>4 DEF TypeInv
  <2>7. w' \in Writers
    <3>1. 0 \in 0..MaxFrame
      BY Constants
    <3>. QED  BY <1>0, <2>1, <3>1 DEF Writers
  <2>. QED  BY <1>13, <2>1, <2>5, <2>6, <2>7 DEF RewriteChecksums, TypeInv, shm
<1>14. CASE SyncFrames
  <2>1. w' \in Writers
    BY <1>0, <1>14 DEF SyncFrames, Writers, TxPcs
  <2>. QED  BY <1>14, <2>1, SyncType DEF SyncFrames, TypeInv, shm
<1>15. CASE Publish
  <2>1. [mine.hdr EXCEPT !.mxFrame = w.iFrame, !.iChange = @ + 1] \in Hdrs
    <3>1. w.iFrame \in 0..MaxFrame /\ mine.hdr.iChange + 1 \in Nat
      BY <1>0 DEF Hdrs, Writers
    <3>. QED  BY <1>0, <3>1 DEF Hdrs
  <2>. QED  BY <1>15, <2>1, EndTxType DEF Publish, TypeInv
<1>. QED  BY <1>1, <1>2, <1>3, <1>4, <1>5, <1>6, <1>7, <1>8, <1>9, <1>10, <1>11, <1>12,
             <1>13, <1>14, <1>15 DEF Transaction

(* The steps of a checkpoint.  What it copies is in the log.               *)
LEMMA CheckpointType ==
  ASSUME TypeInv, LastWritten, CheckpointInv, PhaseInv, BeginCheckpoint \/ RunCheckpoint
  PROVE  TypeInv'
<1>0. /\ rd \in [Conns -> Reads] /\ w \in Writers /\ mine \in Reads /\ Writer \in Conns
      /\ count \in [salt : Nat, tx : 0..MaxTx, checkpoint : Nat, crash : Nat]
      /\ mine.hdr \in Hdrs /\ hdr \in Hdrs /\ rd[Writer] = mine
  BY Constants DEF TypeInv, mine, Reads
<1>1. 0 \in 0..MaxFrame /\ MaxFrame \in Nat /\ Slots \in SUBSET Nat /\ NotUsed = MaxFrame + 1
  BY Constants
<1>2. /\ w.i \in Nat /\ w.y \in 0..NotUsed /\ w.mxSafeFrame \in 0..MaxFrame
      /\ w.xBusy \in BOOLEAN /\ w.todo \in SUBSET Pages /\ hdr.mxFrame \in 0..MaxFrame
  BY <1>0 DEF Writers, Hdrs
<1>3. CASE BeginCheckpoint
  <2>1. [rd[Writer] EXCEPT !.hdr = hdr] \in Reads
    BY <1>0 DEF Reads
  <2>2. w' \in Writers
    <3>1. w' = [w EXCEPT !.i = 1, !.mxSafeFrame = hdr.mxFrame, !.xBusy = TRUE, !.pc = "marks"]
          \/ w' = [w EXCEPT !.i = 1, !.mxSafeFrame = hdr.mxFrame, !.xBusy = TRUE, !.pc = "wait"]
      BY <1>3 DEF BeginCheckpoint
    <3>2. \A pc \in CkptPcs, x \in 0..MaxFrame :
            [w EXCEPT !.i = 1, !.mxSafeFrame = x, !.xBusy = TRUE, !.pc = pc] \in Writers
      BY <1>0 DEF Writers
    <3>3. "marks" \in CkptPcs /\ "wait" \in CkptPcs
      BY DEF CkptPcs
    <3>4. /\ [w EXCEPT !.i = 1, !.mxSafeFrame = hdr.mxFrame, !.xBusy = TRUE, !.pc = "marks"]
               \in Writers
          /\ [w EXCEPT !.i = 1, !.mxSafeFrame = hdr.mxFrame, !.xBusy = TRUE, !.pc = "wait"]
               \in Writers
      BY <1>2, <3>2, <3>3
    <3>. QED  BY <3>1, <3>4
  <2>3. count' \in [salt : Nat, tx : 0..MaxTx, checkpoint : Nat, crash : Nat]
    BY <1>0, <1>3 DEF BeginCheckpoint
  <2>. QED  BY <1>0, <1>3, <2>1, <2>2, <2>3 DEF BeginCheckpoint, TypeInv, shm
<1>4. CASE ReadMark
  <2>1. aReadMark[w.i] \in 0..NotUsed
    BY <1>4 DEF ReadMark, TypeInv
  <2>2. w' = [w EXCEPT !.y = aReadMark[w.i], !.pc = "slot"] \/ w' = [w EXCEPT !.i = w.i + 1]
    BY <1>4 DEF ReadMark
  <2>3. w' \in Writers
    <3>1. w.i + 1 \in Nat
      BY <1>2
    <3>2. [w EXCEPT !.y = aReadMark[w.i], !.pc = "slot"] \in Writers
      BY <1>0, <2>1 DEF Writers, CkptPcs
    <3>3. [w EXCEPT !.i = w.i + 1] \in Writers
      BY <1>0, <3>1 DEF Writers
    <3>. QED  BY <2>2, <3>2, <3>3
  <2>. QED  BY <1>4, <2>3 DEF ReadMark, TypeInv, shm
<1>5. CASE RaiseMark
  <2>1. w' \in Writers
    <3>1. w.i + 1 \in Nat /\ w' = [w EXCEPT !.i = w.i + 1, !.pc = "marks"]
      BY <1>2, <1>5 DEF RaiseMark
    <3>. QED  BY <1>0, <3>1 DEF Writers, CkptPcs
  <2>2. (IF w.i = 1 THEN w.mxSafeFrame ELSE NotUsed) \in 0..NotUsed
    BY <1>1, <1>2
  <2>3. aReadMark' \in [Slots -> 0..NotUsed]
    BY <1>5, <2>2 DEF RaiseMark, TypeInv
  <2>. QED  BY <1>5, <2>1, <2>3 DEF RaiseMark, TypeInv
<1>6. CASE YieldToMark
  <2>1. w.y \in 0..MaxFrame /\ w.i + 1 \in Nat
    BY <1>1, <1>2, <1>6 DEF YieldToMark, At, CheckpointInv
  <2>2. w' = [w EXCEPT !.mxSafeFrame = w.y, !.xBusy = FALSE, !.i = w.i + 1, !.pc = "marks"]
    BY <1>6 DEF YieldToMark
  <2>3. w' \in Writers
    BY <1>0, <2>1, <2>2 DEF Writers, CkptPcs
  <2>. QED  BY <1>6, <2>3 DEF YieldToMark, TypeInv, shm
<1>7. CASE SkipBackfill
  <2>1. w' \in Writers
    <3>1. w' = [w EXCEPT !.pc = "wait", !.xBusy = @ /\ nBackfill >= w.mxSafeFrame]
      BY <1>7 DEF SkipBackfill
    <3>2. (w.xBusy /\ nBackfill >= w.mxSafeFrame) \in BOOLEAN
      OBVIOUS
    <3>. QED  BY <1>0, <3>1, <3>2 DEF Writers, CkptPcs
  <2>. QED  BY <1>7, <2>1 DEF SkipBackfill, TypeInv, shm
<1>8. CASE StartBackfill
  <2>1. w' \in Writers
    BY <1>0, <1>8 DEF StartBackfill, Writers, CkptPcs
  <2>2. excl' \in SUBSET (0..NReader)
    BY <1>8, Constants DEF StartBackfill
  <2>. QED  BY <1>8, <2>1, <2>2, SyncType DEF StartBackfill, TypeInv, shm
<1>9. CASE CopyPage
  <2>. DEFINE p == Min(w.todo)
              val == file.wal[LastFrame(mine.hdr.mxFrame, p)].val
  <2>1. p \in w.todo /\ p \in Pages
    <3>1. w.todo \in SUBSET Nat /\ w.todo # {}
      BY <1>2, <1>9, Constants DEF CopyPage
    <3>. QED  BY <1>2, <3>1, MinIs
  <2>2. val \in Vals
    <3>1. mine.hdr = hdr
      BY <1>9 DEF CopyPage, At, PhaseInv, CkptPcs
    <3>2. LastFrame(hdr.mxFrame, p) \in nBackfill + 1..w.mxSafeFrame
      BY <1>9, <2>1 DEF CopyPage, At, CheckpointInv, Last
    <3>3. nBackfill \in Nat
      BY Constants DEF TypeInv
    <3>4. LastFrame(hdr.mxFrame, p) \in 1..MaxFrame
      BY <1>1, <1>2, <3>2, <3>3
    <3>. QED  BY <3>1, <3>4 DEF TypeInv, Frames
  <2>3. /\ file' = [file EXCEPT !.db[p] = val]
        /\ loose' = [loose EXCEPT !.db[p] = @ \cup {val}]
        /\ w' = [w EXCEPT !.todo = @ \ {p}]
    BY <1>9 DEF CopyPage
  <2>. HIDE DEF p, val
  <2>4. w' \in Writers
    BY <1>0, <1>2, <2>3 DEF Writers
  <2>5. [file.db EXCEPT ![p] = val] \in [Pages -> Vals]
    BY <2>1, <2>2 DEF TypeInv
  <2>6. [loose.db EXCEPT ![p] = @ \cup {val}] \in [Pages -> SUBSET Vals]
    BY <2>1, <2>2 DEF TypeInv
  <2>. QED  BY <1>9, <2>3, <2>4, <2>5, <2>6 DEF CopyPage, TypeInv, shm
<1>10. CASE SyncDb
  <2>1. w' \in Writers
    BY <1>0, <1>10 DEF SyncDb, Writers, CkptPcs
  <2>2. [p \in Pages |-> {file.db[p]}] \in [Pages -> SUBSET Vals]
    BY DEF TypeInv
  <2>3. loose' = [loose EXCEPT !.db = [p \in Pages |-> {file.db[p]}]] \/ loose' = loose
    BY <1>10 DEF SyncDb
  <2>. QED  BY <1>10, <2>1, <2>2, <2>3 DEF SyncDb, TypeInv, shm
<1>11. CASE SetBackfill
  <2>1. w' \in Writers
    BY <1>0, <1>11 DEF SetBackfill, Writers, CkptPcs
  <2>. QED  BY <1>2, <1>11, <2>1 DEF SetBackfill, TypeInv
<1>12. CASE CheckpointBusy \/ CheckpointOk
  <2>1. EndTx /\ UNCHANGED <<shm, file, loose, excl, count>>
    BY <1>12 DEF CheckpointBusy, CheckpointOk, EndCheckpoint
  <2>. QED  BY <2>1, EndTxType DEF TypeInv, shm
<1>. QED  BY <1>3, <1>4, <1>5, <1>6, <1>7, <1>8, <1>9, <1>10, <1>11, <1>12 DEF RunCheckpoint

LEMMA OutcomesIs ==
  ASSUME NEW D, NEW V, NEW sets \in [D -> SUBSET V], NEW f \in Outcomes(sets)
  PROVE  f \in [D -> V] /\ \A x \in D : f[x] \in sets[x]
<1>1. f \in [D -> UNION Range(sets)] /\ \A x \in D : f[x] \in sets[x]
  BY DEF Outcomes
<1>. QED  BY <1>1

LEMMA RecoveredType ==
  ASSUME NEW f
  PROVE  /\ Recovered(f) \in 0..MaxFrame
         /\ Recovered(f) # 0 => /\ f.wal[Recovered(f)].commit /\ Valid(f, Recovered(f))
                                /\ f.log # NoLog
         /\ f.log # NoLog =>
              \A n \in 1..MaxFrame : f.wal[n].commit /\ Valid(f, n) => n <= Recovered(f)
<1>. DEFINE S == {0} \cup {n \in 1..MaxFrame : f.wal[n].commit /\ Valid(f, n)}
<1>1. S \in SUBSET (0..MaxFrame) /\ S # {} /\ MaxFrame \in Nat
  BY Constants
<1>2. Max(S) \in S /\ \A y \in S : y <= Max(S)
  <2>. HIDE DEF S
  <2>. QED  BY <1>1, MaxIs
<1>3. Recovered(f) = IF f.log = NoLog THEN 0 ELSE Max(S)
  BY DEF Recovered
<1>. QED  BY <1>1, <1>2, <1>3

LEMMA CrashType ==
  ASSUME TypeInv, Crash
  PROVE  TypeInv' /\ LastWritten'
<1>1. PICK log \in loose.log,
           wal \in Outcomes([i \in 1..MaxFrame |-> Left(loose.wal[i], NoFrame)]),
           db \in Outcomes([p \in Pages |-> Left(loose.db[p], Torn)]) :
        /\ Restart([log |-> log, wal |-> wal, db |-> db])
        /\ loose' = [log |-> {log}, wal |-> [i \in 1..MaxFrame |-> {wal[i]}],
                     db |-> [p \in Pages |-> {db[p]}]]
  BY DEF Crash
<1>. DEFINE f == [log |-> log, wal |-> wal, db |-> db]
<1>2. log \in Logs
  BY DEF TypeInv
<1>3. wal \in [1..MaxFrame -> Frames]
  <2>1. [i \in 1..MaxFrame |-> Left(loose.wal[i], NoFrame)] \in [1..MaxFrame -> SUBSET Frames]
    BY EmptyTypes DEF Left, TypeInv
  <2>. QED  BY <2>1, OutcomesIs
<1>4. db \in [Pages -> Vals]
  <2>1. [p \in Pages |-> Left(loose.db[p], Torn)] \in [Pages -> SUBSET Vals]
    BY EmptyTypes DEF Left, TypeInv
  <2>. QED  BY <2>1, OutcomesIs
<1>5. f \in [log : Logs, wal : [1..MaxFrame -> Frames], db : [Pages -> Vals]]
  BY <1>2, <1>3, <1>4
<1>6. loose' \in [log : SUBSET Logs, wal : [1..MaxFrame -> SUBSET Frames], db : [Pages -> SUBSET Vals]]
  BY <1>1, <1>2, <1>3, <1>4
<1>7. LastWritten'
  BY <1>1, <1>2, <1>3, <1>4 DEF Restart, LastWritten
<1>8. Restart(f)
  BY <1>1
<1>. HIDE DEF f
<1>9. f.log.nCkpt \in Nat /\ f.log.salt \in Nat
  BY <1>5 DEF Logs
<1>10. Recovered(f) \in 0..MaxFrame
  BY RecoveredType
<1>11. hdr' \in Hdrs
  BY <1>8, <1>9, <1>10 DEF Restart, Hdrs
<1>12. aReadMark' \in [Slots -> 0..NotUsed] /\ nBackfill' \in 0..MaxFrame
  BY <1>8, <1>10, Constants DEF Restart
<1>13. w' \in Writers
  BY <1>8, <1>9, EmptyTypes DEF Restart, Writers
<1>14. rd' \in [Conns -> Reads]
  BY <1>8, EmptyTypes DEF Restart
<1>15. excl' \in SUBSET (0..NReader)
  BY <1>8 DEF Restart
<1>16. count' \in [salt : Nat, tx : 0..MaxTx, checkpoint : Nat, crash : Nat]
  <2>1. count' = [count EXCEPT !.crash = @ + 1]
    BY <1>8 DEF Restart
  <2>2. count \in [salt : Nat, tx : 0..MaxTx, checkpoint : Nat, crash : Nat]
    BY DEF TypeInv
  <2>3. count.crash + 1 \in Nat
    BY <2>2
  <2>. QED  BY <2>1, <2>2, <2>3
<1>. QED  BY <1>5, <1>6, <1>7, <1>8, <1>11, <1>12, <1>13, <1>14, <1>15, <1>16
          DEF TypeInv, Restart

LEMMA TypeStep ==
  ASSUME TypeInv, LastWritten, CheckpointInv, PhaseInv, [Next]_vars
  PROVE  TypeInv'
<1>1. CASE UNCHANGED vars
  BY <1>1 DEF vars, TypeInv
<1>2. CASE \E c \in Conns : BeginRead(c)
  BY <1>2, ReadType
<1>3. CASE \E c \in Readers : EndRead(c)
  BY <1>3, ReadType, Constants
<1>. QED  BY <1>1, <1>2, <1>3, TransactionType, CheckpointType, CrashType DEF Next

-----------------------------------------------------------------------------
LEMMA Types ==
  ASSUME TypeInv
  PROVE  /\ rd \in [Conns -> Reads] /\ w \in Writers /\ mine \in Reads /\ rd[Writer] = mine
         /\ hdr \in Hdrs /\ mine.hdr \in Hdrs
         /\ count \in [salt : Nat, tx : 0..MaxTx, checkpoint : Nat, crash : Nat]
         /\ nBackfill \in Nat /\ hdr.mxFrame \in Nat /\ mine.hdr.mxFrame \in Nat
         /\ count.salt \in Nat /\ hdr.salt \in Nat /\ hdr.iChange \in Nat
         /\ mine.hdr.salt \in Nat /\ mine.hdr.iChange \in Nat
<1>1. /\ rd \in [Conns -> Reads] /\ w \in Writers /\ mine \in Reads /\ rd[Writer] = mine
      /\ hdr \in Hdrs /\ mine.hdr \in Hdrs
      /\ count \in [salt : Nat, tx : 0..MaxTx, checkpoint : Nat, crash : Nat]
  BY Constants DEF TypeInv, mine, Reads
<1>2. nBackfill \in Nat
  BY Constants DEF TypeInv
<1>3. hdr.mxFrame \in Nat /\ mine.hdr.mxFrame \in Nat
  BY <1>1, Constants DEF Hdrs
<1>. QED  BY <1>1, <1>2, <1>3 DEF Hdrs

LEMMA WriteFrameType ==
  ASSUME TypeInv, WriteFrame
  PROVE  \E i \in 1..MaxFrame, f \in Frames :
           /\ WriteWal(i, f)
           /\ f.salt \in {0, mine.hdr.salt} \/ f.salt = file.wal[i].salt
<1>0. rd \in [Conns -> Reads] /\ w \in Writers /\ mine \in Reads /\ mine.hdr \in Hdrs
  BY Types
<1>. DEFINE p == NextPage
            f == Overwritten
            i == w.iFrame + 1
            body == <<p, w.cache[p], w.isCommit /\ IsLast>>
            new == [page |-> p, val |-> w.cache[p], commit |-> w.isCommit /\ IsLast,
                    salt |-> IF w.iReCksum # 0 THEN 0 ELSE mine.hdr.salt,
                    sum |-> IF w.iReCksum # 0 THEN <<>> ELSE Append(SumOf(w.iFrame), body)]
<1>1. p \in Pages /\ p \in 0..NPage /\ f \in 0..MaxFrame /\ w.cache[p] \in Vals
      /\ w.isCommit \in BOOLEAN /\ w.iFrame \in 0..MaxFrame
  <2>1. p \in Pages /\ f \in 0..MaxFrame
    BY NextPageType, OverwrittenType DEF WriteFrame
  <2>2. p \in 0..NPage
    BY <2>1, Constants DEF Pages
  <2>. QED  BY <1>0, <2>1, <2>2 DEF Writers
<1>2. IF f # 0 THEN WriteWal(f, [file.wal[f] EXCEPT !.val = w.cache[p]])
               ELSE w.iFrame < MaxFrame /\ WriteWal(i, new)
  BY DEF WriteFrame
<1>3. new \in Frames
  <2>1. body \in Bodies
    BY <1>1 DEF Bodies
  <2>2. SumOf(w.iFrame) \in Seq(Bodies) /\ <<>> \in Seq(Bodies)
    BY <1>1, SumType
  <2>. HIDE DEF body
  <2>3. Append(SumOf(w.iFrame), body) \in Seq(Bodies)
    BY <2>1, <2>2
  <2>4. mine.hdr.salt \in Nat
    BY <1>0 DEF Hdrs
  <2>. QED  BY <1>1, <2>2, <2>3, <2>4 DEF Frames
<1>. HIDE DEF p, f, new
<1>4. CASE f # 0
  <2>1. f \in 1..MaxFrame
    BY <1>1, <1>4, Constants
  <2>2. [file.wal[f] EXCEPT !.val = w.cache[p]] \in Frames
    <3>1. file.wal[f] \in Frames
      BY <2>1 DEF TypeInv
    <3>. QED  BY <1>1, <3>1 DEF Frames
  <2>3. [file.wal[f] EXCEPT !.val = w.cache[p]].salt = file.wal[f].salt
    BY <2>1 DEF TypeInv, Frames
  <2>. QED  BY <1>2, <1>4, <2>1, <2>2, <2>3
<1>5. CASE f = 0
  <2>1. i \in 1..MaxFrame
    BY <1>1, <1>2, <1>5, Constants
  <2>2. new.salt \in {0, mine.hdr.salt}
    BY DEF new
  <2>. QED  BY <1>2, <1>3, <1>5, <2>1, <2>2
<1>. QED  BY <1>4, <1>5

LEMMA LastWrittenStep ==
  ASSUME TypeInv, LastWritten, [Next]_vars
  PROVE  LastWritten'
<1>1. CASE UNCHANGED <<file, loose>>
  BY <1>1 DEF LastWritten
<1>2. CASE file' = file /\ loose' = SyncedLog
  BY <1>2, SyncType DEF LastWritten
<1>3. CASE WriteLogHeader
  <2>1. CASE UNCHANGED <<file, loose>>
    BY <2>1, <1>1
  <2>2. CASE ~UNCHANGED <<file, loose>>
    <3>1. PICK log : /\ file' = [file EXCEPT !.log = log]
                     /\ loose' = [loose EXCEPT !.log = @ \cup {log}]
      BY <1>3, <2>2 DEF WriteLogHeader
    <3>. QED  BY <3>1 DEF LastWritten, TypeInv
  <2>. QED  BY <2>1, <2>2
<1>4. CASE WriteFrame
  BY <1>4, WriteFrameType, WriteType
<1>5. CASE RewriteChecksums
  <2>1. PICK new : /\ file' = [file EXCEPT !.wal = new]
                   /\ loose' = [loose EXCEPT !.wal = [k \in 1..MaxFrame |-> @[k] \cup {new[k]}]]
    BY <1>5 DEF RewriteChecksums
  <2>. QED  BY <2>1 DEF LastWritten, TypeInv
<1>6. CASE CopyPage
  <2>1. PICK p, v : /\ file' = [file EXCEPT !.db[p] = v]
                    /\ loose' = [loose EXCEPT !.db[p] = @ \cup {v}]
    BY <1>6 DEF CopyPage
  <2>. QED  BY <2>1 DEF LastWritten, TypeInv
<1>7. CASE SyncDb
  <2>1. file' = file /\ (loose' = loose \/ loose' = [loose EXCEPT !.db = [p \in Pages |-> {file.db[p]}]])
    BY <1>7 DEF SyncDb
  <2>. QED  BY <2>1 DEF LastWritten, TypeInv
<1>8. CASE Crash
  BY <1>8, CrashType
<1>9. CASE StartBackfill \/ SyncLogHeader \/ SyncFrames
  BY <1>2, <1>9 DEF StartBackfill, SyncLogHeader, SyncFrames
<1>10. CASE UNCHANGED vars \/ (\E c \in Conns : BeginRead(c)) \/ (\E c \in Readers : EndRead(c))
  BY <1>1, <1>10 DEF vars, BeginRead, EndRead, ReadHdr, ChooseLog, LockZero, PickMark, LockMark,
     CheckMark
<1>11. CASE \/ BeginTx \/ Rollback \/ (\E p \in Pages : Spill(p))
            \/ (\E ps \in SUBSET Pages : Commit(ps)) \/ RestartLog \/ ResetMarks \/ ReadAgain
            \/ WriteFails \/ EndSpill \/ Publish
  BY <1>1, <1>11 DEF BeginTx, Rollback, Spill, Commit, WalFrames, RestartLog, ResetMarks,
     ReadAgain, WriteFails, EndSpill, Publish
<1>12. CASE \/ BeginCheckpoint \/ ReadMark \/ RaiseMark \/ YieldToMark \/ SkipBackfill
            \/ SetBackfill \/ CheckpointBusy \/ CheckpointOk
  BY <1>1, <1>12 DEF BeginCheckpoint, ReadMark, RaiseMark, YieldToMark, SkipBackfill,
     SetBackfill, CheckpointBusy, CheckpointOk, EndCheckpoint
<1>. QED  BY <1>3, <1>4, <1>5, <1>6, <1>7, <1>8, <1>9, <1>10, <1>11, <1>12
          DEF Next, Transaction, RunCheckpoint

-----------------------------------------------------------------------------
(* A transaction and its frames begin. *)
LEMMA TxBegins ==
  ASSUME TypeInv,
         \/ BeginTx
         \/ \E p \in Pages : Spill(p)
         \/ \E ps \in SUBSET Pages : Commit(ps)
  PROVE  /\ UNCHANGED <<hdr, nBackfill, aReadMark, file, rd, excl>>
         /\ w.pc \in {"idle", "tx"} /\ w'.pc \in {"tx", "restart", "loghdr"}
<1>0. w \in Writers
  BY Types
<1>1. CASE BeginTx
  <2>1. w'.pc = "tx"
    BY <1>0, <1>1 DEF BeginTx, Writers
  <2>. QED  BY <1>1, <2>1 DEF BeginTx, shm, At
<1>2. ASSUME NEW list, NEW isCommit, NEW cache, WalFrames(list, isCommit, cache)
      PROVE  /\ UNCHANGED <<hdr, nBackfill, aReadMark, file, rd, excl>>
             /\ w.pc \in {"idle", "tx"} /\ w'.pc \in {"tx", "restart", "loghdr"}
  <2>1. w'.pc = IF mine.readLock = 0 THEN "restart" ELSE "loghdr"
    BY <1>0, <1>2 DEF WalFrames, Writers
  <2>. QED  BY <1>2, <2>1 DEF WalFrames, shm, At
<1>. QED  BY <1>1, <1>2 DEF Spill, Commit

(* What a step of a read changes. *)
LEMMA RetryIs ==
  ASSUME TypeInv, NEW c \in Conns, Retry(c)
  PROVE  /\ rd'[c] = IF rd[c].useWal THEN [rd[c] EXCEPT !.pc = "pick", !.readLock = NoLock]
                                    ELSE NoRead
         /\ \A d \in Conns \ {c} : rd'[d] = rd[d]
BY Types DEF Retry

LEMMA BeginReadIs ==
  ASSUME TypeInv, NEW c \in Conns, BeginRead(c)
  PROVE  /\ UNCHANGED <<hdr, nBackfill, file, loose, w, excl, count>>
         /\ \A d \in Conns \ {c} : rd'[d] = rd[d]
         /\ \/ aReadMark' = aReadMark
            \/ \E i \in Slots : CanExclude(i)
                 /\ aReadMark' = [aReadMark EXCEPT ![i] = rd[c].hdr.mxFrame]
<1>1. UNCHANGED <<hdr, nBackfill, file, loose, w, excl, count>>
  BY DEF BeginRead, ReadHdr, ChooseLog, LockZero, PickMark, LockMark, CheckMark, shm
<1>2. rd \in [Conns -> Reads]
  BY Types
<1>3. \A d \in Conns \ {c} : rd'[d] = rd[d]
  BY <1>2 DEF BeginRead, ReadHdr, ChooseLog, LockZero, PickMark, LockMark, CheckMark, Retry, Goto
<1>4. aReadMark' = aReadMark \/ PickMark(c)
  BY DEF BeginRead, ReadHdr, ChooseLog, LockZero, LockMark, CheckMark, shm
<1>5. ASSUME PickMark(c), aReadMark' # aReadMark
      PROVE  \E i \in Slots : CanExclude(i)
               /\ aReadMark' = [aReadMark EXCEPT ![i] = rd[c].hdr.mxFrame]
  <2>. DEFINE free == {i \in Slots : CanExclude(i)}
  <2>1. free # {} /\ aReadMark' = [aReadMark EXCEPT ![Min(free)] = rd[c].hdr.mxFrame]
    BY <1>5 DEF PickMark
  <2>2. Min(free) \in free
    <3>1. free \in SUBSET Nat
      <4>1. Slots \subseteq Nat
        BY Constants
      <4>. QED  BY <4>1
    <3>. HIDE DEF free
    <3>. QED  BY <2>1, <3>1, MinIs
  <2>. QED  BY <2>1, <2>2
<1>. QED  BY <1>1, <1>3, <1>4, <1>5

(* The choice of a mark. *)
LEMMA PickMarkIs ==
  ASSUME TypeInv, NEW c \in Conns, PickMark(c)
  PROVE  \/ Retry(c)
         \/ \E i \in Slots :
              /\ rd'[c] = [rd[c] EXCEPT !.mxI = i, !.mark = aReadMark'[i], !.pc = "lock"]
              /\ aReadMark'[i] <= rd[c].hdr.mxFrame
<1>. DEFINE x == rd[c].hdr.mxFrame
            free == {i \in Slots : CanExclude(i)}
            best == BestSlot(x)
            raise == best = 0 \/ aReadMark[best] < x
            i == IF raise /\ free # {} THEN Min(free) ELSE best
<1>1. /\ aReadMark' = IF raise /\ free # {} THEN [aReadMark EXCEPT ![i] = x] ELSE aReadMark
      /\ IF i = 0 THEN Retry(c)
         ELSE rd' = [rd EXCEPT ![c].mxI = i, ![c].mark = aReadMark'[i], ![c].pc = "lock"]
  BY DEF PickMark
<1>2. x \in 0..MaxFrame /\ x \in Nat /\ rd \in [Conns -> Reads]
  BY Types, Constants DEF Reads, Hdrs
<1>3. best \in Slots \cup {0} /\ (best \in Slots => aReadMark[best] <= x)
  BY <1>2, BestIs
<1>4. free # {} => Min(free) \in Slots
  <2>1. free \in SUBSET Nat /\ free \in SUBSET Slots
    <3>1. Slots \subseteq Nat
      BY Constants
    <3>. QED  BY <3>1
  <2>. HIDE DEF free
  <2>. QED  BY <2>1, MinIs
<1>5. i # 0 => i \in Slots
  BY <1>3, <1>4
<1>6. i # 0 => aReadMark'[i] <= x
  <2>1. CASE raise /\ free # {}
    <3>1. i \in Slots
      BY <1>4, <2>1
    <3>2. aReadMark'[i] = x
      <4>1. aReadMark' = [aReadMark EXCEPT ![i] = x]
        BY <1>1, <2>1
      <4>. HIDE DEF i, x
      <4>. QED  BY <3>1, <4>1 DEF TypeInv
    <3>. QED  BY <1>2, <3>2
  <2>2. CASE ~(raise /\ free # {})
    BY <1>1, <1>3, <2>2
  <2>. QED  BY <2>1, <2>2
<1>. HIDE DEF i, x
<1>7. i # 0 => rd'[c] = [rd[c] EXCEPT !.mxI = i, !.mark = aReadMark'[i], !.pc = "lock"]
  BY <1>1, <1>2
<1>. QED  BY <1>1, <1>5, <1>6, <1>7 DEF x

LEMMA ReadOkKept ==
  ASSUME TypeInv, TypeInv', NEW c \in Conns, ReadOk(c), rd'[c] = rd[c],
         hdr' = hdr, nBackfill' = nBackfill, count'.salt >= count.salt
  PROVE  ReadOk(c)'
<1>1. count.salt \in Nat /\ count'.salt \in Nat /\ rd[c].hdr.salt \in Nat
  <2>1. rd[c] \in Reads
    BY Types
  <2>2. count'.salt \in Nat
    BY DEF TypeInv
  <2>. QED  BY <2>1, <2>2, Types DEF Reads, Hdrs
<1>. QED  BY <1>1 DEF ReadOk

LEMMA NoReadOk ==
  ASSUME TypeInv', NEW c \in Conns, rd'[c] = NoRead
  PROVE  ReadOk(c)'
<1>1. count'.salt \in Nat /\ hdr'.iChange \in Nat
  BY DEF TypeInv, Hdrs
<1>. QED  BY <1>1, Constants DEF ReadOk, NoRead, Held

LEMMA ReadStep ==
  ASSUME TypeInv, TypeInv', ReadInv, CountInv, NEW c \in Conns,
         BeginRead(c) \/ (c \in Readers /\ EndRead(c))
  PROVE  ReadInv'
<1>0. rd[c] \in Reads /\ rd \in [Conns -> Reads] /\ ReadOk(c) /\ rd[c].hdr \in Hdrs
      /\ nBackfill \in Nat /\ hdr.iChange \in Nat /\ hdr.salt \in Nat /\ count.salt \in Nat
  BY Types DEF ReadInv, Reads
<1>1. /\ UNCHANGED <<hdr, nBackfill, count>> /\ \A d \in Conns \ {c} : rd'[d] = rd[d]
  BY <1>0, BeginReadIs DEF EndRead, shm
<1>2. ASSUME Retry(c) PROVE ReadOk(c)'
  <2>1. rd'[c] = IF rd[c].useWal THEN [rd[c] EXCEPT !.pc = "pick", !.readLock = NoLock] ELSE NoRead
    BY <1>2, RetryIs
  <2>2. CASE rd[c].useWal
    <3>1. /\ rd'[c].pc = "pick" /\ rd'[c].readLock = NoLock /\ rd'[c].hdr = rd[c].hdr
          /\ rd'[c].useWal = rd[c].useWal
      <4>1. rd'[c] = [rd[c] EXCEPT !.pc = "pick", !.readLock = NoLock]
        BY <2>1, <2>2
      <4>2. rd[c] \in Reads
        BY <1>0
      <4>. QED  BY <4>1, <4>2 DEF Reads
    <3>. QED  BY <1>0, <1>1, <3>1, Constants DEF ReadOk, Held
  <2>3. CASE ~rd[c].useWal
    BY <2>1, <2>3, NoReadOk
  <2>. QED  BY <2>2, <2>3
<1>3. ReadOk(c)'
  <2>1. CASE ReadHdr(c)
    <3>1. /\ rd'[c].pc = "hdr" /\ rd'[c].hdr = hdr /\ rd'[c].readLock = rd[c].readLock
          /\ rd'[c].useWal = rd[c].useWal /\ rd[c].pc = "out" /\ rd'[c].minFrame = rd[c].minFrame
      BY <1>0, <2>1 DEF ReadHdr, Reads
    <3>2. hdr.salt <= count.salt
      BY DEF CountInv
    <3>. QED  BY <1>0, <1>1, <3>1, <3>2, Constants DEF ReadOk, Held
  <2>2. CASE ChooseLog(c)
    <3>1. /\ rd'[c].hdr = rd[c].hdr /\ rd'[c].readLock = rd[c].readLock
          /\ rd'[c].useWal = rd[c].useWal /\ rd[c].pc = "hdr" /\ rd'[c].minFrame = rd[c].minFrame
          /\ rd'[c].pc = IF nBackfill = rd[c].hdr.mxFrame THEN "zero" ELSE "pick"
      BY <1>0, <2>2 DEF ChooseLog, Goto, Reads
    <3>. QED  BY <1>0, <1>1, <3>1 DEF ReadOk, Held
  <2>3. CASE LockZero(c)
    <3>1. CASE Retry(c)
      BY <1>2, <3>1
    <3>2. CASE ~Retry(c)
      <4>1. /\ rd'[c].hdr = rd[c].hdr /\ rd'[c].useWal = rd[c].useWal /\ rd[c].pc = "zero"
            /\ rd'[c].minFrame = rd[c].minFrame
            /\ \/ rd'[c].pc = "pick" /\ rd'[c].readLock = rd[c].readLock
               \/ rd'[c].pc = "in" /\ rd'[c].readLock = 0
        BY <1>0, <2>3, <3>2 DEF LockZero, Goto, Reads
      <4>. QED  BY <1>0, <1>1, <4>1, Constants DEF ReadOk, Held
    <3>. QED  BY <3>1, <3>2
  <2>4. CASE PickMark(c)
    <3>1. CASE Retry(c)
      BY <1>2, <3>1
    <3>2. CASE ~Retry(c)
      <4>1. PICK i \in Slots :
              /\ rd'[c] = [rd[c] EXCEPT !.mxI = i, !.mark = aReadMark'[i], !.pc = "lock"]
              /\ aReadMark'[i] <= rd[c].hdr.mxFrame
        BY <2>4, <3>2, PickMarkIs
      <4>2. /\ rd'[c].hdr = rd[c].hdr /\ rd'[c].useWal = rd[c].useWal /\ rd[c].pc = "pick"
            /\ rd'[c].minFrame = rd[c].minFrame /\ rd'[c].readLock = rd[c].readLock
            /\ rd'[c].pc = "lock" /\ rd'[c].mxI = i /\ rd'[c].mark = aReadMark'[i]
        BY <1>0, <2>4, <4>1 DEF PickMark, Reads
      <4>. QED  BY <1>0, <1>1, <4>1, <4>2 DEF ReadOk, Held
    <3>. QED  BY <3>1, <3>2
  <2>5. CASE LockMark(c)
    <3>1. CASE Retry(c)
      BY <1>2, <3>1
    <3>2. CASE ~Retry(c)
      <4>1. /\ rd'[c].hdr = rd[c].hdr /\ rd'[c].useWal = rd[c].useWal /\ rd[c].pc = "lock"
            /\ rd'[c].minFrame = nBackfill + 1 /\ rd'[c].readLock = rd[c].mxI
            /\ rd'[c].pc = "check" /\ rd'[c].mxI = rd[c].mxI /\ rd'[c].mark = rd[c].mark
        BY <1>0, <2>5, <3>2 DEF LockMark, Reads
      <4>. QED  BY <1>0, <1>1, <4>1, Constants DEF ReadOk, Held
    <3>. QED  BY <3>1, <3>2
  <2>6. CASE CheckMark(c)
    <3>1. CASE Retry(c)
      BY <1>2, <3>1
    <3>2. CASE ~Retry(c)
      <4>1. /\ rd'[c].hdr = rd[c].hdr /\ rd'[c].useWal = rd[c].useWal /\ rd[c].pc = "check"
            /\ rd'[c].minFrame = rd[c].minFrame /\ rd'[c].readLock = rd[c].readLock
            /\ rd'[c].pc = "in"
        BY <1>0, <2>6, <3>2 DEF CheckMark, Reads
      <4>. QED  BY <1>0, <1>1, <4>1 DEF ReadOk, Held
    <3>. QED  BY <3>1, <3>2
  <2>7. CASE EndRead(c)
    BY <1>0, <2>7, NoReadOk DEF EndRead
  <2>. QED  BY <2>1, <2>2, <2>3, <2>4, <2>5, <2>6, <2>7 DEF BeginRead
<1>4. \A d \in Conns \ {c} : ReadOk(d)'
  BY <1>0, <1>1, ReadOkKept DEF ReadInv
<1>. QED  BY <1>3, <1>4 DEF ReadInv

LEMMA EndTxIs ==
  ASSUME TypeInv, EndTx
  PROVE  /\ rd'[Writer] = NoRead /\ \A d \in Readers : rd'[d] = rd[d]
         /\ w'.pc = "idle" /\ w'.list = {} /\ w'.todo = {}
<1>1. rd'[Writer] = NoRead /\ \A d \in Readers : rd'[d] = rd[d]
  BY Types, Constants DEF EndTx
<1>. QED  BY <1>1 DEF EndTx, IdleWriter

LEMMA ReadInvStep ==
  ASSUME TypeInv, TypeInv', ReadInv, LockInv, PhaseInv, CountInv, OwnInv, CheckpointInv,
         [Next]_vars
  PROVE  ReadInv'
<1>0. /\ rd \in [Conns -> Reads] /\ mine \in Reads /\ rd[Writer] = mine /\ ReadOk(Writer)
      /\ hdr \in Hdrs /\ mine.hdr \in Hdrs /\ nBackfill \in Nat /\ hdr.mxFrame \in Nat
      /\ hdr.salt \in Nat /\ hdr.iChange \in Nat /\ count.salt \in Nat
      /\ mine.hdr.salt \in Nat /\ mine.hdr.iChange \in Nat /\ mine.hdr.mxFrame \in Nat
      /\ \A c \in Conns : rd[c] \in Reads /\ rd[c].hdr \in Hdrs
      /\ \A c \in Conns : rd[c].hdr.salt \in Nat /\ rd[c].hdr.iChange \in Nat
  <2>1. \A c \in Conns : rd[c] \in Reads /\ rd[c].hdr \in Hdrs
    BY Types DEF Reads
  <2>. QED  BY <2>1, Types, Constants DEF ReadInv, Hdrs
<1>1. CASE UNCHANGED <<rd, hdr, nBackfill, count>>
  BY <1>0, <1>1, ReadOkKept DEF ReadInv
<1>2. ASSUME \A d \in Readers : rd'[d] = rd[d], UNCHANGED <<hdr, nBackfill>>,
             count'.salt >= count.salt, ReadOk(Writer)'
      PROVE  ReadInv'
  BY <1>2, ReadOkKept DEF ReadInv, Conns
<1>3. ASSUME EndTx, UNCHANGED <<hdr, nBackfill, count>>
      PROVE  ReadInv'
  <2>1. ReadOk(Writer)'
    BY <1>3, EndTxIs, NoReadOk, Constants
  <2>2. count'.salt >= count.salt
    BY <1>0, <1>3
  <2>. QED  BY <1>2, <1>3, <2>1, <2>2, EndTxIs
<1>4. CASE BeginTx
  <2>1. UNCHANGED <<rd, hdr, nBackfill>> /\ count'.salt = count.salt
    BY <1>0, <1>4, Types DEF BeginTx, shm
  <2>. QED  BY <1>0, <2>1, ReadOkKept DEF ReadInv
<1>5. CASE RestartLog
  <2>1. CASE UNCHANGED <<rd, hdr, nBackfill, count>>
    BY <1>1, <2>1
  <2>2. CASE ~UNCHANGED <<rd, hdr, nBackfill, count>>
    <3>1. /\ hdr' = [mine.hdr EXCEPT !.mxFrame = 0, !.salt = count.salt + 1]
          /\ rd' = [rd EXCEPT ![Writer].hdr = hdr']
          /\ count' = [count EXCEPT !.salt = @ + 1]
          /\ nBackfill' = nBackfill /\ w.pc = "restart"
      BY <1>5, <2>2 DEF RestartLog, At
    <3>2. mine.hdr = hdr /\ mine.pc = "in" /\ mine.readLock = 0
      BY <3>1 DEF PhaseInv, OwnInv, HeadOk, InTx, TxPcs
    <3>3. /\ hdr'.salt = count.salt + 1 /\ hdr'.iChange = hdr.iChange
          /\ count'.salt = count.salt + 1
      BY <1>0, <3>1, <3>2, Types DEF Hdrs
    <3>4. ASSUME NEW d \in Readers PROVE ReadOk(d)'
      <4>1. d \in Conns /\ rd'[d] = rd[d] /\ ReadOk(d)
        BY <1>0, <3>1, Constants DEF ReadInv
      <4>2. rd'[d].hdr # hdr'
        BY <1>0, <3>3, <4>1 DEF ReadOk
      <4>. QED  BY <1>0, <3>1, <3>3, <4>1, <4>2 DEF ReadOk
    <3>5. ReadOk(Writer)'
      <4>1. /\ rd'[Writer].pc = "in" /\ rd'[Writer].readLock = 0 /\ rd'[Writer].hdr = hdr'
        BY <1>0, <3>1, <3>2, Constants DEF Reads
      <4>. QED  BY <1>0, <3>3, <4>1, Constants DEF ReadOk, Held
    <3>. QED  BY <3>4, <3>5 DEF ReadInv, Conns
  <2>. QED  BY <2>1, <2>2
<1>6. CASE ResetMarks
  <2>1. w.pc = "reset" /\ nBackfill' = 0 /\ UNCHANGED <<hdr, rd, count>>
    BY <1>6 DEF ResetMarks, At
  <2>2. \A c \in Conns : rd[c].readLock \notin Slots
    BY <2>1 DEF LockInv, Shared
  <2>3. hdr.mxFrame = 0
    BY <2>1 DEF CheckpointInv
  <2>. QED  BY <2>1, <2>2, <2>3 DEF ReadInv, ReadOk
<1>7. CASE ReadAgain
  <2>1. /\ rd' = [rd EXCEPT ![Writer].readLock = NoLock, ![Writer].useWal = TRUE,
                            ![Writer].pc = "pick"]
        /\ UNCHANGED <<hdr, nBackfill, count>>
    BY <1>7 DEF ReadAgain, shm
  <2>2. /\ rd'[Writer].pc = "pick" /\ rd'[Writer].readLock = NoLock
        /\ rd'[Writer].hdr = rd[Writer].hdr
    BY <1>0, <2>1, Constants DEF Reads
  <2>3. ReadOk(Writer)'
    BY <1>0, <2>1, <2>2, Constants DEF ReadOk, Held
  <2>. QED  BY <1>0, <1>2, <2>1, <2>3, Constants
<1>8. CASE WriteLogHeader
  <2>1. CASE UNCHANGED <<rd, count>>
    BY <1>1, <1>8, <2>1 DEF WriteLogHeader, shm
  <2>2. CASE ~UNCHANGED <<rd, count>>
    <3>1. PICK salt : /\ salt = IF w.nCkpt = 0 THEN count.salt + 1 ELSE mine.hdr.salt
                      /\ rd' = [rd EXCEPT ![Writer].hdr.salt = salt]
                      /\ count' = [count EXCEPT !.salt = IF salt > @ THEN salt ELSE @]
                      /\ UNCHANGED <<hdr, nBackfill>> /\ mine.pc = "in"
      BY <1>8, <2>2 DEF WriteLogHeader, shm
    <3>2. salt \in Nat
      BY <1>0, <3>1
    <3>3. count'.salt >= count.salt /\ count'.salt >= salt
      BY <1>0, <3>1, <3>2, Types
    <3>4. /\ rd'[Writer].pc = "in" /\ rd'[Writer].readLock = rd[Writer].readLock
          /\ rd'[Writer].minFrame = rd[Writer].minFrame
          /\ rd'[Writer].hdr.salt = salt /\ rd'[Writer].hdr.iChange = rd[Writer].hdr.iChange
      BY <1>0, <3>1, Constants DEF Reads, Hdrs
    <3>5. ReadOk(Writer)'
      BY <1>0, <3>1, <3>2, <3>3, <3>4, Constants DEF ReadOk, Held
    <3>. QED  BY <1>0, <1>2, <3>1, <3>3, <3>5, Constants
  <2>. QED  BY <2>1, <2>2
<1>9. CASE EndSpill
  <2>1. /\ rd' = [rd EXCEPT ![Writer].hdr.mxFrame = w.iFrame]
        /\ UNCHANGED <<hdr, nBackfill, count>> /\ w.pc = "frames"
    BY <1>9 DEF EndSpill, shm, At
  <2>2. mine.pc = "in"
    BY <2>1 DEF PhaseInv
  <2>3. /\ rd'[Writer].pc = "in" /\ rd'[Writer].readLock = rd[Writer].readLock
        /\ rd'[Writer].minFrame = rd[Writer].minFrame
        /\ rd'[Writer].hdr.salt = rd[Writer].hdr.salt
        /\ rd'[Writer].hdr.iChange = rd[Writer].hdr.iChange
    BY <1>0, <2>1, <2>2, Constants DEF Reads, Hdrs
  <2>4. ReadOk(Writer)'
    BY <1>0, <2>1, <2>2, <2>3, Constants DEF ReadOk, Held
  <2>. QED  BY <1>0, <1>2, <2>1, <2>4, Constants
<1>10. CASE Publish
  <2>1. /\ hdr' = [mine.hdr EXCEPT !.mxFrame = w.iFrame, !.iChange = @ + 1]
        /\ EndTx /\ UNCHANGED <<nBackfill, count>> /\ w.pc = "publish"
    BY <1>10 DEF Publish, At
  <2>2. mine.hdr.iChange = hdr.iChange
    BY <2>1 DEF PhaseInv, OwnInv, HeadOk, InTx, TxPcs
  <2>3. hdr'.iChange = hdr.iChange + 1
    BY <1>0, <2>1, <2>2 DEF Hdrs
  <2>4. ASSUME NEW d \in Readers PROVE ReadOk(d)'
    <3>1. d \in Conns /\ rd'[d] = rd[d] /\ ReadOk(d)
      BY <2>1, EndTxIs, Constants DEF ReadInv
    <3>2. rd'[d].hdr # hdr'
      BY <1>0, <2>3, <3>1 DEF ReadOk
    <3>. QED  BY <1>0, <2>1, <2>3, <3>1, <3>2 DEF ReadOk
  <2>5. ReadOk(Writer)'
    BY <2>1, EndTxIs, NoReadOk, Constants
  <2>. QED  BY <2>4, <2>5 DEF ReadInv, Conns
<1>11. CASE BeginCheckpoint
  <2>1. /\ rd' = [rd EXCEPT ![Writer].hdr = hdr] /\ UNCHANGED <<hdr, nBackfill>>
        /\ count'.salt = count.salt /\ w.pc = "idle"
    BY <1>11, Types DEF BeginCheckpoint, shm, At
  <2>2. rd'[Writer].hdr = hdr /\ rd'[Writer].pc = "out" /\ rd'[Writer].readLock = NoLock
    BY <1>0, <2>1, Constants DEF PhaseInv, NoRead, Reads
  <2>3. ReadOk(Writer)'
    BY <1>0, <2>1, <2>2, Constants DEF ReadOk, Held, CountInv
  <2>. QED  BY <1>0, <1>2, <2>1, <2>3, Constants
<1>12. CASE SetBackfill
  <2>1. w.pc = "copied" /\ nBackfill' = w.mxSafeFrame /\ UNCHANGED <<hdr, rd, count>>
    BY <1>12 DEF SetBackfill, At
  <2>2. nBackfill < w.mxSafeFrame /\ w.mxSafeFrame <= hdr.mxFrame /\ w.mxSafeFrame \in Nat
    BY <2>1, Types, Constants DEF CheckpointInv, CkptPcs, Writers
  <2>. QED  BY <1>0, <2>1, <2>2 DEF ReadInv, ReadOk
<1>13. CASE Crash
  BY <1>13, NoReadOk DEF Crash, Restart, ReadInv
<1>14. CASE \E c \in Conns : BeginRead(c)
  BY <1>14, ReadStep
<1>15. CASE \E c \in Readers : EndRead(c)
  BY <1>15, ReadStep, Constants
<1>16. CASE Rollback \/ WriteFails \/ CheckpointBusy \/ CheckpointOk
  BY <1>3, <1>16 DEF Rollback, WriteFails, CheckpointBusy, CheckpointOk, EndCheckpoint, shm
<1>17. CASE \/ UNCHANGED vars \/ (\E p \in Pages : Spill(p))
            \/ (\E ps \in SUBSET Pages : Commit(ps)) \/ SyncLogHeader \/ WriteFrame
            \/ RewriteChecksums \/ SyncFrames
  BY <1>1, <1>17 DEF vars, shm, Spill, Commit, WalFrames, SyncLogHeader, WriteFrame,
     RewriteChecksums, SyncFrames
<1>18. CASE \/ ReadMark \/ RaiseMark \/ YieldToMark \/ SkipBackfill \/ StartBackfill \/ CopyPage
            \/ SyncDb
  BY <1>1, <1>18 DEF shm, ReadMark, RaiseMark, YieldToMark, SkipBackfill, StartBackfill,
     CopyPage, SyncDb
<1>. QED  BY <1>4, <1>5, <1>6, <1>7, <1>8, <1>9, <1>10, <1>11, <1>12, <1>13, <1>14, <1>15,
             <1>16, <1>17, <1>18 DEF Next, Transaction, RunCheckpoint

-----------------------------------------------------------------------------
(* Locks. *)
LEMMA LocksKept ==
  ASSUME LockInv, excl' = excl,
         (w'.pc = "reset") <=> (w.pc = "reset"),
         (w'.pc \in {"copy", "copied"}) <=> (w.pc \in {"copy", "copied"}),
         \A c \in Conns : rd'[c].readLock \in {rd[c].readLock, NoLock}
  PROVE  LockInv'
<1>1. \A i \in excl : i # NoLock
  BY Constants DEF LockInv
<1>2. \A i \in excl : Shared(i)' = {}
  BY <1>1 DEF LockInv, Shared
<1>. QED  BY <1>2 DEF LockInv

LEMMA LockTaken ==
  ASSUME TypeInv, NEW c \in Conns, BeginRead(c)
  PROVE  rd'[c].readLock \in {rd[c].readLock, NoLock} \/ rd'[c].readLock \notin excl
<1>0. rd[c] \in Reads /\ rd \in [Conns -> Reads]
  BY Types
<1>1. Retry(c) => rd'[c].readLock = NoLock
  <2>1. [rd[c] EXCEPT !.pc = "pick", !.readLock = NoLock].readLock = NoLock
    BY <1>0 DEF Reads
  <2>2. NoRead.readLock = NoLock
    BY DEF NoRead
  <2>. QED  BY <2>1, <2>2, RetryIs
<1>2. CASE ReadHdr(c) \/ ChooseLog(c)
  BY <1>0, <1>2 DEF ReadHdr, ChooseLog, Goto, Reads
<1>3. CASE LockZero(c)
  BY <1>0, <1>1, <1>3 DEF LockZero, Goto, CanShare, Reads
<1>4. CASE PickMark(c)
  <2>1. CASE Retry(c)
    BY <1>1, <2>1
  <2>2. CASE ~Retry(c)
    <3>1. PICK i \in Slots :
            rd'[c] = [rd[c] EXCEPT !.mxI = i, !.mark = aReadMark'[i], !.pc = "lock"]
      BY <1>4, <2>2, PickMarkIs
    <3>. QED  BY <1>0, <3>1 DEF Reads
  <2>. QED  BY <2>1, <2>2
<1>5. CASE LockMark(c)
  BY <1>0, <1>1, <1>5 DEF LockMark, CanShare, Reads
<1>6. CASE CheckMark(c)
  BY <1>0, <1>1, <1>6 DEF CheckMark, Reads
<1>. QED  BY <1>2, <1>3, <1>4, <1>5, <1>6 DEF BeginRead

LEMMA LockInvStep ==
  ASSUME TypeInv, LockInv, [Next]_vars
  PROVE  LockInv'
<1>0. /\ rd \in [Conns -> Reads] /\ w \in Writers /\ mine \in Reads /\ rd[Writer] = mine
      /\ \A c \in Conns : rd[c] \in Reads /\ rd[c].hdr \in Hdrs
  BY Types DEF Reads
<1>1. CASE UNCHANGED <<rd, excl>> /\ w'.pc \notin {"reset", "copy", "copied"}
                                  /\ w.pc \notin {"reset", "copy", "copied"}
  BY <1>1, LocksKept
<1>2. ASSUME EndTx, excl' = excl, w.pc \notin {"reset", "copy", "copied"}
      PROVE  LockInv'
  <2>1. w'.pc = "idle" /\ \A c \in Conns : rd'[c].readLock \in {rd[c].readLock, NoLock}
    BY <1>2, EndTxIs DEF NoRead, Conns
  <2>. QED  BY <1>2, <2>1, LocksKept
<1>3. ASSUME NEW c \in Conns, BeginRead(c) PROVE LockInv'
  <2>1. excl' = excl /\ w' = w /\ \A d \in Conns \ {c} : rd'[d] = rd[d]
    BY <1>3, BeginReadIs
  <2>2. \A i \in excl : Shared(i)' = {}
    <3>1. \A i \in excl : i # NoLock
      BY Constants DEF LockInv
    <3>. QED  BY <1>3, <2>1, <3>1, LockTaken DEF LockInv, Shared
  <2>. QED  BY <2>1, <2>2 DEF LockInv
<1>4. ASSUME NEW c \in Readers, EndRead(c) PROVE LockInv'
  <2>1. \A d \in Conns : rd'[d].readLock \in {rd[d].readLock, NoLock}
    BY <1>0, <1>4, Constants DEF EndRead, NoRead
  <2>2. UNCHANGED <<excl, w>>
    BY <1>4 DEF EndRead
  <2>. QED  BY <2>1, <2>2, LocksKept
<1>5. CASE RestartLog
  <2>0. w.pc = "restart" /\ w'.pc \in {"reset", "reread"}
    BY <1>0, <1>5 DEF RestartLog, At, Writers
  <2>1. CASE UNCHANGED <<excl, rd>> /\ w'.pc = "reread"
    BY <1>1, <2>0, <2>1
  <2>2. CASE ~(UNCHANGED <<excl, rd>> /\ w'.pc = "reread")
    <3>1. /\ \A i \in Slots : CanExclude(i)
          /\ excl' = Slots /\ rd' = [rd EXCEPT ![Writer].hdr = hdr']
          /\ w' = [w EXCEPT !.pc = "reset", !.nCkpt = @ + 1]
      BY <1>0, <1>5, <2>2 DEF RestartLog, Writers
    <3>2. \A c \in Conns : rd'[c].readLock = rd[c].readLock
      BY <1>0, <3>1 DEF Reads
    <3>3. w'.pc = "reset"
      BY <1>0, <3>1 DEF Writers
    <3>. QED  BY <3>1, <3>2, <3>3 DEF LockInv, Shared, CanExclude
  <2>. QED  BY <2>1, <2>2
<1>6. CASE ResetMarks \/ SetBackfill
  <2>1. excl' = {} /\ w'.pc \notin {"reset", "copy", "copied"}
    BY <1>0, <1>6 DEF ResetMarks, SetBackfill, Writers
  <2>. QED  BY <2>1 DEF LockInv
<1>7. CASE StartBackfill
  <2>1. /\ excl' = {0} /\ w'.pc = "copy" /\ CanExclude(0) /\ rd' = rd
    BY <1>0, <1>7 DEF StartBackfill, Writers
  <2>. QED  BY <2>1 DEF LockInv, Shared, CanExclude
<1>8. CASE CopyPage \/ SyncDb
  <2>1. UNCHANGED <<rd, excl>> /\ w.pc = "copy" /\ w'.pc \in {"copy", "copied"}
    BY <1>0, <1>8 DEF CopyPage, SyncDb, At, Writers
  <2>. QED  BY <2>1, LocksKept
<1>9. CASE ReadAgain \/ WriteLogHeader \/ EndSpill \/ BeginCheckpoint
  <2>1. excl' = excl /\ w'.pc \notin {"reset", "copy", "copied"}
        /\ w.pc \notin {"reset", "copy", "copied"}
    BY <1>0, <1>9 DEF ReadAgain, WriteLogHeader, EndSpill, BeginCheckpoint, At, Writers
  <2>2. \A c \in Conns : rd'[c].readLock \in {rd[c].readLock, NoLock}
    BY <1>0, <1>9 DEF ReadAgain, WriteLogHeader, EndSpill, BeginCheckpoint, Reads
  <2>. QED  BY <2>1, <2>2, LocksKept
<1>10. CASE Crash
  <2>1. w'.pc = "idle" /\ excl' = {}
    BY <1>10 DEF Crash, Restart, IdleWriter
  <2>. QED  BY <2>1 DEF LockInv
<1>11. CASE Rollback \/ WriteFails \/ Publish \/ CheckpointBusy \/ CheckpointOk
  <2>1. EndTx /\ excl' = excl /\ w.pc \notin {"reset", "copy", "copied"}
    BY <1>11 DEF Rollback, WriteFails, Publish, CheckpointBusy, CheckpointOk, EndCheckpoint, At
  <2>. QED  BY <1>2, <2>1
<1>12. CASE UNCHANGED vars
  BY <1>12, LocksKept DEF vars
<1>13. CASE \/ BeginTx \/ (\E p \in Pages : Spill(p)) \/ (\E ps \in SUBSET Pages : Commit(ps))
            \/ SyncLogHeader \/ SyncFrames
  <2>1. UNCHANGED <<rd, excl>> /\ w'.pc \in {"tx", "restart", "loghdr", "frames", "publish"}
        /\ w.pc \in {"idle", "tx", "synclog", "frames"}
    BY <1>0, <1>13, TxBegins DEF SyncLogHeader, SyncFrames, At, Writers
  <2>. QED  BY <1>1, <2>1
<1>14. CASE WriteFrame \/ RewriteChecksums
  <2>1. UNCHANGED <<rd, excl>> /\ w'.pc = "frames" /\ w.pc = "frames"
    BY <1>0, <1>14 DEF WriteFrame, RewriteChecksums, At, Writers
  <2>. QED  BY <1>1, <2>1
<1>15. CASE ReadMark \/ RaiseMark \/ YieldToMark \/ SkipBackfill
  <2>1. UNCHANGED <<rd, excl>> /\ w'.pc \in {"marks", "slot", "wait"}
        /\ w.pc \in {"marks", "slot"}
    BY <1>0, <1>15 DEF ReadMark, RaiseMark, YieldToMark, SkipBackfill, At, Writers
  <2>. QED  BY <1>1, <2>1
<1>. QED  BY <1>3, <1>4, <1>5, <1>6, <1>7, <1>8, <1>9, <1>10, <1>11, <1>12, <1>13, <1>14, <1>15
          DEF Next, Transaction, RunCheckpoint

-----------------------------------------------------------------------------
(* The writer's place. *)
LEMMA PhaseRead ==
  ASSUME TypeInv, PhaseInv, OwnInv, ReadInv, NEW c \in Conns, BeginRead(c)
  PROVE  PhaseInv'
<1>0. /\ rd \in [Conns -> Reads] /\ mine \in Reads /\ rd[Writer] = mine /\ ReadOk(Writer)
      /\ UNCHANGED <<hdr, w>> /\ \A d \in Conns \ {c} : rd'[d] = rd[d]
  BY Types, BeginReadIs, Constants DEF ReadInv
<1>1. CASE c # Writer
  <2>1. mine' = mine
    BY <1>0, <1>1, Constants DEF mine
  <2>. QED  BY <1>0, <2>1 DEF PhaseInv, mine
<1>2. CASE c = Writer
  <2>. USE <1>2
  <2>1. mine' = rd'[Writer]
    BY DEF mine
  <2>2. w.pc \in {"tx", "loghdr"} /\ (w.pc = "loghdr" => mine.pc \in {"pick", "lock", "check"})
        /\ mine.pc # "in"
    <3>1. mine.pc # "in" /\ (mine.pc = "out" => w.pc = "tx")
      BY <1>0 DEF BeginRead, ReadHdr, ChooseLog, LockZero, PickMark, LockMark, CheckMark
    <3>2. w.pc \in {"idle"} \cup TxPcs \cup CkptPcs
      BY Types DEF Writers
    <3>3. w.pc = "idle" => mine.pc = "out"
      BY <1>0 DEF PhaseInv, NoRead
    <3>. QED  BY <3>1, <3>2, <3>3 DEF PhaseInv, TxPcs, CkptPcs
  <2>3. CASE Retry(c)
    <3>1. rd'[Writer] = IF mine.useWal THEN [mine EXCEPT !.pc = "pick", !.readLock = NoLock]
                                       ELSE NoRead
      BY <1>0, <2>3, RetryIs
    <3>2. CASE mine.useWal
      <4>1. /\ mine'.pc = "pick" /\ mine'.readLock = NoLock /\ mine'.useWal = mine.useWal
        BY <1>0, <2>1, <3>1, <3>2 DEF Reads
      <4>2. w.pc = "loghdr"
        BY <2>2, <3>2 DEF PhaseInv
      <4>. QED  BY <1>0, <3>2, <4>1, <4>2, Constants DEF PhaseInv, CkptPcs
    <3>3. CASE ~mine.useWal
      <4>1. mine'.pc = "out" /\ ~mine'.useWal
        BY <2>1, <3>1, <3>3 DEF NoRead
      <4>2. w.pc = "tx"
        BY <2>2, <3>3 DEF PhaseInv
      <4>. QED  BY <1>0, <4>1, <4>2 DEF PhaseInv, CkptPcs
    <3>. QED  BY <3>2, <3>3
  <2>4. CASE ~Retry(c)
    <3>1. /\ mine'.useWal = mine.useWal
          /\ \/ mine'.pc \in {"hdr", "zero", "pick"} /\ mine.pc \in {"out", "hdr"}
             \/ mine'.pc \in {"pick", "in"} /\ mine.pc = "zero"
             \/ mine'.pc = "lock" /\ mine.pc = "pick" /\ mine'.readLock = mine.readLock
             \/ mine'.pc = "check" /\ mine.pc = "lock" /\ mine'.readLock = mine.mxI
             \/ mine'.pc = "in" /\ mine.pc = "check" /\ mine'.readLock = mine.readLock
      <4>1. CASE ReadHdr(c) \/ ChooseLog(c) \/ LockZero(c)
        BY <1>0, <2>1, <2>4, <4>1 DEF ReadHdr, ChooseLog, LockZero, Goto, Reads
      <4>2. CASE PickMark(c)
        <5>1. PICK i \in Slots :
                rd'[c] = [rd[c] EXCEPT !.mxI = i, !.mark = aReadMark'[i], !.pc = "lock"]
          BY <2>4, <4>2, PickMarkIs
        <5>. QED  BY <1>0, <2>1, <4>2, <5>1 DEF PickMark, Reads
      <4>3. CASE LockMark(c) \/ CheckMark(c)
        BY <1>0, <2>1, <2>4, <4>3 DEF LockMark, CheckMark, Reads
      <4>. QED  BY <4>1, <4>2, <4>3 DEF BeginRead
    <3>2. mine.pc = "lock" => mine.mxI # 0
      BY <1>0, Constants DEF ReadOk
    <3>3. w'.pc = w.pc /\ (w.pc = "tx" => ~mine.useWal) /\ (w.pc = "loghdr" => mine.useWal)
          /\ (w.pc = "loghdr" => mine.readLock # 0)
      BY <1>0, <2>2 DEF PhaseInv
    <3>4. w.pc = "loghdr" => mine'.pc \in {"pick", "lock", "check", "in"} /\ mine'.readLock # 0
      BY <2>2, <3>1, <3>2, <3>3
    <3>. QED  BY <2>2, <3>1, <3>3, <3>4 DEF PhaseInv, CkptPcs
  <2>. QED  BY <2>3, <2>4
<1>. QED  BY <1>1, <1>2

LEMMA PhaseInvStep ==
  ASSUME TypeInv, TypeInv', PhaseInv, OwnInv, ReadInv, [Next]_vars
  PROVE  PhaseInv'
<1>0. /\ rd \in [Conns -> Reads] /\ w \in Writers /\ mine \in Reads /\ rd[Writer] = mine
      /\ mine' = rd'[Writer] /\ ReadOk(Writer) /\ Writer \in Conns
  BY Types, Constants DEF mine, ReadInv
<1>1. ASSUME EndTx PROVE PhaseInv'
  BY <1>1, EndTxIs DEF PhaseInv, CkptPcs
<1>2. ASSUME mine' = mine, hdr' = hdr, w'.pc = w.pc \/ (w'.pc \in CkptPcs /\ w.pc \in CkptPcs)
      PROVE  PhaseInv'
  <2>1. CASE w'.pc = w.pc
    BY <1>0, <1>2, <2>1 DEF PhaseInv
  <2>2. CASE w'.pc \in CkptPcs /\ w.pc \in CkptPcs
    BY <1>2, <2>2 DEF PhaseInv, CkptPcs
  <2>. QED  BY <1>2, <2>1, <2>2
<1>3. CASE BeginTx
  <2>1. mine' = mine /\ hdr' = hdr /\ w'.pc = "tx" /\ w.pc = "idle"
    BY <1>0, <1>3 DEF BeginTx, shm, At, Writers
  <2>2. ~mine.useWal
    BY <1>0, <2>1 DEF PhaseInv, NoRead
  <2>. QED  BY <2>1, <2>2 DEF PhaseInv, CkptPcs
<1>4. ASSUME NEW list, NEW isCommit, NEW cache, WalFrames(list, isCommit, cache) PROVE PhaseInv'
  <2>1. mine' = mine /\ hdr' = hdr /\ mine.pc = "in"
        /\ w'.pc = IF mine.readLock = 0 THEN "restart" ELSE "loghdr"
    BY <1>0, <1>4 DEF WalFrames, shm, Writers
  <2>. QED  BY <2>1 DEF PhaseInv, CkptPcs
<1>5. CASE RestartLog
  <2>1. w'.pc \in {"reset", "reread"} /\ w.pc = "restart"
        /\ mine'.pc = mine.pc /\ mine'.readLock = mine.readLock
    <3>1. rd' = [rd EXCEPT ![Writer].hdr = hdr'] \/ rd' = rd
      BY <1>5 DEF RestartLog
    <3>2. mine'.pc = mine.pc /\ mine'.readLock = mine.readLock
      BY <1>0, <3>1 DEF Reads
    <3>3. w' = [w EXCEPT !.pc = "reset", !.nCkpt = @ + 1] \/ w' = [w EXCEPT !.pc = "reread"]
      BY <1>5 DEF RestartLog
    <3>. QED  BY <1>0, <1>5, <3>2, <3>3 DEF RestartLog, At, Writers
  <2>. QED  BY <2>1 DEF PhaseInv, CkptPcs
<1>6. CASE ResetMarks
  <2>1. w'.pc = "reread" /\ w.pc = "reset" /\ mine' = mine
    BY <1>0, <1>6 DEF ResetMarks, At, Writers
  <2>. QED  BY <2>1 DEF PhaseInv, CkptPcs
<1>7. CASE ReadAgain
  <2>1. w'.pc = "loghdr" /\ mine'.pc = "pick" /\ mine'.readLock = NoLock /\ mine'.useWal
    BY <1>0, <1>7 DEF ReadAgain, At, Writers, Reads
  <2>. QED  BY <2>1, Constants DEF PhaseInv, CkptPcs
<1>8. CASE WriteLogHeader
  <2>1. w'.pc \in {"synclog", "frames"} /\ w.pc = "loghdr" /\ mine.pc = "in"
        /\ mine'.pc = mine.pc /\ mine'.readLock = mine.readLock
    <3>1. rd' = rd \/ \E salt : rd' = [rd EXCEPT ![Writer].hdr.salt = salt]
      BY <1>8 DEF WriteLogHeader
    <3>2. mine'.pc = mine.pc /\ mine'.readLock = mine.readLock
      BY <1>0, <3>1 DEF Reads
    <3>3. \/ w' = [w EXCEPT !.pc = "synclog", !.iFrame = 0]
          \/ w' = [w EXCEPT !.pc = "frames", !.iFrame = mine.hdr.mxFrame]
      BY <1>8 DEF WriteLogHeader
    <3>. QED  BY <1>0, <1>8, <3>2, <3>3 DEF WriteLogHeader, At, Writers
  <2>. QED  BY <2>1 DEF PhaseInv, CkptPcs
<1>9. CASE SyncLogHeader \/ SyncFrames
  <2>1. w'.pc \in {"frames", "publish"} /\ w.pc \in {"synclog", "frames"} /\ mine' = mine
    BY <1>0, <1>9 DEF SyncLogHeader, SyncFrames, At, Writers
  <2>. QED  BY <2>1 DEF PhaseInv, CkptPcs
<1>10. CASE WriteFrame \/ RewriteChecksums
  <2>1. w'.pc = w.pc /\ mine' = mine /\ hdr' = hdr
    BY <1>0, <1>10 DEF WriteFrame, RewriteChecksums, shm, Writers
  <2>. QED  BY <1>2, <2>1
<1>11. CASE EndSpill
  <2>1. w'.pc = "tx" /\ w.pc = "frames" /\ mine'.pc = mine.pc
    BY <1>0, <1>11 DEF EndSpill, At, Writers, Reads
  <2>. QED  BY <2>1 DEF PhaseInv, CkptPcs
<1>12. CASE Rollback \/ WriteFails \/ Publish \/ CheckpointBusy \/ CheckpointOk
  BY <1>1, <1>12 DEF Rollback, WriteFails, Publish, CheckpointBusy, CheckpointOk, EndCheckpoint
<1>13. CASE BeginCheckpoint
  <2>1. w'.pc \in {"marks", "wait"} /\ w.pc = "idle" /\ hdr' = hdr
        /\ rd' = [rd EXCEPT ![Writer].hdr = hdr]
    BY <1>0, <1>13 DEF BeginCheckpoint, shm, At, Writers
  <2>2. mine.pc = "out" /\ ~mine.useWal
    BY <1>0, <2>1 DEF PhaseInv, NoRead
  <2>3. mine'.pc = mine.pc /\ mine'.useWal = mine.useWal /\ mine'.hdr = hdr
    BY <1>0, <2>1 DEF Reads
  <2>. QED  BY <2>1, <2>2, <2>3 DEF PhaseInv, CkptPcs
<1>14. CASE \/ ReadMark \/ RaiseMark \/ YieldToMark \/ SkipBackfill \/ StartBackfill
            \/ CopyPage \/ SyncDb \/ SetBackfill
  <2>1. w'.pc \in CkptPcs /\ w.pc \in CkptPcs /\ mine' = mine /\ hdr' = hdr
    BY <1>0, <1>14 DEF ReadMark, RaiseMark, YieldToMark, SkipBackfill, StartBackfill,
       CopyPage, SyncDb, SetBackfill, shm, At, Writers, CkptPcs
  <2>. QED  BY <1>2, <2>1
<1>15. CASE Crash
  <2>1. w'.pc = "idle" /\ rd'[Writer] = NoRead
    BY <1>0, <1>15 DEF Crash, Restart, IdleWriter
  <2>. QED  BY <2>1 DEF PhaseInv, CkptPcs
<1>16. CASE UNCHANGED vars
  BY <1>2, <1>16 DEF vars, mine
<1>17. CASE \E c \in Readers : EndRead(c)
  <2>1. mine' = mine /\ hdr' = hdr /\ w' = w
    BY <1>0, <1>17, Constants DEF EndRead, shm
  <2>. QED  BY <1>2, <2>1
<1>18. CASE \E c \in Conns : BeginRead(c)
  BY <1>18, PhaseRead
<1>. QED  BY <1>3, <1>4, <1>5, <1>6, <1>7, <1>8, <1>9, <1>10, <1>11, <1>12, <1>13, <1>14, <1>15,
             <1>16, <1>17, <1>18 DEF Next, Transaction, RunCheckpoint, Spill, Commit

(* Counters. *)
LEMMA CountInvStep ==
  ASSUME TypeInv, TypeInv', LastWritten, ReadInv, PhaseInv, OwnInv, CountInv, [Next]_vars
  PROVE  CountInv'
<1>0. /\ rd \in [Conns -> Reads] /\ w \in Writers /\ mine \in Reads /\ rd[Writer] = mine
      /\ ReadOk(Writer) /\ Writer \in Conns /\ hdr \in Hdrs /\ mine.hdr \in Hdrs
      /\ hdr.iChange \in Nat /\ count.salt \in Nat /\ mine.hdr.salt \in Nat
      /\ mine.hdr.iChange \in Nat
      /\ count.tx \in Nat /\ hdr.salt \in Nat
      /\ count \in [salt : Nat, tx : 0..MaxTx, checkpoint : Nat, crash : Nat]
  <2>1. count.tx \in Nat
    BY Types, Constants
  <2>. QED  BY <2>1, Types, Constants DEF ReadInv
<1>1. mine.hdr.salt <= count.salt
  BY <1>0 DEF ReadOk
<1>2. \A log \in loose.log : log.salt \in Nat
  BY DEF TypeInv, Logs
<1>3. \A i \in 1..MaxFrame : \A f \in loose.wal[i] : f.salt \in Nat
  <2>1. \A i \in 1..MaxFrame : loose.wal[i] \in SUBSET Frames
    BY DEF TypeInv
  <2>. QED  BY <2>1 DEF Frames
<1>4. ASSUME UNCHANGED <<hdr, count>>,
             loose'.log \in SUBSET loose.log,
             \A i \in 1..MaxFrame : loose'.wal[i] \in SUBSET loose.wal[i],
             (w'.pc \in TxPcs => w.pc \in TxPcs)
      PROVE  CountInv'
  BY <1>4 DEF CountInv, InTx
<1>5. ASSUME UNCHANGED <<hdr, count, loose>>, w'.pc \in TxPcs => w.pc \in TxPcs
      PROVE  CountInv'
  BY <1>4, <1>5
<1>6. CASE BeginTx
  <2>1. UNCHANGED <<hdr, loose>> /\ count'.tx = count.tx + 1 /\ count'.salt = count.salt
    BY <1>0, <1>6 DEF BeginTx, shm
  <2>. QED  BY <1>0, <2>1 DEF CountInv
<1>7. CASE RestartLog
  <2>1. CASE UNCHANGED <<hdr, count>>
    BY <1>0, <1>5, <1>7, <2>1 DEF RestartLog, At, TxPcs
  <2>2. CASE ~UNCHANGED <<hdr, count>>
    <3>1. /\ hdr' = [mine.hdr EXCEPT !.mxFrame = 0, !.salt = count.salt + 1]
          /\ count' = [count EXCEPT !.salt = @ + 1] /\ loose' = loose /\ w.pc = "restart"
      BY <1>7, <2>2 DEF RestartLog, At
    <3>2. /\ hdr'.salt = count.salt + 1 /\ hdr'.iChange = mine.hdr.iChange
          /\ count'.salt = count.salt + 1 /\ count'.tx = count.tx
      BY <1>0, <3>1 DEF Hdrs
    <3>3. InTx /\ mine.hdr.iChange = hdr.iChange
      BY <3>1 DEF InTx, TxPcs, PhaseInv, OwnInv, HeadOk
    <3>. QED  BY <1>0, <1>2, <1>3, <3>1, <3>2, <3>3 DEF CountInv
  <2>. QED  BY <2>1, <2>2
<1>8. CASE WriteLogHeader
  <2>0. w.pc = "loghdr" /\ hdr' = hdr
    BY <1>8 DEF WriteLogHeader, At, shm
  <2>1. CASE UNCHANGED <<loose, count>>
    BY <1>5, <2>0, <2>1 DEF TxPcs
  <2>2. CASE ~UNCHANGED <<loose, count>>
    <3>1. PICK salt : /\ salt = IF w.nCkpt = 0 THEN count.salt + 1 ELSE mine.hdr.salt
                      /\ loose' = [loose EXCEPT !.log = @ \cup {[salt |-> salt, nCkpt |-> w.nCkpt]}]
                      /\ count' = [count EXCEPT !.salt = IF salt > @ THEN salt ELSE @]
      BY <1>8, <2>2 DEF WriteLogHeader
    <3>2. salt \in Nat
      BY <1>0, <3>1
    <3>3. count'.salt >= count.salt /\ count'.salt >= salt /\ count'.tx = count.tx /\ count'.salt \in Nat
      BY <1>0, <3>1, <3>2
    <3>4. \A log \in loose'.log : log \in loose.log \/ log.salt = salt
      BY <3>1 DEF TypeInv
    <3>5. loose'.wal = loose.wal
      BY <3>1 DEF TypeInv
    <3>6. InTx
      BY <2>0 DEF InTx, TxPcs
    <3>7. \A log \in loose'.log : log.salt <= count'.salt
      BY <1>0, <1>2, <3>2, <3>3, <3>4 DEF CountInv
    <3>. QED  BY <1>0, <1>3, <2>0, <3>3, <3>5, <3>6, <3>7 DEF CountInv
  <2>. QED  BY <2>1, <2>2
<1>9. CASE SyncLogHeader \/ SyncFrames \/ StartBackfill
  <2>1. loose' = SyncedLog /\ UNCHANGED <<hdr, count, file>> /\ (w'.pc \in TxPcs => w.pc \in TxPcs)
    BY <1>0, <1>9 DEF SyncLogHeader, SyncFrames, StartBackfill, shm, At, Writers, TxPcs
  <2>. QED  BY <1>4, <2>1, SyncType DEF LastWritten
<1>10. CASE WriteFrame
  <2>1. UNCHANGED <<hdr, count>> /\ w.pc = "frames"
    BY <1>10 DEF WriteFrame, shm, At
  <2>2. PICK i \in 1..MaxFrame, f \in Frames : WriteWal(i, f) /\ f.salt <= count.salt
    <3>1. PICK i \in 1..MaxFrame, f \in Frames :
             /\ WriteWal(i, f)
             /\ f.salt \in {0, mine.hdr.salt} \/ f.salt = file.wal[i].salt
      BY <1>10, WriteFrameType
    <3>2. file.wal[i].salt <= count.salt
      BY DEF CountInv, LastWritten
    <3>. QED  BY <1>0, <1>1, <3>1, <3>2
  <2>3. loose'.log = loose.log /\ loose'.wal = [loose.wal EXCEPT ![i] = @ \cup {f}]
    BY <2>2, WriteType
  <2>4. \A j \in 1..MaxFrame : \A g \in loose'.wal[j] : g \in loose.wal[j] \/ g = f
    BY <2>3 DEF TypeInv
  <2>. QED  BY <2>1, <2>2, <2>3, <2>4 DEF CountInv, InTx, TxPcs
<1>11. CASE RewriteChecksums
  <2>1. PICK new : /\ loose' = [loose EXCEPT !.wal = [k \in 1..MaxFrame |-> @[k] \cup {new[k]}]]
                   /\ \A k \in 1..MaxFrame :
                        new[k] = file.wal[k] \/ new[k].salt = mine.hdr.salt
    <3>. DEFINE sum(k) == SumOf(w.iReCksum - 1)
                          \o [j \in 1..(k - w.iReCksum + 1) |-> Body(file.wal[w.iReCksum + j - 1])]
                fixed(k) == [file.wal[k] EXCEPT !.salt = mine.hdr.salt, !.sum = sum(k)]
                new == [k \in 1..MaxFrame |-> IF k \in w.iReCksum..w.iFrame THEN fixed(k)
                                              ELSE file.wal[k]]
    <3>1. loose' = [loose EXCEPT !.wal = [k \in 1..MaxFrame |-> @[k] \cup {new[k]}]]
      BY <1>11 DEF RewriteChecksums
    <3>2. \A k \in 1..MaxFrame : file.wal[k] \in Frames
      BY DEF TypeInv
    <3>. HIDE DEF sum
    <3>3. \A k \in 1..MaxFrame : fixed(k).salt = mine.hdr.salt
      BY <3>2 DEF Frames
    <3>. HIDE DEF fixed
    <3>4. \A k \in 1..MaxFrame : new[k] = file.wal[k] \/ new[k].salt = mine.hdr.salt
      BY <3>3
    <3>. HIDE DEF new
    <3>. QED  BY <3>1, <3>4
  <2>2. UNCHANGED <<hdr, count>> /\ w.pc = "frames"
    BY <1>11 DEF RewriteChecksums, shm, At
  <2>3. loose'.log = loose.log
        /\ \A k \in 1..MaxFrame : \A f \in loose'.wal[k] : f \in loose.wal[k] \/ f.salt = mine.hdr.salt
    BY <2>1 DEF LastWritten, TypeInv
  <2>. QED  BY <1>1, <2>2, <2>3 DEF CountInv, InTx, TxPcs
<1>12. CASE Publish
  <2>1. /\ hdr' = [mine.hdr EXCEPT !.mxFrame = w.iFrame, !.iChange = @ + 1]
        /\ EndTx /\ UNCHANGED <<loose, count>> /\ w.pc = "publish"
    BY <1>12 DEF Publish, At
  <2>2. hdr'.salt = mine.hdr.salt /\ hdr'.iChange = mine.hdr.iChange + 1
    BY <1>0, <2>1 DEF Hdrs
  <2>3. InTx /\ mine.hdr.iChange = hdr.iChange /\ w'.pc = "idle"
    BY <2>1, EndTxIs DEF InTx, TxPcs, PhaseInv, OwnInv, HeadOk
  <2>. QED  BY <1>0, <1>1, <2>1, <2>2, <2>3 DEF CountInv, InTx, TxPcs
<1>13. CASE CopyPage \/ SyncDb
  <2>1. UNCHANGED <<hdr, count>> /\ w'.pc \in CkptPcs
    BY <1>0, <1>13 DEF CopyPage, SyncDb, shm, At, Writers, CkptPcs
  <2>2. loose'.log = loose.log /\ loose'.wal = loose.wal
    BY <1>13 DEF CopyPage, SyncDb, TypeInv
  <2>. QED  BY <1>4, <2>1, <2>2 DEF CkptPcs, TxPcs
<1>14. CASE Crash
  <2>1. PICK log \in loose.log,
             wal \in Outcomes([i \in 1..MaxFrame |-> Left(loose.wal[i], NoFrame)]),
             db \in Outcomes([p \in Pages |-> Left(loose.db[p], Torn)]) :
          /\ Restart([log |-> log, wal |-> wal, db |-> db])
          /\ loose' = [log |-> {log}, wal |-> [i \in 1..MaxFrame |-> {wal[i]}],
                       db |-> [p \in Pages |-> {db[p]}]]
    BY <1>14 DEF Crash
  <2>2. \A i \in 1..MaxFrame : wal[i] \in loose.wal[i] \/ wal[i] = NoFrame
    <3>. DEFINE sets == [i \in 1..MaxFrame |-> Left(loose.wal[i], NoFrame)]
    <3>1. sets \in [1..MaxFrame -> SUBSET Frames]
      BY EmptyTypes DEF Left, TypeInv
    <3>2. \A i \in 1..MaxFrame : sets[i] = Left(loose.wal[i], NoFrame)
      OBVIOUS
    <3>3. wal \in Outcomes(sets)
      OBVIOUS
    <3>. HIDE DEF sets
    <3>4. \A i \in 1..MaxFrame : wal[i] \in sets[i]
      BY <3>1, <3>3, OutcomesIs
    <3>. QED  BY <3>2, <3>4 DEF Left
  <2>3. /\ hdr'.salt = log.salt /\ hdr'.iChange = 0 /\ w'.pc = "idle"
        /\ count'.salt = count.salt /\ count'.tx = count.tx
    BY <1>0, <2>1 DEF Restart, IdleWriter
  <2>4. NoFrame.salt = 0
    BY DEF NoFrame
  <2>. QED  BY <1>0, <1>2, <1>3, <2>1, <2>2, <2>3, <2>4 DEF CountInv, InTx, TxPcs
<1>15. CASE Rollback \/ WriteFails \/ CheckpointBusy \/ CheckpointOk
  <2>1. UNCHANGED <<hdr, count, loose>> /\ w'.pc = "idle"
    BY <1>15, EndTxIs DEF Rollback, WriteFails, CheckpointBusy, CheckpointOk, EndCheckpoint, shm
  <2>. QED  BY <1>5, <2>1 DEF TxPcs
<1>16. CASE BeginCheckpoint
  <2>1. UNCHANGED <<hdr, loose>> /\ w'.pc \in CkptPcs /\ count'.salt = count.salt
        /\ count'.tx = count.tx
    BY <1>0, <1>16 DEF BeginCheckpoint, shm, Writers, CkptPcs
  <2>. QED  BY <2>1 DEF CountInv, InTx, CkptPcs, TxPcs
<1>17. CASE \/ ReadMark \/ RaiseMark \/ YieldToMark \/ SkipBackfill \/ SetBackfill
  <2>1. UNCHANGED <<hdr, count, loose>> /\ w'.pc \in CkptPcs
    BY <1>0, <1>17 DEF ReadMark, RaiseMark, YieldToMark, SkipBackfill, SetBackfill, shm, At,
       Writers, CkptPcs
  <2>. QED  BY <1>5, <2>1 DEF CkptPcs, TxPcs
<1>18. CASE \/ (\E p \in Pages : Spill(p)) \/ (\E ps \in SUBSET Pages : Commit(ps))
            \/ ResetMarks \/ ReadAgain \/ EndSpill
  <2>1. UNCHANGED <<hdr, count, loose>> /\ w.pc \in TxPcs
    BY <1>18 DEF Spill, Commit, WalFrames, ResetMarks, ReadAgain, EndSpill, shm, At, TxPcs
  <2>. QED  BY <1>5, <2>1
<1>19. CASE UNCHANGED vars \/ (\E c \in Readers : EndRead(c))
  BY <1>5, <1>19 DEF vars, EndRead, shm
<1>20. CASE \E c \in Conns : BeginRead(c)
  BY <1>5, <1>20, BeginReadIs
<1>. QED  BY <1>6, <1>7, <1>8, <1>9, <1>10, <1>11, <1>12, <1>13, <1>14, <1>15,
             <1>16, <1>17, <1>18, <1>19, <1>20 DEF Next, Transaction, RunCheckpoint

-----------------------------------------------------------------------------
(* The frames up to the live header's. *)
LEMMA LastIs ==
  ASSUME TypeInv, NEW p
  PROVE  /\ Last(p) = Newest(file.wal, 1, hdr.mxFrame, p)
         /\ Last(p) \in 0..hdr.mxFrame /\ Last(p) \in 0..MaxFrame
         /\ Last(p) # 0 => Last(p) \in 1..hdr.mxFrame /\ file.wal[Last(p)].page = p
         /\ \A i \in 1..hdr.mxFrame : file.wal[i].page = p => i <= Last(p)
<1>1. Last(p) = Newest(file.wal, 1, hdr.mxFrame, p)
  BY DEF Last, LastFrame, Newest
<1>2. hdr.mxFrame \in Nat /\ hdr.mxFrame <= MaxFrame /\ MaxFrame \in Nat
  BY Constants DEF TypeInv, Hdrs
<1>. QED  BY <1>1, <1>2, NewestIs

(* The frame a page of the list goes to. *)
LEMMA OverwrittenIs ==
  ASSUME TypeInv, OwnInv, PhaseInv, ReadInv, CheckpointInv, w.pc = "frames", w.list # {}
  PROVE  /\ NextPage \in w.list /\ NextPage \in Pages
         /\ Overwritten # 0 =>
              /\ Overwritten \in hdr.mxFrame + 1..mine.hdr.mxFrame
              /\ Overwritten \in 1..MaxFrame
              /\ file.wal[Overwritten].page = NextPage
              /\ \A i \in hdr.mxFrame + 1..mine.hdr.mxFrame :
                   file.wal[i].page = NextPage => i <= Overwritten
<1>1. NextPage \in w.list /\ NextPage \in Pages
  BY NextPageType
<1>2. /\ InTx /\ HeadOk /\ mine.pc = "in" /\ mine.readLock # 0
  BY DEF OwnInv, InTx, TxPcs, PhaseInv
<1>3. mine.readLock \in Slots /\ mine.minFrame = nBackfill + 1
  <2>1. mine.readLock # NoLock /\ mine.readLock \in {NoLock} \cup 0..NReader
    BY <1>2, Types, Constants DEF ReadInv, ReadOk, Held, Reads
  <2>2. mine.readLock \in Slots
    BY <1>2, <2>1, Constants DEF Slots
  <2>. QED  BY <1>2, <2>2 DEF HeadOk
<1>4. nBackfill \in Nat /\ hdr.mxFrame \in Nat /\ mine.hdr.mxFrame \in Nat /\ nBackfill <= hdr.mxFrame
      /\ mine.hdr.mxFrame <= MaxFrame /\ MaxFrame \in Nat
  BY Types, Constants DEF CheckpointInv, Hdrs
<1>5. mine = rd[Writer] /\ Writer \in Conns /\ 0 \notin Slots
  BY Constants DEF mine
<1>. DEFINE f == FindFrame(Writer, NextPage)
<1>6. f = Newest(file.wal, nBackfill + 1, mine.hdr.mxFrame, NextPage)
  BY <1>1, <1>3, <1>5, FrameSearch
<1>7. /\ f # 0 => f \in nBackfill + 1..mine.hdr.mxFrame /\ file.wal[f].page = NextPage
      /\ \A i \in nBackfill + 1..mine.hdr.mxFrame : file.wal[i].page = NextPage => i <= f
  <2>1. PICK lo : lo = nBackfill + 1
    OBVIOUS
  <2>2. PICK hi : hi = mine.hdr.mxFrame
    OBVIOUS
  <2>. HIDE DEF f
  <2>3. lo \in Nat \ {0} /\ hi \in Nat /\ f = Newest(file.wal, lo, hi, NextPage)
    BY <1>4, <1>6, <2>1, <2>2
  <2>4. /\ f # 0 => f \in lo..hi /\ file.wal[f].page = NextPage
        /\ \A i \in lo..hi : file.wal[i].page = NextPage => i <= f
    BY <2>3, NewestAt
  <2>. QED  BY <2>1, <2>2, <2>4
<1>8. Overwritten # 0 => Overwritten = f /\ f >= w.iFirst /\ w.iFirst # 0
  BY DEF Overwritten
<1>9. w.iFirst # 0 => w.iFirst = hdr.mxFrame + 1
  BY <1>2 DEF HeadOk
<1>. HIDE DEF f
<1>. QED  BY <1>1, <1>4, <1>7, <1>8, <1>9

(* No step but a crash writes over a committed frame. *)
LEMMA FrameWritten ==
  ASSUME TypeInv, LastWritten, OwnInv, PhaseInv, ReadInv, CheckpointInv, WriteFrame
  PROVE  \/ /\ Overwritten # 0
            /\ file'.wal = [file.wal EXCEPT ![Overwritten] =
                              [file.wal[Overwritten] EXCEPT !.val = w.cache[NextPage]]]
            /\ w'.iFrame = w.iFrame
         \/ /\ Overwritten = 0 /\ w.iFrame + 1 \in 1..MaxFrame /\ w'.iFrame = w.iFrame + 1
            /\ \E new \in Frames : /\ file'.wal = [file.wal EXCEPT ![w.iFrame + 1] = new]
                                   /\ new.page = NextPage /\ new.val = w.cache[NextPage]
<1>0. w \in Writers /\ rd \in [Conns -> Reads] /\ mine \in Reads /\ mine.hdr \in Hdrs
      /\ w.pc = "frames" /\ w.list # {}
  BY Types DEF WriteFrame, At
<1>. DEFINE p == NextPage
            i == w.iFrame + 1
            body == <<p, w.cache[p], w.isCommit /\ IsLast>>
            new == [page |-> p, val |-> w.cache[p], commit |-> w.isCommit /\ IsLast,
                    salt |-> IF w.iReCksum # 0 THEN 0 ELSE mine.hdr.salt,
                    sum |-> IF w.iReCksum # 0 THEN <<>> ELSE Append(SumOf(w.iFrame), body)]
<1>1. IF Overwritten # 0
        THEN /\ WriteWal(Overwritten, [file.wal[Overwritten] EXCEPT !.val = w.cache[p]])
             /\ w' = [w EXCEPT !.list = @ \ {p},
                               !.iReCksum = IF @ = 0 \/ Overwritten < @ THEN Overwritten ELSE @]
        ELSE /\ w.iFrame < MaxFrame
             /\ WriteWal(i, new)
             /\ w' = [w EXCEPT !.list = @ \ {p}, !.iFrame = i]
  BY DEF WriteFrame
<1>2. p \in Pages /\ p \in 0..NPage /\ w.cache[p] \in Vals
      /\ w.isCommit \in BOOLEAN /\ w.iFrame \in 0..MaxFrame
  <2>1. p \in Pages
    BY <1>0, NextPageType
  <2>2. p \in 0..NPage
    BY <2>1, Constants DEF Pages
  <2>. QED  BY <1>0, <2>1, <2>2 DEF Writers
<1>3. new \in Frames
  <2>1. body \in Bodies
    BY <1>2 DEF Bodies
  <2>2. SumOf(w.iFrame) \in Seq(Bodies) /\ <<>> \in Seq(Bodies)
    BY <1>2, SumType
  <2>. HIDE DEF body
  <2>3. Append(SumOf(w.iFrame), body) \in Seq(Bodies)
    BY <2>1, <2>2
  <2>4. mine.hdr.salt \in Nat
    BY <1>0 DEF Hdrs
  <2>. QED  BY <1>2, <2>2, <2>3, <2>4 DEF Frames
<1>4. new.page = p /\ new.val = w.cache[p]
  BY DEF new
<1>. HIDE DEF p, new
<1>5. CASE Overwritten # 0
  <2>1. Overwritten \in 1..MaxFrame
    BY <1>0, <1>5, OverwrittenIs
  <2>2. file'.wal = [file.wal EXCEPT ![Overwritten] =
                       [file.wal[Overwritten] EXCEPT !.val = w.cache[p]]]
    BY <1>1, <1>5 DEF WriteWal, TypeInv
  <2>3. w'.iFrame = w.iFrame
    BY <1>0, <1>1, <1>5 DEF Writers
  <2>. QED  BY <1>5, <2>2, <2>3 DEF p
<1>6. CASE Overwritten = 0
  <2>1. i \in 1..MaxFrame
    BY <1>1, <1>2, <1>6, Constants
  <2>2. file'.wal = [file.wal EXCEPT ![i] = new]
    BY <1>1, <1>6 DEF WriteWal, TypeInv
  <2>3. w'.iFrame = w.iFrame + 1
    BY <1>0, <1>1, <1>6 DEF Writers
  <2>. QED  BY <1>3, <1>4, <1>6, <2>1, <2>2, <2>3 DEF p
<1>. QED  BY <1>5, <1>6

LEMMA ChecksumsKeep ==
  ASSUME TypeInv, RewriteChecksums
  PROVE  \A i \in 1..MaxFrame : /\ file'.wal[i].page = file.wal[i].page
                                /\ file'.wal[i].val = file.wal[i].val
                                /\ file'.wal[i].commit = file.wal[i].commit
<1>. DEFINE sum(k) == SumOf(w.iReCksum - 1)
                      \o [j \in 1..(k - w.iReCksum + 1) |-> Body(file.wal[w.iReCksum + j - 1])]
            fixed(k) == [file.wal[k] EXCEPT !.salt = mine.hdr.salt, !.sum = sum(k)]
            new == [k \in 1..MaxFrame |-> IF k \in w.iReCksum..w.iFrame THEN fixed(k)
                                          ELSE file.wal[k]]
<1>1. file' = [file EXCEPT !.wal = new]
  BY DEF RewriteChecksums
<1>2. \A k \in 1..MaxFrame : file.wal[k] \in Frames
  BY DEF TypeInv
<1>. HIDE DEF sum
<1>3. \A k \in 1..MaxFrame : /\ fixed(k).page = file.wal[k].page
                             /\ fixed(k).val = file.wal[k].val
                             /\ fixed(k).commit = file.wal[k].commit
  BY <1>2 DEF Frames
<1>. HIDE DEF fixed
<1>4. \A k \in 1..MaxFrame : /\ new[k].page = file.wal[k].page
                             /\ new[k].val = file.wal[k].val
                             /\ new[k].commit = file.wal[k].commit
  BY <1>3
<1>. HIDE DEF new
<1>5. file'.wal = new
  BY <1>1 DEF TypeInv
<1>. QED  BY <1>4, <1>5

LEMMA CommittedKept ==
  ASSUME TypeInv, LastWritten, OwnInv, PhaseInv, ReadInv, CheckpointInv, [Next]_vars, ~Crash
  PROVE  /\ \A i \in 1..hdr.mxFrame : /\ file'.wal[i].page = file.wal[i].page
                                      /\ file'.wal[i].val = file.wal[i].val
         /\ file'.db = file.db \/ CopyPage
<1>0. hdr.mxFrame \in Nat /\ hdr.mxFrame <= MaxFrame /\ MaxFrame \in Nat
  BY Constants DEF TypeInv, Hdrs
<1>1. CASE file' = file
  BY <1>1
<1>2. CASE WriteLogHeader
  <2>1. file'.wal = file.wal /\ file'.db = file.db
    BY <1>2 DEF WriteLogHeader, TypeInv
  <2>. QED  BY <2>1
<1>3. CASE WriteFrame
  <2>1. w.pc = "frames" /\ w.list # {}
    BY <1>3 DEF WriteFrame, At
  <2>2. file'.db = file.db
    BY <1>3, WriteFrameType, WriteType
  <2>3. HeadOk /\ mine.pc = "in"
    BY <2>1 DEF OwnInv, InTx, TxPcs, PhaseInv
  <2>4. hdr.mxFrame <= w.iFrame /\ w.iFrame \in Nat
    BY <2>1, <2>3, Types, Constants DEF HeadOk, Top, Writers
  <2>5. \E k \in 1..MaxFrame : k > hdr.mxFrame /\ \E g : file'.wal = [file.wal EXCEPT ![k] = g]
    <3>1. CASE Overwritten # 0
      <4>1. Overwritten > hdr.mxFrame /\ Overwritten \in 1..MaxFrame
        BY <1>0, <2>1, <3>1, OverwrittenIs
      <4>2. file'.wal = [file.wal EXCEPT ![Overwritten] =
                           [file.wal[Overwritten] EXCEPT !.val = w.cache[NextPage]]]
        BY <1>3, <3>1, FrameWritten
      <4>. QED  BY <4>1, <4>2
    <3>2. CASE Overwritten = 0
      <4>1. /\ w.iFrame + 1 \in 1..MaxFrame
            /\ \E new \in Frames : file'.wal = [file.wal EXCEPT ![w.iFrame + 1] = new]
        BY <1>3, <3>2, FrameWritten
      <4>2. w.iFrame + 1 > hdr.mxFrame
        BY <1>0, <2>4
      <4>. QED  BY <4>1, <4>2
    <3>. QED  BY <3>1, <3>2
  <2>6. DOMAIN file.wal = 1..MaxFrame /\ \A i \in 1..hdr.mxFrame : i \in 1..MaxFrame
    BY <1>0 DEF TypeInv
  <2>7. PICK k \in 1..MaxFrame : k > hdr.mxFrame /\ \E g : file'.wal = [file.wal EXCEPT ![k] = g]
    BY <2>5
  <2>8. \A i \in 1..hdr.mxFrame : i # k
    BY <1>0, <2>7
  <2>9. \A i \in 1..hdr.mxFrame : file'.wal[i] = file.wal[i]
    BY <2>6, <2>7, <2>8
  <2>. QED  BY <2>2, <2>9
<1>4. CASE RewriteChecksums
  <2>1. file'.db = file.db
    BY <1>4 DEF RewriteChecksums, TypeInv
  <2>. QED  BY <1>0, <1>4, <2>1, ChecksumsKeep
<1>5. CASE CopyPage
  <2>1. file'.wal = file.wal
    BY <1>5 DEF CopyPage, TypeInv
  <2>. QED  BY <1>5, <2>1
<1>6. CASE UNCHANGED vars \/ (\E c \in Conns : BeginRead(c)) \/ (\E c \in Readers : EndRead(c))
  BY <1>1, <1>6, BeginReadIs DEF vars, EndRead
<1>7. CASE \/ BeginTx \/ Rollback \/ (\E p \in Pages : Spill(p))
           \/ (\E ps \in SUBSET Pages : Commit(ps)) \/ RestartLog \/ ResetMarks \/ ReadAgain
           \/ SyncLogHeader \/ WriteFails \/ EndSpill \/ SyncFrames \/ Publish
  BY <1>1, <1>7 DEF BeginTx, Rollback, Spill, Commit, WalFrames, RestartLog, ResetMarks,
     ReadAgain, SyncLogHeader, WriteFails, EndSpill, SyncFrames, Publish
<1>8. CASE \/ BeginCheckpoint \/ ReadMark \/ RaiseMark \/ YieldToMark \/ SkipBackfill
           \/ StartBackfill \/ SyncDb \/ SetBackfill \/ CheckpointBusy \/ CheckpointOk
  BY <1>1, <1>8 DEF BeginCheckpoint, ReadMark, RaiseMark, YieldToMark, SkipBackfill,
     StartBackfill, SyncDb, SetBackfill, CheckpointBusy, CheckpointOk, EndCheckpoint
<1>. QED  BY <1>2, <1>3, <1>4, <1>5, <1>6, <1>7, <1>8 DEF Next, Transaction, RunCheckpoint

LEMMA LastStays ==
  ASSUME TypeInv, TypeInv', LastWritten, OwnInv, PhaseInv, ReadInv, CheckpointInv, [Next]_vars,
         ~Crash, hdr'.mxFrame = hdr.mxFrame, NEW p
  PROVE  Last(p)' = Last(p) /\ (Last(p) # 0 => file'.wal[Last(p)].val = file.wal[Last(p)].val)
<1>1. Last(p)' = Newest(file'.wal, 1, hdr'.mxFrame, p)
  BY DEF Last, LastFrame, Newest
<1>2. Newest(file'.wal, 1, hdr.mxFrame, p) = Newest(file.wal, 1, hdr.mxFrame, p)
  BY CommittedKept, NewestSame
<1>. QED  BY <1>1, <1>2, LastIs, CommittedKept

LEMMA CheckpointInvStep ==
  ASSUME TypeInv, TypeInv', LastWritten, OwnInv, PhaseInv, ReadInv, CheckpointInv, [Next]_vars
  PROVE  CheckpointInv'
<1>0. /\ w \in Writers /\ hdr.mxFrame \in Nat /\ nBackfill \in Nat /\ mine.hdr.mxFrame \in Nat
      /\ w.mxSafeFrame \in Nat /\ w.i \in Nat /\ w.y \in Nat /\ w.iFrame \in Nat
      /\ mine.hdr \in Hdrs /\ w.todo \in SUBSET Pages
  BY Types, Constants DEF Writers
<1>1. ASSUME hdr'.mxFrame = hdr.mxFrame, nBackfill' = nBackfill, w.pc # "reset",
             w'.pc \notin CkptPcs \cup {"reset"}
      PROVE  CheckpointInv'
  BY <1>1 DEF CheckpointInv, CkptPcs
<1>2. ASSUME UNCHANGED <<hdr, nBackfill, w>>, ~Crash PROVE CheckpointInv'
  <2>1. \A p \in w.todo : Last(p)' = Last(p)
    BY <1>2, LastStays
  <2>. QED  BY <1>2, <2>1 DEF CheckpointInv
<1>3. ASSUME EndTx, hdr'.mxFrame >= nBackfill, nBackfill' = nBackfill
      PROVE  CheckpointInv'
  BY <1>3, EndTxIs DEF CheckpointInv, CkptPcs
<1>4. CASE \/ BeginTx \/ (\E p \in Pages : Spill(p)) \/ (\E ps \in SUBSET Pages : Commit(ps))
           \/ SyncLogHeader \/ SyncFrames
  <2>1. /\ UNCHANGED <<hdr, nBackfill>> /\ w.pc \in {"idle", "tx", "synclog", "frames"}
        /\ w'.pc \in {"tx", "restart", "loghdr", "frames", "publish"}
    BY <1>0, <1>4, TxBegins DEF SyncLogHeader, SyncFrames, shm, At, Writers
  <2>. QED  BY <1>1, <2>1 DEF CkptPcs
<1>5. CASE WriteFrame \/ RewriteChecksums \/ ReadAgain \/ WriteLogHeader \/ EndSpill
  <2>1. /\ UNCHANGED <<hdr, nBackfill>> /\ w.pc \in {"reread", "loghdr", "frames"}
    BY <1>0, <1>5 DEF WriteFrame, RewriteChecksums, ReadAgain, WriteLogHeader, EndSpill, shm, At
  <2>2. w'.pc \in {"loghdr", "synclog", "frames", "tx"}
    BY <1>0, <1>5 DEF WriteFrame, RewriteChecksums, ReadAgain, WriteLogHeader, EndSpill, At, Writers
  <2>. QED  BY <1>1, <2>1, <2>2 DEF CkptPcs
<1>6. CASE RestartLog
  <2>1. w.pc = "restart" /\ nBackfill' = nBackfill
    BY <1>6 DEF RestartLog, At
  <2>2. CASE nBackfill > 0 /\ \A i \in Slots : CanExclude(i)
    <3>1. hdr'.mxFrame = 0 /\ w'.pc = "reset"
      BY <1>0, <1>6, <2>2 DEF RestartLog, Hdrs, Writers
    <3>. QED  BY <2>1, <2>2, <3>1 DEF CheckpointInv, CkptPcs
  <2>3. CASE ~(nBackfill > 0 /\ \A i \in Slots : CanExclude(i))
    <3>1. hdr' = hdr /\ w'.pc = "reread"
      BY <1>0, <1>6, <2>3 DEF RestartLog, Writers
    <3>. QED  BY <1>1, <2>1, <3>1 DEF CkptPcs
  <2>. QED  BY <2>2, <2>3
<1>7. CASE ResetMarks
  <2>1. nBackfill' = 0 /\ w'.pc = "reread" /\ hdr' = hdr
    BY <1>0, <1>7 DEF ResetMarks, Writers
  <2>. QED  BY <1>0, <2>1 DEF CheckpointInv, CkptPcs
<1>8. CASE Publish
  <2>1. EndTx /\ nBackfill' = nBackfill /\ w.pc = "publish" /\ hdr'.mxFrame = w.iFrame
    BY <1>0, <1>8 DEF Publish, At, Hdrs
  <2>2. hdr.mxFrame <= w.iFrame
    BY <2>1 DEF PhaseInv, OwnInv, InTx, TxPcs, HeadOk, Top
  <2>3. nBackfill <= hdr.mxFrame
    BY <2>1 DEF CheckpointInv
  <2>. QED  BY <1>0, <1>3, <2>1, <2>2, <2>3
<1>9. CASE Rollback \/ WriteFails \/ CheckpointBusy \/ CheckpointOk
  <2>1. EndTx /\ UNCHANGED <<hdr, nBackfill>> /\ w.pc # "reset"
    BY <1>9 DEF Rollback, WriteFails, CheckpointBusy, CheckpointOk, EndCheckpoint, shm, At
  <2>. QED  BY <1>0, <1>3, <2>1 DEF CheckpointInv
<1>10. CASE BeginCheckpoint
  <2>1. /\ UNCHANGED <<hdr, nBackfill>> /\ w.pc = "idle" /\ w'.i = 1
        /\ w'.mxSafeFrame = hdr.mxFrame /\ w'.pc \in {"marks", "wait"}
    BY <1>0, <1>10 DEF BeginCheckpoint, shm, At, Writers
  <2>. QED  BY <1>0, <2>1 DEF CheckpointInv, CkptPcs
<1>11. CASE ReadMark
  <2>1. /\ UNCHANGED <<hdr, nBackfill>> /\ w.pc = "marks" /\ w'.mxSafeFrame = w.mxSafeFrame
        /\ \/ w'.pc = "slot" /\ w'.i = w.i /\ w.i \in Slots /\ w'.y < w.mxSafeFrame
           \/ w'.pc = "marks" /\ w'.i = w.i + 1
    BY <1>0, <1>11 DEF ReadMark, shm, At, Writers
  <2>. QED  BY <1>0, <2>1 DEF CheckpointInv, CkptPcs
<1>12. CASE RaiseMark \/ YieldToMark
  <2>1. /\ UNCHANGED <<hdr, nBackfill>> /\ w.pc = "slot" /\ w'.mxSafeFrame \in {w.mxSafeFrame, w.y}
        /\ w'.pc = "marks" /\ w'.i = w.i + 1
    BY <1>0, <1>12 DEF RaiseMark, YieldToMark, shm, At, Writers
  <2>. QED  BY <1>0, <2>1 DEF CheckpointInv, CkptPcs
<1>13. CASE SkipBackfill
  <2>1. /\ UNCHANGED <<hdr, nBackfill>> /\ w.pc = "marks" /\ w'.mxSafeFrame = w.mxSafeFrame
        /\ w'.pc = "wait"
    BY <1>0, <1>13 DEF SkipBackfill, shm, At, Writers
  <2>. QED  BY <1>0, <2>1 DEF CheckpointInv, CkptPcs
<1>14. CASE StartBackfill
  <2>1. /\ UNCHANGED <<hdr, nBackfill, file>> /\ w.pc = "marks" /\ w'.mxSafeFrame = w.mxSafeFrame
        /\ w'.pc = "copy" /\ nBackfill < w.mxSafeFrame
        /\ w'.todo = {p \in Pages : LastFrame(mine.hdr.mxFrame, p) \in nBackfill + 1..w.mxSafeFrame}
    BY <1>0, <1>14 DEF StartBackfill, shm, At, Writers
  <2>2. mine.hdr = hdr
    BY <2>1 DEF PhaseInv, CkptPcs
  <2>3. \A p \in Pages : Last(p)' = Last(p)
    BY <2>1 DEF Last, LastFrame
  <2>4. \A p \in w'.todo : Last(p)' \in nBackfill + 1..w.mxSafeFrame
    BY <2>1, <2>2, <2>3 DEF Last
  <2>. QED  BY <1>0, <2>1, <2>4 DEF CheckpointInv, CkptPcs
<1>15. CASE CopyPage
  <2>1. /\ UNCHANGED <<hdr, nBackfill>> /\ w.pc = "copy" /\ w'.mxSafeFrame = w.mxSafeFrame
        /\ w'.pc = "copy" /\ w'.todo \subseteq w.todo
    BY <1>0, <1>15 DEF CopyPage, shm, At, Writers
  <2>2. file'.wal = file.wal
    BY <1>15 DEF CopyPage, TypeInv
  <2>3. \A p \in Pages : Last(p)' = Last(p)
    BY <2>1, <2>2 DEF Last, LastFrame
  <2>. QED  BY <1>0, <2>1, <2>3 DEF CheckpointInv, CkptPcs
<1>16. CASE SyncDb
  <2>1. /\ UNCHANGED <<hdr, nBackfill>> /\ w.pc = "copy" /\ w'.mxSafeFrame = w.mxSafeFrame
        /\ w'.pc = "copied"
    BY <1>0, <1>16 DEF SyncDb, shm, At, Writers
  <2>. QED  BY <1>0, <2>1 DEF CheckpointInv, CkptPcs
<1>17. CASE SetBackfill
  <2>1. /\ hdr' = hdr /\ nBackfill' = w.mxSafeFrame /\ w.pc = "copied" /\ w'.pc = "wait"
        /\ w'.mxSafeFrame = w.mxSafeFrame
    BY <1>0, <1>17 DEF SetBackfill, At, Writers
  <2>. QED  BY <1>0, <2>1 DEF CheckpointInv, CkptPcs
<1>18. CASE Crash
  <2>1. nBackfill' = 0 /\ w'.pc = "idle" /\ hdr'.mxFrame \in Nat
    BY <1>18, Constants DEF Crash, Restart, IdleWriter, TypeInv, Hdrs
  <2>. QED  BY <2>1 DEF CheckpointInv, CkptPcs
<1>19. CASE UNCHANGED vars
  <2>1. CASE Crash
    BY <1>18, <2>1
  <2>2. CASE ~Crash
    BY <1>2, <1>19, <2>2 DEF vars
  <2>. QED  BY <2>1, <2>2
<1>20. CASE (\E c \in Conns : BeginRead(c)) \/ (\E c \in Readers : EndRead(c))
  <2>1. UNCHANGED <<hdr, nBackfill, w>>
    BY <1>20, BeginReadIs DEF EndRead, shm
  <2>. QED  BY <1>2, <1>18, <2>1
<1>. QED  BY <1>4, <1>5, <1>6, <1>7, <1>8, <1>9, <1>10, <1>11, <1>12, <1>13, <1>14, <1>15,
             <1>16, <1>17, <1>18, <1>19, <1>20 DEF Next, Transaction, RunCheckpoint

-----------------------------------------------------------------------------
(* Backfilled frames and the database file. *)
LEMMA LastNext ==
  ASSUME TypeInv', NEW p
  PROVE  /\ Last(p)' = Newest(file'.wal, 1, hdr'.mxFrame, p)
         /\ Last(p)' \in 0..hdr'.mxFrame
         /\ Last(p)' # 0 => file'.wal[Last(p)'].page = p
         /\ \A i \in 1..hdr'.mxFrame : file'.wal[i].page = p => i <= Last(p)'
<1>1. Last(p)' = Newest(file'.wal, 1, hdr'.mxFrame, p)
  BY DEF Last, LastFrame, Newest
<1>2. hdr'.mxFrame \in Nat
  BY Constants DEF TypeInv, Hdrs
<1>. QED  BY <1>1, <1>2, NewestIs

LEMMA DbInvStep ==
  ASSUME TypeInv, TypeInv', LastWritten, OwnInv, PhaseInv, ReadInv, CheckpointInv, DbInv,
         [Next]_vars
  PROVE  DbInv'
<1>0. /\ w \in Writers /\ hdr.mxFrame \in Nat /\ nBackfill \in Nat /\ mine.hdr.mxFrame \in Nat
      /\ w.mxSafeFrame \in Nat /\ w.iFrame \in Nat /\ mine.hdr \in Hdrs /\ w.todo \in SUBSET Pages
  BY Types, Constants DEF Writers
<1>1. ASSUME hdr'.mxFrame = hdr.mxFrame, UNCHANGED nBackfill, file'.db = file.db, ~Crash,
             w' = w \/ w'.pc \notin {"copy", "copied"}
      PROVE  DbInv'
  <2>. SUFFICES ASSUME NEW p \in Pages PROVE DbOk(p)'
    BY DEF DbInv
  <2>1. Last(p)' = Last(p) /\ (Last(p) # 0 => file'.wal[Last(p)].val = file.wal[Last(p)].val)
    BY <1>1, LastStays
  <2>2. DbOk(p)
    BY DEF DbInv
  <2>3. \A x \in Nat : Last(p) \in x + 1..w.mxSafeFrame => Last(p) # 0
    BY <1>0
  <2>. QED  BY <1>0, <1>1, <2>1, <2>2, <2>3 DEF DbOk
<1>2. ASSUME w'.pc \notin {"copy", "copied"}, nBackfill' = 0 \/ hdr'.mxFrame = 0
      PROVE  DbInv'
  <2>. SUFFICES ASSUME NEW p \in Pages PROVE DbOk(p)'
    BY DEF DbInv
  <2>1. Last(p)' \in 0..hdr'.mxFrame
    BY LastNext
  <2>2. ~(Last(p)' \in 1..nBackfill')
    BY <1>2, <2>1
  <2>. QED  BY <1>2, <2>2 DEF DbOk
<1>3. CASE Crash
  BY <1>2, <1>3 DEF Crash, Restart, IdleWriter
<1>. SUFFICES ASSUME ~Crash PROVE DbInv'
  BY <1>3
<1>4. CASE UNCHANGED vars \/ (\E c \in Conns : BeginRead(c)) \/ (\E c \in Readers : EndRead(c))
  <2>1. UNCHANGED <<hdr, nBackfill, file, w>>
    BY <1>4, BeginReadIs DEF vars, EndRead, shm
  <2>. QED  BY <1>1, <2>1
<1>5. CASE \/ BeginTx \/ (\E p \in Pages : Spill(p)) \/ (\E ps \in SUBSET Pages : Commit(ps))
           \/ ReadAgain \/ SyncLogHeader \/ SyncFrames \/ EndSpill
  <2>1. UNCHANGED <<hdr, nBackfill, file>>
    BY <1>5, TxBegins DEF ReadAgain, SyncLogHeader, SyncFrames, EndSpill, shm
  <2>2. w'.pc \in {"tx", "restart", "loghdr", "frames", "publish"}
    BY <1>0, <1>5, TxBegins DEF ReadAgain, SyncLogHeader, SyncFrames, EndSpill, Writers
  <2>. QED  BY <1>1, <2>1, <2>2
<1>6. CASE WriteLogHeader \/ WriteFrame \/ RewriteChecksums
  <2>1. UNCHANGED <<hdr, nBackfill>>
    BY <1>6 DEF WriteLogHeader, WriteFrame, RewriteChecksums, shm
  <2>2. w'.pc \in {"synclog", "frames"}
    BY <1>0, <1>6 DEF WriteLogHeader, WriteFrame, RewriteChecksums, At, Writers
  <2>3. file'.db = file.db
    <3>1. w.pc # "copy"
      BY <1>6 DEF WriteLogHeader, WriteFrame, RewriteChecksums, At
    <3>. QED  BY <3>1, CommittedKept DEF CopyPage, At
  <2>. QED  BY <1>1, <2>1, <2>2, <2>3
<1>7. CASE RestartLog
  <2>1. CASE hdr'.mxFrame = 0 /\ w'.pc = "reset"
    BY <1>2, <2>1
  <2>2. CASE ~(hdr'.mxFrame = 0 /\ w'.pc = "reset")
    <3>1. UNCHANGED <<hdr, nBackfill, file>> /\ w'.pc = "reread"
      BY <1>0, <1>7, <2>2 DEF RestartLog, Hdrs, Writers
    <3>. QED  BY <1>1, <3>1
  <2>. QED  BY <2>1, <2>2
<1>8. CASE ResetMarks
  <2>1. nBackfill' = 0 /\ w'.pc = "reread"
    BY <1>0, <1>8 DEF ResetMarks, Writers
  <2>. QED  BY <1>2, <2>1
<1>9. CASE Publish
  <2>1. EndTx /\ UNCHANGED <<nBackfill, file>> /\ w.pc = "publish" /\ hdr'.mxFrame = w.iFrame
    BY <1>0, <1>9 DEF Publish, At, Hdrs
  <2>2. hdr.mxFrame <= hdr'.mxFrame /\ nBackfill <= hdr.mxFrame
    BY <2>1 DEF PhaseInv, OwnInv, InTx, TxPcs, HeadOk, Top, CheckpointInv
  <2>. SUFFICES ASSUME NEW p \in Pages PROVE DbOk(p)'
    BY DEF DbInv
  <2>3. ASSUME Last(p)' \in 1..nBackfill PROVE file.db[p] = file.wal[Last(p)'].val
    <3>1. Last(p)' \in 1..hdr.mxFrame
      BY <1>0, <2>2, <2>3
    <3>2. file.wal[Last(p)'].page = p
      BY <2>1, <3>1, LastNext
    <3>3. \A i \in 1..hdr.mxFrame : file.wal[i].page = p => i <= Last(p)'
      <4>1. \A i \in 1..hdr.mxFrame : i \in 1..hdr'.mxFrame
        BY <1>0, <2>1, <2>2
      <4>. QED  BY <2>1, <4>1, LastNext
    <3>4. Newest(file.wal, 1, hdr.mxFrame, p) = Last(p)'
      <4>1. PICK n \in 1..hdr.mxFrame : n = Last(p)'
        BY <3>1
      <4>2. n \in 0..hdr.mxFrame /\ file.wal[n].page = p
            /\ \A i \in 1..hdr.mxFrame : file.wal[i].page = p => i <= n
        BY <1>0, <3>2, <3>3, <4>1
      <4>3. Newest(file.wal, 1, hdr.mxFrame, p) = n
        BY <1>0, <4>2, NewestUnique
      <4>. QED  BY <4>1, <4>3
    <3>5. Last(p)' = Last(p)
      BY <3>4, LastIs
    <3>. QED  BY <2>3, <3>5 DEF DbInv, DbOk
  <2>4. w'.pc = "idle"
    BY <2>1, EndTxIs
  <2>. QED  BY <2>1, <2>3, <2>4 DEF DbOk
<1>10. CASE Rollback \/ WriteFails \/ CheckpointBusy \/ CheckpointOk
  <2>1. EndTx /\ UNCHANGED <<hdr, nBackfill, file>>
    BY <1>10 DEF Rollback, WriteFails, CheckpointBusy, CheckpointOk, EndCheckpoint, shm
  <2>2. w'.pc = "idle"
    BY <2>1, EndTxIs
  <2>. QED  BY <1>1, <2>1, <2>2
<1>11. CASE BeginCheckpoint \/ ReadMark \/ RaiseMark \/ YieldToMark \/ SkipBackfill
  <2>1. UNCHANGED <<hdr, nBackfill, file>>
    BY <1>11 DEF BeginCheckpoint, ReadMark, RaiseMark, YieldToMark, SkipBackfill, shm
  <2>2. w'.pc \in {"marks", "slot", "wait"}
    BY <1>0, <1>11 DEF BeginCheckpoint, ReadMark, RaiseMark, YieldToMark, SkipBackfill, At, Writers
  <2>. QED  BY <1>1, <2>1, <2>2
<1>12. CASE StartBackfill
  <2>1. /\ UNCHANGED <<hdr, nBackfill, file>> /\ w'.mxSafeFrame = w.mxSafeFrame
        /\ w.pc = "marks" /\ w'.pc = "copy"
        /\ w'.todo = {p \in Pages : LastFrame(mine.hdr.mxFrame, p) \in nBackfill + 1..w.mxSafeFrame}
    BY <1>0, <1>12 DEF StartBackfill, shm, At, Writers
  <2>2. mine.hdr = hdr
    BY <2>1 DEF PhaseInv, CkptPcs
  <2>. SUFFICES ASSUME NEW p \in Pages PROVE DbOk(p)'
    BY DEF DbInv
  <2>3. Last(p)' = Last(p)
    BY <2>1 DEF Last, LastFrame
  <2>4. p \notin w'.todo => Last(p) \notin nBackfill + 1..w.mxSafeFrame
    BY <2>1, <2>2 DEF Last
  <2>. QED  BY <2>1, <2>3, <2>4 DEF DbInv, DbOk
<1>13. CASE CopyPage
  <2>. DEFINE q == Min(w.todo)
              val == file.wal[LastFrame(mine.hdr.mxFrame, q)].val
  <2>1. /\ UNCHANGED <<hdr, nBackfill>> /\ w.pc = "copy" /\ w.todo # {}
        /\ file' = [file EXCEPT !.db[q] = val] /\ w' = [w EXCEPT !.todo = @ \ {q}]
    BY <1>13 DEF CopyPage, shm, At
  <2>2. q \in Pages
    <3>1. w.todo \in SUBSET Nat
      BY <1>0, Constants
    <3>2. q \in w.todo
      BY <2>1, <3>1, MinIs
    <3>. QED  BY <1>0, <3>2
  <2>3. val = file.wal[Last(q)].val
    BY <2>1 DEF PhaseInv, CkptPcs, Last
  <2>. HIDE DEF q, val
  <2>4. file'.wal = file.wal /\ file'.db = [file.db EXCEPT ![q] = val]
    BY <2>1 DEF TypeInv
  <2>5. w'.pc = "copy" /\ w'.mxSafeFrame = w.mxSafeFrame /\ w'.todo = w.todo \ {q}
    BY <1>0, <2>1 DEF Writers
  <2>. SUFFICES ASSUME NEW p \in Pages PROVE DbOk(p)'
    BY DEF DbInv
  <2>6. Last(p)' = Last(p)
    BY <2>1, <2>4 DEF Last, LastFrame
  <2>7. DOMAIN file.db = Pages
    BY DEF TypeInv
  <2>8. CASE p = q
    <3>1. file'.db[p] = file'.wal[Last(p)'].val
      BY <2>2, <2>3, <2>4, <2>6, <2>7, <2>8
    <3>. QED  BY <3>1 DEF DbOk
  <2>9. CASE p # q
    <3>1. file'.db[p] = file.db[p] /\ (p \in w'.todo <=> p \in w.todo)
      BY <2>2, <2>4, <2>5, <2>7, <2>9
    <3>. QED  BY <2>1, <2>4, <2>5, <2>6, <3>1 DEF DbInv, DbOk
  <2>. QED  BY <2>8, <2>9
<1>14. CASE SyncDb
  <2>1. /\ UNCHANGED <<hdr, nBackfill, file>> /\ w'.mxSafeFrame = w.mxSafeFrame
        /\ w.pc = "copy" /\ w'.pc = "copied" /\ w.todo = {}
    BY <1>0, <1>14 DEF SyncDb, shm, At, Writers
  <2>2. \A p : Last(p)' = Last(p)
    BY <2>1 DEF Last, LastFrame
  <2>. QED  BY <2>1, <2>2 DEF DbInv, DbOk
<1>15. CASE SetBackfill
  <2>1. /\ UNCHANGED <<hdr, file>> /\ nBackfill' = w.mxSafeFrame
        /\ w.pc = "copied" /\ w'.pc = "wait"
    BY <1>0, <1>15 DEF SetBackfill, At, Writers
  <2>2. \A p : Last(p)' = Last(p)
    BY <2>1 DEF Last, LastFrame
  <2>. SUFFICES ASSUME NEW p \in Pages PROVE DbOk(p)'
    BY DEF DbInv
  <2>3. Last(p) \in 1..w.mxSafeFrame =>
          Last(p) \in 1..nBackfill \/ Last(p) \in nBackfill + 1..w.mxSafeFrame
    BY <1>0
  <2>. QED  BY <2>1, <2>2, <2>3 DEF DbInv, DbOk
<1>. QED  BY <1>4, <1>5, <1>6, <1>7, <1>8, <1>9, <1>10, <1>11, <1>12, <1>13, <1>14, <1>15
          DEF Next, Transaction, RunCheckpoint

-----------------------------------------------------------------------------
(* The frames of a transaction. *)
LEMMA TopType ==
  ASSUME TypeInv
  PROVE  Top \in 0..MaxFrame /\ Top \in Nat /\ hdr.mxFrame \in Nat /\ MaxFrame \in Nat
         /\ \A f \in hdr.mxFrame + 1..Top : f \in 1..MaxFrame
<1>1. w.iFrame \in 0..MaxFrame /\ mine.hdr.mxFrame \in 0..MaxFrame /\ hdr.mxFrame \in Nat
  BY Types DEF Writers, Hdrs
<1>. QED  BY <1>1, Constants DEF Top

LEMMA PageKept ==
  ASSUME TypeInv, NEW p \in Pages, PageOk(p), hdr'.mxFrame = hdr.mxFrame, Top' = Top,
         \A f \in hdr.mxFrame + 1..Top : /\ file'.wal[f].page = file.wal[f].page
                                         /\ file'.wal[f].val = file.wal[f].val,
         p \in w.list => p \in w'.list,
         p \notin w'.list => w'.cache[p] = w.cache[p],
         p \in w'.list => \/ w'.cache[p] # Torn
                          \/ w'.isCommit
                          \/ p \in w.list /\ w'.cache[p] = w.cache[p],
         w.isCommit => w'.isCommit
  PROVE  PageOk(p)'
<1>1. Own(p)' = Own(p)
  BY DEF Own
<1>2. \A f \in Own(p) : file'.wal[f].val = file.wal[f].val
  BY DEF Own
<1>. QED  BY <1>1, <1>2 DEF PageOk

(* With the live header in hand no frame is the transaction's. *)
LEMMA NoOwn ==
  ASSUME hdr.mxFrame \in Nat, Top = hdr.mxFrame
  PROVE  /\ \A p : Own(p) = {}
         /\ \A p : PageOk(p) <=> Fresh(p)
<1>1. \A p : Own(p) = {}
  BY DEF Own
<1>. QED  BY <1>1 DEF PageOk, Fresh

LEMMA NoOwnNext ==
  ASSUME hdr'.mxFrame \in Nat, Top' = hdr'.mxFrame
  PROVE  \A p : Fresh(p)' => PageOk(p)'
<1>1. \A p : Own(p)' = {}
  BY DEF Own
<1>. QED  BY <1>1 DEF PageOk, Fresh

LEMMA OwnKept ==
  ASSUME TypeInv, OwnInv, UNCHANGED <<hdr, nBackfill>>, mine' = mine, w'.pc = w.pc,
         w'.list = w.list, w'.cache = w.cache, w'.iFrame = w.iFrame, w'.iFirst = w.iFirst,
         w'.isCommit = w.isCommit,
         \A f \in 1..MaxFrame : /\ file'.wal[f].page = file.wal[f].page
                                /\ file'.wal[f].val = file.wal[f].val
  PROVE  OwnInv'
<1>1. Top' = Top
  BY DEF Top
<1>2. ASSUME InTx
      PROVE  HeadOk' /\ ListOk' /\ (mine.pc # "out" => \A p \in Pages : PageOk(p)')
  <2>1. HeadOk'
    BY <1>1, <1>2 DEF OwnInv, HeadOk
  <2>2. ListOk'
    <3>1. w.iFrame \in 0..MaxFrame /\ mine.hdr.mxFrame \in Nat
      BY Types DEF Writers
    <3>2. \A f \in mine.hdr.mxFrame + 1..w.iFrame : f \in 1..MaxFrame
      BY <3>1, Constants
    <3>. QED  BY <1>2, <3>2 DEF OwnInv, ListOk
  <2>3. mine.pc # "out" => \A p \in Pages : PageOk(p)'
    BY <1>1, <1>2, TopType, PageKept DEF OwnInv
  <2>. QED  BY <2>1, <2>2, <2>3
<1>3. InTx' <=> InTx
  BY DEF InTx
<1>. QED  BY <1>2, <1>3 DEF OwnInv

(* The writer begins to read: what it has read of the header is live.      *)
LEMMA WriterBegins ==
  ASSUME TypeInv, PhaseInv, OwnInv, ReadInv, BeginRead(Writer)
  PROVE  /\ w.pc \in {"tx", "loghdr"} /\ mine.pc # "in" /\ (mine.pc = "out" => w.pc = "tx")
         /\ (w.pc = "loghdr" => mine.pc \in {"pick", "lock", "check"}) /\ InTx
         /\ mine.pc # "out" => mine.hdr = hdr
         /\ \/ mine' = NoRead /\ w.pc = "tx"
            \/ /\ mine'.hdr = hdr /\ mine'.pc # "out"
               /\ mine'.pc = "in" /\ mine'.readLock = 0 => nBackfill = hdr.mxFrame
               /\ mine'.readLock \in Slots => mine'.minFrame = nBackfill + 1
<1>0. /\ rd \in [Conns -> Reads] /\ mine \in Reads /\ rd[Writer] = mine /\ ReadOk(Writer)
      /\ UNCHANGED <<hdr, nBackfill, file, w>> /\ mine' = rd'[Writer] /\ Writer \in Conns
  BY Types, BeginReadIs, Constants DEF ReadInv, mine
<1>1. w.pc \in {"tx", "loghdr"} /\ mine.pc # "in" /\ (mine.pc = "out" => w.pc = "tx")
      /\ (w.pc = "loghdr" => mine.pc \in {"pick", "lock", "check"}) /\ InTx
  <2>1. mine.pc # "in" /\ (mine.pc = "out" => w.pc = "tx")
    BY <1>0 DEF BeginRead, ReadHdr, ChooseLog, LockZero, PickMark, LockMark, CheckMark
  <2>2. w.pc \in {"idle"} \cup TxPcs \cup CkptPcs
    BY Types DEF Writers
  <2>3. w.pc = "idle" => mine.pc = "out"
    BY <1>0 DEF PhaseInv, NoRead
  <2>. QED  BY <2>1, <2>2, <2>3 DEF PhaseInv, TxPcs, CkptPcs, InTx
<1>2. HeadOk /\ ListOk /\ (mine.pc # "out" => \A p \in Pages : PageOk(p))
  BY <1>1 DEF OwnInv
<1>3. mine.pc # "out" => mine.hdr = hdr
  BY <1>1, <1>2 DEF HeadOk
<1>4. \/ mine' = NoRead /\ w.pc = "tx"
      \/ /\ mine'.hdr = hdr /\ mine'.pc # "out"
         /\ mine'.pc = "in" /\ mine'.readLock = 0 => nBackfill = hdr.mxFrame
         /\ mine'.readLock \in Slots => mine'.minFrame = nBackfill + 1
  <2>1. CASE Retry(Writer)
    <3>1. mine' = IF mine.useWal THEN [mine EXCEPT !.pc = "pick", !.readLock = NoLock]
                                 ELSE NoRead
      BY <1>0, <2>1, RetryIs
    <3>2. CASE mine.useWal
      <4>1. w.pc = "loghdr"
        BY <1>1, <3>2 DEF PhaseInv
      <4>. QED  BY <1>0, <1>1, <1>3, <3>1, <3>2, <4>1, Constants DEF Reads
    <3>3. CASE ~mine.useWal
      BY <1>1, <3>1, <3>3 DEF PhaseInv
    <3>. QED  BY <3>2, <3>3
  <2>2. CASE ~Retry(Writer) /\ PickMark(Writer)
    <3>1. PICK i \in Slots : mine' = [mine EXCEPT !.mxI = i, !.mark = aReadMark'[i], !.pc = "lock"]
      BY <1>0, <2>2, PickMarkIs
    <3>2. mine.pc = "pick"
      BY <1>0, <2>2 DEF PickMark
    <3>3. mine.readLock = NoLock
      BY <1>0, <3>2 DEF ReadOk, Held
    <3>4. mine'.hdr = hdr /\ mine'.pc = "lock" /\ mine'.readLock = NoLock
      BY <1>0, <1>3, <3>1, <3>2, <3>3 DEF Reads
    <3>. QED  BY <3>4, Constants
  <2>3. CASE ReadHdr(Writer)
    <3>1. mine.pc = "out" /\ mine' = [mine EXCEPT !.hdr = hdr, !.pc = "hdr"]
      BY <1>0, <2>3 DEF ReadHdr
    <3>2. mine.readLock = NoLock
      BY <1>0, <3>1 DEF ReadOk, Held
    <3>3. mine'.hdr = hdr /\ mine'.pc = "hdr" /\ mine'.readLock = NoLock
      BY <1>0, <3>1, <3>2 DEF Reads
    <3>. QED  BY <3>3, Constants
  <2>4. CASE ~Retry(Writer) /\ (ChooseLog(Writer) \/ LockZero(Writer))
    <3>1. mine.pc \in {"hdr", "zero"}
      BY <1>0, <2>4 DEF ChooseLog, LockZero
    <3>2. mine.readLock = NoLock
      BY <1>0, <3>1 DEF ReadOk, Held
    <3>3. \/ \E pc \in {"zero", "pick"} : mine' = [mine EXCEPT !.pc = pc]
          \/ mine' = [mine EXCEPT !.readLock = 0, !.pc = "in"] /\ mine.pc = "zero"
      BY <1>0, <2>4 DEF ChooseLog, LockZero, Goto
    <3>4. mine.pc = "zero" => nBackfill = hdr.mxFrame
      BY <1>0, <1>3 DEF ReadOk
    <3>5. CASE \E pc \in {"zero", "pick"} : mine' = [mine EXCEPT !.pc = pc]
      <4>1. mine'.hdr = hdr /\ mine'.pc \in {"zero", "pick"} /\ mine'.readLock = NoLock
        BY <1>0, <1>3, <3>1, <3>2, <3>5 DEF Reads
      <4>. QED  BY <4>1, Constants
    <3>6. CASE mine' = [mine EXCEPT !.readLock = 0, !.pc = "in"] /\ mine.pc = "zero"
      <4>1. mine'.hdr = hdr /\ mine'.pc = "in" /\ mine'.readLock = 0
        BY <1>0, <1>3, <3>6 DEF Reads
      <4>. QED  BY <3>4, <3>6, <4>1, Constants
    <3>. QED  BY <3>3, <3>5, <3>6
  <2>5. CASE ~Retry(Writer) /\ LockMark(Writer)
    <3>1. mine' = [mine EXCEPT !.readLock = mine.mxI, !.minFrame = nBackfill + 1, !.pc = "check"]
          /\ mine.pc = "lock"
      BY <1>0, <2>5 DEF LockMark
    <3>2. mine'.hdr = hdr /\ mine'.pc = "check" /\ mine'.minFrame = nBackfill + 1
      BY <1>0, <1>3, <3>1 DEF Reads
    <3>. QED  BY <3>2
  <2>6. CASE ~Retry(Writer) /\ CheckMark(Writer)
    <3>1. mine' = [mine EXCEPT !.pc = "in", !.mxI = 0, !.mark = 0] /\ mine.pc = "check"
      BY <1>0, <2>6 DEF CheckMark
    <3>2. mine.readLock \in Slots
      BY <1>0, <3>1 DEF ReadOk
    <3>3. mine'.hdr = hdr /\ mine'.pc = "in" /\ mine'.readLock = mine.readLock
          /\ mine'.minFrame = mine.minFrame
      BY <1>0, <1>3, <3>1 DEF Reads
    <3>. QED  BY <1>2, <3>2, <3>3, Constants DEF HeadOk
  <2>. QED  BY <2>1, <2>2, <2>3, <2>4, <2>5, <2>6 DEF BeginRead
<1>. QED  BY <1>1, <1>3, <1>4

LEMMA OwnRead ==
  ASSUME TypeInv, TypeInv', PhaseInv, OwnInv, ReadInv, BeginRead(Writer)
  PROVE  OwnInv'
<1>0. /\ rd \in [Conns -> Reads] /\ mine \in Reads /\ rd[Writer] = mine
      /\ UNCHANGED <<hdr, nBackfill, file, w>> /\ mine' = rd'[Writer] /\ Writer \in Conns
  BY Types, BeginReadIs, Constants DEF mine
<1>1. w.pc \in {"tx", "loghdr"} /\ mine.pc # "in" /\ (mine.pc = "out" => w.pc = "tx")
      /\ (w.pc = "loghdr" => mine.pc \in {"pick", "lock", "check"}) /\ InTx
  BY WriterBegins
<1>2. HeadOk /\ ListOk /\ (mine.pc # "out" => \A p \in Pages : PageOk(p))
  BY <1>1 DEF OwnInv
<1>3. mine.pc # "out" => mine.hdr = hdr
  BY WriterBegins
<1>4. \/ mine' = NoRead /\ w.pc = "tx"
      \/ /\ mine'.hdr = hdr /\ mine'.pc # "out"
         /\ mine'.pc = "in" /\ mine'.readLock = 0 => nBackfill = hdr.mxFrame
         /\ mine'.readLock \in Slots => mine'.minFrame = nBackfill + 1
  BY WriterBegins
<1>5. \A p \in Pages : Fresh(p)
  <2>1. CASE w.pc = "tx"
    BY <1>1, <1>2, <2>1 DEF ListOk, Fresh
  <2>2. CASE w.pc = "loghdr"
    <3>1. Top = hdr.mxFrame /\ mine.pc # "out"
      BY <1>1, <1>3, <2>2 DEF Top
    <3>. QED  BY <1>2, <3>1, NoOwn, Types
  <2>. QED  BY <1>1, <2>1, <2>2
<1>6. CASE mine' = NoRead /\ w.pc = "tx"
  <2>1. mine'.pc = "out" /\ mine'.readLock \notin Slots
    BY <1>6, Constants DEF NoRead
  <2>2. HeadOk'
    BY <1>0, <1>6, <2>1 DEF HeadOk
  <2>3. ListOk'
    BY <1>0, <1>1, <1>2, <1>6, <2>1 DEF ListOk
  <2>. QED  BY <1>0, <1>1, <2>1, <2>2, <2>3 DEF OwnInv
<1>7. CASE /\ mine'.hdr = hdr /\ mine'.pc # "out"
           /\ mine'.pc = "in" /\ mine'.readLock = 0 => nBackfill = hdr.mxFrame
           /\ mine'.readLock \in Slots => mine'.minFrame = nBackfill + 1
  <2>1. Top' = hdr.mxFrame
    BY <1>0, <1>1, <1>7 DEF Top
  <2>2. HeadOk'
    BY <1>0, <1>1, <1>2, <1>7, <2>1, Types DEF HeadOk
  <2>3. ListOk'
    BY <1>0, <1>1, <1>2 DEF ListOk
  <2>4. \A p \in Pages : PageOk(p)'
    <3>1. \A p \in Pages : Fresh(p)'
      BY <1>0, <1>5 DEF Fresh
    <3>. QED  BY <1>0, <2>1, <3>1, NoOwnNext, Types
  <2>. QED  BY <1>0, <1>1, <2>2, <2>3, <2>4 DEF OwnInv
<1>. QED  BY <1>4, <1>6, <1>7

LEMMA OwnList ==
  ASSUME TypeInv, OwnInv, PhaseInv, ReadInv,
         NEW list \in SUBSET Pages, NEW isCommit, NEW cache, WalFrames(list, isCommit, cache),
         \A p \in Pages \ list : cache[p] = w.cache[p],
         isCommit \/ \A p \in list : cache[p] # Torn,
         \E p \in Pages : cache[p] # Torn
  PROVE  OwnInv'
<1>0. /\ w \in Writers /\ UNCHANGED <<hdr, nBackfill, file>> /\ mine' = mine
      /\ w.pc = "tx" /\ mine.pc = "in"
      /\ w'.pc = (IF mine.readLock = 0 THEN "restart" ELSE "loghdr")
      /\ w'.list = list /\ w'.cache = cache /\ w'.isCommit = isCommit
      /\ w'.iFirst = (IF mine.hdr = hdr THEN 0 ELSE hdr.mxFrame + 1)
  BY Types DEF WalFrames, At, shm, mine, Writers
<1>1. InTx /\ HeadOk /\ ListOk /\ \A p \in Pages : PageOk(p)
  BY <1>0 DEF OwnInv, InTx, TxPcs
<1>2. Top = mine.hdr.mxFrame /\ Top' = Top
  BY <1>0 DEF Top
<1>3. mine.readLock = 0 => nBackfill = hdr.mxFrame /\ mine.hdr = hdr
  BY <1>0, <1>1 DEF HeadOk
<1>4. HeadOk'
  BY <1>0, <1>1, <1>2, <1>3 DEF HeadOk
<1>5. ListOk'
  BY <1>0 DEF ListOk
<1>6. \A p \in Pages : PageOk(p)'
  <2>. SUFFICES ASSUME NEW p \in Pages PROVE PageOk(p)'
    OBVIOUS
  <2>1. p \in w.list => p \in w'.list
    BY <1>0, <1>1 DEF ListOk
  <2>2. p \notin w'.list => w'.cache[p] = w.cache[p]
    BY <1>0
  <2>3. p \in w'.list => w'.cache[p] # Torn \/ w'.isCommit
    BY <1>0
  <2>4. ~w.isCommit
    BY <1>0, <1>1 DEF ListOk
  <2>. QED  BY <1>0, <1>1, <1>2, <2>1, <2>2, <2>3, <2>4, PageKept
<1>. QED  BY <1>0, <1>4, <1>5, <1>6 DEF OwnInv

LEMMA OwnWritten ==
  ASSUME TypeInv, LastWritten, OwnInv, PhaseInv, ReadInv, CheckpointInv, WriteFrame
  PROVE  OwnInv'
<1>0. /\ w \in Writers /\ UNCHANGED <<hdr, nBackfill, rd>> /\ mine' = mine /\ mine.pc = "in"
      /\ w.pc = "frames" /\ w.list # {} /\ w'.pc = "frames" /\ w'.list = w.list \ {NextPage}
      /\ w'.cache = w.cache /\ w'.iFirst = w.iFirst /\ w'.isCommit = w.isCommit
  BY Types DEF WriteFrame, At, shm, mine, Writers, PhaseInv
<1>1. InTx /\ HeadOk /\ ListOk /\ \A p \in Pages : PageOk(p)
  BY <1>0 DEF OwnInv, InTx, TxPcs
<1>2. Top = w.iFrame /\ Top' = w'.iFrame /\ Top \in Nat /\ hdr.mxFrame \in Nat
      /\ mine.hdr.mxFrame \in Nat /\ hdr.mxFrame <= Top /\ mine.hdr.mxFrame <= Top
      /\ w.iFrame \in Nat
  BY <1>0, <1>1, TopType, Types DEF Top, HeadOk
<1>n. PICK n \in Pages : n = NextPage /\ n \in w.list
  BY <1>0, NextPageType
<1>3. /\ DOMAIN file.wal = 1..MaxFrame /\ \A f \in hdr.mxFrame + 1..Top : f \in 1..MaxFrame
  BY <1>0, <1>n, TopType DEF TypeInv
<1>4. \A f \in mine.hdr.mxFrame + 1..w.iFrame : file.wal[f].page \notin w.list
  BY <1>0, <1>1 DEF ListOk
<1>5. w'.list = w.list \ {n}
  BY <1>0, <1>n
<1>c. w.cache[n] # Torn \/ w.isCommit
  BY <1>1, <1>n DEF PageOk
<1>6. CASE Overwritten # 0
  <2>. DEFINE k == Overwritten
              g == [file.wal[k] EXCEPT !.val = w.cache[n]]
  <2>1. file'.wal = [file.wal EXCEPT ![k] = g] /\ w'.iFrame = w.iFrame
    BY <1>n, <1>6, FrameWritten
  <2>2. /\ k \in hdr.mxFrame + 1..mine.hdr.mxFrame /\ k \in 1..MaxFrame
        /\ file.wal[k].page = n
        /\ \A i \in hdr.mxFrame + 1..mine.hdr.mxFrame : file.wal[i].page = n => i <= k
    BY <1>0, <1>n, <1>6, OverwrittenIs
  <2>3. g.page = file.wal[k].page /\ g.val = w.cache[n]
    <3>1. file.wal[k] \in Frames
      BY <2>2 DEF TypeInv
    <3>. QED  BY <3>1 DEF Frames
  <2>. HIDE DEF k, g
  <2>4. \A f \in 1..MaxFrame : file'.wal[f].page = file.wal[f].page
    BY <1>3, <2>1, <2>2, <2>3
  <2>5. \A f \in 1..MaxFrame : f # k => file'.wal[f] = file.wal[f]
    BY <1>3, <2>1, <2>2
  <2>6. Top' = Top
    BY <1>2, <2>1
  <2>7. HeadOk'
    BY <1>0, <1>1, <2>1, <2>6 DEF HeadOk
  <2>8. ListOk'
    <3>1. \A f \in mine.hdr.mxFrame + 1..w.iFrame : file'.wal[f].page \notin w'.list
      <4>1. \A f \in mine.hdr.mxFrame + 1..w.iFrame : f \in hdr.mxFrame + 1..Top
        <5>1. hdr.mxFrame <= mine.hdr.mxFrame
          BY <1>2, <2>2
        <5>. QED  BY <1>2, <5>1
      <4>. QED  BY <1>3, <1>4, <1>5, <2>4, <4>1
    <3>. QED  BY <1>0, <1>1, <2>1, <3>1 DEF ListOk
  <2>9. ASSUME NEW p \in Pages \ {n} PROVE PageOk(p)'
    <3>1. CASE p \in w.list
      BY <1>0, <1>1, <1>5, <3>1 DEF PageOk
    <3>2. CASE p \notin w.list
      <4>1. Own(p)' = Own(p)
        BY <1>0, <1>3, <2>4, <2>6 DEF Own
      <4>2. \A f \in Own(p) : file'.wal[f].val = file.wal[f].val
        BY <1>3, <2>2, <2>5 DEF Own
      <4>. QED  BY <1>0, <1>1, <3>2, <4>1, <4>2 DEF PageOk
    <3>. QED  BY <3>1, <3>2
  <2>10. PageOk(n)'
    <3>1. \A f \in hdr.mxFrame + 1..Top : file.wal[f].page = n => f <= k
      <4>. SUFFICES ASSUME NEW f \in hdr.mxFrame + 1..Top, file.wal[f].page = n
                    PROVE  f <= k
        OBVIOUS
      <4>1. ~(f \in mine.hdr.mxFrame + 1..w.iFrame)
        BY <1>n, <1>4
      <4>2. f \in hdr.mxFrame + 1..mine.hdr.mxFrame
        BY <1>2, <4>1
      <4>. QED  BY <2>2, <4>2
    <3>2. k \in hdr.mxFrame + 1..Top
      BY <1>2, <2>2
    <3>3. file'.wal[k].page = n /\ file'.wal[k].val = w.cache[n]
      BY <1>3, <2>1, <2>2, <2>3
    <3>4. \A f \in hdr.mxFrame + 1..Top : file'.wal[f].page = n => f <= k
      BY <1>3, <2>4, <3>1
    <3>5. \E f \in hdr'.mxFrame + 1..Top' :
             /\ file'.wal[f].page = n /\ file'.wal[f].val = w'.cache[n]
             /\ \A i \in hdr'.mxFrame + 1..Top' : file'.wal[i].page = n => i <= f
      BY <1>0, <2>6, <3>2, <3>3, <3>4
    <3>. QED  BY <1>0, <1>c, <3>5 DEF PageOk, Own
  <2>. QED  BY <1>0, <2>7, <2>8, <2>9, <2>10 DEF OwnInv
<1>7. CASE Overwritten = 0
  <2>. DEFINE k == w.iFrame + 1
  <2>1. PICK new \in Frames : /\ file'.wal = [file.wal EXCEPT ![k] = new]
                             /\ new.page = n /\ new.val = w.cache[n]
    BY <1>n, <1>7, FrameWritten
  <2>2. k \in 1..MaxFrame /\ w'.iFrame = k /\ k > Top /\ k \in hdr.mxFrame + 1..k
    BY <1>2, <1>7, FrameWritten
  <2>3. file'.wal[k] = new /\ \A f \in 1..MaxFrame : f # k => file'.wal[f] = file.wal[f]
    BY <1>3, <2>1, <2>2
  <2>4. \A f \in hdr.mxFrame + 1..Top : file'.wal[f] = file.wal[f]
    BY <1>2, <1>3, <2>2, <2>3
  <2>5. \A f \in hdr.mxFrame + 1..k : f = k \/ f \in hdr.mxFrame + 1..Top
    BY <1>2
  <2>6. Top' = k
    BY <1>2, <2>2
  <2>7. HeadOk'
    BY <1>0, <1>1, <1>2, <2>2, <2>6 DEF HeadOk
  <2>8. ListOk'
    <3>1. \A f \in mine.hdr.mxFrame + 1..k : file'.wal[f].page \notin w'.list
      <4>. SUFFICES ASSUME NEW f \in mine.hdr.mxFrame + 1..k
                    PROVE  file'.wal[f].page \notin w'.list
        OBVIOUS
      <4>1. CASE f = k
        BY <1>5, <2>1, <2>3, <4>1
      <4>2. CASE f # k
        <5>1. f \in mine.hdr.mxFrame + 1..w.iFrame /\ f \in 1..MaxFrame
          BY <1>2, <2>2, <4>2, Constants
        <5>. QED  BY <1>4, <1>5, <2>3, <4>2, <5>1
      <4>. QED  BY <4>1, <4>2
    <3>. QED  BY <1>0, <1>1, <2>2, <3>1 DEF ListOk
  <2>. HIDE DEF k
  <2>9. ASSUME NEW p \in Pages \ {n} PROVE PageOk(p)'
    <3>1. CASE p \in w.list
      BY <1>0, <1>1, <1>5, <3>1 DEF PageOk
    <3>2. CASE p \notin w.list
      <4>1. {f \in hdr.mxFrame + 1..k : file'.wal[f].page = p}
              = {f \in hdr.mxFrame + 1..Top : file.wal[f].page = p}
        <5>1. \A f \in hdr.mxFrame + 1..Top : f \in hdr.mxFrame + 1..k
          BY <1>2, <2>2, Constants
        <5>. QED  BY <2>1, <2>3, <2>4, <2>5, <5>1
      <4>2. Own(p)' = Own(p)
        BY <1>0, <2>6, <4>1 DEF Own
      <4>3. \A f \in Own(p) : file'.wal[f].val = file.wal[f].val
        BY <2>4 DEF Own
      <4>. QED  BY <1>0, <1>1, <3>2, <4>2, <4>3 DEF PageOk
    <3>. QED  BY <3>1, <3>2
  <2>10. PageOk(n)'
    <3>1. \A f \in hdr.mxFrame + 1..k : f <= k
      OBVIOUS
    <3>2. \E f \in hdr'.mxFrame + 1..Top' :
             /\ file'.wal[f].page = n /\ file'.wal[f].val = w'.cache[n]
             /\ \A i \in hdr'.mxFrame + 1..Top' : file'.wal[i].page = n => i <= f
      BY <1>0, <2>1, <2>2, <2>3, <2>6, <3>1
    <3>. QED  BY <1>0, <1>c, <3>2 DEF PageOk, Own
  <2>. QED  BY <1>0, <2>7, <2>8, <2>9, <2>10 DEF OwnInv
<1>. QED  BY <1>6, <1>7

LEMMA CacheChanged ==
  ASSUME TypeInv, NEW ps \in SUBSET Pages, ps # {}
  PROVE  /\ \E p \in Pages : Changed(ps)[p] # Torn
         /\ \A p \in ps : Changed(ps)[p] # Torn
<1>. SUFFICES ASSUME NEW p \in ps PROVE Changed(ps)[p] # Torn
  OBVIOUS
<1>2. Changed(ps)[p] = <<count.tx, IF w.cache[p] = Torn THEN 1 ELSE w.cache[p][2] + 1>>
  BY DEF Changed
<1>3. count.tx \in Nat
  BY Types, Constants
<1>4. Changed(ps)[p][1] # Torn[1]
  BY <1>2, <1>3 DEF Torn
<1>. QED  BY <1>4

LEMMA OwnBegins ==
  ASSUME TypeInv, OwnInv, PhaseInv, ReadInv
  PROVE  /\ \A p \in Pages : Spill(p) => OwnInv'
         /\ \A ps \in SUBSET Pages : Commit(ps) => OwnInv'
<1>1. ASSUME NEW p \in Pages, Spill(p) PROVE OwnInv'
  <2>1. WalFrames({p}, FALSE, Changed({p}))
    BY <1>1 DEF Spill
  <2>2. \A q \in Pages \ {p} : Changed({p})[q] = w.cache[q]
    BY DEF Changed
  <2>. QED  BY <2>1, <2>2, CacheChanged, OwnList
<1>2. ASSUME NEW ps \in SUBSET Pages, Commit(ps) PROVE OwnInv'
  <2>1. CASE ps # {}
    <3>1. WalFrames(ps, TRUE, Changed(ps))
      BY <1>2, <2>1 DEF Commit
    <3>2. \A q \in Pages \ ps : Changed(ps)[q] = w.cache[q]
      BY DEF Changed
    <3>. QED  BY <2>1, <3>1, <3>2, CacheChanged, OwnList
  <2>2. CASE ps = {}
    <3>. DEFINE cache == [w.cache EXCEPT ![1] = IF @ = Torn THEN ReadPage(Writer, 1) ELSE @]
    <3>1. WalFrames({1}, TRUE, cache) /\ \E p \in Pages : w.cache[p] # Torn
      BY <1>2, <2>2 DEF Commit
    <3>2. {1} \in SUBSET Pages /\ w.cache \in [Pages -> Vals]
      BY Types, Constants DEF Writers
    <3>3. \A q \in Pages \ {1} : cache[q] = w.cache[q]
      BY <3>2
    <3>4. \E p \in Pages : cache[p] # Torn
      BY <3>1, <3>2
    <3>. HIDE DEF cache
    <3>. QED  BY <3>1, <3>2, <3>3, <3>4, OwnList
  <2>. QED  BY <2>1, <2>2
<1>. QED  BY <1>1, <1>2

LEMMA OwnInvStep ==
  ASSUME TypeInv, TypeInv', LastWritten, OwnInv, PhaseInv, ReadInv, CheckpointInv, [Next]_vars
  PROVE  OwnInv'
<1>0. /\ w \in Writers /\ rd \in [Conns -> Reads] /\ mine \in Reads /\ rd[Writer] = mine
      /\ hdr \in Hdrs /\ mine.hdr \in Hdrs /\ mine' = rd'[Writer] /\ Writer \in Conns
      /\ hdr.mxFrame \in Nat /\ mine.hdr.mxFrame \in Nat /\ w.iFrame \in Nat
  BY Types, Constants DEF mine, Writers
<1>1. ASSUME w'.pc \in CkptPcs \/ EndTx PROVE OwnInv'
  <2>1. CASE w'.pc \in CkptPcs
    BY <2>1 DEF OwnInv, InTx, CkptPcs, TxPcs
  <2>2. CASE EndTx
    <3>1. w'.pc = "idle" /\ w'.list = {} /\ ~w'.isCommit /\ \A p \in Pages : w'.cache[p] = Torn
      BY <2>2 DEF EndTx, IdleWriter
    <3>. QED  BY <3>1 DEF OwnInv, InTx, TxPcs
  <2>. QED  BY <1>1, <2>1, <2>2
<1>2. CASE UNCHANGED vars \/ (\E c \in Readers : BeginRead(c) \/ EndRead(c))
  <2>1. UNCHANGED <<hdr, nBackfill, file, w>> /\ mine' = mine
    <3>1. CASE UNCHANGED vars
      BY <3>1 DEF vars, mine
    <3>2. ASSUME NEW c \in Readers, BeginRead(c) \/ EndRead(c)
          PROVE  UNCHANGED <<hdr, nBackfill, file, w>> /\ mine' = mine
      BY <1>0, <3>2, BeginReadIs, Constants DEF EndRead, shm
    <3>. QED  BY <1>2, <3>1, <3>2
  <2>. QED  BY <2>1, OwnKept
<1>3. CASE BeginRead(Writer)
  BY <1>3, OwnRead
<1>4. CASE BeginTx
  <2>1. /\ UNCHANGED <<hdr, nBackfill, file>> /\ mine' = mine /\ w.pc = "idle" /\ w'.pc = "tx"
        /\ w'.list = w.list /\ w'.cache = w.cache /\ w'.isCommit = w.isCommit
    BY <1>0, <1>4 DEF BeginTx, At, shm, Writers
  <2>2. mine.pc = "out" /\ mine.readLock \notin Slots
    BY <1>0, <2>1, Constants DEF PhaseInv, NoRead
  <2>3. w.list = {} /\ ~w.isCommit /\ \A p \in Pages : w.cache[p] = Torn
    BY <2>1 DEF OwnInv
  <2>4. HeadOk'
    BY <2>1, <2>2 DEF HeadOk
  <2>5. ListOk'
    BY <2>1, <2>3 DEF ListOk
  <2>. QED  BY <2>1, <2>2, <2>4, <2>5 DEF OwnInv
<1>5. CASE RestartLog
  <2>1. /\ UNCHANGED <<nBackfill, file>> /\ w.pc = "restart"
        /\ w'.list = w.list /\ w'.cache = w.cache /\ w'.iFirst = w.iFirst /\ w'.isCommit = w.isCommit
        /\ mine.pc = "in" /\ mine.readLock = 0
    BY <1>0, <1>5 DEF RestartLog, At, PhaseInv, Writers
  <2>2. InTx /\ HeadOk /\ ListOk /\ \A p \in Pages : PageOk(p)
    BY <2>1 DEF OwnInv, InTx, TxPcs
  <2>3. mine.hdr = hdr /\ w.iFirst = 0
    BY <2>1, <2>2 DEF HeadOk
  <2>4. \A p \in Pages : Fresh(p)
    <3>1. Top = hdr.mxFrame
      BY <2>1, <2>3 DEF Top
    <3>. QED  BY <1>0, <2>2, <3>1, NoOwn
  <2>5. /\ w'.pc \in {"reset", "reread"} /\ mine'.hdr = hdr' /\ mine'.pc = "in"
        /\ mine'.readLock = 0 /\ mine'.hdr.iChange = hdr'.iChange
    <3>1. CASE hdr' = [mine.hdr EXCEPT !.mxFrame = 0, !.salt = count.salt + 1]
               /\ rd' = [rd EXCEPT ![Writer].hdr = hdr'] /\ w' = [w EXCEPT !.pc = "reset", !.nCkpt = @ + 1]
      BY <1>0, <2>1, <3>1 DEF Reads, Writers
    <3>2. CASE UNCHANGED <<hdr, rd>> /\ w' = [w EXCEPT !.pc = "reread"]
      BY <1>0, <2>1, <2>3, <3>2 DEF Writers
    <3>. QED  BY <1>5, <3>1, <3>2 DEF RestartLog
  <2>6. Top' = hdr'.mxFrame /\ hdr'.mxFrame \in Nat
    <3>1. Top' = mine'.hdr.mxFrame
      BY <2>5 DEF Top
    <3>2. hdr'.mxFrame \in Nat
      BY Constants DEF TypeInv, Hdrs
    <3>. QED  BY <2>5, <3>1, <3>2
  <2>7. HeadOk'
    BY <2>1, <2>3, <2>5, <2>6, Constants DEF HeadOk
  <2>8. ListOk'
    BY <2>1, <2>2, <2>5 DEF ListOk
  <2>9. \A p \in Pages : PageOk(p)'
    <3>1. \A p \in Pages : Fresh(p)'
      BY <2>1, <2>4 DEF Fresh
    <3>. QED  BY <2>6, <3>1, NoOwnNext
  <2>. QED  BY <2>5, <2>7, <2>8, <2>9 DEF OwnInv
<1>6. CASE ResetMarks \/ ReadAgain
  <2>1. /\ UNCHANGED <<hdr, file>> /\ w.pc \in {"reset", "reread"} /\ w'.pc \in {"reread", "loghdr"}
        /\ (w'.pc = "reread" => mine' = mine)
        /\ w'.list = w.list /\ w'.cache = w.cache /\ w'.iFirst = w.iFirst /\ w'.isCommit = w.isCommit
        /\ mine.pc = "in" /\ mine.readLock = 0
    BY <1>0, <1>6 DEF ResetMarks, ReadAgain, At, shm, PhaseInv, Writers
  <2>2. InTx /\ HeadOk /\ ListOk /\ \A p \in Pages : PageOk(p)
    BY <2>1 DEF OwnInv, InTx, TxPcs
  <2>3. mine.hdr = hdr /\ w.iFirst = 0
    BY <2>1, <2>2 DEF HeadOk
  <2>4. \A p \in Pages : Fresh(p)
    <3>1. Top = hdr.mxFrame
      BY <2>1, <2>3 DEF Top
    <3>. QED  BY <1>0, <2>2, <3>1, NoOwn
  <2>5. mine'.hdr = hdr /\ mine'.pc \in {"in", "pick"} /\ mine'.readLock \notin Slots
        /\ (mine'.pc = "in" => w'.pc = "reread")
    <3>1. CASE mine' = mine /\ w'.pc = "reread"
      BY <2>1, <2>3, <3>1, Constants
    <3>2. CASE rd' = [rd EXCEPT ![Writer].readLock = NoLock, ![Writer].useWal = TRUE,
                                ![Writer].pc = "pick"]
      <4>1. mine'.hdr = mine.hdr /\ mine'.pc = "pick" /\ mine'.readLock = NoLock
        BY <1>0, <3>2 DEF Reads
      <4>. QED  BY <2>3, <4>1, Constants
    <3>. QED  BY <1>0, <1>6, <2>1, <3>1, <3>2 DEF ResetMarks, ReadAgain, Writers
  <2>6. Top' = hdr.mxFrame
    BY <2>1, <2>5 DEF Top
  <2>7. HeadOk'
    BY <1>0, <2>1, <2>3, <2>5, <2>6 DEF HeadOk
  <2>8. ListOk'
    BY <2>1, <2>2 DEF ListOk
  <2>9. \A p \in Pages : PageOk(p)'
    <3>1. \A p \in Pages : Fresh(p)'
      BY <2>1, <2>4 DEF Fresh
    <3>. QED  BY <1>0, <2>1, <2>6, <3>1, NoOwnNext
  <2>. QED  BY <2>1, <2>7, <2>8, <2>9 DEF OwnInv
<1>7. CASE WriteLogHeader
  <2>1. /\ UNCHANGED <<hdr, nBackfill>> /\ w.pc = "loghdr" /\ mine.pc = "in" /\ mine.readLock # 0
        /\ w'.list = w.list /\ w'.cache = w.cache /\ w'.iFirst = w.iFirst /\ w'.isCommit = w.isCommit
        /\ file'.wal = file.wal
    <3>1. UNCHANGED <<hdr, nBackfill>> /\ w.pc = "loghdr" /\ mine.pc = "in"
      BY <1>7 DEF WriteLogHeader, At, shm
    <3>2. \/ w' = [w EXCEPT !.pc = "synclog", !.iFrame = 0]
          \/ w' = [w EXCEPT !.pc = "frames", !.iFrame = mine.hdr.mxFrame]
      BY <1>7 DEF WriteLogHeader
    <3>3. w'.list = w.list /\ w'.cache = w.cache /\ w'.iFirst = w.iFirst
      BY <1>0, <3>2 DEF Writers
    <3>6. w'.isCommit = w.isCommit
      BY <1>0, <3>2 DEF Writers
    <3>4. file'.wal = file.wal
      BY <1>7 DEF WriteLogHeader, TypeInv
    <3>5. mine.readLock # 0
      BY <3>1 DEF PhaseInv
    <3>. QED  BY <3>1, <3>3, <3>4, <3>5, <3>6
  <2>2. InTx /\ HeadOk /\ ListOk /\ \A p \in Pages : PageOk(p)
    BY <2>1 DEF OwnInv, InTx, TxPcs
  <2>3. \/ w'.pc = "synclog" /\ w'.iFrame = 0 /\ mine.hdr.mxFrame = 0
        \/ w'.pc = "frames" /\ w'.iFrame = mine.hdr.mxFrame
    BY <1>0, <1>7 DEF WriteLogHeader, Writers
  <2>4. /\ mine'.pc = "in" /\ mine'.readLock = mine.readLock /\ mine'.minFrame = mine.minFrame
        /\ mine'.hdr.mxFrame = mine.hdr.mxFrame /\ mine'.hdr.iChange = mine.hdr.iChange
    <3>1. CASE rd' = rd
      BY <1>0, <2>1, <3>1
    <3>2. ASSUME NEW salt, rd' = [rd EXCEPT ![Writer].hdr.salt = salt]
          PROVE  /\ mine'.pc = "in" /\ mine'.readLock = mine.readLock
                 /\ mine'.minFrame = mine.minFrame
                 /\ mine'.hdr.mxFrame = mine.hdr.mxFrame /\ mine'.hdr.iChange = mine.hdr.iChange
      BY <1>0, <2>1, <3>2 DEF Reads, Hdrs
    <3>. QED  BY <1>7, <3>1, <3>2 DEF WriteLogHeader
  <2>5. Top = mine.hdr.mxFrame /\ Top' = Top
    BY <2>1, <2>3, <2>4 DEF Top
  <2>6. HeadOk'
    BY <1>0, <2>1, <2>2, <2>3, <2>4, <2>5 DEF HeadOk
  <2>7. ListOk'
    <3>1. \A f \in mine'.hdr.mxFrame + 1..w'.iFrame : FALSE
      BY <1>0, <2>3, <2>4
    <3>. QED  BY <2>1, <2>2, <2>3, <3>1 DEF ListOk
  <2>8. \A p \in Pages : PageOk(p)'
    BY <2>1, <2>2, <2>5, PageKept
  <2>. QED  BY <2>3, <2>6, <2>7, <2>8 DEF OwnInv
<1>8. CASE SyncLogHeader
  <2>1. /\ UNCHANGED <<hdr, nBackfill, file>> /\ mine' = mine /\ w.pc = "synclog" /\ w'.pc = "frames"
        /\ w'.list = w.list /\ w'.cache = w.cache /\ w'.iFirst = w.iFirst /\ w'.iFrame = w.iFrame
        /\ w'.isCommit = w.isCommit
        /\ mine.pc = "in" /\ mine.readLock # 0
    BY <1>0, <1>8 DEF SyncLogHeader, At, shm, PhaseInv, Writers
  <2>2. InTx /\ HeadOk /\ ListOk /\ \A p \in Pages : PageOk(p)
    BY <2>1 DEF OwnInv, InTx, TxPcs
  <2>3. w.iFrame = mine.hdr.mxFrame
    BY <2>1, <2>2 DEF HeadOk
  <2>4. Top = mine.hdr.mxFrame /\ Top' = Top
    BY <2>1, <2>3 DEF Top
  <2>5. HeadOk'
    BY <1>0, <2>1, <2>2, <2>3, <2>4 DEF HeadOk
  <2>6. ListOk'
    <3>1. \A f \in mine'.hdr.mxFrame + 1..w'.iFrame : FALSE
      BY <1>0, <2>1, <2>3
    <3>. QED  BY <2>1, <2>2, <3>1 DEF ListOk
  <2>7. \A p \in Pages : PageOk(p)'
    BY <2>1, <2>2, <2>4, PageKept
  <2>. QED  BY <2>1, <2>5, <2>6, <2>7 DEF OwnInv
<1>9. CASE WriteFrame
  BY <1>9, OwnWritten
<1>10. CASE RewriteChecksums
  <2>1. /\ UNCHANGED <<hdr, nBackfill>> /\ mine' = mine /\ w'.pc = w.pc
        /\ w'.list = w.list /\ w'.cache = w.cache /\ w'.iFirst = w.iFirst /\ w'.iFrame = w.iFrame
        /\ w'.isCommit = w.isCommit
    BY <1>0, <1>10 DEF RewriteChecksums, shm, Writers
  <2>. QED  BY <1>10, <2>1, ChecksumsKeep, OwnKept
<1>11. CASE EndSpill
  <2>1. /\ UNCHANGED <<hdr, nBackfill, file>> /\ w.pc = "frames" /\ w'.pc = "tx" /\ w.list = {}
        /\ w'.list = w.list /\ w'.cache = w.cache /\ w'.isCommit = w.isCommit /\ ~w.isCommit
        /\ rd' = [rd EXCEPT ![Writer].hdr.mxFrame = w.iFrame]
        /\ mine.pc = "in" /\ mine.readLock # 0
    BY <1>0, <1>11 DEF EndSpill, At, shm, PhaseInv, Writers
  <2>2. InTx /\ HeadOk /\ ListOk /\ \A p \in Pages : PageOk(p)
    BY <2>1 DEF OwnInv, InTx, TxPcs
  <2>3. /\ mine'.pc = "in" /\ mine'.readLock = mine.readLock /\ mine'.minFrame = mine.minFrame
        /\ mine'.hdr.mxFrame = w.iFrame /\ mine'.hdr.iChange = mine.hdr.iChange
    BY <1>0, <2>1 DEF Reads, Hdrs
  <2>4. Top = w.iFrame /\ Top' = Top
    BY <2>1, <2>3 DEF Top
  <2>5. w.iFrame > hdr.mxFrame
    <3>1. PICK p \in Pages : w.cache[p] # Torn
      BY <2>1, <2>2 DEF ListOk
    <3>2. Own(p) # {}
      BY <2>1, <2>2, <3>1 DEF PageOk
    <3>. QED  BY <1>0, <2>4, <3>2 DEF Own
  <2>6. HeadOk'
    BY <1>0, <2>1, <2>2, <2>3, <2>4, <2>5 DEF HeadOk
  <2>7. ListOk'
    BY <2>1, <2>2, <2>3 DEF ListOk
  <2>8. \A p \in Pages : PageOk(p)'
    BY <2>1, <2>2, <2>4, PageKept
  <2>. QED  BY <2>1, <2>6, <2>7, <2>8 DEF OwnInv
<1>12. CASE SyncFrames
  <2>1. /\ UNCHANGED <<hdr, nBackfill, file>> /\ mine' = mine /\ w.pc = "frames" /\ w'.pc = "publish"
        /\ w'.list = w.list /\ w'.cache = w.cache /\ w'.iFirst = w.iFirst /\ w'.iFrame = w.iFrame
        /\ w'.isCommit = w.isCommit
        /\ mine.pc = "in" /\ mine.readLock # 0 /\ w.list = {}
    BY <1>0, <1>12 DEF SyncFrames, At, shm, PhaseInv, Writers
  <2>2. InTx /\ HeadOk /\ ListOk /\ \A p \in Pages : PageOk(p)
    BY <2>1 DEF OwnInv, InTx, TxPcs
  <2>3. Top' = Top
    BY <2>1 DEF Top
  <2>4. HeadOk'
    BY <2>1, <2>2, <2>3 DEF HeadOk
  <2>5. ListOk'
    BY <2>1, <2>2 DEF ListOk
  <2>6. \A p \in Pages : PageOk(p)'
    BY <2>1, <2>2, <2>3, PageKept
  <2>. QED  BY <2>1, <2>4, <2>5, <2>6 DEF OwnInv
<1>13. CASE Rollback \/ WriteFails \/ Publish \/ CheckpointBusy \/ CheckpointOk
  BY <1>1, <1>13 DEF Rollback, WriteFails, Publish, CheckpointBusy, CheckpointOk, EndCheckpoint
<1>14. CASE \/ BeginCheckpoint \/ ReadMark \/ RaiseMark \/ YieldToMark \/ SkipBackfill
            \/ StartBackfill \/ CopyPage \/ SyncDb \/ SetBackfill
  <2>1. w'.pc \in CkptPcs
    BY <1>0, <1>14 DEF BeginCheckpoint, ReadMark, RaiseMark, YieldToMark, SkipBackfill,
       StartBackfill, CopyPage, SyncDb, SetBackfill, At, Writers, CkptPcs
  <2>. QED  BY <1>1, <2>1
<1>15. CASE Crash
  <2>1. w'.pc = "idle" /\ w'.list = {} /\ ~w'.isCommit /\ \A p \in Pages : w'.cache[p] = Torn
    BY <1>15 DEF Crash, Restart, IdleWriter
  <2>. QED  BY <2>1 DEF OwnInv, InTx, TxPcs
<1>. QED  BY <1>2, <1>3, <1>4, <1>5, <1>6, <1>7, <1>8, <1>9, <1>10, <1>11, <1>12, <1>13, <1>14,
             <1>15, OwnBegins DEF Next, Transaction, RunCheckpoint, Conns

-----------------------------------------------------------------------------
(* Readers of the log. *)
LEMMA ReaderKept ==
  ASSUME TypeInv, NEW r \in Readers, ReaderOk(r), rd'[r] = rd[r],
         rd[r].pc = "in" /\ rd[r].readLock # 0 =>
           aReadMark'[rd[r].readLock] = aReadMark[rd[r].readLock] /\ hdr'.mxFrame >= hdr.mxFrame,
         hdr'.mxFrame \in Nat,
         w' = w \/ w'.pc \notin {"marks", "slot", "copy"}
  PROVE  ReaderOk(r)'
<1>1. rd[r].hdr.mxFrame \in Nat /\ hdr.mxFrame \in Nat
  BY Types, Constants DEF Reads, Hdrs
<1>. QED  BY <1>1 DEF ReaderOk

LEMMA ReaderInvStep ==
  ASSUME TypeInv, TypeInv', LastWritten, OwnInv, PhaseInv, ReadInv, LockInv, CheckpointInv,
         ReaderInv, [Next]_vars
  PROVE  ReaderInv'
<1>0. /\ w \in Writers /\ rd \in [Conns -> Reads] /\ Readers \subseteq Conns
      /\ hdr.mxFrame \in Nat /\ hdr'.mxFrame \in Nat /\ w.mxSafeFrame \in Nat /\ w.i \in Nat
      /\ w.y \in Nat /\ w.iFrame \in Nat /\ aReadMark \in [Slots -> 0..NotUsed]
      /\ \A r \in Readers : rd[r].hdr.mxFrame \in Nat
  <2>1. \A r \in Readers : rd[r].hdr.mxFrame \in Nat
    BY Types, Constants DEF Reads, Hdrs
  <2>2. hdr'.mxFrame \in Nat
    BY Constants DEF TypeInv, Hdrs
  <2>3. w.mxSafeFrame \in Nat /\ w.i \in Nat /\ w.y \in Nat /\ w.iFrame \in Nat
    BY Types, Constants DEF Writers
  <2>4. aReadMark \in [Slots -> 0..NotUsed]
    BY DEF TypeInv
  <2>. QED  BY <2>1, <2>2, <2>3, <2>4, Types, Constants
<1>a. ASSUME NEW r \in Readers, rd[r].pc = "in", rd[r].readLock # 0
      PROVE  /\ rd[r].readLock \in Slots /\ r \in Shared(rd[r].readLock)
             /\ rd[r].readLock \in 1..NReader
  <2>1. rd[r].readLock \in {NoLock} \cup 0..NReader /\ rd[r].readLock # NoLock /\ r \in Conns
    BY <1>0, <1>a DEF Reads, ReadInv, ReadOk, Held
  <2>. QED  BY <1>a, <2>1, Constants DEF Shared, Slots
<1>1. ASSUME rd' = rd \/ EndTx \/ (\E x : rd' = [rd EXCEPT ![Writer].hdr = x])
               \/ (\E x : rd' = [rd EXCEPT ![Writer].hdr.salt = x])
               \/ (\E x : rd' = [rd EXCEPT ![Writer].hdr.mxFrame = x]) \/ ReadAgain
      PROVE  \A r \in Readers : rd'[r] = rd[r]
  BY <1>0, <1>1, EndTxIs, Constants DEF ReadAgain
<1>2. ASSUME \A r \in Readers : rd'[r] = rd[r], aReadMark' = aReadMark,
             hdr'.mxFrame >= hdr.mxFrame, w' = w \/ w'.pc \notin {"marks", "slot", "copy"}
      PROVE  ReaderInv'
  BY <1>0, <1>2, ReaderKept DEF ReaderInv
<1>3. CASE UNCHANGED vars
  BY <1>0, <1>2, <1>3 DEF vars
<1>4. ASSUME NEW c \in Readers, EndRead(c) PROVE ReaderInv'
  <2>1. UNCHANGED <<hdr, aReadMark, w>> /\ rd' = [rd EXCEPT ![c] = NoRead]
    BY <1>4 DEF EndRead, shm
  <2>2. ReaderOk(c)'
    <3>1. rd'[c].pc = "out"
      BY <1>0, <2>1 DEF NoRead
    <3>. QED  BY <3>1 DEF ReaderOk
  <2>3. ASSUME NEW r \in Readers, r # c PROVE ReaderOk(r)'
    <3>1. rd'[r] = rd[r]
      BY <1>0, <2>1, <2>3
    <3>. QED  BY <1>0, <2>1, <3>1, ReaderKept DEF ReaderInv
  <2>. QED  BY <2>2, <2>3 DEF ReaderInv
<1>5. ASSUME NEW c \in Conns, BeginRead(c) PROVE ReaderInv'
  <2>1. UNCHANGED <<hdr, w>> /\ \A d \in Conns \ {c} : rd'[d] = rd[d]
    BY <1>5, BeginReadIs
  <2>2. ASSUME NEW r \in Readers, rd[r].pc = "in", rd[r].readLock # 0
        PROVE  aReadMark'[rd[r].readLock] = aReadMark[rd[r].readLock]
    <3>1. \A i \in Slots : CanExclude(i) => i # rd[r].readLock
      BY <1>a, <2>2 DEF CanExclude
    <3>. QED  BY <1>0, <1>5, <1>a, <2>2, <3>1, BeginReadIs
  <2>3. ASSUME NEW r \in Readers, r # c PROVE ReaderOk(r)'
    BY <1>0, <2>1, <2>2, <2>3, ReaderKept DEF ReaderInv
  <2>4. ASSUME c \in Readers, rd'[c].pc = "in", rd'[c].readLock # 0
        PROVE  /\ hdr = rd[c].hdr /\ rd'[c].hdr = hdr /\ aReadMark' = aReadMark
               /\ rd'[c].readLock \in Slots /\ aReadMark[rd'[c].readLock] <= hdr.mxFrame
    <3>0. rd[c] \in Reads /\ ReadOk(c) /\ ~Retry(c)
      <4>1. ~Retry(c)
        <5>. SUFFICES ASSUME Retry(c) PROVE FALSE
          OBVIOUS
        <5>1. rd'[c] = IF rd[c].useWal THEN [rd[c] EXCEPT !.pc = "pick", !.readLock = NoLock]
                                       ELSE NoRead
          BY RetryIs
        <5>2. rd[c] \in Reads
          BY <1>0
        <5>3. rd'[c].pc \in {"pick", "out"}
          BY <5>1, <5>2 DEF NoRead, Reads
        <5>. QED  BY <2>4, <5>3
      <4>. QED  BY <1>0, <4>1 DEF ReadInv
    <3>1. CASE CheckMark(c)
      <4>1. /\ rd[c].pc = "check" /\ aReadMark[rd[c].mxI] = rd[c].mark /\ hdr = rd[c].hdr
            /\ rd' = [rd EXCEPT ![c].pc = "in", ![c].mxI = 0, ![c].mark = 0]
            /\ aReadMark' = aReadMark
        BY <3>0, <3>1 DEF CheckMark, shm
      <4>2. rd'[c].hdr = rd[c].hdr /\ rd'[c].readLock = rd[c].readLock
        BY <1>0, <3>0, <4>1 DEF Reads
      <4>3. rd[c].readLock = rd[c].mxI /\ rd[c].mxI \in Slots /\ rd[c].mark <= rd[c].hdr.mxFrame
        BY <3>0, <4>1 DEF ReadOk
      <4>. QED  BY <4>1, <4>2, <4>3
    <3>2. CASE ReadHdr(c) \/ ChooseLog(c) \/ LockMark(c)
      <4>1. rd'[c].pc \in {"hdr", "zero", "pick", "check"}
        BY <1>0, <3>0, <3>2 DEF ReadHdr, ChooseLog, LockMark, Goto, Reads
      <4>. QED  BY <2>4, <4>1
    <3>3. CASE LockZero(c)
      <4>1. rd'[c].pc = "pick" \/ rd'[c].readLock = 0
        BY <1>0, <3>0, <3>3 DEF LockZero, Goto, Reads
      <4>. QED  BY <2>4, <4>1
    <3>4. CASE PickMark(c)
      <4>1. rd'[c].pc = "lock"
        <5>1. \E i \in Slots :
                rd'[c] = [rd[c] EXCEPT !.mxI = i, !.mark = aReadMark'[i], !.pc = "lock"]
          BY <3>0, <3>4, PickMarkIs
        <5>. QED  BY <3>0, <5>1 DEF Reads
      <4>. QED  BY <2>4, <4>1
    <3>. QED  BY <1>5, <3>1, <3>2, <3>3, <3>4 DEF BeginRead
  <2>5. ASSUME c \in Readers PROVE ReaderOk(c)'
    <3>. SUFFICES ASSUME rd'[c].pc = "in", rd'[c].readLock # 0 PROVE ReaderOk(c)'
      BY DEF ReaderOk
    <3>1. /\ rd'[c].hdr = hdr /\ aReadMark' = aReadMark
          /\ aReadMark[rd'[c].readLock] <= hdr.mxFrame
      BY <2>4, <2>5
    <3>2. w.pc \in {"marks", "slot", "copy"} => w.mxSafeFrame <= hdr.mxFrame
      BY DEF CheckpointInv, CkptPcs
    <3>3. w.pc = "slot" => w.y <= hdr.mxFrame
      BY <1>0, <3>2 DEF CheckpointInv
    <3>. QED  BY <1>0, <2>1, <3>1, <3>2, <3>3 DEF ReaderOk
  <2>. QED  BY <2>3, <2>5 DEF ReaderInv
<1>6. CASE \/ BeginTx \/ (\E p \in Pages : Spill(p)) \/ (\E ps \in SUBSET Pages : Commit(ps))
           \/ ReadAgain \/ WriteLogHeader \/ SyncLogHeader \/ WriteFrame \/ RewriteChecksums
           \/ EndSpill \/ SyncFrames
  <2>1. UNCHANGED <<hdr, aReadMark>>
    BY <1>6, TxBegins DEF ReadAgain, WriteLogHeader, SyncLogHeader, WriteFrame,
       RewriteChecksums, EndSpill, SyncFrames, shm
  <2>2. w'.pc \in {"tx", "restart", "loghdr", "synclog", "frames", "publish"}
    <3>1. CASE \/ BeginTx \/ (\E p \in Pages : Spill(p)) \/ (\E ps \in SUBSET Pages : Commit(ps))
      BY <3>1, TxBegins
    <3>2. CASE ReadAgain \/ WriteLogHeader \/ SyncLogHeader \/ EndSpill \/ SyncFrames
      BY <1>0, <3>2 DEF ReadAgain, WriteLogHeader, SyncLogHeader, EndSpill, SyncFrames, Writers
    <3>3. CASE WriteFrame \/ RewriteChecksums
      BY <1>0, <3>3 DEF WriteFrame, RewriteChecksums, At, Writers
    <3>. QED  BY <1>6, <3>1, <3>2, <3>3
  <2>3. \A r \in Readers : rd'[r] = rd[r]
    BY <1>1, <1>6 DEF BeginTx, Spill, Commit, WalFrames, WriteLogHeader, SyncLogHeader,
       WriteFrame, RewriteChecksums, EndSpill, SyncFrames
  <2>. QED  BY <1>0, <1>2, <2>1, <2>2, <2>3
<1>7. CASE Rollback \/ WriteFails \/ Publish \/ CheckpointBusy \/ CheckpointOk
  <2>1. EndTx /\ aReadMark' = aReadMark
    BY <1>7 DEF Rollback, WriteFails, Publish, CheckpointBusy, CheckpointOk, EndCheckpoint, shm
  <2>2. hdr'.mxFrame >= hdr.mxFrame
    <3>1. CASE Publish
      <4>1. w.pc = "publish" /\ hdr'.mxFrame = w.iFrame
        BY <3>1, Types DEF Publish, At, Hdrs
      <4>2. hdr.mxFrame <= w.iFrame
        BY <4>1 DEF PhaseInv, OwnInv, InTx, TxPcs, HeadOk, Top
      <4>. QED  BY <1>0, <4>1, <4>2
    <3>2. CASE ~Publish
      BY <1>0, <1>7, <3>2 DEF Rollback, WriteFails, CheckpointBusy, CheckpointOk, EndCheckpoint, shm
    <3>. QED  BY <3>1, <3>2
  <2>. QED  BY <1>1, <1>2, <2>1, <2>2, EndTxIs
<1>8. CASE RestartLog \/ ResetMarks
  <2>1. w'.pc \in {"reset", "reread"} /\ \A r \in Readers : rd'[r] = rd[r]
    <3>1. w'.pc \in {"reset", "reread"}
      BY <1>0, <1>8 DEF RestartLog, ResetMarks, Writers
    <3>2. \A r \in Readers : rd'[r] = rd[r]
      BY <1>1, <1>8 DEF RestartLog, ResetMarks
    <3>. QED  BY <3>1, <3>2
  <2>2. CASE UNCHANGED <<hdr, aReadMark>>
    BY <1>0, <1>2, <2>1, <2>2
  <2>3. CASE ~UNCHANGED <<hdr, aReadMark>>
    <3>1. \A i \in Slots : Shared(i) = {}
      <4>1. CASE RestartLog
        BY <2>3, <4>1 DEF RestartLog, CanExclude
      <4>2. CASE ResetMarks
        BY <4>2 DEF ResetMarks, At, LockInv
      <4>. QED  BY <1>8, <4>1, <4>2
    <3>2. \A r \in Readers : ~(rd[r].pc = "in" /\ rd[r].readLock # 0)
      BY <1>a, <3>1
    <3>. QED  BY <2>1, <3>2 DEF ReaderInv, ReaderOk
  <2>. QED  BY <2>2, <2>3
<1>9. CASE BeginCheckpoint
  <2>1. UNCHANGED <<hdr, aReadMark>> /\ w'.i = 1 /\ w'.pc \in {"marks", "wait"}
    BY <1>0, <1>9 DEF BeginCheckpoint, shm, Writers
  <2>2. \A r \in Readers : rd'[r] = rd[r]
    BY <1>1, <1>9 DEF BeginCheckpoint
  <2>3. ASSUME NEW r \in Readers, rd[r].pc = "in", rd[r].readLock # 0
        PROVE  ~(rd[r].readLock < 1)
    BY <1>a, <2>3, Constants
  <2>. QED  BY <2>1, <2>2, <2>3 DEF ReaderInv, ReaderOk
<1>10. CASE ReadMark
  <2>1. UNCHANGED <<hdr, aReadMark, rd>> /\ w.pc = "marks" /\ w'.mxSafeFrame = w.mxSafeFrame
        /\ \/ w'.pc = "slot" /\ w'.i = w.i /\ w'.y = aReadMark[w.i]
           \/ w'.pc = "marks" /\ w'.i = w.i + 1 /\ ~(w.mxSafeFrame > aReadMark[w.i])
    BY <1>0, <1>10 DEF ReadMark, shm, At, Writers
  <2>. SUFFICES ASSUME NEW r \in Readers, rd[r].pc = "in", rd[r].readLock # 0 PROVE ReaderOk(r)'
    BY <2>1 DEF ReaderInv, ReaderOk
  <2>2. /\ aReadMark[rd[r].readLock] <= rd[r].hdr.mxFrame
        /\ rd[r].hdr.mxFrame <= hdr.mxFrame
        /\ rd[r].readLock < w.i => w.mxSafeFrame <= rd[r].hdr.mxFrame
    BY <2>1 DEF ReaderInv, ReaderOk
  <2>3. rd[r].readLock \in Nat /\ aReadMark[rd[r].readLock] \in Nat
    BY <1>0, <1>a, Constants
  <2>4. CASE w'.pc = "slot" /\ w'.i = w.i /\ w'.y = aReadMark[w.i]
    BY <2>1, <2>2, <2>4 DEF ReaderOk
  <2>5. CASE w'.pc = "marks" /\ w'.i = w.i + 1 /\ ~(w.mxSafeFrame > aReadMark[w.i])
    <3>1. rd[r].readLock < w.i + 1 => rd[r].readLock < w.i \/ rd[r].readLock = w.i
      BY <1>0, <2>3
    <3>2. rd[r].readLock = w.i => w.mxSafeFrame <= rd[r].hdr.mxFrame
      BY <1>0, <2>2, <2>3, <2>5
    <3>. QED  BY <2>1, <2>2, <2>5, <3>1, <3>2 DEF ReaderOk
  <2>. QED  BY <2>1, <2>4, <2>5
<1>11. CASE RaiseMark \/ YieldToMark
  <2>1. /\ UNCHANGED <<hdr, rd>> /\ w.pc = "slot" /\ w'.pc = "marks" /\ w'.i = w.i + 1
        /\ \/ CanExclude(w.i) /\ w'.mxSafeFrame = w.mxSafeFrame
              /\ \E x : aReadMark' = [aReadMark EXCEPT ![w.i] = x]
           \/ w'.mxSafeFrame = w.y /\ aReadMark' = aReadMark
    BY <1>0, <1>11 DEF RaiseMark, YieldToMark, shm, At, Writers
  <2>. SUFFICES ASSUME NEW r \in Readers, rd[r].pc = "in", rd[r].readLock # 0 PROVE ReaderOk(r)'
    BY <2>1 DEF ReaderInv, ReaderOk
  <2>2. /\ aReadMark[rd[r].readLock] <= rd[r].hdr.mxFrame
        /\ rd[r].hdr.mxFrame <= hdr.mxFrame
        /\ rd[r].readLock < w.i => w.mxSafeFrame <= rd[r].hdr.mxFrame
        /\ rd[r].readLock = w.i => w.y <= rd[r].hdr.mxFrame
    BY <2>1 DEF ReaderInv, ReaderOk
  <2>3. rd[r].readLock \in Nat /\ rd[r].readLock \in Slots
        /\ (rd[r].readLock < w.i + 1 => rd[r].readLock < w.i \/ rd[r].readLock = w.i)
    BY <1>0, <1>a, Constants
  <2>4. CASE CanExclude(w.i) /\ w'.mxSafeFrame = w.mxSafeFrame
             /\ \E x : aReadMark' = [aReadMark EXCEPT ![w.i] = x]
    <3>1. rd[r].readLock # w.i
      BY <1>a, <2>4 DEF CanExclude
    <3>2. aReadMark'[rd[r].readLock] = aReadMark[rd[r].readLock]
      BY <1>0, <2>3, <2>4, <3>1
    <3>. QED  BY <2>1, <2>2, <2>3, <2>4, <3>1, <3>2 DEF ReaderOk
  <2>5. CASE w'.mxSafeFrame = w.y /\ aReadMark' = aReadMark
    <3>1. w.y < w.mxSafeFrame
      BY <2>1 DEF CheckpointInv
    <3>2. rd[r].readLock < w.i + 1 => w.y <= rd[r].hdr.mxFrame
      BY <1>0, <2>2, <2>3, <3>1
    <3>. QED  BY <2>1, <2>2, <2>5, <3>2 DEF ReaderOk
  <2>. QED  BY <2>1, <2>4, <2>5
<1>12. CASE SkipBackfill \/ SyncDb \/ SetBackfill
  <2>1. UNCHANGED <<hdr, aReadMark, rd>> /\ w'.pc \in {"wait", "copied"}
    BY <1>0, <1>12 DEF SkipBackfill, SyncDb, SetBackfill, shm, Writers
  <2>. QED  BY <1>0, <1>2, <2>1
<1>13. CASE StartBackfill
  <2>1. /\ UNCHANGED <<hdr, aReadMark, rd>> /\ w.pc = "marks" /\ w'.pc = "copy"
        /\ w'.mxSafeFrame = w.mxSafeFrame /\ w.i \notin Slots
    BY <1>0, <1>13 DEF StartBackfill, shm, At, Writers
  <2>2. w.i > NReader
    <3>1. w.i >= 1
      BY <2>1 DEF CheckpointInv
    <3>. QED  BY <1>0, <2>1, <3>1, Constants DEF Slots
  <2>3. ASSUME NEW r \in Readers, rd[r].pc = "in", rd[r].readLock # 0
        PROVE  rd[r].readLock < w.i
    BY <1>0, <1>a, <2>2, <2>3, Constants
  <2>. QED  BY <2>1, <2>3 DEF ReaderInv, ReaderOk
<1>14. CASE CopyPage
  <2>1. /\ UNCHANGED <<hdr, aReadMark, rd>> /\ w.pc = "copy" /\ w'.pc = "copy"
        /\ w'.mxSafeFrame = w.mxSafeFrame
    BY <1>0, <1>14 DEF CopyPage, shm, At, Writers
  <2>. QED  BY <2>1 DEF ReaderInv, ReaderOk
<1>15. CASE Crash
  <2>1. \A r \in Readers : rd'[r].pc = "out"
    BY <1>0, <1>15 DEF Crash, Restart, NoRead
  <2>. QED  BY <2>1 DEF ReaderInv, ReaderOk
<1>. QED  BY <1>3, <1>4, <1>5, <1>6, <1>7, <1>8, <1>9, <1>10, <1>11, <1>12, <1>13, <1>14, <1>15
          DEF Next, Transaction, RunCheckpoint

-----------------------------------------------------------------------------
LEMMA InitInv == Init => WalInv
<1>. SUFFICES ASSUME Init PROVE WalInv
  OBVIOUS
<1>1. /\ \A c \in Conns : rd[c] = NoRead
      /\ hdr = NoRead.hdr /\ nBackfill = 0 /\ excl = {} /\ w = IdleWriter
      /\ count = [salt |-> 0, tx |-> 0, checkpoint |-> 0, crash |-> 0] /\ mine = NoRead
  BY Constants DEF Init, mine
<1>2. /\ hdr.mxFrame = 0 /\ hdr.salt = 0 /\ hdr.iChange = 0 /\ w.pc = "idle"
      /\ w.list = {} /\ ~w.isCommit /\ \A p \in Pages : w.cache[p] = Torn
      /\ count.salt = 0 /\ count.tx = 0
  BY <1>1 DEF NoRead, IdleWriter
<1>3. TypeInv
  BY InitType
<1>4. LastWritten
  BY DEF Init, LastWritten
<1>5. ReadInv
  BY <1>1, <1>2, Constants DEF ReadInv, ReadOk, NoRead, Held
<1>6. LockInv
  BY <1>1, <1>2 DEF LockInv
<1>7. PhaseInv
  BY <1>1, <1>2, Constants DEF PhaseInv, CkptPcs
<1>8. CountInv
  <2>1. loose.log = {NoLog} /\ \A i \in 1..MaxFrame : loose.wal[i] = {NoFrame}
    BY DEF Init
  <2>. QED  BY <1>2, <2>1 DEF CountInv, InTx, TxPcs, NoLog, NoFrame
<1>9. OwnInv
  BY <1>2 DEF OwnInv, InTx, TxPcs
<1>10. CheckpointInv
  BY <1>1, <1>2 DEF CheckpointInv, CkptPcs
<1>11. DbInv
  BY <1>1, <1>2 DEF DbInv, DbOk
<1>12. ReaderInv
  <2>1. \A r \in Readers : rd[r].pc = "out"
    BY <1>1, Constants DEF NoRead
  <2>. QED  BY <2>1 DEF ReaderInv, ReaderOk
<1>. QED  BY <1>3, <1>4, <1>5, <1>6, <1>7, <1>8, <1>9, <1>10, <1>11, <1>12 DEF WalInv

LEMMA Invariant == Spec => []WalInv
<1>1. WalInv /\ [Next]_vars => WalInv'
  <2>. SUFFICES ASSUME WalInv, [Next]_vars PROVE WalInv'
    OBVIOUS
  <2>. USE DEF WalInv
  <2>1. TypeInv'
    BY TypeStep
  <2>. QED  BY <2>1, LastWrittenStep, ReadInvStep, LockInvStep, PhaseInvStep, CountInvStep,
               OwnInvStep, CheckpointInvStep, DbInvStep, ReaderInvStep
<1>. QED  BY <1>1, InitInv, PTL DEF Spec

(* THEOREM TypeCorrect.  The shared header, the marks and the locks keep   *)
(* their types, what a file holds is among what may be left of it, and     *)
(* while the writer holds a read lock exclusively no connection has it     *)
(* shared.                                                                 *)
THEOREM TypeCorrect == Spec => []TypeOK
<1>1. WalInv => TypeOK
  <2>. SUFFICES ASSUME WalInv PROVE TypeOK
    OBVIOUS
  <2>1. TypeInv /\ LastWritten /\ LockInv /\ CountInv
    BY DEF WalInv
  <2>2. hdr \in [mxFrame : 0..MaxFrame, salt : Nat, iChange : 0..MaxTx]
    <3>1. hdr \in Hdrs /\ count.tx \in 0..MaxTx /\ hdr.iChange <= count.tx /\ MaxTx \in Nat
      BY <2>1, Types, Constants DEF CountInv
    <3>2. hdr.iChange \in 0..MaxTx
      BY <3>1 DEF Hdrs
    <3>. QED  BY <3>1, <3>2 DEF Hdrs
  <2>3. \A c \in Conns : rd[c].readLock \in {NoLock} \cup 0..NReader
    BY <2>1 DEF TypeInv, Reads
  <2>. QED  BY <2>1, <2>2, <2>3 DEF TypeOK, TypeInv, LastWritten, LockInv
<1>. QED  BY <1>1, Invariant, PTL

(* What a connection with a lock sees of a page: with lock 0 the database  *)
(* file, and with another lock the newest frame between lo and hi, where   *)
(* those below lo are in the database file and none above mxFrame is of    *)
(* the page.                                                               *)
LEMMA SeesStore ==
  ASSUME WalInv, NEW p \in Pages, NEW lock, NEW lo \in Nat, NEW hi \in Nat,
         \/ lock = 0 /\ nBackfill = hdr.mxFrame
         \/ /\ lock # 0 /\ lo \in 1..nBackfill + 1 /\ hdr.mxFrame <= hi
            /\ \A i \in hdr.mxFrame + 1..hi : file.wal[i].page # p
  PROVE  LET f == IF lock = 0 THEN 0 ELSE Newest(file.wal, lo, hi, p) IN
         (IF f = 0 THEN file.db[p] ELSE file.wal[f].val) = Store[p]
<1>. DEFINE f == IF lock = 0 THEN 0 ELSE Newest(file.wal, lo, hi, p)
<1>1. TypeInv /\ DbOk(p)
  BY DEF WalInv, DbInv
<1>2. nBackfill \in Nat /\ hdr.mxFrame \in Nat
  BY <1>1, Types
<1>3. Store[p] = IF Last(p) = 0 THEN file.db[p] ELSE file.wal[Last(p)].val
  BY DEF Store, Last
<1>4. /\ Last(p) \in 0..hdr.mxFrame
      /\ Last(p) # 0 => Last(p) \in 1..hdr.mxFrame /\ file.wal[Last(p)].page = p
      /\ \A i \in 1..hdr.mxFrame : file.wal[i].page = p => i <= Last(p)
  BY <1>1, LastIs
<1>5. Last(p) \in 1..nBackfill => file.db[p] = file.wal[Last(p)].val
  BY <1>1 DEF DbOk
<1>6. CASE lock = 0
  BY <1>2, <1>3, <1>4, <1>5, <1>6
<1>7. CASE lock # 0
  <2>0. lo \in 1..nBackfill + 1 /\ hdr.mxFrame <= hi /\ lo \in Nat \ {0}
        /\ \A i \in hdr.mxFrame + 1..hi : file.wal[i].page # p
    BY <1>2, <1>7
  <2>1. /\ f \in 0..hi
        /\ f # 0 => f \in lo..hi /\ file.wal[f].page = p
        /\ \A i \in lo..hi : file.wal[i].page = p => i <= f
    BY <1>7, <2>0, NewestIs
  <2>. HIDE DEF f
  <2>2. CASE f # 0
    <3>1. f \in 1..hdr.mxFrame /\ f <= Last(p)
      <4>1. f \notin hdr.mxFrame + 1..hi
        BY <2>0, <2>1, <2>2
      <4>2. f \in 1..hdr.mxFrame
        BY <1>2, <2>0, <2>1, <2>2, <4>1
      <4>. QED  BY <1>4, <2>1, <2>2, <4>2
    <3>2. Last(p) \in lo..hi /\ file.wal[Last(p)].page = p
      BY <1>2, <1>4, <2>0, <2>1, <2>2, <3>1
    <3>3. Last(p) = f
      BY <1>2, <1>4, <2>1, <3>1, <3>2
    <3>. QED  BY <1>3, <2>2, <3>3 DEF f
  <2>3. CASE f = 0
    <3>1. Last(p) \in lo..hi => FALSE
      BY <1>2, <1>4, <2>0, <2>1, <2>3
    <3>2. Last(p) = 0 \/ Last(p) \in 1..nBackfill
      BY <1>2, <1>4, <2>0, <3>1
    <3>3. Store[p] = file.db[p]
      BY <1>2, <1>3, <1>5, <3>2
    <3>. QED  BY <2>3, <3>3 DEF f
  <2>. QED  BY <2>2, <2>3
<1>. QED  BY <1>6, <1>7

LEMMA ReadPageIs ==
  ASSUME TypeInv, NEW c \in Conns, NEW p \in Pages
  PROVE  LET f == IF rd[c].readLock = 0 THEN 0
                  ELSE Newest(file.wal, rd[c].minFrame, rd[c].hdr.mxFrame, p) IN
         /\ ReadPage(c, p) = IF f = 0 THEN file.db[p] ELSE file.wal[f].val
         /\ rd[c].minFrame \in Nat \ {0} /\ rd[c].hdr.mxFrame \in Nat
<1>1. rd[c].minFrame \in Nat \ {0} /\ rd[c].hdr.mxFrame \in Nat
  BY Types, Constants DEF Reads, Hdrs
<1>. QED  BY <1>1, FrameSearch DEF ReadPage

LEMMA WriterReadsNow == WalInv => WriterReadsItsWrites
<1>. SUFFICES ASSUME WalInv, At("tx"), mine.pc = "in", NEW p \in Pages
              PROVE  ReadPage(Writer, p) = IF w.cache[p] = Torn THEN Store[p] ELSE w.cache[p]
  BY DEF WriterReadsItsWrites
<1>1. TypeInv /\ w.pc = "tx" /\ HeadOk /\ ListOk /\ PageOk(p) /\ ReadOk(Writer)
  BY Constants DEF WalInv, At, OwnInv, InTx, TxPcs, ReadInv
<1>2. /\ rd[Writer] = mine /\ nBackfill \in Nat /\ hdr.mxFrame \in Nat
      /\ mine.minFrame \in Nat \ {0} /\ mine.hdr.mxFrame \in Nat
  BY <1>1, Types, ReadPageIs, Constants
<1>3. Top = mine.hdr.mxFrame /\ hdr.mxFrame <= mine.hdr.mxFrame
  BY <1>1 DEF Top, HeadOk
<1>4. w.list = {} /\ ~w.isCommit
  BY <1>1 DEF ListOk
<1>. DEFINE f == IF mine.readLock = 0 THEN 0
                 ELSE Newest(file.wal, mine.minFrame, mine.hdr.mxFrame, p)
<1>5. ReadPage(Writer, p) = IF f = 0 THEN file.db[p] ELSE file.wal[f].val
  BY <1>1, <1>2, ReadPageIs, Constants
<1>6. \/ mine.readLock = 0 /\ nBackfill = hdr.mxFrame /\ mine.hdr = hdr
      \/ /\ mine.readLock # 0 /\ mine.minFrame = nBackfill + 1
  <2>1. CASE mine.readLock = 0
    BY <1>1, <2>1 DEF HeadOk
  <2>2. CASE mine.readLock # 0
    <3>1. mine.readLock \in Slots
      BY <1>1, <1>2, <2>2, Types, Constants DEF Reads, ReadOk, Held, Slots
    <3>. QED  BY <1>1, <2>2, <3>1 DEF HeadOk
  <2>. QED  BY <2>1, <2>2
<1>7. CASE Own(p) = {}
  <2>1. w.cache[p] = Torn
    BY <1>1, <1>4, <1>7 DEF PageOk
  <2>2. \A i \in hdr.mxFrame + 1..mine.hdr.mxFrame : file.wal[i].page # p
    BY <1>3, <1>7 DEF Own
  <2>3. mine.readLock # 0 => mine.minFrame \in 1..nBackfill + 1
    BY <1>2, <1>6
  <2>4. (IF f = 0 THEN file.db[p] ELSE file.wal[f].val) = Store[p]
    <3>1. \/ mine.readLock = 0 /\ nBackfill = hdr.mxFrame
          \/ /\ mine.readLock # 0 /\ mine.minFrame \in 1..nBackfill + 1
             /\ hdr.mxFrame <= mine.hdr.mxFrame
             /\ \A i \in hdr.mxFrame + 1..mine.hdr.mxFrame : file.wal[i].page # p
      BY <1>3, <1>6, <2>2, <2>3
    <3>2. mine.minFrame \in Nat /\ mine.hdr.mxFrame \in Nat
      BY <1>2
    <3>. QED  BY <3>1, <3>2, SeesStore
  <2>. QED  BY <1>5, <2>1, <2>4
<1>8. CASE Own(p) # {}
  <2>1. w.cache[p] # Torn
    BY <1>1, <1>4, <1>8 DEF PageOk
  <2>2. PICK g \in Own(p) : file.wal[g].val = w.cache[p] /\ \A i \in Own(p) : i <= g
    BY <1>1, <1>4, <1>8 DEF PageOk
  <2>3. /\ g \in hdr.mxFrame + 1..mine.hdr.mxFrame /\ file.wal[g].page = p
        /\ \A i \in hdr.mxFrame + 1..mine.hdr.mxFrame : file.wal[i].page = p => i <= g
    BY <1>3, <2>2 DEF Own
  <2>4. mine.readLock # 0 /\ mine.minFrame = nBackfill + 1
    BY <1>2, <1>6, <2>3
  <2>5. nBackfill <= hdr.mxFrame
    BY <1>1 DEF WalInv, CheckpointInv
  <2>6. g \in 0..mine.hdr.mxFrame /\ g \in mine.minFrame..mine.hdr.mxFrame
    BY <1>2, <2>3, <2>4, <2>5
  <2>7. \A i \in mine.minFrame..mine.hdr.mxFrame : file.wal[i].page = p => i <= g
    <3>1. \A i \in mine.minFrame..mine.hdr.mxFrame :
            i <= hdr.mxFrame \/ i \in hdr.mxFrame + 1..mine.hdr.mxFrame
      BY <1>2
    <3>. QED  BY <1>2, <2>3, <3>1
  <2>8. Newest(file.wal, mine.minFrame, mine.hdr.mxFrame, p) = g
    BY <1>2, <2>3, <2>6, <2>7, NewestUnique
  <2>9. f = g /\ g # 0
    BY <1>2, <2>3, <2>4, <2>8
  <2>. QED  BY <1>5, <2>1, <2>2, <2>9
<1>. QED  BY <1>7, <1>8

(* THEOREM WriterReads.  Between two statements the writer reads from the  *)
(* log what it has spilled itself, and of every other page what is         *)
(* committed, with whatever lock its transaction holds by then.            *)
THEOREM WriterReads == Spec => []WriterReadsItsWrites
BY WriterReadsNow, Invariant, PTL

-----------------------------------------------------------------------------
(* Readers see a snapshot. *)
LEMMA ReaderStays ==
  ASSUME WalInv, [Next]_vars, NEW r \in Readers, rd[r].pc = "in", rd'[r].pc = "in"
  PROVE  rd'[r] = rd[r] /\ ~Crash
<1>0. TypeInv /\ rd \in [Conns -> Reads] /\ r \in Conns /\ r # Writer
  BY Types, Constants DEF WalInv
<1>1. ~Crash
  <2>. SUFFICES ASSUME Crash PROVE FALSE
    OBVIOUS
  <2>1. rd' = [c \in Conns |-> NoRead]
    BY DEF Crash, Restart
  <2>2. rd'[r].pc = "out"
    BY <1>0, <2>1 DEF NoRead
  <2>. QED  BY <2>2
<1>2. ASSUME NEW c \in Conns, BeginRead(c) PROVE rd'[r] = rd[r]
  <2>1. c # r
    BY <1>2 DEF BeginRead, ReadHdr, ChooseLog, LockZero, PickMark, LockMark, CheckMark
  <2>. QED  BY <1>0, <1>2, <2>1, BeginReadIs
<1>3. ASSUME NEW c \in Readers, EndRead(c) PROVE rd'[r] = rd[r]
  <2>1. c # r
    BY <1>0, <1>3 DEF EndRead, NoRead
  <2>. QED  BY <1>0, <1>3, <2>1 DEF EndRead
<1>4. ASSUME EndTx PROVE rd'[r] = rd[r]
  BY <1>0, <1>4, EndTxIs
<1>5. CASE \/ UNCHANGED vars \/ BeginTx \/ (\E p \in Pages : Spill(p))
           \/ (\E ps \in SUBSET Pages : Commit(ps)) \/ RestartLog \/ ResetMarks \/ ReadAgain
           \/ WriteLogHeader \/ SyncLogHeader \/ WriteFrame \/ EndSpill \/ RewriteChecksums
           \/ SyncFrames
  BY <1>0, <1>1, <1>5 DEF vars, BeginTx, Spill, Commit, WalFrames, RestartLog, ResetMarks, ReadAgain,
     WriteLogHeader, SyncLogHeader, WriteFrame, EndSpill, RewriteChecksums, SyncFrames
<1>6. CASE \/ BeginCheckpoint \/ ReadMark \/ RaiseMark \/ YieldToMark \/ SkipBackfill
           \/ StartBackfill \/ CopyPage \/ SyncDb \/ SetBackfill
  BY <1>0, <1>1, <1>6 DEF BeginCheckpoint, ReadMark, RaiseMark, YieldToMark, SkipBackfill,
     StartBackfill, CopyPage, SyncDb, SetBackfill
<1>7. CASE Rollback \/ WriteFails \/ Publish \/ CheckpointBusy \/ CheckpointOk
  BY <1>1, <1>4, <1>7 DEF Rollback, WriteFails, Publish, CheckpointBusy, CheckpointOk, EndCheckpoint
<1>. QED  BY <1>1, <1>2, <1>3, <1>5, <1>6, <1>7 DEF Next, Transaction, RunCheckpoint

LEMMA SnapshotStays ==
  ASSUME WalInv, [Next]_vars, NEW r \in Readers, rd[r].pc = "in", rd'[r].pc = "in",
         NEW p \in Pages
  PROVE  ReadPage(r, p)' = ReadPage(r, p)
<1>0. /\ TypeInv /\ LastWritten /\ OwnInv /\ PhaseInv /\ ReadInv /\ CheckpointInv /\ LockInv
      /\ r \in Conns /\ rd'[r] = rd[r] /\ ~Crash /\ ReaderOk(r) /\ ReadOk(r)
  BY ReaderStays, Constants DEF WalInv, ReaderInv, ReadInv
<1>. DEFINE lock == rd[r].readLock
            lo == rd[r].minFrame
            hi == rd[r].hdr.mxFrame
            f == IF lock = 0 THEN 0 ELSE Newest(file.wal, lo, hi, p)
            g == IF lock = 0 THEN 0 ELSE Newest(file'.wal, lo, hi, p)
<1>1. ReadPage(r, p) = (IF f = 0 THEN file.db[p] ELSE file.wal[f].val)
      /\ lo \in Nat \ {0} /\ hi \in Nat
  BY <1>0, ReadPageIs
<1>2. ReadPage(r, p)' = IF g = 0 THEN file'.db[p] ELSE file'.wal[g].val
  BY <1>0 DEF ReadPage, FindFrame, Newest
<1>3. lock # 0 => lock \in Slots /\ lo \in 1..nBackfill + 1 /\ hi <= hdr.mxFrame
  <2>1. lock # 0 => lock \in Slots
    BY <1>0, Types, Constants DEF Reads, ReadOk, Held, Slots
  <2>. QED  BY <1>0, <2>1 DEF ReadOk, ReaderOk
<1>4. nBackfill \in Nat /\ hdr.mxFrame \in Nat /\ w.mxSafeFrame \in Nat
  BY <1>0, Types, Constants DEF Writers
<1>5. /\ \A i \in 1..hdr.mxFrame : /\ file'.wal[i].page = file.wal[i].page
                                   /\ file'.wal[i].val = file.wal[i].val
      /\ file'.db = file.db \/ CopyPage
  BY <1>0, CommittedKept
<1>6. g = f /\ (f # 0 => f \in 1..hdr.mxFrame)
  <2>1. CASE lock = 0
    BY <2>1
  <2>2. CASE lock # 0
    <3>1. \A i \in lo..hi : i \in 1..hdr.mxFrame
      BY <1>1, <1>3, <1>4, <2>2
    <3>2. Newest(file'.wal, lo, hi, p) = Newest(file.wal, lo, hi, p)
      BY <1>5, <3>1, NewestSame
    <3>3. Newest(file.wal, lo, hi, p) # 0 => Newest(file.wal, lo, hi, p) \in lo..hi
      BY <1>1, NewestIs
    <3>. QED  BY <2>2, <3>1, <3>2, <3>3
  <2>. QED  BY <2>1, <2>2
<1>7. ASSUME f = 0 PROVE file'.db[p] = file.db[p]
  <2>1. CASE file'.db = file.db
    BY <2>1
  <2>2. CASE CopyPage
    <3>. DEFINE q == Min(w.todo)
                val == file.wal[LastFrame(mine.hdr.mxFrame, q)].val
    <3>1. w.pc = "copy" /\ w.todo # {} /\ file' = [file EXCEPT !.db[q] = val]
      BY <2>2 DEF CopyPage, At
    <3>2. q \in w.todo /\ q \in Pages
      <4>1. w.todo \in SUBSET Pages
        BY <1>0, Types DEF Writers
      <4>2. w.todo \in SUBSET Nat
        BY <4>1, Constants
      <4>. QED  BY <3>1, <4>1, <4>2, MinIs
    <3>. HIDE DEF q, val
    <3>3. DOMAIN file.db = Pages
      BY <1>0 DEF TypeInv
    <3>4. q # p
      <4>1. excl = {0}
        BY <1>0, <3>1 DEF LockInv
      <4>2. lock # 0
        BY <1>0, <4>1 DEF LockInv, Shared
      <4>3. Last(q) \in nBackfill + 1..w.mxSafeFrame /\ w.mxSafeFrame <= hi
        BY <1>0, <3>1, <3>2, <4>2 DEF CheckpointInv, ReaderOk
      <4>4. Last(q) \in lo..hi /\ Last(q) # 0
        BY <1>1, <1>3, <1>4, <4>2, <4>3
      <4>5. file.wal[Last(q)].page = q
        BY <1>0, <4>4, LastIs
      <4>6. \A i \in lo..hi : file.wal[i].page = p => i <= 0
        BY <1>1, <1>7, <4>2, NewestIs
      <4>. QED  BY <1>1, <1>3, <4>2, <4>4, <4>5, <4>6
    <3>5. file'.db = [file.db EXCEPT ![q] = val]
      BY <1>0, <3>1 DEF TypeInv
    <3>. QED  BY <3>2, <3>3, <3>4, <3>5
  <2>. QED  BY <1>5, <2>1, <2>2
<1>. HIDE DEF f, g
<1>. QED  BY <1>1, <1>2, <1>5, <1>6, <1>7

LEMMA SnapshotTaken ==
  ASSUME WalInv, [Next]_vars, NEW r \in Readers, rd[r].pc # "in", rd'[r].pc = "in"
  PROVE  /\ BeginRead(r)
         /\ \A p \in Pages : ReadPage(r, p)' = Store[p]
<1>0. TypeInv /\ rd \in [Conns -> Reads] /\ r \in Conns /\ r # Writer /\ ReadOk(r) /\ rd[r] \in Reads
  BY Types, Constants DEF WalInv, ReadInv
<1>1. BeginRead(r)
  <2>1. ASSUME NEW c \in Conns, BeginRead(c) PROVE c = r
    BY <1>0, <2>1, BeginReadIs
  <2>2. ASSUME NEW c \in Readers, EndRead(c) PROVE FALSE
    BY <1>0, <2>2, Constants DEF EndRead, NoRead
  <2>3. CASE EndTx
    BY <1>0, <2>3, EndTxIs
  <2>4. ~ \/ UNCHANGED vars \/ BeginTx \/ (\E p \in Pages : Spill(p))
          \/ (\E ps \in SUBSET Pages : Commit(ps)) \/ RestartLog \/ ResetMarks \/ ReadAgain
          \/ WriteLogHeader \/ SyncLogHeader \/ WriteFrame \/ EndSpill \/ RewriteChecksums
          \/ SyncFrames
    BY <1>0 DEF vars, BeginTx, Spill, Commit, WalFrames, RestartLog, ResetMarks, ReadAgain,
       WriteLogHeader, SyncLogHeader, WriteFrame, EndSpill, RewriteChecksums, SyncFrames
  <2>5. ~ \/ BeginCheckpoint \/ ReadMark \/ RaiseMark \/ YieldToMark \/ SkipBackfill
          \/ StartBackfill \/ CopyPage \/ SyncDb \/ SetBackfill
    BY <1>0 DEF BeginCheckpoint, ReadMark, RaiseMark, YieldToMark, SkipBackfill,
       StartBackfill, CopyPage, SyncDb, SetBackfill
  <2>6. ~(Rollback \/ WriteFails \/ Publish \/ CheckpointBusy \/ CheckpointOk)
    BY <2>3, <1>0, EndTxIs DEF Rollback, WriteFails, Publish, CheckpointBusy, CheckpointOk,
       EndCheckpoint
  <2>7. ~Crash
    <3>. SUFFICES ASSUME Crash PROVE FALSE
      OBVIOUS
    <3>1. rd' = [c \in Conns |-> NoRead]
      BY DEF Crash, Restart
    <3>2. rd'[r].pc = "out"
      BY <1>0, <3>1 DEF NoRead
    <3>. QED  BY <3>2
  <2>. QED  BY <2>1, <2>2, <2>4, <2>5, <2>6, <2>7 DEF Next, Transaction, RunCheckpoint
<1>2. file' = file
  BY <1>0, <1>1, BeginReadIs
<1>3. /\ rd'[r].hdr = hdr
      /\ \/ rd'[r].readLock = 0 /\ nBackfill = hdr.mxFrame
         \/ rd'[r].readLock # 0 /\ rd'[r].minFrame \in 1..nBackfill + 1
  <2>1. ~Retry(r)
    <3>. SUFFICES ASSUME Retry(r) PROVE FALSE
      OBVIOUS
    <3>1. rd'[r] = IF rd[r].useWal THEN [rd[r] EXCEPT !.pc = "pick", !.readLock = NoLock]
                                   ELSE NoRead
      BY <1>0, RetryIs
    <3>2. rd'[r].pc \in {"pick", "out"}
      BY <1>0, <3>1 DEF NoRead, Reads
    <3>. QED  BY <3>2
  <2>2. CASE LockZero(r)
    <3>1. rd' = [rd EXCEPT ![r].readLock = 0, ![r].pc = "in"] \/ rd' = [rd EXCEPT ![r].pc = "pick"]
      BY <2>1, <2>2 DEF LockZero, Goto
    <3>2. rd' # [rd EXCEPT ![r].pc = "pick"]
      BY <1>0 DEF Reads
    <3>3. rd[r].pc = "zero" /\ hdr = rd[r].hdr
      BY <2>1, <2>2, <3>2 DEF LockZero, Goto
    <3>4. rd'[r].readLock = 0 /\ rd'[r].hdr = rd[r].hdr
      BY <1>0, <3>1, <3>2 DEF Reads
    <3>. QED  BY <1>0, <3>3, <3>4 DEF ReadOk
  <2>3. CASE CheckMark(r)
    <3>1. rd[r].pc = "check" /\ hdr = rd[r].hdr
          /\ rd' = [rd EXCEPT ![r].pc = "in", ![r].mxI = 0, ![r].mark = 0]
      BY <2>1, <2>3 DEF CheckMark
    <3>2. /\ rd'[r].readLock = rd[r].readLock /\ rd'[r].hdr = rd[r].hdr
          /\ rd'[r].minFrame = rd[r].minFrame
      BY <1>0, <3>1 DEF Reads
    <3>3. rd[r].readLock \in Slots /\ rd[r].minFrame \in 1..nBackfill + 1
      BY <1>0, <3>1 DEF ReadOk
    <3>. QED  BY <3>1, <3>2, <3>3, Constants
  <2>4. CASE ReadHdr(r) \/ ChooseLog(r) \/ LockMark(r)
    <3>1. rd'[r].pc \in {"hdr", "zero", "pick", "check"}
      BY <1>0, <2>1, <2>4 DEF ReadHdr, ChooseLog, LockMark, Goto, Reads
    <3>. QED  BY <3>1
  <2>5. CASE PickMark(r)
    <3>1. \E i \in Slots :
            rd'[r] = [rd[r] EXCEPT !.mxI = i, !.mark = aReadMark'[i], !.pc = "lock"]
      BY <1>0, <2>1, <2>5, PickMarkIs
    <3>2. rd'[r].pc = "lock"
      BY <1>0, <3>1 DEF Reads
    <3>. QED  BY <3>2
  <2>. QED  BY <1>1, <2>2, <2>3, <2>4, <2>5 DEF BeginRead
<1>4. ASSUME NEW p \in Pages PROVE ReadPage(r, p)' = Store[p]
  <2>. DEFINE f == IF rd'[r].readLock = 0 THEN 0
                   ELSE Newest(file.wal, rd'[r].minFrame, hdr.mxFrame, p)
  <2>1. ReadPage(r, p)' = IF f = 0 THEN file.db[p] ELSE file.wal[f].val
    BY <1>2, <1>3 DEF ReadPage, FindFrame, Newest
  <2>a. PICK lock : lock = rd'[r].readLock
    OBVIOUS
  <2>2. PICK lo \in Nat :
          /\ lock # 0 => rd'[r].minFrame = lo
          /\ \/ lock = 0 /\ nBackfill = hdr.mxFrame
             \/ lock # 0 /\ lo \in 1..nBackfill + 1
    <3>1. nBackfill \in Nat
      BY <1>0, Types
    <3>2. CASE lock = 0
      BY <1>3, <2>a, <3>2
    <3>3. CASE lock # 0
      <4>1. PICK lo \in 1..nBackfill + 1 : rd'[r].minFrame = lo
        BY <1>3, <2>a, <3>3
      <4>2. lo \in Nat
        BY <3>1
      <4>. QED  BY <3>3, <4>1, <4>2
    <3>. QED  BY <3>2, <3>3
  <2>3. f = IF lock = 0 THEN 0 ELSE Newest(file.wal, lo, hdr.mxFrame, p)
    BY <2>a, <2>2
  <2>4. hdr.mxFrame \in Nat /\ hdr.mxFrame <= hdr.mxFrame
        /\ \A i \in hdr.mxFrame + 1..hdr.mxFrame : file.wal[i].page # p
    BY <1>0, Types
  <2>5. LET g == IF lock = 0 THEN 0 ELSE Newest(file.wal, lo, hdr.mxFrame, p) IN
        (IF g = 0 THEN file.db[p] ELSE file.wal[g].val) = Store[p]
    BY <2>2, <2>4, SeesStore
  <2>. QED  BY <2>1, <2>3, <2>5
<1>. QED  BY <1>1, <1>4

(* A reader sees, when its lock is in place, what is committed then. *)
SeesTheStore ==
  [][\A r \in Readers : rd[r].pc # "in" /\ rd'[r].pc = "in"
       => \A p \in Pages : ReadPage(r, p)' = Store[p]]_vars

(* It sees the same of every page until it ends, whatever is appended,     *)
(* overwritten, restarted or written back meanwhile.                       *)
SeesTheSame ==
  [][\A r \in Readers : rd[r].pc = "in" /\ rd'[r].pc = "in"
       => \A p \in Pages : ReadPage(r, p)' = ReadPage(r, p)]_vars

(* THEOREM ReadersKeepTheirSnapshot.  The steps of walTryBeginRead end in a *)
(* read transaction on the committed database, and no step of the writer,  *)
(* of its checkpoint or of another reader changes what it reads.           *)
THEOREM ReadersKeepTheirSnapshot == Spec => SeesTheStore /\ SeesTheSame
<1>1. WalInv /\ [Next]_vars =>
        [\A r \in Readers : rd[r].pc # "in" /\ rd'[r].pc = "in"
           => \A p \in Pages : ReadPage(r, p)' = Store[p]]_vars
  BY SnapshotTaken
<1>2. WalInv /\ [Next]_vars =>
        [\A r \in Readers : rd[r].pc = "in" /\ rd'[r].pc = "in"
           => \A p \in Pages : ReadPage(r, p)' = ReadPage(r, p)]_vars
  BY SnapshotStays
<1>. QED  BY <1>1, <1>2, Invariant, PTL DEF Spec, SeesTheStore, SeesTheSame
=============================================================================
