# TLA+ models of TileSweep

TileSweep is an OpenStreetMap tile server written in C: HTTP threads answer
tile requests from a memory cache, an SQLite database or a Mapnik renderer, and
prerender jobs fill the database for a polygon and a range of zooms. This
directory holds TLA+ modules of its concurrent core, TLC configurations that
check them on small instances, and proofs checked by TLAPS. Paths below are
those of the repository; a file without a directory is in `tilesweep/src/`.

## The system

| Part | State | Operations | What makes it correct |
| --- | --- | --- | --- |
| Task pool (`taskpool.c`, `ts_sema.c`, `ts_task.c`) | a locked ring per priority and worker, one semaphore, an insertion index | post, wait, wait_all; workers: sema wait, search, execute | every task runs once; a woken worker finds a task; a waiting caller outlives its tasks and returns |
| Ring queue (`ts_queue.c`) | items, capacity, start, length | push (grows), pop | first in, first out through wraps and growth |
| Write queue (`ts_write_queue.c`) | ring of writes, `force_commit`, semaphore, batch array | push, commit, the write thread's drains | no lost wake-up, no overrun of the batch array, nothing lost or written twice, a requested commit happens |
| Tile database (`image_db.c`) | tables `image` and `tile`, one connection per thread | insert batch, fetch, exists | a batch is all or nothing, the tables agree, failures stay local |
| SQLite's write-ahead log (`sqlite3/sqlite3.c`, its part "wal.c") | two files, the wal-index header, read marks and locks | read transaction, commit with spilled pages, RESTART checkpoint, recovery | a reader keeps its snapshot, a commit is atomic and durable, the checkpoint does not wait for ever |
| Prerendering (`tilesweep.c:139-371`, `prerender.c`, `stats.c`) | per job three atomic counters, the list of jobs | start, setup, calculate, render, finish | finished once, by the last render, with counters alive; tiles reach the database |
| Memory cache (`ts_cache.c`) | sorted slots with use counters, used memory | get, set, update | what was put is found, memory accounted for, expires what is idle and only that |
| Tile requests (`tilesweep.c:373-516`, `ts_tile.c`, `ts_tile.h`, `query.c`) | one request per HTTP thread | parse, hash, serve_tile, run_loop | the image asked for; what is stored is served; every request is answered |
| Polygon filling (`poly_fill.c`, `poly_hit_test.c`) | cursor into the outline | advance by a batch | batches together are the polygon, whatever their size; no batch is empty |
| Status (`tilesweep.c:544-616`) | reads the list of jobs | get_status | copies counters that are alive |
| Startup (`tilesweep.c:618-720`, `tcp.c`) | shared context | create, register, join | fails cleanly or serves |
| Renderer, options (`tile_renderer.cpp`, `ts_options.c`), Mercator projection (`ts_math.c`), panel (`ui/`), other vendored code | | | not modelled |

How they interact: an HTTP thread runs `serve_tile` to its end before the next
request of its event loop. On a miss in its own cache and in the database it
blocks in `taskpool_wait` until a worker has rendered the tile, sends the image
and pushes a copy to the write queue. `/prerender` posts a setup task; workers
post calculations (TP_LOW) and renders (TP_MED) to the pool they run in. The
write thread takes batches from the write queue to the database. The last
render of a job asks for a commit.

What is hard: wake-ups counted by semaphores posted outside the locks; searches
that pass a queue just before it is filled; gates made of several atomic loads;
SQLite failing at any statement, and the process dying between two; readers whose
statement stays open for minutes while the log under them is written back and
restarted; enumerations that stop in the middle of a row; buffers and
semaphores on stacks and heaps whose lifetime depends on all of that. The list,
with lines and the properties aimed at each, is `hazards` in `PROJECT.json`.

## Modules

The two services everything else is built on have an abstract specification, the
code's model is shown to implement it, and the modules above use the abstract
one. Together they cover the system; none of them has to hold it whole.

    Prerender   TileServer          use      TaskBag   TileStore
        |       /     |                        ^           ^
    PolyFill  TileRequest  TileCache        TaskPool    WriteQueue + ImageDb
        |      + TileHash     |                |           |
    PolyGeometry           CacheMap         ring queues: RingQueue -> Fifo

    SqliteWal -> SnapshotStore    what ImageDb, Fetch and Exists take from SQLite

| Module | Models | Correspondence |
| --- | --- | --- |
| `WriteQueue` | `ts_write_queue.c` | `Push`, `RequestCommit`: the part under the lock; `Post`: the `sem_post` after the unlock; `Wait`, `DrainFull`, `DrainAll`, `TooFew`: `commit_pending`; `Begin` to `CommitBatch`: `image_db_insert_batch` statement by statement; `Clear`; `Crash` |
| `SqliteWal` | `sqlite3.c`, the write-ahead log under `image_db.c` | `ReadHdr` to `CheckMark`: `walTryBeginRead`, one shared access a step; `EndRead`; the writer's `WalFrames`, `RestartLog`, `ResetMarks`, `ReadAgain`, `WriteLogHeader`, `WriteFrame`, `RewriteChecksums`, `SyncFrames`, `Publish`; `BeginCheckpoint` to `CheckpointOk`: `walCheckpoint` in mode RESTART; `Crash` with `Recovered`: what a loss of power leaves, `walIndexRecover` |
| `SnapshotStore` | abstract | one store, commits in one step, readers with the state they began with; a crash keeps the last commit or the one in progress |
| `ImageDb` | the write connection of `image_db.c` | committed tables, the open transaction, `db->inserts`, and SQLite's answers as choices limited by `DbFaults` |
| `TileStore` | abstract | writes are taken in batches, a batch is stored whole or dropped whole, a commit request is met only by a batch that leaves nothing behind |
| `TaskPool` | `taskpool.c`, `ts_sema.c`, `ts_task.c` | `ClientCall`, `Spawn`, `PickQueue`, `PushTask`, `PostSema`, `WaitOne` for a caller; `Wake`, `SearchHit`, `SearchMiss`, `FinishTask` for a worker, one lock at a time |
| `TaskBag` | abstract | a task handed in is run once, and is run |
| `RingQueue` | `ts_queue.c` | `PushGrowing`, `PushInPlace`, `PopValue`, `PopNothing` on slots, start, length |
| `Fifo` | abstract | a sequence |
| `Prerender` | `tilesweep.c`, `prerender.c`, `stats.c` | a worker's place in `setup_prerender`, `calculate_tiles`, `render_tile_background`, one step per shared access; counters live in memory blocks that are freed and reused; `StatusLock`, `StatusNext`, `StatusUnlock`: `get_status` |
| `PolyGeometry` | `poly_fill.c`, `poly_hit_test.c` | `raycast` with its two borders as quotients, `make_outline` sorted, `poly_hit_test_check`; coordinates on a grid |
| `PolyFill` | `fill_poly_advance` | `Advance` is a call, `InnerTile`, `NextLine`, `OutlineTile` an iteration of a loop, `EndAdvance` and a full `InnerTile` the returns; the state is the three cursors |
| `TileCache` | `ts_cache.c` as `serve_tile` and `run_loop` call it | `Hit`, `Miss` (with `Insert` or `Refused`), `Update`; the searches as functions with the code's bounds; clock and age modulo 2^32 (a small modulus in the runs) |
| `CacheMap` | abstract | a cached key is found with its buffer until it expires |
| `TileRequest` | `ts_tile.c`, `ts_tile.h`, `query.c` | `parse_tile`, `tile_valid`, `parse_uri_params` on numbers and parameters |
| `TileHash` | `ts_tile.h`, `tilesweep.c:415-418` | `tile_hash` and `cache_key`, the key of the memory cache, bit by bit and in 64 bits; `TileServer` takes both as constants, the run gives it these |
| `TileServer` | `serve_tile`, `run_loop` | `Receive` up to the cache lookup, `Fetch` (a row, none, or one that cannot be read), `Submit`, `StartRender`, `EndRender`, `Reply`, `Expire`, `WriteBatch` |

`map` in `PROJECT.json` gives the lines of every definition. An operator whose
name has a suffix after an underscore (`Fetch_NotForced`) is a plausible bug
of the definition below it; no specification uses it. Substituted for that
definition it violates the property listed with it under `mutants`.

## Runs

`tlc -config X.cfg M` in this directory. Bounds are constants of the cfg.

| Run (cfg) | Shows | Bounds and why they are enough |
| --- | --- | --- |
| queue (`MCWriteQueue_queue`) | types, no lost wake-up, batch array in bounds, no open transaction between batches, a commit reaches the disk, `TileStore` implemented | 4 writes (two with one image), 2 threads, thresholds 2 and 3, so that both drains occur and a full drain leaves work; 1 fault (COMMIT or checkpoint), 1 crash, 1 commit request. `CommitReachesDisk` speaks of the behaviours without fault and crash |
| queue_errors (`_errors`) | a failed statement costs its own row, the queue drains | 3 writes, all kinds of faults, 2 of them, so that one can follow from the other |
| pool (`MCTaskPool`) | a search never fails, lifetimes, each task once, calls return, `TaskBag` implemented | 2 workers, 6 queues, 2 clients, a wait_all of two, a post, and a task that posts two; all three priorities |
| prerender_one (`MCPrerender_one`) | counters alive when used and when copied for the status, jobs listed, none left over, tiles reach the database | 1 worker; two jobs, one of them with two zooms; 2 blocks, so that both are listed; 1 status request, which may start anywhere; a batch threshold of 2, so that a last tile needs the commit |
| prerender_two (`_two`) | no premature finish | 2 workers, two zooms, two batches, a failing render, a status request |
| ring (`RingQueue`) | `Fifo` implemented | capacity 2, grown to 3, 4 and 6 by up to 5 values: growth at every position of start |
| cache (`MCTileCache`) | accounted for, owned, expiry of idle keys and no others, `CacheMap` implemented | 3 keys, one with an image as large as the cache, room for 2, a first capacity of 1, so that it doubles; a decay period of 2, a clock modulo 5 that stands, goes on by 1 or 3, wraps and is set back once |
| serve (`MCTileServer_serve`) | the right image, stored tiles served, a result written only while its thread waits, every request answered | 2 HTTP threads, 1 renderer, a cache of one image, 3 requests; URLs of one position in both sizes, of the position with x and y exchanged, with `cached=true` in and behind the parameters that are read, a refused size and a path that ends early; 1 bit each for x, y and zoom, which these positions fill, so that a part moved by a bit meets the next; any read of the database may fail, batches may be dropped |
| wal (`MCSqliteWal_wal`) | readers keep their snapshot, commits are atomic and durable, the writer reads its spilled pages, the checkpoint ends; `SnapshotStore` implemented | 1 reader, 2 pages, 2 read marks besides mark 0, 3 frames, so that a transaction may fill the disk; 2 transactions, the second may change a page twice and so write over a frame of its own; 1 checkpoint, after which the log is restarted; 1 crash, in any step, with any outcome for every write that is not synced |
| fill (`MCPolyFill`) | the tiles listed are the polygon's, batches are good, the fill ends | every triangle, up to rotation, whose corners lie on the grid of half tiles over 5 x 5 tiles and whose lines avoid the corners of tiles; batches of 1, 2 and 5 |
| prerender_relisted, prerender_never_ends | disagreements, below | the smallest instance that shows them |

Deadlock is checked in `ring`, `cache` and `serve`. In the others the model
stops when the bounded supply of writes, calls or jobs is used up, and the cfg
says so; there the liveness properties and `NoneOngoingAtRest` look for what a
deadlock would be.

The bounds that are not the program's: `MaxCommits`, `MaxCrashes`, `MaxFaults`,
`MaxLength`, `MaxRequests`,
`MaxSetBacks`, `MaxStatus`, in `SqliteWal` `MaxTx`, `MaxVersion`, `MaxCheckpoints`
and `MaxFrame` (the room on the disk), in `MCPolyFill` `Size` and `Extent`, and the
finite sets of writes, tasks, jobs, keys, URLs and buffers.

### Fairness

* Write queue: weak fairness of the write thread and of a thread that owes a
  `sem_post`. Both are runnable threads that no lock blocks for ever: the lock is
  held by the write thread itself during an insert, or for a few instructions.
  Nothing is assumed of pushes and commit requests.
* Task pool: weak fairness of every caller inside a call and every worker. A
  worker asleep is enabled only when the semaphore is positive; that any one of
  several sleepers gets the wake-up is enough, no strong fairness is used.
* Prerender: weak fairness of workers, the write thread and a status request, nothing
  for prerender requests.
* SqliteWal: weak fairness of a checkpoint that has begun, and of nothing else: a reader
  may keep its read transaction for ever, as a thread without requests does.
* PolyFill: weak fairness of a call, which waits for nobody, and of the task that calls
  again.
* TileCache: `run_loop` calls `ts_cache_update` at least every 100 ms
  (`tilesweep.c:510`), and the clock goes on: setting it back is no progress.
* TileServer: the HTTP thread in `serve_tile`, and the fairness `TaskBag` promises,
  which the run pool shows of the pool. Nothing is assumed of clients.

### Where code and text disagree

* prerender_relisted (`tilesweep.c:207`): the gate of a render is one add and three
  loads. The renders of the last two tiles may both pass it; the second removes
  and frees counters that are gone, or that belong to a new job by then, which
  runs unlisted.
* prerender_never_ends (`tilesweep.c:246`): a calculation decrements
  `indice_calcs_remain` after posting its renders and looks at nothing. If they
  have all returned, nobody finishes the job or commits.

Further limits of the code are in the models as they are, and no property
claims otherwise. `image_db_exists` does not know sizes (`image_db.c:81`), so a tile
stored in one size keeps the prerender of the other from storing it, though the panel
offers both. The key of the memory cache holds the width only (`tilesweep.c:418`), so a
cached 256x512 image is served for `.../256/256`; the README of the server offers square
sizes. `tile_hash` has room for x and y below 2^20, which is up to zoom 20, and the key of
the memory cache for zooms below 2^8: beyond, 0/0/256/256/256 has the key of 0/0/0/512/512
and is answered with its image. A read of the database that SQLite answers with BUSY
or an error looks like a missing row (`image_db.c:110-130`): `serve_tile` renders the stored
tile again, or answers 204 if it may not, and `render_tile_background` renders it again;
what is rendered again is stored again, as one more row.

A request without a zoom (`minZoom` above `maxZoom`, or fewer than three
coordinates) also leaves a job on the list for ever: `make_tile_calc_jobs` returns
NULL and no task could finish it (`tilesweep.c:272`). The runs hold jobs with zooms.

The passing prerender runs claim only what these leave: with one worker the gate is
not raced, and with two nothing is said of the list.

## Proofs

TLAPS proves for every value of the constants what the runs check on instances.

* `WriteQueueProofs`. `TypeCorrect`, `BatchFits`: the types, strengthened by what
  the write thread knows at each place (`TypeInv`: the batch is empty while it
  waits, no longer than `FullThreshold` when it inserts). `WakeupsSuffice`,
  `LostWakeupFree`: `NoLostWakeup` speaks of a waiting thread only and is not
  inductive, since a drain or a decision to do nothing gives up a wake-up;
  `WakeupInv` counts, at every place, semaphore, owed posts and the wake-up in hand
  against the writes beyond those that may be left. `BeginNeverRefused` assumes that
  SQLite does not answer BUSY to a COMMIT and keep the transaction;
  `TablesAlwaysAgree` assumes that only COMMITs and checkpoints fail. Both are
  hypotheses of the theorems, and the queue_errors run has the other failures.
  `QueueIsStore`: the write queue and the tables refine
  `TileStore` when what fails is a COMMIT, a checkpoint or the process
  (`WholeBatchFaults`, a hypothesis of the theorem: an INSERT that fails alone breaks a
  batch in two, which `TileStore` does not allow). A statement is a stutter, the COMMIT
  stores the batch. That it stores all of it needs `StoreInv`: the open transaction holds
  the rows before the cursor and no others, and no write is in the queue twice.
  `FaultsBoundDangling` has no hypothesis: `MissingInv` counts the tile rows without an
  image that are committed, that the transaction at hand would commit or that the
  next statement inserts, and one failure adds at most one.
* `TaskPoolProofs`. `TypeCorrect`, and `SearchersHaveTasks`, `SearchNeverFails`: a
  single search may pass an empty queue that is filled a moment later, so
  `NoEmptySearch` needs the count over all searchers: those at or beyond a queue
  are no more than the tasks at or beyond it, and wake-ups posted or owed are no
  more than the tasks the searchers leave (`SearchInv`). The induction uses the
  cardinality theorems of the library on the sets of places and owed posts.
  On top of that, `TasksNotFreed`, `SemaphoreThere`: the worker and the
  waiting client both destroy tasks, and the semaphore is on the client's stack. Neither
  invariant is inductive. `LifeInv` says where a task can be: before its call pushes it
  nowhere, then in one place of one queue, with one worker, or done; and it counts for
  every client the wake-ups posted and the waits made against the tasks of its call that
  are done, so the last wait is made when all of them are.
  `PoolIsBag`: with `LifeInv` the push, the search that finds a task and
  the return from it are the three steps of `TaskBag`, and all others are stutters. This is
  `ImplementsBag` but for the fairness in it.
* `PolyFillProofs`. `FillIsWhole`: a finished fill has listed the polygon, for every outline,
  every set of inside tiles and every batch size. Its invariant says of every moment what
  the three cursors stand for: the tiles of the spans before the cursor and of the part of
  the current one are listed or in the batch at hand, and none else (`Accounted`), and the
  outline is listed only behind the last span (`Order`).
  `BatchesAreGood`: the action property `GoodBatches`, for outlines in the order of the `qsort` in
  `fill_poly_state_init` (`ShapesAssumption`). A tile the cursors come to has been seen before
  only if it is the neighbour before it in the outline: spans lie between neighbours of a sorted
  outline, so no tile of it is in a span and no two spans meet (`HereIsNew`, `TileIsNew`).
  That a batch is not empty needs `BatchFits`: a call that has listed nothing yet has some of
  the outline left.
* `PrerenderProofs`. `FinishesComplete`, `OngoingStaysListed`, `TypeCorrect` hold for every
  number of workers while no freed block of counters is allocated again (`FreshBlocks`, a
  hypothesis on the behaviour). Without it a job may run unlisted: two renders may pass the
  gate of one job, and the second removes and frees what may be another job's by then,
  which is prerender_relisted. For one worker the hypothesis is not needed (`OneWorkerSafe`), and
  `CountersAlive`, `RestsEmpty` hold as well; the latter for jobs that have a zoom, since a
  job without one is never taken off the list. The inductive invariant says where every
  worker is in its task (`ExecInv`), which tasks are known when (`TaskInv`; for `RestsEmpty`
  `PostInv`: what a task has to post is known or still with the worker at it), that each
  counter of a block is the number of tasks that have passed the line that changes it, for
  every place in between (`CountersInv`), which job a block belongs to (`OwnerInv`), and what a render that has read one counter of the
  gate may conclude from it (`GateInv`): the counts only converge once the last calculation
  has returned, so a gate that read them in this order has seen their final values.
  For `RestsEmpty` the last render to count itself is shown to find the gate open
  (`OneOver`). TLC checks the invariant on the instances of the runs.
* `TileServerProofs`. `AnswersMatch`: an answer is the tile asked for. Every
  image in a cache has the key of its own tile and every stored row an accepted
  tile, so a hit can only be wrong if two accepted tiles share a key. The hypotheses
  are that the parts of hash and key have their places (`KeyParts`: accepted x and y below
  a bound X, zooms below a bound Z, hash and key sums of multiples of them; 2^20 and 2^8 in the
  code) and that only square tiles are accepted (`SquareTiles`; the key holds the width
  only). `KeysExact` concludes that keys tell tiles apart (`HashIsExact`, `KeyIsExact`), for any
  X and Z. The code has an or where `KeyParts` has a sum: bitwise operators are recursive
  and out of the provers' reach, and that the two agree while the tiles fit is what TLC
  evaluates in the run cache (`PartsInPlace` of `MCTileCache`: every tile that fits 2 bits
  for x and y and 3 for the zoom, in both sizes). From zoom 256 on `KeyParts` does not hold.
  `StoredServed`: the rows a request finds stay through all steps of the others, so a
  stored tile is served unless reading its row fails.
* `TileCacheProofs`. `CacheIsMap`: the whole refinement `ImplementsMap`; with it
  `MemoryIsAccounted`, `BuffersAreOwned` and the action property `OnlyIdleExpires`. The
  searches and the loop of `ts_cache_update` are recursive functions, and what they compute
  is proved by induction: a set of naturals without a smallest element is empty
  (`Induction`, from the library's theorem that < is well-founded), so no range is a smallest
  one on which `binary_search` errs (`SearchFinds`, `InsertSeparates`) and no prefix of the slots
  one where the loop miscounts (`KeptIs`). `IdleCovers` is the strengthening for expiry: a slot is
  no older than its key is idle, where the age is taken modulo 2^32 (`AgeGrows`).
* `SqliteWalProofs`. `TypeCorrect`, `WriterReads`, and `ReadersKeepTheirSnapshot`: for any
  number of readers, read marks, pages and frames a reader sees, when its lock is in place,
  what is committed then, and the same of every page until it ends. The two action properties it
  states, `SeesTheStore` and `SeesTheSame`, are the readers' part of `SnapshotStore`. All
  three rest on `WalInv`, whose parts need each other. A reader takes its lock several steps
  after it has read the header: `ReadInv` says that a header a connection holds is of the
  past, so one that compares equal to the live one is the live one, and that lock 0 is asked for
  only when the whole log of that header is in the database. What a reader sees stays
  because its mark holds the checkpoint back (`ReaderInv`, for every place of the loop over
  the marks, where some are already looked at and others not), and because lock 0 and the
  marks are held exclusively while pages are copied and the log is restarted
  (`LockInv`). `DbInv` says what the copying has reached: the database has, of every page
  whose last frame is written back, the value of that frame, so that reading either gives the
  same. `OwnInv` is the writer's side: the frames of the open transaction lie
  behind the committed ones, where no reader looks, and the last of each page has what the
  pager has, also after one was overwritten and after the log was restarted in
  mid-transaction. Crashes are among the steps: `LastWritten` and `CountInv` bound what
  recovery can find.
* `SqliteCrashProofs`. `SnapshotsSurvive`: the whole of `ImplementsSnapshots`, crashes
  included, without a further hypothesis. `WalInv` speaks of what the connections see, which
  is what was written last; after a loss of power any part of the unsynced writes may be there,
  so `CrashInv` speaks of everything that may be left (`loose`). Its core is `LogInv`: for every log
  header that may be on the disk there is a number d of frames that are all synced, chain on
  from that header and, with what the database file may hold, show the store; and no commit mark
  behind the d-th can count, unless it is the one of the transaction in progress and
  every frame of it is written. When the log is restarted the old header and the new one may
  both be left, and both show the store, since the restart waits until everything is written
  back and synced (`DiskInv`) and the new header is synced before the first frame is written
  (`SaltInv`). A mark behind the d-th frame cannot count because some frame it is the sum of can
  no longer be there (`Harmless`): frames of an earlier log have other salts, and those of
  a transaction that was rolled back are overwritten from the first on, by one that writes
  other values, since a value names its transaction (`ValueInv`, `FrameInv`). A transaction
  that spills writes over its own frames, and the sums behind them are wrong until they
  are computed again: `TailInv` says from where, and that no commit mark is written before the
  last frame. Given `CrashInv`, `CrashStore` shows that recovery, which takes the last mark whose
  sum holds, finds the store or, when all is written, what the commit in progress makes.
  The other steps map to `SnapshotStore` thus: `Publish` is the commit, the last step of
  `BeginRead` and `EndRead` those of a reader, the start and the end of a commit those of `pending`,
  and the rest are stutters, by the lemmas of `SqliteWalProofs`.
* `WriteQueueProofs` also has the theorems of `RingQueue`. `RingTypeCorrect`, and `RingIsFifo`:
  the initial ring maps to the empty queue and every step to a step of `Fifo`. The lemma that
  carries it, `GrownContents`, says that the two copies of a growing push leave the contents
  as they were.

Assumptions: the named ASSUMEs of the modules (`QueueAssumption`,
`PoolAssumption`, ...). They hold of the code's constants. `PoolAssumption` says that no
task waits for another one, which is so of the tasks the program has, and
`FreshTasksAssumption` that every post hands in tasks it has just created. TLC evaluates
them in every run.

`WakeupInv`, `SearchInv`, `LifeInv`, `MissingInv`, `TablesAgree` and the invariants of
`PrerenderProofs`, `TileServerProofs`, `TileCacheProofs`, `SqliteWalProofs` and
`SqliteCrashProofs` are proved and not listed with the runs: they are what the properties above
rest on.

Only model-checked: everything temporal that needs fairness (`CommitReachesDisk`,
`QueueDrains`, `CallsReturn`, `TilesReachDisk`, `IdleExpires`, `RequestsAnswered`,
`CheckpointReturns`, `FillEnds`, the fairness in `ImplementsBag`), which with ENABLED is out of the prover's reach; what is
built on recursive or bitwise operators (`FillsPolygon` with its geometry, `TileHash`);
`ResultAwaited`.

## Abstractions of the SQLite model

The wal-index header is read and written in one step: a torn copy differs from its twin
or its checksum and is read again. A lock and the first read under it, and the last
write and an unlock, are one step. The hash tables of the wal-index are left to the page
numbers of the frames. Checksums are ideal and salts of a restarted log fresh. A write
that is not synced may survive, be lost or leave a torn frame or page, each on its own;
the log header is one sector. `synchronous` is FULL, the default, and automatic
checkpoints are off (`image_db.c:28`). The end of the process alone, which loses nothing
that was written, is one of the outcomes of `Crash`. When a busy handler gives up is not
timed: it may at any time. `sqlite3WalClose` is left out, since no connection is closed.
The comment at `sqlite3.c:59119-59122` says that after a RESTART checkpoint the next
writer restarts the log; a reader that begins before that writer does may keep it from
doing so, and nothing here relies on it.

## Not modelled, and the plan

1. Startup: renderers set up on the pool, a database that cannot be opened (the
   write queue gets a NULL connection; `main` joins workers that never end).
2. Composition of RingQueue with TaskPool and WriteQueue is by substitution only:
   they use sequences, which `RingIsFifo` justifies. In the same way `SnapshotStore` stands
   for the sets of rows that TileServer and Prerender read in one step.
3. Several rows of one tile, which two jobs, or a job and a request, may store:
   TileServer takes any of them, in a model where they show the same image.
Out of scope: the Mapnik renderer (an outcome in the models), option parsing, the
Mercator projection, JSON, the panel, the vendored h2o and parsers, and the rest of
SQLite. `sqlite3.c` is nine tenths of the repository's C code, so the share of lines the
`map` covers is small whatever is modelled of the server: of `tilesweep.c`, the write
queue, the pool, the cache, the ring, the database and the polygon fill it is most.
