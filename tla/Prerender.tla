----------------------------- MODULE Prerender -----------------------------
(***************************************************************************)
(* Prerendering (tilesweep.c, prerender.c, stats.c): start_prerender posts *)
(* a setup task, setup posts a calculation per zoom, a calculation posts a *)
(* render task per tile of its batch and then the next batch or its end,   *)
(* and the render that finds the job complete takes it off the list of     *)
(* jobs, frees its counters and commits the write queue.                   *)
(*                                                                         *)
(* The pool and the write queue are the abstract TaskBag and TileStore,    *)
(* which TaskPool and WriteQueue implement.  What a worker does between    *)
(* two shared accesses is one step.                                        *)
(***************************************************************************)
EXTENDS Naturals, Sequences, FiniteSets

CONSTANTS
  Workers, Jobs, Tiles,
  Batches,      (* per job, per zoom: the batches of tiles calc_tiles returns *)
  Location,     (* per tile: its tile_hash, zoom and coordinates without size *)
  Blocks,       (* the memory blocks calloc may return for a job's counters *)
  MinBatch,     (* insert_threshold of the write queue *)
  MayFail,      (* tiles render_tile may fail on *)
  MaxStatus     (* bound: requests for the status *)

Elems(s)    == {s[i] : i \in DOMAIN s}
TilesOf(j)  == UNION {UNION {Elems(b) : b \in Elems(z)} : z \in Elems(Batches[j])}
Zooms(j)    == DOMAIN Batches[j]

(* Where the tiles of all jobs come from: job, zoom, batch and index.      *)
Places ==
  UNION {UNION {UNION {
    {<<j, z, b, i>> : i \in DOMAIN Batches[j][z][b]} : b \in DOMAIN Batches[j][z]}
                                                      : z \in Zooms(j)} : j \in Jobs}
TileAt(p) == Batches[p[1]][p[2]][p[3]][p[4]]

(* A zoom has at least a batch and a batch at least a tile: the outline of *)
(* the polygon is never empty.  A tile names one result of calc_tiles; one *)
(* that is returned again, by a later batch or for another job, has a name *)
(* of its own and the same Location.                                       *)
ASSUME PrerenderAssumption ==
  /\ MinBatch \in Nat \ {0}
  /\ MayFail \subseteq Tiles
  /\ MaxStatus \in Nat
  /\ "free" \notin Jobs /\ "none" \notin Blocks
  /\ Batches \in [Jobs -> Seq(Seq(Seq(Tiles)))]
  /\ \A j \in Jobs : \A z \in Zooms(j) :
       Len(Batches[j][z]) > 0 /\ \A b \in Elems(Batches[j][z]) : Len(b) > 0
  /\ \A p, q \in Places : TileAt(p) = TileAt(q) => p = q

SetupTask(j)      == [type |-> "setup", job |-> j]
CalcTask(j, z, b) == [type |-> "calc", job |-> j, zoom |-> z, batch |-> b]
RenderTask(j, t)  == [type |-> "render", job |-> j, tile |-> t]
CalcTasks(j) ==
  UNION {{CalcTask(j, z, b) : b \in DOMAIN Batches[j][z]} : z \in Zooms(j)}
RenderTasks(j) == {RenderTask(j, t) : t \in TilesOf(j)}
Tasks ==
  {SetupTask(j) : j \in Jobs} \cup
  (UNION {CalcTasks(j) : j \in Jobs}) \cup (UNION {RenderTasks(j) : j \in Jobs})

VARIABLES
  queued, running, done,             (* the pool, see TaskBag *)
  pending, writing, stored, force,   (* the write queue, see TileStore *)
  exec,     (* per worker: the task it executes and where it is in it *)
  owner,    (* per block: the job it is allocated to, or "free" *)
  stats,    (* per job: its pointer to the counters, "none" before setup *)
  counters, (* per block: num_tilecoords, current_tiles, indice_calcs_remain *)
  prerenders,   (* stats->prerenders, the list of job counters *)
  rendered,     (* tiles whose render task has counted itself *)
  reading,      (* get_status: the entry of the list it comes to, or 0 *)
  job_stats,    (* get_status: the counters it copies, or "none" *)
  statuses      (* requests for the status so far *)

bagVars   == <<queued, running, done>>
storeVars == <<pending, writing, stored, force>>
jobVars   == <<owner, stats, counters, prerenders, rendered>>
statusVars == <<reading, job_stats, statuses>>
vars == <<bagVars, storeVars, exec, jobVars, statusVars>>

Bag   == INSTANCE TaskBag WITH NumWorkers <- Cardinality(Workers), pending <- queued
Store == INSTANCE TileStore WITH Items <- Tiles

Idle == [pc |-> "idle"]
Zero == [num |-> 0, cur |-> 0, remain |-> 0]

TypeOK ==
  /\ queued \subseteq Tasks /\ running \subseteq Tasks /\ done \subseteq Tasks
  /\ pending \subseteq Tiles /\ writing \subseteq Tiles /\ stored \subseteq Tiles
  /\ force \in BOOLEAN
  /\ running = {exec[w].task : w \in {v \in Workers : exec[v] # Idle}}
  /\ owner \in [Blocks -> Jobs \cup {"free"}]
  /\ stats \in [Jobs -> Blocks \cup {"none"}]
  /\ counters \in [Blocks -> [num : Nat, cur : Nat, remain : Nat]]
  /\ prerenders \in Seq(Blocks)
  /\ rendered \subseteq Tiles
  /\ reading \in 0..Len(prerenders) + 1 /\ job_stats \in Blocks \cup {"none"}
  /\ statuses \in 0..MaxStatus

Init ==
  /\ Bag!Init /\ Store!Init
  /\ exec = [w \in Workers |-> Idle]
  /\ owner = [b \in Blocks |-> "free"]
  /\ stats = [j \in Jobs |-> "none"]
  /\ counters = [b \in Blocks |-> Zero]
  /\ prerenders = <<>>
  /\ rendered = {}
  /\ reading = 0 /\ job_stats = "none" /\ statuses = 0

-----------------------------------------------------------------------------
(* start_prerender. *)
StartPrerender(j) ==
  /\ Bag!Submit(SetupTask(j))
  /\ UNCHANGED <<storeVars, exec, jobVars>>

(* pool_task: a worker takes a task. *)
FirstPc == [setup |-> "create", calc |-> "count", render |-> "exists"]
Take(w, t) ==
  /\ exec[w] = Idle
  /\ Bag!Start(t)
  /\ exec' = [exec EXCEPT ![w] = [pc |-> FirstPc[t.type], task |-> t, i |-> 1]]
  /\ UNCHANGED <<storeVars, jobVars>>

At(w, pc)   == exec[w].pc = pc
Goto(w, pc) == exec' = [exec EXCEPT ![w].pc = pc]
Job(w)      == exec[w].task.job
Ptr(w)      == stats[Job(w)]

(* The task returns. *)
Return(w) ==
  /\ Bag!Finish(exec[w].task)
  /\ exec' = [exec EXCEPT ![w] = Idle]

-----------------------------------------------------------------------------
(* The lock of the list, which get_status holds from the first entry on.   *)
ListUnlocked == reading = 0

(* setup_prerender: allocate and list the counters, then post one          *)
(* calculation per zoom; none if make_tile_calc_jobs returned NULL.        *)
CreateStats(w) ==
  LET j == Job(w) IN
  /\ At(w, "create") /\ ListUnlocked
  /\ \E b \in Blocks :
       /\ owner[b] = "free"
       /\ owner' = [owner EXCEPT ![b] = j]
       /\ stats' = [stats EXCEPT ![j] = b]
       /\ counters' = [counters EXCEPT ![b] = [Zero EXCEPT !.remain = Len(Batches[j])]]
       /\ prerenders' = Append(prerenders, b)
  /\ Goto(w, "postCalcs")
  /\ UNCHANGED <<bagVars, storeVars, rendered>>

PostCalc(w) ==
  LET j == Job(w)  z == exec[w].i IN
  /\ At(w, "postCalcs")
  /\ IF z \in Zooms(j)
       THEN Bag!Submit(CalcTask(j, z, 1)) /\ exec' = [exec EXCEPT ![w].i = z + 1]
       ELSE Return(w)
  /\ UNCHANGED <<storeVars, jobVars>>

-----------------------------------------------------------------------------
(* calculate_tiles *)
BatchOf(w) == LET t == exec[w].task IN Batches[t.job][t.zoom][t.batch]

CountBatch(w) ==
  /\ At(w, "count")
  /\ counters' = [counters EXCEPT ![Ptr(w)].num = @ + Len(BatchOf(w))]
  /\ Goto(w, "postRenders")
  /\ UNCHANGED <<bagVars, storeVars, owner, stats, prerenders, rendered>>

LastBatch(t) == t.batch = Len(Batches[t.job][t.zoom])

PostRender(w) ==
  LET i == exec[w].i IN
  /\ At(w, "postRenders")
  /\ IF i <= Len(BatchOf(w))
       THEN /\ Bag!Submit(RenderTask(Job(w), BatchOf(w)[i]))
            /\ exec' = [exec EXCEPT ![w].i = i + 1]
       ELSE /\ Goto(w, IF LastBatch(exec[w].task) THEN "finishZoom" ELSE "nextBatch")
            /\ UNCHANGED bagVars
  /\ UNCHANGED <<storeVars, jobVars>>

(* Mutant: every calculation of a zoom counts itself as its last. *)
PostNextBatch_CountsDown(w) ==
  LET t == exec[w].task IN
  /\ At(w, "nextBatch")
  /\ Bag!Submit(CalcTask(t.job, t.zoom, t.batch + 1))
  /\ counters' = [counters EXCEPT ![Ptr(w)].remain = @ - 1]
  /\ Goto(w, "return")
  /\ UNCHANGED <<storeVars, owner, stats, prerenders, rendered>>

(* The end of a batch: the next one is posted, or the zoom is finished.    *)
PostNextBatch(w) ==
  LET t == exec[w].task IN
  /\ At(w, "nextBatch")
  /\ Bag!Submit(CalcTask(t.job, t.zoom, t.batch + 1))
  /\ Goto(w, "return")
  /\ UNCHANGED <<storeVars, jobVars>>

FinishZoom(w) ==
  /\ At(w, "finishZoom")
  /\ counters' = [counters EXCEPT ![Ptr(w)].remain = @ - 1]
  /\ Goto(w, "return")
  /\ UNCHANGED <<bagVars, storeVars, owner, stats, prerenders, rendered>>

-----------------------------------------------------------------------------
(* render_tile_background *)

(* image_db_exists looks for the location in any size. *)
Exists(t) == \E u \in stored : Location[u] = Location[t]

(* Mutant: a tile that exists returns without being counted. *)
CheckExists_NotCounted(w) ==
  /\ At(w, "exists")
  /\ \/ Exists(exec[w].task.tile) /\ Goto(w, "return")
     \/ Goto(w, "render")
  /\ UNCHANGED <<bagVars, storeVars, jobVars>>

(* The count is 0 without a row, and also when the rows cannot be read. *)
CheckExists(w) ==
  /\ At(w, "exists")
  /\ \/ Exists(exec[w].task.tile) /\ Goto(w, "addCurrent")
     \/ Goto(w, "render")
  /\ UNCHANGED <<bagVars, storeVars, jobVars>>

Render(w) ==
  LET t == exec[w].task.tile IN
  /\ At(w, "render")
  /\ \/ Store!Put(t)
     \/ t \in MayFail /\ UNCHANGED storeVars
  /\ Goto(w, "addCurrent")
  /\ UNCHANGED <<bagVars, jobVars>>

AddCurrent(w) ==
  /\ At(w, "addCurrent")
  /\ counters' = [counters EXCEPT ![Ptr(w)].cur = @ + 1]
  /\ rendered' = rendered \cup {exec[w].task.tile}
  /\ Goto(w, "loadRemain")
  /\ UNCHANGED <<bagVars, storeVars, owner, stats, prerenders>>

(* The loads of the gate.  A block that was freed holds anything.          *)
Gate(w, open, pass) ==
  \/ /\ open \/ owner[Ptr(w)] = "free"
     /\ Goto(w, pass)
  \/ /\ ~open \/ owner[Ptr(w)] = "free"
     /\ Goto(w, "return")

(* Mutant: calculations still to be made do not close the gate. *)
LoadRemain_Ignored(w) ==
  /\ At(w, "loadRemain")
  /\ Goto(w, "loadCounts")
  /\ UNCHANGED <<bagVars, storeVars, jobVars>>

LoadRemain(w) ==
  /\ At(w, "loadRemain")
  /\ Gate(w, counters[Ptr(w)].remain = 0, "loadCounts")
  /\ UNCHANGED <<bagVars, storeVars, jobVars>>

LoadCounts(w) ==
  /\ At(w, "loadCounts")
  /\ Gate(w, counters[Ptr(w)].cur = counters[Ptr(w)].num, "remove")
  /\ UNCHANGED <<bagVars, storeVars, jobVars>>

(* Mutant: the last entry is dropped, whichever was to be removed. *)
Without_DropsLast(list, b) ==
  IF b \notin Elems(list) THEN list ELSE SubSeq(list, 1, Len(list) - 1)

(* tilesweep_stats_remove_prerender: the last entry takes its place. *)
Without(list, b) ==
  IF b \notin Elems(list) THEN list
  ELSE LET i == CHOOSE k \in DOMAIN list :
                  list[k] = b /\ \A m \in DOMAIN list : list[m] = b => k <= m
       IN  SubSeq([list EXCEPT ![i] = list[Len(list)]], 1, Len(list) - 1)

(* Mutant: the list is changed without its lock. *)
RemovePrerender_NoLock(w) ==
  /\ At(w, "remove")
  /\ prerenders' = Without(prerenders, Ptr(w))
  /\ Goto(w, "destroy")
  /\ UNCHANGED <<bagVars, storeVars, owner, stats, counters, rendered>>

RemovePrerender(w) ==
  /\ At(w, "remove") /\ ListUnlocked
  /\ prerenders' = Without(prerenders, Ptr(w))
  /\ Goto(w, "destroy")
  /\ UNCHANGED <<bagVars, storeVars, owner, stats, counters, rendered>>

DestroyStats(w) ==
  /\ At(w, "destroy")
  /\ owner' = [owner EXCEPT ![Ptr(w)] = "free"]
  /\ Goto(w, "commit")
  /\ UNCHANGED <<bagVars, storeVars, stats, counters, prerenders, rendered>>

(* Mutant: the last render of a job does not ask for a commit. *)
Commit_NotRequested(w) ==
  /\ At(w, "commit")
  /\ Goto(w, "return")
  /\ UNCHANGED <<bagVars, storeVars, jobVars>>

Commit(w) ==
  /\ At(w, "commit")
  /\ Store!RequestCommit
  /\ Goto(w, "return")
  /\ UNCHANGED <<bagVars, jobVars>>

TaskReturns(w) ==
  /\ At(w, "return")
  /\ Return(w)
  /\ UNCHANGED <<storeVars, jobVars>>

-----------------------------------------------------------------------------
(* get_status, on an HTTP thread: under the lock, entry by entry.          *)
StatusLock ==
  /\ ListUnlocked /\ statuses < MaxStatus
  /\ reading' = 1 /\ statuses' = statuses + 1
  /\ UNCHANGED job_stats

StatusNext ==
  /\ reading \in DOMAIN prerenders
  /\ job_stats' = prerenders[reading]
  /\ reading' = reading + 1
  /\ UNCHANGED statuses

StatusUnlock ==
  /\ reading > Len(prerenders)
  /\ reading' = 0 /\ job_stats' = "none"
  /\ UNCHANGED statuses

GetStatus ==
  /\ StatusLock \/ StatusNext \/ StatusUnlock
  /\ UNCHANGED <<bagVars, storeVars, exec, jobVars>>

-----------------------------------------------------------------------------
(* The write thread. *)
WriteBatch ==
  /\ \/ \E batch \in SUBSET pending : Store!Take(batch)
     \/ Store!Store
  /\ writing # {} \/ pending # {} \/ force
  /\ UNCHANGED <<bagVars, exec, jobVars>>

WorkerStep(w) ==
  \/ \E t \in queued : Take(w, t)
  \/ CreateStats(w) \/ PostCalc(w)
  \/ CountBatch(w) \/ PostRender(w) \/ PostNextBatch(w) \/ FinishZoom(w)
  \/ CheckExists(w) \/ Render(w) \/ AddCurrent(w) \/ LoadRemain(w) \/ LoadCounts(w)
  \/ RemovePrerender(w) \/ DestroyStats(w) \/ Commit(w) \/ TaskReturns(w)

Next ==
  \/ /\ \/ \E j \in Jobs : StartPrerender(j)
        \/ \E w \in Workers : WorkerStep(w)
        \/ WriteBatch
     /\ UNCHANGED statusVars
  \/ GetStatus

Spec == Init /\ [][Next]_vars
FairSpec ==
  /\ Spec
  /\ WF_vars(WriteBatch /\ UNCHANGED statusVars)
  /\ \A w \in Workers : WF_vars(WorkerStep(w) /\ UNCHANGED statusVars)
  /\ WF_vars(GetStatus)

-----------------------------------------------------------------------------
Started(j)  == stats[j] # "none"
Complete(j) == TilesOf(j) \subseteq rendered
Active(w)   == exec[w] # Idle

(* The gate of a render opens only when every tile of every zoom of the    *)
(* job has been counted, although num_tilecoords grows batch by batch.     *)
NoPrematureFinish ==
  \A w \in Workers : At(w, "remove") => Complete(Job(w))

(* A task that reads or writes the counters of its job finds them          *)
(* allocated to that job, and the status request those of a job that has   *)
(* been set up: neither a render nor get_status outlives the render that   *)
(* frees them.                                                             *)
StatsAlive ==
  /\ \A w \in Workers :
       exec[w].pc \in {"count", "finishZoom", "addCurrent", "loadRemain", "loadCounts",
                       "remove", "destroy"}
       => owner[Ptr(w)] = Job(w)
  /\ job_stats # "none" => owner[job_stats] # "free"

(* While tiles of a job are still to be rendered, the job is listed. *)
OngoingListed ==
  \A j \in Jobs : Started(j) /\ ~Complete(j) => stats[j] \in Elems(prerenders)

(* When the pool has nothing left to do, no job is ongoing. *)
NoneOngoingAtRest == queued = {} /\ running = {} => prerenders = <<>>

(* Every tile of a prerendered job ends in the database, in a batch of its *)
(* own if fewer than MinBatch are left, or its location was there already. *)
TilesReachDisk ==
  \A j \in Jobs : \A t \in TilesOf(j) \ MayFail :
    t \in rendered ~> Exists(t)
=============================================================================
